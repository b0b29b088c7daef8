SPECIFICATION LiveSpec
CONSTANTS
    ann = ann  joe = joe  Ann = Ann  Joe = Joe  Joe2 = Joe2
    cats = cats  dogs = dogs  home = home  work = work  pw = pw
    All = All  NoPassword = NoPassword  Wild = Wild
    FirstNick <- Starts
    Host <- Homes
    OpLevel = 0
    HopLevel = 0
    VoiceLevel = 1
    Password = {pw}
    User = {ann, joe}
    Nick = {Ann, Joe}
    Channel = {cats, dogs}
    Files <- MixedOnly
    ReqPass = TRUE
    Allowed = {"again"}
    MaxAsked = 1
    MaxNodes = 2
    Junk = {0, 99}
    FloodExempt = 0
INVARIANT LevelsCurrent
PROPERTY OpsEarned
PROPERTY Recognised
