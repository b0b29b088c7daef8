SPECIFICATION CalmLiveSpec
CONSTANTS
    u1 = u1  u2 = u2  u3 = u3
    bot = bot  alt = alt  ann = ann  joe = joe
    cats = cats  dogs = dogs
    NoNick = NoNick
    UserId = {u1, u2}
    Nick = {bot, alt, ann}
    Channel = {cats, dogs}
    FirstNick = bot
    AltNick = alt
    Configured = {cats}
    MaxConf = 1
    MaxLinks = 2
    MaxNames = 2
INVARIANTS
    IInv
    NoDangling
PROPERTIES
    HandlersReturn
    MembershipSpec
