SPECIFICATION SessionSpec
CONSTANTS
    u1 = u1  u2 = u2  u3 = u3
    bot = bot  alt = alt  ann = ann  joe = joe  eve = eve
    cats = cats  dogs = dogs
    NoNick = NoNick
    UserId = {u1, u2, u3}
    Nick = {bot, alt, ann, joe, eve}
    Channel = {cats}
    FirstNick = bot
    AltNick = alt
    Configured = {cats}
    MaxLinks = 10
    MaxConf = 2
    MaxNames = 6
    Settings <- AllSettings
    UnseenReuse = FALSE
    MaxQueue = 3
SYMMETRY Interchangeable
INVARIANTS
    ListsAccurate
    NobodyMissing
    ListedMeansOn
    OnlyWhereMeant
    KnowsOwnNick
PROPERTY ListsAsProved
