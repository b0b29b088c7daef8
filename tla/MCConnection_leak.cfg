SPECIFICATION LuckySpec
CONSTANTS
    Servers = 1
    Fds = 2
    MaxTries = 0
    Timeout = 5
    KeepAlive = 0
    Delays = {5}
    MaxAtt = 1
    Unset = {0}
    Resolvable = {1}
    AtOnce = {"pending"}
    Polite = TRUE
PROPERTY ComesBack
