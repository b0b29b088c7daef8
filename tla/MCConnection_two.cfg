SPECIFICATION Spec
CONSTANTS
    Servers = 2
    Fds = 3
    MaxTries = 0
    Timeout = 5
    KeepAlive = 0
    Delays = {5}
    MaxAtt = 1
    Unset = {0}
    Resolvable = {1, 2}
    AtOnce = {"pending"}
    Polite = TRUE
INVARIANTS
    WatchesOwn
