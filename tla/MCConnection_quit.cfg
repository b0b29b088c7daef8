SPECIFICATION Spec
CONSTANTS
    Servers = 2
    Fds = 3
    MaxTries = 0
    Timeout = 10
    KeepAlive = 0
    Delays = {0, 5}
    MaxAtt = 5
    Unset = {0}
    Resolvable = {1, 2}
    AtOnce = {"pending", "error"}
    Polite = FALSE
INVARIANT QuitsOwn
