SPECIFICATION Spec
CONSTANTS
    Servers = 1
    Fds = 3
    MaxTries = 0
    Timeout = 10
    KeepAlive = 5
    Delays = {0, 5}
    MaxAtt = 5
    Unset = {0}
    Resolvable = {1}
    AtOnce = {"open", "pending", "error"}
    Polite = TRUE
PROPERTY BacksOff
