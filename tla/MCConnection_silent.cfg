SPECIFICATION LiveSpec
CONSTANTS
    Servers = 1
    Fds = 3
    MaxTries = 0
    Timeout = 5
    KeepAlive = 0
    Delays = {0, 5}
    MaxAtt = 1
    Unset = {0}
    Resolvable = {1}
    AtOnce = {"open", "pending", "error"}
    Polite = TRUE
PROPERTY SilenceNoticed
