SPECIFICATION Spec
CONSTANTS
    Null = Null
    Node = {1, 2, 3, 4, 5, 6, 7, 8, 9}
    List <- Lists
    Name = {"chanop", "other"}
    File = {"chanop", "other"}
    FileOf <- Aliased
    Order <- Cleared
    Registers <- Hooks
    Drops <- Unhooks
    Own <- BotsOwn
    MayFail = {}
    Installed = {"chanop"}
INVARIANT ListedIsComplete
