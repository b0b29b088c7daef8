SPECIFICATION RoutinesSpec
CONSTANTS
    small = small  capital = capital  second = second
    Byte = {small}
    LF = LF  CR = CR  Zero = Zero
    Size = 2
    MaxBytes = 0
    MaxLosses = 0
    Lower <- Fold
    Star = Star  One = One  Escape = Escape  Comma = Comma  NUL = NUL
    All <- Everywhere
    Masks <- EscapedMasks
    Names <- StarredNames
    MaxCalls = 8
    Texts = {"NICK", "ALT"}
    Switches = {"NSERV"}
    Numbers = {"MAXTRIES"}
    Lines <- SomeLines
    MaxLines = 0
    Limit = 6
    PrefixLen = 2
    MaxText = 8
    MaxMessages = 0
INVARIANT EscapesKept
CHECK_DEADLOCK FALSE
