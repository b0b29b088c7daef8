SPECIFICATION RoutinesSpec
CONSTANTS
    small = small  capital = capital  second = second
    Byte = {small}
    LF = LF  CR = CR  Zero = Zero
    Size = 2
    MaxBytes = 7
    MaxLosses = 1
    Lower <- Fold
    Star = Star  One = One  Escape = Escape  Comma = Comma  NUL = NUL
    All <- Everywhere
    Masks <- SomeMasks
    Names <- SomeNames
    MaxCalls = 8
    Texts = {"NICK", "ALT"}
    Switches = {"NSERV"}
    Numbers = {"MAXTRIES"}
    Lines <- SomeLines
    MaxLines = 3
    Limit = 6
    PrefixLen = 2
    MaxText = 8
    MaxMessages = 3
INVARIANTS
    LinesFaithful
    BufferIsRest
    MatchTypeOK
    MasksAsMeant
    LimitFits
    ConfigAsWritten
    SaidAsMeant
CHECK_DEADLOCK FALSE
