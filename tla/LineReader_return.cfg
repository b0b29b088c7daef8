SPECIFICATION LiveSpec
CONSTANTS
    Byte = {a}
    LF = LF  CR = CR  Zero = Zero
    Size = 2
    MaxBytes = 4
    MaxLosses = 1
PROPERTY Returns
