\* The smallest ring that is opened, written to and closed.
CONSTANTS
    BufferSize = 2
    Sizes = {1, 2}
    MaxBytes = 3
SPECIFICATION FairSpec
PROPERTY CloseReturns
