\* A ring of three bytes that writes of one and two bytes wrap round, and that
\* a write of four replaces by one of sixteen.
CONSTANTS
    BufferSize = 3
    Sizes = {2, 4}
    MaxBytes = 9
SPECIFICATION FairSpec
INVARIANTS IInv
PROPERTIES RefinesPipe WritesReturn BytesArrive
