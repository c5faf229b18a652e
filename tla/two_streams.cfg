SPECIFICATION Spec
CONSTANTS
    Writers = {w1, w2}
    UploadId = {u1, u2}
    NoId = NoId
    NoObject = NoObject
    PartSize = 2
    MaxParts = 2
    MaxBytes = 5
    MaxResend = 0
    Faulty = {w1, w2}
    Runtimes = {TRUE, FALSE}
    StopAfterError = TRUE
SYMMETRY Symmetry
INVARIANTS
    TypeOK
    WholeObject
    OkIsStored
    WholeInv
PROPERTY ImplementsAtomicObject
\* Streams end: every one is closed and no request is left.
CHECK_DEADLOCK FALSE
