SPECIFICATION Spec
CONSTANTS
    Writers = {w1}
    UploadId = {u1, u2, u3}
    NoId = NoId
    NoObject = NoObject
    PartSize = 2
    MaxParts = 3
    MaxBytes = 7
    MaxResend = 1
    Faulty = {w1}
    Runtimes = {TRUE}
    StopAfterError = FALSE
SYMMETRY Symmetry
INVARIANTS
    FullParts
    LeakBound
    OkInv
    PartsInv
    LeakInv
\* The stream ends: it is closed and no request is left.
CHECK_DEADLOCK FALSE
