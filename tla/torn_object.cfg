SPECIFICATION Spec
CONSTANTS
    Writers = {w1}
    UploadId = {u1, u2}
    NoId = NoId
    NoObject = NoObject
    PartSize = 2
    MaxParts = 3
    MaxBytes = 4
    MaxResend = 0
    Faulty = {w1}
    Runtimes = {TRUE}
    StopAfterError = FALSE
INVARIANT ObjectIsWhole
\* The stream ends: it is closed and no request is left.
CHECK_DEADLOCK FALSE
