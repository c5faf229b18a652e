SPECIFICATION FairSpec
CONSTANTS
    Writers = {w1, w2}
    UploadId = {u1, u2}
    NoId = NoId
    NoObject = NoObject
    PartSize = 2
    MaxParts = 2
    MaxBytes = 5
    MaxResend = 0
    Faulty = {w1}
    Runtimes = {TRUE}
    StopAfterError = TRUE
PROPERTIES
    FinishReturns
    FinishSucceeds
\* Streams end: every one is closed and no request is left.
CHECK_DEADLOCK FALSE
