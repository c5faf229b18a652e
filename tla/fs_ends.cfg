SPECIFICATION RetrySpec
CONSTANTS
    Name <- PlainNames
    Extensions <- NoExtensions
    Alone <- PlainAlone
    Slashed <- PlainSlashed
    Tasks = {t1}
    Jobs <- RemoveAll
    Buckets <- BucketsBelow
    PageSize = 2
    MayFail = FALSE
    MayCancel = FALSE
    Tidy = TRUE
    MaxDepth = 5
    MaxLate = 0
PROPERTIES
    RemoveAllReturns
    RetriesRemoveAll
