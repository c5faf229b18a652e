SPECIFICATION Spec
CONSTANTS
    Name <- PlainNames
    Extensions <- NoExtensions
    Alone <- PlainAlone
    Slashed <- PlainSlashed
    Tasks = {t1}
    Jobs <- RemoveAll
    Buckets <- BucketsBelow
    PageSize = 100
    MayFail = FALSE
    MayCancel = FALSE
    Tidy = FALSE
    MaxDepth = 5
    MaxLate = 0
INVARIANT RemoveAllLeavesNothing
