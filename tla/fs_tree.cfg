SPECIFICATION Spec
CONSTANTS
    Name <- DottedNames
    Extensions <- DottedExtensions
    Alone <- DottedAlone
    Slashed <- DottedSlashed
    Tasks = {t1}
    Jobs <- DeepJobs
    Buckets <- Empty
    PageSize = 3
    MayFail = TRUE
    MayCancel = TRUE
    Tidy = TRUE
    MaxDepth = 5
    MaxLate = 0
INVARIANTS
    RemoveAllLeavesNothing
    NoOrphans
    Descends
    ListsChildren
    OwnerInv
