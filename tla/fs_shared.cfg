SPECIFICATION Spec
CONSTANTS
    Name <- DottedNames
    Extensions <- DottedExtensions
    Alone <- DottedAlone
    Slashed <- DottedSlashed
    Tasks = {t1, t2}
    Jobs <- SharedJobs
    Buckets <- SharedBuckets
    PageSize = 100
    MayFail = FALSE
    MayCancel = TRUE
    Tidy = FALSE
    MaxDepth = 3
    MaxLate = 1
SYMMETRY TaskSymmetry
INVARIANTS
    TypeOK
    OverwritesOnlyFresh
    OrphansOnlyFresh
PROPERTIES
    OnlyBelow
    MissesOnlyFresh
