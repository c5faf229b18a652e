SPECIFICATION Spec
CONSTANTS
    Name <- PlainNames
    Extensions <- NoExtensions
    Alone <- PlainAlone
    Slashed <- PlainSlashed
    Tasks = {t1}
    Jobs <- CreateDir
    Buckets <- Empty
    PageSize = 100
    MayFail = TRUE
    MayCancel = TRUE
    Tidy = TRUE
    MaxDepth = 5
    MaxLate = 0
INVARIANT CreatesOnlyMissing
