SPECIFICATION FairSpec
CONSTANTS
    Value = {"set"}
    None = None
    Settable = {"access_key", "secret_key", "session_token", "region"}
    Provided <- NoneOrEu
    UsWest2 = "us-west-2"
    NoClient = NoClient
    Readers = {r1}
    MaxU64 = 4
    MaxSize = 3
    MaxVersions = 2
    NoObject = NoObject
INVARIANTS
    TypeOK
    ConnectedAsTold
    HonoursSettings
    ReadsRange
PROPERTY ReadEnds
