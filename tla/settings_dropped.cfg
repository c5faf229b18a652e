SPECIFICATION SessionSpec
CONSTANTS
    Value = {"set"}
    None = None
    Settable = {"access_key", "secret_key", "security_token", "session_token", "region", "endpoint", "profile", "new_path_style"}
    Provided <- NoneOrEu
    UsWest2 = "us-west-2"
    NoClient = NoClient
INVARIANT AllSettingsUsed
