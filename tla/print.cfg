SPECIFICATION Spec
CONSTANTS
    None = None
    Setting = {"baud", "density"}
    Builtin <- DefaultSettings
    Brother = {"ql"}
    IppPort = {"ippdesk"}
    FirstChannel = 1
    Scene <- AllScenes
INVARIANTS BatchInOrder NothingOfABadBatch OneTarget SettingsInOrder
CHECK_DEADLOCK FALSE
