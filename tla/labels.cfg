SPECIFICATION Spec
CONSTANTS
    None = None
    ByteMax = 6
    LabelMax = 9
    Tolerance = 1
    Scene <- AllScenes
INVARIANTS CutsAsAsked ProgressNamesTheLabel FitsWhatIsLoaded
CHECK_DEADLOCK FALSE
