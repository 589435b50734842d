SPECIFICATION Spec
CONSTANTS
    lab = lab
    LAB = LAB
    Word = {lab, LAB, office}
    Command = {x1, x2}
    Transport = {usb, ipp}
    Foreign = {}
    Nothing = Nothing
    Missing = Missing
    Unreadable = Unreadable
    Fold <- OneCase
    Uri <- OwnUri
    InitialFiles <- NewFile
    LegacyFiles <- OneLegacy
    ConnectionLimit = 2
    MaxEndpoints = 2
    MaxRestarts = 1
    SaveFaults = TRUE
SYMMETRY Alike
INVARIANTS NamesSelectOne AnsweredStands
PROPERTIES DefaultStillFinds
CHECK_DEADLOCK FALSE
