SPECIFICATION EditorSpec
CONSTANTS
    Slot = {s1, s2}
    MaxHistory = 2
    MaxEdits = 2
    MaxVisits = 2
PROPERTIES
    SavedOnUnmount
CHECK_DEADLOCK FALSE
