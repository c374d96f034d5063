SPECIFICATION Spec
CONSTANTS
    Writers = {w1, w2}
    Scopes = {"private", "shared"}
    MaxLogins = 2
    MaxEdits = 2
PROPERTIES
    NewerLoginStays
CHECK_DEADLOCK FALSE
