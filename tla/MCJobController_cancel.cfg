CONSTANTS
    a = a
    b = b
    Actors = {a, b}
    None = None
    MaxIds = 2
    MaxGossip = 1
    JobScenarios <- OnlyCancelled
SPECIFICATION Spec
PROPERTIES CancelHeld
CHECK_DEADLOCK FALSE
