SPECIFICATION ProcessSpec
CONSTANTS
    Faults = {}
    MaxLogLen = 1
INVARIANTS ErrorsLogged
CHECK_DEADLOCK FALSE
