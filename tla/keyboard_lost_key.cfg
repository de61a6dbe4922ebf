CONSTANTS
    SCANCODES = {2, 14, 28, 29, 42, 45, 46, 58, 157, 170}
    MAX_PRESSES = 4
SPECIFICATION Spec
INVARIANT LineKeepsEveryKey
