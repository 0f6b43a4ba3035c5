SPECIFICATION Spec
CONSTANTS
    Environments <- Settings
    Faults = {"refuse", "break"}
CHECK_DEADLOCK FALSE
INVARIANTS TypeOK SuccessIsTaken NothingInClear ConnClosed
