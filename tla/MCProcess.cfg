SPECIFICATION Spec
CONSTANTS
    Files <- MCFiles
    None = None
INVARIANTS
    ConfigInEffect
    Released
CHECK_DEADLOCK FALSE
