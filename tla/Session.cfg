SPECIFICATION Spec
CONSTANTS
    a = a
    b = b
    Account <- MCAccount
    Bounds <- MCBounds
INVARIANTS ReadyIsRight StoredIsOwn
PROPERTY LoginCompletes
CHECK_DEADLOCK FALSE
