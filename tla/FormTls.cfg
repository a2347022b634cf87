CONSTANT None = None
SPECIFICATION Spec
INVARIANT EditKeeps
CHECK_DEADLOCK FALSE
