CONSTANTS
    MaxRun = 2
    MaxResults = 2
SPECIFICATION Spec
INVARIANT NoCutLine
CHECK_DEADLOCK FALSE
