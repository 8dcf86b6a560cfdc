CONSTANTS
    Syms <- MCSyms
    MaxLen = 8
    NUL = NUL
SPECIFICATION Spec
INVARIANT NeverCrashes
CHECK_DEADLOCK FALSE
