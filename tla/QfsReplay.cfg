SPECIFICATION Spec
CONSTANTS
    None = None
    Zero = Zero
    Parts = {"wrapping"}
INVARIANTS
    RecoversLast
CHECK_DEADLOCK FALSE
