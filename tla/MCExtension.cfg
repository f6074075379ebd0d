CONSTANTS
    Sessions = {s1, s2}
    None = None
SPECIFICATION Spec
INVARIANT OneUserAtATime
CHECK_DEADLOCK FALSE
