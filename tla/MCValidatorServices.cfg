SPECIFICATION Spec
CONSTANT Counts = {0, 1}
CHECK_DEADLOCK FALSE
INVARIANT NextServiceIsTried
