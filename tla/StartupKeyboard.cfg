SPECIFICATION Spec
INVARIANT KeyboardHeard
CHECK_DEADLOCK FALSE
