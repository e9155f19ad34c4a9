\* The same instance.
CONSTANTS
    Hardware = {5, 9}
    Software = {96}
SPECIFICATION Spec
CHECK_DEADLOCK FALSE
INVARIANT
    SystemRestored
