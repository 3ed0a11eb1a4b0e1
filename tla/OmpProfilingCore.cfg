SPECIFICATION Spec
CONSTANT Modules <- Programs
INVARIANT CoreAlwaysRead
CHECK_DEADLOCK FALSE
