CONSTANT MaxCalls = 3
SPECIFICATION Spec
INVARIANT RefusedWhenBusy
CHECK_DEADLOCK FALSE
