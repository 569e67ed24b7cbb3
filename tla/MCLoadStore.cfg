SPECIFICATION Spec
CONSTANT MaxPushed = 2
INVARIANT StackAddressExact
CHECK_DEADLOCK FALSE
