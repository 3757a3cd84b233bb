SPECIFICATION Spec
CONSTANT MaxRuns = 3
INVARIANTS LeftoversGo LeavesNothing WholeWhileUp
CHECK_DEADLOCK FALSE
