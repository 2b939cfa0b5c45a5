\* Stop may be pressed while the child is being created.
CONSTANT MaxStarts = 2
SPECIFICATION LauncherSpec
INVARIANT SingleChild
CHECK_DEADLOCK FALSE
