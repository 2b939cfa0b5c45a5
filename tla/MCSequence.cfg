\* Three threads share a counter of 8 values; every number that the smallest
\* margin allows is drawn.  Threads stop when the bound on draws is reached.
CONSTANTS
  Threads = {t1, t2, t3}
  Half = 4
  MaxDraws = 4
SPECIFICATION SeqSpec
SYMMETRY MCSymmetry
INVARIANT UniqueNumbers
CHECK_DEADLOCK FALSE
