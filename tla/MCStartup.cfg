\* Two starts by the GUI, which may overlap; when none are left nothing need
\* happen.  Command lines of up to four options, keys and ports on both sides
\* of every limit.  Arguments of up to three characters, in a line that some
\* of them fill.
CONSTANTS
  MaxStarts = 2
  KeySize = 6
  KeyMin = 3
  KeyLengths = {0, 2, 3, 5, 6, 7, 8}
  Ports = {0, 1, 15, 16}
  MaxPort = 15
  DefaultPort = 9
  MaxOptions = 4
  Argvs <- MCArgvs
  LineSize = 12
SPECIFICATION MCSpec
INVARIANTS SingleUnlessEarly StatusTruthful RunsAsAsked CleansUp
  RelaunchFaithful
PROPERTIES StopTakesEffect StartSettles
CHECK_DEADLOCK FALSE
