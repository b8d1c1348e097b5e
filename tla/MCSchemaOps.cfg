CONSTANTS
  Elems = {"x"}
  Values = {"t", "f", "e"}
  Otherwise = "e"
  Partitions <- MCPartitions
  Accesses = {"reads", "writes", "maywrite"}
  Widths = {2}
  Automatic = {}
  NoTemplate = NoTemplate
  NoDeadline = NoDeadline
  RevisionIds = {}
  Starts <- MCStarts
SPECIFICATION Spec
INVARIANTS SoundFlow Supplied NoRaces CallsDeliver
CHECK_DEADLOCK FALSE
