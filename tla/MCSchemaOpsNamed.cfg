CONSTANTS
  Elems = {"x"}
  Values = {"t", "f", "e"}
  Otherwise = "e"
  Partitions <- MCPartitions
  Accesses = {"reads", "writes", "maywrite"}
  Widths = {2}
  Automatic = {}
  NoTemplate = NoTemplate
  NoDeadline = NoDeadline
  RevisionIds = {1, 20}
  Starts <- MCStarts
SPECIFICATION NamingSpec
PROPERTY ReleasedImmutable
CHECK_DEADLOCK FALSE
