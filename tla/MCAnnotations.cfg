CONSTANTS
  Elems = {"x", "y", "z"}
  Values = {"t", "f"}
  Otherwise = "f"
  Partitions <- MCPartitions
  Accesses = {"writes", "mayread", "maywrite"}
  Widths = {2}
  RevisionIds = {}
  Starts <- MCStarts
  Automatic = {"script"}
  NoTemplate = NoTemplate
  NoDeadline = NoDeadline
  Connectors = {"c"}
  Templates = {"script", "manual"}
  Durations = {1, 2}
  Deadlines = {1, 3, NoDeadline}
SPECIFICATION AnnSpec
INVARIANTS FiltersSupplied DeadlineHolds StartsEnd
PROPERTY ReleasedImmutable
CHECK_DEADLOCK FALSE
