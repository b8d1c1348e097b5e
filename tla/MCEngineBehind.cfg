\* A version with a step inserted behind a skipped one.
SPECIFICATION ESpec
CONSTANTS
  Schemas <- MCSchemas
  Released = {"Base", "Behind"}
  Elems = {"u", "v"}
  Values = {"t", "f", "bad"}
  Typed = {"t", "f"}
  NoValue = NoValue
  NoNode = NoNode
  ClientWrites <- MCWrites
  Holds <- MCHolds
  MaxRoots = 1
  MaxInstances = 12
  NewNodes = {}
  MaxChanges = 1
INVARIANT MarkingsFit
CHECK_DEADLOCK FALSE
