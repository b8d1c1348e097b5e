\* A tree whose instances may be changed while their children run.
SPECIFICATION ESpec
CONSTANTS
  Schemas <- MCSchemas
  Released = {"Top"}
  Elems = {"u", "v"}
  Values = {"t", "f", "bad"}
  Typed = {"t", "f"}
  NoValue = NoValue
  NoNode = NoNode
  ClientWrites <- MCWrites
  Holds <- MCHolds
  MaxRoots = 1
  MaxInstances = 12
  NewNodes = {"n1"}
  MaxChanges = 1
INVARIANT CleanEnd
CHECK_DEADLOCK FALSE
