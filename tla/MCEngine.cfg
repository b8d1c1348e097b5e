\* One instance with children, or a tree, or one instance under change.
SPECIFICATION MCSpec
CONSTANTS
  Schemas <- MCSchemas
  Released = {"Call", "CallR", "Top", "Base", "Early", "Longer"}
  Elems = {"u", "v"}
  Values = {"t", "f", "bad"}
  Typed = {"t", "f"}
  NoValue = NoValue
  NoNode = NoNode
  ClientWrites <- MCWrites
  Holds <- MCHolds
  MaxRoots = 1
  MaxInstances = 12
  NewNodes = {"n1"}
  MaxChanges = 2
INVARIANTS
  MarkingsFit
  CleanEnd
PROPERTIES
  ImplementsExecution
  ChildRecorded
  NobodyWaitsInVain
  FollowUpsOnce
  NeverStuck
  HistoryKept
CHECK_DEADLOCK FALSE
