SPECIFICATION FairSpec
CONSTANTS
  Start = "st"
  End = "en"
  Kind <- MCKind
  Match <- MCMatch
  Disc <- MCDisc
  Elems = {"v"}
  bad = bad
  Values <- MCValues
  Typed <- MCTyped
  Texts = {"t", "f", "g"}
  Unbounded = Unbounded
  NoBranch = NoBranch
  NoValue = NoValue
  NoNode = NoNode
  NoAgent = NoAgent
  Nodes <- Nodes1
  Edges <- Edges1
  Rank <- Rank1
  MaxRank = 10
  Ctx <- Ctx1
  Branch <- Branch1
  Agents = {"p", "q"}
  Ruled = {"B"}
  Eligible <- FourEyes
INVARIANTS
  TypeOK
  SignalsFollowMarking
  OnlyChosenBranches
  JoinsAgree
  Settled
  NeverStuck
  CleanEnd
PROPERTIES
  HistoryKept
  EventuallyDone
CHECK_DEADLOCK FALSE
