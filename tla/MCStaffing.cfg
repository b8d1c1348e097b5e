CONSTANTS
  None = None
  Outsider = Outsider
  RoleIds = {"r"}
  UnitIds = {"u", "v"}
  AgentIds = {"a", "b"}
  Rules <- MCRules
  OrgIds = {1}
  SchemaIds = {1, 2}
  Graph <- MCGraph
  NamedIds = {}
  Starts <- MCStarts
  MaxInstances = 1
SPECIFICATION Spec
INVARIANTS TypeOK TreesStayTrees Staffable OpenStepsStaffed ReferencesBefore
CHECK_DEADLOCK FALSE
