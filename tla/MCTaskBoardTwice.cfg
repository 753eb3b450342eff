\* A second row for the same agent.
CONSTANTS
  a1 = a1  a2 = a2
  Stranger = Stranger
  NoGid = NoGid
  Agents <- TwoAgents
  Lists <- PlainLists
  MaxRows = 2
SPECIFICATION Spec
INVARIANT IsAssignedToAgrees
