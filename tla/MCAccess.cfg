\* Two handlers, one of them in the drawing; two agents, one team, one zone;
\* one permission given, at most twice, and one change to the facts.  Strict is
\* FALSE: the hardness route lets those through who have no write access.
CONSTANTS
  a1 = a1  a2 = a2  t1 = t1  t2 = t2  h1 = h1  h2 = h2
  NoOne = NoOne
  Agents <- MCAgents
  Teams <- MCTeams
  Handlers <- MCHandlers
  Zones = {1}
  Grantable <- MCGrantable
  MaxRows = 2
  MaxPerms = 1
  MaxDrawing = 1
  MaxMoves = 1
  Strict = FALSE
SPECIFICATION Spec
CHECK_DEADLOCK FALSE
SYMMETRY Symmetry
INVARIANT TypeOK
INVARIANT RelevantTeamsTold
PROPERTY ImplementsPolicy
