\* One account, two agents, two teams and two chats, one web handler.
CONSTANTS
  a1 = a1  a2 = a2  x1 = x1  x2 = x2  c1 = c1  c2 = c2  t1 = t1  t2 = t2  h1 = h1  h2 = h2
  Bot = Bot  None = None
  Agents <- MCAgents
  Persons <- MCPersons
  Teams <- MCTeams
  Chats <- MCChats
  Handlers <- MCHandlers
  Rosters <- MCRosters
  MaxMoves = 2
SPECIFICATION Spec
SYMMETRY Symmetry
CHECK_DEADLOCK FALSE
INVARIANT TypeOK
INVARIANT AgreeAtRest
PROPERTY LinksFollowOwners
