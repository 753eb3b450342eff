\* One agent, enl.rocks, two requests at a time, one login, one refreshed token, one
\* replaced one-time token.
CONSTANTS
  Agents = {a1}
  Handlers = {h1, h2}
  Listings = {"blacklisted"}
  MaxLogins = 1
  MaxJwts = 2
  MaxOtts = 2
  MaxChecks = 1
  MaxMoves = 2
SPECIFICATION Spec
CHECK_DEADLOCK FALSE
INVARIANT TypeOK
INVARIANT BarredStayOut
INVARIANT UsedOnce
INVARIANT LocksFollowEvents
PROPERTY RevokedStayOut
PROPERTY EventsAreHandled
