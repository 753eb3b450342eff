\* Liveness: no crashes and no failing Touch, hang-ups stay in.
CONSTANTS
  c1 = c1  c2 = c2  p1 = p1  p2 = p2  m1 = m1  l1 = l1
  NoOne = NoOne
  Clients <- MCClients
  Portals <- MCPortals
  Markers <- MCMarkers
  Links <- MCLinks
  Anchors <- MCAnchors
  Bodies <- LiveBodies
  MaxTag = 2
  MayFail = FALSE
SPECIFICATION FairSpec
PROPERTY EveryRequestEnds
PROPERTY EditsGetAnEditID
CHECK_DEADLOCK FALSE
