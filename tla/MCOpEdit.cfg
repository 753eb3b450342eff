\* Two clients, three edits, every fault.
CONSTANTS
  c1 = c1  c2 = c2  p1 = p1  p2 = p2  m1 = m1  l1 = l1
  NoOne = NoOne
  Clients <- MCClients
  Portals <- MCPortals
  Markers <- MCMarkers
  Links <- MCLinks
  Anchors <- MCAnchors
  Bodies <- MCBodies
  MaxTag = 3
  MayFail = TRUE
SPECIFICATION Spec
SYMMETRY Symmetry
INVARIANT TypeOK
 
PROPERTY ImplementsOpDoc
CHECK_DEADLOCK FALSE
