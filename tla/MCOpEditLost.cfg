\* Two saves that both pass the If-Match check.
CONSTANTS
  c1 = c1  c2 = c2  p1 = p1  p2 = p2  m1 = m1  l1 = l1
  NoOne = NoOne
  Clients <- MCClients
  Portals <- MCPortals
  Markers <- MCMarkers
  Links <- MCLinks
  Anchors <- MCAnchors
  Bodies <- TwoBodies
  MaxTag = 3
  MayFail = FALSE
SPECIFICATION Spec
PROPERTY NoLostUpdate
CHECK_DEADLOCK FALSE
