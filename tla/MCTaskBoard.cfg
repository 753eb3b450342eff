\* Two agents, every kind of list.
CONSTANTS
  a1 = a1  a2 = a2
  Stranger = Stranger
  NoGid = NoGid
  Agents <- TwoAgents
  Lists <- MCLists
  MaxRows = 2
SPECIFICATION Spec
SYMMETRY Symmetry
INVARIANT TypeOK
PROPERTY CommitsWhatWasAsked
