\* Two handlers, faults at any time.
CONSTANTS
  a1 = a1  a2 = a2  h1 = h1  h2 = h2
  NoOne = NoOne
  Agents <- MCAgents
  Handlers <- MCHandlers
  Faulty = TRUE
  MaxLoops = 1
SPECIFICATION Spec
SYMMETRY Symmetry
INVARIANT TypeOK
INVARIANT StraysHaveACause
 
