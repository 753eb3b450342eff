\* Four requests upload, delete and hand over one ID.
CONSTANTS
  a1 = a1  a2 = a2  r1 = r1  r2 = r2  r3 = r3  r4 = r4
  NoOne = NoOne
  Agents <- MCAgents
  Requests <- MCRequests
  By <- MCBy
SPECIFICATION Spec
SYMMETRY Symmetry
INVARIANT TypeOK
INVARIANT GoneMeansMarked
PROPERTY UploadsNeverOverwrite
