CONSTANTS
  h1 = h1
  h2 = h2
  Shells = {h1, h2}
  Pages = {p1, p2, p3}
  Watchers = {w1}
  None = None
  kBacklogMax = 2
  MaxChunk = 2
  MaxOut <- MCMaxOut
SPECIFICATION Spec
SYMMETRY SamePages
INVARIANTS
  TypeOK
  Transcript
  
