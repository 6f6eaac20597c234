SPECIFICATION Spec
CONSTANTS
  w1 = w1
  w2 = w2
  w3 = w3
  p1 = p1
  p2 = p2
  Processes = {p1, p2}
  Workers = {w1, w2, w3}
  Home <- HomeOf
  Nobody = Nobody
  Jobs = {j1, j2}
  Requests <- FewRequests
  MaxBlock = 3
  Mortal = {p2}
INVARIANTS TypeOK RecoveryBound BackoffKept
  
SYMMETRY Same
