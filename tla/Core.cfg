SPECIFICATION Spec
CONSTANTS
  k1 = k1  u1 = u1  u2 = u2  a1 = a1  a2 = a2  p1 = p1  p2 = p2  r1 = r1  m1 = m1  m2 = m2  o1 = o1
  n1 = n1  c1 = c1  c2 = c2  None = None  Loads <- MCLoads
  PageDefault = 1  PageMax = 2  Callers = {c1, c2}  FreshIds = {n1, n2, n3, n4}
  Instants = {1, 2, 3, 4}  Allocs = {a1}  Ids = {"q1"}  MaxLog = 3
INVARIANTS   ReadsAgree LoserConflicts 
PROPERTY ProjectStatusPreserves
CHECK_DEADLOCK FALSE
