SPECIFICATION Spec
CONSTANTS
  Person = {p1, p2}
  Nobody = nobody
  Guest = guest
  Text = {t1, t2}
  NoText = notext
  Policy = {"prompt", "generate", "closed"}
  Device = {d1}
  MaxUid = 2
  MaxFlow = 1
  MaxLink = 2
  MaxEvent = 1
  MaxSpent = 3
SYMMETRY Symmetry
CONSTRAINT Budget
INVARIANTS TypeOK 
PROPERTY TosShown
CHECK_DEADLOCK FALSE
