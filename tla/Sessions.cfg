SPECIFICATION Spec
CONSTANTS
  Tab = {t1, t2}
  Browser = {b1, b2}
  App = {a1, a2}
  MaxSid = 3
  MaxSite = 2
  MaxEvent = 1
SYMMETRY Symmetry
INVARIANTS SignedOut SiteFollows
CHECK_DEADLOCK FALSE
