\* Calls for one order overlap.
SPECIFICATION Spec
CONSTANTS
  c1 = c1  c2 = c2  c3 = c3  c4 = c4  c5 = c5  c6 = c6  p1 = p1  p2 = p2
  Placers = {c1, c2}
  Reservers = {}
  Orders = {o1}
  Reservable = {}
  Processes = {p1, p2}
  Home <- MCHome
INVARIANTS OverlapDetected
