\* Two tasks place an order and three reserve one, under every condition.
SPECIFICATION Spec
CONSTANTS
  c1 = c1  c2 = c2  c3 = c3  c4 = c4  c5 = c5  c6 = c6  p1 = p1  p2 = p2
  Placers = {c1, c3}
  Reservers = {c4, c5, c6}
  Orders = {o1, o2}
  Reservable = {o2}
  Processes = {p1, p2}
  Home <- MCHome
INVARIANTS TypeOK ReservedOnce OnlyAcceptedIsRefused ReservedOncePerProcess
PROPERTIES PlacesOnce
