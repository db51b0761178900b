SPECIFICATION Spec
CONSTANTS
  Pages = {p0, p1, p2}
  First = p0
  NoPage = NoPage
  Torn = Torn
  Interval = 2
  MaxMissed = 1
INVARIANTS LossBounded PlaceKept ComesBack
PROPERTIES NoBootLoop
