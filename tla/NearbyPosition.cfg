SPECIFICATION Spec
CONSTANTS
  Readers = {r1, r2}
  NoReader = NoReader
  NoPlace = NoPlace
  Places = {p1}
  MaxEvents = 2
PROPERTIES SharedMeansReceived ShareArrives
