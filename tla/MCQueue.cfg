\* Two producers and two consumers on two slots; head_ goes through more than
\* one lap, so producers meet slots of the previous lap.
SPECIFICATION Spec
SYMMETRY Symmetry
CONSTANTS
  Producers = {p1, p2}
  Consumers = {c1, c2}
  Observers = {}
  Values = {v1, v2}
  Garbage = Garbage
  Nobody = Nobody
  Capacity = 2
  MaxPos = 3
  Word = 8
INVARIANTS
  TypeOK
  NoDataRace
  BoundedOccupancy
  SlotProtocol
  WordsAgree
PROPERTIES
  ImplementsFifo
