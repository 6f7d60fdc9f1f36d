\* A queue of one slot, which the static_assert admits.
SPECIFICATION Spec
CONSTANTS
  Producers = {p}
  Consumers = {c}
  Observers = {}
  Values = {v1}
  Garbage = Garbage
  Nobody = Nobody
  Capacity = 1
  MaxPos = 2
  Word = 64
INVARIANT BoundedOccupancy
