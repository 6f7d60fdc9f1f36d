\* Producer p1 and consumer c1 may stop anywhere in a call; p2 and c2 also ask
\* for the size.
SPECIFICATION FairSpec
CONSTANTS
  Producers = {p1, p2}
  Consumers = {c1, c2}
  Observers = {p2, c2}
  Values = {v1}
  Garbage = Garbage
  Capacity = 2
  MaxPos = 2
  Word = 64
  Stalled = {p1, c1}
PROPERTY NonBlocking
INVARIANT SoleCallerSize
