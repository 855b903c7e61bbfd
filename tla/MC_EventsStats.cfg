CONSTANTS
  o1 = o1  o2 = o2  k1 = k1  k2 = k2
  Owners = {o1, o2}
  OwnerKey <- MCOwnerKey
  Queues = {q1, q2}
  NoQueue = NoQueue
  Scrapers = {s1}
  MaxCycles = 2
SPECIFICATION Spec
INVARIANT RefcountMatchesRegistrations
\* A use after free is undefined behaviour: the model stops there.
CHECK_DEADLOCK FALSE
