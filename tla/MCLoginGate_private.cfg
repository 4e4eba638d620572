\* Every address has at most one connection at a time.
CONSTANTS
  Session = {s1, s2}
  Address = {a1, a2}
  Nobody = Nobody
  Timeout = 0
  SharedAddresses = FALSE
  MaxTime = 1
  MaxFail = 4
  MaxStops = 1
SPECIFICATION FairSpec
INVARIANTS CountExact
PROPERTIES BlockLasts ImplementsPolicy LoginAnswered ConnectionEnds
