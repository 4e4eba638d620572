\* Two first-time connections from one address race for its entry.
CONSTANTS
  Session = {s1, s2}
  Address = {a1}
  Nobody = Nobody
  Timeout = 1
  SharedAddresses = TRUE
  MaxTime = 1
  MaxFail = 4
  MaxStops = 0
SPECIFICATION Spec
INVARIANTS ThreeInARowBlocks
