\* Two connections, two addresses which they may share, and the server process
\* ends once.
CONSTANTS
  Session = {s1, s2}
  Address = {a1, a2}
  Nobody = Nobody
  Timeout = 1
  SharedAddresses = TRUE
  MaxTime = 1
  MaxFail = 4
  MaxStops = 1
SPECIFICATION Spec
SYMMETRY Interchangeable
INVARIANTS TypeOK EntryPresent FileAgrees LateFailuresBounded
