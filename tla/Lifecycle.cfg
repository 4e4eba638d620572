\* Two connections, two signals, a path of two components.
CONSTANTS
  Session = {1, 2}
  Main = Main
  Nobody = Nobody
  Fd = {1, 2, 3}
  NoFd = NoFd
  Depth = 2
  MaxSignals = 2
SPECIFICATION FairSpec
INVARIANTS TypeOK OwnDescriptor NoDescriptorLost SafeUntilTeardown DeletedOnce
PROPERTIES TeardownEnds ConnectionListed
CHECK_DEADLOCK FALSE
