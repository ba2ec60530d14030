\* Two clients and one slot: one is refused or waits while the other is served,
\* and the server closes at any moment.  The proofs cover every other size.
SPECIFICATION FairSpec
CONSTANTS
  Conns = {c1, c2}
  Slots = 1
  NoConn = NoConn
INVARIANTS
  LimitsAreAccounted
  TeardownIsQuiet
PROPERTIES
  CallsEnd
  ShutdownEnds
