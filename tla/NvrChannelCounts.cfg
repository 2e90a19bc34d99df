SPECIFICATION FairSpec
CONSTANTS
  r1 = r1
  r2 = r2
  r3 = r3
  Protocols = {"p"}
  Addrs = {"a"}
  Readers = {r1, r2, r3}
  StreamOf <- MCStreamOf
  EarlyReaders = FALSE
  Changes = "none"
  Flaky = FALSE
  MaxMsgs = 5
  MaxTimers = 2
  MaxDrift = 0
INVARIANTS
  CountIsExact
PROPERTIES
  ReadersServed
  UnreadIsReleased
