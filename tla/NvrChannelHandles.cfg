SPECIFICATION Spec
CONSTANTS
  r1 = r1
  r2 = r2
  r3 = r3
  Protocols = {"p"}
  Addrs = {"a", "b"}
  Readers = {r1, r2}
  StreamOf <- MCStreamOf
  EarlyReaders = TRUE
  Changes = "new"
  Flaky = TRUE
  MaxMsgs = 4
  MaxTimers = 2
  MaxDrift = 1
INVARIANTS
  TypeOK
  HandlesFormChain
  NeverOvercounted
PROPERTIES
  CheckedIsConfigured
