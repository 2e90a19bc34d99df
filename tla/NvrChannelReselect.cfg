SPECIFICATION Spec
CONSTANTS
  r1 = r1
  r2 = r2
  r3 = r3
  Protocols = {"p"}
  Addrs = {"a", "b"}
  Readers = {}
  StreamOf <- MCStreamOf
  EarlyReaders = TRUE
  Changes = "any"
  Flaky = TRUE
  MaxMsgs = 4
  MaxTimers = 2
  MaxDrift = 0
PROPERTIES
  CheckedIsConfigured
