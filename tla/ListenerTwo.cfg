\* Two listeners share the filter, the queue and the counters; fairness.  The
\* wall clock stands still, so that nothing expires.
SPECIFICATION ListenersFairSpec
CONSTANTS
  Addrs = {a1}  Hosts = {h1}  Nets = {}
  Interval = 1  MinGap = 1  Retry = 1
  MaxDnsChanges = 0  MaxFaults = 1
  Devices = {d1, d2}  QueueMax = 1  MaxWall = 0
  HeldMax = 2  HeldTtl = 1  MaxDatagrams = 2
  Texts = {"long", "host"}
INVARIANTS Ledger
PROPERTIES HeldReplayed
