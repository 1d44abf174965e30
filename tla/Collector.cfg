SPECIFICATION CollectorSpec
CONSTANTS
  Addrs = {a1, a2}  Hosts = {h1}  Nets = {a2}
  Interval = 1  MinGap = 1  Retry = 1
  MaxDnsChanges = 0  MaxFaults = 0
  Devices = {d1}  QueueMax = 1  MaxWall = 0
  HeldMax = 1  HeldTtl = 1  MaxDatagrams = 2
  Texts = {"event", "gap"}
  Retention = 0  MaxEvents = 0  UnparsedCap = 1  Batch = 1
  MaxPuts = 0  MaxRestarts = 0
INVARIANTS EndToEnd
PROPERTIES ImplementsListeners
