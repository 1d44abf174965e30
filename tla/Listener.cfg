\* One device, one name, one address of two allowed at a time.
SPECIFICATION ListenersSpec
CONSTANTS
  Addrs = {a1, a2}  Hosts = {h1}  Nets = {}
  Interval = 1  MinGap = 1  Retry = 1
  MaxDnsChanges = 1  MaxFaults = 1
  Devices = {d1}  QueueMax = 1  MaxWall = 1
  HeldMax = 2  HeldTtl = 0  MaxDatagrams = 3
  Texts = {"event"}
INVARIANTS ListenerTypeOK NotStranded Ledger FailClosed
