\* The resolver: two hostnames, no literal address, so the allow-list starts
\* empty.  The writer: two devices, errors and crashes at every step, one restart.
SPECIFICATION BackgroundSpec
CONSTANTS
  Addrs = {a1, a2}  Hosts = {h1, h2}  Nets = {}
  Interval = 3  MinGap = 1  Retry = 1
  MaxDnsChanges = 1  MaxFaults = 3
  Devices = {d1, d2}  QueueMax = 2  MaxWall = 1
  Retention = 0  MaxEvents = 1  UnparsedCap = 1  Batch = 2
  MaxPuts = 3  MaxRestarts = 1
INVARIANTS NoLostTrigger NeverForgets Books CleanStop Conserved
PROPERTIES ResolverConverges DeadWriterExits EventuallyStored
