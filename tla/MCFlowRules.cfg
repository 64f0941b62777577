\* Two ticks a second; every threshold one or two, so that four packets cross it.
SPECIFICATION Spec
CONSTANTS
  Flows <- MCFlows
  PacketsOf <- MCPacketsOf
  Signatures <- MCSignatures
  Gaps <- MCGaps
  Costs <- MCCosts
  Uptime = 4
  Second = 2
  SYN_RATE_THRESHOLD = 1
  UDP_RATE_THRESHOLD = 1
  PORT_SCAN_THRESHOLD = 1
  MinSyns = 0
  WINDOW = 2
  HTTP_HEADER_TIMEOUT = 3
  MIN_BYTES = 2
  MinPackets = 2
  MaxPackets = 4
INVARIANTS TypeOK CountersAreRecounted
CHECK_DEADLOCK FALSE
