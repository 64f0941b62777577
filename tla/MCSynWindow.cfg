\* The web flow alone: two SYNs further apart than WINDOW are a flood.
SPECIFICATION Spec
CONSTANTS
  Flows <- MCWeb
  PacketsOf <- MCWebPackets
  Signatures <- MCSignatures
  Gaps <- MCGaps
  Costs <- MCCosts
  Uptime = 4
  Second = 2
  SYN_RATE_THRESHOLD = 1
  UDP_RATE_THRESHOLD = 1
  PORT_SCAN_THRESHOLD = 1
  MinSyns = 0
  WINDOW = 2
  HTTP_HEADER_TIMEOUT = 3
  MIN_BYTES = 2
  MinPackets = 2
  MaxPackets = 4
INVARIANTS FloodIsRecent
CHECK_DEADLOCK FALSE
