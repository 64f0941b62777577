\* Two files, loaded one after the other or together, live packets and filters.
SPECIFICATION TabSpec
CONSTANTS
  Packets <- MCPackets
  NoPacket <- MCNoPacket
  max_packets = 3
  keep_raw = 2
  MaxTotal = 9
  Wire <- MCWire
  Disk <- MCDisk
  Lines <- MCLines
  MAX_ROWS_PER_FLUSH = 2
  MAX_PENDING_BUFFER = 2
  DROP_TO_SIZE = 1
  MAX_DISPLAY_ROWS = 2
  SCROLL_CHUNK = 1
  MaxLoads = 2
  MaxMixedLoads = 1
CHECK_DEADLOCK FALSE
INVARIANTS TabTypeOK WindowComplete RawIsRecent RowsOpenTheirOwn BytesAreOwn SameColumns ShownMatch ListShowsWindow LoadsAreComplete CrashIsExplained
PROPERTIES ImplementsWindow LoadEnds
