\* Two slots, five pushes: paused or outrun, the feed may be left behind.
SPECIFICATION QtSpec
CONSTANTS
  Packets <- MCPackets
  NoPacket = "none"
  max_packets = 2
  keep_raw = 1
  MaxTotal = 5
  FirstBatch = 2
  Batches <- MCBatches
CHECK_DEADLOCK FALSE
INVARIANTS QtTypeOK ExactUntilOverrun JoinedThreadsHaveEnded
PROPERTIES CatchesUp LostOnceBehind QuitEnds
