\* One Ctrl+C, at any time.
SPECIFICATION Spec
CONSTANTS
  Flows <- MCOneFlow
  MaxFlows = 1
  NumWorkers = 2
  Hash <- MCOneHash
  QueueSize = 1
  Verdicts <- MCVerdicts
  MaxFrames = 1
  MaxSignals = 1
PROPERTIES CtrlCStops
