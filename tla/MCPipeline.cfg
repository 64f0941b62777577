\* The whole run: two workers, two flows, a full queue at one packet,
\* a full flow table at one flow.
SPECIFICATION Spec
CONSTANTS
  Flows <- MCFlows
  MaxFlows = 1
  NumWorkers = 2
  Hash <- MCHash
  QueueSize = 1
  Verdicts <- MCVerdicts
  MaxFrames = 2
  MaxSignals = 1
INVARIANTS TypeOK FlowPointersSafe FlowOrder Conservation CountersAgree
PROPERTIES FinalReportIsFinal RunEnds
