\* A click on a row, when more alerts have matched than two rows can show.
SPECIFICATION Spec
CONSTANTS
  Callers <- MCCallers
  LayerOf <- MCLayerOf
  Keys <- MCKeys
  ThreatOf <- MCThreatOf
  Times <- MCTimes
  SUPPRESS_SEC = 5
  max_alerts = 2
  MaxCalls = 4
  MaxBatch = 2
  MAX_ROWS = 2
INVARIANTS ClickOpensItsRow
