\* Two alerts kept, two rows shown, batches of two.
SPECIFICATION Spec
CONSTANTS
  Callers <- MCCallers
  LayerOf <- MCLayerOf
  Keys <- MCKeys
  ThreatOf <- MCThreatOf
  Times <- MCTimes
  SUPPRESS_SEC = 5
  max_alerts = 2
  MaxCalls = 4
  MaxBatch = 2
  MAX_ROWS = 2
INVARIANTS TypeOK EveryKeyIsStored RepeatsAreSpaced TableIsSuffix RowsOpenTheirAlerts
