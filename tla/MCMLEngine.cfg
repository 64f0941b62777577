\* One feeder, mocks or ONNX models, two administrators.
SPECIFICATION EngineSpec
CONSTANTS
  Producers <- OneProducer
  Capacity = 2
  MaxJobs = 3
  FlowLives <- MCFlowLives
  IFScores = {650, 1000}
  AEScores = {900}
  Administrators = {"ann", "bob"}
  MIN_CONFIDENCE = 700
INVARIANTS EngineTypeOK NoTornSlot NoJobLost MocksNeverPropose FreshViewsAreExact
PROPERTIES ImplementsFifo AcceptedIsProcessed RatiosDecide
