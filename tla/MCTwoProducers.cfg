\* Two producers, a queue of two jobs.
SPECIFICATION Spec
CONSTANTS
  Producers <- TwoProducers
  Capacity = 3
  MaxJobs = 3
INVARIANTS ManyProducersLoseNoJob
