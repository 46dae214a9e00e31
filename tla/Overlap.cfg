SPECIFICATION Spec
CONSTANTS
  NG = 2
  Warmup = 1
  Iters = 2
  Repeats = 2
  commSizes <- MCSizes
  workloads <- MCWorkloads
  ratios <- MCRatios
  bucketSizes <- MCBuckets
  totalGrad = 2048
INVARIANTS
  SequentialNeverOverlaps
  ElapsedCoversOneIteration
  IterationsAreSeparate
  RowsOfOneNameAreRepeats
  OnlyTheBucketCellIsMixed
PROPERTIES
  EveryRowIsPrinted
