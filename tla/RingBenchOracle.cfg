\* As RingBench.cfg, for the claim that only correct rows are timed.
CONSTANTS
  ngpu = 3
  Hosts <- AllHosts
  Cases <- LastCases
  Repeats = 1
  TimedCalls = 2
SPECIFICATION Spec
INVARIANT OnlyCorrectRowsAreTimed
CHECK_DEADLOCK FALSE
