\* As RingBench.cfg, for the claim that enabled mappings work.
CONSTANTS
  ngpu = 3
  Hosts <- AllHosts
  Cases <- LastCases
  Repeats = 1
  TimedCalls = 2
SPECIFICATION Spec
INVARIANT EnabledMappingsWork
CHECK_DEADLOCK FALSE
