\* Two sessions of the same tag or of both, on six kinds of host; at the
\* bounds nothing more is started, so the run may stop.
SPECIFICATION Spec
CONSTANTS
  Hosts <- SomeHosts
  Capacities <- TwoCapacities
  LAUNCHES = 2
  StepTimes = {1, 2, 4}
  MaxSessions = 2
  MaxPreflights = 2
  MaxFaults = 2
INVARIANTS
  CostComesFromOwnLaunch
  ComparisonsAreOfOneSession
  FinalRowsAreSound
  NoiseIsAcrossLaunches
  ResolvableGapsAreReal
PROPERTIES
  EveryScriptEnds
CHECK_DEADLOCK FALSE
