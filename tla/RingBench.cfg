\* Hosts of four devices; the runner ends, so the run may stop.
CONSTANTS
  ngpu = 4
  Hosts <- FourDevices
  Cases <- LastCases
  Repeats = 1
  TimedCalls = 2
SPECIFICATION ExpSpec
INVARIANTS
  FindsARingIfThereIsOne
  OnlyRingMappingsStayEnabled
  SoundHostsAreMeasured
  RowCountsOneCall
  SuccessIsComplete
CHECK_DEADLOCK FALSE
