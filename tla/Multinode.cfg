\* Two hosts, a rank on each.
SPECIFICATION Spec
CONSTANTS
  NNodes = 2
  Requests <- Asked
  Known = {"all_reduce", "all_gather"}
  FullRepeats = 1
INVARIANTS
  OnlyBaselinesAreTimed
  BaselinesAreVerified
  SuccessIsComplete
  SmokeGatesFull
CHECK_DEADLOCK FALSE
