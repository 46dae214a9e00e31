\* Two invocations on one directory, each terminated anywhere or not.
SPECIFICATION Spec
CONSTANTS
  Collectives <- TwoCollectives
  Labels <- ThreeLabels
  FullRepeats = 1
  MaxInvocations = 2
  MaxCommits = 1
INVARIANTS
  SmokeGatesFull
  PassedRunsHaveCorrectRows
  EveryOutputIsParsed
PROPERTIES
  OutputsAreNeverRewritten
CHECK_DEADLOCK FALSE
