\* As Nccl.cfg, for what the phase 1 document calls a correct run.
SPECIFICATION Spec
CONSTANTS
  Collectives <- TwoCollectives
  Labels <- ThreeLabels
  FullRepeats = 1
  MaxInvocations = 2
  MaxCommits = 1
INVARIANTS
  CorrectRowsMeetTheCriteria
CHECK_DEADLOCK FALSE
