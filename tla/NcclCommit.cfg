\* As Nccl.cfg, for what the schema says of git_commit.
SPECIFICATION Spec
CONSTANTS
  Collectives <- TwoCollectives
  Labels <- ThreeLabels
  FullRepeats = 1
  MaxInvocations = 2
  MaxCommits = 1
INVARIANTS
  RowsNameTheirCommit
CHECK_DEADLOCK FALSE
