\* Three ranks, both distributed modes with and without --calibrate and
\* --nosync-probe; two things may stop being finite.
CONSTANTS
  World = 3
  Modes = {"ddp", "serial"}
  Warmup = 1
  Correctness = 3
  Steps = 1
  Repeats = 2
  MaxOverflows = 2
SPECIFICATION Spec
INVARIANTS
  ParametersNeverDrift
  MeasuredStepsStartEqual
  AbortIsUnanimous
PROPERTY
  EveryRankExits
CHECK_DEADLOCK FALSE
