\* Three ranks, with chunks of three elements in two subchunks for v3: the last
\* takes the remainder.
CONSTANTS
  N = 3
  Sub = 2
  Chunk = 3
SPECIFICATION Safety
INVARIANTS
  ConflictsInHostOrder
  AllReduceCorrect
PROPERTY
  ImplementsRelay
