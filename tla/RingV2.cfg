\* v2-async on four ranks: three ReduceScatter steps, the least at which two
\* steps of equal parity exist.
CONSTANTS
  N = 4
  Version = "v2"
  Sub = 0
  Chunk = 1
SPECIFICATION Safety
INVARIANTS
  TypeOK
  ConflictsInHostOrder
  ReduceScatterOwnership
  AllReduceCorrect
  BytesMatchPrediction
  WaitsAreDependencies
PROPERTY
  ImplementsRelay
