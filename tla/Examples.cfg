CONSTANTS
  Runs = {r1, r2}
  None = None
  Records = 2
  ProgressEvery = 2
  QueryStep = 1
  MatchesPerReport = 2
  HighScore = 2
  Fresh = TRUE
  ProgressInterval = 2
  PairInterval = 1
  Meta = Meta
  Strangers = {s1, s2}
  Bodies <- MCBodies
  MaxDeliveries = 2
  Absent = Absent
  Messages = {m1, m2}
  Pole = 1
  NoContent = NoContent
  MaxAttempts = 8
  RetryAfters = {0, 5, 100}
  Texts = {"whole", "head", "tail"}
  MaxParts = 3
SPECIFICATION MCSpec
INVARIANTS
  ReporterInv ServerInv RequestsInv DialogInv BroadcastInv
  
CHECK_DEADLOCK FALSE
