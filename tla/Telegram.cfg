CONSTANTS
  Runs = {j1, j2}
  None = None
  Records = 2
  ProgressEvery = 2
  QueryStep = 1
  MatchesPerReport = 2
  HighScore = 2
  Fresh = FALSE
  Quotes = 5
  Responses <- MCResponses
  LastN = 4
  MinQuotes = 3
  Fields = {url, secret}
  Hooks = {h1, h2}
  Settings = {s1, s2}
  Default = Default
  Unset = Unset
  Blank = Blank
  Polling = Polling
  Absent = Absent
  Torn = Torn
SPECIFICATION MCSpec
INVARIANTS
  DemosceneInv BenchmarkInv MovesInv ChartInv ConfigInv
PROPERTIES JobsEnd WebHookIsForGood SettingsAreKept
CHECK_DEADLOCK FALSE
