SPECIFICATION QueueSpec
CONSTANTS
  Experiments = {e1}
  NoExperiment = NoExperiment
  JobIds = {j1, j2, j3}
  NoJob = NoJob
  Requests = {api}
  Callers = {api, w1, w2}
  Workers = {w1, w2}
  MaxAttempts = 2
  Timeout = 1
  Backoff = 1
  ClaimBound = 3
  TimelyWorkers = FALSE
  ShortTransactions = FALSE
SYMMETRY Symmetry
INVARIANTS OneActiveJob ClaimsDistinct
PROPERTIES RevivalsExplained
