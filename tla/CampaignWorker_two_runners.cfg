SPECIFICATION Spec
CONSTANTS
  Experiments = {e1}
  NoExperiment = NoExperiment
  JobIds = {j1, j2, j3}
  NoJob = NoJob
  Requests = {api}
  Callers = {api, w1, w2}
  Workers = {w1, w2}
  Nobody = Nobody
  MaxAttempts = 2
  Timeout = 1
  Backoff = 1
  Grace = 0
  ClaimBound = 4
  MaxFaults = 0
  TimelyWorkers = FALSE
  ShortTransactions = TRUE
  LateRestart = FALSE
  DbErrors = FALSE
SYMMETRY Symmetry
INVARIANT MutualExclusion
