SPECIFICATION FairSpec
CONSTANTS
  Job = {j1, j2}
  Worker = {w1, w2}
  NoJob = NoJob
  Lease = 1
  Window = 1
  RetryDelay = {1}
  TransientCode = {"engine_timeout"}
  TerminalCode = {"audio_invalid"}
  MaxRetries = 2
  Horizon = 1
  MaxFaults = 1
INVARIANTS
  Inv
  SingleOwner
  NotesMatchJobs
  RetryBudget
  ClaimsAreAccountedFor
PROPERTIES
  OutcomeByLatestClaim
  ImplementsLifecycle
  AcceptedJobsSettle
  OpenSubmissionsClose
