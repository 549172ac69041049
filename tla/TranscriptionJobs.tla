---------------------------- MODULE TranscriptionJobs ----------------------------
(***************************************************************************)
(* The transcription_jobs table and the processes that move its rows: the  *)
(* submission endpoints (open, finalize), the abandonment sweeper, and     *)
(* transcription workers that claim a job under a lease, renew the lease   *)
(* while they work, and record the outcome under the lease's token.        *)
(*                                                                         *)
(* Every storage call is one transaction, so one action.  What happens     *)
(* between two calls of the same worker (the engine call, the sleep, the   *)
(* renewal interval) is where other workers, the sweeper, the user and     *)
(* faults interleave.  Audio files are modelled in ChunkSubmission.        *)
(*                                                                         *)
(* Time is relative: a row carries the ticks left to the timestamp its     *)
(* status is judged by, and Tick counts them all down.                     *)
(***************************************************************************)
EXTENDS Integers, FiniteSets

CONSTANTS
  Job,          \* transcription job ids
  Worker,       \* worker loops; several when two processes share the database
  NoJob,        \* the job of an idle worker
  Lease,        \* WorkerConfig.lease_duration, in ticks
  Window,       \* AbandonmentSweeperConfig.window, in ticks
  RetryDelay,   \* the backoffs a transient failure may ask for, in ticks
  TransientCode,  \* failure codes the engines report as transient
  TerminalCode,   \* failure codes the engines report as terminal
  MaxRetries,   \* the max_retries column of every row (MAX_RETRIES)
  Horizon,      \* how long past a deadline two deadlines are told apart
  MaxFaults     \* bound: crashes, worker errors and stalls of a behaviour

ASSUME NoJobIsNoJob == NoJob \notin Job
ASSUME DurationsArePositive ==
  /\ Lease \in Nat \ {0} /\ Window \in Nat \ {0}
  /\ RetryDelay \subseteq Nat \ {0}
  /\ Horizon \in Nat \ {0}
ASSUME CodesAreEngineCodes ==
  /\ TransientCode \subseteq {"engine_timeout", "engine_rate_limited", "engine_error"}
  /\ TerminalCode \subseteq {"audio_invalid", "engine_error", "storage_error"}
ASSUME LimitsAreNatural == MaxRetries \in Nat \ {0} /\ MaxFaults \in Nat

VARIABLES
  job,          \* job[j]: the row of job j
  notes,        \* voice notes: the job and the claim (token) that made each
  worker,       \* worker[w]: what worker loop w holds in memory
  sweeping,     \* candidates the current sweep has still to abandon
  lastToken,    \* lease tokens issued so far (fresh ULIDs)
  faults        \* faults so far, capped by MaxFaults

vars == <<job, notes, worker, sweeping, lastToken, faults>>

-----------------------------------------------------------------------------
(* Rows, attempts and their types                                          *)

Status == {"absent", "accepting_chunks", "queued", "processing",
           "retry_waiting", "succeeded", "failed"}
Settled == {"succeeded", "failed"}

FailureCode   == TransientCode \cup TerminalCode \cup {"submission_abandoned"}

NoToken == 0
NoCode  == "none"

(* due: ticks until abandonment (accepting_chunks), lease expiry           *)
(* (processing) or the next attempt (retry_waiting); minus the ticks since *)
(* acceptance (queued); zero for a settled row.                            *)
Row == [status    : Status,
        due       : Int,
        retries   : Nat,
        token     : Nat,
        note      : Nat,
        code      : FailureCode \cup {NoCode},
        retryable : {"unset", "yes", "no"}]

AbsentRow == [status |-> "absent", due |-> 0, retries |-> 0, token |-> NoToken,
              note |-> NoToken, code |-> NoCode, retryable |-> "unset"]

(* The writes of the storage calls.  Moved leaves the failure columns as   *)
(* they are; Judged is an outcome and always clears the lease.             *)
Moved(row, status, due, token) ==
  [status |-> status, due |-> due, retries |-> row.retries, token |-> token,
   note |-> row.note, code |-> row.code, retryable |-> row.retryable]

Judged(row, status, due, retries, code, retryable) ==
  [status |-> status, due |-> due, retries |-> retries, token |-> NoToken,
   note |-> row.note, code |-> code, retryable |-> retryable]

(* What the work future of process_one_available_job resolves to.          *)
Outcome == {[kind |-> "ok", code |-> NoCode]}
           \cup [kind : {"transient"}, code : TransientCode]
           \cup [kind : {"terminal"}, code : TerminalCode]
Pending == [kind |-> "pending", code |-> NoCode]

Attempt == [pc      : {"idle", "working", "recording"},
            job     : Job \cup {NoJob},
            token   : Nat,
            outcome : Outcome \cup {Pending},
            stalled : BOOLEAN]

Idle == [pc |-> "idle", job |-> NoJob, token |-> NoToken,
         outcome |-> Pending, stalled |-> FALSE]

TypeOK ==
  /\ job \in [Job -> Row]
  /\ notes \subseteq [job : Job, id : Nat]
  /\ worker \in [Worker -> Attempt]
  /\ sweeping \subseteq Job
  /\ lastToken \in Nat
  /\ faults \in Nat

Init ==
  /\ job = [j \in Job |-> AbsentRow]
  /\ notes = {}
  /\ worker = [w \in Worker |-> Idle]
  /\ sweeping = {}
  /\ lastToken = NoToken
  /\ faults = 0

-----------------------------------------------------------------------------
(* Submission                                                              *)

(* open_job inserts the row of a new idempotency key; a replay of the key  *)
(* changes nothing.                                                        *)
OpenJob(j) ==
  /\ job[j].status = "absent"
  /\ job' = [job EXCEPT ![j] = Moved(@, "accepting_chunks", Window, NoToken)]
  /\ UNCHANGED <<notes, worker, sweeping, lastToken, faults>>

(* finalize_job rechecks the status inside its transaction; every chunk    *)
(* being there is ChunkSubmission's concern.                               *)
FinalizeJob(j) ==
  /\ job[j].status = "accepting_chunks"
  /\ job' = [job EXCEPT ![j] = Moved(@, "queued", 0, NoToken)]
  /\ UNCHANGED <<notes, worker, sweeping, lastToken, faults>>

-----------------------------------------------------------------------------
(* The abandonment sweeper: list, then abandon one candidate at a time     *)

NotYetPastWindow(j) == job[j].status = "accepting_chunks" /\ job[j].due > 0  \* mutant
PastWindow(j) == job[j].status = "accepting_chunks" /\ job[j].due < 0

ListAbandoned ==
  /\ sweeping = {}
  /\ sweeping' = {j \in Job : PastWindow(j)}
  /\ UNCHANGED <<job, notes, worker, lastToken, faults>>

AbandonedRow(row) ==
  Judged(row, "failed", 0, row.retries, "submission_abandoned", "yes")

AbandonAsListed(j) ==                                                    \* mutant
  /\ j \in sweeping
  /\ sweeping' = sweeping \ {j}
  /\ job' = [job EXCEPT ![j] = AbandonedRow(@)]
  /\ UNCHANGED <<notes, worker, lastToken, faults>>

AbandonJob(j) ==
  /\ j \in sweeping
  /\ sweeping' = sweeping \ {j}
  /\ job' = IF PastWindow(j) THEN [job EXCEPT ![j] = AbandonedRow(@)] ELSE job
  /\ UNCHANGED <<notes, worker, lastToken, faults>>

(* A storage error, or a restart, ends the sweep; the loop starts another. *)
SweepInterrupted ==
  /\ sweeping # {} /\ faults < MaxFaults
  /\ sweeping' = {}
  /\ faults' = faults + 1
  /\ UNCHANGED <<job, notes, worker, lastToken>>

-----------------------------------------------------------------------------
(* Claiming and holding a lease                                            *)

ClaimableNeverReclaimed(j) ==                                            \* mutant
  \/ job[j].status = "queued"
  \/ job[j].status = "retry_waiting" /\ job[j].due <= 0
ClaimableLive(j) ==                                                      \* mutant
  \/ job[j].status \in {"queued", "processing"}
  \/ job[j].status = "retry_waiting" /\ job[j].due <= 0
Claimable(j) ==
  \/ job[j].status = "queued"
  \/ job[j].status = "retry_waiting" /\ job[j].due <= 0
  \/ job[j].status = "processing" /\ job[j].due < 0

ClaimClass(j) ==
  CASE job[j].status = "processing"    -> 0
    [] job[j].status = "retry_waiting" -> 1
    [] OTHER                           -> 2

(* The ORDER BY of the claim; rows with the same key may go either way.    *)
ClaimedBefore(j, k) ==
  \/ ClaimClass(j) < ClaimClass(k)
  \/ ClaimClass(j) = ClaimClass(k) /\ job[j].due < job[k].due

OneToken   == 1                 \* mutant
FreshToken == lastToken + 1     \* Ulid::new(): never issued before

Claim(w) ==
  /\ worker[w].pc = "idle"
  /\ \E j \in Job :
       /\ Claimable(j)
       /\ \A k \in Job : Claimable(k) => ~ClaimedBefore(k, j)
       /\ job' = [job EXCEPT ![j] = Moved(@, "processing", Lease, FreshToken)]
       /\ worker' = [worker EXCEPT ![w] = [pc |-> "working", job |-> j,
                                           token |-> FreshToken,
                                           outcome |-> Pending,
                                           stalled |-> FALSE]]
  /\ lastToken' = lastToken + 1
  /\ UNCHANGED <<notes, sweeping, faults>>

(* The check every storage call of an attempt makes on the row.            *)
SeesProcessing(w) ==                                                     \* mutant
  /\ worker[w].job \in Job
  /\ job[worker[w].job].status = "processing"
HoldsLease(w) ==
  /\ worker[w].job \in Job
  /\ job[worker[w].job].status = "processing"
  /\ job[worker[w].job].token = worker[w].token

Release(w) == worker' = [worker EXCEPT ![w] = Idle]

(* The renewal arm of the select.  It does not look at the expiry, so a    *)
(* lease that ran out but was not reclaimed is extended.                   *)
RenewLease(w) ==
  /\ worker[w].pc = "working"
  /\ HoldsLease(w)
  /\ job' = [job EXCEPT ![worker[w].job] =
               Moved(@, "processing", Lease, worker[w].token)]
  /\ UNCHANGED <<notes, worker, sweeping, lastToken, faults>>

(* WorkerError::LeaseLost: the renewal matched no row, the work is dropped.*)
LoseLease(w) ==
  /\ worker[w].pc = "working"
  /\ ~HoldsLease(w)
  /\ Release(w)
  /\ UNCHANGED <<job, notes, sweeping, lastToken, faults>>

(* The work future resolves: duration probe, transcription, embedding.     *)
FinishWork(w) ==
  /\ worker[w].pc = "working"
  /\ \E o \in Outcome :
       worker' = [worker EXCEPT ![w] = [pc |-> "recording", job |-> @.job,
                                        token |-> @.token, outcome |-> o,
                                        stalled |-> @.stalled]]
  /\ UNCHANGED <<job, notes, sweeping, lastToken, faults>>

-----------------------------------------------------------------------------
(* Recording the outcome                                                   *)

SucceededRowLeased(row, id) ==                                           \* mutant
  [status |-> "succeeded", due |-> 0, retries |-> row.retries, token |-> row.token,
   note |-> id, code |-> NoCode, retryable |-> "unset"]
SucceededRow(row, id) ==
  [status |-> "succeeded", due |-> 0, retries |-> row.retries, token |-> NoToken,
   note |-> id, code |-> NoCode, retryable |-> "unset"]

CompleteJob(w) ==
  LET j == worker[w].job IN
  /\ worker[w].pc = "recording" /\ worker[w].outcome.kind = "ok"
  /\ HoldsLease(w)
  /\ job[j].note = NoToken
  /\ notes' = notes \cup {[job |-> j, id |-> worker[w].token]}
  /\ job' = [job EXCEPT ![j] = SucceededRow(@, worker[w].token)]
  /\ Release(w)
  /\ UNCHANGED <<sweeping, lastToken, faults>>

ExhaustedLate(row) == row.retries + 1 > MaxRetries                       \* mutant
Exhausted(row) == row.retries + 1 >= MaxRetries

RetriedRow(row, code, delay) ==
  IF Exhausted(row)
    THEN Judged(row, "failed", 0, row.retries + 1, code, "yes")
    ELSE Judged(row, "retry_waiting", delay, row.retries + 1, code, "unset")

RecordTransientFailure(w) ==
  /\ worker[w].pc = "recording" /\ worker[w].outcome.kind = "transient"
  /\ HoldsLease(w)
  /\ \E delay \in RetryDelay :
       job' = [job EXCEPT ![worker[w].job] =
                 RetriedRow(@, worker[w].outcome.code, delay)]
  /\ Release(w)
  /\ UNCHANGED <<notes, sweeping, lastToken, faults>>

FailedRow(row, code) ==
  Judged(row, "failed", 0, row.retries, code,
         IF code = "audio_invalid" THEN "no" ELSE "yes")

RecordTerminalFailure(w) ==
  /\ worker[w].pc = "recording" /\ worker[w].outcome.kind = "terminal"
  /\ HoldsLease(w)
  /\ job' = [job EXCEPT ![worker[w].job] = FailedRow(@, worker[w].outcome.code)]
  /\ Release(w)
  /\ UNCHANGED <<notes, sweeping, lastToken, faults>>

(* StorageError::JobNotCompletable: the row is no longer this attempt's,   *)
(* or already has its voice note.                                          *)
OutcomeRejected(w) ==
  /\ worker[w].pc = "recording"
  /\ \/ ~HoldsLease(w)
     \/ worker[w].outcome.kind = "ok" /\ job[worker[w].job].note # NoToken
  /\ Release(w)
  /\ UNCHANGED <<job, notes, sweeping, lastToken, faults>>

-----------------------------------------------------------------------------
(* The user, faults and time                                               *)

(* The foreign key: ON DELETE SET NULL on the job's voice_note_id.         *)
LeftDangling(row, id) == row                                             \* mutant
Unlinked(row, id) ==
  IF row.note = id THEN [row EXCEPT !.note = NoToken] ELSE row

DeleteVoiceNote(n) ==
  /\ n \in notes
  /\ notes' = notes \ {n}
  /\ job' = [j \in Job |-> Unlinked(job[j], n.id)]
  /\ UNCHANGED <<worker, sweeping, lastToken, faults>>

(* The attempt ends with the row as it is: a storage call or the audio     *)
(* metadata read fails and the loop sleeps, or the process dies.           *)
AttemptAborted(w) ==
  /\ worker[w].pc # "idle" /\ faults < MaxFaults
  /\ Release(w)
  /\ faults' = faults + 1
  /\ UNCHANGED <<job, notes, sweeping, lastToken>>

(* From here on the attempt may sleep through its renewals.                *)
Stall(w) ==
  /\ worker[w].pc # "idle" /\ ~worker[w].stalled /\ faults < MaxFaults
  /\ worker' = [worker EXCEPT ![w].stalled = TRUE]
  /\ faults' = faults + 1
  /\ UNCHANGED <<job, notes, sweeping, lastToken>>

CountDown(row) ==
  IF row.status \in {"absent"} \cup Settled \/ row.due <= -Horizon
    THEN row ELSE Moved(row, row.status, row.due - 1, row.token)

(* A running attempt renews at half the lease or sooner, so time does not  *)
(* outrun the lease of an attempt that has not stalled.                    *)
Tick ==
  /\ \A w \in Worker : worker[w].pc # "idle" /\ ~worker[w].stalled /\ HoldsLease(w)
                          => job[worker[w].job].due > 0
  /\ job' = [j \in Job |-> CountDown(job[j])]
  /\ UNCHANGED <<notes, worker, sweeping, lastToken, faults>>

-----------------------------------------------------------------------------
Record(w) == \/ CompleteJob(w) \/ RecordTransientFailure(w)
             \/ RecordTerminalFailure(w) \/ OutcomeRejected(w)

WorkerStep(w) == \/ Claim(w) \/ RenewLease(w) \/ LoseLease(w) \/ FinishWork(w)
                 \/ Record(w) \/ AttemptAborted(w) \/ Stall(w)

JobStep(j) == OpenJob(j) \/ FinalizeJob(j) \/ AbandonJob(j)

Next == \/ \E j \in Job : JobStep(j)
        \/ \E w \in Worker : WorkerStep(w)
        \/ \E n \in notes : DeleteVoiceNote(n)
        \/ ListAbandoned
        \/ SweepInterrupted
        \/ Tick

Spec == Init /\ [][Next]_vars

(* The loops of main.rs never return, an engine call has a request         *)
(* timeout, and the clock runs.  Users, renewals and faults owe nothing.   *)
Fairness ==
  /\ WF_vars(Tick)
  /\ WF_vars(ListAbandoned)
  /\ \A j \in Job : WF_vars(AbandonJob(j))
  /\ \A w \in Worker : /\ WF_vars(Claim(w))
                       /\ WF_vars(FinishWork(w))
                       /\ WF_vars(Record(w))

FairSpec == Spec /\ Fairness

-----------------------------------------------------------------------------
(* What must hold                                                          *)

(* Two attempts may both believe they work on a job (one of them slept     *)
(* through its lease), but the storage accepts the outcome of one of them: *)
(* at most one attempt holds the token stored in the row.                  *)
SingleOwner ==
  \A v, w \in Worker :
    v # w /\ HoldsLease(v) /\ HoldsLease(w) => worker[v].job # worker[w].job

(* A voice note belongs to a succeeded job that names it, so no job ever   *)
(* puts two notes in the history however often it was reclaimed, and a job *)
(* names no note the owner has deleted.                                    *)
NotesMatchJobs ==
  /\ \A n \in notes : job[n.job].status = "succeeded" /\ job[n.job].note = n.id
  /\ \A j \in Job : job[j].note # NoToken =>
                       [job |-> j, id |-> job[j].note] \in notes

(* A token marks exactly the rows in processing, and no attempt holds a    *)
(* token that was never issued: a settled or waiting row cannot be moved   *)
(* by whoever worked on it last.                                           *)
LeaseShape ==
  /\ \A j \in Job : (job[j].token # NoToken) <=> (job[j].status = "processing")
  /\ \A j \in Job : job[j].token <= lastToken
  /\ \A w \in Worker : worker[w].token <= lastToken

(* The rest of the inductive invariant.  An idle worker holds nothing; two *)
(* attempts never hold the same token; a row in processing holds the       *)
(* newest of the tokens its attempts hold; the id of a note is a token no  *)
(* running attempt holds, and no two notes share one.                      *)
AttemptShape ==
  \A w \in Worker :
    IF worker[w].pc = "idle"
      THEN worker[w].job = NoJob /\ worker[w].token = NoToken
      ELSE worker[w].job \in Job /\ worker[w].token # NoToken

DistinctTokens ==
  \A v, w \in Worker :
    v # w /\ worker[v].token = worker[w].token => worker[v].token = NoToken

DistinctNotes ==
  /\ \A n \in notes : n.id \in 1..lastToken
  /\ \A n \in notes, w \in Worker : worker[w].token # n.id
  /\ \A m, n \in notes : m.id = n.id => m = n

NewestClaim ==
  \A w \in Worker :
    worker[w].job \in Job /\ job[worker[w].job].status = "processing"
      => worker[w].token <= job[worker[w].job].token

Inv == TypeOK /\ LeaseShape /\ AttemptShape /\ DistinctTokens
       /\ NewestClaim /\ DistinctNotes /\ NotesMatchJobs

(* The backend retries a job fewer than max_retries times, and gives up on *)
(* a transient failure only at the limit.                                  *)
RetryBudget ==
  \A j \in Job :
    /\ job[j].retries <= MaxRetries
    /\ job[j].status = "retry_waiting" => job[j].retries \in 1..(MaxRetries - 1)
    /\ job[j].status = "failed" /\ job[j].code \in TransientCode \ TerminalCode
         => job[j].retries = MaxRetries

(* The strengthening that makes RetryBudget inductive: a job that is not   *)
(* settled has an attempt left.                                            *)
BudgetInv ==
  /\ TypeOK /\ RetryBudget
  /\ \A j \in Job : job[j].status \notin Settled => job[j].retries < MaxRetries

(* Claims that a row accounts for: the retries charged to it, and the claim*)
(* that is running, succeeded or failed for good.                           *)
ClaimsOf(row) ==
  row.retries +
    (IF \/ row.status \in {"processing", "succeeded"}
        \/ /\ row.status = "failed" /\ row.code # "submission_abandoned"
           /\ row.retries < MaxRetries
       THEN 1 ELSE 0)

ClaimsCharged == {c \in Job \X (1..MaxRetries) : c[2] <= ClaimsOf(job[c[1]])}

(* No engine call is repeated for nothing: every claim beyond the retries  *)
(* and outcomes the rows show was paid for by a crash, an error or a stall *)
(* of some attempt.  A live lease is never taken over.                     *)
ClaimsAreAccountedFor == lastToken <= faults + Cardinality(ClaimsCharged)

(* The strengthening that makes it inductive.  A row in processing is      *)
(* attended by the attempt that holds its lease, unless that stalled; the  *)
(* lease of an attended row has not run out; and a fault leaves one row    *)
(* unattended, for one claim to take over.                                 *)
Attended(j) == \E w \in Worker : worker[w].job = j /\ HoldsLease(w) /\ ~worker[w].stalled

Unattended == {j \in Job : job[j].status = "processing" /\ ~Attended(j)}

AccountInv ==
  /\ Inv /\ BudgetInv
  /\ \A j \in Job : Attended(j) => job[j].due >= 0
  /\ IsFiniteSet(ClaimsCharged) /\ IsFiniteSet(Unattended)
  /\ lastToken + Cardinality(Unattended) <= faults + Cardinality(ClaimsCharged)

(* Attempt w, the newest on job j, holds the row's token and records.      *)
SettlesJob(w, j) ==
  /\ worker[w].pc = "recording" /\ worker'[w].pc = "idle"
  /\ worker[w].job = j /\ worker[w].token = job[j].token
  /\ \A v \in Worker : worker[v].job = j => worker[v].token <= worker[w].token

LeavesByLatestClaim ==
  \A j \in Job :
    job[j].status = "processing" /\ job'[j].status # "processing"
      => \E w \in Worker : SettlesJob(w, j)

(* A row leaves processing only by the outcome of the newest claim on it:  *)
(* a worker that lost its lease cannot settle or postpone a job that       *)
(* another worker has taken over.                                          *)
OutcomeByLatestClaim == [][LeavesByLatestClaim]_vars

(* Every job that was accepted at finalize reaches a terminal status,      *)
(* through crashes, lost leases and retries, as long as faults stop.       *)
AcceptedJobsSettle ==
  \A j \in Job : job[j].status = "queued" ~> job[j].status \in Settled

(* A submission that is never finalized does not stay open.                *)
OpenSubmissionsClose ==
  \A j \in Job : job[j].status = "accepting_chunks"
                    ~> job[j].status # "accepting_chunks"

(* The table, its workers and the sweeper implement the promised lifecycle.*)
Lifecycle == INSTANCE JobLifecycle
               WITH phase     <- [j \in Job |-> job[j].status],
                    delivered <- {n.job : n \in notes}

ImplementsLifecycle == Lifecycle!Spec
=================================================================================
