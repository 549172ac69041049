-------------------------- MODULE EmbeddingRegeneration --------------------------
(***************************************************************************)
(* Keeping the semantic-search vector of a voice note in step with its     *)
(* text.  An edit appends a version and, in the same transaction, queues   *)
(* the note's one row of embedding_regeneration_jobs; a regeneration loop  *)
(* claims a row under a lease it never renews, embeds the text it read at  *)
(* the claim, and replaces the vector if nothing overtook it.              *)
(*                                                                         *)
(* Every storage call is one transaction, so one action; the engine call   *)
(* between claim and outcome is where edits, deletions, other loops and    *)
(* faults interleave.  As in TranscriptionJobs a row carries the ticks     *)
(* left to the timestamp its status is judged by.                          *)
(***************************************************************************)
EXTENDS Integers

CONSTANTS
  Note,         \* voice note ids
  Worker,       \* regeneration loops; several when two processes run
  NoNote,       \* the note of an idle loop
  Lease,        \* EmbeddingRegenerationConfig.lease_duration, in ticks
  RetryDelay,   \* the backoffs a transient failure may ask for, in ticks
  MaxRetries,   \* EMBEDDING_REGENERATION_MAX_RETRIES
  Stamp,        \* created_at values told apart: enough of them to order rows
  MaxVersion,   \* bound: versions of a note
  MaxFaults     \* bound: crashes, worker errors and stalls of a behaviour

ASSUME NoNoteIsNoNote == NoNote \notin Note
ASSUME LimitsArePositive ==
  /\ Lease \in Nat \ {0} /\ MaxRetries \in Nat \ {0}
  /\ RetryDelay \subseteq Nat \ {0} /\ Stamp \subseteq Nat \ {0}
  /\ MaxVersion \in Nat /\ MaxFaults \in Nat

VARIABLES
  note,         \* note[n]: does it exist, its versions, and the vector it has
  regen,        \* regen[n]: the embedding_regeneration_jobs row of note n
  worker,       \* worker[w]: what loop w holds in memory
  lastToken,    \* lease tokens issued so far (fresh ULIDs)
  faults        \* faults so far, capped by MaxFaults

vars == <<note, regen, worker, lastToken, faults>>

-----------------------------------------------------------------------------
(* Notes, rows and attempts                                                *)

(* current is the largest version_number, embedded the version whose text  *)
(* the stored vector was computed from, 0 when there is none.              *)
VoiceNote == [life : {"none", "live", "deleted"}, current : Nat, embedded : Nat]

NoVoiceNote == [life |-> "none", current |-> 0, embedded |-> 0]
Deleted     == [life |-> "deleted", current |-> 0, embedded |-> 0]

(* due: ticks until the next attempt or the lease's expiry.                *)
Row == [status  : {"none", "queued", "processing", "retry_waiting", "failed"},
        version : Nat, retries : Nat, due : Nat, token : Nat, created : Nat]

NoToken == 0
NoRow   == [status |-> "none", version |-> 0, retries |-> 0, due |-> 0,
            token |-> NoToken, created |-> 0]

QueuedRow(version, created) ==
  [status |-> "queued", version |-> version, retries |-> 0, due |-> 0,
   token |-> NoToken, created |-> created]

(* The update of a claim or an outcome keeps the version and created_at.   *)
Moved(row, status, retries, due, token) ==
  [status |-> status, version |-> row.version, retries |-> retries,
   due |-> due, token |-> token, created |-> row.created]

Outcome == {"embedded", "transient", "terminal"}

Attempt == [pc      : {"idle", "embedding", "recording"},
            note    : Note \cup {NoNote},
            version : Nat,
            token   : Nat,
            outcome : Outcome \cup {"pending"},
            stalled : BOOLEAN]

Idle == [pc |-> "idle", note |-> NoNote, version |-> 0, token |-> NoToken,
         outcome |-> "pending", stalled |-> FALSE]

TypeOK ==
  /\ note \in [Note -> VoiceNote]
  /\ regen \in [Note -> Row]
  /\ worker \in [Worker -> Attempt]
  /\ lastToken \in Nat
  /\ faults \in Nat

(* The migration queues every note with text that has no vector yet.       *)
Init ==
  \E old \in SUBSET Note, created \in [Note -> Stamp] :
    /\ note = [n \in Note |->
                 IF n \in old
                   THEN [life |-> "live", current |-> 1, embedded |-> 0]
                   ELSE NoVoiceNote]
    /\ regen = [n \in Note |->
                  IF n \in old THEN QueuedRow(1, created[n]) ELSE NoRow]
    /\ worker = [w \in Worker |-> Idle]
    /\ lastToken = NoToken
    /\ faults = 0

-----------------------------------------------------------------------------
(* The note's owner                                                        *)

(* complete_transcription_job stores the note, its first version and the   *)
(* vector together (the claim and lease side is in TranscriptionJobs).     *)
ArriveNote(n) ==
  /\ note[n].life = "none"
  /\ note' = [note EXCEPT ![n] = [life |-> "live", current |-> 1, embedded |-> 1]]
  /\ UNCHANGED <<regen, worker, lastToken, faults>>

EditDoesNotRequeue(row, version) ==                                      \* mutant
  IF row.status = "none" THEN {QueuedRow(version, s) : s \in Stamp} ELSE {row}
EditKeepsLease(row, version) ==                                          \* mutant
  IF row.status = "none"
    THEN {QueuedRow(version, s) : s \in Stamp}
    ELSE {[row EXCEPT !.version = version]}
(* The upsert: a row that is there, whatever its status, starts over for   *)
(* the new version and keeps its created_at.                               *)
Requeued(row, version) ==
  IF row.status = "none"
    THEN {QueuedRow(version, s) : s \in Stamp}
    ELSE {QueuedRow(version, row.created)}

EditText(n) ==
  /\ note[n].life = "live" /\ note[n].current < MaxVersion
  /\ note' = [note EXCEPT ![n] = [life |-> "live", current |-> @.current + 1,
                                  embedded |-> @.embedded]]
  /\ \E row \in Requeued(regen[n], note[n].current + 1) :
       regen' = [regen EXCEPT ![n] = row]
  /\ UNCHANGED <<worker, lastToken, faults>>

(* Versions, vector and row go with the note (ON DELETE CASCADE).          *)
DeleteNote(n) ==
  /\ note[n].life = "live"
  /\ note' = [note EXCEPT ![n] = Deleted]
  /\ regen' = [regen EXCEPT ![n] = NoRow]
  /\ UNCHANGED <<worker, lastToken, faults>>

-----------------------------------------------------------------------------
(* One iteration of the regeneration loop                                  *)

ClaimableNeverReclaimed(n) ==                                            \* mutant
  \/ regen[n].status = "queued"
  \/ regen[n].status = "retry_waiting" /\ regen[n].due = 0
Claimable(n) ==
  \/ regen[n].status = "queued"
  \/ regen[n].status \in {"retry_waiting", "processing"} /\ regen[n].due = 0

Claim(w) ==
  /\ worker[w].pc = "idle"
  /\ \E n \in Note :
       /\ Claimable(n)
       /\ \A m \in Note : Claimable(m) => regen[n].created <= regen[m].created
       /\ regen' = [regen EXCEPT ![n] =
                      Moved(@, "processing", @.retries, Lease, lastToken + 1)]
       /\ worker' = [worker EXCEPT ![w] =
                       [pc |-> "embedding", note |-> n,
                        version |-> regen[n].version, token |-> lastToken + 1,
                        outcome |-> "pending", stalled |-> FALSE]]
  /\ lastToken' = lastToken + 1
  /\ UNCHANGED <<note, faults>>

(* The engine answers, or the text was blank and no call was made.         *)
FinishEmbedding(w) ==
  /\ worker[w].pc = "embedding"
  /\ \E o \in Outcome :
       worker' = [worker EXCEPT ![w] =
                    [pc |-> "recording", note |-> @.note, version |-> @.version,
                     token |-> @.token, outcome |-> o, stalled |-> @.stalled]]
  /\ UNCHANGED <<note, regen, lastToken, faults>>

HoldsLease(w) ==
  /\ worker[w].note \in Note
  /\ regen[worker[w].note].status = "processing"
  /\ regen[worker[w].note].token = worker[w].token

(* Only a completion names the version it embedded.                        *)
RowMatches(w) == worker[w].outcome = "embedded" =>
                   regen[worker[w].note].version = worker[w].version

Release(w) == worker' = [worker EXCEPT ![w] = Idle]

(* replace_current_embedding is the storage's unconditional form.          *)
ReplacesAnyVersion(w) ==                                                 \* mutant
  LET n == worker[w].note IN
  /\ worker[w].pc = "recording" /\ worker[w].outcome = "embedded"
  /\ note' = IF note[n].life = "live"
               THEN [note EXCEPT ![n] = [life |-> "live", current |-> @.current,
                                         embedded |-> worker[w].version]]
               ELSE note
  /\ regen' = IF HoldsLease(w) THEN [regen EXCEPT ![n] = NoRow] ELSE regen
  /\ Release(w)
  /\ UNCHANGED <<lastToken, faults>>
(* The row must still be this attempt's; then it goes, and the vector is   *)
(* replaced if its text is still the current version.                      *)
CompleteIfCurrent(w) ==
  LET n == worker[w].note IN
  /\ worker[w].pc = "recording" /\ worker[w].outcome = "embedded"
  /\ HoldsLease(w) /\ RowMatches(w)
  /\ note' = IF note[n].life = "live" /\ note[n].current = worker[w].version
               THEN [note EXCEPT ![n] = [life |-> "live", current |-> @.current,
                                         embedded |-> worker[w].version]]
               ELSE note
  /\ regen' = [regen EXCEPT ![n] = NoRow]
  /\ Release(w)
  /\ UNCHANGED <<lastToken, faults>>

RetriedRow(row, delay) ==
  IF row.retries + 1 >= MaxRetries
    THEN Moved(row, "failed", row.retries + 1, 0, NoToken)
    ELSE Moved(row, "retry_waiting", row.retries + 1, delay, NoToken)

RecordTransientFailure(w) ==
  /\ worker[w].pc = "recording" /\ worker[w].outcome = "transient"
  /\ HoldsLease(w)
  /\ \E delay \in RetryDelay :
       regen' = [regen EXCEPT ![worker[w].note] = RetriedRow(@, delay)]
  /\ Release(w)
  /\ UNCHANGED <<note, lastToken, faults>>

FailRegeneration(w) ==
  /\ worker[w].pc = "recording" /\ worker[w].outcome = "terminal"
  /\ HoldsLease(w)
  /\ regen' = [regen EXCEPT ![worker[w].note] =
                 Moved(@, "failed", @.retries, 0, NoToken)]
  /\ Release(w)
  /\ UNCHANGED <<note, lastToken, faults>>

(* Each of the three calls leaves a row that is not this attempt's alone.  *)
OutcomeRejected(w) ==
  /\ worker[w].pc = "recording"
  /\ ~(HoldsLease(w) /\ RowMatches(w))
  /\ Release(w)
  /\ UNCHANGED <<note, regen, lastToken, faults>>

-----------------------------------------------------------------------------
(* Faults and time                                                         *)

(* A storage call fails and the loop sleeps, or the process dies.          *)
AttemptAborted(w) ==
  /\ worker[w].pc # "idle" /\ faults < MaxFaults
  /\ Release(w)
  /\ faults' = faults + 1
  /\ UNCHANGED <<note, regen, lastToken>>

(* From here on the attempt may outlive its lease.                         *)
Stall(w) ==
  /\ worker[w].pc # "idle" /\ ~worker[w].stalled /\ faults < MaxFaults
  /\ worker' = [worker EXCEPT ![w].stalled = TRUE]
  /\ faults' = faults + 1
  /\ UNCHANGED <<note, regen, lastToken>>

(* The engine call times out well inside the lease, so an attempt that has *)
(* not stalled records before its lease expires.                           *)
Tick ==
  /\ \A w \in Worker : worker[w].pc # "idle" /\ ~worker[w].stalled /\ HoldsLease(w)
                          => regen[worker[w].note].due > 1
  /\ regen' = [n \in Note |->
                 Moved(regen[n], regen[n].status, regen[n].retries,
                       IF regen[n].due = 0 THEN 0 ELSE regen[n].due - 1,
                       regen[n].token)]
  /\ UNCHANGED <<note, worker, lastToken, faults>>

-----------------------------------------------------------------------------
NoteStep(n) == ArriveNote(n) \/ EditText(n) \/ DeleteNote(n)

Record(w) == \/ CompleteIfCurrent(w) \/ RecordTransientFailure(w)
             \/ FailRegeneration(w) \/ OutcomeRejected(w)

WorkerStep(w) == \/ Claim(w) \/ FinishEmbedding(w) \/ Record(w)
                 \/ AttemptAborted(w) \/ Stall(w)

Next == \/ \E n \in Note : NoteStep(n)
        \/ \E w \in Worker : WorkerStep(w)
        \/ Tick

Spec == Init /\ [][Next]_vars

(* run_embedding_regeneration_loop never returns, an engine call has a     *)
(* request timeout, and the clock runs.  Owners and faults owe nothing.    *)
Fairness ==
  /\ WF_vars(Tick)
  /\ \A w \in Worker : /\ WF_vars(Claim(w))
                       /\ WF_vars(FinishEmbedding(w))
                       /\ WF_vars(Record(w))

FairSpec == Spec /\ Fairness

-----------------------------------------------------------------------------
(* What must hold                                                          *)

Behind(n) == note[n].life = "live" /\ note[n].embedded # note[n].current

(* No edit is lost: a live note whose vector is not of its current text    *)
(* has a row for that text, through overtaken, repeated, aborted and late  *)
(* attempts; and a row never outlives its note.                            *)
BehindIsScheduled ==
  /\ \A n \in Note : Behind(n) => regen[n].status # "none"
  /\ \A n \in Note : regen[n].status # "none" =>
       note[n].life = "live" /\ regen[n].version = note[n].current

(* The rest of the inductive invariant: a vector is of a version that      *)
(* exists, and the attempt whose token is in a row embeds the row's text.  *)
VectorsAreOfVersions ==
  /\ \A n \in Note : note[n].embedded <= note[n].current
  /\ \A n \in Note : (note[n].current = 0) <=> (note[n].life # "live")
  /\ \A n \in Note : regen[n].status # "none" =>
                       note[n].embedded < note[n].current

TokensAreIssued ==
  /\ \A n \in Note : regen[n].token <= lastToken
  /\ \A n \in Note : regen[n].status = "processing" => regen[n].token # NoToken
  /\ \A w \in Worker : worker[w].token <= lastToken

HoldersEmbedTheRow ==
  \A w \in Worker : HoldsLease(w) =>
                      worker[w].version = regen[worker[w].note].version

Inv == /\ TypeOK /\ BehindIsScheduled /\ VectorsAreOfVersions
       /\ TokensAreIssued /\ HoldersEmbedTheRow

(* A vector that is replaced is replaced by the one of the text current at *)
(* that moment, so a slow attempt never puts an older text back in search. *)
Index == INSTANCE SearchIndex WITH current <- [n \in Note |-> note[n].current],
                                   indexed <- [n \in Note |-> note[n].embedded]

ImplementsIndex == Index!Spec

(* Search catches up with the last edit, unless the engine gave the text   *)
(* up, as long as faults stop and the owner leaves the note alone.         *)
SearchCatchesUp ==
  \A n \in Note : Behind(n) ~> ~Behind(n) \/ regen[n].status = "failed"
=================================================================================
