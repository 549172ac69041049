------------------------ MODULE TranscriptionJobs_proofs ------------------------
(***************************************************************************)
(* Proofs about TranscriptionJobs, for every set of jobs and workers and   *)
(* every value of the durations and limits.                                *)
(***************************************************************************)
EXTENDS TranscriptionJobs, FiniteSetTheorems, TLAPS

(* What the storage calls write is a row.                                  *)
LEMMA RowsAreRows ==
  ASSUME NEW row \in Row
  PROVE  /\ \A s \in Status, d \in Int, t \in Nat : Moved(row, s, d, t) \in Row
         /\ AbandonedRow(row) \in Row
         /\ \A id \in Nat : SucceededRow(row, id) \in Row
         /\ \A c \in FailureCode, d \in Int : RetriedRow(row, c, d) \in Row
         /\ \A c \in FailureCode : FailedRow(row, c) \in Row
         /\ CountDown(row) \in Row
<1>1. \A s \in Status, d \in Int, t \in Nat : Moved(row, s, d, t) \in Row
  BY DEF Moved, Row
<1>2. \A s \in Status, d \in Int, n \in Nat, c \in FailureCode,
         r \in {"unset", "yes", "no"} : Judged(row, s, d, n, c, r) \in Row
  BY DEF Judged, Row, NoToken
<1>3. row.retries \in Nat /\ row.due \in Int /\ row.status \in Status /\ row.token \in Nat
  BY DEF Row
<1>4. AbandonedRow(row) \in Row
  BY <1>2, <1>3 DEF AbandonedRow, Status, FailureCode
<1>5. \A id \in Nat : SucceededRow(row, id) \in Row
  BY <1>3 DEF SucceededRow, Row, Status, NoToken
<1>6. \A c \in FailureCode, d \in Int : RetriedRow(row, c, d) \in Row
  BY <1>2, <1>3 DEF RetriedRow, Status
<1>7. \A c \in FailureCode : FailedRow(row, c) \in Row
  BY <1>2, <1>3 DEF FailedRow, Status
<1>8. CountDown(row) \in Row
  BY <1>1, <1>3 DEF CountDown
<1>. QED
  BY <1>1, <1>4, <1>5, <1>6, <1>7, <1>8

(* The empty table and idle workers are well typed.                        *)
LEMMA InitTypeOK == Init => TypeOK
  BY DEF Init, TypeOK, AbsentRow, Row, Status, FailureCode, NoCode, NoToken,
         Idle, Attempt, Pending

(* Every step keeps the types: what it writes into a row is a row.         *)
LEMMA StepTypeOK == TypeOK /\ [Next]_vars => TypeOK'
<1> SUFFICES ASSUME TypeOK, [Next]_vars PROVE TypeOK'
  OBVIOUS
<1> USE DEF TypeOK
<1>0. Idle \in Attempt
  BY DEF Idle, Attempt, Pending, NoToken
<1>1. ASSUME NEW j \in Job, OpenJob(j) PROVE TypeOK'
  BY <1>1, RowsAreRows, DurationsArePositive DEF OpenJob, Status, NoToken
<1>2. ASSUME NEW j \in Job, FinalizeJob(j) PROVE TypeOK'
  BY <1>2, RowsAreRows DEF FinalizeJob, Status, NoToken
<1>3. ASSUME NEW j \in Job, AbandonJob(j) PROVE TypeOK'
  BY <1>3, RowsAreRows DEF AbandonJob
<1>4. CASE ListAbandoned
  BY <1>4 DEF ListAbandoned
<1>5. CASE SweepInterrupted
  BY <1>5 DEF SweepInterrupted
<1>6. ASSUME NEW w \in Worker, Claim(w) PROVE TypeOK'
  <2>1. PICK j \in Job :
          /\ job' = [job EXCEPT ![j] = Moved(@, "processing", Lease, FreshToken)]
          /\ worker' = [worker EXCEPT ![w] = [pc |-> "working", job |-> j,
                                              token |-> FreshToken,
                                              outcome |-> Pending,
                                              stalled |-> FALSE]]
    BY <1>6 DEF Claim
  <2>2. FreshToken \in Nat
    BY DEF FreshToken
  <2>3. Moved(job[j], "processing", Lease, FreshToken) \in Row
    BY <2>2, RowsAreRows, DurationsArePositive DEF Status
  <2>4. worker' \in [Worker -> Attempt]
    BY <2>1, <2>2 DEF Attempt
  <2>. QED
    BY <1>6, <2>1, <2>2, <2>3, <2>4 DEF Claim
<1>7. ASSUME NEW w \in Worker, RenewLease(w) PROVE TypeOK'
  <2>1. worker[w].token \in Nat
    BY DEF Attempt
  <2>2. worker[w].job \in Job
    BY <1>7 DEF RenewLease, HoldsLease
  <2>3. job[worker[w].job] \in Row /\ Lease \in Int /\ "processing" \in Status
    BY <2>2, DurationsArePositive DEF Status
  <2>4. Moved(job[worker[w].job], "processing", Lease, worker[w].token) \in Row
    BY <2>1, <2>3, RowsAreRows
  <2>. QED
    BY <1>7, <2>4 DEF RenewLease
<1>8. ASSUME NEW w \in Worker, LoseLease(w) PROVE TypeOK'
  BY <1>0, <1>8 DEF LoseLease, Release
<1>9. ASSUME NEW w \in Worker, FinishWork(w) PROVE TypeOK'
  BY <1>9 DEF FinishWork, Attempt
<1>10. ASSUME NEW w \in Worker, CompleteJob(w) PROVE TypeOK'
  <2>1. worker[w].job \in Job /\ worker[w].token \in Nat
    BY <1>10 DEF CompleteJob, HoldsLease, Attempt
  <2>. QED
    BY <1>0, <1>10, <2>1, RowsAreRows DEF CompleteJob, Release
<1>11. ASSUME NEW w \in Worker, RecordTransientFailure(w) PROVE TypeOK'
  <2>1. worker[w].outcome.code \in FailureCode
    BY <1>11 DEF RecordTransientFailure, Attempt, Outcome, Pending, FailureCode
  <2>2. PICK delay \in RetryDelay :
          job' = [job EXCEPT ![worker[w].job] =
                    RetriedRow(@, worker[w].outcome.code, delay)]
    BY <1>11 DEF RecordTransientFailure
  <2>3. job[worker[w].job] \in Row /\ delay \in Int
    BY <1>11, DurationsArePositive DEF RecordTransientFailure, HoldsLease
  <2>4. RetriedRow(job[worker[w].job], worker[w].outcome.code, delay) \in Row
    BY <2>1, <2>3, RowsAreRows
  <2>. QED
    BY <1>0, <1>11, <2>2, <2>4 DEF RecordTransientFailure, Release
<1>12. ASSUME NEW w \in Worker, RecordTerminalFailure(w) PROVE TypeOK'
  <2>1. worker[w].outcome.code \in FailureCode
    BY <1>12 DEF RecordTerminalFailure, Attempt, Outcome, Pending, FailureCode
  <2>. QED
    BY <1>0, <1>12, <2>1, RowsAreRows
       DEF RecordTerminalFailure, HoldsLease, Release
<1>13. ASSUME NEW w \in Worker, OutcomeRejected(w) PROVE TypeOK'
  BY <1>0, <1>13 DEF OutcomeRejected, Release
<1>14. ASSUME NEW w \in Worker, AttemptAborted(w) PROVE TypeOK'
  BY <1>0, <1>14 DEF AttemptAborted, Release
<1>15. ASSUME NEW w \in Worker, Stall(w) PROVE TypeOK'
  <2>1. [worker[w] EXCEPT !.stalled = TRUE] \in Attempt
    BY DEF Attempt
  <2>. QED
    BY <1>15, <2>1 DEF Stall
<1>16. ASSUME NEW n \in notes, DeleteVoiceNote(n) PROVE TypeOK'
  BY <1>16 DEF DeleteVoiceNote, Unlinked, Row, NoToken
<1>17. CASE Tick
  BY <1>17, RowsAreRows, DurationsArePositive DEF Tick
<1>18. CASE UNCHANGED vars
  BY <1>18 DEF vars
<1>. QED
  BY <1>1, <1>2, <1>3, <1>4, <1>5, <1>6, <1>7, <1>8, <1>9, <1>10, <1>11, <1>12,
     <1>13, <1>14, <1>15, <1>16, <1>17, <1>18
     DEF Next, JobStep, WorkerStep, Record

(* Every variable keeps its type.                                          *)
THEOREM TypeCorrect == Spec => []TypeOK
<1>. QED
  BY InitTypeOK, StepTypeOK, PTL DEF Spec

-----------------------------------------------------------------------------
(* Leases                                                                  *)

(* What the writes do to the columns the lease argument looks at.          *)
LEMMA RowWrites ==
  ASSUME NEW row \in Row
  PROVE  /\ \A s, d, t : /\ Moved(row, s, d, t).status = s
                         /\ Moved(row, s, d, t).token = t
                         /\ Moved(row, s, d, t).note = row.note
         /\ AbandonedRow(row).status = "failed"
         /\ AbandonedRow(row).token = NoToken
         /\ AbandonedRow(row).note = row.note
         /\ \A id : /\ SucceededRow(row, id).status = "succeeded"
                    /\ SucceededRow(row, id).token = NoToken
                    /\ SucceededRow(row, id).note = id
         /\ \A c, d : /\ RetriedRow(row, c, d).status \in {"failed", "retry_waiting"}
                      /\ RetriedRow(row, c, d).token = NoToken
                      /\ RetriedRow(row, c, d).note = row.note
         /\ \A c : /\ FailedRow(row, c).status = "failed"
                   /\ FailedRow(row, c).token = NoToken
                   /\ FailedRow(row, c).note = row.note
         /\ CountDown(row).status = row.status
         /\ CountDown(row).token = row.token
         /\ CountDown(row).note = row.note
  BY DEF Moved, AbandonedRow, SucceededRow, RetriedRow, FailedRow, Judged,
         CountDown

(* The invariant holds before any job is opened.                           *)
LEMMA InitInv == Init => Inv
<1> SUFFICES ASSUME Init PROVE Inv
  OBVIOUS
<1>1. TypeOK
  BY InitTypeOK
<1>2. LeaseShape
  BY DEF Init, LeaseShape, AbsentRow, Idle, NoToken
<1>3. AttemptShape /\ DistinctTokens /\ NewestClaim
  BY NoJobIsNoJob DEF Init, AttemptShape, DistinctTokens, NewestClaim, Idle
<1>4. DistinctNotes /\ NotesMatchJobs
  BY DEF Init, DistinctNotes, NotesMatchJobs, AbsentRow
<1>. QED
  BY <1>1, <1>2, <1>3, <1>4 DEF Inv

(* Only a claim issues a token, and it gives it to one row and one attempt.*)
LEMMA StepLeaseShape == Inv /\ [Next]_vars => LeaseShape'
<1> SUFFICES ASSUME Inv, [Next]_vars PROVE LeaseShape'
  OBVIOUS
<1> USE DEF Inv, LeaseShape
<1>0. \A j \in Job : job[j] \in Row
  BY DEF TypeOK
<1>1. ASSUME NEW j \in Job, OpenJob(j) PROVE LeaseShape'
  BY <1>0, <1>1, RowWrites DEF OpenJob, TypeOK
<1>2. ASSUME NEW j \in Job, FinalizeJob(j) PROVE LeaseShape'
  BY <1>0, <1>2, RowWrites DEF FinalizeJob, TypeOK
<1>3. ASSUME NEW j \in Job, AbandonJob(j) PROVE LeaseShape'
  BY <1>0, <1>3, RowWrites DEF AbandonJob, TypeOK, NoToken
<1>4. ASSUME NEW w \in Worker, Claim(w) PROVE LeaseShape'
  BY <1>0, <1>4, RowWrites DEF Claim, FreshToken, TypeOK, NoToken, Attempt, Row
<1>5. ASSUME NEW w \in Worker, RenewLease(w) PROVE LeaseShape'
  BY <1>0, <1>5, RowWrites DEF RenewLease, HoldsLease, TypeOK
<1>6. ASSUME NEW w \in Worker, LoseLease(w) PROVE LeaseShape'
  BY <1>6 DEF LoseLease, Release, Idle, TypeOK, NoToken
<1>7. ASSUME NEW w \in Worker, FinishWork(w) PROVE LeaseShape'
  BY <1>7 DEF FinishWork, TypeOK
<1>8. ASSUME NEW w \in Worker, CompleteJob(w) PROVE LeaseShape'
  BY <1>0, <1>8, RowWrites
     DEF CompleteJob, HoldsLease, Release, Idle, TypeOK, NoToken
<1>9. ASSUME NEW w \in Worker, RecordTransientFailure(w) PROVE LeaseShape'
  BY <1>0, <1>9, RowWrites
     DEF RecordTransientFailure, HoldsLease, Release, Idle, TypeOK, NoToken
<1>10. ASSUME NEW w \in Worker, RecordTerminalFailure(w) PROVE LeaseShape'
  BY <1>0, <1>10, RowWrites
     DEF RecordTerminalFailure, HoldsLease, Release, Idle, TypeOK, NoToken
<1>11. ASSUME NEW w \in Worker, OutcomeRejected(w) \/ AttemptAborted(w)
       PROVE LeaseShape'
  BY <1>11 DEF OutcomeRejected, AttemptAborted, Release, Idle, TypeOK, NoToken
<1>12. ASSUME NEW w \in Worker, Stall(w) PROVE LeaseShape'
  BY <1>12 DEF Stall, TypeOK, Attempt
<1>13. ASSUME NEW n \in notes, DeleteVoiceNote(n) PROVE LeaseShape'
  BY <1>0, <1>13 DEF DeleteVoiceNote, Unlinked, Row
<1>14. CASE Tick
  BY <1>0, <1>14, RowWrites DEF Tick
<1>15. CASE ListAbandoned \/ SweepInterrupted \/ UNCHANGED vars
  BY <1>15 DEF ListAbandoned, SweepInterrupted, vars
<1>. QED
  BY <1>1, <1>2, <1>3, <1>4, <1>5, <1>6, <1>7, <1>8, <1>9, <1>10, <1>11, <1>12,
     <1>13, <1>14, <1>15 DEF Next, JobStep, WorkerStep, Record

(* A claim takes an idle worker and a token above every token issued.      *)
LEMMA StepAttempts == Inv /\ [Next]_vars => AttemptShape' /\ DistinctTokens'
<1> SUFFICES ASSUME Inv, [Next]_vars PROVE AttemptShape' /\ DistinctTokens'
  OBVIOUS
<1> USE DEF Inv, AttemptShape, DistinctTokens
<1>1. ASSUME NEW w \in Worker, Claim(w) PROVE AttemptShape' /\ DistinctTokens'
  BY <1>1 DEF Claim, FreshToken, LeaseShape, TypeOK, NoToken, Attempt
<1>2. ASSUME NEW w \in Worker, Release(w)
      PROVE AttemptShape' /\ DistinctTokens'
  BY <1>2 DEF Release, Idle, TypeOK
<1>3. ASSUME NEW w \in Worker, FinishWork(w)
      PROVE AttemptShape' /\ DistinctTokens'
  BY <1>3 DEF FinishWork, TypeOK
<1>4. ASSUME NEW w \in Worker, Stall(w) PROVE AttemptShape' /\ DistinctTokens'
  BY <1>4 DEF Stall, TypeOK, Attempt
<1>5. CASE UNCHANGED worker
  BY <1>5
<1>. QED
  BY <1>1, <1>2, <1>3, <1>4, <1>5
     DEF Next, JobStep, WorkerStep, Record, OpenJob, FinalizeJob, AbandonJob,
         RenewLease, LoseLease, CompleteJob, RecordTransientFailure,
         RecordTerminalFailure, OutcomeRejected, AttemptAborted,
         DeleteVoiceNote, ListAbandoned, SweepInterrupted, Tick, vars

(* A claim issues a token above every token held, and nothing else lowers  *)
(* or moves the token of a row that stays in processing.                   *)
LEMMA StepNewestClaim == Inv /\ [Next]_vars => NewestClaim'
<1> SUFFICES ASSUME Inv, [Next]_vars PROVE NewestClaim'
  OBVIOUS
<1> USE DEF Inv, NewestClaim
<1>0. /\ \A j \in Job : job[j] \in Row
      /\ \A w \in Worker : worker[w] \in Attempt /\ worker[w].token \in Nat
  BY DEF TypeOK, Attempt
<1>1. ASSUME NEW w \in Worker, Claim(w) PROVE NewestClaim'
  BY <1>0, <1>1, RowWrites DEF Claim, FreshToken, LeaseShape, TypeOK, Row
<1>2. ASSUME NEW w \in Worker, RenewLease(w) PROVE NewestClaim'
  BY <1>0, <1>2, RowWrites DEF RenewLease, HoldsLease, TypeOK
<1>3. ASSUME NEW w \in Worker, Release(w), UNCHANGED job PROVE NewestClaim'
  BY <1>3, NoJobIsNoJob DEF Release, Idle, TypeOK
<1>4. ASSUME NEW w \in Worker, CompleteJob(w) PROVE NewestClaim'
  BY <1>0, <1>4, RowWrites, NoJobIsNoJob
     DEF CompleteJob, HoldsLease, Release, Idle, TypeOK
<1>5. ASSUME NEW w \in Worker, RecordTransientFailure(w) PROVE NewestClaim'
  BY <1>0, <1>5, RowWrites, NoJobIsNoJob
     DEF RecordTransientFailure, HoldsLease, Release, Idle, TypeOK
<1>6. ASSUME NEW w \in Worker, RecordTerminalFailure(w) PROVE NewestClaim'
  BY <1>0, <1>6, RowWrites, NoJobIsNoJob
     DEF RecordTerminalFailure, HoldsLease, Release, Idle, TypeOK
<1>7. ASSUME NEW w \in Worker, FinishWork(w) \/ Stall(w) PROVE NewestClaim'
  BY <1>0, <1>7 DEF FinishWork, Stall, TypeOK, Attempt
<1>8. ASSUME NEW j \in Job, OpenJob(j) \/ FinalizeJob(j) \/ AbandonJob(j)
      PROVE NewestClaim'
  BY <1>0, <1>8, RowWrites DEF OpenJob, FinalizeJob, AbandonJob, TypeOK
<1>9. ASSUME NEW n \in notes, DeleteVoiceNote(n) PROVE NewestClaim'
  BY <1>0, <1>9 DEF DeleteVoiceNote, Unlinked, Row
<1>10. CASE Tick
  BY <1>0, <1>10, RowWrites DEF Tick
<1>11. CASE ListAbandoned \/ SweepInterrupted \/ UNCHANGED vars
  BY <1>11 DEF ListAbandoned, SweepInterrupted, vars
<1>. QED
  BY <1>1, <1>2, <1>3, <1>4, <1>5, <1>6, <1>7, <1>8, <1>9, <1>10, <1>11
     DEF Next, JobStep, WorkerStep, Record, LoseLease, OutcomeRejected,
         AttemptAborted

-----------------------------------------------------------------------------
(* Voice notes                                                             *)

(* Steps that leave the notes alone, and the status and note column of     *)
(* every succeeded row, keep notes and jobs matched.                       *)
LEMMA NotesUndisturbed ==
  ASSUME NotesMatchJobs, notes \subseteq [job : Job, id : Nat], notes' = notes,
         \A j \in Job : /\ job'[j].note = job[j].note
                        /\ job[j].status = "succeeded" => job'[j].status = "succeeded"
  PROVE  NotesMatchJobs'
  BY DEF NotesMatchJobs

(* A note is added with the status and note column of its job, under a     *)
(* token no note has yet, and removed with every reference to it.          *)
LEMMA StepNotes == Inv /\ [Next]_vars => DistinctNotes' /\ NotesMatchJobs'
<1> SUFFICES ASSUME Inv, [Next]_vars PROVE DistinctNotes' /\ NotesMatchJobs'
  OBVIOUS
<1> USE DEF Inv
<1>0. /\ \A j \in Job : job[j] \in Row
      /\ \A w \in Worker : worker[w] \in Attempt /\ worker[w].token \in Nat
      /\ \A n \in notes : n \in [job : Job, id : Nat]
      /\ notes \subseteq [job : Job, id : Nat]
      /\ lastToken \in Nat
      /\ NotesMatchJobs
  BY DEF TypeOK, Attempt
<1>1. ASSUME NEW w \in Worker, CompleteJob(w)
      PROVE  DistinctNotes' /\ NotesMatchJobs'
  <2> DEFINE j == worker[w].job
             t == worker[w].token
  <2>1. j \in Job /\ t \in Nat /\ t # NoToken /\ t <= lastToken
    BY <1>0, <1>1 DEF CompleteJob, HoldsLease, AttemptShape, LeaseShape
  <2>2. \A n \in notes : n.job # j /\ n.id # t
    BY <1>1 DEF CompleteJob, HoldsLease, NotesMatchJobs, DistinctNotes
  <2>3. job' = [job EXCEPT ![j] = SucceededRow(@, t)]
        /\ notes' = notes \cup {[job |-> j, id |-> t]}
    BY <1>1 DEF CompleteJob
  <2>4. \A v \in Worker : worker'[v].token # t
    BY <1>1, <2>1 DEF CompleteJob, Release, DistinctTokens, TypeOK, Idle
  <2>5. DistinctNotes'
    <3>1. \A n \in notes' : n.id \in 1..lastToken'
      BY <1>1, <2>1, <2>3 DEF CompleteJob, DistinctNotes, NoToken
    <3>2. \A n \in notes', v \in Worker : worker'[v].token # n.id
      BY <1>1, <2>3, <2>4 DEF CompleteJob, Release, Idle, DistinctNotes, NoToken, TypeOK
    <3>3. \A m, n \in notes' : m.id = n.id => m = n
      BY <2>2, <2>3 DEF DistinctNotes
    <3>. QED
      BY <3>1, <3>2, <3>3 DEF DistinctNotes
  <2>6. /\ job'[j].status = "succeeded" /\ job'[j].note = t
        /\ \A k \in Job : k # j => job'[k] = job[k]
    BY <1>0, <2>1, <2>3, RowWrites DEF TypeOK
  <2>7. NotesMatchJobs'
    BY <1>0, <2>1, <2>2, <2>3, <2>6 DEF NotesMatchJobs
  <2>. QED
    BY <2>5, <2>7
<1>2. ASSUME NEW n \in notes, DeleteVoiceNote(n)
      PROVE  DistinctNotes' /\ NotesMatchJobs'
  <2>1. /\ notes' = notes \ {n} /\ worker' = worker /\ lastToken' = lastToken
        /\ job' = [j \in Job |-> Unlinked(job[j], n.id)]
    BY <1>2 DEF DeleteVoiceNote
  <2>2. \A j \in Job : /\ job'[j].status = job[j].status
                       /\ job'[j].note = IF job[j].note = n.id THEN NoToken
                                                               ELSE job[j].note
    BY <1>0, <2>1 DEF Unlinked, Row
  <2>3. DistinctNotes'
    BY <2>1 DEF DistinctNotes
  <2>4. \A m \in notes' : m.id # n.id
    BY <2>1 DEF DistinctNotes
  <2>5. NotesMatchJobs'
    BY <1>0, <2>1, <2>2, <2>4 DEF NotesMatchJobs
  <2>. QED
    BY <2>3, <2>5
<1>3. ASSUME NEW w \in Worker, Claim(w) PROVE DistinctNotes' /\ NotesMatchJobs'
  <2>1. DistinctNotes'
    BY <1>0, <1>3 DEF Claim, FreshToken, DistinctNotes, TypeOK
  <2>2. NotesMatchJobs'
    BY <1>0, <1>3, NotesUndisturbed, RowWrites DEF Claim, Claimable, TypeOK
  <2>. QED
    BY <2>1, <2>2
<1>4. ASSUME NEW w \in Worker, Release(w), UNCHANGED <<notes, lastToken>>
      PROVE  DistinctNotes'
  BY <1>4 DEF Release, Idle, DistinctNotes, NoToken, TypeOK
<1>5. ASSUME NEW w \in Worker, RenewLease(w) PROVE DistinctNotes' /\ NotesMatchJobs'
  <2>1. NotesMatchJobs'
    BY <1>0, <1>5, NotesUndisturbed, RowWrites DEF RenewLease, HoldsLease, TypeOK
  <2>. QED
    BY <1>5, <2>1 DEF RenewLease, DistinctNotes
<1>6. ASSUME NEW w \in Worker,
             RecordTransientFailure(w) \/ RecordTerminalFailure(w)
      PROVE  DistinctNotes' /\ NotesMatchJobs'
  <2>1. NotesMatchJobs'
    BY <1>0, <1>6, NotesUndisturbed, RowWrites
       DEF RecordTransientFailure, RecordTerminalFailure, HoldsLease, TypeOK
  <2>. QED
    BY <1>4, <1>6, <2>1 DEF RecordTransientFailure, RecordTerminalFailure
<1>7. ASSUME NEW w \in Worker,
             LoseLease(w) \/ OutcomeRejected(w) \/ AttemptAborted(w)
      PROVE  DistinctNotes' /\ NotesMatchJobs'
  <2>1. UNCHANGED <<job, notes, lastToken>> /\ Release(w)
    BY <1>7 DEF LoseLease, OutcomeRejected, AttemptAborted
  <2>. QED
    BY <1>0, <1>4, <2>1, NotesUndisturbed
<1>8. ASSUME NEW w \in Worker, FinishWork(w) \/ Stall(w)
      PROVE  DistinctNotes' /\ NotesMatchJobs'
  <2>1. UNCHANGED <<job, notes, lastToken>>
        /\ \A v \in Worker : worker'[v].token = worker[v].token
    BY <1>0, <1>8 DEF FinishWork, Stall, TypeOK, Attempt
  <2>. QED
    BY <1>0, <2>1, NotesUndisturbed DEF DistinctNotes
<1>9. ASSUME NEW j \in Job, OpenJob(j) \/ FinalizeJob(j) \/ AbandonJob(j)
      PROVE  DistinctNotes' /\ NotesMatchJobs'
  <2>1. NotesMatchJobs'
    BY <1>0, <1>9, NotesUndisturbed, RowWrites
       DEF OpenJob, FinalizeJob, AbandonJob, PastWindow, TypeOK
  <2>. QED
    BY <1>9, <2>1 DEF OpenJob, FinalizeJob, AbandonJob, DistinctNotes
<1>10. CASE Tick
  <2>1. NotesMatchJobs'
    BY <1>0, <1>10, NotesUndisturbed, RowWrites DEF Tick
  <2>. QED
    BY <1>10, <2>1 DEF Tick, DistinctNotes
<1>11. CASE ListAbandoned \/ SweepInterrupted \/ UNCHANGED vars
  <2>1. UNCHANGED <<job, notes, worker, lastToken>>
    BY <1>11 DEF ListAbandoned, SweepInterrupted, vars
  <2>. QED
    BY <1>0, <2>1, NotesUndisturbed DEF DistinctNotes
<1>. QED
  BY <1>1, <1>2, <1>3, <1>5, <1>6, <1>7, <1>8, <1>9, <1>10, <1>11
     DEF Next, JobStep, WorkerStep, Record

(* The invariant is inductive.                                             *)
LEMMA StepInv == Inv /\ [Next]_vars => Inv'
<1>1. Inv /\ [Next]_vars => TypeOK'
  BY StepTypeOK DEF Inv
<1>. QED
  BY <1>1, StepLeaseShape, StepAttempts, StepNewestClaim, StepNotes DEF Inv

(* The inductive invariant holds in every reachable state.                 *)
THEOREM Invariance == Spec => []Inv
<1>. QED
  BY InitInv, StepInv, PTL DEF Spec

(* The owner's history and the jobs table agree: one note per succeeded    *)
(* job at most, and no job names a note that is gone.                      *)
THEOREM NotesAgree == Spec => []NotesMatchJobs
<1>1. Inv => NotesMatchJobs
  BY DEF Inv
<1>. QED
  BY <1>1, Invariance, PTL

(* However many workers believe they own a job, the row accepts one.       *)
THEOREM OneOwner == Spec => []SingleOwner
<1>1. Inv => SingleOwner
  BY DEF Inv, SingleOwner, HoldsLease, DistinctTokens, LeaseShape
<1>. QED
  BY <1>1, Invariance, PTL

-----------------------------------------------------------------------------
(* Outcomes                                                                *)

(* Of all steps only the three outcomes take a row out of processing, and  *)
(* each checks the row's token first.                                      *)
LEMMA StepOutcome == Inv /\ [Next]_vars => [LeavesByLatestClaim]_vars
<1> SUFFICES ASSUME Inv, [Next]_vars, NEW j \in Job,
                    job[j].status = "processing", job'[j].status # "processing"
             PROVE  \E w \in Worker : SettlesJob(w, j)
  BY DEF LeavesByLatestClaim
<1> USE DEF Inv
<1>0. job[j] \in Row /\ \A w \in Worker : worker[w].token \in Nat
  BY DEF TypeOK, Attempt
<1>1. ASSUME NEW w \in Worker, HoldsLease(w), worker[w].pc = "recording",
             Release(w), worker[w].job = j
      PROVE  SettlesJob(w, j)
  BY <1>1 DEF SettlesJob, HoldsLease, Release, Idle, NewestClaim, TypeOK
<1>2. ASSUME NEW w \in Worker,
             CompleteJob(w) \/ RecordTransientFailure(w) \/ RecordTerminalFailure(w)
      PROVE  SettlesJob(w, j)
  <2>1. HoldsLease(w) /\ worker[w].pc = "recording" /\ Release(w)
    BY <1>2 DEF CompleteJob, RecordTransientFailure, RecordTerminalFailure
  <2>2. worker[w].job = j
    BY <1>2 DEF CompleteJob, RecordTransientFailure, RecordTerminalFailure, TypeOK
  <2>. QED
    BY <1>1, <2>1, <2>2
<1>3. ~ \E k \in Job : OpenJob(k) \/ FinalizeJob(k) \/ AbandonJob(k)
  BY <1>0, RowWrites DEF OpenJob, FinalizeJob, AbandonJob, PastWindow, TypeOK
<1>4. ~ \E w \in Worker : Claim(w) \/ RenewLease(w)
  BY <1>0, RowWrites DEF Claim, RenewLease, HoldsLease, TypeOK
<1>5. ~ \E n \in notes : DeleteVoiceNote(n)
  BY <1>0 DEF DeleteVoiceNote, Unlinked, Row
<1>6. ~ Tick
  BY <1>0, RowWrites DEF Tick
<1>7. job' # job
  OBVIOUS
<1>. QED
  BY <1>2, <1>3, <1>4, <1>5, <1>6, <1>7
     DEF Next, JobStep, WorkerStep, Record, LoseLease, FinishWork, Stall,
         OutcomeRejected, AttemptAborted, ListAbandoned, SweepInterrupted, vars

(* A worker whose lease was taken over cannot settle or postpone the job:  *)
(* a row leaves processing by the newest attempt on it.                    *)
THEOREM OutcomesAreLatest == Spec => OutcomeByLatestClaim
<1>. QED
  BY Invariance, StepOutcome, PTL DEF Spec, OutcomeByLatestClaim

-----------------------------------------------------------------------------
(* Retries                                                                 *)

(* What the writes do to the columns the retry argument looks at.          *)
LEMMA RetryWrites ==
  ASSUME NEW row \in Row
  PROVE  /\ \A s, d, t : /\ Moved(row, s, d, t).retries = row.retries
                         /\ Moved(row, s, d, t).code = row.code
         /\ AbandonedRow(row).retries = row.retries
         /\ AbandonedRow(row).code = "submission_abandoned"
         /\ \A id : SucceededRow(row, id).retries = row.retries
         /\ \A c, d : /\ RetriedRow(row, c, d).retries = row.retries + 1
                      /\ RetriedRow(row, c, d).status =
                           IF row.retries + 1 >= MaxRetries THEN "failed"
                                                            ELSE "retry_waiting"
         /\ \A c : /\ FailedRow(row, c).retries = row.retries
                   /\ FailedRow(row, c).code = c
         /\ CountDown(row).retries = row.retries
         /\ CountDown(row).code = row.code
  BY DEF Moved, AbandonedRow, SucceededRow, RetriedRow, Exhausted, FailedRow,
         Judged, CountDown

(* The budget of one row, so that a step that writes one row has one row   *)
(* to look at.                                                             *)
WithinBudget(row) ==
  /\ row.retries <= MaxRetries
  /\ row.status = "retry_waiting" => row.retries \in 1..(MaxRetries - 1)
  /\ row.status = "failed" /\ row.code \in TransientCode \ TerminalCode
       => row.retries = MaxRetries
  /\ row.status \notin Settled => row.retries < MaxRetries

(* The budget of the table is the budget of each row.                      *)
LEMMA BudgetByRow == BudgetInv <=> TypeOK /\ \A j \in Job : WithinBudget(job[j])
  BY DEF BudgetInv, RetryBudget, WithinBudget

(* A table without rows is within budget.                                  *)
LEMMA InitBudget == Init => BudgetInv
  BY InitTypeOK, BudgetByRow, LimitsAreNatural
     DEF Init, AbsentRow, WithinBudget, NoCode, CodesAreEngineCodes

(* A transient failure is the only step that charges a retry, and it       *)
(* settles the row it charges with the last one.                           *)
LEMMA StepBudget == BudgetInv /\ [Next]_vars => BudgetInv'
<1> SUFFICES ASSUME BudgetInv, [Next]_vars,
                    NEW j \in Job, ~ WithinBudget(job'[j])
             PROVE  FALSE
  BY BudgetByRow, StepTypeOK DEF BudgetInv, RetryBudget, WithinBudget
<1>0. /\ TypeOK /\ job[j] \in Row /\ job[j].retries \in Nat
      /\ WithinBudget(job[j]) /\ MaxRetries \in Nat \ {0}
  BY BudgetByRow, LimitsAreNatural DEF TypeOK, Row
<1>1. ASSUME NEW k \in Job, OpenJob(k) \/ FinalizeJob(k) \/ AbandonJob(k)
      PROVE  FALSE
  BY <1>0, <1>1, RowWrites, RetryWrites, CodesAreEngineCodes
     DEF OpenJob, FinalizeJob, AbandonJob, PastWindow, WithinBudget, Settled, TypeOK
<1>2. ASSUME NEW w \in Worker, Claim(w) PROVE FALSE
  BY <1>0, <1>2, RowWrites, RetryWrites
     DEF Claim, Claimable, WithinBudget, Settled, TypeOK
<1>3. ASSUME NEW w \in Worker, RenewLease(w) PROVE FALSE
  BY <1>0, <1>3, RowWrites, RetryWrites
     DEF RenewLease, HoldsLease, WithinBudget, Settled, TypeOK
<1>4. ASSUME NEW w \in Worker, CompleteJob(w) PROVE FALSE
  BY <1>0, <1>4, RowWrites, RetryWrites
     DEF CompleteJob, HoldsLease, WithinBudget, Settled, TypeOK
<1>5. ASSUME NEW w \in Worker, RecordTransientFailure(w) PROVE FALSE
  BY <1>0, <1>5, RowWrites, RetryWrites
     DEF RecordTransientFailure, HoldsLease, WithinBudget, Settled, TypeOK
<1>6. ASSUME NEW w \in Worker, RecordTerminalFailure(w) PROVE FALSE
  <2>1. worker[w].outcome.code \in TerminalCode
    BY <1>0, <1>6 DEF RecordTerminalFailure, TypeOK, Attempt, Outcome, Pending
  <2>. QED
    BY <1>0, <1>6, <2>1, RowWrites, RetryWrites
       DEF RecordTerminalFailure, HoldsLease, WithinBudget, Settled, TypeOK
<1>7. ASSUME NEW n \in notes, DeleteVoiceNote(n) PROVE FALSE
  BY <1>0, <1>7 DEF DeleteVoiceNote, Unlinked, Row, WithinBudget
<1>8. CASE Tick
  BY <1>0, <1>8, RowWrites, RetryWrites DEF Tick, WithinBudget
<1>9. job' # job
  BY <1>0
<1>. QED
  BY <1>1, <1>2, <1>3, <1>4, <1>5, <1>6, <1>7, <1>8, <1>9
     DEF Next, JobStep, WorkerStep, Record, LoseLease, FinishWork, Stall,
         OutcomeRejected, AttemptAborted, ListAbandoned, SweepInterrupted, vars

(* No job is retried past max_retries, and a transient failure becomes     *)
(* final only there.                                                       *)
THEOREM RetriesAreBounded == Spec => []RetryBudget
<1>1. BudgetInv => RetryBudget
  BY DEF BudgetInv
<1>. QED
  BY <1>1, InitBudget, StepBudget, PTL DEF Spec

-----------------------------------------------------------------------------
(* Claims                                                                  *)

(* What the writes do to the claims a row accounts for: a claim of a row   *)
(* that waits adds one, and the outcomes turn it into a retry or keep it.  *)
LEMMA ClaimWrites ==
  ASSUME NEW row \in Row, WithinBudget(row)
  PROVE  /\ ClaimsOf(row) \in Nat
         /\ \A d, t : ClaimsOf(Moved(row, "processing", d, t)) = row.retries + 1
         /\ row.status \in {"queued", "retry_waiting"} =>
              ClaimsOf(row) = row.retries /\ row.retries < MaxRetries
         /\ row.status = "processing" =>
              /\ ClaimsOf(row) = row.retries + 1
              /\ \A id : ClaimsOf(SucceededRow(row, id)) = ClaimsOf(row)
              /\ \A c \in TransientCode : \A d : ClaimsOf(RetriedRow(row, c, d)) = ClaimsOf(row)
              /\ \A c \in TerminalCode : ClaimsOf(FailedRow(row, c)) = ClaimsOf(row)
         /\ row.status = "absent" =>
              \A d : ClaimsOf(Moved(row, "accepting_chunks", d, NoToken)) = ClaimsOf(row)
         /\ row.status = "accepting_chunks" =>
              /\ \A d : ClaimsOf(Moved(row, "queued", d, NoToken)) = ClaimsOf(row)
              /\ ClaimsOf(AbandonedRow(row)) = ClaimsOf(row)
         /\ ClaimsOf(CountDown(row)) = ClaimsOf(row)
         /\ \A id : ClaimsOf(Unlinked(row, id)) = ClaimsOf(row)
<1>. USE LimitsAreNatural
<1>1. row.retries \in Nat /\ row.status \in Status
  BY DEF Row
<1>2. ClaimsOf(row) \in Nat
  BY <1>1 DEF ClaimsOf
<1>3. \A d, t : ClaimsOf(Moved(row, "processing", d, t)) = row.retries + 1
  BY <1>1 DEF ClaimsOf, Moved
<1>4. row.status \in {"queued", "retry_waiting"} =>
        ClaimsOf(row) = row.retries /\ row.retries < MaxRetries
  BY <1>1 DEF ClaimsOf, WithinBudget, Settled
<1>5. row.status = "processing" =>
        /\ ClaimsOf(row) = row.retries + 1
        /\ \A id : ClaimsOf(SucceededRow(row, id)) = ClaimsOf(row)
  BY <1>1 DEF ClaimsOf, SucceededRow
<1>6. ASSUME row.status = "processing", NEW c \in TransientCode, NEW d
      PROVE  ClaimsOf(RetriedRow(row, c, d)) = ClaimsOf(row)
  <2>1. ClaimsOf(RetriedRow(row, c, d)) = row.retries + 1
    BY <1>1 DEF ClaimsOf, RetriedRow, Judged, Exhausted
  <2>. QED
    BY <1>5, <1>6, <2>1
<1>7. ASSUME row.status = "processing", NEW c \in TerminalCode
      PROVE  ClaimsOf(FailedRow(row, c)) = ClaimsOf(row)
  <2>1. c # "submission_abandoned"
    BY CodesAreEngineCodes
  <2>2. row.retries < MaxRetries
    BY <1>7 DEF WithinBudget, Settled
  <2>. QED
    BY <1>1, <1>5, <1>7, <2>1, <2>2 DEF ClaimsOf, FailedRow, Judged
<1>8. row.status = "absent" =>
        \A d : ClaimsOf(Moved(row, "accepting_chunks", d, NoToken)) = ClaimsOf(row)
  BY <1>1 DEF ClaimsOf, Moved
<1>9. row.status = "accepting_chunks" =>
        /\ \A d : ClaimsOf(Moved(row, "queued", d, NoToken)) = ClaimsOf(row)
        /\ ClaimsOf(AbandonedRow(row)) = ClaimsOf(row)
  BY <1>1 DEF ClaimsOf, Moved, AbandonedRow, Judged
<1>10. ClaimsOf(CountDown(row)) = ClaimsOf(row)
  BY <1>1 DEF ClaimsOf, CountDown, Moved
<1>11. \A id : ClaimsOf(Unlinked(row, id)) = ClaimsOf(row)
  BY <1>1 DEF ClaimsOf, Unlinked, Row
<1>. QED
  BY <1>2, <1>3, <1>4, <1>5, <1>6, <1>7, <1>8, <1>9, <1>10, <1>11

(* One claim more for one row is one claim more in all.                     *)
LEMMA OneMoreClaim ==
  ASSUME IsFiniteSet(ClaimsCharged), NEW j \in Job,
         ClaimsOf(job[j]) \in Nat, ClaimsOf(job[j]) < MaxRetries,
         ClaimsOf(job'[j]) = ClaimsOf(job[j]) + 1,
         \A k \in Job : k # j => ClaimsOf(job'[k]) = ClaimsOf(job[k])
  PROVE  /\ IsFiniteSet(ClaimsCharged')
         /\ Cardinality(ClaimsCharged') = Cardinality(ClaimsCharged) + 1
<1>. DEFINE c == <<j, ClaimsOf(job[j]) + 1>>
<1>1. c \notin ClaimsCharged
  BY DEF ClaimsCharged
<1>2. ClaimsCharged' = ClaimsCharged \cup {c}
  <2>1. ASSUME NEW k \in Job, NEW i \in 1..MaxRetries
        PROVE  i <= ClaimsOf(job'[k]) <=> i <= ClaimsOf(job[k]) \/ <<k, i>> = c
    BY LimitsAreNatural
  <2>2. c \in Job \X (1..MaxRetries)
    BY LimitsAreNatural
  <2>. QED
    BY <2>1, <2>2 DEF ClaimsCharged
<1>. HIDE DEF c
<1>. QED
  BY <1>1, <1>2, FS_AddElement

(* An attended row is held by a running attempt.                            *)
LEMMA AttendedIsHeld ==
  ASSUME Inv, NEW w \in Worker, HoldsLease(w)
  PROVE  /\ worker[w].pc # "idle" /\ worker[w].job \in Job
         /\ job[worker[w].job].note = NoToken
         /\ \A v \in Worker : v # w /\ HoldsLease(v) => worker[v].job # worker[w].job
<1>1. worker[w].job \in Job /\ job[worker[w].job].status = "processing"
  BY DEF HoldsLease
<1>2. worker[w].pc # "idle"
  BY <1>1, NoJobIsNoJob DEF Inv, AttemptShape
<1>3. job[worker[w].job].note = NoToken
  BY <1>1 DEF Inv, NotesMatchJobs
<1>4. \A v \in Worker : v # w /\ HoldsLease(v) => worker[v].job # worker[w].job
  BY DEF Inv, SingleOwner, HoldsLease, DistinctTokens, LeaseShape
<1>. QED
  BY <1>1, <1>2, <1>3, <1>4

(* What a step that claims nothing and meets no fault leaves as it is: the *)
(* claims of every row, who attends it, and the time an attended row has.  *)
Undisturbed ==
  /\ \A j \in Job : ClaimsOf(job'[j]) = ClaimsOf(job[j])
  /\ Unattended' \subseteq Unattended
  /\ \A j \in Job : Attended(j)' => job'[j].due >= 0

(* The three outcomes settle or postpone the row of the attempt that makes *)
(* them, and no other row loses its attempt.                                *)
LEMMA OutcomeUndisturbed ==
  ASSUME AccountInv, NEW w \in Worker, HoldsLease(w), Release(w), NEW row \in Row,
         row.status # "processing", ClaimsOf(row) = ClaimsOf(job[worker[w].job]),
         job' = [job EXCEPT ![worker[w].job] = row]
  PROVE  Undisturbed
<1>. DEFINE j == worker[w].job
<1>1. j \in Job /\ job \in [Job -> Row] /\ worker \in [Worker -> Attempt]
  BY DEF HoldsLease, AccountInv, Inv, TypeOK
<1>2. \A k \in Job : ClaimsOf(job'[k]) = ClaimsOf(job[k])
  BY <1>1
<1>3. \A v \in Worker, k \in Job :
        (worker[v].job = k /\ HoldsLease(v) /\ ~worker[v].stalled /\ k # j) <=>
        (worker'[v].job = k /\ HoldsLease(v)' /\ ~worker'[v].stalled)
  BY <1>1, NoJobIsNoJob DEF HoldsLease, Release, Idle
<1>4. \A k \in Job : Attended(k)' <=> Attended(k) /\ k # j
  BY <1>3 DEF Attended
<1>5. Unattended' \subseteq Unattended
  BY <1>1, <1>4 DEF Unattended
<1>6. \A k \in Job : Attended(k)' => job'[k].due >= 0
  BY <1>1, <1>4 DEF AccountInv
<1>. QED
  BY <1>2, <1>5, <1>6 DEF Undisturbed

(* Steps of the submission and the owner, renewals and the end of work: no *)
(* row in processing changes hands.                                         *)
LEMMA StepUndisturbed ==
  ASSUME AccountInv, [Next]_vars,
         ~ \E w \in Worker : Claim(w) \/ AttemptAborted(w) \/ Stall(w)
  PROVE  Undisturbed /\ lastToken' = lastToken /\ faults' >= faults
<1>0. /\ Inv /\ TypeOK /\ worker \in [Worker -> Attempt] /\ job \in [Job -> Row]
      /\ \A j \in Job : /\ job[j] \in Row /\ WithinBudget(job[j]) /\ job[j].due \in Int
                        /\ Attended(j) => job[j].due >= 0
  BY BudgetByRow DEF AccountInv, Inv, TypeOK, Row
<1>1. ASSUME worker' = worker,
             \A k \in Job : /\ ClaimsOf(job'[k]) = ClaimsOf(job[k])
                            /\ job'[k].status = "processing" =>
                                 /\ job[k].status = "processing"
                                 /\ job'[k].token = job[k].token
                                 /\ Attended(k) => job'[k].due >= 0
      PROVE  Undisturbed
  <2>1. \A w \in Worker : HoldsLease(w)' => HoldsLease(w)
    BY <1>1 DEF HoldsLease
  <2>2. \A k \in Job : Attended(k)' => Attended(k) /\ job'[k].status = "processing"
    BY <1>1, <2>1 DEF Attended, HoldsLease
  <2>3. \A k \in Job : Attended(k) /\ job'[k].status = "processing" => Attended(k)'
    BY <1>1 DEF Attended, HoldsLease
  <2>. QED
    BY <1>1, <2>2, <2>3 DEF Undisturbed, Unattended
<1>2. ASSUME NEW j \in Job, OpenJob(j) \/ FinalizeJob(j) \/ AbandonJob(j)
      PROVE  Undisturbed /\ lastToken' = lastToken /\ faults' >= faults
  <2>1. worker' = worker /\ lastToken' = lastToken /\ faults' = faults
    BY <1>2 DEF OpenJob, FinalizeJob, AbandonJob
  <2>2. ASSUME NEW k \in Job
        PROVE  /\ ClaimsOf(job'[k]) = ClaimsOf(job[k])
               /\ job'[k].status = "processing" => job'[k] = job[k]
    BY <1>0, <1>2, ClaimWrites, RowWrites DEF OpenJob, FinalizeJob, AbandonJob, PastWindow
  <2>. QED
    BY <1>0, <1>1, <2>1, <2>2 DEF TypeOK
<1>3. ASSUME NEW w \in Worker, RenewLease(w)
      PROVE  Undisturbed /\ lastToken' = lastToken /\ faults' >= faults
  <2>1. worker' = worker /\ lastToken' = lastToken /\ faults' = faults
    BY <1>3 DEF RenewLease
  <2>2. ASSUME NEW k \in Job
        PROVE  /\ ClaimsOf(job'[k]) = ClaimsOf(job[k])
               /\ job'[k].status = "processing" =>
                    /\ job[k].status = "processing" /\ job'[k].token = job[k].token
                    /\ job'[k] = job[k] \/ job'[k].due = Lease
    BY <1>0, <1>3, ClaimWrites, RowWrites DEF RenewLease, HoldsLease, Moved
  <2>. QED
    BY <1>0, <1>1, <2>1, <2>2, DurationsArePositive DEF TypeOK
<1>4. ASSUME NEW n \in notes, DeleteVoiceNote(n)
      PROVE  Undisturbed /\ lastToken' = lastToken /\ faults' >= faults
  <2>1. worker' = worker /\ lastToken' = lastToken /\ faults' = faults
    BY <1>4 DEF DeleteVoiceNote
  <2>2. ASSUME NEW k \in Job
        PROVE  /\ ClaimsOf(job'[k]) = ClaimsOf(job[k])
               /\ job'[k].status = job[k].status /\ job'[k].token = job[k].token
               /\ job'[k].due = job[k].due
    BY <1>0, <1>4, ClaimWrites DEF DeleteVoiceNote, Unlinked, Row
  <2>. QED
    BY <1>0, <1>1, <2>1, <2>2 DEF TypeOK
<1>5. CASE Tick
  <2>1. worker' = worker /\ lastToken' = lastToken /\ faults' = faults
    BY <1>5 DEF Tick
  <2>2. ASSUME NEW k \in Job
        PROVE  /\ ClaimsOf(job'[k]) = ClaimsOf(job[k])
               /\ job'[k].status = job[k].status /\ job'[k].token = job[k].token
               /\ job[k].due > 0 => job'[k].due >= 0
    BY <1>0, <1>5, ClaimWrites, RowWrites DEF Tick, CountDown, Moved
  <2>3. ASSUME NEW k \in Job, Attended(k)
        PROVE  job[k].due > 0
    BY <1>0, <1>5, <2>3, AttendedIsHeld DEF Attended, Tick
  <2>. QED
    BY <1>0, <1>1, <2>1, <2>2, <2>3 DEF TypeOK
<1>6. ASSUME NEW w \in Worker, LoseLease(w) \/ OutcomeRejected(w)
      PROVE  Undisturbed /\ lastToken' = lastToken /\ faults' >= faults
  <2>1. ~HoldsLease(w) /\ Release(w) /\ job' = job /\ lastToken' = lastToken /\ faults' = faults
    BY <1>0, <1>6, AttendedIsHeld DEF LoseLease, OutcomeRejected
  <2>2. \A v \in Worker : /\ ~HoldsLease(w)'
                          /\ v # w => worker'[v] = worker[v] /\ (HoldsLease(v)' <=> HoldsLease(v))
    BY <1>0, <2>1, NoJobIsNoJob DEF Release, Idle, HoldsLease
  <2>3. \A k \in Job : Attended(k)' <=> Attended(k)
    BY <2>1, <2>2 DEF Attended
  <2>. QED
    BY <1>0, <2>1, <2>3 DEF Undisturbed, Unattended, TypeOK
<1>7. ASSUME NEW w \in Worker, FinishWork(w)
      PROVE  Undisturbed /\ lastToken' = lastToken /\ faults' >= faults
  <2>1. /\ job' = job /\ lastToken' = lastToken /\ faults' = faults
        /\ \A v \in Worker : /\ worker'[v].job = worker[v].job
                             /\ worker'[v].token = worker[v].token
                             /\ worker'[v].stalled = worker[v].stalled
    BY <1>0, <1>7 DEF FinishWork
  <2>2. \A k \in Job : Attended(k)' <=> Attended(k)
    BY <2>1 DEF Attended, HoldsLease
  <2>. QED
    BY <1>0, <2>1, <2>2 DEF Undisturbed, Unattended, TypeOK
<1>8. ASSUME NEW w \in Worker,
             CompleteJob(w) \/ RecordTransientFailure(w) \/ RecordTerminalFailure(w)
      PROVE  Undisturbed /\ lastToken' = lastToken /\ faults' >= faults
  <2>1. HoldsLease(w) /\ Release(w) /\ lastToken' = lastToken /\ faults' = faults
        /\ faults \in Nat
    BY <1>0, <1>8 DEF TypeOK, CompleteJob, RecordTransientFailure, RecordTerminalFailure
  <2>2. PICK old \in Row : old = job[worker[w].job] /\ old.status = "processing" /\ WithinBudget(old)
    BY <1>0, <2>1 DEF HoldsLease
  <2>3. ASSUME NEW row \in Row, row.status # "processing", ClaimsOf(row) = ClaimsOf(old),
               job' = [job EXCEPT ![worker[w].job] = row]
        PROVE  Undisturbed
    BY <2>1, <2>2, <2>3, OutcomeUndisturbed
  <2>4. ASSUME CompleteJob(w) PROVE Undisturbed
    <3>1. PICK id \in Nat : job' = [job EXCEPT ![worker[w].job] = SucceededRow(old, id)]
      BY <1>0, <2>2, <2>4 DEF CompleteJob, Attempt
    <3>2. SucceededRow(old, id) \in Row
      BY <2>2, RowsAreRows
    <3>3. SucceededRow(old, id).status # "processing"
      BY DEF SucceededRow
    <3>4. ClaimsOf(SucceededRow(old, id)) = ClaimsOf(old)
      BY <2>2, ClaimWrites
    <3>. QED
      BY <2>3, <3>1, <3>2, <3>3, <3>4
  <2>5. ASSUME RecordTransientFailure(w) PROVE Undisturbed
    <3>1. worker[w].outcome.code \in TransientCode
      BY <1>0, <2>5 DEF RecordTransientFailure, Attempt, Outcome, Pending
    <3>2. PICK c \in TransientCode, d \in RetryDelay :
            job' = [job EXCEPT ![worker[w].job] = RetriedRow(old, c, d)]
      BY <2>2, <2>5, <3>1 DEF RecordTransientFailure
    <3>3. c \in FailureCode /\ d \in Int
      BY DurationsArePositive DEF FailureCode
    <3>4. RetriedRow(old, c, d) \in Row
      BY <3>3, RowsAreRows
    <3>5. RetriedRow(old, c, d).status # "processing"
      BY RowWrites
    <3>6. ClaimsOf(RetriedRow(old, c, d)) = ClaimsOf(old)
      BY <2>2, ClaimWrites
    <3>. QED
      BY <2>3, <3>2, <3>4, <3>5, <3>6
  <2>6. ASSUME RecordTerminalFailure(w) PROVE Undisturbed
    <3>0. worker[w].outcome.code \in TerminalCode
      BY <1>0, <2>6 DEF RecordTerminalFailure, Attempt, Outcome, Pending
    <3>1. PICK c \in TerminalCode : job' = [job EXCEPT ![worker[w].job] = FailedRow(old, c)]
      BY <2>2, <2>6, <3>0 DEF RecordTerminalFailure
    <3>2. FailedRow(old, c) \in Row
      BY RowsAreRows DEF FailureCode
    <3>3. FailedRow(old, c).status # "processing"
      BY RowWrites
    <3>4. ClaimsOf(FailedRow(old, c)) = ClaimsOf(old)
      BY <2>2, ClaimWrites
    <3>. QED
      BY <2>3, <3>1, <3>2, <3>3, <3>4
  <2>. QED
    BY <1>8, <2>1, <2>4, <2>5, <2>6
<1>9. CASE ListAbandoned \/ SweepInterrupted \/ UNCHANGED vars
  <2>1. worker' = worker /\ job' = job /\ lastToken' = lastToken /\ faults' >= faults
    BY <1>0, <1>9 DEF ListAbandoned, SweepInterrupted, vars, TypeOK
  <2>. QED
    BY <1>0, <1>1, <2>1
<1>. QED
  BY <1>2, <1>3, <1>4, <1>5, <1>6, <1>7, <1>8, <1>9 DEF Next, JobStep, WorkerStep, Record

(* A claim attends its row.  It is paid for by the claim it adds to a row  *)
(* that waited, or by the fault that left the row it takes over unattended.*)
LEMMA StepClaim ==
  ASSUME AccountInv, NEW w \in Worker, Claim(w)
  PROVE  /\ \A j \in Job : Attended(j)' => job'[j].due >= 0
         /\ IsFiniteSet(ClaimsCharged') /\ IsFiniteSet(Unattended')
         /\ lastToken' + Cardinality(Unattended') <= faults' + Cardinality(ClaimsCharged')
<1>0. /\ Inv /\ TypeOK /\ worker \in [Worker -> Attempt] /\ job \in [Job -> Row]
      /\ \A k \in Job : /\ job[k] \in Row /\ WithinBudget(job[k]) /\ job[k].due \in Int
                        /\ Attended(k) => job[k].due >= 0
      /\ lastToken \in Nat /\ faults \in Nat
      /\ IsFiniteSet(ClaimsCharged) /\ IsFiniteSet(Unattended)
      /\ Cardinality(ClaimsCharged) \in Nat /\ Cardinality(Unattended) \in Nat
      /\ lastToken + Cardinality(Unattended) <= faults + Cardinality(ClaimsCharged)
  BY BudgetByRow, FS_CardinalityType DEF AccountInv, Inv, TypeOK, Row
<1>1. PICK j \in Job :
        /\ Claimable(j)
        /\ job' = [job EXCEPT ![j] = Moved(@, "processing", Lease, FreshToken)]
        /\ worker' = [worker EXCEPT ![w] = [pc |-> "working", job |-> j, token |-> FreshToken,
                                            outcome |-> Pending, stalled |-> FALSE]]
  BY DEF Claim
<1>2. lastToken' = lastToken + 1 /\ faults' = faults /\ worker[w].job = NoJob
  BY <1>0 DEF Claim, Inv, AttemptShape
<1>3. /\ job'[j].status = "processing" /\ job'[j].due = Lease /\ job'[j].token = FreshToken
      /\ \A k \in Job : k # j => job'[k] = job[k]
  BY <1>0, <1>1 DEF Moved
<1>4. Attended(j)'
  <2>1. worker'[w].job = j /\ HoldsLease(w)' /\ ~worker'[w].stalled
    BY <1>0, <1>1, <1>3 DEF HoldsLease
  <2>. QED
    BY <2>1 DEF Attended
<1>5. \A k \in Job : k # j => (Attended(k)' <=> Attended(k))
  <2>1. \A v \in Worker : v # w => worker'[v] = worker[v]
    BY <1>0, <1>1
  <2>2. worker'[w].job = j
    BY <1>0, <1>1
  <2>. QED
    BY <1>2, <1>3, <2>1, <2>2, NoJobIsNoJob DEF Attended, HoldsLease
<1>6. Unattended' = Unattended \ {j}
  BY <1>3, <1>4, <1>5 DEF Unattended
<1>7. \A k \in Job : Attended(k)' => job'[k].due >= 0
  BY <1>0, <1>3, <1>5, DurationsArePositive
<1>8. \A k \in Job : k # j => ClaimsOf(job'[k]) = ClaimsOf(job[k])
  BY <1>3
<1>9. ClaimsOf(job'[j]) = job[j].retries + 1 /\ ClaimsOf(job[j]) \in Nat
  BY <1>0, <1>1, ClaimWrites
<1>10. CASE job[j].status = "processing"
  <2>1. j \in Unattended
    BY <1>0, <1>1, <1>10 DEF Claimable, Unattended
  <2>2. ClaimsCharged' = ClaimsCharged
    BY <1>0, <1>8, <1>9, <1>10, ClaimWrites DEF ClaimsCharged
  <2>3. IsFiniteSet(Unattended') /\ Cardinality(Unattended') = Cardinality(Unattended) - 1
    BY <1>0, <1>6, <2>1, FS_RemoveElement
  <2>. QED
    BY <1>0, <1>2, <1>7, <2>2, <2>3
<1>11. CASE job[j].status \in {"queued", "retry_waiting"}
  <2>1. Unattended' = Unattended
    BY <1>6, <1>11 DEF Unattended
  <2>2. ClaimsOf(job[j]) < MaxRetries /\ ClaimsOf(job'[j]) = ClaimsOf(job[j]) + 1
    BY <1>0, <1>9, <1>11, ClaimWrites
  <2>3. /\ IsFiniteSet(ClaimsCharged')
        /\ Cardinality(ClaimsCharged') = Cardinality(ClaimsCharged) + 1
    BY <1>0, <1>8, <1>9, <2>2, OneMoreClaim
  <2>. QED
    BY <1>0, <1>2, <1>7, <2>1, <2>3
<1>. QED
  BY <1>1, <1>10, <1>11 DEF Claimable

(* A crash, an error or a stall leaves one row unattended at most.          *)
LEMMA StepFault ==
  ASSUME AccountInv, NEW w \in Worker, AttemptAborted(w) \/ Stall(w)
  PROVE  /\ \A j \in Job : Attended(j)' => job'[j].due >= 0
         /\ IsFiniteSet(ClaimsCharged') /\ IsFiniteSet(Unattended')
         /\ lastToken' + Cardinality(Unattended') <= faults' + Cardinality(ClaimsCharged')
<1>0. /\ Inv /\ TypeOK /\ worker \in [Worker -> Attempt] /\ job \in [Job -> Row]
      /\ \A k \in Job : Attended(k) => job[k].due >= 0
      /\ lastToken \in Nat /\ faults \in Nat
      /\ IsFiniteSet(ClaimsCharged) /\ IsFiniteSet(Unattended)
      /\ Cardinality(ClaimsCharged) \in Nat /\ Cardinality(Unattended) \in Nat
      /\ lastToken + Cardinality(Unattended) <= faults + Cardinality(ClaimsCharged)
  BY FS_CardinalityType DEF AccountInv, Inv, TypeOK
<1>1. job' = job /\ lastToken' = lastToken /\ faults' = faults + 1
  BY DEF AttemptAborted, Stall
<1>2. \A v \in Worker : v # w => worker'[v] = worker[v]
  BY <1>0 DEF AttemptAborted, Stall, Release
<1>3. ~worker'[w].stalled => worker'[w].job = NoJob
  BY <1>0 DEF AttemptAborted, Stall, Release, Idle, Attempt
<1>4. \A k \in Job : /\ Attended(k)' => Attended(k)
                     /\ Attended(k) /\ k # worker[w].job => Attended(k)'
  BY <1>1, <1>2, <1>3, NoJobIsNoJob DEF Attended, HoldsLease
<1>5. Unattended' \subseteq Unattended \cup {worker[w].job}
  BY <1>1, <1>4 DEF Unattended
<1>6. /\ IsFiniteSet(Unattended \cup {worker[w].job})
      /\ Cardinality(Unattended \cup {worker[w].job}) <= Cardinality(Unattended) + 1
  <2>. DEFINE taken == worker[w].job
  <2>1. \/ Cardinality(Unattended \cup {taken}) = Cardinality(Unattended)
        \/ Cardinality(Unattended \cup {taken}) = Cardinality(Unattended) + 1
    BY <1>0, FS_AddElement, Zenon
  <2>2. Cardinality(Unattended) \in Nat /\ IsFiniteSet(Unattended \cup {taken})
    BY <1>0, FS_AddElement
  <2>. HIDE DEF taken
  <2>3. Cardinality(Unattended \cup {taken}) <= Cardinality(Unattended) + 1
    BY <2>1, <2>2
  <2>. QED
    BY <2>2, <2>3 DEF taken
<1>7. /\ IsFiniteSet(Unattended') /\ Cardinality(Unattended') \in Nat
      /\ Cardinality(Unattended') <= Cardinality(Unattended) + 1
  <2>1. /\ IsFiniteSet(Unattended')
        /\ Cardinality(Unattended') <= Cardinality(Unattended \cup {worker[w].job})
    BY <1>5, <1>6, FS_Subset
  <2>2. /\ Cardinality(Unattended') \in Nat
        /\ Cardinality(Unattended \cup {worker[w].job}) \in Nat
    BY <1>6, <2>1, FS_CardinalityType
  <2>. QED
    BY <1>0, <1>6, <2>1, <2>2
<1>8. ClaimsCharged' = ClaimsCharged
  BY <1>1 DEF ClaimsCharged
<1>. QED
  BY <1>0, <1>1, <1>4, <1>7, <1>8

(* The accounts of a table without rows are empty.                          *)
LEMMA InitAccount == Init => AccountInv
<1>. SUFFICES ASSUME Init PROVE AccountInv
  OBVIOUS
<1>1. ClaimsCharged = {}
  BY LimitsAreNatural DEF Init, ClaimsCharged, ClaimsOf, AbsentRow
<1>2. Unattended = {} /\ \A j \in Job : ~Attended(j)
  BY NoJobIsNoJob DEF Init, Unattended, Attended, HoldsLease, AbsentRow, Idle
<1>3. lastToken = 0 /\ faults = 0
  BY DEF Init, NoToken
<1>. QED
  BY <1>1, <1>2, <1>3, InitInv, InitBudget, FS_EmptySet DEF AccountInv

(* No step makes a claim that nothing accounts for.                         *)
LEMMA StepAccount == AccountInv /\ [Next]_vars => AccountInv'
<1>. SUFFICES ASSUME AccountInv, [Next]_vars PROVE AccountInv'
  OBVIOUS
<1>1. Inv' /\ BudgetInv'
  BY StepInv, StepBudget DEF AccountInv
<1>2. CASE \E w \in Worker : Claim(w) \/ AttemptAborted(w) \/ Stall(w)
  BY <1>1, <1>2, StepClaim, StepFault DEF AccountInv
<1>3. CASE ~ \E w \in Worker : Claim(w) \/ AttemptAborted(w) \/ Stall(w)
  <2>1. Undisturbed /\ lastToken' = lastToken /\ faults' >= faults
    BY <1>3, StepUndisturbed
  <2>2. ClaimsCharged' = ClaimsCharged
    BY <2>1 DEF Undisturbed, ClaimsCharged
  <2>3. /\ IsFiniteSet(Unattended') /\ Cardinality(Unattended') <= Cardinality(Unattended)
        /\ Cardinality(Unattended') \in Nat /\ Cardinality(Unattended) \in Nat
    BY <2>1, FS_Subset, FS_CardinalityType DEF AccountInv, Undisturbed
  <2>4. /\ lastToken \in Nat /\ faults \in Nat /\ faults' \in Nat
        /\ Cardinality(ClaimsCharged) \in Nat
    BY <1>1, FS_CardinalityType DEF AccountInv, Inv, TypeOK
  <2>5. lastToken' + Cardinality(Unattended') <= faults' + Cardinality(ClaimsCharged')
    BY <2>1, <2>2, <2>3, <2>4 DEF AccountInv
  <2>. QED
    BY <1>1, <2>1, <2>2, <2>3, <2>5 DEF AccountInv, Undisturbed
<1>. QED
  BY <1>2, <1>3

(* However many workers share the table, every claim beyond the retries    *)
(* and outcomes its rows show has a fault that paid for it: no live lease  *)
(* is taken over, and no engine call is repeated for nothing.               *)
THEOREM ClaimsArePaidFor == Spec => []ClaimsAreAccountedFor
<1>1. AccountInv => ClaimsAreAccountedFor
  <2>. SUFFICES ASSUME AccountInv PROVE ClaimsAreAccountedFor
    OBVIOUS
  <2>1. /\ lastToken \in Nat /\ faults \in Nat
        /\ Cardinality(ClaimsCharged) \in Nat /\ Cardinality(Unattended) \in Nat
    BY FS_CardinalityType DEF AccountInv, Inv, TypeOK
  <2>. QED
    BY <2>1 DEF AccountInv, ClaimsAreAccountedFor
<1>. QED
  BY <1>1, InitAccount, StepAccount, PTL DEF Spec

-----------------------------------------------------------------------------
(* Refinement                                                              *)

(* The step changes the status of job j, and of no other job, to to.       *)
Turns(j, to) ==
  \A k \in Job : job'[k].status = IF k = j THEN to ELSE job[k].status

(* Before any job is opened no job has a phase or a note.                  *)
LEMMA InitLifecycle == Init => Lifecycle!Init
  BY DEF Init, Lifecycle!Init, AbsentRow

(* A status that turns is a transition of JobLifecycle's phase.            *)
LEMMA TurnsBecome ==
  ASSUME NEW j \in Job, NEW from, NEW to, job[j].status \in from, Turns(j, to)
  PROVE  Lifecycle!Become(j, from, to)
<1>1. [k \in Job |-> job[k].status]' = [[k \in Job |-> job[k].status] EXCEPT ![j] = to]
  BY DEF Turns
<1>. QED
  BY <1>1 DEF Lifecycle!Become

(* A step that turns no status and touches no note is invisible.           *)
LEMMA TurnsNothing ==
  ASSUME notes' = notes, \A j \in Job : job'[j].status = job[j].status
  PROVE  UNCHANGED Lifecycle!vars
<1>1. [k \in Job |-> job[k].status]' = [k \in Job |-> job[k].status]
  OBVIOUS
<1>2. {n.job : n \in notes}' = {n.job : n \in notes}
  OBVIOUS
<1>. QED
  BY <1>1, <1>2 DEF Lifecycle!vars

(* Every step moves at most one row to another status, and does so along a *)
(* transition of JobLifecycle; the rest are stutters.                      *)
LEMMA StepLifecycle == Inv /\ [Next]_vars => [Lifecycle!Next]_(Lifecycle!vars)
<1> SUFFICES ASSUME Inv, [Next]_vars
             PROVE  Lifecycle!Next \/ UNCHANGED Lifecycle!vars
  OBVIOUS
<1> USE DEF Inv
<1>0. \A j \in Job : job[j] \in Row
  BY DEF TypeOK
<1>1. ASSUME notes' = notes
      PROVE  UNCHANGED {n.job : n \in notes}
  BY <1>1
<1>2. ASSUME NEW w \in Worker, HoldsLease(w)
      PROVE  worker[w].job \in Job /\ job[worker[w].job].status = "processing"
  BY <1>2 DEF HoldsLease
<1>3. ASSUME NEW j \in Job, OpenJob(j) PROVE Lifecycle!Open(j)
  <2>1. Turns(j, "accepting_chunks")
    BY <1>0, <1>3, RowWrites DEF OpenJob, Turns, TypeOK
  <2>. QED
    BY <1>1, <1>3, <2>1, TurnsBecome DEF OpenJob, Lifecycle!Open
<1>4. ASSUME NEW j \in Job, FinalizeJob(j) PROVE Lifecycle!Accept(j)
  <2>1. Turns(j, "queued")
    BY <1>0, <1>4, RowWrites DEF FinalizeJob, Turns, TypeOK
  <2>. QED
    BY <1>1, <1>4, <2>1, TurnsBecome DEF FinalizeJob, Lifecycle!Accept
<1>5. ASSUME NEW j \in Job, AbandonJob(j)
      PROVE  Lifecycle!Abandon(j) \/ UNCHANGED Lifecycle!vars
  <2>1. CASE PastWindow(j)
    <3>1. Turns(j, "failed")
      BY <1>0, <1>5, <2>1, RowWrites DEF AbandonJob, Turns, TypeOK
    <3>. QED
      BY <1>1, <1>5, <2>1, <3>1, TurnsBecome
         DEF AbandonJob, PastWindow, Lifecycle!Abandon
  <2>2. CASE ~PastWindow(j)
    BY <1>5, <2>2, TurnsNothing DEF AbandonJob
  <2>. QED
    BY <2>1, <2>2
<1>6. ASSUME NEW w \in Worker, Claim(w)
      PROVE  Lifecycle!Next \/ UNCHANGED Lifecycle!vars
  <2>1. PICK j \in Job :
          /\ Claimable(j)
          /\ job' = [job EXCEPT ![j] = Moved(@, "processing", Lease, FreshToken)]
    BY <1>6 DEF Claim
  <2>2. Turns(j, "processing") /\ notes' = notes
    BY <1>0, <1>6, <2>1, RowWrites DEF Claim, Turns, TypeOK
  <2>3. CASE job[j].status = "processing"
    BY <2>2, <2>3, TurnsNothing DEF Turns
  <2>4. CASE job[j].status \in {"queued", "retry_waiting"}
    <3>1. Lifecycle!Start(j)
      BY <1>1, <2>2, <2>4, TurnsBecome DEF Lifecycle!Start
    <3>. QED
      BY <3>1 DEF Lifecycle!Next
  <2>. QED
    BY <2>1, <2>3, <2>4 DEF Claimable
<1>7. ASSUME NEW w \in Worker, RenewLease(w) PROVE UNCHANGED Lifecycle!vars
  BY <1>0, <1>7, RowWrites, TurnsNothing DEF RenewLease, HoldsLease, TypeOK
<1>8. ASSUME NEW w \in Worker, NEW j \in Job, j = worker[w].job, CompleteJob(w)
      PROVE  Lifecycle!Succeed(j)
  <2> DEFINE n0 == [job |-> j, id |-> worker[w].token]
  <2>1. job[j].status = "processing"
    BY <1>2, <1>8 DEF CompleteJob
  <2>2. Turns(j, "succeeded")
    BY <1>0, <1>8, <2>1, RowWrites DEF CompleteJob, Turns, TypeOK
  <2>3. {n.job : n \in notes}' = {n.job : n \in notes} \cup {j}
    <3>1. notes' = notes \cup {n0} /\ n0.job = j
      BY <1>8 DEF CompleteJob
    <3>. HIDE DEF n0
    <3>. QED
      BY <3>1
  <2>4. j \notin {n.job : n \in notes}
    BY <2>1 DEF NotesMatchJobs
  <2>5. Lifecycle!Become(j, {"processing"}, "succeeded")
    BY <2>1, <2>2, TurnsBecome
  <2>. QED
    BY <2>3, <2>4, <2>5 DEF Lifecycle!Succeed
<1>9. ASSUME NEW w \in Worker, NEW j \in Job, j = worker[w].job, RecordTransientFailure(w)
      PROVE  Lifecycle!Postpone(j) \/ Lifecycle!Fail(j)
  <2>1. job[j].status = "processing" /\ notes' = notes
    BY <1>2, <1>9 DEF RecordTransientFailure
  <2>2. Turns(j, "failed") \/ Turns(j, "retry_waiting")
    BY <1>0, <1>9, <2>1, RowWrites DEF RecordTransientFailure, Turns, TypeOK
  <2>. QED
    BY <1>1, <2>1, <2>2, TurnsBecome DEF Lifecycle!Postpone, Lifecycle!Fail
<1>10. ASSUME NEW w \in Worker, NEW j \in Job, j = worker[w].job, RecordTerminalFailure(w)
       PROVE  Lifecycle!Fail(j)
  <2>1. job[j].status = "processing" /\ notes' = notes
    BY <1>2, <1>10 DEF RecordTerminalFailure
  <2>2. Turns(j, "failed")
    BY <1>0, <1>10, <2>1, RowWrites DEF RecordTerminalFailure, Turns, TypeOK
  <2>. QED
    BY <1>1, <2>1, <2>2, TurnsBecome DEF Lifecycle!Fail
<1>11. ASSUME NEW n \in notes, DeleteVoiceNote(n) PROVE Lifecycle!Discard(n.job)
  <2>1. n.job \in Job /\ job[n.job].status = "succeeded"
        /\ \A m \in notes : m.job = n.job => m = n
    BY DEF TypeOK, NotesMatchJobs, DistinctNotes
  <2>2. {m.job : m \in notes}' = {m.job : m \in notes} \ {n.job}
    BY <1>11, <2>1 DEF DeleteVoiceNote
  <2>3. [k \in Job |-> job[k].status]' = [k \in Job |-> job[k].status]
    BY <1>0, <1>11 DEF DeleteVoiceNote, Unlinked, Row
  <2>. QED
    BY <2>1, <2>2, <2>3 DEF Lifecycle!Discard
<1>12. CASE Tick
  BY <1>0, <1>12, RowWrites, TurnsNothing DEF Tick
<1>13. CASE UNCHANGED <<job, notes>>
  BY <1>13, TurnsNothing
<1>14. \A n \in notes : n.job \in Job
  BY DEF TypeOK
<1>. QED
  <2>1. CASE \E j \in Job : JobStep(j)
    BY <1>3, <1>4, <1>5, <2>1 DEF JobStep, Lifecycle!Next
  <2>2. CASE \E w \in Worker : WorkerStep(w)
    <3>1. PICK w \in Worker : WorkerStep(w)
      BY <2>2
    <3>2. CASE CompleteJob(w) \/ RecordTransientFailure(w) \/ RecordTerminalFailure(w)
      <4>1. PICK j \in Job : j = worker[w].job
        BY <1>2, <3>2
           DEF CompleteJob, RecordTransientFailure, RecordTerminalFailure
      <4>2. Lifecycle!Succeed(j) \/ Lifecycle!Postpone(j) \/ Lifecycle!Fail(j)
        BY <1>8, <1>9, <1>10, <3>2, <4>1
      <4>. QED
        BY <4>2 DEF Lifecycle!Next
    <3>3. CASE \/ LoseLease(w) \/ FinishWork(w) \/ OutcomeRejected(w)
              \/ AttemptAborted(w) \/ Stall(w)
      BY <1>13, <3>3
         DEF LoseLease, FinishWork, OutcomeRejected, AttemptAborted, Stall
    <3>. QED
      BY <1>6, <1>7, <3>1, <3>2, <3>3 DEF WorkerStep, Record
  <2>3. CASE \E n \in notes : DeleteVoiceNote(n)
    BY <1>11, <1>14, <2>3 DEF Lifecycle!Next
  <2>. QED
    BY <1>12, <1>13, <2>1, <2>2, <2>3
       DEF Next, ListAbandoned, SweepInterrupted, vars

(* The table, the workers and the sweeper do what JobLifecycle promises.   *)
THEOREM LifecycleImplemented == Spec => ImplementsLifecycle
<1>. QED
  BY Invariance, InitLifecycle, StepLifecycle, PTL
     DEF Spec, ImplementsLifecycle, Lifecycle!Spec
=================================================================================
