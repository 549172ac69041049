---------------------- MODULE EmbeddingRegeneration_proofs ----------------------
(***************************************************************************)
(* Proofs about EmbeddingRegeneration, for every set of notes and loops    *)
(* and every value of the durations and limits.                            *)
(***************************************************************************)
EXTENDS EmbeddingRegeneration, TLAPS

(* What the storage calls write is a row, and which columns they keep.     *)
LEMMA RowsAreRows ==
  ASSUME NEW row \in Row
  PROVE  /\ \A s \in {"queued", "processing", "retry_waiting", "failed"},
               r \in Nat, d \in Nat, t \in Nat :
              /\ Moved(row, s, r, d, t) \in Row
              /\ Moved(row, s, r, d, t).status = s
              /\ Moved(row, s, r, d, t).token = t
         /\ \A s, r, d, t : Moved(row, s, r, d, t).version = row.version
  BY DEF Moved, Row

(* A row recorded as a transient failure waits or has failed, leaseless.   *)
LEMMA RetriedRows ==
  ASSUME NEW row \in Row, NEW delay \in Nat
  PROVE  /\ RetriedRow(row, delay) \in Row
         /\ RetriedRow(row, delay).status \in {"retry_waiting", "failed"}
         /\ RetriedRow(row, delay).version = row.version
         /\ RetriedRow(row, delay).token = NoToken
<1>1. row.retries + 1 \in Nat /\ NoToken \in Nat /\ 0 \in Nat
  BY DEF Row, NoToken
<1>. QED
  BY <1>1 DEF RetriedRow, Moved, Row

(* Time passes for a row without changing what it stands for.              *)
Older(row) == Moved(row, row.status, row.retries,
                    IF row.due = 0 THEN 0 ELSE row.due - 1, row.token)

(* Tick replaces every row by an older one.                                *)
LEMMA OlderRows ==
  ASSUME NEW row \in Row
  PROVE  /\ Older(row) \in Row
         /\ Older(row).status = row.status
         /\ Older(row).version = row.version
         /\ Older(row).token = row.token
  BY DEF Older, Moved, Row

(* A row fresh from an edit is queued for the version the edit made.       *)
LEMMA RequeuedRows ==
  ASSUME NEW row \in Row, NEW v \in Nat, NEW new \in Requeued(row, v)
  PROVE  new \in Row /\ new.status = "queued" /\ new.version = v
         /\ new.token = NoToken
<1>1. PICK s \in Nat : new = QueuedRow(v, s)
  BY LimitsArePositive DEF Requeued, Row
<1>. QED
  BY <1>1 DEF QueuedRow, Row, NoToken

(* The invariant holds after the migration.                                *)
LEMMA InitInv == Init => Inv
<1> SUFFICES ASSUME Init PROVE Inv
  OBVIOUS
<1>1. PICK old \in SUBSET Note, created \in [Note -> Stamp] :
        /\ note = [n \in Note |->
                     IF n \in old
                       THEN [life |-> "live", current |-> 1, embedded |-> 0]
                       ELSE NoVoiceNote]
        /\ regen = [n \in Note |->
                      IF n \in old THEN QueuedRow(1, created[n]) ELSE NoRow]
  BY DEF Init
<1>2. \A n \in Note : created[n] \in Nat
  BY LimitsArePositive
<1>3. TypeOK
  BY <1>1, <1>2 DEF Init, TypeOK, VoiceNote, NoVoiceNote, Row, NoRow, QueuedRow,
                    Attempt, Idle, NoToken
<1>4. BehindIsScheduled /\ VectorsAreOfVersions
  BY <1>1 DEF BehindIsScheduled, VectorsAreOfVersions, Behind, NoVoiceNote,
              NoRow, QueuedRow
<1>5. TokensAreIssued /\ HoldersEmbedTheRow
  BY <1>1, NoNoteIsNoNote
     DEF Init, TokensAreIssued, HoldersEmbedTheRow, HoldsLease, NoRow, QueuedRow,
         Idle, NoToken
<1>. QED
  BY <1>3, <1>4, <1>5 DEF Inv

(* Every step keeps the types.                                             *)
LEMMA StepTypeOK == TypeOK /\ [Next]_vars => TypeOK'
<1> SUFFICES ASSUME TypeOK, [Next]_vars PROVE TypeOK'
  OBVIOUS
<1> USE DEF TypeOK
<1>0. /\ Idle \in Attempt /\ NoRow \in Row /\ Deleted \in VoiceNote
      /\ \A n \in Note : regen[n].retries \in Nat /\ note[n].current \in Nat
                         /\ note[n].embedded \in Nat
      /\ \A w \in Worker : worker[w].token \in Nat /\ worker[w].version \in Nat
  BY DEF Idle, Attempt, NoToken, NoRow, Row, Deleted, VoiceNote
<1>1. ASSUME NEW n \in Note, ArriveNote(n) PROVE TypeOK'
  BY <1>1 DEF ArriveNote, VoiceNote
<1>2. ASSUME NEW n \in Note, EditText(n) PROVE TypeOK'
  <2>1. PICK row \in Requeued(regen[n], note[n].current + 1) :
          regen' = [regen EXCEPT ![n] = row]
    BY <1>2 DEF EditText
  <2>2. row \in Row
    BY <1>0, RequeuedRows
  <2>3. [life |-> "live", current |-> note[n].current + 1,
         embedded |-> note[n].embedded] \in VoiceNote
    BY <1>0 DEF VoiceNote
  <2>. QED
    BY <1>2, <2>1, <2>2, <2>3 DEF EditText
<1>3. ASSUME NEW n \in Note, DeleteNote(n) PROVE TypeOK'
  BY <1>0, <1>3 DEF DeleteNote
<1>4. ASSUME NEW w \in Worker, Claim(w) PROVE TypeOK'
  <2>1. PICK n \in Note :
          /\ regen' = [regen EXCEPT ![n] =
                         Moved(@, "processing", @.retries, Lease, lastToken + 1)]
          /\ worker' = [worker EXCEPT ![w] =
                          [pc |-> "embedding", note |-> n,
                           version |-> regen[n].version, token |-> lastToken + 1,
                           outcome |-> "pending", stalled |-> FALSE]]
    BY <1>4 DEF Claim
  <2>2. regen[n] \in Row /\ regen[n].retries \in Nat /\ Lease \in Nat
        /\ lastToken + 1 \in Nat
    BY <1>0, LimitsArePositive
  <2>3. Moved(regen[n], "processing", regen[n].retries, Lease, lastToken + 1) \in Row
    BY <2>2 DEF Moved, Row
  <2>4. regen[n].version \in Nat
    BY <2>2 DEF Row
  <2>5. worker' \in [Worker -> Attempt]
    BY <2>1, <2>4 DEF Attempt
  <2>. QED
    BY <1>4, <2>1, <2>3, <2>5 DEF Claim
<1>5. ASSUME NEW w \in Worker, FinishEmbedding(w) PROVE TypeOK'
  BY <1>5 DEF FinishEmbedding, Attempt
<1>6. ASSUME NEW w \in Worker, CompleteIfCurrent(w) PROVE TypeOK'
  <2>1. [life |-> "live", current |-> note[worker[w].note].current,
         embedded |-> worker[w].version] \in VoiceNote
    BY <1>0, <1>6 DEF CompleteIfCurrent, HoldsLease, VoiceNote
  <2>. QED
    BY <1>0, <1>6, <2>1 DEF CompleteIfCurrent, Release
<1>7. ASSUME NEW w \in Worker, RecordTransientFailure(w) PROVE TypeOK'
  <2>1. PICK delay \in Nat :
          regen' = [regen EXCEPT ![worker[w].note] = RetriedRow(@, delay)]
    BY <1>7, LimitsArePositive DEF RecordTransientFailure
  <2>2. RetriedRow(regen[worker[w].note], delay) \in Row
    BY <1>7, RetriedRows DEF RecordTransientFailure, HoldsLease
  <2>. QED
    BY <1>0, <1>7, <2>1, <2>2 DEF RecordTransientFailure, Release
<1>8. ASSUME NEW w \in Worker, FailRegeneration(w) PROVE TypeOK'
  <2>1. worker[w].note \in Note /\ NoToken \in Nat
    BY <1>8 DEF FailRegeneration, HoldsLease, NoToken
  <2>2. Moved(regen[worker[w].note], "failed", regen[worker[w].note].retries,
              0, NoToken) \in Row
    BY <1>0, <2>1, RowsAreRows
  <2>. QED
    BY <1>0, <1>8, <2>2 DEF FailRegeneration, Release
<1>9. ASSUME NEW w \in Worker, OutcomeRejected(w) \/ AttemptAborted(w) PROVE TypeOK'
  BY <1>0, <1>9 DEF OutcomeRejected, AttemptAborted, Release
<1>10. ASSUME NEW w \in Worker, Stall(w) PROVE TypeOK'
  <2>1. [worker[w] EXCEPT !.stalled = TRUE] \in Attempt
    BY DEF Attempt
  <2>. QED
    BY <1>10, <2>1 DEF Stall
<1>11. CASE Tick
  BY <1>11, OlderRows DEF Tick, Older
<1>12. CASE UNCHANGED vars
  BY <1>12 DEF vars
<1>. QED
  BY <1>1, <1>2, <1>3, <1>4, <1>5, <1>6, <1>7, <1>8, <1>9, <1>10, <1>11, <1>12
     DEF Next, NoteStep, WorkerStep, Record

-----------------------------------------------------------------------------
(* The inductive invariant                                                 *)

(* An edit re-queues the row in its own transaction, and a row goes only   *)
(* when the vector has caught up or the note has gone.                     *)
LEMMA StepScheduled ==
  Inv /\ [Next]_vars => BehindIsScheduled' /\ VectorsAreOfVersions'
<1> DEFINE Good == BehindIsScheduled' /\ VectorsAreOfVersions'
<1> SUFFICES ASSUME Inv, [Next]_vars PROVE Good
  OBVIOUS
<1> USE DEF Inv
<1>0. /\ \A n \in Note : regen[n] \in Row /\ note[n] \in VoiceNote
      /\ \A n \in Note : /\ note[n].current \in Nat /\ note[n].embedded \in Nat
                         /\ regen[n].retries \in Nat
      /\ TypeOK /\ BehindIsScheduled /\ VectorsAreOfVersions
  BY DEF TypeOK, VoiceNote, Row
<1>1. ASSUME note' = note,
             \A n \in Note :
               /\ regen'[n].version = regen[n].version
               /\ regen[n].status = "none" => regen'[n].status = "none"
               /\ regen'[n].status = "none" => regen[n].status = "none"
      PROVE  Good
  <2>1. \A n \in Note : Behind(n)' => Behind(n)
    BY <1>1 DEF Behind
  <2>. QED
    BY <1>0, <1>1, <2>1 DEF BehindIsScheduled, VectorsAreOfVersions
<1>2. ASSUME NEW n \in Note, ArriveNote(n) PROVE Good
  <2>1. regen[n].status = "none"
    BY <1>0, <1>2 DEF ArriveNote, BehindIsScheduled
  <2>. QED
    BY <1>0, <1>2, <2>1
       DEF ArriveNote, BehindIsScheduled, VectorsAreOfVersions, Behind, TypeOK
<1>3. ASSUME NEW n \in Note, EditText(n) PROVE Good
  <2>1. PICK row \in Requeued(regen[n], note[n].current + 1) :
          regen' = [regen EXCEPT ![n] = row]
    BY <1>3 DEF EditText
  <2>2. row.status = "queued" /\ row.version = note[n].current + 1
    BY <1>0, RequeuedRows
  <2>. QED
    BY <1>0, <1>3, <2>1, <2>2
       DEF EditText, BehindIsScheduled, VectorsAreOfVersions, Behind, TypeOK
<1>4. ASSUME NEW n \in Note, DeleteNote(n) PROVE Good
  BY <1>0, <1>4
     DEF DeleteNote, Deleted, NoRow, BehindIsScheduled, VectorsAreOfVersions,
         Behind, TypeOK
<1>5. ASSUME NEW w \in Worker, Claim(w) PROVE Good
  <2>1. PICK n \in Note :
          /\ Claimable(n)
          /\ regen' = [regen EXCEPT ![n] =
                         Moved(@, "processing", @.retries, Lease, lastToken + 1)]
    BY <1>5 DEF Claim
  <2>. QED
    BY <1>0, <1>1, <1>5, <2>1 DEF Claim, Claimable, Moved, TypeOK
<1>6. ASSUME NEW w \in Worker, CompleteIfCurrent(w) PROVE Good
  <2>1. /\ worker[w].note \in Note
        /\ regen[worker[w].note].status = "processing"
        /\ worker[w].version = regen[worker[w].note].version
    BY <1>6 DEF CompleteIfCurrent, HoldsLease, RowMatches
  <2>2. note[worker[w].note].life = "live"
        /\ worker[w].version = note[worker[w].note].current
    BY <1>0, <2>1 DEF BehindIsScheduled
  <2>. QED
    BY <1>0, <1>6, <2>1, <2>2
       DEF CompleteIfCurrent, NoRow, BehindIsScheduled, VectorsAreOfVersions,
           Behind, TypeOK
<1>7. ASSUME NEW w \in Worker, RecordTransientFailure(w) PROVE Good
  <2>1. PICK delay \in Nat :
          regen' = [regen EXCEPT ![worker[w].note] = RetriedRow(@, delay)]
    BY <1>7, LimitsArePositive DEF RecordTransientFailure
  <2>2. /\ worker[w].note \in Note /\ note' = note
        /\ regen[worker[w].note].status = "processing"
    BY <1>7 DEF RecordTransientFailure, HoldsLease
  <2>3. /\ regen'[worker[w].note].status \in {"retry_waiting", "failed"}
        /\ regen'[worker[w].note].version = regen[worker[w].note].version
        /\ \A n \in Note : n # worker[w].note => regen'[n] = regen[n]
    BY <1>0, <2>1, <2>2, RetriedRows DEF TypeOK
  <2>. QED
    BY <1>1, <2>2, <2>3
<1>8. ASSUME NEW w \in Worker, FailRegeneration(w) PROVE Good
  BY <1>0, <1>1, <1>8 DEF FailRegeneration, HoldsLease, Moved, TypeOK
<1>9. CASE Tick
  BY <1>0, <1>1, <1>9, OlderRows DEF Tick, Older
<1>10. CASE UNCHANGED <<note, regen>>
  BY <1>1, <1>10
<1>. QED
  BY <1>2, <1>3, <1>4, <1>5, <1>6, <1>7, <1>8, <1>9, <1>10
     DEF Next, NoteStep, WorkerStep, Record, FinishEmbedding, OutcomeRejected,
         AttemptAborted, Stall, vars

(* Only a claim issues a token, and it tells its attempt the row's version;*)
(* an edit that changes the version takes the token away.                  *)
LEMMA StepTokens ==
  Inv /\ [Next]_vars => TokensAreIssued' /\ HoldersEmbedTheRow'
<1> DEFINE Good == TokensAreIssued' /\ HoldersEmbedTheRow'
<1> SUFFICES ASSUME Inv, [Next]_vars PROVE Good
  OBVIOUS
<1> USE DEF Inv
<1>0. /\ \A n \in Note : regen[n] \in Row /\ regen[n].token \in Nat
                         /\ regen[n].retries \in Nat /\ note[n].current \in Nat
      /\ \A w \in Worker : worker[w].token \in Nat /\ worker[w] \in Attempt
      /\ lastToken \in Nat /\ TypeOK /\ TokensAreIssued /\ HoldersEmbedTheRow
  BY DEF TypeOK, Row, Attempt, VoiceNote
(* Rows that keep their token and version, or leave processing, and        *)
(* attempts that go on as they were or end.                                *)
<1>1. ASSUME lastToken' = lastToken,
             \A n \in Note :
               \/ regen'[n].status # "processing" /\ regen'[n].token = NoToken
               \/ /\ regen'[n].status = regen[n].status
                  /\ regen'[n].token = regen[n].token
                  /\ regen'[n].version = regen[n].version,
             \A w \in Worker :
               \/ worker'[w] = Idle
               \/ /\ worker'[w].note = worker[w].note
                  /\ worker'[w].token = worker[w].token
                  /\ worker'[w].version = worker[w].version
      PROVE  Good
  <2>1. TokensAreIssued'
    BY <1>0, <1>1 DEF TokensAreIssued, Idle, NoToken
  <2>2. HoldersEmbedTheRow'
    BY <1>0, <1>1, NoNoteIsNoNote DEF HoldersEmbedTheRow, HoldsLease, Idle
  <2>. QED
    BY <2>1, <2>2
<1>2. ASSUME NEW n \in Note, NoteStep(n) PROVE Good
  <2>1. CASE ArriveNote(n)
    BY <1>0, <1>1, <2>1 DEF ArriveNote
  <2>2. CASE EditText(n)
    <3>1. PICK row \in Requeued(regen[n], note[n].current + 1) :
            regen' = [regen EXCEPT ![n] = row]
      BY <2>2 DEF EditText
    <3>2. row.status = "queued" /\ row.token = NoToken
      BY <1>0, RequeuedRows
    <3>. QED
      BY <1>0, <1>1, <2>2, <3>1, <3>2 DEF EditText, TypeOK
  <2>3. CASE DeleteNote(n)
    BY <1>0, <1>1, <2>3 DEF DeleteNote, NoRow, TypeOK
  <2>. QED
    BY <1>2, <2>1, <2>2, <2>3 DEF NoteStep
<1>3. ASSUME NEW w \in Worker, Claim(w) PROVE Good
  <2>1. PICK n \in Note :
          /\ regen' = [regen EXCEPT ![n] =
                         Moved(@, "processing", @.retries, Lease, lastToken + 1)]
          /\ worker' = [worker EXCEPT ![w] =
                          [pc |-> "embedding", note |-> n,
                           version |-> regen[n].version, token |-> lastToken + 1,
                           outcome |-> "pending", stalled |-> FALSE]]
    BY <1>3 DEF Claim
  <2>2. /\ regen'[n].token = lastToken + 1 /\ regen'[n].version = regen[n].version
        /\ \A m \in Note : m # n => regen'[m] = regen[m]
        /\ worker'[w].note = n /\ worker'[w].version = regen[n].version
        /\ worker'[w].token = lastToken + 1 /\ lastToken' = lastToken + 1
        /\ \A v \in Worker : v # w => worker'[v] = worker[v]
    BY <1>0, <1>3, <2>1 DEF Claim, Moved, TypeOK
  <2>3. TokensAreIssued'
    BY <1>0, <2>2 DEF TokensAreIssued, NoToken
  <2>4. HoldersEmbedTheRow'
    BY <1>0, <2>2 DEF HoldersEmbedTheRow, HoldsLease, TokensAreIssued
  <2>. QED
    BY <2>3, <2>4
<1>4. ASSUME NEW w \in Worker, CompleteIfCurrent(w) PROVE Good
  BY <1>0, <1>1, <1>4 DEF CompleteIfCurrent, HoldsLease, Release, NoRow, TypeOK
<1>5. ASSUME NEW w \in Worker, RecordTransientFailure(w) PROVE Good
  <2>1. PICK delay \in Nat :
          regen' = [regen EXCEPT ![worker[w].note] = RetriedRow(@, delay)]
    BY <1>5, LimitsArePositive DEF RecordTransientFailure
  <2>2. worker[w].note \in Note /\ UNCHANGED lastToken /\ Release(w)
    BY <1>5 DEF RecordTransientFailure, HoldsLease
  <2>3. /\ regen'[worker[w].note].status # "processing"
        /\ regen'[worker[w].note].token = NoToken
        /\ \A n \in Note : n # worker[w].note => regen'[n] = regen[n]
    BY <1>0, <2>1, <2>2, RetriedRows DEF TypeOK
  <2>. QED
    BY <1>0, <1>1, <2>2, <2>3 DEF Release, TypeOK
<1>6. ASSUME NEW w \in Worker, FailRegeneration(w) PROVE Good
  BY <1>0, <1>1, <1>6 DEF FailRegeneration, HoldsLease, Release, Moved, TypeOK
<1>7. ASSUME NEW w \in Worker, OutcomeRejected(w) \/ AttemptAborted(w) PROVE Good
  BY <1>1, <1>7 DEF OutcomeRejected, AttemptAborted, Release, TypeOK
<1>8. ASSUME NEW w \in Worker, FinishEmbedding(w) \/ Stall(w) PROVE Good
  BY <1>0, <1>1, <1>8 DEF FinishEmbedding, Stall, TypeOK, Attempt
<1>9. CASE Tick
  BY <1>0, <1>1, <1>9, OlderRows DEF Tick, Older
<1>10. CASE UNCHANGED vars
  BY <1>1, <1>10 DEF vars
<1>. QED
  BY <1>2, <1>3, <1>4, <1>5, <1>6, <1>7, <1>8, <1>9, <1>10
     DEF Next, WorkerStep, Record

(* The inductive invariant holds in every reachable state.                 *)
THEOREM Invariance == Spec => []Inv
<1>1. Inv /\ [Next]_vars => Inv'
  BY StepTypeOK, StepScheduled, StepTokens DEF Inv
<1>. QED
  BY <1>1, InitInv, PTL DEF Spec

(* No edit is lost to an attempt on an older text, and no row outlives its *)
(* note.                                                                   *)
THEOREM NoEditIsLost == Spec => []BehindIsScheduled
<1>1. Inv => BehindIsScheduled
  BY DEF Inv
<1>. QED
  BY <1>1, Invariance, PTL

-----------------------------------------------------------------------------
(* Refinement                                                              *)

(* Every step that changes what search sees is a step of SearchIndex.      *)
LEMMA StepIndex == Inv /\ [Next]_vars => [Index!Next]_(Index!vars)
<1> DEFINE cur == [n \in Note |-> note[n].current]
           ind == [n \in Note |-> note[n].embedded]
<1> SUFFICES ASSUME Inv, [Next]_vars
             PROVE  Index!Next \/ UNCHANGED Index!vars
  OBVIOUS
<1> USE DEF Inv
<1>0. /\ TypeOK /\ BehindIsScheduled /\ VectorsAreOfVersions
      /\ \A n \in Note : note[n].current \in Nat /\ note[n].embedded \in Nat
  BY DEF TypeOK, VoiceNote
<1>1. ASSUME NEW n \in Note, ArriveNote(n) PROVE Index!Arrive(n)
  <2>1. note[n].current = 0
    BY <1>0, <1>1 DEF ArriveNote, VectorsAreOfVersions
  <2>2. cur' = [cur EXCEPT ![n] = 1] /\ ind' = [ind EXCEPT ![n] = 1]
    BY <1>0, <1>1 DEF ArriveNote, TypeOK
  <2>. QED
    BY <2>1, <2>2 DEF Index!Arrive
<1>2. ASSUME NEW n \in Note, EditText(n) PROVE Index!Edit(n)
  <2>1. note[n].current # 0
    BY <1>0, <1>2 DEF EditText, VectorsAreOfVersions
  <2>2. cur' = [cur EXCEPT ![n] = @ + 1] /\ ind' = ind
    BY <1>0, <1>2 DEF EditText, TypeOK
  <2>. QED
    BY <2>1, <2>2 DEF Index!Edit
<1>3. ASSUME NEW n \in Note, DeleteNote(n) PROVE Index!Leave(n)
  <2>1. note[n].current # 0
    BY <1>0, <1>3 DEF DeleteNote, VectorsAreOfVersions
  <2>2. cur' = [cur EXCEPT ![n] = 0] /\ ind' = [ind EXCEPT ![n] = 0]
    BY <1>0, <1>3 DEF DeleteNote, Deleted, TypeOK
  <2>. QED
    BY <2>1, <2>2 DEF Index!Leave
<1>4. ASSUME NEW w \in Worker, NEW n \in Note, n = worker[w].note,
             CompleteIfCurrent(w)
      PROVE  Index!CatchUp(n)
  <2>1. regen[n].status = "processing" /\ worker[w].version = regen[n].version
    BY <1>4 DEF CompleteIfCurrent, HoldsLease, RowMatches
  <2>2. /\ note[n].life = "live" /\ worker[w].version = note[n].current
        /\ note[n].embedded < note[n].current
    BY <1>0, <2>1 DEF BehindIsScheduled, VectorsAreOfVersions
  <2>3. cur' = cur /\ ind' = [ind EXCEPT ![n] = cur[n]]
    BY <1>0, <1>4, <2>2 DEF CompleteIfCurrent, TypeOK
  <2>. QED
    BY <2>2, <2>3 DEF Index!CatchUp
<1>5. ASSUME note' = note PROVE UNCHANGED Index!vars
  BY <1>5 DEF Index!vars
<1>. QED
  <2>1. CASE \E n \in Note : NoteStep(n)
    BY <1>1, <1>2, <1>3, <2>1 DEF NoteStep, Index!Next
  <2>2. CASE \E w \in Worker : CompleteIfCurrent(w)
    <3>1. PICK w \in Worker : CompleteIfCurrent(w)
      BY <2>2
    <3>2. PICK n \in Note : n = worker[w].note
      BY <3>1 DEF CompleteIfCurrent, HoldsLease
    <3>. QED
      BY <1>4, <3>1, <3>2 DEF Index!Next
  <2>3. CASE note' = note
    BY <1>5, <2>3
  <2>. QED
    BY <2>1, <2>2, <2>3
       DEF Next, WorkerStep, Record, Claim, FinishEmbedding,
           RecordTransientFailure, FailRegeneration, OutcomeRejected,
           AttemptAborted, Stall, Tick, vars

(* A vector that is replaced is replaced by the one of the current text.   *)
THEOREM IndexImplemented == Spec => ImplementsIndex
<1>1. Init => Index!Init
  BY DEF Init, Index!Init, NoVoiceNote
<1>. QED
  BY <1>1, Invariance, StepIndex, PTL DEF Spec, ImplementsIndex, Index!Spec

(* The rows, vectors and attempts keep their types.                         *)
THEOREM TypeCorrectness == Spec => []TypeOK
<1>1. Inv => TypeOK
  BY DEF Inv
<1>. QED
  BY <1>1, Invariance, PTL
=================================================================================
