-------------------------- MODULE UploadQueue_proofs --------------------------
(***************************************************************************)
(* Proofs about UploadQueue, for any number of services and background     *)
(* tasks, of keys, retries and faults.                                     *)
(***************************************************************************)
EXTENDS UploadQueue, TLAPS

Memory == [pc : Points, todo : Seq(Chores), id : 0..MaxKeys, key : 0..MaxKeys, seen : Nat,
           last : BOOLEAN, again : BOOLEAN]

Rows == [status : Status, id : 0..MaxKeys, key : 0..MaxKeys, retries : Nat, stale : BOOLEAN]

(* Some job of the recording has succeeded, which it then stays.            *)
Transcribed == \E k \in Keys : server[k] = "succeeded"

(* Who sends requests knows the key they go by.                             *)
KeyKnown ==
    /\ row.status # "absent" => row.key # 0
    /\ \A a \in Actors :
          /\ actor[a].pc \in {"read", "open", "push", "finalize", "poll"} => actor[a].key # 0
          /\ actor[a].pc \in {"check", "mark"} /\ a # Foreground => actor[a].key # 0

(* Whoever is about to delete the audio for good has seen a job succeed.    *)
DiscardIsEarned ==
    /\ row.status = "cleanupPending" => Transcribed
    /\ \A a \in Actors :
          actor[a].pc \in {"fetch", "discard", "complete", "keep"} => Transcribed

(* Whoever is about to delete the row of a file it deleted finds it gone.   *)
GoneIsGone == \A a \in Actors : actor[a].pc \in {"complete", "remove"} => ~audio

IInv == TypeOK /\ KeyKnown /\ DiscardIsEarned /\ GoneIsGone /\ AudioKept

-----------------------------------------------------------------------------
(* How an actor's memory changes                                            *)

(* It goes on to a point and remembers what it did.                         *)
LEMMA GoMemory ==
  ASSUME TypeOK, NEW a \in Actors, NEW point \in Points, Go(a, point)
  PROVE  /\ actor' \in [Actors -> Memory]
         /\ actor'[a].pc = point /\ actor'[a].key = actor[a].key
         /\ \A b \in Actors : b # a => actor'[b] = actor[b]
<1>1. actor[a] \in Memory
  BY DEF TypeOK, Memory
<1>2. [actor[a] EXCEPT !.pc = point] \in Memory
  BY <1>1 DEF Memory
<1>3. actor' = [actor EXCEPT ![a] = [actor[a] EXCEPT !.pc = point]]
  BY DEF Go
<1>. QED
  BY <1>1, <1>2, <1>3 DEF TypeOK, Memory

(* Or to a point with another row, key or count in mind.                    *)
LEMMA GoWithMemory ==
  ASSUME TypeOK, NEW a \in Actors, NEW point \in Points, NEW id \in 0..MaxKeys,
         NEW key \in 0..MaxKeys, NEW seen \in Nat, NEW last \in BOOLEAN,
         GoWith(a, point, id, key, seen, last)
  PROVE  /\ actor' \in [Actors -> Memory]
         /\ actor'[a].pc = point /\ actor'[a].key = key
         /\ \A b \in Actors : b # a => actor'[b] = actor[b]
<1> DEFINE new == [pc |-> point, todo |-> actor[a].todo, id |-> id, key |-> key,
                   seen |-> seen, last |-> last, again |-> actor[a].again]
<1>1. actor[a].todo \in Seq(Chores) /\ actor[a].again \in BOOLEAN
      /\ actor \in [Actors -> Memory]
  BY DEF TypeOK, Memory
<1>2. new \in Memory
  BY <1>1 DEF Memory
<1>. QED
  BY <1>1, <1>2 DEF GoWith

(* Or it begins anew.                                                       *)
LEMMA FreshMemory ==
  ASSUME TypeOK, NEW a \in Actors, NEW point \in Points, NEW todo \in Seq(Chores),
         NEW id \in 0..MaxKeys, NEW key \in 0..MaxKeys,
         actor' = [actor EXCEPT ![a] = Fresh(point, todo, id, key)]
  PROVE  /\ actor' \in [Actors -> Memory]
         /\ actor'[a].pc = point /\ actor'[a].key = key
         /\ \A b \in Actors : b # a => actor'[b] = actor[b]
<1>1. actor \in [Actors -> Memory]
  BY DEF TypeOK, Memory
<1>2. Fresh(point, todo, id, key) \in Memory
  BY DEF Memory, Fresh
<1>. QED
  BY <1>1, <1>2 DEF Fresh

(* It forgets the attempt.                                                  *)
LEMMA FinishMemory ==
  ASSUME TypeOK, NEW a \in Actors, NEW retryable, Finish(a, retryable)
  PROVE  /\ actor' \in [Actors -> Memory]
         /\ actor'[a].pc \in {"idle", "error"}
         /\ \A b \in Actors : b # a => actor'[b] = actor[b]
<1>1. actor[a].todo \in Seq(Chores) /\ 0 \in 0..MaxKeys
  BY BoundsAssumption DEF TypeOK
<1>2. CASE a = Foreground /\ retryable
  <2>1. actor' = [actor EXCEPT ![a] = Fresh("error", actor[a].todo, 0, 0)]
    BY <1>2 DEF Finish
  <2>. QED
    BY <1>1, <2>1, FreshMemory DEF Points
<1>3. CASE ~(a = Foreground /\ retryable)
  <2>1. actor' = [actor EXCEPT ![a] = Fresh("idle", actor[a].todo, 0, 0)]
    BY <1>3 DEF Finish
  <2>. QED
    BY <1>1, <2>1, FreshMemory DEF Points
<1>. QED
  BY <1>2, <1>3

(* It takes up the next step of its pass.                                   *)
LEMMA ProceedMemory ==
  ASSUME TypeOK, NEW a \in Actors, NEW point \in Points,
         NEW id \in 0..MaxKeys, NEW key \in 0..MaxKeys,
         actor[a].todo # <<>>, Proceed(a, point, id, key)
  PROVE  /\ actor' \in [Actors -> Memory]
         /\ actor'[a].pc = point /\ actor'[a].key = key
         /\ \A b \in Actors : b # a => actor'[b] = actor[b]
<1>1. actor[a].todo \in Seq(Chores)
  BY DEF TypeOK
<1>2. Tail(actor[a].todo) \in Seq(Chores)
  BY <1>1
<1>. QED
  BY <1>2, FreshMemory DEF Proceed

-----------------------------------------------------------------------------
(* How the row changes                                                      *)

LEMMA RowTypes ==
  ASSUME TypeOK
  PROVE  /\ row \in Rows /\ Absent \in Rows /\ Absent.status = "absent"
         /\ \A status \in Status : Stamped(status) \in Rows
         /\ \A key \in 0..MaxKeys : Rekeyed(key) \in Rows /\ Inserted(key) \in Rows
BY BoundsAssumption DEF TypeOK, Rows, Absent, Stamped, Rekeyed, Inserted, Status

(* What a step of one actor has to keep so that the invariant holds.        *)
LEMMA ActorStep ==
  ASSUME IInv, NEW a \in Actors,
         actor' \in [Actors -> Memory], \A b \in Actors : b # a => actor'[b] = actor[b],
         actor'[a].pc \in {"read", "open", "push", "finalize", "poll"} => actor'[a].key # 0,
         actor'[a].pc \in {"check", "mark"} /\ a # Foreground => actor'[a].key # 0,
         actor'[a].pc \in {"fetch", "discard", "complete", "keep"} => Transcribed,
         row' \in Rows, row'.status # "absent" => row'.key # 0,
         row'.status = "cleanupPending" => Transcribed,
         server' \in [Keys -> JobStatus],
         \A k \in Keys : server[k] = "succeeded" => server'[k] = "succeeded",
         keys' \in 0..MaxKeys, faults' \in 0..MaxFaults,
         audio' \in BOOLEAN, erased' \in BOOLEAN,
         audio' \/ erased' \/ Transcribed,
         audio' => audio, actor'[a].pc \in {"complete", "remove"} => ~audio'
  PROVE  IInv'
<1>1. Transcribed => Transcribed'
  BY DEF Transcribed
<1>2. TypeOK'
  BY DEF TypeOK, Memory, Rows
<1>3. KeyKnown'
  BY DEF IInv, KeyKnown
<1>4. DiscardIsEarned'
  BY <1>1 DEF IInv, DiscardIsEarned
<1>5. AudioKept'
  BY <1>1 DEF AudioKept, Transcribed
<1>6. GoneIsGone'
  BY DEF IInv, GoneIsGone
<1>. QED
  BY <1>2, <1>3, <1>4, <1>5, <1>6 DEF IInv

(* What the invariant says before the step, in the same words.              *)
LEMMA Before ==
  ASSUME IInv
  PROVE  /\ TypeOK /\ row \in Rows /\ actor \in [Actors -> Memory]
         /\ row.status # "absent" => row.key # 0
         /\ row.status = "cleanupPending" => Transcribed
         /\ server \in [Keys -> JobStatus] /\ keys \in 0..MaxKeys /\ faults \in 0..MaxFaults
         /\ audio \in BOOLEAN /\ erased \in BOOLEAN
         /\ audio \/ erased \/ Transcribed
BY DEF IInv, TypeOK, Rows, Memory, KeyKnown, DiscardIsEarned, AudioKept, Transcribed

(* A step that only moves its actor, to a point where nothing is owed.      *)
LEMMA MoveInv ==
  ASSUME IInv, NEW a \in Actors, UNCHANGED <<audio, row, server, erased>>,
         keys' \in 0..MaxKeys, faults' \in 0..MaxFaults,
         actor' \in [Actors -> Memory], \A b \in Actors : b # a => actor'[b] = actor[b],
         actor'[a].pc \in {"read", "open", "push", "finalize", "poll"} => actor'[a].key # 0,
         actor'[a].pc \in {"check", "mark"} /\ a # Foreground => actor'[a].key # 0,
         actor'[a].pc \in {"fetch", "discard", "keep"} => Transcribed,
         actor'[a].pc \notin {"complete", "remove"}
  PROVE  IInv'
BY Before, ActorStep

-----------------------------------------------------------------------------
(* The passes                                                               *)
LEMMA PassInv ==
  ASSUME IInv, NEW a \in Actors,
         Restore(a) \/ Cleanup(a) \/ Reconcile(a) \/ LookUp(a) \/ Select(a) \/ Check(a)
  PROVE  IInv'
<1>1. 0 \in 0..MaxKeys /\ row.id \in 0..MaxKeys /\ row.key \in 0..MaxKeys
  BY Before, BoundsAssumption DEF Rows
<1>2. CASE Restore(a)
  <2>1. /\ actor' \in [Actors -> Memory] /\ actor'[a].pc = "idle"
        /\ \A b \in Actors : b # a => actor'[b] = actor[b]
    BY <1>1, <1>2, Before, ProceedMemory DEF Restore, Due, Points
  <2>2. row' \in Rows /\ (row'.status # "absent" => row'.key # 0)
        /\ (row'.status = "cleanupPending" => row' = row)
    BY <1>2, Before, RowTypes DEF Restore, Stamped, Status
  <2>. QED
    BY <1>2, <2>1, <2>2, Before, ActorStep DEF Restore
<1>3. CASE Cleanup(a)
  <2>1. CASE row.status = "cleanupPending"
    <3>1. /\ actor' \in [Actors -> Memory] /\ actor'[a].pc = "discard"
          /\ \A b \in Actors : b # a => actor'[b] = actor[b]
      BY <1>1, <1>3, <2>1, Before, ProceedMemory DEF Cleanup, Due, Points
    <3>. QED
      BY <1>3, <2>1, <3>1, Before, MoveInv DEF Cleanup
  <2>2. CASE row.status # "cleanupPending"
    <3>1. /\ actor' \in [Actors -> Memory] /\ actor'[a].pc = "idle"
          /\ \A b \in Actors : b # a => actor'[b] = actor[b]
      BY <1>1, <1>3, <2>2, Before, ProceedMemory DEF Cleanup, Due, Points
    <3>. QED
      BY <1>3, <3>1, Before, MoveInv DEF Cleanup
  <2>. QED
    BY <2>1, <2>2
<1>4. CASE Reconcile(a)
  <2>1. PICK point \in {"lookUp", "idle"} : Proceed(a, point, 0, 0)
    BY <1>4 DEF Reconcile
  <2>2. /\ actor' \in [Actors -> Memory] /\ actor'[a].pc = point
        /\ \A b \in Actors : b # a => actor'[b] = actor[b]
    BY <1>1, <1>4, <2>1, Before, ProceedMemory DEF Reconcile, Due, Points
  <2>. QED
    BY <1>4, <2>2, Before, MoveInv DEF Reconcile
<1>5. CASE Select(a)
  <2>1. CASE Selectable
    <3>1. /\ actor' \in [Actors -> Memory] /\ actor'[a].pc = "check" /\ actor'[a].key = row.key
          /\ \A b \in Actors : b # a => actor'[b] = actor[b]
      BY <1>1, <1>5, <2>1, Before, ProceedMemory DEF Select, Due, Points
    <3>2. row.key # 0
      BY <2>1, Before DEF Selectable
    <3>. QED
      BY <1>5, <3>1, <3>2, Before, MoveInv DEF Select
  <2>2. CASE ~Selectable
    <3>1. /\ actor' \in [Actors -> Memory] /\ actor'[a].pc = "idle"
          /\ \A b \in Actors : b # a => actor'[b] = actor[b]
      BY <1>1, <1>5, <2>2, Before, ProceedMemory DEF Select, Due, Points
    <3>. QED
      BY <1>5, <3>1, Before, MoveInv DEF Select
  <2>. QED
    BY <2>1, <2>2
<1>6. CASE Check(a)
  <2>1. CASE audio
    <3>1. /\ actor' \in [Actors -> Memory] /\ actor'[a].pc = "mark"
          /\ actor'[a].key = actor[a].key
          /\ \A b \in Actors : b # a => actor'[b] = actor[b]
      BY <1>6, <2>1, Before, GoMemory DEF Check, Points
    <3>2. a # Foreground => actor[a].key # 0
      BY <1>6 DEF Check, At, IInv, KeyKnown
    <3>. QED
      BY <1>6, <2>1, <3>1, <3>2, Before, MoveInv DEF Check
  <2>2. CASE ~audio
    <3>1. /\ actor' \in [Actors -> Memory] /\ actor'[a].pc \in {"idle", "error"}
          /\ \A b \in Actors : b # a => actor'[b] = actor[b]
      BY <1>6, <2>2, Before, FinishMemory DEF Check
    <3>2. row' \in Rows /\ (row' = row \/ row'.status = "absent")
      BY <1>6, <2>2, Before, RowTypes DEF Check, DeleteRow, WriteRow
    <3>. QED
      BY <1>6, <3>1, <3>2, Before, ActorStep DEF Check
  <2>. QED
    BY <2>1, <2>2
<1>7. CASE LookUp(a)
  <2>1. /\ actor' \in [Actors -> Memory] /\ actor'[a].pc \in {"ensure", "idle", "error"}
        /\ \A b \in Actors : b # a => actor'[b] = actor[b]
    <3>1. CASE row.status = "absent"
      BY <1>7, <3>1, Before, GoMemory DEF LookUp, Points
    <3>2. CASE row.status # "absent"
      BY <1>7, <3>2, Before, FinishMemory DEF LookUp
    <3>. QED
      BY <3>1, <3>2
  <2>. QED
    BY <1>7, <2>1, Before, MoveInv DEF LookUp
<1>. QED
  BY <1>2, <1>3, <1>4, <1>5, <1>6, <1>7

-----------------------------------------------------------------------------
(* The queue row                                                            *)

(* A row written anew keeps its key.                                        *)
LEMMA StampedRow ==
  ASSUME IInv, NEW a \in Actors, NEW status \in Status, WriteRow(a, Stamped(status))
  PROVE  /\ row' \in Rows /\ (row'.status # "absent" => row'.key # 0)
         /\ row' = row \/ row'.status = status
<1>1. Stamped(status) \in Rows /\ Stamped(status).status = status
      /\ Stamped(status).key = row.key
  BY Before, RowTypes DEF Stamped
<1>2. row' = row \/ (row.status # "absent" /\ row' = Stamped(status))
  BY DEF WriteRow, Holds
<1>. QED
  BY <1>1, <1>2, Before

(* A row deleted is absent.                                                 *)
LEMMA DeletedRow ==
  ASSUME IInv, NEW a \in Actors, DeleteRow(a)
  PROVE  row' \in Rows /\ (row' = row \/ row'.status = "absent")
BY Before, RowTypes DEF DeleteRow, WriteRow

(* A key drawn is a number of the range.                                    *)
LEMMA DrawnKey ==
  ASSUME IInv, keys < MaxKeys
  PROVE  keys + 1 \in 0..MaxKeys /\ keys + 1 # 0
BY Before, BoundsAssumption

LEMMA EnsureInv ==
  ASSUME IInv, NEW a \in Actors, Ensure(a)
  PROVE  IInv'
<1>1. /\ row' \in Rows /\ (row'.status # "absent" => row'.key # 0) /\ keys' \in 0..MaxKeys
      /\ row' = row \/ row'.status = "pending"
  <2>1. CASE row.status # "absent"
    BY <2>1, Before DEF Ensure
  <2>2. CASE row.status = "absent"
    <3>1. row' = Inserted(keys + 1) /\ keys' = keys + 1 /\ keys < MaxKeys
      BY <2>2 DEF Ensure
    <3>. QED
      BY <3>1, Before, DrawnKey, RowTypes DEF Inserted
  <2>. QED
    BY <2>1, <2>2
<1>2. /\ actor' \in [Actors -> Memory] /\ actor'[a].pc \in {"mark", "idle", "error"}
      /\ (a # Foreground => actor'[a].pc # "mark")
      /\ \A b \in Actors : b # a => actor'[b] = actor[b]
  <2>1. CASE a = Foreground
    <3>1. GoWith(a, "mark", row'.id, actor[a].key, actor[a].seen, actor[a].last)
      BY <2>1 DEF Ensure
    <3>2. row'.id \in 0..MaxKeys
      BY <1>1 DEF Rows
    <3>3. actor[a].key \in 0..MaxKeys /\ actor[a].seen \in Nat /\ actor[a].last \in BOOLEAN
      BY Before DEF Memory
    <3>4. "mark" \in Points
      BY DEF Points
    <3>. QED
      BY <2>1, <3>1, <3>2, <3>3, <3>4, Before, GoWithMemory
  <2>2. CASE a # Foreground
    BY <2>2, Before, FinishMemory DEF Ensure
  <2>. QED
    BY <2>1, <2>2
<1>. QED
  BY <1>1, <1>2, Before, ActorStep DEF Ensure

LEMMA MarkInv ==
  ASSUME IInv, NEW a \in Actors, Mark(a)
  PROVE  IInv'
<1>1. PICK point \in {"load", "read"} : /\ Go(a, point)
                                        /\ point = "read" => a # Foreground
  BY DEF Mark
<1>2. /\ actor' \in [Actors -> Memory] /\ actor'[a].pc = point
      /\ actor'[a].key = actor[a].key /\ \A b \in Actors : b # a => actor'[b] = actor[b]
  BY <1>1, Before, GoMemory DEF Points
<1>3. a # Foreground => actor[a].key # 0
  BY DEF Mark, At, IInv, KeyKnown
<1>4. /\ row' \in Rows /\ (row'.status # "absent" => row'.key # 0)
      /\ row' = row \/ row'.status = "uploading"
  BY StampedRow DEF Mark, Status
<1>. QED
  BY <1>1, <1>2, <1>3, <1>4, Before, ActorStep DEF Mark

LEMMA LoadInv ==
  ASSUME IInv, NEW a \in Actors, Load(a)
  PROVE  IInv'
<1>1. actor[a].id \in 0..MaxKeys /\ actor[a].seen \in Nat /\ actor[a].last \in BOOLEAN
      /\ "read" \in Points
  BY Before DEF Memory, Points
<1>2. CASE Holds(a) /\ GoWith(a, "read", actor[a].id, row.key, actor[a].seen, actor[a].last)
           /\ UNCHANGED keys
  <2>1. row.key \in 0..MaxKeys /\ row.key # 0
    BY <1>2, Before DEF Holds, Rows
  <2>2. /\ actor' \in [Actors -> Memory] /\ actor'[a].pc = "read" /\ actor'[a].key = row.key
        /\ \A b \in Actors : b # a => actor'[b] = actor[b]
    BY <1>1, <1>2, <2>1, Before, GoWithMemory
  <2>. QED
    BY <1>2, <2>1, <2>2, Before, MoveInv DEF Load
<1>3. CASE keys < MaxKeys /\ keys' = keys + 1
           /\ GoWith(a, "read", actor[a].id, keys + 1, actor[a].seen, actor[a].last)
  <2>1. keys + 1 \in 0..MaxKeys /\ keys + 1 # 0
    BY <1>3, DrawnKey
  <2>2. /\ actor' \in [Actors -> Memory] /\ actor'[a].pc = "read" /\ actor'[a].key = keys + 1
        /\ \A b \in Actors : b # a => actor'[b] = actor[b]
    BY <1>1, <1>3, <2>1, Before, GoWithMemory
  <2>. QED
    BY <1>3, <2>1, <2>2, Before, MoveInv DEF Load
<1>4. CASE Finish(a, TRUE) /\ UNCHANGED keys
  BY <1>4, Before, FinishMemory, MoveInv DEF Load
<1>. QED
  BY <1>2, <1>3, <1>4 DEF Load

LEMMA NoApiKeyInv ==
  ASSUME IInv, NEW a \in Actors, NoApiKey(a)
  PROVE  IInv'
<1>1. /\ row' \in Rows /\ (row'.status # "absent" => row'.key # 0)
      /\ row' = row \/ row'.status = "pending"
  BY StampedRow DEF NoApiKey, Status
<1>2. /\ actor' \in [Actors -> Memory] /\ actor'[a].pc \in {"idle", "error"}
      /\ \A b \in Actors : b # a => actor'[b] = actor[b]
  BY Before, FinishMemory DEF NoApiKey
<1>. QED
  BY <1>1, <1>2, Before, ActorStep DEF NoApiKey

LEMMA RetryInv ==
  ASSUME IInv, NEW a \in Actors, Retry(a)
  PROVE  IInv'
<1> DEFINE new == [Fresh("ensure", <<>>, 0, 0) EXCEPT !.again = TRUE]
<1>1. Fresh("ensure", <<>>, 0, 0) \in Memory /\ Fresh("ensure", <<>>, 0, 0).pc = "ensure"
  BY BoundsAssumption DEF Fresh, Memory, Points
<1>2. new \in Memory /\ new.pc = "ensure"
  BY <1>1 DEF Memory
<1>3. actor' = [actor EXCEPT ![a] = new]
  BY DEF Retry
<1>. HIDE DEF new
<1>4. /\ actor' \in [Actors -> Memory] /\ actor'[a].pc = "ensure"
      /\ \A b \in Actors : b # a => actor'[b] = actor[b]
  BY <1>2, <1>3, Before
<1>. QED
  BY <1>4, Before, MoveInv DEF Retry

-----------------------------------------------------------------------------
(* transcribe()                                                             *)

(* The job an actor asks about is one that was opened under a key.          *)
LEMMA JobTypes ==
  ASSUME IInv, NEW a \in Actors,
         actor[a].pc \in {"read", "open", "push", "finalize", "poll"}
  PROVE  actor[a].key \in Keys /\ Job(a) \in JobStatus
<1>1. actor[a].key \in 0..MaxKeys /\ actor[a].key # 0
  BY Before DEF IInv, KeyKnown, Memory
<1>2. actor[a].key \in Keys
  BY <1>1, BoundsAssumption DEF Keys
<1>. QED
  BY <1>2, Before DEF Job

(* A request changes no job that has succeeded.                             *)
LEMMA HandledJobs ==
  ASSUME IInv, NEW a \in Actors
  PROVE  /\ Handled(a) \in [Keys -> JobStatus]
         /\ \A k \in Keys : server[k] = "succeeded" => Handled(a)[k] = "succeeded"
<1>1. server \in [Keys -> JobStatus] /\ "accepting" \in JobStatus /\ "working" \in JobStatus
  BY Before DEF JobStatus
<1>2. CASE At(a, "open") /\ Job(a) = "none"
  BY <1>1, <1>2 DEF Handled, Job
<1>3. CASE ~(At(a, "open") /\ Job(a) = "none") /\ At(a, "finalize") /\ Job(a) = "accepting"
  BY <1>1, <1>3 DEF Handled, Job
<1>. QED
  BY <1>1, <1>2, <1>3 DEF Handled

LEMMA RequestInv ==
  ASSUME IInv, NEW a \in Actors,
         Read(a) \/ Open(a) \/ Push(a) \/ Finalize(a) \/ Poll(a) \/ Fetch(a)
  PROVE  IInv'
<1>1. CASE Read(a)
  <2>1. PICK point \in {"open", "giveUp"} : Go(a, point)
    BY <1>1 DEF Read
  <2>2. /\ actor' \in [Actors -> Memory] /\ actor'[a].pc = point
        /\ actor'[a].key = actor[a].key /\ \A b \in Actors : b # a => actor'[b] = actor[b]
    BY <2>1, Before, GoMemory DEF Points
  <2>3. actor[a].key # 0
    BY <1>1 DEF Read, At, IInv, KeyKnown
  <2>. QED
    BY <1>1, <2>2, <2>3, Before, MoveInv DEF Read
<1>2. CASE Open(a)
  <2>1. PICK point \in {"push", "poll"} : Go(a, point)
    BY <1>2 DEF Open
  <2>2. /\ actor' \in [Actors -> Memory] /\ actor'[a].pc = point
        /\ actor'[a].key = actor[a].key /\ \A b \in Actors : b # a => actor'[b] = actor[b]
    BY <2>1, Before, GoMemory DEF Points
  <2>3. actor[a].key # 0
    BY <1>2 DEF Open, At, IInv, KeyKnown
  <2>. QED
    BY <1>2, <2>2, <2>3, Before, HandledJobs, ActorStep DEF Open
<1>3. CASE Push(a)
  <2>1. PICK point \in {"finalize", "giveUp"} : Go(a, point)
    BY <1>3 DEF Push
  <2>2. /\ actor' \in [Actors -> Memory] /\ actor'[a].pc = point
        /\ actor'[a].key = actor[a].key /\ \A b \in Actors : b # a => actor'[b] = actor[b]
    BY <2>1, Before, GoMemory DEF Points
  <2>3. actor[a].key # 0
    BY <1>3 DEF Push, At, IInv, KeyKnown
  <2>. QED
    BY <1>3, <2>2, <2>3, Before, MoveInv DEF Push
<1>4. CASE Finalize(a)
  <2>1. PICK point \in {"giveUp", "poll"} : Go(a, point)
    BY <1>4 DEF Finalize
  <2>2. /\ actor' \in [Actors -> Memory] /\ actor'[a].pc = point
        /\ actor'[a].key = actor[a].key /\ \A b \in Actors : b # a => actor'[b] = actor[b]
    BY <2>1, Before, GoMemory DEF Points
  <2>3. actor[a].key # 0
    BY <1>4 DEF Finalize, At, IInv, KeyKnown
  <2>. QED
    BY <1>4, <2>2, <2>3, Before, HandledJobs, ActorStep DEF Finalize
<1>5. CASE Poll(a)
  <2>1. PICK point \in {"fetch", "rekey", "giveUp"} :
          Go(a, point) /\ (point = "fetch" => Job(a) = "succeeded")
    BY <1>5 DEF Poll
  <2>2. /\ actor' \in [Actors -> Memory] /\ actor'[a].pc = point
        /\ \A b \in Actors : b # a => actor'[b] = actor[b]
    BY <2>1, Before, GoMemory DEF Points
  <2>3. point = "fetch" => Transcribed
    BY <1>5, <2>1, JobTypes DEF Poll, At, Job, Transcribed
  <2>. QED
    BY <1>5, <2>2, <2>3, Before, MoveInv DEF Poll
<1>6. CASE Fetch(a)
  <2>1. /\ actor' \in [Actors -> Memory] /\ actor'[a].pc = "discard"
        /\ \A b \in Actors : b # a => actor'[b] = actor[b]
    BY <1>6, Before, GoMemory DEF Fetch, Points
  <2>2. Transcribed
    BY <1>6 DEF Fetch, At, IInv, DiscardIsEarned
  <2>. QED
    BY <1>6, <2>1, <2>2, Before, MoveInv DEF Fetch
<1>. QED
  BY <1>1, <1>2, <1>3, <1>4, <1>5, <1>6

(* A fault is counted, up to the bound.                                     *)
LEMMA FaultCount ==
  ASSUME IInv, Fault
  PROVE  faults' \in 0..MaxFaults
BY Before, BoundsAssumption DEF Fault

LEMMA RequestFaultInv ==
  ASSUME IInv, NEW a \in Actors, RequestFails(a) \/ RequestRejected(a)
  PROVE  IInv'
<1>1. CASE RequestFails(a)
  <2>1. /\ actor' \in [Actors -> Memory] /\ actor'[a].pc = "look"
        /\ \A b \in Actors : b # a => actor'[b] = actor[b]
    BY <1>1, Before, GoMemory DEF RequestFails, Points
  <2>2. /\ server' \in [Keys -> JobStatus]
        /\ \A k \in Keys : server[k] = "succeeded" => server'[k] = "succeeded"
    BY <1>1, Before, HandledJobs DEF RequestFails
  <2>3. faults' \in 0..MaxFaults
    BY <1>1, FaultCount DEF RequestFails
  <2>. QED
    BY <1>1, <2>1, <2>2, <2>3, Before, ActorStep DEF RequestFails
<1>2. CASE RequestRejected(a)
  <2>1. /\ actor' \in [Actors -> Memory] /\ actor'[a].pc = "giveUp"
        /\ \A b \in Actors : b # a => actor'[b] = actor[b]
    BY <1>2, Before, GoMemory DEF RequestRejected, Points
  <2>2. faults' \in 0..MaxFaults
    BY <1>2, FaultCount DEF RequestRejected
  <2>. QED
    BY <1>2, <2>1, <2>2, Before, MoveInv DEF RequestRejected
<1>. QED
  BY <1>1, <1>2

-----------------------------------------------------------------------------
(* finalizeSuccessfulUpload: what is deleted has been transcribed           *)
LEMMA DiscardInv ==
  ASSUME IInv, NEW a \in Actors,
         Discard(a) \/ Complete(a) \/ Keep(a) \/ LocalCleanupFails(a)
  PROVE  IInv'
<1>1. Transcribed
  BY DEF Discard, Complete, Keep, LocalCleanupFails, At, IInv, DiscardIsEarned
<1>2. CASE Discard(a)
  <2>1. /\ actor' \in [Actors -> Memory] /\ actor'[a].pc = "complete"
        /\ \A b \in Actors : b # a => actor'[b] = actor[b]
    BY <1>2, Before, GoMemory DEF Discard, Points
  <2>. QED
    BY <1>1, <1>2, <2>1, Before, ActorStep DEF Discard
<1>3. CASE Complete(a)
  <2>1. /\ actor' \in [Actors -> Memory] /\ actor'[a].pc \in {"idle", "error"}
        /\ \A b \in Actors : b # a => actor'[b] = actor[b]
    BY <1>3, Before, FinishMemory DEF Complete
  <2>2. row' \in Rows /\ (row' = row \/ row'.status = "absent")
    BY <1>3, DeletedRow DEF Complete
  <2>. QED
    BY <1>3, <2>1, <2>2, Before, ActorStep DEF Complete
<1>4. CASE Keep(a)
  <2>1. /\ actor' \in [Actors -> Memory] /\ actor'[a].pc \in {"idle", "error"}
        /\ \A b \in Actors : b # a => actor'[b] = actor[b]
    BY <1>4, Before, FinishMemory DEF Keep
  <2>2. row' \in Rows /\ (row'.status # "absent" => row'.key # 0)
    BY <1>4, StampedRow DEF Keep, Status
  <2>. QED
    BY <1>1, <1>4, <2>1, <2>2, Before, ActorStep DEF Keep
<1>5. CASE LocalCleanupFails(a)
  <2>1. /\ actor' \in [Actors -> Memory] /\ actor'[a].pc = "keep"
        /\ \A b \in Actors : b # a => actor'[b] = actor[b]
    BY <1>5, Before, GoMemory DEF LocalCleanupFails, Points
  <2>2. faults' \in 0..MaxFaults
    BY <1>5, FaultCount DEF LocalCleanupFails
  <2>. QED
    BY <1>1, <1>5, <2>1, <2>2, Before, MoveInv DEF LocalCleanupFails
<1>. QED
  BY <1>2, <1>3, <1>4, <1>5

-----------------------------------------------------------------------------
(* recordUploadFailure                                                      *)
LEMMA RekeyInv ==
  ASSUME IInv, NEW a \in Actors, Rekey(a)
  PROVE  IInv'
<1>1. /\ actor' \in [Actors -> Memory] /\ actor'[a].pc = "look"
      /\ \A b \in Actors : b # a => actor'[b] = actor[b]
  BY Before, GoMemory DEF Rekey, Points
<1>2. /\ row' \in Rows /\ (row'.status # "absent" => row'.key # 0)
      /\ row'.status = row.status /\ keys' \in 0..MaxKeys
  <2>1. CASE Holds(a)
    <3>1. row' = Rekeyed(keys + 1) /\ keys' = keys + 1 /\ keys < MaxKeys
      BY <2>1 DEF Rekey
    <3>. QED
      BY <3>1, Before, DrawnKey, RowTypes DEF Rekeyed
  <2>2. CASE ~Holds(a)
    BY <2>2, Before DEF Rekey
  <2>. QED
    BY <2>1, <2>2
<1>. QED
  BY <1>1, <1>2, Before, ActorStep DEF Rekey

LEMMA CountInv ==
  ASSUME IInv, NEW a \in Actors, Look(a) \/ Count(a)
  PROVE  IInv'
<1>1. /\ actor[a].id \in 0..MaxKeys /\ actor[a].key \in 0..MaxKeys
      /\ actor[a].seen \in Nat /\ actor[a].last \in BOOLEAN
      /\ row.retries \in Nat
  BY Before DEF Memory, Rows
<1>2. "count" \in Points /\ "store" \in Points /\ "giveUp" \in Points
  BY DEF Points
<1>3. /\ actor' \in [Actors -> Memory]
      /\ actor'[a].pc \in {"count", "store", "giveUp", "idle", "error"}
      /\ \A b \in Actors : b # a => actor'[b] = actor[b]
  <2>1. CASE Look(a)
    <3>1. GoWith(a, "count", actor[a].id, actor[a].key, actor[a].seen, Holds(a) /\ Exhausted)
      BY <2>1 DEF Look
    <3>2. (Holds(a) /\ Exhausted) \in BOOLEAN
      OBVIOUS
    <3>. QED
      BY <1>1, <1>2, <3>1, <3>2, Before, GoWithMemory
  <2>2. CASE GoWith(a, "store", actor[a].id, actor[a].key, row.retries, actor[a].last)
    BY <1>1, <1>2, <2>2, Before, GoWithMemory
  <2>3. CASE Go(a, "giveUp")
    BY <1>2, <2>3, Before, GoMemory
  <2>4. CASE Finish(a, TRUE)
    BY <2>4, Before, FinishMemory
  <2>. QED
    BY <2>1, <2>2, <2>3, <2>4 DEF Count
<1>. QED
  BY <1>3, Before, MoveInv DEF Look, Count

LEMMA StoreInv ==
  ASSUME IInv, NEW a \in Actors, Store(a)
  PROVE  IInv'
<1> DEFINE new == [Stamped("failed") EXCEPT !.retries = actor[a].seen + 1]
<1>1. actor[a].seen + 1 \in Nat
  BY Before DEF Memory
<1>2. Stamped("failed") \in Rows
  BY Before, RowTypes DEF Status
<1>3. Stamped("failed").status = "failed" /\ Stamped("failed").key = row.key
  BY DEF Stamped
<1>4. new \in Rows /\ new.status = "failed" /\ new.key = row.key
  BY <1>1, <1>2, <1>3 DEF Rows
<1>5. row' = row \/ (row.status # "absent" /\ row' = new)
  BY DEF Store, WriteRow, Holds
<1>. HIDE DEF new
<1>6. /\ row' \in Rows /\ (row'.status # "absent" => row'.key # 0)
      /\ row' = row \/ row'.status = "failed"
  BY <1>4, <1>5, Before
<1>7. /\ actor' \in [Actors -> Memory] /\ actor'[a].pc \in {"giveUp", "idle", "error"}
      /\ \A b \in Actors : b # a => actor'[b] = actor[b]
  <2>1. CASE Go(a, "giveUp")
    BY <2>1, Before, GoMemory DEF Points
  <2>2. CASE Finish(a, TRUE)
    BY <2>2, Before, FinishMemory
  <2>. QED
    BY <2>1, <2>2 DEF Store
<1>. QED
  BY <1>6, <1>7, Before, ActorStep DEF Store

LEMMA GiveUpInv ==
  ASSUME IInv, NEW a \in Actors, GiveUp(a)
  PROVE  IInv'
<1>1. /\ row' \in Rows /\ (row'.status # "absent" => row'.key # 0)
      /\ row' = row \/ row'.status = "terminalFailure"
  BY StampedRow DEF GiveUp, Status
<1>2. /\ actor' \in [Actors -> Memory] /\ actor'[a].pc \in {"idle", "error"}
      /\ \A b \in Actors : b # a => actor'[b] = actor[b]
  BY Before, FinishMemory DEF GiveUp
<1>. QED
  BY <1>1, <1>2, Before, ActorStep DEF GiveUp

-----------------------------------------------------------------------------
(* The start of a pass, and the owner                                       *)
LEMMA StartPassInv ==
  ASSUME IInv, NEW a \in Actors, StartPass(a)
  PROVE  IInv'
<1>1. PICK plan \in Plans(a) : actor' = [actor EXCEPT ![a].todo = plan]
  BY DEF StartPass
<1>2. plan \in Seq(Chores)
  <2>1. /\ <<"cleanup", "restore", "reconcile", "select">> \in Seq(Chores)
        /\ <<"cleanup", "select">> \in Seq(Chores)
        /\ <<"restore", "cleanup", "reconcile", "cleanup", "select">> \in Seq(Chores)
    BY DEF Chores
  <2>2. \/ plan = <<"cleanup", "restore", "reconcile", "select">>
        \/ plan = <<"restore", "cleanup", "reconcile", "cleanup", "select">>
        \/ plan = <<"cleanup", "select">>
    BY <1>1 DEF Plans
  <2>. QED
    BY <2>1, <2>2
<1>3. actor[a] \in Memory /\ actor[a].pc = "idle"
  <2>1. actor[a] \in Memory
    BY Before
  <2>2. actor[a] = Idle /\ Idle.pc = "idle"
    BY DEF StartPass, Idle, Fresh
  <2>. QED
    BY <2>1, <2>2
<1>4. /\ [actor[a] EXCEPT !.todo = plan] \in Memory
      /\ [actor[a] EXCEPT !.todo = plan].pc = "idle"
  BY <1>2, <1>3 DEF Memory
<1>5. /\ actor' \in [Actors -> Memory] /\ actor'[a].pc = "idle"
      /\ \A b \in Actors : b # a => actor'[b] = actor[b]
  BY <1>1, <1>4, Before
<1>. QED
  BY <1>5, Before, MoveInv DEF StartPass

LEMMA OwnerInv ==
  ASSUME IInv, NEW a \in Actors, AskErase(a) \/ Erase(a) \/ Remove(a)
  PROVE  IInv'
<1>1. CASE AskErase(a)
  <2>1. /\ row.id \in 0..MaxKeys /\ actor[a].key \in 0..MaxKeys
        /\ actor[a].seen \in Nat /\ actor[a].last \in BOOLEAN /\ "erase" \in Points
    BY Before DEF Memory, Rows, Points
  <2>2. /\ actor' \in [Actors -> Memory] /\ actor'[a].pc = "erase"
        /\ \A b \in Actors : b # a => actor'[b] = actor[b]
    BY <1>1, <2>1, Before, GoWithMemory DEF AskErase
  <2>. QED
    BY <1>1, <2>2, Before, MoveInv DEF AskErase
<1>2. CASE Erase(a)
  <2>1. /\ actor' \in [Actors -> Memory] /\ actor'[a].pc = "remove"
        /\ \A b \in Actors : b # a => actor'[b] = actor[b]
    BY <1>2, Before, GoMemory DEF Erase, Points
  <2>. QED
    BY <1>2, <2>1, Before, ActorStep DEF Erase
<1>3. CASE Remove(a)
  <2>1. /\ actor' \in [Actors -> Memory] /\ actor'[a].pc \in {"idle", "error"}
        /\ \A b \in Actors : b # a => actor'[b] = actor[b]
    BY <1>3, Before, FinishMemory DEF Remove
  <2>2. row' \in Rows /\ (row' = row \/ row'.status = "absent")
    BY <1>3, DeletedRow DEF Remove
  <2>. QED
    BY <1>3, <2>1, <2>2, Before, ActorStep DEF Remove
<1>. QED
  BY <1>1, <1>2, <1>3

-----------------------------------------------------------------------------
(* The server, the clock and the operating system                           *)

(* What happens to a step that is nobody's.                                 *)
LEMMA OtherStep ==
  ASSUME IInv, UNCHANGED <<audio, keys, erased>>, faults' \in 0..MaxFaults,
         actor' = actor \/ actor' = [b \in Actors |-> Idle]
           \/ \E c \in Actors : actor' = [b \in Actors |-> IF b = c THEN Idle ELSE actor[b]],
         row' \in Rows, row'.status = row.status, row'.key = row.key,
         server' \in [Keys -> JobStatus],
         \A k \in Keys : server[k] = "succeeded" => server'[k] = "succeeded"
  PROVE  IInv'
<1>1. Idle \in Memory /\ Idle.pc = "idle"
  BY BoundsAssumption DEF Idle, Fresh, Memory, Points
<1>2. actor' \in [Actors -> Memory] /\ \A b \in Actors : actor'[b] = actor[b] \/ actor'[b] = Idle
  BY <1>1, Before
<1>3. Transcribed => Transcribed'
  BY DEF Transcribed
<1>4. TypeOK'
  BY <1>2, Before DEF TypeOK, Memory, Rows
<1>5. KeyKnown'
  BY <1>1, <1>2 DEF IInv, KeyKnown
<1>6. DiscardIsEarned'
  BY <1>1, <1>2, <1>3 DEF IInv, DiscardIsEarned
<1>7. AudioKept'
  BY <1>3 DEF IInv, AudioKept, Transcribed
<1>8. GoneIsGone'
  BY <1>1, <1>2 DEF IInv, GoneIsGone
<1>. QED
  BY <1>4, <1>5, <1>6, <1>7, <1>8 DEF IInv

LEMMA JobInv ==
  ASSUME IInv, NEW k \in Keys, Succeed(k) \/ JobFails(k)
  PROVE  IInv'
<1>1. PICK s \in JobStatus : /\ server' = [server EXCEPT ![k] = s]
                             /\ server[k] # "succeeded"
  <2>1. CASE Succeed(k)
    BY <2>1 DEF Succeed, JobStatus
  <2>2. CASE JobFails(k) /\ server[k] = "working"
    BY <2>2 DEF JobFails, JobStatus
  <2>3. CASE JobFails(k) /\ server[k] = "accepting"
    BY <2>3 DEF JobFails, JobStatus
  <2>. QED
    BY <2>1, <2>2, <2>3 DEF JobFails
<1>2. /\ server' \in [Keys -> JobStatus]
      /\ \A j \in Keys : server[j] = "succeeded" => server'[j] = "succeeded"
  BY <1>1, Before
<1>3. faults' \in 0..MaxFaults
  BY FaultCount, Before DEF Succeed, JobFails
<1>. QED
  BY <1>2, <1>3, Before, OtherStep DEF Succeed, JobFails

LEMMA AgeInv ==
  ASSUME IInv, Age
  PROVE  IInv'
<1>1. row' = [row EXCEPT !.stale = TRUE] /\ row \in Rows
  BY Before DEF Age
<1>2. row' \in Rows /\ row'.status = row.status /\ row'.key = row.key
  BY <1>1 DEF Rows
<1>. QED
  BY <1>2, Before, OtherStep DEF Age

LEMMA KillInv ==
  ASSUME IInv, Kill
  PROVE  IInv'
<1>1. PICK S \in {{a} : a \in Isolates} \cup {Actors} :
        actor' = [a \in Actors |-> IF a \in S THEN Idle ELSE actor[a]]
  BY DEF Kill
<1>2. actor' = [b \in Actors |-> Idle]
        \/ \E c \in Actors : actor' = [b \in Actors |-> IF b = c THEN Idle ELSE actor[b]]
  <2>1. CASE S = Actors
    BY <1>1, <2>1
  <2>2. CASE \E c \in Isolates : S = {c}
    <3>1. PICK c \in Isolates : S = {c}
      BY <2>2
    <3>2. c \in Actors
      BY DEF Actors, Passes
    <3>. QED
      BY <1>1, <3>1, <3>2
  <2>. QED
    BY <2>1, <2>2
<1>3. faults' \in 0..MaxFaults
  BY FaultCount DEF Kill
<1>. QED
  BY <1>2, <1>3, Before, OtherStep DEF Kill

-----------------------------------------------------------------------------
(* The invariant holds at the start                                         *)
LEMMA InitInv == Init => IInv
<1>. SUFFICES ASSUME Init PROVE IInv
  OBVIOUS
<1>1. Absent \in Rows /\ Absent.status = "absent"
  BY BoundsAssumption DEF Absent, Rows, Status
<1>2. Idle \in Memory /\ Idle.pc = "idle"
  BY BoundsAssumption DEF Idle, Fresh, Memory, Points
<1>3. Fresh("ensure", <<>>, 0, 0) \in Memory /\ Fresh("ensure", <<>>, 0, 0).pc = "ensure"
  BY BoundsAssumption DEF Fresh, Memory, Points
<1>4. /\ actor \in [Actors -> Memory]
      /\ \A a \in Actors : actor[a].pc \in {"idle", "ensure"}
  BY <1>2, <1>3 DEF Init
<1>5. server \in [Keys -> JobStatus] /\ keys \in 0..MaxKeys /\ faults \in 0..MaxFaults
  BY BoundsAssumption DEF Init, JobStatus
<1>6. audio = TRUE /\ erased = FALSE /\ row = Absent
  BY DEF Init
<1>7. TypeOK
  BY <1>1, <1>4, <1>5, <1>6 DEF TypeOK, Memory, Rows
<1>8. KeyKnown
  BY <1>1, <1>4, <1>6 DEF KeyKnown
<1>9. DiscardIsEarned
  BY <1>1, <1>4, <1>6 DEF DiscardIsEarned
<1>10. AudioKept
  BY <1>6 DEF AudioKept
<1>11. GoneIsGone
  BY <1>4 DEF GoneIsGone
<1>. QED
  BY <1>7, <1>8, <1>9, <1>10, <1>11 DEF IInv

(* Every step keeps it.                                                     *)
LEMMA NextInv == IInv /\ [Next]_vars => IInv'
<1>. SUFFICES ASSUME IInv, [Next]_vars PROVE IInv'
  OBVIOUS
<1>1. CASE UNCHANGED vars
  BY <1>1 DEF vars, IInv, TypeOK, KeyKnown, DiscardIsEarned, GoneIsGone, AudioKept, Transcribed
<1>2. ASSUME NEW a \in Actors, Step(a) PROVE IInv'
  BY <1>2, PassInv, EnsureInv, MarkInv, LoadInv, RequestInv, DiscardInv, RekeyInv, CountInv,
     StoreInv, GiveUpInv, OwnerInv DEF Step
<1>3. ASSUME NEW a \in Actors, StartPass(a) \/ NoApiKey(a) \/ Retry(a) \/ AskErase(a)
                                \/ RequestFails(a) \/ RequestRejected(a)
                                \/ LocalCleanupFails(a)
      PROVE IInv'
  BY <1>3, StartPassInv, NoApiKeyInv, RetryInv, OwnerInv, RequestFaultInv, DiscardInv
<1>. QED
  BY <1>1, <1>2, <1>3, JobInv, AgeInv, KillInv DEF Next

(* No race of attempts, cleanups and kills, of any number of services and   *)
(* background tasks, breaks the invariant.                                  *)
THEOREM Invariance == Spec => []IInv
  BY InitInv, NextInv, PTL DEF Spec

(* The row, the actors' memories and the jobs keep their types.             *)
THEOREM TypeCorrectness == Spec => []TypeOK
<1>1. IInv => TypeOK
  BY DEF IInv
<1>. QED
  BY <1>1, Invariance, PTL

(* The audio of a recording is deleted only when a job transcribed it or    *)
(* its owner deleted it.                                                    *)
THEOREM AudioIsKept == Spec => []AudioKept
<1>1. IInv => AudioKept
  BY DEF IInv
<1>. QED
  BY <1>1, Invariance, PTL

-----------------------------------------------------------------------------
(* Rows and audio                                                           *)

(* A row written anew is not a row deleted.                                 *)
LEMMA WrittenRow ==
  ASSUME IInv, NEW a \in Actors, NEW status \in Status \ {"absent"},
         WriteRow(a, Stamped(status)), row.status # "absent"
  PROVE  row'.status # "absent"
BY StampedRow

(* The steps of an actor that delete no row.                                *)
LEMMA RowStays ==
  ASSUME IInv, NEW a \in Actors, row.status # "absent",
         \/ Restore(a) \/ Ensure(a) \/ Mark(a) \/ Keep(a) \/ Rekey(a) \/ Store(a) \/ GiveUp(a)
         \/ NoApiKey(a)
  PROVE  row'.status # "absent"
<1>1. CASE Restore(a)
  BY <1>1 DEF Restore, Stamped
<1>2. CASE Ensure(a)
  BY <1>2 DEF Ensure
<1>3. CASE Mark(a)
  BY <1>3, WrittenRow DEF Mark, Status
<1>4. CASE Keep(a)
  BY <1>4, WrittenRow DEF Keep, Status
<1>5. CASE Rekey(a)
  BY <1>5 DEF Rekey, Rekeyed
<1>6. CASE Store(a)
  <2>1. Stamped("failed") \in Rows /\ Stamped("failed").status = "failed"
    BY Before, RowTypes DEF Stamped, Status
  <2>2. [Stamped("failed") EXCEPT !.retries = actor[a].seen + 1].status = "failed"
    BY <2>1 DEF Rows
  <2>. QED
    BY <1>6, <2>2 DEF Store, WriteRow
<1>7. CASE GiveUp(a)
  BY <1>7, WrittenRow DEF GiveUp, Status
<1>8. CASE NoApiKey(a)
  BY <1>8, WrittenRow DEF NoApiKey, Status
<1>. QED
  BY <1>1, <1>2, <1>3, <1>4, <1>5, <1>6, <1>7, <1>8

(* The steps that may delete one.                                           *)
LEMMA RowGoesLast ==
  ASSUME IInv, NEW a \in Actors, Check(a) \/ Complete(a) \/ Remove(a)
  PROVE  row' = row \/ ~audio'
<1>1. CASE Check(a)
  BY <1>1 DEF Check
<1>2. CASE Complete(a) \/ Remove(a)
  <2>1. ~audio
    BY <1>2 DEF Complete, Remove, At, IInv, GoneIsGone
  <2>. QED
    BY <1>2, <2>1, Before DEF Complete, Remove
<1>. QED
  BY <1>1, <1>2

LEMMA NextRow ==
  ASSUME IInv, [Next]_vars, row.status # "absent", row'.status = "absent"
  PROVE  ~audio'
<1>1. ASSUME NEW a \in Actors, Step(a) PROVE ~audio'
  <2>1. CASE \/ Restore(a) \/ Ensure(a) \/ Mark(a) \/ Keep(a) \/ Rekey(a) \/ Store(a) \/ GiveUp(a)
    BY <2>1, RowStays
  <2>2. CASE Check(a) \/ Complete(a) \/ Remove(a)
    BY <2>2, RowGoesLast
  <2>3. CASE UNCHANGED row
    BY <2>3
  <2>. QED
    BY <1>1, <2>1, <2>2, <2>3
       DEF Step, Cleanup, Reconcile, LookUp, Select, Load, Read, Open, Push, Finalize, Poll, Fetch,
           Discard, Look, Count, Erase
<1>2. ASSUME NEW a \in Actors, NoApiKey(a) PROVE ~audio'
  BY <1>2, RowStays
<1>3. CASE Age
  BY <1>3, Before DEF Age, Rows
<1>4. CASE UNCHANGED row
  BY <1>4
<1>. QED
  BY <1>1, <1>2, <1>3, <1>4
     DEF Next, vars, StartPass, Retry, AskErase, RequestFails, RequestRejected,
         LocalCleanupFails, Succeed, JobFails, Kill

(* A row leaves the queue only when its audio is gone: no step lets a       *)
(* recording be forgotten, or be queued again under a second key.           *)
THEOREM RowsOutliveAudio == Spec => RowOutlivesAudio
<1>1. IInv /\ [Next]_vars => [row.status # "absent" /\ row'.status = "absent" => ~audio']_vars
  BY NextRow
<1>. QED
  BY <1>1, Invariance, PTL DEF Spec, RowOutlivesAudio

=============================================================================
