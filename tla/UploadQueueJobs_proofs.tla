------------------------ MODULE UploadQueueJobs_proofs ------------------------
(***************************************************************************)
(* Why the upload queue submits a recording once, unless a job of it       *)
(* failed: as long as no job has, every request goes by one key.           *)
(***************************************************************************)
EXTENDS UploadQueue_proofs, FiniteSetTheorems

FailedJob == {"failed", "abandoned"}
NoneFailed == \A k \in Keys : server[k] \notin FailedJob

(* An actor that sends requests under its key, one that will with the key   *)
(* it has, and one that still goes by the row it found.                     *)
Sending(a) == actor[a].pc \in {"open", "push", "finalize", "poll"}
Carrying(a) == actor[a].pc \in {"check", "read"} \/ (actor[a].pc = "mark" /\ a # Foreground)
Naming(a) == actor[a].pc \in {"check", "mark", "load"}

(* Before the row: idle, about to look for a row, about to make sure of one.*)
Early == {"idle", "lookUp", "ensure"}
USE DEF Early

(* While there is audio, whatever is done about it follows on its row.      *)
RowComesFirst ==
  audio /\ row.status = "absent" =>
    Opened = {} /\ \A a \in Actors : actor[a].pc \in Early

(* And the row is not replaced by another.                                  *)
NamesTheRow == audio => \A a \in Actors : Naming(a) => actor[a].id = row.id

(* A fresh key is drawn only for a job that failed.                         *)
RekeyIsEarned ==
  \A a \in Actors : actor[a].pc = "rekey" =>
    actor[a].key \in Keys /\ server[actor[a].key] \in FailedJob

OneKey(c) ==
  /\ Opened \subseteq {c}
  /\ \A a \in Actors : Sending(a) => actor[a].key = c
  /\ audio /\ row.status # "absent" =>
       row.key = c /\ \A a \in Actors : Carrying(a) => actor[a].key = c

KInv == /\ RowComesFirst /\ NamesTheRow /\ RekeyIsEarned
        /\ NoneFailed => \E c \in 0..MaxKeys : OneKey(c)

-----------------------------------------------------------------------------
(* What a step owes                                                         *)

(* An actor that moves on keeps the key it sends requests by; it has it     *)
(* from the row, and names a row only while there is one.                   *)
Moves(a) ==
  /\ actor'[a].pc = "rekey" =>
       actor'[a].key \in Keys /\ server[actor'[a].key] \in FailedJob
  /\ actor'[a].pc \in {"open", "push", "finalize", "poll"} =>
       /\ actor'[a].key = actor[a].key
       /\ Sending(a) \/ (Carrying(a) /\ audio)
  /\ audio' =>
       /\ row.status = "absent" => actor'[a].pc \in Early
       /\ actor'[a].pc \in {"check", "mark", "load"} => actor'[a].id = row.id
       /\ \/ actor'[a].pc \in {"check", "read"}
          \/ actor'[a].pc = "mark" /\ a # Foreground
          => actor'[a].key = row.key \/ (Carrying(a) /\ actor'[a].key = actor[a].key)

(* As long as there is audio the row keeps its id and key.                  *)
SameRow ==
  audio' => /\ row'.status = "absent" <=> row.status = "absent"
            /\ row'.id = row.id /\ row'.key = row.key

(* A job is opened under the key of a request, and stays failed.            *)
JobsKept ==
  \A k \in Keys : /\ server[k] \in FailedJob => server'[k] = server[k]
                  /\ server'[k] # "none" =>
                       server[k] # "none" \/ \E a \in Actors : Sending(a) /\ actor[a].key = k

LEMMA KeyStep ==
  ASSUME KInv, audio' => audio, SameRow, JobsKept,
         \A a \in Actors : actor'[a] = actor[a] \/ Moves(a)
  PROVE  KInv'
<1>1. audio /\ row.status = "absent" => \A a \in Actors : ~Sending(a) /\ ~Carrying(a)
  BY DEF KInv, RowComesFirst, Sending, Carrying
<1>2. RowComesFirst'
  <2>. SUFFICES ASSUME audio', row'.status = "absent"
                PROVE  Opened' = {} /\ \A a \in Actors : actor'[a].pc \in Early
    BY DEF RowComesFirst
  <2>1. audio /\ row.status = "absent"
    BY DEF SameRow
  <2>2. Opened' = {}
    BY <1>1, <2>1 DEF KInv, RowComesFirst, Opened, JobsKept
  <2>3. \A a \in Actors : actor'[a].pc \in Early
    BY <2>1 DEF KInv, RowComesFirst, Moves
  <2>. QED
    BY <2>2, <2>3
<1>3. NamesTheRow'
  BY DEF KInv, NamesTheRow, Naming, Moves, SameRow
<1>4. RekeyIsEarned'
  <2>. SUFFICES ASSUME NEW a \in Actors, actor'[a].pc = "rekey"
                PROVE  actor'[a].key \in Keys /\ server'[actor'[a].key] \in FailedJob
    BY DEF RekeyIsEarned
  <2>1. actor'[a].key \in Keys /\ server[actor'[a].key] \in FailedJob
    BY DEF KInv, RekeyIsEarned, Moves
  <2>. QED
    BY <2>1 DEF JobsKept
<1>5. NoneFailed' => \E c \in 0..MaxKeys : OneKey(c)'
  <2>. SUFFICES ASSUME NoneFailed' PROVE \E c \in 0..MaxKeys : OneKey(c)'
    OBVIOUS
  <2>1. NoneFailed
    BY DEF NoneFailed, JobsKept
  <2>2. PICK c \in 0..MaxKeys : OneKey(c)
    BY <2>1 DEF KInv
  <2>3. Opened' \subseteq {c}
    BY <2>2 DEF OneKey, Opened, JobsKept
  <2>4. \A a \in Actors : Sending(a)' => actor'[a].key = c
    BY <1>1, <2>2 DEF OneKey, Sending, Moves
  <2>5. audio' /\ row'.status # "absent" =>
          row'.key = c /\ \A a \in Actors : Carrying(a)' => actor'[a].key = c
    BY <2>2 DEF OneKey, SameRow, Carrying, Moves
  <2>6. OneKey(c)'
    BY <2>3, <2>4, <2>5 DEF OneKey
  <2>. QED
    BY <2>6
<1>. QED
  BY <1>2, <1>3, <1>4, <1>5 DEF KInv

-----------------------------------------------------------------------------
(* How memory and row change, once more: with the id of the row             *)

LEMMA GoKeeps ==
  ASSUME IInv, NEW a \in Actors, NEW point, Go(a, point)
  PROVE  /\ actor'[a].pc = point /\ actor'[a].id = actor[a].id /\ actor'[a].key = actor[a].key
         /\ \A b \in Actors : b # a => actor'[b] = actor[b]
<1>1. actor \in [Actors -> Memory] /\ actor[a] \in Memory
  BY Before
<1>. QED
  BY <1>1 DEF Go, Memory

LEMMA GoWithKeeps ==
  ASSUME IInv, NEW a \in Actors, NEW point, NEW id, NEW key, NEW seen, NEW last,
         GoWith(a, point, id, key, seen, last)
  PROVE  /\ actor'[a].pc = point /\ actor'[a].id = id /\ actor'[a].key = key
         /\ \A b \in Actors : b # a => actor'[b] = actor[b]
  BY Before DEF GoWith

LEMMA ProceedKeeps ==
  ASSUME IInv, NEW a \in Actors, NEW point, NEW id, NEW key, Proceed(a, point, id, key)
  PROVE  /\ actor'[a].pc = point /\ actor'[a].id = id /\ actor'[a].key = key
         /\ \A b \in Actors : b # a => actor'[b] = actor[b]
  BY Before DEF Proceed, Fresh

LEMMA FinishKeeps ==
  ASSUME IInv, NEW a \in Actors, NEW retryable, Finish(a, retryable)
  PROVE  /\ actor'[a].pc \in {"idle", "error"} /\ (a # Foreground => actor'[a].pc = "idle")
         /\ \A b \in Actors : b # a => actor'[b] = actor[b]
  BY Before DEF Finish, Fresh

(* Where an actor owes nothing.                                             *)
LEMMA Owing ==
  ASSUME NEW a \in Actors, audio' => audio,
         actor'[a].pc \in Points \ {"check", "mark", "load", "read", "open", "push", "finalize",
                                    "poll", "rekey"},
         actor'[a].pc \notin Early => ~(audio /\ row.status = "absent")
  PROVE  Moves(a)
  BY DEF Moves

(* Who is under way has found a row, or no audio.                           *)
LEMMA UnderWay ==
  ASSUME KInv, NEW a \in Actors, actor[a].pc \notin Early
  PROVE  ~(audio /\ row.status = "absent")
  BY DEF KInv, RowComesFirst

(* The steps that write or delete the row.                                  *)
LEMMA RowKept ==
  ASSUME IInv, NEW a \in Actors,
         \/ Restore(a) \/ Check(a) \/ Mark(a) \/ Keep(a) \/ Store(a) \/ GiveUp(a) \/ NoApiKey(a)
         \/ Complete(a) \/ Remove(a)
  PROVE  SameRow
<1>1. \A status \in Status \ {"absent"} :
        WriteRow(a, Stamped(status)) => SameRow
  BY DEF WriteRow, Holds, Stamped, SameRow
<1>2. CASE Restore(a)
  BY <1>2 DEF Restore, Stamped, SameRow
<1>3. CASE Check(a) \/ Complete(a) \/ Remove(a)
  BY <1>3, RowGoesLast DEF SameRow
<1>4. CASE Mark(a) \/ Keep(a) \/ GiveUp(a) \/ NoApiKey(a)
  BY <1>1, <1>4 DEF Mark, Keep, GiveUp, NoApiKey, Status
<1>5. CASE Store(a)
  <2> DEFINE new == [Stamped("failed") EXCEPT !.retries = actor[a].seen + 1]
  <2>1. Stamped("failed") \in Rows
    BY Before, RowTypes DEF Status
  <2>2. new.status = "failed" /\ new.id = row.id /\ new.key = row.key
    BY <2>1 DEF Rows, Stamped
  <2>. HIDE DEF new
  <2>3. row' = row \/ (row.status # "absent" /\ row' = new)
    BY <1>5 DEF Store, WriteRow, Holds, new
  <2>. QED
    BY <2>2, <2>3 DEF SameRow
<1>. QED
  BY <1>2, <1>3, <1>4, <1>5

-----------------------------------------------------------------------------
(* The steps of an actor                                                    *)

LEMMA PassKeys ==
  ASSUME IInv, KInv, NEW a \in Actors,
         Restore(a) \/ Cleanup(a) \/ Reconcile(a) \/ LookUp(a) \/ Select(a)
         \/ Check(a) \/ StartPass(a)
  PROVE  KInv'
<1>1. UNCHANGED <<audio, server>>
  BY DEF Restore, Cleanup, Reconcile, LookUp, Select, Check, StartPass
<1>2. SameRow /\ JobsKept
  BY <1>1, RowKept DEF Cleanup, Reconcile, LookUp, Select, StartPass, SameRow, JobsKept
<1>3. /\ \A b \in Actors : b # a => actor'[b] = actor[b]
      /\ Moves(a)
  <2>1. CASE Restore(a) \/ (Cleanup(a) /\ row.status # "cleanupPending")
             \/ Reconcile(a) \/ (Select(a) /\ ~Selectable)
    <3>1. \E point \in {"idle", "lookUp"} : Proceed(a, point, 0, 0)
      BY <2>1 DEF Restore, Cleanup, Reconcile, Select
    <3>. QED
      BY <1>1, <3>1, ProceedKeeps, Owing DEF Points
  <2>2. CASE Cleanup(a) /\ row.status = "cleanupPending"
    BY <1>1, <2>2, ProceedKeeps, Owing DEF Cleanup, Points
  <2>3. CASE Select(a) /\ Selectable
    <3>1. /\ actor'[a].pc = "check" /\ actor'[a].id = row.id /\ actor'[a].key = row.key
          /\ \A b \in Actors : b # a => actor'[b] = actor[b]
      BY <2>3, ProceedKeeps DEF Select
    <3>. QED
      BY <2>3, <3>1 DEF Moves, Selectable
  <2>4. CASE Check(a) /\ audio
    <3>1. /\ actor'[a].pc = "mark" /\ actor'[a].id = actor[a].id /\ actor'[a].key = actor[a].key
          /\ \A b \in Actors : b # a => actor'[b] = actor[b]
      BY <2>4, GoKeeps DEF Check
    <3>2. actor[a].pc = "check"
      BY <2>4 DEF Check, At
    <3>3. row.status # "absent" /\ actor[a].id = row.id /\ Carrying(a)
      BY <2>4, <3>2, UnderWay DEF KInv, NamesTheRow, Naming, Carrying
    <3>. QED
      BY <3>1, <3>3 DEF Moves
  <2>5. CASE Check(a) /\ ~audio
    <3>1. /\ actor'[a].pc \in {"idle", "error"}
          /\ \A b \in Actors : b # a => actor'[b] = actor[b]
      BY <2>5, FinishKeeps DEF Check
    <3>. QED
      BY <1>1, <2>5, <3>1, Owing DEF Points
  <2>6. CASE StartPass(a)
    <3>1. PICK plan : actor' = [actor EXCEPT ![a].todo = plan]
      BY <2>6 DEF StartPass
    <3>2. actor[a] \in Memory /\ actor \in [Actors -> Memory] /\ actor[a].pc = "idle"
      <4>1. actor[a] \in Memory /\ actor \in [Actors -> Memory]
        BY Before
      <4>2. actor[a] = Idle /\ Idle.pc = "idle"
        BY <2>6 DEF StartPass, Idle, Fresh
      <4>. QED
        BY <4>1, <4>2
    <3>3. actor'[a].pc = "idle" /\ \A b \in Actors : b # a => actor'[b] = actor[b]
      BY <3>1, <3>2 DEF Memory
    <3>. QED
      BY <1>1, <3>3, Owing DEF Points
  <2>7. CASE LookUp(a)
    <3>1. /\ actor'[a].pc \in {"ensure", "idle"} \/ ~(audio /\ row.status = "absent")
          /\ actor'[a].pc \in {"ensure", "idle", "error"}
          /\ \A b \in Actors : b # a => actor'[b] = actor[b]
      BY <2>7, GoKeeps, FinishKeeps DEF LookUp
    <3>. QED
      BY <1>1, <3>1, Owing DEF Points
  <2>. QED
    BY <2>1, <2>2, <2>3, <2>4, <2>5, <2>6, <2>7
<1>. QED
  BY <1>1, <1>2, <1>3, KeyStep

(* The first row of a recording is the first to have its key.               *)
LEMMA EnsureKeys ==
  ASSUME IInv, KInv, NEW a \in Actors, Ensure(a)
  PROVE  KInv'
<1>1. UNCHANGED <<audio, server>> /\ actor[a].pc = "ensure" /\ JobsKept
  BY DEF Ensure, At, JobsKept
<1>2. /\ \/ actor'[a].pc = "mark" /\ a = Foreground /\ actor'[a].id = row'.id
         \/ actor'[a].pc = "idle"
      /\ \A b \in Actors : b # a => actor'[b] = actor[b]
  <2>1. CASE a = Foreground
    <3>1. GoWith(a, "mark", row'.id, actor[a].key, actor[a].seen, actor[a].last)
      BY <2>1 DEF Ensure
    <3>. QED
      BY <2>1, <3>1, GoWithKeeps
  <2>2. CASE a # Foreground
    BY <2>2, FinishKeeps DEF Ensure
  <2>. QED
    BY <2>1, <2>2
<1>3. CASE row.status # "absent"
  <2>1. UNCHANGED row
    BY <1>3 DEF Ensure
  <2>2. Moves(a) /\ SameRow
    BY <1>2, <1>3, <2>1 DEF Moves, SameRow
  <2>. QED
    BY <1>1, <1>2, <2>2, KeyStep
<1>4. CASE row.status = "absent"
  <2>1. /\ row'.status = "pending" /\ row'.key = keys + 1 /\ keys + 1 \in 0..MaxKeys
    BY <1>4, DrawnKey DEF Ensure, Inserted
  <2>2. audio => Opened = {} /\ \A b \in Actors : b # a => actor'[b].pc \in Early
    BY <1>2, <1>4 DEF KInv, RowComesFirst
  <2>3. RowComesFirst' /\ RekeyIsEarned'
    BY <1>1, <1>2, <2>1 DEF RowComesFirst, KInv, RekeyIsEarned
  <2>4. NamesTheRow'
    BY <1>1, <1>2, <2>2 DEF NamesTheRow, Naming
  <2>5. NoneFailed' => \E c \in 0..MaxKeys : OneKey(c)'
    <3>1. CASE audio
      <4>1. Opened' = {}
        BY <1>1, <2>2, <3>1 DEF Opened
      <4>2. \A b \in Actors : ~Sending(b)' /\ ~Carrying(b)'
        BY <1>2, <2>2, <3>1 DEF Sending, Carrying
      <4>3. PICK c \in 0..MaxKeys : c = keys + 1
        BY <2>1
      <4>4. OneKey(c)'
        BY <2>1, <4>1, <4>2, <4>3 DEF OneKey
      <4>. QED
        BY <4>4
    <3>2. CASE ~audio
      <4>. SUFFICES ASSUME NoneFailed' PROVE \E c \in 0..MaxKeys : OneKey(c)'
        OBVIOUS
      <4>1. PICK c \in 0..MaxKeys : OneKey(c)
        BY <1>1 DEF KInv, NoneFailed
      <4>2. OneKey(c)'
        BY <1>1, <1>2, <3>2, <4>1 DEF OneKey, Sending, Opened
      <4>. QED
        BY <4>2
    <3>. QED
      BY <3>1, <3>2
  <2>. QED
    BY <2>3, <2>4, <2>5 DEF KInv
<1>. QED
  BY <1>3, <1>4

LEMMA MarkKeys ==
  ASSUME IInv, KInv, NEW a \in Actors, Mark(a)
  PROVE  KInv'
<1>1. UNCHANGED <<audio, server>> /\ SameRow /\ JobsKept
  BY RowKept DEF Mark, JobsKept
<1>2. /\ actor'[a].pc = IF a = Foreground THEN "load" ELSE "read"
      /\ actor'[a].id = actor[a].id /\ actor'[a].key = actor[a].key
      /\ \A b \in Actors : b # a => actor'[b] = actor[b]
  BY GoKeeps DEF Mark
<1>3. actor[a].pc = "mark"
  BY DEF Mark, At
<1>4. /\ ~(audio /\ row.status = "absent") /\ (audio => actor[a].id = row.id)
      /\ (a # Foreground => Carrying(a))
  BY <1>3, UnderWay DEF KInv, NamesTheRow, Naming, Carrying
<1>5. Moves(a)
  BY <1>1, <1>2, <1>4 DEF Moves
<1>. QED
  BY <1>1, <1>2, <1>5, KeyStep

(* While there is audio, the notifier finds its row, and takes its key.     *)
LEMMA LoadKeys ==
  ASSUME IInv, KInv, NEW a \in Actors, Load(a)
  PROVE  KInv'
<1>1. UNCHANGED <<audio, server, row>> /\ SameRow /\ JobsKept /\ actor[a].pc = "load"
  BY DEF Load, At, JobsKept, SameRow
<1>2. audio => Holds(a) /\ ~(row.status = "absent")
  BY <1>1, UnderWay DEF KInv, NamesTheRow, Naming, Holds
<1>3. /\ \/ actor'[a].pc = "read" /\ (Holds(a) => actor'[a].key = row.key)
         \/ actor'[a].pc \in {"idle", "error"}
      /\ \A b \in Actors : b # a => actor'[b] = actor[b]
  <2>1. CASE GoWith(a, "read", actor[a].id, row.key, actor[a].seen, actor[a].last)
    BY <2>1, GoWithKeeps
  <2>2. CASE /\ ~Holds(a)
             /\ GoWith(a, "read", actor[a].id, keys + 1, actor[a].seen, actor[a].last)
    BY <2>2, GoWithKeeps
  <2>3. CASE Finish(a, TRUE)
    BY <2>3, FinishKeeps
  <2>. QED
    BY <2>1, <2>2, <2>3 DEF Load
<1>4. Moves(a)
  BY <1>1, <1>2, <1>3 DEF Moves
<1>. QED
  BY <1>1, <1>3, <1>4, KeyStep

(* The requests go by the key of the attempt.                               *)
LEMMA RequestKeys ==
  ASSUME IInv, KInv, NEW a \in Actors,
         \/ Read(a) \/ Open(a) \/ Push(a) \/ Finalize(a) \/ Poll(a) \/ Fetch(a)
         \/ RequestFails(a) \/ RequestRejected(a)
  PROVE  KInv'
<1>1. UNCHANGED <<audio, row>> /\ SameRow
  BY DEF Read, Open, Push, Finalize, Poll, Fetch, RequestFails, RequestRejected, SameRow
<1>2. actor[a].pc \in {"read", "open", "push", "finalize", "poll", "fetch"}
  BY DEF Read, Open, Push, Finalize, Poll, Fetch, RequestFails, RequestRejected, At, Requesting
<1>3. JobsKept
  <2>1. server' = server \/ server' = Handled(a)
    BY DEF Read, Open, Push, Finalize, Poll, Fetch, RequestFails, RequestRejected
  <2>2. CASE At(a, "open") /\ Job(a) = "none"
    BY <2>1, <2>2, Before DEF Handled, Job, JobsKept, FailedJob, Sending, At
  <2>3. CASE ~(At(a, "open") /\ Job(a) = "none") /\ At(a, "finalize") /\ Job(a) = "accepting"
    BY <2>1, <2>3, Before DEF Handled, Job, JobsKept, FailedJob
  <2>. QED
    BY <2>1, <2>2, <2>3 DEF Handled, JobsKept
<1>4. PICK point : /\ Go(a, point)
                   /\ \/ point \in {"open", "giveUp"} /\ At(a, "read") /\ (point = "open" => audio)
                      \/ /\ point \in {"push", "finalize", "poll"}
                         /\ Sending(a)
                      \/ point \in {"fetch", "discard", "look", "giveUp"}
                      \/ point = "rekey" /\ At(a, "poll") /\ Job(a) \in FailedJob
  <2>1. CASE Read(a)
    BY <2>1 DEF Read
  <2>2. CASE Open(a)
    BY <2>2 DEF Open, At, Sending
  <2>3. CASE Push(a)
    BY <2>3 DEF Push, At, Sending
  <2>4. CASE Finalize(a)
    BY <2>4 DEF Finalize, At, Sending
  <2>5. CASE Poll(a)
    BY <2>5 DEF Poll, FailedJob
  <2>6. CASE Fetch(a) \/ RequestFails(a) \/ RequestRejected(a)
    BY <2>6 DEF Fetch, RequestFails, RequestRejected
  <2>. QED
    BY <2>1, <2>2, <2>3, <2>4, <2>5, <2>6
<1>5. /\ actor'[a].pc = point /\ actor'[a].key = actor[a].key
      /\ \A b \in Actors : b # a => actor'[b] = actor[b]
  BY <1>4, GoKeeps
<1>6. ~(audio /\ row.status = "absent")
  BY <1>2, UnderWay
<1>7. Moves(a)
  <2>1. CASE point = "rekey"
    BY <1>4, <1>5, <1>6, <2>1, JobTypes, <1>1 DEF Moves, At, Job
  <2>2. CASE point # "rekey"
    BY <1>1, <1>4, <1>5, <1>6, <2>2 DEF Moves, At, Carrying
  <2>. QED
    BY <2>1, <2>2
<1>. QED
  BY <1>1, <1>3, <1>5, <1>7, KeyStep

(* Success: the file is deleted, and what is done to the row comes later.   *)
LEMMA SuccessKeys ==
  ASSUME IInv, KInv, NEW a \in Actors,
         Discard(a) \/ Complete(a) \/ LocalCleanupFails(a) \/ Keep(a)
  PROVE  KInv'
<1>1. UNCHANGED server /\ (audio' => audio) /\ JobsKept
  <2>1. UNCHANGED server
    BY DEF Discard, Complete, LocalCleanupFails, Keep
  <2>2. audio' = FALSE \/ audio' = audio
    BY DEF Discard, Complete, LocalCleanupFails, Keep
  <2>. QED
    BY <2>1, <2>2 DEF JobsKept
<1>2. SameRow
  BY RowKept DEF Discard, LocalCleanupFails, SameRow
<1>3. ~(audio /\ row.status = "absent")
  BY UnderWay DEF Discard, Complete, LocalCleanupFails, Keep, At
<1>4. /\ actor'[a].pc \in {"complete", "keep", "idle", "error"}
      /\ \A b \in Actors : b # a => actor'[b] = actor[b]
  <2>1. CASE Discard(a) \/ LocalCleanupFails(a)
    BY <2>1, GoKeeps DEF Discard, LocalCleanupFails
  <2>2. CASE Complete(a) \/ Keep(a)
    BY <2>2, FinishKeeps DEF Complete, Keep
  <2>. QED
    BY <2>1, <2>2
<1>5. Moves(a)
  BY <1>1, <1>3, <1>4, Owing DEF Points
<1>. QED
  BY <1>1, <1>2, <1>4, <1>5, KeyStep

(* A fresh key: some job has failed, so nothing is claimed any more.        *)
LEMMA RekeyKeys ==
  ASSUME IInv, KInv, NEW a \in Actors, Rekey(a)
  PROVE  KInv'
<1>1. UNCHANGED <<audio, server>> /\ actor[a].pc = "rekey"
  BY DEF Rekey, At
<1>2. actor'[a].pc = "look" /\ \A b \in Actors : b # a => actor'[b] = actor[b]
  BY GoKeeps DEF Rekey
<1>3. ~NoneFailed'
  BY <1>1 DEF KInv, RekeyIsEarned, NoneFailed
<1>4. row'.status = row.status /\ row'.id = row.id
  BY DEF Rekey, Rekeyed
<1>5. RowComesFirst' /\ NamesTheRow'
  BY <1>1, <1>2, <1>4, UnderWay
     DEF KInv, RowComesFirst, NamesTheRow, Naming, Opened
<1>6. RekeyIsEarned'
  BY <1>1, <1>2 DEF KInv, RekeyIsEarned
<1>. QED
  BY <1>3, <1>5, <1>6 DEF KInv

(* A failure is recorded.                                                   *)
LEMMA FailureKeys ==
  ASSUME IInv, KInv, NEW a \in Actors,
         Look(a) \/ Count(a) \/ Store(a) \/ GiveUp(a) \/ NoApiKey(a)
  PROVE  KInv'
<1>1. UNCHANGED <<audio, server>> /\ JobsKept
  BY DEF Look, Count, Store, GiveUp, NoApiKey, JobsKept
<1>2. SameRow
  BY RowKept DEF Look, Count, SameRow
<1>3. ~(audio /\ row.status = "absent")
  BY UnderWay DEF Look, Count, Store, GiveUp, NoApiKey, At
<1>4. /\ actor'[a].pc \in {"count", "store", "giveUp", "idle", "error"}
      /\ \A b \in Actors : b # a => actor'[b] = actor[b]
  <2>1. CASE Look(a)
    BY <2>1, GoWithKeeps DEF Look
  <2>2. CASE GoWith(a, "store", actor[a].id, actor[a].key, row.retries, actor[a].last)
    BY <2>2, GoWithKeeps
  <2>3. CASE Go(a, "giveUp")
    BY <2>3, GoKeeps
  <2>4. CASE \E retryable : Finish(a, retryable)
    BY <2>4, FinishKeeps
  <2>. QED
    BY <2>1, <2>2, <2>3, <2>4 DEF Count, Store, GiveUp, NoApiKey
<1>5. Moves(a)
  BY <1>1, <1>3, <1>4, Owing DEF Points
<1>. QED
  BY <1>1, <1>2, <1>4, <1>5, KeyStep

LEMMA OwnerKeys ==
  ASSUME IInv, KInv, NEW a \in Actors, AskErase(a) \/ Erase(a) \/ Remove(a) \/ Retry(a)
  PROVE  KInv'
<1>1. UNCHANGED server /\ (audio' => audio) /\ JobsKept
  <2>1. UNCHANGED server
    BY DEF AskErase, Erase, Remove, Retry
  <2>2. audio' = FALSE \/ audio' = audio
    BY DEF AskErase, Erase, Remove, Retry
  <2>. QED
    BY <2>1, <2>2 DEF JobsKept
<1>2. SameRow
  BY RowKept DEF AskErase, Erase, Retry, SameRow
<1>3. ~(audio /\ row.status = "absent")
  BY UnderWay DEF AskErase, Erase, Remove, Retry, At
<1>4. /\ actor'[a].pc \in {"erase", "remove", "idle", "error", "ensure"}
      /\ \A b \in Actors : b # a => actor'[b] = actor[b]
  <2>1. CASE AskErase(a)
    BY <2>1, GoWithKeeps DEF AskErase
  <2>2. CASE Erase(a)
    BY <2>2, GoKeeps DEF Erase
  <2>3. CASE Remove(a)
    BY <2>3, FinishKeeps DEF Remove
  <2>4. CASE Retry(a)
    <3>1. [Fresh("ensure", <<>>, 0, 0) EXCEPT !.again = TRUE].pc = "ensure"
      BY DEF Fresh
    <3>. QED
      BY <2>4, <3>1, Before DEF Retry
  <2>. QED
    BY <2>1, <2>2, <2>3, <2>4
<1>5. Moves(a)
  BY <1>1, <1>3, <1>4, Owing DEF Points
<1>. QED
  BY <1>1, <1>2, <1>4, <1>5, KeyStep

-----------------------------------------------------------------------------
(* The other steps, and the theorem                                         *)

LEMMA OtherKeys ==
  ASSUME IInv, KInv, (\E k \in Keys : Succeed(k) \/ JobFails(k)) \/ Age \/ Kill
  PROVE  KInv'
<1>1. UNCHANGED audio
  BY DEF Succeed, JobFails, Age, Kill
<1>2. SameRow
  <2>1. CASE Age
    BY <2>1, Before DEF Age, Rows, SameRow
  <2>2. CASE UNCHANGED row
    BY <2>2 DEF SameRow
  <2>. QED
    BY <2>1, <2>2 DEF Succeed, JobFails, Kill
<1>3. JobsKept
  <2>1. CASE \E k \in Keys : Succeed(k)
    BY <2>1, Before DEF Succeed, JobsKept, FailedJob
  <2>2. CASE \E k \in Keys : JobFails(k)
    <3>1. PICK k \in Keys, s \in JobStatus \ {"none"} :
            server' = [server EXCEPT ![k] = s] /\ server[k] \in {"working", "accepting"}
      BY <2>2 DEF JobFails, JobStatus
    <3>. QED
      BY <3>1, Before DEF JobsKept, FailedJob
  <2>3. CASE UNCHANGED server
    BY <2>3 DEF JobsKept
  <2>. QED
    BY <2>1, <2>2, <2>3 DEF Age, Kill
<1>4. \A a \in Actors : actor'[a] = actor[a] \/ Moves(a)
  <2>1. CASE Kill
    <3>1. \A a \in Actors : actor'[a] = actor[a] \/ actor'[a] = Idle
      BY <2>1 DEF Kill
    <3>2. Idle.pc = "idle"
      BY DEF Idle, Fresh
    <3>. QED
      BY <1>1, <3>1, <3>2 DEF Moves
  <2>2. CASE UNCHANGED actor
    BY <2>2
  <2>. QED
    BY <2>1, <2>2 DEF Succeed, JobFails, Age
<1>. QED
  BY <1>1, <1>2, <1>3, <1>4, KeyStep

LEMMA KeysInit == Init => KInv
<1>. SUFFICES ASSUME Init PROVE KInv
  OBVIOUS
<1>1. /\ \A a \in Actors : actor[a].pc \in Early
      /\ row.status = "absent" /\ Opened = {}
  BY DEF Init, Idle, Fresh, Absent, Opened
<1>2. OneKey(0) /\ 0 \in 0..MaxKeys
  BY <1>1, BoundsAssumption DEF OneKey, Sending
<1>. QED
  BY <1>1, <1>2 DEF KInv, RowComesFirst, NamesTheRow, Naming, RekeyIsEarned

LEMMA KeysNext == IInv /\ KInv /\ [Next]_vars => KInv'
<1>. SUFFICES ASSUME IInv, KInv, [Next]_vars PROVE KInv'
  OBVIOUS
<1>1. CASE UNCHANGED vars
  BY <1>1, KeyStep DEF vars, SameRow, JobsKept
<1>2. ASSUME NEW a \in Actors, Step(a) PROVE KInv'
  BY <1>2, PassKeys, EnsureKeys, MarkKeys, LoadKeys, RequestKeys, SuccessKeys, RekeyKeys,
     FailureKeys, OwnerKeys DEF Step
<1>3. ASSUME NEW a \in Actors, \/ StartPass(a) \/ NoApiKey(a) \/ Retry(a) \/ AskErase(a)
                               \/ RequestFails(a) \/ RequestRejected(a) \/ LocalCleanupFails(a)
      PROVE KInv'
  BY <1>3, PassKeys, FailureKeys, OwnerKeys, RequestKeys, SuccessKeys
<1>. QED
  BY <1>1, <1>2, <1>3, OtherKeys DEF Next

(* A recording is submitted once, by however many services and background   *)
(* tasks and however often they are killed, as long as no job of it failed: *)
(* what ensurePendingUpload and the key in the row are for.                 *)
THEOREM OneJobPerRecording == Spec => []OneJobUnlessFailed
<1>1. KInv => OneJobUnlessFailed
  <2>. SUFFICES ASSUME KInv, NoneFailed PROVE Cardinality(Opened) <= 1
    BY DEF OneJobUnlessFailed, NoneFailed, FailedJob
  <2>1. PICK c \in 0..MaxKeys : Opened \subseteq {c}
    BY DEF KInv, OneKey
  <2>2. Opened = {} \/ Opened = {c}
    BY <2>1
  <2>3. Cardinality({c}) = 1 /\ Cardinality({}) = 0
    BY FS_Singleton, FS_EmptySet
  <2>. QED
    BY <2>2, <2>3
<1>. QED
  BY <1>1, KeysInit, KeysNext, Invariance, PTL DEF Spec

=============================================================================
