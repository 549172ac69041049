----------------------------- MODULE UploadQueue -----------------------------
(***************************************************************************)
(* The client's upload queue: one finished recording, its audio file and   *)
(* its row of pending_uploads, shared by the foreground notifier, the      *)
(* queue services of the app and the background isolates, none of which    *)
(* excludes the others.  Each of them is a sequence of awaits; a step of   *)
(* an actor is what it does from one await to the next.                    *)
(*                                                                         *)
(* Recordings do not influence one another (a row is updated by its id, a  *)
(* job is found by its key), so one is modelled.  The server is what the   *)
(* client sees of it: one job per idempotency key.                         *)
(***************************************************************************)
EXTENDS Naturals, FiniteSets, Sequences

CONSTANTS
    Services,     \* UploadQueueService instances (a rebuilt provider leaves the old one running)
    Isolates,     \* WorkManager tasks: the periodic one and the one-off
    Foreground,   \* the TranscriptionNotifier
    Owner,        \* deleteTerminalFailureRecording, called from the failure list
    MaxRetries,   \* maxRetryAttempts
    MaxKeys,      \* bound: idempotency keys drawn
    MaxFaults     \* bound: failed requests, failed jobs, failed deletions, kills

ASSUME RetriesAssumption == MaxRetries \in Nat \ {0}
ASSUME BoundsAssumption == MaxKeys \in Nat /\ MaxFaults \in Nat
ASSUME ActorsAssumption ==
    /\ Services \cap Isolates = {}
    /\ Foreground \notin Services \cup Isolates
    /\ Owner \notin Services \cup Isolates \cup {Foreground}

VARIABLES
    audio,    \* whether the recording's file exists
    row,      \* its row of pending_uploads
    actor,    \* where each actor is and what it remembers
    server,   \* the status of the job opened under each key
    keys,     \* how many keys have been drawn: key number keys is the newest
    erased,   \* history: the owner deleted the recording
    faults    \* faults so far

vars == <<audio, row, actor, server, keys, erased, faults>>

Passes == Services \cup Isolates
Actors == Passes \cup {Foreground, Owner}
Keys == 1..MaxKeys

(* A row's id is the number of the key drawn when it was inserted.          *)
Absent == [status |-> "absent", id |-> 0, key |-> 0, retries |-> 0, stale |-> FALSE]
Status == {"absent", "pending", "uploading", "failed", "terminalFailure", "cleanupPending"}

JobStatus == {"none", "accepting", "working", "succeeded", "failed", "invalid", "abandoned"}

Points == {"idle", "lookUp", "ensure", "check", "mark", "load", "read", "open", "push", "finalize",
           "poll", "fetch", "discard", "complete", "keep", "rekey", "look", "count",
           "store", "giveUp", "error", "erase", "remove"}

Chores == {"restore", "cleanup", "reconcile", "select"}

(* What an actor remembers: the chores left of a pass, the row and key it  *)
(* works on, the retry count it read, whether that was the last retry, and *)
(* whether the owner asked for the attempt with the Retry button.          *)
Fresh(point, todo, id, key) ==
    [pc |-> point, todo |-> todo, id |-> id, key |-> key, seen |-> 0,
     last |-> FALSE, again |-> FALSE]

Idle == Fresh("idle", <<>>, 0, 0)

(* The order of the steps of a pass.  A service's start() runs all of them,*)
(* its timer and connectivity callbacks only processQueue.                 *)
Plans(a) ==
    IF a \in Isolates
    THEN {<<"cleanup", "restore", "reconcile", "select">>}
    ELSE {<<"restore", "cleanup", "reconcile", "cleanup", "select">>, <<"cleanup", "select">>}

Init ==
    /\ audio = TRUE
    /\ row = Absent
    /\ \E handed \in BOOLEAN :   \* the notifier was called, or the app died first
          actor = [a \in Actors |-> IF a = Foreground /\ handed
                                    THEN Fresh("ensure", <<>>, 0, 0) ELSE Idle]
    /\ server = [k \in Keys |-> "none"]
    /\ keys = 0
    /\ erased = FALSE
    /\ faults = 0

-----------------------------------------------------------------------------
(* Helpers                                                                  *)

At(a, point) == actor[a].pc = point

Go(a, point) == actor' = [actor EXCEPT ![a].pc = point]

GoWith(a, point, id, key, seen, last) ==
    actor' = [actor EXCEPT ![a] =
                 [pc |-> point, todo |-> actor[a].todo, id |-> id, key |-> key, seen |-> seen,
                  last |-> last, again |-> actor[a].again]]

Fault == faults < MaxFaults /\ faults' = faults + 1

(* UPDATE ... WHERE id = ?: nothing happens if the row is gone.             *)
Holds(a) == row.status # "absent" /\ row.id = actor[a].id

WriteRow(a, new) == row' = IF Holds(a) THEN new ELSE row

DeleteRow(a) == WriteRow(a, Absent)

Inserted(key) == [status |-> "pending", id |-> key, key |-> key, retries |-> 0, stale |-> FALSE]

Stamped(status) == [status |-> status, id |-> row.id, key |-> row.key, retries |-> row.retries,
                    stale |-> FALSE]

Rekeyed(key) == [status |-> row.status, id |-> row.id, key |-> key, retries |-> row.retries,
                 stale |-> FALSE]

(* What is left of a pass goes on; the notifier shows a Retry button if the *)
(* failure is retryable.                                                    *)
Finish(a, retryable) ==
    actor' = [actor EXCEPT ![a] =
                 Fresh(IF a = Foreground /\ retryable THEN "error" ELSE "idle",
                       actor[a].todo, 0, 0)]

(* getPendingUploads: the rows a pass takes up.                             *)
Selectable ==
    \/ row.status = "pending"
    \/ row.status = "failed" /\ row.retries < MaxRetries

-----------------------------------------------------------------------------
(* Passes                                                                   *)

StartPass(a) ==
    /\ a \in Passes /\ actor[a] = Idle
    /\ \E plan \in Plans(a) : actor' = [actor EXCEPT ![a].todo = plan]
    /\ UNCHANGED <<audio, row, server, keys, erased, faults>>

Due(a, chore) == At(a, "idle") /\ actor[a].todo # <<>> /\ Head(actor[a].todo) = chore

Proceed(a, point, id, key) ==
    actor' = [actor EXCEPT ![a] = Fresh(point, Tail(actor[a].todo), id, key)]

(* restoreStaleUploadingUploads                                             *)
RestoreNothing(a) ==                                                \* mutant
    /\ Due(a, "restore")
    /\ Proceed(a, "idle", 0, 0)
    /\ UNCHANGED <<audio, row, server, keys, erased, faults>>

Restore(a) ==
    /\ Due(a, "restore")
    /\ row' = IF row.status = "uploading" /\ row.stale THEN Stamped("failed") ELSE row
    /\ Proceed(a, "idle", 0, 0)
    /\ UNCHANGED <<audio, server, keys, erased, faults>>

(* retryPendingUploadCleanup                                                *)
Cleanup(a) ==
    /\ Due(a, "cleanup")
    /\ IF row.status = "cleanupPending" THEN Proceed(a, "discard", row.id, 0)
                                        ELSE Proceed(a, "idle", 0, 0)
    /\ UNCHANGED <<audio, row, server, keys, erased, faults>>

(* reconcilePersistentRecordings lists the files, then looks up the row of *)
(* each, which may have gone, with the file, in between.                    *)
Reconcile(a) ==
    /\ Due(a, "reconcile")
    /\ Proceed(a, IF audio THEN "lookUp" ELSE "idle", 0, 0)
    /\ UNCHANGED <<audio, row, server, keys, erased, faults>>

LookUp(a) ==
    /\ At(a, "lookUp")
    /\ IF row.status = "absent" THEN Go(a, "ensure") ELSE Finish(a, FALSE)
    /\ UNCHANGED <<audio, row, server, keys, erased, faults>>

(* The snapshot of the queue: id and key are remembered from here on.       *)
Select(a) ==
    /\ Due(a, "select")
    /\ IF Selectable THEN Proceed(a, "check", row.id, row.key) ELSE Proceed(a, "idle", 0, 0)
    /\ UNCHANGED <<audio, row, server, keys, erased, faults>>

(* A row whose file is gone is dropped.                                     *)
Check(a) ==
    /\ At(a, "check")
    /\ IF audio THEN Go(a, "mark") /\ UNCHANGED row
                ELSE DeleteRow(a) /\ Finish(a, FALSE)
    /\ UNCHANGED <<audio, server, keys, erased, faults>>

-----------------------------------------------------------------------------
(* The queue row                                                            *)

(* ensurePendingUpload: insert or ignore, then the id of the row.           *)
Ensure(a) ==
    /\ At(a, "ensure")
    /\ IF row.status # "absent"
       THEN UNCHANGED <<row, keys>>
       ELSE /\ keys < MaxKeys
            /\ keys' = keys + 1
            /\ row' = Inserted(keys + 1)
    /\ IF a = Foreground
       THEN GoWith(a, "mark", row'.id, actor[a].key, actor[a].seen, actor[a].last)
       ELSE Finish(a, FALSE)
    /\ UNCHANGED <<audio, server, erased, faults>>

(* markAsUploading: whatever the status is.                                 *)
Mark(a) ==
    /\ At(a, "mark")
    /\ WriteRow(a, Stamped("uploading"))
    /\ Go(a, IF a = Foreground THEN "load" ELSE "read")
    /\ UNCHANGED <<audio, server, keys, erased, faults>>

(* The notifier reads the row again, for its key.  If it is gone, the first *)
(* attempt draws a key of its own, and a retry has no recordedAt and throws.*)
Load(a) ==
    /\ At(a, "load")
    /\ \/ /\ Holds(a)
          /\ GoWith(a, "read", actor[a].id, row.key, actor[a].seen, actor[a].last)
          /\ UNCHANGED keys
       \/ /\ ~Holds(a) /\ ~actor[a].again
          /\ keys < MaxKeys
          /\ keys' = keys + 1
          /\ GoWith(a, "read", actor[a].id, keys + 1, actor[a].seen, actor[a].last)
       \/ /\ ~Holds(a) /\ actor[a].again
          /\ Finish(a, TRUE)
          /\ UNCHANGED keys
    /\ UNCHANGED <<audio, row, server, erased, faults>>

(* No API key is configured: the row goes back to pending.                  *)
NoApiKey(a) ==
    /\ At(a, "load")
    /\ Holds(a) \/ ~actor[a].again
    /\ WriteRow(a, Stamped("pending"))
    /\ Finish(a, FALSE)
    /\ UNCHANGED <<audio, server, keys, erased, faults>>

(* The owner presses Retry.  The bound leaves two keys to every pass.       *)
Retry(a) ==
    /\ At(a, "error")
    /\ keys + 2 * Cardinality(Passes) < MaxKeys
    /\ actor' = [actor EXCEPT ![a] = [Fresh("ensure", <<>>, 0, 0) EXCEPT !.again = TRUE]]
    /\ UNCHANGED <<audio, row, server, keys, erased, faults>>

-----------------------------------------------------------------------------
(* transcribe()                                                             *)

(* getFileData: the bytes are in memory from here on.                       *)
Read(a) ==
    /\ At(a, "read")
    /\ Go(a, IF audio THEN "open" ELSE "giveUp")
    /\ UNCHANGED <<audio, row, server, keys, erased, faults>>

Job(a) == server[actor[a].key]

(* What the server makes of the request at this point: open finds the job   *)
(* of the key or makes it, finalize seals it.                               *)
Handled(a) ==
    IF At(a, "open") /\ Job(a) = "none"
    THEN [server EXCEPT ![actor[a].key] = "accepting"]
    ELSE IF At(a, "finalize") /\ Job(a) = "accepting"
    THEN [server EXCEPT ![actor[a].key] = "working"]
    ELSE server

Open(a) ==
    /\ At(a, "open")
    /\ server' = Handled(a)
    /\ Go(a, IF Job(a) \in {"none", "accepting"} THEN "push" ELSE "poll")
    /\ UNCHANGED <<audio, row, keys, erased, faults>>

(* All chunks, in one step.  A job that accepts none any more answers 409.  *)
Push(a) ==
    /\ At(a, "push")
    /\ Go(a, IF Job(a) = "accepting" THEN "finalize" ELSE "giveUp")
    /\ UNCHANGED <<audio, row, server, keys, erased, faults>>

(* A sealed job is a replay, an abandoned one a conflict.                   *)
Finalize(a) ==
    /\ At(a, "finalize")
    /\ server' = Handled(a)
    /\ Go(a, IF Job(a) = "abandoned" THEN "giveUp" ELSE "poll")
    /\ UNCHANGED <<audio, row, keys, erased, faults>>

(* _pollUntilTerminal, with no limit on how long.                           *)
PollAnyTerminal(a) ==                                               \* mutant
    /\ At(a, "poll")
    /\ Job(a) \notin {"none", "accepting", "working"}
    /\ Go(a, "fetch")
    /\ UNCHANGED <<audio, row, server, keys, erased, faults>>

Poll(a) ==
    /\ At(a, "poll")
    /\ \/ Job(a) = "succeeded" /\ Go(a, "fetch")
       \/ Job(a) \in {"failed", "abandoned"} /\ Go(a, "rekey")
       \/ Job(a) = "invalid" /\ Go(a, "giveUp")
    /\ UNCHANGED <<audio, row, server, keys, erased, faults>>

(* The voice note, or 404 if it was deleted: either way the job is done.    *)
Fetch(a) ==
    /\ At(a, "fetch")
    /\ Go(a, "discard")
    /\ UNCHANGED <<audio, row, server, keys, erased, faults>>

Requesting(a) == actor[a].pc \in {"open", "push", "finalize", "poll", "fetch"}

(* A timeout, a lost connection, 401, 429 or 5xx: retryable under the same  *)
(* key.  The server may have handled the request.                           *)
RequestFailsFresh(a) ==                                             \* mutant
    /\ Requesting(a) /\ Fault
    /\ server' \in {server, Handled(a)}
    /\ Go(a, "rekey")
    /\ UNCHANGED <<audio, row, keys, erased>>

RequestFails(a) ==
    /\ Requesting(a) /\ Fault
    /\ server' \in {server, Handled(a)}
    /\ Go(a, "look")
    /\ UNCHANGED <<audio, row, keys, erased>>

(* Any other 4xx, or an error dio does not name: not retryable.             *)
RequestRejected(a) ==
    /\ Requesting(a) /\ Fault
    /\ Go(a, "giveUp")
    /\ UNCHANGED <<audio, row, server, keys, erased>>

-----------------------------------------------------------------------------
(* finalizeSuccessfulUpload: the file, then the row                         *)

Discard(a) ==
    /\ At(a, "discard")
    /\ audio' = FALSE
    /\ Go(a, "complete")
    /\ UNCHANGED <<row, server, keys, erased, faults>>

Complete(a) ==
    /\ At(a, "complete")
    /\ DeleteRow(a)
    /\ Finish(a, FALSE)
    /\ UNCHANGED <<audio, server, keys, erased, faults>>

LocalCleanupIgnored(a) ==                                           \* mutant
    /\ actor[a].pc \in {"discard", "complete"} /\ Fault
    /\ Go(a, "complete")
    /\ UNCHANGED <<audio, row, server, keys, erased>>

LocalCleanupFails(a) ==
    /\ actor[a].pc \in {"discard", "complete"} /\ Fault
    /\ Go(a, "keep")
    /\ UNCHANGED <<audio, row, server, keys, erased>>

KeepCompleted(a) ==                                                 \* mutant
    /\ At(a, "keep")
    /\ WriteRow(a, Stamped("completed"))
    /\ Finish(a, FALSE)
    /\ UNCHANGED <<audio, server, keys, erased, faults>>

Keep(a) ==
    /\ At(a, "keep")
    /\ WriteRow(a, Stamped("cleanupPending"))
    /\ Finish(a, FALSE)
    /\ UNCHANGED <<audio, server, keys, erased, faults>>

-----------------------------------------------------------------------------
(* recordUploadFailure                                                      *)

(* replaceUploadIdempotencyKey, whatever the key is now.                    *)
Rekey(a) ==
    /\ At(a, "rekey")
    /\ IF Holds(a)
       THEN /\ keys < MaxKeys
            /\ keys' = keys + 1
            /\ row' = Rekeyed(keys + 1)
       ELSE UNCHANGED <<row, keys>>
    /\ Go(a, "look")
    /\ UNCHANGED <<audio, server, erased, faults>>

Exhausted == row.retries + 1 >= MaxRetries

Look(a) ==
    /\ At(a, "look")
    /\ GoWith(a, "count", actor[a].id, actor[a].key, actor[a].seen, Holds(a) /\ Exhausted)
    /\ UNCHANGED <<audio, row, server, keys, erased, faults>>

(* incrementRetryCount reads the row ...                                    *)
Count(a) ==
    /\ At(a, "count")
    /\ \/ /\ Holds(a)
          /\ GoWith(a, "store", actor[a].id, actor[a].key, row.retries, actor[a].last)
       \/ /\ ~Holds(a) /\ actor[a].last
          /\ Go(a, "giveUp")
       \/ /\ ~Holds(a) /\ ~actor[a].last
          /\ Finish(a, TRUE)
    /\ UNCHANGED <<audio, row, server, keys, erased, faults>>

(* ... and writes the count it read plus one.                               *)
Store(a) ==
    /\ At(a, "store")
    /\ WriteRow(a, [Stamped("failed") EXCEPT !.retries = actor[a].seen + 1])
    /\ IF actor[a].last THEN Go(a, "giveUp") ELSE Finish(a, TRUE)
    /\ UNCHANGED <<audio, server, keys, erased, faults>>

(* markAsTerminalFailure                                                    *)
GiveUp(a) ==
    /\ At(a, "giveUp")
    /\ WriteRow(a, Stamped("terminalFailure"))
    /\ Finish(a, actor[a].last)
    /\ UNCHANGED <<audio, server, keys, erased, faults>>

-----------------------------------------------------------------------------
(* The owner, the server, the clock and the operating system                *)

(* deleteTerminalFailureRecording: look, delete the file, delete the row.   *)
AskErase(a) ==
    /\ a = Owner /\ At(a, "idle")
    /\ row.status = "terminalFailure"
    /\ GoWith(a, "erase", row.id, actor[a].key, actor[a].seen, actor[a].last)
    /\ UNCHANGED <<audio, row, server, keys, erased, faults>>

Erase(a) ==
    /\ At(a, "erase")
    /\ audio' = FALSE
    /\ erased' = TRUE
    /\ Go(a, "remove")
    /\ UNCHANGED <<row, server, keys, faults>>

Remove(a) ==
    /\ At(a, "remove")
    /\ DeleteRow(a)
    /\ Finish(a, FALSE)
    /\ UNCHANGED <<audio, server, keys, erased, faults>>

Succeed(k) ==
    /\ server[k] = "working"
    /\ server' = [server EXCEPT ![k] = "succeeded"]
    /\ UNCHANGED <<audio, row, actor, keys, erased, faults>>

(* failed: retryable by the client; invalid: the audio is no use; an open   *)
(* submission may be abandoned.                                             *)
JobFails(k) ==
    /\ Fault
    /\ \/ server[k] = "working" /\ server' \in {[server EXCEPT ![k] = s] : s \in {"failed", "invalid"}}
       \/ server[k] = "accepting" /\ server' = [server EXCEPT ![k] = "abandoned"]
    /\ UNCHANGED <<audio, row, actor, keys, erased>>

(* Ten minutes pass since the row was last written.  No request takes that  *)
(* long, an attempt of many requests may.                                   *)
Age ==
    /\ row.status = "uploading" /\ ~row.stale
    /\ row' = [row EXCEPT !.stale = TRUE]
    /\ UNCHANGED <<audio, actor, server, keys, erased, faults>>

(* The system stops a task, or the whole process.                           *)
Kill ==
    /\ Fault
    /\ \E S \in {{a} : a \in Isolates} \cup {Actors} :
          /\ \E a \in S : actor[a] # Idle
          /\ actor' = [a \in Actors |-> IF a \in S THEN Idle ELSE actor[a]]
    /\ UNCHANGED <<audio, row, server, keys, erased>>

-----------------------------------------------------------------------------
Step(a) ==
    \/ Restore(a) \/ Cleanup(a) \/ Reconcile(a) \/ LookUp(a) \/ Select(a)
    \/ Check(a) \/ Ensure(a) \/ Mark(a) \/ Load(a)
    \/ Read(a) \/ Open(a) \/ Push(a) \/ Finalize(a) \/ Poll(a) \/ Fetch(a)
    \/ Discard(a) \/ Complete(a) \/ Keep(a)
    \/ Rekey(a) \/ Look(a) \/ Count(a) \/ Store(a) \/ GiveUp(a)
    \/ Erase(a) \/ Remove(a)

Next ==
    \/ \E a \in Actors : \/ Step(a) \/ StartPass(a) \/ NoApiKey(a) \/ Retry(a) \/ AskErase(a)
                         \/ RequestFails(a) \/ RequestRejected(a) \/ LocalCleanupFails(a)
    \/ \E k \in Keys : Succeed(k) \/ JobFails(k)
    \/ Age
    \/ Kill

Spec == Init /\ [][Next]_vars

(* The periodic task starts passes again and again, and they go on; an      *)
(* attempt goes on because every request has a timeout and the server       *)
(* settles what it accepted; time passes.  Nothing is owed by the owner.    *)
Fairness ==
    /\ \A a \in Actors : WF_vars(Step(a))
    /\ \A a \in Isolates : WF_vars(StartPass(a))
    /\ \A k \in Keys : WF_vars(Succeed(k))
    /\ WF_vars(Age)

FairSpec == Spec /\ Fairness

-----------------------------------------------------------------------------
(* Types: the row, the actors' memories and the server's jobs keep theirs.  *)
TypeOK ==
    /\ audio \in BOOLEAN /\ erased \in BOOLEAN
    /\ row \in [status : Status, id : 0..MaxKeys, key : 0..MaxKeys, retries : Nat,
                stale : BOOLEAN]
    /\ actor \in [Actors -> [pc : Points, todo : Seq(Chores), id : 0..MaxKeys,
                             key : 0..MaxKeys, seen : Nat, last : BOOLEAN, again : BOOLEAN]]
    /\ server \in [Keys -> JobStatus]
    /\ keys \in 0..MaxKeys /\ faults \in 0..MaxFaults

Opened == {k \in Keys : server[k] # "none"}

(* The audio is deleted only when a job transcribed it, or its owner asked: *)
(* no race of attempts, cleanups and kills loses a recording.               *)
AudioKept == audio \/ erased \/ \E k \in Keys : server[k] = "succeeded"

(* The recording is submitted once, however many actors send it and however *)
(* often they are killed, unless a job of it failed and asked for a fresh   *)
(* key: no request failure, restart or reconciliation makes a second job.   *)
OneJobUnlessFailed ==
    (\A k \in Keys : server[k] \notin {"failed", "abandoned"}) => Cardinality(Opened) <= 1

(* A row leaves the queue only when its audio is gone, so a recording is    *)
(* never forgotten, and reconciliation never queues it under a second key.  *)
RowOutlivesAudio == [][row.status # "absent" /\ row'.status = "absent" => ~audio']_vars

(* Every recording is transcribed and deleted, or ends on the owner's list  *)
(* of failures (as long as the faults do not use up its retries).           *)
RecordingSettles == <>(~audio \/ row.status = "terminalFailure")

-----------------------------------------------------------------------------
(* What a test and a requirement say of the queue and the code does not     *)
(* keep.                                                                    *)

(* pending_uploads: exhausted retries become "a terminal failure for manual *)
(* recovery".  At rest no row is failed with no retry left, where no pass   *)
(* selects it and no list shows it.                                         *)
ExhaustedIsListed ==
    (\A a \in Actors : actor[a].pc \in {"idle", "error"}) =>
        ~(row.status = "failed" /\ row.retries >= MaxRetries)

(* "The client does not resubmit while the job is nonterminal": at most one *)
(* job of the recording is under way.                                       *)
OneJobUnderWay == Cardinality({k \in Keys : server[k] \in {"accepting", "working"}}) <= 1
=============================================================================
