----------------------------- MODULE ChunkSubmission -----------------------------
(***************************************************************************)
(* The audio of one submission: chunk pushes and finalize requests that    *)
(* write files and rows step by step, the worker that consumes the         *)
(* composed audio, and the retention cleanup that releases it.             *)
(*                                                                         *)
(* A storage call is one transaction, so one action; a file operation that *)
(* another request, a cleaner or a crash can come between is an action of  *)
(* its own.  A request is dropped at any await when its client goes away.  *)
(* A directory entry is durable only once its directory was synced: a      *)
(* power loss may keep or lose every entry that was not.                   *)
(***************************************************************************)
EXTENDS Integers, FiniteSets, Sequences

CONSTANTS
  Pusher,       \* chunk push requests, each made once
  Finalizer,    \* finalize requests, each made once
  Cleaner,      \* retention cleanups that may run at once
  AfterWork,    \* those of them a worker runs when it has settled the job
  ChunkCount,   \* the chunk_count of the submission
  Bytes,        \* chunk payloads, told apart by their SHA-256
  MaxUpdates,   \* bound: settings updates of a behaviour
  MaxErrors,    \* bound: storage and file errors of a behaviour
  MaxCrashes    \* bound: crashes of a behaviour

ASSUME SomeChunks == ChunkCount \in Nat \ {0}
ASSUME WorkersClean == AfterWork \subseteq Cleaner
ASSUME BoundsAreNumbers ==
  MaxUpdates \in Nat /\ MaxErrors \in Nat /\ MaxCrashes \in Nat

VARIABLES
  row,          \* the job row: status, composed hash, model, audio path present
  chunk,        \* chunk[i]: the row of chunk i
  files,        \* the directory tree as processes see it
  disk,         \* the directory tree as it was last synced
  push,         \* push[p]: a push request
  fin,          \* fin[f]: a finalize request
  cleaner,      \* cleaner[c]: a cleanup and the files it has still to release
  setting,      \* the transcription_model setting, told apart by its updates
  errors,       \* errors so far, capped by MaxErrors
  crashes       \* crashes so far, capped by MaxCrashes

vars == <<row, chunk, files, disk, push, fin, cleaner, setting, errors, crashes>>

-----------------------------------------------------------------------------
(* The directory of the job                                                *)

Index     == 1..ChunkCount                  \* chunk_index + 1
Accepted  == <<"accepted", "job">>          \* <job>/accepted.<fmt>, shared
Candidate(p) == <<"chunk", p>>              \* <job>/chunks/<index>.<ulid>.chunk
Temp(f)   == <<"temp", f>>                  \* <job>/.accepted.<ulid>.tmp
JobDir    == <<"dir", "job">>
ChunkDir  == <<"dir", "chunks">>

ChunkFile == {Candidate(p) : p \in Pusher}
AudioFile == ChunkFile \cup {Temp(f) : f \in Finalizer} \cup {Accepted}
Entry     == AudioFile \cup {JobDir, ChunkDir}
NoFile    == <<"none", "none">>

Within(e, dir) == CASE dir = ChunkDir -> e \in ChunkFile
                    [] dir = JobDir   -> e = ChunkDir \/ e \in AudioFile \ ChunkFile

(* Contents are sequences of payloads: one for a chunk, all for the whole. *)
Absent  == <<"absent">>
Empty   == << >>
Content == {Absent, Empty} \cup {<<b>> : b \in Bytes} \cup [Index -> Bytes]

With(tree, entry, content) == [tree EXCEPT ![entry] = content]
Without(tree, entry)       == [tree EXCEPT ![entry] = Absent]
WithDirs(tree, dirs) == [e \in Entry |-> IF e \in dirs THEN Empty ELSE tree[e]]

(* fsync of directories makes the entries in them what processes see.  The *)
(* root is synced with them, so the entry of the job directory is too.     *)
SyncedLeaf(dirs) ==                                                      \* mutant
  [e \in Entry |-> IF \E d \in dirs : Within(e, d) THEN files[e] ELSE disk[e]]
Synced(dirs) ==
  [e \in Entry |-> IF e = JobDir \/ \E d \in dirs : Within(e, d)
                     THEN files[e] ELSE disk[e]]

ParentSynced(file) ==
  LET d == IF file \in ChunkFile THEN ChunkDir ELSE JobDir IN
  IF files[d] = Absent THEN disk          \* the directory is gone already
    ELSE [e \in Entry |-> IF Within(e, d) THEN files[e] ELSE disk[e]]

(* What is in a directory that is not there is not reachable.              *)
Reachable(tree) ==
  LET missing(d) == tree[d] = Absent \/ tree[JobDir] = Absent IN
  [e \in Entry |-> IF \E d \in {JobDir, ChunkDir} : Within(e, d) /\ missing(d)
                     THEN Absent ELSE tree[e]]

(* A tree a power loss may leave: unsynced entries are kept or lost.       *)
Survivors ==
  {Reachable([e \in Entry |-> IF e \in lost THEN disk[e] ELSE files[e]]) :
     lost \in SUBSET {e \in Entry : disk[e] # files[e]}}

-----------------------------------------------------------------------------
(* Rows and requests                                                       *)

NoHash == << >>
NoBytes == "none"

ASSUME NoBytesIsNone == NoBytes \notin Bytes

Terminal == {"succeeded", "failed"}
Model    == 0..MaxUpdates       \* the model in force after that many updates

(* "queued" stands for queued, processing and retry_waiting.               *)
JobRow == [status : {"accepting_chunks", "queued"} \cup Terminal,
           hash   : {NoHash} \cup [Index -> Bytes],
           model  : Model,
           audio  : BOOLEAN]

ChunkRow == [hash : Bytes \cup {NoBytes}, file : ChunkFile \cup {NoFile},
             released : BOOLEAN]

PushRequest == [pc     : {"load", "look", "write", "sync", "store", "discard", "done"},
                index  : Index,
                bytes  : Bytes,
                answer : {"none", "204", "409", "500", "lost"}]

FinalizeRequest ==
  [pc     : {"list", "compose", "rename", "sync", "settings", "commit", "discard", "done"},
   model  : Model,
   answer : {"none", "200", "202", "409", "500", "lost"}]

Cleanup == [pc   : {"idle", "list", "unlink", "sync", "mark", "rmdir"},
            todo : UNION {[1..n -> AudioFile] : n \in 0..(ChunkCount + 1)}]

TypeOK ==
  /\ row \in JobRow
  /\ chunk \in [Index -> ChunkRow]
  /\ files \in [Entry -> Content] /\ disk \in [Entry -> Content]
  /\ push \in [Pusher -> PushRequest]
  /\ fin \in [Finalizer -> FinalizeRequest]
  /\ cleaner \in [Cleaner -> Cleanup]
  /\ setting \in Model
  /\ errors \in 0..MaxErrors /\ crashes \in 0..MaxCrashes

Init ==
  /\ setting \in Model
  /\ row = [status |-> "accepting_chunks", hash |-> NoHash, model |-> setting,
            audio |-> FALSE]
  /\ chunk = [i \in Index |-> [hash |-> NoBytes, file |-> NoFile, released |-> FALSE]]
  /\ files = [e \in Entry |-> Absent] /\ disk = files
  /\ push \in [Pusher -> [pc : {"load"}, index : Index, bytes : Bytes, answer : {"none"}]]
  /\ fin = [f \in Finalizer |-> [pc |-> "list", model |-> setting, answer |-> "none"]]
  /\ cleaner = [c \in Cleaner |-> [pc |-> "idle", todo |-> << >>]]
  /\ errors = 0 /\ crashes = 0

PushGoes(p, pc) == push' = [push EXCEPT ![p].pc = pc]
PushAt(p, pc, answer) ==
  [pc |-> pc, index |-> push[p].index, bytes |-> push[p].bytes, answer |-> answer]
PushAnswers(p, pc, answer) == push' = [push EXCEPT ![p] = PushAt(p, pc, answer)]
FinGoes(f, pc) == fin' = [fin EXCEPT ![f].pc = pc]
FinAt(pc, model, answer) == [pc |-> pc, model |-> model, answer |-> answer]
FinAnswers(f, pc, answer) ==
  fin' = [fin EXCEPT ![f] = FinAt(pc, fin[f].model, answer)]

Error == errors < MaxErrors /\ errors' = errors + 1

-----------------------------------------------------------------------------
(* push_chunk                                                              *)

PushUnchanged == UNCHANGED <<row, fin, cleaner, setting, crashes>>

PushLoad(p) ==
  /\ push[p].pc = "load"
  /\ IF row.status = "accepting_chunks" THEN PushGoes(p, "look")
                                        ELSE PushAnswers(p, "done", "409")
  /\ PushUnchanged /\ UNCHANGED <<chunk, files, disk, errors>>

PushLook(p) ==
  LET stored == chunk[push[p].index].hash IN
  /\ push[p].pc = "look"
  /\ IF stored = NoBytes THEN PushGoes(p, "write")
       ELSE PushAnswers(p, "done", IF stored = push[p].bytes THEN "204" ELSE "409")
  /\ PushUnchanged /\ UNCHANGED <<chunk, files, disk, errors>>

PushWrite(p) ==
  /\ push[p].pc = "write"
  /\ files' = With(WithDirs(files, {JobDir, ChunkDir}), Candidate(p), <<push[p].bytes>>)
  /\ PushGoes(p, "sync")
  /\ PushUnchanged /\ UNCHANGED <<chunk, disk, errors>>

PushSync(p) ==
  /\ push[p].pc = "sync"
  /\ disk' = Synced({JobDir, ChunkDir})
  /\ PushGoes(p, "store")
  /\ PushUnchanged /\ UNCHANGED <<chunk, files, errors>>

(* store_chunk: rechecks the status and lets the first payload win.        *)
PushStore(p) ==
  LET i == push[p].index IN
  /\ push[p].pc = "store"
  /\ \/ /\ row.status = "accepting_chunks" /\ chunk[i].hash = NoBytes
        /\ chunk' = [chunk EXCEPT ![i] = [hash |-> push[p].bytes,
                                          file |-> Candidate(p), released |-> FALSE]]
        /\ PushAnswers(p, "done", "204")
     \/ /\ row.status = "accepting_chunks" /\ chunk[i].hash # NoBytes
        /\ PushAnswers(p, "discard",
                       IF chunk[i].hash = push[p].bytes THEN "204" ELSE "409")
        /\ UNCHANGED chunk
     \/ /\ row.status # "accepting_chunks"
        /\ PushAnswers(p, "discard", "409")
        /\ UNCHANGED chunk
  /\ PushUnchanged /\ UNCHANGED <<files, disk, errors>>

PushDiscard(p) ==
  /\ push[p].pc = "discard"
  /\ files' = Without(files, Candidate(p))
  /\ PushGoes(p, "done")
  /\ PushUnchanged /\ UNCHANGED <<chunk, disk, errors>>

(* A failed read or file operation answers 500 and leaves the candidate, a *)
(* failed store_chunk discards it.                                         *)
PushFails(p) ==
  /\ push[p].pc \in {"load", "look", "write", "sync", "store"}
  /\ Error
  /\ PushAnswers(p, IF push[p].pc = "store" THEN "discard" ELSE "done", "500")
  /\ PushUnchanged /\ UNCHANGED <<chunk, files, disk>>

PushDropped(p) ==
  /\ push[p].pc # "done"
  /\ PushAnswers(p, "done", "lost")
  /\ PushUnchanged /\ UNCHANGED <<chunk, files, disk, errors>>

-----------------------------------------------------------------------------
(* finalize_transcription_job                                              *)

FinUnchanged == UNCHANGED <<chunk, push, cleaner, crashes>>

Composed == [i \in Index |-> chunk[i].hash]

ChunkSetComplete == \A i \in Index : chunk[i].hash # NoBytes

FinList(f) ==
  /\ fin[f].pc = "list"
  /\ CASE row.status # "accepting_chunks" ->
            FinAnswers(f, "done", IF row.hash # NoHash THEN "200" ELSE "409")
       [] row.status = "accepting_chunks" /\ ~ChunkSetComplete ->
            FinAnswers(f, "done", "409")
       [] OTHER -> FinGoes(f, "compose")
  /\ FinUnchanged /\ UNCHANGED <<row, files, disk, setting, errors>>

(* compose_chunks up to the rename; a chunk file that a cleanup removed    *)
(* since the listing fails the request and leaves the temporary file.      *)
FinCompose(f) ==
  LET here  == WithDirs(files, {JobDir})
      found == \A i \in Index : files[chunk[i].file] # Absent IN
  /\ fin[f].pc = "compose"
  /\ files' = With(here, Temp(f), IF found THEN Composed ELSE Empty)
  /\ IF found THEN FinGoes(f, "rename") ELSE FinAnswers(f, "done", "500")
  /\ FinUnchanged /\ UNCHANGED <<row, disk, setting, errors>>

FinRename(f) ==
  /\ fin[f].pc = "rename"
  /\ files' = Without(With(files, Accepted, files[Temp(f)]), Temp(f))
  /\ FinGoes(f, "sync")
  /\ FinUnchanged /\ UNCHANGED <<row, disk, setting, errors>>

(* The directory is gone when another finalize discarded the composed      *)
(* audio and a cleanup removed what that left empty.                       *)
FinSync(f) ==
  /\ fin[f].pc = "sync"
  /\ \/ /\ files[JobDir] # Absent
        /\ disk' = Synced({JobDir})
        /\ FinGoes(f, "settings")
     \/ /\ files[JobDir] = Absent
        /\ FinAnswers(f, "done", "500") /\ UNCHANGED disk
  /\ FinUnchanged /\ UNCHANGED <<row, files, setting, errors>>

FinSettings(f) ==
  /\ fin[f].pc = "settings"
  /\ fin' = [fin EXCEPT ![f] = FinAt("commit", setting, fin[f].answer)]
  /\ FinUnchanged /\ UNCHANGED <<row, files, disk, setting, errors>>

(* finalize_job: the second of two finalizes replays, whoever is second    *)
(* after an abandonment discards.  The chunk set cannot shrink.            *)
FinCommitAgain(f) ==                                                     \* mutant
  /\ fin[f].pc = "commit"
  /\ row' = [status |-> "queued", hash |-> Composed, model |-> fin[f].model,
             audio |-> TRUE]
  /\ FinAnswers(f, "done", "202")
  /\ FinUnchanged /\ UNCHANGED <<files, disk, setting, errors>>
FinCommitDiscardsReplay(f) ==                                            \* mutant
  /\ fin[f].pc = "commit"
  /\ IF row.status = "accepting_chunks"
       THEN /\ row' = [status |-> "queued", hash |-> Composed,
                       model |-> fin[f].model, audio |-> TRUE]
            /\ FinAnswers(f, "done", "202")
       ELSE FinAnswers(f, "discard", "200") /\ UNCHANGED row
  /\ FinUnchanged /\ UNCHANGED <<files, disk, setting, errors>>
FinCommit(f) ==
  /\ fin[f].pc = "commit"
  /\ \/ /\ row.status = "accepting_chunks"
        /\ row' = [status |-> "queued", hash |-> Composed, model |-> fin[f].model,
                   audio |-> TRUE]
        /\ FinAnswers(f, "done", "202")
     \/ /\ row.status # "accepting_chunks" /\ row.hash = Composed
        /\ FinAnswers(f, "done", "200") /\ UNCHANGED row
     \/ /\ row.status # "accepting_chunks" /\ row.hash # Composed
        /\ FinAnswers(f, "discard", "409") /\ UNCHANGED row
  /\ FinUnchanged /\ UNCHANGED <<files, disk, setting, errors>>

FinDiscard(f) ==
  /\ fin[f].pc = "discard"
  /\ files' = Without(files, Accepted)
  /\ FinGoes(f, "done")
  /\ FinUnchanged /\ UNCHANGED <<row, disk, setting, errors>>

(* Before the audio is composed an error leaves what is there; after, the  *)
(* handler discards the composed audio.                                    *)
FinFails(f) ==
  /\ fin[f].pc \in {"list", "compose", "rename", "sync", "settings", "commit"}
  /\ Error
  /\ FinAnswers(f, IF fin[f].pc \in {"settings", "commit"} THEN "discard" ELSE "done",
                "500")
  /\ FinUnchanged /\ UNCHANGED <<row, files, disk, setting>>

FinDropped(f) ==
  /\ fin[f].pc # "done"
  /\ FinAnswers(f, "done", "lost")
  /\ FinUnchanged /\ UNCHANGED <<row, files, disk, setting, errors>>

-----------------------------------------------------------------------------
(* Around the handlers: settings, the sweeper, the worker                  *)

UpdateSettings ==
  /\ setting < MaxUpdates
  /\ setting' = setting + 1
  /\ UNCHANGED <<row, chunk, files, disk, push, fin, cleaner, errors, crashes>>

Settle(status) ==
  /\ row' = [row EXCEPT !.status = status]
  /\ UNCHANGED <<chunk, files, disk, push, fin, cleaner, setting, errors, crashes>>

Abandon == row.status = "accepting_chunks" /\ Settle("failed")

(* The worker fails a job whose audio it cannot open, and otherwise ends   *)
(* it one way or the other.                                                *)
ProcessJob ==
  /\ row.status = "queued"
  /\ \E status \in Terminal :
       /\ files[Accepted] = Absent => status = "failed"
       /\ Settle(status)

-----------------------------------------------------------------------------
(* Retention cleanup                                                       *)

CleanUnchanged == UNCHANGED <<push, fin, setting, crashes>>

(* retained_audio_artifacts reads the composed audio and the chunks of a   *)
(* settled job in a transaction each.  An abandoned job has no hash, and   *)
(* no worker cleans up after it.                                           *)
AudioRow == IF row.audio THEN <<Accepted>> ELSE << >>
Nth(indices, n) == CHOOSE i \in indices : Cardinality({j \in indices : j <= i}) = n
ChunkRows(indices) == [n \in 1..Cardinality(indices) |-> chunk[Nth(indices, n)].file]
UnreleasedOrMissing == {i \in Index : ~chunk[i].released}                \* mutant
Unreleased == {i \in Index : chunk[i].file # NoFile /\ ~chunk[i].released}

IfComposed(listed) ==                                                    \* mutant
  IF row.status \in Terminal /\ row.audio THEN listed ELSE << >>
IfSettled(listed) == IF row.status \in Terminal THEN listed ELSE << >>

NextFile(c, pc, todo) == cleaner' = [cleaner EXCEPT ![c] = [pc |-> pc, todo |-> todo]]
Advance(c) == NextFile(c, IF Len(cleaner[c].todo) = 1 THEN "idle" ELSE "unlink",
                       Tail(cleaner[c].todo))

CleanList(c) ==
  /\ cleaner[c].pc = "idle"
  /\ c \in AfterWork => row.hash # NoHash
  /\ NextFile(c, "list", IfSettled(AudioRow))
  /\ CleanUnchanged /\ UNCHANGED <<row, chunk, files, disk, errors>>

CleanListChunks(c) ==
  LET todo == cleaner[c].todo \o IfSettled(ChunkRows(Unreleased)) IN
  /\ cleaner[c].pc = "list"
  /\ NextFile(c, IF todo = << >> THEN "idle" ELSE "unlink", todo)
  /\ CleanUnchanged /\ UNCHANGED <<row, chunk, files, disk, errors>>

CleanUnlink(c) ==
  /\ cleaner[c].pc = "unlink"
  /\ files' = Without(files, Head(cleaner[c].todo))
  /\ NextFile(c, "sync", cleaner[c].todo)
  /\ CleanUnchanged /\ UNCHANGED <<row, chunk, disk, errors>>

CleanSync(c) ==
  /\ cleaner[c].pc = "sync"
  /\ disk' = ParentSynced(Head(cleaner[c].todo))
  /\ NextFile(c, "mark", cleaner[c].todo)
  /\ CleanUnchanged /\ UNCHANGED <<row, chunk, files, errors>>

Recorded(file) == IF file = Accepted THEN row.audio
                    ELSE \E i \in Index : chunk[i].file = file /\ ~chunk[i].released

(* mark_retained_audio_artifact_released; only who clears the path goes on *)
(* to remove the directories it left empty.                                *)
CleanMark(c) ==
  LET file == Head(cleaner[c].todo) IN
  /\ cleaner[c].pc = "mark"
  /\ row' = [row EXCEPT !.audio = @ /\ file # Accepted]
  /\ chunk' = [i \in Index |-> [chunk[i] EXCEPT !.released = @ \/ chunk[i].file = file]]
  /\ IF Recorded(file) THEN NextFile(c, "rmdir", cleaner[c].todo) ELSE Advance(c)
  /\ CleanUnchanged /\ UNCHANGED <<files, disk, errors>>

(* cleanup_empty_parent_dirs, from the parent of the file upwards.         *)
CleanDirs(c) ==
  LET gone(tree, d) == \A e \in Entry : Within(e, d) => tree[e] = Absent
      swept(tree, d) == IF gone(tree, d) THEN Without(tree, d) ELSE tree
      inner == IF Head(cleaner[c].todo) \in ChunkFile THEN swept(files, ChunkDir)
                                                      ELSE files IN
  /\ cleaner[c].pc = "rmdir"
  /\ files' = swept(inner, JobDir)
  /\ Advance(c)
  /\ CleanUnchanged /\ UNCHANGED <<row, chunk, disk, errors>>

(* A release that fails goes on with the next file; a storage error ends   *)
(* the cleanup.  Either way a later one lists the file again.              *)
CleanFailsMarks(c) ==                                                    \* mutant
  /\ cleaner[c].pc \in {"list", "unlink", "sync", "mark"}
  /\ Error
  /\ IF cleaner[c].pc \in {"list", "mark"} THEN NextFile(c, "idle", << >>)
                                           ELSE NextFile(c, "mark", cleaner[c].todo)
  /\ CleanUnchanged /\ UNCHANGED <<row, chunk, files, disk>>
CleanFails(c) ==
  /\ cleaner[c].pc \in {"list", "unlink", "sync", "mark"}
  /\ Error
  /\ IF cleaner[c].pc \in {"list", "mark"} THEN NextFile(c, "idle", << >>)
                                           ELSE Advance(c)
  /\ CleanUnchanged /\ UNCHANGED <<row, chunk, files, disk>>

-----------------------------------------------------------------------------
(* The process dies, and with it every request and cleanup; the machine    *)
(* may have lost power.                                                    *)
Crash ==
  /\ crashes < MaxCrashes /\ crashes' = crashes + 1
  /\ \/ UNCHANGED <<files, disk>>
     \/ \E tree \in Survivors : files' = tree /\ disk' = tree
  /\ push' = [p \in Pusher |-> IF push[p].pc = "done" THEN push[p]
                                ELSE PushAt(p, "done", "lost")]
  /\ fin' = [f \in Finalizer |-> IF fin[f].pc = "done" THEN fin[f]
                                  ELSE FinAt("done", fin[f].model, "lost")]
  /\ cleaner' = [c \in Cleaner |-> [pc |-> "idle", todo |-> << >>]]
  /\ UNCHANGED <<row, chunk, setting, errors>>

PushStep(p) == \/ PushLoad(p) \/ PushLook(p) \/ PushWrite(p) \/ PushSync(p)
               \/ PushStore(p) \/ PushDiscard(p) \/ PushFails(p) \/ PushDropped(p)

FinalizeStep(f) == \/ FinList(f) \/ FinCompose(f) \/ FinRename(f) \/ FinSync(f)
                   \/ FinSettings(f) \/ FinCommit(f) \/ FinDiscard(f)
                   \/ FinFails(f) \/ FinDropped(f)

Release(c) == \/ CleanList(c) \/ CleanListChunks(c) \/ CleanUnlink(c)
              \/ CleanSync(c) \/ CleanMark(c) \/ CleanDirs(c)

Next == \/ \E p \in Pusher : PushStep(p)
        \/ \E f \in Finalizer : FinalizeStep(f)
        \/ \E c \in Cleaner : Release(c) \/ CleanFails(c)
        \/ UpdateSettings \/ Abandon \/ ProcessJob \/ Crash

Spec == Init /\ [][Next]_vars

(* The cleanup loop, the sweeper loop and the worker loop run forever.     *)
Fairness ==
  /\ \A c \in Cleaner \ AfterWork : WF_vars(Release(c))
  /\ WF_vars(ProcessJob) /\ WF_vars(Abandon)

FairSpec == Spec /\ Fairness

-----------------------------------------------------------------------------
(* What must hold                                                          *)

Holds(tree, file, content) == tree[file] = content

(* An accepted chunk is on disk, whole, until its job is settled: no lost, *)
(* repeated or conflicting push and no crash takes it away.                *)
ChunksKept ==
  row.status \notin Terminal =>
    \A i \in Index : chunk[i].hash # NoBytes =>
      /\ Holds(files, chunk[i].file, <<chunk[i].hash>>)
      /\ Holds(disk, chunk[i].file, <<chunk[i].hash>>)

(* An accepted job has its audio: the file the worker will read is durable *)
(* and is the composition the row's hash names.  No cleanup, replayed or   *)
(* dropped finalize and no crash takes it away before the job is settled.  *)
(* spec/backend-requirements.md: 202 is an acceptance that survives.       *)
AcceptedAudioKept ==
  row.status = "queued" =>
    /\ row.hash = Composed
    /\ Holds(files, Accepted, row.hash) /\ Holds(disk, Accepted, row.hash)

(* The same, whatever fails elsewhere, as long as no finalize request ends *)
(* in a 500: only there the handler discards audio another may have used.  *)
AudioKeptUnlessFinalizeFails ==
  (\A f \in Finalizer : fin[f].answer # "500") => AcceptedAudioKept

(* 204 means the chunk is stored with those bytes, for every client that   *)
(* got it; a finalize answered 200 or 202 has sealed the submission, and   *)
(* one request at most is told that it did.                                *)
AnswersAreKept ==
  /\ \A p \in Pusher : push[p].pc = "done" /\ push[p].answer = "204" =>
                          chunk[push[p].index].hash = push[p].bytes
  /\ \A f \in Finalizer : fin[f].answer \in {"200", "202"} =>
                          row.status # "accepting_chunks" /\ row.hash = Composed
  /\ Cardinality({f \in Finalizer : fin[f].answer = "202"}) <= 1

(* A chunk recorded as released is gone for good, power loss included.     *)
(* spec/backend-requirements.md, on deletion and retention; also the       *)
(* comment in sync_parent_after_entry_removal.                             *)
ReleasedChunksStayGone ==
  \A i \in Index : chunk[i].released =>
    Holds(files, chunk[i].file, Absent) /\ Holds(disk, chunk[i].file, Absent)

(* A chunk is recorded as released only when its file is gone, however     *)
(* many cleanups are at it, and nothing but a power loss brings the file   *)
(* of a released chunk back: no push, finalize or cleanup does.            *)
ReleasedAndBack(i) == chunk[i].released /\ files[chunk[i].file] # Absent
OnlyPowerLossUndoesRelease ==
  [][\A i \in Index : ReleasedAndBack(i)' => ReleasedAndBack(i) \/ crashes' > crashes]_vars

(* The audio that the rows of a settled job name is eventually released.   *)
SettledAudioIsReleased ==
  row.status \in Terminal ~>
    /\ ~row.audio
    /\ \A i \in Index : chunk[i].file # NoFile => chunk[i].released

(* Once a settled job's rows name no audio and nobody is at work on it, no *)
(* audio is left behind.  spec/backend-requirements.md: the backend must   *)
(* promptly delete the retained audio chunks and composed audio.           *)
NoAudioOutlivesItsJob ==
  /\ row.status \in Terminal /\ ~row.audio /\ Unreleased = {}
  /\ \A p \in Pusher : push[p].pc = "done"
  /\ \A f \in Finalizer : fin[f].pc = "done"
  => \A file \in AudioFile : Holds(files, file, Absent)

(* spec/backend-requirements.md: the selected model applies to every job   *)
(* that reaches queued after the update.                                   *)
CurrentModelIsCaptured ==
  [][row.status = "accepting_chunks" /\ row'.status = "queued"
       => row'.model = setting]_vars
=================================================================================
