------------------------- MODULE ChunkSubmission_proofs -------------------------
(***************************************************************************)
(* Proofs about ChunkSubmission, for any number of pushes, finalizes and   *)
(* cleanups, of chunks, errors and crashes.                                *)
(***************************************************************************)
EXTENDS ChunkSubmission, FiniteSetTheorems, TLAPS

Unsettled == row.status \notin Terminal

(* The shape of rows and requests, without the contents of files and the   *)
(* lists of cleanups.                                                      *)
Shapes ==
  /\ row \in [status : {"accepting_chunks", "queued"} \cup Terminal,
              hash : {NoHash} \cup [Index -> Bytes \cup {NoBytes}],
              model : Model, audio : BOOLEAN]
  /\ chunk \in [Index -> ChunkRow]
  /\ DOMAIN files = Entry /\ DOMAIN disk = Entry
  /\ push \in [Pusher -> PushRequest]
  /\ fin \in [Finalizer -> FinalizeRequest]
  /\ DOMAIN cleaner = Cleaner
  /\ setting \in Model

(* Before the job is settled a cleanup lists nothing.                      *)
Waits(cleanup) == cleanup.pc = "idle" \/ (cleanup.pc = "list" /\ cleanup.todo = << >>)

CleanersWait == Unsettled => \A c \in Cleaner : Waits(cleaner[c])

(* A row names the candidate of a push that is over.                       *)
StoredByPush ==
  \A i \in Index : chunk[i].hash # NoBytes =>
    \E p \in Pusher : chunk[i].file = Candidate(p) /\ push[p].pc = "done"

(* A file of these bytes that a power loss does not take, nor the          *)
(* directories it is in.                                                   *)
InTree(tree, file, bytes) ==
  tree[file] = <<bytes>> /\ tree[JobDir] # Absent /\ tree[ChunkDir] # Absent

StoredKept ==
  Unsettled => \A i \in Index : chunk[i].hash # NoBytes =>
    /\ InTree(files, chunk[i].file, chunk[i].hash)
    /\ InTree(disk, chunk[i].file, chunk[i].hash)

(* And so it is for a candidate that is about to be stored.                *)
WrittenKept ==
  Unsettled => \A p \in Pusher :
    /\ push[p].pc \in {"sync", "store"} => InTree(files, Candidate(p), push[p].bytes)
    /\ push[p].pc = "store" => InTree(disk, Candidate(p), push[p].bytes)

(* What was answered of a chunk and of a submission is what the rows say.  *)
PushesToldTruth ==
  \A p \in Pusher : push[p].answer = "204" => chunk[push[p].index].hash = push[p].bytes

FinalizesToldTruth ==
  /\ row.hash # NoHash => row.status # "accepting_chunks" /\ row.hash = Composed
  /\ \A f \in Finalizer : fin[f].answer \in {"200", "202"} =>
       row.status # "accepting_chunks" /\ row.hash = Composed
  /\ \A f, g \in Finalizer : fin[f].answer = "202" /\ fin[g].answer = "202" => f = g

Inv == /\ Shapes /\ CleanersWait /\ StoredByPush /\ StoredKept /\ WrittenKept
       /\ PushesToldTruth /\ FinalizesToldTruth

-----------------------------------------------------------------------------
(* Entries and trees                                                        *)

(* Candidates are told apart by their push, and from all other entries.     *)
LEMMA Entries ==
  /\ \A p \in Pusher : /\ Candidate(p) \in Entry /\ Candidate(p) \in ChunkFile
                       /\ Candidate(p) # Accepted /\ Candidate(p) # JobDir
                       /\ Candidate(p) # ChunkDir
                       /\ \A f \in Finalizer : Candidate(p) # Temp(f)
  /\ \A p, q \in Pusher : Candidate(p) = Candidate(q) => p = q
  /\ JobDir \in Entry /\ ChunkDir \in Entry /\ JobDir # ChunkDir
  /\ JobDir # Accepted /\ ChunkDir # Accepted
  /\ \A f \in Finalizer : Temp(f) \in Entry /\ JobDir # Temp(f) /\ ChunkDir # Temp(f)
  /\ Accepted \in Entry /\ Empty # Absent
  BY DEF Candidate, Entry, AudioFile, ChunkFile, Temp, Accepted, JobDir, ChunkDir, Empty, Absent

(* What is within which directory.                                          *)
LEMMA Withins ==
  /\ \A p \in Pusher : Within(Candidate(p), ChunkDir) /\ ~Within(Candidate(p), JobDir)
  /\ Within(ChunkDir, JobDir) /\ ~Within(ChunkDir, ChunkDir)
  /\ ~Within(JobDir, ChunkDir) /\ ~Within(JobDir, JobDir)
<1>1. ChunkDir # JobDir /\ ChunkDir \notin ChunkFile /\ JobDir \notin ChunkFile
  BY DEF ChunkDir, JobDir, ChunkFile, Candidate
<1>2. JobDir \notin AudioFile
  BY DEF JobDir, AudioFile, ChunkFile, Candidate, Temp, Accepted
<1>. QED
  BY <1>1, <1>2, Entries DEF Within

(* A sync of both directories makes all durable, one of the job directory   *)
(* all but the candidates.                                                  *)
LEMMA SyncedTrees ==
  /\ DOMAIN Synced({JobDir, ChunkDir}) = Entry /\ DOMAIN Synced({JobDir}) = Entry
  /\ \A p \in Pusher : /\ Synced({JobDir, ChunkDir})[Candidate(p)] = files[Candidate(p)]
                       /\ Synced({JobDir})[Candidate(p)] = disk[Candidate(p)]
  /\ \A d \in {JobDir, ChunkDir} : /\ Synced({JobDir, ChunkDir})[d] = files[d]
                                   /\ Synced({JobDir})[d] = files[d]
  BY Entries, Withins DEF Synced

(* A crash keeps what files and disk agree on, if they agree on the         *)
(* directories too.                                                         *)
LEMMA SurvivorsKeep ==
  ASSUME NEW tree \in Survivors
  PROVE  /\ DOMAIN tree = Entry
         /\ \A p \in Pusher : \A b : InTree(files, Candidate(p), b) /\ InTree(disk, Candidate(p), b)
              => InTree(tree, Candidate(p), b)
<1>1. PICK lost \in SUBSET {e \in Entry : disk[e] # files[e]} :
        tree = Reachable([e \in Entry |-> IF e \in lost THEN disk[e] ELSE files[e]])
  BY DEF Survivors
<1> DEFINE left == [e \in Entry |-> IF e \in lost THEN disk[e] ELSE files[e]]
<1>2. /\ DOMAIN left = Entry
      /\ \A e \in Entry : left[e] = disk[e] \/ left[e] = files[e]
  OBVIOUS
<1>3. /\ DOMAIN tree = Entry
      /\ \A e \in Entry : tree[e] = IF \E d \in {JobDir, ChunkDir} :
                                          Within(e, d) /\ (left[d] = Absent \/ left[JobDir] = Absent)
                                    THEN Absent ELSE left[e]
  BY <1>1 DEF Reachable
<1>. HIDE DEF left
<1>4. ASSUME NEW p \in Pusher, NEW b, InTree(files, Candidate(p), b), InTree(disk, Candidate(p), b)
      PROVE  InTree(tree, Candidate(p), b)
  <2>1. /\ left[JobDir] # Absent /\ left[ChunkDir] # Absent
        /\ left[Candidate(p)] = <<b>>
    BY <1>2, <1>4, Entries DEF InTree
  <2>. QED
    BY <1>3, <2>1, Entries DEF InTree
<1>. QED
  BY <1>3, <1>4

(* The process may die and the machine keep its power.                      *)
LEMMA CrashTrees ==
  ASSUME Crash
  PROVE  UNCHANGED <<files, disk>> \/ \E tree \in Survivors : files' = tree /\ disk' = tree
  BY DEF Crash

LEMMA CrashKeeps ==
  ASSUME DOMAIN files = Entry, DOMAIN disk = Entry, Crash
  PROVE  /\ DOMAIN files' = Entry /\ DOMAIN disk' = Entry
         /\ \A p \in Pusher : \A b : InTree(files, Candidate(p), b) /\ InTree(disk, Candidate(p), b)
              => InTree(files', Candidate(p), b) /\ InTree(disk', Candidate(p), b)
<1>1. CASE UNCHANGED <<files, disk>>
  BY <1>1
<1>2. CASE \E tree \in Survivors : files' = tree /\ disk' = tree
  BY <1>2, SurvivorsKeep
<1>. QED
  BY <1>1, <1>2, CrashTrees

-----------------------------------------------------------------------------
(* push_chunk                                                               *)

(* What one push does to the requests.                                      *)
LEMMA PushMoves ==
  ASSUME Shapes, NEW p \in Pusher, NEW pc \in {"load", "look", "write", "sync", "store", "discard", "done"},
         NEW answer \in {"none", "204", "409", "500", "lost"},
         PushAnswers(p, pc, answer) \/ (PushGoes(p, pc) /\ answer = push[p].answer)
  PROVE  /\ push' \in [Pusher -> PushRequest]
         /\ push'[p].pc = pc /\ push'[p].answer = answer
         /\ push'[p].index = push[p].index /\ push'[p].bytes = push[p].bytes
         /\ \A q \in Pusher : q # p => push'[q] = push[q]
<1>1. push \in [Pusher -> PushRequest] /\ push[p] \in PushRequest
  BY DEF Shapes
<1>2. CASE PushAnswers(p, pc, answer)
  <2>1. PushAt(p, pc, answer) \in PushRequest
    BY <1>1 DEF PushAt, PushRequest
  <2>. QED
    BY <1>1, <1>2, <2>1 DEF PushAnswers, PushAt
<1>3. CASE PushGoes(p, pc) /\ answer = push[p].answer
  <2>1. [push[p] EXCEPT !.pc = pc] \in PushRequest
    BY <1>1 DEF PushRequest
  <2>. QED
    BY <1>1, <1>3, <2>1 DEF PushGoes, PushRequest
<1>. QED
  BY <1>2, <1>3

(* A step of a push that touches no file and no row.                        *)
LEMMA PushTurns ==
  ASSUME Inv, NEW p \in Pusher, UNCHANGED <<row, chunk, files, disk, fin, cleaner, setting>>,
         push' \in [Pusher -> PushRequest], \A q \in Pusher : q # p => push'[q] = push[q],
         push'[p].pc \notin {"sync", "store"}, push[p].pc = "done" => push'[p].pc = "done",
         push'[p].index = push[p].index, push'[p].bytes = push[p].bytes,
         push'[p].answer = "204" => chunk[push[p].index].hash = push[p].bytes
  PROVE  Inv'
<1>1. Shapes' /\ CleanersWait' /\ FinalizesToldTruth'
  BY DEF Inv, Shapes, CleanersWait, Waits, Unsettled, FinalizesToldTruth, Composed
<1>2. StoredByPush' /\ PushesToldTruth'
  BY DEF Inv, StoredByPush, PushesToldTruth
<1>3. StoredKept' /\ WrittenKept'
  BY DEF Inv, StoredKept, WrittenKept, Unsettled, InTree
<1>. QED
  BY <1>1, <1>2, <1>3 DEF Inv

LEMMA PushReadsInv ==
  ASSUME Inv, NEW p \in Pusher, PushLoad(p) \/ PushLook(p) \/ PushFails(p) \/ PushDropped(p)
  PROVE  Inv'
<1>0. Shapes /\ push[p].answer \in {"none", "204", "409", "500", "lost"}
  BY DEF Inv, Shapes, PushRequest
<1>1. PICK pc \in {"look", "write", "discard", "done"}, answer \in {"none", "204", "409", "500", "lost"} :
        /\ PushAnswers(p, pc, answer) \/ (PushGoes(p, pc) /\ answer = push[p].answer)
        /\ push[p].pc # "done"
        /\ answer = "204" => answer = push[p].answer \/ chunk[push[p].index].hash = push[p].bytes
  <2>1. CASE PushLoad(p)
    BY <1>0, <2>1 DEF PushLoad
  <2>2. CASE PushLook(p)
    BY <1>0, <2>2 DEF PushLook
  <2>3. CASE PushFails(p)
    BY <2>3 DEF PushFails
  <2>4. CASE PushDropped(p)
    BY <2>4 DEF PushDropped
  <2>. QED
    BY <2>1, <2>2, <2>3, <2>4
<1>2. /\ push' \in [Pusher -> PushRequest]
      /\ push'[p].pc = pc /\ push'[p].answer = answer
      /\ push'[p].index = push[p].index /\ push'[p].bytes = push[p].bytes
      /\ \A q \in Pusher : q # p => push'[q] = push[q]
  BY <1>0, <1>1, PushMoves
<1>3. push'[p].answer = "204" => chunk[push[p].index].hash = push[p].bytes
  BY <1>1, <1>2 DEF Inv, PushesToldTruth
<1>4. UNCHANGED <<row, chunk, files, disk, fin, cleaner, setting>>
  BY DEF PushLoad, PushLook, PushFails, PushDropped, PushUnchanged
<1>. QED
  BY <1>1, <1>2, <1>3, <1>4, PushTurns

(* The candidate is written beside those that are stored.                   *)
LEMMA PushWriteInv ==
  ASSUME Inv, NEW p \in Pusher, PushWrite(p)
  PROVE  Inv'
<1>1. /\ push' \in [Pusher -> PushRequest]
      /\ push'[p].pc = "sync" /\ push'[p].answer = push[p].answer
      /\ push'[p].index = push[p].index /\ push'[p].bytes = push[p].bytes
      /\ \A q \in Pusher : q # p => push'[q] = push[q]
  BY PushMoves DEF PushWrite, Inv, Shapes, PushRequest
<1>2. UNCHANGED <<row, chunk, disk, fin, cleaner, setting>> /\ push[p].pc = "write"
  BY DEF PushWrite, PushUnchanged
<1>3. /\ DOMAIN files' = Entry /\ files'[Candidate(p)] = <<push[p].bytes>>
      /\ files'[JobDir] = Empty /\ files'[ChunkDir] = Empty
      /\ \A q \in Pusher : q # p => files'[Candidate(q)] = files[Candidate(q)]
  BY Entries DEF PushWrite, With, WithDirs
<1>4. Shapes' /\ CleanersWait' /\ FinalizesToldTruth' /\ PushesToldTruth'
  BY <1>1, <1>2, <1>3
     DEF Inv, Shapes, CleanersWait, Waits, Unsettled, FinalizesToldTruth, Composed, PushesToldTruth
<1>5. StoredByPush'
  BY <1>1, <1>2 DEF Inv, StoredByPush
<1>6. StoredKept'
  BY <1>2, <1>3, Entries DEF Inv, StoredKept, StoredByPush, Unsettled, InTree
<1>7. WrittenKept'
  BY <1>1, <1>2, <1>3, Entries DEF Inv, WrittenKept, Unsettled, InTree
<1>. QED
  BY <1>4, <1>5, <1>6, <1>7 DEF Inv

(* The sync makes every candidate durable.                                  *)
LEMMA PushSyncInv ==
  ASSUME Inv, NEW p \in Pusher, PushSync(p)
  PROVE  Inv'
<1>1. /\ push' \in [Pusher -> PushRequest]
      /\ push'[p].pc = "store" /\ push'[p].answer = push[p].answer
      /\ push'[p].index = push[p].index /\ push'[p].bytes = push[p].bytes
      /\ \A q \in Pusher : q # p => push'[q] = push[q]
  BY PushMoves DEF PushSync, Inv, Shapes, PushRequest
<1>2. UNCHANGED <<row, chunk, files, fin, cleaner, setting>> /\ push[p].pc = "sync"
  BY DEF PushSync, PushUnchanged
<1>3. /\ DOMAIN disk' = Entry
      /\ disk'[JobDir] = files[JobDir] /\ disk'[ChunkDir] = files[ChunkDir]
      /\ \A q \in Pusher : disk'[Candidate(q)] = files[Candidate(q)]
  BY SyncedTrees DEF PushSync
<1>4. Shapes' /\ CleanersWait' /\ FinalizesToldTruth' /\ PushesToldTruth'
  BY <1>1, <1>2, <1>3
     DEF Inv, Shapes, CleanersWait, Waits, Unsettled, FinalizesToldTruth, Composed, PushesToldTruth
<1>5. StoredByPush'
  BY <1>1, <1>2 DEF Inv, StoredByPush
<1>6. StoredKept'
  BY <1>2, <1>3 DEF Inv, StoredKept, StoredByPush, Unsettled, InTree
<1>7. WrittenKept'
  BY <1>1, <1>2, <1>3 DEF Inv, WrittenKept, Unsettled, InTree
<1>. QED
  BY <1>4, <1>5, <1>6, <1>7 DEF Inv

(* What is stored has been synced.                                          *)
LEMMA PushStoreInv ==
  ASSUME Inv, NEW p \in Pusher, PushStore(p)
  PROVE  Inv'
<1> DEFINE i == push[p].index
<1>0. Shapes /\ i \in Index /\ push[p].bytes \in Bytes /\ push[p].pc = "store"
  BY DEF Inv, Shapes, PushRequest, PushStore
<1>1. UNCHANGED <<row, files, disk, fin, cleaner, setting>>
  BY DEF PushStore, PushUnchanged
<1>2. CASE row.status = "accepting_chunks" /\ chunk[i].hash = NoBytes
  <2> DEFINE new == [hash |-> push[p].bytes, file |-> Candidate(p), released |-> FALSE]
  <2>1. /\ PushAnswers(p, "done", "204")
        /\ chunk' = [chunk EXCEPT ![i] = new]
    BY <1>2 DEF PushStore
  <2>2. /\ push' \in [Pusher -> PushRequest]
        /\ push'[p].pc = "done" /\ push'[p].answer = "204"
        /\ push'[p].index = i /\ push'[p].bytes = push[p].bytes
        /\ \A q \in Pusher : q # p => push'[q] = push[q]
    BY <1>0, <2>1, PushMoves
  <2>3. /\ chunk' \in [Index -> ChunkRow] /\ chunk'[i] = new
        /\ \A j \in Index : j # i => chunk'[j] = chunk[j]
    BY <1>0, <2>1, Entries DEF Shapes, ChunkRow
  <2>4. Shapes' /\ CleanersWait'
    BY <1>1, <2>2, <2>3 DEF Inv, Shapes, CleanersWait, Waits, Unsettled
  <2>5. FinalizesToldTruth'
    BY <1>1, <1>2 DEF Inv, FinalizesToldTruth
  <2>6. PushesToldTruth'
    <3>. SUFFICES ASSUME NEW q \in Pusher, push'[q].answer = "204"
                  PROVE  chunk'[push'[q].index].hash = push'[q].bytes
      BY DEF PushesToldTruth
    <3>1. CASE q = p
      BY <2>2, <2>3, <3>1
    <3>2. CASE q # p
      <4>1. push[q].bytes \in Bytes /\ push[q].index \in Index
        BY <1>0 DEF Shapes, PushRequest
      <4>2. chunk[push[q].index].hash = push[q].bytes
        BY <2>2, <3>2 DEF Inv, PushesToldTruth
      <4>3. push[q].index # i
        BY <1>2, <4>1, <4>2, NoBytesIsNone
      <4>. QED
        BY <2>2, <2>3, <3>2, <4>1, <4>2, <4>3
    <3>. QED
      BY <3>1, <3>2
  <2>7. StoredByPush'
    BY <1>0, <2>2, <2>3 DEF Inv, StoredByPush
  <2>8. StoredKept'
    <3>. SUFFICES ASSUME Unsettled', NEW j \in Index, chunk'[j].hash # NoBytes
                  PROVE  /\ InTree(files, chunk'[j].file, chunk'[j].hash)
                         /\ InTree(disk, chunk'[j].file, chunk'[j].hash)
      BY <1>1 DEF StoredKept, InTree
    <3>1. Unsettled
      BY <1>1 DEF Unsettled
    <3>2. CASE j = i
      BY <1>0, <2>3, <3>1, <3>2 DEF Inv, WrittenKept
    <3>3. CASE j # i
      BY <2>3, <3>1, <3>3 DEF Inv, StoredKept
    <3>. QED
      BY <3>2, <3>3
  <2>9. WrittenKept'
    BY <1>1, <2>2 DEF Inv, WrittenKept, Unsettled, InTree
  <2>. QED
    BY <2>4, <2>5, <2>6, <2>7, <2>8, <2>9 DEF Inv
<1>3. CASE ~(row.status = "accepting_chunks" /\ chunk[i].hash = NoBytes)
  <2>1. PICK answer \in {"204", "409"} :
          /\ PushAnswers(p, "discard", answer) /\ UNCHANGED chunk
          /\ answer = "204" => chunk[i].hash = push[p].bytes
    BY <1>3 DEF PushStore
  <2>2. /\ push' \in [Pusher -> PushRequest]
        /\ push'[p].pc = "discard" /\ push'[p].answer = answer
        /\ push'[p].index = i /\ push'[p].bytes = push[p].bytes
        /\ \A q \in Pusher : q # p => push'[q] = push[q]
    BY <1>0, <2>1, PushMoves
  <2>. QED
    BY <1>0, <1>1, <2>1, <2>2, PushTurns
<1>. QED
  BY <1>2, <1>3

(* What is discarded has not been stored.                                   *)
LEMMA PushDiscardInv ==
  ASSUME Inv, NEW p \in Pusher, PushDiscard(p)
  PROVE  Inv'
<1>1. /\ push' \in [Pusher -> PushRequest]
      /\ push'[p].pc = "done" /\ push'[p].answer = push[p].answer
      /\ push'[p].index = push[p].index /\ push'[p].bytes = push[p].bytes
      /\ \A q \in Pusher : q # p => push'[q] = push[q]
  BY PushMoves DEF PushDiscard, Inv, Shapes, PushRequest
<1>2. UNCHANGED <<row, chunk, disk, fin, cleaner, setting>> /\ push[p].pc = "discard"
  BY DEF PushDiscard, PushUnchanged
<1>3. /\ DOMAIN files' = Entry
      /\ files'[JobDir] = files[JobDir] /\ files'[ChunkDir] = files[ChunkDir]
      /\ \A q \in Pusher : q # p => files'[Candidate(q)] = files[Candidate(q)]
  BY Entries DEF PushDiscard, Without, Inv, Shapes
<1>4. Shapes' /\ CleanersWait' /\ FinalizesToldTruth' /\ PushesToldTruth'
  BY <1>1, <1>2, <1>3
     DEF Inv, Shapes, CleanersWait, Waits, Unsettled, FinalizesToldTruth, Composed, PushesToldTruth
<1>5. StoredByPush'
  BY <1>1, <1>2 DEF Inv, StoredByPush
<1>6. StoredKept'
  BY <1>2, <1>3, Entries DEF Inv, StoredKept, StoredByPush, Unsettled, InTree
<1>7. WrittenKept'
  BY <1>1, <1>2, <1>3 DEF Inv, WrittenKept, Unsettled, InTree
<1>. QED
  BY <1>4, <1>5, <1>6, <1>7 DEF Inv

-----------------------------------------------------------------------------
(* finalize_transcription_job                                               *)

LEMMA FinMoves ==
  ASSUME Shapes, NEW f \in Finalizer,
         NEW pc \in {"list", "compose", "rename", "sync", "settings", "commit", "discard", "done"},
         NEW answer \in {"none", "200", "202", "409", "500", "lost"}, NEW model \in Model,
         \/ fin' = [fin EXCEPT ![f] = FinAt(pc, model, answer)]
         \/ FinGoes(f, pc) /\ answer = fin[f].answer
  PROVE  /\ fin' \in [Finalizer -> FinalizeRequest]
         /\ fin'[f].pc = pc /\ fin'[f].answer = answer
         /\ \A g \in Finalizer : g # f => fin'[g] = fin[g]
<1>1. fin \in [Finalizer -> FinalizeRequest] /\ fin[f] \in FinalizeRequest
  BY DEF Shapes
<1>2. CASE fin' = [fin EXCEPT ![f] = FinAt(pc, model, answer)]
  <2>1. FinAt(pc, model, answer) \in FinalizeRequest
    BY <1>1 DEF FinAt, FinalizeRequest
  <2>. QED
    BY <1>1, <1>2, <2>1 DEF FinAt
<1>3. CASE FinGoes(f, pc) /\ answer = fin[f].answer
  <2>1. [fin[f] EXCEPT !.pc = pc] \in FinalizeRequest
    BY <1>1 DEF FinalizeRequest
  <2>. QED
    BY <1>1, <1>3, <2>1 DEF FinGoes, FinalizeRequest
<1>. QED
  BY <1>2, <1>3

(* A finalize disturbs neither candidates nor the directories they are in.  *)
LEMMA FinishesKeep ==
  ASSUME Inv, UNCHANGED <<chunk, push, cleaner, setting>>,
         row' \in [status : {"accepting_chunks", "queued"} \cup Terminal,
                   hash : {NoHash} \cup [Index -> Bytes \cup {NoBytes}],
                   model : Model, audio : BOOLEAN],
         row'.status \notin Terminal => Unsettled,
         DOMAIN files' = Entry, DOMAIN disk' = Entry,
         \A q \in Pusher : /\ files'[Candidate(q)] = files[Candidate(q)]
                           /\ disk'[Candidate(q)] = disk[Candidate(q)],
         \A d \in {JobDir, ChunkDir} :
            /\ files[d] # Absent => files'[d] # Absent
            /\ files[d] # Absent /\ disk[d] # Absent => disk'[d] # Absent,
         fin' \in [Finalizer -> FinalizeRequest], FinalizesToldTruth'
  PROVE  Inv'
<1>1. Shapes' /\ CleanersWait' /\ StoredByPush' /\ PushesToldTruth'
  BY DEF Inv, Shapes, CleanersWait, Waits, Unsettled, StoredByPush, PushesToldTruth
<1>2. \A q \in Pusher : \A b :
        /\ InTree(files, Candidate(q), b) => InTree(files', Candidate(q), b)
        /\ InTree(files, Candidate(q), b) /\ InTree(disk, Candidate(q), b)
             => InTree(disk', Candidate(q), b)
  BY DEF InTree
<1>3. StoredKept'
  <2>. SUFFICES ASSUME Unsettled', NEW i \in Index, chunk[i].hash # NoBytes
                PROVE  /\ InTree(files', chunk[i].file, chunk[i].hash)
                       /\ InTree(disk', chunk[i].file, chunk[i].hash)
    BY DEF StoredKept, InTree
  <2>1. PICK q \in Pusher : chunk[i].file = Candidate(q)
    BY DEF Inv, StoredByPush
  <2>2. Unsettled
    BY DEF Unsettled
  <2>. QED
    BY <1>2, <2>1, <2>2 DEF Inv, StoredKept
<1>4. WrittenKept'
  <2>. SUFFICES ASSUME Unsettled', NEW q \in Pusher
                PROVE  /\ push[q].pc \in {"sync", "store"} =>
                            InTree(files', Candidate(q), push[q].bytes)
                       /\ push[q].pc = "store" => InTree(disk', Candidate(q), push[q].bytes)
    BY DEF WrittenKept, InTree
  <2>1. Unsettled
    BY DEF Unsettled
  <2>. QED
    BY <1>2, <2>1 DEF Inv, WrittenKept
<1>. QED
  BY <1>1, <1>3, <1>4 DEF Inv

(* An answer that promises nothing, or what is so already.                  *)
LEMMA FinTells ==
  ASSUME Inv, NEW f \in Finalizer, UNCHANGED <<row, chunk>>,
         \A g \in Finalizer : g # f => fin'[g] = fin[g],
         \/ fin'[f].answer = fin[f].answer
         \/ fin'[f].answer \in {"409", "500", "lost"}
         \/ fin'[f].answer = "200" /\ row.status # "accepting_chunks" /\ row.hash = Composed
  PROVE  FinalizesToldTruth'
<1>1. Composed' = Composed
  BY DEF Composed
<1>2. \A g \in Finalizer : fin'[g].answer = "202" => fin[g].answer = "202"
  OBVIOUS
<1>3. \A g \in Finalizer : fin'[g].answer \in {"200", "202"} =>
        row.status # "accepting_chunks" /\ row.hash = Composed
  BY DEF Inv, FinalizesToldTruth
<1>. QED
  BY <1>1, <1>2, <1>3 DEF Inv, FinalizesToldTruth

(* The steps that touch neither files nor rows.                             *)
LEMMA FinReadsInv ==
  ASSUME Inv, NEW f \in Finalizer,
         FinList(f) \/ FinSettings(f) \/ FinFails(f) \/ FinDropped(f)
  PROVE  Inv'
<1>0. /\ Shapes /\ fin[f].answer \in {"none", "200", "202", "409", "500", "lost"}
      /\ fin[f].model \in Model /\ setting \in Model
  BY DEF Inv, Shapes, FinalizeRequest
<1>1. UNCHANGED <<row, chunk, push, cleaner, files, disk, setting>>
  BY DEF FinList, FinSettings, FinFails, FinDropped, FinUnchanged
<1>2. PICK pc \in {"compose", "commit", "discard", "done"},
           answer \in {"none", "200", "202", "409", "500", "lost"}, model \in Model :
        /\ \/ fin' = [fin EXCEPT ![f] = FinAt(pc, model, answer)]
           \/ FinGoes(f, pc) /\ answer = fin[f].answer
        /\ \/ answer = fin[f].answer \/ answer \in {"409", "500", "lost"}
           \/ answer = "200" /\ row.status # "accepting_chunks" /\ row.hash # NoHash
  <2>1. CASE FinList(f)
    BY <1>0, <2>1 DEF FinList, FinAnswers
  <2>2. CASE FinSettings(f)
    BY <1>0, <2>2 DEF FinSettings
  <2>3. CASE FinFails(f)
    BY <1>0, <2>3 DEF FinFails, FinAnswers
  <2>4. CASE FinDropped(f)
    BY <1>0, <2>4 DEF FinDropped, FinAnswers
  <2>. QED
    BY <2>1, <2>2, <2>3, <2>4
<1>3. /\ fin' \in [Finalizer -> FinalizeRequest] /\ fin'[f].answer = answer
      /\ \A g \in Finalizer : g # f => fin'[g] = fin[g]
  BY <1>0, <1>2, FinMoves
<1>4. FinalizesToldTruth'
  BY <1>1, <1>2, <1>3, FinTells DEF Inv, FinalizesToldTruth
<1>. QED
  BY <1>0, <1>1, <1>3, <1>4, FinishesKeep DEF Shapes, Unsettled

(* The steps that write the composed audio.                                 *)
LEMMA FinWritesInv ==
  ASSUME Inv, NEW f \in Finalizer,
         FinCompose(f) \/ FinRename(f) \/ FinSync(f) \/ FinDiscard(f)
  PROVE  Inv'
<1>0. /\ Shapes /\ fin[f].answer \in {"none", "200", "202", "409", "500", "lost"}
      /\ fin[f].model \in Model /\ DOMAIN files = Entry /\ DOMAIN disk = Entry
  BY DEF Inv, Shapes, FinalizeRequest
<1>1. UNCHANGED <<row, chunk, push, cleaner, setting>>
  BY DEF FinCompose, FinRename, FinSync, FinDiscard, FinUnchanged
<1>2. PICK pc \in {"rename", "sync", "settings", "done"},
           answer \in {"none", "200", "202", "409", "500", "lost"} :
        /\ \/ fin' = [fin EXCEPT ![f] = FinAt(pc, fin[f].model, answer)]
           \/ FinGoes(f, pc) /\ answer = fin[f].answer
        /\ answer = fin[f].answer \/ answer = "500"
  BY <1>0 DEF FinCompose, FinRename, FinSync, FinDiscard, FinAnswers
<1>3. /\ fin' \in [Finalizer -> FinalizeRequest] /\ fin'[f].answer = answer
      /\ \A g \in Finalizer : g # f => fin'[g] = fin[g]
  BY <1>0, <1>2, FinMoves
<1>4. FinalizesToldTruth'
  BY <1>1, <1>2, <1>3, FinTells
<1>5. /\ DOMAIN files' = Entry /\ DOMAIN disk' = Entry
      /\ \A q \in Pusher : /\ files'[Candidate(q)] = files[Candidate(q)]
                            /\ disk'[Candidate(q)] = disk[Candidate(q)]
      /\ \A d \in {JobDir, ChunkDir} :
            /\ files[d] # Absent => files'[d] # Absent
            /\ files[d] # Absent /\ disk[d] # Absent => disk'[d] # Absent
  <2>1. CASE FinCompose(f)
    <3>1. PICK content : files' = With(WithDirs(files, {JobDir}), Temp(f), content)
      BY <2>1 DEF FinCompose
    <3>. QED
      BY <1>0, <2>1, <3>1, Entries DEF FinCompose, With, WithDirs
  <2>2. CASE FinRename(f)
    BY <1>0, <2>2, Entries DEF FinRename, With, Without
  <2>3. CASE FinSync(f)
    BY <1>0, <2>3, SyncedTrees DEF FinSync
  <2>4. CASE FinDiscard(f)
    BY <1>0, <2>4, Entries DEF FinDiscard, Without
  <2>. QED
    BY <2>1, <2>2, <2>3, <2>4
<1>. QED
  BY <1>0, <1>1, <1>3, <1>4, <1>5, FinishesKeep DEF Shapes, Unsettled

(* The commit that seals the submission is the first to answer so.          *)
LEMMA FinCommitInv ==
  ASSUME Inv, NEW f \in Finalizer, FinCommit(f)
  PROVE  Inv'
<1>0. /\ Shapes /\ fin[f].model \in Model /\ DOMAIN files = Entry /\ DOMAIN disk = Entry
  BY DEF Inv, Shapes, FinalizeRequest
<1>1. UNCHANGED <<chunk, push, cleaner, setting, files, disk>>
  BY DEF FinCommit, FinUnchanged
<1>2. CASE row.status = "accepting_chunks" /\ FinAnswers(f, "done", "202")
           /\ row' = [status |-> "queued", hash |-> Composed, model |-> fin[f].model,
                      audio |-> TRUE]
  <2>1. /\ fin' \in [Finalizer -> FinalizeRequest] /\ fin'[f].answer = "202"
        /\ \A g \in Finalizer : g # f => fin'[g] = fin[g]
    BY <1>0, <1>2, FinMoves DEF FinAnswers
  <2>2. Composed \in [Index -> Bytes \cup {NoBytes}] /\ Composed' = Composed
    BY <1>0, <1>1 DEF Composed, Shapes, ChunkRow
  <2>3. row' \in [status : {"accepting_chunks", "queued"} \cup Terminal,
                  hash : {NoHash} \cup [Index -> Bytes \cup {NoBytes}],
                  model : Model, audio : BOOLEAN]
    BY <1>0, <1>2, <2>2
  <2>4. Unsettled
    BY <1>2 DEF Unsettled, Terminal
  <2>5. \A g \in Finalizer : fin[g].answer # "202"
    BY <1>2 DEF Inv, FinalizesToldTruth
  <2>6. FinalizesToldTruth'
    BY <1>2, <2>1, <2>2, <2>5 DEF FinalizesToldTruth
  <2>. QED
    BY <1>0, <1>1, <2>1, <2>3, <2>4, <2>6, FinishesKeep
<1>3. CASE UNCHANGED row
  <2>1. PICK pc \in {"done", "discard"}, answer \in {"200", "409"} :
          /\ FinAnswers(f, pc, answer)
          /\ answer = "200" => row.status # "accepting_chunks" /\ row.hash = Composed
    BY <1>2, <1>3 DEF FinCommit
  <2>2. /\ fin' \in [Finalizer -> FinalizeRequest] /\ fin'[f].answer = answer
        /\ \A g \in Finalizer : g # f => fin'[g] = fin[g]
    BY <1>0, <2>1, FinMoves DEF FinAnswers
  <2>3. FinalizesToldTruth'
    BY <1>1, <1>3, <2>1, <2>2, FinTells
  <2>. QED
    BY <1>0, <1>1, <1>3, <2>2, <2>3, FinishesKeep DEF Shapes, Unsettled
<1>. QED
  BY <1>2, <1>3 DEF FinCommit

-----------------------------------------------------------------------------
(* Retention cleanup and the rest                                           *)

(* A cleanup at work says that the job is settled: of files it may take     *)
(* any, of rows it changes only what names the audio.                       *)
LEMMA CleanupKeeps ==
  ASSUME Inv, ~Unsettled, UNCHANGED <<push, fin, setting>>,
         row' \in [status : {"accepting_chunks", "queued"} \cup Terminal,
                   hash : {NoHash} \cup [Index -> Bytes \cup {NoBytes}],
                   model : Model, audio : BOOLEAN],
         row'.status = row.status, row'.hash = row.hash,
         chunk' \in [Index -> ChunkRow],
         \A i \in Index : chunk'[i].hash = chunk[i].hash /\ chunk'[i].file = chunk[i].file,
         DOMAIN files' = Entry, DOMAIN disk' = Entry, DOMAIN cleaner' = Cleaner
  PROVE  Inv'
<1>1. Shapes'
  BY DEF Inv, Shapes
<1>2. CleanersWait' /\ StoredKept' /\ WrittenKept'
  BY DEF CleanersWait, Waits, StoredKept, WrittenKept, Unsettled
<1>3. StoredByPush'
  BY DEF Inv, StoredByPush
<1>4. PushesToldTruth'
  BY DEF Inv, PushesToldTruth, Shapes, PushRequest
<1>5. FinalizesToldTruth'
  <2>1. Composed' = Composed
    BY DEF Composed
  <2>. QED
    BY <2>1 DEF Inv, FinalizesToldTruth
<1>. QED
  BY <1>1, <1>2, <1>3, <1>4, <1>5 DEF Inv

(* Before the job is settled a cleanup finds nothing to release.            *)
LEMMA CleanListInv ==
  ASSUME Inv, NEW c \in Cleaner,
         CleanList(c) \/ CleanListChunks(c) \/ (CleanFails(c) /\ cleaner[c].pc = "list")
  PROVE  Inv'
<1>1. UNCHANGED <<row, chunk, files, disk, push, fin, setting>>
  BY DEF CleanList, CleanListChunks, CleanFails, CleanUnchanged
<1>2. PICK pc, todo : /\ cleaner' = [cleaner EXCEPT ![c] = [pc |-> pc, todo |-> todo]]
                      /\ Unsettled => pc \in {"idle", "list"} /\ todo = << >>
  <2>1. CASE CleanList(c)
    BY <2>1 DEF CleanList, NextFile, IfSettled, Unsettled
  <2>2. CASE CleanListChunks(c)
    <3>1. PICK todo : /\ todo = cleaner[c].todo \o IfSettled(ChunkRows(Unreleased))
                      /\ NextFile(c, IF todo = << >> THEN "idle" ELSE "unlink", todo)
      BY <2>2 DEF CleanListChunks
    <3>2. Unsettled => todo = << >>
      <4>1. Unsettled => cleaner[c].todo = << >> /\ IfSettled(ChunkRows(Unreleased)) = << >>
        BY <2>2 DEF CleanListChunks, Inv, CleanersWait, Waits, IfSettled, Unsettled
      <4>2. << >> \o << >> = << >>
        OBVIOUS
      <4>. QED
        BY <3>1, <4>1, <4>2
    <3>. QED
      BY <3>1, <3>2 DEF NextFile
  <2>3. CASE CleanFails(c) /\ cleaner[c].pc = "list"
    BY <2>3 DEF CleanFails, NextFile
  <2>. QED
    BY <2>1, <2>2, <2>3
<1>3. DOMAIN cleaner' = Cleaner
  BY <1>2 DEF Inv, Shapes
<1>4. CASE Unsettled
  <2>1. \A d \in Cleaner : Waits(cleaner'[d])
    BY <1>2, <1>4 DEF Inv, CleanersWait, Waits, Shapes
  <2>2. Shapes' /\ CleanersWait'
    BY <1>1, <1>3, <2>1 DEF Inv, Shapes, CleanersWait, Waits
  <2>. QED
    BY <1>1, <2>2 DEF Inv, StoredByPush, StoredKept, WrittenKept, PushesToldTruth,
                      FinalizesToldTruth, Composed, Unsettled, InTree
<1>5. CASE ~Unsettled
  BY <1>1, <1>3, <1>5, CleanupKeeps DEF Inv, Shapes
<1>. QED
  BY <1>4, <1>5

LEMMA CleanStepsInv ==
  ASSUME Inv, NEW c \in Cleaner,
         \/ CleanUnlink(c) \/ CleanSync(c) \/ CleanMark(c) \/ CleanDirs(c)
         \/ CleanFails(c) /\ cleaner[c].pc # "list"
  PROVE  Inv'
<1>0. /\ DOMAIN files = Entry /\ DOMAIN disk = Entry /\ DOMAIN cleaner = Cleaner
      /\ chunk \in [Index -> ChunkRow]
  BY DEF Inv, Shapes
<1>1. ~Unsettled
  BY DEF Inv, CleanersWait, Waits, CleanUnlink, CleanSync, CleanMark, CleanDirs, CleanFails
<1>2. UNCHANGED <<push, fin, setting>>
  BY DEF CleanUnlink, CleanSync, CleanMark, CleanDirs, CleanFails, CleanUnchanged
<1>3. DOMAIN cleaner' = Cleaner
  BY <1>0 DEF CleanUnlink, CleanSync, CleanMark, CleanDirs, CleanFails, NextFile, Advance
<1>4. DOMAIN files' = Entry
  BY <1>0 DEF CleanUnlink, CleanSync, CleanMark, CleanDirs, CleanFails, Without
<1>5. DOMAIN disk' = Entry
  BY <1>0 DEF CleanUnlink, CleanSync, CleanMark, CleanDirs, CleanFails, ParentSynced
<1>6. CASE CleanMark(c)
  <2> DEFINE file == Head(cleaner[c].todo)
  <2>1. row' = [row EXCEPT !.audio = @ /\ file # Accepted]
    BY <1>6 DEF CleanMark
  <2>2. chunk' = [i \in Index |-> [chunk[i] EXCEPT !.released = @ \/ chunk[i].file = file]]
    BY <1>6 DEF CleanMark
  <2>. HIDE DEF file
  <2>3. /\ row' \in [status : {"accepting_chunks", "queued"} \cup Terminal,
                     hash : {NoHash} \cup [Index -> Bytes \cup {NoBytes}],
                     model : Model, audio : BOOLEAN]
        /\ row'.status = row.status /\ row'.hash = row.hash
    BY <2>1 DEF Inv, Shapes
  <2>4. \A i \in Index : [chunk[i] EXCEPT !.released = @ \/ chunk[i].file = file] \in ChunkRow
    BY <1>0 DEF ChunkRow
  <2>5. /\ chunk' \in [Index -> ChunkRow]
        /\ \A i \in Index : chunk'[i].hash = chunk[i].hash /\ chunk'[i].file = chunk[i].file
    BY <1>0, <2>2, <2>4 DEF ChunkRow
  <2>. QED
    BY <1>1, <1>2, <1>3, <1>4, <1>5, <2>3, <2>5, CleanupKeeps
<1>7. CASE ~CleanMark(c)
  <2>1. UNCHANGED <<row, chunk>>
    BY <1>7 DEF CleanUnlink, CleanSync, CleanDirs, CleanFails
  <2>. QED
    BY <1>1, <1>2, <1>3, <1>4, <1>5, <2>1, CleanupKeeps DEF Inv, Shapes
<1>. QED
  BY <1>6, <1>7

(* A job is settled, and nothing need be kept for it.                       *)
LEMMA SettleInv ==
  ASSUME Inv, NEW status \in Terminal, Settle(status),
         row.status \in {"accepting_chunks", "queued"}
  PROVE  Inv'
<1>1. UNCHANGED <<chunk, files, disk, push, fin, cleaner, setting>>
  BY DEF Settle
<1>2. /\ row' \in [status : {"accepting_chunks", "queued"} \cup Terminal,
                   hash : {NoHash} \cup [Index -> Bytes \cup {NoBytes}],
                   model : Model, audio : BOOLEAN]
      /\ row'.status = status /\ row'.hash = row.hash
  BY DEF Settle, Inv, Shapes
<1>3. Shapes'
  BY <1>1, <1>2 DEF Inv, Shapes
<1>4. CleanersWait' /\ StoredKept' /\ WrittenKept'
  BY <1>2 DEF CleanersWait, Waits, StoredKept, WrittenKept, Unsettled
<1>5. StoredByPush' /\ PushesToldTruth'
  BY <1>1 DEF Inv, StoredByPush, PushesToldTruth
<1>6. FinalizesToldTruth'
  BY <1>1, <1>2 DEF Inv, FinalizesToldTruth, Composed, Terminal
<1>. QED
  BY <1>3, <1>4, <1>5, <1>6 DEF Inv

LEMMA UpdateSettingsInv ==
  ASSUME Inv, UpdateSettings
  PROVE  Inv'
<1>1. UNCHANGED <<row, chunk, files, disk, push, fin, cleaner>> /\ setting' \in Model
  BY BoundsAreNumbers DEF UpdateSettings, Model, Inv, Shapes
<1>. QED
  BY <1>1 DEF Inv, Shapes, CleanersWait, Waits, StoredByPush, StoredKept, WrittenKept,
              PushesToldTruth, FinalizesToldTruth, Composed, Unsettled, InTree

(* What is stored outlives a power loss: files and disk agree on it.        *)
LEMMA CrashInv ==
  ASSUME Inv, Crash
  PROVE  Inv'
<1>1. /\ DOMAIN files' = Entry /\ DOMAIN disk' = Entry
      /\ \A p \in Pusher : \A b : InTree(files, Candidate(p), b) /\ InTree(disk, Candidate(p), b)
           => InTree(files', Candidate(p), b) /\ InTree(disk', Candidate(p), b)
  BY CrashKeeps DEF Inv, Shapes
<1>2. UNCHANGED <<row, chunk, setting>> /\ Shapes
  BY DEF Crash, Inv
<1>3. /\ push' \in [Pusher -> PushRequest]
      /\ \A p \in Pusher :
           /\ push'[p].pc = "done"
           /\ push'[p].index = push[p].index /\ push'[p].bytes = push[p].bytes
           /\ push'[p].answer = push[p].answer \/ push'[p].answer = "lost"
  <2>1. \A p \in Pusher : push[p] \in PushRequest /\ PushAt(p, "done", "lost") \in PushRequest
    BY <1>2 DEF Shapes, PushAt, PushRequest
  <2>2. push' = [p \in Pusher |-> IF push[p].pc = "done" THEN push[p]
                                    ELSE PushAt(p, "done", "lost")]
    BY DEF Crash
  <2>. QED
    BY <2>1, <2>2 DEF PushAt
<1>4. /\ fin' \in [Finalizer -> FinalizeRequest]
      /\ \A f \in Finalizer : fin'[f].answer = fin[f].answer \/ fin'[f].answer = "lost"
  <2>1. \A f \in Finalizer : /\ fin[f] \in FinalizeRequest
                             /\ FinAt("done", fin[f].model, "lost") \in FinalizeRequest
    BY <1>2 DEF Shapes, FinAt, FinalizeRequest
  <2>2. fin' = [f \in Finalizer |-> IF fin[f].pc = "done" THEN fin[f]
                                      ELSE FinAt("done", fin[f].model, "lost")]
    BY DEF Crash
  <2>. QED
    BY <2>1, <2>2 DEF FinAt
<1>5. DOMAIN cleaner' = Cleaner /\ CleanersWait'
  BY DEF Crash, CleanersWait, Waits
<1>6. Shapes'
  BY <1>1, <1>2, <1>3, <1>4, <1>5 DEF Shapes
<1>7. StoredByPush' /\ PushesToldTruth' /\ WrittenKept'
  BY <1>2, <1>3 DEF Inv, StoredByPush, PushesToldTruth, WrittenKept
<1>8. StoredKept'
  <2>. SUFFICES ASSUME Unsettled', NEW i \in Index, chunk[i].hash # NoBytes
                PROVE  /\ InTree(files', chunk[i].file, chunk[i].hash)
                       /\ InTree(disk', chunk[i].file, chunk[i].hash)
    BY <1>2 DEF StoredKept, InTree
  <2>1. PICK q \in Pusher : chunk[i].file = Candidate(q)
    BY DEF Inv, StoredByPush
  <2>2. /\ InTree(files, Candidate(q), chunk[i].hash)
        /\ InTree(disk, Candidate(q), chunk[i].hash)
    BY <1>2, <2>1 DEF Inv, StoredKept, Unsettled
  <2>. QED
    BY <1>1, <2>1, <2>2
<1>9. FinalizesToldTruth'
  BY <1>2, <1>4 DEF Inv, FinalizesToldTruth, Composed
<1>. QED
  BY <1>5, <1>6, <1>7, <1>8, <1>9 DEF Inv

-----------------------------------------------------------------------------
(* The theorems                                                             *)

LEMMA InitInv == Init => Inv
<1>. SUFFICES ASSUME Init PROVE Inv
  OBVIOUS
<1>1. /\ push \in [Pusher -> PushRequest]
      /\ \A p \in Pusher : push[p].pc = "load" /\ push[p].answer = "none"
  BY DEF Init, PushRequest
<1>2. /\ fin \in [Finalizer -> FinalizeRequest]
      /\ \A f \in Finalizer : fin[f].answer = "none"
  BY DEF Init, FinalizeRequest
<1>3. /\ chunk \in [Index -> ChunkRow]
      /\ \A i \in Index : chunk[i].hash = NoBytes
  BY DEF Init, ChunkRow
<1>4. Shapes
  BY <1>1, <1>2, <1>3 DEF Init, Shapes
<1>5. CleanersWait
  BY DEF Init, CleanersWait, Waits
<1>6. StoredByPush /\ StoredKept /\ WrittenKept /\ PushesToldTruth
  BY <1>1, <1>3 DEF StoredByPush, StoredKept, WrittenKept, PushesToldTruth
<1>7. FinalizesToldTruth
  BY <1>2 DEF Init, FinalizesToldTruth
<1>. QED
  BY <1>4, <1>5, <1>6, <1>7 DEF Inv

LEMMA NextInv == Inv /\ [Next]_vars => Inv'
<1>. SUFFICES ASSUME Inv, [Next]_vars PROVE Inv'
  OBVIOUS
<1>1. CASE \E p \in Pusher : PushStep(p)
  BY <1>1, PushReadsInv, PushWriteInv, PushSyncInv, PushStoreInv, PushDiscardInv DEF PushStep
<1>2. CASE \E f \in Finalizer : FinalizeStep(f)
  BY <1>2, FinReadsInv, FinWritesInv, FinCommitInv DEF FinalizeStep
<1>3. CASE \E c \in Cleaner : Release(c) \/ CleanFails(c)
  BY <1>3, CleanListInv, CleanStepsInv DEF Release
<1>4. CASE UpdateSettings
  BY <1>4, UpdateSettingsInv
<1>5. CASE Abandon \/ ProcessJob
  BY <1>5, SettleInv DEF Abandon, ProcessJob, Terminal
<1>6. CASE Crash
  BY <1>6, CrashInv
<1>7. CASE UNCHANGED vars
  BY <1>7 DEF vars, Inv, Shapes, CleanersWait, Waits, StoredByPush, StoredKept, WrittenKept,
              PushesToldTruth, FinalizesToldTruth, Composed, Unsettled, InTree
<1>. QED
  BY <1>1, <1>2, <1>3, <1>4, <1>5, <1>6, <1>7 DEF Next

(* The invariant holds throughout: rows have their shape, what is stored is *)
(* durable until the job is settled, answers agree with the rows.           *)
THEOREM Invariance == Spec => []Inv
  BY InitInv, NextInv, PTL DEF Spec

(* An accepted chunk is on disk, whole, until its job is settled, whatever  *)
(* pushes, finalizes, cleanups and power losses do in between: what         *)
(* push_chunk and cleanup_retained_audio rely on.                           *)
THEOREM ChunksAreKept == Spec => []ChunksKept
<1>1. Inv => ChunksKept
  BY DEF Inv, StoredKept, InTree, ChunksKept, Holds, Unsettled
<1>. QED
  BY <1>1, Invariance, PTL

(* A 204 means stored, a 200 or 202 means sealed, and one finalize at most  *)
(* is told that it sealed the submission: push_chunk and                    *)
(* finalize_transcription_job.                                              *)
THEOREM AnswersAreTrue == Spec => []AnswersAreKept
<1>1. Inv => AnswersAreKept
  <2>. SUFFICES ASSUME Inv PROVE AnswersAreKept
    OBVIOUS
  <2> DEFINE told == {f \in Finalizer : fin[f].answer = "202"}
  <2>1. \A f, g \in told : f = g
    BY DEF Inv, FinalizesToldTruth
  <2>2. Cardinality(told) <= 1
    <3>1. CASE told = {}
      BY <3>1, FS_EmptySet
    <3>2. CASE told # {}
      <4>1. PICK f \in told : TRUE
        BY <3>2
      <4>2. told = {f}
        BY <2>1, <4>1
      <4>3. Cardinality({f}) = 1
        BY FS_Singleton
      <4>. QED
        BY <4>2, <4>3
    <3>. QED
      BY <3>1, <3>2
  <2>. QED
    BY <2>2 DEF Inv, PushesToldTruth, FinalizesToldTruth, AnswersAreKept
<1>. QED
  BY <1>1, Invariance, PTL

-----------------------------------------------------------------------------
(* The composed audio, while no finalize ends in an error                   *)

(* The composition of the chunks, in a directory that is there.             *)
Whole(tree, file) == tree[file] = Composed /\ tree[JobDir] # Absent

(* A finalize past its listing found every chunk, and what it has written   *)
(* so far is the composition; who discards does so for a settled job, or    *)
(* after an error.                                                          *)
Listed == {"compose", "rename", "sync", "settings", "commit"}

PointKept(f) ==
  /\ fin[f].pc \in Listed => ChunkSetComplete
  /\ fin[f].pc = "discard" /\ Unsettled => fin[f].answer = "500"
  /\ Unsettled =>
       /\ fin[f].pc = "rename" => Whole(files, Temp(f))
       /\ fin[f].pc \in {"sync", "settings", "commit"} => Whole(files, Accepted)
       /\ fin[f].pc \in {"settings", "commit"} => Whole(disk, Accepted)

QueuedKept ==
  row.status = "queued" =>
    row.hash = Composed /\ Whole(files, Accepted) /\ Whole(disk, Accepted)

Kept == QueuedKept /\ \A f \in Finalizer : PointKept(f)

(* A finalize is over and ended in an error, and may have discarded.        *)
Spoilt == \E f \in Finalizer : fin[f].pc = "done" /\ fin[f].answer = "500"

ComposedInv == Spoilt \/ Kept

(* Temporary files are told apart by their finalize, and lie with the       *)
(* accepted audio in the job directory.                                     *)
LEMMA ComposedEntries ==
  /\ \A f, g \in Finalizer : Temp(f) = Temp(g) => f = g
  /\ \A f \in Finalizer : Temp(f) \in Entry /\ Temp(f) # Accepted /\ Temp(f) # JobDir
  /\ Within(Accepted, JobDir) /\ ~Within(Accepted, ChunkDir) /\ Accepted # JobDir
<1>1. Accepted \in AudioFile \ ChunkFile /\ JobDir # ChunkDir /\ Accepted # ChunkDir
  BY DEF Accepted, AudioFile, ChunkFile, Candidate, JobDir, ChunkDir
<1>2. Within(Accepted, JobDir) /\ ~Within(Accepted, ChunkDir)
  BY <1>1 DEF Within
<1>. QED
  BY <1>2 DEF Temp, Entry, AudioFile, Accepted, JobDir

(* Either sync makes the accepted audio durable, directory included.        *)
LEMMA SyncedAudio ==
  ASSUME NEW dirs \in {{JobDir}, {JobDir, ChunkDir}}
  PROVE  /\ Synced(dirs)[Accepted] = files[Accepted]
         /\ Synced(dirs)[JobDir] = files[JobDir]
  BY ComposedEntries, Entries DEF Synced

(* A step beside the finalizes that leaves what they wrote as it was.       *)
LEMMA BesidesKeep ==
  ASSUME Kept, UNCHANGED <<row, fin>>,
         ChunkSetComplete => Composed' = Composed /\ ChunkSetComplete',
         row.status = "queued" => Composed' = Composed,
         Unsettled => \A e \in {Accepted} \cup {Temp(f) : f \in Finalizer} :
            /\ files'[e] = files[e] /\ (files[JobDir] # Absent => files'[JobDir] # Absent)
            /\ \/ disk'[Accepted] = disk[Accepted] /\ disk'[JobDir] = disk[JobDir]
               \/ disk'[Accepted] = files[Accepted] /\ disk'[JobDir] = files[JobDir]
  PROVE  Kept'
<1>1. QueuedKept'
  BY DEF Kept, QueuedKept, Whole, Unsettled, Terminal
<1>2. ASSUME NEW f \in Finalizer PROVE PointKept(f)'
  <2>1. PointKept(f) /\ Temp(f) \in {Temp(g) : g \in Finalizer}
    BY DEF Kept
  <2>2. Unsettled' = Unsettled
    BY DEF Unsettled
  <2>. QED
    BY <2>1, <2>2 DEF PointKept, Listed, Whole
<1>. QED
  BY <1>1, <1>2 DEF Kept

(* A step of one finalize: what it owes is its own new point.               *)
LEMMA FinishOwes ==
  ASSUME Kept, NEW f \in Finalizer, UNCHANGED chunk,
         \A g \in Finalizer : g # f => fin'[g] = fin[g],
         Unsettled' = Unsettled,
         row'.status = "queued" =>
            \/ row.status = "queued" /\ row'.hash = row.hash
            \/ row'.hash = Composed /\ Whole(files, Accepted) /\ Whole(disk, Accepted),
         Unsettled =>
            /\ \A g \in Finalizer : g # f => files'[Temp(g)] = files[Temp(g)]
            /\ files'[Accepted] \in {files[Accepted], Composed}
            /\ files[JobDir] # Absent => files'[JobDir] # Absent
            /\ \/ disk'[Accepted] = disk[Accepted] /\ disk'[JobDir] = disk[JobDir]
               \/ disk'[Accepted] = files[Accepted] /\ disk'[JobDir] = files[JobDir],
         PointKept(f)'
  PROVE  Kept'
<1>1. Composed' = Composed /\ (ChunkSetComplete' <=> ChunkSetComplete)
  BY DEF Composed, ChunkSetComplete
<1>2. QueuedKept'
  <2>. SUFFICES ASSUME row'.status = "queued"
                PROVE  row'.hash = Composed' /\ Whole(files, Accepted)' /\ Whole(disk, Accepted)'
    BY DEF QueuedKept
  <2>1. Unsettled
    BY DEF Unsettled, Terminal
  <2>2. row'.hash = Composed /\ Whole(files, Accepted) /\ Whole(disk, Accepted)
    BY DEF Kept, QueuedKept
  <2>. QED
    BY <1>1, <2>1, <2>2 DEF Whole
<1>3. ASSUME NEW g \in Finalizer, g # f PROVE PointKept(g)'
  <2>1. PointKept(g) /\ fin'[g] = fin[g]
    BY <1>3 DEF Kept
  <2>. QED
    BY <1>1, <1>3, <2>1 DEF PointKept, Whole
<1>. QED
  BY <1>2, <1>3 DEF Kept

LEMMA PushesBeside ==
  ASSUME Inv, Kept, NEW p \in Pusher, PushStep(p)
  PROVE  Kept'
<1>0. DOMAIN files = Entry /\ push[p].index \in Index
  BY DEF Inv, Shapes, PushRequest
<1>1. UNCHANGED <<row, fin>>
  BY <1>0 DEF PushStep, PushLoad, PushLook, PushWrite, PushSync, PushStore, PushDiscard,
              PushFails, PushDropped, PushUnchanged
<1>2. /\ ChunkSetComplete => UNCHANGED chunk
      /\ row.status = "queued" => UNCHANGED chunk
  BY <1>0 DEF PushStep, PushLoad, PushLook, PushWrite, PushSync, PushStore, PushDiscard,
              PushFails, PushDropped, ChunkSetComplete
<1>3. /\ \A e \in {Accepted} \cup {Temp(f) : f \in Finalizer} : files'[e] = files[e]
      /\ files[JobDir] # Absent => files'[JobDir] # Absent
  <2>1. CASE PushWrite(p)
    BY <2>1, Entries, ComposedEntries DEF PushWrite, With, WithDirs
  <2>2. CASE PushDiscard(p)
    BY <1>0, <2>2, Entries, ComposedEntries DEF PushDiscard, Without
  <2>3. CASE UNCHANGED files
    BY <2>3
  <2>. QED
    BY <2>1, <2>2, <2>3 DEF PushStep, PushLoad, PushLook, PushSync, PushStore, PushFails,
                            PushDropped
<1>4. \/ disk'[Accepted] = disk[Accepted] /\ disk'[JobDir] = disk[JobDir]
      \/ disk'[Accepted] = files[Accepted] /\ disk'[JobDir] = files[JobDir]
  <2>1. CASE PushSync(p)
    BY <2>1, SyncedAudio DEF PushSync
  <2>2. CASE UNCHANGED disk
    BY <2>2
  <2>. QED
    BY <2>1, <2>2 DEF PushStep, PushLoad, PushLook, PushWrite, PushStore, PushDiscard,
                      PushFails, PushDropped
<1>5. UNCHANGED chunk => Composed' = Composed /\ (ChunkSetComplete' <=> ChunkSetComplete)
  BY DEF Composed, ChunkSetComplete
<1>. QED
  BY <1>1, <1>2, <1>3, <1>4, <1>5, BesidesKeep

LEMMA CleanupsBeside ==
  ASSUME Inv, Kept, NEW c \in Cleaner, Release(c) \/ CleanFails(c)
  PROVE  Kept'
<1>0. chunk \in [Index -> ChunkRow] /\ UNCHANGED fin
  BY DEF Inv, Shapes, Release, CleanList, CleanListChunks, CleanUnlink, CleanSync, CleanMark,
         CleanDirs, CleanFails, CleanUnchanged
<1>1. CASE CleanList(c) \/ CleanListChunks(c) \/ CleanFails(c)
  <2>1. UNCHANGED <<row, chunk, files, disk>>
    BY <1>1 DEF CleanList, CleanListChunks, CleanFails
  <2>2. Composed' = Composed /\ (ChunkSetComplete' <=> ChunkSetComplete)
    BY <2>1 DEF Composed, ChunkSetComplete
  <2>. QED
    BY <1>0, <2>1, <2>2, BesidesKeep
<1>2. CASE CleanUnlink(c) \/ CleanSync(c) \/ CleanMark(c) \/ CleanDirs(c)
  <2>1. ~Unsettled
    BY <1>2 DEF CleanUnlink, CleanSync, CleanMark, CleanDirs, Inv, CleanersWait, Waits
  <2>2. row'.status = row.status
    BY <1>2 DEF CleanUnlink, CleanSync, CleanMark, CleanDirs, Inv, Shapes
  <2>3. ChunkSetComplete' <=> ChunkSetComplete
    <3>1. \A i \in Index : chunk'[i].hash = chunk[i].hash
      BY <1>0, <1>2 DEF CleanUnlink, CleanSync, CleanMark, CleanDirs, ChunkRow
    <3>. QED
      BY <3>1 DEF ChunkSetComplete
  <2>. QED
    BY <1>0, <2>1, <2>2, <2>3 DEF Kept, QueuedKept, PointKept, Unsettled, Terminal
<1>. QED
  BY <1>1, <1>2 DEF Release

LEMMA SettlesBeside ==
  ASSUME Kept, NEW status \in Terminal, Settle(status), Inv
  PROVE  Kept'
<1>1. UNCHANGED <<chunk, fin>> /\ row'.status = status
  BY DEF Settle, Inv, Shapes
<1>2. QueuedKept' /\ ~Unsettled'
  BY <1>1 DEF QueuedKept, Unsettled, Terminal
<1>3. \A f \in Finalizer : PointKept(f)'
  BY <1>1, <1>2 DEF Kept, PointKept, ChunkSetComplete
<1>. QED
  BY <1>1, <1>2, <1>3 DEF Kept

(* A power loss leaves the audio both trees agree on, and no finalize.      *)
LEMMA CrashKeepsAudio ==
  ASSUME Kept, Crash
  PROVE  Kept'
<1>2. UNCHANGED <<row, chunk>> /\ Composed' = Composed
  BY DEF Crash, Composed
<1>3. \A f \in Finalizer : fin'[f].pc = "done"
  BY DEF Crash, FinAt
<1>4. ASSUME NEW tree \in Survivors, Whole(files, Accepted), Whole(disk, Accepted)
      PROVE  Whole(tree, Accepted)
  <2>1. PICK lost \in SUBSET {e \in Entry : disk[e] # files[e]} :
          tree = Reachable([e \in Entry |-> IF e \in lost THEN disk[e] ELSE files[e]])
    BY DEF Survivors
  <2> DEFINE left == [e \in Entry |-> IF e \in lost THEN disk[e] ELSE files[e]]
  <2>2. left[Accepted] = Composed /\ left[JobDir] # Absent
    BY <1>4, Entries DEF Whole
  <2>3. \A e \in Entry : tree[e] = IF \E d \in {JobDir, ChunkDir} :
                                        Within(e, d) /\ (left[d] = Absent \/ left[JobDir] = Absent)
                                     THEN Absent ELSE left[e]
    BY <2>1 DEF Reachable
  <2>. HIDE DEF left
  <2>. QED
    BY <2>2, <2>3, ComposedEntries, Entries, Withins DEF Whole
<1>5. QueuedKept'
  <2>1. Whole(files, Accepted) /\ Whole(disk, Accepted)
          => Whole(files', Accepted) /\ Whole(disk', Accepted)
    BY <1>2, <1>4, CrashTrees DEF Whole
  <2>. QED
    BY <1>2, <2>1 DEF Kept, QueuedKept, Whole
<1>6. \A f \in Finalizer : PointKept(f)'
  BY <1>3 DEF PointKept, Listed
<1>. QED
  BY <1>2, <1>5, <1>6 DEF Kept

(* Unless it ends in an error, a finalize discards for a settled job only.  *)
LEMMA FinishesKeepAudio ==
  ASSUME Inv, Kept, NEW f \in Finalizer, FinalizeStep(f), ~Spoilt'
  PROVE  Kept'
<1>0. /\ DOMAIN files = Entry /\ PointKept(f) /\ fin[f] \in FinalizeRequest
      /\ fin \in [Finalizer -> FinalizeRequest]
  BY DEF Inv, Shapes, Kept
<1>1. ~(fin'[f].pc = "done" /\ fin'[f].answer = "500")
  BY DEF Spoilt
<1>2. UNCHANGED chunk /\ \A g \in Finalizer : g # f => fin'[g] = fin[g]
  <2>1. UNCHANGED chunk
    BY DEF FinalizeStep, FinList, FinCompose, FinRename, FinSync, FinSettings, FinCommit,
           FinDiscard, FinFails, FinDropped, FinUnchanged
  <2>2. PICK new : fin' = [fin EXCEPT ![f] = new]
    <3>1. CASE FinList(f) \/ FinCompose(f) \/ FinCommit(f) \/ FinFails(f) \/ FinDropped(f)
      BY <3>1 DEF FinList, FinCompose, FinCommit, FinFails, FinDropped, FinAnswers, FinGoes
    <3>2. CASE FinRename(f) \/ FinSync(f) \/ FinSettings(f) \/ FinDiscard(f)
      BY <3>2 DEF FinRename, FinSync, FinSettings, FinDiscard, FinAnswers, FinGoes
    <3>. QED
      BY <3>1, <3>2 DEF FinalizeStep
  <2>. QED
    BY <1>0, <2>1, <2>2
<1>3. Composed' = Composed /\ (ChunkSetComplete' <=> ChunkSetComplete)
  BY <1>2 DEF Composed, ChunkSetComplete
<1>4. CASE FinList(f)
  <2>1. UNCHANGED <<row, files, disk>>
    BY <1>4 DEF FinList
  <2>2. fin'[f].pc = "done" \/ (fin'[f].pc = "compose" /\ ChunkSetComplete)
    BY <1>0, <1>4 DEF FinList, FinAnswers, FinGoes, FinAt, FinalizeRequest
  <2>3. PointKept(f)'
    BY <1>3, <2>1, <2>2 DEF PointKept, Listed
  <2>. QED
    BY <1>2, <2>1, <2>3, FinishOwes DEF Unsettled
<1>5. CASE FinCompose(f)
  <2> DEFINE found == \A i \in Index : files[chunk[i].file] # Absent
  <2>1. UNCHANGED <<row, disk>> /\ fin[f].pc = "compose"
    BY <1>5 DEF FinCompose
  <2>2. fin'[f].pc = "rename" /\ found
    BY <1>0, <1>1, <1>5 DEF FinCompose, FinAnswers, FinGoes, FinAt, FinalizeRequest
  <2>3. files' = With(WithDirs(files, {JobDir}), Temp(f), IF found THEN Composed ELSE Empty)
    BY <1>5 DEF FinCompose
  <2>. HIDE DEF found
  <2>4. /\ files'[Temp(f)] = IF found THEN Composed ELSE Empty
        /\ files'[JobDir] # Absent
        /\ files'[Accepted] = files[Accepted]
        /\ \A g \in Finalizer : g # f => files'[Temp(g)] = files[Temp(g)]
    BY <1>0, <2>3, ComposedEntries, Entries DEF With, WithDirs
  <2>5. PointKept(f)'
    BY <1>0, <1>3, <2>1, <2>2, <2>4 DEF PointKept, Whole, Listed
  <2>. QED
    BY <1>2, <2>1, <2>4, <2>5, FinishOwes DEF Unsettled
<1>6. CASE FinRename(f)
  <2>1. UNCHANGED <<row, disk>> /\ fin[f].pc = "rename"
    BY <1>6 DEF FinRename
  <2>2. fin'[f].pc = "sync"
    BY <1>0, <1>6 DEF FinRename, FinGoes, FinalizeRequest
  <2>3. /\ files'[Accepted] = files[Temp(f)] /\ files'[JobDir] = files[JobDir]
        /\ \A g \in Finalizer : g # f => files'[Temp(g)] = files[Temp(g)]
    BY <1>0, <1>6, ComposedEntries, Entries DEF FinRename, With, Without
  <2>4. Unsettled' = Unsettled
    BY <2>1 DEF Unsettled
  <2>5. PointKept(f)'
    BY <1>0, <1>3, <2>1, <2>2, <2>3, <2>4 DEF PointKept, Whole, Listed
  <2>6. Unsettled => files'[Accepted] = Composed
    BY <1>0, <2>1, <2>3 DEF PointKept, Whole
  <2>. QED
    BY <1>2, <2>1, <2>3, <2>4, <2>5, <2>6, FinishOwes
<1>7. CASE FinSync(f)
  <2>1. UNCHANGED <<row, files>> /\ fin[f].pc = "sync"
    BY <1>7 DEF FinSync
  <2>0. files[JobDir] # Absent
    BY <1>0, <1>1, <1>7 DEF FinSync, FinAnswers, FinAt
  <2>2. fin'[f].pc = "settings"
    BY <1>0, <1>7, <2>0 DEF FinSync, FinGoes, FinalizeRequest
  <2>3. disk'[Accepted] = files[Accepted] /\ disk'[JobDir] = files[JobDir]
    BY <1>7, <2>0, SyncedAudio DEF FinSync
  <2>4. Unsettled' = Unsettled
    BY <2>1 DEF Unsettled
  <2>5. PointKept(f)'
    BY <1>0, <1>3, <2>1, <2>2, <2>3, <2>4 DEF PointKept, Whole, Listed
  <2>. QED
    BY <1>2, <2>1, <2>3, <2>4, <2>5, FinishOwes
<1>8. CASE FinSettings(f)
  <2>1. UNCHANGED <<row, files, disk>> /\ fin[f].pc = "settings"
    BY <1>8 DEF FinSettings
  <2>2. fin'[f].pc = "commit"
    BY <1>0, <1>8 DEF FinSettings, FinAt
  <2>3. PointKept(f)'
    BY <1>0, <1>3, <2>1, <2>2 DEF PointKept, Whole, Listed, Unsettled
  <2>. QED
    BY <1>2, <2>1, <2>3, FinishOwes DEF Unsettled
<1>9. CASE FinCommit(f)
  <2>1. UNCHANGED <<files, disk>> /\ fin[f].pc = "commit"
    BY <1>9 DEF FinCommit
  <2>2. CASE row.status = "accepting_chunks"
    <3>1. row'.status = "queued" /\ row'.hash = Composed /\ fin'[f].pc = "done"
      BY <1>0, <1>9, <2>2 DEF FinCommit, FinAnswers, FinAt
    <3>2. Unsettled /\ Unsettled'
      BY <2>2, <3>1 DEF Unsettled, Terminal
    <3>3. PointKept(f)' /\ Whole(files, Accepted) /\ Whole(disk, Accepted)
      BY <1>0, <2>1, <3>1, <3>2 DEF PointKept, Listed
    <3>. QED
      BY <1>2, <2>1, <3>1, <3>2, <3>3, FinishOwes
  <2>3. CASE row.status # "accepting_chunks"
    <3>1. UNCHANGED row
      BY <1>9, <2>3 DEF FinCommit
    <3>2. \/ fin'[f].pc = "done"
          \/ fin'[f].pc = "discard" /\ row.hash # Composed
      BY <1>0, <1>9, <2>3 DEF FinCommit, FinAnswers, FinAt
    <3>3. row.hash # Composed => ~Unsettled
      BY <2>3 DEF Kept, QueuedKept, Unsettled, Inv, Shapes
    <3>4. PointKept(f)'
      BY <3>1, <3>2, <3>3 DEF PointKept, Listed, Unsettled
    <3>. QED
      BY <1>2, <2>1, <3>1, <3>4, FinishOwes DEF Unsettled
  <2>. QED
    BY <2>2, <2>3
<1>10. CASE FinDiscard(f)
  <2>2. fin'[f].pc = "done" /\ fin'[f].answer = fin[f].answer
    BY <1>0, <1>10 DEF FinDiscard, FinGoes, FinalizeRequest
  <2>1. UNCHANGED <<row, disk>> /\ ~Unsettled
    BY <1>0, <1>1, <1>10, <2>2 DEF FinDiscard, PointKept
  <2>3. PointKept(f)'
    BY <2>2 DEF PointKept, Listed
  <2>. QED
    BY <1>2, <2>1, <2>3, FinishOwes DEF Unsettled
<1>11. CASE FinDropped(f)
  <2>1. UNCHANGED <<row, files, disk>>
    BY <1>11 DEF FinDropped
  <2>2. fin'[f].pc = "done"
    BY <1>0, <1>11 DEF FinDropped, FinAnswers, FinAt
  <2>3. PointKept(f)'
    BY <2>2 DEF PointKept, Listed
  <2>. QED
    BY <1>2, <2>1, <2>3, FinishOwes DEF Unsettled
<1>12. CASE FinFails(f)
  <2>1. UNCHANGED <<row, files, disk>>
    BY <1>12 DEF FinFails
  <2>2. fin'[f].pc = "discard" /\ fin'[f].answer = "500"
    BY <1>0, <1>1, <1>12 DEF FinFails, FinAnswers, FinAt
  <2>3. PointKept(f)'
    BY <2>2 DEF PointKept, Listed
  <2>. QED
    BY <1>2, <2>1, <2>3, FinishOwes DEF Unsettled
<1>. QED
  BY <1>4, <1>5, <1>6, <1>7, <1>8, <1>9, <1>10, <1>11, <1>12 DEF FinalizeStep

(* A finalize that is over stays as it ended.                               *)
LEMMA SpoiltStays == ASSUME Inv, Spoilt, [Next]_vars PROVE Spoilt'
<1>1. PICK f \in Finalizer : fin[f].pc = "done" /\ fin[f].answer = "500"
  BY DEF Spoilt
<1>2. fin \in [Finalizer -> FinalizeRequest]
  BY DEF Inv, Shapes
<1>3. ASSUME NEW g \in Finalizer, FinalizeStep(g) PROVE fin'[f] = fin[f]
  <2>1. g # f
    BY <1>1, <1>3 DEF FinalizeStep, FinList, FinCompose, FinRename, FinSync, FinSettings,
                      FinCommit, FinDiscard, FinFails, FinDropped
  <2>2. PICK new : fin' = [fin EXCEPT ![g] = new]
    <3>1. CASE FinList(g) \/ FinCompose(g) \/ FinCommit(g) \/ FinFails(g) \/ FinDropped(g)
      BY <3>1 DEF FinList, FinCompose, FinCommit, FinFails, FinDropped, FinAnswers, FinGoes
    <3>2. CASE FinRename(g) \/ FinSync(g) \/ FinSettings(g) \/ FinDiscard(g)
      BY <3>2 DEF FinRename, FinSync, FinSettings, FinDiscard, FinAnswers, FinGoes
    <3>. QED
      BY <1>3, <3>1, <3>2 DEF FinalizeStep
  <2>. QED
    BY <1>2, <2>1, <2>2
<1>4. CASE Crash
  BY <1>1, <1>4 DEF Crash, Spoilt
<1>5. CASE UNCHANGED fin
  BY <1>1, <1>5 DEF Spoilt
<1>6. CASE fin'[f] = fin[f]
  BY <1>1, <1>6 DEF Spoilt
<1>. QED
  BY <1>3, <1>4, <1>5, <1>6
     DEF Next, vars, PushStep, PushLoad, PushLook, PushWrite, PushSync, PushStore, PushDiscard,
         PushFails, PushDropped, PushUnchanged, Release, CleanList, CleanListChunks, CleanUnlink,
         CleanSync, CleanMark, CleanDirs, CleanFails, CleanUnchanged, UpdateSettings, Abandon,
         ProcessJob, Settle

LEMMA ComposedNext == Inv /\ ComposedInv /\ [Next]_vars => ComposedInv'
<1>. SUFFICES ASSUME Inv, ComposedInv, [Next]_vars, ~Spoilt' PROVE Kept'
  BY DEF ComposedInv
<1>0. Kept
  BY SpoiltStays DEF ComposedInv
<1>1. CASE UpdateSettings
  <2>1. UNCHANGED <<row, chunk, files, disk, fin>>
    BY <1>1 DEF UpdateSettings
  <2>. QED
    BY <1>0, <2>1, BesidesKeep DEF Composed, ChunkSetComplete
<1>2. CASE Abandon \/ ProcessJob
  BY <1>0, <1>2, SettlesBeside DEF Abandon, ProcessJob, Terminal
<1>3. CASE UNCHANGED vars
  BY <1>0, <1>3, BesidesKeep DEF vars, Composed, ChunkSetComplete
<1>. QED
  BY <1>0, <1>1, <1>2, <1>3, PushesBeside, FinishesKeepAudio, CleanupsBeside, CrashKeepsAudio
     DEF Next

(* An accepted job has its audio on disk, unless a finalize request of the  *)
(* job ends in a 500: finalizes that race, are dropped or sent again, errors *)
(* of pushes and cleanups, and power losses, never take away the file that  *)
(* finalize_transcription_job answered 202 for.                             *)
THEOREM AcceptedAudioIsKept == Spec => []AudioKeptUnlessFinalizeFails
<1>1. Init => ComposedInv
  BY DEF Init, ComposedInv, Kept, QueuedKept, PointKept, Listed
<1>2. ComposedInv => AudioKeptUnlessFinalizeFails
  BY DEF ComposedInv, Spoilt, Kept, QueuedKept, Whole, AudioKeptUnlessFinalizeFails,
         AcceptedAudioKept, Holds
<1>. QED
  BY <1>1, <1>2, ComposedNext, Invariance, PTL DEF Spec

-----------------------------------------------------------------------------
(* What cleanups have to release                                            *)

(* The n-th of some indices is one of them.                                 *)
LEMMA NthIsOne ==
  ASSUME NEW S \in SUBSET Index, NEW n \in 1..Cardinality(S)
  PROVE  Nth(S, n) \in S
<1> DEFINE upTo(i) == {j \in S : j <= i}
           rank == [i \in S |-> Cardinality(upTo(i))]
<1>1. IsFiniteSet(S) /\ Cardinality(S) \in Nat
  <2>1. ChunkCount \in Int /\ S \subseteq 1..ChunkCount
    BY SomeChunks DEF Index
  <2>2. IsFiniteSet(1..ChunkCount)
    BY <2>1, FS_Interval
  <2>3. IsFiniteSet(S)
    BY <2>1, <2>2, FS_Subset
  <2>. QED
    BY <2>3, FS_CardinalityType
<1>2. \A i \in S : i \in Int
  BY SomeChunks DEF Index
<1>3. \A i \in S : /\ IsFiniteSet(upTo(i)) /\ Cardinality(upTo(i)) \in Nat
                   /\ Cardinality(upTo(i)) <= Cardinality(S)
                   /\ Cardinality(upTo(i)) # 0
  <2>. SUFFICES ASSUME NEW i \in S
                PROVE  /\ IsFiniteSet(upTo(i)) /\ Cardinality(upTo(i)) \in Nat
                       /\ Cardinality(upTo(i)) <= Cardinality(S)
                       /\ Cardinality(upTo(i)) # 0
    OBVIOUS
  <2>1. upTo(i) \subseteq S /\ i \in upTo(i)
    BY <1>2
  <2>2. IsFiniteSet(upTo(i)) /\ Cardinality(upTo(i)) <= Cardinality(S)
    BY <1>1, <2>1, FS_Subset
  <2>3. Cardinality(upTo(i)) \in Nat /\ (Cardinality(upTo(i)) = 0 <=> upTo(i) = {})
    BY <2>2, FS_CardinalityType, FS_EmptySet
  <2>. QED
    BY <2>1, <2>2, <2>3
<1>4. rank \in [S -> 1..Cardinality(S)]
  BY <1>1, <1>3
<1>5. \A i, j \in S : i < j => rank[i] # rank[j]
  <2>. SUFFICES ASSUME NEW i \in S, NEW j \in S, i < j, Cardinality(upTo(i)) = Cardinality(upTo(j))
                PROVE  FALSE
    OBVIOUS
  <2>1. upTo(i) \subseteq upTo(j) /\ j \in upTo(j) /\ j \notin upTo(i)
    BY <1>2
  <2>. HIDE DEF upTo
  <2>2. upTo(i) = upTo(j)
    BY <1>3, <2>1, FS_Subset
  <2>. QED
    BY <2>1, <2>2
<1>. HIDE DEF rank
<1>6. rank \in Injection(S, 1..Cardinality(S))
  <2>1. \A i, j \in S : rank[i] = rank[j] => i = j
    <3>. SUFFICES ASSUME NEW i \in S, NEW j \in S, rank[i] = rank[j], i # j PROVE FALSE
      OBVIOUS
    <3>1. i < j \/ j < i
      BY <1>2
    <3>. QED
      BY <1>5, <3>1
  <2>. QED
    BY <1>4, <2>1 DEF Injection, IsInjective
<1>7. IsFiniteSet(1..Cardinality(S)) /\ Cardinality(1..Cardinality(S)) = Cardinality(S)
  BY <1>1, FS_Interval
<1>. HIDE DEF upTo
<1>8. rank \in Surjection(S, 1..Cardinality(S))
  BY <1>1, <1>6, <1>7, FS_Injection
<1>9. \E i \in S : Cardinality(upTo(i)) = n
  BY <1>8 DEF Surjection, rank
<1>10. \E i \in S : Cardinality({j \in S : j <= i}) = n
  BY <1>9 DEF upTo
<1>. QED
  BY <1>10 DEF Nth

(* A row names a file if and only if it names bytes; what is released was   *)
(* stored.                                                                  *)
RowsMatch == \A i \in Index : /\ chunk[i].file = NoFile <=> chunk[i].hash = NoBytes
                              /\ chunk[i].released => chunk[i].hash # NoBytes

(* The files that rows name, released or not.                               *)
Stored   == {i \in Index : chunk[i].hash # NoBytes}
Artifact == {chunk[i].file : i \in Stored} \cup {Accepted}

(* A list of a cleanup.                                                     *)
List == {todo \in Seq(Artifact) : Len(todo) <= ChunkCount + 1}

(* A cleanup at work has files left to release, all of them named by rows;  *)
(* before it lists the chunks there is at most the composed audio.          *)
Steps == {"idle", "list", "unlink", "sync", "mark", "rmdir"}

Lists ==
  /\ cleaner \in [Cleaner -> [pc : Steps, todo : List]]
  /\ \A c \in Cleaner :
       /\ cleaner[c].pc \notin {"idle", "list"} => cleaner[c].todo # << >>
       /\ cleaner[c].pc = "list" => Len(cleaner[c].todo) <= 1

(* No step takes a stored chunk out of its row.                             *)
RowsGrow ==
  \A i \in Index : chunk[i].hash # NoBytes =>
    chunk'[i].hash = chunk[i].hash /\ chunk'[i].file = chunk[i].file

LEMMA NoFileIsNoEntry == NoFile \notin Entry
  BY DEF NoFile, Entry, AudioFile, ChunkFile, Candidate, Temp, Accepted, JobDir, ChunkDir

LEMMA ListsGrow == ASSUME RowsGrow PROVE Artifact \subseteq Artifact' /\ List \subseteq List'
<1>1. Artifact \subseteq Artifact'
  BY DEF RowsGrow, Artifact, Stored
<1>2. Seq(Artifact) \subseteq Seq(Artifact')
  BY <1>1
<1>. QED
  BY <1>1, <1>2 DEF List

(* What a cleanup finds to release: the composed audio, then the chunks.    *)
LEMMA AudioIsList == IfSettled(AudioRow) \in List /\ Len(IfSettled(AudioRow)) <= 1
<1>1. Accepted \in Artifact
  BY DEF Artifact
<1>. HIDE DEF Artifact
<1>2. <<Accepted>> \in Seq(Artifact) /\ Len(<<Accepted>>) = 1
  BY <1>1
<1>3. << >> \in Seq(Artifact) /\ Len(<< >>) = 0
  OBVIOUS
<1>4. PICK rows : rows = IfSettled(AudioRow)
  OBVIOUS
<1>5. rows = <<Accepted>> \/ rows = << >>
  BY <1>4 DEF IfSettled, AudioRow
<1>6. rows \in Seq(Artifact) /\ Len(rows) <= 1
  <2>1. CASE rows = <<Accepted>>
    BY <1>2, <2>1
  <2>2. CASE rows = << >>
    BY <1>3, <2>2
  <2>. QED
    BY <1>5, <2>1, <2>2
<1>. QED
  BY <1>4, <1>6, SomeChunks DEF List

LEMMA ChunksAreList ==
  ASSUME RowsMatch, NEW todo \in List, Len(todo) <= 1
  PROVE  todo \o IfSettled(ChunkRows(Unreleased)) \in List
<1>1. Unreleased \in SUBSET Index /\ \A i \in Unreleased : chunk[i].file \in Artifact
  BY DEF Unreleased, RowsMatch, Artifact, Stored
<1>2. Cardinality(Unreleased) \in Nat /\ Cardinality(Unreleased) <= ChunkCount
  <2>1. IsFiniteSet(Index) /\ Cardinality(Index) = ChunkCount
    <3>1. 1 \in Int /\ ChunkCount \in Int /\ ~(1 > ChunkCount) /\ ChunkCount - 1 + 1 = ChunkCount
      BY SomeChunks
    <3>2. IsFiniteSet(1..ChunkCount) /\ Cardinality(1..ChunkCount) = ChunkCount
      BY <3>1, FS_Interval
    <3>. QED
      BY <3>2 DEF Index
  <2>2. IsFiniteSet(Unreleased) /\ Cardinality(Unreleased) <= Cardinality(Index)
    BY <1>1, <2>1, FS_Subset
  <2>. QED
    BY <2>1, <2>2, FS_CardinalityType
<1>3. ChunkRows(Unreleased) \in Seq(Artifact) /\ Len(ChunkRows(Unreleased)) <= ChunkCount
  <2>1. \A n \in 1..Cardinality(Unreleased) : chunk[Nth(Unreleased, n)].file \in Artifact
    BY <1>1, NthIsOne
  <2>2. ChunkRows(Unreleased) \in [1..Cardinality(Unreleased) -> Artifact]
    BY <2>1 DEF ChunkRows
  <2>. QED
    BY <1>2, <2>2
<1>. HIDE DEF Artifact
<1>4. << >> \in Seq(Artifact) /\ Len(<< >>) = 0
  OBVIOUS
<1>5. PICK rows : rows = IfSettled(ChunkRows(Unreleased))
  OBVIOUS
<1>6. rows \in Seq(Artifact) /\ Len(rows) <= ChunkCount
  BY <1>3, <1>4, <1>5, SomeChunks DEF IfSettled
<1>7. todo \in Seq(Artifact)
  BY DEF List
<1>8. todo \o rows \in Seq(Artifact) /\ Len(todo \o rows) <= ChunkCount + 1
  BY <1>6, <1>7, SomeChunks
<1>. QED
  BY <1>5, <1>8 DEF List

(* One cleanup turns to another list, or another step of it.                *)
LEMMA ListMoves ==
  ASSUME Lists, RowsGrow, NEW c \in Cleaner, NEW todo \in List,
         NEW pc \in Steps, NextFile(c, pc, todo),
         pc \notin {"idle", "list"} => todo # << >>, pc = "list" => Len(todo) <= 1
  PROVE  Lists'
<1>1. [pc |-> pc, todo |-> todo] \in [pc : Steps, todo : List']
  BY ListsGrow
<1>2. \A d \in Cleaner : cleaner[d] \in [pc : Steps, todo : List']
  BY ListsGrow DEF Lists
<1>3. cleaner' = [cleaner EXCEPT ![c] = [pc |-> pc, todo |-> todo]]
  BY DEF NextFile
<1>. QED
  BY <1>1, <1>2, <1>3 DEF Lists

LEMMA Advances ==
  ASSUME Lists, RowsGrow, NEW c \in Cleaner, cleaner[c].pc \notin {"idle", "list"}, Advance(c)
  PROVE  Lists'
<1>1. PICK todo : todo = cleaner[c].todo
  OBVIOUS
<1>2. todo \in Seq(Artifact) /\ Len(todo) <= ChunkCount + 1 /\ todo # << >>
  BY <1>1 DEF Lists, List
<1>3. Tail(todo) \in Seq(Artifact) /\ Len(Tail(todo)) = Len(todo) - 1 /\ Len(todo) \in Nat
  BY <1>2
<1>4. Tail(todo) \in List /\ (Len(todo) # 1 => Tail(todo) # << >>)
  <2>1. Len(Tail(todo)) <= ChunkCount + 1
    BY <1>2, <1>3, SomeChunks
  <2>2. Len(todo) # 1 => Len(Tail(todo)) # 0
    BY <1>3
  <2>3. \A s : s = << >> => Len(s) = 0
    OBVIOUS
  <2>4. Tail(todo) \in List
    BY <1>3, <2>1 DEF List
  <2>. QED
    BY <2>2, <2>3, <2>4
<1>5. NextFile(c, IF Len(todo) = 1 THEN "idle" ELSE "unlink", Tail(todo))
  BY <1>1 DEF Advance
<1>. QED
  BY <1>4, <1>5, ListMoves DEF Steps

LEMMA EmptyList == << >> \in List
  BY SomeChunks DEF List

LEMMA HeadIsNamed ==
  ASSUME Lists, NEW c \in Cleaner, cleaner[c].pc \notin {"idle", "list"}
  PROVE  Head(cleaner[c].todo) \in Artifact
<1>1. cleaner[c].todo \in Seq(Artifact) /\ cleaner[c].todo # << >>
  BY DEF Lists, List
<1>. QED
  BY <1>1

(* Only store_chunk and the mark of a release write chunk rows.             *)
LEMMA RowSteps ==
  ASSUME Inv, RowsMatch, Lists, [Next]_vars
  PROVE  RowsMatch' /\ RowsGrow
<1>0. chunk \in [Index -> ChunkRow] /\ push \in [Pusher -> PushRequest]
  BY DEF Inv, Shapes
<1>1. CASE UNCHANGED chunk
  BY <1>1 DEF RowsMatch, RowsGrow
<1>2. ASSUME NEW p \in Pusher, PushStore(p), ~UNCHANGED chunk
      PROVE  RowsMatch' /\ RowsGrow
  <2> DEFINE i == push[p].index
             new == [hash |-> push[p].bytes, file |-> Candidate(p), released |-> FALSE]
  <2>1. /\ chunk' = [chunk EXCEPT ![i] = new] /\ chunk[i].hash = NoBytes
    BY <1>2 DEF PushStore
  <2>2. i \in Index /\ push[p].bytes # NoBytes /\ Candidate(p) # NoFile
    BY <1>0, NoBytesIsNone DEF PushRequest, Candidate, NoFile
  <2>3. chunk'[i] = new /\ \A j \in Index : j # i => chunk'[j] = chunk[j]
    BY <1>0, <2>1, <2>2
  <2>. QED
    BY <2>1, <2>2, <2>3 DEF RowsMatch, RowsGrow
<1>3. ASSUME NEW c \in Cleaner, CleanMark(c)
      PROVE  RowsMatch' /\ RowsGrow
  <2>1. PICK file : file = Head(cleaner[c].todo)
    OBVIOUS
  <2>2. file \in Artifact
    BY <1>3, <2>1, HeadIsNamed DEF CleanMark
  <2>3. file # NoFile
    <3>1. Accepted # NoFile /\ \A p \in Pusher : Candidate(p) # NoFile
      BY DEF Accepted, NoFile, Candidate
    <3>. QED
      BY <2>2, <3>1 DEF Artifact, Stored, Inv, StoredByPush
  <2>4. chunk' = [i \in Index |-> [chunk[i] EXCEPT !.released = @ \/ chunk[i].file = file]]
    BY <1>3, <2>1 DEF CleanMark
  <2>5. \A i \in Index : /\ chunk'[i].hash = chunk[i].hash /\ chunk'[i].file = chunk[i].file
                         /\ chunk'[i].released => chunk[i].released \/ chunk[i].file = file
    BY <1>0, <2>4 DEF ChunkRow
  <2>. QED
    BY <2>3, <2>5 DEF RowsMatch, RowsGrow
<1>. QED
  BY <1>1, <1>2, <1>3
     DEF Next, vars, PushStep, PushLoad, PushLook, PushWrite, PushSync, PushDiscard, PushFails,
         PushDropped, FinalizeStep, FinList, FinCompose, FinRename, FinSync, FinSettings,
         FinCommit, FinDiscard, FinFails, FinDropped, FinUnchanged, Release, CleanList,
         CleanListChunks, CleanUnlink, CleanSync, CleanDirs, CleanFails, UpdateSettings, Abandon,
         ProcessJob, Settle, Crash

LEMMA ListSteps ==
  ASSUME Inv, RowsMatch, Lists, RowsGrow, [Next]_vars
  PROVE  Lists'
<1>1. CASE UNCHANGED cleaner
  BY <1>1, ListsGrow DEF Lists
<1>2. ASSUME NEW c \in Cleaner, Release(c) \/ CleanFails(c)
      PROVE  Lists'
  <2>0. /\ cleaner[c].todo \in List
        /\ cleaner[c].pc \notin {"idle", "list"} => cleaner[c].todo # << >>
    BY DEF Lists
  <2>1. CASE CleanList(c)
    BY <2>1, AudioIsList, ListMoves DEF CleanList, Steps
  <2>7. CASE CleanListChunks(c)
    <3>1. PICK todo : /\ todo = cleaner[c].todo \o IfSettled(ChunkRows(Unreleased))
                      /\ NextFile(c, IF todo = << >> THEN "idle" ELSE "unlink", todo)
      BY <2>7 DEF CleanListChunks
    <3>2. todo \in List
      BY <2>0, <2>7, <3>1, ChunksAreList DEF CleanListChunks, Lists
    <3>. QED
      BY <3>1, <3>2, ListMoves DEF Steps
  <2>2. CASE CleanUnlink(c)
    BY <2>0, <2>2, ListMoves DEF CleanUnlink, Steps
  <2>3. CASE CleanSync(c)
    BY <2>0, <2>3, ListMoves DEF CleanSync, Steps
  <2>4. CASE CleanMark(c)
    <3>1. \/ NextFile(c, "rmdir", cleaner[c].todo) /\ cleaner[c].pc = "mark"
          \/ Advance(c) /\ cleaner[c].pc = "mark"
      BY <2>4 DEF CleanMark
    <3>. QED
      BY <2>0, <3>1, ListMoves, Advances DEF Steps
  <2>5. CASE CleanDirs(c)
    BY <2>5, Advances DEF CleanDirs
  <2>6. CASE CleanFails(c)
    <3>1. \/ NextFile(c, "idle", << >>)
          \/ Advance(c) /\ cleaner[c].pc \notin {"idle", "list"}
      BY <2>6 DEF CleanFails
    <3>. QED
      BY <3>1, ListMoves, Advances, EmptyList DEF Steps
  <2>. QED
    BY <1>2, <2>1, <2>2, <2>3, <2>4, <2>5, <2>6, <2>7 DEF Release
<1>3. CASE Crash
  <2>1. << >> \in List'
    BY EmptyList, ListsGrow
  <2>. QED
    BY <1>3, <2>1 DEF Crash, Lists, Steps
<1>. QED
  BY <1>1, <1>2, <1>3
     DEF Next, vars, PushStep, PushLoad, PushLook, PushWrite, PushSync, PushStore, PushDiscard,
         PushFails, PushDropped, PushUnchanged, FinalizeStep, FinList, FinCompose, FinRename,
         FinSync, FinSettings, FinCommit, FinDiscard, FinFails, FinDropped, FinUnchanged,
         UpdateSettings, Abandon, ProcessJob, Settle


-----------------------------------------------------------------------------
(* Released chunks                                                          *)

(* A cleanup that unlinked a chunk file finds it gone until it marked it.   *)
UnlinkedIsGone ==
  \A c \in Cleaner : cleaner[c].pc \in {"sync", "mark"} /\ Head(cleaner[c].todo) # Accepted
    => files[Head(cleaner[c].todo)] = Absent

(* A stored chunk is the candidate of a push that is over.                  *)
LEMMA StoredIsCandidate ==
  ASSUME Inv, NEW i \in Stored
  PROVE  \E p \in Pusher : chunk[i].file = Candidate(p) /\ push[p].pc = "done"
  BY DEF Inv, StoredByPush, Stored

(* Of the entries a cleanup may take, none is a directory.                  *)
LEMMA NamedEntries ==
  ASSUME Inv
  PROVE  Artifact \subseteq Entry \ {JobDir, ChunkDir} /\ \A i \in Stored : chunk[i].file \in ChunkFile
<1>1. \A i \in Stored : /\ chunk[i].file \in ChunkFile
                        /\ chunk[i].file \in Entry \ {JobDir, ChunkDir}
  BY StoredIsCandidate, Entries
<1>. QED
  BY <1>1, Entries DEF Artifact

(* Nothing but a power loss brings the file of a stored chunk back.         *)
FilesGo == \A i \in Stored : files'[chunk[i].file] \in {files[chunk[i].file], Absent}

LEMMA PushesGo == ASSUME Inv, NEW p \in Pusher, PushStep(p) PROVE FilesGo
<1>0. DOMAIN files = Entry
  BY DEF Inv, Shapes
<1>1. push[p].pc # "done"
  BY DEF PushStep, PushLoad, PushLook, PushWrite, PushSync, PushStore, PushDiscard,
         PushFails, PushDropped
<1>2. \A i \in Stored : \E q \in Pusher : chunk[i].file = Candidate(q) /\ q # p
  BY <1>1, StoredIsCandidate
<1>3. \A q \in Pusher : q # p => files'[Candidate(q)] = files[Candidate(q)]
  <2>1. CASE PushWrite(p)
    BY <2>1, Entries DEF PushWrite, With, WithDirs
  <2>2. CASE PushDiscard(p)
    BY <1>0, <2>2, Entries DEF PushDiscard, Without
  <2>3. CASE UNCHANGED files
    BY <2>3
  <2>. QED
    BY <2>1, <2>2, <2>3 DEF PushStep, PushLoad, PushLook, PushSync, PushStore, PushFails,
                            PushDropped
<1>. QED
  BY <1>2, <1>3 DEF FilesGo

LEMMA FinishesGo == ASSUME Inv, NEW f \in Finalizer, FinalizeStep(f) PROVE FilesGo
<1>0. DOMAIN files = Entry
  BY DEF Inv, Shapes
<1>1. \A q \in Pusher : files'[Candidate(q)] = files[Candidate(q)]
  <2>1. CASE FinCompose(f)
    <3>1. PICK content : files' = With(WithDirs(files, {JobDir}), Temp(f), content)
      BY <2>1 DEF FinCompose
    <3>. QED
      BY <1>0, <3>1, Entries DEF With, WithDirs
  <2>2. CASE FinRename(f)
    BY <1>0, <2>2, Entries DEF FinRename, With, Without
  <2>3. CASE FinDiscard(f)
    BY <1>0, <2>3, Entries DEF FinDiscard, Without
  <2>4. CASE UNCHANGED files
    BY <2>4
  <2>. QED
    BY <2>1, <2>2, <2>3, <2>4 DEF FinalizeStep, FinList, FinSync, FinSettings, FinCommit,
                                  FinFails, FinDropped
<1>. QED
  BY <1>1, StoredIsCandidate DEF FilesGo

LEMMA CleanupsGo ==
  ASSUME Inv, Lists, NEW c \in Cleaner, Release(c) \/ CleanFails(c)
  PROVE  \A e \in Entry : files'[e] \in {files[e], Absent}
<1>0. DOMAIN files = Entry
  BY DEF Inv, Shapes
<1>1. CASE CleanUnlink(c)
  BY <1>0, <1>1 DEF CleanUnlink, Without
<1>2. CASE CleanDirs(c)
  <2> DEFINE gone(tree, d) == \A e \in Entry : Within(e, d) => tree[e] = Absent
             swept(tree, d) == IF gone(tree, d) THEN Without(tree, d) ELSE tree
             inner == IF Head(cleaner[c].todo) \in ChunkFile THEN swept(files, ChunkDir)
                                                             ELSE files
  <2>1. files' = swept(inner, JobDir)
    BY <1>2 DEF CleanDirs
  <2>2. DOMAIN inner = Entry /\ \A e \in Entry : inner[e] \in {files[e], Absent}
    BY <1>0 DEF Without
  <2>. HIDE DEF inner
  <2>. QED
    BY <2>1, <2>2 DEF Without
<1>3. CASE UNCHANGED files
  BY <1>3
<1>. QED
  BY <1>1, <1>2, <1>3 DEF Release, CleanList, CleanListChunks, CleanSync, CleanMark, CleanFails

LEMMA AllGo == ASSUME Inv, Lists, [Next]_vars, ~Crash PROVE FilesGo
<1>1. ASSUME NEW c \in Cleaner, Release(c) \/ CleanFails(c) PROVE FilesGo
  BY <1>1, CleanupsGo, NamedEntries DEF FilesGo, Artifact
<1>2. CASE UNCHANGED files
  BY <1>2 DEF FilesGo
<1>. QED
  BY <1>1, <1>2, PushesGo, FinishesGo
     DEF Next, vars, UpdateSettings, Abandon, ProcessJob, Settle

LEMMA UnlinkedNext ==
  ASSUME Inv, Lists, UnlinkedIsGone, [Next]_vars
  PROVE  UnlinkedIsGone'
<1>. SUFFICES ASSUME NEW c \in Cleaner, cleaner'[c].pc \in {"sync", "mark"},
                     Head(cleaner'[c].todo) # Accepted
              PROVE  files'[Head(cleaner'[c].todo)] = Absent
  BY DEF UnlinkedIsGone
<1>0. DOMAIN cleaner = Cleaner /\ DOMAIN files = Entry
  BY DEF Inv, Shapes
<1>1. CASE CleanUnlink(c)
  <2>1. Head(cleaner[c].todo) \in Entry
    BY <1>1, HeadIsNamed, NamedEntries DEF CleanUnlink
  <2>. QED
    BY <1>0, <1>1, <2>1 DEF CleanUnlink, NextFile, Without
<1>2. CASE cleaner'[c].todo = cleaner[c].todo /\ cleaner[c].pc \in {"sync", "mark"} /\ ~Crash
  <2>1. PICK i \in Stored : Head(cleaner[c].todo) = chunk[i].file
    BY <1>2, HeadIsNamed DEF Artifact
  <2>2. files[Head(cleaner[c].todo)] = Absent
    BY <1>2 DEF UnlinkedIsGone
  <2>. QED
    BY <1>2, <2>1, <2>2, AllGo DEF FilesGo
<1>3. ~Crash
  BY DEF Crash
<1>4. ASSUME NEW d \in Cleaner, Release(d) \/ CleanFails(d)
      PROVE  \/ CleanUnlink(c)
             \/ cleaner'[c].todo = cleaner[c].todo /\ cleaner[c].pc \in {"sync", "mark"}
  <2>1. CASE d # c
    <3>1. cleaner'[c] = cleaner[c]
      BY <1>0, <1>4, <2>1 DEF Release, CleanList, CleanListChunks, CleanUnlink, CleanSync,
                              CleanMark, CleanDirs, CleanFails, NextFile, Advance
    <3>. QED
      BY <3>1
  <2>2. CASE d = c
    BY <1>0, <1>4, <2>2 DEF Release, CleanList, CleanListChunks, CleanUnlink, CleanSync,
                            CleanMark, CleanDirs, CleanFails, NextFile, Advance
  <2>. QED
    BY <2>1, <2>2
<1>5. CASE UNCHANGED cleaner
  BY <1>2, <1>3, <1>5
<1>. QED
  BY <1>1, <1>2, <1>3, <1>4, <1>5
     DEF Next, vars, PushStep, PushLoad, PushLook, PushWrite, PushSync, PushStore, PushDiscard,
         PushFails, PushDropped, PushUnchanged, FinalizeStep, FinList, FinCompose, FinRename,
         FinSync, FinSettings, FinCommit, FinDiscard, FinFails, FinDropped, FinUnchanged,
         UpdateSettings, Abandon, ProcessJob, Settle

(* Only the mark records a release, of a file its cleanup has unlinked.     *)
LEMMA MarksAreTrue ==
  ASSUME Inv, RowsMatch, Lists, UnlinkedIsGone, [Next]_vars,
         NEW i \in Index, chunk'[i].released, ~chunk[i].released
  PROVE  files'[chunk'[i].file] = Absent
<1>0. chunk \in [Index -> ChunkRow] /\ push \in [Pusher -> PushRequest]
  BY DEF Inv, Shapes
<1>1. ASSUME NEW p \in Pusher, PushStore(p) PROVE FALSE
  <2>1. UNCHANGED chunk \/ chunk' = [chunk EXCEPT ![push[p].index] =
            [hash |-> push[p].bytes, file |-> Candidate(p), released |-> FALSE]]
    BY <1>1 DEF PushStore
  <2>2. push[p].index \in Index
    BY <1>0 DEF PushRequest
  <2>. QED
    BY <1>0, <2>1, <2>2
<1>2. ASSUME NEW c \in Cleaner, CleanMark(c) PROVE files'[chunk'[i].file] = Absent
  <2>1. PICK file : file = Head(cleaner[c].todo)
    OBVIOUS
  <2>2. /\ chunk' = [j \in Index |-> [chunk[j] EXCEPT !.released = @ \/ chunk[j].file = file]]
        /\ UNCHANGED files /\ cleaner[c].pc = "mark"
    BY <1>2, <2>1 DEF CleanMark
  <2>3. chunk'[i].file = chunk[i].file /\ chunk[i].file = file
    BY <1>0, <2>2 DEF ChunkRow
  <2>4. file \in Artifact
    BY <2>1, <2>2, HeadIsNamed
  <2>5. file \in Entry
    BY <2>4, NamedEntries
  <2>6. i \in Stored
    BY <2>3, <2>5, NoFileIsNoEntry DEF RowsMatch, Stored
  <2>7. file # Accepted
    BY <2>3, <2>6, StoredIsCandidate, Entries
  <2>. QED
    BY <2>1, <2>2, <2>3, <2>7 DEF UnlinkedIsGone
<1>3. ~UNCHANGED chunk
  OBVIOUS
<1>. QED
  BY <1>1, <1>2, <1>3
     DEF Next, vars, PushStep, PushLoad, PushLook, PushWrite, PushSync, PushDiscard, PushFails,
         PushDropped, FinalizeStep, FinList, FinCompose, FinRename, FinSync, FinSettings,
         FinCommit, FinDiscard, FinFails, FinDropped, FinUnchanged, Release, CleanList,
         CleanListChunks, CleanUnlink, CleanSync, CleanDirs, CleanFails, UpdateSettings, Abandon,
         ProcessJob, Settle, Crash

LEMMA InitLists == Init => RowsMatch /\ Lists
<1>. SUFFICES ASSUME Init PROVE RowsMatch /\ Lists
  OBVIOUS
<1>1. RowsMatch
  BY DEF Init, RowsMatch
<1>2. Lists
  BY EmptyList DEF Init, Lists, Steps
<1>. QED
  BY <1>1, <1>2

(* Rows match files, and cleanups have lists of what rows name.             *)
THEOREM ListsInvariance == Spec => [](RowsMatch /\ Lists)
<1>1. Inv /\ RowsMatch /\ Lists /\ [Next]_vars => (RowsMatch /\ Lists)'
  BY RowSteps, ListSteps
<1>. QED
  BY <1>1, InitLists, Invariance, PTL DEF Spec

-----------------------------------------------------------------------------
(* Types                                                                    *)

Contents == files \in [Entry -> Content] /\ disk \in [Entry -> Content]

(* A finalize past its listing composes payloads only.                      *)
ListedComplete == \A f \in Finalizer : fin[f].pc \in Listed => ChunkSetComplete

Typed == /\ Contents /\ ListedComplete
         /\ row.hash \in {NoHash} \cup [Index -> Bytes]
         /\ errors \in 0..MaxErrors /\ crashes \in 0..MaxCrashes

LEMMA Trees ==
  /\ Absent \in Content /\ Empty \in Content /\ \A b \in Bytes : <<b>> \in Content
  /\ \A tree \in [Entry -> Content] : \A e :
       /\ Without(tree, e) \in [Entry -> Content]
       /\ \A content \in Content : With(tree, e, content) \in [Entry -> Content]
  /\ \A tree \in [Entry -> Content] : \A dirs : WithDirs(tree, dirs) \in [Entry -> Content]
<1>1. Absent \in Content /\ Empty \in Content /\ \A b \in Bytes : <<b>> \in Content
  BY DEF Content
<1>. QED
  BY <1>1 DEF Without, With, WithDirs

LEMMA ComposedIsContent ==
  ASSUME Inv, ChunkSetComplete
  PROVE  Composed \in [Index -> Bytes] /\ Composed \in Content
<1>1. \A i \in Index : chunk[i].hash \in Bytes
  BY DEF Inv, Shapes, ChunkRow, ChunkSetComplete
<1>. QED
  BY <1>1 DEF Composed, Content

LEMMA ContentSteps ==
  ASSUME Inv, Lists, Typed, [Next]_vars
  PROVE  Contents'
<1>0. files \in [Entry -> Content] /\ disk \in [Entry -> Content]
  BY DEF Typed, Contents
<1>1. ASSUME NEW p \in Pusher, PushStep(p) PROVE Contents'
  <2>1. CASE PushWrite(p)
    <3>1. <<push[p].bytes>> \in Content
      BY Trees DEF Inv, Shapes, PushRequest
    <3>. QED
      BY <1>0, <2>1, <3>1, Trees DEF PushWrite, Contents
  <2>2. CASE PushSync(p)
    BY <1>0, <2>2 DEF PushSync, Synced, Contents
  <2>3. CASE PushDiscard(p)
    BY <1>0, <2>3, Trees DEF PushDiscard, Contents
  <2>4. CASE UNCHANGED <<files, disk>>
    BY <1>0, <2>4 DEF Contents
  <2>. QED
    BY <1>1, <2>1, <2>2, <2>3, <2>4 DEF PushStep, PushLoad, PushLook, PushStore, PushFails,
                                        PushDropped
<1>2. ASSUME NEW f \in Finalizer, FinalizeStep(f) PROVE Contents'
  <2>1. CASE FinCompose(f)
    <3>1. Composed \in Content
      BY <2>1, ComposedIsContent DEF FinCompose, Typed, ListedComplete, Listed
    <3>2. PICK content \in {Composed, Empty} : files' = With(WithDirs(files, {JobDir}), Temp(f), content)
      BY <2>1 DEF FinCompose
    <3>3. files' \in [Entry -> Content]
      BY <1>0, <3>1, <3>2, Trees
    <3>. QED
      BY <1>0, <2>1, <3>3 DEF FinCompose, Contents
  <2>2. CASE FinRename(f)
    <3>1. files[Temp(f)] \in Content
      BY <1>0, ComposedEntries
    <3>2. With(files, Accepted, files[Temp(f)]) \in [Entry -> Content]
      BY <1>0, <3>1, Trees
    <3>. QED
      BY <1>0, <2>2, <3>2, Trees DEF FinRename, Contents
  <2>3. CASE FinSync(f)
    BY <1>0, <2>3 DEF FinSync, Synced, Contents
  <2>4. CASE FinDiscard(f)
    BY <1>0, <2>4, Trees DEF FinDiscard, Contents
  <2>5. CASE UNCHANGED <<files, disk>>
    BY <1>0, <2>5 DEF Contents
  <2>. QED
    BY <1>2, <2>1, <2>2, <2>3, <2>4, <2>5 DEF FinalizeStep, FinList, FinSettings, FinCommit,
                                              FinFails, FinDropped
<1>3. ASSUME NEW c \in Cleaner, Release(c) \/ CleanFails(c) PROVE Contents'
  <2>1. CASE CleanUnlink(c)
    BY <1>0, <2>1, Trees DEF CleanUnlink, Contents
  <2>2. CASE CleanSync(c)
    BY <1>0, <2>2 DEF CleanSync, ParentSynced, Contents
  <2>3. CASE CleanDirs(c)
    <3> DEFINE gone(tree, d) == \A e \in Entry : Within(e, d) => tree[e] = Absent
               swept(tree, d) == IF gone(tree, d) THEN Without(tree, d) ELSE tree
               inner == IF Head(cleaner[c].todo) \in ChunkFile THEN swept(files, ChunkDir)
                                                               ELSE files
    <3>1. \A tree \in [Entry -> Content] : \A d : swept(tree, d) \in [Entry -> Content]
      BY Trees
    <3>2. files' = swept(inner, JobDir) /\ disk' = disk
      BY <2>3 DEF CleanDirs
    <3>. HIDE DEF swept
    <3>3. inner \in [Entry -> Content]
      BY <1>0, <3>1
    <3>. QED
      BY <1>0, <3>1, <3>2, <3>3 DEF Contents
  <2>4. CASE UNCHANGED <<files, disk>>
    BY <1>0, <2>4 DEF Contents
  <2>. QED
    BY <1>3, <2>1, <2>2, <2>3, <2>4 DEF Release, CleanList, CleanListChunks, CleanMark, CleanFails
<1>4. CASE \E tree \in Survivors : files' = tree /\ disk' = tree
  <2>1. PICK tree \in Survivors : files' = tree /\ disk' = tree
    BY <1>4
  <2>2. PICK lost \in SUBSET {e \in Entry : disk[e] # files[e]} :
          tree = Reachable([e \in Entry |-> IF e \in lost THEN disk[e] ELSE files[e]])
    BY <2>1 DEF Survivors
  <2> DEFINE left == [e \in Entry |-> IF e \in lost THEN disk[e] ELSE files[e]]
  <2>3. left \in [Entry -> Content]
    BY <1>0
  <2>. HIDE DEF left
  <2>4. Reachable(left) \in [Entry -> Content]
    BY <2>3, Trees DEF Reachable
  <2>. QED
    BY <2>1, <2>2, <2>4 DEF Contents, left
<1>5. CASE UNCHANGED <<files, disk>>
  BY <1>0, <1>5 DEF Contents
<1>. QED
  BY <1>1, <1>2, <1>3, <1>4, <1>5, CrashTrees
     DEF Next, vars, UpdateSettings, Abandon, ProcessJob, Settle

(* Only the listing takes a finalize from outside to past it.               *)
LEMMA ListedSteps ==
  ASSUME Inv, RowsGrow, Typed, [Next]_vars
  PROVE  ListedComplete'
<1>0. fin \in [Finalizer -> FinalizeRequest] /\ ListedComplete
  BY DEF Inv, Shapes, Typed
<1>1. ChunkSetComplete => ChunkSetComplete'
  BY DEF ChunkSetComplete, RowsGrow
<1>2. ASSUME NEW f \in Finalizer, FinalizeStep(f) PROVE ListedComplete'
  <2>1. \A g \in Finalizer : g # f => fin'[g] = fin[g]
    <3>1. PICK new : fin' = [fin EXCEPT ![f] = new]
      <4>1. CASE FinList(f) \/ FinCompose(f) \/ FinCommit(f) \/ FinFails(f) \/ FinDropped(f)
        BY <4>1 DEF FinList, FinCompose, FinCommit, FinFails, FinDropped, FinAnswers, FinGoes
      <4>2. CASE FinRename(f) \/ FinSettings(f) \/ FinDiscard(f)
        BY <4>2 DEF FinRename, FinSettings, FinDiscard, FinGoes
      <4>3. CASE FinSync(f)
        <5>1. FinGoes(f, "settings") \/ FinAnswers(f, "done", "500")
          BY <4>3 DEF FinSync
        <5>. QED
          BY <5>1 DEF FinGoes, FinAnswers
      <4>. QED
        BY <1>2, <4>1, <4>2, <4>3 DEF FinalizeStep
    <3>. QED
      BY <1>0, <3>1
  <2>2. fin'[f].pc \in Listed => ChunkSetComplete
    <3>1. CASE FinList(f)
      BY <1>0, <3>1 DEF FinList, FinAnswers, FinGoes, FinAt, FinalizeRequest, Listed
    <3>2. CASE fin[f].pc \in Listed
      BY <1>0, <3>2 DEF ListedComplete
    <3>3. CASE FinDiscard(f) \/ FinDropped(f)
      BY <1>0, <3>3 DEF FinDiscard, FinDropped, FinAnswers, FinGoes, FinAt, FinalizeRequest, Listed
    <3>4. CASE FinFails(f)
      BY <1>0, <3>4 DEF FinFails, FinAnswers, FinAt, Listed
    <3>. QED
      BY <1>2, <3>1, <3>2, <3>3, <3>4
         DEF FinalizeStep, FinCompose, FinRename, FinSync, FinSettings, FinCommit, Listed
  <2>. QED
    BY <1>0, <1>1, <2>1, <2>2 DEF ListedComplete
<1>3. CASE Crash
  <2>1. \A f \in Finalizer : fin'[f].pc = "done"
    BY <1>3 DEF Crash, FinAt
  <2>. QED
    BY <2>1 DEF ListedComplete, Listed
<1>4. CASE UNCHANGED fin
  BY <1>0, <1>1, <1>4 DEF ListedComplete
<1>. QED
  BY <1>2, <1>3, <1>4
     DEF Next, vars, PushStep, PushLoad, PushLook, PushWrite, PushSync, PushStore, PushDiscard,
         PushFails, PushDropped, PushUnchanged, Release, CleanList, CleanListChunks, CleanUnlink, CleanSync,
         CleanMark, CleanDirs, CleanFails, CleanUnchanged, UpdateSettings, Abandon, ProcessJob,
         Settle

LEMMA HashSteps ==
  ASSUME Inv, Typed, [Next]_vars
  PROVE  row'.hash \in {NoHash} \cup [Index -> Bytes]
<1>0. row.hash \in {NoHash} \cup [Index -> Bytes]
  BY DEF Typed
<1>1. CASE row'.hash = row.hash
  BY <1>0, <1>1
<1>2. ASSUME NEW f \in Finalizer, FinCommit(f) PROVE row'.hash \in {row.hash, Composed}
  BY <1>2 DEF FinCommit
<1>3. ASSUME NEW f \in Finalizer, FinCommit(f) PROVE Composed \in [Index -> Bytes]
  BY <1>3, ComposedIsContent DEF FinCommit, Typed, ListedComplete, Listed
<1>4. ASSUME NEW c \in Cleaner, CleanMark(c) PROVE row'.hash = row.hash
  BY <1>4 DEF CleanMark, Inv, Shapes
<1>5. ASSUME NEW status, Settle(status) PROVE row'.hash = row.hash
  BY <1>5 DEF Settle, Inv, Shapes
<1>6. CASE UNCHANGED row
  BY <1>0, <1>6
<1>. QED
  BY <1>0, <1>1, <1>2, <1>3, <1>4, <1>5, <1>6
     DEF Next, vars, PushStep, PushLoad, PushLook, PushWrite, PushSync, PushStore, PushDiscard,
         PushFails, PushDropped, PushUnchanged, FinalizeStep, FinList, FinCompose, FinRename,
         FinSync, FinSettings, FinDiscard, FinFails, FinDropped, Release, CleanList, CleanListChunks, CleanUnlink,
         CleanSync, CleanDirs, CleanFails, UpdateSettings, Abandon, ProcessJob, Crash

LEMMA CounterSteps ==
  ASSUME Typed, [Next]_vars
  PROVE  errors' \in 0..MaxErrors /\ crashes' \in 0..MaxCrashes
<1>0. errors \in 0..MaxErrors /\ crashes \in 0..MaxCrashes
  BY DEF Typed
<1>1. errors' = errors \/ Error
  BY DEF Next, vars, PushStep, PushLoad, PushLook, PushWrite, PushSync, PushStore, PushDiscard,
         PushFails, PushDropped, FinalizeStep, FinList, FinCompose, FinRename, FinSync,
         FinSettings, FinCommit, FinDiscard, FinFails, FinDropped, Release, CleanList,
         CleanListChunks, CleanUnlink, CleanSync, CleanMark, CleanDirs, CleanFails, UpdateSettings, Abandon,
         ProcessJob, Settle, Crash
<1>2. crashes' = crashes \/ (crashes < MaxCrashes /\ crashes' = crashes + 1)
  BY DEF Next, vars, PushStep, PushLoad, PushLook, PushWrite, PushSync, PushStore, PushDiscard,
         PushFails, PushDropped, PushUnchanged, FinalizeStep, FinList, FinCompose, FinRename,
         FinSync, FinSettings, FinCommit, FinDiscard, FinFails, FinDropped, FinUnchanged,
         Release, CleanList, CleanListChunks, CleanUnlink, CleanSync, CleanMark, CleanDirs, CleanFails,
         CleanUnchanged, UpdateSettings, Abandon, ProcessJob, Settle, Crash
<1>. QED
  BY <1>0, <1>1, <1>2, BoundsAreNumbers DEF Error

LEMMA InitTyped == Init => Typed
<1>. SUFFICES ASSUME Init PROVE Typed
  OBVIOUS
<1>1. Contents
  BY Trees DEF Init, Contents
<1>2. ListedComplete
  BY DEF Init, ListedComplete, Listed
<1>. QED
  BY <1>1, <1>2, BoundsAreNumbers DEF Init, Typed

LEMMA TypedIsTypeOK == Inv /\ Lists /\ Typed => TypeOK
<1>. SUFFICES ASSUME Inv, Lists, Typed PROVE TypeOK
  OBVIOUS
<1>1. row \in JobRow
  BY DEF Inv, Shapes, Typed, JobRow
<1>2. cleaner \in [Cleaner -> Cleanup]
  <2>. SUFFICES ASSUME NEW c \in Cleaner PROVE cleaner[c] \in Cleanup
    BY DEF Lists
  <2>1. Artifact \subseteq AudioFile
    BY NamedEntries DEF Entry
  <2>2. PICK todo : todo = cleaner[c].todo
    OBVIOUS
  <2>3. todo \in Seq(Artifact) /\ Len(todo) <= ChunkCount + 1
    BY <2>2 DEF Lists, List
  <2>4. Len(todo) \in 0..(ChunkCount + 1) /\ todo \in [1..Len(todo) -> AudioFile]
    BY <2>1, <2>3, SomeChunks
  <2>5. todo \in UNION {[1..n -> AudioFile] : n \in 0..(ChunkCount + 1)}
    BY <2>4
  <2>. QED
    BY <2>2, <2>5 DEF Cleanup, Lists, Steps
<1>. QED
  BY <1>1, <1>2 DEF Inv, Shapes, Typed, Contents, TypeOK

(* Rows, requests, files and lists keep their types: chunk rows name        *)
(* candidates, files hold payloads or compositions of them, and a cleanup   *)
(* never lists more than the chunks and the composed audio.                 *)
THEOREM TypesAreKept == Spec => []TypeOK
<1>1. Inv /\ RowsMatch /\ Lists /\ Typed /\ [Next]_vars => Typed'
  BY RowSteps, ContentSteps, ListedSteps, HashSteps, CounterSteps DEF Typed
<1>. QED
  BY <1>1, InitTyped, TypedIsTypeOK, Invariance, ListsInvariance, PTL DEF Spec
(* However many cleanups are at work, a chunk is recorded as released only  *)
(* when its file is gone, and no step but a power loss brings the file of a *)
(* released chunk back: cleanup_artifacts and its two callers.              *)
THEOREM ReleaseIsUndoneByPowerLossOnly == Spec => OnlyPowerLossUndoesRelease
<1>1. Init => UnlinkedIsGone
  BY DEF Init, UnlinkedIsGone
<1>2. Inv /\ RowsMatch /\ Lists /\ UnlinkedIsGone /\ [Next]_vars => UnlinkedIsGone'
  BY UnlinkedNext
<1>3. TypeOK /\ Inv /\ RowsMatch /\ Lists /\ UnlinkedIsGone /\ [Next]_vars =>
        [\A i \in Index : ReleasedAndBack(i)' => ReleasedAndBack(i) \/ crashes' > crashes]_vars
  <2>. SUFFICES ASSUME TypeOK, Inv, RowsMatch, Lists, UnlinkedIsGone, [Next]_vars,
                       NEW i \in Index, chunk'[i].released, files'[chunk'[i].file] # Absent,
                       ~(crashes' > crashes)
                PROVE  chunk[i].released /\ files[chunk[i].file] # Absent
    BY DEF ReleasedAndBack
  <2>1. ~Crash
    BY DEF Crash, TypeOK
  <2>2. chunk[i].released
    BY MarksAreTrue
  <2>3. i \in Stored /\ chunk'[i].file = chunk[i].file
    BY <2>2, RowSteps DEF RowsMatch, RowsGrow, Stored
  <2>. QED
    BY <2>1, <2>2, <2>3, AllGo DEF FilesGo
<1>. QED
  BY <1>1, <1>2, <1>3, Invariance, ListsInvariance, TypesAreKept, PTL
     DEF Spec, OnlyPowerLossUndoesRelease

=============================================================================
