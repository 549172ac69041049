------------------------ MODULE RecordingRecovery_proofs ------------------------
(***************************************************************************)
(* Proofs about RecordingRecovery, for any number of recordings, kills and *)
(* failures and any number of starts, stops and reconciliations beside one *)
(* another.                                                                *)
(***************************************************************************)
EXTENDS RecordingRecovery, TLAPS

(* The files of a recording, and what the tuples that name them are.       *)
LEMMA FilesOfRecordings ==
  /\ \A r \in Recordings : Original(r) \in Files /\ Repaired(r) \in Files
                           /\ Original(r) # Repaired(r)
                           /\ RecordingOf(Original(r)) = r /\ RecordingOf(Repaired(r)) = r
  /\ \A f \in Files : /\ RecordingOf(f) \in Recordings
                      /\ f = Original(RecordingOf(f)) \/ f = Repaired(RecordingOf(f))
  /\ \A q, r \in Recordings : Original(q) = Original(r) \/ Repaired(q) = Repaired(r) => q = r
  /\ \A q, r \in Recordings : Original(q) # Repaired(r)
  /\ None \notin Recordings /\ NoFile \notin Files
  BY DEF Original, Repaired, Files, RecordingOf, Recordings, None, NoFile

(* What a step of recording leaves is of its type and names its recording. *)
LEMMA RecordTypes ==
  ASSUME TypeOK, WorkIsNamed, Record
  PROVE  TypeOK' /\ WorkIsNamed'
<1>. USE FilesOfRecordings
     DEF TypeOK, WorkIsNamed, Elsewhere, UploadVars, Contents, StartTo, StopTo
<1>1. ASSUME NEW r \in Recordings, Start(r)
      PROVE  TypeOK' /\ WorkIsNamed'
  <2>1. CASE Tap(r)
    BY <2>1 DEF Tap
  <2>2. CASE RecorderStarts(r)
    BY <2>2 DEF RecorderStarts
  <2>3. CASE ShowRecording(r)
    BY <2>3 DEF ShowRecording
  <2>4. CASE MarkStarted(r)
    BY <2>4 DEF MarkStarted
  <2>5. CASE StartFails(r)
    <3>1. faults' \in 0..MaxFaults
      BY <2>5, BoundsAssumption DEF StartFails, Fault
    <3>2. marker' \in Recordings \cup {None} /\ listening' \in BOOLEAN
      BY <2>5 DEF StartFails
    <3>3. starter' \in [Recordings -> {"idle", "recorder", "show", "mark"}]
      BY <2>5 DEF StartFails
    <3>. QED
      BY <2>5, <3>1, <3>2, <3>3 DEF StartFails
  <2>. QED
    BY <1>1, <2>1, <2>2, <2>3, <2>4, <2>5 DEF Start
<1>2. CASE Speak
  BY <1>2 DEF Speak, RecordingVars
<1>3. ASSUME NEW t \in Stops, Stop(t)
      PROVE  TypeOK' /\ WorkIsNamed'
  <2>1. CASE TapStop(t)
    BY <2>1 DEF TapStop
  <2>2. CASE RecorderStops(t)
    <3>1. /\ recorder' \in Recordings \cup {None} /\ timed' \in BOOLEAN
          /\ stopper' \in [Stops -> [pc : {"idle", "recorder", "untimed", "unmark", "queue"},
                                     rec : Recordings \cup {None}]]
          /\ \A u \in Stops : stopper'[u].pc = "queue" => stopper'[u].rec # None
      BY <2>2 DEF RecorderStops
    <3>. QED
      BY <2>2, <3>1 DEF RecorderStops
  <2>3. CASE StopFails(t)
    BY <2>3, BoundsAssumption DEF StopFails, Fault
  <2>4. CASE MarkCompleted(t)
    <3>1. /\ marker' \in Recordings \cup {None} /\ listening' \in BOOLEAN
          /\ stopper' \in [Stops -> [pc : {"idle", "recorder", "untimed", "unmark", "queue"},
                                     rec : Recordings \cup {None}]]
          /\ \A u \in Stops : stopper'[u].pc = "queue" => stopper'[u].rec # None
      BY <2>4 DEF MarkCompleted
    <3>. QED
      BY <2>4, <3>1 DEF MarkCompleted
  <2>5. CASE QueueCompleted(t)
    BY <2>5 DEF QueueCompleted, Queued
  <2>. QED
    BY <1>3, <2>1, <2>2, <2>3, <2>4, <2>5 DEF Stop
<1>. QED
  BY <1>1, <1>2, <1>3 DEF Record

(* The same of the launch.                                                  *)
LEMMA RecoverTypes ==
  ASSUME TypeOK, WorkIsNamed, Recover
  PROVE  TypeOK' /\ WorkIsNamed'
<1>. USE FilesOfRecordings
     DEF TypeOK, WorkIsNamed, RecordingVars, UploadVars, Contents, BootTo, AppAt, With
<1>1. CASE Launch
  BY <1>1 DEF Launch
<1>2. CASE NothingInterrupted
  BY <1>2 DEF NothingInterrupted
<1>3. CASE LookAtInterrupted
  BY <1>3 DEF LookAtInterrupted
<1>4. CASE DiscardShort
  BY <1>4, BoundsAssumption DEF DiscardShort, Fault
<1>5. CASE RepairNothing
  BY <1>5 DEF RepairNothing
<1>6. CASE RepairBegins
  BY <1>6 DEF RepairBegins
<1>7. CASE RepairWritten
  BY <1>7 DEF RepairWritten
<1>8. CASE RepairWriteFails
  BY <1>8, BoundsAssumption DEF RepairWriteFails, Fault
<1>9. CASE OriginalReplaced
  BY <1>9 DEF OriginalReplaced
<1>10. CASE OriginalNotReplaced
  BY <1>10, BoundsAssumption DEF OriginalNotReplaced, Fault
<1>11. CASE BootMarkCompleted
  BY <1>11 DEF BootMarkCompleted
<1>12. CASE QueueRecovered
  BY <1>12 DEF QueueRecovered, Queued
<1>13. CASE DropCopy
  BY <1>13, BoundsAssumption DEF DropCopy, Fault
<1>. QED
  BY <1>1, <1>2, <1>3, <1>4, <1>5, <1>6, <1>7, <1>8, <1>9, <1>10, <1>11, <1>12, <1>13
     DEF Recover

(* The same of reconciliation.                                              *)
LEMMA ScanTypes ==
  ASSUME TypeOK, WorkIsNamed, NEW x \in Reconcilers, Scan(x)
  PROVE  TypeOK' /\ WorkIsNamed'
<1>. USE FilesOfRecordings
     DEF TypeOK, WorkIsNamed, RecordingVars, UploadVars, ScanTo, NoScan
<1>1. CASE ScanStarts(x)
  BY <1>1 DEF ScanStarts
<1>2. CASE ScanLists(x)
  BY <1>2 DEF ScanLists
<1>3. CASE ScanQueues(x)
  BY <1>3 DEF ScanQueues, Queued
<1>4. CASE ScanEnds(x)
  BY <1>4 DEF ScanEnds
<1>5. ASSUME NEW f \in Files, ScanLooks(x, f)
      PROVE  TypeOK' /\ WorkIsNamed'
  <2>1. CASE f = Original(scan[x].skip) \/ row[f] # "none"
    <3>1. scan' = [scan EXCEPT ![x] = [pc |-> "look", skip |-> scan[x].skip,
                                       left |-> scan[x].left \ {f}, file |-> NoFile]]
      BY <1>5, <2>1 DEF ScanLooks
    <3>2. scan' \in [Reconcilers -> [pc : {"idle", "list", "look", "insert"},
                                     skip : Recordings \cup {None}, left : SUBSET Files,
                                     file : Files \cup {NoFile}]]
      BY <1>5, <3>1
    <3>3. WorkIsNamed'
      BY <1>5, <3>1 DEF ScanLooks
    <3>4. TypeOK'
      BY <1>5, <3>2 DEF ScanLooks
    <3>. QED
      BY <3>3, <3>4
  <2>2. CASE ~(f = Original(scan[x].skip) \/ row[f] # "none")
    <3>1. scan' = [scan EXCEPT ![x] = [pc |-> "insert", skip |-> scan[x].skip,
                                       left |-> scan[x].left \ {f}, file |-> f]]
      BY <1>5, <2>2 DEF ScanLooks
    <3>2. f # NoFile
      BY <1>5
    <3>3. scan' \in [Reconcilers -> [pc : {"idle", "list", "look", "insert"},
                                     skip : Recordings \cup {None}, left : SUBSET Files,
                                     file : Files \cup {NoFile}]]
      BY <1>5, <3>1
    <3>4. WorkIsNamed'
      BY <1>5, <3>1, <3>2 DEF ScanLooks
    <3>5. TypeOK'
      BY <1>5, <3>3 DEF ScanLooks
    <3>. QED
      BY <3>4, <3>5
  <2>. QED
    BY <2>1, <2>2
<1>. QED
  BY <1>1, <1>2, <1>3, <1>4, <1>5 DEF Scan

(* The same of the upload.                                                  *)
LEMMA UploadTypes ==
  ASSUME TypeOK, WorkIsNamed, Upload
  PROVE  TypeOK' /\ WorkIsNamed'
<1>. USE FilesOfRecordings
     DEF TypeOK, WorkIsNamed, RecordingVars, UploadVars, Contents, UploadTo, NoUpload, With
<1>1. ASSUME NEW f \in Files, UploadMissing(f) \/ UploadReads(f) \/ UploadCleansUp(f)
      PROVE  TypeOK' /\ WorkIsNamed'
  <2>1. CASE UploadMissing(f)
    BY <2>1 DEF UploadMissing
  <2>2. CASE UploadReads(f)
    BY <2>2 DEF UploadReads, Whole
  <2>3. CASE UploadCleansUp(f)
    BY <2>3 DEF UploadCleansUp
  <2>. QED
    BY <1>1, <2>1, <2>2, <2>3
<1>2. CASE UploadSubmits
  BY <1>2 DEF UploadSubmits
<1>3. CASE UploadDiscards
  BY <1>3 DEF UploadDiscards
<1>4. CASE UploadDiscardFails
  BY <1>4, BoundsAssumption DEF UploadDiscardFails, Fault
<1>5. CASE UploadForgets
  BY <1>5 DEF UploadForgets
<1>. QED
  BY <1>1, <1>2, <1>3, <1>4, <1>5 DEF Upload

(* The same of a kill.                                                      *)
LEMMA KillTypes ==
  ASSUME TypeOK, WorkIsNamed, Kill
  PROVE  TypeOK' /\ WorkIsNamed'
<1>1. faults' \in 0..MaxFaults
  BY BoundsAssumption DEF TypeOK, Kill, Fault
<1>2. /\ recorder' = None /\ listening' \in BOOLEAN /\ timed' \in BOOLEAN
      /\ starter' \in [Recordings -> {"idle", "recorder", "show", "mark"}]
      /\ stopper' \in [Stops -> [pc : {"idle", "recorder", "untimed", "unmark", "queue"},
                                 rec : Recordings \cup {None}]]
      /\ \A t \in Stops : stopper'[t].pc = "idle"
      /\ boot'.pc = "off" /\ upload'.pc = "idle"
  BY DEF Kill, NoStop, NoUpload, AppAt
<1>3. /\ boot' \in [pc : {"off", "look", "discard", "repair", "write", "replace", "undo",
                           "unmark", "ensure", "up"},
                     rec : Recordings \cup {None}, file : Files \cup {NoFile}]
      /\ upload' \in [pc : {"idle", "submit", "discard", "forget"},
                       file : Files \cup {NoFile}, whole : BOOLEAN]
  BY DEF Kill, NoUpload, AppAt
<1>4. /\ scan' \in [Reconcilers -> [pc : {"idle", "list", "look", "insert"},
                                     skip : Recordings \cup {None}, left : SUBSET Files,
                                     file : Files \cup {NoFile}]]
      /\ \A x \in Reconcilers : scan'[x].pc = "idle"
  BY DEF Kill, NoScan
<1>. QED
  BY <1>1, <1>2, <1>3, <1>4 DEF TypeOK, WorkIsNamed, Kill

(* The same of a background task that is stopped.                           *)
LEMMA TaskTypes ==
  ASSUME TypeOK, WorkIsNamed, NEW x \in Isolates, TaskStopped(x)
  PROVE  TypeOK' /\ WorkIsNamed'
<1>1. faults' \in 0..MaxFaults
  BY BoundsAssumption DEF TypeOK, TaskStopped, Fault
<1>2. /\ scan' \in [Reconcilers -> [pc : {"idle", "list", "look", "insert"},
                                     skip : Recordings \cup {None}, left : SUBSET Files,
                                     file : Files \cup {NoFile}]]
      /\ \A y \in Reconcilers : scan'[y].pc = "insert" => scan'[y].file # NoFile
  BY DEF TypeOK, WorkIsNamed, TaskStopped, NoScan
<1>3. /\ upload' \in [pc : {"idle", "submit", "discard", "forget"},
                       file : Files \cup {NoFile}, whole : BOOLEAN]
      /\ upload'.pc # "idle" => upload'.file # NoFile
  <2>1. upload' = upload \/ upload' = NoUpload
    BY DEF TaskStopped
  <2>2. CASE upload' = upload
    BY <2>2 DEF TypeOK, WorkIsNamed
  <2>3. CASE upload' = NoUpload
    BY <2>3 DEF NoUpload
  <2>. QED
    BY <2>1, <2>2, <2>3
<1>. QED
  BY <1>1, <1>2, <1>3 DEF TypeOK, WorkIsNamed, TaskStopped, RecordingVars

-----------------------------------------------------------------------------
(* What keeps a recording: the parts of Inv beside the types.               *)
Safe == BootBeforeRecording /\ SentIsHeard /\ RepairIsSafe /\ FilesHoldWhatWasSaid
        /\ SpokenIsKept

(* The recorder only writes to its own original, which it has opened, when *)
(* the launch is over.                                                      *)
LEMMA RecordSafe ==
  ASSUME TypeOK, WorkIsNamed, Safe, Record
  PROVE  Safe'
<1>. USE FilesOfRecordings
     DEF TypeOK, WorkIsNamed, RecordingVars, Elsewhere, UploadVars, Contents, StartTo, StopTo, Safe,
         BootBeforeRecording, SentIsHeard, OriginalIsWhole, RepairIsSafe, FilesHoldWhatWasSaid, SpokenIsKept, AppUp
<1>1. ASSUME NEW r \in Recordings, Start(r)
      PROVE  Safe'
  <2>1. CASE Tap(r)
    BY <2>1 DEF Tap
  <2>2. CASE RecorderStarts(r)
    BY <2>2 DEF RecorderStarts
  <2>3. CASE ShowRecording(r)
    BY <2>3 DEF ShowRecording
  <2>4. CASE MarkStarted(r)
    BY <2>4 DEF MarkStarted
  <2>5. CASE StartFails(r)
    BY <2>5 DEF StartFails
  <2>. QED
    BY <1>1, <2>1, <2>2, <2>3, <2>4, <2>5 DEF Start
<1>2. CASE Speak
  BY <1>2 DEF Speak
<1>3. ASSUME NEW t \in Stops, Stop(t)
      PROVE  Safe'
  <2>1. CASE TapStop(t)
    BY <2>1 DEF TapStop
  <2>2. CASE RecorderStops(t)
    BY <2>2 DEF RecorderStops
  <2>3. CASE StopFails(t)
    BY <2>3 DEF StopFails
  <2>4. CASE MarkCompleted(t)
    BY <2>4 DEF MarkCompleted, None
  <2>5. CASE QueueCompleted(t)
    BY <2>5 DEF QueueCompleted, Queued
  <2>. QED
    BY <1>3, <2>1, <2>2, <2>3, <2>4, <2>5 DEF Stop
<1>. QED
  BY <1>1, <1>2, <1>3 DEF Record

(* The launch deletes a file that is short, or whose other copy is whole.   *)
LEMMA RecoverSafe ==
  ASSUME TypeOK, WorkIsNamed, Safe, Recover
  PROVE  Safe'
<1>. USE FilesOfRecordings
     DEF TypeOK, WorkIsNamed, RecordingVars, UploadVars, Contents, Safe, BootBeforeRecording,
         SentIsHeard, OriginalIsWhole, RepairIsSafe, FilesHoldWhatWasSaid, SpokenIsKept, AppUp,
         BootTo, With
<1>1. CASE Launch
  BY <1>1 DEF Launch, AppAt
<1>2. CASE NothingInterrupted
  BY <1>2 DEF NothingInterrupted
<1>3. CASE LookAtInterrupted
  BY <1>3 DEF LookAtInterrupted
<1>4. CASE DiscardShort
  BY <1>4 DEF DiscardShort
<1>5. CASE RepairNothing
  BY <1>5 DEF RepairNothing
<1>6. CASE RepairBegins
  BY <1>6 DEF RepairBegins
<1>7. CASE RepairWritten
  BY <1>7 DEF RepairWritten
<1>8. CASE RepairWriteFails
  BY <1>8 DEF RepairWriteFails
<1>9. CASE OriginalReplaced
  BY <1>9 DEF OriginalReplaced
<1>10. CASE OriginalNotReplaced
  BY <1>10 DEF OriginalNotReplaced
<1>11. CASE BootMarkCompleted
  BY <1>11 DEF BootMarkCompleted
<1>12. CASE QueueRecovered
  BY <1>12 DEF QueueRecovered, Queued
<1>13. CASE DropCopy
  BY <1>13 DEF DropCopy
<1>. QED
  BY <1>1, <1>2, <1>3, <1>4, <1>5, <1>6, <1>7, <1>8, <1>9, <1>10, <1>11, <1>12, <1>13
     DEF Recover

(* Reconciliation makes rows and touches no file.                           *)
LEMMA ScanSafe ==
  ASSUME TypeOK, WorkIsNamed, Safe, NEW x \in Reconcilers, Scan(x)
  PROVE  Safe'
<1>. USE FilesOfRecordings
     DEF TypeOK, WorkIsNamed, RecordingVars, UploadVars, Safe, BootBeforeRecording,
         SentIsHeard, OriginalIsWhole, RepairIsSafe, FilesHoldWhatWasSaid, SpokenIsKept, AppUp
<1>1. CASE ScanQueues(x)
  BY <1>1 DEF ScanQueues, Queued
<1>2. CASE ScanStarts(x) \/ ScanLists(x) \/ ScanEnds(x) \/ \E f \in Files : ScanLooks(x, f)
  <2>1. UNCHANGED <<said, file, RecordingVars, boot, row, UploadVars>>
    BY <1>2 DEF ScanStarts, ScanLists, ScanEnds, ScanLooks
  <2>. QED
    BY <2>1
<1>. QED
  BY <1>1, <1>2 DEF Scan

(* The upload deletes what was sent.                                        *)
LEMMA UploadSafe ==
  ASSUME TypeOK, WorkIsNamed, Safe, Upload
  PROVE  Safe'
<1>. USE FilesOfRecordings
     DEF TypeOK, WorkIsNamed, RecordingVars, UploadVars, Contents, Safe, BootBeforeRecording,
         SentIsHeard, OriginalIsWhole, RepairIsSafe, FilesHoldWhatWasSaid, SpokenIsKept, AppUp,
         UploadTo, NoUpload, With
<1>1. ASSUME NEW f \in Files, UploadMissing(f) \/ UploadReads(f) \/ UploadCleansUp(f)
      PROVE  Safe'
  BY <1>1 DEF UploadMissing, UploadReads, UploadCleansUp
<1>2. CASE UploadSubmits
  BY <1>2 DEF UploadSubmits
<1>3. CASE UploadDiscards
  BY <1>3 DEF UploadDiscards
<1>4. CASE UploadDiscardFails
  BY <1>4 DEF UploadDiscardFails
<1>5. CASE UploadForgets
  BY <1>5 DEF UploadForgets
<1>. QED
  BY <1>1, <1>2, <1>3, <1>4, <1>5 DEF Upload

(* A kill leaves the files and ends all work on them.                       *)
LEMMA KillSafe ==
  ASSUME TypeOK, WorkIsNamed, Safe, Kill
  PROVE  Safe'
BY FilesOfRecordings
   DEF Kill, AppAt, NoUpload, Safe, BootBeforeRecording, SentIsHeard, RepairIsSafe,
       FilesHoldWhatWasSaid, SpokenIsKept

(* So does the end of a background task.                                    *)
LEMMA TaskSafe ==
  ASSUME Safe, NEW x \in Isolates, TaskStopped(x)
  PROVE  Safe'
BY DEF TaskStopped, RecordingVars, NoUpload, Safe, BootBeforeRecording, SentIsHeard, RepairIsSafe,
       OriginalIsWhole, FilesHoldWhatWasSaid, SpokenIsKept, AppUp

-----------------------------------------------------------------------------
(* Inv holds when the app is first opened.                                  *)
LEMMA InitInv ==
  ASSUME Init
  PROVE  Inv
<1>1. TypeOK
  <2>1. faults \in 0..MaxFaults /\ jobs \in [Recordings -> Nat]
    BY BoundsAssumption DEF Init
  <2>2. listening \in BOOLEAN /\ upload \in [pc : {"idle", "submit", "discard", "forget"},
                                             file : Files \cup {NoFile}, whole : BOOLEAN]
    BY DEF Init, NoUpload
  <2>. QED
    BY <2>1, <2>2 DEF Init, TypeOK, NoStop, NoScan, AppAt, Contents
<1>2. WorkIsNamed /\ BootBeforeRecording
  BY DEF Init, WorkIsNamed, BootBeforeRecording, NoStop, NoScan, NoUpload, AppAt
<1>3. SentIsHeard /\ RepairIsSafe /\ FilesHoldWhatWasSaid /\ SpokenIsKept
  BY FilesOfRecordings
     DEF Init, SentIsHeard, RepairIsSafe, FilesHoldWhatWasSaid, SpokenIsKept, NoUpload, AppAt
<1>. QED
  BY <1>1, <1>2, <1>3 DEF Inv

(* Every step keeps it.                                                     *)
LEMMA NextInv ==
  ASSUME Inv, [Next]_vars
  PROVE  Inv'
<1>1. TypeOK /\ WorkIsNamed /\ Safe
  BY DEF Inv, Safe
<1>2. CASE Record
  BY <1>1, <1>2, RecordTypes, RecordSafe DEF Inv, Safe
<1>3. CASE Recover
  BY <1>1, <1>3, RecoverTypes, RecoverSafe DEF Inv, Safe
<1>4. CASE Upload
  BY <1>1, <1>4, UploadTypes, UploadSafe DEF Inv, Safe
<1>5. CASE Kill
  BY <1>1, <1>5, KillTypes, KillSafe DEF Inv, Safe
<1>6. ASSUME NEW x \in Reconcilers, Scan(x)
      PROVE  Inv'
  BY <1>1, <1>6, ScanTypes, ScanSafe DEF Inv, Safe
<1>7. ASSUME NEW x \in Isolates, TaskStopped(x)
      PROVE  Inv'
  BY <1>1, <1>7, TaskTypes, TaskSafe DEF Inv, Safe
<1>8. CASE UNCHANGED vars
  BY <1>8 DEF vars, Inv, TypeOK, WorkIsNamed, BootBeforeRecording, SentIsHeard, RepairIsSafe,
              OriginalIsWhole, FilesHoldWhatWasSaid, SpokenIsKept, AppUp
<1>. QED
  BY <1>2, <1>3, <1>4, <1>5, <1>6, <1>7, <1>8 DEF Next

(* The inductive invariant behind the two theorems below: at every point   *)
(* of a recording, its repair, its queueing and its upload, who deletes a  *)
(* file has another copy of it or has sent it.                              *)
THEOREM Invariance == Spec => []Inv
BY InitInv, NextInv, PTL DEF Spec

(* What the recorder, the launch, the reconciliations and the upload write *)
(* to their variables, the files and the rows stays of its type.           *)
THEOREM TypeCorrectness == Spec => []TypeOK
<1>1. Inv => TypeOK
  BY DEF Inv
<1>. QED
  BY <1>1, Invariance, PTL

(* Nothing of a finished recording is lost before it is submitted, however *)
(* many kills, failed file operations and reconciliations there are.       *)
THEOREM RecordingsAreKept == Spec => []KeptUntilTranscribed
<1>1. Inv => KeptUntilTranscribed
  BY FilesOfRecordings DEF Inv, SpokenIsKept, KeptUntilTranscribed
<1>. QED
  BY <1>1, Invariance, PTL

-----------------------------------------------------------------------------
(* What counts the submissions: the parts of JobsInv beside the types.      *)
Counted == BootBeforeRecording /\ RowFollowsUpload /\ StartIsFresh

(* No submission more is ahead of r than before.                            *)
NoMoreAhead(r) ==
    /\ OriginalAhead(r)' => OriginalAhead(r)
    /\ Submittable(Repaired(r))' => Submittable(Repaired(r))
    /\ Repairable(r)' => Repairable(r)

(* A step after which no submission more is ahead keeps the count, if it   *)
(* submits nothing.                                                         *)
LEMMA CountKept ==
  ASSUME TypeOK, TypeOK', SubmissionsAreCounted, jobs' = jobs, faults' >= faults,
         \A r \in Recordings : NoMoreAhead(r)
  PROVE  SubmissionsAreCounted'
BY DEF TypeOK, SubmissionsAreCounted, NoMoreAhead, Ahead

(* Recording opens each original once, when its submission is ahead anyhow, *)
(* and sets the marker when the launch is over.                             *)
LEMMA RecordCounted ==
  ASSUME TypeOK, WorkIsNamed, Counted, Record
  PROVE  Counted' /\ (jobs' = jobs) /\ (faults' >= faults) /\ \A r \in Recordings : NoMoreAhead(r)
<1>. USE FilesOfRecordings
     DEF TypeOK, WorkIsNamed, RecordingVars, Elsewhere, UploadVars, Contents, StartTo, StopTo, Counted,
         BootBeforeRecording, RowFollowsUpload, StartIsFresh, AppUp, NoMoreAhead, OriginalAhead, Submittable, Repairable
<1>1. ASSUME NEW r \in Recordings, Start(r)
      PROVE  Counted' /\ jobs' = jobs /\ faults' >= faults /\ \A q \in Recordings : NoMoreAhead(q)
  <2>1. CASE Tap(r)
    BY <2>1 DEF Tap
  <2>2. CASE RecorderStarts(r)
    BY <2>2 DEF RecorderStarts
  <2>3. CASE ShowRecording(r)
    BY <2>3 DEF ShowRecording
  <2>4. CASE MarkStarted(r)
    BY <2>4 DEF MarkStarted
  <2>5. CASE StartFails(r)
    BY <2>5 DEF StartFails, Fault
  <2>. QED
    BY <1>1, <2>1, <2>2, <2>3, <2>4, <2>5 DEF Start
<1>2. CASE Speak
  BY <1>2 DEF Speak
<1>3. ASSUME NEW t \in Stops, Stop(t)
      PROVE  Counted' /\ jobs' = jobs /\ faults' >= faults /\ \A q \in Recordings : NoMoreAhead(q)
  <2>1. CASE TapStop(t)
    BY <2>1 DEF TapStop
  <2>2. CASE RecorderStops(t)
    BY <2>2 DEF RecorderStops
  <2>3. CASE StopFails(t)
    BY <2>3 DEF StopFails, Fault
  <2>4. CASE MarkCompleted(t)
    BY <2>4 DEF MarkCompleted, None
  <2>5. CASE QueueCompleted(t)
    BY <2>5 DEF QueueCompleted, Queued
  <2>. QED
    BY <1>3, <2>1, <2>2, <2>3, <2>4, <2>5 DEF Stop
<1>. QED
  BY <1>1, <1>2, <1>3 DEF Record

(* The launch has no submission more ahead of it than the kill left, but   *)
(* for the repaired copy that it makes.                                     *)
LEMMA RecoverCounted ==
  ASSUME TypeOK, WorkIsNamed, Counted, Recover
  PROVE  /\ Counted' /\ (jobs' = jobs) /\ (faults' >= faults)
         /\ ~RepairBegins => \A r \in Recordings : NoMoreAhead(r)
<1>. USE FilesOfRecordings
     DEF TypeOK, WorkIsNamed, RecordingVars, UploadVars, Contents, Counted, BootBeforeRecording,
         RowFollowsUpload, StartIsFresh, AppUp, NoMoreAhead, OriginalAhead, Submittable,
         Repairable, BootTo, With
<1>1. CASE Launch
  BY <1>1 DEF Launch, AppAt
<1>2. CASE NothingInterrupted
  BY <1>2 DEF NothingInterrupted
<1>3. CASE LookAtInterrupted
  BY <1>3 DEF LookAtInterrupted
<1>4. CASE DiscardShort
  BY <1>4 DEF DiscardShort, Fault
<1>5. CASE RepairNothing
  BY <1>5 DEF RepairNothing
<1>6. CASE RepairBegins
  BY <1>6 DEF RepairBegins
<1>7. CASE RepairWritten
  BY <1>7 DEF RepairWritten
<1>8. CASE RepairWriteFails
  BY <1>8 DEF RepairWriteFails, Fault
<1>9. CASE OriginalReplaced
  BY <1>9 DEF OriginalReplaced
<1>10. CASE OriginalNotReplaced
  BY <1>10 DEF OriginalNotReplaced, Fault
<1>11. CASE BootMarkCompleted
  BY <1>11 DEF BootMarkCompleted, None
<1>12. CASE QueueRecovered
  BY <1>12 DEF QueueRecovered, Queued
<1>13. CASE DropCopy
  BY <1>13 DEF DropCopy, Fault
<1>. QED
  BY <1>1, <1>2, <1>3, <1>4, <1>5, <1>6, <1>7, <1>8, <1>9, <1>10, <1>11, <1>12, <1>13
     DEF Recover

(* The copy that a launch makes was ahead of it: its submission takes the  *)
(* place of the copy's.                                                     *)
LEMMA CopyCounted ==
  ASSUME TypeOK, TypeOK', WorkIsNamed, SubmissionsAreCounted, RepairBegins
  PROVE  SubmissionsAreCounted'
<1>. USE FilesOfRecordings DEF TypeOK, WorkIsNamed, RecordingVars, UploadVars, Contents, BootTo, With
<1>1. jobs' = jobs /\ faults' = faults
  BY DEF RepairBegins
<1>2. ASSUME NEW r \in Recordings
      PROVE  jobs'[r] + Ahead(r)' <= 1 + faults'
  <2>1. (OriginalAhead(r)' => OriginalAhead(r)) /\ ~Repairable(r)'
    BY DEF RepairBegins, OriginalAhead, Submittable, Repairable
  <2>2. Submittable(Repaired(r))' => Submittable(Repaired(r)) \/ Repairable(r)
    BY DEF RepairBegins, Submittable, Repairable
  <2>. QED
    BY <1>1, <2>1, <2>2 DEF SubmissionsAreCounted, Ahead
<1>. QED
  BY <1>2 DEF SubmissionsAreCounted

(* Reconciliation queues a file that has no row, which changes nothing.     *)
LEMMA ScanCounted ==
  ASSUME TypeOK, WorkIsNamed, Counted, NEW x \in Reconcilers, Scan(x)
  PROVE  Counted' /\ (jobs' = jobs) /\ (faults' >= faults) /\ \A r \in Recordings : NoMoreAhead(r)
<1>. USE FilesOfRecordings
     DEF TypeOK, WorkIsNamed, RecordingVars, UploadVars, Counted, BootBeforeRecording,
         RowFollowsUpload, StartIsFresh, AppUp, NoMoreAhead, OriginalAhead, Submittable, Repairable
<1>1. CASE ScanQueues(x)
  BY <1>1 DEF ScanQueues, Queued
<1>2. CASE ScanStarts(x) \/ ScanLists(x) \/ ScanEnds(x) \/ \E f \in Files : ScanLooks(x, f)
  <2>1. UNCHANGED <<said, file, RecordingVars, boot, row, UploadVars, faults>>
    BY <1>2 DEF ScanStarts, ScanLists, ScanEnds, ScanLooks
  <2>. QED
    BY <2>1
<1>. QED
  BY <1>1, <1>2 DEF Scan

(* The upload keeps a sent row until the file is gone.                      *)
LEMMA UploadCounted ==
  ASSUME TypeOK, WorkIsNamed, Counted, Upload
  PROVE  /\ Counted' /\ (faults' >= faults)
         /\ ~UploadSubmits => (jobs' = jobs) /\ \A r \in Recordings : NoMoreAhead(r)
<1>. USE FilesOfRecordings
     DEF TypeOK, WorkIsNamed, RecordingVars, UploadVars, Contents, Counted, BootBeforeRecording,
         RowFollowsUpload, StartIsFresh, AppUp, NoMoreAhead, OriginalAhead, Submittable,
         Repairable, UploadTo, NoUpload, With
<1>1. ASSUME NEW f \in Files, UploadMissing(f)
      PROVE  Counted' /\ faults' = faults /\ jobs' = jobs /\ \A r \in Recordings : NoMoreAhead(r)
  BY <1>1 DEF UploadMissing
<1>2. ASSUME NEW f \in Files, UploadReads(f)
      PROVE  Counted' /\ faults' = faults /\ jobs' = jobs /\ \A r \in Recordings : NoMoreAhead(r)
  BY <1>2 DEF UploadReads
<1>3. ASSUME NEW f \in Files, UploadCleansUp(f)
      PROVE  Counted' /\ faults' = faults /\ jobs' = jobs /\ \A r \in Recordings : NoMoreAhead(r)
  BY <1>3 DEF UploadCleansUp
<1>4. CASE UploadSubmits
  BY <1>4 DEF UploadSubmits
<1>5. CASE UploadDiscards
  BY <1>5 DEF UploadDiscards
<1>6. CASE UploadDiscardFails
  BY <1>6 DEF UploadDiscardFails, Fault
<1>7. CASE UploadForgets
  BY <1>7 DEF UploadForgets
<1>. QED
  BY <1>1, <1>2, <1>3, <1>4, <1>5, <1>6, <1>7 DEF Upload

(* The file that is submitted is no longer to be submitted.                 *)
LEMMA SubmissionCounted ==
  ASSUME TypeOK, TypeOK', WorkIsNamed, StartIsFresh, SubmissionsAreCounted, UploadSubmits
  PROVE  SubmissionsAreCounted'
<1>. USE FilesOfRecordings DEF TypeOK, WorkIsNamed, RecordingVars, UploadVars, Contents, UploadTo
<1>. DEFINE f == upload.file
<1>1. f \in Files /\ ~Submittable(f)' /\ Submittable(f)
  BY DEF UploadSubmits, Submittable
<1>2. \A g \in Files : Submittable(g)' => Submittable(g)
  BY DEF UploadSubmits, Submittable
<1>3. \A r \in Recordings : Repairable(r)' => Repairable(r)
  BY DEF UploadSubmits, Repairable
<1>4. /\ jobs' = [jobs EXCEPT ![RecordingOf(f)] = @ + 1] /\ said' = said /\ faults' = faults
      /\ \A r \in Recordings : Repairable(r)' => Repairable(r)
  BY DEF UploadSubmits, Repairable
<1>5. ASSUME NEW r \in Recordings
      PROVE  jobs'[r] + Ahead(r)' <= 1 + faults'
  <2>1. OriginalAhead(r)' => OriginalAhead(r)
    BY <1>2, <1>4 DEF OriginalAhead
  <2>2. CASE RecordingOf(f) # r
    BY <1>2, <1>4, <2>1, <2>2 DEF SubmissionsAreCounted, Ahead
  <2>3. CASE f = Original(r)
    <3>1. OriginalAhead(r) /\ ~OriginalAhead(r)'
      BY <1>1, <1>4, <2>3 DEF UploadSubmits, StartIsFresh, OriginalAhead
    <3>. QED
      BY <1>1, <1>2, <1>4, <2>3, <3>1 DEF SubmissionsAreCounted, Ahead
  <2>4. CASE f = Repaired(r)
    <3>1. Submittable(Repaired(r)) /\ ~Submittable(Repaired(r))'
      BY <1>1, <2>4 DEF UploadSubmits, Repaired, Submittable
    <3>2. jobs'[r] = jobs[r] + 1 /\ jobs[r] \in Nat
      BY <1>4, <2>4
    <3>. QED
      BY <1>4, <2>1, <3>1, <3>2 DEF SubmissionsAreCounted, Ahead
  <2>. QED
    BY <1>1, <2>2, <2>3, <2>4
<1>. QED
  BY <1>5 DEF SubmissionsAreCounted

(* A kill gives the next launch its repair, and each kill is a fault.       *)
LEMMA KillCounted ==
  ASSUME TypeOK, TypeOK', Counted, SubmissionsAreCounted, Kill
  PROVE  Counted' /\ SubmissionsAreCounted'
<1>. USE FilesOfRecordings DEF TypeOK, Contents, NoStop, NoUpload, AppAt
<1>1. Counted'
  BY DEF Kill, Counted, BootBeforeRecording, RowFollowsUpload, StartIsFresh
<1>2. jobs' = jobs /\ faults' = faults + 1
  BY DEF Kill, Fault
<1>3. ASSUME NEW r \in Recordings
      PROVE  /\ OriginalAhead(r)' => OriginalAhead(r)
             /\ Submittable(Repaired(r))' => Submittable(Repaired(r))
  BY DEF Kill, OriginalAhead, Submittable
<1>. QED
  BY <1>1, <1>2, <1>3 DEF SubmissionsAreCounted, Ahead

(* The end of a background task leaves no more to submit.                   *)
LEMMA TaskCounted ==
  ASSUME TypeOK, WorkIsNamed, Counted, NEW x \in Isolates, TaskStopped(x)
  PROVE  Counted' /\ (jobs' = jobs) /\ (faults' >= faults) /\ \A r \in Recordings : NoMoreAhead(r)
BY FilesOfRecordings
   DEF TaskStopped, Fault, TypeOK, RecordingVars, NoUpload, Counted, BootBeforeRecording,
       RowFollowsUpload, StartIsFresh, AppUp, NoMoreAhead, OriginalAhead, Submittable, Repairable

-----------------------------------------------------------------------------
(* JobsInv holds when the app is first opened, and every step keeps it.     *)
LEMMA InitJobs ==
  ASSUME Init
  PROVE  JobsInv
<1>1. TypeOK /\ WorkIsNamed /\ BootBeforeRecording
  BY InitInv DEF Inv
<1>2. RowFollowsUpload /\ StartIsFresh
  BY FilesOfRecordings DEF Init, RowFollowsUpload, StartIsFresh, NoUpload
<1>3. ASSUME NEW r \in Recordings
      PROVE  jobs[r] + Ahead(r) <= 1 + faults
  <2>1. ~Submittable(Repaired(r)) /\ ~Repairable(r)
    BY FilesOfRecordings DEF Init, Submittable, Repairable, NoUpload, AppAt
  <2>. QED
    BY <2>1 DEF Init, Ahead
<1>. QED
  BY <1>1, <1>2, <1>3 DEF JobsInv, SubmissionsAreCounted

LEMMA NextJobs ==
  ASSUME JobsInv, [Next]_vars
  PROVE  JobsInv'
<1>1. /\ TypeOK /\ WorkIsNamed /\ SubmissionsAreCounted /\ Counted
  BY DEF JobsInv, Counted
<1>2. TypeOK' /\ WorkIsNamed'
  <2>1. CASE UNCHANGED vars
    BY <1>1, <2>1 DEF vars, TypeOK, WorkIsNamed
  <2>. QED
    BY <1>1, <2>1, RecordTypes, RecoverTypes, ScanTypes, UploadTypes, KillTypes, TaskTypes DEF Next
<1>3. SUFFICES Counted' /\ SubmissionsAreCounted'
  BY <1>2 DEF JobsInv, Counted
<1>4. CASE Record
  BY <1>1, <1>2, <1>4, RecordCounted, CountKept
<1>5. CASE Recover
  BY <1>1, <1>2, <1>5, RecoverCounted, CopyCounted, CountKept
<1>6. CASE Upload
  <2>1. StartIsFresh
    BY <1>1 DEF Counted
  <2>. QED
    BY <1>1, <1>2, <1>6, <2>1, UploadCounted, SubmissionCounted, CountKept
<1>7. CASE Kill
  BY <1>1, <1>2, <1>7, KillCounted
<1>8. ASSUME NEW x \in Reconcilers, Scan(x)
      PROVE  Counted' /\ SubmissionsAreCounted'
  BY <1>1, <1>2, <1>8, ScanCounted, CountKept
<1>9. ASSUME NEW x \in Isolates, TaskStopped(x)
      PROVE  Counted' /\ SubmissionsAreCounted'
  BY <1>1, <1>2, <1>9, TaskCounted, CountKept
<1>10. CASE UNCHANGED vars
  BY <1>1, <1>10
     DEF vars, Counted, BootBeforeRecording, RowFollowsUpload, StartIsFresh, AppUp,
         SubmissionsAreCounted, Ahead, OriginalAhead, Submittable, Repairable
<1>. QED
  BY <1>4, <1>5, <1>6, <1>7, <1>8, <1>9, <1>10 DEF Next

(* However the launch, the reconciliations, the background tasks and the   *)
(* upload interleave, a recording is submitted once and then once more for *)
(* each kill or failed file operation at most: the submissions made and    *)
(* those still ahead never outnumber the faults by more than one.           *)
THEOREM FaultsBoundJobs == Spec => []OneJobPerInterruption
<1>1. JobsInv => OneJobPerInterruption
  BY DEF JobsInv, TypeOK, SubmissionsAreCounted, Ahead, OneJobPerInterruption
<1>. QED
  BY <1>1, InitJobs, NextJobs, PTL DEF Spec

=============================================================================
