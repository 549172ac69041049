--------------------------- MODULE RecordingRecovery ---------------------------
(***************************************************************************)
(* From the microphone to the upload queue: the recorder writes a file, a  *)
(* marker in the shared preferences says which file is being written, the  *)
(* next launch repairs the file a dead app left behind, and reconciliation *)
(* queues the files no row names.  All of them run beside one another:     *)
(* starts and stops of recordings, the launch of the app, the queue        *)
(* service's reconciliation and the one of a background task.  A step is   *)
(* what one of them does from one await to the next.                       *)
(*                                                                         *)
(* The upload of a queued file is the one of UploadQueue, cut down to what *)
(* matters here: it reads the file, submits it once per row, deletes the   *)
(* file and then the row.                                                  *)
(***************************************************************************)
EXTENDS Naturals

CONSTANTS
    MaxRecordings,   \* bound: recordings made
    Stops,           \* stopRecording calls that may be under way at once
    Services,        \* reconciliations by a queue service of the running app
    Isolates,        \* reconciliations by background tasks, which need no screen
    MaxFaults        \* bound: kills and failed operations

ASSUME BoundsAssumption == MaxRecordings \in Nat \ {0} /\ MaxFaults \in Nat
ASSUME ReconcilersAssumption == Services \cap Isolates = {}

VARIABLES
    said,       \* history: what was spoken into each recording
    file,       \* the recordings directory
    marker,     \* active_recording_path
    recorder,   \* the recording the microphone writes, or None
    timed,      \* whether RecordingService._startTime is set
    listening,  \* RecordingInfo.isRecording
    starter,    \* starter[r]: the startRecording of a recording
    stopper,    \* stopper[t]: a stopRecording
    boot,       \* main(): recovery at launch, and whether the app is up
    scan,       \* the reconciliations under way
    row,        \* pending_uploads, by audio path
    upload,     \* the upload under way
    heard,      \* what the server was sent of each recording
    jobs,       \* history: submissions per recording
    faults      \* faults so far

vars == <<said, file, marker, recorder, timed, listening, starter, stopper, boot,
          scan, row, upload, heard, jobs, faults>>

Recordings == 1..MaxRecordings
None == 0
Files == Recordings \X {"original", "repaired"}
Original(r) == <<r, "original">>
Repaired(r) == <<r, "repaired">>
RecordingOf(f) == f[1]
Reconcilers == Isolates \cup Services

(* A recording of less than 1 KB is "short"; "half" is a repaired copy     *)
(* whose bytes are still being written.                                    *)
Contents == {"absent", "short", "long", "half"}

NoStop == [pc |-> "idle", rec |-> None]
NoFile == <<None, "original">>
NoScan == [pc |-> "idle", skip |-> None, left |-> {}, file |-> NoFile]
NoUpload == [pc |-> "idle", file |-> NoFile, whole |-> FALSE]
AppAt(point) == [pc |-> point, rec |-> None, file |-> NoFile]

Init ==
    /\ said = [r \in Recordings |-> "nothing"]
    /\ file = [f \in Files |-> "absent"]
    /\ marker = None /\ recorder = None
    /\ listening = FALSE /\ timed = FALSE
    /\ starter = [r \in Recordings |-> "idle"] /\ stopper = [t \in Stops |-> NoStop]
    /\ boot = AppAt("off")
    /\ scan = [x \in Reconcilers |-> NoScan]
    /\ row = [f \in Files |-> "none"]
    /\ upload = NoUpload
    /\ heard = [r \in Recordings |-> "nothing"]
    /\ jobs = [r \in Recordings |-> 0]
    /\ faults = 0

-----------------------------------------------------------------------------
(* Helpers                                                                  *)

Fault == faults < MaxFaults /\ faults' = faults + 1

AppUp == boot.pc = "up"

(* All of the recording that was spoken is in the file.                     *)
Whole(f) == file[f] \in {"short", "long"} /\ f # Original(recorder)

(* ensurePendingUpload: an insert that does nothing if the path has a row.  *)
QueuedAnew(f) == [row EXCEPT ![f] = "pending"]                      \* mutant

Queued(f) == [row EXCEPT ![f] = IF @ = "none" THEN "pending" ELSE @]

With(new) == [file EXCEPT ![new[1]] = new[2]]

-----------------------------------------------------------------------------
(* Recording                                                                *)

RecordingVars == <<marker, recorder, timed, listening, starter, stopper>>
UploadVars == <<upload, heard, jobs>>
Elsewhere == <<boot, scan, row, UploadVars>>

StartTo(r, point) == starter' = [starter EXCEPT ![r] = point]
StopTo(t, point, r) == stopper' = [stopper EXCEPT ![t] = [pc |-> point, rec |-> r]]

(* RecordingNotifier.startRecording, past its guard: the state does not say*)
(* recording yet, so another tap may follow while this one is under way.   *)
Tap(r) ==
    /\ AppUp /\ ~listening
    /\ said[r] = "nothing" /\ starter[r] = "idle"
    /\ \A q \in Recordings : q < r => said[q] # "nothing" \/ starter[q] # "idle"
    /\ StartTo(r, "recorder")
    /\ UNCHANGED <<said, file, marker, recorder, timed, listening, stopper, Elsewhere, faults>>

(* The recorder opens the file; a recording it was still writing ends here. *)
RecorderStarts(r) ==
    /\ starter[r] = "recorder"
    /\ recorder' = r
    /\ file' = [file EXCEPT ![Original(r)] = "short"]
    /\ said' = [said EXCEPT ![r] = "short"]
    /\ StartTo(r, "show")
    /\ UNCHANGED <<marker, timed, listening, stopper, Elsewhere, faults>>

(* The state says recording before markRecordingStarted has set the marker. *)
ShowRecording(r) ==
    /\ starter[r] = "show"
    /\ timed' = TRUE /\ listening' = TRUE
    /\ StartTo(r, "mark")
    /\ UNCHANGED <<said, file, marker, recorder, stopper, Elsewhere, faults>>

MarkStartedAsNext(r) ==                                             \* mutant
    /\ starter[r] = "mark"
    /\ marker' = r + 1
    /\ StartTo(r, "idle")
    /\ UNCHANGED <<said, file, recorder, timed, listening, stopper, Elsewhere, faults>>

MarkStarted(r) ==
    /\ starter[r] = "mark"
    /\ marker' = r
    /\ StartTo(r, "idle")
    /\ UNCHANGED <<said, file, recorder, timed, listening, stopper, Elsewhere, faults>>

(* The recorder cannot start, or a preference cannot be written, before or *)
(* after the path is: the state becomes error, and in the second case the  *)
(* microphone stays on.                                                    *)
StartFails(r) ==
    /\ starter[r] \in {"recorder", "mark"} /\ Fault
    /\ marker' \in {marker} \cup {q \in {r} : starter[r] = "mark"}
    /\ listening' = FALSE
    /\ StartTo(r, "idle")
    /\ UNCHANGED <<said, file, recorder, timed, stopper, Elsewhere>>

(* More than 1 KB is written; what is written to a deleted file is lost.    *)
Speak ==
    /\ recorder # None /\ said[recorder] = "short"
    /\ said' = [said EXCEPT ![recorder] = "long"]
    /\ file' = [file EXCEPT ![Original(recorder)] = IF @ = "absent" THEN @ ELSE "long"]
    /\ UNCHANGED <<RecordingVars, Elsewhere, faults>>

(* RecordingNotifier.stopRecording, past its guard: the state says         *)
(* recording until the marker is removed, so another tap may follow.  One  *)
(* that finds no start time will not learn what it stopped.                *)
TapStop(t) ==
    /\ AppUp /\ listening /\ stopper[t] = NoStop
    /\ StopTo(t, IF timed THEN "recorder" ELSE "untimed", None)
    /\ UNCHANGED <<said, file, marker, recorder, timed, listening, starter, Elsewhere, faults>>

RecorderStops(t) ==
    /\ stopper[t].pc \in {"recorder", "untimed"}
    /\ recorder' = None /\ timed' = FALSE
    /\ StopTo(t, "unmark", IF stopper[t].pc = "recorder" THEN recorder ELSE None)
    /\ UNCHANGED <<said, file, marker, listening, starter, Elsewhere, faults>>

(* The recorder ends the file but throws: nobody learns the path.           *)
StopFails(t) ==
    /\ stopper[t].pc \in {"recorder", "untimed"} /\ Fault
    /\ recorder' = None
    /\ StopTo(t, "unmark", None)
    /\ UNCHANGED <<said, file, marker, timed, listening, starter, Elsewhere>>

(* markRecordingCompleted, and the state completed or error after it, be it*)
(* that another recording has been started meanwhile.                      *)
MarkCompleted(t) ==
    /\ stopper[t].pc = "unmark"
    /\ marker' = None
    /\ listening' = FALSE
    /\ StopTo(t, IF stopper[t].rec = None THEN "idle" ELSE "queue", stopper[t].rec)
    /\ UNCHANGED <<said, file, recorder, timed, starter, Elsewhere, faults>>

(* _onRecordingComplete: transcribe queues the file before it uploads it.   *)
QueueCompleted(t) ==
    /\ stopper[t].pc = "queue"
    /\ row' = Queued(Original(stopper[t].rec))
    /\ StopTo(t, "idle", None)
    /\ UNCHANGED <<said, file, marker, recorder, timed, listening, starter, boot, scan,
                   UploadVars, faults>>

-----------------------------------------------------------------------------
(* Launch: checkForInterruptedRecording, then ensurePendingUpload           *)

BootTo(point, f) == boot' = [pc |-> point, rec |-> boot.rec, file |-> f]

Launch ==
    /\ boot.pc = "off"
    /\ boot' = AppAt("look")
    /\ UNCHANGED <<said, file, RecordingVars, scan, row, UploadVars, faults>>

NothingInterrupted ==
    /\ boot.pc = "look" /\ marker = None
    /\ BootTo("up", NoFile)
    /\ UNCHANGED <<said, file, RecordingVars, scan, row, UploadVars, faults>>

(* The file is gone, is too short to keep, or is to be repaired.            *)
LookAtInterrupted ==
    /\ boot.pc = "look" /\ marker # None
    /\ boot' = [pc |-> CASE file[Original(marker)] = "absent" -> "unmark"
                         [] file[Original(marker)] = "short" -> "discard"
                         [] OTHER -> "repair",
                rec |-> marker, file |-> NoFile]
    /\ UNCHANGED <<said, file, RecordingVars, scan, row, UploadVars, faults>>

(* A failed deletion ends in the catch, which clears the marker as well.    *)
DiscardShort ==
    /\ boot.pc = "discard"
    /\ \/ file' = With(<<Original(boot.rec), "absent">>) /\ UNCHANGED faults
       \/ Fault /\ UNCHANGED file
    /\ BootTo("unmark", NoFile)
    /\ UNCHANGED <<said, RecordingVars, scan, row, UploadVars>>

(* _repairWavFile.  Without the original (an upload deleted it) or without *)
(* a RIFF header the original path is returned as it is.                   *)
RepairNothing ==
    /\ boot.pc = "repair"
    /\ BootTo("unmark", Original(boot.rec))
    /\ UNCHANGED <<said, file, RecordingVars, scan, row, UploadVars, faults>>

RepairInPlace ==                                                    \* mutant
    /\ boot.pc = "repair" /\ file[Original(boot.rec)] = "long"
    /\ file' = [file EXCEPT ![Original(boot.rec)] = "absent", ![Repaired(boot.rec)] = "half"]
    /\ BootTo("write", NoFile)
    /\ UNCHANGED <<said, RecordingVars, scan, row, UploadVars, faults>>

RepairBegins ==
    /\ boot.pc = "repair" /\ file[Original(boot.rec)] = "long"
    /\ file' = With(<<Repaired(boot.rec), "half">>)
    /\ BootTo("write", NoFile)
    /\ UNCHANGED <<said, RecordingVars, scan, row, UploadVars, faults>>

RepairWritten ==
    /\ boot.pc = "write"
    /\ file' = [file EXCEPT ![Repaired(boot.rec)] = IF @ = "absent" THEN @ ELSE "long"]
    /\ BootTo("replace", NoFile)
    /\ UNCHANGED <<said, RecordingVars, scan, row, UploadVars, faults>>

(* The disk is full: the copy stays as far as it was written.               *)
RepairWriteFails ==
    /\ boot.pc = "write" /\ Fault
    /\ BootTo("unmark", Original(boot.rec))
    /\ UNCHANGED <<said, file, RecordingVars, scan, row, UploadVars>>

OriginalReplaced ==
    /\ boot.pc = "replace" /\ file[Original(boot.rec)] # "absent"
    /\ file' = With(<<Original(boot.rec), "absent">>)
    /\ BootTo("unmark", Repaired(boot.rec))
    /\ UNCHANGED <<said, RecordingVars, scan, row, UploadVars, faults>>

(* The original cannot be deleted, be it that it is gone: the copy is to go,*)
(* and if it cannot either it stays.                                       *)
OriginalNotReplaced ==
    /\ boot.pc = "replace"
    /\ \/ file[Original(boot.rec)] = "absent" /\ UNCHANGED faults
       \/ Fault
    /\ BootTo("undo", NoFile)
    /\ UNCHANGED <<said, file, RecordingVars, scan, row, UploadVars>>

DropCopy ==
    /\ boot.pc = "undo"
    /\ \/ file' = With(<<Repaired(boot.rec), "absent">>) /\ UNCHANGED faults
       \/ Fault /\ UNCHANGED file
    /\ BootTo("unmark", Original(boot.rec))
    /\ UNCHANGED <<said, RecordingVars, scan, row, UploadVars>>

BootMarkCompleted ==
    /\ boot.pc = "unmark"
    /\ marker' = None
    /\ BootTo(IF boot.file = NoFile THEN "up" ELSE "ensure", boot.file)
    /\ UNCHANGED <<said, file, recorder, timed, listening, starter, stopper, scan, row,
                   UploadVars, faults>>

QueueRecovered ==
    /\ boot.pc = "ensure"
    /\ row' = Queued(boot.file)
    /\ BootTo("up", NoFile)
    /\ UNCHANGED <<said, file, RecordingVars, scan, UploadVars, faults>>

-----------------------------------------------------------------------------
(* reconcilePersistentRecordings                                            *)

ScanTo(x, point, left, f) ==
    scan' = [scan EXCEPT ![x] = [pc |-> point, skip |-> scan[x].skip, left |-> left, file |-> f]]

(* The marker is read once, before the directory; a background task reads  *)
(* the copy its isolate loaded when it started.                            *)
ScanStarts(x) ==
    /\ scan[x] = NoScan /\ (x \in Services => AppUp)
    /\ scan' = [scan EXCEPT ![x] = [pc |-> "list", skip |-> marker, left |-> {}, file |-> NoFile]]
    /\ UNCHANGED <<said, file, RecordingVars, boot, row, UploadVars, faults>>

ScanLists(x) ==
    /\ scan[x].pc = "list"
    /\ ScanTo(x, "look", {f \in Files : file[f] # "absent"}, NoFile)
    /\ UNCHANGED <<said, file, RecordingVars, boot, row, UploadVars, faults>>

ScanLooks(x, f) ==
    /\ scan[x].pc = "look" /\ f \in scan[x].left
    /\ IF f = Original(scan[x].skip) \/ row[f] # "none"
       THEN ScanTo(x, "look", scan[x].left \ {f}, NoFile)
       ELSE ScanTo(x, "insert", scan[x].left \ {f}, f)
    /\ UNCHANGED <<said, file, RecordingVars, boot, row, UploadVars, faults>>

ScanOnlyCounts(x) ==                                                \* mutant
    /\ scan[x].pc = "insert"
    /\ ScanTo(x, "look", scan[x].left, NoFile)
    /\ UNCHANGED <<said, file, RecordingVars, boot, row, UploadVars, faults>>

ScanQueues(x) ==
    /\ scan[x].pc = "insert"
    /\ row' = Queued(scan[x].file)
    /\ ScanTo(x, "look", scan[x].left, NoFile)
    /\ UNCHANGED <<said, file, RecordingVars, boot, UploadVars, faults>>

ScanEnds(x) ==
    /\ scan[x].pc = "look" /\ scan[x].left = {}
    /\ scan' = [scan EXCEPT ![x] = NoScan]
    /\ UNCHANGED <<said, file, RecordingVars, boot, row, UploadVars, faults>>

-----------------------------------------------------------------------------
(* The upload of a queued file                                              *)

UploadTo(point, f, whole) == upload' = [pc |-> point, file |-> f, whole |-> whole]

(* The queue drops a row whose file is gone, the notifier lists it as failed. *)
UploadMissing(f) ==
    /\ upload = NoUpload /\ row[f] = "pending" /\ file[f] = "absent"
    /\ \E left \in {"none", "failed"} : row' = [row EXCEPT ![f] = left]
    /\ UNCHANGED <<said, file, RecordingVars, boot, scan, UploadVars, faults>>

UploadReads(f) ==
    /\ upload = NoUpload /\ row[f] = "pending" /\ file[f] # "absent"
    /\ UploadTo("submit", f, Whole(f))
    /\ UNCHANGED <<said, file, RecordingVars, boot, scan, row, heard, jobs, faults>>

UploadSubmits ==
    LET r == RecordingOf(upload.file) IN
    /\ upload.pc = "submit"
    /\ row' = [row EXCEPT ![upload.file] = "sent"]
    /\ jobs' = [jobs EXCEPT ![r] = @ + 1]
    /\ heard' = [heard EXCEPT ![r] = IF upload.whole \/ @ = "all" THEN "all" ELSE "cut"]
    /\ UploadTo("discard", upload.file, FALSE)
    /\ UNCHANGED <<said, file, RecordingVars, boot, scan, faults>>

UploadDiscards ==
    /\ upload.pc = "discard"
    /\ file' = With(<<upload.file, "absent">>)
    /\ UploadTo("forget", upload.file, FALSE)
    /\ UNCHANGED <<said, RecordingVars, boot, scan, row, heard, jobs, faults>>

(* The row stays behind as cleanupPending.                                  *)
UploadDiscardFails ==
    /\ upload.pc = "discard" /\ Fault
    /\ upload' = NoUpload
    /\ UNCHANGED <<said, file, RecordingVars, boot, scan, row, heard, jobs>>

UploadForgets ==
    /\ upload.pc = "forget"
    /\ row' = [row EXCEPT ![upload.file] = "none"]
    /\ upload' = NoUpload
    /\ UNCHANGED <<said, file, RecordingVars, boot, scan, heard, jobs, faults>>

(* retryPendingUploadCleanup, or the replay of a submission already made.   *)
UploadCleansUp(f) ==
    /\ upload = NoUpload /\ row[f] = "sent"
    /\ UploadTo("discard", f, FALSE)
    /\ UNCHANGED <<said, file, RecordingVars, boot, scan, row, heard, jobs, faults>>

-----------------------------------------------------------------------------
(* The process dies, with the tasks that run in it; files, preferences and *)
(* rows stay, a recording under way as far as it was written.              *)
Kill ==
    /\ boot.pc # "off" \/ upload # NoUpload \/ \E x \in Reconcilers : scan[x] # NoScan
    /\ Fault
    /\ recorder' = None /\ listening' = FALSE /\ timed' = FALSE
    /\ starter' = [r \in Recordings |-> "idle"] /\ stopper' = [t \in Stops |-> NoStop]
    /\ boot' = AppAt("off")
    /\ scan' = [x \in Reconcilers |-> NoScan]
    /\ upload' = NoUpload
    /\ UNCHANGED <<said, file, marker, row, heard, jobs>>

(* The system ends a background task alone, and an upload if it was its.    *)
TaskStopped(x) ==
    /\ scan[x] # NoScan \/ upload # NoUpload
    /\ Fault
    /\ scan' = [scan EXCEPT ![x] = NoScan]
    /\ upload' \in {upload, NoUpload}
    /\ UNCHANGED <<said, file, RecordingVars, boot, row, heard, jobs>>

Start(r) ==
    \/ Tap(r) \/ RecorderStarts(r) \/ ShowRecording(r) \/ MarkStarted(r) \/ StartFails(r)

Stop(t) ==
    \/ TapStop(t) \/ RecorderStops(t) \/ StopFails(t) \/ MarkCompleted(t) \/ QueueCompleted(t)

Record ==
    \/ \E r \in Recordings : Start(r)
    \/ Speak
    \/ \E t \in Stops : Stop(t)

Recover ==
    \/ Launch \/ NothingInterrupted \/ LookAtInterrupted \/ DiscardShort
    \/ RepairNothing \/ RepairBegins \/ RepairWritten \/ RepairWriteFails
    \/ OriginalReplaced \/ OriginalNotReplaced \/ DropCopy
    \/ BootMarkCompleted \/ QueueRecovered

Scan(x) ==
    \/ ScanStarts(x) \/ ScanLists(x) \/ ScanQueues(x) \/ ScanEnds(x)
    \/ \E f \in Files : ScanLooks(x, f)

Upload ==
    \/ \E f \in Files : UploadMissing(f) \/ UploadReads(f) \/ UploadCleansUp(f)
    \/ UploadSubmits \/ UploadDiscards \/ UploadDiscardFails \/ UploadForgets

Next ==
    \/ Record \/ Recover \/ Upload \/ Kill
    \/ \E x \in Reconcilers : Scan(x)
    \/ \E x \in Isolates : TaskStopped(x)

Spec == Init /\ [][Next]_vars

(* What has been begun goes on, background tasks keep being scheduled, the *)
(* app is opened again.  Nothing is assumed of the owner's taps.           *)
Fairness ==
    /\ \A r \in Recordings :
          WF_vars(RecorderStarts(r)) /\ WF_vars(ShowRecording(r)) /\ WF_vars(MarkStarted(r))
    /\ \A t \in Stops :
          WF_vars(RecorderStops(t)) /\ WF_vars(MarkCompleted(t)) /\ WF_vars(QueueCompleted(t))
    /\ WF_vars(Recover)
    /\ \A x \in Isolates : WF_vars(Scan(x))
    /\ \A f \in Files : SF_vars(UploadReads(f))
    /\ WF_vars(Upload)

FairSpec == Spec /\ Fairness

-----------------------------------------------------------------------------
(* Properties                                                               *)

(* The variables hold what the code can write to them.                      *)
TypeOK ==
    /\ said \in [Recordings -> {"nothing", "short", "long"}]
    /\ file \in [Files -> Contents]
    /\ marker \in Recordings \cup {None} /\ recorder \in Recordings \cup {None}
    /\ timed \in BOOLEAN /\ listening \in BOOLEAN
    /\ starter \in [Recordings -> {"idle", "recorder", "show", "mark"}]
    /\ stopper \in [Stops -> [pc : {"idle", "recorder", "untimed", "unmark", "queue"},
                              rec : Recordings \cup {None}]]
    /\ boot \in [pc : {"off", "look", "discard", "repair", "write", "replace", "undo",
                       "unmark", "ensure", "up"},
                 rec : Recordings \cup {None}, file : Files \cup {NoFile}]
    /\ scan \in [Reconcilers -> [pc : {"idle", "list", "look", "insert"},
                                 skip : Recordings \cup {None}, left : SUBSET Files,
                                 file : Files \cup {NoFile}]]
    /\ row \in [Files -> {"none", "pending", "sent", "failed"}]
    /\ upload \in [pc : {"idle", "submit", "discard", "forget"},
                   file : Files \cup {NoFile}, whole : BOOLEAN]
    /\ heard \in [Recordings -> {"nothing", "cut", "all"}]
    /\ jobs \in [Recordings -> Nat]
    /\ faults \in 0..MaxFaults

(* Nothing of a finished recording is lost before it is submitted: whatever*)
(* dies or fails between the microphone and the queue, all of it is in one *)
(* of its files, the original or the repaired copy.                        *)
KeptUntilTranscribed ==
    \A r \in Recordings :
        said[r] = "long" /\ recorder # r /\ heard[r] = "nothing" =>
            \E f \in Files : RecordingOf(f) = r /\ file[f] = "long"

(* A recording is submitted once; each kill or failed file operation can   *)
(* make it one submission more, through a second file of the same audio.   *)
OneJobPerInterruption == \A r \in Recordings : jobs[r] <= 1 + faults

(* A recording that is over is submitted, or shown on the failure list,    *)
(* without the owner doing anything but open the app.  A marker set after  *)
(* its recording was stopped puts that off until the next launch.          *)
EveryRecordingSettles ==
    \A r \in Recordings :
        said[r] = "long" /\ recorder # r ~>
            \/ heard[r] # "nothing"
            \/ \E f \in Files : RecordingOf(f) = r /\ row[f] = "failed"
            \/ AppUp /\ marker = r

(* Reconciliation queues completed recordings, never a file that is still  *)
(* being written: the recorder's, or a repaired copy.                      *)
OnlyCompletedAreQueued ==
    [][\A x \in Reconcilers : ScanQueues(x) =>
          Whole(scan[x].file) \/ file[scan[x].file] = "absent"]_vars

-----------------------------------------------------------------------------
(* The inductive invariant behind KeptUntilTranscribed                      *)

(* Whoever is at work on a recording or a file knows which one.             *)
WorkIsNamed ==
    /\ \A t \in Stops : stopper[t].pc = "queue" => stopper[t].rec # None
    /\ boot.pc \in {"discard", "repair", "write", "replace", "undo"} => boot.rec # None
    /\ boot.pc = "ensure" => boot.file # NoFile
    /\ \A x \in Reconcilers : scan[x].pc = "insert" => scan[x].file # NoFile
    /\ upload.pc # "idle" => upload.file # NoFile

(* The microphone is off until the launch is over.                          *)
BootBeforeRecording ==
    recorder # None \/ (\E r \in Recordings : starter[r] # "idle") => AppUp

(* A file is only deleted for an upload when its recording was sent.        *)
SentIsHeard ==
    /\ \A f \in Files : row[f] = "sent" => heard[RecordingOf(f)] # "nothing"
    /\ upload.pc \in {"discard", "forget"} => heard[RecordingOf(upload.file)] # "nothing"

OriginalIsWhole(r) == heard[r] # "nothing" \/ file[Original(r)] = "long"

(* The repair has one whole file at every point.                            *)
RepairIsSafe ==
    /\ boot.pc = "discard" => said[boot.rec] # "long"
    /\ boot.pc \in {"write", "replace", "undo"} => OriginalIsWhole(boot.rec)
    /\ boot.pc = "write" => heard[boot.rec] # "nothing" \/ file[Repaired(boot.rec)] # "absent"
    /\ boot.pc = "replace" => heard[boot.rec] # "nothing" \/ file[Repaired(boot.rec)] = "long"

(* A short file holds a short recording, and the recorder has its file.     *)
FilesHoldWhatWasSaid ==
    /\ \A r \in Recordings : file[Original(r)] \in {"short", "half"} => said[r] # "long"
    /\ recorder # None /\ said[recorder] # "long" =>
          heard[recorder] # "nothing" \/ file[Original(recorder)] # "absent"

SpokenIsKept ==
    \A r \in Recordings : said[r] = "long" /\ heard[r] = "nothing" =>
        file[Original(r)] = "long" \/ file[Repaired(r)] = "long"

Inv == /\ TypeOK /\ WorkIsNamed /\ BootBeforeRecording /\ SentIsHeard
       /\ RepairIsSafe /\ FilesHoldWhatWasSaid /\ SpokenIsKept

-----------------------------------------------------------------------------
(* The inductive invariant behind OneJobPerInterruption                     *)

(* The file may still be submitted: it is on its way, or it is there and   *)
(* its row does not keep it from being queued.                              *)
Submittable(f) ==
    \/ upload.pc = "submit" /\ upload.file = f
    \/ /\ file[f] # "absent"
       /\ row[f] # "sent" \/ (upload.pc = "forget" /\ upload.file = f)

(* A launch may still make a repaired copy of the recording.                *)
Repairable(r) ==
    \/ boot.pc \in {"off", "look"} /\ marker = r
    \/ boot.pc = "repair" /\ boot.rec = r

(* The original is still to be made, or to be submitted.                    *)
OriginalAhead(r) == said[r] = "nothing" \/ Submittable(Original(r))

(* The submissions that are still to come without a further fault: of the  *)
(* original, of a repaired copy, and of a copy that the launch makes.       *)
Ahead(r) ==
    (IF OriginalAhead(r) THEN 1 ELSE 0)
      + (IF Submittable(Repaired(r)) THEN 1 ELSE 0)
      + (IF Repairable(r) THEN 1 ELSE 0)

SubmissionsAreCounted == \A r \in Recordings : jobs[r] + Ahead(r) <= 1 + faults

(* The upload's row says how far it is.                                     *)
RowFollowsUpload ==
    /\ upload.pc = "submit" => row[upload.file] = "pending"
    /\ upload.pc \in {"discard", "forget"} => row[upload.file] = "sent"

(* A recording is started once, and has no original before that.            *)
StartIsFresh ==
    /\ \A r \in Recordings : starter[r] = "recorder" => said[r] = "nothing"
    /\ \A r \in Recordings : said[r] = "nothing" =>
          /\ file[Original(r)] = "absent"
          /\ upload.pc = "submit" => upload.file # Original(r)

JobsInv == /\ TypeOK /\ WorkIsNamed /\ BootBeforeRecording
           /\ RowFollowsUpload /\ StartIsFresh /\ SubmissionsAreCounted

=============================================================================
