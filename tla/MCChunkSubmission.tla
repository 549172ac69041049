--------------------------- MODULE MCChunkSubmission ---------------------------
(***************************************************************************)
(* A small instance of ChunkSubmission for TLC.  One instance with every   *)
(* request, failure and update free is too large, so the run starts from   *)
(* three kinds of states, in each of which some of the actors or of the    *)
(* bounds are used up: pushes and one finalize with an error and a crash;  *)
(* racing finalizes with a crash, every chunk pushed; and one finalize     *)
(* racing the settings.                                                    *)
(***************************************************************************)
EXTENDS ChunkSubmission

OneFinalizer == CHOOSE f \in Finalizer : TRUE
OnlyOneFinalizes ==
  fin = [f \in Finalizer |-> [pc     |-> IF f = OneFinalizer THEN "list" ELSE "done",
                              model  |-> setting, answer |-> "none"]]

(* Every chunk is pushed, by a request of its own, and durable.            *)
PusherOf == CHOOSE o \in [Index -> Pusher] : \A i, j \in Index : o[i] = o[j] => i = j
Payload  == CHOOSE b \in Bytes : TRUE
AllPushed ==
  /\ push = [p \in Pusher |->
               [pc     |-> "done",
                index  |-> IF \E i \in Index : PusherOf[i] = p
                             THEN CHOOSE i \in Index : PusherOf[i] = p ELSE 1,
                bytes  |-> Payload,
                answer |-> "204"]]
  /\ chunk = [i \in Index |-> [hash |-> Payload, file |-> Candidate(PusherOf[i]),
                               released |-> FALSE]]
  /\ files = WithDirs([e \in Entry |-> IF \E i \in Index : e = Candidate(PusherOf[i])
                                         THEN <<Payload>> ELSE Absent], {JobDir, ChunkDir})
  /\ disk = files

Accepting ==
  /\ row = [status |-> "accepting_chunks", hash |-> NoHash, model |-> setting,
            audio |-> FALSE]
  /\ cleaner = [c \in Cleaner |-> [pc |-> "idle", todo |-> << >>]]

PushesAndFinalize ==
  /\ setting = MaxUpdates /\ errors = 0 /\ crashes = 0
  /\ Accepting /\ OnlyOneFinalizes
  /\ chunk = [i \in Index |-> [hash |-> NoBytes, file |-> NoFile, released |-> FALSE]]
  /\ files = [e \in Entry |-> Absent] /\ disk = files
  /\ push \in [Pusher -> [pc : {"load"}, index : Index, bytes : Bytes, answer : {"none"}]]

RacingFinalizes ==
  /\ setting = MaxUpdates /\ errors = MaxErrors /\ crashes = 0
  /\ Accepting /\ AllPushed
  /\ fin = [f \in Finalizer |-> [pc |-> "list", model |-> setting, answer |-> "none"]]

RacingSettings ==
  /\ setting = 0 /\ errors = MaxErrors /\ crashes = MaxCrashes
  /\ Accepting /\ AllPushed /\ OnlyOneFinalizes

MCInit == PushesAndFinalize \/ RacingFinalizes \/ RacingSettings

MCSpec == MCInit /\ [][Next]_vars /\ Fairness
=================================================================================
