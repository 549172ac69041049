------------------------------ MODULE JobLifecycle ------------------------------
(***************************************************************************)
(* What the backend promises about a transcription job, whatever workers,  *)
(* leases, retries and sweeps do underneath: a row appears once, moves     *)
(* only along the permitted transitions, settles in a terminal status it   *)
(* never leaves, and puts a voice note in the history exactly when it      *)
(* succeeds.  A reclaim after a lost lease is invisible here.              *)
(* TranscriptionJobs implements this specification.                        *)
(***************************************************************************)
CONSTANT Job       \* transcription job ids

VARIABLES
  phase,           \* phase[j]: the status column of job j, "absent" before open
  delivered        \* jobs whose voice note is in the owner's history

vars == <<phase, delivered>>

Phase == {"absent", "accepting_chunks", "queued", "processing",
          "retry_waiting", "succeeded", "failed"}

Terminal == {"succeeded", "failed"}

LifecycleTypeOK == phase \in [Job -> Phase] /\ delivered \subseteq Job

Init == phase = [j \in Job |-> "absent"] /\ delivered = {}

Become(j, from, to) ==
  /\ phase[j] \in from
  /\ phase' = [phase EXCEPT ![j] = to]

Open(j)    == Become(j, {"absent"}, "accepting_chunks") /\ UNCHANGED delivered
Accept(j)  == Become(j, {"accepting_chunks"}, "queued") /\ UNCHANGED delivered
Abandon(j) == Become(j, {"accepting_chunks"}, "failed") /\ UNCHANGED delivered
Start(j)   == Become(j, {"queued", "retry_waiting"}, "processing")
              /\ UNCHANGED delivered
Postpone(j) == Become(j, {"processing"}, "retry_waiting") /\ UNCHANGED delivered
Fail(j)    == Become(j, {"processing"}, "failed") /\ UNCHANGED delivered
Succeed(j) == /\ j \notin delivered
              /\ Become(j, {"processing"}, "succeeded")
              /\ delivered' = delivered \cup {j}

\* The owner deletes the voice note; the job stays succeeded and makes no other.
Discard(j) == /\ phase[j] = "succeeded" /\ j \in delivered
              /\ delivered' = delivered \ {j}
              /\ UNCHANGED phase

Next == \E j \in Job : \/ Open(j) \/ Accept(j) \/ Abandon(j) \/ Start(j)
                       \/ Postpone(j) \/ Fail(j) \/ Succeed(j) \/ Discard(j)

Spec == Init /\ [][Next]_vars
=================================================================================
