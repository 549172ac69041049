-------------------------- MODULE VoiceNoteSubstrate --------------------------
(***************************************************************************)
(* The rows that jobs, notes, sessions and tags keep of one another, under *)
(* the requests of several owners and the worker that completes jobs.      *)
(*                                                                         *)
(* A handler that starts with a write or with BEGIN IMMEDIATE is one step. *)
(* The two that read before they write, the completion of a job and PUT    *)
(* tags, run in deferred transactions: SQLite in WAL mode lets the reads   *)
(* see one snapshot and refuses the write when anyone has committed since. *)
(*                                                                         *)
(* Ids are ULIDs: none is given out twice.  A job has at most one note, so *)
(* a note goes by the owner and idempotency key of its job.                *)
(***************************************************************************)
EXTENDS FiniteSets

CONSTANTS
    Owners,       \* API keys
    Keys,         \* idempotency keys
    Bodies,       \* recorded_at, language, chunk_count and audio_format of an open
    SessionIds, TagIds,
    Folds,        \* tag names after fold_tag_name
    Connections,  \* of the pool, with a deferred transaction or idle
    None          \* NULL

ASSUME NoneAssumption ==
    /\ None \notin SessionIds \cup TagIds \cup Bodies
    /\ None \notin Owners \cup Folds

VARIABLES
    sessions,  \* table sessions: owner, and whether the row is there
    tags,      \* table tags: owner, folded name, and whether the row is there
    jobs,      \* table transcription_jobs by owner and key
    notes,     \* tables voice_notes and voice_note_tags by owner and key
    txs,       \* the deferred transactions that are open
    answers    \* history: how opens were answered

vars == <<sessions, tags, jobs, notes, txs, answers>>

Recordings == Owners \X Keys

(* Rows: not yet inserted, there, or deleted.                               *)
Session == [row : {"free", "live", "gone"}, owner : Owners \cup {None}]
Tag == [row : {"free", "live", "gone"}, owner : Owners \cup {None}, fold : Folds \cup {None}]
Job == [status : {"none", "accepting_chunks", "processing", "succeeded", "failed"},
        session : SessionIds \cup {None}, body : Bodies \cup {None}]
Note == [row : {"free", "live", "gone"}, session : SessionIds \cup {None},
         tagged : SUBSET TagIds]

Idle == [kind |-> "idle", rec |-> None, session |-> None, tagged |-> {}, stale |-> FALSE]

Init ==
    /\ sessions = [s \in SessionIds |-> [row |-> "free", owner |-> None]]
    /\ tags = [t \in TagIds |-> [row |-> "free", owner |-> None, fold |-> None]]
    /\ jobs = [r \in Recordings |-> [status |-> "none", session |-> None, body |-> None]]
    /\ notes = [r \in Recordings |-> [row |-> "free", session |-> None, tagged |-> {}]]
    /\ txs = [c \in Connections |-> Idle]
    /\ answers = {}

-----------------------------------------------------------------------------

SessionOf(o, s) == sessions[s].row = "live" /\ sessions[s].owner = o
TagOf(o, t) == tags[t].row = "live" /\ tags[t].owner = o

(* A commit: every other snapshot is now one of the past.                   *)
Outdated(tx) == [kind |-> tx.kind, rec |-> tx.rec, session |-> tx.session,
                 tagged |-> tx.tagged, stale |-> tx.kind # "idle"]

Commit == txs' = [c \in Connections |-> Outdated(txs[c])]

CommitOf(d) == txs' = [c \in Connections |-> IF c = d THEN Idle ELSE Outdated(txs[c])]

CreateSession(o, s) ==
    /\ sessions[s].row = "free"
    /\ sessions' = [sessions EXCEPT ![s] = [row |-> "live", owner |-> o]]
    /\ Commit
    /\ UNCHANGED <<tags, jobs, notes, answers>>

(* The trigger sessions_delete_null_voice_notes runs with the delete; jobs  *)
(* keep the id, which is part of what their key was opened with.            *)
DeleteSession(o, s) ==
    /\ SessionOf(o, s)
    /\ sessions' = [sessions EXCEPT ![s] = [row |-> "gone", owner |-> o]]
    /\ notes' = [r \in Recordings |->
                    [row |-> notes[r].row, tagged |-> notes[r].tagged,
                     session |-> IF r[1] = o /\ notes[r].session = s THEN None
                                                                     ELSE notes[r].session]]
    /\ Commit
    /\ UNCHANGED <<tags, jobs, answers>>

(* A name that folds to that of a tag there is renames that tag.            *)
TagNamed(o, fold) == {t \in TagIds : TagOf(o, t) /\ tags[t].fold = fold}

CreateTag(o, t, fold) ==
    /\ IF TagNamed(o, fold) # {}
       THEN UNCHANGED tags
       ELSE /\ tags[t].row = "free"
            /\ tags' = [tags EXCEPT ![t] = [row |-> "live", owner |-> o, fold |-> fold]]
    /\ Commit
    /\ UNCHANGED <<sessions, jobs, notes, answers>>

RenameTagUnchecked(o, t, fold) ==                                   \* mutant
    /\ TagOf(o, t)
    /\ tags' = [tags EXCEPT ![t] = [row |-> "live", owner |-> o, fold |-> fold]]
    /\ Commit
    /\ UNCHANGED <<sessions, jobs, notes, answers>>

RenameTag(o, t, fold) ==
    /\ TagOf(o, t) /\ TagNamed(o, fold) \subseteq {t}
    /\ tags' = [tags EXCEPT ![t] = [row |-> "live", owner |-> o, fold |-> fold]]
    /\ Commit
    /\ UNCHANGED <<sessions, jobs, notes, answers>>

(* Deletes cascade to voice_note_tags.                                      *)
DeleteTag(o, t) ==
    /\ TagOf(o, t)
    /\ tags' = [tags EXCEPT ![t] = [row |-> "gone", owner |-> o, fold |-> None]]
    /\ notes' = [r \in Recordings |->
                    [row |-> notes[r].row, session |-> notes[r].session,
                     tagged |-> notes[r].tagged \ {t}]]
    /\ Commit
    /\ UNCHANGED <<sessions, jobs, answers>>

DeleteNoteOnly(r) ==                                                \* mutant
    /\ notes[r].row = "live"
    /\ notes' = [notes EXCEPT ![r] = [row |-> "gone", session |-> None,
                                      tagged |-> notes[r].tagged]]
    /\ Commit
    /\ UNCHANGED <<sessions, tags, jobs, answers>>

DeleteNote(r) ==
    /\ notes[r].row = "live"
    /\ notes' = [notes EXCEPT ![r] = [row |-> "gone", session |-> None, tagged |-> {}]]
    /\ Commit
    /\ UNCHANGED <<sessions, tags, jobs, answers>>

-----------------------------------------------------------------------------
(* Opening a job                                                            *)

Answer(r, s, b, outcome) ==
    answers' = answers \cup {[rec |-> r, session |-> s, body |-> b, outcome |-> outcome]}

MatchesOpenSubmission(r, s, b) == jobs[r].session = s /\ jobs[r].body = b

(* The row is inserted when its session is there and its key is not.        *)
OpenCreates(r, s, b) ==
    /\ jobs[r].status = "none"
    /\ s # None => SessionOf(r[1], s)
    /\ jobs' = [jobs EXCEPT ![r] = [status |-> "accepting_chunks", session |-> s, body |-> b]]
    /\ Answer(r, s, b, "accepted")
    /\ Commit
    /\ UNCHANGED <<sessions, tags, notes>>

OpenFindsNoSession(r, s, b) ==
    /\ jobs[r].status = "none"
    /\ s # None /\ ~SessionOf(r[1], s)
    /\ Answer(r, s, b, "refused")
    /\ UNCHANGED <<sessions, tags, jobs, notes, txs>>

(* A retry is answered from the job, whatever became of its session.        *)
OpenReplaysLiveSessions(r, s, b) ==                                 \* mutant
    /\ jobs[r].status # "none"
    /\ Answer(r, s, b, IF /\ MatchesOpenSubmission(r, s, b)
                          /\ s = None \/ SessionOf(r[1], s) THEN "accepted" ELSE "refused")
    /\ UNCHANGED <<sessions, tags, jobs, notes, txs>>

OpenReplays(r, s, b) ==
    /\ jobs[r].status # "none"
    /\ Answer(r, s, b, IF MatchesOpenSubmission(r, s, b) THEN "accepted" ELSE "refused")
    /\ UNCHANGED <<sessions, tags, jobs, notes, txs>>

(* Clients name the sessions they were told of.                             *)
Open(r, s, b) ==
    /\ s # None => sessions[s].row # "free"
    /\ OpenCreates(r, s, b) \/ OpenFindsNoSession(r, s, b) \/ OpenReplays(r, s, b)

(* Chunks, acceptance, claims and failures, of which other modules tell.    *)
JobMoves(r, status) ==
    /\ \/ jobs[r].status = "accepting_chunks" /\ status \in {"processing", "failed"}
       \/ jobs[r].status = "processing" /\ status = "failed"
    /\ jobs' = [jobs EXCEPT ![r] = [status |-> status, session |-> jobs[r].session,
                                    body |-> jobs[r].body]]
    /\ Commit
    /\ UNCHANGED <<sessions, tags, notes, answers>>

-----------------------------------------------------------------------------
(* Deferred transactions                                                    *)

Begin(c, tx) ==
    /\ txs[c].kind = "idle"
    /\ txs' = [txs EXCEPT ![c] = tx]
    /\ UNCHANGED <<sessions, tags, jobs, notes, answers>>

(* The session a note gets: its job's, through the left join.               *)
ResolvedSessionInner(r) == None                                     \* mutant

ResolvedSession(r) ==
    IF jobs[r].session # None /\ SessionOf(r[1], jobs[r].session)
    THEN jobs[r].session ELSE None

CompletionReads(c, r) ==
    /\ jobs[r].status = "processing"
    /\ Begin(c, [kind |-> "complete", rec |-> r, session |-> ResolvedSession(r),
                 tagged |-> {}, stale |-> FALSE])

(* Whether SQLite lets the transaction write.                               *)
MayWriteAlways(c) == TRUE                                           \* mutant

MayWrite(c) == ~txs[c].stale

CompletionWrites(c) ==
    /\ txs[c].kind = "complete" /\ MayWrite(c)
    /\ LET r == txs[c].rec
       IN  /\ notes' = [notes EXCEPT ![r] = [row |-> "live", session |-> txs[c].session,
                                             tagged |-> {}]]
           /\ jobs' = [jobs EXCEPT ![r] = [status |-> "succeeded", session |-> jobs[r].session,
                                           body |-> jobs[r].body]]
    /\ CommitOf(c)
    /\ UNCHANGED <<sessions, tags, answers>>

(* The note and every tag must be the owner's.                              *)
PutReads(c, r, put) ==
    /\ notes[r].row = "live" /\ \A t \in put : TagOf(r[1], t)
    /\ Begin(c, [kind |-> "put", rec |-> r, session |-> None, tagged |-> put, stale |-> FALSE])

PutWrites(c) ==
    /\ txs[c].kind = "put" /\ MayWrite(c)
    /\ LET r == txs[c].rec
       IN  notes' = [notes EXCEPT ![r] = [row |-> "live", session |-> notes[r].session,
                                          tagged |-> txs[c].tagged]]
    /\ CommitOf(c)
    /\ UNCHANGED <<sessions, tags, jobs, answers>>

(* SQLITE_BUSY_SNAPSHOT, another error, or a crash: nothing is written.     *)
RollsBack(c) ==
    /\ txs[c].kind # "idle"
    /\ txs' = [txs EXCEPT ![c] = Idle]
    /\ UNCHANGED <<sessions, tags, jobs, notes, answers>>

-----------------------------------------------------------------------------

Next ==
    \/ \E o \in Owners :
          \/ \E s \in SessionIds : CreateSession(o, s) \/ DeleteSession(o, s)
          \/ \E t \in TagIds :
                \/ DeleteTag(o, t)
                \/ \E fold \in Folds : CreateTag(o, t, fold) \/ RenameTag(o, t, fold)
    \/ \E r \in Recordings :
          \/ DeleteNote(r)
          \/ \E s \in SessionIds \cup {None}, b \in Bodies : Open(r, s, b)
          \/ \E status \in {"processing", "failed"} : JobMoves(r, status)
          \/ \E c \in Connections :
                CompletionReads(c, r) \/ \E put \in SUBSET TagIds : PutReads(c, r, put)
    \/ \E c \in Connections : CompletionWrites(c) \/ PutWrites(c) \/ RollsBack(c)

Spec == Init /\ [][Next]_vars

-----------------------------------------------------------------------------
(* Properties                                                               *)

Tx == [kind : {"idle", "complete", "put"}, rec : Recordings \cup {None},
       session : SessionIds \cup {None}, tagged : SUBSET TagIds, stale : BOOLEAN]

(* The tables hold what their columns allow, and a note that is not there   *)
(* carries no tags.                                                         *)
TypeOK ==
    /\ sessions \in [SessionIds -> Session] /\ tags \in [TagIds -> Tag]
    /\ jobs \in [Recordings -> Job] /\ notes \in [Recordings -> Note]
    /\ \A r \in Recordings : notes[r].row # "live" => notes[r].tagged = {}
    /\ txs \in [Connections -> Tx]
    /\ \A c \in Connections : txs[c].kind # "idle" => txs[c].rec \in Recordings
    /\ answers \subseteq [rec : Recordings, session : SessionIds \cup {None}, body : Bodies,
                          outcome : {"accepted", "refused"}]

(* A note only refers to a session and to tags that are there and belong to *)
(* its owner, also when they are deleted while the note is written or       *)
(* tagged.                                                                  *)
ReferencesHold ==
    \A r \in Recordings : notes[r].row = "live" =>
        /\ notes[r].session # None => SessionOf(r[1], notes[r].session)
        /\ \A t \in notes[r].tagged : TagOf(r[1], t)

(* A note stays in the session its recording was made for until that        *)
(* session is deleted.                                                      *)
NoteKeepsSession ==
    \A r \in Recordings : notes[r].row = "live" =>
        \/ notes[r].session = jobs[r].session
        \/ notes[r].session = None /\ sessions[jobs[r].session].row = "gone"

(* Opens that say the same under one key are answered alike, before and     *)
(* after the job or its session came to an end.                             *)
AnswersAgree ==
    \A a, b \in answers :
        a.rec = b.rec /\ a.session = b.session /\ a.body = b.body => a.outcome = b.outcome

(* An owner has no two tags that fold to one name.                          *)
TagsAreDistinct ==
    \A t, u \in TagIds :
        tags[t].row = "live" /\ tags[u].row = "live" /\ tags[t].owner = tags[u].owner
        /\ tags[t].fold = tags[u].fold => t = u

-----------------------------------------------------------------------------
(* The inductive invariant behind them                                      *)

(* A session a note of r may have.                                          *)
SessionFits(r, s) ==
    /\ s # None => SessionOf(r[1], s)
    /\ s = jobs[r].session \/ (s = None /\ sessions[jobs[r].session].row = "gone")

(* A job was opened in a session of its owner, which may be gone by now.    *)
JobsKnowSessions ==
    \A r \in Recordings : jobs[r].status # "none" /\ jobs[r].session # None =>
        /\ sessions[jobs[r].session].row # "free"
        /\ sessions[jobs[r].session].owner = r[1]

NotesFit ==
    \A r \in Recordings : notes[r].row = "live" =>
        /\ jobs[r].status # "none"
        /\ SessionFits(r, notes[r].session)
        /\ \A t \in notes[r].tagged : TagOf(r[1], t)

(* What a transaction has read is still so while it may write.              *)
SnapshotsHold ==
    \A c \in Connections : txs[c].kind # "idle" /\ ~txs[c].stale =>
        IF txs[c].kind = "complete"
        THEN jobs[txs[c].rec].status # "none" /\ SessionFits(txs[c].rec, txs[c].session)
        ELSE /\ notes[txs[c].rec].row = "live"
             /\ \A t \in txs[c].tagged : TagOf(txs[c].rec[1], t)

(* A refused open stays refused, an accepted one accepted.                  *)
AnswersStand ==
    \A a \in answers :
        IF a.outcome = "accepted"
        THEN jobs[a.rec].status # "none" /\ MatchesOpenSubmission(a.rec, a.session, a.body)
        ELSE IF jobs[a.rec].status # "none"
        THEN ~MatchesOpenSubmission(a.rec, a.session, a.body)
        ELSE /\ a.session # None /\ sessions[a.session].row # "free"
             /\ ~SessionOf(a.rec[1], a.session)

Inv == /\ TypeOK /\ JobsKnowSessions /\ NotesFit /\ SnapshotsHold
       /\ AnswersStand /\ TagsAreDistinct

=============================================================================
