----------------------- MODULE VoiceNoteSubstrate_proofs -----------------------
(***************************************************************************)
(* Proofs about VoiceNoteSubstrate, for every set of owners, keys, ids,    *)
(* names and connections.                                                  *)
(***************************************************************************)
EXTENDS VoiceNoteSubstrate, TLAPS

(* After a commit no open transaction may write any more.                  *)
LEMMA CommitsOutdate ==
  ASSUME TypeOK, Commit \/ \E d \in Connections : CommitOf(d)
  PROVE  /\ txs' \in [Connections -> Tx]
         /\ \A c \in Connections : txs'[c].kind # "idle" =>
               txs'[c].rec \in Recordings /\ txs'[c].stale
<1>1. Idle \in Tx /\ Idle.kind = "idle"
  BY DEF Idle, Tx
<1>2. \A c \in Connections :
        /\ Outdated(txs[c]) \in Tx
        /\ Outdated(txs[c]).kind = txs[c].kind /\ Outdated(txs[c]).rec = txs[c].rec
        /\ Outdated(txs[c]).kind # "idle" => Outdated(txs[c]).stale
  BY DEF TypeOK, Tx, Outdated
<1>3. CASE Commit
  BY <1>2, <1>3 DEF Commit, TypeOK
<1>4. ASSUME NEW d \in Connections, CommitOf(d)
      PROVE  /\ txs' \in [Connections -> Tx]
             /\ \A c \in Connections : txs'[c].kind # "idle" =>
                   txs'[c].rec \in Recordings /\ txs'[c].stale
  BY <1>1, <1>2, <1>4 DEF CommitOf, TypeOK
<1>. QED
  BY <1>3, <1>4

(* So a commit breaks no snapshot that is still in use.                     *)
LEMMA CommitsKeepSnapshots ==
  ASSUME TypeOK, Commit \/ \E d \in Connections : CommitOf(d)
  PROVE  SnapshotsHold'
  BY CommitsOutdate DEF SnapshotsHold

(* The invariant holds of empty tables.                                    *)
LEMMA InitInv == Init => Inv
<1> SUFFICES ASSUME Init PROVE Inv
  OBVIOUS
<1>1. TypeOK
  BY DEF Init, TypeOK, Session, Tag, Job, Note, Tx, Idle
<1>2. JobsKnowSessions /\ NotesFit /\ SnapshotsHold /\ AnswersStand /\ TagsAreDistinct
  BY DEF Init, JobsKnowSessions, NotesFit, SnapshotsHold, AnswersStand, TagsAreDistinct, Idle
<1>. QED
  BY <1>1, <1>2 DEF Inv

(* A new session is one that no row has named.                             *)
LEMMA CreateSessionInv ==
  ASSUME Inv, NEW o \in Owners, NEW s \in SessionIds, CreateSession(o, s)
  PROVE  Inv'
<1>. USE DEF Inv, CreateSession
<1>0. \A u \in SessionIds : u # s => sessions'[u] = sessions[u]
  BY DEF TypeOK
<1>1. sessions' \in [SessionIds -> Session] /\ sessions[s].row = "free"
  BY DEF TypeOK, Session
<1>2. TypeOK'
  BY <1>1, CommitsOutdate DEF TypeOK
<1>3. \A p \in Owners, u \in SessionIds : SessionOf(p, u) => u # s
  BY <1>1 DEF SessionOf
<1>4. \A p \in Owners, u \in SessionIds : SessionOf(p, u) => SessionOf(p, u)'
  BY <1>0, <1>3 DEF SessionOf
<1>5. \A r \in Recordings : jobs[r].session \in SessionIds \cup {None} /\ r[1] \in Owners
                            /\ notes[r].session \in SessionIds \cup {None}
  BY DEF TypeOK, Job, Note, Recordings
<1>6. JobsKnowSessions'
  BY <1>0, <1>1, <1>5 DEF JobsKnowSessions
<1>7. \A r \in Recordings, u \in SessionIds \cup {None} :
        jobs[r].status # "none" /\ SessionFits(r, u) => SessionFits(r, u)'
  BY <1>0, <1>1, <1>4, <1>5 DEF SessionFits, JobsKnowSessions
<1>8. NotesFit'
  BY <1>5, <1>7 DEF NotesFit, TagOf
<1>9. AnswersStand'
  BY <1>0, <1>1 DEF AnswersStand, MatchesOpenSubmission, SessionOf, TypeOK
<1>10. TagsAreDistinct'
  BY DEF TagsAreDistinct
<1>. QED
  BY <1>2, <1>6, <1>8, <1>9, <1>10, CommitsKeepSnapshots

(* The notes of a deleted session lose it in the same step.                *)
LEMMA DeleteSessionInv ==
  ASSUME Inv, NEW o \in Owners, NEW s \in SessionIds, DeleteSession(o, s)
  PROVE  Inv'
<1>. USE DEF Inv, DeleteSession
<1>0. \A u \in SessionIds : u # s => sessions'[u] = sessions[u]
  BY DEF TypeOK
<1>1. sessions' \in [SessionIds -> Session] /\ sessions[s].row = "live"
      /\ sessions[s].owner = o /\ sessions'[s].row = "gone" /\ sessions'[s].owner = o
  BY DEF TypeOK, Session, SessionOf
<1>2. \A r \in Recordings :
        /\ notes'[r] \in Note /\ notes'[r].row = notes[r].row
        /\ notes'[r].tagged = notes[r].tagged
        /\ notes'[r].session = IF r[1] = o /\ notes[r].session = s THEN None
                                                                   ELSE notes[r].session
  BY DEF TypeOK, Note
<1>3. TypeOK'
  BY <1>1, <1>2, CommitsOutdate DEF TypeOK
<1>4. \A r \in Recordings : jobs[r].session \in SessionIds \cup {None} /\ r[1] \in Owners
                            /\ notes[r].session \in SessionIds \cup {None}
  BY DEF TypeOK, Job, Note, Recordings
<1>5. JobsKnowSessions'
  BY <1>0, <1>1, <1>4 DEF JobsKnowSessions
<1>6. ASSUME NEW r \in Recordings, notes[r].row = "live"
      PROVE  SessionFits(r, notes[r].session)'
  <2>1. SessionFits(r, notes[r].session)
    BY <1>6 DEF NotesFit
  <2>2. CASE notes[r].session = s
    <3>1. r[1] = o /\ jobs[r].session = s /\ notes'[r].session = None
      BY <1>1, <1>2, <2>1, <2>2, NoneAssumption DEF SessionFits, SessionOf
    <3>. QED
      BY <1>1, <3>1 DEF SessionFits
  <2>3. CASE notes[r].session # s
    BY <1>0, <1>1, <1>2, <1>4, <2>1, <2>3 DEF SessionFits, SessionOf
  <2>. QED
    BY <2>2, <2>3
<1>7. NotesFit'
  BY <1>2, <1>6 DEF NotesFit, TagOf
<1>8. AnswersStand'
  BY <1>0, <1>1 DEF AnswersStand, MatchesOpenSubmission, SessionOf, TypeOK
<1>9. TagsAreDistinct'
  BY DEF TagsAreDistinct
<1>. QED
  BY <1>3, <1>5, <1>7, <1>8, <1>9, CommitsKeepSnapshots

(* Tags only change by one that is new, renamed to a free name or deleted. *)
LEMMA TagInv ==
  ASSUME Inv, NEW o \in Owners, NEW t \in TagIds,
         \/ \E fold \in Folds : CreateTag(o, t, fold) \/ RenameTag(o, t, fold)
         \/ DeleteTag(o, t)
  PROVE  Inv'
<1>. USE DEF Inv
<1>1. ASSUME Commit, UNCHANGED <<sessions, jobs, answers>>, TypeOK', TagsAreDistinct', NotesFit'
      PROVE  Inv'
  BY <1>1, CommitsKeepSnapshots
     DEF JobsKnowSessions, AnswersStand, MatchesOpenSubmission, SessionOf
<1>2. ASSUME NEW fold \in Folds, UNCHANGED <<sessions, jobs, notes, answers>>, Commit,
             tags' = [tags EXCEPT ![t] = [row |-> "live", owner |-> o, fold |-> fold]],
             tags[t].row = "free" \/ TagOf(o, t), TagNamed(o, fold) \subseteq {t}
      PROVE  Inv'
  <2>1. tags' \in [TagIds -> Tag]
    BY <1>2 DEF TypeOK, Tag
  <2>2. TypeOK'
    BY <1>2, <2>1, CommitsOutdate DEF TypeOK
  <2>3. \A p \in Owners, u \in TagIds : TagOf(p, u) => TagOf(p, u)'
    BY <1>2 DEF TagOf, TypeOK
  <2>4. NotesFit'
    BY <1>2, <2>3 DEF NotesFit, SessionFits, SessionOf, TypeOK, Note, Recordings
  <2>5. \A u \in TagIds : u # t =>
          tags'[u] = tags[u] /\ ~(tags[u].row = "live" /\ tags[u].owner = o /\ tags[u].fold = fold)
    BY <1>2 DEF TagNamed, TagOf, TypeOK
  <2>6. tags'[t].row = "live" /\ tags'[t].owner = o /\ tags'[t].fold = fold
    BY <1>2 DEF TypeOK
  <2>7. TagsAreDistinct'
    BY <2>5, <2>6 DEF TagsAreDistinct
  <2>. QED
    BY <1>1, <1>2, <2>2, <2>4, <2>7
<1>3. ASSUME NEW fold \in Folds, CreateTag(o, t, fold)
      PROVE  Inv'
  <2>1. CASE TagNamed(o, fold) # {}
    <3>1. TypeOK' /\ NotesFit' /\ TagsAreDistinct'
      BY <1>3, <2>1, CommitsOutdate
         DEF CreateTag, TypeOK, NotesFit, SessionFits, SessionOf, TagOf, TagsAreDistinct
    <3>. QED
      BY <1>1, <1>3, <3>1 DEF CreateTag
  <2>2. CASE TagNamed(o, fold) = {}
    BY <1>2, <1>3, <2>2 DEF CreateTag
  <2>. QED
    BY <2>1, <2>2
<1>4. ASSUME NEW fold \in Folds, RenameTag(o, t, fold)
      PROVE  Inv'
  BY <1>2, <1>4 DEF RenameTag
<1>5. ASSUME DeleteTag(o, t)
      PROVE  Inv'
  <2>1. tags' \in [TagIds -> Tag] /\ tags'[t].row = "gone"
        /\ \A u \in TagIds : u # t => tags'[u] = tags[u]
    BY <1>5 DEF DeleteTag, TypeOK, Tag
  <2>2. \A r \in Recordings :
          /\ notes'[r] \in Note /\ notes'[r].row = notes[r].row
          /\ notes'[r].session = notes[r].session /\ notes'[r].tagged = notes[r].tagged \ {t}
    BY <1>5 DEF DeleteTag, TypeOK, Note
  <2>3. TypeOK'
    BY <1>5, <2>1, <2>2, CommitsOutdate DEF DeleteTag, TypeOK
  <2>4. \A r \in Recordings, u \in SessionIds \cup {None} : SessionFits(r, u) => SessionFits(r, u)'
    BY <1>5 DEF DeleteTag, SessionFits, SessionOf
  <2>5. NotesFit'
    BY <1>5, <2>1, <2>2, <2>4 DEF DeleteTag, NotesFit, TagOf, TypeOK, Note
  <2>6. TagsAreDistinct'
    BY <2>1 DEF TagsAreDistinct
  <2>. QED
    BY <1>1, <1>5, <2>3, <2>5, <2>6 DEF DeleteTag
<1>. QED
  BY <1>3, <1>4, <1>5

(* A note that is deleted refers to nothing.                               *)
LEMMA DeleteNoteInv ==
  ASSUME Inv, NEW n \in Recordings, DeleteNote(n)
  PROVE  Inv'
<1>. USE DEF Inv, DeleteNote
<1>1. \A r \in Recordings :
        /\ notes'[r] \in Note
        /\ notes'[r] = notes[r] \/ (notes'[r].row = "gone" /\ notes'[r].tagged = {})
  BY DEF TypeOK, Note
<1>2. TypeOK'
  BY <1>1, CommitsOutdate DEF TypeOK
<1>3. NotesFit'
  BY <1>1 DEF NotesFit, SessionFits, SessionOf, TagOf
<1>. QED
  BY <1>2, <1>3, CommitsKeepSnapshots
     DEF JobsKnowSessions, AnswersStand, MatchesOpenSubmission, SessionOf, TagsAreDistinct

(* The first open under a key that is not refused settles what it stands   *)
(* for.                                                                    *)
LEMMA OpenCreatesInv ==
  ASSUME Inv, NEW n \in Recordings, NEW s \in SessionIds \cup {None}, NEW b \in Bodies,
         OpenCreates(n, s, b)
  PROVE  Inv'
<1>. USE DEF Inv, OpenCreates, Answer
<1>1. /\ jobs'[n] = [status |-> "accepting_chunks", session |-> s, body |-> b]
      /\ \A r \in Recordings : r # n => jobs'[r] = jobs[r]
      /\ jobs' \in [Recordings -> Job]
  BY DEF TypeOK, Job
<1>2. TypeOK'
  BY <1>1, CommitsOutdate DEF TypeOK
<1>3. JobsKnowSessions'
  BY <1>1 DEF JobsKnowSessions, SessionOf
<1>4. NotesFit'
  BY <1>1 DEF NotesFit, SessionFits, SessionOf, TagOf
<1>5. ASSUME NEW a \in answers, a.rec = n, a.outcome # "accepted"
      PROVE  ~MatchesOpenSubmission(a.rec, a.session, a.body)'
  <2>1. a.session # s
    BY <1>5 DEF AnswersStand
  <2>. QED
    BY <1>1, <1>5, <2>1 DEF MatchesOpenSubmission
<1>6. AnswersStand'
  BY <1>1, <1>5 DEF AnswersStand, MatchesOpenSubmission, SessionOf, TypeOK
<1>. QED
  BY <1>2, <1>3, <1>4, <1>6, CommitsKeepSnapshots DEF TagsAreDistinct

(* Answers that change no row.                                             *)
LEMMA OpenAnswersInv ==
  ASSUME Inv, NEW n \in Recordings, NEW s \in SessionIds \cup {None}, NEW b \in Bodies,
         s # None => sessions[s].row # "free",
         OpenFindsNoSession(n, s, b) \/ OpenReplays(n, s, b)
  PROVE  Inv'
<1>. USE DEF Inv, OpenFindsNoSession, OpenReplays, Answer
<1>1. UNCHANGED <<sessions, tags, jobs, notes, txs>>
  OBVIOUS
<1>2. TypeOK' /\ AnswersStand'
  BY <1>1 DEF TypeOK, AnswersStand, MatchesOpenSubmission, SessionOf
<1>3. JobsKnowSessions' /\ NotesFit' /\ TagsAreDistinct'
  BY <1>1 DEF JobsKnowSessions, NotesFit, SessionFits, SessionOf, TagOf, TagsAreDistinct
<1>4. SnapshotsHold'
  BY <1>1 DEF SnapshotsHold, SessionFits, SessionOf, TagOf
<1>. QED
  BY <1>2, <1>3, <1>4

(* The life of a job leaves what it was opened with.                       *)
LEMMA JobMovesInv ==
  ASSUME Inv, NEW n \in Recordings, NEW status \in {"processing", "failed"},
         JobMoves(n, status)
  PROVE  Inv'
<1>. USE DEF Inv, JobMoves
<1>1. \A r \in Recordings :
        /\ jobs'[r] \in Job
        /\ jobs'[r].session = jobs[r].session /\ jobs'[r].body = jobs[r].body
        /\ jobs[r].status # "none" <=> jobs'[r].status # "none"
  BY DEF TypeOK, Job
<1>2. TypeOK'
  BY <1>1, CommitsOutdate DEF TypeOK
<1>3. JobsKnowSessions' /\ NotesFit'
  BY <1>1 DEF JobsKnowSessions, NotesFit, SessionFits, SessionOf, TagOf
<1>4. AnswersStand'
  BY <1>1 DEF AnswersStand, MatchesOpenSubmission, SessionOf, TypeOK
<1>. QED
  BY <1>2, <1>3, <1>4, CommitsKeepSnapshots DEF TagsAreDistinct

(* A transaction that begins has read what is there.                       *)
LEMMA BeginInv ==
  ASSUME Inv, NEW c \in Connections, NEW n \in Recordings,
         CompletionReads(c, n) \/ \E put \in SUBSET TagIds : PutReads(c, n, put)
  PROVE  Inv'
<1>. USE DEF Inv, Begin
<1>1. ASSUME NEW tx \in Tx, Begin(c, tx), tx.kind # "idle", tx.rec = n, ~tx.stale,
             IF tx.kind = "complete"
             THEN jobs[n].status # "none" /\ SessionFits(n, tx.session)
             ELSE notes[n].row = "live" /\ \A t \in tx.tagged : TagOf(n[1], t)
      PROVE  Inv'
  <2>1. txs'[c] = tx /\ \A d \in Connections : d # c => txs'[d] = txs[d]
    BY <1>1 DEF TypeOK
  <2>2. TypeOK'
    BY <1>1, <2>1 DEF TypeOK
  <2>3. JobsKnowSessions' /\ NotesFit' /\ TagsAreDistinct'
    BY <1>1 DEF JobsKnowSessions, NotesFit, SessionFits, SessionOf, TagOf, TagsAreDistinct
  <2>4. AnswersStand'
    BY <1>1 DEF AnswersStand, MatchesOpenSubmission, SessionOf
  <2>5. SnapshotsHold'
    BY <1>1, <2>1 DEF SnapshotsHold, SessionFits, SessionOf, TagOf
  <2>. QED
    BY <2>2, <2>3, <2>4, <2>5
<1>2. ASSUME CompletionReads(c, n)
      PROVE  Inv'
  <2>1. jobs[n].status # "none" /\ jobs[n].session \in SessionIds \cup {None}
    BY <1>2 DEF CompletionReads, TypeOK, Job
  <2>2. ResolvedSession(n) \in SessionIds \cup {None} /\ SessionFits(n, ResolvedSession(n))
    <3>1. CASE jobs[n].session = None
      BY <2>1, <3>1 DEF ResolvedSession, SessionFits
    <3>2. CASE jobs[n].session # None
      BY <2>1, <3>2, NoneAssumption
         DEF ResolvedSession, SessionFits, SessionOf, JobsKnowSessions, TypeOK, Session
    <3>. QED
      BY <3>1, <3>2
  <2>. DEFINE tx == [kind |-> "complete", rec |-> n, session |-> ResolvedSession(n),
                     tagged |-> {}, stale |-> FALSE]
  <2>3. tx \in Tx /\ tx.kind = "complete" /\ tx.rec = n /\ ~tx.stale
        /\ tx.session = ResolvedSession(n)
    BY <2>2 DEF Tx
  <2>4. Begin(c, tx)
    BY <1>2 DEF CompletionReads
  <2>. HIDE DEF tx
  <2>. QED
    BY <1>1, <2>1, <2>2, <2>3, <2>4
<1>3. ASSUME NEW put \in SUBSET TagIds, PutReads(c, n, put)
      PROVE  Inv'
  <2>. DEFINE tx == [kind |-> "put", rec |-> n, session |-> None, tagged |-> put,
                     stale |-> FALSE]
  <2>1. tx \in Tx /\ tx.kind = "put" /\ tx.rec = n /\ ~tx.stale /\ tx.tagged = put
    BY DEF Tx
  <2>2. Begin(c, tx) /\ notes[n].row = "live" /\ \A t \in put : TagOf(n[1], t)
    BY <1>3 DEF PutReads
  <2>. HIDE DEF tx
  <2>. QED
    BY <1>1, <2>1, <2>2
<1>. QED
  BY <1>2, <1>3

(* A transaction that may write has read what still is so.                 *)
LEMMA CompletionWritesInv ==
  ASSUME Inv, NEW c \in Connections, CompletionWrites(c)
  PROVE  Inv'
<1>. USE DEF Inv, CompletionWrites, MayWrite
<1>. DEFINE n == txs[c].rec
<1>1. n \in Recordings /\ txs[c].session \in SessionIds \cup {None}
  BY DEF TypeOK, Tx
<1>2. jobs[n].status # "none" /\ SessionFits(n, txs[c].session)
  BY DEF SnapshotsHold
<1>3. /\ notes' = [notes EXCEPT ![n] = [row |-> "live", session |-> txs[c].session,
                                        tagged |-> {}]]
      /\ jobs' = [jobs EXCEPT ![n] = [status |-> "succeeded", session |-> jobs[n].session,
                                      body |-> jobs[n].body]]
  OBVIOUS
<1>. HIDE DEF n
<1>4. \A r \in Recordings :
        /\ jobs'[r] \in Job
        /\ jobs'[r].session = jobs[r].session /\ jobs'[r].body = jobs[r].body
        /\ jobs[r].status # "none" <=> jobs'[r].status # "none"
  BY <1>1, <1>2, <1>3 DEF TypeOK, Job
<1>5. \A r \in Recordings :
        /\ notes'[r] \in Note
        /\ IF r = n THEN notes'[r].session = txs[c].session /\ notes'[r].tagged = {}
                          /\ notes'[r].row = "live"
                    ELSE notes'[r] = notes[r]
  BY <1>1, <1>3 DEF TypeOK, Note
<1>6. TypeOK'
  BY <1>3, <1>4, <1>5, CommitsOutdate DEF TypeOK
<1>7. JobsKnowSessions'
  BY <1>4 DEF JobsKnowSessions
<1>8. NotesFit'
  BY <1>1, <1>2, <1>4, <1>5 DEF NotesFit, SessionFits, SessionOf, TagOf
<1>9. AnswersStand'
  BY <1>4 DEF AnswersStand, MatchesOpenSubmission, SessionOf, TypeOK
<1>. QED
  BY <1>6, <1>7, <1>8, <1>9, CommitsKeepSnapshots DEF TagsAreDistinct

(* The tags that are written are still there.                               *)
LEMMA PutWritesInv ==
  ASSUME Inv, NEW c \in Connections, PutWrites(c)
  PROVE  Inv'
<1>. USE DEF Inv, PutWrites, MayWrite
<1>. DEFINE n == txs[c].rec
<1>1. n \in Recordings /\ txs[c].tagged \in SUBSET TagIds
  BY DEF TypeOK, Tx
<1>2. notes[n].row = "live" /\ \A t \in txs[c].tagged : TagOf(n[1], t)
  BY DEF SnapshotsHold
<1>3. notes' = [notes EXCEPT ![n] = [row |-> "live", session |-> notes[n].session,
                                      tagged |-> txs[c].tagged]]
  OBVIOUS
<1>. HIDE DEF n
<1>4. \A r \in Recordings :
        /\ notes'[r] \in Note /\ notes'[r].session = notes[r].session
        /\ IF r = n THEN notes'[r].tagged = txs[c].tagged /\ notes'[r].row = "live"
                    ELSE notes'[r] = notes[r]
  BY <1>1, <1>3 DEF TypeOK, Note
<1>5. TypeOK'
  BY <1>4, <1>3, CommitsOutdate DEF TypeOK
<1>6. NotesFit'
  BY <1>1, <1>2, <1>4 DEF NotesFit, SessionFits, SessionOf, TagOf
<1>. QED
  BY <1>5, <1>6, CommitsKeepSnapshots
     DEF JobsKnowSessions, AnswersStand, MatchesOpenSubmission, SessionOf, TagsAreDistinct

(* A transaction that is dropped leaves the tables as they are.             *)
LEMMA RollsBackInv ==
  ASSUME Inv, NEW c \in Connections, RollsBack(c)
  PROVE  Inv'
<1>. USE DEF Inv, RollsBack
<1>1. Idle \in Tx /\ Idle.kind = "idle"
  BY DEF Idle, Tx
<1>2. txs'[c] = Idle /\ \A d \in Connections : d # c => txs'[d] = txs[d]
  BY DEF TypeOK
<1>3. TypeOK'
  BY <1>1, <1>2 DEF TypeOK
<1>4. JobsKnowSessions' /\ NotesFit' /\ TagsAreDistinct'
  BY DEF JobsKnowSessions, NotesFit, SessionFits, SessionOf, TagOf, TagsAreDistinct
<1>5. AnswersStand'
  BY DEF AnswersStand, MatchesOpenSubmission, SessionOf
<1>6. SnapshotsHold'
  BY <1>1, <1>2 DEF SnapshotsHold, SessionFits, SessionOf, TagOf
<1>. QED
  BY <1>3, <1>4, <1>5, <1>6

(* Every step keeps the invariant.                                         *)
LEMMA NextInv == Inv /\ [Next]_vars => Inv'
<1> SUFFICES ASSUME Inv, [Next]_vars PROVE Inv'
  OBVIOUS
<1>1. ASSUME NEW o \in Owners, NEW s \in SessionIds,
             CreateSession(o, s) \/ DeleteSession(o, s)
      PROVE  Inv'
  BY <1>1, CreateSessionInv, DeleteSessionInv
<1>2. ASSUME NEW o \in Owners, NEW t \in TagIds,
             \/ \E fold \in Folds : CreateTag(o, t, fold) \/ RenameTag(o, t, fold)
             \/ DeleteTag(o, t)
      PROVE  Inv'
  BY <1>2, TagInv
<1>3. ASSUME NEW r \in Recordings, DeleteNote(r)
      PROVE  Inv'
  BY <1>3, DeleteNoteInv
<1>4. ASSUME NEW r \in Recordings, NEW s \in SessionIds \cup {None}, NEW b \in Bodies,
             Open(r, s, b)
      PROVE  Inv'
  BY <1>4, OpenCreatesInv, OpenAnswersInv DEF Open
<1>5. ASSUME NEW r \in Recordings, NEW status \in {"processing", "failed"}, JobMoves(r, status)
      PROVE  Inv'
  BY <1>5, JobMovesInv
<1>6. ASSUME NEW r \in Recordings, NEW c \in Connections,
             CompletionReads(c, r) \/ \E put \in SUBSET TagIds : PutReads(c, r, put)
      PROVE  Inv'
  BY <1>6, BeginInv
<1>7. ASSUME NEW c \in Connections, CompletionWrites(c) \/ PutWrites(c) \/ RollsBack(c)
      PROVE  Inv'
  BY <1>7, CompletionWritesInv, PutWritesInv, RollsBackInv
<1>8. CASE UNCHANGED vars
  BY <1>8 DEF vars, Inv, TypeOK, JobsKnowSessions, NotesFit, SnapshotsHold, AnswersStand,
              TagsAreDistinct, SessionFits, SessionOf, TagOf, MatchesOpenSubmission
<1>. QED
  BY <1>1, <1>2, <1>3, <1>4, <1>5, <1>6, <1>7, <1>8 DEF Next

(* The inductive invariant: jobs know the sessions they were opened in,    *)
(* notes fit their jobs, snapshots in use are true, answers stand.          *)
THEOREM Invariance == Spec => []Inv
<1>. QED
  BY InitInv, NextInv, PTL DEF Spec

(* The tables hold what their columns allow, for any number of owners.     *)
THEOREM TypeCorrectness == Spec => []TypeOK
<1>1. Inv => TypeOK
  BY DEF Inv
<1>. QED
  BY <1>1, Invariance, PTL

(* No note ever refers to a session or tag that is not there or not its    *)
(* owner's, whatever is deleted while it is completed or tagged.           *)
THEOREM NoDanglingReferences == Spec => []ReferencesHold
<1>1. Inv => ReferencesHold
  BY DEF Inv, NotesFit, SessionFits, ReferencesHold
<1>. QED
  BY <1>1, Invariance, PTL

(* A note stays in the session its recording was made for until that       *)
(* session is deleted.                                                     *)
THEOREM SessionsAreKept == Spec => []NoteKeepsSession
<1>1. Inv => NoteKeepsSession
  BY DEF Inv, NotesFit, SessionFits, NoteKeepsSession
<1>. QED
  BY <1>1, Invariance, PTL

(* A retried open is answered as the first one was.                        *)
THEOREM RetriesAgree == Spec => []AnswersAgree
<1>1. Inv => AnswersAgree
  <2> SUFFICES ASSUME Inv, NEW a \in answers, NEW b \in answers,
                      a.rec = b.rec, a.session = b.session, a.body = b.body
               PROVE  a.outcome = b.outcome
    BY DEF AnswersAgree
  <2>1. a.outcome \in {"accepted", "refused"} /\ b.outcome \in {"accepted", "refused"}
    BY DEF Inv, TypeOK
  <2>. QED
    BY <2>1 DEF Inv, AnswersStand, MatchesOpenSubmission
<1>. QED
  BY <1>1, Invariance, PTL

(* Of an owner's tags no two fold to one name.                             *)
THEOREM TagNamesDistinct == Spec => []TagsAreDistinct
<1>1. Inv => TagsAreDistinct
  BY DEF Inv
<1>. QED
  BY <1>1, Invariance, PTL

=============================================================================
