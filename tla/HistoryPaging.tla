----------------------------- MODULE HistoryPaging -----------------------------
(***************************************************************************)
(* The history screen and the collection it pages through.  The server     *)
(* answers one page at a time, newest notes first when browsing, by fused  *)
(* rank when searching; the notifier of the client appends pages, searches,*)
(* refreshes and starts over, with several requests in flight that are     *)
(* answered in any order while notes come, go and change.                  *)
(*                                                                         *)
(* Notes are numbered in the order of (created_at, id).  A search ranks    *)
(* them twice, by keyword and by the distance of embeddings; what either   *)
(* makes of a text is outside the model: both lists are any of Rankings.   *)
(* A request is answered from one state of the database.                   *)
(***************************************************************************)
EXTENDS Integers, FiniteSets, Sequences, SequencesExt

CONSTANTS
    MaxNotes,      \* bound: notes ever created
    FirstNotes,    \* notes there are at the start
    PageSize,      \* DEFAULT_LIMIT
    Rankings,      \* the orders a search may find the notes in
    RoundedUp,     \* the pairs of ranks whose score a cursor brings back too high
    RoundedDown,   \* and too low
    MaxChanges,    \* bound: changes of the collection
    MaxRequests,   \* bound: requests made
    MaxFailures    \* bound: requests that fail

ASSUME NotesAssumption == MaxNotes \in Nat /\ FirstNotes \in 0..MaxNotes
ASSUME PageAssumption == PageSize \in Nat \ {0}
ASSUME RoundingAssumption ==
    RoundedUp \cup RoundedDown \subseteq Nat \X Nat /\ RoundedUp \cap RoundedDown = {}
ASSUME RankingsAssumption ==
    Rankings \subseteq {list \in Seq(1..MaxNotes) : IsInjective(list)}
ASSUME BoundsAssumption == MaxChanges \in Nat /\ MaxRequests \in Nat /\ MaxFailures \in Nat

VARIABLES
    created,    \* notes ever created
    alive,      \* the notes of the collection
    keyword,    \* the notes a search matches by keyword, best first
    semantic,   \* the notes with an embedding, nearest first
    changes,    \* changes so far
    state,      \* VoiceNoteHistoryState
    version,    \* _requestVersion
    requests,   \* requests in flight
    pages,      \* history: query and age of the pages that are shown
    asked,      \* history: the query last asked for
    failures    \* failures so far

server == <<created, alive, keyword, semantic, changes>>
vars == <<server, state, version, requests, pages, asked, failures>>

Notes == 1..MaxNotes
Queries == {"", "q"}

(* A cursor names the last note of a page and the score it had, which may   *)
(* come back from the client a last digit higher (1) or lower (-1).         *)
NoCursor == [note |-> 0, score |-> <<0, 1>>, drift |-> 0]

NoAnswer == [items |-> <<>>, next |-> NoCursor, age |-> -1]

Blank(query) == [shown |-> <<>>, next |-> NoCursor, loading |-> FALSE, more |-> FALSE,
                 error |-> FALSE, query |-> query]

(* Of a list, what names these notes.                                       *)
Kept(list, notes) ==
    LET at == {i \in DOMAIN list : list[i] \in notes}
    IN  [n \in 1..Cardinality(at) |->
           list[CHOOSE i \in at : Cardinality({j \in at : j <= i}) = n]]

(* The lists a search over these notes may find.                            *)
ListsOf(notes) == {Kept(list, notes) : list \in Rankings}

Init ==
    /\ created = FirstNotes /\ alive = 1..FirstNotes
    /\ keyword \in ListsOf(alive) /\ semantic \in ListsOf(alive)
    /\ changes = 0
    /\ state = Blank("")
    /\ version = 0 /\ requests = {} /\ pages = {} /\ failures = 0
    /\ asked = ""

-----------------------------------------------------------------------------
(* The server: ranking and pages                                            *)

RrfK == 60

RankIn(list, n) == IF Contains(list, n) THEN CHOOSE i \in DOMAIN list : list[i] = n ELSE 0

(* reciprocal_rank_score as a fraction.                                     *)
Score(n) ==
    LET k == RankIn(keyword, n)
        s == RankIn(semantic, n)
    IN  CASE k = 0 -> <<1, RrfK + s>>
          [] s = 0 -> <<1, RrfK + k>>
          [] OTHER -> <<2 * RrfK + k + s, (RrfK + k) * (RrfK + s)>>

Above(a, b) == a[1] * b[2] > b[1] * a[2]

(* compare_ranked_voice_notes                                               *)
Precedes(m, n) ==
    Above(Score(m), Score(n)) \/ (~Above(Score(n), Score(m)) /\ m > n)

Before(query, m, n) == IF query = "" THEN m > n ELSE Precedes(m, n)

Collection(query) == IF query = "" THEN alive ELSE ToSet(keyword) \cup ToSet(semantic)

(* The notes in the order of the query: the rank of a note counts it and   *)
(* those before it.                                                         *)
Arranged(query, notes) ==
    LET rank == [n \in notes |-> Cardinality({m \in notes : m = n \/ Before(query, m, n)})]
    IN  Inverse(rank, notes, 1..Cardinality(notes))

Ranking(query) == Arranged(query, Collection(query))

(* The score of a cursor is printed as a decimal and read as serde_json     *)
(* reads floats, which is not always the float that was printed.            *)
Drift(n) ==
    CASE <<RankIn(keyword, n), RankIn(semantic, n)>> \in RoundedUp -> 1
      [] <<RankIn(keyword, n), RankIn(semantic, n)>> \in RoundedDown -> -1
      [] OTHER -> 0

CursorAt(query, n) ==
    IF query = "" THEN [NoCursor EXCEPT !.note = n]
                  ELSE [note |-> n, score |-> Score(n), drift |-> Drift(n)]

(* The rows of a page lie past the cursor of the page before.               *)
PastCursorByScore(query, cursor, n) ==                              \* mutant
    \/ cursor = NoCursor
    \/ IF query = "" THEN n < cursor.note ELSE Above(cursor.score, Score(n))

PastCursorInclusive(query, cursor, n) ==                            \* mutant
    \/ cursor = NoCursor
    \/ IF query = "" THEN n <= cursor.note ELSE Above(cursor.score, Score(n))

PastCursor(query, cursor, n) ==
    \/ cursor = NoCursor
    \/ IF query = "" THEN n < cursor.note
       ELSE \/ Above(cursor.score, Score(n))
            \/ /\ ~Above(Score(n), cursor.score)
               /\ cursor.drift = 1 \/ (cursor.drift = 0 /\ n < cursor.note)

(* What a request reads: the notes past its cursor.                         *)
Found(query, cursor) == {n \in Collection(query) : PastCursor(query, cursor, n)}

(* One row more than the page is read to learn whether there is a next one. *)
Page(query, rows) ==
    LET more == Len(rows) > PageSize
        items == IF more THEN SubSeq(rows, 1, PageSize) ELSE rows
    IN  [items |-> items, age |-> changes,
         next |-> IF more THEN CursorAt(query, Last(items)) ELSE NoCursor]

-----------------------------------------------------------------------------
(* The collection changes                                                   *)

Change(count, notes) ==
    /\ changes < MaxChanges /\ changes' = changes + 1
    /\ created' = count /\ alive' = notes
    /\ keyword' \in ListsOf(notes) /\ semantic' \in ListsOf(notes)
    /\ UNCHANGED <<state, version, requests, pages, asked, failures>>

(* The worker completes one job after the other and dates the note last.    *)
NoteArrives ==
    /\ created < MaxNotes
    /\ Change(created + 1, alive \cup {created + 1})

NoteDeleted == \E n \in alive : Change(created, alive \ {n})

(* An edit or a new embedding moves a note, and others, in the rankings.    *)
NoteEdited == Change(created, alive)

-----------------------------------------------------------------------------
(* The notifier                                                             *)

(* A request: what it remembers while it waits.                             *)
AskPostIncrement(kind, query, cursor, count) ==                     \* mutant
    /\ version < MaxRequests
    /\ version' = version + 1
    /\ requests' = requests \cup
          {[kind |-> kind, version |-> version, query |-> query, cursor |-> cursor,
            count |-> count, answer |-> NoAnswer]}

Ask(kind, query, cursor, count) ==
    /\ version < MaxRequests
    /\ version' = version + 1
    /\ requests' = requests \cup
          {[kind |-> kind, version |-> version + 1, query |-> query, cursor |-> cursor,
            count |-> count, answer |-> NoAnswer]}

(* loadInitial past its guard, on the state it finds.                       *)
LoadOn(found) ==
    /\ state' = [found EXCEPT !.loading = TRUE, !.error = FALSE]
    /\ Ask("initial", found.query, NoCursor, 0)
    /\ UNCHANGED <<server, failures>>

(* The screen is opened, or its Retry button pressed.                       *)
LoadInitial ==
    /\ ~state.loading
    /\ LoadOn(state)
    /\ UNCHANGED <<pages, asked>>

Refresh ==
    /\ LoadOn(Blank(state.query))
    /\ pages' = {}
    /\ UNCHANGED asked

(* The text was typed 300 ms ago, or cleared.                               *)
Search(query) ==
    /\ query # state.query \/ state.loading
    /\ LoadOn(Blank(query))
    /\ pages' = {}
    /\ asked' = query

LoadMore ==
    /\ ~state.loading /\ ~state.more /\ state.next # NoCursor
    /\ state' = [state EXCEPT !.more = TRUE, !.error = FALSE]
    /\ Ask("more", state.query, state.next, Len(state.shown))
    /\ UNCHANGED <<server, pages, asked, failures>>

(* The server reads its database, sorts what it found and renders a page.   *)
ServerAnswers(r) ==
    /\ r \in requests /\ r.answer = NoAnswer
    /\ \E found \in {Found(r.query, r.cursor)} : \E rows \in {Arranged(r.query, found)} :
         requests' = (requests \ {r}) \cup {[r EXCEPT !.answer = Page(r.query, rows)]}
    /\ UNCHANGED <<server, state, version, pages, asked, failures>>

(* _isCurrentRequest                                                        *)
IsAnyRequest(r) == r \in requests                                   \* mutant

IsCurrentRequest(r) == r.version = version /\ state.query = r.query

Answered(r) == r \in requests /\ r.answer # NoAnswer

InitialArrives(r) ==
    /\ Answered(r) /\ r.kind = "initial"
    /\ requests' = requests \ {r}
    /\ IF IsCurrentRequest(r)
       THEN /\ state' = [Blank(r.query) EXCEPT !.shown = r.answer.items, !.next = r.answer.next]
            /\ pages' = {[query |-> r.query, age |-> r.answer.age]}
       ELSE UNCHANGED <<state, pages>>
    /\ UNCHANGED <<server, version, asked, failures>>

(* The list must also be the one the request was made for.                  *)
MoreArrives(r) ==
    /\ Answered(r) /\ r.kind = "more"
    /\ requests' = requests \ {r}
    /\ IF IsCurrentRequest(r) /\ state.next = r.cursor /\ Len(state.shown) = r.count
       THEN /\ state' = [state EXCEPT !.shown = @ \o r.answer.items, !.next = r.answer.next,
                                      !.more = FALSE, !.error = FALSE]
            /\ pages' = pages \cup {[query |-> r.query, age |-> r.answer.age]}
       ELSE UNCHANGED <<state, pages>>
    /\ UNCHANGED <<server, version, asked, failures>>

(* No connection, a timeout or an error status, seen or not by the server.  *)
RequestFailsQuietly(r) ==                                           \* mutant
    /\ r \in requests /\ failures < MaxFailures
    /\ failures' = failures + 1
    /\ requests' = requests \ {r}
    /\ UNCHANGED <<server, state, version, pages, asked>>

RequestFails(r) ==
    /\ r \in requests /\ failures < MaxFailures
    /\ failures' = failures + 1
    /\ requests' = requests \ {r}
    /\ state' = IF ~IsCurrentRequest(r) THEN state
                ELSE IF r.kind = "initial"
                THEN [state EXCEPT !.loading = FALSE, !.error = TRUE]
                ELSE [state EXCEPT !.more = FALSE, !.error = TRUE]
    /\ UNCHANGED <<server, version, pages, asked>>

Arrives(r) == InitialArrives(r) \/ MoreArrives(r)

Next ==
    \/ NoteArrives \/ NoteDeleted \/ NoteEdited
    \/ LoadInitial \/ Refresh \/ LoadMore
    \/ \E query \in Queries : Search(query)
    \/ \E r \in requests : ServerAnswers(r) \/ Arrives(r) \/ RequestFails(r)

Spec == Init /\ [][Next]_vars

(* A request comes to an end: dio gives up on one that is not answered.     *)
Fairness == WF_vars(\E r \in requests : ServerAnswers(r) \/ Arrives(r))

FairSpec == Spec /\ Fairness

-----------------------------------------------------------------------------
(* Properties                                                               *)

Cursors == [note : 0..MaxNotes, score : Nat \X Nat, drift : -1..1]

(* The variables hold what the code can write to them.                      *)
TypeOK ==
    /\ created \in 0..MaxNotes /\ alive \subseteq 1..created
    /\ ToSet(keyword) \subseteq alive /\ ToSet(semantic) \subseteq alive
    /\ changes \in 0..MaxChanges /\ version \in 0..MaxRequests /\ failures \in 0..MaxFailures
    /\ ToSet(state.shown) \subseteq Notes /\ state.query \in Queries
    /\ state.next \in Cursors
    /\ {state.loading, state.more, state.error} \subseteq BOOLEAN
    /\ \A r \in requests : r.kind \in {"initial", "more"} /\ r.version \in 1..version

(* Browsing: the list shows every note there is between its first note and *)
(* the one its cursor names, newest first, whatever came, went and was     *)
(* asked for meanwhile, and with no cursor left all notes older than its   *)
(* first.                                                                  *)
BrowseHasNoGaps ==
    state.query = "" /\ state.shown # <<>> =>
        /\ \A i, j \in DOMAIN state.shown : i < j => state.shown[i] > state.shown[j]
        /\ \A n \in alive : n <= state.shown[1] /\ n >= state.next.note =>
              Contains(state.shown, n)

(* Searching: while the collection stays as it is, the pages shown are the *)
(* fused ranking from its top, without a note left out or shown twice.     *)
PagesFollowRanking ==
    (\A p \in pages : p.age = changes) /\ pages # {} =>
        /\ IsPrefix(state.shown, Ranking(state.query))
        /\ state.next = NoCursor => Len(state.shown) = Cardinality(Collection(state.query))

(* What is shown answers the query last asked for, also when answers       *)
(* overtake one another or fail.                                           *)
ShownAnswersQuery == state.query = asked /\ \A p \in pages : p.query = asked

(* The spinner in place of the list goes away, with a list or an error.     *)
LoadingEnds == state.loading ~> ~state.loading

(* With no request in flight the spinner at the end of the list is hidden.  *)
SpinnerMeansLoading == state.more => requests # {}

=============================================================================
