------------------------- MODULE HistoryPaging_proofs -------------------------
(***************************************************************************)
(* Proofs about HistoryPaging, for any number of notes, changes, requests  *)
(* and failures, any size of a page and any rankings: the list answers the *)
(* query last asked for, browsing leaves out no note, and searching follows*)
(* the fused ranking as long as cursors come back as they were.            *)
(***************************************************************************)
EXTENDS HistoryPaging, FiniteSetTheorems, TLAPS

Fields == {"shown", "next", "loading", "more", "error", "query"}

(* The state is a record; what it shows answers the query last asked for.  *)
Inv == DOMAIN state = Fields /\ ShownAnswersQuery

(* A blank state has a query and nothing else.                              *)
LEMMA Blanks == ASSUME NEW query
                PROVE  DOMAIN Blank(query) = Fields /\ Blank(query).query = query
  BY DEF Blank, Fields

LEMMA InitInv == Init => Inv
  BY Blanks DEF Init, Inv, ShownAnswersQuery

(* A load keeps the query of the state it starts from.                      *)
LEMMA Loads ==
  ASSUME NEW found, DOMAIN found = Fields, LoadOn(found)
  PROVE  DOMAIN state' = Fields /\ state'.query = found.query
  BY DEF LoadOn, Fields

LEMMA NextInv == Inv /\ [Next]_vars => Inv'
<1>. SUFFICES ASSUME Inv, [Next]_vars PROVE Inv'
  OBVIOUS
<1>. USE DEF Inv, ShownAnswersQuery
<1>1. CASE NoteArrives \/ NoteDeleted \/ NoteEdited
  BY <1>1 DEF NoteArrives, NoteDeleted, NoteEdited, Change
<1>2. CASE LoadInitial
  BY <1>2, Loads DEF LoadInitial
<1>3. CASE Refresh
  BY <1>3, Loads, Blanks DEF Refresh
<1>4. CASE LoadMore
  BY <1>4 DEF LoadMore, Fields
<1>5. ASSUME NEW query \in Queries, Search(query) PROVE Inv'
  BY <1>5, Loads, Blanks DEF Search
<1>6. ASSUME NEW r \in requests, ServerAnswers(r) PROVE Inv'
  BY <1>6 DEF ServerAnswers
<1>7. ASSUME NEW r \in requests, InitialArrives(r) PROVE Inv'
  <2>1. CASE IsCurrentRequest(r)
    <3>1. DOMAIN state' = Fields /\ state'.query = r.query
      BY <1>7, <2>1, Blanks DEF InitialArrives, Fields
    <3>. QED
      BY <1>7, <2>1, <3>1 DEF InitialArrives, IsCurrentRequest
  <2>2. CASE ~IsCurrentRequest(r)
    BY <1>7, <2>2 DEF InitialArrives
  <2>. QED
    BY <2>1, <2>2
<1>8. ASSUME NEW r \in requests, MoreArrives(r) PROVE Inv'
  <2> DEFINE fits == IsCurrentRequest(r) /\ state.next = r.cursor /\ Len(state.shown) = r.count
  <2>1. CASE fits
    <3>1. DOMAIN state' = Fields /\ state'.query = state.query
      BY <1>8, <2>1 DEF MoreArrives, Fields
    <3>. QED
      BY <1>8, <2>1, <3>1 DEF MoreArrives, IsCurrentRequest
  <2>2. CASE ~fits
    BY <1>8, <2>2 DEF MoreArrives
  <2>. QED
    BY <2>1, <2>2
<1>9. ASSUME NEW r \in requests, RequestFails(r) PROVE Inv'
  BY <1>9 DEF RequestFails, Fields
<1>10. CASE UNCHANGED vars
  BY <1>10 DEF vars
<1>. QED
  BY <1>1, <1>2, <1>3, <1>4, <1>5, <1>6, <1>7, <1>8, <1>9, <1>10 DEF Next, Arrives

(* What the list shows answers the query last asked for, in whatever order *)
(* answers and failures arrive: what _isCurrentRequest is for.             *)
THEOREM ListAnswersQuery == Spec => []ShownAnswersQuery
<1>1. Inv => ShownAnswersQuery
  BY DEF Inv
<1>. QED
  BY <1>1, InitInv, NextInv, PTL DEF Spec

-----------------------------------------------------------------------------
(* Arranging notes                                                          *)

(* A strict order of a finite set, and how many of its members come up to   *)
(* each, itself included.                                                   *)
Numbers(S, lt, upTo, rank) ==
  /\ IsFiniteSet(S)
  /\ \A a, b \in S : a # b => <<a, b>> \in lt \/ <<b, a>> \in lt
  /\ \A a \in S : <<a, a>> \notin lt
  /\ \A a, b, c \in S : <<a, b>> \in lt /\ <<b, c>> \in lt => <<a, c>> \in lt
  /\ upTo \in [S -> SUBSET S]
  /\ \A m, n \in S : m \in upTo[n] <=> m = n \/ <<m, n>> \in lt
  /\ rank \in [S -> Nat] /\ \A n \in S : rank[n] = Cardinality(upTo[n])

(* These numbers are all from 1 to the size of the set, in its order.       *)
LEMMA Ranks ==
  ASSUME NEW S, NEW lt, NEW upTo, NEW rank, Numbers(S, lt, upTo, rank)
  PROVE  /\ Cardinality(S) \in Nat
         /\ rank \in [S -> 1..Cardinality(S)]
         /\ \A t \in 1..Cardinality(S) : \E a \in S : rank[a] = t
         /\ \A a, b \in S : <<a, b>> \in lt <=> rank[a] < rank[b]
<1>. USE DEF Numbers
<1>0. Cardinality(S) \in Nat
  BY FS_CardinalityType
<1>1. \A n \in S : /\ IsFiniteSet(upTo[n]) /\ Cardinality(upTo[n]) \in Nat
                   /\ Cardinality(upTo[n]) <= Cardinality(S)
                   /\ Cardinality(upTo[n]) # 0
  <2>. SUFFICES ASSUME NEW n \in S
                PROVE  /\ IsFiniteSet(upTo[n]) /\ Cardinality(upTo[n]) \in Nat
                       /\ Cardinality(upTo[n]) <= Cardinality(S)
                       /\ Cardinality(upTo[n]) # 0
    OBVIOUS
  <2>1. upTo[n] \subseteq S /\ n \in upTo[n]
    OBVIOUS
  <2>2. IsFiniteSet(upTo[n]) /\ Cardinality(upTo[n]) <= Cardinality(S)
    BY <2>1, FS_Subset
  <2>3. Cardinality(upTo[n]) \in Nat /\ (Cardinality(upTo[n]) = 0 <=> upTo[n] = {})
    BY <2>2, FS_CardinalityType, FS_EmptySet
  <2>. QED
    BY <2>1, <2>2, <2>3
<1>2. \A n \in S : rank[n] = Cardinality(upTo[n])
  OBVIOUS
<1>3. rank \in [S -> 1..Cardinality(S)]
  BY <1>0, <1>1
<1>4. ASSUME NEW a \in S, NEW b \in S, <<a, b>> \in lt PROVE rank[a] < rank[b]
  <2>1. upTo[a] \subseteq upTo[b]
    BY <1>4
  <2>2. b \in upTo[b] /\ b \notin upTo[a]
    BY <1>4
  <2>3. Cardinality(upTo[a]) <= Cardinality(upTo[b])
    BY <1>1, <2>1, FS_Subset
  <2>4. Cardinality(upTo[a]) # Cardinality(upTo[b])
    BY <1>1, <2>1, <2>2, FS_Subset
  <2>5. Cardinality(upTo[a]) < Cardinality(upTo[b])
    BY <1>1, <2>3, <2>4
  <2>. QED
    BY <1>2, <2>5
<1>5. ASSUME NEW a \in S, NEW b \in S, rank[a] < rank[b] PROVE <<a, b>> \in lt
  <2>1. rank[a] \in Nat /\ rank[b] \in Nat
    BY <1>3
  <2>2. a # b
    BY <1>5, <2>1
  <2>3. <<b, a>> \notin lt
    <3>1. CASE <<b, a>> \in lt
      <4>1. rank[b] < rank[a]
        BY <1>4, <3>1
      <4>. QED
        BY <1>5, <2>1, <4>1
    <3>. QED
      BY <3>1
  <2>. QED
    BY <2>2, <2>3
<1>6. \A a, b \in S : rank[a] = rank[b] => a = b
  <2>. SUFFICES ASSUME NEW a \in S, NEW b \in S, rank[a] = rank[b], a # b PROVE FALSE
    OBVIOUS
  <2>1. rank[a] < rank[b] \/ rank[b] < rank[a]
    BY <1>4
  <2>2. rank[a] \in Nat
    BY <1>3
  <2>. QED
    BY <2>1, <2>2
<1>7. rank \in Injection(S, 1..Cardinality(S))
  BY <1>3, <1>6 DEF Injection, IsInjective
<1>8. IsFiniteSet(1..Cardinality(S)) /\ Cardinality(1..Cardinality(S)) = Cardinality(S)
  BY <1>0, FS_Interval
<1>9. rank \in Surjection(S, 1..Cardinality(S))
  BY <1>7, <1>8, FS_Injection
<1>10. \A t \in 1..Cardinality(S) : \E a \in S : rank[a] = t
  BY <1>9 DEF Surjection
<1>. QED
  BY <1>0, <1>3, <1>4, <1>5, <1>10

(* The order of a query on a set of notes, as a set of pairs.               *)
Order(query, notes) == {p \in notes \X notes : Before(query, p[1], p[2])}

(* The order is one: no two notes of a place, and none before itself.       *)
Ordered(query, notes) ==
  /\ \A a, b \in notes : a # b => Before(query, a, b) \/ Before(query, b, a)
  /\ \A a \in notes : ~Before(query, a, a)
  /\ \A a, b, c \in notes : Before(query, a, b) /\ Before(query, b, c) => Before(query, a, c)

(* Notes that are ordered are arranged each once, in their order.           *)
LEMMA Arrangement ==
  ASSUME NEW query, NEW notes, IsFiniteSet(notes), Ordered(query, notes)
  PROVE  /\ Cardinality(notes) \in Nat
         /\ Arranged(query, notes) \in [1..Cardinality(notes) -> notes]
         /\ \A n \in notes : \E i \in 1..Cardinality(notes) : Arranged(query, notes)[i] = n
         /\ \A i, j \in 1..Cardinality(notes) :
              i < j <=> Before(query, Arranged(query, notes)[i], Arranged(query, notes)[j])
         /\ \A i \in 1..Cardinality(notes) :
              Cardinality({m \in notes : \/ m = Arranged(query, notes)[i]
                                         \/ Before(query, m, Arranged(query, notes)[i])}) = i
<1> DEFINE N == 1..Cardinality(notes)
<1>1. PICK rank : rank = [n \in notes |-> Cardinality({m \in notes : m = n \/ Before(query, m, n)})]
  OBVIOUS
<1>2. PICK lt : lt = Order(query, notes)
  OBVIOUS
<1>3. PICK upTo : upTo = [n \in notes |-> {m \in notes : m = n \/ Before(query, m, n)}]
  OBVIOUS
<1> DEFINE A == Inverse(rank, notes, N)
<1>4. Arranged(query, notes) = A
  BY <1>1 DEF Arranged
<1>5. \A a, b \in notes : <<a, b>> \in lt <=> Before(query, a, b)
  BY <1>2 DEF Order
<1>6. /\ upTo \in [notes -> SUBSET notes]
      /\ \A m, n \in notes : m \in upTo[n] <=> m = n \/ <<m, n>> \in lt
      /\ rank = [n \in notes |-> Cardinality(upTo[n])]
  BY <1>1, <1>3, <1>5
<1>7. /\ \A a, b \in notes : a # b => <<a, b>> \in lt \/ <<b, a>> \in lt
      /\ \A a \in notes : <<a, a>> \notin lt
      /\ \A a, b, c \in notes : <<a, b>> \in lt /\ <<b, c>> \in lt => <<a, c>> \in lt
  BY <1>5 DEF Ordered
<1>8. \A n \in notes : rank[n] = Cardinality({m \in notes : m = n \/ Before(query, m, n)})
  BY <1>1
<1>9. rank \in [notes -> Nat]
  <2>1. \A n \in notes : IsFiniteSet(upTo[n])
    BY <1>6, FS_Subset
  <2>. QED
    BY <1>6, <2>1, FS_CardinalityType
<1>10. \A n \in notes : rank[n] = Cardinality(upTo[n])
  BY <1>6
<1>11. /\ Cardinality(notes) \in Nat
       /\ rank \in [notes -> N]
       /\ \A t \in N : \E a \in notes : rank[a] = t
       /\ \A a, b \in notes : <<a, b>> \in lt <=> rank[a] < rank[b]
  <2>1. Numbers(notes, lt, upTo, rank)
    BY <1>6, <1>7, <1>9, <1>10 DEF Numbers
  <2>. QED
    BY <2>1, Ranks
<1>12. \A t \in N : t \in Range(rank)
  BY <1>11 DEF Range
<1>13. \A t \in N : A[t] \in notes /\ rank[A[t]] = t
  BY <1>11, <1>12 DEF Inverse
<1>14. A \in [N -> notes]
  BY <1>13 DEF Inverse
<1>. HIDE DEF A
<1>15. \A n \in notes : \E i \in N : A[i] = n
  <2>. SUFFICES ASSUME NEW n \in notes PROVE A[rank[n]] = n /\ rank[n] \in N
    OBVIOUS
  <2>1. rank[n] \in N
    BY <1>11
  <2>2. A[rank[n]] \in notes /\ rank[A[rank[n]]] = rank[n]
    BY <1>13, <2>1
  <2>3. \A i \in N : ~(i < i)
    BY <1>11
  <2>4. ~(rank[A[rank[n]]] < rank[n]) /\ ~(rank[n] < rank[A[rank[n]]])
    BY <2>1, <2>2, <2>3
  <2>. QED
    BY <1>7, <1>11, <2>1, <2>2, <2>4
<1>16. ASSUME NEW i \in N, NEW j \in N PROVE i < j <=> Before(query, A[i], A[j])
  <2>1. A[i] \in notes /\ A[j] \in notes /\ rank[A[i]] = i /\ rank[A[j]] = j
    BY <1>13
  <2>2. <<A[i], A[j]>> \in lt <=> i < j
    BY <1>11, <2>1
  <2>. QED
    BY <1>5, <2>1, <2>2
<1>17. \A i \in N : Cardinality({m \in notes : m = A[i] \/ Before(query, m, A[i])}) = i
  BY <1>8, <1>13
<1>. QED
  BY <1>4, <1>11, <1>14, <1>15, <1>16, <1>17

(* What is kept of a list of notes is a list of these notes.                *)
LEMMA KeptNotes ==
  ASSUME NEW list \in Seq(Notes), NEW notes
  PROVE  Kept(list, notes) \in Seq(notes)
<1> DEFINE at   == {i \in DOMAIN list : list[i] \in notes}
           lt   == {p \in at \X at : p[1] < p[2]}
           upTo == [i \in at |-> {j \in at : j <= i}]
           rank == [i \in at |-> Cardinality(upTo[i])]
<1>1. at \subseteq 1..Len(list) /\ Len(list) \in Nat
  OBVIOUS
<1>2. IsFiniteSet(at)
  <2>1. IsFiniteSet(1..Len(list))
    BY <1>1, FS_Interval
  <2>. QED
    BY <1>1, <2>1, FS_Subset
<1>3. \A i \in at : i \in Int
  BY <1>1
<1>4. Cardinality(at) \in Nat
  BY <1>2, FS_CardinalityType
<1>5. \A i \in at : upTo[i] \subseteq at /\ Cardinality(upTo[i]) \in Nat
  <2>1. \A i \in at : IsFiniteSet(upTo[i])
    BY <1>2, FS_Subset
  <2>. QED
    BY <2>1, FS_CardinalityType
<1>6. \A i, j \in at : <<i, j>> \in lt <=> i < j
  OBVIOUS
<1>7. Numbers(at, lt, upTo, rank)
  <2>1. \A i, j \in at : j \in upTo[i] <=> j = i \/ <<j, i>> \in lt
    BY <1>3, <1>6
  <2>2. upTo \in [at -> SUBSET at]
    BY <1>5
  <2>3. rank \in [at -> Nat] /\ \A i \in at : rank[i] = Cardinality(upTo[i])
    BY <1>5
  <2>. HIDE DEF at, lt, upTo, rank
  <2>. QED
    BY <1>2, <1>3, <1>6, <2>1, <2>2, <2>3 DEF Numbers
<1>8. \A n \in 1..Cardinality(at) : \E i \in at : Cardinality({j \in at : j <= i}) = n
  <2>1. \A n \in 1..Cardinality(at) : \E i \in at : rank[i] = n
    <3>. HIDE DEF at, lt, upTo, rank
    <3>. QED
      BY <1>7, Ranks
  <2>. QED
    BY <2>1
<1>9. \A n \in 1..Cardinality(at) :
        list[CHOOSE i \in at : Cardinality({j \in at : j <= i}) = n] \in notes
  <2>. SUFFICES ASSUME NEW n \in 1..Cardinality(at)
                PROVE  list[CHOOSE i \in at : Cardinality({j \in at : j <= i}) = n] \in notes
    OBVIOUS
  <2>1. (CHOOSE i \in at : Cardinality({j \in at : j <= i}) = n) \in at
    <3>. HIDE DEF at
    <3>. QED
      BY <1>8
  <2>2. \A i \in at : list[i] \in notes
    OBVIOUS
  <2>. HIDE DEF at
  <2>. QED
    BY <2>1, <2>2
<1>10. Kept(list, notes) \in [1..Cardinality(at) -> notes]
  <2>1. Kept(list, notes) = [n \in 1..Cardinality(at) |->
                              list[CHOOSE i \in at : Cardinality({j \in at : j <= i}) = n]]
    BY DEF Kept
  <2>. QED
    BY <1>9, <2>1
<1>. HIDE DEF at
<1>. QED
  BY <1>4, <1>10

(* What a search finds lies among the notes there are.                      *)
LEMMA ListedNotes ==
  ASSUME NEW notes, NEW list \in ListsOf(notes)
  PROVE  list \in Seq(notes)
<1>1. PICK all \in Rankings : list = Kept(all, notes)
  BY DEF ListsOf
<1>2. all \in Seq(Notes)
  BY RankingsAssumption DEF Notes
<1>. QED
  BY <1>1, <1>2, KeptNotes

(* A note in a list has its place there, a note outside of it none.         *)
LEMMA RankOf ==
  ASSUME NEW S, NEW list \in Seq(S), NEW n
  PROVE  /\ RankIn(list, n) \in 0..Len(list)
         /\ RankIn(list, n) # 0 => list[RankIn(list, n)] = n
         /\ n \in ToSet(list) => RankIn(list, n) # 0
<1>1. n \in ToSet(list) <=> Contains(list, n)
  BY DEF ToSet, Contains
<1>2. CASE Contains(list, n)
  <2>1. \E i \in DOMAIN list : list[i] = n
    BY <1>2 DEF Contains
  <2>2. RankIn(list, n) \in DOMAIN list /\ list[RankIn(list, n)] = n
    BY <1>2, <2>1 DEF RankIn
  <2>. QED
    BY <2>2
<1>3. CASE ~Contains(list, n)
  <2>1. RankIn(list, n) = 0
    BY <1>3 DEF RankIn
  <2>. QED
    BY <1>1, <1>3, <2>1
<1>. QED
  BY <1>2, <1>3

(* Multiplying keeps an order of numbers, and so does dividing.             *)
LEMMA Monotone ==
  ASSUME NEW p \in Nat, NEW q \in Nat, NEW k \in Nat, p <= q
  PROVE  p * k <= q * k
<1>1. PICK d \in Nat : q = p + d
  OBVIOUS
<1>2. q * k = p * k + d * k
  BY <1>1
<1>3. d * k \in Nat /\ p * k \in Nat
  OBVIOUS
<1>. QED
  BY <1>2, <1>3

LEMMA Cancel ==
  ASSUME NEW p \in Nat, NEW q \in Nat, NEW k \in Nat \ {0}, p * k <= q * k
  PROVE  p <= q
<1>. SUFFICES ASSUME q < p PROVE FALSE
  OBVIOUS
<1>1. (q + 1) * k <= p * k
  BY Monotone
<1>2. (q + 1) * k = q * k + k
  OBVIOUS
<1>3. p * k \in Nat /\ q * k \in Nat
  OBVIOUS
<1>. QED
  BY <1>1, <1>2, <1>3

Fraction == (Nat \ {0}) \X (Nat \ {0})

(* A fraction that is not above another is not above what is no lower.      *)
LEMMA NotAbove ==
  ASSUME NEW a \in Fraction, NEW b \in Fraction, NEW c \in Fraction,
         ~Above(a, b), ~Above(b, c)
  PROVE  ~Above(a, c)
<1>1. PICK a1 \in Nat \ {0}, a2 \in Nat \ {0} : a = <<a1, a2>>
  BY DEF Fraction
<1>2. PICK b1 \in Nat \ {0}, b2 \in Nat \ {0} : b = <<b1, b2>>
  BY DEF Fraction
<1>3. PICK c1 \in Nat \ {0}, c2 \in Nat \ {0} : c = <<c1, c2>>
  BY DEF Fraction
<1>4. a1 * b2 <= b1 * a2 /\ b1 * c2 <= c1 * b2
  <2>1. ~(a1 * b2 > b1 * a2) /\ ~(b1 * c2 > c1 * b2)
    BY <1>1, <1>2, <1>3 DEF Above
  <2>2. a1 * b2 \in Nat /\ b1 * a2 \in Nat /\ b1 * c2 \in Nat /\ c1 * b2 \in Nat
    OBVIOUS
  <2>. QED
    BY <2>1, <2>2
<1>5. (a1 * b2) * c2 <= (b1 * a2) * c2
  <2>1. a1 * b2 \in Nat /\ b1 * a2 \in Nat
    OBVIOUS
  <2>. QED
    BY <1>4, <2>1, Monotone
<1>6. (b1 * c2) * a2 <= (c1 * b2) * a2
  <2>1. b1 * c2 \in Nat /\ c1 * b2 \in Nat
    OBVIOUS
  <2>. QED
    BY <1>4, <2>1, Monotone
<1>7. (a1 * b2) * c2 = (a1 * c2) * b2 /\ (c1 * b2) * a2 = (c1 * a2) * b2
  OBVIOUS
<1>8. (b1 * a2) * c2 = (b1 * c2) * a2
  OBVIOUS
<1>9. (a1 * c2) * b2 <= (c1 * a2) * b2
  <2>1. (a1 * c2) * b2 <= (b1 * c2) * a2 /\ (b1 * c2) * a2 <= (c1 * a2) * b2
    BY <1>5, <1>6, <1>7, <1>8
  <2>2. (a1 * c2) * b2 \in Nat /\ (b1 * c2) * a2 \in Nat /\ (c1 * a2) * b2 \in Nat
    OBVIOUS
  <2>. QED
    BY <2>1, <2>2
<1>10. a1 * c2 <= c1 * a2 /\ a1 * c2 \in Nat /\ c1 * a2 \in Nat
  <2>1. a1 * c2 \in Nat /\ c1 * a2 \in Nat
    OBVIOUS
  <2>. QED
    BY <1>9, <2>1, Cancel
<1>11. ~(a1 * c2 > c1 * a2)
  BY <1>10
<1>. QED
  BY <1>1, <1>3, <1>11 DEF Above

(* Of two fractions at most one is above the other.                         *)
LEMMA AboveOneWay ==
  ASSUME NEW a \in Fraction, NEW b \in Fraction
  PROVE  ~(Above(a, b) /\ Above(b, a))
<1>1. PICK a1 \in Nat \ {0}, a2 \in Nat \ {0} : a = <<a1, a2>>
  BY DEF Fraction
<1>2. PICK b1 \in Nat \ {0}, b2 \in Nat \ {0} : b = <<b1, b2>>
  BY DEF Fraction
<1>3. a1 * b2 \in Nat /\ b1 * a2 \in Nat
  OBVIOUS
<1>4. ~(a1 * b2 > b1 * a2 /\ b1 * a2 > a1 * b2)
  BY <1>3
<1>. QED
  BY <1>1, <1>2, <1>4 DEF Above

Searched == keyword \in Seq(Notes) /\ semantic \in Seq(Notes)

(* A score is a fraction.                                                   *)
LEMMA Scores ==
  ASSUME Searched, NEW n
  PROVE  Score(n) \in Fraction
<1>1. RankIn(keyword, n) \in Nat /\ RankIn(semantic, n) \in Nat
  BY RankOf DEF Searched
<1>2. PICK k \in Nat, s \in Nat : k = RankIn(keyword, n) /\ s = RankIn(semantic, n)
  BY <1>1
<1>3. /\ k = 0 => Score(n) = <<1, 60 + s>>
      /\ k # 0 /\ s = 0 => Score(n) = <<1, 60 + k>>
      /\ k # 0 /\ s # 0 => Score(n) = <<2 * 60 + k + s, (60 + k) * (60 + s)>>
  BY <1>2 DEF Score, RrfK
<1>4. (60 + k) * (60 + s) \in Nat \ {0}
  <2>1. (60 + k) * (60 + s) = 3600 + 60 * s + 60 * k + k * s
    OBVIOUS
  <2>2. k * s \in Nat
    OBVIOUS
  <2>. QED
    BY <2>1, <2>2
<1>. QED
  BY <1>3, <1>4 DEF Fraction

(* Fused ranks and ages order the notes: none comes before itself, of two   *)
(* one does, and what comes before a note comes before all that follow it.  *)
LEMMA OrderIsTotal ==
  ASSUME Searched, NEW notes \in SUBSET Int, NEW query
  PROVE  Ordered(query, notes)
<1>1. CASE query = ""
  <2>1. \A a, b \in notes : Before(query, a, b) <=> a > b
    BY <1>1 DEF Before
  <2>. QED
    BY <2>1 DEF Ordered
<1>2. CASE query # ""
  <2>0. \A a, b \in notes : Before(query, a, b) <=> Precedes(a, b)
    BY <1>2 DEF Before
  <2>1. \A a \in notes : ~Precedes(a, a)
    <3>. SUFFICES ASSUME NEW a \in notes PROVE ~Precedes(a, a)
      OBVIOUS
    <3>1. ~Above(Score(a), Score(a))
      BY Scores, AboveOneWay
    <3>2. ~(a > a)
      OBVIOUS
    <3>. QED
      BY <3>1, <3>2 DEF Precedes
  <2>2. ASSUME NEW a \in notes, NEW b \in notes, a # b
        PROVE  Precedes(a, b) \/ Precedes(b, a)
    <3>1. a > b \/ b > a
      BY <2>2
    <3>. QED
      BY <3>1 DEF Precedes
  <2>3. ASSUME NEW a \in notes, NEW b \in notes, NEW c \in notes, Precedes(a, b), Precedes(b, c)
        PROVE  Precedes(a, c)
    <3>1. PICK f \in Fraction, g \in Fraction, h \in Fraction :
            f = Score(a) /\ g = Score(b) /\ h = Score(c)
      BY Scores
    <3>2. /\ Above(f, g) \/ (~Above(g, f) /\ a > b)
          /\ Above(g, h) \/ (~Above(h, g) /\ b > c)
      BY <2>3, <3>1 DEF Precedes
    <3>3. ~Above(g, f) /\ ~Above(h, g)
      BY <3>2, AboveOneWay
    <3>4. ~Above(h, f)
      BY <3>3, NotAbove
    <3>5. CASE Above(f, g) \/ Above(g, h)
      <4>1. Above(f, h)
        <5>. SUFFICES ASSUME ~Above(f, h) PROVE FALSE
          OBVIOUS
        <5>1. ~Above(f, g)
          BY <3>3, NotAbove
        <5>2. ~Above(g, h)
          BY <3>3, NotAbove
        <5>. QED
          BY <3>5, <5>1, <5>2
      <4>. QED
        BY <3>1, <4>1 DEF Precedes
    <3>6. CASE a > b /\ b > c
      <4>1. a > c
        BY <3>6
      <4>. QED
        BY <3>1, <3>4, <4>1 DEF Precedes
    <3>. QED
      BY <3>2, <3>5, <3>6
  <2>. QED
    BY <2>0, <2>1, <2>2, <2>3 DEF Ordered
<1>. QED
  BY <1>1, <1>2

-----------------------------------------------------------------------------
(* Types                                                                    *)

States   == [shown : Seq(Notes), next : Cursors, loading : BOOLEAN, more : BOOLEAN,
             error : BOOLEAN, query : Queries]
Answers  == [items : Seq(Notes), next : Cursors, age : Int]
Requests == [kind : {"initial", "more"}, version : Nat, query : Queries, cursor : Cursors,
             count : Nat, answer : Answers]

(* TypeOK with what it leaves open: lists are sequences, records have their *)
(* fields, and requests were numbered by then.                              *)
ServerTyped ==
  /\ created \in 0..MaxNotes /\ alive \subseteq 1..created
  /\ keyword \in Seq(alive) /\ semantic \in Seq(alive)
  /\ changes \in 0..MaxChanges

ClientTyped ==
  /\ version \in 0..MaxRequests /\ failures \in 0..MaxFailures
  /\ state \in States
  /\ requests \subseteq Requests
  /\ \A r \in requests : r.version \in 1..version

Typed == ServerTyped /\ ClientTyped

LEMMA TypedIsOK == Typed => TypeOK
<1>. SUFFICES ASSUME Typed PROVE TypeOK
  OBVIOUS
<1>1. ToSet(keyword) \subseteq alive /\ ToSet(semantic) \subseteq alive
  BY DEF Typed, ServerTyped, ToSet
<1>2. ToSet(state.shown) \subseteq Notes
  BY DEF Typed, ClientTyped, States, ToSet
<1>3. \A r \in requests : r.kind \in {"initial", "more"} /\ r.version \in 1..version
  BY DEF Typed, ClientTyped, Requests
<1>. QED
  BY <1>1, <1>2, <1>3 DEF TypeOK, Typed, ServerTyped, ClientTyped, States

(* No cursor, no answer and a blank state are of their types.               *)
LEMMA Empty == /\ NoCursor \in Cursors
               /\ NoAnswer \in Answers
               /\ \A query \in Queries : Blank(query) \in States
<1>1. NoCursor \in Cursors
  BY NotesAssumption DEF NoCursor, Cursors
<1>2. << >> \in Seq(Notes)
  OBVIOUS
<1>3. NoAnswer \in Answers
  BY <1>1, <1>2 DEF NoAnswer, Answers
<1>4. ASSUME NEW query \in Queries PROVE Blank(query) \in States
  BY <1>1, <1>2 DEF Blank, States
<1>. QED
  BY <1>1, <1>3, <1>4

(* The collection is a finite set of notes, and its rankings are lists.     *)
LEMMA Collected ==
  ASSUME ServerTyped, NEW query
  PROVE  /\ Searched
         /\ Collection(query) \subseteq alive
         /\ \A notes \in SUBSET Collection(query) : notes \subseteq Notes /\ IsFiniteSet(notes)
<1>1. alive \subseteq Notes
  BY NotesAssumption DEF ServerTyped, Notes
<1>2. Searched
  <2>1. \A list \in Seq(alive) : list \in Seq(Notes)
    <3>. SUFFICES ASSUME NEW list \in Seq(alive) PROVE list \in Seq(Notes)
      OBVIOUS
    <3>1. list \in [1..Len(list) -> Notes] /\ Len(list) \in Nat
      BY <1>1
    <3>. QED
      BY <3>1
  <2>. QED
    BY <2>1 DEF ServerTyped, Searched
<1>3. ToSet(keyword) \subseteq alive /\ ToSet(semantic) \subseteq alive
  BY DEF ServerTyped, ToSet
<1>4. Collection(query) \subseteq alive
  BY <1>3 DEF Collection
<1>5. IsFiniteSet(Notes)
  BY NotesAssumption, FS_Interval DEF Notes
<1>6. \A notes \in SUBSET Collection(query) : notes \subseteq Notes
  BY <1>1, <1>4
<1>7. \A notes \in SUBSET Collection(query) : IsFiniteSet(notes)
  BY <1>5, <1>6, FS_Subset
<1>. QED
  BY <1>2, <1>4, <1>6, <1>7

(* Arrangement, for notes of the collection.                                *)
Sorted(query, notes, rows) ==
  /\ Cardinality(notes) \in Nat
  /\ rows \in [1..Cardinality(notes) -> notes]
  /\ \A n \in notes : \E i \in 1..Cardinality(notes) : rows[i] = n
  /\ \A i, j \in 1..Cardinality(notes) : i < j <=> Before(query, rows[i], rows[j])

LEMMA ArrangedIsSorted ==
  ASSUME ServerTyped, NEW query, NEW notes \in SUBSET Collection(query)
  PROVE  /\ Ordered(query, notes) /\ IsFiniteSet(notes)
         /\ Sorted(query, notes, Arranged(query, notes))
         /\ Arranged(query, notes) \in Seq(Notes)
         /\ Len(Arranged(query, notes)) = Cardinality(notes)
<1>1. Searched /\ notes \subseteq Notes /\ IsFiniteSet(notes)
  BY Collected
<1>2. notes \subseteq Int
  BY <1>1, NotesAssumption DEF Notes
<1>3. Ordered(query, notes)
  BY <1>1, <1>2, OrderIsTotal
<1>4. PICK rows : rows = Arranged(query, notes)
  OBVIOUS
<1>5. Sorted(query, notes, rows)
  BY <1>1, <1>3, <1>4, Arrangement DEF Sorted
<1>6. rows \in Seq(Notes) /\ Len(rows) = Cardinality(notes)
  BY <1>1, <1>5 DEF Sorted
<1>. QED
  BY <1>1, <1>3, <1>4, <1>5, <1>6

(* A cursor is of its type.                                                 *)
LEMMA CursorTyped ==
  ASSUME Searched, NEW query, NEW n \in Notes
  PROVE  CursorAt(query, n) \in Cursors
<1>1. n \in 0..MaxNotes
  BY NotesAssumption DEF Notes
<1>2. NoCursor \in Cursors
  BY Empty
<1>3. CASE query = ""
  BY <1>1, <1>2, <1>3 DEF CursorAt, Cursors
<1>4. CASE query # ""
  <2>1. Score(n) \in Nat \X Nat
    BY Scores DEF Fraction
  <2>2. Drift(n) \in -1..1
    BY DEF Drift
  <2>3. CursorAt(query, n) = [note |-> n, score |-> Score(n), drift |-> Drift(n)]
    BY <1>4 DEF CursorAt
  <2>. QED
    BY <1>1, <2>1, <2>2, <2>3 DEF Cursors
<1>. QED
  BY <1>3, <1>4

(* What a page holds: the first rows, and a cursor if there are more.       *)
LEMMA PageOf ==
  ASSUME NEW query, NEW rows \in Seq(Notes)
  PROVE  /\ Len(rows) <= PageSize =>
              Page(query, rows) = [items |-> rows, age |-> changes, next |-> NoCursor]
         /\ Len(rows) > PageSize =>
              /\ SubSeq(rows, 1, PageSize) \in Seq(Notes)
              /\ Len(SubSeq(rows, 1, PageSize)) = PageSize
              /\ \A i \in 1..PageSize : SubSeq(rows, 1, PageSize)[i] = rows[i]
              /\ rows[PageSize] \in Notes
              /\ Page(query, rows) = [items |-> SubSeq(rows, 1, PageSize), age |-> changes,
                                      next |-> CursorAt(query, rows[PageSize])]
<1>0. PageSize \in Nat /\ PageSize > 0 /\ Len(rows) \in Nat
  BY PageAssumption
<1>1. CASE Len(rows) <= PageSize
  <2>1. ~(Len(rows) > PageSize)
    BY <1>0, <1>1
  <2>. QED
    BY <2>1 DEF Page
<1>2. CASE Len(rows) > PageSize
  <2>1. PICK items : items = SubSeq(rows, 1, PageSize)
    OBVIOUS
  <2>2. /\ items \in Seq(Notes) /\ Len(items) = PageSize
        /\ \A i \in 1..PageSize : items[i] = rows[i]
    BY <1>0, <1>2, <2>1
  <2>3. Last(items) = rows[PageSize]
    BY <1>0, <2>2 DEF Last
  <2>4. rows[PageSize] \in Notes
    BY <1>0, <1>2
  <2>5. Page(query, rows) = [items |-> items, age |-> changes,
                             next |-> CursorAt(query, rows[PageSize])]
    BY <1>2, <2>1, <2>3 DEF Page
  <2>6. ~(Len(rows) <= PageSize)
    BY <1>0, <1>2
  <2>. QED
    BY <2>1, <2>2, <2>4, <2>5, <2>6
<1>. QED
  BY <1>0, <1>1, <1>2

LEMMA PageTyped ==
  ASSUME Searched, changes \in Nat, NEW query, NEW rows \in Seq(Notes)
  PROVE  Page(query, rows) \in Answers
<1>1. Len(rows) \in Nat /\ PageSize \in Nat
  BY PageAssumption
<1>2. CASE Len(rows) <= PageSize
  BY <1>2, PageOf, Empty DEF Answers
<1>3. CASE Len(rows) > PageSize
  <2>1. PICK items : items = SubSeq(rows, 1, PageSize)
    OBVIOUS
  <2>2. PICK next : next = CursorAt(query, rows[PageSize])
    OBVIOUS
  <2>3. Page(query, rows) = [items |-> items, age |-> changes, next |-> next]
    BY <1>3, <2>1, <2>2, PageOf
  <2>4. items \in Seq(Notes) /\ rows[PageSize] \in Notes
    BY <1>3, <2>1, PageOf
  <2>5. next \in Cursors
    BY <2>2, <2>4, CursorTyped
  <2>. QED
    BY <2>3, <2>4, <2>5 DEF Answers
<1>. QED
  BY <1>1, <1>2, <1>3

LEMMA TypedInit == Init => Typed
<1>. SUFFICES ASSUME Init PROVE Typed
  OBVIOUS
<1>1. created \in 0..MaxNotes /\ alive \subseteq 1..created
  BY NotesAssumption DEF Init
<1>2. keyword \in Seq(alive) /\ semantic \in Seq(alive)
  <2>1. PICK notes : notes = alive
    OBVIOUS
  <2>. QED
    BY <2>1, ListedNotes DEF Init
<1>3. state \in States
  BY Empty DEF Init, Queries
<1>4. /\ created \in 0..MaxNotes /\ changes \in 0..MaxChanges
      /\ version \in 0..MaxRequests /\ failures \in 0..MaxFailures /\ requests = {}
  <2>1. created = FirstNotes /\ changes = 0 /\ version = 0 /\ failures = 0 /\ requests = {}
    BY DEF Init
  <2>. QED
    BY <2>1, NotesAssumption, BoundsAssumption
<1>5. requests \subseteq Requests /\ \A r \in requests : r.version \in 1..version
  BY <1>4
<1>. QED
  BY <1>1, <1>2, <1>3, <1>4, <1>5 DEF Typed, ServerTyped, ClientTyped

LEMMA ChangeTyped ==
  ASSUME Typed, NEW count \in 0..MaxNotes, NEW notes \in SUBSET (1..count), Change(count, notes)
  PROVE  Typed'
<1>1. keyword' \in Seq(notes) /\ semantic' \in Seq(notes)
  BY ListedNotes DEF Change
<1>2. ServerTyped'
  BY <1>1, BoundsAssumption DEF Typed, ServerTyped, Change
<1>3. ClientTyped'
  BY DEF Typed, ClientTyped, Change
<1>. QED
  BY <1>2, <1>3 DEF Typed

(* A request is numbered and joins the others.                              *)
LEMMA AskTyped ==
  ASSUME ClientTyped, NEW kind \in {"initial", "more"}, NEW query \in Queries,
         NEW cursor \in Cursors, NEW count \in Nat, Ask(kind, query, cursor, count)
  PROVE  /\ version' \in 0..MaxRequests
         /\ requests' \subseteq Requests /\ \A r \in requests' : r.version \in 1..version'
<1> DEFINE new == [kind |-> kind, version |-> version + 1, query |-> query, cursor |-> cursor,
                   count |-> count, answer |-> NoAnswer]
<1>1. requests' = requests \cup {new} /\ version' = version + 1 /\ version < MaxRequests
  BY DEF Ask
<1>2. version \in Nat /\ version' \in 0..MaxRequests
  BY <1>1, BoundsAssumption DEF ClientTyped
<1>3. new \in Requests /\ new.version = version + 1
  BY <1>2, Empty DEF Requests
<1>. HIDE DEF new
<1>4. requests' \subseteq Requests
  BY <1>1, <1>3 DEF ClientTyped
<1>5. ASSUME NEW r \in requests' PROVE r.version \in 1..version'
  <2>1. CASE r \in requests
    <3>1. r.version \in 1..version
      BY <2>1 DEF ClientTyped
    <3>. QED
      BY <1>1, <1>2, <3>1
  <2>2. CASE r = new
    BY <1>1, <1>2, <1>3, <2>2
  <2>. QED
    BY <1>1, <2>1, <2>2
<1>. QED
  BY <1>2, <1>4, <1>5

LEMMA LoadTyped ==
  ASSUME ClientTyped, NEW found \in States, LoadOn(found)
  PROVE  ClientTyped'
<1>1. state' \in States
  BY DEF LoadOn, States
<1>2. found.query \in Queries
  BY DEF States
<1>3. PICK query \in Queries, cursor \in Cursors : query = found.query /\ cursor = NoCursor
  BY <1>2, Empty
<1>4. Ask("initial", query, cursor, 0)
  BY <1>3 DEF LoadOn
<1>5. /\ version' \in 0..MaxRequests
      /\ requests' \subseteq Requests /\ \A r \in requests' : r.version \in 1..version'
  BY <1>4, AskTyped
<1>. QED
  BY <1>1, <1>5 DEF ClientTyped, LoadOn

LEMMA MoreTyped ==
  ASSUME ClientTyped, LoadMore
  PROVE  ClientTyped'
<1>1. state' \in States
  BY DEF LoadMore, States, ClientTyped
<1>2. state.query \in Queries /\ state.next \in Cursors /\ Len(state.shown) \in Nat
  BY DEF ClientTyped, States
<1>3. PICK query \in Queries, cursor \in Cursors, count \in Nat :
        query = state.query /\ cursor = state.next /\ count = Len(state.shown)
  BY <1>2
<1>4. Ask("more", query, cursor, count)
  BY <1>3 DEF LoadMore
<1>5. /\ version' \in 0..MaxRequests
      /\ requests' \subseteq Requests /\ \A r \in requests' : r.version \in 1..version'
  BY <1>4, AskTyped
<1>. QED
  BY <1>1, <1>5 DEF ClientTyped, LoadMore

(* What the server answers.                                                 *)
LEMMA AnswerOf ==
  ASSUME Typed, NEW r \in Requests, ServerAnswers(r)
  PROVE  \E rows \in Seq(Notes), page \in Answers :
           /\ rows = Arranged(r.query, Found(r.query, r.cursor))
           /\ Sorted(r.query, Found(r.query, r.cursor), rows)
           /\ Len(rows) = Cardinality(Found(r.query, r.cursor))
           /\ page = Page(r.query, rows)
           /\ requests' = (requests \ {r}) \cup {[r EXCEPT !.answer = page]}
<1>1. PICK query, cursor : query = r.query /\ cursor = r.cursor
  OBVIOUS
<1>2. PICK found : found = Found(query, cursor)
  OBVIOUS
<1>3. PICK rows : rows = Arranged(query, found)
  OBVIOUS
<1>4. found \in SUBSET Collection(query)
  BY <1>2 DEF Found
<1>5. rows \in Seq(Notes) /\ Sorted(query, found, rows) /\ Len(rows) = Cardinality(found)
  BY <1>3, <1>4, ArrangedIsSorted DEF Typed
<1>6. Searched /\ changes \in Nat
  BY Collected, BoundsAssumption DEF Typed, ServerTyped
<1>7. PICK page : page = Page(query, rows)
  OBVIOUS
<1>8. page \in Answers
  BY <1>5, <1>6, <1>7, PageTyped
<1>9. requests' = (requests \ {r}) \cup {[r EXCEPT !.answer = page]}
  BY <1>1, <1>2, <1>3, <1>7 DEF ServerAnswers
<1>. QED
  BY <1>1, <1>2, <1>3, <1>5, <1>7, <1>8, <1>9

LEMMA TypedNext == Typed /\ [Next]_vars => Typed'
<1>. SUFFICES ASSUME Typed, [Next]_vars PROVE Typed'
  OBVIOUS
<1>0. created \in Nat /\ MaxNotes \in Nat
  BY NotesAssumption DEF Typed, ServerTyped
<1>a. UNCHANGED server => ServerTyped'
  BY DEF Typed, ServerTyped, server
<1>1. CASE NoteArrives
  <2>1. created + 1 \in 0..MaxNotes /\ alive \cup {created + 1} \subseteq 1..(created + 1)
    BY <1>0, <1>1 DEF NoteArrives, Typed, ServerTyped
  <2>2. PICK count \in 0..MaxNotes : count = created + 1
    BY <2>1
  <2>3. PICK notes \in SUBSET (1..count) : notes = alive \cup {created + 1}
    BY <2>1, <2>2
  <2>4. Change(count, notes)
    BY <1>1, <2>2, <2>3 DEF NoteArrives
  <2>. QED
    BY <2>4, ChangeTyped
<1>2. CASE NoteDeleted
  <2>1. PICK n \in alive : Change(created, alive \ {n})
    BY <1>2 DEF NoteDeleted
  <2>2. PICK count \in 0..MaxNotes : count = created
    BY DEF Typed, ServerTyped
  <2>3. PICK notes \in SUBSET (1..count) : notes = alive \ {n}
    BY <2>2 DEF Typed, ServerTyped
  <2>4. Change(count, notes)
    BY <2>1, <2>2, <2>3
  <2>. QED
    BY <2>4, ChangeTyped
<1>3. CASE NoteEdited
  <2>2. PICK count \in 0..MaxNotes : count = created
    BY DEF Typed, ServerTyped
  <2>3. PICK notes \in SUBSET (1..count) : notes = alive
    BY <2>2 DEF Typed, ServerTyped
  <2>4. Change(count, notes)
    BY <1>3, <2>2, <2>3 DEF NoteEdited
  <2>. QED
    BY <2>4, ChangeTyped
<1>4. CASE LoadInitial
  <2>1. PICK found \in States : found = state
    BY DEF Typed, ClientTyped
  <2>2. LoadOn(found)
    BY <1>4, <2>1 DEF LoadInitial
  <2>. QED
    BY <1>a, <2>2, LoadTyped DEF Typed, LoadOn
<1>5. CASE Refresh
  <2>1. Blank(state.query) \in States
    BY Empty DEF Typed, ClientTyped, States
  <2>2. PICK found \in States : found = Blank(state.query)
    BY <2>1
  <2>3. LoadOn(found)
    BY <1>5, <2>2 DEF Refresh
  <2>. QED
    BY <1>a, <2>3, LoadTyped DEF Typed, LoadOn
<1>6. CASE LoadMore
  BY <1>6, <1>a, MoreTyped DEF Typed, LoadMore
<1>7. ASSUME NEW query \in Queries, Search(query) PROVE Typed'
  <2>1. PICK found \in States : found = Blank(query)
    BY Empty
  <2>2. LoadOn(found)
    BY <1>7, <2>1 DEF Search
  <2>. QED
    BY <1>a, <2>2, LoadTyped DEF Typed, LoadOn
<1>8. ASSUME NEW r \in requests, ServerAnswers(r) PROVE Typed'
  <2>1. r \in Requests /\ r.version \in 1..version
    BY DEF Typed, ClientTyped
  <2>2. PICK page \in Answers : requests' = (requests \ {r}) \cup {[r EXCEPT !.answer = page]}
    BY <1>8, <2>1, AnswerOf
  <2>3. [r EXCEPT !.answer = page] \in Requests /\ [r EXCEPT !.answer = page].version = r.version
    BY <2>1 DEF Requests
  <2>4. ClientTyped'
    BY <1>8, <2>1, <2>2, <2>3 DEF Typed, ClientTyped, ServerAnswers
  <2>. QED
    BY <1>8, <1>a, <2>4 DEF Typed, ServerAnswers
<1>9. ASSUME NEW r \in requests, InitialArrives(r) PROVE Typed'
  <2>1. r \in Requests
    BY DEF Typed, ClientTyped
  <2>2. state' \in States
    <3>1. CASE IsCurrentRequest(r)
      <4>1. r.answer.items \in Seq(Notes) /\ r.answer.next \in Cursors /\ r.query \in Queries
        BY <2>1 DEF Requests, Answers
      <4>2. Blank(r.query) \in States
        BY <4>1, Empty
      <4>3. state' = [Blank(r.query) EXCEPT !.shown = r.answer.items, !.next = r.answer.next]
        BY <1>9, <3>1 DEF InitialArrives
      <4>. QED
        BY <4>1, <4>2, <4>3 DEF States
    <3>2. CASE ~IsCurrentRequest(r)
      BY <1>9, <3>2 DEF InitialArrives, Typed, ClientTyped
    <3>. QED
      BY <3>1, <3>2
  <2>3. ClientTyped'
    BY <1>9, <2>2 DEF Typed, ClientTyped, InitialArrives
  <2>. QED
    BY <1>9, <1>a, <2>3 DEF Typed, InitialArrives
<1>10. ASSUME NEW r \in requests, MoreArrives(r) PROVE Typed'
  <2>1. r \in Requests /\ state \in States
    BY DEF Typed, ClientTyped
  <2>2. state' \in States
    <3>1. CASE state' = state
      BY <2>1, <3>1
    <3>2. CASE state' # state
      <4>1. r.answer.items \in Seq(Notes) /\ r.answer.next \in Cursors
        BY <2>1 DEF Requests, Answers
      <4>2. state.shown \o r.answer.items \in Seq(Notes)
        BY <2>1, <4>1 DEF States
      <4>3. state' = [state EXCEPT !.shown = @ \o r.answer.items, !.next = r.answer.next,
                                   !.more = FALSE, !.error = FALSE]
        BY <1>10, <3>2 DEF MoreArrives
      <4>. QED
        BY <2>1, <4>1, <4>2, <4>3 DEF States
    <3>. QED
      BY <3>1, <3>2
  <2>3. ClientTyped'
    BY <1>10, <2>2 DEF Typed, ClientTyped, MoreArrives
  <2>. QED
    BY <1>10, <1>a, <2>3 DEF Typed, MoreArrives
<1>11. ASSUME NEW r \in requests, RequestFails(r) PROVE Typed'
  <2>1. state' \in States
    BY <1>11 DEF Typed, ClientTyped, RequestFails, States
  <2>2. failures' \in 0..MaxFailures
    BY <1>11, BoundsAssumption DEF Typed, ClientTyped, RequestFails
  <2>3. ClientTyped'
    BY <1>11, <2>1, <2>2 DEF Typed, ClientTyped, RequestFails
  <2>. QED
    BY <1>11, <1>a, <2>3 DEF Typed, RequestFails
<1>12. CASE UNCHANGED vars
  BY <1>12 DEF Typed, ServerTyped, ClientTyped, vars, server
<1>. QED
  BY <1>1, <1>2, <1>3, <1>4, <1>5, <1>6, <1>7, <1>8, <1>9, <1>10, <1>11, <1>12 DEF Next, Arrives

LEMMA TypedAlways == Spec => []Typed
  BY TypedInit, TypedNext, PTL DEF Spec

(* What the screen and the server remember is what they can have written.  *)
THEOREM TypesAreKept == Spec => []TypeOK
  BY TypedAlways, TypedIsOK, PTL

-----------------------------------------------------------------------------
(* Browsing                                                                 *)

(* A stretch of the history, newest first, that ends at its cursor.         *)
Stretch(list, next) ==
  /\ \A i \in DOMAIN list : list[i] \in 1..created
  /\ \A i, j \in DOMAIN list : i < j => list[i] > list[j]
  /\ next # NoCursor => list # << >> /\ next.note = list[Len(list)]

(* It leaves out no note from top down to the cursor.                       *)
Full(list, top, next) == \A n \in alive : n <= top /\ n >= next.note => Contains(list, n)

(* The list that is browsed is such a stretch, ...                          *)
ListIsStretch ==
  state.query = "" =>
    /\ Stretch(state.shown, state.next)
    /\ state.shown # << >> => Full(state.shown, state.shown[1], state.next)

(* ... and so is an answer in flight: from its first note down, or from     *)
(* right below the cursor it was asked with.                                *)
AnswerIsStretch(cursor, answer) ==
  /\ Stretch(answer.items, answer.next)
  /\ cursor = NoCursor /\ answer.items # << >> => Full(answer.items, answer.items[1], answer.next)
  /\ cursor # NoCursor => /\ \A i \in DOMAIN answer.items : answer.items[i] < cursor.note
                          /\ Full(answer.items, cursor.note - 1, answer.next)

(* A request in flight: it continues the list if it has a cursor.           *)
RequestIsStretch(r) ==
  /\ r.kind = "initial" <=> r.cursor = NoCursor
  /\ r.query = "" => /\ r.cursor.note <= created
                     /\ r.answer # NoAnswer => AnswerIsStretch(r.cursor, r.answer)

BrowseInv == ListIsStretch /\ \A r \in requests : RequestIsStretch(r)

(* What changes of the notes: some go, and a new one is the newest.         *)
Newer == /\ created \in Nat /\ created' \in Nat /\ created <= created'
         /\ \A n \in alive' : n \in Int /\ (n \in alive \/ n > created)

LEMMA NotesMove == Typed /\ [Next]_vars => Newer
<1>. SUFFICES ASSUME Typed, [Next]_vars PROVE Newer
  OBVIOUS
<1>1. created \in Nat /\ \A n \in alive : n \in Int
  BY NotesAssumption DEF Typed, ServerTyped
<1>2. CASE NoteArrives
  BY <1>1, <1>2 DEF NoteArrives, Change, Newer
<1>3. CASE NoteDeleted
  BY <1>1, <1>3 DEF NoteDeleted, Change, Newer
<1>4. CASE NoteEdited
  BY <1>1, <1>4 DEF NoteEdited, Change, Newer
<1>5. CASE UNCHANGED server
  BY <1>1, <1>5 DEF server, Newer
<1>6. CASE LoadInitial \/ Refresh \/ LoadMore
  BY <1>5, <1>6 DEF LoadInitial, Refresh, LoadMore, LoadOn
<1>7. CASE \E query \in Queries : Search(query)
  BY <1>5, <1>7 DEF Search, LoadOn
<1>8. CASE \E r \in requests : ServerAnswers(r) \/ Arrives(r) \/ RequestFails(r)
  BY <1>5, <1>8 DEF ServerAnswers, Arrives, InitialArrives, MoreArrives, RequestFails
<1>9. CASE UNCHANGED vars
  BY <1>5, <1>9 DEF vars
<1>. QED
  BY <1>2, <1>3, <1>4, <1>6, <1>7, <1>8, <1>9 DEF Next

(* What was a stretch without gaps stays one.                               *)
LEMMA StretchStays ==
  ASSUME Newer, NEW list \in Seq(Notes), NEW next \in Cursors, Stretch(list, next)
  PROVE  /\ Stretch(list, next)'
         /\ \A top \in Int : top <= created /\ Full(list, top, next) => Full(list, top, next)'
         /\ list # << >> => list[1] \in Int /\ list[1] <= created
<1>1. \A i \in DOMAIN list : list[i] \in 1..created'
  BY DEF Stretch, Newer
<1>2. Stretch(list, next)'
  BY <1>1 DEF Stretch
<1>3. ASSUME NEW top \in Int, top <= created, Full(list, top, next)
      PROVE  Full(list, top, next)'
  <2>1. \A n \in alive' : n <= top => n \in alive
    BY <1>3 DEF Newer
  <2>. QED
    BY <1>3, <2>1 DEF Full
<1>4. ASSUME list # << >> PROVE list[1] \in Int /\ list[1] <= created
  <2>1. 1 \in DOMAIN list
    BY <1>4
  <2>. QED
    BY <2>1 DEF Stretch, Newer
<1>. QED
  BY <1>2, <1>3, <1>4

LEMMA ListStays ==
  ASSUME Typed, Newer, ListIsStretch, state.query = "",
         NEW shown, shown = state.shown, NEW next, next = state.next
  PROVE  Stretch(shown, next)' /\ (shown # << >> => Full(shown, shown[1], next)')
<1>1. shown \in Seq(Notes) /\ next \in Cursors
  BY DEF Typed, ClientTyped, States
<1>2. Stretch(shown, next) /\ (shown # << >> => Full(shown, shown[1], next))
  BY DEF ListIsStretch
<1>. QED
  BY <1>1, <1>2, StretchStays

LEMMA AnswerStays ==
  ASSUME Newer, NEW cursor \in Cursors, cursor.note <= created, NEW answer \in Answers,
         AnswerIsStretch(cursor, answer)
  PROVE  AnswerIsStretch(cursor, answer)'
<1>1. PICK items \in Seq(Notes), next \in Cursors : items = answer.items /\ next = answer.next
  BY DEF Answers
<1>2. Stretch(items, next)
  BY <1>1 DEF AnswerIsStretch
<1>3. Stretch(items, next)'
  BY <1>2, StretchStays
<1>4. cursor = NoCursor /\ items # << >> => Full(items, items[1], next)'
  BY <1>1, <1>2, StretchStays DEF AnswerIsStretch
<1>5. cursor # NoCursor => Full(items, cursor.note - 1, next)'
  <2>1. cursor.note - 1 \in Int /\ cursor.note - 1 <= created
    BY NotesAssumption DEF Newer, Cursors
  <2>. QED
    BY <1>1, <1>2, <2>1, StretchStays DEF AnswerIsStretch
<1>. QED
  BY <1>1, <1>3, <1>4, <1>5 DEF AnswerIsStretch

LEMMA RequestStays ==
  ASSUME Newer, NEW r \in Requests, RequestIsStretch(r)
  PROVE  RequestIsStretch(r)'
<1>1. r.cursor \in Cursors /\ r.answer \in Answers
  BY DEF Requests
<1>2. r.cursor.note <= created => r.cursor.note <= created'
  <2>1. r.cursor.note \in Int
    BY <1>1, NotesAssumption DEF Cursors
  <2>. QED
    BY <2>1 DEF Newer
<1>. QED
  BY <1>1, <1>2, AnswerStays DEF RequestIsStretch

(* The query of the history, which is none.                                *)
Browses(query) == query = ""

(* A page of the history is a stretch of it without gaps.                   *)
LEMMA BrowsePage ==
  ASSUME ServerTyped, NEW query, Browses(query), NEW cursor \in Cursors,
         NEW found, found = Found(query, cursor), NEW rows \in Seq(Notes),
         Sorted(query, found, rows), Len(rows) = Cardinality(found),
         NEW page, page = Page(query, rows)
  PROVE  AnswerIsStretch(cursor, page)
<1>0. /\ \A n \in found : n \in alive /\ n \in 1..created /\ n \in Int
      /\ \A n \in alive : n \in Int /\ (cursor = NoCursor \/ n < cursor.note => n \in found)
      /\ cursor # NoCursor => \A n \in found : n < cursor.note
  <2>1. Collection(query) = alive
    BY DEF Browses, Collection
  <2>2. \A n : PastCursor(query, cursor, n) <=> cursor = NoCursor \/ n < cursor.note
    BY DEF Browses, PastCursor
  <2>3. \A n : n \in found <=> n \in alive /\ PastCursor(query, cursor, n)
    BY <2>1 DEF Found
  <2>4. \A n \in alive : n \in 1..created /\ n \in Int
    BY NotesAssumption DEF ServerTyped
  <2>. QED
    BY <2>2, <2>3, <2>4
<1>1. /\ \A i \in 1..Len(rows) : rows[i] \in found
      /\ \A n \in found : \E i \in 1..Len(rows) : rows[i] = n
  BY DEF Sorted
<1>2. \A i, j \in 1..Len(rows) : i < j => rows[i] > rows[j]
  <2>1. \A m, n : Before(query, m, n) <=> m > n
    BY DEF Browses, Before
  <2>. QED
    BY <2>1 DEF Sorted
<1>3. \E items \in Seq(Notes), next \in Cursors :
        /\ items = page.items /\ next = page.next /\ Len(items) <= Len(rows)
        /\ \A i \in 1..Len(items) : items[i] = rows[i]
        /\ next = NoCursor => Len(items) = Len(rows)
        /\ next # NoCursor => Len(items) >= 1 /\ next.note = rows[Len(items)]
  <2>0. PageSize \in Nat /\ PageSize > 0 /\ Len(rows) \in Nat
    BY PageAssumption
  <2>1. CASE Len(rows) <= PageSize
    <3>1. page = [items |-> rows, age |-> changes, next |-> NoCursor]
      BY <2>1, PageOf
    <3>. QED
      BY <2>0, <3>1, Empty
  <2>2. CASE Len(rows) > PageSize
    <3>1. PICK items : items = SubSeq(rows, 1, PageSize)
      OBVIOUS
    <3>2. PICK next : next = CursorAt(query, rows[PageSize])
      OBVIOUS
    <3>3. page = [items |-> items, age |-> changes, next |-> next]
      BY <2>2, <3>1, <3>2, PageOf
    <3>4. /\ items \in Seq(Notes) /\ Len(items) = PageSize /\ rows[PageSize] \in Notes
          /\ \A i \in 1..PageSize : items[i] = rows[i]
      BY <2>2, <3>1, PageOf
    <3>5. next = [NoCursor EXCEPT !.note = rows[PageSize]]
      BY <3>2 DEF Browses, CursorAt
    <3>6. next.note = rows[PageSize] /\ rows[PageSize] \in 0..MaxNotes /\ rows[PageSize] # 0
      BY <3>4, <3>5, NotesAssumption DEF NoCursor, Notes
    <3>7. next \in Cursors
      BY <3>5, <3>6, Empty DEF Cursors
    <3>8. next # NoCursor
      BY <3>6 DEF NoCursor
    <3>. QED
      BY <2>0, <2>2, <3>3, <3>4, <3>6, <3>7, <3>8
  <2>. QED
    BY <2>0, <2>1, <2>2
<1>4. PICK items \in Seq(Notes), next \in Cursors :
        /\ items = page.items /\ next = page.next /\ Len(items) <= Len(rows)
        /\ \A i \in 1..Len(items) : items[i] = rows[i]
        /\ next = NoCursor => Len(items) = Len(rows)
        /\ next # NoCursor => Len(items) >= 1 /\ next.note = rows[Len(items)]
  BY <1>3
<1>5. \A i \in DOMAIN items : i \in 1..Len(rows) /\ items[i] = rows[i] /\ items[i] \in found
  BY <1>1, <1>4
<1>6. Stretch(items, next)
  <2>1. \A i \in DOMAIN items : items[i] \in 1..created
    BY <1>0, <1>5
  <2>2. \A i, j \in DOMAIN items : i < j => items[i] > items[j]
    BY <1>2, <1>5
  <2>3. next # NoCursor => items # << >> /\ next.note = items[Len(items)]
    BY <1>4
  <2>. QED
    BY <2>1, <2>2, <2>3 DEF Stretch
<1>7. ASSUME NEW n \in found, n >= next.note PROVE Contains(items, n)
  <2>1. PICK i \in 1..Len(rows) : rows[i] = n
    BY <1>1
  <2>2. i <= Len(items)
    <3>1. CASE next = NoCursor
      BY <1>4, <3>1
    <3>2. CASE next # NoCursor
      <4>1. Len(items) \in 1..Len(rows) /\ next.note = rows[Len(items)]
        BY <1>4, <3>2
      <4>2. Len(items) < i => rows[Len(items)] > rows[i]
        BY <1>2, <4>1
      <4>3. rows[Len(items)] \in Int /\ rows[i] \in Int
        BY <1>0, <1>1, <4>1
      <4>. QED
        BY <1>7, <2>1, <4>1, <4>2, <4>3
    <3>. QED
      BY <3>1, <3>2
  <2>3. i \in 1..Len(items) /\ items[i] = n
    BY <1>4, <2>1, <2>2
  <2>. QED
    BY <2>3 DEF Contains
<1>8. ASSUME cursor = NoCursor, items # << >> PROVE Full(items, items[1], next)
  BY <1>0, <1>7, <1>8 DEF Full
<1>9. ASSUME cursor # NoCursor
      PROVE  /\ \A i \in DOMAIN items : items[i] < cursor.note
             /\ Full(items, cursor.note - 1, next)
  <2>1. \A i \in DOMAIN items : items[i] < cursor.note
    BY <1>0, <1>5, <1>9
  <2>2. cursor.note \in Int
    BY NotesAssumption DEF Cursors
  <2>3. \A n \in alive : n <= cursor.note - 1 => n \in found
    BY <1>0, <2>2
  <2>. QED
    BY <1>7, <2>1, <2>3 DEF Full
<1>. QED
  BY <1>4, <1>6, <1>8, <1>9 DEF AnswerIsStretch

(* A page joins the list it continues.                                      *)
LEMMA StretchesJoin ==
  ASSUME ServerTyped, NEW list \in Seq(Notes), NEW cursor \in Cursors, NEW answer \in Answers,
         Stretch(list, cursor), list # << >> => Full(list, list[1], cursor),
         cursor # NoCursor, AnswerIsStretch(cursor, answer)
  PROVE  LET all == list \o answer.items
         IN  Stretch(all, answer.next) /\ Full(all, all[1], answer.next) /\ all # << >>
<1>1. PICK items \in Seq(Notes), next \in Cursors : items = answer.items /\ next = answer.next
  BY DEF Answers
<1>2. PICK all \in Seq(Notes) : all = list \o items
  <2>1. list \o items \in Seq(Notes)
    OBVIOUS
  <2>. QED
    BY <2>1
<1>3. /\ Len(list) \in Nat /\ Len(items) \in Nat /\ Len(all) = Len(list) + Len(items)
      /\ \A i \in 1..Len(list) : all[i] = list[i]
      /\ \A i \in 1..Len(items) : all[Len(list) + i] = items[i]
  BY <1>2
<1>4. list # << >> /\ cursor.note = list[Len(list)] /\ Len(list) >= 1
  <2>1. \A s \in Seq(Notes) : s # << >> => Len(s) >= 1
    OBVIOUS
  <2>. QED
    BY <2>1 DEF Stretch
<1>5. all[1] = list[1] /\ all # << >>
  BY <1>3, <1>4
<1>6. /\ \A i \in 1..Len(list) : list[i] \in Int /\ list[i] \in 1..created /\ list[i] >= cursor.note
      /\ cursor.note \in Int
  <2>1. \A i \in 1..Len(list) : list[i] \in Int /\ list[i] \in 1..created
    BY DEF Stretch, ServerTyped
  <2>2. \A i \in 1..Len(list) : i < Len(list) => list[i] > list[Len(list)]
    BY <1>4 DEF Stretch
  <2>3. list[Len(list)] \in Int
    BY <1>4, <2>1
  <2>4. \A i \in 1..Len(list) : i = Len(list) \/ i < Len(list)
    BY <1>3
  <2>. QED
    BY <1>4, <2>1, <2>2, <2>3, <2>4
<1>7. /\ Stretch(items, next) /\ Full(items, cursor.note - 1, next)
      /\ \A i \in 1..Len(items) : items[i] \in Int /\ items[i] \in 1..created /\ items[i] < cursor.note
  <2>1. Stretch(items, next) /\ Full(items, cursor.note - 1, next)
    BY <1>1 DEF AnswerIsStretch
  <2>2. \A i \in 1..Len(items) : items[i] < cursor.note
    BY <1>1 DEF AnswerIsStretch
  <2>3. \A i \in 1..Len(items) : items[i] \in Int /\ items[i] \in 1..created
    BY <2>1 DEF Stretch, ServerTyped
  <2>. QED
    BY <2>1, <2>2, <2>3
<1>8. \A i \in 1..Len(all) : \/ i \in 1..Len(list) /\ all[i] = list[i]
                             \/ /\ i > Len(list) /\ i - Len(list) \in 1..Len(items)
                                /\ all[i] = items[i - Len(list)]
  <2>1. \A i \in 1..Len(all) : i > Len(list) =>
          i - Len(list) \in 1..Len(items) /\ Len(list) + (i - Len(list)) = i
    BY <1>3
  <2>2. \A i \in 1..Len(all) : i > Len(list) => all[i] = items[i - Len(list)]
    BY <1>3, <2>1
  <2>. QED
    BY <1>3, <2>1, <2>2
<1>9. Stretch(all, next)
  <2>1. \A i \in DOMAIN all : all[i] \in 1..created
    BY <1>6, <1>7, <1>8
  <2>2. ASSUME NEW i \in 1..Len(all), NEW j \in 1..Len(all), i < j
        PROVE  all[i] > all[j]
    <3>1. CASE j \in 1..Len(list)
      <4>1. i \in 1..Len(list)
        BY <1>3, <2>2, <3>1
      <4>2. list[i] > list[j]
        BY <2>2, <3>1, <4>1 DEF Stretch
      <4>. QED
        BY <1>3, <3>1, <4>1, <4>2
    <3>2. CASE i \in 1..Len(list) /\ j \notin 1..Len(list)
      <4>1. j - Len(list) \in 1..Len(items) /\ all[j] = items[j - Len(list)]
        BY <1>8, <3>2
      <4>2. list[i] >= cursor.note /\ items[j - Len(list)] < cursor.note
        BY <1>6, <1>7, <3>2, <4>1
      <4>3. list[i] \in Int /\ items[j - Len(list)] \in Int /\ cursor.note \in Int
        BY <1>6, <1>7, <3>2, <4>1
      <4>. QED
        BY <1>3, <3>2, <4>1, <4>2, <4>3
    <3>3. CASE i \notin 1..Len(list)
      <4>1. i > Len(list) /\ j > Len(list)
        BY <1>3, <2>2, <3>3
      <4>2. /\ i - Len(list) \in 1..Len(items) /\ all[i] = items[i - Len(list)]
            /\ j - Len(list) \in 1..Len(items) /\ all[j] = items[j - Len(list)]
        BY <1>3, <1>8, <4>1
      <4>3. i - Len(list) < j - Len(list)
        BY <1>3, <2>2
      <4>4. items[i - Len(list)] > items[j - Len(list)]
        BY <1>7, <4>2, <4>3 DEF Stretch
      <4>. QED
        BY <4>2, <4>4
    <3>. QED
      BY <3>1, <3>2, <3>3
  <2>3. next # NoCursor => next.note = all[Len(all)]
    <3>1. next # NoCursor => items # << >> /\ next.note = items[Len(items)]
      BY <1>7 DEF Stretch
    <3>2. items # << >> => Len(items) \in 1..Len(items)
      OBVIOUS
    <3>. QED
      BY <1>3, <3>1, <3>2
  <2>4. DOMAIN all = 1..Len(all)
    OBVIOUS
  <2>. QED
    BY <1>5, <2>1, <2>2, <2>3, <2>4 DEF Stretch
<1>10. Full(all, all[1], next)
  <2>. SUFFICES ASSUME NEW n \in alive, n <= all[1], n >= next.note PROVE Contains(all, n)
    BY DEF Full
  <2>0. next.note \in Int /\ n \in alive /\ n \in Int
    <3>1. next.note \in Int
      BY NotesAssumption DEF Cursors
    <3>. QED
      BY <3>1, NotesAssumption DEF ServerTyped
  <2>1. CASE n >= cursor.note
    <3>1. Contains(list, n)
      BY <1>4, <1>5, <2>1 DEF Full
    <3>2. PICK i \in 1..Len(list) : list[i] = n
      BY <3>1 DEF Contains
    <3>3. i \in 1..Len(all) /\ all[i] = n
      BY <1>3, <3>2
    <3>. QED
      BY <3>3 DEF Contains
  <2>2. CASE n < cursor.note
    <3>1. n <= cursor.note - 1
      BY <1>6, <2>0, <2>2
    <3>2. Contains(items, n)
      BY <1>7, <3>1 DEF Full
    <3>3. PICK i \in 1..Len(items) : items[i] = n
      BY <3>2 DEF Contains
    <3>4. Len(list) + i \in 1..Len(all) /\ all[Len(list) + i] = n
      BY <1>3, <3>3
    <3>. QED
      BY <3>4 DEF Contains
  <2>. QED
    BY <1>6, <2>0, <2>1, <2>2
<1>. QED
  BY <1>1, <1>2, <1>5, <1>9, <1>10

(* A list that is kept stays a stretch, and an empty one is one.            *)
LEMMA ListIsKept ==
  ASSUME Typed, Newer, ListIsStretch, state'.query = state.query,
         state'.shown = state.shown, state'.next = state.next
  PROVE  ListIsStretch'
<1>. SUFFICES ASSUME state.query = ""
              PROVE  /\ Stretch(state.shown, state.next)'
                     /\ state'.shown # << >> => Full(state.shown, state.shown[1], state.next)'
  BY DEF ListIsStretch
<1>1. PICK shown, next : shown = state.shown /\ next = state.next
  OBVIOUS
<1>2. Stretch(shown, next)' /\ (shown # << >> => Full(shown, shown[1], next)')
  BY <1>1, ListStays
<1>3. state'.shown = shown /\ state'.next = next
  BY <1>1
<1>. QED
  BY <1>2, <1>3 DEF Stretch, Full

LEMMA ListIsEmpty ==
  ASSUME state'.shown = << >>, state'.next = NoCursor
  PROVE  ListIsStretch'
<1>1. Stretch(<< >>, NoCursor)'
  BY DEF Stretch
<1>2. Stretch(state.shown, state.next)'
  BY <1>1 DEF Stretch
<1>. QED
  BY <1>2 DEF ListIsStretch

(* The requests in flight stay as they have to be.                          *)
LEMMA RequestsStay ==
  ASSUME Typed, Newer, BrowseInv
  PROVE  \A r \in requests : RequestIsStretch(r)'
  BY RequestStays DEF Typed, ClientTyped, BrowseInv

(* What is asked: the top of the history, or what continues the list.       *)
Continues(kind, query, cursor) ==
  /\ kind = "initial" <=> cursor = NoCursor
  /\ query = "" => cursor.note <= created

LEMMA AskIsStretch ==
  ASSUME Typed, Newer, BrowseInv, NEW kind, NEW query, NEW cursor \in Cursors, NEW count,
         Ask(kind, query, cursor, count), Continues(kind, query, cursor)
  PROVE  \A r \in requests' : RequestIsStretch(r)'
<1>1. PICK new : new = [kind |-> kind, version |-> version + 1, query |-> query,
                        cursor |-> cursor, count |-> count, answer |-> NoAnswer]
  OBVIOUS
<1>2. requests' = requests \cup {new}
  BY <1>1 DEF Ask
<1>3. cursor.note <= created => cursor.note <= created'
  <2>1. cursor.note \in Int
    BY NotesAssumption DEF Cursors
  <2>. QED
    BY <2>1 DEF Newer
<1>4. RequestIsStretch(new)'
  BY <1>1, <1>3 DEF RequestIsStretch, Continues
<1>. QED
  BY <1>2, <1>4, RequestsStay

LEMMA LoadIsStretch ==
  ASSUME Typed, Newer, BrowseInv, NEW found, LoadOn(found)
  PROVE  \A r \in requests' : RequestIsStretch(r)'
<1>1. PICK kind, query, count : kind = "initial" /\ query = found.query /\ count = 0
  OBVIOUS
<1>2. PICK cursor \in Cursors : cursor = NoCursor
  BY Empty
<1>3. Ask(kind, query, cursor, count)
  BY <1>1, <1>2 DEF LoadOn
<1>4. cursor.note <= created
  BY <1>2, NotesAssumption DEF NoCursor, Typed, ServerTyped
<1>5. Continues(kind, query, cursor)
  BY <1>1, <1>2, <1>4 DEF Continues
<1>. QED
  BY <1>3, <1>5, AskIsStretch

LEMMA BrowseInit == Init => BrowseInv
<1>. SUFFICES ASSUME Init PROVE BrowseInv
  OBVIOUS
<1>1. requests = {} /\ state.shown = << >> /\ state.next = NoCursor
  BY DEF Init, Blank
<1>2. Stretch(state.shown, state.next)
  BY <1>1 DEF Stretch
<1>. QED
  BY <1>1, <1>2 DEF BrowseInv, ListIsStretch

LEMMA BrowseNext == Typed /\ BrowseInv /\ [Next]_vars => BrowseInv'
<1>. SUFFICES ASSUME Typed, BrowseInv, [Next]_vars PROVE BrowseInv'
  OBVIOUS
<1>0. Newer /\ ListIsStretch
  BY NotesMove DEF BrowseInv
<1>a. \A r \in requests : RequestIsStretch(r)'
  BY <1>0, RequestsStay
<1>b. state \in States
  BY DEF Typed, ClientTyped
<1>c. UNCHANGED <<state, requests>> => BrowseInv'
  BY <1>0, <1>a, ListIsKept DEF BrowseInv
<1>1. CASE NoteArrives \/ NoteDeleted \/ NoteEdited
  BY <1>1, <1>c DEF NoteArrives, NoteDeleted, NoteEdited, Change
<1>2. CASE LoadInitial
  <2>1. PICK found : found = state
    OBVIOUS
  <2>2. LoadOn(found)
    BY <1>2, <2>1 DEF LoadInitial
  <2>3. state'.query = state.query /\ state'.shown = state.shown /\ state'.next = state.next
    BY <1>b, <1>2 DEF LoadInitial, LoadOn, States
  <2>. QED
    BY <1>0, <2>2, <2>3, LoadIsStretch, ListIsKept DEF BrowseInv
<1>3. CASE Refresh
  <2>1. PICK found : found = Blank(state.query)
    OBVIOUS
  <2>2. LoadOn(found)
    BY <1>3, <2>1 DEF Refresh
  <2>3. state'.shown = << >> /\ state'.next = NoCursor
    BY <2>1, <2>2 DEF LoadOn, Blank
  <2>. QED
    BY <1>0, <2>2, <2>3, LoadIsStretch, ListIsEmpty DEF BrowseInv
<1>4. ASSUME NEW query \in Queries, Search(query) PROVE BrowseInv'
  <2>1. PICK found : found = Blank(query)
    OBVIOUS
  <2>2. LoadOn(found)
    BY <1>4, <2>1 DEF Search
  <2>3. state'.shown = << >> /\ state'.next = NoCursor
    BY <2>1, <2>2 DEF LoadOn, Blank
  <2>. QED
    BY <1>0, <2>2, <2>3, LoadIsStretch, ListIsEmpty DEF BrowseInv
<1>5. CASE LoadMore
  <2>1. state'.query = state.query /\ state'.shown = state.shown /\ state'.next = state.next
    BY <1>b, <1>5 DEF LoadMore, States
  <2>2. state.next \in Cursors /\ state.next # NoCursor /\ state.shown \in Seq(Notes)
    BY <1>b, <1>5 DEF LoadMore, States
  <2>3. state.query = "" => state.next.note <= created
    <3>. SUFFICES ASSUME Browses(state.query) PROVE state.next.note <= created
      BY DEF Browses
    <3>1. PICK list \in Seq(Notes) : list = state.shown
      BY <2>2
    <3>2. /\ state.next.note = list[Len(list)] /\ list # << >>
          /\ \A i \in 1..Len(list) : list[i] \in 1..created
      <4>1. Stretch(list, state.next)
        BY <1>0, <3>1 DEF ListIsStretch, Browses
      <4>2. DOMAIN list = 1..Len(list)
        OBVIOUS
      <4>. QED
        BY <2>2, <4>1, <4>2 DEF Stretch
    <3>3. Len(list) \in 1..Len(list)
      <4>1. \A s \in Seq(Notes) : s # << >> => Len(s) \in 1..Len(s)
        OBVIOUS
      <4>. QED
        BY <3>2, <4>1
    <3>4. list[Len(list)] \in 1..created
      BY <3>2, <3>3
    <3>. QED
      BY <1>0, <3>2, <3>4 DEF Newer
  <2>4. PICK cursor \in Cursors : cursor = state.next
    BY <2>2
  <2>5. PICK kind, query, count : kind = "more" /\ query = state.query /\ count = Len(state.shown)
    OBVIOUS
  <2>6. Ask(kind, query, cursor, count)
    BY <1>5, <2>4, <2>5 DEF LoadMore
  <2>7. Continues(kind, query, cursor)
    BY <2>2, <2>3, <2>4, <2>5 DEF Continues
  <2>8. \A r \in requests' : RequestIsStretch(r)'
    BY <1>0, <2>6, <2>7, AskIsStretch
  <2>. QED
    BY <1>0, <2>1, <2>8, ListIsKept DEF BrowseInv
<1>6. ASSUME NEW r \in requests, ServerAnswers(r) PROVE BrowseInv'
  <2>1. r \in Requests /\ RequestIsStretch(r)
    BY DEF Typed, ClientTyped, BrowseInv
  <2>2. PICK rows \in Seq(Notes), page \in Answers :
           /\ rows = Arranged(r.query, Found(r.query, r.cursor))
           /\ Sorted(r.query, Found(r.query, r.cursor), rows)
           /\ Len(rows) = Cardinality(Found(r.query, r.cursor))
           /\ page = Page(r.query, rows)
           /\ requests' = (requests \ {r}) \cup {[r EXCEPT !.answer = page]}
    BY <1>6, <2>1, AnswerOf
  <2>3. PICK new \in Requests : new = [r EXCEPT !.answer = page]
    BY <2>1 DEF Requests
  <2>4. RequestIsStretch(new)
    <3>1. /\ new.kind = r.kind /\ new.cursor = r.cursor /\ new.query = r.query
          /\ new.answer = page
      BY <2>1, <2>3 DEF Requests
    <3>2. r.cursor \in Cursors
      BY <2>1 DEF Requests
    <3>3. r.query = "" => AnswerIsStretch(r.cursor, page)
      <4>. SUFFICES ASSUME r.query = "" PROVE AnswerIsStretch(r.cursor, page)
        OBVIOUS
      <4>1. PICK query : query = r.query
        OBVIOUS
      <4>2. Browses(query)
        BY <4>1 DEF Browses
      <4>3. PICK found : found = Found(query, r.cursor)
        OBVIOUS
      <4>4. /\ Sorted(query, found, rows) /\ Len(rows) = Cardinality(found)
            /\ page = Page(query, rows)
        BY <2>2, <4>1, <4>3
      <4>. QED
        BY <3>2, <4>2, <4>3, <4>4, BrowsePage DEF Typed
    <3>. QED
      BY <2>1, <3>1, <3>3 DEF RequestIsStretch
  <2>5. RequestIsStretch(new)'
    BY <1>0, <2>4, RequestStays
  <2>6. \A q \in requests' : RequestIsStretch(q)'
    BY <1>a, <2>2, <2>3, <2>5
  <2>7. ListIsStretch'
    BY <1>0, <1>6, ListIsKept DEF ServerAnswers
  <2>. QED
    BY <2>6, <2>7 DEF BrowseInv
<1>7. ASSUME NEW r \in requests, InitialArrives(r) PROVE BrowseInv'
  <2>1. r \in Requests /\ RequestIsStretch(r)
    BY DEF Typed, ClientTyped, BrowseInv
  <2>2. \A q \in requests' : RequestIsStretch(q)'
    BY <1>a, <1>7 DEF InitialArrives
  <2>3. ListIsStretch'
    <3>1. CASE ~IsCurrentRequest(r)
      BY <1>0, <1>7, <3>1, ListIsKept DEF InitialArrives
    <3>2. CASE IsCurrentRequest(r)
      <4>1. state' = [Blank(r.query) EXCEPT !.shown = r.answer.items, !.next = r.answer.next]
        BY <1>7, <3>2 DEF InitialArrives
      <4>2. PICK items \in Seq(Notes), next \in Cursors :
              items = r.answer.items /\ next = r.answer.next
        BY <2>1 DEF Requests, Answers
      <4>3. state'.query = r.query /\ state'.shown = items /\ state'.next = next
        BY <4>1, <4>2 DEF Blank
      <4>4. UNCHANGED server
        BY <1>7 DEF InitialArrives
      <4>. SUFFICES ASSUME r.query = ""
                    PROVE  /\ Stretch(items, next)
                           /\ items # << >> => Full(items, items[1], next)
        BY <4>3, <4>4 DEF ListIsStretch, Stretch, Full, server
      <4>5. r.cursor = NoCursor /\ r.answer # NoAnswer
        BY <1>7, <2>1 DEF InitialArrives, RequestIsStretch, Answered
      <4>6. AnswerIsStretch(r.cursor, r.answer)
        BY <2>1, <4>5 DEF RequestIsStretch
      <4>. QED
        BY <4>2, <4>5, <4>6 DEF AnswerIsStretch
    <3>. QED
      BY <3>1, <3>2
  <2>. QED
    BY <2>2, <2>3 DEF BrowseInv
<1>8. ASSUME NEW r \in requests, MoreArrives(r) PROVE BrowseInv'
  <2>1. r \in Requests /\ RequestIsStretch(r)
    BY DEF Typed, ClientTyped, BrowseInv
  <2>2. \A q \in requests' : RequestIsStretch(q)'
    BY <1>a, <1>8 DEF MoreArrives
  <2>3. ListIsStretch'
    <3>1. CASE state' = state
      BY <1>0, <3>1, ListIsKept
    <3>2. CASE state' # state
      <4>1. /\ state.query = r.query /\ state.next = r.cursor
            /\ state' = [state EXCEPT !.shown = @ \o r.answer.items, !.next = r.answer.next,
                                      !.more = FALSE, !.error = FALSE]
        BY <1>8, <3>2 DEF MoreArrives, IsCurrentRequest
      <4>2. PICK list \in Seq(Notes), cursor \in Cursors, answer \in Answers :
              list = state.shown /\ cursor = state.next /\ answer = r.answer
        BY <1>b, <2>1 DEF States, Requests
      <4>3. PICK all, next : all = list \o answer.items /\ next = answer.next
        OBVIOUS
      <4>4. state'.query = r.query /\ state'.shown = all /\ state'.next = next
        BY <1>b, <4>1, <4>2, <4>3 DEF States
      <4>5. UNCHANGED server
        BY <1>8 DEF MoreArrives
      <4>. SUFFICES ASSUME r.query = "" PROVE Stretch(all, next) /\ Full(all, all[1], next)
        BY <4>4, <4>5 DEF ListIsStretch, Stretch, Full, server
      <4>6. r.cursor # NoCursor /\ r.answer # NoAnswer
        BY <1>8, <2>1 DEF MoreArrives, RequestIsStretch, Answered
      <4>7. AnswerIsStretch(cursor, answer)
        BY <2>1, <4>1, <4>2, <4>6 DEF RequestIsStretch
      <4>8. Stretch(list, cursor) /\ (list # << >> => Full(list, list[1], cursor))
        BY <1>0, <4>1, <4>2 DEF ListIsStretch
      <4>9. cursor # NoCursor
        BY <4>1, <4>2, <4>6
      <4>. QED
        BY <4>3, <4>7, <4>8, <4>9, StretchesJoin DEF Typed
    <3>. QED
      BY <3>1, <3>2
  <2>. QED
    BY <2>2, <2>3 DEF BrowseInv
<1>9. ASSUME NEW r \in requests, RequestFails(r) PROVE BrowseInv'
  <2>1. state'.query = state.query /\ state'.shown = state.shown /\ state'.next = state.next
    BY <1>b, <1>9 DEF RequestFails, States
  <2>2. \A q \in requests' : RequestIsStretch(q)'
    BY <1>a, <1>9 DEF RequestFails
  <2>. QED
    BY <1>0, <2>1, <2>2, ListIsKept DEF BrowseInv
<1>10. CASE UNCHANGED vars
  BY <1>10, <1>c DEF vars
<1>. QED
  BY <1>1, <1>2, <1>3, <1>4, <1>5, <1>6, <1>7, <1>8, <1>9, <1>10 DEF Next, Arrives

(* Browsing shows the notes between the first of the list and its cursor,   *)
(* newest first and without a gap, whatever is created, edited and deleted  *)
(* while pages are asked for, are late, fail or overtake one another.       *)
THEOREM HistoryHasNoGaps == Spec => []BrowseHasNoGaps
<1>1. BrowseInv => BrowseHasNoGaps
  BY DEF BrowseInv, ListIsStretch, Stretch, Full, BrowseHasNoGaps
<1>. QED
  BY <1>1, BrowseInit, BrowseNext, TypedAlways, PTL DEF Spec

-----------------------------------------------------------------------------
(* Searching                                                                *)

(* Nothing the server computes changes while its database does not.         *)
LEMMA SameScores ==
  ASSUME UNCHANGED server, NEW n
  PROVE  Score(n)' = Score(n) /\ Drift(n)' = Drift(n)
<1>1. keyword' = keyword /\ semantic' = semantic
  BY DEF server
<1>. QED
  BY <1>1 DEF Score, Drift

LEMMA SameOrder ==
  ASSUME UNCHANGED server, NEW query
  PROVE  /\ \A m, n : Before(query, m, n)' <=> Before(query, m, n)
         /\ Collection(query)' = Collection(query)
         /\ \A n : CursorAt(query, n)' = CursorAt(query, n)
         /\ \A cursor, n : PastCursor(query, cursor, n)' <=> PastCursor(query, cursor, n)
<1>0. \A n : Score(n)' = Score(n)
  BY SameScores
<1>1. ASSUME NEW m, NEW n PROVE Before(query, m, n)' <=> Before(query, m, n)
  <2>1. Precedes(m, n)' <=> Precedes(m, n)
    BY <1>0 DEF Precedes
  <2>. QED
    BY <2>1 DEF Before
<1>2. Collection(query)' = Collection(query)
  BY DEF Collection, server
<1>3. ASSUME NEW n PROVE CursorAt(query, n)' = CursorAt(query, n)
  BY SameScores DEF CursorAt
<1>4. ASSUME NEW cursor, NEW n
      PROVE  PastCursor(query, cursor, n)' <=> PastCursor(query, cursor, n)
  BY <1>0 DEF PastCursor
<1>. QED
  BY <1>1, <1>2, <1>3, <1>4

LEMMA SameArrangement ==
  ASSUME UNCHANGED server, NEW query, NEW notes
  PROVE  Arranged(query, notes)' = Arranged(query, notes)
<1>1. PICK one : one = [n \in notes |-> Cardinality({m \in notes : m = n \/ Before(query, m, n)})]
  OBVIOUS
<1>2. PICK two : two = [n \in notes |-> Cardinality({m \in notes : m = n \/ Before(query, m, n)'})]
  OBVIOUS
<1>3. \A n \in notes : {m \in notes : m = n \/ Before(query, m, n)}
                         = {m \in notes : m = n \/ Before(query, m, n)'}
  BY SameOrder
<1>4. one = two
  BY <1>1, <1>2, <1>3
<1>5. Arranged(query, notes) = Inverse(one, notes, 1..Cardinality(notes))
  BY <1>1 DEF Arranged
<1>6. Arranged(query, notes)' = Inverse(two, notes, 1..Cardinality(notes))
  BY <1>2 DEF Arranged
<1>. QED
  BY <1>4, <1>5, <1>6

LEMMA SameRanking ==
  ASSUME UNCHANGED server, NEW query
  PROVE  Ranking(query)' = Ranking(query)
<1>1. PICK notes : notes = Collection(query)
  OBVIOUS
<1>2. Collection(query)' = notes
  BY <1>1, SameOrder
<1>3. Ranking(query) = Arranged(query, notes)
  BY <1>1 DEF Ranking
<1>4. Ranking(query)' = Arranged(query, notes)'
  BY <1>2 DEF Ranking, Arranged
<1>. QED
  BY <1>3, <1>4, SameArrangement

(* What the server answers to a request now.                                *)
AnswerNow(query, cursor) == Page(query, Arranged(query, Found(query, cursor)))

LEMMA SameAnswer ==
  ASSUME UNCHANGED server, NEW query, NEW cursor
  PROVE  AnswerNow(query, cursor)' = AnswerNow(query, cursor)
<1>1. PICK found : found = Found(query, cursor)
  OBVIOUS
<1>2. Found(query, cursor)' = found
  BY <1>1, SameOrder DEF Found
<1>3. PICK rows : rows = Arranged(query, found)
  OBVIOUS
<1>4. Arranged(query, found)' = rows
  BY <1>3, SameArrangement
<1>5. AnswerNow(query, cursor) = Page(query, rows)
  BY <1>1, <1>3 DEF AnswerNow
<1>6. AnswerNow(query, cursor)' = Page(query, rows)'
  <2>1. Arranged(query, Found(query, cursor))' = rows
    BY <1>2, <1>4 DEF Arranged
  <2>. QED
    BY <2>1 DEF AnswerNow, Page
<1>7. Page(query, rows)' = Page(query, rows)
  <2>1. changes' = changes
    BY DEF server
  <2>. QED
    BY <2>1, SameOrder DEF Page
<1>. QED
  BY <1>5, <1>6, <1>7

(* A note and those before it.                                              *)
UpTo(query, notes, n) == {m \in notes : m = n \/ Before(query, m, n)}

LEMMA RowCounts ==
  ASSUME ServerTyped, NEW query, NEW notes, notes \subseteq Collection(query),
         NEW rows, rows = Arranged(query, notes)
  PROVE  /\ IsFiniteSet(notes) /\ Ordered(query, notes)
         /\ Sorted(query, notes, rows) /\ rows \in Seq(Notes) /\ Len(rows) = Cardinality(notes)
         /\ \A i \in 1..Cardinality(notes) : Cardinality(UpTo(query, notes, rows[i])) = i
<1>1. IsFiniteSet(notes) /\ Ordered(query, notes)
  BY ArrangedIsSorted
<1>2. Sorted(query, notes, rows) /\ rows \in Seq(Notes) /\ Len(rows) = Cardinality(notes)
  BY ArrangedIsSorted
<1>3. ASSUME NEW i \in 1..Cardinality(notes)
      PROVE  Cardinality(UpTo(query, notes, rows[i])) = i
  <2>1. Cardinality({m \in notes : \/ m = Arranged(query, notes)[i]
                                   \/ Before(query, m, Arranged(query, notes)[i])}) = i
    BY <1>1, Arrangement
  <2>. QED
    BY <2>1 DEF UpTo
<1>. QED
  BY <1>1, <1>2, <1>3

(* The notes after one of them.                                             *)
After(query, notes, n) == {m \in notes : Before(query, n, m)}

(* A ranking, a place in it and the notes after the one there.              *)
Splits(query, all, top, k, rest, rows) ==
  /\ all = Collection(query) /\ top = Ranking(query) /\ k \in 1..Cardinality(all)
  /\ rest = After(query, all, top[k]) /\ rows = Arranged(query, rest)

(* These are arranged as the rest of the ranking.                           *)
LEMMA RestOfRanking ==
  ASSUME ServerTyped, NEW query, NEW all, NEW top, NEW k, NEW rest, NEW rows,
         Splits(query, all, top, k, rest, rows)
  PROVE  /\ top \in Seq(Notes) /\ Len(top) = Cardinality(all)
         /\ rows \in Seq(Notes) /\ Len(rows) = Len(top) - k
         /\ \A i \in 1..Len(rows) : rows[i] = top[k + i]
<1>0. /\ all = Collection(query) /\ k \in 1..Cardinality(all)
      /\ rest = After(query, all, top[k]) /\ rows = Arranged(query, rest)
  BY DEF Splits
<1>1. top = Arranged(query, all)
  BY DEF Splits, Ranking
<1>2. /\ IsFiniteSet(all) /\ Ordered(query, all)
      /\ Sorted(query, all, top) /\ top \in Seq(Notes) /\ Len(top) = Cardinality(all)
      /\ \A i \in 1..Cardinality(all) : Cardinality(UpTo(query, all, top[i])) = i
  BY <1>0, <1>1, RowCounts
<1>3. rest \subseteq all
  BY <1>0 DEF After
<1>4. /\ IsFiniteSet(rest)
      /\ Sorted(query, rest, rows) /\ rows \in Seq(Notes) /\ Len(rows) = Cardinality(rest)
      /\ \A i \in 1..Cardinality(rest) : Cardinality(UpTo(query, rest, rows[i])) = i
  BY <1>0, <1>3, RowCounts
<1>5. PICK first : first = UpTo(query, all, top[k])
  OBVIOUS
<1>6. first \subseteq all /\ Cardinality(first) = k /\ top[k] \in all
  BY <1>0, <1>2, <1>5 DEF UpTo, Sorted
<1>7. IsFiniteSet(first)
  BY <1>2, <1>6, FS_Subset
<1>8. first \cap rest = {} /\ first \cup rest = all
  <2>1. \A n \in all : ~(n \in first /\ Before(query, top[k], n))
    BY <1>2, <1>5, <1>6 DEF UpTo, Ordered
  <2>2. \A n \in all : n \in first \/ Before(query, top[k], n)
    BY <1>2, <1>5, <1>6 DEF UpTo, Ordered
  <2>. QED
    BY <1>0, <1>6, <2>1, <2>2 DEF After
<1>9. ASSUME NEW part, part \subseteq rest
      PROVE  Cardinality(first \cup part) = k + Cardinality(part)
  <2>1. IsFiniteSet(part) /\ first \cap part = {}
    BY <1>4, <1>8, <1>9, FS_Subset
  <2>2. Cardinality(first \cap part) = 0
    BY <2>1, FS_EmptySet
  <2>3. Cardinality(part) \in Nat
    BY <2>1, FS_CardinalityType
  <2>4. Cardinality(first \cup part) = Cardinality(first) + Cardinality(part) - Cardinality(first \cap part)
    BY <1>7, <2>1, FS_Union
  <2>. QED
    BY <1>6, <2>2, <2>3, <2>4
<1>10. Cardinality(rest) \in Nat /\ Cardinality(all) = k + Cardinality(rest)
  <2>1. Cardinality(rest) \in Nat
    BY <1>4, FS_CardinalityType
  <2>2. Cardinality(first \cup rest) = k + Cardinality(rest)
    BY <1>9
  <2>. QED
    BY <1>8, <2>1, <2>2
<1>11. ASSUME NEW i \in 1..Cardinality(rest) PROVE rows[i] = top[k + i]
  <2>1. PICK n \in rest : n = rows[i]
    BY <1>4 DEF Sorted
  <2>2. n \in all /\ Before(query, top[k], n)
    BY <1>0 DEF After
  <2>3. PICK j \in 1..Cardinality(all) : top[j] = n
    BY <1>2, <2>2 DEF Sorted
  <2>4. UpTo(query, all, n) = first \cup UpTo(query, rest, n)
    <3>1. \A m \in first : m = n \/ Before(query, m, n)
      BY <1>2, <1>5, <1>6, <2>2 DEF UpTo, Ordered
    <3>2. UpTo(query, all, n) \subseteq first \cup UpTo(query, rest, n)
      BY <1>8 DEF UpTo
    <3>3. first \cup UpTo(query, rest, n) \subseteq UpTo(query, all, n)
      BY <1>3, <1>6, <3>1 DEF UpTo
    <3>. QED
      BY <3>2, <3>3
  <2>5. Cardinality(UpTo(query, all, n)) = j
    BY <1>2, <2>3
  <2>6. Cardinality(UpTo(query, rest, n)) = i
    BY <1>4, <2>1
  <2>7. PICK part : part = UpTo(query, rest, n)
    OBVIOUS
  <2>8. part \subseteq rest
    BY <2>7 DEF UpTo
  <2>9. j = k + i
    BY <1>9, <2>4, <2>5, <2>6, <2>7, <2>8
  <2>. QED
    BY <2>1, <2>3, <2>9
<1>12. Len(rows) = Len(top) - k
  <2>1. Len(rows) = Cardinality(rest) /\ Len(top) = Cardinality(all)
    BY <1>2, <1>4
  <2>. QED
    BY <1>0, <1>10, <2>1
<1>13. \A i \in 1..Len(rows) : rows[i] = top[k + i]
  BY <1>4, <1>11
<1>. QED
  BY <1>2, <1>4, <1>12, <1>13

(* A cursor names a note, and so is none of no note.                        *)
LEMMA CursorNamesNote ==
  ASSUME NEW query, NEW n \in Notes
  PROVE  CursorAt(query, n).note = n /\ CursorAt(query, n) # NoCursor
<1>1. n # 0
  BY NotesAssumption DEF Notes
<1>2. CursorAt(query, n).note = n
  BY DEF CursorAt, NoCursor
<1>. QED
  BY <1>1, <1>2 DEF NoCursor

(* A list is the top of the ranking, up to its cursor.                      *)
TopOf(query, list, next) ==
  LET top == Ranking(query)
  IN  /\ Len(list) <= Len(top) /\ \A i \in 1..Len(list) : list[i] = top[i]
      /\ next = NoCursor => Len(list) = Len(top)
      /\ next # NoCursor => Len(list) >= 1 /\ next = CursorAt(query, list[Len(list)])

(* The first page of a query.                                               *)
LEMMA TopPage ==
  ASSUME ServerTyped, NEW query, NEW page, page = AnswerNow(query, NoCursor)
  PROVE  TopOf(query, page.items, page.next)
<1>1. Found(query, NoCursor) = Collection(query)
  BY DEF Found, PastCursor
<1>2. PICK all : all = Collection(query)
  OBVIOUS
<1>3. PICK top : top = Arranged(query, all)
  OBVIOUS
<1>4. top = Ranking(query) /\ page = Page(query, top)
  BY <1>1, <1>2, <1>3 DEF Ranking, AnswerNow
<1>5. top \in Seq(Notes)
  BY <1>2, <1>3, RowCounts
<1>6. Len(top) \in Nat /\ PageSize \in Nat /\ PageSize >= 1
  BY <1>5, PageAssumption
<1>7. CASE Len(top) <= PageSize
  <2>1. page.items = top /\ page.next = NoCursor
    BY <1>4, <1>5, <1>7, PageOf
  <2>. QED
    BY <1>4, <1>6, <2>1 DEF TopOf
<1>8. CASE Len(top) > PageSize
  <2>1. PICK items, next : items = SubSeq(top, 1, PageSize) /\ next = CursorAt(query, top[PageSize])
    OBVIOUS
  <2>2. /\ Len(items) = PageSize /\ \A i \in 1..PageSize : items[i] = top[i]
        /\ page = [items |-> items, age |-> changes, next |-> next]
    BY <1>4, <1>5, <1>8, <2>1, PageOf
  <2>3. next # NoCursor
    <3>1. top[PageSize] \in Notes
      BY <1>5, <1>8, PageOf
    <3>. QED
      BY <2>1, <3>1, CursorNamesNote
  <2>4. page.items = items /\ page.next = next
    BY <2>2
  <2>5. next = CursorAt(query, items[Len(items)])
    BY <1>6, <2>1, <2>2
  <2>. QED
    BY <1>4, <1>6, <1>8, <2>2, <2>3, <2>4, <2>5 DEF TopOf
<1>. QED
  BY <1>6, <1>7, <1>8

(* What lies past a cursor that came back as it was follows its note in the *)
(* ranking.                                                                 *)
LEMMA PastIsAfter ==
  ASSUME NEW query, NEW n, NEW cursor, cursor = CursorAt(query, n), cursor # NoCursor,
         cursor.drift = 0
  PROVE  \A m : PastCursor(query, cursor, m) <=> Before(query, n, m)
<1>1. CASE Browses(query)
  <2>1. cursor.note = n
    BY <1>1 DEF Browses, CursorAt, NoCursor
  <2>2. ASSUME NEW m PROVE PastCursor(query, cursor, m) <=> n > m
    BY <1>1, <2>1 DEF Browses, PastCursor
  <2>3. ASSUME NEW m PROVE Before(query, n, m) <=> n > m
    BY <1>1 DEF Browses, Before
  <2>. QED
    BY <2>2, <2>3
<1>2. CASE ~Browses(query)
  <2>1. cursor.note = n /\ cursor.score = Score(n)
    BY <1>2 DEF Browses, CursorAt
  <2>2. ASSUME NEW m
        PROVE  PastCursor(query, cursor, m)
                 <=> \/ Above(Score(n), Score(m))
                     \/ ~Above(Score(m), Score(n)) /\ m < n
    <3>1. PastCursor(query, cursor, m)
            <=> \/ Above(cursor.score, Score(m))
                \/ /\ ~Above(Score(m), cursor.score)
                   /\ cursor.drift = 1 \/ (cursor.drift = 0 /\ m < cursor.note)
      BY <1>2, Zenon DEF Browses, PastCursor
    <3>2. cursor.drift = 1 \/ (cursor.drift = 0 /\ m < cursor.note) <=> m < n
      BY <2>1
    <3>. QED
      BY <2>1, <3>1, <3>2, Zenon
  <2>3. ASSUME NEW m
        PROVE  Before(query, n, m) <=> \/ Above(Score(n), Score(m))
                                       \/ ~Above(Score(m), Score(n)) /\ n > m
    BY <1>2 DEF Browses, Before, Precedes
  <2>. QED
    BY <2>2, <2>3
<1>. QED
  BY <1>1, <1>2

(* A further page continues the top of the ranking.                         *)
LEMMA NextPage ==
  ASSUME ServerTyped, NEW query, NEW list \in Seq(Notes), NEW cursor, TopOf(query, list, cursor),
         cursor # NoCursor, cursor.drift = 0,
         NEW page, page = AnswerNow(query, cursor)
  PROVE  page.items \in Seq(Notes) /\ TopOf(query, list \o page.items, page.next)
<1>1. PICK all : all = Collection(query)
  OBVIOUS
<1>2. PICK top : top = Ranking(query)
  OBVIOUS
<1>3. top \in Seq(Notes) /\ Len(top) = Cardinality(all) /\ Len(top) \in Nat
  <2>1. top = Arranged(query, all)
    BY <1>1, <1>2 DEF Ranking
  <2>2. top \in Seq(Notes) /\ Len(top) = Cardinality(all)
    BY <1>1, <2>1, RowCounts
  <2>. QED
    BY <2>2
<1>4. PICK k \in Nat : k = Len(list)
  OBVIOUS
<1>5. /\ k \in 1..Len(top) /\ \A i \in 1..k : list[i] = top[i]
      /\ cursor = CursorAt(query, list[k])
  BY <1>2, <1>3, <1>4 DEF TopOf
<1>6. cursor = CursorAt(query, top[k])
  BY <1>5
<1>7. PICK rest : rest = After(query, all, top[k])
  OBVIOUS
<1>8. Found(query, cursor) = rest
  <2>1. PICK n : n = top[k]
    OBVIOUS
  <2>2. \A m : PastCursor(query, cursor, m) <=> Before(query, n, m)
    BY <1>6, <2>1, PastIsAfter
  <2>. QED
    BY <1>1, <1>7, <2>1, <2>2 DEF Found, After
<1>9. PICK rows : rows = Arranged(query, rest)
  OBVIOUS
<1>10. /\ rows \in Seq(Notes) /\ Len(rows) = Len(top) - k
       /\ \A i \in 1..Len(rows) : rows[i] = top[k + i]
  <2>1. k \in 1..Cardinality(all)
    BY <1>3, <1>5
  <2>2. Splits(query, all, top, k, rest, rows)
    BY <1>1, <1>2, <1>7, <1>9, <2>1 DEF Splits
  <2>. QED
    BY <2>2, RestOfRanking
<1>11. page = Page(query, rows)
  BY <1>8, <1>9 DEF AnswerNow
<1>12. PageSize \in Nat /\ PageSize >= 1
  BY PageAssumption
<1>13. ASSUME NEW items \in Seq(Notes), Len(items) <= Len(rows),
              \A i \in 1..Len(items) : items[i] = rows[i]
       PROVE  /\ Len(list \o items) = k + Len(items) /\ k + Len(items) <= Len(top)
              /\ \A i \in 1..(k + Len(items)) : (list \o items)[i] = top[i]
  <2>1. PICK more : more = list \o items
    OBVIOUS
  <2>2. /\ Len(more) = k + Len(items) /\ Len(items) \in Nat
        /\ \A i \in 1..k : more[i] = list[i]
        /\ \A i \in 1..Len(items) : more[k + i] = items[i]
    BY <1>4, <2>1
  <2>3. k + Len(items) <= Len(top)
    BY <1>3, <1>10, <1>13, <2>2
  <2>4. ASSUME NEW i \in 1..(k + Len(items)) PROVE more[i] = top[i]
    <3>1. CASE i <= k
      <4>1. i \in 1..k
        BY <3>1
      <4>. QED
        BY <1>5, <2>2, <4>1
    <3>2. CASE i > k
      <4>1. PICK j \in 1..Len(items) : i = k + j
        <5>1. i - k \in 1..Len(items) /\ i = k + (i - k)
          BY <2>2, <3>2
        <5>. QED
          BY <5>1
      <4>2. j \in 1..Len(rows)
        BY <1>3, <1>10, <1>13, <2>2
      <4>. QED
        BY <1>10, <1>13, <2>2, <4>1, <4>2
    <3>. QED
      BY <3>1, <3>2
  <2>. QED
    BY <2>1, <2>2, <2>3, <2>4
<1>14. CASE Len(rows) <= PageSize
  <2>1. page.items = rows /\ page.next = NoCursor
    BY <1>10, <1>11, <1>14, PageOf
  <2>2. /\ Len(list \o rows) = Len(top)
        /\ \A i \in 1..Len(top) : (list \o rows)[i] = top[i]
    <3>1. k + Len(rows) = Len(top) /\ Len(rows) <= Len(rows)
      BY <1>3, <1>10
    <3>. QED
      BY <1>10, <1>13, <3>1
  <2>. QED
    BY <1>2, <1>3, <1>10, <2>1, <2>2 DEF TopOf
<1>15. CASE Len(rows) > PageSize
  <2>1. PICK items : items = SubSeq(rows, 1, PageSize)
    OBVIOUS
  <2>2. PICK next : next = CursorAt(query, rows[PageSize])
    OBVIOUS
  <2>3. /\ items \in Seq(Notes) /\ Len(items) = PageSize /\ rows[PageSize] \in Notes
        /\ \A i \in 1..PageSize : items[i] = rows[i]
        /\ page = [items |-> items, age |-> changes, next |-> next]
    BY <1>10, <1>11, <1>15, <2>1, <2>2, PageOf
  <2>4. next # NoCursor
    BY <2>2, <2>3, CursorNamesNote
  <2>5. page.items = items /\ page.next = next
    BY <2>3
  <2>6. Len(items) <= Len(rows) /\ Len(rows) \in Nat
    BY <1>3, <1>10, <1>12, <1>15, <2>3
  <2>7. PICK more : more = list \o items
    OBVIOUS
  <2>8. /\ Len(more) = k + PageSize /\ k + PageSize <= Len(top)
        /\ \A i \in 1..(k + PageSize) : more[i] = top[i]
    BY <1>13, <2>3, <2>6, <2>7
  <2>9. PageSize \in 1..Len(rows)
    BY <1>12, <1>15, <2>6
  <2>10. more[Len(more)] = rows[PageSize] /\ Len(more) >= 1
    <3>1. k + PageSize \in 1..(k + PageSize)
      BY <1>12
    <3>2. more[k + PageSize] = top[k + PageSize]
      BY <2>8, <3>1
    <3>3. rows[PageSize] = top[k + PageSize]
      BY <1>10, <2>9
    <3>. QED
      BY <1>12, <2>8, <3>2, <3>3
  <2>11. next = CursorAt(query, more[Len(more)])
    BY <2>2, <2>10
  <2>12. TopOf(query, more, next)
    BY <1>2, <2>4, <2>8, <2>10, <2>11 DEF TopOf
  <2>. QED
    BY <2>3, <2>5, <2>7, <2>12
<1>. QED
  BY <1>3, <1>10, <1>12, <1>14, <1>15

(* All pages that are shown are of the collection as it is.                 *)
Current == pages # {} /\ \A p \in pages : p.age = changes

(* An answer in flight that is as old as the collection is what the server  *)
(* would answer now.                                                        *)
AnswerIsTop(r) ==
  /\ r.kind = "initial" <=> r.cursor = NoCursor
  /\ r.answer.age <= changes
  /\ r.answer.age = changes => r.answer = AnswerNow(r.query, r.cursor)

PagesInv ==
  /\ pages = {} => state.next = NoCursor
  /\ \A p \in pages : p.age \in Int /\ p.age <= changes
  /\ \A r \in requests : AnswerIsTop(r)
  /\ Current => TopOf(state.query, state.shown, state.next)

LEMMA TopStays ==
  ASSUME UNCHANGED server, NEW query, NEW list, NEW next, TopOf(query, list, next)
  PROVE  TopOf(query, list, next)'
  BY SameRanking, SameOrder DEF TopOf

LEMMA AnswerStaysTop ==
  ASSUME Typed, UNCHANGED server, NEW r, AnswerIsTop(r)
  PROVE  AnswerIsTop(r)'
<1>1. PICK query, cursor : query = r.query /\ cursor = r.cursor
  OBVIOUS
<1>2. AnswerNow(query, cursor)' = AnswerNow(query, cursor)
  BY SameAnswer
<1>3. AnswerNow(r.query, r.cursor)' = AnswerNow(r.query, r.cursor)
  BY <1>1, <1>2
<1>4. changes' = changes
  BY DEF server
<1>. QED
  BY <1>3, <1>4 DEF AnswerIsTop

(* A change of the collection makes all pages old.                          *)
LEMMA PagesGrowOld ==
  ASSUME Typed, PagesInv, changes' = changes + 1, UNCHANGED <<state, requests, pages>>
  PROVE  PagesInv'
<1>1. changes \in Int
  BY BoundsAssumption DEF Typed, ServerTyped
<1>2. \A p \in pages' : p.age \in Int /\ p.age <= changes' /\ p.age # changes'
  BY <1>1 DEF PagesInv
<1>3. ASSUME NEW r \in requests' PROVE AnswerIsTop(r)'
  <2>1. r.answer.age \in Int
    BY DEF Typed, ClientTyped, Requests, Answers
  <2>2. (r.kind = "initial" <=> r.cursor = NoCursor) /\ r.answer.age <= changes
    BY DEF PagesInv, AnswerIsTop
  <2>3. r.answer.age <= changes' /\ r.answer.age # changes'
    BY <1>1, <2>1, <2>2
  <2>. QED
    BY <2>2, <2>3 DEF AnswerIsTop
<1>4. ~Current'
  BY <1>2 DEF Current
<1>5. pages' = {} => state'.next = NoCursor
  BY DEF PagesInv
<1>. QED
  BY <1>2, <1>3, <1>4, <1>5 DEF PagesInv

(* What is asked has no answer yet.                                         *)
TopOrMore(kind, cursor) == kind = "initial" <=> cursor = NoCursor

LEMMA AskIsTop ==
  ASSUME Typed, PagesInv, UNCHANGED server, NEW kind, NEW query, NEW cursor, NEW count,
         Ask(kind, query, cursor, count), TopOrMore(kind, cursor)
  PROVE  \A r \in requests' : AnswerIsTop(r)'
<1>1. PICK new : new = [kind |-> kind, version |-> version + 1, query |-> query,
                        cursor |-> cursor, count |-> count, answer |-> NoAnswer]
  OBVIOUS
<1>2. requests' = requests \cup {new}
  BY <1>1 DEF Ask
<1>3. changes' \in Nat
  BY BoundsAssumption DEF Typed, ServerTyped, server
<1>4. new.answer.age = -1
  BY <1>1 DEF NoAnswer
<1>5. new.answer.age <= changes' /\ new.answer.age # changes'
  BY <1>3, <1>4
<1>6. new.kind = "initial" <=> new.cursor = NoCursor
  BY <1>1 DEF TopOrMore
<1>7. AnswerIsTop(new)'
  BY <1>5, <1>6 DEF AnswerIsTop
<1>. QED
  BY <1>2, <1>7, AnswerStaysTop DEF PagesInv

LEMMA LoadIsTop ==
  ASSUME Typed, PagesInv, NEW found, LoadOn(found)
  PROVE  \A r \in requests' : AnswerIsTop(r)'
<1>1. PICK kind, query, cursor, count :
        kind = "initial" /\ query = found.query /\ cursor = NoCursor /\ count = 0
  OBVIOUS
<1>2. Ask(kind, query, cursor, count) /\ UNCHANGED server
  BY <1>1 DEF LoadOn
<1>3. TopOrMore(kind, cursor)
  BY <1>1 DEF TopOrMore
<1>. QED
  BY <1>2, <1>3, AskIsTop

(* The list and its pages as they were.                                     *)
LEMMA ListStaysTop ==
  ASSUME PagesInv, UNCHANGED server, pages' = pages, state'.query = state.query,
         state'.shown = state.shown, state'.next = state.next
  PROVE  /\ pages' = {} => state'.next = NoCursor
         /\ \A p \in pages' : p.age \in Int /\ p.age <= changes'
         /\ Current' => TopOf(state.query, state.shown, state.next)'
<1>1. changes' = changes
  BY DEF server
<1>2. Current' <=> Current
  BY <1>1 DEF Current
<1>3. PICK query, shown, next : query = state.query /\ shown = state.shown /\ next = state.next
  OBVIOUS
<1>4. Current => TopOf(query, shown, next)'
  BY <1>3, TopStays DEF PagesInv
<1>5. Current => TopOf(state.query, state.shown, state.next)'
  <2>1. state'.query = query /\ state'.shown = shown /\ state'.next = next
    BY <1>3
  <2>. QED
    BY <1>4, <2>1 DEF TopOf
<1>. QED
  BY <1>1, <1>2, <1>5 DEF PagesInv

LEMMA PagesInit == Init => PagesInv
<1>. SUFFICES ASSUME Init PROVE PagesInv
  OBVIOUS
<1>1. pages = {} /\ requests = {} /\ state.next = NoCursor
  BY DEF Init, Blank
<1>. QED
  BY <1>1 DEF PagesInv, Current

(* Every cursor that is asked with carries the score its page ended at.     *)
CursorsExact == \A r \in requests : r.cursor.drift = 0

LEMMA PagesNext == Typed /\ PagesInv /\ CursorsExact /\ [Next]_vars => PagesInv'
<1>. SUFFICES ASSUME Typed, PagesInv, CursorsExact, [Next]_vars PROVE PagesInv'
  OBVIOUS
<1>a. state \in States
  BY DEF Typed, ClientTyped
<1>b. ASSUME UNCHANGED server PROVE \A r \in requests : AnswerIsTop(r)'
  BY <1>b, AnswerStaysTop DEF PagesInv
<1>1. CASE NoteArrives \/ NoteDeleted \/ NoteEdited
  <2>1. changes' = changes + 1 /\ UNCHANGED <<state, requests, pages>>
    BY <1>1 DEF NoteArrives, NoteDeleted, NoteEdited, Change
  <2>. QED
    BY <2>1, PagesGrowOld
<1>2. CASE LoadInitial
  <2>1. PICK found : found = state
    OBVIOUS
  <2>2. LoadOn(found)
    BY <1>2, <2>1 DEF LoadInitial
  <2>3. /\ state'.query = state.query /\ state'.shown = state.shown /\ state'.next = state.next
        /\ pages' = pages /\ UNCHANGED server
    BY <1>a, <1>2 DEF LoadInitial, LoadOn, States
  <2>. QED
    BY <2>2, <2>3, LoadIsTop, ListStaysTop DEF PagesInv
<1>3. CASE Refresh
  <2>1. PICK found : found = Blank(state.query)
    OBVIOUS
  <2>2. LoadOn(found) /\ pages' = {}
    BY <1>3, <2>1 DEF Refresh
  <2>3. state'.next = NoCursor
    BY <2>1, <2>2 DEF LoadOn, Blank
  <2>4. ~Current'
    BY <2>2 DEF Current
  <2>. QED
    BY <2>2, <2>3, <2>4, LoadIsTop DEF PagesInv
<1>4. ASSUME NEW query \in Queries, Search(query) PROVE PagesInv'
  <2>1. PICK found : found = Blank(query)
    OBVIOUS
  <2>2. LoadOn(found) /\ pages' = {}
    BY <1>4, <2>1 DEF Search
  <2>3. state'.next = NoCursor
    BY <2>1, <2>2 DEF LoadOn, Blank
  <2>4. ~Current'
    BY <2>2 DEF Current
  <2>. QED
    BY <2>2, <2>3, <2>4, LoadIsTop DEF PagesInv
<1>5. CASE LoadMore
  <2>1. /\ state'.query = state.query /\ state'.shown = state.shown /\ state'.next = state.next
        /\ pages' = pages /\ UNCHANGED server
    BY <1>a, <1>5 DEF LoadMore, States
  <2>2. PICK kind, query, cursor, count :
          kind = "more" /\ query = state.query /\ cursor = state.next /\ count = Len(state.shown)
    OBVIOUS
  <2>3. Ask(kind, query, cursor, count) /\ cursor # NoCursor
    BY <1>5, <2>2 DEF LoadMore
  <2>4. \A r \in requests' : AnswerIsTop(r)'
    <3>1. TopOrMore(kind, cursor)
      BY <2>2, <2>3 DEF TopOrMore
    <3>. QED
      BY <2>1, <2>3, <3>1, AskIsTop
  <2>. QED
    BY <2>1, <2>4, ListStaysTop DEF PagesInv
<1>6. ASSUME NEW r \in requests, ServerAnswers(r) PROVE PagesInv'
  <2>1. r \in Requests /\ AnswerIsTop(r)
    BY DEF Typed, ClientTyped, PagesInv
  <2>2. /\ state'.query = state.query /\ state'.shown = state.shown /\ state'.next = state.next
        /\ pages' = pages /\ UNCHANGED server
    BY <1>6 DEF ServerAnswers
  <2>3. PICK query, cursor : query = r.query /\ cursor = r.cursor
    OBVIOUS
  <2>4. PICK page : page = AnswerNow(query, cursor)
    OBVIOUS
  <2>5. requests' = (requests \ {r}) \cup {[r EXCEPT !.answer = page]}
    BY <1>6, <2>3, <2>4 DEF ServerAnswers, AnswerNow
  <2>6. page.age = changes
    BY <2>4 DEF AnswerNow, Page
  <2>7. PICK new : new = [r EXCEPT !.answer = page]
    OBVIOUS
  <2>8. AnswerIsTop(new)
    <3>1. /\ new.kind = r.kind /\ new.cursor = cursor /\ new.query = query
          /\ new.answer = page
      BY <2>1, <2>3, <2>7 DEF Requests
    <3>2. changes <= changes
      BY BoundsAssumption DEF Typed, ServerTyped
    <3>. QED
      BY <2>1, <2>3, <2>4, <2>6, <3>1, <3>2 DEF AnswerIsTop
  <2>9. AnswerIsTop(new)'
    BY <2>2, <2>8, AnswerStaysTop
  <2>10. \A q \in requests' : AnswerIsTop(q)'
    BY <1>b, <2>2, <2>5, <2>7, <2>9
  <2>. QED
    BY <2>2, <2>10, ListStaysTop DEF PagesInv
<1>7. ASSUME NEW r \in requests, InitialArrives(r) PROVE PagesInv'
  <2>1. r \in Requests /\ AnswerIsTop(r) /\ UNCHANGED server /\ changes' = changes
    BY <1>7 DEF Typed, ClientTyped, PagesInv, InitialArrives, server
  <2>2. \A q \in requests' : AnswerIsTop(q)'
    BY <1>b, <1>7, <2>1 DEF InitialArrives
  <2>3. CASE ~IsCurrentRequest(r)
    <3>1. state' = state /\ pages' = pages
      BY <1>7, <2>3 DEF InitialArrives
    <3>. QED
      BY <2>1, <2>2, <3>1, ListStaysTop DEF PagesInv
  <2>4. CASE IsCurrentRequest(r)
    <3>1. /\ state' = [Blank(r.query) EXCEPT !.shown = r.answer.items, !.next = r.answer.next]
          /\ pages' = {[query |-> r.query, age |-> r.answer.age]}
      BY <1>7, <2>4 DEF InitialArrives
    <3>2. PICK query, page : query = r.query /\ page = r.answer
      OBVIOUS
    <3>3. state'.query = query /\ state'.shown = page.items /\ state'.next = page.next
      BY <3>1, <3>2 DEF Blank
    <3>4. r.cursor = NoCursor
      BY <1>7, <2>1 DEF InitialArrives, AnswerIsTop
    <3>5. page.age = changes => TopOf(query, page.items, page.next)'
      <4>. SUFFICES ASSUME page.age = changes PROVE TopOf(query, page.items, page.next)'
        OBVIOUS
      <4>1. PICK cursor : cursor = NoCursor
        OBVIOUS
      <4>2. page = AnswerNow(query, NoCursor)
        BY <2>1, <3>2, <3>4 DEF AnswerIsTop
      <4>3. PICK items, next : items = page.items /\ next = page.next
        OBVIOUS
      <4>4. TopOf(query, items, next)
        BY <4>2, <4>3, TopPage DEF Typed
      <4>5. TopOf(query, items, next)'
        BY <2>1, <4>4, TopStays
      <4>. QED
        BY <4>3, <4>5
    <3>6. Current' => TopOf(state.query, state.shown, state.next)'
      <4>1. Current' => page.age = changes
        BY <2>1, <3>1, <3>2 DEF Current
      <4>2. TopOf(query, page.items, page.next)' => TopOf(state.query, state.shown, state.next)'
        BY <3>3 DEF TopOf
      <4>. QED
        BY <3>5, <4>1, <4>2
    <3>7. page.age \in Int /\ page.age <= changes'
      BY <2>1, <3>2 DEF Requests, Answers, AnswerIsTop
    <3>8. /\ pages' # {}
          /\ \A p \in pages' : p.age \in Int /\ p.age <= changes'
      BY <3>1, <3>2, <3>7
    <3>. QED
      BY <2>2, <3>6, <3>8 DEF PagesInv
  <2>. QED
    BY <2>3, <2>4
<1>8. ASSUME NEW r \in requests, MoreArrives(r) PROVE PagesInv'
  <2>1. r \in Requests /\ AnswerIsTop(r) /\ UNCHANGED server /\ changes' = changes
    BY <1>8 DEF Typed, ClientTyped, PagesInv, MoreArrives, server
  <2>2. \A q \in requests' : AnswerIsTop(q)'
    BY <1>b, <1>8, <2>1 DEF MoreArrives
  <2> DEFINE fits == IsCurrentRequest(r) /\ state.next = r.cursor /\ Len(state.shown) = r.count
  <2>3. CASE ~fits
    <3>1. state' = state /\ pages' = pages
      BY <1>8, <2>3 DEF MoreArrives
    <3>. QED
      BY <2>1, <2>2, <3>1, ListStaysTop DEF PagesInv
  <2>4. CASE fits
    <3>1. /\ state' = [state EXCEPT !.shown = @ \o r.answer.items, !.next = r.answer.next,
                                    !.more = FALSE, !.error = FALSE]
          /\ pages' = pages \cup {[query |-> r.query, age |-> r.answer.age]}
          /\ state.query = r.query /\ state.next = r.cursor
      BY <1>8, <2>4 DEF MoreArrives, IsCurrentRequest
    <3>2. PICK query, cursor, page, list :
            query = r.query /\ cursor = r.cursor /\ page = r.answer /\ list = state.shown
      OBVIOUS
    <3>3. state'.query = query /\ state'.shown = list \o page.items /\ state'.next = page.next
      BY <1>a, <3>1, <3>2 DEF States
    <3>4. cursor # NoCursor /\ cursor.drift = 0 /\ list \in Seq(Notes)
      <4>1. r.kind # "initial"
        BY <1>8 DEF MoreArrives
      <4>2. r.cursor # NoCursor
        BY <2>1, <4>1 DEF AnswerIsTop
      <4>. QED
        BY <1>a, <3>2, <4>2 DEF CursorsExact, States
    <3>5. pages # {}
      BY <3>1, <3>2, <3>4 DEF PagesInv
    <3>6. PICK it : it = [query |-> r.query, age |-> r.answer.age]
      OBVIOUS
    <3>7. pages' = pages \cup {it} /\ it.age = page.age
      BY <3>1, <3>2, <3>6
    <3>8. ASSUME Current' PROVE TopOf(state.query, state.shown, state.next)'
      <4>1. Current /\ page.age = changes
        BY <2>1, <3>5, <3>8, <3>7 DEF Current
      <4>2. TopOf(query, list, cursor)
        BY <3>1, <3>2, <4>1 DEF PagesInv
      <4>3. page = AnswerNow(query, cursor)
        BY <2>1, <3>2, <4>1 DEF AnswerIsTop
      <4>4. TopOf(query, list \o page.items, page.next)
        BY <3>4, <4>2, <4>3, NextPage DEF Typed
      <4>5. PICK items, next : items = list \o page.items /\ next = page.next
        OBVIOUS
      <4>6. TopOf(query, items, next)'
        BY <2>1, <4>4, <4>5, TopStays
      <4>7. state'.query = query /\ state'.shown = items /\ state'.next = next
        BY <3>3, <4>5
      <4>. QED
        BY <4>6, <4>7 DEF TopOf
    <3>9. page.age \in Int /\ page.age <= changes'
      BY <2>1, <3>2 DEF Requests, Answers, AnswerIsTop
    <3>10. /\ pages' # {}
          /\ \A p \in pages' : p.age \in Int /\ p.age <= changes'
      BY <2>1, <3>9, <3>7 DEF PagesInv
    <3>. QED
      BY <2>2, <3>8, <3>10 DEF PagesInv
  <2>. QED
    BY <2>3, <2>4
<1>9. ASSUME NEW r \in requests, RequestFails(r) PROVE PagesInv'
  <2>1. /\ state'.query = state.query /\ state'.shown = state.shown /\ state'.next = state.next
        /\ pages' = pages /\ UNCHANGED server
    BY <1>a, <1>9 DEF RequestFails, States
  <2>2. \A q \in requests' : AnswerIsTop(q)'
    BY <1>b, <1>9, <2>1 DEF RequestFails
  <2>. QED
    BY <2>1, <2>2, ListStaysTop DEF PagesInv
<1>10. CASE UNCHANGED vars
  <2>1. UNCHANGED server /\ state' = state /\ pages' = pages /\ requests' = requests
    BY <1>10 DEF vars
  <2>. QED
    BY <1>b, <2>1, ListStaysTop DEF PagesInv
<1>. QED
  BY <1>1, <1>2, <1>3, <1>4, <1>5, <1>6, <1>7, <1>8, <1>9, <1>10 DEF Next, Arrives

LEMMA PagesAreRanked == ServerTyped /\ PagesInv => PagesFollowRanking
<1>. SUFFICES ASSUME ServerTyped, PagesInv, Current
              PROVE  /\ IsPrefix(state.shown, Ranking(state.query))
                     /\ state.next = NoCursor =>
                          Len(state.shown) = Cardinality(Collection(state.query))
  BY DEF PagesFollowRanking, Current
<1>1. PICK query, all, top : /\ query = state.query /\ all = Collection(query)
                             /\ top = Arranged(query, all)
  OBVIOUS
<1>2. top = Ranking(state.query)
  BY <1>1 DEF Ranking
<1>3. Len(top) = Cardinality(all)
  BY <1>1, RowCounts
<1>4. /\ Len(state.shown) <= Len(top) /\ \A i \in 1..Len(state.shown) : state.shown[i] = top[i]
      /\ state.next = NoCursor => Len(state.shown) = Len(top)
  BY <1>2 DEF PagesInv, TopOf
<1>5. SubSeq(state.shown, 1, Len(state.shown)) = SubSeq(top, 1, Len(state.shown))
  BY <1>4
<1>. QED
  BY <1>1, <1>2, <1>3, <1>4, <1>5 DEF IsPrefix

(* While the collection stays as it is, the pages of a search are the fused *)
(* ranking from its top, no note left out or shown twice, in whatever order *)
(* requests are made, answered, lost and overtaken: unless the score of a   *)
(* cursor came back with another last digit.  The condition names what      *)
(* goes wrong in the code, and that nothing else does.                      *)
THEOREM SearchFollowsRanking == Spec /\ []CursorsExact => []PagesFollowRanking
<1>1. Typed /\ PagesInv => PagesFollowRanking
  BY PagesAreRanked DEF Typed
<1>. QED
  BY <1>1, PagesInit, PagesNext, TypedAlways, PTL DEF Spec

=============================================================================
