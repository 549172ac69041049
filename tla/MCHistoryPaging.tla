---------------------------- MODULE MCHistoryPaging ----------------------------
(***************************************************************************)
(* The instances of HistoryPaging.                                         *)
(***************************************************************************)
EXTENDS HistoryPaging

(* Three notes, and three orders a search may find them in: two that rank   *)
(* them against each other, so that scores tie, and one that misses a note. *)
MCRankings == {<<1, 2, 3>>, <<3, 2, 1>>, <<2, 1>>}

(* Two notes match by keyword, and one order of all fifty-two by distance.  *)
MCFiftyTwo == {<<2, 1>>, [i \in 1..52 |-> 53 - i]}

(* What 1/(60+k) + 1/(60+s), printed with the fewest digits that tell it    *)
(* from its neighbours, becomes when its digits are read as a 64-bit        *)
(* integer, rounded to a float and divided by a power of ten: all pairs     *)
(* with k <= 2 and s <= 52 that do not come back as they were.              *)
MCRoundedUp ==
    {<<0, 29>>, <<0, 46>>, <<0, 48>>, <<1, 37>>, <<1, 49>>,
     <<2, 23>>, <<2, 27>>, <<2, 35>>, <<2, 40>>, <<2, 50>>}

MCRoundedDown ==
    {<<0, 5>>, <<0, 10>>, <<0, 11>>, <<0, 25>>, <<0, 34>>, <<0, 41>>,
     <<0, 43>>, <<0, 49>>, <<0, 51>>, <<1, 35>>, <<2, 21>>}

=============================================================================
