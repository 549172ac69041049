------------------------- MODULE MCVoiceNoteSubstrate -------------------------
(***************************************************************************)
(* VoiceNoteSubstrate on small instances: no definition singles out an     *)
(* owner, an id, a name or a connection, so all are interchangeable.       *)
(***************************************************************************)
EXTENDS VoiceNoteSubstrate, TLC

Interchangeable ==
    Permutations(Owners) \cup Permutations(Bodies) \cup Permutations(SessionIds)
        \cup Permutations(TagIds) \cup Permutations(Folds) \cup Permutations(Connections)

=============================================================================
