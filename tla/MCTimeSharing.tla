--------------------------- MODULE MCTimeSharing ---------------------------
(***************************************************************************)
(* Small instances of the time sharing for TLC.                            *)
(***************************************************************************)
EXTENDS TimeSharing, TLC

\* Cfg files cannot write negative numbers.
MCNices == {-20, 0}

Pair == CHOOSE S \in SUBSET Tasks : Cardinality(S) = 2

\* Three tasks of one nice value that yield, two that call what there is.
MCWorlds ==
    [calls : {{"yield"}}, tasks : {Tasks}, nices : {{0}}] \cup
    [calls : {{"nice"}, {"nice_another"}}, tasks : {Pair}, nices : {Nices}] \cup
    [calls : {{"setscheduler", "yield"}}, tasks : {Pair}, nices : {{0}}]

=============================================================================
