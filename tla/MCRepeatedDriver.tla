-------------------------- MODULE MCRepeatedDriver --------------------------
(***************************************************************************)
(* Small instances of the driver for TLC.                                  *)
(***************************************************************************)
EXTENDS RepeatedDriver, TLC

\* Cfg files cannot write sequences and negative numbers.  The last string has
\* two letters, so that its parts and its order show.
MCStrings == {<<>>, <<"a">>, <<"b", "c">>}

MCTwoStrings == {<<"a">>, <<"b", "c">>}

MCShifts == {-2, 1}

\* The driver used with care.
MCCalm == [stress : {{}}, minors : {Minors}, size : {MaxSize}]

MCNoString == [stress : {{"read_without_string"}}, minors : {Minors}, size : {MaxSize}]

\* Without care: one minor, and a write of one byte.
MCWorlds == MCCalm \cup [stress : {Situations, {"rmmod_in_use"}},
                        minors : {{CHOOSE m \in Minors : TRUE}}, size : {1}]

Symmetry == Permutations(Procs) \cup Permutations(Bufs)

=============================================================================
