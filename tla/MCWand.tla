------------------------------- MODULE MCWand -------------------------------
(***************************************************************************)
(* Small instances of the wand system calls for TLC.                       *)
(***************************************************************************)
EXTENDS Wand, TLC

\* Cfg files cannot write negative numbers.
MCPowers == {-1, 1}

MCOnePower == {1}

\* Nothing unexpected; failures; equal secrets; everything at once.  The last
\* two have one process less.
MCWorlds == {[stress |-> {}, nproc |-> 3],
             [stress |-> {"no_list_head", "secret_changes"}, nproc |-> 3],
             [stress |-> {"same_secret"}, nproc |-> 2],
             [stress |-> Situations, nproc |-> 2]}

MCDeadTarget == {[stress |-> {"dead_target"}, nproc |-> 3]}

Symmetry == Permutations(Procs) \cup Permutations(Secrets)

=============================================================================
