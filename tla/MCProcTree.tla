----------------------------- MODULE MCProcTree -----------------------------
(***************************************************************************)
(* Small instances of the process tree for TLC.                            *)
(***************************************************************************)
EXTENDS ProcTree, TLC

Fl(signal, parent, thread, vfork) ==
    [signal |-> signal, parent |-> parent, thread |-> thread, vfork |-> vfork]

MCFlags == {Fl("SIGCHLD", FALSE, FALSE, FALSE), Fl("SIGCHLD", FALSE, TRUE, FALSE),
            Fl("other", FALSE, FALSE, FALSE), Fl("other", TRUE, FALSE, FALSE),
            Fl("SIGCHLD", FALSE, FALSE, TRUE)}

MCOptions == {AnyChild, [AnyChild EXCEPT !.clone = TRUE]}

Symmetry == Permutations(Tasks \ {child_reaper})

=============================================================================
