---------------------------- MODULE MCTaskBoard ----------------------------
(* TaskBoard with a few agents. *)
EXTENDS TaskBoard, TLC

CONSTANTS a1, a2

TwoAgents == {a1, a2}

\* Every kind of list: empty, the empty GoogleID alone or with others, one or
\* both agents, an unknown GoogleID.
MCLists == {{}, {NoGid}, {a1}, {a2}, {a1, a2}, {a1, NoGid}, {a2, NoGid}, {a1, a2, Stranger}}

PlainLists == {{}, {NoGid}, {a1}, {a2}, {a1, a2}}

Symmetry == Permutations(TwoAgents)
=============================================================================
