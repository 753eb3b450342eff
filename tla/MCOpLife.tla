------------------------------ MODULE MCOpLife ------------------------------
(* OpLife with two agents and two requests of each. *)
EXTENDS OpLife, TLC

CONSTANTS a1, a2, r1, r2, r3, r4
MCAgents   == {a1, a2}
MCRequests == {r1, r2, r3, r4}
MCBy       == (r1 :> a1) @@ (r2 :> a1) @@ (r3 :> a2) @@ (r4 :> a2)

\* Requests of one agent are interchangeable.
Symmetry == {p @@ q : p \in Permutations({r1, r2}), q \in Permutations({r3, r4})}
=============================================================================
