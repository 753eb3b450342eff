---------------------------- MODULE MCMembership ----------------------------
(* Membership with two agents and two handlers. *)
EXTENDS Membership, TLC

CONSTANTS a1, a2, h1, h2
MCAgents   == {a1, a2}
MCHandlers == {h1, h2}

\* Agents and handlers are interchangeable.
Symmetry == {p @@ q : p \in Permutations(MCAgents), q \in Permutations(MCHandlers)}
=============================================================================
