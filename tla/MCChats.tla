------------------------------ MODULE MCChats ------------------------------
(* Chats with few of everything. *)
EXTENDS Chats, TLC

CONSTANTS a1, a2, x1, x2, c1, c2, t1, t2, h1, h2
MCAgents   == {a1, a2}
MCPersons  == {x1}
MCTeams    == {t1, t2}
MCChats    == {c1, c2}
MCHandlers == {h1}
MCRosters  == {MCAgents}

Symmetry == {p @@ q @@ r : p \in Permutations(MCAgents), q \in Permutations(MCTeams), r \in Permutations(MCChats)}
=============================================================================
