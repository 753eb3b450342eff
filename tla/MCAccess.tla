------------------------------ MODULE MCAccess ------------------------------
(* Access with two agents and one team. *)
EXTENDS Access, TLC

CONSTANTS a1, a2, t1, t2, h1, h2
MCAgents   == {a1, a2}
MCTeams    == {t1}
MCHandlers == {h1, h2}

Row(t, r, z) == [team |-> t, role |-> r, zone |-> z]
\* Every role.
MCGrantable == {Row(t1, "read", 1), Row(t1, "write", 0), Row(t1, "assignedonly", 0)}

Symmetry == {p @@ q : p \in Permutations(MCAgents), q \in Permutations(MCHandlers)}
=============================================================================
