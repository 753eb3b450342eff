------------------------------ MODULE MCOpEdit ------------------------------
(* OpEdit on a small operation: two portals, a marker and a link. *)
EXTENDS OpEdit, TLC

CONSTANTS c1, c2, p1, p2, m1, l1

MCClients == {c1, c2}
MCPortals == {p1, p2}
MCMarkers == {m1}
MCLinks   == {l1}
MCAnchors == (m1 :> {p1}) @@ (l1 :> {p1, p2})

\* An empty body, one without links, one whose marker stands on a portal it
\* does not list, and one that sends the link of Linked with From = To.
Empty  == [portals |-> {}, markers |-> {}, links |-> {}, loops |-> {}]
Marked == [portals |-> {p1}, markers |-> {m1}, links |-> {}, loops |-> {}]
Torn   == [portals |-> {p2}, markers |-> {m1}, links |-> {}, loops |-> {}]
Linked == [portals |-> {p1, p2}, markers |-> {}, links |-> {l1}, loops |-> {}]
Looped == [portals |-> {p1}, markers |-> {m1}, links |-> {}, loops |-> {l1}]

MCBodies  == {Looped, Linked, Torn}
TwoBodies == {Marked, Linked}
LiveBodies == {Empty, Marked, Torn}

Symmetry == Permutations(MCClients)
=============================================================================
