------------------------------- MODULE OpDoc -------------------------------
(***************************************************************************)
(* What the operation store promises its clients: an operation is one      *)
(* drawing that is replaced as a whole or removed as a whole.  A drawing   *)
(* is the set of portal, marker and link rows of the operation.  A client  *)
(* submits a body: rows, and links whose two ends are one portal; such a   *)
(* link is not stored, but a row that is there under its ID is kept.  Every*)
(* marker and link of a body stands on portals the body lists; for a kept  *)
(* row nothing of the kind is promised.                                    *)
(***************************************************************************)
CONSTANTS Portals, Markers, Links,
          Anchors,  \* the portals each marker or link stands on
          Bodies    \* the bodies clients submit

Drawing == [portals: SUBSET Portals, markers: SUBSET Markers, links: SUBSET Links]
\* loops: the IDs of the links sent with From = To.
Body == [portals: SUBSET Portals, markers: SUBSET Markers, links: SUBSET Links,
         loops: SUBSET Links]

VARIABLES exists,   \* the operation row is there
          doc       \* its drawing

NoDrawing == [portals |-> {}, markers |-> {}, links |-> {}]

NoBody    == [portals |-> {}, markers |-> {}, links |-> {}, loops |-> {}]

\* The portals every marker and link of b is drawn on are portals of b.
Sound(b) == /\ \A i \in b.markers \cup b.links : Anchors[i] \subseteq b.portals
            /\ b.loops # {} => b.portals # {}

\* The rows b sends, and the rows a save of b leaves where d was.
Rows(b)     == [portals |-> b.portals, markers |-> b.markers, links |-> b.links]
After(d, b) == [portals |-> b.portals, markers |-> b.markers,
                links   |-> b.links \cup (d.links \cap b.loops)]

Init == /\ exists = TRUE
        /\ \E b \in Bodies : Sound(b) /\ doc = Rows(b)

Replace(b) == /\ exists
              /\ Sound(b)
              /\ doc' = After(doc, b)
              /\ UNCHANGED exists

Remove == /\ exists
          /\ exists' = FALSE
          /\ doc' = NoDrawing

Next == \/ \E b \in Bodies : Replace(b)
        \/ Remove

Spec == Init /\ [][Next]_<<exists, doc>>
=============================================================================
