--------------------------- MODULE TaskBoard_proofs ---------------------------
(***************************************************************************)
(* Theorems about TaskBoard, for any agents and assignment lists: the type *)
(* invariant and CommitsWhatWasAsked.                                      *)
(* CommitsWhatWasAsked needs the invariant of SetAssignments' loop: of a   *)
(* request whose reads are still true, the local map names who is assigned *)
(* and has not been met on the list, and the rows to insert are those of   *)
(* the agents met there who are not assigned (LoopInv); after the loop the *)
(* rows to delete are those of the agents the list does not name (DoneInv).*)
(***************************************************************************)
EXTENDS TaskBoard, TLAPS

Met(r) == r.asked \ r.todo

\* The loop over the list, then the rows of who is left over.
LoopInv(r) == /\ r.todo \subseteq r.asked
              /\ r.before = Assigned \ Met(r)
              /\ r.ins = (Met(r) \cap Agents) \ Assigned
DoneInv(r) == /\ r.ins = (r.asked \cap Agents) \ Assigned
              /\ r.del = Assigned \ r.asked \/ (r.asked = {} /\ r.del = Agents)

FreshInv(a) == /\ req[a].at = "row" => LoopInv(req[a])
               /\ req[a].at = "commit" => DoneInv(req[a])

IInv == TypeOK /\ \A a \in Agents \ disturbed : FreshInv(a)

\* The request of agent a becomes r, nobody else's changes.
Becomes(a, r) == req' = [req EXCEPT ![a] = r]
-----------------------------------------------------------------------------
LEMMA BecomesType ==
  ASSUME TypeOK, NEW a \in Agents, NEW r \in Request, Becomes(a, r)
  PROVE  /\ req' \in [Agents -> Request]
         /\ req'[a] = r
         /\ \A b \in Others(a) : req'[b] = req[b]
BY DEF TypeOK, Becomes, Others

LEMMA GotoBecomes ==
  ASSUME TypeOK, NEW a \in Agents, NEW l \in {"idle", "claimed", "rejected"}, Goto(a, l)
  PROVE  \E r \in Request : r.at = l /\ Becomes(a, r)
<1> DEFINE r == [req[a] EXCEPT !.at = l]
<1>1. r \in Request /\ r.at = l
  BY DEF TypeOK, Request
<1> QED BY <1>1 DEF Goto, Becomes

LEMMA NoRequestType == NoRequest \in Request /\ NoRequest.at = "idle"
BY DEF NoRequest, Request, States

\* A step that leaves the rows alone, and of which the request of a keeps what
\* its loop knows.
LEMMA SameRows ==
  ASSUME IInv, NEW a \in Agents, NEW r \in Request, Becomes(a, r),
         UNCHANGED rows, up' \in BOOLEAN, state' \in States, disturbed' \subseteq Agents,
         disturbed \ {a} \subseteq disturbed',
         a \in disturbed' \/ ((r.at = "row" => LoopInv(r)) /\ (r.at = "commit" => DoneInv(r)))
  PROVE  IInv'
<1>1. TypeOK'
  BY BecomesType DEF IInv, TypeOK
<1>2. Assigned' = Assigned
  BY DEF Assigned
<1>3. ASSUME NEW b \in Agents \ disturbed' PROVE FreshInv(b)'
  <2>1. CASE b = a
    BY <1>2, <1>3, <2>1, BecomesType DEF IInv, FreshInv, LoopInv, DoneInv, Met
  <2>2. CASE b # a
    <3>1. b \in Agents \ disturbed /\ req'[b] = req[b]
      BY <1>3, <2>2, BecomesType DEF IInv, Others
    <3>2. FreshInv(b)
      BY <3>1 DEF IInv
    <3> QED BY <1>2, <3>1, <3>2 DEF FreshInv, LoopInv, DoneInv, Met
  <2> QED BY <2>1, <2>2
<1> QED BY <1>1, <1>3 DEF IInv

\* A step that changes rows: what the others have read is out of date.
LEMMA NewRows ==
  ASSUME IInv, NEW a \in Agents, NEW r \in Request, Becomes(a, r),
         r.at \notin {"row", "commit"},
         rows' \in [Agents -> Nat], up' \in BOOLEAN, state' \in States,
         disturbed' = disturbed \cup Others(a)
  PROVE  IInv'
<1>1. TypeOK'
  BY BecomesType DEF IInv, TypeOK, Others
<1>2. \A b \in Agents \ disturbed' : b = a /\ req'[b] = r
  BY BecomesType DEF IInv, Others
<1> QED BY <1>1, <1>2 DEF IInv, FreshInv
-----------------------------------------------------------------------------
LEMMA InitInv == Init => IInv
<1> SUFFICES ASSUME Init PROVE IInv
  OBVIOUS
<1>1. TypeOK
  BY NoRequestType DEF Init, TypeOK, States
<1>2. \A a \in Agents : req[a].at = "idle"
  BY NoRequestType DEF Init
<1> QED BY <1>1, <1>2 DEF IInv, FreshInv

LEMMA RoutesInv ==
  ASSUME IInv, NEW a \in Agents,
         ClaimRow(a) \/ ClaimState(a) \/ RejectState(a) \/ RejectRows(a) \/ SetState(a)
  PROVE  IInv'
<1> TypeOK
  BY DEF IInv
<1> USE DEF States
<1>1. CASE ClaimRow(a)
  <2>1. PICK r \in Request : r.at = "claimed" /\ Becomes(a, r)
    BY <1>1, GotoBecomes DEF ClaimRow
  <2>2. rows' \in [Agents -> Nat]
    BY <1>1 DEF ClaimRow, TypeOK
  <2> QED BY <1>1, <2>1, <2>2, NewRows DEF ClaimRow, TypeOK
<1>2. CASE ClaimState(a)
  <2>1. PICK r \in Request : r.at = "idle" /\ Becomes(a, r)
    BY <1>2, GotoBecomes DEF ClaimState
  <2> QED BY <1>2, <2>1, SameRows DEF ClaimState, TypeOK
<1>3. CASE RejectState(a)
  <2>1. PICK r \in Request : r.at = "rejected" /\ Becomes(a, r)
    BY <1>3, GotoBecomes DEF RejectState
  <2> QED BY <1>3, <2>1, SameRows DEF RejectState, TypeOK
<1>4. CASE RejectRows(a)
  <2>1. PICK r \in Request : r.at = "idle" /\ Becomes(a, r)
    BY <1>4, GotoBecomes DEF RejectRows
  <2>2. rows' \in [Agents -> Nat]
    BY <1>4 DEF RejectRows, TypeOK
  <2> QED BY <1>4, <2>1, <2>2, NewRows DEF RejectRows, TypeOK
<1>5. CASE SetState(a)
  <2>1. req[a] \in Request /\ Becomes(a, req[a])
    BY <1>5 DEF SetState, TypeOK, Becomes
  <2>2. req[a].at = "idle"
    BY <1>5 DEF SetState, Idle
  <2> QED BY <1>5, <2>1, <2>2, SameRows DEF SetState, TypeOK
<1> QED BY <1>1, <1>2, <1>3, <1>4, <1>5

\* SetAssignments reads who is assigned, and has met nobody yet.
LEMMA BeginInv ==
  ASSUME IInv, NEW a \in Agents, NEW list \in Lists, NEW upd \in States \cup {"keep"},
         Begin(a, list, upd)
  PROVE  IInv'
<1>1. PICK read \in SUBSET Assigned :
        /\ req' = [req EXCEPT ![a] = [NoRequest EXCEPT !.at = "row", !.asked = list, !.todo = list,
                                                       !.before = read, !.upd = upd]]
        /\ disturbed' = IF read = Assigned THEN disturbed \ {a} ELSE disturbed \cup {a}
  BY DEF Begin
<1> DEFINE r == [NoRequest EXCEPT !.at = "row", !.asked = list, !.todo = list,
                                  !.before = read, !.upd = upd]
<1>2. r \in Request
  BY <1>1, ListsType DEF Request, NoRequest, Assigned
<1>3. r.at = "row" /\ (read = Assigned => LoopInv(r))
  BY DEF LoopInv, Met, NoRequest
<1>4. Becomes(a, r)
  BY <1>1 DEF Becomes
<1> HIDE DEF r
<1>5. /\ disturbed' \subseteq Agents /\ disturbed \ {a} \subseteq disturbed'
      /\ read # Assigned => a \in disturbed'
  BY <1>1 DEF IInv, TypeOK
<1>6. a \in disturbed' \/ ((r.at = "row" => LoopInv(r)) /\ (r.at = "commit" => DoneInv(r)))
  BY <1>3, <1>5
<1> QED BY <1>2, <1>4, <1>5, <1>6, SameRows DEF Begin, IInv, TypeOK

LEMMA StartInv ==
  ASSUME IInv, NEW a \in Agents, AssignStart(a) \/ SaveStart(a) \/ UploadStart(a)
  PROVE  IInv'
BY BeginInv DEF AssignStart, SaveStart, UploadStart

\* One name of the list is dealt with.
LEMMA LoopStepInv ==
  ASSUME IInv, NEW a \in Agents, SkipRow(a) \/ KeepRow(a) \/ AddRow(a)
  PROVE  IInv'
<1>1. /\ req[a].at = "row" /\ req[a] \in Request
      /\ UNCHANGED <<up, state, rows, disturbed>>
      /\ a \notin disturbed => LoopInv(req[a])
      /\ up \in BOOLEAN /\ state \in States /\ disturbed \subseteq Agents
  BY DEF SkipRow, KeepRow, AddRow, IInv, TypeOK, FreshInv
<1>2. CASE SkipRow(a)
  <2> DEFINE r == [req[a] EXCEPT !.todo = @ \ {NoGid}]
  <2>1. r \in Request /\ r.at = "row" /\ Becomes(a, r)
    BY <1>1, <1>2 DEF Request, SkipRow, Becomes
  <2>2. a \notin disturbed => LoopInv(r)
    BY <1>1, <1>2, AgentsType DEF SkipRow, Request, LoopInv, Met, Assigned
  <2> HIDE DEF r
  <2> QED BY <1>1, <2>1, <2>2, SameRows
<1>3. CASE KeepRow(a)
  <2>1. PICK g \in req[a].todo \cap req[a].before :
          req' = [req EXCEPT ![a].todo = @ \ {g}, ![a].before = @ \ {g}]
    BY <1>3 DEF KeepRow
  <2> DEFINE r == [req[a] EXCEPT !.todo = @ \ {g}, !.before = @ \ {g}]
  <2>2. r \in Request /\ r.at = "row" /\ Becomes(a, r)
    BY <1>1, <2>1 DEF Request, Becomes, IInv, TypeOK
  <2>3. a \notin disturbed => LoopInv(r)
    BY <1>1, <2>1 DEF Request, LoopInv, Met
  <2> HIDE DEF r
  <2> QED BY <1>1, <2>2, <2>3, SameRows
<1>4. CASE AddRow(a)
  <2>1. PICK g \in (req[a].todo \cap Agents) \ req[a].before :
          req' = [req EXCEPT ![a].todo = @ \ {g}, ![a].ins = @ \cup {g}]
    BY <1>4 DEF AddRow
  <2> DEFINE r == [req[a] EXCEPT !.todo = @ \ {g}, !.ins = @ \cup {g}]
  <2>2. r \in Request /\ r.at = "row" /\ Becomes(a, r)
    BY <1>1, <2>1 DEF Request, Becomes, IInv, TypeOK
  <2>3. a \notin disturbed => LoopInv(r)
    BY <1>1, <2>1 DEF Request, LoopInv, Met
  <2> HIDE DEF r
  <2> QED BY <1>1, <2>2, <2>3, SameRows
<1> QED BY <1>2, <1>3, <1>4

\* The loop is over: who is left in the map goes, or everybody does.
LEMMA LoopEndInv ==
  ASSUME IInv, NEW a \in Agents, DropRows(a) \/ ClearAssignments(a)
  PROVE  IInv'
<1>1. /\ req[a].at = "row" /\ req[a] \in Request
      /\ UNCHANGED <<up, state, rows>>
      /\ a \notin disturbed => LoopInv(req[a])
      /\ up \in BOOLEAN /\ state \in States /\ disturbed \subseteq Agents
  BY DEF DropRows, ClearAssignments, IInv, TypeOK, FreshInv
<1>2. CASE DropRows(a)
  <2> DEFINE r == [req[a] EXCEPT !.at = "commit", !.del = req[a].before]
  <2>1. r \in Request /\ r.at = "commit" /\ Becomes(a, r) /\ UNCHANGED disturbed
    BY <1>1, <1>2 DEF Request, DropRows, Becomes
  <2>2. a \notin disturbed => DoneInv(r)
    BY <1>1, <1>2 DEF DropRows, Request, LoopInv, DoneInv, Met
  <2> HIDE DEF r
  <2> QED BY <1>1, <2>1, <2>2, SameRows
<1>3. ASSUME NEW upd \in {Cleared(req[a].upd), req[a].upd},
             req[a].asked = {}, UNCHANGED disturbed,
             req' = [req EXCEPT ![a].at = "commit", ![a].del = Agents, ![a].upd = upd]
      PROVE  IInv'
  <2> DEFINE r == [req[a] EXCEPT !.at = "commit", !.del = Agents, !.upd = upd]
  <2>1. r \in Request /\ r.at = "commit" /\ Becomes(a, r)
    BY <1>1, <1>3 DEF Request, Becomes, Cleared, States, IInv, TypeOK
  <2>2. a \notin disturbed => DoneInv(r)
    BY <1>1, <1>3 DEF Request, LoopInv, DoneInv, Met
  <2> HIDE DEF r
  <2> QED BY <1>1, <1>3, <2>1, <2>2, SameRows
<1>4. ASSUME NEW upd \in {req[a].upd, "keep"}, disturbed' = disturbed \cup {a},
             req' = [req EXCEPT ![a].at = "commit", ![a].upd = upd]
      PROVE  IInv'
  <2> DEFINE r == [req[a] EXCEPT !.at = "commit", !.upd = upd]
  <2>1. r \in Request /\ Becomes(a, r)
    BY <1>1, <1>4 DEF Request, Becomes, IInv, TypeOK
  <2> HIDE DEF r
  <2>2. disturbed' \subseteq Agents /\ a \in disturbed' /\ disturbed \ {a} \subseteq disturbed'
    BY <1>1, <1>4
  <2> QED BY <1>1, <2>1, <2>2, SameRows
<1>5. CASE ClearAssignments(a)
  BY <1>3, <1>4, <1>5 DEF ClearAssignments
<1> QED BY <1>2, <1>5

LEMMA CommitInv ==
  ASSUME IInv, NEW a \in Agents, Commit(a)
  PROVE  IInv'
<1>1. Becomes(a, NoRequest)
  BY DEF Commit, Becomes
<1>2. state' \in States
  BY DEF Commit, NewState, IInv, TypeOK, Request, States
<1>3. rows' \in [Agents -> Nat]
  BY DEF Commit, IInv, TypeOK
<1>4. CASE rows' = rows
  BY <1>1, <1>2, <1>4, NoRequestType, SameRows DEF Commit, IInv, TypeOK
<1>5. CASE rows' # rows
  <2>1. disturbed' = disturbed \cup Others(a) /\ up' \in BOOLEAN
    BY <1>5 DEF Commit
  <2> QED BY <1>1, <1>2, <1>3, <2>1, NoRequestType, NewRows
<1> QED BY <1>4, <1>5

LEMMA FailInv ==
  ASSUME IInv, NEW a \in Agents, Fail(a)
  PROVE  IInv'
BY NoRequestType, SameRows DEF Fail, Becomes, IInv, TypeOK

LEMMA NextInv == IInv /\ [Next]_vars => IInv'
<1> SUFFICES ASSUME IInv, [Next]_vars PROVE IInv'
  OBVIOUS
<1>1. CASE UNCHANGED vars
  BY <1>1 DEF vars, IInv, TypeOK, FreshInv, LoopInv, DoneInv, Met, Assigned
<1>2. ASSUME NEW a \in Agents,
             \/ ClaimRow(a) \/ ClaimState(a) \/ RejectState(a) \/ RejectRows(a) \/ SetState(a)
             \/ AssignStart(a) \/ SaveStart(a) \/ UploadStart(a)
             \/ SkipRow(a) \/ KeepRow(a) \/ AddRow(a) \/ DropRows(a) \/ ClearAssignments(a)
             \/ Commit(a) \/ Fail(a)
      PROVE  IInv'
  BY <1>2, RoutesInv, StartInv, LoopStepInv, LoopEndInv, CommitInv, FailInv
<1> QED BY <1>1, <1>2 DEF Next

LEMMA Invariant == Spec => []IInv
BY InitInv, NextInv, PTL DEF Spec
-----------------------------------------------------------------------------
(* Theorems *)

\* The task, its rows and the requests' locals keep their types.
THEOREM TypeCorrect == Spec => []TypeOK
<1>1. IInv => TypeOK
  BY DEF IInv
<1> QED BY <1>1, Invariant, PTL

\* What a commit leaves of a request that has read the rows as they are.
LEMMA CommitLeaves ==
  ASSUME IInv, NEW a \in Agents \ disturbed, Commit(a)
  PROVE  Assigned' = req[a].asked \cap Agents
<1>1. DoneInv(req[a]) /\ req[a] \in Request /\ rows \in [Agents -> Nat]
  BY DEF IInv, TypeOK, FreshInv, Commit
<1>2. \A g \in Agents : rows'[g] = (IF g \in req[a].del THEN 0 ELSE rows[g])
                                 + (IF g \in req[a].ins THEN 1 ELSE 0)
  BY DEF Commit
<1>3. \A g \in Agents : rows'[g] > 0 <=> (g \in Assigned /\ g \notin req[a].del) \/ g \in req[a].ins
  BY <1>1, <1>2 DEF Assigned
<1> QED BY <1>1, <1>3 DEF Assigned, DoneInv

\* SetAssignments: a request that commits before anybody changed what it had
\* read leaves exactly the agents of its list, for any list, in any order, and
\* however many rows they had.
THEOREM ListsAreKept == Spec => CommitsWhatWasAsked
<1>1. IInv => \A a \in Agents : Commit(a) /\ a \notin disturbed => Assigned' = req[a].asked \cap Agents
  BY CommitLeaves
<1>2. IInv /\ [Next]_vars =>
        [\A a \in Agents : Commit(a) /\ a \notin disturbed => Assigned' = req[a].asked \cap Agents]_vars
  BY <1>1
<1> QED BY <1>2, Invariant, PTL DEF Spec, CommitsWhatWasAsked
=============================================================================
