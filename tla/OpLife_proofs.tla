---------------------------- MODULE OpLife_proofs ----------------------------
(***************************************************************************)
(* Theorems about OpLife, for any agents and requests: the type invariant, *)
(* GoneMeansMarked and UploadsNeverOverwrite.  The first needs to know     *)
(* that a deletion at "drop" has noted the ID (DropInv; one whose note     *)
(* failed is at "blind"), the second that the upload in its transaction is *)
(* the one that has inserted a row, and that there is no other row         *)
(* meanwhile (InsertInv).                                                  *)
(***************************************************************************)
EXTENDS OpLife, TLAPS

\* A deletion at "drop" has noted the ID, and nobody takes the note back.
DropInv == \A r \in Requests : at[r] = "drop" => deletedop

\* One upload at a time has an uncommitted row, and it is the only row.
InsertInv == /\ \A r \in Requests : at[r] = "commit" <=> inserting = r
             /\ inserting # NoOne => owner = NoOne

IInv == TypeOK /\ DropInv /\ InsertInv /\ GoneMeansMarked

\* One request moves to place l, the others stay where they are.
Moves(r, l) == at' \in [Requests -> Places] /\ at'[r] = l
               /\ \A q \in Requests \ {r} : at'[q] = at[q]
-----------------------------------------------------------------------------
LEMMA GotoMoves ==
  ASSUME TypeOK, NEW r \in Requests, NEW l \in Places, Goto(r, l)
  PROVE  Moves(r, l)
BY DEF TypeOK, Goto, Moves

\* Steps that only look, and change nothing but the place of their request.
LEMMA LooksInv ==
  ASSUME IInv, NEW r \in Requests, NEW l \in Places \ {"drop", "commit"},
         at[r] # "commit", Moves(r, l), UNCHANGED <<owner, inserting, deletedop, history>>
  PROVE  IInv'
BY DEF IInv, TypeOK, DropInv, InsertInv, GoneMeansMarked, Moves, history
-----------------------------------------------------------------------------
LEMMA InitInv == Init => IInv
BY NoOneType DEF Init, IInv, TypeOK, DropInv, InsertInv, GoneMeansMarked, Places

LEMMA UploadInv ==
  ASSUME IInv, NEW r \in Requests, Upload(r)
  PROVE  IInv'
<1> USE DEF Finish, Places
<1> TypeOK
  BY DEF IInv
<1>1. CASE UploadValid(r)
  BY <1>1, GotoMoves, LooksInv DEF UploadValid
<1>2. CASE UploadGate(r)
  BY <1>2, GotoMoves, LooksInv DEF UploadGate
<1>3. CASE UploadInsert(r)
  <2>1. CASE Valid \/ By[r] \notin agents
    BY <1>3, <2>1, GotoMoves, LooksInv DEF UploadInsert
  <2>2. CASE ~(Valid \/ By[r] \notin agents)
    <3>1. /\ Moves(r, "commit") /\ inserting' = r /\ inserting \in {r, NoOne}
          /\ owner = NoOne /\ at[r] = "insert" /\ UNCHANGED <<owner, deletedop, history>>
      BY <1>3, <2>2, GotoMoves DEF UploadInsert, Valid, Unlocked
    <3> QED BY <3>1, NoOneType
            DEF IInv, TypeOK, DropInv, InsertInv, GoneMeansMarked, Moves, history
  <2> QED BY <2>1, <2>2
<1>4. CASE UploadCommit(r)
  <2>1. Moves(r, "idle") /\ By[r] \in Agents /\ By[r] # NoOne
    BY <1>4, GotoMoves, ByType, NoOneType DEF UploadCommit
  <2> QED BY <1>4, <2>1, NoOneType
          DEF UploadCommit, IInv, TypeOK, DropInv, InsertInv, GoneMeansMarked, Moves
<1>5. CASE UploadFail(r)
  <2>1. Moves(r, "idle")
    BY <1>5, GotoMoves DEF UploadFail
  <2> QED BY <1>5, <2>1, NoOneType
          DEF UploadFail, IInv, TypeOK, DropInv, InsertInv, GoneMeansMarked, Moves, history
<1> QED BY <1>1, <1>2, <1>3, <1>4, <1>5 DEF Upload

LEMMA DeleteInv ==
  ASSUME IInv, NEW r \in Requests, Delete(r)
  PROVE  IInv'
<1> USE DEF Finish, Places, Step
<1> TypeOK
  BY DEF IInv
<1>1. CASE DeleteRoute(r)
  BY <1>1, GotoMoves, LooksInv DEF DeleteRoute
<1>2. CASE DeleteOwner(r)
  BY <1>2, GotoMoves, LooksInv DEF DeleteOwner
<1>3. CASE DeleteMark(r)
  <2>1. CASE Goto(r, "drop") /\ deletedop' = TRUE
    <3>1. Moves(r, "drop")
      BY <2>1, GotoMoves
    <3> QED BY <1>3, <2>1, <3>1
            DEF DeleteMark, IInv, TypeOK, DropInv, InsertInv, GoneMeansMarked, Moves, history
  <2>2. CASE Goto(r, "blind") /\ UNCHANGED deletedop
    BY <1>3, <2>2, GotoMoves, LooksInv DEF DeleteMark
  <2> QED BY <1>3, <2>1, <2>2 DEF DeleteMark
<1>4. CASE DeleteDrop(r)
  <2>1. Moves(r, "idle") /\ excused' \in BOOLEAN
    BY <1>4, GotoMoves DEF DeleteDrop, IInv, TypeOK
  <2>2. owner = NoOne \/ deletedop \/ excused'
    BY <1>4 DEF DeleteDrop, Valid, IInv, DropInv
  <2>3. excused => excused'
    BY <1>4 DEF DeleteDrop
  <2> QED BY <1>4, <2>1, <2>2, <2>3, NoOneType
          DEF DeleteDrop, IInv, TypeOK, DropInv, InsertInv, GoneMeansMarked, Moves, history
<1> QED BY <1>1, <1>2, <1>3, <1>4 DEF Delete

LEMMA FailInv ==
  ASSUME IInv, NEW r \in Requests, Fail(r)
  PROVE  IInv'
BY GotoMoves, LooksInv DEF Fail, Finish, Places, IInv

LEMMA ChownInv ==
  ASSUME IInv, NEW r \in Requests, Chown(r)
  PROVE  IInv'
<1> USE DEF Finish, Places, Step
<1> TypeOK
  BY DEF IInv
<1>1. CASE ChownCheck(r)
  BY <1>1, GotoMoves, LooksInv DEF ChownCheck
<1>2. CASE ChownSet(r)
  <2>1. Moves(r, "idle") /\ at[r] = "chown"
    BY <1>2, GotoMoves DEF ChownSet
  <2>2. owner' = owner \/ (Valid /\ owner' \in Agents)
    BY <1>2 DEF ChownSet
  <2> QED BY <1>2, <2>1, <2>2, NoOneType
          DEF ChownSet, Valid, IInv, TypeOK, DropInv, InsertInv, GoneMeansMarked, Moves, history
<1> QED BY <1>1, <1>2 DEF Chown

LEMMA AgentDeleteInv ==
  ASSUME IInv, NEW a \in Agents, AgentDelete(a)
  PROVE  IInv'
BY DEF AgentDelete, IInv, TypeOK, DropInv, InsertInv, GoneMeansMarked

LEMMA CrashInv ==
  ASSUME IInv, Crash
  PROVE  IInv'
BY NoOneType DEF Crash, IInv, TypeOK, DropInv, InsertInv, GoneMeansMarked, Places, history

LEMMA NextInv == IInv /\ [Next]_vars => IInv'
<1> SUFFICES ASSUME IInv, [Next]_vars PROVE IInv'
  OBVIOUS
<1>1. CASE UNCHANGED vars
  BY <1>1 DEF vars, IInv, TypeOK, DropInv, InsertInv, GoneMeansMarked
<1> QED BY <1>1, UploadInv, DeleteInv, FailInv, ChownInv, AgentDeleteInv, CrashInv DEF Next

LEMMA Invariant == Spec => []IInv
BY InitInv, NextInv, PTL DEF Spec
-----------------------------------------------------------------------------
(* Theorems *)

\* The tables and the requests' places have their types, and the row is of one
\* of the agents.
THEOREM TypeCorrect == Spec => []TypeOK
<1>1. IInv => TypeOK
  BY DEF IInv
<1> QED BY <1>1, Invariant, PTL

\* Delete: an operation that is gone is known as deleted, however its requests
\* interleave and wherever the server dies, unless it went with an account or
\* its own note failed.
THEOREM GoneIsMarked == Spec => []GoneMeansMarked
<1>1. IInv => GoneMeansMarked
  BY DEF IInv
<1> QED BY <1>1, Invariant, PTL

\* DrawInsert: of uploads of one new ID that have all passed the checks one
\* gets in; none commits over a row.
THEOREM UploadsApart == Spec => UploadsNeverOverwrite
<1>1. IInv => \A r \in Requests : UploadCommit(r) => owner = NoOne
  BY NoOneType DEF IInv, InsertInv, UploadCommit
<1>2. IInv /\ [Next]_vars => [\A r \in Requests : UploadCommit(r) => owner = NoOne]_vars
  BY <1>1
<1> QED BY <1>2, Invariant, PTL DEF Spec, UploadsNeverOverwrite
=============================================================================
