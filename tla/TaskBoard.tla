----------------------------- MODULE TaskBoard -----------------------------
(***************************************************************************)
(* One task of an operation: its state and its assignment rows, under the  *)
(* task routes (claim, acknowledge, complete, incomplete, reject, assign)  *)
(* and under uploads and saves of the whole operation, which run           *)
(* SetAssignments for every marker and link.                               *)
(*                                                                         *)
(* Table assignments has no unique key: an agent may be on a task several  *)
(* times.  SetAssignments reads the assignments through the pool, outside  *)
(* its transaction, inserts who is new, deletes who is left over and       *)
(* commits.  messaging.SendAssignment, which it calls for who is new,      *)
(* reaches nobody: no service registers for it.  Writes of an open         *)
(* transaction are kept in the request; what others wait for meanwhile is  *)
(* InnoDB's:                                                               *)
(*   - an inserted row locks the task and the operation (foreign keys)     *)
(*     against updates and itself against deletes;                         *)
(*   - an updated task or operation row waits for, and keeps out, inserts; *)
(*   - deleted rows keep out inserts and deletes of the same task.         *)
(***************************************************************************)
EXTENDS Naturals

CONSTANTS Agents,    \* agents, each with one request at a time
          Stranger,  \* a GoogleID that is not in table agent
          NoGid,     \* the empty GoogleID
          Lists,     \* assignment lists clients send
          MaxRows    \* bound on the rows of one agent (model checking)

ASSUME AgentsType == Stranger \notin Agents /\ NoGid \notin Agents /\ Stranger # NoGid
ASSUME ListsType  == Lists \subseteq SUBSET (Agents \cup {Stranger, NoGid})
ASSUME RowsType   == MaxRows \in Nat

VARIABLES
  up,       \* the operation is in the database
  state,    \* task.state
  rows,     \* how many assignment rows each agent has
  req,      \* the request each agent has in flight
  disturbed \* history: requests for which the rows are not what SetAssignments
            \* takes them for: it did not read them all, they have changed
            \* since, or it failed to clear them

vars == <<up, state, rows, req, disturbed>>

States == {"pending", "assigned", "acknowledged", "completed"}

\* at: next statement; asked: the list sent; todo: what is left of it; before:
\* local map of SetAssignments; ins, del, upd: writes not yet committed, where
\* upd is a state, "keep", or "clear" (pending unless completed).
Request == [at: {"idle", "claimed", "rejected", "row", "commit"},
            asked: SUBSET (Agents \cup {Stranger, NoGid}),
            todo: SUBSET (Agents \cup {Stranger, NoGid}),
            before: SUBSET Agents, ins: SUBSET Agents, del: SUBSET Agents,
            upd: States \cup {"keep", "clear"}]

NoRequest == [at |-> "idle", asked |-> {}, todo |-> {}, before |-> {},
              ins |-> {}, del |-> {}, upd |-> "keep"]

TypeOK == /\ up \in BOOLEAN
          /\ state \in States
          /\ rows \in [Agents -> Nat]
          /\ req \in [Agents -> Request]
          /\ disturbed \in SUBSET Agents

Init == /\ up = FALSE
        /\ state = "pending"
        /\ rows = [a \in Agents |-> 0]
        /\ req = [a \in Agents |-> NoRequest]
        /\ disturbed = {}

Assigned  == {a \in Agents : rows[a] > 0}
Others(a) == Agents \ {a}

CanUpdate(a) == \A b \in Others(a) : req[b].ins = {} /\ req[b].upd = "keep"
CanInsert(a) == \A b \in Others(a) : req[b].del = {} /\ req[b].upd = "keep"
CanDelete(a) == \A b \in Others(a) : req[b].del = {} /\ req[b].ins = {}

Idle(a)   == req[a].at = "idle" /\ up
Goto(a, l) == req' = [req EXCEPT ![a].at = l]
-----------------------------------------------------------------------------
(* The task routes that are one or two statements, each committed at once. *)

\* Claim: the row, then state = acknowledged.
ClaimRow(a) ==
  /\ Idle(a) /\ Goto(a, "claimed")
  /\ CanInsert(a)
  /\ rows[a] < MaxRows
  /\ rows' = [rows EXCEPT ![a] = @ + 1]
  /\ disturbed' = disturbed \cup Others(a)
  /\ UNCHANGED <<up, state>>

ClaimState(a) ==
  /\ req[a].at = "claimed" /\ Goto(a, "idle")
  /\ CanUpdate(a)
  /\ state' = "acknowledged"
  /\ UNCHANGED <<up, rows, disturbed>>

\* Reject: state = pending whoever else is assigned, then his rows, all of them.
RejectState(a) ==
  /\ Idle(a) /\ Goto(a, "rejected")
  /\ CanUpdate(a)
  /\ state' = "pending"
  /\ UNCHANGED <<up, rows, disturbed>>

RejectRows(a) ==
  /\ req[a].at = "rejected" /\ Goto(a, "idle")
  /\ CanDelete(a)
  /\ rows' = [rows EXCEPT ![a] = 0]
  /\ disturbed' = disturbed \cup Others(a)
  /\ UNCHANGED <<up, state>>

\* Acknowledge, Complete, Incomplete, whatever the state was.
SetState(a) ==
  /\ Idle(a)
  /\ CanUpdate(a)
  /\ state' \in {"acknowledged", "completed", "assigned"}
  /\ UNCHANGED <<up, rows, req, disturbed>>
-----------------------------------------------------------------------------
(* SetAssignments *)

\* The caller's part, and the read of the assignments through the pool.  An
\* error of the query is logged and the save goes on with what was read:
\* nothing, or the rows before the result was cut short (rows.Err is not asked).
Begin(a, list, upd) ==
  /\ \E read \in SUBSET Assigned :
       /\ req' = [req EXCEPT ![a] = [NoRequest EXCEPT !.at = "row", !.asked = list, !.todo = list,
                                                      !.before = read, !.upd = upd]]
       /\ disturbed' = IF read = Assigned THEN disturbed \ {a} ELSE disturbed \cup {a}
  /\ UNCHANGED <<up, state, rows>>

\* The assign routes: SetAssignments opens its own transaction.
AssignStart(a) == Idle(a) /\ \E list \in Lists : Begin(a, list, "keep")

\* DrawUpdate: UPDATE operation, then updateMarker or updateLink writes the
\* state the client sent over the task's.
SaveStart(a) ==
  /\ Idle(a)
  /\ CanUpdate(a)
  /\ \E list \in Lists, s \in States : Begin(a, list, s)

\* DrawInsert: the operation row is inserted, a second upload waits for it.
\* AssignedTo is cleared, Assignments is not.
UploadStart(a) ==
  /\ req[a].at = "idle" /\ ~up
  /\ CanUpdate(a)
  /\ \E list \in Lists, s \in States : Begin(a, list, s)

\* One GoogleID of the list, in any order (map iteration): skipped when empty,
\* kept when it was there before, else inserted.
SkipRow(a) ==
  /\ req[a].at = "row"
  /\ NoGid \in req[a].todo
  /\ req' = [req EXCEPT ![a].todo = @ \ {NoGid}]
  /\ UNCHANGED <<up, state, rows, disturbed>>

\* Mutant of KeepRow: before still names an agent who is on both lists.
KeepRowForget(a) ==
  /\ req[a].at = "row"
  /\ \E g \in req[a].todo \cap req[a].before :
       req' = [req EXCEPT ![a].todo = @ \ {g}]
  /\ UNCHANGED <<up, state, rows, disturbed>>

KeepRow(a) ==
  /\ req[a].at = "row"
  /\ \E g \in req[a].todo \cap req[a].before :
       req' = [req EXCEPT ![a].todo = @ \ {g}, ![a].before = @ \ {g}]
  /\ UNCHANGED <<up, state, rows, disturbed>>

\* Mutant of AddRow: assignments has no foreign key to agent.
AddRowUnknown(a) ==
  /\ req[a].at = "row"
  /\ \E g \in (req[a].todo \ {NoGid}) \ req[a].before :
       req' = [req EXCEPT ![a].todo = @ \ {g}, ![a].ins = @ \cup {g}]
  /\ UNCHANGED <<up, state, rows, disturbed>>

AddRow(a) ==
  /\ req[a].at = "row"
  /\ CanInsert(a)
  /\ \E g \in (req[a].todo \cap Agents) \ req[a].before :
       /\ rows[g] < MaxRows
       /\ req' = [req EXCEPT ![a].todo = @ \ {g}, ![a].ins = @ \cup {g}]
  /\ UNCHANGED <<up, state, rows, disturbed>>

\* Whoever was there before and is not on the list goes; an empty list clears
\* the task (ClearAssignments): all rows, and pending unless completed.
Cleared(upd) == IF upd = "keep" THEN "clear"
                ELSE IF upd = "completed" THEN upd ELSE "pending"

DropRows(a) ==
  /\ req[a].at = "row"
  /\ req[a].todo = {}
  /\ req[a].asked # {} \/ req[a].before = {}
  /\ req[a].before # {} => CanDelete(a)
  /\ req' = [req EXCEPT ![a].at = "commit", ![a].del = req[a].before]
  /\ UNCHANGED <<up, state, rows, disturbed>>

\* Its result is not read: when the DELETE fails the transaction commits with
\* every row there, when the UPDATE fails with the state as it is, and when
\* InnoDB has rolled everything back (a deadlock) without the save's state.
ClearAssignments(a) ==
  /\ req[a].at = "row"
  /\ req[a].asked = {} /\ req[a].before # {}
  /\ \/ /\ CanDelete(a) /\ CanUpdate(a)
        /\ \E upd \in {Cleared(req[a].upd), req[a].upd} :
             req' = [req EXCEPT ![a].at = "commit", ![a].del = Agents, ![a].upd = upd]
        /\ UNCHANGED disturbed
     \/ /\ \E upd \in {req[a].upd, "keep"} :
             req' = [req EXCEPT ![a].at = "commit", ![a].upd = upd]
        /\ disturbed' = disturbed \cup {a}
  /\ UNCHANGED <<up, state, rows>>

\* The state an open transaction leaves.
NewState(upd) == CASE upd = "keep"  -> state
                   [] upd = "clear" -> IF state = "completed" THEN state ELSE "pending"
                   [] OTHER         -> upd

Commit(a) ==
  /\ req[a].at = "commit"
  /\ up' = TRUE
  /\ state' = NewState(req[a].upd)
  /\ rows' = [g \in Agents |-> (IF g \in req[a].del THEN 0 ELSE rows[g])
                             + (IF g \in req[a].ins THEN 1 ELSE 0)]
  /\ disturbed' = IF rows' = rows THEN disturbed ELSE disturbed \cup Others(a)
  /\ req' = [req EXCEPT ![a] = NoRequest]

\* The transaction is rolled back: an unknown GoogleID breaks the foreign key,
\* InnoDB picks a deadlock victim, the client hangs up on a save, another
\* marker or link of the save is refused.
Fail(a) ==
  /\ req[a].at \in {"row", "commit"}
  /\ req' = [req EXCEPT ![a] = NoRequest]
  /\ UNCHANGED <<up, state, rows, disturbed>>

Next == \E a \in Agents :
  \/ ClaimRow(a) \/ ClaimState(a) \/ RejectState(a) \/ RejectRows(a) \/ SetState(a)
  \/ AssignStart(a) \/ SaveStart(a) \/ UploadStart(a)
  \/ SkipRow(a) \/ KeepRow(a) \/ AddRow(a) \/ DropRows(a) \/ ClearAssignments(a)
  \/ Commit(a) \/ Fail(a)

Spec == Init /\ [][Next]_vars
-----------------------------------------------------------------------------
(* Properties *)

\* A request that has read all the rows and commits before anybody changed them
\* leaves exactly the agents it asked for, however many rows they had; only a
\* clearing whose DELETE failed is excepted.
CommitsWhatWasAsked ==
  [][\A a \in Agents : Commit(a) /\ a \notin disturbed => Assigned' = req[a].asked \cap Agents]_vars

\* "IsAssignedTo checks to see if a task is assigned to a particular agent"
\* (task.go:278).
IsAssignedTo(a) == rows[a] = 1
IsAssignedToAgrees == \A a \in Agents : IsAssignedTo(a) <=> a \in Assigned
=============================================================================
