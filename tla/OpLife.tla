------------------------------ MODULE OpLife -------------------------------
(***************************************************************************)
(* The life of one operation ID: uploads (DrawInsert), deletions (Delete)  *)
(* and changes of owner (Chown), in requests of several agents, several of  *)
(* one agent at a time, and agents who delete their accounts, with what    *)
(* they own.  Every route looks first and acts later, one SQL statement    *)
(* per step; the only transaction is the upload's, whose uncommitted row   *)
(* makes other writers of the same primary key wait.  A statement may fail: *)
(* Fail ends the request, except where the action carries on.              *)
(***************************************************************************)
CONSTANTS Agents, Requests,
          By,      \* the agent who sends each request
          NoOne    \* neither agent nor request: no row, no transaction

ASSUME ByType    == By \in [Requests -> Agents]
ASSUME NoOneType == NoOne \notin Agents \cup Requests

VARIABLES
  owner,      \* operation.gid, NoOne without a row
  inserting,  \* the upload that has inserted the row and not yet committed
  deletedop,  \* the ID is in table deletedops
  at,         \* next statement of each request
  agents,     \* agents with an account; who leaves does not come back
  existed,    \* history: there has been a row
  excused     \* history: the last row went with its owner's account, or by a
              \* deletion whose note in deletedops failed

vars    == <<owner, inserting, deletedop, at, agents, existed, excused>>
history == <<agents, existed, excused>>

Places == {"idle", "gate", "insert", "commit", "owner", "mark", "drop", "blind", "chown"}

TypeOK == /\ owner \in Agents \cup {NoOne}
          /\ inserting \in Requests \cup {NoOne}
          /\ deletedop \in BOOLEAN
          /\ at \in [Requests -> Places]
          /\ agents \subseteq Agents
          /\ existed \in BOOLEAN
          /\ excused \in BOOLEAN

Init == /\ owner = NoOne
        /\ inserting = NoOne
        /\ deletedop = FALSE
        /\ at = [r \in Requests |-> "idle"]
        /\ agents = Agents
        /\ existed = FALSE
        /\ excused = FALSE

Goto(r, l)    == at' = [at EXCEPT ![r] = l]
Step(r, l, k) == at[r] = l /\ Goto(r, k)
Finish(r)     == Goto(r, "idle")
IsOwner(r)    == owner = By[r]
Valid         == owner # NoOne
Unlocked(r)   == inserting \in {r, NoOne}
-----------------------------------------------------------------------------
(* POST /draw: Valid and IsDeletedOp, each a query of its own, then INSERT. *)
(* A query that fails is a no to either.                                    *)
UploadValid(r) ==
  /\ at[r] = "idle"
  /\ \E failed \in BOOLEAN : ~Valid \/ failed
  /\ Goto(r, "gate")
  /\ UNCHANGED <<owner, inserting, deletedop, history>>

UploadGate(r) ==
  /\ at[r] = "gate"
  /\ \E failed \in BOOLEAN :
       IF deletedop /\ ~failed THEN Finish(r) ELSE Goto(r, "insert")
  /\ UNCHANGED <<owner, inserting, deletedop, history>>

\* Mutant of UploadInsert: REPLACE INTO, as for the rows of markers and links.
UploadReplace(r) ==
  /\ Step(r, "insert", "commit")
  /\ Unlocked(r)
  /\ inserting' = r
  /\ UNCHANGED <<owner, deletedop, history>>

\* Waits for another upload of the ID; a row that is there, or an agent who is
\* not, is an error.
UploadInsert(r) ==
  /\ at[r] = "insert"
  /\ Unlocked(r)
  /\ IF Valid \/ By[r] \notin agents
     THEN Finish(r) /\ UNCHANGED inserting
     ELSE Goto(r, "commit") /\ inserting' = r
  /\ UNCHANGED <<owner, deletedop, history>>

\* Mutant of UploadCommit: the row names the request, not the agent.
UploadCommitRequest(r) ==
  /\ at[r] = "commit" /\ Finish(r)
  /\ owner' = r
  /\ inserting' = NoOne
  /\ existed' = TRUE
  /\ excused' = FALSE
  /\ UNCHANGED <<deletedop, agents>>

UploadCommit(r) ==
  /\ at[r] = "commit" /\ Finish(r)
  /\ owner' = By[r]
  /\ inserting' = NoOne
  /\ existed' = TRUE
  /\ excused' = FALSE
  /\ UNCHANGED <<deletedop, agents>>

\* A portal, marker, link, key or zone is refused: everything is rolled back.
UploadFail(r) ==
  /\ at[r] = "commit" /\ Finish(r)
  /\ inserting' = NoOne
  /\ UNCHANGED <<owner, deletedop, history>>
-----------------------------------------------------------------------------
(* DELETE /draw/{opID}: IsOwner in the route, IsOwner in Delete, deletedops, *)
(* then the row.                                                             *)
DeleteRoute(r) ==
  /\ Step(r, "idle", "owner")
  /\ IsOwner(r)
  /\ UNCHANGED <<owner, inserting, deletedop, history>>

DeleteOwner(r) ==
  /\ at[r] = "owner"
  /\ IF IsOwner(r) THEN Goto(r, "mark") ELSE Finish(r)
  /\ UNCHANGED <<owner, inserting, deletedop, history>>

\* Mutant of DeleteMark: the row is deleted first and the ID noted afterwards.
DeleteMarkLast(r) ==
  /\ Step(r, "mark", "drop")
  /\ owner' = NoOne
  /\ UNCHANGED <<inserting, deletedop, history>>

\* INSERT INTO deletedops; on an error it carries on (to "blind").
DeleteMark(r) ==
  /\ \/ Step(r, "mark", "drop") /\ deletedop' = TRUE
     \/ Step(r, "mark", "blind") /\ UNCHANGED deletedop
  /\ UNCHANGED <<owner, inserting, history>>

DeleteDrop(r) ==
  /\ at[r] \in {"drop", "blind"} /\ Finish(r)
  /\ Unlocked(r)
  /\ owner' = NoOne
  /\ excused' = (excused \/ (Valid /\ at[r] = "blind"))
  /\ UNCHANGED <<inserting, deletedop, agents, existed>>
-----------------------------------------------------------------------------
(* Chown: IsOwner, then UPDATE ... SET gid, to any agent with an account. *)
ChownCheck(r) ==
  /\ Step(r, "idle", "chown")
  /\ IsOwner(r)
  /\ UNCHANGED <<owner, inserting, deletedop, history>>

ChownSet(r) ==
  /\ at[r] = "chown" /\ Finish(r)
  /\ Unlocked(r)
  /\ \E to \in Agents : IF Valid /\ to \in agents THEN owner' = to ELSE UNCHANGED owner
  /\ UNCHANGED <<inserting, deletedop, history>>

\* GoogleID.Delete: DELETE FROM agent takes the agent's operations with it
\* (fk_operation_agent), without a word in deletedops.  It waits for an upload
\* of the agent's that is not committed.
AgentDelete(a) ==
  /\ a \in agents
  /\ inserting # NoOne => By[inserting] # a
  /\ agents' = agents \ {a}
  /\ IF owner = a THEN owner' = NoOne /\ excused' = TRUE ELSE UNCHANGED <<owner, excused>>
  /\ UNCHANGED <<inserting, deletedop, at, existed>>

\* A statement fails, and nothing of the request remains to be done; the
\* statements of an upload in its transaction are UploadFail's.
Fail(r) ==
  /\ at[r] \in {"owner", "insert", "drop", "blind", "chown"} /\ Finish(r)
  /\ UNCHANGED <<owner, inserting, deletedop, history>>

\* The server dies between two statements.
Crash ==
  /\ \E r \in Requests : at[r] # "idle"
  /\ at' = [r \in Requests |-> "idle"]
  /\ inserting' = NoOne
  /\ UNCHANGED <<owner, deletedop, history>>

Upload(r) == \/ UploadValid(r) \/ UploadGate(r) \/ UploadInsert(r)
             \/ UploadCommit(r) \/ UploadFail(r)
Delete(r) == DeleteRoute(r) \/ DeleteOwner(r) \/ DeleteMark(r) \/ DeleteDrop(r)
Chown(r)  == ChownCheck(r) \/ ChownSet(r)

Next == \/ \E r \in Requests : Upload(r) \/ Delete(r) \/ Chown(r) \/ Fail(r)
        \/ \E a \in Agents : AgentDelete(a)
        \/ Crash

Spec == Init /\ [][Next]_vars
-----------------------------------------------------------------------------
(* Properties *)

\* An operation that was there and is gone is known as deleted, so clients
\* are told 410 and drop their copy, whichever request was cut short; unless
\* it went with its owner's account, or the very deletion that took the row
\* failed to note it.
GoneMeansMarked == existed /\ owner = NoOne /\ ~excused => deletedop

\* An upload never replaces an operation: two uploads of the same new ID that
\* both passed the checks do not both succeed.
UploadsNeverOverwrite == [][\A r \in Requests : UploadCommit(r) => owner = NoOne]_vars
=============================================================================
