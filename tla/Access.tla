------------------------------- MODULE Access -------------------------------
(***************************************************************************)
(* The routes that read and change one operation and one task of it, from  *)
(* their access checks to the announcement of what they did, while teams,  *)
(* permissions, the owner and the task change under them.  One action is   *)
(* one SQL statement with what the program decides on its answer.          *)
(*                                                                         *)
(* A request keeps the permissions it has read in op.Teams: PopulateTeams  *)
(* reads them again only when there were none.  The owner is let in before *)
(* they are read.  What a route writes besides zone, assignments and       *)
(* permissions (comments, colours, state, keys) is content and left out.   *)
(* Routes that do the same are told apart only when they differ: what is   *)
(* asked of a task when it has been found, and which route it is when the  *)
(* check is passed.                                                        *)
(*                                                                         *)
(* Any statement may fail.  A check takes an error for a no and goes on; a *)
(* route that was let in answers with the error and tells nobody; and rows *)
(* that break off while they are read are taken for all there are.         *)
(***************************************************************************)
EXTENDS Integers, FiniteSets

CONSTANTS Handlers, Agents, Teams, Zones,
          NoOne,       \* no agent
          Grantable,   \* the permissions that may be given (model checking: a few)
          MaxRows,     \* bound on equal permissions, and on rows of an assignment
          MaxPerms,    \* bound on permissions given at one time
          MaxDrawing,  \* bound on requests about the drawing at one time
          MaxMoves,    \* bound on changes to all of these
          Strict       \* see AccessPolicy: FALSE is what the program keeps

VARIABLES
  owner, members, perms, zone, rows, seen,   \* see AccessPolicy
  req,    \* locals of each handler
  kept,   \* history: the permissions that have been there all the time
  moves   \* changes to owner, members, perms, zone and rows so far

facts == <<owner, members, perms, zone, rows>>
vars  == <<facts, seen, req, kept, moves>>

Granting == {"act", "told"}
Asks == [h \in Handlers |->
          IF req[h].at = "idle" THEN [granted |-> FALSE]
          ELSE [agent |-> req[h].agent, need |-> req[h].need, task |-> req[h].task,
                granted |-> req[h].at \in Granting]]

Policy == INSTANCE AccessPolicy WITH
  Handlers <- Handlers, Agents <- Agents, Teams <- Teams, Zones <- Zones, Perm <- Grantable,
  Strict <- Strict,
  owner <- owner, members <- members, perms <- perms, zone <- zone, rows <- rows,
  asks <- Asks, seen <- seen

\* A zone matters to readers only.
ASSUME GrantableType ==
  /\ Grantable \subseteq [team: Teams, role: {"read", "write", "assignedonly"}, zone: Policy!AnyZone]
  /\ \A p \in Grantable : p.role # "read" => p.zone = Policy!ZoneAll
ASSUME ZonesType  == Zones \subseteq 1..32 /\ Zones # {}
ASSUME NoOneType  == NoOne \notin Agents
ASSUME StrictIsBoolean == Strict \in BOOLEAN
ASSUME BoundsType == {MaxRows, MaxPerms, MaxDrawing, MaxMoves} \subseteq Nat

Held       == Policy!Held
ZoneAll    == Policy!ZoneAll
AssignOnly == -1

Places == {"idle", "teams", "owner", "load", "ask", "row", "mine",
           "own", "ownAgain", "inteam"} \cup Granting

\* task: the route is about the task, and populates the operation first; again:
\* it does so once more; gate: its own check runs, not Populate's; check: which
\* check runs, with what is left of its todo; teams: op.Teams; cut (history):
\* the rows it comes from broke off; zones: those open to the agent; read, found:
\* what Populate found out; team: whom the owner gives a permission; told: the
\* teams that are told; aside: the news goes to agents, or to teams that the
\* client names.
Request == [at: Places, agent: Agents \cup {NoOne}, need: Policy!Needs, task: BOOLEAN,
            again: BOOLEAN, gate: BOOLEAN, check: {"read", "assignedonly", "write"},
            todo: SUBSET Grantable, teams: SUBSET Grantable, cut: BOOLEAN,
            read: BOOLEAN, found: BOOLEAN,
            zones: SUBSET (Policy!AnyZone \cup {AssignOnly}), team: SUBSET Teams,
            told: SUBSET Teams, aside: BOOLEAN]
Idle == [at |-> "idle", agent |-> NoOne, need |-> "keys", task |-> FALSE,
         again |-> FALSE, gate |-> FALSE, check |-> "read", todo |-> {}, teams |-> {}, cut |-> FALSE,
         read |-> FALSE, found |-> FALSE, zones |-> {}, team |-> {}, told |-> {}, aside |-> FALSE]

TypeOK == /\ owner \in Agents
          /\ members \in [Teams -> SUBSET Agents]
          /\ perms \in [Grantable -> Nat]
          /\ zone \in Policy!AnyZone
          /\ rows \in [Agents -> Nat]
          /\ req \in [Handlers -> Request]
          /\ kept \in [Handlers -> SUBSET Grantable]
          /\ moves \in Nat

Init == /\ owner \in Agents
        /\ members \in [Teams -> SUBSET Agents]
        /\ perms \in {[p \in Grantable |-> IF p \in g THEN 1 ELSE 0] :
                        g \in {s \in SUBSET Grantable : Cardinality(s) <= MaxPerms}}
        /\ zone \in Policy!AnyZone
        /\ rows = [a \in Agents |-> 0]
        /\ req = [h \in Handlers |-> Idle]
        /\ seen = [h \in Handlers |-> Policy!NoFacts]
        /\ kept = [h \in Handlers |-> {}]
        /\ moves = 0
-----------------------------------------------------------------------------
At(h, l)   == req[h].at = l
Reads      == UNCHANGED facts
Put(h, r)  == req' = [req EXCEPT ![h] = r]
Set(h, r)  == Put(h, r) /\ UNCHANGED moves
Goto(h, l) == Set(h, [req[h] EXCEPT !.at = l])
End(h)     == Set(h, Idle)
Move       == moves < MaxMoves /\ moves' = moves + 1

\* A check starts: all but the assigned-only one ask for the owner first.
Start(r, c) == [r EXCEPT !.check = c, !.todo = {}, !.at = IF c = "assignedonly" THEN "load" ELSE "owner"]
Populate(r) == [r EXCEPT !.gate = FALSE, !.read = FALSE, !.zones = {}, !.check = "read", !.at = "teams"]
Gate(r)     == LET g == [r EXCEPT !.gate = TRUE, !.read = FALSE, !.zones = {}] IN
               IF r.need = "mine" THEN [g EXCEPT !.at = "mine"]
               ELSE Start(g, IF r.need \in {"write", "link", "hardness"} THEN "write" ELSE "read")
Granted(r)  == [r EXCEPT !.at = "act", !.gate = FALSE, !.check = "read", !.todo = {},
                         !.read = FALSE, !.found = FALSE, !.zones = {}]

\* A request arrives that is going to be r, from any agent.
Drawing  == {h \in Handlers : ~At(h, "idle") /\ req[h].need # "own"}
New(need) == [Idle EXCEPT !.need = need]
Requested(h, r) ==
  /\ At(h, "idle")
  /\ r.need # "own" => Cardinality(Drawing) < MaxDrawing
  /\ \E a \in Agents : Set(h, [r EXCEPT !.agent = a])
  /\ Reads

\* taskRequires populates the operation, markerRequires and linkRequires twice.
TaskNew(need, twice) == Populate([New(need) EXCEPT !.task = TRUE, !.again = twice])
TaskRequires(h)   == Requested(h, TaskNew("ofTask", FALSE))
MarkerRequires(h) == Requested(h, TaskNew("ofTask", TRUE))
LinkRequires(h)   == Requested(h, TaskNew("ofLink", TRUE))
\* The routes of draw.go check first; the owner's ask for the owner only, and
\* come while there is a change left for them to make.
DrawGetRoute(h)   == Requested(h, Gate(New("enter")))
DrawWriteRoute(h) == Requested(h, Gate(New("write")))
DrawOwnRoute(h)   == moves < MaxMoves /\ Requested(h, [New("own") EXCEPT !.at = "own"])
\* The keys route checks nothing.
DrawPortalHardness(h) == Requested(h, Gate(New("hardness")))
DrawPortalKeys(h)     == Requested(h, Granted(New("keys")))

Arrive(h) ==
  \/ TaskRequires(h) \/ MarkerRequires(h) \/ LinkRequires(h) \/ DrawGetRoute(h)
  \/ DrawWriteRoute(h) \/ DrawOwnRoute(h) \/ DrawPortalHardness(h) \/ DrawPortalKeys(h)
-----------------------------------------------------------------------------
(* What a check decides. *)
Getting(r) == r.need = "enter" /\ ~r.task   \* drawGetRoute

\* Populate asks for read and for assigned-only access; then come the rows.
PopulateDecides(r, yes) ==
  CASE r.check = "read" -> Start([r EXCEPT !.read = yes], "assignedonly")
    [] r.check # "read" /\ r.read -> [r EXCEPT !.at = "row"]
    [] r.check # "read" /\ ~r.read /\ yes -> [r EXCEPT !.at = "row", !.zones = {AssignOnly}]
    [] OTHER -> Idle

\* "read access or assigned-only", "write access or assignee"; drawGetRoute
\* asks both questions, whatever the first answer.  The check of the hardness
\* route is the wrong way round.
RouteDecides(r, yes) ==
  CASE Getting(r) /\ r.check = "read" -> Start([r EXCEPT !.read = yes, !.zones = {}], "assignedonly")
    [] Getting(r) /\ r.check # "read" /\ (r.read \/ yes) -> Populate(r)
    [] r.need = "enter" /\ r.task /\ r.check = "read" /\ ~yes -> Start(r, "assignedonly")
    [] r.need = "link" /\ ~yes -> [r EXCEPT !.at = "mine", !.todo = {}]
    [] ~Getting(r) /\ yes = (r.need # "hardness") -> Granted(r)
    [] OTHER -> Idle

Decides(r, yes) == IF r.gate THEN RouteDecides(r, yes) ELSE PopulateDecides([r EXCEPT !.todo = {}], yes)
-----------------------------------------------------------------------------
(* The checks: ReadAccess, WriteAccess, AssignedOnlyAccess. *)
Roles == [read |-> {"read", "write"}, write |-> {"write"}, assignedonly |-> {"assignedonly"}]

\* PopulateTeams: "do not do duplicate work".  What it may leave in op.Teams: the
\* loop over the rows ends at an error as it does at the last row.
OpTeams(h) == IF req[h].teams = {} THEN SUBSET Held ELSE {req[h].teams}
Filled(h, ts) == [req[h] EXCEPT !.teams = ts,
                                !.cut = IF req[h].teams = {} THEN ts # Held ELSE req[h].cut]
\* Mutant of Relevant: any role will do.
RelevantAny(r) == r.teams
Relevant(r) == {p \in r.teams : p.role \in Roles[r.check]}

\* Populate first, which needs the operation's row as well.
PopulateTeams(h) ==
  /\ At(h, "teams")
  /\ \/ \E ts \in OpTeams(h) : Set(h, Start(Filled(h, ts), "read"))
     \/ End(h)
  /\ Reads

\* An error is a no.
IsOwner(h) ==
  /\ At(h, "owner")
  /\ \/ owner = req[h].agent /\ Set(h, Decides([req[h] EXCEPT !.zones = {ZoneAll}], TRUE))
     \/ Goto(h, "load")
  /\ Reads

\* With the teams the check asks about those that matter, if there are any.
Consider(r) == LET q == [r EXCEPT !.todo = Relevant(r), !.at = "ask"] IN
              IF q.todo = {} THEN Decides(q, FALSE) ELSE q
\* Mutant of LoadTeams: op.Teams keeps those of the role that is asked for.
LoadTeamsOfRole(h) ==
  /\ At(h, "load")
  /\ \E ts \in OpTeams(h) : LET r == Filled(h, ts) IN Set(h, Consider([r EXCEPT !.teams = Relevant(r)]))
  /\ Reads

\* The query fails when it is not saved, and the check says no.
LoadTeams(h) ==
  /\ At(h, "load")
  /\ \/ \E ts \in OpTeams(h) : Set(h, Consider(Filled(h, ts)))
     \/ Set(h, Decides([req[h] EXCEPT !.todo = {}], FALSE))
  /\ Reads

\* Read access goes on, collecting zones, until one of them is ZoneAll.
Answered(r, p, in) ==
  LET reading == r.check = "read"
      asked   == [r EXCEPT !.todo = @ \ {p}, !.zones = IF in /\ reading THEN @ \cup {p.zone} ELSE @]
  IN IF asked.todo # {} /\ ~(in /\ p.zone = ZoneAll) THEN asked
     ELSE Decides(asked, IF reading THEN asked.zones # {} ELSE in)

\* An error is a no.
AgentInTeam(h) ==
  /\ At(h, "ask")
  /\ \E p \in req[h].todo : \E in \in {FALSE, req[h].agent \in members[p.team]} :
       Set(h, Answered(req[h], p, in))
  /\ Reads

Check(h) == PopulateTeams(h) \/ IsOwner(h) \/ LoadTeams(h) \/ AgentInTeam(h)
-----------------------------------------------------------------------------
(* The rows of the task, in Populate, and what is done with them. *)

\* Populate is done: again, or the operation is sent, or the task looked up.
Populated(r) ==
  CASE r.again -> {[Populate(r) EXCEPT !.again = FALSE]}
    [] ~r.again /\ ~r.task -> {Granted(r)}
    [] ~r.again /\ r.task /\ r.found ->
         {Gate([r EXCEPT !.need = need]) : need \in Policy!ToDecide[r.need]}
    [] OTHER -> {Idle}
SetPopulated(h, r) == \E s \in Populated(r) : Set(h, s)

\* The row is kept if its zone is wanted (inZones); the rows may break off
\* before it, and a query on the way to it may fail ...
PopulateRow(h) ==
  /\ At(h, "row")
  /\ \/ IF req[h].zones \cap {zone, ZoneAll} # {}
        THEN SetPopulated(h, [req[h] EXCEPT !.found = TRUE])
        ELSE Goto(h, "mine")
     \/ SetPopulated(h, req[h])
     \/ End(h)
  /\ Reads
\* ... or, by a query of its own, if it is the requester's.  An error is a no.
IsAssignedTo(h) == {FALSE, rows[req[h].agent] = 1}
PopulateMine(h) ==
  /\ At(h, "mine") /\ ~req[h].gate
  /\ \E mine \in IsAssignedTo(h) : SetPopulated(h, [req[h] EXCEPT !.found = @ \/ mine])
  /\ Reads

\* The link routes that ask for the assignee.
Assignee(h) ==
  /\ At(h, "mine") /\ req[h].gate
  /\ \E mine \in IsAssignedTo(h) : Set(h, IF mine THEN Granted(req[h]) ELSE Idle)
  /\ Reads

\* The owner's routes ask twice, in the route and in AddPerm, DelPerm or Chown;
\* AddPerm asks also whether the owner is on the team.  An error is a no.
OwnerAsked(h) ==
  /\ At(h, "own")
  /\ (owner = req[h].agent /\ Goto(h, "ownAgain")) \/ End(h)
  /\ Reads
OwnerAskedAgain(h) ==
  /\ At(h, "ownAgain")
  /\ \/ End(h)
     \/ /\ owner = req[h].agent
        /\ \/ Set(h, Granted(req[h]))
           \/ \E t \in Teams : Set(h, [req[h] EXCEPT !.at = "inteam", !.team = {t}])
  /\ Reads
OwnerInTeam(h) ==
  /\ At(h, "inteam")
  /\ \/ (\A t \in req[h].team : req[h].agent \in members[t]) /\ Set(h, Granted(req[h]))
     \/ End(h)
  /\ Reads

Rows(h) == \/ PopulateRow(h) \/ PopulateMine(h) \/ Assignee(h)
           \/ OwnerAsked(h) \/ OwnerAskedAgain(h) \/ OwnerInTeam(h)
-----------------------------------------------------------------------------
(* What the routes do once their check is passed.  A task, a marker and a    *)
(* link are alike here: drawTask* serves all of them.                        *)
Serving(h, task, need) == At(h, "act") /\ req[h].task = task /\ req[h].need = need
\* The teams that op.Teams names are told: taskStatusAnnounce, after Touch,
\* whether or not that could give the operation a new edit ID.
Announcing(h) == Put(h, [req[h] EXCEPT !.at = "told", !.told = {p.team : p \in req[h].teams}])
\* The other routes tell nobody when Touch fails, though the change is made.
Touching(h) == Announcing(h) \/ Put(h, Idle)
Content(h)  == Touching(h) /\ UNCHANGED moves /\ Reads
Reply(h)    == End(h) /\ Reads
\* SetDelta, SetOrder, LinkOrder: columns that do not exist, an error each time.
Fails(h)    == End(h) /\ Reads

\* The rows after a list is saved, with those found before it: who is on both
\* keeps his rows, who is only on the list gets one more.  An empty list clears
\* the task, if anybody was found and that statement does not fail unnoticed.
SetRows(list, before) ==
  [a \in Agents |-> CASE a \in list /\ a \notin before -> rows[a] + 1
                     [] a \notin list /\ (a \in before \/ (list = {} /\ before # {})) -> 0
                     [] OTHER -> rows[a]]
\* GetAssignments finds those who have rows, or some of them, or fails: "continue".
Assigned == {s \in {SetRows(list, before) : list \in SUBSET Agents,
                                           before \in SUBSET {a \in Agents : rows[a] > 0}} :
               \A a \in Agents : s[a] <= MaxRows \/ s[a] <= rows[a]}

\* The agents on the list are told, whether or not Touch fails.
SetAssignments(h) ==
  /\ Move /\ Put(h, [req[h] EXCEPT !.at = "told", !.aside = TRUE])
  /\ rows' \in Assigned
  /\ UNCHANGED <<owner, members, perms, zone>>
SetZone ==
  /\ Move
  /\ zone' \in Policy!AnyZone
  /\ UNCHANGED <<owner, members, perms, rows>>
\* Its second statement, which sets the state, may fail too.
Claim(h) ==
  /\ Move /\ Touching(h)
  /\ rows[req[h].agent] < MaxRows
  /\ rows' = [rows EXCEPT ![req[h].agent] = @ + 1]
  /\ UNCHANGED <<owner, members, perms, zone>>
Reject(a) ==
  /\ Move
  /\ rows' = [rows EXCEPT ![a] = 0]
  /\ UNCHANGED <<owner, members, perms, zone>>

\* The statement of a route fails, or its transaction: nothing is changed.
StatementFails(h) == At(h, "act") /\ End(h) /\ Reads

\* http/draw_task.go
DrawTaskAssign(h)      == Serving(h, TRUE, "write") /\ SetAssignments(h)
DrawTaskClaim(h)       == Serving(h, TRUE, "read")  /\ Claim(h)
DrawTaskComment(h)     == Serving(h, TRUE, "write") /\ Content(h)
DrawTaskZone(h)        == Serving(h, TRUE, "write") /\ SetZone /\ Announcing(h)
DrawTaskDelta(h)       == Serving(h, TRUE, "write") /\ Fails(h)
DrawTaskFetch(h)       == Serving(h, TRUE, "enter") /\ Reply(h)
DrawTaskComplete(h)    == Serving(h, TRUE, "enter") /\ Content(h)
DrawTaskIncomplete(h)  == Serving(h, TRUE, "enter") /\ Content(h)
DrawTaskReject(h)      == Serving(h, TRUE, "enter")  /\ Reject(req[h].agent) /\ Announcing(h)
DrawTaskAcknowledge(h) == Serving(h, TRUE, "enter") /\ Content(h)
DrawTaskDependAdd(h)   == Serving(h, TRUE, "write") /\ Content(h)
DrawTaskDependDel(h)   == Serving(h, TRUE, "write") /\ Content(h)
DrawTaskOrder(h)       == Serving(h, TRUE, "write") /\ Fails(h)
DrawTask(h) ==
  \/ DrawTaskAssign(h) \/ DrawTaskClaim(h) \/ DrawTaskComment(h) \/ DrawTaskZone(h)
  \/ DrawTaskDelta(h) \/ DrawTaskFetch(h) \/ DrawTaskComplete(h) \/ DrawTaskIncomplete(h)
  \/ DrawTaskReject(h) \/ DrawTaskAcknowledge(h) \/ DrawTaskDependAdd(h)
  \/ DrawTaskDependDel(h) \/ DrawTaskOrder(h)

\* http/draw_marker.go
DrawMarkerAssign(h)      == Serving(h, TRUE, "write") /\ SetAssignments(h)
DrawMarkerClaim(h)       == Serving(h, TRUE, "read")  /\ Claim(h)
DrawMarkerComment(h)     == Serving(h, TRUE, "write") /\ Content(h)
DrawMarkerZone(h)        == Serving(h, TRUE, "write") /\ SetZone /\ Touching(h)
DrawMarkerDelta(h)       == Serving(h, TRUE, "write") /\ Fails(h)
DrawMarkerFetch(h)       == Serving(h, TRUE, "enter") /\ Reply(h)
DrawMarkerComplete(h)    == Serving(h, TRUE, "enter") /\ Content(h)
DrawMarkerIncomplete(h)  == Serving(h, TRUE, "enter") /\ Content(h)
DrawMarkerReject(h)      == Serving(h, TRUE, "enter")  /\ Reject(req[h].agent) /\ Touching(h)
DrawMarkerAcknowledge(h) == Serving(h, TRUE, "enter") /\ Content(h)
DrawMarker(h) ==
  \/ DrawMarkerAssign(h) \/ DrawMarkerClaim(h) \/ DrawMarkerComment(h) \/ DrawMarkerZone(h)
  \/ DrawMarkerDelta(h) \/ DrawMarkerFetch(h) \/ DrawMarkerComplete(h)
  \/ DrawMarkerIncomplete(h) \/ DrawMarkerReject(h) \/ DrawMarkerAcknowledge(h)

\* http/draw_link.go
DrawLinkAssign(h) == Serving(h, TRUE, "write") /\ SetAssignments(h)
DrawLinkDesc(h)   == Serving(h, TRUE, "write") /\ Content(h)
DrawLinkColor(h)  == Serving(h, TRUE, "write") /\ Content(h)
DrawLinkSwap(h)   == Serving(h, TRUE, "write") /\ Content(h)
DrawLinkZone(h)   == Serving(h, TRUE, "write") /\ SetZone /\ Touching(h)
DrawLinkDelta(h)  == Serving(h, TRUE, "write") /\ Fails(h)
DrawLinkComp(h)   == Serving(h, TRUE, "link")  /\ Content(h)
DrawLinkClaim(h)  == Serving(h, TRUE, "read")  /\ Claim(h)
DrawLinkReject(h) == Serving(h, TRUE, "mine")   /\ Reject(req[h].agent) /\ Touching(h)
DrawLinkFetch(h)  == Serving(h, TRUE, "enter") /\ Reply(h)
DrawLink(h) ==
  \/ DrawLinkAssign(h) \/ DrawLinkDesc(h) \/ DrawLinkColor(h) \/ DrawLinkSwap(h)
  \/ DrawLinkZone(h) \/ DrawLinkDelta(h) \/ DrawLinkComp(h) \/ DrawLinkClaim(h)
  \/ DrawLinkReject(h) \/ DrawLinkFetch(h)

\* http/draw.go.  A save writes zone and assignments as they were sent, and
\* op.Teams is what was sent, if it was.
DrawGet(h)           == Serving(h, FALSE, "enter") /\ Reply(h)
DrawPortalComment(h) == Serving(h, FALSE, "write") /\ Content(h)
DrawOrder(h)         == Serving(h, FALSE, "write") /\ Fails(h)
DrawInfo(h)          == Serving(h, FALSE, "write") /\ Content(h)
SetPortal(h)         == (Serving(h, FALSE, "hardness") \/ Serving(h, FALSE, "keys")) /\ Content(h)
DrawUpdate(h) ==
  /\ Serving(h, FALSE, "write") /\ Move
  /\ zone' \in Policy!AnyZone /\ rows' \in Assigned
  /\ \/ \E sent \in SUBSET Teams : Put(h, [req[h] EXCEPT !.at = "told", !.told = sent, !.aside = TRUE])
     \/ Put(h, Idle)
  /\ UNCHANGED <<owner, members, perms>>

\* The owner's routes have not read op.Teams, and tell nobody.
Given == Cardinality(Held)
DrawPermsAdd(h) ==
  /\ Serving(h, FALSE, "own") /\ Put(h, Idle) /\ Move
  /\ \E p \in Grantable :
       /\ p.team \in req[h].team
       /\ perms[p] < MaxRows
       /\ perms[p] > 0 \/ Given < MaxPerms
       /\ perms' = [perms EXCEPT ![p] = @ + 1]
  /\ UNCHANGED <<owner, members, zone, rows>>
\* Mutant of DrawPermsDelete: a count, decremented.
DrawPermsDeleteCount(h) ==
  /\ Serving(h, FALSE, "own") /\ req[h].team = {} /\ Put(h, Idle) /\ Move
  /\ \E p \in Grantable : perms' = [perms EXCEPT ![p] = @ - 1]
  /\ UNCHANGED <<owner, members, zone, rows>>

\* DELETE ... LIMIT 1.
DrawPermsDelete(h) ==
  /\ Serving(h, FALSE, "own") /\ req[h].team = {} /\ Put(h, Idle) /\ Move
  /\ \E p \in Grantable : perms' = [perms EXCEPT ![p] = IF @ > 0 THEN @ - 1 ELSE 0]
  /\ UNCHANGED <<owner, members, zone, rows>>
\* "no notification"
DrawChown(h) ==
  /\ Serving(h, FALSE, "own") /\ req[h].team = {} /\ Put(h, Idle) /\ Move
  /\ owner' \in Agents
  /\ UNCHANGED <<members, perms, zone, rows>>
Draw(h) ==
  \/ DrawGet(h) \/ DrawPortalComment(h) \/ DrawOrder(h) \/ DrawInfo(h) \/ SetPortal(h)
  \/ DrawUpdate(h) \/ DrawPermsAdd(h) \/ DrawPermsDelete(h) \/ DrawChown(h)
-----------------------------------------------------------------------------
Told(h) == At(h, "told") /\ End(h) /\ Reads
-----------------------------------------------------------------------------
(* Teams, as other routes change them. *)
JoinTeam(a, t) ==
  /\ Move /\ UNCHANGED req
  /\ members' = [members EXCEPT ![t] = @ \cup {a}]
  /\ UNCHANGED <<owner, perms, zone, rows>>
LeaveTeam(a, t) ==
  /\ Move /\ UNCHANGED req
  /\ members' = [members EXCEPT ![t] = @ \ {a}]
  /\ UNCHANGED <<owner, perms, zone, rows>>
\* The team's row takes its members and permissions along.
DeleteTeam(t) ==
  /\ Move /\ UNCHANGED req
  /\ members' = [members EXCEPT ![t] = {}]
  /\ perms' = [p \in Grantable |-> IF p.team = t THEN 0 ELSE perms[p]]
  /\ UNCHANGED <<owner, zone, rows>>
Teaming == \E t \in Teams : DeleteTeam(t) \/ \E a \in Agents : JoinTeam(a, t) \/ LeaveTeam(a, t)

\* History: what each request has seen, and what it has seen all the time,
\* until it is granted.
Running(h) == req'[h].at \notin Granting \cup {"idle"}
Watch ==
  /\ seen' = [h \in Handlers |->
                IF req'[h].at = "idle" THEN Policy!NoFacts
                ELSE IF Running(h)
                     THEN Policy!Join(seen[h], Policy!About(req'[h].need, Policy!Facts'[req'[h].agent]))
                     ELSE [Policy!NoFacts EXCEPT !.perms = seen[h].perms]]
  /\ kept' = [h \in Handlers |->
                IF req'[h].at = "idle" \/ req'[h].need = "own" THEN {}
                ELSE IF Running(h) THEN Held' \cap (IF req[h].at = "idle" THEN Held' ELSE kept[h])
                     ELSE kept[h]]

Handler(h) == \/ Arrive(h) \/ Check(h) \/ Rows(h)
              \/ DrawTask(h) \/ DrawMarker(h) \/ DrawLink(h) \/ Draw(h)
              \/ StatementFails(h) \/ Told(h)
Next == (Teaming \/ \E h \in Handlers : Handler(h)) /\ Watch
Spec == Init /\ [][Next]_vars
-----------------------------------------------------------------------------
(* Properties *)

\* Whatever a request changes it changes by an authority that it had while it
\* was running, each fact of it at some moment at least: see AccessPolicy.
ImplementsPolicy == Policy!Spec

\* A task route that tells the teams tells each team that had a permission all
\* along, unless the rows of the permissions broke off, and no team that had none
\* (op.Teams, taskStatusAnnounce, markerStatusTouch, linkStatusTouch).
RelevantTeamsTold ==
  \A h \in Handlers : At(h, "told") /\ req[h].task /\ ~req[h].aside =>
    /\ ~req[h].cut => {p.team : p \in kept[h]} \subseteq req[h].told
    /\ req[h].told \subseteq {p.team : p \in seen[h].perms}
=============================================================================
