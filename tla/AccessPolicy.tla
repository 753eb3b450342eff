---------------------------- MODULE AccessPolicy ----------------------------
(***************************************************************************)
(* Who may do what to an operation.  A request is made by an agent, needs  *)
(* an authority, and changes things only once that authority is granted;   *)
(* it is granted on facts each of which held at some time since the        *)
(* request arrived.  Nothing older counts, and nothing that never held.    *)
(***************************************************************************)
EXTENDS Integers

CONSTANTS Handlers, Agents, Teams,
          Zones,   \* the numbered zones, 1 to 32 in the program
          Perm,    \* the permissions there may be: team, role, zone
          Strict   \* the hardness route is held to its own error message

VARIABLES
  owner,    \* operation.gid
  members,  \* table agentteams
  perms,    \* table permissions: how many rows of each kind
  zone,     \* the zone of the task the requests are about
  rows,     \* its assignments: how many rows each agent has
  asks,     \* what each handler's request is
  seen      \* the facts that have held since the request arrived

ZoneAll == 0
AnyZone == Zones \cup {ZoneAll}
Held    == {p \in Perm : perms[p] > 0}

\* Who has COUNT(*) = 1 rows is assigned: Task.IsAssignedTo.
Facts     == [a \in Agents |->
               [owner |-> owner = a, teams |-> {t \in Teams : a \in members[t]}, perms |-> Held,
                zones |-> {zone}, mine |-> rows[a] = 1]]
NoFacts   == [owner |-> FALSE, teams |-> {}, perms |-> {}, zones |-> {}, mine |-> FALSE]
Join(f, g) == [owner |-> f.owner \/ g.owner, teams |-> f.teams \cup g.teams,
               perms |-> f.perms \cup g.perms, zones |-> f.zones \cup g.zones,
               mine |-> f.mine \/ g.mine]

By(f, roles) == {p \in f.perms : p.role \in roles /\ p.team \in f.teams}
Writes(f)    == f.owner \/ By(f, {"write"}) # {}
Reads(f)     == f.owner \/ By(f, {"read", "write"}) # {}
Enters(f)    == Reads(f) \/ By(f, {"assignedonly"}) # {}
\* An agent finds the task when it is his, or in a zone that is open to him.
Finds(f)     == \/ f.owner \/ f.mine
                \/ \E p \in By(f, {"read", "write"}) : p.zone \in {ZoneAll} \cup f.zones

\* What a request about the task needs shows when the task is found: until then
\* it may be any of these.
ToDecide == [ofTask |-> {"write", "read", "enter"},
             ofLink |-> {"write", "read", "enter", "link", "mine"}]
Undecided == {"ofTask", "ofLink"}
Needs == {"write", "read", "enter", "link", "mine", "own", "hardness", "keys"} \cup Undecided

\* "write access required to set portal hardness" is what that route answers
\* when it refuses.  It refuses those who have write access and lets the others
\* through, so the program keeps this policy only where it is not Strict.
\* The keys route asks for nothing: the keys are the requester's own.

Entitled(need, f) == CASE need = "write" -> Writes(f)
                       [] need = "read"  -> Reads(f)
                       [] need = "enter" -> Enters(f)
                       [] need = "link"  -> Writes(f) \/ f.mine
                       [] need = "mine"  -> f.mine
                       [] need = "own"   -> f.owner
                       [] need = "hardness" -> Strict => Writes(f)
                       [] need = "keys"  -> TRUE
                       [] OTHER          -> FALSE

\* task: the request is about the task, which has to be found first.
Ask   == [agent: Agents, need: Needs, task: BOOLEAN, granted: BOOLEAN]
NoAsk == [granted |-> FALSE]

Init == /\ asks = [h \in Handlers |-> NoAsk]
        /\ seen = [h \in Handlers |-> NoFacts]

Granted(h, needs) == asks[h] # NoAsk /\ asks[h].granted /\ asks[h].need \in needs
-----------------------------------------------------------------------------
Arrive(h) ==
  /\ asks[h] = NoAsk
  /\ asks'[h] \in Ask
  /\ asks'[h].granted => asks'[h].need = "keys"
  /\ UNCHANGED <<owner, members, perms, zone, rows>>

Decide(h) ==
  /\ asks[h] # NoAsk /\ asks[h].need \in Undecided
  /\ \E need \in ToDecide[asks[h].need] : asks'[h] = [asks[h] EXCEPT !.need = need]
  /\ UNCHANGED <<owner, members, perms, zone, rows>>

Grant(h) ==
  /\ asks[h] # NoAsk /\ asks'[h] = [asks[h] EXCEPT !.granted = TRUE]
  /\ Entitled(asks[h].need, seen[h])
  /\ asks[h].task => Finds(seen[h]) /\ Enters(seen[h])
  /\ UNCHANGED <<owner, members, perms, zone, rows>>

\* What may change on behalf of a request, by the authority it was granted.
\* The request may end with it.
Act(h) ==
  /\ asks'[h] \in {asks[h], NoAsk}
  /\ UNCHANGED members
  /\ owner' # owner \/ perms' # perms => Granted(h, {"own"})
  /\ zone' # zone => Granted(h, {"write"})
  /\ \A a \in Agents : rows'[a] # rows[a] =>
       \/ Granted(h, {"write"})
       \/ Granted(h, {"read", "enter", "mine"}) /\ a = asks[h].agent

\* Teams change by themselves; with a team go the permissions it was given.
TeamsChange ==
  /\ UNCHANGED <<owner, zone, rows, asks>>
  /\ \A p \in Perm : perms'[p] = perms[p] \/ (perms'[p] = 0 /\ members'[p.team] = {})

\* A request sees what is, until it is granted, as far as it is about that; of
\* what it has seen only the permissions matter then, for the announcement.
About(need, f) == CASE need = "own"      -> [NoFacts EXCEPT !.owner = f.owner]
                    [] need = "keys" \/ (need = "hardness" /\ ~Strict) -> NoFacts
                    [] OTHER             -> f
Sees(h) == IF asks'[h] = NoAsk THEN NoFacts
           ELSE IF asks'[h].granted THEN [NoFacts EXCEPT !.perms = seen[h].perms]
           ELSE Join(seen[h], About(asks'[h].need, Facts'[asks'[h].agent]))
Observed == seen' = [h \in Handlers |-> Sees(h)]
Others(h) == \A g \in Handlers \ {h} : asks'[g] = asks[g]

Next == /\ Observed
        /\ \/ TeamsChange
           \/ \E h \in Handlers : Others(h) /\ (Arrive(h) \/ Decide(h) \/ Grant(h) \/ Act(h))

vars == <<owner, members, perms, zone, rows, asks, seen>>
Spec == Init /\ [][Next]_vars
=============================================================================
