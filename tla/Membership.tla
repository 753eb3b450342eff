----------------------------- MODULE Membership -----------------------------
(***************************************************************************)
(* One team: its row, its members, and the mirror of the members in the    *)
(* Firebase topic of the team.  Owners invite, expel, hand over and delete;  *)
(* agents join by link and leave; enl.rocks and V push and are pulled; the *)
(* weekly Resubscribe refreshes the topic.  One action is one SQL statement *)
(* or one call to Firebase; handlers run at the same time.                 *)
(***************************************************************************)
EXTENDS Naturals, FiniteSets

CONSTANTS Agents, Handlers,
          NoOne,     \* no agent
          Faulty,    \* the database and Firebase refuse, tokens are dropped, the server dies
          MaxLoops   \* bound: loops over many agents at one time

ASSUME NoOneType    == NoOne \notin Agents
ASSUME FaultyType   == Faulty \in BOOLEAN
ASSUME MaxLoopsType == MaxLoops \in Nat

VARIABLES
  team,       \* "none", "live" or "gone": the row of table team
  owner,      \* team.owner
  members,    \* table agentteams
  tokens,     \* table firebase, at most one device per agent
  topic,      \* at Firebase: whose device is subscribed to the team's topic
  req,        \* locals of each handler
  resub,      \* whose tokens Resubscribe is about to subscribe
  excused     \* history: whose subscription was lost track of

db   == <<team, owner>>
vars == <<db, members, tokens, topic, req, resub, excused>>

Places == {"idle", "creator", "next", "insert", "tokens", "subscribe", "delete",
           "untokens", "unsubscribe", "chown", "list", "prune", "drop", "owner",
           "fetch", "store", "teams"}
Ops    == {"none", "create", "add", "remove", "chown", "disband", "pull", "sync", "store"}

Requests ==
  [at   : Places,
   op   : Ops,
   who  : Agents \cup {NoOne},  \* whom it is adding or removing, or makes owner
   todo : SUBSET Agents,        \* whom its loop has still to look at
   list : SUBSET Agents,        \* history: Sync: what V answered, as long as it is clean
   keep : SUBSET Agents,        \* Sync: atv, filled from list as the loop goes
   own  : Agents \cup {NoOne},  \* Sync: the owner it has read
   clean: BOOLEAN]              \* history: Sync: nobody else has changed the members,
                                \* no statement of its own has failed

Idle == [at |-> "idle", op |-> "none", who |-> NoOne, todo |-> {}, list |-> {},
         keep |-> {}, own |-> NoOne, clean |-> FALSE]

TypeOK == /\ team \in {"none", "live", "gone"}
          /\ owner \in Agents \cup {NoOne}
          /\ members \subseteq Agents
          /\ tokens \subseteq Agents
          /\ topic \subseteq Agents
          /\ req \in [Handlers -> Requests]
          /\ resub \subseteq Agents
          /\ excused \subseteq Agents
          /\ team # "live" => owner = NoOne /\ members = {}

Init == /\ team = "none" /\ owner = NoOne
        /\ members = {} /\ topic = {}
        /\ tokens \in SUBSET Agents
        /\ req = [h \in Handlers |-> Idle]
        /\ resub = {}
        /\ excused = {}
-----------------------------------------------------------------------------
At(h, l)      == req[h].at = l
Marred(r)     == [r EXCEPT !.clean = FALSE, !.list = {}]
Goto(h, l)    == req' = [req EXCEPT ![h].at = l]
Back(h, l)    == req' = [req EXCEPT ![h].at = l, ![h].who = NoOne]
GiveUp(h, l)  == req' = [req EXCEPT ![h] = Marred([req[h] EXCEPT !.at = l, !.who = NoOne])]
Finish(h)     == req' = [req EXCEPT ![h] = Idle]
Live          == team = "live"
Firebase      == <<tokens, topic, resub, excused>>
Loops         == {"pull", "sync", "disband"}

\* h goes on as r, having changed the members under the others' feet.
Disturb(h, r) == req' = [g \in Handlers |-> IF g = h THEN r ELSE Marred(req[g])]

\* A request arrives, or its route has checked that the owner sends it.
Begin(h, op, a, l) ==
  /\ At(h, "idle")
  /\ req' = [req EXCEPT ![h].at = l, ![h].op = op, ![h].who = a]
BeginLoop(h, op, l, list) ==
  /\ At(h, "idle")
  /\ Cardinality({g \in Handlers : req[g].op \in Loops}) < MaxLoops
  /\ req' = [req EXCEPT ![h].at = l, ![h].op = op, ![h].todo = list]
Reads == UNCHANGED <<db, members, Firebase>>

\* What a loop over rows gets to see of s: a row that cannot be scanned is
\* passed over, and nobody asks whether the rows ended early.
Rows(s) == IF Faulty THEN SUBSET s ELSE {s}
-----------------------------------------------------------------------------
(* NewTeam: the team, then its creator, who is not subscribed. *)
NewTeam(h) ==
  /\ team = "none"
  /\ \E a \in Agents : Begin(h, "create", a, "creator") /\ owner' = a
  /\ team' = "live"
  /\ UNCHANGED <<members, Firebase>>

CreatorJoins(h) ==
  /\ At(h, "creator")
  /\ members' = IF Live THEN members \cup {req[h].who} ELSE members
  /\ Disturb(h, Idle)
  /\ UNCHANGED <<db, Firebase>>

(* Routes of the owner that add, remove, hand over and delete: they look at *)
(* OwnsTeam, and act.                                                       *)
Invite(h)    == Live /\ (\E a \in Agents : Begin(h, "add", a, "insert")) /\ Reads
Expel(h)     == Live /\ (\E a \in Agents \ {owner} : Begin(h, "remove", a, "delete")) /\ Reads
ChownTo(h)   == Live /\ (\E a \in Agents : Begin(h, "chown", a, "chown")) /\ Reads
Disband(h)   == Live /\ BeginLoop(h, "disband", "list", {}) /\ Reads
(* Anybody: JoinToken looks at the team's link first, which the owner makes   *)
(* and takes back as he likes; on leaving nothing is checked.                *)
JoinToken(h) == Live /\ (\E a \in Agents : Begin(h, "add", a, "insert")) /\ Reads
Leave(h)     == Live /\ (\E a \in Agents : Begin(h, "remove", a, "delete")) /\ Reads
(* enl.rocks tells of one who joined (or left, as Leave), or is asked for all; *)
(* V is asked for all.  What they answer is any list.                        *)
RocksJoin(h) == Live /\ (\E a \in Agents \ members : Begin(h, "add", a, "insert")) /\ Reads
RocksPull(h) == Live /\ (\E l \in SUBSET Agents : BeginLoop(h, "pull", "next", l)) /\ Reads
VSync(h)     == Live /\ (\E l \in SUBSET Agents : BeginLoop(h, "sync", "owner", l)) /\ Reads

Arrive(h) == \/ Invite(h) \/ Expel(h) \/ ChownTo(h) \/ Disband(h) \/ JoinToken(h)
             \/ Leave(h) \/ RocksJoin(h) \/ RocksPull(h) \/ VSync(h)
-----------------------------------------------------------------------------
\* The second step of ChownTo: UPDATE team SET owner.
Chown(h) ==
  /\ At(h, "chown") /\ Finish(h)
  /\ owner' = IF Live THEN req[h].who ELSE owner
  /\ UNCHANGED <<team, members, Firebase>>
-----------------------------------------------------------------------------
(* AddAgent, called by routes and loops: INSERT IGNORE, the agent's tokens,  *)
(* SubscribeToTopic.                                                         *)
\* A loop goes on with the next agent.
Added(h) == IF req[h].op \in {"pull", "sync"} THEN Back(h, "next") ELSE Finish(h)

AddInsert(h) ==
  /\ At(h, "insert")
  /\ members' = IF Live THEN members \cup {req[h].who} ELSE members
  /\ Disturb(h, [req[h] EXCEPT !.at = "tokens"])
  /\ UNCHANGED <<db, Firebase>>

\* The INSERT fails: the error is logged, and a loop goes on.
AddFails(h) ==
  /\ Faulty
  /\ At(h, "insert")
  /\ IF req[h].op \in {"pull", "sync"} THEN GiveUp(h, "next") ELSE Finish(h)
  /\ Reads

AddTokens(h) ==
  /\ At(h, "tokens")
  /\ IF req[h].who \in tokens THEN Goto(h, "subscribe") ELSE Added(h)
  /\ Reads

\* Firebase is not running, or the tokens cannot be read.
AddSkipped(h) ==
  /\ Faulty
  /\ At(h, "tokens") /\ Added(h)
  /\ Reads

Subscribe(h) ==
  /\ At(h, "subscribe") /\ Added(h)
  /\ topic' = topic \cup {req[h].who}
  /\ UNCHANGED <<db, members, tokens, resub, excused>>
-----------------------------------------------------------------------------
(* RemoveAgent: DELETE, the agent's tokens, UnsubscribeFromTopic; then the   *)
(* agent is told to delete the team's operations.                           *)
Removed(h) == IF req[h].op \in {"sync", "disband"} THEN Back(h, "prune") ELSE Finish(h)

\* Someone has read, as a member's, a token of a and is going to subscribe it.
Subscribing(a) == \/ a \in resub
                  \/ \E g \in Handlers : req[g].who = a /\ req[g].at \in {"tokens", "subscribe"}
Removing(a)    == \E g \in Handlers : req[g].who = a /\ req[g].at \in {"untokens", "unsubscribe"}
Tracked(a)     == a \in topic \/ Subscribing(a)

RemoveDelete(h) ==
  /\ At(h, "delete")
  /\ members' = members \ {req[h].who}
  /\ excused' = IF Subscribing(req[h].who) THEN excused \cup {req[h].who} ELSE excused
  /\ Disturb(h, [req[h] EXCEPT !.at = "untokens"])
  /\ UNCHANGED <<db, tokens, topic, resub>>

\* The DELETE fails: the error is logged, and a loop goes on.
RemoveFails(h) ==
  /\ Faulty
  /\ At(h, "delete")
  /\ IF req[h].op \in {"sync", "disband"} THEN GiveUp(h, "prune") ELSE Finish(h)
  /\ Reads

RemoveTokens(h) ==
  /\ At(h, "untokens")
  /\ IF req[h].who \in tokens THEN Goto(h, "unsubscribe") ELSE Removed(h)
  /\ Reads

\* Firebase is not running, or the tokens cannot be read.
RemoveSkipped(h) ==
  /\ Faulty
  /\ At(h, "untokens") /\ Removed(h)
  /\ excused' = IF Tracked(req[h].who) THEN excused \cup {req[h].who} ELSE excused
  /\ UNCHANGED <<db, members, tokens, topic, resub>>

Unsubscribe(h) ==
  /\ At(h, "unsubscribe") /\ Removed(h)
  /\ topic' = topic \ {req[h].who}
  /\ excused' = IF Subscribing(req[h].who) THEN excused ELSE excused \ {req[h].who}
  /\ UNCHANGED <<db, members, tokens, resub>>

\* Firebase refuses the call, or this token, which is then dropped.  That the
\* subscription of a dead device is gone as well is left aside.
SubscribeRefused(h) ==
  /\ Faulty
  /\ At(h, "subscribe") /\ Added(h)
  /\ UNCHANGED <<db, members, topic, resub>>
  /\ \E drop \in SUBSET {req[h].who} :
       /\ tokens' = tokens \ drop
       /\ excused' = excused \cup {a \in drop : Tracked(a)'}

UnsubscribeRefused(h) ==
  /\ Faulty
  /\ At(h, "unsubscribe") /\ Removed(h)
  /\ tokens' \in {tokens, tokens \ {req[h].who}}
  /\ excused' = IF Tracked(req[h].who) THEN excused \cup {req[h].who} ELSE excused
  /\ UNCHANGED <<db, members, topic, resub>>
-----------------------------------------------------------------------------
(* The loops of CommunityMemberPull and Sync over those who should be members. *)
Keeping(h, a) == IF req[h].op = "sync" THEN req[h].keep \cup {a} ELSE {}

\* Mutant of LoopOne: the map atv is filled by those who are added.
LoopOneForgets(h, a) ==
  IF a \in members
  THEN req' = [req EXCEPT ![h].todo = @ \ {a}]
  ELSE req' = [req EXCEPT ![h].todo = @ \ {a}, ![h].keep = Keeping(h, a),
                          ![h].at = "insert", ![h].who = a]

LoopOne(h, a) ==
  IF a \in members
  THEN req' = [req EXCEPT ![h].todo = @ \ {a}, ![h].keep = Keeping(h, a)]
  ELSE req' = [req EXCEPT ![h].todo = @ \ {a}, ![h].keep = Keeping(h, a),
                          ![h].at = "insert", ![h].who = a]

\* Sync passes over an agent it cannot enter as known, or of whom it cannot
\* tell whether he is on the team: the latter is in atv already.  The pull
\* takes an error there for a no.
LoopFails(h, a) ==
  /\ Faulty
  /\ \/ /\ req[h].op = "sync"
        /\ \E keep \in {req[h].keep, Keeping(h, a)} :
             req' = [req EXCEPT ![h] = Marred([req[h] EXCEPT !.todo = @ \ {a}, !.keep = keep])]
     \/ /\ req[h].op = "pull"
        /\ req' = [req EXCEPT ![h].todo = @ \ {a}, ![h].at = "insert", ![h].who = a]

Loop(h) ==
  /\ At(h, "next")
  /\ \/ \E a \in req[h].todo : LoopOne(h, a) \/ LoopFails(h, a)
     \/ /\ req[h].todo = {}
        /\ IF req[h].op = "sync" THEN Goto(h, "fetch") ELSE Finish(h)
  /\ Reads

SyncOwner(h) ==
  /\ At(h, "owner")
  /\ req' = [req EXCEPT ![h].own = owner, ![h].at = "next",
                        ![h].list = req[h].todo, ![h].clean = TRUE]
  /\ Reads

\* FetchTeam fails when the team is gone.
SyncFetch(h) ==
  /\ At(h, "fetch")
  /\ IF Live
     THEN \E seen \in Rows(members) :
            LET r == [req[h] EXCEPT !.todo = seen \ (req[h].keep \cup {req[h].own}), !.at = "prune"]
            IN  req' = [req EXCEPT ![h] = IF seen = members THEN r ELSE Marred(r)]
     ELSE Finish(h)
  /\ Reads

(* Team.Delete: its members one by one, then the row, which takes the rest. *)
DisbandList(h) ==
  /\ At(h, "list")
  /\ \E seen \in Rows(members) : req' = [req EXCEPT ![h].todo = seen, ![h].at = "prune"]
  /\ Reads

Prune(h) ==
  /\ At(h, "prune")
  /\ \/ \E a \in req[h].todo : req' = [req EXCEPT ![h].todo = @ \ {a}, ![h].at = "delete", ![h].who = a]
     \/ /\ req[h].todo = {}
        /\ IF req[h].op = "disband" THEN Goto(h, "drop") ELSE Finish(h)
  /\ Reads

\* Mutant of DisbandDrop: without ON DELETE CASCADE the members stay.
DisbandDropRow(h) ==
  /\ At(h, "drop")
  /\ team' = "gone" /\ owner' = NoOne
  /\ Finish(h)
  /\ UNCHANGED <<members, Firebase>>

DisbandDrop(h) ==
  /\ At(h, "drop")
  /\ team' = "gone" /\ owner' = NoOne /\ members' = {}
  /\ Disturb(h, Idle)
  /\ UNCHANGED Firebase
-----------------------------------------------------------------------------
(* StoreFirebaseToken: a new token is stored, then subscribed to the agent's *)
(* teams.                                                                   *)
StoreCheck(h) ==
  /\ \E a \in Agents \ tokens : Begin(h, "store", a, "store")
  /\ Reads

StoreInsert(h) ==
  /\ At(h, "store") /\ Goto(h, "teams")
  /\ tokens' = tokens \cup {req[h].who}
  /\ UNCHANGED <<db, members, topic, resub, excused>>

StoreTeams(h) ==
  /\ At(h, "teams")
  /\ IF req[h].who \in members THEN Goto(h, "tokens") ELSE Finish(h)
  /\ Reads

\* RISC: RemoveAllFirebaseTokens tells Firebase nothing.
DropTokens(a) ==
  /\ Faulty
  /\ a \in tokens
  /\ tokens' = tokens \ {a}
  /\ excused' = IF Tracked(a) THEN excused \cup {a} ELSE excused
  /\ UNCHANGED <<db, members, topic, req, resub>>
-----------------------------------------------------------------------------
(* Resubscribe: the tokens of the members, then one SubscribeToTopic. *)
\* Mutant of ResubscribeRead: without the JOIN, everybody's tokens.
ResubscribeReadAll ==
  /\ Live /\ resub = {}
  /\ resub' = tokens
  /\ UNCHANGED <<db, members, tokens, topic, req, excused>>

ResubscribeRead ==
  /\ Live /\ resub = {}
  /\ resub' \in Rows(tokens \cap members)
  /\ UNCHANGED <<db, members, tokens, topic, req, excused>>

ResubscribeSend ==
  /\ resub # {}
  /\ topic' = topic \cup resub
  /\ resub' = {}
  /\ UNCHANGED <<db, members, tokens, req, excused>>

\* The call fails, or some tokens do: internal errors are passed over, tokens
\* that are dead are dropped.
ResubscribeFail ==
  /\ Faulty
  /\ \E done \in SUBSET resub \ {resub} : \E drop \in SUBSET (resub \ done) :
       /\ topic' = topic \cup done
       /\ tokens' = tokens \ drop
       /\ excused' = excused \cup {a \in drop : Tracked(a)}
  /\ resub' = {}
  /\ UNCHANGED <<db, members, req>>
-----------------------------------------------------------------------------
\* Any other statement fails: the handler returns what it has done so far.
StatementFails(h) ==
  /\ Faulty
  /\ req[h].at \in {"creator", "chown", "list", "drop", "owner", "fetch", "store", "teams"}
  /\ Finish(h)
  /\ Reads

\* The server dies and starts again.
Crash ==
  /\ Faulty
  /\ \E h \in Handlers : ~At(h, "idle")
  /\ req' = [h \in Handlers |-> Idle]
  /\ resub' = {}
  /\ excused' = excused \cup {a \in Agents : Removing(a)}
  /\ UNCHANGED <<db, members, tokens, topic>>

Add(h)    == \/ AddInsert(h) \/ AddTokens(h) \/ Subscribe(h)
             \/ AddFails(h) \/ AddSkipped(h) \/ SubscribeRefused(h)
Remove(h) == \/ RemoveDelete(h) \/ RemoveTokens(h) \/ Unsubscribe(h)
             \/ RemoveFails(h) \/ RemoveSkipped(h) \/ UnsubscribeRefused(h)
Handler(h) ==
  \/ NewTeam(h) \/ CreatorJoins(h) \/ Arrive(h) \/ Chown(h)
  \/ Add(h) \/ Remove(h) \/ StatementFails(h)
  \/ Loop(h) \/ SyncOwner(h) \/ SyncFetch(h) \/ DisbandList(h) \/ Prune(h) \/ DisbandDrop(h)
  \/ StoreCheck(h) \/ StoreInsert(h) \/ StoreTeams(h)

Next == \/ \E h \in Handlers : Handler(h)
        \/ \E a \in Agents : DropTokens(a)
        \/ ResubscribeRead \/ ResubscribeSend \/ ResubscribeFail
        \/ Crash

Spec == Init /\ [][Next]_vars
-----------------------------------------------------------------------------
(* Properties *)

\* Whoever is subscribed to the topic of a team he is not on is being removed
\* right now, or his removal met one of these: a subscription on its way, a
\* Firebase that is not running or refuses, tokens that could not be read or
\* were dropped, a crash (RemoveAgent, removeFromRemote, Resubscribe).  Any
\* other order of adding, removing and resubscribing leaves no stray.
StraysHaveACause == Live => \A a \in topic \ members : Removing(a) \/ a \in excused

\* A synchronisation with V during which nobody else changed the members, and
\* whose own statements all worked, leaves exactly V's list on the team, the
\* owner apart (Sync: first everybody is added, then the rest is removed).
SyncMirrorsV ==
  \A h \in Handlers :
    LET r == req[h] IN
    r.op = "sync" /\ r.at = "prune" /\ r.todo = {} /\ r.clean
      => members \ {r.own} = r.list \ {r.own}
=============================================================================
