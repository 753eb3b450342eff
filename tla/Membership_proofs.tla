------------------------- MODULE Membership_proofs --------------------------
(***************************************************************************)
(* Theorems about Membership, for any agents, handlers and bounds: the     *)
(* type invariant, StraysHaveACause and SyncMirrorsV.  StraysHaveACause    *)
(* needs to know what a subscription under way stands on: whose it is, he  *)
(* is on the team or excused (LateInv); and that who is subscribed, or     *)
(* about to be, has a token in the table or is excused (TokenInv), for a   *)
(* removal that finds no token leaves the topic alone.  SyncMirrorsV needs *)
(* the invariant of Sync's two loops (SyncOk, below).                      *)
(***************************************************************************)
EXTENDS Membership, TLAPS

Named   == {"creator", "insert", "tokens", "subscribe", "delete", "untokens",
            "unsubscribe", "chown", "store", "teams"}
Leaving == {"untokens", "unsubscribe"}
Joining == {"tokens", "subscribe"}

\* A handler that acts on an agent has one.
WhoInv == \A h \in Handlers : req[h].at \in Named => req[h].who \in Agents

\* Before the team exists nobody does anything to it.
NoneInv == team = "none" =>
  /\ topic = {} /\ resub = {}
  /\ \A h \in Handlers : req[h].at \in {"idle", "store", "teams"}

LateInv == Live => \A a \in Agents : Subscribing(a) => a \in members \/ a \in excused

Sending(a) == a \in resub \/ \E g \in Handlers : req[g].who = a /\ req[g].at = "subscribe"

TokenInv == \A a \in Agents : a \in topic \/ Sending(a) => a \in tokens \/ a \in excused

Types  == TypeOK /\ WhoInv
Mirror == NoneInv /\ LateInv /\ TokenInv /\ StraysHaveACause
IInv   == Types /\ Mirror

\* One handler moves, to place l with agent a; the others stay.
Moves(h, l, a) ==
  /\ req'[h].at = l /\ req'[h].who = a
  /\ \A g \in Handlers \ {h} : req'[g].at = req[g].at /\ req'[g].who = req[g].who
-----------------------------------------------------------------------------
(* Moves of the handlers keep the types. *)

LEMMA IdleType == Idle \in Requests /\ Idle.at = "idle" /\ Idle.who = NoOne
BY DEF Idle, Requests, Places, Ops

LEMMA OneMoves ==
  ASSUME TypeOK, NEW h \in Handlers, NEW r \in Requests, req' = [req EXCEPT ![h] = r]
  PROVE  req' \in [Handlers -> Requests] /\ Moves(h, r.at, r.who)
BY DEF TypeOK, Moves

LEMMA GotoMoves ==
  ASSUME TypeOK, NEW h \in Handlers, NEW l \in Places, Goto(h, l)
  PROVE  req' \in [Handlers -> Requests] /\ Moves(h, l, req[h].who)
<1> DEFINE r == [req[h] EXCEPT !.at = l]
<1>1. r \in Requests /\ r.at = l /\ r.who = req[h].who
  BY DEF TypeOK, Requests
<1>2. req' = [req EXCEPT ![h] = r]
  BY DEF Goto
<1> QED BY <1>1, <1>2, OneMoves

LEMMA BackMoves ==
  ASSUME TypeOK, NEW h \in Handlers, NEW l \in Places, Back(h, l)
  PROVE  req' \in [Handlers -> Requests] /\ Moves(h, l, NoOne)
<1> DEFINE r == [req[h] EXCEPT !.at = l, !.who = NoOne]
<1>1. r \in Requests /\ r.at = l /\ r.who = NoOne
  BY DEF TypeOK, Requests
<1>2. req' = [req EXCEPT ![h] = r]
  BY DEF Back
<1> QED BY <1>1, <1>2, OneMoves

LEMMA FinishMoves ==
  ASSUME TypeOK, NEW h \in Handlers, Finish(h)
  PROVE  req' \in [Handlers -> Requests] /\ Moves(h, "idle", NoOne)
BY IdleType, OneMoves DEF Finish

LEMMA MarredFields ==
  ASSUME NEW r \in Requests
  PROVE  LET m == Marred(r)
         IN  /\ m \in Requests /\ ~m.clean
             /\ m.at = r.at /\ m.who = r.who /\ m.op = r.op
             /\ m.todo = r.todo /\ m.keep = r.keep /\ m.own = r.own
BY DEF Marred, Requests

LEMMA GiveUpMoves ==
  ASSUME TypeOK, NEW h \in Handlers, NEW l \in Places, GiveUp(h, l)
  PROVE  req' \in [Handlers -> Requests] /\ Moves(h, l, NoOne)
<1> DEFINE r == [req[h] EXCEPT !.at = l, !.who = NoOne]
<1>1. r \in Requests /\ r.at = l /\ r.who = NoOne
  BY DEF TypeOK, Requests
<1>2. req' = [req EXCEPT ![h] = Marred(r)]
  BY DEF GiveUp
<1> HIDE DEF r
<1> QED BY <1>1, <1>2, MarredFields, OneMoves

LEMMA DisturbMoves ==
  ASSUME TypeOK, NEW h \in Handlers, NEW r \in Requests, Disturb(h, r)
  PROVE  req' \in [Handlers -> Requests] /\ Moves(h, r.at, r.who)
<1>1. \A g \in Handlers : Marred(req[g]) \in Requests
  BY MarredFields DEF TypeOK
<1>2. \A g \in Handlers : Marred(req[g]).at = req[g].at /\ Marred(req[g]).who = req[g].who
  BY MarredFields DEF TypeOK
<1> QED BY <1>1, <1>2 DEF Disturb, Moves

LEMMA BeginMoves ==
  ASSUME TypeOK, NEW h \in Handlers, NEW a \in Agents, NEW op \in Ops, NEW l \in Places,
         Begin(h, op, a, l)
  PROVE  req' \in [Handlers -> Requests] /\ Moves(h, l, a)
<1> DEFINE r == [req[h] EXCEPT !.at = l, !.op = op, !.who = a]
<1>1. r \in Requests /\ r.at = l /\ r.who = a
  BY DEF TypeOK, Requests
<1>2. req' = [req EXCEPT ![h] = r]
  BY DEF Begin
<1> QED BY <1>1, <1>2, OneMoves

LEMMA BeginLoopMoves ==
  ASSUME TypeOK, NEW h \in Handlers, NEW list \in SUBSET Agents, NEW op \in Ops, NEW l \in Places,
         BeginLoop(h, op, l, list)
  PROVE  req' \in [Handlers -> Requests] /\ Moves(h, l, req[h].who)
<1> DEFINE r == [req[h] EXCEPT !.at = l, !.op = op, !.todo = list]
<1>1. r \in Requests /\ r.at = l /\ r.who = req[h].who
  BY DEF TypeOK, Requests
<1>2. req' = [req EXCEPT ![h] = r]
  BY DEF BeginLoop
<1> QED BY <1>1, <1>2, OneMoves

\* After AddAgent and RemoveAgent.
LEMMA AfterMoves ==
  ASSUME TypeOK, NEW h \in Handlers, Added(h) \/ Removed(h)
  PROVE  /\ req' \in [Handlers -> Requests]
         /\ \E l \in {"idle", "next", "prune"} : Moves(h, l, NoOne)
BY BackMoves, FinishMoves DEF Added, Removed, Places

\* Whoever moves to a place where he acts on an agent has one.
LEMMA MovesWho ==
  ASSUME Types, NEW h \in Handlers, NEW l, NEW a, Moves(h, l, a),
         l \in Named => a \in Agents
  PROVE  WhoInv'
BY DEF Types, WhoInv, Moves
-----------------------------------------------------------------------------
(* Steps that change nothing but the handler's locals: what the new place   *)
(* must not be for the mirror to stay explained.                            *)

LEMMA ReadsMirror ==
  ASSUME Mirror, Types, Reads, NEW h \in Handlers, NEW l, NEW a, Moves(h, l, a),
         l \in Joining => a = req[h].who /\ (req[h].at = "tokens" \/ a \in members),
         l = "subscribe" => a \in tokens,
         req[h].at \in Leaving => (l \in Leaving /\ a = req[h].who) \/ req[h].who \notin tokens,
         team = "none" => l \in {"idle", "store", "teams"}
  PROVE  Mirror'
<1> USE DEF Reads, db, Firebase, Live
<1>1. \A b \in Agents : Subscribing(b)' => Subscribing(b) \/ b \in members
  BY DEF Moves, Subscribing, Joining
<1>2. \A b \in Agents : Sending(b)' => Sending(b) \/ b \in tokens
  BY DEF Moves, Sending
<1>3. \A b \in Agents : Removing(b) => Removing(b)' \/ b \notin tokens
  BY DEF Moves, Removing, Leaving
<1>4. NoneInv'
  BY DEF Mirror, NoneInv, Moves
<1>5. LateInv'
  BY <1>1 DEF Mirror, LateInv
<1>6. TokenInv'
  BY <1>2 DEF Mirror, TokenInv
<1>7. StraysHaveACause'
  BY <1>3 DEF Mirror, StraysHaveACause, TokenInv, Types, TypeOK
<1> QED BY <1>4, <1>5, <1>6, <1>7 DEF Mirror

LEMMA ReadsInv ==
  ASSUME IInv, Reads, NEW h \in Handlers, NEW l, NEW a, Moves(h, l, a),
         req' \in [Handlers -> Requests],
         l \in Named => a \in Agents,
         l \in Joining => a = req[h].who /\ (req[h].at = "tokens" \/ a \in members),
         l = "subscribe" => a \in tokens,
         req[h].at \in Leaving => (l \in Leaving /\ a = req[h].who) \/ req[h].who \notin tokens,
         team = "none" => l \in {"idle", "store", "teams"}
  PROVE  IInv'
<1>1. TypeOK'
  BY DEF IInv, Types, TypeOK, Reads, db, Firebase
<1>2. WhoInv'
  BY MovesWho DEF IInv
<1>3. Mirror'
  BY ReadsMirror DEF IInv
<1> QED BY <1>1, <1>2, <1>3 DEF IInv, Types

LEMMA ArriveInv ==
  ASSUME IInv, NEW h \in Handlers, Arrive(h) \/ StoreCheck(h)
  PROVE  IInv'
<1> USE DEF Named, Joining, Leaving, At
<1>1. CASE Invite(h) \/ JoinToken(h) \/ RocksJoin(h)
  <2>1. PICK a \in Agents : Begin(h, "add", a, "insert")
    BY <1>1 DEF Invite, JoinToken, RocksJoin
  <2>2. Moves(h, "insert", a) /\ req' \in [Handlers -> Requests]
    BY <2>1, BeginMoves DEF IInv, Types, Ops, Places
  <2> QED BY <1>1, <2>1, <2>2, ReadsInv DEF Invite, JoinToken, RocksJoin, Begin, Live
<1>2. CASE Expel(h) \/ Leave(h)
  <2>1. PICK a \in Agents : Begin(h, "remove", a, "delete")
    BY <1>2 DEF Expel, Leave
  <2>2. Moves(h, "delete", a) /\ req' \in [Handlers -> Requests]
    BY <2>1, BeginMoves DEF IInv, Types, Ops, Places
  <2> QED BY <1>2, <2>1, <2>2, ReadsInv DEF Expel, Leave, Begin, Live
<1>3. CASE ChownTo(h)
  <2>1. PICK a \in Agents : Begin(h, "chown", a, "chown")
    BY <1>3 DEF ChownTo
  <2>2. Moves(h, "chown", a) /\ req' \in [Handlers -> Requests]
    BY <2>1, BeginMoves DEF IInv, Types, Ops, Places
  <2> QED BY <1>3, <2>1, <2>2, ReadsInv DEF ChownTo, Begin, Live
<1>4. CASE Disband(h) \/ RocksPull(h) \/ VSync(h)
  <2>1. PICK op \in Ops, l \in {"list", "next", "owner"}, list \in SUBSET Agents : BeginLoop(h, op, l, list)
    BY <1>4 DEF Disband, RocksPull, VSync, Ops
  <2>2. Moves(h, l, req[h].who) /\ req' \in [Handlers -> Requests]
    BY <2>1, BeginLoopMoves DEF IInv, Types, Places
  <2> QED BY <1>4, <2>1, <2>2, ReadsInv DEF Disband, RocksPull, VSync, BeginLoop, Live
<1>5. CASE StoreCheck(h)
  <2>1. PICK a \in Agents : Begin(h, "store", a, "store")
    BY <1>5 DEF StoreCheck
  <2>2. Moves(h, "store", a) /\ req' \in [Handlers -> Requests]
    BY <2>1, BeginMoves DEF IInv, Types, Ops, Places
  <2> QED BY <1>5, <2>1, <2>2, ReadsInv DEF StoreCheck, Begin
<1> QED BY <1>1, <1>2, <1>3, <1>4, <1>5 DEF Arrive

\* The tokens of the agent, and his teams.
LEMMA TokensInv ==
  ASSUME IInv, NEW h \in Handlers, AddTokens(h) \/ RemoveTokens(h) \/ StoreTeams(h)
  PROVE  IInv'
<1> USE DEF Named, Joining, Leaving, At, Places
<1>1. team = "none" => req[h].at \in {"idle", "store", "teams"}
  BY DEF IInv, Mirror, NoneInv
<1>2. req[h].at \in Named => req[h].who \in Agents
  BY DEF IInv, Types, WhoInv
<1>3. CASE Goto(h, "subscribe") /\ AddTokens(h)
  <2>1. Moves(h, "subscribe", req[h].who) /\ req' \in [Handlers -> Requests]
    BY <1>3, GotoMoves DEF IInv, Types
  <2>2. req[h].who \in tokens
    BY <1>2, <1>3, <2>1, AfterMoves DEF AddTokens, Moves, IInv, Types
  <2> QED BY <1>1, <1>2, <1>3, <2>1, <2>2, ReadsInv DEF AddTokens
<1>4. CASE Goto(h, "unsubscribe") /\ RemoveTokens(h)
  BY <1>1, <1>2, <1>4, GotoMoves, ReadsInv DEF RemoveTokens, IInv, Types
<1>5. CASE Goto(h, "tokens") /\ StoreTeams(h)
  <2>1. Moves(h, "tokens", req[h].who) /\ req' \in [Handlers -> Requests]
    BY <1>5, GotoMoves DEF IInv, Types
  <2>2. req[h].who \in members /\ req[h].who \in Agents
    BY <1>2, <1>5, <2>1, FinishMoves DEF StoreTeams, Moves, IInv, Types
  <2>3. members = {} \/ team # "none"
    BY DEF IInv, Types, TypeOK
  <2> QED BY <1>1, <1>2, <1>5, <2>1, <2>2, <2>3, ReadsInv DEF StoreTeams
<1>6. CASE Finish(h) /\ StoreTeams(h)
  BY <1>6, FinishMoves, ReadsInv DEF StoreTeams, IInv, Types
<1>7. CASE \/ AddTokens(h) /\ Added(h)
           \/ RemoveTokens(h) /\ Removed(h) /\ req[h].who \notin tokens
  <2>1. PICK l \in {"idle", "next", "prune"} : Moves(h, l, NoOne)
    BY <1>7, AfterMoves DEF IInv, Types
  <2>2. req' \in [Handlers -> Requests]
    BY <1>7, AfterMoves DEF IInv, Types
  <2> QED BY <1>1, <1>7, <2>1, <2>2, ReadsInv DEF AddTokens, RemoveTokens
<1> QED BY <1>3, <1>4, <1>5, <1>6, <1>7 DEF AddTokens, RemoveTokens, StoreTeams

\* Statements that fail, and a Firebase that AddAgent does not ask.
LEMMA FailsInv ==
  ASSUME IInv, NEW h \in Handlers, AddFails(h) \/ AddSkipped(h) \/ RemoveFails(h) \/ StatementFails(h)
  PROVE  IInv'
<1> USE DEF Named, Joining, Leaving, At, Places
<1>1. team = "none" => req[h].at \in {"idle", "store", "teams"}
  BY DEF IInv, Mirror, NoneInv
<1>2. /\ req' \in [Handlers -> Requests]
      /\ \E l \in {"idle", "next", "prune"} : Moves(h, l, NoOne)
  BY GiveUpMoves, AfterMoves, FinishMoves DEF AddFails, AddSkipped, RemoveFails, StatementFails, IInv, Types
<1>3. PICK l \in {"idle", "next", "prune"} : Moves(h, l, NoOne)
  BY <1>2
<1>4. l = "idle" \/ team # "none"
  <2>1. CASE StatementFails(h)
    <3>1. req'[h].at = "idle"
      BY <2>1, FinishMoves DEF StatementFails, Moves, IInv, Types
    <3> QED BY <1>3, <3>1 DEF Moves
  <2>2. CASE AddFails(h) \/ AddSkipped(h) \/ RemoveFails(h)
    BY <1>1, <2>2 DEF AddFails, AddSkipped, RemoveFails
  <2> QED BY <2>1, <2>2
<1>5. Reads /\ req[h].at \notin Leaving
  BY DEF AddFails, AddSkipped, RemoveFails, StatementFails
<1> QED BY <1>2, <1>3, <1>4, <1>5, ReadsInv

\* The loops, and the reads of Sync and Team.Delete.
LEMMA LoopInv ==
  ASSUME IInv, NEW h \in Handlers,
         Loop(h) \/ SyncOwner(h) \/ SyncFetch(h) \/ DisbandList(h) \/ Prune(h)
  PROVE  IInv'
<1> USE DEF Named, Joining, Leaving, At
<1>1. team # "none"
  BY DEF IInv, Mirror, NoneInv, Loop, SyncOwner, SyncFetch, DisbandList, Prune
<1>2. Reads /\ req[h].at \in {"next", "owner", "fetch", "list", "prune"}
  BY DEF Loop, SyncOwner, SyncFetch, DisbandList, Prune
<1>3. /\ req \in [Handlers -> Requests] /\ req[h] \in Requests
      /\ owner \in Agents \cup {NoOne} /\ members \subseteq Agents
  BY DEF IInv, Types, TypeOK
<1>4. \E l \in {"idle", "next", "insert", "fetch", "prune", "drop", "delete"}, a \in Agents \cup {NoOne} :
        Moves(h, l, a) /\ req' \in [Handlers -> Requests] /\ (l \in Named => a \in Agents)
  <2>1. CASE \E l \in {"fetch", "drop"} : Goto(h, l)
    BY <1>3, <2>1, GotoMoves DEF IInv, Types, Places, Requests
  <2>2. CASE Finish(h)
    BY <2>2, FinishMoves DEF IInv, Types
  <2>3. CASE \E r \in Requests : /\ req' = [req EXCEPT ![h] = r]
                               /\ \/ r.at = "insert" /\ r.who \in Agents
                                  \/ r.at = "delete" /\ r.who \in Agents
                                  \/ r.at \in {"next", "prune"}
    <3>1. PICK r \in Requests : /\ req' = [req EXCEPT ![h] = r]
                               /\ \/ r.at = "insert" /\ r.who \in Agents
                                  \/ r.at = "delete" /\ r.who \in Agents
                                  \/ r.at \in {"next", "prune"}
      BY <2>3
    <3>2. Moves(h, r.at, r.who) /\ req' \in [Handlers -> Requests]
      BY <3>1, OneMoves DEF IInv, Types
    <3>3. r.who \in Agents \cup {NoOne}
      BY DEF Requests
    <3> QED BY <3>1, <3>2, <3>3
  <2>4. CASE At(h, "next") /\ \E a \in req[h].todo : LoopOne(h, a)
    <3>1. PICK a \in req[h].todo : LoopOne(h, a)
      BY <2>4
    <3> DEFINE k == Keeping(h, a)
               r == [req[h] EXCEPT !.todo = @ \ {a}, !.keep = k]
               s == [req[h] EXCEPT !.todo = @ \ {a}, !.keep = k, !.at = "insert", !.who = a]
    <3>2. a \in Agents /\ k \in SUBSET Agents
      BY <1>3 DEF Requests, Keeping
    <3>3. req' = [req EXCEPT ![h] = r] \/ req' = [req EXCEPT ![h] = s]
      BY <3>1 DEF LoopOne
    <3> HIDE DEF k
    <3>4. r \in Requests /\ r.at = req[h].at
      BY <1>3, <3>2 DEF Requests
    <3>5. s \in Requests /\ s.at = "insert" /\ s.who = a
      BY <1>3, <3>2 DEF Requests, Places
    <3> QED BY <1>2, <2>3, <2>4, <3>2, <3>3, <3>4, <3>5
  <2>9. CASE At(h, "next") /\ \E a \in req[h].todo : LoopFails(h, a)
    <3>1. PICK a \in req[h].todo : LoopFails(h, a)
      BY <2>9
    <3>2. a \in Agents
      BY <1>3 DEF Requests
    <3>3. ASSUME NEW k \in {req[h].keep, Keeping(h, a)},
                 req' = [req EXCEPT ![h] = Marred([req[h] EXCEPT !.todo = @ \ {a}, !.keep = k])]
          PROVE  \E r \in Requests : req' = [req EXCEPT ![h] = r] /\ r.at = "next"
      <4> DEFINE r == [req[h] EXCEPT !.todo = @ \ {a}, !.keep = k]
      <4>1. r \in Requests /\ r.at = "next"
        BY <1>3, <2>9, <3>2, <3>3 DEF Requests, Keeping
      <4>2. req' = [req EXCEPT ![h] = Marred(r)]
        BY <3>3
      <4> HIDE DEF r
      <4>3. Marred(r) \in Requests /\ Marred(r).at = "next"
        BY <4>1, MarredFields
      <4> QED BY <4>2, <4>3
    <3>4. ASSUME req' = [req EXCEPT ![h].todo = @ \ {a}, ![h].at = "insert", ![h].who = a]
          PROVE  \E r \in Requests : req' = [req EXCEPT ![h] = r] /\ r.at = "insert" /\ r.who \in Agents
      <4> DEFINE r == [req[h] EXCEPT !.todo = @ \ {a}, !.at = "insert", !.who = a]
      <4>1. r \in Requests /\ r.at = "insert" /\ r.who \in Agents
        BY <1>3, <3>2 DEF Requests, Places
      <4>2. req' = [req EXCEPT ![h] = r]
        BY <3>4
      <4> QED BY <4>1, <4>2
    <3> QED BY <2>3, <3>1, <3>3, <3>4 DEF LoopFails
  <2>5. CASE SyncOwner(h)
    <3> DEFINE r == [req[h] EXCEPT !.own = owner, !.at = "next", !.list = req[h].todo, !.clean = TRUE]
    <3>1. r \in Requests /\ r.at = "next"
      BY <1>3 DEF Requests, Places
    <3>2. req' = [req EXCEPT ![h] = r]
      BY <2>5 DEF SyncOwner
    <3> QED BY <2>3, <3>1, <3>2
  <2>6. CASE \E t \in SUBSET Agents : req' = [req EXCEPT ![h].todo = t, ![h].at = "prune"]
    <3>1. PICK t \in SUBSET Agents : req' = [req EXCEPT ![h].todo = t, ![h].at = "prune"]
      BY <2>6
    <3> DEFINE r == [req[h] EXCEPT !.todo = t, !.at = "prune"]
    <3>2. r \in Requests /\ r.at = "prune"
      BY <1>3 DEF Requests, Places
    <3>3. req' = [req EXCEPT ![h] = r]
      BY <3>1
    <3> QED BY <2>3, <3>2, <3>3
  <2>7. CASE \E a \in req[h].todo :
               req' = [req EXCEPT ![h].todo = @ \ {a}, ![h].at = "delete", ![h].who = a]
    <3>1. PICK a \in req[h].todo :
               req' = [req EXCEPT ![h].todo = @ \ {a}, ![h].at = "delete", ![h].who = a]
      BY <2>7
    <3> DEFINE r == [req[h] EXCEPT !.todo = @ \ {a}, !.at = "delete", !.who = a]
    <3>2. r \in Requests /\ r.at = "delete" /\ r.who = a /\ a \in Agents
      BY <1>3 DEF Requests, Places
    <3>3. req' = [req EXCEPT ![h] = r]
      BY <3>1
    <3> QED BY <2>3, <3>2, <3>3
  <2>10. CASE SyncFetch(h) /\ Live
    <3>1. PICK seen \in Rows(members) :
            LET r == [req[h] EXCEPT !.todo = seen \ (req[h].keep \cup {req[h].own}), !.at = "prune"]
            IN  req' = [req EXCEPT ![h] = IF seen = members THEN r ELSE Marred(r)]
      BY <2>10 DEF SyncFetch
    <3> DEFINE r == [req[h] EXCEPT !.todo = seen \ (req[h].keep \cup {req[h].own}), !.at = "prune"]
    <3>2. seen \subseteq members
      BY DEF Rows
    <3>3. r \in Requests /\ r.at = "prune"
      BY <1>3, <3>2 DEF Requests, Places
    <3>4. req' = [req EXCEPT ![h] = IF seen = members THEN r ELSE Marred(r)]
      BY <3>1
    <3> HIDE DEF r
    <3>5. Marred(r) \in Requests /\ Marred(r).at = "prune"
      BY <3>3, MarredFields
    <3> QED BY <2>3, <3>3, <3>4, <3>5
  <2>8. \A seen \in Rows(members) : seen \in SUBSET Agents
    BY <1>3 DEF Rows
  <2>11. SyncFetch(h) => Finish(h) \/ Live
    BY DEF SyncFetch
  <2> QED BY <2>1, <2>2, <2>4, <2>5, <2>6, <2>7, <2>8, <2>9, <2>10, <2>11 DEF Loop, DisbandList, Prune
<1> QED BY <1>1, <1>2, <1>4, ReadsInv
-----------------------------------------------------------------------------
(* Steps that write. *)

LEMMA OwnerInv ==
  ASSUME IInv, NEW h \in Handlers, NewTeam(h) \/ CreatorJoins(h) \/ Chown(h)
  PROVE  IInv'
<1> USE DEF At, Firebase, db, Live
<1>1. CASE NewTeam(h)
  <2>1. PICK a \in Agents : Begin(h, "create", a, "creator") /\ owner' = a
    BY <1>1 DEF NewTeam
  <2>2. Moves(h, "creator", a) /\ req' \in [Handlers -> Requests]
    BY <2>1, BeginMoves DEF IInv, Types, Ops, Places
  <2>3. TypeOK'
    BY <1>1, <2>1, <2>2 DEF NewTeam, IInv, Types, TypeOK
  <2>4. WhoInv'
    BY <2>2, MovesWho DEF IInv
  <2>5. topic' = {} /\ resub' = {}
    BY <1>1 DEF NewTeam, IInv, Mirror, NoneInv
  <2>6. \A g \in Handlers : req'[g].at \in {"creator", "idle", "store", "teams"}
    BY <1>1, <2>2 DEF NewTeam, IInv, Mirror, NoneInv, Moves
  <2>7. Mirror'
    BY <1>1, <2>5, <2>6 DEF NewTeam, Mirror, NoneInv, LateInv, TokenInv, StraysHaveACause, Subscribing, Sending
  <2> QED BY <2>3, <2>4, <2>7 DEF IInv, Types
<1>2. CASE CreatorJoins(h)
  <2>1. Moves(h, "idle", NoOne) /\ req' \in [Handlers -> Requests]
    BY <1>2, DisturbMoves, IdleType DEF CreatorJoins, IInv, Types
  <2>2. req[h].who \in Agents /\ team # "none"
    BY <1>2 DEF CreatorJoins, IInv, Types, WhoInv, Named, Mirror, NoneInv
  <2>3. TypeOK'
    BY <1>2, <2>1, <2>2 DEF CreatorJoins, IInv, Types, TypeOK
  <2>4. WhoInv'
    BY <2>1, MovesWho DEF IInv, Named
  <2>5. Mirror'
    BY <1>2, <2>1, <2>2 DEF CreatorJoins, Moves, IInv, Mirror, NoneInv, LateInv, TokenInv,
                            StraysHaveACause, Subscribing, Sending, Removing
  <2> QED BY <2>3, <2>4, <2>5 DEF IInv, Types
<1>3. CASE Chown(h)
  <2>1. Moves(h, "idle", NoOne) /\ req' \in [Handlers -> Requests]
    BY <1>3, FinishMoves DEF Chown, IInv, Types
  <2>2. req[h].who \in Agents
    BY <1>3 DEF Chown, IInv, Types, WhoInv, Named
  <2>3. TypeOK'
    BY <1>3, <2>1, <2>2 DEF Chown, IInv, Types, TypeOK
  <2>4. WhoInv'
    BY <2>1, MovesWho DEF IInv, Named
  <2>5. Mirror'
    BY <1>3, <2>1 DEF Chown, Moves, IInv, Mirror, NoneInv, LateInv, TokenInv,
                      StraysHaveACause, Subscribing, Sending, Removing
  <2> QED BY <2>3, <2>4, <2>5 DEF IInv, Types
<1> QED BY <1>1, <1>2, <1>3

\* INSERT and DELETE of a member, of a token, of the team.
LEMMA RowsInv ==
  ASSUME IInv, NEW h \in Handlers,
         AddInsert(h) \/ RemoveDelete(h) \/ StoreInsert(h) \/ DisbandDrop(h)
  PROVE  IInv'
<1> USE DEF At, Firebase, db, Live
<1>1. CASE AddInsert(h)
  <2>1. PICK r \in Requests : Disturb(h, r) /\ r.at = "tokens" /\ r.who = req[h].who
    BY <1>1 DEF AddInsert, IInv, Types, TypeOK, Requests, Places
  <2>2. Moves(h, "tokens", req[h].who) /\ req' \in [Handlers -> Requests]
    BY <2>1, DisturbMoves DEF IInv, Types
  <2>3. req[h].who \in Agents /\ team # "none"
    BY <1>1 DEF AddInsert, IInv, Types, WhoInv, Named, Mirror, NoneInv
  <2>4. TypeOK'
    BY <1>1, <2>2, <2>3 DEF AddInsert, IInv, Types, TypeOK
  <2>5. WhoInv'
    BY <2>2, <2>3, MovesWho DEF IInv
  <2>6. Mirror'
    BY <1>1, <2>2, <2>3 DEF AddInsert, Moves, IInv, Mirror, NoneInv, LateInv, TokenInv,
                            StraysHaveACause, Subscribing, Sending, Removing
  <2> QED BY <2>4, <2>5, <2>6 DEF IInv, Types
<1>2. CASE RemoveDelete(h)
  <2>1. [req[h] EXCEPT !.at = "untokens"] \in Requests
    BY DEF IInv, Types, TypeOK, Requests, Places
  <2>2. Moves(h, "untokens", req[h].who) /\ req' \in [Handlers -> Requests]
    BY <1>2, <2>1, DisturbMoves DEF RemoveDelete, IInv, Types, TypeOK, Requests
  <2>3. req[h].who \in Agents /\ team # "none"
    BY <1>2 DEF RemoveDelete, IInv, Types, WhoInv, Named, Mirror, NoneInv
  <2>4. TypeOK'
    BY <1>2, <2>2, <2>3 DEF RemoveDelete, IInv, Types, TypeOK
  <2>5. WhoInv'
    BY <2>2, <2>3, MovesWho DEF IInv
  <2>6. Mirror'
    BY <1>2, <2>2, <2>3 DEF RemoveDelete, Moves, IInv, Mirror, NoneInv, LateInv, TokenInv,
                            StraysHaveACause, Subscribing, Sending, Removing
  <2> QED BY <2>4, <2>5, <2>6 DEF IInv, Types
<1>3. CASE StoreInsert(h)
  <2>1. Moves(h, "teams", req[h].who) /\ req' \in [Handlers -> Requests]
    BY <1>3, GotoMoves DEF StoreInsert, IInv, Types, Places
  <2>2. req[h].who \in Agents
    BY <1>3 DEF StoreInsert, IInv, Types, WhoInv, Named
  <2>3. TypeOK'
    BY <1>3, <2>1, <2>2 DEF StoreInsert, IInv, Types, TypeOK
  <2>4. WhoInv'
    BY <2>1, <2>2, MovesWho DEF IInv
  <2>5. Mirror'
    BY <1>3, <2>1 DEF StoreInsert, Moves, IInv, Mirror, NoneInv, LateInv, TokenInv,
                      StraysHaveACause, Subscribing, Sending, Removing
  <2> QED BY <2>3, <2>4, <2>5 DEF IInv, Types
<1>4. CASE DisbandDrop(h)
  <2>1. Moves(h, "idle", NoOne) /\ req' \in [Handlers -> Requests]
    BY <1>4, DisturbMoves, IdleType DEF DisbandDrop, IInv, Types
  <2>2. TypeOK'
    BY <1>4, <2>1 DEF DisbandDrop, IInv, Types, TypeOK
  <2>3. WhoInv'
    BY <2>1, MovesWho DEF IInv, Named
  <2>4. Mirror'
    BY <1>4, <2>1 DEF DisbandDrop, Moves, IInv, Mirror, NoneInv, LateInv, TokenInv,
                      StraysHaveACause, Sending
  <2> QED BY <2>2, <2>3, <2>4 DEF IInv, Types
<1> QED BY <1>1, <1>2, <1>3, <1>4

\* The calls to Firebase of AddAgent and RemoveAgent.
LEMMA CallsInv ==
  ASSUME IInv, NEW h \in Handlers,
         \/ Subscribe(h) \/ Unsubscribe(h) \/ SubscribeRefused(h) \/ UnsubscribeRefused(h)
         \/ RemoveSkipped(h)
  PROVE  IInv'
<1> USE DEF At, db, Live
<1>1. PICK l \in {"idle", "next", "prune"} : Moves(h, l, NoOne)
  BY AfterMoves DEF Subscribe, Unsubscribe, SubscribeRefused, UnsubscribeRefused, RemoveSkipped, IInv, Types
<1>2. req' \in [Handlers -> Requests]
  BY AfterMoves DEF Subscribe, Unsubscribe, SubscribeRefused, UnsubscribeRefused, RemoveSkipped, IInv, Types
<1>3. req[h].who \in Agents /\ team # "none"
  BY DEF Subscribe, Unsubscribe, SubscribeRefused, UnsubscribeRefused, RemoveSkipped, IInv, Types, WhoInv, Named, Mirror, NoneInv
<1>4. WhoInv'
  BY <1>1, MovesWho DEF IInv, Named
<1>5. NoneInv'
  BY <1>3 DEF Subscribe, Unsubscribe, SubscribeRefused, UnsubscribeRefused, RemoveSkipped, NoneInv
<1>6. CASE Subscribe(h)
  <2>1. TypeOK'
    BY <1>2, <1>3, <1>6 DEF Subscribe, IInv, Types, TypeOK
  <2>2. LateInv' /\ TokenInv' /\ StraysHaveACause'
    BY <1>1, <1>3, <1>6 DEF Subscribe, Moves, IInv, Mirror, LateInv, TokenInv,
                            StraysHaveACause, Subscribing, Sending, Removing
  <2> QED BY <1>4, <1>5, <2>1, <2>2 DEF IInv, Types, Mirror
<1>7. CASE Unsubscribe(h)
  <2>1. TypeOK'
    BY <1>2, <1>3, <1>7 DEF Unsubscribe, IInv, Types, TypeOK
  <2>2. LateInv' /\ TokenInv' /\ StraysHaveACause'
    BY <1>1, <1>3, <1>7 DEF Unsubscribe, Moves, IInv, Mirror, LateInv, TokenInv,
                            StraysHaveACause, Subscribing, Sending, Removing
  <2> QED BY <1>4, <1>5, <2>1, <2>2 DEF IInv, Types, Mirror
<1>8. CASE SubscribeRefused(h)
  <2>1. TypeOK'
    BY <1>2, <1>3, <1>8 DEF SubscribeRefused, IInv, Types, TypeOK
  <2>2. LateInv' /\ TokenInv' /\ StraysHaveACause'
    BY <1>1, <1>3, <1>8 DEF SubscribeRefused, Moves, IInv, Mirror, LateInv, TokenInv,
                            StraysHaveACause, Subscribing, Sending, Removing, Tracked
  <2> QED BY <1>4, <1>5, <2>1, <2>2 DEF IInv, Types, Mirror
<1>9. CASE UnsubscribeRefused(h)
  <2>1. TypeOK'
    BY <1>2, <1>3, <1>9 DEF UnsubscribeRefused, RemoveSkipped, IInv, Types, TypeOK
  <2>2. LateInv' /\ TokenInv' /\ StraysHaveACause'
    BY <1>1, <1>3, <1>9 DEF UnsubscribeRefused, Moves, IInv, Mirror, LateInv, TokenInv,
                            StraysHaveACause, Subscribing, Sending, Removing, Tracked
  <2> QED BY <1>4, <1>5, <2>1, <2>2 DEF IInv, Types, Mirror
<1>10. CASE RemoveSkipped(h)
  <2>1. TypeOK'
    BY <1>2, <1>3, <1>10 DEF RemoveSkipped, IInv, Types, TypeOK
  <2>2. LateInv' /\ TokenInv' /\ StraysHaveACause'
    BY <1>1, <1>3, <1>10 DEF RemoveSkipped, Moves, IInv, Mirror, LateInv, TokenInv,
                             StraysHaveACause, Subscribing, Sending, Removing, Tracked
  <2> QED BY <1>4, <1>5, <2>1, <2>2 DEF IInv, Types, Mirror
<1> QED BY <1>6, <1>7, <1>8, <1>9, <1>10

\* Steps of no handler.
LEMMA OthersInv ==
  ASSUME IInv,
         \/ \E a \in Agents : DropTokens(a)
         \/ ResubscribeRead \/ ResubscribeSend \/ ResubscribeFail
         \/ Crash
  PROVE  IInv'
<1> USE DEF db, Live, IInv, Types, TypeOK, Mirror, NoneInv, LateInv, TokenInv,
            StraysHaveACause, WhoInv, Subscribing, Sending, Removing
<1>1. ASSUME NEW a \in Agents, DropTokens(a) PROVE IInv'
  BY <1>1 DEF DropTokens, Tracked
<1>2. CASE ResubscribeRead
  BY <1>2 DEF ResubscribeRead, Rows
<1>3. CASE ResubscribeSend
  BY <1>3 DEF ResubscribeSend
<1>4. CASE ResubscribeFail
  BY <1>4 DEF ResubscribeFail, Tracked
<1>5. CASE Crash
  <2>1. req' \in [Handlers -> Requests] /\ \A g \in Handlers : req'[g].at = "idle"
    BY <1>5, IdleType DEF Crash
  <2> QED BY <1>5, <2>1 DEF Crash, Named
<1> QED BY <1>1, <1>2, <1>3, <1>4, <1>5
-----------------------------------------------------------------------------
(* The invariant and the theorems *)

LEMMA InitInv == Init => IInv
<1> SUFFICES ASSUME Init PROVE IInv
  OBVIOUS
<1>1. \A h \in Handlers : req[h] = Idle
  BY DEF Init
<1>2. Types
  BY <1>1, IdleType DEF Init, Types, TypeOK, WhoInv, Named
<1>3. Mirror
  BY <1>1, IdleType DEF Init, Mirror, NoneInv, LateInv, TokenInv, StraysHaveACause, Live, Sending
<1> QED BY <1>2, <1>3 DEF IInv

LEMMA NextInv == IInv /\ [Next]_vars => IInv'
<1> SUFFICES ASSUME IInv, [Next]_vars PROVE IInv'
  OBVIOUS
<1>1. ASSUME NEW h \in Handlers, Handler(h) PROVE IInv'
  BY <1>1, OwnerInv, ArriveInv, TokensInv, FailsInv, LoopInv, RowsInv, CallsInv DEF Handler, Add, Remove
<1>2. CASE \/ \E a \in Agents : DropTokens(a)
           \/ ResubscribeRead \/ ResubscribeSend \/ ResubscribeFail \/ Crash
  BY <1>2, OthersInv
<1>3. CASE UNCHANGED vars
  BY <1>3 DEF vars, db, IInv, Types, TypeOK, WhoInv, Mirror, NoneInv, LateInv, TokenInv,
              StraysHaveACause, Subscribing, Sending, Removing, Live
<1> QED BY <1>1, <1>2, <1>3 DEF Next

\* The variables keep their types, whatever runs at the same time.
THEOREM TypeCorrect == Spec => []TypeOK
<1>1. IInv => TypeOK
  BY DEF IInv, Types
<1> QED BY <1>1, InitInv, NextInv, PTL DEF Spec

\* Subscriptions of agents who are not on the team all come from a removal
\* that met a subscription under way, a Firebase that was not asked or refused,
\* a dropped token or a crash.
THEOREM StraysExplained == Spec => []StraysHaveACause
<1>1. IInv => StraysHaveACause
  BY DEF IInv, Mirror
<1> QED BY <1>1, InitInv, NextInv, PTL DEF Spec
-----------------------------------------------------------------------------
(* SyncMirrorsV: as long as nobody else changes the members, what Sync has   *)
(* looked at is on the team, and what it has still to remove is all there is *)
(* too much of.                                                              *)

Filling == {"next", "insert", "tokens", "subscribe"}
Pruning == {"prune", "delete", "untokens", "unsubscribe"}
Doomed(r) == IF r.at = "delete" THEN {r.who} ELSE {}

\* Of a handler's locals r, the members m and the life t of the team.
Fresh(r) == /\ r.at = "idle" => r.keep = {}
            /\ r.at = "owner" => r.op = "sync" /\ r.keep = {}

SyncOk(r, m, t) ==
  /\ Fresh(r)
  /\ r.clean => r.op = "sync" /\ r.at \in Filling \cup {"fetch"} \cup Pruning
  /\ r.clean => t = "live" \/ (t = "gone" /\ r.at \notin Pruning)
  /\ r.clean /\ t = "live" =>
       /\ r.at \in Filling => /\ r.list = r.keep \cup r.todo
                             /\ r.keep \subseteq m \cup (IF r.at = "insert" THEN {r.who} ELSE {})
       /\ r.at = "fetch" => r.list = r.keep /\ r.list \subseteq m
       /\ r.at \in Pruning => /\ r.list \subseteq m
                             /\ m \ (r.list \cup {r.own}) \subseteq r.todo \cup Doomed(r)
                             /\ (r.todo \cup Doomed(r)) \cap (r.list \cup {r.own}) = {}

SyncInv == \A h \in Handlers : SyncOk(req[h], members, team)

LEMMA IdleSync == ASSUME NEW m, NEW t PROVE SyncOk(Idle, m, t)
BY DEF Idle, SyncOk, Fresh

LEMMA OneSync ==
  ASSUME TypeOK, SyncInv, NEW h \in Handlers, NEW r, req' = [req EXCEPT ![h] = r],
         members' = members, team # "none" => team' = team, SyncOk(r, members, team')
  PROVE  SyncInv'
<1> SUFFICES ASSUME NEW g \in Handlers PROVE SyncOk(req'[g], members', team')
  BY DEF SyncInv
<1>1. req'[g] = IF g = h THEN r ELSE req[g]
  BY DEF TypeOK
<1>2. SyncOk(req[g], members, team)
  BY DEF SyncInv
<1>3. SyncOk(req[g], members, team')
  BY <1>2 DEF SyncOk
<1> QED BY <1>1, <1>3

SameLoop(r, q) == /\ r.op = q.op /\ r.todo = q.todo /\ r.list = q.list
                  /\ r.keep = q.keep /\ r.own = q.own /\ r.clean = q.clean

LEMMA DisturbSync ==
  ASSUME TypeOK, SyncInv, NEW h \in Handlers, NEW r, Disturb(h, r), SyncOk(r, members', team')
  PROVE  SyncInv'
<1> SUFFICES ASSUME NEW g \in Handlers PROVE SyncOk(req'[g], members', team')
  BY DEF SyncInv
<1>1. CASE g = h
  BY <1>1 DEF Disturb
<1>2. CASE g # h
  <2>1. req'[g] = Marred(req[g])
    BY <1>2 DEF Disturb
  <2>2. ~req'[g].clean /\ req'[g].at = req[g].at /\ req'[g].op = req[g].op /\ req'[g].keep = req[g].keep
    BY <2>1, MarredFields DEF TypeOK
  <2>3. Fresh(req[g])
    BY DEF SyncInv, SyncOk
  <2> QED BY <2>2, <2>3 DEF SyncOk, Fresh
<1> QED BY <1>1, <1>2

LEMMA GotoFields ==
  ASSUME NEW q \in Requests, NEW l
  PROVE  LET r == [q EXCEPT !.at = l] IN r.at = l /\ r.who = q.who /\ SameLoop(r, q)
BY DEF Requests, SameLoop

LEMMA BackFields ==
  ASSUME NEW q \in Requests, NEW l
  PROVE  LET r == [q EXCEPT !.at = l, !.who = NoOne] IN r.at = l /\ r.who = NoOne /\ SameLoop(r, q)
BY DEF Requests, SameLoop

LEMMA FinishSync ==
  ASSUME TypeOK, SyncInv, NEW h \in Handlers, members' = members, team' = team, Finish(h)
  PROVE  SyncInv'
BY IdleSync, OneSync DEF Finish

\* From statement to statement inside AddAgent, RemoveAgent and the loops.
LEMMA GotoSync ==
  ASSUME TypeOK, SyncInv, NEW h \in Handlers, NEW l \in Places \ {"idle", "owner"},
         members' = members, team' = team, Goto(h, l),
         \/ l = "subscribe" /\ At(h, "tokens")
         \/ l = "unsubscribe" /\ At(h, "untokens")
         \/ l = "fetch" /\ At(h, "next") /\ req[h].todo = {}
         \/ req[h].op = "disband"
         \/ At(h, "store")
         \/ At(h, "teams")
  PROVE  SyncInv'
<1> DEFINE q == req[h]
           r == [q EXCEPT !.at = l]
<1>1. q \in Requests /\ SyncOk(q, members, team)
  BY DEF TypeOK, SyncInv
<1>2. r.at = l /\ r.who = q.who /\ SameLoop(r, q)
  BY <1>1, GotoFields
<1>3. req' = [req EXCEPT ![h] = r]
  BY DEF Goto
<1> HIDE DEF r
<1>4. CASE l = "subscribe" /\ q.at = "tokens"
  <2>1. SyncOk(r, members, team)
    BY <1>1, <1>2, <1>4 DEF SyncOk, SameLoop, Filling, Pruning, Doomed, Fresh
  <2> QED BY <1>3, <2>1, OneSync
<1>5. CASE l = "unsubscribe" /\ q.at = "untokens"
  <2>1. SyncOk(r, members, team)
    BY <1>1, <1>2, <1>5 DEF SyncOk, SameLoop, Filling, Pruning, Doomed, Fresh
  <2> QED BY <1>3, <2>1, OneSync
<1>6. CASE l = "fetch" /\ q.at = "next" /\ q.todo = {}
  <2>1. SyncOk(r, members, team)
    BY <1>1, <1>2, <1>6 DEF SyncOk, SameLoop, Filling, Pruning, Doomed, Fresh
  <2> QED BY <1>3, <2>1, OneSync
<1>7. CASE q.op = "disband" \/ q.at \in {"store", "teams"}
  <2>1. ~r.clean
    BY <1>1, <1>2, <1>7 DEF SyncOk, SameLoop, Filling, Pruning
  <2>2. SyncOk(r, members, team)
    BY <1>2, <2>1 DEF SyncOk, Fresh
  <2> QED BY <1>3, <2>2, OneSync
<1> QED BY <1>4, <1>5, <1>6, <1>7 DEF At

\* From AddAgent and RemoveAgent back to the loop.
LEMMA BackSync ==
  ASSUME TypeOK, SyncInv, NEW h \in Handlers, members' = members, team' = team,
         \/ Added(h) /\ req[h].at \in {"tokens", "subscribe"}
         \/ Removed(h) /\ req[h].at \in {"untokens", "unsubscribe"}
  PROVE  SyncInv'
<1> DEFINE q == req[h]
           r(l) == [q EXCEPT !.at = l, !.who = NoOne]
<1>1. q \in Requests /\ SyncOk(q, members, team)
  BY DEF TypeOK, SyncInv
<1>2. r("next").at = "next" /\ SameLoop(r("next"), q)
  BY <1>1, BackFields
<1>3. r("prune").at = "prune" /\ SameLoop(r("prune"), q)
  BY <1>1, BackFields
<1>4. CASE Finish(h)
  BY <1>4, FinishSync
<1>5. CASE Back(h, "next") /\ q.at \in {"tokens", "subscribe"}
  <2>1. req' = [req EXCEPT ![h] = r("next")]
    BY <1>5 DEF Back
  <2> HIDE DEF r
  <2>2. SyncOk(r("next"), members, team)
    BY <1>1, <1>2, <1>5 DEF SyncOk, SameLoop, Filling, Pruning, Doomed, Fresh
  <2> QED BY <2>1, <2>2, OneSync
<1>6. CASE Back(h, "prune") /\ q.at \in {"untokens", "unsubscribe"}
  <2>1. req' = [req EXCEPT ![h] = r("prune")]
    BY <1>6 DEF Back
  <2> HIDE DEF r
  <2>2. SyncOk(r("prune"), members, team)
    BY <1>1, <1>3, <1>6 DEF SyncOk, SameLoop, Filling, Pruning, Doomed, Fresh
  <2> QED BY <2>1, <2>2, OneSync
<1> QED BY <1>4, <1>5, <1>6 DEF Added, Removed

\* A handler that is not, or no longer, a clean synchronisation.
LEMMA UncleanSync ==
  ASSUME TypeOK, SyncInv, NEW h \in Handlers, members' = members, team' = team,
         NEW r, req' = [req EXCEPT ![h] = r], ~r.clean, r.at \notin {"idle", "owner"}
  PROVE  SyncInv'
<1>1. SyncOk(r, members, team')
  BY DEF SyncOk, Fresh
<1> QED BY <1>1, OneSync

LEMMA FailsSync ==
  ASSUME TypeOK, SyncInv, NEW h \in Handlers,
         \/ AddFails(h) \/ AddSkipped(h) \/ RemoveFails(h) \/ RemoveSkipped(h) \/ StatementFails(h)
  PROVE  SyncInv'
<1>1. members' = members /\ team' = team
  BY DEF AddFails, AddSkipped, RemoveFails, RemoveSkipped, StatementFails, Reads, db
<1>2. ASSUME NEW l \in {"next", "prune"}, GiveUp(h, l) PROVE SyncInv'
  <2> DEFINE r == [req[h] EXCEPT !.at = l, !.who = NoOne]
  <2>1. r \in Requests /\ r.at = l
    <3>1. req[h] \in Requests
      BY DEF TypeOK
    <3>2. l \in Places
      BY DEF Places
    <3> QED BY <3>1, <3>2 DEF Requests
  <2>2. req' = [req EXCEPT ![h] = Marred(r)]
    BY <1>2 DEF GiveUp
  <2> HIDE DEF r
  <2>3. ~Marred(r).clean /\ Marred(r).at = l
    BY <2>1, MarredFields
  <2> QED BY <1>1, <2>2, <2>3, UncleanSync
<1>3. CASE AddFails(h) \/ RemoveFails(h)
  BY <1>1, <1>2, <1>3, FinishSync DEF AddFails, RemoveFails
<1>4. CASE AddSkipped(h)
  BY <1>1, <1>4, BackSync DEF AddSkipped, At
<1>5. CASE RemoveSkipped(h)
  BY <1>1, <1>5, BackSync DEF RemoveSkipped, At
<1>6. CASE StatementFails(h)
  BY <1>1, <1>6, FinishSync DEF StatementFails
<1> QED BY <1>3, <1>4, <1>5, <1>6

\* INSERT and DELETE of a member: the others' syncs are disturbed, the
\* handler's own goes on.
LEMMA MemberSync ==
  ASSUME TypeOK, SyncInv, NEW h \in Handlers, AddInsert(h) \/ RemoveDelete(h)
  PROVE  SyncInv'
<1> DEFINE q == req[h]
<1>1. q \in Requests /\ SyncOk(q, members, team)
  BY DEF TypeOK, SyncInv
<1>2. CASE AddInsert(h)
  <2> DEFINE r == [q EXCEPT !.at = "tokens"]
  <2>1. r.at = "tokens" /\ r.who = q.who /\ SameLoop(r, q)
    BY <1>1, GotoFields
  <2>2. Disturb(h, r) /\ q.at = "insert" /\ team' = team
    BY <1>2 DEF AddInsert, At, db
  <2>3. members' = IF team = "live" THEN members \cup {q.who} ELSE members
    BY <1>2 DEF AddInsert, Live
  <2> HIDE DEF r, q
  <2>4. SyncOk(r, members', team')
    BY <1>1, <2>1, <2>2, <2>3 DEF SyncOk, SameLoop, Filling, Pruning, Doomed, Fresh
  <2> QED BY <2>2, <2>4, DisturbSync
<1>3. CASE RemoveDelete(h)
  <2> DEFINE r == [q EXCEPT !.at = "untokens"]
  <2>1. r.at = "untokens" /\ r.who = q.who /\ SameLoop(r, q)
    BY <1>1, GotoFields
  <2>2. Disturb(h, r) /\ q.at = "delete" /\ team' = team /\ members' = members \ {q.who}
    BY <1>3 DEF RemoveDelete, At, db
  <2> HIDE DEF r, q
  <2>3. SyncOk(r, members', team')
    BY <1>1, <2>1, <2>2 DEF SyncOk, SameLoop, Filling, Pruning, Doomed, Fresh
  <2> QED BY <2>2, <2>3, DisturbSync
<1> QED BY <1>2, <1>3

\* The loops of Sync: it takes up an agent of the list, turns to the members,
\* takes up one who is too many.
LEMMA LoopSync ==
  ASSUME IInv, TypeOK, SyncInv, NEW h \in Handlers,
         Loop(h) \/ SyncOwner(h) \/ SyncFetch(h) \/ DisbandList(h) \/ Prune(h)
  PROVE  SyncInv'
<1> DEFINE q == req[h]
<1>1. /\ q \in Requests /\ SyncOk(q, members, team)
      /\ members' = members /\ team' = team
  BY DEF TypeOK, SyncInv, Loop, SyncOwner, SyncFetch, DisbandList, Prune, Reads, db
<1>2. CASE Loop(h)
  <2>1. CASE \E a \in q.todo : LoopOne(h, a)
    <3>1. PICK a \in q.todo : LoopOne(h, a)
      BY <2>1
    <3>2. q.at = "next"
      BY <1>2 DEF Loop, At
    <3> DEFINE k == Keeping(h, a)
               r == IF a \in members THEN [q EXCEPT !.todo = @ \ {a}, !.keep = k]
                    ELSE [q EXCEPT !.todo = @ \ {a}, !.keep = k, !.at = "insert", !.who = a]
    <3>3. req' = [req EXCEPT ![h] = r]
      BY <3>1 DEF LoopOne
    <3>4. /\ r.op = q.op /\ r.clean = q.clean /\ r.list = q.list
          /\ r.todo = q.todo \ {a} /\ r.keep = k
          /\ IF a \in members THEN r.at = q.at ELSE r.at = "insert" /\ r.who = a
      BY <1>1 DEF Requests
    <3>5. q.op = "sync" => k = q.keep \cup {a}
      BY DEF Keeping
    <3> HIDE DEF k, r
    <3>6. SyncOk(r, members, team)
      BY <1>1, <3>1, <3>2, <3>4, <3>5 DEF SyncOk, Fresh, Filling, Pruning
    <3> QED BY <1>1, <3>3, <3>6, OneSync
  <2>2. CASE q.todo = {} /\ (Goto(h, "fetch") \/ Finish(h))
    BY <1>1, <1>2, <2>2, GotoSync, FinishSync DEF Loop, Places
  <2>3. CASE \E a \in q.todo : LoopFails(h, a)
    <3>1. PICK a \in q.todo : LoopFails(h, a)
      BY <2>3
    <3>2. q.at = "next"
      BY <1>2 DEF Loop, At
    <3>3. ASSUME NEW k \in {q.keep, Keeping(h, a)},
                 req' = [req EXCEPT ![h] = Marred([req[h] EXCEPT !.todo = @ \ {a}, !.keep = k])]
          PROVE  SyncInv'
      <4> DEFINE r == [q EXCEPT !.todo = @ \ {a}, !.keep = k]
      <4>1. r \in Requests /\ r.at = "next"
        BY <1>1, <3>2, <3>3 DEF Requests, Keeping
      <4>2. req' = [req EXCEPT ![h] = Marred(r)]
        BY <3>3
      <4> HIDE DEF r
      <4>3. ~Marred(r).clean /\ Marred(r).at = "next"
        BY <4>1, MarredFields
      <4> QED BY <1>1, <4>2, <4>3, UncleanSync
    <3>4. ASSUME req' = [req EXCEPT ![h].todo = @ \ {a}, ![h].at = "insert", ![h].who = a],
                 q.op = "pull"
          PROVE  SyncInv'
      <4> DEFINE r == [q EXCEPT !.todo = @ \ {a}, !.at = "insert", !.who = a]
      <4>1. r.at = "insert" /\ r.clean = q.clean
        BY <1>1 DEF Requests
      <4>2. ~q.clean
        BY <1>1, <3>4 DEF SyncOk
      <4>3. req' = [req EXCEPT ![h] = r]
        BY <3>4
      <4> HIDE DEF r
      <4> QED BY <1>1, <4>1, <4>2, <4>3, UncleanSync
    <3> QED BY <3>1, <3>3, <3>4 DEF LoopFails
  <2> QED BY <1>2, <2>1, <2>2, <2>3 DEF Loop
<1>3. CASE SyncOwner(h)
  <2> DEFINE r == [q EXCEPT !.own = owner, !.at = "next", !.list = q.todo, !.clean = TRUE]
  <2>1. req' = [req EXCEPT ![h] = r]
    BY <1>3 DEF SyncOwner
  <2>2. r.op = q.op /\ r.todo = q.todo /\ r.keep = q.keep /\ r.at = "next" /\ r.list = q.todo
    BY <1>1 DEF Requests
  <2>3. q.at = "owner" /\ team \in {"live", "gone"}
    BY <1>3 DEF SyncOwner, At, IInv, Types, TypeOK, Mirror, NoneInv
  <2> HIDE DEF r
  <2>4. SyncOk(r, members, team)
    BY <1>1, <2>2, <2>3 DEF SyncOk, Fresh, Filling, Pruning
  <2> QED BY <1>1, <2>1, <2>4, OneSync
<1>4. CASE SyncFetch(h)
  <2>2. q.at = "fetch"
    BY <1>4 DEF SyncFetch, At
  <2>3. CASE Live
    <3>9. PICK seen \in Rows(members) :
            LET r == [q EXCEPT !.todo = seen \ (q.keep \cup {q.own}), !.at = "prune"]
            IN  req' = [req EXCEPT ![h] = IF seen = members THEN r ELSE Marred(r)]
      BY <1>4, <2>3 DEF SyncFetch
    <3> DEFINE t == seen \ (q.keep \cup {q.own})
               r == [q EXCEPT !.todo = t, !.at = "prune"]
    <3>10. /\ r.op = q.op /\ r.todo = t /\ r.list = q.list /\ r.own = q.own
           /\ r.at = "prune" /\ r.clean = q.clean
      BY <1>1 DEF Requests
    <3>11. r \in Requests
      BY <1>1 DEF Requests, Places, Rows, TypeOK
    <3>12. req' = [req EXCEPT ![h] = IF seen = members THEN r ELSE Marred(r)]
      BY <3>9
    <3>13. CASE seen # members
      <4> HIDE DEF r
      <4>1. ~Marred(r).clean /\ Marred(r).at = "prune"
        BY <3>10, <3>11, MarredFields
      <4> QED BY <1>1, <3>12, <3>13, <4>1, UncleanSync
    <3>14. CASE seen = members
      <4>1. req' = [req EXCEPT ![h] = r]
        BY <3>12, <3>14
      <4>2. q.clean => q.op = "sync" /\ q.list = q.keep /\ q.list \subseteq members
        BY <1>1, <2>2, <2>3 DEF SyncOk, Filling, Pruning, Live
      <4>3. q.clean => /\ members \ (q.list \cup {q.own}) \subseteq t
                       /\ t \cap (q.list \cup {q.own}) = {}
        BY <3>14, <4>2
      <4>4. Doomed(r) = {}
        BY <3>10 DEF Doomed
      <4> HIDE DEF r, t
      <4>5. r.clean => /\ r.op = "sync" /\ r.list \subseteq members
                       /\ members \ (r.list \cup {r.own}) \subseteq r.todo \cup Doomed(r)
                       /\ (r.todo \cup Doomed(r)) \cap (r.list \cup {r.own}) = {}
        BY <3>10, <4>2, <4>3, <4>4
      <4>6. r.at = "prune" /\ team = "live"
        BY <2>3, <3>10 DEF Live
      <4>7. Fresh(r) /\ r.at \in Pruning /\ r.at \notin Filling /\ r.at # "fetch"
        BY <4>6 DEF Fresh, Filling, Pruning
      <4>8. SyncOk(r, members, team)
        BY <4>5, <4>6, <4>7 DEF SyncOk
      <4> QED BY <1>1, <4>1, <4>8, OneSync
    <3> QED BY <3>13, <3>14
  <2>4. CASE ~Live
    BY <1>1, <1>4, <2>4, FinishSync DEF SyncFetch
  <2> QED BY <2>3, <2>4
<1>5. CASE DisbandList(h)
  <2>9. PICK seen \in Rows(members) : req' = [req EXCEPT ![h].todo = seen, ![h].at = "prune"]
    BY <1>5 DEF DisbandList
  <2> DEFINE r == [q EXCEPT !.todo = seen, !.at = "prune"]
  <2>1. req' = [req EXCEPT ![h] = r] /\ q.at = "list"
    BY <1>5, <2>9 DEF DisbandList, At
  <2>2. r.at = "prune" /\ r.clean = q.clean
    BY <1>1 DEF Requests
  <2> HIDE DEF r
  <2>3. SyncOk(r, members, team)
    BY <1>1, <2>1, <2>2 DEF SyncOk, Fresh, Filling, Pruning
  <2> QED BY <1>1, <2>1, <2>3, OneSync
<1>6. CASE Prune(h)
  <2>1. CASE \E a \in q.todo :
               req' = [req EXCEPT ![h].todo = @ \ {a}, ![h].at = "delete", ![h].who = a]
    <3>1. PICK a \in q.todo :
               req' = [req EXCEPT ![h].todo = @ \ {a}, ![h].at = "delete", ![h].who = a]
      BY <2>1
    <3> DEFINE r == [q EXCEPT !.todo = @ \ {a}, !.at = "delete", !.who = a]
    <3>2. req' = [req EXCEPT ![h] = r] /\ q.at = "prune"
      BY <1>6, <3>1 DEF Prune, At
    <3>3. /\ r.op = q.op /\ r.todo = q.todo \ {a} /\ r.list = q.list /\ r.own = q.own
          /\ r.at = "delete" /\ r.who = a /\ r.clean = q.clean
      BY <1>1 DEF Requests
    <3> HIDE DEF r
    <3>4. SyncOk(r, members, team)
      BY <1>1, <3>1, <3>2, <3>3 DEF SyncOk, Fresh, Filling, Pruning, Doomed
    <3> QED BY <1>1, <3>2, <3>4, OneSync
  <2>2. CASE IF q.op = "disband" THEN Goto(h, "drop") ELSE Finish(h)
    BY <1>1, <2>2, GotoSync, FinishSync DEF Places
  <2> QED BY <1>6, <2>1, <2>2 DEF Prune
<1> QED BY <1>2, <1>3, <1>4, <1>5, <1>6

\* A request arrives at an idle handler, with an empty map and no history.
LEMMA BeginSync ==
  ASSUME SyncInv, NEW h \in Handlers, At(h, "idle"), NEW t,
         NEW r, r.clean = req[h].clean, r.keep = req[h].keep,
         r.at # "idle", r.at = "owner" => r.op = "sync"
  PROVE  SyncOk(r, members, t)
<1>1. SyncOk(req[h], members, team) /\ req[h].at = "idle"
  BY DEF SyncInv, At
<1> QED BY <1>1 DEF SyncOk, Fresh, Filling, Pruning

LEMMA ArriveSync ==
  ASSUME TypeOK, SyncInv, NEW h \in Handlers, Arrive(h) \/ StoreCheck(h)
  PROVE  SyncInv'
<1> DEFINE q == req[h]
           Plain == {"insert", "delete", "chown", "store"}
<1>1. q \in Requests /\ members' = members /\ team' = team
  BY DEF TypeOK, Arrive, Invite, Expel, ChownTo, Disband, JoinToken, Leave, RocksJoin, RocksPull,
         VSync, StoreCheck, Reads, db
<1>2. ASSUME NEW op, NEW a, NEW l \in Plain, Begin(h, op, a, l)
      PROVE  SyncInv'
  <2> DEFINE r == [q EXCEPT !.at = l, !.op = op, !.who = a]
  <2>1. req' = [req EXCEPT ![h] = r] /\ At(h, "idle")
    BY <1>2 DEF Begin
  <2>2. r.at = l /\ r.clean = q.clean /\ r.keep = q.keep
    BY <1>1 DEF Requests
  <2> HIDE DEF r
  <2>3. SyncOk(r, members, team')
    BY <2>1, <2>2, BeginSync
  <2> QED BY <1>1, <2>1, <2>3, OneSync
<1>3. ASSUME NEW op, NEW list, NEW l \in {"list", "next", "owner"}, BeginLoop(h, op, l, list),
             l = "owner" => op = "sync"
      PROVE  SyncInv'
  <2> DEFINE r == [q EXCEPT !.at = l, !.op = op, !.todo = list]
  <2>1. req' = [req EXCEPT ![h] = r] /\ At(h, "idle")
    BY <1>3 DEF BeginLoop
  <2>2. r.at = l /\ r.op = op /\ r.clean = q.clean /\ r.keep = q.keep
    BY <1>1 DEF Requests
  <2> HIDE DEF r
  <2>3. SyncOk(r, members, team')
    BY <1>3, <2>1, <2>2, BeginSync
  <2> QED BY <1>1, <2>1, <2>3, OneSync
<1>4. CASE StoreCheck(h)
  BY <1>2, <1>4 DEF StoreCheck
<1>5. CASE Invite(h) \/ JoinToken(h) \/ RocksJoin(h)
  BY <1>2, <1>5 DEF Invite, JoinToken, RocksJoin
<1>6. CASE Expel(h) \/ Leave(h)
  BY <1>2, <1>6 DEF Expel, Leave
<1>7. CASE ChownTo(h)
  BY <1>2, <1>7 DEF ChownTo
<1>8. CASE Disband(h)
  BY <1>3, <1>8 DEF Disband
<1>9. CASE RocksPull(h)
  BY <1>3, <1>9 DEF RocksPull
<1>10. CASE VSync(h)
  BY <1>3, <1>10 DEF VSync
<1> QED BY <1>4, <1>5, <1>6, <1>7, <1>8, <1>9, <1>10 DEF Arrive

LEMMA RowSync ==
  ASSUME TypeOK, SyncInv, NEW h \in Handlers,
         NewTeam(h) \/ CreatorJoins(h) \/ Chown(h) \/ DisbandDrop(h)
  PROVE  SyncInv'
<1>1. CASE NewTeam(h)
  <2>1. PICK a \in Agents : Begin(h, "create", a, "creator")
    BY <1>1 DEF NewTeam
  <2> DEFINE r == [req[h] EXCEPT !.at = "creator", !.op = "create", !.who = a]
  <2>2. req' = [req EXCEPT ![h] = r] /\ At(h, "idle")
    BY <2>1 DEF Begin
  <2>3. r.at = "creator" /\ r.clean = req[h].clean /\ r.keep = req[h].keep
    BY DEF TypeOK, Requests
  <2>4. members' = members /\ team = "none"
    BY <1>1 DEF NewTeam
  <2> HIDE DEF r
  <2>5. SyncOk(r, members, team')
    BY <2>2, <2>3, BeginSync
  <2> QED BY <2>2, <2>4, <2>5, OneSync
<1>2. CASE CreatorJoins(h) \/ DisbandDrop(h)
  BY <1>2, IdleSync, DisturbSync DEF CreatorJoins, DisbandDrop
<1>3. CASE Chown(h)
  BY <1>3, FinishSync DEF Chown
<1> QED BY <1>1, <1>2, <1>3

\* The statements of AddAgent, RemoveAgent and StoreFirebaseToken that change
\* no member.
LEMMA TokenSync ==
  ASSUME TypeOK, SyncInv, NEW h \in Handlers,
         \/ AddTokens(h) \/ RemoveTokens(h) \/ Subscribe(h) \/ Unsubscribe(h)
         \/ SubscribeRefused(h) \/ UnsubscribeRefused(h) \/ StoreInsert(h) \/ StoreTeams(h)
  PROVE  SyncInv'
<1>1. members' = members /\ team' = team
  BY DEF AddTokens, RemoveTokens, Subscribe, Unsubscribe, SubscribeRefused, UnsubscribeRefused,
         StoreInsert, StoreTeams, Reads, db
<1>2. CASE AddTokens(h)
  BY <1>1, <1>2, GotoSync, BackSync DEF AddTokens, At, Places
<1>3. CASE RemoveTokens(h)
  BY <1>1, <1>3, GotoSync, BackSync DEF RemoveTokens, At, Places
<1>4. CASE Subscribe(h) \/ SubscribeRefused(h)
  BY <1>1, <1>4, BackSync DEF Subscribe, SubscribeRefused, At
<1>5. CASE Unsubscribe(h) \/ UnsubscribeRefused(h)
  BY <1>1, <1>5, BackSync DEF Unsubscribe, UnsubscribeRefused, At
<1>6. CASE StoreInsert(h)
  BY <1>1, <1>6, GotoSync DEF StoreInsert, Places
<1>7. CASE StoreTeams(h)
  BY <1>1, <1>7, GotoSync, FinishSync DEF StoreTeams, Places
<1> QED BY <1>2, <1>3, <1>4, <1>5, <1>6, <1>7

LEMMA NextSync ==
  ASSUME IInv, TypeOK, SyncInv, [Next]_vars
  PROVE  SyncInv'
<1>1. ASSUME req' = req, members' = members, team' = team
      PROVE  SyncInv'
  BY <1>1 DEF SyncInv
<1>2. ASSUME NEW h \in Handlers, Handler(h)
      PROVE  SyncInv'
  BY <1>2, RowSync, ArriveSync, MemberSync, TokenSync, FailsSync, LoopSync DEF Handler, Add, Remove
<1>3. CASE \/ \E a \in Agents : DropTokens(a)
           \/ ResubscribeRead \/ ResubscribeSend \/ ResubscribeFail
           \/ UNCHANGED vars
  BY <1>1, <1>3 DEF DropTokens, ResubscribeRead, ResubscribeSend, ResubscribeFail, vars, db
<1>4. CASE Crash
  BY <1>4, IdleSync DEF Crash, SyncInv
<1> QED BY <1>2, <1>3, <1>4 DEF Next

\* A synchronisation with V that nobody disturbs, and none of whose statements
\* fails, leaves V's list on the team (Sync), for any agents, handlers and bound.
THEOREM SyncLeavesVList == Spec => []SyncMirrorsV
<1>1. Init => SyncInv
  BY IdleSync DEF Init, SyncInv
<1>2. TypeOK /\ SyncInv => SyncMirrorsV
  <2> SUFFICES ASSUME TypeOK, SyncInv, NEW h \in Handlers,
                      req[h].op = "sync", req[h].at = "prune", req[h].todo = {}, req[h].clean
               PROVE  members \ {req[h].own} = req[h].list \ {req[h].own}
    BY DEF SyncMirrorsV
  <2>1. SyncOk(req[h], members, team)
    BY DEF SyncInv
  <2>2. team = "live" /\ Doomed(req[h]) = {}
    BY <2>1 DEF SyncOk, Pruning, Doomed
  <2> QED BY <2>1, <2>2 DEF SyncOk, Pruning
<1>3. IInv /\ SyncInv /\ [Next]_vars => SyncInv'
  BY NextSync DEF IInv, Types
<1>4. IInv /\ SyncInv => SyncMirrorsV
  BY <1>2 DEF IInv, Types
<1> QED BY <1>1, <1>3, <1>4, InitInv, NextInv, PTL DEF Spec
=============================================================================
