------------------------------ MODULE Session ------------------------------
(***************************************************************************)
(* Who gets in: accounts and their first login, Google, Apple and one-time *)
(* token logins, the authentication middleware, refreshing and revoking    *)
(* session tokens (JWT), the verdicts of V and enl.rocks with their cache,  *)
(* and the RISC events of Google that lock, unlock and purge accounts.     *)
(* One action is one SQL statement, one call to a service or one look at a *)
(* list in memory; requests, the RISC worker and the peers interleave.     *)
(* Any statement may fail: a check that cannot read lets the agent in, the *)
(* worker does not look, and the rest ends the request.                    *)
(* Tables: agent (known, locked, smurfs, ott), v or rocks (cache).         *)
(***************************************************************************)
EXTENDS Naturals, Sequences, FiniteSets

CONSTANTS Agents, Handlers,
          Listings,           \* what keeps an agent out at the provider
          MaxLogins, MaxJwts, \* bounds: session tokens, and the refreshed ones included
          MaxOtts,            \* bound: one-time tokens
          MaxChecks,          \* bound: requests in Authorize at one time
          MaxMoves            \* bound: RISC events, peers, failures, restarts

\* "flagged" (or quarantined, or banned) is V's; at enl.rocks "blacklisted" is a smurf.
ASSUME ListingsType == {"blacklisted"} \subseteq Listings /\ Listings \subseteq {"flagged", "blacklisted"}
ASSUME BoundsType == {MaxLogins, MaxJwts, MaxOtts, MaxChecks, MaxMoves} \subseteq Nat

VARIABLES
  known,      \* rows of agent
  locked,     \* of these, RISC = 1
  smurfs,     \* of these, intelfaction = RES
  ott,        \* agent.OneTimeToken, by number of issue; 0: no row
  cache,      \* what table v (rocks) says of an agent
  jwts,       \* session tokens; one that expires only does less
  revoked,    \* auth.revokedjwt, in memory
  riscchan,   \* RISC: the channel between webhook and worker
  working,    \* RISC: the event Start is handling, if any
  feed,       \* RISC: "up", or "closed" by disableWebhook
  req,        \* locals of each request
  drawn,      \* how many session tokens, one-time tokens there have been
  moves,      \* how much of what MaxMoves bounds there has been
  disabled,   \* history: whom Google has disabled, by the events accepted
  excused,    \* history: whose lock or unlock was lost, since the last that was not
  used,       \* history: one-time tokens Increment has answered for
  unspent,    \* history: of these, those it could not replace
  dead        \* history: logins some token of which is revoked

account == <<known, locked, smurfs, ott>>
verdict == <<cache>>
risc    == <<riscchan, working, feed, disabled>>
tokens  == <<jwts, revoked, dead>>
spent   == <<used, unspent>>
vars    == <<account, verdict, risc, tokens, spent, req, drawn, excused, moves>>

Verdicts == {"none", "good"} \cup Listings
Kinds    == {"disabled", "enabled", "purged"}   \* no other changes anything
Events   == [kind : Kinds, who : Agents]
\* The tokens, by number of issue; root (history): that of the one its login began with.
Jwts     == [no : 1..MaxJwts, id : 1..MaxJwts, root : 1..MaxJwts, sub : Agents]
Claims   == [id : 1..MaxJwts, root : 1..MaxJwts]
Grounds  == {"risc", "smurf", "listed"}
Places   == {"replace", "valid", "first", "risc", "smurf", "cached", "ask", "keep",
             "mint", "intel", "delete"}

Idle == [at |-> "idle"]
Requests ==
  [at     : Places,
   op     : {"login", "ott", "me", "refresh"},
   who    : SUBSET Agents,          \* the agent
   mw     : BOOLEAN,                \* still in authMW
   jwt    : SUBSET Claims,          \* the token it came with
   ott    : 0..MaxOtts,             \* the one-time token it came with
   heard  : Verdicts,               \* the verdict it goes by
   barred : SUBSET Grounds,         \* history: grounds to refuse that last since Authorize
                                    \* began, none of which a failing query passed over
   again  : BOOLEAN]                \* history: it came with a one-time token already used

TypeOK == /\ known \subseteq Agents /\ locked \subseteq known /\ smurfs \subseteq known
          /\ ott \in [Agents -> 0..MaxOtts]
          /\ \A a, b \in known : ott[a] # 0 /\ (ott[a] = ott[b] => a = b)
          /\ cache \in [Agents -> Verdicts]
          /\ \A a \in Agents \ known : ott[a] = 0 /\ cache[a] = "none"
          /\ jwts \subseteq Jwts /\ revoked \subseteq 1..MaxJwts /\ dead \subseteq 1..MaxJwts
          /\ riscchan \in Seq(Events) /\ Len(riscchan) <= 1
          /\ working \subseteq Events /\ Cardinality(working) <= 1
          /\ feed \in {"up", "closed"}
          /\ req \in [Handlers -> Requests \cup {Idle}]
          /\ \A h \in Handlers : Cardinality(IF req[h] = Idle THEN {} ELSE req[h].who) <= 1
          /\ drawn \in [jwts : 0..MaxJwts, otts : 0..MaxOtts]
          /\ moves \in 0..MaxMoves
          /\ disabled \subseteq Agents /\ excused \subseteq Agents
          /\ used \subseteq 1..MaxOtts /\ unspent \subseteq used

Init == /\ known = {} /\ locked = {} /\ smurfs = {}
        /\ ott = [a \in Agents |-> 0]
        /\ cache = [a \in Agents |-> "none"]
        /\ jwts = {} /\ revoked = {} /\ dead = {}
        /\ riscchan = << >> /\ working = {} /\ feed = "up"
        /\ req = [h \in Handlers |-> Idle]
        /\ drawn = [jwts |-> 0, otts |-> 0] /\ moves = 0
        /\ disabled = {} /\ excused = {}
        /\ used = {} /\ unspent = {}
-----------------------------------------------------------------------------
At(h, l)   == req[h].at = l
Who(h)     == CHOOSE a \in Agents : a \in req[h].who
Goto(h, l) == req' = [req EXCEPT ![h].at = l]
Finish(h)  == req' = [req EXCEPT ![h] = Idle]
Refuse(h)  == Finish(h)

\* Requests in Authorize; MaxChecks bounds how many there are.
Checking   == {h \in Handlers : /\ req[h] # Idle /\ ~req[h].mw /\ req[h].op # "ott"
                                /\ req[h].at \notin {"intel", "delete"}}
CanCheck   == Cardinality(Checking) < MaxChecks

\* r, now that these grounds against agent a are gone.
Lifted(r, a, grounds) == IF r # Idle /\ a \in r.who THEN [r EXCEPT !.barred = @ \ grounds] ELSE r
Lift(a, grounds) == req' = [h \in Handlers |-> Lifted(req[h], a, grounds)]

Against(a) == {g \in Grounds : \/ g = "risc" /\ a \in locked
                               \/ g = "smurf" /\ a \in smurfs
                               \/ g = "listed" /\ cache[a] = "blacklisted"}
-----------------------------------------------------------------------------
(* The table agent. *)

\* Mutant of FirstLogin: REPLACE for INSERT IGNORE.
FirstLoginReplaces(a) ==
  /\ drawn.otts < MaxOtts
  /\ drawn'  = [drawn EXCEPT !.otts = @ + 1]
  /\ ott'    = [ott EXCEPT ![a] = drawn.otts + 1]
  /\ known'  = known \cup {a} /\ locked' = locked \ {a} /\ smurfs' = smurfs \ {a}

\* INSERT IGNORE with a new one-time token: a row that is there stays as it is.
FirstLogin(a) ==
  IF a \in known THEN UNCHANGED <<account, drawn>>
  ELSE /\ drawn.otts < MaxOtts
       /\ drawn' = [drawn EXCEPT !.otts = @ + 1]
       /\ ott'   = [ott EXCEPT ![a] = drawn.otts + 1]
       /\ known' = known \cup {a}
       /\ UNCHANGED <<locked, smurfs>>

\* The teams of a deleted agent are Membership's; the row takes the rest along.
Delete(a) ==
  /\ known' = known \ {a} /\ locked' = locked \ {a} /\ smurfs' = smurfs \ {a}
  /\ ott' = [ott EXCEPT ![a] = 0]
  /\ cache' = [cache EXCEPT ![a] = "none"]
  /\ excused' = excused \cup (locked \cap {a})

SetIntelData(a, res) ==
  smurfs' = IF a \notin known THEN smurfs ELSE IF res THEN smurfs \cup {a} ELSE smurfs \ {a}

\* Mutant of Lock: INSERT for UPDATE.
LockInserts(a) == locked' = locked \cup {a} /\ excused' = excused \ {a}

\* UPDATE agent SET RISC: nothing happens to an agent without a row.
Lock(a) ==
  /\ locked' = locked \cup ({a} \cap known)
  /\ excused' = IF a \in known THEN excused \ {a} ELSE excused \cup {a}
Unlock(a) ==
  /\ locked' = locked \ {a}
  /\ excused' = excused \ {a}
-----------------------------------------------------------------------------
(* Requests arrive. *)
NewRequest(h, op, at, who, jwt, token) ==
  /\ At(h, "idle")
  /\ req' = [req EXCEPT ![h] =
       [at |-> at, op |-> op, who |-> who, mw |-> op = "me", jwt |-> jwt, ott |-> token,
        heard |-> "none", again |-> token \in used,
        barred |-> IF op = "login" THEN UNION {Against(a) : a \in who} ELSE {}]]
  /\ UNCHANGED <<account, verdict, risc, tokens, spent, drawn, excused>>

\* Google, or Apple, vouches for the agent.
ApTokenRoute(h)      == \E a \in Agents : CanCheck /\ NewRequest(h, "login", "valid", {a}, {}, 0)
\* Gid finds who holds the one-time token.
OneTimeTokenRoute(h) == \E a \in known : NewRequest(h, "ott", "replace", {a}, {}, ott[a])

Claimed(t) == [id |-> t.id, root |-> t.root]

\* The middleware lets a token through that is valid and not revoked.
AuthMW(h) ==
  \E t \in jwts : t.id \notin revoked /\ NewRequest(h, "me", "valid", {t.sub}, {Claimed(t)}, 0)
-----------------------------------------------------------------------------
(* OneTimeToken.Increment *)

\* Authorize begins: what speaks against the agent now.
Authorizing(h, a) == [req[h] EXCEPT !.at = "valid", !.who = {a}, !.mw = FALSE, !.barred = Against(a),
                                !.op = IF @ = "ott" THEN "login" ELSE @, !.ott = 0, !.again = FALSE]

\* Mutant of NewOneTimeToken: the token stays.
NewOneTimeTokenKept(a) == UNCHANGED <<ott, drawn, unspent>>

NewOneTimeToken(a) ==
  /\ drawn.otts < MaxOtts
  /\ drawn' = [drawn EXCEPT !.otts = @ + 1]
  /\ ott' = IF a \in known THEN [ott EXCEPT ![a] = drawn.otts + 1] ELSE ott
  /\ UNCHANGED unspent

Replaced(h) ==
  /\ At(h, "replace") /\ CanCheck
  /\ used' = used \cup {req[h].ott}
  /\ req' = [req EXCEPT ![h] = Authorizing(h, Who(h))]
  /\ UNCHANGED <<known, locked, smurfs, verdict, risc, tokens, excused>>
Replace(h) == Replaced(h) /\ NewOneTimeToken(Who(h))
\* A failure is logged, and the request goes on.
ReplaceFails(h) == Replaced(h) /\ unspent' = unspent \cup {req[h].ott} /\ UNCHANGED <<ott, drawn>>
-----------------------------------------------------------------------------
(* Authorize, and its first lines, which authMW has as well. *)
Same == UNCHANGED <<account, verdict, risc, tokens, spent, drawn, excused>>

\* What the token's holder asks for (Logout's list is never read).
Route(h) == \/ \E at \in {"intel", "delete"} :
                 req' = [req EXCEPT ![h].at = at, ![h].mw = FALSE, ![h].jwt = {}]
            \/ Finish(h)
Refresh(h) == [Authorizing(h, Who(h)) EXCEPT !.op = "refresh"]

\* Mutant of Body: the refresh route goes by the middleware alone.
BodyUnchecked(h) ==
  Route(h) \/ req' = [req EXCEPT ![h] = [Refresh(h) EXCEPT !.at = "mint"]]

\* The route after the middleware: jwtrefresh calls Authorize.
Body(h) == \/ Route(h)
           \/ CanCheck /\ req' = [req EXCEPT ![h] = Refresh(h)]
Seen(h) == IF req[h].mw THEN Body(h) ELSE Goto(h, "risc")

\* An error is a no.
Valid(h) ==
  /\ At(h, "valid")
  /\ (Who(h) \in known /\ Seen(h)) \/ Goto(h, "first")
  /\ Same

\* It fails before or after the row is there: two statements.
First(h) ==
  /\ At(h, "first")
  /\ \/ FirstLogin(Who(h)) /\ (Seen(h) \/ Refuse(h))
     \/ UNCHANGED <<account, drawn>> /\ Refuse(h)
  /\ UNCHANGED <<verdict, risc, tokens, spent, excused>>

\* RISC and IntelSmurf say no of an agent whose row is gone.
CheckRISC(h)  == /\ At(h, "risc")
                 /\ IF Who(h) \in locked THEN Refuse(h) ELSE Goto(h, "smurf")
                 /\ Same
CheckSmurf(h) == /\ At(h, "smurf")
                 /\ IF Who(h) \in smurfs THEN Refuse(h) ELSE Goto(h, "cached")
                 /\ Same
-----------------------------------------------------------------------------
(* The provider, V or enl.rocks. *)
Granted(h) == Goto(h, "mint")
Decide(h, v) == IF v \in Listings THEN Refuse(h) ELSE Granted(h)

\* A row is good for an hour: any row may be older.
FromDB(h) ==
  /\ At(h, "cached")
  /\ \/ cache[Who(h)] # "none" /\ Decide(h, cache[Who(h)])
     \/ req' = [req EXCEPT ![h].at = "ask",
                           ![h].heard = IF cache[Who(h)] = "blacklisted" THEN "blacklisted" ELSE "none"]
  /\ Same

\* The query for a ground to refuse fails, which is not one: RISC and IntelSmurf
\* say no, and V and enl.rocks "do not block on db error".
Unread(h, l, ground) == req' = [req EXCEPT ![h].at = l, ![h].barred = @ \ {ground}]
QueryFails(h) ==
  /\ \/ At(h, "risc")   /\ Unread(h, "smurf", "risc")
     \/ At(h, "smurf")  /\ Unread(h, "cached", "smurf")
     \/ At(h, "cached") /\ Unread(h, "mint", "listed")
  /\ Same

\* No answer: only who is listed as blacklisted is kept out.
Unreachable(h) ==
  /\ At(h, "ask")
  /\ IF req[h].heard = "blacklisted" THEN Refuse(h) ELSE Granted(h)
  /\ Same

\* "Agent not found", or the service is switched off: VToDB keeps nothing.
NotFound(h) ==
  /\ At(h, "ask")
  /\ req' = [req EXCEPT ![h].at = "mint", ![h].barred = @ \ {"listed"}]
  /\ Same

Answer(h) ==
  /\ At(h, "ask")
  /\ \E v \in Verdicts \ {"none"} : req' = [req EXCEPT ![h].at = "keep", ![h].heard = v]
  /\ Same

\* VToDB, RocksToDB: the row goes with the agent's.  The verdict counts even if
\* it cannot be kept.
ToDB(h) ==
  /\ At(h, "keep")
  /\ LET a == Who(h)  v == req[h].heard
         r == [req[h] EXCEPT !.at = "mint", !.heard = "none", !.barred = @ \ {"listed"}] IN
     \E kept \in BOOLEAN :
       /\ kept => a \in known
       /\ IF kept THEN cache' = [cache EXCEPT ![a] = v] ELSE UNCHANGED verdict
       /\ req' = [g \in Handlers |->
            IF g = h THEN IF v = "good" THEN r ELSE Idle
            ELSE IF v = "blacklisted" \/ ~kept THEN req[g] ELSE Lifted(req[g], a, {"listed"})]
  /\ UNCHANGED <<account, risc, tokens, spent, drawn, excused>>
-----------------------------------------------------------------------------
(* The end of a login, and the routes. *)
Issue(id, root, a) ==
  /\ drawn.jwts < MaxJwts
  /\ drawn' = [drawn EXCEPT !.jwts = @ + 1]
  /\ jwts' = jwts \cup {[no |-> drawn.jwts + 1, id |-> id, root |-> root, sub |-> a]}

\* A token with an ID and a login of its own.
NewJwt(a) == drawn.jwts < MaxLogins /\ Issue(drawn.jwts + 1, drawn.jwts + 1, a)

\* Mutant of RefreshJwt: JwtID(util.GenerateID(16)).
RefreshJwtAnew(h) == \E t \in req[h].jwt : Issue(drawn.jwts + 1, t.root, Who(h))

\* The same ID, another week.
RefreshJwt(h) == \E t \in req[h].jwt : Issue(t.id, t.root, Who(h))

\* The login ends with GetAgent, which fails when the row is gone by now.
Mint(h) ==
  /\ At(h, "mint") /\ Finish(h)
  /\ \/ req[h].op = "refresh" /\ RefreshJwt(h)
     \/ req[h].op # "refresh" /\ Who(h) \in known /\ NewJwt(Who(h))
     \/ UNCHANGED <<jwts, drawn>>
  /\ UNCHANGED <<account, verdict, risc, revoked, dead, spent, excused>>

\* A statement of a route fails: there is an error to send.
RouteFails(h) == (At(h, "intel") \/ At(h, "delete")) /\ Finish(h) /\ Same

MeIntelID(h) ==
  /\ At(h, "intel")
  /\ \E res \in BOOLEAN :
       /\ SetIntelData(Who(h), res)
       /\ req' = [g \in Handlers |-> IF g = h THEN Idle
                                     ELSE IF res THEN req[g] ELSE Lifted(req[g], Who(h), {"smurf"})]
  /\ UNCHANGED <<known, locked, ott, verdict, risc, tokens, spent, drawn, excused>>

MeDelete(h) ==
  /\ At(h, "delete")
  /\ Delete(Who(h))
  /\ req' = [g \in Handlers |-> IF g = h THEN Idle ELSE Lifted(req[g], Who(h), Grounds)]
  /\ UNCHANGED <<risc, tokens, spent, drawn>>
-----------------------------------------------------------------------------
(* Peers, and the services that bring agents along. *)
\* AddFirebaseToken for an agent without a row, a V or rocks import.
Introduce(a) ==
  /\ FirstLogin(a)
  /\ UNCHANGED <<verdict, risc, tokens, spent, req, excused>>

\* Federation's SetIntelData: an UPDATE, which an unknown agent misses.
PeerIntelData(a) ==
  /\ \E res \in BOOLEAN : SetIntelData(a, res) /\ IF res THEN UNCHANGED req ELSE Lift(a, {"smurf"})
  /\ UNCHANGED <<known, locked, ott, verdict, risc, tokens, spent, drawn, excused>>

\* A token minted by a peer, which signs with the same key.
PeerMint(a) ==
  /\ NewJwt(a)
  /\ UNCHANGED <<account, verdict, risc, revoked, dead, spent, req, excused>>

RevokeJWT(id) ==
  /\ revoked' = revoked \cup {id}
  /\ dead' = dead \cup {t.root : t \in {u \in jwts : u.id = id}}
  /\ UNCHANGED <<account, verdict, risc, jwts, spent, req, drawn, excused>>
-----------------------------------------------------------------------------
(* RISC: the webhook puts events into a channel of one; Start takes them. *)

\* Of an event that cannot be sent, for the channel is full, Google's call waits.
Webhook(e) ==
  /\ feed = "up" /\ riscchan = << >>
  /\ riscchan' = << e >>
  /\ disabled' = CASE e.kind = "disabled" -> disabled \cup {e.who}
                   [] e.kind = "enabled"  -> disabled \ {e.who}
                   [] OTHER               -> disabled
  /\ UNCHANGED <<account, verdict, working, feed, tokens, spent, req, drawn, excused>>

\* Mutant of TakeEvent: Start stops with the channel closed, not drained.
TakeEventWhileUp ==
  /\ feed = "up"
  /\ working = {} /\ riscchan # << >>
  /\ working' = {Head(riscchan)} /\ riscchan' = Tail(riscchan)
  /\ UNCHANGED <<account, verdict, feed, disabled, tokens, spent, req, drawn, excused>>

TakeEvent ==
  /\ working = {} /\ riscchan # << >>
  /\ working' = {Head(riscchan)} /\ riscchan' = Tail(riscchan)
  /\ UNCHANGED <<account, verdict, feed, disabled, tokens, spent, req, drawn, excused>>

\* The event is done with all the same: "_ = gid.Lock", "_ = gid.Unlock" and
\* "_ = gid.Delete".
EventFails(e) ==
  /\ excused' = IF e.kind = "purged" THEN excused ELSE excused \cup {e.who}
  /\ UNCHANGED <<account, verdict, req>>

\* The firebase tokens an event drops are Membership's.
HandleEvent ==
  /\ working' = {}
  /\ \E e \in working :
       \/ EventFails(e)
       \/ /\ e.kind = "disabled" /\ Lock(e.who)
          /\ UNCHANGED <<known, smurfs, ott, verdict, req>>
       \/ /\ e.kind = "enabled" /\ Unlock(e.who) /\ Lift(e.who, {"risc"})
          /\ UNCHANGED <<known, smurfs, ott, verdict>>
       \/ /\ e.kind = "purged" /\ Delete(e.who) /\ Lift(e.who, Grounds)
  /\ UNCHANGED <<riscchan, feed, disabled, tokens, spent, drawn>>

\* registerWebhook ends, at shutdown or by an hourly call that fails; when
\* disableWebhook cannot reach Google either, the channel stays open.
DisableWebhook ==
  /\ feed = "up"
  /\ feed' = "closed"
  /\ UNCHANGED <<account, verdict, riscchan, working, disabled, tokens, spent, req, drawn, excused>>

\* StoreRevokedJWT stores nothing.  Lost events excuse the agents they were about.
Restart ==
  /\ req' = [h \in Handlers |-> Idle]
  /\ revoked' = {} /\ dead' = {}
  /\ riscchan' = << >> /\ working' = {} /\ feed' = "up"
  /\ excused' = excused \cup {e.who : e \in working} \cup {riscchan[i].who : i \in DOMAIN riscchan}
  /\ UNCHANGED <<account, verdict, jwts, disabled, spent, drawn>>
-----------------------------------------------------------------------------
Arrive(h)   == ApTokenRoute(h) \/ OneTimeTokenRoute(h) \/ AuthMW(h)
Provider(h) == FromDB(h) \/ Unreachable(h) \/ NotFound(h) \/ Answer(h) \/ ToDB(h)
Handler(h)  == \/ Arrive(h) \/ Replace(h) \/ Valid(h) \/ First(h)
               \/ CheckRISC(h) \/ CheckSmurf(h) \/ Provider(h) \/ Mint(h)
               \/ MeIntelID(h) \/ MeDelete(h) \/ RouteFails(h)
Peers       == \/ \E a \in Agents : Introduce(a) \/ PeerIntelData(a) \/ PeerMint(a)
               \/ \E t \in jwts : RevokeJWT(t.id)
Worker      == (TakeEvent \/ HandleEvent) /\ UNCHANGED moves
Moves       == \/ Peers \/ DisableWebhook \/ Restart
               \/ \E e \in Events : Webhook(e)
               \/ \E h \in Handlers : ReplaceFails(h) \/ QueryFails(h)

Next == \/ (\E h \in Handlers : Handler(h)) /\ UNCHANGED moves
        \/ Worker
        \/ Moves /\ moves < MaxMoves /\ moves' = moves + 1

\* The loop of Start takes and handles what is in the channel.
Spec == Init /\ [][Next]_vars /\ WF_vars(Worker)
-----------------------------------------------------------------------------
(* Properties *)

\* Authorize: no token is minted for an agent who was locked, declared RES or
\* listed as blacklisted when it began, unless that has changed since, or the one
\* query that would have shown it failed, of a service too that gave no verdict.
BarredStayOut == \A h \in Handlers : At(h, "mint") => req[h].barred = {}

\* Increment: a one-time token lets nobody in who comes after it was used,
\* unless its replacement failed.  (Two who come together both get in.)
UsedOnce ==
  \A h \in Handlers :
    req[h] # Idle /\ req[h].op = "ott" /\ req[h].again => req[h].ott \in unspent

\* IsRevokedJWT: until the server restarts, a revoked token is of no use, and
\* neither is what it was refreshed to before or after.
RevokedStayOut == [][\A h \in Handlers :
  req[h] = Idle /\ req'[h] # Idle => \A t \in req'[h].jwt : t.root \notin dead]_vars

Pending(a) == (\E e \in working : e.who = a) \/ (\E i \in DOMAIN riscchan : riscchan[i].who = a)

\* Start: once its events are handled, an agent with a row is locked exactly
\* when Google's last word was to disable him; the exceptions are a word that
\* came before the row, an UPDATE that failed unnoticed, a locked row that was
\* deleted, and events a restart lost.
LocksFollowEvents ==
  \A a \in known \ excused : ~Pending(a) => (a \in locked <=> a \in disabled)

\* Start: an event the webhook has accepted is handled, also after the channel
\* is closed (or it is lost by a restart).
EventsAreHandled == \A a \in Agents : Pending(a) ~> ~Pending(a)
=============================================================================
