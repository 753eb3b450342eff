---------------------------- MODULE Session_proofs ----------------------------
(***************************************************************************)
(* Theorems about Session, for any agents, handlers and bounds: the type   *)
(* invariant, and every property that MCSession checks but liveness.       *)
(*                                                                         *)
(* The invariant relates what a request carries to the tables: a ground    *)
(* that has spoken against its agent all the time is still in its table    *)
(* (Bars), the one-time token it came with is nobody else's (Brings); and  *)
(* it relates Google's words to the locks: the last word about an agent is *)
(* in the channel, with the worker, or done (Follows).  A request fits the *)
(* tables, before and after (Fits); every change to a table is a lemma on  *)
(* how what fitted before fits after it.                                   *)
(***************************************************************************)
EXTENDS Session, FiniteSetTheorems, TLAPS

(* The inductive invariant *)

\* Rows have one-time tokens of their own, all of them drawn.
AccountInv ==
  /\ drawn \in [jwts : 0..MaxJwts, otts : 0..MaxOtts]
  /\ known \subseteq Agents /\ locked \subseteq known /\ smurfs \subseteq known
  /\ ott \in [Agents -> 0..drawn.otts]
  /\ cache \in [Agents -> Verdicts]
  /\ \A a \in known : ott[a] # 0
  /\ \A a, b \in known : ott[a] = ott[b] => a = b
  /\ \A a \in Agents \ known : ott[a] = 0 /\ cache[a] = "none"

\* A refreshed token has the ID its login began with.
Original(t) == t.id = t.root
TokenInv ==
  /\ jwts \subseteq Jwts /\ \A t \in jwts : Original(t)
  /\ revoked \subseteq 1..MaxJwts /\ dead \subseteq revoked

\* A used token is nobody's, unless it could not be replaced.
SpentInv ==
  /\ used \subseteq 1..drawn.otts /\ unspent \subseteq used
  /\ \A a \in known : ott[a] \in used => ott[a] \in unspent

\* What Google has last said of a is what is yet to be done, first in the
\* channel q, then by the worker w; or it is done, unless a is excused.
Word(e, a) == e.who = a /\ e.kind # "purged"
Follows(a, q, w, d, l, x) ==
  /\ \A e \in q : Word(e, a) => (e.kind = "disabled") = (a \in d)
  /\ (\A e \in q : ~Word(e, a)) => \A e \in w : Word(e, a) => (e.kind = "disabled") = (a \in d)
  /\ (\A e \in q \cup w : ~Word(e, a)) /\ a \notin x => (a \in l) = (a \in d)

InChan(c) == {c[i] : i \in DOMAIN c}
RiscInv ==
  /\ riscchan = << >> \/ \E e \in Events : riscchan = << e >>
  /\ working = {} \/ \E e \in Events : working = {e}
  /\ feed \in {"up", "closed"}
  /\ disabled \subseteq Agents /\ excused \subseteq Agents
  /\ \A a \in Agents : Follows(a, InChan(riscchan), working, disabled, locked, excused)

\* A request is of one agent; the middleware has nothing against him.
Shape(r) ==
  /\ r \in Requests
  /\ \E a \in Agents : r.who = {a}
  /\ r.mw => r.barred = {}
  /\ r.op = "ott" <=> r.at = "replace"
  /\ \A t \in r.jwt : Original(t)

\* A ground against the agent lasts (locked l, smurfs s, cache c), and the
\* request has yet to come to it.
Bars(r, l, s, c) ==
  \A a \in r.who :
    /\ "risc" \in r.barred => a \in l /\ r.at \in {"valid", "first", "risc"}
    /\ "smurf" \in r.barred => a \in s /\ r.at \in {"valid", "first", "risc", "smurf"}
    /\ "listed" \in r.barred =>
         /\ c[a] = "blacklisted"
         /\ r.at \in {"valid", "first", "risc", "smurf", "cached", "ask", "keep"}
         /\ r.at = "ask" => r.heard = "blacklisted"

\* The one-time token a request came with was drawn (n so far) and is nobody
\* else's (rows k, tokens o); if it was used it is one that was not replaced (u).
Brings(r, k, o, n, u) ==
  r.op = "ott" =>
    /\ r.ott \in 1..n
    /\ \A b \in k : o[b] = r.ott => b \in r.who
    /\ r.again => r.ott \in u

Fits(r, k, l, s, c, o, n, u) ==
  r = Idle \/ (Shape(r) /\ Bars(r, l, s, c) /\ Brings(r, k, o, n, u))

HandlerInv(h) == Fits(req[h], known, locked, smurfs, cache, ott, drawn.otts, unspent)
ReqInv == /\ req \in [Handlers -> Requests \cup {Idle}]
          /\ \A h \in Handlers : HandlerInv(h)

IInv == AccountInv /\ TokenInv /\ SpentInv /\ RiscInv /\ ReqInv /\ moves \in 0..MaxMoves
-----------------------------------------------------------------------------
(* Requests *)

LEMMA IdleFacts == Idle.at = "idle" /\ Idle \notin Requests
BY DEF Idle, Requests, Places

\* What is known of a request that is at a place.
LEMMA Running ==
  ASSUME ReqInv, NEW h \in Handlers, NEW l, At(h, l), l # "idle"
  PROVE  /\ req[h] # Idle /\ req[h] \in Requests /\ Shape(req[h]) /\ req[h].at = l
         /\ Bars(req[h], locked, smurfs, cache) /\ Brings(req[h], known, ott, drawn.otts, unspent)
         /\ Who(h) \in Agents /\ req[h].who = {Who(h)}
<1>1. req[h] # Idle
  BY IdleFacts DEF At
<1>2. Shape(req[h]) /\ Bars(req[h], locked, smurfs, cache)
      /\ Brings(req[h], known, ott, drawn.otts, unspent)
  BY <1>1 DEF ReqInv, HandlerInv, Fits
<1>3. PICK a \in Agents : req[h].who = {a}
  BY <1>2 DEF Shape
<1>4. Who(h) \in {a}
  BY <1>3 DEF Who
<1> QED BY <1>1, <1>2, <1>3, <1>4 DEF Shape, At

\* A request goes on to l.
LEMMA GotoFits ==
  ASSUME NEW q, NEW k, NEW d, NEW s, NEW c, NEW o, NEW n, NEW u,
         Shape(q), Bars(q, d, s, c), q.op # "ott", NEW l \in Places \ {"replace"},
         "risc" \in q.barred => l \in {"valid", "first", "risc"},
         "smurf" \in q.barred => l \in {"valid", "first", "risc", "smurf"},
         "listed" \in q.barred => l \in {"valid", "first", "risc", "smurf", "cached", "keep"}
  PROVE  Fits([q EXCEPT !.at = l], k, d, s, c, o, n, u)
<1> DEFINE r == [q EXCEPT !.at = l]
<1>1. /\ r \in Requests /\ r.at = l /\ r.who = q.who /\ r.mw = q.mw /\ r.barred = q.barred
      /\ r.op = q.op /\ r.jwt = q.jwt
  BY DEF Shape, Requests
<1> HIDE DEF r
<1>2. Shape(r)
  BY <1>1 DEF Shape
<1>3. Bars(r, d, s, c)
  BY <1>1 DEF Bars
<1>4. Brings(r, k, o, n, u)
  BY <1>1 DEF Brings
<1> QED BY <1>2, <1>3, <1>4 DEF Fits, r

\* Some grounds against a are gone.
LEMMA LiftedFits ==
  ASSUME NEW r, NEW k, NEW d, NEW s, NEW c, NEW o, NEW n, NEW u,
         Fits(r, k, d, s, c, o, n, u), NEW a \in Agents, NEW g \in SUBSET Grounds,
         NEW d2, NEW s2, NEW c2,
         \A b \in Agents : b \in d => b \in d2 \/ (b = a /\ "risc" \in g),
         \A b \in Agents : b \in s => b \in s2 \/ (b = a /\ "smurf" \in g),
         \A b \in Agents : c[b] = "blacklisted" => c2[b] = "blacklisted" \/ (b = a /\ "listed" \in g)
  PROVE  Fits(Lifted(r, a, g), k, d2, s2, c2, o, n, u)
<1>1. CASE r = Idle
  BY <1>1 DEF Fits, Lifted
<1>2. CASE r # Idle
  <2>1. Shape(r) /\ Bars(r, d, s, c) /\ Brings(r, k, o, n, u)
    BY <1>2 DEF Fits
  <2>2. PICK b \in Agents : r.who = {b}
    BY <2>1 DEF Shape
  <2>3. CASE a \in r.who
    <3> DEFINE t == [r EXCEPT !.barred = @ \ g]
    <3>1. Lifted(r, a, g) = t
      BY <1>2, <2>3 DEF Lifted
    <3>2. /\ t \in Requests /\ t.at = r.at /\ t.who = r.who /\ t.mw = r.mw
          /\ t.barred = r.barred \ g /\ t.op = r.op /\ t.jwt = r.jwt /\ t.heard = r.heard
          /\ t.ott = r.ott /\ t.again = r.again
      BY <2>1 DEF Shape, Requests
    <3> HIDE DEF t
    <3>3. Shape(t)
      BY <2>1, <3>2 DEF Shape
    <3>4. Bars(t, d2, s2, c2)
      BY <2>1, <2>2, <2>3, <3>2 DEF Bars
    <3>5. Brings(t, k, o, n, u)
      BY <2>1, <3>2 DEF Brings
    <3> QED BY <3>1, <3>3, <3>4, <3>5 DEF Fits
  <2>4. CASE a \notin r.who
    <3>1. Lifted(r, a, g) = r
      BY <2>4 DEF Lifted
    <3>2. Bars(r, d2, s2, c2)
      BY <2>1, <2>2, <2>4 DEF Bars
    <3> QED BY <2>1, <3>1, <3>2 DEF Fits
  <2> QED BY <2>3, <2>4
<1> QED BY <1>1, <1>2

\* The grounds against anyone stay.
LEMMA BarsFit ==
  ASSUME NEW r, NEW k, NEW d, NEW s, NEW c, NEW o, NEW n, NEW u,
         Fits(r, k, d, s, c, o, n, u), NEW d2, NEW s2, NEW c2,
         \A b \in Agents : /\ b \in d => b \in d2
                           /\ b \in s => b \in s2
                           /\ c[b] = "blacklisted" => c2[b] = "blacklisted"
  PROVE  Fits(r, k, d2, s2, c2, o, n, u)
<1>1. ASSUME Shape(r), Bars(r, d, s, c)
      PROVE  Bars(r, d2, s2, c2)
  <2>1. r.who \subseteq Agents
    BY <1>1 DEF Shape
  <2> QED BY <1>1, <2>1 DEF Bars
<1> QED BY <1>1 DEF Fits

\* One-time tokens are drawn, and rows that have other ones than before have
\* one of these, or none.
LEMMA BringsFit ==
  ASSUME NEW r, NEW k, NEW d, NEW s, NEW c, NEW o, NEW n, NEW u,
         Fits(r, k, d, s, c, o, n, u), NEW k2, NEW o2, NEW n2, NEW u2,
         1..n \subseteq 1..n2, u \subseteq u2,
         \A b \in k2 : (b \in k /\ o2[b] = o[b]) \/ o2[b] \notin 1..n
  PROVE  Fits(r, k2, d, s, c, o2, n2, u2)
<1>1. Brings(r, k, o, n, u) => Brings(r, k2, o2, n2, u2)
  BY DEF Brings
<1> QED BY <1>1 DEF Fits

\* The requests have it when each has.
LEMMA ReqFrom ==
  ASSUME NEW f, req' = [g \in Handlers |-> f[g]],
         \A g \in Handlers : Fits(f[g], known', locked', smurfs', cache', ott', drawn'.otts, unspent')
  PROVE  ReqInv'
<1>1. \A g \in Handlers : req'[g] = f[g]
  OBVIOUS
<1>2. \A g \in Handlers : f[g] \in Requests \cup {Idle}
  BY DEF Fits, Shape
<1> QED BY <1>1, <1>2 DEF ReqInv, HandlerInv

\* One request changes, nothing else that is said of it.
LEMMA ReqStep ==
  ASSUME ReqInv, NEW h \in Handlers, NEW s, req' = [req EXCEPT ![h] = s],
         \A r : Fits(r, known, locked, smurfs, cache, ott, drawn.otts, unspent)
                => Fits(r, known', locked', smurfs', cache', ott', drawn'.otts, unspent'),
         Fits(s, known', locked', smurfs', cache', ott', drawn'.otts, unspent')
  PROVE  ReqInv'
<1>1. req' = [g \in Handlers |-> req'[g]] /\ \A g \in Handlers : req'[g] = IF g = h THEN s ELSE req[g]
  BY DEF ReqInv
<1>2. \A g \in Handlers : Fits(req'[g], known', locked', smurfs', cache', ott', drawn'.otts, unspent')
  BY <1>1 DEF ReqInv, HandlerInv
<1> QED BY <1>1, <1>2, ReqFrom

LEMMA IdleFits ==
  ASSUME NEW k, NEW d, NEW s, NEW c, NEW o, NEW n, NEW u
  PROVE  Fits(Idle, k, d, s, c, o, n, u)
BY DEF Fits

\* A handler that changes nothing but its request.
LEMMA SameStep ==
  ASSUME IInv, NEW h \in Handlers, Same, UNCHANGED moves, NEW s, req' = [req EXCEPT ![h] = s],
         Fits(s, known, locked, smurfs, cache, ott, drawn.otts, unspent)
  PROVE  IInv'
<1>1. UNCHANGED <<known, locked, smurfs, ott, cache, riscchan, working, feed, disabled, jwts,
                  revoked, dead, used, unspent, drawn, excused, moves>>
  BY DEF Same, account, verdict, risc, tokens, spent
<1>2. AccountInv' /\ TokenInv' /\ SpentInv'
  BY <1>1 DEF IInv, AccountInv, TokenInv, SpentInv
<1>3. RiscInv'
  BY <1>1 DEF IInv, RiscInv
<1>4. ReqInv'
  BY <1>1, ReqStep DEF IInv
<1> QED BY <1>1, <1>2, <1>3, <1>4 DEF IInv
-----------------------------------------------------------------------------
(* Requests arrive, and come to Authorize. *)

LEMMA AgainstFacts ==
  ASSUME NEW a
  PROVE  /\ Against(a) \subseteq Grounds
         /\ "risc" \in Against(a) => a \in locked
         /\ "smurf" \in Against(a) => a \in smurfs
         /\ "listed" \in Against(a) => cache[a] = "blacklisted"
         /\ UNION {Against(b) : b \in {a}} = Against(a)
BY DEF Against, Grounds

LEMMA NewFits ==
  ASSUME IInv, NEW a \in Agents, NEW op \in {"login", "ott", "me"},
         NEW t \in SUBSET Claims, \A x \in t : Original(x), NEW token \in 0..MaxOtts,
         op = "ott" => a \in known /\ token = ott[a]
  PROVE  Fits([at |-> IF op = "ott" THEN "replace" ELSE "valid", op |-> op, who |-> {a},
               mw |-> op = "me", jwt |-> t, ott |-> token, heard |-> "none",
               again |-> token \in used,
               barred |-> IF op = "login" THEN UNION {Against(b) : b \in {a}} ELSE {}],
              known, locked, smurfs, cache, ott, drawn.otts, unspent)
<1> DEFINE bs == IF op = "login" THEN UNION {Against(b) : b \in {a}} ELSE {}
           again == token \in used
           s == [at |-> IF op = "ott" THEN "replace" ELSE "valid", op |-> op, who |-> {a},
                 mw |-> op = "me", jwt |-> t, ott |-> token, heard |-> "none",
                 again |-> again, barred |-> bs]
<1>1. /\ bs \subseteq Grounds
      /\ op # "login" => bs = {}
      /\ "risc" \in bs => a \in locked
      /\ "smurf" \in bs => a \in smurfs
      /\ "listed" \in bs => cache[a] = "blacklisted"
  BY AgainstFacts
<1>2. again \in BOOLEAN /\ (again => token \in used)
  OBVIOUS
<1>3. t \subseteq Claims /\ \A x \in t : Original(x)
  OBVIOUS
<1>4. op = "ott" => /\ token \in 1..drawn.otts
                    /\ \A b \in known : ott[b] = token => b = a
                    /\ again => token \in unspent
  BY <1>2 DEF IInv, AccountInv, SpentInv
<1> HIDE DEF bs, again
<1>5. s \in Requests
  BY <1>1, <1>2, <1>3 DEF Requests, Places, Verdicts
<1>6. /\ s.at = (IF op = "ott" THEN "replace" ELSE "valid") /\ s.op = op /\ s.who = {a}
      /\ (s.mw => op = "me") /\ s.jwt = t /\ s.ott = token /\ (s.again => again) /\ s.barred = bs
  BY <1>2
<1> HIDE DEF s
<1>7. Shape(s)
  BY <1>1, <1>3, <1>5, <1>6 DEF Shape
<1>8. Bars(s, locked, smurfs, cache)
  BY <1>1, <1>6 DEF Bars
<1>9. Brings(s, known, ott, drawn.otts, unspent)
  BY <1>4, <1>6 DEF Brings
<1> QED BY <1>7, <1>8, <1>9 DEF Fits, s, bs, again

LEMMA ArriveInv ==
  ASSUME IInv, NEW h \in Handlers, Arrive(h), UNCHANGED moves
  PROVE  IInv'
<1>1. MaxOtts \in Nat /\ \A a \in Agents : ott[a] \in 0..MaxOtts
  BY BoundsType DEF IInv, AccountInv
<1>2. ASSUME NEW a \in Agents, NEW op \in {"login", "ott", "me"},
             NEW t \in SUBSET Claims, \A x \in t : Original(x), NEW token \in 0..MaxOtts, op = "ott" => a \in known /\ token = ott[a],
             NewRequest(h, op, IF op = "ott" THEN "replace" ELSE "valid", {a}, t, token)
      PROVE  IInv'
  <2> DEFINE s == [at |-> IF op = "ott" THEN "replace" ELSE "valid", op |-> op, who |-> {a},
                   mw |-> op = "me", jwt |-> t, ott |-> token, heard |-> "none",
                   again |-> token \in used,
                   barred |-> IF op = "login" THEN UNION {Against(b) : b \in {a}} ELSE {}]
  <2>1. req' = [req EXCEPT ![h] = s] /\ Same
    BY <1>2 DEF NewRequest, Same
  <2>2. Fits(s, known, locked, smurfs, cache, ott, drawn.otts, unspent)
    BY <1>2, NewFits
  <2> HIDE DEF s
  <2> QED BY <2>1, <2>2, SameStep
<1>3. CASE ApTokenRoute(h)
  <2>1. PICK a \in Agents : NewRequest(h, "login", "valid", {a}, {}, 0)
    BY <1>3 DEF ApTokenRoute
  <2>2. 0 \in 0..MaxOtts /\ {} \in SUBSET Claims /\ \A x \in {} : Original(x)
    BY <1>1
  <2>3. NewRequest(h, "login", IF "login" = "ott" THEN "replace" ELSE "valid", {a}, {}, 0)
    BY <2>1
  <2>4. "login" \in {"login", "ott", "me"} /\ "login" # "ott"
    OBVIOUS
  <2> QED BY <1>2, <2>2, <2>3, <2>4
<1>4. CASE OneTimeTokenRoute(h)
  <2>1. PICK a \in known : NewRequest(h, "ott", "replace", {a}, {}, ott[a])
    BY <1>4 DEF OneTimeTokenRoute
  <2>2. a \in Agents /\ ott[a] \in 0..MaxOtts
    BY <1>1 DEF IInv, AccountInv
  <2>3. NewRequest(h, "ott", IF "ott" = "ott" THEN "replace" ELSE "valid", {a}, {}, ott[a])
    BY <2>1
  <2>4. {} \in SUBSET Claims /\ \A x \in {} : Original(x)
    OBVIOUS
  <2> QED BY <1>2, <2>2, <2>3, <2>4
<1>5. CASE AuthMW(h)
  <2>1. PICK t \in jwts : NewRequest(h, "me", "valid", {t.sub}, {Claimed(t)}, 0)
    BY <1>5 DEF AuthMW
  <2>2. t.sub \in Agents /\ {Claimed(t)} \in SUBSET Claims /\ 0 \in 0..MaxOtts
    BY <1>1 DEF IInv, TokenInv, Jwts, Claims, Claimed
  <2>3. \A x \in {Claimed(t)} : Original(x)
    BY DEF IInv, TokenInv, Original, Claimed
  <2>4. NewRequest(h, "me", IF "me" = "ott" THEN "replace" ELSE "valid", {t.sub}, {Claimed(t)}, 0)
    BY <2>1
  <2> QED BY <1>2, <2>2, <2>3, <2>4
<1> QED BY <1>3, <1>4, <1>5 DEF Arrive

LEMMA AuthorizingFacts ==
  ASSUME NEW h \in Handlers, Shape(req[h]), NEW a \in Agents, req[h].who = {a}
  PROVE  LET s == Authorizing(h, a)
         IN  /\ Shape(s) /\ Bars(s, locked, smurfs, cache) /\ s.op # "ott" /\ s.at = "valid"
             /\ s.who = {a} /\ s.barred = Against(a) /\ ~s.mw /\ s \in Requests /\ s.jwt = req[h].jwt
<1> DEFINE s == Authorizing(h, a)
<1>1. /\ s \in Requests /\ s.at = "valid" /\ s.who = {a} /\ ~s.mw /\ s.barred = Against(a)
      /\ s.op = (IF req[h].op = "ott" THEN "login" ELSE req[h].op) /\ s.jwt = req[h].jwt
  <2>1. /\ req[h] \in Requests /\ Against(a) \subseteq Grounds /\ {a} \subseteq Agents
        /\ "valid" \in Places /\ 0 \in 0..MaxOtts
    BY AgainstFacts, BoundsType DEF Shape, Places
  <2> QED BY <2>1 DEF Authorizing, Requests
<1> HIDE DEF s
<1>2. Shape(s)
  BY <1>1 DEF Shape
<1>3. Bars(s, locked, smurfs, cache)
  BY <1>1, AgainstFacts DEF Bars
<1> QED BY <1>1, <1>2, <1>3 DEF s

\* What becomes of a request whose agent has a row, after the check for it.
LEMMA SeenFits ==
  ASSUME IInv, NEW h \in Handlers, At(h, "valid") \/ At(h, "first"), Seen(h)
  PROVE  \E s : /\ req' = [req EXCEPT ![h] = s]
                /\ Fits(s, known, locked, smurfs, cache, ott, drawn.otts, unspent)
<1> DEFINE q == req[h]
           Ok(s) == Fits(s, known, locked, smurfs, cache, ott, drawn.otts, unspent)
<1>1. /\ q \in Requests /\ Shape(q) /\ Bars(q, locked, smurfs, cache)
      /\ q.at \in {"valid", "first"} /\ Who(h) \in Agents /\ q.who = {Who(h)}
  BY Running DEF IInv
<1>2. q.op # "ott"
  BY <1>1 DEF Shape
<1>3. CASE ~q.mw
  <2>1. req' = [req EXCEPT ![h] = [q EXCEPT !.at = "risc"]]
    BY <1>3 DEF Seen, Goto
  <2>2. Ok([q EXCEPT !.at = "risc"])
    BY <1>1, <1>2, GotoFits DEF Places
  <2> QED BY <2>1, <2>2
<1>4. CASE q.mw /\ Finish(h)
  BY <1>4, IdleFits DEF Finish
<1>5. ASSUME q.mw, NEW at \in {"intel", "delete"},
             req' = [req EXCEPT ![h].at = at, ![h].mw = FALSE, ![h].jwt = {}]
      PROVE  \E s : req' = [req EXCEPT ![h] = s] /\ Ok(s)
  <2> DEFINE s == [q EXCEPT !.at = at, !.mw = FALSE, !.jwt = {}]
  <2>1. req' = [req EXCEPT ![h] = s]
    BY <1>5 DEF IInv, ReqInv
  <2>2. /\ s \in Requests /\ s.at = at /\ s.who = q.who /\ s.barred = q.barred /\ s.op = q.op
        /\ s.jwt = {}
    BY <1>1 DEF Requests, Places
  <2> HIDE DEF s
  <2>3. q.barred = {}
    BY <1>1, <1>5 DEF Shape
  <2>4. Shape(s)
    BY <1>1, <1>2, <2>2, <2>3 DEF Shape
  <2>5. Bars(s, locked, smurfs, cache) /\ Brings(s, known, ott, drawn.otts, unspent)
    BY <1>2, <2>2, <2>3 DEF Bars, Brings
  <2> QED BY <2>1, <2>4, <2>5 DEF Fits
<1>6. CASE q.mw /\ req' = [req EXCEPT ![h] = Refresh(h)]
  <2> DEFINE p == Authorizing(h, Who(h))
             s == Refresh(h)
  <2>1. /\ Shape(p) /\ Bars(p, locked, smurfs, cache) /\ p.op # "ott" /\ p.at = "valid"
        /\ p.who = {Who(h)} /\ ~p.mw /\ p \in Requests
    BY <1>1, AuthorizingFacts
  <2>2. s = [p EXCEPT !.op = "refresh"]
    BY DEF Refresh
  <2> HIDE DEF p
  <2>3. /\ s \in Requests /\ s.at = p.at /\ s.who = p.who /\ s.mw = p.mw /\ s.barred = p.barred
        /\ s.jwt = p.jwt /\ s.op = "refresh"
    BY <2>1, <2>2 DEF Requests
  <2> HIDE DEF s
  <2>4. Shape(s)
    BY <2>1, <2>3 DEF Shape
  <2>5. Bars(s, locked, smurfs, cache) /\ Brings(s, known, ott, drawn.otts, unspent)
    BY <2>1, <2>3 DEF Bars, Brings
  <2> QED BY <1>6, <2>4, <2>5 DEF Fits, s
<1> QED BY <1>3, <1>4, <1>5, <1>6 DEF Seen, Body, Route

LEMMA ValidInv ==
  ASSUME IInv, NEW h \in Handlers, Valid(h), UNCHANGED moves
  PROVE  IInv'
<1>1. At(h, "valid") /\ Same /\ (Seen(h) \/ Goto(h, "first"))
  BY DEF Valid
<1>2. CASE Seen(h)
  BY <1>1, <1>2, SeenFits, SameStep
<1>3. CASE Goto(h, "first")
  <2>1. Shape(req[h]) /\ Bars(req[h], locked, smurfs, cache) /\ req[h].at = "valid"
    BY <1>1, Running DEF IInv
  <2>2. req[h].op # "ott"
    BY <2>1 DEF Shape
  <2>3. Fits([req[h] EXCEPT !.at = "first"], known, locked, smurfs, cache, ott, drawn.otts, unspent)
    BY <2>1, <2>2, GotoFits DEF Places
  <2> QED BY <1>1, <1>3, <2>3, SameStep DEF Goto
<1> QED BY <1>1, <1>2, <1>3
-----------------------------------------------------------------------------
(* The table agent. *)

\* A new row has a new one-time token; what fits goes on fitting.
LEMMA FirstLoginFacts ==
  ASSUME AccountInv, SpentInv, NEW a \in Agents, FirstLogin(a), UNCHANGED <<cache, used, unspent>>
  PROVE  /\ AccountInv' /\ SpentInv' /\ UNCHANGED <<locked, smurfs>>
         /\ \A r : Fits(r, known, locked, smurfs, cache, ott, drawn.otts, unspent)
                   => Fits(r, known', locked', smurfs', cache', ott', drawn'.otts, unspent')
<1>1. CASE a \in known
  <2>1. UNCHANGED <<known, locked, smurfs, ott, drawn>>
    BY <1>1 DEF FirstLogin, account
  <2> QED BY <2>1 DEF AccountInv, SpentInv
<1>2. CASE a \notin known
  <2>1. /\ drawn.otts < MaxOtts /\ drawn' = [drawn EXCEPT !.otts = @ + 1]
        /\ ott' = [ott EXCEPT ![a] = drawn.otts + 1] /\ known' = known \cup {a}
        /\ UNCHANGED <<locked, smurfs>>
    BY <1>2 DEF FirstLogin
  <2>2. /\ drawn.otts \in Nat /\ drawn'.otts = drawn.otts + 1
        /\ drawn' \in [jwts : 0..MaxJwts, otts : 0..MaxOtts]
    BY <2>1, BoundsType DEF AccountInv
  <2>3. AccountInv'
    BY <1>2, <2>1, <2>2 DEF AccountInv
  <2>4. SpentInv'
    BY <2>1, <2>2 DEF AccountInv, SpentInv
  <2>5. /\ 1..drawn.otts \subseteq 1..drawn'.otts
        /\ \A b \in known' : (b \in known /\ ott'[b] = ott[b]) \/ ott'[b] \notin 1..drawn.otts
    BY <1>2, <2>1, <2>2 DEF AccountInv
  <2>6. ASSUME NEW r, Fits(r, known, locked, smurfs, cache, ott, drawn.otts, unspent)
        PROVE  Fits(r, known', locked, smurfs, cache, ott', drawn'.otts, unspent)
    BY <2>5, <2>6, BringsFit
  <2> QED BY <2>1, <2>3, <2>4, <2>6
<1> QED BY <1>1, <1>2

\* A row goes, and with it what is said against its agent.
LEMMA DeleteFacts ==
  ASSUME AccountInv, SpentInv, NEW a \in Agents, Delete(a), UNCHANGED <<drawn, used, unspent>>
  PROVE  /\ AccountInv' /\ SpentInv'
         /\ \A r : Fits(r, known, locked, smurfs, cache, ott, drawn.otts, unspent)
                   => Fits(Lifted(r, a, Grounds), known', locked', smurfs', cache', ott', drawn'.otts, unspent')
<1>1. AccountInv'
  BY DEF AccountInv, Delete, Verdicts
<1>2. SpentInv'
  BY DEF AccountInv, SpentInv, Delete
<1>3. ASSUME NEW r, Fits(r, known, locked, smurfs, cache, ott, drawn.otts, unspent)
      PROVE  Fits(Lifted(r, a, Grounds), known', locked', smurfs', cache', ott', drawn'.otts, unspent')
  <2>1. /\ \A b \in Agents : b \in locked => b \in locked' \/ (b = a /\ "risc" \in Grounds)
        /\ \A b \in Agents : b \in smurfs => b \in smurfs' \/ (b = a /\ "smurf" \in Grounds)
        /\ \A b \in Agents : cache[b] = "blacklisted"
             => cache'[b] = "blacklisted" \/ (b = a /\ "listed" \in Grounds)
    BY DEF AccountInv, Delete, Grounds
  <2>2. Fits(Lifted(r, a, Grounds), known, locked', smurfs', cache', ott, drawn.otts, unspent)
    BY <1>3, <2>1, LiftedFits
  <2>3. \A b \in known' : b \in known /\ ott'[b] = ott[b]
    BY DEF AccountInv, Delete
  <2> QED BY <2>2, <2>3, BringsFit
<1> QED BY <1>1, <1>2, <1>3

\* A faction is declared: the ground is there, or gone.
LEMMA IntelFacts ==
  ASSUME AccountInv, NEW a \in Agents, NEW res \in BOOLEAN, SetIntelData(a, res),
         UNCHANGED <<known, locked, ott, cache, drawn, unspent>>
  PROVE  /\ AccountInv'
         /\ \A r : Fits(r, known, locked, smurfs, cache, ott, drawn.otts, unspent)
                   => Fits(IF res THEN r ELSE Lifted(r, a, {"smurf"}),
                           known', locked', smurfs', cache', ott', drawn'.otts, unspent')
<1>1. AccountInv'
  BY DEF AccountInv, SetIntelData
<1>2. ASSUME NEW r, Fits(r, known, locked, smurfs, cache, ott, drawn.otts, unspent)
      PROVE  Fits(IF res THEN r ELSE Lifted(r, a, {"smurf"}),
                  known, locked, smurfs', cache, ott, drawn.otts, unspent)
  <2>1. CASE res
    <3>1. \A b \in Agents : b \in smurfs => b \in smurfs'
      BY <2>1 DEF SetIntelData
    <3> QED BY <1>2, <2>1, <3>1, BarsFit
  <2>2. CASE ~res
    <3>1. \A b \in Agents : b \in smurfs => b \in smurfs' \/ (b = a /\ "smurf" \in {"smurf"})
      BY <2>2 DEF SetIntelData
    <3>2. {"smurf"} \in SUBSET Grounds
      BY DEF Grounds
    <3> QED BY <1>2, <2>2, <3>1, <3>2, LiftedFits
  <2> QED BY <2>1, <2>2
<1> QED BY <1>1, <1>2

\* RiscInv says nothing of agents whose lock and word are as before.
LEMMA RiscStep ==
  ASSUME RiscInv, UNCHANGED <<riscchan, working, feed, disabled>>, excused' \subseteq Agents,
         excused \subseteq excused',
         \A a \in Agents : a \notin excused' => (a \in locked' <=> a \in locked)
  PROVE  RiscInv'
<1>1. ASSUME NEW a \in Agents
      PROVE  Follows(a, InChan(riscchan), working, disabled, locked', excused')
  BY DEF RiscInv, Follows
<1> QED BY <1>1 DEF RiscInv

\* Deleted while locked, an agent is excused.
LEMMA DeleteRisc ==
  ASSUME AccountInv, RiscInv, NEW a \in Agents, Delete(a), UNCHANGED <<riscchan, working, feed, disabled>>
  PROVE  RiscInv'
<1>1. /\ excused' \subseteq Agents /\ excused \subseteq excused'
      /\ \A b \in Agents : b \notin excused' => (b \in locked' <=> b \in locked)
  BY DEF Delete, AccountInv, RiscInv
<1> QED BY <1>1, RiscStep
-----------------------------------------------------------------------------
(* The steps of the handlers. *)

LEMMA FirstInv ==
  ASSUME IInv, NEW h \in Handlers, First(h), UNCHANGED moves
  PROVE  IInv'
<1>1. /\ At(h, "first") /\ Who(h) \in Agents
      /\ UNCHANGED <<cache, riscchan, working, feed, disabled, jwts, revoked, dead, used, unspent, excused>>
  BY Running DEF First, verdict, risc, tokens, spent, IInv
<1>6. CASE UNCHANGED <<account, drawn>> /\ Refuse(h)
  <2>1. Same
    BY <1>1, <1>6 DEF Same, verdict, risc, tokens, spent
  <2> QED BY <1>6, <2>1, IdleFits, SameStep DEF Refuse, Finish
<1>7. SUFFICES ASSUME FirstLogin(Who(h)), Seen(h) \/ Refuse(h) PROVE IInv'
  BY <1>6 DEF First
<1>2. PICK s : /\ req' = [req EXCEPT ![h] = s]
               /\ Fits(s, known, locked, smurfs, cache, ott, drawn.otts, unspent)
  <2>1. CASE Seen(h)
    BY <1>1, <2>1, SeenFits
  <2>2. CASE Refuse(h)
    BY <2>2, IdleFits DEF Refuse, Finish
  <2> QED BY <1>7, <2>1, <2>2
<1>3. /\ AccountInv' /\ SpentInv' /\ UNCHANGED <<locked, smurfs>>
      /\ \A r : Fits(r, known, locked, smurfs, cache, ott, drawn.otts, unspent)
                => Fits(r, known', locked', smurfs', cache', ott', drawn'.otts, unspent')
  BY <1>1, <1>7, FirstLoginFacts DEF IInv
<1>4. ReqInv'
  BY <1>2, <1>3, ReqStep DEF IInv
<1>5. TokenInv' /\ RiscInv'
  BY <1>1, <1>3 DEF IInv, TokenInv, RiscInv
<1> QED BY <1>3, <1>4, <1>5 DEF IInv

\* What Increment does to the token, and what it notes.
LEMMA ReplacedInv ==
  ASSUME IInv, NEW h \in Handlers, Replaced(h), moves' \in 0..MaxMoves,
         \/ NewOneTimeToken(Who(h))
         \/ unspent' = unspent \cup {req[h].ott} /\ UNCHANGED <<ott, drawn>>
  PROVE  IInv'
<1> DEFINE q == req[h]
           a == Who(h)
           s == Authorizing(h, a)
<1>1. /\ At(h, "replace") /\ used' = used \cup {q.ott} /\ req' = [req EXCEPT ![h] = s]
      /\ UNCHANGED <<known, locked, smurfs, cache, riscchan, working, feed, disabled, jwts,
                     revoked, dead, excused>>
  BY DEF Replaced, verdict, risc, tokens
<1>2. /\ a \in Agents /\ q.who = {a} /\ Shape(q) /\ q.at = "replace"
      /\ Brings(q, known, ott, drawn.otts, unspent)
  BY <1>1, Running DEF IInv
<1>3. q.ott \in 1..drawn.otts /\ \A b \in known : ott[b] = q.ott => b = a
  BY <1>2 DEF Shape, Brings
<1>4. Shape(s) /\ Bars(s, locked, smurfs, cache) /\ s.op # "ott"
  BY <1>2, AuthorizingFacts
<1> HIDE DEF q, a, s
<1>5. Fits(s, known', locked', smurfs', cache', ott', drawn'.otts, unspent')
  BY <1>1, <1>4 DEF Fits, Brings
<1>6. /\ AccountInv' /\ SpentInv' /\ 1..drawn.otts \subseteq 1..drawn'.otts /\ unspent \subseteq unspent'
      /\ \A b \in known' : (b \in known /\ ott'[b] = ott[b]) \/ ott'[b] \notin 1..drawn.otts
  <2>1. CASE NewOneTimeToken(a)
    <3>1. /\ drawn.otts < MaxOtts /\ drawn' = [drawn EXCEPT !.otts = @ + 1]
          /\ ott' = (IF a \in known THEN [ott EXCEPT ![a] = drawn.otts + 1] ELSE ott)
          /\ UNCHANGED unspent
      BY <2>1 DEF NewOneTimeToken
    <3>2. /\ drawn.otts \in Nat /\ drawn'.otts = drawn.otts + 1
          /\ drawn' \in [jwts : 0..MaxJwts, otts : 0..MaxOtts]
      BY <3>1, BoundsType DEF IInv, AccountInv
    <3>3. AccountInv'
      BY <1>1, <1>2, <3>1, <3>2 DEF IInv, AccountInv
    <3>4. SpentInv'
      BY <1>1, <1>2, <1>3, <3>1, <3>2 DEF IInv, AccountInv, SpentInv
    <3>5. \A b \in known' : (b \in known /\ ott'[b] = ott[b]) \/ ott'[b] \notin 1..drawn.otts
      BY <1>1, <3>1, <3>2 DEF IInv, AccountInv
    <3> QED BY <3>1, <3>2, <3>3, <3>4, <3>5
  <2>2. CASE unspent' = unspent \cup {q.ott} /\ UNCHANGED <<ott, drawn>>
    <3>1. AccountInv'
      BY <1>1, <2>2 DEF IInv, AccountInv
    <3>2. SpentInv'
      BY <1>1, <1>3, <2>2 DEF IInv, SpentInv
    <3> QED BY <1>1, <2>2, <3>1, <3>2
  <2> QED BY <2>1, <2>2 DEF a, q
<1>7. \A r : Fits(r, known, locked, smurfs, cache, ott, drawn.otts, unspent)
             => Fits(r, known', locked', smurfs', cache', ott', drawn'.otts, unspent')
  BY <1>1, <1>6, BringsFit
<1>8. ReqInv'
  BY <1>1, <1>5, <1>7, ReqStep DEF IInv
<1>9. TokenInv' /\ RiscInv'
  BY <1>1 DEF IInv, TokenInv, RiscInv
<1> QED BY <1>6, <1>8, <1>9 DEF IInv

\* A check on a row, or on the list: the request ends or goes on.
LEMMA GoesOn ==
  ASSUME IInv, NEW h \in Handlers, ~At(h, "idle"), req[h].op # "ott", Same, UNCHANGED moves,
         NEW l \in Places \ {"replace"},
         Refuse(h) \/ Goto(h, l),
         Goto(h, l) =>
           /\ "risc" \in req[h].barred => l \in {"valid", "first", "risc"}
           /\ "smurf" \in req[h].barred => l \in {"valid", "first", "risc", "smurf"}
           /\ "listed" \in req[h].barred => l \in {"valid", "first", "risc", "smurf", "cached", "keep"}
  PROVE  IInv'
<1>1. CASE Refuse(h)
  BY <1>1, IdleFits, SameStep DEF Refuse, Finish
<1>2. CASE Goto(h, l)
  <2>1. Shape(req[h]) /\ Bars(req[h], locked, smurfs, cache)
    BY Running DEF IInv, At
  <2>2. Fits([req[h] EXCEPT !.at = l], known, locked, smurfs, cache, ott, drawn.otts, unspent)
    BY <1>2, <2>1, GotoFits
  <2> QED BY <1>2, <2>2, SameStep DEF Goto
<1> QED BY <1>1, <1>2

LEMMA CheckInv ==
  ASSUME IInv, NEW h \in Handlers, CheckRISC(h) \/ CheckSmurf(h), UNCHANGED moves
  PROVE  IInv'
<1>1. CASE CheckRISC(h)
  <2>1. At(h, "risc") /\ Same /\ IF Who(h) \in locked THEN Refuse(h) ELSE Goto(h, "smurf")
    BY <1>1 DEF CheckRISC
  <2>2. /\ ~At(h, "idle") /\ Shape(req[h]) /\ Bars(req[h], locked, smurfs, cache)
        /\ req[h].at = "risc" /\ req[h].who = {Who(h)}
    BY <2>1, Running DEF IInv, At
  <2>3. req[h].op # "ott" /\ (Who(h) \notin locked => "risc" \notin req[h].barred)
    BY <2>2 DEF Shape, Bars
  <2>4. CASE Who(h) \in locked
    BY <2>1, <2>4, IdleFits, SameStep DEF Refuse, Finish
  <2>5. CASE Who(h) \notin locked
    BY <2>1, <2>2, <2>3, <2>5, GoesOn DEF Places
  <2> QED BY <2>4, <2>5
<1>2. CASE CheckSmurf(h)
  <2>1. At(h, "smurf") /\ Same /\ IF Who(h) \in smurfs THEN Refuse(h) ELSE Goto(h, "cached")
    BY <1>2 DEF CheckSmurf
  <2>2. /\ ~At(h, "idle") /\ Shape(req[h]) /\ Bars(req[h], locked, smurfs, cache)
        /\ req[h].at = "smurf" /\ req[h].who = {Who(h)}
    BY <2>1, Running DEF IInv, At
  <2>3. /\ req[h].op # "ott" /\ "risc" \notin req[h].barred
        /\ (Who(h) \notin smurfs => "smurf" \notin req[h].barred)
    BY <2>2 DEF Shape, Bars
  <2>4. CASE Who(h) \in smurfs
    BY <2>1, <2>4, IdleFits, SameStep DEF Refuse, Finish
  <2>5. CASE Who(h) \notin smurfs
    BY <2>1, <2>2, <2>3, <2>5, GoesOn DEF Places
  <2> QED BY <2>4, <2>5
<1> QED BY <1>1, <1>2

\* Past the first two checks nothing but the list is left of what may bar.
LEMMA PastSmurf ==
  ASSUME IInv, NEW h \in Handlers, NEW l \in {"cached", "ask", "keep", "mint"}, At(h, l)
  PROVE  /\ ~At(h, "idle") /\ req[h] \in Requests /\ Shape(req[h]) /\ req[h].op # "ott"
         /\ Bars(req[h], locked, smurfs, cache)
         /\ Who(h) \in Agents /\ req[h].who = {Who(h)} /\ req[h].barred \subseteq {"listed"}
         /\ "listed" \in req[h].barred => /\ cache[Who(h)] = "blacklisted"
                                          /\ l = "ask" => req[h].heard = "blacklisted"
                                          /\ l # "mint"
<1>1. /\ req[h] \in Requests /\ Shape(req[h]) /\ req[h].at = l
      /\ Bars(req[h], locked, smurfs, cache) /\ Who(h) \in Agents /\ req[h].who = {Who(h)}
  BY Running DEF IInv
<1>2. req[h].barred \subseteq {"risc", "smurf", "listed"}
  BY <1>1 DEF Requests, Grounds
<1> QED BY <1>1, <1>2 DEF Shape, Bars, At

LEMMA MintFits ==
  ASSUME NEW q, Shape(q), q.op # "ott", NEW s \in Requests,
         s.at = "mint", s.who = q.who, s.mw = q.mw, s.op = q.op, s.jwt = q.jwt, s.barred = {},
         NEW k, NEW d, NEW f, NEW c, NEW o, NEW n, NEW u
  PROVE  Fits(s, k, d, f, c, o, n, u)
BY DEF Fits, Shape, Bars, Brings

\* The query for a ground fails: the ground no longer counts.
LEMMA QueryFailsInv ==
  ASSUME IInv, NEW h \in Handlers, QueryFails(h), moves' \in 0..MaxMoves
  PROVE  IInv'
<1>1. ASSUME NEW l \in {"smurf", "cached", "mint"}, NEW g, Unread(h, l, g),
             Shape(req[h]), Bars(req[h], locked, smurfs, cache), req[h].op # "ott",
             "risc" \notin req[h].barred \ {g},
             "smurf" \in req[h].barred \ {g} => l = "smurf",
             "listed" \in req[h].barred \ {g} => l # "mint"
      PROVE  ReqInv'
  <2> DEFINE q == req[h]
             s == [q EXCEPT !.at = l, !.barred = @ \ {g}]
  <2>1. req' = [req EXCEPT ![h] = s]
    BY <1>1 DEF Unread, IInv, ReqInv
  <2>2. /\ s \in Requests /\ s.at = l /\ s.who = q.who /\ s.mw = q.mw /\ s.op = q.op
        /\ s.jwt = q.jwt /\ s.barred = q.barred \ {g}
    BY <1>1 DEF Requests, Places, Shape
  <2>3. Same
    BY DEF QueryFails
  <2> HIDE DEF s
  <2>4. Shape(s)
    BY <1>1, <2>2 DEF Shape
  <2>5. Bars(s, locked, smurfs, cache)
    BY <1>1, <2>2 DEF Bars
  <2>6. Fits(s, known, locked, smurfs, cache, ott, drawn.otts, unspent)
    BY <1>1, <2>2, <2>4, <2>5 DEF Fits, Brings
  <2>7. UNCHANGED <<known, locked, smurfs, cache, ott, drawn, unspent>>
    BY <2>3 DEF Same, account, verdict, spent
  <2> QED BY <2>1, <2>6, <2>7, ReqStep DEF IInv
<1>2. ReqInv'
  <2>1. CASE At(h, "risc") /\ Unread(h, "smurf", "risc")
    <3>1. Shape(req[h]) /\ Bars(req[h], locked, smurfs, cache) /\ req[h].at = "risc"
      BY <2>1, Running DEF IInv
    <3> QED BY <1>1, <2>1, <3>1 DEF Shape
  <2>2. CASE At(h, "smurf") /\ Unread(h, "cached", "smurf")
    <3>1. /\ Shape(req[h]) /\ Bars(req[h], locked, smurfs, cache) /\ req[h].at = "smurf"
          /\ \E a \in Agents : req[h].who = {a}
      BY <2>2, Running DEF IInv
    <3> QED BY <1>1, <2>2, <3>1 DEF Shape, Bars
  <2>3. CASE At(h, "cached") /\ Unread(h, "mint", "listed")
    <3>1. /\ Shape(req[h]) /\ Bars(req[h], locked, smurfs, cache) /\ req[h].op # "ott"
          /\ req[h].barred \subseteq {"listed"}
      BY <2>3, PastSmurf DEF IInv
    <3> QED BY <1>1, <2>3, <3>1
  <2> QED BY <2>1, <2>2, <2>3 DEF QueryFails
<1>3. AccountInv' /\ TokenInv' /\ SpentInv' /\ RiscInv'
  BY DEF QueryFails, Same, account, verdict, risc, tokens, spent, IInv, AccountInv, TokenInv, SpentInv, RiscInv
<1> QED BY <1>2, <1>3 DEF IInv

LEMMA ProviderInv ==
  ASSUME IInv, NEW h \in Handlers,
         FromDB(h) \/ Unreachable(h) \/ NotFound(h) \/ Answer(h), UNCHANGED moves
  PROVE  IInv'
<1> DEFINE q == req[h]
           a == Who(h)
           Ok(s) == Fits(s, known, locked, smurfs, cache, ott, drawn.otts, unspent)
<1>0. Same /\ \A s : req' = [req EXCEPT ![h] = s] /\ Ok(s) => IInv'
  BY SameStep DEF FromDB, Unreachable, NotFound, Answer
<1>1. CASE FromDB(h) /\ cache[a] # "none" /\ Decide(h, cache[a])
  <2>1. /\ ~At(h, "idle") /\ q.op # "ott" /\ q.barred \subseteq {"listed"}
        /\ "listed" \in q.barred => cache[a] = "blacklisted"
    BY <1>1, PastSmurf DEF FromDB
  <2>2. CASE cache[a] \in Listings
    BY <1>0, <1>1, <2>2, IdleFits DEF Decide, Refuse, Finish
  <2>3. CASE cache[a] \notin Listings
    BY <1>0, <1>1, <2>1, <2>3, GoesOn, ListingsType DEF Decide, Granted, Places
  <2> QED BY <2>2, <2>3, ListingsType
<1>2. CASE FromDB(h) /\ req' = [req EXCEPT ![h].at = "ask",
             ![h].heard = IF cache[a] = "blacklisted" THEN "blacklisted" ELSE "none"]
  <2> DEFINE s == [q EXCEPT !.at = "ask",
                            !.heard = IF cache[a] = "blacklisted" THEN "blacklisted" ELSE "none"]
  <2>1. /\ q \in Requests /\ Shape(q) /\ q.op # "ott" /\ q.barred \subseteq {"listed"}
        /\ q.who = {a} /\ ("listed" \in q.barred => cache[a] = "blacklisted")
    BY <1>2, PastSmurf DEF FromDB
  <2>2. req' = [req EXCEPT ![h] = s]
    BY <1>2 DEF IInv, ReqInv
  <2>3. /\ s \in Requests /\ s.at = "ask" /\ s.who = q.who /\ s.mw = q.mw /\ s.op = q.op
        /\ s.jwt = q.jwt /\ s.barred = q.barred
        /\ s.heard = IF cache[a] = "blacklisted" THEN "blacklisted" ELSE "none"
    BY <2>1, ListingsType DEF Requests, Places, Verdicts
  <2> HIDE DEF s, q, a
  <2>4. Shape(s)
    BY <2>1, <2>3 DEF Shape
  <2>5. Bars(s, locked, smurfs, cache)
    BY <2>1, <2>3 DEF Bars
  <2>6. Brings(s, known, ott, drawn.otts, unspent)
    BY <2>1, <2>3 DEF Brings
  <2> QED BY <1>0, <2>2, <2>4, <2>5, <2>6 DEF Fits
<1>3. CASE Unreachable(h)
  <2>1. /\ ~At(h, "idle") /\ q.op # "ott" /\ q.barred \subseteq {"listed"}
        /\ "listed" \in q.barred => q.heard = "blacklisted"
    BY <1>3, PastSmurf DEF Unreachable
  <2>2. CASE q.heard = "blacklisted"
    BY <1>0, <1>3, <2>2, IdleFits DEF Unreachable, Refuse, Finish
  <2>3. CASE q.heard # "blacklisted"
    BY <1>0, <1>3, <2>1, <2>3, GoesOn DEF Unreachable, Granted, Places
  <2> QED BY <2>2, <2>3
<1>4. CASE NotFound(h)
  <2> DEFINE s == [q EXCEPT !.at = "mint", !.barred = @ \ {"listed"}]
  <2>1. q \in Requests /\ Shape(q) /\ q.op # "ott" /\ q.barred \subseteq {"listed"}
    BY <1>4, PastSmurf DEF NotFound
  <2>2. req' = [req EXCEPT ![h] = s]
    BY <1>4 DEF NotFound, IInv, ReqInv
  <2>3. /\ s \in Requests /\ s.at = "mint" /\ s.who = q.who /\ s.mw = q.mw /\ s.op = q.op
        /\ s.jwt = q.jwt /\ s.barred = {}
    BY <2>1 DEF Requests, Places
  <2> HIDE DEF s
  <2> QED BY <1>0, <2>1, <2>2, <2>3, MintFits
<1>5. CASE Answer(h)
  <2>1. PICK v \in Verdicts : req' = [req EXCEPT ![h].at = "keep", ![h].heard = v]
    BY <1>5 DEF Answer
  <2> DEFINE s == [q EXCEPT !.at = "keep", !.heard = v]
  <2>2. /\ q \in Requests /\ Shape(q) /\ q.op # "ott" /\ q.barred \subseteq {"listed"}
        /\ q.who = {a} /\ ("listed" \in q.barred => cache[a] = "blacklisted")
    BY <1>5, PastSmurf DEF Answer
  <2>3. req' = [req EXCEPT ![h] = s]
    BY <2>1 DEF IInv, ReqInv
  <2>4. /\ s \in Requests /\ s.at = "keep" /\ s.who = q.who /\ s.mw = q.mw /\ s.op = q.op
        /\ s.jwt = q.jwt /\ s.barred = q.barred
    BY <2>2 DEF Requests, Places
  <2> HIDE DEF s, q, a
  <2>5. Shape(s)
    BY <2>2, <2>4 DEF Shape
  <2>6. Bars(s, locked, smurfs, cache)
    BY <2>2, <2>4 DEF Bars
  <2>7. Brings(s, known, ott, drawn.otts, unspent)
    BY <2>2, <2>4 DEF Brings
  <2> QED BY <1>0, <2>3, <2>5, <2>6, <2>7 DEF Fits
<1> QED BY <1>1, <1>2, <1>3, <1>4, <1>5 DEF FromDB

LEMMA ToDBInv ==
  ASSUME IInv, NEW h \in Handlers, ToDB(h), UNCHANGED moves
  PROVE  IInv'
<1> DEFINE q == req[h]
           a == Who(h)
           v == q.heard
           r == [q EXCEPT !.at = "mint", !.heard = "none", !.barred = @ \ {"listed"}]
<1>7. PICK kept \in BOOLEAN :
        /\ kept => a \in known
        /\ IF kept THEN cache' = [cache EXCEPT ![a] = v] ELSE UNCHANGED cache
        /\ req' = [g \in Handlers |->
             IF g = h THEN IF v = "good" THEN r ELSE Idle
             ELSE IF v = "blacklisted" \/ ~kept THEN req[g] ELSE Lifted(req[g], a, {"listed"})]
  BY DEF ToDB, verdict
<1> DEFINE keeps == v = "blacklisted" \/ ~kept
<1>8. kept => a \in known
  BY <1>7
<1>1. /\ At(h, "keep")
      /\ IF kept THEN cache' = [cache EXCEPT ![a] = v] ELSE UNCHANGED cache
      /\ req' = [g \in Handlers |->
           IF g = h THEN IF v = "good" THEN r ELSE Idle
           ELSE IF keeps THEN req[g] ELSE Lifted(req[g], a, {"listed"})]
      /\ UNCHANGED <<known, locked, smurfs, ott, riscchan, working, feed, disabled, jwts, revoked,
                     dead, used, unspent, drawn, excused>>
  BY <1>7 DEF ToDB, account, verdict, risc, tokens, spent
<1>2. /\ q \in Requests /\ Shape(q) /\ q.op # "ott" /\ q.barred \subseteq {"listed"}
      /\ a \in Agents /\ v \in Verdicts
  BY <1>1, PastSmurf DEF Requests
<1>3. /\ r \in Requests /\ r.at = "mint" /\ r.who = q.who /\ r.mw = q.mw /\ r.op = q.op
      /\ r.jwt = q.jwt /\ r.barred = {}
  BY <1>2 DEF Requests, Places, Verdicts
<1> HIDE DEF q, a, v, r
<1>4. AccountInv' /\ SpentInv' /\ TokenInv' /\ RiscInv'
  BY <1>1, <1>2, <1>8 DEF IInv, AccountInv, SpentInv, TokenInv, RiscInv
<1>5. ASSUME NEW g \in Handlers
      PROVE  Fits(req'[g], known', locked', smurfs', cache', ott', drawn'.otts, unspent')
  <2>1. Fits(req[g], known, locked, smurfs, cache, ott, drawn.otts, unspent)
    BY DEF IInv, ReqInv, HandlerInv
  <2>2. CASE g = h
    BY <1>1, <1>2, <1>3, <2>2, MintFits, IdleFits
  <2>3. CASE g # h /\ keeps
    <3>1. \A b \in Agents : cache[b] = "blacklisted" => cache'[b] = "blacklisted"
      BY <1>1, <2>3 DEF IInv, AccountInv
    <3>2. Fits(req[g], known, locked, smurfs, cache', ott, drawn.otts, unspent)
      BY <2>1, <3>1, BarsFit
    <3>3. req'[g] = req[g]
      BY <1>1, <2>3
    <3> QED BY <1>1, <3>2, <3>3
  <2>4. CASE g # h /\ ~keeps
    <3>1. \A b \in Agents : cache[b] = "blacklisted"
            => cache'[b] = "blacklisted" \/ (b = a /\ "listed" \in {"listed"})
      BY <1>1, <2>4 DEF IInv, AccountInv
    <3>2. {"listed"} \in SUBSET Grounds
      BY DEF Grounds
    <3>3. Fits(Lifted(req[g], a, {"listed"}), known, locked, smurfs, cache', ott, drawn.otts, unspent)
      BY <1>2, <2>1, <3>1, <3>2, LiftedFits
    <3>4. req'[g] = Lifted(req[g], a, {"listed"})
      BY <1>1, <2>4
    <3> QED BY <1>1, <3>3, <3>4
  <2> QED BY <2>2, <2>3, <2>4
<1>6. ReqInv'
  <2>1. req' = [g \in Handlers |-> req'[g]]
    BY <1>1
  <2> QED BY <1>5, <2>1, ReqFrom
<1> QED BY <1>4, <1>6 DEF IInv

\* A new token has the ID its login began with.
LEMMA IssueFacts ==
  ASSUME AccountInv, TokenInv, NEW a \in Agents, NEW id \in 1..MaxJwts, Issue(id, id, a),
         UNCHANGED <<revoked, dead>>
  PROVE  /\ TokenInv' /\ drawn'.otts = drawn.otts
         /\ drawn' \in [jwts : 0..MaxJwts, otts : 0..MaxOtts]
<1>1. /\ drawn.jwts < MaxJwts /\ drawn' = [drawn EXCEPT !.jwts = @ + 1]
      /\ drawn.jwts \in 0..MaxJwts /\ drawn.otts \in 0..MaxOtts /\ MaxJwts \in Nat
      /\ drawn \in [jwts : 0..MaxJwts, otts : 0..MaxOtts]
      /\ jwts' = jwts \cup {[no |-> drawn.jwts + 1, id |-> id, root |-> id, sub |-> a]}
  BY BoundsType DEF Issue, AccountInv
<1>2. drawn.jwts + 1 \in 1..MaxJwts /\ drawn.jwts + 1 \in 0..MaxJwts
  BY <1>1
<1>3. TokenInv'
  BY <1>1, <1>2 DEF TokenInv, Jwts, Original
<1> QED BY <1>1, <1>2, <1>3

LEMMA NewJwtFacts ==
  ASSUME AccountInv, TokenInv, NEW a \in Agents, NewJwt(a), UNCHANGED <<revoked, dead>>
  PROVE  /\ TokenInv' /\ drawn'.otts = drawn.otts
         /\ drawn' \in [jwts : 0..MaxJwts, otts : 0..MaxOtts]
<1> DEFINE id == drawn.jwts + 1
<1>1. Issue(id, id, a) /\ drawn.jwts < MaxJwts
  BY DEF NewJwt, Issue
<1>2. id \in 1..MaxJwts
  BY <1>1, BoundsType DEF AccountInv
<1> HIDE DEF id
<1> QED BY <1>1, <1>2, IssueFacts

LEMMA MintInv ==
  ASSUME IInv, NEW h \in Handlers, Mint(h), UNCHANGED moves
  PROVE  IInv'
<1>1. /\ At(h, "mint") /\ req' = [req EXCEPT ![h] = Idle]
      /\ UNCHANGED <<known, locked, smurfs, ott, cache, riscchan, working, feed, disabled,
                     revoked, dead, used, unspent, excused>>
  BY DEF Mint, Finish, account, verdict, risc, spent
<1>2. req[h] \in Requests /\ Shape(req[h]) /\ Who(h) \in Agents
  BY <1>1, PastSmurf
<1>3. TokenInv' /\ drawn'.otts = drawn.otts /\ drawn' \in [jwts : 0..MaxJwts, otts : 0..MaxOtts]
  <2>1. CASE RefreshJwt(h)
    <3>1. PICK t \in req[h].jwt : Issue(t.id, t.root, Who(h))
      BY <2>1 DEF RefreshJwt
    <3>2. t \in Claims /\ t.id = t.root
      BY <1>2 DEF Shape, Requests, Original
    <3>3. t.id \in 1..MaxJwts /\ Issue(t.id, t.id, Who(h))
      BY <3>1, <3>2 DEF Claims
    <3> QED BY <1>1, <1>2, <3>3, IssueFacts DEF IInv
  <2>2. CASE NewJwt(Who(h))
    BY <1>1, <1>2, <2>2, NewJwtFacts DEF IInv
  <2>3. CASE UNCHANGED <<jwts, drawn>>
    BY <1>1, <2>3 DEF IInv, TokenInv, AccountInv
  <2> QED BY <2>1, <2>2, <2>3 DEF Mint
<1>4. AccountInv' /\ SpentInv' /\ RiscInv'
  BY <1>1, <1>3 DEF IInv, AccountInv, SpentInv, RiscInv
<1>5. ReqInv'
  BY <1>1, <1>3, IdleFits, ReqStep DEF IInv
<1> QED BY <1>3, <1>4, <1>5 DEF IInv

LEMMA RouteFailsInv ==
  ASSUME IInv, NEW h \in Handlers, RouteFails(h), UNCHANGED moves
  PROVE  IInv'
BY IdleFits, SameStep DEF RouteFails, Finish

LEMMA MeIntelInv ==
  ASSUME IInv, NEW h \in Handlers, MeIntelID(h), UNCHANGED moves
  PROVE  IInv'
<1>1. /\ Who(h) \in Agents
      /\ UNCHANGED <<known, locked, ott, cache, riscchan, working, feed, disabled, jwts, revoked,
                     dead, used, unspent, drawn, excused>>
  BY Running DEF MeIntelID, verdict, risc, tokens, spent, IInv
<1>2. PICK res \in BOOLEAN :
        /\ SetIntelData(Who(h), res)
        /\ req' = [g \in Handlers |-> IF g = h THEN Idle
                                      ELSE IF res THEN req[g] ELSE Lifted(req[g], Who(h), {"smurf"})]
  BY DEF MeIntelID
<1>3. /\ AccountInv'
      /\ \A r : Fits(r, known, locked, smurfs, cache, ott, drawn.otts, unspent)
                => Fits(IF res THEN r ELSE Lifted(r, Who(h), {"smurf"}),
                        known', locked', smurfs', cache', ott', drawn'.otts, unspent')
  BY <1>1, <1>2, IntelFacts DEF IInv
<1>4. \A g \in Handlers : Fits(req'[g], known', locked', smurfs', cache', ott', drawn'.otts, unspent')
  BY <1>2, <1>3, IdleFits DEF IInv, ReqInv, HandlerInv
<1>5. ReqInv'
  <2>1. req' = [g \in Handlers |-> req'[g]]
    BY <1>2
  <2> QED BY <1>4, <2>1, ReqFrom
<1>6. SpentInv' /\ TokenInv' /\ RiscInv'
  BY <1>1 DEF IInv, SpentInv, TokenInv, RiscInv
<1> QED BY <1>3, <1>5, <1>6 DEF IInv

LEMMA MeDeleteInv ==
  ASSUME IInv, NEW h \in Handlers, MeDelete(h), UNCHANGED moves
  PROVE  IInv'
<1>1. /\ Who(h) \in Agents /\ Delete(Who(h))
      /\ UNCHANGED <<riscchan, working, feed, disabled, jwts, revoked, dead, used, unspent, drawn>>
      /\ req' = [g \in Handlers |-> IF g = h THEN Idle ELSE Lifted(req[g], Who(h), Grounds)]
  BY Running DEF MeDelete, risc, tokens, spent, IInv
<1>2. /\ AccountInv' /\ SpentInv'
      /\ \A r : Fits(r, known, locked, smurfs, cache, ott, drawn.otts, unspent)
                => Fits(Lifted(r, Who(h), Grounds), known', locked', smurfs', cache', ott', drawn'.otts, unspent')
  BY <1>1, DeleteFacts DEF IInv
<1>3. \A g \in Handlers : Fits(req'[g], known', locked', smurfs', cache', ott', drawn'.otts, unspent')
  BY <1>1, <1>2, IdleFits DEF IInv, ReqInv, HandlerInv
<1>4. ReqInv'
  <2>1. req' = [g \in Handlers |-> req'[g]]
    BY <1>1
  <2> QED BY <1>3, <2>1, ReqFrom
<1>5. TokenInv' /\ RiscInv'
  BY <1>1, DeleteRisc DEF IInv, TokenInv
<1> QED BY <1>2, <1>4, <1>5 DEF IInv
-----------------------------------------------------------------------------
(* Peers. *)

\* Every request changes alike, or none does.
LEMMA AllReq ==
  ASSUME ReqInv, NEW f,
         req' = [g \in Handlers |-> f[g]],
         \A g \in Handlers :
           Fits(req[g], known, locked, smurfs, cache, ott, drawn.otts, unspent)
           => Fits(f[g], known', locked', smurfs', cache', ott', drawn'.otts, unspent')
  PROVE  ReqInv'
BY ReqFrom DEF ReqInv, HandlerInv

LEMMA SameReq ==
  ASSUME ReqInv, UNCHANGED req,
         \A r : Fits(r, known, locked, smurfs, cache, ott, drawn.otts, unspent)
                => Fits(r, known', locked', smurfs', cache', ott', drawn'.otts, unspent')
  PROVE  ReqInv'
BY DEF ReqInv, HandlerInv

LEMMA PeersInv ==
  ASSUME IInv, Peers, moves' \in 0..MaxMoves
  PROVE  IInv'
<1>1. ASSUME NEW a \in Agents, Introduce(a)
      PROVE  IInv'
  <2>1. /\ FirstLogin(a)
        /\ UNCHANGED <<cache, riscchan, working, feed, disabled, jwts, revoked, dead, used,
                       unspent, req, excused>>
    BY <1>1 DEF Introduce, verdict, risc, tokens, spent
  <2>2. /\ AccountInv' /\ SpentInv' /\ UNCHANGED <<locked, smurfs>>
        /\ \A r : Fits(r, known, locked, smurfs, cache, ott, drawn.otts, unspent)
                  => Fits(r, known', locked', smurfs', cache', ott', drawn'.otts, unspent')
    BY <2>1, FirstLoginFacts DEF IInv
  <2>3. ReqInv'
    BY <2>1, <2>2, SameReq DEF IInv
  <2>4. TokenInv' /\ RiscInv'
    BY <2>1, <2>2 DEF IInv, TokenInv, RiscInv
  <2> QED BY <2>2, <2>3, <2>4 DEF IInv
<1>2. ASSUME NEW a \in Agents, PeerIntelData(a)
      PROVE  IInv'
  <2>1. UNCHANGED <<known, locked, ott, cache, riscchan, working, feed, disabled, jwts, revoked,
                    dead, used, unspent, drawn, excused>>
    BY <1>2 DEF PeerIntelData, verdict, risc, tokens, spent
  <2>2. PICK res \in BOOLEAN :
          SetIntelData(a, res) /\ IF res THEN UNCHANGED req ELSE Lift(a, {"smurf"})
    BY <1>2 DEF PeerIntelData
  <2>3. /\ AccountInv'
        /\ \A r : Fits(r, known, locked, smurfs, cache, ott, drawn.otts, unspent)
                  => Fits(IF res THEN r ELSE Lifted(r, a, {"smurf"}),
                          known', locked', smurfs', cache', ott', drawn'.otts, unspent')
    BY <2>1, <2>2, IntelFacts DEF IInv
  <2>4. ReqInv'
    <3>1. CASE res
      BY <2>2, <2>3, <3>1, SameReq DEF IInv
    <3>2. CASE ~res
      <4> DEFINE f == [g \in Handlers |-> Lifted(req[g], a, {"smurf"})]
      <4>1. req' = [g \in Handlers |-> f[g]]
        BY <2>2, <3>2 DEF Lift
      <4>2. \A g \in Handlers :
              Fits(req[g], known, locked, smurfs, cache, ott, drawn.otts, unspent)
              => Fits(f[g], known', locked', smurfs', cache', ott', drawn'.otts, unspent')
        BY <2>3, <3>2
      <4> HIDE DEF f
      <4> QED BY <4>1, <4>2, AllReq DEF IInv
    <3> QED BY <3>1, <3>2
  <2>5. SpentInv' /\ TokenInv' /\ RiscInv'
    BY <2>1 DEF IInv, SpentInv, TokenInv, RiscInv
  <2> QED BY <2>3, <2>4, <2>5 DEF IInv
<1>3. ASSUME NEW a \in Agents, PeerMint(a)
      PROVE  IInv'
  <2>1. /\ NewJwt(a)
        /\ UNCHANGED <<known, locked, smurfs, ott, cache, riscchan, working, feed, disabled,
                       revoked, dead, used, unspent, req, excused>>
    BY <1>3 DEF PeerMint, account, verdict, risc, spent
  <2>2. TokenInv' /\ drawn'.otts = drawn.otts /\ drawn' \in [jwts : 0..MaxJwts, otts : 0..MaxOtts]
    BY <2>1, NewJwtFacts DEF IInv
  <2>3. AccountInv' /\ SpentInv' /\ RiscInv'
    BY <2>1, <2>2 DEF IInv, AccountInv, SpentInv, RiscInv
  <2>4. ReqInv'
    BY <2>1, <2>2, SameReq DEF IInv
  <2> QED BY <2>2, <2>3, <2>4 DEF IInv
<1>4. ASSUME NEW j \in jwts, NEW id, id = j.id, RevokeJWT(id)
      PROVE  IInv'
  <2>1. UNCHANGED <<known, locked, smurfs, ott, cache, riscchan, working, feed, disabled, jwts,
                    used, unspent, req, drawn, excused>>
    BY <1>4 DEF RevokeJWT, account, verdict, risc, spent
  <2>2. id \in 1..MaxJwts /\ revoked' = revoked \cup {id}
    BY <1>4 DEF RevokeJWT, IInv, TokenInv, Jwts
  <2>4. dead' \subseteq dead \cup {id}
    BY <1>4 DEF RevokeJWT, IInv, TokenInv, Original
  <2>5. TokenInv'
    BY <2>1, <2>2, <2>4 DEF IInv, TokenInv
  <2>6. AccountInv' /\ SpentInv' /\ RiscInv'
    BY <2>1 DEF IInv, AccountInv, SpentInv, RiscInv
  <2>7. ReqInv'
    BY <2>1, SameReq DEF IInv
  <2> QED BY <2>5, <2>6, <2>7 DEF IInv
<1> QED BY <1>1, <1>2, <1>3, <1>4 DEF Peers
-----------------------------------------------------------------------------
(* RISC *)

LEMMA ChanFacts ==
  /\ InChan(<< >>) = {}
  /\ \A e : InChan(<< e >>) = {e} /\ Head(<< e >>) = e /\ Tail(<< e >>) = << >> /\ << e >> # << >>
<1>1. InChan(<< >>) = {}
  BY DEF InChan
<1>2. ASSUME NEW e
      PROVE  InChan(<< e >>) = {e} /\ Head(<< e >>) = e /\ Tail(<< e >>) = << >> /\ << e >> # << >>
  BY DEF InChan
<1> QED BY <1>1, <1>2

LEMMA EventFacts ==
  ASSUME NEW e \in Events
  PROVE  e.who \in Agents /\ e.kind \in {"disabled", "enabled", "purged"}
BY DEF Events, Kinds

LEMMA WebhookInv ==
  ASSUME IInv, NEW e \in Events, Webhook(e), moves' \in 0..MaxMoves
  PROVE  IInv'
<1>1. /\ riscchan = << >> /\ riscchan' = << e >>
      /\ disabled' = CASE e.kind = "disabled" -> disabled \cup {e.who}
                       [] e.kind = "enabled"  -> disabled \ {e.who}
                       [] OTHER               -> disabled
      /\ UNCHANGED <<known, locked, smurfs, ott, cache, working, feed, jwts, revoked, dead, used,
                     unspent, req, drawn, excused>>
  BY DEF Webhook, account, verdict, tokens, spent
<1>2. /\ disabled' \subseteq Agents
      /\ \A a \in Agents : IF Word(e, a) THEN (e.kind = "disabled") = (a \in disabled')
                           ELSE (a \in disabled') = (a \in disabled)
  BY <1>1, EventFacts DEF Word, IInv, RiscInv
<1>3. ASSUME NEW a \in Agents
      PROVE  Follows(a, {e}, working, disabled', locked, excused)
  <2>1. Follows(a, {}, working, disabled, locked, excused)
    BY <1>1, ChanFacts DEF IInv, RiscInv
  <2>2. CASE Word(e, a)
    BY <1>2, <2>2 DEF Follows
  <2>3. CASE ~Word(e, a)
    BY <1>2, <2>1, <2>3 DEF Follows
  <2> QED BY <2>2, <2>3
<1>4. RiscInv'
  BY <1>1, <1>2, <1>3, ChanFacts DEF IInv, RiscInv
<1>5. AccountInv' /\ SpentInv' /\ TokenInv'
  BY <1>1 DEF IInv, AccountInv, SpentInv, TokenInv
<1>6. ReqInv'
  BY <1>1, SameReq DEF IInv
<1> QED BY <1>4, <1>5, <1>6 DEF IInv

LEMMA TakeEventInv ==
  ASSUME IInv, TakeEvent, UNCHANGED moves
  PROVE  IInv'
<1>1. /\ working = {} /\ riscchan # << >>
      /\ working' = {Head(riscchan)} /\ riscchan' = Tail(riscchan)
      /\ UNCHANGED <<known, locked, smurfs, ott, cache, feed, disabled, jwts, revoked, dead, used,
                     unspent, req, drawn, excused>>
  BY DEF TakeEvent, account, verdict, tokens, spent
<1>2. PICK e \in Events : riscchan = << e >>
  BY <1>1 DEF IInv, RiscInv
<1>3. working' = {e} /\ riscchan' = << >>
  BY <1>1, <1>2, ChanFacts
<1>4. ASSUME NEW a \in Agents
      PROVE  Follows(a, {}, {e}, disabled, locked, excused)
  <2>1. Follows(a, {e}, {}, disabled, locked, excused)
    BY <1>1, <1>2, ChanFacts DEF IInv, RiscInv
  <2> QED BY <2>1 DEF Follows
<1>5. RiscInv'
  BY <1>1, <1>3, <1>4, ChanFacts DEF IInv, RiscInv
<1>6. AccountInv' /\ SpentInv' /\ TokenInv'
  BY <1>1 DEF IInv, AccountInv, SpentInv, TokenInv
<1>7. ReqInv'
  BY <1>1, SameReq DEF IInv
<1> QED BY <1>1, <1>5, <1>6, <1>7 DEF IInv

LEMMA HandleEventInv ==
  ASSUME IInv, HandleEvent, UNCHANGED moves
  PROVE  IInv'
<1> DEFINE c == InChan(riscchan)
<1>1. /\ working' = {}
      /\ UNCHANGED <<riscchan, feed, disabled, jwts, revoked, dead, used, unspent, drawn>>
  BY DEF HandleEvent, tokens, spent
<1>2. PICK e \in Events :
        /\ working = {e}
        /\ \/ EventFails(e)
           \/ /\ e.kind = "disabled" /\ Lock(e.who)
              /\ UNCHANGED <<known, smurfs, ott, cache, req>>
           \/ /\ e.kind = "enabled" /\ Unlock(e.who) /\ Lift(e.who, {"risc"})
              /\ UNCHANGED <<known, smurfs, ott, cache>>
           \/ /\ e.kind = "purged" /\ Delete(e.who) /\ Lift(e.who, Grounds)
  BY DEF HandleEvent, verdict, IInv, RiscInv
<1>3. e.who \in Agents
  BY EventFacts
<1>4. \A a \in Agents : Follows(a, c, {e}, disabled, locked, excused)
  BY <1>2 DEF IInv, RiscInv
<1>5. TokenInv'
  BY <1>1 DEF IInv, TokenInv
<1> HIDE DEF c
<1>6. SUFFICES AccountInv' /\ SpentInv' /\ ReqInv' /\ excused' \subseteq Agents
               /\ \A a \in Agents : Follows(a, c, {}, disabled, locked', excused')
  BY <1>1, <1>5 DEF IInv, RiscInv, c
<1>10. CASE EventFails(e)
  <2>1. /\ excused' = IF e.kind = "purged" THEN excused ELSE excused \cup {e.who}
        /\ UNCHANGED <<known, locked, smurfs, ott, cache, req>>
    BY <1>10 DEF EventFails, account, verdict
  <2>2. AccountInv' /\ SpentInv' /\ excused' \subseteq Agents
    BY <1>1, <1>3, <2>1 DEF IInv, AccountInv, SpentInv, RiscInv
  <2>3. ReqInv'
    BY <1>1, <2>1, SameReq DEF IInv
  <2>4. ASSUME NEW a \in Agents
        PROVE  Follows(a, c, {}, disabled, locked', excused')
    BY <1>4, <2>1 DEF Follows, Word
  <2> QED BY <2>2, <2>3, <2>4
<1>7. CASE e.kind = "disabled" /\ Lock(e.who) /\ UNCHANGED <<known, smurfs, ott, cache, req>>
  <2>1. /\ locked' = locked \cup ({e.who} \cap known)
        /\ excused' = IF e.who \in known THEN excused \ {e.who} ELSE excused \cup {e.who}
    BY <1>7 DEF Lock
  <2>2. AccountInv' /\ SpentInv' /\ excused' \subseteq Agents
    BY <1>1, <1>3, <1>7, <2>1 DEF IInv, AccountInv, SpentInv, RiscInv
  <2>3. ASSUME NEW r, Fits(r, known, locked, smurfs, cache, ott, drawn.otts, unspent)
        PROVE  Fits(r, known, locked', smurfs, cache, ott, drawn.otts, unspent)
    BY <2>1, <2>3, BarsFit
  <2>4. ReqInv'
    BY <1>1, <1>7, <2>3, SameReq DEF IInv
  <2>5. ASSUME NEW a \in Agents
        PROVE  Follows(a, c, {}, disabled, locked', excused')
    BY <1>4, <1>7, <2>1 DEF Follows, Word
  <2> QED BY <2>2, <2>4, <2>5
<1>8. CASE /\ e.kind = "enabled" /\ Unlock(e.who) /\ Lift(e.who, {"risc"})
           /\ UNCHANGED <<known, smurfs, ott, cache>>
  <2>1. locked' = locked \ {e.who} /\ excused' = excused \ {e.who}
    BY <1>8 DEF Unlock
  <2>2. AccountInv' /\ SpentInv' /\ excused' \subseteq Agents
    BY <1>1, <1>8, <2>1 DEF IInv, AccountInv, SpentInv, RiscInv
  <2>3. ReqInv'
    <3> DEFINE f == [g \in Handlers |-> Lifted(req[g], e.who, {"risc"})]
    <3>1. req' = [g \in Handlers |-> f[g]]
      BY <1>8 DEF Lift
    <3>2. ASSUME NEW r, Fits(r, known, locked, smurfs, cache, ott, drawn.otts, unspent)
          PROVE  Fits(Lifted(r, e.who, {"risc"}), known, locked', smurfs, cache, ott, drawn.otts, unspent)
      <4>1. /\ \A b \in Agents : b \in locked => b \in locked' \/ (b = e.who /\ "risc" \in {"risc"})
            /\ {"risc"} \in SUBSET Grounds
        BY <2>1 DEF Grounds
      <4> QED BY <1>3, <3>2, <4>1, LiftedFits
    <3>3. \A g \in Handlers :
            Fits(req[g], known, locked, smurfs, cache, ott, drawn.otts, unspent)
            => Fits(f[g], known', locked', smurfs', cache', ott', drawn'.otts, unspent')
      BY <1>1, <1>8, <3>2
    <3> HIDE DEF f
    <3> QED BY <3>1, <3>3, AllReq DEF IInv
  <2>4. ASSUME NEW a \in Agents
        PROVE  Follows(a, c, {}, disabled, locked', excused')
    BY <1>4, <1>8, <2>1 DEF Follows, Word
  <2> QED BY <2>2, <2>3, <2>4
<1>9. CASE e.kind = "purged" /\ Delete(e.who) /\ Lift(e.who, Grounds)
  <2>1. /\ AccountInv' /\ SpentInv'
        /\ \A r : Fits(r, known, locked, smurfs, cache, ott, drawn.otts, unspent)
                  => Fits(Lifted(r, e.who, Grounds), known', locked', smurfs', cache', ott', drawn'.otts, unspent')
    BY <1>1, <1>3, <1>9, DeleteFacts DEF IInv
  <2>2. locked' = locked \ {e.who} /\ excused' = excused \cup (locked \cap {e.who})
    BY <1>9 DEF Delete
  <2>3. ReqInv'
    <3> DEFINE f == [g \in Handlers |-> Lifted(req[g], e.who, Grounds)]
    <3>1. req' = [g \in Handlers |-> f[g]]
      BY <1>9 DEF Lift
    <3>2. \A g \in Handlers :
            Fits(req[g], known, locked, smurfs, cache, ott, drawn.otts, unspent)
            => Fits(f[g], known', locked', smurfs', cache', ott', drawn'.otts, unspent')
      BY <2>1
    <3> HIDE DEF f
    <3> QED BY <3>1, <3>2, AllReq DEF IInv
  <2>4. excused' \subseteq Agents
    BY <1>3, <2>2 DEF IInv, RiscInv
  <2>5. ASSUME NEW a \in Agents
        PROVE  Follows(a, c, {}, disabled, locked', excused')
    BY <1>4, <1>9, <2>2 DEF Follows, Word
  <2> QED BY <2>1, <2>3, <2>4, <2>5
<1> QED BY <1>2, <1>7, <1>8, <1>9, <1>10

LEMMA DisableWebhookInv ==
  ASSUME IInv, DisableWebhook, moves' \in 0..MaxMoves
  PROVE  IInv'
<1>1. /\ feed' = "closed"
      /\ UNCHANGED <<known, locked, smurfs, ott, cache, riscchan, working, disabled, jwts, revoked,
                     dead, used, unspent, req, drawn, excused>>
  BY DEF DisableWebhook, account, verdict, tokens, spent
<1>2. AccountInv' /\ SpentInv' /\ TokenInv' /\ RiscInv'
  BY <1>1 DEF IInv, AccountInv, SpentInv, TokenInv, RiscInv
<1>3. ReqInv'
  BY <1>1, SameReq DEF IInv
<1> QED BY <1>2, <1>3 DEF IInv

LEMMA RestartInv ==
  ASSUME IInv, Restart, moves' \in 0..MaxMoves
  PROVE  IInv'
<1>1. /\ req' = [h \in Handlers |-> Idle] /\ revoked' = {} /\ dead' = {}
      /\ riscchan' = << >> /\ working' = {} /\ feed' = "up"
      /\ excused' = excused \cup {e.who : e \in working} \cup {riscchan[i].who : i \in DOMAIN riscchan}
      /\ UNCHANGED <<known, locked, smurfs, ott, cache, jwts, disabled, used, unspent, drawn>>
  BY DEF Restart, account, verdict, spent
<1>2. AccountInv' /\ SpentInv' /\ TokenInv'
  BY <1>1 DEF IInv, AccountInv, SpentInv, TokenInv
<1>3. ReqInv'
  BY <1>1, IdleFits DEF ReqInv, HandlerInv
<1>4. /\ {riscchan[i].who : i \in DOMAIN riscchan} = {e.who : e \in InChan(riscchan)}
      /\ InChan(riscchan) \cup working \subseteq Events
  <2>1. {riscchan[i].who : i \in DOMAIN riscchan} = {e.who : e \in InChan(riscchan)}
    BY DEF InChan
  <2> QED BY <2>1, ChanFacts DEF IInv, RiscInv
<1>5. excused' \subseteq Agents
  BY <1>1, <1>4, EventFacts DEF IInv, RiscInv
<1>6. ASSUME NEW a \in Agents
      PROVE  Follows(a, {}, {}, disabled, locked, excused')
  <2>1. Follows(a, InChan(riscchan), working, disabled, locked, excused)
    BY DEF IInv, RiscInv
  <2>2. a \notin excused' => (\A e \in InChan(riscchan) \cup working : ~Word(e, a)) /\ a \notin excused
    BY <1>1, <1>4 DEF Word
  <2> QED BY <2>1, <2>2 DEF Follows
<1>7. RiscInv'
  BY <1>1, <1>5, <1>6, ChanFacts DEF IInv, RiscInv
<1> QED BY <1>2, <1>3, <1>7 DEF IInv
-----------------------------------------------------------------------------
(* The theorems. *)

LEMMA InitInv == Init => IInv
<1> SUFFICES ASSUME Init PROVE IInv
  OBVIOUS
<1>1. {MaxJwts, MaxOtts, MaxMoves} \subseteq Nat
  BY BoundsType
<1>2. AccountInv /\ TokenInv /\ SpentInv /\ moves \in 0..MaxMoves
  BY <1>1 DEF Init, AccountInv, TokenInv, SpentInv, Verdicts
<1>3. RiscInv
  BY ChanFacts DEF Init, RiscInv, Follows
<1>4. ReqInv
  BY IdleFits DEF Init, ReqInv, HandlerInv
<1> QED BY <1>2, <1>3, <1>4 DEF IInv

LEMMA NextInv == IInv /\ [Next]_vars => IInv'
<1> SUFFICES ASSUME IInv, [Next]_vars PROVE IInv'
  OBVIOUS
<1>1. CASE UNCHANGED vars
  <2>1. UNCHANGED <<known, locked, smurfs, ott, cache, riscchan, working, feed, disabled, jwts,
                    revoked, dead, used, unspent, req, drawn, excused, moves>>
    BY <1>1 DEF vars, account, verdict, risc, tokens, spent
  <2>2. AccountInv' /\ TokenInv' /\ SpentInv' /\ RiscInv' /\ (moves \in 0..MaxMoves)'
    BY <2>1 DEF IInv, AccountInv, TokenInv, SpentInv, RiscInv
  <2>3. ReqInv'
    BY <2>1, SameReq DEF IInv
  <2> QED BY <2>2, <2>3 DEF IInv
<1>2. ASSUME NEW h \in Handlers, Handler(h), UNCHANGED moves
      PROVE  IInv'
  <2>1. moves' \in 0..MaxMoves
    BY <1>2 DEF IInv
  <2>2. Replace(h) => IInv'
    BY <2>1, ReplacedInv DEF Replace
  <2> QED BY <1>2, <2>2, ArriveInv, ValidInv, FirstInv, CheckInv, ProviderInv, ToDBInv, MintInv,
            MeIntelInv, MeDeleteInv, RouteFailsInv DEF Handler, Provider
<1>3. CASE Worker
  BY <1>3, TakeEventInv, HandleEventInv DEF Worker
<1>4. CASE Moves /\ moves < MaxMoves /\ moves' = moves + 1
  <2>1. moves' \in 0..MaxMoves
    BY <1>4, BoundsType DEF IInv
  <2>2. \A h \in Handlers : ReplaceFails(h) => IInv'
    BY <2>1, ReplacedInv DEF ReplaceFails
  <2>3. \A h \in Handlers : QueryFails(h) => IInv'
    BY <2>1, QueryFailsInv
  <2> QED BY <1>4, <2>1, <2>2, <2>3, PeersInv, DisableWebhookInv, RestartInv, WebhookInv DEF Moves
<1> QED BY <1>1, <1>2, <1>3, <1>4 DEF Next

\* At every moment of every behaviour: one-time tokens are apart, the last
\* word of Google is done or on its way, and each request fits what is known.
THEOREM Invariant == Spec => []IInv
BY InitInv, NextInv, PTL DEF Spec

LEMMA AtMostOne ==
  ASSUME NEW S, S = {} \/ \E x : S = {x}
  PROVE  Cardinality(S) <= 1
<1>1. CASE S = {}
  <2>1. Cardinality(S) = 0
    BY <1>1, FS_EmptySet
  <2> QED BY <2>1
<1>2. ASSUME NEW x, S = {x}
      PROVE  Cardinality(S) <= 1
  <2>1. Cardinality(S) = 1
    BY <1>2, FS_Singleton
  <2> QED BY <2>1
<1> QED BY <1>1, <1>2

\* Every variable has its type: no two rows share a one-time token, what hangs
\* on a row goes with it, and the channel and the worker hold one event each.
THEOREM TypeCorrect == Spec => []TypeOK
<1>1. IInv => TypeOK
  <2> SUFFICES ASSUME IInv PROVE TypeOK
    OBVIOUS
  <2>1. drawn.otts \in 0..MaxOtts /\ MaxOtts \in Nat
    BY BoundsType DEF IInv, AccountInv
  <2>2. /\ ott \in [Agents -> 0..MaxOtts] /\ used \subseteq 1..MaxOtts /\ unspent \subseteq used
    BY <2>1 DEF IInv, AccountInv, SpentInv
  <2>3. riscchan \in Seq(Events) /\ Len(riscchan) <= 1
    <3>1. CASE riscchan = << >>
      BY <3>1
    <3>2. ASSUME NEW e \in Events, riscchan = << e >>
          PROVE  riscchan \in Seq(Events) /\ Len(riscchan) <= 1
      BY <3>2
    <3>3. riscchan = << >> \/ \E e \in Events : riscchan = << e >>
      BY DEF IInv, RiscInv
    <3> QED BY <3>1, <3>2, <3>3
  <2>4. working \subseteq Events /\ Cardinality(working) <= 1
    <3>1. working = {} \/ \E e \in Events : working = {e}
      BY DEF IInv, RiscInv
    <3> QED BY <3>1, AtMostOne
  <2>5. ASSUME NEW h \in Handlers
        PROVE  Cardinality(IF req[h] = Idle THEN {} ELSE req[h].who) <= 1
    <3>1. req[h] = Idle \/ \E a \in Agents : req[h].who = {a}
      BY DEF IInv, ReqInv, HandlerInv, Fits, Shape
    <3> QED BY <3>1, AtMostOne
  <2>6. /\ jwts \subseteq Jwts /\ revoked \subseteq 1..MaxJwts /\ dead \subseteq 1..MaxJwts
    BY DEF IInv, TokenInv
  <2> QED BY <2>2, <2>3, <2>4, <2>5, <2>6 DEF TypeOK, IInv, AccountInv, RiscInv, ReqInv
<1> QED BY <1>1, Invariant, PTL

\* Authorize mints no token for an agent who was locked, declared RES or listed
\* as blacklisted when it began, unless that has changed since: each ground is
\* in the tables for as long as it speaks against a request that has yet to
\* come to it, and nothing undoes it in between but what lifts it.
THEOREM BarredOut == Spec => []BarredStayOut
<1>1. IInv => BarredStayOut
  BY PastSmurf DEF BarredStayOut
<1> QED BY <1>1, Invariant, PTL

\* A one-time token lets in nobody who comes after it was used, unless
\* Increment failed to replace it: whoever holds a used token, in a row or in
\* a request, holds one of those.
THEOREM OnceOnly == Spec => []UsedOnce
<1>1. IInv => UsedOnce
  BY DEF IInv, ReqInv, HandlerInv, Fits, Brings, UsedOnce
<1> QED BY <1>1, Invariant, PTL

\* Once its events are handled, an agent with a row is locked exactly when
\* Google's last word was to disable him, whatever order the webhook, the
\* worker, the logins and the deletions take, with the exceptions the model
\* names (excused).
THEOREM LocksRight == Spec => []LocksFollowEvents
<1>1. IInv => LocksFollowEvents
  <2> SUFFICES ASSUME IInv, NEW a \in known \ excused, ~Pending(a)
               PROVE  a \in locked <=> a \in disabled
    BY DEF LocksFollowEvents
  <2>1. a \in Agents /\ Follows(a, InChan(riscchan), working, disabled, locked, excused)
    BY DEF IInv, AccountInv, RiscInv
  <2>2. \A e \in InChan(riscchan) \cup working : ~Word(e, a)
    BY DEF Pending, InChan, Word
  <2> QED BY <2>1, <2>2 DEF Follows
<1> QED BY <1>1, Invariant, PTL

\* A request starts in no other way than by arriving.
LEMMA StartsByArriving ==
  ASSUME IInv, [Next]_vars, NEW h \in Handlers, req[h] = Idle, req'[h] # Idle
  PROVE  Arrive(h)
<1>0. req \in [Handlers -> Requests \cup {Idle}]
  BY DEF IInv, ReqInv
<1>1. \A a, g : Lifted(req[h], a, g) = Idle
  BY DEF Lifted
<1>2. UNCHANGED req \/ (\E a, g : Lift(a, g)) \/ Restart => FALSE
  BY <1>1 DEF Lift, Restart
<1>3. ASSUME NEW f \in Handlers, Handler(f) \/ ReplaceFails(f) \/ QueryFails(f), ~Arrive(f)
      PROVE  FALSE
  <2>1. f # h
    BY <1>3, IdleFacts DEF Handler, Replace, Replaced, ReplaceFails, Valid, First, CheckRISC,
         CheckSmurf, Provider, FromDB, Unreachable, NotFound, Answer, ToDB, Mint, MeIntelID,
         MeDelete, RouteFails, QueryFails, At
  <2>2. CASE Valid(f) \/ First(f)
    <3>1. (At(f, "valid") \/ At(f, "first")) /\ (Seen(f) \/ Goto(f, "first") \/ Finish(f))
      BY <2>2 DEF Valid, First, Refuse
    <3>2. \E s : req' = [req EXCEPT ![f] = s]
      BY <3>1, SeenFits DEF Goto, Finish
    <3> QED BY <1>0, <2>1, <3>2
  <2>3. CASE Replace(f) \/ ReplaceFails(f)
    BY <1>0, <2>1, <2>3 DEF Replace, ReplaceFails, Replaced
  <2>4. CASE CheckRISC(f) \/ CheckSmurf(f) \/ FromDB(f) \/ Unreachable(f) \/ NotFound(f)
             \/ Answer(f) \/ Mint(f) \/ RouteFails(f) \/ QueryFails(f)
    BY <1>0, <2>1, <2>4 DEF RouteFails, QueryFails, Unread, CheckRISC, CheckSmurf, FromDB, Unreachable, NotFound, Answer, Mint,
         Decide, Granted, Refuse, Finish, Goto
  <2>5. CASE ToDB(f) \/ MeIntelID(f) \/ MeDelete(f)
    <3>1. req'[h] = req[h] \/ \E a, g : req'[h] = Lifted(req[h], a, g)
      <4>1. CASE ToDB(f)
        BY <2>1, <4>1 DEF ToDB
      <4>2. CASE MeIntelID(f)
        BY <2>1, <4>2 DEF MeIntelID
      <4>3. CASE MeDelete(f)
        BY <2>1, <4>3 DEF MeDelete
      <4> QED BY <2>5, <4>1, <4>2, <4>3
    <3> QED BY <1>1, <3>1
  <2> QED BY <1>3, <2>2, <2>3, <2>4, <2>5 DEF Handler, Provider
<1>4. Arrive(h) \/ \A f \in Handlers : ~Arrive(f)
  <2>1. ASSUME NEW f \in Handlers, f # h, Arrive(f)
        PROVE  FALSE
    BY <1>0, <2>1 DEF Arrive, ApTokenRoute, OneTimeTokenRoute, AuthMW, NewRequest
  <2> QED BY <2>1
<1>5. Peers \/ Worker \/ DisableWebhook \/ (\E e \in Events : Webhook(e)) => FALSE
  BY <1>2 DEF Peers, Introduce, PeerIntelData, PeerMint, RevokeJWT, Worker, TakeEvent,
       HandleEvent, EventFails, DisableWebhook, Webhook
<1> QED BY <1>2, <1>3, <1>4, <1>5 DEF Next, Moves, vars

\* Until the server restarts a revoked token is of no use, and neither is what
\* it was refreshed to, before or after: refreshing keeps the ID.
THEOREM RevokedOut == Spec => RevokedStayOut
<1>1. IInv /\ [Next]_vars =>
        [\A h \in Handlers :
           req[h] = Idle /\ req'[h] # Idle => \A t \in req'[h].jwt : t.root \notin dead]_vars
  <2> SUFFICES ASSUME IInv, [Next]_vars, NEW h \in Handlers, req[h] = Idle, req'[h] # Idle
               PROVE  \A t \in req'[h].jwt : t.root \notin dead
    OBVIOUS
  <2>1. Arrive(h)
    BY StartsByArriving
  <2>2. \A t \in req'[h].jwt : t.id \notin revoked /\ t.id = t.root
    <3>1. CASE ApTokenRoute(h) \/ OneTimeTokenRoute(h)
      BY <3>1 DEF ApTokenRoute, OneTimeTokenRoute, NewRequest, IInv, ReqInv
    <3>2. CASE AuthMW(h)
      <4>1. PICK t \in jwts : t.id \notin revoked /\ NewRequest(h, "me", "valid", {t.sub}, {Claimed(t)}, 0)
        BY <3>2 DEF AuthMW
      <4>2. req'[h].jwt = {Claimed(t)}
        BY <4>1 DEF NewRequest, IInv, ReqInv
      <4>3. Claimed(t).id = t.id /\ Claimed(t).root = t.root /\ t.id = t.root
        BY DEF Claimed, IInv, TokenInv, Original
      <4> QED BY <4>1, <4>2, <4>3
    <3> QED BY <2>1, <3>1, <3>2 DEF Arrive
  <2> QED BY <2>2 DEF IInv, TokenInv
<1> QED BY <1>1, Invariant, PTL DEF Spec, RevokedStayOut
=============================================================================
