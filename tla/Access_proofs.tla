---------------------------- MODULE Access_proofs ----------------------------
(***************************************************************************)
(* Theorems about Access, for any handlers, agents, teams, permissions and *)
(* bounds: the type invariant, RelevantTeamsTold, and that Access          *)
(* implements AccessPolicy.                                                *)
(*                                                                         *)
(* The invariant says of every request that it Knows what it has found     *)
(* out: op.Teams, the zones, read and found in its locals follow from what *)
(* it has seen (Evidence), and where it is follows from what its route     *)
(* asks (Path).  Each decision is a lemma about records: from a request    *)
(* that knows and an answer that is justified Becomes one that knows, or   *)
(* one that is granted and may be.  A step of a handler is then one of     *)
(* three kinds (ArriveStep, AskStep, ActStep), each of which keeps the     *)
(* invariant and is a step of the policy.                                  *)
(***************************************************************************)
EXTENDS Access, TLAPS

Asking == {"teams", "owner", "load", "ask", "row", "mine", "own", "ownAgain", "inteam"}
Checks == {"owner", "load", "ask"}

FactSet == [owner: BOOLEAN, teams: SUBSET Teams, perms: SUBSET Grantable,
            zones: SUBSET Policy!AnyZone, mine: BOOLEAN]

\* f says no more than g.
Below(f, g) == /\ f.owner => g.owner
               /\ f.teams \subseteq g.teams
               /\ f.perms \subseteq g.perms
               /\ f.zones \subseteq g.zones
               /\ f.mine => g.mine

\* Why a zone is in the list of those open to the agent.
Opened(z, f) == \/ z = AssignOnly
                \/ z = ZoneAll /\ f.owner
                \/ \E p \in Policy!By(f, {"read", "write"}) : p.zone = z

\* What a request has found out it has seen.
Evidence(r, f) ==
  /\ r.teams \subseteq f.perms
  /\ \A z \in r.zones : Opened(z, f)
  /\ r.read => Policy!Reads(f)
  /\ r.found => Policy!Finds(f) /\ Policy!Enters(f)
  /\ ~r.gate /\ r.at \in {"row", "mine"} => Policy!Enters(f)
  /\ r.at = "inteam" => f.owner

\* Which question a request asks at which place.
Path(r) ==
  /\ r.agent \in Agents
  /\ r.at \in Asking
  /\ r.at \in {"own", "ownAgain", "inteam"} <=> r.need = "own"
  /\ r.need = "own" => ~r.task
  /\ r.need # "keys"
  /\ r.need = "hardness" => ~r.task /\ r.gate /\ r.at \in Checks
  /\ r.task /\ ~r.gate <=> r.need \in Policy!Undecided
  /\ r.at \in {"teams", "row"} => ~r.gate
  /\ r.at = "ask" => \A p \in r.todo : p \in r.teams /\ p.role \in Roles[r.check]
  /\ r.at = "owner" => r.check # "assignedonly"
  /\ r.at = "teams" \/ (r.at \in Checks /\ r.check = "read") => AssignOnly \notin r.zones
  /\ ~r.gate /\ r.need # "own" => r.task \/ r.need = "enter"
  /\ ~r.gate /\ r.at \in Checks => r.check # "write"
  /\ r.gate /\ r.task => r.found
  /\ r.gate /\ r.at = "mine" => r.need \in {"mine", "link"}
  /\ r.gate /\ r.at \in Checks =>
       \/ r.need \in {"write", "link", "hardness"} /\ r.check = "write"
       \/ r.need = "read" /\ r.check = "read"
       \/ r.need = "enter" /\ r.check # "write"

Knows(r, f) == Path(r) /\ (r.need # "hardness" => Evidence(r, f))

\* By what a request has seen it may be granted; the hardness route does not keep
\* to the policy that is Strict.
Grantworthy(r, f) ==
  /\ (Strict /\ r.need = "hardness") \/ Policy!Entitled(r.need, f)
  /\ r.task => Policy!Finds(f) /\ Policy!Enters(f)

\* What a request needs stays what it is, once it is decided.
Follows(m, n) == n = m \/ (m \in Policy!Undecided /\ n \in Policy!ToDecide[m])

\* What request r becomes, having seen f: nothing, or s, which goes on asking
\* with what it knows, or is granted.
Becomes(r, s, f) ==
  /\ s \in Request
  /\ \/ s = Idle
     \/ /\ s.agent = r.agent /\ s.task = r.task /\ s.teams = r.teams /\ s.cut = r.cut
        /\ \/ Knows(s, f) /\ Follows(r.need, s.need)
           \/ s.at = "act" /\ s.need = r.need /\ Grantworthy(r, f)
-----------------------------------------------------------------------------
(* Facts. *)

LEMMA BelowBy ==
  ASSUME NEW f \in FactSet, NEW g \in FactSet, Below(f, g), NEW roles
  PROVE  Policy!By(f, roles) \subseteq Policy!By(g, roles)
BY DEF Below, Policy!By

LEMMA BelowKnows ==
  ASSUME NEW f \in FactSet, NEW g \in FactSet, Below(f, g), NEW r, Knows(r, f)
  PROVE  Knows(r, g)
<1>1. /\ Policy!Reads(f) => Policy!Reads(g)
      /\ Policy!Enters(f) => Policy!Enters(g)
  BY BelowBy DEF Below, Policy!Reads, Policy!Enters
<1>2. Policy!Finds(f) => Policy!Finds(g)
  BY BelowBy DEF Below, Policy!Finds
<1>3. \A z : Opened(z, f) => Opened(z, g)
  BY BelowBy DEF Below, Opened
<1>4. r.teams \subseteq f.perms => r.teams \subseteq g.perms
  BY DEF Below
<1> QED BY <1>1, <1>2, <1>3, <1>4 DEF Knows, Evidence, Below

LEMMA JoinFacts ==
  ASSUME NEW f \in FactSet, NEW g \in FactSet
  PROVE  /\ Policy!Join(f, g) \in FactSet
         /\ Below(f, Policy!Join(f, g)) /\ Below(g, Policy!Join(f, g))
BY DEF FactSet, Policy!Join, Below

LEMMA AboutFacts ==
  ASSUME NEW f \in FactSet, NEW need
  PROVE  Policy!About(need, f) \in FactSet
BY DEF FactSet, Policy!About, Policy!NoFacts

LEMMA FactsFacts ==
  ASSUME TypeOK, NEW a \in Agents
  PROVE  /\ Policy!Facts[a] \in FactSet
         /\ Policy!Facts[a] = [owner |-> owner = a, teams |-> {t \in Teams : a \in members[t]},
                               perms |-> Held, zones |-> {zone}, mine |-> rows[a] = 1]
BY DEF TypeOK, FactSet, Policy!Facts, Held, Policy!Held
-----------------------------------------------------------------------------
(* The parts of a check. *)

LEMMA IdleType == Idle \in Request /\ Idle.at = "idle" /\ Idle.teams = {} /\ ~Idle.task
BY DEF Idle, Request, Places, Policy!Needs

LEMMA StartType ==
  ASSUME NEW r \in Request, NEW c \in {"read", "assignedonly", "write"}
  PROVE  Start(r, c) \in Request
<1> DEFINE at == IF c = "assignedonly" THEN "load" ELSE "owner"
<1>1. at \in Places
  BY DEF Places
<1> HIDE DEF at
<1>2. [r EXCEPT !.check = c, !.todo = {}, !.at = at] \in Request
  BY <1>1 DEF Request
<1> QED BY <1>2 DEF Start, at

LEMMA StartFields ==
  ASSUME NEW r \in Request, NEW c \in {"read", "assignedonly", "write"},
         NEW s, s = Start(r, c)
  PROVE  /\ s \in Request /\ s.agent = r.agent /\ s.need = r.need /\ s.task = r.task
         /\ s.teams = r.teams /\ s.cut = r.cut /\ s.found = r.found /\ s.gate = r.gate
         /\ s.read = r.read /\ s.zones = r.zones /\ s.check = c
         /\ c = "assignedonly" => s.at = "load"
         /\ c # "assignedonly" => s.at = "owner"
<1>1. s \in Request
  BY StartType
<1>2. /\ s.agent = r.agent /\ s.need = r.need /\ s.task = r.task
      /\ s.teams = r.teams /\ s.cut = r.cut /\ s.found = r.found /\ s.gate = r.gate
      /\ s.read = r.read /\ s.zones = r.zones /\ s.check = c
  BY DEF Start, Request
<1>3. (c = "assignedonly" => s.at = "load") /\ (c # "assignedonly" => s.at = "owner")
  BY DEF Start, Request
<1> QED BY <1>1, <1>2, <1>3

LEMMA PopulateType ==
  ASSUME NEW r \in Request
  PROVE  Populate(r) \in Request
BY DEF Populate, Request, Places

LEMMA GateType ==
  ASSUME NEW r \in Request
  PROVE  Gate(r) \in Request
<1> DEFINE g == [r EXCEPT !.gate = TRUE, !.read = FALSE, !.zones = {}]
<1>1. g \in Request /\ [g EXCEPT !.at = "mine"] \in Request
  BY DEF Request, Places
<1> HIDE DEF g
<1>2. Start(g, "write") \in Request /\ Start(g, "read") \in Request
  BY <1>1, StartType
<1> QED BY <1>1, <1>2 DEF Gate, g

LEMMA GateAsks ==
  ASSUME NEW r \in Request
  PROVE  Gate(r).at \in {"mine", "owner"}
<1> DEFINE g == [r EXCEPT !.gate = TRUE, !.read = FALSE, !.zones = {}]
<1>1. g \in Request /\ [g EXCEPT !.at = "mine"].at = "mine"
  BY DEF Request
<1> HIDE DEF g
<1>2. Start(g, "write").at = "owner" /\ Start(g, "read").at = "owner"
  BY <1>1, StartFields
<1> QED BY <1>1, <1>2 DEF Gate, g

LEMMA GrantedType ==
  ASSUME NEW r \in Request
  PROVE  Granted(r) \in Request
BY DEF Granted, Granting, Request, Places
-----------------------------------------------------------------------------
(* What a check decides follows from what has been seen. *)

LEMMA NeedsCases ==
  ASSUME NEW r \in Request
  PROVE  /\ r.need \in {"write", "read", "enter", "link", "mine", "own", "hardness", "keys",
                          "ofTask", "ofLink"}
         /\ r.check \in {"read", "assignedonly", "write"}
         /\ {r.task, r.again, r.gate, r.read, r.found, r.aside} \subseteq BOOLEAN
BY DEF Request, Policy!Needs, Policy!Undecided

LEMMA PopulateKnows ==
  ASSUME NEW r \in Request, NEW f \in FactSet,
         r.agent \in Agents, r.task => r.need \in Policy!Undecided,
         ~r.task => r.need = "enter",
         r.teams \subseteq f.perms, r.found => Policy!Finds(f) /\ Policy!Enters(f)
  PROVE  Becomes(r, Populate(r), f)
<1> DEFINE s == Populate(r)
<1>1. /\ s \in Request /\ s.agent = r.agent /\ s.need = r.need /\ s.task = r.task
      /\ s.teams = r.teams /\ s.cut = r.cut /\ s.found = r.found /\ ~s.gate /\ ~s.read
      /\ s.zones = {} /\ s.check = "read" /\ s.at = "teams"
  BY PopulateType DEF Populate, Request
<1> HIDE DEF s
<1>2. Path(s)
  BY <1>1 DEF Path, Asking, Checks, Policy!Undecided
<1>3. Evidence(s, f)
  BY <1>1 DEF Evidence
<1> QED BY <1>1, <1>2, <1>3 DEF Becomes, Knows, Follows, s

LEMMA GateKnows ==
  ASSUME NEW r \in Request, NEW f \in FactSet,
         r.agent \in Agents, r.need \notin {"own", "keys"} \cup Policy!Undecided,
         r.need = "hardness" => ~r.task,
         r.task => r.found,
         r.need # "hardness" => /\ r.teams \subseteq f.perms
                                /\ r.found => Policy!Finds(f) /\ Policy!Enters(f)
  PROVE  Becomes(r, Gate(r), f)
<1> DEFINE g == [r EXCEPT !.gate = TRUE, !.read = FALSE, !.zones = {}]
           s == Gate(r)
<1>1. /\ g \in Request /\ g.agent = r.agent /\ g.need = r.need /\ g.task = r.task
      /\ g.teams = r.teams /\ g.cut = r.cut /\ g.found = r.found /\ g.gate /\ ~g.read /\ g.zones = {}
  BY DEF Request
<1>2. s = IF r.need = "mine" THEN [g EXCEPT !.at = "mine"]
          ELSE Start(g, IF r.need \in {"write", "link", "hardness"} THEN "write" ELSE "read")
  BY DEF Gate
<1> HIDE DEF g, s
<1>3. CASE r.need = "mine"
  <2>1. /\ s \in Request /\ s.agent = r.agent /\ s.need = r.need /\ s.task = r.task
        /\ s.teams = r.teams /\ s.cut = r.cut /\ s.found = r.found /\ s.gate /\ ~s.read /\ s.zones = {}
        /\ s.at = "mine"
    BY <1>1, <1>2, <1>3 DEF Request, Places
  <2> QED BY <1>3, <2>1 DEF Becomes, Knows, Follows, Path, Evidence, Asking, Checks, Policy!Undecided, s
<1>4. CASE r.need # "mine"
  <2> DEFINE c == IF r.need \in {"write", "link", "hardness"} THEN "write" ELSE "read"
  <2>0. c # "assignedonly" /\ c \in {"read", "assignedonly", "write"}
    OBVIOUS
  <2>6. s = [g EXCEPT !.check = c, !.todo = {}, !.at = "owner"]
    BY <1>2, <1>4, <2>0 DEF Start
  <2> HIDE DEF c
  <2>3. s \in Request
    BY <1>1, <2>0, <2>6 DEF Request, Places
  <2>4. /\ s.agent = r.agent /\ s.need = r.need /\ s.task = r.task
        /\ s.teams = r.teams /\ s.cut = r.cut /\ s.found = r.found
    BY <1>1, <2>6 DEF Request
  <2>5. s.gate /\ ~s.read /\ s.zones = {} /\ s.at = "owner" /\ s.check = c
    BY <1>1, <2>6 DEF Request
  <2>1. /\ s \in Request /\ s.agent = r.agent /\ s.need = r.need /\ s.task = r.task
        /\ s.teams = r.teams /\ s.cut = r.cut /\ s.found = r.found /\ s.gate /\ ~s.read /\ s.zones = {}
        /\ s.at = "owner" /\ s.check = c
    BY <2>3, <2>4, <2>5
  <2> USE DEF c
  <2>2. Path(s)
    BY <1>4, <2>1, NeedsCases DEF Path, Asking, Checks, Policy!Undecided
  <2> QED BY <2>1, <2>2 DEF Becomes, Knows, Follows, Evidence, s
<1> QED BY <1>3, <1>4

LEMMA GrantedBecomes ==
  ASSUME NEW r \in Request, NEW f, Grantworthy(r, f)
  PROVE  Becomes(r, Granted(r), f)
<1>1. /\ Granted(r).agent = r.agent /\ Granted(r).need = r.need /\ Granted(r).task = r.task
      /\ Granted(r).teams = r.teams /\ Granted(r).cut = r.cut /\ Granted(r).at = "act"
  BY DEF Granted, Request
<1> QED BY <1>1, GrantedType DEF Becomes

\* The answer of a check has its reason.
Justified(r, yes, f) ==
  yes /\ r.need # "hardness" =>
    /\ r.check = "read" => Policy!Reads(f)
    /\ r.check = "write" => Policy!Writes(f)
    /\ r.check = "assignedonly" => Policy!Enters(f)

LEMMA PopulateDecidesBecomes ==
  ASSUME NEW r \in Request, NEW f \in FactSet, NEW yes \in BOOLEAN,
         Knows(r, f), Justified(r, yes, f), r.at \in Checks, ~r.gate, r.todo = {}
  PROVE  Becomes(r, PopulateDecides(r, yes), f)
<1> USE NeedsCases
<1>1. /\ r.need \notin {"own", "hardness", "keys"} /\ r.agent \in Agents /\ r.check # "write"
      /\ (r.task \/ r.need = "enter") /\ Evidence(r, f) /\ (r.task <=> r.need \in Policy!Undecided)
  BY DEF Knows, Path, Checks
<1>2. CASE r.check = "read"
  <2> DEFINE g == [r EXCEPT !.read = yes]
             s == Start(g, "assignedonly")
  <2>1. PopulateDecides(r, yes) = s
    BY <1>2 DEF PopulateDecides
  <2>0. /\ g \in Request /\ g.agent = r.agent /\ g.need = r.need /\ g.task = r.task
        /\ g.teams = r.teams /\ g.cut = r.cut /\ g.found = r.found /\ ~g.gate /\ g.read = yes /\ g.zones = r.zones
    BY DEF Request
  <2> HIDE DEF g
  <2>2. /\ s \in Request /\ s.agent = r.agent /\ s.need = r.need /\ s.task = r.task
        /\ s.teams = r.teams /\ s.cut = r.cut /\ s.found = r.found /\ ~s.gate /\ s.read = yes
        /\ s.zones = r.zones /\ s.check = "assignedonly" /\ s.at = "load"
    <3>1. s = Start(g, "assignedonly")
      OBVIOUS
    <3> HIDE DEF s
    <3> QED BY <2>0, <3>1, StartFields
  <2> HIDE DEF s
  <2>3. Path(s)
    BY <1>1, <2>2 DEF Path, Asking, Checks, Policy!Undecided
  <2>4. Evidence(s, f)
    BY <1>1, <1>2, <2>2 DEF Evidence, Justified
  <2> QED BY <2>1, <2>2, <2>3, <2>4 DEF Becomes, Knows, Follows
<1>3. CASE r.check # "read" /\ r.read
  <2> DEFINE s == [r EXCEPT !.at = "row"]
  <2>1. PopulateDecides(r, yes) = s
    BY <1>3 DEF PopulateDecides
  <2>2. /\ s \in Request /\ s.agent = r.agent /\ s.need = r.need /\ s.task = r.task
        /\ s.teams = r.teams /\ s.cut = r.cut /\ s.found = r.found /\ ~s.gate /\ s.read = r.read
        /\ s.zones = r.zones /\ s.check = r.check /\ s.at = "row"
    BY DEF Request, Places
  <2> HIDE DEF s
  <2>3. Path(s)
    BY <1>1, <2>2 DEF Path, Asking, Checks, Policy!Undecided
  <2>4. Evidence(s, f)
    BY <1>1, <1>3, <2>2 DEF Evidence, Policy!Enters
  <2> QED BY <2>1, <2>2, <2>3, <2>4 DEF Becomes, Knows, Follows
<1>4. CASE r.check # "read" /\ ~r.read /\ yes
  <2> DEFINE s == [r EXCEPT !.at = "row", !.zones = {AssignOnly}]
  <2>1. PopulateDecides(r, yes) = s
    BY <1>4 DEF PopulateDecides
  <2>2. /\ s \in Request /\ s.agent = r.agent /\ s.need = r.need /\ s.task = r.task
        /\ s.teams = r.teams /\ s.cut = r.cut /\ s.found = r.found /\ ~s.gate /\ s.read = r.read
        /\ s.zones = {AssignOnly} /\ s.check = r.check /\ s.at = "row"
    BY DEF Request, Places
  <2> HIDE DEF s
  <2>3. Path(s)
    BY <1>1, <2>2 DEF Path, Asking, Checks, Policy!Undecided
  <2>4. Evidence(s, f)
    BY <1>1, <1>4, <2>2 DEF Evidence, Justified, Opened
  <2> QED BY <2>1, <2>2, <2>3, <2>4 DEF Becomes, Knows, Follows
<1>5. CASE r.check # "read" /\ ~r.read /\ ~yes
  BY <1>5, IdleType DEF PopulateDecides, Becomes
<1> QED BY <1>2, <1>3, <1>4, <1>5

LEMMA RouteDecidesBecomes ==
  ASSUME NEW r \in Request, NEW f \in FactSet, NEW yes \in BOOLEAN,
         Knows(r, f), Justified(r, yes, f), r.at \in Checks, r.gate
  PROVE  Becomes(r, RouteDecides(r, yes), f)
<1> USE NeedsCases
<1>1. /\ r.need \notin {"own", "mine"} /\ r.agent \in Agents
      /\ r.need = "hardness" => ~r.task
      /\ r.task => r.found
      /\ r.need # "hardness" => Evidence(r, f)
      /\ \/ r.need \in {"write", "link", "hardness"} /\ r.check = "write"
         \/ r.need = "read" /\ r.check = "read"
         \/ r.need = "enter" /\ r.check # "write"
  BY DEF Knows, Path, Checks
<1>2. CASE Getting(r) /\ r.check = "read"
  <2> DEFINE g == [r EXCEPT !.read = yes, !.zones = {}]
             s == Start(g, "assignedonly")
  <2>1. RouteDecides(r, yes) = s
    BY <1>2 DEF RouteDecides, Getting
  <2>0. /\ g \in Request /\ g.agent = r.agent /\ g.need = r.need /\ g.task = r.task
        /\ g.teams = r.teams /\ g.cut = r.cut /\ g.found = r.found /\ g.gate /\ g.read = yes /\ g.zones = {}
    BY <1>1 DEF Request
  <2> HIDE DEF g
  <2>2. /\ s \in Request /\ s.agent = r.agent /\ s.need = r.need /\ s.task = r.task
        /\ s.teams = r.teams /\ s.cut = r.cut /\ s.found = r.found /\ s.gate /\ s.read = yes
        /\ s.zones = {} /\ s.check = "assignedonly" /\ s.at = "load"
    <3>1. s = Start(g, "assignedonly")
      OBVIOUS
    <3> HIDE DEF s
    <3> QED BY <2>0, <3>1, StartFields
  <2> HIDE DEF s
  <2>3. Path(s)
    BY <1>1, <1>2, <2>2 DEF Path, Asking, Checks, Policy!Undecided, Getting
  <2>4. Evidence(s, f)
    BY <1>1, <1>2, <2>2 DEF Evidence, Justified, Getting
  <2> QED BY <2>1, <2>2, <2>3, <2>4 DEF Becomes, Knows, Follows
<1>3. CASE Getting(r) /\ r.check # "read" /\ (r.read \/ yes)
  <2>1. RouteDecides(r, yes) = Populate(r)
    BY <1>3 DEF RouteDecides, Getting
  <2> QED BY <1>1, <1>3, <2>1, PopulateKnows DEF Evidence, Getting
<1>4. CASE r.need = "enter" /\ r.task /\ r.check = "read" /\ ~yes
  <2> DEFINE s == Start(r, "assignedonly")
  <2>1. RouteDecides(r, yes) = s
    BY <1>4 DEF RouteDecides, Getting
  <2>2. /\ s \in Request /\ s.agent = r.agent /\ s.need = r.need /\ s.task = r.task
        /\ s.teams = r.teams /\ s.cut = r.cut /\ s.found = r.found /\ s.gate /\ s.read = r.read
        /\ s.zones = r.zones /\ s.check = "assignedonly" /\ s.at = "load"
    BY <1>1 DEF Start, Request, Places
  <2> HIDE DEF s
  <2>3. Path(s)
    BY <1>1, <1>4, <2>2 DEF Path, Asking, Checks, Policy!Undecided
  <2>4. Evidence(s, f)
    BY <1>1, <1>4, <2>2 DEF Evidence
  <2> QED BY <2>1, <2>2, <2>3, <2>4 DEF Becomes, Knows, Follows
<1>5. CASE r.need = "link" /\ ~yes
  <2> DEFINE s == [r EXCEPT !.at = "mine", !.todo = {}]
  <2>1. RouteDecides(r, yes) = s
    BY <1>5 DEF RouteDecides, Getting
  <2>2. /\ s \in Request /\ s.agent = r.agent /\ s.need = r.need /\ s.task = r.task
        /\ s.teams = r.teams /\ s.cut = r.cut /\ s.found = r.found /\ s.gate /\ s.read = r.read
        /\ s.zones = r.zones /\ s.check = r.check /\ s.at = "mine"
    BY <1>1 DEF Request, Places
  <2> HIDE DEF s
  <2>3. Path(s)
    BY <1>1, <1>5, <2>2 DEF Path, Asking, Checks, Policy!Undecided
  <2>4. Evidence(s, f)
    BY <1>1, <1>5, <2>2 DEF Evidence
  <2> QED BY <2>1, <2>2, <2>3, <2>4 DEF Becomes, Knows, Follows
<1>6. CASE ~Getting(r) /\ yes = (r.need # "hardness")
  <2>1. RouteDecides(r, yes) = Granted(r)
    BY <1>6 DEF RouteDecides, Getting
  <2>2. r.need = "hardness" => Strict \/ Policy!Entitled(r.need, f)
    BY DEF Policy!Entitled
  <2>3. r.need = "hardness" \/ Policy!Entitled(r.need, f)
    BY <1>1, <1>6 DEF Justified, Policy!Entitled, Policy!Enters
  <2>4. r.task => Policy!Finds(f) /\ Policy!Enters(f)
    BY <1>1 DEF Evidence
  <2> QED BY <2>1, <2>2, <2>3, <2>4, GrantedBecomes DEF Grantworthy
<1>7. CASE /\ ~(Getting(r) /\ r.check = "read")
           /\ ~(Getting(r) /\ r.check # "read" /\ (r.read \/ yes))
           /\ ~(r.need = "enter" /\ r.task /\ r.check = "read" /\ ~yes)
           /\ ~(r.need = "link" /\ ~yes)
           /\ ~(~Getting(r) /\ yes = (r.need # "hardness"))
  BY <1>7, IdleType DEF RouteDecides, Becomes
<1> QED BY <1>2, <1>3, <1>4, <1>5, <1>6, <1>7

LEMMA DecidesBecomes ==
  ASSUME NEW r \in Request, NEW f \in FactSet, NEW yes \in BOOLEAN,
         Knows(r, f), Justified(r, yes, f), r.at \in Checks
  PROVE  Becomes(r, Decides(r, yes), f)
<1>1. CASE r.gate
  BY <1>1, RouteDecidesBecomes DEF Decides
<1>2. CASE ~r.gate
  <2> DEFINE s == [r EXCEPT !.todo = {}]
  <2>1. /\ s \in Request /\ s.agent = r.agent /\ s.need = r.need /\ s.task = r.task
        /\ s.teams = r.teams /\ s.cut = r.cut /\ s.found = r.found /\ s.gate = r.gate /\ s.read = r.read
        /\ s.zones = r.zones /\ s.check = r.check /\ s.at = r.at /\ s.todo = {}
    BY DEF Request
  <2>2. Decides(r, yes) = PopulateDecides(s, yes)
    BY <1>2 DEF Decides
  <2> HIDE DEF s
  <2>3. Knows(s, f) /\ Justified(s, yes, f)
    BY <2>1 DEF Knows, Path, Evidence, Justified
  <2>4. Becomes(s, Decides(r, yes), f)
    BY <1>2, <2>1, <2>2, <2>3, PopulateDecidesBecomes
  <2> QED BY <2>1, <2>4 DEF Becomes, Grantworthy
<1> QED BY <1>1, <1>2
-----------------------------------------------------------------------------
(* What the policy sees of a request. *)

\* What the policy is told of request r.
AskOf(r) == [agent |-> r.agent, need |-> r.need, task |-> r.task, granted |-> r.at \in Granting]

LEMMA AskIsAsk ==
  ASSUME NEW r
  PROVE  AskOf(r) # Policy!NoAsk
<1>1. "agent" \in DOMAIN AskOf(r)
  BY DEF AskOf
<1>2. "agent" \notin DOMAIN Policy!NoAsk
  BY DEF Policy!NoAsk
<1> QED BY <1>1, <1>2

LEMMA AskFields ==
  ASSUME NEW r
  PROVE  /\ AskOf(r).agent = r.agent
         /\ AskOf(r).need = r.need
         /\ AskOf(r).granted = (r.at \in Granting)
BY DEF AskOf

LEMMA AskType ==
  ASSUME NEW r \in Request, r.agent \in Agents
  PROVE  AskOf(r) \in Policy!Ask
BY DEF AskOf, Policy!Ask, Request

LEMMA AskGranted ==
  ASSUME NEW r \in Request, NEW s \in Request, r.agent \in Agents,
         s.agent = r.agent, s.need = r.need, s.task = r.task, s.at \in Granting
  PROVE  AskOf(s) = [AskOf(r) EXCEPT !.granted = TRUE]
<1>1. AskOf(r) \in Policy!Ask /\ AskOf(s) \in Policy!Ask
  BY AskType
<1>2. /\ AskOf(s).agent = AskOf(r).agent /\ AskOf(s).need = AskOf(r).need
      /\ AskOf(s).task = AskOf(r).task
  BY DEF AskOf
<1>3. AskOf(s).granted = TRUE
  BY AskFields
<1> QED BY <1>1, <1>2, <1>3 DEF Policy!Ask

LEMMA AskSame ==
  ASSUME NEW r, NEW s, s.agent = r.agent, s.need = r.need, s.task = r.task,
         r.at \notin Granting, s.at \notin Granting
  PROVE  AskOf(s) = AskOf(r)
<1>1. (r.at \in Granting) = FALSE /\ (s.at \in Granting) = FALSE
  OBVIOUS
<1> QED BY <1>1 DEF AskOf

LEMMA AskDecided ==
  ASSUME NEW r \in Request, NEW s \in Request, r.agent \in Agents,
         s.agent = r.agent, s.task = r.task, r.at \notin Granting, s.at \notin Granting
  PROVE  AskOf(s) = [AskOf(r) EXCEPT !.need = s.need]
<1>1. AskOf(r) \in Policy!Ask /\ AskOf(s) \in Policy!Ask
  BY AskType
<1>2. /\ AskOf(s).agent = AskOf(r).agent /\ AskOf(s).need = s.need
      /\ AskOf(s).task = AskOf(r).task
  BY DEF AskOf
<1>3. AskOf(s).granted = FALSE /\ AskOf(r).granted = FALSE
  <2>1. (r.at \in Granting) = FALSE /\ (s.at \in Granting) = FALSE
    OBVIOUS
  <2> QED BY <2>1, AskFields
<1> QED BY <1>1, <1>2, <1>3 DEF Policy!Ask

\* A request about a task stays one that is not for the owner.
LEMMA FollowsFree ==
  ASSUME NEW m, NEW n, Follows(m, n), m \notin {"own", "hardness", "keys"}
  PROVE  n \notin {"own", "hardness", "keys"}
BY DEF Follows, Policy!ToDecide, Policy!Undecided

LEMMA AsksNow ==
  ASSUME NEW h \in Handlers
  PROVE  Asks[h] = IF At(h, "idle") THEN Policy!NoAsk ELSE AskOf(req[h])
BY DEF Asks, At, AskOf, Policy!NoAsk

LEMMA AsksThen ==
  ASSUME NEW h \in Handlers
  PROVE  Asks'[h] = IF req'[h].at = "idle" THEN Policy!NoAsk ELSE AskOf(req'[h])
BY DEF Asks, AskOf, Policy!NoAsk

LEMMA ObservedStep ==
  ASSUME Watch
  PROVE  Policy!Observed
<1>1. ASSUME NEW h \in Handlers
      PROVE  seen'[h] = Policy!Sees(h)
  <2>1. CASE req'[h].at = "idle"
    <3>1. Asks'[h] = Policy!NoAsk
      BY <2>1, AsksThen
    <3> QED BY <2>1, <3>1 DEF Watch, Policy!Sees
  <2>2. CASE req'[h].at # "idle"
    <3>1. Asks'[h] # Policy!NoAsk /\ Asks'[h] = AskOf(req'[h])
      BY <2>2, AsksThen, AskIsAsk
    <3>2. /\ Asks'[h].granted = (req'[h].at \in Granting)
          /\ Asks'[h].need = req'[h].need /\ Asks'[h].agent = req'[h].agent
      BY <3>1, AskFields
    <3> QED BY <2>2, <3>1, <3>2 DEF Watch, Running, Policy!Sees
  <2> QED BY <2>1, <2>2
<1> QED BY <1>1 DEF Policy!Observed, Watch

LEMMA OthersStep ==
  ASSUME NEW h \in Handlers, \A g \in Handlers \ {h} : req'[g] = req[g]
  PROVE  Policy!Others(h)
BY AsksNow, AsksThen DEF Policy!Others, At
-----------------------------------------------------------------------------
(* The invariant *)

\* op.Teams holds every permission that has been there all the time, once it
\* has been read and unless the rows broke off, and no other than those seen.
TeamsInv(h) ==
  LET r == req[h] IN
  /\ r.task => r.need \notin {"own", "hardness", "keys"}
  /\ r.task /\ r.at \in Asking => kept[h] \subseteq Held
  /\ r.task /\ r.at \in (Asking \cup Granting) \ {"teams"} => r.cut \/ kept[h] \subseteq r.teams
  /\ r.task /\ r.at = "teams" => r.cut \/ r.teams = {} \/ kept[h] \subseteq r.teams
  /\ r.task /\ r.at \in Granting => r.teams \subseteq seen[h].perms
  /\ r.task /\ r.at = "told" /\ ~r.aside => r.told = {p.team : p \in r.teams}

\* A request that is still asking has seen the facts as they are now.
SeesNow(h) == Below(Policy!About(req[h].need, Policy!Facts[req[h].agent]), seen[h])

HandlerInv(h) ==
  /\ ~At(h, "idle") => req[h].agent \in Agents
  /\ req[h].at \in Asking => Knows(req[h], seen[h]) /\ SeesNow(h)
  /\ TeamsInv(h)

Types == TypeOK /\ seen \in [Handlers -> FactSet]
IInv  == Types /\ \A h \in Handlers : HandlerInv(h)

LEMMA PlacesSplit == /\ Places = {"idle"} \cup Asking \cup Granting
                     /\ Granting = {"act", "told"}
                     /\ "idle" \notin Asking \cup Granting /\ Asking \cap Granting = {}
BY DEF Places, Asking, Granting

\* What a step adds to what a request has seen.
LEMMA WatchSeen ==
  ASSUME Types, TypeOK', Watch, NEW h \in Handlers,
         req'[h].at \in Asking => req'[h].agent \in Agents
  PROVE  /\ seen'[h] \in FactSet
         /\ req'[h].at \in Asking => Below(seen[h], seen'[h]) /\ SeesNow(h)'
         /\ req'[h].at \in Granting => seen'[h].perms = seen[h].perms
<1>1. seen[h] \in FactSet /\ req'[h].at \in Places
  BY DEF Types, TypeOK, Request
<1>2. CASE req'[h].at = "idle"
  BY <1>1, <1>2, PlacesSplit DEF Watch, FactSet, Policy!NoFacts
<1>3. CASE req'[h].at \in Granting
  <2>1. seen'[h] = [Policy!NoFacts EXCEPT !.perms = seen[h].perms]
    BY <1>3, PlacesSplit DEF Watch, Running
  <2> QED BY <1>1, <1>3, <2>1, PlacesSplit DEF FactSet, Policy!NoFacts
<1>4. CASE req'[h].at \in Asking
  <2> DEFINE g == Policy!About(req'[h].need, Policy!Facts'[req'[h].agent])
  <2>1. seen'[h] = Policy!Join(seen[h], g)
    BY <1>4, PlacesSplit DEF Watch, Running
  <2>2. Policy!Facts'[req'[h].agent] \in FactSet
    BY <1>4 DEF TypeOK, FactSet, Policy!Facts, Policy!Held
  <2>3. g \in FactSet
    BY <2>2, AboutFacts
  <2>4. SeesNow(h)' <=> Below(g, seen'[h])
    BY DEF SeesNow
  <2> HIDE DEF g
  <2> QED BY <1>1, <1>4, <2>1, <2>3, <2>4, JoinFacts, PlacesSplit
<1> QED BY <1>1, <1>2, <1>3, <1>4, PlacesSplit

\* What has been there all the time was there before, and is there now.
LEMMA WatchKept ==
  ASSUME Types, Watch, NEW h \in Handlers
  PROVE  /\ kept'[h] \subseteq Grantable
         /\ req'[h].at \in Asking => kept'[h] \subseteq Held'
         /\ ~At(h, "idle") /\ req'[h].at # "idle" => kept'[h] \subseteq kept[h]
<1>1. Held' \subseteq Grantable
  BY DEF Held, Policy!Held
<1>2. kept'[h] = IF req'[h].at = "idle" \/ req'[h].need = "own" THEN {}
                 ELSE IF Running(h) THEN Held' \cap (IF req[h].at = "idle" THEN Held' ELSE kept[h])
                      ELSE kept[h]
  BY DEF Watch
<1>3. kept[h] \subseteq Grantable
  BY DEF Types, TypeOK
<1>4. req'[h].at \in Asking => Running(h)
  BY PlacesSplit DEF Running
<1> QED BY <1>1, <1>2, <1>3, <1>4 DEF At

LEMMA StepTypes ==
  ASSUME Types, Watch, req' \in [Handlers -> Request], moves' \in Nat,
         owner' \in Agents, members' \in [Teams -> SUBSET Agents], perms' \in [Grantable -> Nat],
         zone' \in Policy!AnyZone, rows' \in [Agents -> Nat]
  PROVE  TypeOK'
<1>1. kept' \in [Handlers -> SUBSET Grantable]
  <2>1. kept' = [h \in Handlers |-> kept'[h]]
    BY DEF Watch
  <2> QED BY <2>1, WatchKept
<1> QED BY <1>1 DEF TypeOK

\* A handler that does not move keeps what it knows.
LEMMA Untouched ==
  ASSUME IInv, TypeOK', Watch, NEW g \in Handlers, req'[g] = req[g]
  PROVE  seen'[g] \in FactSet /\ HandlerInv(g)'
<1>1. Types /\ HandlerInv(g) /\ seen[g] \in FactSet /\ req[g].at \in Places
  BY DEF IInv, Types, TypeOK, Request
<1>2. /\ seen'[g] \in FactSet
      /\ req'[g].at \in Asking => Below(seen[g], seen'[g]) /\ SeesNow(g)'
      /\ req'[g].at \in Granting => seen'[g].perms = seen[g].perms
  BY <1>1, WatchSeen, PlacesSplit DEF HandlerInv, At
<1>3. /\ req'[g].at \in Asking => kept'[g] \subseteq Held'
      /\ req'[g].at # "idle" => kept'[g] \subseteq kept[g]
  BY <1>1, WatchKept DEF At
<1>4. req'[g].at \in Asking => Knows(req'[g], seen'[g])
  BY <1>1, <1>2, BelowKnows DEF HandlerInv
<1>5. TeamsInv(g)'
  BY <1>1, <1>2, <1>3, PlacesSplit DEF HandlerInv, TeamsInv
<1>6. (~At(g, "idle"))' => req'[g].agent \in Agents
  BY <1>1 DEF HandlerInv, At
<1> QED BY <1>2, <1>4, <1>5, <1>6 DEF HandlerInv

LEMMA OneHandler ==
  ASSUME IInv, TypeOK', Watch, NEW h \in Handlers,
         \A g \in Handlers \ {h} : req'[g] = req[g],
         seen'[h] \in FactSet, HandlerInv(h)'
  PROVE  IInv'
<1>1. \A g \in Handlers : seen'[g] \in FactSet /\ HandlerInv(g)'
  BY Untouched
<1>2. seen' = [g \in Handlers |-> seen'[g]]
  BY DEF Watch
<1> QED BY <1>1, <1>2 DEF IInv, Types

LEMMA NoHandler ==
  ASSUME IInv, TypeOK', Watch, UNCHANGED req
  PROVE  IInv'
<1>1. \A g \in Handlers : seen'[g] \in FactSet /\ HandlerInv(g)'
  BY Untouched
<1>2. seen' = [g \in Handlers |-> seen'[g]]
  BY DEF Watch
<1> QED BY <1>1, <1>2 DEF IInv, Types
-----------------------------------------------------------------------------
(* The three kinds of steps a handler takes: a request arrives, it goes on   *)
(* asking or is granted, and it acts.  Each preserves the invariant and is a *)
(* step of the policy.                                                       *)

Reading == UNCHANGED <<owner, members, perms, zone, rows, moves>>

LEMMA ReadingTypes ==
  ASSUME Types, Watch, Reading, NEW h \in Handlers, NEW s \in Request,
         req' = [req EXCEPT ![h] = s]
  PROVE  TypeOK' /\ req'[h] = s /\ \A g \in Handlers \ {h} : req'[g] = req[g]
<1>1. /\ req' \in [Handlers -> Request] /\ req'[h] = s
      /\ \A g \in Handlers \ {h} : req'[g] = req[g]
  BY DEF Types, TypeOK
<1> QED BY <1>1, StepTypes DEF Reading, Types, TypeOK

\* A request that arrives, and is not about to be looked into or knows nothing yet.
LEMMA ArriveStep ==
  ASSUME IInv, Watch, Reading, NEW h \in Handlers, NEW s \in Request,
         At(h, "idle"), req' = [req EXCEPT ![h] = s], s.agent \in Agents,
         s.teams = {}, s.task => s.at = "teams" /\ s.need \notin {"own", "hardness", "keys"},
         Knows(s, seen[h]) \/ (s.at = "act" /\ s.need = "keys")
  PROVE  IInv' /\ (Strict \/ Policy!Next)
<1>1. TypeOK' /\ req'[h] = s /\ \A g \in Handlers \ {h} : req'[g] = req[g]
  BY ReadingTypes DEF IInv
<1>2. /\ seen[h] \in FactSet /\ seen'[h] \in FactSet
      /\ s.at \in Asking => Below(seen[h], seen'[h]) /\ SeesNow(h)'
  BY <1>1, WatchSeen DEF IInv, Types
<1>3. s.at \in Asking => kept'[h] \subseteq Held'
  BY <1>1, WatchKept DEF IInv
<1>4. Knows(s, seen[h]) => s.at \in Asking
  BY DEF Knows, Path
<1>5. s.at \in Asking => Knows(s, seen'[h])
  BY <1>2, <1>4, BelowKnows, PlacesSplit
<1>6. TeamsInv(h)'
  BY <1>1, <1>3, PlacesSplit DEF TeamsInv
<1>7. HandlerInv(h)'
  BY <1>1, <1>2, <1>5, <1>6 DEF HandlerInv
<1>8. Policy!Arrive(h)
  <2>1. Asks[h] = Policy!NoAsk /\ Asks'[h] = AskOf(s)
    BY <1>1, <1>4, AsksNow, AsksThen, PlacesSplit
  <2>2. AskOf(s) \in Policy!Ask
    BY AskType
  <2>3. AskOf(s).granted => AskOf(s).need = "keys"
    BY <1>4, AskFields, PlacesSplit
  <2> QED BY <2>1, <2>2, <2>3 DEF Policy!Arrive, Reading
<1> QED BY <1>1, <1>2, <1>7, <1>8, OneHandler, ObservedStep, OthersStep DEF Policy!Next

\* A request goes on asking, or is granted, or gives up.
LEMMA AskStep ==
  ASSUME IInv, Watch, Reading, NEW h \in Handlers, NEW r \in Request, NEW s,
         req[h].at \in Asking, req' = [req EXCEPT ![h] = s],
         r.agent = req[h].agent, r.need = req[h].need, r.task = req[h].task,
         r.task => r.cut \/ kept[h] \subseteq r.teams,
         r.task => r.teams \subseteq seen[h].perms,
         Becomes(r, s, seen[h])
  PROVE  IInv' /\ (Strict \/ Policy!Next)
<1>1. s \in Request
  BY DEF Becomes
<1>2. TypeOK' /\ req'[h] = s /\ \A g \in Handlers \ {h} : req'[g] = req[g]
  BY <1>1, ReadingTypes DEF IInv
<1>3. /\ req[h].agent \in Agents /\ HandlerInv(h) /\ Types /\ seen[h] \in FactSet
      /\ ~At(h, "idle")
  BY PlacesSplit DEF IInv, HandlerInv, Types, At
<1>4. \/ s = Idle
      \/ /\ s.agent = req[h].agent /\ s.task = req[h].task
         /\ s.teams = r.teams /\ s.cut = r.cut
         /\ \/ Knows(s, seen[h]) /\ Follows(req[h].need, s.need)
            \/ s.at = "act" /\ s.need = req[h].need /\ Grantworthy(r, seen[h])
  BY DEF Becomes
<1>5. Knows(s, seen[h]) => s.at \in Asking
  BY DEF Knows, Path
<1>6. /\ seen'[h] \in FactSet
      /\ s.at \in Asking => Below(seen[h], seen'[h]) /\ SeesNow(h)'
      /\ s.at \in Granting => seen'[h].perms = seen[h].perms
  BY <1>2, <1>3, <1>4, WatchSeen, IdleType, PlacesSplit
<1>7. /\ s.at \in Asking => kept'[h] \subseteq Held'
      /\ s.at # "idle" => kept'[h] \subseteq kept[h]
  BY <1>2, <1>3, WatchKept
<1>8. s.at \in Asking => Knows(s, seen'[h])
  BY <1>3, <1>4, <1>5, <1>6, BelowKnows, IdleType, PlacesSplit
<1>9. TeamsInv(h)'
  <2>1. CASE s = Idle
    BY <1>2, <2>1, IdleType, PlacesSplit DEF TeamsInv
  <2>2. CASE s # Idle
    <3>1. s.task => s.need \notin {"own", "hardness", "keys"}
      BY <1>3, <1>4, <2>2, FollowsFree DEF TeamsInv, HandlerInv
    <3>2. s.at \in Asking \/ s.at = "act"
      BY <1>4, <1>5, <2>2
    <3>3. s.task = r.task /\ s.teams = r.teams /\ s.cut = r.cut
      BY <1>4, <2>2
    <3> QED BY <1>2, <1>6, <1>7, <3>1, <3>2, <3>3, PlacesSplit DEF TeamsInv
  <2> QED BY <2>1, <2>2
<1>10. HandlerInv(h)'
  BY <1>2, <1>3, <1>4, <1>6, <1>8, <1>9, IdleType, PlacesSplit DEF HandlerInv, At
<1>11. Strict \/ Policy!Act(h) \/ Policy!Grant(h) \/ Policy!Decide(h)
  <2>1. Asks[h] = AskOf(req[h]) /\ Asks[h] # Policy!NoAsk
    BY <1>3, AsksNow, AskIsAsk
  <2>2. CASE s = Idle
    <3>1. Asks'[h] = Policy!NoAsk
      BY <1>2, <2>2, AsksThen, IdleType
    <3> QED BY <3>1 DEF Policy!Act, Reading
  <2>3. CASE s # Idle /\ s.at \in Asking
    <3>1. Asks'[h] = AskOf(s)
      BY <1>2, <2>3, AsksThen, PlacesSplit
    <3>2. /\ req[h] \in Request /\ req[h].at \notin Granting /\ s.at \notin Granting
          /\ s.at # "act" /\ s.agent = req[h].agent /\ s.task = req[h].task
      BY <1>3, <1>4, <2>3, PlacesSplit DEF Types, TypeOK
    <3>3. CASE s.need = req[h].need
      BY <2>1, <3>1, <3>2, <3>3, AskSame DEF Policy!Act, Reading
    <3>4. CASE s.need # req[h].need
      <4>1. req[h].need \in Policy!Undecided /\ s.need \in Policy!ToDecide[req[h].need]
        BY <1>4, <2>3, <3>2, <3>4 DEF Follows
      <4>2. AskOf(s) = [AskOf(req[h]) EXCEPT !.need = s.need]
        BY <1>1, <1>3, <3>2, AskDecided
      <4>3. AskOf(req[h]).need = req[h].need
        BY AskFields
      <4> QED BY <2>1, <3>1, <4>1, <4>2, <4>3 DEF Policy!Decide, Reading
    <3> QED BY <3>3, <3>4
  <2>4. CASE s # Idle /\ s.at = "act" /\ s.need = req[h].need /\ Grantworthy(r, seen[h]) /\ ~Strict
    <3>1. Asks'[h] = AskOf(s)
      BY <1>2, <2>4, AsksThen
    <3>2. req[h] \in Request /\ s.at \in Granting
      BY <1>3, <2>4, PlacesSplit DEF Types, TypeOK
    <3>3. AskOf(s) = [AskOf(req[h]) EXCEPT !.granted = TRUE]
      <4>1. s.agent = req[h].agent /\ s.task = req[h].task
        BY <1>4, <2>4
      <4> QED BY <1>1, <1>3, <2>4, <3>2, <4>1, AskGranted
    <3>4. Policy!Entitled(Asks[h].need, seen[h])
      <4>1. Asks[h].need = r.need
        BY <2>1, AskFields
      <4>2. Policy!Entitled(r.need, seen[h])
        BY <2>4 DEF Grantworthy
      <4> QED BY <4>1, <4>2
    <3>5. Asks[h].task => Policy!Finds(seen[h]) /\ Policy!Enters(seen[h])
      <4>1. AskOf(req[h]).task = req[h].task
        BY DEF AskOf
      <4> QED BY <2>1, <2>4, <4>1 DEF Grantworthy
    <3> QED BY <2>1, <3>1, <3>3, <3>4, <3>5 DEF Policy!Grant, Reading
  <2> QED BY <1>4, <1>5, <2>2, <2>3, <2>4
<1> QED BY <1>2, <1>6, <1>10, <1>11, OneHandler, ObservedStep, OthersStep DEF Policy!Next

\* A request that is granted changes what it was granted, and is done or has
\* teams to tell.
LEMMA ActStep ==
  ASSUME IInv, TypeOK', Watch, NEW h \in Handlers, NEW s \in Request,
         req[h].at \in Granting, req' = [req EXCEPT ![h] = s],
         \/ s = Idle
         \/ /\ s.at = "told" /\ s.agent = req[h].agent /\ s.need = req[h].need
            /\ s.task = req[h].task /\ s.teams = req[h].teams /\ s.cut = req[h].cut
            /\ s.task /\ ~s.aside => s.told = {p.team : p \in s.teams},
         UNCHANGED members,
         owner' # owner \/ perms' # perms => req[h].need = "own",
         zone' # zone => req[h].need = "write",
         \A a \in Agents : rows'[a] # rows[a] =>
           \/ req[h].need = "write"
           \/ req[h].need \in {"read", "enter", "mine"} /\ a = req[h].agent
  PROVE  IInv' /\ (Strict \/ Policy!Next)
<1>1. req'[h] = s /\ \A g \in Handlers \ {h} : req'[g] = req[g]
  BY DEF IInv, Types, TypeOK
<1>2. Types /\ HandlerInv(h) /\ ~At(h, "idle") /\ req[h] \in Request
  BY PlacesSplit DEF IInv, HandlerInv, Types, TypeOK, At
<1>3. /\ seen'[h] \in FactSet
      /\ s.at \in Granting => seen'[h].perms = seen[h].perms
  BY <1>1, <1>2, WatchSeen, IdleType, PlacesSplit
<1>4. s.at # "idle" => kept'[h] \subseteq kept[h]
  BY <1>1, <1>2, WatchKept
<1>5. HandlerInv(h)'
  <2>1. CASE s = Idle
    BY <1>1, <2>1, IdleType, PlacesSplit DEF HandlerInv, TeamsInv, At
  <2>2. CASE s # Idle
    BY <1>1, <1>2, <1>3, <1>4, <2>2, PlacesSplit DEF HandlerInv, TeamsInv, At
  <2> QED BY <2>1, <2>2
<1>6. Policy!Act(h)
  <2>1. Asks[h] = AskOf(req[h]) /\ Asks[h] # Policy!NoAsk
    BY <1>2, AsksNow, AskIsAsk
  <2>2. Asks'[h] \in {Asks[h], Policy!NoAsk}
    <3>1. CASE s = Idle
      BY <1>1, <3>1, AsksThen, IdleType
    <3>2. CASE s # Idle
      <4>1. /\ s.at \in Granting /\ s.agent = req[h].agent /\ s.need = req[h].need
            /\ s.task = req[h].task /\ Asks'[h] = AskOf(s)
        BY <1>1, <3>2, AsksThen, PlacesSplit
      <4>2. AskOf(s).granted = TRUE /\ AskOf(req[h]).granted = TRUE
        BY <4>1, AskFields
      <4>3. AskOf(s) \in Policy!Ask /\ AskOf(req[h]) \in Policy!Ask
        BY <1>2, <4>1, AskType DEF HandlerInv
      <4>4. AskOf(s) = AskOf(req[h])
        BY <4>1, <4>2, <4>3 DEF AskOf, Policy!Ask
      <4> QED BY <2>1, <4>1, <4>4
    <3> QED BY <3>1, <3>2
  <2>3. ASSUME NEW needs PROVE Policy!Granted(h, needs) <=> req[h].need \in needs
    <3>1. AskOf(req[h]).granted = TRUE /\ AskOf(req[h]).need = req[h].need
      BY AskFields
    <3> QED BY <2>1, <3>1 DEF Policy!Granted
  <2>4. Asks[h].agent = req[h].agent
    BY <2>1, AskFields
  <2> QED BY <2>2, <2>3, <2>4 DEF Policy!Act
<1> QED BY <1>1, <1>3, <1>5, <1>6, OneHandler, ObservedStep, OthersStep DEF Policy!Next
-----------------------------------------------------------------------------
(* Requests arrive. *)

LEMMA NewTask ==
  ASSUME NEW need \in {"ofTask", "ofLink"}, NEW a \in Agents, NEW twice \in BOOLEAN
  PROVE  LET s == [TaskNew(need, twice) EXCEPT !.agent = a]
         IN  /\ s \in Request /\ s.agent = a /\ s.need = need /\ s.at = "teams"
             /\ s.task /\ ~s.gate /\ ~s.read /\ ~s.found
             /\ s.check = "read" /\ s.teams = {} /\ s.zones = {}
<1> DEFINE p == [New(need) EXCEPT !.task = TRUE, !.again = twice]
           q == Populate(p)
<1>1. /\ p \in Request /\ p.need = need /\ p.task /\ ~p.found /\ p.teams = {}
  BY DEF New, Idle, Request, Places, Policy!Needs, Policy!Undecided
<1>2. TaskNew(need, twice) = q
  BY DEF TaskNew
<1> HIDE DEF p
<1>3. q \in Request
  BY <1>1, PopulateType
<1>4. /\ q.need = need /\ q.at = "teams" /\ q.task /\ ~q.gate /\ ~q.read /\ ~q.found
      /\ q.check = "read" /\ q.teams = {} /\ q.zones = {}
  BY <1>1 DEF Populate, Request
<1> HIDE DEF q
<1> QED BY <1>2, <1>3, <1>4 DEF Request

LEMMA NewGate ==
  ASSUME NEW need \in {"enter", "write", "hardness"}, NEW a \in Agents
  PROVE  LET s == [Gate(New(need)) EXCEPT !.agent = a]
         IN  /\ s \in Request /\ s.agent = a /\ s.need = need /\ s.at = "owner"
             /\ ~s.task /\ s.gate /\ ~s.read /\ ~s.found
             /\ s.check = (IF need = "enter" THEN "read" ELSE "write")
             /\ s.teams = {} /\ s.zones = {}
<1> DEFINE p == New(need)
<1>1. /\ p \in Request /\ p.need = need /\ ~p.task /\ ~p.found /\ p.teams = {}
  BY DEF New, Idle, Request, Places, Policy!Needs
<1> HIDE DEF p
<1>2. Gate(p) \in Request
  BY <1>1, GateType
<1>3. /\ Gate(p).need = need /\ Gate(p).at = "owner"
      /\ ~Gate(p).task /\ Gate(p).gate /\ ~Gate(p).read /\ ~Gate(p).found
      /\ Gate(p).check = (IF need = "enter" THEN "read" ELSE "write")
      /\ Gate(p).teams = {} /\ Gate(p).zones = {}
  BY <1>1 DEF Gate, Start, Request
<1> QED BY <1>2, <1>3 DEF Request, p

LEMMA ArriveInv ==
  ASSUME IInv, Watch, NEW h \in Handlers, Arrive(h)
  PROVE  IInv' /\ (Strict \/ Policy!Next)
<1>1. seen[h] \in FactSet
  BY DEF IInv, Types
<1>2. ASSUME NEW need \in {"ofTask", "ofLink"}, NEW twice \in BOOLEAN,
             Requested(h, TaskNew(need, twice))
      PROVE  IInv' /\ (Strict \/ Policy!Next)
  <2>1. PICK a \in Agents : /\ Set(h, [TaskNew(need, twice) EXCEPT !.agent = a])
                            /\ At(h, "idle") /\ Reads
    BY <1>2 DEF Requested
  <2> DEFINE s == [TaskNew(need, twice) EXCEPT !.agent = a]
  <2>2. /\ s \in Request /\ s.agent = a /\ s.need = need /\ s.at = "teams"
        /\ s.task /\ ~s.gate /\ ~s.read /\ ~s.found
        /\ s.check = "read" /\ s.teams = {} /\ s.zones = {}
    BY NewTask
  <2>3. req' = [req EXCEPT ![h] = s] /\ Reading
    BY <2>1 DEF Set, Put, Reads, Reading, facts
  <2> HIDE DEF s
  <2>4. Knows(s, seen[h])
    BY <2>2 DEF Knows, Path, Evidence, Asking, Checks, Policy!Undecided
  <2> QED BY <2>1, <2>2, <2>3, <2>4, ArriveStep
<1>3. ASSUME NEW need \in {"enter", "write", "hardness"}, Requested(h, Gate(New(need)))
      PROVE  IInv' /\ (Strict \/ Policy!Next)
  <2>1. PICK a \in Agents : /\ Set(h, [Gate(New(need)) EXCEPT !.agent = a])
                            /\ At(h, "idle") /\ Reads
    BY <1>3 DEF Requested
  <2> DEFINE s == [Gate(New(need)) EXCEPT !.agent = a]
  <2>2. /\ s \in Request /\ s.agent = a /\ s.need = need /\ s.at = "owner"
        /\ ~s.task /\ s.gate /\ ~s.read /\ ~s.found
        /\ s.check = (IF need = "enter" THEN "read" ELSE "write")
        /\ s.teams = {} /\ s.zones = {}
    BY NewGate
  <2>3. req' = [req EXCEPT ![h] = s] /\ Reading
    BY <2>1 DEF Set, Put, Reads, Reading, facts
  <2> HIDE DEF s
  <2>4. Knows(s, seen[h])
    BY <2>2 DEF Knows, Path, Evidence, Asking, Checks, Policy!Undecided
  <2> QED BY <2>1, <2>2, <2>3, <2>4, ArriveStep
<1>4. CASE DrawOwnRoute(h)
  <2>1. PICK a \in Agents : /\ Set(h, [[New("own") EXCEPT !.at = "own"] EXCEPT !.agent = a])
                            /\ At(h, "idle") /\ Reads
    BY <1>4 DEF DrawOwnRoute, Requested
  <2> DEFINE s == [[New("own") EXCEPT !.at = "own"] EXCEPT !.agent = a]
  <2>2. /\ s \in Request /\ s.at = "own" /\ s.agent = a /\ s.need = "own" /\ s.teams = {}
        /\ s.task = FALSE /\ s.zones = {} /\ s.read = FALSE /\ s.found = FALSE /\ s.gate = FALSE
    BY DEF New, Idle, Request, Places, Policy!Needs
  <2>3. req' = [req EXCEPT ![h] = s] /\ Reading
    BY <2>1 DEF Set, Put, Reads, Reading, facts
  <2> HIDE DEF s
  <2>4. Knows(s, seen[h])
    BY <2>2 DEF Knows, Path, Evidence, Asking, Checks, Policy!Undecided
  <2> QED BY <2>1, <2>2, <2>3, <2>4, ArriveStep
<1>5. CASE DrawPortalKeys(h)
  <2>1. PICK a \in Agents : /\ Set(h, [Granted(New("keys")) EXCEPT !.agent = a])
                            /\ At(h, "idle") /\ Reads
    BY <1>5 DEF DrawPortalKeys, Requested
  <2> DEFINE s == [Granted(New("keys")) EXCEPT !.agent = a]
  <2>2. /\ s \in Request /\ s.at = "act" /\ s.agent = a /\ s.need = "keys" /\ s.teams = {}
        /\ s.task = FALSE
    BY DEF Granted, New, Idle, Request, Places, Granting, Policy!Needs
  <2>3. req' = [req EXCEPT ![h] = s] /\ Reading
    BY <2>1 DEF Set, Put, Reads, Reading, facts
  <2> HIDE DEF s
  <2> QED BY <2>1, <2>2, <2>3, ArriveStep
<1> QED BY <1>2, <1>3, <1>4, <1>5
        DEF Arrive, TaskRequires, MarkerRequires, LinkRequires, DrawGetRoute, DrawWriteRoute,
            DrawPortalHardness
-----------------------------------------------------------------------------
(* The checks ask the database. *)

LEMMA RolesOf == /\ Roles["read"] = {"read", "write"} /\ Roles["write"] = {"write"}
                 /\ Roles["assignedonly"] = {"assignedonly"}
BY DEF Roles

LEMMA ZonesOf == AssignOnly \notin Policy!AnyZone /\ ZoneAll \in Policy!AnyZone
                 /\ ZoneAll = Policy!ZoneAll
BY ZonesType DEF AssignOnly, Policy!AnyZone, Policy!ZoneAll, ZoneAll

LEMMA GrantableFields ==
  ASSUME NEW p \in Grantable
  PROVE  p.team \in Teams /\ p.zone \in Policy!AnyZone
BY GrantableType

\* What is known of a request that is asking.
LEMMA Asked ==
  ASSUME IInv, NEW h \in Handlers, req[h].at \in Asking
  PROVE  /\ req[h] \in Request /\ seen[h] \in FactSet
         /\ Knows(req[h], seen[h]) /\ TeamsInv(h) /\ req[h].agent \in Agents
         /\ req[h].need \notin {"own", "hardness", "keys"} =>
              /\ owner = req[h].agent => seen[h].owner
              /\ {t \in Teams : req[h].agent \in members[t]} \subseteq seen[h].teams
              /\ Held \subseteq seen[h].perms
              /\ zone \in seen[h].zones
              /\ rows[req[h].agent] = 1 => seen[h].mine
         /\ req[h].need = "own" => (owner = req[h].agent => seen[h].owner)
<1>1. /\ req[h] \in Request /\ seen[h] \in FactSet
      /\ Knows(req[h], seen[h]) /\ TeamsInv(h) /\ req[h].agent \in Agents /\ SeesNow(h) /\ TypeOK
  BY DEF IInv, Types, TypeOK, HandlerInv, Knows, Path
<1> DEFINE f == Policy!Facts[req[h].agent]
<1>2. /\ f \in FactSet
      /\ f.owner = (owner = req[h].agent) /\ f.teams = {t \in Teams : req[h].agent \in members[t]}
      /\ f.perms = Held /\ f.zones = {zone} /\ f.mine = (rows[req[h].agent] = 1)
  <2>1. /\ f \in FactSet
        /\ f = [owner |-> owner = req[h].agent, teams |-> {t \in Teams : req[h].agent \in members[t]},
                perms |-> Held, zones |-> {zone}, mine |-> rows[req[h].agent] = 1]
    BY <1>1, FactsFacts
  <2> HIDE DEF f
  <2> QED BY <2>1
<1>3. Below(Policy!About(req[h].need, f), seen[h])
  BY <1>1 DEF SeesNow
<1> HIDE DEF f
<1>4. req[h].need \notin {"own", "hardness", "keys"} => Policy!About(req[h].need, f) = f
  BY DEF Policy!About
<1>5. req[h].need = "own" => Policy!About(req[h].need, f).owner = f.owner
  BY DEF Policy!About, Policy!NoFacts
<1> QED BY <1>1, <1>2, <1>3, <1>4, <1>5 DEF Below

\* op.Teams, read or not.
LEMMA OpTeamsSeen ==
  ASSUME IInv, NEW h \in Handlers, req[h].at \in Asking, NEW ts \in OpTeams(h),
         NEW r, r = Filled(h, ts)
  PROVE  /\ r \in Request /\ r.agent = req[h].agent /\ r.need = req[h].need
         /\ r.task = req[h].task /\ r.teams = ts /\ r.gate = req[h].gate /\ r.at = req[h].at
         /\ r.read = req[h].read /\ r.found = req[h].found /\ r.zones = req[h].zones
         /\ r.check = req[h].check
         /\ ts \subseteq Grantable
         /\ r.need \notin {"own", "hardness", "keys"} => ts \subseteq seen[h].perms
         /\ r.task => r.cut \/ kept[h] \subseteq ts
<1>1. /\ req[h].teams \subseteq Grantable /\ Held \subseteq Grantable /\ req[h] \in Request
      /\ req[h].need # "hardness" => req[h].teams \subseteq seen[h].perms
      /\ req[h].need \notin {"own", "hardness", "keys"} => Held \subseteq seen[h].perms
  BY Asked DEF Request, Held, Policy!Held, Knows, Evidence
<1>2. /\ req[h].task => kept[h] \subseteq Held
      /\ req[h].task => req[h].cut \/ req[h].teams = {} \/ kept[h] \subseteq req[h].teams
  BY Asked DEF TeamsInv
<1>3. ts \subseteq Held \/ ts = req[h].teams
  BY DEF OpTeams
<1>4. ts \subseteq Grantable
  BY <1>1, <1>3
<1> DEFINE c == IF req[h].teams = {} THEN ts # Held ELSE req[h].cut
<1>5. c \in BOOLEAN
  BY <1>1 DEF Request
<1>6. r = [req[h] EXCEPT !.teams = ts, !.cut = c]
  BY DEF Filled
<1>7. req[h].task => c \/ kept[h] \subseteq ts
  BY <1>2, <1>3 DEF OpTeams
<1> HIDE DEF c
<1>10. r \in Request
  BY <1>1, <1>4, <1>5, <1>6 DEF Request
<1>11. r.teams = ts /\ r.cut = c
  BY <1>1, <1>6 DEF Request
<1>8. /\ r \in Request /\ r.agent = req[h].agent /\ r.need = req[h].need
      /\ r.task = req[h].task /\ r.teams = ts /\ r.gate = req[h].gate /\ r.at = req[h].at
      /\ r.read = req[h].read /\ r.found = req[h].found /\ r.zones = req[h].zones
      /\ r.check = req[h].check /\ r.cut = c
  BY <1>1, <1>6, <1>10, <1>11 DEF Request
<1>9. r.need \notin {"own", "hardness", "keys"} => ts \subseteq seen[h].perms
  BY <1>1, <1>3, <1>8
<1> QED BY <1>4, <1>7, <1>8, <1>9

LEMMA CheckInv ==
  ASSUME IInv, Watch, NEW h \in Handlers, Check(h)
  PROVE  IInv' /\ (Strict \/ Policy!Next)
<1> DEFINE q == req[h]
           f == seen[h]
<1>1. q.at \in {"teams", "owner", "load", "ask"}
  BY DEF Check, PopulateTeams, IsOwner, LoadTeams, AgentInTeam, At
<1>2. q.at \in Asking
  BY <1>1 DEF Asking
<1>3. q \in Request /\ f \in FactSet /\ Knows(q, f) /\ q.need \notin {"own", "keys"}
  BY <1>1, <1>2, Asked DEF Knows, Path
<1>4. /\ q.need # "hardness" => (owner = q.agent => f.owner)
      /\ q.need # "hardness" => {t \in Teams : q.agent \in members[t]} \subseteq f.teams
      /\ q.task => q.need # "hardness"
      /\ q.task /\ q.at # "teams" => q.cut \/ kept[h] \subseteq q.teams
      /\ q.task => q.teams \subseteq f.perms
  <2>1. q.task => q.need # "hardness"
    BY <1>3 DEF Knows, Path
  <2>2. q.task /\ q.at # "teams" => q.cut \/ kept[h] \subseteq q.teams
    BY <1>2, Asked DEF TeamsInv
  <2>3. q.need # "hardness" => q.teams \subseteq f.perms
    BY <1>3 DEF Knows, Evidence
  <2> QED BY <1>2, <1>3, <2>1, <2>2, <2>3, Asked
<1>5. ASSUME NEW ts \in OpTeams(h), q.at = "teams", Reading,
             req' = [req EXCEPT ![h] = Start(Filled(h, ts), "read")]
      PROVE  IInv' /\ (Strict \/ Policy!Next)
  <2> DEFINE r == Filled(h, ts)
             s == Start(r, "read")
  <2>1. /\ r \in Request /\ r.agent = q.agent /\ r.need = q.need /\ r.task = q.task
        /\ r.teams = ts /\ r.gate = q.gate
        /\ r.read = q.read /\ r.found = q.found /\ r.zones = q.zones
        /\ r.need \notin {"own", "hardness", "keys"} => ts \subseteq f.perms
        /\ r.task => r.cut \/ kept[h] \subseteq ts
    BY <1>2, OpTeamsSeen
  <2>2. req' = [req EXCEPT ![h] = s]
    BY <1>5
  <2> HIDE DEF r
  <2>3. /\ s \in Request /\ s.agent = q.agent /\ s.need = q.need /\ s.task = q.task
        /\ s.teams = ts /\ s.at = "owner" /\ s.check = "read" /\ s.gate = q.gate
        /\ s.read = q.read /\ s.found = q.found /\ s.zones = q.zones /\ s.cut = r.cut
    <3>1. s = Start(r, "read")
      OBVIOUS
    <3> HIDE DEF s
    <3> QED BY <2>1, <3>1, StartFields
  <2> HIDE DEF q, f, s
  <2>4. q.need # "hardness"
    BY <1>3, <1>5 DEF Knows, Path, Checks
  <2>5. Knows(s, f)
    BY <1>3, <1>5, <2>1, <2>3, <2>4 DEF Knows, Path, Evidence, Asking, Checks
  <2>6. Becomes(r, s, f)
    BY <2>1, <2>3, <2>5 DEF Becomes, Follows
  <2> QED BY <1>2, <1>3, <1>4, <1>5, <2>1, <2>2, <2>4, <2>6, AskStep DEF q, f
<1>6. CASE PopulateTeams(h)
  <2>1. \/ \E ts \in OpTeams(h) : req' = [req EXCEPT ![h] = Start(Filled(h, ts), "read")]
        \/ req' = [req EXCEPT ![h] = Idle]
    BY <1>6 DEF PopulateTeams, End, Set, Put
  <2>2. Reading /\ q.at = "teams"
    BY <1>6 DEF PopulateTeams, At, End, Set, Reads, Reading, facts
  <2>3. CASE req' = [req EXCEPT ![h] = Idle]
    <3>1. req' = [req EXCEPT ![h] = Idle] /\ Becomes(q, Idle, f)
      BY <2>3, IdleType DEF Becomes
    <3> DEFINE r == [q EXCEPT !.cut = TRUE]
    <3>2. /\ r \in Request /\ r.agent = q.agent /\ r.need = q.need /\ r.task = q.task
          /\ r.cut /\ r.teams = q.teams
      BY <1>3 DEF Request
    <3> HIDE DEF r
    <3>3. Becomes(r, Idle, f)
      BY IdleType DEF Becomes
    <3> QED BY <1>2, <1>4, <2>2, <3>1, <3>2, <3>3, AskStep DEF q, f
  <2> QED BY <1>5, <2>1, <2>2, <2>3
<1>7. CASE IsOwner(h)
  <2>0. /\ Reading /\ q.at = "owner"
        /\ \/ owner = q.agent /\ req' = [req EXCEPT ![h] = Decides([q EXCEPT !.zones = {ZoneAll}], TRUE)]
           \/ req' = [req EXCEPT ![h] = [q EXCEPT !.at = "load"]]
    BY <1>7 DEF IsOwner, At, Goto, Set, Put, Reads, Reading, facts
  <2>a. CASE owner = q.agent /\ req' = [req EXCEPT ![h] = Decides([q EXCEPT !.zones = {ZoneAll}], TRUE)]
    <3> DEFINE r == [q EXCEPT !.zones = {ZoneAll}]
               s == Decides(r, TRUE)
    <3>1. req' = [req EXCEPT ![h] = s]
      BY <2>a
    <3>2. /\ r \in Request /\ r.agent = q.agent /\ r.need = q.need /\ r.task = q.task
          /\ r.teams = q.teams /\ r.cut = q.cut /\ r.at = q.at /\ r.check = q.check /\ r.gate = q.gate
          /\ r.read = q.read /\ r.found = q.found /\ r.zones = {ZoneAll} /\ r.todo = q.todo
      BY <1>3, ZonesOf DEF Request
    <3> HIDE DEF q, f, r, s
    <3>3. Knows(r, f)
      <4>1. AssignOnly \notin {ZoneAll}
        BY ZonesOf
      <4>2. q.need # "hardness" => f.owner
        BY <1>4, <2>a
      <4> QED BY <1>3, <2>0, <3>2, <4>1, <4>2 DEF Knows, Path, Evidence, Asking, Checks, Opened
    <3>4. Justified(r, TRUE, f)
      BY <1>4, <2>a, <3>2 DEF Justified, Policy!Reads, Policy!Writes, Policy!Enters
    <3>5. Becomes(r, s, f)
      BY <1>3, <2>0, <3>2, <3>3, <3>4, DecidesBecomes DEF Checks, s
    <3> QED BY <1>2, <1>4, <2>0, <3>1, <3>2, <3>5, AskStep DEF q, f
  <2>b. CASE req' = [req EXCEPT ![h] = [q EXCEPT !.at = "load"]]
    <3> DEFINE s == [q EXCEPT !.at = "load"]
    <3>1. req' = [req EXCEPT ![h] = s]
      BY <2>b
    <3>2. /\ s \in Request /\ s.agent = q.agent /\ s.need = q.need /\ s.task = q.task
          /\ s.teams = q.teams /\ s.cut = q.cut /\ s.at = "load" /\ s.check = q.check /\ s.gate = q.gate
          /\ s.read = q.read /\ s.found = q.found /\ s.zones = q.zones
      BY <1>3 DEF Request, Places
    <3> HIDE DEF q, f, s
    <3>3. Knows(s, f)
      BY <1>3, <2>0, <3>2 DEF Knows, Path, Evidence, Asking, Checks
    <3>4. Becomes(q, s, f)
      BY <3>2, <3>3 DEF Becomes, Follows
    <3> QED BY <1>2, <1>3, <1>4, <2>0, <3>1, <3>4, AskStep DEF q, f
  <2> QED BY <2>0, <2>a, <2>b
<1>8. ASSUME NEW ts \in OpTeams(h), q.at = "load", Reading,
             req' = [req EXCEPT ![h] = Consider(Filled(h, ts))]
      PROVE  IInv' /\ (Strict \/ Policy!Next)
  <2> DEFINE g == Filled(h, ts)
             r == [g EXCEPT !.todo = Relevant(g), !.at = "ask"]
             s == IF r.todo = {} THEN Decides(r, FALSE) ELSE r
  <2>1. /\ g \in Request /\ g.agent = q.agent /\ g.need = q.need /\ g.task = q.task
        /\ g.teams = ts /\ g.gate = q.gate /\ g.check = q.check
        /\ g.read = q.read /\ g.found = q.found /\ g.zones = q.zones
        /\ g.need \notin {"own", "hardness", "keys"} => ts \subseteq f.perms
        /\ g.task => g.cut \/ kept[h] \subseteq ts
        /\ ts \subseteq Grantable
    BY <1>2, OpTeamsSeen
  <2>2. req' = [req EXCEPT ![h] = s]
    BY <1>8 DEF Consider
  <2>3. Relevant(g) = {p \in ts : p.role \in Roles[q.check]}
    BY <2>1 DEF Relevant
  <2> HIDE DEF g
  <2>4. /\ r \in Request /\ r.agent = q.agent /\ r.need = q.need /\ r.task = q.task
        /\ r.teams = ts /\ r.at = "ask" /\ r.check = q.check /\ r.gate = q.gate /\ r.cut = g.cut
        /\ r.read = q.read /\ r.found = q.found /\ r.zones = q.zones
        /\ r.todo = {p \in ts : p.role \in Roles[q.check]}
    BY <2>1, <2>3 DEF Request, Places
  <2> HIDE DEF q, f, r
  <2>5. Knows(r, f)
    BY <1>3, <1>8, <2>1, <2>4 DEF Knows, Path, Evidence, Asking, Checks
  <2>6. Justified(r, FALSE, f)
    BY DEF Justified
  <2>7. Becomes(r, Decides(r, FALSE), f)
    BY <1>3, <2>4, <2>5, <2>6, DecidesBecomes DEF Checks
  <2>8. Becomes(r, s, f)
    BY <2>4, <2>5, <2>7 DEF Becomes, Follows
  <2>9. /\ r.task => r.cut \/ kept[h] \subseteq r.teams
        /\ r.task => r.teams \subseteq f.perms
    BY <1>3, <1>4, <2>1, <2>4
  <2> QED BY <1>2, <1>8, <2>2, <2>4, <2>8, <2>9, AskStep DEF q, f
<1>10. CASE LoadTeams(h)
  <2> DEFINE r == [q EXCEPT !.todo = {}]
  <2>1. /\ Reading /\ q.at = "load"
        /\ \/ \E ts \in OpTeams(h) : req' = [req EXCEPT ![h] = Consider(Filled(h, ts))]
           \/ req' = [req EXCEPT ![h] = Decides(r, FALSE)]
    BY <1>10 DEF LoadTeams, At, Set, Put, Reads, Reading, facts
  <2>2. CASE req' = [req EXCEPT ![h] = Decides(r, FALSE)]
    <3>1. /\ r \in Request /\ r.agent = q.agent /\ r.need = q.need /\ r.task = q.task
          /\ r.teams = q.teams /\ r.cut = q.cut /\ r.at = q.at /\ r.check = q.check /\ r.gate = q.gate
          /\ r.read = q.read /\ r.found = q.found /\ r.zones = q.zones
      BY <1>3 DEF Request
    <3>2. req' = [req EXCEPT ![h] = Decides(r, FALSE)]
      BY <2>2
    <3> HIDE DEF q, f, r
    <3>3. Knows(r, f)
      BY <1>3, <2>1, <3>1 DEF Knows, Path, Evidence, Asking, Checks
    <3>4. Justified(r, FALSE, f)
      BY DEF Justified
    <3>5. Becomes(r, Decides(r, FALSE), f)
      BY <1>3, <2>1, <3>1, <3>3, <3>4, DecidesBecomes DEF Checks
    <3> QED BY <1>2, <1>4, <2>1, <3>1, <3>2, <3>5, AskStep DEF q, f
  <2> QED BY <1>8, <2>1, <2>2
<1>9. CASE AgentInTeam(h)
  <2>0. PICK p \in q.todo : \E in \in {FALSE, q.agent \in members[p.team]} :
          req' = [req EXCEPT ![h] = Answered(q, p, in)]
    BY <1>9 DEF AgentInTeam, Set, Put
  <2>1. PICK in \in BOOLEAN : /\ in => q.agent \in members[p.team]
                             /\ req' = [req EXCEPT ![h] = Answered(q, p, in)]
    <3>1. CASE req' = [req EXCEPT ![h] = Answered(q, p, FALSE)]
      BY <3>1
    <3>2. CASE req' = [req EXCEPT ![h] = Answered(q, p, q.agent \in members[p.team])]
      <4> DEFINE answer == q.agent \in members[p.team]
      <4>1. answer \in BOOLEAN /\ (answer => q.agent \in members[p.team])
        OBVIOUS
      <4>2. req' = [req EXCEPT ![h] = Answered(q, p, answer)]
        BY <3>2
      <4> HIDE DEF answer
      <4> QED BY <4>1, <4>2
    <3> QED BY <2>0, <3>1, <3>2
  <2> DEFINE r    == [q EXCEPT !.todo = @ \ {p},
                               !.zones = IF in /\ q.check = "read" THEN @ \cup {p.zone} ELSE @]
             yes  == IF q.check = "read" THEN r.zones # {} ELSE in
             s    == IF r.todo # {} /\ ~(in /\ p.zone = ZoneAll) THEN r ELSE Decides(r, yes)
  <2>2. req' = [req EXCEPT ![h] = s] /\ Reading /\ q.at = "ask"
    BY <1>9, <2>1 DEF AgentInTeam, Answered, At, Set, Reads, Reading, facts
  <2>3. /\ p \in q.teams /\ p.role \in Roles[q.check] /\ p \in Grantable
        /\ p.team \in Teams /\ p.zone \in Policy!AnyZone
    BY <1>3, <2>2, GrantableFields DEF Knows, Path, Request
  <2>4. /\ r \in Request /\ r.agent = q.agent /\ r.need = q.need /\ r.task = q.task
        /\ r.teams = q.teams /\ r.cut = q.cut /\ r.at = "ask" /\ r.check = q.check /\ r.gate = q.gate
        /\ r.read = q.read /\ r.found = q.found /\ r.todo = q.todo \ {p}
        /\ r.zones = IF in /\ q.check = "read" THEN q.zones \cup {p.zone} ELSE q.zones
    BY <1>3, <2>2, <2>3 DEF Request
  <2>5. yes \in BOOLEAN
    <3> HIDE DEF r
    <3>1. CASE q.check = "read"
      <4>1. yes = (r.zones # {})
        BY <3>1
      <4> HIDE DEF yes
      <4> QED BY <4>1
    <3>2. CASE q.check # "read"
      <4>1. yes = in
        BY <3>2
      <4> HIDE DEF yes
      <4> QED BY <4>1
    <3> QED BY <3>1, <3>2
  <2> HIDE DEF q, f, r
  <2>6. q.need # "hardness" /\ in => p \in f.perms /\ p.team \in f.teams
    BY <1>3, <1>4, <2>1, <2>3 DEF Knows, Evidence
  <2>7. q.need # "hardness" /\ in /\ q.check = "read" => Opened(p.zone, f)
    BY <2>3, <2>6, RolesOf DEF Opened, Policy!By
  <2>8. p.zone # AssignOnly
    BY <2>3, ZonesOf
  <2>9. Knows(r, f)
    <3>1. Path(r)
      BY <1>3, <2>2, <2>4, <2>8 DEF Knows, Path, Asking, Checks
    <3>2. q.need # "hardness" => \A z \in r.zones : Opened(z, f)
      BY <1>3, <2>4, <2>7 DEF Knows, Evidence
    <3> QED BY <1>3, <2>4, <3>1, <3>2 DEF Knows, Evidence
  <2>10. Justified(r, yes, f)
    <3>1. SUFFICES ASSUME q.need # "hardness", yes
                   PROVE  /\ q.check = "read" => Policy!Reads(f)
                          /\ q.check = "write" => Policy!Writes(f)
                          /\ q.check = "assignedonly" => Policy!Enters(f)
      BY <2>4 DEF Justified
    <3>2. CASE q.check = "read"
      <4>1. PICK z \in r.zones : TRUE
        BY <3>1, <3>2
      <4>2. Opened(z, f) /\ z # AssignOnly
        BY <2>4, <2>9, <3>1, <3>2 DEF Knows, Evidence, Path, Checks
      <4> QED BY <3>2, <4>2 DEF Opened, Policy!Reads
    <3>3. CASE q.check # "read"
      <4>1. p \in Policy!By(f, Roles[q.check])
        BY <2>3, <2>6, <3>1, <3>3 DEF Policy!By
      <4> QED BY <3>3, <4>1, RolesOf DEF Policy!Writes, Policy!Enters
    <3> QED BY <3>2, <3>3
  <2> HIDE DEF yes
  <2>11. Becomes(r, Decides(r, yes), f)
    BY <1>3, <2>4, <2>5, <2>9, <2>10, DecidesBecomes DEF Checks
  <2>12. Becomes(r, s, f)
    BY <2>4, <2>9, <2>11 DEF Becomes, Follows
  <2> QED BY <1>2, <1>4, <2>2, <2>4, <2>12, AskStep DEF q, f
<1> QED BY <1>6, <1>7, <1>9, <1>10 DEF Check
-----------------------------------------------------------------------------
(* The rows of the task, and the owner's routes. *)

LEMMA AgainBecomes ==
  ASSUME NEW r, NEW s, NEW f, Becomes(r, s, f), s.at = "teams"
  PROVE  Becomes(r, [s EXCEPT !.again = FALSE], f)
<1> DEFINE u == [s EXCEPT !.again = FALSE]
<1>1. s \in Request /\ s # Idle
  BY IdleType DEF Becomes
<1>2. /\ u \in Request /\ u.agent = s.agent /\ u.need = s.need /\ u.task = s.task
      /\ u.teams = s.teams /\ u.cut = s.cut /\ u.at = s.at /\ u.check = s.check /\ u.gate = s.gate
      /\ u.read = s.read /\ u.found = s.found /\ u.zones = s.zones /\ u.todo = s.todo
  BY <1>1 DEF Request
<1> HIDE DEF u
<1>3. Knows(s, f)
  BY <1>1 DEF Becomes
<1>4. Knows(u, f)
  BY <1>2, <1>3 DEF Knows, Path, Evidence
<1> QED BY <1>1, <1>2, <1>4 DEF Becomes, u

\* The need is decided when the task is found.
LEMMA DecidedKnows ==
  ASSUME NEW r \in Request, NEW f \in FactSet, r.agent \in Agents, r.need \in Policy!Undecided,
         r.task, r.found, r.teams \subseteq f.perms, Policy!Finds(f), Policy!Enters(f),
         NEW need \in Policy!ToDecide[r.need]
  PROVE  Becomes(r, Gate([r EXCEPT !.need = need]), f)
<1> DEFINE u == [r EXCEPT !.need = need]
<1>1. need \in {"write", "read", "enter", "link", "mine"}
  BY DEF Policy!ToDecide, Policy!Undecided
<1>2. /\ u \in Request /\ u.agent = r.agent /\ u.need = need /\ u.task = r.task
      /\ u.teams = r.teams /\ u.cut = r.cut /\ u.found = r.found
  BY <1>1 DEF Request, Policy!Needs
<1> HIDE DEF u
<1>3. Becomes(u, Gate(u), f)
  BY <1>1, <1>2, GateKnows DEF Policy!Undecided
<1>4. Gate(u).at \in {"mine", "owner"}
  BY <1>2, GateAsks
<1>5. Follows(r.need, need)
  BY DEF Follows
<1>6. need \notin Policy!Undecided
  BY <1>1 DEF Policy!Undecided
<1> QED BY <1>2, <1>3, <1>4, <1>5, <1>6 DEF Becomes, Follows, u

LEMMA PopulatedBecomes ==
  ASSUME NEW r \in Request, NEW f \in FactSet,
         r.agent \in Agents, r.task => r.need \in Policy!Undecided,
         ~r.task => r.need = "enter",
         r.teams \subseteq f.perms, r.found => Policy!Finds(f), Policy!Enters(f),
         NEW s \in Populated(r)
  PROVE  Becomes(r, s, f)
<1> USE NeedsCases
<1>1. CASE r.again
  <2>1. s = [Populate(r) EXCEPT !.again = FALSE]
    BY <1>1 DEF Populated
  <2>2. Becomes(r, Populate(r), f)
    BY PopulateKnows
  <2>3. Populate(r).at = "teams"
    BY DEF Populate, Request
  <2> QED BY <2>1, <2>2, <2>3, AgainBecomes
<1>2. CASE ~r.again /\ ~r.task
  <2>1. s = Granted(r)
    BY <1>2 DEF Populated
  <2>2. Grantworthy(r, f)
    BY <1>2 DEF Grantworthy, Policy!Entitled
  <2> QED BY <2>1, <2>2, GrantedBecomes
<1>3. CASE ~r.again /\ r.task /\ r.found
  <2>1. PICK need \in Policy!ToDecide[r.need] : s = Gate([r EXCEPT !.need = need])
    BY <1>3 DEF Populated
  <2> QED BY <1>3, <2>1, DecidedKnows
<1>4. CASE ~r.again /\ r.task /\ ~r.found
  BY <1>4, IdleType DEF Populated, Becomes
<1> QED BY <1>1, <1>2, <1>3, <1>4

\* A zone that is wanted is one in which the agent finds the task.
LEMMA WantedFinds ==
  ASSUME TypeOK, NEW f, NEW zones \in SUBSET (Policy!AnyZone \cup {AssignOnly}),
         \A z \in zones : Opened(z, f), zone \in f.zones,
         zones \cap {zone, ZoneAll} # {}
  PROVE  Policy!Finds(f)
<1>1. PICK z \in zones : z \in {zone, ZoneAll}
  OBVIOUS
<1>2. z # AssignOnly
  BY <1>1, ZonesOf DEF TypeOK
<1>3. f.owner \/ \E p \in Policy!By(f, {"read", "write"}) : p.zone = z
  BY <1>2 DEF Opened
<1>4. z \in {Policy!ZoneAll} \cup f.zones
  BY <1>1, ZonesOf
<1> QED BY <1>3, <1>4 DEF Policy!Finds

LEMMA RowsInv ==
  ASSUME IInv, Watch, NEW h \in Handlers, Rows(h)
  PROVE  IInv' /\ (Strict \/ Policy!Next)
<1> DEFINE q == req[h]
           f == seen[h]
<1>1. q.at \in Asking \ {"teams"}
  BY DEF Rows, PopulateRow, PopulateMine, Assignee, OwnerAsked, OwnerAskedAgain, OwnerInTeam,
         At, Asking
<1>2. q \in Request /\ f \in FactSet /\ Knows(q, f) /\ q.agent \in Agents
  BY <1>1, Asked
<1>3. /\ q.task => (q.cut \/ kept[h] \subseteq q.teams) /\ q.teams \subseteq f.perms
      /\ q.need \notin {"own", "hardness", "keys"} =>
           zone \in f.zones /\ (rows[q.agent] = 1 => f.mine)
      /\ q.need = "own" => (owner = q.agent => f.owner)
      /\ q.need \notin {"own", "hardness", "keys"} => q.teams \subseteq f.perms
  BY <1>1, <1>2, Asked DEF TeamsInv, Knows, Evidence, Path
<1>4. \A s : Becomes(q, s, f) /\ req' = [req EXCEPT ![h] = s] /\ Reading => IInv' /\ (Strict \/ Policy!Next)
  BY <1>1, <1>2, <1>3, AskStep
<1>5. Becomes(q, Idle, f)
  BY IdleType DEF Becomes
<1>6. ASSUME NEW r \in Request, q.at \in {"row", "mine"}, ~q.gate, Reading,
             r.agent = q.agent, r.need = q.need, r.task = q.task, r.teams = q.teams, r.cut = q.cut,
             r.found => Policy!Finds(f), SetPopulated(h, r)
      PROVE  IInv' /\ (Strict \/ Policy!Next)
  <2>1. PICK s \in Populated(r) : req' = [req EXCEPT ![h] = s]
    BY <1>6 DEF SetPopulated, Set, Put
  <2> HIDE DEF q, f
  <2>2. /\ q.need \notin {"own", "hardness", "keys"} /\ Policy!Enters(f)
        /\ q.task => q.need \in Policy!Undecided
        /\ ~q.task => q.need = "enter"
    BY <1>2, <1>6 DEF Knows, Path, Evidence, Checks, Policy!Undecided
  <2>3. Becomes(r, s, f)
    BY <1>2, <1>3, <1>6, <2>2, PopulatedBecomes
  <2> QED BY <1>1, <1>3, <1>6, <2>1, <2>3, AskStep DEF q, f
<1>7. CASE PopulateRow(h)
  <2>1. /\ Reading /\ q.at = "row"
        /\ \/ q.zones \cap {zone, ZoneAll} # {} /\ SetPopulated(h, [q EXCEPT !.found = TRUE])
           \/ req' = [req EXCEPT ![h] = [q EXCEPT !.at = "mine"]]
           \/ SetPopulated(h, q)
           \/ req' = [req EXCEPT ![h] = Idle]
    BY <1>7 DEF PopulateRow, At, Goto, End, SetPopulated, Set, Put, Reads, Reading, facts
  <2>2. /\ ~q.gate /\ q.need \notin {"own", "hardness", "keys"}
        /\ \A z \in q.zones : Opened(z, f)
        /\ q.found => Policy!Finds(f)
    BY <1>2, <2>1 DEF Knows, Path, Evidence, Checks
  <2>3. CASE q.zones \cap {zone, ZoneAll} # {} /\ SetPopulated(h, [q EXCEPT !.found = TRUE])
    <3> DEFINE r == [q EXCEPT !.found = TRUE]
    <3>1. /\ r \in Request /\ r.agent = q.agent /\ r.need = q.need /\ r.task = q.task
          /\ r.teams = q.teams /\ r.cut = q.cut
      BY <1>2 DEF Request
    <3>2. q.zones \in SUBSET (Policy!AnyZone \cup {AssignOnly}) /\ TypeOK
      BY <1>2 DEF Request, IInv, Types
    <3>3. SetPopulated(h, r)
      BY <2>3
    <3> HIDE DEF q, f, r
    <3>4. Policy!Finds(f)
      BY <1>3, <2>2, <2>3, <3>2, WantedFinds
    <3> QED BY <1>6, <2>1, <2>2, <3>1, <3>3, <3>4
  <2>4. CASE req' = [req EXCEPT ![h] = [q EXCEPT !.at = "mine"]]
    <3> DEFINE s == [q EXCEPT !.at = "mine"]
    <3>1. /\ s \in Request /\ s.agent = q.agent /\ s.need = q.need /\ s.task = q.task
          /\ s.teams = q.teams /\ s.cut = q.cut /\ s.at = "mine" /\ s.check = q.check /\ s.gate = q.gate
          /\ s.read = q.read /\ s.found = q.found /\ s.zones = q.zones
      BY <1>2 DEF Request, Places
    <3>2. req' = [req EXCEPT ![h] = s]
      BY <2>4
    <3> HIDE DEF q, f, s
    <3>3. Knows(s, f)
      BY <1>2, <2>1, <2>2, <3>1 DEF Knows, Path, Evidence, Asking, Checks
    <3>4. Becomes(q, s, f)
      BY <3>1, <3>3 DEF Becomes, Follows
    <3> QED BY <1>4, <2>1, <3>2, <3>4
  <2>5. CASE SetPopulated(h, q)
    BY <1>2, <1>6, <2>1, <2>2, <2>5
  <2> QED BY <1>4, <1>5, <2>1, <2>3, <2>4, <2>5
<1>8. CASE PopulateMine(h)
  <2>1. PICK mine \in BOOLEAN : /\ mine => rows[q.agent] = 1
                               /\ SetPopulated(h, [q EXCEPT !.found = @ \/ mine])
    BY <1>8 DEF PopulateMine, IsAssignedTo
  <2>2. Reading /\ q.at = "mine" /\ ~q.gate
    BY <1>8 DEF PopulateMine, At, SetPopulated, Set, Reads, Reading, facts
  <2> DEFINE r == [q EXCEPT !.found = @ \/ mine]
  <2>3. /\ r \in Request /\ r.agent = q.agent /\ r.need = q.need /\ r.task = q.task
        /\ r.teams = q.teams /\ r.cut = q.cut /\ r.found = (q.found \/ mine)
    BY <1>2 DEF Request
  <2>4. SetPopulated(h, r)
    BY <2>1
  <2> HIDE DEF q, f, r
  <2>5. q.need \notin {"own", "hardness", "keys"} /\ (q.found => Policy!Finds(f))
    BY <1>2, <2>2 DEF Knows, Path, Evidence, Checks
  <2>6. r.found => Policy!Finds(f)
    BY <1>3, <2>1, <2>3, <2>5 DEF Policy!Finds
  <2> QED BY <1>6, <2>2, <2>3, <2>4, <2>6
<1>9. CASE Assignee(h)
  <2>1. /\ Reading /\ q.at = "mine" /\ q.gate
        /\ \/ rows[q.agent] = 1 /\ req' = [req EXCEPT ![h] = Granted(q)]
           \/ req' = [req EXCEPT ![h] = Idle]
    BY <1>9 DEF Assignee, IsAssignedTo, At, Set, Put, Reads, Reading, facts
  <2>2. /\ q.need \in {"mine", "link"}
        /\ q.task => Policy!Finds(f) /\ Policy!Enters(f)
    BY <1>2, <2>1 DEF Knows, Path, Evidence
  <2>3. rows[q.agent] = 1 => Grantworthy(q, f)
    BY <1>3, <2>2 DEF Grantworthy, Policy!Entitled
  <2> QED BY <1>2, <1>4, <1>5, <2>1, <2>3, GrantedBecomes
<1>10. CASE OwnerAsked(h)
  <2> DEFINE s == [q EXCEPT !.at = "ownAgain"]
  <2>1. req' \in {[req EXCEPT ![h] = s], [req EXCEPT ![h] = Idle]} /\ Reading /\ q.at = "own"
    BY <1>10 DEF OwnerAsked, At, Goto, End, Set, Put, Reads, Reading, facts
  <2>2. /\ s \in Request /\ s.agent = q.agent /\ s.need = q.need /\ s.task = q.task
        /\ s.teams = q.teams /\ s.cut = q.cut /\ s.at = "ownAgain" /\ s.check = q.check /\ s.gate = q.gate
        /\ s.read = q.read /\ s.found = q.found /\ s.zones = q.zones
    BY <1>2 DEF Request, Places
  <2> HIDE DEF q, f, s
  <2>3. Knows(s, f)
    BY <1>2, <2>1, <2>2 DEF Knows, Path, Evidence, Asking, Checks
  <2>4. Becomes(q, s, f)
    BY <2>2, <2>3 DEF Becomes, Follows
  <2> QED BY <1>4, <1>5, <2>1, <2>4
<1>11. CASE OwnerAskedAgain(h)
  <2>1. Reading /\ q.at = "ownAgain" /\ q.need = "own" /\ ~q.task
    BY <1>2, <1>11 DEF OwnerAskedAgain, At, End, Set, Reads, Reading, facts, Knows, Path
  <2>2. CASE req' = [req EXCEPT ![h] = Idle]
    BY <1>4, <1>5, <2>1, <2>2
  <2>3. CASE owner = q.agent /\ req' = [req EXCEPT ![h] = Granted(q)]
    <3>1. Grantworthy(q, f)
      BY <1>3, <2>1, <2>3 DEF Grantworthy, Policy!Entitled
    <3> QED BY <1>2, <1>4, <2>1, <2>3, <3>1, GrantedBecomes
  <2>4. ASSUME NEW t \in Teams, owner = q.agent,
               req' = [req EXCEPT ![h] = [q EXCEPT !.at = "inteam", !.team = {t}]]
        PROVE  IInv' /\ (Strict \/ Policy!Next)
    <3> DEFINE s == [q EXCEPT !.at = "inteam", !.team = {t}]
    <3>1. /\ s \in Request /\ s.agent = q.agent /\ s.need = q.need /\ s.task = q.task
          /\ s.teams = q.teams /\ s.cut = q.cut /\ s.at = "inteam" /\ s.check = q.check /\ s.gate = q.gate
          /\ s.read = q.read /\ s.found = q.found /\ s.zones = q.zones
      BY <1>2 DEF Request, Places
    <3>2. req' = [req EXCEPT ![h] = s]
      BY <2>4
    <3> HIDE DEF q, f, s
    <3>3. Knows(s, f)
      BY <1>2, <1>3, <2>1, <2>4, <3>1 DEF Knows, Path, Evidence, Asking, Checks
    <3>4. Becomes(q, s, f)
      BY <3>1, <3>3 DEF Becomes, Follows
    <3> QED BY <1>4, <2>1, <3>2, <3>4
  <2> QED BY <1>11, <2>2, <2>3, <2>4 DEF OwnerAskedAgain, End, Set, Put
<1>12. CASE OwnerInTeam(h)
  <2>1. /\ req' \in {[req EXCEPT ![h] = Granted(q)], [req EXCEPT ![h] = Idle]}
        /\ Reading /\ q.at = "inteam"
    BY <1>12 DEF OwnerInTeam, At, End, Set, Put, Reads, Reading, facts
  <2>2. Grantworthy(q, f)
    BY <1>2, <2>1 DEF Knows, Path, Evidence, Checks, Grantworthy, Policy!Entitled
  <2> QED BY <1>2, <1>4, <1>5, <2>1, <2>2, GrantedBecomes
<1> QED BY <1>7, <1>8, <1>9, <1>10, <1>11, <1>12 DEF Rows
-----------------------------------------------------------------------------
(* Requests that are granted act. *)

LEMMA AssignedType ==
  ASSUME TypeOK
  PROVE  Assigned \subseteq [Agents -> Nat]
<1>1. ASSUME NEW list, NEW before
      PROVE  SetRows(list, before) \in [Agents -> Nat]
  BY DEF SetRows, TypeOK
<1> QED BY <1>1 DEF Assigned

\* The record of a request that has touched the operation, or has only news to give.
LEMMA ToldType ==
  ASSUME NEW q \in Request, NEW ts \in SUBSET Teams, NEW aside \in BOOLEAN
  PROVE  LET s == [q EXCEPT !.at = "told", !.told = ts, !.aside = aside]
         IN  /\ s \in Request /\ s.at = "told" /\ s.agent = q.agent /\ s.need = q.need
             /\ s.task = q.task /\ s.teams = q.teams /\ s.cut = q.cut /\ s.told = ts /\ s.aside = aside
BY DEF Request, Places, Granting

LEMMA TouchedType ==
  ASSUME NEW q \in Request
  PROVE  LET s == [q EXCEPT !.at = "told", !.told = {p.team : p \in q.teams}]
         IN  /\ s \in Request /\ s.at = "told" /\ s.agent = q.agent /\ s.need = q.need
             /\ s.task = q.task /\ s.teams = q.teams /\ s.cut = q.cut /\ s.told = {p.team : p \in q.teams}
<1>1. {p.team : p \in q.teams} \subseteq Teams
  BY GrantableFields DEF Request
<1> QED BY <1>1 DEF Request, Places, Granting

LEMMA EndInv ==
  ASSUME IInv, Watch, NEW h \in Handlers, req[h].at \in Granting, End(h), Reads
  PROVE  IInv' /\ (Strict \/ Policy!Next)
<1>1. req' = [req EXCEPT ![h] = Idle] /\ Reading
  BY DEF End, Set, Put, Reads, Reading, facts
<1>2. Idle \in Request /\ Types
  BY IdleType DEF IInv
<1>3. TypeOK'
  BY <1>1, <1>2, ReadingTypes
<1> QED BY <1>1, <1>2, <1>3, ActStep DEF Reading

\* A request has changed zone and rows, as it may, and touches the operation, or
\* fails to.
LEMMA TouchStep ==
  ASSUME IInv, Watch, NEW h \in Handlers, At(h, "act"), Touching(h), moves' \in Nat,
         zone' \in Policy!AnyZone, rows' \in [Agents -> Nat], UNCHANGED <<owner, members, perms>>,
         zone' # zone => req[h].need = "write",
         \A a \in Agents : rows'[a] # rows[a] =>
           \/ req[h].need = "write"
           \/ req[h].need \in {"read", "enter", "mine"} /\ a = req[h].agent
  PROVE  IInv' /\ (Strict \/ Policy!Next)
<1> DEFINE q == req[h]
           s == [q EXCEPT !.at = "told", !.told = {p.team : p \in q.teams}]
<1>1. q \in Request /\ q.at \in Granting /\ Types
  BY DEF IInv, Types, TypeOK, At, Granting
<1>2. req' = [req EXCEPT ![h] = s] \/ req' = [req EXCEPT ![h] = Idle]
  BY DEF Touching, Announcing, Put
<1>3. /\ s \in Request /\ s.at = "told" /\ s.agent = q.agent /\ s.need = q.need
      /\ s.task = q.task /\ s.teams = q.teams /\ s.cut = q.cut /\ s.told = {p.team : p \in q.teams}
  BY <1>1, TouchedType
<1> HIDE DEF s
<1>4. TypeOK'
  <2>1. req' \in [Handlers -> Request]
    BY <1>1, <1>2, <1>3, IdleType DEF Types, TypeOK
  <2> QED BY <1>1, <2>1, StepTypes DEF Types, TypeOK
<1>5. CASE req' = [req EXCEPT ![h] = s]
  BY <1>1, <1>3, <1>4, <1>5, ActStep
<1>6. CASE req' = [req EXCEPT ![h] = Idle]
  BY <1>1, <1>4, <1>6, IdleType, ActStep
<1> QED BY <1>2, <1>5, <1>6

LEMMA ContentInv ==
  ASSUME IInv, Watch, NEW h \in Handlers, At(h, "act"), Content(h)
  PROVE  IInv' /\ (Strict \/ Policy!Next)
BY TouchStep DEF Content, Reads, facts, IInv, Types, TypeOK

LEMMA SetZoneInv ==
  ASSUME IInv, Watch, NEW h \in Handlers, At(h, "act"), req[h].need = "write", SetZone, Touching(h)
  PROVE  IInv' /\ (Strict \/ Policy!Next)
BY TouchStep DEF SetZone, Move, IInv, Types, TypeOK

LEMMA ClaimInv ==
  ASSUME IInv, Watch, NEW h \in Handlers, At(h, "act"), req[h].need = "read", Claim(h)
  PROVE  IInv' /\ (Strict \/ Policy!Next)
<1>1. req[h].agent \in Agents /\ moves \in Nat /\ zone \in Policy!AnyZone /\ rows \in [Agents -> Nat]
  BY DEF IInv, Types, TypeOK, HandlerInv, At
<1>2. /\ Touching(h) /\ moves' = moves + 1 /\ UNCHANGED <<owner, members, perms, zone>>
      /\ rows' \in [Agents -> Nat]
      /\ \A a \in Agents : rows'[a] # rows[a] => a = req[h].agent
  BY <1>1 DEF Claim, Move
<1> QED BY <1>1, <1>2, TouchStep

LEMMA RejectInv ==
  ASSUME IInv, Watch, NEW h \in Handlers, At(h, "act"), req[h].need \in {"enter", "mine"},
         Reject(req[h].agent), Touching(h)
  PROVE  IInv' /\ (Strict \/ Policy!Next)
<1>1. req[h].agent \in Agents /\ moves \in Nat /\ zone \in Policy!AnyZone /\ rows \in [Agents -> Nat]
  BY DEF IInv, Types, TypeOK, HandlerInv, At
<1>2. /\ Touching(h) /\ moves' = moves + 1 /\ UNCHANGED <<owner, members, perms, zone>>
      /\ rows' \in [Agents -> Nat]
      /\ \A a \in Agents : rows'[a] # rows[a] => a = req[h].agent
  BY <1>1 DEF Reject, Move
<1> QED BY <1>1, <1>2, TouchStep

LEMMA SetAssignmentsInv ==
  ASSUME IInv, Watch, NEW h \in Handlers, At(h, "act"), req[h].need = "write", SetAssignments(h)
  PROVE  IInv' /\ (Strict \/ Policy!Next)
<1> DEFINE q == req[h]
           s == [q EXCEPT !.at = "told", !.aside = TRUE]
<1>1. q \in Request /\ q.at \in Granting /\ Types /\ moves \in Nat
  BY DEF IInv, Types, TypeOK, At, Granting
<1>2. /\ req' = [req EXCEPT ![h] = s] /\ moves' = moves + 1
      /\ rows' \in Assigned /\ UNCHANGED <<owner, members, perms, zone>>
  BY DEF SetAssignments, Put, Move
<1>3. /\ s \in Request /\ s.at = "told" /\ s.agent = q.agent /\ s.need = q.need
      /\ s.task = q.task /\ s.teams = q.teams /\ s.cut = q.cut /\ s.aside
  BY <1>1 DEF Request, Places, Granting
<1> HIDE DEF s
<1>4. TypeOK'
  <2>1. req' \in [Handlers -> Request]
    BY <1>1, <1>2, <1>3 DEF Types, TypeOK
  <2> QED BY <1>1, <1>2, <2>1, StepTypes, AssignedType DEF Types, TypeOK
<1> QED BY <1>1, <1>2, <1>3, <1>4, ActStep

LEMMA DrawUpdateInv ==
  ASSUME IInv, Watch, NEW h \in Handlers, DrawUpdate(h)
  PROVE  IInv' /\ (Strict \/ Policy!Next)
<1> DEFINE q == req[h]
<1>1. q \in Request /\ q.at \in Granting /\ Types /\ moves \in Nat /\ q.need = "write"
  BY DEF IInv, Types, TypeOK, At, Granting, DrawUpdate, Serving
<1>2. \/ \E ts \in SUBSET Teams :
           req' = [req EXCEPT ![h] = [q EXCEPT !.at = "told", !.told = ts, !.aside = TRUE]]
      \/ req' = [req EXCEPT ![h] = Idle]
  BY DEF DrawUpdate, Put
<1>3. /\ moves' = moves + 1 /\ zone' \in Policy!AnyZone /\ rows' \in Assigned
      /\ UNCHANGED <<owner, members, perms>>
  BY DEF DrawUpdate, Move
<1>0. TypeOK
  BY <1>1 DEF Types
<1>4. ASSUME NEW s \in Request, req' = [req EXCEPT ![h] = s],
             \/ s = Idle
             \/ /\ s.at = "told" /\ s.agent = q.agent /\ s.need = q.need
                /\ s.task = q.task /\ s.teams = q.teams /\ s.cut = q.cut /\ s.aside
      PROVE  IInv' /\ (Strict \/ Policy!Next)
  <2>1. req' \in [Handlers -> Request]
    BY <1>1, <1>4 DEF Types, TypeOK
  <2>2. TypeOK'
    BY <1>0, <1>1, <1>3, <2>1, StepTypes, AssignedType DEF Types, TypeOK
  <2> QED BY <1>1, <1>3, <1>4, <2>2, ActStep
<1>5. ASSUME NEW ts \in SUBSET Teams,
             req' = [req EXCEPT ![h] = [q EXCEPT !.at = "told", !.told = ts, !.aside = TRUE]]
      PROVE  IInv' /\ (Strict \/ Policy!Next)
  <2> DEFINE s == [q EXCEPT !.at = "told", !.told = ts, !.aside = TRUE]
  <2>1. /\ s \in Request /\ s.at = "told" /\ s.agent = q.agent /\ s.need = q.need
        /\ s.task = q.task /\ s.teams = q.teams /\ s.cut = q.cut /\ s.aside
    BY <1>1 DEF Request, Places, Granting
  <2>2. req' = [req EXCEPT ![h] = s]
    BY <1>5
  <2> HIDE DEF s
  <2> QED BY <1>4, <2>1, <2>2
<1> QED BY <1>2, <1>4, <1>5, IdleType

LEMMA OwnInv ==
  ASSUME IInv, Watch, NEW h \in Handlers, DrawPermsAdd(h) \/ DrawPermsDelete(h) \/ DrawChown(h)
  PROVE  IInv' /\ (Strict \/ Policy!Next)
<1>1. /\ req[h].at \in Granting /\ req[h].need = "own" /\ Types
      /\ req' = [req EXCEPT ![h] = Idle] /\ moves' = moves + 1 /\ moves \in Nat
      /\ UNCHANGED <<members, zone, rows>>
  BY DEF DrawPermsAdd, DrawPermsDelete, DrawChown, Serving, At, Granting, Put, Move,
         IInv, Types, TypeOK
<1>2. Idle \in Request /\ req' \in [Handlers -> Request]
  BY <1>1, IdleType DEF Types, TypeOK
<1>3. owner' \in Agents /\ perms' \in [Grantable -> Nat]
  <2>1. CASE DrawPermsAdd(h)
    BY <1>1, <2>1 DEF DrawPermsAdd, Types, TypeOK
  <2>2. CASE DrawPermsDelete(h)
    BY <1>1, <2>2 DEF DrawPermsDelete, Types, TypeOK
  <2>3. CASE DrawChown(h)
    BY <1>1, <2>3 DEF DrawChown, Types, TypeOK
  <2> QED BY <2>1, <2>2, <2>3
<1>4. TypeOK'
  BY <1>1, <1>2, <1>3, StepTypes DEF Types, TypeOK
<1> QED BY <1>1, <1>2, <1>4, ActStep

\* Every route calls one of these.
LEMMA ActInv ==
  ASSUME IInv, Watch, NEW h \in Handlers,
         DrawTask(h) \/ DrawMarker(h) \/ DrawLink(h) \/ Draw(h) \/ StatementFails(h) \/ Told(h)
  PROVE  IInv' /\ (Strict \/ Policy!Next)
<1>1. \/ At(h, "act") /\ Content(h)
      \/ At(h, "act") /\ req[h].need = "write" /\ SetAssignments(h)
      \/ At(h, "act") /\ req[h].need = "write" /\ SetZone /\ Touching(h)
      \/ At(h, "act") /\ req[h].need = "read" /\ Claim(h)
      \/ At(h, "act") /\ req[h].need \in {"enter", "mine"} /\ Reject(req[h].agent) /\ Touching(h)
      \/ (At(h, "act") \/ At(h, "told")) /\ End(h) /\ Reads
      \/ DrawUpdate(h) \/ DrawPermsAdd(h) \/ DrawPermsDelete(h) \/ DrawChown(h)
  <2>1. CASE DrawTask(h)
    BY <2>1 DEF DrawTask, DrawTaskAssign, DrawTaskClaim, DrawTaskComment, DrawTaskZone,
         DrawTaskDelta, DrawTaskFetch, DrawTaskComplete, DrawTaskIncomplete, DrawTaskReject,
         DrawTaskAcknowledge, DrawTaskDependAdd, DrawTaskDependDel, DrawTaskOrder,
         Serving, Reply, Fails, Touching
  <2>2. CASE DrawMarker(h)
    BY <2>2 DEF DrawMarker, DrawMarkerAssign, DrawMarkerClaim, DrawMarkerComment,
         DrawMarkerZone, DrawMarkerDelta, DrawMarkerFetch, DrawMarkerComplete,
         DrawMarkerIncomplete, DrawMarkerReject, DrawMarkerAcknowledge, Serving, Reply, Fails, Touching
  <2>3. CASE DrawLink(h)
    BY <2>3 DEF DrawLink, DrawLinkAssign, DrawLinkDesc, DrawLinkColor, DrawLinkSwap,
         DrawLinkZone, DrawLinkDelta, DrawLinkComp, DrawLinkClaim, DrawLinkReject,
         DrawLinkFetch, Serving, Reply, Fails, Touching
  <2>4. CASE Draw(h)
    BY <2>4 DEF Draw, DrawGet, DrawPortalComment, DrawOrder, DrawInfo, SetPortal,
         Serving, Reply, Fails
  <2>5. CASE StatementFails(h) \/ Told(h)
    BY <2>5 DEF StatementFails, Told
  <2> QED BY <2>1, <2>2, <2>3, <2>4, <2>5
<1>2. At(h, "act") \/ At(h, "told") => req[h].at \in Granting
  BY DEF At, Granting
<1> QED BY <1>1, <1>2, ContentInv, SetAssignmentsInv, SetZoneInv, ClaimInv, RejectInv, EndInv,
          DrawUpdateInv, OwnInv

\* Teams change; a request goes on as it is.
LEMMA TeamingInv ==
  ASSUME IInv, Watch, Teaming
  PROVE  IInv' /\ (Strict \/ Policy!Next)
<1>1. /\ UNCHANGED <<owner, zone, rows, req>> /\ moves' = moves + 1 /\ Types
  BY DEF Teaming, JoinTeam, LeaveTeam, DeleteTeam, Move, IInv
<1>2. /\ members' \in [Teams -> SUBSET Agents] /\ perms' \in [Grantable -> Nat]
      /\ \A p \in Grantable : perms'[p] = perms[p] \/ (perms'[p] = 0 /\ members'[p.team] = {})
  <2>1. members \in [Teams -> SUBSET Agents] /\ perms \in [Grantable -> Nat]
    BY <1>1 DEF Types, TypeOK
  <2>2. ASSUME NEW t \in Teams, NEW a \in Agents, JoinTeam(a, t) \/ LeaveTeam(a, t)
        PROVE  members' \in [Teams -> SUBSET Agents] /\ perms' = perms
    BY <2>1, <2>2 DEF JoinTeam, LeaveTeam
  <2>3. ASSUME NEW t \in Teams, DeleteTeam(t)
        PROVE  /\ members' \in [Teams -> SUBSET Agents] /\ perms' \in [Grantable -> Nat]
               /\ \A p \in Grantable :
                    perms'[p] = perms[p] \/ (perms'[p] = 0 /\ members'[p.team] = {})
    BY <2>1, <2>3 DEF DeleteTeam
  <2> QED BY <2>1, <2>2, <2>3 DEF Teaming
<1>3. TypeOK'
  BY <1>1, <1>2, StepTypes DEF Types, TypeOK
<1>4. Policy!TeamsChange
  <2>1. Asks' = Asks
    BY <1>1 DEF Asks
  <2> QED BY <1>1, <1>2, <2>1 DEF Policy!TeamsChange
<1> QED BY <1>1, <1>3, <1>4, NoHandler, ObservedStep DEF Policy!Next
-----------------------------------------------------------------------------
(* The theorems. *)

LEMMA InitInv ==
  ASSUME Init
  PROVE  IInv /\ Policy!Init
<1>1. TypeOK
  BY IdleType DEF Init, TypeOK
<1>2. \A h \in Handlers : req[h] = Idle /\ seen[h] = Policy!NoFacts
  BY DEF Init
<1>3. Policy!NoFacts \in FactSet
  BY DEF Policy!NoFacts, FactSet
<1>4. Types
  BY <1>1, <1>3 DEF Types, Init
<1>5. \A h \in Handlers : HandlerInv(h)
  BY <1>2, IdleType, PlacesSplit DEF HandlerInv, TeamsInv, At
<1>6. Policy!Init
  <2>1. \A h \in Handlers : Asks[h] = Policy!NoAsk
    BY <1>2, AsksNow, IdleType DEF At
  <2> QED BY <2>1 DEF Policy!Init, Asks, Init
<1> QED BY <1>4, <1>5, <1>6 DEF IInv

LEMMA NextInv ==
  ASSUME IInv, [Next]_vars
  PROVE  IInv' /\ (Strict \/ [Policy!Next]_Policy!vars)
<1>1. CASE UNCHANGED vars
  <2>1. IInv'
    <3>1. UNCHANGED <<owner, members, perms, zone, rows, seen, req, kept, moves>>
      BY <1>1 DEF vars, facts
    <3>2. Types'
      BY <3>1 DEF IInv, Types, TypeOK
    <3>3. Policy!Facts' = Policy!Facts /\ Held' = Held
      BY <3>1 DEF Policy!Facts, Held, Policy!Held
    <3>4. ASSUME NEW h \in Handlers
          PROVE  HandlerInv(h)'
      <4>1. HandlerInv(h)
        BY DEF IInv
      <4>2. TeamsInv(h)'
        BY <3>1, <3>3, <4>1 DEF HandlerInv, TeamsInv
      <4>3. req[h].at \in Asking => SeesNow(h)'
        BY <3>1, <3>3, <4>1 DEF HandlerInv, SeesNow
      <4> QED BY <3>1, <4>1, <4>2, <4>3 DEF HandlerInv, At
    <3> QED BY <3>2, <3>4 DEF IInv
  <2>2. Asks' = Asks
    BY <1>1 DEF Asks, vars
  <2> QED BY <1>1, <2>1, <2>2 DEF vars, facts, Policy!vars
<1>2. CASE Next
  BY <1>2, TeamingInv, ArriveInv, CheckInv, RowsInv, ActInv DEF Next, Handler
<1> QED BY <1>1, <1>2

\* What the requests know, they know at every moment of every behaviour.
THEOREM Invariant == Spec => []IInv
<1>1. Init => IInv
  BY InitInv
<1>2. IInv /\ [Next]_vars => IInv'
  BY NextInv
<1> QED BY <1>1, <1>2, PTL DEF Spec

\* Every variable has its type, the locals of a request above all: no check
\* leaves a request at a place, or with op.Teams, that no route can be in.
THEOREM TypeCorrect == Spec => []TypeOK
<1>1. IInv => TypeOK
  BY DEF IInv, Types
<1> QED BY <1>1, Invariant, PTL

\* A task route that tells the teams tells each team that had a permission all
\* along, unless the rows of the permissions broke off, and no team that had none, though op.Teams is read once, at the first check that needs
\* it, and the permissions change after that.
THEOREM TeamsToldRight == Spec => []RelevantTeamsTold
<1>1. IInv => RelevantTeamsTold
  <2> SUFFICES ASSUME IInv, NEW h \in Handlers, At(h, "told"), req[h].task, ~req[h].aside
               PROVE  /\ ~req[h].cut => {p.team : p \in kept[h]} \subseteq req[h].told
                      /\ req[h].told \subseteq {p.team : p \in seen[h].perms}
    BY DEF RelevantTeamsTold
  <2>1. /\ req[h].cut \/ kept[h] \subseteq req[h].teams
        /\ req[h].teams \subseteq seen[h].perms
        /\ req[h].told = {p.team : p \in req[h].teams}
    BY PlacesSplit DEF IInv, HandlerInv, TeamsInv, At
  <2> QED BY <2>1
<1> QED BY <1>1, Invariant, PTL

\* Access implements AccessPolicy where that is not Strict: whatever a route
\* changes, it changes by an authority that its request was granted, on facts each
\* of which held while the request was running (ReadAccess, WriteAccess,
\* AssignedOnlyAccess, IsOwner, IsAssignedTo and the order in which the routes ask
\* them, whichever of their statements fail); but what the hardness route changes,
\* it changes for anybody without write access.
THEOREM Implements ==
  ASSUME ~Strict
  PROVE  Spec => ImplementsPolicy
<1>1. Init => Policy!Init
  BY InitInv
<1>2. IInv /\ [Next]_vars => [Policy!Next]_Policy!vars
  BY NextInv
<1> QED BY <1>1, <1>2, Invariant, PTL DEF Spec, ImplementsPolicy, Policy!Spec
=============================================================================
