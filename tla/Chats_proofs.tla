---------------------------- MODULE Chats_proofs ----------------------------
(***************************************************************************)
(* Theorems about Chats, for any accounts, agents, teams, chats, handlers  *)
(* and bounds: the type invariant, AgreeAtRest and LinksFollowOwners.      *)
(*                                                                         *)
(* The types need Core, which says what the tables allow and what an actor *)
(* knows at each place (Shape) from what an update brings (UpShape). That  *)
(* a chat is linked on an owner's word is OwnInv: when the bot is about to *)
(* link or unlink, the sender has owned the team since his message was     *)
(* taken.                                                                  *)
(*                                                                         *)
(* AgreeAtRest speaks of moments when nothing is under way; RestInv is     *)
(* what holds in between. An account that is in a team's chat without an   *)
(* excuse is Explained: its agent is on the team, or the update of his     *)
(* coming waits, or an actor Settles it, by putting him on the team or out *)
(* of the chat. A failure or a crash excuses whom it leaves Unsettled.     *)
(* WatchCalm reads off the history what a step that leaves him without an  *)
(* excuse cannot have changed (Calm); then there is one lemma for each     *)
(* group of actions, on how each explanation becomes the next.             *)
(***************************************************************************)
EXTENDS Chats, SequenceTheorems, TLAPS

Elems(s) == {s[i] : i \in DOMAIN s}

(* The inductive invariant *)

\* What an update brings.
UpShape(u) ==
  /\ u.job # "dm" => u.chat \in Chats
  /\ u.job = "dm" => u.by \in Persons
  /\ u.job = "link" => u.team \in Teams
  /\ u.job \in {"add", "remove"} => u.who \in Persons

\* What a place knows: what it was reached with, and for.
Shape(r) ==
  /\ r.at = "message" => UpShape(r) /\ r.job # "dm"
  /\ r.at = "sender"  => UpShape(r) /\ r.job \in {"link", "unlink", "task"}
  /\ r.at = "team"    => UpShape(r) /\ r.job \in {"add", "remove", "out", "unlink", "task"}
                          /\ (r.job = "unlink" => r.gid \in Agents)
  /\ r.at = "subject" => UpShape(r) /\ r.job \in {"add", "remove"} /\ r.team \in Teams
  /\ r.at = "owns"    => UpShape(r) /\ r.job \in {"link", "unlink"} /\ r.gid \in Agents /\ r.team \in Teams
  /\ r.at = "link"    => r.job = "link" /\ r.chat \in Chats /\ r.team \in Teams
  /\ r.at = "unlink"  => r.job \in {"unlink", "out"} /\ r.team \in Teams
  /\ r.at \in {"dm", "new", "init", "verify"} => r.by \in Persons
  /\ r.at \in {"insert", "known", "list"}   => r.job = "add"
  /\ r.at \in {"delete", "unlist", "ban"}   => r.job = "remove"
  /\ r.at \in {"chat", "account", "ask"}    => r.job \in {"add", "remove"}
  /\ r.at \in {"insert", "delete", "chat"}  => r.team \in Teams
  /\ r.at \in {"insert", "delete", "chat", "account", "ask", "known", "list", "unlist", "ban", "drop"}
       => r.gid \in Agents
  /\ r.at \in {"account", "ask", "known", "list", "unlist", "ban"} => r.chat \in Chats
  /\ r.at \in {"known", "list", "unlist", "ban"} => r.who \in Persons
  /\ r.at = "ask" /\ r.job = "remove" => r.who \in Persons

RowInv == /\ row \in [Persons -> [gid : Agents, verified : BOOLEAN] \cup {None}]
          /\ \A x, y \in Persons : row[x] # None /\ row[y] # None /\ row[x].gid = row[y].gid => x = y
TeamInv == owner \in [Teams -> Agents \cup {None}] /\ members \in [Teams -> SUBSET Agents]
LinkInv == /\ linked \in [Chats -> Teams \cup {None}]
           /\ \A c \in Chats : linked[c] # None => owner[linked[c]] # None
           /\ \A c, d \in Chats : linked[c] = linked[d] /\ linked[c] # None => c = d
           /\ withOp \subseteq {c \in Chats : linked[c] # None}
           /\ listed \subseteq Persons \X {c \in Chats : linked[c] # None}
ThereInv == inchat \subseteq Persons \X (Chats \ gone) /\ gone \subseteq Chats
UpInv == /\ upChan \in Seq(Updates)
         /\ \A u \in Waiting : UpShape(u)
ActInv == /\ act \in [Actors -> Locals \cup {Idle}]
          /\ \A a \in Actors : Shape(act[a])

Core == RowInv /\ TeamInv /\ LinkInv /\ ThereInv /\ UpInv /\ ActInv
-----------------------------------------------------------------------------
(* Sequences and locals *)

LEMMA ElemsAppend ==
  ASSUME NEW S, NEW s \in Seq(S), NEW e \in S
  PROVE  Elems(Append(s, e)) = Elems(s) \cup {e}
<1>1. /\ Len(s) \in Nat /\ DOMAIN s = 1 .. Len(s)
      /\ DOMAIN Append(s, e) = 1 .. Len(s) + 1
      /\ \A i \in 1 .. Len(s) : Append(s, e)[i] = s[i]
      /\ Append(s, e)[Len(s) + 1] = e
  BY AppendProperties, LenProperties
<1>2. \A i : i \in 1 .. Len(s) + 1 <=> i \in 1 .. Len(s) \/ i = Len(s) + 1
  BY <1>1
<1> QED BY <1>1, <1>2 DEF Elems

LEMMA ElemsTail ==
  ASSUME NEW S, NEW s \in Seq(S), s # <<>>
  PROVE  Elems(s) = Elems(Tail(s)) \cup {Head(s)} /\ Head(s) \in S /\ Tail(s) \in Seq(S)
<1>1. /\ Len(s) \in Nat \ {0} /\ DOMAIN s = 1 .. Len(s) /\ Head(s) = s[1]
      /\ Tail(s) \in Seq(S) /\ Head(s) \in S
      /\ Len(Tail(s)) = Len(s) - 1
      /\ \A i \in 1 .. Len(s) - 1 : Tail(s)[i] = s[i + 1]
  BY HeadTailProperties, LenProperties, EmptySeq
<1>2. DOMAIN Tail(s) = 1 .. Len(s) - 1
  BY <1>1, LenProperties
<1>3. \A i \in 1 .. Len(s) - 1 : i + 1 \in 1 .. Len(s)
  BY <1>1
<1>4. \A i \in 1 .. Len(s) : i = 1 \/ (i - 1 \in 1 .. Len(s) - 1 /\ (i - 1) + 1 = i)
  BY <1>1
<1>5. 1 \in 1 .. Len(s)
  BY <1>1
<1>6. Elems(Tail(s)) \subseteq Elems(s) /\ Head(s) \in Elems(s)
  BY <1>1, <1>2, <1>3, <1>5 DEF Elems
<1>7. ASSUME NEW i \in DOMAIN s
      PROVE  s[i] = Head(s) \/ s[i] \in Elems(Tail(s))
  <2>1. CASE i = 1
    BY <1>1, <2>1
  <2>2. CASE i # 1
    <3>1. i - 1 \in DOMAIN Tail(s) /\ Tail(s)[i - 1] = s[i]
      BY <1>1, <1>2, <1>4, <2>2
    <3> QED BY <3>1 DEF Elems
  <2> QED BY <2>1, <2>2
<1> QED BY <1>1, <1>6, <1>7 DEF Elems

LEMMA TellFits ==
  ASSUME UpInv, NEW u \in Updates, UpShape(u), Tell(u)
  PROVE  UpInv' /\ Waiting' = Waiting \cup {u}
<1>1. upChan' \in Seq(Updates)
  BY AppendProperties DEF UpInv, Tell
<1>2. Waiting' = Waiting \cup {u}
  BY ElemsAppend DEF UpInv, Tell, Waiting, Elems
<1> QED BY <1>1, <1>2 DEF UpInv

\* Somewhere in the code means with locals that fit the place.
LEMMA Somewhere ==
  ASSUME ActInv, NEW a \in Actors, act[a].at # "idle"
  PROVE  act[a] \in Locals /\ Shape(act[a]) /\ act[a] # Idle
BY DEF ActInv, Idle

LEMMA DoFits ==
  ASSUME ActInv, NEW a \in Actors, NEW r \in Locals \cup {Idle}, Shape(r), Do(a, r)
  PROVE  /\ ActInv' /\ act'[a] = r
         /\ \A b \in Actors : b # a => act'[b] = act[b]
BY DEF ActInv, Do

LEMMA EndFits ==
  ASSUME ActInv, NEW a \in Actors, End(a)
  PROVE  /\ ActInv' /\ act'[a] = Idle
         /\ \A b \in Actors : b # a => act'[b] = act[b]
BY DEF ActInv, End, Do, Shape, Idle

LEMMA GotoFits ==
  ASSUME ActInv, NEW a \in Actors, NEW l \in Places, act[a] \in Locals, Goto(a, l),
         Shape([act[a] EXCEPT !.at = l])
  PROVE  /\ ActInv' /\ act'[a] = [act[a] EXCEPT !.at = l] /\ act'[a] \in Locals
         /\ \A b \in Actors : b # a => act'[b] = act[b]
<1>1. [act[a] EXCEPT !.at = l] \in Locals
  BY DEF Locals
<1>2. Do(a, [act[a] EXCEPT !.at = l])
  BY DEF Goto, Do, ActInv
<1> QED BY <1>1, <1>2, DoFits

\* Rows of telegramteam that go, or are replaced.
LEMMA DropKeeps ==
  ASSUME LinkInv, NEW cs, Drop(cs),
         \A c \in Chats : c \notin cs /\ linked[c] # None => owner'[linked[c]] # None
  PROVE  LinkInv'
<1>1. \A c \in Chats : linked'[c] = IF c \in cs THEN None ELSE linked[c]
  BY DEF Drop
<1>2. linked' \in [Chats -> Teams \cup {None}]
  BY DEF Drop, LinkInv
<1>3. \A c, d \in Chats : linked'[c] = linked'[d] /\ linked'[c] # None => c = d
  BY <1>1 DEF LinkInv
<1>4. \A p \in listed' : p \in Persons \X {c \in Chats : linked'[c] # None}
  BY <1>1 DEF Drop, LinkInv
<1>5. withOp' \subseteq {c \in Chats : linked'[c] # None}
  BY <1>1 DEF Drop, LinkInv
<1>6. \A c \in Chats : linked'[c] # None => owner'[linked'[c]] # None
  BY <1>1
<1> QED BY <1>2, <1>3, <1>4, <1>5, <1>6 DEF LinkInv

LEMMA LinkKeeps ==
  ASSUME LinkInv, NEW t \in Teams, NEW c \in Chats, NEW op \in BOOLEAN, LinkToTelegramChat(t, c, op),
         owner[t] # None, owner' = owner
  PROVE  LinkInv'
<1> DEFINE cs == Chat(t) \cup {c}
<1>1. \A d \in Chats : linked'[d] = IF d = c THEN t ELSE IF d \in cs THEN None ELSE linked[d]
  BY DEF LinkToTelegramChat
<1>2. linked' \in [Chats -> Teams \cup {None}]
  BY DEF LinkToTelegramChat, LinkInv
<1>3. \A d \in Chats : d # c => linked'[d] # t
  BY <1>1, NoneType DEF Chat
<1>4. \A d, e \in Chats : linked'[d] = linked'[e] /\ linked'[d] # None => d = e
  BY <1>1, <1>3 DEF LinkInv
<1>5. t # None
  BY NoneType
<1>6. \A p \in listed' : p \in Persons \X {d \in Chats : linked'[d] # None}
  BY <1>1, <1>5 DEF LinkToTelegramChat, LinkInv
<1>7. withOp' \subseteq {d \in Chats : linked'[d] # None}
  BY <1>1, <1>5 DEF LinkToTelegramChat, LinkInv
<1>8. \A d \in Chats : linked'[d] # None => owner'[linked'[d]] # None
  BY <1>1 DEF LinkInv
<1> QED BY <1>2, <1>4, <1>6, <1>7, <1>8 DEF LinkInv

\* A step of an actor that only looks.
LEMMA TablesStay ==
  ASSUME Core, ActInv', UNCHANGED <<row, team, links, telegram, upChan>>
  PROVE  Core'
BY DEF Core, RowInv, TeamInv, LinkInv, ThereInv, UpInv, Waiting, team, links, telegram
-----------------------------------------------------------------------------
(* AddAgent and addToChat, RemoveAgent and removeFromChat *)

LEMMA RemoteAct ==
  ASSUME Core, NEW a \in Actors, Remote(a)
  PROVE  ActInv' /\ \A b \in Actors : b # a => act'[b] = act[b]
<1> DEFINE Good == ActInv' /\ \A b \in Actors : b # a => act'[b] = act[b]
<1>1. act[a] \in Locals /\ Shape(act[a])
  BY Somewhere DEF Core, Remote, Insert, Delete, TelegramChat, TelegramID, GetChat, GetChatFails,
     ChatNotFound, IsChatMember, AddToChatMemberList, RemoveFromChatMemberList, Ban, UserIdInvalid,
     RemoveTelegramID, At
<1>2. ActInv
  BY DEF Core
<1>3. ASSUME NEW l \in Places, Goto(a, l), Shape([act[a] EXCEPT !.at = l])
      PROVE  Good
  BY <1>1, <1>2, <1>3, GotoFits
<1>4. ASSUME NEW r \in Locals, Do(a, r), Shape(r)
      PROVE  Good
  BY <1>2, <1>4, DoFits
<1>5. ASSUME End(a)
      PROVE  Good
  BY <1>2, <1>5, EndFits
<1>6. CASE Insert(a) \/ Delete(a)
  <2>1. Shape([act[a] EXCEPT !.at = "chat"]) /\ Goto(a, "chat")
    BY <1>1, <1>6 DEF Insert, Delete, At, Shape, Locals
  <2> QED BY <2>1, <1>3 DEF Places
<1>7. CASE TelegramChat(a)
  <2>1. ASSUME NEW c \in Chats,
               Do(a, [act[a] EXCEPT !.chat = c, !.at = IF act[a].job = "add" THEN "ask" ELSE "account"])
        PROVE  Good
    <3>1. [act[a] EXCEPT !.chat = c, !.at = IF act[a].job = "add" THEN "ask" ELSE "account"] \in Locals
      <4> DEFINE l == IF act[a].job = "add" THEN "ask" ELSE "account"
      <4>1. l \in Places
        BY DEF Places
      <4> HIDE DEF l
      <4>2. [act[a] EXCEPT !.chat = c, !.at = l] \in Locals
        BY <1>1, <4>1 DEF Locals
      <4> QED BY <4>2 DEF l
    <3>2. Shape([act[a] EXCEPT !.chat = c, !.at = IF act[a].job = "add" THEN "ask" ELSE "account"])
      BY <1>1, <1>7 DEF TelegramChat, At, Shape, Locals
    <3> QED BY <2>1, <3>1, <3>2, <1>4
  <2> QED BY <2>1, <1>5, <1>7 DEF TelegramChat, Chat
<1>8. CASE TelegramID(a)
  <2>1. ASSUME NEW x \in Persons,
               Do(a, [act[a] EXCEPT !.who = x, !.at = IF act[a].job = "add" THEN "known" ELSE "ask"])
        PROVE  Good
    <3>1. [act[a] EXCEPT !.who = x, !.at = IF act[a].job = "add" THEN "known" ELSE "ask"] \in Locals
      <4> DEFINE l == IF act[a].job = "add" THEN "known" ELSE "ask"
      <4>1. l \in Places
        BY DEF Places
      <4> HIDE DEF l
      <4>2. [act[a] EXCEPT !.who = x, !.at = l] \in Locals
        BY <1>1, <4>1 DEF Locals
      <4> QED BY <4>2 DEF l
    <3>2. Shape([act[a] EXCEPT !.who = x, !.at = IF act[a].job = "add" THEN "known" ELSE "ask"])
      BY <1>1, <1>8 DEF TelegramID, At, Shape, Locals
    <3> QED BY <2>1, <3>1, <3>2, <1>4
  <2> QED BY <2>1, <1>5, <1>8 DEF TelegramID, Holder
<1>9. CASE GetChat(a)
  <2>1. CASE act[a].job = "add"
    <3>1. Shape([act[a] EXCEPT !.at = "account"]) /\ Goto(a, "account")
      BY <1>1, <1>9, <2>1 DEF GetChat, At, Shape, Locals
    <3> QED BY <3>1, <1>3 DEF Places
  <2>2. CASE act[a].job # "add"
    <3>1. Shape([act[a] EXCEPT !.at = "unlist"]) /\ Goto(a, "unlist")
      BY <1>1, <1>9, <2>2 DEF GetChat, At, Shape, Locals
    <3> QED BY <3>1, <1>3 DEF Places
  <2> QED BY <2>1, <2>2
<1>11. CASE IsChatMember(a)
  <2>1. CASE Goto(a, "list")
    <3>1. Shape([act[a] EXCEPT !.at = "list"])
      BY <1>1, <1>11 DEF IsChatMember, At, Shape, Locals
    <3> QED BY <2>1, <3>1, <1>3 DEF Places
  <2> QED BY <2>1, <1>5, <1>11 DEF IsChatMember
<1>12. CASE RemoveFromChatMemberList(a)
  <2>1. Shape([act[a] EXCEPT !.at = "ban"]) /\ Goto(a, "ban")
    BY <1>1, <1>12 DEF RemoveFromChatMemberList, At, Shape, Locals
  <2> QED BY <2>1, <1>3 DEF Places
<1>13. CASE UserIdInvalid(a)
  <2>1. Shape([act[a] EXCEPT !.at = "drop"]) /\ Goto(a, "drop")
    BY <1>1, <1>13 DEF UserIdInvalid, At, Shape, Locals
  <2> QED BY <2>1, <1>3 DEF Places
<1>14. CASE GetChatFails(a) \/ ChatNotFound(a) \/ AddToChatMemberList(a) \/ Ban(a) \/ RemoveTelegramID(a)
  BY <1>5, <1>14 DEF GetChatFails, ChatNotFound, AddToChatMemberList, Ban, RemoveTelegramID
<1> QED BY <1>6, <1>7, <1>8, <1>9, <1>11, <1>12, <1>13, <1>14 DEF Remote

LEMMA RemoteCore ==
  ASSUME Core, NEW a \in Actors, Remote(a)
  PROVE  Core'
<1>1. ActInv'
  BY RemoteAct
<1>2. CASE Insert(a) \/ Delete(a)
  <2>1. act[a].team \in Teams /\ act[a].gid \in Agents
    BY <1>2, Somewhere DEF Core, Insert, Delete, At, Shape
  <2>2. members' \in [Teams -> SUBSET Agents]
    BY <1>2, <2>1 DEF Core, TeamInv, Insert, Delete
  <2> QED BY <1>1, <1>2, <2>2
          DEF Core, RowInv, TeamInv, LinkInv, ThereInv, UpInv, Waiting, links, telegram, Insert, Delete
<1>3. CASE TelegramChat(a) \/ TelegramID(a) \/ GetChat(a) \/ GetChatFails(a) \/ IsChatMember(a)
           \/ UserIdInvalid(a)
  <2>1. UNCHANGED <<row, team, links, telegram, upChan>>
    BY <1>3 DEF TelegramChat, TelegramID, GetChat, GetChatFails, IsChatMember, UserIdInvalid
  <2> QED BY <1>1, <2>1, TablesStay
<1>4. CASE ChatNotFound(a)
  <2>1. LinkInv'
    BY <1>4, DropKeeps DEF Core, LinkInv, team, ChatNotFound, UnlinkFromTelegramChat
  <2> QED BY <1>1, <1>4, <2>1 DEF Core, RowInv, TeamInv, ThereInv, UpInv, Waiting, team, telegram,
          ChatNotFound
<1>5. CASE AddToChatMemberList(a)
  <2>1. act[a].chat \in Chats /\ act[a].who \in Persons
    BY <1>5, Somewhere DEF Core, AddToChatMemberList, At, Shape
  <2>2. LinkInv'
    BY <1>5, <2>1 DEF Core, LinkInv, team, Listing, AddToChatMemberList
  <2> QED BY <1>1, <1>5, <2>2 DEF Core, RowInv, TeamInv, ThereInv, UpInv, Waiting, team, telegram,
          AddToChatMemberList
<1>6. CASE RemoveFromChatMemberList(a)
  <2>1. LinkInv'
    BY <1>6 DEF Core, LinkInv, team, RemoveFromChatMemberList
  <2> QED BY <1>1, <1>6, <2>1 DEF Core, RowInv, TeamInv, ThereInv, UpInv, Waiting, team, telegram,
          RemoveFromChatMemberList
<1>7. CASE Ban(a)
  <2>1. act[a].chat \in Chats /\ act[a].who \in Persons
    BY <1>7, Somewhere DEF Core, Ban, At, Shape
  <2>2. UpInv'
    <3>1. CASE Here(a) \in inchat
      <4> DEFINE u == [job |-> "remove", who |-> act[a].who, by |-> None,
                       chat |-> act[a].chat, team |-> None]
      <4>1. u \in Updates /\ UpShape(u)
        BY <2>1 DEF Updates, Jobs, UpShape
      <4>2. Tell(u)
        BY <1>7, <3>1 DEF Ban, Tell
      <4> QED BY <4>1, <4>2, TellFits DEF Core
    <3>2. CASE Here(a) \notin inchat
      BY <1>7, <3>2 DEF Core, UpInv, Waiting, Ban
    <3> QED BY <3>1, <3>2
  <2>3. ThereInv'
    BY <1>7 DEF Core, ThereInv, Ban
  <2> QED BY <1>1, <1>7, <2>2, <2>3 DEF Core, RowInv, TeamInv, LinkInv, team, links, Ban
<1>8. CASE RemoveTelegramID(a)
  <2>1. RowInv'
    BY <1>8 DEF Core, RowInv, RemoveTelegramID
  <2> QED BY <1>1, <1>8, <2>1 DEF Core, TeamInv, LinkInv, ThereInv, UpInv, Waiting, team, links, telegram,
          RemoveTelegramID
<1> QED BY <1>2, <1>3, <1>4, <1>5, <1>6, <1>7, <1>8 DEF Remote
-----------------------------------------------------------------------------
(* The bot *)

LEMMA BotActor == Bot \in Actors
BY DEF Actors

LEMMA RunUpdateCore ==
  ASSUME Core, RunUpdate
  PROVE  /\ Core' /\ Head(upChan) \in Updates /\ UpShape(Head(upChan))
         /\ Waiting = Waiting' \cup {Head(upChan)}
<1> DEFINE u == Head(upChan)
           r == [at |-> IF u.job = "dm" THEN "dm" ELSE "message", job |-> u.job, who |-> u.who,
                 by |-> u.by, gid |-> None, team |-> u.team, chat |-> u.chat]
<1>1. /\ u \in Updates /\ upChan' \in Seq(Updates) /\ UpShape(u)
      /\ Waiting = Waiting' \cup {u}
  BY ElemsTail DEF Core, UpInv, RunUpdate, Waiting, Elems
<1>2. UpInv'
  BY <1>1 DEF Core, UpInv
<1>3. r \in Locals
  <2> DEFINE l == IF u.job = "dm" THEN "dm" ELSE "message"
  <2>1. l \in Places
    BY DEF Places
  <2> HIDE DEF u, l
  <2>2. [at |-> l, job |-> u.job, who |-> u.who,
         by |-> u.by, gid |-> None, team |-> u.team, chat |-> u.chat] \in Locals
    BY <1>1, <2>1 DEF Locals, Updates
  <2> QED BY <2>2 DEF l
<1>4. Shape(r)
  BY <1>1 DEF Shape, UpShape
<1>5. Do(Bot, r)
  BY DEF RunUpdate
<1> HIDE DEF r
<1>6. ActInv'
  BY <1>3, <1>4, <1>5, BotActor, DoFits DEF Core
<1> QED BY <1>1, <1>2, <1>6 DEF Core, RowInv, TeamInv, LinkInv, ThereInv, team, links, telegram, RunUpdate

LEMMA GidType ==
  ASSUME RowInv, NEW x \in Persons \cup {None}
  PROVE  Gid(x) \subseteq Agents
BY DEF RowInv, Gid

LEMMA MessageLists ==
  ASSUME Core, ProcessChatMessage, ActInv'
  PROVE  Core'
<1>1. act[Bot].chat \in Chats /\ act[Bot].by \in Persons \cup {None}
  BY BotActor, Somewhere DEF Core, ProcessChatMessage, At, Shape, UpShape, Locals
<1>2. LinkInv'
  BY <1>1 DEF Core, LinkInv, team, Listing, ProcessChatMessage
<1> QED BY <1>2 DEF Core, RowInv, TeamInv, ThereInv, UpInv, Waiting, team, telegram, ProcessChatMessage

LEMMA BotMessageCore ==
  ASSUME Core, ProcessChatMessage \/ Sender \/ ChatToTeam \/ ChatResponses \/ OwnsTeam
  PROVE  Core'
<1> DEFINE r == act[Bot]
<1>1. r \in Locals /\ Shape(r)
  BY BotActor, Somewhere DEF Core, ProcessChatMessage, Sender, ChatToTeam, ChatResponses, OwnsTeam, At
<1>2. ActInv
  BY DEF Core
<1>3. ASSUME NEW l \in Places, Goto(Bot, l), Shape([r EXCEPT !.at = l])
      PROVE  ActInv'
  BY <1>1, <1>2, <1>3, GotoFits, BotActor
<1>4. ASSUME NEW s \in Locals, Do(Bot, s), Shape(s)
      PROVE  ActInv'
  BY <1>2, <1>4, DoFits, BotActor
<1>5. ASSUME End(Bot)
      PROVE  ActInv'
  BY <1>2, <1>5, EndFits, BotActor
<1>6. CASE ProcessChatMessage
  <2>1. CASE r.job \in {"link", "unlink", "task"}
    <3>1. Shape([r EXCEPT !.at = "sender"]) /\ Goto(Bot, "sender")
      BY <1>1, <1>6, <2>1 DEF ProcessChatMessage, ChatCommand, At, Shape, UpShape, Locals
    <3> QED BY <3>1, <1>3, <1>6, MessageLists DEF Places
  <2>2. CASE r.job \in {"add", "remove", "out"}
    <3>1. Shape([r EXCEPT !.at = "team"]) /\ Goto(Bot, "team")
      BY <1>1, <1>6, <2>2 DEF ProcessChatMessage, ChatCommand, At, Shape, UpShape, Locals
    <3> QED BY <3>1, <1>3, <1>6, MessageLists DEF Places
  <2>3. CASE r.job \notin {"link", "unlink", "task", "add", "remove", "out"}
    <3>1. End(Bot)
      BY <1>6, <2>3 DEF ProcessChatMessage, ChatCommand
    <3> QED BY <3>1, <1>5, <1>6, MessageLists
  <2> QED BY <2>1, <2>2, <2>3
<1>7. CASE Sender \/ ChatToTeam \/ ChatResponses \/ OwnsTeam
  <2> SUFFICES ActInv'
    <3>1. UNCHANGED <<row, team, links, telegram, upChan>>
      BY <1>7 DEF Sender, ChatToTeam, ChatResponses, OwnsTeam, Asking
    <3> QED BY <3>1, TablesStay
  <2>1. CASE Sender
    <3>1. ASSUME NEW g \in Gid(r.by),
                 Do(Bot, [r EXCEPT !.gid = g, !.at = IF r.job = "link" THEN "owns" ELSE "team"])
          PROVE  ActInv'
      <4> DEFINE l == IF r.job = "link" THEN "owns" ELSE "team"
                 s == [r EXCEPT !.gid = g, !.at = l]
      <4>1. g \in Agents
        BY <1>1, GidType DEF Core, Locals
      <4>2. l \in Places
        BY DEF Places
      <4>3. Shape(s)
        BY <1>1, <2>1, <4>1 DEF Sender, At, Shape, UpShape, Locals
      <4>4. Do(Bot, s)
        BY <3>1
      <4> HIDE DEF l
      <4>5. s \in Locals
        BY <1>1, <4>1, <4>2 DEF Locals
      <4> HIDE DEF s
      <4> QED BY <1>4, <4>3, <4>4, <4>5
    <3> QED BY <1>5, <2>1, <3>1 DEF Sender
  <2>2. CASE ChatToTeam
    <3>1. CASE ~End(Bot)
      <4> DEFINE t == linked[r.chat]
                 l == AfterTeam[r.job]
                 s == [r EXCEPT !.team = t, !.at = l]
      <4>1. t \in Teams /\ r.chat \in Chats /\ r.at = "team"
        BY <1>1, <2>2, <3>1 DEF ChatToTeam, At, Shape, UpShape, Core, LinkInv
      <4>2. /\ r.job \in {"add", "remove", "out", "unlink", "task"}
            /\ r.job \in {"add", "remove"} => l = "subject"
            /\ r.job = "out" => l = "unlink"
            /\ r.job = "unlink" => l = "owns"
            /\ r.job = "task" => l = "task"
        BY <1>1, <4>1 DEF Shape, AfterTeam
      <4>3. l \in Places
        BY <4>2 DEF Places
      <4>4. Do(Bot, s)
        BY <2>2, <3>1 DEF ChatToTeam
      <4> HIDE DEF l, t
      <4>5. s \in Locals
        BY <1>1, <4>1, <4>3 DEF Locals
      <4>6. Shape(s)
        BY <1>1, <4>1, <4>2 DEF Shape, UpShape, Locals
      <4> HIDE DEF s
      <4> QED BY <1>4, <4>4, <4>5, <4>6
    <3> QED BY <1>5, <3>1
  <2>3. CASE ChatResponses
    <3>1. ASSUME NEW g \in Gid(r.who),
                 Do(Bot, [r EXCEPT !.gid = g, !.at = IF r.job = "add" THEN "insert" ELSE "delete"])
          PROVE  ActInv'
      <4> DEFINE l == IF r.job = "add" THEN "insert" ELSE "delete"
                 s == [r EXCEPT !.gid = g, !.at = l]
      <4>1. g \in Agents
        BY <1>1, GidType DEF Core, Locals
      <4>2. l \in Places
        BY DEF Places
      <4>3. Shape(s)
        BY <1>1, <2>3, <4>1 DEF ChatResponses, At, Shape, UpShape, Locals
      <4>4. Do(Bot, s)
        BY <3>1
      <4> HIDE DEF l
      <4>5. s \in Locals
        BY <1>1, <4>1, <4>2 DEF Locals
      <4> HIDE DEF s
      <4> QED BY <1>4, <4>3, <4>4, <4>5
    <3> QED BY <1>5, <2>3, <3>1 DEF ChatResponses
  <2>4. CASE OwnsTeam
    <3>1. CASE Goto(Bot, r.job)
      <4>1. r.job \in {"link", "unlink"} /\ r.job \in Places /\ Shape([r EXCEPT !.at = r.job])
        BY <1>1, <2>4 DEF OwnsTeam, At, Shape, UpShape, Locals, Places
      <4> QED BY <1>3, <3>1, <4>1
    <3> QED BY <1>5, <2>4, <3>1 DEF OwnsTeam
  <2> QED BY <1>7, <2>1, <2>2, <2>3, <2>4
<1> QED BY <1>6, <1>7

LEMMA GcCore ==
  ASSUME Core, GcLink \/ GcUnlink \/ GcTask
  PROVE  Core'
<1>1. ActInv'
  BY EndFits, BotActor DEF Core, GcLink, GcUnlink, GcTask
<1>2. CASE GcLink
  <2>1. act[Bot].team \in Teams /\ act[Bot].chat \in Chats
    BY <1>2, BotActor, Somewhere DEF Core, GcLink, At, Shape
  <2>2. LinkInv'
    <3>1. CASE UNCHANGED links
      BY <1>2, <3>1 DEF Core, LinkInv, links, team, GcLink
    <3>2. CASE owner[act[Bot].team] # None
               /\ \E op \in BOOLEAN : LinkToTelegramChat(act[Bot].team, act[Bot].chat, op)
      <4>1. owner' = owner
        BY <1>2 DEF GcLink, team
      <4> QED BY <2>1, <3>2, <4>1, LinkKeeps DEF Core
    <3> QED BY <1>2, <3>1, <3>2 DEF GcLink
  <2> QED BY <1>1, <1>2, <2>2 DEF Core, RowInv, TeamInv, ThereInv, UpInv, Waiting, team, telegram, GcLink
<1>3. CASE GcUnlink
  <2>1. LinkInv'
    BY <1>3, DropKeeps DEF Core, LinkInv, team, GcUnlink, UnlinkFromTelegramChat
  <2> QED BY <1>1, <1>3, <2>1 DEF Core, RowInv, TeamInv, ThereInv, UpInv, Waiting, team, telegram, GcUnlink
<1>4. CASE GcTask
  BY <1>1, <1>4, TablesStay DEF GcTask, Asking
<1> QED BY <1>2, <1>3, <1>4

\* A new row is one for its account and one for its agent.
LEMMA SetTelegramIDFits ==
  ASSUME RowInv, NEW x \in Persons, NEW g \in Agents, NEW v \in BOOLEAN,
         Free(x, g), SetTelegramID(x, g, v)
  PROVE  RowInv'
<1> DEFINE r == [gid |-> g, verified |-> v]
<1>1. r \in [gid : Agents, verified : BOOLEAN] /\ r.gid = g
  OBVIOUS
<1>2. row' = [row EXCEPT ![x] = r]
  BY DEF SetTelegramID
<1> HIDE DEF r
<1>3. row' \in [Persons -> [gid : Agents, verified : BOOLEAN] \cup {None}]
  BY <1>1, <1>2 DEF RowInv
<1>4. \A y \in Persons : row[y] # None => row[y].gid # g
  BY DEF Free, Holder
<1>5. \A y \in Persons : row'[y] = IF y = x THEN r ELSE row[y]
  BY <1>2 DEF RowInv
<1> QED BY <1>1, <1>3, <1>4, <1>5 DEF RowInv

LEMMA DirectCore ==
  ASSUME Core, GidV \/ FirstLogin \/ InitAgent \/ VerifyAgent
  PROVE  Core'
<1> DEFINE r == act[Bot]
<1>1. r \in Locals /\ Shape(r) /\ r.at \in {"dm", "new", "init", "verify"} /\ r.by \in Persons
  BY BotActor, Somewhere DEF Core, GidV, FirstLogin, InitAgent, VerifyAgent, At, Shape
<1>2. ActInv
  BY DEF Core
<1>3. ASSUME NEW l \in {"new", "verify", "init"}, Goto(Bot, l)
      PROVE  ActInv'
  <2>1. l \in Places /\ Shape([r EXCEPT !.at = l])
    BY <1>1 DEF Shape, Locals, Places
  <2> QED BY <1>1, <1>2, <1>3, <2>1, GotoFits, BotActor
<1>4. ASSUME End(Bot)
      PROVE  ActInv'
  BY <1>2, <1>4, EndFits, BotActor
<1>5. CASE GidV
  <2>1. Goto(Bot, "new") \/ Goto(Bot, "verify") \/ End(Bot)
    BY <1>5 DEF GidV
  <2>2. ActInv'
    BY <1>3, <1>4, <2>1
  <2> QED BY <1>5, <2>2, TablesStay DEF GidV, Asking
<1>6. CASE FirstLogin \/ InitAgent
  <2>1. ActInv'
    BY <1>3, <1>4, <1>6 DEF FirstLogin, InitAgent
  <2>2. \/ UNCHANGED row
        \/ \E g \in Agents, v \in BOOLEAN : Free(r.by, g) /\ SetTelegramID(r.by, g, v)
    BY <1>6 DEF FirstLogin, InitAgent
  <2>3. RowInv'
    BY <1>1, <2>2, SetTelegramIDFits DEF Core, RowInv
  <2> QED BY <1>6, <2>1, <2>3 DEF Core, TeamInv, LinkInv, ThereInv, UpInv, Waiting, team, links,
          telegram, FirstLogin, InitAgent
<1>7. CASE VerifyAgent
  <2>1. ActInv'
    BY <1>4, <1>7 DEF VerifyAgent
  <2>2. RowInv'
    <3>1. CASE UNCHANGED row
      BY <3>1 DEF Core, RowInv
    <3>2. CASE row[r.by] # None /\ row' = [row EXCEPT ![r.by].verified = TRUE]
      <4> DEFINE q == [row[r.by] EXCEPT !.verified = TRUE]
      <4>1. row' = [row EXCEPT ![r.by] = q] /\ row[r.by] \in [gid : Agents, verified : BOOLEAN]
        BY <1>1, <3>2 DEF Core, RowInv
      <4>2. q \in [gid : Agents, verified : BOOLEAN] /\ q.gid = row[r.by].gid
        BY <4>1
      <4> HIDE DEF q
      <4>3. \A y \in Persons : row'[y] = IF y = r.by THEN q ELSE row[y]
        BY <4>1 DEF Core, RowInv
      <4>4. row' \in [Persons -> [gid : Agents, verified : BOOLEAN] \cup {None}]
        BY <4>1, <4>2 DEF Core, RowInv
      <4> QED BY <1>1, <3>2, <4>2, <4>3, <4>4 DEF Core, RowInv
    <3> QED BY <1>7, <3>1, <3>2 DEF VerifyAgent
  <2> QED BY <1>7, <2>1, <2>2 DEF Core, TeamInv, LinkInv, ThereInv, UpInv, Waiting, team, links,
          telegram, VerifyAgent
<1> QED BY <1>5, <1>6, <1>7
-----------------------------------------------------------------------------
(* What Telegram tells, the web, and crashes *)

LEMMA TelegramCore ==
  ASSUME Core, NEW x \in Persons, NEW c \in Chats,
         Join(x, c) \/ Leave(x, c) \/ Say(x, c) \/ RemoveBot(x, c) \/ AddBot(x, c)
  PROVE  Core'
<1>1. ASSUME NEW job \in Jobs \ {"clean"}, NEW y \in Persons \cup {None}, NEW by \in Persons,
             NEW d \in Chats \cup {None}, NEW t \in Teams \cup {None},
             job # "dm" => d \in Chats, job = "link" => t \in Teams,
             job \in {"add", "remove"} => y \in Persons,
             Tell(Update(job, y, by, d, t))
      PROVE  UpInv'
  <2> DEFINE u == Update(job, y, by, d, t)
  <2>1. u \in Updates /\ UpShape(u)
    BY <1>1 DEF Update, Updates, UpShape
  <2> HIDE DEF u
  <2> QED BY <1>1, <2>1, TellFits DEF Core, u
<1>2. UpInv'
  <2>1. CASE Join(x, c)
    <3>1. PICK by \in {x} \cup Present(c) : Tell(Update("add", x, by, c, None))
      BY <2>1 DEF Join
    <3>2. by \in Persons
      BY DEF Present
    <3> QED BY <1>1, <3>1, <3>2 DEF Jobs
  <2>2. CASE Leave(x, c) \/ RemoveBot(x, c) \/ AddBot(x, c)
    BY <1>1, <2>2 DEF Leave, RemoveBot, AddBot, Jobs
  <2>3. CASE Say(x, c)
    BY <1>1, <2>3 DEF Say, Jobs
  <2> QED BY <2>1, <2>2, <2>3
<1>3. ThereInv'
  BY DEF Core, ThereInv, telegram, Join, Leave, Say, RemoveBot, AddBot
<1>4. UNCHANGED <<row, team, links, act>>
  BY DEF Join, Leave, Say, RemoveBot, AddBot
<1> QED BY <1>2, <1>3, <1>4 DEF Core, RowInv, TeamInv, LinkInv, ActInv, team, links

LEMMA WebCore ==
  ASSUME Core, NEW h \in Handlers, NEW g \in Agents, NEW t \in Teams \cup {None},
         NEW l \in {"insert", "delete", "drop"}, NEW job \in Jobs,
         l \in {"insert", "delete"} => t \in Teams,
         l = "insert" => job = "add", l = "delete" => job = "remove", Web(h, job, l, g, t)
  PROVE  Core'
<1> DEFINE r == [at |-> l, job |-> job, who |-> None, by |-> None, gid |-> g, team |-> t, chat |-> None]
<1>1. r \in Locals /\ Shape(r)
  BY DEF Locals, Places, Shape
<1>2. Do(h, r) /\ h \in Actors
  BY DEF Web, Actors
<1> HIDE DEF r
<1>3. ActInv'
  BY <1>1, <1>2, DoFits DEF Core
<1> QED BY <1>3, TablesStay DEF Web

\* What the keys take along.
LEMMA CascadeCore ==
  ASSUME Core, RowInv', NEW ts, NEW gs, Cascade(ts, gs)
  PROVE  Core'
<1>1. TeamInv'
  BY DEF Core, TeamInv, Cascade
<1>2. ASSUME NEW c \in Chats, linked[c] \notin ts, linked[c] # None
      PROVE  owner'[linked[c]] # None
  BY <1>2 DEF Core, LinkInv, Cascade
<1>3. LinkInv'
  <2> DEFINE cs == {c \in Chats : linked[c] \in ts}
  <2>1. Drop(cs) /\ \A c \in Chats : c \notin cs /\ linked[c] # None => owner'[linked[c]] # None
    BY <1>2 DEF Cascade
  <2> HIDE DEF cs
  <2> QED BY <2>1, DropKeeps DEF Core
<1> QED BY <1>1, <1>3 DEF Core, ThereInv, UpInv, Waiting, ActInv, telegram, Cascade

LEMMA MovesCore ==
  ASSUME Core, Moves
  PROVE  Core'
<1>1. ASSUME NEW x \in Persons, NEW c \in Chats,
             Join(x, c) \/ Leave(x, c) \/ Say(x, c) \/ RemoveBot(x, c) \/ AddBot(x, c)
      PROVE  Core'
  BY <1>1, TelegramCore
<1>2. ASSUME NEW x \in Persons, DirectMessage(x)
      PROVE  Core'
  <2>1. UpInv'
    <3> DEFINE u == Update("dm", None, x, None, None)
    <3>1. u \in Updates /\ UpShape(u)
      BY DEF Update, Updates, UpShape, Jobs
    <3> HIDE DEF u
    <3> QED BY <1>2, <3>1, TellFits DEF Core, DirectMessage, u
  <2> QED BY <1>2, <2>1 DEF Core, RowInv, TeamInv, LinkInv, ThereInv, ActInv, team, links, telegram,
          DirectMessage
<1>3. ASSUME NEW x \in Persons, NEW g \in Agents, Paired(x, g)
      PROVE  Core'
  <2>1. RowInv'
    BY <1>3, SetTelegramIDFits DEF Core, Paired
  <2> QED BY <1>3, <2>1 DEF Core, TeamInv, LinkInv, ThereInv, UpInv, Waiting, ActInv, team, links,
          telegram, Paired
<1>4. ASSUME NEW c \in Chats, ChatGone(c)
      PROVE  Core'
  <2>1. ThereInv'
    BY <1>4 DEF Core, ThereInv, ChatGone
  <2> QED BY <1>4, <2>1 DEF Core, RowInv, TeamInv, LinkInv, UpInv, Waiting, ActInv, team, links, ChatGone
<1>5. ASSUME NEW c \in Chats, DeleteOperation(c)
      PROVE  Core'
  <2>1. LinkInv'
    BY <1>5, DropKeeps DEF Core, LinkInv, team, DeleteOperation
  <2> QED BY <1>5, <2>1 DEF Core, RowInv, TeamInv, ThereInv, UpInv, Waiting, ActInv, team, telegram,
          DeleteOperation
<1>6. ASSUME NEW t \in Teams, NEW g \in Agents, Chown(t, g)
      PROVE  Core'
  <2>1. owner' \in [Teams -> Agents \cup {None}]
    BY <1>6 DEF Core, TeamInv, Chown
  <2>2. g # None
    BY NoneType
  <2>3. LinkInv'
    BY <1>6, <2>2 DEF Core, TeamInv, LinkInv, links, Chown
  <2> QED BY <1>6, <2>1, <2>3 DEF Core, RowInv, TeamInv, ThereInv, UpInv, Waiting, ActInv, telegram, Chown
<1>7. ASSUME NEW h \in Handlers, NEW g \in Agents, NEW t \in Teams, AddAgent(h, g, t) \/ RemoveAgent(h, g, t)
      PROVE  Core'
  BY <1>7, WebCore DEF AddAgent, RemoveAgent, Jobs
<1>8. ASSUME NEW h \in Handlers, Cleanup(h)
      PROVE  Core'
  BY <1>8, WebCore DEF Cleanup, Jobs
<1>9. ASSUME NEW t \in Teams, DeleteTeam(t)
      PROVE  Core'
  <2>1. RowInv'
    BY <1>9 DEF Core, RowInv, DeleteTeam
  <2> QED BY <1>9, <2>1, CascadeCore DEF DeleteTeam
<1>10. ASSUME NEW g \in Agents, DeleteAgent(g)
      PROVE  Core'
  <2>1. RowInv'
    BY <1>10 DEF Core, RowInv, DeleteAgent
  <2> QED BY <1>10, <2>1, CascadeCore DEF DeleteAgent
<1> QED BY <1>1, <1>2, <1>3, <1>4, <1>5, <1>6, <1>7, <1>8, <1>9, <1>10 DEF Moves

LEMMA CrashCore ==
  ASSUME Core, Crash
  PROVE  Core'
<1>1. Waiting' = {}
  BY DEF Crash, Waiting
<1>2. UpInv'
  BY <1>1, EmptySeq DEF Crash, UpInv
<1>3. Shape(Idle)
  BY DEF Shape, Idle
<1>4. ActInv'
  BY <1>3 DEF Crash, ActInv
<1> QED BY <1>2, <1>4 DEF Core, RowInv, TeamInv, LinkInv, ThereInv, team, links, telegram, Crash

\* Something that an actor asked for has failed.
Stops(a)   == NoBus(a) \/ Fails(a)
Failing(a) == Stops(a) \/ ListFails(a)

\* Where an actor goes on whom the list of the chat does not hold up.
LEMMA ListFailsAct ==
  ASSUME Core, NEW a \in Actors, ListFails(a)
  PROVE  /\ act[a] \in Locals /\ Shape(act[a])
         /\ \/ act'[a] = Idle
            \/ \E l \in {"sender", "team", "list", "ban"} : act'[a] = [act[a] EXCEPT !.at = l]
         /\ ActInv' /\ \A b \in Actors : b # a => act'[b] = act[b]
<1>1. act[a] \in Locals /\ Shape(act[a])
  BY Somewhere DEF Core, ListFails, At
<1>2. ActInv
  BY DEF Core
<1>3. ASSUME NEW l \in {"sender", "team", "list", "ban"}, Goto(a, l), Shape([act[a] EXCEPT !.at = l])
      PROVE  ActInv' /\ (\A b \in Actors : b # a => act'[b] = act[b]) /\ act'[a] = [act[a] EXCEPT !.at = l]
  <2>1. l \in Places
    BY <1>3 DEF Places
  <2> QED BY <1>1, <1>2, <1>3, <2>1, GotoFits
<1>4. ASSUME End(a)
      PROVE  ActInv' /\ (\A b \in Actors : b # a => act'[b] = act[b]) /\ act'[a] = Idle
  BY <1>2, <1>4, EndFits
<1>5. CASE a = Bot /\ At(a, "message") /\ ChatCommand
  <2>1. CASE act[a].job \in {"link", "unlink", "task"}
    <3>1. Shape([act[a] EXCEPT !.at = "sender"]) /\ Goto(a, "sender")
      BY <1>1, <1>5, <2>1 DEF ChatCommand, At, Shape, UpShape, Locals
    <3> QED BY <1>1, <1>3, <3>1
  <2>2. CASE act[a].job \in {"add", "remove", "out"}
    <3>1. Shape([act[a] EXCEPT !.at = "team"]) /\ Goto(a, "team")
      BY <1>1, <1>5, <2>2 DEF ChatCommand, At, Shape, UpShape, Locals
    <3> QED BY <1>1, <1>3, <3>1
  <2>3. CASE act[a].job \notin {"link", "unlink", "task", "add", "remove", "out"}
    <3>1. End(a)
      BY <1>5, <2>3 DEF ChatCommand
    <3> QED BY <1>1, <1>4, <3>1
  <2> QED BY <2>1, <2>2, <2>3
<1>6. CASE At(a, "known") /\ Goto(a, "list")
  <2>1. Shape([act[a] EXCEPT !.at = "list"])
    BY <1>1, <1>6 DEF At, Shape, Locals
  <2> QED BY <1>1, <1>3, <1>6, <2>1
<1>7. CASE At(a, "unlist") /\ Goto(a, "ban")
  <2>1. Shape([act[a] EXCEPT !.at = "ban"])
    BY <1>1, <1>7 DEF At, Shape, Locals
  <2> QED BY <1>1, <1>3, <1>7, <2>1
<1> QED BY <1>1, <1>4, <1>5, <1>6, <1>7 DEF ListFails

LEMMA FailingCore ==
  ASSUME Core, NEW a \in Actors, Failing(a)
  PROVE  Core' /\ \A b \in Actors : b # a => act'[b] = act[b]
<1>1. ActInv' /\ \A b \in Actors : b # a => act'[b] = act[b]
  BY EndFits, ListFailsAct DEF Core, Failing, Stops, NoBus, Fails
<1>2. UNCHANGED <<row, team, links, telegram, upChan>>
  BY DEF Failing, Stops, NoBus, Fails, ListFails
<1> QED BY <1>1, <1>2, TablesStay

\* A step of the server, or of the world around it.
LEMMA StepCore ==
  ASSUME Core, \/ BotStep \/ (\E h \in Handlers : Remote(h)) \/ Moves \/ Crash
               \/ \E a \in Actors : Failing(a)
  PROVE  Core'
<1>1. \A a \in Actors : Remote(a) => Core'
  BY RemoteCore
<1>2. Bot \in Actors /\ Handlers \subseteq Actors
  BY DEF Actors
<1>3. CASE BotStep
  BY <1>1, <1>2, <1>3, RunUpdateCore, BotMessageCore, GcCore, DirectCore DEF BotStep
<1> QED BY <1>1, <1>2, <1>3, MovesCore, CrashCore, FailingCore

\* Next as its parts: what somebody does, and what the history makes of it.
LEMMA NextParts ==
  ASSUME Next
  PROVE  /\ \/ BotStep \/ (\E h \in Handlers : Remote(h)) \/ Moves \/ Crash
            \/ \E a \in Actors : Failing(a)
         /\ moves' = moves \/ (moves < MaxMoves /\ moves' = moves + 1)
         /\ \/ Watch({})
            \/ \E a \in Actors : Watch(Unsettled({a}, {}))
            \/ Watch(Unsettled(Actors, Waiting))
BY DEF Next, Step, Move, Failing, Stops

LEMMA HistoryTypes ==
  ASSUME TypeOK, NEW lost, Watch(lost)
  PROVE  owned' \subseteq Teams /\ excused' \subseteq inchat'
<1>1. Owned' \subseteq Teams
  BY DEF Owned
<1> QED BY <1>1 DEF TypeOK, Watch

Types == TypeOK /\ Core

LEMMA SameRecord ==
  ASSUME NEW G, NEW V, NEW r \in [gid : G, verified : V], NEW s \in [gid : G, verified : V],
         r.gid = s.gid, r.verified = s.verified
  PROVE  r = s
OBVIOUS

LEMMA OneVerified ==
  ASSUME NEW r \in [gid : Agents, verified : {TRUE}], NEW s \in [gid : Agents, verified : {TRUE}],
         r.gid = s.gid
  PROVE  r = s
<1>1. r.verified = TRUE /\ s.verified = TRUE
  OBVIOUS
<1> QED BY <1>1, SameRecord

LEMMA InitTypes == Init => Types
<1> SUFFICES ASSUME Init PROVE Types
  OBVIOUS
<1>1. RowInv
  <2>1. row \in [Persons -> [gid : Agents, verified : BOOLEAN] \cup {None}]
    BY DEF Init
  <2>2. ASSUME NEW x \in Persons, NEW y \in Persons,
               row[x] # None, row[y] # None, row[x].gid = row[y].gid
        PROVE  x = y
    <3>1. row[x] \in [gid : Agents, verified : {TRUE}] /\ row[y] \in [gid : Agents, verified : {TRUE}]
      BY <2>2 DEF Init
    <3>2. row[x] = row[y]
      BY <2>2, <3>1, OneVerified
    <3> QED BY <2>2, <3>2 DEF Init
  <2> QED BY <2>1, <2>2 DEF RowInv
<1>2. TeamInv
  BY BoundsType DEF Init, TeamInv
<1>3. LinkInv /\ ThereInv
  <2>1. \A t \in Teams : owner[t] # None
    BY NoneType DEF Init
  <2> QED BY <2>1 DEF Init, LinkInv, ThereInv
<1>4. UpInv
  BY EmptySeq DEF Init, UpInv, Waiting
<1>5. ActInv
  BY DEF Init, ActInv, Shape, Idle
<1>6. owned \subseteq Teams /\ excused \subseteq inchat /\ moves \in 0..MaxMoves
  BY BoundsType DEF Init
<1> QED BY <1>1, <1>2, <1>3, <1>4, <1>5, <1>6
        DEF Types, TypeOK, Core, RowInv, TeamInv, LinkInv, ThereInv, UpInv, ActInv

LEMMA NextTypes == Types /\ [Next]_vars => Types'
<1> SUFFICES ASSUME Types, [Next]_vars PROVE Types'
  OBVIOUS
<1>1. CASE Next
  <2>1. Core'
    BY <1>1, NextParts, StepCore DEF Types
  <2>2. owned' \subseteq Teams /\ excused' \subseteq inchat'
    BY <1>1, NextParts, HistoryTypes DEF Types
  <2>3. moves' \in 0..MaxMoves
    BY <1>1, NextParts, BoundsType DEF Types, TypeOK
  <2> QED BY <2>1, <2>2, <2>3
          DEF Types, TypeOK, Core, RowInv, TeamInv, LinkInv, ThereInv, UpInv, ActInv
<1>2. CASE UNCHANGED vars
  BY <1>2 DEF vars, team, links, telegram, Types, TypeOK, Core, RowInv, TeamInv, LinkInv, ThereInv,
     UpInv, Waiting, ActInv
<1> QED BY <1>1, <1>2
-----------------------------------------------------------------------------
(* On the word of an owner *)

\* Where the bot stands before a chat is linked or unlinked, the sender has
\* owned the team since his message was taken.
OwnInv == At(Bot, "link") \/ (At(Bot, "unlink") /\ act[Bot].job = "unlink") => act[Bot].team \in owned

\* Where a step of the bot can lead.
LEMMA BotArrives ==
  ASSUME Core, BotStep \/ ListFails(Bot), ~OwnsTeam, ~ChatToTeam
  PROVE  act'[Bot].at \notin {"link", "unlink"}
<1> USE BotActor DEF At
<1>1. act \in [Actors -> Locals \cup {Idle}]
  BY DEF Core, ActInv
<1>2. \A l : Goto(Bot, l) /\ act[Bot] \in Locals => act'[Bot].at = l
  BY <1>1 DEF Goto, Locals
<1>3. \A r : Do(Bot, r) => act'[Bot] = r
  BY <1>1 DEF Do
<1>4. End(Bot) => act'[Bot].at = "idle"
  BY <1>3 DEF End, Idle
<1>5. CASE RunUpdate
  <2>1. act'[Bot].at \in {"dm", "message"}
    BY <1>3, <1>5 DEF RunUpdate
  <2> QED BY <2>1
<1>6. act[Bot].at # "idle" => act[Bot] \in Locals
  BY Somewhere DEF Core
<1>7. CASE ProcessChatMessage
  <2>1. End(Bot) \/ Goto(Bot, "sender") \/ Goto(Bot, "team")
    BY <1>7 DEF ProcessChatMessage, ChatCommand
  <2> QED BY <1>2, <1>4, <1>6, <1>7, <2>1 DEF ProcessChatMessage
<1>8. CASE Sender
  <2>1. ASSUME NEW g, Do(Bot, [act[Bot] EXCEPT !.gid = g, !.at = IF act[Bot].job = "link" THEN "owns" ELSE "team"])
        PROVE  act'[Bot].at \in {"owns", "team"}
    BY <1>3, <1>6, <1>8, <2>1 DEF Sender, Locals
  <2> QED BY <1>4, <1>8, <2>1 DEF Sender
<1>9. CASE ChatResponses
  <2>1. ASSUME NEW g, Do(Bot, [act[Bot] EXCEPT !.gid = g, !.at = IF act[Bot].job = "add" THEN "insert" ELSE "delete"])
        PROVE  act'[Bot].at \in {"insert", "delete"}
    BY <1>3, <1>6, <1>9, <2>1 DEF ChatResponses, Locals
  <2> QED BY <1>4, <1>9, <2>1 DEF ChatResponses
<1>10. CASE GidV
  <2>1. End(Bot) \/ Goto(Bot, "new") \/ Goto(Bot, "verify")
    BY <1>10 DEF GidV
  <2> QED BY <1>2, <1>4, <1>6, <1>10, <2>1 DEF GidV
<1>11. CASE GcLink \/ GcUnlink \/ GcTask \/ InitAgent \/ VerifyAgent
  BY <1>4, <1>11 DEF GcLink, GcUnlink, GcTask, InitAgent, VerifyAgent
<1>12. CASE FirstLogin
  <2>1. End(Bot) \/ Goto(Bot, "init")
    BY <1>12 DEF FirstLogin
  <2> QED BY <1>2, <1>4, <1>6, <1>12, <2>1 DEF FirstLogin
<1>13. CASE Remote(Bot)
  <2>1. CASE TelegramChat(Bot)
    <3>1. ASSUME NEW c, Do(Bot, [act[Bot] EXCEPT !.chat = c, !.at = IF act[Bot].job = "add" THEN "ask" ELSE "account"])
          PROVE  act'[Bot].at \in {"ask", "account"}
      BY <1>3, <1>6, <2>1, <3>1 DEF TelegramChat, Locals
    <3> QED BY <1>4, <2>1, <3>1 DEF TelegramChat
  <2>2. CASE TelegramID(Bot)
    <3>1. ASSUME NEW x, Do(Bot, [act[Bot] EXCEPT !.who = x, !.at = IF act[Bot].job = "add" THEN "known" ELSE "ask"])
          PROVE  act'[Bot].at \in {"known", "ask"}
      BY <1>3, <1>6, <2>2, <3>1 DEF TelegramID, Locals
    <3> QED BY <1>4, <2>2, <3>1 DEF TelegramID
  <2>3. CASE Insert(Bot) \/ Delete(Bot) \/ GetChat(Bot) \/ IsChatMember(Bot)
             \/ RemoveFromChatMemberList(Bot) \/ UserIdInvalid(Bot)
    <3>1. \/ End(Bot)
          \/ \E l \in {"chat", "account", "unlist", "list", "ban", "drop"} : Goto(Bot, l)
      BY <2>3 DEF Insert, Delete, GetChat, IsChatMember, RemoveFromChatMemberList, UserIdInvalid
    <3>2. act[Bot] \in Locals
      BY <1>6, <2>3 DEF Insert, Delete, GetChat, IsChatMember, RemoveFromChatMemberList, UserIdInvalid
    <3> QED BY <1>2, <1>4, <3>1, <3>2
  <2>4. CASE \/ GetChatFails(Bot) \/ ChatNotFound(Bot) \/ AddToChatMemberList(Bot) \/ Ban(Bot)
             \/ RemoveTelegramID(Bot)
    BY <1>4, <2>4 DEF GetChatFails, ChatNotFound, AddToChatMemberList, Ban, RemoveTelegramID
  <2> QED BY <1>13, <2>1, <2>2, <2>3, <2>4 DEF Remote
<1>14. CASE ListFails(Bot)
  <2>1. act[Bot] \in Locals
    BY ListFailsAct, <1>14
  <2>2. act'[Bot] = Idle \/ act'[Bot].at \in {"sender", "team", "list", "ban"}
    BY ListFailsAct, <1>14, <2>1 DEF Locals
  <2> QED BY <2>2 DEF Idle
<1> QED BY <1>5, <1>7, <1>8, <1>9, <1>10, <1>11, <1>12, <1>13, <1>14 DEF BotStep

\* The bot moves by its own steps only, or is ended.
LEMMA OthersLeaveBot ==
  ASSUME Core, \/ (\E h \in Handlers : Remote(h) \/ ListFails(h)) \/ Moves \/ Crash
               \/ \E a \in Actors : Stops(a)
  PROVE  act'[Bot] = act[Bot] \/ act'[Bot] = Idle
<1>1. ASSUME NEW h \in Handlers, Remote(h)
      PROVE  act'[Bot] = act[Bot]
  BY <1>1, RemoteAct, NoneType DEF Actors
<1>2. CASE Moves
  <2>1. UNCHANGED act \/ \E h \in Handlers : \E r : Do(h, r)
    BY <1>2 DEF Moves, Join, Leave, Say, RemoveBot, AddBot, DirectMessage, Paired, ChatGone,
       DeleteOperation, DeleteTeam, DeleteAgent, Cascade, Chown, AddAgent, RemoveAgent, Cleanup, Web
  <2> QED BY <2>1, BotActor, NoneType DEF Core, ActInv, Do
<1>3. CASE Crash
  BY <1>3, BotActor DEF Crash
<1>4. ASSUME NEW h \in Handlers, ListFails(h)
      PROVE  act'[Bot] = act[Bot]
  BY <1>4, ListFailsAct, NoneType DEF Actors
<1>5. ASSUME NEW a \in Actors, Stops(a)
      PROVE  act'[Bot] = act[Bot] \/ act'[Bot] = Idle
  BY <1>5, EndFits, BotActor DEF Core, Stops, NoBus, Fails
<1> QED BY <1>1, <1>2, <1>3, <1>4, <1>5

\* The two checks are steps of the bot.
LEMMA BotChecks == OwnsTeam \/ ChatToTeam => BotStep
BY DEF BotStep

LEMMA NextOwn == Types /\ OwnInv /\ [Next]_vars => OwnInv'
<1> SUFFICES ASSUME Types, OwnInv, [Next]_vars PROVE OwnInv'
  OBVIOUS
<1>0. Types'
  BY NextTypes
<1> SUFFICES ASSUME act'[Bot].at \in {"link", "unlink"}, act'[Bot].job \in {"link", "unlink"}
             PROVE  act'[Bot].team \in owned'
  <2>1. At(Bot, "link")' => act'[Bot].job = "link"
    BY <1>0, BotActor DEF Types, Core, ActInv, Shape, At
  <2> QED BY <2>1 DEF OwnInv, At
<1>1. act'[Bot] # Idle /\ Types'
  BY <1>0 DEF Idle
<1>2. CASE act'[Bot] = act[Bot]
  <2>1. act[Bot].team \in owned
    BY <1>2, BotActor DEF OwnInv, At, Types, Core, ActInv, Shape
  <2>2. owned \subseteq owned'
    BY <1>1, <1>2, NextParts DEF Watch, vars
  <2> QED BY <1>2, <2>1, <2>2
<1>3. CASE act'[Bot] # act[Bot]
  <2>1. Next
    BY <1>3 DEF vars
  <2>2. BotStep /\ (OwnsTeam \/ ChatToTeam)
    <3>1. ~OwnsTeam /\ ~ChatToTeam => ~(BotStep \/ ListFails(Bot))
      BY <1>1, BotArrives DEF Types
    <3>2. ~(\/ (\E h \in Handlers : Remote(h) \/ ListFails(h)) \/ Moves \/ Crash
            \/ \E a \in Actors : Stops(a))
      BY <1>1, <1>3, OthersLeaveBot DEF Types
    <3>3. BotStep \/ ListFails(Bot)
      BY <2>1, <3>2, NextParts DEF Failing, Actors
    <3> QED BY <3>1, <3>3, BotChecks
  <2>3. act[Bot].at # "idle" /\ act[Bot] \in Locals /\ Shape(act[Bot])
    BY <2>2, BotActor, Somewhere DEF OwnsTeam, ChatToTeam, At, Types, Core
  <2>4. ~End(Bot)
    BY <1>1, BotActor, EndFits DEF Types, Core
  <2>5. CASE ChatToTeam
    <3>1. act'[Bot].at = AfterTeam[act[Bot].job] /\ act'[Bot].job = act[Bot].job
      BY <2>3, <2>4, <2>5, BotActor DEF ChatToTeam, Do, Types, Core, ActInv, Locals
    <3> QED BY <2>3, <2>5, <3>1 DEF ChatToTeam, At, Shape, AfterTeam
  <2>6. CASE OwnsTeam
    <3>1. /\ owner[act[Bot].team] = act[Bot].gid /\ Goto(Bot, act[Bot].job)
          /\ owner' = owner /\ act[Bot].gid \in Agents /\ act[Bot].team \in Teams
      BY <2>3, <2>4, <2>6 DEF OwnsTeam, Asking, team, At, Shape
    <3>2. act'[Bot].job = act[Bot].job /\ act'[Bot].team = act[Bot].team /\ act'[Bot].gid = act[Bot].gid
      BY <2>3, <3>1, BotActor DEF Goto, Types, Core, ActInv, Locals
    <3>3. act'[Bot].team \in Owned'
      BY <1>1, <3>1, <3>2, NoneType DEF Owned
    <3> QED BY <2>1, <3>3, NextParts DEF Watch
  <2> QED BY <2>2, <2>5, <2>6
<1> QED BY <1>2, <1>3
-----------------------------------------------------------------------------
(* In the chat, and on the team *)

\* An actor that will put somebody of the agents G, who is account x in chat c, on
\* the team t that chat c is linked to; and one that will take him out of the chat.
Adds(r, x, c, G, t) ==
  /\ r.at \in {"message", "team", "subject", "insert"} /\ r.job = "add"
  /\ IF r.at = "insert" THEN r.gid \in G ELSE r.who = x /\ r.chat = c
  /\ r.at \in {"subject", "insert"} => r.team = t
Removes(r, x, c, G, t) ==
  /\ r.at \in {"chat", "account", "ask", "unlist", "ban", "drop"} /\ r.job = "remove"
  /\ r.gid \in G
  /\ IF r.at = "chat" THEN r.team = t ELSE r.chat = c
  /\ r.at \in {"ask", "unlist", "ban", "drop"} => r.who = x
Settles(r, x, c, G, t) == Adds(r, x, c, G, t) \/ Removes(r, x, c, G, t)

IsAdd(u, x, c) == u.job = "add" /\ u.who = x /\ u.chat = c

\* He is on the team, or his coming is to be dealt with yet, or somebody is about
\* to put him on the team or out of the chat.
OnTheTeam(x, c) == Gid(x) \subseteq members[linked[c]]
Explained(x, c) == \/ OnTheTeam(x, c)
                   \/ \E u \in Waiting : IsAdd(u, x, c)
                   \/ \E a \in Actors : Settles(act[a], x, c, Gid(x), linked[c])

RestInv == \A x \in Persons, c \in Chats : <<x, c>> \in inchat \ excused =>
             linked[c] # None /\ Gid(x) # {} /\ Explained(x, c)

\* What the history says of a step after which he is there without an excuse.
Calm(x, c) == /\ <<x, c>> \in inchat'
              /\ linked'[c] = linked[c] /\ linked[c] # None
              /\ Gid(x)' = Gid(x) /\ Gid(x) # {}

LEMMA WatchCalm ==
  ASSUME NEW lost, Watch(lost), NEW x \in Persons, NEW c \in Chats,
         <<x, c>> \in inchat' \ excused'
  PROVE  /\ Calm(x, c) /\ <<x, c>> \notin lost /\ <<x, c>> \notin excused
         /\ <<x, c>> \in inchat \/ c \notin gone
<1> DEFINE p == <<x, c>>
<1>1. p[1] = x /\ p[2] = c
  OBVIOUS
<1>2. ~(\/ p \in excused \cup lost \/ (p \notin inchat /\ c \in gone)
        \/ linked'[c] = None \/ linked'[c] # linked[c]
        \/ Gid(x)' = {} \/ Gid(x)' # Gid(x))
  BY <1>1 DEF Watch
<1> QED BY <1>2 DEF Calm

\* A step of one actor that keeps what it was about.
LEMMA ActorExplained ==
  ASSUME NEW x \in Persons, NEW c \in Chats, Calm(x, c), Explained(x, c), NEW a \in Actors,
         \A b \in Actors : b # a => act'[b] = act[b],
         OnTheTeam(x, c) => Explained(x, c)',
         \A u \in Waiting : IsAdd(u, x, c) => u \in Waiting' \/ Explained(x, c)',
         Settles(act[a], x, c, Gid(x), linked[c]) => Explained(x, c)'
  PROVE  Explained(x, c)'
<1>1. CASE \E u \in Waiting' : IsAdd(u, x, c)
  BY <1>1 DEF Explained
<1>2. CASE \E b \in Actors : b # a /\ Settles(act[b], x, c, Gid(x), linked[c])
  <2>1. PICK b \in Actors : b # a /\ Settles(act[b], x, c, Gid(x), linked[c])
    BY <1>2
  <2>2. Settles(act'[b], x, c, Gid(x)', linked'[c])
    BY <2>1 DEF Calm
  <2> QED BY <2>2 DEF Explained
<1> QED BY <1>1, <1>2 DEF Explained

LEMMA GidOne ==
  ASSUME NEW x \in Persons, NEW g \in Gid(x)
  PROVE  Gid(x) = {g} /\ x \in Holder(g) /\ row[x] # None /\ row[x].gid = g
BY DEF Gid, Holder

LEMMA InsertRest ==
  ASSUME Types, NEW x \in Persons, NEW c \in Chats, Calm(x, c), Explained(x, c), NEW a \in Actors,
         Insert(a) \/ Delete(a)
  PROVE  Explained(x, c)'
<1>1. /\ act[a] \in Locals /\ Shape(act[a]) /\ act[a].at \in {"insert", "delete"}
      /\ act'[a] = [act[a] EXCEPT !.at = "chat"]
      /\ \A b \in Actors : b # a => act'[b] = act[b]
      /\ Waiting' = Waiting
  BY Somewhere DEF Types, Core, ActInv, Insert, Delete, At, Goto, Waiting
<1>2. linked[c] \in Teams /\ act[a].team \in Teams
  BY <1>1 DEF Types, Core, LinkInv, Calm, Shape
<1>3. CASE Insert(a)
  <2>1. /\ act[a].at = "insert"
        /\ \A u \in Teams : members'[u] = IF u = act[a].team /\ owner[u] # None
                                          THEN members[u] \cup {act[a].gid} ELSE members[u]
    BY <1>2, <1>3 DEF Insert, At, Types, Core, TeamInv
  <2>2. OnTheTeam(x, c) => OnTheTeam(x, c)'
    BY <1>2, <2>1 DEF OnTheTeam, Calm
  <2>3. owner[linked[c]] # None
    BY DEF Calm, Types, Core, LinkInv
  <2>4. Settles(act[a], x, c, Gid(x), linked[c]) => OnTheTeam(x, c)'
    <3> SUFFICES ASSUME Settles(act[a], x, c, Gid(x), linked[c]) PROVE OnTheTeam(x, c)'
      OBVIOUS
    <3>1. act[a].gid \in Gid(x) /\ act[a].team = linked[c]
      BY <2>1 DEF Settles, Adds, Removes
    <3>2. members'[linked[c]] = members[linked[c]] \cup {act[a].gid}
      BY <1>2, <2>1, <2>3, <3>1
    <3>3. Gid(x) = {act[a].gid}
      BY <3>1, GidOne
    <3> QED BY <3>2, <3>3 DEF OnTheTeam, Calm
  <2> QED BY <1>1, <2>2, <2>4, ActorExplained DEF Explained
<1>4. CASE Delete(a)
  <2>1. members' = [members EXCEPT ![act[a].team] = @ \ {act[a].gid}] /\ act[a].at = "delete"
    BY <1>4 DEF Delete, At
  <2>2. ASSUME OnTheTeam(x, c)
        PROVE  Explained(x, c)'
    <3>1. CASE act[a].team = linked[c] /\ act[a].gid \in Gid(x)
      <4>1. Removes(act'[a], x, c, Gid(x)', linked'[c])
        BY <1>1, <2>1, <3>1 DEF Removes, Calm, Shape, Locals
      <4> QED BY <4>1 DEF Explained, Settles
    <3>2. CASE ~(act[a].team = linked[c] /\ act[a].gid \in Gid(x))
      <4>1. OnTheTeam(x, c)'
        BY <1>2, <2>1, <2>2, <3>2 DEF OnTheTeam, Calm, Types, Core, TeamInv
      <4> QED BY <4>1 DEF Explained
    <3> QED BY <3>1, <3>2
  <2>3. ~Settles(act[a], x, c, Gid(x), linked[c])
    BY <2>1 DEF Settles, Adds, Removes
  <2> QED BY <1>1, <2>2, <2>3, ActorExplained
<1> QED BY <1>3, <1>4

\* A step of one actor that changes no team and takes no update.
LEMMA QuietRest ==
  ASSUME NEW x \in Persons, NEW c \in Chats, Calm(x, c), Explained(x, c), NEW a \in Actors,
         \A b \in Actors : b # a => act'[b] = act[b],
         members' = members, Waiting \subseteq Waiting',
         Settles(act[a], x, c, Gid(x), linked[c]) => Settles(act'[a], x, c, Gid(x), linked[c])
  PROVE  Explained(x, c)'
<1>1. OnTheTeam(x, c) => Explained(x, c)'
  BY DEF OnTheTeam, Calm, Explained
<1>2. Settles(act[a], x, c, Gid(x), linked[c]) => Explained(x, c)'
  BY DEF Calm, Explained
<1> QED BY <1>1, <1>2, ActorExplained

LEMMA RemoteRest ==
  ASSUME Types, NEW x \in Persons, NEW c \in Chats, Calm(x, c), Explained(x, c), NEW a \in Actors,
         Remote(a)
  PROVE  Explained(x, c)'
<1> DEFINE G == Gid(x)
           t == linked[c]
<1>1. /\ act[a] \in Locals /\ Shape(act[a]) /\ act \in [Actors -> Locals \cup {Idle}]
      /\ \A b \in Actors : b # a => act'[b] = act[b]
  BY RemoteAct, Somewhere DEF Types, Core, ActInv, Remote, Insert, Delete, TelegramChat, TelegramID,
     GetChat, GetChatFails, ChatNotFound, IsChatMember, AddToChatMemberList, RemoveFromChatMemberList,
     Ban, UserIdInvalid, RemoveTelegramID, At
<1>2. CASE Insert(a) \/ Delete(a)
  BY <1>2, InsertRest
<1>3. ASSUME members' = members, Waiting \subseteq Waiting',
             Settles(act[a], x, c, G, t) => Settles(act'[a], x, c, G, t)
      PROVE  Explained(x, c)'
  BY <1>1, <1>3, QuietRest
<1>5. Ban(a) => members' = members /\ Waiting \subseteq Waiting'
  <2> SUFFICES ASSUME Ban(a) PROVE Waiting \subseteq Waiting' /\ members' = members
    OBVIOUS
  <2>1. act[a].chat \in Chats /\ act[a].who \in Persons
    BY <1>1 DEF Ban, At, Shape
  <2> DEFINE u == [job |-> "remove", who |-> act[a].who, by |-> None, chat |-> act[a].chat, team |-> None]
  <2>2. u \in Updates /\ UpShape(u)
    BY <2>1 DEF Updates, Jobs, UpShape
  <2>3. Tell(u) \/ upChan' = upChan
    BY DEF Ban, Tell
  <2> QED BY <2>2, <2>3, TellFits DEF Types, Core, Waiting, Ban, team
<1>6. CASE TelegramChat(a)
  <2>1. Settles(act[a], x, c, G, t) => Settles(act'[a], x, c, G, t)
    <3> SUFFICES ASSUME Settles(act[a], x, c, G, t) PROVE Settles(act'[a], x, c, G, t)
      OBVIOUS
    <3>1. act[a].at = "chat" /\ act[a].job = "remove" /\ act[a].gid \in G /\ act[a].team = t
      BY <1>6 DEF TelegramChat, At, Settles, Adds, Removes
    <3>2. Chat(act[a].team) = {c}
      BY <3>1 DEF Chat, Calm, Types, Core, LinkInv
    <3>3. act'[a] = [act[a] EXCEPT !.chat = c, !.at = "account"]
      BY <1>1, <1>6, <3>1, <3>2 DEF TelegramChat, Do
    <3> QED BY <1>1, <3>1, <3>3 DEF Settles, Removes, Locals
  <2> QED BY <1>3, <1>6, <2>1 DEF TelegramChat, team, telegram, Waiting
<1>7. CASE TelegramID(a)
  <2>1. Settles(act[a], x, c, G, t) => Settles(act'[a], x, c, G, t)
    <3> SUFFICES ASSUME Settles(act[a], x, c, G, t) PROVE Settles(act'[a], x, c, G, t)
      OBVIOUS
    <3>1. act[a].at = "account" /\ act[a].job = "remove" /\ act[a].gid \in G /\ act[a].chat = c
      BY <1>7 DEF TelegramID, At, Settles, Adds, Removes
    <3>2. Holder(act[a].gid) = {x}
      BY <3>1, GidOne DEF Holder, Types, Core, RowInv
    <3>3. act'[a] = [act[a] EXCEPT !.who = x, !.at = "ask"]
      BY <1>1, <1>7, <3>1, <3>2 DEF TelegramID, Do
    <3> QED BY <1>1, <3>1, <3>3 DEF Settles, Removes, Locals
  <2> QED BY <1>3, <1>7, <2>1 DEF TelegramID, team, telegram, Waiting
<1>8. CASE GetChat(a) \/ RemoveFromChatMemberList(a)
  <2>1. Settles(act[a], x, c, G, t) => Settles(act'[a], x, c, G, t)
    <3> SUFFICES ASSUME Settles(act[a], x, c, G, t) PROVE Settles(act'[a], x, c, G, t)
      OBVIOUS
    <3>1. /\ act[a].job = "remove" /\ act[a].gid \in G /\ act[a].chat = c /\ act[a].who = x
          /\ Goto(a, "unlist") \/ Goto(a, "ban")
      BY <1>8 DEF GetChat, RemoveFromChatMemberList, At, Settles, Adds, Removes
    <3>2. \/ act'[a] = [act[a] EXCEPT !.at = "unlist"]
          \/ act'[a] = [act[a] EXCEPT !.at = "ban"]
      BY <1>1, <3>1 DEF Goto
    <3> QED BY <1>1, <3>1, <3>2 DEF Settles, Removes, Locals
  <2> QED BY <1>3, <1>8, <2>1 DEF GetChat, RemoveFromChatMemberList, team, telegram, Waiting
<1>9. CASE UserIdInvalid(a)
  <2>1. Settles(act[a], x, c, G, t) => Settles(act'[a], x, c, G, t)
    <3> SUFFICES ASSUME Settles(act[a], x, c, G, t) PROVE Settles(act'[a], x, c, G, t)
      OBVIOUS
    <3>1. /\ act[a].job = "remove" /\ act[a].gid \in G /\ act[a].chat = c /\ act[a].who = x
          /\ Goto(a, "drop")
      BY <1>9 DEF UserIdInvalid, At, Settles, Adds, Removes
    <3>2. act'[a] = [act[a] EXCEPT !.at = "drop"]
      BY <1>1, <3>1 DEF Goto
    <3> QED BY <1>1, <3>1, <3>2 DEF Settles, Removes, Locals
  <2> QED BY <1>3, <1>9, <2>1 DEF UserIdInvalid, team, telegram, Waiting
<1>10. CASE ChatNotFound(a) \/ IsChatMember(a) \/ AddToChatMemberList(a)
  <2>1. ~Settles(act[a], x, c, G, t)
    BY <1>10 DEF ChatNotFound, IsChatMember, AddToChatMemberList, At, Settles, Adds, Removes
  <2> QED BY <1>3, <1>10, <2>1
          DEF ChatNotFound, IsChatMember, AddToChatMemberList, team, telegram, Waiting
<1>13. CASE GetChatFails(a)
  <2>1. c \notin gone
    BY <1>13 DEF GetChatFails, telegram, Calm, Types, Core, ThereInv
  <2>2. ~Settles(act[a], x, c, G, t)
    BY <1>13, <2>1 DEF GetChatFails, At, Settles, Adds, Removes
  <2> QED BY <1>3, <1>13, <2>2 DEF GetChatFails, team, telegram, Waiting
<1>11. CASE Ban(a)
  <2>1. ~Settles(act[a], x, c, G, t)
    BY <1>11 DEF Ban, At, Here, Calm, Settles, Adds, Removes
  <2> QED BY <1>3, <1>5, <1>11, <2>1
<1>12. CASE RemoveTelegramID(a)
  <2>1. ~Settles(act[a], x, c, G, t)
    <3> SUFFICES ASSUME Settles(act[a], x, c, G, t) PROVE FALSE
      OBVIOUS
    <3>1. act[a].gid \in G
      BY <1>12 DEF RemoveTelegramID, At, Settles, Adds, Removes
    <3>2. row'[x] = None
      BY <1>12, <3>1, GidOne DEF RemoveTelegramID
    <3> QED BY <3>2 DEF Calm, Gid
  <2> QED BY <1>3, <1>12, <2>1 DEF RemoveTelegramID, team, telegram, Waiting
<1> QED BY <1>2, <1>6, <1>7, <1>8, <1>9, <1>10, <1>11, <1>12, <1>13 DEF Remote

LEMMA BotRest ==
  ASSUME Types, NEW x \in Persons, NEW c \in Chats, Calm(x, c), Explained(x, c), BotStep
  PROVE  Explained(x, c)'
<1> DEFINE G == Gid(x)
           t == linked[c]
<1>1. act \in [Actors -> Locals \cup {Idle}]
  BY DEF Types, Core, ActInv
<1> USE BotActor
<1>2. ASSUME ~Remote(Bot)
      PROVE  /\ \A b \in Actors : b # Bot => act'[b] = act[b]
             /\ members' = members /\ (RunUpdate \/ upChan' = upChan)
  BY <1>1, <1>2 DEF BotStep, RunUpdate, ProcessChatMessage, Sender, ChatToTeam, ChatResponses, OwnsTeam,
     ChatCommand, GcLink, GcUnlink, GcTask, GidV, FirstLogin, InitAgent, VerifyAgent, Asking, team, Do,
     Goto, End
<1>3. ASSUME ~Remote(Bot), ~RunUpdate,
             Settles(act[Bot], x, c, G, t) => Settles(act'[Bot], x, c, G, t)
      PROVE  Explained(x, c)'
  <2>1. Waiting' = Waiting
    BY <1>2, <1>3 DEF Waiting
  <2> QED BY <1>2, <1>3, <2>1, QuietRest
<1>4. CASE Remote(Bot)
  BY <1>4, RemoteRest
<1>5. CASE RunUpdate /\ ~Remote(Bot)
  <2> DEFINE u == Head(upChan)
  <2>1. Waiting = Waiting' \cup {u} /\ u \in Updates
    BY <1>5, RunUpdateCore DEF Types
  <2>2. ~Settles(act[Bot], x, c, G, t)
    BY <1>5 DEF RunUpdate, Idle, Settles, Adds, Removes
  <2>3. ASSUME IsAdd(u, x, c)
        PROVE  Explained(x, c)'
    <3>1. /\ act'[Bot].at = "message" /\ act'[Bot].job = "add"
          /\ act'[Bot].who = x /\ act'[Bot].chat = c
      BY <1>1, <1>5, <2>3 DEF RunUpdate, Do, IsAdd
    <3>2. Settles(act'[Bot], x, c, Gid(x)', linked'[c])
      BY <3>1 DEF Settles, Adds
    <3> QED BY <3>2 DEF Explained
  <2>4. OnTheTeam(x, c) => Explained(x, c)'
    BY <1>2, <1>5 DEF OnTheTeam, Calm, Explained
  <2> QED BY <1>2, <1>5, <2>1, <2>2, <2>3, <2>4, ActorExplained
<1>6. CASE ProcessChatMessage /\ ~Remote(Bot) /\ ~RunUpdate
  <2> SUFFICES ASSUME Settles(act[Bot], x, c, G, t) PROVE Settles(act'[Bot], x, c, G, t)
    BY <1>3, <1>6
  <2>1. /\ act[Bot] \in Locals /\ act[Bot].at = "message" /\ act[Bot].job = "add"
        /\ act[Bot].who = x /\ act[Bot].chat = c
    BY <1>1, <1>6 DEF ProcessChatMessage, At, Settles, Adds, Removes, Idle
  <2>2. act'[Bot] = [act[Bot] EXCEPT !.at = "team"]
    BY <1>1, <1>6, <2>1 DEF ProcessChatMessage, ChatCommand, Goto
  <2> QED BY <2>1, <2>2 DEF Settles, Adds, Locals
<1>7. CASE ChatToTeam /\ ~Remote(Bot) /\ ~RunUpdate
  <2> SUFFICES ASSUME Settles(act[Bot], x, c, G, t) PROVE Settles(act'[Bot], x, c, G, t)
    BY <1>3, <1>7
  <2>1. /\ act[Bot] \in Locals /\ act[Bot].at = "team" /\ act[Bot].job = "add"
        /\ act[Bot].who = x /\ act[Bot].chat = c
    BY <1>1, <1>7 DEF ChatToTeam, At, Settles, Adds, Removes, Idle
  <2>2. act'[Bot] = [act[Bot] EXCEPT !.team = t, !.at = "subject"]
    BY <1>1, <1>7, <2>1 DEF ChatToTeam, Do, Calm, AfterTeam
  <2> QED BY <2>1, <2>2 DEF Settles, Adds, Locals
<1>8. CASE ChatResponses /\ ~Remote(Bot) /\ ~RunUpdate
  <2> SUFFICES ASSUME Settles(act[Bot], x, c, G, t) PROVE Settles(act'[Bot], x, c, G, t)
    BY <1>3, <1>8
  <2>1. /\ act[Bot] \in Locals /\ act[Bot].at = "subject" /\ act[Bot].job = "add"
        /\ act[Bot].who = x /\ act[Bot].team = t
    <3>1. act[Bot].at = "subject"
      BY <1>8 DEF ChatResponses, At
    <3> QED BY <3>1, Somewhere DEF Types, Core, Settles, Adds, Removes
  <2>2. PICK g \in G : act'[Bot] = [act[Bot] EXCEPT !.gid = g, !.at = "insert"]
    BY <1>1, <1>8, <2>1 DEF ChatResponses, Do, Calm
  <2> QED BY <2>1, <2>2 DEF Settles, Adds, Locals
<1>9. CASE /\ Sender \/ OwnsTeam \/ GcLink \/ GcUnlink \/ GcTask
              \/ GidV \/ FirstLogin \/ InitAgent \/ VerifyAgent
           /\ ~Remote(Bot) /\ ~RunUpdate
  <2>1. ~Settles(act[Bot], x, c, G, t)
    BY <1>9 DEF Sender, OwnsTeam, GcLink, GcUnlink, GcTask, GidV, FirstLogin, InitAgent, VerifyAgent,
       At, Settles, Adds, Removes
  <2> QED BY <1>3, <1>9, <2>1
<1> QED BY <1>4, <1>5, <1>6, <1>7, <1>8, <1>9 DEF BotStep

\* Who comes into a chat is announced.
LEMMA JoinAnnounced ==
  ASSUME Types, NEW x \in Persons, NEW c \in Chats, Join(x, c)
  PROVE  \E u \in Waiting' : IsAdd(u, x, c)
<1>1. PICK by \in {x} \cup Present(c) : Tell(Update("add", x, by, c, None))
  BY DEF Join
<1> DEFINE u == Update("add", x, by, c, None)
<1>2. u \in Updates /\ UpShape(u) /\ IsAdd(u, x, c)
  BY DEF Present, Update, Updates, UpShape, IsAdd, Jobs
<1> HIDE DEF u
<1>3. Tell(u)
  BY <1>1 DEF u
<1> QED BY <1>2, <1>3, TellFits DEF Types, Core

\* What the keys take along is not the team of his chat, nor his agent's.
LEMMA CascadeRest ==
  ASSUME Types, NEW x \in Persons, NEW c \in Chats, Calm(x, c), Explained(x, c),
         NEW ts, NEW gs, Cascade(ts, gs), Gid(x) \cap gs = {}
  PROVE  Explained(x, c)'
<1>1. linked[c] \in Teams /\ linked[c] \notin ts
  BY NoneType DEF Types, Core, LinkInv, Calm, Cascade, Drop
<1>2. members'[linked[c]] = members[linked[c]] \ gs
  BY <1>1 DEF Cascade
<1>3. OnTheTeam(x, c) => Explained(x, c)'
  BY <1>2 DEF OnTheTeam, Calm, Explained
<1>4. act' = act /\ Waiting' = Waiting
  BY DEF Cascade, Waiting
<1>5. \A a \in Actors : Settles(act[a], x, c, Gid(x), linked[c]) => Explained(x, c)'
  BY <1>4 DEF Calm, Explained
<1> QED BY <1>3, <1>4, <1>5, BotActor, ActorExplained

LEMMA DeletionRest ==
  ASSUME Types, NEW x \in Persons, NEW c \in Chats, Calm(x, c), Explained(x, c),
         (\E t \in Teams : DeleteTeam(t)) \/ (\E g \in Agents : DeleteAgent(g))
  PROVE  Explained(x, c)'
<1>1. ASSUME NEW g \in Agents, DeleteAgent(g)
      PROVE  Explained(x, c)'
  <2>1. g \notin Gid(x)
    <3> SUFFICES ASSUME g \in Gid(x) PROVE FALSE
      OBVIOUS
    <3>1. row'[x] = None
      BY <1>1, GidOne DEF DeleteAgent
    <3> QED BY <3>1 DEF Calm, Gid
  <2>2. Gid(x) \cap {g} = {}
    BY <2>1
  <2> QED BY <1>1, <2>2, CascadeRest DEF DeleteAgent
<1>2. ASSUME NEW t \in Teams, DeleteTeam(t)
      PROVE  Explained(x, c)'
  BY <1>2, CascadeRest DEF DeleteTeam
<1> QED BY <1>1, <1>2

LEMMA MovesRest ==
  ASSUME Types, NEW x \in Persons, NEW c \in Chats, Calm(x, c), Explained(x, c), Moves
  PROVE  Explained(x, c)'
<1> SUFFICES ASSUME ~((\E t \in Teams : DeleteTeam(t)) \/ (\E g \in Agents : DeleteAgent(g)))
             PROVE  Explained(x, c)'
  BY DeletionRest
<1>0. /\ \A t \in Teams : ~DeleteTeam(t)
      /\ \A g \in Agents : ~DeleteAgent(g)
  OBVIOUS
<1>1. members' = members /\ Waiting \subseteq Waiting'
  <2>1. upChan' = upChan \/ \E u \in Updates : UpShape(u) /\ Tell(u)
    <3>1. ASSUME NEW job \in Jobs \ {"clean"}, NEW y \in Persons \cup {None}, NEW by \in Persons,
                 NEW d \in Chats \cup {None}, NEW t \in Teams \cup {None},
                 job # "dm" => d \in Chats, job = "link" => t \in Teams,
                 job \in {"add", "remove"} => y \in Persons
          PROVE  Update(job, y, by, d, t) \in Updates /\ UpShape(Update(job, y, by, d, t))
      BY <3>1 DEF Update, Updates, UpShape
    <3>2. ASSUME NEW y \in Persons, NEW d \in Chats, Join(y, d)
          PROVE  \E u \in Updates : UpShape(u) /\ Tell(u)
      <4>1. PICK by \in {y} \cup Present(d) : Tell(Update("add", y, by, d, None))
        BY <3>2 DEF Join
      <4>2. by \in Persons
        BY DEF Present
      <4> QED BY <3>1, <4>1, <4>2 DEF Jobs
    <3>3. ASSUME NEW y \in Persons, NEW d \in Chats,
                 Leave(y, d) \/ Say(y, d) \/ RemoveBot(y, d) \/ AddBot(y, d)
          PROVE  \E u \in Updates : UpShape(u) /\ Tell(u)
      BY <3>1, <3>3 DEF Leave, Say, RemoveBot, AddBot, Jobs
    <3>4. ASSUME NEW y \in Persons, DirectMessage(y)
          PROVE  \E u \in Updates : UpShape(u) /\ Tell(u)
      BY <3>1, <3>4 DEF DirectMessage, Jobs
    <3> QED BY <1>0, <3>2, <3>3, <3>4 DEF Moves, Paired, ChatGone, DeleteOperation, Chown, AddAgent,
            RemoveAgent, Cleanup, Web
  <2>2. Waiting \subseteq Waiting'
    BY <2>1, TellFits DEF Types, Core, Waiting
  <2> QED BY <1>0, <2>2 DEF Moves, Join, Leave, Say, RemoveBot, AddBot, DirectMessage, Paired, ChatGone,
          DeleteOperation, Chown, AddAgent, RemoveAgent, Cleanup, Web, team
<1>2. CASE act' = act
  BY <1>1, <1>2, BotActor, QuietRest
<1>3. CASE act' # act
  <2>1. PICK h \in Handlers : act[h] = Idle /\ \E r : Do(h, r)
    BY <1>0, <1>3 DEF Moves, Join, Leave, Say, RemoveBot, AddBot, DirectMessage, Paired, ChatGone,
       DeleteOperation, Chown, AddAgent, RemoveAgent, Cleanup, Web
  <2>2. ~Settles(act[h], x, c, Gid(x), linked[c])
    BY <2>1 DEF Idle, Settles, Adds, Removes
  <2>3. h \in Actors /\ \A b \in Actors : b # h => act'[b] = act[b]
    BY <2>1 DEF Do, Types, Core, ActInv, Actors
  <2> QED BY <1>1, <2>2, <2>3, QuietRest
<1> QED BY <1>2, <1>3

\* Whom an actor settles, or an update announces, is unsettled until he is on the team.
LEMMA WhoIsUnsettled ==
  ASSUME Types, NEW x \in Persons, NEW c \in Chats, Calm(x, c), <<x, c>> \in inchat, ~OnTheTeam(x, c),
         NEW actors \in SUBSET Actors, NEW updates,
         \/ \E u \in updates : IsAdd(u, x, c)
         \/ \E a \in actors : Settles(act[a], x, c, Gid(x), linked[c])
  PROVE  <<x, c>> \in Unsettled(actors, updates)
<1> DEFINE p == <<x, c>>
<1>1. p[1] = x /\ p[2] = c /\ p \in inchat
  OBVIOUS
<1>2. linked[c] # None /\ ~(Gid(x) \subseteq members[linked[c]])
  BY DEF Calm, OnTheTeam
<1> HIDE DEF p
<1>3. CASE \E u \in updates : IsAdd(u, x, c)
  BY <1>1, <1>2, <1>3 DEF Unsettled, IsAdd, p
<1>4. ASSUME NEW a \in actors, Settles(act[a], x, c, Gid(x), linked[c])
      PROVE  p \in Unsettled(actors, updates)
  <2>1. act[a] # Idle /\ act[a].job \in {"add", "remove"}
    BY <1>4 DEF Settles, Adds, Removes, Idle
  <2>2. act[a].who = x \/ act[a].gid \in Gid(x)
    BY <1>4 DEF Settles, Adds, Removes
  <2>3. act[a].chat = c \/ act[a].team = linked[c]
    BY <1>4 DEF Settles, Adds, Removes
  <2> QED BY <1>1, <1>2, <2>1, <2>2, <2>3 DEF Unsettled
<1> QED BY <1>3, <1>4 DEF p

\* Whom a crash leaves unsettled is excused, so who is not was on the team.
LEMMA CrashRest ==
  ASSUME Types, NEW x \in Persons, NEW c \in Chats, Calm(x, c), Explained(x, c), Crash,
         <<x, c>> \in inchat, <<x, c>> \notin Unsettled(Actors, Waiting)
  PROVE  Explained(x, c)'
<1>1. OnTheTeam(x, c)
  BY WhoIsUnsettled DEF Explained
<1>2. OnTheTeam(x, c)'
  BY <1>1 DEF OnTheTeam, Calm, Crash, team
<1> QED BY <1>2 DEF Explained

\* Likewise whom an actor leaves unsettled that stops.
LEMMA StopsRest ==
  ASSUME Types, NEW x \in Persons, NEW c \in Chats, Calm(x, c), Explained(x, c), NEW a \in Actors,
         Stops(a), <<x, c>> \in inchat, <<x, c>> \notin Unsettled({a}, {})
  PROVE  Explained(x, c)'
<1>1. /\ \A b \in Actors : b # a => act'[b] = act[b]
      /\ members' = members /\ Waiting' = Waiting
  BY FailingCore DEF Types, Failing, Stops, NoBus, Fails, team, Waiting
<1>2. OnTheTeam(x, c) => Explained(x, c)'
  BY <1>1 DEF OnTheTeam, Calm, Explained
<1>3. ~OnTheTeam(x, c) => ~Settles(act[a], x, c, Gid(x), linked[c])
  BY WhoIsUnsettled
<1> QED BY <1>1, <1>2, <1>3, ActorExplained

LEMMA ListFailsRest ==
  ASSUME Types, NEW x \in Persons, NEW c \in Chats, Calm(x, c), Explained(x, c), NEW a \in Actors,
         ListFails(a)
  PROVE  Explained(x, c)'
<1>1. /\ \A b \in Actors : b # a => act'[b] = act[b]
      /\ members' = members /\ Waiting' = Waiting
      /\ act[a] \in Locals /\ act \in [Actors -> Locals \cup {Idle}]
  BY ListFailsAct DEF Types, Core, ActInv, ListFails, team, telegram, Waiting
<1>2. ASSUME Settles(act[a], x, c, Gid(x), linked[c])
      PROVE  Settles(act'[a], x, c, Gid(x), linked[c])
  <2>1. CASE act[a].at = "message"
    <3>1. act[a].job = "add" /\ act[a].who = x /\ act[a].chat = c
      BY <1>2, <2>1 DEF Settles, Adds, Removes
    <3>2. act'[a] = [act[a] EXCEPT !.at = "team"]
      BY <1>1, <2>1, <3>1 DEF ListFails, ChatCommand, At, Goto
    <3> QED BY <1>1, <3>1, <3>2 DEF Settles, Adds, Locals
  <2>2. CASE act[a].at = "unlist"
    <3>1. act[a].job = "remove" /\ act[a].gid \in Gid(x) /\ act[a].who = x /\ act[a].chat = c
      BY <1>2, <2>2 DEF Settles, Adds, Removes
    <3>2. act'[a] = [act[a] EXCEPT !.at = "ban"]
      BY <1>1, <2>2 DEF ListFails, At, Goto
    <3> QED BY <1>1, <3>1, <3>2 DEF Settles, Removes, Locals
  <2>3. act[a].at \in {"message", "unlist"}
    BY <1>2 DEF ListFails, At, Settles, Adds, Removes
  <2> QED BY <2>1, <2>2, <2>3
<1> QED BY <1>1, <1>2, QuietRest

\* A step, somebody who stops, or a crash.
LEMMA StopOrStep ==
  ASSUME Next
  PROVE  \/ (BotStep \/ Moves \/ \E h \in Handlers : Remote(h)) /\ Watch({})
         \/ (\E a \in Actors : ListFails(a)) /\ Watch({})
         \/ \E a \in Actors : Stops(a) /\ Watch(Unsettled({a}, {}))
         \/ Crash /\ Watch(Unsettled(Actors, Waiting))
BY DEF Next, Step, Stops

LEMMA OnlyJoin ==
  ASSUME Types, NEW x \in Persons, NEW c \in Chats \ gone, <<x, c>> \notin inchat, <<x, c>> \in inchat',
         \/ BotStep \/ (\E h \in Handlers : Remote(h)) \/ Moves \/ Crash
         \/ \E a \in Actors : Failing(a)
  PROVE  Join(x, c)
<1>1. \A a \in Actors : Remote(a) => inchat' \subseteq inchat
  BY DEF Remote, Insert, Delete, TelegramChat, TelegramID, GetChat, GetChatFails, ChatNotFound,
     IsChatMember, AddToChatMemberList, RemoveFromChatMemberList, Ban, UserIdInvalid,
     RemoveTelegramID, telegram
<1>2. CASE BotStep
  BY <1>1, <1>2, BotActor DEF BotStep, RunUpdate, ProcessChatMessage, Sender, ChatToTeam, ChatResponses,
     OwnsTeam, GcLink, GcUnlink, GcTask, GidV, FirstLogin, InitAgent, VerifyAgent, Asking, telegram
<1>4. CASE \E a \in Actors : Failing(a)
  BY <1>4 DEF Failing, Stops, NoBus, Fails, ListFails, telegram
<1>3. CASE Moves
  <2>1. ASSUME NEW y \in Persons, NEW d \in Chats, Join(y, d)
        PROVE  y = x /\ d = c
    BY <2>1 DEF Join
  <2>2. ASSUME NEW y \in Persons, NEW d \in Chats, AddBot(y, d)
        PROVE  d # c /\ \A p \in inchat' : p \in inchat \/ p[2] = d
    BY <2>2 DEF AddBot
  <2>3. \/ inchat' \subseteq inchat \/ \E y \in Persons, d \in Chats : Join(y, d) \/ AddBot(y, d)
    BY <1>3 DEF Moves, Leave, Say, RemoveBot, DirectMessage, Paired, ChatGone, DeleteOperation,
       DeleteTeam, DeleteAgent, Cascade, Chown, AddAgent, RemoveAgent, Cleanup, Web, telegram
  <2> QED BY <2>1, <2>2, <2>3
<1> QED BY <1>1, <1>2, <1>3, <1>4 DEF Crash, telegram, Actors

LEMMA InitRest == Init => RestInv
<1> SUFFICES ASSUME Init, NEW x \in Persons, NEW c \in Chats, <<x, c>> \in inchat \ excused
             PROVE  linked[c] # None /\ Gid(x) # {} /\ Explained(x, c)
  BY DEF RestInv
<1>1. linked[c] # None /\ Gid(x) \cap members[linked[c]] # {}
  BY DEF Init
<1>2. Gid(x) # {} /\ OnTheTeam(x, c)
  BY <1>1, GidOne DEF OnTheTeam
<1> QED BY <1>1, <1>2 DEF Explained

\* Who is there after the step without an excuse has just come, or was there.
LEMMA NextRest == Types /\ RestInv /\ [Next]_vars => RestInv'
<1> SUFFICES ASSUME Types, RestInv, [Next]_vars PROVE RestInv'
  OBVIOUS
<1>1. CASE UNCHANGED vars
  BY <1>1 DEF vars, team, links, telegram, RestInv, Gid, Explained, OnTheTeam, Waiting
<1>2. CASE Next
  <2> SUFFICES ASSUME NEW x \in Persons, NEW c \in Chats, <<x, c>> \in inchat' \ excused'
               PROVE  linked'[c] # None /\ Gid(x)' # {} /\ Explained(x, c)'
    BY DEF RestInv
  <2>1. /\ Calm(x, c) /\ <<x, c>> \notin excused
        /\ <<x, c>> \in inchat \/ c \notin gone
    BY <1>2, NextParts, WatchCalm
  <2>2. Explained(x, c)'
    <3>1. CASE <<x, c>> \in inchat
      <4>1. Explained(x, c)
        BY <2>1, <3>1 DEF RestInv
      <4>2. CASE Crash /\ Watch(Unsettled(Actors, Waiting))
        BY <2>1, <3>1, <4>1, <4>2, WatchCalm, CrashRest
      <4>3. CASE BotStep \/ Moves \/ \E h \in Handlers : Remote(h)
        BY <2>1, <4>1, <4>3, BotRest, MovesRest, RemoteRest DEF Actors
      <4>4. ASSUME NEW a \in Actors, Stops(a), Watch(Unsettled({a}, {}))
            PROVE  Explained(x, c)'
        BY <2>1, <3>1, <4>1, <4>4, WatchCalm, StopsRest
      <4>5. CASE \E a \in Actors : ListFails(a)
        BY <2>1, <4>1, <4>5, ListFailsRest
      <4> QED BY <1>2, <4>2, <4>3, <4>4, <4>5, StopOrStep
    <3>2. CASE <<x, c>> \notin inchat
      <4>1. Join(x, c)
        BY <1>2, <2>1, <3>2, NextParts, OnlyJoin DEF Calm
      <4> QED BY <4>1, JoinAnnounced DEF Explained
    <3> QED BY <3>1, <3>2
  <2> QED BY <2>1, <2>2 DEF Calm
<1> QED BY <1>1, <1>2
-----------------------------------------------------------------------------
(* Theorems *)

IInv == Types /\ OwnInv /\ RestInv

\* The invariant above holds whatever the bot, the web, Telegram and the crashes do.
THEOREM Invariant == Spec => []IInv
<1>1. Init => IInv
  <2>1. Init => OwnInv
    BY BotActor DEF Init, OwnInv, At, Idle
  <2> QED BY <2>1, InitTypes, InitRest DEF IInv
<1>2. IInv /\ [Next]_vars => IInv'
  BY NextTypes, NextOwn, NextRest DEF IInv
<1> QED BY <1>1, <1>2, PTL DEF Spec

\* Every variable keeps its type: an account is one agent's and an agent has one
\* account, a chat is one team's and a team has one chat, lists and operations hang
\* on linked chats only (SetTelegramID, LinkToTelegramChat and the keys of the tables).
THEOREM TypeCorrect == Spec => []TypeOK
<1>1. IInv => TypeOK
  BY DEF IInv, Types
<1> QED BY <1>1, Invariant, PTL

\* Once all is dealt with, who came into a team's chat with a verified account is on
\* the team, or excused: a failure, a crash or Telegram's silence concerned him, or his
\* chat or his account changed hands (chatResponses, removeFromChat and the web routes).
THEOREM ChatAndTeamAgree == Spec => []AgreeAtRest
<1>1. IInv => AgreeAtRest
  <2> SUFFICES ASSUME IInv, Resting, NEW p \in inchat \ excused
               PROVE  Gid(p[1]) \subseteq members[linked[p[2]]]
    BY DEF AgreeAtRest
  <2>1. PICK x \in Persons, c \in Chats : p = <<x, c>>
    BY DEF IInv, Types, Core, ThereInv
  <2>2. Explained(x, c)
    BY <2>1 DEF IInv, RestInv
  <2>3. Waiting = {}
    BY DEF Resting, Waiting
  <2>4. \A a \in Actors : ~Settles(act[a], x, c, Gid(x), linked[c])
    BY DEF Resting, Idle, Settles, Adds, Removes
  <2>5. OnTheTeam(x, c)
    BY <2>2, <2>3, <2>4 DEF Explained
  <2> QED BY <2>1, <2>5 DEF OnTheTeam
<1> QED BY <1>1, Invariant, PTL

\* Which steps touch a chat's link.
LEMMA WhoLinks ==
  ASSUME Types, Next, NEW c \in Chats, linked'[c] # linked[c]
  PROVE  \/ GcLink \/ GcUnlink
         \/ \E a \in Actors : ChatNotFound(a)
         \/ \E d \in Chats : DeleteOperation(d)
         \/ (\E t \in Teams : DeleteTeam(t)) \/ (\E g \in Agents : DeleteAgent(g))
<1>1. \A a \in Actors : Remote(a) => ChatNotFound(a)
  BY DEF Remote, Insert, Delete, TelegramChat, TelegramID, GetChat, GetChatFails, ChatNotFound,
     IsChatMember, AddToChatMemberList, RemoveFromChatMemberList, Ban, UserIdInvalid,
     RemoveTelegramID, links
<1>2. CASE BotStep
  BY <1>1, <1>2, BotActor DEF BotStep, RunUpdate, ProcessChatMessage, Sender, ChatToTeam, ChatResponses,
     OwnsTeam, GcTask, GidV, FirstLogin, InitAgent, VerifyAgent, Asking, links
<1>3. CASE Moves
  BY <1>3 DEF Moves, Join, Leave, Say, RemoveBot, AddBot, DirectMessage, Paired, ChatGone, Chown,
       AddAgent, RemoveAgent, Cleanup, Web, links
<1>4. CASE \E a \in Actors : Failing(a)
  BY <1>4 DEF Failing, Stops, NoBus, Fails, ListFails, links
<1> QED BY <1>1, <1>2, <1>3, <1>4, NextParts DEF Crash, links, Actors

\* A chat is linked, and its link taken away, on the word of somebody who owned the
\* team while the bot dealt with him, and for the other reasons named there and none
\* else (gcLink, gcUnlink, UnlinkFromTelegramChat, LinkToTelegramChat).
THEOREM OwnersLink == Spec => LinksFollowOwners
<1>1. IInv /\ [Next]_vars =>
        [\A c \in Chats : linked'[c] # linked[c] =>
           \/ linked'[c] \in owned
           \/ linked'[c] = None /\ (\/ linked[c] \in owned
                                    \/ act[Bot] # Idle /\ act[Bot].job = "out" /\ act[Bot].team = linked[c]
                                    \/ \E a \in Actors : At(a, "ask") /\ act[a].team = linked[c] /\ act[a].chat \in gone
                                    \/ c \in withOp
                                    \/ owner'[linked[c]] = None)]_vars
  <2> SUFFICES ASSUME IInv, Next, NEW c \in Chats, linked'[c] # linked[c]
               PROVE  \/ linked'[c] \in owned
                      \/ linked'[c] = None /\ (\/ linked[c] \in owned
                                               \/ act[Bot] # Idle /\ act[Bot].job = "out" /\ act[Bot].team = linked[c]
                                               \/ \E a \in Actors : At(a, "ask") /\ act[a].team = linked[c] /\ act[a].chat \in gone
                                               \/ c \in withOp
                                               \/ owner'[linked[c]] = None)
    BY DEF vars, links
  <2>1. CASE GcLink
    <3>1. act[Bot].team \in owned
      BY <2>1 DEF IInv, OwnInv, GcLink
    <3> QED BY <2>1, <3>1 DEF GcLink, LinkToTelegramChat, Chat, links
  <2>2. CASE GcUnlink
    <3>1. linked'[c] = None /\ linked[c] = act[Bot].team
      BY <2>2 DEF GcUnlink, UnlinkFromTelegramChat, Drop, Chat
    <3>2. act[Bot] # Idle /\ act[Bot].job \in {"unlink", "out"}
      BY <2>2, BotActor DEF IInv, Types, Core, ActInv, Shape, GcUnlink, At, Idle
    <3>3. act[Bot].job = "unlink" => act[Bot].team \in owned
      BY <2>2 DEF IInv, OwnInv, GcUnlink
    <3> QED BY <3>1, <3>2, <3>3
  <2>3. ASSUME NEW a \in Actors, ChatNotFound(a)
        PROVE  /\ linked'[c] = None
               /\ At(a, "ask") /\ act[a].team = linked[c] /\ act[a].chat \in gone
    BY <2>3 DEF ChatNotFound, UnlinkFromTelegramChat, Drop, Chat
  <2>4. ASSUME NEW d \in Chats, DeleteOperation(d)
        PROVE  linked'[c] = None /\ c \in withOp
    BY <2>4 DEF DeleteOperation, Drop
  <2>5. CASE (\E t \in Teams : DeleteTeam(t)) \/ (\E g \in Agents : DeleteAgent(g))
    <3>1. ASSUME NEW ts, NEW gs, Cascade(ts, gs)
          PROVE  linked'[c] = None /\ owner'[linked[c]] = None
      <4>1. linked'[c] = None /\ linked[c] \in ts
        BY <3>1 DEF Cascade, Drop
      <4>2. linked[c] \in Teams
        BY <4>1 DEF IInv, Types, Core, LinkInv
      <4> QED BY <3>1, <4>1, <4>2 DEF Cascade
    <3> QED BY <2>5, <3>1 DEF DeleteTeam, DeleteAgent
  <2> QED BY <2>1, <2>2, <2>3, <2>4, <2>5, WhoLinks DEF IInv
<1> QED BY <1>1, Invariant, PTL DEF Spec, LinksFollowOwners
=============================================================================
