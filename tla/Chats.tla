------------------------------- MODULE Chats -------------------------------
(***************************************************************************)
(* Telegram accounts and group chats.  The bot's loop takes one update of   *)
(* Telegram after another: direct messages pair an account with an agent,   *)
(* commands in a chat link it to a team and unlink it, who joins or leaves  *)
(* a linked chat joins or leaves the team.  The other way round, whoever is *)
(* added to a team is invited to its chat and whoever is removed is banned  *)
(* from it, by the bot and by the handlers of the web routes alike; a ban   *)
(* comes back to the bot as an update.  One action is one SQL statement or  *)
(* one call to Telegram, and each may fail.  What the bot says goes to       *)
(* SendQueue.                                                               *)
(* Tables: telegram (row), telegramteam (linked, withOp, one chat per team  *)
(* and one team per chat), telegramchatmembers (listed).                    *)
(***************************************************************************)
EXTENDS Naturals, Sequences, FiniteSets

CONSTANTS Agents, Persons,   \* Google IDs, Telegram IDs
          Teams, Chats, Handlers,
          Bot,               \* the loop of Start
          None,              \* nobody, nothing
          Rosters,           \* who may be on a team at first
          MaxMoves           \* bound: what users, web clients and the services do, and failures

ASSUME NoneType   == Bot \notin Handlers /\ None \notin Agents \cup Persons \cup Teams \cup Chats
ASSUME BoundsType == MaxMoves \in Nat /\ Rosters \subseteq SUBSET Agents

VARIABLES
  row,       \* [gid, verified], or None
  owner,     \* team.owner, None: the team has been deleted
  members,   \* agentteams
  linked,    \* the team of each chat, or None
  withOp,    \* chats linked with an operation
  listed,    \* who has been seen in, or invited to, which linked chat
  gone,      \* Telegram: chats that are not there for the bot (any more)
  inchat,    \* Telegram: who is in which of the others
  upChan,    \* updates waiting for the bot
  act,       \* locals of the bot and of the web handlers
  owned,     \* history: teams the sender has owned since the bot took his message
  excused,   \* history: who is in a chat for a reason Telegram did not tell, see AgreeAtRest
  moves      \* how much of what MaxMoves bounds there has been

links    == <<linked, withOp, listed>>
telegram == <<inchat, gone>>
team     == <<owner, members>>
vars     == <<row, team, links, telegram, upChan, act, owned, excused, moves>>

Actors == Handlers \cup {Bot}
Jobs   == {"add", "remove", "out", "link", "unlink", "task", "text", "dm", "clean"}
Places == {"message", "team", "sender", "subject", "owns", "link", "unlink", "task",
           "insert", "delete", "chat", "ask", "account", "known", "list", "unlist",
           "ban", "drop", "dm", "new", "init", "verify"}

\* by: who sent the message; None: the bot itself.  team: what /link names.
Updates == [job : Jobs, who : Persons \cup {None}, by : Persons \cup {None},
            chat : Chats \cup {None}, team : Teams \cup {None}]
Idle    == [at |-> "idle"]
Locals  == [at : Places, job : Jobs, who : Persons \cup {None}, by : Persons \cup {None},
            gid : Agents \cup {None}, team : Teams \cup {None}, chat : Chats \cup {None}]

TypeOK == /\ row \in [Persons -> [gid : Agents, verified : BOOLEAN] \cup {None}]
          /\ \A x, y \in Persons : row[x] # None /\ row[y] # None /\ row[x].gid = row[y].gid => x = y
          /\ owner \in [Teams -> Agents \cup {None}] /\ members \in [Teams -> SUBSET Agents]
          /\ linked \in [Chats -> Teams \cup {None}]
          /\ \A c, d \in Chats : linked[c] = linked[d] /\ linked[c] # None => c = d
          /\ \A c \in Chats : linked[c] # None => owner[linked[c]] # None
          /\ withOp \subseteq {c \in Chats : linked[c] # None}
          /\ listed \subseteq Persons \X {c \in Chats : linked[c] # None}
          /\ inchat \subseteq Persons \X (Chats \ gone) /\ gone \subseteq Chats
          /\ upChan \in Seq(Updates)
          /\ act \in [Actors -> Locals \cup {Idle}]
          /\ owned \subseteq Teams /\ excused \subseteq inchat
          /\ moves \in 0..MaxMoves
-----------------------------------------------------------------------------
At(a, l)   == act[a].at = l
Do(a, r)   == act' = [act EXCEPT ![a] = r]
Goto(a, l) == act' = [act EXCEPT ![a].at = l]
End(a)     == Do(a, Idle)
Holder(g)  == {x \in Persons : row[x] # None /\ row[x].gid = g}
Chat(t)    == {c \in Chats : linked[c] = t}
\* Gid: the agent a verified account belongs to.
Gid(x) == IF x # None /\ row[x] # None /\ row[x].verified THEN {row[x].gid} ELSE {}

\* Rows of telegramteam go, and their chat's list with them.
Drop(cs) == /\ linked' = [c \in Chats |-> IF c \in cs THEN None ELSE linked[c]]
            /\ withOp' = withOp \ cs
            /\ listed' = {p \in listed : p[2] \notin cs}

\* UnlinkFromTelegramChat: by team.
UnlinkFromTelegramChat(t) == Drop(Chat(t))

\* Mutant of LinkToTelegramChat: the chat's row is replaced, the team's is not.
LinkAgain(t, c, op) ==
  /\ linked' = [linked EXCEPT ![c] = t]
  /\ withOp' = (withOp \ {c}) \cup (IF op THEN {c} ELSE {})
  /\ listed' = {p \in listed : p[2] # c}

\* LinkToTelegramChat: REPLACE deletes what the team and what the chat had.
LinkToTelegramChat(t, c, op) ==
  LET cs == Chat(t) \cup {c} IN
  /\ linked' = [d \in Chats |-> IF d = c THEN t ELSE IF d \in cs THEN None ELSE linked[d]]
  /\ withOp' = (withOp \ cs) \cup (IF op THEN {c} ELSE {})
  /\ listed' = {p \in listed : p[2] \notin cs}

\* A consistent database, nothing under way.
Init == /\ row \in [Persons -> [gid : Agents, verified : {TRUE}] \cup {None}]
        /\ \A x, y \in Persons : row[x] # None /\ row[x] = row[y] => x = y
        /\ owner \in [Teams -> Agents] /\ members \in [Teams -> Rosters]
        /\ linked \in [Chats -> Teams \cup {None}]
        /\ \A c, d \in Chats : linked[c] = linked[d] /\ linked[c] # None => c = d
        /\ withOp \in SUBSET {c \in Chats : linked[c] # None}
        /\ gone \in SUBSET Chats /\ inchat \in SUBSET (Persons \X (Chats \ gone))
        /\ listed \in SUBSET {p \in inchat : linked[p[2]] # None}
        /\ upChan = << >> /\ act = [a \in Actors |-> Idle]
        /\ owned = {} /\ moves = 0
        /\ excused = {p \in inchat : \/ linked[p[2]] = None
                                     \/ Gid(p[1]) \cap members[linked[p[2]]] = {}}
-----------------------------------------------------------------------------
(* AddAgent and addToChat, RemoveAgent and removeFromChat. *)
Here(a) == <<act[a].who, act[a].chat>>

\* INSERT IGNORE: not into a team that has been deleted.
Insert(a) ==
  /\ At(a, "insert") /\ Goto(a, "chat")
  /\ members' = [members EXCEPT ![act[a].team] =
                   IF owner[act[a].team] = None THEN @ ELSE @ \cup {act[a].gid}]
  /\ UNCHANGED <<row, owner, links, telegram, upChan>>

Delete(a) ==
  /\ At(a, "delete") /\ Goto(a, "chat")
  /\ members' = [members EXCEPT ![act[a].team] = @ \ {act[a].gid}]
  /\ UNCHANGED <<row, owner, links, telegram, upChan>>

\* removeFromChat looks the account up first, addToChat the chat.
TelegramChat(a) ==
  /\ At(a, "chat")
  /\ \/ Chat(act[a].team) = {} /\ End(a)
     \/ \E c \in Chat(act[a].team) :
          Do(a, [act[a] EXCEPT !.chat = c, !.at = IF act[a].job = "add" THEN "ask" ELSE "account"])
  /\ UNCHANGED <<row, team, links, telegram, upChan>>

\* Verified or not.
TelegramID(a) ==
  /\ At(a, "account")
  /\ \/ Holder(act[a].gid) = {} /\ End(a)
     \/ \E x \in Holder(act[a].gid) :
          Do(a, [act[a] EXCEPT !.who = x, !.at = IF act[a].job = "add" THEN "known" ELSE "ask"])
  /\ UNCHANGED <<row, team, links, telegram, upChan>>

GetChat(a) ==
  /\ At(a, "ask") /\ act[a].chat \notin gone
  /\ Goto(a, IF act[a].job = "add" THEN "account" ELSE "unlist")
  /\ UNCHANGED <<row, team, links, telegram, upChan>>
GetChatFails(a) ==
  /\ At(a, "ask") /\ act[a].chat \in gone /\ End(a)
  /\ UNCHANGED <<row, team, links, telegram, upChan>>
\* addToChat alone looks for "chat not found".
ChatNotFound(a) ==
  /\ At(a, "ask") /\ act[a].job = "add" /\ act[a].chat \in gone
  /\ End(a)
  /\ UnlinkFromTelegramChat(act[a].team)
  /\ UNCHANGED <<row, team, telegram, upChan>>

IsChatMember(a) ==
  /\ At(a, "known")
  /\ IF Here(a) \in listed THEN End(a) ELSE Goto(a, "list")
  /\ UNCHANGED <<row, team, links, telegram, upChan>>

\* A foreign key keeps the list to linked chats.  The invitation that follows
\* may fail; the list keeps the agent.
Listing(x, c) == IF x # None /\ linked[c] # None THEN {<<x, c>>} ELSE {}
AddToChatMemberList(a) ==
  /\ At(a, "list") /\ End(a)
  /\ listed' = listed \cup Listing(act[a].who, act[a].chat)
  /\ UNCHANGED <<row, team, linked, withOp, telegram, upChan>>

\* Mutant of RemoveFromChatMemberList: who is not listed is not banned.
RemoveListed(a) ==
  /\ At(a, "unlist")
  /\ IF Here(a) \in listed THEN Goto(a, "ban") ELSE End(a)
  /\ listed' = listed \ {Here(a)}
  /\ UNCHANGED <<row, team, linked, withOp, telegram, upChan>>

RemoveFromChatMemberList(a) ==
  /\ At(a, "unlist") /\ Goto(a, "ban")
  /\ listed' = listed \ {Here(a)}
  /\ UNCHANGED <<row, team, linked, withOp, telegram, upChan>>

\* Telegram tells the bot that it has removed somebody.
Ban(a) ==
  /\ At(a, "ban") /\ End(a)
  /\ inchat' = inchat \ {Here(a)}
  /\ upChan' = IF Here(a) \notin inchat THEN upChan
               ELSE Append(upChan, [job |-> "remove", who |-> act[a].who, by |-> None,
                                    chat |-> act[a].chat, team |-> None])
  /\ UNCHANGED <<row, team, links, gone>>
\* Telegram knows no such account any more.
UserIdInvalid(a) ==
  /\ At(a, "ban") /\ Goto(a, "drop")
  /\ UNCHANGED <<row, team, links, telegram, upChan>>

\* By agent, whatever account is his by now.
RemoveTelegramID(a) ==
  /\ At(a, "drop") /\ End(a)
  /\ row' = [x \in Persons |-> IF x \in Holder(act[a].gid) THEN None ELSE row[x]]
  /\ UNCHANGED <<team, links, telegram, upChan>>

Remote(a) == \/ Insert(a) \/ Delete(a) \/ TelegramChat(a) \/ TelegramID(a)
             \/ GetChat(a) \/ GetChatFails(a) \/ ChatNotFound(a)
             \/ IsChatMember(a) \/ AddToChatMemberList(a)
             \/ RemoveFromChatMemberList(a) \/ Ban(a) \/ UserIdInvalid(a)
             \/ RemoveTelegramID(a)
-----------------------------------------------------------------------------
(* The bot: runUpdate. *)
Asking == UNCHANGED <<row, team, links, telegram, upChan>>

RunUpdate ==
  /\ act[Bot] = Idle /\ upChan # << >>
  /\ LET u == Head(upChan) IN
     Do(Bot, [at |-> IF u.job = "dm" THEN "dm" ELSE "message", job |-> u.job, who |-> u.who,
              by |-> u.by, gid |-> None, team |-> u.team, chat |-> u.chat])
  /\ upChan' = Tail(upChan)
  /\ UNCHANGED <<row, team, links, telegram>>

ChatCommand == CASE act[Bot].job \in {"link", "unlink", "task"} -> Goto(Bot, "sender")
                 [] act[Bot].job \in {"add", "remove", "out"}   -> Goto(Bot, "team")
                 [] OTHER                                       -> End(Bot)

\* Whoever sent the message has been seen in the chat.
ProcessChatMessage ==
  /\ At(Bot, "message") /\ ChatCommand
  /\ listed' = listed \cup Listing(act[Bot].by, act[Bot].chat)
  /\ UNCHANGED <<row, team, linked, withOp, telegram, upChan>>

Sender ==
  /\ At(Bot, "sender")
  /\ \/ Gid(act[Bot].by) = {} /\ End(Bot)
     \/ \E g \in Gid(act[Bot].by) :
          Do(Bot, [act[Bot] EXCEPT !.gid = g, !.at = IF act[Bot].job = "link" THEN "owns" ELSE "team"])
  /\ Asking

AfterTeam == [add |-> "subject", remove |-> "subject", out |-> "unlink", unlink |-> "owns", task |-> "task"]
ChatToTeam ==
  /\ At(Bot, "team")
  /\ LET c == act[Bot].chat IN
     IF linked[c] = None \/ (act[Bot].job = "task" /\ c \notin withOp) THEN End(Bot)
     ELSE Do(Bot, [act[Bot] EXCEPT !.team = linked[c], !.at = AfterTeam[act[Bot].job]])
  /\ Asking

\* Who is not known to the server joins and leaves as he likes.
ChatResponses ==
  /\ At(Bot, "subject")
  /\ \/ Gid(act[Bot].who) = {} /\ End(Bot)
     \/ \E g \in Gid(act[Bot].who) :
          Do(Bot, [act[Bot] EXCEPT !.gid = g, !.at = IF act[Bot].job = "add" THEN "insert" ELSE "delete"])
  /\ Asking

\* Mutant of OwnsTeam: being on the team is enough.
OnTeam ==
  /\ At(Bot, "owns")
  /\ IF act[Bot].gid \in members[act[Bot].team] THEN Goto(Bot, act[Bot].job) ELSE End(Bot)
  /\ Asking

OwnsTeam ==
  /\ At(Bot, "owns")
  /\ IF owner[act[Bot].team] = act[Bot].gid THEN Goto(Bot, act[Bot].job) ELSE End(Bot)
  /\ Asking

\* The foreign key refuses a team that has been deleted since.
GcLink ==
  /\ At(Bot, "link") /\ End(Bot)
  /\ \/ owner[act[Bot].team] = None /\ UNCHANGED links
     \/ owner[act[Bot].team] # None
        /\ \E op \in BOOLEAN : LinkToTelegramChat(act[Bot].team, act[Bot].chat, op)
  /\ UNCHANGED <<row, team, telegram, upChan>>
\* /unlink, or the bot is removed from the chat.
GcUnlink ==
  /\ At(Bot, "unlink") /\ End(Bot)
  /\ UnlinkFromTelegramChat(act[Bot].team)
  /\ UNCHANGED <<row, team, telegram, upChan>>
\* /claim, /acknowledge, /Reject do to the task what the web routes do.
GcTask == At(Bot, "task") /\ End(Bot) /\ Asking
-----------------------------------------------------------------------------
(* The bot: processDirectMessage. *)
GidV ==
  /\ At(Bot, "dm")
  /\ CASE row[act[Bot].by] = None -> Goto(Bot, "new")
       [] row[act[Bot].by] # None /\ ~row[act[Bot].by].verified -> Goto(Bot, "verify")
       [] OTHER -> End(Bot)
  /\ Asking

\* INSERT: one row for an account, one for an agent.
Free(x, g) == row[x] = None /\ Holder(g) = {}
SetTelegramID(x, g, v) == row' = [row EXCEPT ![x] = [gid |-> g, verified |-> v]]

\* enl.rocks, or V, knows whose account it is; if not, or it cannot be entered,
\* the agent's one-time token is asked for.
FirstLogin ==
  /\ At(Bot, "new")
  /\ \/ \E g \in Agents : Free(act[Bot].by, g) /\ SetTelegramID(act[Bot].by, g, TRUE) /\ End(Bot)
     \/ Goto(Bot, "init") /\ UNCHANGED row
  /\ UNCHANGED <<team, links, telegram, upChan>>
InitAgent ==
  /\ At(Bot, "init") /\ End(Bot)
  /\ \/ \E g \in Agents : Free(act[Bot].by, g) /\ SetTelegramID(act[Bot].by, g, FALSE)
     \/ UNCHANGED row
  /\ UNCHANGED <<team, links, telegram, upChan>>
\* The token that /me shows the agent; a wrong one, or a row that has gone.
VerifyAgent ==
  /\ At(Bot, "verify") /\ End(Bot)
  /\ \/ row[act[Bot].by] # None /\ row' = [row EXCEPT ![act[Bot].by].verified = TRUE]
     \/ UNCHANGED row
  /\ UNCHANGED <<team, links, telegram, upChan>>

BotStep == \/ RunUpdate \/ ProcessChatMessage \/ Sender \/ ChatToTeam \/ ChatResponses
           \/ OwnsTeam \/ GcLink \/ GcUnlink \/ GcTask
           \/ GidV \/ FirstLogin \/ InitAgent \/ VerifyAgent
           \/ Remote(Bot)
-----------------------------------------------------------------------------
(* What Telegram tells the bot. *)
Update(job, x, by, c, t) == [job |-> job, who |-> x, by |-> by, chat |-> c, team |-> t]
Tell(u) == upChan' = Append(upChan, u)
Present(c) == {x \in Persons : <<x, c>> \in inchat}

\* By an invitation, or added by somebody there.
Join(x, c) ==
  /\ c \notin gone /\ x \notin Present(c)
  /\ inchat' = inchat \cup {<<x, c>>}
  /\ \E by \in {x} \cup Present(c) : Tell(Update("add", x, by, c, None))
  /\ UNCHANGED <<row, team, links, gone, act>>
Leave(x, c) ==
  /\ x \in Present(c)
  /\ inchat' = inchat \ {<<x, c>>}
  /\ Tell(Update("remove", x, x, c, None))
  /\ UNCHANGED <<row, team, links, gone, act>>
Say(x, c) ==
  /\ x \in Present(c)
  /\ \/ \E job \in {"unlink", "task", "text"} : Tell(Update(job, None, x, c, None))
     \/ \E t \in Teams : Tell(Update("link", None, x, c, t))
  /\ UNCHANGED <<row, team, links, telegram, act>>
\* The bot learns that it has been removed, and nothing of the chat from then on,
\* until somebody takes it back.
RemoveBot(x, c) ==
  /\ x \in Present(c)
  /\ gone' = gone \cup {c} /\ inchat' = {p \in inchat : p[2] # c}
  /\ Tell(Update("out", None, x, c, None))
  /\ UNCHANGED <<row, team, links, act>>
AddBot(x, c) ==
  /\ c \in gone /\ gone' = gone \ {c}
  /\ \E there \in SUBSET Persons : x \in there /\ inchat' = inchat \cup (there \X {c})
  /\ Tell(Update("text", None, x, c, None))
  /\ UNCHANGED <<row, team, links, act>>
DirectMessage(x) ==
  /\ Tell(Update("dm", None, x, None, None))
  /\ UNCHANGED <<row, team, links, telegram, act>>
ChatGone(c) ==
  /\ c \notin gone
  /\ gone' = gone \cup {c} /\ inchat' = {p \in inchat : p[2] # c}
  /\ UNCHANGED <<row, team, links, upChan, act>>
-----------------------------------------------------------------------------
(* The web, the peers, the clean-up at the start, and crashes. *)
Web(h, job, at, g, t) ==
  /\ act[h] = Idle
  /\ Do(h, [at |-> at, job |-> job, who |-> None, by |-> None, gid |-> g, team |-> t, chat |-> None])
  /\ UNCHANGED <<row, team, links, telegram, upChan>>
AddAgent(h, g, t)    == Web(h, "add", "insert", g, t)
RemoveAgent(h, g, t) == Web(h, "remove", "delete", g, t)
\* An account that Telegram gives any error for, even a passing one.
Cleanup(h)           == \E x \in Persons, g \in Agents : g \in Gid(x) /\ Web(h, "clean", "drop", g, None)

\* Federation, or a V import.
Paired(x, g) ==
  /\ Free(x, g) /\ SetTelegramID(x, g, TRUE)
  /\ UNCHANGED <<team, links, telegram, upChan, act>>
Chown(t, g) ==
  /\ owner[t] # None /\ owner' = [owner EXCEPT ![t] = g]
  /\ UNCHANGED <<row, members, links, telegram, upChan, act>>
\* The operation is deleted, and the link with it.
DeleteOperation(c) ==
  /\ c \in withOp /\ Drop({c})
  /\ UNCHANGED <<row, team, telegram, upChan, act>>

\* The last statements of Team.Delete and of an agent's Delete, which have called
\* RemoveAgent for whom they found: the keys take along who is left, a team's
\* link, an agent's account and the teams he owns.
TeamsOf(g) == {t \in Teams : owner[t] = g}
Cascade(ts, gs) ==
  /\ owner'   = [t \in Teams |-> IF t \in ts THEN None ELSE owner[t]]
  /\ members' = [t \in Teams |-> IF t \in ts THEN {} ELSE members[t] \ gs]
  /\ Drop({c \in Chats : linked[c] \in ts})
  /\ UNCHANGED <<telegram, upChan, act>>
DeleteTeam(t)  == owner[t] # None /\ Cascade({t}, {}) /\ UNCHANGED row
\* He may sign in again, and be there as before.
DeleteAgent(g) == /\ Cascade(TeamsOf(g), {g})
                  /\ row' = [x \in Persons |-> IF x \in Holder(g) THEN None ELSE row[x]]

Moves == \/ \E x \in Persons, c \in Chats : \/ Join(x, c) \/ Leave(x, c) \/ Say(x, c)
                                          \/ RemoveBot(x, c) \/ AddBot(x, c)
         \/ \E x \in Persons : DirectMessage(x) \/ \E g \in Agents : Paired(x, g)
         \/ \E c \in Chats : ChatGone(c) \/ DeleteOperation(c)
         \/ \E t \in Teams : DeleteTeam(t) \/ \E g \in Agents : Chown(t, g)
         \/ \E g \in Agents : DeleteAgent(g)
         \/ \E h \in Handlers : \/ \E g \in Agents, t \in Teams : AddAgent(h, g, t) \/ RemoveAgent(h, g, t)
                                \/ Cleanup(h)

\* messaging.AddToRemote and RemoveFromRemote: there is no bus yet, or there never
\* will be, as Start has given up.
NoBus(a) ==
  /\ a \in Handlers /\ At(a, "chat") /\ End(a)
  /\ UNCHANGED <<row, team, links, telegram, upChan>>

\* A statement, or a call to Telegram, fails: who called returns, or logs it and
\* there is nothing more to do (chatResponses).
Fails(a) ==
  /\ act[a] # Idle /\ act[a].at \notin {"message", "known", "list", "unlist", "new"} /\ End(a)
  /\ UNCHANGED <<row, team, links, telegram, upChan>>
\* What the list of the chat answers is not waited for.
ListFails(a) ==
  /\ \/ a = Bot /\ At(a, "message") /\ ChatCommand
     \/ At(a, "known") /\ Goto(a, "list")
     \/ At(a, "list") /\ End(a)
     \/ At(a, "unlist") /\ Goto(a, "ban")
  /\ UNCHANGED <<row, team, links, telegram, upChan>>

\* The process ends, also by /acknowledge and /Reject of a link: they take the
\* task for a marker when it is done, and panic.
Crash ==
  /\ upChan' = << >> /\ act' = [a \in Actors |-> Idle]
  /\ UNCHANGED <<row, team, links, telegram>>
-----------------------------------------------------------------------------
(* History *)
\* Who is in the chat and not on the team, and is being added or removed by one of
\* the actors, or was announced by one of the updates.
Unsettled(actors, updates) == {p \in inchat :
  /\ linked[p[2]] # None /\ ~(Gid(p[1]) \subseteq members[linked[p[2]]])
  /\ \/ \E a \in actors : /\ act[a] # Idle /\ act[a].job \in {"add", "remove"}
                          /\ act[a].who = p[1] \/ act[a].gid \in Gid(p[1])
                          /\ act[a].chat = p[2] \/ act[a].team = linked[p[2]]
     \/ \E u \in updates : u.job = "add" /\ u.who = p[1] /\ u.chat = p[2]}
Waiting == {upChan[i] : i \in DOMAIN upChan}
Owned == IF act[Bot] = Idle \/ act[Bot].job \notin {"link", "unlink"} THEN {}
         ELSE {t \in Teams : owner[t] \in IF act[Bot].gid = None THEN Gid(act[Bot].by) ELSE {act[Bot].gid}}
\* lost: those in chats whom a failure or a crash leaves unsettled.
Watch(lost) ==
  /\ owned' = Owned' \cup (IF act[Bot] = Idle \/ act'[Bot] = Idle THEN {} ELSE owned)
  /\ excused' = {p \in inchat' :
       LET x == p[1]  c == p[2] IN
       \/ p \in excused \cup lost \/ (p \notin inchat /\ c \in gone)
       \/ linked'[c] = None \/ linked'[c] # linked[c]
       \/ Gid(x)' = {} \/ Gid(x)' # Gid(x)}

Step == (BotStep \/ \E h \in Handlers : Remote(h)) /\ UNCHANGED moves
Move == moves < MaxMoves /\ moves' = moves + 1
Next == \/ (Step \/ (Moves /\ Move) \/ (\E a \in Actors : ListFails(a) /\ Move)) /\ Watch({})
        \/ \E a \in Actors : (NoBus(a) \/ Fails(a)) /\ Move /\ Watch(Unsettled({a}, {}))
        \/ Crash /\ Move /\ Watch(Unsettled(Actors, Waiting))

Spec == Init /\ [][Next]_vars
-----------------------------------------------------------------------------
(* Properties *)

\* gcLink, gcUnlink: a chat becomes a team's on the word of somebody who owned
\* that team while the bot dealt with it (another team may have had the chat), and
\* ceases to be on the word of an owner of the team it had; or the bot was removed
\* from a chat of the team, or such a chat is not there any more, or the chat goes
\* with its operation or its team.
LinksFollowOwners == [][\A c \in Chats : linked'[c] # linked[c] =>
  \/ linked'[c] \in owned
  \/ linked'[c] = None /\ (\/ linked[c] \in owned
                           \/ act[Bot] # Idle /\ act[Bot].job = "out" /\ act[Bot].team = linked[c]
                           \/ \E a \in Actors : At(a, "ask") /\ act[a].team = linked[c] /\ act[a].chat \in gone
                           \/ c \in withOp
                           \/ owner'[linked[c]] = None)]_vars

Resting == upChan = << >> /\ \A a \in Actors : act[a] = Idle
\* chatResponses, removeFromChat: once all is dealt with, who came into a team's
\* chat with a verified account is on the team, whatever the web routes, deletions
\* and failures of others did meanwhile.  Excused is he who was not on the team when
\* a statement or call about him and that team failed, or a crash forgot him; who
\* came while the bot was not in the chat, or the chat was not linked; and whose
\* chat changed teams, or account agents, while he was there.
AgreeAtRest ==
  Resting => \A p \in inchat \ excused : Gid(p[1]) \subseteq members[linked[p[2]]]
=============================================================================
