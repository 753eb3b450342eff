# Wasabee-Server in TLA+

Wasabee-Server keeps the plans of Ingress teams: *operations* (drawings of
portals, markers and links with tasks on them), the teams that may see them,
and the agents on the teams. It is a Go program around a MySQL database. HTTP
handlers, one goroutine per request, run SQL statements, mostly one by one and
each its own transaction; a few background services (Firebase, Telegram,
enl.rocks, V, RISC, federation with other servers) react to the same data.
There is almost no shared memory: the state is the database, and what goes
wrong goes wrong between two statements of two handlers.

Paths below are relative to the repository root.

## The system

| Component | State | Operations | What is hard | What makes it correct |
|---|---|---|---|---|
| Operation editing (`model/operation.go`, `http/draw.go`) | rows of `operation`, `portal`, `marker`, `link`, `zone`; `lasteditid` | fetch with `If-None-Match` / `If-Modified-Since`, save with `If-Match`, delete, `Touch` | the fetch reads table after table; the check of the edit ID, the transaction and the new edit ID are three steps; hang-ups and crashes | committed drawings are whole and sound; an edit ID names one drawing; no request waits for ever |
| Operation life cycle (same files, `model/access.go`) | `operation.gid`, `deletedops` | upload, delete, chown | every check is older than the act it guards | nothing is overwritten; what is deleted is known as deleted |
| Tasks (`model/task.go`, `markers.go`, `links.go`, `http/draw_task.go` and its marker and link variants) | `task.state`, `assignments`, `depends` | claim, acknowledge, complete, incomplete, reject, assign; `SetAssignments` inside uploads and saves | reads outside the transaction; a table without unique key | the agents asked for are the agents assigned |
| Telegram sender (`Telegram/sendq.go`, `bot.go`, `announce.go`) | channel `sendQueue`, list `holdQ`, timer, rate limiter | send, hold back, feed back, shut down | the runner is reader and writer of one bounded channel; shutdown order | no message lost, doubled or parked for ever; shutdown ends |
| Portals, keys, zones (`model/portals.go`, `keys.go`, `zone.go`) | `portal`, `opkeys`, `zone`, `zonepoints` | key counts, portal comment and hardness, zone filter | keys outlive portals; filtered copies | a reader sees exactly his zones |
| Access, permissions (`model/access.go`, `permissions.go`) | `permissions` | add, remove; read, write and assigned-only access | permission rows without unique key; access cached in `Operation.Teams` | access ends when its last reason ends |
| Teams (`model/team.go`, `http/team.go`) | `team`, `agentteams` | create, join by token, add, remove, share, chown, delete | membership changes while handlers run; mirrored in Firebase topics and chats | the mirrors show the members; what is shared with a team is seen by that team only |
| Agents (`model/agent.go`, `http/agent.go`, `me.go`) | `agent`, `locations` | first login, delete, lock, intel faction, location | rows that others have deleted, or not made yet; deletion cascades over teams and operations | locks follow Google's word |
| Authentication (`auth/`, `http/auth.go`, `http/apple.go`, `http/server.go`, `model/onetimetoken.go`, `revokedjwt.go`, `RISC/`) | one-time tokens, revoked JWTs in memory, the RISC channel | logins, refresh, revocation, security events | a login is a dozen statements and remote calls, and everything may change between them; events about agents without a row; restarts | who is barred gets no token; used and revoked tokens are of no use; accepted events are handled |
| Telegram chats (`Telegram/`, `model/telegram.go`) | `telegram`, `telegramteam`, `telegramchatmembers`, the update channel | pair an account, link and unlink a chat, join, leave, task commands | two sources of truth about who is where; bans come back as updates; a team or chat linked twice | who is in a team's chat is on the team; chats change hands on an owner's word |
| Firebase (`Firebase/`, `model/firebase.go`) | tokens, topics, rate limiter | announce, subscribe, resubscribe | remote calls that fail; times compared the wrong way round | who leaves a team is off its topic |
| Rocks, V (`rocks/`, `v/`) | cached profiles, team members | verdict on an agent, webhook, synchronise, bulk import | push against pull; loops over members that others change, and that go on after an error; verdicts that are old or cannot be had | a synchronised team is the list |
| Federation (`federation/`) | copies of agent data on peers | mirrored updates | lost or unknown-agent updates | |
| Message bus, background tasks, start-up, config, log, templates, community, tools | | | `main` waits for every service | |

Calls between the parts: handlers call the model; the model calls the message
bus (`messaging/messaging.go`) for membership changes, deletions and messages,
and the bus calls the services that registered with it; webhooks of rocks, V,
RISC and federation call the model. `cmd/wasabee/main.go` starts the services
with one context and waits for them after cancelling it.

## What is modelled

One action is one SQL statement of a handler (or a run of statements nobody
else can observe); the writes of a transaction become visible at its commit.
InnoDB's row locks are guards. Clients choose any operation at any time; the
only bounds are the ones named below.

Any statement may fail, and what then happens is what the code does: most errors
end the request; some are logged and the handler carries on; some checks take an
error for a yes; and no loop over rows asks `rows.Err()`, so a result that breaks
off is taken for all there is. A property that such a path breaks names it as an
exception, and the section of its module says what does not hold; every other property
holds with these failures in play.

### OpDoc, OpEdit, OpEdit_proofs

`OpDoc` is what the store promises: one drawing, replaced as a whole by a
submitted body, or removed; the markers and links of a body stand on portals of it.
There is one exception, which `OpDoc` spells out (`After`): `updateLink` ignores a link
with both ends on one portal (`model/links.go:111`), and `drawOpUpdateLinks` then takes its
ID off the list of the links to delete (`model/operation.go:387`), so a row that is
there under that ID stays, on portals that the same save may have deleted.

`OpEdit` has the handlers of `GET`, `PUT` and `DELETE /draw/{opID}` with the
model functions they call. `exists`, `doc`, `lasteditid`, `deletedop` are the
database; `rowlock` is the transaction that holds the operation row since its
first `UPDATE`; `req[c]` are the locals of client `c`'s handler, `at` the next
statement; `copy[c]` is what the client keeps: a drawing with the edit ID it
came with. Edit IDs are numbers, since `util.GenerateID(40)` never repeats;
1 is the column's default `'unset'`. `dirty` is a history variable: the drawing
has changed since the edit ID last did.

`loops` are the IDs of the links a body sends with `From` = `To`.

- `FetchStart` .. `FetchLinks`: `drawGetRoute`, `Stat`, `Populate`.
- `SaveStart`, `SaveMatch`, `SaveGate`, `SaveLock`, `SaveTables`, `SaveCommit`,
  `SaveTouch`: `drawUpdateRoute`, `DrawUpdate`, `touch`. `SaveAbort` is a client
  that hangs up (the transaction has the request's context); `SaveTouchFails`
  the error `touch` swallows.
- `DeleteStart`, `DeleteMark`, `DeleteDrop`: `drawDeleteRoute`, `Delete`.
  `Delete` carries on when the INSERT into `deletedops` fails.
- `StatementFails`: any other statement of a request; `KnownDeleted`: `IsDeletedOp`
  takes an error for a no. `Crash` ends the process: handlers vanish, MySQL rolls back.

Left out: `GET_LOCK`/`RELEASE_LOCK` (below), names, colours, comments and zones
(zone errors are logged and skipped), the other writers of portal comment and
hardness, which do not change which rows there are.

Runs:

- `op_edit` (two clients, three edits, three bodies, of which one is refused and one
  sends the link of another as a loop, all faults; 1.95 million states):
  `ImplementsOpDoc`, `FetchedCopyCurrent`.
  Two clients are enough for every pair of handlers to overlap, and three edits
  for a client to fetch, to be overtaken and to come back.
- `op_edit_live` (two edits, no crash and no failing `Touch`): every request
  ends, and every committed edit gets an edit ID. Fairness: a goroutine that can
  go on does (`WF`), and a request that waits for the row gets it if it is freed
  again and again (`SF`), since InnoDB queues lock waiters. Hang-ups are not
  fair: they may happen or not.
- `op_edit_lost` (expected to fail): two saves with the same `If-Match` are both
  accepted. The route compares the header with `Stat`'s answer, then
  `DrawUpdate` commits, then `touch` changes the ID.

`FetchedCopyCurrent` speaks of fetched copies only. The reply to a save carries
the ID `touch` made, and two saves may commit in one order and touch in the
other; the copy a client keeps after its own save can therefore differ from the
server's drawing under the same ID (and then get "304 local copy matches server
copy", `http/draw.go:146`). It excepts the time between a commit and the next `Touch`
(`dirty`): when `Touch` fails, or the server dies before it, the old edit ID names the
new drawing until somebody saves again, and nothing mends that. `EditsGetAnEditID`
is therefore checked without those two faults.

### OpLife, OpLife_proofs

One operation ID in the hands of several agents' requests: `UploadValid`,
`UploadGate`, `UploadInsert`, `UploadCommit`/`UploadFail` (`DrawInsert`),
`DeleteRoute` .. `DeleteDrop` (`Delete`), `ChownCheck`, `ChownSet` (`Chown`),
`AgentDelete` (`GoogleID.Delete`: who leaves does not come back) and `Crash`.
`inserting` is the upload whose uncommitted row makes others wait. `DeleteMark` may
fail, and `Delete` then drops the row all the same ("carry on",
`model/operation.go:453`): the place `blind`. `Fail` is an error of any other statement.

Run `op_life` (two agents, two requests each, so that two uploads, a deletion
and a chown overlap; 24 thousand states): `GoneMeansMarked`, `UploadsNeverOverwrite`.

Deleting an account takes the agent's operations along (foreign key
`fk_operation_agent`) and notes nothing in `deletedops`, so `GoneMeansMarked`
leaves those out (`excused`); clients get 404 for them, not 410. So it does the
operation whose deletion could not be noted. What it does check is the order: the
mark before the row, whichever request is cut short or overtaken between the two.

What does *not* hold: an upload that passed `IsDeletedOp` before the ID was
uploaded, and deleted, by others inserts the deleted ID again
(`model/operation.go:57`); fetching it then answers 410.

### TaskBoard, TaskBoard_proofs

One task: `state`, `rows[a]` (assignment rows of agent `a`; the table has no
unique key) and `req[a]`, the request of agent `a`, with the uncommitted writes
of `SetAssignments`: `ins`, `del`, `upd`. `CanInsert`, `CanDelete`, `CanUpdate` are
the lock conflicts between those writes and others'. `Begin` reads the
assignments through the pool and may get none or some of them: an error of
`GetAssignments` is logged, "continue" (`model/task.go:200`). `ClearAssignments` may fail in
either statement, or be rolled back with all before it, and its result is not looked at
(`model/task.go:251`). `Fail` covers an unknown GoogleID, a deadlock victim, a hang-up,
and the refusal of something else in the same save. `disturbed` is history: for whom
the rows are not what `SetAssignments` takes them for, because they have changed since,
were not all read, or could not be cleared.

Runs:

- `task_board` (two agents, eight lists: empty, the empty GoogleID alone or with
  others, one, both, an unknown one; at most two rows per agent, where the
  second row is the interesting one; 3.1 million states): `CommitsWhatWasAsked`.
- `task_board_twice` (expected to fail): after claiming a task twice
  `IsAssignedTo` says no, because it counts exactly one row.

What does not hold: after a read that failed, the save says ok and leaves the agents
who were there beside those asked for. That a clearing does not take back a
completion is one condition in the WHERE of one UPDATE (`Cleared`) and is not stated as a
property.

Also seen in the code, and not run: an upload stores everybody in `assignments`
although it clears `assignedTo` as "invalid since teams are not known"
(`model/operation.go:111`); and nobody is notified of an assignment made by a
save, since no service registers for `SendAssignment` (`Firebase/Firebase.go:55`).

### SendQueue, SendQueue_proofs

The senders (`Offer`, `Enter`), the bot's own loop (messages in `BotMsgs`, one at
a time), `sendqueueRunner` (`Unblock`, `Receive`, `Wait`, `Settle`, `TooMany`, and
the loop over `holdQ`: `Feed`, `FeedFull`, `DrainDone`), and the shutdown
(`Cancel`, `RunnerStop`, `BotStop`, `SendOnClosed`, `DrainPanic`). Time is left out:
an armed timer may fire at once, the limiter and Telegram answer when they like.
`timer` says what `unblocker` was armed for last (half a burst, a full channel, a
pause Telegram asked for); `pausing` is history: the pause Telegram asked for is over
only when the timer armed for it fires. A nil received from the closed channel is
parked once at most (bound).

Runs:

- `send_queue` (four messages, one the bot's; a channel of three and half a burst of
  two, so that the channel is full and `holdQ` is fed back in several rounds, and a
  pause begins while an older timer is armed; 35 thousand states): `EachMessageOnce`,
  `ParkedMeansArmed`, `PausesAreKept`, `EveryMessageSettled`.
  Fairness: `select` picks at random among ready cases, channels serve their
  senders in turn, Telegram does not refuse for ever (`SF`), the rest of the
  runner's code runs (`WF`). `Prompt` adds what the durations give: timers last 6
  or 12 seconds or longer, so once a burst is over a timer finds the channel
  emptied. Without it the untimed runner can feed back and park the same
  messages for ever.
  `PausesAreKept` says that no older timer ends a pause: it would if "retry after" left
  a timer that is already armed to run (its mutant).
- `send_queue_hang` (expected to fail; a channel of two): the runner returns with the channel
  full, and the bot's loop, in the middle of an update, waits for room; `Start`
  never returns and `main` waits for it.

`DrainPanic` is reachable too: `shutdown` closes the channel while the runner may
still be feeding it.

The run stops when its burst is over, so deadlock is not checked here, nor in
the `OpEdit` runs, where edits run out.

### Membership, Membership_proofs

One team: `team` and `owner` are its row, `members` its rows of `agentteams`,
`tokens` the agents with a row in `firebase` (one device each), `topic` the
devices subscribed at Firebase. `req[h]` are the locals of one handler, webhook
or synchronisation; `resub` the tokens the weekly `Resubscribe` has read and not
yet sent. `excused`, `clean` and `list` are history: whose subscription was lost track
of; and, of a `Sync`, that nobody else changed the members while it ran and no
statement of its own failed, and what V answered.

- `NewTeam`, `CreatorJoins`, `Chown`, `DisbandList`, `Prune`, `DisbandDrop`: the
  team's row. Routes of the owner (`Invite`, `Expel`, `ChownTo`, `Disband`) look at
  `OwnsTeam` and act afterwards; `JoinToken` and `Leave` are anybody's.
- `AddInsert`, `AddTokens`, `Subscribe`: `AddAgent` and `addToRemote`;
  `RemoveDelete`, `RemoveTokens`, `Unsubscribe`: `RemoveAgent` and
  `removeFromRemote`; each `..Refused` when Firebase fails or drops the token, and
  `..Skipped` when Firebase is not running or the tokens cannot be read
  (`Firebase/messaging.go:298`, `303`). `AddFails`, `RemoveFails`, `LoopFails`: the errors
  that `Sync`, `CommunityMemberPull` and `Team.Delete` log and pass over; `Rows`: rows that
  break off; `StatementFails`: any other statement.
- `RocksJoin`, `RocksPull`, `VSync` with `Loop`, `LoopOne`, `SyncOwner`, `SyncFetch`
  and `Prune`: the communities' pushes and pulls, which may answer any list.
- `StoreCheck`, `StoreInsert`, `StoreTeams`, `DropTokens`: `StoreFirebaseToken` and
  RISC's `RemoveAllFirebaseTokens`; `ResubscribeRead`, `..Send`, `..Fail`.

Left out: name, comments, sharing switches, bulk import, and the value of the
join link (the owner may make and take back links at any time, so any agent may
join at any time). That a dead token's subscription dies with it is left aside:
it counts as still there.

Run `membership` (two agents, two handlers, so that every pair of requests
overlaps; `MaxLoops = 1`: one handler at a time loops over members, the other may
do anything else; agents and handlers are symmetric; refusals, dropped tokens and
crashes at any time, `Faulty`; 1.8 million states): `StraysHaveACause`, `SyncMirrorsV`.

`removeFromRemote` "removes an agent's subscriptions to a given topic/team"
(`Firebase/messaging.go:296`), but even with no fault at all an agent who is
removed between the reading of his token (`Resubscribe`, `AddAgent`,
`StoreFirebaseToken`) and its subscription stays subscribed. `StraysHaveACause`
lists this and the failures above as causes, and so does not catch them: an agent is
in `excused` once his removal met a subscription on its way, or did not reach Firebase,
or his token was dropped while he was subscribed. What it checks is that there is no
other way: joins, removals, pulls, synchronisations, new tokens and the weekly
`Resubscribe`, in whatever order they interleave. `SyncMirrorsV` likewise excepts a
`Sync` one of whose statements failed: it logs that and goes on, and leaves members V
does not have, or lacks some V has, until the next one.

That every member comes to be subscribed is not checked: `NewTeam` inserts its
creator without `AddAgent`, so it waits for the weekly `Resubscribe`, which
returns at the first team whose call fails and skips the teams after it.

Also seen, and not run: `Expel` and `Sync` spare the owner they have read
(`http/team.go:209`, `v/v.go:205`), and a change of owner in between has the new
one removed; `addToRemote` drops a token on any error where `Resubscribe` spares
internal ones; V's webhook tests `if key != ""` where the key is empty
(`v/webhook.go:52`), so its synchronisation has no key.

### AccessPolicy, Access, Access_proofs

`AccessPolicy` says who may do what to an operation, from its facts: the owner,
the teams' members, the permissions (team, role, zone), the zone of a task and
its assignment rows. A request needs an authority, is granted it only on facts
that held while it was running (each at some moment: `seen`), and the state
changes only on behalf of a granted request, or because a team changes by itself.

`Access` has every route of `http/draw.go`, `draw_task.go`, `draw_marker.go` and
`draw_link.go` that asks for access. `req[h]` are the locals of a request: `teams` is
`op.Teams`, read once and kept (`PopulateTeams`); `check`, `todo` and `zones` are the
check that runs, the permissions it has still to look at, and the zones it has
found; `gate` tells the route's own check from those in `Populate`.

- Any statement may fail: a check takes that for a no (`PopulateTeams`, `IsOwner`,
  `AgentInTeam`), the permissions may break off (`cut`), a task is not found, and a route
  that fails answers with an error. `Touching`: when `Touch` fails the routes of markers,
  links and the drawing tell nobody, although the change is made
  (`http/draw_marker.go:316`, `http/draw_link.go:323`); `taskStatusAnnounce` announces all
  the same.
- `Arrive`: `taskRequires` populates the operation, `markerRequires` and
  `linkRequires` twice; the routes of `draw.go` check first.
- `PopulateTeams`, `IsOwner`, `LoadTeams`, `AgentInTeam`: the statements of
  `ReadAccess`, `WriteAccess` and `AssignedOnlyAccess`; `PopulateDecides` and
  `RouteDecides` are what follows from a yes or a no.
- `PopulateRow`, `PopulateMine`, `Assignee`: the task is found if its zone is
  wanted or it is the requester's (`IsAssignedTo`, which counts exactly one row).
  Only then does it show what the route needs (`Populated`, `ToDecide`).
- `OwnerAsked` .. `OwnerInTeam`: permissions and change of owner.
- One action per route for what it then does; all that matters here is the zone,
  the assignments, the permissions and the owner, and whether `op.Teams` is told.
  What a client sends in a save is any zone and any assignment.
- `JoinTeam`, `LeaveTeam`, `DeleteTeam`: teams, as other routes change them.

Run `access` (two handlers of which one is about the drawing and one may be the
owner's, two agents, one team, one zone; of the three permissions named in `MCAccess`,
one of each role, one is given, at most twice, `MaxPerms` and `MaxRows`, an assignment
has at most two rows of one agent; one change to the facts at any time of a request,
`MaxMoves`; 0.32 million states): `ImplementsPolicy`
(`Policy == INSTANCE AccessPolicy WITH ...`) and
`RelevantTeamsTold`. Each fact of the policy is looked up in one statement, so a
change before or after it is what there is to get wrong.

**The hardness route contradicts its own message.** `drawPortalHardnessRoute` refuses exactly
those *with* write access, with "write access required to set portal hardness"
(`http/draw.go:396`), and lets everybody else write. `AccessPolicy` has the constant
`Strict`: with `Strict` the policy asks for write access there, as the message does, and
TLC finds `ImplementsPolicy` violated in three steps (a request for the hardness of a portal
comes; its agent is not the owner; there are no permissions, and it is let in). The run
and the theorem `Implements` are of the policy without that demand (`Strict = FALSE`), and say
nothing about this route.

Also seen, and not run: `touch` announces to `op.Teams`, which `WriteAccess` leaves
empty for the owner, so that the owner's edits by the routes of `draw.go` are
announced to nobody, where the comment says "announce to all relevant teams"
(`http/draw.go:604`); `markerAssignTouch`
"notifies ONLY the agent to whom the assigment was made" (`http/draw_marker.go:302`)
and is given the requester; `SetDelta`, `SetOrder` and the orders of links and
markers name columns that do not exist.

### Session, Session_proofs

Who gets in. `known`, `locked`, `smurfs`, `ott` are columns of `agent`, `cache` the
row of `v` or `rocks` (one provider stands for both), `jwts` the tokens there are,
`revoked` the list in memory, `riscchan`, `working` and `feed` the RISC channel, its
worker and its intake. `req[h]` are the locals of one request.

- `ApTokenRoute` (Google's login; Apple's is the same from here on),
  `OneTimeTokenRoute` with `Replace`/`ReplaceFails` (`Increment`), `AuthMW`.
- `Valid`, `First`, `CheckRISC`, `CheckSmurf`: `Authorize`; `FromDB`, `Unreachable`,
  `NotFound`, `Answer`, `ToDB`: its provider, with a cache that may be old and a
  service that may be silent; `Mint`: the end of a login or a refresh, which makes a new
  token with the ID of the old one (`RefreshJwt`).
- `QueryFails`: `RISC()` and `IntelSmurf()` say no when their query fails
  (`model/agent.go:557`, `648`), and V and rocks "do not block on db error"
  (`v/authprovider.go:22`): the agent is let in as far as that check goes.
- `MeIntelID`, `MeDelete`, and `Body` for the refresh route, which calls `Authorize`.
- `Introduce`, `PeerIntelData`, `PeerMint`, `RevokeJWT`: peers.
- `Webhook`, `TakeEvent`, `HandleEvent`, `DisableWebhook`: RISC; `EventFails`: the worker
  discards the errors of `Lock`, `Unlock` and `Delete` (`RISC/GoogleRISC.go:98`); `Restart`.

A token that has run out only does less than one that has not, so expiry is left
out; so is `Logout`, whose list nobody reads (`IsLoggedOut` is never called).
`barred`, `again`, `disabled`, `excused`, `used`, `unspent` and `dead` are history.

Run `session` (one agent, two requests of which one is in `Authorize`, `MaxChecks`;
one login and one refreshed token, `MaxLogins` and `MaxJwts`; one replaced one-time token;
enl.rocks as the provider, `Listings`, where V has one verdict more, which keeps an
agent out only while it is fresh; two moves among events, peers, failing queries and
restarts; 1.3 million states). Agents share nothing but the unique one-time
tokens, so one is enough; two moves are an event and the end of the intake, or a
revocation and a refresh. `BarredStayOut`, `UsedOnce`, `LocksFollowEvents`,
`RevokedStayOut` (`root` ties a token to the login it goes back to, whatever IDs
refreshing gives: the mutant draws a new one), and `EventsAreHandled` under weak
fairness of the worker: `Start`
is one goroutine that ranges over the channel, and a closed channel is drained.
Requests need no fairness, and none is assumed.

What does not hold, and the histories excuse: a barred agent is let in when the one
query that would have shown the ground fails (the other grounds still keep him out); a
lock or unlock whose UPDATE fails is never tried again; a lock for an agent without a row is
lost, and a locked agent who deletes himself (his old token still passes the
middleware, which does not look at the lock) comes back unlocked with his next
request; two requests with the same one-time token at the same time both get in;
the revoked list is lost at a restart (`model/revokedjwt.go:8` stores nothing). One
failed hourly call to Google ends the intake of events until the next start
(`RISC/webhook.go:102`), and if Google cannot be reached then, the channel is not
closed either, and `Start` never returns. With the provider silent, agents it had
flagged or quarantined get in, those it had blacklisted do not
(`v/authprovider.go:32`). Federation's updates of an agent without a row change
nothing and answer ok: an UPDATE never fails with the "Error 1452" they wait for
(`federation/calls.go:63`).

### Chats, Chats_proofs

Telegram accounts and chats. `row` is table `telegram`, `linked` and `withOp`
`telegramteam`, `listed` `telegramchatmembers`; `owner` and `members` are the teams;
`inchat` and `gone` are Telegram's own state; `upChan` the updates that wait. `act[a]`
are the locals of the bot's loop and of the web handlers.

- `RunUpdate`, `ProcessChatMessage`, `Sender`, `ChatToTeam`, `ChatResponses`,
  `OwnsTeam`, `GcLink`, `GcUnlink`, `GcTask`: a message in a chat. `GidV`, `FirstLogin`,
  `InitAgent`, `VerifyAgent`: a direct message.
- `Insert` or `Delete`, then `TelegramChat` .. `AddToChatMemberList` (`addToChat`), or
  `TelegramID` .. `Ban` (`removeFromChat`): the same code for the bot and the web.
- `Join`, `Leave`, `Say`, `RemoveBot`, `AddBot`, `ChatGone`: Telegram and its users. A ban
  puts an update into `upChan`; so does a join by invitation. A chat the bot was removed
  from is `gone` for it until somebody takes it back, and it learns nothing of it.
- `Cleanup`, `Paired`, `Chown`; `DeleteOperation`, `DeleteTeam`, `DeleteAgent`: the last
  statement of each, with what the foreign keys take along (`Cascade`): an operation's
  or a team's link with the list of its chat, an agent's account and the teams he owns.
  The calls of `RemoveAgent` that come before are moves of their own.
- `Fails`: a statement or a call to Telegram fails, and the caller returns, or logs it and
  has nothing more to do; `ListFails`: what the list of the chat answers is not waited for;
  `NoBus`: the web's changes do not reach Telegram as long as no bus is registered, which
  is for ever when `Start` has given up (`Telegram/bot.go:45`); `Crash`.

Run `chats` (one account, two agents, two teams and two chats, one web handler,
from any consistent database with both agents on both teams; two moves, failures among
them, each followed by all that it sets off; 0.66 million states): `LinksFollowOwners`,
`AgreeAtRest`. Two moves let every pair of a join, a leave, a removal, a link, a
pairing, a deletion, a failure and a crash overlap; two teams and two chats are what a
link taken over needs. There is no liveness here: updates wait for Telegram.

`AgreeAtRest` excuses, until he leaves the chat: who was not on the team when a statement
or call about him and that team failed, or a crash forgot him (`Unsettled`); who came while
the bot was not in the chat, or the chat was not linked; whose chat changed teams, or
account changed agents, while he was there. The failing statement itself is therefore
not caught; that everybody else is on the team, or out of the chat, is.

`LinksFollowOwners` lists every way a chat may lose its team: an owner of the team it had;
an owner of the team it gets (a takeover); the bot's removal; a chat not found; its
operation; its team. Takeovers and chats not found are the two that contradict what the
code says of itself (below), so it does not catch those; what it checks is that nothing
else changes a link, and that whose word it was has owned the team *while* the bot dealt
with him, however the team is handed over or deleted meanwhile.

What does not hold. An agent is listed before his invitation is sent; when that
fails he is never invited again (`Telegram/groups.go:207`). `chatResponses` logs a failing
`AddAgent` and lets the newcomer stay (`groups.go:105`); `removeFromChat` returns at its first
error, and he stays (`groups.go:291`). The update that follows
a ban removes the agent from the team once more, also when he was added again
meanwhile. `gcUnlink` says "only team owner can unlink the team"
(`Telegram/groupcommands.go:47`), but another team's owner can take the chat over
with `/link`. When a chat is not found, `addToChat` unlinks the team by its ID, whatever chat
it has by then (`groups.go:188`). `/acknowledge` and `/Reject` of a link change the
task and then panic (`groupcommands.go:465`, `546`), which ends the process, and with it
the updates that wait; "reject" is listed as a command (`commands.go:36`) and only
"Reject" is known to the bot (`groups.go:48`). `Crash` covers the panics.

## What is proved

TLC's runs check small instances. The theorems below hold for every value of the
constants that satisfies the named `ASSUME`s of the module. These say no more than that
stand-ins (`NoOne`, `Nil`, `None`, `Bot`) are nobody's names, that what clients send refers
to portals, agents and zones of the right kind, and that bounds are numbers. Each
`_proofs` module proves `TypeCorrect` (`TypeOK`), and what is named below, from an
inductive invariant (`IInv`). The properties are seldom inductive themselves, since they
are silent about the locals of handlers that are half-way.

`OpEdit_proofs`: `FetchedCopiesCurrent` (`FetchedCopyCurrent`) and `Refinement`
(`ImplementsOpDoc`). `IInv` adds: `LockInv`, who is inside its transaction holds the row;
`SaveInv`, a transaction that is about to commit has read the rows that are there and
has a sound body, hence its merge is what `OpDoc` lets a save of that body leave
(`MergeIsBody`); `TagInv`, edit IDs in use are below the next one; `FetchInv`, as long as
nothing was committed since the edit ID a fetch has read, the tables it has read are the
server's; `CopyInv`, copies' edit IDs are below the next one too. Refinement follows: only
`SaveCommit` changes `doc` and only `DeleteDrop` removes it.

`OpLife_proofs`: `GoneIsMarked` (`GoneMeansMarked`) and `UploadsApart`
(`UploadsNeverOverwrite`). `DropInv`: who is about to delete the row has noted the ID, or has
failed to and is at `blind`. `InsertInv`: the upload inside its transaction is the one
whose uncommitted row makes the others wait, and while there is one there is no
committed row.

`TaskBoard_proofs`: `ListsAreKept` (`CommitsWhatWasAsked`). `LoopInv` is the invariant of the
loop in `SetAssignments`, for a request that has read all the rows and whose reads are
still true: the local map holds who is assigned and has not been met on the list, the rows
to insert are those of agents met and not assigned. `DoneInv` is what that comes to after
the loop.

`SendQueue_proofs`: `NothingParkedForGood` (`ParkedMeansArmed`), `PausesKept`
(`PausesAreKept`) and `OncePlaced` (`EachMessageOnce`). `BlockInv`, the runner is blocked only
in its select (or after it has returned), and while it is pausing it is blocked and the
timer is the one of the pause; `FedInv`, the feeding loop has fed less than half a burst;
`NilInv`, the nil of the closed channel is received under a cancelled context only, so the
limiter refuses it. `OnceInv` is `EachMessageOnce` said of elements of the channel and of
`holdQ` in place of positions, and that the runner's hands are empty when it takes the next
message.

`Membership_proofs`: `StraysExplained` (`StraysHaveACause`) and `SyncLeavesVList`
(`SyncMirrorsV`). `WhoInv`, a handler that acts on an agent has one; `NoneInv`, nobody acts
on a team that does not exist yet; `LateInv`, a subscription under way is a member's or
excused; `TokenInv`, whoever is subscribed or about to be has a token in the table or is
excused, because a removal that finds no token does not tell Firebase. For
`SyncLeavesVList`, `SyncInv` follows the two loops of a clean synchronisation: whom the first
has looked at is on the team, what it has not is left of the list; in the second, whoever
is on the team too much is still to be removed, and nobody of the list is.

`Access_proofs`: `TeamsToldRight` (`RelevantTeamsTold`) and `Implements`, which assumes
`~Strict` (`ImplementsPolicy`: `Access` implements `AccessPolicy`, the hardness route apart). The
policy grants on what a request has *seen*, the code on what is in its locals; `Evidence`
ties the two: `op.Teams` are teams that were seen with a permission, each zone in the list
was opened by a permission seen, `read` and `found` are justified by what was seen. `Path` says
which question a request asks at which place. Each check is a lemma about records (from a
request that `Knows` and a true answer to one that knows, or that may be granted), and a
step of a handler is of one of three kinds (`ArriveStep`, `AskStep`, `ActStep`), each a step of
the policy or a stutter.

`Session_proofs`: `BarredOut` (`BarredStayOut`), `OnceOnly` (`UsedOnce`), `LocksRight`
(`LocksFollowEvents`) and `RevokedOut` (`RevokedStayOut`). `Bars`: a ground that has spoken
against a request's agent all along, and that no failing query has passed over, is still
in its table, and the request has not come to it yet. `Brings` and `SpentInv`: the one-time
token a request came with is nobody else's, and a used one is in no row unless it could
not be replaced. `Follows`: Google's last word on an agent is in the channel, or with the
worker, or done, or the agent is excused. `TokenInv`: tokens that go back to one login all
have its ID, which is why revoking that ID is enough.

`Chats_proofs`: `ChatAndTeamAgree` (`AgreeAtRest`) and `OwnersLink` (`LinksFollowOwners`).
`Core` has the keys of the tables and, as `Shape`, what an actor knows at each place.
`OwnInv`: before the bot links or unlinks for a command, the sender has owned the team since
his message was taken. `AgreeAtRest` speaks of quiet moments only; `RestInv` says how the
others lead there: an account that is in a team's chat without an excuse is its member's,
or the update of its coming waits, or an actor is about to put its agent on the team or the
account out of the chat. A failure or a crash excuses exactly those for whom it takes the
last of these reasons away (`Unsettled`).

Only model-checked, because the proof system has neither liveness nor `ENABLED`:
`EveryRequestEnds`, `EditsGetAnEditID`, `EveryMessageSettled`, `EventsAreHandled`. The three
properties expected to fail (`NoLostUpdate`, `IsAssignedToAgrees`, `CancelStopsTelegram`)
are refuted by TLC. Every other property of the runs is a theorem.

## The advisory lock

`model/operation.go:171` says "Database is locked per-op". `GET_LOCK` and
`RELEASE_LOCK` (lines 195, 200) each go to any connection of the pool; MySQL ties
the lock to the connection, lets it be taken again there and ignores a release
from elsewhere; and the answer, 0 after one second, is not read. Two updates can
be between the two calls at once. `OpEdit` therefore leaves the lock out and
relies on the row lock of `UPDATE operation`, which is what `Refinement` needs.

## Not modelled

- Names, comments, colours, the order and delta of tasks, keys on hand, the shapes
  of zones: columns written by one statement, which nothing else depends on.
- Defensive keys, community profiles, background tasks: single statements.
- What is said on Firebase and Telegram, and Firebase's rate limiter, which compares
  the time of the last message the wrong way round (`Firebase/ratelimit.go:31`).
- Locations and the switches that share them with a team. `FetchAgent` joins the teams
  of two agents without comparing them (`model/team.go:464`), so sharing with one team
  shows a location to members of others.
- Bulk import from V, and the calls that tell rocks of joins and leaves.
- Configuration, templates, logs, the creation of tables, generated code, tools.

## Plan

Done: OpDoc, OpEdit, OpLife, TaskBoard, SendQueue, Membership, AccessPolicy, Access,
Session, Chats, and the theorems about each.

To state and prove: more action properties of these modules (that an excuse is only given
by the actions its comment names, that `resub` never subscribes whom nobody had added), and
what is modelled of the rest.

To model: the rate limiter; the sharing of locations; keys and zones beside the drawing;
dependencies of tasks.
