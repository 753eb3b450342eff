------------------------------- MODULE OpEdit -------------------------------
(***************************************************************************)
(* Fetching, saving and deleting one operation: drawGetRoute,              *)
(* drawUpdateRoute and drawDeleteRoute with the model calls they make      *)
(* (Stat, Populate, DrawUpdate, Touch, Delete), as the database sees them. *)
(*                                                                         *)
(* Each client has at most one request in flight, served by a goroutine of *)
(* its own; an action is one SQL statement of a handler, or a run of       *)
(* statements nobody else can observe.  A statement outside a transaction  *)
(* commits at once; the writes of a transaction become visible at COMMIT.  *)
(* The first write of DrawUpdate's transaction, UPDATE operation, takes    *)
(* InnoDB's exclusive lock on the operation row; every other writer of     *)
(* that row, and every insert into a child table of it (the foreign keys   *)
(* lock the parent), waits for it.  GET_LOCK is left out: it is taken on   *)
(* one pooled connection and released on another, times out after a        *)
(* second, and its answer is not read, so it keeps nobody out.  With       *)
(* MayFail any statement may fail: most errors end the request, the others *)
(* are where the action says so.                                           *)
(***************************************************************************)
EXTENDS Naturals

CONSTANTS Clients,                          \* one request at a time each
          Portals, Markers, Links, Anchors, \* see OpDoc
          Bodies,                           \* what a client may submit
          MaxTag,                           \* bound on edit IDs (model checking)
          MayFail,                          \* crashes and database errors are in play
          NoOne                             \* not a client

ASSUME BodiesType == /\ Bodies \subseteq [portals: SUBSET Portals,
                                          markers: SUBSET Markers,
                                          links: SUBSET Links,
                                          loops: SUBSET Links]
                     /\ Anchors \in [Markers \cup Links -> SUBSET Portals]
ASSUME BoundsType == MaxTag \in Nat /\ MayFail \in BOOLEAN /\ NoOne \notin Clients

VARIABLES
  exists, doc,  \* the operation row; its portal, marker and link rows
  lasteditid,   \* operation.lasteditid
  deletedop,    \* the ID is in table deletedops
  rowlock,      \* the transaction holding the operation row, or NoOne
  req,          \* the locals of each client's handler
  copy,         \* the client's local copy
  nextid,       \* next edit ID util.GenerateID hands out
  dirty         \* history: doc has changed since lasteditid last did

db   == <<exists, doc, lasteditid, deletedop, rowlock>>
hist == <<nextid, dirty>>
vars == <<db, req, copy, hist>>

Doc == INSTANCE OpDoc

\* Edit IDs are 40 random characters: all different, so numbers stand for
\* them.  NoTag is the empty header; the column's default 'unset' is Unset.
NoTag == 0
Unset == 1

Copy   == [tag: Nat, doc: Doc!Drawing, from: {"none", "fetch", "save"}]
NoCopy == [tag |-> NoTag, doc |-> Doc!NoDrawing, from |-> "none"]

FetchAt  == {"stat", "row", "portals", "markers", "links"}
InTx     == {"tables", "commit"}
SaveAt   == {"match", "gate", "begin", "touch"} \cup InTx
DeleteAt == {"mark", "drop"}

\* at: the next statement; im: If-Match; body: what was sent; seen: the
\* rows DrawUpdate found (its cur... maps); tag, read: the edit ID and the
\* rows Populate has read.
Request   == [at: {"idle"} \cup FetchAt \cup SaveAt \cup DeleteAt, im: Nat,
              body: Doc!Body, seen: Doc!Drawing, tag: Nat, read: Doc!Drawing]
NoRequest == [at |-> "idle", im |-> NoTag, body |-> Doc!NoBody,
              seen |-> Doc!NoDrawing, tag |-> NoTag, read |-> Doc!NoDrawing]

TypeOK ==
  /\ exists \in BOOLEAN /\ deletedop \in BOOLEAN /\ dirty \in BOOLEAN
  /\ doc \in Doc!Drawing
  /\ lasteditid \in Nat /\ nextid \in Nat
  /\ rowlock \in Clients \cup {NoOne}
  /\ req \in [Clients -> Request]
  /\ copy \in [Clients -> Copy]

Init ==
  /\ exists = TRUE
  /\ \E b \in Bodies : Doc!Sound(b) /\ doc = Doc!Rows(b)
  /\ lasteditid = Unset
  /\ nextid = Unset + 1
  /\ deletedop = FALSE
  /\ dirty = FALSE
  /\ rowlock = NoOne
  /\ req = [c \in Clients |-> NoRequest]
  /\ copy = [c \in Clients |-> NoCopy]

At(c, l)      == req[c].at = l
Goto(c, l)    == req' = [req EXCEPT ![c].at = l]
Step(c, l, k) == At(c, l) /\ Goto(c, k)
Finish(c)     == req' = [req EXCEPT ![c] = NoRequest]
Free          == rowlock = NoOne
-----------------------------------------------------------------------------
(* GET /draw/{opID} *)

\* IsDeletedOp: an error reading deletedops is a no.
KnownDeleted == deletedop /\ ~MayFail

\* IsDeletedOp and ReadAccess: without the row nobody owns or shares it.
FetchStart(c) ==
  /\ Step(c, "idle", "stat")
  /\ exists /\ ~KnownDeleted
  /\ UNCHANGED <<db, copy, hist>>

\* Stat, If-None-Match and If-Modified-Since.  A 304 leaves the client with
\* its copy; If-Modified-Since compares whole seconds, so it may say 304 to
\* any client that has a copy.
FetchStat(c) ==
  /\ At(c, "stat")
  /\ \E inm \in {NoTag, copy[c].tag} :
       \/ ~exists /\ Finish(c)
       \/ exists /\ inm # NoTag /\ inm = lasteditid /\ Finish(c)
       \/ exists /\ copy[c].from # "none" /\ Finish(c)
       \/ exists /\ (inm = NoTag \/ inm # lasteditid) /\ Goto(c, "row")
  /\ UNCHANGED <<db, copy, hist>>

\* Populate reads the operation row first, then table by table; without the
\* row it fails, at the row itself or at the access check that follows.
FetchRow(c) ==
  /\ At(c, "row")
  /\ IF exists
     THEN req' = [req EXCEPT ![c].at = "portals", ![c].tag = lasteditid]
     ELSE Finish(c)
  /\ UNCHANGED <<db, copy, hist>>

FetchPortals(c) ==
  /\ At(c, "portals")
  /\ IF exists
     THEN req' = [req EXCEPT ![c].at = "markers", ![c].read = [@ EXCEPT !.portals = doc.portals]]
     ELSE Finish(c)
  /\ UNCHANGED <<db, copy, hist>>

FetchMarkers(c) ==
  /\ At(c, "markers")
  /\ req' = [req EXCEPT ![c].at = "links", ![c].read = [@ EXCEPT !.markers = doc.markers]]
  /\ UNCHANGED <<db, copy, hist>>

\* Mutant of FetchLinks: Populate reads lasteditid after the tables.
FetchLinksTagLast(c) ==
  /\ At(c, "links")
  /\ copy' = [copy EXCEPT ![c] = [tag |-> lasteditid, from |-> "fetch",
                                  doc |-> [req[c].read EXCEPT !.links = doc.links]]]
  /\ Finish(c)
  /\ UNCHANGED <<db, hist>>

\* The last table, then the reply with ETag: LastEditID.
FetchLinks(c) ==
  /\ At(c, "links")
  /\ copy' = [copy EXCEPT ![c] = [tag |-> req[c].tag, from |-> "fetch",
                                  doc |-> [req[c].read EXCEPT !.links = doc.links]]]
  /\ Finish(c)
  /\ UNCHANGED <<db, hist>>
-----------------------------------------------------------------------------
(* PUT /draw/{opID} *)

\* The route's WriteAccess; the client sends any body, with or without the
\* edit ID of its copy.
SaveStart(c) ==
  /\ At(c, "idle")
  /\ exists
  /\ nextid <= MaxTag
  /\ \E b \in Bodies, t \in {NoTag, copy[c].tag} :
       req' = [req EXCEPT ![c].at = "match", ![c].body = b, ![c].im = t]
  /\ UNCHANGED <<db, copy, hist>>

\* Stat, and 412 "local copy out-of-date" when If-Match names another edit.
SaveMatch(c) ==
  /\ At(c, "match")
  /\ IF exists /\ req[c].im \in {NoTag, lasteditid} THEN Goto(c, "gate") ELSE Finish(c)
  /\ UNCHANGED <<db, copy, hist>>

\* DrawUpdate's own checks: IsDeletedOp, Valid, WriteAccess.
SaveGate(c) ==
  /\ At(c, "gate")
  /\ \/ exists /\ ~KnownDeleted /\ Goto(c, "begin")
     \/ (~exists \/ deletedop) /\ Finish(c)
  /\ UNCHANGED <<db, copy, hist>>

\* Mutant of SaveLock: the tables are read before the row is locked.
SaveLockLate(c) ==
  /\ Step(c, "begin", "tables")
  /\ UNCHANGED <<db, copy, hist>>

\* BEGIN; UPDATE operation ...: waits for the row.  With the row gone the
\* UPDATE changes nothing, the first INSERT of a child breaks its foreign
\* key, and only a drawing without portals gets through (zone errors are
\* logged and skipped).
SaveLock(c) ==
  /\ At(c, "begin")
  /\ Free
  /\ \/ exists /\ rowlock' = c /\ Goto(c, "tables")
     \/ ~exists /\ UNCHANGED rowlock
                /\ IF req[c].body = Doc!NoBody THEN Goto(c, "touch") ELSE Finish(c)
  /\ UNCHANGED <<exists, doc, lasteditid, deletedop, copy, hist>>

\* Mutant of SaveTables: no deferred Rollback on the error path.
SaveTablesNoRollback(c) ==
  /\ At(c, "tables")
  /\ IF Doc!Sound(req[c].body)
     THEN req' = [req EXCEPT ![c].at = "commit", ![c].seen = doc]
     ELSE Finish(c)
  /\ UNCHANGED <<db, copy, hist>>

\* drawOpUpdatePortals, ...Markers, ...Links: read what the tables hold, then
\* replace the rows sent and delete the rest; a marker or link on a portal
\* that was not sent rolls everything back.  updateLink ignores a link with
\* From = To, which is then taken off the list of the links to delete.
SaveTables(c) ==
  /\ At(c, "tables")
  /\ IF Doc!Sound(req[c].body)
     THEN req' = [req EXCEPT ![c].at = "commit", ![c].seen = doc] /\ UNCHANGED rowlock
     ELSE Finish(c) /\ rowlock' = NoOne
  /\ UNCHANGED <<exists, doc, lasteditid, deletedop, copy, hist>>

\* Mutant of Merge: the link upsert is fed the markers.
MergeWrongTable(d, s, b) ==
  [portals |-> (d.portals \ (s.portals \ b.portals)) \cup b.portals,
   markers |-> (d.markers \ (s.markers \ b.markers)) \cup b.markers,
   links   |-> (d.links   \ (s.links   \ (b.links \cup b.loops))) \cup b.markers]

\* What COMMIT leaves of rows d when a transaction saw rows s and sent b.
Merge(d, s, b) ==
  [portals |-> (d.portals \ (s.portals \ b.portals)) \cup b.portals,
   markers |-> (d.markers \ (s.markers \ b.markers)) \cup b.markers,
   links   |-> (d.links   \ (s.links   \ (b.links \cup b.loops))) \cup b.links]

SaveCommit(c) ==
  /\ At(c, "commit")
  /\ req' = [req EXCEPT ![c].at = "touch", ![c].seen = Doc!NoDrawing]
  /\ doc' = Merge(doc, req[c].seen, req[c].body)
  /\ rowlock' = NoOne
  /\ dirty' = TRUE
  /\ UNCHANGED <<exists, lasteditid, deletedop, copy, nextid>>

\* The client hangs up, and the request context is cancelled, or a statement
\* fails: the transaction is rolled back and DrawUpdate returns an error.
SaveAbort(c) ==
  /\ req[c].at \in {"begin"} \cup InTx
  /\ Finish(c)
  /\ rowlock' = IF rowlock = c THEN NoOne ELSE rowlock
  /\ UNCHANGED <<exists, doc, lasteditid, deletedop, copy, hist>>

\* What the client has after the reply: its drawing under the edit ID the
\* reply names, or, with the reply lost, what it had.
Answered(c, t) ==
  \/ copy' = [copy EXCEPT ![c] = [tag |-> t, doc |-> Doc!Rows(req[c].body), from |-> "save"]]
  \/ UNCHANGED copy

\* Mutant of SaveTouch: a save without If-Match does not touch the operation.
SaveTouchIfMatched(c) ==
  /\ At(c, "touch") /\ Finish(c)
  /\ Free
  /\ nextid' = nextid + 1
  /\ IF exists /\ req[c].im # NoTag
     THEN lasteditid' = nextid /\ dirty' = FALSE
     ELSE UNCHANGED <<lasteditid, dirty>>
  /\ Answered(c, nextid)
  /\ UNCHANGED <<exists, doc, deletedop, rowlock>>

\* Touch: a fresh lasteditid, in a statement of its own after COMMIT.
SaveTouch(c) ==
  /\ At(c, "touch") /\ Finish(c)
  /\ Free
  /\ nextid' = nextid + 1
  /\ IF exists
     THEN lasteditid' = nextid /\ dirty' = FALSE
     ELSE UNCHANGED <<lasteditid, dirty>>
  /\ Answered(c, nextid)
  /\ UNCHANGED <<exists, doc, deletedop, rowlock>>

\* Touch's UPDATE fails; the route still answers "ok", with an empty ID.
SaveTouchFails(c) ==
  /\ MayFail
  /\ At(c, "touch") /\ Finish(c)
  /\ Answered(c, NoTag)
  /\ UNCHANGED <<db, hist>>
-----------------------------------------------------------------------------
(* DELETE /draw/{opID} *)

\* IsOwner, in the route and again in Delete.
DeleteStart(c) ==
  /\ Step(c, "idle", "mark")
  /\ exists
  /\ UNCHANGED <<db, copy, hist>>

\* INSERT INTO deletedops; on an error it carries on.
DeleteMark(c) ==
  /\ Step(c, "mark", "drop")
  /\ deletedop' = TRUE \/ (MayFail /\ UNCHANGED deletedop)
  /\ UNCHANGED <<exists, doc, lasteditid, rowlock, copy, hist>>

\* DELETE FROM operation, which cascades to every child table.
DeleteDrop(c) ==
  /\ At(c, "drop") /\ Finish(c)
  /\ Free
  /\ exists' = FALSE
  /\ doc' = Doc!NoDrawing
  /\ UNCHANGED <<lasteditid, deletedop, rowlock, copy, hist>>
-----------------------------------------------------------------------------
\* A read outside the transaction, or the DELETE, fails: the request ends.
StatementFails(c) ==
  /\ MayFail
  /\ req[c].at \in FetchAt \cup {"match", "gate", "drop"}
  /\ Finish(c)
  /\ UNCHANGED <<db, copy, hist>>

\* The server dies: handlers are gone, open transactions roll back.
Crash ==
  /\ MayFail
  /\ \E c \in Clients : ~At(c, "idle")
  /\ req' = [c \in Clients |-> NoRequest]
  /\ rowlock' = NoOne
  /\ UNCHANGED <<exists, doc, lasteditid, deletedop, copy, hist>>

Fetch(c)  == \/ FetchStat(c) \/ FetchRow(c) \/ FetchPortals(c)
             \/ FetchMarkers(c) \/ FetchLinks(c)
Save(c)   == \/ SaveMatch(c) \/ SaveGate(c) \/ SaveLock(c) \/ SaveTables(c)
             \/ SaveCommit(c) \/ SaveTouch(c)
Delete(c) == DeleteMark(c) \/ DeleteDrop(c)
Begin(c)  == FetchStart(c) \/ SaveStart(c) \/ DeleteStart(c)

Next == \/ \E c \in Clients : \/ Begin(c) \/ Fetch(c) \/ Save(c) \/ Delete(c)
                              \/ SaveAbort(c) \/ SaveTouchFails(c) \/ StatementFails(c)
        \/ Crash

Spec == Init /\ [][Next]_vars

\* A goroutine keeps running, and InnoDB queues lock waiters in order: a
\* request that waits for the row gets it if it is freed again and again.
Fairness == \A c \in Clients : /\ WF_vars(Fetch(c))
                               /\ SF_vars(Save(c))
                               /\ SF_vars(Delete(c))

FairSpec == Spec /\ Fairness
-----------------------------------------------------------------------------
(* Properties *)

CurrentCopy(k) == exists /\ ~dirty /\ k.tag = lasteditid => k.doc = doc

\* A copy fetched from the server whose ETag is still the server's
\* lasteditid is the server's drawing, however the tables Populate read one
\* after the other were rewritten meanwhile; only the time between a COMMIT
\* and the next Touch is excepted (dirty).  If-None-Match and If-Match rest on
\* it, and it rests on Populate reading the operation row first.
FetchedCopyCurrent == \A c \in Clients : copy[c].from = "fetch" => CurrentCopy(copy[c])

\* Whatever handlers do at the same time, a save replaces the drawing in one
\* step by what one client submitted, sound in itself, plus nothing but the
\* links its body named with both ends on one portal: the operation store
\* implements OpDoc ("each update runs in an all-or-nothing transaction",
\* operation.go:171).
ImplementsOpDoc == Doc!Spec

\* No request waits for the operation row for ever, whichever way the others
\* end: committed, refused or hung up on.
EveryRequestEnds == \A c \in Clients : []<>At(c, "idle")

\* A committed edit does not stay hidden behind the old edit ID: without
\* crashes and database errors lasteditid changes after every change of the
\* drawing (or the operation goes).
EditsGetAnEditID == (exists /\ dirty) ~> (~exists \/ ~dirty)

\* "local copy out-of-date" (http/draw.go:253): a save sent with the edit ID
\* of a fetched copy only ever replaces the drawing of that copy.
NoLostUpdate ==
  [][\A c \in Clients :
       At(c, "commit") /\ req'[c].at = "touch" /\ req[c].im # NoTag /\ copy[c].from = "fetch"
         => doc = copy[c].doc]_vars
=============================================================================
