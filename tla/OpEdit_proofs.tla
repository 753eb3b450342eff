--------------------------- MODULE OpEdit_proofs ---------------------------
(***************************************************************************)
(* Theorems about OpEdit, for any clients, drawings and bounds: the type   *)
(* invariant, FetchedCopyCurrent and the refinement of OpDoc.  Both rest   *)
(* on IInv.  FetchedCopyCurrent is not inductive: it needs FetchInv, which *)
(* says what a Populate under way has read, and TagInv, which says a fresh *)
(* edit ID is in nobody's hands.  The refinement needs LockInv and SaveInv:*)
(* between UPDATE operation and COMMIT no other transaction commits, so    *)
(* the rows a transaction saw are the rows its COMMIT replaces.            *)
(***************************************************************************)
EXTENDS OpEdit, TLAPS

InFetch == {"portals", "markers", "links"}

\* A transaction past its UPDATE holds the row, nobody else does, and the
\* row cannot go while it is held.
LockInv == \A c \in Clients : /\ rowlock = c <=> req[c].at \in InTx
                              /\ rowlock = c => exists

\* A transaction about to commit a sound drawing saw the rows that are there.
SaveInv == \A c \in Clients :
  /\ req[c].at \in SaveAt => req[c].body \in Bodies
  /\ req[c].at = "commit" => /\ Doc!Sound(req[c].body)
                             /\ req[c].seen = doc

\* An edit ID in anybody's hands was handed out before.
TagInv == /\ NoTag < nextid
          /\ lasteditid < nextid
          /\ \A c \in Clients : req[c].tag < nextid

\* Populate under way under the current edit ID has read current tables.
FetchInv == \A c \in Clients : req[c].at \in InFetch =>
  /\ exists /\ ~dirty /\ req[c].tag = lasteditid =>
       /\ req[c].at # "portals" => req[c].read.portals = doc.portals
       /\ req[c].at = "links"   => req[c].read.markers = doc.markers

CopyInv == \A c \in Clients : copy[c].tag < nextid

IInv == TypeOK /\ LockInv /\ SaveInv /\ TagInv /\ FetchInv /\ CopyInv /\ FetchedCopyCurrent
-----------------------------------------------------------------------------
(* Types *)

Places == {"idle"} \cup FetchAt \cup SaveAt \cup DeleteAt

\* Moving on, and finishing, keep the requests well typed.
LEMMA GotoType ==
  ASSUME TypeOK, NEW c \in Clients, NEW l \in Places
  PROVE  [req EXCEPT ![c].at = l] \in [Clients -> Request]
BY DEF TypeOK, Request, Places

LEMMA NoRequestType == NoRequest \in Request /\ NoCopy \in Copy
BY DEF NoRequest, NoCopy, Request, Copy, NoTag, Doc!NoDrawing, Doc!Drawing, Doc!NoBody, Doc!Body

LEMMA FinishType ==
  ASSUME TypeOK, NEW c \in Clients
  PROVE  [req EXCEPT ![c] = NoRequest] \in [Clients -> Request]
BY NoRequestType DEF TypeOK

\* The rows of a body are a drawing; what a commit leaves is a drawing, and
\* with the rows seen unchanged it is what OpDoc says a save leaves.
LEMMA RowsType ==
  ASSUME NEW b \in Doc!Body
  PROVE  Doc!Rows(b) \in Doc!Drawing
BY DEF Doc!Rows, Doc!Drawing, Doc!Body

LEMMA MergeType ==
  ASSUME NEW d \in Doc!Drawing, NEW s \in Doc!Drawing, NEW b \in Doc!Body
  PROVE  Merge(d, s, b) \in Doc!Drawing
BY DEF Merge, Doc!Drawing, Doc!Body

LEMMA MergeSeen ==
  ASSUME NEW d, NEW b
  PROVE  Merge(d, d, b) = Doc!After(d, b)
<1>1. (d.portals \ (d.portals \ b.portals)) \cup b.portals = b.portals
  OBVIOUS
<1>2. (d.markers \ (d.markers \ b.markers)) \cup b.markers = b.markers
  OBVIOUS
<1>3. (d.links \ (d.links \ (b.links \cup b.loops))) \cup b.links
        = b.links \cup (d.links \cap b.loops)
  OBVIOUS
<1> QED BY <1>1, <1>2, <1>3 DEF Merge, Doc!After

LEMMA AnsweredType ==
  ASSUME TypeOK, NEW c \in Clients, NEW t \in Nat, Answered(c, t)
  PROVE  copy' \in [Clients -> Copy]
<1>1. Doc!Rows(req[c].body) \in Doc!Drawing
  BY RowsType DEF TypeOK, Request
<1> QED BY <1>1 DEF TypeOK, Answered, Copy

\* Reading one more table changes that table only.
LEMMA ReadTables ==
  ASSUME NEW d \in Doc!Drawing, NEW e \in Doc!Drawing
  PROVE  /\ [d EXCEPT !.portals = e.portals] \in Doc!Drawing
         /\ [d EXCEPT !.portals = e.portals].portals = e.portals
         /\ [d EXCEPT !.markers = e.markers] \in Doc!Drawing
         /\ [d EXCEPT !.markers = e.markers].markers = e.markers
         /\ [d EXCEPT !.markers = e.markers].portals = d.portals
         /\ [d EXCEPT !.links = e.links] \in Doc!Drawing
         /\ [d EXCEPT !.links = e.links].links = e.links
         /\ [d EXCEPT !.links = e.links].portals = d.portals
         /\ [d EXCEPT !.links = e.links].markers = d.markers
BY DEF Doc!Drawing

LEMMA TypeInit == Init => TypeOK
<1> SUFFICES ASSUME Init PROVE TypeOK
  OBVIOUS
<1>1. doc \in Doc!Drawing
  BY BodiesType, RowsType DEF Init, Doc!Body
<1>2. req \in [Clients -> Request] /\ copy \in [Clients -> Copy]
  BY NoRequestType DEF Init
<1>3. rowlock \in Clients \cup {NoOne} /\ lasteditid \in Nat /\ nextid \in Nat
  BY DEF Init, Unset
<1>4. exists \in BOOLEAN /\ deletedop \in BOOLEAN /\ dirty \in BOOLEAN
  BY DEF Init
<1> QED BY <1>1, <1>2, <1>3, <1>4 DEF TypeOK

LEMMA FetchTypes ==
  ASSUME TypeOK, NEW c \in Clients, FetchStart(c) \/ Fetch(c)
  PROVE  TypeOK'
<1>1. CASE FetchStart(c)
  BY <1>1, GotoType DEF FetchStart, Step, Goto, Places, FetchAt, TypeOK, db, hist
<1>2. CASE FetchStat(c)
  BY <1>2, GotoType, FinishType DEF FetchStat, Goto, Finish, Places, FetchAt, TypeOK, db, hist
<1>3. CASE FetchRow(c)
  <2>1. req' \in [Clients -> Request]
    BY <1>3, FinishType DEF FetchRow, Finish, Request, FetchAt, TypeOK
  <2> QED BY <1>3, <2>1 DEF FetchRow, TypeOK, db, hist
<1>4. CASE FetchPortals(c)
  <2> DEFINE d == [req[c].read EXCEPT !.portals = doc.portals]
  <2>1. d \in Doc!Drawing
    BY ReadTables DEF TypeOK, Request
  <2>2. req' = [req EXCEPT ![c].at = "markers", ![c].read = d] \/ Finish(c)
    BY <1>4 DEF FetchPortals
  <2> HIDE DEF d
  <2>3. req' \in [Clients -> Request]
    BY <2>1, <2>2, FinishType DEF Finish, Request, FetchAt, TypeOK
  <2> QED BY <1>4, <2>3 DEF FetchPortals, TypeOK, db, hist
<1>5. CASE FetchMarkers(c)
  <2> DEFINE d == [req[c].read EXCEPT !.markers = doc.markers]
  <2>1. d \in Doc!Drawing
    BY ReadTables DEF TypeOK, Request
  <2>2. req' = [req EXCEPT ![c].at = "links", ![c].read = d]
    BY <1>5 DEF FetchMarkers
  <2> HIDE DEF d
  <2>3. req' \in [Clients -> Request]
    BY <2>1, <2>2 DEF Request, FetchAt, TypeOK
  <2> QED BY <1>5, <2>3 DEF FetchMarkers, TypeOK, db, hist
<1>6. CASE FetchLinks(c)
  <2>1. copy' \in [Clients -> Copy]
    BY <1>6, ReadTables DEF FetchLinks, Request, Copy, TypeOK
  <2> QED BY <1>6, <2>1, FinishType DEF FetchLinks, Finish, TypeOK, db, hist
<1> QED BY <1>1, <1>2, <1>3, <1>4, <1>5, <1>6 DEF Fetch

LEMMA SaveTypes ==
  ASSUME TypeOK, NEW c \in Clients, SaveStart(c) \/ Save(c) \/ SaveAbort(c) \/ SaveTouchFails(c)
  PROVE  TypeOK'
<1> USE DEF db, hist
<1>1. CASE SaveStart(c)
  <2>1. PICK b \in Bodies, t \in {NoTag, copy[c].tag} :
          req' = [req EXCEPT ![c].at = "match", ![c].body = b, ![c].im = t]
    BY <1>1 DEF SaveStart
  <2>2. b \in Doc!Body /\ t \in Nat
    BY BodiesType DEF Doc!Body, TypeOK, Copy, NoTag
  <2>4. [req[c] EXCEPT !.at = "match", !.body = b, !.im = t] \in Request
    BY <2>2 DEF TypeOK, Request, SaveAt
  <2>3. req' \in [Clients -> Request]
    BY <2>1, <2>4 DEF TypeOK
  <2> QED BY <1>1, <2>3 DEF SaveStart, TypeOK
<1>2. CASE SaveMatch(c)
  BY <1>2, GotoType, FinishType DEF SaveMatch, Goto, Finish, Places, SaveAt, TypeOK
<1>3. CASE SaveGate(c)
  BY <1>3, GotoType, FinishType DEF SaveGate, Goto, Finish, Places, SaveAt, TypeOK
<1>4. CASE SaveLock(c)
  <2>1. req' \in [Clients -> Request]
    BY <1>4, GotoType, FinishType DEF SaveLock, Goto, Finish, Places, SaveAt, InTx
  <2>2. rowlock' \in Clients \cup {NoOne}
    BY <1>4 DEF SaveLock, TypeOK
  <2> QED BY <1>4, <2>1, <2>2 DEF SaveLock, TypeOK
<1>5. CASE SaveTables(c)
  <2>1. req' \in [Clients -> Request]
    BY <1>5, FinishType DEF SaveTables, Finish, Request, SaveAt, InTx, TypeOK
  <2>2. rowlock' \in Clients \cup {NoOne}
    BY <1>5 DEF SaveTables, TypeOK
  <2> QED BY <1>5, <2>1, <2>2 DEF SaveTables, TypeOK
<1>6. CASE SaveCommit(c)
  <2>1. Doc!NoDrawing \in Doc!Drawing
    BY DEF Doc!NoDrawing, Doc!Drawing
  <2>2. req' \in [Clients -> Request]
    BY <1>6, <2>1 DEF SaveCommit, Request, SaveAt, TypeOK
  <2>3. doc' \in Doc!Drawing
    BY <1>6, MergeType DEF SaveCommit, TypeOK, Request
  <2> QED BY <1>6, <2>2, <2>3 DEF SaveCommit, TypeOK
<1>7. CASE SaveTouch(c)
  <2>1. copy' \in [Clients -> Copy]
    BY <1>7, AnsweredType DEF SaveTouch, TypeOK
  <2>2. lasteditid' \in Nat /\ nextid' \in Nat
    BY <1>7 DEF SaveTouch, TypeOK
  <2>3. dirty' \in BOOLEAN
    BY <1>7 DEF SaveTouch, TypeOK
  <2> QED BY <1>7, <2>1, <2>2, <2>3, FinishType DEF SaveTouch, Finish, TypeOK
<1>8. CASE SaveAbort(c)
  BY <1>8, FinishType DEF SaveAbort, Finish, TypeOK
<1>9. CASE SaveTouchFails(c)
  <2>1. copy' \in [Clients -> Copy]
    BY <1>9, AnsweredType DEF SaveTouchFails, NoTag
  <2> QED BY <1>9, <2>1, FinishType DEF SaveTouchFails, Finish, TypeOK
<1> QED BY <1>1, <1>2, <1>3, <1>4, <1>5, <1>6, <1>7, <1>8, <1>9 DEF Save

LEMMA DeleteTypes ==
  ASSUME TypeOK, NEW c \in Clients, DeleteStart(c) \/ Delete(c) \/ StatementFails(c)
  PROVE  TypeOK'
<1> USE DEF db, hist
<1>1. CASE DeleteStart(c)
  BY <1>1, GotoType DEF DeleteStart, Step, Goto, Places, DeleteAt, TypeOK
<1>2. CASE DeleteMark(c)
  BY <1>2, GotoType DEF DeleteMark, Step, Goto, Places, DeleteAt, TypeOK
<1>3. CASE DeleteDrop(c)
  <2>1. Doc!NoDrawing \in Doc!Drawing
    BY DEF Doc!NoDrawing, Doc!Drawing
  <2> QED BY <1>3, <2>1, FinishType DEF DeleteDrop, Finish, TypeOK
<1>4. CASE StatementFails(c)
  BY <1>4, FinishType DEF StatementFails, Finish, TypeOK
<1> QED BY <1>1, <1>2, <1>3, <1>4 DEF Delete

LEMMA CrashTypes == TypeOK /\ Crash => TypeOK'
<1> SUFFICES ASSUME TypeOK, Crash PROVE TypeOK'
  OBVIOUS
<1>1. req' \in [Clients -> Request]
  BY NoRequestType DEF Crash
<1> QED BY <1>1 DEF Crash, TypeOK, hist

LEMMA TypeStep == TypeOK /\ [Next]_vars => TypeOK'
<1> SUFFICES ASSUME TypeOK, [Next]_vars PROVE TypeOK'
  OBVIOUS
<1>1. CASE Crash
  BY <1>1, CrashTypes
<1>2. ASSUME NEW c \in Clients,
             \/ Begin(c) \/ Fetch(c) \/ Save(c) \/ Delete(c)
             \/ SaveAbort(c) \/ SaveTouchFails(c) \/ StatementFails(c)
      PROVE  TypeOK'
  BY <1>2, FetchTypes, SaveTypes, DeleteTypes DEF Begin
<1>3. CASE UNCHANGED vars
  BY <1>3 DEF vars, db, hist, TypeOK
<1> QED BY <1>1, <1>2, <1>3 DEF Next

\* Every variable keeps its type.
THEOREM TypeCorrect == Spec => []TypeOK
<1> QED BY TypeInit, TypeStep, PTL DEF Spec
-----------------------------------------------------------------------------
(* The inductive invariant *)

LEMMA Idle == /\ NoRequest.at = "idle"
              /\ NoRequest.tag = 0
              /\ NoCopy.tag = 0
              /\ NoCopy.from = "none"
BY DEF NoRequest, NoCopy, NoTag

\* What a finishing request and a request that moves on leave alone.
LEMMA FinishOthers ==
  ASSUME TypeOK, NEW c \in Clients, Finish(c)
  PROVE  /\ req'[c].at = "idle" /\ req'[c].tag = 0
         /\ \A d \in Clients \ {c} : req'[d] = req[d]
BY Idle DEF Finish, TypeOK

LEMMA GotoOthers ==
  ASSUME TypeOK, NEW c \in Clients, NEW l, Goto(c, l)
  PROVE  /\ req'[c].at = l /\ req'[c].tag = req[c].tag /\ req'[c].read = req[c].read
         /\ req'[c].body = req[c].body /\ req'[c].seen = req[c].seen
         /\ \A d \in Clients \ {c} : req'[d] = req[d]
BY DEF Goto, TypeOK, Request

LEMMA InvInit == Init => IInv
<1> SUFFICES ASSUME Init PROVE IInv
  OBVIOUS
<1>1. \A c \in Clients : /\ req[c].at = "idle" /\ req[c].tag = 0
                         /\ copy[c].tag = 0 /\ copy[c].from = "none"
  BY Idle DEF Init
<1>2. LockInv
  BY <1>1, BoundsType DEF Init, LockInv, InTx
<1>3. SaveInv
  BY <1>1 DEF SaveInv, SaveAt, InTx
<1>4. TagInv /\ CopyInv
  BY <1>1 DEF Init, TagInv, CopyInv, NoTag, Unset
<1>5. FetchInv /\ FetchedCopyCurrent
  BY <1>1 DEF FetchInv, InFetch, FetchedCopyCurrent
<1> QED BY TypeInit, <1>2, <1>3, <1>4, <1>5 DEF IInv

\* A step that leaves the database and the copies alone, and a request that
\* is outside Populate and outside the transaction before and after it.
LEMMA QuietStep ==
  ASSUME IInv, TypeOK', NEW c \in Clients,
         UNCHANGED <<db, copy, hist>>,
         \A d \in Clients \ {c} : req'[d] = req[d],
         req[c].at \notin InTx, req'[c].at \notin InTx \cup InFetch,
         req'[c].at \in SaveAt => req'[c].body \in Bodies,
         req'[c].tag \in {0, req[c].tag}
  PROVE  IInv'
<1> USE DEF IInv, db, hist
<1>1. LockInv'
  BY DEF LockInv
<1>2. SaveInv'
  BY DEF SaveInv, InTx
<1>3. TagInv' /\ CopyInv'
  BY DEF TagInv, CopyInv, NoTag
<1>4. FetchInv'
  BY DEF FetchInv
<1>5. FetchedCopyCurrent'
  BY DEF FetchedCopyCurrent, CurrentCopy
<1> QED BY <1>1, <1>2, <1>3, <1>4, <1>5

\* Two drawings with the same rows in every table are one drawing.
LEMMA SameRows ==
  ASSUME NEW d \in Doc!Drawing, NEW e \in Doc!Drawing,
         d.portals = e.portals, d.markers = e.markers, d.links = e.links
  PROVE  d = e
BY DEF Doc!Drawing

\* A step of Populate that reads one more table.
LEMMA ReadStep ==
  ASSUME IInv, TypeOK', NEW c \in Clients,
         UNCHANGED <<db, copy, hist>>,
         \A d \in Clients \ {c} : req'[d] = req[d],
         req[c].at \notin InTx, req'[c].at \in InFetch,
         req'[c].tag < nextid,
         exists /\ ~dirty /\ req'[c].tag = lasteditid =>
           /\ req'[c].at # "portals" => req'[c].read.portals = doc.portals
           /\ req'[c].at = "links" => req'[c].read.markers = doc.markers
  PROVE  IInv'
<1> USE DEF IInv, db, hist
<1>1. LockInv'
  BY DEF LockInv, InFetch, InTx
<1>2. SaveInv'
  BY DEF SaveInv, InFetch, SaveAt, InTx
<1>3. TagInv' /\ CopyInv'
  BY DEF TagInv, CopyInv, NoTag
<1>4. FetchInv'
  BY DEF FetchInv
<1>5. FetchedCopyCurrent'
  BY DEF FetchedCopyCurrent, CurrentCopy
<1> QED BY <1>1, <1>2, <1>3, <1>4, <1>5

LEMMA FetchStep ==
  ASSUME IInv, TypeOK', NEW c \in Clients, FetchStart(c) \/ Fetch(c)
  PROVE  IInv'
<1> USE DEF At
<1>1. CASE FetchStart(c)
  BY <1>1, GotoOthers, QuietStep DEF FetchStart, Step, IInv, InTx, InFetch, SaveAt
<1>2. ASSUME FetchStat(c), Finish(c) PROVE IInv'
  BY <1>2, FinishOthers, QuietStep DEF FetchStat, IInv, InTx, InFetch, SaveAt
<1>3. ASSUME FetchStat(c), Goto(c, "row") PROVE IInv'
  BY <1>3, GotoOthers, QuietStep DEF FetchStat, IInv, InTx, InFetch, SaveAt
<1>4. ASSUME FetchRow(c) \/ FetchPortals(c), Finish(c) PROVE IInv'
  BY <1>4, FinishOthers, QuietStep DEF FetchRow, FetchPortals, IInv, InTx, InFetch, SaveAt
<1>5. ASSUME FetchRow(c), exists, ~Finish(c) PROVE IInv'
  <2>1. /\ req'[c].at = "portals" /\ req'[c].tag = lasteditid
        /\ \A d \in Clients \ {c} : req'[d] = req[d]
    BY <1>5 DEF FetchRow, IInv, TypeOK, Request
  <2>2. req[c].at \notin InTx
    BY <1>5 DEF FetchRow, InTx
  <2> QED BY <1>5, <2>1, <2>2, ReadStep DEF FetchRow, IInv, TagInv, InFetch
<1>6. ASSUME FetchPortals(c), exists, ~Finish(c) PROVE IInv'
  <2>1. /\ req'[c].at = "markers" /\ req'[c].tag = req[c].tag
        /\ req'[c].read = [req[c].read EXCEPT !.portals = doc.portals]
        /\ \A d \in Clients \ {c} : req'[d] = req[d]
    BY <1>6 DEF FetchPortals, IInv, TypeOK, Request
  <2>2. req'[c].read.portals = doc.portals
    BY <2>1, ReadTables DEF IInv, TypeOK, Request
  <2>3. req[c].at \notin InTx
    BY <1>6 DEF FetchPortals, InTx
  <2> QED BY <1>6, <2>1, <2>2, <2>3, ReadStep DEF FetchPortals, IInv, TagInv, FetchInv, InFetch
<1>7. ASSUME FetchMarkers(c) PROVE IInv'
  <2>1. /\ req'[c].at = "links" /\ req'[c].tag = req[c].tag
        /\ req'[c].read = [req[c].read EXCEPT !.markers = doc.markers]
        /\ \A d \in Clients \ {c} : req'[d] = req[d]
    BY <1>7 DEF FetchMarkers, IInv, TypeOK, Request
  <2>2. /\ req'[c].read.markers = doc.markers
        /\ req'[c].read.portals = req[c].read.portals
    BY <2>1, ReadTables DEF IInv, TypeOK, Request
  <2>3. req[c].at \notin InTx
    BY <1>7 DEF FetchMarkers, InTx
  <2> QED BY <1>7, <2>1, <2>2, <2>3, ReadStep DEF FetchMarkers, IInv, TagInv, FetchInv, InFetch
<1>8. ASSUME FetchLinks(c) PROVE IInv'
  <2> DEFINE k == [tag |-> req[c].tag, from |-> "fetch",
                   doc |-> [req[c].read EXCEPT !.links = doc.links]]
  <2>1. /\ copy'[c] = k
        /\ \A d \in Clients \ {c} : copy'[d] = copy[d]
    BY <1>8 DEF FetchLinks, IInv, TypeOK
  <2>2. /\ k.tag = req[c].tag
        /\ k.doc \in Doc!Drawing /\ k.doc.links = doc.links
        /\ k.doc.portals = req[c].read.portals
        /\ k.doc.markers = req[c].read.markers
    <3>1. req[c].read \in Doc!Drawing /\ doc \in Doc!Drawing
      BY DEF IInv, TypeOK, Request
    <3> DEFINE l == [req[c].read EXCEPT !.links = doc.links]
    <3>2. /\ l \in Doc!Drawing /\ l.links = doc.links
          /\ l.portals = req[c].read.portals /\ l.markers = req[c].read.markers
      BY <3>1, ReadTables
    <3> HIDE DEF l
    <3>3. k.tag = req[c].tag /\ k.doc = l
      BY DEF l
    <3> QED BY <3>2, <3>3
  <2>3. CurrentCopy(k)
    BY <1>8, <2>2, SameRows DEF CurrentCopy, FetchLinks, IInv, FetchInv, InFetch, TypeOK
  <2>4. FetchedCopyCurrent'
    BY <1>8, <2>1, <2>3 DEF FetchLinks, FetchedCopyCurrent, CurrentCopy, IInv, db, hist
  <2>5. CopyInv' /\ TagInv'
    BY <1>8, <2>1, <2>2, FinishOthers DEF FetchLinks, CopyInv, TagInv, NoTag, IInv, db, hist
  <2>6. LockInv' /\ SaveInv' /\ FetchInv'
    BY <1>8, FinishOthers DEF FetchLinks, LockInv, SaveInv, FetchInv, InFetch, SaveAt, InTx,
                              IInv, db, hist
  <2> QED BY <2>4, <2>5, <2>6 DEF IInv
<1>9. CASE FetchRow(c) \/ FetchPortals(c)
  BY <1>4, <1>5, <1>6, <1>9 DEF FetchRow, FetchPortals
<1>10. CASE FetchStat(c)
  BY <1>2, <1>3, <1>10 DEF FetchStat
<1> QED BY <1>1, <1>7, <1>8, <1>9, <1>10 DEF Fetch

\* A save's step outside the transaction that touches no shared state.
LEMMA SaveQuiet ==
  ASSUME IInv, TypeOK', NEW c \in Clients, SaveStart(c) \/ SaveMatch(c) \/ SaveGate(c)
  PROVE  IInv'
<1> USE DEF At
<1>1. CASE SaveStart(c)
  <2>1. PICK b \in Bodies, t \in {NoTag, copy[c].tag} :
          req' = [req EXCEPT ![c].at = "match", ![c].body = b, ![c].im = t]
    BY <1>1 DEF SaveStart
  <2>2. /\ req'[c].at = "match" /\ req'[c].body = b /\ req'[c].tag = req[c].tag
        /\ \A d \in Clients \ {c} : req'[d] = req[d]
    BY <2>1 DEF IInv, TypeOK, Request
  <2>3. req[c].at \notin InTx
    BY <1>1 DEF SaveStart, InTx
  <2> QED BY <1>1, <2>2, <2>3, QuietStep DEF SaveStart, InTx, InFetch
<1>2. ASSUME SaveMatch(c) \/ SaveGate(c), Finish(c) PROVE IInv'
  BY <1>2, FinishOthers, QuietStep DEF SaveMatch, SaveGate, IInv, InTx, InFetch, SaveAt
<1>3. ASSUME SaveMatch(c), Goto(c, "gate") PROVE IInv'
  BY <1>3, GotoOthers, QuietStep DEF SaveMatch, IInv, InTx, InFetch, SaveAt, SaveInv
<1>4. ASSUME SaveGate(c), Goto(c, "begin") PROVE IInv'
  BY <1>4, GotoOthers, QuietStep DEF SaveGate, IInv, InTx, InFetch, SaveAt, SaveInv
<1> QED BY <1>1, <1>2, <1>3, <1>4 DEF SaveMatch, SaveGate

\* A request that ends, and with it its transaction: doc is as before.
LEMMA EndStep ==
  ASSUME IInv, TypeOK', NEW c \in Clients, Finish(c),
         rowlock' = IF rowlock = c THEN NoOne ELSE rowlock,
         UNCHANGED <<exists, doc, lasteditid, deletedop, copy, hist>>
  PROVE  IInv'
<1> USE FinishOthers, BoundsType DEF IInv, hist
<1>1. LockInv'
  BY DEF LockInv, InTx
<1>2. SaveInv'
  BY DEF SaveInv, SaveAt, InTx
<1>3. TagInv' /\ CopyInv'
  BY DEF TagInv, CopyInv, NoTag
<1>4. FetchInv'
  BY DEF FetchInv, InFetch
<1>5. FetchedCopyCurrent'
  BY DEF FetchedCopyCurrent, CurrentCopy
<1> QED BY <1>1, <1>2, <1>3, <1>4, <1>5

LEMMA TransactionStep ==
  ASSUME IInv, TypeOK', NEW c \in Clients,
         SaveLock(c) \/ SaveTables(c) \/ SaveCommit(c) \/ SaveAbort(c)
  PROVE  IInv'
<1> USE DEF At
<1>1. CASE SaveAbort(c)
  BY <1>1, EndStep DEF SaveAbort
<1>2. ASSUME SaveLock(c), exists PROVE IInv'
  <2>1. /\ req'[c].at = "tables" /\ req'[c].body = req[c].body /\ req'[c].tag = req[c].tag
        /\ \A d \in Clients \ {c} : req'[d] = req[d]
    BY <1>2, GotoOthers DEF SaveLock, IInv
  <2>2. rowlock = NoOne /\ rowlock' = c /\ req[c].at = "begin"
        /\ UNCHANGED <<exists, doc, lasteditid, deletedop, copy, hist>>
    BY <1>2 DEF SaveLock, Free
  <2> USE <1>2, <2>1, <2>2 DEF IInv, hist
  <2>3. LockInv'
    BY BoundsType DEF LockInv, InTx
  <2>4. SaveInv'
    BY DEF SaveInv, SaveAt, InTx
  <2>5. TagInv' /\ CopyInv'
    BY DEF TagInv, CopyInv
  <2>6. FetchInv'
    BY DEF FetchInv, InFetch
  <2>7. FetchedCopyCurrent'
    BY DEF FetchedCopyCurrent, CurrentCopy
  <2> QED BY <2>3, <2>4, <2>5, <2>6, <2>7
<1>3. ASSUME SaveLock(c), ~exists PROVE IInv'
  <2>1. UNCHANGED <<db, copy, hist>> /\ req[c].at = "begin"
    BY <1>3 DEF SaveLock, db
  <2>2. CASE Goto(c, "touch")
    BY <2>1, <2>2, GotoOthers, QuietStep DEF IInv, InTx, InFetch, SaveAt, SaveInv
  <2>3. CASE Finish(c)
    BY <2>1, <2>3, FinishOthers, QuietStep DEF IInv, InTx, InFetch, SaveAt
  <2> QED BY <1>3, <2>2, <2>3 DEF SaveLock
<1>4. ASSUME SaveTables(c), ~Doc!Sound(req[c].body) PROVE IInv'
  <2>1. rowlock = c
    BY <1>4 DEF SaveTables, IInv, LockInv, InTx
  <2> QED BY <1>4, <2>1, EndStep DEF SaveTables
<1>5. ASSUME SaveTables(c), Doc!Sound(req[c].body) PROVE IInv'
  <2>1. /\ req'[c].at = "commit" /\ req'[c].body = req[c].body /\ req'[c].tag = req[c].tag
        /\ req'[c].seen = doc
        /\ \A d \in Clients \ {c} : req'[d] = req[d]
    BY <1>5 DEF SaveTables, IInv, TypeOK, Request
  <2>2. req[c].at = "tables" /\ UNCHANGED <<db, copy, hist>>
    BY <1>5 DEF SaveTables, db
  <2> USE <1>5, <2>1, <2>2 DEF IInv, db, hist
  <2>3. LockInv'
    BY DEF LockInv, InTx
  <2>4. SaveInv'
    BY DEF SaveInv, SaveAt, InTx
  <2>5. TagInv' /\ CopyInv'
    BY DEF TagInv, CopyInv
  <2>6. FetchInv'
    BY DEF FetchInv, InFetch
  <2>7. FetchedCopyCurrent'
    BY DEF FetchedCopyCurrent, CurrentCopy
  <2> QED BY <2>3, <2>4, <2>5, <2>6, <2>7
<1>6. CASE SaveCommit(c)
  <2>1. /\ req'[c].at = "touch" /\ req'[c].body = req[c].body /\ req'[c].tag = req[c].tag
        /\ \A d \in Clients \ {c} : req'[d] = req[d]
    BY <1>6 DEF SaveCommit, IInv, TypeOK, Request
  <2>2. /\ req[c].at = "commit" /\ rowlock = c /\ rowlock' = NoOne /\ dirty' = TRUE
        /\ UNCHANGED <<exists, lasteditid, deletedop, copy, nextid>>
    BY <1>6 DEF SaveCommit, IInv, LockInv, InTx
  <2> USE <2>1, <2>2 DEF IInv
  <2>3. LockInv'
    BY BoundsType DEF LockInv, InTx
  <2>4. SaveInv'
    BY DEF SaveInv, SaveAt, InTx, LockInv
  <2>5. TagInv' /\ CopyInv'
    BY DEF TagInv, CopyInv
  <2>6. FetchInv'
    BY DEF FetchInv, InFetch
  <2>7. FetchedCopyCurrent'
    BY DEF FetchedCopyCurrent, CurrentCopy
  <2> QED BY <2>3, <2>4, <2>5, <2>6, <2>7
<1> QED BY <1>1, <1>2, <1>3, <1>4, <1>5, <1>6

\* The copy a client is left with after a save: no older tag becomes newer.
LEMMA AnsweredCopies ==
  ASSUME IInv, NEW c \in Clients, NEW t \in Nat, Answered(c, t)
  PROVE  \A d \in Clients : \/ copy'[d] = copy[d]
                            \/ copy'[d].tag = t /\ copy'[d].from = "save"
BY DEF Answered, IInv, TypeOK

LEMMA TouchStep ==
  ASSUME IInv, TypeOK', NEW c \in Clients, SaveTouch(c) \/ SaveTouchFails(c)
  PROVE  IInv'
<1> USE DEF At
<1>1. CASE SaveTouch(c)
  <2>1. \A d \in Clients : \/ copy'[d] = copy[d]
                           \/ copy'[d].tag = nextid /\ copy'[d].from = "save"
    BY <1>1, AnsweredCopies DEF SaveTouch, IInv, TypeOK
  <2>2. /\ req'[c].at = "idle" /\ req'[c].tag = 0
        /\ \A d \in Clients \ {c} : req'[d] = req[d]
    BY <1>1, FinishOthers DEF SaveTouch, IInv
  <2>3. /\ nextid \in Nat /\ nextid' = nextid + 1
        /\ UNCHANGED <<exists, doc, deletedop, rowlock>>
        /\ \/ lasteditid' = nextid
           \/ UNCHANGED <<lasteditid, dirty>>
    BY <1>1 DEF SaveTouch, IInv, TypeOK
  <2>4. \A d \in Clients : copy[d].tag \in Nat /\ req[d].tag \in Nat
    BY DEF IInv, TypeOK, Copy, Request
  <2> USE <2>2, <2>3, <2>4 DEF IInv
  <2>5. LockInv' /\ SaveInv'
    BY <1>1 DEF SaveTouch, LockInv, SaveInv, SaveAt, InTx
  <2>6. TagInv'
    BY DEF TagInv, NoTag, TypeOK
  <2>7. CopyInv'
    BY <2>1 DEF CopyInv
  <2>8. FetchInv'
    BY DEF FetchInv, InFetch, TagInv
  <2>9. FetchedCopyCurrent'
    BY <2>1 DEF FetchedCopyCurrent, CurrentCopy, CopyInv
  <2> QED BY <2>5, <2>6, <2>7, <2>8, <2>9
<1>2. CASE SaveTouchFails(c)
  <2>1. \A d \in Clients : \/ copy'[d] = copy[d]
                           \/ copy'[d].tag = NoTag /\ copy'[d].from = "save"
    BY <1>2, AnsweredCopies DEF SaveTouchFails, NoTag
  <2>2. /\ req'[c].at = "idle" /\ req'[c].tag = 0 /\ req[c].at = "touch"
        /\ \A d \in Clients \ {c} : req'[d] = req[d]
        /\ UNCHANGED <<db, hist>>
    BY <1>2, FinishOthers DEF SaveTouchFails, IInv
  <2> USE <2>2 DEF IInv, db, hist
  <2>3. LockInv' /\ SaveInv'
    BY DEF LockInv, SaveInv, SaveAt, InTx
  <2>4. TagInv'
    BY DEF TagInv, NoTag
  <2>5. CopyInv'
    BY <2>1 DEF CopyInv, TagInv
  <2>6. FetchInv'
    BY DEF FetchInv, InFetch
  <2>7. FetchedCopyCurrent'
    BY <2>1 DEF FetchedCopyCurrent, CurrentCopy
  <2> QED BY <2>3, <2>4, <2>5, <2>6, <2>7
<1> QED BY <1>1, <1>2

LEMMA DeleteStep ==
  ASSUME IInv, TypeOK', NEW c \in Clients, DeleteStart(c) \/ Delete(c) \/ StatementFails(c)
  PROVE  IInv'
<1> USE DEF At
<1>1. CASE DeleteStart(c)
  BY <1>1, GotoOthers, QuietStep DEF DeleteStart, Step, IInv, InTx, InFetch, SaveAt
<1>2. CASE DeleteMark(c)
  <2>1. /\ req'[c].at = "drop" /\ req[c].at = "mark" /\ req'[c].tag = req[c].tag
        /\ \A d \in Clients \ {c} : req'[d] = req[d]
        /\ UNCHANGED <<exists, doc, lasteditid, rowlock, copy, hist>>
    BY <1>2, GotoOthers DEF DeleteMark, Step, IInv
  <2> USE <2>1 DEF IInv, hist
  <2>2. LockInv' /\ SaveInv'
    BY DEF LockInv, SaveInv, SaveAt, InTx
  <2>3. TagInv' /\ CopyInv'
    BY DEF TagInv, CopyInv
  <2>4. FetchInv' /\ FetchedCopyCurrent'
    BY DEF FetchInv, InFetch, FetchedCopyCurrent, CurrentCopy
  <2> QED BY <2>2, <2>3, <2>4
<1>3. CASE DeleteDrop(c)
  <2>1. /\ req'[c].at = "idle" /\ req[c].at = "drop" /\ req'[c].tag = 0
        /\ \A d \in Clients \ {c} : req'[d] = req[d]
        /\ rowlock = NoOne /\ exists' = FALSE
        /\ UNCHANGED <<lasteditid, deletedop, rowlock, copy, hist>>
    BY <1>3, FinishOthers DEF DeleteDrop, Free, IInv
  <2> USE <2>1 DEF IInv, hist
  <2>2. LockInv' /\ SaveInv'
    BY BoundsType DEF LockInv, SaveInv, SaveAt, InTx
  <2>3. TagInv' /\ CopyInv'
    BY DEF TagInv, CopyInv, NoTag
  <2>4. FetchInv' /\ FetchedCopyCurrent'
    BY DEF FetchInv, InFetch, FetchedCopyCurrent, CurrentCopy
  <2> QED BY <2>2, <2>3, <2>4
<1>4. CASE StatementFails(c)
  BY <1>4, FinishOthers, QuietStep
     DEF StatementFails, IInv, FetchAt, SaveAt, DeleteAt, InTx, InFetch
<1> QED BY <1>1, <1>2, <1>3, <1>4 DEF Delete

LEMMA CrashStep ==
  ASSUME IInv, TypeOK', Crash
  PROVE  IInv'
<1>1. /\ \A c \in Clients : req'[c].at = "idle" /\ req'[c].tag = 0
      /\ rowlock' = NoOne
      /\ UNCHANGED <<exists, doc, lasteditid, deletedop, copy, hist>>
  BY Idle DEF Crash
<1> USE <1>1 DEF IInv, hist
<1>2. LockInv' /\ SaveInv'
  BY BoundsType DEF LockInv, SaveInv, SaveAt, InTx
<1>3. TagInv' /\ CopyInv'
  BY DEF TagInv, CopyInv, NoTag
<1>4. FetchInv' /\ FetchedCopyCurrent'
  BY DEF FetchInv, InFetch, FetchedCopyCurrent, CurrentCopy
<1> QED BY <1>2, <1>3, <1>4

LEMMA StutterStep ==
  ASSUME IInv, UNCHANGED vars
  PROVE  IInv'
BY DEF vars, db, hist, IInv, TypeOK, LockInv, SaveInv, TagInv, CopyInv, FetchInv,
       FetchedCopyCurrent, CurrentCopy

LEMMA InvStep == IInv /\ [Next]_vars => IInv'
<1> SUFFICES ASSUME IInv, [Next]_vars PROVE IInv'
  OBVIOUS
<1>1. TypeOK'
  BY TypeStep DEF IInv
<1>2. CASE Crash
  BY <1>1, <1>2, CrashStep
<1>3. ASSUME NEW c \in Clients,
             \/ Begin(c) \/ Fetch(c) \/ Save(c) \/ Delete(c)
             \/ SaveAbort(c) \/ SaveTouchFails(c) \/ StatementFails(c)
      PROVE  IInv'
  BY <1>1, <1>3, FetchStep, SaveQuiet, TransactionStep, TouchStep, DeleteStep DEF Begin, Save
<1>4. CASE UNCHANGED vars
  BY <1>4, StutterStep
<1> QED BY <1>2, <1>3, <1>4 DEF Next

\* The inductive invariant holds of every behaviour.
THEOREM Invariance == Spec => []IInv
<1> QED BY InvInit, InvStep, PTL DEF Spec

\* A fetched copy under the server's edit ID is the server's drawing, however
\* Populate's reads and the transactions of others interleave.
THEOREM FetchedCopiesCurrent == Spec => []FetchedCopyCurrent
<1>1. IInv => FetchedCopyCurrent
  BY DEF IInv
<1> QED BY <1>1, Invariance, PTL
-----------------------------------------------------------------------------
(* Refinement *)

LEMMA RefInit == Init => Doc!Init
BY DEF Init, Doc!Init

LEMMA RefCommit ==
  ASSUME IInv, NEW c \in Clients, SaveCommit(c)
  PROVE  Doc!Next
<1> DEFINE b == req[c].body
<1>1. b \in Bodies /\ Doc!Sound(b) /\ req[c].seen = doc /\ exists
  BY DEF SaveCommit, At, IInv, SaveInv, LockInv, SaveAt, InTx
<1>3. doc' = Doc!After(doc, b) /\ UNCHANGED exists
  BY <1>1, MergeSeen DEF SaveCommit
<1>4. Doc!Replace(b)
  BY <1>1, <1>3 DEF Doc!Replace
<1> QED BY <1>1, <1>4 DEF Doc!Next

\* The rows of an operation go with it.
Gone == ~exists => doc = Doc!NoDrawing

\* Only COMMIT, with the row held, and the deletion change exists or doc.
LEMMA OthersKeepDoc ==
  ASSUME Next, \A c \in Clients : ~SaveCommit(c) /\ ~DeleteDrop(c)
  PROVE  UNCHANGED <<exists, doc>>
<1>1. CASE Crash
  BY <1>1 DEF Crash
<1>2. ASSUME NEW c \in Clients, Begin(c) \/ Fetch(c) PROVE UNCHANGED <<exists, doc>>
  BY <1>2 DEF Begin, FetchStart, SaveStart, DeleteStart, Fetch, FetchStat, FetchRow,
              FetchPortals, FetchMarkers, FetchLinks, db
<1>3. ASSUME NEW c \in Clients, Save(c) \/ SaveAbort(c) \/ SaveTouchFails(c) \/ StatementFails(c)
      PROVE  UNCHANGED <<exists, doc>>
  BY <1>3 DEF Save, StatementFails, SaveMatch, SaveGate, SaveLock, SaveTables, SaveTouch,
              SaveAbort, SaveTouchFails, db
<1>4. ASSUME NEW c \in Clients, Delete(c) PROVE UNCHANGED <<exists, doc>>
  BY <1>4 DEF Delete, DeleteMark
<1> QED BY <1>1, <1>2, <1>3, <1>4 DEF Next

LEMMA GoneStep == IInv /\ Gone /\ [Next]_vars => Gone'
<1> SUFFICES ASSUME IInv, Gone, [Next]_vars PROVE Gone'
  OBVIOUS
<1>1. ASSUME NEW c \in Clients, SaveCommit(c) PROVE Gone'
  <2>1. exists
    BY <1>1 DEF SaveCommit, At, IInv, LockInv, InTx
  <2> QED BY <1>1, <2>1 DEF SaveCommit, Gone
<1>2. ASSUME NEW c \in Clients, DeleteDrop(c) PROVE Gone'
  BY <1>2 DEF DeleteDrop, Gone, Doc!NoDrawing
<1>3. CASE UNCHANGED vars
  BY <1>3 DEF vars, db, Gone, Doc!NoDrawing
<1>4. ASSUME UNCHANGED <<exists, doc>> PROVE Gone'
  BY <1>4 DEF Gone, Doc!NoDrawing
<1> QED BY <1>1, <1>2, <1>3, <1>4, OthersKeepDoc

LEMMA RefStep == IInv /\ Gone /\ [Next]_vars => [Doc!Next]_<<exists, doc>>
<1> SUFFICES ASSUME IInv, Gone, [Next]_vars PROVE [Doc!Next]_<<exists, doc>>
  OBVIOUS
<1>1. ASSUME NEW c \in Clients, SaveCommit(c) PROVE Doc!Next
  BY <1>1, RefCommit
<1>2. ASSUME NEW c \in Clients, DeleteDrop(c) PROVE [Doc!Next]_<<exists, doc>>
  <2>1. CASE exists
    BY <1>2, <2>1 DEF DeleteDrop, Doc!Next, Doc!Remove
  <2>2. CASE ~exists
    <3>1. UNCHANGED <<exists, doc>>
      BY <1>2, <2>2 DEF DeleteDrop, Gone, IInv, TypeOK, Doc!NoDrawing
    <3> QED BY <3>1
  <2> QED BY <2>1, <2>2
<1>3. CASE UNCHANGED vars
  BY <1>3 DEF vars, db
<1> QED BY <1>1, <1>2, <1>3, OthersKeepDoc

\* The operation store implements OpDoc: for any clients and drawings, every
\* save replaces the drawing in one step by the rows of one sound body and the
\* rows under the links it named with both ends on one portal.
THEOREM Refinement == Spec => ImplementsOpDoc
<1>1. Init => Gone
  BY DEF Init, Gone
<1>2. Spec => []Gone
  BY <1>1, Invariance, GoneStep, PTL DEF Spec
<1> QED BY <1>2, RefInit, RefStep, Invariance, PTL DEF Spec, ImplementsOpDoc, Doc!Spec
=============================================================================
