-------------------------- MODULE ResourceSyncProofs ---------------------------
(***************************************************************************)
(* Theorems about ResourceSync, for any number of writes, handlers,        *)
(* messages in flight and faults of any kind.                              *)
(*                                                                         *)
(* Two chains of reads and writes meet in the copy: the receiving          *)
(* goroutine's and the reconciler's.  What the reconciler holds agrees with *)
(* the copy while it is fresh (Followed), and once it is not, the copy has *)
(* a newer generation than any status stored in it (Outdated).  What       *)
(* syncResource makes of the resource is the lemma ApplyShows, under the   *)
(* invariant AnnotationTrue.  On the core's side, Undone says where the    *)
(* delete of each update is.                                               *)
(***************************************************************************)
EXTENDS ResourceSync, TLAPS

USE SyncAssumption DEF SyncAssumption

-----------------------------------------------------------------------------
(* The inductive invariant *)

\* The core's reconciler has work only with an object that has the finalizer.
Held == syncer.pc # "idle" => core.exists /\ core.finalizer

\* Once the object can go, a delete follows each update on the stream.
Undone ==
  (syncer.pc = "remove" \/ ~core.exists \/ ~core.finalizer) =>
    \A i \in DOMAIN down : down[i].type = "update" =>
      \E j \in DOMAIN down : j > i /\ down[j].type = "delete"

\* A status is of a generation the copy has had, and one of a marked copy is
\* of an earlier generation.
StatusPast ==
  copy.exists /\ copy.status # None =>
    /\ copy.status.gen <= copy.gen
    /\ copy.deleting => copy.status.gen < copy.gen

\* The receiving goroutine, too, cannot write a copy that is gone.
Receiving == recv.on /\ recv.fresh => copy.exists

\* A fresh reconciler holds what the copy is.
Followed ==
  rec.pc # "idle" /\ rec.fresh =>
    /\ copy.exists
    /\ rec.pc # "remove" => ~copy.deleting
    /\ rec.pc = "sync" => copy.version = rec.version /\ copy.gen = rec.gen

\* A stale one cannot find a status of the present generation in the copy.
Outdated ==
  rec.pc # "idle" /\ ~rec.fresh /\ copy.exists /\ copy.status # None =>
    copy.status.gen < copy.gen

\* What it reports is of the copy's generation while it is fresh, and true.
Reported ==
  rec.pc \in {"report", "store"} /\ rec.fresh =>
    /\ rec.status.gen = copy.gen
    /\ SpecLasts /\ rec.status.phase = "Complete" => Shows(member, Content[copy.version])

\* An annotation repeats the spec it stands beside, and some version has one.
Annotated(m) ==
  m # None /\ m.annotation # None =>
    /\ m.annotation = m.fields["spec"]
    /\ \E v \in Versions : Content[v].fields["spec"] # None

AnnotationTrue == SpecLasts => Annotated(member)

\* It applies a resource only under a finalizer, and removes that only after
\* the resource.
Guarded ==
  /\ rec.pc = "sync" => copy.exists /\ copy.finalizer
  /\ rec.pc = "remove" => member = None

CopyInv ==
  /\ Receiving /\ StatusPast
  /\ Followed /\ Outdated /\ Reported /\ Guarded
  /\ MemberOwned /\ CompleteIsTrue

IInv == TypeOK /\ Held /\ Undone /\ AnnotationTrue /\ CopyInv

-----------------------------------------------------------------------------
(* Types *)

GoodCore(o)   == o \in Core /\ (o.exists <=> o.version # None)
GoodCopy(o)   == o \in Copy /\ (o.exists <=> o.version # None)
GoodSyncer(s) == s \in Syncer /\ (s.pc = "update" => s.version # None)
GoodRecv(r)   == r \in Receiver /\ (r.on => r.version # None)
GoodRec(r)    ==
  /\ r \in Rec
  /\ r.pc = "sync" => r.version # None
  /\ r.pc \in {"report", "store"} => r.status # None
GoodDown(q)   ==
  /\ q \in Seq(Message) /\ Len(q) <= MaxQueue
  /\ \A i \in DOMAIN q : q[i].type = "update" => q[i].version # None

\* TypeOK in terms of the above.
TypeParts ==
  /\ GoodCore(core) /\ writes \in 0..MaxWrites /\ GoodSyncer(syncer)
  /\ handler \in [Handlers -> Handler] /\ register \in Registration
  /\ open \in BOOLEAN /\ listed \in BOOLEAN /\ GoodDown(down)
  /\ running \in BOOLEAN /\ beating \in BOOLEAN /\ GoodRecv(recv)
  /\ GoodCopy(copy) /\ GoodRec(rec)
  /\ member \in Member \cup {None} /\ faults \in 0..MaxFaults

LEMMA Parts == TypeOK <=> TypeParts
BY DEF TypeOK, TypeParts, GoodCore, GoodCopy, GoodSyncer, GoodRecv, GoodRec, GoodDown

LEMMA PartsNext == TypeOK' <=> TypeParts'
BY DEF TypeOK, TypeParts, GoodCore, GoodCopy, GoodSyncer, GoodRecv, GoodRec, GoodDown

\* The zero values.
LEMMA ZeroTypes ==
  /\ GoodCore(NoCore) /\ GoodCopy(NoCopy) /\ GoodSyncer(Unused) /\ GoodRecv(Waiting)
  /\ GoodRec(Resting) /\ GoodDown(<<>>) /\ Idle \in Handler /\ Off \in Registration
<1>1. GoodCore(NoCore) BY DEF GoodCore, NoCore, Core
<1>2. GoodCopy(NoCopy) BY DEF GoodCopy, NoCopy, Copy
<1>3. GoodSyncer(Unused) BY DEF GoodSyncer, Unused, Syncer
<1>4. GoodRecv(Waiting) BY DEF GoodRecv, Waiting, Receiver
<1>5. GoodRec(Resting) BY DEF GoodRec, Resting, Rec
<1>6. GoodDown(<<>>) BY DEF GoodDown
<1>7. Idle \in Handler BY DEF Idle, Handler
<1>8. Off \in Registration BY DEF Off, Registration
<1>9. QED BY <1>1, <1>2, <1>3, <1>4, <1>5, <1>6, <1>7, <1>8

LEMMA NotNone == \A v \in Versions : v # None
BY DEF Versions

\* Objects as the actions make them from others.
LEMMA CoreMade ==
  ASSUME NEW o, GoodCore(o)
  PROVE  /\ \A v \in Versions : GoodCore([NoCore EXCEPT !.exists = TRUE, !.version = v])
         /\ o.exists => \A v \in Versions : GoodCore([o EXCEPT !.version = v])
         /\ GoodCore([o EXCEPT !.finalizer = TRUE])
         /\ GoodCore([o EXCEPT !.deleting = TRUE])
         /\ \A x \in Status \cup {None} : GoodCore([o EXCEPT !.status = x])
<1>1. ASSUME NEW v \in Versions PROVE GoodCore([NoCore EXCEPT !.exists = TRUE, !.version = v])
  BY NotNone DEF GoodCore, Core, NoCore
<1>2. ASSUME o.exists, NEW v \in Versions PROVE GoodCore([o EXCEPT !.version = v])
  BY <1>2, NotNone DEF GoodCore, Core
<1>3. GoodCore([o EXCEPT !.finalizer = TRUE])
  BY DEF GoodCore, Core
<1>4. GoodCore([o EXCEPT !.deleting = TRUE])
  BY DEF GoodCore, Core
<1>5. ASSUME NEW x \in Status \cup {None} PROVE GoodCore([o EXCEPT !.status = x])
  BY DEF GoodCore, Core
<1>6. QED BY <1>1, <1>2, <1>3, <1>4, <1>5

LEMMA CopyMade ==
  ASSUME NEW o, GoodCopy(o)
  PROVE  /\ \A v \in Versions :
              GoodCopy([NoCopy EXCEPT !.exists = TRUE, !.version = v, !.gen = 1])
         /\ o.exists => \A v \in Versions : GoodCopy([o EXCEPT !.version = v, !.gen = @ + 1])
         /\ GoodCopy([o EXCEPT !.finalizer = TRUE])
         /\ GoodCopy([o EXCEPT !.deleting = TRUE, !.gen = @ + 1])
         /\ \A x \in Status \cup {None} : GoodCopy([o EXCEPT !.status = x])
<1>1. ASSUME NEW v \in Versions
      PROVE  GoodCopy([NoCopy EXCEPT !.exists = TRUE, !.version = v, !.gen = 1])
  BY NotNone DEF GoodCopy, Copy, NoCopy
<1>2. ASSUME o.exists, NEW v \in Versions PROVE GoodCopy([o EXCEPT !.version = v, !.gen = @ + 1])
  <2>. DEFINE r == [o EXCEPT !.version = v, !.gen = @ + 1]
  <2>1. o \in Copy /\ o.gen + 1 \in Nat
    BY DEF GoodCopy, Copy
  <2>2. r \in Copy
    BY <2>1 DEF Copy
  <2>3. r.exists = o.exists /\ r.version = v
    BY <2>1 DEF Copy
  <2>4. QED
    BY <1>2, <2>2, <2>3, NotNone DEF GoodCopy
<1>3. GoodCopy([o EXCEPT !.finalizer = TRUE])
  BY DEF GoodCopy, Copy
<1>4. GoodCopy([o EXCEPT !.deleting = TRUE, !.gen = @ + 1])
  <2>. DEFINE r == [o EXCEPT !.deleting = TRUE, !.gen = @ + 1]
  <2>1. o \in Copy /\ o.gen + 1 \in Nat
    BY DEF GoodCopy, Copy
  <2>2. r \in Copy
    BY <2>1 DEF Copy
  <2>3. r.exists = o.exists /\ r.version = o.version
    BY <2>1 DEF Copy
  <2>4. QED
    BY <2>2, <2>3 DEF GoodCopy
<1>5. ASSUME NEW x \in Status \cup {None} PROVE GoodCopy([o EXCEPT !.status = x])
  BY DEF GoodCopy, Copy
<1>6. QED BY <1>1, <1>2, <1>3, <1>4, <1>5

LEMMA HoldersMade ==
  /\ \A s : GoodSyncer(s) => GoodSyncer([s EXCEPT !.fresh = FALSE])
                          /\ GoodSyncer([s EXCEPT !.pc = "remove"])
  /\ \A r : GoodRecv(r) => GoodRecv([r EXCEPT !.fresh = FALSE])
  /\ \A r : GoodRec(r) => GoodRec([r EXCEPT !.fresh = FALSE])
                       /\ (r.status # None => GoodRec([r EXCEPT !.pc = "store"]))
  /\ GoodRec([Resting EXCEPT !.pc = "remove", !.fresh = TRUE])
  /\ \A x \in Status, b \in BOOLEAN :
       GoodRec([Resting EXCEPT !.pc = "report", !.status = x, !.fresh = b])
<1>1. ASSUME NEW s, GoodSyncer(s) PROVE GoodSyncer([s EXCEPT !.fresh = FALSE])
  BY <1>1 DEF GoodSyncer, Syncer
<1>2. ASSUME NEW s, GoodSyncer(s) PROVE GoodSyncer([s EXCEPT !.pc = "remove"])
  BY <1>2 DEF GoodSyncer, Syncer
<1>3. ASSUME NEW r, GoodRecv(r) PROVE GoodRecv([r EXCEPT !.fresh = FALSE])
  BY <1>3 DEF GoodRecv, Receiver
<1>4. ASSUME NEW r, GoodRec(r) PROVE GoodRec([r EXCEPT !.fresh = FALSE])
  BY <1>4 DEF GoodRec, Rec
<1>5. ASSUME NEW r, GoodRec(r), r.status # None PROVE GoodRec([r EXCEPT !.pc = "store"])
  BY <1>5 DEF GoodRec, Rec
<1>6. ASSUME NEW x \in Status, NEW b \in BOOLEAN
      PROVE  GoodRec([Resting EXCEPT !.pc = "report", !.status = x, !.fresh = b])
  <2>1. x # None
    BY DEF Status
  <2>2. ASSUME NEW r, GoodRec(r) PROVE GoodRec([r EXCEPT !.pc = "report", !.status = x, !.fresh = b])
    BY <2>1, <2>2 DEF GoodRec, Rec
  <2>3. QED
    BY <2>2, ZeroTypes
<1>7. GoodRec([Resting EXCEPT !.pc = "remove", !.fresh = TRUE])
  BY DEF GoodRec, Rec, Resting
<1>8. QED BY <1>1, <1>2, <1>3, <1>4, <1>5, <1>6, <1>7

\* Messages enter at the end and leave at the head.
LEMMA DownMade ==
  ASSUME NEW q, GoodDown(q)
  PROVE  /\ \A m \in Message : Len(q) < MaxQueue /\ (m.type = "update" => m.version # None)
              => GoodDown(Append(q, m))
         /\ q # <<>> => GoodDown(Tail(q)) /\ Head(q) \in Message
                        /\ (Head(q).type = "update" => Head(q).version # None)
<1>1. ASSUME NEW m \in Message, Len(q) < MaxQueue, m.type = "update" => m.version # None
      PROVE  GoodDown(Append(q, m))
  BY <1>1 DEF GoodDown
<1>2. ASSUME q # <<>> PROVE GoodDown(Tail(q))
  BY <1>2 DEF GoodDown
<1>3. ASSUME q # <<>>
      PROVE  Head(q) \in Message /\ (Head(q).type = "update" => Head(q).version # None)
  <2>1. Head(q) = q[1] /\ 1 \in DOMAIN q
    BY <1>3 DEF GoodDown
  <2>2. QED
    BY <2>1 DEF GoodDown
<1>4. QED BY <1>1, <1>2, <1>3

LEMMA HandlerMade ==
  ASSUME handler \in [Handlers -> Handler]
  PROVE  /\ StaleHandlers \in [Handlers -> Handler]
         /\ \A h \in Handlers : handler[h] \in Handler
BY DEF StaleHandlers, Handler

LEMMA TypeInit == Init => TypeOK
<1>. SUFFICES ASSUME Init PROVE TypeParts
  BY Parts
<1>1. /\ GoodCore(core) /\ GoodSyncer(syncer) /\ GoodRecv(recv) /\ GoodCopy(copy) /\ GoodRec(rec)
      /\ GoodDown(down) /\ register \in Registration
  BY ZeroTypes DEF Init
<1>2. handler \in [Handlers -> Handler]
  BY ZeroTypes DEF Init
<1>3. /\ writes \in 0..MaxWrites /\ faults \in 0..MaxFaults /\ member \in Member \cup {None}
  BY ContentAssumption DEF Init
<1>4. /\ open \in BOOLEAN /\ listed \in BOOLEAN /\ running \in BOOLEAN /\ beating \in BOOLEAN
  BY DEF Init
<1>5. QED
  BY <1>1, <1>2, <1>3, <1>4 DEF TypeParts

\* What applying a version makes of a resource.
LEMMA AppliedType ==
  ASSUME NEW m \in Member \cup {None}, NEW c \in Template
  PROVE  Applied(m, c) \in Member
<1>. USE ContentAssumption DEF Template, Member, Fields
<1>1. createResource(c) \in Member
  BY DEF createResource
<1>2. ASSUME m \in Member PROVE getUpdateResource(m, c) \in Member
  <2>1. changeNoSpecResource([m.fields EXCEPT !["spec"] = None], c) \in Fields
    BY <1>2 DEF changeNoSpecResource
  <2>2. QED
    BY <1>2, <2>1 DEF getUpdateResource
<1>3. QED
  BY <1>1, <1>2 DEF Applied

\* Where every version has a spec, or none has, applying one shows it: the
\* comparison with the annotation, the copy of the spec, the merge of the
\* fields and the creation all come to the same, whatever was there before.
THEOREM ApplyShows ==
  ASSUME SpecLasts, NEW v \in Versions, NEW m \in Member \cup {None}, Annotated(m)
  PROVE  /\ Shows(Applied(m, Content[v]), Content[v])
         /\ Annotated(Applied(m, Content[v]))
<1>. DEFINE c == Content[v]
            n == Applied(m, c)
<1>c. c \in Template /\ c.fields \in [Keys -> Values \cup {None}] /\ "spec" \in Keys
  BY ContentAssumption DEF Template, Fields
<1>n. n \in Member /\ n # None
  BY <1>c, AppliedType, ContentAssumption
<1>s. c.fields["spec"] = None => \A w \in Versions : Content[w].fields["spec"] = None
  BY DEF SpecLasts
<1>1. CASE m = None
  <2>1. n.fields = c.fields /\ n.annotation = c.fields["spec"]
    BY <1>1 DEF Applied, createResource
  <2>2. QED
    BY <1>n, <1>c, <2>1 DEF Shows, Annotated
<1>2. CASE m # None /\ resourceEqual(m, c)
  <2>1. n = m
    BY <1>2 DEF Applied
  <2>2. m.fields["spec"] = c.fields["spec"] /\ c.fields["spec"] # None
    BY <1>2, <1>s DEF resourceEqual, Annotated
  <2>3. QED
    BY <1>n, <2>1, <2>2 DEF Shows
<1>3. CASE m # None /\ ~resourceEqual(m, c)
  <2>m. m \in Member /\ m.fields \in [Keys -> Values \cup {None}]
    BY <1>3 DEF Member, Fields
  <2>u. n = getUpdateResource(m, c)
    BY <1>3 DEF Applied
  <2>1. CASE m.fields["spec"] # None /\ c.fields["spec"] # None
    <3>1. n.fields["spec"] = c.fields["spec"] /\ n.annotation = c.fields["spec"]
      BY <2>1, <2>m, <2>u, <1>c DEF getUpdateResource, Member
    <3>2. QED
      BY <2>1, <3>1, <1>n DEF Shows, Annotated
  <2>2. CASE ~(m.fields["spec"] # None /\ c.fields["spec"] # None)
    <3>1. /\ n.annotation = m.annotation
          /\ \A k \in Keys : n.fields[k] = IF c.fields[k] # None THEN c.fields[k]
                                          ELSE IF k = "spec" THEN None ELSE m.fields[k]
      BY <2>2, <2>m, <2>u DEF getUpdateResource, changeNoSpecResource, Member
    <3>2. n.fields["spec"] = c.fields["spec"] /\ \A k \in Keys : c.fields[k] \in {None, n.fields[k]}
      BY <3>1, <1>c
    <3>3. m.annotation = None
      BY <2>2, <1>3, <1>s, ContentAssumption, <2>m DEF Annotated, Member
    <3>4. QED
      BY <3>1, <3>2, <3>3, <1>n DEF Shows, Annotated
  <2>3. QED
    BY <2>1, <2>2
<1>4. QED
  BY <1>1, <1>2, <1>3

LEMMA TypeStep ==
  ASSUME TypeOK, Receiving, Next
  PROVE  TypeOK'
<1>. SUFFICES TypeParts'
  BY PartsNext
<1>. USE ZeroTypes, HandlerMade DEF TypeParts, control, net, agent
<1>p. TypeParts
  BY Parts
<1>w. writes < MaxWrites => Newest \in Versions /\ Newest \in 0..MaxWrites
  BY <1>p DEF Newest, Versions
<1>f. \A k : Fault(k) => faults' \in 0..MaxFaults
  BY <1>p DEF Fault
<1>r. \A x : GoodRec(x) => GoodRec([x EXCEPT !.fresh = FALSE])
  BY HoldersMade
<1>v. \A x : GoodRecv(x) => GoodRecv([x EXCEPT !.fresh = FALSE])
  BY HoldersMade
<1>s. \A x : GoodSyncer(x) => GoodSyncer([x EXCEPT !.fresh = FALSE])
  BY HoldersMade
<1>l. Lost => handler' \in [Handlers -> Handler]
  BY <1>p DEF Lost
<1>1. CASE CreateResource
  BY <1>p, <1>1, <1>w, <1>s, CoreMade DEF CreateResource, CoreWritten
<1>2. CASE ChangeResource
  BY <1>p, <1>2, <1>w, <1>s, CoreMade DEF ChangeResource, CoreWritten
<1>3. CASE DeleteResource
  BY <1>p, <1>3, <1>w, <1>s, CoreMade DEF DeleteResource, CoreWritten
<1>4. CASE CoreReconcile
  <2>1. /\ GoodSyncer([Unused EXCEPT !.pc = "delete", !.fresh = TRUE])
        /\ core.exists => GoodSyncer([Unused EXCEPT !.pc = "update", !.version = core.version])
    BY <1>p DEF GoodCore, Core, GoodSyncer, Syncer, Unused
  <2>2. GoodCore([core EXCEPT !.finalizer = TRUE]) /\ GoodSyncer([syncer EXCEPT !.fresh = FALSE])
    BY <1>p, <1>s, CoreMade
  <2>3. GoodCore(core') /\ GoodSyncer(syncer')
    BY <1>p, <1>4, <2>1, <2>2 DEF CoreReconcile, CoreWritten
  <2>4. handler' \in [Handlers -> Handler]
    BY <1>p, <1>4 DEF CoreReconcile
  <2>5. QED
    BY <1>p, <1>4, <2>3, <2>4 DEF CoreReconcile
<1>5. CASE SendToProxy
  <2>1. ASSUME Send(syncer.pc, syncer.version), syncer.pc \in {"update", "delete"}
        PROVE  GoodDown(down')
    BY <1>p, <2>1, DownMade DEF Send, Message, GoodSyncer, Syncer
  <2>2. QED
    BY <1>p, <1>5, <2>1, HoldersMade DEF SendToProxy
<1>6. CASE CoreRemoveFinalizer
  BY <1>p, <1>6 DEF CoreRemoveFinalizer
<1>8. CASE Register
  <2>1. ASSUME Send("register", register.version) PROVE GoodDown(down')
    BY <1>p, <2>1, DownMade DEF Send, Message, Registration
  <2>2. [pc |-> "reply", version |-> core.version] \in Registration
    BY <1>p DEF Registration, GoodCore, Core
  <2>3. [register EXCEPT !.pc = "list"] \in Registration
    BY <1>p DEF Registration
  <2>4. QED
    BY <1>p, <1>8, <2>1, <2>2, <2>3 DEF Register
<1>9. CASE Heartbeat
  BY <1>p, <1>9 DEF Heartbeat
<1>10. CASE RecvVersion
  <2>1. GoodDown(down') /\ Head(down).version \in Versions \cup {None}
    BY <1>p, <1>10, DownMade DEF RecvVersion, Message
  <2>2. \A v \in Versions : GoodRecv([on |-> TRUE, version |-> v, fresh |-> TRUE])
    BY NotNone DEF GoodRecv, Receiver
  <2>3. \A v \in Versions : GoodCopy([NoCopy EXCEPT !.exists = TRUE, !.version = v, !.gen = 1])
    BY <1>p, CopyMade
  <2>4. GoodCopy(copy') /\ GoodRecv(recv') /\ beating' \in BOOLEAN
    BY <1>p, <1>10, <2>1, <2>2, <2>3 DEF RecvVersion
  <2>5. QED
    BY <1>p, <1>10, <2>1, <2>4 DEF RecvVersion
<1>11. CASE UpdateCopy
  <2>1. recv.on /\ recv.version \in Versions
    BY <1>p, <1>11 DEF UpdateCopy, GoodRecv, Receiver
  <2>2. recv.fresh => GoodCopy([copy EXCEPT !.version = recv.version, !.gen = @ + 1])
    BY <1>p, <2>1, CopyMade DEF Receiving
  <2>3. GoodCopy(copy') /\ GoodRec(rec')
    BY <1>p, <1>11, <2>2, <1>r DEF UpdateCopy
  <2>4. QED
    BY <1>p, <1>11, <2>3 DEF UpdateCopy
<1>12. CASE RecvDelete
  <2>1. GoodDown(down')
    BY <1>p, <1>12, DownMade DEF RecvDelete
  <2>2. GoodCopy([copy EXCEPT !.deleting = TRUE, !.gen = @ + 1])
    BY <1>p, CopyMade
  <2>3. GoodCopy(copy') /\ GoodRec(rec')
    BY <1>p, <1>12, <2>2, <1>r DEF RecvDelete
  <2>4. QED
    BY <1>p, <1>12, <2>1, <2>3 DEF RecvDelete
<1>13. CASE ProxyReconcile
  <2>1. GoodCopy([copy EXCEPT !.finalizer = TRUE])
    BY <1>p, CopyMade
  <2>2. copy.exists => GoodRec([pc |-> "sync", version |-> copy.version, status |-> copy.status,
                                gen |-> copy.gen, fresh |-> TRUE])
    BY <1>p DEF GoodCopy, Copy, GoodRec, Rec
  <2>3. GoodCopy(copy') /\ GoodRecv(recv')
    <3>1. CASE copy' = copy /\ recv' = recv
      BY <1>p, <3>1
    <3>2. CASE copy' = [copy EXCEPT !.finalizer = TRUE] /\ recv' = [recv EXCEPT !.fresh = FALSE]
      BY <1>p, <1>v, <2>1, <3>2
    <3>3. QED
      BY <1>13, <3>1, <3>2 DEF ProxyReconcile
  <2>4. GoodRec(rec') /\ member' \in Member \cup {None}
    BY <1>p, <1>13, <2>2, HoldersMade DEF ProxyReconcile
  <2>5. QED
    BY <1>p, <1>13, <2>3, <2>4 DEF ProxyReconcile
<1>14. CASE ProxyRemoveFinalizer
  BY <1>p, <1>14, <1>v DEF ProxyRemoveFinalizer
<1>15. CASE SyncResource
  <2>1. rec.version \in Versions /\ rec.gen \in Nat /\ rec.fresh \in BOOLEAN
    BY <1>p, <1>15 DEF SyncResource, GoodRec, Rec
  <2>. DEFINE Report(phase) == [Resting EXCEPT !.pc = "report", !.fresh = rec.fresh,
                                  !.status = [phase |-> phase, gen |-> rec.gen]]
  <2>2. GoodRec(Report("Complete")) /\ GoodRec(Report("Creating"))
    <3>1. /\ [phase |-> "Complete", gen |-> rec.gen] \in Status
          /\ [phase |-> "Creating", gen |-> rec.gen] \in Status
      BY <2>1 DEF Status
    <3>2. \A x \in Status : GoodRec([Resting EXCEPT !.pc = "report", !.status = x, !.fresh = rec.fresh])
      BY <2>1, HoldersMade
    <3>3. QED
      BY <3>1, <3>2 DEF Resting
  <2>3. rec' \in {Resting, Report("Complete"), Report("Creating")}
    BY <1>15 DEF SyncResource, Resting
  <2>4. GoodRec(rec')
    BY <2>2, <2>3
  <2>5. member' \in Member \cup {None} /\ faults' \in 0..MaxFaults
    <3>1. Applied(member, Content[rec.version]) \in Member
      BY <1>p, <2>1, AppliedType, ContentAssumption
    <3>2. QED
      BY <1>p, <1>15, <1>f, <3>1 DEF SyncResource
  <2>6. QED
    BY <1>p, <1>15, <2>4, <2>5 DEF SyncResource
<1>16. CASE SendStatus
  <2>1. rec.status \in Status
    BY <1>p, <1>16 DEF SendStatus, GoodRec, Rec
  <2>2. GoodRec([rec EXCEPT !.pc = "store"])
    BY <1>p, <2>1, HoldersMade DEF Status
  <2>3. \A h \in Handlers :
          [handler EXCEPT ![h].pc = "get", ![h].status = rec.status] \in [Handlers -> Handler]
    BY <1>p, <2>1 DEF Handler
  <2>4. GoodRec(rec') /\ handler' \in [Handlers -> Handler]
    BY <1>p, <1>16, <2>2, <2>3 DEF SendStatus
  <2>5. QED
    BY <1>p, <1>16, <2>4 DEF SendStatus
<1>17. CASE StoreStatus
  <2>1. rec.status \in Status \cup {None}
    BY <1>p DEF GoodRec, Rec
  <2>2. GoodCopy([copy EXCEPT !.status = rec.status])
    BY <1>p, <2>1, CopyMade
  <2>3. GoodCopy(copy') /\ GoodRecv(recv')
    BY <1>p, <1>17, <2>2, <1>v DEF StoreStatus
  <2>4. QED
    BY <1>p, <1>17, <2>3 DEF StoreStatus
<1>19. CASE ProxyStart
  BY <1>p, <1>19 DEF ProxyStart, Registration, Off
<1>20. CASE Reconnect
  BY <1>p, <1>20 DEF Reconnect
<1>21. CASE BreakStream
  BY <1>p, <1>21, <1>f, <1>l DEF BreakStream, Disconnected
<1>22. CASE CoreRestart
  BY <1>p, <1>22, <1>f DEF CoreRestart, Disconnected
<1>23. CASE ProxyRestart
  BY <1>p, <1>23, <1>f, <1>l DEF ProxyRestart, ProxyEnds, Disconnected
<1>24. CASE SyncPanic
  BY <1>p, <1>24, <1>l DEF SyncPanic, ProxyEnds, Disconnected
<1>25. ASSUME NEW h \in Handlers, GetResource(h) PROVE TypeParts'
  BY <1>p, <1>25 DEF GetResource, Handler, Idle
<1>26. ASSUME NEW h \in Handlers, UpdateStatus(h) PROVE TypeParts'
  <2>1. handler[h].status \in Status \cup {None}
    BY <1>p DEF Handler
  <2>2. GoodCore([core EXCEPT !.status = handler[h].status])
    BY <1>p, <2>1, CoreMade
  <2>3. GoodCore(core') /\ GoodSyncer(syncer')
    <3>1. CASE handler[h].fresh
      BY <1>p, <1>26, <1>s, <2>2, <3>1 DEF UpdateStatus, CoreWritten
    <3>2. CASE ~handler[h].fresh
      BY <1>p, <1>26, <3>2 DEF UpdateStatus
    <3>3. QED
      BY <3>1, <3>2
  <2>4. handler' \in [Handlers -> Handler]
    BY <1>p, <1>26 DEF UpdateStatus
  <2>5. QED
    BY <1>p, <1>26, <2>3, <2>4 DEF UpdateStatus
<1>27. QED
  BY <1>1, <1>2, <1>3, <1>4, <1>5, <1>6, <1>8, <1>9, <1>10, <1>11, <1>12, <1>13, <1>14,
     <1>15, <1>16, <1>17, <1>19, <1>20, <1>21, <1>22, <1>23, <1>24, <1>25, <1>26
     DEF Next, Handle, Receive, ReconcileCopy

-----------------------------------------------------------------------------
(* The core's side *)

\* What is on the stream loses its head or gets a message at the end.
LEMMA QueueSteps ==
  ASSUME NEW q, GoodDown(q)
  PROVE  /\ \A m : LET r == Append(q, m)
                 IN /\ DOMAIN r = 1..(Len(q) + 1) /\ r[Len(q) + 1] = m
                    /\ \A i \in DOMAIN q : i \in DOMAIN r /\ r[i] = q[i]
         /\ DOMAIN q = 1..Len(q) /\ Len(q) \in Nat
         /\ q # <<>> => /\ Len(q) > 0 /\ DOMAIN Tail(q) = 1..(Len(q) - 1)
                        /\ \A i \in 1..(Len(q) - 1) : Tail(q)[i] = q[i + 1]
BY DEF GoodDown

\* Each update in the queue has a delete behind it.
Settled(q) == \A i \in DOMAIN q : q[i].type = "update" =>
                \E j \in DOMAIN q : j > i /\ q[j].type = "delete"

LEMMA SettledSteps ==
  ASSUME NEW q, GoodDown(q)
  PROVE  /\ Settled(q) => \A m : m.type = "register" => Settled(Append(q, m))
         /\ \A m : m.type = "delete" => Settled(Append(q, m))
         /\ Settled(q) /\ q # <<>> => Settled(Tail(q))
<1>. USE QueueSteps DEF Settled
<1>1. ASSUME Settled(q), NEW m, m.type = "register" PROVE Settled(Append(q, m))
  <2>. DEFINE r == Append(q, m)
  <2>1. SUFFICES ASSUME NEW i \in DOMAIN r, r[i].type = "update"
                 PROVE  \E j \in DOMAIN r : j > i /\ r[j].type = "delete"
    OBVIOUS
  <2>2. i \in DOMAIN q /\ q[i].type = "update"
    BY <1>1, <2>1
  <2>3. PICK j \in DOMAIN q : j > i /\ q[j].type = "delete"
    BY <1>1, <2>2
  <2>4. j \in DOMAIN r /\ r[j].type = "delete"
    BY <2>3
  <2>5. QED
    BY <2>3, <2>4
<1>2. ASSUME NEW m, m.type = "delete" PROVE Settled(Append(q, m))
  <2>. DEFINE r == Append(q, m)
  <2>1. SUFFICES ASSUME NEW i \in DOMAIN r, r[i].type = "update"
                 PROVE  \E j \in DOMAIN r : j > i /\ r[j].type = "delete"
    OBVIOUS
  <2>2. Len(q) + 1 \in DOMAIN r /\ r[Len(q) + 1].type = "delete" /\ Len(q) + 1 > i
    BY <1>2, <2>1
  <2>3. QED
    BY <2>2
<1>3. ASSUME Settled(q), q # <<>> PROVE Settled(Tail(q))
  <2>. DEFINE r == Tail(q)
  <2>1. SUFFICES ASSUME NEW i \in DOMAIN r, r[i].type = "update"
                 PROVE  \E j \in DOMAIN r : j > i /\ r[j].type = "delete"
    OBVIOUS
  <2>2. i + 1 \in DOMAIN q /\ q[i + 1].type = "update"
    BY <1>3, <2>1
  <2>3. PICK j \in DOMAIN q : j > i + 1 /\ q[j].type = "delete"
    BY <1>3, <2>2
  <2>4. j - 1 \in DOMAIN r /\ r[j - 1].type = "delete" /\ j - 1 > i
    BY <1>3, <2>1, <2>3
  <2>5. QED
    BY <2>4
<1>4. QED
  BY <1>1, <1>2, <1>3

LEMMA CoreStep ==
  ASSUME TypeOK, Held, Undone, Next
  PROVE  Held' /\ Undone'
<1>. USE DEF control, net, agent
<1>t. TypeParts
  BY Parts
<1>u. /\ Undone <=> ((syncer.pc = "remove" \/ ~core.exists \/ ~core.finalizer) => Settled(down))
      /\ Undone' <=> ((syncer'.pc = "remove" \/ ~core'.exists \/ ~core'.finalizer) => Settled(down'))
  BY DEF Undone, Settled
<1>e. Settled(<<>>)
  BY DEF Settled
<1>q. /\ Settled(down) => \A m : m.type = "register" => Settled(Append(down, m))
      /\ \A m : m.type = "delete" => Settled(Append(down, m))
      /\ Settled(down) /\ down # <<>> => Settled(Tail(down))
  BY <1>t, SettledSteps DEF TypeParts
<1>c. /\ core \in Core /\ syncer \in Syncer
      /\ syncer.pc = "remove" => core.exists /\ core.finalizer
  BY <1>t DEF TypeParts, GoodCore, GoodSyncer, Held
<1>1. ASSUME UNCHANGED <<core, syncer>>,
             down' = down \/ down' = <<>> \/ (down # <<>> /\ down' = Tail(down))
      PROVE  Held' /\ Undone'
  BY <1>1, <1>u, <1>e, <1>q DEF Held
<1>2. CASE CreateResource
  <2>1. syncer'.pc = syncer.pc /\ syncer.pc = "idle" /\ down' = down /\ ~core.exists
    BY <1>2, <1>c DEF CreateResource, CoreWritten, Held, Syncer
  <2>2. QED
    BY <2>1, <1>u DEF Held
<1>3. CASE ChangeResource
  <2>1. syncer'.pc = syncer.pc /\ down' = down
    BY <1>3, <1>c DEF ChangeResource, CoreWritten, Syncer
  <2>2. core'.exists = core.exists /\ core'.finalizer = core.finalizer
    BY <1>3, <1>c DEF ChangeResource, CoreWritten, Core
  <2>3. QED
    BY <2>1, <2>2, <1>u DEF Held
<1>4. CASE DeleteResource
  <2>1. syncer'.pc = syncer.pc /\ down' = down
    BY <1>4, <1>c DEF DeleteResource, CoreWritten, Syncer
  <2>2. \/ core'.exists = core.exists /\ core'.finalizer = core.finalizer
        \/ ~core.finalizer
    BY <1>4, <1>c DEF DeleteResource, CoreWritten, Core
  <2>3. QED
    BY <2>1, <2>2, <1>u DEF Held
<1>5. CASE CoreReconcile
  <2>0. down' = down /\ syncer.pc = "idle"
    BY <1>5 DEF CoreReconcile
  <2>2. CASE core.exists /\ ~core.finalizer /\ CoreWritten([core EXCEPT !.finalizer = TRUE])
    <3>1. core'.exists /\ core'.finalizer /\ syncer'.pc = "idle"
      BY <2>0, <2>2, <1>c DEF CoreWritten, Core, Syncer
    <3>2. QED
      BY <3>1, <1>u DEF Held
  <2>3. CASE core.exists /\ core.finalizer /\ core' = core
             /\ syncer' = IF core.deleting THEN [Unused EXCEPT !.pc = "delete", !.fresh = TRUE]
                          ELSE [Unused EXCEPT !.pc = "update", !.version = core.version]
    <3>1. core'.exists /\ core'.finalizer /\ syncer'.pc # "remove"
      BY <2>3 DEF Unused
    <3>2. QED
      BY <3>1, <1>u DEF Held
  <2>4. QED
    BY <1>5, <2>2, <2>3 DEF CoreReconcile
<1>6. CASE SendToProxy
  <2>1. core' = core /\ core.exists /\ core.finalizer
    BY <1>6 DEF SendToProxy, Held
  <2>2. CASE syncer' = Unused
    BY <2>1, <2>2, <1>u DEF Unused, Held
  <2>3. CASE syncer.pc = "delete" /\ Send(syncer.pc, syncer.version)
    BY <2>1, <2>3, <1>u, <1>q DEF Send, Held
  <2>4. QED
    BY <1>6, <2>2, <2>3 DEF SendToProxy
<1>7. CASE CoreRemoveFinalizer
  <2>1. syncer' = Unused /\ down' = down /\ Settled(down)
    BY <1>7, <1>u DEF CoreRemoveFinalizer
  <2>2. QED
    BY <2>1, <1>u DEF Unused, Held
<1>8. CASE Register
  <2>1. UNCHANGED <<core, syncer>> /\ (Settled(down) => Settled(down'))
    BY <1>8, <1>q DEF Register, Send
  <2>2. QED
    BY <2>1, <1>u DEF Held
<1>9. CASE CoreRestart
  BY <1>9, <1>u, <1>e DEF CoreRestart, Disconnected, Unused, Held
<1>10. ASSUME NEW h \in Handlers, UpdateStatus(h) PROVE Held' /\ Undone'
  <2>1. syncer'.pc = syncer.pc /\ down' = down
    BY <1>10, <1>c DEF UpdateStatus, CoreWritten, Syncer
  <2>2. core'.exists = core.exists /\ core'.finalizer = core.finalizer
    BY <1>10, <1>c DEF UpdateStatus, CoreWritten, Core
  <2>3. QED
    BY <2>1, <2>2, <1>u DEF Held
<1>11. CASE RecvVersion \/ RecvDelete
  BY <1>11, <1>1 DEF RecvVersion, RecvDelete
<1>12. CASE UpdateCopy \/ ReconcileCopy \/ Heartbeat
  BY <1>12, <1>1 DEF UpdateCopy, ReconcileCopy, ProxyReconcile, ProxyRemoveFinalizer, SyncResource,
                     SyncPanic, ProxyEnds, Disconnected, SendStatus, StoreStatus, Heartbeat
<1>13. CASE ProxyStart \/ Reconnect \/ BreakStream \/ ProxyRestart
  BY <1>13, <1>1 DEF ProxyStart, Reconnect, BreakStream, ProxyRestart, ProxyEnds, Disconnected
<1>14. ASSUME NEW h \in Handlers, GetResource(h) PROVE Held' /\ Undone'
  BY <1>14, <1>1 DEF GetResource
<1>15. QED
  BY <1>2, <1>3, <1>4, <1>5, <1>6, <1>7, <1>8, <1>9, <1>10, <1>11, <1>12, <1>13, <1>14
     DEF Next, Handle, Receive

-----------------------------------------------------------------------------
(* The proxy's side *)

LEMMA AnnotationStep ==
  ASSUME TypeOK, AnnotationTrue, Next
  PROVE  AnnotationTrue'
<1>. USE DEF control, net, agent
<1>t. TypeParts
  BY Parts
<1>1. CASE member' = member
  BY <1>1 DEF AnnotationTrue, Annotated
<1>2. CASE member' = None
  BY <1>2 DEF AnnotationTrue, Annotated
<1>3. CASE SyncResource /\ member' = Applied(member, Content[rec.version])
  <2>1. rec.version \in Versions /\ member \in Member \cup {None}
    BY <1>3, <1>t DEF SyncResource, TypeParts, GoodRec, Rec
  <2>2. SpecLasts => Annotated(member')
    BY <1>3, <2>1, ApplyShows DEF AnnotationTrue
  <2>3. QED
    BY <2>2 DEF AnnotationTrue, Annotated
<1>4. CASE ReconcileCopy
  BY <1>4, <1>1, <1>2, <1>3 DEF ReconcileCopy, ProxyReconcile, ProxyRemoveFinalizer, SyncResource,
                                SyncPanic, ProxyEnds, SendStatus, StoreStatus
<1>5. CASE Receive \/ ProxyStart \/ Reconnect \/ BreakStream \/ CoreRestart \/ ProxyRestart
  BY <1>5, <1>1 DEF Receive, RecvVersion, UpdateCopy, RecvDelete, ProxyStart, Reconnect, BreakStream,
                    CoreRestart, ProxyRestart, ProxyEnds
<1>6. ASSUME ~ReconcileCopy,
             ~(Receive \/ ProxyStart \/ Reconnect \/ BreakStream \/ CoreRestart \/ ProxyRestart)
      PROVE  member' = member
  BY <1>6 DEF Next, CreateResource, ChangeResource, DeleteResource, CoreReconcile, SendToProxy,
              CoreRemoveFinalizer, Handle, GetResource, UpdateStatus, Register, Heartbeat
<1>7. QED
  BY <1>1, <1>4, <1>5, <1>6

LEMMA CopyStep ==
  ASSUME TypeOK, AnnotationTrue, CopyInv, Next
  PROVE  CopyInv'
<1>. USE DEF control, net, agent
<1>t. TypeParts
  BY Parts
<1>c. /\ copy \in Copy /\ copy.gen \in Nat
      /\ copy.status # None => copy.status \in Status /\ copy.status.gen \in Nat
      /\ copy.exists <=> copy.version # None
  BY <1>t DEF TypeParts, GoodCopy, Copy, Status
<1>r. /\ rec \in Rec /\ rec.gen \in Nat /\ recv \in Receiver
      /\ rec.pc \in {"report", "store"} => rec.status \in Status
  BY <1>t DEF TypeParts, GoodRec, GoodRecv, Rec
<1>n. \A s : s = [phase |-> "Complete", gen |-> copy.gen] => s # None
  BY <1>c DEF SyncAssumption
<1>i. /\ Receiving /\ StatusPast /\ Followed /\ Outdated /\ Reported /\ Guarded
      /\ MemberOwned /\ CompleteIsTrue
  BY DEF CopyInv
<1>frame. ASSUME UNCHANGED <<copy, recv, rec, member>> PROVE CopyInv'
  BY <1>frame, <1>i DEF CopyInv, Receiving, StatusPast, Followed, Outdated, Reported, Guarded,
                        MemberOwned, CompleteIsTrue
<1>1. CASE RecvVersion
  <2>1. CASE ~copy.exists /\ recv' = recv /\ rec' = rec /\ member' = member
             /\ copy' = [NoCopy EXCEPT !.exists = TRUE, !.version = Head(down).version, !.gen = 1]
    <3>1. copy'.status = None /\ copy'.gen = 1 /\ copy'.exists
      BY <2>1 DEF NoCopy
    <3>2. rec.pc # "idle" => ~rec.fresh
      BY <2>1, <1>i DEF Followed
    <3>3. member \in Found \cup {None} /\ rec.pc # "sync"
      BY <2>1, <1>i DEF MemberOwned, Guarded
    <3>4. Receiving' /\ StatusPast' /\ Followed' /\ Outdated'
      BY <2>1, <3>1, <3>2 DEF Receiving, StatusPast, Followed, Outdated
    <3>5. Reported' /\ Guarded' /\ MemberOwned'
      BY <2>1, <3>2, <3>3, <1>i DEF Reported, Guarded, MemberOwned
    <3>6. CompleteIsTrue'
      BY <3>1, <1>c DEF SyncAssumption, CompleteIsTrue
    <3>7. QED
      BY <3>4, <3>5, <3>6 DEF CopyInv
  <2>2. CASE copy.exists /\ UNCHANGED <<copy, rec, member>>
    BY <2>2, <1>i DEF CopyInv, Receiving, StatusPast, Followed, Outdated, Reported, Guarded,
                      MemberOwned, CompleteIsTrue
  <2>3. CASE UNCHANGED <<copy, recv, rec, member>>
    BY <2>3, <1>frame
  <2>4. QED
    BY <1>1, <2>1, <2>2, <2>3 DEF RecvVersion
<1>2. CASE UpdateCopy
  <2>1. CASE ~recv.fresh
    <3>1. UNCHANGED <<copy, rec, member>> /\ recv' = Waiting
      BY <1>2, <2>1 DEF UpdateCopy
    <3>2. QED
      BY <3>1, <1>i DEF Waiting, CopyInv, Receiving, StatusPast, Followed, Outdated, Reported,
                        Guarded, MemberOwned, CompleteIsTrue
  <2>2. CASE recv.fresh
    <3>1. /\ copy' = [copy EXCEPT !.version = recv.version, !.gen = @ + 1]
          /\ rec' = [rec EXCEPT !.fresh = FALSE] /\ recv' = Waiting /\ member' = member
      BY <1>2, <2>2 DEF UpdateCopy
    <3>2. /\ copy'.status = copy.status /\ copy'.gen = copy.gen + 1 /\ copy'.exists = copy.exists
          /\ copy'.finalizer = copy.finalizer /\ copy'.deleting = copy.deleting
      BY <3>1, <1>c DEF Copy
    <3>3. /\ rec'.pc = rec.pc /\ ~rec'.fresh /\ rec'.status = rec.status /\ rec'.gen = rec.gen
          /\ ~recv'.on
      BY <3>1, <1>r DEF Rec, Waiting
    <3>4. copy.exists /\ copy.status # None => copy.status.gen < copy.gen + 1
      BY <1>c, <1>i DEF StatusPast
    <3>5. Receiving' /\ StatusPast' /\ Followed' /\ Outdated'
      BY <3>2, <3>3, <3>4, <1>c DEF Receiving, StatusPast, Followed, Outdated
    <3>6. Reported' /\ Guarded' /\ MemberOwned'
      BY <3>1, <3>2, <3>3, <1>i DEF Reported, Guarded, MemberOwned
    <3>7. CompleteIsTrue'
      <4>1. copy'.gen \in Nat /\ (copy.exists /\ copy.status # None => copy.status.gen # copy'.gen)
        BY <3>2, <3>4, <1>c
      <4>2. QED
        BY <3>2, <4>1 DEF SyncAssumption, CompleteIsTrue
    <3>8. QED
      BY <3>5, <3>6, <3>7 DEF CopyInv
  <2>3. QED
    BY <2>1, <2>2
<1>3. CASE RecvDelete
  <2>1. CASE UNCHANGED <<copy, recv, rec, member>>
    BY <2>1, <1>frame
  <2>2. CASE copy.finalizer /\ copy.exists /\ recv' = recv /\ member' = member
             /\ copy' = [copy EXCEPT !.deleting = TRUE, !.gen = @ + 1]
             /\ rec' = [rec EXCEPT !.fresh = FALSE]
    <3>2. /\ copy'.status = copy.status /\ copy'.gen = copy.gen + 1 /\ copy'.exists = copy.exists
          /\ copy'.finalizer = copy.finalizer
      BY <2>2, <1>c DEF Copy
    <3>3. /\ rec'.pc = rec.pc /\ ~rec'.fresh /\ rec'.status = rec.status /\ rec'.gen = rec.gen
      BY <2>2, <1>r DEF Rec
    <3>4. copy.exists /\ copy.status # None => copy.status.gen < copy.gen + 1
      BY <1>c, <1>i DEF StatusPast
    <3>5. Receiving' /\ StatusPast' /\ Followed' /\ Outdated'
      BY <2>2, <3>2, <3>3, <3>4, <1>c DEF Receiving, StatusPast, Followed, Outdated
    <3>6. Reported' /\ Guarded' /\ MemberOwned'
      BY <2>2, <3>2, <3>3, <1>i DEF Reported, Guarded, MemberOwned
    <3>7. CompleteIsTrue'
      <4>1. copy'.gen \in Nat /\ (copy.exists /\ copy.status # None => copy.status.gen # copy'.gen)
        BY <3>2, <3>4, <1>c
      <4>2. QED
        BY <3>2, <4>1 DEF SyncAssumption, CompleteIsTrue
    <3>8. QED
      BY <3>5, <3>6, <3>7 DEF CopyInv
  <2>3. CASE ~copy.finalizer /\ copy' = NoCopy /\ recv' = recv /\ ~recv.on /\ member' = member
             /\ rec' = [rec EXCEPT !.fresh = FALSE]
    <3>1. /\ rec'.pc = rec.pc /\ ~rec'.fresh /\ rec'.status = rec.status /\ rec'.gen = rec.gen
          /\ ~copy'.exists
      BY <2>3, <1>r DEF Rec, NoCopy
    <3>2. member \in Found \cup {None} /\ rec.pc # "sync"
      BY <2>3, <1>i DEF MemberOwned, Guarded
    <3>3. QED
      BY <2>3, <3>1, <3>2, <1>i DEF CopyInv, Receiving, StatusPast, Followed, Outdated, Reported,
                                    Guarded, MemberOwned, CompleteIsTrue
  <2>4. QED
    BY <1>3, <2>1, <2>2, <2>3 DEF RecvDelete
<1>4. CASE ProxyReconcile
  <2>i. rec.pc = "idle"
    BY <1>4 DEF ProxyReconcile
  <2>1. CASE UNCHANGED <<copy, recv, rec, member>>
    BY <2>1, <1>frame
  <2>2. CASE copy.exists /\ copy' = [copy EXCEPT !.finalizer = TRUE] /\ rec' = rec /\ member' = member
             /\ recv' = [recv EXCEPT !.fresh = FALSE]
    <3>1. /\ copy'.status = copy.status /\ copy'.gen = copy.gen /\ copy'.exists = copy.exists
          /\ copy'.version = copy.version /\ copy'.deleting = copy.deleting /\ copy'.finalizer
          /\ ~recv'.fresh
      BY <2>2, <1>c, <1>r DEF Copy, Receiver
    <3>2. QED
      BY <2>i, <2>2, <3>1, <1>i DEF CopyInv, Receiving, StatusPast, Followed, Outdated, Reported,
                                    Guarded, MemberOwned, CompleteIsTrue
  <2>3. CASE copy.exists /\ copy.deleting /\ member' = None /\ UNCHANGED <<copy, recv>>
             /\ rec' = [Resting EXCEPT !.pc = "remove", !.fresh = TRUE]
    <3>1. rec'.pc = "remove" /\ rec'.fresh
      BY <2>3 DEF Resting
    <3>2. copy.status # [phase |-> "Complete", gen |-> copy.gen]
      BY <2>3, <1>i, <1>c, <1>n DEF StatusPast
    <3>3. QED
      BY <2>3, <3>1, <3>2, <1>i DEF CopyInv, Receiving, StatusPast, Followed, Outdated, Reported,
                                    Guarded, MemberOwned, CompleteIsTrue
  <2>4. CASE copy.exists /\ copy.finalizer /\ ~copy.deleting /\ UNCHANGED <<copy, recv, member>>
             /\ rec' = [pc |-> "sync", version |-> copy.version, status |-> copy.status,
                        gen |-> copy.gen, fresh |-> TRUE]
    <3>1. rec'.pc = "sync" /\ rec'.fresh /\ rec'.version = copy.version /\ rec'.gen = copy.gen
      BY <2>4
    <3>2. QED
      BY <2>4, <3>1, <1>i DEF CopyInv, Receiving, StatusPast, Followed, Outdated, Reported,
                              Guarded, MemberOwned, CompleteIsTrue
  <2>5. QED
    BY <1>4, <2>1, <2>2, <2>3, <2>4 DEF ProxyReconcile
<1>5. CASE ProxyRemoveFinalizer
  <2>0. rec' = Resting /\ rec'.pc = "idle" /\ member' = member /\ member = None
    BY <1>5, <1>i DEF ProxyRemoveFinalizer, Resting, Guarded
  <2>1. CASE UNCHANGED <<copy, recv>>
    BY <2>0, <2>1, <1>i DEF CopyInv, Receiving, StatusPast, Followed, Outdated, Reported, Guarded,
                            MemberOwned, CompleteIsTrue
  <2>2. CASE copy' = NoCopy /\ recv' = [recv EXCEPT !.fresh = FALSE]
    <3>1. ~copy'.exists /\ ~recv'.fresh
      BY <2>2, <1>r DEF NoCopy, Receiver
    <3>2. QED
      BY <2>0, <3>1 DEF CopyInv, Receiving, StatusPast, Followed, Outdated, Reported, Guarded,
                        MemberOwned, CompleteIsTrue
  <2>3. QED
    BY <1>5, <2>1, <2>2 DEF ProxyRemoveFinalizer
<1>6. CASE SyncResource
  <2>. DEFINE s(phase) == [phase |-> phase, gen |-> rec.gen]
              r(phase) == [Resting EXCEPT !.pc = "report", !.status = s(phase), !.fresh = rec.fresh]
  <2>0. UNCHANGED <<copy, recv>> /\ rec.pc = "sync" /\ copy.exists /\ copy.finalizer
    BY <1>6, <1>i DEF SyncResource, Guarded
  <2>1. rec.fresh => ~copy.deleting /\ copy.version = rec.version /\ copy.gen = rec.gen
    BY <2>0, <1>i DEF Followed
  <2>2. ~rec.fresh => copy.status # [phase |-> "Complete", gen |-> copy.gen]
    BY <2>0, <1>i, <1>c, <1>n DEF Outdated
  <2>r. ASSUME NEW phase
        PROVE  /\ r(phase).pc = "report" /\ r(phase).status.gen = rec.gen
               /\ r(phase).status.phase = phase /\ r(phase).fresh = rec.fresh
    BY DEF Resting
  <2>a. ASSUME SpecLasts
        PROVE  Shows(Applied(member, Content[rec.version]), Content[rec.version])
    <3>1. rec.version \in Versions /\ member \in Member \cup {None} /\ Annotated(member)
      BY <2>0, <2>a, <1>t DEF TypeParts, GoodRec, Rec, AnnotationTrue
    <3>2. QED
      BY <2>a, <3>1, ApplyShows
  <2>3. CASE member' = Applied(member, Content[rec.version]) /\ rec' \in {Resting, r("Complete")}
    <3>2. CompleteIsTrue'
      BY <2>0, <2>1, <2>2, <2>3, <2>a DEF CompleteIsTrue, SpecLasts, Shows
    <3>3. CASE rec' = Resting
      <4>1. rec'.pc = "idle"
        BY <3>3 DEF Resting
      <4>2. QED
        BY <2>0, <4>1, <3>2, <1>i DEF CopyInv, Receiving, StatusPast, Followed, Outdated,
                                            Reported, Guarded, MemberOwned
    <3>4. CASE rec' = r("Complete")
      <4>1. /\ rec'.pc = "report" /\ rec'.status.gen = rec.gen
            /\ rec'.status.phase = "Complete" /\ rec'.fresh = rec.fresh
        BY <2>r, <3>4
      <4>2. Reported'
        BY <2>0, <2>1, <2>3, <2>a, <4>1 DEF Reported, SpecLasts, Shows
      <4>3. Followed' /\ Outdated' /\ Guarded'
        BY <2>0, <2>1, <4>1, <1>i DEF Followed, Outdated, Guarded
      <4>4. QED
        BY <2>0, <3>2, <4>2, <4>3, <1>i DEF CopyInv, Receiving, StatusPast, MemberOwned
    <3>5. QED
      BY <2>3, <3>3, <3>4
  <2>4. CASE member' = member /\ rec' = r("Creating")
    <3>1. /\ rec'.pc = "report" /\ rec'.status.gen = rec.gen
          /\ rec'.status.phase = "Creating" /\ rec'.fresh = rec.fresh
      BY <2>r, <2>4
    <3>2. Reported'
      BY <2>0, <2>1, <3>1 DEF Reported
    <3>3. Followed' /\ Outdated' /\ Guarded'
      BY <2>0, <2>1, <3>1, <1>i DEF Followed, Outdated, Guarded
    <3>4. QED
      BY <2>0, <2>4, <3>2, <3>3, <1>i DEF CopyInv, Receiving, StatusPast, MemberOwned,
                                         CompleteIsTrue
  <2>5. QED
    BY <1>6, <2>3, <2>4 DEF SyncResource
<1>7. CASE SendStatus
  <2>0. UNCHANGED <<copy, recv, member>> /\ rec.pc = "report"
    BY <1>7 DEF SendStatus
  <2>1. CASE rec' = Resting
    BY <2>0, <2>1, <1>i DEF Resting, CopyInv, Receiving, StatusPast, Followed, Outdated, Reported,
                            Guarded, MemberOwned, CompleteIsTrue
  <2>2. CASE rec' = [rec EXCEPT !.pc = "store"]
    <3>1. /\ rec'.pc = "store" /\ rec'.status = rec.status /\ rec'.gen = rec.gen
          /\ rec'.fresh = rec.fresh /\ rec'.version = rec.version
      BY <2>2, <1>r DEF Rec
    <3>2. QED
      BY <2>0, <3>1, <1>i DEF CopyInv, Receiving, StatusPast, Followed, Outdated, Reported,
                              Guarded, MemberOwned, CompleteIsTrue
  <2>3. QED
    BY <1>7, <2>1, <2>2 DEF SendStatus
<1>8. CASE StoreStatus
  <2>0. rec' = Resting /\ rec'.pc = "idle" /\ member' = member /\ rec.pc = "store"
    BY <1>8 DEF StoreStatus, Resting
  <2>1. CASE UNCHANGED <<copy, recv>>
    BY <2>0, <2>1, <1>i DEF CopyInv, Receiving, StatusPast, Followed, Outdated, Reported, Guarded,
                            MemberOwned, CompleteIsTrue
  <2>2. CASE rec.fresh /\ copy' = [copy EXCEPT !.status = rec.status]
             /\ recv' = [recv EXCEPT !.fresh = FALSE]
    <3>1. /\ copy'.status = rec.status /\ copy'.gen = copy.gen /\ copy'.exists = copy.exists
          /\ copy'.version = copy.version /\ copy'.deleting = copy.deleting
          /\ copy'.finalizer = copy.finalizer /\ ~recv'.fresh
      BY <2>2, <1>c, <1>r DEF Copy, Receiver
    <3>2. copy.exists /\ ~copy.deleting
      BY <2>0, <2>2, <1>i DEF Followed
    <3>3. /\ rec.status.gen = copy.gen
          /\ SpecLasts /\ rec.status.phase = "Complete" => Shows(member, Content[copy.version])
      BY <2>0, <2>2, <1>i DEF Reported
    <3>4. StatusPast'
      BY <2>0, <3>1, <3>2, <3>3, <1>c, <1>r DEF StatusPast
    <3>c. CompleteIsTrue'
      <4>1. copy'.status = [phase |-> "Complete", gen |-> copy'.gen] => rec.status.phase = "Complete"
        BY <3>1
      <4>2. QED
        BY <2>0, <4>1, <3>1, <3>2, <3>3 DEF CompleteIsTrue, SpecLasts, Shows
    <3>5. QED
      BY <2>0, <3>1, <3>4, <3>c, <1>i DEF CopyInv, Receiving, Followed, Outdated, Reported, Guarded,
                                    MemberOwned
  <2>3. QED
    BY <1>8, <2>1, <2>2 DEF StoreStatus
<1>9. CASE ProxyRestart \/ SyncPanic
  <2>1. UNCHANGED <<copy, member>> /\ rec'.pc = "idle" /\ ~recv'.on
    BY <1>9 DEF ProxyRestart, SyncPanic, ProxyEnds, Resting, Waiting
  <2>2. QED
    BY <2>1, <1>i DEF CopyInv, Receiving, StatusPast, Followed, Outdated, Reported, Guarded,
                      MemberOwned, CompleteIsTrue
<1>10. CASE CreateResource \/ ChangeResource \/ DeleteResource
  BY <1>10, <1>frame DEF CreateResource, ChangeResource, DeleteResource
<1>11. CASE CoreReconcile \/ SendToProxy \/ CoreRemoveFinalizer
  BY <1>11, <1>frame DEF CoreReconcile, SendToProxy, CoreRemoveFinalizer
<1>12. ASSUME NEW h \in Handlers, Handle(h) PROVE CopyInv'
  BY <1>12, <1>frame DEF Handle, GetResource, UpdateStatus
<1>13. CASE Register \/ Heartbeat
  BY <1>13, <1>frame DEF Register, Heartbeat
<1>14. CASE ProxyStart \/ Reconnect \/ BreakStream \/ CoreRestart
  BY <1>14, <1>frame DEF ProxyStart, Reconnect, BreakStream, CoreRestart
<1>15. QED
  BY <1>1, <1>2, <1>3, <1>4, <1>5, <1>6, <1>7, <1>8, <1>9, <1>10, <1>11, <1>12, <1>13, <1>14
     DEF Next, Receive, ReconcileCopy

-----------------------------------------------------------------------------
(* Theorems *)

LEMMA InitInv == Init => IInv
<1>. SUFFICES ASSUME Init PROVE IInv
  OBVIOUS
<1>1. TypeOK
  BY TypeInit
<1>2. Held /\ Undone
  BY DEF Init, Held, Undone, Unused
<1>a. AnnotationTrue
  BY ContentAssumption DEF Init, AnnotationTrue, Annotated
<1>3. CopyInv
  BY DEF Init, NoCopy, Waiting, Resting, CopyInv, Receiving, StatusPast, Followed, Outdated,
         Reported, Guarded, MemberOwned, CompleteIsTrue
<1>4. QED
  BY <1>1, <1>2, <1>a, <1>3 DEF IInv

LEMMA Stuttering == ASSUME IInv, UNCHANGED vars PROVE IInv'
<1>. USE DEF IInv, vars, control, net, agent
<1>1. TypeOK'
  BY DEF TypeOK
<1>2. Held' /\ Undone'
  BY DEF Held, Undone
<1>a. AnnotationTrue'
  BY DEF AnnotationTrue, Annotated
<1>3. CopyInv'
  BY DEF CopyInv, Receiving, StatusPast, Followed, Outdated, Reported, Guarded, MemberOwned,
         CompleteIsTrue
<1>4. QED
  BY <1>1, <1>2, <1>a, <1>3

LEMMA StepInv == IInv /\ [Next]_vars => IInv'
<1>. SUFFICES ASSUME IInv, [Next]_vars PROVE IInv'
  OBVIOUS
<1>1. CASE Next
  <2>1. TypeOK' /\ AnnotationTrue' /\ CopyInv'
    BY <1>1, TypeStep, AnnotationStep, CopyStep DEF IInv, CopyInv
  <2>2. Held' /\ Undone'
    BY <1>1, CoreStep DEF IInv
  <2>3. QED
    BY <2>1, <2>2 DEF IInv
<1>2. CASE UNCHANGED vars
  BY <1>2, Stuttering
<1>3. QED
  BY <1>1, <1>2

\* Whatever is lost, dropped or repeated, a step of ResourceSync keeps the
\* invariant.
THEOREM Invariance == Spec => []IInv
BY InitInv, StepInv, PTL DEF Spec

\* The variables keep their types for any number of writes, messages and
\* faults.
THEOREM TypeCorrect == Spec => []TypeOK
<1>1. IInv => TypeOK
  BY DEF IInv
<1>2. QED
  BY Invariance, <1>1, PTL

\* What the proxy has applied has a ClusterResource whose finalizer keeps it
\* until the resource is gone, although RecvResponse may delete it at any time.
THEOREM OwnedCorrect == Spec => []MemberOwned
<1>1. IInv => MemberOwned
  BY DEF IInv, CopyInv
<1>2. QED
  BY Invariance, <1>1, PTL

\* The status the proxy stores says Complete only of a version whose spec, or
\* whose fields where there is none, the member cluster has, provided that
\* the versions agree on having a spec.
THEOREM CompleteCorrect == Spec => []CompleteIsTrue
<1>1. IInv => CompleteIsTrue
  BY DEF IInv, CopyInv
<1>2. QED
  BY Invariance, <1>1, PTL

\* A ClusterResource that is gone from the control plane is created in the
\* member cluster again only with its delete already behind, or from a
\* register response.
THEOREM NeverResurrected == Spec => NoResurrection
<1>. DEFINE A == ~copy.exists /\ copy'.exists /\ ~core.exists
                   => \/ Head(down).type = "register"
                      \/ \E i \in DOMAIN down : down[i].type = "delete"
<1>1. ASSUME IInv, [Next]_vars PROVE A
  <2>. SUFFICES ASSUME ~copy.exists, copy'.exists, ~core.exists, Head(down).type # "register"
                PROVE  \E i \in DOMAIN down : down[i].type = "delete"
    OBVIOUS
  <2>1. TypeParts /\ copy \in Copy
    BY <1>1, Parts DEF IInv, TypeParts, GoodCopy
  <2>2. RecvVersion
    <3>1. ~recv.on \/ ~recv.fresh
      BY <1>1 DEF IInv, CopyInv, Receiving
    <3>2. ~(rec.pc # "idle" /\ rec.fresh)
      BY <1>1 DEF IInv, CopyInv, Followed
    <3>3. ~UpdateCopy /\ ~StoreStatus /\ ~ProxyReconcile
      BY <3>1, <3>2, <2>1 DEF UpdateCopy, StoreStatus, ProxyReconcile, Copy
    <3>4. ~RecvDelete /\ ~ProxyRemoveFinalizer
      BY <2>1 DEF RecvDelete, ProxyRemoveFinalizer, NoCopy
    <3>5. copy' # copy
      OBVIOUS
    <3>. USE DEF control, net, agent
    <3>6. ~UNCHANGED vars /\ ~SyncResource /\ ~SendStatus
      BY <3>5 DEF vars, SyncResource, SendStatus
    <3>7. ~CreateResource /\ ~ChangeResource /\ ~DeleteResource
      BY <3>5 DEF CreateResource, ChangeResource, DeleteResource
    <3>8. ~CoreReconcile /\ ~SendToProxy /\ ~CoreRemoveFinalizer
      BY <3>5 DEF CoreReconcile, SendToProxy, CoreRemoveFinalizer
    <3>9. \A h \in Handlers : ~Handle(h)
      BY <3>5 DEF Handle, GetResource, UpdateStatus
    <3>10. ~Register /\ ~Heartbeat /\ ~ProxyStart /\ ~Reconnect
      BY <3>5 DEF Register, Heartbeat, ProxyStart, Reconnect
    <3>11. ~BreakStream /\ ~CoreRestart /\ ~ProxyRestart /\ ~SyncPanic
      BY <3>5 DEF BreakStream, CoreRestart, ProxyRestart, SyncPanic, ProxyEnds
    <3>12. QED
      BY <1>1, <3>3, <3>4, <3>6, <3>7, <3>8, <3>9, <3>10, <3>11 DEF Next, Receive, ReconcileCopy
  <2>3. down # <<>> /\ Head(down).type = "update"
    BY <2>2 DEF RecvVersion
  <2>4. GoodDown(down)
    BY <2>1 DEF TypeParts
  <2>5. 1 \in DOMAIN down /\ down[1].type = "update"
    BY <2>3, <2>4 DEF GoodDown
  <2>6. QED
    BY <2>5, <1>1 DEF IInv, Undone
<1>2. QED
  BY Invariance, <1>1, PTL DEF Spec, NoResurrection

=============================================================================
