--------------------------- MODULE BindingSyncProofs ---------------------------
(***************************************************************************)
(* Theorems about BindingSync, for any clusters, overrides and phases, and *)
(* any number of events.                                                   *)
(*                                                                         *)
(* That no ClusterResource goes back to an earlier version rests on three  *)
(* orders: a list is read before the resource is, what is in the control   *)
(* plane is not newer than the resource, and what is written is what was   *)
(* read last.  The status of the binding is a fold over the list: that it  *)
(* stays of its type goes by induction over the positions reported so far, *)
(* written with sets in the place of a predicate.                          *)
(***************************************************************************)
EXTENDS BindingSync, FiniteSetTheorems, SequenceTheorems, TLAPS

USE BindingAssumption DEF BindingAssumption, Controllers

-----------------------------------------------------------------------------
(* The inductive invariant *)

\* The types, but for the entries of the binding's status.
Typed ==
  /\ resource \in Resource
  /\ \E s : binding \in [exists: BOOLEAN, clusters: SUBSET Clusters, finalizer: BOOLEAN,
                         deleting: BOOLEAN, labelled: BOOLEAN, status: {s}]
  /\ copies \in [Clusters -> Copy]
  /\ worker \in [Controllers -> Worker]
  /\ events \in 0..MaxEvents

\* Each version takes an event.
Counted == resource.version + events <= MaxEvents + 1

\* What is in the control plane is not newer than the resource.
NotNewer == \A c \in Clusters :
  copies[c].exists => copies[c].contents \in Contents /\ copies[c].contents.version <= resource.version

\* Nor is what a reconciler has read.
ReadBefore(r, version) == r.pc = "apply" => r.version \in Versions /\ r.version <= version

\* A reconciler whose item is fresh holds what the item is, and has read a
\* resource that is not older.
Holds(r, cs) == r.fresh =>
  /\ r.list # <<>> /\ Last(r.list).cluster \in Clusters
  /\ cs[Last(r.list).cluster].exists /\ cs[Last(r.list).cluster].contents = r.item
  /\ r.pc = "apply" => r.item.version <= r.version

WorkersInv == \A w \in Controllers : Holds(worker[w], copies) /\ ReadBefore(worker[w], resource.version)

IInv == Typed /\ Counted /\ NotNewer /\ WorkersInv

-----------------------------------------------------------------------------
(* Lemmas about reconcilers *)

\* A reconciler of the right type that holds and has read what it may.
Good(r, cs, version) == r \in Worker /\ Holds(r, cs) /\ ReadBefore(r, version)

LEMMA Workers ==
  Typed /\ WorkersInv <=> Typed /\ \A w \in Controllers : Good(worker[w], copies, resource.version)
BY DEF Typed, WorkersInv, Good

\* Idle, at a list, or done: such a reconciler holds nothing.
LEMMA HoldsNothing ==
  ASSUME NEW r \in Worker, ~r.fresh, r.pc # "apply", NEW cs, NEW version
  PROVE  Good(r, cs, version)
BY DEF Good, Holds, ReadBefore

LEMMA RestingGood ==
  /\ Resting \in Worker
  /\ \A cs, version : Good(Resting, cs, version)
<1>1. Resting \in Worker
  BY DEF Resting, Worker
<1>2. ~Resting.fresh /\ Resting.pc # "apply"
  BY DEF Resting
<1>3. QED
  BY <1>1, <1>2, HoldsNothing

\* A later resource, and a change of what nobody holds, do no harm.
LEMMA LaterGood ==
  ASSUME NEW r, NEW cs, NEW v \in Nat, NEW u \in Nat, v <= u, Good(r, cs, v)
  PROVE  Good(r, cs, u)
BY DEF Good, ReadBefore, Versions

\* Dropping what a reconciler knows of its object.
LEMMA UnknownGood ==
  ASSUME NEW r, NEW cs, NEW v, Good(r, cs, v), NEW b \in BOOLEAN
  PROVE  Good([r EXCEPT !.known = b], cs, v)
<1>. DEFINE s == [r EXCEPT !.known = b]
<1>1. s \in Worker
  BY DEF Good, Worker
<1>2. s.pc = r.pc /\ s.list = r.list /\ s.item = r.item /\ s.version = r.version /\ s.fresh = r.fresh
  BY DEF Good, Worker
<1>. HIDE DEF s
<1>3. Holds(r, cs) /\ ReadBefore(r, v)
  BY DEF Good
<1>4. Holds(s, cs)
  BY <1>2, <1>3, Zenon DEF Holds
<1>5. ReadBefore(s, v)
  BY <1>2, <1>3, Zenon DEF ReadBefore
<1>6. QED
  BY <1>1, <1>4, <1>5, Zenon DEF Good, s

\* After a write of the ClusterResource of c, those who held it do not.
LEMMA OutdatedGood ==
  ASSUME NEW c, NEW cs, NEW v \in Controllers, worker \in [Controllers -> Worker],
         Good(worker[v], copies, resource.version),
         \A d \in Clusters : d # c => cs[d] = copies[d]
  PROVE  Good(Outdated(c)[v], cs, resource.version)
<1>. DEFINE r == worker[v]
            s == Outdated(c)[v]
<1>1. r \in Worker /\ Holds(r, copies) /\ ReadBefore(r, resource.version)
  BY DEF Good
<1>2. CASE r.list # <<>> /\ Target(v) = c
  <2>1. s = [r EXCEPT !.fresh = FALSE]
    BY <1>2 DEF Outdated
  <2>2. s \in Worker /\ ~s.fresh /\ s.pc = r.pc /\ s.version = r.version
    BY <1>1, <2>1 DEF Worker
  <2>. HIDE DEF s
  <2>3. Holds(s, cs)
    BY <2>2 DEF Holds
  <2>4. ReadBefore(s, resource.version)
    BY <1>1, <2>2, Zenon DEF ReadBefore
  <2>5. QED
    BY <2>2, <2>3, <2>4, Zenon DEF Good, s
<1>3. CASE r.list = <<>> \/ Target(v) # c
  <2>1. s = r
    BY <1>3 DEF Outdated
  <2>2. r.fresh => Last(r.list).cluster \in Clusters /\ Last(r.list).cluster # c
    BY <1>1, <1>3 DEF Holds, Target
  <2>3. Holds(r, cs)
    BY <1>1, <2>2 DEF Holds
  <2>4. QED
    BY <1>1, <2>1, <2>3 DEF Good
<1>4. QED
  BY <1>2, <1>3

LEMMA OutdatedType ==
  ASSUME worker \in [Controllers -> Worker], NEW c
  PROVE  Outdated(c) \in [Controllers -> Worker]
BY DEF Outdated, Worker

\* What the reconciler w becomes, and the others as they were.
LEMMA OneWorker ==
  ASSUME NEW f \in [Controllers -> Worker], NEW w \in Controllers, NEW r,
         NEW cs, NEW v, Good(r, cs, v),
         \A u \in Controllers : u # w => Good(f[u], cs, v)
  PROVE  /\ [f EXCEPT ![w] = r] \in [Controllers -> Worker]
         /\ \A u \in Controllers : Good([f EXCEPT ![w] = r][u], cs, v)
BY DEF Good

\* A ClusterResource as the actions write it.
LEMMA CopyMade ==
  /\ NoCopy \in Copy
  /\ \A x \in Contents : NewClusterResource(x) \in Copy
  /\ \A o \in Copy : \A x \in Contents : [o EXCEPT !.contents = x] \in Copy
  /\ \A o \in Copy : \A x \in Phases : [o EXCEPT !.phase = x] \in Copy
  /\ \A o \in Copy : [o EXCEPT !.deleting = TRUE] \in Copy
BY DEF Copy, NoCopy, NewClusterResource

LEMMA ContentsMade ==
  ASSUME NEW c \in Clusters, NEW v \in Versions
  PROVE  ContentsFor(c, v) \in Contents /\ ContentsFor(c, v).version = v
BY DEF ContentsFor, Contents

-----------------------------------------------------------------------------
(* Lemmas about steps *)

\* The binding's types, its status left open.
Shaped(b) == \E s : b \in [exists: BOOLEAN, clusters: SUBSET Clusters, finalizer: BOOLEAN,
                           deleting: BOOLEAN, labelled: BOOLEAN, status: {s}]

\* No ClusterResource goes back.
Forward == \A c \in Clusters :
  copies[c].exists /\ copies'[c].exists => copies[c].contents.version <= copies'[c].contents.version

AllGood(f, cs, v) == f \in [Controllers -> Worker] /\ \A w \in Controllers : Good(f[w], cs, v)

LEMMA Parts ==
  ASSUME IInv
  PROVE  /\ resource \in Resource /\ resource.version \in Versions /\ resource.version \in Nat
         /\ Shaped(binding) /\ copies \in [Clusters -> Copy] /\ events \in 0..MaxEvents
         /\ AllGood(worker, copies, resource.version)
BY DEF IInv, Typed, Shaped, AllGood, Resource, Versions, Good, WorkersInv

LEMMA Together ==
  ASSUME resource' \in Resource, Shaped(binding'), copies' \in [Clusters -> Copy],
         events' \in 0..MaxEvents, Counted', NotNewer',
         AllGood(worker', copies', resource'.version)
  PROVE  IInv'
<1>1. Typed'
  BY DEF Typed, Shaped, AllGood
<1>2. WorkersInv'
  BY DEF WorkersInv, AllGood, Good
<1>3. QED
  BY <1>1, <1>2 DEF IInv

\* A step that leaves the ClusterResources and the resource's version alone.
LEMMA Elsewhere ==
  ASSUME IInv, copies' = copies, resource' \in Resource, resource'.version = resource.version,
         Shaped(binding'), events' \in 0..MaxEvents, events' <= events,
         AllGood(worker', copies, resource.version)
  PROVE  IInv' /\ Forward
<1>1. NotNewer' /\ Counted'
  BY Parts DEF IInv, NotNewer, Counted
<1>2. Forward
  BY Parts DEF IInv, NotNewer, Forward, Contents, Versions
<1>3. IInv'
  BY <1>1, Parts, Together
<1>4. QED
  BY <1>2, <1>3

\* A step that writes one ClusterResource, forward.
LEMMA OneCopy ==
  ASSUME IInv, NEW c \in Clusters, NEW o \in Copy, copies' = [copies EXCEPT ![c] = o],
         o.exists => o.contents \in Contents /\ o.contents.version <= resource.version,
         copies[c].exists /\ o.exists => copies[c].contents.version <= o.contents.version,
         UNCHANGED resource, UNCHANGED binding, events' \in 0..MaxEvents, events' <= events,
         AllGood(worker', copies', resource.version)
  PROVE  IInv' /\ Forward
<1>1. copies' \in [Clusters -> Copy] /\ copies'[c] = o
      /\ \A d \in Clusters : d # c => copies'[d] = copies[d]
  BY Parts
<1>2. NotNewer' /\ Counted'
  <2>1. NotNewer'
    BY <1>1 DEF IInv, NotNewer
  <2>2. Counted'
    BY Parts DEF IInv, Counted
  <2>3. QED
    BY <2>1, <2>2
<1>3. Forward
  <2>1. SUFFICES ASSUME NEW d \in Clusters, copies[d].exists, copies'[d].exists
                 PROVE  copies[d].contents.version <= copies'[d].contents.version
    BY DEF Forward
  <2>2. CASE d = c
    BY <1>1, <2>1, <2>2
  <2>3. CASE d # c
    <3>1. copies'[d] = copies[d] /\ copies[d].contents \in Contents
      BY <1>1, <2>1, <2>3 DEF IInv, NotNewer
    <3>2. QED
      BY <3>1 DEF Contents, Versions
  <2>4. QED
    BY <2>2, <2>3
<1>4. IInv'
  BY <1>1, <1>2, Parts, Together
<1>5. QED
  BY <1>3, <1>4

\* One reconciler moves, nothing it could hold is written.
LEMMA OneMoves ==
  ASSUME IInv, NEW w \in Controllers, NEW r, Good(r, copies, resource.version)
  PROVE  AllGood([worker EXCEPT ![w] = r], copies, resource.version)
BY Parts, OneWorker DEF AllGood

\* The event counter.
LEMMA Events ==
  ASSUME IInv
  PROVE  /\ Event => events' \in 0..MaxEvents /\ events' + 1 <= events
         /\ events' = events => events' \in 0..MaxEvents /\ events' <= events
BY Parts DEF Event

\* All writers of a ClusterResource outdate it.
LEMMA AllOutdated ==
  ASSUME IInv, NEW c, NEW cs, \A d \in Clusters : d # c => cs[d] = copies[d]
  PROVE  AllGood(Outdated(c), cs, resource.version)
BY Parts, OutdatedGood, OutdatedType DEF AllGood

-----------------------------------------------------------------------------
(* Steps of others, and of Reconcile around the synchronisation *)

LEMMA BindingMade ==
  ASSUME NEW b, Shaped(b)
  PROVE  /\ b.clusters \in SUBSET Clusters /\ b.finalizer \in BOOLEAN /\ b.deleting \in BOOLEAN
         /\ \A x \in SUBSET Clusters : Shaped([b EXCEPT !.clusters = x])
         /\ \A x \in BOOLEAN : Shaped([b EXCEPT !.exists = x])
         /\ \A x \in BOOLEAN : Shaped([b EXCEPT !.deleting = x])
         /\ \A x \in BOOLEAN : Shaped([b EXCEPT !.finalizer = x])
         /\ \A x \in BOOLEAN : Shaped([b EXCEPT !.labelled = x])
         /\ \A x : Shaped([b EXCEPT !.status = x])
<1>1. PICK s : b \in [exists: BOOLEAN, clusters: SUBSET Clusters, finalizer: BOOLEAN,
                      deleting: BOOLEAN, labelled: BOOLEAN, status: {s}]
  BY DEF Shaped
<1>2. b.clusters \in SUBSET Clusters /\ b.finalizer \in BOOLEAN /\ b.deleting \in BOOLEAN
  BY <1>1
<1>3. ASSUME NEW x \in SUBSET Clusters PROVE Shaped([b EXCEPT !.clusters = x])
  BY <1>1 DEF Shaped
<1>4. ASSUME NEW x \in BOOLEAN PROVE Shaped([b EXCEPT !.exists = x])
  BY <1>1 DEF Shaped
<1>5. ASSUME NEW x \in BOOLEAN PROVE Shaped([b EXCEPT !.deleting = x])
  BY <1>1 DEF Shaped
<1>6. ASSUME NEW x \in BOOLEAN PROVE Shaped([b EXCEPT !.finalizer = x])
  BY <1>1 DEF Shaped
<1>7. ASSUME NEW x \in BOOLEAN PROVE Shaped([b EXCEPT !.labelled = x])
  BY <1>1 DEF Shaped
<1>8. ASSUME NEW x PROVE Shaped([b EXCEPT !.status = x])
  <2>1. [b EXCEPT !.status = x] \in [exists: BOOLEAN, clusters: SUBSET Clusters,
          finalizer: BOOLEAN, deleting: BOOLEAN, labelled: BOOLEAN, status: {x}]
    BY <1>1
  <2>2. QED
    BY <2>1 DEF Shaped
<1>9. QED
  BY <1>2, <1>3, <1>4, <1>5, <1>6, <1>7, <1>8

LEMMA ResourceMade ==
  ASSUME NEW o \in Resource
  PROVE  /\ o.version \in Versions
         /\ o.finalizer \in BOOLEAN /\ o.deleting \in BOOLEAN
         /\ \A x \in BOOLEAN : [o EXCEPT !.exists = x] \in Resource /\ [o EXCEPT !.exists = x].version = o.version
         /\ \A x \in BOOLEAN : [o EXCEPT !.deleting = x] \in Resource /\ [o EXCEPT !.deleting = x].version = o.version
         /\ \A x \in BOOLEAN : [o EXCEPT !.finalizer = x] \in Resource /\ [o EXCEPT !.finalizer = x].version = o.version
         /\ \A x \in Versions : [o EXCEPT !.version = x] \in Resource /\ [o EXCEPT !.version = x].version = x
BY DEF Resource

\* A write of an object leaves its reconciler holding what it held.
LEMMA WrittenGood ==
  ASSUME IInv, NEW w \in Controllers, NEW b \in BOOLEAN
  PROVE  AllGood([worker EXCEPT ![w].known = b], copies, resource.version)
<1>1. Good([worker[w] EXCEPT !.known = b], copies, resource.version)
  BY Parts, UnknownGood DEF AllGood
<1>2. AllGood([worker EXCEPT ![w] = [worker[w] EXCEPT !.known = b]], copies, resource.version)
  BY <1>1, OneMoves
<1>3. QED
  BY <1>2

LEMMA Users ==
  ASSUME IInv, ChangeResource \/ DeleteResource \/ Rebind \/ DeleteBinding
  PROVE  IInv' /\ Forward
<1>w. \A w \in Controllers : AllGood([worker EXCEPT ![w].known = FALSE], copies, resource.version)
  BY WrittenGood
<1>1. CASE ChangeResource
  <2>1. /\ resource.version + 1 \in Versions /\ resource' = [resource EXCEPT !.version = @ + 1]
        /\ events' \in 0..MaxEvents /\ events' + 1 = events
    BY <1>1, Parts DEF ChangeResource, Event, IInv, Counted, Versions
  <2>2. resource' \in Resource /\ resource'.version = resource.version + 1
    BY <2>1, Parts, ResourceMade
  <2>3. copies' = copies /\ binding' = binding /\ worker' = [worker EXCEPT !["resource"].known = FALSE]
    BY <1>1 DEF ChangeResource, Written
  <2>4. AllGood(worker', copies', resource'.version)
    <3>1. AllGood(worker', copies, resource.version)
      BY <2>3, <1>w
    <3>2. resource'.version \in Nat /\ resource.version <= resource'.version
      BY <2>2, Parts
    <3>3. QED
      BY <2>3, <3>1, <3>2, Parts, LaterGood DEF AllGood
  <2>5. Counted'
    BY <2>1, <2>2, Parts DEF IInv, Counted
  <2>6. NotNewer'
    BY <2>2, <2>3, Parts DEF IInv, NotNewer, Contents, Versions
  <2>7. Forward
    BY <2>3, Parts DEF IInv, NotNewer, Forward, Contents, Versions
  <2>8. QED
    BY <2>1, <2>2, <2>3, <2>4, <2>5, <2>6, <2>7, Parts, Together
<1>2. CASE DeleteResource
  <2>1. resource' \in Resource /\ resource'.version = resource.version
    <3>. DEFINE f == resource.finalizer
                o == [resource EXCEPT !.deleting = f]
    <3>1. o \in Resource /\ o.version = resource.version /\ f \in BOOLEAN
      BY Parts, ResourceMade
    <3>2. resource' = [o EXCEPT !.exists = f]
      BY <1>2, Zenon DEF DeleteResource
    <3>. HIDE DEF o, f
    <3>3. QED
      BY <3>1, <3>2, ResourceMade
  <2>2. QED
    BY <1>2, <2>1, <1>w, Parts, Elsewhere, Events DEF DeleteResource, Written
<1>3. CASE Rebind
  <2>1. PICK bound \in SUBSET Clusters : binding' = [binding EXCEPT !.clusters = bound]
    BY <1>3 DEF Rebind
  <2>2. Shaped(binding')
    BY <2>1, Parts, BindingMade
  <2>3. Event /\ Written("binding") /\ UNCHANGED <<resource, copies>>
    BY <1>3 DEF Rebind
  <2>4. events' <= events
    BY <2>3, Parts DEF Event
  <2>5. QED
    BY <2>2, <2>3, <2>4, <1>w, Parts, Elsewhere, Events DEF Written
<1>4. CASE DeleteBinding
  <2>1. Shaped(binding')
    <3>. DEFINE f == binding.finalizer
                o == [binding EXCEPT !.deleting = f]
    <3>1. Shaped(o) /\ f \in BOOLEAN
      BY Parts, BindingMade
    <3>2. binding' = [o EXCEPT !.exists = f]
      BY <1>4, Zenon DEF DeleteBinding
    <3>. HIDE DEF o, f
    <3>3. QED
      BY <3>1, <3>2, BindingMade
  <2>2. events' <= events
    BY <1>4, Parts DEF DeleteBinding, Event
  <2>3. QED
    BY <1>4, <2>1, <2>2, <1>w, Parts, Elsewhere, Events DEF DeleteBinding, Written
<1>5. QED
  BY <1>1, <1>2, <1>3, <1>4

\* A write of a ClusterResource by somebody else, which keeps or drops its
\* contents.
LEMMA Environment ==
  ASSUME IInv, ReportStatus \/ \E c \in Clusters : Release(c) \/ Collect(c)
  PROVE  IInv' /\ Forward
<1>1. ASSUME NEW c \in Clusters, NEW o \in Copy, copies' = [copies EXCEPT ![c] = o],
             o.exists => copies[c].exists /\ o.contents = copies[c].contents,
             worker' = Outdated(c), UNCHANGED <<resource, binding>>,
             events' \in 0..MaxEvents, events' <= events
      PROVE  IInv' /\ Forward
  <2>1. o.exists => /\ o.contents \in Contents /\ o.contents.version <= resource.version
                    /\ copies[c].contents.version <= o.contents.version
    BY <1>1 DEF IInv, NotNewer, Contents, Versions
  <2>2. \A d \in Clusters : d # c => copies'[d] = copies[d]
    BY <1>1, Parts
  <2>3. AllGood(worker', copies', resource.version)
    BY <1>1, <2>2, AllOutdated
  <2>4. QED
    BY <1>1, <2>1, <2>3, OneCopy
<1>e. events' = events \/ Event => events' \in 0..MaxEvents /\ events' <= events
  BY Parts DEF Event
<1>2. ASSUME NEW c \in Existing, NEW phase \in Phases, Event,
             copies' = [copies EXCEPT ![c].phase = phase], worker' = Outdated(c),
             UNCHANGED <<resource, binding>>
      PROVE  IInv' /\ Forward
  <2>. DEFINE o == [copies[c] EXCEPT !.phase = phase]
  <2>1. c \in Clusters /\ copies[c] \in Copy
    BY <1>2, Parts DEF Existing
  <2>2. o \in Copy /\ o.exists = copies[c].exists /\ o.contents = copies[c].contents
    BY <2>1 DEF Copy
  <2>3. copies' = [copies EXCEPT ![c] = o]
    BY <1>2
  <2>. HIDE DEF o
  <2>4. QED
    BY <1>1, <1>2, <1>e, <2>1, <2>2, <2>3
<1>3. ASSUME NEW c \in Clusters, Release(c) PROVE IInv' /\ Forward
  <2>1. NoCopy \in Copy /\ ~NoCopy.exists
    BY CopyMade DEF NoCopy
  <2>2. QED
    BY <1>1, <1>3, <1>e, <2>1 DEF Release
<1>4. ASSUME NEW c \in Clusters, Collect(c) PROVE IInv' /\ Forward
  <2>. DEFINE o == [copies[c] EXCEPT !.deleting = TRUE]
  <2>1. copies[c] \in Copy
    BY Parts
  <2>2. o \in Copy /\ o.exists = copies[c].exists /\ o.contents = copies[c].contents
    BY <2>1 DEF Copy
  <2>3. copies' = [copies EXCEPT ![c] = o]
    BY <1>4 DEF Collect
  <2>. HIDE DEF o
  <2>4. QED
    BY <1>1, <1>4, <1>e, <2>2, <2>3 DEF Collect
<1>5. QED
  BY <1>2, <1>3, <1>4 DEF ReportStatus

\* Where a Reconcile can begin.
LEMMA Beginnings ==
  ASSUME NEW todo \in SUBSET Clusters, NEW cs, NEW v
  PROVE  /\ Good([Resting EXCEPT !.pc = "list", !.todo = todo, !.known = TRUE], cs, v)
         /\ Good([Resting EXCEPT !.pc = "list", !.todo = todo], cs, v)
         /\ \A p \in {"unbind", "release"} : Good([Resting EXCEPT !.pc = p, !.known = TRUE], cs, v)
<1>1. ASSUME NEW r, r = [Resting EXCEPT !.pc = "list", !.todo = todo, !.known = TRUE]
      PROVE  Good(r, cs, v)
  <2>1. r \in Worker
    BY <1>1, RestingGood DEF Worker
  <2>2. ~r.fresh /\ r.pc # "apply"
    BY <1>1 DEF Resting
  <2>3. QED
    BY <2>1, <2>2, HoldsNothing
<1>2. ASSUME NEW r, r = [Resting EXCEPT !.pc = "list", !.todo = todo] PROVE Good(r, cs, v)
  <2>1. r \in Worker
    BY <1>2, RestingGood DEF Worker
  <2>2. ~r.fresh /\ r.pc # "apply"
    BY <1>2 DEF Resting
  <2>3. QED
    BY <2>1, <2>2, HoldsNothing
<1>3. ASSUME NEW p \in {"unbind", "release"}, NEW r, r = [Resting EXCEPT !.pc = p, !.known = TRUE]
      PROVE  Good(r, cs, v)
  <2>1. r \in Worker
    BY <1>3, RestingGood DEF Worker
  <2>2. ~r.fresh /\ r.pc # "apply"
    BY <1>3 DEF Resting
  <2>3. QED
    BY <2>1, <2>2, HoldsNothing
<1>4. QED
  BY <1>1, <1>2, <1>3

LEMMA Reconciling ==
  ASSUME IInv,
         \/ ReconcileBinding \/ UpdateBindingStatus
         \/ ReconcileResource \/ EndResource \/ Unbind \/ ReleaseResource
  PROVE  IInv' /\ Forward
<1>0. AllGood(worker, copies, resource.version)
  BY Parts
<1>r. \A w \in Controllers : Return(w) => AllGood(worker', copies, resource.version)
  BY RestingGood, OneMoves DEF Return
<1>b. \A todo \in SUBSET Clusters :
        AllGood([worker EXCEPT !["binding"] =
                  [Resting EXCEPT !.pc = "list", !.todo = todo, !.known = TRUE]],
                copies, resource.version)
  BY Beginnings, OneMoves
<1>l. \A todo \in SUBSET Clusters :
        AllGood([worker EXCEPT !["resource"] = [Resting EXCEPT !.pc = "list", !.todo = todo]],
                copies, resource.version)
  BY Beginnings, OneMoves
<1>u. \A p \in {"unbind", "release"} :
        AllGood([worker EXCEPT !["resource"] = [Resting EXCEPT !.pc = p, !.known = TRUE]],
                copies, resource.version)
  <2>. SUFFICES ASSUME NEW p \in {"unbind", "release"}
                PROVE  AllGood([worker EXCEPT !["resource"] = [Resting EXCEPT !.pc = p, !.known = TRUE]],
                               copies, resource.version)
    OBVIOUS
  <2>1. Good([Resting EXCEPT !.pc = p, !.known = TRUE], copies, resource.version)
    BY Beginnings
  <2>2. QED
    BY <2>1, OneMoves
<1>1. CASE ReconcileBinding
  <2>1. Shaped(binding')
    BY <1>1, Parts, BindingMade DEF ReconcileBinding
  <2>2. AllGood(worker', copies, resource.version)
    BY <1>1, <1>0, <1>b, Parts, BindingMade DEF ReconcileBinding
  <2>3. QED
    BY <1>1, <2>1, <2>2, Parts, Elsewhere DEF ReconcileBinding
<1>2. CASE UpdateBindingStatus
  <2>1. Shaped(binding')
    <3>1. binding' = binding \/ \E x : binding' = [binding EXCEPT !.status = x]
      BY <1>2, Zenon DEF UpdateBindingStatus
    <3>2. QED
      BY <3>1, Parts, BindingMade
  <2>2. AllGood(worker', copies, resource.version)
    BY <1>2, <1>r, Zenon DEF UpdateBindingStatus, Controllers
  <2>3. UNCHANGED <<resource, copies, events>>
    BY <1>2, Zenon DEF UpdateBindingStatus
  <2>4. QED
    BY <2>1, <2>2, <2>3, Parts, Elsewhere
<1>3. CASE ReconcileResource
  <2>1. resource' \in Resource /\ resource'.version = resource.version
    BY <1>3, Parts, ResourceMade DEF ReconcileResource
  <2>2. AllGood(worker', copies, resource.version)
    <3>1. CASE worker' = worker
      BY <3>1, <1>0
    <3>2. CASE worker' = [worker EXCEPT !["resource"] =
                 [Resting EXCEPT !.pc = IF binding.exists /\ binding.labelled THEN "unbind" ELSE "release",
                                 !.known = TRUE]]
      BY <3>2, <1>u
    <3>3. CASE worker' = [worker EXCEPT !["resource"] =
                            [Resting EXCEPT !.pc = "list", !.todo = binding.clusters]]
      BY <3>3, <1>l, Parts, BindingMade
    <3>4. QED
      BY <1>3, <3>1, <3>2, <3>3, Zenon DEF ReconcileResource
  <2>3. UNCHANGED <<binding, copies, events>>
    BY <1>3 DEF ReconcileResource
  <2>4. QED
    BY <2>1, <2>2, <2>3, Parts, Elsewhere
<1>4. CASE EndResource
  BY <1>4, <1>r, Parts, Elsewhere DEF EndResource
<1>5. CASE Unbind
  <2>1. Shaped(binding')
    <3>. DEFINE f == binding.finalizer
                o == [binding EXCEPT !.deleting = f]
    <3>1. Shaped(o) /\ f \in BOOLEAN
      BY Parts, BindingMade
    <3>2. binding' = [o EXCEPT !.exists = f] \/ binding' = binding
      BY <1>5, Zenon DEF Unbind
    <3>. HIDE DEF o, f
    <3>3. QED
      BY <3>1, <3>2, BindingMade, Parts
  <2>2. AllGood(worker', copies, resource.version)
    <3>1. CASE Return("resource")
      BY <3>1, <1>r
    <3>2. CASE worker' = [worker EXCEPT !["resource"].pc = "release",
                                        !["binding"].known = @ /\ binding.deleting]
      <4>. DEFINE r == [worker["resource"] EXCEPT !.pc = "release"]
                  b == worker["binding"].known /\ binding.deleting
      <4>1. At("resource", "unbind")
        BY <1>5 DEF Unbind
      <4>2. Good(r, copies, resource.version)
        <5>1. worker["resource"] \in Worker
          BY <1>0 DEF AllGood
        <5>2. /\ r \in Worker /\ r.pc = "release" /\ r.fresh = worker["resource"].fresh
              /\ r.list = worker["resource"].list /\ r.item = worker["resource"].item
          BY <5>1 DEF Worker
        <5>. HIDE DEF r
        <5>3. Holds(worker["resource"], copies)
          BY <1>0 DEF AllGood, Good
        <5>4. Holds(r, copies)
          BY <5>2, <5>3 DEF Holds
        <5>5. QED
          BY <5>2, <5>4 DEF Good, ReadBefore
      <4>3. Good([worker["binding"] EXCEPT !.known = b], copies, resource.version)
        <5>1. b \in BOOLEAN
          OBVIOUS
        <5>2. QED
          BY <1>0, <5>1, UnknownGood DEF AllGood
      <4>4. worker' = [[worker EXCEPT !["resource"] = r]
                         EXCEPT !["binding"] = [worker["binding"] EXCEPT !.known = b]]
        BY <3>2, <1>0 DEF AllGood
      <4>5. AllGood([worker EXCEPT !["resource"] = r], copies, resource.version)
        BY <4>2, OneMoves
      <4>. HIDE DEF r, b
      <4>6. QED
        BY <4>3, <4>4, <4>5, OneWorker DEF AllGood
    <3>3. QED
      BY <1>5, <3>1, <3>2, Zenon DEF Unbind
  <2>3. UNCHANGED <<resource, copies, events>>
    BY <1>5 DEF Unbind
  <2>4. QED
    BY <2>1, <2>2, <2>3, Parts, Elsewhere
<1>6. CASE ReleaseResource
  <2>1. resource' \in Resource /\ resource'.version = resource.version
    BY <1>6, Parts, ResourceMade DEF ReleaseResource
  <2>2. QED
    BY <1>6, <1>r, <2>1, Parts, Elsewhere DEF ReleaseResource
<1>7. QED
  BY <1>1, <1>2, <1>3, <1>4, <1>5, <1>6

LEMMA Failing ==
  ASSUME IInv, CoreRestart \/ \E w \in Controllers : ApiError(w)
  PROVE  IInv' /\ Forward
<1>e. Event => events' \in 0..MaxEvents /\ events' <= events
  BY Parts DEF Event
<1>1. CASE CoreRestart
  <2>1. AllGood(worker', copies, resource.version)
    BY <1>1, RestingGood DEF CoreRestart, AllGood
  <2>2. QED
    BY <1>1, <1>e, <2>1, Parts, Elsewhere DEF CoreRestart
<1>2. ASSUME NEW w \in Controllers, ApiError(w) PROVE IInv' /\ Forward
  <2>1. AllGood(worker', copies, resource.version)
    BY <1>2, RestingGood, OneMoves DEF ApiError, Return
  <2>2. QED
    BY <1>2, <1>e, <2>1, Parts, Elsewhere DEF ApiError
<1>3. QED
  BY <1>1, <1>2

-----------------------------------------------------------------------------
(* Steps of syncClusterResource *)

LEMMA Tuples ==
  ASSUME NEW S, NEW n \in Nat, NEW f \in [1..n -> S]
  PROVE  f \in Seq(S) /\ Len(f) = n
OBVIOUS

LEMMA Listing ==
  ASSUME IInv, NEW w \in Controllers, ListCopies(w)
  PROVE  IInv' /\ Forward
<1>. DEFINE n == Cardinality(Existing)
            items(order) == [i \in DOMAIN order |->
                               [cluster |-> order[i],
                                phase |-> IF w = "binding" THEN copies[order[i]].phase ELSE None]]
<1>1. PICK order \in SetToSeqs(Existing) :
        worker' = [worker EXCEPT ![w].pc = "next",
                     ![w].list = items(order),
                     ![w].keys = Existing,
                     ![w].item = IF order = <<>> \/ worker[w].todo = {} THEN None
                                 ELSE copies[Last(order)].contents,
                     ![w].fresh = order # <<>> /\ worker[w].todo # {}]
  BY Zenon DEF ListCopies
<1>2. n \in Nat
  BY FS_Subset, FS_CardinalityType, Existing \in SUBSET Clusters DEF Existing
<1>3. order \in [1..n -> Existing]
  BY DEF SetToSeqs
<1>4. items(order) \in [1..n -> Item]
  <2>1. \A i \in 1..n : order[i] \in Clusters /\ copies[order[i]].phase \in Phases \cup {None}
    BY <1>3, Parts DEF Existing, Copy
  <2>2. QED
    BY <1>3, <2>1 DEF Item
<1>5. items(order) \in Seq(Item) /\ Len(items(order)) = n /\ Len(order) = n /\ order \in Seq(Existing)
  <2>1. items(order) \in Seq(Item) /\ Len(items(order)) = n
    <3>. HIDE DEF items, n
    <3>1. QED
      BY <1>2, <1>4, Tuples
  <2>2. Len(order) = n /\ order \in Seq(Existing)
    <3>. HIDE DEF n
    <3>1. QED
      BY <1>2, <1>3, Tuples
  <2>3. QED
    BY <2>1, <2>2
<1>6. order # <<>> => n > 0
  BY <1>2, <1>3, <1>5
<1>7. order # <<>> =>
        /\ items(order) # <<>> /\ Last(items(order)).cluster = Last(order)
        /\ Last(order) \in Existing
  BY <1>2, <1>3, <1>5, <1>6 DEF Last
<1>. DEFINE old == worker[w]
            l == items(order)
            x == IF order = <<>> \/ old.todo = {} THEN None ELSE copies[Last(order)].contents
            f == order # <<>> /\ old.todo # {}
            r == [old EXCEPT !.pc = "next", !.list = l, !.keys = Existing, !.item = x, !.fresh = f]
<1>8. worker' = [worker EXCEPT ![w] = r]
  BY <1>1
<1>9. l \in Seq(Item) /\ Existing \in SUBSET Clusters /\ f \in BOOLEAN /\ old \in Worker
  BY <1>5, Parts DEF Existing, AllGood
<1>10. x \in Contents \cup {None}
  BY <1>7 DEF IInv, NotNewer, Existing
<1>11. f => /\ l # <<>> /\ Last(l).cluster \in Clusters
            /\ copies[Last(l).cluster].exists /\ copies[Last(l).cluster].contents = x
  BY <1>7 DEF Existing
<1>. HIDE DEF l, x, f, old
<1>12. r \in Worker /\ r.pc = "next" /\ r.list = l /\ r.item = x /\ r.fresh = f
  BY <1>9, <1>10 DEF Worker
<1>. HIDE DEF r
<1>13. Good(r, copies, resource.version)
  BY <1>11, <1>12 DEF Good, Holds, ReadBefore
<1>14. AllGood(worker', copies, resource.version)
  BY <1>8, <1>13, OneMoves
<1>15. UNCHANGED <<resource, binding, copies, events>>
  BY Zenon DEF ListCopies
<1>16. QED
  BY <1>14, <1>15, Parts, Elsewhere

LEMMA Reading ==
  ASSUME IInv, NEW w \in Controllers, ReadResource(w)
  PROVE  IInv' /\ Forward
<1>. DEFINE old == worker[w]
            c == CHOOSE c \in old.todo : TRUE
<1>1. c \in old.todo /\ old \in Worker /\ old.pc = "next" /\ Good(old, copies, resource.version)
  BY Parts DEF ReadResource, AllGood, At
<1>2. c \in Clusters
  BY <1>1 DEF Worker
<1>3. UNCHANGED <<resource, binding, copies, events>>
  BY DEF ReadResource
<1>4. CASE worker' = [worker EXCEPT ![w].pc = "apply", ![w].at = c,
                                    ![w].todo = @ \ {c}, ![w].version = resource.version]
  <2>. DEFINE v == resource.version
              k == old.todo \ {c}
              r == [old EXCEPT !.pc = "apply", !.at = c, !.todo = k, !.version = v]
  <2>1. worker' = [worker EXCEPT ![w] = r]
    <3>1. worker \in [Controllers -> Worker]
      BY Parts DEF AllGood
    <3>2. worker' = [worker EXCEPT ![w] = [worker[w] EXCEPT !.pc = "apply", !.at = c,
                                             !.todo = worker[w].todo \ {c}, !.version = v]]
      <4>. HIDE DEF c
      <4>1. QED
        BY <1>4, <3>1
    <3>3. QED
      BY <3>2, Zenon
  <2>2. v \in Versions /\ v \in Nat
    BY Parts
  <2>3. old.fresh => old.item \in Contents /\ old.item.version <= v
    BY <1>1 DEF Good, Holds, IInv, NotNewer
  <2>. HIDE DEF v
  <2>4. /\ r \in Worker /\ r.pc = "apply" /\ r.version = v /\ r.list = old.list
        /\ r.item = old.item /\ r.fresh = old.fresh
    BY <1>1, <1>2, <2>2 DEF Worker
  <2>. HIDE DEF r, k
  <2>5. Holds(old, copies)
    BY <1>1 DEF Good
  <2>6. Holds(r, copies)
    BY <2>3, <2>4, <2>5 DEF Holds
  <2>7. ReadBefore(r, v)
    BY <2>2, <2>4 DEF ReadBefore
  <2>8. Good(r, copies, resource.version)
    BY <2>4, <2>6, <2>7 DEF Good, v
  <2>9. AllGood(worker', copies, resource.version)
    BY <2>1, <2>8, OneMoves
  <2>10. QED
    BY <1>3, <2>9, Parts, Elsewhere
<1>5. CASE worker' = [worker EXCEPT ![w].todo = @ \ {c}]
  <2>. DEFINE r == [old EXCEPT !.todo = @ \ {c}]
  <2>1. worker' = [worker EXCEPT ![w] = r]
    BY <1>5
  <2>2. /\ r \in Worker /\ r.pc = "next" /\ r.list = old.list /\ r.item = old.item
        /\ r.fresh = old.fresh
    BY <1>1 DEF Worker
  <2>. HIDE DEF r
  <2>3. Holds(old, copies)
    BY <1>1 DEF Good
  <2>4. Holds(r, copies)
    BY <2>2, <2>3 DEF Holds
  <2>5. Good(r, copies, resource.version)
    BY <2>2, <2>4 DEF Good, ReadBefore
  <2>6. AllGood(worker', copies, resource.version)
    BY <2>1, <2>5, OneMoves
  <2>7. QED
    BY <1>3, <2>6, Parts, Elsewhere
<1>6. QED
  BY <1>4, <1>5, Zenon DEF ReadResource

\* What Applied makes of a reconciler with a cluster to do.
LEMMA AppliedIs ==
  ASSUME NEW w \in Controllers, worker[w] \in Worker, NEW item \in Contents \cup {None},
         NEW cs, NEW v,
         worker[w].fresh => /\ worker[w].list # <<>> /\ Target(w) \in Clusters
                            /\ cs[Target(w)].exists /\ cs[Target(w)].contents = item
  PROVE  Good(Applied(w, item), cs, v)
<1>. DEFINE old == worker[w]
            x == IF old.todo = {} THEN None ELSE item
            f == old.fresh /\ old.todo # {}
            k == old.keys \ {old.at}
            r == [old EXCEPT !.pc = "next", !.at = None, !.version = None, !.keys = k,
                             !.item = x, !.fresh = f]
<1>1. Applied(w, item) = r
  BY DEF Applied
<1>2. old \in Worker /\ x \in Contents \cup {None} /\ f \in BOOLEAN /\ k \in SUBSET Clusters
  BY DEF Worker
<1>3. f => /\ old.list # <<>> /\ Last(old.list).cluster \in Clusters
           /\ cs[Last(old.list).cluster].exists /\ cs[Last(old.list).cluster].contents = x
  BY DEF Target
<1>. HIDE DEF x, f, k, old
<1>4. r \in Worker /\ r.pc = "next" /\ r.list = old.list /\ r.item = x /\ r.fresh = f
  BY <1>2 DEF Worker
<1>. HIDE DEF r
<1>5. Good(r, cs, v)
  BY <1>3, <1>4 DEF Good, Holds, ReadBefore
<1>6. QED
  BY <1>1, <1>5

LEMMA Creating ==
  ASSUME IInv, NEW w \in Controllers, CreateCopy(w)
  PROVE  IInv' /\ Forward
<1>. DEFINE c == worker[w].at
            v == worker[w].version
            o == NewClusterResource(ContentsFor(c, v))
<1>1. /\ worker[w] \in Worker /\ Good(worker[w], copies, resource.version)
      /\ worker[w].pc = "apply" /\ UNCHANGED <<resource, binding, events>>
  BY Parts DEF CreateCopy, AllGood, At
<1>2. v \in Versions /\ v <= resource.version
  BY <1>1 DEF Good, ReadBefore
<1>3. CASE ~copies[c].exists /\ copies' = [copies EXCEPT ![c] = o]
           /\ worker' = [Outdated(c) EXCEPT ![w] = Applied(w, worker[w].item)]
  <2>1. worker[w].item \in Contents \cup {None}
    BY <1>1 DEF Worker
  <2>2. \A d \in Clusters : d # c => copies'[d] = copies[d]
    BY <1>3, Parts
  <2>3. worker[w].fresh =>
          /\ worker[w].list # <<>> /\ Target(w) \in Clusters
          /\ copies'[Target(w)].exists /\ copies'[Target(w)].contents = worker[w].item
    <3>1. worker[w].fresh =>
            /\ worker[w].list # <<>> /\ Target(w) \in Clusters
            /\ copies[Target(w)].exists /\ copies[Target(w)].contents = worker[w].item
      BY <1>1 DEF Good, Holds, Target
    <3>2. QED
      BY <1>3, <2>2, <3>1
  <2>4. Good(Applied(w, worker[w].item), copies', resource.version)
    BY <1>1, <2>1, <2>3, AppliedIs
  <2>5. AllGood(Outdated(c), copies', resource.version)
    BY <2>2, AllOutdated
  <2>6. AllGood(worker', copies', resource.version)
    BY <1>3, <2>4, <2>5, OneWorker DEF AllGood
  <2>7. CASE c \in Clusters
    <3>1. ContentsFor(c, v) \in Contents /\ ContentsFor(c, v).version = v
      BY <1>2, <2>7, ContentsMade
    <3>2. o \in Copy /\ o.contents = ContentsFor(c, v)
      BY <3>1, CopyMade DEF NewClusterResource
    <3>. HIDE DEF o
    <3>3. o.contents \in Contents /\ o.contents.version <= resource.version
      BY <1>2, <3>1, <3>2
    <3>4. /\ resource' = resource /\ binding' = binding
          /\ events' \in 0..MaxEvents /\ events' <= events
      BY <1>1, Events
    <3>. HIDE DEF c, v
    <3>5. QED
      BY <1>3, <2>6, <2>7, <3>2, <3>3, <3>4, OneCopy
  <2>8. CASE c \notin Clusters
    <3>1. copies' = copies
      BY <1>3, <2>8, Parts
    <3>2. QED
      BY <1>1, <2>6, <3>1, Parts, Elsewhere
  <2>9. QED
    BY <2>7, <2>8
<1>4. CASE Return(w) /\ copies' = copies
  <2>1. AllGood(worker', copies, resource.version)
    BY <1>4, RestingGood, OneMoves DEF Return
  <2>2. QED
    BY <1>1, <1>4, <2>1, Parts, Elsewhere
<1>5. QED
  BY <1>3, <1>4, Zenon DEF CreateCopy

LEMMA Updating ==
  ASSUME IInv, NEW w \in Controllers, UpdateCopy(w)
  PROVE  IInv' /\ Forward
<1>. DEFINE c == worker[w].at
            v == worker[w].version
            x == ContentsFor(c, v)
            t == Target(w)
<1>1. /\ worker[w] \in Worker /\ Good(worker[w], copies, resource.version)
      /\ worker[w].pc = "apply" /\ c \in worker[w].keys /\ UNCHANGED <<resource, binding, events>>
  BY Parts DEF UpdateCopy, AllGood, At
<1>2. v \in Versions /\ v <= resource.version
  BY <1>1 DEF Good, ReadBefore
<1>3. c \in Clusters
  BY <1>1 DEF Worker
<1>4. x \in Contents /\ x.version = v
  BY <1>2, <1>3, ContentsMade
<1>5. worker[w].fresh =>
        /\ worker[w].list # <<>> /\ t \in Clusters
        /\ copies[t].exists /\ copies[t].contents = worker[w].item
        /\ worker[w].item.version <= v
  BY <1>1 DEF Good, Holds, Target
<1>6. CASE worker' = [worker EXCEPT ![w] = Applied(w, worker[w].item)] /\ copies' = copies
  <2>1. worker[w].item \in Contents \cup {None}
    BY <1>1 DEF Worker
  <2>2. Good(Applied(w, worker[w].item), copies, resource.version)
    BY <1>1, <1>5, <2>1, AppliedIs
  <2>3. AllGood(worker', copies, resource.version)
    BY <1>6, <2>2, OneMoves
  <2>4. QED
    BY <1>1, <1>6, <2>3, Parts, Elsewhere
<1>7. CASE worker[w].fresh /\ copies' = [copies EXCEPT ![t].contents = x]
           /\ worker' = [Outdated(t) EXCEPT ![w] = Applied(w, x)]
  <2>. DEFINE o == [copies[t] EXCEPT !.contents = x]
  <2>0. t \in Clusters /\ copies[t] \in Copy
    BY <1>5, <1>7, Parts
  <2>1. o \in Copy /\ o.contents = x /\ o.exists = copies[t].exists
    BY <1>4, <2>0 DEF Copy
  <2>2. copies' = [copies EXCEPT ![t] = o]
    BY <1>7
  <2>. HIDE DEF o
  <2>3. /\ \A d \in Clusters : d # t => copies'[d] = copies[d]
        /\ copies'[t] = o
    BY <2>0, <2>2, Parts
  <2>4. Good(Applied(w, x), copies', resource.version)
    BY <1>1, <1>4, <1>5, <1>7, <2>1, <2>3, AppliedIs
  <2>5. AllGood(Outdated(t), copies', resource.version)
    BY <2>3, AllOutdated
  <2>6. AllGood(worker', copies', resource.version)
    BY <1>7, <2>4, <2>5, OneWorker DEF AllGood
  <2>7. copies[t].contents.version <= o.contents.version
    BY <1>4, <1>5, <1>7, <2>1
  <2>8. o.exists => o.contents \in Contents /\ o.contents.version <= resource.version
    BY <1>2, <1>4, <2>1
  <2>9. /\ resource' = resource /\ binding' = binding
        /\ events' \in 0..MaxEvents /\ events' <= events
    BY <1>1, Events
  <2>. HIDE DEF t
  <2>10. QED
    BY <2>0, <2>1, <2>2, <2>6, <2>7, <2>8, <2>9, OneCopy
<1>8. CASE Return(w) /\ copies' = copies
  <2>1. AllGood(worker', copies, resource.version)
    BY <1>8, RestingGood, OneMoves DEF Return
  <2>2. QED
    BY <1>1, <1>8, <2>1, Parts, Elsewhere
<1>9. QED
  BY <1>6, <1>7, <1>8, Zenon DEF UpdateCopy

LEMMA Deleting ==
  ASSUME IInv, NEW w \in Controllers, DeleteCopy(w)
  PROVE  IInv' /\ Forward
<1>. DEFINE t == Target(w)
<1>1. /\ worker[w] \in Worker /\ worker[w].pc = "next"
      /\ UNCHANGED <<resource, binding, events>>
  BY Parts DEF DeleteCopy, AllGood, Good, At
<1>2. events' \in 0..MaxEvents /\ events' <= events
  BY <1>1, Events
<1>3. ASSUME NEW key \in worker[w].keys, copies[t].exists,
             copies' = [copies EXCEPT ![t].deleting = TRUE],
             worker' = [IF copies[t].deleting THEN worker ELSE Outdated(t)
                          EXCEPT ![w].keys = @ \ {key}]
      PROVE  IInv' /\ Forward
  <2>. DEFINE f == IF copies[t].deleting THEN worker ELSE Outdated(t)
              o == [copies[t] EXCEPT !.deleting = TRUE]
              k == f[w].keys \ {key}
              r == [f[w] EXCEPT !.keys = k]
  <2>1. copies' = [copies EXCEPT ![t] = o]
    BY <1>3
  <2>2. copies \in [Clusters -> Copy]
    BY Parts
  <2>3. \A d \in Clusters : d # t => copies'[d] = copies[d]
    BY <2>1, <2>2
  <2>4. t \in Clusters =>
          /\ o \in Copy /\ o.exists = copies[t].exists /\ o.contents = copies[t].contents
          /\ copies'[t] = o
    BY <2>1, <2>2 DEF Copy
  <2>5. AllGood(worker, copies', resource.version)
    <3>1. ASSUME NEW u \in Controllers PROVE Good(worker[u], copies', resource.version)
      <4>1. Good(worker[u], copies, resource.version)
        BY Parts DEF AllGood
      <4>. HIDE DEF o, t
      <4>2. \A d \in Clusters : copies'[d].exists = copies[d].exists
                                /\ copies'[d].contents = copies[d].contents
        BY <2>3, <2>4
      <4>3. Holds(worker[u], copies')
        BY <4>1, <4>2 DEF Good, Holds
      <4>4. QED
        BY <4>1, <4>3 DEF Good
    <3>2. QED
      BY <3>1, Parts DEF AllGood
  <2>6. AllGood(Outdated(t), copies', resource.version)
    BY <2>3, AllOutdated
  <2>7. AllGood(f, copies', resource.version)
    BY <2>5, <2>6
  <2>8. worker' = [f EXCEPT ![w] = r]
    BY <1>3
  <2>. HIDE DEF f, o, t
  <2>9. f[w] \in Worker /\ Good(f[w], copies', resource.version)
    BY <2>7 DEF AllGood, Good
  <2>10. k \in SUBSET Clusters
    BY <2>9 DEF Worker
  <2>11. Good(r, copies', resource.version)
    <3>. DEFINE old == f[w]
    <3>1. old \in Worker /\ Holds(old, copies') /\ ReadBefore(old, resource.version)
      BY <2>9 DEF Good
    <3>. HIDE DEF k, old
    <3>2. /\ r \in Worker /\ r.pc = old.pc /\ r.list = old.list /\ r.item = old.item
          /\ r.fresh = old.fresh /\ r.version = old.version
      BY <3>1, <2>10 DEF Worker, old
    <3>. HIDE DEF r
    <3>3. Holds(r, copies')
      BY <3>1, <3>2, Zenon DEF Holds
    <3>4. ReadBefore(r, resource.version)
      BY <3>1, <3>2, Zenon DEF ReadBefore
    <3>5. QED
      BY <3>2, <3>3, <3>4, Zenon DEF Good
  <2>. HIDE DEF r, k
  <2>12. AllGood(worker', copies', resource.version)
    BY <2>7, <2>8, <2>11, OneWorker DEF AllGood
  <2>13. CASE t \in Clusters
    <3>0. copies[t].contents \in Contents /\ copies[t].contents.version <= resource.version
      BY <1>3, <2>13 DEF IInv, NotNewer
    <3>a. copies[t].exists
      BY <1>3
    <3>b. o \in Copy /\ o.exists /\ o.contents = copies[t].contents
      BY <2>4, <2>13, <3>a, Zenon
    <3>c. copies[t].contents.version \in Nat
      BY <3>0 DEF Contents, Versions
    <3>1. /\ o.contents \in Contents /\ o.contents.version <= resource.version
          /\ copies[t].contents.version <= o.contents.version
      BY <3>0, <3>b, <3>c
    <3>2. resource' = resource /\ binding' = binding
      BY <1>1
    <3>3. QED
      BY <1>2, <2>1, <2>12, <2>13, <3>b, <3>1, <3>2, OneCopy
  <2>14. CASE t \notin Clusters
    <3>1. copies' = copies
      BY <2>1, <2>2, <2>14
    <3>2. QED
      BY <1>1, <1>2, <2>12, <3>1, Parts, Elsewhere
  <2>15. QED
    BY <2>13, <2>14
<1>4. ASSUME Return(w), copies' = copies PROVE IInv' /\ Forward
  <2>1. AllGood(worker', copies, resource.version)
    BY <1>4, RestingGood, OneMoves DEF Return
  <2>2. QED
    BY <1>1, <1>2, <1>4, <2>1, Parts, Elsewhere
<1>5. QED
  BY <1>3, <1>4, Zenon DEF DeleteCopy

-----------------------------------------------------------------------------
(* The theorems *)

LEMMA InitInv == Init => IInv
<1>. SUFFICES ASSUME Init PROVE IInv
  OBVIOUS
<1>1. resource \in Resource /\ resource.version = 1 /\ events \in 0..MaxEvents
      /\ events = MaxEvents
  BY DEF Init, Resource, Versions
<1>2. \E s : binding \in [exists: BOOLEAN, clusters: SUBSET Clusters, finalizer: BOOLEAN,
                          deleting: BOOLEAN, labelled: BOOLEAN, status: {s}]
  <2>1. PICK bound \in SUBSET Clusters :
          binding = [exists |-> TRUE, clusters |-> bound, finalizer |-> FALSE,
                     deleting |-> FALSE, labelled |-> FALSE, status |-> <<>>]
    BY DEF Init
  <2>2. binding \in [exists: BOOLEAN, clusters: SUBSET Clusters, finalizer: BOOLEAN,
                     deleting: BOOLEAN, labelled: BOOLEAN, status: {<<>>}]
    BY <2>1
  <2>3. QED
    BY <2>2
<1>3. copies \in [Clusters -> Copy] /\ \A c \in Clusters : ~copies[c].exists
  BY CopyMade DEF Init, NoCopy
<1>4. worker \in [Controllers -> Worker]
      /\ \A w \in Controllers : Good(worker[w], copies, resource.version)
  BY RestingGood DEF Init
<1>5. Typed
  BY <1>1, <1>2, <1>3, <1>4 DEF Typed
<1>6. Counted /\ NotNewer
  BY <1>1, <1>3 DEF Counted, NotNewer
<1>7. WorkersInv
  BY <1>4 DEF WorkersInv, Good
<1>8. QED
  BY <1>5, <1>6, <1>7 DEF IInv

LEMMA StepInv == IInv /\ [Next]_vars => IInv' /\ Forward
<1>. SUFFICES ASSUME IInv, [Next]_vars PROVE IInv' /\ Forward
  OBVIOUS
<1>1. CASE UNCHANGED vars
  <2>1. /\ resource' = resource /\ binding' = binding /\ copies' = copies
        /\ worker' = worker /\ events' = events
    BY <1>1 DEF vars
  <2>2. events' \in 0..MaxEvents /\ events' <= events
    BY <2>1, Events
  <2>3. QED
    BY <2>1, <2>2, Parts, Elsewhere
<1>2. CASE ChangeResource \/ DeleteResource \/ Rebind \/ DeleteBinding
  BY <1>2, Users
<1>3. CASE ReportStatus \/ \E c \in Clusters : Release(c) \/ Collect(c)
  BY <1>3, Environment
<1>4. CASE CoreRestart \/ \E w \in Controllers : ApiError(w)
  BY <1>4, Failing
<1>5. ASSUME NEW w \in Controllers, Step(w) PROVE IInv' /\ Forward
  <2>1. CASE Sync(w)
    BY <2>1, Listing, Reading, Creating, Updating, Deleting, Zenon DEF Sync
  <2>2. CASE ~Sync(w)
    BY <1>5, <2>2, Reconciling, Zenon DEF Step
  <2>3. QED
    BY <2>1, <2>2
<1>6. QED
  BY <1>1, <1>2, <1>3, <1>4, <1>5, Zenon DEF Next

\* What is held, read and written stays in the order of its versions
\* (resource-binding/common.go:35, :78, :158).
THEOREM Invariance == Spec => []IInv
<1>1. IInv /\ [Next]_vars => IInv'
  BY StepInv
<1>2. QED
  BY <1>1, InitInv, PTL DEF Spec

\* No ClusterResource goes back to earlier contents, whichever of the two
\* controllers writes it and whatever item of the list it takes for the
\* cluster's (resource-binding/common.go:78, :158).
THEOREM VersionsForward == Spec => NoGoingBack
<1>1. IInv /\ [Next]_vars =>
        [\A c \in Clusters :
           copies[c].exists /\ copies'[c].exists
             => copies[c].contents.version <= copies'[c].contents.version]_vars
  BY StepInv DEF Forward
<1>2. QED
  BY <1>1, Invariance, PTL DEF Spec, NoGoingBack

-----------------------------------------------------------------------------
(* The binding's status: a fold over the list *)

\* What holds of a finite set if it holds of all sets above smaller ones.
LEMMA SubsetInduction ==
  ASSUME NEW S, IsFiniteSet(S), NEW G,
         \A T \in SUBSET S : (\A U \in SUBSET T : U # T => U \in G) => T \in G
  PROVE  S \in G
<1> DEFINE Bad == {T \in SUBSET S : T \notin G}
<1> SUFFICES ASSUME S \notin G PROVE FALSE
  OBVIOUS
<1>1. IsWellFoundedOn(StrictSubsetOrdering(S), SUBSET S)
  <2>1. IsWellFoundedOn(StrictSubsetOrdering(S), FiniteSubsetsOf(S))
    BY FS_StrictSubsetOrderingWellFounded
  <2>2. FiniteSubsetsOf(S) = SUBSET S
    BY FS_FiniteSubsetsOfFinite
  <2> QED BY <2>1, <2>2
<1>2. S \in Bad /\ Bad \subseteq SUBSET S /\ Bad # {}
  OBVIOUS
<1>3. PICK T \in Bad : \A U \in Bad : ~(<<U, T>> \in StrictSubsetOrdering(S))
  <2> HIDE DEF Bad
  <2> QED BY <1>1, <1>2, WFMin
<1>4. \A U \in SUBSET T : U # T => U \in G
  BY <1>3 DEF StrictSubsetOrdering
<1> QED BY <1>4

LEMMA Least ==
  ASSUME NEW S \in SUBSET Nat, S # {}
  PROVE  \E m \in S : \A n \in S : m <= n
<1> DEFINE R == OpToRel(<, Nat)
<1>1. IsWellFoundedOn(R, Nat)
  BY NatLessThanWellFounded
<1>2. PICK m \in S : \A n \in S : ~(<<n, m>> \in R)
  <2> HIDE DEF R
  <2> QED BY <1>1, WFMin
<1>3. ASSUME NEW n \in S PROVE m <= n
  <2>1. m \in Nat /\ n \in Nat
    OBVIOUS
  <2>2. ~(n < m)
    BY <1>2, <2>1 DEF OpToRel
  <2> QED BY <2>1, <2>2
<1> QED BY <1>3

LEMMA MaxIsIn ==
  ASSUME NEW n \in Nat, NEW S \in SUBSET (1..n), S # {}
  PROVE  Max(S) \in S
<1> DEFINE T == {n - x : x \in S}
<1>1. T \in SUBSET Nat /\ T # {}
  <2>1. ASSUME NEW x \in S PROVE n - x \in Nat
    <3>1. x \in 1..n
      OBVIOUS
    <3> QED BY <3>1
  <2>2. PICK x \in S : TRUE
    OBVIOUS
  <2> QED BY <2>1, <2>2
<1>2. PICK m \in T : \A k \in T : m <= k
  <2> HIDE DEF T
  <2> QED BY <1>1, Least
<1>3. PICK x \in S : m = n - x
  BY <1>2
<1>4. \A y \in S : x >= y
  <2> SUFFICES ASSUME NEW y \in S PROVE x >= y
    OBVIOUS
  <2>1. n - x <= n - y
    BY <1>2, <1>3
  <2>2. x \in 1..n /\ y \in 1..n
    OBVIOUS
  <2> QED BY <2>1, <2>2
<1>5. \E y \in S : \A z \in S : y >= z
  BY <1>4
<1> QED BY <1>5 DEF Max

LEMMA SecondPart ==
  ASSUME NEW V, NEW a \in Seq(V), NEW b \in Seq(V)
  PROVE  /\ Len(a \o b) = Len(a) + Len(b)
         /\ \A i \in 1..Len(b) : (a \o b)[Len(a) + i] = b[i]
<1>1. Len(a) \in Nat /\ Len(b) \in Nat
  OBVIOUS
<1>2. ASSUME NEW i \in 1..Len(b) PROVE (a \o b)[Len(a) + i] = b[i]
  <2>1. Len(a) + i \in 1..(Len(a) + Len(b)) /\ ~(Len(a) + i <= Len(a)) /\ Len(a) + i - Len(a) = i
    BY <1>1
  <2> QED BY <2>1, ConcatProperties
<1> QED BY <1>2, ConcatProperties

\* A sequence without its i-th element.
LEMMA Removed ==
  ASSUME NEW V, NEW s \in Seq(V), NEW i \in 1..Len(s)
  PROVE  /\ RemoveAt(s, i) \in Seq(V) /\ Len(RemoveAt(s, i)) = Len(s) - 1
         /\ \A k \in 1..(Len(s) - 1) : RemoveAt(s, i)[k] = IF k < i THEN s[k] ELSE s[k + 1]
<1> DEFINE a == SubSeq(s, 1, i - 1)
           b == SubSeq(s, i + 1, Len(s))
<1>1. Len(s) \in Nat
  OBVIOUS
<1>2. /\ a \in Seq(V) /\ Len(a) = i - 1 /\ \A k \in 1..(i - 1) : a[k] = s[k]
  <2>1. \A k \in 1..(i - 1) : s[k] \in V
    BY <1>1
  <2> QED BY <1>1, <2>1
<1>3. /\ b \in Seq(V) /\ Len(b) = Len(s) - i /\ \A k \in 1..(Len(s) - i) : b[k] = s[k + i]
  <2>1. \A k \in (i + 1)..Len(s) : s[k] \in V
    BY <1>1
  <2> QED BY <1>1, <2>1
<1>4. RemoveAt(s, i) = a \o b
  BY DEF RemoveAt
<1> HIDE DEF a, b
<1>5. a \o b \in Seq(V) /\ Len(a \o b) = Len(s) - 1
  <2>1. a \in Seq(V) /\ b \in Seq(V)
    BY <1>2, <1>3
  <2>2. a \o b \in Seq(V) /\ Len(a \o b) = Len(a) + Len(b)
    BY <2>1
  <2>3. Len(a) = i - 1 /\ Len(b) = Len(s) - i
    BY <1>2, <1>3
  <2> QED BY <1>1, <2>2, <2>3
<1>6. ASSUME NEW k \in 1..(Len(s) - 1)
      PROVE  (a \o b)[k] = IF k < i THEN s[k] ELSE s[k + 1]
  <2>1. CASE k < i
    <3>1. (a \o b)[k] = a[k]
      BY <1>1, <1>2, <1>3, <2>1
    <3> QED BY <1>1, <1>2, <2>1, <3>1
  <2>2. CASE ~(k < i)
    <3> DEFINE m == k - (i - 1)
    <3>1. m \in 1..(Len(s) - i) /\ m + i = k + 1 /\ Len(a) + m = k
      BY <1>1, <1>2, <2>2
    <3> HIDE DEF m
    <3>2. (a \o b)[Len(a) + m] = b[m]
      BY <1>2, <1>3, <3>1, SecondPart
    <3> QED BY <1>3, <2>2, <3>1, <3>2
  <2> QED BY <2>1, <2>2
<1> QED BY <1>4, <1>5, <1>6

\* What updateBindingStatus has of the items of `list' whose positions are in s.
After(base, list, g, s) == IF s = {} THEN base ELSE Report(g[s \ {Max(s)}], list[Max(s)])

Reports(base, list, S, g) == g = [s \in SUBSET S |-> After(base, list, g, s)]

Reported(base, list) == CHOOSE g : Reports(base, list, DOMAIN list, g)

LEMMA FoldIsReported ==
  ASSUME NEW base, NEW list
  PROVE  FoldLeft(Report, base, list) = Reported(base, list)[DOMAIN list]
BY DEF FoldLeft, MapThenFoldSet, Reported, Reports, After

LEMMA LastIsIn ==
  ASSUME NEW list, NEW n \in Nat, DOMAIN list = 1..n, NEW s \in SUBSET DOMAIN list, s # {}
  PROVE  Max(s) \in s
BY MaxIsIn

LEMMA ReportsAgree ==
  ASSUME NEW base, NEW list, NEW n \in Nat, DOMAIN list = 1..n, NEW A \in SUBSET DOMAIN list,
         NEW B \in SUBSET DOMAIN list, NEW g, NEW h, Reports(base, list, A, g), Reports(base, list, B, h),
         NEW T, T \subseteq A, T \subseteq B
  PROVE  g[T] = h[T]
<1> DEFINE G == {U \in SUBSET T : g[U] = h[U]}
<1>1. ASSUME NEW U \in SUBSET T, \A V \in SUBSET U : V # U => V \in G
      PROVE  U \in G
  <2>1. g[U] = After(base, list, g, U) /\ h[U] = After(base, list, h, U)
    <3>1. U \in SUBSET A /\ U \in SUBSET B
      OBVIOUS
    <3> QED BY <3>1 DEF Reports
  <2>2. U # {} => Max(U) \in U
    BY LastIsIn
  <2>3. U # {} => (U \ {Max(U)}) \in G
    <3> HIDE DEF G
    <3> QED BY <1>1, <2>2
  <2> QED BY <2>1, <2>3 DEF After
<1>2. T \in G
  <2>1. IsFiniteSet(T)
    BY FS_Interval, FS_Subset
  <2> HIDE DEF G
  <2> QED BY <1>1, <2>1, SubsetInduction
<1> QED BY <1>2

LEMMA ReportsExist ==
  ASSUME NEW base, NEW list, NEW n \in Nat, DOMAIN list = 1..n
  PROVE  \E g : Reports(base, list, DOMAIN list, g)
<1> DEFINE S == DOMAIN list
           G == {T \in SUBSET S : \E g : Reports(base, list, T, g)}
<1>1. ASSUME NEW T \in SUBSET S, \A U \in SUBSET T : U # T => U \in G
      PROVE  T \in G
  <2> DEFINE below(U) == CHOOSE g : Reports(base, list, U, g)
             low == [U \in SUBSET T |-> below(U)[U]]
             h == [U \in SUBSET T |-> After(base, list, low, U)]
  <2>1. \A U \in SUBSET T : U # T => Reports(base, list, U, below(U))
    BY <1>1
  <2>2. ASSUME NEW U \in SUBSET T, U # {} PROVE Max(U) \in U
    BY <2>2, LastIsIn
  <2>3. ASSUME NEW U \in SUBSET T, U # T PROVE low[U] = h[U]
    <3>1. Reports(base, list, U, below(U))
      BY <2>1, <2>3
    <3>2. low[U] = After(base, list, below(U), U)
      BY <3>1 DEF Reports
    <3>3. ASSUME NEW V \in SUBSET U, V # U PROVE below(U)[V] = low[V]
      <4>1. V \in SUBSET T /\ V # T /\ U \in SUBSET S /\ V \in SUBSET S
        BY <3>3
      <4>2. Reports(base, list, V, below(V))
        BY <2>1, <4>1
      <4>3. below(U)[V] = below(V)[V]
        <5> HIDE DEF below
        <5> QED BY <3>1, <4>1, <4>2, ReportsAgree
      <4> QED BY <4>1, <4>3
    <3>4. U # {} => U \ {Max(U)} \in SUBSET U /\ U \ {Max(U)} # U
      BY <2>2
    <3>5. After(base, list, below(U), U) = After(base, list, low, U)
      <4> HIDE DEF below, low
      <4> QED BY <3>3, <3>4 DEF After
    <3> QED BY <3>2, <3>5
  <2>4. Reports(base, list, T, h)
    <3>1. ASSUME NEW U \in SUBSET T PROVE After(base, list, low, U) = After(base, list, h, U)
      <4>1. U # {} => U \ {Max(U)} \in SUBSET T /\ U \ {Max(U)} # T
        BY <2>2
      <4> HIDE DEF low, h
      <4> QED BY <4>1, <2>3 DEF After
    <3> QED BY <3>1 DEF Reports
  <2> QED BY <2>4
<1>2. IsFiniteSet(S)
  BY FS_Interval
<1>3. S \in G
  <2> HIDE DEF G
  <2> QED BY <1>1, <1>2, SubsetInduction
<1> QED BY <1>3

\* What holds of a list reported so far, and stays so with one item more, holds
\* in the end.
LEMMA FoldKeeps ==
  ASSUME NEW list, NEW n \in Nat, DOMAIN list = 1..n, NEW V, NEW base \in V,
         \A e \in V : \A i \in DOMAIN list : Report(e, list[i]) \in V
  PROVE  FoldLeft(Report, base, list) \in V
<1> DEFINE g == Reported(base, list)
           G == {s \in SUBSET DOMAIN list : g[s] \in V}
<1>1. Reports(base, list, DOMAIN list, g)
  BY ReportsExist DEF Reported
<1>2. ASSUME NEW T \in SUBSET DOMAIN list, \A U \in SUBSET T : U # T => U \in G
      PROVE  T \in G
  <2>1. g[T] = After(base, list, g, T)
    <3> HIDE DEF g
    <3> QED BY <1>1 DEF Reports
  <2>2. CASE T = {}
    BY <2>1, <2>2 DEF After
  <2>3. CASE T # {}
    <3>1. Max(T) \in T
      BY <2>3, LastIsIn
    <3>2. g[T \ {Max(T)}] \in V
      BY <1>2, <3>1
    <3>3. g[T] = Report(g[T \ {Max(T)}], list[Max(T)])
      BY <2>1, <2>3 DEF After
    <3> HIDE DEF g
    <3>4. g[T] \in V
      BY <3>1, <3>2, <3>3
    <3> QED BY <3>4
  <2> QED BY <2>2, <2>3
<1>3. DOMAIN list \in G
  <2>1. IsFiniteSet(DOMAIN list)
    BY FS_Interval
  <2> HIDE DEF G
  <2> QED BY <1>2, <2>1, SubsetInduction
<1> QED BY <1>3, FoldIsReported

LEMMA WithoutType ==
  ASSUME NEW V, NEW s \in Seq(V), NEW i \in 1..Len(s)
  PROVE  Without(s, i) \in Seq(V)
<1>1. CASE i = 2
  <2>1. SubSeq(s, 3, Len(s)) \in Seq(V)
    <3>1. \A k \in 3..Len(s) : s[k] \in V
      OBVIOUS
    <3> QED BY <3>1
  <2>2. s[1] \in V
    BY <1>1
  <2> QED BY <1>1, <2>1, <2>2 DEF Without
<1>2. CASE i # 2
  BY <1>2, Removed DEF Without
<1> QED BY <1>1, <1>2

LEMMA ReportType ==
  ASSUME NEW entries \in Seq(Entry), NEW item \in Item
  PROVE  Report(entries, item) \in Seq(Entry)
<1> DEFINE entry == [cluster |-> item.cluster, phase |-> item.phase]
           known == \E i \in DOMAIN entries : entries[i].cluster = item.cluster
           same == {i \in DOMAIN entries : entries[i] = Last(entries)}
           first == CHOOSE i \in same : \A j \in same : i <= j
<1>1. item.phase # None => entry \in Entry
  BY DEF Item, Entry
<1>2. known => first \in 1..Len(entries)
  <2>1. SUFFICES ASSUME known PROVE first \in 1..Len(entries)
    OBVIOUS
  <2>2. Len(entries) \in Nat /\ DOMAIN entries = 1..Len(entries) /\ DOMAIN entries # {}
    BY <2>1
  <2>3. Len(entries) \in same
    BY <2>2 DEF Last
  <2>4. same \in SUBSET Nat /\ same # {} /\ same \subseteq 1..Len(entries)
    BY <2>2, <2>3
  <2> HIDE DEF same
  <2>5. \E m \in same : \A k \in same : m <= k
    BY <2>4, Least
  <2> QED BY <2>4, <2>5
<1>3. known => Without(entries, first) \in Seq(Entry)
  <2> HIDE DEF first, known
  <2> QED BY <1>2, WithoutType
<1>4. Report(entries, item) =
        CASE item.phase = None -> entries
          [] item.phase # None /\ ~known -> Append(entries, entry)
          [] known /\ Last(entries).phase = item.phase -> entries
          [] OTHER -> Append(Without(entries, first), entry)
  BY DEF Report
<1> HIDE DEF entry, known, first
<1> QED BY <1>1, <1>3, <1>4

-----------------------------------------------------------------------------
(* The types of the status and of the lists *)

Stored(b) == b.status \in Seq(Entry) /\ Len(b.status) <= MaxEntries

\* A list names each cluster once.
NamesOnce(list) == \A i, j \in DOMAIN list : list[i].cluster = list[j].cluster => i = j

Named(r) == NamesOnce(r.list)

Once(v) == Named(worker[v]) => Named(worker'[v])

LEMMA NoneNamed == Named(Resting) /\ NamesOnce(<<>>)
BY DEF Named, NamesOnce, Resting

LEMMA SameList ==
  ASSUME NEW v, worker'[v].list = worker[v].list
  PROVE  Once(v)
BY DEF Once, Named

LEMMA OutdatedList ==
  ASSUME worker \in [Controllers -> Worker], NEW c, NEW v \in Controllers
  PROVE  Outdated(c)[v].list = worker[v].list
BY DEF Outdated, Worker

LEMMA Returns ==
  ASSUME worker \in [Controllers -> Worker], NEW w \in Controllers, Return(w), NEW v \in Controllers
  PROVE  Once(v)
<1>1. worker'[v] = IF v = w THEN Resting ELSE worker[v]
  BY DEF Return
<1>2. QED
  BY <1>1, NoneNamed DEF Once

LEMMA WrittenList ==
  ASSUME worker \in [Controllers -> Worker], NEW w \in Controllers, Written(w), NEW v \in Controllers
  PROVE  Once(v)
<1>1. worker'[v].list = worker[v].list
  BY DEF Written, Worker
<1>2. QED
  BY <1>1, SameList

LEMMA UsersOnce ==
  ASSUME worker \in [Controllers -> Worker], NEW v \in Controllers,
         \/ ChangeResource \/ DeleteResource \/ Rebind \/ DeleteBinding
         \/ ReportStatus \/ CoreRestart
         \/ \E c \in Clusters : Release(c) \/ Collect(c)
  PROVE  Once(v)
<1>1. CASE ChangeResource \/ DeleteResource
  BY <1>1, WrittenList DEF ChangeResource, DeleteResource
<1>2. CASE Rebind \/ DeleteBinding
  BY <1>2, WrittenList DEF Rebind, DeleteBinding
<1>3. CASE ReportStatus \/ \E c \in Clusters : Release(c) \/ Collect(c)
  <2>1. PICK c : worker' = Outdated(c)
    BY <1>3 DEF ReportStatus, Release, Collect
  <2>2. QED
    BY <2>1, OutdatedList, SameList
<1>4. CASE CoreRestart
  BY <1>4, NoneNamed DEF CoreRestart, Once
<1>5. QED
  BY <1>1, <1>2, <1>3, <1>4

LEMMA ReconcilingOnce ==
  ASSUME worker \in [Controllers -> Worker], NEW v \in Controllers,
         \/ ReconcileBinding \/ UpdateBindingStatus \/ ReconcileResource \/ EndResource
         \/ Unbind \/ ReleaseResource
         \/ \E w \in Controllers : ApiError(w)
  PROVE  Once(v)
<1>1. CASE worker' = worker
  BY <1>1, SameList
<1>2. CASE \E w \in Controllers : Return(w)
  BY <1>2, Returns
<1>3. ASSUME NEW w \in Controllers, NEW r, worker' = [worker EXCEPT ![w] = r], r.list = <<>>
      PROVE  Once(v)
  <2>1. worker'[v] = IF v = w THEN r ELSE worker[v]
    BY <1>3
  <2>2. QED
    BY <1>3, <2>1, NoneNamed DEF Once, Named
<1>4. CASE ReconcileBinding
  <2>. DEFINE r == [Resting EXCEPT !.pc = "list", !.todo = binding.clusters, !.known = TRUE]
  <2>1. CASE worker' = [worker EXCEPT !["binding"] = r]
    <3>1. r.list = <<>>
      BY DEF Resting
    <3>. HIDE DEF r
    <3>2. QED
      BY <1>3, <2>1, <3>1
  <2>2. QED
    BY <1>1, <1>4, <2>1 DEF ReconcileBinding
<1>5. CASE ReconcileResource
  <2>1. ASSUME NEW pc, worker' = [worker EXCEPT !["resource"] = [Resting EXCEPT !.pc = pc, !.known = TRUE]]
        PROVE  Once(v)
    <3>. DEFINE r == [Resting EXCEPT !.pc = pc, !.known = TRUE]
    <3>1. r.list = <<>> /\ worker' = [worker EXCEPT !["resource"] = r]
      BY <2>1 DEF Resting
    <3>. HIDE DEF r
    <3>2. QED
      BY <1>3, <3>1
  <2>2. CASE worker' = [worker EXCEPT !["resource"] =
                          [Resting EXCEPT !.pc = "list", !.todo = binding.clusters]]
    <3>. DEFINE r == [Resting EXCEPT !.pc = "list", !.todo = binding.clusters]
    <3>1. r.list = <<>> /\ worker' = [worker EXCEPT !["resource"] = r]
      BY <2>2 DEF Resting
    <3>. HIDE DEF r
    <3>2. QED
      BY <1>3, <3>1
  <2>3. QED
    BY <1>1, <1>5, <2>1, <2>2 DEF ReconcileResource
<1>6. CASE Unbind
  <2>1. CASE worker' = [worker EXCEPT !["resource"].pc = "release", !["binding"].known = @ /\ binding.deleting]
    <3>1. worker'[v].list = worker[v].list
      BY <2>1 DEF Worker
    <3>2. QED
      BY <3>1, SameList
  <2>2. QED
    BY <1>2, <1>6, <2>1 DEF Unbind
<1>7. QED
  BY <1>1, <1>2, <1>4, <1>5, <1>6
     DEF UpdateBindingStatus, EndResource, ReleaseResource, ApiError

LEMMA ListedOnce ==
  ASSUME worker \in [Controllers -> Worker], NEW v \in Controllers, NEW w \in Controllers, ListCopies(w)
  PROVE  Once(v)
<1>1. PICK order \in SetToSeqs(Existing) :
         worker' = [worker EXCEPT ![w].pc = "next",
                  ![w].list = [i \in DOMAIN order |-> [cluster |-> order[i],
                                                       phase |-> IF w = "binding" THEN copies[order[i]].phase
                                                                 ELSE None]],
                  ![w].keys = Existing,
                  ![w].item = IF order = <<>> \/ worker[w].todo = {} THEN None
                              ELSE copies[Last(order)].contents,
                  ![w].fresh = order # <<>> /\ worker[w].todo # {}]
  BY DEF ListCopies
<1>2. \A i, j \in DOMAIN order : order[i] = order[j] => i = j
  BY DEF SetToSeqs
<1>3. CASE v = w
  <2>1. worker'[v].list = [i \in DOMAIN order |-> [cluster |-> order[i],
                                                   phase |-> IF w = "binding" THEN copies[order[i]].phase
                                                             ELSE None]]
    BY <1>1, <1>3 DEF Worker
  <2>2. QED
    BY <1>2, <2>1 DEF Once, Named, NamesOnce
<1>4. CASE v # w
  <2>1. worker'[v] = worker[v]
    BY <1>1, <1>4
  <2>2. QED
    BY <2>1 DEF Once
<1>5. QED
  BY <1>3, <1>4

LEMMA AppliedList ==
  ASSUME worker \in [Controllers -> Worker], NEW w \in Controllers, NEW item
  PROVE  Applied(w, item).list = worker[w].list
BY DEF Applied, Worker

LEMMA SyncOnce ==
  ASSUME worker \in [Controllers -> Worker], NEW v \in Controllers, NEW w \in Controllers, Sync(w)
  PROVE  Once(v)
<1>1. ASSUME NEW item, NEW ws \in [Controllers -> Worker], \A u \in Controllers : ws[u].list = worker[u].list,
             worker' = [ws EXCEPT ![w] = Applied(w, item)]
      PROVE  Once(v)
  <2>1. worker'[v] = IF v = w THEN Applied(w, item) ELSE ws[v]
    BY <1>1
  <2>2. worker'[v].list = worker[v].list
    BY <1>1, <2>1, AppliedList
  <2>3. QED
    BY <2>2, SameList
<1>2. ASSUME NEW c PROVE Outdated(c) \in [Controllers -> Worker]
                         /\ \A u \in Controllers : Outdated(c)[u].list = worker[u].list
  BY OutdatedList, OutdatedType
<1>3. CASE ListCopies(w)
  BY <1>3, ListedOnce
<1>4. CASE ReadResource(w)
  <2>1. worker'[v].list = worker[v].list
    BY <1>4 DEF ReadResource, Worker
  <2>2. QED
    BY <2>1, SameList
<1>5. CASE CreateCopy(w)
  <2>1. CASE Return(w)
    BY <2>1, Returns
  <2>2. CASE worker' = [Outdated(worker[w].at) EXCEPT ![w] = Applied(w, worker[w].item)]
    BY <1>1, <1>2, <2>2
  <2>3. QED
    BY <1>5, <2>1, <2>2 DEF CreateCopy
<1>6. CASE UpdateCopy(w)
  <2>1. CASE Return(w)
    BY <2>1, Returns
  <2>2. CASE worker' = [worker EXCEPT ![w] = Applied(w, worker[w].item)]
    BY <1>1, <2>2
  <2>3. ASSUME NEW item, worker' = [Outdated(Target(w)) EXCEPT ![w] = Applied(w, item)]
        PROVE  Once(v)
    BY <1>1, <1>2, <2>3
  <2>4. QED
    BY <1>6, <2>1, <2>2, <2>3 DEF UpdateCopy
<1>7. CASE DeleteCopy(w)
  <2>1. CASE Return(w)
    BY <2>1, Returns
  <2>2. ASSUME NEW key, NEW ws \in [Controllers -> Worker],
               \A u \in Controllers : ws[u].list = worker[u].list,
               worker' = [ws EXCEPT ![w].keys = @ \ {key}]
        PROVE  Once(v)
    <3>1. worker'[v].list = ws[v].list
      BY <2>2 DEF Worker
    <3>2. QED
      BY <2>2, <3>1, SameList
  <2>3. QED
    <3>1. CASE copies[Target(w)].exists
      <4>1. PICK key : worker' = [IF copies[Target(w)].deleting THEN worker ELSE Outdated(Target(w))
                                    EXCEPT ![w].keys = @ \ {key}]
        BY <1>7, <3>1 DEF DeleteCopy
      <4>2. QED
        BY <1>2, <2>2, <4>1
    <3>2. CASE ~copies[Target(w)].exists
      BY <1>7, <2>1, <3>2 DEF DeleteCopy
    <3>3. QED
      BY <3>1, <3>2
<1>8. QED
  BY <1>3, <1>4, <1>5, <1>6, <1>7 DEF Sync

LEMMA StaysOnce ==
  ASSUME worker \in [Controllers -> Worker], [Next]_vars, NEW v \in Controllers
  PROVE  Once(v)
<1>1. CASE UNCHANGED vars
  BY <1>1, SameList DEF vars
<1>2. CASE \E w \in Controllers : Step(w)
  BY <1>2, SyncOnce, ReconcilingOnce DEF Step
<1>3. QED
  BY <1>1, <1>2, UsersOnce, ReconcilingOnce DEF Next

\* The API server stores a status as it has been computed, or not at all.
LEMMA StaysStored ==
  ASSUME Typed, Stored(binding), [Next]_vars
  PROVE  Stored(binding')
<1>1. PICK s : binding \in [exists: BOOLEAN, clusters: SUBSET Clusters, finalizer: BOOLEAN,
                            deleting: BOOLEAN, labelled: BOOLEAN, status: {s}]
  BY DEF Typed
<1>2. CASE binding'.status = binding.status
  BY <1>2 DEF Stored
<1>3. CASE UpdateBindingStatus
  <2> DEFINE list == worker["binding"].list
             status == FoldLeft(Report, binding.status, list)
  <2>1. list \in Seq(Item)
    BY DEF Typed, Worker
  <2>2. \A i \in DOMAIN list : list[i] \in Item
    BY <2>1
  <2>3. status \in Seq(Entry)
    <3>1. Len(list) \in Nat /\ DOMAIN list = 1..Len(list)
      BY <2>1
    <3>2. \A e \in Seq(Entry) : \A i \in DOMAIN list : Report(e, list[i]) \in Seq(Entry)
      BY <2>2, ReportType
    <3>3. binding.status \in Seq(Entry)
      BY DEF Stored
    <3> HIDE DEF list
    <3> QED BY <3>1, <3>2, <3>3, FoldKeeps
  <2> HIDE DEF status
  <2>4. binding' = binding \/ (binding' = [binding EXCEPT !.status = status] /\ Len(status) <= MaxEntries)
    BY <1>3 DEF UpdateBindingStatus, status
  <2>5. QED
    BY <1>1, <2>3, <2>4 DEF Stored
<1>4. CASE Rebind \/ DeleteBinding \/ ReconcileBinding \/ Unbind
  <2>1. binding'.status = binding.status
    BY <1>1, <1>4 DEF Rebind, DeleteBinding, ReconcileBinding, Unbind
  <2>2. QED
    BY <1>2, <2>1
<1>5. CASE binding' = binding
  BY <1>2, <1>5
<1>6. CASE ChangeResource \/ DeleteResource \/ ReportStatus \/ CoreRestart
  BY <1>5, <1>6 DEF ChangeResource, DeleteResource, ReportStatus, CoreRestart
<1>7. CASE \E c \in Clusters : Release(c) \/ Collect(c)
  BY <1>5, <1>7 DEF Release, Collect
<1>8. ASSUME NEW w \in Controllers, Step(w) \/ ApiError(w)
      PROVE  Stored(binding')
  <2>1. CASE Sync(w)
    BY <1>5, <2>1 DEF Sync, ListCopies, ReadResource, CreateCopy, UpdateCopy, DeleteCopy
  <2>2. CASE ReconcileResource \/ EndResource \/ ReleaseResource \/ ApiError(w)
    BY <1>5, <2>2 DEF ReconcileResource, EndResource, ReleaseResource, ApiError
  <2>3. QED
    BY <1>3, <1>4, <1>8, <2>1, <2>2 DEF Step
<1>9. QED
  BY <1>4, <1>5, <1>6, <1>7, <1>8 DEF Next, vars

TypesInv == IInv /\ Stored(binding) /\ \A w \in Controllers : Named(worker[w])

\* Through both maps that lead to their last item, and the change of order of
\* RemoveObjectWithIndex, what is stored as the binding's status remains a
\* list of entries of clusters with the status each reported, no longer than
\* the API server takes; no list that a reconciler holds names a cluster twice
\* (resource-binding/resource_binding_controller.go:177, common.go:158).
THEOREM TypeCorrect == Spec => []TypeOK
<1>1. Init => TypesInv
  <2>1. SUFFICES ASSUME Init PROVE TypesInv
    OBVIOUS
  <2>2. Stored(binding)
    <3>1. binding.status = <<>>
      BY <2>1 DEF Init
    <3>2. <<>> \in Seq(Entry) /\ Len(<<>>) = 0
      OBVIOUS
    <3>3. QED
      BY <3>1, <3>2 DEF Stored
  <2>3. \A w \in Controllers : Named(worker[w])
    BY <2>1, NoneNamed DEF Init
  <2>4. QED
    BY <2>1, <2>2, <2>3, InitInv DEF TypesInv
<1>2. TypesInv /\ [Next]_vars => TypesInv'
  <2>1. SUFFICES ASSUME TypesInv, [Next]_vars PROVE TypesInv'
    OBVIOUS
  <2>2. IInv' /\ Typed /\ worker \in [Controllers -> Worker]
    BY <2>1, StepInv DEF TypesInv, IInv, Typed
  <2>3. Stored(binding)'
    BY <2>1, <2>2, StaysStored DEF TypesInv, Stored
  <2>4. \A w \in Controllers : Named(worker[w])'
    BY <2>1, <2>2, StaysOnce DEF TypesInv, Once, Named, NamesOnce
  <2>5. QED
    BY <2>2, <2>3, <2>4 DEF TypesInv
<1>3. TypesInv => TypeOK
  <2>1. SUFFICES ASSUME TypesInv PROVE TypeOK
    OBVIOUS
  <2>2. Typed /\ Stored(binding) /\ \A w \in Controllers : NamesOnce(worker[w].list)
    BY <2>1 DEF TypesInv, IInv, Named
  <2>3. binding \in Binding
    <3>1. PICK s : binding \in [exists: BOOLEAN, clusters: SUBSET Clusters, finalizer: BOOLEAN,
                                deleting: BOOLEAN, labelled: BOOLEAN, status: {s}]
      BY <2>2 DEF Typed
    <3>2. s \in Seq(Entry)
      BY <2>2, <3>1 DEF Stored
    <3>3. QED
      BY <3>1, <3>2 DEF Binding
  <2>4. QED
    BY <2>2, <2>3 DEF TypeOK, Typed, Stored, NamesOnce
<1>4. QED
  BY <1>1, <1>2, <1>3, PTL DEF Spec

=============================================================================
