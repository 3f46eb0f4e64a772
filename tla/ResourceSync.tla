----------------------------- MODULE ResourceSync -----------------------------
(***************************************************************************)
(* One ClusterResource on its way from the control plane into a member     *)
(* cluster, and its status on the way back: the core's cluster-resource    *)
(* controller, the stream between core and proxy, the proxy's receiving    *)
(* goroutine, the proxy's own cluster-resource controller, the resource it *)
(* applies, and the core's handlers of status requests.                    *)
(*                                                                         *)
(* Resources do not touch each other, so one is enough; the contents it is *)
(* given are numbered in the order they were written (`version'), and      *)
(* Content tells what each of them has in it.  The stream is the current   *)
(* one only: how the table comes to hold it is ClusterSession's matter,    *)
(* and so is the dead stream it may still hold: sending on that fails as   *)
(* sending on none does.  Events, errors and controller-runtime's periodic  *)
(* resync put a key into a work queue, the last at any time, so that a     *)
(* reconciler may begin whenever the object exists, and for an object that *)
(* does not it does nothing.  A read from a lagging cache is an earlier    *)
(* read.                                                                   *)
(* As in ClusterSession, `fresh' says that a copy could still be written.  *)
(***************************************************************************)
EXTENDS Naturals, Sequences

CONSTANTS
  None,        \* no status, no resource, no field
  Keys,        \* the top-level fields of a resource, without apiVersion, kind, metadata, status
  Values,      \* what a field may hold
  Content,     \* Content[v]: the resource that version v asks for
  Found,       \* resources that may be in the member cluster from the start
  Handlers,    \* bound: status requests on their way or handled at once
  MaxWrites,   \* bound: creations, changes and deletions by others in the control plane
  MaxQueue,    \* bound: messages in flight to the proxy
  FaultKinds,  \* which faults may happen
  MaxFaults    \* bound: how many faults happen in a behaviour

AllFaults == {"break", "core", "proxy", "api"}

Versions == 1..MaxWrites

\* A resource: its fields, the annotation that repeats its spec, and whether
\* it has annotations at all.
Fields   == [Keys -> Values \cup {None}]
Template == [fields: Fields, annotated: BOOLEAN]
Member   == [fields: Fields, annotation: Values \cup {None}, annotated: BOOLEAN]

ASSUME SyncAssumption ==
  /\ None \notin Nat
  /\ None \notin [phase: {"Creating", "Complete"}, gen: Nat]
  /\ MaxWrites \in Nat
  /\ MaxQueue \in Nat \ {0}
  /\ FaultKinds \subseteq AllFaults
  /\ MaxFaults \in Nat

ASSUME ContentAssumption ==
  /\ "spec" \in Keys
  /\ None \notin Values
  /\ None \notin Member
  /\ Content \in [Versions -> Template]
  /\ Found \subseteq {m \in Member : m.annotation = None}

VARIABLES
  core,       \* the ClusterResource in the control plane
  writes,     \* how many times others have written it
  syncer,     \* the reconciler of the core's controller
  handler,    \* handler[h]: a status request, on its way or in its goroutine
  register,   \* the goroutine that handles the Register request
  open,       \* the stream is connected
  listed,     \* the stream table holds it
  down,       \* messages in flight to the proxy
  running,    \* the proxy has connected and registered, and lives
  beating,    \* it sends heartbeats
  recv,       \* RecvResponse, between its Get and its Update
  copy,       \* the ClusterResource in the member cluster
  rec,        \* the reconciler of the proxy's controller
  member,     \* the resource in the member cluster
  faults      \* faults still to come

control == <<core, writes, syncer>>
net     == <<open, listed, down>>
agent   == <<running, beating, recv, copy, rec, member>>
vars    == <<control, handler, register, net, agent, faults>>

-----------------------------------------------------------------------------
Status      == [phase: {"Creating", "Complete"}, gen: Nat]
Message     == [type: {"update", "delete", "register"}, version: Versions \cup {None}]

Core == [exists: BOOLEAN, version: Versions \cup {None}, finalizer: BOOLEAN,
         deleting: BOOLEAN, status: Status \cup {None}]
Copy == [exists: BOOLEAN, version: Versions \cup {None}, gen: Nat,
         finalizer: BOOLEAN, deleting: BOOLEAN, status: Status \cup {None}]

Syncer   == [pc: {"idle", "update", "delete", "remove"}, version: Versions \cup {None},
             fresh: BOOLEAN]
Handler  == [pc: {"idle", "get", "write"}, status: Status \cup {None}, fresh: BOOLEAN]
Registration == [pc: {"off", "insert", "list", "reply"}, version: Versions \cup {None}]
Receiver == [on: BOOLEAN, version: Versions \cup {None}, fresh: BOOLEAN]
Rec      == [pc: {"idle", "sync", "report", "store", "remove"}, version: Versions \cup {None},
             status: Status \cup {None}, gen: Nat, fresh: BOOLEAN]

\* The types of the variables; an object exists exactly when it has contents,
\* and who has something to write has contents, or a status, to write.
TypeOK ==
  /\ core \in Core /\ (core.exists <=> core.version # None)
  /\ writes \in 0..MaxWrites
  /\ syncer \in Syncer /\ (syncer.pc = "update" => syncer.version # None)
  /\ handler \in [Handlers -> Handler]
  /\ register \in Registration
  /\ open \in BOOLEAN
  /\ listed \in BOOLEAN
  /\ down \in Seq(Message) /\ Len(down) <= MaxQueue
  /\ \A i \in DOMAIN down : down[i].type = "update" => down[i].version # None
  /\ running \in BOOLEAN
  /\ beating \in BOOLEAN
  /\ recv \in Receiver /\ (recv.on => recv.version # None)
  /\ copy \in Copy /\ (copy.exists <=> copy.version # None)
  /\ rec \in Rec
  /\ (rec.pc = "sync" => rec.version # None)
  /\ (rec.pc \in {"report", "store"} => rec.status # None)
  /\ member \in Member \cup {None}
  /\ faults \in 0..MaxFaults

-----------------------------------------------------------------------------
NoCore == [exists |-> FALSE, version |-> None, finalizer |-> FALSE, deleting |-> FALSE,
           status |-> None]
NoCopy == [exists |-> FALSE, version |-> None, gen |-> 0, finalizer |-> FALSE,
           deleting |-> FALSE, status |-> None]

Idle    == [pc |-> "idle", status |-> None, fresh |-> FALSE]
Unused  == [pc |-> "idle", version |-> None, fresh |-> FALSE]
Waiting == [on |-> FALSE, version |-> None, fresh |-> FALSE]
Off     == [pc |-> "off", version |-> None]
Resting == [pc |-> "idle", version |-> None, status |-> None, gen |-> 0, fresh |-> FALSE]

Init ==
  /\ core = NoCore
  /\ writes = 0
  /\ syncer = Unused
  /\ handler = [h \in Handlers |-> Idle]
  /\ register = Off
  /\ open = FALSE
  /\ listed = FALSE
  /\ down = <<>>
  /\ running = FALSE
  /\ beating = FALSE
  /\ recv = Waiting
  /\ copy = NoCopy
  /\ rec = Resting
  /\ member \in Found \cup {None}
  /\ faults = MaxFaults

-----------------------------------------------------------------------------
(* Helpers *)

Fault(kind) ==
  /\ kind \in FaultKinds
  /\ faults > 0
  /\ faults' = faults - 1

\* Successful writes: copies read earlier are stale.
CoreWritten(object) ==
  /\ core' = object
  /\ syncer' = [syncer EXCEPT !.fresh = FALSE]

StaleHandlers == [h \in Handlers |-> [handler[h] EXCEPT !.fresh = FALSE]]

\* stream.Send on the core's side, through the stream table.
Send(type, version) ==
  /\ listed
  /\ Len(down) < MaxQueue
  /\ down' = Append(down, [type |-> type, version |-> version])

\* A version newer than all others.
Newest == writes + 1

-----------------------------------------------------------------------------
(* Others write the ClusterResource of the control plane: the binding      *)
(* controller creates, changes and deletes it.                             *)

CreateResource ==
  /\ writes < MaxWrites
  /\ ~core.exists
  /\ CoreWritten([NoCore EXCEPT !.exists = TRUE, !.version = Newest])
  /\ writes' = Newest
  /\ handler' = StaleHandlers
  /\ UNCHANGED <<register, net, agent, faults>>

ChangeResource ==
  /\ writes < MaxWrites
  /\ core.exists
  /\ CoreWritten([core EXCEPT !.version = Newest])
  /\ writes' = Newest
  /\ handler' = StaleHandlers
  /\ UNCHANGED <<register, net, agent, faults>>

\* With a finalizer the object stays, marked; without, it is gone.
DeleteResource ==
  /\ writes < MaxWrites
  /\ core.exists
  /\ ~core.deleting
  /\ CoreWritten(IF core.finalizer THEN [core EXCEPT !.deleting = TRUE] ELSE NoCore)
  /\ writes' = Newest
  /\ handler' = StaleHandlers
  /\ UNCHANGED <<register, net, agent, faults>>

-----------------------------------------------------------------------------
(* Core: Reconcile of the cluster-resource controller *)

\* Get, then the finalizer, whose write is an event, or a message to the
\* proxy.  A missing object is left alone.
CoreReconcile ==
  /\ syncer.pc = "idle"
  /\ core.exists
  /\ \/ /\ ~core.finalizer
        /\ CoreWritten([core EXCEPT !.finalizer = TRUE])
        /\ handler' = StaleHandlers
     \/ /\ core.finalizer
        /\ syncer' = IF core.deleting THEN [Unused EXCEPT !.pc = "delete", !.fresh = TRUE]
                     ELSE [Unused EXCEPT !.pc = "update", !.version = core.version]
        /\ UNCHANGED <<core, handler>>
  /\ UNCHANGED <<writes, register, net, agent, faults>>

\* Faulty variant: the reconciler ends with the message, also with a delete.
SendAndForget ==
  /\ syncer.pc \in {"update", "delete"}
  /\ Send(syncer.pc, syncer.version)
  /\ syncer' = Unused
  /\ UNCHANGED <<core, writes, handler, register, open, listed, agent, faults>>

\* sendClusterResourceToProxy; without a stream it is an error.
SendToProxy ==
  /\ syncer.pc \in {"update", "delete"}
  /\ \/ /\ Send(syncer.pc, syncer.version)
        /\ syncer' = IF syncer.pc = "delete" THEN [syncer EXCEPT !.pc = "remove"] ELSE Unused
     \/ /\ ~listed
        /\ syncer' = Unused
        /\ UNCHANGED down
  /\ UNCHANGED <<core, writes, handler, register, open, listed, agent, faults>>

\* RemoveFinalizer, after which the object is gone; a conflict is an error.
CoreRemoveFinalizer ==
  /\ syncer.pc = "remove"
  /\ syncer' = Unused
  /\ \/ syncer.fresh /\ core' = NoCore /\ handler' = StaleHandlers
     \/ ~syncer.fresh /\ UNCHANGED <<core, handler>>
  /\ UNCHANGED <<writes, register, net, agent, faults>>

-----------------------------------------------------------------------------
(* Core: the handlers of requests *)

\* syncClusterResourceStatus: Get; nothing to do when the status is the same.
\* Each request has its own goroutine, so they overtake each other.
GetResource(h) ==
  /\ handler[h].pc = "get"
  /\ handler' = IF core.exists /\ core.status # handler[h].status
                  THEN [handler EXCEPT ![h].pc = "write", ![h].fresh = TRUE]
                  ELSE [handler EXCEPT ![h] = Idle]
  /\ UNCHANGED <<control, register, net, agent, faults>>

\* UpdateStatus.  A conflict is reported to the proxy, which only logs it.
UpdateStatus(h) ==
  /\ handler[h].pc = "write"
  /\ \/ /\ handler[h].fresh
        /\ CoreWritten([core EXCEPT !.status = handler[h].status])
        /\ handler' = [StaleHandlers EXCEPT ![h] = Idle]
     \/ /\ ~handler[h].fresh
        /\ handler' = [handler EXCEPT ![h] = Idle]
        /\ UNCHANGED <<core, syncer>>
  /\ UNCHANGED <<writes, register, net, agent, faults>>

\* Register: insert the stream, list the resources, and only then answer.
Register ==
  /\ open
  /\ \/ /\ register.pc = "insert"
        /\ listed' = TRUE
        /\ register' = [register EXCEPT !.pc = "list"]
        /\ UNCHANGED down
     \/ /\ register.pc = "list"
        /\ register' = [pc |-> "reply", version |-> core.version]
        /\ UNCHANGED <<listed, down>>
     \/ /\ register.pc = "reply"
        /\ Send("register", register.version)
        /\ register' = Off
        /\ UNCHANGED listed
  /\ UNCHANGED <<control, handler, open, agent, faults>>

\* A heartbeat's handler inserts the stream too.
Heartbeat ==
  /\ open
  /\ beating
  /\ ~listed
  /\ listed' = TRUE
  /\ UNCHANGED <<control, handler, register, open, down, agent, faults>>

-----------------------------------------------------------------------------
(* Proxy: RecvResponse handles one message at a time *)

\* Faulty variants: the empty snapshot is not skipped; what exists is left alone.
RecvVersionUnchecked ==
  /\ down # <<>> /\ ~recv.on
  /\ Head(down).type = "register" /\ ~copy.exists
  /\ down' = Tail(down)
  /\ beating' = TRUE
  /\ copy' = [NoCopy EXCEPT !.exists = TRUE, !.version = Head(down).version, !.gen = 1]
  /\ UNCHANGED <<control, handler, register, open, listed, running, recv, rec, member, faults>>

RecvVersionOnce ==
  /\ down # <<>> /\ ~recv.on
  /\ Head(down).type \in {"update", "register"}
  /\ down' = Tail(down)
  /\ beating' = (beating \/ Head(down).type = "register")
  /\ IF Head(down).version # None /\ ~copy.exists
       THEN copy' = [NoCopy EXCEPT !.exists = TRUE, !.version = Head(down).version, !.gen = 1]
       ELSE UNCHANGED copy
  /\ UNCHANGED <<control, handler, register, open, listed, running, recv, rec, member, faults>>

\* SyncProxyClusterResource: Get, then Create; or Update unless the spec is
\* the same.  A register response also starts the heartbeats.
RecvVersion ==
  /\ down # <<>> /\ ~recv.on
  /\ Head(down).type \in {"update", "register"}
  /\ down' = Tail(down)
  /\ beating' = (beating \/ Head(down).type = "register")
  /\ LET version == Head(down).version
     IN \/ /\ version # None /\ ~copy.exists
           /\ copy' = [NoCopy EXCEPT !.exists = TRUE, !.version = version, !.gen = 1]
           /\ UNCHANGED recv
        \/ /\ version # None /\ copy.exists /\ copy.version # version
           /\ recv' = [on |-> TRUE, version |-> version, fresh |-> TRUE]
           /\ UNCHANGED copy
        \/ /\ version = None \/ (copy.exists /\ copy.version = version)
           /\ UNCHANGED <<recv, copy>>
  /\ UNCHANGED <<control, handler, register, open, listed, running, rec, member, faults>>

\* The Update.  After a conflict the message is dropped.
UpdateCopy ==
  /\ recv.on
  /\ recv' = Waiting
  /\ \/ /\ recv.fresh
        /\ copy' = [copy EXCEPT !.version = recv.version, !.gen = @ + 1]
        /\ rec' = [rec EXCEPT !.fresh = FALSE]
     \/ /\ ~recv.fresh
        /\ UNCHANGED <<copy, rec>>
  /\ UNCHANGED <<control, handler, register, net, running, beating, member, faults>>

\* Faulty variant: a delete overtakes the messages before it.
RecvDeleteFirst == \E i \in DOMAIN down :
  /\ ~recv.on
  /\ down[i].type = "delete"
  /\ down' = SubSeq(down, 1, i - 1) \o SubSeq(down, i + 1, Len(down))
  /\ \/ /\ copy.exists /\ ~copy.deleting
        /\ copy' = IF copy.finalizer THEN [copy EXCEPT !.deleting = TRUE, !.gen = @ + 1] ELSE NoCopy
        /\ rec' = [rec EXCEPT !.fresh = FALSE]
     \/ /\ ~copy.exists \/ copy.deleting
        /\ UNCHANGED <<copy, rec>>
  /\ UNCHANGED <<control, handler, register, open, listed, running, beating, recv, member, faults>>

\* DeleteProxyClusterResource.
RecvDelete ==
  /\ down # <<>> /\ ~recv.on
  /\ Head(down).type = "delete"
  /\ down' = Tail(down)
  /\ \/ /\ copy.exists /\ ~copy.deleting
        /\ copy' = IF copy.finalizer THEN [copy EXCEPT !.deleting = TRUE, !.gen = @ + 1] ELSE NoCopy
        /\ rec' = [rec EXCEPT !.fresh = FALSE]
     \/ /\ ~copy.exists \/ copy.deleting
        /\ UNCHANGED <<copy, rec>>
  /\ UNCHANGED <<control, handler, register, open, listed, running, beating, recv, member, faults>>

-----------------------------------------------------------------------------
(* Proxy: Reconcile of the cluster-resource controller *)

\* Faulty variant: the resource is applied before the finalizer is there.
ReconcileEager ==
  /\ running
  /\ rec.pc = "idle"
  /\ copy.exists /\ ~copy.deleting
  /\ rec' = [pc |-> "sync", version |-> copy.version, status |-> copy.status,
             gen |-> copy.gen, fresh |-> TRUE]
  /\ UNCHANGED <<control, handler, register, net, running, beating, recv, copy, member, faults>>

\* Get, then one of: add the finalizer, delete the resource, synchronise it.
ProxyReconcile ==
  /\ running
  /\ rec.pc = "idle"
  /\ copy.exists
  /\ \/ /\ ~copy.finalizer /\ ~copy.deleting
        /\ copy' = [copy EXCEPT !.finalizer = TRUE]
        /\ recv' = [recv EXCEPT !.fresh = FALSE]
        /\ UNCHANGED <<rec, member>>
     \/ /\ copy.deleting
        /\ member' = None
        /\ rec' = [Resting EXCEPT !.pc = "remove", !.fresh = TRUE]
        /\ UNCHANGED <<copy, recv>>
     \/ /\ copy.finalizer /\ ~copy.deleting
        /\ rec' = [pc |-> "sync", version |-> copy.version, status |-> copy.status,
                   gen |-> copy.gen, fresh |-> TRUE]
        /\ UNCHANGED <<copy, recv, member>>
  /\ UNCHANGED <<control, handler, register, net, running, beating, faults>>

ProxyRemoveFinalizer ==
  /\ rec.pc = "remove"
  /\ rec' = Resting
  /\ \/ rec.fresh /\ copy' = NoCopy /\ recv' = [recv EXCEPT !.fresh = FALSE]
     \/ ~rec.fresh /\ UNCHANGED <<copy, recv>>
  /\ UNCHANGED <<control, handler, register, net, running, beating, member, faults>>

\* createResource: the template's annotations, if it has a spec, are replaced
\* by the one that repeats it.
createResource(c) ==
  [fields |-> c.fields, annotation |-> c.fields["spec"],
   annotated |-> c.annotated \/ c.fields["spec"] # None]

\* Only specs are compared, and with the annotation rather than the resource.
resourceEqual(m, c) ==
  IF m.annotation # None THEN c.fields["spec"] = m.annotation
  ELSE c.fields["spec"] # None /\ c.fields["spec"] = m.fields["spec"]

\* The fields of the template are added to those there; none is removed.
changeNoSpecResource(fields, c) ==
  [k \in Keys |-> IF c.fields[k] # None THEN c.fields[k] ELSE fields[k]]

\* With a spec on both sides nothing else is copied.  Metadata never is.
getUpdateResource(m, c) ==
  IF m.fields["spec"] # None /\ c.fields["spec"] # None
    THEN [m EXCEPT !.fields["spec"] = c.fields["spec"], !.annotation = c.fields["spec"]]
    ELSE [m EXCEPT !.fields = changeNoSpecResource([@ EXCEPT !["spec"] = None], c)]

\* The annotation is put into a map that is nil if there were none.
Panics(m, c) ==
  /\ m # None
  /\ ~resourceEqual(m, c)
  /\ m.fields["spec"] # None /\ c.fields["spec"] # None
  /\ ~m.annotated

Applied(m, c) ==
  IF m = None THEN createResource(c)
  ELSE IF resourceEqual(m, c) THEN m
  ELSE getUpdateResource(m, c)

\* syncResource; a failure is reported as phase Creating with a message.
\* Nothing more is done when the status already says Complete.
SyncResource ==
  /\ rec.pc = "sync"
  /\ LET Result(phase) == [phase |-> phase, gen |-> rec.gen]
         Report(phase) == [Resting EXCEPT !.pc = "report", !.status = Result(phase), !.fresh = rec.fresh]
         content       == Content[rec.version]
     IN \/ /\ ~Panics(member, content)
           /\ member' = Applied(member, content)
           /\ rec' = IF rec.status = Result("Complete") THEN Resting ELSE Report("Complete")
           /\ UNCHANGED faults
        \/ /\ Fault("api")
           /\ rec' = Report("Creating")
           /\ UNCHANGED member
  /\ UNCHANGED <<control, handler, register, net, running, beating, recv, copy>>

\* sendStatusToControlPlane; without a stream it is an error.
SendStatus ==
  /\ rec.pc = "report"
  /\ \/ /\ open
        /\ \E h \in Handlers :
             /\ handler[h].pc = "idle"
             /\ handler' = [handler EXCEPT ![h].pc = "get", ![h].status = rec.status]
        /\ rec' = [rec EXCEPT !.pc = "store"]
     \/ /\ ~open
        /\ rec' = Resting
        /\ UNCHANGED handler
  /\ UNCHANGED <<control, register, net, running, beating, recv, copy, member, faults>>

\* Faulty variant: the object is read again before the write, so that it
\* never conflicts, and its generation with it.
StoreStatusAnew ==
  /\ rec.pc = "store"
  /\ rec' = Resting
  /\ copy' = IF copy.exists THEN [copy EXCEPT !.status = [rec.status EXCEPT !.gen = copy.gen]] ELSE copy
  /\ recv' = [recv EXCEPT !.fresh = FALSE]
  /\ UNCHANGED <<control, handler, register, net, running, beating, member, faults>>

\* Status().Update of what has been sent; a conflict is an error.
StoreStatus ==
  /\ rec.pc = "store"
  /\ rec' = Resting
  /\ \/ /\ rec.fresh
        /\ copy' = [copy EXCEPT !.status = rec.status]
        /\ recv' = [recv EXCEPT !.fresh = FALSE]
     \/ /\ ~rec.fresh
        /\ UNCHANGED <<copy, recv>>
  /\ UNCHANGED <<control, handler, register, net, running, beating, member, faults>>

-----------------------------------------------------------------------------
(* The connection, and crashes *)

Disconnected ==
  /\ open' = FALSE
  /\ listed' = FALSE
  /\ down' = <<>>
  /\ register' = Off

\* Requests on their way are lost, those with a goroutine are handled.
Lost == \E some \in SUBSET Handlers :
  /\ \A h \in some : handler[h].pc = "get"
  /\ handler' = [h \in Handlers |-> IF h \in some THEN Idle ELSE handler[h]]

\* A process of the proxy ends; its cache lists every object when it comes back.
ProxyEnds ==
  /\ Disconnected /\ Lost
  /\ running' = FALSE
  /\ beating' = FALSE
  /\ recv' = Waiting
  /\ rec' = Resting
  /\ UNCHANGED <<control, copy, member>>

\* The proxy's main connects and registers.
ProxyStart ==
  /\ ~running
  /\ running' = TRUE
  /\ open' = TRUE
  /\ register' = [Off EXCEPT !.pc = "insert"]
  /\ UNCHANGED <<control, handler, listed, down, beating, recv, copy, rec, member, faults>>

\* Whoever needs the stream connects again, and does not register.
Reconnect ==
  /\ running /\ ~open
  /\ open' = TRUE
  /\ UNCHANGED <<control, handler, register, listed, down, agent, faults>>

BreakStream ==
  /\ Fault("break")
  /\ open
  /\ Disconnected /\ Lost
  /\ UNCHANGED <<control, agent>>

CoreRestart ==
  /\ Fault("core")
  /\ Disconnected
  /\ syncer' = Unused
  /\ handler' = [h \in Handlers |-> Idle]
  /\ UNCHANGED <<core, writes, agent>>

ProxyRestart ==
  /\ Fault("proxy")
  /\ running
  /\ ProxyEnds

\* getUpdateResource in a goroutine of controller-runtime, which does not recover.
SyncPanic ==
  /\ rec.pc = "sync"
  /\ Panics(member, Content[rec.version])
  /\ ProxyEnds
  /\ UNCHANGED faults

-----------------------------------------------------------------------------
Handle(h) == GetResource(h) \/ UpdateStatus(h)

Receive == RecvVersion \/ UpdateCopy \/ RecvDelete

ReconcileCopy ==
  \/ ProxyReconcile
  \/ ProxyRemoveFinalizer
  \/ SyncResource \/ SyncPanic
  \/ SendStatus
  \/ StoreStatus

Next ==
  \/ CreateResource \/ ChangeResource \/ DeleteResource
  \/ CoreReconcile \/ SendToProxy \/ CoreRemoveFinalizer
  \/ \E h \in Handlers : Handle(h)
  \/ Register \/ Heartbeat
  \/ Receive
  \/ ReconcileCopy
  \/ ProxyStart \/ Reconnect
  \/ BreakStream \/ CoreRestart \/ ProxyRestart

Spec == Init /\ [][Next]_vars

\* Goroutines that can go on do, the connection comes back, and objects are
\* queued again and again; nothing is assumed of those who write or fail.
Fairness ==
  /\ WF_vars(CoreReconcile) /\ WF_vars(SendToProxy) /\ WF_vars(CoreRemoveFinalizer)
  /\ \A h \in Handlers : WF_vars(Handle(h))
  /\ WF_vars(Register) /\ WF_vars(Heartbeat)
  /\ WF_vars(Receive)
  /\ WF_vars(ReconcileCopy)
  /\ WF_vars(ProxyStart) /\ WF_vars(Reconnect)

FairSpec == Spec /\ Fairness

-----------------------------------------------------------------------------
(* Safety *)

\* The versions agree on whether the resource has a spec.  When a spec goes
\* and comes back, the annotation it has left behind makes resourceEqual find
\* it unchanged, and it is not applied.
SpecLasts == \A v, w \in Versions :
  Content[v].fields["spec"] # None => Content[w].fields["spec"] # None

\* What applying a version is about: its spec, or without one the fields it
\* has.  (Its metadata, and the fields it has not or beside a spec, are
\* written by createResource only.)
Shows(m, c) ==
  /\ m # None
  /\ m.fields["spec"] = c.fields["spec"]
  /\ c.fields["spec"] = None => \A k \in Keys : c.fields[k] \in {None, m.fields[k]}

\* What the proxy has applied is always accounted for: while a resource it
\* has made or changed is in the member cluster, so is the ClusterResource,
\* and the finalizer keeps it there until the resource is gone (syncResource
\* against deletions that the receiving goroutine makes at any moment).
MemberOwned == member \notin Found \cup {None} => copy.exists /\ copy.finalizer

\* The status the proxy stores can be trusted as far as Shows goes: Complete
\* for the present generation means that the present version is what the
\* member cluster shows, although the receiving goroutine may change it while
\* an earlier one is applied (the conflict of Status().Update), whatever was
\* there before and whatever the annotation says.
CompleteIsTrue ==
  SpecLasts /\ copy.exists /\ copy.status = [phase |-> "Complete", gen |-> copy.gen] =>
    Shows(member, Content[copy.version])

\* Removing is final: a ClusterResource that is gone from the control plane
\* is not created again in the member cluster, unless the delete that undoes
\* it is already behind, or a register response carries an old list.
NoResurrection ==
  [][~copy.exists /\ copy'.exists /\ ~core.exists
       => \/ Head(down).type = "register"
          \/ \E i \in DOMAIN down : down[i].type = "delete"]_vars

(* Liveness *)

Wanted == core.exists /\ ~core.deleting

\* When writes and faults end with the resource wanted and the stream listed,
\* the member cluster gets to the last version, as far as Shows goes,
\* whatever has been lost, dropped after a conflict or overtaken:
\* controller-runtime queues the object again (the code alone does not).
EventuallySynced ==
  SpecLasts /\ <>[](Wanted /\ listed) => <>[](core.exists /\ Shows(member, Content[core.version]))

\* A deleted ClusterResource does not wait for its finalizer for ever.
EventuallyReleased == <>[]listed => (core.deleting ~> ~core.deleting)

\* cluster_resource_controller.go:125 `send proxy the clusterResource delete
\* event': what the control plane has removed leaves the member cluster.
EventuallyRemoved == <>[](~core.exists /\ listed) => <>[](member \in Found \cup {None})
===============================================================================
