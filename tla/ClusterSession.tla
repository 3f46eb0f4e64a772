---------------------------- MODULE ClusterSession ----------------------------
(***************************************************************************)
(* The session between the proxy of one member cluster and the core: the   *)
(* gRPC streams, the proxy's receive and heartbeat goroutines, the core's  *)
(* Establish loop with one goroutine per request, the stream table, the    *)
(* Cluster object in the API server, and the monitor.                      *)
(*                                                                         *)
(* One cluster is enough: every piece of state below is kept per cluster   *)
(* name, and the monitor, the only part that walks over the clusters, does *)
(* no more than delay between its List and its use of one listed item,     *)
(* which the interleaving already allows.                                  *)
(*                                                                         *)
(* Time is kept as ages (how long ago), saturated at OnlineExpiration, and *)
(* an optimistic-lock version as a flag `fresh' held beside a copy of the  *)
(* object: the object has not been written since the copy was taken.  Both *)
(* keep the state finite and lose nothing the code can observe.            *)
(***************************************************************************)
EXTENDS Naturals

CONSTANTS
  Streams,            \* identities of Establish streams; one is reused when forgotten
  None,               \* the nil stream
  Workers,            \* bound: request goroutines of the core running at once
  OnlineExpiration,   \* cfg.OnlineExpirationTime, in ticks
  EntryNeverExpires,  \* the sign of HeartbeatExpirePeriod * time.Second, which overflows
  FaultKinds,         \* which faults may happen
  MaxFaults           \* bound: how many faults happen in a behaviour

AllFaults == {"break", "core", "proxy", "api", "dial", "delete", "touch"}

ASSUME SessionAssumption ==
  /\ None \notin Streams
  /\ OnlineExpiration \in Nat \ {0}
  /\ EntryNeverExpires \in BOOLEAN
  /\ FaultKinds \subseteq AllFaults
  /\ MaxFaults \in Nat

VARIABLES
  object,       \* the Cluster object of the API server
  open,         \* the streams that are connected
  requests,     \* requests[s]: kinds of request in flight to the core on s
  answers,      \* answers[s]: kinds of response in flight to the proxy on s
  worker,       \* worker[w]: a goroutine started by Establish
  table,        \* the stream table's entry of the cluster, None if absent
  monitor,      \* the goroutine of checkClusterStatus
  up,           \* the proxy process runs
  initialized,  \* stream.go: initialized
  stream,       \* stream.go: stream, None for nil
  reader,       \* RecvResponse: [pc, on] with the stream it reads
  beating,      \* HeartbeatStart has been called
  faults        \* faults still to come

core  == <<object, worker, table, monitor>>
net   == <<open, requests, answers>>
proxy == <<up, initialized, stream, reader, beating>>
vars  == <<core, net, proxy, faults>>

-----------------------------------------------------------------------------
Ages         == 0..OnlineExpiration
Statuses     == {"none", "initializing", "online", "offline"}
RequestKinds == {"Register", "Heartbeat"}
AnswerKinds  == {"RegisterSuccess", "HeartbeatSuccess", "Failed"}
WorkerSteps  == {"idle", "get", "spec", "create", "status", "failed", "lookup", "insert", "reply"}

Object  == [exists: BOOLEAN, auto: BOOLEAN, spec: {"given", "empty"},
            status: Statuses, age: Ages]
Worker  == [pc: WorkerSteps, kind: RequestKinds, on: Streams \cup {None},
            fresh: BOOLEAN, since: Ages, keep: BOOLEAN]
Monitor == [pc: {"sleep", "check", "offline"}, age: Ages, fresh: BOOLEAN]
Reader  == [pc: {"off", "get", "recv", "clear"}, on: Streams \cup {None}]

TypeOK ==
  /\ object \in Object
  /\ open \subseteq Streams
  /\ requests \in [Streams -> SUBSET RequestKinds]
  /\ answers \in [Streams -> SUBSET AnswerKinds]
  /\ worker \in [Workers -> Worker]
  /\ table \in Streams \cup {None}
  /\ monitor \in Monitor
  /\ up \in BOOLEAN
  /\ initialized \in BOOLEAN
  /\ stream \in Streams \cup {None}
  /\ reader \in Reader
  /\ beating \in BOOLEAN
  /\ faults \in 0..MaxFaults

-----------------------------------------------------------------------------
\* The zero values the variables start from and return to.
NoObject  == [exists |-> FALSE, auto |-> FALSE, spec |-> "empty",
              status |-> "none", age |-> OnlineExpiration]
Idle      == [pc |-> "idle", kind |-> "Heartbeat", on |-> None,
              fresh |-> FALSE, since |-> 0, keep |-> FALSE]
Sleeping  == [pc |-> "sleep", age |-> OnlineExpiration, fresh |-> FALSE]
NotReading(pc) == [pc |-> pc, on |-> None]

\* Either nobody knows the cluster, or an administrator has created it,
\* annotated and with the spec that lets the core deploy a proxy into it.
Annotated == [NoObject EXCEPT !.exists = TRUE, !.auto = TRUE, !.spec = "given"]

Init ==
  /\ object \in {NoObject, Annotated}
  /\ open = {}
  /\ requests = [s \in Streams |-> {}]
  /\ answers = [s \in Streams |-> {}]
  /\ worker = [w \in Workers |-> Idle]
  /\ table = None
  /\ monitor = Sleeping
  /\ up = FALSE
  /\ initialized = FALSE
  /\ stream = None
  /\ reader = NotReading("off")
  /\ beating = FALSE
  /\ faults = MaxFaults

-----------------------------------------------------------------------------
(* Helpers *)

Older(age) == IF age < OnlineExpiration THEN age + 1 ELSE age

\* A fault of this kind happens, within the bound.
Fault(kind) ==
  /\ kind \in FaultKinds
  /\ faults > 0
  /\ faults' = faults - 1

\* The API server accepts a write: every copy read earlier is now stale.
Stale(ws)    == [w \in Workers |-> [ws[w] EXCEPT !.fresh = FALSE]]
StaleMonitor == [monitor EXCEPT !.fresh = FALSE]

At(w, pc)   == worker[w].pc = pc

\* A goroutine that is done with the API server forgets its copy.
Goto(w, pc) ==
  worker' = [worker EXCEPT ![w].pc = pc, ![w].fresh = FALSE, ![w].since = 0]

\* stream.Send on the core's side; on a broken stream it only logs.
Answer(s, kind) ==
  answers' = IF s \in open THEN [answers EXCEPT ![s] = @ \cup {kind}] ELSE answers

Success(kind) == IF kind = "Register" THEN "RegisterSuccess" ELSE "HeartbeatSuccess"

\* Streams that nothing refers to stand for the new ones a dial can return.
Forgotten ==
  {s \in Streams : /\ s \notin {table, stream, reader.on}
                   /\ s \notin open \/ requests[s] = {}
                   /\ \A w \in Workers : s # worker[w].on}

\* stream.go getConnection: a new Establish stream s, carrying first requests.
Dial(s, first) ==
  /\ s \in Forgotten
  /\ open' = open \cup {s}
  /\ requests' = [requests EXCEPT ![s] = first]
  /\ answers' = [answers EXCEPT ![s] = {}]
  /\ stream' = s
  /\ initialized' = TRUE

-----------------------------------------------------------------------------
(* Faulty variants of actions below.  No specification uses them: each is  *)
(* a slip a programmer could make, which a property must tell apart.       *)

\* The stream table's constant in place of the cluster's.
OfflineWrongStatus ==
  /\ monitor.pc = "offline"
  /\ object' = IF monitor.fresh THEN [object EXCEPT !.status = "expire"] ELSE object
  /\ worker' = IF monitor.fresh THEN Stale(worker) ELSE worker
  /\ monitor' = Sleeping
  /\ UNCHANGED <<table, net, proxy, faults>>

\* The monitor's loop ends, instead of going on, after a conflict.
OfflineGivesUp ==
  /\ monitor.pc = "offline"
  /\ monitor.fresh
  /\ object' = [object EXCEPT !.status = "offline"]
  /\ worker' = Stale(worker)
  /\ monitor' = Sleeping
  /\ UNCHANGED <<table, net, proxy, faults>>

\* The heartbeat is stored by a patch as well.
StatusUnversioned(w) ==
  /\ At(w, "status")
  /\ object.exists
  /\ \E age \in 0..worker[w].since :
       object' = [object EXCEPT !.status = "online", !.age = age]
  /\ worker' = [Stale(worker) EXCEPT ![w].pc = "lookup", ![w].since = 0]
  /\ monitor' = StaleMonitor
  /\ UNCHANGED <<table, net, proxy, faults>>

\* A heartbeat updates the time stamp and forgets the status.
StatusForgotten(w) ==
  /\ At(w, "status")
  /\ object' = IF worker[w].fresh THEN [object EXCEPT !.age = 0] ELSE object
  /\ worker' = [Stale(worker) EXCEPT ![w].pc = "lookup", ![w].since = 0]
  /\ monitor' = StaleMonitor
  /\ UNCHANGED <<table, net, proxy, faults>>

\* Only a registration inserts the stream, as if it lasted for ever.
LookupOfRegister(w) ==
  /\ At(w, "lookup")
  /\ worker' = [worker EXCEPT
       ![w].pc = IF worker[w].kind = "Register" THEN "insert" ELSE "reply",
       ![w].keep = worker[w].kind = "Register" /\ table # None /\ EntryNeverExpires]
  /\ UNCHANGED <<object, table, monitor, net, proxy, faults>>

\* The test for nil is inverted.
LookupInverted(w) ==
  /\ At(w, "lookup")
  /\ worker' = [worker EXCEPT ![w].pc = "insert", ![w].keep = table = None]
  /\ UNCHANGED <<object, table, monitor, net, proxy, faults>>

\* The heartbeat goroutine empties the connection too when its Send fails.
SendHeartbeatEmpties ==
  /\ beating
  /\ \/ /\ initialized /\ stream \in open
        /\ requests' = [requests EXCEPT ![stream] = @ \cup {"Heartbeat"}]
        /\ UNCHANGED <<open, answers, initialized, stream>>
     \/ /\ initialized /\ stream \notin open
        /\ initialized' = FALSE
        /\ stream' = None
        /\ UNCHANGED net
     \/ /\ ~initialized
        /\ \E s \in Forgotten : Dial(s, {"Heartbeat"})
  /\ UNCHANGED <<core, up, reader, beating, faults>>

-----------------------------------------------------------------------------
(* Core: Establish receives a request and starts its handler at once, so   *)
(* the handlers of one stream overlap and finish in any order.             *)

Establish(w) == \E s \in open, kind \in RequestKinds :
  /\ At(w, "idle")
  /\ kind \in requests[s]
  /\ requests' = [requests EXCEPT ![s] = @ \ {kind}]
  /\ worker' = [worker EXCEPT ![w] = [Idle EXCEPT !.pc = "get", !.kind = kind, !.on = s]]
  /\ UNCHANGED <<object, table, monitor, open, answers, proxy, faults>>

\* Both handlers Get the Cluster first.  Register creates a missing one;
\* Heartbeat, and a failed Get, report failure.
GetCluster(w) ==
  /\ At(w, "get")
  /\ LET next == CASE object.exists /\ worker[w].kind = "Register"  -> "spec"
                   [] object.exists /\ worker[w].kind = "Heartbeat" -> "status"
                   [] ~object.exists /\ worker[w].kind = "Register"  -> "create"
                   [] OTHER -> "failed"
     IN worker' = [worker EXCEPT ![w].pc = next,
                                 ![w].fresh = object.exists, ![w].since = 0]
  /\ UNCHANGED <<object, table, monitor, net, proxy, faults>>

\* registerClusterInKube replaces the spec by the empty one.  The test for a
\* cluster already online looks at the new object and never succeeds.
UpdateSpec(w) ==
  /\ At(w, "spec")
  /\ \/ /\ worker[w].fresh
        /\ object' = [object EXCEPT !.spec = "empty"]
        /\ LET others == IF object.spec = "empty" THEN worker ELSE Stale(worker)
           IN worker' = [others EXCEPT ![w].pc = "status", ![w].fresh = TRUE, ![w].since = 0]
        /\ monitor' = IF object.spec = "empty" THEN monitor ELSE StaleMonitor
     \/ /\ ~worker[w].fresh
        /\ Goto(w, "failed")
        /\ UNCHANGED <<object, monitor>>
  /\ UNCHANGED <<table, net, proxy, faults>>

\* The status given to Create is dropped: status is a subresource.
CreateCluster(w) ==
  /\ At(w, "create")
  /\ \/ /\ ~object.exists
        /\ object' = [NoObject EXCEPT !.exists = TRUE]
        /\ Goto(w, "lookup")
     \/ /\ object.exists
        /\ Goto(w, "failed")
        /\ UNCHANGED object
  /\ UNCHANGED <<table, monitor, net, proxy, faults>>

\* UpdateClusterStatus accepts the write of a fresh copy only.  The time
\* stamp was taken at some moment since the object was read.  A heartbeat's
\* Update of the addons, before this, stores nothing (addons are status) and
\* fails when this one would.
UpdateStatus(w) ==
  /\ At(w, "status")
  /\ \/ /\ worker[w].fresh
        /\ \E age \in 0..worker[w].since :
             object' = [object EXCEPT !.status = "online", !.age = age]
        /\ worker' = [Stale(worker) EXCEPT ![w].pc = "lookup", ![w].since = 0]
        /\ monitor' = StaleMonitor
     \/ /\ ~worker[w].fresh
        /\ Goto(w, "failed")
        /\ UNCHANGED <<object, monitor>>
  /\ UNCHANGED <<table, net, proxy, faults>>

\* A call to the API server fails for another reason.
ApiError(w) ==
  /\ Fault("api")
  /\ worker[w].pc \in {"get", "spec", "create", "status"}
  /\ Goto(w, "failed")
  /\ UNCHANGED <<object, table, monitor, net, proxy>>

\* SendErrResponse, after which the handlers do not return but go on.
ReportFailure(w) ==
  /\ At(w, "failed")
  /\ Answer(worker[w].on, "Failed")
  /\ Goto(w, "lookup")
  /\ UNCHANGED <<object, table, monitor, open, requests, proxy, faults>>

\* table.Insert looks, under the read lock, for a valid entry, gives the lock
\* up, ...
LookupEntry(w) ==
  /\ At(w, "lookup")
  /\ worker' = [worker EXCEPT ![w].pc = "insert",
                              ![w].keep = table # None /\ EntryNeverExpires]
  /\ UNCHANGED <<object, table, monitor, net, proxy, faults>>

\* ... and writes, under the write lock, unless it had found one.
InsertEntry(w) ==
  /\ At(w, "insert")
  /\ table' = IF worker[w].keep THEN table ELSE worker[w].on
  /\ worker' = [worker EXCEPT ![w].pc = "reply", ![w].keep = FALSE]
  /\ UNCHANGED <<object, monitor, net, proxy, faults>>

Reply(w) ==
  /\ At(w, "reply")
  /\ Answer(worker[w].on, Success(worker[w].kind))
  /\ worker' = [worker EXCEPT ![w] = Idle]
  /\ UNCHANGED <<object, table, monitor, open, requests, proxy, faults>>

-----------------------------------------------------------------------------
(* Monitor: checkClusterStatus *)

\* A cluster listed as not online has nothing to fear of this round.
ListClusters ==
  /\ monitor.pc = "sleep"
  /\ object.status = "online"
  /\ monitor' = [pc |-> "check", age |-> object.age, fresh |-> TRUE]
  /\ UNCHANGED <<object, worker, table, net, proxy, faults>>

\* The listed copy is what is looked at.  policyReSchedule comes next (module
\* Failover); when it fails this cluster is left alone until the next round.
CheckStatus ==
  /\ monitor.pc = "check"
  /\ \/ /\ monitor.age >= OnlineExpiration
        /\ monitor' = [monitor EXCEPT !.pc = "offline"]
        /\ UNCHANGED faults
     \/ /\ monitor.age < OnlineExpiration
        /\ monitor' = Sleeping
        /\ UNCHANGED faults
     \/ /\ Fault("api")
        /\ monitor' = Sleeping
  /\ UNCHANGED <<object, worker, table, net, proxy>>

\* OfflineCluster writes the listed copy back: a conflict if it is stale.
OfflineCluster ==
  /\ monitor.pc = "offline"
  /\ \/ /\ monitor.fresh
        /\ object' = [object EXCEPT !.status = "offline"]
        /\ worker' = Stale(worker)
     \/ /\ ~monitor.fresh
        /\ UNCHANGED <<object, worker>>
  /\ monitor' = Sleeping
  /\ UNCHANGED <<table, net, proxy, faults>>

-----------------------------------------------------------------------------
(* Others who write the Cluster object *)

\* The cluster controller, on an object annotated for automatic deployment.
InitializeCluster ==
  /\ object.exists
  /\ object.auto
  /\ object.status = "none"
  /\ object' = [object EXCEPT !.status = "initializing"]
  /\ worker' = Stale(worker)
  /\ monitor' = StaleMonitor
  /\ UNCHANGED <<table, net, proxy, faults>>

\* A write that touches neither spec nor status: finalizers, labels.
TouchCluster ==
  /\ Fault("touch")
  /\ object.exists
  /\ worker' = Stale(worker)
  /\ monitor' = StaleMonitor
  /\ UNCHANGED <<object, table, net, proxy>>

DeleteCluster ==
  /\ Fault("delete")
  /\ object.exists
  /\ object' = NoObject
  /\ worker' = Stale(worker)
  /\ monitor' = StaleMonitor
  /\ UNCHANGED <<table, net, proxy>>

-----------------------------------------------------------------------------
(* Proxy *)

\* main: GetConnection, send.Register, then RecvResponse in a goroutine.
\* When one of the calls fails the process ends, and is started again.
ProxyStart ==
  /\ ~up
  /\ \E s \in Forgotten : Dial(s, {"Register"})
  /\ up' = TRUE
  /\ reader' = NotReading("get")
  /\ UNCHANGED <<core, beating, faults>>

\* RecvResponse calls GetConnection.  A nil stream makes it call
\* SetEmptyConnection, whose first store comes here, the second in ClearStream.
GetStream ==
  /\ reader.pc = "get"
  /\ \/ /\ initialized /\ stream # None
        /\ reader' = [pc |-> "recv", on |-> stream]
        /\ UNCHANGED <<net, initialized, stream, faults>>
     \/ /\ initialized /\ stream = None
        /\ initialized' = FALSE
        /\ reader' = NotReading("clear")
        /\ UNCHANGED <<net, stream, faults>>
     \/ /\ ~initialized
        /\ \E s \in Forgotten : Dial(s, {}) /\ reader' = [pc |-> "recv", on |-> s]
        /\ UNCHANGED faults
     \/ /\ ~initialized /\ Fault("dial")
        /\ reader' = NotReading("clear")
        /\ UNCHANGED <<net, initialized, stream>>
  /\ UNCHANGED <<core, up, beating>>

\* stream.Recv returns a response.  RegisterSuccess starts the heartbeats,
\* once per process; no other response changes the session.
RecvAnswer == \E kind \in AnswerKinds :
  /\ reader.pc = "recv"
  /\ reader.on \in open
  /\ kind \in answers[reader.on]
  /\ answers' = [answers EXCEPT ![reader.on] = @ \ {kind}]
  /\ reader' = NotReading("get")
  /\ beating' = (beating \/ kind = "RegisterSuccess")
  /\ UNCHANGED <<core, open, requests, up, initialized, stream, faults>>

\* stream.Recv returns an error: SetEmptyConnection stores initialized = 0 ...
RecvError ==
  /\ reader.pc = "recv"
  /\ reader.on \notin open
  /\ initialized' = FALSE
  /\ reader' = NotReading("clear")
  /\ UNCHANGED <<core, net, up, stream, beating, faults>>

\* ... and then stream = nil, without the lock: a stream that the heartbeat
\* goroutine has dialled in between is forgotten while it is open.
ClearStream ==
  /\ reader.pc = "clear"
  /\ stream' = None
  /\ reader' = NotReading("get")
  /\ UNCHANGED <<core, net, up, initialized, beating, faults>>

\* One round of the heartbeat loop: GetConnection, then Send.  A round that
\* gets no stream, or a broken one, has no effect.
SendHeartbeat ==
  /\ beating
  /\ \/ /\ initialized /\ stream \in open
        /\ requests' = [requests EXCEPT ![stream] = @ \cup {"Heartbeat"}]
        /\ UNCHANGED <<open, answers, initialized, stream>>
     \/ /\ ~initialized
        /\ \E s \in Forgotten : Dial(s, {"Heartbeat"})
  /\ UNCHANGED <<core, up, reader, beating, faults>>

-----------------------------------------------------------------------------
(* Faults of the network and of the processes *)

\* What is in flight on a broken stream is lost.
Drop(broken) ==
  /\ open' = open \ broken
  /\ requests' = [s \in Streams |-> IF s \in broken THEN {} ELSE requests[s]]
  /\ answers' = [s \in Streams |-> IF s \in broken THEN {} ELSE answers[s]]

BreakStream == \E s \in open :
  /\ Fault("break")
  /\ Drop({s})
  /\ UNCHANGED <<core, proxy>>

\* The core process dies and starts again with an empty table.
CoreRestart ==
  /\ Fault("core")
  /\ Drop(Streams)
  /\ worker' = [w \in Workers |-> Idle]
  /\ table' = None
  /\ monitor' = Sleeping
  /\ UNCHANGED <<object, proxy>>

ProxyCrash ==
  /\ Fault("proxy")
  /\ up
  /\ Drop(Streams)
  /\ up' = FALSE
  /\ initialized' = FALSE
  /\ stream' = None
  /\ reader' = NotReading("off")
  /\ beating' = FALSE
  /\ UNCHANGED core

Tick ==
  /\ object' = [object EXCEPT !.age = Older(@)]
  /\ worker' = [w \in Workers |->
                  IF At(w, "status") THEN [worker[w] EXCEPT !.since = Older(@)] ELSE worker[w]]
  /\ monitor' = [monitor EXCEPT !.age = Older(@)]
  /\ UNCHANGED <<table, net, proxy, faults>>

-----------------------------------------------------------------------------
Handle(w) ==
  \/ Establish(w)
  \/ GetCluster(w)
  \/ UpdateSpec(w)
  \/ CreateCluster(w)
  \/ UpdateStatus(w)
  \/ ReportFailure(w)
  \/ LookupEntry(w)
  \/ InsertEntry(w)
  \/ Reply(w)

CheckClusterStatus ==
  \/ ListClusters
  \/ CheckStatus
  \/ OfflineCluster

RecvResponse ==
  \/ GetStream
  \/ RecvAnswer
  \/ RecvError
  \/ ClearStream

Next ==
  \/ \E w \in Workers : Handle(w) \/ ApiError(w)
  \/ CheckClusterStatus
  \/ InitializeCluster
  \/ TouchCluster
  \/ DeleteCluster
  \/ ProxyStart
  \/ RecvResponse
  \/ SendHeartbeat
  \/ BreakStream
  \/ CoreRestart
  \/ ProxyCrash
  \/ Tick

Spec == Init /\ [][Next]_vars

-----------------------------------------------------------------------------
(* Fairness: a started goroutine is scheduled, a loop goes on to its next  *)
(* round, and time passes.  The two stores of SetEmptyConnection follow    *)
(* each other at once, and the heartbeat goroutine sleeps for a heartbeat  *)
(* period between its rounds: it does not dial between the two for ever.   *)
(* Nothing is assumed of the faults, of the start of the proxy, or of what *)
(* others write.                                                           *)

Fairness ==
  /\ \A w \in Workers : WF_vars(Handle(w))
  /\ WF_vars(CheckClusterStatus)
  /\ WF_vars(RecvResponse)
  /\ SF_vars(ClearStream /\ ~initialized)
  /\ WF_vars(SendHeartbeat)
  /\ WF_vars(Tick)

FairSpec == Spec /\ Fairness

-----------------------------------------------------------------------------
(* Properties *)

\* The status of the Cluster object moves only as ClusterLiveness allows:
\* whatever the goroutines of Establish, the monitor and the controller
\* interleave, a stored heartbeat never goes back in time and only a silent
\* cluster goes offline (heartbeat_handler.go:59-91, monitor.go:37-65).
Promise == INSTANCE ClusterLiveness
  WITH exists <- object.exists, status <- object.status, silence <- object.age

ImplementsLiveness == Promise!Spec

\* While RecvResponse waits on a stream, the proxy sends on that same stream:
\* answers are looked for where requests were put (stream.go:20-50,
\* response_handler.go:28-43).
ReaderHoldsStream == reader.pc = "recv" => initialized /\ stream = reader.on

\* A copy of the Cluster object that a write would still accept tells the
\* truth about it, so a decision taken on the copy is a decision taken on the
\* object; a missing object has no history (heartbeat_handler.go:37-47,
\* register_handler.go:79-113, monitor.go:38-57).
FreshIsTrue ==
  /\ ~object.exists => object.status = "none" /\ object.age = OnlineExpiration
  /\ \A w \in Workers : worker[w].fresh => object.exists
  /\ \A w \in Workers : worker[w].fresh /\ At(w, "status") => worker[w].since <= object.age
  /\ monitor.fresh => object.exists /\ object.status = "online"
  /\ monitor.fresh /\ monitor.pc = "check" => monitor.age = object.age
  /\ monitor.fresh /\ monitor.pc = "offline" => object.age = OnlineExpiration

\* A proxy that is told of success on a stream that is still open can be
\* addressed: the table has an entry (register_handler.go:50-59).
SuccessMeansListed ==
  \A s \in open : answers[s] \cap {"RegisterSuccess", "HeartbeatSuccess"} # {} => table # None

\* As long as the heartbeats go on, the table ends up with the stream the
\* proxy reads, after a core restart too, where an entry has always expired
\* when it is looked at (table.go:37-49).
EventuallyRoutable ==
  ~EntryNeverExpires => (<>[]beating => <>[](table = stream /\ stream \in open))

\* cmd/core/main.go:62 `The period of maximum heartbeat interval': an entry is
\* valid for one period, so that whatever the period, the heartbeats on a new
\* stream replace the entry of a dead one.
EventuallyReplaced == <>[]beating => <>[](table = stream /\ stream \in open)

\* A cluster whose proxy beats is shown online again and again, whatever
\* conflicts its heartbeats run into (heartbeat_handler.go:59-91).
EventuallyOnline == <>[](beating /\ object.exists) => []<>(object.status = "online")

\* A cluster whose proxy is gone for good ends up not online: no conflict or
\* failed call stops the monitor (monitor.go:37-65).
EventuallyOffline == <>[]~up => <>[](object.status # "online")

\* A proxy that keeps running comes to send heartbeats (design/zh/cluster.md:109).
EventuallyBeating == <>[]up => <>beating
===============================================================================
