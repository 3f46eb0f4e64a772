------------------------- MODULE ClusterSessionProofs -------------------------
(***************************************************************************)
(* Theorems about ClusterSession, for every number of streams, goroutines  *)
(* and faults and every expiration time.                                   *)
(*                                                                         *)
(* The argument rests on one inductive invariant, FreshIsTrue: a copy of   *)
(* the Cluster object that a write would still accept tells the truth.     *)
(* What is written from a fresh copy is then as good as an atomic read and *)
(* write, which is all that ClusterLiveness allows.                        *)
(***************************************************************************)
EXTENDS ClusterSession, TLAPS

USE SessionAssumption

-----------------------------------------------------------------------------
(* Lemmas about the records.  The provers update one field at a time.      *)

LEMMA WorkerField ==
  ASSUME NEW r \in Worker
  PROVE  /\ \A p \in WorkerSteps : [r EXCEPT !.pc = p] \in Worker
         /\ \A f \in BOOLEAN : [r EXCEPT !.fresh = f] \in Worker
         /\ \A a \in Ages : [r EXCEPT !.since = a] \in Worker
         /\ \A k \in BOOLEAN : [r EXCEPT !.keep = k] \in Worker
         /\ \A k \in RequestKinds : [r EXCEPT !.kind = k] \in Worker
         /\ \A s \in Streams : [r EXCEPT !.on = s] \in Worker
BY DEF Worker

LEMMA WorkerUpdate ==
  ASSUME NEW ws \in [Workers -> Worker], NEW w \in Workers,
         NEW p \in WorkerSteps, NEW f \in BOOLEAN, NEW a \in Ages, NEW k \in BOOLEAN
  PROVE  /\ [ws EXCEPT ![w].pc = p, ![w].fresh = f, ![w].since = a] \in [Workers -> Worker]
         /\ [ws EXCEPT ![w].pc = p, ![w].keep = k] \in [Workers -> Worker]
<1>1. [ws[w] EXCEPT !.pc = p, !.fresh = f, !.since = a] \in Worker
  BY WorkerField, Zenon
<1>2. [ws[w] EXCEPT !.pc = p, !.keep = k] \in Worker
  BY WorkerField, Zenon
<1>3. QED
  BY <1>1, <1>2

LEMMA WorkerStored ==
  ASSUME NEW ws \in [Workers -> Worker], NEW w \in Workers, NEW p \in WorkerSteps, NEW a \in Ages
  PROVE  [ws EXCEPT ![w].pc = p, ![w].since = a] \in [Workers -> Worker]
<1>1. [ws[w] EXCEPT !.pc = p, !.since = a] \in Worker
  BY WorkerField, Zenon
<1>2. QED
  BY <1>1

LEMMA ObjectField ==
  ASSUME NEW o \in Object
  PROVE  /\ \A b \in BOOLEAN : [o EXCEPT !.exists = b] \in Object
         /\ \A b \in BOOLEAN : [o EXCEPT !.auto = b] \in Object
         /\ \A c \in {"given", "empty"} : [o EXCEPT !.spec = c] \in Object
         /\ \A c \in Statuses : [o EXCEPT !.status = c] \in Object
         /\ \A a \in Ages : [o EXCEPT !.age = a] \in Object
BY DEF Object

LEMMA ObjectHeard ==
  ASSUME NEW o \in Object, NEW c \in Statuses, NEW a \in Ages
  PROVE  [o EXCEPT !.status = c, !.age = a] \in Object
BY ObjectField, Zenon

LEMMA MonitorField ==
  ASSUME NEW m \in Monitor
  PROVE  /\ \A p \in {"sleep", "check", "offline"} : [m EXCEPT !.pc = p] \in Monitor
         /\ \A f \in BOOLEAN : [m EXCEPT !.fresh = f] \in Monitor
         /\ \A a \in Ages : [m EXCEPT !.age = a] \in Monitor
BY DEF Monitor

\* The zero values have the types of their variables.
LEMMA ZeroTypes ==
  /\ NoObject \in Object
  /\ Annotated \in Object
  /\ [NoObject EXCEPT !.exists = TRUE] \in Object
  /\ Idle \in Worker
  /\ Sleeping \in Monitor
<1>1. NoObject \in Object
  BY DEF NoObject, Object, Statuses, Ages
<1>2. Annotated \in Object
  BY <1>1, ObjectField, Zenon DEF Annotated
<1>3. [NoObject EXCEPT !.exists = TRUE] \in Object
  BY <1>1, ObjectField
<1>4. Idle \in Worker
  BY DEF Idle, Worker, WorkerSteps, RequestKinds, Ages
<1>5. Sleeping \in Monitor
  BY DEF Sleeping, Monitor, Ages
<1>6. QED
  BY <1>1, <1>2, <1>3, <1>4, <1>5

\* Making copies stale keeps the type of their holders.
LEMMA StaleType ==
  ASSUME NEW ws \in [Workers -> Worker], monitor \in Monitor
  PROVE  Stale(ws) \in [Workers -> Worker] /\ StaleMonitor \in Monitor
BY WorkerField, MonitorField DEF Stale, StaleMonitor

\* Ages stay within the bound and never decrease with time.
LEMMA OlderType ==
  ASSUME NEW a \in Ages
  PROVE  Older(a) \in Ages /\ a <= Older(a)
BY DEF Older, Ages

\* An answer is well typed, and only adds to what is in flight.
LEMMA AnswerType ==
  ASSUME NEW s, NEW k \in AnswerKinds,
         open \subseteq Streams, answers \in [Streams -> SUBSET AnswerKinds], Answer(s, k)
  PROVE  answers' \in [Streams -> SUBSET AnswerKinds]
<1>1. CASE s \in open
  BY <1>1 DEF Answer
<1>2. CASE s \notin open
  BY <1>2 DEF Answer
<1>3. QED
  BY <1>1, <1>2

\* What a dial does to the network and to the two variables of stream.go.
LEMMA DialType ==
  ASSUME NEW s, NEW first \in SUBSET RequestKinds, TypeOK, s \in Forgotten, Dial(s, first)
  PROVE  /\ s \in Streams
         /\ open' \subseteq Streams
         /\ requests' \in [Streams -> SUBSET RequestKinds]
         /\ answers' \in [Streams -> SUBSET AnswerKinds]
         /\ stream' = s
         /\ initialized' = TRUE
BY DEF Dial, Forgotten, TypeOK

-----------------------------------------------------------------------------
(* Type correctness *)

LEMMA TypeInit == Init => TypeOK
<1> SUFFICES ASSUME Init PROVE TypeOK
  OBVIOUS
<1>1. object \in Object
  BY ZeroTypes DEF Init
<1>2. worker \in [Workers -> Worker] /\ monitor \in Monitor
  BY ZeroTypes DEF Init
<1>3. reader \in Reader
  BY DEF Init, Reader, NotReading
<1>4. /\ requests \in [Streams -> SUBSET RequestKinds]
      /\ answers \in [Streams -> SUBSET AnswerKinds]
  BY DEF Init
<1>5. faults \in 0..MaxFaults
  BY DEF Init, SessionAssumption
<1>6. /\ open \subseteq Streams /\ table \in Streams \cup {None}
      /\ up \in BOOLEAN /\ initialized \in BOOLEAN /\ beating \in BOOLEAN
      /\ stream \in Streams \cup {None}
  BY DEF Init
<1>7. QED
  BY <1>1, <1>2, <1>3, <1>4, <1>5, <1>6 DEF TypeOK

LEMMA TypeHandle ==
  ASSUME TypeOK, NEW w \in Workers, Handle(w) \/ ApiError(w)
  PROVE  TypeOK'
<1> USE DEF TypeOK
<1>a. {"get", "spec", "create", "status", "failed", "lookup", "insert", "reply"} \subseteq WorkerSteps
  BY DEF WorkerSteps
<1>b. 0 \in Ages /\ worker[w] \in Worker
  BY DEF Ages, SessionAssumption
<1>c. worker[w].since \in Ages /\ worker[w].kind \in RequestKinds /\ 0..worker[w].since \subseteq Ages
  BY <1>b DEF Worker, Ages, SessionAssumption
<1>d. ASSUME NEW p \in WorkerSteps, Goto(w, p)
      PROVE  worker' \in [Workers -> Worker]
  BY <1>b, <1>d, WorkerUpdate DEF Goto
<1>1. CASE Establish(w)
  <2>1. PICK s \in open, kind \in RequestKinds :
          /\ requests' = [requests EXCEPT ![s] = @ \ {kind}]
          /\ worker' = [worker EXCEPT ![w] = [Idle EXCEPT !.pc = "get", !.kind = kind, !.on = s]]
    BY <1>1 DEF Establish
  <2>2. [Idle EXCEPT !.pc = "get", !.kind = kind, !.on = s] \in Worker
    <3>1. "get" \in WorkerSteps /\ s \in Streams
      BY <1>a
    <3>2. QED
      BY <3>1, ZeroTypes, WorkerField, Zenon
  <2>3. worker' \in [Workers -> Worker]
    BY <2>1, <2>2
  <2>4. requests' \in [Streams -> SUBSET RequestKinds]
    BY <2>1
  <2>5. QED
    BY <1>1, <2>3, <2>4 DEF Establish, proxy
<1>2. CASE GetCluster(w)
  <2>1. PICK p \in WorkerSteps :
          worker' = [worker EXCEPT ![w].pc = p, ![w].fresh = object.exists, ![w].since = 0]
    BY <1>2, <1>a DEF GetCluster
  <2>2. object.exists \in BOOLEAN
    BY DEF Object
  <2>3. worker' \in [Workers -> Worker]
    BY <2>1, <2>2, <1>b, WorkerUpdate
  <2>4. QED
    BY <1>2, <2>3 DEF GetCluster, proxy, net
<1>3. CASE UpdateSpec(w)
  <2>1. object' \in Object /\ monitor' \in Monitor
    BY <1>3, ObjectField, StaleType DEF UpdateSpec
  <2>2. worker' \in [Workers -> Worker]
    <3>1. CASE worker[w].fresh
      <4>1. CASE object.spec = "empty"
        <5>1. worker' = [worker EXCEPT ![w].pc = "status", ![w].fresh = TRUE, ![w].since = 0]
          BY <1>3, <3>1, <4>1, Zenon DEF UpdateSpec
        <5>2. QED
          BY <1>a, <1>b, <5>1, WorkerUpdate
      <4>2. CASE object.spec # "empty"
        <5>1. worker' = [Stale(worker) EXCEPT ![w].pc = "status", ![w].fresh = TRUE, ![w].since = 0]
          BY <1>3, <3>1, <4>2, Zenon DEF UpdateSpec
        <5>2. Stale(worker) \in [Workers -> Worker]
          BY StaleType
        <5>3. QED
          BY <1>a, <1>b, <5>1, <5>2, WorkerUpdate
      <4>3. QED
        BY <4>1, <4>2
    <3>2. CASE ~worker[w].fresh
      BY <1>3, <1>a, <1>d, <3>2 DEF UpdateSpec
    <3>3. QED
      BY <3>1, <3>2
  <2>3. QED
    BY <1>3, <2>1, <2>2 DEF UpdateSpec, proxy, net
<1>4. CASE CreateCluster(w)
  <2>1. object' \in Object
    BY <1>4, ZeroTypes DEF CreateCluster
  <2>2. worker' \in [Workers -> Worker]
    BY <1>4, <1>a, <1>d DEF CreateCluster
  <2>3. QED
    BY <1>4, <2>1, <2>2 DEF CreateCluster, proxy, net
<1>5. CASE UpdateStatus(w)
  <2>1. object' \in Object /\ monitor' \in Monitor
    <3>1. "online" \in Statuses
      BY DEF Statuses
    <3>2. CASE worker[w].fresh
      <4>1. PICK age \in Ages : object' = [object EXCEPT !.status = "online", !.age = age]
        BY <1>5, <1>c, <3>2 DEF UpdateStatus
      <4>2. QED
        BY <1>5, <3>1, <3>2, <4>1, ObjectHeard, StaleType DEF UpdateStatus
    <3>3. CASE ~worker[w].fresh
      BY <1>5, <3>3 DEF UpdateStatus
    <3>4. QED
      BY <3>2, <3>3
  <2>2. worker' \in [Workers -> Worker]
    <3>1. CASE worker[w].fresh
      <4>1. worker' = [Stale(worker) EXCEPT ![w].pc = "lookup", ![w].since = 0]
        BY <1>5, <3>1 DEF UpdateStatus
      <4>2. Stale(worker) \in [Workers -> Worker]
        BY StaleType
      <4>3. QED
        BY <1>a, <1>b, <4>1, <4>2, WorkerStored
    <3>2. CASE ~worker[w].fresh
      BY <1>5, <1>a, <1>d, <3>2 DEF UpdateStatus
    <3>3. QED
      BY <3>1, <3>2
  <2>3. QED
    BY <1>5, <2>1, <2>2 DEF UpdateStatus, proxy, net
<1>6. CASE ReportFailure(w)
  <2>1. answers' \in [Streams -> SUBSET AnswerKinds]
    BY <1>6, AnswerType DEF ReportFailure, AnswerKinds
  <2>2. worker' \in [Workers -> Worker]
    BY <1>6, <1>a, <1>d DEF ReportFailure
  <2>3. QED
    BY <1>6, <2>1, <2>2 DEF ReportFailure, proxy
<1>7. CASE LookupEntry(w)
  <2>1. worker' \in [Workers -> Worker]
    <3>1. (table # None /\ EntryNeverExpires) \in BOOLEAN
      OBVIOUS
    <3>2. QED
      BY <1>7, <1>a, <1>b, <3>1, WorkerUpdate DEF LookupEntry
  <2>2. QED
    BY <1>7, <2>1 DEF LookupEntry, proxy, net
<1>8. CASE InsertEntry(w)
  <2>1. worker' \in [Workers -> Worker]
    BY <1>8, <1>a, <1>b, WorkerUpdate DEF InsertEntry
  <2>2. table' \in Streams \cup {None}
    BY <1>8, <1>b DEF InsertEntry, Worker
  <2>3. QED
    BY <1>8, <2>1, <2>2 DEF InsertEntry, proxy, net
<1>9. CASE Reply(w)
  <2>1. answers' \in [Streams -> SUBSET AnswerKinds]
    BY <1>9, AnswerType DEF Reply, Success, AnswerKinds
  <2>2. worker' \in [Workers -> Worker]
    BY <1>9, ZeroTypes DEF Reply
  <2>3. QED
    BY <1>9, <2>1, <2>2 DEF Reply, proxy
<1>10. CASE ApiError(w)
  <2>1. worker' \in [Workers -> Worker]
    BY <1>10, <1>a, <1>d DEF ApiError
  <2>2. faults' \in 0..MaxFaults
    BY <1>10 DEF ApiError, Fault, SessionAssumption
  <2>3. QED
    BY <1>10, <2>1, <2>2 DEF ApiError, proxy, net
<1>11. QED
  BY <1>1, <1>2, <1>3, <1>4, <1>5, <1>6, <1>7, <1>8, <1>9, <1>10 DEF Handle

LEMMA TypeObject ==
  ASSUME TypeOK,
         CheckClusterStatus \/ InitializeCluster \/ TouchCluster \/ DeleteCluster \/ Tick
  PROVE  TypeOK'
<1> USE DEF TypeOK
<1>a. Stale(worker) \in [Workers -> Worker] /\ StaleMonitor \in Monitor /\ Sleeping \in Monitor
  BY StaleType, ZeroTypes
<1>b. {"initializing", "offline"} \subseteq Statuses
  BY DEF Statuses
<1>c. (faults > 0 /\ faults' = faults - 1) => faults' \in 0..MaxFaults
  BY DEF SessionAssumption
<1>1. CASE ListClusters
  <2>1. monitor' \in Monitor
    BY <1>1 DEF ListClusters, Monitor, Object
  <2>2. QED
    BY <1>1, <2>1 DEF ListClusters, proxy, net
<1>2. CASE CheckStatus
  <2>1. monitor' \in Monitor
    BY <1>2, <1>a, MonitorField DEF CheckStatus
  <2>2. faults' \in 0..MaxFaults
    BY <1>2, <1>c DEF CheckStatus, Fault
  <2>3. QED
    BY <1>2, <2>1, <2>2 DEF CheckStatus, proxy, net
<1>3. CASE OfflineCluster
  <2>1. object' \in Object
    <3>1. [object EXCEPT !.status = "offline"] \in Object
      BY <1>b, ObjectField
    <3>2. QED
      BY <1>3, <3>1 DEF OfflineCluster
  <2>2. worker' \in [Workers -> Worker]
    BY <1>3, <1>a DEF OfflineCluster
  <2>3. QED
    BY <1>3, <1>a, <2>1, <2>2 DEF OfflineCluster, proxy, net
<1>4. CASE InitializeCluster
  BY <1>4, <1>a, <1>b, ObjectField DEF InitializeCluster, proxy, net
<1>5. CASE TouchCluster
  BY <1>5, <1>a, <1>c DEF TouchCluster, Fault, proxy, net
<1>6. CASE DeleteCluster
  BY <1>6, <1>a, <1>c, ZeroTypes DEF DeleteCluster, Fault, proxy, net
<1>7. CASE Tick
  <2>1. object.age \in Ages /\ monitor.age \in Ages /\ \A w \in Workers : worker[w].since \in Ages
    BY DEF Object, Monitor, Worker
  <2>2. object' \in Object /\ monitor' \in Monitor
    BY <1>7, <2>1, OlderType, ObjectField, MonitorField DEF Tick
  <2>3. worker' \in [Workers -> Worker]
    BY <1>7, <2>1, OlderType, WorkerField DEF Tick
  <2>4. QED
    BY <1>7, <2>2, <2>3 DEF Tick, proxy, net
<1>8. QED
  BY <1>1, <1>2, <1>3, <1>4, <1>5, <1>6, <1>7 DEF CheckClusterStatus

LEMMA TypeProxy ==
  ASSUME TypeOK, ProxyStart \/ RecvResponse \/ SendHeartbeat
  PROVE  TypeOK'
<1> USE DEF TypeOK
<1>a. \A pc \in {"off", "get", "recv", "clear"}, s \in Streams \cup {None} : [pc |-> pc, on |-> s] \in Reader
  BY DEF Reader
<1>1. CASE ProxyStart
  <2>1. PICK s \in Forgotten : Dial(s, {"Register"})
    BY <1>1 DEF ProxyStart
  <2>2. {"Register"} \in SUBSET RequestKinds
    BY DEF RequestKinds
  <2>3. QED
    BY <1>1, <1>a, <2>1, <2>2, DialType DEF ProxyStart, NotReading, core
<1>2. CASE GetStream
  <2>1. CASE \E s \in Forgotten : Dial(s, {}) /\ reader' = [pc |-> "recv", on |-> s]
    <3>1. PICK s \in Forgotten : Dial(s, {}) /\ reader' = [pc |-> "recv", on |-> s]
      BY <2>1
    <3>2. faults' \in 0..MaxFaults
      BY <1>2 DEF GetStream, Fault, SessionAssumption
    <3>3. QED
      BY <1>2, <1>a, <3>1, <3>2, DialType DEF GetStream, core
  <2>2. CASE ~\E s \in Forgotten : Dial(s, {}) /\ reader' = [pc |-> "recv", on |-> s]
    <3>1. reader' \in Reader
      BY <1>2, <2>2, <1>a DEF GetStream, NotReading
    <3>2. faults' \in 0..MaxFaults
      BY <1>2 DEF GetStream, Fault, SessionAssumption
    <3>3. QED
      BY <1>2, <2>2, <3>1, <3>2 DEF GetStream, core, net
  <2>3. QED
    BY <2>1, <2>2
<1>3. CASE RecvAnswer
  BY <1>3, <1>a DEF RecvAnswer, NotReading, core
<1>4. CASE RecvError
  BY <1>4, <1>a DEF RecvError, NotReading, core, net
<1>5. CASE ClearStream
  BY <1>5, <1>a DEF ClearStream, NotReading, core, net
<1>6. CASE SendHeartbeat
  <2>1. {"Heartbeat"} \in SUBSET RequestKinds
    BY DEF RequestKinds
  <2>2. CASE initialized
    BY <1>6, <2>1, <2>2 DEF SendHeartbeat, core
  <2>3. CASE ~initialized
    <3>1. PICK s \in Forgotten : Dial(s, {"Heartbeat"})
      BY <1>6, <2>3 DEF SendHeartbeat
    <3>2. QED
      BY <1>6, <2>1, <3>1, DialType DEF SendHeartbeat, core
  <2>4. QED
    BY <2>2, <2>3
<1>7. QED
  BY <1>1, <1>2, <1>3, <1>4, <1>5, <1>6 DEF RecvResponse

LEMMA TypeFault ==
  ASSUME TypeOK, BreakStream \/ CoreRestart \/ ProxyCrash
  PROVE  TypeOK'
<1> USE DEF TypeOK
<1>a. faults' \in 0..MaxFaults
  <2>1. faults > 0 /\ faults' = faults - 1
    BY Zenon DEF BreakStream, CoreRestart, ProxyCrash, Fault
  <2>2. QED
    BY <2>1 DEF SessionAssumption
<1>b. ASSUME NEW broken, Drop(broken)
      PROVE  /\ open' \subseteq Streams
             /\ requests' \in [Streams -> SUBSET RequestKinds]
             /\ answers' \in [Streams -> SUBSET AnswerKinds]
  BY <1>b DEF Drop
<1>1. CASE BreakStream
  BY <1>1, <1>a, <1>b DEF BreakStream, core, proxy
<1>2. CASE CoreRestart
  BY <1>2, <1>a, <1>b, ZeroTypes DEF CoreRestart, proxy
<1>3. CASE ProxyCrash
  BY <1>3, <1>a, <1>b DEF ProxyCrash, NotReading, Reader, core
<1>4. QED
  BY <1>1, <1>2, <1>3

LEMMA TypeStep == TypeOK /\ [Next]_vars => TypeOK'
<1> SUFFICES ASSUME TypeOK, [Next]_vars PROVE TypeOK'
  OBVIOUS
<1>1. CASE UNCHANGED vars
  BY <1>1 DEF TypeOK, vars, core, net, proxy
<1>2. CASE Next
  BY <1>2, TypeHandle, TypeObject, TypeProxy, TypeFault DEF Next
<1>3. QED
  BY <1>1, <1>2

\* The goroutines, streams and copies never leave the states the model names
\* (register_handler.go:26-60, monitor.go:37-65, response_handler.go:28-67).
THEOREM TypeCorrect == Spec => []TypeOK
<1>1. Init => TypeOK
  BY TypeInit
<1>2. TypeOK /\ [Next]_vars => TypeOK'
  BY TypeStep
<1>3. QED
  BY <1>1, <1>2, PTL DEF Spec

-----------------------------------------------------------------------------
(* A fresh copy tells the truth *)

\* A goroutine whose copy of the object is fresh.
LEMMA StaleIsStale ==
  ASSUME worker \in [Workers -> Worker], monitor \in Monitor
  PROVE  /\ \A w \in Workers : ~Stale(worker)[w].fresh
         /\ ~StaleMonitor.fresh
BY DEF Stale, StaleMonitor, Worker, Monitor

\* What a write leaves behind: at most its author's copy is fresh.
LEMMA FreshAfterWrite ==
  ASSUME TypeOK, FreshIsTrue,
         \A w \in Workers : ~worker'[w].fresh,
         ~monitor'.fresh,
         ~object'.exists => object'.status = "none" /\ object'.age = OnlineExpiration
  PROVE  FreshIsTrue'
BY DEF FreshIsTrue, At

\* What a step of one goroutine that writes nothing leaves behind.
LEMMA FreshAfterRead ==
  ASSUME TypeOK, FreshIsTrue, NEW w \in Workers,
         object' = object, monitor' = monitor,
         \A v \in Workers \ {w} : worker'[v] = worker[v],
         worker'[w].fresh => object.exists /\ worker'[w].since = 0
  PROVE  FreshIsTrue'
<1>1. object.age \in Nat
  BY DEF TypeOK, Object, Ages
<1>2. QED
  BY <1>1 DEF FreshIsTrue, At

LEMMA FreshHandle ==
  ASSUME TypeOK, FreshIsTrue, NEW w \in Workers, Handle(w) \/ ApiError(w)
  PROVE  FreshIsTrue'
<1>a. worker \in [Workers -> Worker] /\ worker[w] \in Worker /\ monitor \in Monitor /\ object \in Object
  BY DEF TypeOK
<1>d. ASSUME NEW p, Goto(w, p)
      PROVE  /\ \A v \in Workers \ {w} : worker'[v] = worker[v]
             /\ ~worker'[w].fresh
  BY <1>a, <1>d DEF Goto, Worker
<1>1. CASE Establish(w)
  BY <1>1, <1>a, FreshAfterRead DEF Establish, Idle
<1>2. CASE GetCluster(w)
  <2>1. /\ \A v \in Workers \ {w} : worker'[v] = worker[v]
        /\ worker'[w].fresh = object.exists /\ worker'[w].since = 0
    BY <1>2, <1>a DEF GetCluster, Worker
  <2>2. QED
    BY <1>2, <2>1, FreshAfterRead DEF GetCluster
<1>3. CASE UpdateSpec(w)
  <2>1. CASE worker[w].fresh
    <3>1. /\ object'.exists = object.exists /\ object'.status = object.status
          /\ object'.age = object.age
      BY <1>3, <2>1, <1>a DEF UpdateSpec, Object
    <3>2. worker'[w].since = 0
      BY <1>3, <2>1, <1>a DEF UpdateSpec, Worker, Stale
    <3>3. \A v \in Workers \ {w} : worker'[v] = worker[v] \/ ~worker'[v].fresh
      BY <1>3, <2>1, <1>a, StaleIsStale DEF UpdateSpec, Worker, Stale
    <3>4. monitor' = monitor \/ ~monitor'.fresh
      BY <1>3, <2>1, <1>a, StaleIsStale DEF UpdateSpec
    <3>5. object.age \in Nat
      BY <1>a DEF Object, Ages
    <3>6. QED
      BY <2>1, <3>1, <3>2, <3>3, <3>4, <3>5 DEF FreshIsTrue, At
  <2>2. CASE ~worker[w].fresh
    BY <1>3, <1>d, <2>2, FreshAfterRead DEF UpdateSpec
  <2>3. QED
    BY <2>1, <2>2
<1>4. CASE CreateCluster(w)
  <2>1. CASE object.exists
    BY <1>4, <1>d, <2>1, FreshAfterRead DEF CreateCluster
  <2>2. CASE ~object.exists
    <3>1. object'.exists
      BY <1>4, <2>2 DEF CreateCluster, NoObject
    <3>2. \A v \in Workers : ~worker'[v].fresh
      BY <1>4, <1>d, <2>2 DEF CreateCluster, FreshIsTrue
    <3>3. ~monitor'.fresh
      BY <1>4, <2>2 DEF CreateCluster, FreshIsTrue
    <3>4. QED
      BY <3>1, <3>2, <3>3, FreshAfterWrite
  <2>3. QED
    BY <2>1, <2>2
<1>5. CASE UpdateStatus(w)
  <2>1. CASE worker[w].fresh
    <3>1. object'.exists
      BY <1>5, <2>1, <1>a DEF UpdateStatus, FreshIsTrue, Object
    <3>2. \A v \in Workers : ~worker'[v].fresh
      <4>1. worker' = [Stale(worker) EXCEPT ![w].pc = "lookup", ![w].since = 0]
        BY <1>5, <2>1, Zenon DEF UpdateStatus
      <4>2. Stale(worker) \in [Workers -> Worker]
        BY <1>a, StaleType
      <4>3. QED
        BY <1>a, <4>1, <4>2, StaleIsStale DEF Worker
    <3>3. ~monitor'.fresh
      <4>1. monitor' = StaleMonitor
        BY <1>5, <2>1, Zenon DEF UpdateStatus
      <4>2. QED
        BY <4>1, <1>a, StaleIsStale
    <3>4. QED
      BY <3>1, <3>2, <3>3, FreshAfterWrite
  <2>2. CASE ~worker[w].fresh
    BY <1>5, <1>d, <2>2, FreshAfterRead DEF UpdateStatus
  <2>3. QED
    BY <2>1, <2>2
<1>6. CASE ReportFailure(w)
  BY <1>6, <1>d, FreshAfterRead DEF ReportFailure
<1>7. CASE LookupEntry(w)
  <2>1. /\ \A v \in Workers \ {w} : worker'[v] = worker[v]
        /\ worker'[w].fresh = worker[w].fresh /\ worker'[w].pc = "insert"
    BY <1>7, <1>a DEF LookupEntry, Worker
  <2>2. QED
    BY <1>7, <2>1 DEF LookupEntry, FreshIsTrue, At
<1>8. CASE InsertEntry(w)
  <2>1. /\ \A v \in Workers \ {w} : worker'[v] = worker[v]
        /\ worker'[w].fresh = worker[w].fresh /\ worker'[w].pc = "reply"
    BY <1>8, <1>a DEF InsertEntry, Worker
  <2>2. QED
    BY <1>8, <2>1 DEF InsertEntry, FreshIsTrue, At
<1>9. CASE Reply(w)
  BY <1>9, <1>a, FreshAfterRead DEF Reply, Idle
<1>10. CASE ApiError(w)
  BY <1>10, <1>d, FreshAfterRead DEF ApiError
<1>11. QED
  BY <1>1, <1>2, <1>3, <1>4, <1>5, <1>6, <1>7, <1>8, <1>9, <1>10 DEF Handle

LEMMA FreshObject ==
  ASSUME TypeOK, FreshIsTrue,
         CheckClusterStatus \/ InitializeCluster \/ TouchCluster \/ DeleteCluster \/ Tick
  PROVE  FreshIsTrue'
<1>a. worker \in [Workers -> Worker] /\ monitor \in Monitor /\ object \in Object
  BY DEF TypeOK
<1>1. CASE ListClusters
  BY <1>1 DEF ListClusters, FreshIsTrue, At
<1>2. CASE CheckStatus
  <2>1. UNCHANGED <<object, worker>>
    BY <1>2 DEF CheckStatus
  <2>2. CASE monitor.age >= OnlineExpiration /\ monitor' = [monitor EXCEPT !.pc = "offline"]
    <3>1. monitor'.fresh = monitor.fresh /\ monitor'.pc = "offline" /\ monitor.pc = "check"
      BY <1>2, <2>2, <1>a DEF CheckStatus, Monitor
    <3>2. monitor.fresh => object.age = OnlineExpiration
      BY <1>a, <2>2, <3>1 DEF FreshIsTrue, Object, Ages, SessionAssumption
    <3>3. QED
      BY <2>1, <3>1, <3>2 DEF FreshIsTrue, At
  <2>3. CASE monitor' = Sleeping
    BY <2>1, <2>3 DEF FreshIsTrue, At, Sleeping
  <2>4. QED
    BY <1>2, <2>2, <2>3 DEF CheckStatus
<1>3. CASE OfflineCluster
  <2>1. ~monitor'.fresh
    BY <1>3 DEF OfflineCluster, Sleeping
  <2>2. CASE monitor.fresh
    <3>1. object'.exists
      BY <1>3, <2>2, <1>a DEF OfflineCluster, FreshIsTrue, Object
    <3>2. \A w \in Workers : ~worker'[w].fresh
      BY <1>3, <2>2, <1>a, StaleIsStale DEF OfflineCluster
    <3>3. QED
      BY <2>1, <3>1, <3>2, FreshAfterWrite
  <2>3. CASE ~monitor.fresh
    BY <1>3, <2>1, <2>3 DEF OfflineCluster, FreshIsTrue, At
  <2>4. QED
    BY <2>2, <2>3
<1>4. CASE InitializeCluster
  <2>1. (\A w \in Workers : ~worker'[w].fresh) /\ ~monitor'.fresh
    BY <1>4, <1>a, StaleIsStale DEF InitializeCluster
  <2>2. object'.exists
    BY <1>4, <1>a DEF InitializeCluster, Object
  <2>3. QED
    BY <2>1, <2>2, FreshAfterWrite
<1>5. CASE TouchCluster
  <2>1. (\A w \in Workers : ~worker'[w].fresh) /\ ~monitor'.fresh
    BY <1>5, <1>a, StaleIsStale DEF TouchCluster
  <2>2. object'.exists
    BY <1>5 DEF TouchCluster
  <2>3. QED
    BY <2>1, <2>2, FreshAfterWrite
<1>6. CASE DeleteCluster
  <2>1. (\A w \in Workers : ~worker'[w].fresh) /\ ~monitor'.fresh
    BY <1>6, <1>a, StaleIsStale DEF DeleteCluster
  <2>2. object'.status = "none" /\ object'.age = OnlineExpiration
    BY <1>6 DEF DeleteCluster, NoObject
  <2>3. QED
    BY <2>1, <2>2, FreshAfterWrite
<1>7. CASE Tick
  <2>1. /\ object'.exists = object.exists /\ object'.status = object.status
        /\ object'.age = Older(object.age)
    BY <1>7, <1>a DEF Tick, Object
  <2>2. /\ monitor'.pc = monitor.pc /\ monitor'.fresh = monitor.fresh
        /\ monitor'.age = Older(monitor.age)
    BY <1>7, <1>a DEF Tick, Monitor
  <2>3. \A w \in Workers : /\ worker'[w].pc = worker[w].pc /\ worker'[w].fresh = worker[w].fresh
                           /\ At(w, "status") => worker'[w].since = Older(worker[w].since)
    BY <1>7, <1>a DEF Tick, Worker, At
  <2>4. object.age \in Ages /\ \A w \in Workers : worker[w].since \in Ages
    BY <1>a DEF Object, Worker
  <2>5. Older(OnlineExpiration) = OnlineExpiration
    BY DEF Older, SessionAssumption
  <2>6. \A a, b \in Ages : a <= b => Older(a) <= Older(b)
    BY DEF Older, Ages, SessionAssumption
  <2>7. (~object.exists => object.status = "none" /\ object.age = OnlineExpiration)'
    BY <2>1, <2>5 DEF FreshIsTrue
  <2>8. (\A w \in Workers : worker[w].fresh => object.exists)'
    BY <2>1, <2>3 DEF FreshIsTrue
  <2>9. (\A w \in Workers : worker[w].fresh /\ At(w, "status") => worker[w].since <= object.age)'
    BY <2>1, <2>3, <2>4, <2>6 DEF FreshIsTrue, At
  <2>10. (/\ monitor.fresh => object.exists /\ object.status = "online"
          /\ monitor.fresh /\ monitor.pc = "check" => monitor.age = object.age
          /\ monitor.fresh /\ monitor.pc = "offline" => object.age = OnlineExpiration)'
    BY <2>1, <2>2, <2>5 DEF FreshIsTrue
  <2>11. QED
    BY <2>7, <2>8, <2>9, <2>10 DEF FreshIsTrue
<1>8. QED
  BY <1>1, <1>2, <1>3, <1>4, <1>5, <1>6, <1>7 DEF CheckClusterStatus

\* The proxy and the faults of its side write no object and hold no copy.
LEMMA FreshElsewhere ==
  ASSUME TypeOK, FreshIsTrue,
         \/ ProxyStart \/ RecvResponse \/ SendHeartbeat
         \/ BreakStream \/ CoreRestart \/ ProxyCrash
  PROVE  FreshIsTrue'
<1>1. CASE CoreRestart
  <2>1. (\A w \in Workers : ~worker'[w].fresh) /\ ~monitor'.fresh /\ object' = object
    BY <1>1 DEF CoreRestart, Idle, Sleeping
  <2>2. QED
    BY <2>1, FreshAfterWrite DEF FreshIsTrue
<1>2. CASE \/ ProxyStart \/ RecvResponse \/ SendHeartbeat \/ BreakStream \/ ProxyCrash
  <2>1. UNCHANGED <<object, worker, monitor>>
    BY <1>2, Zenon DEF ProxyStart, RecvResponse, GetStream, RecvAnswer, RecvError, ClearStream,
                SendHeartbeat, BreakStream, ProxyCrash, core
  <2>2. QED
    BY <2>1 DEF FreshIsTrue, At
<1>3. QED
  BY <1>1, <1>2

LEMMA FreshInit == Init => FreshIsTrue
<1> SUFFICES ASSUME Init PROVE FreshIsTrue
  OBVIOUS
<1>1. (\A w \in Workers : ~worker[w].fresh) /\ ~monitor.fresh
  BY DEF Init, Idle, Sleeping
<1>2. object.status = "none" /\ object.age = OnlineExpiration
  <2>1. CASE object = NoObject
    BY <2>1 DEF NoObject
  <2>2. CASE object = Annotated
    BY <2>2 DEF Annotated, NoObject
  <2>3. QED
    BY <2>1, <2>2 DEF Init
<1>3. QED
  BY <1>1, <1>2 DEF FreshIsTrue

LEMMA FreshStep == TypeOK /\ FreshIsTrue /\ [Next]_vars => FreshIsTrue'
<1> SUFFICES ASSUME TypeOK, FreshIsTrue, [Next]_vars PROVE FreshIsTrue'
  OBVIOUS
<1>1. CASE UNCHANGED vars
  BY <1>1 DEF FreshIsTrue, At, vars, core
<1>2. CASE Next
  BY <1>2, FreshHandle, FreshObject, FreshElsewhere DEF Next
<1>3. QED
  BY <1>1, <1>2

\* A decision taken on a copy that can still be written is a decision taken
\* on the object (heartbeat_handler.go:37-47, monitor.go:38-57).
THEOREM FreshCopies == Spec => []FreshIsTrue
<1>1. Init => FreshIsTrue
  BY FreshInit
<1>2. TypeOK /\ FreshIsTrue /\ [Next]_vars => FreshIsTrue'
  BY FreshStep
<1>3. QED
  BY <1>1, <1>2, TypeCorrect, PTL DEF Spec

-----------------------------------------------------------------------------
(* The status of the object moves as ClusterLiveness allows *)

\* A step that writes nothing to the object, or nothing of what the
\* abstraction sees of it, is a stutter.
LEMMA Stutter ==
  ASSUME object'.exists = object.exists, object'.status = object.status,
         object'.age = object.age
  PROVE  [Promise!Next]_(Promise!vars)
BY DEF Promise!vars

LEMMA StepOfHandler ==
  ASSUME TypeOK, FreshIsTrue, NEW w \in Workers, Handle(w) \/ ApiError(w)
  PROVE  [Promise!Next]_(Promise!vars)
<1>a. object \in Object /\ worker[w] \in Worker
  BY DEF TypeOK
<1>1. CASE UpdateSpec(w)
  <2>1. /\ object'.exists = object.exists /\ object'.status = object.status
        /\ object'.age = object.age
    BY <1>1, <1>a DEF UpdateSpec, Object
  <2>2. QED
    BY <2>1, Stutter
<1>2. CASE CreateCluster(w)
  <2>1. CASE object.exists
    BY <1>2, <2>1, Stutter DEF CreateCluster
  <2>2. CASE ~object.exists
    <3>1. /\ object'.exists = TRUE /\ object'.status = "none"
          /\ object'.age = OnlineExpiration
      BY <1>2, <2>2 DEF CreateCluster, NoObject
    <3>2. Promise!Create
      BY <2>2, <3>1 DEF Promise!Create
    <3>3. QED
      BY <3>2 DEF Promise!Next
  <2>3. QED
    BY <2>1, <2>2
<1>3. CASE UpdateStatus(w)
  <2>1. CASE ~worker[w].fresh
    BY <1>3, <2>1, Stutter DEF UpdateStatus
  <2>2. CASE worker[w].fresh
    <3>1. object.exists /\ worker[w].since <= object.age
      BY <1>3, <2>2 DEF UpdateStatus, FreshIsTrue
    <3>2. PICK age \in 0..worker[w].since :
            object' = [object EXCEPT !.status = "online", !.age = age]
      BY <1>3, <2>2 DEF UpdateStatus
    <3>3. /\ object'.exists = object.exists /\ object'.status = "online"
          /\ object'.age = age
      BY <1>a, <3>2 DEF Object
    <3>4. age \in Ages /\ age <= object.age
      BY <1>a, <3>1 DEF Object, Worker, Ages, SessionAssumption
    <3>5. Promise!Hear(age)
      BY <3>1, <3>3, <3>4 DEF Promise!Hear
    <3>6. QED
      BY <3>4, <3>5 DEF Promise!Next, Promise!Ages, Ages
  <2>3. QED
    BY <2>1, <2>2
<1>4. CASE \/ Establish(w) \/ GetCluster(w) \/ ReportFailure(w) \/ LookupEntry(w)
           \/ InsertEntry(w) \/ Reply(w) \/ ApiError(w)
  <2>1. object' = object
    BY <1>4, Zenon DEF Establish, GetCluster, ReportFailure, LookupEntry, InsertEntry, Reply, ApiError
  <2>2. QED
    BY <2>1, Stutter
<1>5. QED
  BY <1>1, <1>2, <1>3, <1>4 DEF Handle

LEMMA StepOfObject ==
  ASSUME TypeOK, FreshIsTrue,
         CheckClusterStatus \/ InitializeCluster \/ TouchCluster \/ DeleteCluster \/ Tick
  PROVE  [Promise!Next]_(Promise!vars)
<1>a. object \in Object
  BY DEF TypeOK
<1>1. CASE OfflineCluster
  <2>1. CASE ~monitor.fresh
    BY <1>1, <2>1, Stutter DEF OfflineCluster
  <2>2. CASE monitor.fresh
    <3>1. object.exists /\ object.status = "online" /\ object.age = OnlineExpiration
      BY <1>1, <2>2 DEF OfflineCluster, FreshIsTrue
    <3>2. /\ object'.exists = object.exists /\ object'.status = "offline"
          /\ object'.age = object.age
      BY <1>1, <2>2, <1>a DEF OfflineCluster, Object
    <3>3. Promise!Expire
      BY <3>1, <3>2 DEF Promise!Expire
    <3>4. QED
      BY <3>1, <3>3 DEF Promise!Next
  <2>3. QED
    BY <2>1, <2>2
<1>2. CASE InitializeCluster
  <2>1. /\ object'.exists = object.exists /\ object'.status = "initializing"
        /\ object'.age = object.age
    BY <1>2, <1>a DEF InitializeCluster, Object
  <2>2. Promise!Initialize
    BY <1>2, <2>1 DEF InitializeCluster, Promise!Initialize
  <2>3. QED
    BY <2>2 DEF Promise!Next
<1>3. CASE DeleteCluster
  <2>1. object'.exists = FALSE /\ object'.status = "none" /\ object'.age = OnlineExpiration
    BY <1>3 DEF DeleteCluster, NoObject
  <2>2. Promise!Delete
    BY <1>3, <2>1 DEF DeleteCluster, Promise!Delete
  <2>3. QED
    BY <2>2 DEF Promise!Next
<1>4. CASE Tick
  <2>1. /\ object'.exists = object.exists /\ object'.status = object.status
        /\ object'.age = Older(object.age)
    BY <1>4, <1>a DEF Tick, Object
  <2>2. CASE object.age < OnlineExpiration
    <3>1. Promise!Tick
      BY <2>1, <2>2 DEF Promise!Tick, Older
    <3>2. QED
      BY <3>1 DEF Promise!Next
  <2>3. CASE ~(object.age < OnlineExpiration)
    BY <2>1, <2>3, Stutter DEF Older
  <2>4. QED
    BY <2>2, <2>3
<1>5. CASE ListClusters \/ CheckStatus \/ TouchCluster
  <2>1. object' = object
    BY <1>5, Zenon DEF ListClusters, CheckStatus, TouchCluster
  <2>2. QED
    BY <2>1, Stutter
<1>6. QED
  BY <1>1, <1>2, <1>3, <1>4, <1>5 DEF CheckClusterStatus

LEMMA StepElsewhere ==
  ASSUME \/ ProxyStart \/ RecvResponse \/ SendHeartbeat
         \/ BreakStream \/ CoreRestart \/ ProxyCrash
  PROVE  [Promise!Next]_(Promise!vars)
<1>1. object' = object
  BY Zenon DEF ProxyStart, RecvResponse, GetStream, RecvAnswer, RecvError, ClearStream,
               SendHeartbeat, BreakStream, CoreRestart, ProxyCrash, core
<1>2. QED
  BY <1>1, Stutter

LEMMA StepPromised ==
  ASSUME TypeOK, FreshIsTrue, [Next]_vars
  PROVE  [Promise!Next]_(Promise!vars)
<1>1. CASE UNCHANGED vars
  BY <1>1, Stutter DEF vars, core
<1>2. CASE Next
  BY <1>2, StepOfHandler, StepOfObject, StepElsewhere DEF Next
<1>3. QED
  BY <1>1, <1>2

\* The control plane keeps its promise about a cluster, whatever its
\* goroutines interleave: what is stored of the heartbeats never goes back in
\* time, and only a silent cluster goes offline (heartbeat_handler.go:59-91,
\* monitor.go:37-65).
THEOREM Refinement == Spec => ImplementsLiveness
<1>1. Init => Promise!Init
  <2>1. NoObject.exists \in BOOLEAN /\ NoObject.status = "none" /\ NoObject.age = OnlineExpiration
    BY DEF NoObject
  <2>2. /\ Annotated.exists \in BOOLEAN /\ Annotated.status = "none"
        /\ Annotated.age = OnlineExpiration
    BY DEF Annotated, NoObject
  <2>3. QED
    BY <2>1, <2>2 DEF Init, Promise!Init
<1>2. TypeOK /\ FreshIsTrue /\ [Next]_vars => [Promise!Next]_(Promise!vars)
  BY StepPromised
<1>3. QED
  BY <1>1, <1>2, TypeCorrect, FreshCopies, PTL DEF Spec, ImplementsLiveness, Promise!Spec

-----------------------------------------------------------------------------
(* The two ends of a stream *)

\* ReaderHoldsStream, and what makes it inductive: a proxy that is down
\* neither reads nor beats.
ReaderInv ==
  /\ ReaderHoldsStream
  /\ ~up => reader.pc = "off" /\ ~beating

LEMMA ReaderStep == ReaderInv /\ [Next]_vars => ReaderInv'
<1> SUFFICES ASSUME ReaderInv, [Next]_vars PROVE ReaderInv'
  OBVIOUS
<1> USE DEF ReaderInv, ReaderHoldsStream
<1>1. CASE UNCHANGED proxy
  BY <1>1 DEF proxy
<1>2. CASE ProxyStart
  BY <1>2 DEF ProxyStart, NotReading
<1>3. CASE GetStream
  <2>1. UNCHANGED <<up, beating>> /\ up
    BY <1>3 DEF GetStream
  <2>2. CASE \E s \in Forgotten : Dial(s, {}) /\ reader' = [pc |-> "recv", on |-> s]
    BY <2>1, <2>2 DEF Dial
  <2>3. CASE /\ initialized /\ reader' = [pc |-> "recv", on |-> stream]
             /\ UNCHANGED <<initialized, stream>>
    BY <2>1, <2>3
  <2>4. CASE reader' = NotReading("clear")
    BY <2>1, <2>4 DEF NotReading
  <2>5. QED
    BY <1>3, <2>2, <2>3, <2>4, Zenon DEF GetStream
<1>4. CASE RecvAnswer \/ RecvError \/ ClearStream
  BY <1>4 DEF RecvAnswer, RecvError, ClearStream, NotReading
<1>5. CASE SendHeartbeat
  BY <1>5 DEF SendHeartbeat, Dial
<1>6. CASE ProxyCrash
  BY <1>6 DEF ProxyCrash, NotReading
<1>7. CASE BreakStream \/ CoreRestart
  BY <1>1, <1>7, Zenon DEF BreakStream, CoreRestart
<1>8. CASE CheckClusterStatus \/ InitializeCluster \/ TouchCluster \/ DeleteCluster \/ Tick
  BY <1>1, <1>8, Zenon DEF CheckClusterStatus, ListClusters, CheckStatus, OfflineCluster,
                           InitializeCluster, TouchCluster, DeleteCluster, Tick
<1>9. CASE \E w \in Workers : Handle(w) \/ ApiError(w)
  BY <1>1, <1>9, Zenon DEF Handle, Establish, GetCluster, UpdateSpec, CreateCluster, UpdateStatus,
                           ReportFailure, LookupEntry, InsertEntry, Reply, ApiError
<1>10. QED
  BY <1>1, <1>2, <1>3, <1>4, <1>5, <1>6, <1>7, <1>8, <1>9, Zenon DEF Next, RecvResponse, vars

\* Answers are looked for where requests are put (stream.go:20-50,
\* response_handler.go:28-43).
THEOREM ReaderCorrect == Spec => []ReaderHoldsStream
<1>1. Init => ReaderInv
  BY DEF Init, ReaderInv, ReaderHoldsStream, NotReading
<1>2. ReaderInv /\ [Next]_vars => ReaderInv'
  BY ReaderStep
<1>3. ReaderInv => ReaderHoldsStream
  BY DEF ReaderInv
<1>4. QED
  BY <1>1, <1>2, <1>3, PTL DEF Spec

-----------------------------------------------------------------------------
(* The stream table *)

\* SuccessMeansListed, and what makes it inductive: a goroutine at work has a
\* stream to insert, and one about to report success has seen it inserted.
TableSet == {"RegisterSuccess", "HeartbeatSuccess"}

ListedInv ==
  /\ \A s \in Streams : answers[s] \cap TableSet # {} => table # None
  /\ \A w \in Workers : /\ worker[w].pc # "idle" => worker[w].on \in Streams
                        /\ worker[w].pc = "insert" /\ worker[w].keep => table # None
                        /\ worker[w].pc = "reply" => table # None

\* A step that leaves the table and the answers to the proxy alone, and after
\* which a goroutine is neither about to insert nor to report success.
LEMMA ListedWorker ==
  ASSUME TypeOK, ListedInv, NEW w \in Workers,
         table' = table, answers' = answers,
         \A v \in Workers \ {w} : /\ worker'[v].pc = worker[v].pc /\ worker'[v].on = worker[v].on
                                  /\ worker'[v].keep = worker[v].keep,
         worker'[w].on \in Streams,
         worker'[w].pc \notin {"insert", "reply"}
  PROVE  ListedInv'
BY DEF ListedInv

LEMMA ListedHandle ==
  ASSUME TypeOK, ListedInv, NEW w \in Workers, Handle(w) \/ ApiError(w)
  PROVE  ListedInv'
<1>a. worker \in [Workers -> Worker] /\ worker[w] \in Worker
  BY DEF TypeOK
<1>b. answers \in [Streams -> SUBSET AnswerKinds] /\ open \subseteq Streams
  BY DEF TypeOK
<1>c. ASSUME NEW p, Goto(w, p)
      PROVE  /\ \A v \in Workers \ {w} : worker'[v] = worker[v]
             /\ worker'[w].pc = p /\ worker'[w].on = worker[w].on
  BY <1>a, <1>c DEF Goto, Worker
<1>d. \A v \in Workers : /\ Stale(worker)[v].pc = worker[v].pc
                         /\ Stale(worker)[v].on = worker[v].on
                         /\ Stale(worker)[v].keep = worker[v].keep
  BY <1>a DEF Stale, Worker
<1>e. Stale(worker) \in [Workers -> Worker]
  BY <1>a, StaleType DEF TypeOK
<1>1. CASE Establish(w)
  <2>1. PICK s \in open, kind \in RequestKinds :
          worker' = [worker EXCEPT ![w] = [Idle EXCEPT !.pc = "get", !.kind = kind, !.on = s]]
    BY <1>1 DEF Establish
  <2>2. worker'[w].on \in Streams /\ worker'[w].pc = "get"
    BY <2>1, <1>a, <1>b DEF Idle
  <2>3. \A v \in Workers \ {w} : worker'[v] = worker[v]
    BY <2>1, <1>a
  <2>4. QED
    BY <1>1, <2>2, <2>3, ListedWorker DEF Establish
<1>2. CASE GetCluster(w)
  <2>1. PICK p \in {"spec", "status", "create", "failed"} :
          worker' = [worker EXCEPT ![w].pc = p, ![w].fresh = object.exists, ![w].since = 0]
    BY <1>2 DEF GetCluster
  <2>2. worker'[w].pc = p /\ worker'[w].on = worker[w].on
    BY <2>1, <1>a DEF Worker
  <2>3. \A v \in Workers \ {w} : worker'[v] = worker[v]
    BY <2>1, <1>a
  <2>4. worker[w].on \in Streams
    BY <1>2 DEF GetCluster, ListedInv, At
  <2>5. QED
    BY <1>2, <2>2, <2>3, <2>4, ListedWorker DEF GetCluster, net
<1>3. CASE UpdateSpec(w)
  <2>1. worker[w].on \in Streams
    BY <1>3 DEF UpdateSpec, ListedInv, At
  <2>2. /\ \A v \in Workers \ {w} : /\ worker'[v].pc = worker[v].pc /\ worker'[v].on = worker[v].on
                                    /\ worker'[v].keep = worker[v].keep
        /\ worker'[w].pc \in {"status", "failed"} /\ worker'[w].on = worker[w].on
    <3>1. CASE Goto(w, "failed")
      BY <1>c, <3>1
    <3>2. CASE worker' = [worker EXCEPT ![w].pc = "status", ![w].fresh = TRUE, ![w].since = 0]
      BY <1>a, <3>2 DEF Worker
    <3>3. CASE worker' = [Stale(worker) EXCEPT ![w].pc = "status", ![w].fresh = TRUE, ![w].since = 0]
      BY <1>d, <1>e, <3>3 DEF Worker
    <3>4. QED
      BY <1>3, <3>1, <3>2, <3>3, Zenon DEF UpdateSpec
  <2>3. QED
    BY <1>3, <2>1, <2>2, ListedWorker DEF UpdateSpec, net
<1>4. CASE CreateCluster(w)
  <2>1. worker[w].on \in Streams
    BY <1>4 DEF CreateCluster, ListedInv, At
  <2>2. Goto(w, "lookup") \/ Goto(w, "failed")
    BY <1>4, Zenon DEF CreateCluster
  <2>3. QED
    BY <1>4, <1>c, <2>1, <2>2, ListedWorker DEF CreateCluster, net
<1>5. CASE UpdateStatus(w)
  <2>1. worker[w].on \in Streams
    BY <1>5 DEF UpdateStatus, ListedInv, At
  <2>2. /\ \A v \in Workers \ {w} : /\ worker'[v].pc = worker[v].pc /\ worker'[v].on = worker[v].on
                                    /\ worker'[v].keep = worker[v].keep
        /\ worker'[w].pc \in {"lookup", "failed"} /\ worker'[w].on = worker[w].on
    <3>1. CASE Goto(w, "failed")
      BY <1>c, <3>1
    <3>2. CASE worker' = [Stale(worker) EXCEPT ![w].pc = "lookup", ![w].since = 0]
      BY <1>d, <1>e, <3>2 DEF Worker
    <3>3. QED
      BY <1>5, <3>1, <3>2, Zenon DEF UpdateStatus
  <2>3. QED
    BY <1>5, <2>1, <2>2, ListedWorker DEF UpdateStatus, net
<1>6. CASE ReportFailure(w)
  <2>1. /\ worker[w].on \in Streams /\ table' = table
        /\ \A v \in Workers \ {w} : worker'[v] = worker[v]
        /\ worker'[w].pc = "lookup" /\ worker'[w].on = worker[w].on
    BY <1>6, <1>c DEF ReportFailure, ListedInv, At
  <2>2. \A s \in Streams : answers'[s] \cap TableSet = answers[s] \cap TableSet
    BY <1>6, <1>b DEF ReportFailure, Answer, TableSet
  <2>3. QED
    BY <2>1, <2>2 DEF ListedInv
<1>7. CASE LookupEntry(w)
  <2>1. /\ \A v \in Workers \ {w} : worker'[v] = worker[v]
        /\ worker'[w].pc = "insert" /\ worker'[w].on = worker[w].on
        /\ worker'[w].keep => table # None
    BY <1>7, <1>a DEF LookupEntry, Worker
  <2>2. QED
    BY <1>7, <2>1 DEF LookupEntry, net, ListedInv, At
<1>8. CASE InsertEntry(w)
  <2>1. /\ \A v \in Workers \ {w} : worker'[v] = worker[v]
        /\ worker'[w].pc = "reply" /\ worker'[w].on = worker[w].on
    BY <1>8, <1>a DEF InsertEntry, Worker
  <2>2. table' # None
    BY <1>8 DEF InsertEntry, ListedInv, At, SessionAssumption
  <2>3. QED
    BY <1>8, <2>1, <2>2 DEF InsertEntry, net, ListedInv, At
<1>9. CASE Reply(w)
  <2>1. table' = table /\ table # None
    BY <1>9 DEF Reply, ListedInv, At
  <2>2. worker'[w] = Idle /\ \A v \in Workers \ {w} : worker'[v] = worker[v]
    BY <1>9, <1>a DEF Reply
  <2>3. QED
    BY <2>1, <2>2 DEF ListedInv, Idle
<1>10. CASE ApiError(w)
  <2>1. worker[w].on \in Streams
    BY <1>10 DEF ApiError, ListedInv
  <2>2. QED
    BY <1>10, <1>c, <2>1, ListedWorker DEF ApiError, net
<1>11. QED
  BY <1>1, <1>2, <1>3, <1>4, <1>5, <1>6, <1>7, <1>8, <1>9, <1>10 DEF Handle

\* A step that only takes answers to the proxy away.
LEMMA ListedElsewhere ==
  ASSUME TypeOK, ListedInv, table' = table,
         \A s \in Streams : answers'[s] \cap TableSet \subseteq answers[s] \cap TableSet,
         \A v \in Workers : /\ worker'[v].pc = worker[v].pc /\ worker'[v].on = worker[v].on
                            /\ worker'[v].keep = worker[v].keep
  PROVE  ListedInv'
BY DEF ListedInv

LEMMA ListedStep == TypeOK /\ ListedInv /\ [Next]_vars => ListedInv'
<1> SUFFICES ASSUME TypeOK, ListedInv, [Next]_vars PROVE ListedInv'
  OBVIOUS
<1>a. worker \in [Workers -> Worker] /\ answers \in [Streams -> SUBSET AnswerKinds]
  BY DEF TypeOK
<1>b. \A v \in Workers : /\ Stale(worker)[v].pc = worker[v].pc
                         /\ Stale(worker)[v].on = worker[v].on
                         /\ Stale(worker)[v].keep = worker[v].keep
  BY <1>a DEF Stale, Worker
<1>1. CASE UNCHANGED vars
  BY <1>1, ListedElsewhere DEF vars, core, net
<1>2. CASE \E w \in Workers : Handle(w) \/ ApiError(w)
  BY <1>2, ListedHandle
<1>3. CASE CheckClusterStatus \/ InitializeCluster \/ TouchCluster \/ DeleteCluster
  <2>1. /\ UNCHANGED <<table, answers>>
        /\ worker' = worker \/ worker' = Stale(worker)
    BY <1>3, Zenon DEF CheckClusterStatus, ListClusters, CheckStatus, OfflineCluster,
                InitializeCluster, TouchCluster, DeleteCluster, net
  <2>2. QED
    BY <1>b, <2>1, ListedElsewhere
<1>4. CASE Tick
  <2>1. \A v \in Workers : /\ worker'[v].pc = worker[v].pc /\ worker'[v].on = worker[v].on
                           /\ worker'[v].keep = worker[v].keep
    BY <1>4, <1>a DEF Tick, Worker
  <2>2. QED
    BY <1>4, <2>1, ListedElsewhere DEF Tick, net
<1>5. CASE ProxyStart \/ RecvResponse \/ SendHeartbeat
  <2>1. UNCHANGED <<table, worker>>
    BY <1>5, Zenon DEF ProxyStart, RecvResponse, GetStream, RecvAnswer, RecvError, ClearStream,
                SendHeartbeat, core
  <2>2. CASE answers' = answers
    BY <2>1, <2>2, ListedElsewhere
  <2>3. CASE \E s \in Forgotten, first \in SUBSET RequestKinds : Dial(s, first)
    BY <2>1, <2>3, <1>a, ListedElsewhere DEF Dial
  <2>4. CASE RecvAnswer
    BY <2>1, <2>4, <1>a, ListedElsewhere DEF RecvAnswer
  <2>5. {"Register"} \in SUBSET RequestKinds /\ {"Heartbeat"} \in SUBSET RequestKinds
        /\ {} \in SUBSET RequestKinds
    BY DEF RequestKinds
  <2>6. QED
    BY <1>5, <2>2, <2>3, <2>4, <2>5, Zenon DEF ProxyStart, RecvResponse, GetStream, RecvError,
                ClearStream, SendHeartbeat, net
<1>6. CASE BreakStream \/ ProxyCrash
  <2>1. UNCHANGED <<table, worker>>
    BY <1>6, Zenon DEF BreakStream, ProxyCrash, core
  <2>2. \A s \in Streams : answers'[s] \subseteq answers[s]
    BY <1>6, <1>a DEF BreakStream, ProxyCrash, Drop
  <2>3. QED
    BY <2>1, <2>2, ListedElsewhere
<1>7. CASE CoreRestart
  <2>1. \A s \in Streams : answers'[s] = {}
    BY <1>7 DEF CoreRestart, Drop
  <2>2. QED
    BY <1>7, <2>1 DEF CoreRestart, ListedInv, Idle
<1>8. QED
  BY <1>1, <1>2, <1>3, <1>4, <1>5, <1>6, <1>7 DEF Next

\* Success is reported to a proxy only while the table has an entry to send
\* to it by (table.go:37-49, register_handler.go:50-59).
THEOREM ListedCorrect == Spec => []SuccessMeansListed
<1>1. Init => ListedInv
  BY DEF Init, ListedInv, Idle
<1>2. TypeOK /\ ListedInv /\ [Next]_vars => ListedInv'
  BY ListedStep
<1>3. TypeOK /\ ListedInv => SuccessMeansListed
  BY DEF TypeOK, ListedInv, SuccessMeansListed, TableSet
<1>4. QED
  BY <1>1, <1>2, <1>3, TypeCorrect, PTL DEF Spec
===============================================================================
