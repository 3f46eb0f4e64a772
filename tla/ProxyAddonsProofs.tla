--------------------------- MODULE ProxyAddonsProofs ---------------------------
(***************************************************************************)
(* Proofs about ProxyAddons, for every finite set of plugins and every     *)
(* number of calls: a call returns its own answers.                        *)
(*                                                                         *)
(* The watcher counts the entries of the map and never looks at them.      *)
(* That the count of the plugins means one answer of each rests on the     *)
(* entries being the call's own, which a goroutine of it adds once.        *)
(***************************************************************************)
EXTENDS ProxyAddons, FiniteSetTheorems, TLAPS

USE AddonsAssumption DEF AddonsAssumption, Rounds

-----------------------------------------------------------------------------
(* The inductive invariant *)

Done(r) == {p \in Plugins : collector[r][p] = "done"}

\* The entries of a map are answers to its own call, brought by goroutines that
\* have ended.
OwnEntries == \A r \in Rounds : manager[r] \subseteq {r} \X Done(r)

\* A goroutine that has its plugin's answer has one.
Heard ==
  \A r \in Rounds, p \in Plugins :
    collector[r][p] \in {"check", "store", "done"} => answer[r][p] \in {"found", "nil"}

\* A call that stops before its deadline has an entry for each plugin.
Complete(r) == manager[r] = {r} \X Plugins
Stopping ==
  \A r \in Rounds :
    stop[r] = 1 \/ (r = round /\ main = "list") => ctx[r] # "none" \/ Complete(r)

\* The calls to come have not begun.
NotBegun ==
  \A r \in Rounds :
    r > round => /\ manager[r] = {} /\ stop[r] = 0 /\ watcher[r] = "none"
                 /\ \A p \in Plugins : collector[r][p] = "none"

\* There is a call while LoadAddon runs.
Running == main # "idle" => round \in Rounds

IInv == TypeOK /\ OwnEntries /\ Heard /\ Stopping /\ NotBegun /\ Running

-----------------------------------------------------------------------------
(* Lemmas *)

\* As many own entries as plugins are one entry for each plugin.
LEMMA AllCounted ==
  ASSUME NEW r \in Rounds, NEW m \in SUBSET ({r} \X Plugins),
         Cardinality(m) = Cardinality(Plugins)
  PROVE  m = {r} \X Plugins
<1>1. IsFiniteSet(Plugins) /\ Cardinality(Plugins) \in Nat
  BY FS_CardinalityType
<1>2. IsFiniteSet({r}) /\ Cardinality({r}) = 1
  BY FS_Singleton
<1>3. /\ IsFiniteSet({r} \X Plugins)
      /\ Cardinality({r} \X Plugins) = Cardinality({r}) * Cardinality(Plugins)
  BY <1>1, <1>2, FS_Product
<1>4. Cardinality({r} \X Plugins) = Cardinality(m)
  BY <1>1, <1>2, <1>3
<1> QED
  BY <1>3, <1>4, FS_Subset

-----------------------------------------------------------------------------
(* Type correctness *)

LEMMA TypeInit == Init => TypeOK
<1> SUFFICES ASSUME Init PROVE TypeOK
  OBVIOUS
<1>1. (CHOOSE c \in Configs : TRUE) \in [Plugins -> Names]
  OBVIOUS
<1>2. name \in [Rounds -> [Plugins -> Names]]
  BY <1>1 DEF Init
<1>3. round \in 0..MaxRounds /\ main \in {"idle", "select", "list"} /\ result \subseteq Rounds \X Plugins
  BY DEF Init
<1>4. /\ collector \in [Rounds -> [Plugins -> {"none", "running", "check", "store", "done"}]]
      /\ answer \in [Rounds -> [Plugins -> {"none", "found", "nil"}]]
  BY DEF Init
<1>5. /\ manager \in [Rounds -> SUBSET (Rounds \X Plugins)]
      /\ ctx \in [Rounds -> {"none", "exceeded", "canceled"}]
      /\ watcher \in [Rounds -> {"none", "deadline", "length"}]
      /\ stop \in [Rounds -> 0..1]
  BY DEF Init
<1> QED
  BY <1>2, <1>3, <1>4, <1>5 DEF TypeOK

\* A call of LoadAddon, from its start to its return.
LEMMA TypeCall == TypeOK /\ Running /\ (StartRound \/ Stop \/ Return) => TypeOK'
<1> SUFFICES ASSUME TypeOK, Running, StartRound \/ Stop \/ Return PROVE TypeOK'
  OBVIOUS
<1>1. CASE StartRound
  <2>1. round + 1 \in Rounds /\ round' \in 0..MaxRounds
    BY <1>1 DEF StartRound, TypeOK
  <2>2. name' \in [Rounds -> [Plugins -> Names]]
    BY <1>1, <2>1 DEF StartRound, TypeOK
  <2>3. /\ collector' \in [Rounds -> [Plugins -> {"none", "running", "check", "store", "done"}]]
        /\ watcher' \in [Rounds -> {"none", "deadline", "length"}]
    BY <1>1, <2>1 DEF StartRound, TypeOK
  <2>4. main' = "select" /\ result' = {} /\ UNCHANGED <<answer, manager, ctx, stop>>
    BY <1>1 DEF StartRound
  <2> QED
    BY <2>1, <2>2, <2>3, <2>4 DEF TypeOK
<1>2. CASE Stop
  <2>1. stop' = [stop EXCEPT ![round] = 0] /\ main' = "list"
    BY <1>2 DEF Stop
  <2>2. UNCHANGED <<round, name, collector, answer, manager, ctx, watcher, result>>
    BY <1>2 DEF Stop
  <2>3. round \in Rounds /\ stop \in [Rounds -> 0..1] /\ 0 \in 0..1
    BY <1>2 DEF Stop, Running, TypeOK
  <2>4. stop' \in [Rounds -> 0..1]
    BY <2>1, <2>3, Zenon
  <2> QED
    BY <2>1, <2>2, <2>4 DEF TypeOK
<1>3. CASE Return
  <2>1. round \in Rounds
    BY <1>3 DEF Return, Running
  <2>2. manager[round] \subseteq Rounds \X Plugins
    BY <2>1 DEF TypeOK
  <2>3. result' \subseteq Rounds \X Plugins
    BY <1>3, <2>2 DEF Return, AddonList
  <2>4. ctx' \in [Rounds -> {"none", "exceeded", "canceled"}]
    BY <1>3 DEF Return, TypeOK
  <2> QED
    BY <1>3, <2>3, <2>4 DEF Return, TypeOK
<1> QED
  BY <1>1, <1>2, <1>3

\* The goroutines of a call and its context.
LEMMA TypeGoroutine ==
  ASSUME TypeOK, NEW r \in Rounds,
         Deadline(r) \/ Watch(r) \/ \E p \in Plugins : Collect(r, p)
  PROVE  TypeOK'
<1>1. CASE Deadline(r)
  BY <1>1 DEF Deadline, TypeOK
<1>2. CASE Watch(r)
  <2>1. stop' \in [Rounds -> 0..1]
    <3>1. stop' = stop \/ stop' = [stop EXCEPT ![r] = 1]
      BY <1>2 DEF Watch, WatchDeadline, WatchLength, Send
    <3> QED
      BY <3>1 DEF TypeOK
  <2>2. watcher' \in [Rounds -> {"none", "deadline", "length"}]
    BY <1>2 DEF Watch, WatchDeadline, WatchLength, TypeOK
  <2>3. UNCHANGED <<round, main, name, collector, answer, manager, ctx, result>>
    BY <1>2 DEF Watch, WatchDeadline, WatchLength
  <2> QED
    BY <2>1, <2>2, <2>3 DEF TypeOK
<1>3. ASSUME NEW p \in Plugins, Answer(r, p) PROVE TypeOK'
  BY <1>3 DEF Answer, TypeOK
<1>4. ASSUME NEW p \in Plugins, CheckName(r, p) PROVE TypeOK'
  BY <1>4 DEF CheckName, TypeOK
<1>5. ASSUME NEW p \in Plugins, Store(r, p) PROVE TypeOK'
  <2>1. manager' \in [Rounds -> SUBSET (Rounds \X Plugins)]
    BY <1>5 DEF Store, TypeOK
  <2>2. collector' \in [Rounds -> [Plugins -> {"none", "running", "check", "store", "done"}]]
    BY <1>5 DEF Store, TypeOK
  <2> QED
    BY <1>5, <2>1, <2>2 DEF Store, TypeOK
<1> QED
  BY <1>1, <1>2, <1>3, <1>4, <1>5 DEF Collect

LEMMA TypeNext == TypeOK /\ Running /\ [Next]_vars => TypeOK'
<1> SUFFICES ASSUME TypeOK, Running, [Next]_vars PROVE TypeOK'
  OBVIOUS
<1>1. CASE StartRound \/ Stop \/ Return
  BY <1>1, TypeCall
<1>2. CASE \E r \in Rounds : Deadline(r) \/ Watch(r)
  BY <1>2, TypeGoroutine
<1>3. CASE \E r \in Rounds, p \in Plugins : Collect(r, p)
  BY <1>3, TypeGoroutine
<1>4. CASE UNCHANGED vars
  BY <1>4 DEF vars, TypeOK
<1> QED
  BY <1>1, <1>2, <1>3, <1>4 DEF Next

-----------------------------------------------------------------------------
(* The invariant *)

LEMMA InvInit == Init => IInv
<1> SUFFICES ASSUME Init PROVE IInv
  OBVIOUS
<1>1. TypeOK
  BY TypeInit
<1>2. OwnEntries /\ NotBegun
  BY DEF Init, OwnEntries, NotBegun
<1>3. Heard
  BY DEF Init, Heard
<1>4. Stopping /\ Running
  BY DEF Init, Stopping, Running
<1> QED
  BY <1>1, <1>2, <1>3, <1>4 DEF IInv

LEMMA InvStartRound == IInv /\ StartRound => OwnEntries' /\ Heard' /\ Stopping' /\ NotBegun' /\ Running'
<1> SUFFICES ASSUME IInv, StartRound
             PROVE  OwnEntries' /\ Heard' /\ Stopping' /\ NotBegun' /\ Running'
  OBVIOUS
<1> USE DEF IInv, TypeOK
<1>1. round' = round + 1 /\ round + 1 \in Rounds /\ round' \in Rounds
  BY DEF StartRound
<1>2. /\ manager' = manager /\ answer' = answer /\ ctx' = ctx /\ stop' = stop
      /\ manager[round'] = {} /\ stop[round'] = 0
  BY <1>1 DEF StartRound, NotBegun
<1>3. /\ \A r \in Rounds \ {round'} : collector'[r] = collector[r]
      /\ \A p \in Plugins : collector'[round'][p] = "running"
  BY <1>1 DEF StartRound
<1>4. OwnEntries'
  BY <1>2, <1>3 DEF OwnEntries, Done
<1>5. Heard'
  BY <1>2, <1>3 DEF Heard
<1>6. Stopping'
  <2>1. main' = "select"
    BY DEF StartRound
  <2> QED
    BY <1>2, <2>1 DEF Stopping, Complete
<1>7. NotBegun'
  <2>1. \A r \in Rounds \ {round'} : watcher'[r] = watcher[r]
    BY <1>1 DEF StartRound
  <2> QED
    BY <1>1, <1>2, <1>3, <2>1 DEF NotBegun
<1>8. Running'
  BY <1>1 DEF Running
<1> QED
  BY <1>4, <1>5, <1>6, <1>7, <1>8

LEMMA InvReturn == IInv /\ (Stop \/ Return) => OwnEntries' /\ Heard' /\ Stopping' /\ NotBegun' /\ Running'
<1> SUFFICES ASSUME IInv, Stop \/ Return
             PROVE  OwnEntries' /\ Heard' /\ Stopping' /\ NotBegun' /\ Running'
  OBVIOUS
<1> USE DEF IInv, TypeOK
<1>1. UNCHANGED <<round, collector, answer, manager>> /\ round \in Rounds
  BY DEF Stop, Return, Running
<1>2. OwnEntries'
  BY <1>1 DEF OwnEntries, Done
<1>3. Heard'
  BY <1>1 DEF Heard
<1>4. NotBegun'
  BY <1>1 DEF NotBegun, Stop, Return
<1>5. Running'
  BY <1>1 DEF Running
<1>6. Stopping'
  <2>1. CASE Stop
    BY <1>1, <2>1 DEF Stop, Stopping, Complete
  <2>2. CASE Return
    BY <1>1, <2>2 DEF Return, Stopping, Complete
  <2> QED
    BY <2>1, <2>2
<1> QED
  BY <1>2, <1>3, <1>4, <1>5, <1>6

\* The watcher: it stops a call that is complete, or whose deadline has passed.
LEMMA InvWatch ==
  ASSUME IInv, NEW r \in Rounds, Deadline(r) \/ Watch(r)
  PROVE  OwnEntries' /\ Heard' /\ Stopping' /\ NotBegun' /\ Running'
<1> USE DEF IInv, TypeOK
<1>1. UNCHANGED <<round, main, collector, answer, manager>>
  BY DEF Deadline, Watch, WatchDeadline, WatchLength
<1>2. OwnEntries' /\ Heard' /\ Running'
  BY <1>1 DEF OwnEntries, Heard, Running, Done
<1>3. CASE Deadline(r)
  <2>1. UNCHANGED <<stop, watcher>> /\ \A s \in Rounds : ctx[s] # "none" => ctx'[s] # "none"
    BY <1>3 DEF Deadline
  <2> QED
    BY <1>1, <1>2, <2>1 DEF Stopping, Complete, NotBegun
<1>4. CASE Watch(r)
  <2>1. /\ ctx' = ctx
        /\ \/ stop' = stop
           \/ /\ stop' = [stop EXCEPT ![r] = 1]
              /\ ctx[r] = "exceeded" \/ Length(r) = Cardinality(Plugins)
    BY <1>4 DEF Watch, WatchDeadline, WatchLength, Send
  <2>2. ASSUME Length(r) = Cardinality(Plugins) PROVE Complete(r)
    <3>1. manager[r] \in SUBSET ({r} \X Plugins)
      BY DEF OwnEntries, Done
    <3> QED
      BY <2>2, <3>1, AllCounted DEF Length, Complete
  <2>3. Stopping'
    BY <1>1, <2>1, <2>2 DEF Stopping, Complete
  <2>4. watcher[r] # "none" /\ \A s \in Rounds \ {r} : watcher'[s] = watcher[s]
    BY <1>4 DEF Watch, WatchDeadline, WatchLength
  <2>5. NotBegun'
    BY <1>1, <2>1, <2>4 DEF NotBegun
  <2> QED
    BY <1>2, <2>3, <2>5
<1> QED
  BY <1>3, <1>4

\* The goroutine that waits for plugin p adds an entry once.
LEMMA InvCollect ==
  ASSUME IInv, NEW r \in Rounds, NEW p \in Plugins, Collect(r, p)
  PROVE  OwnEntries' /\ Heard' /\ Stopping' /\ NotBegun' /\ Running'
<1> USE DEF IInv, TypeOK
<1>1. UNCHANGED <<round, main, ctx, stop, watcher>> /\ collector[r][p] # "done"
  BY DEF Collect, Answer, CheckName, Store
<1>2. \A s \in Rounds : Done(s) \subseteq Done(s)'
  BY <1>1 DEF Collect, Answer, CheckName, Store, Done
<1>3. ~Complete(r)
  <2>1. <<r, p>> \in {r} \X Plugins /\ <<r, p>> \notin {r} \X Done(r)
    BY <1>1 DEF Done
  <2>2. manager[r] \subseteq {r} \X Done(r)
    BY DEF OwnEntries
  <2> QED
    BY <2>1, <2>2 DEF Complete
<1>4. \A s \in Rounds \ {r} : manager'[s] = manager[s]
  BY DEF Collect, Answer, CheckName, Store
<1>5. Stopping' /\ Running'
  BY <1>1, <1>3, <1>4 DEF Stopping, Running, Complete
<1>6. Heard'
  <2>1. CASE Answer(r, p)
    BY <2>1 DEF Answer, Heard
  <2>2. CASE CheckName(r, p) \/ Store(r, p)
    BY <2>2 DEF CheckName, Store, Heard
  <2> QED
    BY <2>1, <2>2 DEF Collect
<1>7. CASE Answer(r, p) \/ CheckName(r, p)
  <2>1. manager' = manager /\ \A s \in Rounds \ {r} : collector'[s] = collector[s]
    BY <1>7 DEF Answer, CheckName
  <2>2. ~(r > round)
    BY <1>7 DEF Answer, CheckName, NotBegun
  <2>3. OwnEntries'
    BY <1>2, <2>1 DEF OwnEntries
  <2>4. NotBegun'
    BY <1>1, <2>1, <2>2 DEF NotBegun
  <2> QED
    BY <1>5, <1>6, <2>3, <2>4
<1>8. CASE Store(r, p)
  <2>1. manager'[r] \subseteq manager[r] \cup {<<r, p>>} /\ p \in Done(r)'
    BY <1>8 DEF Store, Done
  <2>2. ASSUME NEW s \in Rounds PROVE manager'[s] \subseteq {s} \X Done(s)'
    <3>1. manager[s] \subseteq {s} \X Done(s)
      BY DEF OwnEntries
    <3>2. manager[s] \subseteq {s} \X Done(s)'
      BY <1>2, <3>1
    <3>3. CASE s # r
      BY <1>4, <3>2, <3>3
    <3>4. CASE s = r
      BY <2>1, <3>2, <3>4
    <3> QED
      BY <3>3, <3>4
  <2>3. ~(r > round)
    BY <1>8 DEF Store, NotBegun
  <2>4. NotBegun'
    <3>1. \A s \in Rounds \ {r} : collector'[s] = collector[s]
      BY <1>8 DEF Store
    <3> QED
      BY <1>1, <1>4, <2>3, <3>1 DEF NotBegun
  <2>5. OwnEntries'
    BY <2>2 DEF OwnEntries
  <2> QED
    BY <1>5, <1>6, <2>4, <2>5
<1> QED
  BY <1>7, <1>8 DEF Collect

LEMMA InvNext == IInv /\ [Next]_vars => IInv'
<1> SUFFICES ASSUME IInv, [Next]_vars PROVE IInv'
  OBVIOUS
<1>1. TypeOK'
  BY TypeNext DEF IInv
<1>2. CASE StartRound
  BY <1>1, <1>2, InvStartRound DEF IInv
<1>3. CASE Stop \/ Return
  BY <1>1, <1>3, InvReturn DEF IInv
<1>4. CASE \E r \in Rounds : Deadline(r) \/ Watch(r)
  BY <1>1, <1>4, InvWatch DEF IInv
<1>5. CASE \E r \in Rounds, p \in Plugins : Collect(r, p)
  BY <1>1, <1>5, InvCollect DEF IInv
<1>6. CASE UNCHANGED vars
  BY <1>6 DEF vars, IInv, TypeOK, OwnEntries, Done, Heard, Stopping, Complete, NotBegun, Running
<1> QED
  BY <1>2, <1>3, <1>4, <1>5, <1>6 DEF Next

-----------------------------------------------------------------------------
(* Theorems *)

\* The invariant holds for any finite set of plugins and any number of calls:
\* a watcher that has counted all answers has seen one of each plugin of its
\* call, and none of another (getAddonsInfo).
THEOREM Invariance == Spec => []IInv
BY InvInit, InvNext, PTL DEF Spec

\* The variables keep their types.
THEOREM TypeCorrect == Spec => []TypeOK
<1>1. IInv => TypeOK
  BY DEF IInv
<1> QED
  BY <1>1, Invariance, PTL

LEMMA OwnStep ==
  ASSUME IInv, Return
  PROVE  /\ result' \subseteq {round} \X Found(round)
         /\ ctx[round] = "none" => /\ \A p \in Plugins : answer[round][p] # "none"
                                   /\ result' = {round} \X Found(round)
<1>1. round \in Rounds /\ result' = {e \in manager[round] : e[2] \in Found(e[1])}
  BY DEF Return, IInv, Running, AddonList
<1>2. manager[round] \subseteq {round} \X Plugins
  BY <1>1 DEF IInv, OwnEntries, Done
<1>3. result' \subseteq {round} \X Found(round)
  BY <1>1, <1>2
<1>4. ASSUME ctx[round] = "none"
      PROVE  /\ \A p \in Plugins : answer[round][p] # "none"
             /\ result' = {round} \X Found(round)
  <2>1. manager[round] = {round} \X Plugins
    BY <1>1, <1>4 DEF Return, IInv, Stopping, Complete
  <2>2. ASSUME NEW p \in Plugins PROVE p \in Done(round)
    <3>1. <<round, p>> \in {round} \X Plugins
      OBVIOUS
    <3>2. <<round, p>> \in {round} \X Done(round)
      BY <1>1, <2>1, <3>1 DEF IInv, OwnEntries
    <3> QED
      BY <3>2
  <2>3. \A p \in Plugins : answer[round][p] # "none"
    BY <1>1, <2>2 DEF IInv, Heard, Done
  <2>4. {round} \X Found(round) \subseteq result'
    BY <1>1, <2>1 DEF Found
  <2> QED
    BY <1>3, <2>3, <2>4
<1> QED
  BY <1>3, <1>4

\* A call returns what its own plugins have told it, and all of it unless its
\* deadline has passed: AppendAddon, getAddonsInfo and AddonList together.
THEOREM ReturnsOwn == Spec => OwnAnswers
<1>1. IInv /\ [Next]_vars =>
        [Return =>
           /\ result' \subseteq {round} \X Found(round)
           /\ ctx[round] = "none" => /\ \A p \in Plugins : answer[round][p] # "none"
                                     /\ result' = {round} \X Found(round)]_vars
  BY OwnStep
<1> QED
  BY <1>1, Invariance, PTL DEF Spec, OwnAnswers

=============================================================================
