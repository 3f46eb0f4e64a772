------------------------------ MODULE ProxyAddons ------------------------------
(***************************************************************************)
(* The addons of a heartbeat: LoadAddon asks every plugin in a goroutine   *)
(* of its own, collects the answers in a map and returns it when it is     *)
(* full, or when the deadline has passed.                                  *)
(*                                                                         *)
(* Each call has its channels, its map and its watcher; what is left of    *)
(* them when it returns runs on, and meets the next calls.  The map has a  *)
(* key for each name of a plugin, and one of its own, `empty-' and random  *)
(* characters, for each plugin that has nothing to tell: here, the plugin. *)
(***************************************************************************)
EXTENDS Naturals, FiniteSets

CONSTANTS
  Plugins,    \* without any, LoadAddon returns at once
  Names,      \* names of plugins
  Configs,    \* what the configuration may say, read anew for each call
  MaxRounds   \* bound: the calls of LoadAddon

ASSUME AddonsAssumption ==
  /\ IsFiniteSet(Plugins) /\ Plugins # {} /\ Plugins \cap Names = {}
  /\ Configs \subseteq [Plugins -> Names] /\ Configs # {}
  /\ MaxRounds \in Nat

Rounds == 1..MaxRounds

VARIABLES
  round,      \* the call that runs, or the last one
  main,       \* the goroutine that calls LoadAddon
  name,       \* the names of a call's plugins
  collector,  \* the goroutines of a call, one for each plugin
  answer,     \* what they have learnt
  manager,    \* the call's AddonManager: the <<call, plugin>> with an entry
  ctx,        \* ctx.Err() of a call
  watcher,    \* where its watcher is
  stop,       \* the messages in its channel stop, of capacity 1
  result      \* what the last call has returned, until the next begins

vars == <<round, main, name, collector, answer, manager, ctx, watcher, stop, result>>

-----------------------------------------------------------------------------
TypeOK ==
  /\ round \in 0..MaxRounds
  /\ main \in {"idle", "select", "list"}
  /\ name \in [Rounds -> [Plugins -> Names]]
  /\ collector \in [Rounds -> [Plugins -> {"none", "running", "check", "store", "done"}]]
  /\ answer \in [Rounds -> [Plugins -> {"none", "found", "nil"}]]
  /\ manager \in [Rounds -> SUBSET (Rounds \X Plugins)]
  /\ ctx \in [Rounds -> {"none", "exceeded", "canceled"}]
  /\ watcher \in [Rounds -> {"none", "deadline", "length"}]
  /\ stop \in [Rounds -> 0..1]
  /\ result \subseteq Rounds \X Plugins

Init ==
  /\ round = 0
  /\ main = "idle"
  /\ name = [r \in Rounds |-> CHOOSE c \in Configs : TRUE]
  /\ collector = [r \in Rounds |-> [p \in Plugins |-> "none"]]
  /\ answer = [r \in Rounds |-> [p \in Plugins |-> "none"]]
  /\ manager = [r \in Rounds |-> {}]
  /\ ctx = [r \in Rounds |-> "none"]
  /\ watcher = [r \in Rounds |-> "none"]
  /\ stop = [r \in Rounds |-> 0]
  /\ result = {}

-----------------------------------------------------------------------------
(* Helpers *)

Found(r) == {p \in Plugins : answer[r][p] = "found"}

\* The name in the map of the answer of plugin p to call r.
Key(r, p) == IF p \in Found(r) THEN name[r][p] ELSE p

\* AddonManager.Len.
Length(r) == Cardinality(manager[r])

\* AddonManager.AddonList: the entries that are not empty.
AddonList(r) == {e \in manager[r] : e[2] \in Found(e[1])}

-----------------------------------------------------------------------------
(* LoadAddon *)

StartRound ==
  /\ main = "idle" /\ round < MaxRounds
  /\ LET r == round + 1
     IN  /\ round' = r
         /\ \E c \in Configs : name' = [name EXCEPT ![r] = c]
         /\ collector' = [collector EXCEPT ![r] = [p \in Plugins |-> "running"]]
         /\ watcher' = [watcher EXCEPT ![r] = "deadline"]
  /\ main' = "select"
  /\ result' = {}
  /\ UNCHANGED <<answer, manager, ctx, stop>>

\* getAddon has come back, with the plugin's data or with nil: runPlugins hands
\* it over to the goroutine that waits at the channel.
Answer(r, p) ==
  /\ collector[r][p] = "running"
  /\ collector' = [collector EXCEPT ![r][p] = "check"]
  /\ \E a \in {"found", "nil"} : answer' = [answer EXCEPT ![r][p] = a]
  /\ UNCHANGED <<round, main, name, manager, ctx, watcher, stop, result>>

\* AppendAddon, under the read lock.
CheckName(r, p) ==
  /\ collector[r][p] = "check"
  /\ collector' = [collector EXCEPT ![r][p] =
                     IF \E e \in manager[r] : Key(e[1], e[2]) = Key(r, p) THEN "done" ELSE "store"]
  /\ UNCHANGED <<round, main, name, answer, manager, ctx, watcher, stop, result>>

\* Faulty variant: one AddonManager for all the calls.
StoreShared(r, p) ==
  /\ collector[r][p] = "store"
  /\ collector' = [collector EXCEPT ![r][p] = "done"]
  /\ manager' = [manager EXCEPT ![round] =
                   {e \in @ : Key(e[1], e[2]) # Key(r, p)} \cup {<<r, p>>}]
  /\ UNCHANGED <<round, main, name, answer, ctx, watcher, stop, result>>

\* AppendAddon, under the write lock, which it has taken anew: the answer of
\* another plugin of the name may have come in between and is overwritten.
Store(r, p) ==
  /\ collector[r][p] = "store"
  /\ collector' = [collector EXCEPT ![r][p] = "done"]
  /\ manager' = [manager EXCEPT ![r] =
                   {e \in @ : Key(e[1], e[2]) # Key(r, p)} \cup {<<r, p>>}]
  /\ UNCHANGED <<round, main, name, answer, ctx, watcher, stop, result>>

\* The deadline of the context; not after it was cancelled.
Deadline(r) ==
  /\ watcher[r] # "none" /\ ctx[r] = "none"
  /\ ctx' = [ctx EXCEPT ![r] = "exceeded"]
  /\ UNCHANGED <<round, main, name, collector, answer, manager, watcher, stop, result>>

\* A turn of the watcher's loop looks at the deadline and then at the length.
\* When it has something to tell it sends, for which there must be room.
Send(r, tells) ==
  \/ ~tells /\ UNCHANGED stop
  \/ tells /\ stop[r] = 0 /\ stop' = [stop EXCEPT ![r] = 1]

\* Faulty variant: the deadline is not looked at.
WatchNoDeadline(r) ==
  /\ watcher[r] = "deadline"
  /\ watcher' = [watcher EXCEPT ![r] = "length"]
  /\ UNCHANGED <<round, main, name, collector, answer, manager, ctx, stop, result>>

\* Faulty variant: a message more for a channel that is full.
SendBlind(r) ==
  /\ watcher[r] = "length"
  /\ stop' = IF Length(r) = Cardinality(Plugins) THEN [stop EXCEPT ![r] = @ + 1] ELSE stop
  /\ watcher' = [watcher EXCEPT ![r] = "deadline"]
  /\ UNCHANGED <<round, main, name, collector, answer, manager, ctx, result>>

WatchDeadline(r) ==
  /\ watcher[r] = "deadline"
  /\ Send(r, ctx[r] = "exceeded")
  /\ watcher' = [watcher EXCEPT ![r] = "length"]
  /\ UNCHANGED <<round, main, name, collector, answer, manager, ctx, result>>

WatchLength(r) ==
  /\ watcher[r] = "length"
  /\ Send(r, Length(r) = Cardinality(Plugins))
  /\ watcher' = [watcher EXCEPT ![r] = "deadline"]
  /\ UNCHANGED <<round, main, name, collector, answer, manager, ctx, result>>

Stop ==
  /\ main = "select" /\ stop[round] = 1
  /\ stop' = [stop EXCEPT ![round] = 0]
  /\ main' = "list"
  /\ UNCHANGED <<round, name, collector, answer, manager, ctx, watcher, result>>

\* LoadAddon returns and cancels its context, which the watcher does not heed.
Return ==
  /\ main = "list"
  /\ result' = AddonList(round)
  /\ ctx' = [ctx EXCEPT ![round] = IF @ = "none" THEN "canceled" ELSE @]
  /\ main' = "idle"
  /\ UNCHANGED <<round, name, collector, answer, manager, watcher, stop>>

-----------------------------------------------------------------------------
Collect(r, p) == Answer(r, p) \/ CheckName(r, p) \/ Store(r, p)
Watch(r)      == WatchDeadline(r) \/ WatchLength(r)

Next ==
  \/ StartRound
  \/ Stop
  \/ Return
  \/ \E r \in Rounds : Deadline(r) \/ Watch(r)
  \/ \E r \in Rounds, p \in Plugins : Collect(r, p)

Spec == Init /\ [][Next]_vars

\* Goroutines run and deadlines pass, but a plugin may never answer.
Fairness ==
  /\ WF_vars(Stop)
  /\ WF_vars(Return)
  /\ \A r \in Rounds : WF_vars(Deadline(r)) /\ WF_vars(Watch(r))

FairSpec == Spec /\ Fairness

-----------------------------------------------------------------------------
(* Properties *)

\* A call returns only what its own plugins have told it, whatever goroutines of
\* earlier calls still run; and all of it, unless its deadline has passed, which
\* is always so when two plugins have one name.
OwnAnswers ==
  [][Return =>
       /\ result' \subseteq {round} \X Found(round)
       /\ ctx[round] = "none" => /\ \A p \in Plugins : answer[round][p] # "none"
                                 /\ result' = {round} \X Found(round)]_vars

\* Every call returns, though plugins hang and the watchers of earlier calls
\* block for ever on their second message: the heartbeats go on.
EventuallyReturns == main # "idle" ~> main = "idle"

=============================================================================
