------------------------------- MODULE Scheduler ------------------------------
(***************************************************************************)
(* doSchedule of the schedule-policy controller, for one resource: check   *)
(* the clusters, replace those that are not online by failover clusters,   *)
(* give each its replicas, and hand out what rounding and the limits have  *)
(* left over or short.  The controller runs one Reconcile at a time and    *)
(* this is one; a step is one iteration of a loop of the code.             *)
(*                                                                         *)
(* An input is a policy with what it refers to.  `kind' is the way to the  *)
(* binding: duplicated and weighted (clusters named by the policy), roles  *)
(* and selector (clusters of a set).  Targets are numbered as in the code, *)
(* from 1; target j takes its weight and limits from policy entry entry[j] *)
(* (its own in a weighted policy, that of its role in a set; 0 if none).   *)
(* A failover entry is the list of clusters it stands for.  An index that  *)
(* leaves its slice is a panic.                                            *)
(***************************************************************************)
EXTENDS Integers, FiniteSets, SequencesExt

CONSTANTS
  Clusters,  \* names of clusters
  Inputs     \* the policies to be scheduled

Kinds == {"duplicated", "weighted", "roles", "selector"}

\* Kinds whose replicas depend on weights and limits.
Shared == {"weighted", "roles"}

PolicyEntry == [weight: Nat, min: Nat, max: Nat]
Failover    == [type: {"clusters", "clusterset"}, members: Seq(Clusters)]

Input == [kind: Kinds, replicas: Nat, policy: Seq(PolicyEntry), targets: Seq(Clusters),
          entry: Seq(Nat), failover: Seq(Failover), online: SUBSET Clusters]

\* Limits are in order; a cluster of a set has one of the policy's roles or
\* none, a cluster of a weighted policy its own entry; weights do not add up
\* to 0, where the code divides by 0.
WellFormed(i) ==
  /\ Len(i.entry) = Len(i.targets)
  /\ \A p \in DOMAIN i.policy : i.policy[p].min <= i.policy[p].max
  /\ \A j \in DOMAIN i.entry : i.entry[j] \in 0..Len(i.policy)
  /\ i.kind = "weighted" => i.entry = [j \in DOMAIN i.policy |-> j]
  /\ \A f \in DOMAIN i.failover :
       i.failover[f].type = "clusters" => Len(i.failover[f].members) = 1
  /\ i.kind \in Shared =>
       \E j \in DOMAIN i.entry : i.entry[j] # 0 /\ i.policy[i.entry[j]].weight > 0

ASSUME InputsAssumption == \A i \in Inputs : i \in Input /\ WellFormed(i)

VARIABLES
  input,        \* the policy
  pc,
  fails,        \* the targets that are not online
  unavailable,  \* the failover clusters that are not online
  cursor,       \* positions in the failover policy, in a set of it, in unavailable
  placed,       \* the clusters of the binding so far
  share,        \* what each target gets by its weight
  replicas,     \* what it gets
  diff,         \* replicas still to be given, or taken when negative
  left,         \* addNum of the second round
  order,        \* policy entries that can still change, by descending weight
  pos,          \* position in order; 0 when there is none
  visit         \* target the inner loop is at; 0 between two passes

vars == <<input, pc, fails, unavailable, cursor, placed, share, replicas, diff, left, order,
          pos, visit>>

choice == <<fails, unavailable, cursor, placed>>
rounds == <<left, order, pos, visit>>

-----------------------------------------------------------------------------
N == Len(input.targets)

\* The target the loop over the clusters is at.
Target == Len(placed) + 1

NoEntry  == [weight |-> 0, min |-> 0, max |-> 0]
Entry(j) == IF input.entry[j] = 0 THEN NoEntry ELSE input.policy[input.entry[j]]

SumOf(f) == SumFunction(f)

FailoverClusters == FlattenSeq([f \in DOMAIN input.failover |-> input.failover[f].members])

\* Those of the first n failover clusters that are not online, in their order.
Unavailable[n \in 0..Len(FailoverClusters)] ==
  IF n = 0 THEN <<>>
  ELSE IF FailoverClusters[n] \in input.online THEN Unavailable[n - 1]
  ELSE Append(Unavailable[n - 1], FailoverClusters[n])

TypeOK ==
  /\ input \in Input /\ WellFormed(input)
  /\ pc \in {"check", "weigh", "place", "fill", "add", "done", "error", "panic"}
  /\ fails \subseteq 1..N
  /\ unavailable \in Seq(Clusters)
  /\ cursor \in [failover: Nat \ {0}, set: Nat \ {0}, down: Nat \ {0}]
  /\ placed \in Seq(Clusters)
  /\ share \in Seq(Nat)
  /\ replicas \in Seq(Nat) /\ Len(replicas) = Len(placed) /\ Len(placed) <= N
  /\ diff \in Int
  /\ left \in Int
  /\ order \in Seq(DOMAIN input.policy)
  /\ pos \in 0..Len(order)
  /\ visit \in 0..N

Init ==
  /\ input \in Inputs
  /\ pc = "check"
  /\ fails = {}
  /\ unavailable = <<>>
  /\ cursor = [failover |-> 1, set |-> 1, down |-> 1]
  /\ placed = <<>>
  /\ share = <<>>
  /\ replicas = <<>>
  /\ diff = 0
  /\ left = 0
  /\ order = <<>>
  /\ pos = 0
  /\ visit = 0

-----------------------------------------------------------------------------
\* checkClusters and failoverPolicyCheck: enough failover clusters must be
\* online.
CheckClusters ==
  /\ pc = "check"
  /\ fails' = {j \in 1..N : input.targets[j] \notin input.online}
  /\ unavailable' = Unavailable[Len(FailoverClusters)]
  /\ pc' = IF Cardinality(fails') <= Len(FailoverClusters) - Len(unavailable')
             THEN "weigh" ELSE "error"
  /\ UNCHANGED <<input, cursor, placed, share, replicas, diff, rounds>>

\* calculateWeight, calculateWeightByRole: int(replicas / total * weight) of
\* floating point numbers, which loses one of an exact quotient when rounding
\* goes down (15 replicas for a single weight of 11 give 14).
Weigh ==
  /\ pc = "weigh"
  /\ pc' = "place"
  /\ LET total    == SumOf([j \in 1..N |-> Entry(j).weight])
         exact(w) == (input.replicas * w) \div total
         lossy    == {w \in {Entry(j).weight : j \in 1..N} :
                        exact(w) > 0 /\ (input.replicas * w) % total = 0}
     IN \E loses \in SUBSET lossy :
          /\ share' = [j \in 1..N |->
                         IF input.kind \notin Shared THEN input.replicas
                         ELSE exact(Entry(j).weight) - (IF Entry(j).weight \in loses THEN 1 ELSE 0)]
          /\ diff' = IF input.kind \in Shared THEN input.replicas - SumOf(share') ELSE 0
  /\ UNCHANGED <<input, choice, replicas, rounds>>

\* Its share, or the limit it would pass; firstReplaceReplicasByWeight and
\* ...ByClusterRole.  The difference goes to diff.
Clamped(j) ==
  IF input.kind \notin Shared THEN share[j]
  ELSE IF share[j] < Entry(j).min THEN Entry(j).min
  ELSE IF share[j] > Entry(j).max THEN Entry(j).max
  ELSE share[j]

Place(cluster) ==
  /\ placed' = Append(placed, cluster)
  /\ replicas' = Append(replicas, Clamped(Target))
  /\ diff' = diff + share[Target] - Clamped(Target)

\* An online target is bound itself.
PlaceTarget ==
  /\ pc = "place"
  /\ Target \in 1..N \ fails
  /\ Place(input.targets[Target])
  /\ UNCHANGED <<input, pc, fails, unavailable, cursor, share, rounds>>

\* Faulty variant: the position in unavailable stays.
SkipNone(c) == c.down

Skip(c) == IF c.down < Len(unavailable) THEN c.down + 1 ELSE c.down

\* doFailoverPolicy: take the cluster the cursor is at, unless it is the next
\* of those not online.
PlaceFailover ==
  /\ pc = "place"
  /\ Target \in 1..N \cap fails
  /\ IF \/ cursor.failover > Len(input.failover)
        \/ cursor.set > Len(input.failover[cursor.failover].members)
     THEN /\ pc' = "panic"
          /\ UNCHANGED <<cursor, placed, replicas, diff>>
     ELSE LET failover  == input.failover[cursor.failover]
              candidate == failover.members[cursor.set]
          IN \/ /\ unavailable # <<>> => candidate # unavailable[cursor.down]
                /\ Place(candidate)
                /\ cursor' = IF cursor.set < Len(failover.members)
                               THEN [cursor EXCEPT !.set = @ + 1]
                               ELSE [cursor EXCEPT !.set = 1, !.failover = @ + 1]
                /\ UNCHANGED pc
             \/ /\ unavailable # <<>> /\ candidate = unavailable[cursor.down]
                /\ cursor' = IF failover.type = "clusterset"
                               THEN [cursor EXCEPT !.set = @ + 1, !.down = Skip(cursor)]
                               ELSE [cursor EXCEPT !.failover = @ + 1, !.down = Skip(cursor)]
                /\ UNCHANGED <<pc, placed, replicas, diff>>
  /\ UNCHANGED <<input, fails, unavailable, share, rounds>>

\* All are placed: the binding is ready, or a second round follows.
Placed ==
  /\ pc = "place"
  /\ Len(placed) = N
  /\ pc' = IF diff = 0 THEN "done" ELSE "fill"
  /\ UNCHANGED <<input, choice, share, replicas, diff, rounds>>

-----------------------------------------------------------------------------
(* The second round: replaceReplicasByWeight, replaceReplicasByClusterRole *)

Limit(j) == IF diff > 0 THEN Entry(j).max ELSE Entry(j).min
Room(j)  == IF diff > 0 THEN Entry(j).max - replicas[j] ELSE replicas[j] - Entry(j).min
Sign     == IF diff > 0 THEN 1 ELSE -1

\* doSortPolicyList; sort.Slice promises no order among equal weights.
Sorted(s) ==
  /\ Len(s) = Len(input.policy)
  /\ IsInjective(s)
  /\ \A a, b \in DOMAIN s : a < b => input.policy[s[a]].weight >= input.policy[s[b]].weight

\* Faulty variants: what does not fit is forgotten; it is given all the same.
UnfitForgotten(j) == 0
FitsAlways(j)     == TRUE

\* An equal part for all; what does not fit is left.
Even     == (diff * Sign) \div N
Rest     == (diff * Sign) % N
Fits(j)  == Room(j) >= Even
Unfit(j) == IF Fits(j) THEN 0 ELSE Even - Room(j)

Fill ==
  /\ pc = "fill"
  /\ pc' = "add"
  /\ replicas' = [j \in 1..N |-> IF Fits(j) THEN replicas[j] + Sign * Even ELSE Limit(j)]
  /\ left' = Rest + SumOf([j \in 1..N |-> Unfit(j)])
  /\ \E s \in [1..Len(input.policy) -> 1..Len(input.policy)] : Sorted(s) /\ order' = s
  /\ pos' = IF input.kind = "weighted" THEN 1 ELSE 0
  /\ UNCHANGED <<input, choice, share, diff, visit>>

\* Head of the outer loop.  By role, every pass is for the next role.
StartPass ==
  /\ pc = "add"
  /\ visit = 0
  /\ IF left = 0
       THEN pc' = "done" /\ UNCHANGED <<pos, visit>>
       ELSE /\ visit' = 1
            /\ pos' = CASE input.kind = "weighted" -> pos
                        [] pos = Len(order)        -> 1
                        [] OTHER                   -> pos + 1
            /\ UNCHANGED pc
  /\ UNCHANGED <<input, choice, share, replicas, diff, left, order>>

NextVisit == IF visit = N THEN 0 ELSE visit + 1

\* The inner loop passes a target that is not the turn of its entry.
PassBy ==
  /\ pc = "add"
  /\ visit > 0
  /\ \/ /\ input.kind = "roles" /\ left = 0
        /\ visit' = 0
        /\ UNCHANGED pc
     \/ /\ input.kind = "roles" /\ left # 0 /\ pos = 0
        /\ pc' = "panic"
        /\ UNCHANGED visit
     \/ /\ input.kind = "roles" => left # 0
        /\ pos # 0
        /\ input.entry[visit] # order[pos]
        /\ visit' = NextVisit
        /\ UNCHANGED pc
  /\ UNCHANGED <<input, choice, share, replicas, diff, left, order, pos>>

Turn ==
  /\ pc = "add"
  /\ visit > 0
  /\ input.kind = "roles" => left # 0
  /\ pos # 0
  /\ input.entry[visit] = order[pos]

\* Faulty variant: the turn goes on without a wrap.
AddOneUnwrapped ==
  /\ Turn
  /\ Room(visit) > 0
  /\ replicas' = [replicas EXCEPT ![visit] = @ + Sign]
  /\ left' = left - 1
  /\ pos' = IF input.kind = "roles" THEN pos ELSE pos + 1
  /\ visit' = NextVisit
  /\ UNCHANGED <<input, pc, choice, share, diff, order>>

\* One more, or one less; by weight, the turn goes to the next entry.
AddOne ==
  /\ Turn
  /\ Room(visit) > 0
  /\ replicas' = [replicas EXCEPT ![visit] = @ + Sign]
  /\ left' = left - 1
  /\ pos' = CASE input.kind = "roles" -> pos
              [] pos = Len(order)     -> 1
              [] OTHER                -> pos + 1
  /\ visit' = NextVisit
  /\ UNCHANGED <<input, pc, choice, share, diff, order>>

\* Faulty variants: the entry stays and the turn goes on; the first target at
\* its limit ends the round.
ExhaustNot ==
  /\ Turn
  /\ Room(visit) <= 0
  /\ pos' = IF pos = Len(order) THEN 1 ELSE pos + 1
  /\ visit' = NextVisit
  /\ UNCHANGED <<input, pc, choice, share, replicas, diff, left, order>>

ExhaustAll ==
  /\ Turn
  /\ Room(visit) <= 0
  /\ pc' = "done"
  /\ UNCHANGED <<input, choice, share, replicas, diff, rounds>>

\* A target at its limit takes its entry out of the order; without entries
\* the function returns.  By role, `break' leaves the switch only.
Exhaust ==
  /\ Turn
  /\ Room(visit) <= 0
  /\ order' = RemoveAt(order, pos)
  /\ pos' = CASE pos <= Len(order')         -> pos
              [] input.kind = "weighted"
                 /\ order' # <<>>           -> 1
              [] OTHER                      -> 0
  /\ IF order' = <<>>
       THEN pc' = "done" /\ UNCHANGED visit
       ELSE visit' = NextVisit /\ UNCHANGED pc
  /\ UNCHANGED <<input, choice, share, replicas, diff, left>>

Finished == pc \in {"done", "error", "panic"}

Next ==
  \/ CheckClusters
  \/ Weigh
  \/ PlaceTarget \/ PlaceFailover \/ Placed
  \/ Fill
  \/ StartPass \/ PassBy \/ AddOne \/ Exhaust

Spec == Init /\ [][Next]_vars

FairSpec == Spec /\ WF_vars(Next)

-----------------------------------------------------------------------------
(* Properties *)

\* No target ever gets fewer than its Min or more than its Max, in either
\* round (firstReplaceReplicas..., replaceReplicas...).
WithinBounds ==
  input.kind \in Shared =>
    \A j \in DOMAIN replicas : replicas[j] \in Entry(j).min..Entry(j).max

\* Whatever is cut off or added at a limit is carried over: what the targets
\* have and what is still to be given always make the policy's replicas.
NothingLost ==
  input.kind \in Shared =>
    /\ pc \in {"place", "fill"} =>
         SumOf([j \in 1..N |-> IF j <= Len(placed) THEN replicas[j] ELSE share[j]]) + diff
           = input.replicas
    /\ pc \in {"add", "done"} => SumOf(replicas) + Sign * left = input.replicas

\* No two targets share a policy entry: always so in a weighted policy, and in
\* a policy of roles if each role has one cluster.
Apart ==
  \A i, j \in 1..N : input.entry[i] = input.entry[j] /\ input.entry[i] # 0 => i = j

\* The second round ends with the exact number, or with every target at its
\* limit (replaceReplicasByWeight: "until they are equal").  With clusters that
\* share a role it may end with less: see the README.
ExactOrExhausted ==
  pc = "done" /\ input.kind \in Shared /\ Apart =>
    \/ SumOf(replicas) = input.replicas
    \/ \A j \in 1..N : replicas[j] = Limit(j)

\* Only clusters that were online are bound, and those that are stay where
\* the policy wants them: the cursor's three indices never get out of step
\* (doFailoverPolicy).
ReplacementOnline ==
  \A j \in DOMAIN placed :
    /\ placed[j] \in input.online
    /\ j \notin fails => placed[j] = input.targets[j]

\* Scheduling ends, if every role of the policy has a cluster; with a role
\* that has none, the code may turn for ever.
Covered == \A p \in DOMAIN input.policy : \E j \in 1..N : input.entry[j] = p

Terminates == (input.kind = "roles" => Covered) => <>Finished

===============================================================================
