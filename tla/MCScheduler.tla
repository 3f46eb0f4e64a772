------------------------------ MODULE MCScheduler -----------------------------
(* Small policies of each kind for Scheduler.                              *)
EXTENDS Scheduler

MCClusters == {"c1", "c2", "c3", "f1", "f2"}

Names == <<"c1", "c2", "c3">>

Ids(n) == [j \in 1..n |-> j]

PolicyOf(w, l) == [weight |-> w, min |-> l[1], max |-> l[2]]

Limits == {<<0, 2>>, <<1, 3>>, <<0, 6>>}

\* Two or three clusters that share by weight, all online.
Weighted ==
  LET Entries2 == {PolicyOf(w, l) : w \in {0, 1, 3}, l \in Limits}
      Entries3 == {PolicyOf(w, l) : w \in {1, 2}, l \in {<<0, 2>>, <<1, 4>>}}
      Policies == [1..2 -> Entries2] \cup [1..3 -> Entries3]
  IN {[kind |-> "weighted", replicas |-> r, policy |-> p, targets |-> SubSeq(Names, 1, Len(p)),
       entry |-> Ids(Len(p)), failover |-> <<>>, online |-> MCClusters] :
        r \in 0..8, p \in Policies}

\* Three clusters of a set, with two roles.
Roles ==
  {[kind |-> "roles", replicas |-> r, policy |-> p, targets |-> Names, entry |-> e,
    failover |-> <<>>, online |-> MCClusters] :
      r \in {1, 4, 7, 8}, e \in [1..3 -> 0..2],
      p \in [1..2 -> {PolicyOf(w, l) : w \in {1, 3}, l \in Limits}]}

\* Two clusters, one or both down, and failover clusters and sets.
Entry1(m) == [type |-> "clusters", members |-> <<m>>]
SetOf(m)  == [type |-> "clusterset", members |-> m]

Failovers ==
  {<<>>, <<Entry1("f1")>>, <<Entry1("f1"), Entry1("f2")>>, <<SetOf(<<"f1", "f2">>)>>,
   <<SetOf(<<>>), Entry1("f1")>>, <<Entry1("c3"), SetOf(<<"f1", "f2">>)>>,
   <<SetOf(<<"f1", "f2">>), Entry1("c3")>>, <<SetOf(<<"f1">>), SetOf(<<"f2", "c3">>)>>}

Failing ==
  {[kind |-> k, replicas |-> 4, policy |-> [j \in 1..2 |-> PolicyOf(1, <<0, 3>>)],
    targets |-> <<"c1", "c2">>, entry |-> Ids(2), failover |-> f, online |-> o] :
      k \in {"duplicated", "weighted", "selector"}, f \in Failovers, o \in SUBSET MCClusters}

MCInputs == {i \in Weighted \cup Roles \cup Failing : WellFormed(i)}
===============================================================================
