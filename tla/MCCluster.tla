------------------------------ MODULE MCCluster ------------------------------
(* Small networks of Cluster for TLC: a node is its own key. *)
EXTENDS Cluster

TwoNodes == {1, 2}
ThreeNodes == {1, 2, 3}

File(seeds, v) == [seeds |-> seeds, explicit |-> FALSE, key |-> v, mistakes |-> {}]
Uniform(seeds) == [v \in Nodes |-> File(seeds, v)]

\* Every node is given this list.
Lists == {<<1, 2, 3>>, <<3, 1, 2>>, <<1, 1, 2>>, <<1, 2>>}

\* One node's file is wrong.
Wrong == {[Uniform(<<1, 2, 3>>) EXCEPT ![3].mistakes = {m}] : m \in Mistakes}

\* One node lists the seeds in another order, or has addresses but no seeds.
Different ==
    {[Uniform(<<1, 2, 3>>) EXCEPT ![3].seeds = <<3, 2, 1>>],
     [Uniform(<<1, 2, 3>>) EXCEPT ![3].seeds = <<>>, ![3].explicit = TRUE],
     [Uniform(<<1, 2, 3>>) EXCEPT ![3].seeds = <<>>]}

AllNetworks == {Uniform(s) : s \in Lists} \cup Wrong \cup Different
SoundNetwork == {Uniform(<<1, 2, 3>>)}
=============================================================================
