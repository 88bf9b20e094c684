---------------------------- MODULE ClusterProofs ----------------------------
(***************************************************************************)
(* Theorems about Cluster, for every network and every configuration of    *)
(* its nodes.  That a halt takes a lost proposal of every running node is  *)
(* a count: those that have proposed at the height are at most the lost    *)
(* proposals and the one being voted on.  That a height has one leader is  *)
(* about remainders: each falls on one position in the list of seeds, and  *)
(* a node takes the first one its key has there.                           *)
(***************************************************************************)
EXTENDS Cluster, NumberFacts, FiniteSetTheorems, SequenceTheorems, TLAPS

\* The retries are not used up before the last one has returned, and whoever
\* gets as far as the runtime has its key among the seeds.
Sound(v) ==
    /\ stage[v] \in {"load", "celestia", "execution", "forkchoice"}
       => attempt[v] <= MaxRetries
    /\ stage[v] \in {"runtime", "running"} => IsListed(v)

\* The nodes that have proposed at the height.
Proposers == {v \in Nodes : lastProposed[v] >= height}
\* No view has a proposal above the bound on heights.
Open == voting => height <= MaxHeight
Counted == Cardinality(Proposers) <= lost + (IF voting THEN 1 ELSE 0)

IInv ==
    /\ TypeOK
    /\ \A v \in Nodes : Sound(v)
    /\ NeverPanics
    /\ Counted
    /\ Open

\* The bounds are natural numbers.
LEMMA BoundsType == MaxHeight \in Nat /\ MaxTimeouts \in Nat /\ MaxStops \in Nat
BY BoundsAssumption

USE ConfigsAssumption, NodesAssumption, QuorumAssumption, RetriesAssumption, BoundsType

----------------------------------------------------------------------------
(* Lemmas about sets of nodes                                              *)

\* Sets of nodes can be counted.
LEMMA NodesCount ==
    ASSUME NEW S, S \subseteq Nodes
    PROVE  IsFiniteSet(S) /\ Cardinality(S) \in Nat
BY FS_Subset, FS_CardinalityType

\* The keys of a node's seeds are finitely many.
LEMMA ParticipantsFinite ==
    ASSUME TypeOK, NEW v \in Nodes
    PROVE  IsFiniteSet(Participants(v))
<1> DEFINE s == config[v].seeds
<1>1. s \in Seq(Int)
    BY DEF TypeOK, ConfigFile
<1>2. Len(s) \in Nat /\ DOMAIN s = 1 .. Len(s) /\ s \in [1 .. Len(s) -> Int]
    BY <1>1, LenProperties
<1>3. Participants(v) = {s[i] : i \in 1 .. Len(s)}
    BY <1>2 DEF Participants, Listed
<1>4. s \in Surjection(1 .. Len(s), Participants(v))
    BY <1>2, <1>3 DEF Surjection
<1>5. IsFiniteSet(1 .. Len(s))
  <2>1. 1 \in Int /\ Len(s) \in Int
      BY <1>2
  <2>2. QED BY <2>1, FS_Interval
<1>6. QED BY <1>4, <1>5, FS_Surjection

\* A view has a successor.
LEMMA NextViewType ==
    ASSUME IInv, QuorumRuns, NextView
    PROVE  view' \in Nat
<1> DEFINE All == UNION {Participants(v) : v \in Running}
<1>1. Running \subseteq Nodes
    BY DEF Running
<1>2. PICK w \in Running : TRUE
  <2>1. Running # {}
      BY FS_EmptySet DEF QuorumRuns
  <2>2. QED BY <2>1
<1>3. All = Participants(w)
    BY <1>2 DEF QuorumRuns, Together
<1>4. IsFiniteSet(All)
    BY <1>1, <1>2, <1>3, ParticipantsFinite DEF IInv
<1>5. All # {}
    BY <1>1, <1>2, <1>3 DEF IInv, Sound, Running, IsListed, Participants
<1>6. Cardinality(All) \in Nat \ {0}
    BY <1>4, <1>5, FS_CardinalityType, FS_EmptySet
<1>7. view' = (view + 1) % Cardinality(All)
    BY DEF NextView
<1>8. QED BY <1>6, <1>7 DEF IInv, TypeOK

----------------------------------------------------------------------------
(* The steps                                                               *)

\* A node that starts or stops leaves views and heights alone.
LEMMA StartIInv ==
    ASSUME IInv, NEW v \in Nodes, Start(v) \/ RethStarts(v) \/ Stop(v)
    PROVE  IInv'
<1>1. UNCHANGED <<config, viewV>>
    BY DEF Start, LoadConfig, InitCelestia, InitExecution, InitForkchoice,
           BuildRuntimeConfig, StartRuntime, RethStarts, Stop
<1>2. /\ stage \in [Nodes -> Stages] /\ attempt \in [Nodes -> 1 .. MaxRetries + 1]
      /\ reth \in [Nodes -> {"down", "up", "ready"}]
    BY DEF IInv, TypeOK
<1>3. \A w \in Nodes \ {v} : stage'[w] = stage[w] /\ attempt'[w] = attempt[w]
    BY <1>2 DEF Start, LoadConfig, InitCelestia, InitExecution, InitForkchoice,
                BuildRuntimeConfig, StartRuntime, RethStarts, Stop, Goes
<1>4. \A w \in Nodes : IsListed(w)' = IsListed(w)
    BY <1>1 DEF IsListed, Listed
<1>5. /\ stage' \in [Nodes -> Stages] /\ attempt' \in [Nodes -> 1 .. MaxRetries + 1]
      /\ reth' \in [Nodes -> {"down", "up", "ready"}] /\ stops' \in 0 .. MaxStops
      /\ Sound(v)' /\ stage'[v] # "panicked"
  <2>1. CASE LoadConfig(v) \/ InitCelestia(v) \/ InitExecution(v)
      BY <1>2, <2>1 DEF LoadConfig, InitCelestia, InitExecution, Goes, Stages,
                        IInv, TypeOK, Sound, NeverPanics
  <2>2. CASE InitForkchoice(v)
    <3>1. attempt[v] \in 1 .. MaxRetries
        BY <1>2, <2>2 DEF InitForkchoice, IInv, Sound
    <3>2. QED
        BY <1>2, <2>2, <3>1 DEF InitForkchoice, Goes, IsLast, Stages, IInv, TypeOK, Sound
  <2>3. CASE BuildRuntimeConfig(v)
      BY <1>2, <1>4, <2>3 DEF BuildRuntimeConfig, Goes, Stages, IInv, TypeOK, Sound
  <2>4. CASE StartRuntime(v)
      BY <1>2, <1>4, <2>4 DEF StartRuntime, Goes, Participants, IsListed, Stages,
                              IInv, TypeOK, Sound
  <2>5. CASE RethStarts(v)
      BY <1>2, <1>4, <2>5 DEF RethStarts, IInv, TypeOK, Sound, NeverPanics
  <2>6. CASE Stop(v)
      BY <1>2, <1>4, <2>6 DEF Stop, Goes, Stages, IInv, TypeOK, Sound
  <2>7. QED BY <2>1, <2>2, <2>3, <2>4, <2>5, <2>6 DEF Start
<1>6. TypeOK'
    BY <1>1, <1>5 DEF IInv, TypeOK, viewV
<1>7. \A w \in Nodes \ {v} : Sound(w)' /\ stage'[w] # "panicked"
    BY <1>3, <1>4 DEF IInv, Sound, NeverPanics
<1>8. Counted' /\ Open'
    BY <1>1 DEF IInv, Counted, Open, Proposers, viewV
<1>9. QED BY <1>5, <1>6, <1>7, <1>8 DEF IInv, NeverPanics

\* A view leaves the nodes' start alone.
LEMMA NodesStay ==
    ASSUME IInv, UNCHANGED <<config, startV>>
    PROVE  (\A v \in Nodes : Sound(v)') /\ NeverPanics'
BY DEF IInv, Sound, NeverPanics, IsListed, Listed, startV

\* One more proposer, and its proposal is being voted on.
LEMMA ProposeIInv ==
    ASSUME IInv, NEW v \in Nodes, Propose(v)
    PROVE  IInv'
<1>1. /\ lastProposed \in [Nodes -> 0 .. height] /\ height \in 1 .. MaxHeight + 1
      /\ lost \in Nat
    BY DEF IInv, TypeOK
<1>2. /\ lastProposed' = [lastProposed EXCEPT ![v] = height]
      /\ voting = FALSE /\ voting' = TRUE
      /\ UNCHANGED <<config, startV, view, height, lost, timeouts, stops>>
    BY DEF Propose, ProposedHeight, IInv, TypeOK
<1>3. TypeOK' /\ Open'
    BY <1>1, <1>2 DEF IInv, TypeOK, Open, startV, Propose
<1>4. Proposers' = Proposers \cup {v}
    BY <1>1, <1>2 DEF Proposers
<1>5. IsFiniteSet(Proposers) /\ Cardinality(Proposers) \in Nat
    BY NodesCount DEF Proposers
<1>6. Cardinality(Proposers \cup {v}) =
          IF v \in Proposers THEN Cardinality(Proposers) ELSE Cardinality(Proposers) + 1
    BY <1>5, FS_AddElement
<1>7. /\ Cardinality(Proposers') \in Nat
      /\ Cardinality(Proposers') <= Cardinality(Proposers) + 1
    BY <1>4, <1>5, <1>6
<1>8. Cardinality(Proposers) <= lost
    BY <1>1, <1>2 DEF IInv, Counted
<1>9. Counted'
    BY <1>1, <1>2, <1>5, <1>6, <1>7, <1>8 DEF Counted
<1>10. (\A w \in Nodes : Sound(w)') /\ NeverPanics'
    BY <1>2, NodesStay
<1>11. QED BY <1>3, <1>9, <1>10 DEF IInv

\* A view that ends without a decision: the proposal voted on is lost.
LEMMA NullifyIInv ==
    ASSUME IInv, NullifyNull \/ NullifyUnready \/ NullifyProposal
    PROVE  IInv'
<1>1. QuorumRuns /\ NextView
    BY DEF NullifyNull, NullifyUnready, NullifyProposal
<1>2. view' \in Nat
    BY <1>1, NextViewType
<1>3. UNCHANGED <<config, startV, height, lastProposed, stops>>
    BY DEF NullifyNull, NullifyUnready, NullifyProposal
<1>4. voting' \in BOOLEAN /\ timeouts' \in 0 .. MaxTimeouts /\ lost' \in 0 .. timeouts'
  <2>1. CASE NullifyNull
      BY <2>1 DEF NullifyNull, IInv, TypeOK
  <2>2. CASE NullifyUnready
      BY <2>2 DEF NullifyUnready, IInv, TypeOK
  <2>3. CASE NullifyProposal
    <3>1. /\ voting' = FALSE /\ timeouts < MaxTimeouts
          /\ timeouts' = timeouts + 1 /\ lost' = lost + 1
        BY <2>3 DEF NullifyProposal
    <3>2. timeouts \in 0 .. MaxTimeouts /\ lost \in 0 .. timeouts
        BY DEF IInv, TypeOK
    <3>3. timeouts' \in 0 .. MaxTimeouts /\ lost' \in 0 .. timeouts'
        BY <3>1, <3>2
    <3>4. voting' \in BOOLEAN
        BY <3>1
    <3>5. QED BY <3>3, <3>4
  <2>4. QED BY <2>1, <2>2, <2>3
<1>5. TypeOK' /\ Open'
    BY <1>2, <1>3, <1>4 DEF IInv, TypeOK, Open, startV, NullifyNull, NullifyUnready,
                            NullifyProposal
<1>6. Proposers' = Proposers /\ Cardinality(Proposers) \in Nat
    BY <1>3, NodesCount DEF Proposers
<1>7. Counted'
    BY <1>6 DEF IInv, TypeOK, Counted, NullifyNull, NullifyUnready, NullifyProposal
<1>8. (\A w \in Nodes : Sound(w)') /\ NeverPanics'
    BY <1>3, NodesStay
<1>9. QED BY <1>5, <1>7, <1>8 DEF IInv

\* Nobody has proposed at the next height yet.
LEMMA DecideIInv ==
    ASSUME IInv, Decide
    PROVE  IInv'
<1>1. view' \in Nat
    BY NextViewType DEF Decide
<1>2. /\ lastProposed \in [Nodes -> 0 .. height] /\ height \in 1 .. MaxHeight + 1
    BY DEF IInv, TypeOK
<1>3. /\ voting = TRUE /\ voting' = FALSE /\ lost' = 0 /\ height' = height + 1
      /\ UNCHANGED <<config, startV, lastProposed, timeouts, stops>>
    BY DEF Decide, IInv, TypeOK
<1>4. height' \in 1 .. MaxHeight + 1 /\ lastProposed' \in [Nodes -> 0 .. height']
    BY <1>2, <1>3 DEF IInv, Open
<1>5. voting' \in BOOLEAN /\ Open'
    BY <1>3 DEF Open
<1>6. lost' \in 0 .. timeouts' /\ timeouts' \in 0 .. MaxTimeouts
    BY <1>3 DEF IInv, TypeOK
<1>7. TypeOK'
    BY <1>1, <1>3, <1>4, <1>5, <1>6 DEF IInv, TypeOK, startV
<1>8. Proposers' = {}
    BY <1>2, <1>3 DEF Proposers
<1>9. Counted'
    BY <1>3, <1>8, FS_EmptySet DEF Counted
<1>10. (\A w \in Nodes : Sound(w)') /\ NeverPanics'
    BY <1>3, NodesStay
<1>11. QED BY <1>5, <1>7, <1>9, <1>10 DEF IInv

----------------------------------------------------------------------------
(* The theorems                                                            *)

LEMMA InitIInv == Init => IInv
<1> SUFFICES ASSUME Init PROVE IInv
    OBVIOUS
<1>1. TypeOK
  <2>1. voting \in BOOLEAN
      BY DEF Init
  <2>2. /\ height \in 1 .. MaxHeight + 1 /\ lastProposed \in [Nodes -> 0 .. height]
        /\ timeouts \in 0 .. MaxTimeouts /\ lost \in 0 .. timeouts
        /\ stops \in 0 .. MaxStops /\ view \in Nat
      BY DEF Init
  <2>3. /\ stage \in [Nodes -> Stages] /\ attempt \in [Nodes -> 1 .. MaxRetries + 1]
        /\ reth \in [Nodes -> {"down", "up", "ready"}]
      BY DEF Init, Stages
  <2>4. config \in Configs
      BY DEF Init
  <2>5. QED BY <2>1, <2>2, <2>3, <2>4 DEF TypeOK
<1>2. (\A v \in Nodes : Sound(v)) /\ NeverPanics /\ Open
    BY DEF Init, Sound, NeverPanics, Open
<1>3. Proposers = {}
    BY DEF Init, Proposers
<1>4. Counted
    BY <1>3, FS_EmptySet DEF Init, Counted
<1>5. QED BY <1>1, <1>2, <1>4 DEF IInv

LEMMA NextIInv == IInv /\ [Next]_vars => IInv'
<1> SUFFICES ASSUME IInv, [Next]_vars PROVE IInv'
    OBVIOUS
<1>1. CASE \E v \in Nodes : Start(v) \/ RethStarts(v) \/ Stop(v)
    BY <1>1, StartIInv
<1>2. CASE \E v \in Nodes : Propose(v)
    BY <1>2, ProposeIInv
<1>3. CASE NullifyNull \/ NullifyUnready \/ NullifyProposal
    BY <1>3, NullifyIInv
<1>4. CASE Decide
    BY <1>4, DecideIInv
<1>5. CASE UNCHANGED vars
  <2>1. UNCHANGED <<config, stage, attempt, reth, view, voting, height, lastProposed,
                    lost, timeouts, stops>>
      BY <1>5 DEF vars, startV, viewV
  <2>2. TypeOK' /\ Counted' /\ Open'
      BY <2>1 DEF IInv, TypeOK, Counted, Open, Proposers
  <2>3. (\A v \in Nodes : Sound(v)') /\ NeverPanics'
      BY <2>1, NodesStay DEF startV
  <2>4. QED BY <2>2, <2>3 DEF IInv
<1>6. QED BY <1>1, <1>2, <1>3, <1>4, <1>5 DEF Next, Views

\* The inductive invariant holds in every behaviour of the network.
THEOREM Invariance == Spec => []IInv
BY InitIInv, NextIInv, PTL DEF Spec

\* Every variable of Cluster keeps its shape.
THEOREM TypeCorrect == Spec => []TypeOK
<1>1. IInv => TypeOK BY DEF IInv
<1>2. QED BY <1>1, Invariance, PTL

\* No configuration, answer or number of retries makes a node reach the
\* unreachable!() of init_forkchoice or an expect() of run_simplex.
THEOREM NeverPanicsTheorem == Spec => []NeverPanics
<1>1. IInv => NeverPanics BY DEF IInv
<1>2. QED BY <1>1, Invariance, PTL

\* Nodes stop proposing (already_proposed_at_height) only when each of them
\* has lost a proposal at this height.
THEOREM HaltTheorem == Spec => []HaltTakesEveryProposal
<1>1. IInv => HaltTakesEveryProposal
  <2> SUFFICES ASSUME IInv, Exhausted PROVE lost >= Cardinality(Running)
      BY DEF HaltTakesEveryProposal
  <2>1. Running \subseteq Proposers
      BY DEF Running, Proposers, Exhausted
  <2>2. /\ IsFiniteSet(Proposers) /\ Cardinality(Proposers) \in Nat
        /\ Cardinality(Running) \in Nat
      BY NodesCount DEF Proposers, Running
  <2>3. Cardinality(Running) <= Cardinality(Proposers)
      BY <2>1, <2>2, FS_Subset
  <2>4. Cardinality(Proposers) <= lost /\ lost \in Nat
      BY DEF IInv, TypeOK, Counted, Exhausted
  <2>5. QED BY <2>2, <2>3, <2>4
<1>2. QED BY <1>1, Invariance, PTL

----------------------------------------------------------------------------
(* The leader of a height                                                  *)

\* The seeds of a node that runs, and where its own is first among them.
LEMMA FirstIndexIs ==
    ASSUME IInv, NEW v \in Running
    PROVE  /\ config[v].seeds \in Seq(Int)
           /\ FirstIndex(v) \in 1 .. Len(config[v].seeds)
           /\ config[v].seeds[FirstIndex(v)] = config[v].key
<1> DEFINE s == config[v].seeds
           k == config[v].key
           Found == {i \in DOMAIN s : s[i] = k}
           P(i) == s[i] = k /\ \A j \in 1 .. i - 1 : s[j] # k
<1>1. s \in Seq(Int) /\ DOMAIN s = 1 .. Len(s) /\ Len(s) \in Nat
  <2>1. s \in Seq(Int)
    BY DEF IInv, TypeOK, ConfigFile, Running
  <2>2. QED BY <2>1, LenProperties
<1>2. Found # {}
    BY DEF IInv, Sound, IsListed, Listed, Running
<1>3. FirstIndex(v) = CHOOSE i \in DOMAIN s : P(i)
    BY DEF FirstIndex
<1> HIDE DEF s, k
<1>4. Found \in SUBSET Nat
    BY <1>1
<1>5. PICK m \in Found : \A n \in Found : m <= n
  <2> HIDE DEF Found
  <2>1. QED BY <1>2, <1>4, LeastNumber
<1>6. m \in DOMAIN s /\ P(m)
    BY <1>1, <1>5
<1> HIDE DEF P
<1>7. FirstIndex(v) \in DOMAIN s /\ P(FirstIndex(v))
    BY <1>3, <1>6, Zenon
<1>8. QED BY <1>1, <1>7 DEF s, k, P

\* A sequence without repetitions has as many elements as it is long.
LEMMA ListedCount ==
    ASSUME NEW c, c.seeds \in Seq(Int), Distinct(c.seeds)
    PROVE  Cardinality(Listed(c)) = Len(c.seeds)
<1> DEFINE s == c.seeds
<1>1. Len(s) \in Nat /\ DOMAIN s = 1 .. Len(s) /\ s \in [1 .. Len(s) -> Int]
    BY LenProperties
<1>2. Listed(c) = {s[i] : i \in 1 .. Len(s)}
    BY <1>1 DEF Listed
<1>3. s \in Bijection(1 .. Len(s), Listed(c))
    BY <1>1, <1>2 DEF Bijection, Injection, IsInjective, Surjection, Distinct
<1>4. /\ IsFiniteSet(1 .. Len(s)) /\ Cardinality(1 .. Len(s)) = Len(s)
  <2> DEFINE n == Len(s)
  <2>1. n \in Nat
    BY <1>1
  <2> HIDE DEF n
  <2>2. IsFiniteSet(1 .. n) /\ Cardinality(1 .. n) = IF 1 > n THEN 0 ELSE n - 1 + 1
    BY <2>1, FS_Interval
  <2>3. QED BY <2>1, <2>2 DEF n
<1> HIDE DEF s
<1>5. Cardinality(Listed(c)) = Cardinality(1 .. Len(s))
    BY <1>3, <1>4, FS_Bijection DEF ExistsBijection
<1>6. QED BY <1>4, <1>5 DEF s

\* Nodes that have been given one list of seeds never both submit a height
\* (is_leader_for_height), in whatever order the keys are listed and however
\* often; without repetitions every height falls to one of those listed.
THEOREM LeaderTheorem == Spec => []OneLeader
<1>1. IInv => OneLeader
  <2> SUFFICES ASSUME IInv, SameSeeds, OwnKeys,
                      NEW h \in 1 .. MaxHeight + Cardinality(Nodes)
               PROVE  LET leaders == {v \in Running : Leads(v, h)}
                      IN  /\ Cardinality(leaders) <= 1
                          /\ Complete /\ Running # {} /\ (\A v \in Running : Distinct(config[v].seeds))
                             => leaders # {}
    BY DEF OneLeader
  <2> DEFINE leaders == {v \in Running : Leads(v, h)}
  <2>1. ASSUME NEW v \in leaders, NEW w \in leaders PROVE v = w
    <3>1. v \in Running /\ w \in Running /\ v \in Nodes /\ w \in Nodes
      BY DEF Running
    <3>2. config[v].seeds = config[w].seeds
      BY <3>1 DEF SameSeeds
    <3>3. Position(v) = Position(w)
      BY <3>2 DEF Leads, Participants, Listed
    <3>4. FirstIndex(v) \in Int /\ FirstIndex(w) \in Int
      BY <3>1, FirstIndexIs
    <3>5. FirstIndex(v) = FirstIndex(w)
      BY <3>3, <3>4 DEF Position
    <3>6. config[v].key = config[w].key
      BY <3>1, <3>2, <3>5, FirstIndexIs
    <3>7. QED BY <3>1, <3>6 DEF OwnKeys
  <2>2. Cardinality(leaders) <= 1
    <3>1. CASE leaders = {}
      BY <3>1, FS_EmptySet
    <3>2. CASE \E v \in leaders : leaders = {v}
      <4> HIDE DEF leaders
      <4>1. PICK v \in leaders : leaders = {v}
        BY <3>2
      <4>2. Cardinality({v}) = 1
        BY FS_Singleton
      <4>3. QED BY <4>1, <4>2
    <3> HIDE DEF leaders
    <3>3. QED BY <2>1, <3>1, <3>2
  <2>3. ASSUME Complete, Running # {}, \A v \in Running : Distinct(config[v].seeds)
        PROVE  leaders # {}
    <3>1. PICK v \in Running : TRUE
      BY <2>3
    <3> DEFINE s == config[v].seeds
               n == Len(s)
    <3>2. /\ s \in Seq(Int) /\ Distinct(s) /\ FirstIndex(v) \in 1 .. n
      BY <2>3, <3>1, FirstIndexIs
    <3>3. n \in Nat \ {0} /\ DOMAIN s = 1 .. n
      BY <3>2, LenProperties
    <3>4. h \in Nat
      BY NodesCount
    <3>5. h % n \in 0 .. n - 1
      <4> HIDE DEF n
      <4>1. QED BY <3>3, <3>4
    <3> DEFINE i == (h % n) + 1
    <3>6. i \in 1 .. n
      <4> HIDE DEF n
      <4>1. QED BY <3>3, <3>5
    <3>7. s[i] \in Participants(v)
      BY <3>3, <3>6 DEF Participants, Listed
    <3>8. PICK w \in Running : config[w].key = s[i]
      BY <2>3, <3>1, <3>7 DEF Complete
    <3>9. config[w].seeds = s
      BY <3>1, <3>8 DEF SameSeeds
    <3>10. Cardinality(Participants(w)) = n
      BY <3>2, <3>9, ListedCount DEF Participants
    <3>11. FirstIndex(w) = i
      BY <3>2, <3>3, <3>6, <3>8, <3>9, FirstIndexIs DEF Distinct
    <3>12. LeaderIndex(h, n) = Position(w)
      <4> DEFINE r == h % n
      <4>1. r \in Int /\ FirstIndex(w) = r + 1
        <5> HIDE DEF n
        <5>1. QED BY <3>3, <3>5, <3>11
      <4> HIDE DEF r
      <4>2. FirstIndex(w) - 1 = r
        BY <4>1
      <4>3. QED BY <4>2 DEF LeaderIndex, Position, r
    <3>13. Leads(w, h)
      BY <3>10, <3>12 DEF Leads
    <3>14. QED BY <3>8, <3>13
  <2>4. QED BY <2>2, <2>3
<1>2. QED BY <1>1, Invariance, PTL
=============================================================================
