------------------------------- MODULE Cluster -------------------------------
(***************************************************************************)
(* A network of nodes from their configuration files on: how each of them  *)
(* starts or fails to start (crates/sequencer cli.rs, config.rs,           *)
(* simplex_sequencer.rs; the constructors of the Celestia and execution    *)
(* clients), the roles the running ones take (crates/consensus leader.rs,  *)
(* runtime.rs), and whether heights go on being decided when views time    *)
(* out (the proposing half of application.rs).                             *)
(*                                                                         *)
(* A validator is the key its seed derives.  The heights of the running    *)
(* nodes move together here; how they may come apart is the subject of     *)
(* Application.  Synchronization from Celestia is the subject of DaSync.   *)
(***************************************************************************)
EXTENDS Integers, Sequences, FiniteSets

CONSTANTS
    Nodes,        \* the machines
    Configs,      \* bound: the ways the network may be configured
    Quorum,       \* how many votes decide a block or end a view
    MaxRetries,   \* MAX_RETRIES of init_forkchoice (30)
    MaxHeight,    \* bound: the last height
    MaxTimeouts,  \* bound: views that end although their leader could propose
    MaxStops      \* bound: how many running nodes stop

\* What may be wrong with a configuration file.
Mistakes == {"unreadable", "chain_id", "celestia_addr", "reth_url", "namespace",
             "celestia_key", "jwt", "key_file", "address"}

\* validator_seeds, whether validators are listed as well, the seed in the
\* key file, and what is wrong.
ConfigFile == [seeds : Seq(Int), explicit : BOOLEAN, key : Int,
               mistakes : SUBSET Mistakes]
Listed(c) == {c.seeds[i] : i \in DOMAIN c.seeds}

ASSUME ConfigsAssumption == \A net \in Configs : \A v \in Nodes : net[v] \in ConfigFile
ASSUME NodesAssumption == IsFiniteSet(Nodes)
ASSUME QuorumAssumption == Quorum \in Nat \ {0}
ASSUME RetriesAssumption == MaxRetries \in Nat \ {0}
ASSUME BoundsAssumption == {MaxHeight, MaxTimeouts, MaxStops} \subseteq Nat

VARIABLES
    config,       \* of each node
    stage,        \* how far each node has come
    attempt,      \* of init_forkchoice, the next one
    reth,         \* of each node: "down", "up", "ready" (has a fork choice)
    view,         \* the engine's view, modulo the number of validators
    voting,       \* the view has a proposal
    height,       \* the next height to decide
    lastProposed, \* last_proposed_height, 0 for None
    lost,         \* history: proposals at this height that were nullified
    timeouts,
    stops

startV == <<stage, attempt, reth>>
viewV == <<view, voting, height, lastProposed, lost, timeouts>>
vars == <<config, startV, viewV, stops>>

Stages == {"load", "celestia", "execution", "forkchoice", "identity", "runtime",
           "running", "failed", "panicked"}

Init ==
    /\ config \in Configs
    /\ stage = [v \in Nodes |-> "load"]
    /\ attempt = [v \in Nodes |-> 1]
    /\ reth = [v \in Nodes |-> "down"]
    /\ view = 0 /\ voting = FALSE /\ height = 1
    /\ lastProposed = [v \in Nodes |-> 0]
    /\ lost = 0 /\ timeouts = 0 /\ stops = 0

----------------------------------------------------------------------------
(* The start of a node                                                     *)

Has(v, mistakes) == config[v].mistakes \cap mistakes # {}
Goes(v, next) == stage' = [stage EXCEPT ![v] = next]

\* config::load derives the addresses from the seeds if none are listed, and
\* validate only asks for addresses.
HasValidators(v) == config[v].explicit \/ config[v].seeds # <<>>

LoadConfig(v) ==
    LET valid == /\ ~Has(v, {"unreadable", "chain_id", "celestia_addr", "reth_url"})
                 /\ HasValidators(v)
    IN  /\ stage[v] = "load"
        /\ Goes(v, IF valid THEN "celestia" ELSE "failed")
        /\ UNCHANGED <<config, attempt, reth, viewV, stops>>

\* init_celestia: CelestiaClient::new, which also connects.
InitCelestia(v) ==
    /\ stage[v] = "celestia"
    /\ \/ ~Has(v, {"namespace", "celestia_key"}) /\ Goes(v, "execution")
       \/ Goes(v, "failed")
    /\ UNCHANGED <<config, attempt, reth, viewV, stops>>

RethStarts(v) ==
    /\ reth[v] = "down"
    /\ reth' = [reth EXCEPT ![v] = "up"]
    /\ UNCHANGED <<config, stage, attempt, viewV, stops>>

\* init_execution and get_genesis_hash, which is asked for once.
InitExecution(v) ==
    /\ stage[v] = "execution"
    /\ Goes(v, IF Has(v, {"jwt"}) \/ reth[v] = "down" THEN "failed" ELSE "forkchoice")
    /\ UNCHANGED <<config, attempt, reth, viewV, stops>>

LastByCount(n) == n > MaxRetries
IsLast(n) == n = MaxRetries

\* init_forkchoice: the loop ends in unreachable!().
InitForkchoice(v) ==
    /\ stage[v] = "forkchoice"
    /\ \/ /\ Goes(v, "identity")
          /\ reth' = [reth EXCEPT ![v] = "ready"]
          /\ UNCHANGED attempt
       \/ /\ Goes(v, IF IsLast(attempt[v]) THEN "failed"
                     ELSE IF attempt[v] = MaxRetries THEN "panicked" ELSE "forkchoice")
          /\ attempt' = [attempt EXCEPT ![v] = @ + 1]
          /\ UNCHANGED reth
    /\ UNCHANGED <<config, viewV, stops>>

\* build_validator_set: our key must be one of the seeds' keys.
AcceptsAddresses(v) == HasValidators(v)
IsListed(v) == config[v].key \in Listed(config[v])

\* build_runtime_config comes after reth has been given its fork choice.
BuildRuntimeConfig(v) ==
    /\ stage[v] = "identity"
    /\ Goes(v, IF Has(v, {"key_file", "address"}) \/ ~IsListed(v)
               THEN "failed" ELSE "runtime")
    /\ UNCHANGED <<config, attempt, reth, viewV, stops>>

\* Set::from_iter_dedup: the order of the seeds and repetitions are lost.
Participants(v) == Listed(config[v])

\* init_from_celestia may fail.  start_simplex_runtime asks is_validator, and
\* create_scheme and validator_index then expect the key to be there.
StartRuntime(v) ==
    /\ stage[v] = "runtime"
    /\ \/ Goes(v, "failed")
       \/ /\ IsListed(v)
          /\ Goes(v, IF config[v].key \in Participants(v) THEN "running" ELSE "panicked")
    /\ UNCHANGED <<config, attempt, reth, viewV, stops>>

Start(v) ==
    \/ LoadConfig(v) \/ InitCelestia(v) \/ InitExecution(v) \/ InitForkchoice(v)
    \/ BuildRuntimeConfig(v) \/ StartRuntime(v)

\* A node that runs may be stopped, or its finalization loop end (see Node).
Stop(v) ==
    /\ stage[v] = "running"
    /\ stops < MaxStops
    /\ stops' = stops + 1
    /\ Goes(v, "failed")
    /\ UNCHANGED <<config, attempt, reth, viewV>>

----------------------------------------------------------------------------
(* Roles                                                                   *)

Running == {v \in Nodes : stage[v] = "running"}

\* validator_index is a position in the list of seeds as configured, while
\* num_validators is the size of the set.
FirstIndex(v) ==
    CHOOSE i \in DOMAIN config[v].seeds :
        /\ config[v].seeds[i] = config[v].key
        /\ \A j \in 1 .. i - 1 : config[v].seeds[j] # config[v].key
PositionFromOne(v) == FirstIndex(v)
Position(v) == FirstIndex(v) - 1

LeaderIndex(h, n) == h % n
Leads(v, h) == LeaderIndex(h, Cardinality(Participants(v))) = Position(v)

\* The engine's elector goes round the set of participants by view.
InTurn(v) == view = Cardinality({k \in Participants(v) : k < config[v].key})

----------------------------------------------------------------------------
(* Views                                                                   *)

\* Engines with different sets of participants do not accept each other.
Together == \A v, w \in Running : Participants(v) = Participants(w)
QuorumRuns == Together /\ Cardinality(Running) >= Quorum

NextView == view' = (view + 1) % Cardinality(UNION {Participants(v) : v \in Running})

StaleProposal(v) == lastProposed[v] # 0 /\ lastProposed[v] >= height - 1
AlreadyProposed(v) == lastProposed[v] # 0 /\ lastProposed[v] >= height

NextHeight(v) == height + 1
ProposedHeight(v) == height

Propose(v) ==
    /\ QuorumRuns /\ ~voting
    /\ height <= MaxHeight
    /\ v \in Running /\ InTurn(v)
    /\ ~AlreadyProposed(v)
    /\ lastProposed' = [lastProposed EXCEPT ![v] = ProposedHeight(v)]
    /\ voting' = TRUE
    /\ UNCHANGED <<config, startV, view, height, lost, timeouts, stops>>

\* Nobody is there to propose, or proposes null, which everyone rejects.
NullifyNull ==
    /\ QuorumRuns /\ ~voting
    /\ \A v \in Running : InTurn(v) => AlreadyProposed(v)
    /\ NextView
    /\ UNCHANGED <<config, startV, voting, height, lastProposed, lost, timeouts, stops>>

\* A leader whose clock or reth is not ready proposes null, or is late.
NullifyUnready ==
    /\ QuorumRuns /\ ~voting
    /\ timeouts < MaxTimeouts
    /\ timeouts' = timeouts + 1
    /\ NextView
    /\ UNCHANGED <<config, startV, voting, height, lastProposed, lost, stops>>

\* A proposal that too few see in time; it is never proposed again.
NullifyProposal ==
    /\ QuorumRuns /\ voting
    /\ timeouts < MaxTimeouts
    /\ timeouts' = timeouts + 1
    /\ lost' = lost + 1
    /\ voting' = FALSE
    /\ NextView
    /\ UNCHANGED <<config, startV, height, lastProposed, stops>>

Decide ==
    /\ QuorumRuns /\ voting
    /\ height' = height + 1
    /\ lost' = 0
    /\ voting' = FALSE
    /\ NextView
    /\ UNCHANGED <<config, startV, lastProposed, timeouts, stops>>

----------------------------------------------------------------------------
Views == (\E v \in Nodes : Propose(v)) \/ NullifyNull \/ Decide

Next ==
    \/ \E v \in Nodes : Start(v) \/ RethStarts(v) \/ Stop(v)
    \/ Views \/ NullifyUnready \/ NullifyProposal

Spec == Init /\ [][Next]_vars

\* A node's start goes on until it runs or fails.  Views time out a finite
\* number of times for other reasons than their leader: the network is
\* eventually synchronous.
Fairness ==
    /\ \A v \in Nodes : WF_vars(Start(v))
    /\ WF_vars(Views)

FairSpec == Spec /\ Fairness

----------------------------------------------------------------------------
(* Properties                                                              *)

\* Every variable keeps the shape of the state it stands for.
TypeOK ==
    /\ config \in Configs
    /\ stage \in [Nodes -> Stages]
    /\ attempt \in [Nodes -> 1 .. MaxRetries + 1]
    /\ reth \in [Nodes -> {"down", "up", "ready"}]
    /\ view \in Nat
    /\ voting \in BOOLEAN
    /\ height \in 1 .. MaxHeight + 1
    /\ lastProposed \in [Nodes -> 0 .. height]
    /\ lost \in 0 .. timeouts
    /\ timeouts \in 0 .. MaxTimeouts
    /\ stops \in 0 .. MaxStops

\* However the start goes, and whatever the file says, no node panics: not in
\* the unreachable!() after the retries, nor in the expect()s of a runtime
\* that trusts its caller to have checked the validator set.
NeverPanics == \A v \in Nodes : stage[v] # "panicked"

SameSeeds == \A v, w \in Running : config[v].seeds = config[w].seeds
Complete == \A v \in Running : Participants(v) = {config[w].key : w \in Running}
Distinct(s) == \A i, j \in DOMAIN s : s[i] = s[j] => i = j
OwnKeys == \A v, w \in Nodes : config[v].key = config[w].key => v = w

\* Nodes that have been given one list of seeds never both submit a height;
\* if no seed is repeated and all are there, each height has its submitter.
OneLeader ==
    SameSeeds /\ OwnKeys =>
        \A h \in 1 .. MaxHeight + Cardinality(Nodes) :
            LET leaders == {v \in Running : Leads(v, h)}
            IN  /\ Cardinality(leaders) <= 1
                /\ Complete /\ Running # {} /\ (\A v \in Running : Distinct(config[v].seeds))
                   => leaders # {}

\* Nobody who runs may propose again.
Exhausted == ~voting /\ \A v \in Running : lastProposed[v] >= height

\* That takes a nullified proposal of every running node at one height: fewer
\* lost proposals never end the chain.
HaltTakesEveryProposal == Exhausted => lost >= Cardinality(Running)

\* With a quorum of nodes that agree on the set, heights are decided once
\* views stop timing out, unless every node has lost its proposal.
DecidesUnlessExhausted ==
    []<>(height > MaxHeight \/ ~QuorumRuns \/ Exhausted)

\* A quorum of honest validators makes progress
\* (docs/running-3-validator-network.md:302).
QuorumDecides == []<>(height > MaxHeight \/ ~QuorumRuns)
=============================================================================
