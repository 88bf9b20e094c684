# A model of the rkb sequencer

rkb is a proof-of-authority sequencer. Validators agree on blocks with Simplex
BFT (the commonware library), have them built and executed by reth over the
Engine API, and publish them on Celestia. A block is *soft* once consensus has
decided it and *firm* once Celestia has included it.

This directory holds TLA+ modules of the node, TLC runs over small instances,
and proofs for every value of the constants. Paths below are relative to
`src/crates/` unless they start with `README` or `docs`.

## Inventory

| Component | State | Operations | Correct if |
| --- | --- | --- | --- |
| Consensus application (`consensus/src/application.rs`) | height, last hash, pending blocks and payloads, verified digests, last proposed height, mailbox | genesis, propose, verify, finalize, receive block | finalizes one chain, one block per height, the same one everywhere; builds at most one block per height |
| Reporter (`consensus/src/reporter.rs`) | none | report | every finalization reaches the mailbox |
| Block relay (`consensus/src/runtime.rs`) | place in the broadcast channel | send a proposed block, forward a received one | a block arrives before its certificate; the newest proposal is taken up |
| Finalization loop (`consensus/src/runtime.rs`) | place in the broadcast channel | hand a block to the callback, end | every finalized block, in order |
| Leader election (`consensus/src/leader.rs`) | none | leader of a height | exactly one validator submits a height |
| Start of a node (`sequencer/src/cli.rs`, `config.rs`, `simplex_sequencer.rs`) | stage of the start, retries | load, validate, connect, set the first fork choice, build the validator set | a node runs with a sound configuration or stops with an error; nodes of one configuration agree on roles |
| Finalization callback (`sequencer/src/simplex_sequencer.rs`) | shared fork choice, executed blocks | execute, move head, queue or submit | an executed block is known to reth with its ancestors; a led block is published or logged |
| Event loop (same file) | shared fork choice | firm confirmation, ctrl-c | FINALIZED only moves forward, and only to confirmed blocks |
| Batch loop (same file) | pending blocks and their size, consecutive failures | receive, tick, submit, restore, shut down | no block is lost before the loop gives up, Celestia sees blocks in order, batches stay bounded |
| DA synchronization (same file) | position in the fetched range | skip, execute, update, index | nothing is skipped, consensus goes on where the sync ended |
| Celestia client (`celestia/src/client.rs`, `retry.rs`) | reconnect counter | submit with retries, track headers, fetch | one confirmation per block, after its inclusion |
| Finality tracker (`celestia/src/finality.rs`) | pending submissions, finalized height | track, take what a header finalizes | order and multiplicity of confirmations |
| Block index (`celestia/src/index.rs`) | file, maps | open and replay, insert | the file rebuilds the maps |
| Execution client (`execution/src/client.rs`, `forkchoice.rs`) | cached fork choice | newPayload, forkchoiceUpdated, getPayload, first fork choice with retries | its copy is what reth was told |
| p2p and engine parameters, JWT, types | none at run time | parsing and formatting | not modelled, see below |

How they interact: the Simplex engine, the reporter and the relay put messages
into the application's bounded mailbox. The application drives reth directly
and broadcasts finalized and proposed blocks to two tasks of its runtime: the
finalization loop, whose callback executes each block *again*, moves the shared
fork choice and hands the block to the batch loop if the validator leads the
height; and the relay, which tries to send a proposal once. The batch loop,
which lives in another runtime, submits to Celestia and spawns tracking tasks;
the tracker turns headers into confirmations; the event loop turns
confirmations into a firm fork choice. At the start, before all that, a node
checks its configuration, connects, gives reth its first fork choice and
replays blocks from Celestia.

What is hard: messages that are lost, late or refused by a full mailbox;
channels that overwrite what a slow task has not read, and channels that make
a task wait; three tasks that read, await and write copies of one fork choice;
retries of calls whose answer was lost; counters of consecutive failures;
tasks that end while others go on; proposals that are nullified and never
repeated; crashes between the steps of a replay and in the middle of an
append. `PROJECT.json` lists these hazards at their lines, with the properties
that are about them.

## Modules

**`Application.tla`** - all validators, their relay and the engine as they see
it. One variable per field of `Application`; `inbox` is the mailbox; one action
per message handler (`HandleGenesis`, `ProposeNull` and `ProposeBlock` for
`propose`, `HandleVerify`, `IgnoreFinalization` and `FinalizeBlock` for
`finalize`, `HandleReceive`). `finalizedLog` is what `broadcast_finalized` sent.
A block is its position in the history `blocks`; digest and hash are injective.
Simplex is external: views in sequence, a leader who is asked to propose,
validators who are asked to verify, certificates reported in view order. Any
validator may lead any view (`AskPropose`), so no election order is assumed.
`Faults` chooses what the environment may do: `lost` (the relay skips a block),
`late` (a certificate overtakes its block), `gap` (a certificate is never
reported), `full` (a message meets a full mailbox). A view may always be
nullified. reth's answers to a proposal are a choice here. `Quorum` is any
positive number: with the one seed of the default configuration it is one, a
validator's own vote is a quorum, and what it answers, null included, is
notarized. `NullOnlyByLeader` is therefore about votes: nobody else votes for a
null digest.

**`ReplicatedLog.tla`, `ApplicationRefinement.tla`** - what the validators
promise together, and that `Application` without faults implements it: one log
of decided blocks, which every validator learns from the beginning, without a
gap (`LogSpec`), and to its end (`EverythingLearned`). The refinement mapping
takes as decided what the certificates alone decide: at each height that has a
certificate of a block, the first one (`Decided`). A certificate of the null
digest (`BlockCerts` leaves it out) decides nothing, as `finalize` finds no
block for it.

**`Node.tla`** - one running node: its tasks and the channels between them.
`decided` and `proposed` are the two broadcast channels, which overwrite what a
receiver lags behind (`Lags`); `loop` is the finalization loop with its
callback, which waits while `queue`, the batch channel, is full; `relay` the
block relay, which takes a proposal up and either sends it (`relayed`) or does
not (`unsent`: the rate limit, an error of the channel or of the
serialization), and never tries again; `batchTask` and `batch` the batch loop;
`process` the process, which ctrl-c ends. A lagging finalization loop ends, and
with it `run_simplex`, its runtime and the sender of `queue`. The batch task
notices the closed channel and submits what it has once more. A batch task that
ends, and a process that exits, drop `batch` and `queue`: `LedBlocksAccounted`
says that a block is otherwise in one place (`InOnePlace`) and that these are
the only ways to lose one (`LossExplained`).

**`Forkchoice.tla`** - one validator: the application actor, the callback and
the event loop, with reth and the two copies of the fork choice. A step is one
RPC or one lock: reading the cached fork choice and asking reth to build on it
are two (`BuildRead`, `BuildUpdate`), and so are the insert into
`executed_blocks` and the submission (`Track`, `Submit`). `appPc`, `cbPc` and
`finPc` are the places of the three tasks between two awaits, and `appState`,
`cbState` and `finState` the fork choice each is about to send. Consensus
delivers one chain here, so a block is its height. reth is external: newPayload
is VALID iff the parent is known, forkchoiceUpdated refuses a finalized block
that is not an ancestor of the head, and may skip an update to an ancestor of
its head.

**`DaSubmission.tla`** - from the callback to the confirmation: batch channel,
`BatchState`, `with_retry`, immediate submission, spawned tracking tasks, the
tracker with its reconnects and the bounded channel of confirmations. Celestia
is external: a submission is included at one new height or not, and the
answer may be lost either way. A loop that ends returns, and its state and its
channel are dropped (`LoopEnds`). Two history variables keep what is lost:
`abandoned` the blocks the callback has logged as failed, `dropped` those that
went with the loop.

**`FinalityLedger.tla`** - what the submission promises: blocks are handed over
in order, a blob publishes all that were handed over up to some block, each
block is published and confirmed once, and only blocks that have not been
published can be abandoned, all of them up to some block: what is published
after a loss was handed over after what was lost. `DaSubmission` implements it;
`Status` maps a block to what Celestia and the event loop know of it. `Node`
implements it too, for the way from consensus to the submission: a block the
callback has passed is "handed" while callback, channel or batch holds it,
"included" once submitted, and otherwise "abandoned", which there also means
that it was lost with batch and channel, that another node leads it or that its
execution failed. `Node` sees no confirmations.

**`DaSync.tla`** - the start: `init_components`, replay of the index file, the
sync, the start of the application, with crashes and torn lines. The file is a
sequence of lines which may lack their newline or be malformed. `synced` is a
history variable.

**`Cluster.tla`** - a network from its configuration files on. Each node goes
through `load`, the connections, `init_forkchoice` with its retries,
`build_runtime_config` and the start of consensus, or stops with an error, as
its file allows. The running nodes then take turns at proposing: a view has a
proposal or times out, and `last_proposed_height` keeps a node from proposing
twice at a height. Their heights move together, so what differs between nodes
in `Application` is left out; `lost`, a history variable, counts the nullified
proposals of a height.

The `MC*` modules define the small instances. The `*Proofs` modules hold the
theorems; `NumberFacts.tla` holds three lemmas on sets of numbers they share.

The modules meet where one assumes what another shows. `Forkchoice` takes one
chain from consensus, which is `LogSpec` of `ApplicationRefinement` in the
absence of faults. `Forkchoice` and `DaSubmission` are given blocks one by one
and in order, which is `LedgerSpec` of `Node`; of the batch loop, `Node`
keeps only where a block is, and `DaSubmission` what happens to it there.
`DaSync` takes from Celestia any set of blocks that the batch loops of several
leaders can leave there. `Node` and `Forkchoice` are given a place in the
validator set, on which nodes agree by `OneLeader` of `Cluster`.

In each module, some operators stand directly before the definition they vary
(`AnyHeight` before `ExpectedHeight`, `DropBatch` before `RestoreBatch`). They
are plausible defects; nothing in the specification uses them. `PROJECT.json`
pairs each of them with a property it must break.

## Runs

A run is `tlc -config <name>.cfg <module>`. Deadlock is not checked anywhere:
blocks, views, errors and crashes are bounded, so every model stops in the end,
and a node whose loop or tracker has given up really stops too.

| Run | Instance | Shows |
| --- | --- | --- |
| `ApplicationFaults` | 2 validators, quorum 2, mailbox 2, 3 views, every fault, symmetry | type, paired maps, the log without gaps, one proposal per height, no vote for null but the leader's |
| `ApplicationAgreement` | the same without faults, mailbox 3, fair | one chain at all validators, although `verify` accepts unknown digests and `finalize` compares heights only; the validators implement `ReplicatedLog`, and every decided block is learned by all |
| `ForkchoiceTasks` | 4 blocks, one of 2 validators, confirmations in any order, 2 lost calls, fair | FINALIZED was confirmed and executed; HEAD was decided; what is executed is known to reth, and is marked so before its confirmation; only a firm confirmation moves HEAD back; without confirmations HEAD is the latest decided block when the tasks are idle; reth gets back in sync |
| `DaBatch` | 3 blocks of unequal size, channels of 1, 2 attempts, 4 errors, with batches and without, fair | nothing lost but what the callback logs and what a loop that gives up drops, exact and bounded batches, order on Celestia, one confirmation, every block settled in the end; implements `FinalityLedger` |
| `SyncCrash` | 3 blocks, 4 layouts, 3 crashes | the index never promises what reth does not have; a finished sync has no hole; no process executes a block twice, or one that the file still has |
| `NodeTasks` | 5 blocks, 3 proposals, broadcast channels of 2, batch channel of 1, 2 errors, both modes, leads all, fair | blocks are handed over and published in order, none skipped: implements `FinalityLedger`; a led block is in one place, was logged, or was lost with the process or with a batch task that gave up; while the process is up, one that was not lost or logged is published in the end; the callback catches up; the newest proposal is taken up |
| `ClusterStart` | 3 nodes, 16 configurations, quorum 2, 2 retries, 2 heights, 3 timeouts, 1 stop, fair | no panic; one submitter per height; heights are decided unless every running node has lost its proposal |

The bounds are the smallest at which the interesting cases occur. Three views
give two blocks at one height and one above; two validators are a proposer and
one that hears of blocks through the relay only. Three blocks let a write
overtake two others, and the fourth follows a confirmation. Mailboxes and
channels of one to three messages fill up; with five blocks the loop lags
behind a channel of two while the callback, with the second block, waits for
room in the queue. Two attempts and two consecutive failures reach each limit
while it can still be reset. The runs of `Application` have a quorum of two,
where votes have to come together; the theorems hold for one as well. Three
crashes allow a torn line, an append after it and another crash. The
configurations of `MCCluster` are four lists of seeds, each mistake in one
node's file, and one node with another order, with addresses only, or with
nothing; three timeouts lose the proposal of every node once.

These runs are expected to fail, each showing that the code does not do what a
comment or document of the repository says:

| Run | Statement | What happens |
| --- | --- | --- |
| `ApplicationFork` | "PoA validators agreed" (`README.md:76`) | a block the relay skipped once is unknown to `finalize`; the validator stays behind, builds another block at that height, and gets it finalized |
| `ForkchoiceRegress` | "Only moves finalized forward." (`execution/src/forkchoice.rs:40`) | the callback stores a fork choice it read before a firm confirmation |
| `SyncHeight` | "Replays historical blocks to catch up with the network" (`sequencer/src/simplex_sequencer.rs:218`) | the application starts at height 1 after the sync |
| `SyncIndex` | the file "is replayed to rebuild the in-memory index" (`celestia/src/index.rs:9`) | a torn line swallows the entry appended after it |
| `ClusterHalt` | "Requires 2/3+ (≥2) honest validators for progress" (`docs/running-3-validator-network.md:302`) | three nodes whose proposals at one height were all nullified answer every later request with null, and the chain stands still with all of them up |

The models also reach situations that no property forbids, because the code
means them or says nothing of them.

* In `Forkchoice`, the event loop can ask reth to finalize a block above the
  head of the copy it read (reth refuses), and it can store an old head, which
  stays until the next block.
* In `Application` with a quorum of one, a null proposal is notarized and
  finalized by its leader alone. `finalize` knows no block of it and ignores it,
  so the chain is the same.
* In `DaSubmission`, a loop that stops after too many failures takes the blocks
  it restored and those in its channel with it
  (`sequencer/src/simplex_sequencer.rs:619`), and later blocks are only logged;
  the last submission at a shutdown is tried once and its result ignored. The
  tracker's count of
  failures is never reset although headers arrive in between
  (`celestia/src/client.rs:219`), so on a long run it gives up.
* In `Node`, consensus ends for good when the callback lags
  (`consensus/src/runtime.rs:440`, where the comment at 299 has "until
  shutdown"), while the process stays up. A led block whose execution fails is
  not published by its leader nor by anyone else. Ctrl-c drops batch and
  channel. A proposal that the relay could not send is not sent again.
* In `DaSync`, consensus starts without any synchronization when the tracker
  has not seen a header (`SkipSync`).
* In `Cluster`, a key that is not among the validators is noticed only after
  reth was given its fork choice; the genesis hash is asked for once, although
  the call after it is retried; `validate` looks at `validators` while the
  runtime uses `validator_seeds`. `genesis_block_hash` and `validator_seed` of
  the configuration are read by nobody.

### Fairness

Only weak fairness is assumed, and only of what the runtimes keep polling: the
actor loop, the relay task, the reporter, the callback, the event loop, the
batch loop, spawned tasks and the tracker. In `DaSubmission` it also means that
Celestia announces its latest header and that a submission which the bounded
number of errors does not hit is answered; in `Node`, that a call the callback
or the batch task makes returns. In `Cluster`, the start of a node goes on,
reth starts, views have a leader who is asked, and a view with a live proposal
is decided unless it times out; the number of timeouts is finite, which stands
for the eventual synchrony that a BFT engine needs. Nothing is assumed of
leaders, votes, certificates and proposals in `Application`.

## Proofs

Every theorem is about the specification with its constants left open, from the
named assumptions on the constants only.

**`ApplicationProofs.tla`**, for every finite non-empty validator set, quorum
of at least one, mailbox size, number of views and set of faults: `TypeOK`,
`BlocksHavePayloads`, `LogMatchesState`, `OneProposalPerHeight` and
`NullOnlyByLeader`. The first four and `ProposalsRemembered` are one
inductive invariant, `IInv`. None of them but the types and the pairing is
inductive alone: that a new block does not repeat a height follows from
`ProposalsRemembered`, which says that the guard of `propose` covers all
earlier blocks, and from `LogMatchesState`, which makes the height of the block
reth builds (its parent's plus one) the height that the guard speaks of. Two
actions carry the argument, `ProposeBlockIInv` and `FinalizeBlockIInv`; every
other action leaves heights alone (`HeightsKept`). `NullTheorem` rests on a
second invariant, `RInv`: a request to verify in a mailbox is about the
proposal of its own view, so nobody who sees a null digest accepts it, and a
null proposal keeps exactly its leader's vote. `NullNotarized`, its last part,
draws the consequence: where null is notarized, one vote is a quorum.
`AskInvariance` counts: the engine asks for one proposal per view, a request is
answered once, however long it waits in a mailbox, so the blocks built and the
requests that wait (`Waiting`) are together no more than the views asked.
`CertifiedTheorem` says what is left of agreement under faults: what a
validator finalizes has a certificate.

**`AgreementProofs.tla`**, under the assumption `Faults = {}` (blocks relayed in
time, certificates complete and in order, mailboxes that are not full):
`Agreement`, `FinalizedChain` and `LogSpec`. `finalize` compares heights and
nothing else, so the argument has to say why that is enough. `ChainInv`: the
block a validator finalizes at a height is the first one certified there
(`IsFirst`), of which there is one; a block's parent was finalized by its
builder before it was built, so the certificates never skip a height. `MailInv`:
in a validator's mailbox each certificate stands behind all earlier ones and
behind its own block, or those are past. The head of a mailbox is then never
above the validator's height, its block is held, and if it is at that height it
is the first one (`HeadOfBox`). A certificate may also be of the null digest,
if the quorum is one; it is no block's (`CertIsBlock`, `BlockCertsAre`), decides
nothing and is ignored. `LogTheorem` is the refinement. As no height is
skipped, the decided blocks are a sequence (`HeightsAre`, `DecidedIs`); as
certificates and blocks stay, a step leaves it alone or appends to it
(`DecidedGrows`, `DecidedSame`), and one certificate appends at most one block,
which was not in it (`CertifyDecides`); `finalize` takes the one at the next
place (`FinalizeLearns`). That the log is not longer than the abstract one may
get is `AskInvariance`. The run `ApplicationFork` shows that the assumption on
the faults is needed; on its instance any one of the four is enough for two logs
to differ.

**`NodeProofs.tla`**: `TypeOK`, `LedBlocksAccounted` and `LedgerSpec`. The
invariant adds that the callback is given 1, 2, 3, ... (`NoBlockSkipped`), that
the block in its hands is above all blocks it has executed before, which is why
it cannot bring a block twice to a place, and, as `TaskState`, that a batch task
that waits has failures left, that one that ended has nothing in its hands, and
that there were as many errors as there are failures in a row. `LossExplained`
needs all three. A second invariant, `InOrder`, is about order: batch and channel
are sorted, what is in the batch is below what is in the channel, and both are
below the block in the callback's hands. Without it a batch that is submitted
could pass a block that is still to come. `LedgerTheorem` is then the
refinement: `Execute` is `HandOver` of the ledger, queueing and restoring leave
every status alone, a submission is one `Publish` up to the last block of the
batch (`PublishSome`), and the end of the batch task or of the process is one
`Abandon` up to the last block it drops, as is a logged failure.

**`ClusterProofs.tla`**: `TypeOK`, `NeverPanics`, `OneLeader` and
`HaltTakesEveryProposal`.
The invariant relates a node's stage to what the checks on the way have
established about its file (`Sound`), the nodes that have proposed at a height
to the proposals that were nullified there (`Counted`), and says when a view
can have a proposal (`Open`). `OneLeader` follows from `Sound`: a
node that runs has found its key in its list of seeds (`FirstIndexIs`), so two
nodes with one list that claim one height have one key; and if all `n` keys of
a list without repetitions run, their places are `n` different ones
(`ListedCount`), one of which the height falls to.

**`ForkchoiceProofs.tla`**: `TypeOK`, `FinalizedWasConfirmed`,
`HeadWasDecided`, `ConfirmationsAreExecuted`, `ExecutedIsKnown`,
`HeadFollowsConsensus` and the action property `HeadBackByFirm`. The invariant
speaks of all copies at once, those that a task has read and not yet written
included, so it does not matter in which order they are written.
`ConfirmationsAreExecuted` rests on one part of it, `SubmittedWasExecuted`:
Celestia confirms what was submitted, which the callback had inserted one step
earlier. The statements about the head before the first confirmation
(`HeadFollowsConsensus`, and `HeadForwardTheorem`: HEAD does not move back
then) need a second invariant: `SoftKept` says what the callback is about to
store, `CleanKept` that while no call has failed reth is behind only as long as
the callback has a block that brings it forward. `HeadWriterTheorem` and
`FinalizedWriterTheorem` say what is left of order once confirmations arrive:
the callback never moves HEAD of the shared fork choice back (`HeadKept`), and
with confirmations in block order (`InOrder`) the event loop never moves
FINALIZED back (`OrderKept`). What the run `ForkchoiceRegress` shows moving
back is thus always the field the writer did not mean to write, out of a state
it read before the other one's update. `SoundTheorem` says that such a state is
still one that reth accepts: in the shared fork choice, in the client's copy
and in reth FINALIZED is never above HEAD, and reth refuses neither the actor
nor the callback. The argument (`SoundKept`) is that a confirmed block was
submitted and so lies below the block the callback is at, which lies at or
below the actor's; only `finState` can have a finalized block above its head,
and the event loop stores it only after reth has accepted it.

**`DaSyncProofs.tla`**: `TypeOK`, `IndexedIsExecuted`, `SyncIsComplete`,
`NoReexecution` and `LossTheorem`. The invariant follows the block in progress
from the fetched range through reth into the index, and says of every place of
the range that the sync has passed that its block is in reth with its
ancestors. The sync takes blocks in order of height, so the argument needs the
least-number principle (`NumberFacts`). `LossTheorem` is the extent of what the
run `SyncIndex` shows, and `LossInv` its invariant: an open index never misses
an entry of the file, the file misses at most two entries of the index, the one
that was torn and the one appended to the torn line, and none unless a process
has crashed. It also gives the second half of `NoReexecution`, that a process
does not execute a block the file still has.

**`DaSubmissionProofs.tla`**: `TypeOK`, `SizeIsExact`, `BatchIsBounded`,
`NothingLost`, `ConfirmedOnce`, `InclusionInOrder` and, above these,
`LedgerSpec`: the submission implements `FinalityLedger`. Two invariants
together have every block in one place, or dropped with the loop. `LoopInv`
keeps the blocks of the loop in order, so that a blob brings all blocks handed
over before its last one; `TrackInv` keeps tracking tasks, the tracker's map,
the confirmations being sent and those sent disjoint, so that a block is
confirmed once. A blob is then one `Publish` of the ledger, up to the last
block it brings for the first time, and a retry of what was included is none.
The end of the loop is one `Abandon`, up to the last block it drops.
`NothingLost` also says what has to have failed by then; that is the third
one's (`Counted`: each failed call has used all its attempts). A third,
`BatchInv`, is about sizes and limits. What a batch weighs is a recursive
function on the length of a sequence (`Sizes`); that it is defined for every
sequence, grows with it and is extended by `Append` is proved by induction on a
set of numbers (`Induction` of `NumberFacts`, since a theorem with an operator
as parameter cannot be cited). `BatchIsBounded` is not inductive: a batch takes
a block before its size is looked at, so `Bounded` gives a batch that waits one
block less to spare than one that is being submitted (`Spare`).

Only model-checked: the properties of liveness (`EverythingLearned`,
`InSyncAgain`, `EventuallyConfirmed`, `LoopCatchesUp`, `LedBlocksPublished`,
`NewestIsTakenUp`, `DecidesUnlessExhausted`), as fairness and ENABLED are beyond
the prover. Every other property of the passing runs is a theorem.

## Not modelled

* `Mailbox::broadcast`, `Mailbox::certify`, the client's accessors, logging and
  metrics: they change nothing.
* `consensus/src/network.rs` and the engine's parameters (quotas, timeouts,
  namespaces): values handed to external libraries. What they may cause, lost
  messages and nullified views, is a fault of `Application` and `Cluster`.
* Signatures, serialization, JWT: pure functions, taken to be lossless or
  injective. Of the configuration, only what decides how far a node starts.
* The commands `init`, `keygen` and `celestia-address`, which write or print once.
* The values of timeouts and backoffs: when they expire is a free choice.
* Restarts of a node in `Application` and `Node`; `DaSync` has them for the start.
* An application's block keeps its identity: two proposals are two blocks.

## Plan

1. Application under faults; the fork choice; submission; synchronization (done).
2. The runtime's tasks and channels; the start of a network and its progress (done).
3. The replicated log and the finality ledger, with their refinements (done).
4. Inductive invariants of the modules, the ledger's refinement proved (done).
5. Proofs of `Agreement`, `FinalizedChain` and the replicated log without
   faults; of one leader per height; of the sizes and bounds of batches (done).
6. A module of the pure functions (backoff, leader rotation, block timing)
   against reference definitions.
7. Restarts in `Application`, where everything but reth is forgotten.
