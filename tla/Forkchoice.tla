----------------------------- MODULE Forkchoice -----------------------------
(***************************************************************************)
(* The fork choice of one validator: who moves HEAD, SAFE and FINALIZED,   *)
(* in which order and from which copy (crates/execution client.rs and      *)
(* forkchoice.rs, crates/sequencer simplex_sequencer.rs, the reth half of  *)
(* crates/consensus application.rs).                                       *)
(*                                                                         *)
(* Three tasks talk to one reth and share two copies of the fork choice:   *)
(*   - the Application actor applies a finalized payload, imports relayed  *)
(*     ones and starts building, from ExecutionClient's copy "cached";     *)
(*   - the finalization callback executes the same block again and writes  *)
(*     both copies (soft confirmation);                                    *)
(*   - the event loop handles Celestia confirmations and writes both       *)
(*     copies (firm confirmation).                                         *)
(* No lock is held across an RPC: a task reads a copy, calls reth, writes  *)
(* ExecutionClient's copy and then its own, and every one of these is a    *)
(* step of its own here.                                                   *)
(*                                                                         *)
(* Consensus hands out one chain (FinalizedChain of Application.tla), so a *)
(* block is its height and an ancestor is a smaller number; 0 is genesis.  *)
(***************************************************************************)
EXTENDS Integers, Sequences, FiniteSets

CONSTANTS
    MaxBlock,       \* bound: the last block consensus finalizes
    NumValidators,  \* participants.len()
    OurIndex,       \* validator_index()
    InOrder,        \* are confirmations emitted in block order?
    MaxErrors       \* bound: how many RPCs may fail

ASSUME MaxBlockAssumption == MaxBlock \in Nat \ {0}
ASSUME LeaderAssumption == NumValidators \in Nat \ {0} /\ OurIndex \in 0 .. NumValidators - 1
ASSUME InOrderAssumption == InOrder \in BOOLEAN
ASSUME MaxErrorsAssumption == MaxErrors \in Nat

VARIABLES
    appHeight,   \* Application.height; its last_hash is block appHeight - 1
    appPc,       \* "idle", "synced", "building", "applying", "update", "cache"
    appState,    \* the ForkchoiceState the actor is sending
    execNext,    \* the next block the finalization loop receives
    cbPc,        \* "idle", "read", "update", "cache", "store", "track", "submit"
    cbState,
    executed,    \* executed_blocks
    submitted,   \* blocks handed over for Celestia submission
    confirmed,   \* blocks Celestia has confirmed
    finalityRx,  \* confirmations on their way to the event loop
    finPc,       \* "idle", "read", "update", "cache", "store"
    finState,
    forkchoice,  \* the RwLock shared by the callback and the event loop
    cached,      \* ExecutionClient.forkchoice
    reth,        \* the node itself: fork choice and known blocks
    errors

appV == <<appHeight, appPc, appState>>
cbV == <<execNext, cbPc, cbState, executed, submitted>>
finV == <<confirmed, finalityRx, finPc, finState>>
vars == <<appV, cbV, finV, forkchoice, cached, reth, errors>>

Heights == 0 .. MaxBlock
State(h, s, f) == [head |-> h, safe |-> s, finalized |-> f]
GenesisState == State(0, 0, 0)

\* ForkchoiceState::with_soft and with_firm.
WithSafeOnly(s, b) == [s EXCEPT !.safe = b]
WithSoft(s, b) == State(b, b, s.finalized)
WithFirm(s, b) == [s EXCEPT !.finalized = b]

\* leader.rs: the leader of a height submits it, whoever proposed it.
LeaderIndex(h) == h % NumValidators
IsLeader(h) == LeaderIndex(h) = OurIndex

Init ==
    /\ appHeight = 1 /\ appPc = "idle" /\ appState = GenesisState
    /\ execNext = 1 /\ cbPc = "idle" /\ cbState = GenesisState
    /\ executed = {} /\ submitted = {}
    /\ confirmed = {} /\ finalityRx = <<>>
    /\ finPc = "idle" /\ finState = GenesisState
    /\ forkchoice = GenesisState
    /\ cached = GenesisState
    /\ reth = [fc |-> GenesisState, known |-> {0}]
    /\ errors = 0

----------------------------------------------------------------------------
(* reth, external                                                          *)

\* engine_newPayloadV3: VALID if the parent is known, otherwise SYNCING.
Connects(b) == b - 1 \in reth.known
NewPayload(b) ==
    reth' = [reth EXCEPT !.known = IF Connects(b) THEN @ \cup {b} ELSE @]

\* engine_forkchoiceUpdatedV3.  An unknown head answers SYNCING; a finalized
\* block that is not an ancestor of the head answers -38002.
HeadKnown(s) == s.head \in reth.known
Consistent(s) == HeadKnown(s) => s.finalized <= s.head /\ s.safe <= s.head

\* An update to an ancestor of the head may be skipped by the node.
ForkchoiceUpdated(s) ==
    IF ~HeadKnown(s) THEN UNCHANGED reth
    ELSE \/ reth' = [reth EXCEPT !.fc = s]
         \/ s.head < reth.fc.head /\ UNCHANGED reth

\* A request or its response is lost; the node may have acted on it.
Fails == errors < MaxErrors /\ errors' = errors + 1

\* The client sees an error: a lost call or an inconsistent state.
UpdateFails(s) ==
    \/ Fails /\ (UNCHANGED reth \/ (Consistent(s) /\ ForkchoiceUpdated(s)))
    \/ ~Consistent(s) /\ UNCHANGED <<reth, errors>>

UpdateSucceeds(s) ==
    /\ Consistent(s)
    /\ ForkchoiceUpdated(s)
    /\ UNCHANGED errors

----------------------------------------------------------------------------
(* The Application actor                                                   *)

\* handle_receive_block: a relayed block is imported, no fork choice moves.
ApplyRelayed(b) ==
    /\ appPc = "idle"
    /\ b >= appHeight
    /\ Connects(b)
    /\ reth' = [fc |-> State(b, b, cached.finalized), known |-> reth.known \cup {b}]
    /\ UNCHANGED <<appV, cbV, finV, forkchoice, cached, errors>>

ImportRelayed(b) ==
    /\ appPc = "idle"
    /\ b >= appHeight
    /\ NewPayload(b)
    /\ UNCHANGED <<appV, cbV, finV, forkchoice, cached, errors>>

\* wait_for_reth_sync: reth's head is our last block.  A head below is waited
\* for, and any other answer is a null proposal, which changes nothing.
CheckSync ==
    /\ appPc = "idle"
    /\ reth.fc.head = appHeight - 1
    /\ appPc' = "synced"
    /\ UNCHANGED <<appHeight, appState, cbV, finV, forkchoice, cached, reth, errors>>

\* start_building: head and safe are the parent, and "cached" is not written.
BuildRead ==
    /\ appPc = "synced"
    /\ appState' = State(appHeight - 1, appHeight - 1, cached.finalized)
    /\ appPc' = "building"
    /\ UNCHANGED <<appHeight, cbV, finV, forkchoice, cached, reth, errors>>

BuildUpdate ==
    /\ appPc = "building"
    /\ UpdateSucceeds(appState) \/ UpdateFails(appState)
    /\ appPc' = "idle"
    /\ UNCHANGED <<appHeight, appState, cbV, finV, forkchoice, cached>>

\* apply_to_reth only logs an error: height moves on and the block is
\* broadcast to the finalization loop.
Advance == appPc' = "idle" /\ appHeight' = appHeight + 1

\* finalize: apply_built_payload calls newPayload first; SYNCING is fine.
ApplyPayload ==
    /\ appPc = "idle"
    /\ appHeight <= MaxBlock
    /\ \/ NewPayload(appHeight) /\ appPc' = "applying" /\ UNCHANGED <<appHeight, errors>>
       \/ Fails /\ Advance /\ (NewPayload(appHeight) \/ UNCHANGED reth)
    /\ UNCHANGED <<appState, cbV, finV, forkchoice, cached>>

ApplyRead ==
    /\ appPc = "applying"
    /\ appState' = State(appHeight, appHeight, cached.finalized)
    /\ appPc' = "update"
    /\ UNCHANGED <<appHeight, cbV, finV, forkchoice, cached, reth, errors>>

ApplyUpdate ==
    /\ appPc = "update"
    /\ \/ UpdateSucceeds(appState) /\ appPc' = "cache" /\ UNCHANGED appHeight
       \/ UpdateFails(appState) /\ Advance
    /\ UNCHANGED <<appState, cbV, finV, forkchoice, cached>>

ApplyCache ==
    /\ appPc = "cache"
    /\ cached' = appState
    /\ Advance
    /\ UNCHANGED <<appState, cbV, finV, forkchoice, reth, errors>>

----------------------------------------------------------------------------
(* The finalization callback: process_finalized_block                      *)

\* A block that fails is left behind: no retry, no submission.
NextBlock == cbPc' = "idle" /\ execNext' = execNext + 1

\* The next block has been broadcast by the actor.
BroadcastEarly(b) == b <= appHeight
BroadcastLate(b) == b < appHeight - 1
Broadcast(b) == b < appHeight

ExecuteAcceptingSyncing ==
    /\ cbPc = "idle"
    /\ Broadcast(execNext)
    /\ \/ NewPayload(execNext) /\ cbPc' = "read" /\ UNCHANGED <<execNext, errors>>
       \/ Fails /\ NextBlock /\ UNCHANGED reth
    /\ UNCHANGED <<appV, cbState, executed, submitted, finV, forkchoice, cached>>

\* execute_block must answer VALID.
Execute ==
    /\ cbPc = "idle"
    /\ Broadcast(execNext)
    /\ \/ Connects(execNext) /\ NewPayload(execNext) /\ cbPc' = "read"
          /\ UNCHANGED <<execNext, errors>>
       \/ ~Connects(execNext) /\ NextBlock /\ UNCHANGED <<reth, errors>>
       \/ Fails /\ NextBlock /\ (NewPayload(execNext) \/ UNCHANGED reth)
    /\ UNCHANGED <<appV, cbState, executed, submitted, finV, forkchoice, cached>>

SoftRead ==
    /\ cbPc = "read"
    /\ cbState' = WithSoft(forkchoice, execNext)
    /\ cbPc' = "update"
    /\ UNCHANGED <<appV, execNext, executed, submitted, finV, forkchoice, cached, reth, errors>>

SoftUpdate ==
    /\ cbPc = "update"
    /\ \/ UpdateSucceeds(cbState) /\ cbPc' = "cache" /\ UNCHANGED execNext
       \/ UpdateFails(cbState) /\ NextBlock
    /\ UNCHANGED <<appV, cbState, executed, submitted, finV, forkchoice, cached>>

SoftCache ==
    /\ cbPc = "cache"
    /\ cached' = cbState
    /\ cbPc' = "store"
    /\ UNCHANGED <<appV, execNext, cbState, executed, submitted, finV, forkchoice, reth, errors>>

SoftStoreCached ==
    /\ cbPc = "store"
    /\ forkchoice' = cached
    /\ cbPc' = "track"
    /\ UNCHANGED <<appV, execNext, cbState, executed, submitted, finV, cached, reth, errors>>

SoftStore ==
    /\ cbPc = "store"
    /\ forkchoice' = cbState
    /\ cbPc' = "track"
    /\ UNCHANGED <<appV, execNext, cbState, executed, submitted, finV, cached, reth, errors>>

TrackAfterSubmit ==
    /\ cbPc = "track"
    /\ IF IsLeader(execNext) /\ execNext \notin submitted
       THEN /\ submitted' = submitted \cup {execNext}
            /\ UNCHANGED <<execNext, cbPc, executed>>
       ELSE executed' = executed \cup {execNext} /\ NextBlock /\ UNCHANGED submitted
    /\ UNCHANGED <<appV, cbState, finV, forkchoice, cached, reth, errors>>

\* executed_blocks first, which lets the event loop accept a confirmation ...
Track ==
    /\ cbPc = "track"
    /\ executed' = executed \cup {execNext}
    /\ IF IsLeader(execNext) THEN cbPc' = "submit" /\ UNCHANGED execNext ELSE NextBlock
    /\ UNCHANGED <<appV, cbState, submitted, finV, forkchoice, cached, reth, errors>>

\* ... then submit_to_celestia, if we lead this height.
Submit ==
    /\ cbPc = "submit"
    /\ submitted' = submitted \cup {execNext}
    /\ NextBlock
    /\ UNCHANGED <<appV, cbState, executed, finV, forkchoice, cached, reth, errors>>

----------------------------------------------------------------------------
(* Celestia, external: a submitted block is confirmed once.                *)

Confirm(b) ==
    /\ b \in submitted \ confirmed
    /\ InOrder => \A c \in submitted \ confirmed : b <= c
    /\ confirmed' = confirmed \cup {b}
    /\ finalityRx' = Append(finalityRx, b)
    /\ UNCHANGED <<appV, cbV, finPc, finState, forkchoice, cached, reth, errors>>

----------------------------------------------------------------------------
(* The event loop: handle_finality_confirmation                            *)

\* The head of finalityRx is the confirmation being handled.
Done == finPc' = "idle" /\ finalityRx' = Tail(finalityRx)

\* verify_block_executed
CheckExecuted ==
    /\ finPc = "idle"
    /\ finalityRx # <<>>
    /\ IF Head(finalityRx) \in executed
       THEN finPc' = "read" /\ UNCHANGED finalityRx
       ELSE Done
    /\ UNCHANGED <<appV, cbV, confirmed, finState, forkchoice, cached, reth, errors>>

FirmReadHead ==
    /\ finPc = "read"
    /\ finState' = WithFirm(forkchoice, forkchoice.head)
    /\ finPc' = "update"
    /\ UNCHANGED <<appV, cbV, confirmed, finalityRx, forkchoice, cached, reth, errors>>

FirmRead ==
    /\ finPc = "read"
    /\ finState' = WithFirm(forkchoice, Head(finalityRx))
    /\ finPc' = "update"
    /\ UNCHANGED <<appV, cbV, confirmed, finalityRx, forkchoice, cached, reth, errors>>

FirmUpdate ==
    /\ finPc = "update"
    /\ \/ UpdateSucceeds(finState) /\ finPc' = "cache" /\ UNCHANGED finalityRx
       \/ UpdateFails(finState) /\ Done
    /\ UNCHANGED <<appV, cbV, confirmed, finState, forkchoice, cached>>

FirmCache ==
    /\ finPc = "cache"
    /\ cached' = finState
    /\ finPc' = "store"
    /\ UNCHANGED <<appV, cbV, confirmed, finalityRx, finState, forkchoice, reth, errors>>

FirmStore ==
    /\ finPc = "store"
    /\ forkchoice' = finState
    /\ Done
    /\ UNCHANGED <<appV, cbV, confirmed, finState, cached, reth, errors>>

----------------------------------------------------------------------------
Application ==
    \/ \E b \in 1 .. MaxBlock : ImportRelayed(b)
    \/ CheckSync \/ BuildRead \/ BuildUpdate
    \/ ApplyPayload \/ ApplyRead \/ ApplyUpdate \/ ApplyCache
Callback ==
    \/ Execute \/ SoftRead \/ SoftUpdate \/ SoftCache \/ SoftStore
    \/ Track \/ Submit
EventLoop == CheckExecuted \/ FirmRead \/ FirmUpdate \/ FirmCache \/ FirmStore

Next == Application \/ Callback \/ EventLoop \/ \E b \in 1 .. MaxBlock : Confirm(b)

Spec == Init /\ [][Next]_vars

\* Each task is polled while the process lives.  Consensus may stop
\* finalizing and Celestia may stop confirming.
Fairness ==
    /\ WF_vars(BuildRead \/ BuildUpdate \/ ApplyRead \/ ApplyUpdate \/ ApplyCache)
    /\ WF_vars(Callback)
    /\ WF_vars(EventLoop)

FairSpec == Spec /\ Fairness

----------------------------------------------------------------------------
(* Properties                                                              *)

ForkchoiceStates == [head : Heights, safe : Heights, finalized : Heights]

\* Every variable keeps the shape of the state it stands for.
TypeOK ==
    /\ appHeight \in 1 .. MaxBlock + 1
    /\ appPc \in {"idle", "synced", "building", "applying", "update", "cache"}
    /\ execNext \in 1 .. appHeight
    /\ cbPc \in {"idle", "read", "update", "cache", "store", "track", "submit"}
    /\ finPc \in {"idle", "read", "update", "cache", "store"}
    /\ {appState, cbState, finState, forkchoice, cached} \subseteq ForkchoiceStates
    /\ submitted \subseteq 1 .. MaxBlock
    /\ executed \subseteq 1 .. MaxBlock
    /\ confirmed \subseteq submitted
    /\ finalityRx \in Seq(confirmed)
    /\ reth \in [fc : ForkchoiceStates, known : SUBSET Heights]
    /\ errors \in 0 .. MaxErrors

\* Every copy of the fork choice, those in flight included.
Copies == {appState, cbState, finState, forkchoice, cached, reth.fc}

\* Nothing becomes FINALIZED, in any copy and under any interleaving of the
\* three writers, that Celestia has not confirmed and we have not executed.
FinalizedWasConfirmed ==
    \A s \in Copies : s.finalized \in {0} \cup (confirmed \cap executed)

\* Nothing becomes HEAD that consensus has not finalized: a relayed block is
\* only imported.
HeadWasDecided ==
    LET applying == appPc \in {"applying", "update", "cache"}
    IN  \A s \in Copies : s.head < appHeight \/ (applying /\ s.head = appHeight)

\* verify_block_executed has nothing to refuse: however fast Celestia is, a
\* block is in executed_blocks when its confirmation reaches the event loop,
\* which runs beside the callback.
ConfirmationsAreExecuted == \A i \in DOMAIN finalityRx : finalityRx[i] \in executed

\* What the callback counts as executed is in reth's tree with all its
\* ancestors, whatever calls failed.
ExecutedIsKnown == \A b \in executed : 0 .. b \subseteq reth.known

\* All finalized blocks went through both tasks and nothing is in flight.
Quiescent ==
    /\ appPc = "idle" /\ cbPc = "idle" /\ finPc = "idle"
    /\ execNext = appHeight
    /\ finalityRx = <<>>

\* Without a firm confirmation so far (a validator that leads none of the
\* heights, or Celestia is slow) only the actor and the callback write.
SoftOnly == confirmed = {}

\* HEAD is the latest block consensus finalized, once every task has caught
\* up and no call has failed (docs/architecture.md:100).
HeadFollowsConsensus ==
    Quiescent /\ SoftOnly /\ errors = 0 =>
        forkchoice.head = appHeight - 1 /\ reth.fc.head = appHeight - 1

\* The callback (update_fork_choice_soft) never moves HEAD of the shared fork
\* choice back, whatever calls fail and in whatever order confirmations come:
\* only a firm confirmation does, whose state was read before the callback's.
HeadBackByFirm == [][forkchoice'.head < forkchoice.head => FirmStore]_forkchoice

\* The shared fork choice only moves finalized forward (forkchoice.rs:40).
FinalizedForward == [][forkchoice'.finalized >= forkchoice.finalized]_forkchoice

\* A proposer that finds reth behind or ahead is in sync with it again: the
\* callback may take the head back to a block the actor is past, and brings
\* it forward again (the wait in wait_for_reth_sync is not in vain).
InSyncAgain == []<>(SoftOnly /\ errors = 0 => reth.fc.head = appHeight - 1)
=============================================================================
