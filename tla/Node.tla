-------------------------------- MODULE Node --------------------------------
(***************************************************************************)
(* One running node: the tasks that run_simplex and SimplexSequencer::run  *)
(* start, and the channels between them.                                   *)
(*                                                                         *)
(* The application broadcasts finalized blocks to the finalization loop    *)
(* and proposed blocks to the block relay.  A broadcast never waits: it    *)
(* overwrites what a receiver that lags has not read.  The finalization    *)
(* loop runs the callback, which executes a block and, on its leader,      *)
(* queues it for the batch task (waiting while that queue is full) or      *)
(* submits it to Celestia itself.  When the loop ends, run_simplex returns *)
(* and the runtime with every task of it is gone; the batch task belongs   *)
(* to the other runtime and finds its channel closed; a ctrl-c ends that   *)
(* runtime, and with it the process.                                       *)
(*                                                                         *)
(* Which blocks consensus decides is the subject of Application, what an   *)
(* execution does to the fork choice of Forkchoice, attempts, sizes and    *)
(* confirmations of DaSubmission.                                          *)
(***************************************************************************)
EXTENDS Naturals, Sequences

CONSTANTS
    MaxBlock,       \* bound: how many blocks are finalized
    MaxProposed,    \* bound: how many blocks this node proposes
    Retained,       \* how many blocks a broadcast channel keeps (100)
    QueueSize,      \* capacity of the batch channel (1000)
    Modes,          \* "batch" if batch_interval_ms > 0, otherwise "direct"
    NumValidators,  \* participants.len()
    OurIndex,       \* validator_index()
    MaxFailures,    \* MAX_CONSECUTIVE_FAILURES of the batch loop (10)
    MaxErrors       \* bound: how many calls may fail

ASSUME BoundsAssumption == MaxBlock \in Nat /\ MaxProposed \in Nat
ASSUME CapacityAssumption == Retained \in Nat \ {0} /\ QueueSize \in Nat \ {0}
ASSUME ModesAssumption == Modes \subseteq {"batch", "direct"}
ASSUME LeaderAssumption == NumValidators \in Nat \ {0} /\ OurIndex \in Nat
ASSUME FailuresAssumption == MaxFailures \in Nat \ {0} /\ MaxErrors \in Nat

VARIABLES
    mode,
    \* ---- the consensus runtime
    decided,     \* finalized blocks broadcast so far
    loop,        \* "waiting", "executing", "submitting", "ended"
    cursor,      \* the next position the loop reads
    handled,     \* the blocks the callback was given, in order
    executed,    \* those it executed
    proposed,    \* proposed blocks broadcast so far
    relay,       \* "running", "stopped"
    relayCursor, \* the next position the relay reads
    relayed,     \* the proposals it sent
    unsent,      \* the proposals it took up and could not send
    \* ---- the other runtime
    queue,       \* the batch channel
    batch,       \* BatchState.pending_blocks
    batchTask,   \* "waiting", "submitting", "last", "stopped"
    failures,    \* consecutive_failures
    published,   \* what Celestia has acknowledged
    abandoned,   \* what the callback has logged as failed to queue or submit
    process,     \* "up", "exited"
    errors

relayV == <<proposed, relay, relayCursor, relayed, unsent>>
loopV == <<decided, loop, cursor, handled, executed>>
batchV == <<queue, batch, batchTask, failures>>
vars == <<mode, relayV, loopV, batchV, published, abandoned, process, errors>>

Blocks == 1 .. MaxBlock
Elements(s) == {s[i] : i \in DOMAIN s}

Init ==
    /\ mode \in Modes
    /\ decided = 0 /\ loop = "waiting" /\ cursor = 1
    /\ handled = <<>> /\ executed = {}
    /\ proposed = 0 /\ relay = "running" /\ relayCursor = 1
    /\ relayed = {} /\ unsent = {}
    /\ queue = <<>> /\ batch = <<>> /\ failures = 0
    /\ batchTask = IF mode = "batch" THEN "waiting" ELSE "stopped"
    /\ published = {} /\ abandoned = {}
    /\ process = "up" /\ errors = 0

\* The consensus runtime lives until run_simplex returns.
ConsensusRuns == process = "up" /\ loop # "ended"

Fails == errors < MaxErrors /\ errors' = errors + 1

\* tokio::sync::broadcast: what a receiver has not read and the channel no
\* longer keeps.
Lags(position, sent) == position + Retained <= sent
Oldest(sent) == sent - Retained + 1

----------------------------------------------------------------------------
(* The application's broadcasts                                            *)

BroadcastFinalized ==
    /\ ConsensusRuns
    /\ decided < MaxBlock
    /\ decided' = decided + 1
    /\ UNCHANGED <<mode, relayV, loop, cursor, handled, executed, batchV,
                   published, abandoned, process, errors>>

BroadcastProposed ==
    /\ ConsensusRuns
    /\ proposed < MaxProposed
    /\ proposed' = proposed + 1
    /\ UNCHANGED <<mode, relay, relayCursor, relayed, unsent, loopV, batchV,
                   published, abandoned, process, errors>>

----------------------------------------------------------------------------
(* The finalization loop and its callback                                  *)

\* wait_for_block: a block.
ReceiveBlock ==
    /\ ConsensusRuns
    /\ loop = "waiting"
    /\ cursor <= decided
    /\ ~Lags(cursor, decided)
    /\ handled' = Append(handled, cursor)
    /\ cursor' = cursor + 1
    /\ loop' = "executing"
    /\ UNCHANGED <<mode, relayV, decided, executed, batchV, published,
                   abandoned, process, errors>>

ReceiveSkipping ==
    /\ ConsensusRuns
    /\ loop = "waiting"
    /\ Lags(cursor, decided)
    /\ cursor' = Oldest(decided)
    /\ UNCHANGED <<mode, relayV, decided, loop, handled, executed, batchV,
                   published, abandoned, process, errors>>

\* wait_for_block: Lagged is an error like any other, and the loop breaks.
\* No one ever stops the runtime's context.
ReceiveLagged ==
    /\ ConsensusRuns
    /\ loop = "waiting"
    /\ Lags(cursor, decided)
    /\ loop' = "ended"
    /\ UNCHANGED <<mode, relayV, decided, cursor, handled, executed, batchV,
                   published, abandoned, process, errors>>

Current == handled[Len(handled)]
IsLeader(b) == b % NumValidators = OurIndex

\* process_finalized_block: a block that fails is left behind.
Execute ==
    /\ ConsensusRuns
    /\ loop = "executing"
    /\ \/ /\ executed' = executed \cup {Current}
          /\ loop' = IF IsLeader(Current) THEN "submitting" ELSE "waiting"
          /\ UNCHANGED errors
       \/ /\ Fails
          /\ loop' = "waiting"
          /\ UNCHANGED executed
    /\ UNCHANGED <<mode, relayV, decided, cursor, handled, batchV, published,
                   abandoned, process>>

TakesOneMore == Len(queue) <= QueueSize
HasRoom == Len(queue) < QueueSize

QueueWaiting ==
    /\ ConsensusRuns
    /\ mode = "batch" /\ loop = "submitting"
    /\ HasRoom
    /\ queue' = Append(queue, Current)
    /\ loop' = "waiting"
    /\ UNCHANGED <<mode, relayV, decided, cursor, handled, executed, batch,
                   batchTask, failures, published, abandoned, process, errors>>

\* queue_for_batch: waits for room, or is told that the batch task has gone.
QueueForBatch ==
    /\ ConsensusRuns
    /\ mode = "batch" /\ loop = "submitting"
    /\ \/ /\ batchTask # "stopped" /\ HasRoom
          /\ queue' = Append(queue, Current)
          /\ UNCHANGED abandoned
       \/ /\ batchTask = "stopped"
          /\ abandoned' = abandoned \cup {Current}
          /\ UNCHANGED queue
    /\ loop' = "waiting"
    /\ UNCHANGED <<mode, relayV, decided, cursor, handled, executed, batch,
                   batchTask, failures, published, process, errors>>

\* submit_immediate: the loop waits for Celestia, with all its retries.
SubmitImmediate ==
    /\ ConsensusRuns
    /\ mode = "direct" /\ loop = "submitting"
    /\ \/ /\ published' = published \cup {Current}
          /\ UNCHANGED <<abandoned, errors>>
       \/ /\ Fails
          /\ abandoned' = abandoned \cup {Current}
          /\ UNCHANGED published
    /\ loop' = "waiting"
    /\ UNCHANGED <<mode, relayV, decided, cursor, handled, executed, batchV,
                   process>>

----------------------------------------------------------------------------
(* The block relay                                                         *)

RelayRuns == ConsensusRuns /\ relay = "running"

\* handle_local_block: sent, or lost to the rate limit, to an error of the
\* channel or to the serialization; either way the relay goes on to the next.
RelayBlock ==
    /\ RelayRuns
    /\ relayCursor <= proposed
    /\ ~Lags(relayCursor, proposed)
    /\ \/ relayed' = relayed \cup {relayCursor} /\ UNCHANGED unsent
       \/ unsent' = unsent \cup {relayCursor} /\ UNCHANGED relayed
    /\ relayCursor' = relayCursor + 1
    /\ UNCHANGED <<mode, proposed, relay, loopV, batchV, published, abandoned,
                   process, errors>>

RelayResubscribes ==
    /\ RelayRuns
    /\ Lags(relayCursor, proposed)
    /\ relayCursor' = proposed + 1
    /\ UNCHANGED <<mode, proposed, relay, relayed, unsent, loopV, batchV,
                   published, abandoned, process, errors>>

\* Lagged is logged; the next read is the oldest block still there.
RelayLagged ==
    /\ RelayRuns
    /\ Lags(relayCursor, proposed)
    /\ relayCursor' = Oldest(proposed)
    /\ UNCHANGED <<mode, proposed, relay, relayed, unsent, loopV, batchV,
                   published, abandoned, process, errors>>

\* An error of the p2p receiver ends both directions of the relay.
RelayStops ==
    /\ RelayRuns
    /\ Fails
    /\ relay' = "stopped"
    /\ UNCHANGED <<mode, proposed, relayCursor, relayed, unsent, loopV, batchV,
                   published, abandoned, process>>

----------------------------------------------------------------------------
(* The batch task                                                          *)

BatchRuns == process = "up" /\ mode = "batch"

\* A block that reaches the size limit is submitted at once.
TakeFromQueue ==
    /\ BatchRuns
    /\ batchTask = "waiting"
    /\ queue # <<>>
    /\ queue' = Tail(queue)
    /\ batch' = Append(batch, Head(queue))
    /\ batchTask' \in {"waiting", "submitting"}
    /\ UNCHANGED <<mode, relayV, loopV, failures, published, abandoned,
                   process, errors>>

Tick ==
    /\ BatchRuns
    /\ batchTask = "waiting"
    /\ batch # <<>>
    /\ batchTask' = "submitting"
    /\ UNCHANGED <<mode, relayV, loopV, queue, batch, failures, published,
                   abandoned, process, errors>>

\* The callback went with the runtime, and its sender with it.
ChannelClosed == loop = "ended" /\ queue = <<>>

StopAtOnce ==
    /\ BatchRuns
    /\ batchTask = "waiting"
    /\ ChannelClosed
    /\ batchTask' = "stopped"
    /\ batch' = <<>>
    /\ UNCHANGED <<mode, relayV, loopV, queue, failures, published, abandoned,
                   process, errors>>

Shutdown ==
    /\ BatchRuns
    /\ batchTask = "waiting"
    /\ ChannelClosed
    /\ batchTask' = IF batch = <<>> THEN "stopped" ELSE "last"
    /\ UNCHANGED <<mode, relayV, loopV, queue, batch, failures, published,
                   abandoned, process, errors>>

SubmitBatch ==
    /\ BatchRuns
    /\ batchTask \in {"submitting", "last"}
    /\ published' = published \cup Elements(batch)
    /\ batch' = <<>>
    /\ failures' = 0
    /\ batchTask' = IF batchTask = "last" THEN "stopped" ELSE "waiting"
    /\ UNCHANGED <<mode, relayV, loopV, queue, abandoned, process, errors>>

RestoreNothing == batch' = <<>>
Restore == UNCHANGED batch

\* The task gives up after MaxFailures in a row, and after its last
\* submission; what batch and channel hold goes with it.  Otherwise the blocks
\* are restored.
GivesUp == batchTask = "last" \/ failures + 1 >= MaxFailures

SubmitFails ==
    /\ BatchRuns
    /\ batchTask \in {"submitting", "last"}
    /\ Fails
    /\ failures' = IF batchTask = "last" THEN failures ELSE failures + 1
    /\ IF GivesUp
       THEN batchTask' = "stopped" /\ queue' = <<>> /\ batch' = <<>>
       ELSE batchTask' = "waiting" /\ Restore /\ UNCHANGED queue
    /\ UNCHANGED <<mode, relayV, loopV, published, abandoned, process>>

----------------------------------------------------------------------------
(* run: ctrl-c ends the event loop; the consensus thread is detached, the   *)
(* runtime of the batch task is dropped with batch and channel, and main    *)
(* returns.                                                                 *)
CtrlC ==
    /\ process = "up"
    /\ process' = "exited"
    /\ queue' = <<>> /\ batch' = <<>>
    /\ UNCHANGED <<mode, relayV, loopV, batchTask, failures, published,
                   abandoned, errors>>

----------------------------------------------------------------------------
FinalizationLoop ==
    \/ ReceiveBlock \/ ReceiveLagged
    \/ Execute \/ QueueForBatch \/ SubmitImmediate
BlockRelay == RelayBlock \/ RelayLagged
BatchTask == TakeFromQueue \/ Tick \/ Shutdown \/ SubmitBatch \/ SubmitFails

Next ==
    \/ BroadcastFinalized \/ BroadcastProposed
    \/ FinalizationLoop
    \/ BlockRelay \/ RelayStops
    \/ BatchTask
    \/ CtrlC

Spec == Init /\ [][Next]_vars

\* Every task is polled while its runtime lives, and a call is answered.
Fairness ==
    /\ WF_vars(FinalizationLoop)
    /\ WF_vars(BlockRelay)
    /\ WF_vars(BatchTask)

FairSpec == Spec /\ Fairness

----------------------------------------------------------------------------
(* Properties                                                              *)

\* Every variable keeps the shape of the state it stands for, and the batch
\* channel its capacity.
TypeOK ==
    /\ mode \in Modes
    /\ decided \in 0 .. MaxBlock
    /\ loop \in {"waiting", "executing", "submitting", "ended"}
    /\ cursor \in 1 .. decided + 1
    /\ handled \in Seq(Blocks)
    /\ executed \subseteq Blocks
    /\ proposed \in 0 .. MaxProposed
    /\ relay \in {"running", "stopped"}
    /\ relayCursor \in 1 .. proposed + 1
    /\ relayed \subseteq 1 .. proposed /\ unsent \subseteq 1 .. proposed
    /\ queue \in Seq(executed) /\ Len(queue) <= QueueSize
    /\ batch \in Seq(executed)
    /\ batchTask \in {"waiting", "submitting", "last", "stopped"}
    /\ failures \in 0 .. MaxFailures
    /\ published \subseteq executed
    /\ abandoned \subseteq executed
    /\ process \in {"up", "exited"}
    /\ errors \in 0 .. MaxErrors

\* The blocks this node has to publish.
Led == {b \in executed : IsLeader(b)}

\* Where they are: a block is published, abandoned, held in exactly one of
\* callback, channel and batch, or lost; and nobody else publishes it.
InCallback == IF ConsensusRuns /\ loop = "submitting" THEN {Current} ELSE {}
Distinct(s) == \A i, j \in DOMAIN s : s[i] = s[j] => i = j
Ended == published \cup abandoned
Held == Elements(queue) \cup Elements(batch) \cup InCallback
Lost == Led \ (Ended \cup Held)

InOnePlace ==
    /\ Ended \cup Held \subseteq Led
    /\ published \cap abandoned = {} /\ Ended \cap Held = {}
    /\ Distinct(queue) /\ Distinct(batch)
    /\ Elements(queue) \cap Elements(batch) = {}
    /\ InCallback \cap (Elements(queue) \cup Elements(batch)) = {}

\* Two ways to lose a block without a log entry of the callback: the process
\* exits, or the batch task ends with blocks, which takes MaxFailures failures
\* in a row or one in the last submission, after consensus has ended.
LossExplained ==
    Lost # {} =>
        \/ process = "exited"
        \/ /\ mode = "batch" /\ batchTask = "stopped"
           /\ failures = MaxFailures \/ (loop = "ended" /\ errors > failures)

LedBlocksAccounted == InOnePlace /\ LossExplained

Consuming == ConsensusRuns => loop = "waiting" /\ cursor = decided + 1

\* The callback catches up with consensus again and again as long as the
\* runtime lives: neither Celestia nor a batch task that has given up holds
\* it up for good.
LoopCatchesUp == []<>Consuming

\* As long as the process is up, a block this node has to publish is
\* published, also when a lagging loop has ended consensus, except for the
\* blocks it has logged as failed and those lost with a batch task whose
\* submission failed.
LostToFailures == IF batchTask = "stopped" /\ errors > 0 THEN Lost ELSE {}
LedBlocksPublished ==
    []<>(process = "up" => Led \subseteq published \cup abandoned \cup LostToFailures)

\* A relay that has lost blocks to a lag still takes up the newest proposal;
\* one attempt to send it is all the code makes.
NewestIsTakenUp ==
    []<>(RelayRuns /\ proposed > 0 => proposed \in relayed \cup unsent)

----------------------------------------------------------------------------
(* Refinement                                                              *)

\* The callback is done with a block: executed or not, led or not.
Passed == {b \in Elements(handled) : loop = "executing" => b # Current}

\* A block that the callback has passed is published, held, or not (or no
\* longer) for this node to publish: another one leads it, its execution
\* failed, it was logged as failed, or it was lost with batch and channel.
Status(b) ==
    CASE b \in published -> "included"
      [] b \in Held -> "handed"
      [] b \in Passed \ (published \cup Held) -> "abandoned"
      [] b \notin Passed \cup published \cup Held -> "new"

Statuses == [b \in Blocks |-> Status(b)]

Ledger == INSTANCE FinalityLedger WITH status <- Statuses

\* The tasks and their channels implement the ledger that DaSubmission
\* implements as well, but for confirmations: blocks come to the submission in
\* order and none is left out, a lag or a full channel included, and what is
\* submitted at once is all there is up to a block, each of them once.
LedgerSpec == Ledger!Spec
=============================================================================
