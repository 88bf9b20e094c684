---------------------------- MODULE DaSubmission ----------------------------
(***************************************************************************)
(* From a finalized block to its confirmation on Celestia, on the one      *)
(* validator that leads the block's height: the batch loop of              *)
(* crates/sequencer/src/simplex_sequencer.rs, the submission with retries, *)
(* the spawned tracking tasks and the finality tracker of crates/celestia. *)
(*                                                                         *)
(* Blocks are numbered in the order the callback hands them over.  A blob  *)
(* is a pair <<block, Celestia height>>.  Celestia itself is external: it  *)
(* includes a submission or not, and the answer may be lost either way.    *)
(***************************************************************************)
EXTENDS Integers, Sequences, FiniteSets, FiniteSetsExt

CONSTANTS
    MaxBlock,         \* bound: how many blocks this validator leads
    Size,             \* estimate_block_size of each block
    MaxBatchSize,     \* max_batch_size_bytes
    Starts,           \* "wait" if batch_interval_ms > 0, otherwise "none"
    ChannelSize,      \* capacity of the batch channel (1000)
    FinalityCap,      \* capacity of the confirmation channel (100)
    MaxAttempts,      \* DEFAULT_MAX_RETRIES (3)
    MaxFailures,      \* MAX_CONSECUTIVE_FAILURES of the loop (10)
    MaxTrackerFailures, \* MAX_CONSECUTIVE_FAILURES of the tracker (10)
    MaxErrors         \* bound: how many calls and subscriptions may fail

ASSUME MaxBlockAssumption == MaxBlock \in Nat \ {0}
ASSUME SizeAssumption == Size \in [1 .. MaxBlock -> Nat] /\ MaxBatchSize \in Nat
ASSUME StartsAssumption == Starts \subseteq {"wait", "none"}
ASSUME CapacityAssumption == ChannelSize \in Nat \ {0} /\ FinalityCap \in Nat \ {0}
ASSUME LimitAssumption == {MaxAttempts, MaxFailures, MaxTrackerFailures} \subseteq Nat \ {0}
ASSUME MaxErrorsAssumption == MaxErrors \in Nat

VARIABLES
    next,        \* the next block the finalization callback hands over
    open,        \* the callback still holds the sender of the batch channel
    batchRx,     \* the batch channel
    batch,       \* BatchState.pending_blocks
    pendingSize, \* BatchState.pending_size
    loop,        \* "wait", "submit", "last" (submitting at shutdown), "stopped";
                 \* without a loop "none" and "direct" (the callback submits)
    sending,     \* the blocks of the call in progress
    attempts,    \* failed attempts of that call
    failures,    \* consecutive_failures of the batch loop
    daHeight,    \* Celestia's height
    blobs,       \* what Celestia has included
    tracks,      \* spawned tasks that have yet to lock the tracker
    pending,     \* FinalityTracker.pending
    seen,        \* FinalityTracker.celestia_finalized_height
    tracker,     \* "subscribed", "waiting" (backoff), "stopped"
    trackerFailures, \* consecutive_failures of run_finality_tracker
    emitting,    \* confirmations of a header that are still to be sent
    confirmations,   \* all confirmations sent, in order
    received,    \* how many of them the event loop has taken
    errors,
    abandoned,   \* history: blocks the callback logged as failed and let go
    dropped      \* history: blocks that went with the loop's state and channel

loopV == <<batch, pendingSize, loop, sending, attempts, failures>>
celestiaV == <<daHeight, blobs>>
trackerV == <<seen, tracker, trackerFailures, emitting, confirmations, received>>
handoverV == <<next, abandoned, dropped>>
vars == <<handoverV, open, batchRx, loopV, celestiaV, tracks, pending, trackerV, errors>>

Blocks == 1 .. MaxBlock
Elements(s) == {s[i] : i \in DOMAIN s}

\* The size of the first n blocks of s, for each n.
Sizes(s) ==
    LET first[n \in 0 .. Len(s)] == IF n = 0 THEN 0 ELSE first[n - 1] + Size[s[n]]
    IN  first
TotalSize(s) == Sizes(s)[Len(s)]

Init ==
    /\ next = 1 /\ open = TRUE /\ batchRx = <<>>
    /\ batch = <<>> /\ pendingSize = 0 /\ loop \in Starts
    /\ sending = <<>> /\ attempts = 0 /\ failures = 0
    /\ daHeight = 0 /\ blobs = {}
    /\ tracks = {} /\ pending = {}
    /\ seen = 0 /\ tracker = "subscribed" /\ trackerFailures = 0
    /\ emitting = {} /\ confirmations = <<>> /\ received = 0
    /\ errors = 0 /\ abandoned = {} /\ dropped = {}

----------------------------------------------------------------------------
(* The finalization callback                                               *)

\* spawn_batch_task: without an interval there is neither loop nor channel.
BatchEnabled == loop \notin {"none", "direct"}

ChannelTakesOneMore == Len(batchRx) <= ChannelSize
ChannelHasRoom == Len(batchRx) < ChannelSize

\* queue_for_batch: waits while the channel is full; once the loop has gone
\* the block is only logged.
QueueForBatch ==
    /\ BatchEnabled /\ open
    /\ next <= MaxBlock
    /\ \/ /\ loop # "stopped" /\ ChannelHasRoom
          /\ batchRx' = Append(batchRx, next)
          /\ UNCHANGED abandoned
       \/ /\ loop = "stopped"
          /\ abandoned' = abandoned \cup {next}
          /\ UNCHANGED batchRx
    /\ next' = next + 1
    /\ UNCHANGED <<open, loopV, celestiaV, tracks, pending, trackerV, errors,
                   dropped>>

\* The consensus runtime ends and drops the callback with its sender.
CloseChannel ==
    /\ open
    /\ open' = FALSE
    /\ UNCHANGED <<handoverV, batchRx, loopV, celestiaV, tracks, pending,
                   trackerV, errors>>

\* submit_immediate: the callback itself submits, one block at a time.
SubmitImmediate ==
    /\ open
    /\ loop = "none"
    /\ next <= MaxBlock
    /\ next' = next + 1
    /\ sending' = <<next>> /\ attempts' = 0
    /\ loop' = "direct"
    /\ UNCHANGED <<open, batchRx, batch, pendingSize, failures, celestiaV,
                   tracks, pending, trackerV, errors, abandoned, dropped>>

----------------------------------------------------------------------------
(* The batch loop: run_batch_submission_loop                               *)

\* submit_batch takes the pending blocks; nothing to submit is a success.
TakeBatch(blocks, phase) ==
    /\ sending' = blocks /\ attempts' = 0
    /\ batch' = <<>> /\ pendingSize' = 0
    /\ loop' = phase

NeverReached(size) == FALSE
LimitReached(size) == size >= MaxBatchSize

\* handle_received_block: a batch that reaches the limit is submitted early.
ReceiveBlock ==
    LET b == Head(batchRx)
        size == pendingSize + Size[b]
    IN  /\ loop = "wait"
        /\ batchRx # <<>>
        /\ batchRx' = Tail(batchRx)
        /\ IF LimitReached(size)
           THEN TakeBatch(Append(batch, b), "submit")
           ELSE /\ batch' = Append(batch, b)
                /\ pendingSize' = size
                /\ UNCHANGED <<loop, sending, attempts>>
        /\ UNCHANGED <<handoverV, open, failures, celestiaV, tracks, pending,
                       trackerV, errors>>

\* The interval fires; an empty batch waits on.
Tick ==
    /\ loop = "wait"
    /\ batch # <<>>
    /\ TakeBatch(batch, "submit")
    /\ UNCHANGED <<handoverV, open, batchRx, failures, celestiaV, tracks,
                   pending, trackerV, errors>>

\* The channel is closed and drained: what is left is submitted once.
Shutdown ==
    /\ loop = "wait"
    /\ ~open /\ batchRx = <<>>
    /\ TakeBatch(batch, IF batch = <<>> THEN "stopped" ELSE "last")
    /\ UNCHANGED <<handoverV, open, batchRx, failures, celestiaV, tracks,
                   pending, trackerV, errors>>

Submitting == loop \in {"submit", "last", "direct"}
AfterCall == [submit |-> "wait", last |-> "stopped", direct |-> "none"][loop]
Include(blocks) ==
    /\ daHeight' = daHeight + 1
    /\ blobs' = blobs \cup {<<b, daHeight + 1>> : b \in Elements(blocks)}

\* log_batch_success: one tracking task is spawned per submission.
SpawnTracking(blocks, h) == tracks' = tracks \cup {<<b, h>> : b \in Elements(blocks)}

AttemptSucceeds ==
    /\ Submitting
    /\ attempts < MaxAttempts
    /\ Include(sending)
    /\ SpawnTracking(sending, daHeight + 1)
    /\ sending' = <<>> /\ attempts' = 0
    /\ failures' = 0
    /\ loop' = AfterCall
    /\ UNCHANGED <<handoverV, open, batchRx, batch, pendingSize, pending,
                   trackerV, errors>>

\* with_retry: any error is retried, an answer that was lost included.
AttemptFails ==
    /\ Submitting
    /\ attempts < MaxAttempts
    /\ errors < MaxErrors
    /\ errors' = errors + 1
    /\ attempts' = attempts + 1
    /\ Include(sending) \/ UNCHANGED celestiaV
    /\ UNCHANGED <<handoverV, open, batchRx, batch, pendingSize, loop,
                   sending, failures, tracks, pending, trackerV>>

InHand == Elements(batchRx) \cup Elements(batch) \cup Elements(sending)

\* restore_failed_batch
RestoreWithoutSize(blocks) == batch' = blocks /\ pendingSize' = 0
DropBatch(blocks) == UNCHANGED <<batch, pendingSize>>
RestoreBatch(blocks) == batch' = blocks /\ pendingSize' = TotalSize(blocks)

\* The loop returns: its state is dropped, and so is the receiver with the
\* blocks in the channel.
LoopEnds ==
    /\ loop' = "stopped"
    /\ batch' = <<>> /\ pendingSize' = 0 /\ batchRx' = <<>>
    /\ dropped' = dropped \cup InHand

\* The last attempt failed: the blocks are restored, unless this was the last
\* failure in a row that the loop bears, or the submission of a shutdown.
CallFails ==
    /\ loop \in {"submit", "last"}
    /\ attempts = MaxAttempts
    /\ sending' = <<>> /\ attempts' = 0
    /\ failures' = IF loop = "last" THEN failures ELSE failures + 1
    /\ IF loop = "last" \/ failures + 1 >= MaxFailures
       THEN LoopEnds
       ELSE RestoreBatch(sending) /\ loop' = "wait" /\ UNCHANGED <<batchRx, dropped>>
    /\ UNCHANGED <<next, abandoned, open, celestiaV, tracks, pending, trackerV,
                   errors>>

\* submit_immediate only logs.
ImmediateFails ==
    /\ loop = "direct"
    /\ attempts = MaxAttempts
    /\ sending' = <<>> /\ attempts' = 0
    /\ loop' = "none"
    /\ abandoned' = abandoned \cup Elements(sending)
    /\ UNCHANGED <<next, open, batchRx, batch, pendingSize, failures,
                   celestiaV, tracks, pending, trackerV, errors, dropped>>

----------------------------------------------------------------------------
(* The finality tracker                                                    *)

\* track: a spawned task gets the lock, in whatever order; the map has one
\* entry per block.
Track(t) ==
    /\ t \in tracks
    /\ tracks' = tracks \ {t}
    /\ pending' = {p \in pending : p[1] # t[1]} \cup {t}
    /\ UNCHANGED <<handoverV, open, batchRx, loopV, celestiaV, trackerV,
                   errors>>

\* on_celestia_finality: entries up to the header's height are taken out of
\* the map, to be sent in block order.  At the bound the latest header stands
\* for every later one.
ReachedAlways(h) == pending
ReachedExactly(h) == {p \in pending : p[2] = h}
Reached(h) == {p \in pending : p[2] <= h}

ProcessHeader(h) ==
    /\ tracker = "subscribed"
    /\ emitting = {}
    /\ h \in seen + 1 .. daHeight \/ h = daHeight
    /\ seen' = h
    /\ emitting' = {p[1] : p \in Reached(h)}
    /\ pending' = pending \ Reached(h)
    /\ UNCHANGED <<handoverV, open, batchRx, loopV, celestiaV, tracks,
                   tracker, trackerFailures, confirmations, received, errors>>

\* broadcast_confirmations: waits while the event loop's channel is full.
SendConfirmation ==
    /\ emitting # {}
    /\ Len(confirmations) - received < FinalityCap
    /\ confirmations' = Append(confirmations, Min(emitting))
    /\ emitting' = emitting \ {Min(emitting)}
    /\ UNCHANGED <<handoverV, open, batchRx, loopV, celestiaV, tracks,
                   pending, seen, tracker, trackerFailures, received, errors>>

TakeConfirmation ==
    /\ received < Len(confirmations)
    /\ received' = received + 1
    /\ UNCHANGED <<handoverV, open, batchRx, loopV, celestiaV, tracks,
                   pending, seen, tracker, trackerFailures, emitting,
                   confirmations, errors>>

\* run_finality_tracker: a session only ever ends with an error.
SubscriptionFails ==
    /\ tracker = "subscribed"
    /\ emitting = {}
    /\ errors < MaxErrors
    /\ errors' = errors + 1
    /\ trackerFailures' = trackerFailures + 1
    /\ tracker' = IF trackerFailures + 1 >= MaxTrackerFailures THEN "stopped" ELSE "waiting"
    /\ UNCHANGED <<handoverV, open, batchRx, loopV, celestiaV, tracks,
                   pending, seen, emitting, confirmations, received>>

Reconnect ==
    /\ tracker = "waiting"
    /\ tracker' = "subscribed"
    /\ UNCHANGED <<handoverV, open, batchRx, loopV, celestiaV, tracks,
                   pending, seen, trackerFailures, emitting, confirmations,
                   received, errors>>

----------------------------------------------------------------------------
Loop == ReceiveBlock \/ Tick \/ Shutdown \/ AttemptSucceeds \/ CallFails \/ ImmediateFails

Next ==
    \/ QueueForBatch \/ CloseChannel \/ SubmitImmediate
    \/ Loop \/ AttemptFails
    \/ \E t \in tracks : Track(t)
    \/ \E h \in 0 .. daHeight : ProcessHeader(h)
    \/ SendConfirmation \/ TakeConfirmation
    \/ SubscriptionFails \/ Reconnect

Spec == Init /\ [][Next]_vars

\* The loop, the spawned tasks, the tracker and the event loop are polled;
\* Celestia answers a submission and announces its latest header.
Fairness ==
    /\ WF_vars(Loop)
    /\ WF_vars(\E t \in tracks : Track(t))
    /\ WF_vars(ProcessHeader(daHeight))
    /\ WF_vars(SendConfirmation) /\ WF_vars(TakeConfirmation)
    /\ WF_vars(Reconnect)

FairSpec == Spec /\ Fairness

----------------------------------------------------------------------------
(* Properties                                                              *)

\* Every variable keeps the shape of the state it stands for, and every
\* queue its capacity.
TypeOK ==
    /\ next \in 1 .. MaxBlock + 1
    /\ open \in BOOLEAN
    /\ batchRx \in Seq(Blocks) /\ Len(batchRx) <= ChannelSize
    /\ batch \in Seq(Blocks)
    /\ pendingSize \in Nat
    /\ loop \in {"wait", "submit", "last", "stopped", "none", "direct"}
    /\ sending \in Seq(Blocks)
    /\ attempts \in 0 .. MaxAttempts
    /\ failures \in 0 .. MaxFailures
    /\ daHeight \in Nat
    /\ blobs \subseteq Blocks \X (1 .. daHeight)
    /\ tracks \subseteq blobs
    /\ pending \subseteq blobs
    /\ seen \in 0 .. daHeight
    /\ tracker \in {"subscribed", "waiting", "stopped"}
    /\ trackerFailures \in 0 .. MaxTrackerFailures
    /\ emitting \subseteq Blocks
    /\ confirmations \in Seq(Blocks)
    /\ received \in 0 .. Len(confirmations)
    /\ Len(confirmations) - received <= FinalityCap
    /\ errors \in 0 .. MaxErrors
    /\ abandoned \subseteq 1 .. next - 1 /\ dropped \subseteq 1 .. next - 1

Included == {p[1] : p \in blobs}
Acknowledged == {p[1] : p \in tracks \cup pending} \cup emitting \cup Elements(confirmations)

\* Every block handed over is waiting, being sent, or on Celestia, unless the
\* callback itself logged it as failed or it went with the loop: whatever
\* attempts and calls fail before that, the loop keeps what it was given.  What
\* goes with the loop was never acknowledged, and it takes an outage of
\* MaxFailures calls in a row, each with all its attempts, or a shutdown whose
\* only submission fails.
NothingLost ==
    /\ 1 .. next - 1 \subseteq InHand \cup Included \cup abandoned \cup dropped
    /\ dropped \cap Acknowledged = {}
    /\ dropped # {} =>
        /\ loop = "stopped"
        /\ \/ failures = MaxFailures /\ errors >= MaxFailures * MaxAttempts
           \/ ~open /\ errors >= MaxAttempts

\* pending_size is the size of the blocks held, also after a failed call: the
\* size trigger neither fires early nor misses.
SizeIsExact == loop = "wait" => pendingSize = TotalSize(batch)

\* A batch, sent or waiting, outgrows the limit by its last block and by one
\* more for each failure in a row, so an outage cannot make the blob grow
\* without bound (config.rs:243, a blob must stay below Celestia's limit).
BatchIsBounded ==
    LET held == batch \o sending
    IN  BatchEnabled /\ Len(held) > failures + 1 =>
            Sizes(held)[Len(held) - failures - 1] < MaxBatchSize

\* Celestia sees this validator's blocks in order: a later block is never
\* included before an earlier one, nor without it when batches are enabled.
FirstHeight(b) == Min({p[2] : p \in {q \in blobs : q[1] = b}})
InclusionInOrder ==
    \A c \in Included, b \in Blocks :
        b < c => /\ BatchEnabled => b \in Included
                 /\ b \in Included => FirstHeight(b) <= FirstHeight(c)

\* A block is confirmed once, and only after a header at or above a height
\* that includes it, even if retries included it several times.
ConfirmedOnce ==
    /\ \A i, j \in DOMAIN confirmations : confirmations[i] = confirmations[j] => i = j
    /\ \A b \in Elements(confirmations) : b \in Included /\ FirstHeight(b) <= seen

\* Nothing more can happen to a block: it is confirmed, or the tracker has
\* given up, the callback has logged the block as failed, or the block went
\* with the loop.
Settled(b) ==
    \/ b \in Elements(confirmations)
    \/ tracker = "stopped"
    \/ b \in abandoned \cup dropped

\* However calls fail, the blocks handed over are all settled again and
\* again; being settled lasts, so each of them is settled in the end.
EventuallyConfirmed == []<>(\A b \in 1 .. next - 1 : Settled(b))

----------------------------------------------------------------------------
(* Refinement                                                              *)

Failed == abandoned \cup dropped

\* What Celestia and the event loop know of a block.
Status(b) ==
    CASE b \in Elements(confirmations) -> "confirmed"
      [] b \in Included \ Elements(confirmations) -> "included"
      [] b \in Failed \ Included -> "abandoned"
      [] b \in (1 .. next - 1) \ (Failed \cup Included) -> "handed"
      [] b >= next -> "new"

Statuses == [b \in Blocks |-> Status(b)]

Ledger == INSTANCE FinalityLedger WITH status <- Statuses

\* The loop with its retries, restored batches, spawned tasks and reconnects
\* implements the ledger of FinalityLedger: batches are published without a
\* gap, each block once, and confirmed after that.
LedgerSpec == Ledger!Spec
=============================================================================
