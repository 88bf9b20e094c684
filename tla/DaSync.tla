------------------------------- MODULE DaSync -------------------------------
(***************************************************************************)
(* How a validator starts: init_components, the replay of the block index, *)
(* the synchronization from Celestia DA and the start of the Application   *)
(* (crates/sequencer simplex_sequencer.rs, crates/celestia index.rs,       *)
(* crates/consensus runtime.rs), with a crash possible between any two     *)
(* writes and in the middle of an append to the index file.                *)
(*                                                                         *)
(* reth's tree and the index file outlive a crash; everything else does    *)
(* not.  The chain on Celestia is one chain (a block is its height, 0 is   *)
(* genesis), but its blocks come from several leaders, so they may be      *)
(* there out of order, twice, or not at all.                               *)
(***************************************************************************)
EXTENDS Integers, Sequences, FiniteSets, FiniteSetsExt

CONSTANTS
    MaxBlock,      \* bound: the highest block
    Layouts,       \* what Celestia may hold: sequences of sets of blocks
    GenesisDa,     \* genesis_da_height, configured (not 0)
    MaxCrashes     \* bound: how often the process crashes

Blocks == 1 .. MaxBlock

ASSUME MaxBlockAssumption == MaxBlock \in Nat \ {0}
ASSUME LayoutsAssumption == \A l \in Layouts : l \in Seq(SUBSET Blocks)
ASSUME GenesisDaAssumption == GenesisDa \in Nat \ {0}
ASSUME MaxCrashesAssumption == MaxCrashes \in Nat

VARIABLES
    da,        \* da[h]: the blocks found at Celestia height h
    phase,     \* "down", "ready", "sync", "running"
    seen,      \* FinalityTracker.finalized_height
    target,    \* current_celestia_height, as the sync read it
    todo,      \* blocks left of the range fetched, in order
    step,      \* of the block at the head of todo: "check", "execute", "update", "index"
    file,      \* lines of the index file
    index,     \* heights in BlockIndex.by_height
    head,      \* head of the shared fork choice
    executed,  \* executed_blocks
    reth,      \* the node: [known, head]
    appHeight, \* Application.height once consensus runs
    synced,    \* history: the sync went through the fetched range
    crashes

vars == <<da, phase, seen, target, todo, step, file, index, head, executed, reth,
          appHeight, synced, crashes>>
diskV == <<file, reth>>

----------------------------------------------------------------------------
(* The index file: a line holds one entry; "ended" says that its newline   *)
(* has been written and "ok" that it can be parsed.                        *)

Line(b, ok, ended) == [block |-> b, ok |-> ok, ended |-> ended]
LastLine == file[Len(file)]
Unfinished == file # <<>> /\ ~LastLine.ended

\* insert: an append after an unfinished line continues that line.
AppendLine(b) ==
    file' = IF Unfinished
            THEN [file EXCEPT ![Len(file)].ok = FALSE, ![Len(file)].ended = TRUE]
            ELSE Append(file, Line(b, TRUE, TRUE))

\* A crash in the middle leaves some prefix of the line.
TearLine(b) ==
    IF Unfinished
    THEN file' = [file EXCEPT ![Len(file)].ok = FALSE]
    ELSE \E ok \in BOOLEAN : file' = Append(file, Line(b, ok, FALSE))

\* replay: malformed lines are skipped.
Replay == {file[i].block : i \in {j \in DOMAIN file : file[j].ok}}

----------------------------------------------------------------------------
(* reth, external                                                          *)

Connects(b) == b - 1 \in reth.known
ImportBlock(b) == reth' = [reth EXCEPT !.known = @ \cup {b}]

\* The node may skip an update to an ancestor of its head.
SetHead(b) ==
    \/ reth' = [reth EXCEPT !.head = b]
    \/ b < reth.head /\ UNCHANGED reth

----------------------------------------------------------------------------
Volatile ==
    /\ seen = 0 /\ target = 0 /\ todo = {} /\ step = "check"
    /\ index = {} /\ head = 0 /\ executed = {}
    /\ appHeight = 1 /\ synced = FALSE

Init ==
    /\ da \in Layouts
    /\ phase = "down"
    /\ Volatile
    /\ file = <<>>
    /\ reth = [known |-> {0}, head |-> 0]
    /\ crashes = 0

Reset ==
    /\ phase' = "down"
    /\ seen' = 0 /\ target' = 0 /\ todo' = {} /\ step' = "check"
    /\ index' = {} /\ head' = 0 /\ executed' = {}
    /\ appHeight' = 1 /\ synced' = FALSE

\* init_components: the fork choice is genesis, here and on reth, at every
\* start; the tracker is spawned.
InitComponents ==
    /\ phase = "down"
    /\ SetHead(0)
    /\ phase' = "ready"
    /\ UNCHANGED <<da, seen, target, todo, step, file, index, head, executed,
                   appHeight, synced, crashes>>

\* The tracker's first header may be any height, later ones only higher.
HeaderArrives(h) ==
    /\ phase # "down"
    /\ h > seen
    /\ seen' = h
    /\ UNCHANGED <<da, phase, target, todo, step, index, head, executed, diskV,
                   appHeight, synced, crashes>>

\* create_application: initial_height is 1 and initial_hash is the genesis
\* hash, which run() reads before the sync.
StartConsensus == phase' = "running" /\ appHeight' = 1

\* get_blocks_in_range, with every copy of a block, and the order of the
\* sort by block height, which is stable.
Fetched(h) == {p \in Blocks \X (GenesisDa .. h) : p[1] \in da[p[2]]}
Before(p, q) == p[1] < q[1] \/ (p[1] = q[1] /\ p[2] <= q[2])
Current == (CHOOSE p \in todo : \A q \in todo : Before(p, q))[1]

\* sync_from_celestia opens the index, and without a header yet, before the
\* genesis height or with nothing in the range consensus starts at once.
NothingToSync == seen = 0 \/ GenesisDa > seen \/ Fetched(seen) = {}

SkipSync ==
    /\ phase = "ready"
    /\ NothingToSync
    /\ index' = Replay
    /\ StartConsensus
    /\ UNCHANGED <<da, seen, target, todo, step, head, executed, diskV, synced, crashes>>

BeginSync ==
    /\ phase = "ready"
    /\ ~NothingToSync
    /\ index' = Replay
    /\ target' = seen
    /\ todo' = Fetched(seen)
    /\ phase' = "sync"
    /\ UNCHANGED <<da, seen, step, head, executed, diskV, appHeight, synced, crashes>>

\* An error ends run(), and with it the process: here, a failed fetch.
FetchFails ==
    /\ phase = "ready"
    /\ ~NothingToSync
    /\ Reset
    /\ UNCHANGED <<da, diskV, crashes>>

----------------------------------------------------------------------------
(* One block: sync_block_batch, sync_single_block, execute_sync_block      *)

Processing(s) == phase = "sync" /\ todo # {} /\ step = s
DropCurrent == todo' = {p \in todo : p # CHOOSE q \in todo : \A r \in todo : Before(q, r)}

\* A height that is indexed is not executed again.
SkipIndexed ==
    /\ Processing("check")
    /\ Current \in index
    /\ DropCurrent
    /\ UNCHANGED <<da, phase, seen, target, step, index, head, executed, diskV,
                   appHeight, synced, crashes>>

CheckIgnoringIndex ==
    /\ Processing("check")
    /\ step' = "execute"
    /\ UNCHANGED <<da, phase, seen, target, todo, index, head, executed, diskV,
                   appHeight, synced, crashes>>

CheckIndexingFirst ==
    /\ Processing("check")
    /\ Current \notin index
    /\ AppendLine(Current)
    /\ step' = "execute"
    /\ UNCHANGED <<da, phase, seen, target, todo, index, head, executed, reth,
                   appHeight, synced, crashes>>

\* A discontinuity is only logged, so every other block is executed.
CheckBlock ==
    /\ Processing("check")
    /\ Current \notin index
    /\ step' = "execute"
    /\ UNCHANGED <<da, phase, seen, target, todo, index, head, executed, diskV,
                   appHeight, synced, crashes>>

\* reth must answer VALID, which it does only if it knows the parent.
ExecuteUnconnected ==
    /\ Processing("execute")
    /\ ImportBlock(Current)
    /\ step' = "update"
    /\ UNCHANGED <<da, phase, seen, target, todo, file, index, head, executed,
                   appHeight, synced, crashes>>

ExecuteBlock ==
    /\ Processing("execute")
    /\ Connects(Current)
    /\ ImportBlock(Current)
    /\ step' = "update"
    /\ UNCHANGED <<da, phase, seen, target, todo, file, index, head, executed,
                   appHeight, synced, crashes>>

\* Any other answer, or none, ends the process; a call that is only
\* answered too late has imported the block.
ExecuteFails ==
    /\ Processing("execute")
    /\ Reset
    /\ UNCHANGED reth \/ (Connects(Current) /\ ImportBlock(Current))
    /\ UNCHANGED <<da, file, crashes>>

\* No other task writes the fork choice yet, so read, update and store are
\* one step.
UpdateUntracked ==
    /\ Processing("update")
    /\ SetHead(Current)
    /\ head' = Current
    /\ step' = "index"
    /\ UNCHANGED <<da, phase, seen, target, todo, file, index, executed, appHeight, synced, crashes>>

UpdateHead ==
    /\ Processing("update")
    /\ SetHead(Current)
    /\ head' = Current
    /\ executed' = executed \cup {Current}
    /\ step' = "index"
    /\ UNCHANGED <<da, phase, seen, target, todo, file, index, appHeight, synced, crashes>>

UpdateFails ==
    /\ Processing("update")
    /\ Reset
    /\ UNCHANGED reth \/ SetHead(Current)
    /\ UNCHANGED <<da, file, crashes>>

IndexBlock ==
    /\ Processing("index")
    /\ AppendLine(Current)
    /\ index' = index \cup {Current}
    /\ DropCurrent
    /\ step' = "check"
    /\ UNCHANGED <<da, phase, seen, target, head, executed, reth, appHeight, synced, crashes>>

FinishSync ==
    /\ phase = "sync"
    /\ todo = {}
    /\ synced' = TRUE
    /\ StartConsensus
    /\ UNCHANGED <<da, seen, target, todo, step, index, head, executed, diskV, crashes>>

----------------------------------------------------------------------------
\* Also a failed write of the index, which ends the process as well.
Crash ==
    /\ phase # "down"
    /\ crashes < MaxCrashes
    /\ crashes' = crashes + 1
    /\ Reset
    /\ \/ Processing("index") /\ TearLine(Current)
       \/ UNCHANGED file
    /\ UNCHANGED <<da, reth>>

Next ==
    \/ InitComponents \/ SkipSync \/ BeginSync \/ FetchFails
    \/ \E h \in 1 .. Len(da) : HeaderArrives(h)
    \/ SkipIndexed \/ CheckBlock \/ ExecuteBlock \/ ExecuteFails
    \/ UpdateHead \/ UpdateFails \/ IndexBlock
    \/ FinishSync
    \/ Crash

Spec == Init /\ [][Next]_vars

----------------------------------------------------------------------------
(* Properties                                                              *)

\* Every variable keeps the shape of the state it stands for.
TypeOK ==
    /\ da \in Layouts
    /\ phase \in {"down", "ready", "sync", "running"}
    /\ seen \in 0 .. Len(da) /\ target \in 0 .. seen
    /\ todo \subseteq Fetched(target)
    /\ step \in {"check", "execute", "update", "index"}
    /\ file \in Seq([block : Blocks, ok : BOOLEAN, ended : BOOLEAN])
    /\ index \subseteq Blocks /\ executed \subseteq Blocks
    /\ head \in {0} \cup executed
    /\ reth \in [known : SUBSET (0 .. MaxBlock), head : 0 .. MaxBlock]
    /\ reth.head \in reth.known
    /\ appHeight \in 1 .. MaxBlock + 1
    /\ synced \in BOOLEAN
    /\ crashes \in 0 .. MaxCrashes

\* A block is only indexed, in memory or on disk, when reth has it and all
\* its ancestors: a later start may skip it, whatever crashed in between.
IndexedIsExecuted == \A b \in index \cup Replay : 0 .. b \subseteq reth.known

\* A sync that ends well has left no hole: everything Celestia holds up to
\* the height it read is in reth, with its ancestors, although blocks come
\* out of order and twice, and indexed ones are skipped.
SyncIsComplete ==
    synced => \A p \in Fetched(target) : 0 .. p[1] \subseteq reth.known

\* One process executes a block at most once however many copies Celestia
\* holds, and no later process executes what the index file still has.
NoReexecution == Processing("execute") => Current \notin executed \cup Replay

\* The sync replays historical blocks to catch up with the network
\* (simplex_sequencer.rs:218): consensus goes on after the last block of
\* the chain the sync went through.
ConsensusContinuesChain ==
    phase = "running" /\ synced => appHeight = Max({p[1] : p \in Fetched(target)}) + 1

\* On startup the file is replayed to rebuild the in-memory index
\* (index.rs:9): what was inserted is what a replay gives.
IndexSurvives == phase \in {"sync", "running"} => Replay = index
=============================================================================
