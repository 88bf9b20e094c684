---------------------------- MODULE DaSyncProofs ----------------------------
(***************************************************************************)
(* Theorems about DaSync, for every layout of Celestia, number of blocks   *)
(* and of crashes.  The invariant follows a block from the fetched range   *)
(* through reth into the index, and says at each step what a crash there   *)
(* leaves behind.                                                          *)
(***************************************************************************)
EXTENDS DaSync, NumberFacts, SequenceTheorems, TLAPS

\* reth's tree has no hole below a block.
Tree ==
    /\ 0 \in reth.known
    /\ \A b \in reth.known : 0 .. b \subseteq reth.known

\* Only a sync is in the middle of a block, and nothing is left of one that
\* has not begun or has finished.
InHand ==
    /\ step # "check" => phase = "sync" /\ todo # {}
    /\ phase \in {"down", "ready"} => executed = {} /\ head = 0
    /\ synced => phase = "running" /\ todo = {}

\* The block in hand is in reth once it has been executed, and what has been
\* executed is indexed, but for that block.
CurrentBlock ==
    /\ step \in {"update", "index"} => Current \in reth.known
    /\ step # "check" => Current \notin index
    /\ step # "index" => executed \subseteq index
    /\ step = "index" => executed \subseteq index \cup {Current}

\* What is indexed, in memory or on disk, and what the sync is done with is
\* in reth.
Indexed == index \cup Replay \subseteq reth.known
Handled ==
    phase = "sync" \/ synced => \A p \in Fetched(target) \ todo : p[1] \in reth.known

IInv == TypeOK /\ Tree /\ InHand /\ CurrentBlock /\ Indexed /\ Handled

USE MaxBlockAssumption, LayoutsAssumption, GenesisDaAssumption, MaxCrashesAssumption

Lines == [block : Blocks, ok : BOOLEAN, ended : BOOLEAN]

----------------------------------------------------------------------------
(* The first block left of the range                                       *)

\* The sort of the range has a first element, so Current is one of the blocks
\* that are left.
LEMMA CurrentIsLeft ==
    ASSUME TypeOK, todo # {}
    PROVE  LET c == CHOOSE p \in todo : \A q \in todo : Before(p, q)
           IN  c \in todo /\ Current = c[1] /\ Current \in Blocks
<1>1. todo \subseteq Blocks \X Nat
  <2>1. todo \subseteq Fetched(target) /\ target \in Nat
    BY DEF TypeOK
  <2>2. GenesisDa .. target \subseteq Nat
    BY <2>1
  <2>3. QED BY <2>1, <2>2 DEF Fetched
<1>2. \A p \in todo : p[1] \in Nat /\ p[2] \in Nat /\ p[1] \in Blocks
    BY <1>1 DEF Blocks
<1> DEFINE Blks == {p[1] : p \in todo}
           Places(n) == {p[2] : p \in {q \in todo : q[1] = n}}
<1>3. PICK m \in Blks : \A n \in Blks : m <= n
  <2>1. Blks \in SUBSET Nat /\ Blks # {}
    BY <1>2
  <2> HIDE DEF Blks
  <2>2. QED BY <2>1, LeastNumber
<1>4. PICK h \in Places(m) : \A n \in Places(m) : h <= n
  <2>1. Places(m) \in SUBSET Nat /\ Places(m) # {}
    BY <1>2, <1>3
  <2> HIDE DEF Places
  <2>2. QED BY <2>1, LeastNumber
<1>5. PICK p \in todo : p[1] = m /\ p[2] = h
    BY <1>4
<1>6. \A q \in todo : m <= q[1] /\ (q[1] = m => h <= q[2])
    BY <1>3, <1>4
<1>7. \A q \in todo : Before(p, q)
    BY <1>2, <1>5, <1>6 DEF Before
<1>8. \E c \in todo : \A q \in todo : Before(c, q)
    BY <1>7
<1>9. QED BY <1>2, <1>8 DEF Current

----------------------------------------------------------------------------
(* The index file                                                          *)

\* What a replay gives after a line was written, or was torn, is what it gave
\* before and at most the new block.
LEMMA FileEffect ==
    ASSUME file \in Seq(Lines), NEW b \in Blocks, AppendLine(b) \/ TearLine(b)
    PROVE  file' \in Seq(Lines) /\ Replay' \subseteq Replay \cup {b}
<1>1. Len(file) \in Nat /\ DOMAIN file = 1 .. Len(file) /\ \A i \in DOMAIN file : file[i] \in Lines
    BY LenProperties
<1>2. CASE Unfinished
  <2>1. Len(file) \in DOMAIN file
    BY <1>1, <1>2, EmptySeq DEF Unfinished
  <2>2. PICK l \in Lines : l.ok = FALSE /\ file' = [file EXCEPT ![Len(file)] = l]
    <3>1. file[Len(file)] \in Lines
      BY <1>1, <2>1
    <3>2. CASE AppendLine(b)
      <4>1. file' = [file EXCEPT ![Len(file)] = [file[Len(file)] EXCEPT !.ok = FALSE, !.ended = TRUE]]
        BY <1>2, <3>2 DEF AppendLine
      <4>2. [file[Len(file)] EXCEPT !.ok = FALSE, !.ended = TRUE] \in Lines
        BY <3>1 DEF Lines
      <4>3. [file[Len(file)] EXCEPT !.ok = FALSE, !.ended = TRUE].ok = FALSE
        BY <3>1 DEF Lines
      <4>4. QED BY <4>1, <4>2, <4>3
    <3>3. CASE TearLine(b)
      <4>1. file' = [file EXCEPT ![Len(file)] = [file[Len(file)] EXCEPT !.ok = FALSE]]
        BY <1>2, <3>3 DEF TearLine
      <4>2. [file[Len(file)] EXCEPT !.ok = FALSE] \in Lines
        BY <3>1 DEF Lines
      <4>3. [file[Len(file)] EXCEPT !.ok = FALSE].ok = FALSE
        BY <3>1 DEF Lines
      <4>4. QED BY <4>1, <4>2, <4>3
    <3>4. QED BY <3>2, <3>3
  <2>3. file' \in Seq(Lines) /\ DOMAIN file' = DOMAIN file
    BY <1>1, <2>1, <2>2, ExceptSeq
  <2>4. \A i \in DOMAIN file : file'[i].ok => file[i].ok /\ file'[i].block = file[i].block
    BY <1>1, <2>1, <2>2
  <2>5. QED BY <2>3, <2>4 DEF Replay
<1>3. CASE ~Unfinished
  <2>1. PICK l \in Lines : l.block = b /\ file' = Append(file, l)
    <3>1. \A ok, ended \in BOOLEAN : Line(b, ok, ended) \in Lines /\ Line(b, ok, ended).block = b
      BY DEF Line, Lines
    <3>2. QED BY <1>3, <3>1 DEF AppendLine, TearLine
  <2>2. /\ file' \in Seq(Lines)
        /\ Len(file') = Len(file) + 1
        /\ \A i \in 1 .. Len(file) : file'[i] = file[i]
        /\ file'[Len(file) + 1] = l
    BY <2>1, AppendProperties
  <2>3. DOMAIN file' = 1 .. (Len(file) + 1)
    BY <2>2, LenProperties
  <2>4. ASSUME NEW i \in DOMAIN file', file'[i].ok
        PROVE  file'[i].block \in Replay \cup {b}
    <3>1. CASE i \in DOMAIN file
      BY <1>1, <2>2, <2>4, <3>1 DEF Replay
    <3>2. CASE i = Len(file) + 1
      BY <2>1, <2>2, <3>2
    <3>3. QED BY <1>1, <2>3, <3>1, <3>2
  <2>5. QED BY <2>2, <2>4 DEF Replay
<1>4. QED BY <1>2, <1>3

----------------------------------------------------------------------------
(* reth                                                                    *)

RethType == reth \in [known : SUBSET (0 .. MaxBlock), head : 0 .. MaxBlock] /\ reth.head \in reth.known

\* A block that connects extends the tree.
LEMMA ImportEffect ==
    ASSUME RethType, Tree, NEW b \in Blocks, Connects(b), ImportBlock(b)
    PROVE  RethType' /\ Tree' /\ reth'.known = reth.known \cup {b}
<1>1. /\ reth' = [reth EXCEPT !.known = reth.known \cup {b}]
      /\ reth'.known = reth.known \cup {b} /\ reth'.head = reth.head
    BY DEF ImportBlock, RethType
<1>2. 0 .. (b - 1) \subseteq reth.known
    BY DEF Connects, Tree
<1>3. 0 .. b \subseteq reth'.known
    BY <1>1, <1>2 DEF Blocks
<1>4. RethType'
    BY <1>1 DEF RethType, Blocks
<1>5. Tree'
    BY <1>1, <1>3 DEF Tree
<1>6. QED BY <1>1, <1>4, <1>5

\* A head that is known changes nothing in the tree.
LEMMA SetHeadEffect ==
    ASSUME RethType, Tree, NEW b \in reth.known, SetHead(b)
    PROVE  RethType' /\ Tree' /\ reth'.known = reth.known
<1>1. reth' = reth \/ reth' = [reth EXCEPT !.head = b]
    BY DEF SetHead
<1>2. RethType' /\ reth'.known = reth.known
    BY <1>1 DEF RethType
<1>3. QED BY <1>2 DEF Tree

----------------------------------------------------------------------------
(* The actions                                                             *)

\* However a process ends, what it leaves on disk is consistent.
LEMMA ResetIInv ==
    ASSUME IInv, Reset, da' = da, crashes' \in 0 .. MaxCrashes,
           RethType', Tree', reth.known \subseteq reth'.known,
           file' \in Seq(Lines), Replay' \subseteq reth'.known
    PROVE  IInv'
<1>1. /\ phase' = "down" /\ seen' = 0 /\ target' = 0 /\ todo' = {} /\ step' = "check"
      /\ index' = {} /\ head' = 0 /\ executed' = {} /\ appHeight' = 1 /\ synced' = FALSE
    BY DEF Reset
<1>2. da \in Layouts /\ Len(da) \in Nat
    BY LenProperties DEF IInv, TypeOK
<1>3. TypeOK'
  <2>1. /\ da' \in Layouts
        /\ phase' \in {"down", "ready", "sync", "running"}
        /\ seen' \in 0 .. Len(da') /\ target' \in 0 .. seen'
        /\ step' \in {"check", "execute", "update", "index"}
        /\ appHeight' \in 1 .. MaxBlock + 1
    BY <1>1, <1>2
  <2>2. synced' \in BOOLEAN
    BY <1>1, Zenon
  <2>3. /\ index' \subseteq Blocks /\ executed' \subseteq Blocks
        /\ head' \in {0} \cup executed'
        /\ todo' \subseteq Fetched(target)'
    BY <1>1
  <2>4. QED BY <2>1, <2>2, <2>3 DEF TypeOK, RethType, Lines
<1>4. InHand' /\ CurrentBlock' /\ Indexed' /\ Handled'
    BY <1>1 DEF InHand, CurrentBlock, Indexed, Handled
<1>5. QED BY <1>3, <1>4 DEF IInv

\* What is known of the state before a step.
LEMMA StateBefore ==
    ASSUME IInv
    PROVE  /\ RethType /\ Tree
           /\ file \in Seq(Lines) /\ index \cup Replay \subseteq reth.known
           /\ crashes \in 0 .. MaxCrashes
           /\ Replay \subseteq Blocks
<1>1. file \in Seq(Lines)
    BY DEF IInv, TypeOK, Lines
<1>2. \A i \in DOMAIN file : file[i].block \in Blocks
  <2>1. \A i \in DOMAIN file : file[i] \in Lines
    BY <1>1, LenProperties
  <2>2. QED BY <2>1 DEF Lines
<1>3. Replay \subseteq Blocks
    BY <1>2 DEF Replay
<1>4. QED BY <1>1, <1>3 DEF IInv, TypeOK, RethType, Indexed

LEMMA InitComponentsIInv ==
    ASSUME IInv, InitComponents
    PROVE  IInv'
<1>1. /\ phase = "down" /\ phase' = "ready" /\ SetHead(0)
      /\ UNCHANGED <<da, seen, target, todo, step, file, index, head, executed,
                     appHeight, synced, crashes>>
    BY DEF InitComponents
<1>2. RethType' /\ Tree' /\ reth'.known = reth.known
    BY <1>1, StateBefore, SetHeadEffect DEF Tree
<1>3. /\ Fetched(target)' = Fetched(target)
      /\ Replay' = Replay /\ Current' = Current
    BY <1>1 DEF Fetched, Replay, Current
<1>4. TypeOK'
    BY <1>1, <1>2, <1>3 DEF IInv, TypeOK, RethType
<1>5. InHand' /\ CurrentBlock' /\ Indexed' /\ Handled'
    BY <1>1, <1>2, <1>3 DEF IInv, InHand, CurrentBlock, Indexed, Handled
<1>6. QED BY <1>2, <1>4, <1>5 DEF IInv

LEMMA HeaderArrivesIInv ==
    ASSUME IInv, NEW h \in 1 .. Len(da), HeaderArrives(h)
    PROVE  IInv'
<1>1. /\ h > seen /\ seen' = h
      /\ UNCHANGED <<da, phase, target, todo, step, index, head, executed, file, reth,
                     appHeight, synced, crashes>>
    BY DEF HeaderArrives, diskV
<1>2. /\ Fetched(target)' = Fetched(target)
      /\ Replay' = Replay /\ Current' = Current
    BY <1>1 DEF Fetched, Replay, Current
<1>3. seen' \in 0 .. Len(da) /\ target \in 0 .. seen'
    BY <1>1 DEF IInv, TypeOK
<1>4. TypeOK'
    BY <1>1, <1>2, <1>3 DEF IInv, TypeOK
<1>5. Tree' /\ InHand' /\ CurrentBlock' /\ Indexed' /\ Handled'
    BY <1>1, <1>2 DEF IInv, Tree, InHand, CurrentBlock, Indexed, Handled
<1>6. QED BY <1>4, <1>5 DEF IInv

\* The index is opened: what a replay gives is in reth.
LEMMA OpenIInv ==
    ASSUME IInv, SkipSync \/ BeginSync
    PROVE  IInv'
<1>1. /\ phase = "ready" /\ index' = Replay
      /\ UNCHANGED <<da, seen, step, head, executed, file, reth, synced, crashes>>
    BY DEF SkipSync, BeginSync, diskV
<1>2. executed = {} /\ step = "check" /\ synced = FALSE
    BY <1>1 DEF IInv, InHand, TypeOK
<1>3. Replay' = Replay
    BY <1>1 DEF Replay
<1>4. Tree' /\ Indexed'
    BY <1>1, <1>3, StateBefore DEF Tree, Indexed
<1>5. CASE SkipSync
  <2>1. phase' = "running" /\ appHeight' = 1 /\ UNCHANGED <<target, todo>>
    BY <1>5 DEF SkipSync, StartConsensus
  <2>2. Fetched(target)' = Fetched(target)
    BY <1>1, <2>1 DEF Fetched
  <2>3. TypeOK'
    BY <1>1, <2>1, <2>2, StateBefore DEF IInv, TypeOK
  <2>4. InHand' /\ CurrentBlock' /\ Handled'
    BY <1>1, <1>2, <2>1 DEF InHand, CurrentBlock, Handled
  <2>5. QED BY <1>4, <2>3, <2>4 DEF IInv
<1>6. CASE BeginSync
  <2>1. /\ phase' = "sync" /\ target' = seen /\ todo' = Fetched(seen)
        /\ appHeight' = appHeight
    BY <1>6 DEF BeginSync
  <2>2. Fetched(target)' = todo'
    BY <1>1, <2>1 DEF Fetched
  <2>3. TypeOK'
    BY <1>1, <2>1, <2>2, StateBefore DEF IInv, TypeOK
  <2>4. InHand' /\ CurrentBlock' /\ Handled'
    BY <1>1, <1>2, <2>1, <2>2 DEF InHand, CurrentBlock, Handled
  <2>5. QED BY <1>4, <2>3, <2>4 DEF IInv
<1>7. QED BY <1>5, <1>6

LEMMA SkipIndexedIInv ==
    ASSUME IInv, SkipIndexed
    PROVE  IInv'
<1> DEFINE c == CHOOSE q \in todo : \A r \in todo : Before(q, r)
<1>1. /\ phase = "sync" /\ todo # {} /\ step = "check" /\ Current \in index
      /\ todo' = {p \in todo : p # c}
      /\ UNCHANGED <<da, phase, seen, target, step, index, head, executed, file, reth,
                     appHeight, synced, crashes>>
    BY DEF SkipIndexed, Processing, DropCurrent, diskV
<1>2. c \in todo /\ c[1] = Current
    BY <1>1, CurrentIsLeft DEF IInv
<1> HIDE DEF c
<1>3. Fetched(target)' = Fetched(target) /\ Replay' = Replay
    BY <1>1 DEF Fetched, Replay
<1>4. TypeOK'
    BY <1>1, <1>3 DEF IInv, TypeOK
<1>5. Tree' /\ InHand' /\ CurrentBlock' /\ Indexed'
    BY <1>1, <1>3 DEF IInv, Tree, InHand, CurrentBlock, Indexed
<1>6. Handled'
    BY <1>1, <1>2, <1>3, StateBefore DEF IInv, Handled
<1>7. QED BY <1>4, <1>5, <1>6 DEF IInv

LEMMA CheckBlockIInv ==
    ASSUME IInv, CheckBlock
    PROVE  IInv'
<1>1. /\ phase = "sync" /\ todo # {} /\ step = "check" /\ step' = "execute"
      /\ Current \notin index
      /\ UNCHANGED <<da, phase, seen, target, todo, index, head, executed, file, reth,
                     appHeight, synced, crashes>>
    BY DEF CheckBlock, Processing, diskV
<1>2. /\ Fetched(target)' = Fetched(target)
      /\ Replay' = Replay /\ Current' = Current
    BY <1>1 DEF Fetched, Replay, Current
<1>3. TypeOK'
    BY <1>1, <1>2 DEF IInv, TypeOK
<1>4. Tree' /\ InHand' /\ CurrentBlock' /\ Indexed' /\ Handled'
    BY <1>1, <1>2 DEF IInv, Tree, InHand, CurrentBlock, Indexed, Handled
<1>5. QED BY <1>3, <1>4 DEF IInv

LEMMA ExecuteBlockIInv ==
    ASSUME IInv, ExecuteBlock
    PROVE  IInv'
<1>1. /\ phase = "sync" /\ todo # {} /\ step = "execute" /\ step' = "update"
      /\ Connects(Current) /\ ImportBlock(Current)
      /\ UNCHANGED <<da, phase, seen, target, todo, file, index, head, executed,
                     appHeight, synced, crashes>>
    BY DEF ExecuteBlock, Processing
<1>2. Current \in Blocks
    BY <1>1, CurrentIsLeft DEF IInv
<1>3. RethType' /\ Tree' /\ reth'.known = reth.known \cup {Current}
    BY <1>1, <1>2, StateBefore, ImportEffect
<1>4. /\ Fetched(target)' = Fetched(target)
      /\ Replay' = Replay /\ Current' = Current
    BY <1>1 DEF Fetched, Replay, Current
<1>5. TypeOK'
    BY <1>1, <1>3, <1>4 DEF IInv, TypeOK, RethType
<1>6. InHand' /\ CurrentBlock' /\ Indexed' /\ Handled'
    BY <1>1, <1>3, <1>4 DEF IInv, InHand, CurrentBlock, Indexed, Handled
<1>7. QED BY <1>3, <1>5, <1>6 DEF IInv

LEMMA UpdateHeadIInv ==
    ASSUME IInv, UpdateHead
    PROVE  IInv'
<1>1. /\ phase = "sync" /\ todo # {} /\ step = "update" /\ step' = "index"
      /\ SetHead(Current) /\ head' = Current /\ executed' = executed \cup {Current}
      /\ UNCHANGED <<da, phase, seen, target, todo, file, index, appHeight, synced, crashes>>
    BY DEF UpdateHead, Processing
<1>2. Current \in Blocks /\ Current \in reth.known
    BY <1>1, CurrentIsLeft DEF IInv, CurrentBlock
<1>3. RethType' /\ Tree' /\ reth'.known = reth.known
    BY <1>1, <1>2, StateBefore, SetHeadEffect
<1>4. /\ Fetched(target)' = Fetched(target)
      /\ Replay' = Replay /\ Current' = Current
    BY <1>1 DEF Fetched, Replay, Current
<1>5. TypeOK'
    BY <1>1, <1>2, <1>3, <1>4 DEF IInv, TypeOK, RethType
<1>6. InHand' /\ CurrentBlock' /\ Indexed' /\ Handled'
    BY <1>1, <1>2, <1>3, <1>4 DEF IInv, InHand, CurrentBlock, Indexed, Handled
<1>7. QED BY <1>3, <1>5, <1>6 DEF IInv

LEMMA IndexBlockIInv ==
    ASSUME IInv, IndexBlock
    PROVE  IInv'
<1> DEFINE c == CHOOSE q \in todo : \A r \in todo : Before(q, r)
<1>1. /\ phase = "sync" /\ todo # {} /\ step = "index" /\ step' = "check"
      /\ AppendLine(Current) /\ index' = index \cup {Current}
      /\ todo' = {p \in todo : p # c}
      /\ UNCHANGED <<da, phase, seen, target, head, executed, reth, appHeight, synced, crashes>>
    BY DEF IndexBlock, Processing, DropCurrent
<1>2. c \in todo /\ c[1] = Current /\ Current \in Blocks
    BY <1>1, CurrentIsLeft DEF IInv
<1> HIDE DEF c
<1>3. Current \in reth.known
    BY <1>1 DEF IInv, CurrentBlock
<1>4. file' \in Seq(Lines) /\ Replay' \subseteq Replay \cup {Current}
    BY <1>1, <1>2, StateBefore, FileEffect
<1>5. Fetched(target)' = Fetched(target)
    BY <1>1 DEF Fetched
<1>6. TypeOK'
    BY <1>1, <1>2, <1>4, <1>5 DEF IInv, TypeOK, Lines
<1>7. Tree' /\ InHand'
    BY <1>1 DEF IInv, Tree, InHand
<1>8. CurrentBlock' /\ Indexed'
    BY <1>1, <1>3, <1>4 DEF IInv, CurrentBlock, Indexed
<1>9. Handled'
    BY <1>1, <1>2, <1>3, <1>5 DEF IInv, Handled
<1>10. QED BY <1>6, <1>7, <1>8, <1>9 DEF IInv

LEMMA FinishSyncIInv ==
    ASSUME IInv, FinishSync
    PROVE  IInv'
<1>1. /\ phase = "sync" /\ todo = {} /\ synced' = TRUE /\ phase' = "running" /\ appHeight' = 1
      /\ UNCHANGED <<da, seen, target, todo, step, index, head, executed, file, reth, crashes>>
    BY DEF FinishSync, StartConsensus, diskV
<1>2. /\ Fetched(target)' = Fetched(target)
      /\ Replay' = Replay /\ Current' = Current
    BY <1>1 DEF Fetched, Replay, Current
<1>3. TypeOK'
    BY <1>1, <1>2 DEF IInv, TypeOK
<1>4. Tree' /\ InHand' /\ CurrentBlock' /\ Indexed' /\ Handled'
    BY <1>1, <1>2 DEF IInv, Tree, InHand, CurrentBlock, Indexed, Handled
<1>5. QED BY <1>3, <1>4 DEF IInv

\* Failed calls end the process with what reth may have done by then.
LEMMA FailuresIInv ==
    ASSUME IInv, FetchFails \/ ExecuteFails \/ UpdateFails
    PROVE  IInv'
<1>1. Reset /\ UNCHANGED <<da, file, crashes>>
    BY DEF FetchFails, ExecuteFails, UpdateFails, diskV
<1>2. RethType' /\ Tree' /\ reth.known \subseteq reth'.known
  <2>1. CASE UNCHANGED reth
    BY <2>1, StateBefore DEF RethType, Tree
  <2>2. CASE ExecuteFails /\ Connects(Current) /\ ImportBlock(Current)
    <3>1. Current \in Blocks
      BY <2>2, CurrentIsLeft DEF IInv, ExecuteFails, Processing
    <3>2. QED BY <2>2, <3>1, StateBefore, ImportEffect
  <2>3. CASE UpdateFails /\ SetHead(Current)
    <3>1. Current \in reth.known
      BY <2>3 DEF IInv, CurrentBlock, UpdateFails, Processing
    <3>2. QED BY <2>3, <3>1, StateBefore, SetHeadEffect
  <2>4. QED BY <2>1, <2>2, <2>3 DEF FetchFails, ExecuteFails, UpdateFails, diskV
<1>3. Replay' = Replay
    BY <1>1 DEF Replay
<1>4. QED BY <1>1, <1>2, <1>3, StateBefore, ResetIInv

\* A crash may tear the line that is being written.
LEMMA CrashIInv ==
    ASSUME IInv, Crash
    PROVE  IInv'
<1>1. Reset /\ UNCHANGED <<da, reth>> /\ crashes' \in 0 .. MaxCrashes
    BY StateBefore DEF Crash
<1>2. file' \in Seq(Lines) /\ Replay' \subseteq reth.known
  <2>1. CASE UNCHANGED file
    BY <2>1, StateBefore DEF Replay
  <2>2. CASE Processing("index") /\ TearLine(Current)
    <3>1. Current \in Blocks /\ Current \in reth.known
      BY <2>2, CurrentIsLeft DEF IInv, CurrentBlock, Processing
    <3>2. QED BY <2>2, <3>1, StateBefore, FileEffect
  <2>3. QED BY <2>1, <2>2 DEF Crash
<1>3. RethType' /\ Tree'
    BY <1>1, StateBefore DEF RethType, Tree
<1>4. QED BY <1>1, <1>2, <1>3, ResetIInv

----------------------------------------------------------------------------
(* The theorems                                                            *)

LEMMA InitIInv == Init => IInv
<1> SUFFICES ASSUME Init PROVE IInv
    OBVIOUS
<1>1. da \in Layouts /\ Len(da) \in Nat
    BY LenProperties DEF Init
<1>2. Replay = {} /\ file \in Seq(Lines)
    BY DEF Init, Replay
<1>3. TypeOK
  <2>1. /\ phase \in {"down", "ready", "sync", "running"}
        /\ seen \in 0 .. Len(da) /\ target \in 0 .. seen
        /\ step \in {"check", "execute", "update", "index"}
        /\ appHeight \in 1 .. MaxBlock + 1
        /\ crashes \in 0 .. MaxCrashes
    BY <1>1 DEF Init, Volatile
  <2>2. /\ index \subseteq Blocks /\ executed \subseteq Blocks
        /\ head \in {0} \cup executed
        /\ todo \subseteq Fetched(target)
    BY DEF Init, Volatile
  <2>3. /\ reth \in [known : SUBSET (0 .. MaxBlock), head : 0 .. MaxBlock]
        /\ reth.head \in reth.known
    BY DEF Init
  <2>4. synced \in BOOLEAN
    BY Zenon DEF Init, Volatile
  <2>5. QED BY <1>1, <1>2, <2>1, <2>2, <2>3, <2>4 DEF TypeOK, Lines
<1>4. Tree /\ InHand /\ CurrentBlock /\ Indexed /\ Handled
    BY <1>2 DEF Init, Volatile, Tree, InHand, CurrentBlock, Indexed, Handled
<1>5. QED BY <1>3, <1>4 DEF IInv

LEMMA NextIInv == IInv /\ [Next]_vars => IInv'
<1> SUFFICES ASSUME IInv, [Next]_vars PROVE IInv'
    OBVIOUS
<1>1. CASE Next
    BY <1>1, InitComponentsIInv, OpenIInv, FailuresIInv, HeaderArrivesIInv, SkipIndexedIInv,
       CheckBlockIInv, ExecuteBlockIInv, UpdateHeadIInv, IndexBlockIInv, FinishSyncIInv,
       CrashIInv DEF Next
<1>2. CASE UNCHANGED vars
  <2>1. UNCHANGED <<da, phase, seen, target, todo, step, file, index, head, executed, reth,
                    appHeight, synced, crashes>>
    BY <1>2 DEF vars
  <2>2. /\ Fetched(target)' = Fetched(target)
        /\ Replay' = Replay /\ Current' = Current
    BY <2>1 DEF Fetched, Replay, Current
  <2>3. TypeOK'
    BY <2>1, <2>2 DEF IInv, TypeOK
  <2>4. Tree' /\ InHand' /\ CurrentBlock' /\ Indexed' /\ Handled'
    BY <2>1, <2>2 DEF IInv, Tree, InHand, CurrentBlock, Indexed, Handled
  <2>5. QED BY <2>3, <2>4 DEF IInv
<1>3. QED BY <1>1, <1>2

\* The inductive invariant of the start, through every crash and failed call.
THEOREM Invariance == Spec => []IInv
BY InitIInv, NextIInv, PTL DEF Spec

\* Every variable keeps its type, the torn file included.
THEOREM TypeCorrect == Spec => []TypeOK
<1>1. IInv => TypeOK BY DEF IInv
<1>2. QED BY Invariance, <1>1, PTL

\* insert runs after the execution, so what a later start skips is in reth,
\* whatever line was torn and wherever the process ended.
THEOREM IndexTheorem == Spec => []IndexedIsExecuted
<1>1. IInv => IndexedIsExecuted BY DEF IInv, Indexed, Tree, IndexedIsExecuted
<1>2. QED BY Invariance, <1>1, PTL

\* A sync that went through its range leaves no hole in reth's tree.
THEOREM SyncTheorem == Spec => []SyncIsComplete
<1>1. IInv => SyncIsComplete
  <2> SUFFICES ASSUME IInv, synced, NEW p \in Fetched(target)
               PROVE  0 .. p[1] \subseteq reth.known
    BY DEF SyncIsComplete
  <2>1. p[1] \in reth.known
    BY DEF IInv, InHand, Handled
  <2>2. QED BY <2>1 DEF IInv, Tree
<1>2. QED BY Invariance, <1>1, PTL

----------------------------------------------------------------------------
(* What a torn line costs.  An append after it swallows both: the entry    *)
(* that the replay has taken from it, if it was whole but for its newline, *)
(* and the new one.  After that the file ends with a newline.              *)

Opened == phase \in {"sync", "running"}

\* The file has no entry that the index does not have, and lacks at most two
\* that the index has: none before the first append of a process, and none
\* as long as no process has crashed.
IndexLossIsBounded ==
    Opened => /\ Replay \subseteq index
              /\ IsFiniteSet(index \ Replay) /\ Cardinality(index \ Replay) <= 2
              /\ crashes = 0 => Replay = index

LossInv ==
    /\ Opened => /\ Replay \subseteq index
                 /\ Unfinished => Replay = index
                 /\ \E a, b \in Blocks : index \ Replay \subseteq {a, b}
    /\ crashes = 0 => ~Unfinished /\ (Opened => Replay = index)

LEMMA AppendEffect ==
    ASSUME file \in Seq(Lines), NEW b \in Blocks, AppendLine(b)
    PROVE  /\ ~Unfinished'
           /\ ~Unfinished => Replay' = Replay \cup {b}
           /\ Unfinished => /\ LastLine.block \in Blocks
                            /\ Replay' \subseteq Replay
                            /\ Replay \ {LastLine.block} \subseteq Replay'
<1>1. Len(file) \in Nat /\ DOMAIN file = 1 .. Len(file) /\ \A i \in DOMAIN file : file[i] \in Lines
    BY LenProperties
<1>2. CASE Unfinished
  <2>1. Len(file) \in DOMAIN file /\ LastLine \in Lines
    BY <1>1, <1>2, EmptySeq DEF Unfinished, LastLine
  <2> DEFINE l == [LastLine EXCEPT !.ok = FALSE, !.ended = TRUE]
  <2>2. file' = [file EXCEPT ![Len(file)] = l]
    BY <1>2 DEF AppendLine, LastLine
  <2>3. l \in Lines /\ l.ok = FALSE /\ l.ended = TRUE /\ LastLine.block \in Blocks
    BY <2>1 DEF Lines
  <2> HIDE DEF l
  <2>4. file' \in Seq(Lines) /\ DOMAIN file' = DOMAIN file
    BY <1>1, <2>1, <2>2, <2>3, ExceptSeq
  <2>5. Len(file') = Len(file)
    BY <1>1, <2>4, LenProperties
  <2>6. ~Unfinished'
    BY <1>1, <2>1, <2>2, <2>3, <2>5 DEF Unfinished, LastLine
  <2>7. \A i \in DOMAIN file : IF i = Len(file) THEN ~file'[i].ok ELSE file'[i] = file[i]
    BY <1>1, <2>1, <2>2, <2>3
  <2>8. Replay' \subseteq Replay
    BY <2>4, <2>7 DEF Replay
  <2>9. ASSUME NEW i \in DOMAIN file, file[i].ok, file[i].block # LastLine.block
        PROVE  file[i].block \in Replay'
    BY <2>4, <2>7, <2>9 DEF Replay, LastLine
  <2>10. Replay \ {LastLine.block} \subseteq Replay'
    BY <2>9 DEF Replay
  <2>11. QED BY <1>2, <2>3, <2>6, <2>8, <2>10
<1>3. CASE ~Unfinished
  <2>1. /\ Line(b, TRUE, TRUE) \in Lines /\ Line(b, TRUE, TRUE).block = b
        /\ Line(b, TRUE, TRUE).ok = TRUE /\ Line(b, TRUE, TRUE).ended = TRUE
    BY DEF Line, Lines
  <2>2. PICK l \in Lines : l.block = b /\ l.ok = TRUE /\ l.ended = TRUE /\ file' = Append(file, l)
    BY <1>3, <2>1 DEF AppendLine
  <2>3. /\ file' \in Seq(Lines)
        /\ Len(file') = Len(file) + 1
        /\ \A i \in 1 .. Len(file) : file'[i] = file[i]
        /\ file'[Len(file) + 1] = l
    BY <2>2, AppendProperties
  <2>4. DOMAIN file' = 1 .. (Len(file) + 1)
    BY <2>3, LenProperties
  <2>5. ~Unfinished'
    BY <2>2, <2>3 DEF Unfinished, LastLine
  <2>6. Replay' \subseteq Replay \cup {b}
    BY <1>3, FileEffect
  <2>7. b \in Replay'
    <3>1. Len(file) + 1 \in DOMAIN file'
      BY <1>1, <2>4
    <3>2. QED BY <2>2, <2>3, <3>1 DEF Replay
  <2>8. Replay \subseteq Replay'
    <3>1. \A i \in DOMAIN file : i \in DOMAIN file' /\ file'[i] = file[i]
      BY <1>1, <2>3, <2>4
    <3>2. QED BY <3>1 DEF Replay
  <2>9. QED BY <1>3, <2>5, <2>6, <2>7, <2>8
<1>4. QED BY <1>2, <1>3

\* The only step that writes an entry, and the only one that can lose some.
LEMMA IndexBlockLoss ==
    ASSUME IInv, LossInv, IndexBlock
    PROVE  LossInv'
<1>1. /\ phase = "sync" /\ todo # {} /\ phase' = phase /\ crashes' = crashes
      /\ AppendLine(Current) /\ index' = index \cup {Current}
    BY DEF IndexBlock, Processing
<1>2. Current \in Blocks
    BY <1>1, CurrentIsLeft DEF IInv
<1>3. Opened /\ Opened'
    BY <1>1 DEF Opened
<1>4. /\ ~Unfinished'
      /\ ~Unfinished => Replay' = Replay \cup {Current}
      /\ Unfinished => /\ LastLine.block \in Blocks
                       /\ Replay' \subseteq Replay
                       /\ Replay \ {LastLine.block} \subseteq Replay'
    BY <1>1, <1>2, StateBefore, AppendEffect
<1>5. CASE Unfinished
  <2>1. Replay = index /\ crashes # 0
    BY <1>3, <1>5 DEF LossInv
  <2>2. Replay' \subseteq index' /\ index' \ Replay' \subseteq {LastLine.block, Current}
    BY <1>1, <1>4, <1>5, <2>1
  <2>3. QED BY <1>1, <1>2, <1>4, <1>5, <2>1, <2>2 DEF LossInv
<1>6. CASE ~Unfinished
  <2>1. Replay' = Replay \cup {Current}
    BY <1>4, <1>6
  <2>2. index' \ Replay' \subseteq index \ Replay
    BY <1>1, <2>1
  <2>3. QED BY <1>1, <1>3, <1>4, <2>1, <2>2 DEF LossInv
<1>7. QED BY <1>5, <1>6

LEMMA NextLoss ==
    ASSUME IInv, LossInv, [Next]_vars
    PROVE  LossInv'
<1>1. CASE IndexBlock
    BY <1>1, IndexBlockLoss
<1>2. CASE SkipSync \/ BeginSync
  <2>1. UNCHANGED <<file, crashes>> /\ index' = Replay
    BY <1>2 DEF SkipSync, BeginSync, diskV
  <2>2. Replay' = Replay /\ Unfinished' = Unfinished
    BY <2>1 DEF Replay, Unfinished, LastLine
  <2>3. \E a, b \in Blocks : index' \ Replay' \subseteq {a, b}
    <3>1. 1 \in Blocks
      BY DEF Blocks
    <3>2. QED BY <2>1, <2>2, <3>1
  <2>4. QED BY <2>1, <2>2, <2>3 DEF LossInv
<1>3. CASE Crash
  <2>1. ~Opened' /\ crashes' # 0
    BY <1>3, StateBefore DEF Crash, Reset, Opened
  <2>2. QED BY <2>1 DEF LossInv
<1>4. CASE /\ UNCHANGED <<file, crashes>>
           /\ ~Opened' \/ (index' = index /\ Opened)
  <2>1. Replay' = Replay /\ Unfinished' = Unfinished
    BY <1>4 DEF Replay, Unfinished, LastLine
  <2>2. QED BY <1>4, <2>1 DEF LossInv
<1>5. ASSUME FetchFails \/ ExecuteFails \/ UpdateFails \/ InitComponents
      PROVE  UNCHANGED <<file, crashes>> /\ ~Opened'
    BY <1>5 DEF FetchFails, ExecuteFails, UpdateFails, InitComponents, Reset, diskV, Opened
<1>6. ASSUME \/ \E h \in 1 .. Len(da) : HeaderArrives(h)
             \/ SkipIndexed \/ CheckBlock \/ ExecuteBlock \/ UpdateHead
             \/ FinishSync \/ UNCHANGED vars
      PROVE  UNCHANGED <<file, crashes, index>> /\ (Opened' => Opened)
    BY <1>6 DEF HeaderArrives, SkipIndexed, CheckBlock, ExecuteBlock, UpdateHead, FinishSync,
                Processing, StartConsensus, diskV, vars, Opened
<1>7. QED BY <1>1, <1>2, <1>3, <1>4, <1>5, <1>6 DEF Next

LEMMA LossInvariance == Spec => [](IInv /\ LossInv)
<1>1. Init => LossInv
    BY DEF Init, LossInv, Opened, Unfinished
<1>2. IInv /\ LossInv /\ [Next]_vars => LossInv'
    BY NextLoss
<1>3. QED BY Invariance, <1>1, <1>2, PTL DEF Spec

\* sync_block_batch skips what it executed before, so copies of a block on
\* Celestia are executed once, and so is what the file still has.
THEOREM OnceTheorem == Spec => []NoReexecution
<1>1. IInv /\ LossInv => NoReexecution
    BY DEF IInv, CurrentBlock, LossInv, Opened, NoReexecution, Processing
<1>2. QED BY LossInvariance, <1>1, PTL

\* However often a process is killed in the middle of an append (insert), the
\* file lacks at most two of the entries of the index built from it.
THEOREM LossTheorem == Spec => []IndexLossIsBounded
<1>1. IInv /\ LossInv => IndexLossIsBounded
  <2> SUFFICES ASSUME IInv, LossInv, Opened
               PROVE  /\ Replay \subseteq index
                      /\ IsFiniteSet(index \ Replay) /\ Cardinality(index \ Replay) <= 2
                      /\ crashes = 0 => Replay = index
    BY DEF IndexLossIsBounded
  <2>1. PICK a \in Blocks, b \in Blocks : index \ Replay \subseteq {a, b}
    BY DEF LossInv
  <2>2. /\ IsFiniteSet({a}) /\ Cardinality({a}) = 1
        /\ {a, b} = {a} \cup {b}
    BY FS_Singleton
  <2>3. IsFiniteSet({a, b}) /\ Cardinality({a, b}) \in {1, 2}
    BY <2>2, FS_AddElement
  <2>4. IsFiniteSet(index \ Replay) /\ Cardinality(index \ Replay) <= Cardinality({a, b})
    BY <2>1, <2>3, FS_Subset
  <2>5. Cardinality(index \ Replay) \in Nat
    BY <2>4, FS_CardinalityType
  <2>6. QED BY <2>3, <2>4, <2>5 DEF LossInv
<1>2. QED BY LossInvariance, <1>1, PTL

=============================================================================
