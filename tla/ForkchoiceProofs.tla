-------------------------- MODULE ForkchoiceProofs --------------------------
(***************************************************************************)
(* Theorems about Forkchoice, for every number of blocks and validators,   *)
(* order of confirmations and number of failed calls.  The three writers   *)
(* share no lock, so the invariant speaks of every copy of the fork choice *)
(* at once, and of what each task knows about the block in its hands.      *)
(* More invariants rest on it: SoftKept and CleanKept for the time before  *)
(* the first confirmation, HeadKept and OrderKept for which of the writers *)
(* moves a field of the shared fork choice back, SoundKept for what reth   *)
(* accepts.                                                                *)
(***************************************************************************)
EXTENDS Forkchoice, SequenceTheorems, TLAPS

Applying == appPc \in {"applying", "update", "cache"}

\* A task in the middle of a block has a block to be in the middle of.
InHand ==
    /\ Applying => appHeight <= MaxBlock
    /\ cbPc # "idle" => execNext < appHeight
    /\ finPc # "idle" => finalityRx # <<>>

\* reth knows the ancestors of what it knows, and what was executed.
Tree ==
    /\ 0 \in reth.known
    /\ \A b \in reth.known : 0 .. b \subseteq reth.known
    /\ cbPc # "idle" => execNext \in reth.known
    /\ executed \subseteq reth.known

\* A block is in executed_blocks before it is handed over.
SubmittedWasExecuted ==
    /\ submitted \subseteq executed
    /\ cbPc = "submit" => execNext \in executed

IInv ==
    /\ TypeOK
    /\ InHand
    /\ Tree
    /\ SubmittedWasExecuted
    /\ finPc # "idle" => Head(finalityRx) \in executed
    /\ FinalizedWasConfirmed
    /\ HeadWasDecided

USE MaxBlockAssumption, LeaderAssumption, InOrderAssumption, MaxErrorsAssumption

----------------------------------------------------------------------------
(* What a call to reth does                                                *)

\* An update installs the state it was given or changes nothing; it teaches
\* reth no block.
LEMMA UpdateEffect ==
    ASSUME TypeOK, NEW s \in ForkchoiceStates, UpdateSucceeds(s) \/ UpdateFails(s)
    PROVE  /\ reth' \in [fc : ForkchoiceStates, known : SUBSET Heights]
           /\ reth'.known = reth.known
           /\ reth'.fc \in {reth.fc, s}
           /\ errors' \in 0 .. MaxErrors
           /\ errors' >= errors
<1>1. UNCHANGED reth \/ reth' = [reth EXCEPT !.fc = s]
    BY DEF UpdateSucceeds, UpdateFails, ForkchoiceUpdated, HeadKnown
<1>2. errors' = errors \/ (errors < MaxErrors /\ errors' = errors + 1)
    BY DEF UpdateSucceeds, UpdateFails, Fails
<1>3. QED BY <1>1, <1>2 DEF TypeOK

\* A new payload moves no fork choice, and reth keeps a tree.
LEMMA PayloadEffect ==
    ASSUME TypeOK, Tree, NEW b \in 1 .. MaxBlock, NewPayload(b)
    PROVE  /\ reth' \in [fc : ForkchoiceStates, known : SUBSET Heights]
           /\ reth'.fc = reth.fc
           /\ reth.known \subseteq reth'.known
           /\ \A c \in reth'.known : 0 .. c \subseteq reth'.known
           /\ Connects(b) => b \in reth'.known
<1>1. CASE ~Connects(b)
  <2>1. reth' = reth
    BY <1>1 DEF NewPayload, TypeOK
  <2>2. QED BY <2>1, <1>1 DEF TypeOK, Tree
<1>2. CASE Connects(b)
  <2>1. /\ reth' = [reth EXCEPT !.known = reth.known \cup {b}]
        /\ reth'.fc = reth.fc /\ reth'.known = reth.known \cup {b}
    BY <1>2 DEF NewPayload, TypeOK
  <2>2. reth' \in [fc : ForkchoiceStates, known : SUBSET Heights]
    BY <2>1 DEF TypeOK, Heights
  <2>3. 0 .. (b - 1) \subseteq reth.known
    BY <1>2 DEF Connects, Tree
  <2>4. 0 .. b \subseteq reth'.known
    BY <2>1, <2>3
  <2>5. \A c \in reth'.known : 0 .. c \subseteq reth'.known
    BY <2>1, <2>4 DEF Tree
  <2>6. QED BY <2>1, <2>2, <2>5
<1>3. QED BY <1>1, <1>2

\* Sequences over a set are sequences over a larger one.
LEMMA SeqGrows ==
    ASSUME NEW S, NEW T, S \subseteq T, NEW s \in Seq(S)
    PROVE  s \in Seq(T)
OBVIOUS

----------------------------------------------------------------------------
(* The Application actor                                                   *)

\* A step of the actor keeps the types if it keeps those of its own state.
LEMMA ActorTypes ==
    ASSUME TypeOK, UNCHANGED <<cbV, finV, forkchoice>>,
           appHeight' \in 1 .. MaxBlock + 1, appHeight' >= appHeight,
           appPc' \in {"idle", "synced", "building", "applying", "update", "cache"},
           appState' \in ForkchoiceStates, cached' \in ForkchoiceStates,
           reth' \in [fc : ForkchoiceStates, known : SUBSET Heights],
           errors' \in 0 .. MaxErrors
    PROVE  TypeOK'
<1>1. UNCHANGED <<execNext, cbPc, cbState, executed, submitted>>
    BY DEF cbV
<1>2. UNCHANGED <<confirmed, finalityRx, finPc, finState, forkchoice>>
    BY DEF finV
<1>3. execNext \in 1 .. appHeight'
    BY DEF TypeOK
<1>4. ForkchoiceStates' = ForkchoiceStates /\ Heights' = Heights
    BY DEF ForkchoiceStates, Heights
<1>5. QED BY <1>1, <1>2, <1>3, <1>4 DEF TypeOK

LEMMA ImportRelayedIInv ==
    ASSUME IInv, NEW b \in 1 .. MaxBlock, ImportRelayed(b)
    PROVE  IInv'
<1>1. /\ reth' \in [fc : ForkchoiceStates, known : SUBSET Heights]
      /\ reth'.fc = reth.fc
      /\ reth.known \subseteq reth'.known
      /\ \A c \in reth'.known : 0 .. c \subseteq reth'.known
    BY PayloadEffect DEF IInv, ImportRelayed
<1>2. UNCHANGED <<appV, cbV, finV, forkchoice, cached, errors>>
    BY DEF ImportRelayed
<1>3. TypeOK'
    BY <1>1, <1>2 DEF IInv, TypeOK, appV, cbV, finV, Heights, ForkchoiceStates
<1>4. InHand' /\ Tree' /\ SubmittedWasExecuted'
    BY <1>1, <1>2 DEF IInv, InHand, Applying, Tree, SubmittedWasExecuted, appV, cbV, finV
<1>5. Copies' = Copies
    BY <1>1, <1>2 DEF Copies, appV, cbV, finV
<1>6. FinalizedWasConfirmed' /\ HeadWasDecided'
    BY <1>2, <1>5 DEF IInv, FinalizedWasConfirmed, HeadWasDecided, appV, cbV, finV
<1>7. QED BY <1>2, <1>3, <1>4, <1>6 DEF IInv, cbV, finV

LEMMA BuildReadIInv ==
    ASSUME IInv, BuildRead
    PROVE  IInv'
<1>1. /\ appPc = "synced" /\ appPc' = "building"
      /\ appState' = State(appHeight - 1, appHeight - 1, cached.finalized)
      /\ UNCHANGED <<appHeight, cbV, finV, forkchoice, cached, reth, errors>>
    BY DEF BuildRead
<1>2. /\ appState' \in ForkchoiceStates
      /\ appState'.head = appHeight - 1 /\ appState'.finalized = cached.finalized
    BY <1>1 DEF IInv, TypeOK, ForkchoiceStates, Heights, State
<1>3. TypeOK' /\ InHand' /\ Tree' /\ SubmittedWasExecuted'
  <2>1. TypeOK'
    BY <1>1, <1>2 DEF IInv, TypeOK, cbV, finV, Heights
  <2>2. InHand'
    BY <1>1, <1>2 DEF IInv, InHand, Applying, cbV, finV
  <2>3. Tree' /\ SubmittedWasExecuted'
    BY <1>1 DEF IInv, Tree, SubmittedWasExecuted, cbV, finV
  <2>4. QED BY <2>1, <2>2, <2>3
<1>4. Copies' \subseteq Copies \cup {appState'}
    BY <1>1 DEF Copies, cbV, finV
<1>5. FinalizedWasConfirmed'
    BY <1>1, <1>2, <1>4 DEF IInv, FinalizedWasConfirmed, Copies, cbV, finV
<1>6. appHeight - 1 < appHeight
    BY DEF IInv, TypeOK
<1>7. HeadWasDecided'
    BY <1>1, <1>2, <1>4, <1>6 DEF IInv, HeadWasDecided
<1>8. QED BY <1>1, <1>3, <1>5, <1>7 DEF IInv, cbV, finV

LEMMA BuildUpdateIInv ==
    ASSUME IInv, BuildUpdate
    PROVE  IInv'
<1>1. /\ appPc = "building" /\ appPc' = "idle"
      /\ UpdateSucceeds(appState) \/ UpdateFails(appState)
      /\ UNCHANGED <<appHeight, appState, cbV, finV, forkchoice, cached>>
    BY DEF BuildUpdate
<1>2. /\ reth' \in [fc : ForkchoiceStates, known : SUBSET Heights]
      /\ reth'.known = reth.known
      /\ reth'.fc \in {reth.fc, appState}
      /\ errors' \in 0 .. MaxErrors
    BY <1>1, UpdateEffect DEF IInv, TypeOK
<1>3. TypeOK'
    BY <1>1, <1>2 DEF IInv, TypeOK, cbV, finV, Heights, ForkchoiceStates
<1>4. InHand' /\ Tree' /\ SubmittedWasExecuted'
    BY <1>1, <1>2 DEF IInv, InHand, Applying, Tree, SubmittedWasExecuted, cbV, finV
<1>5. Copies' \subseteq Copies
    BY <1>1, <1>2 DEF Copies, cbV, finV
<1>6. FinalizedWasConfirmed' /\ HeadWasDecided'
    BY <1>1, <1>5 DEF IInv, FinalizedWasConfirmed, HeadWasDecided, cbV, finV
<1>7. QED BY <1>1, <1>3, <1>4, <1>6 DEF IInv, cbV, finV

\* The actor has read that reth is where it should be; nothing else moves.
LEMMA CheckSyncIInv ==
    ASSUME IInv, CheckSync
    PROVE  IInv'
<1>1. /\ appPc = "idle" /\ appPc' = "synced"
      /\ UNCHANGED <<appHeight, appState, cbV, finV, forkchoice, cached, reth, errors>>
    BY DEF CheckSync
<1>2. TypeOK' /\ InHand' /\ Tree' /\ SubmittedWasExecuted'
    BY <1>1 DEF IInv, TypeOK, InHand, Applying, Tree, SubmittedWasExecuted,
                cbV, finV, Heights, ForkchoiceStates
<1>3. Copies' = Copies
    BY <1>1 DEF Copies, cbV, finV
<1>4. FinalizedWasConfirmed' /\ HeadWasDecided'
    BY <1>1, <1>3 DEF IInv, FinalizedWasConfirmed, HeadWasDecided, cbV, finV
<1>5. QED BY <1>1, <1>2, <1>4 DEF IInv, cbV, finV

\* When the actor leaves a height, the head it may have written is below.
LEMMA AdvanceIInv ==
    ASSUME IInv, Applying \/ (appPc = "idle" /\ appHeight <= MaxBlock), Advance,
           Copies' \subseteq Copies,
           UNCHANGED <<cbV, finV>>,
           TypeOK', Tree'
    PROVE  IInv'
<1>1. appHeight' = appHeight + 1 /\ appPc' = "idle"
    BY DEF Advance
<1>2. UNCHANGED <<execNext, cbPc, executed, submitted, confirmed, finalityRx, finPc>>
    BY DEF cbV, finV
<1>3. InHand' /\ SubmittedWasExecuted'
    BY <1>1, <1>2 DEF IInv, TypeOK, InHand, Applying, SubmittedWasExecuted
<1>4. FinalizedWasConfirmed'
    BY <1>2 DEF IInv, FinalizedWasConfirmed
<1>5. \A c \in Copies : c.head \in Heights
    BY DEF IInv, TypeOK, Copies, ForkchoiceStates
<1>6. HeadWasDecided'
    BY <1>1, <1>5 DEF IInv, TypeOK, HeadWasDecided, Heights
<1>7. QED BY <1>2, <1>3, <1>4, <1>6 DEF IInv

LEMMA ApplyPayloadIInv ==
    ASSUME IInv, ApplyPayload
    PROVE  IInv'
<1>1. /\ appPc = "idle" /\ appHeight \in 1 .. MaxBlock
      /\ UNCHANGED <<appState, cbV, finV, forkchoice, cached>>
    BY DEF IInv, TypeOK, ApplyPayload
<1>2. /\ reth' \in [fc : ForkchoiceStates, known : SUBSET Heights]
      /\ reth'.fc = reth.fc
      /\ reth.known \subseteq reth'.known
      /\ \A c \in reth'.known : 0 .. c \subseteq reth'.known
  <2>1. CASE NewPayload(appHeight)
    BY <1>1, <2>1, PayloadEffect DEF IInv
  <2>2. CASE UNCHANGED reth
    BY <2>2 DEF IInv, TypeOK, Tree
  <2>3. QED BY <2>1, <2>2 DEF ApplyPayload
<1>3. Copies' = Copies
    BY <1>1, <1>2 DEF Copies, cbV, finV
<1>4. Tree'
    BY <1>1, <1>2 DEF IInv, Tree, cbV
<1>5. CASE appPc' = "applying" /\ UNCHANGED <<appHeight, errors>>
  <2>1. TypeOK'
    <3>1. appHeight \in 1 .. MaxBlock + 1 /\ errors \in 0 .. MaxErrors
          /\ appState \in ForkchoiceStates /\ cached \in ForkchoiceStates
      BY DEF IInv, TypeOK
    <3>2. QED BY <1>1, <1>2, <1>5, <3>1, ActorTypes DEF IInv
  <2>2. InHand' /\ SubmittedWasExecuted'
    BY <1>1, <1>5 DEF IInv, InHand, Applying, SubmittedWasExecuted, cbV, finV
  <2>3. FinalizedWasConfirmed' /\ HeadWasDecided'
    BY <1>1, <1>3, <1>5 DEF IInv, FinalizedWasConfirmed, HeadWasDecided, cbV, finV
  <2>4. QED BY <1>1, <1>4, <2>1, <2>2, <2>3 DEF IInv, cbV, finV
<1>6. CASE Fails /\ Advance
  <2>1. TypeOK'
    <3>1. appHeight' \in 1 .. MaxBlock + 1 /\ appHeight' >= appHeight /\ appPc' = "idle"
      BY <1>1, <1>6 DEF Advance
    <3>2. errors' \in 0 .. MaxErrors
      BY <1>6 DEF IInv, TypeOK, Fails
    <3>3. appState \in ForkchoiceStates /\ cached \in ForkchoiceStates
      BY DEF IInv, TypeOK
    <3>4. QED BY <1>1, <1>2, <3>1, <3>2, <3>3, ActorTypes DEF IInv
  <2>2. QED BY <1>1, <1>3, <1>4, <1>6, <2>1, AdvanceIInv
<1>7. QED BY <1>5, <1>6 DEF ApplyPayload

LEMMA ApplyReadIInv ==
    ASSUME IInv, ApplyRead
    PROVE  IInv'
<1>1. /\ appPc = "applying" /\ appPc' = "update"
      /\ appState' = State(appHeight, appHeight, cached.finalized)
      /\ UNCHANGED <<appHeight, cbV, finV, forkchoice, cached, reth, errors>>
    BY DEF ApplyRead
<1>2. /\ appState' \in ForkchoiceStates
      /\ appState'.head = appHeight /\ appState'.finalized = cached.finalized
    BY <1>1 DEF IInv, TypeOK, InHand, Applying, ForkchoiceStates, Heights, State
<1>3. TypeOK' /\ InHand' /\ Tree' /\ SubmittedWasExecuted'
  <2>1. TypeOK'
    BY <1>1, <1>2 DEF IInv, TypeOK, cbV, finV
  <2>2. InHand'
    BY <1>1, <1>2 DEF IInv, InHand, Applying, cbV, finV
  <2>3. Tree' /\ SubmittedWasExecuted'
    BY <1>1 DEF IInv, Tree, SubmittedWasExecuted, cbV, finV
  <2>4. QED BY <2>1, <2>2, <2>3
<1>4. Copies' \subseteq Copies \cup {appState'}
    BY <1>1 DEF Copies, cbV, finV
<1>5. FinalizedWasConfirmed'
    BY <1>1, <1>2, <1>4 DEF IInv, FinalizedWasConfirmed, Copies, cbV, finV
<1>6. HeadWasDecided'
    BY <1>1, <1>2, <1>4 DEF IInv, HeadWasDecided
<1>7. QED BY <1>1, <1>3, <1>5, <1>6 DEF IInv, cbV, finV

LEMMA ApplyUpdateIInv ==
    ASSUME IInv, ApplyUpdate
    PROVE  IInv'
<1>1. /\ appPc = "update" /\ (UpdateSucceeds(appState) \/ UpdateFails(appState))
      /\ UNCHANGED <<appState, cbV, finV, forkchoice, cached>>
    BY DEF ApplyUpdate
<1>2. /\ reth' \in [fc : ForkchoiceStates, known : SUBSET Heights]
      /\ reth'.known = reth.known
      /\ reth'.fc \in {reth.fc, appState}
      /\ errors' \in 0 .. MaxErrors
    BY <1>1, UpdateEffect DEF IInv, TypeOK
<1>3. Copies' \subseteq Copies
    BY <1>1, <1>2 DEF Copies, cbV, finV
<1>4. Tree'
    BY <1>1, <1>2 DEF IInv, Tree, cbV
<1>5. CASE appPc' = "cache" /\ UNCHANGED appHeight
  <2>1. TypeOK'
    <3>1. appHeight \in 1 .. MaxBlock + 1
          /\ appState \in ForkchoiceStates /\ cached \in ForkchoiceStates
      BY DEF IInv, TypeOK
    <3>2. QED BY <1>1, <1>2, <1>5, <3>1, ActorTypes DEF IInv
  <2>2. InHand' /\ SubmittedWasExecuted'
    BY <1>1, <1>5 DEF IInv, InHand, Applying, SubmittedWasExecuted, cbV, finV
  <2>3. FinalizedWasConfirmed' /\ HeadWasDecided'
    BY <1>1, <1>3, <1>5 DEF IInv, FinalizedWasConfirmed, HeadWasDecided, cbV, finV, Applying
  <2>4. QED BY <1>1, <1>4, <2>1, <2>2, <2>3 DEF IInv, cbV, finV
<1>6. CASE Advance
  <2>1. appHeight <= MaxBlock /\ Applying
    BY <1>1 DEF IInv, InHand, Applying
  <2>2. TypeOK'
    <3>1. appHeight' \in 1 .. MaxBlock + 1 /\ appHeight' >= appHeight /\ appPc' = "idle"
      BY <1>6, <2>1 DEF IInv, TypeOK, Advance
    <3>2. appState \in ForkchoiceStates /\ cached \in ForkchoiceStates
      BY DEF IInv, TypeOK
    <3>3. QED BY <1>1, <1>2, <3>1, <3>2, ActorTypes DEF IInv
  <2>3. QED BY <1>1, <1>3, <1>4, <1>6, <2>1, <2>2, AdvanceIInv
<1>7. QED BY <1>5, <1>6 DEF ApplyUpdate

LEMMA ApplyCacheIInv ==
    ASSUME IInv, ApplyCache
    PROVE  IInv'
<1>1. /\ appPc = "cache" /\ cached' = appState /\ Advance
      /\ UNCHANGED <<appState, cbV, finV, forkchoice, reth, errors>>
    BY DEF ApplyCache
<1>2. appHeight <= MaxBlock /\ Applying
    BY <1>1 DEF IInv, InHand, Applying
<1>3. TypeOK'
  <2>1. appHeight' \in 1 .. MaxBlock + 1 /\ appHeight' >= appHeight /\ appPc' = "idle"
    BY <1>1, <1>2 DEF IInv, TypeOK, Advance
  <2>2. /\ appState \in ForkchoiceStates /\ errors \in 0 .. MaxErrors
        /\ reth \in [fc : ForkchoiceStates, known : SUBSET Heights]
    BY DEF IInv, TypeOK
  <2>3. QED BY <1>1, <2>1, <2>2, ActorTypes DEF IInv
<1>4. Tree'
    BY <1>1 DEF IInv, Tree, cbV
<1>5. Copies' \subseteq Copies
    BY <1>1 DEF Copies, cbV, finV
<1>6. QED BY <1>1, <1>2, <1>3, <1>4, <1>5, AdvanceIInv

----------------------------------------------------------------------------
(* The finalization callback                                               *)

\* A step of the callback keeps the types if it keeps those of its own state.
LEMMA CallbackTypes ==
    ASSUME TypeOK, UNCHANGED <<appV, finV>>,
           execNext' \in 1 .. appHeight,
           cbPc' \in {"idle", "read", "update", "cache", "store", "track", "submit"},
           cbState' \in ForkchoiceStates, forkchoice' \in ForkchoiceStates,
           cached' \in ForkchoiceStates,
           executed' \subseteq 1 .. MaxBlock,
           submitted \subseteq submitted', submitted' \subseteq 1 .. MaxBlock,
           reth' \in [fc : ForkchoiceStates, known : SUBSET Heights],
           errors' \in 0 .. MaxErrors
    PROVE  TypeOK'
<1>1. UNCHANGED <<appHeight, appPc, appState>>
    BY DEF appV
<1>2. UNCHANGED <<confirmed, finalityRx, finPc, finState>>
    BY DEF finV
<1>3. ForkchoiceStates' = ForkchoiceStates /\ Heights' = Heights
    BY DEF ForkchoiceStates, Heights
<1>4. confirmed' \subseteq submitted'
    BY <1>2 DEF TypeOK
<1>5. QED BY <1>1, <1>2, <1>3, <1>4 DEF TypeOK

\* What a step of the callback has to show: the block in its hands is
\* broadcast and known, and a state it writes has that block for a head and
\* the finalized block of the state it read.
LEMMA CallbackKeeps ==
    ASSUME IInv, TypeOK', UNCHANGED <<appV, finV>>,
           cbPc' # "idle" => execNext' < appHeight /\ execNext' \in reth'.known,
           reth.known \subseteq reth'.known,
           \A c \in reth'.known : 0 .. c \subseteq reth'.known,
           executed \subseteq executed', executed' \subseteq reth'.known,
           submitted' \subseteq executed',
           cbPc' = "submit" => execNext' \in executed',
           \A s \in Copies' :
               s \in Copies \/ (s.head < appHeight /\ \E c \in Copies : s.finalized = c.finalized)
    PROVE  IInv'
<1>1. UNCHANGED <<appHeight, appPc, confirmed, finalityRx, finPc>>
    BY DEF appV, finV
<1>2. InHand' /\ SubmittedWasExecuted'
    BY <1>1 DEF IInv, InHand, Applying, SubmittedWasExecuted
<1>3. Tree'
    BY DEF IInv, Tree
<1>4. FinalizedWasConfirmed'
    BY <1>1 DEF IInv, FinalizedWasConfirmed
<1>5. HeadWasDecided'
    BY <1>1 DEF IInv, HeadWasDecided
<1>6. QED BY <1>1, <1>2, <1>3, <1>4, <1>5 DEF IInv

\* What is known of the state before a step of the callback.
LEMMA CallbackBefore ==
    ASSUME IInv
    PROVE  /\ {appState, cbState, finState, forkchoice, cached} \subseteq ForkchoiceStates
           /\ reth \in [fc : ForkchoiceStates, known : SUBSET Heights]
           /\ errors \in 0 .. MaxErrors
           /\ execNext \in 1 .. appHeight /\ appHeight \in 1 .. MaxBlock + 1
           /\ executed \subseteq 1 .. MaxBlock /\ submitted \subseteq 1 .. MaxBlock
           /\ submitted \subseteq executed /\ executed \subseteq reth.known
           /\ cbPc = "submit" => execNext \in executed
           /\ \A c \in reth.known : 0 .. c \subseteq reth.known
           /\ cbPc # "idle" => execNext < appHeight /\ execNext \in reth.known
BY DEF IInv, TypeOK, Tree, InHand, SubmittedWasExecuted

LEMMA ExecuteIInv ==
    ASSUME IInv, Execute
    PROVE  IInv'
<1>1. /\ cbPc = "idle" /\ execNext < appHeight
      /\ UNCHANGED <<appV, cbState, executed, submitted, finV, forkchoice, cached>>
    BY DEF Execute, Broadcast
<1>2. execNext \in 1 .. MaxBlock
    BY <1>1, CallbackBefore
<1>3. /\ reth' \in [fc : ForkchoiceStates, known : SUBSET Heights]
      /\ reth'.fc = reth.fc
      /\ reth.known \subseteq reth'.known
      /\ \A c \in reth'.known : 0 .. c \subseteq reth'.known
  <2>1. CASE NewPayload(execNext)
    BY <1>2, <2>1, PayloadEffect DEF IInv
  <2>2. CASE UNCHANGED reth
    BY <2>2, CallbackBefore
  <2>3. QED BY <2>1, <2>2 DEF Execute
<1>4. errors' \in 0 .. MaxErrors
    BY CallbackBefore DEF Execute, Fails
<1>5. \/ cbPc' = "idle" /\ execNext' = execNext + 1
      \/ cbPc' = "read" /\ execNext' = execNext /\ execNext \in reth'.known
  <2>1. CASE Connects(execNext) /\ NewPayload(execNext) /\ cbPc' = "read" /\ UNCHANGED <<execNext, errors>>
    BY <1>2, <2>1, PayloadEffect DEF IInv
  <2>2. CASE NextBlock
    BY <2>2 DEF NextBlock
  <2>3. QED BY <2>1, <2>2 DEF Execute
<1>6. execNext' \in 1 .. appHeight
    BY <1>1, <1>2, <1>5, CallbackBefore
<1>7. TypeOK'
    BY <1>1, <1>3, <1>4, <1>5, <1>6, CallbackBefore, CallbackTypes DEF IInv
<1>8. Copies' = Copies
    BY <1>1, <1>3 DEF Copies, appV, finV
<1>9. QED BY <1>1, <1>3, <1>5, <1>7, <1>8, CallbackBefore, CallbackKeeps

LEMMA SoftReadIInv ==
    ASSUME IInv, SoftRead
    PROVE  IInv'
<1>1. /\ cbPc = "read" /\ cbPc' = "update"
      /\ cbState' = WithSoft(forkchoice, execNext)
      /\ UNCHANGED <<appV, execNext, executed, submitted, finV, forkchoice, cached, reth, errors>>
    BY DEF SoftRead
<1>2. /\ cbState' \in ForkchoiceStates
      /\ cbState'.head = execNext /\ cbState'.finalized = forkchoice.finalized
    BY <1>1, CallbackBefore DEF WithSoft, State, ForkchoiceStates, Heights
<1>3. TypeOK'
    BY <1>1, <1>2, CallbackBefore, CallbackTypes DEF IInv
<1>4. Copies' \subseteq Copies \cup {cbState'} /\ forkchoice \in Copies
    BY <1>1 DEF Copies, appV, finV
<1>5. QED BY <1>1, <1>2, <1>3, <1>4, CallbackBefore, CallbackKeeps

LEMMA SoftUpdateIInv ==
    ASSUME IInv, SoftUpdate
    PROVE  IInv'
<1>1. /\ cbPc = "update" /\ (UpdateSucceeds(cbState) \/ UpdateFails(cbState))
      /\ UNCHANGED <<appV, cbState, executed, submitted, finV, forkchoice, cached>>
    BY DEF SoftUpdate
<1>2. \/ cbPc' = "idle" /\ execNext' = execNext + 1
      \/ cbPc' = "cache" /\ execNext' = execNext
    BY DEF SoftUpdate, NextBlock
<1>3. /\ reth' \in [fc : ForkchoiceStates, known : SUBSET Heights]
      /\ reth'.known = reth.known
      /\ reth'.fc \in {reth.fc, cbState}
      /\ errors' \in 0 .. MaxErrors
    BY <1>1, UpdateEffect, CallbackBefore DEF IInv
<1>4. execNext' \in 1 .. appHeight
    BY <1>1, <1>2, CallbackBefore
<1>5. TypeOK'
    BY <1>1, <1>2, <1>3, <1>4, CallbackBefore, CallbackTypes DEF IInv
<1>6. Copies' \subseteq Copies
    BY <1>1, <1>3 DEF Copies, appV, finV
<1>7. QED BY <1>1, <1>2, <1>3, <1>5, <1>6, CallbackBefore, CallbackKeeps

LEMMA SoftCacheIInv ==
    ASSUME IInv, SoftCache
    PROVE  IInv'
<1>1. /\ cbPc = "cache" /\ cbPc' = "store" /\ cached' = cbState
      /\ UNCHANGED <<appV, execNext, cbState, executed, submitted, finV, forkchoice, reth, errors>>
    BY DEF SoftCache
<1>2. TypeOK'
    BY <1>1, CallbackBefore, CallbackTypes DEF IInv
<1>3. Copies' \subseteq Copies
    BY <1>1 DEF Copies, appV, finV
<1>4. QED BY <1>1, <1>2, <1>3, CallbackBefore, CallbackKeeps

LEMMA SoftStoreIInv ==
    ASSUME IInv, SoftStore
    PROVE  IInv'
<1>1. /\ cbPc = "store" /\ cbPc' = "track" /\ forkchoice' = cbState
      /\ UNCHANGED <<appV, execNext, cbState, executed, submitted, finV, cached, reth, errors>>
    BY DEF SoftStore
<1>2. TypeOK'
    BY <1>1, CallbackBefore, CallbackTypes DEF IInv
<1>3. Copies' \subseteq Copies
    BY <1>1 DEF Copies, appV, finV
<1>4. QED BY <1>1, <1>2, <1>3, CallbackBefore, CallbackKeeps

LEMMA TrackIInv ==
    ASSUME IInv, Track
    PROVE  IInv'
<1>1. /\ cbPc = "track" /\ executed' = executed \cup {execNext}
      /\ \/ cbPc' = "submit" /\ execNext' = execNext
         \/ cbPc' = "idle" /\ execNext' = execNext + 1
      /\ UNCHANGED <<appV, cbState, submitted, finV, forkchoice, cached, reth, errors>>
    BY DEF Track, NextBlock
<1>2. execNext \in 1 .. MaxBlock /\ execNext' \in 1 .. appHeight
    BY <1>1, CallbackBefore
<1>3. TypeOK'
    BY <1>1, <1>2, CallbackBefore, CallbackTypes DEF IInv
<1>4. Copies' = Copies
    BY <1>1 DEF Copies, appV, finV
<1>5. QED BY <1>1, <1>2, <1>3, <1>4, CallbackBefore, CallbackKeeps

LEMMA SubmitIInv ==
    ASSUME IInv, Submit
    PROVE  IInv'
<1>1. /\ cbPc = "submit" /\ cbPc' = "idle" /\ execNext' = execNext + 1
      /\ submitted' = submitted \cup {execNext}
      /\ UNCHANGED <<appV, cbState, executed, finV, forkchoice, cached, reth, errors>>
    BY DEF Submit, NextBlock
<1>2. execNext \in 1 .. MaxBlock /\ execNext' \in 1 .. appHeight
    BY <1>1, CallbackBefore
<1>3. TypeOK'
    BY <1>1, <1>2, CallbackBefore, CallbackTypes DEF IInv
<1>4. Copies' = Copies
    BY <1>1 DEF Copies, appV, finV
<1>5. QED BY <1>1, <1>2, <1>3, <1>4, CallbackBefore, CallbackKeeps

----------------------------------------------------------------------------
(* Confirmations and the event loop                                        *)

\* A step of the event loop, or of Celestia, keeps the types if it keeps
\* those of its own state.
LEMMA LoopTypes ==
    ASSUME TypeOK, UNCHANGED <<appV, cbV>>,
           confirmed' \subseteq submitted, finalityRx' \in Seq(confirmed'),
           finPc' \in {"idle", "read", "update", "cache", "store"},
           finState' \in ForkchoiceStates, forkchoice' \in ForkchoiceStates,
           cached' \in ForkchoiceStates,
           reth' \in [fc : ForkchoiceStates, known : SUBSET Heights],
           errors' \in 0 .. MaxErrors
    PROVE  TypeOK'
<1>1. UNCHANGED <<appHeight, appPc, appState>>
    BY DEF appV
<1>2. UNCHANGED <<execNext, cbPc, cbState, executed, submitted>>
    BY DEF cbV
<1>3. ForkchoiceStates' = ForkchoiceStates /\ Heights' = Heights
    BY DEF ForkchoiceStates, Heights
<1>4. QED BY <1>1, <1>2, <1>3 DEF TypeOK

\* What such a step has to show: the confirmation it handles is of an
\* executed block, and a state it writes has a head that was there before.
LEMMA LoopKeeps ==
    ASSUME IInv, TypeOK', UNCHANGED <<appV, cbV>>,
           confirmed \subseteq confirmed', reth'.known = reth.known,
           finPc' # "idle" => finalityRx' # <<>> /\ Head(finalityRx') \in executed,
           \A s \in Copies' : s \in Copies \/
               (s.head = forkchoice.head /\ s.finalized \in confirmed \cap executed)
    PROVE  IInv'
<1>1. UNCHANGED <<appHeight, appPc, execNext, cbPc, executed, submitted>>
    BY DEF appV, cbV
<1>2. InHand' /\ SubmittedWasExecuted' /\ Tree'
    BY <1>1 DEF IInv, InHand, Applying, SubmittedWasExecuted, Tree
<1>3. FinalizedWasConfirmed'
    BY <1>1 DEF IInv, FinalizedWasConfirmed
<1>4. HeadWasDecided'
    BY <1>1 DEF IInv, HeadWasDecided, Copies
<1>5. QED BY <1>1, <1>2, <1>3, <1>4 DEF IInv

\* What is known of the state before such a step.
LEMMA LoopBefore ==
    ASSUME IInv
    PROVE  /\ {appState, cbState, finState, forkchoice, cached} \subseteq ForkchoiceStates
           /\ reth \in [fc : ForkchoiceStates, known : SUBSET Heights]
           /\ errors \in 0 .. MaxErrors
           /\ finPc \in {"idle", "read", "update", "cache", "store"}
           /\ confirmed \subseteq submitted /\ finalityRx \in Seq(confirmed)
           /\ submitted \subseteq executed /\ executed \subseteq 1 .. MaxBlock
           /\ finPc # "idle" => finalityRx # <<>> /\ Head(finalityRx) \in executed
BY DEF IInv, TypeOK, InHand, SubmittedWasExecuted

\* Taking a confirmation off the queue leaves confirmations.
LEMMA DoneEffect ==
    ASSUME IInv, finalityRx # <<>>, Done
    PROVE  finPc' = "idle" /\ finalityRx' \in Seq(confirmed)
<1>1. finPc' = "idle" /\ finalityRx' = Tail(finalityRx)
    BY DEF Done
<1>2. QED BY <1>1, LoopBefore

LEMMA ConfirmIInv ==
    ASSUME IInv, NEW b \in 1 .. MaxBlock, Confirm(b)
    PROVE  IInv'
<1>1. /\ b \in submitted \ confirmed
      /\ confirmed' = confirmed \cup {b}
      /\ finalityRx' = Append(finalityRx, b)
      /\ UNCHANGED <<appV, cbV, finPc, finState, forkchoice, cached, reth, errors>>
    BY DEF Confirm
<1>2. confirmed' \subseteq submitted /\ finalityRx \in Seq(confirmed')
    BY <1>1, LoopBefore, SeqGrows
<1>3. finalityRx' \in Seq(confirmed') /\ finalityRx' # <<>>
    BY <1>1, <1>2
<1>4. finalityRx # <<>> => Head(finalityRx') = Head(finalityRx)
    BY <1>1, <1>2
<1>5. TypeOK'
    BY <1>1, <1>2, <1>3, LoopBefore, LoopTypes DEF IInv
<1>6. Copies' = Copies
    BY <1>1 DEF Copies, appV, cbV
<1>7. QED BY <1>1, <1>3, <1>4, <1>5, <1>6, LoopBefore, LoopKeeps

LEMMA CheckExecutedIInv ==
    ASSUME IInv, CheckExecuted
    PROVE  IInv'
<1>1. /\ finPc = "idle" /\ finalityRx # <<>>
      /\ UNCHANGED <<appV, cbV, confirmed, finState, forkchoice, cached, reth, errors>>
    BY DEF CheckExecuted
<1>2. /\ finPc' \in {"idle", "read"}
      /\ finalityRx' \in Seq(confirmed)
      /\ finPc' # "idle" => finalityRx' = finalityRx /\ Head(finalityRx) \in executed
    BY <1>1, LoopBefore, DoneEffect DEF CheckExecuted
<1>3. TypeOK'
    BY <1>1, <1>2, LoopBefore, LoopTypes DEF IInv
<1>4. Copies' = Copies
    BY <1>1 DEF Copies, appV, cbV
<1>5. QED BY <1>1, <1>2, <1>3, <1>4, LoopKeeps

LEMMA FirmReadIInv ==
    ASSUME IInv, FirmRead
    PROVE  IInv'
<1>1. /\ finPc = "read" /\ finPc' = "update"
      /\ finState' = WithFirm(forkchoice, Head(finalityRx))
      /\ UNCHANGED <<appV, cbV, confirmed, finalityRx, forkchoice, cached, reth, errors>>
    BY DEF FirmRead
<1>2. Head(finalityRx) \in confirmed /\ Head(finalityRx) \in executed
    BY <1>1, LoopBefore
<1>3. /\ finState' \in ForkchoiceStates
      /\ finState'.head = forkchoice.head /\ finState'.finalized = Head(finalityRx)
  <2>1. forkchoice \in [head : Heights, safe : Heights, finalized : Heights]
    BY LoopBefore DEF ForkchoiceStates
  <2>2. Head(finalityRx) \in Heights
    BY <1>2, LoopBefore DEF Heights
  <2>3. QED BY <1>1, <2>1, <2>2 DEF WithFirm, ForkchoiceStates
<1>4. TypeOK'
    BY <1>1, <1>3, LoopBefore, LoopTypes DEF IInv
<1>5. Copies' \subseteq Copies \cup {finState'}
    BY <1>1 DEF Copies, appV, cbV
<1>6. QED BY <1>1, <1>2, <1>3, <1>4, <1>5, LoopBefore, LoopKeeps

LEMMA FirmUpdateIInv ==
    ASSUME IInv, FirmUpdate
    PROVE  IInv'
<1>1. /\ finPc = "update" /\ (UpdateSucceeds(finState) \/ UpdateFails(finState))
      /\ UNCHANGED <<appV, cbV, confirmed, finState, forkchoice, cached>>
    BY DEF FirmUpdate
<1>2. /\ finPc' \in {"idle", "cache"}
      /\ finalityRx' \in Seq(confirmed)
      /\ finPc' # "idle" => finalityRx' = finalityRx
    BY <1>1, LoopBefore, DoneEffect DEF FirmUpdate
<1>3. /\ reth' \in [fc : ForkchoiceStates, known : SUBSET Heights]
      /\ reth'.known = reth.known
      /\ reth'.fc \in {reth.fc, finState}
      /\ errors' \in 0 .. MaxErrors
    BY <1>1, UpdateEffect, LoopBefore DEF IInv
<1>4. TypeOK'
    BY <1>1, <1>2, <1>3, LoopBefore, LoopTypes DEF IInv
<1>5. Copies' \subseteq Copies
    BY <1>1, <1>3 DEF Copies, appV, cbV
<1>6. QED BY <1>1, <1>2, <1>3, <1>4, <1>5, LoopBefore, LoopKeeps

LEMMA FirmCacheIInv ==
    ASSUME IInv, FirmCache
    PROVE  IInv'
<1>1. /\ finPc = "cache" /\ finPc' = "store" /\ cached' = finState
      /\ UNCHANGED <<appV, cbV, confirmed, finalityRx, finState, forkchoice, reth, errors>>
    BY DEF FirmCache
<1>2. TypeOK'
    BY <1>1, LoopBefore, LoopTypes DEF IInv
<1>3. Copies' \subseteq Copies
    BY <1>1 DEF Copies, appV, cbV
<1>4. QED BY <1>1, <1>2, <1>3, LoopBefore, LoopKeeps

LEMMA FirmStoreIInv ==
    ASSUME IInv, FirmStore
    PROVE  IInv'
<1>1. /\ finPc = "store" /\ forkchoice' = finState /\ Done
      /\ UNCHANGED <<appV, cbV, confirmed, finState, cached, reth, errors>>
    BY DEF FirmStore
<1>2. finPc' = "idle" /\ finalityRx' \in Seq(confirmed)
    BY <1>1, LoopBefore, DoneEffect
<1>3. TypeOK'
    BY <1>1, <1>2, LoopBefore, LoopTypes DEF IInv
<1>4. Copies' \subseteq Copies
    BY <1>1 DEF Copies, appV, cbV
<1>5. QED BY <1>1, <1>2, <1>3, <1>4, LoopBefore, LoopKeeps

----------------------------------------------------------------------------
(* The theorems                                                            *)

LEMMA InitIInv == Init => IInv
<1> SUFFICES ASSUME Init PROVE IInv
    OBVIOUS
<1>1. GenesisState \in ForkchoiceStates /\ GenesisState.head = 0 /\ GenesisState.finalized = 0
    BY DEF GenesisState, State, ForkchoiceStates, Heights
<1>2. TypeOK
    BY <1>1 DEF Init, TypeOK, Heights
<1>3. InHand /\ Tree /\ SubmittedWasExecuted
    BY DEF Init, InHand, Applying, Tree, SubmittedWasExecuted
<1>4. \A s \in Copies : s = GenesisState
    BY DEF Init, Copies
<1>5. FinalizedWasConfirmed /\ HeadWasDecided
    BY <1>1, <1>4 DEF Init, FinalizedWasConfirmed, HeadWasDecided
<1>6. QED BY <1>2, <1>3, <1>5 DEF Init, IInv

LEMMA NextIInv == IInv /\ [Next]_vars => IInv'
<1> SUFFICES ASSUME IInv, [Next]_vars PROVE IInv'
    OBVIOUS
<1>1. CASE Application
    BY <1>1, ImportRelayedIInv, CheckSyncIInv, BuildReadIInv, BuildUpdateIInv, ApplyPayloadIInv,
       ApplyReadIInv, ApplyUpdateIInv, ApplyCacheIInv DEF Application
<1>2. CASE Callback
    BY <1>2, ExecuteIInv, SoftReadIInv, SoftUpdateIInv, SoftCacheIInv, SoftStoreIInv,
       TrackIInv, SubmitIInv DEF Callback
<1>3. CASE EventLoop
    BY <1>3, CheckExecutedIInv, FirmReadIInv, FirmUpdateIInv, FirmCacheIInv, FirmStoreIInv
       DEF EventLoop
<1>4. CASE \E b \in 1 .. MaxBlock : Confirm(b)
    BY <1>4, ConfirmIInv
<1>5. CASE UNCHANGED vars
  <2>1. UNCHANGED <<appV, cbV, finV, forkchoice, cached, reth, errors>>
    BY <1>5 DEF vars
  <2>2. UNCHANGED <<confirmed, finalityRx, finPc, finState>>
    BY <2>1 DEF finV
  <2>3. Copies' = Copies
    BY <2>1, <2>2 DEF Copies, appV, cbV
  <2>4. TypeOK'
    BY <2>1, <2>2, LoopBefore, LoopTypes DEF IInv
  <2>5. QED BY <2>1, <2>2, <2>3, <2>4, LoopBefore, LoopKeeps
<1>6. QED BY <1>1, <1>2, <1>3, <1>4, <1>5 DEF Next

\* The inductive invariant of the three writers (the actor's finalize, the
\* callback and handle_finality_confirmation).
THEOREM Invariance == Spec => []IInv
BY InitIInv, NextIInv, PTL DEF Spec

\* Every variable keeps its type, whatever calls to reth are lost.
THEOREM TypeCorrect == Spec => []TypeOK
<1>1. IInv => TypeOK BY DEF IInv
<1>2. QED BY Invariance, <1>1, PTL

\* handle_finality_confirmation is the only source of a finalized block, and
\* no interleaving of the three writers spreads another.
THEOREM FinalizedTheorem == Spec => []FinalizedWasConfirmed
<1>1. IInv => FinalizedWasConfirmed BY DEF IInv
<1>2. QED BY Invariance, <1>1, PTL

\* Neither a relayed block nor one under construction becomes a head.
THEOREM HeadTheorem == Spec => []HeadWasDecided
<1>1. IInv => HeadWasDecided BY DEF IInv
<1>2. QED BY Invariance, <1>1, PTL

\* verify_block_executed never finds a confirmed block missing: the insertion
\* into executed_blocks, a step before the submission, is seen by the event
\* loop before any confirmation (process_finalized_block).
THEOREM ConfirmationsTheorem == Spec => []ConfirmationsAreExecuted
<1>1. IInv => ConfirmationsAreExecuted
  <2> SUFFICES ASSUME IInv PROVE ConfirmationsAreExecuted
    OBVIOUS
  <2>1. finalityRx \in Seq(confirmed) /\ confirmed \subseteq executed
    BY LoopBefore
  <2>2. QED BY <2>1 DEF ConfirmationsAreExecuted
<1>2. QED BY Invariance, <1>1, PTL

\* A block in executed_blocks is in reth's tree with all its ancestors.
THEOREM ExecutedTheorem == Spec => []ExecutedIsKnown
<1>1. IInv => ExecutedIsKnown BY DEF IInv, Tree, ExecutedIsKnown
<1>2. QED BY Invariance, <1>1, PTL

----------------------------------------------------------------------------
(* Without confirmations: the head                                         *)

\* Whatever calls fail, the state the callback is about to store has the
\* block in its hands for a head, and the stored head is not above it.
SoftKept ==
    SoftOnly =>
        /\ forkchoice.head <= execNext
        /\ cbPc \in {"update", "cache", "store"} => cbState.head = execNext

\* While no call has failed, reth knows every decided block, both writers
\* send consistent states, and reth's head can only be behind while the
\* callback has a block left that brings it forward.
CleanKept ==
    SoftOnly /\ errors = 0 =>
        /\ 0 .. appHeight - 1 \subseteq reth.known
        /\ Applying => appHeight \in reth.known
        /\ appPc = "building" => appState.head = appHeight - 1
        /\ appPc \in {"update", "cache"} => appState = State(appHeight, appHeight, 0)
        /\ cbPc \in {"update", "cache", "store"} => cbState = State(execNext, execNext, 0)
        /\ forkchoice.head = IF cbPc \in {"track", "submit"} THEN execNext ELSE execNext - 1
        /\ \/ execNext = appHeight
           \/ execNext = appHeight - 1 /\ cbPc \in {"cache", "store", "track", "submit"}
           => reth.fc.head >= appHeight - 1

\* The event loop only moves when something was confirmed.
LEMMA LoopIsConfirmed ==
    ASSUME IInv, EventLoop \/ \E b \in 1 .. MaxBlock : Confirm(b)
    PROVE  ~SoftOnly'
<1>1. CASE EventLoop
  <2>1. finalityRx # <<>> /\ confirmed' = confirmed
    BY <1>1, LoopBefore DEF EventLoop, CheckExecuted, FirmRead, FirmUpdate, FirmCache, FirmStore
  <2>2. Head(finalityRx) \in confirmed
    BY <2>1, LoopBefore
  <2>3. QED BY <2>1, <2>2 DEF SoftOnly
<1>2. CASE \E b \in 1 .. MaxBlock : Confirm(b)
    BY <1>2 DEF Confirm, SoftOnly
<1>3. QED BY <1>1, <1>2

LEMMA CallbackSoft ==
    ASSUME IInv, SoftKept, Callback
    PROVE  SoftKept'
<1> SUFFICES ASSUME SoftOnly'
             PROVE  SoftKept'
    BY DEF SoftKept
<1>1. UNCHANGED <<appV, finV>>
    BY DEF Callback, Execute, SoftRead, SoftUpdate, SoftCache, SoftStore, Track, Submit
<1>2. SoftOnly
    BY <1>1 DEF SoftOnly, finV
<1>3. /\ forkchoice.head <= execNext
      /\ cbPc \in {"update", "cache", "store"} => cbState.head = execNext
    BY <1>2 DEF SoftKept
<1>4. execNext \in Nat /\ forkchoice.head \in Nat
    BY CallbackBefore DEF ForkchoiceStates, Heights
<1>5. CASE Execute
    BY <1>3, <1>4, <1>5 DEF Execute, NextBlock, SoftKept
<1>6. CASE SoftRead
    BY <1>3, <1>4, <1>6 DEF SoftRead, WithSoft, State, SoftKept
<1>7. CASE SoftUpdate
    BY <1>3, <1>4, <1>7 DEF SoftUpdate, NextBlock, SoftKept
<1>8. CASE SoftCache
    BY <1>3, <1>4, <1>8 DEF SoftCache, SoftKept
<1>9. CASE SoftStore
    BY <1>3, <1>4, <1>9 DEF SoftStore, SoftKept
<1>10. CASE Track \/ Submit
    BY <1>3, <1>4, <1>10 DEF Track, Submit, NextBlock, SoftKept
<1>11. QED BY <1>5, <1>6, <1>7, <1>8, <1>9, <1>10 DEF Callback

LEMMA NextSoft ==
    ASSUME IInv, SoftKept, [Next]_vars
    PROVE  SoftKept'
<1>1. CASE Application
  <2>1. UNCHANGED <<cbV, finV, forkchoice>>
    BY <1>1 DEF Application, ImportRelayed, CheckSync, BuildRead, BuildUpdate, ApplyPayload,
                ApplyRead, ApplyUpdate, ApplyCache
  <2>2. QED BY <2>1 DEF SoftKept, SoftOnly, cbV, finV
<1>2. CASE Callback
    BY <1>2, CallbackSoft
<1>3. CASE EventLoop \/ \E b \in 1 .. MaxBlock : Confirm(b)
    BY <1>3, LoopIsConfirmed DEF SoftKept
<1>4. CASE UNCHANGED vars
    BY <1>4 DEF vars, cbV, finV, SoftKept, SoftOnly
<1>5. QED BY <1>1, <1>2, <1>3, <1>4 DEF Next

\* What CleanKept gives when it applies, with the types it needs.
LEMMA CleanBefore ==
    ASSUME IInv, CleanKept, SoftOnly, errors = 0
    PROVE  /\ appHeight \in 1 .. MaxBlock + 1 /\ execNext \in 1 .. appHeight
           /\ reth \in [fc : ForkchoiceStates, known : SUBSET Heights]
           /\ reth.fc.head \in Nat
           /\ Applying => appHeight <= MaxBlock
           /\ cbPc # "idle" => execNext < appHeight /\ execNext \in reth.known
           /\ \A s \in Copies : s.finalized = 0
<1>1. \A s \in Copies : s.finalized = 0
    BY DEF IInv, FinalizedWasConfirmed, SoftOnly
<1>2. reth.fc.head \in Nat
    BY CallbackBefore DEF ForkchoiceStates, Heights
<1>3. QED BY <1>1, <1>2, CallbackBefore DEF IInv, InHand

LEMMA ApplicationClean ==
    ASSUME IInv, CleanKept, Application, SoftOnly', errors' = 0
    PROVE  CleanKept'
<1>1. UNCHANGED <<cbV, finV, forkchoice>>
    BY DEF Application, ImportRelayed, CheckSync, BuildRead, BuildUpdate, ApplyPayload,
           ApplyRead, ApplyUpdate, ApplyCache
<1>2. /\ UNCHANGED <<execNext, cbPc, cbState, executed, submitted>>
      /\ UNCHANGED <<confirmed, finalityRx, finPc, finState, forkchoice>>
    BY <1>1 DEF cbV, finV
<1>3. SoftOnly
    BY <1>2 DEF SoftOnly
<1>4. errors = 0
  <2>1. errors \in Nat
    BY CallbackBefore
  <2>2. QED BY <2>1 DEF Application, ImportRelayed, CheckSync, BuildRead, BuildUpdate, ApplyPayload,
           ApplyRead, ApplyUpdate, ApplyCache, UpdateSucceeds, UpdateFails, Fails, appV
<1>5. ~Fails
    BY <1>4 DEF Fails
<1>6. /\ 0 .. appHeight - 1 \subseteq reth.known
      /\ Applying => appHeight \in reth.known
      /\ appPc = "building" => appState.head = appHeight - 1
      /\ appPc \in {"update", "cache"} => appState = State(appHeight, appHeight, 0)
      /\ cbPc \in {"update", "cache", "store"} => cbState = State(execNext, execNext, 0)
      /\ forkchoice.head = IF cbPc \in {"track", "submit"} THEN execNext ELSE execNext - 1
      /\ \/ execNext = appHeight
         \/ execNext = appHeight - 1 /\ cbPc \in {"cache", "store", "track", "submit"}
         => reth.fc.head >= appHeight - 1
    BY <1>3, <1>4 DEF CleanKept
<1>7. ASSUME NEW b \in 1 .. MaxBlock, ImportRelayed(b) PROVE CleanKept'
  <2>1. reth'.fc = reth.fc /\ reth.known \subseteq reth'.known
    BY <1>7, PayloadEffect DEF IInv, ImportRelayed
  <2>2. QED BY <1>2, <1>6, <1>7, <2>1 DEF ImportRelayed, appV, CleanKept, Applying
<1>8. CASE CheckSync
    BY <1>2, <1>6, <1>8 DEF CheckSync, CleanKept, Applying
<1>9. CASE BuildRead
    BY <1>2, <1>6, <1>9 DEF BuildRead, State, CleanKept, Applying
<1>10. CASE BuildUpdate
  <2>1. /\ UpdateSucceeds(appState) \/ UpdateFails(appState)
        /\ appPc = "building" /\ appPc' = "idle" /\ appHeight' = appHeight
    BY <1>10 DEF BuildUpdate
  <2>2. reth'.known = reth.known /\ reth'.fc \in {reth.fc, appState}
    BY <2>1, UpdateEffect, CallbackBefore DEF IInv
  <2>3. appHeight \in Nat /\ appState.head = appHeight - 1
    BY <1>6, <2>1, CallbackBefore
  <2>4. QED BY <1>2, <1>6, <2>1, <2>2, <2>3 DEF CleanKept, Applying
<1>11. CASE ApplyPayload
  <2>1. /\ NewPayload(appHeight) /\ appPc' = "applying" /\ appHeight' = appHeight
        /\ appHeight \in 1 .. MaxBlock
    BY <1>5, <1>11, CallbackBefore DEF ApplyPayload
  <2>2. Connects(appHeight)
    BY <1>6, <2>1 DEF Connects
  <2>3. reth'.fc = reth.fc /\ reth.known \subseteq reth'.known /\ appHeight \in reth'.known
    BY <2>1, <2>2, PayloadEffect DEF IInv
  <2>4. QED BY <1>2, <1>6, <2>1, <2>3 DEF CleanKept, Applying
<1>12. CASE ApplyRead
  <2>1. /\ appPc' = "update" /\ UNCHANGED <<appHeight, reth>>
        /\ appPc = "applying"
        /\ appState' = State(appHeight, appHeight, cached.finalized)
    BY <1>12 DEF ApplyRead
  <2>2. cached.finalized = 0
    BY <1>3, <1>4, CleanBefore DEF Copies
  <2>3. QED BY <1>2, <1>6, <2>1, <2>2 DEF CleanKept, Applying
<1>13. CASE ApplyUpdate
  <2>1. appPc = "update" /\ appState = State(appHeight, appHeight, 0) /\ UNCHANGED appState
    BY <1>6, <1>13 DEF ApplyUpdate
  <2>2. Consistent(appState)
    BY <2>1, CallbackBefore DEF Consistent, State
  <2>3. ~UpdateFails(appState)
    BY <1>5, <2>2 DEF UpdateFails
  <2>4. UpdateSucceeds(appState) /\ appPc' = "cache" /\ UNCHANGED appHeight
    BY <1>13, <2>3 DEF ApplyUpdate
  <2>5. reth'.known = reth.known /\ reth'.fc \in {reth.fc, appState}
    BY <2>4, UpdateEffect, CallbackBefore DEF IInv
  <2>6. appHeight \in Nat /\ appState.head = appHeight
    BY <2>1, CallbackBefore DEF State
  <2>7. QED BY <1>2, <1>6, <2>1, <2>4, <2>5, <2>6 DEF CleanKept, Applying
<1>14. CASE ApplyCache
  <2>1. /\ appPc = "cache" /\ appPc' = "idle" /\ appHeight' = appHeight + 1
        /\ UNCHANGED reth
    BY <1>14 DEF ApplyCache, Advance
  <2>2. appHeight \in Nat /\ execNext \in 1 .. appHeight /\ (cbPc # "idle" => execNext < appHeight)
    BY CallbackBefore
  <2>3. 0 .. appHeight' - 1 \subseteq reth.known
    BY <1>6, <2>1, <2>2 DEF Applying
  <2>4. ~(execNext = appHeight')
    BY <2>1, <2>2
  <2>5. ~(execNext = appHeight' - 1 /\ cbPc \in {"cache", "store", "track", "submit"})
    BY <2>1, <2>2
  <2>6. QED BY <1>2, <1>6, <2>1, <2>3, <2>4, <2>5 DEF CleanKept, Applying
<1>15. QED BY <1>7, <1>8, <1>9, <1>10, <1>11, <1>12, <1>13, <1>14 DEF Application

LEMMA CallbackClean ==
    ASSUME IInv, CleanKept, Callback, SoftOnly', errors' = 0
    PROVE  CleanKept'
<1>1. UNCHANGED <<appV, finV>>
    BY DEF Callback, Execute, SoftRead, SoftUpdate, SoftCache, SoftStore, Track, Submit
<1>2. UNCHANGED <<appHeight, appPc, appState, confirmed>>
    BY <1>1 DEF appV, finV
<1>3. SoftOnly
    BY <1>2 DEF SoftOnly
<1>4. errors = 0
  <2>1. errors \in Nat
    BY CallbackBefore
  <2>2. QED BY <2>1 DEF Callback, Execute, SoftRead, SoftUpdate, SoftCache, SoftStore,
           Track, Submit, UpdateSucceeds, UpdateFails, Fails
<1>5. ~Fails
    BY <1>4 DEF Fails
<1>6. /\ 0 .. appHeight - 1 \subseteq reth.known
      /\ Applying => appHeight \in reth.known
      /\ appPc = "building" => appState.head = appHeight - 1
      /\ appPc \in {"update", "cache"} => appState = State(appHeight, appHeight, 0)
      /\ cbPc \in {"update", "cache", "store"} => cbState = State(execNext, execNext, 0)
      /\ forkchoice.head = IF cbPc \in {"track", "submit"} THEN execNext ELSE execNext - 1
      /\ \/ execNext = appHeight
         \/ execNext = appHeight - 1 /\ cbPc \in {"cache", "store", "track", "submit"}
         => reth.fc.head >= appHeight - 1
    BY <1>3, <1>4 DEF CleanKept
<1>7. appHeight \in Nat /\ execNext \in 1 .. appHeight /\ (cbPc # "idle" => execNext < appHeight)
    BY CallbackBefore
<1>8. CASE Execute
  <2>1. execNext \in 1 .. MaxBlock /\ execNext < appHeight /\ cbPc = "idle"
    BY <1>8, CallbackBefore DEF Execute, Broadcast
  <2>2. Connects(execNext)
    BY <1>6, <2>1, <1>7 DEF Connects
  <2>3. /\ NewPayload(execNext) /\ cbPc' = "read" /\ execNext' = execNext
        /\ UNCHANGED <<cbState, forkchoice>>
    BY <1>5, <1>8, <2>2 DEF Execute
  <2>4. reth'.fc = reth.fc /\ reth.known \subseteq reth'.known
    BY <2>1, <2>3, PayloadEffect DEF IInv
  <2>5. QED BY <1>2, <1>6, <2>1, <2>3, <2>4 DEF CleanKept, Applying
<1>9. CASE SoftRead
  <2>1. /\ cbPc = "read" /\ cbPc' = "update" /\ UNCHANGED <<execNext, forkchoice, reth>>
        /\ cbState' = State(execNext, execNext, forkchoice.finalized)
    BY <1>9 DEF SoftRead, WithSoft
  <2>2. forkchoice.finalized = 0
    BY <1>3, <1>4, CleanBefore DEF Copies
  <2>3. QED BY <1>2, <1>6, <2>1, <2>2 DEF CleanKept, Applying
<1>10. CASE SoftUpdate
  <2>1. /\ cbPc = "update" /\ cbState = State(execNext, execNext, 0)
        /\ UNCHANGED <<cbState, forkchoice>>
    BY <1>6, <1>10 DEF SoftUpdate
  <2>2. cbState.head = execNext /\ execNext \in reth.known
    BY <2>1, CallbackBefore DEF State
  <2>3. Consistent(cbState)
    BY <2>1, <1>7 DEF Consistent, State
  <2>4. UpdateSucceeds(cbState) /\ cbPc' = "cache" /\ UNCHANGED execNext
    BY <1>5, <1>10, <2>3 DEF SoftUpdate, UpdateFails
  <2>5. reth'.known = reth.known
    BY <2>4, UpdateEffect, CallbackBefore DEF IInv
  <2>6. reth'.fc.head >= execNext
    <3>1. reth' = [reth EXCEPT !.fc = cbState] \/ (execNext < reth.fc.head /\ reth' = reth)
      BY <2>2, <2>4 DEF UpdateSucceeds, ForkchoiceUpdated, HeadKnown
    <3>2. reth \in [fc : ForkchoiceStates, known : SUBSET Heights] /\ reth.fc.head \in Nat
      BY <1>3, <1>4, CleanBefore
    <3>3. QED BY <3>1, <3>2, <2>2, <1>7
  <2>7. QED BY <1>2, <1>6, <1>7, <2>1, <2>4, <2>5, <2>6 DEF CleanKept, Applying
<1>11. CASE SoftCache
    BY <1>2, <1>6, <1>11 DEF SoftCache, CleanKept, Applying
<1>12. CASE SoftStore
  <2>1. cbState.head = execNext
    BY <1>6, <1>12 DEF SoftStore, State
  <2>2. QED BY <1>2, <1>6, <1>12, <2>1 DEF SoftStore, CleanKept, Applying
<1>13. CASE Track \/ Submit
    BY <1>2, <1>6, <1>7, <1>13 DEF Track, Submit, NextBlock, CleanKept, Applying
<1>14. QED BY <1>8, <1>9, <1>10, <1>11, <1>12, <1>13 DEF Callback

LEMMA NextClean ==
    ASSUME IInv, CleanKept, [Next]_vars
    PROVE  CleanKept'
<1> SUFFICES ASSUME SoftOnly', errors' = 0
             PROVE  CleanKept'
    BY DEF CleanKept
<1>1. CASE Application
    BY <1>1, ApplicationClean
<1>2. CASE Callback
    BY <1>2, CallbackClean
<1>3. CASE EventLoop \/ \E b \in 1 .. MaxBlock : Confirm(b)
    BY <1>3, LoopIsConfirmed
<1>4. CASE UNCHANGED vars
    BY <1>4 DEF vars, appV, cbV, finV, CleanKept, Applying, SoftOnly
<1>5. QED BY <1>1, <1>2, <1>3, <1>4 DEF Next

LEMMA InitKept == Init => SoftKept /\ CleanKept
BY DEF Init, SoftKept, CleanKept, Applying, GenesisState, State

\* The second invariant, about the head while nothing has been confirmed.
THEOREM SoftInvariance == Spec => [](IInv /\ SoftKept /\ CleanKept)
<1>1. Init => IInv /\ SoftKept /\ CleanKept
    BY InitIInv, InitKept
<1>2. IInv /\ SoftKept /\ CleanKept /\ [Next]_vars => (IInv /\ SoftKept /\ CleanKept)'
    BY NextIInv, NextSoft, NextClean
<1>3. QED BY <1>1, <1>2, PTL DEF Spec

\* Once the actor and the callback are idle, HEAD is the latest decided block
\* at reth and in the shared fork choice, although the callback takes it back
\* to blocks the actor is past.
THEOREM HeadFollowsTheorem == Spec => []HeadFollowsConsensus
<1>1. IInv /\ SoftKept /\ CleanKept => HeadFollowsConsensus
  <2> SUFFICES ASSUME IInv, CleanKept, Quiescent, SoftOnly, errors = 0
               PROVE  forkchoice.head = appHeight - 1 /\ reth.fc.head = appHeight - 1
    BY DEF HeadFollowsConsensus
  <2>1. appPc = "idle" /\ cbPc = "idle" /\ execNext = appHeight
    BY DEF Quiescent
  <2>2. forkchoice.head = appHeight - 1 /\ reth.fc.head >= appHeight - 1
    BY <2>1 DEF CleanKept
  <2>3. reth.fc.head < appHeight
    BY <2>1 DEF IInv, HeadWasDecided, Copies
  <2>4. appHeight \in Nat /\ reth.fc.head \in Nat
    BY CleanBefore
  <2>5. QED BY <2>2, <2>3, <2>4
<1>2. QED BY SoftInvariance, <1>1, PTL

\* Before the first confirmation nothing moves HEAD of the shared fork choice
\* back.
HeadForward == [][SoftOnly => forkchoice'.head >= forkchoice.head]_forkchoice

\* The shared fork choice does not move its head back before the first
\* confirmation, whatever calls fail.
THEOREM HeadForwardTheorem == Spec => HeadForward
<1>1. IInv /\ SoftKept /\ [Next]_vars => [SoftOnly => forkchoice'.head >= forkchoice.head]_forkchoice
  <2> SUFFICES ASSUME IInv, SoftKept, [Next]_vars, forkchoice' # forkchoice, SoftOnly
               PROVE  forkchoice'.head >= forkchoice.head
    OBVIOUS
  <2>1. CASE SoftStore
    <3>1. forkchoice'.head = execNext /\ forkchoice.head <= execNext
      BY <2>1 DEF SoftStore, SoftKept
    <3>2. execNext \in Nat /\ forkchoice.head \in Nat
      BY CallbackBefore DEF ForkchoiceStates, Heights
    <3>3. QED BY <3>1, <3>2
  <2>2. CASE FirmStore
    <3>1. finalityRx # <<>>
      BY <2>2, LoopBefore DEF FirmStore
    <3>2. Head(finalityRx) \in confirmed
      BY <3>1, LoopBefore
    <3>3. QED BY <3>2 DEF SoftOnly
  <2>3. CASE ~SoftStore /\ ~FirmStore
    BY <2>3 DEF Next, vars, Application, ImportRelayed, CheckSync, BuildRead, BuildUpdate, ApplyPayload,
                ApplyRead, ApplyUpdate, ApplyCache, Callback, Execute, SoftRead, SoftUpdate,
                SoftCache, Track, Submit, EventLoop, CheckExecuted, FirmRead, FirmUpdate,
                FirmCache, Confirm
  <2>4. QED BY <2>1, <2>2, <2>3
<1>2. QED BY SoftInvariance, <1>1, PTL DEF Spec, HeadForward

----------------------------------------------------------------------------
(* Who moves the shared fork choice back                                   *)

Writing(pc) == pc \in {"update", "cache", "store"}

\* The head of a state the callback writes is its block, and no head the
\* shared fork choice had is above it.
HeadKept ==
    /\ Writing(cbPc) => cbState.head = execNext
    /\ forkchoice.head <= execNext
    /\ Writing(finPc) => finState.head <= execNext

\* Confirmations come in the order of the blocks, each above all FINALIZED
\* blocks that the two tasks have written or are about to write.
OrderKept ==
    /\ submitted \subseteq 1 .. execNext - 1
    /\ \A c \in confirmed, d \in submitted \ confirmed : c < d
    /\ \A i, j \in 1 .. Len(finalityRx) : i < j => finalityRx[i] < finalityRx[j]
    /\ \A i \in 1 .. Len(finalityRx) :
           forkchoice.finalized < finalityRx[i] /\ cbState.finalized < finalityRx[i]
    /\ Writing(finPc) => finState.finalized = Head(finalityRx)

\* The event loop (update_fork_choice_firm) never moves FINALIZED back: only
\* the callback does, whose state was read before the confirmation's.
FinalizedBackBySoft == [][forkchoice'.finalized < forkchoice.finalized => SoftStore]_forkchoice

LEMMA KeptTypes ==
    ASSUME IInv
    PROVE  /\ forkchoice.head \in Nat /\ cbState.head \in Nat /\ finState.head \in Nat
           /\ forkchoice.finalized \in {0} \cup confirmed
           /\ cbState.finalized \in {0} \cup confirmed
           /\ execNext \in Nat \ {0} /\ confirmed \subseteq Nat \ {0} /\ submitted \subseteq Nat
           /\ confirmed \subseteq submitted
           /\ finalityRx \in Seq(confirmed) /\ Len(finalityRx) \in Nat
           /\ \A i \in 1 .. Len(finalityRx) : finalityRx[i] \in confirmed
           /\ finPc # "idle" => finalityRx # <<>>
<1>1. {forkchoice, cbState, finState} \subseteq ForkchoiceStates
    BY LoopBefore
<1>2. forkchoice.head \in Nat /\ cbState.head \in Nat /\ finState.head \in Nat
    BY <1>1 DEF ForkchoiceStates, Heights
<1>3. forkchoice.finalized \in {0} \cup confirmed /\ cbState.finalized \in {0} \cup confirmed
    BY DEF IInv, FinalizedWasConfirmed, Copies
<1>4. /\ execNext \in Nat \ {0} /\ submitted \subseteq 1 .. MaxBlock
      /\ confirmed \subseteq submitted
    BY CallbackBefore, LoopBefore
<1>5. finalityRx \in Seq(confirmed) /\ (finPc # "idle" => finalityRx # <<>>)
    BY LoopBefore
<1>6. Len(finalityRx) \in Nat /\ \A i \in 1 .. Len(finalityRx) : finalityRx[i] \in confirmed
    BY <1>5, LenProperties, ElementOfSeq
<1>7. QED BY <1>2, <1>3, <1>4, <1>5, <1>6

LEMMA NextHead ==
    ASSUME IInv, HeadKept, [Next]_vars
    PROVE  HeadKept'
<1>1. /\ forkchoice.head \in Nat /\ finState.head \in Nat /\ execNext \in Nat
    BY KeptTypes
<1>2. CASE Callback
  <2>1. UNCHANGED <<finPc, finState>> /\ (execNext' = execNext \/ execNext' = execNext + 1)
    BY <1>2 DEF Callback, Execute, SoftRead, SoftUpdate, SoftCache, SoftStore, Track, Submit,
                NextBlock, finV
  <2>2. Writing(cbPc') => cbState'.head = execNext'
    BY <1>2 DEF Callback, Execute, SoftRead, SoftUpdate, SoftCache, SoftStore, Track, Submit,
                NextBlock, HeadKept, Writing, WithSoft, State
  <2>3. forkchoice'.head <= execNext'
    <3>1. CASE SoftStore
      BY <1>1, <3>1 DEF SoftStore, HeadKept, Writing
    <3>2. CASE ~SoftStore
      <4>1. forkchoice' = forkchoice
        BY <1>2, <3>2 DEF Callback, Execute, SoftRead, SoftUpdate, SoftCache, Track, Submit
      <4>2. QED BY <1>1, <2>1, <4>1 DEF HeadKept
    <3>3. QED BY <3>1, <3>2
  <2>4. QED BY <1>1, <2>1, <2>2, <2>3 DEF HeadKept
<1>3. CASE EventLoop
  <2>1. UNCHANGED <<execNext, cbPc, cbState>>
    BY <1>3 DEF EventLoop, CheckExecuted, FirmRead, FirmUpdate, FirmCache, FirmStore, cbV
  <2>2. forkchoice'.head <= execNext
    BY <1>3 DEF EventLoop, CheckExecuted, FirmRead, FirmUpdate, FirmCache, FirmStore,
                HeadKept, Writing
  <2>3. Writing(finPc') => finState'.head <= execNext
    <3>1. CASE FirmRead
      BY <1>1, <3>1, LoopBefore DEF FirmRead, WithFirm, HeadKept, ForkchoiceStates
    <3>2. CASE ~FirmRead
      BY <1>3, <3>2 DEF EventLoop, CheckExecuted, FirmUpdate, FirmCache, FirmStore, Done,
                        HeadKept, Writing
    <3>3. QED BY <3>1, <3>2
  <2>4. QED BY <2>1, <2>2, <2>3 DEF HeadKept
<1>4. CASE UNCHANGED <<execNext, cbPc, cbState, finPc, finState, forkchoice>>
    BY <1>4 DEF HeadKept
<1>5. QED BY <1>2, <1>3, <1>4
          DEF Next, Application, ImportRelayed, CheckSync, BuildRead, BuildUpdate, ApplyPayload,
              ApplyRead, ApplyUpdate, ApplyCache, Confirm, vars, cbV, finV

\* A confirmation that has been handled leaves the others in order.
LEMMA DoneOrder ==
    ASSUME IInv, OrderKept, finalityRx # <<>>, Done, UNCHANGED <<confirmed, cbV>>,
           forkchoice'.finalized \in {forkchoice.finalized, Head(finalityRx)}
    PROVE  OrderKept'
<1>1. /\ finPc' = "idle" /\ finalityRx' = Tail(finalityRx)
      /\ UNCHANGED <<execNext, cbState, submitted>>
    BY DEF Done, cbV
<1>2. /\ Len(finalityRx) \in Nat \ {0}
      /\ Head(finalityRx) = finalityRx[1]
      /\ Len(Tail(finalityRx)) = Len(finalityRx) - 1
      /\ \A i \in 1 .. Len(Tail(finalityRx)) : Tail(finalityRx)[i] = finalityRx[i + 1]
    BY KeptTypes, HeadTailProperties, EmptySeq
<1>3. \A i \in 1 .. Len(finalityRx') :
          /\ i + 1 \in 1 .. Len(finalityRx) /\ 1 \in 1 .. Len(finalityRx) /\ 1 < i + 1
          /\ finalityRx'[i] = finalityRx[i + 1]
    BY <1>1, <1>2
<1>4. \A i, j \in 1 .. Len(finalityRx') : i < j => finalityRx'[i] < finalityRx'[j]
  <2> SUFFICES ASSUME NEW i \in 1 .. Len(finalityRx'), NEW j \in 1 .. Len(finalityRx'), i < j
               PROVE  finalityRx'[i] < finalityRx'[j]
    OBVIOUS
  <2>1. i + 1 < j + 1
    BY <1>3
  <2>2. QED BY <1>3, <2>1 DEF OrderKept
<1>5. \A i \in 1 .. Len(finalityRx') :
          forkchoice'.finalized < finalityRx'[i] /\ cbState'.finalized < finalityRx'[i]
    BY <1>1, <1>2, <1>3 DEF OrderKept
<1>6. ~Writing(finPc')
    BY <1>1 DEF Writing
<1>7. QED BY <1>1, <1>4, <1>5, <1>6 DEF OrderKept

\* A new confirmation is of the next block.
LEMMA ConfirmOrder ==
    ASSUME InOrder, IInv, OrderKept, NEW b \in 1 .. MaxBlock, Confirm(b)
    PROVE  OrderKept'
<1>1. /\ b \in submitted \ confirmed /\ \A c \in submitted \ confirmed : b <= c
      /\ confirmed' = confirmed \cup {b}
      /\ finalityRx' = Append(finalityRx, b)
      /\ UNCHANGED <<execNext, cbState, submitted, finPc, finState, forkchoice>>
    BY DEF Confirm, cbV
<1>2. /\ finalityRx \in Seq(submitted) /\ Len(finalityRx) \in Nat
      /\ \A i \in 1 .. Len(finalityRx) : finalityRx[i] \in confirmed
      /\ submitted \subseteq Nat /\ confirmed \subseteq submitted
      /\ finPc # "idle" => finalityRx # <<>>
    BY KeptTypes
<1>3. /\ Len(Append(finalityRx, b)) = Len(finalityRx) + 1
      /\ \A i \in 1 .. Len(finalityRx) : Append(finalityRx, b)[i] = finalityRx[i]
      /\ Append(finalityRx, b)[Len(finalityRx) + 1] = b
    BY <1>1, <1>2, AppendProperties
<1>4. \A c \in confirmed', d \in submitted' \ confirmed' : c < d
    BY <1>1, <1>2 DEF OrderKept
<1>5. \A i \in 1 .. Len(finalityRx) : finalityRx[i] < b
    BY <1>1, <1>2 DEF OrderKept
<1>6. \A i \in 1 .. Len(finalityRx') :
          \/ i \in 1 .. Len(finalityRx) /\ finalityRx'[i] = finalityRx[i]
          \/ i = Len(finalityRx) + 1 /\ finalityRx'[i] = b
    BY <1>1, <1>2, <1>3
<1>7. \A i, j \in 1 .. Len(finalityRx') : i < j => finalityRx'[i] < finalityRx'[j]
  <2> SUFFICES ASSUME NEW i \in 1 .. Len(finalityRx'), NEW j \in 1 .. Len(finalityRx'), i < j
               PROVE  finalityRx'[i] < finalityRx'[j]
    OBVIOUS
  <2>1. i \in 1 .. Len(finalityRx)
    BY <1>1, <1>2, <1>3
  <2>2. QED BY <1>2, <1>5, <1>6, <2>1 DEF OrderKept
<1>8. forkchoice.finalized < b /\ cbState.finalized < b
    BY <1>1, KeptTypes DEF OrderKept
<1>9. \A i \in 1 .. Len(finalityRx') :
          forkchoice'.finalized < finalityRx'[i] /\ cbState'.finalized < finalityRx'[i]
    BY <1>1, <1>6, <1>8 DEF OrderKept
<1>10. Writing(finPc') => finState'.finalized = Head(finalityRx')
  <2>1. finalityRx # <<>> => Head(finalityRx') = Head(finalityRx)
    BY <1>1, <1>2
  <2>2. QED BY <1>1, <1>2, <2>1 DEF OrderKept, Writing
<1>11. QED BY <1>1, <1>4, <1>7, <1>9, <1>10 DEF OrderKept

LEMMA NextOrder ==
    ASSUME InOrder, IInv, OrderKept, [Next]_vars
    PROVE  OrderKept'
<1>1. CASE Callback
  <2>1. /\ UNCHANGED <<confirmed, finalityRx, finPc, finState>>
        /\ forkchoice' \in {forkchoice, cbState}
        /\ cbState' = cbState \/ cbState'.finalized = forkchoice.finalized
    <3>1. UNCHANGED <<confirmed, finalityRx, finPc, finState>>
      BY <1>1 DEF Callback, Execute, SoftRead, SoftUpdate, SoftCache, SoftStore,
                  Track, Submit, finV
    <3>2. forkchoice' \in {forkchoice, cbState}
      BY <1>1 DEF Callback, Execute, SoftRead, SoftUpdate, SoftCache, SoftStore, Track, Submit
    <3>3. cbState' = cbState \/ cbState'.finalized = forkchoice.finalized
      BY <1>1 DEF Callback, Execute, SoftRead, SoftUpdate, SoftCache, SoftStore,
                  Track, Submit, WithSoft, State
    <3>4. QED BY <3>1, <3>2, <3>3
  <2>2. /\ submitted' \subseteq 1 .. execNext' - 1
        /\ \A c \in confirmed, d \in submitted' \ confirmed : c < d
    <3>1. CASE Submit
      <4>1. execNext' = execNext + 1 /\ submitted' \subseteq submitted \cup {execNext}
        BY <3>1 DEF Submit, NextBlock
      <4>2. execNext \in Nat \ {0} /\ confirmed \subseteq submitted
        BY KeptTypes
      <4>3. QED BY <4>1, <4>2 DEF OrderKept
    <3>2. CASE ~Submit
      <4>1. submitted' = submitted /\ (execNext' = execNext \/ execNext' = execNext + 1)
        BY <1>1, <3>2 DEF Callback, Execute, SoftRead, SoftUpdate, SoftCache, SoftStore, Track,
                          NextBlock
      <4>2. QED BY <4>1, KeptTypes DEF OrderKept
    <3>3. QED BY <3>1, <3>2
  <2>3. \A i \in 1 .. Len(finalityRx) :
            forkchoice'.finalized < finalityRx[i] /\ cbState'.finalized < finalityRx[i]
    BY <2>1 DEF OrderKept
  <2>4. QED BY <2>1, <2>2, <2>3 DEF OrderKept
<1>2. CASE CheckExecuted
  <2>1. UNCHANGED <<confirmed, cbV, forkchoice, finState>> /\ finalityRx # <<>>
    BY <1>2 DEF CheckExecuted
  <2>2. CASE Head(finalityRx) \in executed
    BY <1>2, <2>1, <2>2 DEF CheckExecuted, OrderKept, Writing, cbV
  <2>3. CASE Head(finalityRx) \notin executed
    BY <1>2, <2>1, <2>3, DoneOrder DEF CheckExecuted
  <2>4. QED BY <2>2, <2>3
<1>3. CASE FirmRead
  <2>1. finState'.finalized = Head(finalityRx)
    BY <1>3, LoopBefore DEF FirmRead, WithFirm, ForkchoiceStates
  <2>2. UNCHANGED <<confirmed, finalityRx, execNext, cbState, submitted, forkchoice>>
    BY <1>3 DEF FirmRead, cbV
  <2>3. QED BY <2>1, <2>2 DEF OrderKept
<1>4. CASE FirmUpdate
  <2>1. UNCHANGED <<confirmed, cbV, forkchoice, finState>> /\ finalityRx # <<>> /\ Writing(finPc)
    BY <1>4, KeptTypes DEF FirmUpdate, Writing
  <2>2. CASE Done
    BY <2>1, <2>2, DoneOrder
  <2>3. CASE UNCHANGED finalityRx
    BY <2>1, <2>3 DEF OrderKept, cbV
  <2>4. QED BY <1>4, <2>2, <2>3 DEF FirmUpdate
<1>5. CASE FirmCache
    BY <1>5 DEF FirmCache, OrderKept, Writing, cbV
<1>6. CASE FirmStore
  <2>1. /\ UNCHANGED <<confirmed, cbV>> /\ finalityRx # <<>> /\ Done
        /\ forkchoice'.finalized = Head(finalityRx)
    BY <1>6, KeptTypes DEF FirmStore, OrderKept, Writing
  <2>2. QED BY <2>1, DoneOrder
<1>7. CASE UNCHANGED <<cbV, finV, forkchoice>>
    BY <1>7 DEF OrderKept, cbV, finV
<1>8. CASE \E b \in 1 .. MaxBlock : Confirm(b)
    BY <1>8, ConfirmOrder
<1>9. QED BY <1>1, <1>2, <1>3, <1>4, <1>5, <1>6, <1>7, <1>8
          DEF Next, EventLoop, Application, ImportRelayed, CheckSync, BuildRead, BuildUpdate,
              ApplyPayload, ApplyRead, ApplyUpdate, ApplyCache, vars

\* Only these two write the shared fork choice.
LEMMA TwoWriters ==
    ASSUME [Next]_vars, ~SoftStore, ~FirmStore
    PROVE  UNCHANGED forkchoice
BY DEF Next, vars, Application, ImportRelayed, CheckSync, BuildRead, BuildUpdate, ApplyPayload,
       ApplyRead, ApplyUpdate, ApplyCache, Callback, Execute, SoftRead, SoftUpdate,
       SoftCache, Track, Submit, EventLoop, CheckExecuted, FirmRead, FirmUpdate,
       FirmCache, Confirm

\* The callback (update_fork_choice_soft) never moves HEAD of the shared fork
\* choice back, with confirmations in any order: only a firm confirmation
\* that read an older one does.
THEOREM HeadWriterTheorem == Spec => HeadBackByFirm
<1>1. Init => HeadKept
    BY DEF Init, HeadKept, Writing, GenesisState, State
<1>2. IInv /\ HeadKept /\ [Next]_vars => HeadKept'
    BY NextHead
<1>3. IInv /\ HeadKept /\ [Next]_vars => [forkchoice'.head < forkchoice.head => FirmStore]_forkchoice
  <2> SUFFICES ASSUME IInv, HeadKept, [Next]_vars, forkchoice' # forkchoice, ~FirmStore
               PROVE  ~(forkchoice'.head < forkchoice.head)
    OBVIOUS
  <2>1. SoftStore
    BY TwoWriters
  <2>2. forkchoice'.head = execNext /\ forkchoice.head <= execNext
    BY <2>1 DEF SoftStore, HeadKept, Writing
  <2>3. QED BY <2>2, KeptTypes
<1>4. QED BY <1>1, <1>2, <1>3, Invariance, PTL DEF Spec, HeadBackByFirm

\* With confirmations in block order the event loop
\* (handle_finality_confirmation) never moves FINALIZED back: where it goes
\* back, against forkchoice.rs:40, the callback has stored a state it read
\* before the confirmation.
THEOREM FinalizedWriterTheorem ==
    ASSUME InOrder
    PROVE  Spec => FinalizedBackBySoft
<1>1. Init => OrderKept
    BY DEF Init, OrderKept, Writing, GenesisState, State
<1>2. IInv /\ OrderKept /\ [Next]_vars => OrderKept'
    BY NextOrder
<1>3. IInv /\ OrderKept /\ [Next]_vars
          => [forkchoice'.finalized < forkchoice.finalized => SoftStore]_forkchoice
  <2> SUFFICES ASSUME IInv, OrderKept, [Next]_vars, forkchoice' # forkchoice, ~SoftStore
               PROVE  ~(forkchoice'.finalized < forkchoice.finalized)
    OBVIOUS
  <2>1. FirmStore
    BY TwoWriters
  <2>2. forkchoice'.finalized = Head(finalityRx) /\ finalityRx # <<>>
    BY <2>1, KeptTypes DEF FirmStore, OrderKept, Writing
  <2>3. Head(finalityRx) = finalityRx[1] /\ 1 \in 1 .. Len(finalityRx)
    BY <2>2, KeptTypes, HeadTailProperties, EmptySeq
  <2>4. forkchoice.finalized < forkchoice'.finalized
    BY <2>2, <2>3 DEF OrderKept
  <2>5. QED BY <2>2, <2>3, <2>4, KeptTypes
<1>4. QED BY <1>1, <1>2, <1>3, Invariance, PTL DEF Spec, FinalizedBackBySoft

----------------------------------------------------------------------------
(* What reth and the copies hold                                           *)

\* The copies that a task has stored or that reth acts on.  What the event
\* loop is about to send, finState, is not one of them.
Settled == {appState, cbState, forkchoice, cached, reth.fc}

\* SAFE is HEAD, FINALIZED is not above it, and the heads that the callback
\* and the event loop take from are known to reth.  The event loop alone may
\* ask for a finalized block above its head; it stores what reth has accepted.
SoundKept ==
    /\ submitted \subseteq 1 .. execNext - 1
    /\ \A s \in Copies : s.safe = s.head
    /\ \A s \in Settled : s.finalized <= s.head
    /\ {cbState.head, finState.head, forkchoice.head, reth.fc.head} \subseteq reth.known
    /\ finPc \in {"cache", "store"} => finState.finalized <= finState.head

\* The fork choice of the callback and the event loop, the client's copy and
\* reth's never have FINALIZED above HEAD or a SAFE of their own, name blocks
\* reth knows, and neither the actor nor the callback is refused by reth:
\* only a firm confirmation is, whose block the head it read is below.
ForkchoiceSound ==
    /\ \A s \in {forkchoice, cached, reth.fc} : s.safe = s.head /\ s.finalized <= s.head
    /\ \A s \in {forkchoice, reth.fc} : {s.head, s.finalized} \subseteq reth.known
    /\ appPc \in {"building", "update"} => Consistent(appState)
    /\ cbPc = "update" => Consistent(cbState)

\* reth takes a state whose head it knows only if FINALIZED is not above it.
LEMMA UpdateSound ==
    ASSUME TypeOK, NEW s \in ForkchoiceStates, UpdateSucceeds(s) \/ UpdateFails(s)
    PROVE  /\ reth'.known = reth.known
           /\ reth'.fc # reth.fc => reth'.fc = s /\ s.head \in reth.known /\ s.finalized <= s.head
           /\ UpdateSucceeds(s) /\ s.head \in reth.known => s.finalized <= s.head
<1>1. \/ reth' = reth
      \/ reth' = [reth EXCEPT !.fc = s] /\ HeadKnown(s) /\ Consistent(s)
    BY DEF UpdateSucceeds, UpdateFails, ForkchoiceUpdated
<1>2. UpdateSucceeds(s) => Consistent(s)
    BY DEF UpdateSucceeds
<1>3. Consistent(s) /\ s.head \in reth.known => s.finalized <= s.head
    BY DEF Consistent, HeadKnown
<1>4. CASE reth' = reth
    BY <1>2, <1>3, <1>4
<1>5. CASE reth' = [reth EXCEPT !.fc = s] /\ HeadKnown(s) /\ Consistent(s)
  <2>1. reth'.known = reth.known /\ reth'.fc = s
    BY <1>5 DEF TypeOK
  <2>2. QED BY <1>2, <1>3, <1>5, <2>1 DEF HeadKnown
<1>6. QED BY <1>1, <1>4, <1>5

\* What is confirmed is below the block the callback is at, and so below the
\* one the actor is at.
LEMMA SoundBefore ==
    ASSUME IInv, SoundKept
    PROVE  /\ appHeight \in Nat \ {0} /\ execNext \in Nat \ {0} /\ execNext <= appHeight
           /\ cbPc # "idle" => execNext \in reth.known
           /\ \A s \in Copies : /\ s \in ForkchoiceStates
                                /\ s.head \in Nat /\ s.finalized \in Nat
                                /\ s.finalized <= execNext - 1
           /\ {appState, cbState, finState, forkchoice, cached, reth.fc} \subseteq ForkchoiceStates
<1>1. /\ {appState, cbState, finState, forkchoice, cached, reth.fc} \subseteq ForkchoiceStates
      /\ execNext \in 1 .. appHeight /\ appHeight \in 1 .. MaxBlock + 1
      /\ cbPc # "idle" => execNext \in reth.known
    BY CallbackBefore
<1>2. confirmed \subseteq 1 .. execNext - 1
    BY LoopBefore DEF SoundKept
<1>3. ASSUME NEW s \in Copies
      PROVE  /\ s \in ForkchoiceStates
             /\ s.head \in Nat /\ s.finalized \in Nat
             /\ s.finalized <= execNext - 1
  <2>1. s \in ForkchoiceStates
    BY <1>1 DEF Copies
  <2>2. s.finalized \in {0} \cup (confirmed \cap executed)
    BY DEF IInv, FinalizedWasConfirmed
  <2>3. QED BY <1>1, <1>2, <2>1, <2>2 DEF ForkchoiceStates, Heights
<1>4. QED BY <1>1, <1>3

\* A step that only brings settled states to the copies, and teaches reth.
LEMMA SoundMoves ==
    ASSUME SoundKept, submitted' = submitted, execNext' = execNext,
           reth.known \subseteq reth'.known,
           Copies' \subseteq Copies, Settled' \subseteq Settled,
           {cbState'.head, finState'.head, forkchoice'.head, reth'.fc.head} \subseteq reth'.known,
           finPc' \in {"cache", "store"} => finState'.finalized <= finState'.head
    PROVE  SoundKept'
<1>1. \A s \in Copies' : s.safe = s.head
    BY DEF SoundKept
<1>2. \A s \in Settled' : s.finalized <= s.head
    BY DEF SoundKept
<1>3. QED BY <1>1, <1>2 DEF SoundKept

LEMMA ApplicationSound ==
    ASSUME IInv, SoundKept, Application
    PROVE  SoundKept'
<1>1. /\ UNCHANGED <<execNext, cbPc, cbState, submitted, finPc, finState, forkchoice>>
  <2>1. UNCHANGED <<cbV, finV, forkchoice>>
    BY DEF Application, ImportRelayed, CheckSync, BuildRead, BuildUpdate, ApplyPayload,
           ApplyRead, ApplyUpdate, ApplyCache
  <2>2. QED BY <2>1 DEF cbV, finV
<1>2. /\ {cbState.head, finState.head, forkchoice.head, reth.fc.head} \subseteq reth.known
      /\ finPc \in {"cache", "store"} => finState.finalized <= finState.head
      /\ \A s \in Copies : s.safe = s.head
      /\ \A s \in Settled : s.finalized <= s.head
      /\ submitted \subseteq 1 .. execNext - 1
    BY DEF SoundKept
<1>3. ASSUME NEW b \in 1 .. MaxBlock, ImportRelayed(b) PROVE SoundKept'
  <2>1. reth'.fc = reth.fc /\ reth.known \subseteq reth'.known
    BY <1>3, PayloadEffect DEF IInv, ImportRelayed
  <2>2. UNCHANGED <<appState, cached>>
    BY <1>3 DEF ImportRelayed, appV
  <2>3. Copies' = Copies /\ Settled' = Settled
    BY <1>1, <2>1, <2>2 DEF Copies, Settled
  <2>4. QED BY <1>1, <1>2, <2>1, <2>3, SoundMoves
<1>4. CASE CheckSync
  <2>1. Copies' = Copies /\ Settled' = Settled /\ UNCHANGED reth
    BY <1>1, <1>4 DEF CheckSync, Copies, Settled
  <2>2. QED BY <1>1, <1>2, <2>1, SoundMoves
<1>5. CASE BuildRead
  <2>1. /\ appState' = State(appHeight - 1, appHeight - 1, cached.finalized)
        /\ UNCHANGED <<cached, reth>>
    BY <1>5 DEF BuildRead
  <2>2. /\ appState'.head = appHeight - 1 /\ appState'.safe = appHeight - 1
        /\ appState'.finalized = cached.finalized
    BY <2>1 DEF State
  <2>3. cached \in Copies
    BY DEF Copies
  <2>4. appState'.finalized <= appState'.head
    BY <2>2, <2>3, SoundBefore
  <2>5. Copies' \subseteq Copies \cup {appState'} /\ Settled' \subseteq Settled \cup {appState'}
    BY <1>1, <2>1 DEF Copies, Settled
  <2>6. \A c \in Copies' : c.safe = c.head
    BY <1>2, <2>2, <2>5
  <2>7. \A c \in Settled' : c.finalized <= c.head
    BY <1>2, <2>4, <2>5
  <2>8. QED BY <1>1, <1>2, <2>1, <2>6, <2>7 DEF SoundKept
<1>6. CASE ApplyPayload
  <2>1. reth'.fc = reth.fc /\ reth.known \subseteq reth'.known
    <3>1. NewPayload(appHeight) \/ UNCHANGED reth
      BY <1>6 DEF ApplyPayload
    <3>2. appHeight \in 1 .. MaxBlock
      BY <1>6, CallbackBefore DEF ApplyPayload
    <3>3. QED BY <3>1, <3>2, PayloadEffect DEF IInv
  <2>2. UNCHANGED <<appState, cached>>
    BY <1>6 DEF ApplyPayload
  <2>3. Copies' = Copies /\ Settled' = Settled
    BY <1>1, <2>1, <2>2 DEF Copies, Settled
  <2>4. QED BY <1>1, <1>2, <2>1, <2>3, SoundMoves
<1>7. CASE ApplyRead
  <2>1. /\ appState' = State(appHeight, appHeight, cached.finalized)
        /\ UNCHANGED <<cached, reth>>
    BY <1>7 DEF ApplyRead
  <2>2. /\ appState'.head = appHeight /\ appState'.safe = appHeight
        /\ appState'.finalized = cached.finalized
    BY <2>1 DEF State
  <2>3. cached \in Copies
    BY DEF Copies
  <2>4. appState'.finalized <= appState'.head
    BY <2>2, <2>3, SoundBefore
  <2>5. Copies' \subseteq Copies \cup {appState'} /\ Settled' \subseteq Settled \cup {appState'}
    BY <1>1, <2>1 DEF Copies, Settled
  <2>6. \A c \in Copies' : c.safe = c.head
    BY <1>2, <2>2, <2>5
  <2>7. \A c \in Settled' : c.finalized <= c.head
    BY <1>2, <2>4, <2>5
  <2>8. QED BY <1>1, <1>2, <2>1, <2>6, <2>7 DEF SoundKept
<1>8. CASE ApplyUpdate \/ BuildUpdate
  <2>1. UNCHANGED <<appState, cached>> /\ (UpdateSucceeds(appState) \/ UpdateFails(appState))
    BY <1>8 DEF ApplyUpdate, BuildUpdate
  <2>2. /\ reth'.known = reth.known
        /\ reth'.fc # reth.fc => reth'.fc = appState /\ appState.head \in reth.known
    BY <2>1, UpdateSound, CallbackBefore DEF IInv
  <2>3. Copies' \subseteq Copies /\ Settled' \subseteq Settled
    BY <1>1, <2>1, <2>2 DEF Copies, Settled
  <2>4. QED BY <1>1, <1>2, <2>2, <2>3, SoundMoves
<1>9. CASE ApplyCache
  <2>1. cached' = appState /\ UNCHANGED <<appState, reth>>
    BY <1>9 DEF ApplyCache
  <2>2. Copies' \subseteq Copies /\ Settled' \subseteq Settled
    BY <1>1, <2>1 DEF Copies, Settled
  <2>3. QED BY <1>1, <1>2, <2>1, <2>2, SoundMoves
<1>10. QED BY <1>3, <1>4, <1>5, <1>6, <1>7, <1>8, <1>9 DEF Application

LEMMA CallbackSound ==
    ASSUME IInv, SoundKept, Callback
    PROVE  SoundKept'
<1>1. UNCHANGED <<appState, finPc, finState>>
  <2>1. UNCHANGED <<appV, finV>>
    BY DEF Callback, Execute, SoftRead, SoftUpdate, SoftCache, SoftStore, Track, Submit
  <2>2. QED BY <2>1 DEF appV, finV
<1>2. /\ {cbState.head, finState.head, forkchoice.head, reth.fc.head} \subseteq reth.known
      /\ finPc \in {"cache", "store"} => finState.finalized <= finState.head
      /\ \A s \in Copies : s.safe = s.head
      /\ \A s \in Settled : s.finalized <= s.head
      /\ submitted \subseteq 1 .. execNext - 1
    BY DEF SoundKept
<1>3. execNext \in Nat \ {0}
    BY SoundBefore
<1>4. ASSUME execNext' = execNext \/ execNext' = execNext + 1,
             submitted' = submitted,
             reth.known \subseteq reth'.known, Copies' \subseteq Copies, Settled' \subseteq Settled,
             {cbState'.head, forkchoice'.head, reth'.fc.head} \subseteq reth'.known
      PROVE  SoundKept'
  <2>1. submitted' \subseteq 1 .. execNext' - 1
    BY <1>2, <1>3, <1>4
  <2>2. \A s \in Copies' : s.safe = s.head
    BY <1>2, <1>4
  <2>3. \A s \in Settled' : s.finalized <= s.head
    BY <1>2, <1>4
  <2>4. QED BY <1>1, <1>2, <1>4, <2>1, <2>2, <2>3 DEF SoundKept
<1>5. CASE Execute
  <2>1. /\ reth'.fc = reth.fc /\ reth.known \subseteq reth'.known
    <3>1. NewPayload(execNext) \/ UNCHANGED reth
      BY <1>5 DEF Execute
    <3>2. execNext \in 1 .. MaxBlock
      BY <1>5, CallbackBefore DEF Execute, Broadcast
    <3>3. QED BY <3>1, <3>2, PayloadEffect DEF IInv
  <2>2. /\ UNCHANGED <<cbState, submitted, forkchoice, cached>>
        /\ execNext' = execNext \/ execNext' = execNext + 1
    BY <1>5 DEF Execute, NextBlock
  <2>3. Copies' = Copies /\ Settled' = Settled
    BY <1>1, <2>1, <2>2 DEF Copies, Settled
  <2>4. QED BY <1>2, <1>4, <2>1, <2>2, <2>3
<1>6. CASE SoftRead
  <2>1. /\ cbPc = "read" /\ cbState' = State(execNext, execNext, forkchoice.finalized)
        /\ UNCHANGED <<execNext, submitted, forkchoice, cached, reth>>
    BY <1>6 DEF SoftRead, WithSoft
  <2>2. /\ cbState'.head = execNext /\ cbState'.safe = execNext
        /\ cbState'.finalized = forkchoice.finalized
    BY <2>1 DEF State
  <2>3. forkchoice \in Copies
    BY DEF Copies
  <2>4. cbState'.finalized <= cbState'.head /\ cbState'.head \in reth.known
    BY <2>1, <2>2, <2>3, SoundBefore
  <2>5. Copies' \subseteq Copies \cup {cbState'} /\ Settled' \subseteq Settled \cup {cbState'}
    BY <1>1, <2>1 DEF Copies, Settled
  <2>6. \A c \in Copies' : c.safe = c.head
    BY <1>2, <2>2, <2>5
  <2>7. \A c \in Settled' : c.finalized <= c.head
    BY <1>2, <2>4, <2>5
  <2>8. QED BY <1>1, <1>2, <2>1, <2>4, <2>6, <2>7 DEF SoundKept
<1>7. CASE SoftUpdate
  <2>1. /\ UNCHANGED <<cbState, submitted, forkchoice, cached>>
        /\ UpdateSucceeds(cbState) \/ UpdateFails(cbState)
        /\ execNext' = execNext \/ execNext' = execNext + 1
    BY <1>7 DEF SoftUpdate, NextBlock
  <2>2. /\ reth'.known = reth.known
        /\ reth'.fc # reth.fc => reth'.fc = cbState
    BY <2>1, UpdateSound, CallbackBefore DEF IInv
  <2>3. Copies' \subseteq Copies /\ Settled' \subseteq Settled
    BY <1>1, <2>1, <2>2 DEF Copies, Settled
  <2>4. QED BY <1>2, <1>4, <2>1, <2>2, <2>3
<1>8. CASE SoftCache \/ SoftStore
  <2>1. /\ UNCHANGED <<execNext, cbState, submitted, reth>>
        /\ cached' \in {cached, cbState} /\ forkchoice' \in {forkchoice, cbState}
    BY <1>8 DEF SoftCache, SoftStore
  <2>2. Copies' \subseteq Copies /\ Settled' \subseteq Settled
    BY <1>1, <2>1 DEF Copies, Settled
  <2>3. QED BY <1>2, <1>4, <2>1, <2>2
<1>9. CASE Track \/ Submit
  <2>1. /\ UNCHANGED <<cbState, forkchoice, cached, reth>>
        /\ \/ execNext' = execNext /\ submitted' = submitted
           \/ execNext' = execNext + 1 /\ submitted' \subseteq submitted \cup {execNext}
    BY <1>9 DEF Track, Submit, NextBlock
  <2>2. submitted' \subseteq 1 .. execNext' - 1
    <3>1. CASE execNext' = execNext /\ submitted' = submitted
      BY <1>2, <3>1
    <3>2. CASE execNext' = execNext + 1 /\ submitted' \subseteq submitted \cup {execNext}
      BY <1>2, <1>3, <3>2
    <3>3. QED BY <2>1, <3>1, <3>2
  <2>3. Copies' = Copies /\ Settled' = Settled
    BY <1>1, <2>1 DEF Copies, Settled
  <2>4. QED BY <1>1, <1>2, <2>1, <2>2, <2>3 DEF SoundKept
<1>10. QED BY <1>5, <1>6, <1>7, <1>8, <1>9 DEF Callback

LEMMA EventLoopSound ==
    ASSUME IInv, SoundKept, EventLoop
    PROVE  SoundKept'
<1>1. UNCHANGED <<appState, execNext, cbState, submitted>>
  <2>1. UNCHANGED <<appV, cbV>>
    BY DEF EventLoop, CheckExecuted, FirmRead, FirmUpdate, FirmCache, FirmStore
  <2>2. QED BY <2>1 DEF appV, cbV
<1>2. /\ {cbState.head, finState.head, forkchoice.head, reth.fc.head} \subseteq reth.known
      /\ finPc \in {"cache", "store"} => finState.finalized <= finState.head
      /\ \A s \in Copies : s.safe = s.head
      /\ \A s \in Settled : s.finalized <= s.head
    BY DEF SoundKept
<1>3. CASE CheckExecuted
  <2>1. /\ UNCHANGED <<finState, forkchoice, cached, reth>>
        /\ finPc' \in {"read", "idle"}
    BY <1>3 DEF CheckExecuted, Done
  <2>2. Copies' = Copies /\ Settled' = Settled
    BY <1>1, <2>1 DEF Copies, Settled
  <2>3. QED BY <1>1, <1>2, <2>1, <2>2, SoundMoves
<1>4. CASE FirmRead
  <2>1. /\ finPc' = "update" /\ finState' = WithFirm(forkchoice, Head(finalityRx))
        /\ UNCHANGED <<forkchoice, cached, reth>>
    BY <1>4 DEF FirmRead
  <2>2. finState'.head = forkchoice.head /\ finState'.safe = forkchoice.safe
    BY <2>1, LoopBefore DEF WithFirm, ForkchoiceStates
  <2>3. Copies' \subseteq Copies \cup {finState'} /\ Settled' = Settled
    BY <1>1, <2>1 DEF Copies, Settled
  <2>4. forkchoice \in Copies
    BY DEF Copies
  <2>5. \A c \in Copies' : c.safe = c.head
    BY <1>2, <2>2, <2>3, <2>4
  <2>6. QED BY <1>1, <1>2, <2>1, <2>2, <2>3, <2>5 DEF SoundKept
<1>5. CASE FirmUpdate
  <2>1. /\ UNCHANGED <<finState, forkchoice, cached>>
        /\ UpdateSucceeds(finState) \/ UpdateFails(finState)
        /\ finPc' = "idle" \/ UpdateSucceeds(finState)
    BY <1>5 DEF FirmUpdate, Done
  <2>2. /\ reth'.known = reth.known
        /\ reth'.fc # reth.fc => reth'.fc = finState /\ finState.finalized <= finState.head
        /\ UpdateSucceeds(finState) => finState.finalized <= finState.head
    BY <1>2, <2>1, UpdateSound, LoopBefore DEF IInv
  <2>3. Copies' \subseteq Copies
    BY <1>1, <2>1, <2>2 DEF Copies
  <2>4. \A c \in Copies' : c.safe = c.head
    BY <1>2, <2>3
  <2>5. \/ Settled' \subseteq Settled
        \/ Settled' \subseteq Settled \cup {finState} /\ finState.finalized <= finState.head
    BY <1>1, <2>1, <2>2 DEF Settled
  <2>6. \A c \in Settled' : c.finalized <= c.head
    BY <1>2, <2>5
  <2>7. finPc' \in {"cache", "store"} => finState'.finalized <= finState'.head
    BY <2>1, <2>2
  <2>8. {cbState'.head, finState'.head, forkchoice'.head, reth'.fc.head} \subseteq reth'.known
    BY <1>1, <1>2, <2>1, <2>2
  <2>9. QED BY <1>1, <2>4, <2>6, <2>7, <2>8 DEF SoundKept
<1>6. CASE FirmCache \/ FirmStore
  <2>1. /\ finState.finalized <= finState.head
        /\ UNCHANGED <<finState, reth>>
        /\ cached' \in {cached, finState} /\ forkchoice' \in {forkchoice, finState}
    BY <1>2, <1>6 DEF FirmCache, FirmStore
  <2>2. Copies' \subseteq Copies /\ Settled' \subseteq Settled \cup {finState}
    BY <1>1, <2>1 DEF Copies, Settled
  <2>3. \A c \in Copies' : c.safe = c.head
    BY <1>2, <2>2
  <2>4. \A c \in Settled' : c.finalized <= c.head
    BY <1>2, <2>1, <2>2
  <2>5. QED BY <1>1, <1>2, <2>1, <2>3, <2>4 DEF SoundKept
<1>7. QED BY <1>3, <1>4, <1>5, <1>6 DEF EventLoop

LEMMA NextSound ==
    ASSUME IInv, SoundKept, [Next]_vars
    PROVE  SoundKept'
<1>1. CASE UNCHANGED <<appState, execNext, cbState, submitted, finPc, finState,
                       forkchoice, cached, reth>>
  <2>1. Copies' = Copies /\ Settled' = Settled
    BY <1>1 DEF Copies, Settled
  <2>2. QED BY <1>1, <2>1 DEF SoundKept
<1>2. CASE Application \/ Callback \/ EventLoop
    BY <1>2, ApplicationSound, CallbackSound, EventLoopSound
<1>3. QED BY <1>1, <1>2 DEF Next, Confirm, vars, appV, cbV, finV

\* Whatever calls fail and in whatever order confirmations come, the fork
\* choice of the callback (update_fork_choice_soft), of the event loop
\* (update_fork_choice_firm), of ExecutionClient and of reth is one that reth
\* accepts: FINALIZED is an ancestor of HEAD and both are in its tree.
THEOREM SoundTheorem == Spec => []ForkchoiceSound
<1>1. Init => SoundKept
  <2> SUFFICES ASSUME Init PROVE SoundKept
    OBVIOUS
  <2>1. \A s \in Copies : s = GenesisState
    BY DEF Init, Copies
  <2>2. Settled \subseteq Copies
    BY DEF Settled, Copies
  <2>3. GenesisState.head = 0 /\ GenesisState.safe = 0 /\ GenesisState.finalized = 0
    BY DEF GenesisState, State
  <2>4. QED BY <2>1, <2>2, <2>3 DEF Init, SoundKept
<1>2. IInv /\ SoundKept /\ [Next]_vars => SoundKept'
    BY NextSound
<1>3. IInv /\ SoundKept => ForkchoiceSound
  <2> SUFFICES ASSUME IInv, SoundKept PROVE ForkchoiceSound
    OBVIOUS
  <2>1. \A s \in {forkchoice, cached, reth.fc} : s.safe = s.head /\ s.finalized <= s.head
    BY DEF SoundKept, Copies, Settled
  <2>2. \A s \in {forkchoice, reth.fc} : s.head \in reth.known
    BY DEF SoundKept
  <2>3. \A s \in {forkchoice, reth.fc} : s.finalized \in reth.known
    BY DEF IInv, Tree, FinalizedWasConfirmed, Copies
  <2>4. appState.finalized <= appState.head /\ appState.safe = appState.head
    BY DEF SoundKept, Copies, Settled
  <2>5. cbState.finalized <= cbState.head /\ cbState.safe = cbState.head
    BY DEF SoundKept, Copies, Settled
  <2>6. appState.head \in Nat /\ cbState.head \in Nat
    BY CallbackBefore DEF ForkchoiceStates, Heights
  <2>7. Consistent(appState) /\ Consistent(cbState)
    BY <2>4, <2>5, <2>6 DEF Consistent
  <2>8. QED BY <2>1, <2>2, <2>3, <2>7 DEF ForkchoiceSound
<1>4. QED BY <1>1, <1>2, <1>3, Invariance, PTL DEF Spec

=============================================================================
