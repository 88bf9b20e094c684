-------------------------- MODULE ApplicationProofs --------------------------
(***************************************************************************)
(* Theorems about Application, for every validator set, quorum, mailbox    *)
(* size, number of views and set of faults.  The inductive invariant is    *)
(* the conjunction of the invariants and one more: OneProposalPerHeight    *)
(* needs ProposalsRemembered (the guard of propose covers all blocks built *)
(* before) and LogMatchesState (a new block has the height the guard       *)
(* speaks of), and all of them need the types.  Three more invariants rest *)
(* on the types: what a mailbox asks to verify is the proposal of its own  *)
(* view (RInv), a view is asked for one block and gets one (AskInv), and   *)
(* what a mailbox asks to finalize is certified (CertifiedInv).            *)
(***************************************************************************)
EXTENDS Application, SequenceTheorems, FiniteSetTheorems, TLAPS

\* last_proposed_height remembers the highest block a validator has built,
\* so the guard of propose covers every block built before.
ProposalsRemembered ==
    \A b \in Blocks : blocks[b].height <= lastProposed[blocks[b].proposer]

IInv ==
    /\ TypeOK
    /\ BlocksHavePayloads
    /\ LogMatchesState
    /\ ProposalsRemembered
    /\ OneProposalPerHeight

USE DEF Genesis, NullDigest

----------------------------------------------------------------------------
(* Lemmas about the definitions                                            *)

\* Taking the oldest message leaves mailboxes of messages, and the message
\* taken is one.
LEMMA TakesMessage ==
    ASSUME TypeOK, NEW v \in Validators, NEW type, Takes(v, type)
    PROVE  /\ Head(inbox[v]) \in Messages
           /\ inbox' \in [Validators -> Seq(Messages)]
<1>1. inbox \in [Validators -> Seq(Messages)] /\ inbox[v] # <<>>
    BY DEF TypeOK, Takes
<1>2. Head(inbox[v]) \in Messages /\ Tail(inbox[v]) \in Seq(Messages)
    BY <1>1, HeadTailProperties
<1>3. inbox' = [inbox EXCEPT ![v] = Tail(inbox[v])]
    BY DEF Takes
<1>4. QED BY <1>1, <1>2, <1>3

\* A delivered message leaves mailboxes of messages.
LEMMA SendsMessage ==
    ASSUME TypeOK, NEW v \in Validators, NEW m \in Messages, TrySend(v, m)
    PROVE  inbox' \in [Validators -> Seq(Messages)]
<1>1. inbox \in [Validators -> Seq(Messages)]
    BY DEF TypeOK
<1>2. Append(inbox[v], m) \in Seq(Messages)
    BY <1>1, AppendProperties
<1>3. QED BY <1>1, <1>2 DEF TrySend

\* A new block leaves every earlier one as it is.
LEMMA BlocksGrow ==
    ASSUME TypeOK, NEW r \in [height : Nat, parent : Nat, proposer : Validators],
           blocks' = Append(blocks, r)
    PROVE  /\ blocks' \in Seq([height : Nat, parent : Nat, proposer : Validators])
           /\ Len(blocks) \in Nat
           /\ Blocks' = Blocks \cup {Len(blocks) + 1}
           /\ \A b \in Blocks : blocks'[b] = blocks[b]
           /\ blocks'[Len(blocks) + 1] = r
           /\ \A b \in Blocks \cup {Genesis} : HeightOf(b)' = HeightOf(b)
<1>1. blocks \in Seq([height : Nat, parent : Nat, proposer : Validators])
    BY DEF TypeOK
<1>2. /\ blocks' \in Seq([height : Nat, parent : Nat, proposer : Validators])
      /\ Len(blocks') = Len(blocks) + 1
      /\ \A i \in 1 .. Len(blocks) : blocks'[i] = blocks[i]
      /\ blocks'[Len(blocks) + 1] = r
    BY <1>1, AppendProperties
<1>3. Len(blocks) \in Nat
    BY <1>1, LenProperties
<1>4. Blocks' = Blocks \cup {Len(blocks) + 1}
    BY <1>2, <1>3 DEF Blocks
<1>5. \A b \in Blocks : blocks'[b] = blocks[b]
    BY <1>2 DEF Blocks
<1>6. \A b \in Blocks \cup {Genesis} : HeightOf(b)' = HeightOf(b)
    BY <1>5, <1>3 DEF HeightOf, Blocks
<1>7. QED BY <1>2, <1>3, <1>4, <1>5, <1>6

\* Heights are natural numbers.
LEMMA HeightIsNat ==
    ASSUME TypeOK, NEW b \in Blocks \cup {Genesis}
    PROVE  HeightOf(b) \in Nat
<1>1. blocks \in Seq([height : Nat, parent : Nat, proposer : Validators])
    BY DEF TypeOK
<1>2. \A i \in 1 .. Len(blocks) : blocks[i] \in [height : Nat, parent : Nat, proposer : Validators]
    BY <1>1, ElementOfSeq
<1>3. QED BY <1>2 DEF HeightOf, Blocks

\* A block of a relayed message or of a request is a position of "blocks".
LEMMA MessageDigest ==
    ASSUME NEW m \in Messages
    PROVE  /\ m.digest \in Digests \cup {Genesis}
           /\ m.view \in Nat
           /\ m.type = "receive" => m.digest \in Blocks
BY DEF Messages, Requests, Digests

\* The leader's reply keeps the type of the round.
LEMMA ReplyTyped ==
    ASSUME TypeOK, NEW v \in Validators, NEW m, NEW d \in Digests',
           Digests \subseteq Digests', ReplyPropose(v, m, d)
    PROVE  round' \in [view : Nat, status : {"idle", "asked", "proposed"},
                       digest : Digests', asked : SUBSET Validators,
                       votes : SUBSET Validators]
BY DEF TypeOK, ReplyPropose

----------------------------------------------------------------------------
(* The inductive invariant                                                 *)

\* Genesis: height 1, an empty log and no block built.
LEMMA InitIInv == Init => IInv
<1> SUFFICES ASSUME Init PROVE IInv
    OBVIOUS
<1>1. Blocks = {}
    BY DEF Init, Blocks
<1>2. TypeOK
  <2>1. Message("genesis", 0, Genesis) \in Messages
    BY DEF Message, Messages, Requests
  <2>2. round \in [view : Nat, status : {"idle", "asked", "proposed"},
                    digest : Digests, asked : SUBSET Validators,
                    votes : SUBSET Validators]
    BY DEF Init, IdleRound, Digests
  <2>3. relay \subseteq Validators \X Blocks
    BY DEF Init
  <2>4. QED BY <2>1, <2>2, <2>3 DEF Init, TypeOK
<1>3. BlocksHavePayloads
    BY DEF Init, BlocksHavePayloads
<1>4. LogMatchesState
    BY DEF Init, LogMatchesState
<1>5. ProposalsRemembered /\ OneProposalPerHeight
    BY <1>1 DEF ProposalsRemembered, OneProposalPerHeight
<1>6. QED BY <1>2, <1>3, <1>4, <1>5 DEF IInv

\* A step that builds and finalizes nothing keeps the three invariants about
\* heights.
LEMMA HeightsKept ==
    ASSUME IInv, UNCHANGED <<height, lastHash, lastProposed, finalizedLog, blocks>>
    PROVE  LogMatchesState' /\ ProposalsRemembered' /\ OneProposalPerHeight'
BY DEF IInv, LogMatchesState, ProposalsRemembered, OneProposalPerHeight,
       HeightOf, Blocks

\* The same for the pairing of blocks and payloads.
LEMMA PayloadsKept ==
    ASSUME IInv, UNCHANGED <<pending, payloads>>
    PROVE  BlocksHavePayloads'
BY DEF IInv, BlocksHavePayloads

\* Without a new block or notarization the types of messages, digests and
\* certificates are those of the state before.
LEMMA SameTypes ==
    ASSUME UNCHANGED blocks
    PROVE  Blocks' = Blocks /\ Digests' = Digests /\ Messages' = Messages
BY DEF Blocks, Digests, Messages

\* ProposeBlock is the step that builds: the new block has the height the
\* guard of propose speaks of, which is above every height built before.
LEMMA ProposeBlockIInv ==
    ASSUME IInv, NEW v \in Validators, ProposeBlock(v)
    PROVE  IInv'
<1> DEFINE b == Len(blocks) + 1
           r == [height |-> HeightOf(lastHash[v]) + 1, parent |-> lastHash[v],
                 proposer |-> v]
           Rec == [height : Nat, parent : Nat, proposer : Validators]
<1> USE DEF IInv
<1>1. HeightOf(lastHash[v]) \in Nat
    BY HeightIsNat DEF TypeOK
<1>2. r \in Rec
  <2>1. lastHash[v] \in Blocks \cup {Genesis} /\ Len(blocks) \in Nat
    BY LenProperties DEF TypeOK
  <2>2. lastHash[v] \in Nat
    BY <2>1 DEF Blocks
  <2>3. QED BY <1>1, <2>2
<1>3. blocks' = Append(blocks, r)
    BY DEF ProposeBlock
<1>4. /\ blocks' \in Seq(Rec)
      /\ Len(blocks) \in Nat
      /\ Blocks' = Blocks \cup {b}
      /\ \A c \in Blocks : blocks'[c] = blocks[c]
      /\ blocks'[b] = r
      /\ \A c \in Blocks \cup {Genesis} : HeightOf(c)' = HeightOf(c)
    BY <1>2, <1>3, BlocksGrow
<1> HIDE DEF r
<1>5. TypeOK'
  <2>1. /\ height' = height /\ lastHash' = lastHash /\ finalizedLog' = finalizedLog
        /\ notarized' = notarized /\ certs' = certs /\ reported' = reported
        /\ Takes(v, "propose")
        /\ ReplyPropose(v, Head(inbox[v]), b)
    BY DEF ProposeBlock
  <2>2. Blocks \subseteq Blocks' /\ Digests \subseteq Digests' /\ b \in Blocks'
        /\ b \in Digests'
    BY <1>4 DEF Digests
  <2>3. Messages \subseteq Messages'
    BY <2>2 DEF Messages
  <2>4. inbox' \in [Validators -> Seq(Messages')]
    BY <2>1, <2>3, TakesMessage, SeqMonotonic
  <2>5. round' \in [view : Nat, status : {"idle", "asked", "proposed"},
                    digest : Digests', asked : SUBSET Validators,
                    votes : SUBSET Validators]
    BY <2>1, <2>2, ReplyTyped
  <2>6. /\ pending' \in [Validators -> SUBSET Blocks']
        /\ payloads' \in [Validators -> SUBSET Blocks']
        /\ verified' \in [Validators -> SUBSET (Blocks' \cup {Genesis})]
        /\ relay' \subseteq Validators \X Blocks'
    BY <2>2 DEF TypeOK, ProposeBlock
  <2>7. finalizedLog' \in [Validators -> Seq(Blocks')]
    BY <2>1, <2>2, SeqMonotonic DEF TypeOK
  <2>8. notarized' \in Seq(Digests')
    BY <2>1, <2>2, SeqMonotonic DEF TypeOK
  <2>9. lastProposed' \in [Validators -> Nat]
    BY DEF TypeOK, ProposeBlock, ProposedHeight
  <2>10. /\ height' \in [Validators -> Nat]
         /\ lastHash' \in [Validators -> Blocks' \cup {Genesis}]
         /\ certs' \in Seq(1 .. Len(notarized'))
         /\ reported' \in [Validators -> Nat]
    BY <2>1, <2>2 DEF TypeOK
  <2>11. QED BY <1>4, <2>4, <2>5, <2>6, <2>7, <2>8, <2>9, <2>10 DEF TypeOK
<1>6. BlocksHavePayloads'
    BY DEF BlocksHavePayloads, ProposeBlock, TypeOK
<1>7. HeightOf(lastHash[v]) + 1 = height[v] /\ height[v] > 0
  <2>1. finalizedLog[v] \in Seq(Blocks)
    BY DEF TypeOK
  <2>2. Len(finalizedLog[v]) \in Nat
        /\ (finalizedLog[v] # <<>> => Len(finalizedLog[v]) \in Nat \ {0})
        /\ (finalizedLog[v] = <<>> => Len(finalizedLog[v]) = 0)
    BY <2>1, LenProperties, EmptySeq
  <2>3. CASE finalizedLog[v] = <<>>
    BY <2>2, <2>3 DEF LogMatchesState, HeightOf, Blocks
  <2>4. CASE finalizedLog[v] # <<>>
    BY <2>2, <2>4 DEF LogMatchesState
  <2>5. QED BY <2>3, <2>4
<1>8. LogMatchesState'
  <2>1. \A w \in Validators : \A i \in 1 .. Len(finalizedLog[w]) :
            HeightOf(finalizedLog[w][i])' = HeightOf(finalizedLog[w][i])
    BY <1>4, ElementOfSeq DEF TypeOK, ProposeBlock
  <2>2. QED BY <2>1 DEF LogMatchesState, ProposeBlock
<1>9. /\ r.height = height[v] /\ r.proposer = v
      /\ \A c \in Blocks : blocks[c].height \in Nat /\ blocks[c].proposer \in Validators
      /\ height[v] \in Nat /\ lastProposed[v] \in Nat
      /\ lastProposed[v] = 0 \/ lastProposed[v] < height[v]
      /\ lastProposed' = [lastProposed EXCEPT ![v] = height[v]]
  <2>1. \A c \in Blocks : blocks[c] \in Rec
    BY ElementOfSeq DEF TypeOK, Blocks
  <2>2. ~AlreadyProposed(v) /\ lastProposed' = [lastProposed EXCEPT ![v] = height[v]]
    BY DEF ProposeBlock, ProposedHeight
  <2>3. r.height = height[v] /\ r.proposer = v
    BY <1>7 DEF r
  <2>4. \A c \in Blocks : blocks[c].height \in Nat /\ blocks[c].proposer \in Validators
    BY <2>1
  <2>5. height[v] \in Nat /\ lastProposed[v] \in Nat
    BY DEF TypeOK
  <2>6. QED BY <2>2, <2>3, <2>4, <2>5 DEF AlreadyProposed
<1> HIDE DEF b, Rec
<1>10. \A c \in Blocks : blocks[c].proposer = v => blocks[c].height <= lastProposed[v]
    BY DEF ProposalsRemembered
<1>11. ProposalsRemembered'
  <2> SUFFICES ASSUME NEW c \in Blocks'
               PROVE  blocks'[c].height <= lastProposed'[blocks'[c].proposer]
    BY DEF ProposalsRemembered
  <2>1. /\ lastProposed'[v] = height[v]
        /\ \A w \in Validators \ {v} : lastProposed'[w] = lastProposed[w]
    BY <1>9 DEF TypeOK
  <2>2. CASE c = b
    BY <1>4, <1>9, <2>1, <2>2
  <2>3. CASE c \in Blocks /\ blocks[c].proposer = v
    <3>1. blocks[c].height <= lastProposed[v]
      BY <1>10, <2>3
    <3>2. blocks[c].height <= height[v]
      BY <1>7, <1>9, <2>3, <3>1
    <3>3. QED BY <1>4, <2>1, <2>3, <3>2
  <2>4. CASE c \in Blocks /\ blocks[c].proposer # v
    <3>1. blocks[c].proposer \in Validators \ {v}
      BY <1>9, <2>4
    <3>2. blocks[c].height <= lastProposed[blocks[c].proposer]
      BY <2>4 DEF ProposalsRemembered
    <3>3. QED BY <1>4, <2>1, <2>4, <3>1, <3>2
  <2>5. QED BY <1>4, <2>2, <2>3, <2>4
<1>12. OneProposalPerHeight'
  <2>1. \A c \in Blocks : blocks[c].proposer = v => blocks[c].height < height[v]
    BY <1>7, <1>9, <1>10
  <2>2. \A c \in Blocks : blocks[c].proposer = v => blocks[c].height # height[v]
    BY <1>9, <2>1
  <2> SUFFICES ASSUME NEW c \in Blocks', NEW d \in Blocks',
                      blocks'[c].proposer = blocks'[d].proposer,
                      blocks'[c].height = blocks'[d].height
               PROVE  c = d
    BY DEF OneProposalPerHeight
  <2>3. CASE c \in Blocks /\ d \in Blocks
    BY <1>4, <2>3 DEF OneProposalPerHeight
  <2>4. CASE c = b /\ d \in Blocks
    BY <1>4, <1>9, <2>2, <2>4
  <2>5. CASE c \in Blocks /\ d = b
    BY <1>4, <1>9, <2>2, <2>5
  <2>6. QED BY <1>4, <2>3, <2>4, <2>5
<1>13. QED BY <1>5, <1>6, <1>8, <1>11, <1>12

\* FinalizeBlock is the step that moves on: the block has the expected height,
\* so the log grows by the one height that is missing.
LEMMA FinalizeBlockIInv ==
    ASSUME IInv, NEW v \in Validators, FinalizeBlock(v)
    PROVE  IInv'
<1> DEFINE b == Head(inbox[v]).digest
           log == finalizedLog[v]
<1> USE DEF IInv
<1>1. /\ b \in Blocks
      /\ Takes(v, "finalize")
      /\ HeightOf(b) = height[v]
      /\ height' = [height EXCEPT ![v] = HeightOf(b) + 1]
      /\ lastHash' = [lastHash EXCEPT ![v] = b]
      /\ finalizedLog' = [finalizedLog EXCEPT ![v] = Append(log, b)]
      /\ UNCHANGED <<verified, lastProposed, blocks, relay, engineVars>>
    BY DEF FinalizeBlock, ExpectedHeight, TypeOK
<1> HIDE DEF b
<1>2. HeightOf(b) \in Nat
    BY <1>1, HeightIsNat
<1>3. Blocks' = Blocks /\ Digests' = Digests /\ Messages' = Messages
    BY <1>1, SameTypes
<1>4. /\ log \in Seq(Blocks)
      /\ Append(log, b) \in Seq(Blocks)
      /\ Append(log, b) # <<>>
      /\ Len(log) \in Nat
      /\ Len(Append(log, b)) = Len(log) + 1
      /\ \A i \in 1 .. Len(log) : Append(log, b)[i] = log[i]
      /\ Append(log, b)[Len(log) + 1] = b
  <2>1. log \in Seq(Blocks)
    BY DEF TypeOK
  <2>2. QED BY <1>1, <2>1, AppendProperties, LenProperties
<1>5. TypeOK'
  <2>1. inbox' \in [Validators -> Seq(Messages)]
    BY <1>1, TakesMessage
  <2>2. /\ pending' \in [Validators -> SUBSET Blocks]
        /\ payloads' \in [Validators -> SUBSET Blocks]
    BY DEF FinalizeBlock, TypeOK
  <2>3. /\ height' \in [Validators -> Nat]
        /\ lastHash' \in [Validators -> Blocks \cup {Genesis}]
        /\ finalizedLog' \in [Validators -> Seq(Blocks)]
    BY <1>1, <1>2, <1>4 DEF TypeOK
  <2>4. QED BY <1>1, <1>3, <2>1, <2>2, <2>3 DEF TypeOK, engineVars
<1>6. BlocksHavePayloads'
    BY DEF FinalizeBlock, BlocksHavePayloads, TypeOK
<1>7. LogMatchesState'
  <2> SUFFICES ASSUME NEW w \in Validators
               PROVE  /\ height'[w] = Len(finalizedLog'[w]) + 1
                      /\ \A i \in 1 .. Len(finalizedLog'[w]) :
                            HeightOf(finalizedLog'[w][i]) = i
                      /\ lastHash'[w] = IF finalizedLog'[w] = <<>> THEN Genesis
                                        ELSE finalizedLog'[w][Len(finalizedLog'[w])]
    BY <1>1 DEF LogMatchesState, HeightOf, Blocks
  <2>1. CASE w # v
    BY <1>1, <2>1 DEF LogMatchesState, TypeOK
  <2>2. CASE w = v
    <3>1. finalizedLog'[v] = Append(log, b) /\ height'[v] = HeightOf(b) + 1
          /\ lastHash'[v] = b
      BY <1>1 DEF TypeOK
    <3>2. HeightOf(b) = Len(log) + 1
      BY <1>1 DEF LogMatchesState
    <3>3. \A i \in 1 .. Len(log) + 1 : HeightOf(Append(log, b)[i]) = i
      BY <1>4, <3>2 DEF LogMatchesState
    <3>4. QED BY <1>4, <2>2, <3>1, <3>2, <3>3
  <2>3. QED BY <2>1, <2>2
<1>8. ProposalsRemembered' /\ OneProposalPerHeight'
    BY <1>1 DEF ProposalsRemembered, OneProposalPerHeight, Blocks
<1>9. QED BY <1>5, <1>6, <1>7, <1>8

\* Every step keeps the inductive invariant.
LEMMA NextIInv ==
    ASSUME IInv, [Next]_vars
    PROVE  IInv'
<1> USE DEF IInv
<1>1. ASSUME NEW v \in Validators, HandleGenesis(v)
      PROVE  IInv'
  <2>1. TypeOK'
    BY <1>1, SameTypes, TakesMessage DEF HandleGenesis, TypeOK, engineVars
  <2>2. QED BY <1>1, <2>1, HeightsKept, PayloadsKept DEF HandleGenesis
<1>2. ASSUME NEW v \in Validators, ProposeNull(v)
      PROVE  IInv'
  <2>1. round' \in [view : Nat, status : {"idle", "asked", "proposed"},
                    digest : Digests', asked : SUBSET Validators,
                    votes : SUBSET Validators]
    BY <1>2, SameTypes, ReplyTyped DEF ProposeNull, Digests
  <2>2. TypeOK'
    BY <1>2, <2>1, SameTypes, TakesMessage DEF ProposeNull, TypeOK, appVars
  <2>3. QED BY <1>2, <2>2, HeightsKept, PayloadsKept DEF ProposeNull, appVars
<1>3. ASSUME NEW v \in Validators, ProposeBlock(v)
      PROVE  IInv'
    BY <1>3, ProposeBlockIInv
<1>4. ASSUME NEW v \in Validators, HandleVerify(v)
      PROVE  IInv'
  <2>1. Head(inbox[v]) \in Messages
    BY <1>4, TakesMessage DEF HandleVerify
  <2>2. verified' \in [Validators -> SUBSET (Blocks \cup {Genesis})]
    BY <1>4, <2>1, MessageDigest DEF HandleVerify, Accepts, TypeOK, Digests
  <2>3. round' \in [view : Nat, status : {"idle", "asked", "proposed"},
                    digest : Digests, asked : SUBSET Validators,
                    votes : SUBSET Validators]
    BY <1>4 DEF HandleVerify, TypeOK
  <2>4. TypeOK'
    BY <1>4, <2>2, <2>3, SameTypes, TakesMessage DEF HandleVerify, TypeOK
  <2>5. QED BY <1>4, <2>4, HeightsKept, PayloadsKept DEF HandleVerify
<1>5. ASSUME NEW v \in Validators, FinalizeBlock(v)
      PROVE  IInv'
    BY <1>5, FinalizeBlockIInv
<1>6. ASSUME NEW v \in Validators, IgnoreFinalization(v)
      PROVE  IInv'
  <2>1. TypeOK'
    BY <1>6, SameTypes, TakesMessage DEF IgnoreFinalization, TypeOK, engineVars
  <2>2. BlocksHavePayloads'
    BY <1>6 DEF IgnoreFinalization, BlocksHavePayloads, TypeOK
  <2>3. QED BY <1>6, <2>1, <2>2, HeightsKept DEF IgnoreFinalization
<1>7. ASSUME NEW v \in Validators, HandleReceive(v)
      PROVE  IInv'
  <2>1. Head(inbox[v]).digest \in Blocks
    BY <1>7, TakesMessage, MessageDigest DEF HandleReceive, Takes
  <2>2. \/ UNCHANGED <<pending, payloads, verified>>
        \/ \E imported \in BOOLEAN : StoreBlock(v, Head(inbox[v]).digest, imported)
    BY <1>7 DEF HandleReceive
  <2>3. /\ pending' \in [Validators -> SUBSET Blocks]
        /\ payloads' \in [Validators -> SUBSET Blocks]
        /\ verified' \in [Validators -> SUBSET (Blocks \cup {Genesis})]
        /\ BlocksHavePayloads'
    <3>1. CASE UNCHANGED <<pending, payloads, verified>>
      BY <3>1, PayloadsKept DEF TypeOK
    <3>2. ASSUME NEW imported \in BOOLEAN,
                 StoreBlock(v, Head(inbox[v]).digest, imported)
          PROVE  /\ pending' \in [Validators -> SUBSET Blocks]
                 /\ payloads' \in [Validators -> SUBSET Blocks]
                 /\ verified' \in [Validators -> SUBSET (Blocks \cup {Genesis})]
                 /\ BlocksHavePayloads'
      BY <2>1, <3>2 DEF StoreBlock, TypeOK, BlocksHavePayloads
    <3>3. QED BY <2>2, <3>1, <3>2
  <2>4. TypeOK'
    BY <1>7, <2>3, SameTypes, TakesMessage DEF HandleReceive, TypeOK, engineVars
  <2>5. QED BY <1>7, <2>3, <2>4, HeightsKept DEF HandleReceive
<1>8. ASSUME NEW v \in Validators, NEW b \in Blocks, DeliverBlock(v, b)
      PROVE  IInv'
  <2>1. Message("receive", 0, b) \in Messages
    BY DEF Message, Messages
  <2>2. TypeOK'
    BY <1>8, <2>1, SameTypes, SendsMessage DEF DeliverBlock, TypeOK, appVars, engineVars
  <2>3. QED BY <1>8, <2>2, HeightsKept, PayloadsKept DEF DeliverBlock, appVars
<1>9. ASSUME NEW v \in Validators, NEW b \in Blocks, LoseBlock(v, b)
      PROVE  IInv'
  <2>1. TypeOK'
    BY <1>9, SameTypes DEF LoseBlock, TypeOK, appVars, engineVars
  <2>2. QED BY <1>9, <2>1, HeightsKept, PayloadsKept DEF LoseBlock, appVars
<1>10. ASSUME NEW v \in Validators, AskPropose(v) \/ AskVerify(v)
       PROVE  IInv'
  <2>1. /\ Message("propose", round.view, NullDigest) \in Messages
        /\ Message("verify", round.view, round.digest) \in Messages
    BY DEF Message, Messages, Requests, Digests, TypeOK
  <2>2. inbox' \in [Validators -> Seq(Messages)]
    BY <1>10, <2>1, SendsMessage DEF AskPropose, AskVerify
  <2>3. round' \in [view : Nat, status : {"idle", "asked", "proposed"},
                    digest : Digests, asked : SUBSET Validators,
                    votes : SUBSET Validators]
    <3>1. CASE AskPropose(v)
      BY <3>1 DEF AskPropose, TypeOK
    <3>2. CASE AskVerify(v)
      BY <3>2 DEF AskVerify, TypeOK
    <3>3. QED BY <1>10, <3>1, <3>2
  <2>4. TypeOK'
    BY <1>10, <2>2, <2>3, SameTypes DEF AskPropose, AskVerify, TypeOK, appVars
  <2>5. QED BY <1>10, <2>4, HeightsKept, PayloadsKept
            DEF AskPropose, AskVerify, appVars
<1>11. CASE Notarize
  <2>1. /\ notarized' = Append(notarized, round.digest)
        /\ notarized' \in Seq(Digests)
        /\ 1 .. Len(notarized) \subseteq 1 .. Len(notarized')
    BY <1>11, AppendProperties, LenProperties DEF Notarize, TypeOK
  <2>2. certs' \in Seq(1 .. Len(notarized'))
    BY <1>11, <2>1, SeqMonotonic DEF Notarize, TypeOK
  <2>3. round' \in [view : Nat, status : {"idle", "asked", "proposed"},
                    digest : Digests, asked : SUBSET Validators,
                    votes : SUBSET Validators]
    BY <1>11 DEF Notarize, IdleRound, TypeOK, Digests
  <2>4. TypeOK'
    BY <1>11, <2>1, <2>2, <2>3, SameTypes DEF Notarize, TypeOK, appVars
  <2>5. QED BY <1>11, <2>4, HeightsKept, PayloadsKept DEF Notarize, appVars
<1>12. CASE Nullify
  <2>1. round' \in [view : Nat, status : {"idle", "asked", "proposed"},
                    digest : Digests, asked : SUBSET Validators,
                    votes : SUBSET Validators]
    BY <1>12 DEF Nullify, IdleRound, TypeOK, Digests
  <2>2. TypeOK'
    BY <1>12, <2>1, SameTypes DEF Nullify, TypeOK, appVars
  <2>3. QED BY <1>12, <2>2, HeightsKept, PayloadsKept DEF Nullify, appVars
<1>13. ASSUME NEW n \in 1 .. Len(notarized), Certify(n)
       PROVE  IInv'
  <2>1. certs' \in Seq(1 .. Len(notarized))
    BY <1>13, AppendProperties DEF Certify, TypeOK
  <2>2. TypeOK'
    BY <1>13, <2>1, SameTypes DEF Certify, TypeOK, appVars
  <2>3. QED BY <1>13, <2>2, HeightsKept, PayloadsKept DEF Certify, appVars
<1>14. ASSUME NEW v \in Validators, Report(v)
       PROVE  IInv'
  <2>1. PICK k \in reported[v] + 1 .. Len(certs) :
            /\ reported' = [reported EXCEPT ![v] = k]
            /\ TrySend(v, Message("finalize", 0, notarized[certs[k]]))
            /\ UNCHANGED <<appVars, blocks, relay, round, notarized, certs>>
    BY <1>14 DEF Report
  <2>2. reported[v] \in Nat /\ Len(certs) \in Nat
    BY LenProperties DEF TypeOK
  <2>3. k \in Nat /\ k \in 1 .. Len(certs)
    BY <2>2
  <2>4. notarized[certs[k]] \in Digests
    BY <2>3, ElementOfSeq DEF TypeOK
  <2>5. Message("finalize", 0, notarized[certs[k]]) \in Messages
    BY <2>4 DEF Message, Messages, Requests
  <2>6. inbox' \in [Validators -> Seq(Messages)]
    BY <2>1, <2>5, SendsMessage
  <2>7. TypeOK'
    BY <2>1, <2>3, <2>6, SameTypes DEF TypeOK, appVars
  <2>8. QED BY <2>1, <2>7, HeightsKept, PayloadsKept DEF appVars
<1>15. CASE UNCHANGED vars
  <2>1. TypeOK'
    BY <1>15, SameTypes DEF vars, appVars, engineVars, TypeOK
  <2>2. QED BY <1>15, <2>1, HeightsKept, PayloadsKept DEF vars, appVars
<1>16. QED BY <1>1, <1>2, <1>3, <1>4, <1>5, <1>6, <1>7, <1>8, <1>9, <1>10, <1>11,
              <1>12, <1>13, <1>14, <1>15 DEF Next, Handle, Relay, Engine

----------------------------------------------------------------------------
(* The theorems                                                            *)

\* The inductive invariant holds in every reachable state.
THEOREM Invariance == Spec => []IInv
<1>1. Init => IInv
    BY InitIInv
<1>2. IInv /\ [Next]_vars => IInv'
    BY NextIInv
<1>3. QED BY <1>1, <1>2, PTL DEF Spec

\* Every variable keeps its type, whatever the environment drops or delays.
THEOREM TypeCorrect == Spec => []TypeOK
<1>1. IInv => TypeOK
    BY DEF IInv
<1>2. QED BY <1>1, Invariance, PTL

\* pending_blocks and pending_payloads never disagree (application.rs
\* complete_proposal, finalize, cleanup_stale_blocks, handle_receive_block).
THEOREM PayloadsTheorem == Spec => []BlocksHavePayloads
<1>1. IInv => BlocksHavePayloads
    BY DEF IInv
<1>2. QED BY <1>1, Invariance, PTL

\* finalize (application.rs) finalizes heights 1, 2, 3, ... without a gap or a
\* repetition, under lost blocks and lost, late or skipped certificates.
THEOREM FinalizedLogTheorem == Spec => []LogMatchesState
<1>1. IInv => LogMatchesState
    BY DEF IInv
<1>2. QED BY <1>1, Invariance, PTL

\* last_proposed_height covers every block a validator has built.
THEOREM RememberedTheorem == Spec => []ProposalsRemembered
<1>1. IInv => ProposalsRemembered
    BY DEF IInv
<1>2. QED BY <1>1, Invariance, PTL

\* The guard of propose (already_proposed) excludes two blocks of a validator
\* at one height, in however many views it leads.
THEOREM OneProposalTheorem == Spec => []OneProposalPerHeight
<1>1. IInv => OneProposalPerHeight
    BY DEF IInv
<1>2. QED BY <1>1, Invariance, PTL

----------------------------------------------------------------------------
(* The null digest.  A request to verify is about the proposal of its view *)
(* and an application votes for no other, so a null proposal keeps the one *)
(* vote of its leader; a quorum is at least two.                           *)

Queued(v) == {inbox[v][i] : i \in 1 .. Len(inbox[v])}

\* Requests to verify speak of the current view or of one that is over.
VerifyIsOfRound ==
    \A v \in Validators : \A m \in Queued(v) :
        m.type = "verify" =>
            /\ m.view <= round.view
            /\ m.view = round.view =>
                   round.status = "proposed" /\ m.digest = round.digest

NullHasOneVote ==
    round.status = "proposed" /\ round.digest = NullDigest =>
        \E v \in Validators : round.votes = {v}

NullNotarized == \A n \in DOMAIN notarized : notarized[n] = NullDigest => Quorum = 1

RInv == VerifyIsOfRound /\ NullHasOneVote /\ NullNotarized

\* Taking a message queues nothing.
LEMMA TakesQueued ==
    ASSUME TypeOK, NEW v \in Validators, NEW type, Takes(v, type)
    PROVE  /\ Head(inbox[v]) \in Queued(v)
           /\ \A w \in Validators : Queued(w)' \subseteq Queued(w)
<1>1. /\ inbox \in [Validators -> Seq(Messages)]
      /\ inbox[v] # <<>>
      /\ inbox' = [inbox EXCEPT ![v] = Tail(inbox[v])]
    BY DEF TypeOK, Takes
<1>2. /\ Len(inbox[v]) \in Nat \ {0}
      /\ Head(inbox[v]) = inbox[v][1]
      /\ Len(Tail(inbox[v])) = Len(inbox[v]) - 1
      /\ \A i \in 1 .. Len(Tail(inbox[v])) : Tail(inbox[v])[i] = inbox[v][i + 1]
    BY <1>1, HeadTailProperties, EmptySeq
<1>3. Queued(v)' \subseteq Queued(v)
    BY <1>1, <1>2 DEF Queued
<1>4. \A w \in Validators \ {v} : Queued(w)' = Queued(w)
    BY <1>1 DEF Queued
<1>5. Head(inbox[v]) \in Queued(v)
    BY <1>2 DEF Queued
<1>6. QED BY <1>3, <1>4, <1>5

\* Sending a message queues no other.
LEMMA SendsQueued ==
    ASSUME TypeOK, NEW v \in Validators, NEW m \in Messages, TrySend(v, m)
    PROVE  \A w \in Validators : Queued(w)' \subseteq Queued(w) \cup {m}
<1>1. inbox \in [Validators -> Seq(Messages)]
    BY DEF TypeOK
<1>2. CASE inbox' = [inbox EXCEPT ![v] = Append(inbox[v], m)]
  <2>1. /\ Len(inbox[v]) \in Nat
        /\ Len(Append(inbox[v], m)) = Len(inbox[v]) + 1
        /\ \A i \in 1 .. Len(inbox[v]) : Append(inbox[v], m)[i] = inbox[v][i]
        /\ Append(inbox[v], m)[Len(inbox[v]) + 1] = m
    BY <1>1, AppendProperties, LenProperties
  <2>2. Queued(v)' \subseteq Queued(v) \cup {m}
    BY <1>1, <1>2, <2>1 DEF Queued
  <2>3. \A w \in Validators \ {v} : Queued(w)' = Queued(w)
    BY <1>1, <1>2 DEF Queued
  <2>4. QED BY <2>2, <2>3
<1>3. CASE UNCHANGED inbox
    BY <1>3 DEF Queued
<1>4. QED BY <1>2, <1>3 DEF TrySend

\* No request and no proposal at the start.
LEMMA InitRInv == Init => RInv
BY DEF Init, RInv, VerifyIsOfRound, NullHasOneVote, NullNotarized,
       Queued, IdleRound, Message

\* A step that leaves the round alone and asks nobody to verify.
LEMMA RoundKept ==
    ASSUME RInv, UNCHANGED <<round, notarized>>,
           \A w \in Validators : \A m \in Queued(w)' :
               m \in Queued(w) \/ m.type # "verify"
    PROVE  RInv'
<1>1. VerifyIsOfRound'
    BY DEF RInv, VerifyIsOfRound
<1>2. QED BY <1>1 DEF RInv, NullHasOneVote, NullNotarized

\* The end of a view leaves only requests of views that are over.
LEMMA ViewEnds ==
    ASSUME TypeOK, VerifyIsOfRound, round' = IdleRound(round.view + 1), inbox' = inbox
    PROVE  VerifyIsOfRound' /\ NullHasOneVote'
<1>1. /\ round.view \in Nat
      /\ round'.view = round.view + 1
      /\ round'.status = "idle"
    BY DEF TypeOK, IdleRound
<1>2. \A w \in Validators : \A m \in Queued(w) : m \in Messages
    BY ElementOfSeq DEF Queued, TypeOK
<1>3. \A w \in Validators : \A m \in Queued(w) :
          m.type = "verify" => m.view <= round.view /\ m.view \in Nat
    BY <1>2, MessageDigest DEF VerifyIsOfRound
<1>4. \A w \in Validators : Queued(w)' = Queued(w)
    BY DEF Queued
<1>5. VerifyIsOfRound'
    BY <1>1, <1>3, <1>4 DEF VerifyIsOfRound
<1>6. QED BY <1>1, <1>5 DEF NullHasOneVote

\* The leader's reply: the proposal it puts up has the leader's vote only, and
\* nobody was asked to verify in this view before.
LEMMA ReplyKeepsRInv ==
    ASSUME TypeOK, RInv, NEW v \in Validators, NEW m, NEW d,
           ReplyPropose(v, m, d), UNCHANGED notarized,
           \A w \in Validators : Queued(w)' \subseteq Queued(w)
    PROVE  RInv'
<1>1. CASE round' = round
    BY <1>1, RoundKept
<1>2. CASE /\ round.status = "asked"
           /\ round' = [round EXCEPT !.status = "proposed", !.digest = d, !.votes = {v}]
  <2>1. /\ round'.view = round.view
        /\ round'.votes = {v}
    BY <1>2 DEF TypeOK
  <2>2. VerifyIsOfRound'
    BY <1>2, <2>1 DEF RInv, VerifyIsOfRound
  <2>3. NullHasOneVote'
    BY <2>1 DEF NullHasOneVote
  <2>4. QED BY <2>2, <2>3 DEF RInv, NullNotarized
<1>3. QED BY <1>1, <1>2 DEF ReplyPropose

\* Every step keeps the invariant of the round.
LEMMA NextRInv ==
    ASSUME TypeOK, RInv, [Next]_vars
    PROVE  RInv'
<1>1. ASSUME NEW v \in Validators,
             \/ HandleGenesis(v) \/ FinalizeBlock(v)
             \/ IgnoreFinalization(v) \/ HandleReceive(v)
      PROVE  RInv'
  <2>1. UNCHANGED <<round, notarized>> /\ \E type : Takes(v, type)
    BY <1>1 DEF HandleGenesis, FinalizeBlock, IgnoreFinalization, HandleReceive, engineVars
  <2>2. QED BY <2>1, TakesQueued, RoundKept
<1>2. ASSUME NEW v \in Validators, ProposeNull(v) \/ ProposeBlock(v)
      PROVE  RInv'
  <2>1. /\ UNCHANGED notarized
        /\ Takes(v, "propose")
        /\ \E d : ReplyPropose(v, Head(inbox[v]), d)
    BY <1>2 DEF ProposeNull, ProposeBlock
  <2>2. QED BY <2>1, TakesQueued, ReplyKeepsRInv
<1>3. ASSUME NEW v \in Validators, HandleVerify(v)
      PROVE  RInv'
  <2> DEFINE m == Head(inbox[v])
  <2>1. /\ m \in Queued(v) /\ m.type = "verify"
        /\ \A w \in Validators : Queued(w)' \subseteq Queued(w)
        /\ UNCHANGED notarized
    BY <1>3, TakesQueued DEF HandleVerify, Takes
  <2>2. CASE round' = round
    BY <2>1, <2>2, RoundKept
  <2>3. CASE /\ m.digest # NullDigest /\ round.status = "proposed" /\ round.view = m.view
             /\ round' = [round EXCEPT !.votes = round.votes \cup {v}]
    <3>1. round.digest # NullDigest
      BY <2>1, <2>3 DEF RInv, VerifyIsOfRound
    <3>2. /\ round'.view = round.view /\ round'.status = round.status
          /\ round'.digest = round.digest
      BY <2>3 DEF TypeOK
    <3>3. VerifyIsOfRound'
      BY <2>1, <3>2 DEF RInv, VerifyIsOfRound
    <3>4. NullHasOneVote'
      BY <3>1, <3>2 DEF NullHasOneVote
    <3>5. QED BY <2>1, <3>3, <3>4 DEF RInv, NullNotarized
  <2>4. QED BY <1>3, <2>2, <2>3 DEF HandleVerify, Accepts
<1>4. ASSUME NEW v \in Validators, NEW b \in Blocks, DeliverBlock(v, b) \/ LoseBlock(v, b)
      PROVE  RInv'
  <2>1. UNCHANGED <<round, notarized>>
    BY <1>4 DEF DeliverBlock, LoseBlock, engineVars
  <2>2. CASE DeliverBlock(v, b)
    <3>1. /\ Message("receive", 0, b) \in Messages
          /\ Message("receive", 0, b).type # "verify"
      BY DEF Message, Messages
    <3>2. QED BY <2>1, <2>2, <3>1, SendsQueued, RoundKept DEF DeliverBlock
  <2>3. CASE LoseBlock(v, b)
    BY <2>1, <2>3, RoundKept DEF LoseBlock, Queued
  <2>4. QED BY <1>4, <2>2, <2>3
<1>5. ASSUME NEW v \in Validators, AskPropose(v)
      PROVE  RInv'
  <2>1. /\ Message("propose", round.view, NullDigest) \in Messages
        /\ Message("propose", round.view, NullDigest).type # "verify"
    BY DEF Message, Messages, Requests, Digests, TypeOK
  <2>2. \A w \in Validators : \A m \in Queued(w)' : m \in Queued(w) \/ m.type # "verify"
    BY <1>5, <2>1, SendsQueued DEF AskPropose
  <2>3. round.status = "idle" /\ round'.status = "asked" /\ round'.view = round.view
    BY <1>5 DEF AskPropose, TypeOK
  <2>4. VerifyIsOfRound'
    BY <2>2, <2>3 DEF RInv, VerifyIsOfRound
  <2>5. NullHasOneVote'
    BY <2>3 DEF NullHasOneVote
  <2>6. QED BY <1>5, <2>4, <2>5 DEF AskPropose, RInv, NullNotarized
<1>6. ASSUME NEW v \in Validators, AskVerify(v)
      PROVE  RInv'
  <2> DEFINE n == Message("verify", round.view, round.digest)
  <2>1. n \in Messages /\ n.view = round.view /\ n.digest = round.digest
    BY DEF Message, Messages, Requests, TypeOK
  <2>2. \A w \in Validators : Queued(w)' \subseteq Queued(w) \cup {n}
    BY <1>6, <2>1, SendsQueued DEF AskVerify
  <2>3. /\ round.status = "proposed" /\ round'.status = round.status
        /\ round'.view = round.view /\ round'.digest = round.digest
        /\ round'.votes = round.votes /\ round.view \in Nat
    BY <1>6 DEF AskVerify, TypeOK
  <2>4. VerifyIsOfRound'
    BY <2>1, <2>2, <2>3 DEF RInv, VerifyIsOfRound
  <2>5. NullHasOneVote'
    BY <2>3 DEF RInv, NullHasOneVote
  <2>6. QED BY <1>6, <2>4, <2>5 DEF AskVerify, RInv, NullNotarized
<1>7. CASE Notarize
  <2>1. ASSUME round.digest = NullDigest PROVE Quorum = 1
    <3>1. PICK v \in Validators : round.votes = {v}
      BY <1>7, <2>1 DEF Notarize, RInv, NullHasOneVote
    <3>2. Cardinality(round.votes) = 1
      BY <3>1, FS_Singleton
    <3>3. Cardinality(round.votes) >= Quorum /\ Quorum \in Nat \ {0}
      BY <1>7, QuorumAssumption DEF Notarize
    <3>4. QED BY <3>2, <3>3
  <2>2. NullNotarized'
    <3>1. /\ notarized \in Seq(Digests) /\ round.digest \in Digests
          /\ notarized' = Append(notarized, round.digest)
      BY <1>7 DEF TypeOK, Notarize
    <3>2. /\ DOMAIN notarized = 1 .. Len(notarized)
          /\ DOMAIN notarized' = 1 .. (Len(notarized) + 1)
          /\ Len(notarized) \in Nat
          /\ \A i \in 1 .. Len(notarized) : notarized'[i] = notarized[i]
          /\ notarized'[Len(notarized) + 1] = round.digest
      BY <3>1, AppendProperties, LenProperties
    <3>3. QED BY <2>1, <3>2 DEF RInv, NullNotarized
  <2>3. QED BY <1>7, <2>2, ViewEnds DEF Notarize, RInv
<1>8. CASE Nullify
    BY <1>8, ViewEnds DEF Nullify, RInv, NullNotarized
<1>9. ASSUME NEW n \in 1 .. Len(notarized), Certify(n)
      PROVE  RInv'
    BY <1>9, RoundKept DEF Certify, Queued
<1>10. ASSUME NEW v \in Validators, Report(v)
       PROVE  RInv'
  <2>1. PICK k \in reported[v] + 1 .. Len(certs) :
            /\ TrySend(v, Message("finalize", 0, notarized[certs[k]]))
            /\ UNCHANGED <<round, notarized>>
    BY <1>10 DEF Report
  <2>2. k \in 1 .. Len(certs)
    BY LenProperties DEF TypeOK
  <2>3. notarized[certs[k]] \in Digests
    BY <2>2, ElementOfSeq DEF TypeOK
  <2>4. /\ Message("finalize", 0, notarized[certs[k]]) \in Messages
        /\ Message("finalize", 0, notarized[certs[k]]).type # "verify"
    BY <2>3 DEF Message, Messages, Requests
  <2>5. QED BY <2>1, <2>4, SendsQueued, RoundKept
<1>11. CASE UNCHANGED vars
    BY <1>11, RoundKept DEF vars, engineVars, Queued
<1>12. QED BY <1>1, <1>2, <1>3, <1>4, <1>5, <1>6, <1>7, <1>8, <1>9, <1>10, <1>11
           DEF Next, Handle, Relay, Engine

\* The null digest has no vote but the leader's (application.rs verify refuses
\* it), and is notarized only where one vote is a quorum.
THEOREM NullTheorem == Spec => []NullOnlyByLeader
<1>1. Init => RInv
    BY InitRInv
<1>2. TypeOK /\ RInv /\ [Next]_vars => RInv'
    BY NextRInv
<1>3. RInv => NullOnlyByLeader
  <2>1. ASSUME RInv, round.status = "proposed", round.digest = NullDigest
        PROVE  Cardinality(round.votes) = 1
    <3>1. PICK v \in Validators : round.votes = {v}
      BY <2>1 DEF RInv, NullHasOneVote
    <3>2. QED BY <3>1, FS_Singleton
  <2>2. QED BY <2>1 DEF RInv, NullNotarized, NullOnlyByLeader
<1>4. QED BY <1>1, <1>2, <1>3, TypeCorrect, PTL DEF Spec

----------------------------------------------------------------------------
(* How many blocks there are.  The engine asks for one proposal per view,  *)
(* and each request is answered once: the blocks built and the requests    *)
(* still in a mailbox are no more than the views in which it has asked.    *)

\* The views in which the engine has asked, and the requests not taken yet.
Issued == IF round.status = "idle" THEN round.view - 1 ELSE round.view
IsAsk(v, i, x) ==
    /\ i \in 1 .. Len(inbox[v])
    /\ inbox[v][i].type = "propose" /\ inbox[v][i].view = x
Waiting == {x \in Nat : \E v \in Validators : \E i \in Nat : IsAsk(v, i, x)}
OneAsk ==
    \A x \in Nat : \A v, w \in Validators : \A i, j \in Nat :
        IsAsk(v, i, x) /\ IsAsk(w, j, x) => v = w /\ i = j

AskInv ==
    /\ round.view \in Nat \ {0} /\ Issued <= MaxView
    /\ Waiting \subseteq 1 .. Issued
    /\ OneAsk
    /\ Len(blocks) + Cardinality(Waiting) <= Issued

\* Taking a message adds no request, and takes away the one of its view.
LEMMA TakesAsk ==
    ASSUME TypeOK, OneAsk, NEW v \in Validators, NEW type, Takes(v, type)
    PROVE  /\ Waiting' \subseteq Waiting /\ OneAsk'
           /\ type = "propose" => Head(inbox[v]).view \in Waiting \ Waiting'
<1>1. /\ inbox \in [Validators -> Seq(Messages)]
      /\ inbox[v] # <<>>
      /\ inbox' = [inbox EXCEPT ![v] = Tail(inbox[v])]
    BY DEF TypeOK, Takes
<1>2. /\ Len(inbox[v]) \in Nat \ {0}
      /\ Head(inbox[v]) = inbox[v][1]
      /\ Len(Tail(inbox[v])) = Len(inbox[v]) - 1
      /\ \A i \in 1 .. Len(Tail(inbox[v])) : Tail(inbox[v])[i] = inbox[v][i + 1]
    BY <1>1, HeadTailProperties, EmptySeq
<1>3. inbox'[v] = Tail(inbox[v]) /\ \A w \in Validators \ {v} : inbox'[w] = inbox[w]
    BY <1>1
<1>4. ASSUME NEW x, NEW i \in Nat, IsAsk(v, i, x)' PROVE i + 1 \in Nat /\ i >= 1 /\ IsAsk(v, i + 1, x)
  <2>1. i \in 1 .. Len(Tail(inbox[v])) /\ i + 1 \in 1 .. Len(inbox[v])
    BY <1>2, <1>3, <1>4 DEF IsAsk
  <2>2. QED BY <1>2, <1>3, <1>4, <2>1 DEF IsAsk
<1>5. ASSUME NEW x, NEW i \in Nat, NEW w \in Validators \ {v}, IsAsk(w, i, x)' PROVE IsAsk(w, i, x)
    BY <1>3, <1>5 DEF IsAsk
<1>6. Waiting' \subseteq Waiting
    BY <1>4, <1>5 DEF Waiting
<1>7. OneAsk'
  <2> SUFFICES ASSUME NEW x \in Nat, NEW a \in Validators, NEW b \in Validators,
                      NEW i \in Nat, NEW j \in Nat, IsAsk(a, i, x)', IsAsk(b, j, x)'
               PROVE  a = b /\ i = j
    BY DEF OneAsk
  <2>1. PICK k \in Nat : IsAsk(a, k, x) /\ k = IF a = v THEN i + 1 ELSE i
    BY <1>4, <1>5
  <2>2. PICK l \in Nat : IsAsk(b, l, x) /\ l = IF b = v THEN j + 1 ELSE j
    BY <1>4, <1>5
  <2>3. a = b /\ k = l
    BY <2>1, <2>2 DEF OneAsk
  <2>4. QED BY <2>1, <2>2, <2>3
<1>8. ASSUME type = "propose" PROVE Head(inbox[v]).view \in Waiting \ Waiting'
  <2>1. PICK x : x = Head(inbox[v]).view
    OBVIOUS
  <2>2. x \in Nat /\ inbox[v][1] \in Messages
    BY <1>1, <1>2, <2>1, ElementOfSeq, MessageDigest
  <2>3. IsAsk(v, 1, x)
    BY <1>2, <1>8, <2>1 DEF IsAsk, Takes
  <2>4. x \in Waiting
    BY <2>2, <2>3 DEF Waiting
  <2>5. ASSUME NEW w \in Validators, NEW i \in Nat, IsAsk(w, i, x)' PROVE FALSE
    <3>1. CASE w = v
      <4>1. i + 1 \in Nat /\ i >= 1 /\ IsAsk(v, i + 1, x)
        BY <1>4, <2>5, <3>1
      <4>2. i + 1 = 1
        BY <2>2, <2>3, <4>1 DEF OneAsk
      <4>3. QED BY <4>1, <4>2
    <3>2. CASE w # v
      <4>1. IsAsk(w, i, x)
        BY <1>5, <2>5, <3>2
      <4>2. QED BY <2>2, <2>3, <3>2, <4>1 DEF OneAsk
    <3>3. QED BY <3>1, <3>2
  <2>6. x \notin Waiting'
    BY <2>5 DEF Waiting
  <2>7. QED BY <2>1, <2>4, <2>6
<1>9. QED BY <1>6, <1>7, <1>8

\* A message sent adds a request if it is one.
LEMMA SendsAsk ==
    ASSUME TypeOK, OneAsk, NEW v \in Validators, NEW m \in Messages, TrySend(v, m),
           m.type = "propose" => m.view \notin Waiting
    PROVE  /\ Waiting' \subseteq Waiting \cup {m.view} /\ OneAsk'
           /\ m.type # "propose" => Waiting' \subseteq Waiting
<1>1. inbox \in [Validators -> Seq(Messages)]
    BY DEF TypeOK
<1>2. CASE UNCHANGED inbox
  <2>1. \A w, i, x : IsAsk(w, i, x)' <=> IsAsk(w, i, x)
    BY <1>2 DEF IsAsk
  <2>2. Waiting' = Waiting
    BY <2>1 DEF Waiting
  <2>3. OneAsk'
    BY <2>1 DEF OneAsk
  <2>4. QED BY <2>2, <2>3
<1>3. CASE inbox' = [inbox EXCEPT ![v] = Append(inbox[v], m)]
  <2>1. /\ Len(inbox[v]) \in Nat
        /\ Len(Append(inbox[v], m)) = Len(inbox[v]) + 1
        /\ \A i \in 1 .. Len(inbox[v]) : Append(inbox[v], m)[i] = inbox[v][i]
        /\ Append(inbox[v], m)[Len(inbox[v]) + 1] = m
    BY <1>1, AppendProperties, LenProperties
  <2>2. inbox'[v] = Append(inbox[v], m) /\ \A w \in Validators \ {v} : inbox'[w] = inbox[w]
    BY <1>1, <1>3
  <2>3. ASSUME NEW x, NEW w \in Validators, NEW i \in Nat, IsAsk(w, i, x)', ~IsAsk(w, i, x)
        PROVE  w = v /\ i = Len(inbox[v]) + 1 /\ m.type = "propose" /\ x = m.view
    <3>1. w = v
      BY <2>2, <2>3 DEF IsAsk
    <3>2. i \in 1 .. Len(inbox[v]) + 1
      BY <2>1, <2>2, <2>3, <3>1 DEF IsAsk
    <3>3. i \notin 1 .. Len(inbox[v])
      BY <2>1, <2>2, <2>3, <3>1 DEF IsAsk
    <3>4. i = Len(inbox[v]) + 1
      BY <2>1, <3>2, <3>3
    <3>5. QED BY <2>1, <2>2, <2>3, <3>1, <3>4 DEF IsAsk
  <2>4. Waiting' \subseteq Waiting \cup {m.view} /\ (m.type # "propose" => Waiting' \subseteq Waiting)
    BY <2>3 DEF Waiting
  <2>5. OneAsk'
    <3> SUFFICES ASSUME NEW x \in Nat, NEW a \in Validators, NEW b \in Validators,
                        NEW i \in Nat, NEW j \in Nat, IsAsk(a, i, x)', IsAsk(b, j, x)'
                 PROVE  a = b /\ i = j
      BY DEF OneAsk
    <3>1. CASE IsAsk(a, i, x) /\ IsAsk(b, j, x)
      BY <3>1 DEF OneAsk
    <3>2. CASE ~IsAsk(a, i, x) /\ ~IsAsk(b, j, x)
      BY <2>3, <3>2
    <3>3. CASE IsAsk(a, i, x) /\ ~IsAsk(b, j, x)
      <4>1. x = m.view /\ m.type = "propose"
        BY <2>3, <3>3
      <4>2. x \in Waiting
        BY <3>3 DEF Waiting
      <4>3. QED BY <4>1, <4>2
    <3>4. CASE ~IsAsk(a, i, x) /\ IsAsk(b, j, x)
      <4>1. x = m.view /\ m.type = "propose"
        BY <2>3, <3>4
      <4>2. x \in Waiting
        BY <3>4 DEF Waiting
      <4>3. QED BY <4>1, <4>2
    <3>5. QED BY <3>1, <3>2, <3>3, <3>4
  <2>6. QED BY <2>4, <2>5
<1>4. QED BY <1>2, <1>3 DEF TrySend

\* The requests that wait can be counted.
LEMMA WaitingCount ==
    ASSUME TypeOK, AskInv
    PROVE  /\ IsFiniteSet(Waiting) /\ Cardinality(Waiting) \in Nat
           /\ Issued \in Nat /\ Len(blocks) \in Nat
<1>1. Issued \in Nat /\ Len(blocks) \in Nat
    BY LenProperties DEF AskInv, Issued, TypeOK
<1>2. IsFiniteSet(1 .. Issued)
    BY <1>1, FS_Interval
<1>3. IsFiniteSet(Waiting)
    BY <1>2, FS_Subset DEF AskInv
<1>4. QED BY <1>1, <1>3, FS_CardinalityType

\* A step that asks nobody and builds nothing.
LEMMA AskKept ==
    ASSUME TypeOK, AskInv, OneAsk', Waiting' \subseteq Waiting, Len(blocks') = Len(blocks),
           round'.view \in Nat \ {0}, Issued' = Issued
    PROVE  AskInv'
<1>1. /\ IsFiniteSet(Waiting) /\ Cardinality(Waiting) \in Nat
      /\ Issued \in Nat /\ Len(blocks) \in Nat
    BY WaitingCount
<1>2. IsFiniteSet(Waiting') /\ Cardinality(Waiting') <= Cardinality(Waiting)
    BY <1>1, FS_Subset
<1>3. Cardinality(Waiting') \in Nat
    BY <1>2, FS_CardinalityType
<1>4. Len(blocks') + Cardinality(Waiting') <= Issued'
    BY <1>1, <1>2, <1>3 DEF AskInv
<1>5. QED BY <1>4 DEF AskInv

\* One request less, and one block more.
LEMMA ProposeBlockAsk ==
    ASSUME TypeOK, AskInv, NEW v \in Validators, ProposeBlock(v)
    PROVE  AskInv'
<1>1. /\ IsFiniteSet(Waiting) /\ Cardinality(Waiting) \in Nat
      /\ Issued \in Nat /\ Len(blocks) \in Nat
    BY WaitingCount
<1>2. PICK x : x = Head(inbox[v]).view
    OBVIOUS
<1>3. Waiting' \subseteq Waiting /\ OneAsk' /\ x \in Waiting \ Waiting'
    BY <1>2, TakesAsk DEF ProposeBlock, AskInv
<1>4. /\ IsFiniteSet(Waiting \ {x})
      /\ Cardinality(Waiting \ {x}) = Cardinality(Waiting) - 1
    BY <1>1, <1>3, FS_RemoveElement
<1>5. /\ Cardinality(Waiting') <= Cardinality(Waiting \ {x})
      /\ Cardinality(Waiting') \in Nat
    BY <1>3, <1>4, FS_Subset, FS_CardinalityType
<1>6. Len(blocks') = Len(blocks) + 1
  <2>1. PICK S : blocks \in Seq(S)
    BY DEF TypeOK
  <2>2. PICK r : blocks' = Append(blocks, r)
    BY DEF ProposeBlock
  <2>3. blocks \in Seq(S \cup {r})
    BY <2>1, SeqMonotonic
  <2>4. QED BY <2>2, <2>3, AppendProperties
<1>7. round'.view = round.view /\ Issued' = Issued
    BY DEF ProposeBlock, ReplyPropose, Issued, TypeOK
<1>8. Len(blocks') + Cardinality(Waiting') <= Issued'
    BY <1>1, <1>4, <1>5, <1>6, <1>7 DEF AskInv
<1>9. QED BY <1>3, <1>7, <1>8 DEF AskInv

\* A request more, in a view that had none.
LEMMA AskProposeAsk ==
    ASSUME TypeOK, AskInv, NEW v \in Validators, AskPropose(v)
    PROVE  AskInv'
<1> DEFINE m == Message("propose", round.view, NullDigest)
<1>1. /\ IsFiniteSet(Waiting) /\ Cardinality(Waiting) \in Nat
      /\ Issued \in Nat /\ Len(blocks) \in Nat /\ blocks' = blocks
    BY WaitingCount DEF AskPropose
<1>2. /\ round.status = "idle" /\ round.view <= MaxView /\ round.view \in Nat \ {0}
      /\ round'.view = round.view /\ round'.status = "asked"
    BY DEF AskPropose, TypeOK, AskInv
<1>3. Issued = round.view - 1 /\ Issued' = round.view
    BY <1>2 DEF Issued
<1>4. round.view \notin Waiting
    BY <1>2, <1>3 DEF AskInv
<1>5. m \in Messages /\ m.view = round.view
    BY <1>2 DEF Message, Messages, Requests, Digests
<1>6. Waiting' \subseteq Waiting \cup {round.view} /\ OneAsk'
    BY <1>4, <1>5, SendsAsk DEF AskPropose, AskInv
<1>7. /\ IsFiniteSet(Waiting \cup {round.view})
      /\ Cardinality(Waiting \cup {round.view}) = Cardinality(Waiting) + 1
    BY <1>1, <1>4, FS_AddElement
<1>8. /\ Cardinality(Waiting') <= Cardinality(Waiting \cup {round.view})
      /\ Cardinality(Waiting') \in Nat
    BY <1>6, <1>7, FS_Subset, FS_CardinalityType
<1>9. Len(blocks') + Cardinality(Waiting') <= Issued'
    BY <1>1, <1>2, <1>3, <1>7, <1>8 DEF AskInv
<1>10. Waiting' \subseteq 1 .. Issued'
    BY <1>2, <1>3, <1>6 DEF AskInv
<1>11. QED BY <1>2, <1>3, <1>6, <1>9, <1>10 DEF AskInv

LEMMA InitAskInv == Init => AskInv
<1> SUFFICES ASSUME Init PROVE AskInv
    OBVIOUS
<1>1. \A v \in Validators : \A i, x : ~IsAsk(v, i, x)
    BY DEF Init, IsAsk, Message
<1>2. Waiting = {} /\ OneAsk
    BY <1>1 DEF Waiting, OneAsk
<1>3. round.view = 1 /\ round.status = "idle" /\ blocks = <<>>
    BY DEF Init, IdleRound
<1>4. Cardinality(Waiting) = 0
    BY <1>2, FS_EmptySet
<1>5. QED BY <1>2, <1>3, <1>4, MaxViewAssumption DEF AskInv, Issued

\* Every step keeps the count.
LEMMA NextAskInv ==
    ASSUME TypeOK, AskInv, [Next]_vars
    PROVE  AskInv'
<1>0. OneAsk /\ round.view \in Nat \ {0}
    BY DEF AskInv
<1>1. ASSUME NEW v \in Validators, Handle(v), ~ProposeBlock(v)
      PROVE  AskInv'
  <2>1. UNCHANGED blocks /\ \E type : Takes(v, type)
    BY <1>1 DEF Handle, HandleGenesis, ProposeNull, HandleVerify, FinalizeBlock,
                IgnoreFinalization, HandleReceive
  <2>2. round'.view = round.view /\ Issued' = Issued
    <3>1. CASE ProposeNull(v)
      BY <3>1 DEF ProposeNull, ReplyPropose, Issued, TypeOK
    <3>2. CASE HandleVerify(v)
      BY <3>2 DEF HandleVerify, Issued, TypeOK
    <3>3. CASE UNCHANGED round
      BY <3>3 DEF Issued
    <3>4. QED BY <1>1, <3>1, <3>2, <3>3 DEF Handle, HandleGenesis, FinalizeBlock,
                IgnoreFinalization, HandleReceive, engineVars
  <2>3. QED BY <1>0, <2>1, <2>2, TakesAsk, AskKept
<1>2. ASSUME NEW v \in Validators, NEW m \in Messages, TrySend(v, m), m.type # "propose",
             UNCHANGED blocks, round'.view = round.view, round'.status = round.status
      PROVE  AskInv'
  <2>1. Waiting' \subseteq Waiting /\ OneAsk'
    BY <1>0, <1>2, SendsAsk
  <2>2. Issued' = Issued
    BY <1>2 DEF Issued
  <2>3. QED BY <1>0, <1>2, <2>1, <2>2, AskKept
<1>3. ASSUME UNCHANGED <<inbox, blocks>>, round'.view \in Nat \ {0}, Issued' = Issued
      PROVE  AskInv'
  <2>1. Waiting' = Waiting /\ OneAsk'
    <3>1. \A w, i, x : IsAsk(w, i, x)' <=> IsAsk(w, i, x)
      BY <1>3 DEF IsAsk
    <3>2. Waiting' = Waiting
      BY <3>1 DEF Waiting
    <3>3. OneAsk'
      BY <1>0, <3>1 DEF OneAsk
    <3>4. QED BY <3>2, <3>3
  <2>2. QED BY <1>3, <2>1, AskKept
<1>4. ASSUME NEW v \in Validators, NEW b \in Blocks, DeliverBlock(v, b)
      PROVE  AskInv'
  <2>1. /\ Message("receive", 0, b) \in Messages
        /\ Message("receive", 0, b).type # "propose"
    BY DEF Message, Messages
  <2>2. TrySend(v, Message("receive", 0, b)) /\ UNCHANGED <<blocks, round>>
    BY <1>4 DEF DeliverBlock, engineVars
  <2>3. QED BY <1>2, <2>1, <2>2
<1>5. ASSUME NEW v \in Validators, AskVerify(v)
      PROVE  AskInv'
  <2>1. /\ Message("verify", round.view, round.digest) \in Messages
        /\ Message("verify", round.view, round.digest).type # "propose"
    BY DEF Message, Messages, Requests, TypeOK
  <2>2. /\ TrySend(v, Message("verify", round.view, round.digest)) /\ UNCHANGED blocks
        /\ round'.view = round.view /\ round'.status = round.status
    BY <1>5 DEF AskVerify, TypeOK
  <2>3. QED BY <1>2, <2>1, <2>2
<1>6. ASSUME NEW v \in Validators, Report(v)
      PROVE  AskInv'
  <2>1. PICK k \in reported[v] + 1 .. Len(certs) :
            /\ TrySend(v, Message("finalize", 0, notarized[certs[k]]))
            /\ UNCHANGED <<round, blocks>>
    BY <1>6 DEF Report
  <2>2. k \in 1 .. Len(certs)
    BY LenProperties DEF TypeOK
  <2>3. notarized[certs[k]] \in Digests
    BY <2>2, ElementOfSeq DEF TypeOK
  <2>4. /\ Message("finalize", 0, notarized[certs[k]]) \in Messages
        /\ Message("finalize", 0, notarized[certs[k]]).type # "propose"
    BY <2>3 DEF Message, Messages, Requests
  <2>5. QED BY <1>2, <2>1, <2>4
<1>7. CASE Notarize \/ Nullify
  <2>1. /\ UNCHANGED <<inbox, blocks>> /\ round.status # "idle"
        /\ round'.view = round.view + 1 /\ round'.status = "idle"
    BY <1>7 DEF Notarize, Nullify, IdleRound
  <2>2. Issued' = Issued /\ round'.view \in Nat \ {0}
    BY <1>0, <2>1 DEF Issued
  <2>3. QED BY <1>3, <2>1, <2>2
<1>8. CASE (\E n \in 1 .. Len(notarized) : Certify(n)) \/ UNCHANGED vars
           \/ \E v \in Validators, b \in Blocks : LoseBlock(v, b)
  <2>1. UNCHANGED <<inbox, blocks, round>>
    BY <1>8 DEF Certify, vars, LoseBlock, engineVars
  <2>2. Issued' = Issued
    BY <2>1 DEF Issued
  <2>3. QED BY <1>0, <1>3, <2>1, <2>2
<1>9. ASSUME NEW v \in Validators, ProposeBlock(v) \/ AskPropose(v)
      PROVE  AskInv'
    BY <1>9, ProposeBlockAsk, AskProposeAsk
<1>10. QED BY <1>1, <1>4, <1>5, <1>6, <1>7, <1>8, <1>9 DEF Next, Handle, Relay, Engine

\* No view brings more than one block: however late a propose message is
\* answered (Application::run takes it from the mailbox when it gets there),
\* the blocks built are no more than the views in which one was asked for.
THEOREM AskInvariance == Spec => []AskInv
<1>1. Init => AskInv
    BY InitAskInv
<1>2. TypeOK /\ AskInv /\ [Next]_vars => AskInv'
    BY NextAskInv
<1>3. QED BY <1>1, <1>2, TypeCorrect, PTL DEF Spec

----------------------------------------------------------------------------
(* What is finalized was certified, whatever happens to messages.          *)

Certified == {notarized[certs[k]] : k \in 1 .. Len(certs)}
LogsAreCertified ==
    \A v \in Validators : \A i \in 1 .. Len(finalizedLog[v]) : finalizedLog[v][i] \in Certified
QueuedAreCertified ==
    \A v \in Validators : \A m \in Queued(v) : m.type = "finalize" => m.digest \in Certified

CertifiedInv == LogsAreCertified /\ QueuedAreCertified

\* A certificate stays one.
LEMMA CertifiedGrows ==
    ASSUME TypeOK, [Next]_vars
    PROVE  Certified \subseteq Certified'
<1>1. /\ Len(certs) \in Nat /\ Len(notarized) \in Nat
      /\ \A k \in 1 .. Len(certs) : certs[k] \in 1 .. Len(notarized)
    BY LenProperties, ElementOfSeq DEF TypeOK
<1>2. CASE UNCHANGED <<notarized, certs>>
    BY <1>2 DEF Certified
<1>3. CASE Notarize
  <2>1. notarized' = Append(notarized, round.digest) /\ certs' = certs
    BY <1>3 DEF Notarize
  <2>2. \A n \in 1 .. Len(notarized) : notarized'[n] = notarized[n]
    BY <2>1, AppendProperties DEF TypeOK
  <2>3. QED BY <1>1, <2>1, <2>2 DEF Certified
<1>4. ASSUME NEW n \in 1 .. Len(notarized), Certify(n)
      PROVE  Certified \subseteq Certified'
  <2>1. certs' = Append(certs, n) /\ notarized' = notarized
    BY <1>4 DEF Certify
  <2>2. /\ Len(certs') = Len(certs) + 1
        /\ \A k \in 1 .. Len(certs) : certs'[k] = certs[k]
    BY <2>1, AppendProperties DEF TypeOK
  <2>3. \A k \in 1 .. Len(certs) : k \in 1 .. Len(certs')
    BY <1>1, <2>2
  <2>4. QED BY <2>1, <2>2, <2>3 DEF Certified
<1>5. CASE UNCHANGED vars
    BY <1>2, <1>5 DEF vars, engineVars
<1>6. ASSUME NEW v \in Validators, Handle(v) PROVE UNCHANGED <<notarized, certs>>
    BY <1>6 DEF Handle, HandleGenesis, ProposeNull, ProposeBlock, HandleVerify,
                FinalizeBlock, IgnoreFinalization, HandleReceive, engineVars
<1>7. ASSUME NEW v \in Validators, Relay(v) PROVE UNCHANGED <<notarized, certs>>
    BY <1>7 DEF Relay, DeliverBlock, LoseBlock, engineVars
<1>8. ASSUME NEW v \in Validators, AskPropose(v) \/ AskVerify(v) \/ Report(v)
      PROVE  UNCHANGED <<notarized, certs>>
    BY <1>8 DEF AskPropose, AskVerify, Report
<1>9. CASE Nullify
    BY <1>2, <1>9 DEF Nullify
<1>10. QED BY <1>2, <1>3, <1>4, <1>5, <1>6, <1>7, <1>8, <1>9 DEF Next, Engine

\* Only a finalize message makes a log longer, and only Report sends one.
LEMMA NextCertifiedInv ==
    ASSUME TypeOK, CertifiedInv, [Next]_vars
    PROVE  CertifiedInv'
<1>0. Certified \subseteq Certified'
    BY CertifiedGrows
<1>1. ASSUME UNCHANGED finalizedLog,
             \A w \in Validators : \A m \in Queued(w)' :
                 m \in Queued(w) \/ (m.type = "finalize" => m.digest \in Certified)
      PROVE  CertifiedInv'
  <2>1. LogsAreCertified'
    BY <1>0, <1>1 DEF CertifiedInv, LogsAreCertified
  <2>2. QueuedAreCertified'
    BY <1>0, <1>1 DEF CertifiedInv, QueuedAreCertified
  <2>3. QED BY <2>1, <2>2 DEF CertifiedInv
<1>2. ASSUME NEW v \in Validators, FinalizeBlock(v)
      PROVE  CertifiedInv'
  <2>1. PICK b : b = Head(inbox[v]).digest
    OBVIOUS
  <2>2. /\ Takes(v, "finalize")
        /\ finalizedLog' = [finalizedLog EXCEPT ![v] = Append(@, b)]
    BY <1>2, <2>1 DEF FinalizeBlock
  <2>3. Head(inbox[v]) \in Queued(v) /\ \A w \in Validators : Queued(w)' \subseteq Queued(w)
    BY <2>2, TakesQueued
  <2>4. b \in Certified
    BY <2>1, <2>2, <2>3 DEF CertifiedInv, QueuedAreCertified, Takes
  <2>5. QueuedAreCertified'
    BY <1>0, <2>3 DEF CertifiedInv, QueuedAreCertified
  <2>6. ASSUME NEW w \in Validators, NEW i \in 1 .. Len(finalizedLog'[w])
        PROVE  finalizedLog'[w][i] \in Certified
    <3>1. /\ Len(finalizedLog[v]) \in Nat
          /\ Len(Append(finalizedLog[v], b)) = Len(finalizedLog[v]) + 1
          /\ \A j \in 1 .. Len(finalizedLog[v]) : Append(finalizedLog[v], b)[j] = finalizedLog[v][j]
          /\ Append(finalizedLog[v], b)[Len(finalizedLog[v]) + 1] = b
      <4>1. PICK S : finalizedLog[v] \in Seq(S) /\ b \in S
        <5>1. PICK S : finalizedLog[v] \in Seq(S)
          BY DEF TypeOK
        <5>2. finalizedLog[v] \in Seq(S \cup {b})
          BY <5>1, SeqMonotonic
        <5>3. QED BY <5>2
      <4>2. QED BY <4>1, AppendProperties, LenProperties
    <3>2. CASE w = v
      <4> DEFINE log == finalizedLog[v]
                 longer == Append(log, b)
      <4>1. finalizedLog'[w] = longer /\ \A j \in 1 .. Len(log) : log[j] \in Certified
        BY <2>2, <3>2 DEF CertifiedInv, LogsAreCertified, TypeOK
      <4>2. i \in 1 .. Len(longer)
        BY <2>6, <4>1
      <4>3. /\ Len(log) \in Nat /\ Len(longer) = Len(log) + 1
            /\ \A j \in 1 .. Len(log) : longer[j] = log[j]
            /\ longer[Len(log) + 1] = b
        BY <3>1
      <4> HIDE DEF log, longer
      <4>4. i \in 1 .. Len(log) \/ i = Len(log) + 1
        BY <4>2, <4>3
      <4>5. QED BY <2>4, <4>1, <4>3, <4>4
    <3>3. CASE w # v
      BY <2>2, <2>6, <3>3 DEF CertifiedInv, LogsAreCertified, TypeOK
    <3>4. QED BY <3>2, <3>3
  <2>7. LogsAreCertified'
    BY <1>0, <2>6 DEF LogsAreCertified
  <2>8. QED BY <2>5, <2>7 DEF CertifiedInv
<1>3. ASSUME NEW v \in Validators, Handle(v), ~FinalizeBlock(v)
      PROVE  CertifiedInv'
  <2>1. UNCHANGED finalizedLog /\ \E type : Takes(v, type)
    BY <1>3 DEF Handle, HandleGenesis, ProposeNull, ProposeBlock, HandleVerify,
                IgnoreFinalization, HandleReceive, appVars
  <2>2. \A w \in Validators : Queued(w)' \subseteq Queued(w)
    BY <2>1, TakesQueued
  <2>3. QED BY <1>1, <2>1, <2>2
<1>4. ASSUME NEW v \in Validators, NEW m \in Messages, TrySend(v, m), UNCHANGED finalizedLog,
             m.type = "finalize" => m.digest \in Certified
      PROVE  CertifiedInv'
  <2>1. \A w \in Validators : Queued(w)' \subseteq Queued(w) \cup {m}
    BY <1>4, SendsQueued
  <2>2. QED BY <1>1, <1>4, <2>1
<1>5. ASSUME NEW v \in Validators, NEW b \in Blocks, DeliverBlock(v, b)
      PROVE  CertifiedInv'
  <2>1. /\ Message("receive", 0, b) \in Messages
        /\ Message("receive", 0, b).type # "finalize"
    BY DEF Message, Messages
  <2>2. TrySend(v, Message("receive", 0, b)) /\ UNCHANGED finalizedLog
    BY <1>5 DEF DeliverBlock, appVars
  <2>3. QED BY <1>4, <2>1, <2>2
<1>6. ASSUME NEW v \in Validators, AskPropose(v)
      PROVE  CertifiedInv'
  <2>1. /\ Message("propose", round.view, NullDigest) \in Messages
        /\ Message("propose", round.view, NullDigest).type # "finalize"
    BY DEF Message, Messages, Requests, Digests, TypeOK
  <2>2. TrySend(v, Message("propose", round.view, NullDigest)) /\ UNCHANGED finalizedLog
    BY <1>6 DEF AskPropose, appVars
  <2>3. QED BY <1>4, <2>1, <2>2
<1>7. ASSUME NEW v \in Validators, AskVerify(v)
      PROVE  CertifiedInv'
  <2>1. /\ Message("verify", round.view, round.digest) \in Messages
        /\ Message("verify", round.view, round.digest).type # "finalize"
    BY DEF Message, Messages, Requests, TypeOK
  <2>2. TrySend(v, Message("verify", round.view, round.digest)) /\ UNCHANGED finalizedLog
    BY <1>7 DEF AskVerify, appVars
  <2>3. QED BY <1>4, <2>1, <2>2
<1>8. ASSUME NEW v \in Validators, Report(v)
      PROVE  CertifiedInv'
  <2>1. PICK k \in reported[v] + 1 .. Len(certs) :
            /\ TrySend(v, Message("finalize", 0, notarized[certs[k]]))
            /\ UNCHANGED finalizedLog
    BY <1>8 DEF Report, appVars
  <2>2. k \in 1 .. Len(certs)
    BY LenProperties DEF TypeOK
  <2>3. notarized[certs[k]] \in Digests /\ notarized[certs[k]] \in Certified
    BY <2>2, ElementOfSeq DEF TypeOK, Certified
  <2>4. /\ Message("finalize", 0, notarized[certs[k]]) \in Messages
        /\ Message("finalize", 0, notarized[certs[k]]).digest \in Certified
    BY <2>3 DEF Message, Messages, Requests
  <2>5. QED BY <1>4, <2>1, <2>4
<1>9. CASE UNCHANGED <<inbox, finalizedLog>>
    BY <1>1, <1>9 DEF Queued
<1>10. ASSUME NEW v \in Validators, NEW b \in Blocks, LoseBlock(v, b)
       PROVE  CertifiedInv'
    BY <1>9, <1>10 DEF LoseBlock, appVars
<1>11. CASE Notarize \/ Nullify \/ (\E n \in 1 .. Len(notarized) : Certify(n)) \/ UNCHANGED vars
    BY <1>9, <1>11 DEF Notarize, Nullify, Certify, vars, appVars
<1>12. QED BY <1>2, <1>3, <1>5, <1>6, <1>7, <1>8, <1>10, <1>11 DEF Next, Relay, Engine

\* No validator finalizes a block that the engines have not certified, under
\* any fault: what goes wrong without relay or certificates (finalize,
\* application.rs) is a choice between two certified blocks of one height.
THEOREM CertifiedTheorem == Spec => []LogsAreCertified
<1>1. Init => CertifiedInv
  <2>1. ASSUME Init PROVE \A v \in Validators : \A m \in Queued(v) : m.type = "genesis"
    BY <2>1 DEF Init, Queued, Message
  <2>2. ASSUME Init PROVE \A v \in Validators : Len(finalizedLog[v]) = 0
    BY <2>2 DEF Init
  <2>3. QED BY <2>1, <2>2 DEF CertifiedInv, LogsAreCertified, QueuedAreCertified
<1>2. TypeOK /\ CertifiedInv /\ [Next]_vars => CertifiedInv'
    BY NextCertifiedInv
<1>3. CertifiedInv => LogsAreCertified
    BY DEF CertifiedInv
<1>4. QED BY <1>1, <1>2, <1>3, TypeCorrect, PTL DEF Spec
=============================================================================
