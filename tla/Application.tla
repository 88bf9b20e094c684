---------------------------- MODULE Application ----------------------------
(***************************************************************************)
(* The consensus application of every validator (crates/consensus:         *)
(* application.rs, reporter.rs, the relay half of runtime.rs) under the    *)
(* external Simplex engine and the external p2p network.                   *)
(*                                                                         *)
(* A validator's Application is one actor: the engine, the reporter and    *)
(* the block relay put messages into its bounded mailbox with try_send     *)
(* (a full mailbox drops the message), and the actor takes them in order.  *)
(* Simplex is reduced to what the application sees of it: views one after  *)
(* the other, a leader that is asked to propose, validators that are asked *)
(* to verify, certificates that are reported to every validator.           *)
(*                                                                         *)
(* A block is a position in the history "blocks"; position 0 is genesis.   *)
(* Digest and hash are injective functions of the block and are identified *)
(* with it.  What reth answers is a choice here: Forkchoice.tla models it. *)
(***************************************************************************)
EXTENDS Integers, Sequences, FiniteSets

CONSTANTS
    Validators,    \* the validator set
    Quorum,        \* how many votes notarize a proposal
    MailboxSize,   \* how many messages a mailbox holds (mailbox_size)
    MaxView,       \* bound: the engine stops after this many views
    Faults         \* what the environment may do to a message

\* "lost":  the relay skips a block (rate limit, send error, lagged receiver).
\* "late":  a certificate may overtake the relayed block it is about.
\* "gap":   the engine may report a certificate and never an earlier one.
\* "full":  a message may find the mailbox full.
FaultKinds == {"lost", "late", "gap", "full"}

ASSUME ValidatorsAssumption == IsFiniteSet(Validators) /\ Validators # {}
ASSUME QuorumAssumption == Quorum \in Nat \ {0}
ASSUME MailboxAssumption == MailboxSize \in Nat \ {0}
ASSUME MaxViewAssumption == MaxView \in Nat
ASSUME FaultsAssumption == Faults \subseteq FaultKinds

VARIABLES
    \* ---- Application, one per validator
    height,         \* the next height to finalize
    lastHash,       \* the last finalized block
    pending,        \* keys of pending_blocks
    payloads,       \* keys of pending_payloads
    verified,       \* digests accepted so far
    lastProposed,   \* last_proposed_height, 0 for None
    inbox,          \* the mailbox
    finalizedLog,   \* what broadcast_finalized has sent, in order
    \* ---- the environment
    blocks,         \* every block built so far
    relay,          \* relayed blocks in flight: <<recipient, block>>
    round,          \* the view the engine is in
    notarized,      \* digests notarized, in view order
    certs,          \* the positions in "notarized" that were finalized
    reported        \* how many of certs each validator's engine went through

appVars == <<height, lastHash, pending, payloads, verified, lastProposed,
             finalizedLog>>
engineVars == <<round, notarized, certs, reported>>
vars == <<appVars, inbox, blocks, relay, engineVars>>

Genesis == 0
NullDigest == -1
Blocks == 1 .. Len(blocks)
Digests == Blocks \cup {NullDigest}

\* Genesis is at height 0; the null digest, which has no block, counts as 0.
HeightOf(b) == IF b \in Blocks THEN blocks[b].height ELSE 0
ParentOf(b) == blocks[b].parent

----------------------------------------------------------------------------
(* Messages.  "view" stands for the Context of a request, which the code   *)
(* only logs: it tells whether the reply still reaches the engine's view.  *)

Requests == {"genesis", "propose", "verify", "finalize"}
Messages ==
    [type : Requests, view : Nat, digest : Digests \cup {Genesis}]
    \cup [type : {"receive"}, view : {0}, digest : Blocks]
Message(type, view, digest) == [type |-> type, view |-> view, digest |-> digest]

\* Mailbox: every method is one try_send, a full channel loses the message.
\* Without the fault "full" only behaviours that never fill it are considered.
TrySend(v, m) ==
    IF Len(inbox[v]) < MailboxSize
    THEN inbox' = [inbox EXCEPT ![v] = Append(@, m)]
    ELSE "full" \in Faults /\ UNCHANGED inbox

\* run / process_message: the actor takes the oldest message.
Takes(v, type) ==
    /\ inbox[v] # <<>>
    /\ Head(inbox[v]).type = type
    /\ inbox' = [inbox EXCEPT ![v] = Tail(@)]

\* "asked" holds the leader and the validators asked to verify.
IdleRound(n) == [view |-> n, status |-> "idle", digest |-> NullDigest,
                 asked |-> {}, votes |-> {}]

Init ==
    /\ height = [v \in Validators |-> 1]
    /\ lastHash = [v \in Validators |-> Genesis]
    /\ pending = [v \in Validators |-> {}]
    /\ payloads = [v \in Validators |-> {}]
    /\ verified = [v \in Validators |-> {}]
    /\ lastProposed = [v \in Validators |-> 0]
    /\ inbox = [v \in Validators |-> <<Message("genesis", 0, Genesis)>>]
    /\ finalizedLog = [v \in Validators |-> <<>>]
    /\ blocks = <<>>
    /\ relay = {}
    /\ round = IdleRound(1)
    /\ notarized = <<>>
    /\ certs = <<>>
    /\ reported = [v \in Validators |-> 0]

----------------------------------------------------------------------------
(* The actor's handlers.  An operator placed just before the definition it *)
(* varies (AlreadyProposedForgotten, AcceptsAnything, IgnoreKeepingPayload *)
(* and so on) is a defective variant of it, which the properties reject.   *)

HandleGenesis(v) ==
    /\ Takes(v, "genesis")
    /\ verified' = [verified EXCEPT ![v] = @ \cup {Genesis}]
    /\ UNCHANGED <<height, lastHash, pending, payloads, lastProposed,
                   finalizedLog, blocks, relay, engineVars>>

AlreadyProposedForgotten(v) == FALSE
AlreadyProposed(v) == lastProposed[v] # 0 /\ lastProposed[v] >= height[v]

\* The engine takes the reply if it still waits for it, and the leader votes
\* for its own proposal.
ReplyPropose(v, m, d) ==
    round' = IF round.status = "asked" /\ round.view = m.view
             THEN [round EXCEPT !.status = "proposed", !.digest = d,
                                !.votes = {v}]
             ELSE round

\* Already proposed here, reth not in sync with us, clock not past the
\* parent's timestamp, or reth failed to build.
ProposeNull(v) ==
    /\ Takes(v, "propose")
    /\ ReplyPropose(v, Head(inbox[v]), NullDigest)
    /\ UNCHANGED <<appVars, blocks, relay, notarized, certs, reported>>

ProposedHeight(v) == height[v]

\* reth builds on last_hash, so the block's number is its parent's plus one.
ProposeBlock(v) ==
    LET b == Len(blocks) + 1
    IN  /\ Takes(v, "propose")
        /\ ~AlreadyProposed(v)
        /\ blocks' = Append(blocks, [height   |-> HeightOf(lastHash[v]) + 1,
                                     parent   |-> lastHash[v],
                                     proposer |-> v])
        /\ relay' = relay \cup {<<w, b>> : w \in Validators \ {v}}
        /\ pending' = [pending EXCEPT ![v] = @ \cup {b}]
        /\ payloads' = [payloads EXCEPT ![v] = @ \cup {b}]
        /\ verified' = [verified EXCEPT ![v] = @ \cup {b}]
        /\ lastProposed' = [lastProposed EXCEPT ![v] = ProposedHeight(v)]
        /\ ReplyPropose(v, Head(inbox[v]), b)
        /\ UNCHANGED <<height, lastHash, finalizedLog, notarized, certs, reported>>

\* verify: the null digest is rejected, every other digest is accepted,
\* whether its block is known or not.
AcceptsAnything(v, d) == TRUE
Accepts(v, d) == d # NullDigest

HandleVerify(v) ==
    LET m == Head(inbox[v])
        ok == Accepts(v, m.digest)
    IN  /\ Takes(v, "verify")
        /\ verified' = IF ok THEN [verified EXCEPT ![v] = @ \cup {m.digest}]
                             ELSE verified
        /\ round' = IF ok /\ round.status = "proposed" /\ round.view = m.view
                    THEN [round EXCEPT !.votes = @ \cup {v}]
                    ELSE round
        /\ UNCHANGED <<height, lastHash, pending, payloads, lastProposed,
                       finalizedLog, blocks, relay, notarized, certs, reported>>

StaleOrNext(v, b, h) == {c \in pending[v] \ {b} : HeightOf(c) <= h}

\* cleanup_stale_blocks: what is pending below the new height h is dropped.
Stale(v, b, h) == {c \in pending[v] \ {b} : HeightOf(c) < h}

\* is_valid_height
AnyHeight(v, b) == TRUE
ExpectedHeight(v, b) == HeightOf(b) = height[v]

\* A certificate for a block that is not pending, or not at our height, only
\* discards what is held under its digest.
IgnoreKeepingPayload(v) ==
    LET b == Head(inbox[v]).digest
    IN  /\ Takes(v, "finalize")
        /\ b \in pending[v] => ~ExpectedHeight(v, b)
        /\ pending' = [pending EXCEPT ![v] = @ \ {b}]
        /\ UNCHANGED <<height, lastHash, payloads, verified, lastProposed,
                       finalizedLog, blocks, relay, engineVars>>

IgnoreFinalization(v) ==
    LET b == Head(inbox[v]).digest
    IN  /\ Takes(v, "finalize")
        /\ b \in pending[v] => ~ExpectedHeight(v, b)
        /\ pending' = [pending EXCEPT ![v] = @ \ {b}]
        /\ payloads' = [payloads EXCEPT ![v] = @ \ {b}]
        /\ UNCHANGED <<height, lastHash, verified, lastProposed, finalizedLog,
                       blocks, relay, engineVars>>

\* Whether reth takes the payload or not, height and last_hash move on.
FinalizeBlock(v) ==
    LET b == Head(inbox[v]).digest
        h == HeightOf(b) + 1
    IN  /\ Takes(v, "finalize")
        /\ b \in pending[v]
        /\ ExpectedHeight(v, b)
        /\ height' = [height EXCEPT ![v] = h]
        /\ lastHash' = [lastHash EXCEPT ![v] = b]
        /\ pending' = [pending EXCEPT ![v] = (@ \ {b}) \ Stale(v, b, h)]
        /\ payloads' = [payloads EXCEPT ![v] = (@ \ {b}) \ Stale(v, b, h)]
        /\ finalizedLog' = [finalizedLog EXCEPT ![v] = Append(@, b)]
        /\ UNCHANGED <<verified, lastProposed, blocks, relay, engineVars>>

\* handle_receive_block: a known block is ignored; any other is stored, and
\* it counts as verified only if reth imported it.
StoreOnlyImported(v, b, imported) ==
    IF imported
    THEN /\ pending' = [pending EXCEPT ![v] = @ \cup {b}]
         /\ payloads' = [payloads EXCEPT ![v] = @ \cup {b}]
         /\ verified' = [verified EXCEPT ![v] = @ \cup {b}]
    ELSE UNCHANGED <<pending, payloads, verified>>

StoreBlock(v, b, imported) ==
    /\ pending' = [pending EXCEPT ![v] = @ \cup {b}]
    /\ payloads' = [payloads EXCEPT ![v] = @ \cup {b}]
    /\ verified' = [verified EXCEPT ![v] = IF imported THEN @ \cup {b} ELSE @]

HandleReceive(v) ==
    LET b == Head(inbox[v]).digest
    IN  /\ Takes(v, "receive")
        /\ IF b \in pending[v]
           THEN UNCHANGED <<pending, payloads, verified>>
           ELSE \E imported \in BOOLEAN : StoreBlock(v, b, imported)
        /\ UNCHANGED <<height, lastHash, lastProposed, finalizedLog, blocks,
                       relay, engineVars>>

----------------------------------------------------------------------------
(* The block relay                                                         *)

\* handle_p2p_block: forwarded to the mailbox, lost if that is full.
DeliverBlock(v, b) ==
    /\ <<v, b>> \in relay
    /\ relay' = relay \ {<<v, b>>}
    /\ TrySend(v, Message("receive", 0, b))
    /\ UNCHANGED <<appVars, blocks, engineVars>>

LoseBlock(v, b) ==
    /\ "lost" \in Faults
    /\ <<v, b>> \in relay
    /\ relay' = relay \ {<<v, b>>}
    /\ UNCHANGED <<appVars, inbox, blocks, engineVars>>

----------------------------------------------------------------------------
(* The Simplex engine, external                                            *)

\* An engine asks its application for the genesis before anything else.
Started(v) == Genesis \in verified[v]

AskPropose(v) ==
    /\ round.status = "idle"
    /\ round.view <= MaxView
    /\ Started(v)
    /\ round' = [round EXCEPT !.status = "asked", !.asked = {v}]
    /\ TrySend(v, Message("propose", round.view, NullDigest))
    /\ UNCHANGED <<appVars, blocks, relay, notarized, certs, reported>>

AskVerify(v) ==
    /\ round.status = "proposed"
    /\ v \notin round.asked
    /\ Started(v)
    /\ round' = [round EXCEPT !.asked = @ \cup {v}]
    /\ TrySend(v, Message("verify", round.view, round.digest))
    /\ UNCHANGED <<appVars, blocks, relay, notarized, certs, reported>>

\* A notarized view is over: the next one starts without waiting for its
\* finalization.
Notarize ==
    /\ round.status = "proposed"
    /\ Cardinality(round.votes) >= Quorum
    /\ notarized' = Append(notarized, round.digest)
    /\ round' = IdleRound(round.view + 1)
    /\ UNCHANGED <<appVars, inbox, blocks, relay, certs, reported>>

\* A timeout may end a view at any point.
Nullify ==
    /\ round.status # "idle"
    /\ round' = IdleRound(round.view + 1)
    /\ UNCHANGED <<appVars, inbox, blocks, relay, notarized, certs, reported>>

\* Some notarized views are finalized, in view order.
LastCert == IF certs = <<>> THEN 0 ELSE certs[Len(certs)]

Certify(n) ==
    /\ n \in LastCert + 1 .. Len(notarized)
    /\ certs' = Append(certs, n)
    /\ UNCHANGED <<appVars, inbox, blocks, relay, round, notarized, reported>>

\* ConsensusReporter: a Finalization activity becomes Mailbox::finalize.
Report(v) ==
    \E k \in reported[v] + 1 .. Len(certs) :
        LET b == notarized[certs[k]]
        IN  /\ "gap" \notin Faults => k = reported[v] + 1
            /\ "late" \notin Faults => <<v, b>> \notin relay
            /\ reported' = [reported EXCEPT ![v] = k]
            /\ TrySend(v, Message("finalize", 0, b))
            /\ UNCHANGED <<appVars, blocks, relay, round, notarized, certs>>

----------------------------------------------------------------------------
Handle(v) ==
    \/ HandleGenesis(v) \/ ProposeNull(v)   \/ ProposeBlock(v)
    \/ HandleVerify(v)  \/ FinalizeBlock(v) \/ IgnoreFinalization(v)
    \/ HandleReceive(v)

Relay(v) == \E b \in Blocks : DeliverBlock(v, b) \/ LoseBlock(v, b)

Engine ==
    \/ \E v \in Validators : AskPropose(v) \/ AskVerify(v) \/ Report(v)
    \/ Notarize
    \/ Nullify
    \/ \E n \in 1 .. Len(notarized) : Certify(n)

Next ==
    \/ \E v \in Validators : Handle(v) \/ Relay(v)
    \/ Engine

Spec == Init /\ [][Next]_vars

\* The actor loop, the relay task and the reporter run as long as the
\* process does; nothing is assumed of leaders, votes or certificates.
Fairness ==
    \A v \in Validators :
        /\ WF_vars(Handle(v))
        /\ WF_vars(\E b \in Blocks : DeliverBlock(v, b))
        /\ WF_vars(Report(v))

FairSpec == Spec /\ Fairness

----------------------------------------------------------------------------
(* Properties                                                              *)

\* Every variable keeps the shape of the state it stands for.
TypeOK ==
    /\ height \in [Validators -> Nat]
    /\ lastHash \in [Validators -> Blocks \cup {Genesis}]
    /\ pending \in [Validators -> SUBSET Blocks]
    /\ payloads \in [Validators -> SUBSET Blocks]
    /\ verified \in [Validators -> SUBSET (Blocks \cup {Genesis})]
    /\ lastProposed \in [Validators -> Nat]
    /\ finalizedLog \in [Validators -> Seq(Blocks)]
    /\ inbox \in [Validators -> Seq(Messages)]
    /\ blocks \in Seq([height : Nat, parent : Nat, proposer : Validators])
    /\ relay \subseteq Validators \X Blocks
    /\ round \in [view : Nat, status : {"idle", "asked", "proposed"},
                  digest : Digests, asked : SUBSET Validators,
                  votes : SUBSET Validators]
    /\ notarized \in Seq(Digests)
    /\ certs \in Seq(1 .. Len(notarized))
    /\ reported \in [Validators -> Nat]

\* pending_blocks and pending_payloads have the same keys on every path
\* (proposal, relay, both discards and the cleanup), so that finalize never
\* moves on without a payload for reth ("No payload found").
BlocksHavePayloads == \A v \in Validators : pending[v] = payloads[v]

\* What a validator finalizes is one block per height from 1 on, and its
\* height and last_hash are those of that log: no certificate, however late,
\* repeated or out of order, makes it skip, repeat or step back.
LogMatchesState ==
    \A v \in Validators :
        LET log == finalizedLog[v]
        IN  /\ height[v] = Len(log) + 1
            /\ \A i \in 1 .. Len(log) : HeightOf(log[i]) = i
            /\ lastHash[v] = IF log = <<>> THEN Genesis ELSE log[Len(log)]

\* A validator builds at most one block per height, however many views it
\* leads at that height and whatever it is told to finalize in between.
OneProposalPerHeight ==
    \A b, c \in Blocks :
        /\ blocks[b].proposer = blocks[c].proposer
        /\ blocks[b].height = blocks[c].height
        => b = c

\* The null digest has no vote but that of the leader, because every other
\* validator refuses it.  So no view with it is notarized, except where one
\* vote is a quorum: a single validator notarizes what it proposes.
NullOnlyByLeader ==
    /\ round.status = "proposed" /\ round.digest = NullDigest
           => Cardinality(round.votes) = 1
    /\ \A n \in DOMAIN notarized : notarized[n] = NullDigest => Quorum = 1

\* Two validators never finalize different blocks at one height.
Agreement ==
    \A v, w \in Validators :
        \A i \in DOMAIN finalizedLog[v] \cap DOMAIN finalizedLog[w] :
            finalizedLog[v][i] = finalizedLog[w][i]

\* What a validator finalizes is a chain: each block's parent is the block
\* finalized before it, although finalize compares heights only.
FinalizedChain ==
    \A v \in Validators :
        LET log == finalizedLog[v]
        IN  \A i \in DOMAIN log :
                ParentOf(log[i]) = IF i = 1 THEN Genesis ELSE log[i - 1]
=============================================================================
