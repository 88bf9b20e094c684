--------------------------- MODULE AgreementProofs ---------------------------
(***************************************************************************)
(* Agreement of the validators in the absence of faults, for every         *)
(* validator set, quorum, mailbox size and number of views.                *)
(*                                                                         *)
(* Certificates decide the log: the block at a height is the first one     *)
(* certified there.  A validator goes by that, because its mailbox brings  *)
(* certificates in their order and each after its block, and because no    *)
(* certificate skips a height: a block is only built on a block that was   *)
(* finalized.  The log decided by certificates is therefore a sequence to  *)
(* which a certificate appends or does nothing, and every validator learns *)
(* it block by block: Application implements ReplicatedLog.                *)
(***************************************************************************)
EXTENDS ApplicationProofs, ApplicationRefinement, NumberFacts

Cert(k) == notarized[certs[k]]

\* The first certified block of its height.
IsFirst(b) ==
    \E k \in 1 .. Len(certs) :
        Cert(k) = b /\ \A j \in 1 .. k - 1 : HeightOf(Cert(j)) # HeightOf(b)

\* A block is one higher than its parent, which was decided before.
BlocksChained ==
    \A b \in Blocks :
        /\ ParentOf(b) \in Blocks \cup {Genesis}
        /\ HeightOf(b) = HeightOf(ParentOf(b)) + 1
        /\ ParentOf(b) # Genesis => IsFirst(ParentOf(b))

\* The parent of a certified block has an earlier certificate.  A certificate
\* of the null digest, if a single vote is a quorum, is of no height.
CertsChained ==
    \A k \in 1 .. Len(certs) :
        /\ Cert(k) \in Digests
        /\ Cert(k) \in Blocks /\ ParentOf(Cert(k)) # Genesis =>
               \E j \in 1 .. k - 1 : Cert(j) = ParentOf(Cert(k))

LogsAreFirst ==
    \A v \in Validators : \A i \in 1 .. Len(finalizedLog[v]) : IsFirst(finalizedLog[v][i])

ChainInv == BlocksChained /\ CertsChained /\ LogsAreFirst /\ FinalizedChain

----------------------------------------------------------------------------
(* A mailbox                                                               *)

FinalizeOf(b) == Message("finalize", 0, b)
ReceiveOf(b) == Message("receive", 0, b)

Past(v, b) == HeightOf(b) < height[v]
Earlier(v, p, m) == \E q \in 1 .. p - 1 : inbox[v][q] = m
InBox(v, m) == Earlier(v, Len(inbox[v]) + 1, m)
IsFinalize(v, p) == p \in 1 .. Len(inbox[v]) /\ inbox[v][p].type = "finalize"

\* A reported certificate was handled or is in the mailbox.
CertsArrive(v) ==
    /\ reported[v] \in 0 .. Len(certs)
    /\ \A k \in 1 .. reported[v] : \A b \in Blocks :
           b = Cert(k) => Past(v, b) \/ InBox(v, FinalizeOf(b))

\* Before a certificate in the mailbox there are all earlier ones ...
InCertOrder(v) ==
    \A p \in Nat : IsFinalize(v, p) =>
        \E k \in 1 .. reported[v] :
            /\ inbox[v][p].digest = Cert(k)
            /\ \A j \in 1 .. k - 1 : \A b \in Blocks :
                   b = Cert(j) => Past(v, b) \/ Earlier(v, p, FinalizeOf(b))

\* ... and its block.
BlocksArrive(v) ==
    \A b \in Blocks :
        b \in pending[v] \/ Past(v, b) \/ <<v, b>> \in relay \/ InBox(v, ReceiveOf(b))
BlockBeforeCert(v) ==
    \A p \in Nat : IsFinalize(v, p) =>
        \A b \in Blocks : b = inbox[v][p].digest =>
            b \in pending[v] \/ Past(v, b) \/ Earlier(v, p, ReceiveOf(b))

BoxInv(v) == CertsArrive(v) /\ InCertOrder(v) /\ BlocksArrive(v) /\ BlockBeforeCert(v)
MailInv == \A v \in Validators : BoxInv(v)

USE DEF Genesis, NullDigest

----------------------------------------------------------------------------
(* The first certificate of a height                                       *)

LEMMA CertTypes ==
    ASSUME TypeOK
    PROVE  /\ Len(certs) \in Nat /\ Len(notarized) \in Nat
           /\ \A k \in 1 .. Len(certs) : certs[k] \in 1 .. Len(notarized)
           /\ \A n \in 1 .. Len(notarized) : notarized[n] \in Digests
<1>1. certs \in Seq(1 .. Len(notarized)) /\ notarized \in Seq(Digests)
    BY DEF TypeOK
<1>2. Len(certs) \in Nat /\ Len(notarized) \in Nat
    BY <1>1, LenProperties
<1>3. \A k \in 1 .. Len(certs) : certs[k] \in 1 .. Len(notarized)
    BY <1>1, ElementOfSeq
<1>4. \A n \in 1 .. Len(notarized) : notarized[n] \in Digests
    BY <1>1, ElementOfSeq
<1>5. QED BY <1>2, <1>3, <1>4

\* There is only one.
LEMMA FirstIsOne ==
    ASSUME TypeOK, NEW b, NEW c, IsFirst(b), IsFirst(c), HeightOf(b) = HeightOf(c)
    PROVE  b = c
<1>1. PICK k \in 1 .. Len(certs) :
          Cert(k) = b /\ \A i \in 1 .. k - 1 : HeightOf(Cert(i)) # HeightOf(b)
    BY DEF IsFirst
<1>2. PICK j \in 1 .. Len(certs) :
          Cert(j) = c /\ \A i \in 1 .. j - 1 : HeightOf(Cert(i)) # HeightOf(c)
    BY DEF IsFirst
<1>3. Len(certs) \in Nat
    BY CertTypes
<1>4. CASE k < j
  <2>1. k \in 1 .. j - 1
    BY <1>3, <1>4
  <2>2. QED BY <1>1, <1>2, <2>1
<1>5. CASE j < k
  <2>1. j \in 1 .. k - 1
    BY <1>3, <1>5
  <2>2. QED BY <1>1, <1>2, <2>1
<1>6. CASE j = k
    BY <1>1, <1>2, <1>6
<1>7. QED BY <1>3, <1>4, <1>5, <1>6

\* What certificates and blocks a step adds changes none there is.
CertsGrow ==
    /\ Len(certs') \in Nat /\ Len(certs) <= Len(certs')
    /\ \A k \in 1 .. Len(certs) : Cert(k)' = Cert(k)
BlocksStay ==
    /\ Blocks \subseteq Blocks'
    /\ \A b \in Blocks \cup {Genesis, NullDigest} : HeightOf(b)' = HeightOf(b)

\* What a certificate is about is a block or the null digest.
LEMMA CertIsBlock ==
    ASSUME CertsChained, NEW k \in 1 .. Len(certs)
    PROVE  /\ Cert(k) \in Blocks => Cert(k) # NullDigest
           /\ Cert(k) \in Blocks' => Cert(k) \in Blocks
BY DEF CertsChained, Digests, Blocks

LEMMA FirstStays ==
    ASSUME TypeOK, CertsChained, CertsGrow, BlocksStay, NEW b \in Blocks, IsFirst(b)
    PROVE  IsFirst(b)'
<1>1. PICK k \in 1 .. Len(certs) :
          Cert(k) = b /\ \A j \in 1 .. k - 1 : HeightOf(Cert(j)) # HeightOf(b)
    BY DEF IsFirst
<1>2. Len(certs) \in Nat
    BY CertTypes
<1>3. k \in 1 .. Len(certs') /\ Cert(k)' = b
    BY <1>1, <1>2 DEF CertsGrow
<1>4. ASSUME NEW j \in 1 .. k - 1
      PROVE  HeightOf(Cert(j))' # HeightOf(b)'
  <2>1. j \in 1 .. Len(certs) /\ Cert(j) \in Blocks \cup {NullDigest}
    BY <1>2 DEF CertsChained, Digests
  <2>2. PICK c \in Blocks \cup {NullDigest} : c = Cert(j)
    BY <2>1
  <2>3. Cert(j)' = c
    BY <2>1, <2>2 DEF CertsGrow
  <2>4. HeightOf(Cert(j))' = HeightOf(c)'
    BY <2>3 DEF HeightOf
  <2>5. HeightOf(c)' = HeightOf(c) /\ HeightOf(b)' = HeightOf(b) /\ HeightOf(c) # HeightOf(b)
    BY <1>1, <2>2 DEF BlocksStay
  <2>6. QED BY <2>4, <2>5
<1>5. QED BY <1>3, <1>4 DEF IsFirst

----------------------------------------------------------------------------
(* Steps keep the chain                                                    *)

LEMMA ParentStays ==
    ASSUME UNCHANGED blocks
    PROVE  /\ BlocksStay /\ Blocks' = Blocks
           /\ \A b : ParentOf(b)' = ParentOf(b) /\ HeightOf(b)' = HeightOf(b)
BY DEF BlocksStay, Blocks, ParentOf, HeightOf

\* Without a new block or a longer log, only the new certificates matter.
LEMMA ChainStays ==
    ASSUME TypeOK, ChainInv, UNCHANGED <<blocks, finalizedLog>>, CertsGrow,
           \A k \in Len(certs) + 1 .. Len(certs') : Cert(k)' \in Digests
    PROVE  ChainInv'
<1>1. /\ BlocksStay /\ Blocks' = Blocks
      /\ \A b : ParentOf(b)' = ParentOf(b) /\ HeightOf(b)' = HeightOf(b)
    BY ParentStays
<1>2. \A b \in Blocks : IsFirst(b) => IsFirst(b)'
    BY <1>1, FirstStays DEF ChainInv
<1>3. Len(certs) \in Nat /\ Len(certs') \in Nat /\ Len(certs) <= Len(certs')
    BY CertTypes DEF CertsGrow
<1>4. BlocksChained'
  <2> SUFFICES ASSUME NEW b \in Blocks
               PROVE  /\ ParentOf(b)' \in Blocks \cup {Genesis}
                      /\ HeightOf(b)' = HeightOf(ParentOf(b))' + 1
                      /\ ParentOf(b)' # Genesis => IsFirst(ParentOf(b))'
    BY <1>1 DEF BlocksChained
  <2>1. PICK p \in Blocks \cup {Genesis} : p = ParentOf(b)
    BY DEF ChainInv, BlocksChained
  <2>2. ParentOf(b)' = p
    BY <1>1, <2>1
  <2>3. HeightOf(ParentOf(b))' = HeightOf(p)' /\ (IsFirst(p)' => IsFirst(ParentOf(b))')
    BY <2>2 DEF HeightOf, IsFirst
  <2>4. HeightOf(b)' = HeightOf(p)' + 1
    BY <1>1, <2>1 DEF ChainInv, BlocksChained
  <2>5. p # Genesis => IsFirst(p)'
    BY <1>2, <2>1 DEF ChainInv, BlocksChained
  <2>6. QED BY <2>2, <2>3, <2>4, <2>5
<1>5. CertsChained'
  <2> SUFFICES ASSUME NEW k \in 1 .. Len(certs')
               PROVE  /\ Cert(k)' \in Digests
                      /\ Cert(k)' \in Blocks /\ ParentOf(Cert(k))' # Genesis =>
                            \E j \in 1 .. k - 1 : Cert(j)' = ParentOf(Cert(k))'
    BY <1>1 DEF CertsChained, Digests
  <2>1. CASE k \in 1 .. Len(certs)
    <3>1. Cert(k)' = Cert(k) /\ Cert(k) \in Digests
      BY <2>1 DEF CertsGrow, ChainInv, CertsChained
    <3>2. ParentOf(Cert(k))' = ParentOf(Cert(k))
      BY <3>1 DEF ParentOf
    <3>3. \A j \in 1 .. k - 1 : Cert(j)' = Cert(j)
      BY <1>3, <2>1 DEF CertsGrow
    <3>4. QED BY <2>1, <3>1, <3>2, <3>3 DEF ChainInv, CertsChained
  <2>2. CASE k \notin 1 .. Len(certs)
    <3>1. k \in Len(certs) + 1 .. Len(certs')
      BY <1>3, <2>2
    <3>2. PICK b \in Digests : b = Cert(k)'
      BY <3>1
    <3>3. ParentOf(Cert(k))' = ParentOf(b)
      BY <3>2 DEF ParentOf
    <3>4. b \in Blocks /\ ParentOf(b) # Genesis =>
              \E j \in 1 .. Len(certs) : Cert(j) = ParentOf(b)
      BY DEF ChainInv, BlocksChained, IsFirst
    <3>5. \A j \in 1 .. Len(certs) : j \in 1 .. k - 1 /\ Cert(j)' = Cert(j)
      BY <1>3, <3>1 DEF CertsGrow
    <3>6. QED BY <3>2, <3>3, <3>4, <3>5
  <2>3. QED BY <2>1, <2>2
<1>6. LogsAreFirst'
  <2> SUFFICES ASSUME NEW v \in Validators, NEW i \in 1 .. Len(finalizedLog[v])
               PROVE  IsFirst(finalizedLog[v][i])'
    BY DEF LogsAreFirst
  <2>1. PICK b \in Blocks : b = finalizedLog[v][i]
    BY ElementOfSeq DEF TypeOK
  <2>2. IsFirst(b)'
    BY <1>2, <2>1 DEF ChainInv, LogsAreFirst
  <2>3. QED BY <2>1, <2>2 DEF IsFirst
<1>7. FinalizedChain'
    BY DEF ChainInv, FinalizedChain, ParentOf
<1>8. QED BY <1>4, <1>5, <1>6, <1>7 DEF ChainInv

\* The block that is built.
LEMMA ProposeBlockBuilds ==
    ASSUME IInv, NEW v \in Validators, ProposeBlock(v), NEW n, n = Len(blocks) + 1
    PROVE  /\ Blocks' = Blocks \cup {n} /\ n \notin Blocks /\ n # Genesis
           /\ \A b \in Blocks : blocks'[b] = blocks[b]
           /\ blocks'[n] = [height |-> HeightOf(lastHash[v]) + 1, parent |-> lastHash[v],
                            proposer |-> v]
           /\ \A b \in Blocks \cup {Genesis, NullDigest} : HeightOf(b)' = HeightOf(b)
<1> DEFINE r == [height |-> HeightOf(lastHash[v]) + 1, parent |-> lastHash[v], proposer |-> v]
<1>0. n = Len(blocks) + 1
    OBVIOUS
<1>1. blocks' = Append(blocks, r)
    BY DEF ProposeBlock
<1>2. TypeOK /\ lastHash[v] \in Blocks \cup {Genesis} /\ Len(blocks) \in Nat
    BY LenProperties DEF IInv, TypeOK
<1>3. r \in [height : Nat, parent : Nat, proposer : Validators]
  <2>1. HeightOf(lastHash[v]) \in Nat
    BY <1>2, HeightIsNat
  <2>2. lastHash[v] \in Nat
    BY <1>2 DEF Blocks
  <2>3. QED BY <2>1, <2>2
<1>4. n \notin Blocks /\ n # Genesis
    BY <1>2 DEF Blocks
<1> HIDE DEF r
<1>5. /\ Blocks' = Blocks \cup {n} /\ blocks'[n] = r
      /\ \A b \in Blocks : blocks'[b] = blocks[b]
      /\ \A b \in Blocks \cup {Genesis} : HeightOf(b)' = HeightOf(b)
    BY <1>1, <1>2, <1>3, BlocksGrow
<1>6. HeightOf(NullDigest)' = HeightOf(NullDigest)
  <2>1. NullDigest \notin Blocks /\ NullDigest \notin Blocks'
    BY <1>0, <1>2, <1>5 DEF Blocks
  <2>2. QED BY <2>1 DEF HeightOf
<1>7. QED BY <1>4, <1>5, <1>6 DEF r

\* A block is built on the last block of a log.
LEMMA ProposeBlockChain ==
    ASSUME IInv, ChainInv, NEW v \in Validators, ProposeBlock(v)
    PROVE  ChainInv'
<1>0. PICK n : n = Len(blocks) + 1
    OBVIOUS
<1> DEFINE parent == lastHash[v]
           r == [height |-> HeightOf(parent) + 1, parent |-> parent, proposer |-> v]
<1>1. /\ blocks' = Append(blocks, r)
      /\ UNCHANGED <<finalizedLog, notarized, certs>>
    BY DEF ProposeBlock
<1>2. TypeOK /\ parent \in Blocks \cup {Genesis} /\ Len(blocks) \in Nat
    BY LenProperties DEF IInv, TypeOK
<1>3. /\ Blocks' = Blocks \cup {n} /\ n \notin Blocks /\ n # Genesis
      /\ \A b \in Blocks : blocks'[b] = blocks[b]
      /\ blocks'[n] = r
      /\ \A b \in Blocks \cup {Genesis, NullDigest} : HeightOf(b)' = HeightOf(b)
    BY <1>0, ProposeBlockBuilds
<1>4. CertsGrow /\ BlocksStay
    BY <1>1, <1>2, <1>3, CertTypes DEF CertsGrow, BlocksStay, Cert
<1>5. \A b \in Blocks : IsFirst(b) => IsFirst(b)'
    BY <1>2, <1>4, FirstStays DEF ChainInv
<1>6. \A b \in Blocks : ParentOf(b)' = ParentOf(b)
    BY <1>3 DEF ParentOf
<1>7. parent # Genesis => IsFirst(parent)
  <2>1. parent # Genesis => /\ Len(finalizedLog[v]) \in 1 .. Len(finalizedLog[v])
                            /\ parent = finalizedLog[v][Len(finalizedLog[v])]
    BY <1>2, EmptySeq, LenProperties DEF IInv, LogMatchesState, TypeOK
  <2>2. QED BY <2>1 DEF ChainInv, LogsAreFirst
<1>8. BlocksChained'
  <2>1. ASSUME NEW b \in Blocks
        PROVE  /\ ParentOf(b)' \in Blocks' \cup {Genesis}
               /\ HeightOf(b)' = HeightOf(ParentOf(b))' + 1
               /\ ParentOf(b)' # Genesis => IsFirst(ParentOf(b))'
    <3>1. PICK p \in Blocks \cup {Genesis} : p = ParentOf(b)
      BY DEF ChainInv, BlocksChained
    <3>2. ParentOf(b)' = p
      BY <1>6, <3>1
    <3>3. HeightOf(ParentOf(b))' = HeightOf(p)' /\ (IsFirst(p)' => IsFirst(ParentOf(b))')
      BY <3>2 DEF HeightOf, IsFirst
    <3>4. HeightOf(b)' = HeightOf(p)' + 1
      BY <1>3, <3>1 DEF ChainInv, BlocksChained
    <3>5. p # Genesis => IsFirst(p)'
      BY <1>5, <3>1 DEF ChainInv, BlocksChained
    <3>6. QED BY <1>3, <3>2, <3>3, <3>4, <3>5
  <2>2. /\ ParentOf(n)' \in Blocks' \cup {Genesis}
        /\ HeightOf(n)' = HeightOf(ParentOf(n))' + 1
        /\ ParentOf(n)' # Genesis => IsFirst(ParentOf(n))'
    <3>1. PICK p \in Blocks \cup {Genesis} : p = parent
      BY <1>2
    <3>2. ParentOf(n)' = p /\ HeightOf(n)' = HeightOf(p) + 1
      <4>1. blocks'[n].parent = p /\ blocks'[n].height = HeightOf(p) + 1
        BY <1>3, <3>1
      <4>2. QED BY <1>3, <4>1 DEF ParentOf, HeightOf
    <3>3. HeightOf(ParentOf(n))' = HeightOf(p)' /\ (IsFirst(p)' => IsFirst(ParentOf(n))')
      BY <3>2 DEF HeightOf, IsFirst
    <3>4. p # Genesis => IsFirst(p)'
      BY <1>5, <1>7, <3>1
    <3>5. QED BY <1>3, <3>2, <3>3, <3>4
  <2>3. ASSUME NEW b \in Blocks'
        PROVE  /\ ParentOf(b)' \in Blocks' \cup {Genesis}
               /\ HeightOf(b)' = HeightOf(ParentOf(b))' + 1
               /\ ParentOf(b)' # Genesis => IsFirst(ParentOf(b))'
    <3>1. CASE b \in Blocks
      BY <2>1, <3>1
    <3>2. CASE b = n
      BY <2>2, <3>2
    <3>3. QED BY <1>3, <3>1, <3>2
  <2>4. QED BY <2>3 DEF BlocksChained
<1>9. CertsChained'
  <2>1. ASSUME NEW k \in 1 .. Len(certs)
        PROVE  /\ Cert(k)' = Cert(k) /\ Cert(k) \in Digests
               /\ Cert(k) \in Blocks' => Cert(k) \in Blocks
               /\ Cert(k) \in Blocks => ParentOf(Cert(k))' = ParentOf(Cert(k))
    <3>1. Cert(k)' = Cert(k) /\ Cert(k) \in Digests
      BY <1>4 DEF CertsGrow, ChainInv, CertsChained
    <3>2. Cert(k) \in Blocks => ParentOf(Cert(k))' = ParentOf(Cert(k))
      BY <1>3, <3>1 DEF ParentOf
    <3>3. n # NullDigest
      BY <1>0, <1>2
    <3>4. QED BY <1>3, <3>1, <3>2, <3>3 DEF Digests
  <2>2. \A k \in 1 .. Len(certs) : \A j \in 1 .. k - 1 : j \in 1 .. Len(certs)
    BY <1>2, CertTypes
  <2>3. certs' = certs
    BY <1>1
  <2>4. Digests \subseteq Digests'
    BY <1>3 DEF Digests
  <2>5. \A k \in 1 .. Len(certs) : Cert(k)' \in Digests'
    BY <2>1, <2>4
  <2>6. ASSUME NEW k \in 1 .. Len(certs), Cert(k)' \in Blocks', ParentOf(Cert(k))' # Genesis
        PROVE  \E j \in 1 .. k - 1 : Cert(j)' = ParentOf(Cert(k))'
    <3>1. Cert(k) \in Blocks /\ ParentOf(Cert(k))' = ParentOf(Cert(k))
      BY <2>1, <2>6
    <3>2. PICK j \in 1 .. k - 1 : Cert(j) = ParentOf(Cert(k))
      BY <2>6, <3>1 DEF ChainInv, CertsChained
    <3>3. Cert(j)' = Cert(j)
      BY <2>1, <2>2
    <3>4. QED BY <3>1, <3>2, <3>3
  <2>7. QED BY <2>3, <2>5, <2>6 DEF CertsChained
<1>10. \A w \in Validators : \A i \in 1 .. Len(finalizedLog[w]) : finalizedLog[w][i] \in Blocks
    BY <1>2, ElementOfSeq DEF TypeOK
<1>11. LogsAreFirst'
  <2> SUFFICES ASSUME NEW w \in Validators, NEW i \in 1 .. Len(finalizedLog[w])
               PROVE  IsFirst(finalizedLog[w][i])'
    BY <1>1 DEF LogsAreFirst
  <2>1. PICK b \in Blocks : b = finalizedLog[w][i]
    BY <1>10
  <2>2. IsFirst(b)' /\ finalizedLog' = finalizedLog
    BY <1>1, <1>5, <2>1 DEF ChainInv, LogsAreFirst
  <2>3. QED BY <2>1, <2>2 DEF IsFirst
<1>12. FinalizedChain'
  <2>1. \A w \in Validators : DOMAIN finalizedLog[w] = 1 .. Len(finalizedLog[w])
    BY <1>2, LenProperties DEF TypeOK
  <2>2. \A w \in Validators : \A i \in DOMAIN finalizedLog[w] :
            blocks'[finalizedLog[w][i]] = blocks[finalizedLog[w][i]]
    BY <1>3, <1>10, <2>1
  <2>3. finalizedLog' = finalizedLog
    BY <1>1
  <2>4. QED BY <2>2, <2>3 DEF ChainInv, FinalizedChain, ParentOf
<1>13. QED BY <1>8, <1>9, <1>11, <1>12 DEF ChainInv

----------------------------------------------------------------------------
(* Steps keep the mailboxes                                                *)

\* Taking a message moves the others up.
LEMMA TakeShifts ==
    ASSUME TypeOK, NEW v \in Validators, NEW type, Takes(v, type)
    PROVE  /\ Len(inbox[v]) \in Nat \ {0} /\ Len(inbox'[v]) = Len(inbox[v]) - 1
           /\ inbox[v][1] = Head(inbox[v])
           /\ \A p \in 1 .. Len(inbox'[v]) : inbox'[v][p] = inbox[v][p + 1]
           /\ \A p \in 1 .. Len(inbox[v]) : \A m :
                  Earlier(v, p + 1, m) => m = Head(inbox[v]) \/ Earlier(v, p, m)'
           /\ \A w \in Validators \ {v} : inbox'[w] = inbox[w]
<1>1. /\ inbox \in [Validators -> Seq(Messages)]
      /\ inbox[v] # <<>>
      /\ inbox' = [inbox EXCEPT ![v] = Tail(inbox[v])]
    BY DEF TypeOK, Takes
<1>2. /\ Len(inbox[v]) \in Nat \ {0}
      /\ Head(inbox[v]) = inbox[v][1]
      /\ Len(Tail(inbox[v])) = Len(inbox[v]) - 1
      /\ \A i \in 1 .. Len(Tail(inbox[v])) : Tail(inbox[v])[i] = inbox[v][i + 1]
    BY <1>1, HeadTailProperties, EmptySeq
<1>3. inbox'[v] = Tail(inbox[v])
    BY <1>1
<1>4. ASSUME NEW p \in 1 .. Len(inbox[v]), NEW m, Earlier(v, p + 1, m), m # Head(inbox[v])
      PROVE  Earlier(v, p, m)'
  <2>1. PICK q \in 1 .. (p + 1) - 1 : inbox[v][q] = m
    BY <1>4 DEF Earlier
  <2>2. q # 1
    BY <1>2, <1>4, <2>1
  <2>3. q - 1 \in 1 .. p - 1 /\ q - 1 \in 1 .. Len(inbox'[v]) /\ (q - 1) + 1 = q
    BY <1>2, <1>3, <2>1, <2>2
  <2>4. inbox'[v][q - 1] = m
    BY <1>2, <1>3, <2>1, <2>3
  <2>5. QED BY <2>3, <2>4 DEF Earlier
<1>5. QED BY <1>1, <1>2, <1>3, <1>4

\* A message that is sent is the last one.
LEMMA SendAppends ==
    ASSUME TypeOK, Faults = {}, NEW v \in Validators, NEW m, TrySend(v, m)
    PROVE  /\ Len(inbox[v]) \in Nat /\ Len(inbox'[v]) = Len(inbox[v]) + 1
           /\ \A p \in 1 .. Len(inbox[v]) : inbox'[v][p] = inbox[v][p]
           /\ inbox'[v][Len(inbox[v]) + 1] = m
           /\ \A p \in Nat : \A x : p <= Len(inbox[v]) + 1 /\ Earlier(v, p, x) => Earlier(v, p, x)'
           /\ \A x : InBox(v, x) => InBox(v, x)'
           /\ InBox(v, m)'
           /\ \A w \in Validators \ {v} : inbox'[w] = inbox[w]
<1>1. inbox \in [Validators -> Seq(Messages)]
    BY DEF TypeOK
<1>2. inbox' = [inbox EXCEPT ![v] = Append(inbox[v], m)]
    BY DEF TrySend
<1>3. /\ Len(inbox[v]) \in Nat
      /\ Len(Append(inbox[v], m)) = Len(inbox[v]) + 1
      /\ \A i \in 1 .. Len(inbox[v]) : Append(inbox[v], m)[i] = inbox[v][i]
      /\ Append(inbox[v], m)[Len(inbox[v]) + 1] = m
  <2>1. inbox[v] \in Seq(Messages \cup {m})
    BY <1>1, SeqMonotonic
  <2>2. QED BY <2>1, AppendProperties, LenProperties
<1>4. inbox'[v] = Append(inbox[v], m)
    BY <1>1, <1>2
<1>5. ASSUME NEW p \in Nat, NEW x, p <= Len(inbox[v]) + 1, Earlier(v, p, x)
      PROVE  Earlier(v, p, x)'
  <2>1. PICK q \in 1 .. p - 1 : inbox[v][q] = x
    BY <1>5 DEF Earlier
  <2>2. q \in 1 .. Len(inbox[v])
    BY <1>3, <1>5
  <2>3. QED BY <1>3, <1>4, <2>1, <2>2 DEF Earlier
<1>6. ASSUME NEW x, InBox(v, x) PROVE InBox(v, x)'
  <2>1. PICK q \in 1 .. (Len(inbox[v]) + 1) - 1 : inbox[v][q] = x
    BY <1>6 DEF InBox, Earlier
  <2>2. q \in 1 .. Len(inbox[v]) /\ q \in 1 .. (Len(inbox'[v]) + 1) - 1
    BY <1>3, <1>4
  <2>3. QED BY <1>3, <1>4, <2>1, <2>2 DEF InBox, Earlier
<1>7. InBox(v, m)'
  <2>1. Len(inbox[v]) + 1 \in 1 .. (Len(inbox'[v]) + 1) - 1
    BY <1>3, <1>4
  <2>2. QED BY <1>3, <1>4, <2>1 DEF InBox, Earlier
<1>8. QED BY <1>1, <1>2, <1>3, <1>4, <1>5, <1>6, <1>7

\* A certificate at the head of a mailbox that is about a block: its height is
\* not above ours, no earlier certificate is above it, and its block
\* is held unless it is past.
LEMMA HeadOfBox ==
    ASSUME IInv, ChainInv, NEW v \in Validators, BoxInv(v), Takes(v, "finalize"),
           NEW b \in Blocks, b = Head(inbox[v]).digest
    PROVE  /\ HeightOf(b) \in Nat /\ HeightOf(b) <= height[v]
           /\ b \in pending[v] \/ Past(v, b)
           /\ HeightOf(b) = height[v] => IsFirst(b)
<1>0. TypeOK
    BY DEF IInv
<1>1. /\ Len(inbox[v]) \in Nat \ {0} /\ inbox[v][1] = Head(inbox[v])
      /\ IsFinalize(v, 1) /\ \A m : ~Earlier(v, 1, m)
    BY <1>0, TakeShifts DEF IsFinalize, Earlier, Takes
<1>2. PICK k \in 1 .. reported[v] :
          b = Cert(k) /\ \A j \in 1 .. k - 1 : \A c \in Blocks : c = Cert(j) => Past(v, c)
    BY <1>1 DEF BoxInv, InCertOrder
<1>3. k \in 1 .. Len(certs) /\ Len(certs) \in Nat
    BY <1>0, CertTypes DEF BoxInv, CertsArrive
<1>4. /\ b \in Blocks
      /\ \A j \in 1 .. Len(certs) : Cert(j) \in Blocks \/ Cert(j) = NullDigest
    BY DEF ChainInv, CertsChained, Digests
<1>5. b \in pending[v] \/ Past(v, b)
    BY <1>1, <1>4 DEF BoxInv, BlockBeforeCert
<1>6. HeightOf(b) \in Nat /\ height[v] \in Nat
    BY <1>0, <1>4, HeightIsNat DEF TypeOK
<1>7. HeightOf(b) <= height[v]
  <2>1. PICK p \in Blocks \cup {Genesis} : p = ParentOf(b) /\ HeightOf(b) = HeightOf(p) + 1
    BY <1>4 DEF ChainInv, BlocksChained
  <2>2. HeightOf(p) \in Nat
    BY <1>0, <2>1, HeightIsNat
  <2>3. CASE p = Genesis
    <3>1. height[v] >= 1
      <4>1. Len(finalizedLog[v]) \in Nat
        BY <1>0, LenProperties DEF TypeOK
      <4>2. QED BY <4>1 DEF IInv, LogMatchesState
    <3>2. HeightOf(p) = 0
      BY <2>3 DEF HeightOf, Blocks
    <3>3. QED BY <2>1, <3>1, <3>2, <1>6
  <2>4. CASE p # Genesis
    <3>1. PICK j \in 1 .. k - 1 : Cert(j) = p
      BY <1>2, <1>3, <1>4, <2>1, <2>4 DEF ChainInv, CertsChained
    <3>2. HeightOf(p) < height[v]
      BY <1>2, <2>1, <2>4, <3>1 DEF Past
    <3>3. QED BY <1>6, <2>1, <2>2, <3>2
  <2>5. QED BY <2>3, <2>4
<1>8. ASSUME HeightOf(b) = height[v] PROVE IsFirst(b)
  <2>1. \A j \in 1 .. k - 1 : j \in 1 .. Len(certs) /\ HeightOf(Cert(j)) # HeightOf(b)
    <3> SUFFICES ASSUME NEW j \in 1 .. k - 1
                 PROVE  j \in 1 .. Len(certs) /\ HeightOf(Cert(j)) # HeightOf(b)
      OBVIOUS
    <3>1. j \in 1 .. Len(certs)
      BY <1>3
    <3>2. CASE Cert(j) \in Blocks
      <4>1. PICK c \in Blocks : c = Cert(j)
        BY <3>2
      <4>2. HeightOf(c) \in Nat
        BY <1>0, HeightIsNat
      <4>3. HeightOf(c) < height[v]
        BY <1>2, <4>1 DEF Past
      <4>4. QED BY <1>6, <1>8, <3>1, <4>1, <4>2, <4>3
    <3>3. CASE Cert(j) = NullDigest
      <4>1. HeightOf(Cert(j)) = 0
        BY <3>3 DEF HeightOf, Blocks
      <4>2. height[v] # 0
        <5>1. Len(finalizedLog[v]) \in Nat
          BY <1>0, LenProperties DEF TypeOK
        <5>2. QED BY <5>1 DEF IInv, LogMatchesState
      <4>3. QED BY <1>8, <3>1, <4>1, <4>2
    <3>4. QED BY <1>4, <3>1, <3>2, <3>3
  <2>2. QED BY <1>2, <1>3, <2>1 DEF IsFirst
<1>9. QED BY <1>4, <1>5, <1>6, <1>7, <1>8

\* The actor takes a message: nothing it held is forgotten but what is past,
\* and the message it takes has its effect.
LEMMA TakeBox ==
    ASSUME TypeOK, ChainInv, NEW v \in Validators, BoxInv(v), NEW type, Takes(v, type),
           UNCHANGED <<notarized, certs, reported>>, BlocksStay, relay \subseteq relay',
           height[v] <= height'[v], height'[v] \in Nat,
           \A b \in pending[v] : b \in pending'[v] \/ HeightOf(b) < height'[v],
           \A b \in Blocks' : b \in Blocks \/ b \in pending'[v] \/ <<v, b>> \in relay',
           type = "finalize" => \A b \in Blocks :
               b = Head(inbox[v]).digest => HeightOf(b) < height'[v],
           type = "receive" => Head(inbox[v]).digest \in pending'[v]
    PROVE  BoxInv(v)'
<1>1. /\ Len(inbox[v]) \in Nat \ {0} /\ Len(inbox'[v]) = Len(inbox[v]) - 1
      /\ \A p \in 1 .. Len(inbox'[v]) : inbox'[v][p] = inbox[v][p + 1]
      /\ \A p \in 1 .. Len(inbox[v]) : \A m :
             Earlier(v, p + 1, m) => m = Head(inbox[v]) \/ Earlier(v, p, m)'
      /\ Head(inbox[v]).type = type
    BY TakeShifts DEF Takes
<1>2. /\ Len(certs) \in Nat /\ reported[v] \in 0 .. Len(certs)
      /\ certs' = certs /\ reported' = reported
      /\ \A k : Cert(k)' = Cert(k)
      /\ \A k \in 1 .. Len(certs) : Cert(k) \in Blocks' => Cert(k) \in Blocks
  <2>1. Len(certs) \in Nat /\ reported[v] \in 0 .. Len(certs)
    BY CertTypes DEF BoxInv, CertsArrive
  <2>2. \A k \in 1 .. Len(certs) : Cert(k) \in Blocks' => Cert(k) \in Blocks
    BY CertIsBlock DEF ChainInv
  <2>3. QED BY <2>1, <2>2 DEF Cert
<1>3. \A b \in Blocks : HeightOf(b) < height'[v] => Past(v, b)'
    BY DEF Past, BlocksStay
<1>4. \A b \in Blocks : Past(v, b) => Past(v, b)'
  <2> SUFFICES ASSUME NEW b \in Blocks, HeightOf(b) < height[v]
               PROVE  HeightOf(b) < height'[v]
    BY <1>3 DEF Past
  <2>1. HeightOf(b) \in Nat /\ height[v] \in Nat
    BY HeightIsNat DEF TypeOK
  <2>2. QED BY <2>1
<1>5. \A p \in 1 .. Len(inbox[v]) : \A b \in Blocks :
          Earlier(v, p + 1, FinalizeOf(b)) => Past(v, b)' \/ Earlier(v, p, FinalizeOf(b))'
  <2> SUFFICES ASSUME NEW p \in 1 .. Len(inbox[v]), NEW b \in Blocks,
                      FinalizeOf(b) = Head(inbox[v])
               PROVE  Past(v, b)'
    BY <1>1 DEF FinalizeOf, Message
  <2>1. type = "finalize" /\ Head(inbox[v]).digest = b
    BY <1>1 DEF FinalizeOf, Message
  <2>2. QED BY <1>3, <2>1
<1>6. \A p \in 1 .. Len(inbox[v]) : \A b \in Blocks :
          Earlier(v, p + 1, ReceiveOf(b)) => b \in pending'[v] \/ Earlier(v, p, ReceiveOf(b))'
  <2> SUFFICES ASSUME NEW p \in 1 .. Len(inbox[v]), NEW b \in Blocks,
                      ReceiveOf(b) = Head(inbox[v])
               PROVE  b \in pending'[v]
    BY <1>1 DEF ReceiveOf, Message
  <2>1. type = "receive" /\ Head(inbox[v]).digest = b
    BY <1>1 DEF ReceiveOf, Message
  <2>2. QED BY <2>1
<1>7. PICK n \in 1 .. Len(inbox[v]) : n = Len(inbox[v])
    BY <1>1
<1>8. \A m : (InBox(v, m) => Earlier(v, n + 1, m)) /\ (Earlier(v, n, m)' => InBox(v, m)')
  <2>1. n = Len(inbox'[v]) + 1
    BY <1>1, <1>7
  <2>2. QED BY <1>7, <2>1 DEF InBox, Earlier
<1>9. CertsArrive(v)'
  <2> SUFFICES ASSUME NEW k \in 1 .. reported[v], NEW b \in Blocks', b = Cert(k)
               PROVE  Past(v, b)' \/ InBox(v, FinalizeOf(b))'
    BY <1>2 DEF CertsArrive
  <2>1. b \in Blocks
    BY <1>2
  <2>2. Past(v, b) \/ InBox(v, FinalizeOf(b))
    BY <2>1 DEF BoxInv, CertsArrive
  <2>3. QED BY <1>4, <1>5, <1>7, <1>8, <2>1, <2>2
<1>10. ASSUME NEW p \in Nat, IsFinalize(v, p)'
       PROVE  /\ IsFinalize(v, p + 1) /\ p + 1 \in Nat /\ p \in 1 .. Len(inbox[v])
              /\ inbox'[v][p] = inbox[v][p + 1]
  <2>1. p \in 1 .. Len(inbox'[v]) /\ inbox'[v][p].type = "finalize"
    BY <1>10 DEF IsFinalize
  <2>2. QED BY <1>1, <2>1 DEF IsFinalize
<1>11. InCertOrder(v)'
  <2> SUFFICES ASSUME NEW p \in Nat, IsFinalize(v, p)'
               PROVE  \E k \in 1 .. reported[v] :
                          /\ inbox'[v][p].digest = Cert(k)
                          /\ \A j \in 1 .. k - 1 : \A b \in Blocks' :
                                 b = Cert(j) => Past(v, b)' \/ Earlier(v, p, FinalizeOf(b))'
    BY <1>2 DEF InCertOrder
  <2>1. PICK k \in 1 .. reported[v] :
            /\ inbox[v][p + 1].digest = Cert(k)
            /\ \A j \in 1 .. k - 1 : \A b \in Blocks :
                   b = Cert(j) => Past(v, b) \/ Earlier(v, p + 1, FinalizeOf(b))
    BY <1>10 DEF BoxInv, InCertOrder
  <2>2. ASSUME NEW j \in 1 .. k - 1, NEW b \in Blocks', b = Cert(j)
        PROVE  Past(v, b)' \/ Earlier(v, p, FinalizeOf(b))'
    <3>1. j \in 1 .. Len(certs)
      BY <1>2
    <3>2. b \in Blocks
      BY <1>2, <2>2, <3>1
    <3>3. QED BY <1>4, <1>5, <1>10, <2>1, <2>2, <3>2
  <2>3. QED BY <1>10, <2>1, <2>2
<1>12. BlocksArrive(v)'
  <2> SUFFICES ASSUME NEW b \in Blocks'
               PROVE  \/ b \in pending'[v] \/ Past(v, b)'
                      \/ <<v, b>> \in relay' \/ InBox(v, ReceiveOf(b))'
    BY DEF BlocksArrive
  <2>1. CASE b \in Blocks
    <3>1. b \in pending[v] \/ Past(v, b) \/ <<v, b>> \in relay \/ InBox(v, ReceiveOf(b))
      BY <2>1 DEF BoxInv, BlocksArrive
    <3>2. QED BY <1>3, <1>4, <1>6, <1>7, <1>8, <2>1, <3>1
  <2>2. CASE b \notin Blocks
    BY <2>2
  <2>3. QED BY <2>1, <2>2
<1>13. BlockBeforeCert(v)'
  <2> SUFFICES ASSUME NEW p \in Nat, IsFinalize(v, p)',
                      NEW b \in Blocks', b = inbox'[v][p].digest
               PROVE  b \in pending'[v] \/ Past(v, b)' \/ Earlier(v, p, ReceiveOf(b))'
    BY DEF BlockBeforeCert
  <2>1. b \in Blocks
    <3>1. \E k \in 1 .. reported[v] : inbox[v][p + 1].digest = Cert(k)
      BY <1>10 DEF BoxInv, InCertOrder
    <3>2. QED BY <1>2, <1>10, <3>1
  <2>2. b \in pending[v] \/ Past(v, b) \/ Earlier(v, p + 1, ReceiveOf(b))
    BY <1>10, <2>1 DEF BoxInv, BlockBeforeCert
  <2>3. QED BY <1>3, <1>4, <1>6, <1>10, <2>1, <2>2
<1>14. QED BY <1>9, <1>11, <1>12, <1>13 DEF BoxInv

\* A step that leaves a validator alone: there may be new certificates, and
\* new blocks are relayed to it.
LEMMA SameBox ==
    ASSUME TypeOK, ChainInv, NEW v \in Validators, BoxInv(v), CertsGrow, BlocksStay,
           inbox'[v] = inbox[v], height'[v] = height[v], pending'[v] = pending[v],
           reported'[v] = reported[v],
           \A b \in Blocks : <<v, b>> \in relay => <<v, b>> \in relay',
           \A b \in Blocks' : b \in Blocks \/ <<v, b>> \in relay'
    PROVE  BoxInv(v)'
<1>1. /\ Len(certs) \in Nat /\ reported[v] \in 0 .. Len(certs) /\ reported'[v] \in 0 .. Len(certs')
      /\ \A k \in 1 .. Len(certs) :
             Cert(k)' = Cert(k) /\ (Cert(k) \in Blocks' => Cert(k) \in Blocks)
  <2>1. Len(certs) \in Nat /\ reported[v] \in 0 .. Len(certs)
    BY CertTypes DEF BoxInv, CertsArrive
  <2>2. \A k \in 1 .. Len(certs) : Cert(k) \in Blocks' => Cert(k) \in Blocks
    BY CertIsBlock DEF ChainInv
  <2>3. QED BY <2>1, <2>2 DEF CertsGrow
<1>2. /\ \A b \in Blocks : Past(v, b)' = Past(v, b)
      /\ \A m : InBox(v, m)' = InBox(v, m)
      /\ \A p, m : Earlier(v, p, m)' = Earlier(v, p, m)
      /\ \A p : IsFinalize(v, p)' = IsFinalize(v, p)
    BY DEF Past, BlocksStay, InBox, Earlier, IsFinalize
<1>3. CertsArrive(v)'
  <2> SUFFICES ASSUME NEW k \in 1 .. reported[v], NEW b \in Blocks', b = Cert(k)'
               PROVE  Past(v, b)' \/ InBox(v, FinalizeOf(b))'
    BY <1>1 DEF CertsArrive
  <2>1. k \in 1 .. Len(certs)
    BY <1>1
  <2>2. b = Cert(k) /\ b \in Blocks
    BY <1>1, <2>1
  <2>3. Past(v, b) \/ InBox(v, FinalizeOf(b))
    BY <2>2 DEF BoxInv, CertsArrive
  <2>4. QED BY <1>2, <2>2, <2>3
<1>4. InCertOrder(v)'
  <2> SUFFICES ASSUME NEW p \in Nat, IsFinalize(v, p)
               PROVE  \E k \in 1 .. reported[v] :
                          /\ inbox[v][p].digest = Cert(k)'
                          /\ \A j \in 1 .. k - 1 : \A b \in Blocks' :
                                 b = Cert(j)' => Past(v, b)' \/ Earlier(v, p, FinalizeOf(b))'
    BY <1>2 DEF InCertOrder
  <2>1. PICK k \in 1 .. reported[v] :
            /\ inbox[v][p].digest = Cert(k)
            /\ \A j \in 1 .. k - 1 : \A b \in Blocks :
                   b = Cert(j) => Past(v, b) \/ Earlier(v, p, FinalizeOf(b))
    BY DEF BoxInv, InCertOrder
  <2>2. k \in 1 .. Len(certs)
    BY <1>1
  <2>3. ASSUME NEW j \in 1 .. k - 1, NEW b \in Blocks', b = Cert(j)'
        PROVE  Past(v, b)' \/ Earlier(v, p, FinalizeOf(b))'
    <3>1. j \in 1 .. Len(certs)
      BY <1>1
    <3>2. b \in Blocks /\ b = Cert(j)
      BY <1>1, <2>3, <3>1
    <3>3. QED BY <1>2, <2>1, <3>2
  <2>4. QED BY <1>1, <2>1, <2>2, <2>3
<1>5. BlocksArrive(v)'
    BY <1>2 DEF BoxInv, BlocksArrive, ReceiveOf
<1>6. BlockBeforeCert(v)'
  <2> SUFFICES ASSUME NEW p \in Nat, IsFinalize(v, p),
                      NEW b \in Blocks', b = inbox[v][p].digest
               PROVE  b \in pending[v] \/ Past(v, b)' \/ Earlier(v, p, ReceiveOf(b))'
    BY <1>2 DEF BlockBeforeCert
  <2>1. b \in Blocks
    <3>1. PICK k \in 1 .. reported[v] : inbox[v][p].digest = Cert(k)
      BY DEF BoxInv, InCertOrder
    <3>2. k \in 1 .. Len(certs)
      BY <1>1
    <3>3. QED BY <1>1, <3>1, <3>2
  <2>2. QED BY <1>2, <2>1 DEF BoxInv, BlockBeforeCert
<1>7. QED BY <1>3, <1>4, <1>5, <1>6 DEF BoxInv

\* A message is sent: a block that was relayed, the next certificate when its
\* block is no longer in flight, or a request.
LEMMA SendBox ==
    ASSUME TypeOK, ChainInv, Faults = {}, NEW v \in Validators, BoxInv(v),
           NEW m, TrySend(v, m), UNCHANGED <<blocks, height, pending, notarized, certs>>,
           \/ /\ m.type # "finalize" /\ reported'[v] = reported[v]
              /\ \A b \in Blocks : <<v, b>> \in relay => <<v, b>> \in relay' \/ m = ReceiveOf(b)
           \/ /\ reported'[v] = reported[v] + 1 /\ reported'[v] \in 1 .. Len(certs)
              /\ m = FinalizeOf(Cert(reported[v] + 1))
              /\ <<v, Cert(reported[v] + 1)>> \notin relay /\ relay' = relay
    PROVE  BoxInv(v)'
<1>1. PICK n \in Nat : n = Len(inbox[v])
    BY SendAppends
<1>2. /\ Len(inbox'[v]) = n + 1
      /\ \A p \in 1 .. n : inbox'[v][p] = inbox[v][p]
      /\ inbox'[v][n + 1] = m
      /\ \A p \in Nat : \A x : p <= n + 1 /\ Earlier(v, p, x) => Earlier(v, p, x)'
      /\ \A x : InBox(v, x) => InBox(v, x)' /\ Earlier(v, n + 1, x)'
      /\ InBox(v, m)'
    BY <1>1, SendAppends DEF InBox
<1>3. /\ Len(certs) \in Nat /\ reported[v] \in 0 .. Len(certs)
      /\ certs' = certs /\ Blocks' = Blocks
      /\ \A k : Cert(k)' = Cert(k)
      /\ \A b : Past(v, b)' = Past(v, b)
    BY CertTypes DEF BoxInv, CertsArrive, Cert, Past, HeightOf, Blocks
<1>4. \/ reported'[v] = reported[v] /\ m.type # "finalize"
      \/ /\ reported'[v] = reported[v] + 1 /\ reported'[v] \in 1 .. Len(certs)
         /\ m = FinalizeOf(Cert(reported'[v])) /\ <<v, Cert(reported'[v])>> \notin relay
    OBVIOUS
<1>5. CertsArrive(v)'
  <2> SUFFICES ASSUME NEW k \in 1 .. reported'[v], NEW b \in Blocks, b = Cert(k)
               PROVE  Past(v, b)' \/ InBox(v, FinalizeOf(b))'
    BY <1>3, <1>4 DEF CertsArrive
  <2>1. CASE k \in 1 .. reported[v]
    <3>1. Past(v, b) \/ InBox(v, FinalizeOf(b))
      BY <2>1 DEF BoxInv, CertsArrive
    <3>2. QED BY <1>2, <1>3, <3>1
  <2>2. CASE k \notin 1 .. reported[v]
    <3>1. m = FinalizeOf(b)
      BY <1>3, <1>4, <2>2
    <3>2. QED BY <1>2, <3>1
  <2>3. QED BY <2>1, <2>2
<1>6. ASSUME NEW p \in Nat, IsFinalize(v, p)'
      PROVE  \/ p <= n + 1 /\ IsFinalize(v, p) /\ inbox'[v][p] = inbox[v][p]
             \/ p = n + 1 /\ inbox'[v][p] = m /\ m.type = "finalize"
  <2>1. p \in 1 .. Len(inbox'[v]) /\ inbox'[v][p].type = "finalize"
    BY <1>6 DEF IsFinalize
  <2>2. QED BY <1>1, <1>2, <2>1 DEF IsFinalize
<1>7. InCertOrder(v)'
  <2> SUFFICES ASSUME NEW p \in Nat, IsFinalize(v, p)'
               PROVE  \E k \in 1 .. reported'[v] :
                          /\ inbox'[v][p].digest = Cert(k)
                          /\ \A j \in 1 .. k - 1 : \A b \in Blocks :
                                 b = Cert(j) => Past(v, b)' \/ Earlier(v, p, FinalizeOf(b))'
    BY <1>3 DEF InCertOrder
  <2>1. CASE p <= n + 1 /\ IsFinalize(v, p) /\ inbox'[v][p] = inbox[v][p]
    <3>1. PICK k \in 1 .. reported[v] :
              /\ inbox[v][p].digest = Cert(k)
              /\ \A j \in 1 .. k - 1 : \A b \in Blocks :
                     b = Cert(j) => Past(v, b) \/ Earlier(v, p, FinalizeOf(b))
      BY <2>1 DEF BoxInv, InCertOrder
    <3>2. k \in 1 .. reported'[v]
      BY <1>3, <1>4
    <3>3. QED BY <1>2, <1>3, <2>1, <3>1, <3>2
  <2>2. CASE p = n + 1 /\ inbox'[v][p] = m /\ m.type = "finalize"
    <3>1. PICK k \in 1 .. reported'[v] :
              k = reported[v] + 1 /\ m = FinalizeOf(Cert(k))
      BY <1>3, <1>4, <2>2
    <3>2. inbox'[v][p].digest = Cert(k)
      BY <2>2, <3>1 DEF FinalizeOf, Message
    <3>3. ASSUME NEW j \in 1 .. k - 1, NEW b \in Blocks, b = Cert(j)
          PROVE  Past(v, b)' \/ Earlier(v, p, FinalizeOf(b))'
      <4>1. j \in 1 .. reported[v]
        BY <1>3, <3>1
      <4>2. Past(v, b) \/ InBox(v, FinalizeOf(b))
        BY <3>3, <4>1 DEF BoxInv, CertsArrive
      <4>3. QED BY <1>2, <1>3, <2>2, <4>2
    <3>4. QED BY <3>2, <3>3
  <2>3. QED BY <1>6, <2>1, <2>2
<1>8. BlocksArrive(v)'
  <2> SUFFICES ASSUME NEW b \in Blocks
               PROVE  \/ b \in pending'[v] \/ Past(v, b)'
                      \/ <<v, b>> \in relay' \/ InBox(v, ReceiveOf(b))'
    BY <1>3 DEF BlocksArrive
  <2>1. b \in pending[v] \/ Past(v, b) \/ <<v, b>> \in relay \/ InBox(v, ReceiveOf(b))
    BY DEF BoxInv, BlocksArrive
  <2>2. <<v, b>> \in relay => <<v, b>> \in relay' \/ m = ReceiveOf(b)
    OBVIOUS
  <2>3. QED BY <1>2, <1>3, <2>1, <2>2
<1>9. BlockBeforeCert(v)'
  <2> SUFFICES ASSUME NEW p \in Nat, IsFinalize(v, p)',
                      NEW b \in Blocks, b = inbox'[v][p].digest
               PROVE  b \in pending[v] \/ Past(v, b)' \/ Earlier(v, p, ReceiveOf(b))'
    BY <1>3 DEF BlockBeforeCert
  <2>1. CASE p <= n + 1 /\ IsFinalize(v, p) /\ inbox'[v][p] = inbox[v][p]
    <3>1. b \in pending[v] \/ Past(v, b) \/ Earlier(v, p, ReceiveOf(b))
      BY <2>1 DEF BoxInv, BlockBeforeCert
    <3>2. QED BY <1>2, <1>3, <2>1, <3>1
  <2>2. CASE p = n + 1 /\ inbox'[v][p] = m /\ m.type = "finalize"
    <3>1. <<v, b>> \notin relay
      BY <1>4, <2>2 DEF FinalizeOf, Message
    <3>2. b \in pending[v] \/ Past(v, b) \/ InBox(v, ReceiveOf(b))
      BY <3>1 DEF BoxInv, BlocksArrive
    <3>3. QED BY <1>2, <1>3, <2>2, <3>2
  <2>3. QED BY <1>6, <2>1, <2>2
<1>10. QED BY <1>5, <1>7, <1>8, <1>9 DEF BoxInv

----------------------------------------------------------------------------
(* Finalization.  The block at the head of the mailbox is the first of its *)
(* height, and so is its parent: the last block of the log.                *)

LEMMA FinalizeBlockChain ==
    ASSUME IInv, ChainInv, NEW v \in Validators, BoxInv(v), FinalizeBlock(v)
    PROVE  ChainInv'
<1>1. PICK b : b = Head(inbox[v]).digest
    OBVIOUS
<1>2. /\ Takes(v, "finalize") /\ HeightOf(b) = height[v]
      /\ finalizedLog' = [finalizedLog EXCEPT ![v] = Append(finalizedLog[v], b)]
      /\ UNCHANGED <<blocks, notarized, certs>>
    BY <1>1 DEF FinalizeBlock, ExpectedHeight, engineVars
<1>3. b \in Blocks /\ IsFirst(b)
  <2>1. b \in Blocks
    BY <1>1 DEF FinalizeBlock, IInv, TypeOK
  <2>2. QED BY <1>1, <1>2, <2>1, HeadOfBox
<1>4. TypeOK
    BY DEF IInv
<1>5. PICK log \in Seq(Blocks) : log = finalizedLog[v]
    BY <1>4 DEF TypeOK
<1>6. PICK n \in Nat : n = Len(log)
    BY <1>5, LenProperties
<1>7. /\ finalizedLog'[v] = Append(log, b)
      /\ \A w \in Validators \ {v} : finalizedLog'[w] = finalizedLog[w]
    BY <1>2, <1>4, <1>5 DEF TypeOK
<1>8. /\ Append(log, b) \in Seq(Blocks)
      /\ Len(Append(log, b)) = n + 1
      /\ \A i \in 1 .. n : Append(log, b)[i] = log[i]
      /\ Append(log, b)[n + 1] = b
    BY <1>3, <1>5, <1>6, AppendProperties
<1>9. HeightOf(b) = n + 1 /\ \A i \in 1 .. n : HeightOf(log[i]) = i
    BY <1>2, <1>5, <1>6 DEF IInv, LogMatchesState
<1>10. /\ \A c : IsFirst(c) => IsFirst(c)'
       /\ BlocksChained' /\ CertsChained'
  <2>1. \A c : IsFirst(c)' = IsFirst(c)
    BY <1>2 DEF IsFirst, Cert, HeightOf, Blocks
  <2>2. BlocksChained'
    <3>1. /\ Blocks' = Blocks
          /\ \A c : ParentOf(c)' = ParentOf(c) /\ HeightOf(c)' = HeightOf(c)
      BY <1>2 DEF Blocks, ParentOf, HeightOf
    <3>2. QED BY <2>1, <3>1 DEF ChainInv, BlocksChained
  <2>3. CertsChained'
    BY <1>2 DEF ChainInv, CertsChained, Cert, ParentOf, Blocks, Digests
  <2>4. QED BY <2>1, <2>2, <2>3
<1>11. LogsAreFirst'
  <2>1. \A i \in 1 .. n + 1 : IsFirst(Append(log, b)[i])
    <3> SUFFICES ASSUME NEW i \in 1 .. n + 1 PROVE IsFirst(Append(log, b)[i])
      OBVIOUS
    <3>1. CASE i \in 1 .. n
      BY <1>5, <1>6, <1>8, <3>1 DEF ChainInv, LogsAreFirst
    <3>2. CASE i = n + 1
      BY <1>3, <1>8, <3>2
    <3>3. QED BY <1>6, <3>1, <3>2
  <2> SUFFICES ASSUME NEW w \in Validators, NEW i \in 1 .. Len(finalizedLog'[w])
               PROVE  IsFirst(finalizedLog'[w][i])
    <3>1. ASSUME NEW w \in Validators, NEW i \in 1 .. Len(finalizedLog'[w]),
                 IsFirst(finalizedLog'[w][i])
          PROVE  IsFirst(finalizedLog[w][i])'
      <4>1. PICK c : c = finalizedLog'[w][i]
        OBVIOUS
      <4>2. IsFirst(c)'
        BY <1>10, <3>1, <4>1
      <4>3. QED BY <4>1, <4>2 DEF IsFirst
    <3>2. QED BY <3>1 DEF LogsAreFirst
  <2>2. CASE w = v
    BY <1>7, <1>8, <2>1, <2>2
  <2>3. CASE w # v
    BY <1>7, <2>3 DEF ChainInv, LogsAreFirst
  <2>4. QED BY <2>2, <2>3
<1>12. ParentOf(b) = IF n + 1 = 1 THEN Genesis ELSE log[n]
  <2>1. PICK p \in Blocks \cup {Genesis} :
            /\ p = ParentOf(b) /\ HeightOf(b) = HeightOf(p) + 1
            /\ p # Genesis => IsFirst(p)
    BY <1>3 DEF ChainInv, BlocksChained
  <2>2. HeightOf(p) = n
    BY <1>4, <1>9, <2>1, HeightIsNat
  <2>3. CASE n = 0
    <3>1. p \in Blocks => HeightOf(p) >= 1
      <4> SUFFICES ASSUME p \in Blocks PROVE HeightOf(p) >= 1
        OBVIOUS
      <4>1. PICK q \in Blocks \cup {Genesis} : HeightOf(p) = HeightOf(q) + 1
        BY DEF ChainInv, BlocksChained
      <4>2. HeightOf(q) \in Nat
        BY <1>4, HeightIsNat
      <4>3. QED BY <4>1, <4>2
    <3>2. QED BY <2>1, <2>2, <2>3, <3>1
  <2>4. CASE n # 0
    <3>1. n \in 1 .. n /\ p # Genesis
      BY <2>2, <2>4 DEF HeightOf, Blocks
    <3>2. IsFirst(log[n]) /\ HeightOf(log[n]) = n
      BY <1>5, <1>6, <1>9, <3>1 DEF ChainInv, LogsAreFirst
    <3>3. p = log[n]
      BY <1>4, <2>1, <2>2, <3>1, <3>2, FirstIsOne
    <3>4. QED BY <2>1, <2>4, <3>3
  <2>5. QED BY <2>3, <2>4
<1>13. FinalizedChain'
  <2>1. \A i \in 1 .. n + 1 :
            ParentOf(Append(log, b)[i]) = IF i = 1 THEN Genesis ELSE Append(log, b)[i - 1]
    <3> SUFFICES ASSUME NEW i \in 1 .. n + 1
                 PROVE  ParentOf(Append(log, b)[i]) = IF i = 1 THEN Genesis ELSE Append(log, b)[i - 1]
      OBVIOUS
    <3>1. CASE i \in 1 .. n
      <4>1. i \in DOMAIN log
        BY <1>5, <1>6, <3>1, LenProperties
      <4>2. ParentOf(log[i]) = IF i = 1 THEN Genesis ELSE log[i - 1]
        BY <1>5, <4>1 DEF ChainInv, FinalizedChain
      <4>3. i # 1 => i - 1 \in 1 .. n
        BY <3>1
      <4>4. QED BY <1>8, <3>1, <4>2, <4>3
    <3>2. CASE i = n + 1
      <4>1. i # 1 => n \in 1 .. n /\ i - 1 = n
        BY <3>2
      <4>2. QED BY <1>8, <1>12, <3>2, <4>1
    <3>3. QED BY <1>6, <3>1, <3>2
  <2>2. DOMAIN Append(log, b) = 1 .. n + 1
    BY <1>8, LenProperties
  <2>3. QED BY <1>2, <1>7, <2>1, <2>2 DEF ChainInv, FinalizedChain, ParentOf
<1>14. QED BY <1>10, <1>11, <1>13 DEF ChainInv

----------------------------------------------------------------------------
(* Every step                                                              *)

AgreementInv == ChainInv /\ MailInv

LEMMA InitAgreement == Init => AgreementInv
<1> SUFFICES ASSUME Init PROVE AgreementInv
    OBVIOUS
<1>1. /\ Blocks = {} /\ Len(certs) = 0
      /\ \A v \in Validators : finalizedLog[v] = <<>> /\ reported[v] = 0
      /\ \A v \in Validators : inbox[v] = <<Message("genesis", 0, Genesis)>>
    BY DEF Init, Blocks
<1>2. ChainInv
    BY <1>1 DEF ChainInv, BlocksChained, CertsChained, LogsAreFirst, FinalizedChain
<1>3. ASSUME NEW v \in Validators PROVE BoxInv(v)
  <2>1. \A p \in Nat : ~IsFinalize(v, p)
    <3>1. inbox[v] = <<Message("genesis", 0, Genesis)>>
      BY <1>1
    <3>2. Len(inbox[v]) = 1 /\ inbox[v][1] = Message("genesis", 0, Genesis)
      BY <3>1
    <3>3. inbox[v][1].type = "genesis"
      BY <3>2 DEF Message
    <3>4. QED BY <3>2, <3>3 DEF IsFinalize
  <2>2. QED BY <1>1, <2>1 DEF BoxInv, CertsArrive, InCertOrder, BlocksArrive, BlockBeforeCert
<1>4. QED BY <1>2, <1>3 DEF AgreementInv, MailInv

LEMMA SameCerts ==
    ASSUME TypeOK, UNCHANGED <<notarized, certs>>
    PROVE  CertsGrow /\ \A k \in Len(certs) + 1 .. Len(certs') : Cert(k)' \in Digests
BY CertTypes DEF CertsGrow, Cert

\* The boxes of the others.
LEMMA OtherBoxes ==
    ASSUME TypeOK, ChainInv, MailInv, NEW v \in Validators, BoxInv(v)', CertsGrow, BlocksStay,
           \A w \in Validators \ {v} :
               /\ inbox'[w] = inbox[w] /\ height'[w] = height[w]
               /\ pending'[w] = pending[w] /\ reported'[w] = reported[w]
               /\ \A b \in Blocks : <<w, b>> \in relay => <<w, b>> \in relay'
               /\ \A b \in Blocks' : b \in Blocks \/ <<w, b>> \in relay'
    PROVE  MailInv'
<1> SUFFICES ASSUME NEW w \in Validators PROVE BoxInv(w)'
    BY DEF MailInv
<1>1. CASE w = v
    BY <1>1
<1>2. CASE w # v
  <2>1. BoxInv(w)
    BY DEF MailInv
  <2>2. QED BY <1>2, <2>1, SameBox
<1>3. QED BY <1>1, <1>2

\* A handler that builds nothing.
LEMMA TakeMail ==
    ASSUME TypeOK, ChainInv, MailInv, NEW v \in Validators, NEW type, Takes(v, type),
           UNCHANGED <<blocks, relay, notarized, certs, reported>>,
           height[v] <= height'[v], height'[v] \in Nat,
           \A w \in Validators \ {v} : height'[w] = height[w] /\ pending'[w] = pending[w],
           \A b \in pending[v] : b \in pending'[v] \/ HeightOf(b) < height'[v],
           type = "finalize" => \A b \in Blocks :
               b = Head(inbox[v]).digest => HeightOf(b) < height'[v],
           type = "receive" => Head(inbox[v]).digest \in pending'[v]
    PROVE  MailInv'
<1>1. BlocksStay /\ Blocks' = Blocks
    BY ParentStays
<1>2. BoxInv(v)
    BY DEF MailInv
<1>3. BoxInv(v)'
    BY <1>1, <1>2, TakeBox
<1>4. \A w \in Validators \ {v} : inbox'[w] = inbox[w]
    BY TakeShifts
<1>5. CertsGrow
    BY SameCerts
<1>6. QED BY <1>1, <1>3, <1>4, <1>5, OtherBoxes

\* A message to v.
LEMMA SendMail ==
    ASSUME TypeOK, ChainInv, MailInv, Faults = {}, NEW v \in Validators, NEW m, TrySend(v, m),
           UNCHANGED <<blocks, height, pending, notarized, certs>>,
           \A w \in Validators \ {v} : /\ reported'[w] = reported[w]
                                       /\ \A b : <<w, b>> \in relay => <<w, b>> \in relay',
           \/ /\ m.type # "finalize" /\ reported'[v] = reported[v]
              /\ \A b \in Blocks : <<v, b>> \in relay => <<v, b>> \in relay' \/ m = ReceiveOf(b)
           \/ /\ reported'[v] = reported[v] + 1 /\ reported'[v] \in 1 .. Len(certs)
              /\ m = FinalizeOf(Cert(reported[v] + 1))
              /\ <<v, Cert(reported[v] + 1)>> \notin relay /\ relay' = relay
    PROVE  MailInv'
<1>1. BlocksStay /\ Blocks' = Blocks
    BY ParentStays
<1>2. BoxInv(v)
    BY DEF MailInv
<1>3. BoxInv(v)'
    BY <1>2, SendBox
<1>4. \A w \in Validators \ {v} : inbox'[w] = inbox[w]
    BY SendAppends
<1>5. CertsGrow
    BY SameCerts
<1>6. QED BY <1>1, <1>3, <1>4, <1>5, OtherBoxes

LEMMA HandleAgreement ==
    ASSUME IInv, AgreementInv, NEW v \in Validators, Handle(v)
    PROVE  AgreementInv'
<1>1. TypeOK /\ ChainInv /\ MailInv /\ BoxInv(v) /\ height[v] \in Nat
    BY DEF IInv, TypeOK, AgreementInv, MailInv
<1>2. ASSUME UNCHANGED <<blocks, finalizedLog, notarized, certs>> PROVE ChainInv'
    BY <1>1, <1>2, SameCerts, ChainStays
<1>3. ASSUME NEW type \in {"genesis", "propose", "verify"}, Takes(v, type),
             UNCHANGED <<height, pending, finalizedLog, blocks, relay, notarized, certs, reported>>
      PROVE  AgreementInv'
  <2>1. MailInv'
    BY <1>1, <1>3, TakeMail
  <2>2. QED BY <1>2, <1>3, <2>1 DEF AgreementInv
<1>4. CASE HandleGenesis(v)
    BY <1>3, <1>4 DEF HandleGenesis, engineVars
<1>5. CASE ProposeNull(v)
    BY <1>3, <1>5 DEF ProposeNull, appVars
<1>6. CASE HandleVerify(v)
    BY <1>3, <1>6 DEF HandleVerify
<1>7. CASE ProposeBlock(v)
  <2>1. PICK n : n = Len(blocks) + 1
    OBVIOUS
  <2>2. /\ Takes(v, "propose")
        /\ relay' = relay \cup {<<w, n>> : w \in Validators \ {v}}
        /\ pending' = [pending EXCEPT ![v] = @ \cup {n}]
        /\ UNCHANGED <<height, notarized, certs, reported>>
    BY <1>7, <2>1 DEF ProposeBlock
  <2>3. /\ Blocks' = Blocks \cup {n}
        /\ \A b \in Blocks \cup {Genesis, NullDigest} : HeightOf(b)' = HeightOf(b)
    BY <1>7, <2>1, ProposeBlockBuilds
  <2>4. CertsGrow /\ BlocksStay
    BY <1>1, <2>2, <2>3, SameCerts DEF BlocksStay
  <2>5. pending'[v] = pending[v] \cup {n} /\ \A w \in Validators \ {v} : pending'[w] = pending[w]
    BY <1>1, <2>2 DEF TypeOK
  <2>6. BoxInv(v)'
    BY <1>1, <2>2, <2>3, <2>4, <2>5, TakeBox
  <2>7. \A w \in Validators \ {v} : inbox'[w] = inbox[w]
    BY <1>1, <2>2, TakeShifts
  <2>8. MailInv'
    BY <1>1, <2>2, <2>3, <2>4, <2>5, <2>6, <2>7, OtherBoxes
  <2>9. QED BY <1>1, <1>7, <2>8, ProposeBlockChain DEF AgreementInv
<1>8. CASE FinalizeBlock(v)
  <2>1. PICK b : b = Head(inbox[v]).digest
    OBVIOUS
  <2>2. /\ Takes(v, "finalize") /\ HeightOf(b) = height[v]
        /\ height' = [height EXCEPT ![v] = HeightOf(b) + 1]
        /\ pending' = [pending EXCEPT ![v] = (@ \ {b}) \ Stale(v, b, HeightOf(b) + 1)]
        /\ UNCHANGED <<blocks, relay, notarized, certs, reported>>
    BY <1>8, <2>1 DEF FinalizeBlock, ExpectedHeight, engineVars
  <2>3. /\ height'[v] = height[v] + 1
        /\ pending'[v] = (pending[v] \ {b}) \ Stale(v, b, height[v] + 1)
        /\ \A w \in Validators \ {v} : height'[w] = height[w] /\ pending'[w] = pending[w]
    BY <1>1, <2>2 DEF TypeOK
  <2>4. \A c \in pending[v] : c \in pending'[v] \/ HeightOf(c) < height'[v]
    BY <1>1, <2>2, <2>3 DEF Stale
  <2>5. MailInv'
    BY <1>1, <2>1, <2>2, <2>3, <2>4, TakeMail
  <2>6. QED BY <1>1, <1>8, <2>5, FinalizeBlockChain DEF AgreementInv
<1>9. CASE IgnoreFinalization(v)
  <2>1. PICK b : b = Head(inbox[v]).digest
    OBVIOUS
  <2>2. /\ Takes(v, "finalize")
        /\ b \in pending[v] => HeightOf(b) # height[v]
        /\ pending' = [pending EXCEPT ![v] = @ \ {b}]
        /\ UNCHANGED <<height, finalizedLog, blocks, relay, notarized, certs, reported>>
    BY <1>9, <2>1 DEF IgnoreFinalization, ExpectedHeight, engineVars
  <2>3. ASSUME b \in Blocks PROVE HeightOf(b) < height[v]
    <3>1. /\ HeightOf(b) \in Nat /\ HeightOf(b) <= height[v]
          /\ b \in pending[v] \/ Past(v, b)
      BY <1>1, <2>1, <2>2, <2>3, HeadOfBox
    <3>2. QED BY <1>1, <2>2, <3>1 DEF Past
  <2>4. pending'[v] = pending[v] \ {b} /\ \A w \in Validators \ {v} : pending'[w] = pending[w]
    BY <1>1, <2>2 DEF TypeOK
  <2>5. \A c \in pending[v] : c \in pending'[v] \/ HeightOf(c) < height[v]
    BY <1>1, <2>3, <2>4 DEF TypeOK
  <2>6. MailInv'
    BY <1>1, <2>1, <2>2, <2>3, <2>4, <2>5, TakeMail
  <2>7. QED BY <1>2, <2>2, <2>6 DEF AgreementInv
<1>10. CASE HandleReceive(v)
  <2>1. PICK b : b = Head(inbox[v]).digest
    OBVIOUS
  <2>2. /\ Takes(v, "receive")
        /\ \/ pending' = pending /\ b \in pending[v]
           \/ pending' = [pending EXCEPT ![v] = @ \cup {b}]
        /\ UNCHANGED <<height, finalizedLog, blocks, relay, notarized, certs, reported>>
    BY <1>10, <2>1 DEF HandleReceive, StoreBlock, engineVars
  <2>3. /\ b \in pending'[v] /\ pending[v] \subseteq pending'[v]
        /\ \A w \in Validators \ {v} : pending'[w] = pending[w]
    BY <1>1, <2>2 DEF TypeOK
  <2>4. MailInv'
    BY <1>1, <2>1, <2>2, <2>3, TakeMail
  <2>5. QED BY <1>2, <2>2, <2>4 DEF AgreementInv
<1>11. QED BY <1>4, <1>5, <1>6, <1>7, <1>8, <1>9, <1>10 DEF Handle

\* A step of the engines that sends nothing.
LEMMA CertsAgreement ==
    ASSUME TypeOK, AgreementInv, CertsGrow,
           UNCHANGED <<height, pending, finalizedLog, inbox, blocks, relay, reported>>,
           \A k \in Len(certs) + 1 .. Len(certs') : Cert(k)' \in Digests
    PROVE  AgreementInv'
<1>1. BlocksStay /\ Blocks' = Blocks
    BY ParentStays
<1>2. ASSUME NEW v \in Validators PROVE BoxInv(v)'
  <2>1. BoxInv(v)
    BY DEF AgreementInv, MailInv
  <2>2. QED BY <1>1, <2>1, SameBox DEF AgreementInv
<1>3. QED BY <1>2, ChainStays DEF AgreementInv, MailInv

LEMMA StutterAgreement ==
    ASSUME TypeOK, AgreementInv,
           UNCHANGED <<height, pending, finalizedLog, inbox, blocks, relay, reported,
                       notarized, certs>>
    PROVE  AgreementInv'
BY SameCerts, CertsAgreement

LEMMA EngineAgreement ==
    ASSUME Faults = {}, IInv, AgreementInv, Engine
    PROVE  AgreementInv'
<1>1. TypeOK /\ ChainInv /\ MailInv
    BY DEF IInv, AgreementInv
<1>2. ASSUME UNCHANGED <<blocks, finalizedLog, notarized, certs>> PROVE ChainInv'
    BY <1>1, <1>2, SameCerts, ChainStays
<1>3. ASSUME UNCHANGED <<appVars, inbox, blocks, relay, reported>>, CertsGrow,
             \A k \in Len(certs) + 1 .. Len(certs') : Cert(k)' \in Digests
      PROVE  AgreementInv'
    BY <1>1, <1>3, CertsAgreement DEF appVars
<1>4. ASSUME NEW v \in Validators, AskPropose(v)
      PROVE  AgreementInv'
  <2>1. MailInv'
    BY <1>1, <1>4, SendMail DEF AskPropose, appVars, Message
  <2>2. QED BY <1>2, <1>4, <2>1 DEF AskPropose, appVars, AgreementInv
<1>5. ASSUME NEW v \in Validators, AskVerify(v)
      PROVE  AgreementInv'
  <2>1. MailInv'
    BY <1>1, <1>5, SendMail DEF AskVerify, appVars, Message
  <2>2. QED BY <1>2, <1>5, <2>1 DEF AskVerify, appVars, AgreementInv
<1>6. ASSUME NEW v \in Validators, Report(v)
      PROVE  AgreementInv'
  <2>1. PICK k \in reported[v] + 1 .. Len(certs) :
            /\ k = reported[v] + 1 /\ <<v, Cert(k)>> \notin relay
            /\ reported' = [reported EXCEPT ![v] = k]
            /\ TrySend(v, FinalizeOf(Cert(k)))
            /\ UNCHANGED <<appVars, blocks, relay, round, notarized, certs>>
    BY <1>6 DEF Report, FinalizeOf, Cert
  <2>2. /\ reported'[v] = k /\ k \in 1 .. Len(certs)
        /\ \A w \in Validators \ {v} : reported'[w] = reported[w]
    BY <1>1, <2>1, CertTypes DEF TypeOK
  <2>3. UNCHANGED <<blocks, height, pending, finalizedLog, notarized, certs, relay>>
    BY <2>1 DEF appVars
  <2>4. MailInv'
    BY <1>1, <2>1, <2>2, <2>3, SendMail
  <2>5. QED BY <1>2, <2>3, <2>4 DEF AgreementInv
<1>7. CASE Notarize
  <2>1. /\ notarized' = Append(notarized, round.digest) /\ certs' = certs
        /\ UNCHANGED <<appVars, inbox, blocks, relay, reported>>
    BY <1>7 DEF Notarize
  <2>2. \A n \in 1 .. Len(notarized) : notarized'[n] = notarized[n]
    BY <1>1, <2>1, AppendProperties DEF TypeOK
  <2>3. CertsGrow
    BY <1>1, <2>1, <2>2, CertTypes DEF CertsGrow, Cert
  <2>4. \A k \in Len(certs) + 1 .. Len(certs') : Cert(k)' \in Digests
    BY <1>1, <2>1, CertTypes
  <2>5. QED BY <1>3, <2>1, <2>3, <2>4
<1>8. CASE Nullify
    BY <1>1, <1>3, <1>8, SameCerts DEF Nullify
<1>9. ASSUME NEW n \in 1 .. Len(notarized), Certify(n)
      PROVE  AgreementInv'
  <2>1. /\ certs' = Append(certs, n) /\ notarized' = notarized
        /\ UNCHANGED <<appVars, inbox, blocks, relay, reported>>
    BY <1>9 DEF Certify
  <2>2. /\ Len(certs) \in Nat /\ Len(certs') = Len(certs) + 1
        /\ \A k \in 1 .. Len(certs) : certs'[k] = certs[k]
        /\ certs'[Len(certs) + 1] = n
    BY <1>1, <2>1, CertTypes, AppendProperties DEF TypeOK
  <2>3. CertsGrow
    BY <2>1, <2>2 DEF CertsGrow, Cert
  <2>4. notarized[n] \in Digests
    BY <1>1, CertTypes
  <2>5. ASSUME NEW k \in Len(certs) + 1 .. Len(certs')
        PROVE  Cert(k)' \in Digests
    <3>1. k = Len(certs) + 1
      BY <2>2
    <3>2. QED BY <2>1, <2>2, <2>4, <3>1 DEF Cert
  <2>6. QED BY <1>3, <2>1, <2>3, <2>5
<1>10. QED BY <1>4, <1>5, <1>6, <1>7, <1>8, <1>9 DEF Engine

LEMMA RelayAgreement ==
    ASSUME Faults = {}, IInv, AgreementInv, NEW v \in Validators, Relay(v)
    PROVE  AgreementInv'
<1>1. TypeOK /\ ChainInv /\ MailInv
    BY DEF IInv, AgreementInv
<1>2. PICK b \in Blocks : DeliverBlock(v, b)
    BY DEF Relay, LoseBlock
<1>3. /\ TrySend(v, ReceiveOf(b)) /\ ReceiveOf(b).type # "finalize"
      /\ relay' = relay \ {<<v, b>>}
      /\ UNCHANGED <<blocks, height, pending, finalizedLog, notarized, certs, reported>>
    BY <1>2 DEF DeliverBlock, appVars, engineVars, ReceiveOf, Message
<1>4. /\ \A c \in Blocks : <<v, c>> \in relay => <<v, c>> \in relay' \/ ReceiveOf(b) = ReceiveOf(c)
      /\ \A w \in Validators \ {v} : \A c : <<w, c>> \in relay => <<w, c>> \in relay'
    BY <1>3
<1>5. MailInv'
    BY <1>1, <1>3, <1>4, SendMail
<1>6. QED BY <1>1, <1>3, <1>5, SameCerts, ChainStays DEF AgreementInv

LEMMA NextAgreement ==
    ASSUME Faults = {}, IInv, AgreementInv, [Next]_vars
    PROVE  AgreementInv'
<1>1. CASE Next
    BY <1>1, HandleAgreement, EngineAgreement, RelayAgreement DEF Next
<1>2. CASE UNCHANGED vars
    BY <1>2, StutterAgreement DEF vars, appVars, engineVars, IInv
<1>3. QED BY <1>1, <1>2

----------------------------------------------------------------------------
(* The theorems                                                            *)

\* What each log holds at a height is the first block certified there.
LEMMA FirstBlocksAgree ==
    ASSUME IInv, ChainInv
    PROVE  Agreement
<1> SUFFICES ASSUME NEW v \in Validators, NEW w \in Validators,
                    NEW i \in DOMAIN finalizedLog[v] \cap DOMAIN finalizedLog[w]
             PROVE  finalizedLog[v][i] = finalizedLog[w][i]
    BY DEF Agreement
<1>1. TypeOK
    BY DEF IInv
<1>2. i \in 1 .. Len(finalizedLog[v]) /\ i \in 1 .. Len(finalizedLog[w])
    BY <1>1, LenProperties DEF TypeOK
<1>3. HeightOf(finalizedLog[v][i]) = i /\ HeightOf(finalizedLog[w][i]) = i
    BY <1>2 DEF IInv, LogMatchesState
<1>4. IsFirst(finalizedLog[v][i]) /\ IsFirst(finalizedLog[w][i])
    BY <1>2 DEF ChainInv, LogsAreFirst
<1>5. QED BY <1>1, <1>3, <1>4, FirstIsOne

THEOREM AgreementInvariance ==
    ASSUME Faults = {}
    PROVE  Spec => []AgreementInv
<1>1. Init => AgreementInv
    BY InitAgreement
<1>2. IInv /\ AgreementInv /\ [Next]_vars => AgreementInv'
    BY NextAgreement
<1>3. QED BY <1>1, <1>2, Invariance, PTL DEF Spec

\* Without faults no two validators finalize different blocks at a height
\* (finalize, application.rs): the order in which the reporter sends
\* certificates and the relay sends blocks is enough, for any validator set.
THEOREM AgreementTheorem ==
    ASSUME Faults = {}
    PROVE  Spec => []Agreement
<1>1. IInv /\ AgreementInv => Agreement
    BY FirstBlocksAgree DEF AgreementInv
<1>2. QED BY <1>1, Invariance, AgreementInvariance, PTL

\* Without faults the blocks a validator finalizes are a chain, although
\* is_valid_height compares heights and never parents.
THEOREM FinalizedChainTheorem ==
    ASSUME Faults = {}
    PROVE  Spec => []FinalizedChain
<1>1. AgreementInv => FinalizedChain
    BY DEF AgreementInv, ChainInv
<1>2. QED BY <1>1, AgreementInvariance, PTL

----------------------------------------------------------------------------
(* The log that certificates decide                                        *)

\* A block is not higher than its place among the blocks built.
HeightsLow == \A b \in Blocks : HeightOf(b) \in 1 .. b

Heights == {HeightOf(Cert(k)) : k \in {j \in 1 .. Len(certs) : Cert(j) \in Blocks}}

\* The log has, at each height there is a certificate for, the first block
\* certified there.
DecidedFirst ==
    /\ Decided \in Seq(Blocks)
    /\ \A i \in 1 .. Len(Decided) : IsFirst(Decided[i]) /\ HeightOf(Decided[i]) = i
    /\ \A b, c \in Blocks : IsFirst(b) /\ IsFirst(c) /\ HeightOf(b) = HeightOf(c) => b = c
    /\ Heights = 1 .. Len(Decided)

\* The certificates that count are those of blocks.
LEMMA BlockCertsAre ==
    ASSUME TypeOK
    PROVE  BlockCerts = {k \in 1 .. Len(certs) : Cert(k) \in Blocks}
<1>1. DOMAIN certs = 1 .. Len(certs)
    BY LenProperties DEF TypeOK
<1>2. \A k \in 1 .. Len(certs) : Cert(k) \in Digests
    BY CertTypes DEF Cert
<1>3. NullDigest \notin Blocks
    BY DEF Blocks
<1>4. QED BY <1>1, <1>2, <1>3 DEF BlockCerts, Cert, Digests

\* Certificates leave no height out: the parent of a block has an earlier one.
LEMMA HeightsAre ==
    ASSUME TypeOK, BlocksChained, CertsChained, HeightsLow
    PROVE  \E n \in Nat : Heights = 1 .. n
<1>1. Len(certs) \in Nat /\ Len(blocks) \in Nat
    BY CertTypes, LenProperties DEF TypeOK
<1>2. ASSUME NEW h \in Heights PROVE h \in 1 .. Len(blocks) /\ (h # 1 => h - 1 \in Heights)
  <2>1. PICK k \in 1 .. Len(certs) : Cert(k) \in Blocks /\ h = HeightOf(Cert(k))
    BY DEF Heights
  <2>2. PICK b \in Blocks : b = Cert(k)
    BY <2>1
  <2>3. h = HeightOf(b) /\ h \in 1 .. b /\ b \in 1 .. Len(blocks)
    BY <2>1, <2>2 DEF HeightsLow, Blocks
  <2>4. h \in 1 .. Len(blocks)
    BY <1>1, <2>3
  <2>5. PICK p \in Blocks \cup {Genesis} : p = ParentOf(b)
    BY DEF BlocksChained
  <2>6. HeightOf(b) = HeightOf(p) + 1 /\ HeightOf(p) \in Nat
    BY <2>5, HeightIsNat DEF BlocksChained
  <2>7. CASE p = Genesis
    <3>1. HeightOf(p) = 0
      BY <2>7 DEF HeightOf, Blocks
    <3>2. QED BY <2>3, <2>4, <2>6, <3>1
  <2>8. CASE p # Genesis
    <3>1. PICK j \in 1 .. k - 1 : Cert(j) = p
      BY <2>1, <2>2, <2>5, <2>8 DEF CertsChained
    <3>2. j \in 1 .. Len(certs)
      BY <1>1, <3>1
    <3>3. HeightOf(p) \in Heights
      BY <2>5, <2>8, <3>1, <3>2 DEF Heights
    <3>4. h - 1 = HeightOf(p)
      BY <2>3, <2>6
    <3>5. QED BY <2>4, <3>3, <3>4
  <2>9. QED BY <2>7, <2>8
<1>3. CASE Heights = {}
  <2>1. 1 .. 0 = {}
    OBVIOUS
  <2>2. QED BY <1>3, <2>1
<1>4. CASE Heights # {}
  <2>1. Heights \in SUBSET (0 .. Len(blocks))
    BY <1>1, <1>2
  <2>2. PICK n \in Heights : \A h \in Heights : h <= n
    BY <1>1, <1>4, <2>1, GreatestNumber
  <2>3. n \in Nat
    BY <2>1
  <2> DEFINE Missing == 1 .. n \ Heights
  <2>4. ASSUME Missing # {} PROVE FALSE
    <3>1. Missing \in SUBSET (0 .. n)
      OBVIOUS
    <3>2. PICK m \in Missing : \A h \in Missing : h <= m
      <4> HIDE DEF Missing
      <4>1. QED BY <2>3, <2>4, <3>1, GreatestNumber
    <3>3. m \in 1 .. n /\ m \notin Heights /\ m # n
      OBVIOUS
    <3>4. m + 1 \in 1 .. n /\ m + 1 \notin Missing
      BY <2>3, <3>2, <3>3
    <3>5. m + 1 \in Heights /\ m + 1 # 1 /\ (m + 1) - 1 = m
      BY <3>3, <3>4
    <3>6. QED BY <1>2, <3>3, <3>5
  <2>5. Heights \subseteq 1 .. n
    BY <1>2, <2>2, <2>3
  <2>6. Heights = 1 .. n
    BY <2>4, <2>5
  <2>7. QED BY <2>3, <2>6
<1>5. QED BY <1>3, <1>4

LEMMA DecidedIs ==
    ASSUME TypeOK, BlocksChained, CertsChained, HeightsLow
    PROVE  DecidedFirst
<1>1. PICK n \in Nat : Heights = 1 .. n
    BY HeightsAre
<1>2. Len(certs) \in Nat /\ DOMAIN certs = 1 .. Len(certs)
    BY CertTypes, LenProperties DEF TypeOK
<1>3. Decided = [h \in 1 .. n |-> Cert(FirstAt(h))]
  <2>1. DOMAIN Decided = Heights
    BY BlockCertsAre DEF Decided, Heights, Cert
  <2>2. QED BY <1>1, <2>1 DEF Decided, Cert
<1>4. ASSUME NEW h \in 1 .. n
      PROVE  /\ FirstAt(h) \in 1 .. Len(certs) /\ Cert(FirstAt(h)) \in Blocks
             /\ HeightOf(Cert(FirstAt(h))) = h
             /\ \A j \in 1 .. FirstAt(h) - 1 : HeightOf(Cert(j)) # h
  <2> DEFINE N == CertifiedAt(h)
  <2>1. N = {k \in 1 .. Len(certs) : Cert(k) \in Blocks /\ HeightOf(Cert(k)) = h}
    BY BlockCertsAre DEF CertifiedAt, Cert
  <2>2. N # {}
    BY <1>1, <2>1 DEF Heights
  <2>3. N \in SUBSET Nat
    BY <1>2, <2>1
  <2> DEFINE f == FirstAt(h)
  <2>4. f \in N /\ \A j \in N : f <= j
    <3>1. f = CHOOSE k \in N : \A j \in N : k <= j
      BY DEF FirstAt
    <3> HIDE DEF N, f
    <3>2. \E k \in N : \A j \in N : k <= j
      BY <2>2, <2>3, LeastNumber
    <3>3. QED BY <3>1, <3>2, Zenon
  <2>5. ASSUME NEW j \in 1 .. f - 1 PROVE HeightOf(Cert(j)) # h
    <3>1. f \in 1 .. Len(certs)
      BY <2>1, <2>4
    <3>2. j \in 1 .. Len(certs) /\ ~(f <= j)
      BY <1>2, <3>1
    <3>3. CASE Cert(j) \in Blocks
      BY <2>1, <2>4, <3>2, <3>3
    <3>4. CASE Cert(j) \notin Blocks
      <4>1. HeightOf(Cert(j)) = 0
        BY <3>4 DEF HeightOf
      <4>2. QED BY <4>1
    <3>5. QED BY <3>3, <3>4
  <2>6. QED BY <2>1, <2>4, <2>5
<1>5. \A h \in 1 .. n : Decided[h] \in Blocks /\ IsFirst(Decided[h]) /\ HeightOf(Decided[h]) = h
  <2> SUFFICES ASSUME NEW h \in 1 .. n
               PROVE  Decided[h] \in Blocks /\ IsFirst(Decided[h]) /\ HeightOf(Decided[h]) = h
    OBVIOUS
  <2>1. PICK k : k = FirstAt(h)
    OBVIOUS
  <2>2. /\ k \in 1 .. Len(certs) /\ Cert(k) \in Blocks
        /\ HeightOf(Cert(k)) = h /\ \A j \in 1 .. k - 1 : HeightOf(Cert(j)) # h
    BY <1>4, <2>1
  <2>3. Decided[h] = Cert(k)
    BY <1>3, <2>1
  <2>4. QED BY <2>2, <2>3 DEF IsFirst
<1>6. Decided \in Seq(Blocks) /\ Len(Decided) = n
  <2>1. Decided \in [1 .. n -> Blocks]
    <3>1. Decided = [h \in 1 .. n |-> Decided[h]]
      BY <1>3
    <3>2. QED BY <1>5, <3>1
  <2>2. QED BY <2>1, SeqDef, LenProperties
<1>7. QED BY <1>1, <1>5, <1>6, FirstIsOne DEF DecidedFirst

\* A step appends to the log that is decided, if it changes it at all.
LEMMA DecidedGrows ==
    ASSUME TypeOK, CertsChained, DecidedFirst, DecidedFirst', CertsGrow, BlocksStay,
           NEW d, d = Decided'
    PROVE  /\ Decided \in Seq(Blocks) /\ Len(Decided) \in Nat
           /\ d \in Seq(Blocks') /\ Len(d) \in Nat /\ Len(Decided) <= Len(d)
           /\ \A i \in 1 .. Len(Decided) : d[i] = Decided[i]
           /\ \A i \in 1 .. Len(d) : \A b \in Blocks' : b = d[i] => IsFirst(b)' /\ HeightOf(b)' = i
<1>1. /\ Decided \in Seq(Blocks) /\ Len(Decided) \in Nat
      /\ d \in Seq(Blocks') /\ Len(d) \in Nat
    BY LenProperties DEF DecidedFirst
<1>2. \A i \in 1 .. Len(d) : \A b \in Blocks' : b = d[i] => IsFirst(b)' /\ HeightOf(b)' = i
    BY DEF DecidedFirst
<1>3. ASSUME NEW i \in 1 .. Len(Decided)
      PROVE  i \in 1 .. Len(d) /\ d[i] = Decided[i]
  <2>1. PICK b \in Blocks : b = Decided[i]
    BY <1>1, ElementOfSeq
  <2>2. IsFirst(b) /\ HeightOf(b) = i
    BY <2>1 DEF DecidedFirst
  <2>3. b \in Blocks' /\ IsFirst(b)' /\ HeightOf(b)' = i
    BY <2>2, FirstStays DEF BlocksStay
  <2>4. i \in 1 .. Len(d)
    <3>1. PICK k \in 1 .. Len(certs') : Cert(k)' = b
      BY <2>3 DEF IsFirst
    <3>2. HeightOf(Cert(k))' = i
      BY <2>3, <3>1 DEF HeightOf
    <3>3. QED BY <2>3, <3>1, <3>2 DEF DecidedFirst, Heights
  <2>5. PICK c \in Blocks' : c = d[i]
    BY <1>1, <2>4, ElementOfSeq
  <2>6. IsFirst(c)' /\ HeightOf(c)' = i
    BY <1>2, <2>4, <2>5
  <2>7. b = c
    BY <2>3, <2>6 DEF DecidedFirst
  <2>8. QED BY <2>1, <2>4, <2>5, <2>7
<1>4. Len(Decided) <= Len(d)
  <2>1. CASE Len(Decided) = 0
    BY <1>1, <2>1
  <2>2. CASE Len(Decided) # 0
    <3>1. Len(Decided) \in 1 .. Len(Decided)
      BY <1>1, <2>2
    <3>2. QED BY <1>1, <1>3, <3>1
  <2>3. QED BY <2>1, <2>2
<1>5. QED BY <1>1, <1>2, <1>3, <1>4

\* Without a certificate it does not change it.
LEMMA DecidedSame ==
    ASSUME TypeOK, CertsChained, DecidedFirst, DecidedFirst', CertsGrow, BlocksStay,
           Len(certs') = Len(certs)
    PROVE  Decided' = Decided
<1>1. PICK d : d = Decided'
    OBVIOUS
<1>2. /\ Decided \in Seq(Blocks) /\ Len(Decided) \in Nat
      /\ d \in Seq(Blocks') /\ Len(d) \in Nat /\ Len(Decided) <= Len(d)
      /\ \A i \in 1 .. Len(Decided) : d[i] = Decided[i]
      /\ \A i \in 1 .. Len(d) : \A b \in Blocks' : b = d[i] => IsFirst(b)' /\ HeightOf(b)' = i
    BY <1>1, DecidedGrows
<1>3. ASSUME NEW i \in 1 .. Len(d) PROVE i \in 1 .. Len(Decided)
  <2>1. PICK b \in Blocks' : b = d[i]
    BY <1>2, ElementOfSeq
  <2>2. PICK k \in 1 .. Len(certs) : Cert(k)' = b
    BY <1>2, <2>1 DEF IsFirst
  <2>3. Cert(k) = b /\ b \in Blocks
    BY <2>2, CertIsBlock DEF CertsGrow
  <2>4. HeightOf(b) = i
    BY <1>2, <2>1, <2>3 DEF BlocksStay
  <2>5. i \in Heights
    BY <2>3, <2>4 DEF Heights
  <2>6. QED BY <2>5 DEF DecidedFirst
<1>4. Len(d) = Len(Decided)
  <2>1. CASE Len(d) = 0
    BY <1>2, <2>1
  <2>2. CASE Len(d) # 0
    <3>1. Len(d) \in 1 .. Len(d)
      BY <1>2, <2>2
    <3>2. QED BY <1>2, <1>3, <3>1
  <2>3. QED BY <2>1, <2>2
<1>5. d = Decided
  <2>1. DOMAIN d = 1 .. Len(d) /\ DOMAIN Decided = 1 .. Len(Decided)
    BY <1>2, LenProperties
  <2>2. d = [i \in 1 .. Len(d) |-> d[i]] /\ Decided = [i \in 1 .. Len(Decided) |-> Decided[i]]
    BY <1>2, LenProperties
  <2>3. QED BY <1>2, <1>4, <2>2
<1>6. QED BY <1>1, <1>5

\* A certificate decides one block at most, the one it is about.
LEMMA CertifyDecides ==
    ASSUME TypeOK, AskInv, CertsChained, HeightsLow, DecidedFirst, DecidedFirst',
           NEW n \in 1 .. Len(notarized), Certify(n), CertsGrow
    PROVE  Log!Decide \/ UNCHANGED <<Decided, finalizedLog>>
<1>0. PICK d : d = Decided'
    OBVIOUS
<1>1. /\ certs' = Append(certs, n)
      /\ UNCHANGED <<blocks, finalizedLog>>
    BY DEF Certify, appVars
<1>2. Len(certs) \in Nat /\ Len(certs') = Len(certs) + 1
    BY <1>1, CertTypes, AppendProperties DEF TypeOK
<1>3. BlocksStay /\ Blocks' = Blocks
    BY <1>1, ParentStays
<1>4. /\ Decided \in Seq(Blocks) /\ Len(Decided) \in Nat
      /\ d \in Seq(Blocks) /\ Len(d) \in Nat /\ Len(Decided) <= Len(d)
      /\ \A i \in 1 .. Len(Decided) : d[i] = Decided[i]
      /\ \A i \in 1 .. Len(d) : \A b \in Blocks : b = d[i] => IsFirst(b)' /\ HeightOf(b)' = i
    BY <1>0, <1>3, DecidedGrows
<1>5. PICK m : m = Len(certs) + 1
    OBVIOUS
<1>6. PICK h : h = HeightOf(Cert(m))'
    OBVIOUS
<1>7. ASSUME NEW i \in 1 .. Len(d) PROVE i \in 1 .. Len(Decided) \/ i = h
  <2>1. PICK b \in Blocks : b = d[i]
    BY <1>4, ElementOfSeq
  <2>2. PICK k \in 1 .. Len(certs') : Cert(k)' = b
    BY <1>4, <2>1 DEF IsFirst
  <2>3. HeightOf(b)' = i /\ HeightOf(b) = i
    BY <1>3, <1>4, <2>1 DEF BlocksStay
  <2>4. CASE k = m
    <3>1. Cert(m)' = b
      BY <2>2, <2>4
    <3>2. HeightOf(Cert(m))' = HeightOf(b)'
      BY <3>1 DEF HeightOf
    <3>3. QED BY <1>6, <2>3, <3>2
  <2>5. CASE k # m
    <3>1. k \in 1 .. Len(certs)
      BY <1>2, <1>5, <2>2, <2>5
    <3>2. Cert(k) = b
      BY <2>2, <3>1 DEF CertsGrow
    <3>3. i \in Heights
      BY <2>3, <3>1, <3>2 DEF Heights
    <3>4. QED BY <3>3 DEF DecidedFirst
  <2>6. QED BY <2>4, <2>5
<1>8. Len(d) = Len(Decided) \/ Len(d) = Len(Decided) + 1
  <2>1. Len(d) > Len(Decided) + 1 =>
            /\ Len(Decided) + 1 \in 1 .. Len(d) /\ Len(Decided) + 2 \in 1 .. Len(d)
            /\ Len(Decided) + 1 \notin 1 .. Len(Decided)
            /\ Len(Decided) + 2 \notin 1 .. Len(Decided)
    BY <1>4
  <2>2. Len(d) > Len(Decided) + 1 => Len(Decided) + 1 = h /\ Len(Decided) + 2 = h
    BY <1>7, <2>1
  <2>3. QED BY <1>4, <2>2
<1>9. /\ d = [i \in 1 .. Len(d) |-> d[i]]
      /\ Decided = [i \in 1 .. Len(Decided) |-> Decided[i]]
      /\ DOMAIN Decided = 1 .. Len(Decided)
    BY <1>4, LenProperties
<1>10. CASE Len(d) = Len(Decided)
  <2>1. d = Decided
    BY <1>4, <1>9, <1>10
  <2>2. QED BY <1>0, <1>1, <2>1
<1>11. CASE Len(d) = Len(Decided) + 1
  <2>1. Len(d) \in 1 .. Len(d)
    BY <1>4, <1>11
  <2>2. PICK b \in Blocks : b = d[Len(d)]
    BY <1>4, <2>1, ElementOfSeq
  <2>3. HeightOf(b) = Len(d)
    BY <1>3, <1>4, <2>1, <2>2 DEF BlocksStay
  <2>4. b \in 1 .. MaxView /\ Len(Decided) < MaxView
    <3>1. Len(blocks) \in Nat /\ Len(blocks) <= MaxView
      <4>1. /\ Cardinality(Waiting) \in Nat /\ Issued \in Nat /\ Len(blocks) \in Nat
            /\ Len(blocks) + Cardinality(Waiting) <= Issued /\ Issued <= MaxView
        BY WaitingCount DEF AskInv
      <4>2. QED BY <4>1, MaxViewAssumption
    <3>2. b \in 1 .. Len(blocks) /\ Len(d) \in 1 .. b
      BY <2>3 DEF Blocks, HeightsLow
    <3>3. QED BY <1>4, <1>11, <3>1, <3>2, MaxViewAssumption
  <2>5. ASSUME NEW i \in DOMAIN Decided PROVE Decided[i] # b
    <3>1. i \in 1 .. Len(Decided)
      BY <1>9
    <3>2. HeightOf(Decided[i]) = i
      BY <3>1 DEF DecidedFirst
    <3>3. QED BY <1>4, <1>11, <2>3, <3>1, <3>2
  <2>6. d = Append(Decided, b)
    <3>1. /\ Append(Decided, b) \in Seq(Blocks)
          /\ Len(Append(Decided, b)) = Len(Decided) + 1
          /\ \A i \in 1 .. Len(Decided) : Append(Decided, b)[i] = Decided[i]
          /\ Append(Decided, b)[Len(Decided) + 1] = b
      BY <1>4, AppendProperties
    <3> DEFINE a == Append(Decided, b)
    <3>2. /\ a \in Seq(Blocks) /\ Len(a) = Len(d)
          /\ \A i \in 1 .. Len(Decided) : a[i] = d[i]
          /\ a[Len(d)] = d[Len(d)]
      BY <1>4, <1>11, <2>2, <3>1
    <3> HIDE DEF a
    <3>3. \A i \in 1 .. Len(d) : i \in 1 .. Len(Decided) \/ i = Len(d)
      BY <1>4, <1>11
    <3>4. \A i \in 1 .. Len(d) : a[i] = d[i]
      BY <3>2, <3>3
    <3>5. a = [i \in 1 .. Len(d) |-> a[i]]
      BY <3>2, LenProperties
    <3>6. a = d
      BY <1>9, <3>4, <3>5
    <3>7. QED BY <3>6 DEF a
  <2>7. QED BY <1>0, <1>1, <2>4, <2>5, <2>6 DEF Log!Decide
<1>12. QED BY <1>8, <1>10, <1>11

\* A block that is finalized is the next one of the log.
LEMMA FinalizeLearns ==
    ASSUME IInv, AgreementInv, DecidedFirst, UNCHANGED Decided,
           NEW v \in Validators, FinalizeBlock(v)
    PROVE  Log!Learn(v)
<1>1. PICK b : b = Head(inbox[v]).digest
    OBVIOUS
<1>2. /\ Takes(v, "finalize") /\ HeightOf(b) = height[v]
      /\ finalizedLog' = [finalizedLog EXCEPT ![v] = Append(@, b)]
    BY <1>1 DEF FinalizeBlock, ExpectedHeight
<1>3. b \in Blocks /\ IsFirst(b)
  <2>1. b \in Blocks
    BY <1>1 DEF FinalizeBlock, IInv, TypeOK
  <2>2. QED BY <1>1, <1>2, <2>1, HeadOfBox DEF AgreementInv, MailInv
<1>4. /\ Len(finalizedLog[v]) \in Nat
      /\ HeightOf(b) = Len(finalizedLog[v]) + 1
    BY <1>2, LenProperties DEF IInv, TypeOK, LogMatchesState
<1>5. PICK h \in Nat : h = HeightOf(b)
    BY <1>4
<1>6. h \in 1 .. Len(Decided)
  <2>1. PICK k \in 1 .. Len(certs) : Cert(k) = b
    BY <1>3 DEF IsFirst
  <2>2. h \in Heights
    BY <1>3, <1>5, <2>1 DEF Heights
  <2>3. QED BY <2>2 DEF DecidedFirst
<1>7. Decided[h] = b
  <2>1. PICK c \in Blocks : c = Decided[h]
    BY <1>6, ElementOfSeq DEF DecidedFirst
  <2>2. IsFirst(c) /\ HeightOf(c) = h
    BY <1>6, <2>1 DEF DecidedFirst
  <2>3. QED BY <1>3, <1>5, <2>1, <2>2 DEF DecidedFirst
<1>8. Len(Decided) \in Nat
    BY LenProperties DEF DecidedFirst
<1>9. Len(finalizedLog[v]) < Len(Decided) /\ Decided[Len(finalizedLog[v]) + 1] = b
    BY <1>4, <1>5, <1>6, <1>7, <1>8
<1>10. QED BY <1>2, <1>9 DEF Log!Learn

\* A block is built one higher than an earlier one, or than genesis.
LEMMA NextHeightsLow ==
    ASSUME IInv, HeightsLow, [Next]_vars
    PROVE  HeightsLow'
<1>1. CASE UNCHANGED blocks
    BY <1>1, ParentStays DEF HeightsLow
<1>2. ASSUME NEW v \in Validators, ProposeBlock(v)
      PROVE  HeightsLow'
  <2>1. PICK n : n = Len(blocks) + 1
    OBVIOUS
  <2>2. TypeOK /\ Len(blocks) \in Nat
    BY LenProperties DEF IInv, TypeOK
  <2>3. PICK p \in Blocks \cup {Genesis} : p = lastHash[v]
    BY <2>2 DEF TypeOK
  <2>4. /\ Blocks' = Blocks \cup {n} /\ n \notin Blocks /\ n # Genesis
        /\ blocks'[n] = [height   |-> HeightOf(lastHash[v]) + 1,
                         parent   |-> lastHash[v],
                         proposer |-> v]
        /\ \A b \in Blocks : HeightOf(b)' = HeightOf(b)
    BY <1>2, <2>1, ProposeBlockBuilds
  <2>5. HeightOf(p) \in 0 .. Len(blocks)
    <3>1. HeightOf(p) \in Nat
      BY <2>2, HeightIsNat
    <3>2. CASE p = Genesis
      BY <2>2, <3>2 DEF HeightOf, Blocks
    <3>3. CASE p # Genesis
      <4>1. p \in 1 .. Len(blocks) /\ HeightOf(p) \in 1 .. p
        BY <3>3 DEF Blocks, HeightsLow
      <4>2. QED BY <2>2, <4>1
    <3>4. QED BY <3>2, <3>3
  <2>6. HeightOf(n)' = HeightOf(p) + 1
    BY <2>3, <2>4 DEF HeightOf
  <2>7. HeightOf(n)' \in 1 .. n
    BY <2>1, <2>2, <2>5, <2>6
  <2>8. \A b \in Blocks : HeightOf(b)' \in 1 .. b
    BY <2>4 DEF HeightsLow
  <2>9. QED BY <2>4, <2>7, <2>8 DEF HeightsLow
<1>3. CASE UNCHANGED vars
    BY <1>1, <1>3 DEF vars
<1>4. QED BY <1>1, <1>2, <1>3
          DEF Next, Handle, Relay, Engine, HandleGenesis, ProposeNull, HandleVerify,
              FinalizeBlock, IgnoreFinalization, HandleReceive, DeliverBlock, LoseBlock,
              AskPropose, AskVerify, Report, Notarize, Nullify, Certify, vars

\* The certificates of a step without Certify.
LEMMA CertsKept ==
    ASSUME IInv, [Next]_vars, \A n \in 1 .. Len(notarized) : ~Certify(n)
    PROVE  certs' = certs /\ CertsGrow
<1>1. TypeOK
    BY DEF IInv
<1>2. CASE UNCHANGED <<notarized, certs>>
    BY <1>1, <1>2, SameCerts
<1>3. CASE Notarize
  <2>1. notarized' = Append(notarized, round.digest) /\ certs' = certs
    BY <1>3 DEF Notarize
  <2>2. \A n \in 1 .. Len(notarized) : notarized'[n] = notarized[n]
    BY <1>1, <2>1, AppendProperties DEF TypeOK
  <2>3. QED BY <1>1, <2>1, <2>2, CertTypes DEF CertsGrow, Cert
<1>4. CASE UNCHANGED vars
    BY <1>2, <1>4 DEF vars, engineVars
<1>5. ASSUME NEW v \in Validators, Handle(v) PROVE UNCHANGED <<notarized, certs>>
    BY <1>5 DEF Handle, HandleGenesis, ProposeNull, ProposeBlock, HandleVerify,
                FinalizeBlock, IgnoreFinalization, HandleReceive, engineVars
<1>6. ASSUME NEW v \in Validators, Relay(v) PROVE UNCHANGED <<notarized, certs>>
    BY <1>6 DEF Relay, DeliverBlock, LoseBlock, engineVars
<1>7. ASSUME NEW v \in Validators, AskPropose(v) \/ AskVerify(v) \/ Report(v)
      PROVE  UNCHANGED <<notarized, certs>>
    BY <1>7 DEF AskPropose, AskVerify, Report
<1>8. CASE Nullify
    BY <1>2, <1>8 DEF Nullify
<1>9. QED BY <1>2, <1>3, <1>4, <1>5, <1>6, <1>7, <1>8 DEF Next, Engine

LEMMA BlocksKept ==
    ASSUME IInv, [Next]_vars
    PROVE  BlocksStay
<1>1. CASE UNCHANGED blocks
    BY <1>1, ParentStays
<1>2. ASSUME NEW v \in Validators, ProposeBlock(v) PROVE BlocksStay
  <2>1. PICK n : n = Len(blocks) + 1
    OBVIOUS
  <2>2. QED BY <1>2, <2>1, ProposeBlockBuilds DEF BlocksStay
<1>3. CASE UNCHANGED vars
    BY <1>1, <1>3 DEF vars
<1>4. QED BY <1>1, <1>2, <1>3
          DEF Next, Handle, Relay, Engine, HandleGenesis, ProposeNull, HandleVerify,
              FinalizeBlock, IgnoreFinalization, HandleReceive, DeliverBlock, LoseBlock,
              AskPropose, AskVerify, Report, Notarize, Nullify, Certify

\* Only finalize makes a log longer.
LEMMA LogsKept ==
    ASSUME [Next]_vars, \A v \in Validators : ~FinalizeBlock(v)
    PROVE  UNCHANGED finalizedLog
BY DEF Next, Handle, Relay, Engine, HandleGenesis, ProposeNull, ProposeBlock, HandleVerify,
       IgnoreFinalization, HandleReceive, DeliverBlock, LoseBlock,
       AskPropose, AskVerify, Report, Notarize, Nullify, Certify, vars, appVars

LEMMA InitLog == Init => Log!Init /\ HeightsLow
<1> SUFFICES ASSUME Init PROVE Log!Init /\ HeightsLow
    OBVIOUS
<1>1. /\ certs = <<>> /\ Blocks = {}
      /\ finalizedLog = [v \in Validators |-> <<>>]
    BY DEF Init, Blocks
<1>2. BlockCerts = {}
  <2>1. DOMAIN certs = {}
    BY <1>1
  <2>2. QED BY <2>1 DEF BlockCerts
<1>3. Decided = <<>>
  <2>1. {HeightOf(notarized[certs[k]]) : k \in BlockCerts} = {}
    BY <1>2
  <2>2. QED BY <2>1 DEF Decided
<1>4. QED BY <1>1, <1>3 DEF Log!Init, HeightsLow

\* Every step decides a block, learns one, or is none of the log.
LEMMA NextLog ==
    ASSUME IInv, AskInv, AgreementInv, HeightsLow, DecidedFirst, DecidedFirst', [Next]_vars
    PROVE  [Log!Next]_(Log!vars)
<1>1. TypeOK /\ CertsChained /\ BlocksStay
    BY BlocksKept DEF IInv, AgreementInv, ChainInv
<1>2. ASSUME NEW n \in 1 .. Len(notarized), Certify(n)
      PROVE  [Log!Next]_(Log!vars)
  <2>1. /\ certs' = Append(certs, n) /\ notarized' = notarized
    BY <1>2 DEF Certify
  <2>2. /\ Len(certs) \in Nat /\ Len(certs') = Len(certs) + 1
        /\ \A k \in 1 .. Len(certs) : certs'[k] = certs[k]
    BY <1>1, <2>1, CertTypes, AppendProperties DEF TypeOK
  <2>3. CertsGrow
    BY <2>1, <2>2 DEF CertsGrow, Cert
  <2>4. QED BY <1>1, <1>2, <2>3, CertifyDecides DEF Log!Next, Log!vars
<1>3. ASSUME \A n \in 1 .. Len(notarized) : ~Certify(n)
      PROVE  Decided' = Decided
    BY <1>1, <1>3, CertsKept, DecidedSame
<1>4. ASSUME NEW v \in Validators, FinalizeBlock(v)
      PROVE  [Log!Next]_(Log!vars)
  <2>1. \A n \in 1 .. Len(notarized) : ~Certify(n)
    BY <1>4 DEF FinalizeBlock, Certify, ExpectedHeight, Takes, engineVars, IInv, TypeOK
  <2>2. QED BY <1>3, <1>4, <2>1, FinalizeLearns DEF Log!Next
<1>5. ASSUME \A v \in Validators : ~FinalizeBlock(v), \A n \in 1 .. Len(notarized) : ~Certify(n)
      PROVE  UNCHANGED Log!vars
    BY <1>3, <1>5, LogsKept DEF Log!vars
<1>6. QED BY <1>2, <1>4, <1>5

\* Without faults the validators are one replicated log: whatever finalize
\* (application.rs) broadcasts next is the next decided block, and decided is
\* the first block certified at each height.
THEOREM LogTheorem ==
    ASSUME Faults = {}
    PROVE  Spec => LogSpec
<1>1. Init => Log!Init /\ HeightsLow
    BY InitLog
<1>2. IInv /\ HeightsLow /\ [Next]_vars => HeightsLow'
    BY NextHeightsLow
<1>3. IInv /\ AgreementInv /\ HeightsLow => DecidedFirst
    BY DecidedIs DEF IInv, AgreementInv, ChainInv
<1>4. IInv /\ AskInv /\ AgreementInv /\ HeightsLow /\ DecidedFirst /\ DecidedFirst' /\ [Next]_vars
          => [Log!Next]_(Log!vars)
    BY NextLog
<1>5. QED BY <1>1, <1>2, <1>3, <1>4, Invariance, AskInvariance, AgreementInvariance, PTL
          DEF Spec, LogSpec, Log!Spec
=============================================================================
