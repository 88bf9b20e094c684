------------------------- MODULE DaSubmissionProofs -------------------------
(***************************************************************************)
(* Theorems about DaSubmission, for every number and size of blocks,       *)
(* capacity, limit and number of failures.  The first invariant follows    *)
(* the blocks of the loop, in the order it holds them, onto Celestia; the  *)
(* second follows them from there to their confirmation.  Together they    *)
(* show that the submission implements FinalityLedger.  The third is about *)
(* what the batch weighs and about every capacity and limit: the sum over  *)
(* a sequence is a recursive function, and the lemmas about it are proved  *)
(* by induction on the number of blocks.                                   *)
(***************************************************************************)
EXTENDS DaSubmission, NumberFacts, SequenceTheorems, TLAPS

----------------------------------------------------------------------------
(* The first invariant: the loop                                           *)

LoopTypes ==
    /\ next \in 1 .. MaxBlock + 1
    /\ batchRx \in Seq(Blocks) /\ batch \in Seq(Blocks) /\ sending \in Seq(Blocks)
    /\ loop \in {"wait", "submit", "last", "stopped", "none", "direct"}
    /\ daHeight \in Nat
    /\ blobs \subseteq Blocks \X (1 .. daHeight)
    /\ abandoned \subseteq 1 .. next - 1 /\ dropped \subseteq 1 .. next - 1
    /\ Included \subseteq 1 .. next - 1
    /\ InHand \subseteq 1 .. next - 1

Sorted(s) == \A i, j \in DOMAIN s : i < j => s[i] < s[j]

\* What the loop holds comes before what is in the channel.
InOrder ==
    /\ Sorted(batchRx)
    /\ \A b \in Elements(batch) \cup Elements(sending), c \in Elements(batchRx) : b < c

\* Blocks are pending or being sent, not both; a callback that submits by
\* itself sends the block it was given last.
OneInHand ==
    /\ IF Submitting THEN batch = <<>> /\ sending # <<>> ELSE sending = <<>>
    /\ ~BatchEnabled => batch = <<>> /\ batchRx = <<>>
    /\ loop = "direct" => sending = <<next - 1>>
    /\ loop = "last" => ~open /\ batchRx = <<>>
    /\ loop = "stopped" => batch = <<>> /\ batchRx = <<>>

\* An abandoned block is not held, and while the loop runs there is none;
\* nothing goes with it before it ends.
AbandonedIsGone ==
    /\ abandoned \cap InHand = {}
    /\ BatchEnabled /\ loop # "stopped" => abandoned = {}
    /\ dropped # {} => loop = "stopped"

\* Until a block is let go, the loop keeps it or Celestia has it.
Kept == 1 .. next - 1 \subseteq InHand \cup Included \cup Failed

\* InclusionInOrder, in terms of the blobs.
EarliestFirst ==
    \A c \in Included, b \in Blocks :
        b < c => /\ BatchEnabled => b \in Included
                 /\ b \in Included =>
                        \A q \in blobs : q[1] = c => \E p \in blobs : p[1] = b /\ p[2] <= q[2]

LoopInv ==
    LoopTypes /\ InOrder /\ OneInHand /\ AbandonedIsGone /\ Kept /\ EarliestFirst

----------------------------------------------------------------------------
(* The second invariant: from Celestia to the confirmation                 *)

Of(S) == {p[1] : p \in S}
Confirmed == Elements(confirmations)

Distinct(s) == \A i, j \in DOMAIN s : s[i] = s[j] => i = j
OneEach(S) == \A p, q \in S : p[1] = q[1] => p = q

TrackTypes ==
    /\ tracks \subseteq blobs /\ pending \subseteq blobs
    /\ emitting \subseteq Blocks /\ confirmations \in Seq(Blocks)
    /\ seen \in 0 .. daHeight

\* A block is in one place at a time, and there once.
OnePlace ==
    /\ OneEach(tracks) /\ OneEach(pending) /\ Distinct(confirmations)
    /\ (InHand \cup dropped) \cap (Of(tracks) \cup Of(pending) \cup emitting \cup Confirmed) = {}
    /\ Of(tracks) \cap (Of(pending) \cup emitting \cup Confirmed) = {}
    /\ Of(pending) \cap (emitting \cup Confirmed) = {}
    /\ emitting \cap Confirmed = {}

\* What a header has confirmed was included at or below it.
HeaderReached ==
    \A b \in emitting \cup Confirmed : \E p \in blobs : p[1] = b /\ p[2] <= seen

TrackInv == TrackTypes /\ OnePlace /\ HeaderReached

----------------------------------------------------------------------------
(* The third invariant: the sizes and the limits                           *)

\* No queue holds more than its capacity; who reaches the last failure stops.
Limits ==
    /\ open \in BOOLEAN
    /\ Len(batchRx) <= ChannelSize
    /\ attempts \in 0 .. MaxAttempts
    /\ failures \in 0 .. MaxFailures
    /\ loop # "stopped" => failures < MaxFailures
    /\ tracker \in {"subscribed", "waiting", "stopped"}
    /\ trackerFailures \in 0 .. MaxTrackerFailures
    /\ tracker # "stopped" => trackerFailures < MaxTrackerFailures
    /\ received \in 0 .. Len(confirmations)
    /\ Len(confirmations) - received <= FinalityCap
    /\ errors \in 0 .. MaxErrors

\* The size is that of the blocks held, and nothing while a call has them.
Exact == pendingSize = IF Submitting THEN 0 ELSE TotalSize(batch)

\* All but the last blocks of s, as many as spare says, stay below the limit.
IsBounded(s, spare) == Len(s) > spare => Sizes(s)[Len(s) - spare] < MaxBatchSize

\* A block less to spare than BatchIsBounded allows, while the loop collects:
\* it has yet to add the block that reaches the limit.
Held == IF Submitting THEN sending ELSE batch
Spare == IF loop = "wait" THEN failures ELSE failures + 1
Bounded == IsBounded(Held, Spare)

\* Blocks go with the loop only after an outage, or a failure at the shutdown.
Outage ==
    dropped # {} => \/ failures = MaxFailures /\ errors >= MaxFailures * MaxAttempts
                    \/ ~open /\ errors >= MaxAttempts

\* Each failed call in a row has cost all its attempts.
Counted == failures * MaxAttempts + attempts <= errors

BatchInv == Limits /\ Exact /\ Bounded /\ Outage /\ Counted

USE MaxBlockAssumption

----------------------------------------------------------------------------
(* Sequences                                                               *)

LEMMA ElementsOfFew ==
    /\ Elements(<<>>) = {}
    /\ \A x : Elements(<<x>>) = {x}
BY DEF Elements

LEMMA ElementsOfAppend ==
    ASSUME NEW S, NEW s \in Seq(S), NEW e \in S
    PROVE  /\ Append(s, e) \in Seq(S)
           /\ Elements(Append(s, e)) = Elements(s) \cup {e}
           /\ Distinct(s) /\ e \notin Elements(s) => Distinct(Append(s, e))
           /\ Sorted(s) /\ (\A b \in Elements(s) : b < e) => Sorted(Append(s, e))
<1>1. /\ Append(s, e) \in Seq(S)
      /\ Len(Append(s, e)) = Len(s) + 1
      /\ \A i \in 1 .. Len(s) : Append(s, e)[i] = s[i]
      /\ Append(s, e)[Len(s) + 1] = e
    BY AppendProperties
<1>2. /\ DOMAIN s = 1 .. Len(s) /\ Len(s) \in Nat
      /\ DOMAIN Append(s, e) = 1 .. (Len(s) + 1)
    BY <1>1, LenProperties
<1>3. Elements(Append(s, e)) = Elements(s) \cup {e}
    BY <1>1, <1>2 DEF Elements
<1>4. ASSUME Distinct(s), e \notin Elements(s) PROVE Distinct(Append(s, e))
    BY <1>1, <1>2, <1>4 DEF Elements, Distinct
<1>5. ASSUME Sorted(s), \A b \in Elements(s) : b < e PROVE Sorted(Append(s, e))
  <2> SUFFICES ASSUME NEW i \in 1 .. (Len(s) + 1), NEW j \in 1 .. (Len(s) + 1), i < j
               PROVE  Append(s, e)[i] < Append(s, e)[j]
    BY <1>2 DEF Sorted
  <2>1. i \in 1 .. Len(s) /\ Append(s, e)[i] = s[i] /\ s[i] \in Elements(s)
    BY <1>1, <1>2 DEF Elements
  <2>2. CASE j = Len(s) + 1
    BY <1>1, <1>5, <2>1, <2>2
  <2>3. CASE j \in 1 .. Len(s)
    <3>1. Append(s, e)[j] = s[j] BY <1>1, <2>3
    <3>2. s[i] < s[j] BY <1>2, <1>5, <2>1, <2>3 DEF Sorted
    <3>3. QED BY <2>1, <3>1, <3>2
  <2>4. QED BY <1>2, <2>2, <2>3
<1>6. QED BY <1>1, <1>3, <1>4, <1>5

LEMMA ElementsOfTail ==
    ASSUME NEW S, NEW s \in Seq(S), s # <<>>
    PROVE  /\ Tail(s) \in Seq(S) /\ Head(s) \in S
           /\ Elements(s) = Elements(Tail(s)) \cup {Head(s)}
           /\ Sorted(s) => Sorted(Tail(s)) /\ \A c \in Elements(Tail(s)) : Head(s) < c
<1>1. /\ Tail(s) \in Seq(S)
      /\ Len(Tail(s)) = Len(s) - 1
      /\ \A i \in 1 .. Len(Tail(s)) : Tail(s)[i] = s[i + 1]
    BY HeadTailProperties
<1>2. Head(s) = s[1] /\ Head(s) \in S
    BY HeadTailProperties DEF Head
<1>3. Len(s) \in Nat \ {0} /\ DOMAIN s = 1 .. Len(s)
    BY EmptySeq, LenProperties
<1>4. DOMAIN Tail(s) = 1 .. (Len(s) - 1)
    BY <1>1, LenProperties
<1>5. Elements(s) = Elements(Tail(s)) \cup {Head(s)}
  <2>1. ASSUME NEW i \in 1 .. Len(s) PROVE s[i] \in Elements(Tail(s)) \cup {s[1]}
    <3>1. CASE i = 1 BY <3>1
    <3>2. CASE i # 1
      <4>1. i - 1 \in 1 .. (Len(s) - 1) BY <3>2, <1>3
      <4>2. Tail(s)[i - 1] = s[i] BY <4>1, <1>1, <1>3
      <4>3. QED BY <4>1, <4>2, <1>4 DEF Elements
    <3>3. QED BY <3>1, <3>2
  <2>2. ASSUME NEW i \in 1 .. (Len(s) - 1) PROVE Tail(s)[i] \in Elements(s)
    <3>1. i + 1 \in 1 .. Len(s) BY <1>3
    <3>2. QED BY <3>1, <1>1, <1>3 DEF Elements
  <2>3. s[1] \in Elements(s) BY <1>3 DEF Elements
  <2>4. QED BY <2>1, <2>2, <2>3, <1>2, <1>3, <1>4 DEF Elements
<1>6. ASSUME Sorted(s) PROVE Sorted(Tail(s)) /\ \A c \in Elements(Tail(s)) : Head(s) < c
  <2>1. \A i \in 1 .. (Len(s) - 1) : i + 1 \in DOMAIN s /\ Tail(s)[i] = s[i + 1] /\ 1 < i + 1
    BY <1>1, <1>3
  <2>2. Sorted(Tail(s))
    <3> SUFFICES ASSUME NEW i \in 1 .. (Len(s) - 1), NEW j \in 1 .. (Len(s) - 1), i < j
                 PROVE  Tail(s)[i] < Tail(s)[j]
      BY <1>4 DEF Sorted
    <3>1. i + 1 < j + 1 BY <1>3
    <3>2. QED BY <2>1, <3>1, <1>6 DEF Sorted
  <2>3. \A c \in Elements(Tail(s)) : Head(s) < c
    <3>1. 1 \in DOMAIN s BY <1>3
    <3>2. QED BY <2>1, <3>1, <1>2, <1>4, <1>6 DEF Sorted, Elements
  <2>4. QED BY <2>2, <2>3
<1>7. QED BY <1>1, <1>2, <1>5, <1>6

----------------------------------------------------------------------------
(* What a blob contains                                                    *)

\* A block handed over before one that is being sent is sent with it, or was
\* included or abandoned before.
LEMMA AheadOfSending ==
    ASSUME LoopInv, Submitting, NEW c \in Elements(sending), NEW b \in Blocks, b < c
    PROVE  /\ b \in Included \cup Elements(sending) \cup abandoned
           /\ BatchEnabled => b \in Included \cup Elements(sending)
<1>1. batch = <<>> /\ Elements(batch) = {}
    BY ElementsOfFew DEF LoopInv, OneInHand
<1>2. c \in 1 .. next - 1 /\ next \in Nat
    BY DEF LoopInv, LoopTypes, InHand
<1>3. b \in 1 .. next - 1
    BY <1>2 DEF Blocks
<1>4. b \notin Elements(batchRx)
  <2>1. b \in Elements(batchRx) => c < b
    BY DEF LoopInv, InOrder
  <2>2. QED BY <1>2, <1>3, <2>1
<1>5. b \in Included \cup Elements(sending) \cup abandoned
  <2>1. dropped = {}
    BY DEF LoopInv, AbandonedIsGone, Submitting
  <2>2. QED BY <1>1, <1>3, <1>4, <2>1 DEF LoopInv, Kept, InHand, Failed
<1>6. BatchEnabled => abandoned = {}
    BY DEF LoopInv, AbandonedIsGone, Submitting
<1>7. QED BY <1>5, <1>6

LEMMA IncludeEffect ==
    ASSUME LoopInv, Submitting, Include(sending), next' = next,
           BatchEnabled' = BatchEnabled
    PROVE  /\ daHeight' = daHeight + 1 /\ daHeight' \in Nat
           /\ blobs \subseteq blobs' /\ blobs' \subseteq Blocks \X (1 .. daHeight')
           /\ \A b \in Elements(sending) : <<b, daHeight'>> \in blobs'
           /\ Included' = Included \cup Elements(sending)
           /\ EarliestFirst'
<1>1. /\ daHeight' = daHeight + 1
      /\ blobs' = blobs \cup {<<b, daHeight + 1>> : b \in Elements(sending)}
      /\ daHeight \in Nat
      /\ blobs \subseteq Blocks \X (1 .. daHeight)
    BY DEF Include, LoopInv, LoopTypes
<1>2. Elements(sending) \subseteq Blocks /\ Elements(sending) \subseteq 1 .. next - 1
    BY LenProperties DEF LoopInv, LoopTypes, InHand, Elements
<1>3. blobs' \subseteq Blocks \X (1 .. daHeight')
    BY <1>1, <1>2
<1>4. \A b \in Elements(sending) : <<b, daHeight'>> \in blobs'
    BY <1>1
<1>5. Included' = Included \cup Elements(sending)
  <2>1. \A p \in {<<b, daHeight + 1>> : b \in Elements(sending)} : p[1] \in Elements(sending)
    OBVIOUS
  <2>2. \A b \in Elements(sending) : <<b, daHeight'>>[1] = b
    OBVIOUS
  <2>3. QED BY <1>1, <1>4, <2>1, <2>2 DEF Included
<1>6. EarliestFirst'
  <2> SUFFICES ASSUME NEW c \in Included', NEW b \in Blocks, b < c
               PROVE  /\ BatchEnabled => b \in Included'
                      /\ b \in Included' =>
                           \A q \in blobs' : q[1] = c => \E p \in blobs' : p[1] = b /\ p[2] <= q[2]
    BY DEF EarliestFirst
  <2>1. BatchEnabled => b \in Included'
    BY <1>5, AheadOfSending DEF LoopInv, EarliestFirst
  <2>2. ASSUME b \in Included', NEW q \in blobs', q[1] = c
        PROVE  \E p \in blobs' : p[1] = b /\ p[2] <= q[2]
    <3>1. CASE q \notin blobs
      <4>1. q[2] = daHeight'
        BY <1>1, <3>1
      <4>2. PICK p \in blobs' : p[1] = b
        BY <2>2 DEF Included
      <4>3. p[2] <= daHeight'
        BY <1>1, <1>3, <4>2
      <4>4. QED BY <4>1, <4>2, <4>3
    <3>2. CASE q \in blobs /\ b \in Included
      <4>1. c \in Included
        BY <2>2, <3>2 DEF Included
      <4>2. QED BY <1>1, <2>2, <3>2, <4>1 DEF LoopInv, EarliestFirst
    <3>3. CASE q \in blobs /\ b \notin Included
      <4>1. c \in Included /\ b \in Elements(sending)
        BY <1>5, <2>2, <3>3 DEF Included
      <4>2. ~BatchEnabled
        BY <3>3, <4>1 DEF LoopInv, EarliestFirst
      <4>3. loop = "direct"
        BY <4>2 DEF BatchEnabled, Submitting
      <4>4. b = next - 1
        BY <4>1, <4>3, ElementsOfFew DEF LoopInv, OneInHand
      <4>5. c \in 1 .. next - 1 /\ next \in Nat
        BY <4>1 DEF LoopInv, LoopTypes
      <4>6. QED BY <4>4, <4>5
    <3>4. QED BY <3>1, <3>2, <3>3
  <2>3. QED BY <2>1, <2>2
<1>7. QED BY <1>1, <1>3, <1>4, <1>5, <1>6

----------------------------------------------------------------------------
(* Steps of the callback and the loop keep the first invariant             *)

LEMMA LoopUnchanged ==
    ASSUME LoopInv,
           UNCHANGED <<next, batchRx, batch, loop, sending, daHeight, blobs, abandoned, dropped>>,
           open' = open \/ open' = FALSE
    PROVE  LoopInv'
<1>1. /\ Included' = Included /\ InHand' = InHand
      /\ BatchEnabled' = BatchEnabled /\ Submitting' = Submitting
      /\ Elements(batchRx)' = Elements(batchRx)
      /\ Elements(batch)' = Elements(batch)
      /\ Elements(sending)' = Elements(sending)
      /\ Sorted(batchRx)' = Sorted(batchRx)
    BY DEF Included, InHand, BatchEnabled, Submitting, Elements, Sorted
<1>2. LoopTypes' /\ Kept'
    BY <1>1 DEF LoopInv, LoopTypes, Kept, Failed
<1>3. InOrder' /\ AbandonedIsGone'
    BY <1>1 DEF LoopInv, InOrder, AbandonedIsGone
<1>4. OneInHand'
  <2>1. ~open => ~open'
    OBVIOUS
  <2>2. QED BY <1>1, <2>1 DEF LoopInv, OneInHand
<1>5. EarliestFirst'
    BY <1>1 DEF LoopInv, EarliestFirst
<1>6. QED BY <1>2, <1>3, <1>4, <1>5 DEF LoopInv

\* Without a new blob, the order on Celestia is what it was.
LEMMA NothingIncluded ==
    ASSUME LoopInv, UNCHANGED blobs, BatchEnabled' = BatchEnabled
    PROVE  Included' = Included /\ EarliestFirst'
<1>1. Included' = Included
    BY DEF Included
<1>2. QED BY <1>1 DEF LoopInv, EarliestFirst

LEMMA QueueForBatchLoop ==
    ASSUME LoopInv, QueueForBatch
    PROVE  LoopInv'
<1>1. /\ BatchEnabled /\ next \in 1 .. MaxBlock /\ next' = next + 1
      /\ loop # "last"
      /\ UNCHANGED <<batch, loop, sending, daHeight, blobs, dropped>>
    BY DEF QueueForBatch, LoopInv, LoopTypes, OneInHand, loopV, celestiaV
<1>2. /\ next \in Blocks /\ next' \in 1 .. MaxBlock + 1
      /\ 1 .. next' - 1 = (1 .. next - 1) \cup {next}
    BY <1>1 DEF Blocks
<1>3. Included' = Included /\ EarliestFirst'
    BY <1>1, NothingIncluded DEF BatchEnabled
<1>4. \A b \in InHand : b < next
    BY <1>1 DEF LoopInv, LoopTypes
<1>5. CASE loop # "stopped" /\ batchRx' = Append(batchRx, next) /\ UNCHANGED abandoned
  <2>1. /\ batchRx' \in Seq(Blocks)
        /\ Elements(batchRx') = Elements(batchRx) \cup {next}
        /\ Sorted(batchRx')
    BY <1>2, <1>4, <1>5, ElementsOfAppend DEF LoopInv, LoopTypes, InOrder, InHand
  <2>2. InHand' = InHand \cup {next}
    BY <1>1, <2>1 DEF InHand
  <2>3. LoopTypes'
    BY <1>1, <1>2, <1>3, <1>5, <2>1, <2>2 DEF LoopInv, LoopTypes
  <2>4. InOrder'
    BY <1>1, <1>4, <2>1 DEF LoopInv, InOrder, InHand
  <2>5. OneInHand' /\ AbandonedIsGone' /\ Kept'
    BY <1>1, <1>2, <1>3, <1>5, <2>2
       DEF LoopInv, OneInHand, AbandonedIsGone, Kept, Failed, Submitting, BatchEnabled
  <2>6. QED BY <1>3, <2>3, <2>4, <2>5 DEF LoopInv
<1>6. CASE loop = "stopped" /\ abandoned' = abandoned \cup {next} /\ UNCHANGED batchRx
  <2>1. InHand' = InHand
    BY <1>1, <1>6 DEF InHand
  <2>2. LoopTypes'
    BY <1>1, <1>2, <1>3, <1>6, <2>1 DEF LoopInv, LoopTypes
  <2>3. InOrder'
    BY <1>1, <1>6 DEF LoopInv, InOrder
  <2>4. OneInHand' /\ AbandonedIsGone' /\ Kept'
    BY <1>1, <1>2, <1>3, <1>4, <1>6, <2>1
       DEF LoopInv, OneInHand, AbandonedIsGone, Kept, Failed, Submitting, BatchEnabled
  <2>5. QED BY <1>3, <2>2, <2>3, <2>4 DEF LoopInv
<1>7. QED BY <1>5, <1>6 DEF QueueForBatch

LEMMA SubmitImmediateLoop ==
    ASSUME LoopInv, SubmitImmediate
    PROVE  LoopInv'
<1>1. /\ loop = "none" /\ loop' = "direct"
      /\ next \in 1 .. MaxBlock /\ next' = next + 1
      /\ sending' = <<next>>
      /\ UNCHANGED <<batchRx, batch, daHeight, blobs, abandoned, dropped>>
    BY DEF SubmitImmediate, LoopInv, LoopTypes, celestiaV
<1>2. /\ next \in Blocks /\ next' \in 1 .. MaxBlock + 1 /\ next' - 1 = next
      /\ 1 .. next' - 1 = (1 .. next - 1) \cup {next}
    BY <1>1 DEF Blocks
<1>3. ~BatchEnabled /\ ~BatchEnabled' /\ ~Submitting /\ Submitting'
    BY <1>1 DEF BatchEnabled, Submitting
<1>4. Included' = Included /\ EarliestFirst'
  <2>1. BatchEnabled' = BatchEnabled
    BY <1>1 DEF BatchEnabled
  <2>2. QED BY <1>1, <2>1, NothingIncluded
<1>5. /\ batch = <<>> /\ batchRx = <<>> /\ sending = <<>> /\ InHand = {}
      /\ InHand' = {next} /\ sending' \in Seq(Blocks)
    BY <1>1, <1>2, <1>3, ElementsOfFew DEF LoopInv, OneInHand, InHand
<1>6. LoopTypes'
    BY <1>1, <1>2, <1>4, <1>5 DEF LoopInv, LoopTypes
<1>7. InOrder'
    BY <1>1, <1>5, ElementsOfFew DEF InOrder, Sorted
<1>8. OneInHand'
    BY <1>1, <1>2, <1>3, <1>5 DEF OneInHand
<1>9. next \notin abandoned
    BY <1>1 DEF LoopInv, LoopTypes
<1>10. AbandonedIsGone' /\ Kept'
    BY <1>1, <1>2, <1>3, <1>4, <1>5, <1>9 DEF LoopInv, AbandonedIsGone, Kept, Failed
<1>11. QED BY <1>4, <1>6, <1>7, <1>8, <1>10 DEF LoopInv

\* Blocks change places within the loop, and none enters or leaves its hands.
LEMMA Regrouped ==
    ASSUME LoopInv, BatchEnabled, BatchEnabled', UNCHANGED <<next, daHeight, blobs, abandoned, dropped>>,
           batchRx' \in Seq(Blocks), batch' \in Seq(Blocks), sending' \in Seq(Blocks),
           loop' \in {"wait", "submit", "last", "stopped"},
           InHand' = InHand, InOrder',
           loop' = "last" => ~open' /\ batchRx' = <<>>,
           loop' = "stopped" => batch' = <<>> /\ batchRx' = <<>>,
           IF Submitting' THEN batch' = <<>> /\ sending' # <<>> ELSE sending' = <<>>,
           loop # "stopped"
    PROVE  LoopInv'
<1>1. Included' = Included /\ EarliestFirst'
    BY NothingIncluded
<1>2. LoopTypes'
    BY <1>1 DEF LoopInv, LoopTypes
<1>3. OneInHand'
    BY DEF OneInHand
<1>4. AbandonedIsGone' /\ Kept'
    BY <1>1 DEF LoopInv, AbandonedIsGone, Kept, Failed
<1>5. QED BY <1>1, <1>2, <1>3, <1>4 DEF LoopInv

LEMMA ReceiveBlockLoop ==
    ASSUME LoopInv, ReceiveBlock
    PROVE  LoopInv'
<1> DEFINE b == Head(batchRx)
<1>1. /\ loop = "wait" /\ batchRx # <<>> /\ batchRx' = Tail(batchRx)
      /\ \/ sending' = Append(batch, b) /\ batch' = <<>> /\ loop' = "submit"
         \/ batch' = Append(batch, b) /\ UNCHANGED <<loop, sending>>
      /\ UNCHANGED <<next, daHeight, blobs, abandoned, dropped>>
    BY DEF ReceiveBlock, TakeBatch, handoverV, celestiaV
<1>2. /\ BatchEnabled /\ BatchEnabled' /\ sending = <<>> /\ Elements(sending) = {}
    BY <1>1, ElementsOfFew DEF BatchEnabled, Submitting, LoopInv, OneInHand
<1>3. /\ batchRx' \in Seq(Blocks) /\ b \in Blocks
      /\ Elements(batchRx) = Elements(batchRx') \cup {b}
      /\ Sorted(batchRx') /\ \A c \in Elements(batchRx') : b < c
    BY <1>1, ElementsOfTail DEF LoopInv, LoopTypes, InOrder
<1>4. /\ Append(batch, b) \in Seq(Blocks) /\ Append(batch, b) # <<>>
      /\ Elements(Append(batch, b)) = Elements(batch) \cup {b}
  <2>1. batch \in Seq(Blocks)
    BY DEF LoopInv, LoopTypes
  <2>2. Append(batch, b) # <<>>
    BY <1>3, <2>1, AppendProperties, EmptySeq
  <2>3. QED BY <1>3, <2>1, <2>2, ElementsOfAppend
<1> HIDE DEF b
<1>5. InHand' = InHand
    BY <1>1, <1>2, <1>3, <1>4, ElementsOfFew DEF InHand
<1>6. InOrder'
  <2>1. Elements(batch)' \cup Elements(sending)' \subseteq Elements(batch) \cup {b}
    <3>1. CASE sending' = Append(batch, b) /\ batch' = <<>>
      BY <1>4, <3>1, ElementsOfFew
    <3>2. CASE batch' = Append(batch, b) /\ UNCHANGED sending
      BY <1>2, <1>4, <3>2
    <3>3. QED BY <1>1, <3>1, <3>2
  <2>2. \A c \in Elements(batchRx') : \A a \in Elements(batch) \cup {b} : a < c
    BY <1>3 DEF LoopInv, InOrder
  <2>3. QED BY <1>3, <2>1, <2>2 DEF InOrder
<1>7. /\ batch' \in Seq(Blocks) /\ sending' \in Seq(Blocks)
      /\ IF Submitting' THEN batch' = <<>> /\ sending' # <<>> ELSE sending' = <<>>
    BY <1>1, <1>2, <1>4 DEF LoopInv, LoopTypes, Submitting
<1>8. loop' \in {"wait", "submit", "last", "stopped"} /\ loop # "stopped"
    BY <1>1
<1>9. QED BY <1>1, <1>2, <1>3, <1>5, <1>6, <1>7, <1>8, Regrouped

\* The interval, and the end of the channel.
LEMMA TakeBatchLoop ==
    ASSUME LoopInv, Tick \/ Shutdown
    PROVE  LoopInv'
<1>1. /\ loop = "wait" /\ sending' = batch /\ batch' = <<>>
      /\ loop' = IF batch = <<>> THEN "stopped" ELSE loop'
      /\ loop' \in {"submit", "last", "stopped"}
      /\ batch # <<>> => loop' \in {"submit", "last"}
      /\ loop' # "submit" => ~open /\ batchRx = <<>>
      /\ UNCHANGED open
      /\ UNCHANGED <<next, batchRx, daHeight, blobs, abandoned, dropped>>
    BY DEF Tick, Shutdown, TakeBatch, handoverV, celestiaV
<1>2. /\ BatchEnabled /\ BatchEnabled' /\ sending = <<>>
    BY <1>1 DEF BatchEnabled, Submitting, LoopInv, OneInHand
<1>3. InHand' = InHand /\ InOrder'
    BY <1>1, <1>2 DEF InHand, LoopInv, InOrder
<1>4. /\ batchRx' \in Seq(Blocks) /\ batch' \in Seq(Blocks) /\ sending' \in Seq(Blocks)
      /\ IF Submitting' THEN batch' = <<>> /\ sending' # <<>> ELSE sending' = <<>>
    BY <1>1, <1>2 DEF LoopInv, LoopTypes, Submitting
<1>5. loop' \in {"wait", "submit", "last", "stopped"} /\ loop # "stopped"
    BY <1>1
<1>6. QED BY <1>1, <1>2, <1>3, <1>4, <1>5, Regrouped

LEMMA CallFailsLoop ==
    ASSUME LoopInv, CallFails
    PROVE  LoopInv'
<1>1. /\ loop \in {"submit", "last"} /\ sending' = <<>>
      /\ UNCHANGED <<next, open, daHeight, blobs, abandoned>>
    BY DEF CallFails, celestiaV
<1>2. BatchEnabled /\ batch = <<>> /\ Submitting
    BY <1>1 DEF BatchEnabled, Submitting, LoopInv, OneInHand
<1>3. CASE RestoreBatch(sending) /\ loop' = "wait" /\ UNCHANGED <<batchRx, dropped>>
  <2>1. batch' = sending /\ BatchEnabled' /\ ~Submitting'
    BY <1>3 DEF RestoreBatch, BatchEnabled, Submitting
  <2>2. InHand' = InHand /\ InOrder'
    BY <1>1, <1>2, <1>3, <2>1 DEF InHand, LoopInv, InOrder
  <2>3. batchRx' \in Seq(Blocks) /\ batch' \in Seq(Blocks) /\ sending' \in Seq(Blocks)
    BY <1>1, <1>3, <2>1 DEF LoopInv, LoopTypes
  <2>4. QED BY <1>1, <1>2, <1>3, <2>1, <2>2, <2>3, Regrouped
<1>4. CASE LoopEnds
  <2>1. /\ loop' = "stopped" /\ batch' = <<>> /\ batchRx' = <<>>
        /\ dropped' = dropped \cup InHand
    BY <1>4 DEF LoopEnds
  <2>2. BatchEnabled' /\ ~Submitting' /\ InHand' = {}
    BY <1>1, <2>1, ElementsOfFew DEF BatchEnabled, Submitting, InHand
  <2>3. Included' = Included /\ EarliestFirst'
    BY <1>1, <1>2, <2>2, NothingIncluded
  <2>4. LoopTypes'
    BY <1>1, <2>1, <2>2, <2>3 DEF LoopInv, LoopTypes
  <2>5. InOrder' /\ OneInHand'
    BY <1>1, <2>1, <2>2, ElementsOfFew DEF InOrder, OneInHand, Sorted
  <2>6. AbandonedIsGone' /\ Kept'
    BY <1>1, <2>1, <2>2, <2>3 DEF LoopInv, AbandonedIsGone, Kept, Failed
  <2>7. QED BY <2>3, <2>4, <2>5, <2>6 DEF LoopInv
<1>5. QED BY <1>3, <1>4 DEF CallFails

LEMMA AttemptSucceedsLoop ==
    ASSUME LoopInv, AttemptSucceeds
    PROVE  LoopInv'
<1>1. /\ Submitting /\ Include(sending) /\ sending' = <<>> /\ loop' = AfterCall
      /\ UNCHANGED <<next, abandoned, dropped, batchRx, batch>>
    BY DEF AttemptSucceeds, handoverV
<1>2. loop' = IF loop = "submit" THEN "wait" ELSE IF loop = "last" THEN "stopped" ELSE "none"
    BY <1>1 DEF AfterCall, Submitting
<1>3. BatchEnabled' = BatchEnabled /\ ~Submitting' /\ loop # "stopped"
    BY <1>1, <1>2 DEF BatchEnabled, Submitting
<1>4. /\ daHeight' \in Nat /\ blobs' \subseteq Blocks \X (1 .. daHeight')
      /\ Included' = Included \cup Elements(sending)
      /\ EarliestFirst'
    BY <1>1, <1>3, IncludeEffect
<1>5. /\ batch = <<>> /\ Elements(sending) \subseteq InHand
      /\ InHand = Elements(batchRx) \cup Elements(sending)
      /\ InHand' = Elements(batchRx)
    BY <1>1, ElementsOfFew DEF LoopInv, OneInHand, InHand
<1>6. LoopTypes'
    BY <1>1, <1>2, <1>4, <1>5 DEF LoopInv, LoopTypes
<1>7. InOrder'
    BY <1>1, ElementsOfFew DEF LoopInv, InOrder
<1>8. OneInHand'
    BY <1>1, <1>2, <1>3 DEF LoopInv, OneInHand
<1>9. AbandonedIsGone' /\ Kept'
    BY <1>1, <1>3, <1>4, <1>5 DEF LoopInv, AbandonedIsGone, Kept, Failed
<1>10. QED BY <1>4, <1>6, <1>7, <1>8, <1>9 DEF LoopInv

LEMMA AttemptFailsLoop ==
    ASSUME LoopInv, AttemptFails
    PROVE  LoopInv'
<1>1. /\ Submitting /\ (Include(sending) \/ UNCHANGED <<daHeight, blobs>>)
      /\ UNCHANGED <<next, open, abandoned, dropped, batchRx, batch, loop, sending>>
    BY DEF AttemptFails, handoverV, celestiaV
<1>2. CASE UNCHANGED <<daHeight, blobs>>
    BY <1>1, <1>2, LoopUnchanged
<1>3. CASE Include(sending)
  <2>1. BatchEnabled' = BatchEnabled /\ Submitting' = Submitting
    BY <1>1 DEF BatchEnabled, Submitting
  <2>2. /\ daHeight' \in Nat /\ blobs' \subseteq Blocks \X (1 .. daHeight')
        /\ Included' = Included \cup Elements(sending)
        /\ EarliestFirst'
    BY <1>1, <1>3, <2>1, IncludeEffect
  <2>3. InHand' = InHand /\ Elements(sending) \subseteq InHand
    BY <1>1 DEF InHand
  <2>4. LoopTypes'
    BY <1>1, <2>2, <2>3 DEF LoopInv, LoopTypes
  <2>5. InOrder' /\ OneInHand'
    BY <1>1, <2>1 DEF LoopInv, InOrder, OneInHand
  <2>6. AbandonedIsGone' /\ Kept'
    BY <1>1, <2>1, <2>2, <2>3 DEF LoopInv, AbandonedIsGone, Kept, Failed
  <2>7. QED BY <2>2, <2>4, <2>5, <2>6 DEF LoopInv
<1>4. QED BY <1>1, <1>2, <1>3

LEMMA ImmediateFailsLoop ==
    ASSUME LoopInv, ImmediateFails
    PROVE  LoopInv'
<1>1. /\ loop = "direct" /\ loop' = "none" /\ sending' = <<>>
      /\ abandoned' = abandoned \cup Elements(sending)
      /\ UNCHANGED <<next, batchRx, batch, daHeight, blobs, dropped>>
    BY DEF ImmediateFails, celestiaV
<1>2. ~BatchEnabled /\ ~BatchEnabled' /\ Submitting /\ ~Submitting'
    BY <1>1 DEF BatchEnabled, Submitting
<1>3. Included' = Included /\ EarliestFirst'
  <2>1. BatchEnabled' = BatchEnabled
    BY <1>1 DEF BatchEnabled
  <2>2. QED BY <1>1, <2>1, NothingIncluded
<1>4. /\ batch = <<>> /\ batchRx = <<>> /\ InHand = Elements(sending) /\ InHand' = {}
    BY <1>1, <1>2, ElementsOfFew DEF LoopInv, OneInHand, InHand
<1>5. LoopTypes'
    BY <1>1, <1>3, <1>4 DEF LoopInv, LoopTypes
<1>6. InOrder' /\ OneInHand'
    BY <1>1, <1>2, <1>4, ElementsOfFew DEF InOrder, OneInHand, Sorted
<1>7. AbandonedIsGone' /\ Kept'
    BY <1>1, <1>2, <1>3, <1>4 DEF LoopInv, AbandonedIsGone, Kept, Failed
<1>8. QED BY <1>3, <1>5, <1>6, <1>7 DEF LoopInv

\* Everything else leaves the loop alone.
LEMMA TrackerLeavesLoop ==
    ASSUME LoopInv,
           CloseChannel \/ (\E t \in tracks : Track(t)) \/ (\E h \in 0 .. daHeight : ProcessHeader(h))
           \/ SendConfirmation \/ TakeConfirmation \/ SubscriptionFails \/ Reconnect
    PROVE  LoopInv'
<1>1. UNCHANGED <<handoverV, batchRx, loopV, celestiaV>>
    BY DEF CloseChannel, Track, ProcessHeader, SendConfirmation, TakeConfirmation,
           SubscriptionFails, Reconnect
<1>2. /\ UNCHANGED <<next, batchRx, batch, loop, sending, daHeight, blobs, abandoned, dropped>>
      /\ open' = open \/ open' = FALSE
    BY <1>1 DEF handoverV, loopV, celestiaV, CloseChannel, Track, ProcessHeader, SendConfirmation,
                TakeConfirmation, SubscriptionFails, Reconnect
<1>3. QED BY <1>2, LoopUnchanged

LEMMA InitLoopInv == Init => LoopInv
<1> SUFFICES ASSUME Init PROVE LoopInv
    OBVIOUS
<1>1. /\ next = 1 /\ batchRx = <<>> /\ batch = <<>> /\ sending = <<>>
      /\ loop \in {"wait", "none"}
      /\ daHeight = 0 /\ blobs = {} /\ abandoned = {} /\ dropped = {}
    BY StartsAssumption DEF Init
<1>2. Included = {} /\ InHand = {} /\ Elements(batchRx) = {} /\ ~Submitting
    BY <1>1, ElementsOfFew DEF Included, InHand, Submitting
<1>3. LoopTypes
    BY <1>1, <1>2 DEF LoopTypes
<1>4. InOrder /\ OneInHand
    BY <1>1, <1>2 DEF InOrder, OneInHand, Sorted
<1>5. AbandonedIsGone /\ Kept /\ EarliestFirst
    BY <1>1, <1>2 DEF AbandonedIsGone, Kept, Failed, EarliestFirst
<1>6. QED BY <1>3, <1>4, <1>5 DEF LoopInv

LEMMA NextLoopInv == LoopInv /\ [Next]_vars => LoopInv'
<1> SUFFICES ASSUME LoopInv, [Next]_vars PROVE LoopInv'
    OBVIOUS
<1>1. CASE UNCHANGED vars
    BY <1>1, LoopUnchanged DEF vars, handoverV, loopV, celestiaV
<1>2. CASE Next
    BY <1>2, QueueForBatchLoop, SubmitImmediateLoop, ReceiveBlockLoop, TakeBatchLoop,
       CallFailsLoop, AttemptSucceedsLoop, AttemptFailsLoop, ImmediateFailsLoop,
       TrackerLeavesLoop DEF Next, Loop
<1>3. QED BY <1>1, <1>2

----------------------------------------------------------------------------
(* Steps keep the second invariant                                         *)

\* All that has left the loop is on Celestia.
LEMMA AllIncluded ==
    ASSUME TrackInv
    PROVE  Of(tracks) \cup Of(pending) \cup emitting \cup Confirmed \subseteq Included
BY DEF TrackInv, TrackTypes, HeaderReached, Of, Included

\* A step of the loop that takes up only blocks that were not included.
LEMMA TrackUnchanged ==
    ASSUME LoopInv, TrackInv, UNCHANGED <<tracks, pending, emitting, confirmations, seen>>,
           daHeight' \in {daHeight, daHeight + 1}, blobs \subseteq blobs',
           (InHand' \cup dropped') \cap Included \subseteq InHand \cup dropped
    PROVE  TrackInv'
<1>1. /\ Of(tracks)' = Of(tracks) /\ Of(pending)' = Of(pending) /\ Confirmed' = Confirmed
      /\ OneEach(tracks)' = OneEach(tracks) /\ OneEach(pending)' = OneEach(pending)
      /\ Distinct(confirmations)' = Distinct(confirmations)
    BY DEF Of, Confirmed, Elements, OneEach, Distinct
<1>2. TrackTypes'
    BY DEF TrackInv, TrackTypes, LoopInv, LoopTypes
<1>3. OnePlace'
    BY <1>1, AllIncluded DEF TrackInv, OnePlace
<1>4. HeaderReached'
    BY <1>1 DEF TrackInv, HeaderReached
<1>5. QED BY <1>2, <1>3, <1>4 DEF TrackInv

LEMMA HandOverTrack ==
    ASSUME LoopInv, TrackInv, QueueForBatch \/ SubmitImmediate
    PROVE  TrackInv'
<1>1. UNCHANGED <<tracks, pending, emitting, confirmations, seen, daHeight, blobs, dropped>>
    BY DEF QueueForBatch, SubmitImmediate, trackerV, celestiaV
<1>2. next \notin Included /\ next \in Blocks
    BY DEF LoopInv, LoopTypes, QueueForBatch, SubmitImmediate, Blocks
<1>3. InHand' \subseteq InHand \cup {next}
  <2>1. CASE QueueForBatch
    <3>1. Elements(batchRx') \subseteq Elements(batchRx) \cup {next}
      <4>1. batchRx \in Seq(Blocks)
        BY DEF LoopInv, LoopTypes
      <4>2. Elements(Append(batchRx, next)) = Elements(batchRx) \cup {next}
        BY <1>2, <4>1, ElementsOfAppend
      <4>3. batchRx' = batchRx \/ batchRx' = Append(batchRx, next)
        BY <2>1 DEF QueueForBatch
      <4>4. QED BY <4>2, <4>3
    <3>2. UNCHANGED <<batch, sending>>
      BY <2>1 DEF QueueForBatch, loopV
    <3>3. QED BY <3>1, <3>2 DEF InHand
  <2>2. CASE SubmitImmediate
    BY <2>2, ElementsOfFew DEF SubmitImmediate, InHand
  <2>3. QED BY <2>1, <2>2
<1>4. QED BY <1>1, <1>2, <1>3, TrackUnchanged

\* Steps of the loop that include nothing, or include and do not know it.
LEMMA LoopTrack ==
    ASSUME LoopInv, TrackInv,
           ReceiveBlock \/ Tick \/ Shutdown \/ CallFails \/ ImmediateFails \/ AttemptFails
    PROVE  TrackInv'
<1>1. UNCHANGED <<tracks, pending, emitting, confirmations, seen>>
    BY DEF ReceiveBlock, Tick, Shutdown, CallFails, ImmediateFails, AttemptFails, trackerV
<1>2. blobs \subseteq blobs' /\ daHeight' \in {daHeight, daHeight + 1}
    BY DEF ReceiveBlock, Tick, Shutdown, CallFails, ImmediateFails, AttemptFails, celestiaV, Include
<1>3. InHand' \cup dropped' \subseteq InHand \cup dropped
  <2>1. CASE ReceiveBlock
    <3>1. /\ loop = "wait" /\ batchRx # <<>> /\ batchRx' = Tail(batchRx)
          /\ \/ sending' = Append(batch, Head(batchRx)) /\ batch' = <<>>
             \/ batch' = Append(batch, Head(batchRx)) /\ UNCHANGED sending
      BY <2>1 DEF ReceiveBlock, TakeBatch
    <3>2. Elements(batchRx) = Elements(batchRx') \cup {Head(batchRx)} /\ Head(batchRx) \in Blocks
      BY <3>1, ElementsOfTail DEF LoopInv, LoopTypes
    <3>3. Elements(Append(batch, Head(batchRx))) = Elements(batch) \cup {Head(batchRx)}
      BY <3>2, ElementsOfAppend DEF LoopInv, LoopTypes
    <3>4. dropped' = dropped
      BY <2>1 DEF ReceiveBlock, handoverV
    <3>5. QED BY <3>1, <3>2, <3>3, <3>4, ElementsOfFew DEF InHand
  <2>2. CASE Tick \/ Shutdown
    BY <2>2, ElementsOfFew DEF Tick, Shutdown, TakeBatch, InHand, handoverV
  <2>3. CASE CallFails
    BY <2>3, ElementsOfFew DEF CallFails, LoopEnds, RestoreBatch, InHand
  <2>4. CASE ImmediateFails
    BY <2>4, ElementsOfFew DEF ImmediateFails, InHand
  <2>5. CASE AttemptFails
    BY <2>5 DEF AttemptFails, InHand, handoverV
  <2>6. QED BY <2>1, <2>2, <2>3, <2>4, <2>5
<1>4. QED BY <1>1, <1>2, <1>3, TrackUnchanged

\* The answer of a submission arrives: its blocks leave the loop for a task.
LEMMA AttemptSucceedsTrack ==
    ASSUME LoopInv, TrackInv, AttemptSucceeds
    PROVE  TrackInv'
<1> DEFINE New == {<<b, daHeight + 1>> : b \in Elements(sending)}
<1>1. /\ Submitting /\ Include(sending) /\ sending' = <<>>
      /\ tracks' = tracks \cup New /\ blobs' = blobs \cup New
      /\ daHeight' = daHeight + 1
      /\ UNCHANGED <<batchRx, batch, pending, emitting, confirmations, seen, dropped>>
    BY DEF AttemptSucceeds, SpawnTracking, Include, trackerV, handoverV
<1>2. Of(New) = Elements(sending)
  <2>1. \A b \in Elements(sending) : <<b, daHeight + 1>> \in New /\ <<b, daHeight + 1>>[1] = b
    OBVIOUS
  <2>2. \A p \in New : p[1] \in Elements(sending)
    OBVIOUS
  <2> HIDE DEF New
  <2>3. QED BY <2>1, <2>2 DEF Of
<1>3. OneEach(New)
    BY DEF OneEach
<1> HIDE DEF New
<1>4. /\ batch = <<>> /\ InHand = Elements(batchRx) \cup Elements(sending)
      /\ InHand' = Elements(batchRx) /\ dropped' = {}
    BY <1>1, ElementsOfFew DEF LoopInv, OneInHand, InHand, AbandonedIsGone, Submitting
<1>5. Elements(batchRx) \cap Elements(sending) = {}
  <2>1. \A b \in Elements(sending), c \in Elements(batchRx) : b < c
    BY DEF LoopInv, InOrder
  <2>2. Elements(sending) \subseteq Nat
    BY <1>4 DEF LoopInv, LoopTypes
  <2>3. QED BY <2>1, <2>2
<1>6. Of(tracks)' = Of(tracks) \cup Elements(sending)
    BY <1>1, <1>2 DEF Of
<1>7. /\ Of(pending)' = Of(pending) /\ Confirmed' = Confirmed
      /\ OneEach(pending)' = OneEach(pending)
      /\ Distinct(confirmations)' = Distinct(confirmations)
    BY <1>1 DEF Of, Confirmed, Elements, OneEach, Distinct
<1>8. OneEach(tracks)'
  <2>1. \A p \in tracks : p[1] \in Of(tracks)
    BY DEF Of
  <2>2. \A p \in New : p[1] \in Elements(sending)
    BY <1>2 DEF Of
  <2>3. Of(tracks) \cap Elements(sending) = {}
    BY <1>4 DEF TrackInv, OnePlace
  <2>4. QED BY <1>1, <1>3, <2>1, <2>2, <2>3 DEF TrackInv, OnePlace, OneEach
<1>9. TrackTypes'
    BY <1>1 DEF TrackInv, TrackTypes, LoopInv, LoopTypes
<1>10. OnePlace'
    BY <1>4, <1>5, <1>6, <1>7, <1>8, <1>1 DEF TrackInv, OnePlace
<1>11. HeaderReached'
    BY <1>1, <1>7 DEF TrackInv, HeaderReached
<1>12. QED BY <1>9, <1>10, <1>11 DEF TrackInv

\* A spawned task enters its block in the map.
LEMMA TrackTrack ==
    ASSUME LoopInv, TrackInv, NEW t \in tracks, Track(t)
    PROVE  TrackInv'
<1>1. /\ tracks' = tracks \ {t}
      /\ pending' = {p \in pending : p[1] # t[1]} \cup {t}
      /\ UNCHANGED <<batchRx, batch, sending, daHeight, blobs, dropped, emitting, confirmations, seen>>
    BY DEF Track, loopV, celestiaV, trackerV, handoverV
<1>2. InHand' = InHand /\ Confirmed' = Confirmed /\ Distinct(confirmations)' = Distinct(confirmations)
    BY <1>1 DEF InHand, Confirmed, Elements, Distinct
<1>3. t[1] \in Of(tracks) /\ t[1] \notin Of(pending)
    BY DEF TrackInv, OnePlace, Of
<1>4. Of(tracks)' \subseteq Of(tracks) \ {t[1]}
    BY <1>1 DEF Of, TrackInv, OnePlace, OneEach
<1>5. Of(pending)' \subseteq Of(pending) \cup {t[1]}
    BY <1>1 DEF Of
<1>6. OneEach(tracks)' /\ OneEach(pending)'
    BY <1>1 DEF OneEach, TrackInv, OnePlace
<1>7. OnePlace'
  <2>1. emitting' = emitting
    BY <1>1
  <2>2. OnePlace
    BY DEF TrackInv
  <2>3. (InHand' \cup dropped') \cap (Of(tracks)' \cup Of(pending)' \cup emitting' \cup Confirmed') = {}
    BY <1>1, <1>2, <1>3, <1>4, <1>5, <2>1, <2>2 DEF OnePlace
  <2>4. /\ Of(tracks)' \cap (Of(pending)' \cup emitting' \cup Confirmed') = {}
        /\ Of(pending)' \cap (emitting' \cup Confirmed') = {}
    BY <1>2, <1>3, <1>4, <1>5, <2>1, <2>2 DEF OnePlace
  <2>5. QED BY <1>2, <1>6, <2>1, <2>2, <2>3, <2>4 DEF OnePlace
<1>8. TrackTypes'
    BY <1>1 DEF TrackInv, TrackTypes
<1>9. HeaderReached'
    BY <1>1, <1>2 DEF TrackInv, HeaderReached
<1>10. QED BY <1>7, <1>8, <1>9 DEF TrackInv

\* A header takes the entries it reaches out of the map.
LEMMA ProcessHeaderTrack ==
    ASSUME LoopInv, TrackInv, NEW h \in 0 .. daHeight, ProcessHeader(h)
    PROVE  TrackInv'
<1>1. /\ emitting = {} /\ seen' = h
      /\ h \in seen + 1 .. daHeight \/ h = daHeight
      /\ emitting' = Of(Reached(h)) /\ pending' = pending \ Reached(h)
      /\ UNCHANGED <<batchRx, batch, sending, daHeight, blobs, dropped, tracks, confirmations>>
    BY DEF ProcessHeader, loopV, celestiaV, handoverV, Of
<1>2. InHand' = InHand /\ Confirmed' = Confirmed /\ Distinct(confirmations)' = Distinct(confirmations)
      /\ Of(tracks)' = Of(tracks) /\ OneEach(tracks)' = OneEach(tracks)
    BY <1>1 DEF InHand, Confirmed, Elements, Distinct, Of, OneEach
<1>3. Reached(h) \subseteq pending /\ \A p \in Reached(h) : p[2] <= h
    BY DEF Reached
<1>4. emitting' \subseteq Of(pending) /\ Of(pending)' \subseteq Of(pending)
    BY <1>1, <1>3 DEF Of
<1>5. Of(pending)' \cap emitting' = {} /\ OneEach(pending)'
    BY <1>1, <1>3 DEF Of, OneEach, TrackInv, OnePlace
<1>6. OnePlace'
    BY <1>1, <1>2, <1>4, <1>5 DEF TrackInv, OnePlace
<1>7. pending \subseteq Blocks \X (1 .. daHeight)
    BY DEF TrackInv, TrackTypes, LoopInv, LoopTypes
<1>8. TrackTypes'
  <2>1. Of(pending) \subseteq Blocks
    BY <1>7 DEF Of
  <2>2. QED BY <1>1, <1>4, <2>1 DEF TrackInv, TrackTypes
<1>9. seen <= seen'
  <2>1. seen \in Nat /\ daHeight \in Nat /\ seen <= daHeight
    BY DEF TrackInv, TrackTypes, LoopInv, LoopTypes
  <2>2. QED BY <1>1, <2>1
<1>10. HeaderReached'
  <2> SUFFICES ASSUME NEW b \in emitting' \cup Confirmed
               PROVE  \E p \in blobs : p[1] = b /\ p[2] <= seen'
    BY <1>1, <1>2 DEF HeaderReached
  <2>1. CASE b \in emitting'
    BY <1>1, <1>3, <2>1 DEF Of, TrackInv, TrackTypes
  <2>2. CASE b \in Confirmed
    <3>1. PICK p \in blobs : p[1] = b /\ p[2] <= seen
      BY <2>2 DEF TrackInv, HeaderReached
    <3>2. p[2] \in Nat /\ seen \in Nat /\ seen' \in Nat
      BY <1>1, <3>1 DEF TrackInv, TrackTypes, LoopInv, LoopTypes
    <3>3. QED BY <1>9, <3>1, <3>2
  <2>3. QED BY <2>1, <2>2
<1>11. QED BY <1>6, <1>8, <1>10 DEF TrackInv

LEMMA MinIs ==
    ASSUME NEW N \in SUBSET Nat, N # {}
    PROVE  Min(N) \in N /\ \A n \in N : Min(N) <= n
BY LeastNumber DEF Min

\* The confirmations of a header are sent one by one.
LEMMA SendConfirmationTrack ==
    ASSUME LoopInv, TrackInv, SendConfirmation
    PROVE  TrackInv'
<1> DEFINE b == Min(emitting)
<1>1. /\ emitting # {} /\ confirmations' = Append(confirmations, b) /\ emitting' = emitting \ {b}
      /\ UNCHANGED <<batchRx, batch, sending, daHeight, blobs, dropped, tracks, pending, seen>>
    BY DEF SendConfirmation, loopV, celestiaV, handoverV
<1>2. b \in emitting /\ b \in Blocks
  <2>1. emitting \in SUBSET Nat /\ emitting \subseteq Blocks
    BY DEF TrackInv, TrackTypes, Blocks
  <2>2. QED BY <1>1, <2>1, MinIs
<1> HIDE DEF b
<1>3. /\ InHand' = InHand /\ Of(tracks)' = Of(tracks) /\ Of(pending)' = Of(pending)
      /\ OneEach(tracks)' = OneEach(tracks) /\ OneEach(pending)' = OneEach(pending)
    BY <1>1 DEF InHand, Elements, Of, OneEach
<1>4. confirmations \in Seq(Blocks) /\ Distinct(confirmations) /\ b \notin Elements(confirmations)
    BY <1>2 DEF TrackInv, TrackTypes, OnePlace, Confirmed
<1>5. /\ confirmations' \in Seq(Blocks) /\ Distinct(confirmations')
      /\ Confirmed' = Confirmed \cup {b}
    BY <1>1, <1>2, <1>4, ElementsOfAppend DEF Confirmed
<1>6. Distinct(confirmations)' = Distinct(confirmations')
    BY DEF Distinct
<1>7. OnePlace'
    BY <1>1, <1>2, <1>3, <1>5, <1>6 DEF TrackInv, OnePlace
<1>8. TrackTypes'
    BY <1>1, <1>5 DEF TrackInv, TrackTypes
<1>9. HeaderReached'
    BY <1>1, <1>2, <1>5 DEF TrackInv, HeaderReached
<1>10. QED BY <1>7, <1>8, <1>9 DEF TrackInv

LEMMA InitTrackInv == Init => TrackInv
<1> SUFFICES ASSUME Init PROVE TrackInv
    OBVIOUS
<1>1. /\ tracks = {} /\ pending = {} /\ emitting = {} /\ confirmations = <<>>
      /\ seen = 0 /\ daHeight = 0
    BY DEF Init
<1>2. Of(tracks) = {} /\ Of(pending) = {} /\ Confirmed = {}
    BY <1>1, ElementsOfFew DEF Of, Confirmed
<1>3. QED BY <1>1, <1>2 DEF TrackInv, TrackTypes, OnePlace, HeaderReached, OneEach, Distinct

LEMMA NextTrackInv == LoopInv /\ TrackInv /\ [Next]_vars => TrackInv'
<1> SUFFICES ASSUME LoopInv, TrackInv, [Next]_vars PROVE TrackInv'
    OBVIOUS
<1>1. CASE CloseChannel \/ TakeConfirmation \/ SubscriptionFails \/ Reconnect \/ UNCHANGED vars
  <2>1. UNCHANGED <<batchRx, batch, sending, daHeight, blobs, dropped, tracks, pending, emitting,
                    confirmations, seen>>
    BY <1>1 DEF CloseChannel, TakeConfirmation, SubscriptionFails, Reconnect, vars, loopV,
                celestiaV, trackerV, handoverV
  <2>2. InHand' = InHand
    BY <2>1 DEF InHand, Elements
  <2>3. QED BY <2>1, <2>2, TrackUnchanged
<1>2. CASE Next
    BY <1>1, <1>2, HandOverTrack, LoopTrack, AttemptSucceedsTrack, TrackTrack,
       ProcessHeaderTrack, SendConfirmationTrack DEF Next, Loop
<1>3. QED BY <1>1, <1>2

\* Every block handed over is followed to one place: held in order by the
\* loop, on its way from Celestia to the event loop, logged as failed by the
\* callback, or gone with a loop that has ended.
THEOREM Invariance == Spec => [](LoopInv /\ TrackInv)
<1>1. Init => LoopInv /\ TrackInv
    BY InitLoopInv, InitTrackInv
<1>2. LoopInv /\ TrackInv /\ [Next]_vars => (LoopInv /\ TrackInv)'
    BY NextLoopInv, NextTrackInv
<1>3. QED BY <1>1, <1>2, PTL DEF Spec

----------------------------------------------------------------------------
(* The sizes of a sequence of blocks                                       *)

\* f gives the sums of the first k elements of s.
IsSums(f, s, k) == f = [n \in 0 .. k |-> IF n = 0 THEN 0 ELSE f[n - 1] + Size[s[n]]]

LEMMA SumsExist ==
    ASSUME NEW s, NEW k \in Nat
    PROVE  \E f : IsSums(f, s, k)
<1> DEFINE S == {n \in Nat : \E f : IsSums(f, s, n)}
<1>1. 0 \in S
  <2>1. IsSums([n \in 0 .. 0 |-> 0], s, 0)
    BY DEF IsSums
  <2>2. QED BY <2>1
<1>2. ASSUME NEW n \in Nat, n \in S PROVE n + 1 \in S
  <2>1. PICK f : IsSums(f, s, n)
    BY <1>2
  <2> DEFINE g == [i \in 0 .. n + 1 |-> IF i <= n THEN f[i] ELSE f[n] + Size[s[i]]]
  <2>2. \A i \in 1 .. n : f[i] = f[i - 1] + Size[s[i]]
    BY <2>1 DEF IsSums
  <2>3. f[0] = 0
    BY <2>1 DEF IsSums
  <2>4. \A i \in 0 .. n + 1 : g[i] = IF i = 0 THEN 0 ELSE g[i - 1] + Size[s[i]]
    BY <2>2, <2>3
  <2>5. g = [i \in 0 .. n + 1 |-> g[i]]
    OBVIOUS
  <2> HIDE DEF g
  <2>6. IsSums(g, s, n + 1)
    BY <2>4, <2>5 DEF IsSums
  <2>7. QED BY <2>6
<1> HIDE DEF S
<1>3. k \in S
    BY <1>1, <1>2, Induction
<1>4. QED BY <1>3 DEF S

LEMMA SizesIs ==
    ASSUME NEW S, NEW s \in Seq(S)
    PROVE  IsSums(Sizes(s), s, Len(s))
<1>1. Len(s) \in Nat
    BY LenProperties
<1>2. Sizes(s) = CHOOSE f : IsSums(f, s, Len(s))
    BY Zenon DEF Sizes, IsSums
<1>3. QED BY <1>1, <1>2, SumsExist, Zenon

\* The sums of the first blocks of s, step by step.
LEMMA SizesSteps ==
    ASSUME NEW s \in Seq(Blocks)
    PROVE  /\ Len(s) \in Nat
           /\ Sizes(s)[0] = 0
           /\ \A n \in 1 .. Len(s) : Sizes(s)[n] = Sizes(s)[n - 1] + Size[s[n]]
<1> DEFINE f == Sizes(s)
<1>1. IsSums(f, s, Len(s)) /\ Len(s) \in Nat
    BY SizesIs, LenProperties
<1> HIDE DEF f
<1>2. f = [n \in 0 .. Len(s) |-> IF n = 0 THEN 0 ELSE f[n - 1] + Size[s[n]]]
    BY <1>1 DEF IsSums
<1>3. \A n \in 0 .. Len(s) : f[n] = IF n = 0 THEN 0 ELSE f[n - 1] + Size[s[n]]
    BY <1>2
<1>4. 0 \in 0 .. Len(s) /\ \A n \in 1 .. Len(s) : n \in 0 .. Len(s) /\ n # 0
    BY <1>1
<1>5. QED BY <1>1, <1>3, <1>4 DEF f

\* They are numbers, and grow with the number of blocks.
LEMMA SizesGrow ==
    ASSUME NEW s \in Seq(Blocks)
    PROVE  /\ \A n \in 0 .. Len(s) : Sizes(s)[n] \in Nat
           /\ \A m, n \in 0 .. Len(s) : m <= n => Sizes(s)[m] <= Sizes(s)[n]
<1> DEFINE f == Sizes(s)
           S == {n \in Nat : n <= Len(s) => \A m \in 0 .. n : f[m] \in Nat /\ f[m] <= f[n]}
<1>1. /\ Len(s) \in Nat /\ f[0] = 0
      /\ \A n \in 1 .. Len(s) : f[n] = f[n - 1] + Size[s[n]]
    BY SizesSteps
<1>2. \A n \in 1 .. Len(s) : Size[s[n]] \in Nat
  <2>1. \A n \in 1 .. Len(s) : s[n] \in 1 .. MaxBlock
    BY ElementOfSeq DEF Blocks
  <2>2. QED BY <2>1, SizeAssumption
<1> HIDE DEF f
<1>3. 0 \in S
    BY <1>1
<1>4. ASSUME NEW n \in Nat, n \in S PROVE n + 1 \in S
  <2> SUFFICES ASSUME n + 1 <= Len(s)
               PROVE  \A m \in 0 .. n + 1 : f[m] \in Nat /\ f[m] <= f[n + 1]
    OBVIOUS
  <2>1. n <= Len(s) /\ n + 1 \in 1 .. Len(s) /\ (n + 1) - 1 = n
    BY <1>1
  <2>2. \A m \in 0 .. n : f[m] \in Nat /\ f[m] <= f[n]
    BY <1>4, <2>1
  <2>3. Size[s[n + 1]] \in Nat /\ f[n + 1] = f[n] + Size[s[n + 1]]
    BY <1>1, <1>2, <2>1
  <2> DEFINE e == Size[s[n + 1]]
  <2> HIDE DEF e
  <2>4. f[n + 1] \in Nat /\ f[n] <= f[n + 1]
    BY <2>2, <2>3 DEF e
  <2>5. QED BY <2>2, <2>4
<1> HIDE DEF S
<1>5. \A n \in Nat : n \in S
    BY <1>3, <1>4, Induction
<1>6. \A n \in 0 .. Len(s) : \A m \in 0 .. n : f[m] \in Nat /\ f[m] <= f[n]
    BY <1>1, <1>5 DEF S
<1>7. QED BY <1>1, <1>6 DEF f

\* A block more: the sums before it stay.
LEMMA SizesOfAppend ==
    ASSUME NEW s \in Seq(Blocks), NEW b \in Blocks
    PROVE  /\ \A n \in 0 .. Len(s) : Sizes(Append(s, b))[n] = Sizes(s)[n]
           /\ TotalSize(Append(s, b)) = TotalSize(s) + Size[b]
<1> DEFINE t == Append(s, b)
           f == Sizes(s)
           g == Sizes(t)
           S == {n \in Nat : n <= Len(s) => g[n] = f[n]}
<1>1. /\ t \in Seq(Blocks) /\ Len(t) = Len(s) + 1
      /\ \A i \in 1 .. Len(s) : t[i] = s[i]
      /\ t[Len(s) + 1] = b
    BY AppendProperties
<1>2. /\ Len(s) \in Nat /\ f[0] = 0 /\ g[0] = 0
      /\ \A n \in 1 .. Len(s) : f[n] = f[n - 1] + Size[s[n]]
      /\ \A n \in 1 .. Len(t) : g[n] = g[n - 1] + Size[t[n]]
    BY <1>1, SizesSteps
<1>3. TotalSize(t) = g[Len(s) + 1] /\ TotalSize(s) = f[Len(s)]
    BY <1>1 DEF TotalSize
<1> HIDE DEF t, f, g
<1>4. 0 \in S
    BY <1>2
<1>5. ASSUME NEW n \in Nat, n \in S PROVE n + 1 \in S
  <2> SUFFICES ASSUME n + 1 <= Len(s) PROVE g[n + 1] = f[n + 1]
    OBVIOUS
  <2>1. n <= Len(s) /\ n + 1 \in 1 .. Len(s) /\ n + 1 \in 1 .. Len(t) /\ (n + 1) - 1 = n
    BY <1>1, <1>2
  <2>2. QED BY <1>1, <1>2, <1>5, <2>1
<1> HIDE DEF S
<1>6. \A n \in Nat : n \in S
    BY <1>4, <1>5, Induction
<1>7. \A n \in 0 .. Len(s) : g[n] = f[n]
    BY <1>2, <1>6 DEF S
<1>8. g[Len(s) + 1] = f[Len(s)] + Size[b]
  <2>1. Len(s) + 1 \in 1 .. Len(t) /\ (Len(s) + 1) - 1 = Len(s) /\ Len(s) \in 0 .. Len(s)
    BY <1>1, <1>2
  <2>2. QED BY <1>1, <1>2, <1>7, <2>1
<1>9. QED BY <1>3, <1>7, <1>8 DEF t, f, g

LEMMA BoundedFurther ==
    ASSUME NEW s \in Seq(Blocks), NEW m \in Nat, NEW n \in Nat, m <= n, IsBounded(s, m)
    PROVE  IsBounded(s, n)
<1> SUFFICES ASSUME Len(s) > n PROVE Sizes(s)[Len(s) - n] < MaxBatchSize
    BY DEF IsBounded
<1>1. /\ Len(s) - n \in 0 .. Len(s) /\ Len(s) - m \in 0 .. Len(s)
      /\ Len(s) - n <= Len(s) - m /\ Len(s) > m
    BY LenProperties
<1>2. Sizes(s)[Len(s) - m] < MaxBatchSize
    BY <1>1 DEF IsBounded
<1>3. /\ Sizes(s)[Len(s) - n] \in Nat /\ Sizes(s)[Len(s) - m] \in Nat
      /\ Sizes(s)[Len(s) - n] <= Sizes(s)[Len(s) - m]
    BY <1>1, SizesGrow
<1>4. QED BY <1>2, <1>3, SizeAssumption

LEMMA BoundedAppend ==
    ASSUME NEW s \in Seq(Blocks), NEW b \in Blocks, NEW n \in Nat
    PROVE  /\ IsBounded(s, n) => IsBounded(Append(s, b), n + 1)
           /\ TotalSize(s) + Size[b] < MaxBatchSize => IsBounded(Append(s, b), n)
<1>1. /\ Append(s, b) \in Seq(Blocks) /\ Len(Append(s, b)) = Len(s) + 1
      /\ Len(s) \in Nat
    BY AppendProperties, LenProperties
<1>2. ASSUME IsBounded(s, n) PROVE IsBounded(Append(s, b), n + 1)
  <2> SUFFICES ASSUME Len(s) + 1 > n + 1
               PROVE  Sizes(Append(s, b))[(Len(s) + 1) - (n + 1)] < MaxBatchSize
    BY <1>1 DEF IsBounded
  <2>1. /\ (Len(s) + 1) - (n + 1) = Len(s) - n /\ Len(s) - n \in 0 .. Len(s)
        /\ Len(s) > n
    BY <1>1
  <2>2. Sizes(Append(s, b))[Len(s) - n] = Sizes(s)[Len(s) - n]
    BY <2>1, SizesOfAppend
  <2>3. QED BY <1>2, <2>1, <2>2 DEF IsBounded
<1>3. ASSUME TotalSize(s) + Size[b] < MaxBatchSize PROVE IsBounded(Append(s, b), n)
  <2>1. IsBounded(Append(s, b), 0)
    <3>1. Sizes(Append(s, b))[Len(Append(s, b)) - 0] < MaxBatchSize
      BY <1>1, <1>3, SizesOfAppend DEF TotalSize
    <3>2. QED BY <3>1 DEF IsBounded
  <2>2. 0 \in Nat /\ 0 <= n
    OBVIOUS
  <2>3. QED BY <1>1, <2>1, <2>2, BoundedFurther
<1>4. QED BY <1>2, <1>3

\* No blocks, and one with a block to spare.
LEMMA BoundedFew ==
    /\ TotalSize(<<>>) = 0
    /\ \A n \in Nat : IsBounded(<<>>, n)
    /\ \A b \in Blocks, n \in Nat : IsBounded(<<b>>, n + 1)
<1>1. <<>> \in Seq(Blocks) /\ Len(<<>>) = 0
    BY EmptySeq
<1>2. TotalSize(<<>>) = 0
    BY <1>1, SizesSteps DEF TotalSize
<1>3. QED BY <1>1, <1>2 DEF IsBounded

----------------------------------------------------------------------------
(* Steps keep the third invariant                                          *)

\* Steps of the tracker and the callback leave the batch alone.
LEMMA BatchUnchanged ==
    ASSUME BatchInv, UNCHANGED <<batch, pendingSize, loop, sending, failures>>
    PROVE  Exact' /\ Bounded'
<1>1. /\ Submitting' = Submitting /\ Held' = Held /\ Spare' = Spare
      /\ TotalSize(batch') = TotalSize(batch)
    BY DEF Submitting, Held, Spare
<1>2. Exact'
  <2>1. TotalSize(batch)' = TotalSize(batch)
    BY DEF TotalSize, Sizes
  <2>2. QED BY <1>1, <2>1 DEF BatchInv, Exact
<1>3. Bounded'
    BY <1>1 DEF BatchInv, Bounded, IsBounded, Sizes
<1>4. QED BY <1>2, <1>3

LEMMA BoundedIs ==
    ASSUME NEW s, NEW n, Held' = s, Spare' = n, IsBounded(s, n)
    PROVE  Bounded'
BY DEF Bounded, IsBounded, Sizes

LEMMA ExactIs ==
    ASSUME NEW s, batch' = s, pendingSize' = IF Submitting' THEN 0 ELSE TotalSize(s)
    PROVE  Exact'
BY DEF Exact, TotalSize, Sizes

\* What the loop has: a sequence of blocks, and its sum.
LEMMA BatchTypes ==
    ASSUME LoopInv, BatchInv
    PROVE  /\ batch \in Seq(Blocks) /\ sending \in Seq(Blocks) /\ batchRx \in Seq(Blocks)
           /\ Held \in Seq(Blocks)
           /\ failures \in Nat /\ Spare \in Nat /\ MaxBatchSize \in Nat
           /\ pendingSize \in Nat
           /\ IsBounded(Held, Spare)
<1>1. /\ batch \in Seq(Blocks) /\ sending \in Seq(Blocks) /\ batchRx \in Seq(Blocks)
      /\ Held \in Seq(Blocks)
    BY DEF LoopInv, LoopTypes, Held
<1>2. failures \in Nat /\ Spare \in Nat /\ MaxBatchSize \in Nat
    BY SizeAssumption, LimitAssumption DEF BatchInv, Limits, Spare
<1>3. TotalSize(batch) \in Nat
    BY <1>1, LenProperties, SizesGrow DEF TotalSize
<1>4. QED BY <1>1, <1>2, <1>3 DEF BatchInv, Exact, Bounded

\* A batch that is full goes without its last block; any other stays below
\* the limit with it.
LEMMA ReceiveBlockBatch ==
    ASSUME LoopInv, BatchInv, ReceiveBlock
    PROVE  Exact' /\ Bounded'
<1> DEFINE b == Head(batchRx)
           s == Append(batch, b)
           size == pendingSize + Size[b]
<1>1. /\ loop = "wait" /\ batchRx # <<>> /\ failures' = failures
      /\ IF LimitReached(size)
         THEN sending' = s /\ batch' = <<>> /\ pendingSize' = 0 /\ loop' = "submit"
         ELSE batch' = s /\ pendingSize' = size /\ loop' = loop
    BY DEF ReceiveBlock, TakeBatch
<1>2. b \in Blocks /\ batch \in Seq(Blocks) /\ failures \in Nat
    BY <1>1, BatchTypes, ElementsOfTail
<1>3. pendingSize = TotalSize(batch) /\ IsBounded(batch, failures)
    BY <1>1 DEF BatchInv, Exact, Bounded, Held, Spare, Submitting
<1>4. s \in Seq(Blocks) /\ TotalSize(s) = size /\ size \in Nat /\ MaxBatchSize \in Nat
  <2>1. Size[b] \in Nat
    BY <1>2, SizeAssumption DEF Blocks
  <2>2. s \in Seq(Blocks)
    BY <1>2, AppendProperties
  <2>3. QED BY <1>2, <1>3, <2>1, <2>2, SizesOfAppend, BatchTypes
<1>5. IsBounded(s, failures + 1) /\ (size < MaxBatchSize => IsBounded(s, failures))
    BY <1>2, <1>3, BoundedAppend
<1>6. CASE LimitReached(size)
  <2>1. Submitting' /\ Held' = s /\ Spare' = failures + 1 /\ batch' = <<>> /\ pendingSize' = 0
    BY <1>1, <1>6 DEF Submitting, Held, Spare
  <2> HIDE DEF b, s, size
  <2>2. QED BY <1>5, <2>1, BoundedIs, ExactIs
<1>7. CASE ~LimitReached(size)
  <2>1. size < MaxBatchSize
    BY <1>4, <1>7 DEF LimitReached
  <2>2. ~Submitting' /\ Held' = s /\ Spare' = failures /\ batch' = s /\ pendingSize' = TotalSize(s)
    BY <1>1, <1>4, <1>7 DEF Submitting, Held, Spare
  <2> HIDE DEF b, s, size
  <2>3. QED BY <1>5, <2>1, <2>2, BoundedIs, ExactIs
<1>8. QED BY <1>6, <1>7

\* The batch that waited is now being sent, whole.
LEMMA TakeBatchBatch ==
    ASSUME LoopInv, BatchInv, Tick \/ Shutdown
    PROVE  Exact' /\ Bounded'
<1>1. /\ loop = "wait" /\ sending' = batch /\ batch' = <<>> /\ pendingSize' = 0
      /\ loop' \in {"submit", "last", "stopped"}
      /\ loop' = "stopped" => batch = <<>>
      /\ failures' = failures
    BY DEF Tick, Shutdown, TakeBatch
<1>2. Held' = batch /\ Spare' = failures + 1
    BY <1>1 DEF Submitting, Held, Spare
<1>3. batch \in Seq(Blocks) /\ failures \in Nat /\ IsBounded(batch, failures)
    BY <1>1, BatchTypes DEF Held, Spare, Submitting
<1>4. failures <= failures + 1 /\ failures + 1 \in Nat
    BY <1>3
<1>5. IsBounded(batch, failures + 1)
    BY <1>3, <1>4, BoundedFurther
<1>6. Bounded'
    BY <1>2, <1>5, BoundedIs
<1>7. Exact'
    BY <1>1, BoundedFew, ExactIs
<1>8. QED BY <1>6, <1>7

\* After a failure the batch is back, with one more block to spare, or empty.
LEMMA CallFailsBatch ==
    ASSUME LoopInv, BatchInv, CallFails
    PROVE  Exact' /\ Bounded'
<1>1. loop \in {"submit", "last"} /\ sending' = <<>>
    BY DEF CallFails
<1>2. sending \in Seq(Blocks) /\ failures \in Nat /\ IsBounded(sending, failures + 1)
    BY <1>1, BatchTypes DEF Held, Spare, Submitting
<1>3. CASE LoopEnds
  <2>1. /\ batch' = <<>> /\ pendingSize' = 0 /\ loop' = "stopped"
        /\ failures' = failures \/ failures' = failures + 1
    BY <1>3 DEF LoopEnds, CallFails
  <2>2. ~Submitting' /\ Held' = <<>>
    BY <1>1, <2>1 DEF Submitting, Held
  <2>3. Spare' \in Nat
    <3>1. failures' \in Nat /\ failures' + 1 \in Nat
      BY <1>2, <2>1
    <3>2. QED BY <3>1 DEF Spare
  <2>4. PICK n \in Nat : Spare' = n
    BY <2>3
  <2>5. QED BY <2>1, <2>2, <2>4, BoundedFew, BoundedIs, ExactIs
<1>4. CASE RestoreBatch(sending) /\ loop' = "wait" /\ failures' = failures + 1
  <2>1. /\ batch' = sending /\ pendingSize' = TotalSize(sending)
        /\ ~Submitting' /\ Held' = sending /\ Spare' = failures + 1
    BY <1>4 DEF RestoreBatch, Submitting, Held, Spare
  <2>2. QED BY <1>2, <2>1, BoundedIs, ExactIs
<1>5. QED BY <1>3, <1>4 DEF CallFails

\* A call that is over, or one of a single block.
LEMMA CallsBatch ==
    ASSUME LoopInv, BatchInv, AttemptSucceeds \/ ImmediateFails \/ SubmitImmediate
    PROVE  Exact' /\ Bounded'
<1>1. batch' = <<>> /\ pendingSize' = 0 /\ failures' \in Nat
  <2>1. Submitting \/ loop = "none"
    BY DEF AttemptSucceeds, ImmediateFails, SubmitImmediate, Submitting
  <2>2. batch = <<>>
    BY <2>1 DEF LoopInv, OneInHand, BatchEnabled
  <2>3. pendingSize = 0
    BY <2>1, <2>2, BoundedFew DEF BatchInv, Exact
  <2>4. UNCHANGED <<batch, pendingSize>> /\ failures' \in {failures, 0}
    BY DEF AttemptSucceeds, ImmediateFails, SubmitImmediate
  <2>5. QED BY <2>2, <2>3, <2>4, BatchTypes
<1>2. Exact'
    BY <1>1, BoundedFew, ExactIs
<1>3. PICK n \in Nat : failures' = n
    BY <1>1
<1>4. CASE AttemptSucceeds \/ ImmediateFails
  <2>1. sending' = <<>>
    BY <1>4 DEF AttemptSucceeds, ImmediateFails
  <2>2. Held' = <<>> /\ Spare' \in {n, n + 1}
    BY <1>1, <1>3, <2>1 DEF Held, Spare
  <2>3. QED BY <1>2, <2>2, BoundedFew, BoundedIs
<1>5. CASE SubmitImmediate
  <2>1. next \in Blocks /\ sending' = <<next>> /\ loop' = "direct"
    BY <1>5 DEF SubmitImmediate, LoopInv, LoopTypes, Blocks
  <2>2. Held' = <<next>> /\ Spare' = n + 1
    BY <1>3, <2>1 DEF Held, Spare, Submitting
  <2>3. QED BY <1>2, <2>1, <2>2, BoundedFew, BoundedIs
<1>6. QED BY <1>4, <1>5

LEMMA InitBatchInv == Init => BatchInv
<1> SUFFICES ASSUME Init PROVE BatchInv
    OBVIOUS
<1>1. Limits
    BY EmptySeq, CapacityAssumption, LimitAssumption, MaxErrorsAssumption DEF Init, Limits
<1>2. batch = <<>> /\ sending = <<>> /\ pendingSize = 0 /\ failures = 0 /\ loop \in {"wait", "none"}
    BY StartsAssumption DEF Init
<1>3. Exact
    BY <1>2, BoundedFew DEF Exact
<1>4. Bounded
    BY <1>2, BoundedFew DEF Bounded, Held, Spare
<1>5. Outage /\ Counted
    BY LimitAssumption DEF Init, Outage, Counted
<1>6. QED BY <1>1, <1>3, <1>4, <1>5 DEF BatchInv

\* No queue outgrows its capacity and no counter its limit: who reaches the
\* last failure stops.
LEMMA NextLimits ==
    ASSUME LoopInv, TrackInv, BatchInv, [Next]_vars
    PROVE  Limits'
<1> USE CapacityAssumption, LimitAssumption, MaxErrorsAssumption
<1>1. CASE QueueForBatch
  <2>1. Len(batchRx') <= ChannelSize
    <3>1. CASE batchRx' = Append(batchRx, next)
      <4>1. Len(batchRx) < ChannelSize /\ next \in Blocks
        BY <1>1, <3>1, EmptySeq, AppendProperties, BatchTypes
           DEF QueueForBatch, ChannelHasRoom, LoopInv, LoopTypes, Blocks
      <4>2. Len(batchRx') = Len(batchRx) + 1
        BY <3>1, <4>1, BatchTypes, AppendProperties
      <4>3. QED BY <4>1, <4>2, BatchTypes, LenProperties
    <3>2. QED BY <1>1, <3>1 DEF QueueForBatch, BatchInv, Limits
  <2>2. QED BY <1>1, <2>1 DEF QueueForBatch, BatchInv, Limits, loopV, trackerV
<1>2. CASE CloseChannel \/ SubmitImmediate
  <2>1. /\ attempts' \in {attempts, 0} /\ open' \in BOOLEAN
        /\ loop' # "stopped" => failures < MaxFailures
        /\ UNCHANGED <<batchRx, failures, trackerV, errors>>
    BY <1>2 DEF CloseChannel, SubmitImmediate, BatchInv, Limits, loopV
  <2>2. QED BY <2>1 DEF BatchInv, Limits, trackerV
<1>3. CASE ReceiveBlock
  <2>1. batchRx # <<>> /\ batchRx' = Tail(batchRx)
    BY <1>3 DEF ReceiveBlock
  <2>2. Len(batchRx') = Len(batchRx) - 1 /\ Len(batchRx) \in Nat
    BY <2>1, BatchTypes, HeadTailProperties, LenProperties
  <2>3. /\ attempts' \in {attempts, 0} /\ loop = "wait"
        /\ UNCHANGED <<open, failures, trackerV, errors>>
    BY <1>3 DEF ReceiveBlock, TakeBatch
  <2>4. QED BY <2>2, <2>3 DEF BatchInv, Limits, trackerV
<1>4. CASE Tick \/ Shutdown
  <2>1. /\ attempts' = 0 /\ loop = "wait"
        /\ UNCHANGED <<batchRx, open, failures, trackerV, errors>>
    BY <1>4 DEF Tick, Shutdown, TakeBatch
  <2>2. failures \in 0 .. MaxFailures /\ failures < MaxFailures
    BY <2>1 DEF BatchInv, Limits
  <2>3. QED BY <2>1, <2>2 DEF BatchInv, Limits, trackerV
<1>5. CASE AttemptSucceeds
  <2>1. loop # "stopped"
    BY <1>5 DEF AttemptSucceeds, Submitting
  <2>2. QED BY <1>5, <2>1 DEF AttemptSucceeds, BatchInv, Limits, trackerV
<1>6. CASE AttemptFails
  BY <1>6 DEF AttemptFails, BatchInv, Limits, trackerV
<1>7. CASE CallFails
  <2>1. failures < MaxFailures /\ failures \in Nat
    BY <1>7 DEF CallFails, BatchInv, Limits
  <2>2. /\ failures' \in 0 .. MaxFailures
        /\ loop' # "stopped" => failures' < MaxFailures
    BY <1>7, <2>1 DEF CallFails, LoopEnds
  <2>3. attempts' = 0 /\ UNCHANGED <<open, trackerV, errors>>
    BY <1>7 DEF CallFails
  <2>4. Len(batchRx') <= ChannelSize
    <3>1. batchRx' \in {batchRx, <<>>}
      BY <1>7 DEF CallFails, LoopEnds
    <3>2. QED BY <3>1, EmptySeq DEF BatchInv, Limits
  <2>5. QED BY <2>2, <2>3, <2>4 DEF BatchInv, Limits, trackerV
<1>8. CASE ImmediateFails
  BY <1>8 DEF ImmediateFails, BatchInv, Limits, trackerV
<1>9. CASE (\E t \in tracks : Track(t)) \/ (\E h \in 0 .. daHeight : ProcessHeader(h))
           \/ Reconnect \/ UNCHANGED vars
  BY <1>9 DEF Track, ProcessHeader, Reconnect, vars, BatchInv, Limits, loopV, trackerV
<1>10. CASE SendConfirmation
  <2>1. /\ confirmations \in Seq(Blocks) /\ Min(emitting) \in Blocks
        /\ confirmations' = Append(confirmations, Min(emitting))
    <3>1. emitting \in SUBSET Nat /\ emitting \subseteq Blocks /\ emitting # {}
      BY <1>10 DEF SendConfirmation, TrackInv, TrackTypes, Blocks
    <3>2. QED BY <1>10, <3>1, MinIs DEF SendConfirmation, TrackInv, TrackTypes
  <2>2. Len(confirmations') = Len(confirmations) + 1 /\ Len(confirmations) \in Nat
    BY <2>1, AppendProperties, LenProperties
  <2>3. QED BY <1>10, <2>2 DEF SendConfirmation, BatchInv, Limits, loopV
<1>11. CASE TakeConfirmation
  <2>1. Len(confirmations) \in Nat
    BY LenProperties DEF TrackInv, TrackTypes
  <2>2. QED BY <1>11, <2>1 DEF TakeConfirmation, BatchInv, Limits, loopV
<1>12. CASE SubscriptionFails
  BY <1>12 DEF SubscriptionFails, BatchInv, Limits, loopV
<1>13. QED BY <1>1, <1>2, <1>3, <1>4, <1>5, <1>6, <1>7, <1>8, <1>9, <1>10, <1>11, <1>12 DEF Next, Loop

\* The attempts of the calls that failed in a row are among the errors.
LEMMA NextOutage ==
    ASSUME LoopInv, TrackInv, BatchInv, [Next]_vars
    PROVE  Outage' /\ Counted'
<1>1. /\ failures \in Nat /\ attempts \in Nat /\ errors \in Nat
      /\ MaxAttempts \in Nat \ {0} /\ MaxFailures \in Nat \ {0}
    BY LimitAssumption, MaxErrorsAssumption DEF BatchInv, Limits
<1> DEFINE before == failures * MaxAttempts
<1>2. /\ before \in Nat /\ before + attempts <= errors
      /\ (failures + 1) * MaxAttempts = before + MaxAttempts
      /\ 0 * MaxAttempts = 0
    BY <1>1 DEF BatchInv, Counted
<1>3. Submitting \/ loop = "none" => dropped = {}
    BY DEF Submitting, LoopInv, AbandonedIsGone
<1>4. CASE CallFails
  <2>1. /\ attempts = MaxAttempts /\ attempts' = 0 /\ Submitting
        /\ failures' = IF loop = "last" THEN failures ELSE failures + 1
        /\ UNCHANGED <<errors, open>>
    BY <1>4 DEF CallFails, Submitting
  <2>2. failures' * MaxAttempts \in {before, before + MaxAttempts}
    BY <1>2, <2>1
  <2>3. Counted'
    <3>1. failures' * MaxAttempts + attempts' = failures' * MaxAttempts
      BY <1>1, <1>2, <2>1, <2>2
    <3>2. failures' * MaxAttempts <= errors
      BY <1>1, <1>2, <2>1, <2>2
    <3>3. QED BY <2>1, <3>1, <3>2 DEF Counted
  <2>4. CASE loop = "last"
    <3>1. ~open' /\ MaxAttempts <= errors'
      BY <1>1, <1>2, <2>1, <2>4 DEF LoopInv, OneInHand
    <3>2. QED BY <1>1, <2>1, <2>3, <3>1 DEF Outage
  <2>5. CASE loop # "last" /\ failures + 1 >= MaxFailures
    <3>1. failures' = MaxFailures /\ failures + 1 = MaxFailures
      BY <1>1, <2>1, <2>5 DEF Submitting, BatchInv, Limits
    <3>2. MaxFailures * MaxAttempts <= errors'
      BY <1>1, <1>2, <2>1, <3>1
    <3>3. QED BY <1>1, <2>1, <2>3, <3>1, <3>2 DEF Outage
  <2>6. CASE loop # "last" /\ ~(failures + 1 >= MaxFailures)
    <3>1. dropped' = {}
      BY <1>3, <1>4, <2>1, <2>6 DEF CallFails
    <3>2. QED BY <2>3, <3>1 DEF Outage
  <2>7. QED BY <2>4, <2>5, <2>6
<1>5. CASE AttemptSucceeds
  <2>1. failures' = 0 /\ attempts' = 0 /\ errors' = errors /\ dropped' = {}
    BY <1>3, <1>5 DEF AttemptSucceeds, handoverV
  <2>2. QED BY <1>1, <1>2, <2>1 DEF Outage, Counted
<1>6. CASE AttemptFails
  <2>1. failures' = failures /\ attempts' = attempts + 1 /\ errors' = errors + 1 /\ dropped' = {}
    BY <1>3, <1>6 DEF AttemptFails, handoverV
  <2>2. QED BY <1>1, <1>2, <2>1 DEF Outage, Counted
<1>7. CASE \/ QueueForBatch \/ SubmitImmediate \/ CloseChannel \/ ReceiveBlock \/ Tick \/ Shutdown
           \/ ImmediateFails \/ (\E t \in tracks : Track(t))
           \/ (\E h \in 0 .. daHeight : ProcessHeader(h)) \/ SendConfirmation
           \/ TakeConfirmation \/ SubscriptionFails \/ Reconnect \/ UNCHANGED vars
  <2>1. /\ failures' = failures /\ dropped' = dropped
        /\ attempts' \in {attempts, 0} /\ errors' \in {errors, errors + 1}
        /\ open' = open \/ open' = FALSE
    BY <1>7 DEF QueueForBatch, SubmitImmediate, CloseChannel, ReceiveBlock, Tick, Shutdown, TakeBatch,
                ImmediateFails, Track, ProcessHeader, SendConfirmation, TakeConfirmation,
                SubscriptionFails, Reconnect, vars, handoverV, loopV
  <2>2. Counted'
    <3>1. before + attempts' <= errors'
      <4>1. attempts' = attempts \/ attempts' = 0
        BY <2>1
      <4>2. errors' = errors \/ errors' = errors + 1
        BY <2>1
      <4> HIDE DEF before
      <4>3. before + attempts' <= before + attempts
        BY <1>1, <1>2, <4>1
      <4>4. before + attempts' \in Nat
        BY <1>1, <1>2, <4>1
      <4>5. QED BY <1>1, <1>2, <4>2, <4>3, <4>4
    <3>2. QED BY <2>1, <3>1 DEF Counted
  <2>3. errors <= errors'
    BY <1>1, <2>1
  <2> DEFINE m == MaxFailures * MaxAttempts
  <2>4. m \in Nat
    BY <1>1
  <2>5. Outage'
    <3>1. Outage
      BY DEF BatchInv
    <3> SUFFICES ASSUME dropped # {} PROVE Outage'
      BY <2>1 DEF Outage
    <3>2. \/ failures = MaxFailures /\ errors >= m
          \/ ~open /\ errors >= MaxAttempts
      BY <3>1 DEF Outage
    <3> HIDE DEF m
    <3>3. \/ failures' = MaxFailures /\ errors' >= m
          \/ ~open' /\ errors' >= MaxAttempts
      <4>1. errors' \in Nat
        BY <1>1, <2>1
      <4>2. CASE failures = MaxFailures /\ errors >= m
        BY <1>1, <2>1, <2>3, <2>4, <4>1, <4>2
      <4>3. CASE ~open /\ errors >= MaxAttempts
        <5>1. ~open'
          BY <2>1, <4>3
        <5>2. errors' >= MaxAttempts
          BY <1>1, <2>3, <4>1, <4>3
        <5>3. QED BY <5>1, <5>2
      <4>4. QED BY <3>2, <4>2, <4>3
    <3>4. QED BY <3>3 DEF Outage, m
  <2>6. QED BY <2>2, <2>5
<1>8. QED BY <1>4, <1>5, <1>6, <1>7 DEF Next, Loop

LEMMA NextBatchInv == LoopInv /\ TrackInv /\ BatchInv /\ [Next]_vars => BatchInv'
<1> SUFFICES ASSUME LoopInv, TrackInv, BatchInv, [Next]_vars PROVE Exact' /\ Bounded'
    BY NextLimits, NextOutage DEF BatchInv
<1>1. CASE ReceiveBlock \/ Tick \/ Shutdown
    BY <1>1, ReceiveBlockBatch, TakeBatchBatch
<1>2. CASE CallFails \/ AttemptSucceeds \/ ImmediateFails \/ SubmitImmediate
    BY <1>2, CallFailsBatch, CallsBatch
<1>3. CASE \/ QueueForBatch \/ CloseChannel \/ AttemptFails
           \/ (\E t \in tracks : Track(t)) \/ (\E h \in 0 .. daHeight : ProcessHeader(h))
           \/ SendConfirmation \/ TakeConfirmation \/ SubscriptionFails \/ Reconnect
           \/ UNCHANGED vars
  <2>1. UNCHANGED <<batch, pendingSize, loop, sending, failures>>
    BY <1>3 DEF QueueForBatch, CloseChannel, AttemptFails, Track, ProcessHeader, SendConfirmation,
                TakeConfirmation, SubscriptionFails, Reconnect, vars, loopV
  <2>2. QED BY <2>1, BatchUnchanged
<1>4. QED BY <1>1, <1>2, <1>3 DEF Next, Loop

THEOREM BatchInvariance == Spec => [](LoopInv /\ TrackInv /\ BatchInv)
<1>1. LoopInv /\ TrackInv /\ BatchInv /\ [Next]_vars => BatchInv'
    BY NextBatchInv
<1>2. QED BY <1>1, InitBatchInv, Invariance, PTL DEF Spec

----------------------------------------------------------------------------
(* The properties                                                          *)

\* Until the loop ends, a block handed over is held, on Celestia, or logged by
\* the callback, whatever attempts and calls fail; what goes with the loop was
\* not acknowledged, and the outage that ended it was as long as the limits say.
THEOREM NothingLostTheorem == Spec => []NothingLost
<1>1. LoopInv /\ TrackInv /\ BatchInv => NothingLost
  <2> SUFFICES ASSUME LoopInv, TrackInv, BatchInv PROVE NothingLost
    OBVIOUS
  <2>1. 1 .. next - 1 \subseteq InHand \cup Included \cup abandoned \cup dropped
    BY DEF LoopInv, Kept, Failed
  <2>2. dropped \cap Acknowledged = {}
    <3>1. Acknowledged = Of(tracks) \cup Of(pending) \cup emitting \cup Confirmed
      BY DEF Acknowledged, Of, Confirmed
    <3>2. QED BY <3>1 DEF TrackInv, OnePlace
  <2>3. QED BY <2>1, <2>2 DEF NothingLost, LoopInv, AbandonedIsGone, BatchInv, Outage
<1>2. QED BY <1>1, BatchInvariance, PTL

\* Every variable keeps its shape: the channels never hold more than their
\* capacity, and the counts of failures stop at their limits.
THEOREM TypeCorrect == Spec => []TypeOK
<1>1. LoopInv /\ TrackInv /\ BatchInv => TypeOK
    BY BatchTypes DEF LoopInv, LoopTypes, TrackInv, TrackTypes, BatchInv, Limits, TypeOK
<1>2. QED BY <1>1, BatchInvariance, PTL

\* pending_size is the size of what is pending, whatever was restored.
THEOREM SizeTheorem == Spec => []SizeIsExact
<1>1. BatchInv => SizeIsExact
    BY DEF BatchInv, Exact, SizeIsExact, Submitting
<1>2. QED BY <1>1, BatchInvariance, PTL

\* A batch outgrows the limit by at most a block, and one for each failure in
\* a row, for every sequence of sizes, also larger than the limit.
THEOREM BoundTheorem == Spec => []BatchIsBounded
<1>1. LoopInv /\ BatchInv => BatchIsBounded
  <2> SUFFICES ASSUME LoopInv, BatchInv PROVE BatchIsBounded
      OBVIOUS
  <2> DEFINE held == batch \o sending
  <2>1. held = Held
    <3>1. IF Submitting THEN batch = <<>> ELSE sending = <<>>
      BY DEF LoopInv, OneInHand
    <3>2. QED BY <3>1, BatchTypes, ConcatEmptySeq DEF Held
  <2>2. Held \in Seq(Blocks) /\ Spare \in Nat /\ failures \in Nat /\ IsBounded(Held, Spare)
        /\ Spare <= failures + 1
    BY BatchTypes DEF Spare
  <2>3. IsBounded(Held, failures + 1)
    BY <2>2, BoundedFurther
  <2>4. Len(held) - (failures + 1) = Len(held) - failures - 1
    BY <2>1, <2>2, LenProperties
  <2> HIDE DEF held
  <2>5. Len(held) > failures + 1 => Sizes(held)[Len(held) - failures - 1] < MaxBatchSize
    BY <2>1, <2>3, <2>4 DEF IsBounded
  <2>6. QED BY <2>5 DEF BatchIsBounded, held
<1>2. QED BY <1>1, BatchInvariance, PTL

\* FirstHeight is the least height of a blob with the block.
LEMMA FirstHeightIs ==
    ASSUME LoopInv, NEW b \in Included
    PROVE  /\ \E p \in blobs : p[1] = b /\ p[2] = FirstHeight(b)
           /\ \A p \in blobs : p[1] = b => FirstHeight(b) <= p[2]
           /\ FirstHeight(b) \in Nat
<1> DEFINE N == {p[2] : p \in {q \in blobs : q[1] = b}}
<1>1. blobs \subseteq Blocks \X (1 .. daHeight) /\ daHeight \in Nat
    BY DEF LoopInv, LoopTypes
<1>2. N \in SUBSET Nat /\ N # {}
    BY <1>1 DEF Included
<1>3. FirstHeight(b) = Min(N)
    BY DEF FirstHeight
<1>4. Min(N) \in N /\ \A n \in N : Min(N) <= n
  <2> HIDE DEF N
  <2>1. QED BY <1>2, MinIs
<1>5. QED BY <1>1, <1>3, <1>4

\* A block is confirmed once, and not before a header at or above a height
\* that includes it, however often retries included it.
THEOREM ConfirmedOnceTheorem == Spec => []ConfirmedOnce
<1>1. LoopInv /\ TrackInv => ConfirmedOnce
  <2> SUFFICES ASSUME LoopInv, TrackInv PROVE ConfirmedOnce
    OBVIOUS
  <2>1. \A i, j \in DOMAIN confirmations : confirmations[i] = confirmations[j] => i = j
    BY DEF TrackInv, OnePlace, Distinct
  <2>2. ASSUME NEW b \in Elements(confirmations)
        PROVE  b \in Included /\ FirstHeight(b) <= seen
    <3>1. PICK p \in blobs : p[1] = b /\ p[2] <= seen
      BY DEF TrackInv, HeaderReached, Confirmed
    <3>2. b \in Included
      BY <3>1 DEF Included
    <3>3. FirstHeight(b) <= p[2] /\ FirstHeight(b) \in Nat
      BY <3>1, <3>2, FirstHeightIs
    <3>4. p[2] \in Nat /\ seen \in Nat
      BY <3>1 DEF LoopInv, LoopTypes, TrackInv, TrackTypes
    <3>5. QED BY <3>1, <3>2, <3>3, <3>4
  <2>3. QED BY <2>1, <2>2 DEF ConfirmedOnce
<1>2. QED BY <1>1, Invariance, PTL

\* Celestia sees the blocks of this validator in the order in which they were
\* finalized, and with batches without a gap.
THEOREM InclusionTheorem == Spec => []InclusionInOrder
<1>1. LoopInv => InclusionInOrder
  <2> SUFFICES ASSUME LoopInv, NEW c \in Included, NEW b \in Blocks, b < c
               PROVE  /\ BatchEnabled => b \in Included
                      /\ b \in Included => FirstHeight(b) <= FirstHeight(c)
    BY DEF InclusionInOrder
  <2>1. BatchEnabled => b \in Included
    BY DEF LoopInv, EarliestFirst
  <2>2. ASSUME b \in Included PROVE FirstHeight(b) <= FirstHeight(c)
    <3>1. PICK q \in blobs : q[1] = c /\ q[2] = FirstHeight(c)
      BY FirstHeightIs
    <3>2. PICK p \in blobs : p[1] = b /\ p[2] <= q[2]
      BY <2>2, <3>1 DEF LoopInv, EarliestFirst
    <3>3. FirstHeight(b) <= p[2] /\ FirstHeight(b) \in Nat /\ FirstHeight(c) \in Nat
      BY <2>2, <3>2, FirstHeightIs
    <3>4. p[2] \in Nat
      BY DEF LoopInv, LoopTypes
    <3>5. QED BY <3>1, <3>2, <3>3, <3>4
  <2>3. QED BY <2>1, <2>2
<1>2. QED BY <1>1, Invariance, PTL

----------------------------------------------------------------------------
(* The submission implements the ledger                                    *)

\* Status in terms of what it depends on.
StatusIn(b, confirmed, included, failed, n) ==
    CASE b \in confirmed -> "confirmed"
      [] b \in included \ confirmed -> "included"
      [] b \in failed \ included -> "abandoned"
      [] b \in (1 .. n - 1) \ (failed \cup included) -> "handed"
      [] b >= n -> "new"

LEMMA StatusCases ==
    ASSUME NEW n \in Nat, NEW included \in SUBSET (1 .. n - 1), NEW failed \in SUBSET (1 .. n - 1),
           NEW confirmed \in SUBSET included, NEW b \in Blocks
    PROVE  /\ StatusIn(b, confirmed, included, failed, n) =
                  IF b >= n THEN "new"
                  ELSE IF b \in confirmed THEN "confirmed"
                  ELSE IF b \in included THEN "included"
                  ELSE IF b \in failed THEN "abandoned" ELSE "handed"
<1>1. b \in Nat \ {0}
    BY DEF Blocks
<1>2. CASE b >= n
  <2>1. b \notin included /\ b \notin failed /\ b \notin confirmed /\ b \notin 1 .. n - 1
    BY <1>1, <1>2
  <2>2. QED BY <1>2, <2>1 DEF StatusIn
<1>3. CASE ~(b >= n)
  <2>1. b \in 1 .. n - 1
    BY <1>1, <1>3
  <2>2. QED BY <1>3, <2>1 DEF StatusIn
<1>4. QED BY <1>2, <1>3

\* The same for the status before and after a step.
LEMMA StatusIs ==
    ASSUME LoopInv, TrackInv, NEW b \in Blocks
    PROVE  /\ Statuses[b] = IF b >= next THEN "new"
                            ELSE IF b \in Confirmed THEN "confirmed"
                            ELSE IF b \in Included THEN "included"
                            ELSE IF b \in Failed THEN "abandoned" ELSE "handed"
           /\ Confirmed \subseteq Included
<1>1. Confirmed \subseteq Included
    BY AllIncluded
<1>2. next \in Nat /\ Included \subseteq 1 .. next - 1 /\ Failed \subseteq 1 .. next - 1
    BY DEF LoopInv, LoopTypes, Failed
<1>3. Statuses[b] = StatusIn(b, Confirmed, Included, Failed, next)
    BY DEF Statuses, Status, StatusIn, Confirmed
<1>4. QED BY <1>1, <1>2, <1>3, StatusCases

LEMMA StatusIsNext ==
    ASSUME LoopInv', TrackInv', NEW b \in Blocks
    PROVE  Statuses'[b] = IF b >= next' THEN "new"
                          ELSE IF b \in Confirmed' THEN "confirmed"
                          ELSE IF b \in Included' THEN "included"
                          ELSE IF b \in Failed' THEN "abandoned" ELSE "handed"
<1>1. Confirmed' \subseteq Included'
    BY DEF TrackInv, TrackTypes, HeaderReached, Confirmed, Included
<1>2. next' \in Nat /\ Included' \in SUBSET (1 .. next' - 1) /\ Failed' \in SUBSET (1 .. next' - 1)
  <2>1. LoopTypes'
    BY DEF LoopInv
  <2>2. next' \in 1 .. MaxBlock + 1 /\ Failed' \subseteq 1 .. next' - 1
    BY <2>1 DEF LoopTypes, Failed
  <2>3. Included' \subseteq 1 .. next' - 1
    BY <2>1 DEF LoopTypes
  <2>4. next' \in Nat
    BY <2>2
  <2>5. Included' \in SUBSET (1 .. next' - 1)
    BY <2>3
  <2>6. Failed' \in SUBSET (1 .. next' - 1)
    BY <2>2
  <2>7. QED BY <2>4, <2>5, <2>6
<1>3. Statuses'[b] = StatusIn(b, Confirmed', Included', Failed', next')
    BY DEF Statuses, Status, StatusIn, Confirmed
<1>4. Confirmed' \in SUBSET Included'
    BY <1>1
<1> DEFINE C == Confirmed'
           I == Included'
           A == Failed'
           n == next'
<1>5. C \in SUBSET I /\ I \in SUBSET (1 .. n - 1) /\ A \in SUBSET (1 .. n - 1) /\ n \in Nat
    BY <1>2, <1>4
<1>6. Statuses'[b] = StatusIn(b, C, I, A, n)
    BY <1>3
<1> HIDE DEF C, I, A, n
<1>7. Statuses'[b] = IF b >= n THEN "new"
                     ELSE IF b \in C THEN "confirmed"
                     ELSE IF b \in I THEN "included"
                     ELSE IF b \in A THEN "abandoned" ELSE "handed"
    BY <1>5, <1>6, StatusCases
<1>8. QED BY <1>7 DEF C, I, A, n

Stable == UNCHANGED <<Confirmed, Included, Failed, next>>

LEMMA Stutter ==
    ASSUME Stable
    PROVE  UNCHANGED Statuses
<1>1. \A b \in Blocks : Status(b)' = Status(b)
    BY DEF Stable, Status, Confirmed
<1>2. QED BY <1>1 DEF Statuses

\* A step of the ledger: what becomes of the statuses, block by block.
LEMMA NewStatuses ==
    ASSUME NEW f, f = [b \in Blocks |-> f[b]], \A b \in Blocks : Statuses'[b] = f[b]
    PROVE  Statuses' = f
<1>1. Statuses' = [b \in Blocks |-> Statuses'[b]]
    BY DEF Statuses
<1>2. QED BY <1>1

LEMMA HandOverStep ==
    ASSUME LoopInv, TrackInv, LoopInv', TrackInv',
           next \in Blocks, next' = next + 1, UNCHANGED <<Confirmed, Included>>,
           Failed' \in {Failed, Failed \cup {next}}
    PROVE  Ledger!HandOver(next)
<1>1. next \in Nat /\ Confirmed \subseteq Included /\ Included \subseteq 1 .. next - 1
      /\ Failed \subseteq 1 .. next - 1
    BY AllIncluded DEF LoopInv, LoopTypes, Failed
<1>2. Statuses[next] = "new"
    BY <1>1, StatusIs
<1>3. \A c \in 1 .. next - 1 : Statuses[c] # "new"
  <2> SUFFICES ASSUME NEW c \in 1 .. next - 1 PROVE Statuses[c] # "new"
    OBVIOUS
  <2>1. c \in Blocks /\ ~(c >= next)
    BY <1>1 DEF Blocks
  <2>2. QED BY <2>1, StatusIs
<1> DEFINE s == IF next \in Failed' THEN "abandoned" ELSE "handed"
<1>4. Statuses' = [Statuses EXCEPT ![next] = s]
  <2> DEFINE f == [Statuses EXCEPT ![next] = s]
  <2>1. f = [b \in Blocks |-> IF b = next THEN s ELSE Statuses[b]]
    BY DEF Statuses
  <2>2. ASSUME NEW b \in Blocks PROVE Statuses'[b] = f[b]
    <3>1. b \in Nat /\ f[b] = IF b = next THEN s ELSE Statuses[b]
      BY <2>1 DEF Blocks
    <3>2. CASE b = next
      <4>1. ~(b >= next') /\ b \notin Confirmed' /\ b \notin Included'
        BY <1>1, <3>2
      <4>2. QED BY <3>1, <3>2, <4>1, StatusIsNext
    <3>3. CASE b > next
      <4>1. b >= next' /\ b >= next
        BY <1>1, <3>1, <3>3
      <4>2. Statuses'[b] = "new" /\ Statuses[b] = "new"
        BY <4>1, StatusIs, StatusIsNext
      <4>3. QED BY <3>1, <3>3, <4>2, <1>1
    <3>4. CASE b < next
      <4>1. ~(b >= next') /\ ~(b >= next) /\ b # next
        BY <1>1, <3>1, <3>4
      <4>2. b \in Failed' <=> b \in Failed
        BY <4>1
      <4>3. Statuses'[b] = Statuses[b]
        BY <4>1, <4>2, StatusIs, StatusIsNext
      <4>4. QED BY <3>1, <4>1, <4>3
    <3>5. QED BY <3>1, <3>2, <3>3, <3>4, <1>1
  <2>3. f = [b \in Blocks |-> f[b]]
    BY <2>1
  <2> HIDE DEF f
  <2>4. Statuses' = f
    BY <2>2, <2>3, NewStatuses
  <2>5. QED BY <2>4 DEF f
<1>5. s \in {"handed", "abandoned"}
    OBVIOUS
<1>6. QED BY <1>2, <1>3, <1>4, <1>5 DEF Ledger!HandOver

\* All that was in hand is lost: a step of the ledger up to the last block that
\* was not included.
LEMMA AbandonStep ==
    ASSUME LoopInv, TrackInv, LoopInv', TrackInv',
           Failed' = Failed \cup InHand, UNCHANGED <<Confirmed, Included, next>>
    PROVE  (\E b \in Blocks : Ledger!Abandon(b)) \/ UNCHANGED Statuses
<1> DEFINE N == InHand \ (Included \cup Failed)
<1>1. /\ next \in 1 .. MaxBlock + 1 /\ InHand \subseteq 1 .. next - 1
      /\ Confirmed \subseteq Included
      /\ 1 .. next - 1 \subseteq InHand \cup Included \cup Failed
    BY AllIncluded DEF LoopInv, LoopTypes, Kept
<1>2. ASSUME NEW b \in Blocks, b \notin N PROVE Statuses'[b] = Statuses[b]
  <2>1. CASE b \in Included
    BY <2>1, StatusIs, StatusIsNext
  <2>2. CASE b \notin Included
    <3>1. b \in Failed' <=> b \in Failed
      BY <1>2, <2>2
    <3>2. QED BY <3>1, StatusIs, StatusIsNext
  <2>3. QED BY <2>1, <2>2
<1>3. ASSUME NEW b \in N PROVE Statuses[b] = "handed" /\ Statuses'[b] = "abandoned"
  <2>1. /\ b \in Blocks /\ ~(b >= next) /\ b \notin Included /\ b \notin Confirmed
        /\ b \notin Failed /\ b \in Failed'
    BY <1>1 DEF Blocks
  <2>2. QED BY <2>1, StatusIs, StatusIsNext
<1>4. ASSUME NEW b \in Blocks, Statuses[b] = "handed" PROVE b \in N
  <2>1. b \notin Included /\ b \notin Failed /\ ~(b >= next)
    BY <1>4, StatusIs
  <2>2. b \in 1 .. next - 1
    BY <1>1, <2>1 DEF Blocks
  <2>3. QED BY <1>1, <2>1, <2>2
<1>5. CASE N = {}
  <2>1. \A b \in Blocks : Statuses'[b] = Statuses[b]
    BY <1>2, <1>5
  <2>2. QED BY <2>1 DEF Statuses
<1>6. CASE N # {}
  <2>1. N \in SUBSET (0 .. MaxBlock) /\ N \subseteq Blocks
    <3>1. N \subseteq InHand
      OBVIOUS
    <3> HIDE DEF N
    <3>2. next - 1 <= MaxBlock /\ next \in Nat
      BY <1>1
    <3>3. InHand \subseteq 1 .. MaxBlock
      BY <1>1, <3>2
    <3>4. QED BY <3>1, <3>3 DEF Blocks
  <2>2. PICK last \in N : \A n \in N : n <= last
    <3> HIDE DEF N
    <3>1. QED BY <1>6, <2>1, GreatestNumber
  <2> DEFINE f == [b \in Blocks |->
                     IF b <= last /\ Statuses[b] = "handed" THEN "abandoned" ELSE Statuses[b]]
  <2>3. \A b \in Blocks : Statuses'[b] = f[b]
    <3> SUFFICES ASSUME NEW b \in Blocks PROVE Statuses'[b] = f[b]
      OBVIOUS
    <3>1. CASE b \in N
      BY <1>3, <2>2, <3>1
    <3>2. CASE b \notin N
      BY <1>2, <1>4, <3>2
    <3>3. QED BY <3>1, <3>2
  <2>4. f = [b \in Blocks |-> f[b]]
    OBVIOUS
  <2> HIDE DEF f
  <2>5. Statuses' = f
    BY <2>3, <2>4, NewStatuses
  <2>6. Ledger!Abandon(last)
    BY <1>3, <2>2, <2>5 DEF Ledger!Abandon, Ledger!Blocks, Blocks, f
  <2>7. QED BY <2>1, <2>6
<1>7. QED BY <1>5, <1>6

LEMMA ConfirmStep ==
    ASSUME LoopInv, TrackInv, LoopInv', TrackInv',
           NEW x \in Included, x \in Blocks, x \notin Confirmed,
           Confirmed' = Confirmed \cup {x}, UNCHANGED <<Included, Failed, next>>
    PROVE  Ledger!Confirm(x)
<1>1. \A b \in Blocks : b # x => (b \in Confirmed' <=> b \in Confirmed)
    OBVIOUS
<1>2. \A b \in Blocks : b # x => Statuses'[b] = Statuses[b]
    BY <1>1, StatusIs, StatusIsNext
<1>3. ~(x >= next)
    BY DEF LoopInv, LoopTypes, Blocks
<1>4. Statuses[x] = "included" /\ Statuses'[x] = "confirmed"
    BY <1>3, StatusIs, StatusIsNext
<1> DEFINE f == [Statuses EXCEPT ![x] = "confirmed"]
<1>5. f = [b \in Blocks |-> IF b = x THEN "confirmed" ELSE Statuses[b]]
    BY DEF Statuses
<1>6. f = [b \in Blocks |-> f[b]] /\ \A b \in Blocks : Statuses'[b] = f[b]
    BY <1>2, <1>4, <1>5
<1> HIDE DEF f
<1>7. Statuses' = f
    BY <1>6, NewStatuses
<1>8. QED BY <1>4, <1>7 DEF Ledger!Confirm, f

\* A blob is one step of the ledger, up to the last block it brings that was
\* not there; a retry of what was included is none.
LEMMA PublishStep ==
    ASSUME LoopInv, TrackInv, LoopInv', TrackInv', Submitting,
           Included' = Included \cup Elements(sending), UNCHANGED <<Confirmed, Failed, next>>
    PROVE  (\E b \in Blocks : Ledger!Publish(b)) \/ UNCHANGED Statuses
<1> DEFINE N == Elements(sending) \ Included
<1>1. /\ next \in 1 .. MaxBlock + 1 /\ Included \subseteq 1 .. next - 1
      /\ Confirmed \subseteq Included
      /\ Elements(sending) \subseteq 1 .. next - 1
      /\ Elements(sending) \cap Failed = {}
    BY AllIncluded DEF LoopInv, LoopTypes, AbandonedIsGone, InHand, Submitting, Failed
<1>2. \A b \in Blocks : b \notin N => (b \in Included' <=> b \in Included)
    OBVIOUS
<1>3. \A b \in Blocks : b \notin N => Statuses'[b] = Statuses[b]
    BY <1>2, StatusIs, StatusIsNext
<1>4. CASE N = {}
  <2>1. \A b \in Blocks : Statuses'[b] = Statuses[b]
    BY <1>3, <1>4
  <2>2. QED BY <2>1 DEF Statuses
<1>5. CASE N # {}
  <2>1. N \in SUBSET (0 .. MaxBlock) /\ N \subseteq Blocks
    BY <1>1 DEF Blocks
  <2>2. PICK last \in N : \A n \in N : n <= last
    <3> HIDE DEF N
    <3>1. QED BY <1>5, <2>1, GreatestNumber
  <2>3. ASSUME NEW b \in N PROVE Statuses[b] = "handed" /\ Statuses'[b] = "included"
    <3>1. b \in Blocks /\ ~(b >= next) /\ b \notin Confirmed /\ b \notin Failed
      BY <1>1, <2>1
    <3>2. QED BY <3>1, StatusIs, StatusIsNext
  <2>4. ASSUME NEW b \in Blocks, b <= last, Statuses[b] = "handed" PROVE b \in N
    <3>1. b \notin Included /\ b \notin Failed
      BY <2>4, StatusIs
    <3>2. CASE b = last
      BY <3>2
    <3>3. CASE b < last
      BY <3>1, <3>3, AheadOfSending DEF Failed
    <3>4. QED BY <2>1, <2>4, <3>2, <3>3 DEF Blocks
  <2> DEFINE f == [b \in Blocks |->
                     IF b <= last /\ Statuses[b] = "handed" THEN "included" ELSE Statuses[b]]
  <2>5. \A b \in Blocks : Statuses'[b] = f[b]
    <3> SUFFICES ASSUME NEW b \in Blocks PROVE Statuses'[b] = f[b]
      OBVIOUS
    <3>1. CASE b \in N
      BY <2>2, <2>3, <3>1
    <3>2. CASE b \notin N
      BY <1>3, <2>4, <3>2
    <3>3. QED BY <3>1, <3>2
  <2>6. f = [b \in Blocks |-> f[b]]
    OBVIOUS
  <2> HIDE DEF f
  <2>7. Statuses' = f
    BY <2>5, <2>6, NewStatuses
  <2>8. Ledger!Publish(last)
    BY <2>2, <2>3, <2>7 DEF Ledger!Publish, Ledger!Blocks, Blocks, f
  <2>9. QED BY <2>1, <2>8
<1>6. QED BY <1>4, <1>5

LEMMA LedgerInit == Init => Ledger!Init
<1> SUFFICES ASSUME Init PROVE Ledger!Init
    OBVIOUS
<1>1. next = 1 /\ blobs = {} /\ Failed = {} /\ confirmations = <<>>
    BY DEF Init, Failed
<1>2. Included = {} /\ Elements(confirmations) = {}
    BY <1>1, ElementsOfFew DEF Included
<1>3. ASSUME NEW b \in Blocks PROVE Status(b) = "new"
  <2>1. b >= next /\ b \notin 1 .. next - 1
    BY <1>1 DEF Blocks
  <2>2. QED BY <1>1, <1>2, <2>1 DEF Status
<1>4. QED BY <1>3 DEF Statuses, Ledger!Init, Ledger!Blocks, Blocks

LEMMA LedgerNext ==
    ASSUME LoopInv, TrackInv, LoopInv', TrackInv', [Next]_vars
    PROVE  [Ledger!Next]_Statuses
<1>1. CASE QueueForBatch \/ SubmitImmediate
  <2>1. /\ next \in Nat /\ next <= MaxBlock /\ next' = next + 1 /\ next >= 1
        /\ UNCHANGED <<blobs, confirmations>>
        /\ Failed' \in {Failed, Failed \cup {next}}
    BY <1>1 DEF QueueForBatch, SubmitImmediate, celestiaV, trackerV, LoopInv, LoopTypes, Failed
  <2>2. UNCHANGED <<Confirmed, Included>> /\ next \in Blocks
    BY <2>1 DEF Confirmed, Elements, Included, Blocks
  <2>3. Ledger!HandOver(next)
    BY <2>1, <2>2, HandOverStep
  <2>4. QED BY <2>2, <2>3 DEF Ledger!Next, Ledger!Blocks, Blocks
<1>2. CASE AttemptSucceeds \/ AttemptFails
  <2>1. /\ Include(sending) \/ UNCHANGED blobs
        /\ UNCHANGED <<next, Failed, confirmations>>
    BY <1>2 DEF AttemptSucceeds, AttemptFails, handoverV, celestiaV, trackerV, Failed
  <2>2. UNCHANGED Confirmed
    BY <2>1 DEF Confirmed, Elements
  <2>3. CASE Include(sending)
    <3>1. Included' = Included \cup Elements(sending)
      <4>1. blobs' = blobs \cup {<<b, daHeight + 1>> : b \in Elements(sending)}
        BY <2>3 DEF Include
      <4>2. \A b \in Elements(sending) :
                <<b, daHeight + 1>> \in blobs' /\ <<b, daHeight + 1>>[1] = b
        BY <4>1
      <4>3. \A p \in blobs' : p \in blobs \/ p[1] \in Elements(sending)
        BY <4>1
      <4>4. QED BY <4>1, <4>2, <4>3 DEF Included
    <3>2. Submitting
      BY <1>2 DEF AttemptSucceeds, AttemptFails
    <3>3. (\E b \in Blocks : Ledger!Publish(b)) \/ UNCHANGED Statuses
      BY <2>1, <2>2, <3>1, <3>2, PublishStep
    <3>4. QED BY <3>3 DEF Ledger!Next, Ledger!Blocks, Blocks
  <2>4. CASE UNCHANGED blobs
    BY <2>1, <2>2, <2>4, Stutter DEF Stable, Included
  <2>5. QED BY <2>1, <2>3, <2>4
<1>3. CASE ImmediateFails \/ CallFails
  <2>1. UNCHANGED <<Confirmed, Included, next>>
    BY <1>3 DEF ImmediateFails, CallFails, celestiaV, trackerV, Confirmed, Elements, Included
  <2>2. CASE Failed' = Failed \cup InHand
    <3>1. (\E b \in Blocks : Ledger!Abandon(b)) \/ UNCHANGED Statuses
      BY <2>1, <2>2, AbandonStep
    <3>2. QED BY <3>1 DEF Ledger!Next, Ledger!Blocks, Blocks
  <2>3. CASE UNCHANGED Failed
    BY <2>1, <2>3, Stutter DEF Stable
  <2>4. Failed' = Failed \cup InHand \/ UNCHANGED Failed
    <3>1. CASE ImmediateFails
      <4>1. Submitting /\ ~BatchEnabled
        BY <3>1 DEF ImmediateFails, Submitting, BatchEnabled
      <4>2. InHand = Elements(sending)
        BY <4>1, ElementsOfFew DEF LoopInv, OneInHand, InHand
      <4>3. QED BY <3>1, <4>2 DEF ImmediateFails, Failed
    <3>2. CASE CallFails
      BY <3>2 DEF CallFails, LoopEnds, Failed
    <3>3. QED BY <1>3, <3>1, <3>2
  <2>5. QED BY <2>2, <2>3, <2>4
<1>4. CASE SendConfirmation
  <2> DEFINE b == Min(emitting)
  <2>1. /\ emitting # {} /\ confirmations' = Append(confirmations, b)
        /\ UNCHANGED <<next, blobs, Failed>>
    BY <1>4 DEF SendConfirmation, handoverV, celestiaV, Failed
  <2>2. b \in emitting /\ b \in Blocks
    <3>1. emitting \in SUBSET Nat /\ emitting \subseteq Blocks
      BY DEF TrackInv, TrackTypes, Blocks
    <3>2. QED BY <2>1, <3>1, MinIs
  <2> HIDE DEF b
  <2>3. b \in Included /\ b \notin Confirmed
    BY <2>2, AllIncluded DEF TrackInv, OnePlace
  <2>4. Confirmed' = Confirmed \cup {b}
    <3>1. Confirmed' = Elements(confirmations')
      BY DEF Confirmed, Elements
    <3>2. QED BY <2>1, <2>2, <3>1, ElementsOfAppend DEF TrackInv, TrackTypes, Confirmed
  <2>5. UNCHANGED Included
    BY <2>1 DEF Included
  <2>6. Ledger!Confirm(b)
    BY <2>1, <2>2, <2>3, <2>4, <2>5, ConfirmStep
  <2>7. QED BY <2>2, <2>6 DEF Ledger!Next, Ledger!Blocks, Blocks
<1>5. CASE \/ ReceiveBlock \/ Tick \/ Shutdown
           \/ CloseChannel \/ (\E t \in tracks : Track(t)) \/ (\E h \in 0 .. daHeight : ProcessHeader(h))
           \/ TakeConfirmation \/ SubscriptionFails \/ Reconnect \/ UNCHANGED vars
  <2>1. UNCHANGED <<next, Failed, blobs, confirmations>>
    BY <1>5 DEF ReceiveBlock, Tick, Shutdown, CloseChannel, Track, ProcessHeader, TakeConfirmation,
                SubscriptionFails, Reconnect, vars, handoverV, celestiaV, trackerV, Failed
  <2>2. Stable
    BY <2>1 DEF Stable, Confirmed, Elements, Included
  <2>3. QED BY <2>2, Stutter
<1>6. QED BY <1>1, <1>2, <1>3, <1>4, <1>5 DEF Next, Loop

\* The loop with its channel, retries, restored batches and spawned tasks
\* implements the ledger: blobs bring the blocks of this validator without a
\* gap, no block changes its status twice, and none is confirmed before.
THEOREM LedgerTheorem == Spec => LedgerSpec
<1>1. Init => Ledger!Init
    BY LedgerInit
<1>2. LoopInv /\ TrackInv /\ (LoopInv /\ TrackInv)' /\ [Next]_vars => [Ledger!Next]_Statuses
    BY LedgerNext
<1>3. QED BY <1>1, <1>2, Invariance, PTL DEF Spec, LedgerSpec, Ledger!Spec
=============================================================================
