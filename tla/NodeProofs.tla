----------------------------- MODULE NodeProofs -----------------------------
(***************************************************************************)
(* Theorems about Node, for every number of blocks, capacity of its        *)
(* channels, limit of failures and election of leaders.  That no block is  *)
(* in two places rests on the order in which the callback is given blocks: *)
(* the one in its hands is above all it has executed before.               *)
(***************************************************************************)
EXTENDS Node, NumberFacts, SequenceTheorems, TLAPS

\* The callback is given the finalized blocks one by one and none is left
\* out, however far it lags: the loop would rather end.
NoBlockSkipped == \A i \in DOMAIN handled : handled[i] = i

\* The blocks the callback was given are 1, 2, ..., and while it executes
\* one, it has executed none above the one before.
InHand ==
    /\ cursor = Len(handled) + 1
    /\ executed \subseteq 1 .. Len(handled)
    /\ loop \in {"executing", "submitting"} => Len(handled) > 0
    /\ loop = "executing" => Len(handled) \notin executed

\* A batch task that goes on has not reached its limit, and one that has ended
\* left nothing in channel and batch; its last submission is for consensus that
\* has ended, with nothing in the channel.
TaskState ==
    /\ failures <= errors
    /\ batchTask # "stopped" => failures < MaxFailures
    /\ batchTask = "last" => loop = "ended"
    /\ batchTask \in {"last", "stopped"} => queue = <<>>
    /\ batchTask = "stopped" => batch = <<>>

IInv ==
    /\ TypeOK
    /\ NoBlockSkipped
    /\ InHand
    /\ TaskState
    /\ LedBlocksAccounted

USE BoundsAssumption, CapacityAssumption, ModesAssumption, LeaderAssumption,
    FailuresAssumption

----------------------------------------------------------------------------
(* Lemmas about sequences without repetition                               *)

\* Appending an element that is not there.
LEMMA ElementsOfAppend ==
    ASSUME NEW S, NEW s \in Seq(S), NEW e \in S
    PROVE  /\ Elements(Append(s, e)) = Elements(s) \cup {e}
           /\ Distinct(s) /\ e \notin Elements(s) => Distinct(Append(s, e))
<1>1. /\ Append(s, e) \in Seq(S)
      /\ Len(Append(s, e)) = Len(s) + 1
      /\ \A i \in 1 .. Len(s) : Append(s, e)[i] = s[i]
      /\ Append(s, e)[Len(s) + 1] = e
    BY AppendProperties
<1>2. /\ DOMAIN s = 1 .. Len(s) /\ Len(s) \in Nat
      /\ DOMAIN Append(s, e) = 1 .. (Len(s) + 1)
    BY <1>1, LenProperties
<1>3. Elements(Append(s, e)) = Elements(s) \cup {e}
    BY <1>1, <1>2 DEF Elements
<1>4. ASSUME Distinct(s), e \notin Elements(s) PROVE Distinct(Append(s, e))
    BY <1>1, <1>2, <1>4 DEF Elements, Distinct
<1>5. QED BY <1>3, <1>4

\* Taking the first element.
LEMMA ElementsOfTail ==
    ASSUME NEW S, NEW s \in Seq(S), s # <<>>
    PROVE  /\ Elements(s) = Elements(Tail(s)) \cup {Head(s)}
           /\ Distinct(s) => Distinct(Tail(s)) /\ Head(s) \notin Elements(Tail(s))
<1>1. /\ Tail(s) \in Seq(S)
      /\ Len(Tail(s)) = Len(s) - 1
      /\ \A i \in 1 .. Len(Tail(s)) : Tail(s)[i] = s[i + 1]
    BY HeadTailProperties
<1>2. Head(s) = s[1]
    BY DEF Head
<1>3. Len(s) \in Nat \ {0} /\ DOMAIN s = 1 .. Len(s)
    BY EmptySeq, LenProperties
<1>4. DOMAIN Tail(s) = 1 .. (Len(s) - 1)
    BY <1>1, LenProperties
<1>5. Elements(s) = Elements(Tail(s)) \cup {Head(s)}
  <2>1. ASSUME NEW i \in 1 .. Len(s) PROVE s[i] \in Elements(Tail(s)) \cup {s[1]}
    <3>1. CASE i = 1 BY <3>1
    <3>2. CASE i # 1
      <4>1. i - 1 \in 1 .. (Len(s) - 1) BY <3>2, <1>3
      <4>2. Tail(s)[i - 1] = s[i] BY <4>1, <1>1, <1>3
      <4>3. QED BY <4>1, <4>2, <1>4 DEF Elements
    <3>3. QED BY <3>1, <3>2
  <2>2. ASSUME NEW i \in 1 .. (Len(s) - 1) PROVE Tail(s)[i] \in Elements(s)
    <3>1. i + 1 \in 1 .. Len(s) BY <1>3
    <3>2. QED BY <3>1, <1>1, <1>3 DEF Elements
  <2>3. s[1] \in Elements(s) BY <1>3 DEF Elements
  <2>4. QED BY <2>1, <2>2, <2>3, <1>2, <1>3, <1>4 DEF Elements
<1>6. ASSUME Distinct(s) PROVE Distinct(Tail(s)) /\ Head(s) \notin Elements(Tail(s))
  <2>1. \A i \in 1 .. (Len(s) - 1) : i + 1 \in DOMAIN s /\ Tail(s)[i] = s[i + 1] /\ i + 1 # 1
    BY <1>1, <1>3
  <2>2. Distinct(Tail(s))
    <3> SUFFICES ASSUME NEW i \in 1 .. (Len(s) - 1), NEW j \in 1 .. (Len(s) - 1),
                        Tail(s)[i] = Tail(s)[j]
                 PROVE  i = j
      BY <1>4 DEF Distinct
    <3>1. s[i + 1] = s[j + 1] BY <2>1
    <3>2. i + 1 = j + 1 BY <3>1, <2>1, <1>6 DEF Distinct
    <3>3. QED BY <3>2, <1>3
  <2>3. Head(s) \notin Elements(Tail(s))
    <3>1. 1 \in DOMAIN s BY <1>3
    <3>2. QED BY <3>1, <2>1, <1>2, <1>4, <1>6 DEF Distinct, Elements
  <2>4. QED BY <2>2, <2>3
<1>7. QED BY <1>5, <1>6

\* A block that is held or has ended was executed.
LEMMA PlacesAreExecuted ==
    ASSUME LedBlocksAccounted
    PROVE  /\ Ended \cup Held \subseteq executed
           /\ \A b \in Ended \cup Held : IsLeader(b)
BY DEF LedBlocksAccounted, InOnePlace, Led

\* The block in the callback's hands is the last it was given.
LEMMA CurrentIsLast ==
    ASSUME IInv, loop \in {"executing", "submitting"}
    PROVE  /\ Current = Len(handled)
           /\ Current \in Blocks
           /\ executed \subseteq 1 .. Current
<1>1. handled \in Seq(Blocks) /\ Len(handled) \in Nat \ {0}
    BY LenProperties DEF IInv, TypeOK, InHand
<1>2. Len(handled) \in DOMAIN handled /\ handled[Len(handled)] \in Blocks
    BY <1>1, LenProperties
<1>3. QED BY <1>1, <1>2 DEF IInv, InHand, NoBlockSkipped, Current

\* Sequences over what was executed stay that.
LEMMA ExecutedGrows ==
    ASSUME NEW S, NEW T, S \subseteq T
    PROVE  Seq(S) \subseteq Seq(T)
<1> SUFFICES ASSUME NEW s \in Seq(S) PROVE s \in Seq(T)
    OBVIOUS
<1>1. s \in [1 .. Len(s) -> S] /\ Len(s) \in Nat
    BY LenProperties
<1>2. QED BY <1>1

\* A step by which no block leaves its place for nowhere needs no new
\* explanation.
LEMMA NoNewLoss ==
    ASSUME IInv,
           Led' \subseteq Led \cup Ended' \cup Held',
           Ended \cup Held \subseteq Ended' \cup Held',
           UNCHANGED <<mode, process>>,
           batchTask = "stopped" => UNCHANGED <<batchTask, failures>>,
           loop = "ended" => loop' = "ended",
           errors' = errors \/ errors' = errors + 1
    PROVE  LossExplained'
<1> SUFFICES ASSUME Lost' # {}
             PROVE  \/ process' = "exited"
                    \/ /\ mode' = "batch" /\ batchTask' = "stopped"
                       /\ failures' = MaxFailures \/ (loop' = "ended" /\ errors' > failures')
    BY DEF LossExplained
<1>1. PICK b \in Led' : b \notin Ended' \cup Held'
    BY DEF Lost
<1>2. b \in Led /\ b \notin Ended \cup Held
    BY <1>1
<1>3. Lost # {}
    BY <1>2 DEF Lost
<1>4. CASE process = "exited"
    BY <1>4
<1>5. CASE process # "exited"
  <2>1. /\ mode = "batch" /\ batchTask = "stopped"
        /\ failures = MaxFailures \/ (loop = "ended" /\ errors > failures)
    BY <1>3, <1>5 DEF IInv, LedBlocksAccounted, LossExplained
  <2>2. mode' = "batch" /\ batchTask' = "stopped" /\ failures' = failures
    BY <2>1
  <2>3. errors \in Nat /\ failures \in Nat
    BY DEF IInv, TypeOK
  <2>4. failures' = MaxFailures \/ (loop' = "ended" /\ errors' > failures')
    BY <2>1, <2>2, <2>3
  <2>5. QED BY <2>2, <2>4
<1>6. QED BY <1>4, <1>5

----------------------------------------------------------------------------
(* The actions that move blocks                                            *)

\* A block received is the next one.
LEMMA ReceiveBlockIInv ==
    ASSUME IInv, ReceiveBlock
    PROVE  IInv'
<1>1. /\ handled \in Seq(Blocks) /\ decided \in 0 .. MaxBlock
      /\ cursor = Len(handled) + 1 /\ cursor <= decided
      /\ Len(handled) \in Nat
    BY LenProperties DEF IInv, TypeOK, InHand, ReceiveBlock
<1>2. cursor \in Blocks
    BY <1>1 DEF Blocks
<1>3. /\ handled' \in Seq(Blocks)
      /\ Len(handled') = Len(handled) + 1
      /\ \A i \in 1 .. Len(handled) : handled'[i] = handled[i]
      /\ handled'[Len(handled) + 1] = cursor
    BY <1>1, <1>2, AppendProperties DEF ReceiveBlock
<1>4. DOMAIN handled = 1 .. Len(handled) /\ DOMAIN handled' = 1 .. (Len(handled) + 1)
    BY <1>1, <1>3, LenProperties
<1>5. NoBlockSkipped'
    BY <1>1, <1>3, <1>4 DEF IInv, NoBlockSkipped
<1>6. InHand'
    BY <1>1, <1>3 DEF IInv, InHand, ReceiveBlock
<1>7. TypeOK'
    BY <1>1, <1>3 DEF IInv, TypeOK, ReceiveBlock, batchV, relayV
<1>8. TaskState'
    BY DEF IInv, TaskState, ReceiveBlock, batchV
<1>9. /\ InCallback = {} /\ InCallback' = {}
      /\ Led' = Led /\ Ended' = Ended /\ Elements(queue)' = Elements(queue)
      /\ Elements(batch)' = Elements(batch)
      /\ Distinct(queue)' = Distinct(queue) /\ Distinct(batch)' = Distinct(batch)
    BY DEF InCallback, Led, Ended, Elements, Distinct, IsLeader, ReceiveBlock, batchV
<1>10. InOnePlace'
    BY <1>9 DEF IInv, LedBlocksAccounted, InOnePlace, Held, ReceiveBlock
<1>11. Held' = Held
    BY <1>9 DEF Held
<1>12. /\ UNCHANGED <<mode, process, batchTask, failures, errors>>
       /\ loop = "waiting"
    BY DEF ReceiveBlock, batchV
<1>13. LossExplained'
    BY <1>9, <1>11, <1>12, NoNewLoss
<1>14. QED BY <1>5, <1>6, <1>7, <1>8, <1>10, <1>13 DEF IInv, LedBlocksAccounted

\* A block executed was not executed before, so it is in the callback only.
LEMMA ExecuteIInv ==
    ASSUME IInv, Execute
    PROVE  IInv'
<1>1. /\ Current = Len(handled) /\ Current \in Blocks
      /\ executed \subseteq 1 .. Current /\ Current \notin executed
    BY CurrentIsLast DEF IInv, InHand, Execute
<1>2. /\ executed' \in {executed, executed \cup {Current}}
      /\ UNCHANGED <<handled, batchV, published, abandoned>>
      /\ loop' \in {"waiting", "submitting"}
    BY DEF Execute
<1>3. Current' = Current
    BY <1>2 DEF Current
<1>4. queue \in Seq(executed') /\ batch \in Seq(executed')
    BY <1>2, ExecutedGrows DEF IInv, TypeOK
<1>5. TypeOK'
    BY <1>1, <1>2, <1>4 DEF IInv, TypeOK, Execute, Fails, batchV, relayV
<1>6. NoBlockSkipped' /\ TaskState'
  <2>1. errors' = errors \/ errors' = errors + 1
      BY DEF Execute, Fails
  <2>2. failures <= errors' /\ loop # "ended"
      BY <2>1 DEF IInv, TypeOK, TaskState, Execute
  <2>3. batchTask # "last"
      BY <2>2 DEF IInv, TaskState
  <2>4. QED BY <1>2, <2>2, <2>3 DEF IInv, NoBlockSkipped, TaskState, batchV
<1>7. InHand'
    BY <1>1, <1>2 DEF IInv, InHand, Execute
<1>8. Ended \cup Held \subseteq executed
    BY PlacesAreExecuted DEF IInv
<1>9. InOnePlace' /\ LossExplained'
  <2>1. InCallback = {}
      BY DEF InCallback, Execute
  <2>2. /\ Elements(queue)' = Elements(queue) /\ Elements(batch)' = Elements(batch)
        /\ Distinct(queue)' = Distinct(queue) /\ Distinct(batch)' = Distinct(batch)
        /\ Ended' = Ended
      BY <1>2 DEF Elements, Distinct, Ended, batchV
  <2>3. Current \notin Elements(queue) \cup Elements(batch) \cup Ended
      BY <1>1, <1>8 DEF Held
  <2>4. /\ Led' = Led \cup InCallback' /\ InCallback' \subseteq {Current}
      BY <1>2, <1>3 DEF Led, InCallback, ConsensusRuns, IsLeader, Execute
  <2>5. InOnePlace'
      BY <1>2, <2>1, <2>2, <2>3, <2>4 DEF IInv, LedBlocksAccounted, InOnePlace, Held
  <2>6. Held' = Held \cup InCallback'
      BY <2>1, <2>2 DEF Held
  <2>7. /\ UNCHANGED <<mode, process, batchTask, failures>>
        /\ errors' = errors \/ errors' = errors + 1
        /\ loop # "ended"
      BY DEF Execute, Fails, batchV
  <2>8. LossExplained'
      BY <2>2, <2>4, <2>6, <2>7, NoNewLoss
  <2>9. QED BY <2>5, <2>8
<1>10. QED BY <1>5, <1>6, <1>7, <1>9 DEF IInv, LedBlocksAccounted

\* From the callback into the channel, or to the blocks given up.
LEMMA QueueForBatchIInv ==
    ASSUME IInv, QueueForBatch
    PROVE  IInv'
<1>1. InCallback = {Current} /\ Current \in executed
    BY PlacesAreExecuted DEF IInv, QueueForBatch, InCallback, Held
<1>2. /\ InCallback' = {} /\ Led' = Led
      /\ UNCHANGED <<mode, relayV, decided, cursor, handled, executed, batch,
                     batchTask, failures, published, process, errors>>
    BY DEF QueueForBatch, InCallback, Led, IsLeader
<1>3. queue \in Seq(executed)
    BY DEF IInv, TypeOK
<1>4. /\ Append(queue, Current) \in Seq(executed)
      /\ Len(Append(queue, Current)) = Len(queue) + 1
      /\ Elements(Append(queue, Current)) = Elements(queue) \cup {Current}
      /\ Distinct(queue) /\ Current \notin Elements(queue)
         => Distinct(Append(queue, Current))
    BY <1>1, <1>3, AppendProperties, ElementsOfAppend
<1>5. TypeOK'
  <2>1. Len(queue) \in Nat /\ Len(queue) <= QueueSize
      BY <1>3, LenProperties DEF IInv, TypeOK
  <2>2. /\ queue' \in Seq(executed) /\ Len(queue') <= QueueSize
        /\ abandoned' \subseteq executed
    <3>1. CASE /\ HasRoom /\ queue' = Append(queue, Current)
               /\ UNCHANGED abandoned
      <4>1. Len(queue) + 1 <= QueueSize
          BY <2>1, <3>1 DEF HasRoom
      <4>2. abandoned \subseteq executed
          BY DEF IInv, TypeOK
      <4>3. QED BY <1>4, <3>1, <4>1, <4>2
    <3>2. CASE abandoned' = abandoned \cup {Current} /\ UNCHANGED queue
        BY <1>1, <1>3, <2>1, <3>2 DEF IInv, TypeOK
    <3>3. QED BY <3>1, <3>2 DEF QueueForBatch
  <2>3. loop' = "waiting"
      BY DEF QueueForBatch
  <2>4. QED BY <1>2, <2>2, <2>3 DEF IInv, TypeOK, relayV
<1>6. NoBlockSkipped' /\ TaskState' /\ InHand'
  <2>1. batchTask # "last"
      BY DEF IInv, TaskState, QueueForBatch, ConsensusRuns
  <2>2. batchTask = "stopped" => queue' = queue
      BY DEF QueueForBatch
  <2>3. TaskState'
      BY <1>2, <2>1, <2>2 DEF IInv, TaskState
  <2>4. QED BY <1>2, <2>3 DEF IInv, NoBlockSkipped, InHand, QueueForBatch
<1>7. Elements(batch)' = Elements(batch) /\ Distinct(batch)' = Distinct(batch)
    BY <1>2 DEF Elements, Distinct
<1>8. InOnePlace' /\ Ended' \cup Held' = Ended \cup Held
  <2>1. CASE queue' = Append(queue, Current) /\ UNCHANGED abandoned
    <3>1. /\ Elements(queue)' = Elements(queue) \cup {Current}
          /\ Distinct(queue) /\ Current \notin Elements(queue) => Distinct(queue)'
          /\ Ended' = Ended
        BY <1>2, <1>4, <2>1 DEF Ended, Elements, Distinct
    <3>2. QED
        BY <1>1, <1>2, <1>7, <2>1, <3>1 DEF IInv, LedBlocksAccounted, InOnePlace, Held
  <2>2. CASE abandoned' = abandoned \cup {Current} /\ UNCHANGED queue
    <3>1. /\ Elements(queue)' = Elements(queue) /\ Distinct(queue)' = Distinct(queue)
          /\ Ended' = Ended \cup {Current}
        BY <1>2, <2>2 DEF Ended, Elements, Distinct
    <3>2. QED
        BY <1>1, <1>2, <1>7, <2>2, <3>1 DEF IInv, LedBlocksAccounted, InOnePlace, Held, Ended
  <2>3. QED BY <2>1, <2>2 DEF QueueForBatch
<1>9. LossExplained'
  <2>1. loop # "ended"
      BY DEF QueueForBatch
  <2>2. QED BY <1>2, <1>8, <2>1, NoNewLoss
<1>10. QED BY <1>5, <1>6, <1>8, <1>9 DEF IInv, LedBlocksAccounted

\* From the callback to Celestia, or to the blocks given up.
LEMMA SubmitImmediateIInv ==
    ASSUME IInv, SubmitImmediate
    PROVE  IInv'
<1>1. InCallback = {Current} /\ Current \in executed
    BY PlacesAreExecuted DEF IInv, SubmitImmediate, InCallback, Held
<1>2. /\ InCallback' = {} /\ Led' = Led
      /\ UNCHANGED <<mode, relayV, decided, cursor, handled, executed, batchV, process>>
    BY DEF SubmitImmediate, InCallback, Led, IsLeader
<1>3. TypeOK'
    BY <1>1, <1>2 DEF IInv, TypeOK, SubmitImmediate, Fails, relayV, batchV
<1>4. NoBlockSkipped' /\ TaskState' /\ InHand'
  <2>1. /\ errors' = errors \/ errors' = errors + 1
        /\ loop = "submitting"
      BY DEF SubmitImmediate, Fails
  <2>2. failures <= errors' /\ batchTask # "last"
      BY <2>1 DEF IInv, TypeOK, TaskState
  <2>3. QED BY <1>2, <2>2 DEF IInv, NoBlockSkipped, TaskState, InHand, SubmitImmediate, batchV
<1>5. /\ Elements(queue)' = Elements(queue) /\ Elements(batch)' = Elements(batch)
      /\ Distinct(queue)' = Distinct(queue) /\ Distinct(batch)' = Distinct(batch)
    BY <1>2 DEF Elements, Distinct, batchV
<1>6. InOnePlace' /\ Ended' \cup Held' = Ended \cup Held
    BY <1>1, <1>2, <1>5 DEF IInv, LedBlocksAccounted, InOnePlace, Held, Ended, SubmitImmediate
<1>7. LossExplained'
  <2>1. /\ errors' = errors \/ errors' = errors + 1
        /\ loop # "ended" /\ UNCHANGED <<batchTask, failures>>
      BY DEF SubmitImmediate, Fails, batchV
  <2>2. QED BY <1>2, <1>6, <2>1, NoNewLoss
<1>8. QED BY <1>3, <1>4, <1>6, <1>7 DEF IInv, LedBlocksAccounted

\* From the channel into the batch.
LEMMA TakeFromQueueIInv ==
    ASSUME IInv, TakeFromQueue
    PROVE  IInv'
<1>1. queue \in Seq(executed) /\ queue # <<>> /\ batch \in Seq(executed)
    BY DEF IInv, TypeOK, TakeFromQueue
<1>2. /\ Head(queue) \in executed
      /\ Tail(queue) \in Seq(executed) /\ Len(Tail(queue)) = Len(queue) - 1
      /\ Elements(queue) = Elements(Tail(queue)) \cup {Head(queue)}
      /\ Distinct(queue) => Distinct(Tail(queue)) /\ Head(queue) \notin Elements(Tail(queue))
    BY <1>1, HeadTailProperties, ElementsOfTail
<1>3. /\ Append(batch, Head(queue)) \in Seq(executed)
      /\ Elements(Append(batch, Head(queue))) = Elements(batch) \cup {Head(queue)}
      /\ Distinct(batch) /\ Head(queue) \notin Elements(batch)
         => Distinct(Append(batch, Head(queue)))
    BY <1>1, <1>2, AppendProperties, ElementsOfAppend
<1>4. /\ queue' = Tail(queue) /\ batch' = Append(batch, Head(queue))
      /\ UNCHANGED <<mode, relayV, loopV, failures, published, abandoned, process, errors>>
    BY DEF TakeFromQueue
<1>5. Len(queue) \in Nat
    BY <1>1, LenProperties
<1>6. TypeOK'
    BY <1>2, <1>3, <1>4, <1>5 DEF IInv, TypeOK, TakeFromQueue, relayV, loopV
<1>7. NoBlockSkipped' /\ TaskState' /\ InHand'
    BY <1>4 DEF IInv, NoBlockSkipped, TaskState, InHand, TakeFromQueue, loopV
<1>8. InCallback' = InCallback /\ Led' = Led /\ Ended' = Ended
    BY <1>4 DEF InCallback, ConsensusRuns, Current, Led, IsLeader, Ended, loopV
<1>9. /\ Elements(queue)' = Elements(Tail(queue))
      /\ Elements(batch)' = Elements(batch) \cup {Head(queue)}
      /\ Distinct(queue)' = Distinct(Tail(queue))
      /\ Distinct(batch)' = Distinct(Append(batch, Head(queue)))
    BY <1>3, <1>4 DEF Elements, Distinct
<1>10. InOnePlace' /\ Held' = Held
    BY <1>2, <1>3, <1>4, <1>8, <1>9 DEF IInv, LedBlocksAccounted, InOnePlace, Held
<1>11. LossExplained'
  <2>1. batchTask # "stopped" /\ loop' = loop
      BY DEF TakeFromQueue, loopV
  <2>2. QED BY <1>4, <1>8, <1>10, <2>1, NoNewLoss
<1>12. QED BY <1>6, <1>7, <1>10, <1>11 DEF IInv, LedBlocksAccounted

\* From the batch to Celestia.
LEMMA SubmitBatchIInv ==
    ASSUME IInv, SubmitBatch
    PROVE  IInv'
<1>1. /\ published' = published \cup Elements(batch) /\ batch' = <<>>
      /\ UNCHANGED <<mode, relayV, loopV, queue, abandoned, process, errors>>
    BY DEF SubmitBatch
<1>2. Elements(batch) \subseteq executed
    BY PlacesAreExecuted DEF IInv, Held
<1>3. batch' \in Seq(executed) /\ Elements(batch)' = {} /\ Distinct(batch)'
    BY <1>1 DEF Elements, Distinct
<1>4. TypeOK'
    BY <1>1, <1>2, <1>3 DEF IInv, TypeOK, SubmitBatch, relayV, loopV
<1>5. NoBlockSkipped' /\ TaskState' /\ InHand'
  <2>1. /\ failures' = 0 /\ batchTask' \in {"stopped", "waiting"}
        /\ batchTask' = "stopped" => batchTask = "last"
      BY DEF SubmitBatch
  <2>2. errors \in Nat
      BY DEF IInv, TypeOK
  <2>3. TaskState'
      BY <1>1, <2>1, <2>2 DEF IInv, TaskState, loopV
  <2>4. QED BY <1>1, <2>3 DEF IInv, NoBlockSkipped, InHand, loopV
<1>6. /\ InCallback' = InCallback /\ Led' = Led
      /\ Elements(queue)' = Elements(queue) /\ Distinct(queue)' = Distinct(queue)
    BY <1>1 DEF InCallback, ConsensusRuns, Current, Led, IsLeader, Elements, Distinct, loopV
<1>7. InOnePlace' /\ Ended' \cup Held' = Ended \cup Held
    BY <1>1, <1>3, <1>6 DEF IInv, LedBlocksAccounted, InOnePlace, Held, Ended
<1>8. LossExplained'
  <2>1. batchTask # "stopped" /\ loop' = loop
      BY <1>1 DEF SubmitBatch, loopV
  <2>2. QED BY <1>1, <1>6, <1>7, <2>1, NoNewLoss
<1>9. QED BY <1>4, <1>5, <1>7, <1>8 DEF IInv, LedBlocksAccounted

\* Channel and batch are gone.
LEMMA EmptiedIInv ==
    ASSUME IInv, TypeOK', TaskState', LossExplained',
           queue' = <<>>, batch' = <<>>,
           UNCHANGED <<executed, handled, loop, cursor, published, abandoned>>,
           InCallback' \subseteq InCallback
    PROVE  IInv'
<1>1. NoBlockSkipped' /\ InHand'
    BY DEF IInv, NoBlockSkipped, InHand
<1>2. /\ Led' = Led /\ Ended' = Ended
      /\ Elements(queue)' = {} /\ Elements(batch)' = {}
      /\ Distinct(queue)' /\ Distinct(batch)'
    BY DEF Led, IsLeader, Ended, Elements, Distinct
<1>3. InOnePlace'
    BY <1>2 DEF IInv, LedBlocksAccounted, InOnePlace, Held
<1>4. QED BY <1>1, <1>3 DEF IInv, LedBlocksAccounted

\* Every other step leaves the blocks where they are.
BlocksStay == UNCHANGED <<executed, handled, queue, batch, published, abandoned,
                          cursor, mode, process>>

LEMMA BlocksStayIInv ==
    ASSUME IInv, BlocksStay, TypeOK', TaskState',
           batchTask = "stopped" => UNCHANGED <<batchTask, failures>>,
           errors' = errors \/ errors' = errors + 1,
           loop' = loop \/ (loop = "waiting" /\ loop' = "ended")
    PROVE  IInv'
<1>1. NoBlockSkipped' /\ InHand'
    BY DEF IInv, NoBlockSkipped, InHand, BlocksStay
<1>2. InCallback' = InCallback
    BY DEF BlocksStay, InCallback, ConsensusRuns, Current
<1>3. /\ Led' = Led /\ Ended' = Ended
      /\ Elements(queue)' = Elements(queue) /\ Elements(batch)' = Elements(batch)
      /\ Distinct(queue)' = Distinct(queue) /\ Distinct(batch)' = Distinct(batch)
    BY DEF BlocksStay, Led, IsLeader, Ended, Elements, Distinct
<1>4. InOnePlace' /\ Held' = Held
    BY <1>2, <1>3 DEF IInv, BlocksStay, LedBlocksAccounted, InOnePlace, Held
<1>5. LossExplained'
    BY <1>3, <1>4, NoNewLoss DEF BlocksStay
<1>6. QED BY <1>1, <1>4, <1>5 DEF IInv, LedBlocksAccounted

\* A failed submission: the blocks are restored, or the task ends with them.
LEMMA SubmitFailsIInv ==
    ASSUME IInv, SubmitFails
    PROVE  IInv'
<1>1. /\ errors' = errors + 1 /\ errors' \in 0 .. MaxErrors
      /\ mode = "batch" /\ process = "up" /\ batchTask \in {"submitting", "last"}
      /\ UNCHANGED <<mode, relayV, loopV, published, abandoned, process>>
    BY DEF SubmitFails, BatchRuns, Fails, IInv, TypeOK
<1>2. /\ failures \in Nat /\ errors \in Nat /\ failures <= errors /\ failures < MaxFailures
      /\ failures' = (IF batchTask = "last" THEN failures ELSE failures + 1)
    BY <1>1 DEF SubmitFails, IInv, TypeOK, TaskState
<1>3. failures' \in 0 .. MaxFailures /\ failures' <= errors'
    BY <1>1, <1>2
<1>4. CASE ~GivesUp
  <2>1. /\ UNCHANGED <<queue, batch>> /\ batchTask' = "waiting"
        /\ failures' = failures + 1 /\ failures + 1 < MaxFailures
    BY <1>2, <1>4 DEF SubmitFails, GivesUp, Restore
  <2>2. TypeOK'
    BY <1>1, <1>3, <2>1 DEF IInv, TypeOK, relayV, loopV
  <2>3. TaskState'
    BY <1>3, <2>1 DEF IInv, TaskState
  <2>4. BlocksStay /\ loop' = loop /\ batchTask # "stopped"
    BY <1>1, <2>1 DEF BlocksStay, loopV
  <2>5. QED BY <1>1, <2>2, <2>3, <2>4, BlocksStayIInv
<1>5. CASE GivesUp
  <2>1. /\ queue' = <<>> /\ batch' = <<>> /\ batchTask' = "stopped"
        /\ UNCHANGED <<executed, handled, loop, cursor>>
    BY <1>1, <1>5 DEF SubmitFails, loopV
  <2>2. TypeOK'
    BY <1>1, <1>3, <2>1 DEF IInv, TypeOK, relayV, loopV
  <2>3. TaskState'
    BY <1>3, <2>1 DEF TaskState
  <2>4. failures' = MaxFailures \/ (loop' = "ended" /\ errors' > failures')
    <3>1. CASE batchTask = "last"
      BY <1>1, <1>2, <2>1, <3>1 DEF IInv, TaskState
    <3>2. CASE batchTask # "last"
      BY <1>2, <1>5, <3>2 DEF GivesUp
    <3>3. QED BY <3>1, <3>2
  <2>5. LossExplained'
    BY <1>1, <2>1, <2>4 DEF LossExplained
  <2>6. InCallback' = InCallback
    BY <1>1, <2>1 DEF InCallback, ConsensusRuns, Current
  <2>7. QED BY <1>1, <2>1, <2>2, <2>3, <2>5, <2>6, EmptiedIInv
<1>6. QED BY <1>4, <1>5

\* The process and all it held.
LEMMA CtrlCIInv ==
    ASSUME IInv, CtrlC
    PROVE  IInv'
<1>1. /\ process' = "exited" /\ queue' = <<>> /\ batch' = <<>>
      /\ UNCHANGED <<mode, relayV, loopV, batchTask, failures, published, abandoned, errors>>
    BY DEF CtrlC
<1>2. TypeOK'
    BY <1>1 DEF IInv, TypeOK, relayV, loopV
<1>3. TaskState'
    BY <1>1 DEF IInv, TaskState, loopV
<1>4. LossExplained'
    BY <1>1 DEF LossExplained
<1>5. InCallback' = {}
    BY <1>1 DEF InCallback, ConsensusRuns
<1>6. QED BY <1>1, <1>2, <1>3, <1>4, <1>5, EmptiedIInv DEF loopV

----------------------------------------------------------------------------
(* The theorems                                                            *)

LEMMA InitIInv == Init => IInv
<1> SUFFICES ASSUME Init PROVE IInv
    OBVIOUS
<1>1. TypeOK
    BY DEF Init, TypeOK
<1>2. NoBlockSkipped /\ InHand /\ TaskState
    BY DEF Init, NoBlockSkipped, InHand, TaskState
<1>3. LedBlocksAccounted
    BY DEF Init, LedBlocksAccounted, InOnePlace, LossExplained, Lost, Led, Ended, Held,
           InCallback, Elements, Distinct
<1>4. QED BY <1>1, <1>2, <1>3 DEF IInv

LEMMA NextIInv == IInv /\ [Next]_vars => IInv'
<1> SUFFICES ASSUME IInv, [Next]_vars PROVE IInv'
    OBVIOUS
<1>1. CASE BroadcastFinalized
  <2>1. /\ BlocksStay /\ TypeOK' /\ TaskState'
        /\ UNCHANGED <<loop, batchTask, failures, errors>>
      BY <1>1 DEF BroadcastFinalized, IInv, TypeOK, TaskState, BlocksStay, relayV, batchV
  <2>2. QED BY <2>1, BlocksStayIInv
<1>2. CASE BroadcastProposed
  <2>1. /\ BlocksStay /\ TypeOK' /\ TaskState'
        /\ UNCHANGED <<loop, batchTask, failures, errors>>
      BY <1>2 DEF BroadcastProposed, IInv, TypeOK, TaskState, BlocksStay, loopV, batchV
  <2>2. QED BY <2>1, BlocksStayIInv
<1>3. CASE ReceiveBlock
    BY <1>3, ReceiveBlockIInv
<1>4. CASE ReceiveLagged
  <2>1. /\ BlocksStay /\ TypeOK' /\ TaskState' /\ loop' = "ended" /\ loop = "waiting"
        /\ UNCHANGED <<batchTask, failures, errors>>
      BY <1>4 DEF ReceiveLagged, IInv, TypeOK, TaskState, BlocksStay, relayV, batchV
  <2>2. QED BY <2>1, BlocksStayIInv
<1>5. CASE Execute
    BY <1>5, ExecuteIInv
<1>6. CASE QueueForBatch
    BY <1>6, QueueForBatchIInv
<1>7. CASE SubmitImmediate
    BY <1>7, SubmitImmediateIInv
<1>8. CASE RelayBlock \/ RelayLagged \/ RelayStops
  <2>1. /\ BlocksStay /\ UNCHANGED <<loop, batchTask, failures>>
        /\ errors' = errors \/ errors' = errors + 1
      BY <1>8 DEF RelayBlock, RelayLagged, RelayStops, Fails, BlocksStay, loopV, batchV
  <2>2. /\ relayCursor' \in 1 .. proposed + 1
        /\ relayed' \subseteq 1 .. proposed /\ unsent' \subseteq 1 .. proposed
        /\ relay' \in {"running", "stopped"} /\ errors' \in 0 .. MaxErrors
    <3>1. CASE RelayBlock
      <4>1. relayCursor \in 1 .. proposed /\ relayCursor + 1 \in 1 .. proposed + 1
          BY <3>1 DEF RelayBlock, IInv, TypeOK
      <4>2. /\ relayed' = relayed \/ relayed' = relayed \cup {relayCursor}
            /\ unsent' = unsent \/ unsent' = unsent \cup {relayCursor}
            /\ relayCursor' = relayCursor + 1 /\ UNCHANGED <<relay, errors>>
          BY <3>1 DEF RelayBlock
      <4>3. QED BY <4>1, <4>2 DEF IInv, TypeOK
    <3>2. CASE RelayLagged
        BY <3>2 DEF RelayLagged, Lags, Oldest, IInv, TypeOK
    <3>3. CASE RelayStops
        BY <3>3 DEF RelayStops, Fails, IInv, TypeOK
    <3>4. QED BY <1>8, <3>1, <3>2, <3>3
  <2>3. TypeOK'
      BY <1>8, <2>2 DEF RelayBlock, RelayLagged, RelayStops, IInv, TypeOK, loopV, batchV
  <2>4. TaskState'
    <3>1. failures <= errors'
        BY <2>1 DEF IInv, TypeOK, TaskState
    <3>2. QED BY <2>1, <3>1 DEF IInv, TaskState, BlocksStay
  <2>5. QED BY <2>1, <2>3, <2>4, BlocksStayIInv
<1>9. CASE TakeFromQueue
    BY <1>9, TakeFromQueueIInv
<1>10. CASE Tick \/ Shutdown
  <2>1. /\ BlocksStay /\ UNCHANGED <<loop, failures, errors>>
        /\ batchTask = "waiting"
        /\ batchTask' = "submitting" \/ batchTask' = "last" \/ batchTask' = "stopped"
      BY <1>10 DEF Tick, Shutdown, BatchRuns, BlocksStay, loopV
  <2>2. TypeOK'
      BY <1>10 DEF Tick, Shutdown, IInv, TypeOK, relayV, loopV
  <2>3. batchTask' # "submitting" => /\ loop = "ended" /\ queue = <<>>
                                     /\ batchTask' = "stopped" => batch = <<>>
      BY <1>10 DEF Tick, Shutdown, ChannelClosed
  <2>4. TaskState'
      BY <2>1, <2>3 DEF IInv, TaskState, BlocksStay
  <2>5. QED BY <2>1, <2>2, <2>4, BlocksStayIInv
<1>11. CASE SubmitBatch
    BY <1>11, SubmitBatchIInv
<1>12. CASE SubmitFails
    BY <1>12, SubmitFailsIInv
<1>13. CASE CtrlC
    BY <1>13, CtrlCIInv
<1>14. CASE UNCHANGED vars
  <2>1. /\ BlocksStay /\ TypeOK' /\ TaskState'
        /\ UNCHANGED <<loop, batchTask, failures, errors>>
      BY <1>14 DEF vars, IInv, TypeOK, TaskState, BlocksStay, relayV, loopV, batchV
  <2>2. QED BY <2>1, BlocksStayIInv
<1>15. QED
    BY <1>1, <1>2, <1>3, <1>4, <1>5, <1>6, <1>7, <1>8, <1>9, <1>10, <1>11, <1>12,
       <1>13, <1>14 DEF Next, FinalizationLoop, BlockRelay, BatchTask

\* The inductive invariant holds in every behaviour of the node.
THEOREM Invariance == Spec => []IInv
BY InitIInv, NextIInv, PTL DEF Spec

\* Every variable of Node keeps its shape, and the batch channel its capacity.
THEOREM TypeCorrect == Spec => []TypeOK
<1>1. IInv => TypeOK BY DEF IInv
<1>2. QED BY <1>1, Invariance, PTL

\* Whatever the capacity of the broadcast channel, a lagging loop never leaves
\* a block out (wait_for_block).
THEOREM NoBlockSkippedTheorem == Spec => []NoBlockSkipped
<1>1. IInv => NoBlockSkipped BY DEF IInv
<1>2. QED BY <1>1, Invariance, PTL

\* A block the node has to publish is published, abandoned, or held in exactly
\* one place; one that is in no place went with the process, with a batch task
\* at its limit of failures, or with one whose submission failed after
\* consensus had ended (queue_for_batch, submit_immediate, the batch loop, run).
THEOREM AccountedTheorem == Spec => []LedBlocksAccounted
<1>1. IInv => LedBlocksAccounted BY DEF IInv
<1>2. QED BY <1>1, Invariance, PTL

----------------------------------------------------------------------------
(* Order: what is submitted first was executed first                       *)

Sorted(s) == \A i, j \in DOMAIN s : i < j => s[i] < s[j]

\* The batch is ahead of the channel; the block in the callback, which is
\* behind both, is above all executed ones already.
InOrder ==
    /\ Sorted(queue)
    /\ \A b \in Elements(batch), c \in Elements(queue) : b < c
    /\ mode = "direct" => queue = <<>> /\ batch = <<>>

LEMMA SortedAppend ==
    ASSUME NEW s \in Seq(Nat), NEW e \in Nat, Sorted(s), \A b \in Elements(s) : b < e
    PROVE  Sorted(Append(s, e))
<1>1. /\ Len(s) \in Nat
      /\ DOMAIN s = 1 .. Len(s) /\ DOMAIN Append(s, e) = 1 .. (Len(s) + 1)
      /\ \A i \in 1 .. Len(s) : Append(s, e)[i] = s[i] /\ s[i] \in Elements(s)
      /\ Append(s, e)[Len(s) + 1] = e
    BY AppendProperties, LenProperties DEF Elements
<1>2. ASSUME NEW i \in 1 .. (Len(s) + 1), NEW j \in 1 .. (Len(s) + 1), i < j
      PROVE  Append(s, e)[i] < Append(s, e)[j]
  <2>1. i \in 1 .. Len(s)
    BY <1>1, <1>2
  <2>2. CASE j \in 1 .. Len(s)
    BY <1>1, <1>2, <2>1, <2>2 DEF Sorted
  <2>3. CASE j = Len(s) + 1
    BY <1>1, <2>1, <2>3
  <2>4. QED BY <1>1, <2>2, <2>3
<1>3. QED BY <1>1, <1>2 DEF Sorted

LEMMA SortedTail ==
    ASSUME NEW s \in Seq(Nat), s # <<>>, Sorted(s)
    PROVE  Sorted(Tail(s)) /\ \A b \in Elements(Tail(s)) : Head(s) < b
<1>1. /\ Len(s) \in Nat \ {0}
      /\ DOMAIN s = 1 .. Len(s) /\ DOMAIN Tail(s) = 1 .. (Len(s) - 1)
      /\ \A i \in 1 .. (Len(s) - 1) : Tail(s)[i] = s[i + 1]
      /\ Head(s) = s[1]
    BY EmptySeq, HeadTailProperties, LenProperties
<1>2. \A i \in 1 .. (Len(s) - 1) : i + 1 \in 1 .. Len(s) /\ 1 \in 1 .. Len(s) /\ 1 < i + 1
    BY <1>1
<1>3. ASSUME NEW i \in 1 .. (Len(s) - 1), NEW j \in 1 .. (Len(s) - 1), i < j
      PROVE  Tail(s)[i] < Tail(s)[j]
  <2>1. i + 1 < j + 1
    BY <1>3
  <2>2. QED BY <1>1, <1>2, <2>1 DEF Sorted
<1>4. ASSUME NEW i \in 1 .. (Len(s) - 1)
      PROVE  Head(s) < Tail(s)[i]
    BY <1>1, <1>2 DEF Sorted
<1>5. QED BY <1>1, <1>3, <1>4 DEF Sorted, Elements

\* Where the blocks are, in the numbers that the other lemmas compare.
LEMMA Places ==
    ASSUME IInv
    PROVE  /\ queue \in Seq(Nat) /\ batch \in Seq(Nat)
           /\ Elements(queue) \cup Elements(batch) \cup published \cup abandoned \subseteq executed
           /\ executed \subseteq Blocks /\ Blocks \subseteq Nat \ {0}
           /\ published \cap Held = {}
           /\ ConsensusRuns /\ loop = "submitting" =>
                  /\ Current \in executed /\ Current \notin published
                  /\ \A b \in executed : b <= Current
                  /\ \A b \in Elements(queue) \cup Elements(batch) : b < Current
<1>1. executed \subseteq Blocks /\ Blocks \subseteq Nat \ {0}
    BY DEF IInv, TypeOK, Blocks
<1>2. queue \in Seq(Nat) /\ batch \in Seq(Nat)
    BY <1>1, ExecutedGrows DEF IInv, TypeOK
<1>3. Ended \cup Held \subseteq executed /\ Ended \cap Held = {}
    BY PlacesAreExecuted DEF IInv, LedBlocksAccounted, InOnePlace
<1>4. ASSUME ConsensusRuns, loop = "submitting"
      PROVE  /\ Current \in executed /\ Current \notin published
             /\ \A b \in executed : b <= Current
             /\ \A b \in Elements(queue) \cup Elements(batch) : b < Current
  <2>1. InCallback = {Current}
    BY <1>4 DEF InCallback
  <2>2. executed \subseteq 1 .. Current /\ Current \in Nat
    BY <1>1, <1>4, CurrentIsLast
  <2>3. InCallback \cap (Elements(queue) \cup Elements(batch)) = {}
    BY DEF IInv, LedBlocksAccounted, InOnePlace
  <2>4. Current \in executed /\ Current \notin published
    BY <1>3, <2>1 DEF Held, Ended
  <2>5. \A b \in executed : b \in Nat /\ b <= Current
    BY <2>2
  <2>6. \A b \in Elements(queue) \cup Elements(batch) : b \in executed /\ b # Current
    BY <1>3, <2>1, <2>3 DEF Held
  <2>7. \A b \in Elements(queue) \cup Elements(batch) : b < Current
    <3> SUFFICES ASSUME NEW b \in Elements(queue) \cup Elements(batch) PROVE b < Current
      OBVIOUS
    <3>1. b \in Nat /\ b <= Current /\ b # Current
      BY <2>5, <2>6
    <3> HIDE DEF Current
    <3>2. QED BY <2>2, <3>1
  <2>8. QED BY <2>4, <2>5, <2>7
<1>5. QED BY <1>1, <1>2, <1>3, <1>4 DEF Held, Ended

LEMMA NextOrder ==
    ASSUME IInv, InOrder, [Next]_vars
    PROVE  InOrder'
<1>1. CASE QueueForBatch
  <2>1. /\ mode = "batch" /\ ConsensusRuns /\ loop = "submitting"
        /\ UNCHANGED <<mode, batch>>
    BY <1>1 DEF QueueForBatch
  <2>2. CASE UNCHANGED queue
    BY <2>1, <2>2 DEF InOrder, Sorted, Elements
  <2>3. CASE queue' = Append(queue, Current)
    <3>1. /\ queue \in Seq(Nat) /\ Current \in Nat
          /\ \A b \in Elements(queue) \cup Elements(batch) : b < Current
      BY <2>1, Places
    <3>2. Elements(Append(queue, Current)) = Elements(queue) \cup {Current}
      BY <3>1, ElementsOfAppend
    <3>3. Sorted(Append(queue, Current))
      BY <3>1, SortedAppend DEF InOrder
    <3>4. /\ Elements(queue)' = Elements(queue) \cup {Current}
          /\ Elements(batch)' = Elements(batch) /\ Sorted(queue)'
      BY <2>1, <2>3, <3>2, <3>3 DEF Elements, Sorted
    <3>5. QED BY <2>1, <3>1, <3>4 DEF InOrder
  <2>4. QED BY <1>1, <2>2, <2>3 DEF QueueForBatch
<1>2. CASE TakeFromQueue
  <2>1. /\ mode = "batch" /\ queue # <<>> /\ mode' = mode
        /\ queue' = Tail(queue) /\ batch' = Append(batch, Head(queue))
    BY <1>2 DEF TakeFromQueue, BatchRuns
  <2>2. queue \in Seq(Nat) /\ batch \in Seq(Nat) /\ Head(queue) \in Nat
    BY <2>1, Places, HeadTailProperties
  <2>3. /\ Sorted(Tail(queue)) /\ \A b \in Elements(Tail(queue)) : Head(queue) < b
        /\ Elements(queue) = Elements(Tail(queue)) \cup {Head(queue)}
        /\ Elements(Append(batch, Head(queue))) = Elements(batch) \cup {Head(queue)}
    BY <2>1, <2>2, SortedTail, ElementsOfTail, ElementsOfAppend DEF InOrder
  <2>4. /\ Sorted(queue)' /\ Elements(queue)' = Elements(Tail(queue))
        /\ Elements(batch)' = Elements(batch) \cup {Head(queue)}
    BY <2>1, <2>3 DEF Sorted, Elements
  <2>5. QED BY <2>1, <2>3, <2>4 DEF InOrder
<1>3. CASE SubmitBatch
  <2>1. UNCHANGED <<mode, queue>> /\ batch' = <<>>
    BY <1>3 DEF SubmitBatch
  <2>2. Elements(batch)' = {} /\ Elements(queue)' = Elements(queue) /\ Sorted(queue)' = Sorted(queue)
    BY <2>1 DEF Elements, Sorted
  <2>3. QED BY <2>1, <2>2 DEF InOrder
<1>4. CASE UNCHANGED <<mode, queue, batch>>
    BY <1>4 DEF InOrder, Sorted, Elements
<1>5. CASE queue' = <<>> /\ batch' = <<>>
    BY <1>5 DEF InOrder, Sorted, Elements
<1>6. QED
    BY <1>1, <1>2, <1>3, <1>4, <1>5
    DEF Next, vars, BroadcastFinalized, BroadcastProposed, FinalizationLoop, ReceiveBlock,
        ReceiveLagged, Execute, SubmitImmediate, BlockRelay, RelayBlock, RelayLagged,
        RelayStops, BatchTask, Tick, Shutdown, SubmitFails, Restore, CtrlC, batchV

LEMMA OrderInvariance == Spec => [](IInv /\ InOrder)
<1>1. Init => InOrder
    BY DEF Init, InOrder, Sorted, Elements
<1>2. IInv /\ InOrder /\ [Next]_vars => InOrder'
    BY NextOrder
<1>3. QED BY Invariance, <1>1, <1>2, PTL DEF Spec

----------------------------------------------------------------------------
(* The node implements the ledger                                          *)

\* Status in terms of what it depends on.
StatusIn(b, out, held, passed) ==
    CASE b \in out -> "included"
      [] b \in held -> "handed"
      [] b \in passed \ (out \cup held) -> "abandoned"
      [] b \notin passed \cup out \cup held -> "new"

LEMMA StatusCases ==
    ASSUME NEW out, NEW held, NEW passed, NEW b, out \cap held = {}
    PROVE  StatusIn(b, out, held, passed) =
               IF b \in out THEN "included"
               ELSE IF b \in held THEN "handed"
               ELSE IF b \in passed THEN "abandoned" ELSE "new"
<1>1. CASE b \in out
  <2>1. b \notin held
    BY <1>1
  <2>2. QED BY <1>1, <2>1 DEF StatusIn
<1>2. CASE b \in held
  <2>1. b \notin out
    BY <1>2
  <2>2. QED BY <1>2, <2>1 DEF StatusIn
<1>3. CASE b \notin out \cup held
    BY <1>3 DEF StatusIn
<1>4. QED BY <1>1, <1>2, <1>3

\* The same for the statuses before and after a step.
LEMMA StatusIs ==
    ASSUME IInv, NEW b \in Blocks
    PROVE  Statuses[b] = IF b \in published THEN "included"
                         ELSE IF b \in Held THEN "handed"
                         ELSE IF b \in Passed THEN "abandoned" ELSE "new"
<1>1. published \cap Held = {}
    BY Places
<1>2. Statuses[b] = StatusIn(b, published, Held, Passed)
    BY DEF Statuses, Status, StatusIn
<1>3. QED BY <1>1, <1>2, StatusCases

LEMMA StatusIsNext ==
    ASSUME IInv', NEW b \in Blocks
    PROVE  Statuses'[b] = IF b \in published' THEN "included"
                          ELSE IF b \in Held' THEN "handed"
                          ELSE IF b \in Passed' THEN "abandoned" ELSE "new"
<1>1. published' \cap Held' = {}
    BY DEF IInv, LedBlocksAccounted, InOnePlace, Ended
<1>2. Statuses'[b] = StatusIn(b, published', Held', Passed')
    BY DEF Statuses, Status, StatusIn
<1>3. QED BY <1>1, <1>2, StatusCases

\* The callback has passed all blocks it was given, but for the one it is
\* executing.
LEMMA PassedIs ==
    ASSUME IInv
    PROVE  /\ Len(handled) \in Nat /\ Elements(handled) = 1 .. Len(handled)
           /\ Passed = IF loop = "executing" THEN 1 .. Len(handled) - 1 ELSE 1 .. Len(handled)
           /\ published \cup Held \subseteq Passed
<1>1. handled \in Seq(Blocks) /\ Len(handled) \in Nat /\ DOMAIN handled = 1 .. Len(handled)
    BY LenProperties DEF IInv, TypeOK
<1>2. Elements(handled) = 1 .. Len(handled)
    BY <1>1 DEF IInv, NoBlockSkipped, Elements
<1>3. CASE loop = "executing"
  <2>1. Current = Len(handled)
    BY <1>3, CurrentIsLast
  <2>2. Passed = 1 .. Len(handled) - 1
    BY <1>1, <1>2, <1>3, <2>1 DEF Passed
  <2>3. executed \subseteq 1 .. Len(handled) - 1
    BY <1>1, <1>3 DEF IInv, InHand
  <2>4. QED BY <1>1, <1>2, <1>3, <2>2, <2>3, PlacesAreExecuted DEF IInv, Ended
<1>4. CASE loop # "executing"
  <2>1. Passed = 1 .. Len(handled)
    BY <1>2, <1>4 DEF Passed
  <2>2. executed \subseteq 1 .. Len(handled)
    BY DEF IInv, InHand
  <2>3. QED BY <1>1, <1>2, <1>4, <2>1, <2>2, PlacesAreExecuted DEF IInv, Ended
<1>5. QED BY <1>3, <1>4

\* A step that leaves published, held and passed blocks alone is none of the
\* ledger's.
LEMMA StatusesStay ==
    ASSUME published' = published, Held' = Held, Passed' = Passed
    PROVE  Statuses' = Statuses
BY DEF Statuses, Status

\* A step that changes the status of one block.
LEMMA StatusChange ==
    ASSUME NEW x \in Blocks, NEW s, Statuses'[x] = s,
           \A b \in Blocks \ {x} : Statuses'[b] = Statuses[b]
    PROVE  Statuses' = [Statuses EXCEPT ![x] = s]
<1>1. Blocks' = Blocks
    BY DEF Blocks
<1>2. Statuses' = [b \in Blocks |-> Statuses'[b]] /\ Statuses = [b \in Blocks |-> Statuses[b]]
    BY <1>1 DEF Statuses
<1>3. QED BY <1>2

\* The callback is done with executing a block: all before it are passed.
LEMMA ExecuteHandsOver ==
    ASSUME IInv, IInv', Execute
    PROVE  Ledger!Next
<1>1. /\ loop = "executing" /\ loop' \in {"waiting", "submitting"}
      /\ UNCHANGED <<handled, queue, batch, published>>
    BY DEF Execute, batchV
<1>2. PICK x \in Blocks : x = Current /\ x = Len(handled) /\ Current' = x
    BY <1>1, CurrentIsLast DEF Current
<1>3. /\ Passed = 1 .. x - 1 /\ published \cup Held \subseteq Passed
      /\ x \in Nat \ {0}
    BY <1>1, <1>2, PassedIs, Places
<1>4. Passed' = 1 .. x
  <2>1. Elements(handled)' = 1 .. x
    BY <1>1, <1>2, PassedIs DEF Elements
  <2>2. QED BY <1>1, <2>1 DEF Passed
<1>5. Held' = Held \/ Held' = Held \cup {x}
    BY <1>1, <1>2 DEF Held, InCallback, Elements
<1>6. /\ Statuses[x] = "new" /\ \A c \in 1 .. x - 1 : c \in Blocks /\ Statuses[c] # "new"
  <2>1. x \notin Passed
    BY <1>3
  <2>2. \A c \in 1 .. x - 1 : c \in Blocks
    BY <1>3 DEF Blocks
  <2>3. Statuses[x] = "new"
    BY <1>3, <2>1, StatusIs
  <2>4. ASSUME NEW c \in 1 .. x - 1 PROVE Statuses[c] # "new"
    <3>1. c \in Blocks /\ c \in Passed
      BY <1>3, <2>2
    <3>2. QED BY <3>1, StatusIs
  <2>5. QED BY <2>2, <2>3, <2>4
<1>7. Statuses'[x] \in {"handed", "abandoned"}
  <2>1. x \notin published' /\ x \in Passed'
    BY <1>1, <1>3, <1>4
  <2>2. QED BY <2>1, StatusIsNext
<1>8. ASSUME NEW b \in Blocks \ {x} PROVE Statuses'[b] = Statuses[b]
  <2>1. /\ b \in published' <=> b \in published
        /\ b \in Held' <=> b \in Held
        /\ b \in Passed' <=> b \in Passed
    BY <1>1, <1>3, <1>4, <1>5 DEF Blocks
  <2>2. QED BY <2>1, StatusIs, StatusIsNext
<1>9. Statuses' = [Statuses EXCEPT ![x] = Statuses'[x]]
    BY <1>8, StatusChange
<1>10. Ledger!HandOver(x)
    BY <1>6, <1>7, <1>9 DEF Ledger!HandOver
<1>11. QED BY <1>10 DEF Ledger!Next, Ledger!Blocks, Blocks

\* All blocks held up to one of them are lost.
LEMMA AbandonSome ==
    ASSUME IInv, IInv', NEW x \in Held, published' = published, Passed' = Passed,
           Held' = Held \ {b \in Held : b <= x}
    PROVE  Ledger!Next
<1>1. x \in Blocks /\ x \notin published
    BY Places, PlacesAreExecuted DEF IInv
<1>2. Statuses[x] = "handed"
    BY <1>1, StatusIs
<1>3. Held \subseteq Passed
    BY PassedIs
<1>4. ASSUME NEW b \in Blocks
      PROVE  Statuses'[b] = IF b <= x /\ Statuses[b] = "handed" THEN "abandoned" ELSE Statuses[b]
  <2>1. CASE b \in published
    BY <2>1, StatusIs, StatusIsNext
  <2>2. CASE b \notin published /\ b \in Held /\ b <= x
    BY <1>3, <2>2, StatusIs, StatusIsNext
  <2>3. CASE b \notin published /\ b \in Held /\ ~(b <= x)
    BY <2>3, StatusIs, StatusIsNext
  <2>4. CASE b \notin published /\ b \notin Held
    BY <2>4, StatusIs, StatusIsNext
  <2>5. QED BY <2>1, <2>2, <2>3, <2>4
<1>5. Statuses' = [b \in Blocks |-> Statuses'[b]]
    BY DEF Statuses, Blocks
<1>6. Statuses' = [b \in Blocks |->
                      IF b <= x /\ Statuses[b] = "handed" THEN "abandoned" ELSE Statuses[b]]
    BY <1>4, <1>5
<1>7. Ledger!Abandon(x)
    BY <1>2, <1>6 DEF Ledger!Abandon, Ledger!Blocks, Blocks
<1>8. QED BY <1>1, <1>7 DEF Ledger!Next, Ledger!Blocks, Blocks

\* All blocks of a set, none of them above one that stays, are lost.
LEMMA AbandonLowest ==
    ASSUME IInv, IInv', NEW L \in SUBSET Held, published' = published, Passed' = Passed,
           Held' = Held \ L,
           \A b \in L, c \in Held \ L : b < c
    PROVE  Ledger!Next \/ UNCHANGED Statuses
<1>1. CASE L = {}
  <2>1. Held' = Held
    BY <1>1
  <2>2. QED BY <2>1, StatusesStay
<1>2. CASE L # {}
  <2>1. Held \subseteq 1 .. MaxBlock
    BY PlacesAreExecuted, Places DEF IInv, Blocks
  <2>2. L \in SUBSET (0 .. MaxBlock)
    BY <2>1
  <2>3. PICK x \in L : \A b \in L : b <= x
    BY <1>2, <2>2, GreatestNumber
  <2>4. \A c \in Held \ L : c \in Nat /\ x \in Nat /\ x < c
    BY <2>1
  <2>5. \A c \in Held \ L : ~(c <= x)
    BY <2>4
  <2>6. {b \in Held : b <= x} = L
    BY <2>3, <2>5
  <2>7. QED BY <2>6, AbandonSome
<1>3. QED BY <1>1, <1>2

\* All blocks held up to one of them are published.
LEMMA PublishSome ==
    ASSUME IInv, IInv', NEW x \in Held, Passed' = Passed,
           published' = published \cup {b \in Held : b <= x},
           Held' = Held \ {b \in Held : b <= x}
    PROVE  Ledger!Next
<1>1. x \in Blocks /\ x \notin published
    BY Places, PlacesAreExecuted DEF IInv
<1>2. Statuses[x] = "handed"
    BY <1>1, StatusIs
<1>3. ASSUME NEW b \in Blocks
      PROVE  Statuses'[b] = IF b <= x /\ Statuses[b] = "handed" THEN "included" ELSE Statuses[b]
  <2>1. CASE b \in published
    BY <2>1, StatusIs, StatusIsNext
  <2>2. CASE b \notin published /\ b \in Held /\ b <= x
    BY <2>2, StatusIs, StatusIsNext
  <2>3. CASE b \notin published /\ b \in Held /\ ~(b <= x)
    BY <2>3, StatusIs, StatusIsNext
  <2>4. CASE b \notin published /\ b \notin Held
    BY <2>4, StatusIs, StatusIsNext
  <2>5. QED BY <2>1, <2>2, <2>3, <2>4
<1>4. Statuses' = [b \in Blocks |-> Statuses'[b]]
    BY DEF Statuses, Blocks
<1>5. Statuses' = [b \in Blocks |->
                      IF b <= x /\ Statuses[b] = "handed" THEN "included" ELSE Statuses[b]]
    BY <1>3, <1>4
<1>6. Ledger!Publish(x)
    BY <1>2, <1>5 DEF Ledger!Publish, Ledger!Blocks, Blocks
<1>7. QED BY <1>1, <1>6 DEF Ledger!Next, Ledger!Blocks, Blocks

LEMMA SubmitImmediateLedger ==
    ASSUME IInv, IInv', InOrder, SubmitImmediate
    PROVE  Ledger!Next
<1>1. /\ mode = "direct" /\ ConsensusRuns /\ loop = "submitting" /\ loop' = "waiting"
      /\ UNCHANGED <<handled, queue, batch>>
      /\ \/ published' = published \cup {Current}
         \/ published' = published
    BY DEF SubmitImmediate, batchV
<1>2. Passed' = Passed
    BY <1>1 DEF Passed, Elements
<1>3. Held = {Current} /\ Held' = {}
    BY <1>1 DEF InOrder, Held, InCallback, Elements
<1>4. Current \in Nat
    BY <1>1, Places
<1>5. {b \in Held : b <= Current} = {Current}
    BY <1>3, <1>4
<1>6. CASE published' = published \cup {Current}
    BY <1>2, <1>3, <1>5, <1>6, PublishSome
<1>7. CASE published' = published
    BY <1>2, <1>3, <1>5, <1>7, AbandonSome
<1>8. QED BY <1>1, <1>6, <1>7

LEMMA QueueForBatchLedger ==
    ASSUME IInv, IInv', QueueForBatch
    PROVE  Ledger!Next \/ UNCHANGED Statuses
<1>1. /\ ConsensusRuns /\ loop = "submitting" /\ loop' = "waiting"
      /\ UNCHANGED <<handled, batch, published>>
    BY DEF QueueForBatch
<1>2. Passed' = Passed /\ InCallback = {Current} /\ InCallback' = {}
    BY <1>1 DEF Passed, Elements, InCallback
<1>3. Elements(batch)' = Elements(batch)
    BY <1>1 DEF Elements
<1>4. CASE queue' = Append(queue, Current)
  <2>1. queue \in Seq(Nat) /\ Current \in Nat
    BY <1>1, Places
  <2>2. Elements(Append(queue, Current)) = Elements(queue) \cup {Current}
    BY <2>1, ElementsOfAppend
  <2>3. Elements(queue)' = Elements(queue) \cup {Current}
    BY <1>4, <2>2 DEF Elements
  <2>4. Held' = Held
    BY <1>2, <1>3, <2>3 DEF Held
  <2>5. QED BY <1>1, <1>2, <2>4, StatusesStay
<1>5. CASE batchTask = "stopped" /\ UNCHANGED queue
  <2>1. queue = <<>> /\ batch = <<>>
    BY <1>5 DEF IInv, TaskState
  <2>2. Held = {Current} /\ Held' = {}
    BY <1>1, <1>2, <1>5, <2>1 DEF Held, Elements
  <2>3. Held' = Held \ Held
    BY <2>2
  <2>4. QED BY <1>1, <1>2, <2>3, AbandonLowest
<1>6. QED BY <1>4, <1>5 DEF QueueForBatch

\* The task ends with all that is held but the block in the callback.
LEMMA SubmitFailsLedger ==
    ASSUME IInv, IInv', SubmitFails
    PROVE  Ledger!Next \/ UNCHANGED Statuses
<1>1. UNCHANGED <<loop, handled, process, published>>
    BY DEF SubmitFails, loopV
<1>2. Passed' = Passed /\ InCallback' = InCallback
    BY <1>1 DEF Passed, Elements, InCallback, ConsensusRuns, Current
<1>3. CASE ~GivesUp
  <2>1. UNCHANGED <<queue, batch>>
    BY <1>3 DEF SubmitFails, Restore
  <2>2. Held' = Held
    BY <1>2, <2>1 DEF Held, Elements
  <2>3. QED BY <1>1, <1>2, <2>2, StatusesStay
<1>4. CASE GivesUp
  <2> DEFINE L == Elements(queue) \cup Elements(batch)
  <2>1. Elements(queue)' = {} /\ Elements(batch)' = {}
    BY <1>4 DEF SubmitFails, Elements
  <2>2. L \cap InCallback = {}
    BY DEF IInv, LedBlocksAccounted, InOnePlace
  <2>3. Held = L \cup InCallback /\ Held' = InCallback
    BY <1>2, <2>1 DEF Held
  <2>4. \A b \in L, c \in InCallback : b < c
    BY Places DEF InCallback
  <2> HIDE DEF L
  <2>5. Held' = Held \ L /\ L \in SUBSET Held /\ Held \ L = InCallback
    BY <2>2, <2>3
  <2>6. QED BY <1>1, <1>2, <2>4, <2>5, AbandonLowest
<1>5. QED BY <1>3, <1>4

\* The process exits with all that is held.
LEMMA CtrlCLedger ==
    ASSUME IInv, IInv', CtrlC
    PROVE  Ledger!Next \/ UNCHANGED Statuses
<1>1. /\ queue' = <<>> /\ batch' = <<>> /\ process' = "exited"
      /\ UNCHANGED <<loop, handled, published>>
    BY DEF CtrlC, loopV
<1>2. Passed' = Passed /\ Held' = {}
    BY <1>1 DEF Passed, Held, Elements, InCallback, ConsensusRuns, Current
<1>3. Held' = Held \ Held /\ Held \ Held = {}
    BY <1>2
<1>4. QED BY <1>1, <1>2, <1>3, AbandonLowest

\* The batch holds all that is held up to its greatest block.
LEMMA SubmitBatchLedger ==
    ASSUME IInv, IInv', InOrder, SubmitBatch
    PROVE  Ledger!Next \/ UNCHANGED Statuses
<1>1. /\ published' = published \cup Elements(batch) /\ batch' = <<>>
      /\ UNCHANGED <<loop, handled, queue, process>>
    BY DEF SubmitBatch, loopV
<1>2. /\ Passed' = Passed /\ InCallback' = InCallback
      /\ Elements(queue)' = Elements(queue) /\ Elements(batch)' = {}
    BY <1>1 DEF Passed, Elements, InCallback, ConsensusRuns, Current
<1>3. CASE Elements(batch) = {}
  <2>1. published' = published /\ Held' = Held
    BY <1>1, <1>2, <1>3 DEF Held
  <2>2. QED BY <1>2, <2>1, StatusesStay
<1>4. CASE Elements(batch) # {}
  <2>1. Elements(batch) \in SUBSET (0 .. MaxBlock)
    BY Places DEF Blocks
  <2>2. PICK x \in Elements(batch) : \A b \in Elements(batch) : b <= x
    BY <1>4, <2>1, GreatestNumber
  <2>3. x \in Nat /\ Elements(queue) \cup InCallback \subseteq Nat
    BY <2>1, Places DEF InCallback
  <2>4. \A b \in Elements(queue) \cup InCallback : x < b
    BY Places DEF InOrder, InCallback
  <2>5. {b \in Held : b <= x} = Elements(batch)
    <3>1. \A b \in Elements(queue) \cup InCallback : ~(b <= x)
      BY <2>3, <2>4
    <3>2. QED BY <2>2, <3>1 DEF Held
  <2>6. /\ Held' = Held \ Elements(batch) /\ x \in Held
    <3>1. (Elements(queue) \cup InCallback) \cap Elements(batch) = {}
      BY DEF IInv, LedBlocksAccounted, InOnePlace
    <3>2. QED BY <1>2, <3>1 DEF Held
  <2>7. QED BY <1>1, <1>2, <2>5, <2>6, PublishSome
<1>5. QED BY <1>3, <1>4

\* Whatever else a step does, it leaves the statuses alone.
LEMMA OthersLedger ==
    ASSUME IInv, IInv',
           \/ ReceiveBlock \/ TakeFromQueue
           \/ /\ UNCHANGED <<published, handled, queue, batch, process>>
              /\ loop' = loop \/ (loop = "waiting" /\ loop' = "ended")
    PROVE  UNCHANGED Statuses
<1>1. CASE ReceiveBlock
  <2>1. /\ loop = "waiting" /\ loop' = "executing" /\ cursor = Len(handled) + 1
        /\ handled' = Append(handled, cursor) /\ UNCHANGED <<published, queue, batch>>
    BY <1>1 DEF ReceiveBlock, batchV, IInv, InHand
  <2>2. handled \in Seq(Blocks) /\ handled' \in Seq(Blocks)
    BY DEF IInv, TypeOK, Blocks
  <2>3. Len(handled') = Len(handled) + 1
    BY <2>1, <2>2, AppendProperties, LenProperties
  <2>4. Passed = 1 .. Len(handled)
    BY <2>1, PassedIs
  <2>5. Passed' = 1 .. Len(handled)
    <3>1. DOMAIN handled' = 1 .. Len(handled) + 1 /\ Len(handled) \in Nat
      BY <2>2, <2>3, LenProperties
    <3>2. \A i \in DOMAIN handled' : handled'[i] = i
      BY DEF IInv, NoBlockSkipped
    <3>3. Elements(handled)' = 1 .. Len(handled) + 1 /\ Current' = Len(handled) + 1
      BY <2>3, <3>1, <3>2 DEF Elements, Current
    <3>4. QED BY <2>1, <3>1, <3>3 DEF Passed
  <2>6. Held' = Held
    BY <2>1 DEF Held, InCallback, Elements
  <2>7. QED BY <2>1, <2>4, <2>5, <2>6, StatusesStay
<1>2. CASE TakeFromQueue
  <2>1. /\ queue # <<>> /\ queue' = Tail(queue) /\ batch' = Append(batch, Head(queue))
        /\ UNCHANGED <<loop, handled, published, process>>
    BY <1>2 DEF TakeFromQueue, loopV
  <2>2. queue \in Seq(Nat) /\ batch \in Seq(Nat) /\ Head(queue) \in Nat
    BY <2>1, Places, HeadTailProperties
  <2>3. /\ Elements(queue) = Elements(Tail(queue)) \cup {Head(queue)}
        /\ Elements(Append(batch, Head(queue))) = Elements(batch) \cup {Head(queue)}
    BY <2>1, <2>2, ElementsOfTail, ElementsOfAppend
  <2>4. Elements(queue)' = Elements(Tail(queue)) /\ Elements(batch)' = Elements(Append(batch, Head(queue)))
    BY <2>1 DEF Elements
  <2>5. Passed' = Passed /\ InCallback' = InCallback
    BY <2>1 DEF Passed, Elements, InCallback, ConsensusRuns, Current
  <2>6. Held' = Held
    BY <2>3, <2>4, <2>5 DEF Held
  <2>7. QED BY <2>1, <2>5, <2>6, StatusesStay
<1>3. CASE /\ UNCHANGED <<published, handled, queue, batch, process>>
           /\ loop' = loop \/ (loop = "waiting" /\ loop' = "ended")
  <2>1. Passed' = Passed /\ Held' = Held
    BY <1>3 DEF Passed, Held, Elements, InCallback, ConsensusRuns, Current
  <2>2. QED BY <1>3, <2>1, StatusesStay
<1>4. QED BY <1>1, <1>2, <1>3

LEMMA NextLedger ==
    ASSUME IInv, IInv', InOrder, [Next]_vars
    PROVE  [Ledger!Next]_Statuses
<1>1. CASE Execute
    BY <1>1, ExecuteHandsOver
<1>2. CASE QueueForBatch
    BY <1>2, QueueForBatchLedger
<1>3. CASE SubmitImmediate
    BY <1>3, SubmitImmediateLedger
<1>4. CASE SubmitBatch
    BY <1>4, SubmitBatchLedger
<1>5. CASE ReceiveBlock \/ TakeFromQueue
    BY <1>5, OthersLedger
<1>6. CASE /\ UNCHANGED <<published, handled, queue, batch, process>>
           /\ loop' = loop \/ (loop = "waiting" /\ loop' = "ended")
    BY <1>6, OthersLedger
<1>7. CASE SubmitFails
    BY <1>7, SubmitFailsLedger
<1>8. CASE CtrlC
    BY <1>8, CtrlCLedger
<1>9. QED
    BY <1>1, <1>2, <1>3, <1>4, <1>5, <1>6, <1>7, <1>8
    DEF Next, vars, BroadcastFinalized, BroadcastProposed, FinalizationLoop, ReceiveLagged,
        BlockRelay, RelayBlock, RelayLagged, RelayStops, BatchTask, Tick, Shutdown,
        batchV, loopV

\* The tasks of a node, with what they lose and retry, implement the ledger of
\* FinalityLedger: the callback (handle_finalized_block) passes the blocks in
\* order and leaves none out, and a submission publishes all that the node
\* holds up to some block, each block once.
THEOREM LedgerTheorem == Spec => LedgerSpec
<1>1. Init => Ledger!Init
  <2> SUFFICES ASSUME Init, NEW b \in Blocks PROVE Status(b) = "new"
    BY DEF Statuses, Ledger!Init, Ledger!Blocks, Blocks
  <2>1. published = {} /\ Held = {} /\ Passed = {}
    BY DEF Init, Held, Passed, Elements, InCallback
  <2>2. QED BY <2>1 DEF Status
<1>2. IInv /\ InOrder /\ IInv' /\ [Next]_vars => [Ledger!Next]_Statuses
    BY NextLedger
<1>3. QED BY <1>1, <1>2, OrderInvariance, PTL DEF Spec, LedgerSpec, Ledger!Spec

=============================================================================
