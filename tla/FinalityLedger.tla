--------------------------- MODULE FinalityLedger ---------------------------
(***************************************************************************)
(* What the submission of blocks to Celestia promises, whatever is lost    *)
(* and retried on the way: blocks are handed over in order and published   *)
(* in that order, several at a time, and each of them is published and     *)
(* confirmed once.  Blocks can be abandoned, only before they have been    *)
(* published, and never a block without those handed over before it: what  *)
(* is published after a loss was handed over after what was lost.          *)
(* DaSubmission implements this specification, and so does Node for the    *)
(* tasks on the way there, which sees no confirmation.                     *)
(***************************************************************************)
EXTENDS Naturals

CONSTANT MaxBlock

Blocks == 1 .. MaxBlock
Statuses == {"new", "handed", "abandoned", "included", "confirmed"}

VARIABLE status   \* of each block

Init == status = [b \in Blocks |-> "new"]

\* Nothing before this block is still to come, and nothing after it has.
HandOver(b) ==
    /\ status[b] = "new"
    /\ \A c \in 1 .. b - 1 : status[c] # "new"
    /\ \E s \in {"handed", "abandoned"} : status' = [status EXCEPT ![b] = s]

\* All that was handed over up to some block is lost.
Abandon(last) ==
    /\ status[last] = "handed"
    /\ status' = [b \in Blocks |->
                    IF b <= last /\ status[b] = "handed" THEN "abandoned" ELSE status[b]]

\* One blob: all that was handed over up to some block.
Publish(last) ==
    /\ status[last] = "handed"
    /\ status' = [b \in Blocks |->
                    IF b <= last /\ status[b] = "handed" THEN "included" ELSE status[b]]

Confirm(b) ==
    /\ status[b] = "included"
    /\ status' = [status EXCEPT ![b] = "confirmed"]

Next == \E b \in Blocks : HandOver(b) \/ Abandon(b) \/ Publish(b) \/ Confirm(b)

Spec == Init /\ [][Next]_status
=============================================================================
