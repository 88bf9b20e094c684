---------------------------- MODULE ReplicatedLog ----------------------------
(***************************************************************************)
(* What the validators promise together: one log of decided blocks, which  *)
(* every validator learns from the beginning and without a gap, and learns *)
(* to its end.  Application without faults implements this specification.  *)
(***************************************************************************)
EXTENDS Naturals, Sequences

CONSTANTS
    Validators,   \* who learns the log
    MaxLength     \* bound: no log gets longer

VARIABLES
    decided,      \* the decided blocks, in order
    logs          \* what each validator has learned of them

vars == <<decided, logs>>

Init ==
    /\ decided = <<>>
    /\ logs = [v \in Validators |-> <<>>]

\* A block is decided once and for all.
Decide ==
    /\ Len(decided) < MaxLength
    /\ \E b \in 1 .. MaxLength :
        /\ \A i \in DOMAIN decided : decided[i] # b
        /\ decided' = Append(decided, b)
    /\ UNCHANGED logs

\* A validator learns the next decided block.
Learn(v) ==
    /\ Len(logs[v]) < Len(decided)
    /\ logs' = [logs EXCEPT ![v] = Append(@, decided[Len(logs[v]) + 1])]
    /\ UNCHANGED decided

Next == Decide \/ \E v \in Validators : Learn(v)

Spec == Init /\ [][Next]_vars

\* Whatever is decided is learned by everyone.
AllLearned ==
    \A i \in 1 .. MaxLength :
        (i <= Len(decided)) ~> (\A v \in Validators : i <= Len(logs[v]))
=============================================================================
