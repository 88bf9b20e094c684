---------------------------- MODULE MCForkchoice ----------------------------
(* Small instances of Forkchoice for TLC; the cfg files give the values.    *)
EXTENDS Forkchoice
=============================================================================
