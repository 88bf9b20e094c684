------------------------------- MODULE MCNode -------------------------------
(* Small instances of Node for TLC. *)
EXTENDS Node

EitherMode == {"batch", "direct"}
=============================================================================
