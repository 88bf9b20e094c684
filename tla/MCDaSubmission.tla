--------------------------- MODULE MCDaSubmission ---------------------------
(* Small instances of DaSubmission for TLC. *)
EXTENDS DaSubmission

\* The second block is large enough to trigger a submission by itself.
MixedSizes == <<1, 3, 1>>

Batches == {"wait"}
EitherMode == {"wait", "none"}
=============================================================================
