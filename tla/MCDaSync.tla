------------------------------ MODULE MCDaSync ------------------------------
(* Small instances of DaSync for TLC. *)
EXTENDS DaSync

\* Three leaders' batches: in order, out of order across Celestia heights,
\* included twice after a lost answer, and with a block that never landed.
SomeLayouts ==
    { << {1}, {2}, {3} >>,
      << {2}, {1, 3}, {} >>,
      << {1, 2}, {1, 2}, {3} >>,
      << {}, {1}, {3} >> }
=============================================================================
