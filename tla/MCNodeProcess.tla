--------------------------- MODULE MCNodeProcess ---------------------------
(* NodeProcess as it is: its constants are sets of model values and numbers. *)
EXTENDS NodeProcess
=============================================================================
