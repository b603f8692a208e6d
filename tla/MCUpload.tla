------------------------------ MODULE MCUpload ------------------------------
(* Upload with a few nodes. *)
EXTENDS Upload
=============================================================================
