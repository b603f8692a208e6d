---------------------------- MODULE MCDownload ----------------------------
(* Download with a few workers; nothing tells one worker from another. *)
EXTENDS Download, TLC

Symmetry == Permutations(Worker)
=============================================================================
