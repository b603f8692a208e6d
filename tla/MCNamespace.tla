---------------------------- MODULE MCNamespace ----------------------------
(* Namespace with two browsers, two threads and two starts. *)
EXTENDS Namespace
=============================================================================
