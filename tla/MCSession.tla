------------------------------ MODULE MCSession ------------------------------
(***************************************************************************)
(* SessionMemory on small instances.                                       *)
(***************************************************************************)
EXTENDS SessionMemory

=============================================================================
