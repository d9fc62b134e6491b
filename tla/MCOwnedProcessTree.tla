-------------------------- MODULE MCOwnedProcessTree --------------------------
(***************************************************************************)
(* OwnedProcessTree with a few processes and fewer numbers than processes. *)
(***************************************************************************)
EXTENDS OwnedProcessTree

ThreePids == 1 .. 3
=============================================================================
