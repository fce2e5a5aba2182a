-------------------------- MODULE MCBrainSentinel --------------------------
(* BrainSentinel on small instances; the sets are given in the .cfg files. *)
EXTENDS BrainSentinel
=============================================================================
