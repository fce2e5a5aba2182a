----------------------------- MODULE MCSentinel -----------------------------
(* Sentinel on small instances; the sets are given in the .cfg files. *)
EXTENDS Sentinel
=============================================================================
