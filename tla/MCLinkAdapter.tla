---------------------------- MODULE MCLinkAdapter ----------------------------
(* Instances of LinkAdapter for TLC. *)
EXTENDS LinkAdapter
============================================================================
