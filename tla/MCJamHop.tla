------------------------------ MODULE MCJamHop ------------------------------
(* Instances of JamHop for TLC. *)
EXTENDS JamHop
============================================================================
