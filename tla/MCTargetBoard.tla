--------------------------- MODULE MCTargetBoard ---------------------------
(* Small instances of TargetBoard: n1 originates, n2 and n3 receive. *)
EXTENDS TargetBoard, TLC

CONSTANTS n1, n2, n3

Receivers == Permutations({n2, n3})
============================================================================
