-------------------------- MODULE MCImageTransfer --------------------------
(* A small instance of ImageTransfer: three nodes with images of one, two    *)
(* and three chunks.                                                         *)
EXTENDS ImageTransfer

OneToThree == [r \in Responders |-> CASE r = "n2" -> 1 [] r = "n3" -> 2 [] OTHER -> 3]
============================================================================
