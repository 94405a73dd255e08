--------------------------- MODULE MCNonceCache ---------------------------
(* Small instances of NonceCache: one registered sender, one unknown. *)
EXTENDS NonceCache

MCSenders == {1, 9}
MCKnown == {1}
===========================================================================
