--------------------------- MODULE MCTxScheduler ---------------------------
(* Small instance of TxScheduler: the four priorities, two calling tasks. *)
EXTENDS TxScheduler

MCPriorities == 0 .. 3
============================================================================
