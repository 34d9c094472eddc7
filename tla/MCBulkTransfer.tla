--------------------------- MODULE MCBulkTransfer ---------------------------
(* BulkTransfer for TLC: its constants are numbers, given in the .cfg. *)
EXTENDS BulkTransfer
=============================================================================
