-------------------------- MODULE MCTransferList ---------------------------
(* Transfers of one batch. *)
EXTENDS TransferList

OneBatch == [t \in Transfers |-> "batch"]

=============================================================================
