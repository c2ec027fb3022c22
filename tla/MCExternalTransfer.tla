------------------------- MODULE MCExternalTransfer -------------------------
(***************************************************************************)
(* Instance: a transfer of 2 out of an account that holds 3, with a cap of *)
(* 3, so that refunds and other credits meet the cap.                      *)
(***************************************************************************)
EXTENDS ExternalTransfer

MCOne == {"t1"}
MCTotal == [t \in Transfers |-> 2]
MCAccount0 == [balance |-> 3, status |-> "ACTIVE", version |-> 1]
=============================================================================
