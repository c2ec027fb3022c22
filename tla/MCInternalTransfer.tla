------------------------- MODULE MCInternalTransfer -------------------------
(***************************************************************************)
(* Instance: t1 and t2 cross between a and b, t3 goes on from b to c, so   *)
(* that transfers compete for a source, for a destination and in a lock    *)
(* cycle; the cap of 4 is within reach of b.                               *)
(***************************************************************************)
EXTENDS InternalTransfer

MCAccounts == {"a", "b", "c"}
MCTransfers == {"t1", "t2", "t3"}
MCPair == {"t1", "t2"}
MCSource == [t \in Transfers |-> IF t = "t1" THEN "a" ELSE "b"]
MCDestination == [t \in Transfers |-> CASE t = "t1" -> "b" [] t = "t2" -> "a" [] t = "t3" -> "c"]
MCAmount == [t \in Transfers |-> IF t = "t1" THEN 2 ELSE 1]
MCRow0 == [x \in Accounts |-> [balance |-> IF x = "c" THEN 0 ELSE 2, status |-> "ACTIVE",
                               version |-> 1]]
=============================================================================
