--------------------------- MODULE TransferEntity ---------------------------
(***************************************************************************)
(* The Transfer aggregate and its repository's version test.  Of a row we  *)
(* keep the status, the version and whether the provider's reference has   *)
(* been stored, which is how a webhook finds the transfer.  Status "NONE"  *)
(* stands for a row that does not exist yet.                               *)
(*                                                                         *)
(* MaySaveTransferAnyVersion is a plausible mistake in the code of the     *)
(* definition below it; no behaviour uses it.                              *)
(***************************************************************************)
EXTENDS Integers

TransactionStatus ==
  {"PENDING", "PROCESSING", "SUCCESSFUL", "FAILED", "REVERSED", "CANCELLED"}

TransferRow == [status: TransactionStatus \cup {"NONE"}, version: Nat, ref: BOOLEAN]

NoTransfer == [status |-> "NONE", version |-> 0, ref |-> FALSE]

\* Transfer.initiateInternal / initiateExternal
Initiated == [status |-> "PENDING", version |-> 0, ref |-> FALSE]

\* TERMINAL_STATUSES; every mark... method starts with assertNotTerminal.
TerminalStatuses == {"SUCCESSFUL", "FAILED", "REVERSED", "CANCELLED"}
Terminal(x) == x.status \in TerminalStatuses

Marked(x, s) == [status |-> s, version |-> x.version + 1, ref |-> x.ref]

MarkedProcessing(x) == [status |-> "PROCESSING", version |-> x.version + 1, ref |-> TRUE]
MarkedSuccessful(x) == Marked(x, "SUCCESSFUL")
MarkedFailed(x)     == Marked(x, "FAILED")
MarkedReversed(x)   == Marked(x, "REVERSED")

(***************************************************************************)
(* PrismaTransferRepository.save: the conditional update matches the       *)
(* previous version, or there is no row yet and one is created.            *)
(***************************************************************************)
MaySaveTransferAnyVersion(row, x) == TRUE
MaySaveTransfer(row, x) == row.status = "NONE" \/ row.version = x.version - 1
=============================================================================
