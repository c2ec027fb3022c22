--------------------------- MODULE MCTransferPage ---------------------------
(***************************************************************************)
(* Instances of TransferPage for TLC.                                      *)
(***************************************************************************)
EXTENDS TransferPage, TLC

\* One amount below the minimum, two above it, one with kobo.
MCKobos == {9999, 10000, 12345}
=============================================================================
