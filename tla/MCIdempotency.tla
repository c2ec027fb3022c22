---------------------------- MODULE MCIdempotency ----------------------------
(***************************************************************************)
(* Instance for model checking: every constant gets its value in the cfg.  *)
(***************************************************************************)
EXTENDS Idempotency
=============================================================================
