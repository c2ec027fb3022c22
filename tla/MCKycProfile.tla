---------------------------- MODULE MCKycProfile ----------------------------
(***************************************************************************)
(* Instance for model checking: a registered name "a b", provider records  *)
(* that agree with it (with and without a middle name) or do not, and a    *)
(* list with one entry that only the name with its middle name fits.       *)
(***************************************************************************)
EXTENDS KycProfile

MCRegistered == [first |-> {"a"}, last |-> {"b"}]

MCRecords == {[first |-> {"a"}, middle |-> {}, last |-> {"b"}],
              [first |-> {"a"}, middle |-> {"m"}, last |-> {"b"}],
              [first |-> {"c"}, middle |-> {}, last |-> {"b"}]}

MCWatchlist == {{"a", "m", "b", "i"}}
=============================================================================
