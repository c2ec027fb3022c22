---------------------------- MODULE AccountEntity ----------------------------
(***************************************************************************)
(* The Account aggregate (modules/accounts/domain/entities) and the one    *)
(* rule its repository adds: a write is accepted only against the version  *)
(* the aggregate was loaded at.  A row keeps what the properties tell      *)
(* apart: the balance in minor units, the status and the version.  The     *)
(* owner, account number, type and timestamps never influence an           *)
(* operation.  Rows have one currency: an amount or account in another one *)
(* is an input that the callers refuse (assertCurrencyMatches).            *)
(*                                                                         *)
(* MaySaveAnyVersion is a plausible mistake in the code of the definition  *)
(* below it; no behaviour uses it.                                         *)
(***************************************************************************)
EXTENDS Integers

AccountStatus == {"ACTIVE", "DORMANT", "FROZEN", "CLOSED", "PENDING_VERIFICATION"}

AccountRow == [balance: Nat, status: AccountStatus, version: Nat]

Opened == [balance |-> 0, status |-> "PENDING_VERIFICATION", version |-> 0]

(***************************************************************************)
(* Guards of the mutators: assertOperable, sufficient funds, zero balance. *)
(***************************************************************************)
Operable(acct) == acct.status = "ACTIVE"

CanDebit(acct, m) == Operable(acct) /\ acct.balance >= m

CanClose(acct) == acct.balance = 0

(***************************************************************************)
(* The mutators, each ending in touch().  Only credit and debit look at    *)
(* the status: activate, unfreeze, freeze and close set it from whatever   *)
(* it was.                                                                 *)
(***************************************************************************)
Touched(acct, b, s) == [balance |-> b, status |-> s, version |-> acct.version + 1]

WithStatus(acct, s) == Touched(acct, acct.balance, s)

Activated(acct) == WithStatus(acct, "ACTIVE")
Frozen(acct)    == WithStatus(acct, "FROZEN")
Unfrozen(acct)  == WithStatus(acct, "ACTIVE")
Closed(acct)    == WithStatus(acct, "CLOSED")

Credited(acct, m) == Touched(acct, acct.balance + m, acct.status)
Debited(acct, m)  == Touched(acct, acct.balance - m, acct.status)

(***************************************************************************)
(* PrismaAccountRepository.save on an existing row: the conditional        *)
(* update matches only if the stored version is the one before acct's.     *)
(***************************************************************************)
MaySaveAnyVersion(row, acct) == TRUE
MaySave(row, acct) == row.version = acct.version - 1
=============================================================================
