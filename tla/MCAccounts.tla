----------------------------- MODULE MCAccounts -----------------------------
(* The instances of Accounts that TLC checks. *)
EXTENDS Accounts, TLC

\* Requests are interchangeable.
ReqSymmetry == Permutations(Req)
=============================================================================
