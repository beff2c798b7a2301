---------------------------- MODULE MCAdminList ----------------------------
(* The instances of AdminList that TLC checks. *)
EXTENDS AdminList, TLC

\* Requests are interchangeable.
ReqSymmetry == Permutations(Req)
=============================================================================
