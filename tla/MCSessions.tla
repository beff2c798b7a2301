----------------------------- MODULE MCSessions -----------------------------
(* The instances of Sessions that TLC checks. *)
EXTENDS Sessions, TLC

\* Requests are interchangeable, and so are session ids.
IdSymmetry == Permutations(Req) \cup Permutations(Session)
=============================================================================
