---------------------------- MODULE MCDeployment ----------------------------
(* The instances of Deployment that TLC checks. *)
EXTENDS Deployment, TLC

\* Processes are interchangeable.
ProcSymmetry == Permutations(Proc)
=============================================================================
