---------------------------- MODULE MCDeployment -----------------------------
(* A first Factory and two candidates.                                     *)
EXTENDS Deployment

CONSTANTS f0, c1, c2
=============================================================================
