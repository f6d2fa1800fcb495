---------------------------- MODULE MCDeployment ----------------------------
(***************************************************************************)
(* Constants for the runs of Deployment.                                   *)
(***************************************************************************)
EXTENDS Deployment, TLC

CONSTANTS c1, c2, c3

(* c2 is of the next release, which adds a file. *)
MCFiles == (c1 :> 2) @@ (c2 :> 3) @@ (c3 :> 3)

===============================================================================
