---------------------------- MODULE MCDeployment ----------------------------
(***************************************************************************)
(* The deployment for TLC.                                                 *)
(***************************************************************************)
EXTENDS Deployment

=============================================================================
