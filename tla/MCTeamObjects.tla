---------------------------- MODULE MCTeamObjects ----------------------------
(***************************************************************************)
(* The runs check liveness, so they use no symmetry.                       *)
(***************************************************************************)
EXTENDS TeamObjectsProps

=============================================================================
