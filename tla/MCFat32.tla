------------------------------- MODULE MCFat32 -------------------------------
(***************************************************************************)
(* Instances of Fat32 for TLC.                                             *)
(***************************************************************************)
EXTENDS Fat32

OneCluster  == <<2>>
TwoClusters == <<2, 5>>
=============================================================================
