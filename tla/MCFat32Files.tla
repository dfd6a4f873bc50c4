----------------------------- MODULE MCFat32Files -----------------------------
(***************************************************************************)
(* An instance of Fat32Files for TLC.  Nothing in it tells one name or one *)
(* payload from another.                                                   *)
(***************************************************************************)
EXTENDS Fat32Files, TLC

TwoClusters == <<2, 5>>

Alike == Permutations(DottedNames) \union Permutations(Payloads)
=============================================================================
