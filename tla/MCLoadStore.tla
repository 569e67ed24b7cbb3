----------------------------- MODULE MCLoadStore -----------------------------
(* The questions of a plugin about one memory instruction, on their own.     *)
EXTENDS LoadStore

Spec == LoadStoreInit /\ [][LoadStoreNext]_ldstVars
=============================================================================
