------------------------------ MODULE MCTeams ------------------------------
(* Teams on small instances.                                               *)
EXTENDS Teams, TLC

RequestSymmetry == Permutations(Requests)
=============================================================================
