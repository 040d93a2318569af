------------------------------- MODULE MCSpa -------------------------------
(* A small instance of Spa for TLC. *)
EXTENDS Spa, TLC

CONSTANTS viewer, admin

TwoRanks == viewer :> 1 @@ admin :> 3
TwoRequired == "cluster" :> 1 @@ "audit" :> 3
============================================================================
