------------------------- MODULE MCAppointmentPolicy -------------------------
(* Small instances of AppointmentPolicy for TLC. *)
EXTENDS AppointmentPolicy, TLC

CONSTANTS i1, i2

\* failover_priority: [i1, i2], or none.
AFirst == [x \in Aliases |-> IF x = i1 THEN 2 ELSE 1]
=============================================================================
