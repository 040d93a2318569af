----------------------------- MODULE FencedRow -----------------------------
(***************************************************************************)
(* What the failover coordinator promises about an appointment row         *)
(* (failover/agent.lua:18-38): one holder reigns at a time, reigns are     *)
(* numbered upwards, and a reign's row is written by nobody else.  No      *)
(* lease, key, call or fiber is in sight here; Coordinator implements it.  *)
(***************************************************************************)
EXTENDS Naturals

CONSTANTS Instances, NoOne, Manual

VARIABLES
    reign,      \* number of the latest reign
    holder,     \* who reigns, or NoOne between two reigns
    term, by    \* the row: the reign it was written in, and who wrote it

vars == <<reign, holder, term, by>>

Init == reign = 0 /\ holder = NoOne /\ term = 0 /\ by = NoOne

Claim(n) ==
    /\ holder = NoOne
    /\ reign' = reign + 1
    /\ holder' = n
    /\ UNCHANGED <<term, by>>

Release ==
    /\ holder # NoOne
    /\ holder' = NoOne
    /\ UNCHANGED <<reign, term, by>>

\* The holder writes the row of its reign.
Appoint(n) ==
    /\ holder = n
    /\ term' = reign
    /\ by' = n
    /\ UNCHANGED <<reign, holder>>

\* An instance without a reign, as an operator always, writes a row of none;
\* an instance can do so only while nobody reigns.
AppointUnfenced(w) ==
    /\ w = Manual \/ holder = NoOne
    /\ term' = 0
    /\ by' = w
    /\ UNCHANGED <<reign, holder>>

Next ==
    \/ \E n \in Instances : Claim(n) \/ Appoint(n)
    \/ Release
    \/ \E w \in Instances \cup {Manual} : AppointUnfenced(w)

Spec == Init /\ [][Next]_vars
=============================================================================
