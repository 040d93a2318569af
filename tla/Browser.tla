------------------------------ MODULE Browser ------------------------------
(* What the page modules share.  The router mounts one page at a time, so one      *)
(* variable holds the refs of the mounted page; requests are in flight between the *)
(* page and the backend and come back in any order.                                *)
EXTENDS Naturals, FiniteSets

CONSTANTS
    MaxFlight     \* bound: requests in flight at a time

VARIABLES
    ui,           \* the refs of the mounted page
    flight,       \* requests without an answer yet
    backend       \* the part of the backend this page is about

pageVars == <<ui, flight, backend>>

\* At most MaxFlight requests travel at a time.
Sends(f) == Cardinality(f) <= MaxFlight /\ flight' = f

\* A query equal to one in flight shares that one's answer.
Queries(q) == Sends(flight \cup {q})

\* Every mutation and every REST call is a request of its own, told apart from an
\* equal one in flight by its number.
Posts(r) ==
    \E i \in 1..MaxFlight :
        /\ Sends(flight \cup {[r EXCEPT !.n = i]})
        /\ [r EXCEPT !.n = i] \notin flight
        /\ \A j \in 1..i - 1 : [r EXCEPT !.n = j] \in flight

Answered(r) == flight' = flight \ {r}

InFlight(op) == {r \in flight : r.op = op}
============================================================================
