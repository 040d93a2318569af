--------------------------- MODULE MCCoordinator ---------------------------
(* Small instances of Coordinator for TLC. *)
EXTENDS Coordinator, TLC

\* Instances, fiber slots and leases are interchangeable.  FreshLease picks
\* among leases that appear nowhere in the state, so its choice is too.
Interchangeable ==
    Permutations(Instances) \cup Permutations(Slots) \cup Permutations(Leases)

\* A calm network and an operator's row only remove behaviours from the
\* coordinators' safety, and nobody can reign once the bound on reigns is
\* used up: safety is explored up to there.
Unattended == ~calm /\ row.by # Manual /\ ~Exhausted

\* Only an override in the row is ever read back: liveness is checked on the
\* behaviours in which the policy finds nothing to write, and up to the point
\* where the bound on reigns is used up and both properties hold for good.
\* That is after the second reign: the first may be lost in any way, and the
\* cluster must be governed again.
QuietRow == row = NoRow /\ ~Exhausted
Reignable == ~Exhausted
============================================================================
