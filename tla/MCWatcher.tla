------------------------------ MODULE MCWatcher ------------------------------
(* Small instances of Watcher for TLC. *)
EXTENDS Watcher, TLC

Opt(ttl, safety, probe, watchdog, failsafe) ==
    [ttl |-> ttl, safety |-> safety, probe |-> probe, watchdog |-> watchdog,
     failsafe |-> failsafe]

\* One tick stands for the shortest probe interval.  As with the defaults (ttl 20,
\* safety 5, probe 3, failsafe poll 2), renew_deadline comes one probe and
\* one failsafe poll before ttl.  TwoTimings has the longer timing with the
\* watchdog and without it, since the watchdog would hide a late fence.
TwoTimings == {Opt(3, 2, 1, TRUE, TRUE), Opt(5, 3, 2, TRUE, FALSE),
               Opt(5, 3, 2, FALSE, TRUE)}
OnAndOff == {Opt(3, 2, 1, TRUE, TRUE), Opt(3, 2, 1, FALSE, FALSE)}

\* Fiber names of one kind are interchangeable, and all kinds share them.
Interchangeable == Permutations(Slots)
=============================================================================
