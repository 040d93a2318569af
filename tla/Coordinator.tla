---------------------------- MODULE Coordinator ----------------------------
(***************************************************************************)
(* The failover coordinator: src/backend/webui/failover/agent.lua over the *)
(* etcd client src/backend/webui/config_store/etcd.lua.                    *)
(*                                                                         *)
(* Every instance runs one coordinator_loop fiber.  The fiber that creates *)
(* the coordinator key under an etcd lease becomes the coordinator and     *)
(* writes appointment rows, each bound to the key's mod_revision.  One     *)
(* replicaset's row is modelled; every replicaset's row is written by the  *)
(* same code.  Whom a row appoints is left to AppointmentPolicy: here a    *)
(* row is told apart by who wrote it, under which reign.                   *)
(*                                                                         *)
(* A fiber yields exactly at its etcd calls (and at its sleep), so an      *)
(* action here is one run of a fiber from one reply to its next call: it   *)
(* consumes the reply in loc[f], changes STATE, and lets the next call     *)
(* take effect at the store.  Between two such actions any other fiber,    *)
(* another instance, an operator or the store may move.                    *)
(*                                                                         *)
(* A revision of 0 is etcd's own "key absent" and is also what the code    *)
(* sends for a nil witness (`witness_revision or 0`), so 0 stands for nil  *)
(* in coordinator_revision and in a row's term.                            *)
(***************************************************************************)
EXTENDS Naturals, FiniteSets

CONSTANTS
    Instances,  \* aliases of the cluster's instances
    Slots,      \* fibers an instance may have at a time (names of)
    Leases,     \* etcd lease ids
    NoOne,      \* no alias
    NoLease,    \* nil lease_id
    Manual,     \* the `coordinator = 'manual'` tag of an operator's row
    MaxReigns,  \* bound: how often the coordinator key is created
    MaxLate     \* bound: requests the network holds after the caller gave up

ASSUME InstancesAssumption ==
    NoOne \notin Instances /\ Manual \notin Instances /\ Manual # NoOne
ASSUME LeasesAssumption == NoLease \notin Leases
ASSUME BoundsAssumption == MaxReigns \in Nat /\ MaxLate \in Nat

Fibers == Instances \X Slots
Host(f) == f[1]

Aliases == Instances \cup {NoOne}
LeaseIds == Leases \cup {NoLease}
Revisions == 0..MaxReigns

VARIABLES
    \* etcd
    rev,        \* mod_revision of the latest coordinator key ever created
    key,        \* the coordinator key; rev = 0 when absent
    live,       \* leases that have not expired
    row,        \* the replicaset's appointment row
    late,       \* requests whose caller timed out, still on their way
    calm,       \* TRUE once the network and etcd have stopped failing
    \* STATE of each instance
    enabled,    \* STATE.enabled; STATE.stop_flag is its negation once started
    isCoord,    \* STATE.is_coordinator
    leaseId,    \* STATE.lease_id
    coordRev,   \* STATE.coordinator_revision
    stopping,   \* where M.stop is
    \* fibers
    pc,         \* which call the fiber is waiting for
    loc,        \* the fiber's locals and the reply it waits for
    \* history
    highTerm    \* highest term an appointment row ever carried

store == <<rev, key, live, row, late, highTerm>>
state == <<enabled, isCoord, leaseId, coordRev, stopping>>
vars == <<store, calm, state, pc, loc>>

KeyAbsent == [rev |-> 0, alias |-> NoOne, lease |-> NoLease]
NoRow == [term |-> 0, by |-> NoOne, override |-> FALSE]
Blank == [ok |-> FALSE, conflict |-> FALSE, rev |-> 0, alias |-> NoOne,
          lease |-> NoLease]

\* The calls a fiber may be waiting for; "off" is no fiber, "idle" a fiber in
\* wake_cond:wait, whose next step is the loop head.
Waits == {"off", "idle", "read", "grant", "create", "undo", "release",
          "renew", "live", "write"}

Keys == [rev : Revisions, alias : Aliases, lease : LeaseIds]
Rows == [term : Revisions, by : Aliases \cup {Manual}, override : BOOLEAN]
Locals == [ok : BOOLEAN, conflict : BOOLEAN, rev : Revisions,
           alias : Aliases, lease : LeaseIds]
Requests == [op : {"create"}, from : Instances, lease : Leases]
    \cup [op : {"write"}, from : Instances, rev : Revisions]

\* Every variable has its type.
TypeOK ==
    /\ rev \in Revisions
    /\ key \in Keys
    /\ live \subseteq Leases
    /\ row \in Rows
    /\ late \subseteq Requests
    /\ calm \in BOOLEAN
    /\ enabled \in [Instances -> BOOLEAN]
    /\ isCoord \in [Instances -> BOOLEAN]
    /\ leaseId \in [Instances -> LeaseIds]
    /\ coordRev \in [Instances -> Revisions]
    /\ stopping \in [Instances -> {"no", "draining", "revoking"}]
    /\ pc \in [Fibers -> Waits]
    /\ loc \in [Fibers -> Locals]
    /\ highTerm \in Revisions

Init ==
    /\ rev = 0
    /\ key = KeyAbsent
    /\ live = {}
    /\ row = NoRow
    /\ late = {}
    /\ calm = FALSE
    /\ enabled = [n \in Instances |-> FALSE]
    /\ isCoord = [n \in Instances |-> FALSE]
    /\ leaseId = [n \in Instances |-> NoLease]
    /\ coordRev = [n \in Instances |-> 0]
    /\ stopping = [n \in Instances |-> "no"]
    /\ pc = [f \in Fibers |-> "off"]
    /\ loc = [f \in Fibers |-> Blank]
    /\ highTerm = 0

-----------------------------------------------------------------------------
(***************************************************************************)
(* What etcd does with a request.                                          *)
(***************************************************************************)

\* Only one coordinator key is ever created per revision, so etcd's store
\* revision is counted in creations of that key: no other key's revision is
\* compared with anything here.
CanCreate(l) == key.rev = 0 /\ l \in live /\ rev < MaxReigns

\* Mutant: txn_create forgets to bind the key to the lease.
StoreCreateUnleased(n, l) ==
    IF CanCreate(l)
    THEN /\ rev' = rev + 1
         /\ key' = [rev |-> rev + 1, alias |-> n, lease |-> NoLease]
    ELSE UNCHANGED <<rev, key>>

StoreCreate(n, l) ==
    IF CanCreate(l)
    THEN /\ rev' = rev + 1
         /\ key' = [rev |-> rev + 1, alias |-> n, lease |-> l]
    ELSE UNCHANGED <<rev, key>>

\* Mutant: a plain put instead of the conditional one.
StoreWriteBlind(n, witness) ==
    /\ row' = [term |-> witness, by |-> n, override |-> FALSE]
    /\ highTerm' = IF witness > highTerm THEN witness ELSE highTerm

\* put_if_witness_unchanged: the row is written iff the coordinator key's
\* mod_revision equals the witness.
StoreWrite(n, witness) ==
    IF key.rev = witness
    THEN /\ row' = [term |-> witness, by |-> n, override |-> FALSE]
         /\ highTerm' = IF witness > highTerm THEN witness ELSE highTerm
    ELSE UNCHANGED <<row, highTerm>>

\* A lease that ends takes the key bound to it along.
EndLease(l) ==
    /\ live' = live \ {l}
    /\ key' = IF key.lease = l THEN KeyAbsent ELSE key

\* lease_revoke under pcall: its outcome is ignored, and while the network
\* fails it may have no effect.
TryRevoke(l) ==
    \/ EndLease(l)
    \/ ~calm /\ UNCHANGED <<live, key>>

Hold(req) ==
    /\ ~calm
    /\ Cardinality(late) < MaxLate
    /\ late' = late \cup {req}

-----------------------------------------------------------------------------
(***************************************************************************)
(* Steps every fiber shares.                                               *)
(***************************************************************************)

\* The fiber makes its next call and will find locals v when it returns.
Await(f, call, v) ==
    /\ pc' = [pc EXCEPT ![f] = call]
    /\ loc' = [loc EXCEPT ![f] = v]

\* STATE of instance n as a coordinator under lease l at revision r.
Crown(n, c, l, r) ==
    /\ isCoord' = [isCoord EXCEPT ![n] = c]
    /\ leaseId' = [leaseId EXCEPT ![n] = l]
    /\ coordRev' = [coordRev EXCEPT ![n] = r]

StepDown(n) == Crown(n, FALSE, NoLease, 0)

\* The rest of the loop body once ownership is settled: the coordinator of
\* STATE renews its lease, anybody else sleeps.
Renew(f, coordinates, l) ==
    IF ~coordinates
    THEN Await(f, "idle", Blank)
    ELSE \/ l \in live /\ Await(f, "renew", [Blank EXCEPT !.ok = TRUE])
         \/ (~calm \/ l \notin live) /\ Await(f, "renew", Blank)

\* A lease nobody holds, refers to or waits for.  etcd never hands an id out
\* twice; an id that left no trace stands for the fresh one, whichever it is.
Unused(l) ==
    /\ l \notin live
    /\ key.lease # l
    /\ \A n \in Instances : leaseId[n] # l
    /\ \A f \in Fibers : loc[f].lease # l
    /\ \A q \in late : q.op = "create" => q.lease # l

FreshLease ==
    IF \E l \in Leases : Unused(l) THEN {CHOOSE l \in Leases : Unused(l)} ELSE {}

-----------------------------------------------------------------------------
(***************************************************************************)
(* coordinator_loop, one action per call it returns from.                  *)
(***************************************************************************)

\* Mutant: the loop does not look at stop_flag.
LoopTopUnstoppable(f) ==
    /\ pc[f] = "idle"
    /\ \/ Await(f, "read", [Blank EXCEPT !.rev = key.rev, !.alias = key.alias])
       \/ ~calm /\ Await(f, "read", Blank)
    /\ UNCHANGED <<store, calm, state>>

\* The fiber wakes (interval over, watch or M.stop) at the loop head, running:
\* it reads the coordinator key.  A read that fails answers nil, like an
\* absent key; without a client the fiber goes back to sleep.
LoopTop(f) ==
    /\ pc[f] = "idle"
    /\ enabled[Host(f)]
    /\ \/ Await(f, "read", [Blank EXCEPT !.rev = key.rev, !.alias = key.alias])
       \/ ~calm /\ Await(f, "read", Blank)
    /\ UNCHANGED <<store, calm, state>>

\* Loop head after stop: release_lease forgets the lease and revokes it, and
\* the fiber ends.
LoopExit(f) ==
    /\ pc[f] = "idle"
    /\ ~enabled[Host(f)]
    /\ IF leaseId[Host(f)] = NoLease
       THEN UNCHANGED <<isCoord, leaseId, coordRev, live, key>>
       ELSE StepDown(Host(f)) /\ TryRevoke(leaseId[Host(f)])
    /\ Await(f, "off", Blank)
    /\ UNCHANGED <<rev, row, late, highTerm, calm, enabled, stopping>>

\* No key (or no answer): claim the vacancy, first by a lease of its own.
OnVacancy(f) ==
    /\ pc[f] = "read"
    /\ loc[f].rev = 0
    /\ \/ \E l \in FreshLease :
            /\ live' = live \cup {l}
            /\ \/ Await(f, "grant", [Blank EXCEPT !.lease = l])
               \/ ~calm /\ Await(f, "grant", Blank)
       \/ ~calm /\ live' = live /\ Await(f, "grant", Blank)
    /\ UNCHANGED <<rev, key, row, late, highTerm, calm, state>>

\* Mutant: a lease in STATE is taken for ownership, whatever the key names.
OnOwnLease(f) ==
    /\ pc[f] = "read"
    /\ loc[f].rev # 0
    /\ leaseId[Host(f)] # NoLease
    /\ Crown(Host(f), TRUE, leaseId[Host(f)], loc[f].rev)
    /\ Renew(f, TRUE, leaseId[Host(f)])
    /\ UNCHANGED <<store, calm, enabled, stopping>>

\* The key names this instance and STATE holds a lease: refresh the witness.
OnOwnKey(f) ==
    /\ pc[f] = "read"
    /\ loc[f].rev # 0
    /\ loc[f].alias = Host(f)
    /\ leaseId[Host(f)] # NoLease
    /\ Crown(Host(f), TRUE, leaseId[Host(f)], loc[f].rev)
    /\ Renew(f, TRUE, leaseId[Host(f)])
    /\ UNCHANGED <<store, calm, enabled, stopping>>

\* The key names somebody else, or this instance without a lease in STATE:
\* drop the role, and the lease if there is one.
OnOtherKey(f) ==
    /\ pc[f] = "read"
    /\ loc[f].rev # 0
    /\ loc[f].alias # Host(f) \/ leaseId[Host(f)] = NoLease
    /\ IF leaseId[Host(f)] # NoLease
       THEN /\ StepDown(Host(f))
            /\ TryRevoke(leaseId[Host(f)])
            /\ Await(f, "release", Blank)
       ELSE /\ isCoord' = [isCoord EXCEPT ![Host(f)] = FALSE]
            /\ UNCHANGED <<leaseId, coordRev, live, key>>
            /\ Await(f, "idle", Blank)
    /\ UNCHANGED <<rev, row, late, highTerm, calm, enabled, stopping>>

OnReleased(f) ==
    /\ pc[f] = "release"
    /\ Renew(f, isCoord[Host(f)], leaseId[Host(f)])
    /\ UNCHANGED <<store, calm, state>>

\* lease_grant failed: the claim is over, STATE is as it was.
OnGrantRefused(f) ==
    /\ pc[f] = "grant"
    /\ loc[f].lease = NoLease
    /\ Renew(f, isCoord[Host(f)], leaseId[Host(f)])
    /\ UNCHANGED <<store, calm, state>>

\* lease_grant answered: txn_create the key.  The call may be lost before or
\* after it takes effect, or take effect long after the caller gave up.
OnGranted(f) ==
    LET l == loc[f].lease
        won == [Blank EXCEPT !.lease = l, !.rev = rev + 1]
        failed == [Blank EXCEPT !.lease = l]
        req == [op |-> "create", from |-> Host(f), lease |-> l]
    IN  /\ pc[f] = "grant"
        /\ l # NoLease
        /\ \/ /\ StoreCreate(Host(f), l)
              /\ late' = late
              /\ \/ CanCreate(l) /\ Await(f, "create", won)
                 \/ (~calm \/ ~CanCreate(l)) /\ Await(f, "create", failed)
           \/ /\ ~calm /\ UNCHANGED <<rev, key, late>>
              /\ Await(f, "create", failed)
           \/ /\ Hold(req) /\ UNCHANGED <<rev, key>>
              /\ Await(f, "create", failed)
        /\ UNCHANGED <<live, row, highTerm, calm, state>>

\* Mutant: the lease id and the revision change places in STATE.
OnCreatedSwapped(f) ==
    /\ pc[f] = "create"
    /\ loc[f].rev # 0
    /\ Crown(Host(f), TRUE, loc[f].rev, loc[f].lease)
    /\ Renew(f, TRUE, loc[f].lease)
    /\ UNCHANGED <<store, calm, enabled, stopping>>

\* txn_create succeeded: this instance is the coordinator.
OnCreated(f) ==
    /\ pc[f] = "create"
    /\ loc[f].rev # 0
    /\ Crown(Host(f), TRUE, loc[f].lease, loc[f].rev)
    /\ Renew(f, TRUE, loc[f].lease)
    /\ UNCHANGED <<store, calm, enabled, stopping>>

\* txn_create did not answer success: revoke the fresh lease.
OnCreateFailed(f) ==
    /\ pc[f] = "create"
    /\ loc[f].rev = 0
    /\ TryRevoke(loc[f].lease)
    /\ Await(f, "undo", Blank)
    /\ UNCHANGED <<rev, row, late, highTerm, calm, state>>

OnUndone(f) ==
    /\ pc[f] = "undo"
    /\ Renew(f, isCoord[Host(f)], leaseId[Host(f)])
    /\ UNCHANGED <<store, calm, state>>

\* Mutant: the error of the failed keepalive ends the fiber.
OnNotRenewedFatal(f) ==
    /\ pc[f] = "renew"
    /\ ~loc[f].ok
    /\ StepDown(Host(f))
    /\ Await(f, "off", Blank)
    /\ UNCHANGED <<store, calm, enabled, stopping>>

\* lease_keepalive failed or says the lease is gone: step down, no revoke.
OnNotRenewed(f) ==
    /\ pc[f] = "renew"
    /\ ~loc[f].ok
    /\ StepDown(Host(f))
    /\ Await(f, "idle", Blank)
    /\ UNCHANGED <<store, calm, enabled, stopping>>

\* The lease is renewed: appointment_cycle.  Paused, or with nothing to probe,
\* it ends; otherwise the live row is read, and a read that fails answers nil.
\* The reads before the row's (pause, probes, disabled set, priorities) leave
\* nothing behind that this module tells apart.
OnRenewed(f) ==
    /\ pc[f] = "renew"
    /\ loc[f].ok
    /\ \/ Await(f, "idle", Blank)
       \/ Await(f, "live", [Blank EXCEPT !.ok = row.override])
       \/ ~calm /\ Await(f, "live", Blank)
    /\ UNCHANGED <<store, calm, state>>

\* The row carries a manual override that has not expired: leave it alone.
OnOverride(f) ==
    /\ pc[f] = "live"
    /\ loc[f].ok
    /\ Await(f, "idle", Blank)
    /\ UNCHANGED <<store, calm, state>>

\* No override: whom the policy picks (AppointmentPolicy), or nobody.
\* write_appointment reads coordinator_revision only now, for the row's term
\* and for the witness of the conditional put.
OnNoOverride(f) ==
    LET n == Host(f)
        witness == coordRev[n]
        req == [op |-> "write", from |-> n, rev |-> witness]
    IN  /\ pc[f] = "live"
        /\ ~loc[f].ok
        /\ \/ /\ Await(f, "idle", Blank)
              /\ UNCHANGED <<row, highTerm, late>>
           \/ /\ StoreWrite(n, witness)
              /\ late' = late
              /\ \/ /\ key.rev = witness
                    /\ Await(f, "write", [Blank EXCEPT !.ok = TRUE])
                 \/ /\ key.rev # witness
                    /\ Await(f, "write", [Blank EXCEPT !.conflict = TRUE])
                 \/ ~calm /\ Await(f, "write", Blank)
           \/ /\ ~calm /\ UNCHANGED <<row, highTerm, late>>
              /\ Await(f, "write", Blank)
           \/ /\ Hold(req) /\ UNCHANGED <<row, highTerm>>
              /\ Await(f, "write", Blank)
        /\ UNCHANGED <<rev, key, live, calm, state>>

\* commit_appointment after the put: step down on a CAS conflict; success and
\* any other error leave the role as it is.
OnWritten(f) ==
    /\ pc[f] = "write"
    /\ IF loc[f].conflict
       THEN StepDown(Host(f))
       ELSE UNCHANGED <<isCoord, leaseId, coordRev>>
    /\ Await(f, "idle", Blank)
    /\ UNCHANGED <<store, calm, enabled, stopping>>

FiberStep(f) ==
    \/ LoopTop(f) \/ LoopExit(f)
    \/ OnVacancy(f) \/ OnOwnKey(f) \/ OnOtherKey(f) \/ OnReleased(f)
    \/ OnGrantRefused(f) \/ OnGranted(f)
    \/ OnCreated(f) \/ OnCreateFailed(f) \/ OnUndone(f)
    \/ OnNotRenewed(f) \/ OnRenewed(f)
    \/ OnOverride(f) \/ OnNoOverride(f) \/ OnWritten(f)

-----------------------------------------------------------------------------
(***************************************************************************)
(* Role start and stop, crashes, operators, and etcd on its own.           *)
(***************************************************************************)

\* M.start: a new loop fiber over a reset STATE.
Start(n) ==
    /\ ~enabled[n]
    /\ stopping[n] = "no"
    /\ \E s \in Slots :
         /\ pc[<<n, s>>] = "off"
         /\ Await(<<n, s>>, "idle", Blank)
    /\ enabled' = [enabled EXCEPT ![n] = TRUE]
    /\ StepDown(n)
    /\ UNCHANGED <<store, calm, stopping>>

\* The last part of M.stop: revoke the lease if STATE says coordinator.
RevokeOnStop(n) ==
    IF isCoord[n] /\ leaseId[n] # NoLease
    THEN /\ TryRevoke(leaseId[n])
         /\ stopping' = [stopping EXCEPT ![n] = "revoking"]
    ELSE /\ UNCHANGED <<live, key>>
         /\ stopping' = [stopping EXCEPT ![n] = "no"]

\* M.stop{reload = true} goes straight to the revoke; a full stop drains the
\* synchro queue first and yields there.
Stop(n) ==
    /\ enabled[n]
    /\ stopping[n] = "no"
    /\ enabled' = [enabled EXCEPT ![n] = FALSE]
    /\ \/ RevokeOnStop(n)
       \/ /\ stopping' = [stopping EXCEPT ![n] = "draining"]
          /\ UNCHANGED <<live, key>>
    /\ UNCHANGED <<rev, row, late, highTerm, calm, isCoord, leaseId, coordRev,
                   pc, loc>>

StopDrained(n) ==
    /\ stopping[n] = "draining"
    /\ RevokeOnStop(n)
    /\ UNCHANGED <<rev, row, late, highTerm, calm, enabled, isCoord, leaseId,
                   coordRev, pc, loc>>

StopRevoked(n) ==
    /\ stopping[n] = "revoking"
    /\ StepDown(n)
    /\ stopping' = [stopping EXCEPT ![n] = "no"]
    /\ UNCHANGED <<store, calm, enabled, pc, loc>>

\* The process dies: its memory and fibers are gone, its lease lives on.
Crash(n) ==
    /\ ~calm
    /\ enabled' = [enabled EXCEPT ![n] = FALSE]
    /\ StepDown(n)
    /\ stopping' = [stopping EXCEPT ![n] = "no"]
    /\ pc' = [f \in Fibers |-> IF Host(f) = n THEN "off" ELSE pc[f]]
    /\ loc' = [f \in Fibers |-> IF Host(f) = n THEN Blank ELSE loc[f]]
    /\ UNCHANGED <<store, calm>>

\* appoint_manually: a plain put, no witness and no term.
AppointManually ==
    /\ row' = [term |-> 0, by |-> Manual, override |-> TRUE]
    /\ UNCHANGED <<rev, key, live, late, highTerm, calm, state, pc, loc>>

\* manual_override_until passes.
OverrideLapses ==
    /\ row.override
    /\ row' = [row EXCEPT !.override = FALSE]
    /\ UNCHANGED <<rev, key, live, late, highTerm, calm, state, pc, loc>>

\* No instance holds the lease in STATE or in a claim.
Abandoned(l) ==
    /\ \A n \in Instances : leaseId[n] # l
    /\ \A f \in Fibers : loc[f].lease # l

\* A lease ends without a keepalive and the holder is not told.  Once calm,
\* a held lease is renewed in time and only an abandoned one ends.
LeaseExpires(l) ==
    /\ l \in live
    /\ calm => Abandoned(l)
    /\ EndLease(l)
    /\ UNCHANGED <<rev, row, late, highTerm, calm, state, pc, loc>>

\* A request whose caller gave up reaches etcd after all, or never does.
LateArrives(q) ==
    /\ late' = late \ {q}
    /\ \/ UNCHANGED <<rev, key, row, highTerm>>
       \/ q.op = "create" /\ StoreCreate(q.from, q.lease)
                          /\ UNCHANGED <<row, highTerm>>
       \/ q.op = "write" /\ StoreWrite(q.from, q.rev)
                         /\ UNCHANGED <<rev, key>>
    /\ UNCHANGED <<live, calm, state, pc, loc>>

\* From here on no call fails, no process crashes and no fiber is held up for
\* as long as a lease's TTL.
Calms ==
    /\ ~calm
    /\ calm' = TRUE
    /\ UNCHANGED <<store, state, pc, loc>>

Next ==
    \/ \E f \in Fibers : FiberStep(f)
    \/ \E n \in Instances : Start(n) \/ Stop(n) \/ StopDrained(n)
                            \/ StopRevoked(n) \/ Crash(n)
    \/ AppointManually
    \/ OverrideLapses
    \/ \E l \in Leases : LeaseExpires(l)
    \/ \E q \in late : LateArrives(q)
    \/ Calms

Spec == Init /\ [][Next]_vars

-----------------------------------------------------------------------------
(***************************************************************************)
(* Safety.                                                                 *)
(***************************************************************************)

\* A term in the row is the highest term any row ever carried, whatever late
\* or stale write arrived last: the watchers' `term < last_applied_term` test
\* (fencing.appointment_is_stale) never meets a current row it must ignore.
NewestTerm == row.term # 0 => row.term = highTerm

\* Only the instance named in the live coordinator key holds its revision as
\* a witness, in STATE, in a fiber or in a request on its way: the conditional
\* put can let no one else through.
OneWriter ==
    key.rev # 0 =>
        /\ \A n \in Instances : coordRev[n] = key.rev => n = key.alias
        /\ \A f \in Fibers :
             pc[f] = "create" /\ loc[f].rev = key.rev => Host(f) = key.alias
        /\ \A q \in late :
             q.op = "write" /\ q.rev = key.rev => q.from = key.alias

\* A coordinator's step never writes the row while the key names another
\* instance ("A stale coordinator that wakes up after its lease expired cannot
\* overwrite the new coordinator's appointments", agent.lua:20-21).
NoForeignWrite ==
    [][ /\ <<row'.term, row'.by>> # <<row.term, row.by>>
        /\ row'.by \in Instances
        => key.rev = 0 \/ key.alias = row'.by ]_vars

\* The coordinator implements the fenced row: whatever leases, lost replies,
\* late requests and restarts do, the store shows numbered reigns whose row
\* only their holder writes (the CAS of write_appointment).
Fenced == INSTANCE FencedRow
    WITH reign <- rev, holder <- key.alias, term <- row.term, by <- row.by
ImplementsFencedRow == Fenced!Spec

\* A lease in STATE that is still alive is the one the coordinator key hangs on,
\* and the key names its holder: a keepalive that succeeds, which is all the
\* appointment cycle waits for, means that the key is still this instance's, and
\* the revoke of M.stop frees it ("if we hold the coordinator lease, revoke it
\* here so a surviving peer can claim the vacancy", agent.lua:909-911).
LeaseBacksReign ==
    \A n \in Instances :
        leaseId[n] \in live =>
            key.rev # 0 /\ key.alias = n /\ key.lease = leaseId[n]

\* Every row a coordinator wrote carries the term of its reign
\* ("every appointment write is CAS-bound to the coordinator key's
\* mod_revision", agent.lua:18-19).
FencedAppointments == row.by \in Instances => row.term # 0

-----------------------------------------------------------------------------
(***************************************************************************)
(* Liveness.  Fibers run and every call returns (the client has a timeout); *)
(* a stop finishes; a lease that no instance holds in STATE or in a claim   *)
(* gets no keepalive and expires.  Nothing makes the network calm, and      *)
(* nothing starts or stops an instance.                                     *)
(***************************************************************************)

Fairness ==
    /\ \A f \in Fibers : WF_vars(FiberStep(f))
    /\ \A n \in Instances : WF_vars(StopDrained(n) \/ StopRevoked(n))
    /\ \A l \in Leases : WF_vars(Abandoned(l) /\ LeaseExpires(l))

FairSpec == Spec /\ Fairness

\* The model's last reign is over: no key can be created any more.  With two
\* reigns or more, what follows the loss of a reign is within the bound.
Exhausted == rev = MaxReigns /\ key.rev = 0

\* The live key's holder knows its reign and drives it.
Governed ==
    \E n \in Instances :
        /\ key.rev # 0 /\ key.alias = n
        /\ enabled[n] /\ isCoord[n] /\ coordRev[n] = key.rev

\* Once the network is calm, an instance that stays up sees the cluster
\* governed: no lost reply, orphaned key, crash or half-done claim leaves the
\* key held by nobody who writes under it.
EventuallyGoverned ==
    \A n \in Instances :
        calm /\ enabled[n] ~> Governed \/ ~enabled[n] \/ Exhausted

\* A stopped instance does not keep the coordinator key, even when it was
\* stopped half-way through a claim (M.stop revokes only what STATE knows).
StoppedLeavesKey ==
    \A n \in Instances :
        calm /\ ~enabled[n] ~> key.alias # n \/ enabled[n]
=============================================================================
