------------------------- MODULE CoordinatorProofs -------------------------
(***************************************************************************)
(* Proofs about Coordinator: type correctness and, from one inductive      *)
(* invariant, the fencing of the appointment row.                          *)
(***************************************************************************)
EXTENDS Coordinator, TLAPS

\* The parts of TypeOK about etcd, about STATE and about the fibers.
StoreOK ==
    /\ rev \in Revisions
    /\ key \in Keys
    /\ live \subseteq Leases
    /\ row \in Rows
    /\ late \subseteq Requests
    /\ highTerm \in Revisions
StateOK ==
    /\ enabled \in [Instances -> BOOLEAN]
    /\ isCoord \in [Instances -> BOOLEAN]
    /\ leaseId \in [Instances -> LeaseIds]
    /\ coordRev \in [Instances -> Revisions]
    /\ stopping \in [Instances -> {"no", "draining", "revoking"}]
FibersOK ==
    /\ pc \in [Fibers -> Waits]
    /\ loc \in [Fibers -> Locals]

LEMMA TypeParts == TypeOK <=> StoreOK /\ StateOK /\ FibersOK /\ calm \in BOOLEAN
BY DEF TypeOK, StoreOK, StateOK, FibersOK

LEMMA BlankTyped == Blank \in Locals
BY BoundsAssumption DEF Blank, Locals, Revisions, Aliases, LeaseIds

LEMMA HostTyped == \A f \in Fibers : Host(f) \in Instances
BY DEF Fibers, Host

\* Await keeps the fibers typed when it is given a wait and typed locals.
LEMMA AwaitTyped ==
    ASSUME FibersOK, NEW f \in Fibers, NEW call \in Waits, NEW v \in Locals,
           Await(f, call, v)
    PROVE  FibersOK'
BY DEF FibersOK, Await

LEMMA CrownTyped ==
    ASSUME StateOK, NEW n \in Instances, NEW c \in BOOLEAN, NEW l \in LeaseIds,
           NEW r \in Revisions, Crown(n, c, l, r),
           enabled' = enabled, stopping' = stopping
    PROVE  StateOK'
BY DEF StateOK, Crown

LEMMA RenewTyped ==
    ASSUME FibersOK, NEW f \in Fibers, NEW c, NEW l, Renew(f, c, l)
    PROVE  FibersOK'
<1>1. [Blank EXCEPT !.ok = TRUE] \in Locals
  BY BlankTyped DEF Locals, Blank
<1>2. QED
  BY <1>1, BlankTyped, AwaitTyped DEF Renew, Waits

LEMMA EndLeaseTyped ==
    ASSUME key \in Keys, live \subseteq Leases, NEW l, EndLease(l)
    PROVE  key' \in Keys /\ live' \subseteq Leases
BY BoundsAssumption DEF EndLease, KeyAbsent, Keys, Revisions, Aliases, LeaseIds

LEMMA StoreCreateTyped ==
    ASSUME rev \in Revisions, key \in Keys, NEW n \in Instances,
           NEW l \in Leases, StoreCreate(n, l)
    PROVE  rev' \in Revisions /\ key' \in Keys
BY BoundsAssumption
   DEF StoreCreate, CanCreate, Keys, Revisions, Aliases, LeaseIds

LEMMA StoreWriteTyped ==
    ASSUME row \in Rows, highTerm \in Revisions, NEW n \in Instances,
           NEW w \in Revisions, StoreWrite(n, w)
    PROVE  row' \in Rows /\ highTerm' \in Revisions
<1>1. CASE key.rev = w
  <2>1. [term |-> w, by |-> n, override |-> FALSE] \in Rows
    BY DEF Rows, Aliases
  <2>2. row' = [term |-> w, by |-> n, override |-> FALSE]
    BY <1>1 DEF StoreWrite
  <2>3. highTerm' \in Revisions
    BY <1>1 DEF StoreWrite
  <2>4. QED
    BY <2>1, <2>2, <2>3
<1>2. CASE key.rev # w
  BY <1>2 DEF StoreWrite
<1>3. QED
  BY <1>1, <1>2

LEMMA TryRevokeTyped ==
    ASSUME key \in Keys, live \subseteq Leases, NEW l, TryRevoke(l)
    PROVE  key' \in Keys /\ live' \subseteq Leases
BY EndLeaseTyped DEF TryRevoke

LEMMA RequestsTyped ==
    /\ \A n \in Instances, l \in Leases :
         [op |-> "create", from |-> n, lease |-> l] \in Requests
    /\ \A n \in Instances, r \in Revisions :
         [op |-> "write", from |-> n, rev |-> r] \in Requests
BY DEF Requests

LEMMA ZeroTyped == 0 \in Revisions
BY BoundsAssumption DEF Revisions

\* Stepping down is typed.
LEMMA StepDownTyped ==
    ASSUME StateOK, NEW n \in Instances, StepDown(n),
           enabled' = enabled, stopping' = stopping
    PROVE  StateOK'
<1>1. NoLease \in LeaseIds
  BY DEF LeaseIds
<1>2. QED
  BY <1>1, ZeroTyped, CrownTyped DEF StepDown

-----------------------------------------------------------------------------
(***************************************************************************)
(* Every step of a fiber keeps the types.                                  *)
(***************************************************************************)

LEMMA FiberStepTyped ==
    ASSUME StoreOK, StateOK, FibersOK, calm \in BOOLEAN,
           NEW f \in Fibers, FiberStep(f)
    PROVE  StoreOK' /\ StateOK' /\ FibersOK' /\ calm' \in BOOLEAN
<1> USE HostTyped, BlankTyped
<1>a. Host(f) \in Instances /\ loc[f] \in Locals
  BY DEF FibersOK
<1>b. leaseId[Host(f)] \in LeaseIds /\ coordRev[Host(f)] \in Revisions
  BY <1>a DEF StateOK
<1>c. loc[f].lease \in LeaseIds /\ loc[f].rev \in Revisions
  BY <1>a DEF Locals
<1>1. CASE LoopTop(f)
  <2>1. [Blank EXCEPT !.rev = key.rev, !.alias = key.alias] \in Locals
    BY DEF StoreOK, Keys, Locals, Blank
  <2>2. FibersOK'
    BY <1>1, <2>1, AwaitTyped DEF LoopTop, Waits
  <2>3. QED
    BY <1>1, <2>2 DEF LoopTop, StoreOK, StateOK, store, state
<1>2. CASE LoopExit(f)
  <2>1. FibersOK'
    BY <1>2, AwaitTyped DEF LoopExit, Waits
  <2>2. CASE leaseId[Host(f)] = NoLease
    BY <1>2, <2>1, <2>2 DEF LoopExit, StoreOK, StateOK
  <2>3. CASE leaseId[Host(f)] # NoLease
    <3>1. StepDown(Host(f)) /\ TryRevoke(leaseId[Host(f)])
      BY <1>2, <2>3 DEF LoopExit
    <3>2. StateOK'
      BY <1>2, <1>a, <3>1, StepDownTyped DEF LoopExit
    <3>3. key' \in Keys /\ live' \subseteq Leases
      BY <3>1, TryRevokeTyped DEF StoreOK
    <3>4. QED
      BY <1>2, <2>1, <3>2, <3>3 DEF LoopExit, StoreOK
  <2>4. QED
    BY <2>2, <2>3
<1>3. CASE OnVacancy(f)
  <2>1. \A l \in Leases : [Blank EXCEPT !.lease = l] \in Locals
    BY DEF Locals, Blank, LeaseIds
  <2>2. FreshLease \subseteq Leases
    BY DEF FreshLease
  <2>3. FibersOK' /\ live' \subseteq Leases
    <3>1. CASE \E l \in FreshLease :
                 /\ live' = live \cup {l}
                 /\ \/ Await(f, "grant", [Blank EXCEPT !.lease = l])
                    \/ ~calm /\ Await(f, "grant", Blank)
      BY <3>1, <2>1, <2>2, AwaitTyped DEF Waits, StoreOK
    <3>2. CASE live' = live /\ Await(f, "grant", Blank)
      BY <3>2, AwaitTyped DEF Waits, StoreOK
    <3>3. QED
      BY <1>3, <3>1, <3>2 DEF OnVacancy
  <2>4. QED
    BY <1>3, <2>3 DEF OnVacancy, StoreOK, StateOK, state
<1>4. CASE OnOwnKey(f)
  <2>1. StateOK'
    BY <1>4, <1>a, <1>b, <1>c, CrownTyped DEF OnOwnKey
  <2>2. FibersOK'
    BY <1>4, RenewTyped DEF OnOwnKey
  <2>3. QED
    BY <1>4, <2>1, <2>2 DEF OnOwnKey, StoreOK, store
<1>5. CASE OnOtherKey(f)
  <2>1. CASE leaseId[Host(f)] # NoLease
    <3>1. /\ StepDown(Host(f)) /\ TryRevoke(leaseId[Host(f)])
          /\ Await(f, "release", Blank)
      BY <1>5, <2>1 DEF OnOtherKey
    <3>2. StateOK'
      BY <1>5, <1>a, <3>1, StepDownTyped DEF OnOtherKey
    <3>3. FibersOK'
      BY <3>1, AwaitTyped DEF Waits
    <3>4. key' \in Keys /\ live' \subseteq Leases
      BY <3>1, TryRevokeTyped DEF StoreOK
    <3>5. QED
      BY <1>5, <3>2, <3>3, <3>4 DEF OnOtherKey, StoreOK
  <2>2. CASE leaseId[Host(f)] = NoLease
    <3>1. FibersOK'
      BY <1>5, <2>2, AwaitTyped DEF OnOtherKey, Waits
    <3>2. StateOK'
      BY <1>5, <2>2 DEF OnOtherKey, StateOK
    <3>3. QED
      BY <1>5, <2>2, <3>1, <3>2 DEF OnOtherKey, StoreOK
  <2>3. QED
    BY <2>1, <2>2
<1>6. CASE OnReleased(f) \/ OnGrantRefused(f) \/ OnUndone(f)
  <2>1. FibersOK'
    BY <1>6, RenewTyped DEF OnReleased, OnGrantRefused, OnUndone
  <2>2. QED
    BY <1>6, <2>1
    DEF OnReleased, OnGrantRefused, OnUndone, StoreOK, StateOK, store, state
<1>7. CASE OnGranted(f)
  <2>1. loc[f].lease \in Leases
    BY <1>7, <1>c DEF OnGranted, LeaseIds
  <2>2. \A r \in Revisions :
          [Blank EXCEPT !.lease = loc[f].lease, !.rev = r] \in Locals
    BY <1>c DEF Locals, Blank
  <2>3. [Blank EXCEPT !.lease = loc[f].lease] \in Locals
    BY <1>c DEF Locals, Blank
  <2>4. CanCreate(loc[f].lease) => rev + 1 \in Revisions
    BY BoundsAssumption DEF CanCreate, StoreOK, Revisions
  <2>5. FibersOK'
    BY <1>7, <2>2, <2>3, <2>4, AwaitTyped DEF OnGranted, Waits
  <2>6. rev' \in Revisions /\ key' \in Keys
    BY <1>7, <1>a, <2>1, StoreCreateTyped DEF OnGranted, StoreOK
  <2>7. late' \subseteq Requests
    BY <1>7, <1>a, <2>1, RequestsTyped DEF OnGranted, StoreOK, Hold
  <2>8. QED
    BY <1>7, <2>5, <2>6, <2>7 DEF OnGranted, StoreOK, StateOK, state
<1>8. CASE OnCreated(f)
  <2>1. StateOK'
    BY <1>8, <1>a, <1>c, CrownTyped DEF OnCreated
  <2>2. FibersOK'
    BY <1>8, RenewTyped DEF OnCreated
  <2>3. QED
    BY <1>8, <2>1, <2>2 DEF OnCreated, StoreOK, store
<1>9. CASE OnCreateFailed(f)
  <2>1. FibersOK'
    BY <1>9, AwaitTyped DEF OnCreateFailed, Waits
  <2>2. key' \in Keys /\ live' \subseteq Leases
    BY <1>9, TryRevokeTyped DEF OnCreateFailed, StoreOK
  <2>3. QED
    BY <1>9, <2>1, <2>2 DEF OnCreateFailed, StoreOK, StateOK, state
<1>10. CASE OnNotRenewed(f)
  <2>1. StateOK'
    BY <1>10, <1>a, StepDownTyped DEF OnNotRenewed
  <2>2. FibersOK'
    BY <1>10, AwaitTyped DEF OnNotRenewed, Waits
  <2>3. QED
    BY <1>10, <2>1, <2>2 DEF OnNotRenewed, StoreOK, store
<1>11. CASE OnRenewed(f)
  <2>1. [Blank EXCEPT !.ok = row.override] \in Locals
    BY DEF StoreOK, Rows, Locals, Blank
  <2>2. FibersOK'
    BY <1>11, <2>1, AwaitTyped DEF OnRenewed, Waits
  <2>3. QED
    BY <1>11, <2>2 DEF OnRenewed, StoreOK, StateOK, store, state
<1>12. CASE OnOverride(f)
  <2>1. FibersOK'
    BY <1>12, AwaitTyped DEF OnOverride, Waits
  <2>2. QED
    BY <1>12, <2>1 DEF OnOverride, StoreOK, StateOK, store, state
<1>13. CASE OnNoOverride(f)
  <2>1. /\ [Blank EXCEPT !.ok = TRUE] \in Locals
        /\ [Blank EXCEPT !.conflict = TRUE] \in Locals
    BY DEF Locals, Blank
  <2>2. FibersOK'
    BY <1>13, <2>1, AwaitTyped DEF OnNoOverride, Waits
  <2>3. row' \in Rows /\ highTerm' \in Revisions
    BY <1>13, <1>a, <1>b, StoreWriteTyped DEF OnNoOverride, StoreOK
  <2>4. late' \subseteq Requests
    BY <1>13, <1>a, <1>b, RequestsTyped DEF OnNoOverride, StoreOK, Hold
  <2>5. QED
    BY <1>13, <2>2, <2>3, <2>4 DEF OnNoOverride, StoreOK, StateOK, state
<1>14. CASE OnWritten(f)
  <2>1. FibersOK'
    BY <1>14, AwaitTyped DEF OnWritten, Waits
  <2>2. StateOK'
    <3>1. CASE loc[f].conflict
      BY <1>14, <1>a, <3>1, StepDownTyped DEF OnWritten
    <3>2. CASE ~loc[f].conflict
      BY <1>14, <3>2 DEF OnWritten, StateOK
    <3>3. QED
      BY <3>1, <3>2
  <2>3. QED
    BY <1>14, <2>1, <2>2 DEF OnWritten, StoreOK, store
<1>15. QED
  BY <1>1, <1>2, <1>3, <1>4, <1>5, <1>6, <1>7, <1>8, <1>9, <1>10, <1>11,
     <1>12, <1>13, <1>14 DEF FiberStep

-----------------------------------------------------------------------------
(***************************************************************************)
(* So does everything else that can happen.                                *)
(***************************************************************************)

LEMMA RevokeOnStopTyped ==
    ASSUME StoreOK, StateOK, NEW n \in Instances, RevokeOnStop(n)
    PROVE  /\ key' \in Keys /\ live' \subseteq Leases
           /\ stopping' \in [Instances -> {"no", "draining", "revoking"}]
<1>1. CASE isCoord[n] /\ leaseId[n] # NoLease
  BY <1>1, TryRevokeTyped DEF RevokeOnStop, StoreOK, StateOK
<1>2. CASE ~(isCoord[n] /\ leaseId[n] # NoLease)
  BY <1>2 DEF RevokeOnStop, StoreOK, StateOK
<1>3. QED
  BY <1>1, <1>2

LEMMA InstanceStepTyped ==
    ASSUME StoreOK, StateOK, FibersOK, calm \in BOOLEAN, NEW n \in Instances,
           Start(n) \/ Stop(n) \/ StopDrained(n) \/ StopRevoked(n) \/ Crash(n)
    PROVE  StoreOK' /\ StateOK' /\ FibersOK' /\ calm' \in BOOLEAN
<1>n. NoLease \in LeaseIds
  BY DEF LeaseIds
<1>1. CASE Start(n)
  <2>1. StateOK'
    BY <1>1, <1>n, ZeroTyped DEF Start, StateOK, StepDown, Crown
  <2>2. FibersOK'
    <3>1. PICK s \in Slots : Await(<<n, s>>, "idle", Blank)
      BY <1>1 DEF Start
    <3>2. <<n, s>> \in Fibers
      BY DEF Fibers
    <3>3. QED
      BY <3>1, <3>2, AwaitTyped, BlankTyped DEF Waits
  <2>3. QED
    BY <1>1, <2>1, <2>2 DEF Start, StoreOK, store
<1>2. CASE Stop(n)
  <2>1. key' \in Keys /\ live' \subseteq Leases
    BY <1>2, RevokeOnStopTyped DEF Stop, StoreOK
  <2>2. stopping' \in [Instances -> {"no", "draining", "revoking"}]
    BY <1>2, RevokeOnStopTyped DEF Stop, StateOK
  <2>3. QED
    BY <1>2, <2>1, <2>2 DEF Stop, StoreOK, StateOK, FibersOK
<1>3. CASE StopDrained(n)
  BY <1>3, RevokeOnStopTyped DEF StopDrained, StoreOK, StateOK, FibersOK
<1>4. CASE StopRevoked(n)
  BY <1>4, <1>n, ZeroTyped
  DEF StopRevoked, StepDown, Crown, StoreOK, StateOK, FibersOK, store
<1>5. CASE Crash(n)
  <2>1. StateOK'
    BY <1>5, <1>n, ZeroTyped DEF Crash, StateOK, StepDown, Crown
  <2>2. FibersOK'
    BY <1>5, BlankTyped DEF Crash, FibersOK, Waits
  <2>3. QED
    BY <1>5, <2>1, <2>2 DEF Crash, StoreOK, store
<1>6. QED
  BY <1>1, <1>2, <1>3, <1>4, <1>5

LEMMA StoreStepTyped ==
    ASSUME StoreOK, StateOK, FibersOK, calm \in BOOLEAN,
           \/ AppointManually \/ OverrideLapses \/ Calms
           \/ \E l \in Leases : LeaseExpires(l)
           \/ \E q \in late : LateArrives(q)
    PROVE  StoreOK' /\ StateOK' /\ FibersOK' /\ calm' \in BOOLEAN
<1>1. CASE AppointManually
  <2>1. [term |-> 0, by |-> Manual, override |-> TRUE] \in Rows
    BY ZeroTyped DEF Rows
  <2>2. QED
    BY <1>1, <2>1 DEF AppointManually, StoreOK, StateOK, FibersOK, state
<1>2. CASE OverrideLapses
  <2>1. row' \in Rows
    BY <1>2 DEF OverrideLapses, StoreOK, Rows
  <2>2. QED
    BY <1>2, <2>1 DEF OverrideLapses, StoreOK, StateOK, FibersOK, state
<1>3. CASE Calms
  BY <1>3 DEF Calms, StoreOK, StateOK, FibersOK, store, state
<1>4. CASE \E l \in Leases : LeaseExpires(l)
  <2>1. key' \in Keys /\ live' \subseteq Leases
    BY <1>4, EndLeaseTyped DEF LeaseExpires, StoreOK
  <2>2. QED
    BY <1>4, <2>1 DEF LeaseExpires, StoreOK, StateOK, FibersOK, state
<1>5. CASE \E q \in late : LateArrives(q)
  <2>1. PICK q \in late : LateArrives(q)
    BY <1>5
  <2>2. q \in Requests
    BY DEF StoreOK
  <2>3. /\ rev' \in Revisions /\ key' \in Keys
        /\ row' \in Rows /\ highTerm' \in Revisions
    <3>1. CASE UNCHANGED <<rev, key, row, highTerm>>
      BY <3>1 DEF StoreOK
    <3>2. CASE /\ q.op = "create" /\ StoreCreate(q.from, q.lease)
               /\ UNCHANGED <<row, highTerm>>
      <4>1. q.from \in Instances /\ q.lease \in Leases
        BY <2>2, <3>2 DEF Requests
      <4>2. QED
        BY <3>2, <4>1, StoreCreateTyped DEF StoreOK
    <3>3. CASE /\ q.op = "write" /\ StoreWrite(q.from, q.rev)
               /\ UNCHANGED <<rev, key>>
      <4>1. q.from \in Instances /\ q.rev \in Revisions
        BY <2>2, <3>3 DEF Requests
      <4>2. QED
        BY <3>3, <4>1, StoreWriteTyped DEF StoreOK
    <3>4. QED
      BY <2>1, <3>1, <3>2, <3>3 DEF LateArrives
  <2>4. QED
    BY <2>1, <2>3 DEF LateArrives, StoreOK, StateOK, FibersOK, state
<1>6. QED
  BY <1>1, <1>2, <1>3, <1>4, <1>5

LEMMA InitTyped == Init => TypeOK
<1> SUFFICES ASSUME Init PROVE TypeOK
  OBVIOUS
<1>1. KeyAbsent \in Keys /\ NoRow \in Rows
  BY ZeroTyped DEF KeyAbsent, Keys, Aliases, LeaseIds, NoRow, Rows
<1>2. QED
  BY <1>1, BlankTyped, ZeroTyped DEF Init, TypeOK, LeaseIds, Waits

LEMMA NextTyped == TypeOK /\ [Next]_vars => TypeOK'
<1> SUFFICES ASSUME TypeOK, [Next]_vars PROVE TypeOK'
  OBVIOUS
<1>1. StoreOK /\ StateOK /\ FibersOK /\ calm \in BOOLEAN
  BY TypeParts
<1>2. CASE Next
  <2>1. StoreOK' /\ StateOK' /\ FibersOK' /\ calm' \in BOOLEAN
    BY <1>1, <1>2, FiberStepTyped, InstanceStepTyped, StoreStepTyped DEF Next
  <2>2. QED
    BY <2>1 DEF TypeOK, StoreOK, StateOK, FibersOK
<1>3. CASE UNCHANGED vars
  BY <1>3 DEF TypeOK, vars, store, state
<1>4. QED
  BY <1>2, <1>3

\* Every reachable state is well typed, for any set of instances, fibers and
\* leases and any bounds.
THEOREM TypeCorrect == Spec => []TypeOK
BY InitTyped, NextTyped, PTL DEF Spec

-----------------------------------------------------------------------------
(***************************************************************************)
(* Fencing.  The row's term can only be kept newest because the live key is *)
(* always the latest one created, and the conditional put can only be kept  *)
(* to the key's owner because every revision anybody still holds is at most *)
(* the latest: a new key is above all of them.                              *)
(***************************************************************************)

LatestKey == key.rev # 0 => key.rev = rev
NewestTermOK == highTerm <= rev /\ NewestTerm
HeldBelow ==
    /\ \A n \in Instances : coordRev[n] <= rev
    /\ \A f \in Fibers : loc[f].rev <= rev
    /\ \A q \in late : q.op = "write" => q.rev <= rev
ReadsAgree ==
    \A f \in Fibers :
        key.rev # 0 /\ pc[f] = "read" /\ loc[f].rev = key.rev
        => loc[f].alias = key.alias

FInv == LatestKey /\ NewestTermOK /\ HeldBelow /\ ReadsAgree /\ OneWriter

LEMMA BlankForgets ==
    /\ Blank.rev = 0
    /\ [Blank EXCEPT !.ok = TRUE].rev = 0
    /\ [Blank EXCEPT !.conflict = TRUE].rev = 0
    /\ [Blank EXCEPT !.ok = row.override].rev = 0
    /\ \A l : [Blank EXCEPT !.lease = l].rev = 0
<1>1. Blank.rev = 0
  BY DEF Blank
<1>2. [Blank EXCEPT !.ok = TRUE].rev = 0
  BY DEF Blank
<1>3. [Blank EXCEPT !.conflict = TRUE].rev = 0
  BY DEF Blank
<1>4. [Blank EXCEPT !.ok = row.override].rev = 0
  BY DEF Blank
<1>5. \A l : [Blank EXCEPT !.lease = l].rev = 0
  BY DEF Blank
<1>6. QED
  BY <1>1, <1>2, <1>3, <1>4, <1>5

\* A fiber whose new locals hold no revision leaves the others' as they were.
LEMMA AwaitForgets ==
    ASSUME TypeOK, NEW f \in Fibers, NEW call, NEW v, v.rev = 0,
           Await(f, call, v)
    PROVE  \A g \in Fibers :
             loc'[g].rev = 0 \/ (loc'[g] = loc[g] /\ pc'[g] = pc[g])
BY DEF Await, TypeOK

LEMMA RenewForgets ==
    ASSUME TypeOK, NEW f \in Fibers, NEW c, NEW l, Renew(f, c, l)
    PROVE  \A g \in Fibers :
             loc'[g].rev = 0 \/ (loc'[g] = loc[g] /\ pc'[g] = pc[g])
BY AwaitForgets, BlankForgets DEF Renew

\* A step that creates no key, writes no row and teaches nobody a revision.
Quiet ==
    /\ rev' = rev /\ row' = row /\ highTerm' = highTerm
    /\ \A q \in late' : q.op = "write" => q \in late
    /\ key' \in {key, KeyAbsent}
    /\ \A n \in Instances : coordRev'[n] \in {coordRev[n], 0}
    /\ \A g \in Fibers :
         loc'[g].rev = 0 \/ (loc'[g] = loc[g] /\ pc'[g] = pc[g])

LEMMA QuietFenced ==
    ASSUME TypeOK, FInv, Quiet
    PROVE  FInv'
<1> USE BoundsAssumption
<1>0. rev \in Nat
  BY DEF TypeOK, Revisions
<1>k. key' = key \/ key'.rev = 0
  BY DEF Quiet, KeyAbsent
<1>1. LatestKey'
  BY <1>k DEF FInv, LatestKey, Quiet
<1>2. NewestTermOK'
  BY DEF FInv, NewestTermOK, NewestTerm, Quiet
<1>3. HeldBelow'
  BY <1>0 DEF FInv, HeldBelow, Quiet
<1>4. ReadsAgree'
  BY <1>k DEF FInv, ReadsAgree, Quiet
<1>5. OneWriter'
  BY <1>k DEF FInv, OneWriter, Quiet
<1>6. QED
  BY <1>1, <1>2, <1>3, <1>4, <1>5 DEF FInv

LEMMA TryRevokeQuiet ==
    ASSUME NEW l, TryRevoke(l)
    PROVE  key' \in {key, KeyAbsent}
BY DEF TryRevoke, EndLease

LEMMA StepDownQuiet ==
    ASSUME TypeOK, NEW n, StepDown(n)
    PROVE  \A m \in Instances : coordRev'[m] \in {coordRev[m], 0}
BY DEF StepDown, Crown, TypeOK

LEMMA RevokeOnStopQuiet ==
    ASSUME NEW n, RevokeOnStop(n)
    PROVE  key' \in {key, KeyAbsent}
BY TryRevokeQuiet DEF RevokeOnStop

\* The fiber steps after which nobody knows a revision he did not know.
LEMMA QuietFiberStep ==
    ASSUME TypeOK, NEW f \in Fibers,
           \/ LoopExit(f) \/ OnVacancy(f) \/ OnOtherKey(f) \/ OnReleased(f)
           \/ OnGrantRefused(f) \/ OnCreateFailed(f) \/ OnUndone(f)
           \/ OnNotRenewed(f) \/ OnRenewed(f) \/ OnOverride(f) \/ OnWritten(f)
    PROVE  Quiet
<1>1. CASE LoopExit(f)
  BY <1>1, AwaitForgets, BlankForgets, TryRevokeQuiet, StepDownQuiet
  DEF LoopExit, Quiet
<1>2. CASE OnVacancy(f)
  <2>1. FreshLease \subseteq LeaseIds
    BY DEF FreshLease, LeaseIds
  <2>2. \A g \in Fibers :
          loc'[g].rev = 0 \/ (loc'[g] = loc[g] /\ pc'[g] = pc[g])
    <3>1. \/ \E l \in FreshLease : Await(f, "grant", [Blank EXCEPT !.lease = l])
          \/ Await(f, "grant", Blank)
      BY <1>2 DEF OnVacancy
    <3>2. QED
      BY <2>1, <3>1, AwaitForgets, BlankForgets
  <2>3. QED
    BY <1>2, <2>2 DEF OnVacancy, Quiet, state
<1>3. CASE OnOtherKey(f)
  BY <1>3, AwaitForgets, BlankForgets, TryRevokeQuiet, StepDownQuiet
  DEF OnOtherKey, Quiet
<1>4. CASE OnReleased(f) \/ OnGrantRefused(f) \/ OnUndone(f)
  BY <1>4, RenewForgets
  DEF OnReleased, OnGrantRefused, OnUndone, Quiet, store, state
<1>5. CASE OnCreateFailed(f)
  BY <1>5, AwaitForgets, BlankForgets, TryRevokeQuiet DEF OnCreateFailed, Quiet, state
<1>6. CASE OnNotRenewed(f)
  BY <1>6, AwaitForgets, BlankForgets, StepDownQuiet DEF OnNotRenewed, Quiet, store
<1>7. CASE OnRenewed(f) \/ OnOverride(f)
  BY <1>7, AwaitForgets, BlankForgets DEF OnRenewed, OnOverride, Quiet, store, state
<1>8. CASE OnWritten(f)
  BY <1>8, AwaitForgets, BlankForgets, StepDownQuiet DEF OnWritten, Quiet, store
<1>9. QED
  BY <1>1, <1>2, <1>3, <1>4, <1>5, <1>6, <1>7, <1>8

\* Nor does an instance that starts, stops or crashes learn one.
LEMMA QuietInstanceStep ==
    ASSUME TypeOK, NEW n \in Instances,
           Start(n) \/ Stop(n) \/ StopDrained(n) \/ StopRevoked(n) \/ Crash(n)
    PROVE  Quiet
<1>1. CASE Start(n)
  <2>1. PICK s \in Slots : Await(<<n, s>>, "idle", Blank)
    BY <1>1 DEF Start
  <2>2. <<n, s>> \in Fibers
    BY DEF Fibers
  <2>3. QED
    BY <1>1, <2>1, <2>2, AwaitForgets, BlankForgets, StepDownQuiet DEF Start, Quiet, store
<1>2. CASE Stop(n)
  BY <1>2, RevokeOnStopQuiet DEF Stop, Quiet
<1>3. CASE StopDrained(n)
  BY <1>3, RevokeOnStopQuiet DEF StopDrained, Quiet
<1>4. CASE StopRevoked(n)
  BY <1>4, StepDownQuiet DEF StopRevoked, Quiet, store
<1>5. CASE Crash(n)
  <2>1. \A g \in Fibers :
          loc'[g].rev = 0 \/ (loc'[g] = loc[g] /\ pc'[g] = pc[g])
    <3>1. Blank.rev = 0
      BY DEF Blank
    <3>2. QED
      BY <1>5, <3>1 DEF Crash
  <2>2. QED
    BY <1>5, <2>1, StepDownQuiet DEF Crash, Quiet, store
<1>6. QED
  BY <1>1, <1>2, <1>3, <1>4, <1>5

\* Reading the key gives the fiber the key's revision together with its alias.
LEMMA LoopTopFenced ==
    ASSUME TypeOK, FInv, NEW f \in Fibers, LoopTop(f)
    PROVE  FInv'
<1>1. CASE Await(f, "read", Blank)
  BY <1>1, AwaitForgets, BlankForgets, QuietFenced
  DEF LoopTop, Quiet, store, state
<1>2. CASE Await(f, "read", [Blank EXCEPT !.rev = key.rev, !.alias = key.alias])
  <2>1. /\ rev' = rev /\ key' = key /\ row' = row /\ highTerm' = highTerm
        /\ late' = late /\ coordRev' = coordRev
    BY DEF LoopTop, store, state
  <2>2. /\ loc'[f].rev = key.rev /\ loc'[f].alias = key.alias
        /\ pc'[f] = "read"
        /\ \A g \in Fibers \ {f} : loc'[g] = loc[g] /\ pc'[g] = pc[g]
    BY <1>2 DEF Await, TypeOK, Blank
  <2>3. key.rev <= rev
    BY BoundsAssumption DEF FInv, LatestKey, TypeOK, Keys, Revisions
  <2>4. LatestKey' /\ NewestTermOK'
    BY <2>1 DEF FInv, LatestKey, NewestTermOK, NewestTerm
  <2>5. HeldBelow'
    BY <2>1, <2>2, <2>3 DEF FInv, HeldBelow
  <2>6. ReadsAgree'
    BY <2>1, <2>2 DEF FInv, ReadsAgree
  <2>7. OneWriter'
    BY <2>1, <2>2 DEF FInv, OneWriter
  <2>8. QED
    BY <2>4, <2>5, <2>6, <2>7 DEF FInv
<1>3. QED
  BY <1>1, <1>2 DEF LoopTop

\* Renew teaches nothing, and STATE takes over a revision r that is the key's
\* only if the key is the instance's own.
LEMMA CrownFenced ==
    ASSUME TypeOK, FInv, NEW f \in Fibers, NEW l, NEW r \in Revisions,
           r <= rev,
           key.rev # 0 /\ r = key.rev => Host(f) = key.alias,
           Crown(Host(f), TRUE, l, r), Renew(f, TRUE, l), UNCHANGED store
    PROVE  FInv'
<1>1. /\ rev' = rev /\ key' = key /\ row' = row /\ highTerm' = highTerm
      /\ late' = late
  BY DEF store
<1>2. \A g \in Fibers :
        loc'[g].rev = 0 \/ (loc'[g] = loc[g] /\ pc'[g] = pc[g])
  BY RenewForgets
<1>3. \A n \in Instances :
        coordRev'[n] = coordRev[n] \/ (n = Host(f) /\ coordRev'[n] = r)
  BY DEF Crown, TypeOK
<1>4. rev \in Nat
  BY BoundsAssumption DEF TypeOK, Revisions
<1>5. LatestKey' /\ NewestTermOK'
  BY <1>1 DEF FInv, LatestKey, NewestTermOK, NewestTerm
<1>6. HeldBelow'
  BY <1>1, <1>2, <1>3, <1>4 DEF FInv, HeldBelow
<1>7. ReadsAgree'
  BY <1>1, <1>2 DEF FInv, ReadsAgree
<1>8. OneWriter'
  BY <1>1, <1>2, <1>3 DEF FInv, OneWriter
<1>9. QED
  BY <1>5, <1>6, <1>7, <1>8 DEF FInv

LEMMA LocRevTyped ==
    ASSUME TypeOK, NEW f \in Fibers
    PROVE  loc[f].rev \in Revisions
BY DEF TypeOK, Locals

LEMMA OnOwnKeyFenced ==
    ASSUME TypeOK, FInv, NEW f \in Fibers, OnOwnKey(f)
    PROVE  FInv'
<1>1. loc[f].rev <= rev
  BY DEF FInv, HeldBelow
<1>2. key.rev # 0 /\ loc[f].rev = key.rev => Host(f) = key.alias
  BY DEF FInv, ReadsAgree, OnOwnKey
<1>3. QED
  BY <1>1, <1>2, LocRevTyped, CrownFenced DEF OnOwnKey

LEMMA OnCreatedFenced ==
    ASSUME TypeOK, FInv, NEW f \in Fibers, OnCreated(f)
    PROVE  FInv'
<1>1. loc[f].rev <= rev
  BY DEF FInv, HeldBelow
<1>2. key.rev # 0 /\ loc[f].rev = key.rev => Host(f) = key.alias
  BY DEF FInv, OneWriter, OnCreated
<1>3. QED
  BY <1>1, <1>2, LocRevTyped, CrownFenced DEF OnCreated

\* A key created for instance n is above every revision held; if a fiber is
\* told of it, it is a fiber of n that waits for the creation.
LEMMA CreateFenced ==
    ASSUME TypeOK, FInv, NEW n \in Instances, NEW l, CanCreate(l),
           rev' = rev + 1, key' = [rev |-> rev + 1, alias |-> n, lease |-> l],
           row' = row, highTerm' = highTerm, coordRev' = coordRev,
           \A q \in late' : q.op = "write" => q \in late,
           \A g \in Fibers :
             \/ loc'[g].rev = 0
             \/ loc'[g] = loc[g] /\ pc'[g] = pc[g]
             \/ loc'[g].rev = rev + 1 /\ pc'[g] = "create" /\ Host(g) = n
    PROVE  FInv'
<1>1. rev \in Nat /\ highTerm \in Nat
  BY BoundsAssumption DEF TypeOK, Revisions
<1>2. key'.rev = rev + 1 /\ key'.alias = n
  OBVIOUS
<1>3. LatestKey'
  BY <1>2 DEF LatestKey
<1>4. NewestTermOK'
  BY <1>1 DEF FInv, NewestTermOK, NewestTerm
<1>5. /\ \A m \in Instances : coordRev[m] \in Nat /\ coordRev[m] <= rev
      /\ \A g \in Fibers : loc[g].rev \in Nat /\ loc[g].rev <= rev
      /\ \A q \in late : q.op = "write" => q.rev \in Nat /\ q.rev <= rev
  <2>1. \A q \in late : q.op = "write" => q.rev \in Nat
    BY BoundsAssumption DEF TypeOK, Requests, Revisions
  <2>2. QED
    BY <2>1, LocRevTyped, BoundsAssumption
    DEF FInv, HeldBelow, TypeOK, Revisions
<1>6. HeldBelow'
  BY <1>1, <1>5 DEF HeldBelow
<1>7. ReadsAgree'
  <2> SUFFICES ASSUME NEW g \in Fibers, pc'[g] = "read",
                      loc'[g].rev = key'.rev
               PROVE  loc'[g].alias = key'.alias
    BY DEF ReadsAgree
  <2>1. loc'[g].rev = rev + 1
    BY <1>2
  <2>2. loc'[g].rev # 0 /\ loc[g].rev # rev + 1
    BY <1>1, <1>5, <2>1
  <2>3. QED
    BY <2>1, <2>2
<1>8. OneWriter'
  <2>1. \A m \in Instances : coordRev'[m] # key'.rev
    BY <1>1, <1>2, <1>5
  <2>2. \A g \in Fibers :
          pc'[g] = "create" /\ loc'[g].rev = key'.rev => Host(g) = n
    BY <1>1, <1>2, <1>5
  <2>3. \A q \in late' : q.op = "write" => q.rev # key'.rev
    BY <1>1, <1>2, <1>5
  <2>4. QED
    BY <1>2, <2>1, <2>2, <2>3 DEF OneWriter
<1>9. QED
  BY <1>3, <1>4, <1>6, <1>7, <1>8 DEF FInv

\* The claim of a fiber that was granted a lease.
LEMMA OnGrantedFenced ==
    ASSUME TypeOK, FInv, NEW f \in Fibers, OnGranted(f)
    PROVE  FInv'
<1> DEFINE l == loc[f].lease
<1> DEFINE won == [Blank EXCEPT !.lease = l, !.rev = rev + 1]
<1> DEFINE failed == [Blank EXCEPT !.lease = l]
<1>h. Host(f) \in Instances
  BY HostTyped
<1>r. rev \in Nat
  BY BoundsAssumption DEF TypeOK, Revisions
<1>w. won.rev = rev + 1 /\ failed.rev = 0
  BY DEF Blank
<1>u. row' = row /\ highTerm' = highTerm /\ coordRev' = coordRev
  BY DEF OnGranted, state
<1>1. CASE StoreCreate(Host(f), l) /\ late' = late /\ CanCreate(l)
  <2>1. /\ rev' = rev + 1
        /\ key' = [rev |-> rev + 1, alias |-> Host(f), lease |-> l]
    BY <1>1 DEF StoreCreate
  <2>2. Await(f, "create", won) \/ Await(f, "create", failed)
    BY DEF OnGranted
  <2>3. \A g \in Fibers :
          \/ loc'[g].rev = 0
          \/ loc'[g] = loc[g] /\ pc'[g] = pc[g]
          \/ loc'[g].rev = rev + 1 /\ pc'[g] = "create" /\ Host(g) = Host(f)
    <3>1. CASE Await(f, "create", won)
      <4>1. loc'[f] = won /\ pc'[f] = "create"
        BY <3>1 DEF Await, TypeOK
      <4>2. \A g \in Fibers \ {f} : loc'[g] = loc[g] /\ pc'[g] = pc[g]
        BY <3>1 DEF Await, TypeOK
      <4>3. QED
        BY <4>1, <4>2, <1>w
    <3>2. CASE Await(f, "create", failed)
      BY <3>2, <1>w, AwaitForgets
    <3>3. QED
      BY <2>2, <3>1, <3>2
  <2>4. QED
    BY <1>1, <1>h, <1>u, <2>1, <2>3, CreateFenced
<1>2. CASE Await(f, "create", failed) /\ UNCHANGED <<rev, key>>
  <2>1. \A q \in late' : q.op = "write" => q \in late
    BY DEF OnGranted, Hold
  <2>2. \A g \in Fibers :
          loc'[g].rev = 0 \/ (loc'[g] = loc[g] /\ pc'[g] = pc[g])
    BY <1>2, <1>w, AwaitForgets
  <2>3. Quiet
    BY <1>2, <1>u, <2>1, <2>2 DEF Quiet
  <2>4. QED
    BY <2>3, QuietFenced
<1>3. CASE /\ StoreCreate(Host(f), l) /\ ~CanCreate(l)
           /\ Await(f, "create", failed)
  BY <1>2, <1>3 DEF StoreCreate
<1>4. QED
  BY <1>1, <1>2, <1>3 DEF OnGranted

-----------------------------------------------------------------------------
(***************************************************************************)
(* Steps that write the row.                                               *)
(***************************************************************************)

\* A conditional put keeps the row newest: its witness is 0 or the latest key.
LEMMA WriteNewest ==
    ASSUME TypeOK, FInv, NEW n, NEW w \in Revisions, StoreWrite(n, w),
           rev' = rev
    PROVE  NewestTermOK'
<1>1. rev \in Nat /\ highTerm \in Nat /\ w \in Nat
  BY BoundsAssumption DEF TypeOK, Revisions
<1>2. CASE key.rev = w
  <2>1. row'.term = w
    BY <1>2 DEF StoreWrite
  <2>2. highTerm' = IF w > highTerm THEN w ELSE highTerm
    BY <1>2 DEF StoreWrite
  <2>3. w # 0 => w = rev
    BY <1>2 DEF FInv, LatestKey
  <2>4. highTerm <= rev
    BY DEF FInv, NewestTermOK
  <2>5. QED
    BY <1>1, <2>1, <2>2, <2>3, <2>4 DEF NewestTermOK, NewestTerm
<1>3. CASE key.rev # w
  BY <1>3 DEF StoreWrite, FInv, NewestTermOK, NewestTerm
<1>4. QED
  BY <1>2, <1>3

\* A step that changes nothing anybody holds but the row, or adds the write
\* of an instance under the revision it holds, keeps the rest.
LEMMA WriteFenced ==
    ASSUME TypeOK, FInv, NewestTermOK', rev' = rev, key' = key,
           coordRev' = coordRev,
           \A q \in late' :
             \/ q \in late
             \/ q.from \in Instances /\ q.rev = coordRev[q.from],
           \A g \in Fibers :
             loc'[g].rev = 0 \/ (loc'[g] = loc[g] /\ pc'[g] = pc[g])
    PROVE  FInv'
<1>0. rev \in Nat
  BY BoundsAssumption DEF TypeOK, Revisions
<1>1. LatestKey'
  BY DEF FInv, LatestKey
<1>2. HeldBelow'
  BY <1>0 DEF FInv, HeldBelow
<1>3. ReadsAgree'
  BY DEF FInv, ReadsAgree
<1>4. OneWriter'
  BY DEF FInv, OneWriter
<1>5. QED
  BY <1>1, <1>2, <1>3, <1>4 DEF FInv

LEMMA OnNoOverrideFenced ==
    ASSUME TypeOK, FInv, NEW f \in Fibers, OnNoOverride(f)
    PROVE  FInv'
<1>h. Host(f) \in Instances /\ coordRev[Host(f)] \in Revisions
  BY HostTyped DEF TypeOK
<1>u. rev' = rev /\ key' = key /\ coordRev' = coordRev
  BY DEF OnNoOverride, state
<1>1. NewestTermOK'
  <2>1. CASE UNCHANGED <<row, highTerm>>
    BY <1>u, <2>1 DEF FInv, NewestTermOK, NewestTerm
  <2>2. CASE StoreWrite(Host(f), coordRev[Host(f)])
    BY <1>h, <1>u, <2>2, WriteNewest
  <2>3. QED
    BY <2>1, <2>2 DEF OnNoOverride
<1>2. \A q \in late' :
        \/ q \in late
        \/ q.from \in Instances /\ q.rev = coordRev[q.from]
  BY <1>h DEF OnNoOverride, Hold
<1>3. \A g \in Fibers :
        loc'[g].rev = 0 \/ (loc'[g] = loc[g] /\ pc'[g] = pc[g])
  <2>1. \/ Await(f, "idle", Blank)
        \/ Await(f, "write", [Blank EXCEPT !.ok = TRUE])
        \/ Await(f, "write", [Blank EXCEPT !.conflict = TRUE])
        \/ Await(f, "write", Blank)
    BY DEF OnNoOverride
  <2>2. QED
    BY <2>1, AwaitForgets, BlankForgets
<1>4. QED
  BY <1>u, <1>1, <1>2, <1>3, WriteFenced

LEMMA LateArrivesFenced ==
    ASSUME TypeOK, FInv, NEW q \in late, LateArrives(q)
    PROVE  FInv'
<1>u. /\ late' = late \ {q}
      /\ live' = live /\ coordRev' = coordRev /\ pc' = pc /\ loc' = loc
  BY DEF LateArrives, state
<1>q. q \in Requests
  BY DEF TypeOK
<1>1. CASE UNCHANGED <<rev, key, row, highTerm>>
  BY <1>u, <1>1, QuietFenced DEF Quiet
<1>2. CASE /\ q.op = "create" /\ StoreCreate(q.from, q.lease)
           /\ UNCHANGED <<row, highTerm>>
  <2>1. q.from \in Instances
    BY <1>2, <1>q DEF Requests
  <2>2. CASE CanCreate(q.lease)
    BY <1>u, <1>2, <2>1, <2>2, CreateFenced DEF StoreCreate
  <2>3. CASE ~CanCreate(q.lease)
    BY <1>u, <1>2, <2>3, <1>1 DEF StoreCreate
  <2>4. QED
    BY <2>2, <2>3
<1>3. CASE /\ q.op = "write" /\ StoreWrite(q.from, q.rev)
           /\ UNCHANGED <<rev, key>>
  <2>1. q.from \in Instances /\ q.rev \in Revisions
    BY <1>3, <1>q DEF Requests
  <2>2. NewestTermOK'
    BY <1>3, <2>1, WriteNewest
  <2>3. QED
    BY <1>u, <1>3, <2>2, WriteFenced
<1>4. QED
  BY <1>1, <1>2, <1>3 DEF LateArrives

\* Operators and etcd's own steps.
LEMMA StoreStepFenced ==
    ASSUME TypeOK, FInv,
           \/ AppointManually \/ OverrideLapses \/ Calms
           \/ \E l \in Leases : LeaseExpires(l)
           \/ \E q \in late : LateArrives(q)
    PROVE  FInv'
<1>1. CASE AppointManually
  <2>1. NewestTermOK'
    BY <1>1 DEF AppointManually, FInv, NewestTermOK, NewestTerm
  <2>2. QED
    BY <1>1, <2>1, WriteFenced DEF AppointManually, state
<1>2. CASE OverrideLapses
  <2>1. row'.term = row.term
    BY <1>2 DEF OverrideLapses, TypeOK, Rows
  <2>2. NewestTermOK'
    BY <1>2, <2>1 DEF OverrideLapses, FInv, NewestTermOK, NewestTerm
  <2>3. QED
    BY <1>2, <2>2, WriteFenced DEF OverrideLapses, state
<1>3. CASE Calms
  BY <1>3, QuietFenced DEF Calms, Quiet, store, state
<1>4. CASE \E l \in Leases : LeaseExpires(l)
  BY <1>4, QuietFenced DEF LeaseExpires, EndLease, Quiet, state
<1>5. CASE \E q \in late : LateArrives(q)
  BY <1>5, LateArrivesFenced
<1>6. QED
  BY <1>1, <1>2, <1>3, <1>4, <1>5

LEMMA InitFenced == Init => FInv
<1> SUFFICES ASSUME Init PROVE FInv
  OBVIOUS
<1>1. Blank.rev = 0 /\ KeyAbsent.rev = 0
  BY DEF Blank, KeyAbsent
<1>2. QED
  BY <1>1
  DEF Init, FInv, LatestKey, NewestTermOK, NewestTerm, HeldBelow, ReadsAgree,
      OneWriter, NoRow

LEMMA NextFenced == TypeOK /\ FInv /\ [Next]_vars => FInv'
<1> SUFFICES ASSUME TypeOK, FInv, [Next]_vars PROVE FInv'
  OBVIOUS
<1>1. CASE \E f \in Fibers : FiberStep(f)
  <2>1. PICK f \in Fibers : FiberStep(f)
    BY <1>1
  <2>2. CASE LoopTop(f)
    BY <2>2, LoopTopFenced
  <2>3. CASE OnOwnKey(f)
    BY <2>3, OnOwnKeyFenced
  <2>4. CASE OnGranted(f)
    BY <2>4, OnGrantedFenced
  <2>5. CASE OnCreated(f)
    BY <2>5, OnCreatedFenced
  <2>6. CASE OnNoOverride(f)
    BY <2>6, OnNoOverrideFenced
  <2>7. CASE \/ LoopExit(f) \/ OnVacancy(f) \/ OnOtherKey(f) \/ OnReleased(f)
             \/ OnGrantRefused(f) \/ OnCreateFailed(f) \/ OnUndone(f)
             \/ OnNotRenewed(f) \/ OnRenewed(f) \/ OnOverride(f) \/ OnWritten(f)
    BY <2>7, QuietFiberStep, QuietFenced
  <2>8. QED
    BY <2>1, <2>2, <2>3, <2>4, <2>5, <2>6, <2>7 DEF FiberStep
<1>2. CASE \E n \in Instances : \/ Start(n) \/ Stop(n) \/ StopDrained(n)
                                 \/ StopRevoked(n) \/ Crash(n)
  BY <1>2, QuietInstanceStep, QuietFenced
<1>3. CASE \/ AppointManually \/ OverrideLapses \/ Calms
           \/ \E l \in Leases : LeaseExpires(l)
           \/ \E q \in late : LateArrives(q)
  BY <1>3, StoreStepFenced
<1>4. CASE UNCHANGED vars
  BY <1>4, QuietFenced DEF vars, store, state, Quiet
<1>5. QED
  BY <1>1, <1>2, <1>3, <1>4 DEF Next

\* The inductive invariant of the fencing argument.
THEOREM FencingInvariant == Spec => []FInv
<1>1. TypeOK /\ FInv /\ [Next]_vars => FInv'
  BY NextFenced
<1>2. QED
  BY <1>1, InitFenced, TypeCorrect, PTL DEF Spec

\* A row that carries a term carries the newest term ever written.
THEOREM RowIsNewest == Spec => []NewestTerm
<1>1. FInv => NewestTerm
  BY DEF FInv, NewestTermOK
<1>2. QED
  BY <1>1, FencingInvariant, PTL

\* Only the live key's owner holds its revision as a witness.
THEOREM WitnessIsOwners == Spec => []OneWriter
<1>1. FInv => OneWriter
  BY DEF FInv
<1>2. QED
  BY <1>1, FencingInvariant, PTL

-----------------------------------------------------------------------------
(***************************************************************************)
(* The store seen from outside.  Every step of Coordinator is one of four  *)
(* kinds of change of the store; none is a foreign write, and each is a    *)
(* step of FencedRow or none.                                              *)
(***************************************************************************)

\* The key is gone altogether or names an instance.
KeyNamed ==
    /\ key.rev = 0 => key = KeyAbsent
    /\ key.rev # 0 => key.alias \in Instances

SameRow == row'.term = row.term /\ row'.by = row.by

Still == rev' = rev /\ key' \in {key, KeyAbsent} /\ SameRow
Created ==
    \E n \in Instances, l \in LeaseIds :
        /\ key.rev = 0
        /\ rev' = rev + 1
        /\ key' = [rev |-> rev + 1, alias |-> n, lease |-> l]
        /\ SameRow
Written ==
    \E n \in Instances :
        /\ rev' = rev /\ key' = key
        /\ row'.term = key.rev /\ row'.by = n
        /\ key.rev # 0 => n = key.alias
Overridden ==
    /\ rev' = rev /\ key' = key
    /\ row'.term = 0 /\ row'.by = Manual

StoreMove == Still \/ Created \/ Written \/ Overridden

LEMMA QuietMoves == ASSUME Quiet PROVE Still
BY DEF Quiet, Still, SameRow

LEMMA WriteMoves ==
    ASSUME NEW n \in Instances, NEW w, StoreWrite(n, w),
           rev' = rev, key' = key, w = key.rev /\ w # 0 => n = key.alias
    PROVE  Still \/ Written
BY DEF StoreWrite, Still, SameRow, Written

LEMMA CreateMoves ==
    ASSUME NEW n \in Instances, NEW l \in LeaseIds, StoreCreate(n, l),
           row' = row
    PROVE  Still \/ Created
BY DEF StoreCreate, CanCreate, Still, SameRow, Created

LEMMA NextMoves ==
    ASSUME TypeOK, OneWriter, [Next]_vars
    PROVE  StoreMove
<1>1. CASE \E f \in Fibers : FiberStep(f)
  <2>1. PICK f \in Fibers : FiberStep(f)
    BY <1>1
  <2>h. Host(f) \in Instances /\ loc[f].lease \in LeaseIds
    BY HostTyped DEF TypeOK, Locals
  <2>2. CASE LoopTop(f) \/ OnOwnKey(f) \/ OnCreated(f)
    BY <2>2 DEF LoopTop, OnOwnKey, OnCreated, store, StoreMove, Still, SameRow
  <2>3. CASE OnGranted(f)
    <3>1. row' = row
      BY <2>3 DEF OnGranted
    <3>2. CASE StoreCreate(Host(f), loc[f].lease)
      BY <2>h, <3>1, <3>2, CreateMoves DEF StoreMove
    <3>3. CASE UNCHANGED <<rev, key>>
      BY <3>1, <3>3 DEF StoreMove, Still, SameRow
    <3>4. QED
      BY <2>3, <3>2, <3>3 DEF OnGranted
  <2>4. CASE OnNoOverride(f)
    <3>1. rev' = rev /\ key' = key
      BY <2>4 DEF OnNoOverride
    <3>2. CASE UNCHANGED <<row, highTerm>>
      BY <3>1, <3>2 DEF StoreMove, Still, SameRow
    <3>3. CASE StoreWrite(Host(f), coordRev[Host(f)])
      <4>1. /\ coordRev[Host(f)] = key.rev /\ coordRev[Host(f)] # 0
            => Host(f) = key.alias
        BY <2>h DEF OneWriter
      <4>2. QED
        BY <2>h, <3>1, <3>3, <4>1, WriteMoves DEF StoreMove
    <3>4. QED
      BY <2>4, <3>2, <3>3 DEF OnNoOverride
  <2>5. CASE \/ LoopExit(f) \/ OnVacancy(f) \/ OnOtherKey(f) \/ OnReleased(f)
             \/ OnGrantRefused(f) \/ OnCreateFailed(f) \/ OnUndone(f)
             \/ OnNotRenewed(f) \/ OnRenewed(f) \/ OnOverride(f) \/ OnWritten(f)
    BY <2>5, QuietFiberStep, QuietMoves DEF StoreMove
  <2>6. QED
    BY <2>1, <2>2, <2>3, <2>4, <2>5 DEF FiberStep
<1>2. CASE \E n \in Instances : \/ Start(n) \/ Stop(n) \/ StopDrained(n)
                                 \/ StopRevoked(n) \/ Crash(n)
  BY <1>2, QuietInstanceStep, QuietMoves DEF StoreMove
<1>3. CASE AppointManually
  BY <1>3 DEF AppointManually, StoreMove, Overridden
<1>4. CASE OverrideLapses
  <2>1. SameRow
    BY <1>4 DEF OverrideLapses, TypeOK, Rows, SameRow
  <2>2. QED
    BY <1>4, <2>1 DEF OverrideLapses, StoreMove, Still
<1>5. CASE Calms \/ \E l \in Leases : LeaseExpires(l)
  BY <1>5 DEF Calms, LeaseExpires, EndLease, store, StoreMove, Still, SameRow
<1>6. CASE \E q \in late : LateArrives(q)
  <2>1. PICK q \in late : LateArrives(q)
    BY <1>6
  <2>2. q \in Requests
    BY DEF TypeOK
  <2>3. CASE UNCHANGED <<rev, key, row, highTerm>>
    BY <2>3 DEF StoreMove, Still, SameRow
  <2>4. CASE /\ q.op = "create" /\ StoreCreate(q.from, q.lease)
             /\ UNCHANGED <<row, highTerm>>
    <3>1. q.from \in Instances /\ q.lease \in LeaseIds
      BY <2>2, <2>4 DEF Requests, LeaseIds
    <3>2. QED
      BY <2>4, <3>1, CreateMoves DEF StoreMove
  <2>5. CASE /\ q.op = "write" /\ StoreWrite(q.from, q.rev)
             /\ UNCHANGED <<rev, key>>
    <3>1. q.from \in Instances
      BY <2>2, <2>5 DEF Requests
    <3>2. q.rev = key.rev /\ q.rev # 0 => q.from = key.alias
      BY <2>5 DEF OneWriter
    <3>3. QED
      BY <2>5, <3>1, <3>2, WriteMoves DEF StoreMove
  <2>6. QED
    BY <2>1, <2>3, <2>4, <2>5 DEF LateArrives
<1>7. CASE UNCHANGED vars
  BY <1>7 DEF vars, store, StoreMove, Still, SameRow
<1>8. QED
  BY <1>1, <1>2, <1>3, <1>4, <1>5, <1>6, <1>7 DEF Next

\* Of these only Written puts an instance's name and a new term in the row.
LEMMA MoveNotForeign ==
    ASSUME StoreMove,
           <<row'.term, row'.by>> # <<row.term, row.by>>,
           row'.by \in Instances
    PROVE  key.rev = 0 \/ key.alias = row'.by
BY InstancesAssumption
DEF StoreMove, Still, Created, Written, Overridden, SameRow

\* No coordinator's write replaces the row while the key names another.
THEOREM NoForeignWrites == Spec => NoForeignWrite
<1>1. TypeOK /\ OneWriter /\ [Next]_vars
      => [ /\ <<row'.term, row'.by>> # <<row.term, row.by>>
           /\ row'.by \in Instances
           => key.rev = 0 \/ key.alias = row'.by ]_vars
  BY NextMoves, MoveNotForeign
<1>2. QED
  BY <1>1, TypeCorrect, WitnessIsOwners, PTL DEF Spec, NoForeignWrite

LEMMA MoveNamesKey ==
    ASSUME TypeOK, KeyNamed, StoreMove
    PROVE  KeyNamed'
<1>1. CASE Still
  BY <1>1 DEF Still, KeyNamed, KeyAbsent
<1>2. CASE Created
  <2>1. rev + 1 # 0
    BY BoundsAssumption DEF TypeOK, Revisions
  <2>2. QED
    BY <1>2, <2>1 DEF Created, KeyNamed
<1>3. CASE Written \/ Overridden
  BY <1>3 DEF Written, Overridden, KeyNamed
<1>4. QED
  BY <1>1, <1>2, <1>3 DEF StoreMove

\* The four kinds of change, seen in FencedRow.
LEMMA MoveImplements ==
    ASSUME TypeOK, LatestKey, KeyNamed, StoreMove
    PROVE  [Fenced!Next]_(Fenced!vars)
<1>1. CASE Still
  <2>1. CASE key' = key
    BY <1>1, <2>1 DEF Still, SameRow, Fenced!vars
  <2>2. CASE key' # key
    <3>1. key' = KeyAbsent /\ key.rev # 0
      BY <1>1, <2>2 DEF Still, KeyNamed
    <3>2. key'.alias = NoOne /\ key.alias # NoOne
      BY <3>1, InstancesAssumption DEF KeyNamed, KeyAbsent
    <3>3. Fenced!Release
      BY <1>1, <3>2 DEF Still, SameRow, Fenced!Release
    <3>4. QED
      BY <3>3 DEF Fenced!Next
  <2>3. QED
    BY <2>1, <2>2
<1>2. CASE Created
  <2>1. PICK n \in Instances, l \in LeaseIds :
          /\ key.rev = 0
          /\ rev' = rev + 1
          /\ key' = [rev |-> rev + 1, alias |-> n, lease |-> l]
          /\ SameRow
    BY <1>2 DEF Created
  <2>2. key.alias = NoOne /\ key'.alias = n
    BY <2>1 DEF KeyNamed, KeyAbsent
  <2>3. Fenced!Claim(n)
    BY <2>1, <2>2 DEF SameRow, Fenced!Claim
  <2>4. QED
    BY <2>3 DEF Fenced!Next
<1>3. CASE Written
  <2>1. PICK n \in Instances :
          /\ rev' = rev /\ key' = key
          /\ row'.term = key.rev /\ row'.by = n
          /\ key.rev # 0 => n = key.alias
    BY <1>3 DEF Written
  <2>2. CASE key.rev = 0
    <3>1. key.alias = NoOne
      BY <2>2 DEF KeyNamed, KeyAbsent
    <3>2. Fenced!AppointUnfenced(n)
      BY <2>1, <2>2, <3>1 DEF Fenced!AppointUnfenced
    <3>3. QED
      BY <3>2 DEF Fenced!Next
  <2>3. CASE key.rev # 0
    <3>1. Fenced!Appoint(n)
      BY <2>1, <2>3 DEF LatestKey, Fenced!Appoint
    <3>2. QED
      BY <3>1 DEF Fenced!Next
  <2>4. QED
    BY <2>2, <2>3
<1>4. CASE Overridden
  <2>1. Fenced!AppointUnfenced(Manual)
    BY <1>4 DEF Overridden, Fenced!AppointUnfenced
  <2>2. QED
    BY <2>1 DEF Fenced!Next
<1>5. QED
  BY <1>1, <1>2, <1>3, <1>4 DEF StoreMove

LEMMA InitImplements == Init => Fenced!Init /\ KeyNamed
BY DEF Init, Fenced!Init, KeyNamed, KeyAbsent, NoRow

\* The coordinators, with everything that can go wrong around them, implement
\* the fenced row.
THEOREM CoordinatorImplementsFencedRow == Spec => ImplementsFencedRow
<1>1. FInv => OneWriter /\ LatestKey
  BY DEF FInv
<1>2. TypeOK /\ OneWriter /\ [Next]_vars => StoreMove
  BY NextMoves
<1>3. TypeOK /\ KeyNamed /\ StoreMove => KeyNamed'
  BY MoveNamesKey
<1>4. TypeOK /\ LatestKey /\ KeyNamed /\ StoreMove
      => [Fenced!Next]_(Fenced!vars)
  BY MoveImplements
<1>5. Spec => []KeyNamed
  BY <1>1, <1>2, <1>3, InitImplements, TypeCorrect, FencingInvariant, PTL DEF Spec
<1>6. QED
  BY <1>1, <1>2, <1>4, <1>5, InitImplements, TypeCorrect, FencingInvariant, PTL
  DEF Spec, ImplementsFencedRow, Fenced!Spec

-----------------------------------------------------------------------------
(***************************************************************************)
(* The lease behind a reign.  A key dies with its lease, so a lease that   *)
(* created the key and is alive still carries it; between the creation and *)
(* OnCreated the lease is known to the claiming fiber only.                *)
(***************************************************************************)

ClaimBacked ==
    \A f \in Fibers :
        pc[f] = "create" /\ loc[f].rev # 0 /\ loc[f].lease \in live =>
            key.rev # 0 /\ key.alias = Host(f) /\ key.lease = loc[f].lease

LInv == LeaseBacksReign /\ ClaimBacked

\* A step in which leases and the key may end, and nobody comes by a lease.
Loses ==
    /\ live' \subseteq live
    /\ key' = key \/ key.lease \notin live'
    /\ \A n \in Instances : leaseId'[n] \in {leaseId[n], NoLease}
    /\ \A g \in Fibers :
         loc'[g].rev = 0 \/ (loc'[g] = loc[g] /\ pc'[g] = pc[g])

LEMMA NoLeaseLives == ASSUME TypeOK PROVE NoLease \notin live
BY LeasesAssumption DEF TypeOK

LEMMA LosesBacked ==
    ASSUME TypeOK, LInv, Loses
    PROVE  LInv'
<1>1. LeaseBacksReign'
  <2> SUFFICES ASSUME NEW n \in Instances, leaseId'[n] \in live'
               PROVE  /\ key'.rev # 0 /\ key'.alias = n
                      /\ key'.lease = leaseId'[n]
    BY DEF LeaseBacksReign
  <2>1. leaseId'[n] = leaseId[n] /\ leaseId[n] \in live
    BY NoLeaseLives DEF Loses
  <2>2. key.rev # 0 /\ key.alias = n /\ key.lease = leaseId[n]
    BY <2>1 DEF LInv, LeaseBacksReign
  <2>3. key' = key
    BY <2>1, <2>2 DEF Loses
  <2>4. QED
    BY <2>1, <2>2, <2>3
<1>2. ClaimBacked'
  <2> SUFFICES ASSUME NEW f \in Fibers, pc'[f] = "create", loc'[f].rev # 0,
                      loc'[f].lease \in live'
               PROVE  /\ key'.rev # 0 /\ key'.alias = Host(f)
                      /\ key'.lease = loc'[f].lease
    BY DEF ClaimBacked, Host
  <2>1. loc'[f] = loc[f] /\ pc'[f] = pc[f] /\ loc[f].lease \in live
    BY DEF Loses
  <2>2. /\ key.rev # 0 /\ key.alias = Host(f)
        /\ key.lease = loc[f].lease
    BY <2>1 DEF LInv, ClaimBacked
  <2>3. key' = key
    BY <2>1, <2>2 DEF Loses
  <2>4. QED
    BY <2>1, <2>2, <2>3
<1>3. QED
  BY <1>1, <1>2 DEF LInv

LEMMA EndLeaseLoses ==
    ASSUME NEW l, EndLease(l)
    PROVE  live' \subseteq live /\ (key' = key \/ key.lease \notin live')
BY DEF EndLease

LEMMA TryRevokeLoses ==
    ASSUME NEW l, TryRevoke(l)
    PROVE  live' \subseteq live /\ (key' = key \/ key.lease \notin live')
BY EndLeaseLoses DEF TryRevoke

LEMMA StepDownLoses ==
    ASSUME TypeOK, NEW n, StepDown(n)
    PROVE  \A m \in Instances : leaseId'[m] \in {leaseId[m], NoLease}
BY DEF StepDown, Crown, TypeOK

LEMMA RevokeOnStopLoses ==
    ASSUME NEW n, RevokeOnStop(n)
    PROVE  live' \subseteq live /\ (key' = key \/ key.lease \notin live')
BY TryRevokeLoses DEF RevokeOnStop

LEMMA LosingFiberStep ==
    ASSUME TypeOK, NEW f \in Fibers,
           \/ LoopExit(f) \/ OnOwnKey(f) \/ OnOtherKey(f) \/ OnReleased(f)
           \/ OnGrantRefused(f) \/ OnCreateFailed(f) \/ OnUndone(f)
           \/ OnNotRenewed(f) \/ OnRenewed(f) \/ OnOverride(f)
           \/ OnNoOverride(f) \/ OnWritten(f)
    PROVE  Loses
<1>1. CASE LoopExit(f)
  BY <1>1, AwaitForgets, BlankForgets, TryRevokeLoses, StepDownLoses
  DEF LoopExit, Loses
<1>2. CASE OnOwnKey(f)
  <2>1. \A n \in Instances : leaseId'[n] = leaseId[n]
    BY <1>2 DEF OnOwnKey, Crown, TypeOK
  <2>2. QED
    BY <1>2, <2>1, RenewForgets DEF OnOwnKey, Loses, store
<1>3. CASE OnOtherKey(f)
  BY <1>3, AwaitForgets, BlankForgets, TryRevokeLoses, StepDownLoses
  DEF OnOtherKey, Loses
<1>4. CASE OnReleased(f) \/ OnGrantRefused(f) \/ OnUndone(f)
  BY <1>4, RenewForgets
  DEF OnReleased, OnGrantRefused, OnUndone, Loses, store, state
<1>5. CASE OnCreateFailed(f)
  BY <1>5, AwaitForgets, BlankForgets, TryRevokeLoses
  DEF OnCreateFailed, Loses, state
<1>6. CASE OnNotRenewed(f)
  BY <1>6, AwaitForgets, BlankForgets, StepDownLoses
  DEF OnNotRenewed, Loses, store
<1>7. CASE OnRenewed(f) \/ OnOverride(f)
  BY <1>7, AwaitForgets, BlankForgets
  DEF OnRenewed, OnOverride, Loses, store, state
<1>8. CASE OnNoOverride(f)
  <2>1. \/ Await(f, "idle", Blank)
        \/ Await(f, "write", [Blank EXCEPT !.ok = TRUE])
        \/ Await(f, "write", [Blank EXCEPT !.conflict = TRUE])
        \/ Await(f, "write", Blank)
    BY <1>8 DEF OnNoOverride
  <2>2. \A g \in Fibers :
          loc'[g].rev = 0 \/ (loc'[g] = loc[g] /\ pc'[g] = pc[g])
    BY <2>1, AwaitForgets, BlankForgets
  <2>3. QED
    BY <1>8, <2>2 DEF OnNoOverride, Loses, state
<1>9. CASE OnWritten(f)
  BY <1>9, AwaitForgets, BlankForgets, StepDownLoses DEF OnWritten, Loses, store
<1>10. QED
  BY <1>1, <1>2, <1>3, <1>4, <1>5, <1>6, <1>7, <1>8, <1>9

LEMMA LosingInstanceStep ==
    ASSUME TypeOK, NEW n \in Instances,
           Start(n) \/ Stop(n) \/ StopDrained(n) \/ StopRevoked(n) \/ Crash(n)
    PROVE  Loses
<1>q. \A g \in Fibers :
        loc'[g].rev = 0 \/ (loc'[g] = loc[g] /\ pc'[g] = pc[g])
  BY QuietInstanceStep DEF Quiet
<1>1. CASE Start(n)
  BY <1>1, <1>q, StepDownLoses DEF Start, Loses, store
<1>2. CASE Stop(n)
  BY <1>2, <1>q, RevokeOnStopLoses DEF Stop, Loses
<1>3. CASE StopDrained(n)
  BY <1>3, <1>q, RevokeOnStopLoses DEF StopDrained, Loses
<1>4. CASE StopRevoked(n)
  BY <1>4, <1>q, StepDownLoses DEF StopRevoked, Loses, store
<1>5. CASE Crash(n)
  BY <1>5, <1>q, StepDownLoses DEF Crash, Loses, store
<1>6. QED
  BY <1>1, <1>2, <1>3, <1>4, <1>5

\* A read gives no lease, and a fiber that reads waits for no creation.
LEMMA LoopTopBacked ==
    ASSUME TypeOK, LInv, NEW f \in Fibers, LoopTop(f)
    PROVE  LInv'
<1>1. live' = live /\ key' = key /\ leaseId' = leaseId
  BY DEF LoopTop, store, state
<1>2. /\ pc'[f] = "read"
      /\ \A g \in Fibers \ {f} : loc'[g] = loc[g] /\ pc'[g] = pc[g]
  BY DEF LoopTop, Await, TypeOK
<1>3. LeaseBacksReign'
  BY <1>1 DEF LInv, LeaseBacksReign
<1>4. ClaimBacked'
  BY <1>1, <1>2 DEF LInv, ClaimBacked, Host
<1>5. QED
  BY <1>3, <1>4 DEF LInv

\* A lease that is granted is nobody's yet.
LEMMA OnVacancyBacked ==
    ASSUME TypeOK, LInv, NEW f \in Fibers, OnVacancy(f)
    PROVE  LInv'
<1>1. key' = key /\ leaseId' = leaseId
  BY DEF OnVacancy, state
<1>2. live' = live \/ \E l \in Leases : Unused(l) /\ live' = live \cup {l}
  <2>1. \A l \in FreshLease : l \in Leases /\ Unused(l)
    BY DEF FreshLease
  <2>2. live' = live \/ \E l \in FreshLease : live' = live \cup {l}
    BY DEF OnVacancy
  <2>3. QED
    BY <2>1, <2>2
<1>3. \A g \in Fibers :
        loc'[g].rev = 0 \/ (loc'[g] = loc[g] /\ pc'[g] = pc[g])
  BY QuietFiberStep DEF Quiet
<1>4. LeaseBacksReign'
  BY <1>1, <1>2 DEF LInv, LeaseBacksReign, Unused
<1>5. ClaimBacked'
  BY <1>1, <1>2, <1>3 DEF LInv, ClaimBacked, Host, Unused
<1>6. QED
  BY <1>4, <1>5 DEF LInv

\* A key can be created only while there is none: then no lease in STATE or in
\* a won claim is alive, and the new key is its claimant's.
LEMMA CreateBacked ==
    ASSUME TypeOK, LInv, NEW n \in Instances, NEW l, CanCreate(l),
           rev' = rev + 1, key' = [rev |-> rev + 1, alias |-> n, lease |-> l],
           live' = live, leaseId' = leaseId,
           \A g \in Fibers :
             \/ loc'[g].rev = 0
             \/ loc'[g] = loc[g] /\ pc'[g] = pc[g]
             \/ loc'[g].lease = l /\ Host(g) = n
    PROVE  LInv'
<1>1. /\ \A m \in Instances : leaseId[m] \notin live
      /\ \A g \in Fibers :
           pc[g] = "create" /\ loc[g].rev # 0 => loc[g].lease \notin live
  BY DEF CanCreate, LInv, LeaseBacksReign, ClaimBacked
<1>2. key'.rev # 0 /\ key'.alias = n /\ key'.lease = l
  BY BoundsAssumption DEF TypeOK, Revisions
<1>3. LeaseBacksReign'
  BY <1>1 DEF LeaseBacksReign
<1>4. ClaimBacked'
  BY <1>1, <1>2 DEF ClaimBacked, Host
<1>5. QED
  BY <1>3, <1>4 DEF LInv

LEMMA OnGrantedBacked ==
    ASSUME TypeOK, LInv, NEW f \in Fibers, OnGranted(f)
    PROVE  LInv'
<1> DEFINE l == loc[f].lease
<1> DEFINE won == [Blank EXCEPT !.lease = l, !.rev = rev + 1]
<1> DEFINE failed == [Blank EXCEPT !.lease = l]
<1>h. Host(f) \in Instances
  BY HostTyped
<1>w. won.lease = l /\ failed.rev = 0
  BY DEF Blank
<1>u. live' = live /\ leaseId' = leaseId
  BY DEF OnGranted, state
<1>1. CASE StoreCreate(Host(f), l) /\ CanCreate(l)
  <2>1. /\ rev' = rev + 1
        /\ key' = [rev |-> rev + 1, alias |-> Host(f), lease |-> l]
    BY <1>1 DEF StoreCreate
  <2>2. \A g \in Fibers :
          \/ loc'[g].rev = 0
          \/ loc'[g] = loc[g] /\ pc'[g] = pc[g]
          \/ loc'[g].lease = l /\ Host(g) = Host(f)
    <3>1. Await(f, "create", won) \/ Await(f, "create", failed)
      BY DEF OnGranted
    <3>2. loc'[f] \in {won, failed}
      BY <3>1 DEF Await, TypeOK
    <3>3. \A g \in Fibers \ {f} : loc'[g] = loc[g] /\ pc'[g] = pc[g]
      BY <3>1 DEF Await, TypeOK
    <3>4. QED
      BY <3>2, <3>3, <1>w
  <2>3. QED
    BY <1>1, <1>h, <1>u, <2>1, <2>2, CreateBacked
<1>2. CASE Await(f, "create", failed) /\ key' = key
  BY <1>2, <1>u, <1>w, AwaitForgets, LosesBacked DEF Loses
<1>3. CASE /\ StoreCreate(Host(f), l) /\ ~CanCreate(l)
           /\ Await(f, "create", failed)
  BY <1>2, <1>3 DEF StoreCreate
<1>4. QED
  BY <1>1, <1>2, <1>3 DEF OnGranted

\* STATE takes over the lease of the claim that was won.
LEMMA OnCreatedBacked ==
    ASSUME TypeOK, LInv, NEW f \in Fibers, OnCreated(f)
    PROVE  LInv'
<1>1. live' = live /\ key' = key
  BY DEF OnCreated, store
<1>2. \A n \in Instances :
        leaseId'[n] = leaseId[n] \/ (n = Host(f) /\ leaseId'[n] = loc[f].lease)
  BY DEF OnCreated, Crown, TypeOK
<1>3. \A g \in Fibers :
        loc'[g].rev = 0 \/ (loc'[g] = loc[g] /\ pc'[g] = pc[g])
  BY RenewForgets DEF OnCreated
<1>4. pc[f] = "create" /\ loc[f].rev # 0
  BY DEF OnCreated
<1>5. LeaseBacksReign'
  BY <1>1, <1>2, <1>4 DEF LInv, LeaseBacksReign, ClaimBacked
<1>6. ClaimBacked'
  BY <1>1, <1>3 DEF LInv, ClaimBacked, Host
<1>7. QED
  BY <1>5, <1>6 DEF LInv

LEMMA LateArrivesBacked ==
    ASSUME TypeOK, LInv, NEW q \in late, LateArrives(q)
    PROVE  LInv'
<1>u. live' = live /\ leaseId' = leaseId /\ pc' = pc /\ loc' = loc
  BY DEF LateArrives, state
<1>1. CASE q.op = "create" /\ StoreCreate(q.from, q.lease) /\ CanCreate(q.lease)
  <2>1. q.from \in Instances
    BY <1>1 DEF TypeOK, Requests
  <2>2. QED
    BY <1>1, <1>u, <2>1, CreateBacked DEF StoreCreate
<1>2. CASE key' = key
  BY <1>2, <1>u, LosesBacked DEF Loses
<1>3. QED
  BY <1>1, <1>2 DEF LateArrives, StoreCreate

LEMMA NextBacked == TypeOK /\ LInv /\ [Next]_vars => LInv'
<1> SUFFICES ASSUME TypeOK, LInv, [Next]_vars PROVE LInv'
  OBVIOUS
<1>1. CASE \E f \in Fibers : FiberStep(f)
  <2>1. PICK f \in Fibers : FiberStep(f)
    BY <1>1
  <2>2. CASE LoopTop(f)
    BY <2>2, LoopTopBacked
  <2>3. CASE OnVacancy(f)
    BY <2>3, OnVacancyBacked
  <2>4. CASE OnGranted(f)
    BY <2>4, OnGrantedBacked
  <2>5. CASE OnCreated(f)
    BY <2>5, OnCreatedBacked
  <2>6. CASE \/ LoopExit(f) \/ OnOwnKey(f) \/ OnOtherKey(f) \/ OnReleased(f)
             \/ OnGrantRefused(f) \/ OnCreateFailed(f) \/ OnUndone(f)
             \/ OnNotRenewed(f) \/ OnRenewed(f) \/ OnOverride(f)
             \/ OnNoOverride(f) \/ OnWritten(f)
    BY <2>6, LosingFiberStep, LosesBacked
  <2>7. QED
    BY <2>1, <2>2, <2>3, <2>4, <2>5, <2>6 DEF FiberStep
<1>2. CASE \E n \in Instances : \/ Start(n) \/ Stop(n) \/ StopDrained(n)
                                 \/ StopRevoked(n) \/ Crash(n)
  BY <1>2, LosingInstanceStep, LosesBacked
<1>3. CASE AppointManually \/ OverrideLapses \/ Calms
  BY <1>3, LosesBacked
  DEF AppointManually, OverrideLapses, Calms, Loses, store, state
<1>4. CASE \E l \in Leases : LeaseExpires(l)
  BY <1>4, EndLeaseLoses, LosesBacked DEF LeaseExpires, Loses, state
<1>5. CASE \E q \in late : LateArrives(q)
  BY <1>5, LateArrivesBacked
<1>6. CASE UNCHANGED vars
  BY <1>6, LosesBacked DEF vars, store, state, Loses
<1>7. QED
  BY <1>1, <1>2, <1>3, <1>4, <1>5, <1>6 DEF Next

LEMMA InitBacked == Init => LInv
BY DEF Init, LInv, LeaseBacksReign, ClaimBacked

\* A live lease in STATE is the one the coordinator key hangs on.
THEOREM LiveLeaseIsKeys == Spec => []LeaseBacksReign
<1>1. LInv => LeaseBacksReign
  BY DEF LInv
<1>2. QED
  BY <1>1, NextBacked, InitBacked, TypeCorrect, PTL DEF Spec

\* However claims, late creations and restarts interleave, no two instances
\* hold a lease in STATE that etcd would renew.
THEOREM OneLiveCoordinator ==
    Spec => [](\A m, n \in Instances :
                 leaseId[m] \in live /\ leaseId[n] \in live => m = n)
<1>1. LeaseBacksReign => \A m, n \in Instances :
        leaseId[m] \in live /\ leaseId[n] \in live => m = n
  BY DEF LeaseBacksReign
<1>2. QED
  BY <1>1, LiveLeaseIsKeys, PTL
=============================================================================
