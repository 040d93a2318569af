------------------------------- MODULE Watcher -------------------------------
(***************************************************************************)
(* The appointment watcher of one instance: failover/watcher.lua with      *)
(* fencing.lua, watchdog.lua, failsafe.lua and pause.lua.                  *)
(*                                                                         *)
(* Fibers of one process share STATE: reactions (react_once, from the poll *)
(* loop, the config watch and the appointment watch), self-fencing loops   *)
(* and dead-man watchdogs.  A fiber yields at its etcd calls, at the       *)
(* failsafe poll, at box.ctl.promote/demote and at its sleep, so an action *)
(* is one run of a fiber from one of these to the next.                    *)
(*                                                                         *)
(* Time is discrete: Tick moves the monotonic clock, and does not pass the *)
(* wake-up of a sleeping fencing loop or watchdog.  Reads and box.ctl      *)
(* calls take any time.  The rest of the cluster is what the calls answer: *)
(* any row, any pause, any peer taking the synchro queue at any moment.    *)
(* Other fibers of this process (a shutdown's drain, an operator's promote *)
(* or demote, a recovery action) call box.ctl without asking the watcher's *)
(* guard: one such call at a time is modelled, since Tarantool refuses a   *)
(* second one, which then has no effect.                                   *)
(***************************************************************************)
EXTENDS Naturals

CONSTANTS
    Options,    \* what start and reconfigure may be given (see Timings)
    Slots,      \* names of fibers of a kind that may exist at a time
    AgeCap,     \* longest ttl; ages past every deadline are alike
    ProbeCap,   \* longest probe interval
    MaxTerm,    \* bound: appointment terms read
    MaxPause,   \* bound: ticks of a maintenance pause
    MaxStarts,  \* bound: starts of the watcher in the life of a process
    RpcTicks    \* timeout of the failsafe poll

ASSUME OptionsAssumption ==
    \A o \in Options :
        /\ o.ttl \in 1..AgeCap /\ o.safety \in Nat /\ o.probe \in 1..ProbeCap
        /\ o.watchdog \in BOOLEAN /\ o.failsafe \in BOOLEAN
ASSUME WatcherBoundsAssumption ==
    /\ AgeCap \in Nat /\ ProbeCap \in Nat /\ MaxTerm \in Nat
    /\ MaxPause \in Nat /\ MaxStarts \in Nat /\ RpcTicks \in Nat \ {0}

VARIABLES
    \* STATE of watcher.lua
    enabled,    \* STATE.enabled; STATE.stop_flag is its negation once started
    config,     \* the options STATE.config was built from
    age,        \* ticks since last_leader_confirm_mono
    etcdOk,     \* last_etcd_ok
    applied,    \* last_applied_term
    paused,     \* ticks until paused_until
    ctlBusy,    \* ctl_in_progress
    reacting,   \* react_in_progress
    stopDogs,   \* STATE.stop_flag of watchdog.lua
    \* the instance
    readOnly,   \* box.cfg.read_only
    owner,      \* box.info.synchro.queue.owner
    others,     \* TRUE while a fiber that is not the watcher's is in box.ctl
    \* fibers
    react,      \* reactions
    fence,      \* fencing loops
    dogs,       \* watchdog fibers
    \* history
    starts,     \* starts of the watcher since the process booted
    unfenced,   \* ticks a leader has outlived renew_deadline
    overdue     \* ticks a leader has outlived hard_deadline

given == <<enabled, config, stopDogs, starts, others>>
lease == <<age, etcdOk, applied, paused>>
box == <<readOnly, owner>>
vars == <<given, lease, box, ctlBusy, reacting, react, fence, dogs,
          unfenced, overdue>>

\* build_config: renew_deadline and hard_deadline.
RenewDeadline(o) ==
    IF o.safety < o.ttl THEN o.ttl - o.safety
    ELSE IF o.ttl > 1 THEN o.ttl - 1 ELSE 1
HardDeadline(o) == o.ttl

\* A reaction is parked in a read, in prepare_to_promote with the term of its
\* row, or in box.ctl; a fencing loop sleeps, polls the peers or demotes; a
\* watchdog fiber keeps the deadlines it was started with.
Reactions == [pc : {"off", "pause", "row", "prepare", "promote", "demote"},
              term : 0..MaxTerm]
Fences == [pc : {"off", "sleep", "failsafe", "demote"}, wait : Nat]
Dogs == [pc : {"off", "sleep"}, wait : Nat, hard : Nat, probe : Nat]

NoReaction == [pc |-> "off", term |-> 0]
NoFence == [pc |-> "off", wait |-> 0]
NoDog == [pc |-> "off", wait |-> 0, hard |-> 0, probe |-> 0]

\* Every variable has its type.
TypeOK ==
    /\ enabled \in BOOLEAN /\ config \in Options
    /\ age \in 0..AgeCap /\ etcdOk \in BOOLEAN
    /\ applied \in 0..MaxTerm /\ paused \in 0..MaxPause
    /\ ctlBusy \in BOOLEAN /\ reacting \in BOOLEAN /\ stopDogs \in BOOLEAN
    /\ readOnly \in BOOLEAN /\ owner \in {"me", "peer", "none"}
    /\ others \in BOOLEAN
    /\ react \in [Slots -> Reactions]
    /\ fence \in [Slots -> Fences]
    /\ dogs \in [Slots -> Dogs]
    /\ starts \in 0..MaxStarts
    /\ unfenced \in Nat /\ overdue \in Nat

\* A process boots read-only, without a watcher.
Init ==
    /\ enabled = FALSE /\ config \in Options
    /\ age = 0 /\ etcdOk = FALSE /\ applied = 0 /\ paused = 0
    /\ ctlBusy = FALSE /\ reacting = FALSE /\ stopDogs = FALSE
    /\ readOnly = TRUE /\ owner \in {"me", "peer", "none"} /\ others = FALSE
    /\ react = [s \in Slots |-> NoReaction]
    /\ fence = [s \in Slots |-> NoFence]
    /\ dogs = [s \in Slots |-> NoDog]
    /\ starts = 0 /\ unfenced = 0 /\ overdue = 0

EffectivelyLeader == ~readOnly /\ owner = "me"

-----------------------------------------------------------------------------
(***************************************************************************)
(* How long a leader has outlived its deadlines, for the properties.       *)
(***************************************************************************)

Outlives(deadline) ==
    enabled /\ EffectivelyLeader /\ paused = 0 /\ age >= deadline

Unfenced == Outlives(RenewDeadline(config)) /\ ~ctlBusy
Overdue == Outlives(HardDeadline(config)) /\ config.watchdog

Measure(elapsed) ==
    /\ unfenced' = IF Unfenced /\ Unfenced' THEN unfenced + elapsed ELSE 0
    /\ overdue' = IF Overdue /\ Overdue' THEN overdue + elapsed ELSE 0

-----------------------------------------------------------------------------
(***************************************************************************)
(* react_once, one action per call it returns from.                        *)
(***************************************************************************)

EndReaction(s) ==
    /\ react' = [react EXCEPT ![s] = NoReaction]
    /\ reacting' = FALSE

\* Mutant: react_once does not look at react_in_progress.
ReactUnguarded(s) ==
    /\ enabled
    /\ react[s].pc = "off"
    /\ reacting' = TRUE
    /\ react' = [react EXCEPT ![s].pc = "pause"]
    /\ UNCHANGED <<given, lease, box, ctlBusy, fence, dogs>>
    /\ Measure(0)

\* A poll or a watch reacts unless a reaction is under way: it reads the
\* pause key.
React(s) ==
    /\ enabled
    /\ ~reacting
    /\ react[s].pc = "off"
    /\ reacting' = TRUE
    /\ react' = [react EXCEPT ![s].pc = "pause"]
    /\ UNCHANGED <<given, lease, box, ctlBusy, fence, dogs>>
    /\ Measure(0)

\* There is no etcd client: the reaction ends at once.
ReactWithoutClient ==
    /\ enabled
    /\ ~reacting
    /\ etcdOk' = FALSE
    /\ UNCHANGED <<given, age, applied, paused, box, ctlBusy, reacting,
                   react, fence, dogs>>
    /\ Measure(0)

\* The pause is read; a failed read keeps the window known so far.
OnPause(s) ==
    /\ react[s].pc = "pause"
    /\ paused' \in {paused} \cup 0..MaxPause
    /\ react' = [react EXCEPT ![s].pc = "row"]
    /\ UNCHANGED <<given, age, etcdOk, applied, box, ctlBusy, reacting,
                   fence, dogs>>
    /\ Measure(0)

\* The row cannot be read, or there is none.
OnNoRow(s) ==
    /\ react[s].pc = "row"
    /\ etcdOk' \in BOOLEAN
    /\ EndReaction(s)
    /\ UNCHANGED <<given, age, applied, paused, box, ctlBusy, fence, dogs>>
    /\ Measure(0)

\* fencing.appointment_is_stale: a missing term (0) never is.
Stale(term) == term # 0 /\ term < applied

OnStaleRow(s) ==
    /\ react[s].pc = "row"
    /\ \E term \in 0..MaxTerm : Stale(term)
    /\ etcdOk' = TRUE
    /\ EndReaction(s)
    /\ UNCHANGED <<given, age, applied, paused, box, ctlBusy, fence, dogs>>
    /\ Measure(0)

\* Mutant: the term after the row's is recorded.
AcceptNext(mine, term) ==
    /\ ~Stale(term)
    /\ etcdOk' = TRUE
    /\ applied' = IF term >= applied THEN term + 1 ELSE applied
    /\ age' = IF mine THEN 0 ELSE age

\* A row that is not stale is recorded, and confirms the leader it names.
Accept(mine, term) ==
    /\ ~Stale(term)
    /\ etcdOk' = TRUE
    /\ applied' = IF term > applied THEN term ELSE applied
    /\ age' = IF mine THEN 0 ELSE age

\* The row names this instance and it does not lead: prepare_to_promote.
OnRowToPromote(s) ==
    /\ react[s].pc = "row"
    /\ ~EffectivelyLeader
    /\ \E term \in 0..MaxTerm :
         /\ Accept(TRUE, term)
         /\ react' = [react EXCEPT ![s] = [pc |-> "prepare", term |-> term]]
    /\ UNCHANGED <<given, paused, box, ctlBusy, reacting, fence, dogs>>
    /\ Measure(0)

\* The row names another instance and this one leads: box.ctl.demote under
\* the guard, or nothing while another box.ctl call runs.
OnRowToDemote(s) ==
    /\ react[s].pc = "row"
    /\ EffectivelyLeader
    /\ \E term \in 0..MaxTerm :
         /\ Accept(FALSE, term)
         /\ IF ctlBusy
            THEN EndReaction(s) /\ ctlBusy' = ctlBusy
            ELSE /\ react' = [react EXCEPT ![s].pc = "demote"]
                 /\ ctlBusy' = TRUE /\ reacting' = reacting
    /\ UNCHANGED <<given, paused, box, fence, dogs>>
    /\ Measure(0)

\* The row names another instance and this one is writable without owning
\* the queue: read-only, unless paused or a box.ctl call runs.
OnRowToReadOnly(s) ==
    /\ react[s].pc = "row"
    /\ ~readOnly /\ owner = "none"
    /\ \E term \in 0..MaxTerm : Accept(FALSE, term)
    /\ readOnly' = (paused = 0 /\ ~ctlBusy)
    /\ EndReaction(s)
    /\ UNCHANGED <<given, paused, owner, ctlBusy, fence, dogs>>
    /\ Measure(0)

\* The instance already is what the row says.
OnRowInPlace(s) ==
    /\ react[s].pc = "row"
    /\ \E term \in 0..MaxTerm :
         \/ EffectivelyLeader /\ Accept(TRUE, term)
         \/ (readOnly \/ owner = "peer") /\ Accept(FALSE, term)
    /\ EndReaction(s)
    /\ UNCHANGED <<given, paused, box, ctlBusy, fence, dogs>>
    /\ Measure(0)

\* prepare_to_promote returns: the sysid check, the catch-up and the
\* vclockkeeper claim are its calls, each of which may defer the promotion.
OnDeferred(s) ==
    /\ react[s].pc = "prepare"
    /\ EndReaction(s)
    /\ UNCHANGED <<given, lease, box, ctlBusy, fence, dogs>>
    /\ Measure(0)

\* Prepared (the row is not read again): read_only = false and box.ctl.promote under the guard, or
\* nothing while another box.ctl call runs.
OnPrepared(s) ==
    /\ react[s].pc = "prepare"
    /\ IF ctlBusy
       THEN EndReaction(s) /\ UNCHANGED <<ctlBusy, readOnly>>
       ELSE /\ ctlBusy' = TRUE
            /\ readOnly' = FALSE
            /\ react' = [react EXCEPT ![s] = [pc |-> "promote", term |-> 0]]
            /\ reacting' = reacting
    /\ UNCHANGED <<given, lease, owner, fence, dogs>>
    /\ Measure(0)

\* box.ctl.promote returns or raises; read_only is not put back.
OnPromoted(s) ==
    /\ react[s].pc = "promote"
    /\ owner' \in {"me", owner}
    /\ ctlBusy' = FALSE
    /\ EndReaction(s)
    /\ UNCHANGED <<given, lease, readOnly, fence, dogs>>
    /\ Measure(0)

\* box.ctl.demote returns, and read_only is set; or it raises, and is not.
OnDemoted(s) ==
    /\ react[s].pc = "demote"
    /\ \/ /\ owner' = IF owner = "me" THEN "none" ELSE owner
          /\ readOnly' = TRUE
       \/ UNCHANGED box
    /\ ctlBusy' = FALSE
    /\ EndReaction(s)
    /\ UNCHANGED <<given, lease, fence, dogs>>
    /\ Measure(0)

Reaction(s) ==
    \/ React(s) \/ OnPause(s)
    \/ OnNoRow(s) \/ OnStaleRow(s) \/ OnRowToPromote(s) \/ OnRowToDemote(s)
    \/ OnRowToReadOnly(s) \/ OnRowInPlace(s)
    \/ OnDeferred(s) \/ OnPrepared(s) \/ OnPromoted(s) \/ OnDemoted(s)

-----------------------------------------------------------------------------
(***************************************************************************)
(* fencing_loop.                                                           *)
(***************************************************************************)

FenceSleeps(f) ==
    fence' = [fence EXCEPT ![f] = [pc |-> "sleep", wait |-> config.probe]]

ShouldFence ==
    paused = 0 /\ EffectivelyLeader /\ age >= RenewDeadline(config)

\* The fence itself: under the guard, give up the queue if another instance
\* takes over, then read_only = true; deferred while a box.ctl call runs.
Fence(f, release) ==
    \/ /\ ctlBusy
       /\ FenceSleeps(f)
       /\ UNCHANGED <<readOnly, age, ctlBusy>>
    \/ /\ ~ctlBusy /\ release
       /\ fence' = [fence EXCEPT ![f] = [pc |-> "demote", wait |-> 0]]
       /\ ctlBusy' = TRUE
       /\ UNCHANGED <<readOnly, age>>
    \/ /\ ~ctlBusy /\ ~release
       /\ readOnly' = TRUE
       /\ age' = 0
       /\ FenceSleeps(f)
       /\ ctlBusy' = ctlBusy

\* The loop wakes for good after stop.
FenceEnds(f) ==
    /\ fence[f].pc = "sleep" /\ fence[f].wait = 0
    /\ ~enabled
    /\ fence' = [fence EXCEPT ![f] = NoFence]
    /\ UNCHANGED <<given, lease, box, ctlBusy, reacting, react, dogs>>
    /\ Measure(0)

FenceIdles(f) ==
    /\ fence[f].pc = "sleep" /\ fence[f].wait = 0
    /\ enabled /\ ~ShouldFence
    /\ FenceSleeps(f)
    /\ UNCHANGED <<given, lease, box, ctlBusy, reacting, react, dogs>>
    /\ Measure(0)

\* Unconfirmed: lost_lease gives up the queue, dcs_down asks the peers first
\* if it may and keeps the queue.
FenceWakes(f) ==
    /\ fence[f].pc = "sleep" /\ fence[f].wait = 0
    /\ enabled /\ ShouldFence
    /\ IF ~etcdOk /\ config.failsafe
       THEN /\ fence' = [fence EXCEPT ![f] = [pc |-> "failsafe",
                                              wait |-> RpcTicks]]
            /\ UNCHANGED <<readOnly, age, ctlBusy>>
       ELSE Fence(f, etcdOk)
    /\ UNCHANGED <<given, etcdOk, applied, paused, owner, reacting, react,
                   dogs>>
    /\ Measure(0)

\* Mutant: a refused failsafe poll waits for the next probe.
PeersRefuseLater(f) ==
    /\ fence[f].pc = "failsafe"
    /\ FenceSleeps(f)
    /\ UNCHANGED <<given, lease, box, ctlBusy, reacting, react, dogs>>
    /\ Measure(0)

\* Some peer does not defer, does not answer or is not there: fence, on the
\* reason found before the poll.
PeersRefuse(f) ==
    /\ fence[f].pc = "failsafe"
    /\ Fence(f, FALSE)
    /\ UNCHANGED <<given, etcdOk, applied, paused, owner, reacting, react,
                   dogs>>
    /\ Measure(0)

\* Every peer defers: that counts as a confirmation.
PeersAccept(f) ==
    /\ fence[f].pc = "failsafe"
    /\ age' = 0
    /\ FenceSleeps(f)
    /\ UNCHANGED <<given, etcdOk, applied, paused, box, ctlBusy, reacting,
                   react, dogs>>
    /\ Measure(0)

\* The fence's demote returns or fails: read-only either way.
FenceDemoted(f) ==
    /\ fence[f].pc = "demote"
    /\ owner' \in {owner, IF owner = "me" THEN "none" ELSE owner}
    /\ readOnly' = TRUE
    /\ ctlBusy' = FALSE
    /\ age' = 0
    /\ FenceSleeps(f)
    /\ UNCHANGED <<given, etcdOk, applied, paused, reacting, react, dogs>>
    /\ Measure(0)

Fencing(f) ==
    \/ FenceEnds(f) \/ FenceIdles(f) \/ FenceWakes(f)
    \/ PeersRefuse(f) \/ PeersAccept(f) \/ FenceDemoted(f)

-----------------------------------------------------------------------------
(***************************************************************************)
(* The dead-man watchdog and the end of the process.                       *)
(***************************************************************************)

\* The process ends, its fibers and STATE with it; it boots read-only.  Who
\* owns the queue is in the journal.
Die ==
    /\ enabled' = FALSE /\ config' = config /\ stopDogs' = FALSE
    /\ age' = 0 /\ etcdOk' = FALSE /\ applied' = 0 /\ paused' = 0
    /\ ctlBusy' = FALSE /\ reacting' = FALSE
    /\ readOnly' = TRUE /\ owner' = owner /\ others' = FALSE
    /\ react' = [s \in Slots |-> NoReaction]
    /\ fence' = [s \in Slots |-> NoFence]
    /\ dogs' = [s \in Slots |-> NoDog]
    /\ starts' = 0
    /\ Measure(0)

DogWakes(d) == dogs[d].pc = "sleep" /\ dogs[d].wait = 0

ShouldTrigger(d) ==
    EffectivelyLeader /\ age >= dogs[d].hard /\ paused = 0

DogEnds(d) ==
    /\ DogWakes(d)
    /\ stopDogs
    /\ dogs' = [dogs EXCEPT ![d] = NoDog]
    /\ UNCHANGED <<given, lease, box, ctlBusy, reacting, react, fence>>
    /\ Measure(0)

DogWatches(d) ==
    /\ DogWakes(d)
    /\ ~stopDogs /\ ~ShouldTrigger(d)
    /\ dogs' = [dogs EXCEPT ![d].wait = dogs[d].probe]
    /\ UNCHANGED <<given, lease, box, ctlBusy, reacting, react, fence>>
    /\ Measure(0)

\* The dead-man switch fires: os.exit(1).
DogBites(d) ==
    /\ DogWakes(d)
    /\ ~stopDogs /\ ShouldTrigger(d)
    /\ Die

Crash == Die

-----------------------------------------------------------------------------
(***************************************************************************)
(* start, reconfigure and stop; the rest of the cluster; time.             *)
(***************************************************************************)

\* Mutant: watchdog.start leaves the stop flag as stop set it.
LaunchDogStopped(o) ==
    /\ stopDogs' = (stopDogs \/ enabled)
    /\ \E d \in Slots :
         /\ dogs[d].pc = "off"
         /\ dogs' = [dogs EXCEPT ![d] =
              [pc |-> "sleep", wait |-> 0, hard |-> HardDeadline(o),
               probe |-> o.probe]]

\* watchdog.start: the stop flag is cleared, and the fiber checks at once.
LaunchDog(o) ==
    /\ stopDogs' = FALSE
    /\ \E d \in Slots :
         /\ dogs[d].pc = "off"
         /\ dogs' = [dogs EXCEPT ![d] =
              [pc |-> "sleep", wait |-> 0, hard |-> HardDeadline(o),
               probe |-> o.probe]]

\* reconcile_watchdog in a start, where watchdog_params is nil.
ReconcileFresh(o) ==
    IF o.watchdog
    THEN LaunchDog(o)
    ELSE UNCHANGED <<stopDogs, dogs>>

\* reconcile_watchdog in a reconfigure: an unchanged watchdog is left alone;
\* any other is stopped and, if wanted, started again.
Reconcile(old, new) ==
    CASE old.watchdog = new.watchdog
         /\ (new.watchdog => /\ HardDeadline(old) = HardDeadline(new)
                             /\ old.probe = new.probe) ->
           UNCHANGED <<stopDogs, dogs>>
      [] new.watchdog /\ (old.watchdog => HardDeadline(old) # HardDeadline(new)
                                          \/ old.probe # new.probe) ->
           LaunchDog(new)
      [] OTHER -> stopDogs' = TRUE /\ dogs' = dogs

\* Mutant: start resets the box.ctl guard along with the other flags.
StartUnguarding ==
    /\ ~enabled /\ starts < MaxStarts
    /\ enabled' = TRUE /\ starts' = starts + 1
    /\ age' = 0 /\ etcdOk' = FALSE /\ applied' = 0 /\ paused' = 0
    /\ reacting' = FALSE /\ ctlBusy' = FALSE
    /\ config' \in Options /\ ReconcileFresh(config')
    /\ \E f \in Slots :
         /\ fence[f].pc = "off"
         /\ fence' = [fence EXCEPT ![f] = [pc |-> "sleep", wait |-> 0]]
    /\ UNCHANGED <<box, others, react>>
    /\ Measure(0)

\* M.start: STATE is reset but for ctl_in_progress, new loops run at once.
Start ==
    /\ ~enabled /\ starts < MaxStarts
    /\ enabled' = TRUE /\ starts' = starts + 1
    /\ age' = 0 /\ etcdOk' = FALSE /\ applied' = 0 /\ paused' = 0
    /\ reacting' = FALSE
    /\ config' \in Options /\ ReconcileFresh(config')
    /\ \E f \in Slots :
         /\ fence[f].pc = "off"
         /\ fence' = [fence EXCEPT ![f] = [pc |-> "sleep", wait |-> 0]]
    /\ UNCHANGED <<box, others, ctlBusy, react>>
    /\ Measure(0)

\* M.reconfigure: the loops read the new config from now on.
Reconfigure ==
    /\ enabled
    /\ config' \in Options \ {config}
    /\ Reconcile(config, config')
    /\ UNCHANGED <<enabled, starts, others, lease, box, ctlBusy, reacting,
                   react, fence>>
    /\ Measure(0)

\* M.stop: the fibers are told, none is awaited or cancelled.
Stop ==
    /\ enabled
    /\ enabled' = FALSE
    /\ stopDogs' = (stopDogs \/ config.watchdog)
    /\ UNCHANGED <<config, starts, others, lease, box, ctlBusy, reacting,
                   react, fence, dogs>>
    /\ Measure(0)

\* A peer promotes itself, or the peer that owns the queue demotes itself.
QueueMoves ==
    /\ \/ owner # "peer" /\ owner' = "peer"
       \/ owner = "peer" /\ owner' = "none"
    /\ UNCHANGED <<given, lease, readOnly, ctlBusy, reacting, react, fence,
                   dogs>>
    /\ Measure(0)

\* Another fiber of this process calls box.ctl and yields in it: the drain of
\* agent.stop or of a shutdown, with the watcher still polling, an operator's
\* promote (which may first clear read_only) or demote, a recovery action.
\* It neither looks at ctl_in_progress nor sets it.
OtherCalls ==
    /\ ~others
    /\ others' = TRUE
    /\ readOnly' \in {readOnly, FALSE}
    /\ UNCHANGED <<enabled, config, stopDogs, starts, lease, owner, ctlBusy,
                   reacting, react, fence, dogs>>
    /\ Measure(0)

\* That call returns, promote or demote, or raises without effect: Tarantool
\* refuses whichever of two simultaneous calls comes second.
OtherReturns ==
    /\ others
    /\ others' = FALSE
    /\ owner' \in {owner, "me", IF owner = "me" THEN "none" ELSE owner}
    /\ UNCHANGED <<enabled, config, stopDogs, starts, lease, readOnly, ctlBusy,
                   reacting, react, fence, dogs>>
    /\ Measure(0)

Timed(pc) == pc \in {"sleep", "failsafe"}
Elapse(wait) == IF wait > 0 THEN wait - 1 ELSE 0

Tick ==
    /\ \A s \in Slots :
         /\ Timed(fence[s].pc) => fence[s].wait > 0
         /\ Timed(dogs[s].pc) => dogs[s].wait > 0
    /\ age' = IF age < AgeCap THEN age + 1 ELSE age
    /\ paused' = Elapse(paused)
    /\ fence' = [s \in Slots |-> [fence[s] EXCEPT !.wait = Elapse(@)]]
    /\ dogs' = [s \in Slots |-> [dogs[s] EXCEPT !.wait = Elapse(@)]]
    /\ UNCHANGED <<given, etcdOk, applied, box, ctlBusy, reacting, react>>
    /\ Measure(1)

Next ==
    \/ \E s \in Slots : Reaction(s)
    \/ ReactWithoutClient
    \/ \E f \in Slots : Fencing(f)
    \/ \E d \in Slots : DogEnds(d) \/ DogWatches(d) \/ DogBites(d)
    \/ Crash \/ Start \/ Reconfigure \/ Stop
    \/ QueueMoves \/ OtherCalls \/ OtherReturns
    \/ Tick

Spec == Init /\ [][Next]_vars

-----------------------------------------------------------------------------
(***************************************************************************)
(* Safety.                                                                 *)
(***************************************************************************)

\* Of the watcher's own fibers (reactions and fencing loops, of this start or
\* an earlier one) at most one has a box.ctl call outstanding, and the guard
\* says exactly whether one has: no hung call, stop, start or crash opens it
\* under a caller or leaves it shut for good (guarded_ctl: "Guards against
\* the watcher loop and the fencing loop calling box.ctl.demote/promote at
\* the same time").  Calls of other fibers do not ask it and may coincide.
InCtl == {s \in Slots : react[s].pc \in {"promote", "demote"}}
FenceInCtl == {s \in Slots : fence[s].pc = "demote"}
CtlExclusive ==
    /\ ctlBusy <=> InCtl # {} \/ FenceInCtl # {}
    /\ \A s, t \in InCtl : s = t
    /\ \A s, t \in FenceInCtl : s = t
    /\ InCtl = {} \/ FenceInCtl = {}

\* A leader nobody confirmed is read-only one probe and one failsafe poll
\* after renew_deadline at the latest, however polls, pauses, reconfigurations
\* and restarts interleave, unless a box.ctl call hangs (fencing_loop).
FencedInTime == unfenced <= ProbeCap + RpcTicks

\* The watchdog ends, within one probe of hard_deadline, the process of a
\* leader nobody confirmed, whatever else hangs (watchdog.start).
DeadMan == overdue <= ProbeCap

\* In a process that started its watcher once, a promotion goes ahead only on
\* the newest term read: no later decision overtakes it while it catches up
\* (react_in_progress).
PromotesNewest ==
    [][\A s \in Slots :
         /\ starts = 1
         /\ react[s].pc = "prepare" /\ react'[s].pc = "promote"
         => react[s].term = 0 \/ react[s].term >= applied]_vars
=============================================================================
