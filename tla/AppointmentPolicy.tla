-------------------------- MODULE AppointmentPolicy --------------------------
(***************************************************************************)
(* Whom the coordinator appoints: evaluate_replicaset, pick_leader and     *)
(* commit_appointment of failover/agent.lua over AntiFlap.                 *)
(*                                                                         *)
(* One instance and one replicaset are followed, in and out of the         *)
(* coordinator's office (how it is won and lost is in Coordinator).  Each  *)
(* tick holds at most one appointment cycle, which may see any probes, any *)
(* disabled set and any outcome of its write.  Out of office others write  *)
(* the row; an operator does at any time.  The instance decides from its   *)
(* memory of the row, STATE.last_appointments, which outlives its terms of *)
(* office and its role's restarts.                                         *)
(***************************************************************************)
EXTENDS AntiFlap

CONSTANTS
    Rank,           \* weight of each alias in failover_priority, 0 if absent
    MinInterval,    \* min_promotion_interval
    RefreshAge,     \* age past which an unchanged row is written again
    AutoreturnDelay,\* autoreturn_delay
    OverrideTicks,  \* how long a manual override lasts
    AgeCap,         \* bound: ages past every delay are alike
    WaitCap         \* bound: ticks counted in tenure and waits; 0 counts none

ASSUME PolicyAssumption ==
    /\ Rank \in [Aliases -> Nat]
    /\ MinInterval \in Nat /\ RefreshAge \in Nat /\ AutoreturnDelay \in Nat
    /\ OverrideTicks \in Nat /\ AgeCap \in Nat /\ WaitCap \in Nat
    /\ AgeCap > RefreshAge /\ AgeCap >= AutoreturnDelay
    /\ AgeCap >= StartGrace /\ AgeCap >= OverrideTicks

VARIABLES
    row,        \* the live row: its leader, and what is left of an override
    coord,      \* STATE.is_coordinator
    mem,        \* STATE.last_appointments[rs]; no leader is nil
    promoted,   \* age of last_promotion_at
    flap,       \* antiflap's entry of the replicaset
    backoff,    \* antiflap's STATE.backoff
    \* history
    synced,     \* mem is the row as this instance last wrote or read it
    missed,     \* cycles in a row that found the row's leader unfit
    swap,       \* missed and synced when the last step wrote a failover
    acked,      \* ages of the failovers acknowledged since flap was cleared
    vacant,     \* cycles in a row that left an unfit leader with a fit one
                \* at hand, since another replicaset's promotion
    tenure,     \* ticks since the row got its leader
    waits       \* cycles in a row that kept a fit leader of a full tenure
                \* with the fit first of failover_priority free to take over

decides == <<row, coord, mem, promoted, flap, backoff>>
history == <<synced, missed, swap, acked, vacant, tenure, waits>>
vars == <<decides, history>>

Leaders == Aliases \cup {NoOne}
NoMemory == [leader |-> NoOne, age |-> 0]
NoSwap == [missed |-> MissCap, synced |-> TRUE]

\* Every variable has its type.
TypeOK ==
    /\ row \in [leader : Leaders, left : 0..OverrideTicks]
    /\ coord \in BOOLEAN
    /\ mem \in [leader : Leaders, age : 0..AgeCap]
    /\ promoted \in 0..MinInterval
    /\ flap \in Entries
    /\ backoff \in [Aliases -> Backoffs]
    /\ synced \in BOOLEAN
    /\ missed \in 0..MissCap
    /\ swap \in [missed : 0..MissCap, synced : BOOLEAN]
    /\ acked \in SUBSET (1..Window)
    /\ vacant \in Nat
    /\ tenure \in 0..WaitCap
    /\ waits \in 0..WaitCap

\* last_promotion_at = 0 is long ago.
Init ==
    /\ row = [leader |-> NoOne, left |-> 0]
    /\ coord = FALSE
    /\ mem = NoMemory
    /\ promoted = MinInterval
    /\ flap = Fresh
    /\ backoff = [a \in Aliases |-> NoBackoff]
    /\ synced = TRUE
    /\ missed = 0
    /\ swap = NoSwap
    /\ acked = {}
    /\ vacant = 0
    /\ tenure = 0
    /\ waits = 0

-----------------------------------------------------------------------------
(***************************************************************************)
(* pick_leader.                                                            *)
(***************************************************************************)

\* What score_candidate makes of a probe: whether the instance qualifies, and
\* whether it is writable, which an instance that lags too far may be too.
Probes == [fit : BOOLEAN, rw : BOOLEAN]

\* 1000 - lag, + 50 if writable, + 100 per place in the priority list.  The
\* lag, at most max_replication_lag_sec (5, and less than 50), only breaks
\* ties: any of the best may have the least.
Score(p, rank, a) == 100 * rank[a] + (IF p[a].rw THEN 50 ELSE 0)

Candidates(p, out) == {a \in Aliases \ out : p[a].fit}
Best(p, out, rank) ==
    {a \in Candidates(p, out) :
       \A c \in Candidates(p, out) : Score(p, rank, a) >= Score(p, rank, c)}

\* Those backed off are passed over unless nobody else is left.
Picks(p, disabled, resting, rank) ==
    IF Candidates(p, disabled \cup resting) # {}
    THEN Best(p, disabled \cup resting, rank)
    ELSE Best(p, disabled, rank)

\* Within autoreturn_delay of the memory's ts the priority list is ignored.
Weights(rank) ==
    IF mem.leader # NoOne /\ mem.age < AutoreturnDelay
    THEN [a \in Aliases |-> 0]
    ELSE rank

-----------------------------------------------------------------------------
(***************************************************************************)
(* evaluate_replicaset and commit_appointment.                             *)
(***************************************************************************)

Healthy(p) == mem.leader # NoOne /\ p[mem.leader].fit
Writable(p) == mem.leader # NoOne /\ p[mem.leader].rw

\* observe, then check_appointment if there is a leader.
Observed(p) ==
    LET e == Observe(flap, Healthy(p))
    IN  IF mem.leader = NoOne
        THEN [entry |-> e, backoff |-> backoff]
        ELSE CheckAppointment(e, backoff, Writable(p))

CanChange == promoted >= MinInterval

\* What to write about pick: a failover replaces an unhealthy leader and must
\* be allowed; a swap replaces a healthy one or none, a refresh nobody.
Decision(p, e, phi, pick) ==
    CASE mem.leader = pick ->
           IF mem.age > RefreshAge THEN "refresh" ELSE "none"
      [] mem.leader # pick /\ ~CanChange -> "none"
      [] mem.leader # pick /\ CanChange /\ mem.leader # NoOne /\ ~Healthy(p) ->
           IF FailoverAllowed(e, phi, mem.age) THEN "failover" ELSE "none"
      [] OTHER -> "swap"

\* The bookkeeping after an acknowledged write.
Booked(what, e, pick) ==
    IF what = "refresh" THEN e ELSE RecordChange(NoteAppointed(e, pick))
BookedBackoff(what, b) ==
    IF what = "failover" THEN NoteFailure(b, mem.leader) ELSE b

\* One tick after the row, STATE and antiflap were left with these values.
Pass(r, m, ago, e, b) ==
    /\ row' = [r EXCEPT !.left = Less(@)]
    /\ mem' = [m EXCEPT !.age = IF m.leader = NoOne THEN 0
                                ELSE Least(@ + 1, AgeCap)]
    /\ promoted' = Least(ago + 1, MinInterval)
    /\ flap' = AgedEntry(e)
    /\ backoff' = AgedBackoff(b)

\* History of a cycle: the row's leader missed one more probe or did not; an
\* unfit leader keeps its place or does not; so does a fit one.
Missed(p) ==
    IF row.leader # NoOne /\ ~p[row.leader].fit THEN Least(missed + 1, MissCap)
    ELSE 0
Vacancy(p, disabled) ==
    IF mem.leader # NoOne /\ ~Healthy(p) /\ Candidates(p, disabled) # {}
    THEN vacant + 1 ELSE 0
First(a) == \A c \in Aliases : c # a => Rank[a] > Rank[c]
Waiting(p, disabled, rank) ==
    IF /\ synced /\ tenure >= AutoreturnDelay /\ rank = Rank
       /\ CanChange
       /\ row.leader # NoOne /\ p[row.leader].fit
       /\ \E a \in Candidates(p, disabled \cup Resting(backoff)) :
            First(a) /\ a # row.leader
    THEN Least(waits + 1, WaitCap) ELSE 0
Aged(ages) == {c \in 1..Window : c - 1 \in ages}

\* A cycle that reads a live override: mem follows the row, and the entry is
\* cleared.
CycleOverridden ==
    /\ coord /\ row.left > 0
    /\ Pass(row, [leader |-> row.leader, age |-> OverrideTicks - row.left],
            promoted, Fresh, backoff)
    /\ synced' = TRUE /\ missed' = 0 /\ acked' = {} /\ vacant' = 0
    /\ tenure' = Least(tenure + 1, WaitCap) /\ waits' = 0
    /\ swap' = NoSwap
    /\ UNCHANGED coord

\* The cycle writes nothing: nobody qualifies, or there is no reason to.
Keeps(p, disabled, rank, o) ==
    /\ Pass(row, mem, promoted, o.entry, Compacted(o.backoff))
    /\ missed' = Missed(p)
    /\ acked' = Aged(acked)
    /\ vacant' = Vacancy(p, disabled)
    /\ tenure' = Least(tenure + 1, WaitCap)
    /\ waits' = Waiting(p, disabled, rank)
    /\ swap' = NoSwap
    /\ UNCHANGED <<coord, synced>>

\* The row after pick was written into it, and what history makes of that.
Names(p, disabled, rank, pick) ==
    /\ missed' = IF pick = row.leader THEN Missed(p) ELSE 0
    /\ tenure' = IF pick = row.leader THEN Least(tenure + 1, WaitCap)
               ELSE Least(1, WaitCap)
    /\ swap' = IF row.leader # NoOne /\ ~p[row.leader].fit /\ pick # row.leader
               THEN [missed |-> Missed(p), synced |-> synced] ELSE NoSwap
    /\ waits' = IF pick = row.leader THEN Waiting(p, disabled, rank) ELSE 0

\* The write is acknowledged.
Written(p, disabled, rank, o, what, pick) ==
    /\ Pass([leader |-> pick, left |-> 0], [leader |-> pick, age |-> 0],
            IF what = "refresh" THEN promoted ELSE 0,
            Booked(what, o.entry, pick),
            BookedBackoff(what, Compacted(o.backoff)))
    /\ Names(p, disabled, rank, pick)
    /\ synced' = TRUE
    /\ acked' = Aged(acked \cup IF what = "failover" THEN {0} ELSE {})
    /\ vacant' = 0
    /\ UNCHANGED coord

\* The write takes effect and its reply is lost.
WrittenUnheard(p, disabled, rank, o, pick) ==
    /\ Pass([leader |-> pick, left |-> 0], mem, promoted, o.entry,
            Compacted(o.backoff))
    /\ Names(p, disabled, rank, pick)
    /\ synced' = (synced /\ pick = mem.leader)
    /\ acked' = Aged(acked)
    /\ vacant' = Least(vacant, Vacancy(p, disabled))
    /\ UNCHANGED coord

\* The write fails; a conflict with the coordinator key ends the office.
NotWritten(p, disabled, o) ==
    /\ Pass(row, mem, promoted, o.entry, Compacted(o.backoff))
    /\ coord' \in BOOLEAN
    /\ missed' = Missed(p)
    /\ acked' = Aged(acked)
    /\ tenure' = Least(tenure + 1, WaitCap)
    /\ vacant' = Least(vacant, Vacancy(p, disabled))
    /\ waits' = 0
    /\ swap' = NoSwap
    /\ UNCHANGED synced

\* A cycle that reads no override: there is none, or the read fails.  phi is
\* the detector's verdict, and the priority list may be unreadable.
Cycle ==
    /\ coord
    /\ \E p \in [Aliases -> Probes], disabled \in SUBSET Aliases,
          rank \in {Rank, [a \in Aliases |-> 0]},
          phi \in IF PhiKnown(flap) THEN BOOLEAN ELSE {FALSE} :
         LET o == Observed(p)
             picks == Picks(p, disabled, Resting(o.backoff), Weights(rank))
         IN  \/ picks = {} /\ Keeps(p, disabled, rank, o)
             \/ \E pick \in picks :
                  LET what == Decision(p, o.entry, phi, pick)
                  IN  \/ what = "none" /\ Keeps(p, disabled, rank, o)
                      \/ /\ what # "none"
                         /\ \/ Written(p, disabled, rank, o, what, pick)
                            \/ WrittenUnheard(p, disabled, rank, o, pick)
                            \/ NotWritten(p, disabled, o)

-----------------------------------------------------------------------------
(***************************************************************************)
(* Time without a cycle, office, the others and restarts.                  *)
(***************************************************************************)

\* No cycle in this tick: out of office, paused, or busy elsewhere.
Idle ==
    /\ Pass(row, mem, promoted, flap, backoff)
    /\ acked' = Aged(acked)
    /\ tenure' = Least(tenure + 1, WaitCap)
    /\ waits' = 0
    /\ swap' = NoSwap
    /\ UNCHANGED <<coord, synced, missed, vacant>>

\* The coordinator key is won or lost: neither touches what this module keeps.
ChangeOffice ==
    /\ coord' = ~coord
    /\ swap' = NoSwap
    /\ UNCHANGED <<row, mem, promoted, flap, backoff,
                   synced, missed, acked, vacant, tenure, waits>>

\* The row gets leader a from somebody else.
Replaced(a, left) ==
    /\ row' = [leader |-> a, left |-> left]
    /\ synced' = FALSE /\ missed' = 0 /\ waits' = 0
    /\ tenure' = IF a = row.leader THEN tenure ELSE 0
    /\ swap' = NoSwap
    /\ UNCHANGED <<coord, mem, promoted, flap, backoff, acked, vacant>>

\* Another coordinator appoints, or the reply of its read of an override came
\* first; an operator does (appoint_manually).
OtherAppoints == ~coord /\ \E a \in Aliases : Replaced(a, 0)
AppointManually == \E a \in Aliases : Replaced(a, OverrideTicks)

\* This coordinator changed the leader of another replicaset.
OtherPromotion ==
    /\ coord
    /\ promoted' = 0 /\ vacant' = 0 /\ waits' = 0 /\ swap' = NoSwap
    /\ UNCHANGED <<row, coord, mem, flap, backoff, synced, missed, acked,
                   tenure>>

\* M.stop and M.start in one process: antiflap is reset, mem is kept.
Restart ==
    /\ coord' = FALSE
    /\ promoted' = MinInterval /\ flap' = Fresh
    /\ backoff' = [a \in Aliases |-> NoBackoff]
    /\ acked' = {} /\ vacant' = 0 /\ waits' = 0 /\ swap' = NoSwap
    /\ UNCHANGED <<row, mem, synced, missed, tenure>>

\* The process ends and comes back.
Crash ==
    /\ coord' = FALSE
    /\ mem' = NoMemory /\ promoted' = MinInterval /\ flap' = Fresh
    /\ backoff' = [a \in Aliases |-> NoBackoff]
    /\ synced' = (row.leader = NoOne)
    /\ missed' = 0 /\ acked' = {} /\ vacant' = 0 /\ waits' = 0
    /\ swap' = NoSwap
    /\ UNCHANGED <<row, tenure>>

Next ==
    \/ CycleOverridden \/ Cycle \/ Idle
    \/ ChangeOffice \/ OtherAppoints \/ AppointManually \/ OtherPromotion
    \/ Restart \/ Crash

Spec == Init /\ [][Next]_vars

-----------------------------------------------------------------------------
(***************************************************************************)
(* Safety.                                                                 *)
(***************************************************************************)

\* As long as the coordinator's memory is the row, a leader that fails a probe
\* is replaced only after min_misses probes in a row failed, whatever samples,
\* refreshes, backoffs, lost replies or other terms of office came before.
FailoverDampened == swap.synced => swap.missed >= MinMisses

\* A storm of acknowledged failovers stops: no window sees more of them than
\* suppress_threshold + 1 by one coordinator, unless an operator or a restart
\* wiped its record.  It is no bound on all failovers, though antiflap.lua:23-26
\* speaks of leader changes: commit_appointment returns before record_change
\* when the reply of a write is lost, so the breaker never counts those that
\* took effect unheard (WrittenUnheard).
FlapBound ==
    Window <= Cooldown => Cardinality(acked) <= Threshold + 1

\* The layers of dampening end: a coordinator that sees its leader unfit and
\* another instance fit replaces it once every timer that may hold it back
\* (dampening, phi, grace, hysteresis, suppression) has run out.
Longest == CHOOSE n \in {MissCap, SurelyDead, StartGrace, MinInterval, Cooldown} :
             \A m \in {MissCap, SurelyDead, StartGrace, MinInterval, Cooldown} :
                n >= m
LeaderReplaced == vacant <= Longest

\* A healthy first of failover_priority gets the lead back once the leader
\* led for autoreturn_delay ("the agent writes a new appointment",
\* docs/runbooks/leader-autoreturn.md:31), at the latest after as long again.
AutoReturns == waits <= AutoreturnDelay
=============================================================================
