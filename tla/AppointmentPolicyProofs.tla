----------------------- MODULE AppointmentPolicyProofs -----------------------
(***************************************************************************)
(* What AppointmentPolicy keeps for every replicaset and every timer: the  *)
(* types of all it reads and writes; that the coordinator's memory is the  *)
(* row whenever it is in step with it, and antiflap never counts more      *)
(* misses than the row's leader had; that a storm of acknowledged          *)
(* failovers ends; and that no unfit leader outlasts the timers while      *)
(* another is fit.                                                         *)
(***************************************************************************)
EXTENDS AppointmentPolicy, FiniteSetTheorems, TLAPS

\* The part of the state the dampening reads.
DampenTypes ==
    /\ row \in [leader : Leaders, left : 0..OverrideTicks]
    /\ mem \in [leader : Leaders, age : Nat]
    /\ flap \in Entries
    /\ missed \in 0..MissCap

\* Memory in step with the row names its leader.
MemoryIsRow == synced => mem.leader = row.leader

\* No probe is counted twice, whatever the entry went through.
MissesCounted == synced /\ row.leader # NoOne => flap.misses <= missed

DInv == DampenTypes /\ MemoryIsRow /\ MissesCounted /\ FailoverDampened

-----------------------------------------------------------------------------
(***************************************************************************)
(* What antiflap's operators make of an entry.                             *)
(***************************************************************************)

LEMMA MissCapIsEnough ==
    MissCap \in Nat /\ MissCap >= MinMisses /\ MissCap >= DampenCycles
BY AntiFlapAssumption DEF MissCap

LEMMA FreshIsEntry == Fresh \in Entries /\ Fresh.misses = 0
BY AntiFlapAssumption, MissCapIsEnough DEF Fresh, Entries

LEMMA LeastOf ==
    ASSUME NEW m \in Nat, NEW n \in Nat
    PROVE  Least(m, n) \in 0..n /\ (Least(m, n) = m \/ Least(m, n) = n)
BY DEF Least

LEMMA ObserveCounts ==
    ASSUME NEW e \in Entries, NEW healthy \in BOOLEAN
    PROVE  /\ Observe(e, healthy) \in Entries
           /\ Observe(e, healthy).misses =
                IF healthy THEN 0 ELSE Least(e.misses + 1, MissCap)
<1>1. CASE healthy
  <2>. DEFINE s == IF e.heard THEN Least(e.samples + 1, PhiSamples)
                              ELSE e.samples
  <2>1. s \in 0..PhiSamples
    <3>1. e.samples \in 0..PhiSamples
      BY DEF Entries
    <3>2. e.samples + 1 \in Nat /\ PhiSamples \in Nat
      BY <3>1, AntiFlapAssumption
    <3>. QED BY <3>1, <3>2, LeastOf
  <2>2. 0 \in 0..SurelyDead /\ 0 \in 0..MissCap
    BY AntiFlapAssumption, MissCapIsEnough
  <2>3. Observe(e, healthy) =
          [e EXCEPT !.samples = s, !.heard = TRUE, !.silent = 0, !.misses = 0]
    BY <1>1 DEF Observe
  <2>. HIDE DEF s
  <2>. QED BY <1>1, <2>1, <2>2, <2>3 DEF Entries
<1>2. CASE ~healthy
  <2>. DEFINE k == Least(e.misses + 1, MissCap)
  <2>1. k \in 0..MissCap
    <3>1. e.misses + 1 \in Nat
      BY DEF Entries
    <3>. QED BY <3>1, MissCapIsEnough, LeastOf
  <2>2. Observe(e, healthy) = [e EXCEPT !.misses = k]
    BY <1>2 DEF Observe
  <2>. HIDE DEF k
  <2>3. Observe(e, healthy) \in Entries /\ Observe(e, healthy).misses = k
    BY <2>1, <2>2 DEF Entries
  <2>. QED BY <1>2, <2>3 DEF k
<1>. QED BY <1>1, <1>2

LEMMA CheckKeepsMisses ==
    ASSUME NEW e \in Entries, NEW b, NEW writable \in BOOLEAN
    PROVE  /\ CheckAppointment(e, b, writable).entry \in Entries
           /\ CheckAppointment(e, b, writable).entry.misses = e.misses
<1>. DEFINE done == [e EXCEPT !.appointed = NoOne]
<1>1. done \in Entries /\ done.misses = e.misses
  BY DEF Entries
<1>2. CASE e.appointed # NoOne /\ writable
  BY <1>1, <1>2 DEF CheckAppointment
<1>3. CASE e.appointed # NoOne /\ ~writable /\ e.since > StartGrace
  BY <1>1, <1>3 DEF CheckAppointment
<1>4. CASE /\ ~(e.appointed # NoOne /\ writable)
           /\ ~(e.appointed # NoOne /\ ~writable /\ e.since > StartGrace)
  BY <1>4 DEF CheckAppointment
<1>. QED BY <1>2, <1>3, <1>4

LEMMA RecordStartsOver ==
    ASSUME NEW e \in Entries, NEW pick \in Aliases
    PROVE  /\ RecordChange(NoteAppointed(e, pick)) \in Entries
           /\ RecordChange(NoteAppointed(e, pick)).misses = 0
<1>1. PICK n : n = NoteAppointed(e, pick)
  OBVIOUS
<1>2. n \in Entries
  <2>1. n = [e EXCEPT !.appointed = pick, !.since = 0]
    BY <1>1 DEF NoteAppointed
  <2>2. 0 \in 0..StartGrace + 1
    BY AntiFlapAssumption
  <2>. QED BY <2>1, <2>2 DEF Entries
<1>3. PICK c : c = n.changes \cup {0}
  OBVIOUS
<1>4. PICK s : s = IF Cardinality(n.changes) >= Threshold
                   THEN Cooldown ELSE n.suppressed
  OBVIOUS
<1>5. c \in SUBSET (0..Window - 1)
  BY <1>2, <1>3, AntiFlapAssumption DEF Entries
<1>6. s \in 0..Cooldown
  <2>1. n.suppressed \in 0..Cooldown /\ Cooldown \in 0..Cooldown
    BY <1>2, AntiFlapAssumption DEF Entries
  <2>. QED BY <1>4, <2>1
<1>7. n.appointed \in Aliases \cup {NoOne} /\ n.since \in 0..StartGrace + 1
  BY <1>2 DEF Entries
<1>8. RecordChange(n) =
        [Fresh EXCEPT !.changes = c, !.suppressed = s,
                      !.appointed = n.appointed, !.since = n.since]
  BY <1>3, <1>4 DEF RecordChange
<1>9. RecordChange(n) \in Entries /\ RecordChange(n).misses = 0
  BY <1>5, <1>6, <1>7, <1>8, FreshIsEntry DEF Entries
<1>. QED BY <1>1, <1>9

LEMMA AgedKeepsMisses ==
    ASSUME NEW e \in Entries
    PROVE  AgedEntry(e) \in Entries /\ AgedEntry(e).misses = e.misses
<1>1. PICK t : t = IF e.heard THEN Least(e.silent + 1, SurelyDead)
                              ELSE e.silent
  OBVIOUS
<1>2. PICK u : u = IF e.appointed = NoOne THEN 0
                   ELSE Least(e.since + 1, StartGrace + 1)
  OBVIOUS
<1>3. PICK c : c = {x \in 1..Window - 1 : x - 1 \in e.changes}
  OBVIOUS
<1>4. t \in 0..SurelyDead
  <2>1. e.silent \in 0..SurelyDead
    BY DEF Entries
  <2>2. e.silent + 1 \in Nat /\ SurelyDead \in Nat
    BY <2>1, AntiFlapAssumption
  <2>. QED BY <1>1, <2>1, <2>2, LeastOf
<1>5. u \in 0..StartGrace + 1
  <2>1. e.since \in 0..StartGrace + 1 /\ StartGrace \in Nat
    BY AntiFlapAssumption DEF Entries
  <2>2. e.since + 1 \in Nat /\ StartGrace + 1 \in Nat
    BY <2>1
  <2>3. Least(e.since + 1, StartGrace + 1) \in 0..StartGrace + 1
    BY <2>2, LeastOf
  <2>. QED BY <1>2, <2>1, <2>3
<1>6. c \in SUBSET (0..Window - 1)
  BY <1>3, AntiFlapAssumption
<1>7. Less(e.suppressed) \in 0..Cooldown
  BY AntiFlapAssumption DEF Entries, Less
<1>8. AgedEntry(e) = [e EXCEPT !.silent = t, !.changes = c,
                               !.suppressed = Less(e.suppressed), !.since = u]
  BY <1>1, <1>2, <1>3 DEF AgedEntry, Entries
<1>. QED BY <1>4, <1>5, <1>6, <1>7, <1>8 DEF Entries

-----------------------------------------------------------------------------
(***************************************************************************)
(* What a step makes of the memory, the row and the count.                 *)
(***************************************************************************)

LEMMA PassTypes ==
    ASSUME NEW r \in [leader : Leaders, left : 0..OverrideTicks],
           NEW m \in [leader : Leaders, age : Nat],
           NEW ago, NEW e \in Entries, NEW b,
           Pass(r, m, ago, e, b)
    PROVE  /\ row' \in [leader : Leaders, left : 0..OverrideTicks] /\ row'.leader = r.leader
           /\ mem' \in [leader : Leaders, age : Nat] /\ mem'.leader = m.leader
           /\ flap' \in Entries /\ flap'.misses = e.misses
<1>1. row' \in [leader : Leaders, left : 0..OverrideTicks] /\ row'.leader = r.leader
  BY PolicyAssumption DEF Pass, Less
<1>2. Least(m.age + 1, AgeCap) \in Nat
  <2>1. m.age + 1 \in Nat /\ AgeCap \in Nat
    BY PolicyAssumption
  <2>. QED BY <2>1, LeastOf
<1>3. mem' \in [leader : Leaders, age : Nat] /\ mem'.leader = m.leader
  <2>1. PICK t : t = IF m.leader = NoOne THEN 0 ELSE Least(m.age + 1, AgeCap)
    OBVIOUS
  <2>2. t \in Nat
    BY <1>2, <2>1
  <2>3. mem' = [m EXCEPT !.age = t]
    BY <2>1 DEF Pass
  <2>. QED BY <2>2, <2>3
<1>4. flap' \in Entries /\ flap'.misses = e.misses
  BY AgedKeepsMisses DEF Pass
<1>. QED BY <1>1, <1>3, <1>4

\* What observe and check_appointment leave.
LEMMA ObservedCounts ==
    ASSUME DampenTypes, NEW p \in [Aliases -> Probes]
    PROVE  /\ Observed(p).entry \in Entries
           /\ Observed(p).entry.misses =
                IF Healthy(p) THEN 0 ELSE Least(flap.misses + 1, MissCap)
<1>. DEFINE e == Observe(flap, Healthy(p))
<1>1. Healthy(p) \in BOOLEAN /\ Writable(p) \in BOOLEAN
  BY DEF DampenTypes, Leaders, Healthy, Writable, Probes
<1>2. /\ e \in Entries
      /\ e.misses = IF Healthy(p) THEN 0 ELSE Least(flap.misses + 1, MissCap)
  BY <1>1, ObserveCounts DEF DampenTypes
<1>. HIDE DEF e
<1>3. CASE mem.leader = NoOne
  BY <1>2, <1>3 DEF Observed, e
<1>4. CASE mem.leader # NoOne
  <2>1. Observed(p) = CheckAppointment(e, backoff, Writable(p))
    BY <1>4 DEF Observed, e
  <2>. QED BY <2>1, <1>1, <1>2, CheckKeepsMisses
<1>. QED BY <1>3, <1>4

LEMMA MissedType ==
    ASSUME DampenTypes, NEW p \in [Aliases -> Probes]
    PROVE  Missed(p) \in 0..MissCap
<1>1. missed + 1 \in Nat
  BY DEF DampenTypes
<1>. QED BY <1>1, MissCapIsEnough, LeastOf DEF Missed

\* In step with the row, a cycle counts no more misses than there were.
LEMMA CountKept ==
    ASSUME DInv, NEW p \in [Aliases -> Probes], synced, row.leader # NoOne
    PROVE  Observed(p).entry.misses <= Missed(p)
<1>1. mem.leader = row.leader
  BY DEF DInv, MemoryIsRow
<1>2. row.leader \in Aliases
  BY DEF DInv, DampenTypes, Leaders
<1>3. CASE p[row.leader].fit
  BY <1>1, <1>2, <1>3, ObservedCounts, MissCapIsEnough
     DEF Healthy, Missed, DInv
<1>4. CASE ~p[row.leader].fit
  <2>1. flap.misses \in 0..MissCap /\ missed \in 0..MissCap
    BY DEF DInv, DampenTypes, Entries
  <2>2. flap.misses <= missed
    BY DEF DInv, MissesCounted
  <2>3. Observed(p).entry.misses = Least(flap.misses + 1, MissCap)
    BY <1>1, <1>2, <1>4, ObservedCounts DEF Healthy, DInv
  <2>4. Missed(p) = Least(missed + 1, MissCap)
    BY <1>4 DEF Missed
  <2>. QED BY <2>1, <2>2, <2>3, <2>4, MissCapIsEnough DEF Least
<1>. QED BY <1>3, <1>4

-----------------------------------------------------------------------------
(***************************************************************************)
(* The dampening.                                                          *)
(***************************************************************************)

\* DInv is kept when an entry, a memory and a row go into Pass.
LEMMA PassKeeps ==
    ASSUME NEW r \in [leader : Leaders, left : 0..OverrideTicks],
           NEW m \in [leader : Leaders, age : Nat],
           NEW ago, NEW e \in Entries, NEW b,
           Pass(r, m, ago, e, b),
           missed' \in 0..MissCap,
           synced' => m.leader = r.leader,
           synced' /\ r.leader # NoOne => e.misses <= missed',
           FailoverDampened'
    PROVE  DInv'
BY PassTypes DEF DInv, DampenTypes, MemoryIsRow, MissesCounted

LEMMA NoSwapDampened == swap' = NoSwap => FailoverDampened'
BY MissCapIsEnough, AntiFlapAssumption DEF FailoverDampened, NoSwap

LEMMA InitDampened == Init => DInv
<1>. SUFFICES ASSUME Init PROVE DInv
  OBVIOUS
<1>1. DampenTypes
  BY FreshIsEntry, MissCapIsEnough, PolicyAssumption
     DEF Init, DampenTypes, NoMemory, Leaders
<1>2. MemoryIsRow /\ MissesCounted
  BY DEF Init, NoMemory, MemoryIsRow, MissesCounted
<1>3. FailoverDampened
  BY MissCapIsEnough, AntiFlapAssumption DEF Init, NoSwap, FailoverDampened
<1>. QED BY <1>1, <1>2, <1>3 DEF DInv

LEMMA OverriddenKeeps == DInv /\ CycleOverridden => DInv'
<1>. SUFFICES ASSUME DInv, CycleOverridden PROVE DInv'
  OBVIOUS
<1>1. row \in [leader : Leaders, left : 0..OverrideTicks]
  BY DEF DInv, DampenTypes
<1>2. PICK m : m = [leader |-> row.leader, age |-> OverrideTicks - row.left]
  OBVIOUS
<1>3. m \in [leader : Leaders, age : Nat] /\ m.leader = row.leader
  BY <1>1, <1>2, PolicyAssumption
<1>4. Pass(row, m, promoted, Fresh, backoff) /\ missed' = 0 /\ swap' = NoSwap
  BY <1>2 DEF CycleOverridden
<1>5. 0 \in 0..MissCap
  BY MissCapIsEnough
<1>. QED BY <1>1, <1>3, <1>4, <1>5, FreshIsEntry, NoSwapDampened, PassKeeps

\* What a cycle that leaves the row and the memory alone does.
LEMMA StillKeeps ==
    ASSUME DInv, NEW p \in [Aliases -> Probes], NEW ago, NEW b,
           Pass(row, mem, ago, Observed(p).entry, b),
           missed' = Missed(p), synced' = synced, swap' = NoSwap
    PROVE  DInv'
<1>1. DampenTypes
  BY DEF DInv
<1>2. /\ row \in [leader : Leaders, left : 0..OverrideTicks]
      /\ mem \in [leader : Leaders, age : Nat]
  BY <1>1 DEF DampenTypes
<1>3. Observed(p).entry \in Entries /\ missed' \in 0..MissCap
  BY <1>1, ObservedCounts, MissedType
<1>4. synced' => mem.leader = row.leader
  BY DEF DInv, MemoryIsRow
<1>5. synced' /\ row.leader # NoOne => Observed(p).entry.misses <= missed'
  BY CountKept
<1>. QED BY <1>2, <1>3, <1>4, <1>5, NoSwapDampened, PassKeeps

\* Whoever takes the row from an unfit leader the memory knows was let in by
\* failover_allowed, and so saw min_misses misses.
LEMMA NamesDampened ==
    ASSUME DInv, NEW p \in [Aliases -> Probes], NEW disabled, NEW rank,
           NEW phi \in BOOLEAN, NEW pick \in Aliases,
           Decision(p, Observed(p).entry, phi, pick) # "none",
           Names(p, disabled, rank, pick)
    PROVE  FailoverDampened'
<1>1. DampenTypes
  BY DEF DInv
<1>2. CASE row.leader # NoOne /\ ~p[row.leader].fit /\ pick # row.leader
           /\ synced
  <2>1. mem.leader = row.leader
    BY <1>2 DEF DInv, MemoryIsRow
  <2>2. mem.leader # pick /\ mem.leader # NoOne /\ ~Healthy(p)
    BY <1>2, <2>1 DEF Healthy
  <2>3. CanChange /\ FailoverAllowed(Observed(p).entry, phi, mem.age)
    BY <2>2 DEF Decision
  <2>4. Observed(p).entry.misses >= MinMisses
    BY <2>3 DEF FailoverAllowed, Suspected
  <2>5. Observed(p).entry.misses <= Missed(p)
    BY <1>2, CountKept
  <2>6. swap' = [missed |-> Missed(p), synced |-> synced]
    BY <1>2 DEF Names
  <2>7. Missed(p) \in Nat /\ Observed(p).entry.misses \in Nat /\ MinMisses \in Nat
    <3>1. Missed(p) \in 0..MissCap /\ Observed(p).entry \in Entries
      BY <1>1, MissedType, ObservedCounts
    <3>. QED BY <3>1, MissCapIsEnough, AntiFlapAssumption DEF Entries
  <2>. QED BY <2>4, <2>5, <2>6, <2>7 DEF FailoverDampened
<1>3. CASE row.leader # NoOne /\ ~p[row.leader].fit /\ pick # row.leader
           /\ ~synced
  <2>1. swap' = [missed |-> Missed(p), synced |-> synced]
    BY <1>3 DEF Names
  <2>. QED BY <1>3, <2>1 DEF FailoverDampened
<1>4. CASE ~(row.leader # NoOne /\ ~p[row.leader].fit /\ pick # row.leader)
  <2>1. swap' = NoSwap
    BY <1>4 DEF Names
  <2>. QED BY <2>1, NoSwapDampened
<1>. QED BY <1>2, <1>3, <1>4

LEMMA PicksAreFit ==
    ASSUME NEW p, NEW disabled, NEW resting, NEW rank,
           NEW pick \in Picks(p, disabled, resting, rank)
    PROVE  pick \in Aliases /\ p[pick].fit
BY DEF Picks, Best, Candidates

\* The count of a row that pick was just written into.
LEMMA NamesMissed ==
    ASSUME DampenTypes, NEW p \in [Aliases -> Probes], NEW disabled, NEW rank,
           NEW pick, Names(p, disabled, rank, pick)
    PROVE  missed' \in 0..MissCap
<1>1. Missed(p) \in 0..MissCap /\ 0 \in 0..MissCap
  BY MissedType, MissCapIsEnough
<1>. QED BY <1>1 DEF Names

\* A pick the memory names is healthy: no miss was counted.
LEMMA PickedUnmissed ==
    ASSUME DampenTypes, NEW p \in [Aliases -> Probes], NEW pick \in Aliases,
           p[pick].fit, mem.leader = pick
    PROVE  Observed(p).entry.misses = 0
<1>1. Healthy(p)
  BY AntiFlapAssumption DEF Healthy
<1>. QED BY <1>1, ObservedCounts

LEMMA WrittenKeeps ==
    ASSUME DInv, NEW p \in [Aliases -> Probes], NEW disabled, NEW rank,
           NEW phi \in BOOLEAN, NEW pick \in Aliases, p[pick].fit,
           NEW what, what = Decision(p, Observed(p).entry, phi, pick),
           what # "none",
           Written(p, disabled, rank, Observed(p), what, pick)
    PROVE  DInv'
<1>1. DampenTypes
  BY DEF DInv
<1>2. PICK r, m, e :
        /\ r = [leader |-> pick, left |-> 0]
        /\ m = [leader |-> pick, age |-> 0]
        /\ e = Booked(what, Observed(p).entry, pick)
  OBVIOUS
<1>3. /\ r \in [leader : Leaders, left : 0..OverrideTicks]
      /\ m \in [leader : Leaders, age : Nat]
      /\ r.leader = pick /\ m.leader = pick
  BY <1>2, PolicyAssumption DEF Leaders
<1>4. e \in Entries /\ e.misses = 0
  <2>1. CASE what = "refresh"
    <3>1. mem.leader = pick
      BY <2>1 DEF Decision
    <3>. QED BY <1>1, <1>2, <2>1, <3>1, PickedUnmissed, ObservedCounts
         DEF Booked
  <2>2. CASE what # "refresh"
    <3>1. Observed(p).entry \in Entries
      BY <1>1, ObservedCounts
    <3>. QED BY <1>2, <2>2, <3>1, RecordStartsOver DEF Booked
  <2>. QED BY <2>1, <2>2
<1>5. Names(p, disabled, rank, pick)
  BY DEF Written
<1>6. missed' \in 0..MissCap
  BY <1>1, <1>5, NamesMissed
<1>7. FailoverDampened'
  BY <1>5, NamesDampened
<1>8. PICK ago, b : Pass(r, m, ago, e, b)
  BY <1>2 DEF Written
<1>9. e.misses <= missed'
  BY <1>4, <1>6
<1>. QED BY <1>3, <1>4, <1>6, <1>7, <1>8, <1>9, PassKeeps

LEMMA WrittenUnheardKeeps ==
    ASSUME DInv, NEW p \in [Aliases -> Probes], NEW disabled, NEW rank,
           NEW phi \in BOOLEAN, NEW pick \in Aliases, p[pick].fit,
           Decision(p, Observed(p).entry, phi, pick) # "none",
           WrittenUnheard(p, disabled, rank, Observed(p), pick)
    PROVE  DInv'
<1>1. DampenTypes
  BY DEF DInv
<1>2. PICK r : r = [leader |-> pick, left |-> 0]
  OBVIOUS
<1>3. /\ r \in [leader : Leaders, left : 0..OverrideTicks] /\ r.leader = pick
      /\ mem \in [leader : Leaders, age : Nat]
      /\ Observed(p).entry \in Entries
  BY <1>1, <1>2, PolicyAssumption, ObservedCounts DEF Leaders, DampenTypes
<1>4. Names(p, disabled, rank, pick) /\ synced' = (synced /\ pick = mem.leader)
  BY DEF WrittenUnheard
<1>5. missed' \in 0..MissCap
  BY <1>1, <1>4, NamesMissed
<1>6. FailoverDampened'
  BY <1>4, NamesDampened
<1>7. synced' => mem.leader = pick
  BY <1>4, Zenon
<1>8. synced' => Observed(p).entry.misses <= missed'
  <2>1. mem.leader = pick => Observed(p).entry.misses = 0
    BY <1>1, PickedUnmissed
  <2>2. 0 <= missed'
    BY <1>5
  <2>. QED BY <1>7, <2>1, <2>2
<1>9. PICK ago, b : Pass(r, mem, ago, Observed(p).entry, b)
  BY <1>2 DEF WrittenUnheard
<1>. QED BY <1>3, <1>5, <1>6, <1>7, <1>8, <1>9, PassKeeps

LEMMA CycleKeeps == DInv /\ Cycle => DInv'
<1>. SUFFICES ASSUME DInv, Cycle PROVE DInv'
  OBVIOUS
<1>1. PICK p \in [Aliases -> Probes], disabled \in SUBSET Aliases,
           rank \in {Rank, [a \in Aliases |-> 0]},
           phi \in IF PhiKnown(flap) THEN BOOLEAN ELSE {FALSE} :
        LET o == Observed(p)
            picks == Picks(p, disabled, Resting(o.backoff), Weights(rank))
        IN  \/ picks = {} /\ Keeps(p, disabled, rank, o)
            \/ \E pick \in picks :
                 LET what == Decision(p, o.entry, phi, pick)
                 IN  \/ what = "none" /\ Keeps(p, disabled, rank, o)
                     \/ /\ what # "none"
                        /\ \/ Written(p, disabled, rank, o, what, pick)
                           \/ WrittenUnheard(p, disabled, rank, o, pick)
                           \/ NotWritten(p, disabled, o)
  BY DEF Cycle
<1>. DEFINE o == Observed(p)
            picks == Picks(p, disabled, Resting(o.backoff), Weights(rank))
<1>2. phi \in BOOLEAN
  BY <1>1
<1>3. CASE Keeps(p, disabled, rank, o)
  BY <1>3, StillKeeps DEF Keeps
<1>4. CASE NotWritten(p, disabled, o)
  BY <1>4, StillKeeps DEF NotWritten
<1>5. ASSUME NEW pick \in picks,
             Decision(p, o.entry, phi, pick) # "none",
             \/ Written(p, disabled, rank, o, Decision(p, o.entry, phi, pick),
                        pick)
             \/ WrittenUnheard(p, disabled, rank, o, pick)
      PROVE  DInv'
  <2>1. pick \in Aliases /\ p[pick].fit
    BY PicksAreFit
  <2>. QED BY <1>2, <1>5, <2>1, WrittenKeeps, WrittenUnheardKeeps
<1>6. \/ Keeps(p, disabled, rank, o)
      \/ NotWritten(p, disabled, o)
      \/ \E pick \in picks :
           /\ Decision(p, o.entry, phi, pick) # "none"
           /\ \/ Written(p, disabled, rank, o, Decision(p, o.entry, phi, pick),
                         pick)
              \/ WrittenUnheard(p, disabled, rank, o, pick)
  BY <1>1
<1>. QED BY <1>3, <1>4, <1>5, <1>6

\* Steps that touch neither what the dampening reads nor the row.
LEMMA OthersKeep ==
    DInv /\ (Idle \/ ChangeOffice \/ OtherAppoints \/ AppointManually
             \/ OtherPromotion \/ Restart \/ Crash \/ UNCHANGED vars) => DInv'
<1>. SUFFICES ASSUME DInv PROVE
       (Idle \/ ChangeOffice \/ OtherAppoints \/ AppointManually
        \/ OtherPromotion \/ Restart \/ Crash \/ UNCHANGED vars) => DInv'
  OBVIOUS
<1>1. ASSUME Idle PROVE DInv'
  <2>1. Pass(row, mem, promoted, flap, backoff) /\ swap' = NoSwap
        /\ synced' = synced /\ missed' = missed
    BY <1>1 DEF Idle
  <2>. QED BY <2>1, NoSwapDampened, PassKeeps
       DEF DInv, DampenTypes, MemoryIsRow, MissesCounted
<1>2. ASSUME ChangeOffice PROVE DInv'
  <2>1. UNCHANGED <<row, mem, flap, synced, missed>> /\ swap' = NoSwap
    BY <1>2 DEF ChangeOffice
  <2>. QED BY <2>1, NoSwapDampened
       DEF DInv, DampenTypes, MemoryIsRow, MissesCounted
<1>3. ASSUME NEW a \in Aliases, NEW left \in 0..OverrideTicks, Replaced(a, left)
      PROVE  DInv'
  <2>1. /\ row' = [leader |-> a, left |-> left] /\ ~synced' /\ missed' = 0
        /\ UNCHANGED <<mem, flap>> /\ swap' = NoSwap
    BY <1>3 DEF Replaced
  <2>2. row' \in [leader : Leaders, left : 0..OverrideTicks]
    BY <2>1 DEF Leaders
  <2>. QED BY <2>1, <2>2, NoSwapDampened, MissCapIsEnough
       DEF DInv, DampenTypes, MemoryIsRow, MissesCounted
<1>4. ASSUME OtherAppoints \/ AppointManually PROVE DInv'
  <2>1. PICK a \in Aliases, left \in 0..OverrideTicks : Replaced(a, left)
    BY <1>4, PolicyAssumption DEF OtherAppoints, AppointManually
  <2>. QED BY <1>3, <2>1
<1>5. ASSUME OtherPromotion PROVE DInv'
  <2>1. UNCHANGED <<row, mem, flap, synced, missed>> /\ swap' = NoSwap
    BY <1>5 DEF OtherPromotion
  <2>. QED BY <2>1, NoSwapDampened
       DEF DInv, DampenTypes, MemoryIsRow, MissesCounted
<1>6. ASSUME Restart PROVE DInv'
  <2>1. UNCHANGED <<row, mem, synced, missed>> /\ flap' = Fresh
        /\ swap' = NoSwap
    BY <1>6 DEF Restart
  <2>. QED BY <2>1, NoSwapDampened, FreshIsEntry
       DEF DInv, DampenTypes, MemoryIsRow, MissesCounted
<1>7. ASSUME Crash PROVE DInv'
  <2>1. /\ row' = row /\ mem' = NoMemory /\ flap' = Fresh /\ missed' = 0
        /\ synced' = (row.leader = NoOne) /\ swap' = NoSwap
    BY <1>7 DEF Crash
  <2>2. mem' \in [leader : Leaders, age : Nat] /\ mem'.leader = NoOne
    BY <2>1 DEF NoMemory, Leaders
  <2>3. synced' => row'.leader = NoOne
    BY <2>1
  <2>4. MemoryIsRow' /\ MissesCounted'
    BY <2>2, <2>3 DEF MemoryIsRow, MissesCounted
  <2>5. DampenTypes'
    BY <2>1, <2>2, FreshIsEntry, MissCapIsEnough DEF DInv, DampenTypes
  <2>. QED BY <2>1, <2>4, <2>5, NoSwapDampened DEF DInv
<1>8. ASSUME UNCHANGED vars PROVE DInv'
  BY <1>8 DEF vars, decides, history, DInv, DampenTypes, MemoryIsRow,
              MissesCounted, FailoverDampened
<1>. QED BY <1>1, <1>2, <1>4, <1>5, <1>6, <1>7, <1>8

\* For every replicaset and all timers: what the dampening reads keeps its
\* type, a memory in step with the row names its leader (agent.lua:394-396),
\* and antiflap counts no miss the leader did not have.
THEOREM DampeningInvariant == Spec => []DInv
<1>1. DInv /\ [Next]_vars => DInv'
  BY OverriddenKeeps, CycleKeeps, OthersKeep DEF Next
<1>. QED BY InitDampened, <1>1, PTL DEF Spec

\* A leader the coordinator's memory knows is replaced only after min_misses
\* failed probes in a row, whatever refreshes, backoffs, suppressions, lost
\* replies and terms of office came before (antiflap.lua:129-137).
THEOREM DampenedFailovers == Spec => []FailoverDampened
<1>1. DInv => FailoverDampened
  BY DEF DInv
<1>. QED BY DampeningInvariant, <1>1, PTL

-----------------------------------------------------------------------------
(***************************************************************************)
(* All types.                                                              *)
(***************************************************************************)

RowType == [leader : Leaders, left : 0..OverrideTicks]
MemType == [leader : Leaders, age : 0..AgeCap]
BackoffType == [Aliases -> Backoffs]

\* TypeOK by what decides and what only records.
DecidesOK ==
    /\ row \in RowType /\ coord \in BOOLEAN /\ mem \in MemType
    /\ promoted \in 0..MinInterval /\ flap \in Entries
    /\ backoff \in BackoffType
HistoryOK ==
    /\ synced \in BOOLEAN /\ missed \in 0..MissCap
    /\ swap \in [missed : 0..MissCap, synced : BOOLEAN]
    /\ acked \in SUBSET (1..Window) /\ vacant \in Nat
    /\ tenure \in 0..WaitCap /\ waits \in 0..WaitCap

LEMMA TypeParts == TypeOK <=> DecidesOK /\ HistoryOK
BY DEF TypeOK, DecidesOK, HistoryOK, RowType, MemType, BackoffType

LEMMA DecidesDampenTypes == TypeOK => DampenTypes
BY PolicyAssumption DEF TypeOK, DampenTypes

\* Counting one up to a bound stays below it.
LEMMA CountedUp ==
    ASSUME NEW n \in Nat, NEW m \in 0..n
    PROVE  Least(m + 1, n) \in 0..n
BY LeastOf

LEMMA BackoffsTyped ==
    /\ NoBackoff \in Backoffs
    /\ \A n \in 0..BackoffMax : [left |-> n, step |-> n] \in Backoffs
BY AntiFlapAssumption DEF NoBackoff, Backoffs

LEMMA NoteFailureTyped ==
    ASSUME NEW b \in BackoffType, NEW a \in Aliases
    PROVE  NoteFailure(b, a) \in BackoffType
<1>. DEFINE next == NextStep(b, a)
            step == Least(next, BackoffMax)
<1>1. next \in Nat
  <2>1. b[a].step \in Nat
    BY DEF BackoffType, Backoffs
  <2>. QED BY <2>1, AntiFlapAssumption DEF NextStep
<1>2. step \in 0..BackoffMax
  BY <1>1, AntiFlapAssumption, LeastOf
<1>3. NoteFailure(b, a) = [b EXCEPT ![a] = [left |-> step, step |-> step]]
  BY DEF NoteFailure
<1>. HIDE DEF step
<1>. QED BY <1>2, <1>3, BackoffsTyped DEF BackoffType

LEMMA CheckBackoffTyped ==
    ASSUME NEW e \in Entries, NEW b \in BackoffType, NEW writable \in BOOLEAN
    PROVE  CheckAppointment(e, b, writable).backoff \in BackoffType
<1>1. e.appointed # NoOne => e.appointed \in Aliases
  BY DEF Entries
<1>2. CASE e.appointed # NoOne /\ writable
  <2>1. [b EXCEPT ![e.appointed] = NoBackoff] \in BackoffType
    BY <1>1, <1>2, BackoffsTyped DEF BackoffType
  <2>. QED BY <1>2, <2>1 DEF CheckAppointment
<1>3. CASE e.appointed # NoOne /\ ~writable /\ e.since > StartGrace
  BY <1>1, <1>3, NoteFailureTyped DEF CheckAppointment
<1>4. CASE /\ ~(e.appointed # NoOne /\ writable)
           /\ ~(e.appointed # NoOne /\ ~writable /\ e.since > StartGrace)
  BY <1>4 DEF CheckAppointment
<1>. QED BY <1>2, <1>3, <1>4

LEMMA CompactedTyped ==
    ASSUME NEW b \in BackoffType
    PROVE  Compacted(b) \in BackoffType
BY BackoffsTyped DEF Compacted, BackoffType

LEMMA AgedBackoffTyped ==
    ASSUME NEW b \in BackoffType
    PROVE  AgedBackoff(b) \in BackoffType
<1>1. ASSUME NEW a \in Aliases
      PROVE  [b[a] EXCEPT !.left = Less(@)] \in Backoffs
  <2>1. b[a] \in Backoffs
    BY DEF BackoffType
  <2>2. PICK n : n = Less(b[a].left)
    OBVIOUS
  <2>3. n \in 0..BackoffMax
    BY <2>1, <2>2, AntiFlapAssumption DEF Backoffs, Less
  <2>. QED BY <2>1, <2>2, <2>3 DEF Backoffs
<1>. QED BY <1>1 DEF AgedBackoff, BackoffType

\* What a cycle's observation leaves.
LEMMA ObservedTyped ==
    ASSUME TypeOK, NEW p \in [Aliases -> Probes]
    PROVE  /\ Observed(p).entry \in Entries
           /\ Observed(p).backoff \in BackoffType
<1>1. DampenTypes /\ DecidesOK
  BY DecidesDampenTypes, TypeParts
<1>2. Healthy(p) \in BOOLEAN /\ Writable(p) \in BOOLEAN
  BY <1>1 DEF DampenTypes, Leaders, Healthy, Writable, Probes
<1>3. Observe(flap, Healthy(p)) \in Entries
  BY <1>1, <1>2, ObserveCounts DEF DampenTypes
<1>4. Observed(p).backoff \in BackoffType
  BY <1>1, <1>2, <1>3, CheckBackoffTyped DEF Observed, DecidesOK
<1>. QED BY <1>1, <1>4, ObservedCounts

LEMMA PassTyped ==
    ASSUME NEW r \in RowType, NEW m \in MemType, NEW ago \in 0..MinInterval,
           NEW e \in Entries, NEW b \in BackoffType, Pass(r, m, ago, e, b)
    PROVE  /\ row' \in RowType /\ mem' \in MemType
           /\ promoted' \in 0..MinInterval /\ flap' \in Entries
           /\ backoff' \in BackoffType
<1>1. row' \in RowType
  BY PolicyAssumption DEF Pass, Less, RowType
<1>2. mem' \in MemType
  <2>1. PICK t : t = IF m.leader = NoOne THEN 0 ELSE Least(m.age + 1, AgeCap)
    OBVIOUS
  <2>2. t \in 0..AgeCap
    BY <2>1, CountedUp, PolicyAssumption DEF MemType
  <2>3. mem' = [m EXCEPT !.age = t]
    BY <2>1 DEF Pass
  <2>. QED BY <2>2, <2>3 DEF MemType
<1>3. promoted' \in 0..MinInterval
  BY CountedUp, PolicyAssumption DEF Pass
<1>4. flap' \in Entries /\ backoff' \in BackoffType
  BY AgedKeepsMisses, AgedBackoffTyped DEF Pass
<1>. QED BY <1>1, <1>2, <1>3, <1>4

LEMMA NoSwapTyped == NoSwap \in [missed : 0..MissCap, synced : BOOLEAN]
BY MissCapIsEnough DEF NoSwap

LEMMA AgedTyped ==
    /\ Aged(acked) \in SUBSET (1..Window)
    /\ Aged(acked \cup {0}) \in SUBSET (1..Window)
BY DEF Aged

LEMMA WaitCapTyped ==
    /\ 0 \in 0..WaitCap /\ Least(1, WaitCap) \in 0..WaitCap
    /\ \A n \in 0..WaitCap : Least(n + 1, WaitCap) \in 0..WaitCap
BY PolicyAssumption, LeastOf

LEMMA WaitingTyped ==
    ASSUME TypeOK, NEW p, NEW disabled, NEW rank
    PROVE  Waiting(p, disabled, rank) \in 0..WaitCap
<1>1. waits \in 0..WaitCap
  BY DEF TypeOK
<1>2. Least(waits + 1, WaitCap) \in 0..WaitCap /\ 0 \in 0..WaitCap
  BY <1>1, WaitCapTyped
<1>. QED BY <1>2 DEF Waiting

LEMMA VacancyTyped ==
    ASSUME TypeOK, NEW p, NEW disabled
    PROVE  /\ Vacancy(p, disabled) \in {0, vacant + 1}
           /\ Least(vacant, Vacancy(p, disabled)) \in {0, vacant}
BY DEF TypeOK, Vacancy, Least

LEMMA NamesTyped ==
    ASSUME TypeOK, NEW p \in [Aliases -> Probes], NEW disabled, NEW rank,
           NEW pick, Names(p, disabled, rank, pick)
    PROVE  /\ missed' \in 0..MissCap /\ tenure' \in 0..WaitCap
           /\ swap' \in [missed : 0..MissCap, synced : BOOLEAN]
           /\ waits' \in 0..WaitCap
<1>1. Missed(p) \in 0..MissCap /\ 0 \in 0..MissCap
  BY MissedType, DecidesDampenTypes, MissCapIsEnough
<1>2. tenure \in 0..WaitCap /\ synced \in BOOLEAN
  BY DEF TypeOK
<1>3. tenure' \in 0..WaitCap
  BY <1>2, WaitCapTyped DEF Names
<1>4. swap' \in [missed : 0..MissCap, synced : BOOLEAN]
  BY <1>1, <1>2, NoSwapTyped DEF Names
<1>5. waits' \in 0..WaitCap
  BY WaitingTyped, WaitCapTyped DEF Names
<1>. QED BY <1>1, <1>3, <1>4, <1>5 DEF Names

\* A cycle that writes nothing, whose write took effect unheard, or failed.
LEMMA KeepsTyped ==
    ASSUME TypeOK, NEW p \in [Aliases -> Probes], NEW disabled, NEW rank,
           Keeps(p, disabled, rank, Observed(p))
    PROVE  TypeOK'
<1>1. /\ row' \in RowType /\ mem' \in MemType /\ promoted' \in 0..MinInterval
      /\ flap' \in Entries /\ backoff' \in BackoffType
  BY TypeParts, ObservedTyped, CompactedTyped, PassTyped DEF Keeps, DecidesOK
<1>2. missed' \in 0..MissCap
  BY DecidesDampenTypes, MissedType DEF Keeps
<1>3. vacant' \in Nat
  BY VacancyTyped DEF Keeps, TypeOK
<1>4. tenure' \in 0..WaitCap /\ waits' \in 0..WaitCap
  BY WaitCapTyped, WaitingTyped DEF Keeps, TypeOK
<1>5. swap' \in [missed : 0..MissCap, synced : BOOLEAN]
  BY NoSwapTyped DEF Keeps
<1>6. coord' \in BOOLEAN /\ synced' \in BOOLEAN
      /\ acked' \in SUBSET (1..Window)
  BY AgedTyped DEF Keeps, TypeOK
<1>. QED BY <1>1, <1>2, <1>3, <1>4, <1>5, <1>6
     DEF TypeOK, RowType, MemType, BackoffType

LEMMA NotWrittenTyped ==
    ASSUME TypeOK, NEW p \in [Aliases -> Probes], NEW disabled,
           NotWritten(p, disabled, Observed(p))
    PROVE  TypeOK'
<1>1. /\ row' \in RowType /\ mem' \in MemType /\ promoted' \in 0..MinInterval
      /\ flap' \in Entries /\ backoff' \in BackoffType
  BY TypeParts, ObservedTyped, CompactedTyped, PassTyped
     DEF NotWritten, DecidesOK
<1>2. missed' \in 0..MissCap
  BY DecidesDampenTypes, MissedType DEF NotWritten
<1>3. vacant' \in Nat
  BY VacancyTyped DEF NotWritten, TypeOK
<1>4. tenure' \in 0..WaitCap /\ waits' \in 0..WaitCap
  BY WaitCapTyped DEF NotWritten, TypeOK
<1>5. swap' \in [missed : 0..MissCap, synced : BOOLEAN]
  BY NoSwapTyped DEF NotWritten
<1>6. coord' \in BOOLEAN /\ synced' \in BOOLEAN
      /\ acked' \in SUBSET (1..Window)
  BY AgedTyped DEF NotWritten, TypeOK
<1>. QED BY <1>1, <1>2, <1>3, <1>4, <1>5, <1>6
     DEF TypeOK, RowType, MemType, BackoffType

\* What a write makes of the row and of the memory.
LEMMA NamedTyped ==
    ASSUME NEW pick \in Aliases
    PROVE  /\ [leader |-> pick, left |-> 0] \in RowType
           /\ [leader |-> pick, age |-> 0] \in MemType
BY PolicyAssumption DEF RowType, MemType, Leaders

LEMMA BookedTyped ==
    ASSUME TypeOK, NEW p \in [Aliases -> Probes], NEW phi,
           NEW pick \in Aliases, NEW what,
           what = Decision(p, Observed(p).entry, phi, pick)
    PROVE  /\ Booked(what, Observed(p).entry, pick) \in Entries
           /\ BookedBackoff(what, Compacted(Observed(p).backoff))
                \in BackoffType
<1>1. /\ Observed(p).entry \in Entries
      /\ Compacted(Observed(p).backoff) \in BackoffType
  BY ObservedTyped, CompactedTyped
<1>2. Booked(what, Observed(p).entry, pick) \in Entries
  BY <1>1, RecordStartsOver DEF Booked
<1>3. what = "failover" => mem.leader \in Aliases
  BY DEF Decision, TypeOK, Leaders
<1>4. BookedBackoff(what, Compacted(Observed(p).backoff)) \in BackoffType
  BY <1>1, <1>3, NoteFailureTyped DEF BookedBackoff
<1>. QED BY <1>2, <1>4

LEMMA WrittenTyped ==
    ASSUME TypeOK, NEW p \in [Aliases -> Probes], NEW disabled, NEW rank,
           NEW phi, NEW pick \in Aliases, NEW what,
           what = Decision(p, Observed(p).entry, phi, pick),
           Written(p, disabled, rank, Observed(p), what, pick)
    PROVE  TypeOK'
<1>1. PICK ago : ago = IF what = "refresh" THEN promoted ELSE 0
  OBVIOUS
<1>2. ago \in 0..MinInterval
  BY <1>1, PolicyAssumption DEF TypeOK
<1>3. /\ row' \in RowType /\ mem' \in MemType /\ promoted' \in 0..MinInterval
      /\ flap' \in Entries /\ backoff' \in BackoffType
  <2>1. Pass([leader |-> pick, left |-> 0], [leader |-> pick, age |-> 0], ago,
             Booked(what, Observed(p).entry, pick),
             BookedBackoff(what, Compacted(Observed(p).backoff)))
    BY <1>1 DEF Written
  <2>. QED BY <1>2, <2>1, NamedTyped, BookedTyped, PassTyped
<1>4. /\ missed' \in 0..MissCap /\ tenure' \in 0..WaitCap
      /\ swap' \in [missed : 0..MissCap, synced : BOOLEAN]
      /\ waits' \in 0..WaitCap
  BY NamesTyped DEF Written
<1>5. /\ coord' \in BOOLEAN /\ synced' \in BOOLEAN /\ vacant' \in Nat
      /\ acked' \in SUBSET (1..Window)
  BY AgedTyped DEF Written, TypeOK, Aged
<1>. QED BY <1>3, <1>4, <1>5 DEF TypeOK, RowType, MemType, BackoffType

LEMMA WrittenUnheardTyped ==
    ASSUME TypeOK, NEW p \in [Aliases -> Probes], NEW disabled, NEW rank,
           NEW pick \in Aliases,
           WrittenUnheard(p, disabled, rank, Observed(p), pick)
    PROVE  TypeOK'
<1>1. /\ row' \in RowType /\ mem' \in MemType /\ promoted' \in 0..MinInterval
      /\ flap' \in Entries /\ backoff' \in BackoffType
  BY TypeParts, NamedTyped, ObservedTyped, CompactedTyped, PassTyped
     DEF WrittenUnheard, DecidesOK
<1>2. /\ missed' \in 0..MissCap /\ tenure' \in 0..WaitCap
      /\ swap' \in [missed : 0..MissCap, synced : BOOLEAN]
      /\ waits' \in 0..WaitCap
  BY NamesTyped DEF WrittenUnheard
<1>3. coord' \in BOOLEAN /\ synced' \in BOOLEAN
      /\ acked' \in SUBSET (1..Window)
  BY AgedTyped DEF WrittenUnheard, TypeOK
<1>4. vacant' \in Nat
  BY VacancyTyped DEF WrittenUnheard, TypeOK
<1>. QED BY <1>1, <1>2, <1>3, <1>4 DEF TypeOK, RowType, MemType, BackoffType

\* A cycle is one of four things done with its probes.
LEMMA CycleCases ==
    ASSUME Cycle
    PROVE  \E p \in [Aliases -> Probes], disabled \in SUBSET Aliases,
              rank \in {Rank, [a \in Aliases |-> 0]},
              phi \in BOOLEAN :
           LET o == Observed(p)
               picks == Picks(p, disabled, Resting(o.backoff), Weights(rank))
           IN  \/ /\ \/ picks = {}
                     \/ \E pick \in picks :
                          Decision(p, o.entry, phi, pick) = "none"
                  /\ Keeps(p, disabled, rank, o)
               \/ \E pick \in picks : \E what :
                    /\ what = Decision(p, o.entry, phi, pick)
                    /\ what # "none" /\ pick \in Aliases /\ p[pick].fit
                    /\ \/ Written(p, disabled, rank, o, what, pick)
                       \/ WrittenUnheard(p, disabled, rank, o, pick)
                       \/ NotWritten(p, disabled, o)
<1>1. PICK p \in [Aliases -> Probes], disabled \in SUBSET Aliases,
           rank \in {Rank, [a \in Aliases |-> 0]},
           phi \in IF PhiKnown(flap) THEN BOOLEAN ELSE {FALSE} :
        LET o == Observed(p)
            picks == Picks(p, disabled, Resting(o.backoff), Weights(rank))
        IN  \/ picks = {} /\ Keeps(p, disabled, rank, o)
            \/ \E pick \in picks :
                 LET what == Decision(p, o.entry, phi, pick)
                 IN  \/ what = "none" /\ Keeps(p, disabled, rank, o)
                     \/ /\ what # "none"
                        /\ \/ Written(p, disabled, rank, o, what, pick)
                           \/ WrittenUnheard(p, disabled, rank, o, pick)
                           \/ NotWritten(p, disabled, o)
  BY DEF Cycle
<1>2. phi \in BOOLEAN
  BY <1>1
<1>. DEFINE o == Observed(p)
            picks == Picks(p, disabled, Resting(o.backoff), Weights(rank))
<1>3. \A pick \in picks : pick \in Aliases /\ p[pick].fit
  BY PicksAreFit
<1>. HIDE DEF picks
<1>4. \/ /\ \/ picks = {}
            \/ \E pick \in picks : Decision(p, o.entry, phi, pick) = "none"
         /\ Keeps(p, disabled, rank, o)
      \/ \E pick \in picks : \E what :
           /\ what = Decision(p, o.entry, phi, pick)
           /\ what # "none" /\ pick \in Aliases /\ p[pick].fit
           /\ \/ Written(p, disabled, rank, o, what, pick)
              \/ WrittenUnheard(p, disabled, rank, o, pick)
              \/ NotWritten(p, disabled, o)
  BY <1>1, <1>3 DEF picks
<1>. QED BY <1>2, <1>4 DEF picks

\* The same without the choice of the pick.
LEMMA CycleOutcomes ==
    ASSUME Cycle
    PROVE  \E p \in [Aliases -> Probes], disabled \in SUBSET Aliases,
              rank \in {Rank, [a \in Aliases |-> 0]}, phi \in BOOLEAN :
           \/ Keeps(p, disabled, rank, Observed(p))
           \/ NotWritten(p, disabled, Observed(p))
           \/ \E pick \in Aliases : \E what :
                /\ what = Decision(p, Observed(p).entry, phi, pick)
                /\ what # "none"
                /\ \/ Written(p, disabled, rank, Observed(p), what, pick)
                   \/ WrittenUnheard(p, disabled, rank, Observed(p), pick)
<1>1. PICK p \in [Aliases -> Probes], disabled \in SUBSET Aliases,
           rank \in {Rank, [a \in Aliases |-> 0]}, phi \in BOOLEAN :
        LET o == Observed(p)
            picks == Picks(p, disabled, Resting(o.backoff), Weights(rank))
        IN  \/ /\ \/ picks = {}
                  \/ \E pick \in picks :
                       Decision(p, o.entry, phi, pick) = "none"
               /\ Keeps(p, disabled, rank, o)
            \/ \E pick \in picks : \E what :
                 /\ what = Decision(p, o.entry, phi, pick)
                 /\ what # "none" /\ pick \in Aliases /\ p[pick].fit
                 /\ \/ Written(p, disabled, rank, o, what, pick)
                    \/ WrittenUnheard(p, disabled, rank, o, pick)
                    \/ NotWritten(p, disabled, o)
  BY CycleCases
<1>2. \/ Keeps(p, disabled, rank, Observed(p))
      \/ NotWritten(p, disabled, Observed(p))
      \/ \E pick \in Aliases : \E what :
           /\ what = Decision(p, Observed(p).entry, phi, pick)
           /\ what # "none"
           /\ \/ Written(p, disabled, rank, Observed(p), what, pick)
              \/ WrittenUnheard(p, disabled, rank, Observed(p), pick)
  BY <1>1, Zenon
<1>. QED BY <1>2

LEMMA CycleTyped == TypeOK /\ Cycle => TypeOK'
<1>. SUFFICES ASSUME TypeOK, Cycle PROVE TypeOK'
  OBVIOUS
<1>1. PICK p \in [Aliases -> Probes], disabled \in SUBSET Aliases,
           rank \in {Rank, [a \in Aliases |-> 0]}, phi \in BOOLEAN :
        \/ Keeps(p, disabled, rank, Observed(p))
        \/ NotWritten(p, disabled, Observed(p))
        \/ \E pick \in Aliases : \E what :
             /\ what = Decision(p, Observed(p).entry, phi, pick)
             /\ \/ Written(p, disabled, rank, Observed(p), what, pick)
                \/ WrittenUnheard(p, disabled, rank, Observed(p), pick)
  BY CycleOutcomes
<1>. QED BY <1>1, KeepsTyped, NotWrittenTyped, WrittenTyped,
            WrittenUnheardTyped

LEMMA OverriddenTyped == TypeOK /\ CycleOverridden => TypeOK'
<1>. SUFFICES ASSUME TypeOK, CycleOverridden PROVE TypeOK'
  OBVIOUS
<1>1. PICK m : m = [leader |-> row.leader, age |-> OverrideTicks - row.left]
  OBVIOUS
<1>2. m \in MemType
  BY <1>1, PolicyAssumption DEF TypeOK, MemType
<1>3. Pass(row, m, promoted, Fresh, backoff)
  BY <1>1 DEF CycleOverridden
<1>4. /\ row' \in RowType /\ mem' \in MemType /\ promoted' \in 0..MinInterval
      /\ flap' \in Entries /\ backoff' \in BackoffType
  BY <1>2, <1>3, TypeParts, FreshIsEntry, PassTyped DEF DecidesOK
<1>. QED BY <1>4, MissCapIsEnough, NoSwapTyped, WaitCapTyped
     DEF CycleOverridden, TypeOK, RowType, MemType, BackoffType

LEMMA FreshTyped ==
    /\ Fresh \in Entries /\ NoMemory \in MemType
    /\ [a \in Aliases |-> NoBackoff] \in BackoffType
    /\ MinInterval \in 0..MinInterval /\ 0 \in 0..MinInterval
    /\ 0 \in 0..MissCap
BY FreshIsEntry, BackoffsTyped, MissCapIsEnough, PolicyAssumption
   DEF NoMemory, MemType, Leaders, BackoffType

LEMMA OthersTyped ==
    ASSUME TypeOK,
           \/ Idle \/ ChangeOffice \/ OtherAppoints \/ AppointManually
           \/ OtherPromotion \/ Restart \/ Crash \/ UNCHANGED vars
    PROVE  TypeOK'
<1>1. CASE Idle
  <2>1. /\ row' \in RowType /\ mem' \in MemType
        /\ promoted' \in 0..MinInterval /\ flap' \in Entries
        /\ backoff' \in BackoffType
    BY <1>1, TypeParts, PassTyped DEF Idle, DecidesOK
  <2>. QED BY <1>1, <2>1, AgedTyped, NoSwapTyped, WaitCapTyped
       DEF Idle, TypeOK, RowType, MemType, BackoffType
<1>2. CASE ChangeOffice
  BY <1>2, NoSwapTyped DEF ChangeOffice, TypeOK
<1>3. ASSUME NEW a \in Aliases, NEW left \in 0..OverrideTicks,
             Replaced(a, left)
      PROVE  TypeOK'
  <2>1. row' \in [leader : Leaders, left : 0..OverrideTicks]
    BY <1>3 DEF Replaced, Leaders
  <2>2. tenure' \in 0..WaitCap /\ waits' \in 0..WaitCap
    BY <1>3, WaitCapTyped DEF Replaced, TypeOK
  <2>. QED BY <1>3, <2>1, <2>2, FreshTyped, NoSwapTyped
       DEF Replaced, TypeOK
<1>4. CASE OtherAppoints \/ AppointManually
  <2>1. PICK a \in Aliases, left \in 0..OverrideTicks : Replaced(a, left)
    BY <1>4, PolicyAssumption DEF OtherAppoints, AppointManually
  <2>. QED BY <1>3, <2>1
<1>5. CASE OtherPromotion
  BY <1>5, NoSwapTyped, FreshTyped, WaitCapTyped DEF OtherPromotion, TypeOK
<1>6. CASE Restart
  BY <1>6, NoSwapTyped, FreshTyped, WaitCapTyped
     DEF Restart, TypeOK, BackoffType
<1>7. CASE Crash
  BY <1>7, NoSwapTyped, FreshTyped, WaitCapTyped
     DEF Crash, TypeOK, BackoffType, MemType
<1>8. CASE UNCHANGED vars
  BY <1>8 DEF vars, decides, history, TypeOK
<1>. QED BY <1>1, <1>2, <1>4, <1>5, <1>6, <1>7, <1>8

LEMMA InitTyped == Init => TypeOK
<1>. SUFFICES ASSUME Init PROVE TypeOK
  OBVIOUS
<1>1. row \in RowType /\ coord \in BOOLEAN /\ promoted \in 0..MinInterval
  <2>1. row = [leader |-> NoOne, left |-> 0]
        /\ coord = FALSE /\ promoted = MinInterval
    BY DEF Init
  <2>2. row \in RowType
    BY <2>1, PolicyAssumption DEF RowType, Leaders
  <2>3. coord \in BOOLEAN
    BY <2>1
  <2>4. MinInterval \in 0..MinInterval
    BY PolicyAssumption
  <2>. QED BY <2>1, <2>2, <2>3, <2>4
<1>2. mem \in MemType /\ flap \in Entries /\ backoff \in BackoffType
  BY FreshTyped DEF Init
<1>3. /\ synced \in BOOLEAN /\ missed \in 0..MissCap /\ vacant \in Nat
      /\ acked \in SUBSET (1..Window)
      /\ tenure \in 0..WaitCap /\ waits \in 0..WaitCap
  BY FreshTyped, WaitCapTyped DEF Init
<1>4. swap \in [missed : 0..MissCap, synced : BOOLEAN]
  BY NoSwapTyped DEF Init
<1>. QED BY <1>1, <1>2, <1>3, <1>4 DEF TypeOK, RowType, MemType, BackoffType

\* For every replicaset and all timers: the ages, counters and windows of the
\* appointment cycle and of antiflap stay in the ranges they are compared in
\* (antiflap.lua:71-352, agent.lua:330-790).
THEOREM PolicyTypeCorrect == Spec => []TypeOK
<1>1. TypeOK /\ [Next]_vars => TypeOK'
  BY OverriddenTyped, CycleTyped, OthersTyped DEF Next
<1>. QED BY InitTyped, <1>1, PTL DEF Spec

-----------------------------------------------------------------------------
(***************************************************************************)
(* The end of a storm.                                                     *)
(***************************************************************************)

\* Failovers that stay in the window for another tick.
Young == acked \ {Window}

\* Every acknowledged failover still in the window is a change antiflap remembers.
FailoversRemembered == Young \subseteq flap.changes

\* With more failovers acknowledged in the window than the threshold, suppression lasts
\* for all of Cooldown from each of them.
StormSuppressed ==
    Cardinality(Young) > Threshold =>
      \A c \in Young : flap.suppressed + c >= Cooldown

SInv == TypeOK /\ FailoversRemembered /\ StormSuppressed /\ FlapBound

\* Ages that go through a tick: no more of them come out than went in.
LEMMA AgedAges ==
    ASSUME NEW G \in SUBSET (0..Window)
    PROVE  /\ IsFiniteSet(G \ {Window}) /\ IsFiniteSet(Aged(G))
           /\ Aged(G) \in SUBSET (1..Window)
           /\ \A c \in Aged(G) : c - 1 \in G \ {Window}
           /\ Cardinality(G \ {Window}) \in Nat
           /\ Cardinality(Aged(G)) <= Cardinality(G \ {Window})
           /\ IsFiniteSet(Aged(G) \ {Window})
           /\ Cardinality(Aged(G)) \in Nat
           /\ Cardinality(Aged(G) \ {Window}) \in Nat
           /\ Cardinality(Aged(G) \ {Window}) <= Cardinality(Aged(G))
<1>1. Window \in Nat
  BY AntiFlapAssumption
<1>2. IsFiniteSet(0..Window)
  BY <1>1, FS_Interval
<1>3. IsFiniteSet(G \ {Window})
  BY <1>2, FS_Subset
<1>4. Aged(G) \in SUBSET (1..Window) /\ \A c \in Aged(G) : c - 1 \in G \ {Window}
  BY <1>1 DEF Aged
<1>. DEFINE f == [c \in Aged(G) |-> c - 1]
<1>5. f \in Injection(Aged(G), G \ {Window})
  <2>1. \A c \in Aged(G) : c \in Int
    BY <1>1, <1>4
  <2>2. f \in [Aged(G) -> G \ {Window}]
    BY <1>4
  <2>3. \A a, b \in Aged(G) : f[a] = f[b] => a = b
    BY <2>1
  <2>. HIDE DEF f
  <2>. QED BY <2>2, <2>3 DEF Injection, IsInjective
<1>6. IsFiniteSet(Aged(G)) /\ Cardinality(Aged(G)) <= Cardinality(G \ {Window})
  BY <1>3, <1>5, FS_Injection
<1>7. /\ Cardinality(G \ {Window}) \in Nat /\ Cardinality(Aged(G)) \in Nat
  BY <1>3, <1>6, FS_CardinalityType
<1>8. /\ IsFiniteSet(Aged(G) \ {Window})
      /\ Cardinality(Aged(G) \ {Window}) <= Cardinality(Aged(G))
  BY <1>6, FS_Subset
<1>9. Cardinality(Aged(G) \ {Window}) \in Nat
  BY <1>8, FS_CardinalityType
<1>. QED BY <1>3, <1>4, <1>6, <1>7, <1>8, <1>9

\* SInv after a tick that started from the acknowledged failovers G and the entry e.
LEMMA PassCalms ==
    ASSUME TypeOK', NEW e \in Entries, flap' = AgedEntry(e),
           NEW G \in SUBSET (0..Window), acked' = Aged(G),
           G \ {Window} \subseteq e.changes,
           Cardinality(G \ {Window}) > Threshold =>
             \A c \in G \ {Window} : e.suppressed + c >= Cooldown,
           Window <= Cooldown => Cardinality(G \ {Window}) <= Threshold + 1
    PROVE  SInv'
<1>. DEFINE H == Aged(G) \ {Window}
<1>1. /\ Window \in Nat \ {0} /\ Cooldown \in Nat /\ Threshold \in Nat
      /\ e.changes \in SUBSET (0..Window - 1) /\ e.suppressed \in Nat
  BY AntiFlapAssumption DEF Entries
<1>0. /\ \A c \in Aged(G) : c - 1 \in G \ {Window}
      /\ Aged(G) \in SUBSET (1..Window)
      /\ Cardinality(G \ {Window}) \in Nat /\ Cardinality(Aged(G)) \in Nat
      /\ Cardinality(H) \in Nat
      /\ Cardinality(Aged(G)) <= Cardinality(G \ {Window})
      /\ Cardinality(H) <= Cardinality(Aged(G))
  BY AgedAges
<1>2. /\ flap'.changes = {c \in 1..Window - 1 : c - 1 \in e.changes}
      /\ flap'.suppressed = Less(e.suppressed)
  BY DEF AgedEntry, Entries
<1>3. \A c \in H : c \in 1..Window - 1 /\ c - 1 \in G \ {Window}
  BY <1>1, <1>0
<1>4. H \subseteq flap'.changes
  BY <1>2, <1>3
<1>5. ASSUME Cardinality(H) > Threshold, NEW c \in H
      PROVE  flap'.suppressed + c >= Cooldown
  <2>1. Cardinality(G \ {Window}) > Threshold
    BY <1>1, <1>5, <1>0
  <2>2. e.suppressed + (c - 1) >= Cooldown
    BY <1>3, <2>1
  <2>. QED BY <1>1, <1>2, <1>3, <2>2 DEF Less
<1>6. Window <= Cooldown => Cardinality(Aged(G)) <= Threshold + 1
  BY <1>1, <1>0
<1>7. FailoversRemembered' /\ StormSuppressed'
  BY <1>4, <1>5 DEF FailoversRemembered, StormSuppressed, Young
<1>. QED BY <1>6, <1>7 DEF SInv, FlapBound

\* What SInv says of the acknowledged failovers there are.
LEMMA FailoversBounded ==
    ASSUME SInv
    PROVE  /\ acked \in SUBSET (0..Window) /\ 0 \notin acked
           /\ IsFiniteSet(acked) /\ IsFiniteSet(Young)
           /\ Cardinality(Young) \in Nat
           /\ Window <= Cooldown => Cardinality(Young) <= Threshold + 1
<1>1. acked \in SUBSET (1..Window) /\ Window \in Nat /\ Threshold \in Nat
  BY AntiFlapAssumption DEF SInv, TypeOK
<1>2. IsFiniteSet(acked)
  <2>1. IsFiniteSet(1..Window)
    BY <1>1, FS_Interval
  <2>. QED BY <1>1, <2>1, FS_Subset
<1>3. IsFiniteSet(Young) /\ Cardinality(Young) <= Cardinality(acked)
  BY <1>2, FS_Subset DEF Young
<1>4. Cardinality(Young) \in Nat /\ Cardinality(acked) \in Nat
  BY <1>2, <1>3, FS_CardinalityType
<1>. QED BY <1>1, <1>2, <1>3, <1>4 DEF SInv, FlapBound

\* A tick without a failover, from an entry that remembers at least as much.
LEMMA QuietCalms ==
    ASSUME SInv, TypeOK', NEW e \in Entries, flap' = AgedEntry(e),
           acked' = Aged(acked),
           flap.changes \subseteq e.changes, e.suppressed >= flap.suppressed
    PROVE  SInv'
<1>1. /\ acked \in SUBSET (0..Window)
      /\ Window <= Cooldown => Cardinality(Young) <= Threshold + 1
  BY FailoversBounded
<1>2. Young \subseteq e.changes
  BY DEF SInv, FailoversRemembered
<1>3. ASSUME Cardinality(Young) > Threshold, NEW c \in Young
      PROVE  e.suppressed + c >= Cooldown
  <2>1. flap.suppressed + c >= Cooldown
    BY <1>3 DEF SInv, StormSuppressed
  <2>2. e.suppressed \in Nat /\ flap.suppressed \in Nat /\ c \in Nat
        /\ Cooldown \in Nat
    BY <1>1, AntiFlapAssumption DEF SInv, TypeOK, Entries, Young
  <2>. QED BY <2>1, <2>2
<1>. QED BY <1>1, <1>2, <1>3, PassCalms DEF Young

\* A cycle's observation forgets no change and no suppression.
LEMMA ObservedRemembers ==
    ASSUME TypeOK, NEW p \in [Aliases -> Probes]
    PROVE  /\ Observed(p).entry.changes = flap.changes
           /\ Observed(p).entry.suppressed = flap.suppressed
<1>. DEFINE e == Observe(flap, Healthy(p))
<1>1. flap \in Entries
  BY DEF TypeOK
<1>2. e.changes = flap.changes /\ e.suppressed = flap.suppressed
  BY <1>1 DEF Observe, Entries
<1>3. Healthy(p) \in BOOLEAN /\ Writable(p) \in BOOLEAN
  BY DEF TypeOK, Leaders, Healthy, Writable, Probes
<1>4. e \in Entries
  BY <1>1, <1>3, ObserveCounts
<1>. HIDE DEF e
<1>5. CASE mem.leader = NoOne
  BY <1>2, <1>5 DEF Observed, e
<1>6. CASE mem.leader # NoOne
  <2>1. Observed(p) = CheckAppointment(e, backoff, Writable(p))
    BY <1>6 DEF Observed, e
  <2>2. \/ Observed(p).entry = [e EXCEPT !.appointed = NoOne]
        \/ Observed(p).entry = e
    BY <2>1 DEF CheckAppointment
  <2>. QED BY <1>2, <1>4, <2>2 DEF Entries
<1>. QED BY <1>5, <1>6

\* What record_change leaves of an entry.
LEMMA RecordRemembers ==
    ASSUME NEW e \in Entries, NEW pick \in Aliases
    PROVE  LET r == RecordChange(NoteAppointed(e, pick))
           IN  /\ r \in Entries
               /\ r.changes = e.changes \cup {0}
               /\ r.suppressed = IF Cardinality(e.changes) >= Threshold
                                 THEN Cooldown ELSE e.suppressed
<1>. DEFINE n == NoteAppointed(e, pick)
            r == RecordChange(n)
<1>1. n = [e EXCEPT !.appointed = pick, !.since = 0]
  BY DEF NoteAppointed
<1>2. n.changes = e.changes /\ n.suppressed = e.suppressed
  BY <1>1 DEF Entries
<1>. HIDE DEF n
<1>3. /\ r.changes = n.changes \cup {0}
      /\ r.suppressed = IF Cardinality(n.changes) >= Threshold
                        THEN Cooldown ELSE n.suppressed
  BY DEF RecordChange, Fresh
<1>. HIDE DEF r
<1>. QED BY <1>2, <1>3, RecordStartsOver DEF r, n

\* A failover is let in only while nothing is suppressed, so no storm is on.
LEMMA FailoverCalms ==
    ASSUME SInv, TypeOK', NEW p \in [Aliases -> Probes],
           NEW phi, NEW age, NEW pick \in Aliases,
           FailoverAllowed(Observed(p).entry, phi, age),
           flap' = AgedEntry(RecordChange(NoteAppointed(Observed(p).entry,
                                                        pick))),
           acked' = Aged(acked \cup {0})
    PROVE  SInv'
<1>. DEFINE o == Observed(p).entry
            e == RecordChange(NoteAppointed(o, pick))
            G == acked \cup {0}
<1>1. TypeOK /\ flap \in Entries /\ o \in Entries
  BY ObservedTyped DEF SInv, TypeOK
<1>2. o.changes = flap.changes /\ o.suppressed = flap.suppressed
  BY <1>1, ObservedRemembers
<1>3. /\ e \in Entries /\ e.changes = flap.changes \cup {0}
      /\ e.suppressed = IF Cardinality(flap.changes) >= Threshold
                        THEN Cooldown ELSE flap.suppressed
  BY <1>1, <1>2, RecordRemembers
<1>4. flap.suppressed = 0
  BY <1>2 DEF FailoverAllowed
<1>. HIDE DEF e
<1>5. /\ Window \in Nat \ {0} /\ Cooldown \in Nat \ {0}
      /\ Threshold \in Nat \ {0}
  BY AntiFlapAssumption
<1>6. /\ acked \in SUBSET (0..Window) /\ IsFiniteSet(Young)
      /\ Cardinality(Young) \in Nat
  BY FailoversBounded
<1>7. G \in SUBSET (0..Window) /\ G \ {Window} = Young \cup {0}
  BY <1>5, <1>6 DEF Young
<1>8. /\ Cardinality(G \ {Window}) <= Cardinality(Young) + 1
      /\ Cardinality(G \ {Window}) \in Nat
  <2>1. Cardinality(Young \cup {0}) =
          IF 0 \in Young THEN Cardinality(Young) ELSE Cardinality(Young) + 1
    BY <1>6, FS_AddElement
  <2>2. Cardinality(Young \cup {0}) \in Nat
    BY <1>6, <2>1
  <2>3. Cardinality(G \ {Window}) = Cardinality(Young \cup {0})
    BY <1>7, Zenon
  <2>. QED BY <1>6, <2>1, <2>2, <2>3
<1>9. Window <= Cooldown => Cardinality(Young) <= Threshold
  <2>. SUFFICES ASSUME Window <= Cooldown, Cardinality(Young) > Threshold
                PROVE  FALSE
    BY <1>5, <1>6
  <2>1. Young # {}
    BY <1>5, FS_EmptySet
  <2>2. PICK c \in Young : TRUE
    BY <2>1
  <2>3. c < Window
    BY <1>5, <1>6 DEF Young
  <2>4. flap.suppressed + c >= Cooldown
    BY DEF SInv, StormSuppressed
  <2>5. c \in Nat
    BY <1>6 DEF Young
  <2>. QED BY <1>4, <1>5, <2>3, <2>4, <2>5
<1>10. G \ {Window} \subseteq e.changes
  BY <1>3, <1>7 DEF SInv, FailoversRemembered
<1>11. ASSUME Cardinality(G \ {Window}) > Threshold, NEW c \in G \ {Window}
       PROVE  e.suppressed + c >= Cooldown
  <2>1. Cardinality(Young) >= Threshold
    BY <1>5, <1>6, <1>8, <1>11
  <2>2. Cardinality(flap.changes) >= Threshold
    <3>1. IsFiniteSet(flap.changes)
      <4>1. IsFiniteSet(0..Window - 1)
        BY <1>5, FS_Interval
      <4>2. flap.changes \in SUBSET (0..Window - 1)
        BY <1>1 DEF Entries
      <4>. QED BY <4>1, <4>2, FS_Subset
    <3>2. Cardinality(Young) <= Cardinality(flap.changes)
      BY <3>1, FS_Subset DEF SInv, FailoversRemembered
    <3>3. Cardinality(flap.changes) \in Nat
      BY <3>1, FS_CardinalityType
    <3>. QED BY <1>5, <1>6, <2>1, <3>2, <3>3
  <2>3. e.suppressed = Cooldown /\ c \in Nat
    BY <1>3, <1>7, <2>2
  <2>. QED BY <1>5, <2>3
<1>12. Window <= Cooldown => Cardinality(G \ {Window}) <= Threshold + 1
  BY <1>5, <1>6, <1>8, <1>9
<1>. HIDE DEF G
<1>. QED BY <1>3, <1>7, <1>10, <1>11, <1>12, PassCalms DEF e, G

\* A record that starts over with no failover in it.
LEMMA ClearedCalm == TypeOK /\ acked = {} => SInv
<1>. SUFFICES ASSUME TypeOK, acked = {} PROVE SInv
  OBVIOUS
<1>1. Young = {}
  BY DEF Young
<1>2. Cardinality(acked) = 0 /\ Cardinality(Young) = 0
  BY <1>1, FS_EmptySet
<1>3. FlapBound
  BY <1>2, AntiFlapAssumption DEF FlapBound
<1>. QED BY <1>1, <1>3 DEF SInv, FailoversRemembered, StormSuppressed

LEMMA WrittenCalms ==
    ASSUME SInv, TypeOK', NEW p \in [Aliases -> Probes], NEW disabled,
           NEW rank, NEW phi, NEW pick \in Aliases, NEW what,
           what = Decision(p, Observed(p).entry, phi, pick), what # "none",
           Written(p, disabled, rank, Observed(p), what, pick)
    PROVE  SInv'
<1>. DEFINE o == Observed(p).entry
<1>1. TypeOK /\ o \in Entries /\ flap \in Entries
  BY ObservedTyped DEF SInv, TypeOK
<1>2. o.changes = flap.changes /\ o.suppressed = flap.suppressed
  BY <1>1, ObservedRemembers
<1>3. flap' = AgedEntry(Booked(what, o, pick))
  BY DEF Written, Pass
<1>. HIDE DEF o
<1>4. CASE what = "refresh"
  <2>1. flap' = AgedEntry(o) /\ acked' = Aged(acked)
    BY <1>3, <1>4 DEF Booked, Written
  <2>. QED BY <1>1, <1>2, <2>1, QuietCalms DEF Entries
<1>5. CASE what = "swap"
  <2>1. PICK r : r = RecordChange(NoteAppointed(o, pick))
    OBVIOUS
  <2>2. flap' = AgedEntry(r) /\ acked' = Aged(acked)
    BY <1>3, <1>5, <2>1 DEF Booked, Written
  <2>3. /\ r \in Entries /\ flap.changes \subseteq r.changes
        /\ r.suppressed >= flap.suppressed
    BY <1>1, <1>2, <2>1, RecordRemembers, AntiFlapAssumption DEF Entries
  <2>. QED BY <2>2, <2>3, QuietCalms
<1>6. CASE what = "failover"
  <2>1. flap' = AgedEntry(RecordChange(NoteAppointed(o, pick)))
    BY <1>3, <1>6 DEF Booked
  <2>2. acked' = Aged(acked \cup {0})
    BY <1>6 DEF Written
  <2>3. FailoverAllowed(o, phi, mem.age)
    BY <1>6 DEF Decision, o
  <2>. QED BY <2>1, <2>2, <2>3, FailoverCalms DEF o
<1>7. what \in {"refresh", "swap", "failover", "none"}
  BY DEF Decision
<1>. QED BY <1>4, <1>5, <1>6, <1>7

LEMMA CycleCalms == SInv /\ TypeOK' /\ Cycle => SInv'
<1>. SUFFICES ASSUME SInv, TypeOK', Cycle PROVE SInv'
  OBVIOUS
<1>1. TypeOK
  BY DEF SInv
<1>2. PICK p \in [Aliases -> Probes], disabled \in SUBSET Aliases,
           rank \in {Rank, [a \in Aliases |-> 0]}, phi \in BOOLEAN :
        \/ Keeps(p, disabled, rank, Observed(p))
        \/ NotWritten(p, disabled, Observed(p))
        \/ \E pick \in Aliases : \E what :
             /\ what = Decision(p, Observed(p).entry, phi, pick)
             /\ what # "none"
             /\ \/ Written(p, disabled, rank, Observed(p), what, pick)
                \/ WrittenUnheard(p, disabled, rank, Observed(p), pick)
  BY CycleOutcomes
<1>3. CASE flap' = AgedEntry(Observed(p).entry) /\ acked' = Aged(acked)
  BY <1>1, <1>3, ObservedTyped, ObservedRemembers, QuietCalms
     DEF TypeOK, Entries
<1>4. CASE Keeps(p, disabled, rank, Observed(p))
  BY <1>3, <1>4 DEF Keeps, Pass
<1>5. CASE NotWritten(p, disabled, Observed(p))
  BY <1>3, <1>5 DEF NotWritten, Pass
<1>6. ASSUME NEW pick \in Aliases,
             WrittenUnheard(p, disabled, rank, Observed(p), pick)
      PROVE  SInv'
  BY <1>3, <1>6 DEF WrittenUnheard, Pass
<1>. QED BY <1>2, <1>4, <1>5, <1>6, WrittenCalms

LEMMA OthersCalm ==
    ASSUME SInv, TypeOK',
           \/ CycleOverridden \/ Idle \/ ChangeOffice \/ OtherAppoints
           \/ AppointManually \/ OtherPromotion \/ Restart \/ Crash
           \/ UNCHANGED vars
    PROVE  SInv'
<1>1. CASE CycleOverridden \/ Restart \/ Crash
  <2>1. (TypeOK /\ acked = {} => SInv)'
    BY ClearedCalm, PTL
  <2>. QED BY <1>1, <2>1 DEF CycleOverridden, Restart, Crash
<1>2. CASE Idle
  <2>1. flap' = AgedEntry(flap) /\ acked' = Aged(acked)
    BY <1>2 DEF Idle, Pass
  <2>2. flap \in Entries
    BY DEF SInv, TypeOK
  <2>. QED BY <2>1, <2>2, QuietCalms DEF Entries
<1>3. CASE UNCHANGED <<flap, acked>>
  BY <1>3 DEF SInv, FailoversRemembered, StormSuppressed, FlapBound, Young
<1>4. CASE \/ ChangeOffice \/ OtherAppoints \/ AppointManually
           \/ OtherPromotion \/ UNCHANGED vars
  BY <1>3, <1>4 DEF ChangeOffice, OtherAppoints, AppointManually, Replaced,
                    OtherPromotion, vars, decides, history
<1>. QED BY <1>1, <1>2, <1>3, <1>4

\* For every threshold, window and cooldown: antiflap remembers every
\* acknowledged failover of the window, and a storm of them keeps the breaker open until it is over.
THEOREM StormInvariant == Spec => []SInv
<1>1. Init => SInv
  <2>. SUFFICES ASSUME Init PROVE SInv
    OBVIOUS
  <2>. QED BY InitTyped, ClearedCalm DEF Init
<1>2. SInv /\ TypeOK' /\ [Next]_vars => SInv'
  BY CycleCalms, OthersCalm DEF Next
<1>. QED BY <1>1, <1>2, PolicyTypeCorrect, PTL DEF Spec

\* No window sees more than suppress_threshold + 1 acknowledged failovers by
\* one coordinator, whatever else changed the row in between, failovers whose
\* reply was lost included: every acknowledged one went through the breaker and
\* is counted by it; the others are neither bounded nor counted.
THEOREM AcknowledgedStormsEnd == Spec => []FlapBound
<1>1. SInv => FlapBound
  BY DEF SInv
<1>. QED BY StormInvariant, <1>1, PTL

-----------------------------------------------------------------------------
(***************************************************************************)
(* The end of an unfit leader.                                             *)
(***************************************************************************)

\* Every timer that may hold a failover back ran for k ticks, or is over.
ClocksRan(k, e, m, ago) ==
    /\ k > 0 => m.leader # NoOne
    /\ e.misses >= Least(k, MissCap)
    /\ e.heard => e.silent >= Least(k, SurelyDead)
    /\ m.age >= Least(k, StartGrace)
    /\ ago >= Least(k, MinInterval)
    /\ e.suppressed = 0 \/ e.suppressed + k <= Cooldown

CInv == TypeOK /\ ClocksRan(vacant, flap, mem, promoted) /\ LeaderReplaced

LEMMA LongestIsLongest ==
    /\ Longest \in Nat
    /\ Longest >= MissCap /\ Longest >= SurelyDead /\ Longest >= StartGrace
    /\ Longest >= MinInterval /\ Longest >= Cooldown
<1>. DEFINE S == {MissCap, SurelyDead, StartGrace, MinInterval, Cooldown}
<1>1. S \subseteq Nat
  BY MissCapIsEnough, AntiFlapAssumption, PolicyAssumption
<1>2. \E n \in S : \A m \in S : n >= m
  BY <1>1
<1>3. Longest \in S /\ \A m \in S : Longest >= m
  BY <1>2 DEF Longest
<1>. QED BY <1>1, <1>3

\* A finite set that is not empty has an element of the greatest score.
LEMMA GreatestExists ==
    ASSUME NEW C, IsFiniteSet(C), C # {}, NEW s \in [C -> Nat]
    PROVE  \E a \in C : \A c \in C : s[a] >= s[c]
<1>. DEFINE Good(D) == \E a \in D : \A c \in D : s[a] >= s[c]
            T == {D \in SUBSET C : D # {} /\ ~Good(D)}
<1>. SUFFICES ASSUME T # {} PROVE FALSE
  OBVIOUS
<1>1. IsWellFoundedOn(StrictSubsetOrdering(C), SUBSET C)
  BY FS_StrictSubsetOrderingWellFounded, FS_FiniteSubsetsOfFinite
<1>2. PICK D \in T : \A E \in T : ~(<<E, D>> \in StrictSubsetOrdering(C))
  <2>1. T \subseteq SUBSET C
    OBVIOUS
  <2>. HIDE DEF T
  <2>. QED BY <1>1, <2>1, WFMin
<1>3. D \in SUBSET C /\ D # {} /\ ~Good(D)
  OBVIOUS
<1>4. PICK x \in D : TRUE
  BY <1>3
<1>5. CASE D = {x}
  <2>1. s[x] >= s[x]
    BY <1>3, <1>4
  <2>. QED BY <1>3, <1>5, <2>1
<1>6. CASE D # {x}
  <2>1. D \ {x} # {} /\ D \ {x} \in SUBSET C
    BY <1>3, <1>4, <1>6
  <2>2. <<D \ {x}, D>> \in StrictSubsetOrdering(C)
    BY <1>3, <1>4, <2>1 DEF StrictSubsetOrdering
  <2>3. Good(D \ {x})
    BY <1>2, <2>1, <2>2
  <2>4. PICK a \in D \ {x} : \A c \in D \ {x} : s[a] >= s[c]
    BY <2>3
  <2>5. s[a] \in Nat /\ s[x] \in Nat /\ \A c \in D : s[c] \in Nat
    BY <1>3, <1>4
  <2>6. CASE s[a] >= s[x]
    BY <1>3, <2>4, <2>6
  <2>7. CASE s[x] >= s[a]
    <3>1. \A c \in D : s[x] >= s[c]
      BY <2>4, <2>5, <2>7
    <3>. QED BY <1>3, <1>4, <3>1
  <2>. QED BY <2>5, <2>6, <2>7
<1>. QED BY <1>5, <1>6

\* pick_leader picks somebody as long as one instance qualifies.
LEMMA SomebodyPicked ==
    ASSUME NEW p \in [Aliases -> Probes], NEW disabled, NEW resting,
           NEW rank \in [Aliases -> Nat], Candidates(p, disabled) # {}
    PROVE  Picks(p, disabled, resting, rank) # {}
<1>1. ASSUME NEW out, Candidates(p, out) # {}
      PROVE  Best(p, out, rank) # {}
  <2>. DEFINE C == Candidates(p, out)
              s == [a \in C |-> Score(p, rank, a)]
  <2>1. C \subseteq Aliases /\ IsFiniteSet(C)
    BY AntiFlapAssumption, FS_Subset DEF Candidates
  <2>2. \A a \in C : Score(p, rank, a) \in Nat
    BY <2>1 DEF Score
  <2>3. s \in [C -> Nat]
    BY <2>2
  <2>. HIDE DEF C
  <2>4. PICK a \in C : \A c \in C : s[a] >= s[c]
    <3>. HIDE DEF s
    <3>. QED BY <1>1, <2>1, <2>3, GreatestExists DEF C
  <2>5. \A c \in C : Score(p, rank, a) >= Score(p, rank, c)
    BY <2>4
  <2>. QED BY <2>4, <2>5 DEF Best, C
<1>. QED BY <1>1 DEF Picks

LEMMA WeightsTyped ==
    ASSUME NEW rank \in {Rank, [a \in Aliases |-> 0]}
    PROVE  Weights(rank) \in [Aliases -> Nat]
BY PolicyAssumption DEF Weights

\* Nothing ran, nothing is owed.
LEMMA OccupiedIsFine == TypeOK /\ vacant = 0 => CInv
<1>. SUFFICES ASSUME TypeOK, vacant = 0 PROVE CInv
  OBVIOUS
<1>1. \A n \in Nat : Least(0, n) = 0
  BY DEF Least
<1>2. /\ MissCap \in Nat /\ SurelyDead \in Nat /\ StartGrace \in Nat
      /\ MinInterval \in Nat
  BY MissCapIsEnough, AntiFlapAssumption, PolicyAssumption
<1>3. ClocksRan(vacant, flap, mem, promoted)
  BY <1>1, <1>2 DEF ClocksRan, TypeOK, Entries
<1>. QED BY <1>3, LongestIsLongest DEF CInv, LeaderReplaced

\* A bound reached counts once more or not at all.
LEMMA LeastGrows ==
    ASSUME NEW j \in Nat, NEW k \in Nat, j <= k + 1, NEW n \in Nat,
           NEW t \in Nat, t >= Least(k, n), NEW cap \in Nat, cap >= n
    PROVE  /\ Least(t + 1, cap) >= Least(j, n)
           /\ j <= k => t >= Least(j, n)
BY DEF Least

\* The clocks after a tick that started from the memory m and the entry e.
LEMMA PassRuns ==
    ASSUME NEW r \in RowType, NEW m \in MemType, NEW ago \in 0..MinInterval,
           NEW e \in Entries, NEW b, Pass(r, m, ago, e, b),
           NEW j \in Nat, NEW k \in Nat, j <= k + 1,
           j > 0 => m.leader # NoOne,
           e.misses >= Least(j, MissCap),
           e.heard => e.silent >= Least(k, SurelyDead),
           m.age >= Least(k, StartGrace), ago >= Least(k, MinInterval),
           e.suppressed = 0 \/ e.suppressed + k <= Cooldown
    PROVE  ClocksRan(j, flap', mem', promoted')
<1>1. /\ SurelyDead \in Nat /\ StartGrace \in Nat /\ MinInterval \in Nat
      /\ Cooldown \in Nat /\ AgeCap \in Nat /\ AgeCap >= StartGrace
  BY AntiFlapAssumption, PolicyAssumption
<1>2. /\ e.silent \in Nat /\ e.suppressed \in Nat /\ m.age \in Nat
      /\ ago \in Nat
  BY <1>1 DEF Entries, MemType
<1>3. flap' = AgedEntry(e)
  BY DEF Pass
<1>4. flap'.misses = e.misses
  BY <1>3, AgedKeepsMisses
<1>5. flap'.heard => flap'.silent >= Least(j, SurelyDead)
  <2>1. flap'.heard = e.heard
        /\ flap'.silent = IF e.heard THEN Least(e.silent + 1, SurelyDead)
                                     ELSE e.silent
    BY <1>3 DEF AgedEntry, Entries
  <2>. QED BY <1>1, <1>2, <2>1, LeastGrows
<1>6. flap'.suppressed = 0 \/ flap'.suppressed + j <= Cooldown
  <2>1. flap'.suppressed = Less(e.suppressed)
    BY <1>3 DEF AgedEntry, Entries
  <2>. QED BY <1>1, <1>2, <2>1 DEF Less
<1>7. mem'.leader = m.leader /\ mem'.age >= Least(j, StartGrace)
  <2>1. /\ mem'.leader = m.leader
        /\ mem'.age = IF m.leader = NoOne THEN 0
                      ELSE Least(m.age + 1, AgeCap)
    BY DEF Pass, MemType
  <2>2. CASE m.leader = NoOne
    BY <1>1, <2>1, <2>2 DEF Least
  <2>3. CASE m.leader # NoOne
    BY <1>1, <1>2, <2>1, <2>3, LeastGrows
  <2>. QED BY <2>1, <2>2, <2>3
<1>8. promoted' >= Least(j, MinInterval)
  <2>1. promoted' = Least(ago + 1, MinInterval)
    BY DEF Pass
  <2>. QED BY <1>1, <1>2, <2>1, LeastGrows
<1>. QED BY <1>4, <1>5, <1>6, <1>7, <1>8 DEF ClocksRan

\* What a cycle sees of a leader that is not healthy.
LEMMA UnfitObserved ==
    ASSUME TypeOK, NEW p \in [Aliases -> Probes], ~Healthy(p)
    PROVE  LET e == Observed(p).entry
           IN  /\ e.misses = Least(flap.misses + 1, MissCap)
               /\ e.heard = flap.heard /\ e.silent = flap.silent
               /\ e.samples = flap.samples /\ e.suppressed = flap.suppressed
<1>. DEFINE e == Observe(flap, Healthy(p))
<1>1. flap \in Entries
  BY DEF TypeOK
<1>2. /\ e.misses = Least(flap.misses + 1, MissCap)
      /\ e.heard = flap.heard /\ e.silent = flap.silent
      /\ e.samples = flap.samples /\ e.suppressed = flap.suppressed
  BY <1>1 DEF Observe, Entries
<1>3. e \in Entries
  <2>1. Healthy(p) \in BOOLEAN
    BY DEF TypeOK, Leaders, Healthy, Probes
  <2>. QED BY <1>1, <2>1, ObserveCounts
<1>. HIDE DEF e
<1>4. \/ Observed(p).entry = [e EXCEPT !.appointed = NoOne]
      \/ Observed(p).entry = e
  BY DEF Observed, CheckAppointment, e
<1>. QED BY <1>2, <1>3, <1>4 DEF Entries

\* Once every timer has run out, a cycle does not keep an unfit leader.
LEMMA VacancyEnds ==
    ASSUME CInv, NEW p \in [Aliases -> Probes], NEW disabled,
           NEW rank \in {Rank, [a \in Aliases |-> 0]}, NEW phi \in BOOLEAN,
           mem.leader # NoOne, ~Healthy(p), Candidates(p, disabled) # {},
           vacant >= Longest,
           NEW pick \in Aliases, p[pick].fit
    PROVE  Decision(p, Observed(p).entry, phi, pick) = "failover"
<1>. DEFINE e == Observed(p).entry
<1>1. TypeOK /\ flap \in Entries /\ ClocksRan(vacant, flap, mem, promoted)
  BY DEF CInv, TypeOK
<1>2. /\ MissCap \in Nat /\ MissCap >= MinMisses /\ MissCap >= DampenCycles
      /\ SurelyDead \in Nat /\ StartGrace \in Nat /\ MinInterval \in Nat
      /\ Cooldown \in Nat /\ MinMisses \in Nat /\ DampenCycles \in Nat
  BY MissCapIsEnough, AntiFlapAssumption, PolicyAssumption
<1>3. /\ vacant \in Nat /\ vacant >= MissCap /\ vacant >= SurelyDead
      /\ vacant >= StartGrace /\ vacant >= MinInterval /\ vacant >= Cooldown
  BY <1>1, <1>2, LongestIsLongest DEF TypeOK
<1>4. /\ e.misses = Least(flap.misses + 1, MissCap)
      /\ e.heard = flap.heard /\ e.silent = flap.silent
      /\ e.suppressed = flap.suppressed
  BY <1>1, UnfitObserved
<1>5. /\ flap.misses \in Nat /\ flap.silent \in Nat /\ flap.suppressed \in Nat
      /\ mem.age \in Nat /\ promoted \in Nat
  BY <1>1, <1>2, PolicyAssumption DEF TypeOK, Entries
<1>. HIDE DEF e
<1>6. e.misses >= MissCap
  BY <1>1, <1>2, <1>3, <1>4, <1>5 DEF ClocksRan, Least
<1>7. e.heard => e.silent >= SurelyDead
  BY <1>1, <1>2, <1>3, <1>4, <1>5 DEF ClocksRan, Least
<1>8. e.suppressed = 0 /\ mem.age >= StartGrace /\ CanChange
  BY <1>1, <1>2, <1>3, <1>4, <1>5 DEF ClocksRan, Least, CanChange
<1>9. Suspected(e, phi)
  <2>1. e.misses >= MinMisses /\ e.misses >= DampenCycles
    BY <1>2, <1>6, <1>4, <1>5 DEF Least
  <2>. QED BY <1>7, <2>1 DEF Suspected, PhiKnown
<1>10. FailoverAllowed(e, phi, mem.age)
  BY <1>8, <1>9 DEF FailoverAllowed
<1>11. mem.leader # pick
  BY DEF Healthy
<1>. QED BY <1>8, <1>10, <1>11 DEF Decision, e

\* A cycle that leaves the leader, the clocks and the promotions alone.
LEMMA CycleRuns ==
    ASSUME CInv, TypeOK', NEW p \in [Aliases -> Probes], NEW disabled,
           NEW r \in RowType, NEW b,
           Pass(r, mem, promoted, Observed(p).entry, b),
           vacant' <= Vacancy(p, disabled),
           vacant' <= Longest
    PROVE  CInv'
<1>. DEFINE e == Observed(p).entry
<1>1. TypeOK /\ flap \in Entries /\ ClocksRan(vacant, flap, mem, promoted)
      /\ vacant \in Nat /\ vacant' \in Nat /\ mem \in MemType
      /\ promoted \in 0..MinInterval
  BY DEF CInv, TypeOK, MemType
<1>2. CASE vacant' = 0
  <2>1. (TypeOK /\ vacant = 0 => CInv)'
    BY OccupiedIsFine, PTL
  <2>. QED BY <1>2, <2>1
<1>3. CASE vacant' # 0
  <2>1. /\ mem.leader # NoOne /\ ~Healthy(p) /\ vacant' <= vacant + 1
    BY <1>1, <1>3 DEF Vacancy
  <2>2. /\ e.misses = Least(flap.misses + 1, MissCap)
        /\ e.heard = flap.heard /\ e.silent = flap.silent
        /\ e.suppressed = flap.suppressed
    BY <1>1, <2>1, UnfitObserved
  <2>3. e \in Entries
    BY <1>1, ObservedTyped
  <2>. HIDE DEF e
  <2>4. e.misses >= Least(vacant', MissCap)
    <3>1. flap.misses \in Nat /\ flap.misses >= Least(vacant, MissCap)
      BY <1>1, MissCapIsEnough DEF ClocksRan, Entries
    <3>. QED BY <1>1, <2>1, <2>2, <3>1, MissCapIsEnough, LeastGrows
  <2>5. /\ e.heard => e.silent >= Least(vacant, SurelyDead)
        /\ mem.age >= Least(vacant, StartGrace)
        /\ promoted >= Least(vacant, MinInterval)
        /\ e.suppressed = 0 \/ e.suppressed + vacant <= Cooldown
    BY <1>1, <2>2 DEF ClocksRan
  <2>6. Pass(r, mem, promoted, e, b)
    BY DEF e
  <2>7. ClocksRan(vacant', flap', mem', promoted')
    BY <1>1, <2>1, <2>3, <2>4, <2>5, <2>6, PassRuns
  <2>. QED BY <2>7 DEF CInv, LeaderReplaced
<1>. QED BY <1>2, <1>3

LEMMA VacancyNat ==
    ASSUME CInv, NEW p, NEW disabled
    PROVE  /\ Vacancy(p, disabled) \in Nat
           /\ Least(vacant, Vacancy(p, disabled)) <= Vacancy(p, disabled)
           /\ Least(vacant, Vacancy(p, disabled)) <= Longest
<1>1. vacant \in Nat /\ vacant <= Longest /\ Longest \in Nat
  BY LongestIsLongest DEF CInv, TypeOK, LeaderReplaced
<1>2. Vacancy(p, disabled) \in Nat
  BY <1>1 DEF Vacancy
<1>. QED BY <1>1, <1>2 DEF Least

LEMMA CycleReplaces == CInv /\ TypeOK' /\ Cycle => CInv'
<1>. SUFFICES ASSUME CInv, TypeOK', Cycle PROVE CInv'
  OBVIOUS
<1>1. PICK p \in [Aliases -> Probes], disabled \in SUBSET Aliases,
           rank \in {Rank, [a \in Aliases |-> 0]}, phi \in BOOLEAN :
        LET o == Observed(p)
            picks == Picks(p, disabled, Resting(o.backoff), Weights(rank))
        IN  \/ /\ \/ picks = {}
                  \/ \E pick \in picks :
                       Decision(p, o.entry, phi, pick) = "none"
               /\ Keeps(p, disabled, rank, o)
            \/ \E pick \in picks : \E what :
                 /\ what = Decision(p, o.entry, phi, pick)
                 /\ what # "none" /\ pick \in Aliases /\ p[pick].fit
                 /\ \/ Written(p, disabled, rank, o, what, pick)
                    \/ WrittenUnheard(p, disabled, rank, o, pick)
                    \/ NotWritten(p, disabled, o)
  BY CycleCases
<1>. DEFINE o == Observed(p)
            picks == Picks(p, disabled, Resting(o.backoff), Weights(rank))
<1>2. /\ TypeOK /\ row \in RowType /\ vacant \in Nat /\ Longest \in Nat
      /\ vacant <= Longest
  BY LongestIsLongest DEF CInv, TypeOK, RowType, LeaderReplaced
<1>3. ASSUME Keeps(p, disabled, rank, o),
             \/ picks = {}
             \/ \E pick \in picks : Decision(p, o.entry, phi, pick) = "none"
      PROVE  CInv'
  <2>1. /\ Pass(row, mem, promoted, o.entry, Compacted(o.backoff))
        /\ vacant' = Vacancy(p, disabled)
    BY <1>3 DEF Keeps
  <2>2. vacant' <= Longest
    <3>. SUFFICES ASSUME vacant' > Longest PROVE FALSE
      BY <1>2, <2>1, VacancyNat
    <3>1. /\ mem.leader # NoOne /\ ~Healthy(p)
          /\ Candidates(p, disabled) # {} /\ vacant' = vacant + 1
      BY <1>2, <2>1 DEF Vacancy
    <3>2. vacant >= Longest
      BY <1>2, <3>1
    <3>3. picks # {}
      BY <3>1, WeightsTyped, SomebodyPicked
    <3>4. PICK pick \in picks : Decision(p, o.entry, phi, pick) = "none"
      BY <1>3, <3>3
    <3>5. pick \in Aliases /\ p[pick].fit
      BY PicksAreFit
    <3>. QED BY <3>1, <3>2, <3>4, <3>5, VacancyEnds
  <2>3. vacant' <= Vacancy(p, disabled)
    BY <2>1, VacancyNat
  <2>. QED BY <1>2, <2>1, <2>2, <2>3, CycleRuns
<1>4. CASE NotWritten(p, disabled, o)
  <2>1. /\ Pass(row, mem, promoted, o.entry, Compacted(o.backoff))
        /\ vacant' = Least(vacant, Vacancy(p, disabled))
    BY <1>4 DEF NotWritten
  <2>. QED BY <1>2, <2>1, VacancyNat, CycleRuns
<1>5. ASSUME NEW pick \in Aliases,
             WrittenUnheard(p, disabled, rank, o, pick)
      PROVE  CInv'
  <2>1. /\ Pass([leader |-> pick, left |-> 0], mem, promoted, o.entry,
                Compacted(o.backoff))
        /\ vacant' = Least(vacant, Vacancy(p, disabled))
    BY <1>5 DEF WrittenUnheard
  <2>. QED BY <2>1, NamedTyped, VacancyNat, CycleRuns
<1>6. ASSUME NEW pick, NEW what, Written(p, disabled, rank, o, what, pick)
      PROVE  CInv'
  <2>1. (TypeOK /\ vacant = 0 => CInv)'
    BY OccupiedIsFine, PTL
  <2>. QED BY <1>6, <2>1 DEF Written
<1>. QED BY <1>1, <1>3, <1>4, <1>5, <1>6

LEMMA OthersReplace ==
    ASSUME CInv, TypeOK',
           \/ CycleOverridden \/ Idle \/ ChangeOffice \/ OtherAppoints
           \/ AppointManually \/ OtherPromotion \/ Restart \/ Crash
           \/ UNCHANGED vars
    PROVE  CInv'
<1>1. CASE CycleOverridden \/ OtherPromotion \/ Restart \/ Crash
  <2>1. (TypeOK /\ vacant = 0 => CInv)'
    BY OccupiedIsFine, PTL
  <2>. QED BY <1>1, <2>1 DEF CycleOverridden, OtherPromotion, Restart, Crash
<1>2. CASE Idle
  <2>1. Pass(row, mem, promoted, flap, backoff) /\ vacant' = vacant
    BY <1>2 DEF Idle
  <2>2. /\ row \in RowType /\ mem \in MemType /\ promoted \in 0..MinInterval
        /\ flap \in Entries /\ vacant \in Nat
        /\ ClocksRan(vacant, flap, mem, promoted)
    BY DEF CInv, TypeOK, RowType, MemType
  <2>3. ClocksRan(vacant, flap', mem', promoted')
    BY <2>1, <2>2, PassRuns DEF ClocksRan
  <2>. QED BY <2>1, <2>3 DEF CInv, LeaderReplaced
<1>3. CASE UNCHANGED <<flap, mem, promoted, vacant>>
  BY <1>3 DEF CInv, ClocksRan, LeaderReplaced
<1>4. CASE \/ ChangeOffice \/ OtherAppoints \/ AppointManually
           \/ UNCHANGED vars
  BY <1>3, <1>4 DEF ChangeOffice, OtherAppoints, AppointManually, Replaced,
                    vars, decides, history
<1>. QED BY <1>1, <1>2, <1>4

\* For every setting of the timers: while a leader is unfit and another
\* instance qualifies, each of them runs or is over.
THEOREM VacancyInvariant == Spec => []CInv
<1>1. Init => CInv
  <2>. SUFFICES ASSUME Init PROVE CInv
    OBVIOUS
  <2>. QED BY InitTyped, OccupiedIsFine DEF Init
<1>2. CInv /\ TypeOK' /\ [Next]_vars => CInv'
  BY CycleReplaces, OthersReplace DEF Next
<1>. QED BY <1>1, <1>2, PolicyTypeCorrect, PTL DEF Spec

\* No coordinator keeps an unfit leader for more of its cycles than the
\* longest of its timers, if it could write and somebody else qualified: the
\* layers of dampening do not hold each other up (agent.lua:454-520).
THEOREM UnfitReplaced == Spec => []LeaderReplaced
<1>1. CInv => LeaderReplaced
  BY DEF CInv
<1>. QED BY VacancyInvariant, <1>1, PTL
=============================================================================
