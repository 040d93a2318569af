---------------------------- MODULE WatcherProofs ----------------------------
(***************************************************************************)
(* Theorems about Watcher for any number of fibers, options and bounds.    *)
(***************************************************************************)
EXTENDS Watcher, TLAPS

\* While the watcher runs, one watchdog has the deadlines in force and has not
\* been told to stop, and its next check comes before an unconfirmed leader
\* is overdue by more than a probe.
OnDuty(d) ==
    /\ dogs[d].pc = "sleep"
    /\ dogs[d].hard = HardDeadline(config) /\ dogs[d].probe = config.probe
    /\ dogs[d].wait <= ProbeCap
    /\ Overdue => dogs[d].wait + overdue <= ProbeCap
DogOnDuty ==
    /\ enabled /\ config.watchdog => ~stopDogs /\ \E d \in Slots : OnDuty(d)
    /\ ~Overdue => overdue = 0

\* While the watcher runs, one fencing loop is on its way to its next check,
\* is polling the peers, or is demoting.
Guards(f) ==
    \/ /\ fence[f].pc = "sleep"
       /\ fence[f].wait <= ProbeCap
       /\ Unfenced => fence[f].wait + unfenced <= ProbeCap
    \/ /\ fence[f].pc = "failsafe"
       /\ fence[f].wait <= RpcTicks
       /\ Unfenced => fence[f].wait + unfenced <= ProbeCap + RpcTicks
    \/ fence[f].pc = "demote"
FenceOnDuty ==
    /\ enabled => \E f \in Slots : Guards(f)
    /\ ~Unfenced => unfenced = 0

-----------------------------------------------------------------------------
(***************************************************************************)
(* Types.                                                                  *)
(***************************************************************************)

\* The types of STATE and the instance, of the fibers, and of the history.
StateOK ==
    /\ enabled \in BOOLEAN /\ config \in Options
    /\ age \in 0..AgeCap /\ etcdOk \in BOOLEAN
    /\ applied \in 0..MaxTerm /\ paused \in 0..MaxPause
    /\ ctlBusy \in BOOLEAN /\ reacting \in BOOLEAN /\ stopDogs \in BOOLEAN
    /\ readOnly \in BOOLEAN /\ owner \in {"me", "peer", "none"}
    /\ others \in BOOLEAN
    /\ starts \in 0..MaxStarts
ReactOK == react \in [Slots -> Reactions]
FenceOK == fence \in [Slots -> Fences]
DogsOK == dogs \in [Slots -> Dogs]
MeasuresOK == unfenced \in Nat /\ overdue \in Nat

LEMMA TypeParts == TypeOK <=> StateOK /\ ReactOK /\ FenceOK /\ DogsOK /\ MeasuresOK
  BY DEF TypeOK, StateOK, ReactOK, FenceOK, DogsOK, MeasuresOK

LEMMA TypeNext ==
  ASSUME StateOK', ReactOK', FenceOK', DogsOK', MeasuresOK' PROVE TypeOK'
  BY DEF TypeOK, StateOK, ReactOK, FenceOK, DogsOK, MeasuresOK

\* What a step that lets `elapsed` ticks pass does to the measures.
LEMMA Measured ==
  ASSUME MeasuresOK, NEW elapsed \in Nat, Measure(elapsed)
  PROVE  /\ MeasuresOK'
         /\ ~Unfenced' => unfenced' = 0
         /\ ~Overdue' => overdue' = 0
         /\ Unfenced' => unfenced' = 0 \/ (Unfenced /\ unfenced' = unfenced + elapsed)
         /\ Overdue' => overdue' = 0 \/ (Overdue /\ overdue' = overdue + elapsed)
  <1>1. /\ unfenced' = IF Unfenced /\ Unfenced' THEN unfenced + elapsed ELSE 0
        /\ overdue' = IF Overdue /\ Overdue' THEN overdue + elapsed ELSE 0
    BY DEF Measure
  <1> QED BY <1>1 DEF MeasuresOK

\* The deadlines and the probe of an option.
LEMMA OptionFacts ==
  ASSUME NEW o \in Options
  PROVE  /\ RenewDeadline(o) \in Nat \ {0} /\ HardDeadline(o) \in Nat
         /\ o.probe \in Nat /\ o.probe <= ProbeCap /\ o.watchdog \in BOOLEAN
         /\ o.failsafe \in BOOLEAN
  BY OptionsAssumption, WatcherBoundsAssumption DEF RenewDeadline, HardDeadline

\* The records fibers are set to.
LEMMA RecordFacts ==
  /\ NoReaction \in Reactions /\ NoFence \in Fences /\ NoDog \in Dogs
  /\ NoReaction.pc = "off" /\ NoFence.pc = "off" /\ NoDog.pc = "off"
  BY WatcherBoundsAssumption
  DEF NoReaction, NoFence, NoDog, Reactions, Fences, Dogs

LEMMA PromotingIsReaction == [pc |-> "promote", term |-> 0] \in Reactions
  BY WatcherBoundsAssumption DEF Reactions

LEMMA TypeInit == ASSUME Init PROVE TypeOK
  <1>1. ReactOK /\ FenceOK /\ DogsOK
    BY RecordFacts DEF Init, ReactOK, FenceOK, DogsOK
  <1>2. /\ enabled = FALSE /\ config \in Options
        /\ age = 0 /\ etcdOk = FALSE /\ applied = 0 /\ paused = 0
        /\ ctlBusy = FALSE /\ reacting = FALSE /\ stopDogs = FALSE
        /\ readOnly = TRUE /\ owner \in {"me", "peer", "none"} /\ others = FALSE
        /\ starts = 0 /\ unfenced = 0 /\ overdue = 0
    BY DEF Init
  <1>4. /\ age \in 0..AgeCap /\ applied \in 0..MaxTerm
        /\ paused \in 0..MaxPause /\ starts \in 0..MaxStarts
    BY <1>2, WatcherBoundsAssumption
  <1>3. StateOK /\ MeasuresOK
    BY <1>2, <1>4 DEF StateOK, MeasuresOK
  <1> QED BY <1>1, <1>3, TypeParts

LEMMA ReactionTyped ==
  ASSUME TypeOK, NEW s \in Slots, Reaction(s) PROVE TypeOK'
  <1> USE WatcherBoundsAssumption
  <1>0. StateOK /\ ReactOK /\ FenceOK /\ DogsOK /\ MeasuresOK BY TypeParts
  <1>m. ASSUME Measure(0) PROVE MeasuresOK' BY <1>0, RecordFacts, <1>m, Measured
  <1>1. CASE React(s)
    BY <1>0, RecordFacts, <1>1, <1>m, TypeParts
    DEF React, Reactions, StateOK, ReactOK, FenceOK, DogsOK, given, lease, box, TypeOK, MeasuresOK
  <1>2. CASE OnPause(s)
    BY <1>0, RecordFacts, <1>2, <1>m
    DEF OnPause, Reactions, StateOK, ReactOK, FenceOK, DogsOK, given, lease, box, TypeOK, MeasuresOK
  <1>3. CASE OnNoRow(s)
    BY <1>0, RecordFacts, <1>3, <1>m
    DEF OnNoRow, EndReaction, StateOK, ReactOK, FenceOK, DogsOK, given, box, TypeOK, MeasuresOK
  <1>4. CASE OnStaleRow(s)
    BY <1>0, RecordFacts, <1>4, <1>m
    DEF OnStaleRow, EndReaction, StateOK, ReactOK, FenceOK, DogsOK, given, box, TypeOK, MeasuresOK
  <1>5. CASE OnRowToPromote(s)
    BY <1>0, RecordFacts, <1>5, <1>m
    DEF OnRowToPromote, Reactions, Accept, StateOK, ReactOK, FenceOK, DogsOK, given, box, TypeOK, MeasuresOK
  <1>6. CASE OnRowToDemote(s)
    <2>1. PICK term \in 0..MaxTerm :
            /\ Accept(FALSE, term)
            /\ IF ctlBusy
               THEN EndReaction(s) /\ ctlBusy' = ctlBusy
               ELSE /\ react' = [react EXCEPT ![s].pc = "demote"]
                    /\ ctlBusy' = TRUE /\ reacting' = reacting
      BY <1>6 DEF OnRowToDemote
    <2>2. react' = [react EXCEPT ![s] = NoReaction]
          \/ react' = [react EXCEPT ![s].pc = "demote"]
      BY <2>1 DEF EndReaction
    <2>3. ReactOK'
      BY <1>0, <2>2, RecordFacts DEF ReactOK, Reactions
    <2>4. ctlBusy' \in BOOLEAN /\ reacting' \in BOOLEAN
      BY <1>0, <2>1 DEF EndReaction, StateOK
    <2>5. StateOK' /\ FenceOK' /\ DogsOK'
      BY <1>0, <1>6, <2>1, <2>4
      DEF OnRowToDemote, Accept, StateOK, FenceOK, DogsOK, given, box
    <2> QED BY <1>6, <1>m, <2>3, <2>5, TypeNext DEF OnRowToDemote
  <1>7. CASE OnRowToReadOnly(s)
    BY <1>0, RecordFacts, <1>7, <1>m
    DEF OnRowToReadOnly, Accept, EndReaction, StateOK, ReactOK, FenceOK, DogsOK, given, TypeOK, MeasuresOK
  <1>8. CASE OnRowInPlace(s)
    <2>1. PICK term \in 0..MaxTerm, mine \in BOOLEAN : Accept(mine, term)
      BY <1>8 DEF OnRowInPlace
    <2>2. /\ UNCHANGED <<given, paused, box, ctlBusy>> /\ reacting' = FALSE
      BY <1>8 DEF OnRowInPlace, EndReaction
    <2>5. etcdOk' = TRUE /\ applied' \in {applied, term} /\ age' \in {age, 0}
      BY <2>1 DEF Accept
    <2>6. age' \in 0..AgeCap /\ applied' \in 0..MaxTerm
      BY <1>0, <2>5 DEF StateOK
    <2>4. StateOK'
      BY <1>0, <2>2, <2>5, <2>6 DEF StateOK, given, box
    <2>3. ReactOK' /\ FenceOK' /\ DogsOK'
      BY <1>0, <1>8, RecordFacts
      DEF OnRowInPlace, EndReaction, ReactOK, FenceOK, DogsOK
    <2> QED BY <1>8, <1>m, <2>4, <2>3, TypeNext DEF OnRowInPlace
  <1>9. CASE OnDeferred(s)
    BY <1>0, RecordFacts, <1>9, <1>m
    DEF OnDeferred, EndReaction, StateOK, ReactOK, FenceOK, DogsOK, given, lease, box, TypeOK, MeasuresOK
  <1>10. CASE OnPrepared(s)
    <2>1. react' = [react EXCEPT ![s] = NoReaction]
          \/ react' = [react EXCEPT ![s] = [pc |-> "promote", term |-> 0]]
      BY <1>10 DEF OnPrepared, EndReaction
    <2>2. ReactOK'
      BY <1>0, <2>1, RecordFacts, PromotingIsReaction DEF ReactOK
    <2>3. ctlBusy' \in BOOLEAN /\ reacting' \in BOOLEAN /\ readOnly' \in BOOLEAN
      BY <1>0, <1>10 DEF OnPrepared, EndReaction, StateOK
    <2>4. StateOK' /\ FenceOK' /\ DogsOK'
      BY <1>0, <1>10, <2>3
      DEF OnPrepared, StateOK, FenceOK, DogsOK, given, lease
    <2> QED BY <1>10, <1>m, <2>2, <2>4, TypeNext DEF OnPrepared
  <1>11. CASE OnPromoted(s)
    BY <1>0, RecordFacts, <1>11, <1>m
    DEF OnPromoted, EndReaction, StateOK, ReactOK, FenceOK, DogsOK, given, lease, TypeOK, MeasuresOK
  <1>12. CASE OnDemoted(s)
    BY <1>0, RecordFacts, <1>12, <1>m
    DEF OnDemoted, EndReaction, StateOK, ReactOK, FenceOK, DogsOK, given, lease, box, TypeOK, MeasuresOK
  <1> QED BY <1>1, <1>2, <1>3, <1>4, <1>5, <1>6, <1>7, <1>8, <1>9, <1>10, <1>11, <1>12 DEF Reaction

\* The records a fencing loop and a watchdog are set to.
LEMMA SleepTyped ==
  ASSUME StateOK, FenceOK, NEW f \in Slots, FenceSleeps(f) PROVE FenceOK'
  <1>1. config.probe \in Nat BY OptionFacts DEF StateOK
  <1>2. [pc |-> "sleep", wait |-> config.probe] \in Fences BY <1>1 DEF Fences
  <1> QED BY <1>2 DEF FenceOK, FenceSleeps

LEMMA FenceTyped ==
  ASSUME StateOK, FenceOK, NEW f \in Slots, NEW release \in BOOLEAN,
         Fence(f, release)
  PROVE  /\ FenceOK'
         /\ readOnly' \in BOOLEAN /\ age' \in 0..AgeCap /\ ctlBusy' \in BOOLEAN
  <1>1. [pc |-> "demote", wait |-> 0] \in Fences BY DEF Fences
  <1>2. 0 \in 0..AgeCap BY WatcherBoundsAssumption
  <1>3. FenceOK'
    <2>1. FenceSleeps(f) \/ fence' = [fence EXCEPT ![f] = [pc |-> "demote", wait |-> 0]]
      BY DEF Fence
    <2> QED BY <2>1, <1>1, SleepTyped DEF FenceOK
  <1>4. readOnly' \in {readOnly, TRUE} /\ age' \in {age, 0} /\ ctlBusy' \in {ctlBusy, TRUE}
    BY DEF Fence
  <1> QED BY <1>2, <1>3, <1>4 DEF StateOK

LEMMA FencingTyped ==
  ASSUME TypeOK, NEW f \in Slots, Fencing(f) PROVE TypeOK'
  <1>0. StateOK /\ ReactOK /\ FenceOK /\ DogsOK /\ MeasuresOK BY TypeParts
  <1>m. ASSUME Measure(0) PROVE MeasuresOK' BY <1>0, <1>m, Measured
  <1>z. 0 \in 0..AgeCap BY WatcherBoundsAssumption
  <1>1. CASE FenceEnds(f)
    <2>1. FenceOK' BY <1>0, <1>1, RecordFacts DEF FenceEnds, FenceOK
    <2>2. StateOK' /\ ReactOK' /\ DogsOK'
      BY <1>0, <1>1 DEF FenceEnds, StateOK, ReactOK, DogsOK, given, lease, box
    <2> QED BY <1>1, <1>m, <2>1, <2>2, TypeNext DEF FenceEnds
  <1>2. CASE FenceIdles(f)
    <2>1. FenceOK' BY <1>0, <1>2, SleepTyped DEF FenceIdles
    <2>2. StateOK' /\ ReactOK' /\ DogsOK'
      BY <1>0, <1>2 DEF FenceIdles, StateOK, ReactOK, DogsOK, given, lease, box
    <2> QED BY <1>2, <1>m, <2>1, <2>2, TypeNext DEF FenceIdles
  <1>3. CASE FenceWakes(f)
    <2>1. /\ FenceOK'
          /\ readOnly' \in BOOLEAN /\ age' \in 0..AgeCap /\ ctlBusy' \in BOOLEAN
      <3>1. CASE ~etcdOk /\ config.failsafe
        <4>1. [pc |-> "failsafe", wait |-> RpcTicks] \in Fences
          BY WatcherBoundsAssumption DEF Fences
        <4>2. /\ fence' = [fence EXCEPT ![f] = [pc |-> "failsafe", wait |-> RpcTicks]]
              /\ UNCHANGED <<readOnly, age, ctlBusy>>
          BY <1>3, <3>1 DEF FenceWakes
        <4> QED BY <1>0, <4>1, <4>2 DEF FenceOK, StateOK
      <3>2. CASE ~(~etcdOk /\ config.failsafe)
        BY <1>0, <1>3, <3>2, FenceTyped DEF FenceWakes, StateOK
      <3> QED BY <3>1, <3>2
    <2>2. StateOK' /\ ReactOK' /\ DogsOK'
      BY <1>0, <1>3, <2>1 DEF FenceWakes, StateOK, ReactOK, DogsOK, given
    <2> QED BY <1>3, <1>m, <2>1, <2>2, TypeNext DEF FenceWakes
  <1>4. CASE PeersRefuse(f)
    <2>1. /\ FenceOK'
          /\ readOnly' \in BOOLEAN /\ age' \in 0..AgeCap /\ ctlBusy' \in BOOLEAN
      BY <1>0, <1>4, FenceTyped DEF PeersRefuse
    <2>2. StateOK' /\ ReactOK' /\ DogsOK'
      BY <1>0, <1>4, <2>1 DEF PeersRefuse, StateOK, ReactOK, DogsOK, given
    <2> QED BY <1>4, <1>m, <2>1, <2>2, TypeNext DEF PeersRefuse
  <1>5. CASE PeersAccept(f)
    <2>1. FenceOK' BY <1>0, <1>5, SleepTyped DEF PeersAccept
    <2>2. StateOK' /\ ReactOK' /\ DogsOK'
      BY <1>0, <1>5, <1>z DEF PeersAccept, StateOK, ReactOK, DogsOK, given, box
    <2> QED BY <1>5, <1>m, <2>1, <2>2, TypeNext DEF PeersAccept
  <1>6. CASE FenceDemoted(f)
    <2>1. FenceOK' BY <1>0, <1>6, SleepTyped DEF FenceDemoted
    <2>2. StateOK' /\ ReactOK' /\ DogsOK'
      BY <1>0, <1>6, <1>z DEF FenceDemoted, StateOK, ReactOK, DogsOK, given
    <2> QED BY <1>6, <1>m, <2>1, <2>2, TypeNext DEF FenceDemoted
  <1> QED BY <1>1, <1>2, <1>3, <1>4, <1>5, <1>6 DEF Fencing

LEMMA DieTyped == ASSUME TypeOK, Die PROVE TypeOK'
  <1>0. StateOK /\ MeasuresOK BY TypeParts
  <1>m. MeasuresOK' BY <1>0, Measured DEF Die
  <1>1. ReactOK' /\ FenceOK' /\ DogsOK'
    BY RecordFacts DEF Die, ReactOK, FenceOK, DogsOK
  <1>2. /\ enabled' = FALSE /\ config' = config /\ stopDogs' = FALSE
        /\ age' = 0 /\ etcdOk' = FALSE /\ applied' = 0 /\ paused' = 0
        /\ ctlBusy' = FALSE /\ reacting' = FALSE
        /\ readOnly' = TRUE /\ owner' = owner /\ others' = FALSE /\ starts' = 0
    BY DEF Die
  <1>3. /\ 0 \in 0..AgeCap /\ 0 \in 0..MaxTerm
        /\ 0 \in 0..MaxPause /\ 0 \in 0..MaxStarts
    BY WatcherBoundsAssumption
  <1>4. StateOK' BY <1>0, <1>2, <1>3 DEF StateOK
  <1> QED BY <1>m, <1>1, <1>4, TypeNext

LEMMA DogTyped ==
  ASSUME TypeOK, NEW d \in Slots, DogEnds(d) \/ DogWatches(d) \/ DogBites(d)
  PROVE  TypeOK'
  <1>0. StateOK /\ ReactOK /\ FenceOK /\ DogsOK /\ MeasuresOK BY TypeParts
  <1>m. ASSUME Measure(0) PROVE MeasuresOK' BY <1>0, <1>m, Measured
  <1>1. CASE DogEnds(d)
    <2>1. DogsOK' BY <1>0, <1>1, RecordFacts DEF DogEnds, DogsOK
    <2>2. StateOK' /\ ReactOK' /\ FenceOK'
      BY <1>0, <1>1 DEF DogEnds, StateOK, ReactOK, FenceOK, given, lease, box
    <2> QED BY <1>1, <1>m, <2>1, <2>2, TypeNext DEF DogEnds
  <1>2. CASE DogWatches(d)
    <2>1. DogsOK' BY <1>0, <1>2 DEF DogWatches, DogsOK, Dogs
    <2>2. StateOK' /\ ReactOK' /\ FenceOK'
      BY <1>0, <1>2 DEF DogWatches, StateOK, ReactOK, FenceOK, given, lease, box
    <2> QED BY <1>2, <1>m, <2>1, <2>2, TypeNext DEF DogWatches
  <1> QED BY <1>1, <1>2, DieTyped DEF DogBites

LEMMA LaunchTyped ==
  ASSUME DogsOK, NEW o \in Options, LaunchDog(o)
  PROVE  DogsOK' /\ stopDogs' = FALSE
  <1>1. [pc |-> "sleep", wait |-> 0, hard |-> HardDeadline(o), probe |-> o.probe] \in Dogs
    BY OptionFacts DEF Dogs
  <1> QED BY <1>1 DEF LaunchDog, DogsOK

LEMMA StartTyped == ASSUME TypeOK, Start PROVE TypeOK'
  <1>0. StateOK /\ ReactOK /\ FenceOK /\ DogsOK /\ MeasuresOK BY TypeParts
  <1>m. MeasuresOK' BY <1>0, Measured DEF Start
  <1>1. DogsOK' /\ stopDogs' \in BOOLEAN
    BY <1>0, LaunchTyped DEF Start, ReconcileFresh, DogsOK, StateOK
  <1>2. FenceOK'
    <2>1. [pc |-> "sleep", wait |-> 0] \in Fences BY DEF Fences
    <2> QED BY <1>0, <2>1 DEF Start, FenceOK
  <1>3. ReactOK' BY <1>0 DEF Start, ReactOK
  <1>4. /\ enabled' = TRUE /\ starts' = starts + 1 /\ starts < MaxStarts
        /\ age' = 0 /\ etcdOk' = FALSE /\ applied' = 0 /\ paused' = 0
        /\ reacting' = FALSE /\ config' \in Options
        /\ UNCHANGED <<readOnly, owner, others, ctlBusy>>
    BY DEF Start, box
  <1>5. /\ age' \in 0..AgeCap /\ applied' \in 0..MaxTerm
        /\ paused' \in 0..MaxPause /\ starts' \in 0..MaxStarts
    BY <1>0, <1>4, WatcherBoundsAssumption DEF StateOK
  <1>6. StateOK' BY <1>0, <1>1, <1>4, <1>5 DEF StateOK
  <1> QED BY <1>m, <1>1, <1>2, <1>3, <1>6, TypeNext

LEMMA ControlTyped ==
  ASSUME TypeOK, Reconfigure \/ Stop \/ QueueMoves \/ OtherCalls \/ OtherReturns
                 \/ ReactWithoutClient
  PROVE  TypeOK'
  <1>0. StateOK /\ ReactOK /\ FenceOK /\ DogsOK /\ MeasuresOK BY TypeParts
  <1>m. ASSUME Measure(0) PROVE MeasuresOK' BY <1>0, <1>m, Measured
  <1>1. CASE Reconfigure
    <2>1. config' \in Options /\ Reconcile(config, config') /\ Measure(0)
          /\ UNCHANGED <<enabled, starts, others, lease, box, ctlBusy, reacting, react, fence>>
      BY <1>1 DEF Reconfigure
    <2>2. DogsOK' /\ stopDogs' \in BOOLEAN
      <3>1. UNCHANGED <<stopDogs, dogs>> \/ LaunchDog(config') \/ (stopDogs' = TRUE /\ dogs' = dogs)
        BY <2>1 DEF Reconcile
      <3> QED BY <1>0, <2>1, <3>1, LaunchTyped DEF DogsOK, StateOK
    <2>3. StateOK' /\ ReactOK' /\ FenceOK'
      BY <1>0, <2>1, <2>2 DEF StateOK, ReactOK, FenceOK, lease, box
    <2> QED BY <1>m, <2>1, <2>2, <2>3, TypeNext
  <1>2. CASE Stop
    <2>1. stopDogs' \in BOOLEAN BY <1>2 DEF Stop
    <2>2. StateOK' /\ ReactOK' /\ FenceOK' /\ DogsOK'
      BY <1>0, <1>2, <2>1 DEF Stop, StateOK, ReactOK, FenceOK, DogsOK, lease, box
    <2> QED BY <1>2, <1>m, <2>2, TypeNext DEF Stop
  <1>3. CASE QueueMoves
    <2>2. StateOK' /\ ReactOK' /\ FenceOK' /\ DogsOK'
      BY <1>0, <1>3 DEF QueueMoves, StateOK, ReactOK, FenceOK, DogsOK, given, lease
    <2> QED BY <1>3, <1>m, <2>2, TypeNext DEF QueueMoves
  <1>4. CASE ReactWithoutClient
    <2>2. StateOK' /\ ReactOK' /\ FenceOK' /\ DogsOK'
      BY <1>0, <1>4 DEF ReactWithoutClient, StateOK, ReactOK, FenceOK, DogsOK, given, box
    <2> QED BY <1>4, <1>m, <2>2, TypeNext DEF ReactWithoutClient
  <1>5. CASE OtherCalls \/ OtherReturns
    <2>1. readOnly' \in BOOLEAN /\ owner' \in {"me", "peer", "none"} /\ others' \in BOOLEAN
      BY <1>0, <1>5 DEF OtherCalls, OtherReturns, StateOK
    <2>2. StateOK' /\ ReactOK' /\ FenceOK' /\ DogsOK'
      BY <1>0, <1>5, <2>1
      DEF OtherCalls, OtherReturns, StateOK, ReactOK, FenceOK, DogsOK, lease
    <2> QED BY <1>5, <1>m, <2>2, TypeNext DEF OtherCalls, OtherReturns
  <1> QED BY <1>1, <1>2, <1>3, <1>4, <1>5

LEMMA TickTyped == ASSUME TypeOK, Tick PROVE TypeOK'
  <1>0. StateOK /\ ReactOK /\ FenceOK /\ DogsOK /\ MeasuresOK BY TypeParts
  <1>m. MeasuresOK' BY <1>0, Measured DEF Tick
  <1>1. \A w \in Nat : Elapse(w) \in Nat BY DEF Elapse
  <1>2. FenceOK'
    <2>1. \A r \in Fences : [r EXCEPT !.wait = Elapse(r.wait)] \in Fences
      BY <1>1 DEF Fences
    <2> QED BY <1>0, <2>1 DEF Tick, FenceOK
  <1>3. DogsOK'
    <2>1. \A r \in Dogs : [r EXCEPT !.wait = Elapse(r.wait)] \in Dogs
      BY <1>1 DEF Dogs
    <2> QED BY <1>0, <2>1 DEF Tick, DogsOK
  <1>4. age' \in 0..AgeCap /\ paused' \in 0..MaxPause
    BY <1>0, WatcherBoundsAssumption DEF Tick, StateOK, Elapse
  <1>5. StateOK' /\ ReactOK'
    BY <1>0, <1>4 DEF Tick, StateOK, ReactOK, given, box
  <1> QED BY <1>m, <1>2, <1>3, <1>5, TypeNext

\* TypeOK holds in every reachable state.
LEMMA TypeStep == ASSUME TypeOK, [Next]_vars PROVE TypeOK'
  <1>1. CASE UNCHANGED vars
    BY <1>1 DEF vars, given, lease, box, TypeOK
  <1>2. CASE Next
    BY <1>2, ReactionTyped, FencingTyped, DogTyped, DieTyped, StartTyped,
       ControlTyped, TickTyped DEF Next, Crash
  <1> QED BY <1>1, <1>2

THEOREM WatcherTypeCorrect == Spec => []TypeOK
  BY TypeInit, TypeStep, PTL DEF Spec

-----------------------------------------------------------------------------
(***************************************************************************)
(* The guard around box.ctl.                                               *)
(***************************************************************************)

CtlCalls == {"promote", "demote"}

\* What setting one fiber's record does to the fibers inside box.ctl.
LEMMA ReactSet ==
  ASSUME ReactOK, NEW s \in Slots, NEW r, react' = [react EXCEPT ![s] = r]
  PROVE  InCtl' = IF r.pc \in CtlCalls THEN InCtl \cup {s} ELSE InCtl \ {s}
  BY DEF ReactOK, InCtl, CtlCalls

LEMMA FenceSet ==
  ASSUME FenceOK, NEW f \in Slots, NEW r, fence' = [fence EXCEPT ![f] = r]
  PROVE  FenceInCtl' = IF r.pc = "demote" THEN FenceInCtl \cup {f} ELSE FenceInCtl \ {f}
  BY DEF FenceOK, FenceInCtl

\* The three things a step does to the guard: nothing, taking it, giving it
\* back.
CtlStill == ctlBusy' = ctlBusy /\ InCtl' = InCtl /\ FenceInCtl' = FenceInCtl
CtlTaken ==
    /\ ~ctlBusy /\ ctlBusy' = TRUE
    /\ \E s \in Slots :
         \/ InCtl' = InCtl \cup {s} /\ FenceInCtl' = FenceInCtl
         \/ FenceInCtl' = FenceInCtl \cup {s} /\ InCtl' = InCtl
CtlGiven ==
    /\ ctlBusy' = FALSE
    /\ \E s \in Slots :
         \/ s \in InCtl /\ InCtl' = InCtl \ {s} /\ FenceInCtl' = FenceInCtl
         \/ s \in FenceInCtl /\ FenceInCtl' = FenceInCtl \ {s} /\ InCtl' = InCtl
CtlMove == CtlStill \/ CtlTaken \/ CtlGiven

LEMMA CtlMoveKeeps ==
  ASSUME CtlExclusive, CtlMove, ctlBusy \in BOOLEAN PROVE CtlExclusive'
  <1>1. CASE CtlStill BY <1>1 DEF CtlStill, CtlExclusive
  <1>2. CASE CtlTaken BY <1>2 DEF CtlTaken, CtlExclusive
  <1>3. CASE CtlGiven BY <1>3 DEF CtlGiven, CtlExclusive
  <1> QED BY <1>1, <1>2, <1>3 DEF CtlMove

LEMMA ReactionCtl ==
  ASSUME TypeOK, NEW s \in Slots, Reaction(s) PROVE CtlMove
  <1>0. ReactOK /\ StateOK BY TypeParts
  <1>a. \A r \in Reactions : r.pc \in CtlCalls <=> r.pc \in {"promote", "demote"}
    BY DEF CtlCalls
  <1>b. "off" \notin CtlCalls /\ "pause" \notin CtlCalls /\ "row" \notin CtlCalls
        /\ "prepare" \notin CtlCalls /\ "promote" \in CtlCalls /\ "demote" \in CtlCalls
    BY DEF CtlCalls
  <1>c. s \in InCtl <=> react[s].pc \in CtlCalls
    BY DEF InCtl, CtlCalls
  <1>f. ASSUME fence' = fence PROVE FenceInCtl' = FenceInCtl
    BY <1>f DEF FenceInCtl
  <1>e. ASSUME EndReaction(s) PROVE InCtl' = InCtl \ {s}
    BY <1>0, <1>b, <1>e, ReactSet, RecordFacts DEF EndReaction
  <1>p. ASSUME NEW r, react' = [react EXCEPT ![s] = r], r.pc \notin CtlCalls,
               react[s].pc \notin CtlCalls, ctlBusy' = ctlBusy, fence' = fence
        PROVE  CtlMove
    BY <1>0, <1>c, <1>f, <1>p, ReactSet DEF CtlMove, CtlStill
  <1>q. ASSUME NEW r, react' = [react EXCEPT ![s] = r], r.pc \in CtlCalls,
               ~ctlBusy, ctlBusy' = TRUE, fence' = fence
        PROVE  CtlMove
    BY <1>0, <1>f, <1>q, ReactSet DEF CtlMove, CtlTaken
  <1>n. ASSUME EndReaction(s), react[s].pc \notin CtlCalls, ctlBusy' = ctlBusy, fence' = fence
        PROVE  CtlMove
    BY <1>c, <1>e, <1>f, <1>n DEF CtlMove, CtlStill
  <1>g. ASSUME EndReaction(s), react[s].pc \in CtlCalls, ctlBusy' = FALSE, fence' = fence
        PROVE  CtlMove
    BY <1>c, <1>e, <1>f, <1>g DEF CtlMove, CtlGiven
  <1>1. CASE React(s)
    <2>1. react' = [react EXCEPT ![s] = [react[s] EXCEPT !.pc = "pause"]]
      BY <1>1 DEF React
    <2>2. [react[s] EXCEPT !.pc = "pause"].pc = "pause"
      BY <1>0 DEF ReactOK, Reactions
    <2> QED BY <1>1, <1>b, <1>p, <2>1, <2>2 DEF React
  <1>2. CASE OnPause(s)
    <2>1. react' = [react EXCEPT ![s] = [react[s] EXCEPT !.pc = "row"]]
      BY <1>2 DEF OnPause
    <2>2. [react[s] EXCEPT !.pc = "row"].pc = "row"
      BY <1>0 DEF ReactOK, Reactions
    <2> QED BY <1>2, <1>b, <1>p, <2>1, <2>2 DEF OnPause
  <1>3. CASE OnNoRow(s) \/ OnStaleRow(s) \/ OnRowToReadOnly(s) \/ OnRowInPlace(s)
             \/ OnDeferred(s)
    BY <1>3, <1>b, <1>n
    DEF OnNoRow, OnStaleRow, OnRowToReadOnly, OnRowInPlace, OnDeferred
  <1>4. CASE OnRowToPromote(s)
    <2>1. PICK term \in 0..MaxTerm :
            react' = [react EXCEPT ![s] = [pc |-> "prepare", term |-> term]]
      BY <1>4 DEF OnRowToPromote
    <2>2. [pc |-> "prepare", term |-> term].pc = "prepare" OBVIOUS
    <2>3. ctlBusy' = ctlBusy /\ fence' = fence /\ react[s].pc = "row"
      BY <1>4 DEF OnRowToPromote
    <2> QED BY <1>b, <1>p, <2>1, <2>2, <2>3
  <1>5. CASE OnRowToDemote(s)
    <2>1. CASE ctlBusy
      BY <1>5, <1>b, <1>n, <2>1 DEF OnRowToDemote
    <2>2. CASE ~ctlBusy
      <3>1. react' = [react EXCEPT ![s] = [react[s] EXCEPT !.pc = "demote"]]
            /\ ctlBusy' = TRUE /\ fence' = fence
        BY <1>5, <2>2 DEF OnRowToDemote
      <3>2. [react[s] EXCEPT !.pc = "demote"].pc = "demote"
        BY <1>0 DEF ReactOK, Reactions
      <3> QED BY <1>b, <1>q, <2>2, <3>1, <3>2
    <2> QED BY <2>1, <2>2
  <1>6. CASE OnPrepared(s)
    <2>1. CASE ctlBusy
      BY <1>6, <1>b, <1>n, <2>1 DEF OnPrepared
    <2>2. CASE ~ctlBusy
      <3>1. react' = [react EXCEPT ![s] = [pc |-> "promote", term |-> 0]]
            /\ ctlBusy' = TRUE /\ fence' = fence
        BY <1>6, <2>2 DEF OnPrepared
      <3>2. [pc |-> "promote", term |-> 0].pc = "promote" OBVIOUS
      <3> QED BY <1>b, <1>q, <2>2, <3>1, <3>2
    <2> QED BY <2>1, <2>2
  <1>7. CASE OnPromoted(s)
    BY <1>7, <1>b, <1>g DEF OnPromoted
  <1>8. CASE OnDemoted(s)
    BY <1>8, <1>b, <1>g DEF OnDemoted
  <1> QED BY <1>1, <1>2, <1>3, <1>4, <1>5, <1>6, <1>7, <1>8 DEF Reaction

LEMMA FencingCtl ==
  ASSUME TypeOK, NEW f \in Slots, Fencing(f) PROVE CtlMove
  <1>0. FenceOK /\ StateOK BY TypeParts
  <1>c. f \in FenceInCtl <=> fence[f].pc = "demote"
    BY DEF FenceInCtl
  <1>r. ASSUME react' = react PROVE InCtl' = InCtl
    BY <1>r DEF InCtl
  <1>s. ASSUME FenceSleeps(f) PROVE FenceInCtl' = FenceInCtl \ {f}
    <2>1. [pc |-> "sleep", wait |-> config.probe].pc = "sleep" OBVIOUS
    <2> QED BY <1>0, <1>s, <2>1, FenceSet DEF FenceSleeps
  <1>n. ASSUME FenceSleeps(f), fence[f].pc # "demote", ctlBusy' = ctlBusy, react' = react
        PROVE  CtlMove
    BY <1>c, <1>n, <1>r, <1>s DEF CtlMove, CtlStill
  <1>h. ASSUME NEW release \in BOOLEAN, Fence(f, release), fence[f].pc # "demote",
               react' = react
        PROVE  CtlMove
    <2>1. CASE FenceSleeps(f) /\ ctlBusy' = ctlBusy BY <1>h, <1>n, <2>1
    <2>2. CASE ~ctlBusy /\ ctlBusy' = TRUE
               /\ fence' = [fence EXCEPT ![f] = [pc |-> "demote", wait |-> 0]]
      <3>1. [pc |-> "demote", wait |-> 0].pc = "demote" OBVIOUS
      <3>2. FenceInCtl' = FenceInCtl \cup {f} BY <1>0, <2>2, <3>1, FenceSet
      <3> QED BY <1>h, <1>r, <2>2, <3>2 DEF CtlMove, CtlTaken
    <2> QED BY <1>h, <2>1, <2>2 DEF Fence
  <1>1. CASE FenceEnds(f)
    <2>1. FenceInCtl' = FenceInCtl \ {f}
      BY <1>0, <1>1, FenceSet, RecordFacts DEF FenceEnds
    <2> QED BY <1>1, <1>c, <1>r, <2>1 DEF FenceEnds, CtlMove, CtlStill
  <1>2. CASE FenceIdles(f)
    BY <1>2, <1>n DEF FenceIdles
  <1>3. CASE FenceWakes(f)
    <2>1. CASE ~etcdOk /\ config.failsafe
      <3>1. fence' = [fence EXCEPT ![f] = [pc |-> "failsafe", wait |-> RpcTicks]]
            /\ UNCHANGED <<ctlBusy, react>> /\ fence[f].pc = "sleep"
        BY <1>3, <2>1 DEF FenceWakes
      <3>2. [pc |-> "failsafe", wait |-> RpcTicks].pc = "failsafe" OBVIOUS
      <3>3. FenceInCtl' = FenceInCtl \ {f} BY <1>0, <3>1, <3>2, FenceSet
      <3> QED BY <1>c, <1>r, <3>1, <3>3 DEF CtlMove, CtlStill
    <2>2. CASE ~(~etcdOk /\ config.failsafe)
      BY <1>0, <1>3, <1>h, <2>2 DEF FenceWakes, StateOK
    <2> QED BY <2>1, <2>2
  <1>4. CASE PeersRefuse(f)
    BY <1>4, <1>h DEF PeersRefuse
  <1>5. CASE PeersAccept(f)
    BY <1>5, <1>n DEF PeersAccept
  <1>6. CASE FenceDemoted(f)
    BY <1>6, <1>c, <1>r, <1>s DEF FenceDemoted, CtlMove, CtlGiven
  <1> QED BY <1>1, <1>2, <1>3, <1>4, <1>5, <1>6 DEF Fencing

\* Nothing runs in a process that has just booted.
LEMMA NothingRuns ==
  /\ (\A s \in Slots : react[s].pc = "off") => InCtl = {}
  /\ (\A f \in Slots : fence[f].pc = "off") => FenceInCtl = {}
  BY DEF InCtl, FenceInCtl

LEMMA CtlInit == ASSUME Init PROVE CtlExclusive
  <1>1. InCtl = {} /\ FenceInCtl = {}
    BY NothingRuns, RecordFacts DEF Init
  <1> QED BY <1>1 DEF Init, CtlExclusive

LEMMA CtlDie == ASSUME Die PROVE CtlExclusive'
  <1>1. InCtl' = {} BY RecordFacts DEF Die, InCtl
  <1>2. FenceInCtl' = {} BY RecordFacts DEF Die, FenceInCtl
  <1> QED BY <1>1, <1>2 DEF Die, CtlExclusive

LEMMA CtlStart == ASSUME TypeOK, Start PROVE CtlMove
  <1>0. FenceOK BY TypeParts
  <1>1. PICK f \in Slots :
          /\ fence[f].pc = "off"
          /\ fence' = [fence EXCEPT ![f] = [pc |-> "sleep", wait |-> 0]]
    BY DEF Start
  <1>2. [pc |-> "sleep", wait |-> 0].pc = "sleep" OBVIOUS
  <1>3. FenceInCtl' = FenceInCtl \ {f} BY <1>0, <1>1, <1>2, FenceSet
  <1>4. f \notin FenceInCtl BY <1>1 DEF FenceInCtl
  <1>5. InCtl' = InCtl BY DEF Start, InCtl
  <1> QED BY <1>3, <1>4, <1>5 DEF Start, CtlMove, CtlStill

LEMMA CtlTick == ASSUME TypeOK, Tick PROVE CtlMove
  <1>0. FenceOK BY TypeParts
  <1>1. \A f \in Slots : fence'[f].pc = fence[f].pc
    BY <1>0 DEF Tick, FenceOK, Fences
  <1>2. FenceInCtl' = FenceInCtl BY <1>1 DEF FenceInCtl
  <1>3. InCtl' = InCtl BY DEF Tick, InCtl
  <1> QED BY <1>2, <1>3 DEF Tick, CtlMove, CtlStill

LEMMA CtlStep ==
  ASSUME TypeOK, CtlExclusive, [Next]_vars PROVE CtlExclusive'
  <1>0. ctlBusy \in BOOLEAN BY DEF TypeOK
  <1>1. ASSUME UNCHANGED <<ctlBusy, react, fence>> PROVE CtlMove
    BY <1>1 DEF InCtl, FenceInCtl, CtlMove, CtlStill
  <1>2. CASE UNCHANGED vars
    BY <1>0, <1>1, <1>2, CtlMoveKeeps DEF vars
  <1>3. ASSUME NEW s \in Slots, Reaction(s) PROVE CtlExclusive'
    BY <1>0, <1>3, ReactionCtl, CtlMoveKeeps
  <1>4. ASSUME NEW f \in Slots, Fencing(f) PROVE CtlExclusive'
    BY <1>0, <1>4, FencingCtl, CtlMoveKeeps
  <1>5. ASSUME NEW d \in Slots, DogEnds(d) \/ DogWatches(d) PROVE CtlExclusive'
    BY <1>0, <1>1, <1>5, CtlMoveKeeps DEF DogEnds, DogWatches
  <1>6. CASE ReactWithoutClient \/ Reconfigure \/ Stop \/ QueueMoves \/ OtherCalls
             \/ OtherReturns
    BY <1>0, <1>1, <1>6, CtlMoveKeeps
    DEF ReactWithoutClient, Reconfigure, Stop, QueueMoves, OtherCalls, OtherReturns
  <1>7. CASE Start BY <1>0, <1>7, CtlStart, CtlMoveKeeps
  <1>8. CASE Tick BY <1>0, <1>8, CtlTick, CtlMoveKeeps
  <1>9. CASE Crash \/ \E d \in Slots : DogBites(d)
    BY <1>9, CtlDie DEF Crash, DogBites
  <1> QED BY <1>2, <1>3, <1>4, <1>5, <1>6, <1>7, <1>8, <1>9 DEF Next

\* Of the watcher's own fibers one at most is in box.ctl, and the guard says
\* exactly so: no stop, start, hung call, crash or call of another fiber
\* leaves it open with one of them inside, or shut with none.
THEOREM CtlGuarded == Spec => []CtlExclusive
  BY TypeInit, CtlInit, TypeStep, CtlStep, PTL DEF Spec

-----------------------------------------------------------------------------
(***************************************************************************)
(* The dead-man watchdog.                                                  *)
(***************************************************************************)

\* A step that leaves the watchdogs, their flag and the config alone and lets
\* no time pass keeps a watchdog on duty.
LEMMA DutyKept ==
  ASSUME TypeOK, DogOnDuty, UNCHANGED <<enabled, config, stopDogs, dogs>>, Measure(0)
  PROVE  DogOnDuty'
  <1>0. DogsOK /\ MeasuresOK BY TypeParts
  <1>1. /\ MeasuresOK' /\ (~Overdue' => overdue' = 0)
        /\ Overdue' => overdue' = 0 \/ (Overdue /\ overdue' = overdue + 0)
    BY <1>0, Measured
  <1>2. ASSUME NEW d \in Slots, OnDuty(d) PROVE OnDuty(d)'
    <2>1. dogs[d].wait \in Nat BY <1>0 DEF DogsOK, Dogs
    <2>2. Overdue' => dogs[d].wait + overdue' <= ProbeCap
      BY <1>0, <1>1, <1>2, <2>1, WatcherBoundsAssumption DEF OnDuty, MeasuresOK
    <2> QED BY <1>2, <2>2 DEF OnDuty
  <1> QED BY <1>1, <1>2 DEF DogOnDuty

\* A watchdog just launched is on duty if no leader was overdue for more than
\* a probe before.
LEMMA DutyLaunched ==
  ASSUME DogsOK, LaunchDog(config'), overdue' \in Nat, overdue' <= ProbeCap
  PROVE  stopDogs' = FALSE /\ \E d \in Slots : OnDuty(d)'
  <1>1. PICK d \in Slots :
          dogs' = [dogs EXCEPT ![d] =
            [pc |-> "sleep", wait |-> 0, hard |-> HardDeadline(config'),
             probe |-> config'.probe]]
    BY DEF LaunchDog
  <1>2. /\ dogs'[d].pc = "sleep" /\ dogs'[d].wait = 0
        /\ dogs'[d].hard = HardDeadline(config') /\ dogs'[d].probe = config'.probe
    BY <1>1 DEF DogsOK
  <1>3. OnDuty(d)'
    BY <1>2, WatcherBoundsAssumption DEF OnDuty, HardDeadline
  <1> QED BY <1>3 DEF LaunchDog

LEMMA DutyWatches ==
  ASSUME TypeOK, DogOnDuty, NEW e \in Slots, DogWatches(e) PROVE DogOnDuty'
  <1>0. DogsOK /\ MeasuresOK /\ StateOK BY TypeParts
  <1>1. /\ MeasuresOK' /\ (~Overdue' => overdue' = 0)
        /\ Overdue' => overdue' = 0 \/ (Overdue /\ overdue' = overdue + 0)
    BY <1>0, Measured DEF DogWatches
  <1>2. ASSUME NEW d \in Slots, OnDuty(d), enabled, config.watchdog PROVE OnDuty(d)'
    <2>1. dogs[d].wait \in Nat /\ dogs[d].probe \in Nat BY <1>0 DEF DogsOK, Dogs
    <2>2. CASE d = e
      <3>1. ~Overdue'
        BY <1>2, <2>2 DEF DogWatches, ShouldTrigger, OnDuty, Overdue, Outlives,
                          EffectivelyLeader, HardDeadline, given, lease, box
      <3>2. /\ dogs'[d].pc = dogs[d].pc /\ dogs'[d].hard = dogs[d].hard
            /\ dogs'[d].probe = dogs[d].probe /\ dogs'[d].wait = dogs[d].probe
        BY <1>0, <2>2 DEF DogWatches, DogsOK, Dogs
      <3>3. config' = config /\ config.probe <= ProbeCap
        BY <1>0, OptionFacts DEF DogWatches, given, StateOK
      <3> QED BY <1>2, <3>1, <3>2, <3>3 DEF OnDuty
    <2>3. CASE d # e
      <3>1. dogs'[d] = dogs[d] /\ config' = config
        BY <1>0, <2>3 DEF DogWatches, DogsOK, given
      <3>2. Overdue' => dogs[d].wait + overdue' <= ProbeCap
        BY <1>0, <1>1, <1>2, <2>1, WatcherBoundsAssumption DEF OnDuty, MeasuresOK
      <3> QED BY <1>2, <3>1, <3>2 DEF OnDuty
    <2> QED BY <2>2, <2>3
  <1>3. UNCHANGED <<enabled, config, stopDogs>>
    BY DEF DogWatches, given
  <1> QED BY <1>1, <1>2, <1>3 DEF DogOnDuty

LEMMA DutyStart == ASSUME TypeOK, DogOnDuty, Start PROVE DogOnDuty'
  <1>0. DogsOK /\ MeasuresOK BY TypeParts
  <1>1. /\ MeasuresOK' /\ (~Overdue' => overdue' = 0)
        /\ Overdue' => overdue' = 0 \/ (Overdue /\ overdue' = overdue + 0)
    BY <1>0, Measured DEF Start
  <1>2. ~Overdue BY DEF Start, Overdue, Outlives
  <1>3. overdue' = 0 BY <1>1, <1>2
  <1>4. config'.watchdog => stopDogs' = FALSE /\ \E d \in Slots : OnDuty(d)'
    <2>1. HAVE config'.watchdog
    <2>2. LaunchDog(config') BY <2>1 DEF Start, ReconcileFresh
    <2> QED BY <1>0, <1>3, <2>2, DutyLaunched, WatcherBoundsAssumption
  <1> QED BY <1>1, <1>4 DEF DogOnDuty

LEMMA DutyReconfigure ==
  ASSUME TypeOK, DogOnDuty, Reconfigure PROVE DogOnDuty'
  <1>0. DogsOK /\ MeasuresOK /\ StateOK BY TypeParts
  <1>1. /\ MeasuresOK' /\ (~Overdue' => overdue' = 0)
        /\ Overdue' => overdue' = 0 \/ (Overdue /\ overdue' = overdue + 0)
    BY <1>0, Measured DEF Reconfigure
  <1>2. enabled /\ enabled' = enabled /\ config' \in Options /\ Reconcile(config, config')
    BY DEF Reconfigure
  <1>3. ASSUME NEW d \in Slots, OnDuty(d), Overdue PROVE overdue <= ProbeCap
    BY <1>0, <1>3, WatcherBoundsAssumption DEF OnDuty, DogsOK, Dogs, MeasuresOK
  <1>4. overdue' \in Nat /\ overdue' <= ProbeCap
    <2>1. CASE overdue' = 0 BY <2>1, WatcherBoundsAssumption
    <2>2. CASE Overdue /\ overdue' = overdue + 0
      <3>1. PICK d \in Slots : OnDuty(d) BY <2>2 DEF DogOnDuty, Overdue, Outlives
      <3> QED BY <1>0, <1>3, <2>2, <3>1 DEF MeasuresOK
    <2> QED BY <1>1, <2>1, <2>2
  <1>5. config'.watchdog => ~stopDogs' /\ \E d \in Slots : OnDuty(d)'
    <2>1. HAVE config'.watchdog
    <2>2. CASE LaunchDog(config') BY <1>0, <1>4, <2>2, DutyLaunched
    <2>3. CASE /\ UNCHANGED <<stopDogs, dogs>> /\ config.watchdog
               /\ HardDeadline(config) = HardDeadline(config')
               /\ config.probe = config'.probe
      <3>1. PICK d \in Slots : OnDuty(d) BY <1>2, <2>3 DEF DogOnDuty
      <3>2. dogs[d].wait \in Nat BY <1>0 DEF DogsOK, Dogs
      <3>3. Overdue' => dogs[d].wait + overdue' <= ProbeCap
        BY <1>0, <1>1, <3>1, <3>2, WatcherBoundsAssumption DEF OnDuty, MeasuresOK
      <3>4. OnDuty(d)' BY <2>3, <3>1, <3>3 DEF OnDuty, HardDeadline
      <3> QED BY <1>2, <2>3, <3>4 DEF DogOnDuty
    <2>4. config.watchdog \in BOOLEAN /\ config'.watchdog \in BOOLEAN
      BY <1>0, <1>2, OptionFacts DEF StateOK
    <2> QED BY <1>2, <2>1, <2>2, <2>3, <2>4 DEF Reconcile
  <1> QED BY <1>1, <1>5 DEF DogOnDuty

LEMMA DutyTick == ASSUME TypeOK, DogOnDuty, Tick PROVE DogOnDuty'
  <1>0. DogsOK /\ MeasuresOK BY TypeParts
  <1>1. /\ MeasuresOK' /\ (~Overdue' => overdue' = 0)
        /\ Overdue' => overdue' = 0 \/ (Overdue /\ overdue' = overdue + 1)
    BY <1>0, Measured DEF Tick
  <1>2. ASSUME NEW d \in Slots, OnDuty(d) PROVE OnDuty(d)'
    <2>1. dogs[d].wait \in Nat /\ dogs[d].wait > 0
      BY <1>0, <1>2 DEF Tick, Timed, OnDuty, DogsOK, Dogs
    <2>2. /\ dogs'[d].pc = dogs[d].pc /\ dogs'[d].hard = dogs[d].hard
          /\ dogs'[d].probe = dogs[d].probe /\ dogs'[d].wait = dogs[d].wait - 1
      BY <1>0, <2>1 DEF Tick, Elapse, DogsOK, Dogs
    <2>3. config' = config BY DEF Tick, given
    <2>4. dogs'[d].wait <= ProbeCap /\ (Overdue' => dogs'[d].wait + overdue' <= ProbeCap)
      BY <1>0, <1>1, <1>2, <2>1, <2>2, WatcherBoundsAssumption DEF OnDuty, MeasuresOK
    <2> QED BY <1>2, <2>2, <2>3, <2>4 DEF OnDuty
  <1>3. UNCHANGED <<enabled, config, stopDogs>>
    BY DEF Tick, given
  <1> QED BY <1>1, <1>2, <1>3 DEF DogOnDuty

\* A step after which the watcher does not run needs no watchdog.
LEMMA OffDuty ==
  ASSUME TypeOK, Measure(0), enabled' = FALSE PROVE DogOnDuty'
  <1>0. MeasuresOK BY TypeParts
  <1>1. ~Overdue' => overdue' = 0 BY <1>0, Measured
  <1> QED BY <1>1 DEF DogOnDuty

LEMMA DutyInit == ASSUME Init PROVE DogOnDuty
  BY DEF Init, DogOnDuty

LEMMA DutyStep ==
  ASSUME TypeOK, DogOnDuty, [Next]_vars PROVE DogOnDuty'
  <1>1. CASE UNCHANGED vars
    BY <1>1 DEF vars, given, lease, box, DogOnDuty, OnDuty, Overdue, Outlives,
                EffectivelyLeader, HardDeadline
  <1>2. ASSUME NEW s \in Slots, Reaction(s) PROVE DogOnDuty'
    <2>1. UNCHANGED <<enabled, config, stopDogs, dogs>> /\ Measure(0)
      BY <1>2
      DEF Reaction, React, OnPause, OnNoRow, OnStaleRow, OnRowToPromote, OnRowToDemote,
          OnRowToReadOnly, OnRowInPlace, OnDeferred, OnPrepared, OnPromoted, OnDemoted,
          given
    <2> QED BY <2>1, DutyKept
  <1>3. ASSUME NEW f \in Slots, Fencing(f) PROVE DogOnDuty'
    <2>1. UNCHANGED <<enabled, config, stopDogs, dogs>> /\ Measure(0)
      BY <1>3 DEF Fencing, FenceEnds, FenceIdles, FenceWakes, PeersRefuse, PeersAccept,
                  FenceDemoted, given
    <2> QED BY <2>1, DutyKept
  <1>4. CASE ReactWithoutClient \/ QueueMoves \/ OtherCalls \/ OtherReturns
    BY <1>4, DutyKept DEF ReactWithoutClient, QueueMoves, OtherCalls, OtherReturns, given
  <1>5. ASSUME NEW d \in Slots, DogEnds(d) PROVE DogOnDuty'
    <2>1. MeasuresOK BY TypeParts
    <2>2. ~Overdue' => overdue' = 0 BY <1>5, <2>1, Measured DEF DogEnds
    <2>3. stopDogs /\ UNCHANGED <<enabled, config>> BY <1>5 DEF DogEnds, given
    <2> QED BY <2>2, <2>3 DEF DogOnDuty
  <1>6. ASSUME NEW d \in Slots, DogWatches(d) PROVE DogOnDuty'
    BY <1>6, DutyWatches
  <1>7. CASE Crash \/ \E d \in Slots : DogBites(d)
    BY <1>7, OffDuty DEF Crash, DogBites, Die
  <1>8. CASE Stop BY <1>8, OffDuty DEF Stop
  <1>9. CASE Start BY <1>9, DutyStart
  <1>10. CASE Reconfigure BY <1>10, DutyReconfigure
  <1>11. CASE Tick BY <1>11, DutyTick
  <1> QED BY <1>1, <1>2, <1>3, <1>4, <1>5, <1>6, <1>7, <1>8, <1>9, <1>10, <1>11 DEF Next

LEMMA DutyImpliesDeadMan ==
  ASSUME TypeOK, DogOnDuty PROVE DeadMan
  <1>0. DogsOK /\ MeasuresOK BY TypeParts
  <1>1. CASE ~Overdue BY <1>1, WatcherBoundsAssumption DEF DogOnDuty, DeadMan
  <1>2. CASE Overdue
    <2>1. PICK d \in Slots : OnDuty(d) BY <1>2 DEF DogOnDuty, Overdue, Outlives
    <2>2. dogs[d].wait \in Nat BY <1>0 DEF DogsOK, Dogs
    <2> QED BY <1>0, <1>2, <2>1, <2>2, WatcherBoundsAssumption
            DEF OnDuty, DeadMan, MeasuresOK
  <1> QED BY <1>1, <1>2

\* No leader outlives hard_deadline by more than a probe, whatever hangs and
\* however starts, stops and reconfigurations interleave.
THEOREM DeadManStops == Spec => []DeadMan
  BY TypeInit, DutyInit, TypeStep, DutyStep, DutyImpliesDeadMan, PTL DEF Spec

-----------------------------------------------------------------------------
(***************************************************************************)
(* Self-fencing.                                                           *)
(***************************************************************************)

\* A step that moves one fencing loop at most, and keeps that one a guard if
\* it was, keeps a loop on duty.  The config may change.
LEMMA GuardMoves ==
  ASSUME TypeOK, FenceOnDuty, Measure(0), enabled' = enabled, NEW f \in Slots,
         \A g \in Slots \ {f} : fence'[g] = fence[g],
         enabled /\ Guards(f) => Guards(f)'
  PROVE  FenceOnDuty'
  <1>0. FenceOK /\ MeasuresOK BY TypeParts
  <1>1. /\ MeasuresOK' /\ (~Unfenced' => unfenced' = 0)
        /\ Unfenced' => unfenced' = 0 \/ (Unfenced /\ unfenced' = unfenced + 0)
    BY <1>0, Measured
  <1>2. ASSUME NEW g \in Slots \ {f}, Guards(g) PROVE Guards(g)'
    <2>1. fence[g].wait \in Nat BY <1>0 DEF FenceOK, Fences
    <2>2. Unfenced' => unfenced' = 0 \/ (Unfenced /\ unfenced' = unfenced)
      BY <1>0, <1>1 DEF MeasuresOK
    <2> QED BY <1>2, <2>1, <2>2, WatcherBoundsAssumption DEF Guards
  <1> QED BY <1>1, <1>2 DEF FenceOnDuty

LEMMA GuardStays ==
  ASSUME TypeOK, FenceOnDuty, Measure(0), UNCHANGED <<enabled, fence>>
  PROVE  FenceOnDuty'
  <1>0. FenceOK /\ MeasuresOK BY TypeParts
  <1>1. /\ MeasuresOK' /\ (~Unfenced' => unfenced' = 0)
        /\ Unfenced' => unfenced' = 0 \/ (Unfenced /\ unfenced' = unfenced + 0)
    BY <1>0, Measured
  <1>2. ASSUME NEW g \in Slots, Guards(g) PROVE Guards(g)'
    <2>1. fence[g].wait \in Nat BY <1>0 DEF FenceOK, Fences
    <2>2. Unfenced' => unfenced' = 0 \/ (Unfenced /\ unfenced' = unfenced)
      BY <1>0, <1>1 DEF MeasuresOK
    <2> QED BY <1>2, <2>1, <2>2, WatcherBoundsAssumption DEF Guards
  <1> QED BY <1>1, <1>2 DEF FenceOnDuty

\* A loop going back to sleep is on duty when no leader is left unfenced.
LEMMA SleepGuards ==
  ASSUME StateOK, FenceOK, NEW f \in Slots, FenceSleeps(f), ~Unfenced'
  PROVE  Guards(f)'
  <1>1. config.probe <= ProbeCap BY OptionFacts DEF StateOK
  <1>2. fence'[f].pc = "sleep" /\ fence'[f].wait = config.probe
    BY DEF FenceSleeps, FenceOK
  <1> QED BY <1>1, <1>2 DEF Guards

LEMMA FenceGuards ==
  ASSUME StateOK, FenceOK, NEW f \in Slots, NEW release \in BOOLEAN, Fence(f, release)
  PROVE  Guards(f)'
  <1>1. CASE ctlBusy /\ FenceSleeps(f) /\ UNCHANGED <<readOnly, age, ctlBusy>>
    BY <1>1, SleepGuards DEF Unfenced
  <1>2. CASE fence' = [fence EXCEPT ![f] = [pc |-> "demote", wait |-> 0]]
    BY <1>2 DEF FenceOK, Guards
  <1>3. CASE readOnly' = TRUE /\ FenceSleeps(f)
    BY <1>3, SleepGuards DEF Unfenced, Outlives, EffectivelyLeader
  <1> QED BY <1>1, <1>2, <1>3 DEF Fence

LEMMA GuardFencing ==
  ASSUME TypeOK, FenceOnDuty, NEW f \in Slots, Fencing(f) PROVE FenceOnDuty'
  <1>0. StateOK /\ FenceOK /\ MeasuresOK BY TypeParts
  <1>1. enabled' = enabled /\ config' = config /\ Measure(0)
    BY DEF Fencing, FenceEnds, FenceIdles, FenceWakes, PeersRefuse, PeersAccept,
           FenceDemoted, given
  <1>2. \A g \in Slots \ {f} : fence'[g] = fence[g]
    BY <1>0 DEF Fencing, FenceEnds, FenceIdles, FenceWakes, PeersRefuse, PeersAccept,
                FenceDemoted, Fence, FenceSleeps, FenceOK
  <1>3. ASSUME enabled, Guards(f) PROVE Guards(f)'
    <2>1. CASE FenceEnds(f) BY <1>3, <2>1 DEF FenceEnds
    <2>2. CASE FenceIdles(f)
      <3>1. ~Unfenced'
        BY <2>2 DEF FenceIdles, ShouldFence, Unfenced, Outlives, EffectivelyLeader,
                    RenewDeadline, given, lease, box
      <3> QED BY <1>0, <2>2, <3>1, SleepGuards DEF FenceIdles
    <2>3. CASE FenceWakes(f)
      <3>1. CASE ~etcdOk /\ config.failsafe
        <4>1. fence' = [fence EXCEPT ![f] = [pc |-> "failsafe", wait |-> RpcTicks]]
          BY <2>3, <3>1 DEF FenceWakes
        <4>2. fence'[f].pc = "failsafe" /\ fence'[f].wait = RpcTicks
          BY <1>0, <4>1 DEF FenceOK
        <4>3. Unfenced => unfenced <= ProbeCap
          BY <1>0, <1>3, <2>3 DEF FenceWakes, Guards, MeasuresOK
        <4>4. Unfenced' => unfenced' = 0 \/ (Unfenced /\ unfenced' = unfenced + 0)
          BY <1>0, <1>1, Measured
        <4>5. Unfenced' => RpcTicks + unfenced' <= ProbeCap + RpcTicks
          BY <1>0, <4>3, <4>4, WatcherBoundsAssumption DEF MeasuresOK
        <4> QED BY <4>2, <4>5, WatcherBoundsAssumption DEF Guards
      <3>2. CASE ~(~etcdOk /\ config.failsafe)
        <4>1. Fence(f, etcdOk) /\ etcdOk \in BOOLEAN
          BY <1>0, <2>3, <3>2 DEF FenceWakes, StateOK
        <4> QED BY <1>0, <4>1, FenceGuards
      <3> QED BY <3>1, <3>2
    <2>4. CASE PeersRefuse(f) BY <1>0, <2>4, FenceGuards DEF PeersRefuse
    <2>5. CASE PeersAccept(f)
      <3>1. RenewDeadline(config') \in Nat \ {0} BY <1>0, <1>1, OptionFacts DEF StateOK
      <3>2. age' = 0 BY <2>5 DEF PeersAccept
      <3>3. ~(age' >= RenewDeadline(config')) BY <3>1, <3>2
      <3>4. ~Unfenced' BY <3>3 DEF Unfenced, Outlives, RenewDeadline
      <3> QED BY <1>0, <2>5, <3>4, SleepGuards DEF PeersAccept
    <2>6. CASE FenceDemoted(f)
      <3>1. ~Unfenced' BY <2>6 DEF FenceDemoted, Unfenced, Outlives, EffectivelyLeader
      <3> QED BY <1>0, <2>6, <3>1, SleepGuards DEF FenceDemoted
    <2> QED BY <2>1, <2>2, <2>3, <2>4, <2>5, <2>6 DEF Fencing
  <1> QED BY <1>1, <1>2, <1>3, GuardMoves

LEMMA GuardStart == ASSUME TypeOK, Start PROVE FenceOnDuty'
  <1>0. FenceOK /\ MeasuresOK BY TypeParts
  <1>1. ~Unfenced BY DEF Start, Unfenced, Outlives
  <1>2. unfenced' = 0 BY <1>0, <1>1, Measured DEF Start
  <1>3. PICK f \in Slots : fence' = [fence EXCEPT ![f] = [pc |-> "sleep", wait |-> 0]]
    BY DEF Start
  <1>4. fence'[f].pc = "sleep" /\ fence'[f].wait = 0 BY <1>0, <1>3 DEF FenceOK
  <1>5. Guards(f)' BY <1>2, <1>4, WatcherBoundsAssumption DEF Guards
  <1> QED BY <1>2, <1>5 DEF FenceOnDuty

LEMMA GuardTick == ASSUME TypeOK, FenceOnDuty, Tick PROVE FenceOnDuty'
  <1>0. FenceOK /\ MeasuresOK BY TypeParts
  <1>1. /\ MeasuresOK' /\ (~Unfenced' => unfenced' = 0)
        /\ Unfenced' => unfenced' = 0 \/ (Unfenced /\ unfenced' = unfenced + 1)
    BY <1>0, Measured DEF Tick
  <1>2. ASSUME NEW f \in Slots, Guards(f) PROVE Guards(f)'
    <2>1. fence'[f].pc = fence[f].pc BY <1>0 DEF Tick, FenceOK, Fences
    <2>2. CASE fence[f].pc = "demote" BY <2>1, <2>2 DEF Guards
    <2>3. CASE fence[f].pc \in {"sleep", "failsafe"}
      <3>1. fence[f].wait \in Nat /\ fence[f].wait > 0
        BY <1>0, <2>3 DEF Tick, Timed, FenceOK, Fences
      <3>2. fence'[f].wait = fence[f].wait - 1
        BY <1>0, <3>1 DEF Tick, Elapse, FenceOK, Fences
      <3> QED BY <1>0, <1>1, <1>2, <2>1, <2>3, <3>1, <3>2, WatcherBoundsAssumption
              DEF Guards, MeasuresOK
    <2> QED BY <1>2, <2>2, <2>3 DEF Guards
  <1>3. enabled' = enabled BY DEF Tick, given
  <1> QED BY <1>1, <1>2, <1>3 DEF FenceOnDuty

\* A step after which the watcher does not run needs no fencing loop.
LEMMA OffGuard ==
  ASSUME TypeOK, Measure(0), enabled' = FALSE PROVE FenceOnDuty'
  <1>0. MeasuresOK BY TypeParts
  <1>1. ~Unfenced' => unfenced' = 0 BY <1>0, Measured
  <1> QED BY <1>1 DEF FenceOnDuty

LEMMA GuardInit == ASSUME Init PROVE FenceOnDuty
  BY DEF Init, FenceOnDuty

LEMMA GuardStep ==
  ASSUME TypeOK, FenceOnDuty, [Next]_vars PROVE FenceOnDuty'
  <1>1. CASE UNCHANGED vars
    BY <1>1 DEF vars, given, lease, box, FenceOnDuty, Guards, Unfenced, Outlives,
                EffectivelyLeader, RenewDeadline
  <1>2. ASSUME NEW s \in Slots, Reaction(s) PROVE FenceOnDuty'
    <2>1. UNCHANGED <<enabled, fence>> /\ Measure(0)
      BY <1>2
      DEF Reaction, React, OnPause, OnNoRow, OnStaleRow, OnRowToPromote, OnRowToDemote,
          OnRowToReadOnly, OnRowInPlace, OnDeferred, OnPrepared, OnPromoted, OnDemoted,
          given
    <2> QED BY <2>1, GuardStays
  <1>3. ASSUME NEW f \in Slots, Fencing(f) PROVE FenceOnDuty'
    BY <1>3, GuardFencing
  <1>4. CASE ReactWithoutClient \/ QueueMoves \/ OtherCalls \/ OtherReturns \/ Reconfigure
    BY <1>4, GuardStays
    DEF ReactWithoutClient, QueueMoves, OtherCalls, OtherReturns, Reconfigure, given
  <1>5. ASSUME NEW d \in Slots, DogEnds(d) \/ DogWatches(d) PROVE FenceOnDuty'
    BY <1>5, GuardStays DEF DogEnds, DogWatches, given
  <1>6. CASE Crash \/ \E d \in Slots : DogBites(d)
    BY <1>6, OffGuard DEF Crash, DogBites, Die
  <1>7. CASE Stop BY <1>7, OffGuard DEF Stop
  <1>8. CASE Start BY <1>8, GuardStart
  <1>9. CASE Tick BY <1>9, GuardTick
  <1> QED BY <1>1, <1>2, <1>3, <1>4, <1>5, <1>6, <1>7, <1>8, <1>9 DEF Next

LEMMA GuardImpliesFenced ==
  ASSUME TypeOK, CtlExclusive, FenceOnDuty PROVE FencedInTime
  <1>0. FenceOK /\ MeasuresOK BY TypeParts
  <1>1. CASE ~Unfenced BY <1>1, WatcherBoundsAssumption DEF FenceOnDuty, FencedInTime
  <1>2. CASE Unfenced
    <2>1. PICK f \in Slots : Guards(f) BY <1>2 DEF FenceOnDuty, Unfenced, Outlives
    <2>2. fence[f].wait \in Nat BY <1>0 DEF FenceOK, Fences
    <2>3. fence[f].pc # "demote" BY <1>2 DEF Unfenced, CtlExclusive, FenceInCtl
    <2> QED BY <1>0, <1>2, <2>1, <2>2, <2>3, WatcherBoundsAssumption
            DEF Guards, FencedInTime, MeasuresOK
  <1> QED BY <1>1, <1>2

\* A leader nobody confirmed is read-only one probe and one failsafe poll
\* after renew_deadline, for any options and any number of fibers.
THEOREM LeaderFenced == Spec => []FencedInTime
  BY TypeInit, CtlInit, GuardInit, TypeStep, CtlStep, GuardStep, GuardImpliesFenced,
     PTL DEF Spec

-----------------------------------------------------------------------------
(***************************************************************************)
(* Promotions.                                                             *)
(***************************************************************************)

\* As long as the watcher was started once, one reaction at most is under
\* way, and one that prepares to promote has the newest term read.
OneReaction ==
    /\ starts = 0 => ~enabled /\ \A s \in Slots : react[s].pc = "off"
    /\ starts = 1 =>
         /\ \A s \in Slots : react[s].pc # "off" => reacting
         /\ \A s, t \in Slots : react[s].pc # "off" /\ react[t].pc # "off" => s = t
         /\ \A s \in Slots : react[s].pc = "prepare"
              => react[s].term = 0 \/ react[s].term >= applied

LEMMA OneReactionInit == ASSUME Init PROVE OneReaction
  BY DEF Init, OneReaction, NoReaction

\* The running reaction goes on, or ends, and the others stay off.
LEMMA ReactionGoesOn ==
  ASSUME TypeOK, OneReaction, NEW s \in Slots, react[s].pc # "off",
         starts' = starts, enabled' = enabled,
         \A t \in Slots \ {s} : react'[t] = react[t],
         react'[s].pc = "off" \/ reacting' = reacting,
         react'[s].pc = "prepare" => react'[s].term = 0 \/ react'[s].term >= applied'
  PROVE  OneReaction'
  BY DEF OneReaction

LEMMA OneReactionReaction ==
  ASSUME TypeOK, OneReaction, NEW s \in Slots, Reaction(s) PROVE OneReaction'
  <1>0. ReactOK /\ StateOK BY TypeParts
  <1>1. CASE React(s)
    <2>1. /\ react'[s].pc = "pause"
          /\ \A t \in Slots \ {s} : react'[t] = react[t]
      BY <1>0, <1>1 DEF React, ReactOK, Reactions
    <2> QED BY <1>1, <2>1 DEF React, OneReaction, given
  <1>2. CASE OnRowToPromote(s)
    <2>1. PICK term \in 0..MaxTerm :
            /\ Accept(TRUE, term)
            /\ react' = [react EXCEPT ![s] = [pc |-> "prepare", term |-> term]]
      BY <1>2 DEF OnRowToPromote
    <2>2. /\ react'[s].term = term
          /\ \A t \in Slots \ {s} : react'[t] = react[t]
      BY <1>0, <2>1 DEF ReactOK
    <2>3. term = 0 \/ term >= applied'
      BY <1>0, <2>1, WatcherBoundsAssumption DEF Accept, Stale, StateOK
    <2>4. starts' = starts /\ enabled' = enabled /\ reacting' = reacting
          /\ react[s].pc # "off"
      BY <1>2 DEF OnRowToPromote, given
    <2> QED BY <2>2, <2>3, <2>4, ReactionGoesOn
  <1>3. CASE ~React(s) /\ ~OnRowToPromote(s)
    <2>1. starts' = starts /\ enabled' = enabled /\ react[s].pc # "off"
      BY <1>3
      DEF Reaction, OnPause, OnNoRow, OnStaleRow, OnRowToDemote, OnRowToReadOnly,
          OnRowInPlace, OnDeferred, OnPrepared, OnPromoted, OnDemoted, given
    <2>2. \/ EndReaction(s)
          \/ react' = [react EXCEPT ![s].pc = "row"] /\ reacting' = reacting
          \/ react' = [react EXCEPT ![s].pc = "demote"] /\ reacting' = reacting
          \/ react' = [react EXCEPT ![s] = [pc |-> "promote", term |-> 0]]
             /\ reacting' = reacting
      BY <1>3
      DEF Reaction, OnPause, OnNoRow, OnStaleRow, OnRowToDemote, OnRowToReadOnly,
          OnRowInPlace, OnDeferred, OnPrepared, OnPromoted, OnDemoted
    <2>3. /\ \A t \in Slots \ {s} : react'[t] = react[t]
          /\ react'[s].pc = "off" \/ reacting' = reacting
          /\ react'[s].pc # "prepare"
      BY <1>0, <2>2, RecordFacts DEF EndReaction, ReactOK, Reactions
    <2> QED BY <2>1, <2>3, ReactionGoesOn
  <1> QED BY <1>1, <1>2, <1>3

LEMMA OneReactionStep ==
  ASSUME TypeOK, OneReaction, [Next]_vars PROVE OneReaction'
  <1>0. StateOK /\ starts \in Nat BY TypeParts DEF StateOK
  <1>1. CASE UNCHANGED vars
    BY <1>1 DEF vars, given, lease, OneReaction
  <1>2. ASSUME NEW s \in Slots, Reaction(s) PROVE OneReaction'
    BY <1>2, OneReactionReaction
  <1>3. ASSUME UNCHANGED <<starts, applied, reacting, react>>,
               enabled' = enabled \/ ~enabled' PROVE OneReaction'
    BY <1>3 DEF OneReaction
  <1>4. ASSUME NEW f \in Slots, Fencing(f) PROVE OneReaction'
    BY <1>3, <1>4 DEF Fencing, FenceEnds, FenceIdles, FenceWakes, PeersRefuse,
                      PeersAccept, FenceDemoted, given, lease
  <1>5. ASSUME NEW d \in Slots, DogEnds(d) \/ DogWatches(d) PROVE OneReaction'
    BY <1>3, <1>5 DEF DogEnds, DogWatches, given, lease
  <1>6. CASE Crash \/ \E d \in Slots : DogBites(d)
    BY <1>6 DEF Crash, DogBites, Die, OneReaction, NoReaction
  <1>7. CASE ReactWithoutClient \/ Reconfigure \/ Stop \/ QueueMoves \/ OtherCalls
             \/ OtherReturns \/ Tick
    BY <1>3, <1>7 DEF ReactWithoutClient, Reconfigure, Stop, QueueMoves, OtherCalls,
                      OtherReturns, Tick, given, lease
  <1>8. CASE Start
    <2>1. starts' = starts + 1 /\ react' = react BY <1>8 DEF Start
    <2>2. CASE starts = 0
      <3>1. \A s \in Slots : react'[s].pc = "off" BY <2>1, <2>2 DEF OneReaction
      <3> QED BY <2>1, <2>2, <3>1 DEF OneReaction
    <2>3. CASE starts # 0
      <3>1. starts' # 0 /\ starts' # 1 BY <1>0, <2>1, <2>3
      <3> QED BY <3>1 DEF OneReaction
    <2> QED BY <2>2, <2>3
  <1> QED BY <1>1, <1>2, <1>4, <1>5, <1>6, <1>7, <1>8 DEF Next

\* In a process that started its watcher once, no decision read later is
\* overtaken by a promotion that was catching up.
THEOREM PromotionsAreNewest == Spec => PromotesNewest
  <1>1. ASSUME OneReaction, [Next]_vars
        PROVE  [\A s \in Slots :
                  /\ starts = 1
                  /\ react[s].pc = "prepare" /\ react'[s].pc = "promote"
                  => react[s].term = 0 \/ react[s].term >= applied]_vars
    BY <1>1 DEF OneReaction
  <1> QED BY <1>1, TypeInit, OneReactionInit, TypeStep, OneReactionStep,
             PTL DEF Spec, PromotesNewest

=============================================================================
