------------------------------- MODULE Timings -------------------------------
(***************************************************************************)
(* The lease timings: validate_and_adjust of failover/timings.lua, in whole*)
(* seconds; 0 stands for an option that is missing or not positive.  The   *)
(* agent and the watcher start, or take a new config, only with what it    *)
(* returns.                                                                *)
(***************************************************************************)
EXTENDS Integers, TLAPS

\* MINS and DEFAULTS.
MinLoop == 1
MinRetry == 3
Default == [ttl |-> 20, loop |-> 5, retry |-> 3, safety |-> 5]

Options == [ttl : Nat, loop : Nat, retry : Nat, safety : Nat]
PositiveOr(n, fallback) == IF n > 0 THEN n ELSE fallback
AtLeast(low, n) == IF n < low THEN low ELSE n

Ttl(o) == PositiveOr(o.ttl, Default.ttl)

\* The minimums raise, then ttl >= 2 * loop lowers the cycle.
Raised(o) == [loop  |-> AtLeast(MinLoop, PositiveOr(o.loop, Default.loop)),
              retry |-> AtLeast(MinRetry, PositiveOr(o.retry, Default.retry))]
Armed(ttl, t) ==
    IF ttl < 2 * t.loop
    THEN [t EXCEPT !.loop = AtLeast(MinLoop, ttl \div 2)] ELSE t

\* loop + 2 * retry <= ttl lowers the cycle first, then the probe.
Fits(ttl, t) == t.loop + 2 * t.retry <= ttl
LoopFitted(ttl, t) ==
    LET fitted == AtLeast(MinLoop, ttl - 2 * t.retry)
    IN  IF ~Fits(ttl, t) /\ fitted < t.loop
        THEN [t EXCEPT !.loop = fitted] ELSE t
RetryFitted(ttl, t) ==
    LET fitted == AtLeast(MinRetry, (ttl - t.loop) \div 2)
    IN  IF ~Fits(ttl, t) /\ fitted < t.retry
        THEN [t EXCEPT !.retry = fitted] ELSE t

Adjusted(o) ==
    RetryFitted(Ttl(o), LoopFitted(Ttl(o), Armed(Ttl(o), Raised(o))))

\* The start is refused when what is left still does not fit.
Accepted(o) == Fits(Ttl(o), Adjusted(o))

\* renew_deadline, which the safety margin may not swallow.
RenewDeadline(o) ==
    LET wanted == PositiveOr(o.safety, Default.safety)
        safety == IF wanted >= Ttl(o) THEN AtLeast(1, Ttl(o) \div 2) ELSE wanted
    IN  IF Ttl(o) - safety < 1 THEN AtLeast(1, Ttl(o) - 1) ELSE Ttl(o) - safety

-----------------------------------------------------------------------------
LEMMA AdjustedTypes ==
    ASSUME NEW o \in Options
    PROVE  /\ Ttl(o) \in Nat \ {0}
           /\ Armed(Ttl(o), Raised(o)) \in [loop : Nat \ {0}, retry : Nat \ {0}]
           /\ Armed(Ttl(o), Raised(o)).retry >= MinRetry
           /\ Ttl(o) >= 2 => Ttl(o) >= 2 * Armed(Ttl(o), Raised(o)).loop
<1>1. Ttl(o) \in Nat \ {0}
  BY DEF Options, Ttl, PositiveOr, Default
<1>2. PICK r : r = Raised(o)
  OBVIOUS
<1>3. r \in [loop : Nat \ {0}, retry : Nat \ {0}] /\ r.retry >= MinRetry
  BY <1>2 DEF Options, Raised, AtLeast, PositiveOr, Default, MinLoop, MinRetry
<1>4. PICK half : half = Ttl(o) \div 2
  OBVIOUS
<1>5. half \in Nat /\ 2 * half <= Ttl(o)
  BY <1>1, <1>4
<1>6. PICK t : t = Armed(Ttl(o), r)
  OBVIOUS
<1>7. CASE Ttl(o) < 2 * r.loop
  <2>1. t = [r EXCEPT !.loop = AtLeast(MinLoop, half)]
    BY <1>4, <1>6, <1>7 DEF Armed
  <2>2. AtLeast(MinLoop, half) \in Nat \ {0}
        /\ (Ttl(o) >= 2 => Ttl(o) >= 2 * AtLeast(MinLoop, half))
    BY <1>1, <1>5 DEF AtLeast, MinLoop
  <2>. QED BY <1>1, <1>2, <1>3, <1>6, <2>1, <2>2
<1>8. CASE ~(Ttl(o) < 2 * r.loop)
  <2>1. t = r
    BY <1>6, <1>8 DEF Armed
  <2>. QED BY <1>1, <1>2, <1>3, <1>6, <1>8, <2>1
<1>. QED BY <1>7, <1>8

Pairs == [loop : Nat \ {0}, retry : Nat \ {0}]

\* Only the minimum cycle keeps the triple from fitting any longer.
LEMMA LoopFits ==
    ASSUME NEW ttl \in Nat \ {0}, NEW t \in Pairs
    PROVE  /\ LoopFitted(ttl, t) \in Pairs
           /\ LoopFitted(ttl, t).retry = t.retry
           /\ LoopFitted(ttl, t).loop <= t.loop
           /\ Fits(ttl, LoopFitted(ttl, t)) \/ LoopFitted(ttl, t).loop = MinLoop
<1>1. PICK fitted : fitted = AtLeast(MinLoop, ttl - 2 * t.retry)
  OBVIOUS
<1>2. /\ fitted \in Nat \ {0}
      /\ fitted = MinLoop \/ fitted + 2 * t.retry = ttl
      /\ fitted + 2 * t.retry >= ttl
  BY <1>1 DEF Pairs, AtLeast, MinLoop
<1>3. CASE ~Fits(ttl, t) /\ fitted < t.loop
  <2>1. LoopFitted(ttl, t) = [t EXCEPT !.loop = fitted]
    BY <1>1, <1>3 DEF LoopFitted
  <2>. QED BY <1>2, <1>3, <2>1 DEF Pairs, Fits
<1>4. CASE ~(~Fits(ttl, t) /\ fitted < t.loop)
  <2>1. LoopFitted(ttl, t) = t
    BY <1>1, <1>4 DEF LoopFitted
  <2>. QED BY <1>2, <1>4, <2>1 DEF Pairs, Fits, MinLoop
<1>. QED BY <1>3, <1>4

\* At the minimum cycle the probe is fitted unless not even its minimum is.
LEMMA RetryFits ==
    ASSUME NEW ttl \in Nat \ {0}, NEW t \in Pairs, t.retry >= MinRetry,
           Fits(ttl, t) \/ t.loop = MinLoop
    PROVE  /\ RetryFitted(ttl, t).retry >= MinRetry
           /\ RetryFitted(ttl, t).loop = t.loop
           /\ Fits(ttl, RetryFitted(ttl, t)) <=> ttl >= MinLoop + 2 * MinRetry
<1>1. CASE Fits(ttl, t)
  <2>1. RetryFitted(ttl, t) = t
    BY <1>1 DEF RetryFitted
  <2>. QED BY <1>1, <2>1 DEF Pairs, Fits, MinLoop, MinRetry
<1>2. CASE ~Fits(ttl, t) /\ t.loop = MinLoop
  <2>1. PICK half : half = (ttl - t.loop) \div 2
    OBVIOUS
  <2>2. half \in Nat /\ 2 * half <= ttl - 1 /\ ttl - 1 <= 2 * half + 1
    <3>1. ttl - t.loop \in Nat /\ ttl - t.loop = ttl - 1
      BY <1>2 DEF MinLoop
    <3>. QED BY <2>1, <3>1
  <2>3. PICK fitted : fitted = AtLeast(MinRetry, half)
    OBVIOUS
  <2>4. fitted \in Nat /\ fitted >= 3 /\ (fitted = 3 \/ fitted = half)
        /\ fitted >= half
    BY <2>2, <2>3 DEF AtLeast, MinRetry
  <2>5. 1 + 2 * t.retry > ttl
    BY <1>2 DEF Pairs, Fits, MinLoop
  <2>6. CASE fitted < t.retry
    <3>1. RetryFitted(ttl, t) = [t EXCEPT !.retry = fitted]
      BY <1>2, <2>1, <2>3, <2>6 DEF RetryFitted
    <3>2. RetryFitted(ttl, t).retry = fitted /\ RetryFitted(ttl, t).loop = t.loop
      BY <3>1 DEF Pairs
    <3>3. Fits(ttl, RetryFitted(ttl, t)) <=> 1 + 2 * fitted <= ttl
      BY <1>2, <3>2 DEF Fits, MinLoop
    <3>. QED BY <2>2, <2>4, <3>2, <3>3 DEF MinLoop, MinRetry
  <2>7. CASE ~(fitted < t.retry)
    <3>1. RetryFitted(ttl, t) = t
      BY <1>2, <2>1, <2>3, <2>7 DEF RetryFitted
    <3>. QED BY <1>2, <2>2, <2>4, <2>5, <2>7, <3>1
         DEF Pairs, MinLoop, MinRetry
  <2>. QED BY <2>6, <2>7
<1>. QED BY <1>1, <1>2

\* What is refused and what is accepted.
LEMMA Fitting ==
    ASSUME NEW o \in Options
    PROVE  /\ Accepted(o) <=> Ttl(o) >= MinLoop + 2 * MinRetry
           /\ Adjusted(o).retry >= MinRetry /\ Adjusted(o).loop >= MinLoop
           /\ Ttl(o) >= 2 => Ttl(o) >= 2 * Adjusted(o).loop
<1>1. PICK t : t = Armed(Ttl(o), Raised(o))
  OBVIOUS
<1>2. /\ Ttl(o) \in Nat \ {0} /\ t \in Pairs /\ t.retry >= MinRetry
      /\ Ttl(o) >= 2 => Ttl(o) >= 2 * t.loop
  BY <1>1, AdjustedTypes DEF Pairs
<1>3. PICK u : u = LoopFitted(Ttl(o), t)
  OBVIOUS
<1>4. /\ u \in Pairs /\ u.retry >= MinRetry /\ u.loop <= t.loop
      /\ Fits(Ttl(o), u) \/ u.loop = MinLoop
  BY <1>2, <1>3, LoopFits
<1>5. Adjusted(o) = RetryFitted(Ttl(o), u)
  BY <1>1, <1>3 DEF Adjusted
<1>6. /\ Adjusted(o).retry >= MinRetry /\ Adjusted(o).loop = u.loop
      /\ Fits(Ttl(o), Adjusted(o)) <=> Ttl(o) >= MinLoop + 2 * MinRetry
  BY <1>2, <1>4, <1>5, RetryFits
<1>. QED BY <1>2, <1>4, <1>6 DEF Accepted, Pairs, MinLoop

\* Whatever the operator writes, timings that are accepted leave the leader
\* two renewals within the lease and the watchdog room to arm
\* (timings.lua:18-24), and self-fencing comes within the lease
\* (timings.lua:154-166).
THEOREM AcceptedTimings ==
    ASSUME NEW o \in Options, Accepted(o)
    PROVE  /\ Adjusted(o).loop >= MinLoop /\ Adjusted(o).retry >= MinRetry
           /\ Adjusted(o).loop + 2 * Adjusted(o).retry <= Ttl(o)
           /\ Ttl(o) >= 2 * Adjusted(o).loop
           /\ 0 < RenewDeadline(o) /\ RenewDeadline(o) < Ttl(o)
<1>1. Ttl(o) \in Nat /\ Ttl(o) >= 7
  BY AdjustedTypes, Fitting DEF MinLoop, MinRetry
<1>2. 0 < RenewDeadline(o) /\ RenewDeadline(o) < Ttl(o)
  <2>1. PICK wanted : wanted = PositiveOr(o.safety, Default.safety)
    OBVIOUS
  <2>2. wanted \in Nat \ {0}
    BY <2>1 DEF Options, PositiveOr, Default
  <2>3. PICK half : half = Ttl(o) \div 2
    OBVIOUS
  <2>4. half \in Nat /\ 2 * half <= Ttl(o)
    BY <1>1, <2>3
  <2>5. PICK safety : safety = IF wanted >= Ttl(o) THEN AtLeast(1, half)
                               ELSE wanted
    OBVIOUS
  <2>6. safety \in Nat \ {0} /\ safety < Ttl(o)
    BY <1>1, <2>2, <2>4, <2>5 DEF AtLeast
  <2>7. RenewDeadline(o) = Ttl(o) - safety
    BY <1>1, <2>1, <2>3, <2>5, <2>6 DEF RenewDeadline
  <2>. QED BY <1>1, <2>6, <2>7
<1>3. Adjusted(o).loop + 2 * Adjusted(o).retry <= Ttl(o)
  BY DEF Accepted, Fits
<1>. QED BY <1>1, <1>2, <1>3, Fitting

\* Timings are refused only when no cycle and no probe fit: under seven
\* seconds of lease (timings.lua:145-152).
THEOREM RefusedTimings ==
    ASSUME NEW o \in Options
    PROVE  Accepted(o) <=> Ttl(o) >= MinLoop + 2 * MinRetry
BY Fitting
=============================================================================
