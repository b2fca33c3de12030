--------------------------- MODULE LoopTimerProofs ---------------------------
(* The loop keeps its period for every period, every number of retries, any  *)
(* lateness and any steps of the clock: the four invariants of LoopTimer.    *)
EXTENDS LoopTimer, TLAPS

Types ==
    /\ {wall, age, rest_time} \subseteq Int
    /\ {real, worked, late, fwd, back} \subseteq Nat

\* The wall clock runs like the real time, but for what it was set by; what it
\* was set by since now is a part of that.
ClockRuns ==
    /\ wall = real + fwd - back
    /\ pc = "sleep" => -back <= age /\ age <= fwd

\* The work of an iteration is one step, and a sleep that gives up is over.
AtWork ==
    /\ pc = "work" => /\ real = 0 /\ worked = 0 /\ late = 0
                      /\ rest_time = 0 /\ attempts = 0
    /\ gaveUp => pc = "end"

\* In a sleep the rest is what the period had left at now, however often it has
\* been computed anew.
RestIsLeft == pc = "sleep" => rest_time = Desired - (wall - age)

IInv ==
    /\ TimerTypeOK
    /\ Types
    /\ ClockRuns
    /\ AtWork
    /\ RestIsLeft
    /\ PeriodKept
    /\ PeriodNotStretched
    /\ WrapNeedsDelay

\* The assumptions, one by one.
LEMMA ConstantsTyped ==
    /\ Desired \in Nat /\ Desired > 0
    /\ Retries \in Nat /\ Retries > 0
    /\ MaxWork \in Nat /\ MaxLate \in Nat /\ MaxStep \in Nat
    /\ USECONDS \in Nat /\ USECONDS > Desired + MaxStep
BY TimerAssumption

\* A number below the divisor is its own remainder.
LEMMA SmallRemainder ==
    ASSUME NEW r \in Int, NEW u \in Int, 0 <= r, r < u
    PROVE  r % u = r
OBVIOUS

\* What usleep is asked for is a number of microseconds, and the rest itself if
\* that is not negative.
LEMMA UsecondsOfRest ==
    ASSUME NEW r \in Int, r <= Desired + MaxStep
    PROVE  /\ useconds(r) \in Nat
           /\ r >= 0 => useconds(r) = r
<1>1. USECONDS \in Int /\ USECONDS > 0 /\ Desired + MaxStep < USECONDS
  BY ConstantsTyped
<1>2. useconds(r) \in Nat
  BY <1>1 DEF useconds
<1>3. ASSUME r >= 0 PROVE useconds(r) = r
  <2>1. r < USECONDS
    BY <1>1, ConstantsTyped
  <2> QED
    BY <1>1, <1>3, <2>1, SmallRemainder DEF useconds
<1> QED
  BY <1>2, <1>3

LEMMA InitInv == NewIteration => IInv
<1> SUFFICES ASSUME NewIteration PROVE IInv
  OBVIOUS
<1>1. ~gaveUp /\ gaveUp \in BOOLEAN
  BY DEF NewIteration
<1>2. TimerTypeOK /\ Types
  BY <1>1, ConstantsTyped DEF NewIteration, TimerTypeOK, Types
<1>3. ClockRuns /\ AtWork /\ RestIsLeft /\ PeriodKept /\ PeriodNotStretched /\ WrapNeedsDelay
  BY <1>1 DEF NewIteration, ClockRuns, AtWork, RestIsLeft, PeriodKept, PeriodNotStretched,
              WrapNeedsDelay
<1> QED
  BY <1>2, <1>3 DEF IInv

\* The call of the delay: the rest is computed, or found to be none.
LEMMA DelayInv ==
    ASSUME IInv, NEW t \in 0..MaxWork, loop_frequency_delay(t)
    PROVE  IInv'
<1> USE ConstantsTyped DEF IInv, loop_frequency_delay
<1>1. /\ pc = "work" /\ real = 0 /\ rest_time = 0 /\ late = 0
      /\ wall = fwd - back
      /\ fwd \in 0..MaxStep /\ back \in 0..MaxStep
      /\ t \in Nat /\ real' = t /\ worked' = t /\ wall' = wall + t
      /\ late' = 0 /\ fwd' = fwd /\ back' = back /\ gaveUp' = gaveUp
      /\ gaveUp = FALSE
  BY DEF AtWork, ClockRuns, Types, TimerTypeOK
<1>2. CASE Rests(Desired - (wall + t))
  <2>1. /\ pc' = "sleep" /\ attempts' = 1 /\ age' = 0
        /\ rest_time' = Desired - (wall + t) /\ rest_time' > 0
    BY <1>2 DEF Rests
  <2>2. TimerTypeOK' /\ Types' /\ ClockRuns'
    BY <1>1, <2>1 DEF TimerTypeOK, Types, ClockRuns
  <2>3. AtWork' /\ RestIsLeft' /\ PeriodKept' /\ PeriodNotStretched' /\ WrapNeedsDelay'
    BY <1>1, <2>1 DEF AtWork, RestIsLeft, PeriodKept, PeriodNotStretched, WrapNeedsDelay
  <2> QED
    BY <2>2, <2>3
<1>3. CASE ~Rests(Desired - (wall + t))
  <2>1. /\ pc' = "end" /\ age' = wall + t /\ rest_time' = 0 /\ attempts' = attempts
        /\ Desired - (wall + t) <= 0
    BY <1>1, <1>3 DEF Rests
  <2>2. TimerTypeOK' /\ Types' /\ ClockRuns'
    BY <1>1, <2>1 DEF TimerTypeOK, Types, ClockRuns
  <2>3. AtWork' /\ RestIsLeft' /\ PeriodKept' /\ PeriodNotStretched' /\ WrapNeedsDelay'
    BY <1>1, <2>1 DEF AtWork, RestIsLeft, PeriodKept, PeriodNotStretched, WrapNeedsDelay
  <2> QED
    BY <2>2, <2>3
<1> QED
  BY <1>2, <1>3

\* A sleep that ends by itself.
LEMMA SleptInv ==
    ASSUME IInv, NEW l \in 0..MaxLate, Slept(l)
    PROVE  IInv'
<1> USE ConstantsTyped DEF IInv, Slept
<1> DEFINE asked == useconds(rest_time)
<1>1. asked \in Nat /\ (rest_time >= 0 => asked = rest_time)
  BY UsecondsOfRest DEF TimerTypeOK, Types
<1>2. /\ pc' = "end" /\ age' = wall' /\ l \in Nat
      /\ wall' = wall + asked + l /\ real' = real + asked + l /\ late' = late + l
      /\ UNCHANGED <<rest_time, attempts, worked, fwd, back, gaveUp>>
  OBVIOUS
<1> HIDE DEF asked, Slept
<1>3. /\ wall = real + fwd - back /\ -back <= age /\ age <= fwd
      /\ rest_time = Desired - (wall - age)
  BY DEF Slept, ClockRuns, RestIsLeft
<1>4. TimerTypeOK' /\ Types' /\ ClockRuns'
  BY <1>1, <1>2, <1>3 DEF TimerTypeOK, Types, ClockRuns
<1>5. AtWork' /\ RestIsLeft'
  BY <1>2 DEF AtWork, RestIsLeft
<1>6. PeriodKept'
  BY <1>1, <1>2, <1>3 DEF PeriodKept, Types
<1>7. PeriodNotStretched'
  <2>1. ASSUME rest_time >= 0 PROVE real + asked + l <= Desired + late + l + back
    BY <1>1, <1>3, <2>1 DEF Types
  <2>2. ~gaveUp'
    BY <1>2 DEF AtWork, Slept
  <2> QED
    BY <1>2, <2>1, <2>2 DEF PeriodNotStretched, Types
<1>8. WrapNeedsDelay'
  BY <1>1, <1>2, <1>3 DEF WrapNeedsDelay, Types
<1> QED
  BY <1>4, <1>5, <1>6, <1>7, <1>8

\* A sleep that a signal ends, before the time it was asked for.
LEMMA InterruptedInv ==
    ASSUME IInv, rest_time >= 0,
           NEW l \in 0..MaxLate, NEW t \in 0..(Desired + MaxStep), Interrupted(t, l)
    PROVE  IInv'
<1> USE ConstantsTyped DEF IInv, Interrupted
<1>1. t < rest_time
  BY UsecondsOfRest DEF TimerTypeOK, Types
<1>2. /\ rest_time' = rest_time - (age + (t + l)) /\ t \in Nat /\ l \in Nat
      /\ wall' = wall + t + l /\ real' = real + t + l /\ late' = late + l
      /\ UNCHANGED <<worked, fwd, back>>
  BY DEF Rest
<1>3. age' = IF pc' = "end" THEN wall' ELSE 0
  OBVIOUS
<1>4. \/ pc' = "sleep" /\ attempts < Retries /\ attempts' = attempts + 1 /\ gaveUp' = gaveUp
      \/ pc' = "end" /\ attempts' = attempts /\ gaveUp' = TRUE
  BY DEF Retry
<1>5. /\ wall = real + fwd - back /\ -back <= age /\ age <= fwd
      /\ rest_time = Desired - (wall - age)
  BY DEF ClockRuns, RestIsLeft
<1> HIDE DEF Interrupted
<1>6. rest_time' = Desired - wall'
  BY <1>2, <1>5 DEF Types
<1>7. TimerTypeOK' /\ Types' /\ ClockRuns'
  <2>1. rest_time' <= Desired + MaxStep
    BY <1>2, <1>5, <1>6 DEF TimerTypeOK, Types
  <2>2. attempts' \in 0..Retries /\ pc' \in {"work", "sleep", "end"}
    BY <1>4 DEF TimerTypeOK
  <2>3. Types' /\ ClockRuns'
    BY <1>2, <1>3, <1>4, <1>5 DEF Types, ClockRuns
  <2>4. gaveUp' \in BOOLEAN
    BY <1>4, Zenon DEF TimerTypeOK
  <2> QED
    BY <1>2, <1>3, <1>4, <2>1, <2>2, <2>3, <2>4 DEF TimerTypeOK
<1>8. AtWork' /\ RestIsLeft'
  <2>1. ~gaveUp
    BY DEF AtWork, Interrupted
  <2>2. gaveUp' => pc' = "end"
    BY <1>4, <2>1, Zenon
  <2> QED
    BY <1>3, <1>4, <1>6, <1>7, <2>2 DEF AtWork, RestIsLeft, Types
<1>9. PeriodKept'
  BY <1>2, <1>4, <1>5, <1>6 DEF PeriodKept, Types
<1>10. PeriodNotStretched'
  BY <1>1, <1>2, <1>4, <1>5 DEF PeriodNotStretched, Types
<1>11. WrapNeedsDelay'
  BY <1>1, <1>2, <1>5 DEF WrapNeedsDelay, Types
<1> QED
  BY <1>7, <1>8, <1>9, <1>10, <1>11

\* The clock is set in the work or in a sleep.
LEMMA SetClockInv ==
    ASSUME IInv, NEW s \in (-MaxStep)..MaxStep, SetClock(s)
    PROVE  IInv'
<1> USE ConstantsTyped DEF IInv, SetClock
<1>1. /\ pc \in {"work", "sleep"} /\ s \in Int
      /\ wall' = wall + s /\ age' = age + s
      /\ fwd' \in 0..MaxStep /\ back' \in 0..MaxStep
      /\ \/ s >= 0 /\ fwd' = fwd + s /\ back' = back
         \/ s <= 0 /\ fwd' = fwd /\ back' = back - s
      /\ UNCHANGED <<pc, rest_time, attempts, real, worked, late, gaveUp>>
  BY DEF Types
<1> HIDE DEF SetClock
<1>2. TimerTypeOK' /\ Types' /\ ClockRuns'
  BY <1>1 DEF TimerTypeOK, Types, ClockRuns
<1>3. AtWork' /\ RestIsLeft'
  BY <1>1 DEF AtWork, RestIsLeft, Types
<1>4. PeriodKept' /\ PeriodNotStretched' /\ WrapNeedsDelay'
  BY <1>1 DEF PeriodKept, PeriodNotStretched, WrapNeedsDelay, Types
<1> QED
  BY <1>2, <1>3, <1>4

\* The inductive invariant of the delay.
THEOREM Invariance == Spec => []IInv
<1>1. Init => IInv
  BY InitInv DEF Init
<1>2. IInv /\ [Next]_vars => IInv'
  <2> SUFFICES ASSUME IInv, [Next]_vars PROVE IInv'
    OBVIOUS
  <2>1. ASSUME NEW t \in 0..MaxWork, loop_frequency_delay(t) PROVE IInv'
    BY <2>1, DelayInv
  <2>2. ASSUME NEW l \in 0..MaxLate, Slept(l) PROVE IInv'
    BY <2>2, SleptInv
  <2>3. ASSUME rest_time >= 0, NEW l \in 0..MaxLate, NEW t \in 0..(Desired + MaxStep),
               Interrupted(t, l)
        PROVE  IInv'
    BY <2>3, InterruptedInv
  <2>4. CASE Restart
    <3>1. NewIteration'
      BY <2>4 DEF Restart, NewIteration
    <3>2. (NewIteration => IInv)'
      BY InitInv, PTL
    <3> QED
      BY <3>1, <3>2
  <2>5. ASSUME NEW s \in (-MaxStep)..MaxStep, SetClock(s) PROVE IInv'
    BY <2>5, SetClockInv
  <2>6. CASE UNCHANGED vars
    BY <2>6 DEF vars, timerVars, historyVars, IInv, TimerTypeOK, Types, ClockRuns, AtWork,
                RestIsLeft, PeriodKept, PeriodNotStretched, WrapNeedsDelay
  <2> QED
    BY <2>1, <2>2, <2>3, <2>4, <2>5, <2>6 DEF Next, Delay
<1>3. QED
  BY <1>1, <1>2, PTL DEF Spec

\* The timer's numbers stay in their ranges.
THEOREM TimerTypeCorrect == Spec => []TimerTypeOK
<1>1. IInv => TimerTypeOK
  BY DEF IInv
<1>2. QED
  BY Invariance, <1>1, PTL

\* An iteration ends only when its period is over, or the clock or a lack of
\* retries cuts it.
THEOREM PeriodKeptCorrect == Spec => []PeriodKept
<1>1. IInv => PeriodKept
  BY DEF IInv
<1>2. QED
  BY Invariance, <1>1, PTL

\* An iteration lasts no longer than its work or its period, but for lateness
\* and a clock set back, unless usleep was given a negative number.
THEOREM PeriodNotStretchedCorrect == Spec => []PeriodNotStretched
<1>1. IInv => PeriodNotStretched
  BY DEF IInv
<1>2. QED
  BY Invariance, <1>1, PTL

\* And that takes a process that was late or a clock set forward.
THEOREM WrapNeedsDelayCorrect == Spec => []WrapNeedsDelay
<1>1. IInv => WrapNeedsDelay
  BY DEF IInv
<1>2. QED
  BY Invariance, <1>1, PTL

=============================================================================
