----------------------------- MODULE LoopTimer -----------------------------
(* src/loop_timer.c: loop_frequency_delay keeps a loop to its period by      *)
(* sleeping for what the work has left of it.  It reads the wall clock, which *)
(* may be set forward or back, and it retries a sleep that a signal ends.    *)
(* Times are kept relative to the present, so that they stay bounded.        *)
EXTENDS Integers

CONSTANTS
    Desired,        \* desired_loop_time
    USECONDS,       \* values of useconds_t: 2^32
    Retries,        \* 32 in the code
    MaxWork,        \* bound: time the work of an iteration takes
    MaxLate,        \* bound: time until a process that is due runs
    MaxStep         \* bound: forward and backward clock steps of an iteration

ASSUME TimerAssumption ==
    /\ Desired \in Nat \ {0}
    /\ Retries \in Nat \ {0}
    /\ {MaxWork, MaxLate, MaxStep} \subseteq Nat
    /\ USECONDS \in Nat
    /\ USECONDS > Desired + MaxStep

VARIABLES
    pc,             \* the work of the loop, or a sleep, or the end of the delay
    wall,           \* get_time_us() - last_loop_start_time
    age,            \* get_time_us() - now
    rest_time,
    attempts,       \* loop_attempts
    real,           \* history: the time this iteration has really lasted,
    worked,         \*   and its work has,
    late,           \*   and the process was kept waiting when it was due,
    fwd, back,      \*   and the clock was set forward and back,
    gaveUp          \*   and whether the retries ran out

timerVars == <<wall, age, rest_time, attempts>>
historyVars == <<real, worked, late, fwd, back, gaveUp>>
vars == <<pc, timerVars, historyVars>>

TimerTypeOK ==
    /\ pc \in {"work", "sleep", "end"}
    /\ attempts \in 0..Retries
    /\ rest_time <= Desired + MaxStep
    /\ age = wall \/ pc = "sleep"
    /\ {fwd, back} \subseteq 0..MaxStep
    /\ gaveUp \in BOOLEAN

NewIteration ==
    /\ pc = "work"
    /\ wall = 0 /\ age = 0 /\ rest_time = 0 /\ attempts = 0
    /\ real = 0 /\ worked = 0 /\ late = 0 /\ fwd = 0 /\ back = 0
    /\ gaveUp = FALSE

Init == NewIteration

----------------------------------------------------------------------------
\* Mutant: the rest is not tested.
RestsAlways(rest) == TRUE

Rests(rest) == rest > 0

\* loop_frequency_delay is called after t of work.
loop_frequency_delay(t) ==
    LET consumed == wall + t
        rest == Desired - consumed
    IN  /\ pc = "work"
        /\ real' = real + t
        /\ worked' = real + t
        /\ wall' = consumed
        /\ IF Rests(rest)
           THEN pc' = "sleep" /\ rest_time' = rest /\ attempts' = 1 /\ age' = 0
           ELSE pc' = "end" /\ age' = consumed /\ UNCHANGED <<rest_time, attempts>>
        /\ UNCHANGED <<late, fwd, back, gaveUp>>

\* What usleep makes of its argument.
useconds(rest) == rest % USECONDS

\* usleep returns 0, after at least the time it was asked for.
Slept(l) ==
    /\ pc = "sleep"
    /\ wall' = wall + useconds(rest_time) + l
    /\ real' = real + useconds(rest_time) + l
    /\ late' = late + l
    /\ age' = wall'
    /\ pc' = "end"
    /\ UNCHANGED <<rest_time, attempts, worked, fwd, back, gaveUp>>

\* Mutants: the whole rest again, or the time since the first sleep.
RestAsBefore(t) == rest_time
RestSinceStart(t) == rest_time - (real + t - worked)

Rest(t) == rest_time - (age + t)

\* Mutant: one more.
RetryOnceMore ==
    IF attempts <= Retries
    THEN pc' = "sleep" /\ attempts' = attempts + 1 /\ UNCHANGED gaveUp
    ELSE pc' = "end" /\ gaveUp' = TRUE /\ UNCHANGED attempts

\* The for loop goes on, or ends without a complete sleep.
Retry ==
    IF attempts < Retries
    THEN pc' = "sleep" /\ attempts' = attempts + 1 /\ UNCHANGED gaveUp
    ELSE pc' = "end" /\ gaveUp' = TRUE /\ UNCHANGED attempts

\* usleep is interrupted after t, and the process computes the rest l later.
Interrupted(t, l) ==
    /\ pc = "sleep"
    /\ t < useconds(rest_time)
    /\ rest_time' = Rest(t + l)
    /\ Retry
    /\ wall' = wall + t + l
    /\ real' = real + t + l
    /\ late' = late + l
    /\ age' = IF pc' = "end" THEN wall' ELSE 0
    /\ UNCHANGED <<worked, fwd, back>>

\* The iteration ends: last_loop_start_time is read anew.
Restart ==
    /\ pc = "end"
    /\ pc' = "work"
    /\ wall' = 0 /\ age' = 0 /\ rest_time' = 0 /\ attempts' = 0
    /\ real' = 0 /\ worked' = 0 /\ late' = 0 /\ fwd' = 0 /\ back' = 0
    /\ gaveUp' = FALSE

\* Someone sets the clock, during the work or a sleep.
SetClock(s) ==
    /\ pc \in {"work", "sleep"}
    /\ wall' = wall + s
    /\ age' = age + s
    /\ fwd' = fwd + (IF s > 0 THEN s ELSE 0)
    /\ back' = back + (IF s < 0 THEN -s ELSE 0)
    /\ {fwd', back'} \subseteq 0..MaxStep
    /\ UNCHANGED <<pc, rest_time, attempts, real, worked, late, gaveUp>>

\* Bound: a rest that has wrapped around is slept through.
Delay ==
    \/ \E t \in 0..MaxWork : loop_frequency_delay(t)
    \/ \E l \in 0..MaxLate : Slept(l)
    \/ /\ rest_time >= 0
       /\ \E l \in 0..MaxLate, t \in 0..(Desired + MaxStep) : Interrupted(t, l)
    \/ Restart

Next == Delay \/ \E s \in (-MaxStep)..MaxStep : s # 0 /\ SetClock(s)

Spec == Init /\ [][Next]_vars

----------------------------------------------------------------------------
\* An iteration never ends before its period is over, however its sleep was
\* interrupted: only a clock set forward, or the end of the retries, cuts it.
PeriodKept ==
    (pc = "end" /\ ~(gaveUp /\ rest_time > 0)) => real >= Desired - fwd

\* It does not last longer either than its work or its period, but for the time
\* the process was kept waiting and the clock was set back.  The exception is a
\* rest that was negative when it was handed to usleep.
PeriodNotStretched ==
    (pc = "end" /\ ~(rest_time < 0 /\ ~gaveUp)) =>
        LET due == IF worked > Desired THEN worked ELSE Desired
        IN  real <= due + late + back

\* usleep, whose argument is unsigned, gets a negative number only if the process
\* came late to compute the rest of an interrupted sleep, or the clock was set
\* forward; an iteration that is late by its own work does not sleep at all.
WrapNeedsDelay == rest_time < 0 => late + fwd > 0

=============================================================================
