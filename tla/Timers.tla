------------------------------- MODULE Timers -------------------------------
(***************************************************************************)
(* tap::arch::Timeout, the operators of its methods on a record of its     *)
(* fields, and the two timers made of it: PeriodicTimer, which fires again *)
(* and again, and ConditionalTimer, for which a condition has to hold for  *)
(* some time as far as the calls of execute() see it.  Time goes on        *)
(* between the calls; the counter that shows it wraps at ClockPeriod.      *)
(*                                                                         *)
(* And tap::arch::Profiler, which measures how long functions take, by a   *)
(* counter of its own; the rolling average of the times is left out.       *)
(***************************************************************************)
EXTENDS Integers, Sequences

CONSTANTS
    ClockPeriod, \* a positive number, 2^32 in the program
    Periods,     \* the periods a caller restarts the periodic timer with, all positive
    Timeouts,    \* the timeouts of the conditional timer, all positive
    Horizon,     \* bound: the time at which the clock stops
    Profiles,    \* the names of functions to profile
    MAX_PROFILED_ELEMENTS,
    CounterAtBoot,  \* what the counter of the profiler shows at first
    MaxCalls     \* bounds the calls of push()

VARIABLES
    time,        \* true time since boot; the counter is time % ClockPeriod
    period, periodicTimeout,  \* of the periodic timer
    start,       \* history: time of its last restart()
    fired,       \* history: times at which its execute() returned true since then
    timeout, timer,  \* of the conditional timer, whose Timeout is `timer'
    unmet,       \* history: the last time its execute() was called with false,
                 \*   or restart(), or -1
    profiledElements,
    calls,       \* the functions that were pushed and not popped, the last one first
    durations,   \* history: what the calls of each name took, as true time
    overwritten, \* history: names of which two calls ran at a time
    pushes       \* calls of push()

periodicVars == <<period, periodicTimeout, start, fired>>
conditionalVars == <<timeout, timer, unmet>>
profilerVars == <<profiledElements, calls, durations, overwritten, pushes>>
vars == <<time, periodicVars, conditionalVars, profilerVars>>

now == time % ClockPeriod

-----------------------------------------------------------------------------
Stopped == [isRunning |-> FALSE, isExecuted |-> FALSE, expireTime |-> 0]

restart(duration) ==
    [isRunning |-> TRUE, isExecuted |-> FALSE,
     expireTime |-> (now + duration) % ClockPeriod]

stop(t) == [t EXCEPT !.isRunning = FALSE, !.isExecuted = FALSE]

isExpired(t) == t.isRunning /\ now >= t.expireTime

(* execute() returns true. *)
Executes(t) == ~t.isExecuted /\ isExpired(t)

-----------------------------------------------------------------------------
Init ==
    /\ time = 0
    /\ period \in Periods
    /\ periodicTimeout = restart(period)
    /\ start = 0
    /\ fired = {}
    /\ timeout \in Timeouts
    /\ timer = Stopped
    /\ unmet = -1
    /\ profiledElements = <<>> /\ calls = <<>>
    /\ durations = [name \in Profiles |-> {}] /\ overwritten = {} /\ pushes = 0

Tick ==
    /\ time < Horizon
    /\ time' = time + 1
    /\ UNCHANGED <<periodicVars, conditionalVars, profilerVars>>

PeriodicRestart(p) ==
    /\ period' = p
    /\ periodicTimeout' = restart(p)
    /\ start' = time
    /\ fired' = {}
    /\ UNCHANGED <<time, conditionalVars, profilerVars>>

PeriodicStop ==
    /\ periodicTimeout' = stop(periodicTimeout)
    /\ UNCHANGED <<time, period, start, fired, conditionalVars, profilerVars>>

(* Mutant: the period starts over when the timer is looked at. *)
RestartedFromNow(expireTime) == (now + period) % ClockPeriod

(***************************************************************************)
(* The expire times that the do-while loop goes through, modulo the width  *)
(* of the counter, and the first one behind `now', where it ends.          *)
(***************************************************************************)
NextExpireTime(expireTime) ==
    LET Step(k) == (expireTime + k * period) % ClockPeriod
        last == CHOOSE k \in 1 .. ClockPeriod :
                    Step(k) > now /\ \A j \in 1 .. k - 1 : Step(j) <= now IN
    Step(last)

(* The loop has no end if no multiple of the period is behind `now'. *)
LoopEnds ==
    \E k \in 1 .. ClockPeriod : (periodicTimeout.expireTime + k * period) % ClockPeriod > now

PeriodicExecute ==
    /\ Executes(periodicTimeout) => LoopEnds
    /\ periodicTimeout' =
           IF Executes(periodicTimeout)
           THEN [isRunning |-> TRUE, isExecuted |-> FALSE,
                 expireTime |-> NextExpireTime(periodicTimeout.expireTime)]
           ELSE periodicTimeout
    /\ fired' = IF Executes(periodicTimeout) THEN fired \union {time} ELSE fired
    /\ UNCHANGED <<time, period, start, conditionalVars, profilerVars>>

ConditionalRestart(newTimeout) ==
    /\ timeout' = newTimeout
    /\ timer' = restart(newTimeout)
    /\ unmet' = time
    /\ UNCHANGED <<time, periodicVars, profilerVars>>

ConditionalStop ==
    /\ timer' = stop(timer)
    /\ UNCHANGED <<time, timeout, unmet, periodicVars, profilerVars>>

(* Mutant: a false condition starts the timer and never restarts it. *)
ExecutedOnce(cond) == IF cond \/ timer.isRunning THEN timer ELSE restart(timeout)

(* The timer that execute() looks at. *)
Executed(cond) == IF cond THEN timer ELSE restart(timeout)

(* What execute() returns. *)
Returned(cond) == isExpired(Executed(cond))

ConditionalExecute(cond) ==
    /\ timer' = Executed(cond)
    /\ unmet' = IF cond THEN unmet ELSE time
    /\ UNCHANGED <<time, timeout, periodicVars, profilerVars>>

-----------------------------------------------------------------------------
(* clock::getTimeMicroseconds(). *)
getTimeMicroseconds == (time + CounterAtBoot) % ClockPeriod

ProfilerData(name) ==
    [name |-> name, min |-> ClockPeriod - 1, max |-> 0, prevPushedTime |-> 0]

(* elementNameToIndexMap.find(): the keys of a name, which count from 0. *)
KeysOf(name) == {key \in 0 .. Len(profiledElements) - 1 : profiledElements[key + 1].name = name}

(* Mutant: the stopwatch of a name that is known already goes on. *)
StartedOnce(element) == element

Started(element) == [element EXCEPT !.prevPushedTime = getTimeMicroseconds]

(* push(), before the function is called.  The key it returns is the one that
   is popped; that of a table that is full belongs to no element. *)
push(name) ==
    /\ pushes < MaxCalls /\ pushes' = pushes + 1
    /\ LET known == KeysOf(name)
           full == Len(profiledElements) >= MAX_PROFILED_ELEMENTS
           key == IF known # {} THEN CHOOSE k \in known : TRUE ELSE Len(profiledElements)
       IN  /\ profiledElements' =
                  IF known # {} THEN [profiledElements EXCEPT ![key + 1] = Started(@)]
                  ELSE IF full THEN profiledElements
                  ELSE Append(profiledElements, Started(ProfilerData(name)))
           /\ calls' = <<[name |-> name, key |-> key, since |-> time]>> \o calls
    /\ overwritten' = IF \E i \in DOMAIN calls : calls[i].name = name
                      THEN overwritten \union {name} ELSE overwritten
    /\ UNCHANGED <<time, periodicVars, conditionalVars, durations>>

(* pop(), after the function that was pushed last. *)
pop ==
    /\ calls # <<>>
    /\ LET call == Head(calls)
           dt == (getTimeMicroseconds - profiledElements[call.key + 1].prevPushedTime) % ClockPeriod
       IN  /\ profiledElements' =
                  IF call.key >= Len(profiledElements) THEN profiledElements
                  ELSE [profiledElements EXCEPT ![call.key + 1].max = IF dt > @ THEN dt ELSE @,
                                                ![call.key + 1].min = IF dt < @ THEN dt ELSE @]
           /\ durations' = [durations EXCEPT ![call.name] = @ \union {time - call.since}]
    /\ calls' = Tail(calls)
    /\ UNCHANGED <<time, periodicVars, conditionalVars, overwritten, pushes>>

(* ProfilerData::reset() of the element of a key. *)
resetProfile(key) ==
    /\ key < Len(profiledElements)
    /\ profiledElements' = [profiledElements EXCEPT ![key + 1].min = ClockPeriod - 1,
                                                    ![key + 1].max = 0]
    /\ durations' = [durations EXCEPT ![profiledElements[key + 1].name] = {}]
    /\ UNCHANGED <<time, periodicVars, conditionalVars, calls, overwritten, pushes>>

getData(key) ==
    IF key >= Len(profiledElements) THEN ProfilerData("none") ELSE profiledElements[key + 1]

Profiling ==
    \/ \E name \in Profiles : push(name)
    \/ pop
    \/ \E key \in 0 .. MAX_PROFILED_ELEMENTS - 1 : resetProfile(key)

-----------------------------------------------------------------------------
Periodic == (\E p \in Periods : PeriodicRestart(p)) \/ PeriodicStop \/ PeriodicExecute

Conditional ==
    \/ \E t \in Timeouts : ConditionalRestart(t)
    \/ ConditionalStop
    \/ \E cond \in BOOLEAN : ConditionalExecute(cond)

Next == Tick \/ Periodic \/ Conditional \/ Profiling

Spec == Init /\ [][Next]_vars

-----------------------------------------------------------------------------
(* The number of the period that t lies in, counted from the restart. *)
Interval(t) == (t - start) \div period

(***************************************************************************)
(* periodic_timer.hpp:33-36: the timer keeps "its expire times aligned     *)
(* with the given timeout period".  However late and irregularly execute() *)
(* is called, it returns true in a period if and only if the period is not *)
(* the first one and it has not returned true in it before: no drift, no   *)
(* burst after a long delay.                                               *)
(***************************************************************************)
OncePerPeriod ==
    periodicTimeout.isRunning =>
        (Executes(periodicTimeout) <=> /\ Interval(time) > 0
                                       /\ \A t \in fired : Interval(t) < Interval(time))

(***************************************************************************)
(* conditional_timer.hpp:69-71: execute() returns true if and only if the  *)
(* condition holds and every call of the last `timeout' units of time or   *)
(* more, back to the last restart(), saw it hold; stopped, or never        *)
(* started, it does not.                                                   *)
(***************************************************************************)
HeldLongEnough ==
    \A cond \in BOOLEAN :
        Returned(cond) <=> /\ cond
                           /\ timer.isRunning
                           /\ time - unmet >= timeout

(***************************************************************************)
(* profiler.hpp:73-75: an element keeps the least and the greatest time    *)
(* that the code it is named for took since it was reset, whatever else    *)
(* is profiled around it or in it, names that find no place included, and  *)
(* although the counter wraps.  Only of code that calls itself it does not *)
(* (profiler.hpp:79-92).                                                   *)
(***************************************************************************)
ProfilesTimes ==
    /\ Len(profiledElements) <= MAX_PROFILED_ELEMENTS
    /\ \A key \in 0 .. Len(profiledElements) - 1 :
           LET element == getData(key)
           IN  element.name \notin overwritten =>
                   IF durations[element.name] = {} THEN element.min = ClockPeriod - 1 /\ element.max = 0
                   ELSE /\ {element.min, element.max} \subseteq durations[element.name]
                        /\ durations[element.name] \subseteq element.min .. element.max
    /\ \A name \in Profiles : \A k, l \in KeysOf(name) : k = l
=============================================================================
