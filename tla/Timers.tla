------------------------------- MODULE Timers -------------------------------
(***************************************************************************)
(* The client's four timers (client/timer.c).  Time is counted in coarse   *)
(* units; a timer is described by its age, the time since last_fire, which *)
(* is not told apart beyond the timer's interval.                          *)
(***************************************************************************)
EXTENDS Integers, FiniteSetsExt

CONSTANTS
  Interval,       \* interval[] of each timer
  FirstAction     \* 5000 ms: the first progress report comes earlier

\* timer_event_t, in the order of the enumeration.
TIMER_NONE == 0
TIMER_RETRANSMIT == 1
TIMER_RECONNECT == 2
TIMER_ACTION == 3
TIMER_INCREMENTAL == 4

TimerEvents == 1 .. 4

ASSUME TimersAssumption ==
  /\ Interval \in [TimerEvents -> Nat \ {0}]
  /\ FirstAction \in 1 .. Interval[TIMER_ACTION]

VARIABLE age      \* per timer: now - last_fire, up to its interval

timer_init ==
  [i \in TimerEvents |-> IF i = TIMER_ACTION THEN Interval[i] - FirstAction ELSE 0]

Due(i) == age[i] >= Interval[i]

\* The first timer that is due, in the order of the enumeration.
timer_check ==
  IF \E i \in TimerEvents : Due(i) THEN Min({i \in TimerEvents : Due(i)}) ELSE TIMER_NONE

\* Time t goes by.
Older(t) ==
  [i \in TimerEvents |-> IF age[i] + t < Interval[i] THEN age[i] + t ELSE Interval[i]]

Elapse(t) == age' = Older(t)

\* Mutant: last_fire is set to the time at which the timer was found due.
timer_reset_early(ev, t) ==
  age' = [Older(t) EXCEPT ![ev] = IF t < Interval[ev] THEN t ELSE Interval[ev]]

\* The handler of ev takes time t and timer_reset reads the clock after it.
timer_reset(ev, t) == age' = [Older(t) EXCEPT ![ev] = 0]
=============================================================================
