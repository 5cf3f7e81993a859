------------------------------ MODULE QtTimers ------------------------------
(***************************************************************************)
(* PuTTY's timers (puttysrc/timing.c) on QuTTY's single Qt timer           *)
(* (QtTimer.hpp, timer_change_notify in QtCommon.cpp).                     *)
(*                                                                         *)
(* The clock moves at any time.  run_timers is a step for each turn of its *)
(* loop; the functions it calls may set and expire timers.  Every context  *)
(* has one timer function.  The clock does not wrap here.                  *)
(***************************************************************************)
EXTENDS Naturals

CONSTANTS Ctx,      \* the contexts timers are set for
          MaxTime,  \* bound: the last tick of the clock
          MaxExpired, \* bound: how often a context is expired
          Delays,   \* the ticks a timer may be asked for, zero included
          Early     \* Qt's coarse timers may fire this many ticks too soon

ASSUME TimersAssumption ==
  /\ MaxTime \in Nat /\ MaxExpired \in Nat /\ Early \in Nat
  /\ Delays \subseteq Nat

VARIABLES
  clock,      \* GETTICKCOUNT()
  now,        \* timing.c: the last value of it that was stored
  timers,     \* timing.c: the timers that are set
  contexts,   \* timing.c: timer_contexts
  armed,      \* the Qt timer is started
  due,        \* the tick it was started for
  run,        \* run_timers: not running, in its "loop", or in a timer's "fn"
  gen,        \* history: how often each context was expired
  reused,     \* history: contexts used again while timers of theirs were expired
  wrong       \* history: contexts with a timer run after it was expired, or dropped
              \* without having been

hist == <<gen, reused, wrong>>
vars == <<clock, now, timers, contexts, armed, due, run, hist>>

Timer == [ctx : Ctx, at : Nat, gen : Nat]

Init ==
  /\ clock = 0 /\ now = 0
  /\ timers = {} /\ contexts = {}
  /\ armed = FALSE /\ due = 0
  /\ run = "no"
  /\ gen = [c \in Ctx |-> 0]
  /\ reused = {} /\ wrong = {}

Tick ==
  /\ clock < MaxTime
  /\ clock' = clock + 1
  /\ UNCHANGED <<now, timers, contexts, armed, due, run, hist>>

\* startTimerForTick: a timer that is started already is replaced.
StartTimerForTick(t) ==
  /\ armed' = TRUE
  /\ due' = IF t > clock THEN t ELSE clock + 1

\* The timers of context c that were set before it was last expired.
Expired(c) == {u \in timers : u.ctx = c /\ u.gen # gen[c]}

\* The timers at the head of the tree; contexts break the tie.
Earliest == {t \in timers : \A u \in timers : t.at =< u.at}

\* Mutant: the front end is told only when no timer was set.
ScheduleTimerQuiet(c, ticks) ==
  LET when == IF ticks = 0 THEN clock + 1 ELSE clock + ticks IN
  /\ run \in {"no", "fn"} /\ when < MaxTime
  /\ now' = clock
  /\ timers' = timers \cup {[ctx |-> c, at |-> when, gen |-> gen[c]]}
  /\ contexts' = contexts \cup {c}
  /\ IF timers = {} THEN StartTimerForTick(when) ELSE UNCHANGED <<armed, due>>
  /\ UNCHANGED <<clock, run, hist>>

\* schedule_timer, from any handler or from a timer's function.  A timer equal
\* to one that is set already is not set twice, and its context not added again;
\* only the history tells it from the old one.  The front end is told if the new
\* timer is the first; of two due at the same tick either may come first.
ScheduleTimer(c, ticks) ==
  LET when == IF ticks = 0 THEN clock + 1 ELSE clock + ticks
      same == {u \in timers : u.ctx = c /\ u.at = when}
  IN
  /\ run \in {"no", "fn"} /\ when < MaxTime
  /\ now' = clock
  /\ timers' = (timers \ same) \cup {[ctx |-> c, at |-> when, gen |-> gen[c]]}
  /\ contexts' = IF same = {} THEN contexts \cup {c} ELSE contexts
  /\ \/ same = {} /\ (\A u \in timers : when =< u.at) /\ StartTimerForTick(when)
     \/ (\E u \in timers : u.at =< when) /\ UNCHANGED <<armed, due>>
  /\ reused' = IF Expired(c) = {} THEN reused ELSE reused \cup {c}
  /\ UNCHANGED <<clock, run, gen, wrong>>

\* Mutant: the context stays.
ExpireTimerContextKeeps(c) ==
  /\ run \in {"no", "fn"}
  /\ gen[c] < MaxExpired
  /\ gen' = [gen EXCEPT ![c] = @ + 1]
  /\ UNCHANGED <<clock, now, timers, contexts, armed, due, run, reused, wrong>>

\* expire_timer_context: only the context is forgotten.
ExpireTimerContext(c) ==
  /\ run \in {"no", "fn"}
  /\ gen[c] < MaxExpired
  /\ contexts' = contexts \ {c}
  /\ gen' = [gen EXCEPT ![c] = @ + 1]
  /\ UNCHANGED <<clock, now, timers, armed, due, run, reused, wrong>>

\* timerEvent: the Qt timer has run out and is stopped; run_timers begins.
TimerEvent ==
  /\ run = "no" /\ armed
  /\ clock + Early >= due
  /\ armed' = FALSE
  /\ run' = "loop"
  /\ now' = clock
  /\ UNCHANGED <<clock, timers, contexts, due, hist>>

-----------------------------------------------------------------------------
(* A turn of the loop of run_timers.                                       *)

NoTimers ==
  /\ run = "loop" /\ timers = {}
  /\ run' = "no"
  /\ UNCHANGED <<clock, now, timers, contexts, armed, due, hist>>

DropExpired ==
  /\ run = "loop"
  /\ \E t \in Earliest :
       /\ t.ctx \notin contexts
       /\ timers' = timers \ {t}
       /\ wrong' = IF t.gen = gen[t.ctx] THEN wrong \cup {t.ctx} ELSE wrong
  /\ UNCHANGED <<clock, now, contexts, armed, due, run, gen, reused>>

RunTimer ==
  /\ run = "loop"
  /\ \E t \in Earliest :
       /\ t.ctx \in contexts
       /\ now > t.at
       /\ timers' = timers \ {t}
       /\ wrong' = IF t.gen # gen[t.ctx] THEN wrong \cup {t.ctx} ELSE wrong
  /\ run' = "fn"
  /\ UNCHANGED <<clock, now, contexts, armed, due, gen, reused>>

FnReturns ==
  /\ run = "fn"
  /\ run' = "loop"
  /\ UNCHANGED <<clock, now, timers, contexts, armed, due, hist>>

\* Mutant: timerEvent does not start the timer again.
NextTimerForgotten ==
  /\ run = "loop"
  /\ \E t \in Earliest : t.ctx \in contexts /\ ~(now > t.at)
  /\ run' = "no"
  /\ UNCHANGED <<clock, now, timers, contexts, armed, due, hist>>

\* The first timer is still to come: run_timers returns its time, for which
\* timerEvent starts the Qt timer.
NextTimer ==
  /\ run = "loop"
  /\ \E t \in Earliest :
       /\ t.ctx \in contexts
       /\ ~(now > t.at)
       /\ StartTimerForTick(t.at)
  /\ run' = "no"
  /\ UNCHANGED <<clock, now, timers, contexts, hist>>

-----------------------------------------------------------------------------
Next ==
  \/ Tick
  \/ \E c \in Ctx, d \in Delays : ScheduleTimer(c, d)
  \/ \E c \in Ctx : ExpireTimerContext(c)
  \/ TimerEvent
  \/ NoTimers \/ DropExpired \/ RunTimer \/ FnReturns \/ NextTimer

\* Time passes, Qt delivers a timer that has run out, and functions return.
Fairness ==
  /\ WF_vars(Tick) /\ WF_vars(TimerEvent)
  /\ WF_vars(NoTimers \/ DropExpired \/ RunTimer \/ FnReturns \/ NextTimer)

Spec == Init /\ [][Next]_vars /\ Fairness

-----------------------------------------------------------------------------
TypeOK ==
  /\ clock \in Nat /\ now \in 0..clock
  /\ timers \subseteq Timer /\ contexts \subseteq Ctx
  /\ armed \in BOOLEAN /\ due \in Nat
  /\ run \in {"no", "loop", "fn"}
  /\ gen \in [Ctx -> Nat] /\ reused \subseteq Ctx /\ wrong \subseteq Ctx

\* Between events there is a Qt timer for the timers that are set, and it is not
\* later than the first of them, but for a tick when that one is overdue:
\* whatever the functions run by run_timers set and expire, and whenever the Qt
\* timer fires too soon, no timer is left waiting for an unrelated event.
WakesInTime ==
  run = "no" => \A t \in timers : armed /\ (due =< t.at \/ due =< clock + 1)

\* Every timer that is set is run or, if its context was expired, dropped.
EveryTimerEnds == \A c \in Ctx : (\E t \in timers : t.ctx = c) ~> (\A t \in timers : t.ctx # c)

\* "Call to expire all timers associated with a given context": no timer runs
\* that was set before its context was expired, and none set later is dropped.
\* This holds until a context is used again while expired timers of its are still
\* in the tree: expire_timer_context leaves them there, and schedule_timer brings
\* them back to life, or takes a new timer for one of them.
ExpiryIsExact == wrong \subseteq reused
-----------------------------------------------------------------------------
(* The inductive invariant behind ExpiryIsExact.                           *)

\* A timer's context is in timer_contexts exactly while the timer is not expired.
ContextsTell ==
  \A t \in timers :
    /\ t.gen =< gen[t.ctx]
    /\ t.ctx \in reused \/ (t.ctx \in contexts <=> t.gen = gen[t.ctx])

TimersInv == TypeOK /\ WakesInTime /\ ContextsTell /\ ExpiryIsExact
=============================================================================
