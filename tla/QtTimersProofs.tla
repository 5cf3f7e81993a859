--------------------------- MODULE QtTimersProofs ---------------------------
(***************************************************************************)
(* Proofs about QtTimers: whatever the contexts, the delays, the clock's   *)
(* bound and the earliness of Qt's timers, the Qt timer is set for the     *)
(* first timer whenever QuTTY waits for events, and expiring a context     *)
(* does what it promises as long as the context is not used again too      *)
(* soon.                                                                   *)
(***************************************************************************)
EXTENDS QtTimers, TLAPS

\* The parts of timing.c and of QtTimer start as an empty set of timers.
LEMMA InitTimers == Init => TimersInv
<1> SUFFICES ASSUME Init PROVE TimersInv
  OBVIOUS
<1>1. clock \in Nat /\ now \in 0..clock /\ due \in Nat
  BY DEF Init
<1>2. gen \in [Ctx -> Nat]
  BY DEF Init
<1>3. timers = {}
  BY DEF Init
<1>4. TypeOK
  BY <1>1, <1>2, Zenon DEF Init, TypeOK
<1>5. WakesInTime /\ ContextsTell
  BY <1>3 DEF WakesInTime, ContextsTell
<1>6. ExpiryIsExact
  BY DEF Init, ExpiryIsExact
<1> QED BY <1>4, <1>5, <1>6 DEF TimersInv

\* Starting the Qt timer for tick t leaves a timer that is due at t or at the
\* next tick.
LEMMA StartSets ==
  ASSUME clock \in Nat, NEW t \in Nat, StartTimerForTick(t)
  PROVE  armed' = TRUE /\ due' \in Nat /\ (due' =< t \/ due' = clock + 1)
  BY DEF StartTimerForTick

\* Every step keeps the types (one case for each operation of timing.c).
LEMMA TypesStep ==
  ASSUME TypeOK, [Next]_vars
  PROVE  TypeOK'
<1> USE TimersAssumption
<1>1. CASE UNCHANGED vars
  BY <1>1 DEF TypeOK, vars, hist, Timer
<1>2. CASE Tick
  BY <1>2 DEF TypeOK, Tick, hist, Timer
<1>3. ASSUME NEW c \in Ctx, NEW d \in Delays, ScheduleTimer(c, d)
      PROVE  TypeOK'
  <2> DEFINE when == IF d = 0 THEN clock + 1 ELSE clock + d
  <2>1. when \in Nat /\ clock \in Nat
    BY DEF TypeOK
  <2>2. armed' \in BOOLEAN /\ due' \in Nat
    <3>1. CASE StartTimerForTick(when)
      BY <3>1, <2>1, StartSets
    <3>2. CASE UNCHANGED <<armed, due>>
      BY <3>2 DEF TypeOK
    <3> QED BY <3>1, <3>2, <1>3 DEF ScheduleTimer
  <2>3. timers' \subseteq Timer
    <3>1. [ctx |-> c, at |-> when, gen |-> gen[c]] \in Timer
      BY <2>1 DEF TypeOK, Timer
    <3> HIDE DEF when
    <3> QED BY <1>3, <3>1 DEF TypeOK, ScheduleTimer, when
  <2>4. now' \in 0..clock' /\ contexts' \subseteq Ctx
    BY <1>3 DEF TypeOK, ScheduleTimer
  <2> QED BY <1>3, <2>2, <2>3, <2>4 DEF TypeOK, ScheduleTimer, hist
<1>4. ASSUME NEW c \in Ctx, ExpireTimerContext(c)
      PROVE  TypeOK'
  BY <1>4 DEF TypeOK, ExpireTimerContext, Timer
<1>5. CASE TimerEvent
  <2>1. now' \in 0..clock'
    BY <1>5 DEF TypeOK, TimerEvent
  <2> QED BY <1>5, <2>1, Zenon DEF TypeOK, TimerEvent, hist
<1>6. CASE NoTimers
  BY <1>6 DEF TypeOK, NoTimers, hist, Timer
<1>7. CASE DropExpired
  <2>1. \A t \in Earliest : t.ctx \in Ctx
    BY DEF TypeOK, Earliest, Timer
  <2>2. wrong' \subseteq Ctx /\ timers' \subseteq Timer
    BY <1>7, <2>1 DEF TypeOK, DropExpired
  <2> QED BY <1>7, <2>2, Zenon DEF TypeOK, DropExpired
<1>8. CASE RunTimer
  <2>1. \A t \in Earliest : t.ctx \in Ctx
    BY DEF TypeOK, Earliest, Timer
  <2>2. wrong' \subseteq Ctx /\ timers' \subseteq Timer
    BY <1>8, <2>1 DEF TypeOK, RunTimer
  <2> QED BY <1>8, <2>2, Zenon DEF TypeOK, RunTimer
<1>9. CASE FnReturns
  BY <1>9 DEF TypeOK, FnReturns, hist, Timer
<1>10. CASE NextTimer
  <2>1. PICK t \in Earliest : StartTimerForTick(t.at)
    BY <1>10 DEF NextTimer
  <2>2. t.at \in Nat /\ clock \in Nat
    BY <2>1 DEF Earliest, TypeOK, Timer
  <2>3. armed' = TRUE /\ due' \in Nat
    BY <2>1, <2>2, StartSets
  <2> QED BY <1>10, <2>3 DEF TypeOK, NextTimer, hist
<1> QED BY <1>1, <1>2, <1>3, <1>4, <1>5, <1>6, <1>7, <1>8, <1>9, <1>10 DEF Next

\* Every step keeps the Qt timer early enough for the timers that are set.
LEMMA WakesStep ==
  ASSUME TypeOK, WakesInTime, [Next]_vars
  PROVE  WakesInTime'
<1> USE TimersAssumption
<1>0. clock \in Nat /\ due \in Nat /\ \A t \in timers : t.at \in Nat
  BY DEF TypeOK, Timer
<1>1. CASE UNCHANGED vars
  BY <1>1 DEF WakesInTime, vars, hist
<1>2. CASE Tick
  BY <1>0, <1>2 DEF WakesInTime, Tick, hist
<1>3. ASSUME NEW c \in Ctx, NEW d \in Delays, ScheduleTimer(c, d)
      PROVE  WakesInTime'
  <2> DEFINE when == IF d = 0 THEN clock + 1 ELSE clock + d
             t == [ctx |-> c, at |-> when, gen |-> gen[c]]
  <2>1. when \in Nat /\ t.at = when
    BY <1>0
  <2> HIDE DEF when
  <2> SUFFICES ASSUME run' = "no", NEW u \in timers'
               PROVE  armed' /\ (due' =< u.at \/ due' =< clock' + 1)
    BY DEF WakesInTime
  <2>2. clock' = clock /\ run = "no"
    BY <1>3 DEF ScheduleTimer
  <2>3. u \in timers \/ u = t
    BY <1>3 DEF ScheduleTimer, when
  <2>4. u.at \in Nat
    BY <1>0, <2>1, <2>3
  <2>5. CASE (\A v \in timers : when =< v.at) /\ StartTimerForTick(when)
    <3>1. when =< u.at
      BY <2>1, <2>3, <2>5
    <3>2. armed' = TRUE /\ due' \in Nat /\ (due' =< when \/ due' = clock + 1)
      BY <1>0, <2>1, <2>5, StartSets
    <3> QED BY <1>0, <2>1, <2>2, <2>4, <3>1, <3>2
  <2>6. CASE (\E v \in timers : v.at =< when) /\ UNCHANGED <<armed, due>>
    <3>1. CASE u \in timers
      BY <3>1, <2>2, <2>6 DEF WakesInTime
    <3>2. CASE u = t
      <4>1. PICK v \in timers : v.at =< when
        BY <2>6
      <4>2. armed /\ (due =< v.at \/ due =< clock + 1) /\ v.at \in Nat
        BY <1>0, <2>2, <4>1 DEF WakesInTime
      <4> QED BY <1>0, <2>1, <2>2, <2>6, <3>2, <4>1, <4>2
    <3> QED BY <2>3, <3>1, <3>2
  <2> QED BY <1>3, <2>5, <2>6 DEF ScheduleTimer, when
<1>4. ASSUME NEW c \in Ctx, ExpireTimerContext(c)
      PROVE  WakesInTime'
  BY <1>4 DEF WakesInTime, ExpireTimerContext
<1>5. CASE TimerEvent
  BY <1>5 DEF WakesInTime, TimerEvent
<1>6. CASE NoTimers
  BY <1>6 DEF WakesInTime, NoTimers
<1>7. CASE DropExpired
  BY <1>7 DEF WakesInTime, DropExpired
<1>8. CASE RunTimer
  BY <1>8 DEF WakesInTime, RunTimer
<1>9. CASE FnReturns
  BY <1>9 DEF WakesInTime, FnReturns
<1>10. CASE NextTimer
  <2>1. PICK t \in Earliest : StartTimerForTick(t.at)
    BY <1>10 DEF NextTimer
  <2>2. t.at \in Nat /\ \A u \in timers : t.at =< u.at
    BY <1>0, <2>1 DEF Earliest
  <2>3. armed' = TRUE /\ due' \in Nat /\ (due' =< t.at \/ due' = clock + 1)
    BY <1>0, <2>1, <2>2, StartSets
  <2>4. timers' = timers /\ clock' = clock
    BY <1>10 DEF NextTimer
  <2> SUFFICES ASSUME NEW u \in timers
               PROVE  due' =< u.at \/ due' =< clock + 1
    BY <2>3, <2>4 DEF WakesInTime
  <2>5. u.at \in Nat /\ t.at =< u.at
    BY <1>0, <2>2
  <2> QED BY <1>0, <2>2, <2>3, <2>5
<1> QED BY <1>1, <1>2, <1>3, <1>4, <1>5, <1>6, <1>7, <1>8, <1>9, <1>10 DEF Next

\* Every step keeps timer_contexts in agreement with the timers, and the timers
\* that run and that are dropped right.
LEMMA ExpiryStep ==
  ASSUME TypeOK, ContextsTell, ExpiryIsExact, [Next]_vars
  PROVE  ContextsTell' /\ ExpiryIsExact'
<1> USE TimersAssumption
<1>0. gen \in [Ctx -> Nat] /\ \A t \in timers : t.ctx \in Ctx /\ t.gen \in Nat
  BY DEF TypeOK, Timer
<1>1. CASE UNCHANGED vars
  BY <1>1 DEF ContextsTell, ExpiryIsExact, vars, hist
<1>2. CASE Tick
  BY <1>2 DEF ContextsTell, ExpiryIsExact, Tick, hist
<1>3. ASSUME NEW c \in Ctx, NEW d \in Delays, ScheduleTimer(c, d)
      PROVE  ContextsTell' /\ ExpiryIsExact'
  <2> DEFINE when == IF d = 0 THEN clock + 1 ELSE clock + d
             t == [ctx |-> c, at |-> when, gen |-> gen[c]]
             same == {u \in timers : u.ctx = c /\ u.at = when}
  <2>1. t.ctx = c /\ t.gen = gen[c]
    OBVIOUS
  <2>2. /\ timers' = (timers \ same) \cup {t}
        /\ contexts' = IF same = {} THEN contexts \cup {c} ELSE contexts
        /\ gen' = gen /\ wrong' = wrong
        /\ reused' = IF Expired(c) = {} THEN reused ELSE reused \cup {c}
    BY <1>3 DEF ScheduleTimer
  <2>3. \A u \in same : u \in timers /\ u.ctx = c
    OBVIOUS
  <2> HIDE DEF t, same
  <2>4. reused \subseteq reused'
    BY <2>2
  <2>5. c \in reused' \/ \A u \in timers : u.ctx = c => u.gen = gen[c]
    BY <2>2 DEF Expired
  <2>6. c \in reused' \/ c \in contexts'
    <3>1. CASE same = {}
      BY <2>2, <3>1
    <3>2. CASE same # {}
      <4>1. PICK u \in same : TRUE
        BY <3>2
      <4> QED BY <2>3, <2>4, <2>5, <4>1, <2>2, <3>2 DEF ContextsTell
    <3> QED BY <3>1, <3>2
  <2>7. ASSUME NEW u \in timers'
        PROVE  /\ u.gen =< gen'[u.ctx]
               /\ u.ctx \in reused' \/ (u.ctx \in contexts' <=> u.gen = gen'[u.ctx])
    <3>1. CASE u = t
      BY <1>0, <2>1, <2>2, <2>6, <3>1
    <3>2. CASE u \in timers /\ u.ctx = c
      BY <2>2, <2>5, <2>6, <3>2 DEF ContextsTell
    <3>3. CASE u \in timers /\ u.ctx # c
      BY <2>2, <2>4, <3>3 DEF ContextsTell
    <3> QED BY <2>2, <2>7, <3>1, <3>2, <3>3
  <2> QED BY <2>2, <2>4, <2>7 DEF ContextsTell, ExpiryIsExact
<1>4. ASSUME NEW c \in Ctx, ExpireTimerContext(c)
      PROVE  ContextsTell' /\ ExpiryIsExact'
  <2>1. /\ timers' = timers /\ contexts' = contexts \ {c}
        /\ reused' = reused /\ wrong' = wrong
        /\ gen' = [gen EXCEPT ![c] = @ + 1]
    BY <1>4 DEF ExpireTimerContext
  <2>2. ASSUME NEW u \in timers
        PROVE  /\ u.gen =< gen'[u.ctx]
               /\ u.ctx \in reused \/ (u.ctx \in contexts' <=> u.gen = gen'[u.ctx])
    <3>1. u.gen =< gen[u.ctx] /\ u.ctx \in Ctx /\ u.gen \in Nat /\ gen[u.ctx] \in Nat
      BY <1>0, <2>2 DEF ContextsTell
    <3>2. CASE u.ctx = c
      <4>1. gen'[u.ctx] = gen[u.ctx] + 1
        BY <1>0, <2>1, <3>2
      <4>2. u.gen =< gen'[u.ctx] /\ u.gen # gen'[u.ctx]
        BY <3>1, <4>1
      <4> QED BY <2>1, <3>2, <4>2
    <3>3. CASE u.ctx # c
      <4>1. gen'[u.ctx] = gen[u.ctx]
        BY <1>0, <2>1, <3>1, <3>3
      <4> QED BY <2>1, <2>2, <3>1, <3>3, <4>1 DEF ContextsTell
    <3> QED BY <3>2, <3>3
  <2> QED BY <2>1, <2>2 DEF ContextsTell, ExpiryIsExact
<1>5. CASE TimerEvent
  BY <1>5 DEF ContextsTell, ExpiryIsExact, TimerEvent, hist
<1>6. CASE NoTimers
  BY <1>6 DEF ContextsTell, ExpiryIsExact, NoTimers, hist
<1>7. CASE DropExpired
  <2>1. PICK t \in Earliest : /\ t.ctx \notin contexts
                             /\ timers' = timers \ {t}
                             /\ wrong' = IF t.gen = gen[t.ctx] THEN wrong \cup {t.ctx} ELSE wrong
    BY <1>7 DEF DropExpired
  <2>2. gen' = gen /\ contexts' = contexts /\ reused' = reused
    BY <1>7 DEF DropExpired
  <2>3. t \in timers
    BY <2>1 DEF Earliest
  <2> QED BY <2>1, <2>2, <2>3 DEF ContextsTell, ExpiryIsExact
<1>8. CASE RunTimer
  <2>1. PICK t \in Earliest : /\ t.ctx \in contexts
                             /\ timers' = timers \ {t}
                             /\ wrong' = IF t.gen # gen[t.ctx] THEN wrong \cup {t.ctx} ELSE wrong
    BY <1>8 DEF RunTimer
  <2>2. gen' = gen /\ contexts' = contexts /\ reused' = reused
    BY <1>8 DEF RunTimer
  <2>3. t \in timers
    BY <2>1 DEF Earliest
  <2> QED BY <2>1, <2>2, <2>3 DEF ContextsTell, ExpiryIsExact
<1>9. CASE FnReturns
  BY <1>9 DEF ContextsTell, ExpiryIsExact, FnReturns, hist
<1>10. CASE NextTimer
  BY <1>10 DEF ContextsTell, ExpiryIsExact, NextTimer, hist
<1> QED BY <1>1, <1>2, <1>3, <1>4, <1>5, <1>6, <1>7, <1>8, <1>9, <1>10 DEF Next

\* Timers keep their types, and the Qt timer wakes QuTTY in time for each.
THEOREM TimersInvariant == Spec => []TimersInv
<1>1. Init => TimersInv
  BY InitTimers
<1>2. TimersInv /\ [Next]_vars => TimersInv'
  BY TypesStep, WakesStep, ExpiryStep DEF TimersInv
<1> QED BY <1>1, <1>2, PTL DEF Spec

\* The variables of timing.c and QtTimer keep their types.
THEOREM TimersTypes == Spec => []TypeOK
<1>1. TimersInv => TypeOK
  BY DEF TimersInv
<1> QED BY <1>1, TimersInvariant, PTL

\* No timer waits for an unrelated event: the Qt timer that schedule_timer and
\* timerEvent start is never later than the first timer that is set.
THEOREM NoTimerStranded == Spec => []WakesInTime
<1>1. TimersInv => WakesInTime
  BY DEF TimersInv
<1> QED BY <1>1, TimersInvariant, PTL

\* expire_timer_context and run_timers: unless a context is used again while
\* expired timers of its remain, expired timers never run and others are never
\* dropped.
THEOREM ExpiryExact == Spec => []ExpiryIsExact
<1>1. TimersInv => ExpiryIsExact
  BY DEF TimersInv
<1> QED BY <1>1, TimersInvariant, PTL
=============================================================================
