------------------------ MODULE CancellationTokenProofs ------------------------
(***************************************************************************)
(* Safety of the cancellation token for any number of signalers, of        *)
(* waiters and of signals, and for any grace.                              *)
(***************************************************************************)
EXTENDS CancellationToken, TLAPS

\* A call edits the record of its own signaler only.
LEMMA GotoCalls ==
    ASSUME call \in [Signalers -> Calls], NEW r \in Signalers,
           NEW place \in {"idle", "time", "cancelling", "force", "notify"},
           Goto(r, place)
    PROVE  /\ call' \in [Signalers -> Calls]
           /\ call'[r].at = place
           /\ \A s \in Signalers \ {r} : call'[s] = call[s]
  <1>1. 0 \in 0..MaxClock
    BY BoundsAssumption
  <1>2. [at |-> place, kind |-> "request", elapsed |-> 0] \in Calls
    BY <1>1 DEF Calls, Kinds
  <1> QED
    BY <1>2 DEF Goto

\* The end of a stop that begins now lies between now and the grace from now, and
\* is the shared deadline unless that is past.
LEMMA GraceEnd ==
    ASSUME TypeOK
    PROVE  /\ clock + RemainingGrace \in clock..(MaxClock + Grace)
           /\ requested # NoRequest =>
                 clock + RemainingGrace <= Larger(clock, requested + Grace)
  BY BoundsAssumption
  DEF TypeOK, RemainingGrace, Larger, NoRequest, FORCED, RUNNING, CANCELLING

-------------------------------------------------------------------------------
LEMMA CallType ==
    ASSUME TypeOK, NEW r \in Signalers, NEW kind \in Kinds, Call(r, kind)
    PROVE  TypeOK'
  <1>1. [at |-> "time", kind |-> kind, elapsed |-> clock] \in Calls
    BY DEF Calls, TypeOK
  <1>2. call' \in [Signalers -> Calls]
    BY <1>1 DEF Call, TypeOK
  <1>3. signals' \in 0..MaxSignals
    BY BoundsAssumption DEF Call, TypeOK
  <1> QED
    BY <1>2, <1>3 DEF Call, TypeOK, waiting, Stopping

LEMMA SignalType ==
    ASSUME TypeOK, NEW r \in Signalers, Signal(r)
    PROVE  TypeOK'
  <1>1. call \in [Signalers -> Calls] /\ call[r].elapsed \in 0..MaxClock
    BY DEF TypeOK, Calls
  <1>2. \E place \in {"idle", "time", "cancelling", "force", "notify"} : Goto(r, place)
    BY DEF Signal, RecordTime, RaisePhase, Notify
  <1>3. call' \in [Signalers -> Calls]
    BY <1>1, <1>2, GotoCalls
  <1>4. UNCHANGED <<clock, signals, stage, at, until>> /\ registered' \subseteq registered
    BY DEF Signal, RecordTime, RaisePhase, Notify, waiting
  <1>5. requested' \in 0..MaxClock \cup {NoRequest}
    BY <1>1 DEF Signal, RecordTime, RaisePhase, Notify, TypeOK
  <1>6. phase' \in {RUNNING, CANCELLING, FORCED}
    BY DEF Signal, RecordTime, RaisePhase, Notify, TypeOK, Larger, RUNNING, CANCELLING,
           FORCED
  <1> QED
    BY <1>3, <1>4, <1>5, <1>6 DEF TypeOK, Stopping

\* The actions of a waiter edit its own places only.
LEMMA EnterType ==
    ASSUME TypeOK, NEW w \in Waiters, NEW next \in Stages,
           NEW end \in 0..(MaxClock + Grace), Enter(w, next, end),
           next \in {"timed_out", "cancelled"} => clock <= end
    PROVE  TypeOK'
  <1>1. /\ stage' \in [Waiters -> Stages] /\ until' \in [Waiters -> 0..(MaxClock + Grace)]
        /\ at' \in [Waiters -> {"check", "create", "recheck", "await"}]
        /\ registered' \subseteq Waiters
    BY DEF Enter, TypeOK
  <1>2. ASSUME NEW v \in Waiters, Stopping(v)' PROVE clock' <= until'[v]
    <2>1. CASE v = w
      BY <1>2, <2>1 DEF Enter, TypeOK, Stopping
    <2>2. CASE v # w
      BY <1>2, <2>2 DEF Enter, TypeOK, Stopping
    <2> QED
      BY <2>1, <2>2
  <1> QED
    BY <1>1, <1>2 DEF Enter, TypeOK

\* What a waiter does with its child, the stop it may begin and its end.
LEMMA ChildSteps ==
    ASSUME TypeOK, NEW w \in Waiters,
           Observe(w) \/ Answer(w) \/ TimeOut(w) \/ Exit(w) \/ GraceOver(w)
    PROVE  \/ End(w)
           \/ StartStop(w, "timed_out")
           \/ StartStop(w, "cancelled") /\ phase >= CANCELLING
  BY DEF Observe, Answer, TimeOut, Exit, GraceOver, Expected

LEMMA ChildType ==
    ASSUME TypeOK, NEW w \in Waiters,
           End(w) \/ StartStop(w, "timed_out") \/ StartStop(w, "cancelled")
    PROVE  TypeOK'
  <1>1. CASE End(w)
    <2>1. 0 \in 0..(MaxClock + Grace)
      BY BoundsAssumption
    <2> QED
      BY <1>1, <2>1, EnterType DEF End, Stages
  <1>2. ASSUME NEW kind \in {"timed_out", "cancelled"}, StartStop(w, kind)
        PROVE  TypeOK'
    <2> DEFINE end == clock + RemainingGrace
    <2>1. end \in clock..(MaxClock + Grace) /\ clock \in Nat
      BY GraceEnd DEF TypeOK
    <2>2. end \in 0..(MaxClock + Grace) /\ clock <= end
      BY <2>1, BoundsAssumption
    <2>3. Enter(w, kind, end)
      BY <1>2 DEF StartStop
    <2> HIDE DEF end
    <2> QED
      BY <2>2, <2>3, EnterType DEF Stages
  <1> QED
    BY <1>1, <1>2

\* Where a waiter stands in wait_for and whether it is registered.
WaitSteps(w) == Check(w) \/ Register(w) \/ Recheck(w) \/ Woken(w)

LEMMA WaitType ==
    ASSUME TypeOK, NEW w \in Waiters, WaitSteps(w)
    PROVE  TypeOK'
  <1>1. /\ at' \in [Waiters -> {"check", "create", "recheck", "await"}]
        /\ registered' \subseteq Waiters
        /\ UNCHANGED <<requested, phase, clock, signals, call, stage, until>>
    BY DEF WaitSteps, Check, Register, Recheck, Woken, Step, TypeOK
  <1> QED
    BY <1>1 DEF TypeOK, Stopping

LEMMA TickType == ASSUME TypeOK, Tick PROVE TypeOK'
  <1>1. clock' \in 0..MaxClock
    BY BoundsAssumption DEF Tick, TypeOK
  <1>2. ASSUME NEW w \in Waiters, Stopping(w)' PROVE clock' <= until'[w]
    <2>1. Stopping(w) /\ clock \in Int /\ until[w] \in Int
      BY <1>2, BoundsAssumption DEF Tick, TypeOK, waiting, Stopping
    <2> QED
      BY <2>1 DEF Tick, waiting
  <1> QED
    BY <1>1, <1>2 DEF Tick, TypeOK, waiting

\* For every number of threads, tasks and signals and every grace: the types hold
\* and no child is ever granted a negative time.
THEOREM TokenType == Spec => []TypeOK
  <1>1. Init => TypeOK
    <2>1. 0 \in 0..MaxClock /\ 0 \in 0..MaxSignals /\ 0 \in 0..(MaxClock + Grace)
      BY BoundsAssumption
    <2>2. [at |-> "idle", kind |-> "request", elapsed |-> 0] \in Calls
      BY <2>1 DEF Calls, Kinds
    <2> QED
      BY <2>1, <2>2 DEF Init, TypeOK, Stages, Stopping
  <1>2. TypeOK /\ [Next]_vars => TypeOK'
    <2> SUFFICES ASSUME TypeOK, [Next]_vars PROVE TypeOK'
      OBVIOUS
    <2>1. CASE UNCHANGED vars
      BY <2>1 DEF vars, waiting, TypeOK, Stopping
    <2>2. ASSUME NEW r \in Signalers, NEW kind \in Kinds, Call(r, kind) PROVE TypeOK'
      BY <2>2, CallType
    <2>3. ASSUME NEW r \in Signalers, Signal(r) PROVE TypeOK'
      BY <2>3, SignalType
    <2>4. ASSUME NEW w \in Waiters,
                 Observe(w) \/ Answer(w) \/ TimeOut(w) \/ Exit(w) \/ GraceOver(w)
          PROVE  TypeOK'
      BY <2>4, ChildSteps, ChildType
    <2>5. ASSUME NEW w \in Waiters, WaitSteps(w) PROVE TypeOK'
      BY <2>5, WaitType
    <2>6. CASE Tick
      BY <2>6, TickType
    <2> QED
      BY <2>1, <2>2, <2>3, <2>4, <2>5, <2>6 DEF Next, Wait, WaitSteps
  <1> QED
    BY <1>1, <1>2, PTL DEF Spec

-------------------------------------------------------------------------------
\* What a call and a signaler's step do, and that no other step writes the token.
LEMMA CallSteps ==
    ASSUME TypeOK, NEW r \in Signalers, NEW kind \in Kinds, Call(r, kind)
    PROVE  /\ call[r].at = "idle" /\ call'[r].at = "time"
           /\ \A s \in Signalers \ {r} : call'[s] = call[s]
           /\ signals' = signals + 1
           /\ UNCHANGED <<requested, phase, registered, clock, stage, at, until>>
  BY DEF Call, TypeOK, waiting

LEMMA SignalSteps ==
    ASSUME TypeOK, NEW r \in Signalers, Signal(r)
    PROVE  /\ \A s \in Signalers \ {r} : call'[s] = call[s]
           /\ UNCHANGED <<clock, signals, stage, at, until>>
           /\ phase' >= phase
           /\ \/ /\ call[r].at = "time" /\ requested' # NoRequest
                 /\ requested # NoRequest => requested' = requested
                 /\ UNCHANGED <<phase, registered>>
                 /\ \/ requested = NoRequest /\ call'[r].at = "cancelling"
                    \/ requested # NoRequest /\ call'[r].at \in {"force", "notify"}
              \/ /\ call[r].at \in {"cancelling", "force"} /\ call'[r].at = "notify"
                 /\ UNCHANGED <<requested, registered>>
                 /\ phase' = FORCED => phase = FORCED \/ call[r].at = "force"
              \/ /\ call[r].at = "notify" /\ call'[r].at = "idle"
                 /\ UNCHANGED <<requested, phase>> /\ registered' = {}
  <1>1. call \in [Signalers -> Calls] /\ phase \in {0, 1, 2}
    BY DEF TypeOK, RUNNING, CANCELLING, FORCED
  <1>2. CASE RecordTime(r)
    <2>1. call[r].elapsed # NoRequest
      BY <1>1, BoundsAssumption DEF Calls, NoRequest
    <2> QED
      BY <1>1, <1>2, <2>1, GotoCalls DEF RecordTime, waiting
  <1>3. CASE RaisePhase(r, "cancelling", CANCELLING)
    BY <1>1, <1>3, GotoCalls DEF RaisePhase, waiting, Larger, CANCELLING, FORCED
  <1>4. CASE RaisePhase(r, "force", FORCED)
    BY <1>1, <1>4, GotoCalls DEF RaisePhase, waiting, Larger, FORCED
  <1>5. CASE Notify(r)
    BY <1>1, <1>5, GotoCalls DEF Notify, waiting
  <1> QED
    BY <1>2, <1>3, <1>4, <1>5 DEF Signal

\* The token proper, which waiters and time leave alone.
token == <<requested, phase, signals, call>>

LEMMA OtherSteps ==
    ASSUME TypeOK, Next
    PROVE  \/ \E r \in Signalers, kind \in Kinds : Call(r, kind)
           \/ \E r \in Signalers : Signal(r)
           \/ UNCHANGED token
  BY DEF Next, Wait, Observe, Check, Register, Recheck, Woken, Step, Answer, TimeOut,
         Exit, GraceOver, StartStop, End, Enter, Tick, token

-------------------------------------------------------------------------------
\* Whoever raises the phase has seen the time recorded.
Recorded ==
    /\ DeadlineReadable
    /\ \A r \in Signalers :
          call[r].at \in {"cancelling", "force"} => requested # NoRequest

LEMMA RecordedStep == TypeOK /\ Recorded /\ Next => Recorded'
  <1> SUFFICES ASSUME TypeOK, Recorded, Next PROVE Recorded'
    OBVIOUS
  <1>1. ASSUME NEW r \in Signalers, NEW kind \in Kinds, Call(r, kind) PROVE Recorded'
    BY <1>1, CallSteps DEF Recorded, DeadlineReadable
  <1>2. ASSUME NEW r \in Signalers, Signal(r) PROVE Recorded'
    BY <1>2, SignalSteps DEF Recorded, DeadlineReadable
  <1>3. CASE UNCHANGED token
    BY <1>3 DEF token, Recorded, DeadlineReadable
  <1> QED
    BY <1>1, <1>2, <1>3, OtherSteps

LEMMA AlwaysRecorded == Spec => []Recorded
  <1>1. Init => Recorded
    BY DEF Init, Recorded, DeadlineReadable, RUNNING, CANCELLING
  <1>2. TypeOK /\ Recorded /\ [Next]_vars => Recorded'
    <2>1. Recorded /\ UNCHANGED vars => Recorded'
      BY DEF vars, Recorded, DeadlineReadable
    <2> QED
      BY <2>1, RecordedStep
  <1> QED
    BY <1>1, <1>2, TokenType, PTL DEF Spec

\* For every number of threads: a task that sees the cancellation finds its
\* deadline, although time and phase are two atomics.
THEOREM DeadlineAvailable == Spec => []DeadlineReadable
  <1>1. Recorded => DeadlineReadable
    BY DEF Recorded
  <1> QED
    BY <1>1, AlwaysRecorded, PTL

-------------------------------------------------------------------------------
\* How many calls it takes to get where a signaler or the phase is.
Counted ==
    /\ requested # NoRequest => signals >= 1
    /\ phase = FORCED => signals >= 2
    /\ \A r \in Signalers :
          /\ call[r].at = "time" => signals >= (IF requested = NoRequest THEN 1 ELSE 2)
          /\ call[r].at = "force" => signals >= 2
    /\ \A r, s \in Signalers :
          r # s /\ call[r].at = "time" /\ call[s].at = "time" => signals >= 2

LEMMA CountedStep == TypeOK /\ Counted /\ Next => Counted'
  <1> SUFFICES ASSUME TypeOK, Counted, Next PROVE Counted'
    OBVIOUS
  <1>1. signals \in Nat
    BY DEF TypeOK
  <1>2. ASSUME NEW r \in Signalers, NEW kind \in Kinds, Call(r, kind) PROVE Counted'
    BY <1>1, <1>2, CallSteps DEF Counted
  <1>3. ASSUME NEW r \in Signalers, Signal(r) PROVE Counted'
    BY <1>1, <1>3, SignalSteps DEF Counted
  <1>4. CASE UNCHANGED token
    BY <1>4 DEF token, Counted
  <1> QED
    BY <1>2, <1>3, <1>4, OtherSteps

\* For every number of threads and of concurrent calls: one signal never forces,
\* whoever wins the exchange of the request time.
THEOREM OneSignalNeverForces == Spec => []ForcedTakesTwo
  <1>1. Init => Counted
    BY DEF Init, Counted, RUNNING, FORCED
  <1>2. TypeOK /\ Counted /\ [Next]_vars => Counted'
    <2>1. Counted /\ UNCHANGED vars => Counted'
      BY DEF vars, Counted
    <2> QED
      BY <2>1, CountedStep
  <1>3. Counted => ForcedTakesTwo
    BY DEF Counted, ForcedTakesTwo
  <1> QED
    BY <1>1, <1>2, <1>3, TokenType, PTL DEF Spec

\* For every number of threads: neither the deadline nor the phase is taken back.
THEOREM TokenMonotone == Spec => Monotone
  <1>1. TypeOK /\ [Next]_vars => /\ phase' >= phase
                                 /\ requested # NoRequest => requested' = requested
    <2> SUFFICES ASSUME TypeOK, [Next]_vars
                 PROVE  /\ phase' >= phase
                        /\ requested # NoRequest => requested' = requested
      OBVIOUS
    <2>1. phase \in Nat
      BY DEF TypeOK, RUNNING, CANCELLING, FORCED
    <2>2. CASE UNCHANGED token \/ UNCHANGED vars
      BY <2>1, <2>2 DEF token, vars
    <2>3. ASSUME NEW r \in Signalers, NEW kind \in Kinds, Call(r, kind)
          PROVE  UNCHANGED <<phase, requested>>
      BY <2>3 DEF Call
    <2>4. ASSUME NEW r \in Signalers, Signal(r)
          PROVE  /\ phase' >= phase
                 /\ requested # NoRequest => requested' = requested
      BY <2>4, SignalSteps
    <2> QED
      BY <2>1, <2>2, <2>3, <2>4, OtherSteps
  <1> QED
    BY <1>1, TokenType, PTL DEF Spec, Monotone

-------------------------------------------------------------------------------
\* A waiter whose future exists fell asleep before its phase came; whoever raises
\* the phase has the notification still to send.
LEMMA WakeupStep == TypeOK /\ NoLostWakeup /\ Next => NoLostWakeup'
  <1> SUFFICES ASSUME TypeOK, NoLostWakeup, Next PROVE NoLostWakeup'
    OBVIOUS
  <1>1. ASSUME NEW r \in Signalers, NEW kind \in Kinds, Call(r, kind)
        PROVE  NoLostWakeup'
    <2>1. \A s \in Signalers : call[s].at = "notify" => call'[s].at = "notify"
      BY <1>1, CallSteps
    <2> QED
      BY <1>1, <2>1, CallSteps DEF NoLostWakeup, Expected
  <1>2. ASSUME NEW r \in Signalers, Signal(r) PROVE NoLostWakeup'
    <2>1. CASE registered' = {}
      BY <2>1 DEF NoLostWakeup
    <2>2. CASE call'[r].at = "notify"
      BY <2>2 DEF NoLostWakeup
    <2>3. CASE /\ call[r].at = "time" /\ UNCHANGED <<phase, registered>>
      <3>1. \A s \in Signalers : call[s].at = "notify" => call'[s].at = "notify"
        BY <1>2, <2>3, SignalSteps
      <3> QED
        BY <1>2, <2>3, <3>1, SignalSteps DEF NoLostWakeup, Expected
    <2> QED
      BY <1>2, <2>1, <2>2, <2>3, SignalSteps
  <1>3. ASSUME NEW w \in Waiters,
               Observe(w) \/ Answer(w) \/ TimeOut(w) \/ Exit(w) \/ GraceOver(w)
        PROVE  NoLostWakeup'
    <2>1. /\ registered' = registered \ {w} /\ UNCHANGED <<phase, call>>
          /\ \A v \in Waiters \ {w} : at'[v] = at[v] /\ stage'[v] = stage[v]
      BY <1>3, ChildSteps DEF End, StartStop, Enter, TypeOK
    <2>2. registered \subseteq Waiters
      BY DEF TypeOK
    <2> QED
      BY <2>1, <2>2 DEF NoLostWakeup, Expected
  <1>4. ASSUME NEW w \in Waiters, WaitSteps(w) PROVE NoLostWakeup'
    <2>1. /\ UNCHANGED <<phase, call, stage>>
          /\ registered' \subseteq registered \cup {w}
          /\ \A v \in Waiters \ {w} : at'[v] = at[v]
          /\ at'[w] = "await" => phase < Expected(w)
      BY <1>4 DEF WaitSteps, Check, Register, Recheck, Woken, Step, TypeOK
    <2>2. /\ registered \subseteq Waiters
          /\ phase \in Int /\ \A v \in Waiters : Expected(v) \in Int
      BY DEF TypeOK, Expected, RUNNING, CANCELLING, FORCED
    <2>3. ASSUME NEW v \in registered', at'[v] = "await", phase' >= Expected(v)'
          PROVE  v # w /\ v \in registered /\ at[v] = "await" /\ phase >= Expected(v)
      <3>1. phase >= Expected(v)
        BY <2>1, <2>3 DEF Expected
      <3>2. v # w
        BY <2>1, <2>2, <2>3, <3>1
      <3> QED
        BY <2>1, <2>2, <2>3, <3>1, <3>2
    <2> QED
      BY <2>1, <2>3 DEF NoLostWakeup
  <1>5. ASSUME Tick PROVE NoLostWakeup'
    BY <1>5 DEF Tick, waiting, NoLostWakeup, Expected
  <1> QED
    BY <1>1, <1>2, <1>3, <1>4, <1>5 DEF Next, Wait, WaitSteps

\* For every number of threads and tasks: no task sleeps through its phase.
THEOREM NobodySleepsThrough == Spec => []NoLostWakeup
  <1>1. Init => NoLostWakeup
    BY DEF Init, NoLostWakeup
  <1>2. TypeOK /\ NoLostWakeup /\ [Next]_vars => NoLostWakeup'
    <2>1. NoLostWakeup /\ UNCHANGED vars => NoLostWakeup'
      BY DEF vars, waiting, NoLostWakeup, Expected
    <2> QED
      BY <2>1, WakeupStep
  <1> QED
    BY <1>1, <1>2, TokenType, PTL DEF Spec

-------------------------------------------------------------------------------
\* A child stopped on cancellation was stopped after the time was recorded, and
\* what was recorded does not move.
DeadlineKept ==
    /\ SharedDeadline
    /\ \A w \in Waiters : stage[w] = "cancelled" => phase >= CANCELLING

LEMMA DeadlineStep == TypeOK /\ Recorded /\ DeadlineKept /\ Next => DeadlineKept'
  <1> SUFFICES ASSUME TypeOK, Recorded, DeadlineKept, Next PROVE DeadlineKept'
    OBVIOUS
  <1>1. ASSUME NEW r \in Signalers, NEW kind \in Kinds, Call(r, kind)
        PROVE  DeadlineKept'
    BY <1>1, CallSteps DEF DeadlineKept, SharedDeadline
  <1>2. ASSUME NEW r \in Signalers, Signal(r) PROVE DeadlineKept'
    <2>1. /\ UNCHANGED <<clock, stage, until>> /\ phase' >= phase
          /\ requested # NoRequest => requested' = requested
      BY <1>2, SignalSteps
    <2>2. phase \in Int /\ phase' \in Int
      BY <1>2, SignalType DEF TypeOK, RUNNING, CANCELLING, FORCED
    <2>3. ASSUME NEW w \in Waiters, stage[w] = "cancelled"
          PROVE  phase' >= CANCELLING /\ requested' = requested
      BY <2>1, <2>2, <2>3 DEF DeadlineKept, Recorded, DeadlineReadable, CANCELLING
    <2> QED
      BY <2>1, <2>3 DEF DeadlineKept, SharedDeadline
  <1>3. ASSUME NEW w \in Waiters,
               \/ End(w)
               \/ StartStop(w, "timed_out")
               \/ StartStop(w, "cancelled") /\ phase >= CANCELLING
        PROVE  DeadlineKept'
    <2>1. /\ UNCHANGED <<requested, phase, clock>>
          /\ \A v \in Waiters \ {w} : stage'[v] = stage[v] /\ until'[v] = until[v]
          /\ stage'[w] = "cancelled" =>
                phase >= CANCELLING /\ until'[w] = clock + RemainingGrace
      BY <1>3 DEF End, StartStop, Enter, TypeOK
    <2>2. stage'[w] = "cancelled" => until'[w] <= Larger(clock, requested + Grace)
      BY <2>1, GraceEnd DEF Recorded, DeadlineReadable
    <2> QED
      BY <2>1, <2>2 DEF DeadlineKept, SharedDeadline
  <1>4. ASSUME NEW w \in Waiters, WaitSteps(w) PROVE DeadlineKept'
    BY <1>4 DEF WaitSteps, Check, Register, Recheck, Woken, Step, DeadlineKept,
                SharedDeadline
  <1>5. ASSUME Tick PROVE DeadlineKept'
    <2>1. /\ clock \in Int /\ requested \in Int /\ Grace \in Int
          /\ \A w \in Waiters : until[w] \in Int
      BY BoundsAssumption DEF TypeOK, NoRequest
    <2>2. UNCHANGED <<requested, phase, stage, until>> /\ clock' = clock + 1
      BY <1>5 DEF Tick, waiting
    <2>3. Larger(clock, requested + Grace) <= Larger(clock + 1, requested + Grace)
      BY <2>1 DEF Larger
    <2>4. Larger(clock, requested + Grace) \in Int
          /\ Larger(clock + 1, requested + Grace) \in Int
      BY <2>1 DEF Larger
    <2>5. ASSUME NEW w \in Waiters, stage[w] = "cancelled"
          PROVE  until[w] <= Larger(clock + 1, requested + Grace)
      <3>1. until[w] <= Larger(clock, requested + Grace)
        BY <2>5 DEF DeadlineKept, SharedDeadline
      <3> QED
        BY <2>1, <2>3, <2>4, <3>1
    <2> QED
      BY <2>2, <2>5 DEF DeadlineKept, SharedDeadline
  <1>6. ASSUME NEW w \in Waiters,
               Observe(w) \/ Answer(w) \/ TimeOut(w) \/ Exit(w) \/ GraceOver(w)
        PROVE  DeadlineKept'
    BY <1>3, <1>6, ChildSteps
  <1>7. ASSUME NEW w \in Waiters, Wait(w) PROVE DeadlineKept'
    BY <1>4, <1>6, <1>7 DEF Wait, WaitSteps
  <1> QED
    BY <1>1, <1>2, <1>5, <1>6, <1>7 DEF Next

\* For every number of signals and children: what a child is granted never goes
\* beyond the grace that began with the first signal.
THEOREM GraceIsShared == Spec => []SharedDeadline
  <1>1. Init => DeadlineKept
    BY DEF Init, DeadlineKept, SharedDeadline
  <1>2. TypeOK /\ Recorded /\ DeadlineKept /\ [Next]_vars => DeadlineKept'
    <2>1. DeadlineKept /\ UNCHANGED vars => DeadlineKept'
      BY DEF vars, waiting, DeadlineKept, SharedDeadline
    <2> QED
      BY <2>1, DeadlineStep
  <1>3. DeadlineKept => SharedDeadline
    BY DEF DeadlineKept
  <1> QED
    BY <1>1, <1>2, <1>3, TokenType, AlwaysRecorded, PTL DEF Spec
=============================================================================
