--------------------------- MODULE CancellationToken ---------------------------
(***************************************************************************)
(* The command-wide cancellation token of dv (cancellation.rs) and the     *)
(* child processes it stops.  Signalers are the threads that report a      *)
(* signal, the Ctrl+C handler in the first place; they write two atomics,  *)
(* the request time and the phase, and then notify the waiters.  A waiter  *)
(* owns a credential-provider child: it waits for an answer or for the     *)
(* cancellation (next_message), then stops the child within the grace that *)
(* is left, or at once when forced (cancel_and_stop).                      *)
(*                                                                         *)
(* A step is one access to a shared atomic or to the notification.  The    *)
(* accesses are release/acquire and each thread writes the time before the *)
(* phase, so a sequentially consistent memory has the same outcomes.       *)
(* Timers are exact: time does not pass an armed one.                      *)
(***************************************************************************)
EXTENDS Integers

CONSTANTS
    Signalers,      \* threads that call request or cancel
    Waiters,        \* tasks that own a child
    Grace,          \* CHILD_GRACE
    MaxSignals,     \* bound on the calls explored
    MaxClock        \* bound on the time explored

ASSUME BoundsAssumption == Grace \in Nat /\ MaxSignals \in Nat /\ MaxClock \in Nat

RUNNING == 0
CANCELLING == 1
FORCED == 2
NoRequest == -1     \* NO_REQUEST

VARIABLES
    requested,      \* requested_elapsed_us, or NoRequest
    phase,          \* phase
    registered,     \* waiters whose Notified future exists and is not yet woken
    clock,          \* the time since the epoch
    signals,        \* the number of calls made so far
    call,           \* per signaler: the call in progress
    stage,          \* per waiter: what it does with its child
    at,             \* per waiter: its place in wait_for
    until           \* per waiter: when the grace of its child ends, 0 if it has none

vars == <<requested, phase, registered, clock, signals, call, stage, at, until>>
waiting == <<stage, at, until>>

Kinds == {"request", "cancel"}
Calls == [at : {"idle", "time", "cancelling", "force", "notify"},
          kind : Kinds, elapsed : 0..MaxClock]

\* exchange: waits for the provider's answer.  timed_out and cancelled: stops the
\* child after the one or the other.  ended: answered, exited or killed.
Stages == {"exchange", "timed_out", "cancelled", "ended"}
Stopping(w) == stage[w] \in {"timed_out", "cancelled"}

\* The phase the waiter waits for: cancelled() while it waits for the answer,
\* forced() while it stops the child.
Expected(w) == IF stage[w] = "exchange" THEN CANCELLING ELSE FORCED

Larger(a, b) == IF a > b THEN a ELSE b

-------------------------------------------------------------------------------
(* Signalers.                                                              *)

\* Mutant: the phase is raised before the time is recorded.
Call_PhaseFirst(r, kind) ==
    /\ call[r].at = "idle" /\ signals < MaxSignals
    /\ signals' = signals + 1
    /\ phase' = Larger(phase, CANCELLING)
    /\ call' = [call EXCEPT ![r] = [at |-> "time", kind |-> kind, elapsed |-> clock]]
    /\ UNCHANGED <<requested, registered, clock, waiting>>

\* request and cancel read the elapsed time first.
Call(r, kind) ==
    /\ call[r].at = "idle" /\ signals < MaxSignals
    /\ signals' = signals + 1
    /\ call' = [call EXCEPT ![r] = [at |-> "time", kind |-> kind, elapsed |-> clock]]
    /\ UNCHANGED <<requested, phase, registered, clock, waiting>>

\* Past the exchange neither the kind nor the time of a call matters.
Goto(r, place) ==
    call' = [call EXCEPT ![r] = [at |-> place, kind |-> "request", elapsed |-> 0]]

\* Mutant: every request escalates, the first one too.
RecordTime_AlwaysForces(r) ==
    /\ call[r].at = "time"
    /\ requested' = IF requested = NoRequest THEN call[r].elapsed ELSE requested
    /\ Goto(r, IF call[r].kind = "request" THEN "force" ELSE "cancelling")
    /\ UNCHANGED <<phase, registered, clock, signals, waiting>>

\* compare_exchange of the request time: only the first call succeeds.
RecordTime(r) ==
    /\ call[r].at = "time"
    /\ requested' = IF requested = NoRequest THEN call[r].elapsed ELSE requested
    /\ Goto(r, IF requested = NoRequest THEN "cancelling"
               ELSE IF call[r].kind = "request" THEN "force" ELSE "notify")
    /\ UNCHANGED <<phase, registered, clock, signals, waiting>>

\* fetch_max of the phase, by the first call and by one that finds a request.
RaisePhase(r, place, to) ==
    /\ call[r].at = place
    /\ phase' = Larger(phase, to)
    /\ Goto(r, "notify")
    /\ UNCHANGED <<requested, registered, clock, signals, waiting>>

\* Mutant: notify_one in place of notify_waiters.
Notify_One(r) ==
    /\ call[r].at = "notify"
    /\ registered' \in {registered \ {w} : w \in Waiters}
    /\ Goto(r, "idle")
    /\ UNCHANGED <<requested, phase, clock, signals, waiting>>

\* notify_waiters wakes every Notified future that exists.
Notify(r) ==
    /\ call[r].at = "notify"
    /\ registered' = {}
    /\ Goto(r, "idle")
    /\ UNCHANGED <<requested, phase, clock, signals, waiting>>

-------------------------------------------------------------------------------
(* Waiters.                                                                *)

\* Mutant: each child gets the whole grace.
RemainingGrace_Whole == IF phase = FORCED THEN 0 ELSE Grace

RemainingGrace ==
    IF phase = FORCED THEN 0
    ELSE IF requested = NoRequest THEN Grace
    ELSE Larger(0, requested + Grace - clock)

\* The waiter goes on to the next stage; a wait_for it leaves is dropped.
Enter(w, next, end) ==
    /\ stage' = [stage EXCEPT ![w] = next]
    /\ at' = [at EXCEPT ![w] = "check"]
    /\ until' = [until EXCEPT ![w] = end]
    /\ registered' = registered \ {w}
    /\ UNCHANGED <<requested, phase, clock, signals, call>>

StartStop(w, kind) == Enter(w, kind, clock + RemainingGrace)
End(w) == Enter(w, "ended", 0)

\* wait_for: test the phase, create the Notified future, test again, await it.
Observe(w) ==
    /\ stage[w] # "ended" /\ at[w] \in {"check", "recheck"}
    /\ phase >= Expected(w)
    /\ IF stage[w] = "exchange" THEN StartStop(w, "cancelled")
       ELSE End(w)

Step(w, from, to) ==
    /\ stage[w] # "ended" /\ at[w] = from
    /\ at' = [at EXCEPT ![w] = to]
    /\ UNCHANGED <<requested, phase, clock, signals, call, stage, until>>

Check(w) == phase < Expected(w) /\ Step(w, "check", "create") /\ UNCHANGED registered

Register(w) == Step(w, "create", "recheck") /\ registered' = registered \cup {w}

\* Mutant: the phase is not tested again once the future exists.
Recheck_Skip(w) == Step(w, "recheck", "await") /\ UNCHANGED registered

Recheck(w) ==
    phase < Expected(w) /\ Step(w, "recheck", "await") /\ UNCHANGED registered

Woken(w) == w \notin registered /\ Step(w, "await", "check") /\ UNCHANGED registered

\* next_message: the provider answers, or is silent for too long.
Answer(w) == stage[w] = "exchange" /\ End(w)
TimeOut(w) == stage[w] = "exchange" /\ StartStop(w, "timed_out")

\* cancel_and_stop: the child exits by itself, or its grace ends and it is killed.
Exit(w) == Stopping(w) /\ End(w)
GraceOver(w) == Stopping(w) /\ clock >= until[w] /\ End(w)

Tick ==
    /\ clock < MaxClock
    /\ \A w \in Waiters : Stopping(w) => clock < until[w]
    /\ clock' = clock + 1
    /\ UNCHANGED <<requested, phase, registered, signals, call, waiting>>

-------------------------------------------------------------------------------
Init ==
    /\ requested = NoRequest /\ phase = RUNNING /\ registered = {}
    /\ clock = 0 /\ signals = 0
    /\ call = [r \in Signalers |-> [at |-> "idle", kind |-> "request", elapsed |-> 0]]
    /\ stage = [w \in Waiters |-> "exchange"]
    /\ at = [w \in Waiters |-> "check"]
    /\ until = [w \in Waiters |-> 0]

Signal(r) == \/ RecordTime(r)
             \/ RaisePhase(r, "cancelling", CANCELLING)
             \/ RaisePhase(r, "force", FORCED)
             \/ Notify(r)

Wait(w) == Observe(w) \/ Check(w) \/ Register(w) \/ Recheck(w) \/ Woken(w)

Next ==
    \/ \E r \in Signalers, kind \in Kinds : Call(r, kind)
    \/ \E r \in Signalers : Signal(r)
    \/ \E w \in Waiters : Wait(w)
    \/ \E w \in Waiters : Answer(w)
    \/ \E w \in Waiters : TimeOut(w)
    \/ \E w \in Waiters : Exit(w)
    \/ \E w \in Waiters : GraceOver(w)
    \/ Tick

Spec == Init /\ [][Next]_vars

\* A signal handler runs to its end and a woken task is polled.  Nothing is
\* promised of the children, of further signals or of the passage of time.
FairSpec ==
    /\ Spec
    /\ \A r \in Signalers : WF_vars(Signal(r))
    /\ \A w \in Waiters : WF_vars(Wait(w))

-------------------------------------------------------------------------------
\* Types, and no child has been granted less than no time.
TypeOK ==
    /\ requested \in 0..MaxClock \cup {NoRequest}
    /\ phase \in {RUNNING, CANCELLING, FORCED}
    /\ registered \subseteq Waiters
    /\ clock \in 0..MaxClock /\ signals \in 0..MaxSignals
    /\ call \in [Signalers -> Calls]
    /\ stage \in [Waiters -> Stages]
    /\ at \in [Waiters -> {"check", "create", "recheck", "await"}]
    /\ until \in [Waiters -> 0..(MaxClock + Grace)]
    /\ \A w \in Waiters : Stopping(w) => clock <= until[w]

\* Whoever sees the cancellation can read its deadline.
DeadlineReadable == phase >= CANCELLING => requested # NoRequest

\* One signal never kills: the forced phase takes two calls.
ForcedTakesTwo == phase = FORCED => signals >= 2

\* A task asleep on its future while its phase has come is about to be woken: no
\* signal falls between the test and the registration.
NoLostWakeup ==
    \A w \in registered :
       at[w] = "await" /\ phase >= Expected(w) =>
          \E r \in Signalers : call[r].at = "notify"

\* However late a task observes the cancellation, its child is given no more time
\* than is left of the grace that began with the first signal.
SharedDeadline ==
    \A w \in Waiters :
       stage[w] = "cancelled" => until[w] <= Larger(clock, requested + Grace)

\* Later signals neither move the deadline nor take the phase back.
Monotone == [][/\ phase' >= phase
               /\ requested # NoRequest => requested' = requested]_vars

\* A cancellation reaches every task, and a forced one ends every child, even if
\* the providers stay silent and no timer fires.
Responsive ==
    \A w \in Waiters :
       /\ phase >= CANCELLING ~> stage[w] # "exchange"
       /\ phase = FORCED ~> stage[w] = "ended"
=============================================================================
