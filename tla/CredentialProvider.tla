--------------------------- MODULE CredentialProvider ---------------------------
(***************************************************************************)
(* The acquisition of one source's credential from the command's NuGet     *)
(* credential providers (credential_provider.rs).  The providers are child *)
(* processes tried in configured order; a session with one of them is a    *)
(* fixed sequence of requests, each of which may be answered, go wrong, or *)
(* time out.  The caller holds the source's credential mutex, so a source  *)
(* has at most one acquisition; HttpTransport composes them.               *)
(*                                                                         *)
(* A step is the exchange of one request, from its dispatch to the message *)
(* that settles it.  Progress and Log messages in between are left out:    *)
(* they change nothing but the inactivity timer.                           *)
(***************************************************************************)
EXTENDS Integers

CONSTANTS
    Sources,        \* package sources
    Providers       \* the number of provider paths configured

ASSUME ProvidersAssumption == Providers \in Nat

VARIABLES
    cancelled,      \* the command's cancellation token
    session,        \* per source: the acquisition in progress
    running         \* provider processes that run, as <<source, path index>>

providerVars == <<cancelled, session, running>>

Verdicts == {"credential", "inapplicable", "declined", "rejected"}
Talking == {"handshake", "monitor", "initialize", "claims", "level", "credentials"}
Ended == {"credential", "nothing", "error"}
Stages == {"idle", "begin", "start", "stopping", "closing"} \cup Talking \cup Ended

\* index: the provider asked.  preferred: the one that answered last time, or 0.
\* retry: IsRetry.  heard: handshake messages so far.  verdict: what the session
\* that is closing found.  declined: the providers of this acquisition that did.
Sessions == [stage : Stages, index : 0..Providers, preferred : 0..Providers,
             retry : BOOLEAN, heard : SUBSET {"request", "response"},
             verdict : Verdicts, declined : SUBSET (1..Providers)]

Idle == [stage |-> "idle", index |-> 0, preferred |-> 0, retry |-> FALSE,
         heard |-> {}, verdict |-> "inapplicable", declined |-> {}]

Opened(preferred, retry) ==
    [Idle EXCEPT !.stage = "begin", !.preferred = preferred, !.retry = retry]

Process(s) == <<s, session[s].index>>
Alive(s) == session[s].stage \in Talking \cup {"stopping", "closing"}

-------------------------------------------------------------------------------
\* The session goes on with its process, or with none yet.
Proceed(s, next) ==
    /\ session' = [session EXCEPT ![s] = next]
    /\ UNCHANGED <<cancelled, running>>

\* The session ends or moves to another provider; its process has been reaped, or
\* killed as it was dropped (kill_on_drop).
Leave(s, next) ==
    /\ session' = [session EXCEPT ![s] = next]
    /\ running' = running \ {Process(s)}
    /\ UNCHANGED cancelled

\* Discovery of the paths, the test of the token, the choice of the first provider.
Begin(s) ==
    /\ session[s].stage = "begin"
    /\ \/ Proceed(s, [session[s] EXCEPT !.stage = "error"])
       \/ /\ Providers = 0
          /\ Proceed(s, [session[s] EXCEPT !.stage = "nothing"])
       \/ /\ Providers > 0 /\ ~cancelled
          /\ Proceed(s, [session[s] EXCEPT !.stage = "start",
                            !.index = IF session[s].preferred = 0 THEN 1
                                      ELSE session[s].preferred])

\* ProviderSession::start: the path is not a file, a DLL or cannot be launched.
Launch(s) ==
    /\ session[s].stage = "start"
    /\ \/ Proceed(s, [session[s] EXCEPT !.stage = "error"])
       \/ /\ session' = [session EXCEPT ![s].stage = "handshake", ![s].heard = {}]
          /\ running' = running \cup {Process(s)}
          /\ UNCHANGED cancelled

\* The two sides greet each other; their messages come in either order.
Handshake(s) ==
    /\ session[s].stage = "handshake"
    /\ \E message \in {"request", "response"} :
          LET heard == session[s].heard \cup {message} IN
          Proceed(s, [session[s] EXCEPT !.heard = heard,
                        !.stage = IF heard = {"request", "response"}
                                  THEN "monitor" ELSE "handshake"])

\* MonitorNuGetProcessExit and Initialize succeed.
Prepare(s) ==
    \/ /\ session[s].stage = "monitor"
       /\ Proceed(s, [session[s] EXCEPT !.stage = "initialize"])
    \/ /\ session[s].stage = "initialize"
       /\ Proceed(s, [session[s] EXCEPT !.stage = "claims"])

Close(s, verdict) ==
    Proceed(s, [session[s] EXCEPT !.stage = "closing", !.verdict = verdict])

\* GetOperationClaims: a provider that does not authenticate is closed.
Claims(s) ==
    /\ session[s].stage = "claims"
    /\ \/ Proceed(s, [session[s] EXCEPT !.stage = "level"])
       \/ Close(s, "inapplicable")

\* SetLogLevel: a provider that rejects it is closed, and the acquisition fails.
Level(s) ==
    /\ session[s].stage = "level"
    /\ \/ Proceed(s, [session[s] EXCEPT !.stage = "credentials"])
       \/ Close(s, "rejected")

\* GetAuthenticationCredentials: Success, Error or another scheme, NotFound.
Credentials(s) ==
    /\ session[s].stage = "credentials"
    /\ \E verdict \in {"credential", "inapplicable", "declined"} : Close(s, verdict)

\* Mutant: the session fails and its process is left behind.
Break_Leaks(s) ==
    /\ session[s].stage \in Talking
    /\ Proceed(s, [session[s] EXCEPT !.stage = "error"])

\* The provider exits, faults, cancels, answers out of turn or without success.
Break(s) ==
    /\ session[s].stage \in Talking
    /\ Leave(s, [session[s] EXCEPT !.stage = "error"])

Stop(s) == Proceed(s, [session[s] EXCEPT !.stage = "stopping"])

\* Mutant: the handshake is awaited without the token.
ObserveCancellation_OfRequests(s) ==
    session[s].stage \in Talking \ {"handshake"} /\ cancelled /\ Stop(s)

\* next_message: silence for too long, or a cancellation, sends Cancel.
TimeOut(s) == session[s].stage \in Talking /\ Stop(s)
ObserveCancellation(s) ==
    session[s].stage \in Talking /\ cancelled /\ Stop(s)

\* cancel_and_stop returns: the process exited within its grace or was killed.
Stopped(s) ==
    /\ session[s].stage = "stopping"
    /\ Leave(s, [session[s] EXCEPT !.stage = "error"])

\* Mutants: only the last provider's decline counts; the cascade goes on after the
\* preferred provider.
Outcome_Forgets(own, declined) ==
    CASE own.verdict = "credential" -> "credential"
      [] own.verdict = "rejected" -> "error"
      [] OTHER -> IF own.preferred = 0 /\ own.index < Providers THEN "start"
                  ELSE IF own.verdict = "declined" THEN "error" ELSE "nothing"
Outcome_Wanders(own, declined) ==
    CASE own.verdict = "credential" -> "credential"
      [] own.verdict = "rejected" -> "error"
      [] OTHER -> IF own.index < Providers THEN "start"
                  ELSE IF declined = {} THEN "nothing" ELSE "error"

\* acquire: a credential and an error end the cascade; a provider that is not
\* applicable or declines passes the turn on, unless it was the preferred one; a
\* decline is an error once nobody is left.
Outcome(own, declined) ==
    CASE own.verdict = "credential" -> "credential"
      [] own.verdict = "rejected" -> "error"
      [] OTHER -> IF own.preferred = 0 /\ own.index < Providers THEN "start"
                  ELSE IF declined = {} THEN "nothing" ELSE "error"

Conclude(own) ==
    LET declined == own.declined \cup (IF own.verdict = "declined"
                                       THEN {own.index} ELSE {})
        outcome == Outcome(own, declined) IN
    [own EXCEPT !.stage = outcome, !.declined = declined,
                !.index = IF outcome = "start" THEN @ + 1 ELSE @]

\* close: Close is sent and the process exits in two seconds or is killed.
Closed(s) == session[s].stage = "closing" /\ Leave(s, Conclude(session[s]))

\* A step that waits for nobody: the provider need not answer, and what bounds the
\* wait for its exit is a grace, not its silence.
SessionOwnStep(s) ==
    Begin(s) \/ Launch(s) \/ ObserveCancellation(s) \/ Stopped(s) \/ Closed(s)

\* A step of the acquisition that depends on nobody but the provider and timers.
SessionStep(s) ==
    \/ Begin(s) \/ Launch(s) \/ Handshake(s) \/ Prepare(s)
    \/ Claims(s) \/ Level(s) \/ Credentials(s) \/ Break(s)
    \/ TimeOut(s) \/ ObserveCancellation(s) \/ Stopped(s) \/ Closed(s)

\* A signal or an embedder cancels the command.  A second one only shortens the
\* grace of a process that is being stopped.
Signal ==
    /\ ~cancelled
    /\ cancelled' = TRUE
    /\ UNCHANGED <<session, running>>

ProviderInit ==
    /\ cancelled = FALSE
    /\ session = [s \in Sources |-> Idle]
    /\ running = {}

-------------------------------------------------------------------------------
ProviderTypeOK ==
    /\ cancelled \in BOOLEAN
    /\ session \in [Sources -> Sessions]
    /\ running \subseteq Sources \X (1..Providers)

\* The processes that run are those of the sessions in progress, one each: none
\* survives its session, and none is missing while it is talked to.
NoOrphans ==
    running = {Process(s) : s \in {t \in Sources : Alive(t)}}

\* An acquisition never reports that no provider applies when one of them declined.
DeclineIsReported ==
    \A s \in Sources : session[s].stage = "nothing" => session[s].declined = {}
=============================================================================
