------------------------------ MODULE HttpTransport ------------------------------
(***************************************************************************)
(* The requests one command sends to its package sources (package.rs,      *)
(* send_authenticated and send_with_policy): permits of the source and of  *)
(* the process, network attempts, authentication attempts, the credential  *)
(* the requests of a source share, and cancellation.  A fetch is a task of *)
(* a restore; a probe asks a source's providers up front                   *)
(* (inspect_source_batch).                                                 *)
(*                                                                         *)
(* Every await of a fetch is raced by the cancellation, which is polled    *)
(* first: once the token is set a fetch takes no step but Cancel.  A probe *)
(* is not raced.  Semaphores and the mutex are granted in any order.       *)
(***************************************************************************)
EXTENDS CredentialProvider, FiniteSets

CONSTANTS
    Requests,       \* the requests, numbered in the order they are started
    Worlds          \* the circumstances explored

Nobody == 0

ASSUME RequestsAssumption == Requests \subseteq Nat \ {Nobody} /\ IsFiniteSet(Requests)

\* source: whom each request asks.  matching: the requests whose URL has the origin
\* of its source, and so its credential.  provided: the sources with providers.
\* probes: the requests that are probes.  sourceLimit, globalLimit: the permits; no
\* limiter is as good as a large one.  tries: max_tries.  stalled: the source that
\* may never answer.
WorldType == [source : [Requests -> Sources], matching : SUBSET Requests,
              provided : SUBSET Sources, probes : SUBSET Requests,
              sourceLimit : Nat \ {0}, globalLimit : Nat \ {0}, tries : Nat \ {0},
              stalled : SUBSET Sources]

ASSUME WorldsAssumption == Worlds \subseteq WorldType

VARIABLES
    world,          \* the circumstances, which never change
    request,        \* per request: its place and its attempts
    sourcePermits,  \* per source: the requests that hold a permit of its limiter
    globalPermits,  \* the requests that hold a permit of the global limiter
    lock,           \* per source: who holds the mutex of the provider's state
    credential      \* per source: that state

transportVars == <<request, sourcePermits, globalPermits, lock, credential>>
vars == <<world, providerVars, transportVars>>

Final == {"done", "failed", "cancelled", "dropped"}
Places == {"ready", "source", "global", "snapshot", "send", "queue", "acquire",
           "sleep", "body"} \cup Final

\* tries: network_attempt.  challenges: authentication_attempt.  sent: requests.
\* seen: the generation of the credential it used; the first credential obtained
\* from a provider has generation 1.
Records == [at : Places, tries : Nat, challenges : 0..2, sent : Nat, seen : Nat]
Fresh(place) == [at |-> place, tries |-> 0, challenges |-> 0, sent |-> 0, seen |-> 0]

Source(r) == world.source[r]
IsProbe(r) == r \in world.probes
HasProvider(r) == r \in world.matching /\ Source(r) \in world.provided
At(r, place) == request[r].at = place

\* A fetch that may go on: the cancellation has not been observed.
May(r, place) == At(r, place) /\ (IsProbe(r) \/ ~cancelled)

-------------------------------------------------------------------------------
Change(r, record) ==
    /\ request' = [request EXCEPT ![r] = record]
    /\ UNCHANGED <<world, sourcePermits, globalPermits>>

Goto(r, place) == Change(r, [request[r] EXCEPT !.at = place])
Alone == UNCHANGED <<lock, credential, providerVars>>

\* The request ends and drops its permits, the mutex and the session it drives.
End(r, place) ==
    /\ request' = [request EXCEPT ![r] = Fresh(place)]
    /\ sourcePermits' = [sourcePermits EXCEPT ![Source(r)] = @ \ {r}]
    /\ globalPermits' = globalPermits \ {r}
    /\ lock' = [lock EXCEPT ![Source(r)] = IF @ = r THEN Nobody ELSE @]
    /\ IF lock[Source(r)] = r THEN Leave(Source(r), Idle) ELSE UNCHANGED providerVars
    /\ UNCHANGED <<world, credential>>

\* inspect_source_batch takes the probes one after the other, then starts the fetches.
Before(r) == {p \in world.probes : p < r \/ ~IsProbe(r)}
MayStart(r) == At(r, "ready") /\ \A p \in Before(r) : At(p, "done")

Start(r) ==
    /\ MayStart(r) /\ (IsProbe(r) \/ ~cancelled)
    /\ Goto(r, IF IsProbe(r) THEN "snapshot" ELSE "source")
    /\ Alone

\* A probe failed: the batch returns its error before this request is started.
GiveUp(r) ==
    /\ At(r, "ready") /\ \E p \in world.probes : At(p, "failed")
    /\ End(r, "dropped")

\* Mutant: the process-wide permit is taken first.
Take_GlobalFirst(r) ==
    \/ /\ May(r, "source") /\ Cardinality(globalPermits) < world.globalLimit
       /\ globalPermits' = globalPermits \cup {r}
       /\ request' = [request EXCEPT ![r].at = "global"]
       /\ UNCHANGED <<world, sourcePermits>> /\ Alone
    \/ /\ May(r, "global") /\ Cardinality(sourcePermits[Source(r)]) < world.sourceLimit
       /\ sourcePermits' = [sourcePermits EXCEPT ![Source(r)] = @ \cup {r}]
       /\ request' = [request EXCEPT ![r].at = "snapshot"]
       /\ UNCHANGED <<world, globalPermits>> /\ Alone

\* The permit of the source is taken first, then the process-wide one.
Take(r) ==
    \/ /\ May(r, "source") /\ Cardinality(sourcePermits[Source(r)]) < world.sourceLimit
       /\ sourcePermits' = [sourcePermits EXCEPT ![Source(r)] = @ \cup {r}]
       /\ request' = [request EXCEPT ![r].at = "global"]
       /\ UNCHANGED <<world, globalPermits>> /\ Alone
    \/ /\ May(r, "global") /\ Cardinality(globalPermits) < world.globalLimit
       /\ globalPermits' = globalPermits \cup {r}
       /\ request' = [request EXCEPT ![r].at = "snapshot"]
       /\ UNCHANGED <<world, sourcePermits>> /\ Alone

\* authorization_snapshot waits for the mutex of a source that has providers.
Snapshot(r) ==
    /\ May(r, "snapshot") /\ (HasProvider(r) => lock[Source(r)] = Nobody)
    /\ Change(r, [request[r] EXCEPT
          !.at = IF IsProbe(r) THEN "queue" ELSE "send",
          !.sent = IF IsProbe(r) THEN @ ELSE @ + 1,
          !.seen = IF HasProvider(r) THEN credential[Source(r)].generation ELSE 0])
    /\ Alone

-------------------------------------------------------------------------------
(* What a response, an error or a timeout leads to.                        *)

\* The loops of send_with_policy: the next network attempt starts its authentication
\* attempts anew; past the last one the code is declared unreachable.
NextTry(r) ==
    LET own == request[r] IN
    IF own.tries + 1 < world.tries
    THEN [own EXCEPT !.at = "snapshot", !.tries = @ + 1, !.challenges = 0]
    ELSE [own EXCEPT !.at = "unreachable"]
NextChallenge(r) ==
    IF request[r].challenges < 2
    THEN [request[r] EXCEPT !.at = "snapshot", !.challenges = @ + 1]
    ELSE NextTry(r)

LastTry(r) == request[r].tries + 1 = world.tries

\* Mutant: the error path forgets the permits.
SendFails_Leaks(r) ==
    May(r, "send") /\ Goto(r, IF LastTry(r) THEN "failed" ELSE "sleep") /\ Alone

\* The request fails or times out.
SendFails(r) ==
    /\ May(r, "send")
    /\ IF LastTry(r) THEN End(r, "failed") ELSE Goto(r, "sleep") /\ Alone

\* Mutant: a retryable status is retried however many attempts were made.
Retry_Unbounded(r) == May(r, "send") /\ Goto(r, "sleep") /\ Alone

\* A status that policy retries.
Retry(r) == May(r, "send") /\ ~LastTry(r) /\ Goto(r, "sleep") /\ Alone

Wake(r) == May(r, "sleep") /\ Change(r, NextTry(r)) /\ Alone

\* 401: the first two of a network attempt ask the providers, if the request carries
\* the source's credential at all; any other is a response like those below.
Refused(r) ==
    /\ May(r, "send") /\ r \in world.matching /\ request[r].challenges < 2
    /\ Goto(r, "queue") /\ Alone

\* Any response that is handed to the caller.
Respond(r) == May(r, "send") /\ Goto(r, "body") /\ Alone

\* The body is read, or its status, size, stall or transfer is an error.
Read(r) == May(r, "body") /\ (End(r, "done") \/ End(r, "failed"))

-------------------------------------------------------------------------------
(* acquire_provider.                                                       *)

\* Mutant: the generation is not compared once the mutex is held.
Enter_Again(r) ==
    /\ May(r, "queue") /\ HasProvider(r) /\ lock[Source(r)] = Nobody
    /\ lock' = [lock EXCEPT ![Source(r)] = r]
    /\ Proceed(Source(r), Opened(credential[Source(r)].index,
                                 ~IsProbe(r) /\ request[r].seen > 0))
    /\ Goto(r, "acquire") /\ UNCHANGED credential

\* The mutex is granted and nobody replaced the refused credential: ask for one.
Enter(r) ==
    /\ May(r, "queue") /\ HasProvider(r) /\ lock[Source(r)] = Nobody
    /\ credential[Source(r)].generation = request[r].seen
    /\ lock' = [lock EXCEPT ![Source(r)] = r]
    /\ Proceed(Source(r), Opened(credential[Source(r)].index,
                                 ~IsProbe(r) /\ request[r].seen > 0))
    /\ Goto(r, "acquire") /\ UNCHANGED credential

\* Somebody did: use what was obtained meanwhile.
Coalesce(r) ==
    /\ May(r, "queue") /\ HasProvider(r) /\ lock[Source(r)] = Nobody
    /\ credential[Source(r)].generation # request[r].seen
    /\ IF IsProbe(r) THEN End(r, "done") ELSE Change(r, NextChallenge(r)) /\ Alone

\* The source has no providers: the refusal is the response.
NoProvider(r) ==
    /\ May(r, "queue") /\ ~HasProvider(r)
    /\ IF IsProbe(r) THEN End(r, "done") ELSE Goto(r, "body") /\ Alone

\* The acquisition is over: the session is left and the mutex released.
Release(r) ==
    /\ lock' = [lock EXCEPT ![Source(r)] = Nobody]
    /\ Leave(Source(r), Idle)

Driven(r, stage) == May(r, "acquire") /\ session[Source(r)].stage = stage

Obtain(r) ==
    /\ Driven(r, "credential")
    /\ credential' = [credential EXCEPT ![Source(r)] =
          [generation |-> @.generation + 1, index |-> session[Source(r)].index]]
    /\ Change(r, IF IsProbe(r) THEN Fresh("done") ELSE NextChallenge(r))
    /\ Release(r)

Refuse(r) ==
    /\ Driven(r, "nothing")
    /\ Change(r, IF IsProbe(r) THEN Fresh("done") ELSE [request[r] EXCEPT !.at = "body"])
    /\ Release(r) /\ UNCHANGED credential

AcquireFails(r) == Driven(r, "error") /\ End(r, "failed")

\* The session advances while its request is polled.
Advance(r) ==
    /\ May(r, "acquire") /\ lock[Source(r)] = r
    /\ SessionStep(Source(r))
    /\ UNCHANGED <<world, transportVars>>

-------------------------------------------------------------------------------
\* await_with_cancellation: the future that was awaited is dropped.
Cancel(r) ==
    /\ cancelled /\ ~IsProbe(r) /\ request[r].at \notin Final
    /\ End(r, "cancelled")

\* The task of a fetch is dropped with its task set, when another task failed.
Drop(r) ==
    /\ ~IsProbe(r) /\ request[r].at \notin Final
    /\ End(r, "dropped")

Init ==
    /\ world \in Worlds
    /\ ProviderInit
    /\ request = [r \in Requests |-> Fresh("ready")]
    /\ sourcePermits = [s \in Sources |-> {}]
    /\ globalPermits = {}
    /\ lock = [s \in Sources |-> Nobody]
    /\ credential = [s \in Sources |-> [generation |-> 0, index |-> 0]]

\* What a request does without an answer: of its source, or of the provider it asks.
OwnStep(r) ==
    \/ Start(r) \/ GiveUp(r) \/ Take(r) \/ Snapshot(r) \/ Wake(r)
    \/ Enter(r) \/ Coalesce(r) \/ NoProvider(r)
    \/ /\ May(r, "acquire") /\ lock[Source(r)] = r
       /\ SessionOwnStep(Source(r))
       /\ UNCHANGED <<world, transportVars>>
    \/ Obtain(r) \/ Refuse(r) \/ AcquireFails(r)

\* What it does when answers, and the timeouts for want of one, come as well.
Step(r) ==
    \/ Start(r) \/ GiveUp(r) \/ Take(r) \/ Snapshot(r)
    \/ SendFails(r) \/ Retry(r) \/ Wake(r) \/ Refused(r) \/ Respond(r) \/ Read(r)
    \/ Enter(r) \/ Coalesce(r) \/ NoProvider(r)
    \/ Advance(r) \/ Obtain(r) \/ Refuse(r) \/ AcquireFails(r)

Next ==
    \/ \E r \in Requests : Step(r)
    \/ \E r \in Requests : Cancel(r)
    \/ \E r \in Requests : Drop(r)
    \/ Signal /\ UNCHANGED <<world, transportVars>>

Spec == Init /\ [][Next]_vars

\* Tasks that can run do; a woken task is polled, so a cancellation is observed.
\* Requests and providers have timeouts, so a request goes on unless its source is the
\* stalled one: its server is not promised to answer, nor its provider to fall silent
\* (each message restarts the timer).
FairSpec ==
    /\ Spec
    /\ \A r \in Requests : WF_vars(OwnStep(r))
    /\ \A r \in Requests : WF_vars(Source(r) \notin world.stalled /\ Step(r))
    /\ \A r \in Requests : WF_vars(Cancel(r))

-------------------------------------------------------------------------------
\* Types; no request falls out of its loops; within a network attempt there are at
\* most three requests, so max_tries bounds them all.
TypeOK ==
    /\ ProviderTypeOK
    /\ world \in Worlds
    /\ request \in [Requests -> Records]
    /\ sourcePermits \in [Sources -> SUBSET Requests]
    /\ globalPermits \subseteq Requests
    /\ lock \in [Sources -> Requests \cup {Nobody}]
    /\ credential \in [Sources -> [generation : Nat, index : 0..Providers]]
    /\ \A r \in Requests : /\ request[r].tries < world.tries
                           /\ request[r].sent <= 3 * world.tries

\* Who holds which permit, by its place.  Both are kept across attempts, sleeps and
\* the acquisition of a credential, until the body is read.
HoldsSource(r) == ~IsProbe(r) /\ request[r].at \notin Final \cup {"ready", "source"}
HoldsGlobal(r) == HoldsSource(r) /\ ~At(r, "global")

\* No permit is leaked or used twice, whichever way requests end; and a request that
\* waits for its source holds none of the process's.
PermitsBalance ==
    /\ \A s \in Sources :
          /\ sourcePermits[s] = {r \in Requests : Source(r) = s /\ HoldsSource(r)}
          /\ Cardinality(sourcePermits[s]) <= world.sourceLimit
    /\ globalPermits = {r \in Requests : HoldsGlobal(r)}
    /\ Cardinality(globalPermits) <= world.globalLimit

\* A provider is asked only on behalf of the request that holds the mutex and was
\* refused with the credential the source still has; it is told of a retry exactly
\* when a provider had issued that credential.
AskedForReason ==
    \A s \in Sources :
       /\ lock[s] = Nobody => session[s].stage = "idle"
       /\ lock[s] # Nobody =>
             LET r == lock[s] IN
             /\ At(r, "acquire") /\ Source(r) = s
             /\ request[r].seen = credential[s].generation
             /\ session[s].preferred = credential[s].index
             /\ session[s].retry = (~IsProbe(r) /\ credential[s].generation > 0)

\* A provider that served a source is the only one asked for it from then on.
ProviderSticks ==
    \A process \in running : credential[process[1]].index \in {0, process[2]}

\* A source that never answers holds no more than its own share: with fewer permits
\* than the process, it does not keep the requests of the others from ending, once
\* the probes before them are over.
BusySourceIsAlone ==
    \A r \in Requests :
       (\A q \in {r} \cup Before(r) : Source(q) \notin world.stalled)
          ~> (request[r].at \in Final)

\* A cancelled command ends, whatever servers and providers do: a fetch at its next
\* await; a probe, which nothing races, because the session it drives tests the token
\* while it waits for a message and stops its provider, or the next one the cascade
\* has turned to by then; and what waits behind the probe because it failed.
CancelDrains == cancelled ~> \A r \in Requests : request[r].at \in Final

\* docs/cancellation.md: cancelling an acquisition sends the provider Cancel.
CancelAsksProvider ==
    [][\A r \in Requests :
          /\ At(r, "acquire") /\ Process(Source(r)) \in running
          /\ request'[r].at = "cancelled"
          => session[Source(r)].stage = "stopping"]_vars
=============================================================================
