--------------------------- MODULE HttpTransportProofs ---------------------------
(***************************************************************************)
(* Safety of the transport and of the credential providers it drives, for  *)
(* any number of requests, sources, providers, permits and attempts.       *)
(***************************************************************************)
EXTENDS HttpTransport, FiniteSetTheorems, TLAPS

\* What a request has used up of its attempts, by its place.
Sending == {"send", "queue", "acquire", "sleep", "body"}
Bounded(own) ==
    /\ own.tries < world.tries
    /\ own.sent <= 3 * own.tries + own.challenges + (IF own.at \in Sending THEN 1 ELSE 0)
    /\ own.at = "sleep" => own.tries + 1 < world.tries
    /\ own.at \in {"queue", "acquire"} => own.challenges < 2

Budget ==
    \A r \in Requests : /\ Bounded(request[r])
                        /\ IsProbe(r) => request[r].challenges = 0

\* The types alone, without the bounds on the attempts.
Types ==
    /\ ProviderTypeOK
    /\ world \in Worlds
    /\ request \in [Requests -> Records]
    /\ sourcePermits \in [Sources -> SUBSET Requests]
    /\ globalPermits \subseteq Requests
    /\ lock \in [Sources -> Requests \cup {Nobody}]
    /\ credential \in [Sources -> [generation : Nat, index : 0..Providers]]

Typed == Types /\ Budget

LEMMA WorldFacts ==
    ASSUME Types
    PROVE  /\ world.source \in [Requests -> Sources]
           /\ world.tries \in Nat \ {0} /\ world.sourceLimit \in Nat \ {0}
           /\ world.globalLimit \in Nat \ {0}
           /\ world.matching \subseteq Requests /\ world.probes \subseteq Requests
           /\ \A r \in Requests : Source(r) \in Sources
  BY WorldsAssumption DEF Types, WorldType, Source

LEMMA BudgetSuffices ==
    ASSUME Typed
    PROVE  TypeOK
  <1>1. ASSUME NEW r \in Requests
        PROVE  request[r].tries < world.tries /\ request[r].sent <= 3 * world.tries
    <2>1. request[r] \in Records /\ Bounded(request[r]) /\ world.tries \in Nat
      BY WorldFacts DEF Typed, Types, Budget
    <2>2. /\ request[r].tries \in Nat /\ request[r].challenges \in 0..2
          /\ request[r].sent \in Nat
      BY <2>1 DEF Records
    <2> QED
      BY <2>1, <2>2 DEF Bounded
  <1> QED
    BY <1>1 DEF Typed, Types, TypeOK

-------------------------------------------------------------------------------
(* The shapes of a step.                                                   *)

\* An attempt goes on: only the request's own record changes, between two places that
\* hold the same permits and not the mutex.
Moves(r, record) ==
    /\ record \in Records /\ Bounded(record)
    /\ request' = [request EXCEPT ![r] = record]
    /\ UNCHANGED <<world, sourcePermits, globalPermits>> /\ Alone
    /\ request[r].at \notin Final \cup {"source", "global", "acquire"}
    /\ record.at \notin Final \cup {"ready", "global", "acquire"}
    /\ ~IsProbe(r) => (request[r].at = "ready" <=> record.at = "source")
    /\ IsProbe(r) => record.at # "source" /\ record.challenges = 0

\* The acquisition is over, with a credential or without.
Settles(r) == Obtain(r) \/ Refuse(r)

LEMMA RecordFacts ==
    ASSUME Typed, NEW r \in Requests
    PROVE  /\ request[r] \in Records /\ Bounded(request[r])
           /\ IsProbe(r) => request[r].challenges = 0
           /\ request[r].tries \in Nat /\ request[r].challenges \in 0..2
           /\ request[r].sent \in Nat /\ request[r].seen \in Nat
           /\ request[r].at \in Places
           /\ world.tries \in Nat \ {0}
           /\ Source(r) \in Sources
           /\ credential[Source(r)].generation \in Nat
  <1>1. request[r] \in Records
    BY DEF Typed, Types
  <1>2. Source(r) \in Sources /\ world.tries \in Nat \ {0}
    BY WorldFacts DEF Typed
  <1>3. credential[Source(r)].generation \in Nat
    BY <1>2 DEF Typed, Types
  <1> QED
    BY <1>1, <1>2, <1>3 DEF Records, Typed, Budget

LEMMA NextTrySound ==
    ASSUME Typed, NEW r \in Requests, At(r, "sleep")
    PROVE  NextTry(r) \in Records /\ Bounded(NextTry(r)) /\ NextTry(r).at = "snapshot"
           /\ NextTry(r).challenges = 0
  <1> DEFINE own == request[r]
             next == [own EXCEPT !.at = "snapshot", !.tries = @ + 1, !.challenges = 0]
  <1>1. /\ own \in Records /\ Bounded(own) /\ own.at = "sleep"
        /\ own.tries \in Nat /\ own.challenges \in 0..2 /\ own.sent \in Nat
        /\ world.tries \in Nat \ {0}
    BY RecordFacts DEF At
  <1>a. NextTry(r) = IF own.tries + 1 < world.tries THEN next
                     ELSE [own EXCEPT !.at = "unreachable"]
    BY DEF NextTry
  <1> HIDE DEF own
  <1>2. own.tries + 1 < world.tries /\ own.sent <= 3 * own.tries + own.challenges + 1
    BY <1>1 DEF Bounded, Sending
  <1>3. NextTry(r) = next
    BY <1>2, <1>a
  <1>4. /\ next \in Records /\ next.at = "snapshot" /\ next.challenges = 0
        /\ next.tries = own.tries + 1 /\ next.sent = own.sent
    <2>1. own.tries + 1 \in Nat /\ 0 \in 0..2 /\ "snapshot" \in Places
      BY <1>1 DEF Places
    <2>2. PICK n \in Nat, c \in 0..2 : n = own.tries + 1 /\ c = 0
      BY <2>1
    <2>3. next = [own EXCEPT !.at = "snapshot", !.tries = n, !.challenges = c]
      BY <2>2
    <2> HIDE DEF next
    <2>4. /\ next \in Records /\ next.at = "snapshot" /\ next.challenges = c
          /\ next.tries = n /\ next.sent = own.sent
      BY <1>1, <2>1, <2>3 DEF Records
    <2> QED
      BY <2>2, <2>4
  <1> HIDE DEF next
  <1>5. Bounded(next)
    BY <1>1, <1>2, <1>4 DEF Bounded, Sending
  <1> QED
    BY <1>3, <1>4, <1>5

LEMMA NextChallengeSound ==
    ASSUME Typed, NEW r \in Requests, request[r].at \in {"queue", "acquire"}
    PROVE  /\ NextChallenge(r) \in Records /\ Bounded(NextChallenge(r))
           /\ NextChallenge(r).at = "snapshot"
  <1> DEFINE own == request[r]
             next == [own EXCEPT !.at = "snapshot", !.challenges = @ + 1]
  <1>1. /\ own \in Records /\ Bounded(own) /\ own.at \in {"queue", "acquire"}
        /\ own.tries \in Nat /\ own.challenges \in 0..2 /\ own.sent \in Nat
        /\ world.tries \in Nat \ {0}
    BY RecordFacts
  <1>a. NextChallenge(r) = IF own.challenges < 2 THEN next ELSE NextTry(r)
    BY DEF NextChallenge
  <1> HIDE DEF own
  <1>2. own.challenges < 2 /\ own.sent <= 3 * own.tries + own.challenges + 1
    BY <1>1 DEF Bounded, Sending
  <1>3. NextChallenge(r) = next
    BY <1>2, <1>a
  <1>4. /\ next \in Records /\ next.at = "snapshot"
        /\ next.challenges = own.challenges + 1
        /\ next.tries = own.tries /\ next.sent = own.sent
    <2>1. own.challenges + 1 \in 0..2 /\ "snapshot" \in Places
      BY <1>1, <1>2 DEF Places
    <2>2. PICK c \in 0..2 : c = own.challenges + 1
      BY <2>1
    <2>3. next = [own EXCEPT !.at = "snapshot", !.challenges = c]
      BY <2>2
    <2> HIDE DEF next
    <2>4. /\ next \in Records /\ next.at = "snapshot" /\ next.challenges = c
          /\ next.tries = own.tries /\ next.sent = own.sent
      BY <1>1, <2>1, <2>3 DEF Records
    <2> QED
      BY <2>2, <2>4
  <1> HIDE DEF next
  <1>5. Bounded(next)
    BY <1>1, <1>2, <1>4 DEF Bounded, Sending
  <1> QED
    BY <1>3, <1>4, <1>5

\* A request that goes to another place with its attempts as they are.
LEMMA GoingSound ==
    ASSUME Typed, NEW r \in Requests, NEW place \in Places,
           request[r].at \in Sending \/ place \notin Sending,
           place = "sleep" => ~LastTry(r),
           place \in {"queue", "acquire"} => request[r].challenges < 2
    PROVE  [request[r] EXCEPT !.at = place] \in Records
           /\ (place \in Sending \/ request[r].at \notin Sending
               => Bounded([request[r] EXCEPT !.at = place]))
  <1> DEFINE own == request[r]
             next == [own EXCEPT !.at = place]
  <1>1. /\ own \in Records /\ Bounded(own)
        /\ own.tries \in Nat /\ own.challenges \in 0..2 /\ own.sent \in Nat
        /\ world.tries \in Nat \ {0}
    BY RecordFacts
  <1>a. /\ place = "sleep" => own.tries + 1 # world.tries
        /\ own.at \in Sending \/ place \notin Sending
        /\ place \in {"queue", "acquire"} => own.challenges < 2
    BY DEF LastTry
  <1> HIDE DEF own
  <1>2. /\ next \in Records /\ next.at = place /\ next.challenges = own.challenges
        /\ next.tries = own.tries /\ next.sent = own.sent
    BY <1>1 DEF Records
  <1> HIDE DEF next
  <1>4. place \in Sending \/ own.at \notin Sending => Bounded(next)
    BY <1>1, <1>2, <1>a DEF Bounded, Sending
  <1> QED
    BY <1>2, <1>4 DEF next, own

LEMMA StepShapes ==
    ASSUME Typed, NEW r \in Requests, Step(r) \/ Cancel(r) \/ Drop(r)
    PROVE  \/ \E record : Moves(r, record)
           \/ Take(r)
           \/ \E place \in Final : End(r, place) /\ request[r].at \notin Final
           \/ Enter(r)
           \/ Settles(r)
           \/ Advance(r)
  <1> DEFINE going(place) == [request[r] EXCEPT !.at = place]
             Shape == \/ \E record : Moves(r, record)
                      \/ Take(r)
                      \/ \E place \in Final : End(r, place) /\ request[r].at \notin Final
                      \/ Enter(r)
                      \/ Settles(r)
                      \/ Advance(r)
  <1>0. /\ request[r] \in Records /\ Bounded(request[r])
        /\ IsProbe(r) => request[r].challenges = 0
        /\ request[r].tries \in Nat /\ request[r].challenges \in 0..2
        /\ request[r].sent \in Nat /\ request[r].at \in Places
        /\ world.tries \in Nat \ {0}
        /\ credential[Source(r)].generation \in Nat
    BY RecordFacts
  <1>a. ASSUME NEW place \in Places PROVE going(place).at = place
                                          /\ going(place).challenges = request[r].challenges
    BY <1>0 DEF Records
  \* The moves that keep the attempts.
  <1>b. ASSUME NEW place \in Places \ (Final \cup {"ready", "global", "acquire"}),
               Goto(r, place), Alone,
               request[r].at \in {"ready", "snapshot", "send", "queue"},
               place \in Sending <=> request[r].at \in Sending,
               place = "sleep" => ~LastTry(r),
               place = "queue" => request[r].challenges < 2,
               place = "source" <=> ~IsProbe(r) /\ request[r].at = "ready"
        PROVE  Moves(r, going(place))
    <2>1. going(place) \in Records /\ Bounded(going(place))
      BY <1>b, GoingSound
    <2> HIDE DEF going
    <2> QED
      BY <1>0, <1>a, <1>b, <2>1 DEF Moves, Goto, Change, Final, going
  <1>1. CASE Start(r)
    BY <1>1, <1>b DEF Start, MayStart, At, Places, Final, Sending
  <1>2. CASE GiveUp(r)
    BY <1>2 DEF GiveUp, At, Final
  <1>3. CASE Take(r)
    BY <1>3
  <1>4. CASE Snapshot(r)
    <2>1. PICK own \in Records : own = request[r]
      BY <1>0
    <2>2. PICK n \in Nat : n = own.sent + 1
      BY <1>0, <2>1
    <2>3. PICK g \in Nat :
             g = IF HasProvider(r) THEN credential[Source(r)].generation ELSE 0
      BY <1>0
    <2>4. PICK place \in Places : place = IF IsProbe(r) THEN "queue" ELSE "send"
      BY DEF Places
    <2>5. PICK sent \in Nat : sent = IF IsProbe(r) THEN own.sent ELSE n
      BY <1>0, <2>1
    <2>6. PICK next : next = [own EXCEPT !.at = place, !.sent = sent, !.seen = g]
      OBVIOUS
    <2>7. Change(r, next) /\ Alone /\ At(r, "snapshot")
      BY <1>4, <2>1, <2>2, <2>3, <2>4, <2>5, <2>6 DEF Snapshot, May
    <2>8. /\ next \in Records /\ next.at = place /\ next.sent = sent
          /\ next.tries = own.tries /\ next.challenges = own.challenges
      BY <2>1, <2>4, <2>6 DEF Records
    <2>9. Bounded(next)
      BY <1>0, <2>1, <2>2, <2>4, <2>5, <2>7, <2>8 DEF Bounded, Sending, At
    <2>10. Moves(r, next)
      BY <1>0, <2>1, <2>4, <2>7, <2>8, <2>9 DEF Moves, Change, Final, At
    <2> QED
      BY <2>10
  <1>5. CASE SendFails(r)
    <2>1. CASE LastTry(r)
      BY <1>5, <2>1 DEF SendFails, May, At, Final
    <2>2. CASE ~LastTry(r)
      BY <1>5, <2>2, <1>b DEF SendFails, May, At, Places, Final, Sending
    <2> QED
      BY <2>1, <2>2
  <1>6. CASE Retry(r)
    BY <1>6, <1>b DEF Retry, May, At, Places, Final, Sending
  <1>7. CASE Wake(r)
    <2>1. At(r, "sleep")
      BY <1>7 DEF Wake, May
    <2>2. Moves(r, NextTry(r))
      BY <1>7, <2>1, NextTrySound DEF Wake, Moves, Change, At, Final
    <2> QED
      BY <2>2
  <1>8. CASE Refused(r)
    BY <1>8, <1>b DEF Refused, May, At, Places, Final, Sending
  <1>9. CASE Respond(r)
    BY <1>9, <1>b DEF Respond, May, At, Places, Final, Sending
  <1>10. CASE Read(r)
    BY <1>10 DEF Read, May, At, Final
  <1>11. CASE Enter(r)
    BY <1>11
  <1>12. CASE Coalesce(r)
    <2>1. At(r, "queue")
      BY <1>12 DEF Coalesce, May
    <2>2. CASE IsProbe(r)
      BY <1>12, <2>1, <2>2 DEF Coalesce, At, Final
    <2>3. CASE ~IsProbe(r)
      <3>1. Moves(r, NextChallenge(r))
        BY <1>12, <2>1, <2>3, NextChallengeSound DEF Coalesce, Moves, Change, At, Final
      <3> QED
        BY <3>1
    <2> QED
      BY <2>2, <2>3
  <1>13. CASE NoProvider(r)
    <2>1. CASE IsProbe(r)
      BY <1>13, <2>1 DEF NoProvider, May, At, Final
    <2>2. CASE ~IsProbe(r)
      BY <1>13, <2>2, <1>b DEF NoProvider, May, At, Places, Final, Sending
    <2> QED
      BY <2>1, <2>2
  <1>14. CASE Advance(r)
    BY <1>14
  <1>15. CASE Obtain(r) \/ Refuse(r)
    BY <1>15 DEF Settles
  <1>16. CASE AcquireFails(r)
    BY <1>16 DEF AcquireFails, Driven, May, At, Final
  <1>17. CASE Cancel(r)
    BY <1>17 DEF Cancel, Final
  <1>18. CASE Drop(r)
    BY <1>18 DEF Drop, Final
  <1> HIDE DEF Shape
  <1> QED
    BY <1>1, <1>2, <1>3, <1>4, <1>5, <1>6, <1>7, <1>8, <1>9, <1>10, <1>11, <1>12, <1>13,
       <1>14, <1>15, <1>16, <1>17, <1>18 DEF Step, Shape

-------------------------------------------------------------------------------
(* Sessions.                                                               *)

LiveStages == Talking \cup {"stopping", "closing"}

\* From its launch to the credential a session keeps to one provider, the preferred
\* one if there is any; declines are remembered from the first provider on.
Coherent(own) ==
    /\ own.stage \in LiveStages \cup {"start", "credential"} =>
          own.index \in 1..Providers /\ own.preferred \in {0, own.index}
    /\ own.stage \in {"idle", "begin", "nothing"} => own.declined = {}

SessionsSound == \A s \in Sources : Coherent(session[s])

\* A step of a session: it goes on as it is, launches its process or leaves it.
SessionMoves(s, next) ==
    /\ next \in Sessions /\ Coherent(next)
    /\ next.preferred = session[s].preferred /\ next.retry = session[s].retry
    /\ session[s].stage # "idle" /\ next.stage # "idle"
    /\ \/ /\ Proceed(s, next)
          /\ next.stage \in LiveStages <=> session[s].stage \in LiveStages
          /\ session[s].stage \in LiveStages => next.index = session[s].index
       \/ /\ session' = [session EXCEPT ![s] = next]
          /\ running' = running \cup {Process(s)} /\ UNCHANGED cancelled
          /\ session[s].stage \notin LiveStages /\ next.stage \in LiveStages
          /\ next.index = session[s].index
       \/ /\ Leave(s, next)
          /\ session[s].stage \in LiveStages /\ next.stage \notin LiveStages

LEMMA IdleSound ==
    /\ Idle \in Sessions /\ Coherent(Idle) /\ Idle.stage = "idle"
    /\ \A preferred \in 0..Providers, retry \in BOOLEAN :
          LET opened == Opened(preferred, retry) IN
          /\ opened \in Sessions /\ Coherent(opened) /\ opened.stage = "begin"
          /\ opened.preferred = preferred /\ opened.retry = retry
  <1>1. Idle \in Sessions /\ Coherent(Idle) /\ Idle.stage = "idle"
    BY ProvidersAssumption DEF Idle, Sessions, Stages, Verdicts, Coherent, LiveStages, Talking
  <1>2. ASSUME NEW preferred \in 0..Providers, NEW retry \in BOOLEAN
        PROVE  LET opened == Opened(preferred, retry) IN
               /\ opened \in Sessions /\ Coherent(opened) /\ opened.stage = "begin"
               /\ opened.preferred = preferred /\ opened.retry = retry
    <2>1. PICK opened : opened = Opened(preferred, retry)
      OBVIOUS
    <2>2. opened = [stage |-> "begin", index |-> 0, preferred |-> preferred,
                    retry |-> retry, heard |-> {}, verdict |-> "inapplicable",
                    declined |-> {}]
      BY <2>1 DEF Opened, Idle
    <2>3. opened \in Sessions
      BY <2>2, ProvidersAssumption DEF Sessions, Stages, Verdicts
    <2>4. Coherent(opened)
      BY <2>2 DEF Coherent, LiveStages, Talking
    <2> QED
      BY <2>1, <2>2, <2>3, <2>4
  <1> QED
    BY <1>1, <1>2

LEMMA SessionShapes ==
    ASSUME ProviderTypeOK, SessionsSound, NEW s \in Sources, SessionStep(s)
    PROVE  \E next : SessionMoves(s, next)
  <1>1. PICK own \in Sessions : own = session[s]
    BY DEF ProviderTypeOK
  <1>2. /\ Coherent(own) /\ own.stage \in Stages /\ own.index \in 0..Providers
        /\ own.preferred \in 0..Providers /\ own.declined \in SUBSET (1..Providers)
        /\ own.heard \in SUBSET {"request", "response"} /\ own.verdict \in Verdicts
    BY <1>1 DEF SessionsSound, Sessions
  \* A session that goes on with its provider, or ends without launching one.
  <1>a. ASSUME NEW next \in Sessions, Proceed(s, next),
               next.index = own.index, next.preferred = own.preferred,
               next.retry = own.retry, next.declined = own.declined,
               next.stage \notin {"idle", "begin", "start", "credential"},
               own.stage # "idle", own.stage \in LiveStages <=> next.stage \in LiveStages,
               next.stage = "nothing" => own.stage = "begin"
        PROVE  SessionMoves(s, next)
    <2>1. Coherent(next)
      BY <1>2, <1>a DEF Coherent
    <2> QED
      BY <1>1, <1>a, <2>1 DEF SessionMoves
  <1>b. ASSUME NEW stage \in Stages, NEW next, next = [own EXCEPT !.stage = stage]
        PROVE  /\ next \in Sessions /\ next.stage = stage /\ next.index = own.index
               /\ next.preferred = own.preferred /\ next.retry = own.retry
               /\ next.declined = own.declined
    BY <1>b DEF Sessions
  <1>c. ASSUME NEW stage \in Stages, own.stage # "idle",
               Proceed(s, [own EXCEPT !.stage = stage]),
               stage \notin {"idle", "begin", "start", "credential"},
               own.stage \in LiveStages <=> stage \in LiveStages,
               stage = "nothing" => own.stage = "begin"
        PROVE  \E next : SessionMoves(s, next)
    <2>1. PICK next : next = [own EXCEPT !.stage = stage]
      OBVIOUS
    <2>2. SessionMoves(s, next)
      BY <1>a, <1>b, <1>c, <2>1
    <2> QED
      BY <2>2
  <1>d. ASSUME NEW verdict \in Verdicts, Close(s, verdict), own.stage \in Talking
        PROVE  \E next : SessionMoves(s, next)
    <2>a. PICK stage \in Stages : stage = "closing"
      BY DEF Stages
    <2>1. PICK next : next = [own EXCEPT !.stage = stage, !.verdict = verdict]
      OBVIOUS
    <2>2. /\ next \in Sessions /\ next.stage = stage /\ next.index = own.index
          /\ next.preferred = own.preferred /\ next.retry = own.retry
          /\ next.declined = own.declined
      BY <2>1 DEF Sessions
    <2>3. Proceed(s, next)
      BY <1>1, <1>d, <2>a, <2>1 DEF Close
    <2>4. SessionMoves(s, next)
      BY <1>a, <1>d, <2>a, <2>2, <2>3 DEF LiveStages, Talking
    <2> QED
      BY <2>4
  \* The process is left: the session ends, or goes on with the next provider.
  <1>e. ASSUME NEW next \in Sessions, Leave(s, next), Coherent(next),
               next.preferred = own.preferred, next.retry = own.retry,
               own.stage \in LiveStages, next.stage \notin LiveStages \cup {"idle"}
        PROVE  SessionMoves(s, next)
    BY <1>1, <1>e DEF SessionMoves, LiveStages, Talking
  <1>f. ASSUME own.stage \in LiveStages, Leave(s, [own EXCEPT !.stage = "error"])
        PROVE  \E next : SessionMoves(s, next)
    <2>1. PICK next : next = [own EXCEPT !.stage = "error"]
      OBVIOUS
    <2>2. /\ next \in Sessions /\ next.stage = "error"
          /\ next.preferred = own.preferred /\ next.retry = own.retry
      BY <1>b, <2>1 DEF Stages, Ended
    <2>3. SessionMoves(s, next)
      BY <1>e, <1>f, <2>1, <2>2 DEF Coherent, LiveStages, Talking
    <2> QED
      BY <2>3
  <1>1a. CASE Begin(s)
    <2>1. CASE Proceed(s, [session[s] EXCEPT !.stage = "error"])
      BY <1>1, <1>1a, <1>c, <2>1 DEF Begin, Stages, Ended, LiveStages, Talking
    <2>2. CASE Proceed(s, [session[s] EXCEPT !.stage = "nothing"])
      BY <1>1, <1>1a, <1>c, <2>2 DEF Begin, Stages, Ended, LiveStages, Talking
    <2>3. CASE /\ Providers > 0
               /\ Proceed(s, [session[s] EXCEPT !.stage = "start",
                                 !.index = IF session[s].preferred = 0 THEN 1
                                           ELSE session[s].preferred])
      <3>1. PICK index \in 1..Providers, stage \in Stages :
               /\ index = IF own.preferred = 0 THEN 1 ELSE own.preferred
               /\ stage = "start"
        BY <1>2, <2>3, ProvidersAssumption DEF Stages
      <3>2. PICK next : next = [own EXCEPT !.stage = stage, !.index = index]
        OBVIOUS
      <3>3. index \in 0..Providers
        BY ProvidersAssumption
      <3>4. /\ next \in Sessions /\ next.stage = stage /\ next.index = index
            /\ next.preferred = own.preferred /\ next.retry = own.retry
        BY <3>2, <3>3 DEF Sessions
      <3>5. Proceed(s, next)
        BY <1>1, <2>3, <3>1, <3>2
      <3>6. Coherent(next)
        BY <1>2, <3>1, <3>4 DEF Coherent, LiveStages, Talking
      <3>7. own.stage = "begin"
        BY <1>1, <1>1a DEF Begin
      <3>8. SessionMoves(s, next)
        BY <1>1, <3>1, <3>4, <3>5, <3>6, <3>7 DEF SessionMoves, LiveStages, Talking
      <3> QED
        BY <3>8
    <2> QED
      BY <1>1a, <2>1, <2>2, <2>3 DEF Begin
  <1>2a. CASE Launch(s)
    <2>1. CASE Proceed(s, [session[s] EXCEPT !.stage = "error"])
      BY <1>1, <1>2a, <1>c, <2>1 DEF Launch, Stages, Ended, LiveStages, Talking
    <2>2. CASE /\ session' = [session EXCEPT ![s].stage = "handshake", ![s].heard = {}]
               /\ running' = running \cup {Process(s)} /\ UNCHANGED cancelled
      <3>1. PICK next : next = [own EXCEPT !.stage = "handshake", !.heard = {}]
        OBVIOUS
      <3>2. /\ next \in Sessions /\ next.stage = "handshake" /\ next.index = own.index
            /\ next.preferred = own.preferred /\ next.retry = own.retry
        BY <3>1 DEF Sessions, Stages, Talking
      <3>3. session' = [session EXCEPT ![s] = next]
        BY <1>1, <2>2, <3>1 DEF ProviderTypeOK, Sessions
      <3>4. Coherent(next) /\ own.stage = "start"
        BY <1>1, <1>2, <1>2a, <3>2 DEF Coherent, LiveStages, Talking, Launch
      <3>5. SessionMoves(s, next)
        BY <1>1, <2>2, <3>2, <3>3, <3>4 DEF SessionMoves, LiveStages, Talking
      <3> QED
        BY <3>5
    <2> QED
      BY <1>2a, <2>1, <2>2 DEF Launch
  <1>3a. CASE Handshake(s)
    <2>1. PICK message \in {"request", "response"} :
             Proceed(s, [own EXCEPT !.heard = own.heard \cup {message},
                           !.stage = IF own.heard \cup {message} = {"request", "response"}
                                     THEN "monitor" ELSE "handshake"])
      BY <1>1, <1>3a DEF Handshake
    <2>2. PICK heard \in SUBSET {"request", "response"} : heard = own.heard \cup {message}
      BY <1>2
    <2>3. PICK stage \in {"monitor", "handshake"} :
             stage = IF own.heard \cup {message} = {"request", "response"}
                     THEN "monitor" ELSE "handshake"
      OBVIOUS
    <2>4. PICK next : next = [own EXCEPT !.heard = heard, !.stage = stage]
      OBVIOUS
    <2>5. stage \in Stages
      BY DEF Stages, Talking
    <2>6. /\ next \in Sessions /\ next.stage = stage /\ next.index = own.index
          /\ next.preferred = own.preferred /\ next.retry = own.retry
          /\ next.declined = own.declined
      BY <2>4, <2>5 DEF Sessions
    <2>7. Proceed(s, next) /\ own.stage = "handshake"
      BY <1>1, <1>3a, <2>1, <2>2, <2>3, <2>4 DEF Handshake
    <2>8. SessionMoves(s, next)
      BY <1>a, <2>6, <2>7 DEF LiveStages, Talking
    <2> QED
      BY <2>8
  <1>4a. CASE Prepare(s)
    BY <1>1, <1>4a, <1>c DEF Prepare, Stages, LiveStages, Talking
  <1>5a. CASE Claims(s)
    BY <1>1, <1>5a, <1>c, <1>d DEF Claims, Stages, LiveStages, Talking, Verdicts
  <1>6a. CASE Level(s)
    BY <1>1, <1>6a, <1>c, <1>d DEF Level, Stages, LiveStages, Talking, Verdicts
  <1>7a. CASE Credentials(s)
    BY <1>1, <1>7a, <1>d DEF Credentials, Talking, Verdicts
  <1>8a. CASE Break(s) \/ Stopped(s)
    BY <1>1, <1>8a, <1>f DEF Break, Stopped, LiveStages
  <1>9a. CASE TimeOut(s) \/ ObserveCancellation(s)
    BY <1>1, <1>9a, <1>c DEF TimeOut, ObserveCancellation, Stop, Stages, LiveStages, Talking
  <1>10a. CASE Closed(s)
    <2> DEFINE declined == own.declined \cup (IF own.verdict = "declined"
                                              THEN {own.index} ELSE {})
    <2>1. own.stage = "closing" /\ Leave(s, Conclude(own))
      BY <1>1, <1>10a DEF Closed
    <2>2. own.index \in 1..Providers /\ own.preferred \in {0, own.index}
      BY <1>2, <2>1 DEF Coherent, LiveStages
    <2>3. PICK final \in SUBSET (1..Providers) : final = declined
      BY <1>2, <2>2
    <2>4. PICK stage \in {"credential", "start", "nothing", "error"} :
             stage = Outcome(own, final)
      BY DEF Outcome
    <2>5. /\ stage = "start" => own.preferred = 0 /\ own.index < Providers
          /\ stage = "nothing" => final = {}
      BY <2>4 DEF Outcome
    <2>6. PICK index \in 1..Providers :
             /\ index = IF stage = "start" THEN own.index + 1 ELSE own.index
             /\ own.preferred \in {0, index}
      BY <2>2, <2>5, ProvidersAssumption
    <2>7. PICK next : next = [own EXCEPT !.stage = stage, !.declined = final, !.index = index]
      OBVIOUS
    <2>8. Leave(s, next)
      BY <2>1, <2>3, <2>4, <2>6, <2>7 DEF Conclude
    <2>9. /\ next \in Sessions /\ next.stage = stage /\ next.index = index
          /\ next.preferred = own.preferred /\ next.retry = own.retry
          /\ next.declined = final
      <3>1. stage \in Stages /\ index \in 0..Providers
        BY ProvidersAssumption DEF Stages, Ended
      <3> QED
        BY <2>7, <3>1 DEF Sessions
    <2>10. Coherent(next)
      BY <2>5, <2>6, <2>9 DEF Coherent, LiveStages, Talking
    <2>11. SessionMoves(s, next)
      BY <1>e, <2>1, <2>8, <2>9, <2>10 DEF LiveStages, Talking
    <2> QED
      BY <2>11
  <1> QED
    BY <1>1a, <1>2a, <1>3a, <1>4a, <1>5a, <1>6a, <1>7a, <1>8a, <1>9a, <1>10a
    DEF SessionStep

-------------------------------------------------------------------------------
(* The inductive invariant but for the permits.                            *)

\* A request that acquires a credential holds the mutex of its source.
LockedAt(s) ==
    /\ lock[s] = Nobody => session[s].stage = "idle"
    /\ lock[s] # Nobody =>
          /\ At(lock[s], "acquire") /\ Source(lock[s]) = s
          /\ request[lock[s]].seen = credential[s].generation
          /\ session[s].preferred = credential[s].index
          /\ session[s].retry = (~IsProbe(lock[s]) /\ credential[s].generation > 0)

Locked ==
    /\ \A s \in Sources : LockedAt(s)
    /\ \A r \in Requests : At(r, "acquire") => lock[Source(r)] = r

IInv == Typed /\ SessionsSound /\ Locked /\ NoOrphans

\* The record of one request is replaced.
LEMMA BudgetKept ==
    ASSUME Typed, NEW r \in Requests, NEW record \in Records, Bounded(record),
           IsProbe(r) => record.challenges = 0,
           request' = [request EXCEPT ![r] = record], UNCHANGED world
    PROVE  request' \in [Requests -> Records] /\ Budget'
  <1>1. request' \in [Requests -> Records]
    BY DEF Typed, Types
  <1>2. ASSUME NEW q \in Requests
        PROVE  (Bounded(request[q]) /\ (IsProbe(q) => request[q].challenges = 0))'
    <2>1. CASE q = r
      BY <2>1 DEF Typed, Types, Bounded, IsProbe
    <2>2. CASE q # r
      BY <1>2, <2>2 DEF Typed, Types, Budget, Bounded, IsProbe
    <2> QED
      BY <2>1, <2>2
  <1> QED
    BY <1>1, <1>2 DEF Budget

LEMMA FreshSound ==
    ASSUME Typed, NEW place \in Final \cup {"ready"}
    PROVE  /\ Fresh(place) \in Records /\ Bounded(Fresh(place))
           /\ Fresh(place).challenges = 0 /\ Fresh(place).at = place
  <1>1. world.tries \in Nat \ {0}
    BY WorldFacts DEF Typed
  <1> QED
    BY <1>1 DEF Fresh, Records, Places, Bounded, Sending, Final

LEMMA MoveKeeps ==
    ASSUME IInv, NEW r \in Requests, NEW record, Moves(r, record)
    PROVE  IInv'
  <1>1. Typed'
    BY BudgetKept DEF IInv, Typed, Types, ProviderTypeOK, Moves, Alone, providerVars
  <1>2. SessionsSound' /\ NoOrphans'
    BY DEF IInv, SessionsSound, NoOrphans, Moves, Alone, providerVars, Process, Alive
  <1>3. \A q \in Requests : At(q, "acquire")' <=> At(q, "acquire")
    BY DEF IInv, Typed, Types, Moves, At
  <1>4. \A q \in Requests : At(q, "acquire") => request'[q] = request[q]
    BY DEF IInv, Typed, Types, Moves, At
  <1>5. Locked'
    BY <1>3, <1>4 DEF IInv, Typed, Types, Locked, LockedAt, Moves, Alone, providerVars,
       IsProbe, Source, Nobody
  <1> QED
    BY <1>1, <1>2, <1>5 DEF IInv

LEMMA TakeKeeps ==
    ASSUME IInv, NEW r \in Requests, Take(r)
    PROVE  IInv'
  <1>1. PICK own \in Records : own = request[r]
    BY DEF IInv, Typed, Types
  <1>2. PICK place \in {"global", "snapshot"} :
           /\ request' = [request EXCEPT ![r].at = place]
           /\ own.at \in {"source", "global"}
    BY <1>1 DEF Take, May, At
  <1>3. PICK record : record = [own EXCEPT !.at = place]
    OBVIOUS
  <1>4. /\ record \in Records /\ record.at = place /\ record.tries = own.tries
        /\ record.sent = own.sent /\ record.challenges = own.challenges
    BY <1>2, <1>3 DEF Records, Places
  <1>5. request' = [request EXCEPT ![r] = record]
    BY <1>1, <1>2, <1>3
  <1>6. UNCHANGED world /\ Alone
    BY DEF Take
  <1>7. Bounded(record) /\ (IsProbe(r) => record.challenges = 0)
    BY <1>1, <1>2, <1>4, RecordFacts DEF Bounded, Sending, IInv
  <1>8. sourcePermits' \in [Sources -> SUBSET Requests] /\ globalPermits' \subseteq Requests
    BY DEF Take, IInv, Typed, Types
  <1>9. Typed'
    BY <1>4, <1>5, <1>6, <1>7, <1>8, BudgetKept
    DEF IInv, Typed, Types, ProviderTypeOK, Alone, providerVars
  <1>10. SessionsSound' /\ NoOrphans'
    BY <1>6 DEF IInv, SessionsSound, NoOrphans, Alone, providerVars, Process, Alive
  <1>11. \A q \in Requests : At(q, "acquire")' <=> At(q, "acquire")
    BY <1>1, <1>2, <1>4, <1>5 DEF IInv, Typed, Types, At
  <1>12. \A q \in Requests : At(q, "acquire") => request'[q] = request[q]
    BY <1>1, <1>2, <1>4, <1>5 DEF IInv, Typed, Types, At
  <1>13. Locked'
    BY <1>6, <1>11, <1>12 DEF IInv, Typed, Types, Locked, LockedAt, Alone,
       providerVars, IsProbe, Source, Nobody
  <1> QED
    BY <1>9, <1>10, <1>13 DEF IInv

\* The session of a source is left for good.
LEMMA LeaveIdle ==
    ASSUME ProviderTypeOK, SessionsSound, NoOrphans, NEW s \in Sources, Leave(s, Idle)
    PROVE  ProviderTypeOK' /\ SessionsSound' /\ NoOrphans'
  <1>1. Idle \in Sessions /\ Coherent(Idle) /\ Idle.stage = "idle"
    BY IdleSound
  <1>2. session' = [session EXCEPT ![s] = Idle] /\ running' = running \ {Process(s)}
        /\ UNCHANGED cancelled
    BY DEF Leave
  <1>3. ProviderTypeOK' /\ SessionsSound'
    BY <1>1, <1>2 DEF ProviderTypeOK, SessionsSound, Coherent
  <1>4. \A t \in Sources \ {s} : Process(t)' = Process(t) /\ Alive(t)' = Alive(t)
    BY <1>2 DEF Process, Alive, ProviderTypeOK
  <1>5. ~Alive(s)' /\ \A t \in Sources \ {s} : Process(t) # Process(s)
    BY <1>1, <1>2 DEF Process, Alive, ProviderTypeOK, Talking
  <1> QED
    BY <1>2, <1>3, <1>4, <1>5 DEF NoOrphans

LEMMA EndKeeps ==
    ASSUME IInv, NEW r \in Requests, NEW place \in Final, End(r, place)
    PROVE  IInv'
  <1>1. /\ request' = [request EXCEPT ![r] = Fresh(place)] /\ UNCHANGED <<world, credential>>
        /\ Source(r) \in Sources
        /\ Fresh(place) \in Records /\ Bounded(Fresh(place))
        /\ Fresh(place).challenges = 0 /\ Fresh(place).at = place
    BY FreshSound, WorldFacts DEF End, IInv, Typed
  <1>2. request' \in [Requests -> Records] /\ Budget'
    BY <1>1, BudgetKept DEF IInv
  <1>3. ProviderTypeOK' /\ SessionsSound' /\ NoOrphans'
    <2>1. CASE lock[Source(r)] = r
      BY <1>1, <2>1, LeaveIdle DEF End, IInv, Typed, Types
    <2>2. CASE lock[Source(r)] # r
      BY <2>2 DEF End, IInv, Typed, Types, ProviderTypeOK, SessionsSound, NoOrphans,
                  providerVars, Process, Alive
    <2> QED
      BY <2>1, <2>2
  <1>4. /\ sourcePermits' \in [Sources -> SUBSET Requests] /\ globalPermits' \subseteq Requests
        /\ lock' \in [Sources -> Requests \cup {Nobody}]
    BY <1>1 DEF End, IInv, Typed, Types
  <1>5. Typed'
    BY <1>1, <1>2, <1>3, <1>4 DEF IInv, Typed, Types
  <1>6. /\ ~At(r, "acquire")'
        /\ \A q \in Requests \ {r} : request'[q] = request[q]
    BY <1>1 DEF IInv, Typed, Types, At, Final
  <1>7. /\ lock'[Source(r)] # r
        /\ \A s \in Sources : lock'[s] = lock[s] \/ (s = Source(r) /\ lock'[s] = Nobody)
        /\ lock[Source(r)] # r => lock' = lock
    BY <1>1, RequestsAssumption DEF End, IInv, Typed, Types, Nobody
  <1>8. \A s \in Sources : lock[s] # r =>
            session'[s] = session[s] /\ (lock[s] # Nobody => lock[s] # r)
    BY <1>1 DEF End, Leave, providerVars, IInv, Typed, Types, ProviderTypeOK, Locked,
       LockedAt
  <1>9. lock[Source(r)] = r => session'[Source(r)].stage = "idle"
    BY <1>1, IdleSound DEF End, Leave, IInv, Typed, Types, ProviderTypeOK
  <1>10. ASSUME NEW s \in Sources PROVE LockedAt(s)'
    <2>1. CASE lock[s] = r
      <3>1. s = Source(r)
        BY <2>1, RequestsAssumption DEF IInv, Locked, LockedAt, Nobody
      <3> QED
        BY <1>7, <1>9, <2>1, <3>1 DEF LockedAt
    <2>2. CASE lock[s] # r
      <3>1. lock'[s] = lock[s]
        BY <1>7, <2>2 DEF End, IInv, Typed, Types
      <3>2. session'[s] = session[s]
        BY <1>8, <2>2
      <3>3. CASE lock[s] = Nobody
        BY <3>1, <3>2, <3>3 DEF IInv, Locked, LockedAt
      <3>4. CASE lock[s] # Nobody
        <4>1. lock[s] \in Requests \ {r} /\ request'[lock[s]] = request[lock[s]]
          BY <1>6, <2>2, <3>4 DEF IInv, Typed, Types
        <4> QED
          BY <1>1, <3>1, <3>2, <3>4, <4>1
          DEF IInv, Locked, LockedAt, At, Source, IsProbe
      <3> QED
        BY <3>3, <3>4
    <2> QED
      BY <2>1, <2>2
  <1>11. ASSUME NEW q \in Requests, At(q, "acquire")' PROVE (lock[Source(q)] = q)'
    <2>1. q # r /\ At(q, "acquire") /\ lock[Source(q)] = q
      BY <1>6, <1>11 DEF At, IInv, Locked
    <2>2. Source(q) \in Sources /\ lock[Source(q)] # r
      BY <2>1, WorldFacts DEF IInv, Typed
    <2>3. lock'[Source(q)] = q
      BY <1>7, <2>1, <2>2 DEF End, IInv, Typed, Types
    <2> QED
      BY <1>1, <2>3 DEF Source
  <1> QED
    BY <1>3, <1>5, <1>10, <1>11 DEF IInv, Locked

LEMMA EnterKeeps ==
    ASSUME IInv, NEW r \in Requests, Enter(r)
    PROVE  IInv'
  <1> DEFINE s == Source(r)
             opened == Opened(credential[s].index, ~IsProbe(r) /\ request[r].seen > 0)
  <1>1. /\ s \in Sources /\ lock[s] = Nobody /\ At(r, "queue")
        /\ credential[s].generation = request[r].seen
        /\ lock' = [lock EXCEPT ![s] = r]
        /\ session' = [session EXCEPT ![s] = opened]
        /\ UNCHANGED <<cancelled, running, credential, world, sourcePermits, globalPermits>>
    BY WorldFacts DEF Enter, May, Proceed, Goto, Change, IInv, Typed
  <1>2. /\ opened \in Sessions /\ Coherent(opened) /\ opened.stage = "begin"
        /\ opened.preferred = credential[s].index
        /\ opened.retry = (~IsProbe(r) /\ credential[s].generation > 0)
    <2>1. credential[s].index \in 0..Providers
      BY <1>1 DEF IInv, Typed, Types
    <2> QED
      BY <1>1, <2>1, IdleSound
  <1> HIDE DEF opened
  <1>3. PICK own \in Records : own = request[r]
    BY DEF IInv, Typed, Types
  <1>4. PICK next : next = [own EXCEPT !.at = "acquire"]
    OBVIOUS
  <1>5. /\ next \in Records /\ next.at = "acquire" /\ next.tries = own.tries
        /\ next.sent = own.sent /\ next.challenges = own.challenges
        /\ next.seen = own.seen
    BY <1>4 DEF Records, Places
  <1>6. request' = [request EXCEPT ![r] = next]
    BY <1>3, <1>4 DEF Enter, Goto, Change
  <1>7. Bounded(next) /\ (IsProbe(r) => next.challenges = 0)
    BY <1>1, <1>3, <1>5, RecordFacts DEF Bounded, Sending, IInv, At
  <1>8. Typed'
    BY <1>1, <1>2, <1>5, <1>6, <1>7, BudgetKept DEF IInv, Typed, Types, ProviderTypeOK
  <1>9. SessionsSound'
    BY <1>1, <1>2 DEF IInv, Typed, Types, ProviderTypeOK, SessionsSound, Coherent
  <1>10. session[s].stage = "idle"
    BY <1>1 DEF IInv, Locked, LockedAt
  <1>11. \A t \in Sources : Alive(t)' = Alive(t) /\ (t # s => Process(t)' = Process(t))
    BY <1>1, <1>2, <1>10 DEF IInv, Typed, Types, ProviderTypeOK, Alive, Process, Talking
  <1>12. ~Alive(s)
    BY <1>10 DEF Alive, Talking
  <1>13. NoOrphans'
    BY <1>1, <1>11, <1>12 DEF IInv, NoOrphans
  <1>14. ASSUME NEW t \in Sources PROVE LockedAt(t)'
    <2>1. CASE t = s
      BY <1>1, <1>2, <1>3, <1>5, <1>6, <2>1, RequestsAssumption
      DEF LockedAt, At, Source, IsProbe, Nobody, IInv, Typed, Types, ProviderTypeOK
    <2>2. CASE t # s
      <3>1. lock'[t] = lock[t] /\ session'[t] = session[t] /\ LockedAt(t)
        BY <1>1, <2>2 DEF IInv, Typed, Types, ProviderTypeOK, Locked
      <3>2. lock[t] # Nobody => lock[t] \in Requests \ {r}
        BY <1>1, <2>2, <3>1 DEF IInv, Typed, Types, LockedAt
      <3> QED
        BY <1>1, <1>6, <3>1, <3>2 DEF LockedAt, At, Source, IsProbe, IInv, Typed, Types
    <2> QED
      BY <2>1, <2>2
  <1>15. ASSUME NEW q \in Requests, At(q, "acquire")' PROVE (lock[Source(q)] = q)'
    <2>1. CASE q = r
      BY <1>1, <2>1 DEF IInv, Typed, Types, Source
    <2>2. CASE q # r
      <3>1. At(q, "acquire") /\ lock[Source(q)] = q /\ Source(q) # s
        BY <1>1, <1>6, <1>15, <2>2, RequestsAssumption
        DEF At, IInv, Typed, Types, Locked, Nobody
      <3>2. lock'[Source(q)] = q
        BY <1>1, <3>1, WorldFacts DEF IInv, Typed, Types
      <3> QED
        BY <1>1, <3>2 DEF Source
    <2> QED
      BY <2>1, <2>2
  <1> QED
    BY <1>8, <1>9, <1>13, <1>14, <1>15 DEF IInv, Locked

LEMMA SettleKeeps ==
    ASSUME IInv, NEW r \in Requests, Settles(r)
    PROVE  IInv'
  <1> DEFINE s == Source(r)
  <1>1. /\ s \in Sources /\ At(r, "acquire") /\ lock[s] = r
        /\ session[s].stage \in {"credential", "nothing"}
        /\ lock' = [lock EXCEPT ![s] = Nobody] /\ Leave(s, Idle)
        /\ UNCHANGED <<world, sourcePermits, globalPermits>>
    BY WorldFacts DEF Settles, Obtain, Refuse, Driven, May, Release, Change, IInv, Typed, Locked
  <1>2. \E record : /\ record \in Records /\ Bounded(record) /\ record.at # "acquire"
                    /\ IsProbe(r) => record.challenges = 0
                    /\ request' = [request EXCEPT ![r] = record]
    <2>1. PICK own \in Records : own = request[r]
      BY DEF IInv, Typed, Types
    <2>2. /\ Fresh("done") \in Records /\ Bounded(Fresh("done"))
          /\ Fresh("done").challenges = 0 /\ Fresh("done").at = "done"
      BY FreshSound DEF IInv, Final
    <2>3. PICK body : body = [own EXCEPT !.at = "body"]
      OBVIOUS
    <2>4. body \in Records /\ body.at = "body" /\ body.tries = own.tries
          /\ body.sent = own.sent /\ body.challenges = own.challenges
      BY <2>3 DEF Records, Places
    <2>5. Bounded(body)
      BY <1>1, <2>1, <2>4, RecordFacts DEF IInv, Bounded, Sending, At
    <2>6. /\ NextChallenge(r) \in Records /\ Bounded(NextChallenge(r))
          /\ NextChallenge(r).at = "snapshot"
      BY <1>1, NextChallengeSound DEF IInv, At
    <2>7. CASE Obtain(r)
      BY <2>2, <2>6, <2>7 DEF Obtain, Change
    <2>8. CASE Refuse(r)
      BY <2>1, <2>2, <2>3, <2>4, <2>5, <2>8 DEF Refuse, Change
    <2> QED
      BY <2>7, <2>8 DEF Settles
  <1>3. PICK record : /\ record \in Records /\ Bounded(record) /\ record.at # "acquire"
                      /\ IsProbe(r) => record.challenges = 0
                      /\ request' = [request EXCEPT ![r] = record]
    BY <1>2
  <1>4. request' \in [Requests -> Records] /\ Budget'
    BY <1>1, <1>3, BudgetKept DEF IInv
  <1>5. ProviderTypeOK' /\ SessionsSound' /\ NoOrphans'
    BY <1>1, LeaveIdle DEF IInv, Typed, Types
  <1>6. /\ credential' \in [Sources -> [generation : Nat, index : 0..Providers]]
        /\ \A t \in Sources \ {s} : credential'[t] = credential[t]
    <2>1. CASE Obtain(r)
      <3>1. session[s].index \in 0..Providers /\ credential[s].generation + 1 \in Nat
        BY <1>1 DEF IInv, Typed, Types, ProviderTypeOK, Sessions
      <3>2. [generation |-> credential[s].generation + 1, index |-> session[s].index]
              \in [generation : Nat, index : 0..Providers]
        BY <3>1
      <3> QED
        BY <2>1, <3>2 DEF Obtain, IInv, Typed, Types
    <2>2. CASE Refuse(r)
      BY <2>2 DEF Refuse, IInv, Typed, Types
    <2> QED
      BY <2>1, <2>2 DEF Settles
  <1>7. Typed'
    BY <1>1, <1>4, <1>5, <1>6 DEF IInv, Typed, Types
  <1>8. ASSUME NEW t \in Sources PROVE LockedAt(t)'
    <2>1. CASE t = s
      BY <1>1, <2>1, IdleSound DEF LockedAt, Leave, IInv, Typed, Types, ProviderTypeOK
    <2>2. CASE t # s
      <3>1. /\ lock'[t] = lock[t] /\ session'[t] = session[t] /\ LockedAt(t)
            /\ credential'[t] = credential[t]
        BY <1>1, <1>6, <2>2 DEF Leave, IInv, Typed, Types, ProviderTypeOK, Locked
      <3>2. lock[t] # Nobody => lock[t] \in Requests \ {r}
        BY <1>1, <2>2, <3>1 DEF IInv, Typed, Types, LockedAt
      <3> QED
        BY <1>1, <1>3, <3>1, <3>2 DEF LockedAt, At, Source, IsProbe, IInv, Typed, Types
    <2> QED
      BY <2>1, <2>2
  <1>9. ASSUME NEW q \in Requests, At(q, "acquire")' PROVE (lock[Source(q)] = q)'
    <2>1. q # r /\ At(q, "acquire") /\ lock[Source(q)] = q /\ Source(q) # s
      BY <1>1, <1>3, <1>9 DEF At, IInv, Typed, Types, Locked
    <2>2. lock'[Source(q)] = q
      BY <1>1, <2>1, WorldFacts DEF IInv, Typed, Types
    <2> QED
      BY <1>1, <2>2 DEF Source
  <1> QED
    BY <1>5, <1>7, <1>8, <1>9 DEF IInv, Locked

LEMMA AdvanceKeeps ==
    ASSUME IInv, NEW r \in Requests, Advance(r)
    PROVE  IInv'
  <1>0. PICK s \in Sources : s = Source(r)
    BY WorldFacts DEF IInv, Typed
  <1>1. lock[s] = r /\ UNCHANGED <<world, transportVars>> /\ SessionStep(s)
    BY <1>0 DEF Advance
  <1>2. PICK next : SessionMoves(s, next)
    BY <1>1, SessionShapes DEF IInv, Typed, Types
  <1>3. /\ next \in Sessions /\ Coherent(next) /\ session' = [session EXCEPT ![s] = next]
        /\ next.preferred = session[s].preferred /\ next.retry = session[s].retry
        /\ UNCHANGED cancelled
    BY <1>2 DEF SessionMoves, Proceed, Leave
  <1>4. /\ session' \in [Sources -> Sessions] /\ session'[s] = next
        /\ \A t \in Sources \ {s} : session'[t] = session[t]
    BY <1>3 DEF IInv, Typed, Types, ProviderTypeOK
  <1>5. SessionsSound'
    BY <1>3, <1>4 DEF IInv, SessionsSound, Coherent
  <1>6. \A t \in Sources \ {s} : Process(t)' = Process(t) /\ Alive(t)' = Alive(t)
                                 /\ Process(t) # Process(s)
    BY <1>4 DEF Process, Alive
  <1>7. /\ Alive(s) <=> session[s].stage \in LiveStages
        /\ Alive(s)' <=> next.stage \in LiveStages
        /\ next.index = session[s].index => Process(s)' = Process(s)
    BY <1>4 DEF Process, Alive, LiveStages
  <1>8. NoOrphans'
    <2>1. CASE /\ UNCHANGED running
               /\ next.stage \in LiveStages <=> session[s].stage \in LiveStages
               /\ session[s].stage \in LiveStages => next.index = session[s].index
      BY <1>6, <1>7, <2>1 DEF IInv, NoOrphans
    <2>2. CASE /\ running' = running \cup {Process(s)}
               /\ session[s].stage \notin LiveStages /\ next.stage \in LiveStages
               /\ next.index = session[s].index
      BY <1>1, <1>6, <1>7, <2>2 DEF IInv, NoOrphans
    <2>3. CASE /\ running' = running \ {Process(s)}
               /\ session[s].stage \in LiveStages /\ next.stage \notin LiveStages
      BY <1>6, <1>7, <2>3 DEF IInv, NoOrphans
    <2> QED
      BY <1>2, <2>1, <2>2, <2>3 DEF SessionMoves, Proceed, Leave
  <1>9. running' \subseteq Sources \X (1..Providers)
    <2>1. \A t \in Sources : Alive(t)' => session'[t].index \in 1..Providers
      BY <1>5 DEF SessionsSound, Coherent, Alive, LiveStages
    <2> QED
      BY <1>8, <2>1 DEF NoOrphans, Process
  <1>10. Typed'
    BY <1>1, <1>3, <1>4, <1>9
    DEF IInv, Typed, Types, ProviderTypeOK, transportVars, Budget, Bounded, IsProbe
  <1>11. ASSUME NEW t \in Sources PROVE LockedAt(t)'
    <2>1. CASE t = s
      <3>1. lock[t] # Nobody
        BY <1>1, <2>1, RequestsAssumption DEF Nobody
      <3> QED
        BY <1>1, <1>3, <1>4, <2>1, <3>1
        DEF IInv, Locked, LockedAt, transportVars, At, Source, IsProbe
    <2>2. CASE t # s
      BY <1>1, <1>4, <2>2 DEF IInv, Locked, LockedAt, transportVars, At, Source, IsProbe
    <2> QED
      BY <2>1, <2>2
  <1>12. \A q \in Requests : At(q, "acquire")' => (lock[Source(q)] = q)'
    BY <1>1 DEF IInv, Locked, transportVars, At, Source
  <1> QED
    BY <1>5, <1>8, <1>10, <1>11, <1>12 DEF IInv, Locked

LEMMA InitHolds == Init => IInv
  <1> SUFFICES ASSUME Init PROVE IInv
    OBVIOUS
  <1>1. world \in WorldType /\ world.tries \in Nat \ {0}
    BY WorldsAssumption DEF Init, WorldType
  <1>2. /\ Fresh("ready") \in Records /\ Bounded(Fresh("ready"))
        /\ Fresh("ready").challenges = 0 /\ Fresh("ready").at = "ready"
    BY <1>1 DEF Fresh, Records, Places, Bounded, Sending
  <1>3. Idle \in Sessions /\ Coherent(Idle) /\ Idle.stage = "idle"
    BY IdleSound
  <1>4. ProviderTypeOK /\ SessionsSound /\ NoOrphans
    BY <1>3 DEF Init, ProviderInit, ProviderTypeOK, SessionsSound, NoOrphans, Alive, Talking
  <1>5. Typed
    BY <1>2, <1>4, ProvidersAssumption DEF Init, Typed, Types, Budget, Nobody
  <1>6. Locked
    BY <1>2, <1>3 DEF Init, ProviderInit, Locked, LockedAt, At
  <1> QED
    BY <1>4, <1>5, <1>6 DEF IInv

LEMMA NextKeeps == IInv /\ [Next]_vars => IInv'
  <1> SUFFICES ASSUME IInv, [Next]_vars PROVE IInv'
    OBVIOUS
  <1>1. ASSUME NEW r \in Requests, Step(r) \/ Cancel(r) \/ Drop(r) PROVE IInv'
    BY <1>1, StepShapes, MoveKeeps, TakeKeeps, EndKeeps, EnterKeeps, SettleKeeps,
       AdvanceKeeps DEF IInv
  <1>2. CASE UNCHANGED <<session, running>> /\ UNCHANGED <<world, transportVars>>
             /\ cancelled' \in BOOLEAN
    BY <1>2 DEF IInv, Typed, Types, ProviderTypeOK, SessionsSound, Coherent, Locked, LockedAt,
       NoOrphans, transportVars, Budget, Bounded, IsProbe, At, Source, Process, Alive
  <1>3. CASE Signal /\ UNCHANGED <<world, transportVars>>
    BY <1>2, <1>3 DEF Signal
  <1>4. CASE UNCHANGED vars
    BY <1>2, <1>4 DEF vars, providerVars, IInv, Typed, Types, ProviderTypeOK
  <1> QED
    BY <1>1, <1>3, <1>4 DEF Next

LEMMA Invariant == Spec => []IInv
  BY InitHolds, NextKeeps, PTL DEF Spec

\* Types, and the bounds on attempts: no request falls out of its loops, and none
\* sends more than three times its network attempts.
THEOREM TransportType == Spec => []TypeOK
  <1>1. IInv => TypeOK
    BY BudgetSuffices DEF IInv
  <1> QED
    BY <1>1, Invariant, PTL

\* A provider is asked only for the request that holds the mutex and was refused with
\* the credential that is still the source's.
THEOREM Reasoned == Spec => []AskedForReason
  <1>1. IInv => AskedForReason
    BY DEF IInv, Locked, LockedAt, AskedForReason
  <1> QED
    BY <1>1, Invariant, PTL

\* Provider processes are those of the sessions in progress.
THEOREM Reaped == Spec => []NoOrphans
  <1>1. IInv => NoOrphans
    BY DEF IInv
  <1> QED
    BY <1>1, Invariant, PTL

\* The provider that served a source keeps it.
THEOREM Sticky == Spec => []ProviderSticks
  <1>1. ASSUME IInv PROVE ProviderSticks
    <2>1. ASSUME NEW s \in Sources, Alive(s)
          PROVE  credential[s].index \in {0, session[s].index}
      <3>1. session[s].stage # "idle" /\ session[s].preferred \in {0, session[s].index}
        BY <1>1, <2>1 DEF IInv, SessionsSound, Coherent, Alive, LiveStages, Talking
      <3> QED
        BY <1>1, <3>1 DEF IInv, Locked, LockedAt
    <2> QED
      BY <1>1, <2>1 DEF IInv, NoOrphans, ProviderSticks, Process
  <1> QED
    BY <1>1, Invariant, PTL

\* No acquisition ends without a credential while hiding a decline.
THEOREM Honest == Spec => []DeclineIsReported
  <1>1. IInv => DeclineIsReported
    BY DEF IInv, SessionsSound, Coherent, DeclineIsReported
  <1> QED
    BY <1>1, Invariant, PTL

-------------------------------------------------------------------------------
(* Permits.                                                                *)

\* A probe never waits for a permit.
ProbesPass == \A r \in Requests : IsProbe(r) => request[r].at \notin {"source", "global"}

Permitted == PermitsBalance /\ ProbesPass

\* A step that touches no permit, and after which the same requests ought to hold one.
LEMMA HeldAlike ==
    ASSUME Typed, Permitted, UNCHANGED <<world, sourcePermits, globalPermits>>,
           \A q \in Requests : /\ HoldsSource(q)' <=> HoldsSource(q)
                               /\ HoldsGlobal(q)' <=> HoldsGlobal(q),
           ProbesPass'
    PROVE  Permitted'
  <1>1. \A s \in Sources :
           {q \in Requests : Source(q) = s /\ HoldsSource(q)}'
              = {q \in Requests : Source(q) = s /\ HoldsSource(q)}
    BY DEF Source
  <1>2. {q \in Requests : HoldsGlobal(q)}' = {q \in Requests : HoldsGlobal(q)}
    OBVIOUS
  <1> QED
    BY <1>1, <1>2 DEF Permitted, PermitsBalance

\* A set of requests that gains or loses one stays within its limit.
LEMMA WithinLimit ==
    ASSUME NEW set \in SUBSET Requests, NEW r \in Requests, NEW limit \in Nat
    PROVE  /\ Cardinality(set) <= limit => Cardinality(set \ {r}) <= limit
           /\ Cardinality(set) < limit => Cardinality(set \cup {r}) <= limit
  <1>1. IsFiniteSet(set) /\ IsFiniteSet(set \ {r})
    BY RequestsAssumption, FS_Subset
  <1>2. /\ Cardinality(set) \in Nat /\ Cardinality(set \ {r}) \in Nat
        /\ Cardinality(set \ {r}) <= Cardinality(set)
    BY <1>1, FS_CardinalityType, FS_Subset
  <1>3. \/ Cardinality(set \cup {r}) = Cardinality(set) + 1
        \/ Cardinality(set \cup {r}) = Cardinality(set)
    BY <1>1, FS_AddElement
  <1> QED
    BY <1>2, <1>3

\* One request comes to hold a permit, or ceases to.
LEMMA HeldOtherwise ==
    ASSUME Typed, Permitted, NEW r \in Requests, NEW place \in Places, UNCHANGED world,
           \A q \in Requests \ {r} : request'[q].at = request[q].at,
           request'[r].at = place, IsProbe(r) => place \notin {"source", "global"},
           NEW s \in Sources, s = Source(r),
           sourcePermits' = [sourcePermits EXCEPT ![s] =
                               IF HoldsSource(r)' THEN @ \cup {r} ELSE @ \ {r}],
           globalPermits' = IF HoldsGlobal(r)' THEN globalPermits \cup {r}
                                               ELSE globalPermits \ {r},
           HoldsSource(r)' /\ ~HoldsSource(r)
              => Cardinality(sourcePermits[s]) < world.sourceLimit,
           HoldsGlobal(r)' /\ ~HoldsGlobal(r)
              => Cardinality(globalPermits) < world.globalLimit
    PROVE  Permitted'
  <1>1. /\ world.sourceLimit \in Nat /\ world.globalLimit \in Nat
        /\ \A q \in Requests : Source(q) \in Sources
    BY WorldFacts DEF Typed
  <1>2. /\ \A t \in Sources : sourcePermits[t] \in SUBSET Requests
        /\ sourcePermits \in [Sources -> SUBSET Requests]
    BY DEF Typed, Types
  <1>3. /\ world'.sourceLimit = world.sourceLimit
        /\ world'.globalLimit = world.globalLimit
    OBVIOUS
  <1>4. \A q \in Requests \ {r} : /\ HoldsSource(q)' <=> HoldsSource(q)
                                  /\ HoldsGlobal(q)' <=> HoldsGlobal(q)
    BY DEF HoldsSource, HoldsGlobal, At, IsProbe
  <1>5. ASSUME NEW t \in Sources
        PROVE  /\ sourcePermits'[t] = {q \in Requests : Source(q) = t /\ HoldsSource(q)}'
               /\ Cardinality(sourcePermits'[t]) <= world.sourceLimit
    <2>1. /\ sourcePermits[t] = {q \in Requests : Source(q) = t /\ HoldsSource(q)}
          /\ Cardinality(sourcePermits[t]) <= world.sourceLimit
      BY DEF Permitted, PermitsBalance
    <2>2. CASE t # s
      <3>1. sourcePermits'[t] = sourcePermits[t]
        BY <1>2, <2>2
      <3>2. \A q \in Requests : Source(q)' = Source(q) /\ (Source(q) = t => q # r)
        BY <2>2 DEF Source
      <3>3. \A q \in Requests :
               (Source(q) = t /\ HoldsSource(q))' <=> (Source(q) = t /\ HoldsSource(q))
        BY <1>4, <3>2
      <3> QED
        BY <1>3, <2>1, <3>1, <3>3
    <2>3. CASE t = s /\ HoldsSource(r)'
      <3>1. sourcePermits'[t] = sourcePermits[t] \cup {r}
        BY <1>2, <2>3
      <3>2. Cardinality(sourcePermits'[t]) <= world.sourceLimit
        <4>1. CASE HoldsSource(r)
          <5>1. sourcePermits'[t] = sourcePermits[t]
            BY <1>2, <2>1, <2>3, <3>1, <4>1
          <5> QED
            BY <2>1, <5>1
        <4>2. CASE ~HoldsSource(r)
          <5>1. Cardinality(sourcePermits[t]) < world.sourceLimit
            BY <2>3, <4>2
          <5> QED
            BY <1>1, <1>2, <3>1, <5>1, WithinLimit
        <4> QED
          BY <4>1, <4>2
      <3> QED
        BY <1>4, <2>1, <2>3, <3>1, <3>2 DEF Source
    <2>4. CASE t = s /\ ~HoldsSource(r)'
      <3>1. sourcePermits'[t] = sourcePermits[t] \ {r}
        BY <1>2, <2>4
      <3>2. Cardinality(sourcePermits'[t]) <= world.sourceLimit
        BY <1>1, <1>2, <2>1, <3>1, WithinLimit
      <3> QED
        BY <1>4, <2>1, <2>4, <3>1, <3>2 DEF Source
    <2> QED
      BY <2>2, <2>3, <2>4
  <1>6. /\ globalPermits' = {q \in Requests : HoldsGlobal(q)}'
        /\ Cardinality(globalPermits') <= world.globalLimit
    <2>1. /\ globalPermits = {q \in Requests : HoldsGlobal(q)}
          /\ Cardinality(globalPermits) <= world.globalLimit
          /\ globalPermits \in SUBSET Requests
      BY DEF Permitted, PermitsBalance, Typed, Types
    <2>2. CASE HoldsGlobal(r)'
      <3>1. globalPermits' = globalPermits \cup {r}
        BY <2>2
      <3>2. Cardinality(globalPermits') <= world.globalLimit
        <4>1. CASE HoldsGlobal(r)
          <5>1. globalPermits' = globalPermits
            BY <2>1, <3>1, <4>1
          <5> QED
            BY <2>1, <5>1
        <4>2. CASE ~HoldsGlobal(r)
          <5>1. Cardinality(globalPermits) < world.globalLimit
            BY <2>2, <4>2
          <5> QED
            BY <1>1, <2>1, <3>1, <5>1, WithinLimit
        <4> QED
          BY <4>1, <4>2
      <3> QED
        BY <1>4, <2>1, <2>2, <3>1, <3>2
    <2>3. CASE ~HoldsGlobal(r)'
      <3>1. globalPermits' = globalPermits \ {r}
        BY <2>3
      <3>2. Cardinality(globalPermits') <= world.globalLimit
        BY <1>1, <2>1, <3>1, WithinLimit
      <3> QED
        BY <1>4, <2>1, <2>3, <3>1, <3>2
    <2> QED
      BY <2>2, <2>3
  <1>7. ProbesPass'
    BY DEF Permitted, ProbesPass, IsProbe
  <1> QED
    BY <1>3, <1>5, <1>6, <1>7 DEF Permitted, PermitsBalance

LEMMA TakePermits ==
    ASSUME Typed, Permitted, NEW r \in Requests, Take(r)
    PROVE  Permitted'
  <1>1. ~IsProbe(r) /\ request[r].at \in {"source", "global"} /\ UNCHANGED world
    BY DEF Take, May, At, Permitted, ProbesPass
  <1>2. PICK s \in Sources : s = Source(r)
    BY WorldFacts DEF Typed
  <1>3. request \in [Requests -> Records] /\ sourcePermits \in [Sources -> SUBSET Requests]
    BY DEF Typed, Types
  <1>4. CASE /\ May(r, "source") /\ Cardinality(sourcePermits[Source(r)]) < world.sourceLimit
             /\ sourcePermits' = [sourcePermits EXCEPT ![Source(r)] = @ \cup {r}]
             /\ request' = [request EXCEPT ![r].at = "global"]
             /\ UNCHANGED <<world, globalPermits>> /\ Alone
    <2>1. request'[r].at = "global" /\ \A q \in Requests \ {r} : request'[q] = request[q]
      BY <1>3, <1>4 DEF Records
    <2>2. /\ ~HoldsSource(r) /\ ~HoldsGlobal(r)
          /\ HoldsSource(r)' /\ ~HoldsGlobal(r)'
      BY <1>1, <1>4, <2>1 DEF HoldsSource, HoldsGlobal, At, May, IsProbe, Final
    <2>3. r \notin globalPermits
      BY <2>2 DEF Permitted, PermitsBalance
    <2>4. globalPermits' = globalPermits \ {r}
      BY <1>4, <2>3
    <2>5. "global" \in Places
      BY DEF Places
    <2> QED
      BY <1>1, <1>2, <1>4, <2>1, <2>2, <2>4, <2>5, HeldOtherwise
  <1>5. CASE /\ May(r, "global") /\ Cardinality(globalPermits) < world.globalLimit
             /\ globalPermits' = globalPermits \cup {r}
             /\ request' = [request EXCEPT ![r].at = "snapshot"]
             /\ UNCHANGED <<world, sourcePermits>> /\ Alone
    <2>1. request'[r].at = "snapshot" /\ \A q \in Requests \ {r} : request'[q] = request[q]
      BY <1>3, <1>5 DEF Records
    <2>2. /\ HoldsSource(r) /\ ~HoldsGlobal(r)
          /\ HoldsSource(r)' /\ HoldsGlobal(r)'
      BY <1>1, <1>5, <2>1 DEF HoldsSource, HoldsGlobal, At, May, IsProbe, Final
    <2>3. r \in sourcePermits[s]
      BY <1>2, <2>2 DEF Permitted, PermitsBalance
    <2>4. sourcePermits' = [sourcePermits EXCEPT ![s] = @ \cup {r}]
      BY <1>3, <1>5, <2>3
    <2>5. "snapshot" \in Places
      BY DEF Places
    <2> QED
      BY <1>1, <1>2, <1>5, <2>1, <2>2, <2>4, <2>5, HeldOtherwise
  <1> QED
    BY <1>4, <1>5 DEF Take

LEMMA EndPermits ==
    ASSUME Typed, Permitted, NEW r \in Requests, NEW place \in Final, End(r, place)
    PROVE  Permitted'
  <1>1. PICK s \in Sources : s = Source(r)
    BY WorldFacts DEF Typed
  <1>2. request'[r].at = place /\ \A q \in Requests \ {r} : request'[q] = request[q]
    BY DEF End, Typed, Types, Fresh
  <1>3. ~HoldsSource(r)' /\ ~HoldsGlobal(r)'
    BY <1>2 DEF HoldsSource, HoldsGlobal
  <1>4. /\ sourcePermits' = [sourcePermits EXCEPT ![s] = @ \ {r}]
        /\ globalPermits' = globalPermits \ {r} /\ UNCHANGED world
    BY <1>1 DEF End
  <1>5. place \in Places /\ place \notin {"source", "global"}
    BY DEF Places, Final
  <1> QED
    BY <1>1, <1>2, <1>3, <1>4, <1>5, HeldOtherwise

\* A request that keeps what it holds from one place to another.
LEMMA PlacePermits ==
    ASSUME Typed, Permitted, NEW r \in Requests,
           NEW record, request' = [request EXCEPT ![r] = record],
           UNCHANGED <<world, sourcePermits, globalPermits>>,
           request[r].at # "global" /\ record.at # "global",
           IsProbe(r) => record.at # "source",
           ~IsProbe(r) => (request[r].at \in Final \cup {"ready", "source"}
                            <=> record.at \in Final \cup {"ready", "source"})
    PROVE  Permitted'
  <1>1. request'[r] = record /\ \A q \in Requests \ {r} : request'[q] = request[q]
    BY DEF Typed, Types
  <1>2. \A q \in Requests : /\ HoldsSource(q)' <=> HoldsSource(q)
                            /\ HoldsGlobal(q)' <=> HoldsGlobal(q)
    BY <1>1 DEF HoldsSource, HoldsGlobal, At, IsProbe
  <1>3. ProbesPass'
    BY <1>1 DEF ProbesPass, Permitted, IsProbe
  <1> QED
    BY <1>2, <1>3, HeldAlike

LEMMA PermitsKept ==
    ASSUME IInv, Permitted, [Next]_vars
    PROVE  Permitted'
  <1>0. Typed
    BY DEF IInv
  <1>1. ASSUME NEW r \in Requests, NEW record, Moves(r, record) PROVE Permitted'
    BY <1>0, <1>1, PlacePermits DEF Moves, Final
  <1>2. ASSUME NEW r \in Requests, Enter(r) PROVE Permitted'
    <2>a. PICK own \in Records : own = request[r]
      BY DEF IInv, Typed, Types
    <2>1. PICK next : next = [own EXCEPT !.at = "acquire"]
      OBVIOUS
    <2>2. next.at = "acquire"
      BY <2>1 DEF Records
    <2> QED
      BY <1>0, <1>2, <2>a, <2>1, <2>2, PlacePermits DEF Enter, Goto, Change, May, At, Final
  <1>3. ASSUME NEW r \in Requests, Settles(r) PROVE Permitted'
    <2>1. At(r, "acquire") /\ UNCHANGED <<world, sourcePermits, globalPermits>>
      BY <1>3 DEF Settles, Obtain, Refuse, Driven, May, Change
    <2>a. PICK own \in Records : own = request[r]
      BY DEF IInv, Typed, Types
    <2>2. PICK body : body = [own EXCEPT !.at = "body"]
      OBVIOUS
    <2>3. body.at = "body" /\ Fresh("done").at = "done" /\ NextChallenge(r).at = "snapshot"
      BY <1>0, <2>1, <2>2, NextChallengeSound DEF Records, Fresh, At
    <2>4. CASE IsProbe(r)
      <3>1. request' = [request EXCEPT ![r] = Fresh("done")]
        BY <1>3, <2>4 DEF Settles, Obtain, Refuse, Change
      <3> QED
        BY <1>0, <2>1, <2>3, <2>4, <3>1, PlacePermits DEF At
    <2>5. CASE ~IsProbe(r)
      <3>1. \/ request' = [request EXCEPT ![r] = NextChallenge(r)]
            \/ request' = [request EXCEPT ![r] = body]
        BY <1>3, <2>a, <2>2, <2>5 DEF Settles, Obtain, Refuse, Change
      <3> QED
        BY <1>0, <2>1, <2>3, <2>5, <3>1, PlacePermits DEF At, Final
    <2> QED
      BY <2>4, <2>5
  <1>4. CASE UNCHANGED <<world, request, sourcePermits, globalPermits>>
    BY <1>0, <1>4, HeldAlike
    DEF HoldsSource, HoldsGlobal, At, IsProbe, Permitted, ProbesPass
  <1>5. ASSUME NEW r \in Requests, Advance(r) PROVE Permitted'
    BY <1>4, <1>5 DEF Advance, transportVars
  <1>6. ASSUME NEW r \in Requests, Step(r) \/ Cancel(r) \/ Drop(r) PROVE Permitted'
    BY <1>0, <1>1, <1>2, <1>3, <1>5, <1>6, StepShapes, TakePermits, EndPermits
  <1>7. CASE Signal /\ UNCHANGED <<world, transportVars>>
    BY <1>4, <1>7 DEF transportVars
  <1>8. CASE UNCHANGED vars
    BY <1>4, <1>8 DEF vars, transportVars
  <1> QED
    BY <1>6, <1>7, <1>8 DEF Next

\* Permits are held by the requests at the places that need them, never more than
\* there are, and none is kept by a request that ended or waits for its source.
THEOREM Balanced == Spec => []PermitsBalance
  <1>1. Init => Permitted
    <2> SUFFICES ASSUME Init PROVE Permitted
      OBVIOUS
    <2>1. \A r \in Requests : request[r].at = "ready"
      BY DEF Init, Fresh
    <2>2. \A r \in Requests : ~HoldsSource(r) /\ ~HoldsGlobal(r)
      BY <2>1 DEF HoldsSource, HoldsGlobal
    <2>3. world.sourceLimit \in Nat /\ world.globalLimit \in Nat
      BY WorldsAssumption DEF Init, WorldType
    <2>4. Cardinality({}) = 0
      BY FS_EmptySet
    <2> QED
      BY <2>1, <2>2, <2>3, <2>4 DEF Init, Permitted, PermitsBalance, ProbesPass
  <1>2. IInv /\ Permitted /\ [Next]_vars => Permitted'
    BY PermitsKept
  <1>3. Permitted => PermitsBalance
    BY DEF Permitted
  <1> QED
    BY <1>1, <1>2, <1>3, Invariant, PTL DEF Spec
=============================================================================
