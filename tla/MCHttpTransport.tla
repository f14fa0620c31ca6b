---------------------------- MODULE MCHttpTransport ----------------------------
(***************************************************************************)
(* The circumstances in which TLC explores HttpTransport.                  *)
(***************************************************************************)
EXTENDS HttpTransport

CONSTANTS a, b

\* Three fetches; what is not said is as wide as it needs to be.
Plain == [source |-> [r \in Requests |-> a], matching |-> {}, provided |-> {a},
          probes |-> {}, sourceLimit |-> 3, globalLimit |-> 3, tries |-> 1,
          stalled |-> {}]

\* Two fetches of a slow source and one of a prompt one, with one permit a source.
Permits == [Plain EXCEPT !.source = [r \in Requests |-> IF r = 3 THEN b ELSE a],
                         !.sourceLimit = 1, !.globalLimit = 2, !.tries = 2,
                         !.stalled = {a}]

\* After a probe of the other source, two concurrent fetches challenged by one.
Challenges == [Permits EXCEPT !.matching = {1, 2}, !.probes = {3}, !.sourceLimit = 2,
                              !.globalLimit = 3, !.tries = 1, !.stalled = {}]

\* After two probes, one fetch whose challenges and network attempts nest.
Nested == [Challenges EXCEPT !.matching = {1}, !.probes = {2, 3}, !.tries = 2,
                             !.source = [r \in Requests |-> IF r = 1 THEN a ELSE b]]

\* A probe of each source, then a fetch; the second source has no providers.
Probed == [Plain EXCEPT !.source = [r \in Requests |-> IF r = 2 THEN b ELSE a],
                        !.matching = Requests, !.probes = {1, 2}, !.tries = 2]

\* The first probe's source or its provider may never answer.
Silent == [Probed EXCEPT !.stalled = {a}]

MCWorlds == {Permits, Challenges, Nested, Probed, Silent}
=============================================================================
