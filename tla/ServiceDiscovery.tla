---------------------------- MODULE ServiceDiscovery ----------------------------
(***************************************************************************)
(* Which package sources a resolution asks for an identity (package.rs,    *)
(* PackageSourceMapping) and how it learns what they offer                 *)
(* (LazyServiceEndpoints): local folders and v2 feeds become endpoints at  *)
(* once, the service index of a v3 feed is fetched first, by a few tasks   *)
(* at a time that finish in any order.  A source is numbered by its place  *)
(* in the configuration.                                                   *)
(***************************************************************************)
EXTENDS Integers, Sequences, FiniteSetsExt, SequencesExt

CONSTANTS
    ExactRank       \* the rank of an exact pattern, usize::MAX in the code

VARIABLE discovery  \* what the current resolution knows of its sources

NoId == 0
NoMapping == {}

\* A mapping is a set of rows [source, patterns]; source is 0 when the configuration
\* enables no source of that name.  A pattern is [exact, length, matches]: the
\* identities its text matches, ignoring case.
PatternRank(pattern, id) ==
    IF id \notin pattern.matches THEN 0
    ELSE IF pattern.exact THEN ExactRank ELSE pattern.length + 1

\* A row is for a source or for none; no prefix is as long as the rank of an exact
\* pattern.
ValidConfiguration(config) ==
    /\ IsFiniteSet(UNION {row.patterns : row \in config.mapping})
    /\ \A row \in config.mapping :
          /\ row.source \in 0..Len(config.sources)
          /\ \A p \in row.patterns :
                p.exact \in BOOLEAN /\ p.length \in Nat /\ (p.exact \/ p.length + 1 < ExactRank)

\* 0 where no pattern matches.
RequiredRank(mapping, id) ==
    Max({0} \cup {PatternRank(pattern, id) : pattern \in UNION {row.patterns : row \in mapping}})

SourcesAtRank(mapping, id, rank) ==
    {row.source : row \in {r \in mapping : /\ r.source # 0
                                           /\ \E p \in r.patterns : PatternRank(p, id) = rank}}

EnabledSources(mapping, id) ==
    IF RequiredRank(mapping, id) = 0
    THEN {}
    ELSE SourcesAtRank(mapping, id, RequiredRank(mapping, id))

\* The mutant's bug: any pattern that matches selects its source.
SelectedSources_AnyPattern(config, id) ==
    IF config.mapping = NoMapping
    THEN DOMAIN config.sources
    ELSE {row.source : row \in {r \in config.mapping : \E p \in r.patterns : id \in p.matches}} \ {0}

SelectedSources(config, id) ==
    IF config.mapping = NoMapping
    THEN DOMAIN config.sources
    ELSE EnabledSources(config.mapping, id)

Unmapped(config, id) == config.mapping # NoMapping /\ EnabledSources(config.mapping, id) = {}

\* slots: the sources that are endpoints.  snapshot: those in the order tasks try
\* them, as of the last success.  The rest is the batch of service indexes asked for.
Undiscovered == [slots |-> {}, snapshot |-> <<>>, asked |-> NoId, pending |-> <<>>,
                 running |-> {}, completed |-> <<>>]

InOrder(sources) ==
    CHOOSE s \in SetToSeqs(sources) : \A i, j \in DOMAIN s : i < j => s[i] < s[j]

EndpointSnapshot(config, slots) ==
    LET Local == {s \in slots : config.sources[s].protocol = "local"}
    IN  InOrder(Local) \o InOrder(slots \ Local)

\* Takes jobs from the queue while there are workers.
Staffed(d, workers) ==
    LET n == Min({Len(d.pending), workers - Cardinality(d.running)})
    IN  [d EXCEPT !.running = @ \cup {d.pending[j] : j \in 1..n},
                  !.pending = SubSeq(@, n + 1, Len(@))]

\* What is left to learn of the sources selected for an identity; the rest of the
\* selected sources become endpoints at once, v2 feeds only when online.
EnsureIdentity(config, id, online, workers) ==
    LET new == SelectedSources(config, id) \ discovery.slots
        Of(protocol) == {s \in new : config.sources[s].protocol = protocol}
        ready == Of("local") \cup (IF online THEN Of("v2") ELSE {})
        jobs == IF online THEN Of("v3") ELSE {}
    IN  discovery' = Staffed([discovery EXCEPT !.slots = @ \cup ready, !.asked = id,
                                               !.pending = InOrder(jobs)], workers)

\* A service index arrives, or is known not to.
IndexArrives(s, workers) ==
    /\ s \in discovery.running
    /\ discovery' = Staffed([discovery EXCEPT !.running = @ \ {s},
                                              !.completed = Append(@, s)], workers)

AllArrived == discovery.asked # NoId /\ discovery.running = {} /\ discovery.pending = <<>>

\* The mutant's bug: the results are taken as they came.
Sorted_AsTheyCame(results) == results

Sorted(results) == InOrder(ToSet(results))

\* The results are taken in the order of the sources: the first that is no endpoint
\* ends the resolution, 0 when there is none.  An index that names no package content
\* ("incomplete") is no endpoint.
FirstFailure(config) ==
    LET results == Sorted(discovery.completed)
        failed == {j \in DOMAIN results : config.sources[results[j]].index # "served"}
    IN  IF failed = {} THEN 0 ELSE results[Min(failed)]

Settle(config) ==
    LET slots == discovery.slots \cup ToSet(discovery.completed)
    IN  discovery' = [discovery EXCEPT !.slots = slots, !.asked = NoId, !.completed = <<>>,
                                       !.snapshot = EndpointSnapshot(config, slots)]

\* The sources whose row has a pattern for the identity that no other row's beats,
\* stated without ranks: an exact pattern beats a prefix, a longer prefix a shorter.
Beats(p, q) == (p.exact /\ ~q.exact) \/ (~p.exact /\ ~q.exact /\ p.length > q.length)

Entitled(config, id) ==
    LET matching == {p \in UNION {row.patterns : row \in config.mapping} : id \in p.matches}
        best == {p \in matching : \A q \in matching : ~Beats(q, p)}
    IN  IF config.mapping = NoMapping
        THEN DOMAIN config.sources
        ELSE {s \in DOMAIN config.sources :
                 \E row \in config.mapping : row.source = s /\ row.patterns \cap best # {}}
=============================================================================
