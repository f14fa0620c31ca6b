----------------------------- MODULE PackageGraph -----------------------------
(***************************************************************************)
(* The streaming dependency resolver of dv-core (package.rs).  One owner   *)
(* task keeps a map of constraint nodes, a dirty set of nodes to reselect, *)
(* a ready set of nodes to fetch and a bounded set of metadata tasks that  *)
(* run concurrently and complete in any order.  The owner is the only      *)
(* writer, so a step of the specification is one iteration of one of its   *)
(* loops; what interleaves with it is the completion order of the tasks.   *)
(*                                                                         *)
(* Abstracted: a package identity is a number (the order of the BTreeMap   *)
(* keys), a version its position among the versions of the universe, a     *)
(* download or cache read the set of results it may have.  The inputs of   *)
(* one resolution (direct requests, metadata, feeds, cache, pins, pruning) *)
(* are a "world", chosen in Init and never changed.                        *)
(***************************************************************************)
EXTENDS Naturals, FiniteSets

CONSTANTS
    Ids,            \* package identities, ordered as the lower-case ids are
    MaxVersion,     \* versions are 1..MaxVersion
    Prereleases,    \* the versions that carry a prerelease label
    MaxWorkers,     \* MAX_DOWNLOAD_WORKERS
    MaxRevisions,   \* MAX_GRAPH_REVISIONS
    NoRange,        \* "no edge" in a map from identities to version ranges
    Worlds          \* the resolution inputs to explore

Versions == 1..MaxVersion
None == 0           \* Option::None for a version

\* A version range.  lo = 0 is "no lower bound", hi = MaxVersion + 1 "no upper
\* bound"; float is the set of versions a floating bound matches, {} when the
\* range does not float.
Ranges == [lo : 0..MaxVersion, loInc : BOOLEAN,
           hi : 1..(MaxVersion + 1), hiInc : BOOLEAN, float : SUBSET Versions]
Edges == [Ids -> Ranges \cup {NoRange}]
NoEdges == [y \in Ids |-> NoRange]

\* cached: readable package roots; mapped: identities with an enabled source;
\* flaky: exact fetches that may fail although the feed lists the version;
\* duplicated: manifests that repeat a dependency with another range; batch:
\* metadata an earlier project of the batch left, all of it in the cache by now;
\* online: discovery succeeds.
WorldType ==
    [direct : Edges, deps : [Ids -> [Versions -> Edges]],
     feed : [Ids -> SUBSET Versions], cached : SUBSET (Ids \X Versions),
     pins : [Ids -> Versions \cup {None}], prune : [Ids -> 0..MaxVersion],
     mapped : SUBSET Ids, online : BOOLEAN, flaky : SUBSET (Ids \X Versions),
     duplicated : SUBSET (Ids \X Versions), batch : SUBSET (Ids \X Versions)]

ASSUME IdsAssumption == Ids \subseteq Nat /\ IsFiniteSet(Ids)
ASSUME BoundsAssumption == /\ MaxVersion \in Nat
                           /\ MaxWorkers \in Nat \ {0}
                           /\ MaxRevisions \in Nat \ {0}
                           /\ Prereleases \subseteq Versions
ASSUME NoRangeAssumption == NoRange \notin Ranges
ASSUME WorldsAssumption == Worlds \subseteq WorldType

VARIABLES
    world,      \* the inputs of this resolution
    pc,         \* "stabilize", "schedule", "acquire", "done" or "failed"
    nodes,      \* the constraint nodes
    dirty,      \* nodes whose selection must be recomputed
    ready,      \* nodes whose metadata must be fetched
    tasks,      \* running or completed metadata tasks, not yet joined
    inFlight,   \* the identities of the tasks
    metadata,   \* batch_metadata entries: <<id, version>>
    packages,   \* batch_metadata entries that hold a package
    held,       \* metadata_packages of this resolution
    pending,    \* packages the final acquisition still has to provide
    failure     \* the error kind returned, or "none"

vars == <<world, pc, nodes, dirty, ready, tasks, inFlight, metadata, packages,
          held, pending, failure>>
caches == <<metadata, packages, held>>

Failures == {"none", "downgrade", "conflict", "not_found", "diverged",
             "malformed", "unmapped", "discovery", "fetch", "unselected",
             "acquire", "cycle", "cancelled"}

Nodes == [live : BOOLEAN, constraints : Edges, deps : Edges,
          selected : Versions \cup {None}, metadata : Versions \cup {None},
          available : SUBSET Versions, pruned : BOOLEAN, generation : 0..MaxRevisions]

\* What an identity without a map entry looks like; with live = TRUE, the entry
\* a first request or a first incoming dependency creates.
Absent == [live |-> FALSE, constraints |-> NoEdges, deps |-> NoEdges,
           selected |-> None, metadata |-> None, available |-> {},
           pruned |-> FALSE, generation |-> 0]
Fresh == [Absent EXCEPT !.live = TRUE]

Tasks == [id : Ids, generation : 0..MaxRevisions, version : Versions \cup {None}]

-------------------------------------------------------------------------------
(* Graph traversals.                                                       *)

Targets(edges) == {y \in Ids : edges[y] # NoRange}
Children(ns, x) == IF ns[x].live THEN Targets(ns[x].deps) ELSE {}
Parents(ns, x) == IF ns[x].live THEN Targets(ns[x].constraints) ELSE {}
IsDirect(w, x) == w.direct[x] # NoRange

\* The identities reachable from the set start along succ, start included.
Closure(succ, start) ==
    LET grow[n \in 0..Cardinality(Ids)] ==
          IF n = 0 THEN start
          ELSE LET reached == grow[n - 1]
               IN  reached \cup UNION {succ[x] : x \in reached}
    IN  grow[Cardinality(Ids)]

\* mark_descendant_constraint_targets_dirty, for a set of roots.
Descendants(ns, roots) ==
    UNION {Children(ns, x) :
             x \in Ids \cap Closure([y \in Ids |-> Children(ns, y)], roots)}

\* Climbing from descendant over incoming constraints, never through target.
ParentIsAncestor(ns, target, ancestor, descendant) ==
    ancestor \in Closure([x \in Ids |-> IF x = target THEN {}
                                        ELSE Parents(ns, x) \ {target}],
                         {descendant})

\* Descending from the direct packages other than blocked, through neither
\* target nor blocked.
HasAlternateRootPath(w, ns, target, blocked, descendant) ==
    descendant \in Closure([x \in Ids |-> IF x \in {target, blocked} THEN {}
                                          ELSE Children(ns, x)],
                           {x \in Ids : IsDirect(w, x) /\ ns[x].live} \ {blocked})

\* A nearer parent of the same target overrides the constraint of parent.
Dominated(w, ns, target, parent) ==
    \E nearer \in Parents(ns, target) \ {parent} :
       /\ ParentIsAncestor(ns, target, nearer, parent)
       /\ ~ParentIsAncestor(ns, target, parent, nearer)
       /\ ~HasAlternateRootPath(w, ns, target, nearer, parent)

IsPinned(w, x) == ~IsDirect(w, x) /\ w.pins[x] # None

\* Mutant: an ancestor dominates although the parent has a root path of its own.
ActiveParents_AnyAncestor(w, ns, x) ==
    {p \in Parents(ns, x) : ~\E nearer \in Parents(ns, x) \ {p} :
                               ParentIsAncestor(ns, x, nearer, p)}

\* Only transitive unpinned nodes with several parents drop dominated ones.
ActiveParents(w, ns, x) ==
    IF IsDirect(w, x) \/ w.pins[x] # None \/ Cardinality(Parents(ns, x)) <= 1
    THEN Parents(ns, x)
    ELSE {p \in Parents(ns, x) : ~Dominated(w, ns, x, p)}

-------------------------------------------------------------------------------
(* Version ranges and selection.                                           *)

Contains(r, v) == /\ v > r.lo \/ (r.loInc /\ v = r.lo)
                  /\ v < r.hi \/ (r.hiInc /\ v = r.hi)
Floats(r) == r.float # {}
AllowsPrerelease(r) == (r.float \cup {r.lo, r.hi}) \cap Prereleases # {}

\* is_better: whether considering replaces current as the best match of r.
IsBetter(r, current, considering) ==
    \/ /\ Floats(r)
       /\ \/ current \notin r.float /\ considering \in r.float
          \/ {current, considering} \subseteq r.float /\ current < considering
          \/ /\ {current, considering} \cap r.float = {}
             /\ \/ current < r.lo /\ considering >= r.lo
                \/ current >= r.lo /\ considering >= r.lo /\ current > considering
                \/ current < r.lo /\ considering < r.lo /\ current < considering
    \/ ~Floats(r) /\ current > considering

\* Mutant: ranges that touch are taken to have nothing in common.
EmptyIntersection_Touching(rs) ==
    \E r, s \in rs : r.lo >= s.hi

EmptyIntersection(rs) ==
    \E r, s \in rs : r.lo > s.hi \/ (r.lo = s.hi /\ ~(r.loInc /\ s.hiInc))

ActiveRanges(w, ns, x) ==
    {ns[x].constraints[p] : p \in ActiveParents(w, ns, x)}

\* The ranges that decide: the direct one alone, or every active constraint.
Deciding(w, ns, x) ==
    IF IsDirect(w, x) THEN {w.direct[x]} ELSE ActiveRanges(w, ns, x)

Accepts(w, ns, x, v) ==
    LET rs == Deciding(w, ns, x)
    IN  /\ v \in Prereleases => \E r \in rs : AllowsPrerelease(r)
        /\ \A r \in rs : Contains(r, v)

\* The floating range that orders the candidates: the direct one, else that of
\* the first active parent.
Preferences(w, ns, x) ==
    IF IsDirect(w, x) /\ Floats(w.direct[x]) THEN {w.direct[x]}
    ELSE LET floating == {p \in ActiveParents(w, ns, x) :
                            Floats(ns[x].constraints[p])}
         IN  {ns[x].constraints[p] : p \in {q \in floating :
                                              \A o \in floating : q <= o}}

Candidates(w, ns, x) == {v \in ns[x].available : Accepts(w, ns, x, v)}

\* Without a version list: the highest inclusive lower bound, if acceptable.
HighestLower(w, ns, x) ==
    {v \in Versions :
       /\ \E r \in Deciding(w, ns, x) : r.loInc /\ r.lo = v
       /\ \A r \in Deciding(w, ns, x) : r.loInc => r.lo <= v
       /\ Accepts(w, ns, x, v)}

\* NodeSelection::Version as a singleton, NodeSelection::Enumerate as {}.
Selection(w, ns, x) ==
    IF IsPinned(w, x) THEN {w.pins[x]}
    ELSE IF ns[x].available # {}
    THEN {v \in Candidates(w, ns, x) : \A u \in Candidates(w, ns, x) \ {v} :
            IF Preferences(w, ns, x) = {} THEN v < u
            ELSE \A r \in Preferences(w, ns, x) : IsBetter(r, u, v)}
    ELSE IF Preferences(w, ns, x) # {} THEN {}
    ELSE HighestLower(w, ns, x)

\* The errors of select_node_version_with_constraints, in the order it tests.
Refusal(w, ns, x) ==
    IF IsPinned(w, x)
    THEN IF \E p \in Parents(ns, x) : ~Contains(ns[x].constraints[p], w.pins[x])
         THEN "downgrade"
         ELSE IF ns[x].available # {} /\ w.pins[x] \notin ns[x].available
              THEN "not_found" ELSE "none"
    ELSE IF ~IsDirect(w, x) /\ EmptyIntersection(ActiveRanges(w, ns, x))
    THEN "conflict"
    ELSE IF ns[x].available # {} /\ Candidates(w, ns, x) = {}
    THEN "not_found" ELSE "none"

IsPruned(w, x, v) == ~IsDirect(w, x) /\ w.pins[x] = None /\ v # None
                     /\ v <= w.prune[x]

-------------------------------------------------------------------------------
(* Edits of the node map.                                                  *)

\* The live children of x lose the constraint that x put on them.
Retract(ns, x) ==
    [y \in Ids |-> IF y \in Targets(ns[x].deps) /\ ns[y].live
                   THEN [ns[y] EXCEPT !.constraints[x] = NoRange] ELSE ns[y]]

Retracted(ns, x) == {y \in Targets(ns[x].deps) : ns[y].live}

\* install_node_dependencies for the node x and the dependencies new: it takes
\* its own map entry's selection as the metadata version.
Installed(ns, x, new) ==
    [y \in Ids |->
       LET entry == IF ns[y].live THEN ns[y] ELSE Fresh
           child == IF new[y] # NoRange
                    THEN [entry EXCEPT !.constraints[x] = new[y]] ELSE ns[y]
       IN  IF y = x THEN [child EXCEPT !.deps = new, !.metadata = ns[x].selected]
           ELSE child]

\* Mutant: only known children are revisited.
InstallDirties_KnownOnly(ns, x, new) ==
    Descendants(ns, {y \in Targets(new) : ns[y].metadata # None})

InstallDirties(ns, x, new) ==
    LET known == {y \in Targets(new) : ns[y].metadata # None
                                       \/ (y = x /\ ns[x].selected # None)}
    IN  Targets(new) \cup Descendants(ns, known)

Fail(kind) == pc' = "failed" /\ failure' = kind /\ tasks' = {} /\ inFlight' = {}

Install(x, v) ==
    IF <<x, v>> \in world.duplicated
    THEN Fail("malformed") /\ UNCHANGED <<nodes, dirty>>
    ELSE /\ nodes' = Installed(nodes, x, world.deps[x][v])
         /\ dirty' = dirty \cup InstallDirties(nodes, x, world.deps[x][v])
         /\ pc' = "stabilize"
         /\ UNCHANGED failure

-------------------------------------------------------------------------------
(* stabilize_constraint_nodes: one action per iteration of its loop.       *)

\* The least dirty identity, as BTreeSet::pop_first takes it.  A dirty identity is
\* always in the map (NothingMissing in PackageGraphProofs), so the early return
\* of the loop for a missing one never happens and is no action here.
Popped(x) == pc = "stabilize" /\ x \in dirty /\ \A y \in dirty : x <= y

\* Mutant: a package without manifest is not recognised as orphaned.
IsOrphan_Fetched(x) == /\ nodes[x].live /\ ~IsDirect(world, x)
                       /\ Parents(nodes, x) = {} /\ nodes[x].metadata # None

IsOrphan(x) == nodes[x].live /\ ~IsDirect(world, x) /\ Parents(nodes, x) = {}

RemoveOrphan(x) ==
    /\ Popped(x) /\ IsOrphan(x)
    /\ nodes' = [Retract(nodes, x) EXCEPT ![x] = Absent]
    /\ ready' = ready \ {x}
    /\ dirty' = (dirty \ {x}) \cup Descendants(nodes, Children(nodes, x))
                               \cup (Retracted(nodes, x) \ {x})
    /\ UNCHANGED <<world, pc, tasks, inFlight, caches, pending, failure>>

\* next and pruned as the code computes them for a node that stays.
Reselects(x, next, pruned) ==
    /\ Popped(x) /\ nodes[x].live /\ ~IsOrphan(x)
    /\ Refusal(world, nodes, x) = "none"
    /\ next \in IF Selection(world, nodes, x) = {} THEN {None}
                ELSE Selection(world, nodes, x)
    /\ pruned = IsPruned(world, x, next)

KeepSelection(x) ==
    \E next \in Versions, pruned \in BOOLEAN :
       /\ Reselects(x, next, pruned)
       /\ nodes[x].selected = next /\ nodes[x].pruned = pruned
       /\ dirty' = dirty \ {x}
       /\ UNCHANGED <<world, pc, nodes, ready, tasks, inFlight, caches, pending,
                      failure>>

\* Mutants: the dependencies of the old version, its manifest mark or the
\* constraints it put on its children survive.
Revised_KeepsDeps(x, next, pruned) ==
    [Retract(nodes, x) EXCEPT ![x].selected = next, ![x].pruned = pruned,
        ![x].metadata = None, ![x].generation = nodes[x].generation + 1]
Revised_KeepsMetadata(x, next, pruned) ==
    [Retract(nodes, x) EXCEPT ![x].deps = NoEdges, ![x].selected = next,
        ![x].pruned = pruned, ![x].generation = nodes[x].generation + 1]

Revised_KeepsConstraints(x, next, pruned) ==
    [nodes EXCEPT ![x].deps = NoEdges, ![x].selected = next, ![x].metadata = None,
        ![x].pruned = pruned, ![x].generation = nodes[x].generation + 1]

\* The revised node keeps its incoming constraints and its version list.
Revised(x, next, pruned) ==
    [Retract(nodes, x) EXCEPT ![x] =
       [live |-> TRUE, constraints |-> @.constraints, deps |-> NoEdges,
        selected |-> next, metadata |-> None, available |-> @.available,
        pruned |-> pruned, generation |-> @.generation + 1]]

\* Mutants: an identity with a task out is not queued again; a pruned one is.
Enqueued_NotInFlight(x, pruned) ==
    IF pruned \/ x \in inFlight THEN ready \ {x} ELSE ready \cup {x}
Enqueued_EvenPruned(x, pruned) == ready \cup {x}

Enqueued(x, pruned) == IF pruned THEN ready \ {x} ELSE ready \cup {x}

ChangeSelection(x) ==
    \E next \in Versions \cup {None}, pruned \in BOOLEAN :
       /\ Reselects(x, next, pruned)
       /\ next = None \/ nodes[x].selected # next \/ nodes[x].pruned # pruned
       /\ nodes[x].generation < MaxRevisions
       /\ nodes' = Revised(x, next, pruned)
       /\ ready' = Enqueued(x, pruned)
       /\ dirty' = (dirty \ {x}) \cup Descendants(nodes, Children(nodes, x))
                                  \cup Retracted(nodes, x)
       /\ UNCHANGED <<world, pc, tasks, inFlight, caches, pending, failure>>

FailSelection(x) ==
    /\ Popped(x) /\ nodes[x].live /\ ~IsOrphan(x)
    /\ \/ /\ Refusal(world, nodes, x) # "none"
          /\ Fail(Refusal(world, nodes, x))
       \/ \E next \in Versions \cup {None}, pruned \in BOOLEAN :
             /\ Reselects(x, next, pruned)
             /\ next = None \/ nodes[x].selected # next \/ nodes[x].pruned # pruned
             /\ nodes[x].generation >= MaxRevisions
             /\ Fail("diverged")
    /\ UNCHANGED <<world, nodes, dirty, ready, caches, pending>>

Stabilized ==
    /\ pc = "stabilize" /\ dirty = {}
    /\ pc' = "schedule"
    /\ UNCHANGED <<world, nodes, dirty, ready, tasks, inFlight, caches, pending, failure>>

-------------------------------------------------------------------------------
(* The scheduling loop of resolve_streaming_graph.                         *)

Eligible(x) == x \in ready /\ x \notin inFlight /\ nodes[x].live /\ ~nodes[x].pruned

\* The node the fill loop takes next.
Dispatches(x) ==
    /\ pc = "schedule" /\ Cardinality(tasks) < MaxWorkers
    /\ Eligible(x) /\ \A y \in Ids : Eligible(y) => x <= y

CanDispatch == \E x \in Ids : Dispatches(x)

\* A batch_metadata hit installs the dependencies without a task.
ReuseMetadata(x) ==
    /\ Dispatches(x)
    /\ <<x, nodes[x].selected>> \in metadata
    /\ ready' = ready \ {x}
    /\ Install(x, nodes[x].selected)
    /\ IF <<x, nodes[x].selected>> \in world.duplicated THEN TRUE
       ELSE UNCHANGED <<tasks, inFlight>>
    /\ UNCHANGED <<world, caches, pending>>

CachedVersions(x) == {v \in Versions : <<x, v>> \in world.cached}

NeedsSources(x) ==
    IF nodes[x].selected # None THEN <<x, nodes[x].selected>> \notin world.cached
    ELSE x \in world.mapped \/ CachedVersions(x) = {}

Spawn(x) ==
    /\ Dispatches(x)
    /\ <<x, nodes[x].selected>> \notin metadata
    /\ NeedsSources(x) => x \in world.mapped /\ world.online
    /\ ready' = ready \ {x}
    /\ inFlight' = inFlight \cup {x}
    /\ tasks' = tasks \cup {[id |-> x, generation |-> nodes[x].generation,
                             version |-> nodes[x].selected]}
    /\ UNCHANGED <<world, pc, nodes, dirty, caches, pending, failure>>

\* No enabled source for the identity, or ensure_identity fails.
RejectSource(x) ==
    /\ Dispatches(x)
    /\ <<x, nodes[x].selected>> \notin metadata
    /\ NeedsSources(x) /\ ~(x \in world.mapped /\ world.online)
    /\ Fail(IF x \in world.mapped THEN "discovery" ELSE "unmapped")
    /\ ready' = ready \ {x}
    /\ UNCHANGED <<world, nodes, dirty, caches, pending>>

\* What load_node_metadata can answer: "requirements" from the cache or from a
\* source (which also yields the package), "versions" when the exact version
\* could not be fetched or was not known, or an error.
Published(t) == t.version \in world.feed[t.id]
Listed(t) == (IF t.id \in world.mapped THEN world.feed[t.id] ELSE {})
             \cup CachedVersions(t.id)
Result(kind) == [kind |-> kind, package |-> FALSE]

Results(t) ==
    IF <<t.id, t.version>> \in world.cached THEN {Result("requirements")}
    ELSE (IF Published(t) THEN {[kind |-> "requirements", package |-> TRUE]} ELSE {})
    \cup (IF Published(t) /\ <<t.id, t.version>> \notin world.flaky THEN {}
          ELSE {Result(IF Listed(t) = {} THEN "error" ELSE "versions")})
    \cup (IF <<t.id, t.version>> \in world.flaky THEN {Result("error")} ELSE {})

\* join_next, once nothing more can be dispatched.
Joins(t) == pc = "schedule" /\ ~CanDispatch /\ t \in tasks
Leave(t) == tasks' = tasks \ {t} /\ inFlight' = inFlight \ {t.id}

\* Mutant: a result is stale only when its node is gone.
Stale_OnlyMissing(t) == ~nodes[t.id].live

Stale(t) == ~nodes[t.id].live \/ nodes[t.id].generation # t.generation

\* Mutant: a stale result queues its identity unconditionally.
Requeue_Always(t) == ready' = ready \cup {t.id}

Requeue(t) == ready' = IF nodes[t.id].live /\ ~nodes[t.id].pruned
                       THEN ready \cup {t.id} ELSE ready

JoinError(t) ==
    /\ Joins(t) /\ Result("error") \in Results(t)
    /\ \/ Stale(t) /\ Leave(t) /\ Requeue(t) /\ UNCHANGED <<pc, failure>>
       \/ ~Stale(t) /\ Fail("fetch") /\ UNCHANGED ready
    /\ UNCHANGED <<world, nodes, dirty, caches, pending>>

\* A version list is kept whatever the generation of the task.
WithVersions(t) == IF nodes[t.id].live
                   THEN [nodes EXCEPT ![t.id].available = Listed(t)] ELSE nodes

JoinVersions(t) ==
    /\ Joins(t) /\ Result("versions") \in Results(t)
    /\ Leave(t)
    /\ nodes' = WithVersions(t)
    /\ dirty' = IF nodes[t.id].live THEN dirty \cup {t.id} ELSE dirty
    /\ pc' = "stabilize"
    /\ UNCHANGED <<world, ready, caches, pending, failure>>

Remember(t, package) ==
    /\ metadata' = metadata \cup {<<t.id, t.version>>}
    /\ packages' = IF package THEN packages \cup {<<t.id, t.version>>} ELSE packages
    /\ held' = IF package THEN held \cup {<<t.id, t.version>>} ELSE held

JoinRequirements(t) ==
    \E package \in BOOLEAN :
       /\ Joins(t) /\ [kind |-> "requirements", package |-> package] \in Results(t)
       /\ Remember(t, package)
       /\ \/ /\ Stale(t)
             /\ Leave(t) /\ Requeue(t) /\ pc' = "stabilize"
             /\ UNCHANGED <<nodes, dirty, failure>>
          \/ /\ ~Stale(t)
             /\ Install(t.id, t.version)
             /\ IF <<t.id, t.version>> \in world.duplicated THEN TRUE ELSE Leave(t)
             /\ UNCHANGED ready
       /\ UNCHANGED <<world, pending>>

\* await_with_cancellation prefers the cancellation to a completed task, and
\* ensure_identity checks it before a dispatch that needs sources.
Cancel ==
    /\ \/ pc = "schedule" /\ ~CanDispatch /\ tasks # {}
       \/ \E x \in Ids : /\ Dispatches(x) /\ NeedsSources(x)
                         /\ <<x, nodes[x].selected>> \notin metadata
       \/ pc = "acquire" /\ pending # {}
    /\ Fail("cancelled")
    /\ UNCHANGED <<world, nodes, dirty, ready, caches, pending>>

-------------------------------------------------------------------------------
(* After the loop: the exact packages are acquired and the graph returned. *)

Exact == {x \in Ids : nodes[x].live /\ ~nodes[x].pruned}
Chosen(x) == <<x, nodes[x].selected>>
FinalChildren(x) == {y \in Children(nodes, x) : ~nodes[y].pruned}

BeginAcquisition ==
    /\ pc = "schedule" /\ ready = {} /\ tasks = {}
    /\ IF \E x \in Exact : nodes[x].selected = None
       THEN Fail("unselected") /\ UNCHANGED pending
       ELSE /\ pc' = "acquire"
            /\ pending' = {x \in Exact : Chosen(x) \notin held \cup packages}
            /\ UNCHANGED <<tasks, inFlight, failure>>
    /\ UNCHANGED <<world, nodes, dirty, ready, caches>>

\* ensure_package for one remaining package; the tasks share no state.
Acquire(x) ==
    /\ pc = "acquire" /\ x \in pending
    /\ \/ /\ Chosen(x) \in world.cached \/ nodes[x].selected \in world.feed[x]
          /\ pending' = pending \ {x}
          /\ packages' = IF Chosen(x) \in metadata
                         THEN packages \cup {Chosen(x)} ELSE packages
          /\ UNCHANGED <<pc, failure, tasks, inFlight>>
       \/ /\ Chosen(x) \notin world.cached
          /\ nodes[x].selected \notin world.feed[x] \/ Chosen(x) \in world.flaky
          /\ Fail("acquire")
          /\ UNCHANGED <<pending, packages>>
    /\ UNCHANGED <<world, nodes, dirty, ready, metadata, held>>

\* validate_acyclic over every package of the graph.
HasCycle ==
    \E x \in Exact : x \in Closure([y \in Ids |-> FinalChildren(y)], FinalChildren(x))

Return ==
    /\ pc = "acquire" /\ pending = {}
    /\ IF HasCycle THEN Fail("cycle")
       ELSE pc' = "done" /\ UNCHANGED <<tasks, inFlight, failure>>
    /\ UNCHANGED <<world, nodes, dirty, ready, caches, pending>>

-------------------------------------------------------------------------------
Init ==
    /\ world \in Worlds
    /\ pc = "stabilize"
    /\ nodes = [x \in Ids |-> IF IsDirect(world, x) THEN Fresh ELSE Absent]
    /\ dirty = {x \in Ids : IsDirect(world, x)}
    /\ ready = {} /\ tasks = {} /\ inFlight = {}
    /\ metadata = world.batch /\ packages \in {{}, world.batch} /\ held = {}
    /\ pending = {} /\ failure = "none"

Next ==
    \/ \E x \in Ids : RemoveOrphan(x)
    \/ \E x \in Ids : KeepSelection(x)
    \/ \E x \in Ids : ChangeSelection(x)
    \/ \E x \in Ids : FailSelection(x)
    \/ Stabilized
    \/ \E x \in Ids : ReuseMetadata(x)
    \/ \E x \in Ids : Spawn(x)
    \/ \E x \in Ids : RejectSource(x)
    \/ \E t \in tasks : JoinError(t)
    \/ \E t \in tasks : JoinVersions(t)
    \/ \E t \in tasks : JoinRequirements(t)
    \/ BeginAcquisition
    \/ \E x \in Ids : Acquire(x)
    \/ Return
    \/ Cancel

Spec == Init /\ [][Next]_vars

\* The owner always runs, and every task ends: requests carry timeouts, cache
\* reads and archive work are finite.
FairSpec == Spec /\ WF_vars(Next)

-------------------------------------------------------------------------------
\* Every variable has its type, and an identity outside the map has no trace in
\* its slot: a completion that arrives after the removal must not revive it.
TypeOK ==
    /\ world \in Worlds
    /\ pc \in {"stabilize", "schedule", "acquire", "done", "failed"}
    /\ nodes \in [Ids -> Nodes]
    /\ \A x \in Ids : ~nodes[x].live => nodes[x] = Absent
    /\ dirty \subseteq Ids /\ ready \subseteq Ids /\ pending \subseteq Ids
    /\ tasks \subseteq Tasks
    /\ inFlight \subseteq Ids
    /\ \A c \in {metadata, packages, held} : c \subseteq Ids \X Versions
    /\ failure \in Failures
=============================================================================
