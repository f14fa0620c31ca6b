------------------------ MODULE PackageGraphReference ------------------------
(***************************************************************************)
(* What a resolution is, stated without the scheduler: an assignment of    *)
(* versions that reproduces itself when every package of the graph selects *)
(* among the constraints that the assignment itself imposes.  The          *)
(* properties compare the scheduler of PackageGraph with it.               *)
(***************************************************************************)
EXTENDS PackageGraph

Assignments == [Ids -> Versions \cup {None}]

\* The manifest edges an assignment stands for; None marks a package outside
\* the graph, and a pruned package is never opened.
ManifestOf(w, chosen, x) ==
    IF chosen[x] = None \/ IsPruned(w, x, chosen[x]) THEN NoEdges
    ELSE w.deps[x][chosen[x]]

GraphOf(w, chosen) ==
    [x \in Ids |->
       [live |-> chosen[x] # None, pruned |-> IsPruned(w, x, chosen[x]),
        deps |-> ManifestOf(w, chosen, x),
        constraints |-> [p \in Ids |-> ManifestOf(w, chosen, p)[x]],
        selected |-> chosen[x], metadata |-> chosen[x], generation |-> 0,
        available |-> IF IsPruned(w, x, chosen[x]) THEN {}
                      ELSE {v \in Versions : v \in w.feed[x] \/ <<x, v>> \in w.cached}]]

\* The chosen packages are those the direct requests reach, and each of them
\* selects its version among the constraints of the others.  A pin is selected
\* whatever they are, so they must admit it; any other version that is selected lies
\* in every range that counts, and no test of the ranges for a conflict is asked.
IsResolution(w, chosen) ==
    /\ {x \in Ids : chosen[x] # None} =
          Closure([x \in Ids |-> Targets(ManifestOf(w, chosen, x))],
                  {x \in Ids : IsDirect(w, x)})
    /\ \A x \in Ids : chosen[x] # None =>
          /\ Selection(w, GraphOf(w, chosen), x) = {chosen[x]}
          /\ IsPinned(w, x) => Refusal(w, GraphOf(w, chosen), x) = "none"

\* The versions a resolution puts into the lock: pruned packages are left out.
Visible(w, chosen) ==
    [x \in Ids |-> IF IsPruned(w, x, chosen[x]) THEN None ELSE chosen[x]]

\* Every resolution of every world; a constant, so it is computed once.
Resolutions ==
    [w \in Worlds |-> {Visible(w, chosen) :
                         chosen \in {c \in Assignments : IsResolution(w, c)}}]

Locked == [x \in Ids |-> IF x \in Exact THEN nodes[x].selected ELSE None]

Reachable == Closure([x \in Ids |-> Children(nodes, x)],
                     {x \in Ids : IsDirect(world, x)})

\* collect_downgrades: the constraint of p that the final selection of x does not
\* satisfy and that a direct request or a nearer parent overrides.
Downgraded(p, x) ==
    /\ p \in Parents(nodes, x)
    /\ x \in Exact /\ nodes[x].selected # None
    /\ ~Contains(nodes[x].constraints[p], nodes[x].selected)
    /\ IsDirect(world, x) \/ Dominated(world, nodes, x, p)

-------------------------------------------------------------------------------
\* The scheduler's books agree: only live, unpruned nodes wait to be fetched
\* (anything else in ready would spin the loop forever), one task per identity
\* in inFlight, and never more tasks than workers.
SchedulerSound ==
    /\ \A x \in ready : nodes[x].live /\ ~nodes[x].pruned
    /\ inFlight = {t.id : t \in tasks}
    /\ \A s, t \in tasks : s.id = t.id => s = t
    /\ Cardinality(tasks) <= MaxWorkers

\* A dependency edge never dangles: its child is in the graph and carries the
\* parent's range, through every revision, removal and stale completion.
EdgesBacked ==
    \A x, y \in Ids :
       nodes[x].deps[y] # NoRange =>
          nodes[y].live /\ nodes[y].constraints[x] = nodes[x].deps[y]

\* Whether x carries the manifest of the version it selects.
Expanded(x) == /\ nodes[x].selected # None
               /\ nodes[x].metadata = nodes[x].selected
               /\ nodes[x].deps = world.deps[x][nodes[x].selected]

\* A package that lacks the manifest of its selected version, or carries that of
\* another one, is never forgotten: it waits to be reselected or fetched, or a
\* task that will report on it is out.
NoLostWork ==
    pc \in {"stabilize", "schedule"} =>
       \A x \in Exact : Expanded(x) \/ x \in dirty \cup ready \cup inFlight

\* Every package of a returned graph was expanded: its edges are those of the
\* manifest of the selected version.
ManifestsComplete == pc = "done" => \A x \in Exact : Expanded(x)

\* The answer does not depend on the completion order: what is returned is the
\* only resolution of the inputs.
OrderIndependent == pc = "done" => Resolutions[world] = {Locked}

\* A conflict, downgrade or missing-version error means that the inputs have no
\* resolution, not that the graph passed through a bad intermediate state.
ErrorsAreFinal ==
    failure \in {"conflict", "downgrade", "not_found", "diverged"} => Resolutions[world] = {}

\* A returned graph, and one rejected as cyclic, holds only packages that the
\* direct requests still reach.
NoLeftovers ==
    pc = "done" \/ failure = "cycle" => {x \in Ids : nodes[x].live} \subseteq Reachable

\* Every constraint the returned graph violates is reported as a downgrade.
NoSilentDowngrade ==
    pc = "done" => \A x \in Exact : \A p \in Parents(nodes, x) :
       Contains(nodes[x].constraints[p], nodes[x].selected) \/ Downgraded(p, x)

\* Whenever a selection changes, whether the node was fetched or not, its
\* edges are gone and results in flight for the old version can be told apart.
RevisionsRetract ==
    [][\A x \in Ids : nodes[x].live /\ nodes'[x].live
                      /\ nodes'[x].selected # nodes[x].selected =>
          /\ nodes'[x].generation > nodes[x].generation
          /\ nodes'[x].deps = NoEdges /\ nodes'[x].metadata = None
          /\ \A y \in Ids \ {x} : nodes'[y].constraints[x] = NoRange]_vars

\* Every resolution ends, with a graph or an error.
Termination == <>(pc \in {"done", "failed"})
=============================================================================
