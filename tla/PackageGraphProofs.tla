-------------------------- MODULE PackageGraphProofs --------------------------
(***************************************************************************)
(* What PackageGraph guarantees for every set of packages, versions,       *)
(* worlds, worker bound and revision bound.  The inductive invariant is    *)
(* the type invariant with the scheduler's books and the backing of edges; *)
(* each part needs the type invariant, and the books need that an edit of  *)
(* the node map never prunes or removes a node that waits in ready.        *)
(***************************************************************************)
EXTENDS PackageGraphReference, FiniteSetTheorems, TLAPS

\* Every edge map of a world has its type, so the manifests installed do too.
LEMMA WorldEdges ==
    ASSUME TypeOK
    PROVE  /\ world \in WorldType
           /\ \A x \in Ids : world.direct[x] \in Ranges \cup {NoRange}
           /\ \A x \in Ids, v \in Versions : world.deps[x][v] \in Edges
           /\ world.cached \subseteq Ids \X Versions
           /\ \A x \in Ids : world.feed[x] \subseteq Versions
           /\ world.batch \subseteq Ids \X Versions
  <1>1. world \in WorldType
    BY WorldsAssumption DEF TypeOK
  <1> QED
    BY <1>1 DEF WorldType, Edges

LEMMA AbsentType ==
    /\ NoEdges \in Edges /\ Absent \in Nodes /\ Fresh \in Nodes
    /\ Fresh.live /\ Fresh.pruned = FALSE /\ Fresh.deps = NoEdges
    /\ ~Absent.live /\ Absent.deps = NoEdges
  <1>1. NoEdges \in Edges
    BY DEF NoEdges, Edges
  <1>2. Absent \in Nodes
    BY <1>1, BoundsAssumption DEF Absent, Nodes, None
  <1>3. Fresh \in Nodes
    BY <1>2 DEF Fresh, Nodes
  <1>4. Fresh.live /\ Fresh.pruned = FALSE /\ Fresh.deps = NoEdges
    BY DEF Fresh, Absent
  <1>5. ~Absent.live /\ Absent.deps = NoEdges
    BY DEF Absent
  <1> QED
    BY <1>1, <1>2, <1>3, <1>4, <1>5

-------------------------------------------------------------------------------
\* Writing one incoming constraint leaves the rest of a node alone.
LEMMA ConstraintEdit ==
    ASSUME NEW n \in Nodes, NEW x \in Ids, NEW e \in Ranges \cup {NoRange}
    PROVE  LET m == [n EXCEPT !.constraints[x] = e]
           IN  /\ m \in Nodes
               /\ m.live = n.live /\ m.pruned = n.pruned /\ m.deps = n.deps
               /\ m.constraints[x] = e
               /\ \A u \in Ids \ {x} : m.constraints[u] = n.constraints[u]
  <1>1. [n.constraints EXCEPT ![x] = e] \in Edges
    BY DEF Nodes, Edges
  <1>2. [n EXCEPT !.constraints[x] = e] \in Nodes
    BY <1>1 DEF Nodes
  <1>3. LET m == [n EXCEPT !.constraints[x] = e]
        IN  m.live = n.live /\ m.pruned = n.pruned /\ m.deps = n.deps
    BY DEF Nodes
  <1>4. LET m == [n EXCEPT !.constraints[x] = e]
        IN  /\ m.constraints[x] = e
            /\ \A u \in Ids \ {x} : m.constraints[u] = n.constraints[u]
    BY DEF Nodes, Edges
  <1> QED
    BY <1>2, <1>3, <1>4

\* Two slots agree on everything but constraints.
SameButConstraints(m, n, x) ==
    /\ m.live = n.live /\ m.pruned = n.pruned /\ m.deps = n.deps
    /\ \A u \in Ids \ {x} : m.constraints[u] = n.constraints[u]

\* Retracting the edges of x only clears the constraint that x owns.
LEMMA RetractKeeps ==
    ASSUME NEW ns \in [Ids -> Nodes], NEW x \in Ids
    PROVE  /\ Retract(ns, x) \in [Ids -> Nodes]
           /\ \A y \in Ids : SameButConstraints(Retract(ns, x)[y], ns[y], x)
           /\ \A y \in Ids : ~ns[y].live => Retract(ns, x)[y] = ns[y]
  <1>1. ASSUME NEW y \in Ids
        PROVE  /\ Retract(ns, x)[y] \in Nodes
               /\ SameButConstraints(Retract(ns, x)[y], ns[y], x)
               /\ ~ns[y].live => Retract(ns, x)[y] = ns[y]
    <2>1. CASE y \in Targets(ns[x].deps) /\ ns[y].live
      <3>1. Retract(ns, x)[y] = [ns[y] EXCEPT !.constraints[x] = NoRange]
        BY <2>1 DEF Retract
      <3>2. ns[y] \in Nodes /\ NoRange \in Ranges \cup {NoRange}
        OBVIOUS
      <3>3. LET m == [ns[y] EXCEPT !.constraints[x] = NoRange]
            IN  m \in Nodes /\ SameButConstraints(m, ns[y], x)
        BY <3>2, ConstraintEdit DEF SameButConstraints
      <3> QED
        BY <2>1, <3>1, <3>3
    <2>2. CASE ~(y \in Targets(ns[x].deps) /\ ns[y].live)
      <3>1. Retract(ns, x)[y] = ns[y]
        BY <2>2 DEF Retract
      <3> QED
        BY <3>1 DEF SameButConstraints
    <2> QED
      BY <2>1, <2>2
  <1>2. Retract(ns, x) \in [Ids -> Nodes]
    <2>1. Retract(ns, x) = [y \in Ids |-> Retract(ns, x)[y]]
      BY DEF Retract
    <2> QED
      BY <1>1, <2>1
  <1> QED
    BY <1>1, <1>2

\* Installing the edges new of a live node x: every child becomes live with the
\* new range, x owns exactly the new edges, nothing else moves.
LEMMA InstalledKeeps ==
    ASSUME NEW ns \in [Ids -> Nodes], NEW x \in Ids, NEW new \in Edges,
           ns[x].live, \A y \in Ids : ~ns[y].live => ns[y] = Absent
    PROVE  /\ Installed(ns, x, new) \in [Ids -> Nodes]
           /\ \A y \in Ids :
                 /\ ns[y].live => Installed(ns, x, new)[y].live
                 /\ Installed(ns, x, new)[y].pruned = ns[y].pruned
                 /\ Installed(ns, x, new)[y].deps = (IF y = x THEN new ELSE ns[y].deps)
                 /\ \A u \in Ids \ {x} : ns[y].live =>
                       Installed(ns, x, new)[y].constraints[u] = ns[y].constraints[u]
                 /\ new[y] # NoRange => /\ Installed(ns, x, new)[y].live
                                        /\ Installed(ns, x, new)[y].constraints[x] = new[y]
                 /\ ~Installed(ns, x, new)[y].live =>
                       Installed(ns, x, new)[y] = Absent
  <1> DEFINE entry(y) == IF ns[y].live THEN ns[y] ELSE Fresh
             child(y) == IF new[y] # NoRange
                         THEN [entry(y) EXCEPT !.constraints[x] = new[y]] ELSE ns[y]
             final(y) == IF y = x THEN [child(y) EXCEPT !.deps = new,
                                                        !.metadata = ns[x].selected]
                         ELSE child(y)
  <1>1. Installed(ns, x, new) = [y \in Ids |-> final(y)]
    BY DEF Installed
  <1>2. ASSUME NEW y \in Ids
        PROVE  /\ child(y) \in Nodes
               /\ ns[y].live => child(y).live
               /\ child(y).pruned = ns[y].pruned /\ child(y).deps = ns[y].deps
               /\ \A u \in Ids \ {x} : ns[y].live =>
                     child(y).constraints[u] = ns[y].constraints[u]
               /\ new[y] # NoRange => child(y).live /\ child(y).constraints[x] = new[y]
               /\ ~child(y).live => child(y) = Absent
    <2>1. /\ entry(y) \in Nodes /\ entry(y).live
          /\ entry(y).pruned = ns[y].pruned /\ entry(y).deps = ns[y].deps
      <3>1. CASE ns[y].live
        BY <3>1
      <3>2. CASE ~ns[y].live
        <4>1. ns[y] = Absent /\ entry(y) = Fresh
          BY <3>2
        <4>2. Absent.pruned = FALSE
          BY DEF Absent
        <4> QED
          BY <4>1, <4>2, AbsentType
      <3> QED
        BY <3>1, <3>2
    <2>2. CASE new[y] # NoRange
      <3>1. child(y) = [entry(y) EXCEPT !.constraints[x] = new[y]]
        BY <2>2
      <3>2. new[y] \in Ranges \cup {NoRange}
        BY DEF Edges
      <3> HIDE DEF child
      <3>3. /\ child(y) \in Nodes
            /\ child(y).live = entry(y).live /\ child(y).pruned = entry(y).pruned
            /\ child(y).deps = entry(y).deps /\ child(y).constraints[x] = new[y]
            /\ \A u \in Ids \ {x} : child(y).constraints[u] = entry(y).constraints[u]
        BY <2>1, <3>1, <3>2, ConstraintEdit
      <3>4. ns[y].live => entry(y) = ns[y]
        OBVIOUS
      <3> HIDE DEF entry
      <3> QED
        BY <2>1, <2>2, <3>3, <3>4
    <2>3. CASE new[y] = NoRange
      BY <2>3
    <2> QED
      BY <2>2, <2>3
  <1>3. ASSUME NEW y \in Ids
        PROVE  /\ final(y) \in Nodes
               /\ final(y).live = child(y).live /\ final(y).pruned = child(y).pruned
               /\ final(y).constraints = child(y).constraints
               /\ final(y).deps = IF y = x THEN new ELSE ns[y].deps
               /\ ~final(y).live => final(y) = child(y)
    <2>1. CASE y = x
      <3>1. final(y) = [child(y) EXCEPT !.deps = new, !.metadata = ns[x].selected]
        BY <2>1
      <3>2. child(y) \in Nodes /\ ns[x].selected \in Versions \cup {None} /\ child(y).live
        BY <1>2, <2>1 DEF Nodes
      <3> HIDE DEF child, final
      <3>3. final(y) \in Nodes
        BY <3>1, <3>2 DEF Nodes
      <3>4. /\ final(y).live = child(y).live /\ final(y).pruned = child(y).pruned
            /\ final(y).constraints = child(y).constraints /\ final(y).deps = new
        BY <3>1, <3>2 DEF Nodes
      <3> QED
        BY <2>1, <3>2, <3>3, <3>4
    <2>2. CASE y # x
      <3>1. final(y) = child(y)
        BY <2>2
      <3> HIDE DEF child, final
      <3> QED
        BY <1>2, <2>2, <3>1
    <2> QED
      BY <2>1, <2>2
  <1> HIDE DEF entry, child, final
  <1>4. Installed(ns, x, new) \in [Ids -> Nodes]
    BY <1>1, <1>3
  <1>5. \A y \in Ids : Installed(ns, x, new)[y] = final(y)
    BY <1>1
  <1> QED
    BY <1>2, <1>3, <1>4, <1>5

-------------------------------------------------------------------------------
\* Revising x clears its edges and what they put on others, and keeps it live.
LEMMA RevisedKeeps ==
    ASSUME nodes \in [Ids -> Nodes], NEW x \in Ids, NEW next \in Versions \cup {None},
           NEW pruned \in BOOLEAN, nodes[x].live, nodes[x].generation < MaxRevisions
    PROVE  /\ Revised(x, next, pruned) \in [Ids -> Nodes]
           /\ \A y \in Ids \ {x} : Revised(x, next, pruned)[y] = Retract(nodes, x)[y]
           /\ Revised(x, next, pruned)[x].live
           /\ Revised(x, next, pruned)[x].pruned = pruned
           /\ Revised(x, next, pruned)[x].deps = NoEdges
           /\ \A u \in Ids \ {x} :
                 Revised(x, next, pruned)[x].constraints[u] = nodes[x].constraints[u]
  <1> DEFINE r == Retract(nodes, x)
             n == [live |-> TRUE, constraints |-> r[x].constraints, deps |-> NoEdges,
                   selected |-> next, metadata |-> None, available |-> r[x].available,
                   pruned |-> pruned, generation |-> r[x].generation + 1]
  <1>1. /\ r \in [Ids -> Nodes] /\ r[x] \in Nodes
        /\ \A u \in Ids \ {x} : r[x].constraints[u] = nodes[x].constraints[u]
    BY RetractKeeps DEF SameButConstraints
  <1>2. r[x].generation = nodes[x].generation
    BY DEF Retract, Nodes
  <1> HIDE DEF r
  <1>3. r[x].generation + 1 \in 0..MaxRevisions
    <2>1. nodes[x].generation \in 0..MaxRevisions
      BY DEF Nodes
    <2> QED
      BY <1>2, <2>1, BoundsAssumption
  <1>4. n \in Nodes
    BY <1>1, <1>3, AbsentType DEF Nodes
  <1>5. Revised(x, next, pruned) = [r EXCEPT ![x] = n]
    BY DEF Revised, r
  <1>6. n.live /\ n.pruned = pruned /\ n.deps = NoEdges /\ n.constraints = r[x].constraints
    OBVIOUS
  <1> HIDE DEF n
  <1> QED
    BY <1>1, <1>4, <1>5, <1>6 DEF r


-------------------------------------------------------------------------------
\* The two halves of the type invariant.
NodesOK == /\ nodes \in [Ids -> Nodes]
           /\ \A x \in Ids : ~nodes[x].live => nodes[x] = Absent
QueuesOK ==
    /\ world \in Worlds
    /\ pc \in {"stabilize", "schedule", "acquire", "done", "failed"}
    /\ dirty \subseteq Ids /\ ready \subseteq Ids /\ pending \subseteq Ids
    /\ tasks \subseteq Tasks
    /\ inFlight \subseteq Ids
    /\ metadata \subseteq Ids \X Versions /\ packages \subseteq Ids \X Versions
    /\ held \subseteq Ids \X Versions
    /\ failure \in Failures

LEMMA TypeHalves == TypeOK <=> NodesOK /\ QueuesOK
  BY DEF TypeOK, NodesOK, QueuesOK

\* The traversals never leave the identities.
LEMMA TraversalsInIds ==
    ASSUME NEW ns, NEW roots, NEW x, NEW new
    PROVE  /\ Children(ns, x) \subseteq Ids /\ Descendants(ns, roots) \subseteq Ids
           /\ Retracted(ns, x) \subseteq Ids /\ InstallDirties(ns, x, new) \subseteq Ids
  BY DEF Children, Descendants, Retracted, InstallDirties, Targets

LEMMA NodesInit == Init => NodesOK
  BY AbsentType DEF Init, NodesOK

LEMMA QueuesInit == Init => QueuesOK
  <1> SUFFICES ASSUME Init PROVE QueuesOK
    OBVIOUS
  <1>1. world.batch \subseteq Ids \X Versions
    BY WorldsAssumption DEF Init, WorldType
  <1> QED
    BY <1>1 DEF Init, QueuesOK, Failures

\* Installing the manifest of a live node types the node map again.
LEMMA InstallNodes ==
    ASSUME TypeOK, NEW x \in Ids, NEW v \in Versions, nodes[x].live, Install(x, v)
    PROVE  NodesOK'
  <1>1. NodesOK /\ world.deps[x][v] \in Edges
    BY TypeHalves, WorldEdges
  <1>2. CASE nodes' = nodes
    BY <1>1, <1>2 DEF NodesOK
  <1>3. CASE nodes' = Installed(nodes, x, world.deps[x][v])
    BY <1>1, <1>3, InstalledKeeps DEF NodesOK
  <1> QED
    BY <1>2, <1>3 DEF Install

\* A task that answers with requirements was sent for a known version.
LEMMA RequirementsVersion ==
    ASSUME TypeOK, NEW t \in tasks, NEW package \in BOOLEAN,
           [kind |-> "requirements", package |-> package] \in Results(t)
    PROVE  t.id \in Ids /\ t.version \in Versions
  <1>1. t.id \in Ids
    BY DEF TypeOK, Tasks
  <1>2. <<t.id, t.version>> \in world.cached \/ t.version \in world.feed[t.id]
    BY DEF Results, Result, Published
  <1> QED
    BY <1>1, <1>2, WorldEdges

LEMMA NodesStep == TypeOK /\ Next => NodesOK'
  <1> SUFFICES ASSUME TypeOK, Next PROVE NodesOK'
    OBVIOUS
  <1>1. NodesOK /\ nodes \in [Ids -> Nodes]
    BY TypeHalves DEF NodesOK
  <1>2. CASE nodes' = nodes
    BY <1>1, <1>2 DEF NodesOK
  <1>3. ASSUME NEW x \in Ids, RemoveOrphan(x) PROVE NodesOK'
    BY <1>1, <1>3, RetractKeeps, AbsentType DEF RemoveOrphan, NodesOK, SameButConstraints
  <1>4. ASSUME NEW x \in Ids, ChangeSelection(x) PROVE NodesOK'
    <2>1. PICK next \in Versions \cup {None}, pruned \in BOOLEAN :
            /\ nodes[x].live /\ nodes[x].generation < MaxRevisions
            /\ nodes' = Revised(x, next, pruned)
      BY <1>4 DEF ChangeSelection, Reselects
    <2>2. /\ nodes' \in [Ids -> Nodes] /\ nodes'[x].live
          /\ \A y \in Ids \ {x} : nodes'[y] = Retract(nodes, x)[y]
      BY <1>1, <2>1, RevisedKeeps
    <2>3. \A y \in Ids :
             /\ Retract(nodes, x)[y].live = nodes[y].live
             /\ ~nodes[y].live => Retract(nodes, x)[y] = nodes[y]
      BY <1>1, RetractKeeps DEF SameButConstraints
    <2>4. ASSUME NEW y \in Ids, ~nodes'[y].live PROVE nodes'[y] = Absent
      <3>1. y # x
        BY <2>2, <2>4
      <3>2. nodes'[y] = Retract(nodes, x)[y]
        BY <2>2, <3>1
      <3>3. ~nodes[y].live
        BY <2>3, <2>4, <3>2
      <3> QED
        BY <1>1, <2>3, <3>2, <3>3 DEF NodesOK
    <2> QED
      BY <2>2, <2>4 DEF NodesOK
  <1>5. ASSUME NEW x \in Ids, ReuseMetadata(x) PROVE NodesOK'
    <2>1. nodes[x].live /\ nodes[x].selected \in Versions
      BY <1>5 DEF ReuseMetadata, Dispatches, Eligible, TypeOK
    <2> QED
      BY <1>5, <2>1, InstallNodes DEF ReuseMetadata
  <1>6. ASSUME NEW t \in tasks, JoinVersions(t) PROVE NodesOK'
    <2>1. t.id \in Ids
      BY DEF TypeOK, Tasks
    <2>2. Listed(t) \in SUBSET Versions
      BY <2>1, WorldEdges DEF Listed, CachedVersions
    <2>3. CASE nodes[t.id].live
      <3>1. nodes' = [nodes EXCEPT ![t.id].available = Listed(t)]
        BY <1>6, <2>3 DEF JoinVersions, WithVersions
      <3>2. /\ [nodes[t.id] EXCEPT !.available = Listed(t)] \in Nodes
            /\ [nodes[t.id] EXCEPT !.available = Listed(t)].live = nodes[t.id].live
        BY <1>1, <2>1, <2>2 DEF Nodes
      <3> QED
        BY <1>1, <2>1, <2>3, <3>1, <3>2 DEF NodesOK
    <2>4. CASE ~nodes[t.id].live
      BY <1>1, <1>6, <2>4 DEF JoinVersions, WithVersions, NodesOK
    <2> QED
      BY <2>3, <2>4
  <1>7. ASSUME NEW t \in tasks, JoinRequirements(t) PROVE NodesOK'
    <2>1. PICK package \in BOOLEAN :
            /\ [kind |-> "requirements", package |-> package] \in Results(t)
            /\ \/ nodes' = nodes
               \/ ~Stale(t) /\ Install(t.id, t.version)
      BY <1>7 DEF JoinRequirements
    <2>2. t.id \in Ids /\ t.version \in Versions
      BY <2>1, RequirementsVersion
    <2>3. CASE ~Stale(t) /\ Install(t.id, t.version)
      BY <2>2, <2>3, InstallNodes DEF Stale
    <2> QED
      BY <1>2, <2>1, <2>3
  <1>8. ASSUME NEW x \in Ids,
               \/ KeepSelection(x) \/ FailSelection(x)
               \/ Spawn(x) \/ RejectSource(x) \/ Acquire(x)
        PROVE  nodes' = nodes
    BY <1>8 DEF KeepSelection, FailSelection, Spawn, RejectSource, Acquire
  <1>9. ASSUME NEW t \in tasks, JoinError(t) PROVE nodes' = nodes
    BY <1>9 DEF JoinError
  <1>10. ASSUME Stabilized \/ BeginAcquisition \/ Return \/ Cancel
         PROVE  nodes' = nodes
    BY <1>10 DEF Stabilized, BeginAcquisition, Return, Cancel
  <1> QED
    BY <1>2, <1>3, <1>4, <1>5, <1>6, <1>7, <1>8, <1>9, <1>10 DEF Next

LEMMA FailQueues ==
    ASSUME NEW kind \in Failures, Fail(kind)
    PROVE  pc' = "failed" /\ failure' \in Failures /\ tasks' = {} /\ inFlight' = {}
  BY DEF Fail

LEMMA InstallQueues ==
    ASSUME QueuesOK, NEW x \in Ids, NEW v, Install(x, v)
    PROVE  /\ pc' \in {"stabilize", "failed"} /\ dirty' \subseteq Ids
           /\ failure' \in Failures
           /\ pc' = "failed" => tasks' = {} /\ inFlight' = {}
           /\ pc' = "failed" <=> <<x, v>> \in world.duplicated
  <1>1. CASE <<x, v>> \in world.duplicated
    BY <1>1 DEF Install, QueuesOK, Fail, Failures
  <1>2. CASE <<x, v>> \notin world.duplicated
    BY <1>2, TraversalsInIds DEF Install, QueuesOK
  <1> QED
    BY <1>1, <1>2

LEMMA QueuesStep == TypeOK /\ Next => QueuesOK'
  <1> SUFFICES ASSUME TypeOK, Next PROVE QueuesOK'
    OBVIOUS
  <1>1. QueuesOK
    BY TypeHalves
  <1>2. ASSUME NEW x \in Ids, KeepSelection(x) PROVE QueuesOK'
    BY <1>1, <1>2 DEF KeepSelection, QueuesOK, caches
  <1>3. ASSUME NEW x \in Ids, RemoveOrphan(x) PROVE QueuesOK'
    BY <1>1, <1>3, TraversalsInIds DEF RemoveOrphan, QueuesOK, caches
  <1>4. ASSUME NEW x \in Ids, ChangeSelection(x) PROVE QueuesOK'
    BY <1>1, <1>4, TraversalsInIds DEF ChangeSelection, Enqueued, QueuesOK, caches
  <1>5. ASSUME NEW x \in Ids, FailSelection(x) PROVE QueuesOK'
    <2>1. Refusal(world, nodes, x) \in Failures /\ "diverged" \in Failures
      BY DEF Refusal, Failures
    <2>2. pc' = "failed" /\ failure' \in Failures /\ tasks' = {} /\ inFlight' = {}
      BY <1>5, <2>1, FailQueues DEF FailSelection
    <2> QED
      BY <1>1, <1>5, <2>2 DEF FailSelection, QueuesOK, caches
  <1>6. ASSUME NEW x \in Ids, ReuseMetadata(x) PROVE QueuesOK'
    <2>1. /\ UNCHANGED <<world, metadata, packages, held, pending>>
          /\ Install(x, nodes[x].selected) /\ ready' \subseteq Ids
      BY <1>1, <1>6 DEF ReuseMetadata, caches, QueuesOK
    <2>2. tasks' \subseteq tasks /\ inFlight' \subseteq inFlight
      BY <1>1, <1>6, <2>1, InstallQueues DEF ReuseMetadata
    <2> QED
      BY <1>1, <2>1, <2>2, InstallQueues DEF QueuesOK
  <1>7. ASSUME NEW x \in Ids, Spawn(x) PROVE QueuesOK'
    <2>1. [id |-> x, generation |-> nodes[x].generation,
           version |-> nodes[x].selected] \in Tasks
      BY DEF TypeOK, Nodes, Tasks
    <2> QED
      BY <1>1, <1>7, <2>1 DEF Spawn, QueuesOK, caches
  <1>8. ASSUME NEW x \in Ids, RejectSource(x) PROVE QueuesOK'
    <2>1. (IF x \in world.mapped THEN "discovery" ELSE "unmapped") \in Failures
      BY DEF Failures
    <2>2. pc' = "failed" /\ failure' \in Failures /\ tasks' = {} /\ inFlight' = {}
      BY <1>8, <2>1, FailQueues DEF RejectSource
    <2> QED
      BY <1>1, <1>8, <2>2 DEF RejectSource, QueuesOK, caches
  <1>9. ASSUME NEW t \in tasks, JoinError(t) PROVE QueuesOK'
    <2>1. t.id \in Ids
      BY DEF TypeOK, Tasks
    <2> QED
      BY <1>1, <1>9, <2>1 DEF JoinError, Leave, Requeue, Fail, Failures, QueuesOK, caches
  <1>10. ASSUME NEW t \in tasks, JoinVersions(t) PROVE QueuesOK'
    <2>1. t.id \in Ids
      BY DEF TypeOK, Tasks
    <2> QED
      BY <1>1, <1>10, <2>1 DEF JoinVersions, Leave, QueuesOK, caches
  <1>11. ASSUME NEW t \in tasks, JoinRequirements(t) PROVE QueuesOK'
    <2>1. PICK package \in BOOLEAN :
            /\ [kind |-> "requirements", package |-> package] \in Results(t)
            /\ Remember(t, package)
            /\ \/ Leave(t) /\ Requeue(t) /\ pc' = "stabilize" /\ UNCHANGED <<dirty, failure>>
               \/ /\ Install(t.id, t.version) /\ UNCHANGED ready
                  /\ IF <<t.id, t.version>> \in world.duplicated THEN TRUE ELSE Leave(t)
            /\ UNCHANGED <<world, pending>>
      BY <1>11 DEF JoinRequirements
    <2>2. t.id \in Ids /\ t.version \in Versions
      BY <2>1, RequirementsVersion
    <2>3. /\ metadata' \subseteq Ids \X Versions /\ packages' \subseteq Ids \X Versions
          /\ held' \subseteq Ids \X Versions
      BY <1>1, <2>1, <2>2 DEF Remember, QueuesOK
    <2>4. CASE Leave(t) /\ Requeue(t) /\ pc' = "stabilize" /\ UNCHANGED <<dirty, failure>>
      BY <1>1, <2>1, <2>2, <2>3, <2>4 DEF Leave, Requeue, QueuesOK
    <2>5. CASE /\ Install(t.id, t.version) /\ UNCHANGED ready
               /\ IF <<t.id, t.version>> \in world.duplicated THEN TRUE ELSE Leave(t)
      <3>1. tasks' \subseteq tasks /\ inFlight' \subseteq inFlight
        BY <1>1, <2>2, <2>5, InstallQueues DEF Leave
      <3> QED
        BY <1>1, <2>1, <2>2, <2>3, <2>5, <3>1, InstallQueues DEF QueuesOK
    <2> QED
      BY <2>1, <2>4, <2>5
  <1>12. CASE Stabilized
    BY <1>1, <1>12 DEF Stabilized, QueuesOK, caches
  <1>13. CASE BeginAcquisition
    BY <1>1, <1>13 DEF BeginAcquisition, Exact, Fail, Failures, QueuesOK, caches
  <1>14. ASSUME NEW x \in Ids, Acquire(x) PROVE QueuesOK'
    BY <1>1, <1>14 DEF Acquire, Fail, Failures, QueuesOK
  <1>15. CASE Return
    BY <1>1, <1>15 DEF Return, Fail, Failures, QueuesOK, caches
  <1>16. CASE Cancel
    BY <1>1, <1>16 DEF Cancel, Fail, Failures, QueuesOK, caches
  <1> QED
    BY <1>2, <1>3, <1>4, <1>5, <1>6, <1>7, <1>8, <1>9, <1>10, <1>11, <1>12, <1>13,
       <1>14, <1>15, <1>16 DEF Next

\* Every reachable state has its type, for every instance.
THEOREM TypeCorrect == Spec => []TypeOK
  <1>1. Init => TypeOK
    BY NodesInit, QueuesInit, TypeHalves
  <1>2. TypeOK /\ [Next]_vars => TypeOK'
    <2>1. TypeOK /\ Next => TypeOK'
      <3>1. TypeOK /\ Next => NodesOK' /\ QueuesOK'
        BY NodesStep, QueuesStep
      <3>2. NodesOK' /\ QueuesOK' => TypeOK'
        BY DEF TypeOK, NodesOK, QueuesOK
      <3> QED
        BY <3>1, <3>2
    <2>2. TypeOK /\ UNCHANGED vars => TypeOK'
      BY DEF TypeOK, vars
    <2> QED
      BY <2>1, <2>2
  <1> QED
    BY <1>1, <1>2, PTL DEF Spec

-------------------------------------------------------------------------------
\* The two halves of SchedulerSound: whatever waits in ready is live and not
\* pruned; tasks and inFlight name the same identities, at most MaxWorkers.
ReadyLive == \A x \in ready : nodes[x].live /\ ~nodes[x].pruned
TaskBooks == /\ inFlight = {t.id : t \in tasks}
             /\ \A s, t \in tasks : s.id = t.id => s = t
             /\ IsFiniteSet(tasks) /\ Cardinality(tasks) <= MaxWorkers

LEMMA SchedulerHalves == ReadyLive /\ TaskBooks => SchedulerSound
  BY DEF SchedulerSound, ReadyLive, TaskBooks

\* An install may add nodes to the graph but neither removes nor prunes one.
LEMMA InstallReady ==
    ASSUME TypeOK, NEW x \in Ids, NEW v \in Versions, nodes[x].live, Install(x, v)
    PROVE  \A y \in Ids : /\ nodes[y].live => nodes'[y].live
                          /\ nodes'[y].pruned = nodes[y].pruned
  <1>1. NodesOK /\ world.deps[x][v] \in Edges
    BY TypeHalves, WorldEdges
  <1>2. CASE nodes' = nodes
    BY <1>2
  <1>3. CASE nodes' = Installed(nodes, x, world.deps[x][v])
    BY <1>1, <1>3, InstalledKeeps DEF NodesOK
  <1> QED
    BY <1>2, <1>3 DEF Install

LEMMA ReadyStep == TypeOK /\ ReadyLive /\ Next => ReadyLive'
  <1> SUFFICES ASSUME TypeOK, ReadyLive, Next PROVE ReadyLive'
    OBVIOUS
  <1>1. nodes \in [Ids -> Nodes] /\ ready \subseteq Ids
    BY DEF TypeOK
  <1>2. CASE nodes' = nodes /\ ready' \subseteq ready
    BY <1>2 DEF ReadyLive
  <1>3. ASSUME NEW x \in Ids, RemoveOrphan(x) PROVE ReadyLive'
    <2>1. \A y \in Ids \ {x} : nodes'[y] = Retract(nodes, x)[y]
      BY <1>1, <1>3, RetractKeeps DEF RemoveOrphan
    <2>2. \A y \in Ids : /\ Retract(nodes, x)[y].live = nodes[y].live
                         /\ Retract(nodes, x)[y].pruned = nodes[y].pruned
      BY <1>1, RetractKeeps DEF SameButConstraints
    <2>3. ready' = ready \ {x}
      BY <1>3 DEF RemoveOrphan
    <2> QED
      BY <1>1, <2>1, <2>2, <2>3 DEF ReadyLive
  <1>4. ASSUME NEW x \in Ids, ChangeSelection(x) PROVE ReadyLive'
    <2>1. PICK next \in Versions \cup {None}, pruned \in BOOLEAN :
            /\ nodes[x].live /\ nodes[x].generation < MaxRevisions
            /\ nodes' = Revised(x, next, pruned)
            /\ ready' = Enqueued(x, pruned)
      BY <1>4 DEF ChangeSelection, Reselects
    <2>2. /\ nodes'[x].live /\ nodes'[x].pruned = pruned
          /\ \A y \in Ids \ {x} : nodes'[y] = Retract(nodes, x)[y]
      BY <1>1, <2>1, RevisedKeeps
    <2>3. \A y \in Ids : /\ Retract(nodes, x)[y].live = nodes[y].live
                         /\ Retract(nodes, x)[y].pruned = nodes[y].pruned
      BY <1>1, RetractKeeps DEF SameButConstraints
    <2>4. ready' \ {x} \subseteq ready /\ (pruned => x \notin ready')
      BY <2>1 DEF Enqueued
    <2>5. ASSUME NEW y \in ready', y # x PROVE nodes'[y].live /\ ~nodes'[y].pruned
      BY <1>1, <2>2, <2>3, <2>4, <2>5 DEF ReadyLive
    <2> QED
      BY <2>2, <2>4, <2>5 DEF ReadyLive
  <1>5. ASSUME NEW x \in Ids, ReuseMetadata(x) PROVE ReadyLive'
    <2>1. nodes[x].live /\ nodes[x].selected \in Versions
      BY <1>5 DEF ReuseMetadata, Dispatches, Eligible, TypeOK
    <2>2. Install(x, nodes[x].selected) /\ ready' = ready \ {x}
      BY <1>5 DEF ReuseMetadata
    <2> QED
      BY <1>1, <2>1, <2>2, InstallReady DEF ReadyLive
  <1>6. ASSUME NEW t \in tasks, JoinError(t) \/ JoinVersions(t) PROVE ReadyLive'
    <2>1. t.id \in Ids
      BY DEF TypeOK, Tasks
    <2>2. CASE JoinError(t)
      BY <1>1, <2>1, <2>2 DEF JoinError, Requeue, ReadyLive
    <2>3. CASE JoinVersions(t)
      <3>1. nodes' = nodes
            \/ nodes' = [nodes EXCEPT ![t.id].available = Listed(t)]
        BY <2>3 DEF JoinVersions, WithVersions
      <3>2. \A y \in Ids : nodes'[y].live = nodes[y].live
                           /\ nodes'[y].pruned = nodes[y].pruned
        BY <1>1, <3>1 DEF Nodes
      <3> QED
        BY <1>1, <2>3, <3>2 DEF JoinVersions, ReadyLive
    <2> QED
      BY <1>6, <2>2, <2>3
  <1>7. ASSUME NEW t \in tasks, JoinRequirements(t) PROVE ReadyLive'
    <2>1. PICK package \in BOOLEAN :
            /\ [kind |-> "requirements", package |-> package] \in Results(t)
            /\ \/ nodes' = nodes /\ Requeue(t)
               \/ ~Stale(t) /\ Install(t.id, t.version) /\ ready' = ready
      BY <1>7 DEF JoinRequirements
    <2>2. t.id \in Ids /\ t.version \in Versions
      BY <2>1, RequirementsVersion
    <2>3. CASE nodes' = nodes /\ Requeue(t)
      BY <1>1, <2>2, <2>3 DEF Requeue, ReadyLive
    <2>4. CASE ~Stale(t) /\ Install(t.id, t.version) /\ ready' = ready
      BY <1>1, <2>2, <2>4, InstallReady DEF Stale, ReadyLive
    <2> QED
      BY <2>1, <2>3, <2>4
  <1>8. ASSUME NEW x \in Ids,
               \/ KeepSelection(x) \/ FailSelection(x)
               \/ Spawn(x) \/ RejectSource(x) \/ Acquire(x)
        PROVE  nodes' = nodes /\ ready' \subseteq ready
    BY <1>8 DEF KeepSelection, FailSelection, Spawn, RejectSource, Acquire
  <1>9. ASSUME Stabilized \/ BeginAcquisition \/ Return \/ Cancel
        PROVE  nodes' = nodes /\ ready' \subseteq ready
    BY <1>9 DEF Stabilized, BeginAcquisition, Return, Cancel
  <1> QED
    BY <1>2, <1>3, <1>4, <1>5, <1>6, <1>7, <1>8, <1>9 DEF Next

\* A joined task leaves both books; a spawned one enters both.
LEMMA LeaveBooks ==
    ASSUME TaskBooks, NEW t \in tasks, Leave(t)
    PROVE  TaskBooks'
  <1>1. tasks' = tasks \ {t} /\ inFlight' = inFlight \ {t.id}
    BY DEF Leave
  <1>2. inFlight' = {u.id : u \in tasks'}
    BY <1>1 DEF TaskBooks
  <1>3. IsFiniteSet(tasks') /\ Cardinality(tasks') <= Cardinality(tasks)
    BY <1>1, FS_Subset DEF TaskBooks
  <1>4. Cardinality(tasks') \in Nat /\ Cardinality(tasks) \in Nat
    BY <1>3, FS_CardinalityType DEF TaskBooks
  <1>5. Cardinality(tasks') <= MaxWorkers
    BY <1>3, <1>4, BoundsAssumption DEF TaskBooks
  <1> QED
    BY <1>1, <1>2, <1>3, <1>5 DEF TaskBooks

LEMMA EmptyBooks == ASSUME tasks' = {}, inFlight' = {} PROVE TaskBooks'
  BY FS_EmptySet, BoundsAssumption DEF TaskBooks

LEMMA SpawnBooks ==
    ASSUME TypeOK, TaskBooks, NEW x \in Ids, Spawn(x)
    PROVE  TaskBooks'
  <1> DEFINE t == [id |-> x, generation |-> nodes[x].generation,
                   version |-> nodes[x].selected]
  <1>1. /\ tasks' = tasks \cup {t} /\ inFlight' = inFlight \cup {x}
        /\ x \notin inFlight /\ Cardinality(tasks) < MaxWorkers
    BY DEF Spawn, Dispatches, Eligible
  <1>2. t.id = x
    OBVIOUS
  <1> HIDE DEF t
  <1>3. \A u \in tasks : u.id # x
    BY <1>1 DEF TaskBooks
  <1>4. inFlight' = {u.id : u \in tasks'}
    BY <1>1, <1>2 DEF TaskBooks
  <1>5. \A r, s \in tasks' : r.id = s.id => r = s
    BY <1>1, <1>2, <1>3 DEF TaskBooks
  <1>6. /\ IsFiniteSet(tasks')
        /\ Cardinality(tasks') \in {Cardinality(tasks), Cardinality(tasks) + 1}
    BY <1>1, FS_AddElement DEF TaskBooks
  <1>7. Cardinality(tasks') <= MaxWorkers
    BY <1>1, <1>6, FS_CardinalityType, BoundsAssumption DEF TaskBooks
  <1> QED
    BY <1>4, <1>5, <1>6, <1>7 DEF TaskBooks

LEMMA TasksStep == TypeOK /\ TaskBooks /\ Next => TaskBooks'
  <1> SUFFICES ASSUME TypeOK, TaskBooks, Next PROVE TaskBooks'
    OBVIOUS
  <1>1. CASE UNCHANGED <<tasks, inFlight>>
    BY <1>1 DEF TaskBooks
  <1>2. CASE tasks' = {} /\ inFlight' = {}
    BY <1>2, EmptyBooks
  <1>3. ASSUME NEW x \in Ids, NEW v, Install(x, v)
        PROVE  <<x, v>> \in world.duplicated => tasks' = {} /\ inFlight' = {}
    BY <1>3 DEF Install, Fail
  <1>4. ASSUME NEW x \in Ids, ReuseMetadata(x) PROVE TaskBooks'
    BY <1>1, <1>2, <1>3, <1>4 DEF ReuseMetadata
  <1>5. ASSUME NEW x \in Ids, Spawn(x) PROVE TaskBooks'
    BY <1>5, SpawnBooks
  <1>6. ASSUME NEW t \in tasks, JoinError(t) \/ JoinVersions(t) PROVE TaskBooks'
    BY <1>2, <1>6, LeaveBooks DEF JoinError, JoinVersions, Fail
  <1>7. ASSUME NEW t \in tasks, JoinRequirements(t) PROVE TaskBooks'
    <2>1. t.id \in Ids
      BY DEF TypeOK, Tasks
    <2>2. \/ Leave(t)
          \/ Install(t.id, t.version) /\ <<t.id, t.version>> \in world.duplicated
      BY <1>7 DEF JoinRequirements
    <2> QED
      BY <1>2, <1>3, <2>1, <2>2, LeaveBooks
  <1>8. ASSUME NEW x \in Ids,
               \/ RemoveOrphan(x) \/ KeepSelection(x)
               \/ ChangeSelection(x) \/ FailSelection(x) \/ RejectSource(x) \/ Acquire(x)
        PROVE  UNCHANGED <<tasks, inFlight>> \/ (tasks' = {} /\ inFlight' = {})
    BY <1>8 DEF RemoveOrphan, KeepSelection, ChangeSelection,
                FailSelection, RejectSource, Acquire, Fail
  <1>9. ASSUME Stabilized \/ BeginAcquisition \/ Return \/ Cancel
        PROVE  UNCHANGED <<tasks, inFlight>> \/ (tasks' = {} /\ inFlight' = {})
    BY <1>9 DEF Stabilized, BeginAcquisition, Return, Cancel, Fail
  <1> QED
    BY <1>1, <1>2, <1>4, <1>5, <1>6, <1>7, <1>8, <1>9 DEF Next

\* For every worker bound: the scheduler never exceeds it, never has two tasks
\* for one identity, and never keeps a node in ready that no dispatch can take.
THEOREM SchedulerSafe == Spec => []SchedulerSound
  <1>1. Init => ReadyLive /\ TaskBooks
    <2>1. Init => tasks = {} /\ inFlight = {} /\ ready = {}
      BY DEF Init
    <2> QED
      BY <2>1, FS_EmptySet, BoundsAssumption DEF ReadyLive, TaskBooks
  <1>2. TypeOK /\ ReadyLive /\ TaskBooks /\ [Next]_vars => ReadyLive' /\ TaskBooks'
    <2>1. UNCHANGED vars => UNCHANGED <<nodes, ready, tasks, inFlight>>
      BY DEF vars
    <2>2. ReadyLive /\ TaskBooks /\ UNCHANGED <<nodes, ready, tasks, inFlight>>
             => ReadyLive' /\ TaskBooks'
      BY DEF ReadyLive, TaskBooks
    <2> QED
      BY <2>1, <2>2, ReadyStep, TasksStep
  <1> QED
    BY <1>1, <1>2, TypeCorrect, SchedulerHalves, PTL DEF Spec

-------------------------------------------------------------------------------
\* Installing a manifest keeps every other edge backed and backs the new ones.
LEMMA InstallEdges ==
    ASSUME TypeOK, EdgesBacked, NEW x \in Ids, NEW v \in Versions, nodes[x].live,
           Install(x, v)
    PROVE  EdgesBacked'
  <1>1. NodesOK /\ world.deps[x][v] \in Edges
    BY TypeHalves, WorldEdges
  <1>2. CASE nodes' = nodes
    BY <1>2 DEF EdgesBacked
  <1>3. CASE nodes' = Installed(nodes, x, world.deps[x][v])
    <2> SUFFICES ASSUME NEW a \in Ids, NEW b \in Ids, nodes'[a].deps[b] # NoRange
                 PROVE  nodes'[b].live /\ nodes'[b].constraints[a] = nodes'[a].deps[b]
      BY DEF EdgesBacked
    <2> DEFINE new == world.deps[x][v]
    <2>1. \A y \in Ids :
             /\ nodes[y].live => nodes'[y].live
             /\ nodes'[y].deps = (IF y = x THEN new ELSE nodes[y].deps)
             /\ \A u \in Ids \ {x} : nodes[y].live =>
                   nodes'[y].constraints[u] = nodes[y].constraints[u]
             /\ new[y] # NoRange => nodes'[y].live /\ nodes'[y].constraints[x] = new[y]
      BY <1>1, <1>3, InstalledKeeps DEF NodesOK
    <2> HIDE DEF new
    <2>2. CASE a = x
      BY <2>1, <2>2
    <2>3. CASE a # x
      BY <2>1, <2>3 DEF EdgesBacked
    <2> QED
      BY <2>2, <2>3
  <1> QED
    BY <1>2, <1>3 DEF Install

LEMMA EdgesStep == TypeOK /\ EdgesBacked /\ Next => EdgesBacked'
  <1> SUFFICES ASSUME TypeOK, EdgesBacked, Next PROVE EdgesBacked'
    OBVIOUS
  <1>1. nodes \in [Ids -> Nodes] /\ \A y \in Ids : NoEdges[y] = NoRange
    BY DEF TypeOK, NoEdges
  <1>2. CASE nodes' = nodes
    BY <1>2 DEF EdgesBacked
  <1>3. ASSUME NEW x \in Ids,
               \A y \in Ids : nodes'[y].deps = IF y = x THEN NoEdges ELSE nodes[y].deps,
               \A y \in Ids : \A u \in Ids \ {x} : nodes[u].deps[y] # NoRange =>
                  /\ nodes'[y].live
                  /\ nodes'[y].constraints[u] = nodes[y].constraints[u]
        PROVE  EdgesBacked'
    BY <1>1, <1>3 DEF EdgesBacked
  <1>4. ASSUME NEW x \in Ids
        PROVE  \A y \in Ids : /\ Retract(nodes, x)[y].live = nodes[y].live
                              /\ Retract(nodes, x)[y].deps = nodes[y].deps
                              /\ \A u \in Ids \ {x} : Retract(nodes, x)[y].constraints[u]
                                                         = nodes[y].constraints[u]
    BY <1>1, RetractKeeps DEF SameButConstraints
  <1>5. ASSUME NEW x \in Ids, RemoveOrphan(x) PROVE EdgesBacked'
    <2>1. \A u \in Ids : nodes[u].deps[x] = NoRange
      BY <1>5 DEF RemoveOrphan, IsOrphan, Parents, Targets, EdgesBacked
    <2>2. nodes'[x] = Absent /\ \A y \in Ids \ {x} : nodes'[y] = Retract(nodes, x)[y]
      BY <1>1, <1>5, RetractKeeps DEF RemoveOrphan
    <2>3. \A y \in Ids : nodes'[y].deps = IF y = x THEN NoEdges ELSE nodes[y].deps
      BY <1>4, <2>2, AbsentType
    <2>4. ASSUME NEW y \in Ids, NEW u \in Ids \ {x}, nodes[u].deps[y] # NoRange
          PROVE  nodes'[y].live /\ nodes'[y].constraints[u] = nodes[y].constraints[u]
      <3>1. y # x /\ nodes[y].live
        BY <2>1, <2>4 DEF EdgesBacked
      <3> QED
        BY <1>4, <2>2, <3>1
    <2> QED
      BY <1>3, <2>3, <2>4
  <1>6. ASSUME NEW x \in Ids, ChangeSelection(x) PROVE EdgesBacked'
    <2>1. PICK next \in Versions \cup {None}, pruned \in BOOLEAN :
            /\ nodes[x].live /\ nodes[x].generation < MaxRevisions
            /\ nodes' = Revised(x, next, pruned)
      BY <1>6 DEF ChangeSelection, Reselects
    <2>2. /\ nodes'[x].live /\ nodes'[x].deps = NoEdges
          /\ \A u \in Ids \ {x} : nodes'[x].constraints[u] = nodes[x].constraints[u]
          /\ \A y \in Ids \ {x} : nodes'[y] = Retract(nodes, x)[y]
      BY <1>1, <2>1, RevisedKeeps
    <2>3. \A y \in Ids : nodes'[y].deps = IF y = x THEN NoEdges ELSE nodes[y].deps
      BY <1>4, <2>2
    <2>4. ASSUME NEW y \in Ids, NEW u \in Ids \ {x}, nodes[u].deps[y] # NoRange
          PROVE  nodes'[y].live /\ nodes'[y].constraints[u] = nodes[y].constraints[u]
      <3>1. nodes[y].live
        BY <2>4 DEF EdgesBacked
      <3> QED
        BY <1>4, <2>2, <3>1
    <2> QED
      BY <1>3, <2>3, <2>4
  <1>7. ASSUME NEW x \in Ids, ReuseMetadata(x) PROVE EdgesBacked'
    <2>1. nodes[x].live /\ nodes[x].selected \in Versions
      BY <1>7 DEF ReuseMetadata, Dispatches, Eligible, TypeOK
    <2> QED
      BY <1>7, <2>1, InstallEdges DEF ReuseMetadata
  <1>8. ASSUME NEW t \in tasks, JoinVersions(t) PROVE EdgesBacked'
    <2>1. \/ nodes' = nodes
          \/ nodes' = [nodes EXCEPT ![t.id].available = Listed(t)]
      BY <1>8 DEF JoinVersions, WithVersions
    <2>2. \A y \in Ids : /\ nodes'[y].live = nodes[y].live
                         /\ nodes'[y].deps = nodes[y].deps
                         /\ nodes'[y].constraints = nodes[y].constraints
      BY <1>1, <2>1 DEF Nodes
    <2> QED
      BY <2>2 DEF EdgesBacked
  <1>9. ASSUME NEW t \in tasks, JoinRequirements(t) PROVE EdgesBacked'
    <2>1. PICK package \in BOOLEAN :
            /\ [kind |-> "requirements", package |-> package] \in Results(t)
            /\ \/ nodes' = nodes
               \/ ~Stale(t) /\ Install(t.id, t.version)
      BY <1>9 DEF JoinRequirements
    <2>2. t.id \in Ids /\ t.version \in Versions
      BY <2>1, RequirementsVersion
    <2> QED
      BY <1>2, <2>1, <2>2, InstallEdges DEF Stale
  <1>10. ASSUME NEW x \in Ids,
                \/ KeepSelection(x) \/ FailSelection(x)
                \/ Spawn(x) \/ RejectSource(x) \/ Acquire(x)
         PROVE  nodes' = nodes
    BY <1>10 DEF KeepSelection, FailSelection, Spawn, RejectSource, Acquire
  <1>11. ASSUME NEW t \in tasks, JoinError(t) PROVE nodes' = nodes
    BY <1>11 DEF JoinError
  <1>12. ASSUME Stabilized \/ BeginAcquisition \/ Return \/ Cancel
         PROVE  nodes' = nodes
    BY <1>12 DEF Stabilized, BeginAcquisition, Return, Cancel
  <1> QED
    BY <1>2, <1>5, <1>6, <1>7, <1>8, <1>9, <1>10, <1>11, <1>12 DEF Next

\* For every graph: no dependency edge ever dangles or disagrees with the
\* constraint recorded at its target, whatever was revised, removed or late.
THEOREM EdgesSafe == Spec => []EdgesBacked
  <1>1. Init => EdgesBacked
    <2> SUFFICES ASSUME Init PROVE EdgesBacked
      OBVIOUS
    <2>1. \A x \in Ids : nodes[x].deps = NoEdges
      BY AbsentType DEF Init
    <2> QED
      BY <2>1 DEF EdgesBacked, NoEdges
  <1>2. TypeOK /\ EdgesBacked /\ [Next]_vars => EdgesBacked'
    <2>1. EdgesBacked /\ UNCHANGED vars => EdgesBacked'
      BY DEF EdgesBacked, vars
    <2> QED
      BY <2>1, EdgesStep
  <1> QED
    BY <1>1, <1>2, TypeCorrect, PTL DEF Spec

-------------------------------------------------------------------------------
\* Whoever is revisited is in the graph: it is a child of a node of the graph.
DirtyLive == \A x \in dirty : nodes[x].live

LEMMA DescendantsAreChildren ==
    ASSUME NEW S, NEW y \in Descendants(nodes, S)
    PROVE  y \in Ids /\ \E z \in Ids : nodes[z].live /\ nodes[z].deps[y] # NoRange
  BY DEF Descendants, Children, Targets

LEMMA InstallDirtyLive ==
    ASSUME TypeOK, EdgesBacked, DirtyLive, NEW x \in Ids, NEW v \in Versions,
           nodes[x].live, Install(x, v)
    PROVE  DirtyLive'
  <1> DEFINE new == world.deps[x][v]
  <1>1. NodesOK /\ new \in Edges
    BY TypeHalves, WorldEdges
  <1>2. CASE UNCHANGED <<nodes, dirty>>
    BY <1>2 DEF DirtyLive
  <1>3. CASE /\ nodes' = Installed(nodes, x, new)
             /\ dirty' = dirty \cup InstallDirties(nodes, x, new)
    <2>1. \A y \in Ids : /\ nodes[y].live => nodes'[y].live
                         /\ new[y] # NoRange => nodes'[y].live
      BY <1>1, <1>3, InstalledKeeps DEF NodesOK
    <2>2. dirty \subseteq Ids
      BY DEF TypeOK
    <2> HIDE DEF new
    <2>3. ASSUME NEW y \in InstallDirties(nodes, x, new) PROVE nodes'[y].live
      <3>1. CASE y \in Targets(new)
        BY <2>1, <3>1 DEF Targets
      <3>2. CASE y \notin Targets(new)
        <4>1. PICK S : y \in Descendants(nodes, S)
          BY <2>3, <3>2 DEF InstallDirties
        <4>2. y \in Ids /\ nodes[y].live
          BY <4>1, DescendantsAreChildren DEF EdgesBacked
        <4> QED
          BY <2>1, <4>2
      <3> QED
        BY <3>1, <3>2
    <2> QED
      BY <1>3, <2>1, <2>2, <2>3 DEF DirtyLive
  <1> QED
    BY <1>2, <1>3 DEF Install

LEMMA DirtyStep == TypeOK /\ EdgesBacked /\ DirtyLive /\ Next => DirtyLive'
  <1> SUFFICES ASSUME TypeOK, EdgesBacked, DirtyLive, Next PROVE DirtyLive'
    OBVIOUS
  <1>1. nodes \in [Ids -> Nodes] /\ dirty \subseteq Ids
    BY DEF TypeOK
  <1>2. CASE nodes' = nodes /\ dirty' \subseteq dirty
    BY <1>2 DEF DirtyLive
  <1>3. ASSUME NEW S, NEW y \in Descendants(nodes, S)
        PROVE  /\ y \in Ids /\ nodes[y].live
               /\ \E z \in Ids : nodes[y].constraints[z] # NoRange
    BY <1>3, DescendantsAreChildren DEF EdgesBacked
  <1>4. ASSUME NEW x \in Ids
        PROVE  \A y \in Ids : Retract(nodes, x)[y].live = nodes[y].live
    BY <1>1, RetractKeeps DEF SameButConstraints
  <1>5. ASSUME NEW x \in Ids, RemoveOrphan(x) PROVE DirtyLive'
    <2>1. \A z \in Ids : nodes[x].constraints[z] = NoRange
      BY <1>5 DEF RemoveOrphan, IsOrphan, Parents, Targets
    <2>2. \A y \in Ids \ {x} : nodes'[y].live = nodes[y].live
      BY <1>1, <1>4, <1>5, RetractKeeps DEF RemoveOrphan
    <2>3. dirty' = (dirty \ {x}) \cup Descendants(nodes, Children(nodes, x))
                                 \cup (Retracted(nodes, x) \ {x})
      BY <1>5 DEF RemoveOrphan
    <2>4. ASSUME NEW y \in dirty' PROVE y \in Ids \ {x} /\ nodes[y].live
      <3>1. CASE y \in Descendants(nodes, Children(nodes, x))
        BY <1>3, <2>1, <3>1
      <3>2. CASE y \in dirty \ {x}
        BY <1>1, <3>2 DEF DirtyLive
      <3>3. CASE y \in Retracted(nodes, x) \ {x}
        BY <3>3 DEF Retracted, Targets
      <3> QED
        BY <2>3, <2>4, <3>1, <3>2, <3>3
    <2> QED
      BY <2>2, <2>4 DEF DirtyLive
  <1>6. ASSUME NEW x \in Ids, ChangeSelection(x) PROVE DirtyLive'
    <2>1. PICK next \in Versions \cup {None}, pruned \in BOOLEAN :
            /\ nodes[x].live /\ nodes[x].generation < MaxRevisions
            /\ nodes' = Revised(x, next, pruned)
      BY <1>6 DEF ChangeSelection, Reselects
    <2>2. nodes'[x].live /\ \A y \in Ids \ {x} : nodes'[y] = Retract(nodes, x)[y]
      BY <1>1, <2>1, RevisedKeeps
    <2>3. \A y \in Ids : nodes[y].live => nodes'[y].live
      BY <1>4, <2>2
    <2>4. dirty' = (dirty \ {x}) \cup Descendants(nodes, Children(nodes, x))
                                 \cup Retracted(nodes, x)
      BY <1>6 DEF ChangeSelection
    <2>5. ASSUME NEW y \in dirty' PROVE y \in Ids /\ nodes[y].live
      <3>1. CASE y \in Descendants(nodes, Children(nodes, x))
        BY <1>3, <3>1
      <3>2. CASE y \in dirty
        BY <1>1, <3>2 DEF DirtyLive
      <3>3. CASE y \in Retracted(nodes, x)
        BY <3>3 DEF Retracted, Targets
      <3> QED
        BY <2>4, <2>5, <3>1, <3>2, <3>3
    <2> QED
      BY <2>3, <2>5 DEF DirtyLive
  <1>7. ASSUME NEW x \in Ids, ReuseMetadata(x) PROVE DirtyLive'
    <2>1. nodes[x].live /\ nodes[x].selected \in Versions
      BY <1>7 DEF ReuseMetadata, Dispatches, Eligible, TypeOK
    <2> QED
      BY <1>7, <2>1, InstallDirtyLive DEF ReuseMetadata
  <1>8. ASSUME NEW t \in tasks, JoinVersions(t) PROVE DirtyLive'
    <2>1. t.id \in Ids
      BY DEF TypeOK, Tasks
    <2>2. \/ nodes' = nodes
          \/ nodes' = [nodes EXCEPT ![t.id].available = Listed(t)]
      BY <1>8 DEF JoinVersions, WithVersions
    <2>3. \A y \in Ids : nodes'[y].live = nodes[y].live
      BY <1>1, <2>2 DEF Nodes
    <2>4. dirty' = IF nodes[t.id].live THEN dirty \cup {t.id} ELSE dirty
      BY <1>8 DEF JoinVersions
    <2> QED
      BY <1>1, <2>1, <2>3, <2>4 DEF DirtyLive
  <1>9. ASSUME NEW t \in tasks, JoinRequirements(t) PROVE DirtyLive'
    <2>1. PICK package \in BOOLEAN :
            /\ [kind |-> "requirements", package |-> package] \in Results(t)
            /\ \/ UNCHANGED <<nodes, dirty>>
               \/ ~Stale(t) /\ Install(t.id, t.version)
      BY <1>9 DEF JoinRequirements
    <2>2. t.id \in Ids /\ t.version \in Versions
      BY <2>1, RequirementsVersion
    <2> QED
      BY <1>2, <2>1, <2>2, InstallDirtyLive DEF Stale
  <1>10. ASSUME NEW x \in Ids,
                \/ KeepSelection(x) \/ FailSelection(x)
                \/ Spawn(x) \/ RejectSource(x) \/ Acquire(x)
         PROVE  nodes' = nodes /\ dirty' \subseteq dirty
    BY <1>10 DEF KeepSelection, FailSelection, Spawn, RejectSource, Acquire
  <1>11. ASSUME NEW t \in tasks, JoinError(t) PROVE UNCHANGED <<nodes, dirty>>
    BY <1>11 DEF JoinError
  <1>12. ASSUME Stabilized \/ BeginAcquisition \/ Return \/ Cancel
         PROVE  UNCHANGED <<nodes, dirty>>
    BY <1>12 DEF Stabilized, BeginAcquisition, Return, Cancel
  <1> QED
    BY <1>2, <1>5, <1>6, <1>7, <1>8, <1>9, <1>10, <1>11, <1>12 DEF Next

\* For every graph: an identity taken from the dirty set is always in the map, so
\* the early return of stabilize_constraint_nodes for a missing one is dead code
\* and no removal leaves work behind for a node that is gone.
THEOREM NothingMissing == Spec => []DirtyLive
  <1>1. Init => DirtyLive
    BY DEF Init, DirtyLive, Fresh, Absent
  <1>2. TypeOK /\ EdgesBacked /\ DirtyLive /\ [Next]_vars => DirtyLive'
    <2>1. DirtyLive /\ UNCHANGED vars => DirtyLive'
      BY DEF DirtyLive, vars
    <2> QED
      BY <2>1, DirtyStep
  <1> QED
    BY <1>1, <1>2, TypeCorrect, EdgesSafe, PTL DEF Spec

-------------------------------------------------------------------------------
\* A nonempty finite set of numbers has a least one.
LEMMA LeastNumber ==
    ASSUME NEW S, S \subseteq Nat, IsFiniteSet(S), S # {}
    PROVE  \E x \in S : \A y \in S : x <= y
  <1> DEFINE below(x) == {y \in S : y <= x}
             B == {below(x) : x \in S}
             R == StrictSubsetOrdering(S)
  <1>1. B \subseteq FiniteSubsetsOf(S) /\ B # {}
    <2>1. ASSUME NEW x \in S PROVE below(x) \in FiniteSubsetsOf(S)
      <3>1. below(x) \in SUBSET S
        OBVIOUS
      <3> QED
        BY <3>1, FS_Subset DEF FiniteSubsetsOf
    <2> QED
      BY <2>1
  <1>2. PICK b \in B : \A c \in B : <<c, b>> \notin R
    BY <1>1, FS_StrictSubsetOrderingWellFounded, WFMin
  <1>3. PICK x \in S : b = below(x)
    OBVIOUS
  <1>4. ASSUME NEW y \in S, y < x PROVE FALSE
    <2>1. x \in Nat /\ y \in Nat
      OBVIOUS
    <2>2. ASSUME NEW z \in S, z <= y PROVE z <= x
      <3>1. z \in Nat
        OBVIOUS
      <3> QED
        BY <1>4, <2>1, <2>2, <3>1
    <2>3. x \in below(x) /\ x \notin below(y)
      BY <1>4, <2>1
    <2>4. below(y) \in B /\ below(y) \in SUBSET S /\ b \in SUBSET S
      BY <1>3
    <2>5. <<below(y), b>> \in R
      BY <1>3, <2>2, <2>3, <2>4 DEF StrictSubsetOrdering
    <2> QED
      BY <1>2, <2>4, <2>5
  <1> QED
    BY <1>3, <1>4

\* A nonempty set of identities has a least one: BTreeSet iteration always
\* yields a first element.
LEMMA LeastIdentity ==
    ASSUME NEW S \in SUBSET Ids, S # {}
    PROVE  \E x \in S : \A y \in S : x <= y
  <1>1. S \subseteq Nat /\ IsFiniteSet(S)
    BY IdsAssumption, FS_Subset
  <1> QED
    BY <1>1, LeastNumber

\* The outer loop of resolve_streaming_graph continues without awaiting when no
\* task is out.  It then always finds something to dispatch: it never spins.
NoSpin == pc = "schedule" /\ tasks = {} /\ ready # {} => CanDispatch

THEOREM NeverSpins == Spec => []NoSpin
  <1>1. TypeOK /\ SchedulerSound => NoSpin
    <2> SUFFICES ASSUME TypeOK, SchedulerSound, pc = "schedule", tasks = {}, ready # {}
                 PROVE  CanDispatch
      BY DEF NoSpin
    <2> DEFINE S == {x \in Ids : Eligible(x)}
    <2>1. inFlight = {} /\ Cardinality(tasks) = 0
      BY FS_EmptySet DEF SchedulerSound
    <2>2. S # {}
      BY <2>1 DEF SchedulerSound, TypeOK, Eligible
    <2>3. PICK x \in S : \A y \in S : x <= y
      BY <2>2, LeastIdentity
    <2>4. 0 < MaxWorkers
      BY BoundsAssumption
    <2> QED
      BY <2>1, <2>3, <2>4 DEF CanDispatch, Dispatches
  <1> QED
    BY <1>1, TypeCorrect, SchedulerSafe, PTL

(***************************************************************************)
(* What PackageGraph returns.                                              *)
(*                                                                         *)
(* The argument: the selection of a package is a function of the edges at  *)
(* and above its parents (DominatedSame, SelectionSame), so a package that *)
(* an edit of the map leaves clean still selects what it carries           *)
(* (SelectionsStayCurrent); what has no manifest yet is waiting for it     *)
(* (WorkInvariant); hence a returned graph is a resolution of its inputs   *)
(* (ResolutionsReturned).                                                  *)
(***************************************************************************)

(***************************************************************************)
(* Closures                                                                *)
(***************************************************************************)

\* A set of numbers that holds 0 and every successor is the whole interval.
LEMMA Induction ==
    ASSUME NEW N \in Nat, NEW T \in SUBSET (0..N), 0 \in T,
           \A n \in T : n + 1 \in 0..N => n + 1 \in T
    PROVE  T = 0..N
  <1> SUFFICES ASSUME (0..N) \ T # {} PROVE FALSE
    OBVIOUS
  <1> DEFINE rest == (0..N) \ T
  <1>1. IsFiniteSet(rest) /\ rest \subseteq Nat
    <2>1. IsFiniteSet(0..N) /\ rest \in SUBSET (0..N)
      BY FS_Interval
    <2> QED
      BY <2>1, FS_Subset
  <1>2. PICK m \in rest : \A n \in rest : m <= n
    <2> HIDE DEF rest
    <2> QED
      BY <1>1, LeastNumber DEF rest
  <1>3. m # 0 /\ m - 1 \in 0..N /\ ~(m <= m - 1) /\ (m - 1) + 1 = m
    OBVIOUS
  <1> QED
    BY <1>2, <1>3

Grown(succ, S) == S \cup UNION {succ[x] : x \in S}

IsGrowth(g, N, succ, start) ==
    g = [n \in 0..N |-> IF n = 0 THEN start ELSE Grown(succ, g[n - 1])]

\* The iterates of Closure exist as a function.
LEMMA GrowthExists ==
    ASSUME NEW N \in Nat, NEW succ, NEW start
    PROVE  \E g : IsGrowth(g, N, succ, start)
  <1> DEFINE T == {n \in 0..N : \E g : IsGrowth(g, n, succ, start)}
  <1>1. 0 \in T
    <2> DEFINE g == [n \in 0..0 |-> start]
    <2>1. IsGrowth(g, 0, succ, start)
      BY DEF IsGrowth
    <2> HIDE DEF g
    <2> QED
      BY <2>1
  <1>2. ASSUME NEW n \in T, n + 1 \in 0..N
        PROVE  n + 1 \in T
    <2>1. PICK g : IsGrowth(g, n, succ, start)
      OBVIOUS
    <2> DEFINE h == [m \in 0..(n + 1) |-> IF m = n + 1 THEN Grown(succ, g[n]) ELSE g[m]]
    <2>2. \A m \in 0..(n + 1) : h[m] = IF m = 0 THEN start ELSE Grown(succ, h[m - 1])
      <3> SUFFICES ASSUME NEW m \in 0..(n + 1)
                   PROVE  h[m] = IF m = 0 THEN start ELSE Grown(succ, h[m - 1])
        OBVIOUS
      <3>1. CASE m = n + 1
        <4>1. m - 1 = n /\ n # n + 1 /\ n \in 0..(n + 1) /\ m # 0
          BY <3>1
        <4>2. h[m - 1] = g[n]
          BY <4>1
        <4> QED
          BY <3>1, <4>1, <4>2
      <3>2. CASE m # n + 1
        <4>1. m \in 0..n /\ h[m] = g[m]
          BY <3>2
        <4>2. g[m] = IF m = 0 THEN start ELSE Grown(succ, g[m - 1])
          BY <2>1, <4>1 DEF IsGrowth
        <4>3. m # 0 => h[m - 1] = g[m - 1]
          BY <4>1
        <4> QED
          BY <4>1, <4>2, <4>3
      <3> QED
        BY <3>1, <3>2
    <2>3. h = [m \in 0..(n + 1) |-> h[m]]
      OBVIOUS
    <2> HIDE DEF h
    <2>4. IsGrowth(h, n + 1, succ, start)
      BY <2>2, <2>3 DEF IsGrowth
    <2> QED
      BY <1>2, <2>4
  <1> HIDE DEF T
  <1>3. T = 0..N
    <2>1. T \in SUBSET (0..N)
      BY DEF T
    <2> QED
      BY <1>1, <1>2, <2>1, Induction
  <1>4. N \in T
    BY <1>3
  <1> QED
    BY <1>4 DEF T

\* A closure is the last of its iterates.
LEMMA ClosureIsGrowth ==
    ASSUME NEW succ, NEW start
    PROVE  \E g : /\ IsGrowth(g, Cardinality(Ids), succ, start)
                  /\ Closure(succ, start) = g[Cardinality(Ids)]
  <1> DEFINE N == Cardinality(Ids)
             grow == CHOOSE g : g = [n \in 0..N |->
                                       IF n = 0 THEN start
                                       ELSE g[n - 1] \cup UNION {succ[x] : x \in g[n - 1]}]
  <1>1. N \in Nat
    BY IdsAssumption, FS_CardinalityType
  <1>2. Closure(succ, start) = grow[N]
    BY DEF Closure
  <1>3. \E g : g = [n \in 0..N |-> IF n = 0 THEN start
                                   ELSE g[n - 1] \cup UNION {succ[x] : x \in g[n - 1]}]
    <2>1. PICK g : IsGrowth(g, N, succ, start)
      BY <1>1, GrowthExists
    <2> QED
      BY <2>1 DEF IsGrowth, Grown
  <1>4. grow = [n \in 0..N |-> IF n = 0 THEN start
                               ELSE grow[n - 1] \cup UNION {succ[x] : x \in grow[n - 1]}]
    BY <1>3
  <1> HIDE DEF grow
  <1>5. IsGrowth(grow, N, succ, start)
    BY <1>4 DEF IsGrowth, Grown
  <1> QED
    BY <1>2, <1>5

IsClosed(succ, S) == \A x \in S : succ[x] \subseteq S

\* A closure is the least set that holds the start and is closed.
LEMMA ClosureFacts ==
    ASSUME NEW succ \in [Ids -> SUBSET Ids], NEW start \in SUBSET Ids
    PROVE  /\ Closure(succ, start) \in SUBSET Ids
           /\ start \subseteq Closure(succ, start)
           /\ IsClosed(succ, Closure(succ, start))
           /\ \A S : start \subseteq S /\ IsClosed(succ, S) => Closure(succ, start) \subseteq S
  <1> DEFINE N == Cardinality(Ids)
  <1>1. N \in Nat /\ IsFiniteSet(Ids)
    BY IdsAssumption, FS_CardinalityType
  <1>2. PICK g : IsGrowth(g, N, succ, start) /\ Closure(succ, start) = g[N]
    BY ClosureIsGrowth
  <1> HIDE DEF N
  <1>3. g[0] = start /\ \A n \in 0..N : n + 1 \in 0..N => g[n + 1] = Grown(succ, g[n])
    <2>1. g[0] = start
      BY <1>1, <1>2 DEF IsGrowth
    <2>2. ASSUME NEW n \in 0..N, n + 1 \in 0..N
          PROVE  g[n + 1] = Grown(succ, g[n])
      <3>1. n + 1 # 0 /\ (n + 1) - 1 = n
        OBVIOUS
      <3> QED
        BY <1>2, <2>2, <3>1 DEF IsGrowth
    <2> QED
      BY <2>1, <2>2
  <1>4. \A n \in 0..N : g[n] \in SUBSET Ids /\ start \subseteq g[n]
    <2> DEFINE T == {n \in 0..N : g[n] \in SUBSET Ids /\ start \subseteq g[n]}
    <2>1. 0 \in T
      BY <1>1, <1>3
    <2>2. ASSUME NEW n \in T, n + 1 \in 0..N
          PROVE  n + 1 \in T
      <3>1. g[n + 1] = Grown(succ, g[n])
        BY <1>3, <2>2
      <3> QED
        BY <2>2, <3>1 DEF Grown
    <2> HIDE DEF T
    <2>3. T = 0..N
      <3>1. T \in SUBSET (0..N)
        BY DEF T
      <3> QED
        BY <1>1, <2>1, <2>2, <3>1, Induction
    <2> QED
      BY <2>3 DEF T
  <1>5. \A n \in 0..N : IsClosed(succ, g[n]) \/ Cardinality(g[n]) >= n + 1
    <2> DEFINE T == {n \in 0..N : IsClosed(succ, g[n]) \/ Cardinality(g[n]) >= n + 1}
    <2>1. 0 \in T
      <3>1. CASE start = {}
        BY <1>1, <1>3, <3>1 DEF IsClosed
      <3>2. CASE start # {}
        <4>1. IsFiniteSet(start)
          BY <1>1, FS_Subset
        <4>2. Cardinality(start) \in Nat /\ Cardinality(start) # 0
          BY <3>2, <4>1, FS_CardinalityType, FS_EmptySet
        <4> QED
          BY <1>1, <1>3, <4>2
      <3> QED
        BY <3>1, <3>2
    <2>2. ASSUME NEW n \in T, n + 1 \in 0..N
          PROVE  n + 1 \in T
      <3>1. g[n + 1] = Grown(succ, g[n]) /\ g[n] \in SUBSET Ids /\ g[n + 1] \in SUBSET Ids
        BY <1>3, <1>4, <2>2
      <3>2. CASE IsClosed(succ, g[n])
        <4>1. Grown(succ, g[n]) = g[n]
          BY <3>2 DEF IsClosed, Grown
        <4> QED
          BY <2>2, <3>1, <3>2, <4>1
      <3>3. CASE ~IsClosed(succ, g[n])
        <4>1. g[n] \in SUBSET g[n + 1] /\ g[n] # g[n + 1]
          BY <3>1, <3>3 DEF IsClosed, Grown
        <4>2. IsFiniteSet(g[n + 1]) /\ IsFiniteSet(g[n])
          BY <1>1, <3>1, FS_Subset
        <4>3. Cardinality(g[n]) < Cardinality(g[n + 1])
          <5>1. /\ Cardinality(g[n]) <= Cardinality(g[n + 1])
                /\ Cardinality(g[n]) = Cardinality(g[n + 1]) => g[n] = g[n + 1]
            BY <4>1, <4>2, FS_Subset
          <5>2. Cardinality(g[n]) \in Nat /\ Cardinality(g[n + 1]) \in Nat
            BY <4>2, FS_CardinalityType
          <5> QED
            BY <4>1, <5>1, <5>2
        <4>4. Cardinality(g[n]) >= n + 1
          BY <3>3
        <4>5. Cardinality(g[n]) \in Nat /\ Cardinality(g[n + 1]) \in Nat
          BY <4>2, FS_CardinalityType
        <4> QED
          BY <2>2, <4>3, <4>4, <4>5
      <3> QED
        BY <3>2, <3>3
    <2> HIDE DEF T
    <2>3. T = 0..N
      <3>1. T \in SUBSET (0..N)
        BY DEF T
      <3> QED
        BY <1>1, <2>1, <2>2, <3>1, Induction
    <2> QED
      BY <2>3 DEF T
  <1>6. IsClosed(succ, g[N])
    <2>1. g[N] \in SUBSET Ids
      BY <1>1, <1>4
    <2>2. Cardinality(g[N]) \in Nat /\ Cardinality(g[N]) <= N
      BY <1>1, <2>1, FS_Subset, FS_CardinalityType DEF N
    <2>3. ~(Cardinality(g[N]) >= N + 1)
      BY <1>1, <2>2
    <2> QED
      BY <1>1, <1>5, <2>3
  <1>7. ASSUME NEW S, start \subseteq S, IsClosed(succ, S)
        PROVE  g[N] \subseteq S
    <2> DEFINE T == {n \in 0..N : g[n] \subseteq S}
    <2>1. 0 \in T
      BY <1>1, <1>3, <1>7
    <2>2. ASSUME NEW n \in T, n + 1 \in 0..N
          PROVE  n + 1 \in T
      <3>1. g[n + 1] = Grown(succ, g[n])
        BY <1>3, <2>2
      <3> QED
        BY <1>7, <2>2, <3>1 DEF Grown, IsClosed
    <2> HIDE DEF T
    <2>3. T = 0..N
      <3>1. T \in SUBSET (0..N)
        BY DEF T
      <3> QED
        BY <1>1, <2>1, <2>2, <3>1, Induction
    <2> QED
      BY <1>1, <2>3 DEF T
  <1> QED
    BY <1>1, <1>2, <1>4, <1>6, <1>7

(***************************************************************************)
(* Edits of the node map, field by field                                   *)
(***************************************************************************)

\* Two slots agree on what a revision or an install sets.
SameSelection(m, n) ==
    /\ m.selected = n.selected /\ m.available = n.available
    /\ m.generation = n.generation /\ m.pruned = n.pruned

\* Retract takes one constraint from the children and leaves the rest alone.
LEMMA RetractFields ==
    ASSUME NEW ns \in [Ids -> Nodes], NEW x \in Ids, NEW y \in Ids
    PROVE  /\ SameSelection(Retract(ns, x)[y], ns[y])
           /\ Retract(ns, x)[y].live = ns[y].live
           /\ Retract(ns, x)[y].metadata = ns[y].metadata
           /\ Retract(ns, x)[y].deps = ns[y].deps
           /\ \A u \in Ids : Retract(ns, x)[y].constraints[u] =
                 IF u = x /\ y \in Retracted(ns, x) THEN NoRange ELSE ns[y].constraints[u]
  <1> DEFINE m == Retract(ns, x)[y]
  <1>1. ns[y] \in Nodes /\ ns[y].constraints \in Edges
    BY DEF Nodes
  <1>2. m = IF y \in Retracted(ns, x) THEN [ns[y] EXCEPT !.constraints[x] = NoRange] ELSE ns[y]
    BY DEF Retract, Retracted
  <1> HIDE DEF m
  <1>3. /\ SameSelection(m, ns[y])
        /\ m.live = ns[y].live /\ m.metadata = ns[y].metadata /\ m.deps = ns[y].deps
    BY <1>1, <1>2 DEF SameSelection, Nodes
  <1>4. \A u \in Ids : m.constraints[u] =
           IF u = x /\ y \in Retracted(ns, x) THEN NoRange ELSE ns[y].constraints[u]
    BY <1>1, <1>2 DEF Nodes, Edges
  <1> QED
    BY <1>3, <1>4 DEF m

\* Installed gives a node its edges and each child one constraint.
LEMMA InstalledFields ==
    ASSUME NEW ns \in [Ids -> Nodes], NEW x \in Ids, NEW y \in Ids, NEW new \in Edges, ns[x].live,
           ~ns[y].live => ns[y] = Absent
    PROVE  LET m == Installed(ns, x, new)[y]
           IN  /\ SameSelection(m, ns[y])
               /\ m.live = (ns[y].live \/ new[y] # NoRange)
               /\ m.metadata = IF y = x THEN ns[x].selected ELSE ns[y].metadata
               /\ m.deps = IF y = x THEN new ELSE ns[y].deps
               /\ \A u \in Ids : m.constraints[u] =
                     IF u = x /\ new[y] # NoRange THEN new[y] ELSE ns[y].constraints[u]
  <1> DEFINE entry == IF ns[y].live THEN ns[y] ELSE Fresh
             child == IF new[y] # NoRange THEN [entry EXCEPT !.constraints[x] = new[y]] ELSE ns[y]
             m == Installed(ns, x, new)[y]
  <1>1. ns[y] \in Nodes /\ ns[y].live \in BOOLEAN
    BY DEF Nodes
  <1>2. /\ entry \in Nodes /\ entry.live
        /\ SameSelection(entry, ns[y]) /\ entry.metadata = ns[y].metadata
        /\ entry.deps = ns[y].deps /\ entry.constraints = ns[y].constraints
    <2>1. CASE ns[y].live
      BY <1>1, <2>1 DEF SameSelection
    <2>2. CASE ~ns[y].live
      <3>1. entry = Fresh /\ ns[y] = Absent
        BY <2>2
      <3>2. /\ Fresh.selected = Absent.selected /\ Fresh.available = Absent.available
            /\ Fresh.generation = Absent.generation /\ Fresh.pruned = Absent.pruned
            /\ Fresh.metadata = Absent.metadata /\ Fresh.deps = Absent.deps
            /\ Fresh.constraints = Absent.constraints
        BY DEF Fresh, Absent
      <3> QED
        BY <3>1, <3>2, AbsentType DEF SameSelection
    <2> QED
      BY <2>1, <2>2
  <1> HIDE DEF entry
  <1>3. /\ child \in Nodes
        /\ child.live = (ns[y].live \/ new[y] # NoRange)
        /\ SameSelection(child, ns[y]) /\ child.metadata = ns[y].metadata
        /\ child.deps = ns[y].deps
        /\ \A u \in Ids : child.constraints[u] =
              IF u = x /\ new[y] # NoRange THEN new[y] ELSE ns[y].constraints[u]
    <2>1. CASE new[y] = NoRange
      BY <1>1, <2>1 DEF SameSelection
    <2>2. CASE new[y] # NoRange
      <3>1. child = [entry EXCEPT !.constraints[x] = new[y]]
        BY <2>2
      <3>2. new[y] \in Ranges \cup {NoRange}
        BY DEF Edges
      <3> HIDE DEF child
      <3>3. child \in Nodes
        BY <1>2, <3>1, <3>2, ConstraintEdit
      <3>4. /\ child.live = entry.live /\ child.metadata = entry.metadata
            /\ SameSelection(child, entry) /\ child.deps = entry.deps
        BY <1>2, <3>1 DEF SameSelection, Nodes
      <3>5. \A u \in Ids : child.constraints[u] = IF u = x THEN new[y] ELSE entry.constraints[u]
        BY <1>2, <3>1 DEF Nodes, Edges
      <3> QED
        BY <1>2, <2>2, <3>3, <3>4, <3>5 DEF SameSelection
    <2> QED
      BY <2>1, <2>2
  <1>4. m = IF y = x THEN [child EXCEPT !.deps = new, !.metadata = ns[x].selected] ELSE child
    BY DEF Installed, entry
  <1> HIDE DEF child, m
  <1>5. CASE y # x
    BY <1>3, <1>4, <1>5 DEF m
  <1>6. CASE y = x
    <2>1. m = [child EXCEPT !.deps = new, !.metadata = ns[x].selected]
      BY <1>4, <1>6
    <2>2. /\ m.live = child.live /\ SameSelection(m, child) /\ m.constraints = child.constraints
          /\ m.deps = new /\ m.metadata = ns[x].selected
      BY <1>3, <2>1 DEF SameSelection, Nodes
    <2> QED
      BY <1>3, <1>6, <2>2 DEF SameSelection, m
  <1> QED
    BY <1>5, <1>6

\* Revised drops the edges of one node and the constraints they stood for.
LEMMA RevisedFields ==
    ASSUME nodes \in [Ids -> Nodes], NEW x \in Ids, NEW next, NEW pruned,
           NEW y \in Ids
    PROVE  LET m == Revised(x, next, pruned)[y]
           IN  /\ y # x => SameSelection(m, nodes[y])
               /\ y = x => /\ m.selected = next /\ m.pruned = pruned
                           /\ m.available = nodes[x].available
                           /\ m.generation = nodes[x].generation + 1
               /\ m.live = (nodes[y].live \/ y = x)
               /\ m.metadata = IF y = x THEN None ELSE nodes[y].metadata
               /\ m.deps = IF y = x THEN NoEdges ELSE nodes[y].deps
               /\ \A u \in Ids : m.constraints[u] =
                     IF u = x /\ y \in Retracted(nodes, x) THEN NoRange
                     ELSE nodes[y].constraints[u]
  <1> DEFINE r == Retract(nodes, x)
             n == [live |-> TRUE, constraints |-> r[x].constraints, deps |-> NoEdges,
                   selected |-> next, metadata |-> None, available |-> r[x].available,
                   pruned |-> pruned, generation |-> r[x].generation + 1]
  <1>1. r \in [Ids -> Nodes]
    BY RetractKeeps
  <1>2. /\ SameSelection(r[y], nodes[y]) /\ r[y].live = nodes[y].live
        /\ r[y].metadata = nodes[y].metadata /\ r[y].deps = nodes[y].deps
        /\ \A u \in Ids : r[y].constraints[u] =
              IF u = x /\ y \in Retracted(nodes, x) THEN NoRange ELSE nodes[y].constraints[u]
    BY RetractFields
  <1>3. Revised(x, next, pruned) = [r EXCEPT ![x] = n]
    BY DEF Revised
  <1> HIDE DEF r
  <1>4. CASE y # x
    <2>1. Revised(x, next, pruned)[y] = r[y] /\ r[y] \in Nodes /\ nodes[y] \in Nodes
      BY <1>1, <1>3, <1>4
    <2> QED
      BY <1>2, <1>4, <2>1 DEF Nodes
  <1>5. CASE y = x
    <2>1. Revised(x, next, pruned)[y] = n
      BY <1>1, <1>3, <1>5
    <2>2. r[x].available = nodes[x].available /\ r[x].generation = nodes[x].generation
      BY <1>2, <1>5 DEF SameSelection
    <2>3. /\ n.selected = next /\ n.pruned = pruned /\ n.available = nodes[x].available
          /\ n.generation = nodes[x].generation + 1 /\ n.live
          /\ n.metadata = None /\ n.deps = NoEdges /\ n.constraints = r[y].constraints
      BY <1>5, <2>2
    <2> HIDE DEF n
    <2>4. n.live = (nodes[y].live \/ y = x)
      BY <1>5, <2>1, <2>3 DEF n
    <2> QED
      BY <1>2, <1>5, <2>1, <2>3, <2>4
  <1> QED
    BY <1>4, <1>5

(***************************************************************************)
(* What a selection depends on                                             *)
(***************************************************************************)

\* Where a closure does not leave a set, only the steps within the set count.
LEMMA ClosureWithin ==
    ASSUME NEW f \in [Ids -> SUBSET Ids], NEW g \in [Ids -> SUBSET Ids],
           NEW start \in SUBSET Ids, NEW Z \in SUBSET Ids, start \subseteq Z, IsClosed(f, Z),
           \A z \in Z : f[z] = g[z]
    PROVE  Closure(f, start) = Closure(g, start)
  <1> DEFINE F == Closure(f, start)
             G == Closure(g, start)
  <1>1. F \subseteq Z /\ start \subseteq F /\ IsClosed(f, F)
    BY ClosureFacts
  <1>2. G \subseteq F
    <2>1. IsClosed(g, F)
      BY <1>1 DEF IsClosed
    <2> QED
      BY <1>1, <2>1, ClosureFacts
  <1>3. F \subseteq G
    <2>1. start \subseteq G /\ IsClosed(g, G)
      BY ClosureFacts
    <2>2. IsClosed(f, G)
      BY <1>1, <1>2, <2>1 DEF IsClosed
    <2> QED
      BY <2>1, <2>2, ClosureFacts
  <1> QED
    BY <1>2, <1>3

\* A path to p is the same when no step into what leads to p is another.
LEMMA PathStays ==
    ASSUME NEW f \in [Ids -> SUBSET Ids], NEW g \in [Ids -> SUBSET Ids],
           NEW start \in SUBSET Ids, NEW Z \in SUBSET Ids, NEW p \in Z,
           \A y \in Ids, z \in Z : z \in f[y] => y \in Z /\ z \in g[y],
           p \in Closure(f, start)
    PROVE  p \in Closure(g, start)
  <1> DEFINE G == Closure(g, start)
             S == G \cup (Ids \ Z)
  <1>1. start \subseteq G /\ IsClosed(g, G)
    BY ClosureFacts
  <1> HIDE DEF G
  <1>2. IsClosed(f, S)
    <2> SUFFICES ASSUME NEW y \in S, NEW z \in f[y], z \in Z
                 PROVE  z \in G
      <3>1. S \subseteq Ids
        BY ClosureFacts DEF G
      <3> QED
        BY <3>1 DEF IsClosed
    <2>1. y \in Ids
      BY ClosureFacts DEF G
    <2> QED
      BY <1>1, <2>1 DEF IsClosed
  <1>3. Closure(f, start) \subseteq S
    BY <1>1, <1>2, ClosureFacts
  <1> QED
    BY <1>3 DEF G

\* Children and parents tell the same edges.
Mutual(ns) == \A x, y \in Ids : y \in Children(ns, x) <=> x \in Parents(ns, y)

ParentsOf(ns) == [y \in Ids |-> Parents(ns, y)]
ChildrenOf(ns) == [y \in Ids |-> Children(ns, y)]

\* A node and its ancestors.
Above(ns, p) == Closure(ParentsOf(ns), {p})

\* Above is the least set that holds p and the parents of its members.
LEMMA AboveFacts ==
    ASSUME NEW ns, NEW p \in Ids
    PROVE  /\ ParentsOf(ns) \in [Ids -> SUBSET Ids] /\ ChildrenOf(ns) \in [Ids -> SUBSET Ids]
           /\ Above(ns, p) \in SUBSET Ids /\ p \in Above(ns, p)
           /\ \A y \in Above(ns, p) : Parents(ns, y) \subseteq Above(ns, p)
           /\ \A S : p \in S /\ (\A y \in S \cap Ids : Parents(ns, y) \subseteq S) =>
                 Above(ns, p) \subseteq S
  <1>1. ParentsOf(ns) \in [Ids -> SUBSET Ids] /\ ChildrenOf(ns) \in [Ids -> SUBSET Ids]
    BY DEF ParentsOf, ChildrenOf, Parents, Children, Targets
  <1>2. /\ Above(ns, p) \in SUBSET Ids /\ {p} \subseteq Above(ns, p)
        /\ IsClosed(ParentsOf(ns), Above(ns, p))
    BY <1>1, ClosureFacts DEF Above
  <1>3. ASSUME NEW S, p \in S, \A y \in S \cap Ids : Parents(ns, y) \subseteq S
        PROVE  Above(ns, p) \subseteq S
    <2>1. IsClosed(ParentsOf(ns), S \cap Ids)
      BY <1>3 DEF IsClosed, ParentsOf, Parents, Targets
    <2>2. {p} \subseteq S \cap Ids /\ {p} \in SUBSET Ids
      BY <1>3
    <2>3. Above(ns, p) \subseteq S \cap Ids
      BY <1>1, <2>1, <2>2, ClosureFacts DEF Above
    <2> QED
      BY <2>3
  <1> QED
    BY <1>1, <1>2, <1>3 DEF IsClosed, ParentsOf

\* Two node maps have the same edges into p and all that leads to it.
SameAbove(m, n, p) == \A y \in Above(m, p) : Parents(m, y) = Parents(n, y)

\* The same parents at and above p: the same ancestors.
LEMMA AboveSame ==
    ASSUME NEW m, NEW n, NEW p \in Ids, SameAbove(m, n, p)
    PROVE  Above(n, p) = Above(m, p) /\ SameAbove(n, m, p)
  <1>1. /\ ParentsOf(m) \in [Ids -> SUBSET Ids] /\ ParentsOf(n) \in [Ids -> SUBSET Ids]
        /\ Above(m, p) \in SUBSET Ids /\ {p} \in SUBSET Ids /\ {p} \subseteq Above(m, p)
    BY AboveFacts
  <1>2. IsClosed(ParentsOf(m), Above(m, p))
    BY <1>1, AboveFacts DEF IsClosed, ParentsOf
  <1>3. \A y \in Above(m, p) : ParentsOf(m)[y] = ParentsOf(n)[y]
    BY <1>1 DEF SameAbove, ParentsOf
  <1>4. Above(m, p) = Above(n, p)
    BY <1>1, <1>2, <1>3, ClosureWithin DEF Above
  <1> QED
    BY <1>4 DEF SameAbove

\* ParentIsAncestor looks only at what is above the node it climbs from.
LEMMA AncestorSame ==
    ASSUME NEW m, NEW n, NEW p \in Ids, NEW x, NEW u, SameAbove(m, n, p)
    PROVE  ParentIsAncestor(m, x, u, p) = ParentIsAncestor(n, x, u, p)
  <1> DEFINE f == [y \in Ids |-> IF y = x THEN {} ELSE Parents(m, y) \ {x}]
             g == [y \in Ids |-> IF y = x THEN {} ELSE Parents(n, y) \ {x}]
  <1>1. f \in [Ids -> SUBSET Ids] /\ g \in [Ids -> SUBSET Ids]
    BY DEF Parents, Targets
  <1>2. /\ Above(m, p) \in SUBSET Ids /\ {p} \in SUBSET Ids /\ {p} \subseteq Above(m, p)
        /\ \A y \in Above(m, p) : Parents(m, y) \subseteq Above(m, p)
    BY AboveFacts
  <1>3. IsClosed(f, Above(m, p)) /\ \A y \in Above(m, p) : f[y] = g[y]
    BY <1>2 DEF IsClosed, SameAbove
  <1>4. /\ ParentIsAncestor(m, x, u, p) = (u \in Closure(f, {p}))
        /\ ParentIsAncestor(n, x, u, p) = (u \in Closure(g, {p}))
    BY DEF ParentIsAncestor
  <1> HIDE DEF f, g
  <1>5. Closure(f, {p}) = Closure(g, {p})
    BY <1>1, <1>2, <1>3, ClosureWithin
  <1> QED
    BY <1>4, <1>5

SameRoots(w, m, n) == \A x \in Ids : IsDirect(w, x) => m[x].live /\ n[x].live

\* So does HasAlternateRootPath, read from its end: a path from a root down to p
\* runs through ancestors of p only.
LEMMA RootPathStays ==
    ASSUME NEW w, NEW m, NEW n, NEW p \in Ids, NEW x, NEW u, Mutual(m), Mutual(n),
           SameAbove(m, n, p), SameRoots(w, m, n), HasAlternateRootPath(w, m, x, u, p)
    PROVE  HasAlternateRootPath(w, n, x, u, p)
  <1> DEFINE f == [y \in Ids |-> IF y \in {x, u} THEN {} ELSE Children(m, y)]
             g == [y \in Ids |-> IF y \in {x, u} THEN {} ELSE Children(n, y)]
             start == {y \in Ids : IsDirect(w, y) /\ m[y].live} \ {u}
  <1>1. f \in [Ids -> SUBSET Ids] /\ g \in [Ids -> SUBSET Ids] /\ start \in SUBSET Ids
    BY DEF Children, Targets
  <1>2. /\ Above(m, p) \in SUBSET Ids /\ p \in Above(m, p)
        /\ \A y \in Above(m, p) : Parents(m, y) \subseteq Above(m, p)
    BY AboveFacts
  <1>3. \A y \in Ids, z \in Above(m, p) : z \in f[y] => y \in Above(m, p) /\ z \in g[y]
    BY <1>2 DEF Mutual, SameAbove
  <1>4. start = {y \in Ids : IsDirect(w, y) /\ n[y].live} \ {u}
    BY DEF SameRoots
  <1>5. /\ HasAlternateRootPath(w, m, x, u, p) = (p \in Closure(f, start))
        /\ HasAlternateRootPath(w, n, x, u, p) = (p \in Closure(g, start))
    BY <1>4 DEF HasAlternateRootPath
  <1> HIDE DEF f, g, start
  <1>6. p \in Closure(g, start)
    BY <1>1, <1>2, <1>3, <1>5, PathStays
  <1> QED
    BY <1>5, <1>6

\* Hence domination depends on what is at and above the parents, ...
LEMMA DominatedSame ==
    ASSUME NEW w, NEW m, NEW n, NEW x \in Ids, NEW p \in Parents(m, x), Mutual(m), Mutual(n),
           SameRoots(w, m, n), Parents(m, x) = Parents(n, x),
           \A q \in Parents(m, x) : SameAbove(m, n, q)
    PROVE  Dominated(w, m, x, p) <=> Dominated(w, n, x, p)
  <1>1. Parents(m, x) \subseteq Ids
    BY DEF Parents, Targets
  <1>2. ASSUME NEW u \in Parents(m, x)
        PROVE  /\ ParentIsAncestor(m, x, u, p) = ParentIsAncestor(n, x, u, p)
               /\ ParentIsAncestor(m, x, p, u) = ParentIsAncestor(n, x, p, u)
               /\ HasAlternateRootPath(w, m, x, u, p) <=> HasAlternateRootPath(w, n, x, u, p)
    <2>1. SameAbove(m, n, p) /\ SameAbove(m, n, u) /\ p \in Ids /\ u \in Ids
      BY <1>1
    <2>2. SameAbove(n, m, p) /\ SameRoots(w, n, m)
      BY <2>1, AboveSame DEF SameRoots
    <2>3. HasAlternateRootPath(w, m, x, u, p) => HasAlternateRootPath(w, n, x, u, p)
      BY <2>1, RootPathStays
    <2>4. HasAlternateRootPath(w, n, x, u, p) => HasAlternateRootPath(w, m, x, u, p)
      BY <2>1, <2>2, RootPathStays
    <2> QED
      BY <2>1, <2>3, <2>4, AncestorSame
  <1> QED
    BY <1>2 DEF Dominated

\* Nothing that the rules for x depend on has changed; nor, for SameInputs, the
\* versions they choose from.
SameEdges(w, m, n, x) ==
    /\ Mutual(m) /\ Mutual(n) /\ SameRoots(w, m, n)
    /\ Parents(m, x) = Parents(n, x)
    /\ \A p \in Parents(m, x) : SameAbove(m, n, p) /\ m[x].constraints[p] = n[x].constraints[p]

SameInputs(w, m, n, x) == SameEdges(w, m, n, x) /\ m[x].available = n[x].available

\* ... and so do the active parents, ...
LEMMA ActiveSame ==
    ASSUME NEW w, NEW m, NEW n, NEW x \in Ids, SameEdges(w, m, n, x)
    PROVE  /\ ActiveParents(w, m, x) = ActiveParents(w, n, x)
           /\ ActiveParents(w, m, x) \subseteq Parents(m, x)
  <1>1. \A p \in Parents(m, x) : Dominated(w, m, x, p) <=> Dominated(w, n, x, p)
    BY DominatedSame DEF SameEdges
  <1>2. Parents(m, x) = Parents(n, x)
    BY DEF SameEdges
  <1> QED
    BY <1>1, <1>2 DEF ActiveParents

\* ... the ranges that decide and the version they prefer, ...
LEMMA RulesSame ==
    ASSUME NEW w, NEW m, NEW n, NEW x \in Ids, SameEdges(w, m, n, x)
    PROVE  /\ ActiveRanges(w, m, x) = ActiveRanges(w, n, x)
           /\ Deciding(w, m, x) = Deciding(w, n, x)
           /\ \A v : Accepts(w, m, x, v) = Accepts(w, n, x, v)
           /\ Preferences(w, m, x) = Preferences(w, n, x)
           /\ HighestLower(w, m, x) = HighestLower(w, n, x)
  <1> DEFINE A == ActiveParents(w, m, x)
  <1>1. A = ActiveParents(w, n, x) /\ A \subseteq Parents(m, x)
    BY ActiveSame
  <1>2. \A p \in A : m[x].constraints[p] = n[x].constraints[p]
    BY <1>1 DEF SameEdges
  <1> HIDE DEF A
  <1>3. ActiveRanges(w, m, x) = ActiveRanges(w, n, x)
    <2>1. /\ ActiveRanges(w, m, x) = {m[x].constraints[p] : p \in A}
          /\ ActiveRanges(w, n, x) = {n[x].constraints[p] : p \in A}
      BY <1>1 DEF ActiveRanges, A
    <2> QED
      BY <1>2, <2>1
  <1>4. Deciding(w, m, x) = Deciding(w, n, x)
    BY <1>3 DEF Deciding
  <1>5. \A v : Accepts(w, m, x, v) = Accepts(w, n, x, v)
    BY <1>4 DEF Accepts
  <1>6. Preferences(w, m, x) = Preferences(w, n, x)
    <2> DEFINE Fm == {p \in A : Floats(m[x].constraints[p])}
               Fn == {p \in A : Floats(n[x].constraints[p])}
               first(F) == {q \in F : \A o \in F : q <= o}
    <2>1. Fm = Fn
      BY <1>2
    <2>2. {m[x].constraints[p] : p \in first(Fm)} = {n[x].constraints[p] : p \in first(Fn)}
      BY <1>2, <2>1
    <2>3. /\ Preferences(w, m, x) = IF IsDirect(w, x) /\ Floats(w.direct[x]) THEN {w.direct[x]}
                                    ELSE {m[x].constraints[p] : p \in first(Fm)}
          /\ Preferences(w, n, x) = IF IsDirect(w, x) /\ Floats(w.direct[x]) THEN {w.direct[x]}
                                    ELSE {n[x].constraints[p] : p \in first(Fn)}
      BY <1>1 DEF Preferences, A
    <2> QED
      BY <2>2, <2>3
  <1>7. HighestLower(w, m, x) = HighestLower(w, n, x)
    BY <1>4, <1>5 DEF HighestLower
  <1> QED
    BY <1>3, <1>4, <1>5, <1>6, <1>7

\* ... the selection and its refusal.
LEMMA SelectionSame ==
    ASSUME NEW w, NEW m, NEW n, NEW x \in Ids, SameInputs(w, m, n, x)
    PROVE  Selection(w, m, x) = Selection(w, n, x) /\ Refusal(w, m, x) = Refusal(w, n, x)
  <1>1. SameEdges(w, m, n, x) /\ m[x].available = n[x].available
    BY DEF SameInputs
  <1>2. Candidates(w, m, x) = Candidates(w, n, x)
    BY <1>1, RulesSame DEF Candidates
  <1>3. Selection(w, m, x) = Selection(w, n, x)
    BY <1>1, <1>2, RulesSame DEF Selection
  <1>4. Refusal(w, m, x) = Refusal(w, n, x)
    <2>1. /\ Parents(m, x) = Parents(n, x)
          /\ \A p \in Parents(m, x) : m[x].constraints[p] = n[x].constraints[p]
      BY <1>1 DEF SameEdges
    <2> QED
      BY <1>1, <1>2, <2>1, RulesSame DEF Refusal
  <1> QED
    BY <1>3, <1>4

\* What is revisited when steps out of the roots change: whoever is left out is not below
\* them, and none of them is above a parent of it.
LEMMA AboveReaches ==
    ASSUME NEW ns, Mutual(ns), NEW roots \in SUBSET Ids, NEW p \in Ids,
           NEW y \in Above(ns, p), y \in roots
    PROVE  p \in Closure(ChildrenOf(ns), roots)
  <1> DEFINE D == Closure(ChildrenOf(ns), roots)
             S == {z \in Ids : z \in D => p \in D}
  <1>1. D \in SUBSET Ids /\ roots \subseteq D /\ IsClosed(ChildrenOf(ns), D)
    BY AboveFacts, ClosureFacts
  <1> HIDE DEF D
  <1>2. p \in S
    OBVIOUS
  <1>3. ASSUME NEW z \in S, NEW q \in Parents(ns, z)
        PROVE  q \in S
    <2>1. q \in Ids /\ z \in Ids
      BY DEF Parents, Targets
    <2>2. z \in ChildrenOf(ns)[q]
      BY <2>1 DEF Mutual, ChildrenOf
    <2>3. q \in D => z \in D
      BY <1>1, <2>2 DEF IsClosed
    <2> QED
      BY <2>1, <2>3
  <1> HIDE DEF S
  <1>4. Above(ns, p) \subseteq S
    BY <1>2, <1>3, AboveFacts
  <1> QED
    BY <1>1, <1>4 DEF S, D

\* Nothing above the parents of a node outside Descendants is one of its roots.
LEMMA NotBelow ==
    ASSUME NEW ns, Mutual(ns), NEW roots \in SUBSET Ids, NEW x \in Ids \ Descendants(ns, roots),
           NEW p \in Parents(ns, x), NEW y \in Above(ns, p)
    PROVE  y \notin roots
  <1> SUFFICES ASSUME y \in roots PROVE FALSE
    OBVIOUS
  <1>1. p \in Ids /\ x \in Children(ns, p)
    BY DEF Parents, Targets, Mutual
  <1>2. p \in Closure(ChildrenOf(ns), roots)
    BY <1>1, AboveReaches
  <1> QED
    BY <1>1, <1>2 DEF Descendants, ChildrenOf

\* Who has no children is above nobody else.
LEMMA ChildlessAbove ==
    ASSUME NEW ns, Mutual(ns), NEW p \in Ids, NEW y \in Above(ns, p), Children(ns, y) = {}
    PROVE  y = p
  <1> DEFINE S == {z \in Ids : z = p \/ Children(ns, z) # {}}
  <1>1. \A z \in S \cap Ids : Parents(ns, z) \subseteq S
    BY DEF Mutual, Parents, Targets
  <1>2. p \in S
    OBVIOUS
  <1>3. Above(ns, p) \subseteq S
    <2> HIDE DEF S
    <2> QED
      BY <1>1, <1>2, AboveFacts
  <1> QED
    BY <1>3

(***************************************************************************)
(* The graph and its edges                                                 *)
(***************************************************************************)

\* No result that is out passes for one of the current selection without being one.  A node
\* that is removed and created again starts its generations anew, so this may fail.
Recognised == \A t \in tasks : ~Stale(t) => nodes[t.id].selected = t.version

\* A node has no edges, or those of the manifest of the version it selects.
Opened(x) == \/ nodes[x].metadata = None /\ nodes[x].deps = NoEdges
             \/ nodes[x].selected \in Versions /\ Expanded(x)

GraphInv ==
    /\ \A x \in Ids : Opened(x)
    /\ \A x, y \in Ids : nodes[y].constraints[x] = nodes[x].deps[y]
    /\ \A x \in Ids : IsDirect(world, x) => nodes[x].live

\* What a step may do to the map of nodes.
Opens(x, v) ==
    /\ nodes[x].live /\ nodes[x].selected = v
    /\ nodes' = Installed(nodes, x, world.deps[x][v])
    /\ dirty' = dirty \cup InstallDirties(nodes, x, world.deps[x][v])
    /\ pc' = "stabilize"

Lists(t) ==
    /\ nodes[t.id].live
    /\ nodes' = [nodes EXCEPT ![t.id].available = Listed(t)]
    /\ dirty' = dirty \cup {t.id}

\* Every step does one of five things to the map of nodes.
LEMMA Changes ==
    ASSUME TypeOK, SchedulerSound, Recognised, Next
    PROVE  /\ world' = world
           /\ \/ UNCHANGED nodes /\ (dirty' = dirty \/ \E x \in Ids : KeepSelection(x))
              \/ \E x \in Ids : RemoveOrphan(x)
              \/ \E x \in Ids : ChangeSelection(x)
              \/ \E x \in Ids, v \in Versions : Opens(x, v)
              \/ \E t \in tasks : JoinVersions(t) /\ Lists(t)
  <1> DEFINE Goal ==
               /\ world' = world
               /\ \/ UNCHANGED nodes /\ (dirty' = dirty \/ \E x \in Ids : KeepSelection(x))
                  \/ \E x \in Ids : RemoveOrphan(x)
                  \/ \E x \in Ids : ChangeSelection(x)
                  \/ \E x \in Ids, v \in Versions : Opens(x, v)
                  \/ \E t \in tasks : JoinVersions(t) /\ Lists(t)
  <1>1. ASSUME NEW x \in Ids, NEW v \in Versions, nodes[x].live, nodes[x].selected = v,
               Install(x, v), world' = world
        PROVE  Goal
    <2>1. CASE <<x, v>> \in world.duplicated
      BY <1>1, <2>1 DEF Install
    <2>2. CASE <<x, v>> \notin world.duplicated
      BY <1>1, <2>2 DEF Install, Opens
    <2> QED
      BY <2>1, <2>2
  <1>2. ASSUME NEW x \in Ids, ReuseMetadata(x) PROVE Goal
    <2>1. nodes[x].live /\ Install(x, nodes[x].selected) /\ world' = world
      BY <1>2 DEF ReuseMetadata, Dispatches, Eligible
    <2>2. nodes[x].selected \in Versions
      BY <1>2 DEF ReuseMetadata, TypeOK
    <2> QED
      BY <1>1, <2>1, <2>2
  <1>3. ASSUME NEW t \in tasks, JoinRequirements(t) PROVE Goal
    <2>1. PICK package \in BOOLEAN :
             /\ [kind |-> "requirements", package |-> package] \in Results(t)
             /\ \/ UNCHANGED <<nodes, dirty>>
                \/ ~Stale(t) /\ Install(t.id, t.version)
             /\ world' = world
      BY <1>3 DEF JoinRequirements
    <2>2. t.id \in Ids /\ t.version \in Versions
      BY <2>1, RequirementsVersion
    <2>3. CASE UNCHANGED <<nodes, dirty>>
      BY <2>1, <2>3
    <2>4. CASE ~Stale(t) /\ Install(t.id, t.version)
      <3>1. nodes[t.id].live /\ nodes[t.id].selected = t.version
        BY <2>4 DEF Recognised, Stale
      <3> QED
        BY <1>1, <2>1, <2>2, <2>4, <3>1
    <2> QED
      BY <2>1, <2>3, <2>4
  <1>4. ASSUME NEW t \in tasks, JoinVersions(t) PROVE Goal
    BY <1>4 DEF JoinVersions, WithVersions, Lists
  <1>5. ASSUME NEW x \in Ids, RemoveOrphan(x) PROVE Goal
    BY <1>5 DEF RemoveOrphan
  <1>6. ASSUME NEW x \in Ids, ChangeSelection(x) PROVE Goal
    BY <1>6 DEF ChangeSelection
  <1>7. ASSUME NEW x \in Ids, KeepSelection(x) PROVE Goal
    BY <1>7 DEF KeepSelection
  <1>8. ASSUME NEW x \in Ids, FailSelection(x) PROVE Goal
    BY <1>8 DEF FailSelection
  <1>9. ASSUME NEW x \in Ids, Spawn(x) PROVE Goal
    BY <1>9 DEF Spawn
  <1>10. ASSUME NEW x \in Ids, RejectSource(x) PROVE Goal
    BY <1>10 DEF RejectSource
  <1>11. ASSUME NEW t \in tasks, JoinError(t) PROVE Goal
    BY <1>11 DEF JoinError
  <1>12. ASSUME NEW x \in Ids, Acquire(x) PROVE Goal
    BY <1>12 DEF Acquire
  <1>13. ASSUME Stabilized \/ BeginAcquisition \/ Return \/ Cancel PROVE Goal
    BY <1>13 DEF Stabilized, BeginAcquisition, Return, Cancel
  <1> HIDE DEF Goal
  <1>14. Goal
    BY <1>2, <1>3, <1>4, <1>5, <1>6, <1>7, <1>8, <1>9, <1>10, <1>11, <1>12, <1>13 DEF Next
  <1> QED
    BY <1>14 DEF Goal

\* Listing versions leaves all else of a node alone.
LEMMA ListsFields ==
    ASSUME TypeOK, NEW t \in tasks, Lists(t), NEW y \in Ids
    PROVE  /\ nodes'[y].live = nodes[y].live /\ nodes'[y].constraints = nodes[y].constraints
           /\ nodes'[y].deps = nodes[y].deps /\ nodes'[y].selected = nodes[y].selected
           /\ nodes'[y].metadata = nodes[y].metadata /\ nodes'[y].pruned = nodes[y].pruned
           /\ nodes'[y].generation = nodes[y].generation
           /\ nodes'[y].available = IF y = t.id THEN Listed(t) ELSE nodes[y].available
  <1>1. nodes \in [Ids -> Nodes] /\ t.id \in Ids
    BY DEF TypeOK, Tasks
  <1> QED
    BY <1>1 DEF Lists, Nodes

\* GraphInv holds initially, and each kind of edit keeps it.
LEMMA GraphInit == Init => GraphInv
  <1> SUFFICES ASSUME Init PROVE GraphInv
    OBVIOUS
  <1>1. ASSUME NEW x \in Ids
        PROVE  /\ nodes[x].metadata = None /\ nodes[x].deps = NoEdges
               /\ nodes[x].constraints = NoEdges /\ (IsDirect(world, x) => nodes[x].live)
    BY DEF Init, Fresh, Absent
  <1> QED
    BY <1>1 DEF GraphInv, Opened, NoEdges

LEMMA GraphOpens ==
    ASSUME TypeOK, GraphInv, world' = world, NEW x \in Ids, NEW v \in Versions, Opens(x, v)
    PROVE  GraphInv'
  <1> DEFINE new == world.deps[x][v]
  <1>1. nodes \in [Ids -> Nodes] /\ new \in Edges /\ \A y \in Ids : ~nodes[y].live => nodes[y] = Absent
    BY WorldEdges DEF TypeOK
  <1>2. ASSUME NEW y \in Ids
        PROVE  /\ SameSelection(nodes'[y], nodes[y])
               /\ nodes'[y].live = (nodes[y].live \/ new[y] # NoRange)
               /\ nodes'[y].metadata = IF y = x THEN v ELSE nodes[y].metadata
               /\ nodes'[y].deps = IF y = x THEN new ELSE nodes[y].deps
               /\ \A u \in Ids : nodes'[y].constraints[u] =
                     IF u = x /\ new[y] # NoRange THEN new[y] ELSE nodes[y].constraints[u]
    BY <1>1, InstalledFields DEF Opens
  <1>3. nodes[x].selected = v
    BY DEF Opens
  <1>4. nodes[x].deps = NoEdges \/ nodes[x].deps = new
    BY <1>3 DEF GraphInv, Opened, Expanded
  <1> HIDE DEF new
  <1>5. ASSUME NEW y \in Ids PROVE Opened(y)'
    <2>1. CASE y = x
      <3>1. nodes'[y].selected = v /\ nodes'[y].metadata = v /\ nodes'[y].deps = new
        BY <1>2, <1>3, <2>1 DEF SameSelection
      <3>2. v # None
        BY BoundsAssumption DEF Versions, None
      <3> QED
        BY <2>1, <3>1, <3>2 DEF Opened, Expanded, new
    <2>2. CASE y # x
      <3>1. /\ nodes'[y].selected = nodes[y].selected /\ nodes'[y].metadata = nodes[y].metadata
            /\ nodes'[y].deps = nodes[y].deps
        BY <1>2, <2>2 DEF SameSelection
      <3> QED
        BY <3>1 DEF GraphInv, Opened, Expanded
    <2> QED
      BY <2>1, <2>2
  <1>6. ASSUME NEW u \in Ids, NEW y \in Ids PROVE nodes'[y].constraints[u] = nodes'[u].deps[y]
    <2>1. nodes[y].constraints[u] = nodes[u].deps[y]
      BY DEF GraphInv
    <2>2. CASE u = x
      BY <1>2, <1>4, <2>1, <2>2 DEF NoEdges
    <2>3. CASE u # x
      BY <1>2, <2>1, <2>3
    <2> QED
      BY <2>2, <2>3
  <1>7. \A y \in Ids : IsDirect(world', y) => nodes'[y].live
    BY <1>2 DEF GraphInv
  <1> QED
    BY <1>5, <1>6, <1>7 DEF GraphInv

LEMMA GraphChange ==
    ASSUME TypeOK, GraphInv, NEW x \in Ids, ChangeSelection(x)
    PROVE  GraphInv'
  <1>1. nodes \in [Ids -> Nodes] /\ \A y \in Ids : ~nodes[y].live => nodes[y] = Absent
    BY DEF TypeOK
  <1>2. PICK next \in Versions \cup {None}, pruned \in BOOLEAN :
           world' = world /\ nodes' = Revised(x, next, pruned)
    BY DEF ChangeSelection
  <1>3. ASSUME NEW y \in Ids
        PROVE  /\ y # x => SameSelection(nodes'[y], nodes[y])
               /\ nodes'[y].live = (nodes[y].live \/ y = x)
               /\ nodes'[y].metadata = IF y = x THEN None ELSE nodes[y].metadata
               /\ nodes'[y].deps = IF y = x THEN NoEdges ELSE nodes[y].deps
               /\ \A u \in Ids : nodes'[y].constraints[u] =
                     IF u = x /\ y \in Retracted(nodes, x) THEN NoRange
                     ELSE nodes[y].constraints[u]
    BY <1>1, <1>2, RevisedFields
  <1>4. ASSUME NEW y \in Ids PROVE Opened(y)'
    <2>1. CASE y = x
      BY <1>3, <2>1 DEF Opened
    <2>2. CASE y # x
      <3>1. /\ nodes'[y].selected = nodes[y].selected /\ nodes'[y].metadata = nodes[y].metadata
            /\ nodes'[y].deps = nodes[y].deps
        BY <1>3, <2>2 DEF SameSelection
      <3> QED
        BY <1>2, <3>1 DEF GraphInv, Opened, Expanded
    <2> QED
      BY <2>1, <2>2
  <1>5. ASSUME NEW u \in Ids, NEW y \in Ids PROVE nodes'[y].constraints[u] = nodes'[u].deps[y]
    <2>1. nodes[y].constraints[u] = nodes[u].deps[y]
      BY DEF GraphInv
    <2>2. CASE u = x
      <3>1. y \notin Retracted(nodes, x) => nodes[y].constraints[x] = NoRange
        <4>1. CASE nodes[y].live
          BY <2>1, <2>2, <4>1 DEF Retracted, Targets
        <4>2. CASE ~nodes[y].live
          BY <1>1, <4>2 DEF Absent, NoEdges
        <4> QED
          BY <4>1, <4>2
      <3> QED
        BY <1>3, <2>2, <3>1 DEF NoEdges
    <2>3. CASE u # x
      BY <1>3, <2>1, <2>3
    <2> QED
      BY <2>2, <2>3
  <1>6. \A y \in Ids : IsDirect(world', y) => nodes'[y].live
    BY <1>2, <1>3 DEF GraphInv
  <1> QED
    BY <1>4, <1>5, <1>6 DEF GraphInv

\* RemoveOrphan clears one node and its constraints on others.
LEMMA RemovedFields ==
    ASSUME TypeOK, NEW x \in Ids, RemoveOrphan(x), NEW y \in Ids
    PROVE  /\ y = x => nodes'[y] = Absent
           /\ y # x => /\ SameSelection(nodes'[y], nodes[y])
                       /\ nodes'[y].live = nodes[y].live
                       /\ nodes'[y].metadata = nodes[y].metadata
                       /\ nodes'[y].deps = nodes[y].deps
                       /\ \A u \in Ids : nodes'[y].constraints[u] =
                             IF u = x /\ y \in Retracted(nodes, x) THEN NoRange
                             ELSE nodes[y].constraints[u]
  <1>1. nodes \in [Ids -> Nodes]
    BY DEF TypeOK
  <1>2. nodes' = [Retract(nodes, x) EXCEPT ![x] = Absent] /\ Retract(nodes, x) \in [Ids -> Nodes]
    BY <1>1, RetractKeeps DEF RemoveOrphan
  <1>3. y # x => nodes'[y] = Retract(nodes, x)[y]
    BY <1>2
  <1> QED
    BY <1>1, <1>2, <1>3, RetractFields

LEMMA GraphRemove ==
    ASSUME TypeOK, GraphInv, NEW x \in Ids, RemoveOrphan(x)
    PROVE  GraphInv'
  <1>1. \A y \in Ids : ~nodes[y].live => nodes[y] = Absent
    BY DEF TypeOK
  <1>2. world' = world /\ ~IsDirect(world, x) /\ nodes[x].live /\ Parents(nodes, x) = {}
    BY DEF RemoveOrphan, IsOrphan
  <1>3. \A u \in Ids : nodes[x].constraints[u] = NoRange
    BY <1>2 DEF Parents, Targets
  <1>4. ASSUME NEW y \in Ids PROVE Opened(y)'
    <2>1. CASE y = x
      BY <2>1, RemovedFields DEF Opened, Absent
    <2>2. CASE y # x
      <3>1. /\ nodes'[y].selected = nodes[y].selected /\ nodes'[y].metadata = nodes[y].metadata
            /\ nodes'[y].deps = nodes[y].deps
        BY <2>2, RemovedFields DEF SameSelection
      <3> QED
        BY <1>2, <3>1 DEF GraphInv, Opened, Expanded
    <2> QED
      BY <2>1, <2>2
  <1>5. ASSUME NEW u \in Ids, NEW y \in Ids PROVE nodes'[y].constraints[u] = nodes'[u].deps[y]
    <2>1. nodes[y].constraints[u] = nodes[u].deps[y]
      BY DEF GraphInv
    <2>2. u = x => nodes'[u].deps[y] = NoRange
      BY RemovedFields DEF Absent, NoEdges
    <2>3. u # x => nodes'[u].deps[y] = nodes[u].deps[y]
      BY RemovedFields
    <2>4. CASE y = x
      <3>1. nodes'[y].constraints[u] = NoRange
        BY <2>4, RemovedFields DEF Absent, NoEdges
      <3> QED
        BY <1>3, <2>1, <2>2, <2>3, <2>4, <3>1
    <2>5. CASE y # x
      <3>1. y \notin Retracted(nodes, x) => nodes[y].constraints[x] = NoRange
        <4>1. CASE nodes[y].live
          BY <4>1 DEF Retracted, Targets, GraphInv
        <4>2. CASE ~nodes[y].live
          BY <1>1, <4>2 DEF Absent, NoEdges
        <4> QED
          BY <4>1, <4>2
      <3>2. nodes'[y].constraints[u] = IF u = x /\ y \in Retracted(nodes, x) THEN NoRange
                                       ELSE nodes[y].constraints[u]
        BY <2>5, RemovedFields
      <3> QED
        BY <2>1, <2>2, <2>3, <3>1, <3>2
    <2> QED
      BY <2>4, <2>5
  <1>6. ASSUME NEW y \in Ids, IsDirect(world', y)
        PROVE  nodes'[y].live
    <2>1. y # x /\ nodes[y].live
      BY <1>2, <1>6 DEF GraphInv
    <2> QED
      BY <2>1, RemovedFields
  <1> QED
    BY <1>4, <1>5, <1>6 DEF GraphInv

LEMMA GraphLists ==
    ASSUME TypeOK, GraphInv, world' = world, NEW t \in tasks, Lists(t)
    PROVE  GraphInv'
  BY ListsFields DEF GraphInv, Opened, Expanded

LEMMA GraphStep ==
    ASSUME TypeOK, SchedulerSound, Recognised, GraphInv, Next
    PROVE  GraphInv'
  <1>1. CASE UNCHANGED <<world, nodes>>
    BY <1>1 DEF GraphInv, Opened, Expanded
  <1> QED
    BY <1>1, Changes, GraphRemove, GraphChange, GraphOpens, GraphLists

\* A task's generation was the one of its node, and tells whether the node still
\* selects the version that the task asks for.
Stamped ==
    \A t \in tasks : /\ t.generation <= nodes[t.id].generation
                     /\ t.generation = nodes[t.id].generation =>
                           nodes[t.id].selected = t.version

\* No node leaves the map while a task for it is out.
Kept == \A t \in tasks : nodes[t.id].live

\* Only Spawn adds a task.
LEMMA SpawnsOnly ==
    ASSUME Next
    PROVE  tasks' \subseteq tasks \/ \E a \in Ids : Spawn(a)
  <1>1. ASSUME NEW x, NEW v, Install(x, v)
        PROVE  <<x, v>> \in world.duplicated => tasks' = {}
    BY <1>1 DEF Install, Fail
  <1>2. ASSUME NEW x \in Ids, RemoveOrphan(x) \/ KeepSelection(x) \/ ChangeSelection(x)
                              \/ FailSelection(x) \/ RejectSource(x) \/ Acquire(x)
        PROVE  tasks' \subseteq tasks
    BY <1>2 DEF RemoveOrphan, KeepSelection, ChangeSelection, FailSelection, RejectSource,
                Acquire, Fail
  <1>3. ASSUME NEW x \in Ids, ReuseMetadata(x) PROVE tasks' \subseteq tasks
    BY <1>1, <1>3 DEF ReuseMetadata
  <1>4. ASSUME NEW t \in tasks, JoinError(t) \/ JoinVersions(t) PROVE tasks' \subseteq tasks
    BY <1>4 DEF JoinError, JoinVersions, Leave, Fail
  <1>5. ASSUME NEW t \in tasks, JoinRequirements(t) PROVE tasks' \subseteq tasks
    BY <1>1, <1>5 DEF JoinRequirements, Leave
  <1>6. ASSUME Stabilized \/ BeginAcquisition \/ Return \/ Cancel PROVE tasks' \subseteq tasks
    BY <1>6 DEF Stabilized, BeginAcquisition, Return, Cancel, Fail
  <1> QED
    BY <1>2, <1>3, <1>4, <1>5, <1>6 DEF Next

\* A step that removes no node with a task out keeps Stamped.
LEMMA StampedStep ==
    ASSUME TypeOK, SchedulerSound, Stamped, Kept', Next
    PROVE  Stamped'
  <1>1. Recognised
    BY DEF Stamped, Recognised, Stale
  <1>2. ASSUME NEW t \in tasks
        PROVE  t.id \in Ids /\ t.generation \in Nat /\ nodes[t.id].generation \in Nat
    BY BoundsAssumption DEF TypeOK, Tasks, Nodes
  <1>3. CASE \E a \in Ids : Spawn(a)
    <2>0. PICK a \in Ids : Spawn(a)
      BY <1>3
    <2>1. PICK s : /\ s = [id |-> a, generation |-> nodes[a].generation,
                           version |-> nodes[a].selected]
                   /\ tasks' = tasks \cup {s} /\ nodes' = nodes
      BY <2>0 DEF Spawn
    <2>2. nodes[a].generation \in Nat
      BY BoundsAssumption DEF TypeOK, Nodes
    <2> QED
      BY <2>1, <2>2 DEF Stamped
  <1>4. ASSUME tasks' \subseteq tasks,
               \A t \in tasks' : \/ /\ nodes'[t.id].generation = nodes[t.id].generation
                                    /\ nodes'[t.id].selected = nodes[t.id].selected
                                 \/ nodes'[t.id].generation = nodes[t.id].generation + 1
        PROVE  Stamped'
    BY <1>2, <1>4 DEF Stamped
  <1>5. CASE tasks' \subseteq tasks
    <2>1. CASE UNCHANGED nodes
      BY <1>4, <1>5, <2>1
    <2>2. ASSUME NEW x \in Ids, RemoveOrphan(x) PROVE Stamped'
      <3>1. ASSUME NEW t \in tasks' PROVE t.id # x
        <4>1. nodes'[t.id].live
          BY <3>1 DEF Kept
        <4> QED
          BY <2>2, <4>1, RemovedFields DEF Absent
      <3>2. ASSUME NEW t \in tasks' PROVE SameSelection(nodes'[t.id], nodes[t.id])
        BY <1>2, <1>5, <2>2, <3>1, <3>2, RemovedFields
      <3> QED
        BY <1>4, <1>5, <3>2 DEF SameSelection
    <2>3. ASSUME NEW x \in Ids, ChangeSelection(x) PROVE Stamped'
      <3>1. PICK next \in Versions \cup {None}, pruned \in BOOLEAN : nodes' = Revised(x, next, pruned)
        BY <2>3 DEF ChangeSelection
      <3>2. nodes \in [Ids -> Nodes]
        BY DEF TypeOK
      <3>3. ASSUME NEW y \in Ids
            PROVE  \/ SameSelection(nodes'[y], nodes[y])
                   \/ nodes'[y].generation = nodes[y].generation + 1
        <4>1. LET m == Revised(x, next, pruned)[y]
              IN  /\ y # x => SameSelection(m, nodes[y])
                  /\ y = x => m.generation = nodes[x].generation + 1
          BY <3>2, RevisedFields
        <4> QED
          BY <3>1, <4>1
      <3> QED
        BY <1>2, <1>4, <1>5, <3>3 DEF SameSelection
    <2>4. ASSUME NEW x \in Ids, NEW v \in Versions, Opens(x, v), world' = world PROVE Stamped'
      <3>1. world.deps[x][v] \in Edges
        BY WorldEdges DEF TypeOK
      <3>2. ASSUME NEW y \in Ids PROVE SameSelection(nodes'[y], nodes[y])
        <4>1. /\ nodes \in [Ids -> Nodes] /\ (~nodes[y].live => nodes[y] = Absent)
              /\ nodes[x].live /\ nodes' = Installed(nodes, x, world.deps[x][v])
          BY <2>4 DEF TypeOK, Opens
        <4>2. SameSelection(Installed(nodes, x, world.deps[x][v])[y], nodes[y])
          BY <3>1, <4>1, InstalledFields
        <4> QED
          BY <4>1, <4>2
      <3> QED
        BY <1>2, <1>4, <1>5, <3>2 DEF SameSelection
    <2>5. ASSUME NEW s \in tasks, Lists(s) PROVE Stamped'
      <3>1. ASSUME NEW y \in Ids
            PROVE  nodes'[y].generation = nodes[y].generation /\ nodes'[y].selected = nodes[y].selected
        BY <2>5, ListsFields
      <3> QED
        BY <1>2, <1>4, <1>5, <3>1
    <2> QED
      BY <1>1, <2>1, <2>2, <2>3, <2>4, <2>5, Changes
  <1> QED
    BY <1>3, <1>5, SpawnsOnly

\* For every graph: the generation tells a stale result from a current one, as
\* long as no node is removed from the map while a task for it is out.  (A node
\* that is removed and comes back starts at generation 0 again.)
THEOREM GenerationsSuffice == Spec /\ []Kept => []Recognised
  <1>1. Init => Stamped
    BY DEF Init, Stamped
  <1>2. TypeOK /\ SchedulerSound /\ Kept' /\ Stamped /\ [Next]_vars => Stamped'
    <2>1. CASE UNCHANGED vars
      BY <2>1 DEF vars, Stamped
    <2> QED
      BY <2>1, StampedStep
  <1>3. Stamped => Recognised
    BY DEF Stamped, Recognised, Stale
  <1> QED
    BY <1>1, <1>2, <1>3, TypeCorrect, SchedulerSafe, PTL DEF Spec

(***************************************************************************)
(* Selections                                                              *)
(***************************************************************************)

\* What selecting anew would choose is what x has, and nothing is wrong with it.
Settled(x) ==
    /\ Refusal(world, nodes, x) = "none"
    /\ nodes[x].selected \in (IF Selection(world, nodes, x) = {} THEN {None}
                              ELSE Selection(world, nodes, x))
    /\ nodes[x].pruned = IsPruned(world, x, nodes[x].selected)
    /\ IsDirect(world, x) \/ Parents(nodes, x) # {}

\* Whoever need not be revisited is settled.
SelectionsCurrent == \A x \in Ids : nodes[x].live /\ x \notin dirty => Settled(x)

\* In a sound graph children and parents are each other's converse, ...
LEMMA MutualEdges ==
    ASSUME NEW ns \in [Ids -> Nodes], \A y \in Ids : ~ns[y].live => ns[y] = Absent,
           \A x, y \in Ids : ns[y].constraints[x] = ns[x].deps[y]
    PROVE  Mutual(ns)
  <1>1. ASSUME NEW x \in Ids, NEW y \in Ids
        PROVE  y \in Children(ns, x) <=> x \in Parents(ns, y)
    <2>1. ns[y].constraints[x] = ns[x].deps[y]
      OBVIOUS
    <2>2. ~ns[y].live => ns[y].constraints[x] = NoRange
      BY DEF Absent, NoEdges
    <2>3. ~ns[x].live => ns[x].deps[y] = NoRange
      BY DEF Absent, NoEdges
    <2> QED
      BY <2>1, <2>2, <2>3 DEF Children, Parents, Targets
  <1> QED
    BY <1>1 DEF Mutual

\* ... before and after a step, and the direct packages stay.
LEMMA StepMutual ==
    ASSUME TypeOK, TypeOK', GraphInv, GraphInv', world' = world
    PROVE  Mutual(nodes) /\ Mutual(nodes') /\ SameRoots(world, nodes, nodes')
  <1>1. Mutual(nodes)
    BY MutualEdges DEF TypeOK, GraphInv
  <1>2. Mutual(nodes')
    BY MutualEdges DEF TypeOK, GraphInv
  <1> QED
    BY <1>1, <1>2 DEF SameRoots, GraphInv

\* A step leaves the selection of x alone when it touches neither x nor what is above it.
LEMMA UntouchedInputs ==
    ASSUME Mutual(nodes), Mutual(nodes'), SameRoots(world, nodes, nodes'),
           NEW touched, NEW x \in Ids \ touched,
           \A y \in Ids \ touched : /\ Parents(nodes, y) = Parents(nodes', y)
                                    /\ \A p \in Parents(nodes, y) :
                                          nodes[y].constraints[p] = nodes'[y].constraints[p],
           \A p \in Parents(nodes, x) : Above(nodes, p) \cap touched = {},
           nodes'[x].available = nodes[x].available
    PROVE  SameInputs(world, nodes, nodes', x)
  <1>1. ASSUME NEW p \in Parents(nodes, x)
        PROVE  SameAbove(nodes, nodes', p)
    <2>1. p \in Ids
      BY DEF Parents, Targets
    <2>2. Above(nodes, p) \subseteq Ids
      BY <2>1, AboveFacts
    <2> QED
      BY <2>2 DEF SameAbove
  <1> QED
    BY <1>1 DEF SameInputs, SameEdges

\* A package whose inputs and selection stay is as settled as before.
LEMMA StaysSettled ==
    ASSUME NEW x \in Ids, Settled(x), SameInputs(world, nodes, nodes', x), world' = world,
           nodes'[x].selected = nodes[x].selected, nodes'[x].pruned = nodes[x].pruned
    PROVE  Settled(x)'
  <1>1. /\ Selection(world, nodes, x) = Selection(world, nodes', x)
        /\ Refusal(world, nodes, x) = Refusal(world, nodes', x)
    BY SelectionSame
  <1>2. Parents(nodes, x) = Parents(nodes', x)
    BY DEF SameInputs, SameEdges
  <1> QED
    BY <1>1, <1>2 DEF Settled

\* A node that is removed or revised touches its children.
LEMMA DroppedInputs ==
    ASSUME Mutual(nodes), Mutual(nodes'), SameRoots(world, nodes, nodes'), NEW a \in Ids,
           nodes[a].live,
           \A y \in Ids : /\ nodes'[y].live = nodes[y].live \/ (y = a /\ Parents(nodes, a) = {})
                          /\ y # a \/ nodes'[y].live =>
                                \A u \in Ids : nodes'[y].constraints[u] =
                                      IF u = a /\ y \in Retracted(nodes, a) THEN NoRange
                                      ELSE nodes[y].constraints[u],
           NEW x \in Ids, nodes'[x].live, x \notin Retracted(nodes, a),
           x \notin Descendants(nodes, Children(nodes, a)),
           nodes'[x].available = nodes[x].available
    PROVE  SameInputs(world, nodes, nodes', x)
  <1> DEFINE touched == Children(nodes, a)
  <1>1. ASSUME NEW y \in Ids \ touched
        PROVE  /\ Parents(nodes, y) = Parents(nodes', y)
               /\ \A p \in Parents(nodes, y) : nodes[y].constraints[p] = nodes'[y].constraints[p]
    <2>1. y \notin Retracted(nodes, a)
      BY <1>1 DEF Children, Retracted
    <2>2. CASE y # a \/ nodes'[y].live
      <3>1. \A u \in Ids : nodes'[y].constraints[u] = nodes[y].constraints[u]
        BY <2>1, <2>2
      <3>2. CASE nodes'[y].live = nodes[y].live
        BY <3>1, <3>2 DEF Parents, Targets
      <3>3. CASE y = a /\ Parents(nodes, a) = {}
        BY <2>2, <3>1, <3>3 DEF Parents, Targets
      <3> QED
        BY <3>2, <3>3
    <2>3. CASE y = a /\ ~nodes'[y].live
      <3>1. Parents(nodes, a) = {}
        BY <2>3
      <3> QED
        BY <2>3, <3>1 DEF Parents
    <2> QED
      BY <2>2, <2>3
  <1>2. x \notin touched
    <2>1. nodes[x].live
      <3>1. CASE nodes'[x].live = nodes[x].live
        BY <3>1
      <3>2. CASE x = a
        BY <3>2
      <3> QED
        BY <3>1, <3>2
    <2> QED
      BY <2>1 DEF Children, Retracted
  <1>3. touched \in SUBSET Ids
    BY DEF Children, Targets
  <1> HIDE DEF touched
  <1>4. \A p \in Parents(nodes, x) : Above(nodes, p) \cap touched = {}
    BY <1>3, NotBelow DEF touched
  <1> QED
    BY <1>1, <1>2, <1>4, UntouchedInputs

\* Each kind of edit leaves every package that it does not make dirty settled.
LEMMA SettledRemove ==
    ASSUME TypeOK, TypeOK', GraphInv, GraphInv', SelectionsCurrent, NEW a \in Ids, RemoveOrphan(a)
    PROVE  SelectionsCurrent'
  <1>1. /\ world' = world /\ nodes[a].live /\ Parents(nodes, a) = {}
        /\ dirty' = (dirty \ {a}) \cup Descendants(nodes, Children(nodes, a))
                                  \cup (Retracted(nodes, a) \ {a})
    BY DEF RemoveOrphan, IsOrphan
  <1>2. Mutual(nodes) /\ Mutual(nodes') /\ SameRoots(world, nodes, nodes')
    BY <1>1, StepMutual
  <1>3. ASSUME NEW x \in Ids, nodes'[x].live, x \notin dirty'
        PROVE  Settled(x)'
    <2>1. x # a /\ nodes[x].live /\ x \notin dirty
      <3>1. x # a
        BY <1>3, RemovedFields DEF Absent
      <3> QED
        BY <1>1, <1>3, <3>1, RemovedFields
    <2>2. \A y \in Ids : /\ nodes'[y].live = nodes[y].live \/ (y = a /\ Parents(nodes, a) = {})
                         /\ y # a \/ nodes'[y].live =>
                               \A u \in Ids : nodes'[y].constraints[u] =
                                     IF u = a /\ y \in Retracted(nodes, a) THEN NoRange
                                     ELSE nodes[y].constraints[u]
      BY <1>1, RemovedFields DEF Absent
    <2>3. SameSelection(nodes'[x], nodes[x])
      BY <2>1, RemovedFields
    <2>4. SameInputs(world, nodes, nodes', x)
      BY <1>1, <1>2, <1>3, <2>1, <2>2, <2>3, DroppedInputs DEF SameSelection
    <2> QED
      BY <1>1, <2>1, <2>3, <2>4, StaysSettled DEF SelectionsCurrent, SameSelection
  <1> QED
    BY <1>3 DEF SelectionsCurrent

LEMMA SettledChange ==
    ASSUME TypeOK, TypeOK', GraphInv, GraphInv', SelectionsCurrent, NEW a \in Ids, ChangeSelection(a)
    PROVE  SelectionsCurrent'
  <1>1. PICK next \in Versions \cup {None}, pruned \in BOOLEAN :
           /\ Reselects(a, next, pruned)
           /\ nodes' = Revised(a, next, pruned) /\ world' = world
           /\ dirty' = (dirty \ {a}) \cup Descendants(nodes, Children(nodes, a))
                                     \cup Retracted(nodes, a)
    BY DEF ChangeSelection
  <1>2. Mutual(nodes) /\ Mutual(nodes') /\ SameRoots(world, nodes, nodes')
    BY <1>1, StepMutual
  <1>3. nodes \in [Ids -> Nodes] /\ nodes[a].live
    BY <1>1 DEF TypeOK, Reselects
  <1>4. ASSUME NEW y \in Ids
        PROVE  /\ y # a => SameSelection(nodes'[y], nodes[y])
               /\ y = a => /\ nodes'[y].selected = next /\ nodes'[y].pruned = pruned
                           /\ nodes'[y].available = nodes[y].available
               /\ nodes'[y].live = nodes[y].live
               /\ \A u \in Ids : nodes'[y].constraints[u] =
                     IF u = a /\ y \in Retracted(nodes, a) THEN NoRange
                     ELSE nodes[y].constraints[u]
    <2>1. nodes[y].live \in BOOLEAN
      BY <1>3 DEF Nodes
    <2> QED
      BY <1>1, <1>3, <2>1, RevisedFields
  <1>5. ASSUME NEW x \in Ids, nodes'[x].live, x \notin dirty'
        PROVE  Settled(x)'
    <2>1. nodes'[x].available = nodes[x].available
      BY <1>4 DEF SameSelection
    <2>2. SameInputs(world, nodes, nodes', x)
      <3>1. x \notin Retracted(nodes, a) /\ x \notin Descendants(nodes, Children(nodes, a))
        BY <1>1, <1>5
      <3>2. \A y \in Ids : /\ nodes'[y].live = nodes[y].live \/ (y = a /\ Parents(nodes, a) = {})
                           /\ y # a \/ nodes'[y].live =>
                                 \A u \in Ids : nodes'[y].constraints[u] =
                                       IF u = a /\ y \in Retracted(nodes, a) THEN NoRange
                                       ELSE nodes[y].constraints[u]
        BY <1>4
      <3> QED
        BY <1>2, <1>3, <1>5, <2>1, <3>1, <3>2, DroppedInputs
    <2>3. CASE x # a
      BY <1>1, <1>4, <1>5, <2>2, <2>3, StaysSettled DEF SelectionsCurrent, SameSelection
    <2>4. CASE x = a
      <3>1. /\ Selection(world, nodes, x) = Selection(world, nodes', x)
            /\ Refusal(world, nodes, x) = Refusal(world, nodes', x)
            /\ Parents(nodes, x) = Parents(nodes', x)
        BY <2>2, SelectionSame DEF SameInputs, SameEdges
      <3>2. nodes'[x].selected = next /\ nodes'[x].pruned = pruned
        BY <1>4, <2>4
      <3> QED
        BY <1>1, <2>4, <3>1, <3>2 DEF Reselects, IsOrphan, Settled
    <2> QED
      BY <2>3, <2>4
  <1> QED
    BY <1>5 DEF SelectionsCurrent

LEMMA SettledOpens ==
    ASSUME TypeOK, TypeOK', GraphInv, GraphInv', SelectionsCurrent, world' = world,
           NEW a \in Ids, NEW v \in Versions, Opens(a, v)
    PROVE  SelectionsCurrent'
  <1> DEFINE new == world.deps[a][v]
             known == {y \in Targets(new) : nodes[y].metadata # None
                                            \/ (y = a /\ nodes[a].selected # None)}
  <1>1. nodes \in [Ids -> Nodes] /\ new \in Edges /\ \A y \in Ids : ~nodes[y].live => nodes[y] = Absent
    BY WorldEdges DEF TypeOK
  <1>2. Mutual(nodes) /\ Mutual(nodes') /\ SameRoots(world, nodes, nodes')
    BY StepMutual
  <1>3. /\ nodes[a].selected = v /\ v # None
        /\ dirty' = dirty \cup Targets(new) \cup Descendants(nodes, known)
    BY BoundsAssumption DEF Opens, InstallDirties, Versions, None
  <1>4. ASSUME NEW y \in Ids
        PROVE  /\ SameSelection(nodes'[y], nodes[y])
               /\ nodes'[y].live = (nodes[y].live \/ new[y] # NoRange)
               /\ \A u \in Ids : nodes'[y].constraints[u] =
                     IF u = a /\ new[y] # NoRange THEN new[y] ELSE nodes[y].constraints[u]
    BY <1>1, InstalledFields DEF Opens
  <1>5. known \in SUBSET Ids /\ Targets(new) \subseteq Ids
    BY DEF Targets
  <1>6. \A y \in Targets(new) : y \in known \/ Children(nodes, y) = {}
    <2> SUFFICES ASSUME NEW y \in Targets(new), y \notin known
                 PROVE  Children(nodes, y) = {}
      OBVIOUS
    <2>1. nodes[y].metadata = None /\ y # a /\ y \in Ids
      BY <1>3, <1>5
    <2>2. nodes[y].deps = NoEdges
      BY <2>1, BoundsAssumption DEF GraphInv, Opened, Expanded, Versions, None
    <2> QED
      BY <2>2 DEF Children, Targets, NoEdges
  <1>7. \A y \in Ids : y \in Targets(new) <=> new[y] # NoRange
    BY DEF Targets
  <1> HIDE DEF known, new
  <1>8. ASSUME NEW x \in Ids, nodes'[x].live, x \notin dirty'
        PROVE  Settled(x)'
    <2>1. x \notin Targets(new) /\ x \notin Descendants(nodes, known) /\ x \notin dirty
      BY <1>3, <1>8
    <2>2. nodes[x].live /\ SameSelection(nodes'[x], nodes[x])
      BY <1>4, <1>7, <1>8, <2>1
    <2>3. \A y \in Ids \ Targets(new) :
             /\ Parents(nodes, y) = Parents(nodes', y)
             /\ \A p \in Parents(nodes, y) : nodes[y].constraints[p] = nodes'[y].constraints[p]
      <3> SUFFICES ASSUME NEW y \in Ids \ Targets(new)
                   PROVE  /\ Parents(nodes, y) = Parents(nodes', y)
                          /\ \A p \in Parents(nodes, y) :
                                nodes[y].constraints[p] = nodes'[y].constraints[p]
        OBVIOUS
      <3>1. \A u \in Ids : nodes'[y].constraints[u] = nodes[y].constraints[u]
        BY <1>4, <1>7
      <3>2. nodes'[y].live = nodes[y].live
        <4>1. nodes[y].live \in BOOLEAN
          BY <1>1 DEF Nodes
        <4> QED
          BY <1>4, <1>7, <4>1
      <3> QED
        BY <3>1, <3>2 DEF Parents, Targets
    <2>4. ASSUME NEW p \in Parents(nodes, x), NEW y \in Above(nodes, p), y \in Targets(new)
          PROVE  FALSE
      <3>1. p \in Ids /\ x \in Children(nodes, p)
        BY <1>2 DEF Parents, Targets, Mutual
      <3>2. y \notin known
        BY <1>2, <1>5, <2>1, NotBelow
      <3>3. Children(nodes, y) = {}
        BY <1>6, <2>4, <3>2
      <3>4. y = p
        BY <1>2, <3>1, <3>3, ChildlessAbove
      <3> QED
        BY <3>1, <3>3, <3>4
    <2>5. SameInputs(world, nodes, nodes', x)
      BY <1>2, <2>1, <2>2, <2>3, <2>4, UntouchedInputs DEF SameSelection
    <2> QED
      BY <2>1, <2>2, <2>5, StaysSettled DEF SelectionsCurrent, SameSelection
  <1> QED
    BY <1>8 DEF SelectionsCurrent

LEMMA SettledLists ==
    ASSUME TypeOK, TypeOK', GraphInv, GraphInv', SelectionsCurrent, world' = world,
           NEW t \in tasks, Lists(t)
    PROVE  SelectionsCurrent'
  <1>1. Mutual(nodes) /\ Mutual(nodes') /\ SameRoots(world, nodes, nodes')
    BY StepMutual
  <1>2. dirty' = dirty \cup {t.id}
    BY DEF Lists
  <1>3. \A y \in Ids : /\ Parents(nodes, y) = Parents(nodes', y)
                       /\ \A p \in Parents(nodes, y) :
                             nodes[y].constraints[p] = nodes'[y].constraints[p]
    <2> SUFFICES ASSUME NEW y \in Ids
                 PROVE  /\ Parents(nodes, y) = Parents(nodes', y)
                        /\ \A p \in Parents(nodes, y) :
                              nodes[y].constraints[p] = nodes'[y].constraints[p]
      OBVIOUS
    <2>1. nodes'[y].live = nodes[y].live /\ nodes'[y].constraints = nodes[y].constraints
      BY ListsFields
    <2> QED
      BY <2>1 DEF Parents, Targets
  <1>4. ASSUME NEW x \in Ids, nodes'[x].live, x \notin dirty'
        PROVE  Settled(x)'
    <2>1. /\ nodes[x].live /\ x \notin dirty /\ nodes'[x].available = nodes[x].available
          /\ nodes'[x].selected = nodes[x].selected /\ nodes'[x].pruned = nodes[x].pruned
      BY <1>2, <1>4, ListsFields
    <2>2. SameInputs(world, nodes, nodes', x)
      <3> DEFINE touched == {}
      <3>1. x \in Ids \ touched /\ \A p \in Parents(nodes, x) : Above(nodes, p) \cap touched = {}
        OBVIOUS
      <3> QED
        BY <1>1, <1>3, <2>1, <3>1, UntouchedInputs
    <2> QED
      BY <2>1, <2>2, StaysSettled DEF SelectionsCurrent
  <1> QED
    BY <1>4 DEF SelectionsCurrent

LEMMA SettledKeep ==
    ASSUME TypeOK, SelectionsCurrent, NEW a \in Ids, KeepSelection(a)
    PROVE  SelectionsCurrent'
  <1>1. PICK next \in Versions, pruned \in BOOLEAN :
           /\ Reselects(a, next, pruned)
           /\ nodes[a].selected = next /\ nodes[a].pruned = pruned
           /\ dirty' = dirty \ {a} /\ UNCHANGED <<world, nodes>>
    BY DEF KeepSelection
  <1>2. Settled(a)
    BY <1>1 DEF Reselects, IsOrphan, Settled
  <1> QED
    BY <1>1, <1>2 DEF SelectionsCurrent, Settled

LEMMA SettledStep ==
    ASSUME TypeOK, TypeOK', SchedulerSound, Recognised, GraphInv, GraphInv', SelectionsCurrent, Next
    PROVE  SelectionsCurrent'
  <1>1. CASE UNCHANGED <<world, nodes, dirty>>
    BY <1>1 DEF SelectionsCurrent, Settled
  <1> QED
    BY <1>1, Changes, SettledRemove, SettledChange, SettledOpens, SettledLists, SettledKeep

-------------------------------------------------------------------------------
\* Once the owner schedules, no selection waits to be recomputed; once it
\* acquires, nothing is queued or out and every package has a version.
Quiet ==
    /\ pc \in {"schedule", "acquire", "done"} => dirty = {}
    /\ pc \in {"acquire", "done"} =>
          ready = {} /\ tasks = {} /\ \A x \in Exact : nodes[x].selected # None

\* Quiet is inductive.
LEMMA QuietStep ==
    ASSUME TypeOK, Quiet, Next
    PROVE  Quiet'
  <1>1. ASSUME NEW x \in Ids, RemoveOrphan(x) \/ KeepSelection(x) \/ ChangeSelection(x)
        PROVE  pc = "stabilize" /\ pc' = pc
    BY <1>1 DEF RemoveOrphan, KeepSelection, ChangeSelection, Reselects, Popped
  <1>2. ASSUME pc' \in {"stabilize", "failed"}
        PROVE  Quiet'
    BY <1>2 DEF Quiet
  <1>3. ASSUME NEW x \in Ids, NEW v, Install(x, v)
        PROVE  Quiet'
    BY <1>2, <1>3 DEF Install, Fail
  <1>4. ASSUME Fail("unselected") \/ \E kind \in Failures : Fail(kind)
        PROVE  Quiet'
    BY <1>2, <1>4 DEF Fail
  <1>5. ASSUME NEW x \in Ids, FailSelection(x) PROVE Quiet'
    BY <1>2, <1>5 DEF FailSelection, Fail
  <1>6. ASSUME Stabilized PROVE Quiet'
    BY <1>6 DEF Stabilized, Quiet
  <1>7. ASSUME NEW x \in Ids, ReuseMetadata(x) PROVE Quiet'
    BY <1>3, <1>7 DEF ReuseMetadata
  <1>8. ASSUME NEW x \in Ids, Spawn(x) PROVE Quiet'
    BY <1>8 DEF Spawn, Dispatches, Quiet
  <1>9. ASSUME NEW x \in Ids, RejectSource(x) PROVE Quiet'
    BY <1>2, <1>9 DEF RejectSource, Fail
  <1>10. ASSUME NEW t \in tasks, JoinError(t) PROVE Quiet'
    BY <1>2, <1>10 DEF JoinError, Joins, Fail, Quiet
  <1>11. ASSUME NEW t \in tasks, JoinVersions(t) PROVE Quiet'
    BY <1>2, <1>11 DEF JoinVersions
  <1>12. ASSUME NEW t \in tasks, JoinRequirements(t) PROVE Quiet'
    <2>1. t.id \in Ids
      BY DEF TypeOK, Tasks
    <2> QED
      BY <1>2, <1>3, <1>12, <2>1 DEF JoinRequirements
  <1>13. ASSUME BeginAcquisition PROVE Quiet'
    <2>1. CASE \E x \in Exact : nodes[x].selected = None
      BY <1>2, <1>13, <2>1 DEF BeginAcquisition, Fail
    <2>2. CASE \A x \in Exact : nodes[x].selected # None
      <3>1. pc = "schedule" /\ ready = {} /\ tasks = {} /\ UNCHANGED <<nodes, dirty, ready, tasks>>
        BY <1>13, <2>2 DEF BeginAcquisition
      <3> QED
        BY <2>2, <3>1 DEF Quiet, Exact
    <2> QED
      BY <2>1, <2>2
  <1>14. ASSUME UNCHANGED <<nodes, dirty, ready, tasks>>, pc' = pc \/ pc = "acquire"
         PROVE  Quiet'
    BY <1>14 DEF Quiet, Exact
  <1>15. ASSUME NEW x \in Ids, Acquire(x) PROVE Quiet'
    BY <1>2, <1>14, <1>15 DEF Acquire, Fail
  <1>16. ASSUME Return \/ Cancel PROVE Quiet'
    BY <1>2, <1>14, <1>16 DEF Return, Cancel, Fail
  <1> QED
    BY <1>1, <1>2, <1>5, <1>6, <1>7, <1>8, <1>9, <1>10, <1>11, <1>12, <1>13, <1>15, <1>16 DEF Next

\* A version that is selected satisfies the ranges that decide.
LEMMA SelectionAccepted ==
    ASSUME NEW w, NEW ns, NEW x, NEW v \in Selection(w, ns, x), ~IsPinned(w, x)
    PROVE  Accepts(w, ns, x, v)
  BY DEF Selection, Candidates, HighestLower

\* Whatever the selection does not satisfy, the rules of selection set aside.
LEMMA SettledReports ==
    ASSUME TypeOK, NEW x \in Exact, Settled(x), nodes[x].selected # None,
           NEW p \in Parents(nodes, x),
           ~Contains(nodes[x].constraints[p], nodes[x].selected)
    PROVE  Downgraded(p, x)
  <1> DEFINE v == nodes[x].selected
  <1>1. CASE IsDirect(world, x)
    BY <1>1 DEF Downgraded
  <1>2. CASE IsPinned(world, x)
    <2>1. v = world.pins[x]
      BY <1>2 DEF Settled, Selection
    <2>2. \A q \in Parents(nodes, x) : Contains(nodes[x].constraints[q], world.pins[x])
      BY <1>2 DEF Settled, Refusal
    <2> QED
      BY <2>1, <2>2
  <1>3. CASE ~IsDirect(world, x) /\ ~IsPinned(world, x)
    <2>1. v \in Selection(world, nodes, x)
      BY DEF Settled
    <2>2. \A r \in ActiveRanges(world, nodes, x) : Contains(r, v)
      BY <1>3, <2>1, SelectionAccepted DEF Accepts, Deciding
    <2>3. p \notin ActiveParents(world, nodes, x)
      BY <2>2 DEF ActiveRanges
    <2>4. Dominated(world, nodes, x, p)
      BY <2>3 DEF ActiveParents
    <2> QED
      BY <2>4 DEF Downgraded
  <1> QED
    BY <1>1, <1>2, <1>3

-------------------------------------------------------------------------------
CurrentInv == Quiet /\ GraphInv /\ SelectionsCurrent

\* For every graph and every completion order, as long as the generation tells
\* stale results apart: the edges are those of the selected versions, and each
\* live package that is not dirty selects what its constraints select now,
\* however the constraints above its parents have changed since it was computed.
THEOREM SelectionsStayCurrent == Spec /\ []Recognised => []CurrentInv
  <1>1. Init => CurrentInv
    <2>1. Init => Quiet
      BY DEF Init, Quiet
    <2>2. Init => SelectionsCurrent
      BY DEF Init, SelectionsCurrent, Fresh, Absent
    <2> QED
      BY <2>1, <2>2, GraphInit DEF CurrentInv
  <1>2. TypeOK /\ TypeOK' /\ SchedulerSound /\ Recognised /\ CurrentInv /\ [Next]_vars
           => CurrentInv'
    <2>1. CASE UNCHANGED vars
      <3>1. UNCHANGED <<world, pc, nodes, dirty, ready, tasks>>
        BY <2>1 DEF vars
      <3>2. Quiet => Quiet'
        BY <3>1 DEF Quiet, Exact
      <3>3. GraphInv => GraphInv'
        BY <3>1 DEF GraphInv, Opened, Expanded
      <3>4. SelectionsCurrent => SelectionsCurrent'
        BY <3>1 DEF SelectionsCurrent, Settled
      <3> QED
        BY <3>2, <3>3, <3>4 DEF CurrentInv
    <2>2. ASSUME TypeOK, TypeOK', SchedulerSound, Recognised, CurrentInv, Next
          PROVE  CurrentInv'
      BY <2>2, QuietStep, GraphStep, SettledStep DEF CurrentInv
    <2> QED
      BY <2>1, <2>2
  <1> QED
    BY <1>1, <1>2, TypeCorrect, SchedulerSafe, PTL DEF Spec

\* Of every returned graph: a constraint that the selected version of a package
\* does not satisfy is one that collect_downgrades reports, because a direct
\* request or a nearer parent overrides it.
THEOREM DowngradesReported == Spec /\ []Recognised => []NoSilentDowngrade
  <1>1. TypeOK /\ CurrentInv => NoSilentDowngrade
    <2> SUFFICES ASSUME TypeOK, CurrentInv, pc = "done", NEW x \in Exact, NEW p \in Parents(nodes, x),
                        ~Contains(nodes[x].constraints[p], nodes[x].selected)
                 PROVE  Downgraded(p, x)
      BY DEF NoSilentDowngrade
    <2>1. Settled(x) /\ nodes[x].selected # None
      BY DEF CurrentInv, Quiet, SelectionsCurrent, Exact
    <2> QED
      BY <2>1, SettledReports
  <1> QED
    BY <1>1, TypeCorrect, SelectionsStayCurrent, PTL

-------------------------------------------------------------------------------
\* No fetch of a listed version fails.
Reliable == world.flaky = {}

\* A package without its manifest waits for something that will bring it: to be
\* reselected when it has no version, or one that its version list lacks; else to
\* be fetched, or for a task whose answer still counts.
Waits(x) ==
    \/ Expanded(x)
    \/ x \in ready
    \/ /\ x \in dirty
       /\ nodes[x].selected = None
          \/ (nodes[x].available # {} /\ nodes[x].selected \notin nodes[x].available)
    \/ \E t \in tasks : t.id = x /\ ~Stale(t)

WorkInv ==
    /\ pc \in {"stabilize", "schedule"} => \A x \in Exact : Waits(x)
    /\ pc \in {"acquire", "done"} => \A x \in Exact : Expanded(x)

\* What keeps the wait of a package whose node keeps its selection and edges.
SameNode(x) ==
    /\ world' = world /\ SameSelection(nodes'[x], nodes[x])
    /\ nodes'[x].live = nodes[x].live /\ nodes'[x].deps = nodes[x].deps
    /\ nodes'[x].metadata = nodes[x].metadata

\* An edit elsewhere leaves a package waiting as it was.
LEMMA KeepsWaiting ==
    ASSUME NEW x, Waits(x), SameNode(x),
           x \in ready => x \in ready', x \in dirty => x \in dirty',
           \A t \in tasks : t.id = x /\ ~Stale(t) => t \in tasks'
    PROVE  Waits(x)'
  <1>1. Expanded(x) => Expanded(x)'
    BY DEF SameNode, SameSelection, Expanded
  <1>2. \A t \in tasks : t.id = x /\ ~Stale(t) => t \in tasks' /\ ~Stale(t)'
    BY DEF SameNode, SameSelection, Stale
  <1> QED
    BY <1>1, <1>2 DEF Waits, SameNode, SameSelection

\* No step of the stabilization loop forgets a package.
LEMMA WorkStabilize ==
    ASSUME TypeOK, WorkInv, NEW a \in Ids, RemoveOrphan(a) \/ ChangeSelection(a) \/ KeepSelection(a)
    PROVE  WorkInv'
  <1>1. pc = "stabilize" /\ pc' = "stabilize" /\ tasks' = tasks /\ world' = world
    BY DEF RemoveOrphan, ChangeSelection, KeepSelection, Reselects, Popped
  <1> SUFFICES ASSUME NEW x \in Ids, nodes'[x].live, ~nodes'[x].pruned
               PROVE  Waits(x)'
    BY <1>1 DEF WorkInv, Exact
  <1>2. ASSUME x # a, SameNode(x)
        PROVE  Waits(x)'
    <2>1. /\ x \in ready => x \in ready'
          /\ x \in dirty => x \in dirty'
      BY <1>2 DEF RemoveOrphan, ChangeSelection, KeepSelection, Enqueued
    <2>2. x \in Exact
      BY <1>2 DEF SameNode, SameSelection, Exact
    <2> QED
      BY <1>1, <1>2, <2>1, <2>2, KeepsWaiting DEF WorkInv
  <1>3. CASE RemoveOrphan(a)
    <2>1. x # a
      BY <1>3, RemovedFields DEF Absent
    <2> QED
      BY <1>1, <1>2, <1>3, <2>1, RemovedFields DEF SameNode
  <1>4. CASE ChangeSelection(a)
    <2>1. PICK next \in Versions \cup {None}, pruned \in BOOLEAN :
             /\ nodes' = Revised(a, next, pruned) /\ ready' = Enqueued(a, pruned)
             /\ nodes[a].live
      BY <1>4 DEF ChangeSelection, Reselects
    <2>2. CASE x # a
      <3>1. /\ nodes \in [Ids -> Nodes] /\ nodes[x].live \in BOOLEAN
            /\ nodes'[x] = Revised(a, next, pruned)[x]
        BY <2>1 DEF TypeOK, Nodes
      <3>2. LET m == Revised(a, next, pruned)[x]
            IN  /\ SameSelection(m, nodes[x]) /\ m.live = (nodes[x].live \/ x = a)
                /\ m.metadata = nodes[x].metadata /\ m.deps = nodes[x].deps
        BY <2>2, <3>1, RevisedFields
      <3>3. SameNode(x)
        BY <1>1, <2>2, <3>1, <3>2 DEF SameNode
      <3> QED
        BY <1>2, <2>2, <3>3
    <2>3. CASE x = a
      <3>1. ~pruned
        BY <2>1, <2>3, RevisedFields DEF TypeOK
      <3> QED
        BY <2>1, <2>3, <3>1 DEF Waits, Enqueued
    <2> QED
      BY <2>2, <2>3
  <1>5. CASE KeepSelection(a)
    <2>1. PICK next \in Versions, pruned \in BOOLEAN :
             /\ Reselects(a, next, pruned) /\ nodes[a].selected = next
             /\ UNCHANGED <<nodes, ready>>
      BY <1>5 DEF KeepSelection
    <2>2. CASE x # a
      BY <1>1, <1>2, <2>1, <2>2 DEF SameNode, SameSelection
    <2>3. CASE x = a
      <3>1. next # None /\ next \in Selection(world, nodes, a)
        BY <2>1 DEF Reselects, Versions, None
      <3>2. nodes[a].available # {} => next \in nodes[a].available
        <4>1. CASE IsPinned(world, a)
          BY <2>1, <3>1, <4>1 DEF Reselects, Refusal, Selection
        <4>2. CASE ~IsPinned(world, a)
          BY <3>1, <4>2 DEF Selection, Candidates
        <4> QED
          BY <4>1, <4>2
      <3>3. a \in Exact
        BY <2>1, <2>3 DEF Exact
      <3>4. Waits(a) /\ ~(a \in dirty /\ (nodes[a].selected = None
               \/ (nodes[a].available # {} /\ nodes[a].selected \notin nodes[a].available)))
        BY <1>1, <2>1, <3>1, <3>2, <3>3 DEF WorkInv
      <3> QED
        BY <1>1, <2>1, <2>3, <3>4 DEF Waits, Expanded, Stale
    <2> QED
      BY <2>2, <2>3
  <1> QED
    BY <1>3, <1>4, <1>5

\* Installing a manifest expands its package and leaves the children it adds
\* dirty without a version.
LEMMA WorkOpens ==
    ASSUME TypeOK, WorkInv, pc = "schedule", world' = world, NEW a \in Ids, NEW v \in Versions,
           Opens(a, v), ready \ {a} \subseteq ready',
           \A t \in tasks : t.id # a => t \in tasks'
    PROVE  WorkInv'
  <1>1. world.deps[a][v] \in Edges
    BY WorldEdges DEF TypeOK
  <1>2. pc' = "stabilize" /\ nodes[a].live /\ nodes[a].selected = v
        /\ nodes' = Installed(nodes, a, world.deps[a][v])
    BY DEF Opens
  <1> SUFFICES ASSUME NEW x \in Ids, nodes'[x].live, ~nodes'[x].pruned
               PROVE  Waits(x)'
    BY <1>2 DEF WorkInv, Exact
  <1>3. CASE x = a
    <2>1. nodes'[a].metadata = v /\ nodes'[a].selected = v /\ nodes'[a].deps = world.deps[a][v]
      BY <1>1, <1>2, InstalledFields DEF TypeOK, SameSelection
    <2>2. v # None
      BY DEF Versions, None
    <2> QED
      BY <1>3, <2>1, <2>2 DEF Waits, Expanded
  <1>4. CASE x # a /\ nodes[x].live
    <2>1. SameNode(x)
      BY <1>1, <1>2, <1>4, InstalledFields DEF TypeOK, SameNode
    <2>2. x \in Exact
      BY <1>4, <2>1 DEF SameNode, SameSelection, Exact
    <2>3. dirty \subseteq dirty'
      BY DEF Opens
    <2> QED
      BY <1>4, <2>1, <2>2, <2>3, KeepsWaiting DEF WorkInv
  <1>5. CASE x # a /\ ~nodes[x].live
    <2>1. world.deps[a][v][x] # NoRange /\ SameSelection(nodes'[x], nodes[x])
      <3>1. nodes \in [Ids -> Nodes] /\ (~nodes[x].live => nodes[x] = Absent)
        BY DEF TypeOK
      <3>2. LET m == Installed(nodes, a, world.deps[a][v])[x]
            IN  SameSelection(m, nodes[x]) /\ m.live = (nodes[x].live \/ world.deps[a][v][x] # NoRange)
        BY <1>1, <1>2, <3>1, InstalledFields
      <3> QED
        BY <1>2, <1>5, <3>2
    <2>2. x \in dirty'
      BY <2>1 DEF Opens, InstallDirties, Targets
    <2>3. nodes'[x].selected = None
      BY <1>5, <2>1 DEF TypeOK, SameSelection, Absent
    <2> QED
      BY <2>2, <2>3 DEF Waits
  <1> QED
    BY <1>3, <1>4, <1>5

\* A version list that answers a task without a manifest lacks the task's version.
LEMMA WorkLists ==
    ASSUME TypeOK, WorkInv, Quiet, Recognised, Reliable, NEW t \in tasks, JoinVersions(t)
    PROVE  WorkInv'
  <1>1. /\ pc = "schedule" /\ pc' = "stabilize" /\ world' = world /\ ready' = ready
        /\ tasks' = tasks \ {t} /\ nodes' = WithVersions(t)
        /\ dirty' = IF nodes[t.id].live THEN dirty \cup {t.id} ELSE dirty
    BY DEF JoinVersions, Joins, Leave
  <1>2. t.id \in Ids /\ dirty = {}
    BY <1>1 DEF TypeOK, Tasks, Quiet
  <1>3. Listed(t) # {} /\ t.version \notin Listed(t)
    <2>1. Result("versions") \in Results(t)
      BY DEF JoinVersions
    <2>2. /\ <<t.id, t.version>> \notin world.cached /\ ~Published(t) /\ Listed(t) # {}
      BY <2>1, <1>1 DEF Results, Result, Reliable
    <2> QED
      BY <2>2 DEF Published, Listed, CachedVersions
  <1> SUFFICES ASSUME NEW x \in Ids, nodes'[x].live, ~nodes'[x].pruned
               PROVE  Waits(x)'
    BY <1>1 DEF WorkInv, Exact
  <1>4. CASE ~nodes[t.id].live \/ x # t.id
    <2>1. nodes'[x] = nodes[x]
      BY <1>1, <1>2, <1>4 DEF WithVersions, TypeOK
    <2>2. SameNode(x) /\ x \in Exact
      BY <1>1, <2>1 DEF SameNode, SameSelection, Exact
    <2>3. \A s \in tasks : s.id = x /\ ~Stale(s) => s \in tasks'
      BY <1>1, <1>4 DEF Stale
    <2> QED
      BY <1>1, <2>2, <2>3, KeepsWaiting DEF WorkInv
  <1>5. CASE nodes[t.id].live /\ x = t.id
    <2>1. Lists(t)
      BY <1>1, <1>5 DEF Lists, WithVersions
    <2>2. /\ nodes'[x].live = nodes[x].live /\ nodes'[x].deps = nodes[x].deps
          /\ nodes'[x].selected = nodes[x].selected /\ nodes'[x].metadata = nodes[x].metadata
          /\ nodes'[x].pruned = nodes[x].pruned /\ nodes'[x].available = Listed(t)
          /\ nodes'[x].generation = nodes[x].generation
      BY <1>5, <2>1, ListsFields
    <2>3. Waits(x)
      BY <1>1, <2>2 DEF WorkInv, Exact
    <2>4. CASE Expanded(x)
      BY <1>1, <2>2, <2>4 DEF Waits, Expanded
    <2>5. CASE x \in ready
      BY <1>1, <2>5 DEF Waits
    <2>6. ASSUME NEW s \in tasks, s.id = x, ~Stale(s)
          PROVE  Waits(x)'
      <3>1. CASE s = t
        <4>1. nodes[x].selected = t.version
          BY <1>5, <2>6, <3>1 DEF Recognised
        <4> QED
          BY <1>1, <1>3, <1>5, <2>2, <4>1 DEF Waits
      <3>2. CASE s # t
        <4>1. s \in tasks' /\ ~Stale(s)'
          BY <1>1, <2>2, <2>6, <3>2 DEF Stale
        <4> QED
          BY <2>6, <4>1 DEF Waits
      <3> QED
        BY <3>1, <3>2
    <2> QED
      BY <1>2, <2>3, <2>4, <2>5, <2>6 DEF Waits
  <1> QED
    BY <1>4, <1>5

\* No step at all does.
LEMMA WorkStep ==
    ASSUME TypeOK, SchedulerSound, WorkInv, Quiet, Recognised, Reliable, Next
    PROVE  WorkInv'
  <1>1. ASSUME pc' = "failed" PROVE WorkInv'
    BY <1>1 DEF WorkInv
  <1>2. ASSUME NEW x \in Ids, RemoveOrphan(x) \/ KeepSelection(x) \/ ChangeSelection(x)
        PROVE  WorkInv'
    BY <1>2, WorkStabilize
  <1>3. ASSUME NEW x \in Ids, FailSelection(x) \/ RejectSource(x)
        PROVE  WorkInv'
    BY <1>1, <1>3 DEF FailSelection, RejectSource, Fail
  <1>4. ASSUME Stabilized PROVE WorkInv'
    <2>1. pc = "stabilize" /\ pc' = "schedule" /\ UNCHANGED <<world, nodes, dirty, ready, tasks>>
      BY <1>4 DEF Stabilized
    <2> QED
      BY <2>1 DEF WorkInv, Waits, Expanded, Stale, Exact
  <1>5. ASSUME NEW a \in Ids, ReuseMetadata(a) PROVE WorkInv'
    <2>1. /\ pc = "schedule" /\ world' = world /\ nodes[a].live /\ ready' = ready \ {a}
          /\ <<a, nodes[a].selected>> \in metadata
      BY <1>5 DEF ReuseMetadata, Dispatches, Eligible
    <2>2. nodes[a].selected \in Versions
      BY <2>1 DEF TypeOK
    <2>3. CASE <<a, nodes[a].selected>> \in world.duplicated
      BY <1>1, <1>5, <2>3 DEF ReuseMetadata, Install, Fail
    <2>4. CASE <<a, nodes[a].selected>> \notin world.duplicated
      <3>1. Opens(a, nodes[a].selected) /\ tasks' = tasks
        BY <1>5, <2>1, <2>4 DEF ReuseMetadata, Install, Opens
      <3> QED
        BY <2>1, <2>2, <3>1, WorkOpens
    <2> QED
      BY <2>3, <2>4
  <1>6. ASSUME NEW a \in Ids, Spawn(a) PROVE WorkInv'
    <2>0. PICK t : t = [id |-> a, generation |-> nodes[a].generation, version |-> nodes[a].selected]
      OBVIOUS
    <2>1. /\ pc = "schedule" /\ pc' = "schedule" /\ UNCHANGED <<world, nodes, dirty>>
          /\ nodes[a].live /\ ready' = ready \ {a} /\ tasks' = tasks \cup {t}
      BY <1>6, <2>0 DEF Spawn, Dispatches, Eligible
    <2>2. ASSUME NEW x \in Exact PROVE Waits(x)'
      <3>1. CASE x = a
        <4>1. t \in tasks' /\ t.id = a /\ ~Stale(t)'
          BY <2>0, <2>1 DEF Stale
        <4> QED
          BY <3>1, <4>1 DEF Waits
      <3>2. CASE x # a
        <4>1. Waits(x) /\ SameNode(x)
          BY <2>1, <2>2 DEF WorkInv, SameNode, SameSelection
        <4> QED
          BY <2>1, <3>2, <4>1, KeepsWaiting
      <3> QED
        BY <3>1, <3>2
    <2> QED
      BY <2>1, <2>2 DEF WorkInv, Exact
  <1>7. ASSUME NEW t \in tasks, Stale(t), pc = "schedule", tasks' = tasks \ {t},
               UNCHANGED <<world, nodes, dirty>>, ready \subseteq ready',
               pc' \in {"schedule", "stabilize"}
        PROVE  WorkInv'
    <2>1. ASSUME NEW x \in Exact PROVE Waits(x)'
      <3>1. Waits(x) /\ SameNode(x)
        BY <1>7, <2>1 DEF WorkInv, SameNode, SameSelection
      <3>2. \A s \in tasks : s.id = x /\ ~Stale(s) => s \in tasks'
        BY <1>7
      <3> QED
        BY <1>7, <3>1, <3>2, KeepsWaiting
    <2> QED
      BY <1>7, <2>1 DEF WorkInv, Exact
  <1>8. ASSUME NEW t \in tasks, JoinError(t) PROVE WorkInv'
    <2>1. CASE ~Stale(t) /\ Fail("fetch")
      BY <1>1, <2>1 DEF Fail
    <2>2. CASE Stale(t) /\ Leave(t) /\ Requeue(t) /\ UNCHANGED <<pc, failure>>
      <3>1. /\ pc = "schedule" /\ UNCHANGED <<world, nodes, dirty, pc>>
            /\ tasks' = tasks \ {t} /\ ready \subseteq ready'
        BY <1>8, <2>2 DEF JoinError, Joins, Leave, Requeue
      <3> QED
        BY <1>7, <2>2, <3>1
    <2> QED
      BY <1>8, <2>1, <2>2 DEF JoinError
  <1>9. ASSUME NEW t \in tasks, JoinVersions(t) PROVE WorkInv'
    BY <1>9, WorkLists
  <1>10. ASSUME NEW t \in tasks, JoinRequirements(t) PROVE WorkInv'
    <2>1. pc = "schedule" /\ world' = world /\ t.id \in Ids
      BY <1>10 DEF JoinRequirements, Joins, TypeOK, Tasks
    <2>2. CASE Stale(t) /\ Leave(t) /\ Requeue(t) /\ pc' = "stabilize" /\ UNCHANGED <<nodes, dirty>>
      <3>1. tasks' = tasks \ {t} /\ ready \subseteq ready'
        BY <2>2 DEF Leave, Requeue
      <3> QED
        BY <1>7, <2>1, <2>2, <3>1
    <2>3. CASE ~Stale(t) /\ <<t.id, t.version>> \in world.duplicated /\ Install(t.id, t.version)
      BY <1>1, <2>3 DEF Install, Fail
    <2>4. CASE /\ ~Stale(t) /\ Install(t.id, t.version) /\ Leave(t) /\ UNCHANGED ready
               /\ <<t.id, t.version>> \notin world.duplicated
      <3>1. t.version \in Versions
        BY <1>10, RequirementsVersion DEF JoinRequirements
      <3>2. Opens(t.id, t.version)
        BY <2>4 DEF Install, Opens, Stale, Recognised
      <3>3. tasks' = tasks \ {t} /\ ready' = ready
        BY <2>4 DEF Leave
      <3> QED
        BY <2>1, <3>1, <3>2, <3>3, WorkOpens
    <2> QED
      BY <1>10, <2>2, <2>3, <2>4 DEF JoinRequirements
  <1>11. ASSUME BeginAcquisition PROVE WorkInv'
    <2>1. CASE pc' = "failed"
      BY <1>1, <2>1
    <2>2. CASE pc' # "failed"
      <3>1. /\ pc = "schedule" /\ pc' = "acquire" /\ ready = {} /\ tasks = {}
            /\ UNCHANGED <<world, nodes>>
        BY <1>11, <2>2 DEF BeginAcquisition, Fail
      <3>2. \A x \in Exact : Expanded(x)
        BY <3>1 DEF WorkInv, Quiet, Waits
      <3> QED
        BY <3>1, <3>2 DEF WorkInv, Exact, Expanded
    <2> QED
      BY <2>1, <2>2
  <1>12. ASSUME pc = "acquire", pc' \in {"acquire", "done"}, UNCHANGED <<world, nodes>>
         PROVE  WorkInv'
    BY <1>12 DEF WorkInv, Exact, Expanded
  <1>13. ASSUME NEW x \in Ids, Acquire(x) PROVE WorkInv'
    BY <1>1, <1>12, <1>13 DEF Acquire, Fail
  <1>14. ASSUME Return \/ Cancel PROVE WorkInv'
    BY <1>1, <1>12, <1>14 DEF Return, Cancel, Fail
  <1> QED
    BY <1>2, <1>3, <1>4, <1>5, <1>6, <1>8, <1>9, <1>10, <1>11, <1>13, <1>14 DEF Next

\* For every graph in which listed versions can be fetched, WorkInv holds throughout.
LEMMA WorkInvariant == Spec /\ []Recognised /\ []Reliable => []WorkInv
  <1>1. Init => WorkInv
    <2>1. Init => pc = "stabilize" /\ \A x \in Exact : x \in dirty /\ nodes[x].selected = None
      BY DEF Init, Exact, Fresh, Absent
    <2> QED
      BY <2>1 DEF WorkInv, Waits
  <1>2. TypeOK /\ SchedulerSound /\ CurrentInv /\ Recognised /\ Reliable /\ WorkInv /\ [Next]_vars
           => WorkInv'
    <2>1. CASE UNCHANGED vars
      <3>1. UNCHANGED <<world, pc, nodes, dirty, ready, tasks>>
        BY <2>1 DEF vars
      <3> QED
        BY <3>1 DEF WorkInv, Waits, Expanded, Stale, Exact
    <2>2. ASSUME TypeOK, SchedulerSound, CurrentInv, Recognised, Reliable, WorkInv, Next
          PROVE  WorkInv'
      BY <2>2, WorkStep DEF CurrentInv
    <2> QED
      BY <2>1, <2>2
  <1> QED
    BY <1>1, <1>2, TypeCorrect, SchedulerSafe, SelectionsStayCurrent, PTL DEF Spec

\* For every graph in which listed versions can be fetched: a package without the
\* manifest of its version is dirty, queued or out, whatever was revised or
\* removed meanwhile and in whichever order the tasks ended.
THEOREM NothingLost == Spec /\ []Recognised /\ []Reliable => []NoLostWork
  <1>1. SchedulerSound /\ WorkInv => NoLostWork
    BY DEF SchedulerSound, WorkInv, Waits, NoLostWork
  <1> QED
    BY <1>1, SchedulerSafe, WorkInvariant, PTL

\* Then every package of a returned graph carries the manifest of its version.
THEOREM ReturnsComplete == Spec /\ []Recognised /\ []Reliable => []ManifestsComplete
  <1>1. WorkInv => ManifestsComplete
    BY DEF WorkInv, ManifestsComplete
  <1> QED
    BY <1>1, WorkInvariant, PTL

-------------------------------------------------------------------------------
\* A pruned package is never opened: it has no edges, and no task asks for it.
PrunedInv ==
    /\ \A x \in Ids : nodes[x].pruned = IsPruned(world, x, nodes[x].selected)
    /\ \A x \in Ids : nodes[x].pruned => nodes[x].deps = NoEdges
    /\ \A t \in tasks : ~IsPruned(world, t.id, t.version)

\* Opening a package that is not pruned keeps PrunedInv.
LEMMA PrunedOpens ==
    ASSUME TypeOK, PrunedInv, world' = world, NEW a \in Ids, NEW v \in Versions, Opens(a, v),
           ~IsPruned(world, a, v), tasks' \subseteq tasks
    PROVE  PrunedInv'
  <1>1. world.deps[a][v] \in Edges
    BY WorldEdges DEF TypeOK
  <1>2. ASSUME NEW y \in Ids
        PROVE  /\ nodes'[y].pruned = nodes[y].pruned /\ nodes'[y].selected = nodes[y].selected
               /\ y # a => nodes'[y].deps = nodes[y].deps
    <2>1. /\ nodes \in [Ids -> Nodes] /\ (~nodes[y].live => nodes[y] = Absent)
          /\ nodes[a].live /\ nodes' = Installed(nodes, a, world.deps[a][v])
      BY DEF TypeOK, Opens
    <2>2. LET m == Installed(nodes, a, world.deps[a][v])[y]
          IN  SameSelection(m, nodes[y]) /\ (y # a => m.deps = nodes[y].deps)
      BY <1>1, <2>1, InstalledFields
    <2> QED
      BY <2>1, <2>2 DEF SameSelection
  <1>3. ~nodes[a].pruned
    BY DEF PrunedInv, Opens
  <1> QED
    BY <1>2, <1>3 DEF PrunedInv

\* Every step keeps PrunedInv.
LEMMA PrunedStep ==
    ASSUME TypeOK, Recognised, PrunedInv, Next
    PROVE  PrunedInv'
  <1>1. ASSUME UNCHANGED <<world, nodes>>, tasks' \subseteq tasks
        PROVE  PrunedInv'
    BY <1>1 DEF PrunedInv
  <1>2. ASSUME NEW x \in Ids, KeepSelection(x) \/ FailSelection(x)
        PROVE  PrunedInv'
    BY <1>1, <1>2 DEF KeepSelection, FailSelection, Fail
  <1>3. ASSUME NEW x \in Ids, RemoveOrphan(x) PROVE PrunedInv'
    <2>1. world' = world /\ tasks' = tasks
      BY <1>3 DEF RemoveOrphan
    <2>2. ASSUME NEW y \in Ids
          PROVE  /\ nodes'[y].pruned = IsPruned(world, y, nodes'[y].selected)
                 /\ nodes'[y].pruned => nodes'[y].deps = NoEdges
      <3>1. CASE y = x
        <4>1. nodes'[y] = Absent
          BY <1>3, <3>1, RemovedFields
        <4>2. nodes'[y].pruned = FALSE /\ nodes'[y].selected = None
          BY <4>1 DEF Absent
        <4> QED
          BY <4>2 DEF IsPruned
      <3>2. CASE y # x
        BY <1>3, <3>2, RemovedFields DEF PrunedInv, SameSelection
      <3> QED
        BY <3>1, <3>2
    <2> QED
      BY <2>1, <2>2 DEF PrunedInv
  <1>4. ASSUME NEW x \in Ids, ChangeSelection(x) PROVE PrunedInv'
    <2>1. PICK next \in Versions \cup {None}, pruned \in BOOLEAN :
             /\ pruned = IsPruned(world, x, next)
             /\ nodes' = Revised(x, next, pruned) /\ world' = world /\ tasks' = tasks
      BY <1>4 DEF ChangeSelection, Reselects
    <2>2. ASSUME NEW y \in Ids
          PROVE  /\ nodes'[y].pruned = IsPruned(world, y, nodes'[y].selected)
                 /\ nodes'[y].pruned => nodes'[y].deps = NoEdges
      <3>1. nodes \in [Ids -> Nodes]
        BY DEF TypeOK
      <3>2. LET m == Revised(x, next, pruned)[y]
            IN  /\ y # x => SameSelection(m, nodes[y])
                /\ y = x => m.selected = next /\ m.pruned = pruned
                /\ m.deps = IF y = x THEN NoEdges ELSE nodes[y].deps
        BY <3>1, RevisedFields
      <3> QED
        BY <2>1, <3>2 DEF PrunedInv, SameSelection
    <2> QED
      BY <2>1, <2>2 DEF PrunedInv
  <1>5. ASSUME NEW a \in Ids, ReuseMetadata(a) PROVE PrunedInv'
    <2>1. world' = world /\ nodes[a].live /\ ~nodes[a].pruned /\ nodes[a].selected \in Versions
      BY <1>5 DEF ReuseMetadata, Dispatches, Eligible, TypeOK
    <2>2. CASE <<a, nodes[a].selected>> \in world.duplicated
      BY <1>1, <1>5, <2>1, <2>2 DEF ReuseMetadata, Install, Fail
    <2>3. CASE <<a, nodes[a].selected>> \notin world.duplicated
      <3>1. Opens(a, nodes[a].selected) /\ tasks' = tasks
        BY <1>5, <2>1, <2>3 DEF ReuseMetadata, Install, Opens
      <3> QED
        BY <2>1, <3>1, PrunedOpens DEF PrunedInv
    <2> QED
      BY <2>2, <2>3
  <1>6. ASSUME NEW a \in Ids, Spawn(a) PROVE PrunedInv'
    <2>1. PICK t : t = [id |-> a, generation |-> nodes[a].generation, version |-> nodes[a].selected]
      OBVIOUS
    <2>2. ~nodes[a].pruned /\ UNCHANGED <<world, nodes>> /\ tasks' = tasks \cup {t}
      BY <1>6, <2>1 DEF Spawn, Dispatches, Eligible
    <2>3. ~IsPruned(world, t.id, t.version)
      BY <2>1, <2>2 DEF PrunedInv
    <2> QED
      BY <2>2, <2>3 DEF PrunedInv
  <1>7. ASSUME NEW t \in tasks, JoinVersions(t) PROVE PrunedInv'
    <2>1. t.id \in Ids /\ world' = world /\ tasks' \subseteq tasks /\ nodes' = WithVersions(t)
      BY <1>7 DEF JoinVersions, Leave, TypeOK, Tasks
    <2>2. ASSUME NEW y \in Ids
          PROVE  /\ nodes'[y].pruned = nodes[y].pruned /\ nodes'[y].selected = nodes[y].selected
                 /\ nodes'[y].deps = nodes[y].deps
      BY <2>1 DEF WithVersions, TypeOK, Nodes
    <2> QED
      BY <2>1, <2>2 DEF PrunedInv
  <1>8. ASSUME NEW t \in tasks, JoinRequirements(t) PROVE PrunedInv'
    <2>1. world' = world /\ t.id \in Ids /\ t.version \in Versions
      BY <1>8, RequirementsVersion DEF JoinRequirements, TypeOK, Tasks
    <2>2. CASE Leave(t) /\ UNCHANGED nodes
      BY <1>1, <2>1, <2>2 DEF Leave
    <2>3. CASE ~Stale(t) /\ Install(t.id, t.version) /\ <<t.id, t.version>> \in world.duplicated
      BY <1>1, <2>1, <2>3 DEF Install, Fail
    <2>4. CASE /\ ~Stale(t) /\ Install(t.id, t.version) /\ Leave(t)
               /\ <<t.id, t.version>> \notin world.duplicated
      <3>1. Opens(t.id, t.version)
        BY <2>4 DEF Install, Opens, Stale, Recognised
      <3>2. ~IsPruned(world, t.id, t.version) /\ tasks' \subseteq tasks
        BY <2>4 DEF PrunedInv, Leave
      <3> QED
        BY <2>1, <3>1, <3>2, PrunedOpens
    <2> QED
      BY <1>8, <2>2, <2>3, <2>4 DEF JoinRequirements
  <1>9. ASSUME NEW x \in Ids, RejectSource(x) \/ Acquire(x) PROVE PrunedInv'
    BY <1>1, <1>9 DEF RejectSource, Acquire, Fail
  <1>10. ASSUME NEW t \in tasks, JoinError(t) PROVE PrunedInv'
    BY <1>1, <1>10 DEF JoinError, Leave, Fail
  <1>11. ASSUME Stabilized \/ BeginAcquisition \/ Return \/ Cancel PROVE PrunedInv'
    BY <1>1, <1>11 DEF Stabilized, BeginAcquisition, Return, Cancel, Fail
  <1> QED
    BY <1>2, <1>3, <1>4, <1>5, <1>6, <1>7, <1>8, <1>9, <1>10, <1>11 DEF Next

\* For every graph: no pruned package is fetched or opened.
LEMMA PrunedInvariant == Spec /\ []Recognised => []PrunedInv
  <1>1. Init => PrunedInv
    <2>1. ASSUME Init, NEW x \in Ids
          PROVE  nodes[x].pruned = FALSE /\ nodes[x].selected = None
      BY <2>1 DEF Init, Fresh, Absent
    <2>2. Init => tasks = {}
      BY DEF Init
    <2> QED
      BY <2>1, <2>2 DEF PrunedInv, IsPruned
  <1>2. TypeOK /\ Recognised /\ PrunedInv /\ [Next]_vars => PrunedInv'
    <2>1. CASE UNCHANGED vars
      BY <2>1 DEF vars, PrunedInv
    <2> QED
      BY <2>1, PrunedStep
  <1> QED
    BY <1>1, <1>2, TypeCorrect, PTL DEF Spec

-------------------------------------------------------------------------------
\* Where everybody has a predecessor, somebody is below itself.
LEMMA CycleBelow ==
    ASSUME NEW f \in [Ids -> SUBSET Ids], NEW M \in SUBSET Ids, M # {},
           \A y \in M : \E q \in M : y \in f[q]
    PROVE  \E y \in M : y \in Closure(f, f[y])
  <1> SUFFICES ASSUME \A y \in M : y \notin Closure(f, f[y]) PROVE FALSE
    OBVIOUS
  <1> DEFINE Below(y) == Closure(f, f[y])
             N == Cardinality(Ids)
             depth(y) == N - Cardinality(Below(y))
             S == {depth(y) : y \in M}
  <1>1. \A y \in Ids : Below(y) \in SUBSET Ids /\ f[y] \subseteq Below(y) /\ IsClosed(f, Below(y))
    BY ClosureFacts
  <1>2. N \in Nat
    BY IdsAssumption, FS_CardinalityType
  <1>3. \A y \in M : Cardinality(Below(y)) \in Nat /\ depth(y) \in 0..N
    <2> SUFFICES ASSUME NEW y \in M PROVE Cardinality(Below(y)) \in Nat /\ depth(y) \in 0..N
      OBVIOUS
    <2>1. IsFiniteSet(Below(y)) /\ Cardinality(Below(y)) <= N
      BY <1>1, IdsAssumption, FS_Subset
    <2>2. Cardinality(Below(y)) \in Nat
      BY <2>1, FS_CardinalityType
    <2> QED
      BY <1>2, <2>1, <2>2
  <1>4. PICK n \in S : \A k \in S : n <= k
    <2>1. S \subseteq Nat /\ S # {} /\ S \in SUBSET (0..N)
      BY <1>2, <1>3
    <2> HIDE DEF S
    <2>2. IsFiniteSet(S)
      <3>1. IsFiniteSet(0..N)
        BY <1>2, FS_Interval
      <3> QED
        BY <2>1, <3>1, FS_Subset
    <2> QED
      BY <2>1, <2>2, LeastNumber
  <1>5. PICK y \in M : n = depth(y)
    BY <1>4
  <1>6. PICK q \in M : y \in f[q]
    OBVIOUS
  <1>7. Below(y) \subseteq Below(q) /\ y \in Below(q)
    <2>1. y \in Below(q) /\ f[y] \subseteq Below(q) /\ IsClosed(f, Below(q))
      BY <1>1, <1>6 DEF IsClosed
    <2> QED
      BY <2>1, ClosureFacts
  <1>8. Cardinality(Below(y)) < Cardinality(Below(q))
    <2>1. IsFiniteSet(Below(q))
      BY <1>1, IdsAssumption, FS_Subset
    <2>2. Cardinality(Below(y)) <= Cardinality(Below(q)) /\ Below(y) # Below(q)
      BY <1>7, <2>1, FS_Subset
    <2>3. Cardinality(Below(y)) # Cardinality(Below(q))
      BY <1>7, <2>1, <2>2, FS_Subset
    <2> HIDE DEF Below
    <2> QED
      BY <1>3, <2>2, <2>3
  <1>9. depth(q) < depth(y) /\ depth(q) \in S /\ depth(q) \in Nat /\ depth(y) \in Nat
    BY <1>2, <1>3, <1>8
  <1> HIDE DEF S, depth
  <1> QED
    BY <1>4, <1>5, <1>9

\* A graph is returned only after validate_acyclic has accepted it.
Acyclic == pc = "done" => ~HasCycle

\* For every graph: none with a cycle is returned.
LEMMA AcyclicInvariant == Spec => []Acyclic
  <1>1. Init => Acyclic
    BY DEF Init, Acyclic
  <1>2. Acyclic /\ [Next]_vars => Acyclic'
    <2>1. ASSUME nodes' = nodes PROVE HasCycle' = HasCycle
      BY <2>1 DEF HasCycle, Exact, FinalChildren, Children
    <2>2. CASE UNCHANGED vars
      <3>1. nodes' = nodes /\ pc' = pc
        BY <2>2 DEF vars
      <3> QED
        BY <2>1, <3>1 DEF Acyclic
    <2>3. CASE Return
      <3>1. nodes' = nodes /\ (pc' = "done" => ~HasCycle)
        BY <2>3 DEF Return, Fail
      <3> QED
        BY <2>1, <3>1 DEF Acyclic
    <2>4. ASSUME NEW x \in Ids, RemoveOrphan(x) \/ KeepSelection(x) \/ ChangeSelection(x)
          PROVE  pc' = "stabilize"
      BY <2>4 DEF RemoveOrphan, KeepSelection, ChangeSelection, Reselects, Popped
    <2>5. ASSUME NEW x \in Ids, FailSelection(x) \/ RejectSource(x) PROVE pc' = "failed"
      BY <2>5 DEF FailSelection, RejectSource, Fail
    <2>6. ASSUME NEW x, NEW v, Install(x, v) PROVE pc' # "done"
      BY <2>6 DEF Install, Fail
    <2>7. ASSUME NEW x \in Ids, ReuseMetadata(x) PROVE pc' # "done"
      BY <2>6, <2>7 DEF ReuseMetadata
    <2>8. ASSUME NEW x \in Ids, Spawn(x) PROVE pc' # "done"
      BY <2>8 DEF Spawn, Dispatches
    <2>9. ASSUME NEW t \in tasks, JoinError(t) \/ JoinVersions(t) PROVE pc' # "done"
      BY <2>9 DEF JoinError, JoinVersions, Joins, Fail
    <2>10. ASSUME NEW t \in tasks, JoinRequirements(t) PROVE pc' # "done"
      BY <2>6, <2>10 DEF JoinRequirements
    <2>11. ASSUME NEW x \in Ids, Acquire(x) PROVE pc' # "done"
      BY <2>11 DEF Acquire, Fail
    <2>12. ASSUME Stabilized \/ BeginAcquisition \/ Cancel PROVE pc' # "done"
      BY <2>12 DEF Stabilized, BeginAcquisition, Cancel, Fail
    <2> QED
      BY <2>2, <2>3, <2>4, <2>5, <2>7, <2>8, <2>9, <2>10, <2>11, <2>12 DEF Acyclic, Next
  <1> QED
    BY <1>1, <1>2, PTL DEF Spec

\* Without a cycle, whoever the direct requests do not reach has no parent, and
\* the stabilized graph holds no such node: RemoveOrphan took it out.
LEMMA SettledReachable ==
    ASSUME TypeOK, CurrentInv, PrunedInv, Acyclic, pc = "done"
    PROVE  {x \in Ids : nodes[x].live} = Reachable
  <1> DEFINE live == {x \in Ids : nodes[x].live}
             roots == {x \in Ids : IsDirect(world, x)}
             lost == live \ Reachable
             M == lost \cap Exact
             final == [y \in Ids |-> FinalChildren(y)]
  <1>1. ChildrenOf(nodes) \in [Ids -> SUBSET Ids] /\ Reachable = Closure(ChildrenOf(nodes), roots)
    BY DEF ChildrenOf, Children, Targets, Reachable
  <1>2. /\ Reachable \in SUBSET Ids /\ roots \subseteq Reachable
        /\ \A x \in Reachable : Children(nodes, x) \subseteq Reachable
    <2>1. roots \in SUBSET Ids
      OBVIOUS
    <2> QED
      BY <1>1, <2>1, ClosureFacts DEF IsClosed, ChildrenOf
  <1>3. Mutual(nodes)
    BY MutualEdges DEF TypeOK, CurrentInv, GraphInv
  <1>4. \A x \in Ids : x \notin dirty
    BY DEF CurrentInv, Quiet
  <1>5. ASSUME NEW x \in lost
        PROVE  \E p \in M : x \in Children(nodes, p)
    <2>1. Settled(x) /\ ~IsDirect(world, x)
      BY <1>2, <1>4 DEF CurrentInv, SelectionsCurrent
    <2>2. PICK p \in Ids : p \in Parents(nodes, x)
      BY <2>1 DEF Settled, Parents, Targets
    <2>3. x \in Children(nodes, p)
      BY <1>3, <2>2 DEF Mutual
    <2>4. nodes[p].live /\ nodes[p].deps # NoEdges
      BY <2>3 DEF Children, Targets, NoEdges
    <2>5. p \notin Reachable /\ ~nodes[p].pruned
      BY <1>2, <2>3, <2>4 DEF PrunedInv
    <2> QED
      BY <2>3, <2>4, <2>5 DEF Exact
  <1>6. lost = {}
    <2> SUFFICES ASSUME lost # {} PROVE FALSE
      OBVIOUS
    <2>1. M # {} /\ M \in SUBSET Ids
      BY <1>5
    <2>2. final \in [Ids -> SUBSET Ids]
      BY DEF FinalChildren, Children, Targets
    <2>3. \A y \in M : \E q \in M : y \in final[q]
      BY <1>5 DEF FinalChildren, Exact
    <2>4. PICK y \in M : y \in Closure(final, final[y])
      <3> HIDE DEF final, M
      <3> QED
        BY <2>1, <2>2, <2>3, CycleBelow
    <2> QED
      BY <2>4 DEF Acyclic, HasCycle
  <1>7. Reachable \subseteq live
    <2>1. roots \subseteq live
      BY DEF CurrentInv, GraphInv
    <2>2. ASSUME NEW x \in Ids, NEW y \in Children(nodes, x) PROVE nodes[y].live
      <3>1. x \in Parents(nodes, y)
        BY <1>3, <2>2 DEF Mutual, Children, Targets
      <3> QED
        BY <3>1 DEF Parents
    <2>3. IsClosed(ChildrenOf(nodes), live)
      BY <2>2 DEF IsClosed, ChildrenOf, Children, Targets
    <2>4. roots \in SUBSET Ids
      OBVIOUS
    <2> HIDE DEF roots, live
    <2> QED
      BY <1>1, <2>1, <2>3, <2>4, ClosureFacts
  <1> QED
    BY <1>6, <1>7

\* For every graph: unless it is rejected as cyclic, nothing that the direct
\* requests no longer reach is returned.
THEOREM NothingLeftOver == Spec /\ []Recognised => [](failure # "cycle" => NoLeftovers)
  <1>1. TypeOK /\ CurrentInv /\ PrunedInv /\ Acyclic => (failure # "cycle" => NoLeftovers)
    BY SettledReachable DEF NoLeftovers
  <1> QED
    BY <1>1, TypeCorrect, SelectionsStayCurrent, PrunedInvariant, AcyclicInvariant, PTL

-------------------------------------------------------------------------------
\* The inputs for which a resolution of PackageGraphReference and what the code
\* looks at agree: a feed is only asked for the identities mapped to it, the batch
\* remembers what the cache holds, no listed version fails to arrive, and no
\* package is pruned after its versions were listed (the reference never lists
\* those of a pruned one).
Plain ==
    /\ Reliable
    /\ world.batch \subseteq world.cached
    /\ \A x \in Ids \ world.mapped : world.feed[x] = {}
    /\ \A x \in Ids : nodes[x].pruned => nodes[x].available = {}

AllVersions(w, x) == {v \in Versions : v \in w.feed[x] \/ <<x, v>> \in w.cached}

\* Every manifest in the graph was read from the cache or a feed, and a version
\* list is complete.
Sourced ==
    /\ \A x \in Ids : nodes[x].metadata # None => <<x, nodes[x].metadata>> \in metadata
    /\ \A c \in metadata : c[2] \in AllVersions(world, c[1])
    /\ \A x \in Ids : nodes[x].available \in {{}, AllVersions(world, x)}

\* Opening a package whose manifest is remembered keeps Sourced.
LEMMA SourcedOpens ==
    ASSUME TypeOK, Sourced, world' = world, NEW a \in Ids, NEW v \in Versions, Opens(a, v),
           metadata \subseteq metadata', <<a, v>> \in metadata',
           \A c \in metadata' : c \in metadata \/ c[2] \in AllVersions(world, c[1])
    PROVE  Sourced'
  <1>1. world.deps[a][v] \in Edges
    BY WorldEdges DEF TypeOK
  <1>2. ASSUME NEW y \in Ids
        PROVE  /\ nodes'[y].available = nodes[y].available
               /\ nodes'[y].metadata = IF y = a THEN v ELSE nodes[y].metadata
    <2>1. /\ nodes \in [Ids -> Nodes] /\ (~nodes[y].live => nodes[y] = Absent)
          /\ nodes[a].live /\ nodes' = Installed(nodes, a, world.deps[a][v])
          /\ nodes[a].selected = v
      BY DEF TypeOK, Opens
    <2>2. LET m == Installed(nodes, a, world.deps[a][v])[y]
          IN  /\ SameSelection(m, nodes[y])
              /\ m.metadata = IF y = a THEN nodes[a].selected ELSE nodes[y].metadata
      BY <1>1, <2>1, InstalledFields
    <2> QED
      BY <2>1, <2>2 DEF SameSelection
  <1>3. \A c \in metadata' : c[2] \in AllVersions(world, c[1])
    BY DEF Sourced
  <1>4. \A y \in Ids : nodes'[y].metadata # None => <<y, nodes'[y].metadata>> \in metadata'
    BY <1>2 DEF Sourced
  <1> QED
    BY <1>2, <1>3, <1>4 DEF Sourced

\* Every step keeps Sourced.
LEMMA SourcedStep ==
    ASSUME TypeOK, Recognised, Plain, Sourced, Next
    PROVE  Sourced'
  <1>1. ASSUME UNCHANGED <<world, nodes, metadata>> PROVE Sourced'
    BY <1>1 DEF Sourced
  <1>2. ASSUME NEW x \in Ids, KeepSelection(x) \/ FailSelection(x) \/ Spawn(x)
                              \/ RejectSource(x) \/ Acquire(x)
        PROVE  Sourced'
    BY <1>1, <1>2 DEF KeepSelection, FailSelection, Spawn, RejectSource, Acquire, caches
  <1>3. ASSUME Stabilized \/ BeginAcquisition \/ Return \/ Cancel PROVE Sourced'
    BY <1>1, <1>3 DEF Stabilized, BeginAcquisition, Return, Cancel, caches
  <1>4. ASSUME NEW t \in tasks, JoinError(t) PROVE Sourced'
    BY <1>1, <1>4 DEF JoinError, caches
  <1>5. ASSUME UNCHANGED <<world, metadata>>,
               \A y \in Ids : /\ nodes'[y].metadata \in {None, nodes[y].metadata}
                              /\ nodes'[y].available \in {{}, nodes[y].available, AllVersions(world, y)}
        PROVE  Sourced'
    BY <1>5 DEF Sourced
  <1>6. ASSUME NEW x \in Ids, RemoveOrphan(x) PROVE Sourced'
    <2>1. UNCHANGED <<world, metadata>>
      BY <1>6 DEF RemoveOrphan, caches
    <2>2. ASSUME NEW y \in Ids
          PROVE  /\ nodes'[y].metadata \in {None, nodes[y].metadata}
                 /\ nodes'[y].available \in {{}, nodes[y].available}
      <3>1. Absent.metadata = None /\ Absent.available = {}
        BY DEF Absent
      <3> QED
        BY <1>6, <3>1, RemovedFields DEF SameSelection
    <2> QED
      BY <1>5, <2>1, <2>2
  <1>7. ASSUME NEW x \in Ids, ChangeSelection(x) PROVE Sourced'
    <2>1. PICK next \in Versions \cup {None}, pruned \in BOOLEAN :
             nodes' = Revised(x, next, pruned) /\ UNCHANGED <<world, metadata>>
      BY <1>7 DEF ChangeSelection, caches
    <2>2. ASSUME NEW y \in Ids
          PROVE  /\ nodes'[y].metadata \in {None, nodes[y].metadata}
                 /\ nodes'[y].available = nodes[y].available
      <3>1. nodes \in [Ids -> Nodes]
        BY DEF TypeOK
      <3>2. LET m == Revised(x, next, pruned)[y]
            IN  /\ m.available = nodes[y].available
                /\ m.metadata = IF y = x THEN None ELSE nodes[y].metadata
        BY <3>1, RevisedFields DEF SameSelection
      <3> QED
        BY <2>1, <3>2
    <2> QED
      BY <1>5, <2>1, <2>2
  <1>8. ASSUME NEW a \in Ids, ReuseMetadata(a) PROVE Sourced'
    <2>1. /\ UNCHANGED <<world, metadata>> /\ nodes[a].live
          /\ <<a, nodes[a].selected>> \in metadata /\ nodes[a].selected \in Versions
      BY <1>8 DEF ReuseMetadata, Dispatches, Eligible, TypeOK, caches
    <2>2. CASE <<a, nodes[a].selected>> \in world.duplicated
      BY <1>1, <1>8, <2>1, <2>2 DEF ReuseMetadata, Install
    <2>3. CASE <<a, nodes[a].selected>> \notin world.duplicated
      <3>1. Opens(a, nodes[a].selected)
        BY <1>8, <2>1, <2>3 DEF ReuseMetadata, Install, Opens
      <3> QED
        BY <2>1, <3>1, SourcedOpens
    <2> QED
      BY <2>2, <2>3
  <1>9. ASSUME NEW t \in tasks, JoinVersions(t) PROVE Sourced'
    <2>1. t.id \in Ids /\ UNCHANGED <<world, metadata>> /\ nodes' = WithVersions(t)
      BY <1>9 DEF JoinVersions, TypeOK, Tasks, caches
    <2>2. world.feed[t.id] \subseteq Versions
      BY <2>1, WorldsAssumption DEF TypeOK, WorldType
    <2>3. Listed(t) = AllVersions(world, t.id)
      BY <2>1, <2>2 DEF Listed, CachedVersions, AllVersions, Plain
    <2>4. ASSUME NEW y \in Ids
          PROVE  /\ nodes'[y].metadata = nodes[y].metadata
                 /\ nodes'[y].available \in {nodes[y].available, AllVersions(world, y)}
      BY <2>1, <2>3 DEF WithVersions, TypeOK, Nodes
    <2> QED
      BY <1>5, <2>1, <2>4
  <1>10. ASSUME NEW t \in tasks, JoinRequirements(t) PROVE Sourced'
    <2>1. PICK package \in BOOLEAN :
             /\ [kind |-> "requirements", package |-> package] \in Results(t)
             /\ Remember(t, package) /\ world' = world
             /\ \/ UNCHANGED nodes
                \/ ~Stale(t) /\ Install(t.id, t.version)
      BY <1>10 DEF JoinRequirements
    <2>2. t.id \in Ids /\ t.version \in Versions
      BY <1>10, RequirementsVersion DEF JoinRequirements, TypeOK, Tasks
    <2>3. t.version \in AllVersions(world, t.id)
      <3>1. <<t.id, t.version>> \in world.cached \/ Published(t)
        BY <2>1 DEF Results, Result
      <3> QED
        BY <2>2, <3>1 DEF AllVersions, Published
    <2>4. metadata' = metadata \cup {<<t.id, t.version>>}
      BY <2>1 DEF Remember
    <2>5. CASE UNCHANGED nodes
      BY <2>1, <2>3, <2>4, <2>5 DEF Sourced
    <2>6. CASE nodes' # nodes
      <3>1. Opens(t.id, t.version)
        BY <2>1, <2>6 DEF Install, Opens, Stale, Recognised
      <3>2. \A c \in metadata' : c \in metadata \/ c[2] \in AllVersions(world, c[1])
        BY <2>3, <2>4
      <3>3. metadata \subseteq metadata' /\ <<t.id, t.version>> \in metadata'
        BY <2>4
      <3>4. world' = world
        BY <2>1
      <3> QED
        BY <2>2, <3>1, <3>2, <3>3, <3>4, SourcedOpens
    <2> QED
      BY <2>5, <2>6
  <1> QED
    BY <1>2, <1>3, <1>4, <1>6, <1>7, <1>8, <1>9, <1>10 DEF Next

\* For every graph with plain inputs, Sourced holds throughout.
LEMMA SourcedInvariant == Spec /\ []Recognised /\ []Plain => []Sourced
  <1>1. Init /\ Plain => Sourced
    <2> SUFFICES ASSUME Init, Plain PROVE Sourced
      OBVIOUS
    <2>1. \A x \in Ids : nodes[x].metadata = None /\ nodes[x].available = {}
      BY DEF Init, Fresh, Absent
    <2>2. metadata = world.batch /\ world.batch \in SUBSET (Ids \X Versions)
      BY WorldsAssumption DEF Init, WorldType
    <2>3. \A c \in metadata : c[2] \in AllVersions(world, c[1])
      BY <2>2 DEF Plain, AllVersions
    <2> QED
      BY <2>1, <2>3 DEF Sourced
  <1>2. TypeOK /\ Recognised /\ Plain /\ Sourced /\ [Next]_vars => Sourced'
    <2>1. CASE UNCHANGED vars
      BY <2>1 DEF vars, Sourced
    <2> QED
      BY <2>1, SourcedStep
  <1> QED
    BY <1>1, <1>2, TypeCorrect, PTL DEF Spec

-------------------------------------------------------------------------------
\* At most one version is the selection.
LEMMA OneSelection ==
    ASSUME NEW w, w \in WorldType, NEW ns, NEW x \in Ids, NEW v \in Selection(w, ns, x),
           \A r \in Preferences(w, ns, x) : r.lo \in Nat,
           ns[x].available \subseteq Versions
    PROVE  Selection(w, ns, x) = {v}
  <1> SUFFICES ASSUME NEW u \in Selection(w, ns, x), u # v PROVE FALSE
    OBVIOUS
  <1>1. ~IsPinned(w, x)
    BY DEF Selection
  <1>2. Versions \subseteq Nat
    BY BoundsAssumption DEF Versions
  <1>3. CASE ns[x].available # {}
    <2>1. u \in Candidates(w, ns, x) /\ v \in Candidates(w, ns, x)
      BY <1>1, <1>3 DEF Selection
    <2>2. u \in Nat /\ v \in Nat
      BY <1>2, <2>1 DEF Candidates
    <2>3. CASE Preferences(w, ns, x) = {}
      <3>1. v < u /\ u < v
        BY <1>1, <1>3, <2>1, <2>3 DEF Selection
      <3> QED
        BY <2>2, <3>1
    <2>4. CASE Preferences(w, ns, x) # {}
      <3>1. PICK r \in Preferences(w, ns, x) : TRUE
        BY <2>4
      <3>2. IsBetter(r, u, v) /\ IsBetter(r, v, u)
        BY <1>1, <1>3, <2>1, <2>4, <3>1 DEF Selection
      <3> QED
        BY <2>2, <3>1, <3>2 DEF IsBetter
    <2> QED
      BY <2>3, <2>4
  <1>4. CASE ns[x].available = {}
    <2>1. u \in HighestLower(w, ns, x) /\ v \in HighestLower(w, ns, x)
      BY <1>1, <1>4 DEF Selection
    <2>2. u <= v /\ v <= u
      BY <2>1 DEF HighestLower
    <2>3. u \in Nat /\ v \in Nat
      BY <1>2, <2>1 DEF HighestLower
    <2> QED
      BY <2>2, <2>3
  <1> QED
    BY <1>3, <1>4

\* Where the manifest of the highest lower bound was read without listing the
\* versions, listing them would have led to the same version: any other that is
\* acceptable lies above that bound.
LEMMA ListingAgrees ==
    ASSUME NEW w, w \in WorldType, NEW m, NEW n, NEW x \in Ids, SameEdges(w, m, n, x),
           ~IsPinned(w, x), m[x].available = {}, n[x].available \subseteq Versions,
           NEW v \in n[x].available, v \in Selection(w, m, x),
           \A r \in Deciding(w, n, x) : r.lo \in Nat
    PROVE  v \in Selection(w, n, x)
  <1>1. Preferences(w, m, x) = {} /\ v \in HighestLower(w, m, x)
    BY DEF Selection
  <1>2. Preferences(w, n, x) = {} /\ v \in HighestLower(w, n, x)
    BY <1>1, RulesSame
  <1>3. v \in Candidates(w, n, x)
    BY <1>2 DEF Candidates, HighestLower
  <1>4. ASSUME NEW u \in Candidates(w, n, x) \ {v} PROVE v < u
    <2>1. PICK r \in Deciding(w, n, x) : r.loInc /\ r.lo = v
      BY <1>2 DEF HighestLower
    <2>2. Contains(r, u)
      BY <1>4 DEF Candidates, Accepts
    <2>3. u \in Nat /\ v \in Nat
      BY <1>4, BoundsAssumption DEF Candidates, Versions
    <2> QED
      BY <1>4, <2>1, <2>2, <2>3 DEF Contains
  <1> QED
    BY <1>2, <1>3, <1>4 DEF Selection

\* The selected versions as an assignment, and the graph it stands for.
Chosens == [x \in Ids |-> nodes[x].selected]
Restated == GraphOf(world, Chosens)

\* What is known of a returned graph.
Returned ==
    /\ TypeOK /\ CurrentInv /\ WorkInv /\ PrunedInv /\ Acyclic /\ Sourced /\ Plain
    /\ pc = "done"

\* In a returned graph: live means selected, and the edges are those of the manifest.
LEMMA ReturnedNode ==
    ASSUME Returned, NEW x \in Ids
    PROVE  /\ nodes[x].live <=> nodes[x].selected # None
           /\ nodes[x].live => Settled(x)
           /\ nodes[x].pruned <=> IsPruned(world, x, nodes[x].selected)
           /\ nodes[x].live /\ ~nodes[x].pruned =>
                 Expanded(x) /\ nodes[x].selected \in AllVersions(world, x)
           /\ nodes[x].deps = ManifestOf(world, Chosens, x)
  <1>1. nodes[x].pruned <=> IsPruned(world, x, nodes[x].selected)
    BY DEF Returned, PrunedInv, IsPruned
  <1>2. nodes[x].live => Settled(x)
    BY DEF Returned, CurrentInv, Quiet, SelectionsCurrent
  <1>3. ASSUME nodes[x].live, ~nodes[x].pruned
        PROVE  Expanded(x) /\ nodes[x].selected \in AllVersions(world, x)
    <2>1. Expanded(x)
      BY <1>3 DEF Returned, WorkInv, Exact
    <2>2. <<x, nodes[x].selected>> \in metadata
      BY <2>1 DEF Returned, Sourced, Expanded
    <2> QED
      BY <2>1, <2>2 DEF Returned, Sourced
  <1>4. nodes[x].live <=> nodes[x].selected # None
    <2>1. ~nodes[x].live => nodes[x].selected = None
      BY DEF Returned, TypeOK, Absent
    <2>2. nodes[x].live /\ nodes[x].pruned => nodes[x].selected # None
      BY <1>1 DEF IsPruned
    <2> QED
      BY <1>3, <2>1, <2>2 DEF Expanded
  <1>5. nodes[x].deps = ManifestOf(world, Chosens, x)
    <2>1. Chosens[x] = nodes[x].selected
      BY DEF Chosens
    <2>2. CASE ~nodes[x].live
      <3>1. nodes[x].deps = NoEdges
        BY <2>2 DEF Returned, TypeOK, Absent
      <3> QED
        BY <1>4, <2>1, <2>2, <3>1 DEF ManifestOf
    <2>3. CASE nodes[x].live /\ nodes[x].pruned
      BY <1>1, <2>1, <2>3 DEF ManifestOf, Returned, PrunedInv
    <2>4. CASE nodes[x].live /\ ~nodes[x].pruned
      BY <1>1, <1>3, <1>4, <2>1, <2>4 DEF ManifestOf, Expanded
    <2> QED
      BY <2>2, <2>3, <2>4
  <1> QED
    BY <1>1, <1>2, <1>3, <1>4, <1>5

\* The graph of the assignment has the edges of the returned graph.
LEMMA RestatedEdges ==
    ASSUME Returned
    PROVE  /\ \A x \in Ids : SameEdges(world, nodes, Restated, x)
           /\ \A x \in Ids : Restated[x].available = IF nodes[x].pruned THEN {}
                                                     ELSE AllVersions(world, x)
           /\ \A x, p \in Ids : Restated[x].constraints[p] = nodes[x].constraints[p]
  <1>1. ASSUME NEW x \in Ids
        PROVE  /\ Restated[x].live <=> nodes[x].live
               /\ Restated[x].deps = nodes[x].deps
               /\ \A p \in Ids : Restated[x].constraints[p] = nodes[x].constraints[p]
               /\ Restated[x].available = IF nodes[x].pruned THEN {} ELSE AllVersions(world, x)
    <2>1. /\ Restated[x].live = (Chosens[x] # None)
          /\ Restated[x].deps = ManifestOf(world, Chosens, x)
          /\ \A p \in Ids : Restated[x].constraints[p] = ManifestOf(world, Chosens, p)[x]
          /\ Restated[x].available = IF IsPruned(world, x, Chosens[x]) THEN {}
                                     ELSE AllVersions(world, x)
      BY DEF Restated, GraphOf, AllVersions
    <2>2. Chosens[x] = nodes[x].selected
      BY DEF Chosens
    <2>3. \A p \in Ids : nodes[x].constraints[p] = nodes[p].deps[x]
      BY DEF Returned, CurrentInv, GraphInv
    <2> QED
      BY <2>1, <2>2, <2>3, ReturnedNode
  <1>2. Mutual(nodes)
    BY MutualEdges DEF Returned, TypeOK, CurrentInv, GraphInv
  <1>3. \A x \in Ids : Parents(Restated, x) = Parents(nodes, x)
    BY <1>1 DEF Parents, Targets
  <1>4. \A x \in Ids : Children(Restated, x) = Children(nodes, x)
    BY <1>1 DEF Children, Targets
  <1>5. Mutual(Restated)
    BY <1>2, <1>3, <1>4 DEF Mutual
  <1>6. SameRoots(world, nodes, Restated)
    BY <1>1 DEF SameRoots, Returned, CurrentInv, GraphInv
  <1>7. \A p \in Ids : SameAbove(nodes, Restated, p)
    BY <1>3, AboveFacts DEF SameAbove
  <1>8. \A x \in Ids : Parents(nodes, x) \subseteq Ids
    BY DEF Parents, Targets
  <1> QED
    BY <1>1, <1>2, <1>3, <1>5, <1>6, <1>7, <1>8 DEF SameEdges

\* The ranges that decide and prefer are ranges.
LEMMA RangesTyped ==
    ASSUME TypeOK, NEW x \in Ids
    PROVE  /\ \A r \in Deciding(world, nodes, x) : r.lo \in Nat
           /\ \A r \in Preferences(world, nodes, x) : r.lo \in Nat
  <1>1. \A r \in Ranges : r.lo \in Nat
    BY DEF Ranges
  <1>2. IsDirect(world, x) => world.direct[x] \in Ranges
    BY WorldsAssumption DEF TypeOK, WorldType, Edges, IsDirect
  <1>3. ActiveParents(world, nodes, x) \subseteq Parents(nodes, x)
    BY DEF ActiveParents
  <1>4. \A p \in Parents(nodes, x) : nodes[x].constraints[p] \in Ranges
    BY DEF TypeOK, Nodes, Edges, Parents, Targets
  <1>5. \A r \in Deciding(world, nodes, x) : r \in Ranges
    BY <1>2, <1>3, <1>4 DEF Deciding, ActiveRanges
  <1>6. \A r \in Preferences(world, nodes, x) : r \in Ranges
    BY <1>2, <1>3, <1>4 DEF Preferences
  <1> QED
    BY <1>1, <1>5, <1>6

\* In that graph each package selects the version it was returned with, ...
LEMMA RestatedSelects ==
    ASSUME Returned, NEW x \in Ids, nodes[x].live
    PROVE  /\ nodes[x].selected \in Selection(world, Restated, x)
           /\ Selection(world, Restated, x) = {nodes[x].selected}
  <1> DEFINE v == nodes[x].selected
  <1>1. world \in WorldType /\ TypeOK
    BY WorldsAssumption DEF Returned, TypeOK
  <1>2. v \in Selection(world, nodes, x) /\ v # None
    BY ReturnedNode DEF Settled
  <1>3. SameEdges(world, nodes, Restated, x)
    BY RestatedEdges
  <1>4. Restated[x].available \subseteq Versions
    BY RestatedEdges DEF AllVersions
  <1>5. \A r \in Deciding(world, Restated, x) : r.lo \in Nat
    BY <1>1, <1>3, RangesTyped, RulesSame
  <1>6. \A r \in Preferences(world, Restated, x) : r.lo \in Nat
    BY <1>1, <1>3, RangesTyped, RulesSame
  <1>7. CASE nodes[x].available = Restated[x].available
    <2>1. SameInputs(world, nodes, Restated, x)
      BY <1>3, <1>7 DEF SameInputs
    <2>2. v \in Selection(world, Restated, x)
      BY <1>2, <2>1, SelectionSame
    <2> QED
      BY <1>1, <1>4, <1>6, <2>2, OneSelection
  <1>8. CASE nodes[x].available # Restated[x].available
    <2>1. /\ ~nodes[x].pruned /\ nodes[x].available = {}
          /\ Restated[x].available = AllVersions(world, x)
      BY <1>8, RestatedEdges DEF Returned, Sourced, Plain
    <2>2. v \in Restated[x].available
      BY <2>1, ReturnedNode
    <2>3. CASE IsPinned(world, x)
      BY <1>2, <2>3 DEF Selection
    <2>4. CASE ~IsPinned(world, x)
      <3>1. v \in Selection(world, Restated, x)
        BY <1>1, <1>2, <1>3, <1>4, <1>5, <2>1, <2>2, <2>4, ListingAgrees
      <3> QED
        BY <1>1, <1>4, <1>6, <3>1, OneSelection
    <2> QED
      BY <2>3, <2>4
  <1> QED
    BY <1>7, <1>8

\* ... and no pin is refused.
LEMMA RestatedAccepts ==
    ASSUME Returned, NEW x \in Ids, nodes[x].live, IsPinned(world, x)
    PROVE  Refusal(world, Restated, x) = "none"
  <1> DEFINE v == nodes[x].selected
  <1>1. v \in Selection(world, Restated, x) /\ Refusal(world, nodes, x) = "none"
    BY RestatedSelects, ReturnedNode DEF Settled
  <1>2. v = world.pins[x]
    BY <1>1 DEF Selection
  <1>3. Restated[x].available # {} => v \in Restated[x].available
    BY RestatedEdges, ReturnedNode
  <1>4. /\ Parents(Restated, x) = Parents(nodes, x)
        /\ \A p \in Parents(nodes, x) : Restated[x].constraints[p] = nodes[x].constraints[p]
    BY RestatedEdges DEF SameEdges
  <1>5. \A p \in Parents(nodes, x) : Contains(nodes[x].constraints[p], world.pins[x])
    BY <1>1 DEF Refusal
  <1>6. \A p \in Parents(Restated, x) : Contains(Restated[x].constraints[p], world.pins[x])
    BY <1>4, <1>5
  <1> QED
    BY <1>2, <1>3, <1>6 DEF Refusal

\* A returned graph is a resolution.
LEMMA ReturnedResolves ==
    ASSUME Returned
    PROVE  Locked \in Resolutions[world]
  <1>1. TypeOK /\ CurrentInv /\ PrunedInv /\ Acyclic /\ pc = "done"
    BY DEF Returned
  <1>2. Chosens \in Assignments /\ \A x \in Ids : Chosens[x] = nodes[x].selected
    BY <1>1 DEF Chosens, Assignments, TypeOK, Nodes
  <1>3. {x \in Ids : Chosens[x] # None} =
           Closure([x \in Ids |-> Targets(ManifestOf(world, Chosens, x))],
                   {x \in Ids : IsDirect(world, x)})
    <2>1. {x \in Ids : Chosens[x] # None} = Reachable
      <3>1. {x \in Ids : Chosens[x] # None} = {x \in Ids : nodes[x].live}
        BY <1>2, ReturnedNode
      <3> QED
        BY <1>1, <3>1, SettledReachable
    <2>2. ASSUME NEW x \in Ids
          PROVE  Targets(ManifestOf(world, Chosens, x)) = Children(nodes, x)
      <3>1. ~nodes[x].live => nodes[x].deps = NoEdges
        BY <1>1 DEF TypeOK, Absent
      <3>2. Targets(NoEdges) = {}
        BY DEF Targets, NoEdges
      <3> QED
        BY <3>1, <3>2, ReturnedNode DEF Children
    <2>3. [x \in Ids |-> Targets(ManifestOf(world, Chosens, x))] = [x \in Ids |-> Children(nodes, x)]
      BY <2>2
    <2> QED
      BY <2>1, <2>3 DEF Reachable
  <1>4. ASSUME NEW x \in Ids, Chosens[x] # None
        PROVE  /\ Selection(world, GraphOf(world, Chosens), x) = {Chosens[x]}
               /\ IsPinned(world, x) => Refusal(world, GraphOf(world, Chosens), x) = "none"
    <2>1. nodes[x].live
      BY <1>2, <1>4, ReturnedNode
    <2> QED
      BY <1>2, <2>1, RestatedSelects, RestatedAccepts DEF Restated
  <1>5. IsResolution(world, Chosens)
    BY <1>3, <1>4 DEF IsResolution
  <1>6. Locked = Visible(world, Chosens)
    <2>1. ASSUME NEW x \in Ids
          PROVE  (IF x \in Exact THEN nodes[x].selected ELSE None) =
                 (IF IsPruned(world, x, Chosens[x]) THEN None ELSE Chosens[x])
      BY <1>2, ReturnedNode DEF Exact
    <2> QED
      BY <2>1 DEF Locked, Visible
  <1>7. world \in Worlds
    BY <1>1 DEF TypeOK
  <1>8. Resolutions[world] = {Visible(world, chosen) :
                                chosen \in {c \in Assignments : IsResolution(world, c)}}
    BY <1>7 DEF Resolutions
  <1> QED
    BY <1>2, <1>5, <1>6, <1>8

ReturnsResolution == pc = "done" => Locked \in Resolutions[world]

\* For every graph with plain inputs and every completion order: the lock that is
\* returned is a resolution of the inputs.  Each package carries the version its
\* own constraints select in the graph that the returned versions span, and the
\* graph holds what the direct requests reach in it.
THEOREM ResolutionsReturned == Spec /\ []Recognised /\ []Plain => []ReturnsResolution
  <1>1. Plain => Reliable
    BY DEF Plain
  <1>2. TypeOK /\ CurrentInv /\ WorkInv /\ PrunedInv /\ Acyclic /\ Sourced /\ Plain
           => ReturnsResolution
    BY ReturnedResolves DEF ReturnsResolution, Returned
  <1> QED
    BY <1>1, <1>2, TypeCorrect, SelectionsStayCurrent, WorkInvariant, PrunedInvariant,
       AcyclicInvariant, SourcedInvariant, PTL

\* Whatever the completion order: inputs that have at most one resolution are
\* answered by that one.
THEOREM OrderIrrelevant ==
    Spec /\ []Recognised /\ []Plain /\ [](\A a, b \in Resolutions[world] : a = b)
       => []OrderIndependent
  <1>1. ReturnsResolution /\ (\A a, b \in Resolutions[world] : a = b) => OrderIndependent
    BY DEF ReturnsResolution, OrderIndependent
  <1> QED
    BY <1>1, ResolutionsReturned, PTL

-------------------------------------------------------------------------------
Retracts(x) ==
    /\ nodes'[x].generation > nodes[x].generation
    /\ nodes'[x].deps = NoEdges /\ nodes'[x].metadata = None
    /\ \A y \in Ids \ {x} : nodes'[y].constraints[x] = NoRange

\* Only ChangeSelection changes the selection of a package that stays.
LEMMA RetractsStep ==
    ASSUME TypeOK, SchedulerSound, Recognised, GraphInv, Next,
           NEW x \in Ids, nodes[x].live, nodes'[x].live, nodes'[x].selected # nodes[x].selected
    PROVE  Retracts(x)
  <1>1. nodes \in [Ids -> Nodes] /\ \A y \in Ids : ~nodes[y].live => nodes[y] = Absent
    BY DEF TypeOK
  <1>2. ~\E a \in Ids : RemoveOrphan(a)
    <2> SUFFICES ASSUME NEW a \in Ids, RemoveOrphan(a) PROVE FALSE
      OBVIOUS
    <2> QED
      BY RemovedFields DEF SameSelection, Absent
  <1>3. ~\E a \in Ids, v \in Versions : Opens(a, v)
    <2> SUFFICES ASSUME NEW a \in Ids, NEW v \in Versions, Opens(a, v) PROVE FALSE
      OBVIOUS
    <2>1. world.deps[a][v] \in Edges
      BY WorldEdges DEF TypeOK
    <2>2. nodes[a].live /\ nodes' = Installed(nodes, a, world.deps[a][v])
      BY DEF Opens
    <2>3. SameSelection(Installed(nodes, a, world.deps[a][v])[x], nodes[x])
      BY <1>1, <2>1, <2>2, InstalledFields
    <2> QED
      BY <2>2, <2>3 DEF SameSelection
  <1>4. ~\E t \in tasks : Lists(t)
    BY ListsFields
  <1>5. PICK a \in Ids : ChangeSelection(a)
    BY <1>2, <1>3, <1>4, Changes
  <1>6. PICK next \in Versions \cup {None}, pruned \in BOOLEAN : nodes' = Revised(a, next, pruned)
    BY <1>5 DEF ChangeSelection
  <1>7. x = a
    <2> SUFFICES ASSUME x # a PROVE FALSE
      OBVIOUS
    <2>1. SameSelection(Revised(a, next, pruned)[x], nodes[x])
      BY <1>1, RevisedFields
    <2> QED
      BY <1>6, <2>1 DEF SameSelection
  <1>8. /\ nodes'[x].generation = nodes[x].generation + 1
        /\ nodes'[x].deps = NoEdges /\ nodes'[x].metadata = None
    <2>1. LET m == Revised(a, next, pruned)[x]
          IN  m.generation = nodes[x].generation + 1 /\ m.deps = NoEdges /\ m.metadata = None
      BY <1>1, <1>7, RevisedFields
    <2> QED
      BY <1>6, <2>1
  <1>9. nodes[x].generation \in Nat
    BY BoundsAssumption DEF TypeOK, Nodes
  <1>10. ASSUME NEW y \in Ids \ {x} PROVE nodes'[y].constraints[x] = NoRange
    <2>1. nodes'[y].constraints[x] = IF y \in Retracted(nodes, x) THEN NoRange
                                     ELSE nodes[y].constraints[x]
      <3>1. Revised(a, next, pruned)[y].constraints[x] =
               IF x = a /\ y \in Retracted(nodes, a) THEN NoRange ELSE nodes[y].constraints[x]
        BY <1>1, RevisedFields
      <3> QED
        BY <1>6, <1>7, <3>1
    <2>2. CASE y \in Retracted(nodes, x)
      BY <2>1, <2>2
    <2>3. CASE y \notin Retracted(nodes, x)
      <3>1. nodes[x].deps[y] = NoRange \/ ~nodes[y].live
        BY <2>3 DEF Retracted, Targets
      <3>2. nodes[y].constraints[x] = nodes[x].deps[y]
        BY DEF GraphInv
      <3>3. ~nodes[y].live => nodes[y].constraints[x] = NoRange
        BY <1>1 DEF Absent, NoEdges
      <3> QED
        BY <2>1, <2>3, <3>1, <3>2, <3>3
    <2> QED
      BY <2>2, <2>3
  <1> QED
    BY <1>8, <1>9, <1>10 DEF Retracts

\* For every graph: a package whose selection changes loses its edges and its
\* manifest, its former children lose the constraints it put on them, and what is
\* in flight for the old version carries a generation that no longer counts.
THEOREM RevisionsSafe == Spec /\ []Recognised => RevisionsRetract
  <1>1. TypeOK /\ SchedulerSound /\ Recognised /\ CurrentInv /\ [Next]_vars =>
           [\A x \in Ids : nodes[x].live /\ nodes'[x].live
                           /\ nodes'[x].selected # nodes[x].selected =>
               /\ nodes'[x].generation > nodes[x].generation
               /\ nodes'[x].deps = NoEdges /\ nodes'[x].metadata = None
               /\ \A y \in Ids \ {x} : nodes'[y].constraints[x] = NoRange]_vars
    BY RetractsStep DEF Retracts, CurrentInv, vars
  <1> QED
    BY <1>1, TypeCorrect, SchedulerSafe, SelectionsStayCurrent, PTL DEF Spec, RevisionsRetract
===============================================================================
