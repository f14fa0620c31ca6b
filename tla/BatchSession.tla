------------------------------ MODULE BatchSession ------------------------------
(***************************************************************************)
(* The commands that resolve the packages of a batch of projects           *)
(* (package.rs, resolve_package_inputs_with_runtime_graph): project after  *)
(* project, from its lock file when the lock still answers it, else from   *)
(* the package folder, the batch's memory of what earlier projects loaded, *)
(* and the sources.  Commands follow one another over the same folders;    *)
(* between them the user edits projects, at any time a package may leave   *)
(* the folder, and a command may be cancelled or killed at every step.     *)
(*                                                                         *)
(* Module PackageGraph has what this one leaves out of a resolution: the   *)
(* constraints of several parents on one identity.  A requirement here has *)
(* one parent, and asks for its lowest version first.  Module PackageCache *)
(* has how an archive is fetched and published; here that is one step.     *)
(***************************************************************************)
EXTENDS ServiceDiscovery

CONSTANTS
    Ids,            \* package identities, numbered in the order of their names
    MaxVersion,
    MaxWorkers,     \* MAX_DOWNLOAD_WORKERS
    MaxCommands, MaxEdits, MaxClears, MaxFaults,    \* bounds of the exploration
    Absent, NoLock, Torn,
    Worlds          \* the circumstances explored

Versions == 1..MaxVersion
Packages == Ids \X Versions
Archives == {"signed", "plain"}

ASSUME IdsAssumption == Ids \subseteq Nat \ {NoId} /\ IsFiniteSet(Ids)

ASSUME BoundsAssumption ==
    /\ MaxVersion \in Nat /\ MaxWorkers \in Nat /\ ExactRank \in Nat \ {0}
    /\ MaxCommands \in Nat /\ MaxEdits \in Nat /\ MaxClears \in Nat /\ MaxFaults \in Nat

Partial(S, T) == UNION {[D -> T] : D \in SUBSET S}

\* A project: its directory; its references, [low, high, assets] per identity; its
\* target; the other inputs a lock records (RID, runtime graph, pruning data, central
\* versions: "inputs"); its configuration [root, mode, sources, mapping].

\* The projects of a world, as they are and as the user may edit them, and what of
\* them is only compared.
Projects(w) == ToSet(w.specs) \cup w.edits
Targets(w) == {spec.target : spec \in Projects(w)}
Inputs(w) == {spec.inputs : spec \in Projects(w)}
AssetChoices(w) == UNION {{spec.refs[id].assets : id \in DOMAIN spec.refs} : spec \in Projects(w)}

Sources(w) == [name : DOMAIN w.feeds, protocol : {"local", "v2", "v3"},
               index : {"served", "down", "incomplete"}]

LockedRequests(w) == [version : Versions, assets : AssetChoices(w)]
LockedPackages == [version : Versions, archive : Archives, direct : BOOLEAN]

Locks(w) == [target : Targets(w), inputs : Inputs(w), source : DOMAIN w.feeds,
             direct : Partial(Ids, LockedRequests(w)), packages : Partial(Ids, LockedPackages)]

\* A range without a version is refused where it is parsed, and a configuration has a
\* source.
ValidProject(w, spec) ==
    /\ spec.dir \in w.dirs
    /\ DOMAIN spec.refs \subseteq Ids
    /\ \A id \in DOMAIN spec.refs : /\ spec.refs[id].low \in Versions
                                    /\ spec.refs[id].high \in Nat
                                    /\ spec.refs[id].low <= spec.refs[id].high
    /\ spec.config.root \in w.roots
    /\ spec.config.sources \in Seq(Sources(w)) \ {<<>>}
    /\ ValidConfiguration(spec.config)

\* What several constraints on one identity come to is left to module PackageGraph:
\* here the requirements of an identity agree, and no reference asks for less.
RequirementsAgree(w) ==
    \A key \in DOMAIN w.manifests : \A id \in DOMAIN w.manifests[key] :
       /\ \A other \in DOMAIN w.manifests :
             other[1] = key[1] /\ id \in DOMAIN w.manifests[other]
                => w.manifests[other][id] = w.manifests[key][id]
       /\ \A spec \in Projects(w) :
             spec.target = key[1] /\ id \in DOMAIN spec.refs
                => w.manifests[key][id] <= spec.refs[id].low

ASSUME WorldsAssumption ==
    \A w \in Worlds :
       /\ w.specs \in Seq(Projects(w))
       /\ \A spec \in Projects(w) : ValidProject(w, spec)
       /\ \A name \in DOMAIN w.feeds : /\ DOMAIN w.feeds[name] \subseteq Packages
                                       /\ \A package \in DOMAIN w.feeds[name] :
                                             w.feeds[name][package] \in Archives
       /\ DOMAIN w.manifests \subseteq Targets(w) \X Packages
       /\ \A key \in DOMAIN w.manifests : w.manifests[key] \in Partial(Ids, Versions)
       /\ RequirementsAgree(w)
       /\ w.online \subseteq BOOLEAN /\ w.writes \subseteq BOOLEAN
       /\ Torn \notin Locks(w) \cup {NoLock}

ASSUME AbsentAssumption == Absent \notin Archives

VARIABLES
    world,          \* what never changes: the feeds, the manifests, the possible edits
    specs,          \* the evaluated projects of the batch, in order
    cache,          \* per package folder: the archive each package was extracted from
    locks,          \* per directory: its dv.lock.json
    session,        \* the command that runs
    batch,          \* BatchMetadataCache: per target, identity and version in a folder
    budget,         \* how often the environment may still act
    wrote           \* history: per directory, the project its lock was written for

vars == <<world, specs, cache, locks, session, batch, budget, wrote, discovery>>

Now == specs[session.project]
Config == Now.config
Folder(spec) == cache[spec.config.root]

\* The dependencies a manifest has for a target.
Dependencies(target, package) ==
    IF <<target, package>> \in DOMAIN world.manifests
    THEN world.manifests[<<target, package>>]
    ELSE <<>>
Feed(s) == world.feeds[Config.sources[s].name]

NoError == [kind |-> "none", what |-> 0]
Error(kind, what) == [kind |-> kind, what |-> what]

Resting == [at |-> "ended", project |-> 0, online |-> FALSE, writes |-> TRUE, nodes |-> <<>>, tasks |-> <<>>,
            got |-> <<>>, final |-> <<>>, answers |-> <<>>, error |-> NoError,
            fetched |-> {}]

Ended == session.at = "ended"
Fail(kind, what) == session' = [session EXCEPT !.at = "ended", !.error = Error(kind, what)]

(***************************************************************************)
(* The lock                                                                *)
(***************************************************************************)

\* The mutant's bug: the direct packages of the lock are all its packages.
LockDirects_AllPackages(spec, final) ==
    [id \in DOMAIN final |-> [version |-> final[id].version, assets |-> 1]]

\* The requests of the project, at the versions they were resolved to.
LockDirects(spec, final) ==
    [id \in DOMAIN spec.refs |-> [version |-> final[id].version, assets |-> spec.refs[id].assets]]

HasSource(spec, name) == \E s \in DOMAIN spec.config.sources : spec.config.sources[s].name = name

\* The source of a lock is that of the first package this command fetched, if the
\* project has it, else the first one configured; without any, no configuration is valid.
LockOf(spec, final) ==
    LET fetched == {id \in DOMAIN final : final[id].origin # Absent}
        origin == final[Min(fetched)].origin
    IN  [target |-> spec.target, inputs |-> spec.inputs,
         source |-> IF fetched # {} /\ HasSource(spec, origin)
                    THEN origin
                    ELSE spec.config.sources[1].name,
         direct |-> LockDirects(spec, final),
         packages |-> [id \in DOMAIN final |->
                          [version |-> final[id].version, archive |-> final[id].archive,
                           direct |-> id \in DOMAIN spec.refs]]]

InRange(version, ref) == ref.low <= version /\ version <= ref.high

\* The mutants' bugs: a reference is compared by identity alone; the target is not
\* compared.
DirectMatches_ById(lock, spec) == DOMAIN lock.direct = DOMAIN spec.refs

DirectMatches(lock, spec) ==
    /\ DOMAIN lock.direct = DOMAIN spec.refs
    /\ \A id \in DOMAIN spec.refs : /\ lock.direct[id].assets = spec.refs[id].assets
                                    /\ InRange(lock.direct[id].version, spec.refs[id])

LockMatches_AnyTarget(lock, spec) ==
    /\ lock.inputs = spec.inputs
    /\ DirectMatches(lock, spec)
    /\ HasSource(spec, lock.source)

\* Otherwise the lock is stale, which is no error.
LockMatches(lock, spec) ==
    /\ lock.target = spec.target
    /\ lock.inputs = spec.inputs
    /\ DirectMatches(lock, spec)
    /\ HasSource(spec, lock.source)

\* The mutant's bug: the signatures of locked packages are taken on trust.
LockedUnsigned_Trusted(lock, spec) == {}

\* The hash of the lock is decoded, and not compared with the folder's.
LockedUnsigned(lock, spec) ==
    IF spec.config.mode # "require"
    THEN {}
    ELSE {id \in DOMAIN lock.packages : Folder(spec)[<<id, lock.packages[id].version>>] = "plain"}

LockedAbsent(lock, spec) ==
    {id \in DOMAIN lock.packages : Folder(spec)[<<id, lock.packages[id].version>>] = Absent}

Omitted(lock, spec) ==
    {id \in DOMAIN spec.refs : ~ /\ id \in DOMAIN lock.packages
                                 /\ lock.packages[id].direct
                                 /\ InRange(lock.packages[id].version, spec.refs[id])}

\* read_warm_lock: "cold", "warm", or why the command fails.  Which of two packages that
\* fail for different reasons is read first is left out.
ReadWarmLock(spec) ==
    LET lock == locks[spec.dir]
    IN  IF lock = NoLock THEN "cold"
        ELSE IF lock = Torn THEN "torn"
        ELSE IF ~LockMatches(lock, spec) THEN "cold"
        ELSE IF LockedAbsent(lock, spec) # {} THEN "absent"
        ELSE IF LockedUnsigned(lock, spec) # {} THEN "unsigned"
        ELSE IF Omitted(lock, spec) # {} THEN "omitted"
        ELSE "warm"

\* What a project is told: the packages, the archives it is told they came from and
\* those in the folder, and the target and the asset choices the assets are for.
WarmAnswer(spec) ==
    LET lock == locks[spec.dir]
    IN  [spec |-> spec, target |-> lock.target,
         assets |-> [id \in DOMAIN lock.direct |-> lock.direct[id].assets],
         packages |-> [id \in DOMAIN lock.packages |->
             [version |-> lock.packages[id].version, archive |-> lock.packages[id].archive,
              folder |-> Folder(spec)[<<id, lock.packages[id].version>>]]]]

ColdAnswer(spec, final) ==
    [spec |-> spec, target |-> spec.target,
     assets |-> [id \in DOMAIN spec.refs |-> spec.refs[id].assets],
     packages |-> [id \in DOMAIN final |->
         [version |-> final[id].version, archive |-> final[id].archive,
          folder |-> Folder(spec)[<<id, final[id].version>>]]]]

\* The batch goes on with its next project.
Answer(answer) ==
    session' = [session EXCEPT !.at = "project", !.project = @ + 1,
                               !.answers = Append(@, answer), !.fetched = {}]

(***************************************************************************)
(* The command                                                             *)
(***************************************************************************)

Init ==
    /\ world \in Worlds
    /\ specs = world.specs
    /\ cache = [root \in world.roots |-> [package \in Packages |-> Absent]]
    /\ locks = [dir \in world.dirs |-> NoLock]
    /\ session = Resting
    /\ batch = <<>>
    /\ budget = [commands |-> MaxCommands, edits |-> MaxEdits, clears |-> MaxClears,
                 faults |-> MaxFaults]
    /\ wrote = [dir \in world.dirs |-> NoLock]
    /\ discovery = Undiscovered

\* A command starts, with or without --offline; one that only plans writes no lock.
Start ==
    /\ Ended
    /\ budget.commands > 0
    /\ budget' = [budget EXCEPT !.commands = @ - 1]
    /\ \E online \in world.online, writes \in world.writes :
          session' = [Resting EXCEPT !.at = "project", !.project = 1, !.online = online,
                                     !.writes = writes]
    /\ batch' = <<>>
    /\ discovery' = Undiscovered
    /\ UNCHANGED <<world, specs, cache, locks, wrote>>

AtProject == session.at = "project" /\ session.project <= Len(specs)

Finish ==
    /\ session.at = "project"
    /\ session.project > Len(specs)
    /\ session' = [session EXCEPT !.at = "ended"]
    /\ UNCHANGED <<world, specs, cache, locks, batch, budget, wrote, discovery>>

\* A project without references is told so, whatever its lock says.
AnswerEmpty ==
    /\ AtProject
    /\ DOMAIN Now.refs = {}
    /\ Answer(ColdAnswer(Now, <<>>))
    /\ UNCHANGED <<world, specs, cache, locks, batch, budget, wrote, discovery>>

AnswerWarm ==
    /\ AtProject
    /\ DOMAIN Now.refs # {}
    /\ ReadWarmLock(Now) = "warm"
    /\ Answer(WarmAnswer(Now))
    /\ UNCHANGED <<world, specs, cache, locks, batch, budget, wrote, discovery>>

RejectLock ==
    /\ AtProject
    /\ DOMAIN Now.refs # {}
    /\ ReadWarmLock(Now) \notin {"cold", "warm"}
    /\ Fail(ReadWarmLock(Now), session.project)
    /\ UNCHANGED <<world, specs, cache, locks, batch, budget, wrote, discovery>>

\* A node is [low, high, state, version]; its first version is the lowest it may have.
Node(low, high) == [low |-> low, high |-> high, state |-> "ready", version |-> low]

BeginGraph ==
    /\ AtProject
    /\ DOMAIN Now.refs # {}
    /\ ReadWarmLock(Now) = "cold"
    /\ session' = [session EXCEPT !.at = "graph",
                      !.nodes = [id \in DOMAIN Now.refs |->
                                    Node(Now.refs[id].low, Now.refs[id].high)],
                      !.tasks = <<>>, !.got = <<>>, !.final = <<>>, !.fetched = {}]
    /\ discovery' = Undiscovered
    /\ UNCHANGED <<world, specs, cache, locks, batch, budget, wrote>>

(***************************************************************************)
(* The graph of one project                                                *)
(***************************************************************************)

With(f, x, value) == [y \in DOMAIN f \cup {x} |-> IF y = x THEN value ELSE f[y]]
Without(f, x) == [y \in DOMAIN f \ {x} |-> f[y]]

Version(id) == session.nodes[id].version
Package(id) == <<id, Version(id)>>
Pick(id, archive, origin) == [version |-> Version(id), archive |-> archive, origin |-> origin]
InState(state) == {id \in DOMAIN session.nodes : session.nodes[id].state = state}

\* The mutant's bug: the memory is not kept apart by target.
Key_AnyTarget(id) == <<Config.root, Package(id)>>

Key(id) == <<Config.root, Now.target, Package(id)>>

\* The owner takes ready nodes, in order, while there are workers.
Dispatches(id) ==
    /\ session.at = "graph"
    /\ Cardinality(DOMAIN session.tasks) < MaxWorkers
    /\ InState("ready") # {}
    /\ id = Min(InState("ready"))

\* The dependencies of a known node become nodes.
Known(nodes, id, dependencies) ==
    [x \in DOMAIN nodes \cup DOMAIN dependencies |->
        IF x \in DOMAIN nodes
        THEN [nodes[x] EXCEPT !.state = IF x = id THEN "known" ELSE @]
        ELSE Node(dependencies[x], MaxVersion)]

\* Dependencies an earlier project of the batch read: nothing is looked up.
Reuse ==
    /\ \E id \in DOMAIN session.nodes :
          /\ Dispatches(id)
          /\ Key(id) \in DOMAIN batch
          /\ session' = [session EXCEPT !.nodes = Known(@, id, batch[Key(id)].dependencies)]
    /\ UNCHANGED <<world, specs, cache, locks, batch, budget, wrote, discovery>>

Task(endpoints) == [endpoints |-> endpoints, result |-> "none", versions |-> {},
                    archive |-> Absent, origin |-> 0]

\* A task with the endpoints known when it starts.
Spawned(id, endpoints) ==
    [session EXCEPT !.at = "graph", !.nodes[id].state = "loading",
                    !.tasks = With(@, id, Task(endpoints))]

\* A package in the folder needs no source.
LoadCached ==
    /\ \E id \in DOMAIN session.nodes :
          /\ Dispatches(id)
          /\ Key(id) \notin DOMAIN batch
          /\ Folder(Now)[Package(id)] # Absent
          /\ session' = Spawned(id, discovery.snapshot)
    /\ UNCHANGED <<world, specs, cache, locks, batch, budget, wrote, discovery>>

\* Any other does, and its sources are discovered first; the tasks run on meanwhile.
Workers == MaxWorkers - Cardinality(DOMAIN session.tasks)

Discover ==
    /\ \E id \in DOMAIN session.nodes :
          /\ Dispatches(id)
          /\ Key(id) \notin DOMAIN batch
          /\ Folder(Now)[Package(id)] = Absent
          /\ IF Unmapped(Config, id)
             THEN Fail("unmapped", id) /\ UNCHANGED discovery
             ELSE /\ session' = [session EXCEPT !.at = "discovery"]
                  /\ EnsureIdentity(Config, id, session.online, Workers)
    /\ UNCHANGED <<world, specs, cache, locks, batch, budget, wrote>>

Arrive ==
    /\ session.at = "discovery"
    /\ \E s \in DOMAIN Config.sources : IndexArrives(s, Workers)
    /\ UNCHANGED <<world, specs, cache, locks, session, batch, budget, wrote>>

Discovered ==
    /\ session.at = "discovery"
    /\ AllArrived
    /\ FirstFailure(Config) = 0
    /\ Settle(Config)
    /\ session' = Spawned(discovery.asked, discovery'.snapshot)
    /\ UNCHANGED <<world, specs, cache, locks, batch, budget, wrote>>

DiscoveryFails ==
    /\ session.at = "discovery"
    /\ AllArrived
    /\ FirstFailure(Config) # 0
    /\ Fail("discovery", FirstFailure(Config))
    /\ UNCHANGED <<world, specs, cache, locks, batch, budget, wrote, discovery>>

\* The endpoints a task may ask for an identity, by their places in its order.
Endpoints(id, endpoints) == {j \in DOMAIN endpoints : endpoints[j] \in SelectedSources(Config, id)}

CachedVersions(id) == {v \in Versions : Folder(Now)[<<id, v>>] # Absent}
OfferedVersions(id, sources) ==
    UNION {{v \in Versions : <<id, v>> \in DOMAIN Feed(s)} : s \in sources}

\* The mutant's bug: a package already in the folder is not verified again.
Refused_FreshOnly(archive, cached) ==
    ~cached /\ Config.mode = "require" /\ archive = "plain"

Refused(archive, cached) == Config.mode = "require" /\ archive = "plain"

\* What one task finds for a package: its requirements, with the archive if it was
\* fetched; the versions there are instead; or an error.
Loaded(task, id) ==
    LET package == Package(id)
        cached == Folder(Now)[package]
        asked == Endpoints(id, task.endpoints)
        offering == {j \in asked : package \in DOMAIN Feed(task.endpoints[j])}
        first == task.endpoints[Min(offering)]
        versions == CachedVersions(id) \cup OfferedVersions(id, {task.endpoints[j] : j \in asked})
    IN  CASE cached # Absent ->
               [task EXCEPT !.result = IF Refused(cached, TRUE) THEN "unsigned" ELSE "requirements"]
          [] cached = Absent /\ Unmapped(Config, id) -> [task EXCEPT !.result = "unmapped"]
          [] cached = Absent /\ ~Unmapped(Config, id) /\ offering # {} ->
               LET archive == Feed(first)[package]
               IN  IF Refused(archive, FALSE)
                   THEN [task EXCEPT !.result = "unsigned"]
                   ELSE [task EXCEPT !.result = "requirements", !.archive = archive,
                                     !.origin = first]
          [] OTHER ->
               IF versions = {}
               THEN [task EXCEPT !.result = "missing"]
               ELSE [task EXCEPT !.result = "versions", !.versions = versions]

\* An archive that was fetched is published to the folder.
Published(task, package) ==
    IF task.archive = Absent
    THEN cache
    ELSE [cache EXCEPT ![Config.root][package] = task.archive]

\* A task does its work, whatever its owner waits for.
Load(id) ==
    /\ session.at \in {"graph", "discovery"}
    /\ id \in DOMAIN session.tasks
    /\ session.tasks[id].result = "none"
    /\ LET task == Loaded(session.tasks[id], id)
       IN  /\ session' = [session EXCEPT !.tasks[id] = task,
                             !.fetched = IF task.origin = 0 THEN @ ELSE @ \cup {<<id, task.origin>>}]
           /\ cache' = Published(task, Package(id))
    /\ UNCHANGED <<world, specs, locks, batch, budget, wrote, discovery>>

\* The owner joins a finished task when it can start no other.
Joins(id) ==
    /\ session.at = "graph"
    /\ InState("ready") = {} \/ Cardinality(DOMAIN session.tasks) = MaxWorkers
    /\ id \in DOMAIN session.tasks
    /\ session.tasks[id].result # "none"

\* The batch keeps what it knows of a key, and adds an archive where it had none.
Remembered(id, dependencies, archive, origin) ==
    LET entry == [dependencies |-> dependencies, archive |-> archive, origin |-> origin]
    IN  IF Key(id) \notin DOMAIN batch
        THEN With(batch, Key(id), entry)
        ELSE [batch EXCEPT ![Key(id)] =
                 IF @.archive = Absent THEN [@ EXCEPT !.archive = archive, !.origin = origin] ELSE @]

\* The source a task fetched from, Absent when it fetched nothing.
Origin(task) == IF task.origin = 0 THEN Absent ELSE Config.sources[task.origin].name

JoinRequirements ==
    /\ \E id \in DOMAIN session.tasks :
          /\ Joins(id)
          /\ session.tasks[id].result = "requirements"
          /\ LET task == session.tasks[id]
                 dependencies == Dependencies(Now.target, Package(id))
             IN  /\ batch' = Remembered(id, dependencies, task.archive, Origin(task))
                 /\ session' = [session EXCEPT
                       !.nodes = Known(@, id, dependencies), !.tasks = Without(@, id),
                       !.got = IF task.archive = Absent THEN @
                               ELSE With(@, id, Pick(id, task.archive, Origin(task)))]
    /\ UNCHANGED <<world, specs, cache, locks, budget, wrote, discovery>>

\* The version asked for is not to be had: the lowest one that is allowed is next.
JoinVersions ==
    /\ \E id \in DOMAIN session.tasks :
          /\ Joins(id)
          /\ session.tasks[id].result = "versions"
          /\ LET node == session.nodes[id]
                 allowed == {v \in session.tasks[id].versions : InRange(v, node)}
             IN  IF allowed = {}
                 THEN Fail("noVersion", id)
                 ELSE session' = [session EXCEPT !.tasks = Without(@, id),
                                     !.nodes[id].version = Min(allowed),
                                     !.nodes[id].state = "ready"]
    /\ UNCHANGED <<world, specs, cache, locks, batch, budget, wrote, discovery>>

JoinError ==
    /\ \E id \in DOMAIN session.tasks :
          /\ Joins(id)
          /\ session.tasks[id].result \in {"unsigned", "unmapped", "missing"}
          /\ Fail(session.tasks[id].result, id)
    /\ UNCHANGED <<world, specs, cache, locks, batch, budget, wrote, discovery>>

(***************************************************************************)
(* The packages of the finished graph                                      *)
(***************************************************************************)

BeginAcquire ==
    /\ session.at = "graph"
    /\ InState("known") = DOMAIN session.nodes
    /\ session' = [session EXCEPT !.at = "acquire", !.final = session.got]
    /\ UNCHANGED <<world, specs, cache, locks, batch, budget, wrote, discovery>>

Wanted == DOMAIN session.nodes \ DOMAIN session.final

Final(id, archive, origin) ==
    [session EXCEPT !.final = With(@, id, Pick(id, archive, origin))]

\* An archive the batch knows is taken as it is.
AcquireShared ==
    /\ session.at = "acquire"
    /\ \E id \in Wanted : /\ Key(id) \in DOMAIN batch
                          /\ batch[Key(id)].archive # Absent
                          /\ session' = Final(id, batch[Key(id)].archive, batch[Key(id)].origin)
    /\ UNCHANGED <<world, specs, cache, locks, batch, budget, wrote, discovery>>

\* ensure_package: a package of the folder is verified; one that has left it since is
\* fetched again, from the endpoints of the graph.
Acquire ==
    /\ session.at = "acquire"
    /\ \E id \in Wanted :
          /\ IF Key(id) \in DOMAIN batch THEN batch[Key(id)].archive = Absent ELSE TRUE
          /\ LET task == Loaded(Task(discovery.snapshot), id)
                 archive == IF task.archive = Absent THEN Folder(Now)[Package(id)] ELSE task.archive
             IN  IF task.result = "requirements"
                 THEN /\ session' = [Final(id, archive, Origin(task)) EXCEPT
                             !.fetched = IF task.origin = 0 THEN @ ELSE @ \cup {<<id, task.origin>>}]
                      /\ cache' = Published(task, Package(id))
                      /\ batch' = IF Key(id) \in DOMAIN batch
                                  THEN [batch EXCEPT ![Key(id)].archive = archive,
                                                    ![Key(id)].origin = Origin(task)]
                                  ELSE batch
                 ELSE /\ Fail(IF task.result = "versions" THEN "missing" ELSE task.result, id)
                      /\ UNCHANGED <<cache, batch>>
    /\ UNCHANGED <<world, specs, locks, budget, wrote, discovery>>

(***************************************************************************)
(* Writing the lock                                                        *)
(***************************************************************************)

NewLock == LockOf(Now, session.final)

Resolved == session.at = "acquire" /\ Wanted = {}

Planned ==
    /\ Resolved
    /\ ~session.writes
    /\ Answer(ColdAnswer(Now, session.final))
    /\ UNCHANGED <<world, specs, cache, locks, batch, budget, wrote, discovery>>

\* A lock that would not change is left alone.
KeepLock ==
    /\ Resolved
    /\ session.writes
    /\ locks[Now.dir] = NewLock
    /\ wrote' = [wrote EXCEPT ![Now.dir] = Now]
    /\ Answer(ColdAnswer(Now, session.final))
    /\ UNCHANGED <<world, specs, cache, locks, batch, budget, discovery>>

\* The mutant's bug: the lock is written in place.
LocksWhileWriting_InPlace(dir) == [locks EXCEPT ![dir] = Torn]

LocksWhileWriting(dir) == locks

\* A temporary file, named for the process, is written and flushed.
WriteTemporary ==
    /\ Resolved
    /\ session.writes
    /\ locks[Now.dir] # NewLock
    /\ session' = [session EXCEPT !.at = "rename"]
    /\ locks' = LocksWhileWriting(Now.dir)
    /\ UNCHANGED <<world, specs, cache, batch, budget, wrote, discovery>>

Rename ==
    /\ session.at \in {"rename", "retry"}
    /\ locks' = [locks EXCEPT ![Now.dir] = NewLock]
    /\ wrote' = [wrote EXCEPT ![Now.dir] = Now]
    /\ Answer(ColdAnswer(Now, session.final))
    /\ UNCHANGED <<world, specs, cache, batch, budget, discovery>>

\* Where a rename does not replace, the lock is removed and the rename tried once more;
\* the second failure, and the first without a lock, is the command's.
RenameFails ==
    /\ session.at \in {"rename", "retry"}
    /\ budget.faults > 0
    /\ budget' = [budget EXCEPT !.faults = @ - 1]
    /\ IF session.at = "rename" /\ locks[Now.dir] # NoLock
       THEN session' = [session EXCEPT !.at = "retry"] /\ locks' = [locks EXCEPT ![Now.dir] = NoLock]
       ELSE Fail("io", session.project) /\ UNCHANGED locks
    /\ UNCHANGED <<world, specs, cache, batch, wrote, discovery>>

(***************************************************************************)
(* The environment                                                         *)
(***************************************************************************)

\* Cancellation is looked at between projects, before discovery and in every await,
\* never while a lock is written.
Cancel ==
    /\ \/ AtProject \/ session.at \in {"graph", "discovery"}
       \/ session.at = "acquire" /\ Wanted # {}
    /\ budget.faults > 0
    /\ budget' = [budget EXCEPT !.faults = @ - 1]
    /\ Fail("cancelled", session.project)
    /\ UNCHANGED <<world, specs, cache, locks, batch, wrote, discovery>>

\* The process is killed.
Crash ==
    /\ ~Ended
    /\ budget.faults > 0
    /\ budget' = [budget EXCEPT !.faults = @ - 1]
    /\ session' = [Resting EXCEPT !.error = Error("crash", 0)]
    /\ UNCHANGED <<world, specs, cache, locks, batch, wrote, discovery>>

\* The user edits a project, or the configuration it is resolved with.
Edit ==
    /\ Ended
    /\ budget.edits > 0
    /\ budget' = [budget EXCEPT !.edits = @ - 1]
    /\ \E i \in DOMAIN specs, spec \in world.edits :
          /\ spec # specs[i]
          /\ specs' = [specs EXCEPT ![i] = spec]
    /\ session' = Resting
    /\ UNCHANGED <<world, cache, locks, batch, wrote, discovery>>

\* A package leaves its folder (a NuGet client clears it).
Clear ==
    /\ budget.clears > 0
    /\ budget' = [budget EXCEPT !.clears = @ - 1]
    /\ \E root \in world.roots, package \in Packages :
          /\ cache[root][package] # Absent
          /\ cache' = [cache EXCEPT ![root][package] = Absent]
    /\ UNCHANGED <<world, specs, locks, session, batch, wrote, discovery>>

\* Another command for the same project, which read the lock no later than this one,
\* comes to the same packages and writes its lock first.
Elsewhere ==
    /\ Resolved
    /\ budget.commands > 0
    /\ budget' = [budget EXCEPT !.commands = @ - 1]
    /\ locks' = [locks EXCEPT ![Now.dir] = NewLock]
    /\ wrote' = [wrote EXCEPT ![Now.dir] = Now]
    /\ UNCHANGED <<world, specs, cache, session, batch, discovery>>

Rest == Ended /\ budget.commands = 0 /\ UNCHANGED vars

Step ==
    \/ Finish \/ AnswerEmpty \/ AnswerWarm \/ RejectLock \/ BeginGraph
    \/ Reuse \/ LoadCached \/ Discover \/ Arrive \/ Discovered \/ DiscoveryFails
    \/ (\E id \in Ids : Load(id))
    \/ JoinRequirements \/ JoinVersions \/ JoinError
    \/ BeginAcquire \/ AcquireShared \/ Acquire
    \/ Planned \/ KeepLock \/ WriteTemporary \/ Rename

Environment == Start \/ RenameFails \/ Cancel \/ Crash \/ Edit \/ Clear \/ Elsewhere \/ Rest

Next == Step \/ Environment

Spec == Init /\ [][Next]_vars

(***************************************************************************)
(* What the commands promise                                               *)
(***************************************************************************)

\* Every package of an answer has its dependencies in it, and is there for a reason.
Complete(answer) ==
    LET packages == answer.packages
        Needs(id) == Dependencies(answer.spec.target, <<id, packages[id].version>>)
    IN  /\ \A id \in DOMAIN packages : \A child \in DOMAIN Needs(id) :
               child \in DOMAIN packages /\ packages[child].version >= Needs(id)[child]
        /\ \A id \in DOMAIN packages \ DOMAIN answer.spec.refs :
               \E parent \in DOMAIN packages : id \in DOMAIN Needs(parent)

\* An answer, from a lock, from the memory of the batch or resolved, is one for the
\* project as it is: every reference in its range, with its asset choice, the closure
\* of the dependencies for the current target, and nothing else (resolve_project,
\* read_warm_lock, BatchMetadataCache).
AnswersCurrent ==
    \A k \in DOMAIN session.answers :
       LET answer == session.answers[k]
           refs == answer.spec.refs
       IN  DOMAIN refs # {} =>
              /\ answer.target = answer.spec.target
              /\ \A id \in DOMAIN refs :
                    /\ id \in DOMAIN answer.packages
                    /\ InRange(answer.packages[id].version, refs[id])
                    /\ answer.assets[id] = refs[id].assets
              /\ Complete(answer)

\* A lock file fails a command only for what happened outside of it: a package has
\* left the folder, or the project is resolved with another folder, or signatures are
\* required of an unsigned archive.  No crash, failed rename or edit of the references
\* makes a lock that cannot be read or contradicts itself (write_lock, read_warm_lock).
LockFailsForCause ==
    /\ session.error.kind \notin {"torn", "omitted"}
    /\ session.error.kind = "absent" =>
          budget.clears < MaxClears \/ wrote[Now.dir].config.root # Config.root

\* The lock a command leaves answers the next command for the same project, while its
\* packages stay in the folder and are signed as required (write_lock and
\* read_warm_lock agree on what a project is).
WarmRoundTrip ==
    \A i \in DOMAIN specs :
       LET spec == specs[i]
           lock == locks[spec.dir]
       IN  /\ lock \notin {NoLock, Torn}
           /\ wrote[spec.dir] = spec
           /\ LockedAbsent(lock, spec) = {}
           /\ LockedUnsigned(lock, spec) = {}
           => ReadWarmLock(spec) = "warm"

\* Where signatures are required, no answer names an archive that has none: not one in
\* the folder, not one in a lock, and not one another project of the batch fetched
\* (docs/package-signature-contract.md: once for each completed download or
\* required-policy cache hit).
PolicyHolds ==
    \A k \in DOMAIN session.answers :
       LET answer == session.answers[k]
       IN  answer.spec.config.mode = "require" =>
              \A id \in DOMAIN answer.packages :
                 \/ answer.packages[id].folder = "signed"
                 \/ answer.packages[id].folder = Absent /\ answer.packages[id].archive = "signed"

\* No archive comes from a source, and no service index is asked for, unless the most
\* specific pattern of the mapping says so; and the failure that is reported is that of
\* the first source that fails, in whatever order the answers arrive
\* (source_mapping_selects, ensure_identity).
DiscoverySound ==
    /\ \A pair \in session.fetched : pair[2] \in Entitled(Config, pair[1])
    /\ session.at \in {"graph", "discovery", "acquire"} => discovery.slots \cup discovery.running \cup ToSet(discovery.completed) \subseteq
                     UNION {Entitled(Config, id) : id \in DOMAIN session.nodes}
    /\ session.error.kind = "discovery" =>
          \A s \in Entitled(Config, discovery.asked) :
             (s < session.error.what /\ Config.sources[s].protocol = "v3")
                => Config.sources[s].index = "served"
=============================================================================
