--------------------------- MODULE BatchSessionProofs ---------------------------
(***************************************************************************)
(* What the commands promise holds for any number of commands, projects,   *)
(* packages and edits, in any world the assumptions of BatchSession admit. *)
(***************************************************************************)
EXTENDS BatchSession, ServiceDiscoveryProofs

(***************************************************************************)
(* Types                                                                   *)
(***************************************************************************)

Places == {"ended", "project", "graph", "discovery", "acquire", "rename", "retry"}
Kinds == {"none", "torn", "absent", "unsigned", "omitted", "unmapped", "discovery", "noVersion",
          "missing", "io", "cancelled", "crash"}
Results == {"none", "requirements", "versions", "unsigned", "unmapped", "missing"}

Origins(w) == DOMAIN w.feeds \cup {Absent}
Nodes == [low : Versions, high : Nat, state : {"ready", "loading", "known"}, version : Versions]
Tasks == [endpoints : Seq(Nat), result : Results, versions : SUBSET Versions,
          archive : Archives \cup {Absent}, origin : Nat]
Picks(w) == [version : Versions, archive : Archives, origin : Origins(w)]
Entries(w) == [dependencies : Partial(Ids, Versions), archive : Archives \cup {Absent},
               origin : Origins(w)]
Keys(w) == w.roots \X Targets(w) \X Packages
Told == [version : Versions, archive : Archives, folder : Archives \cup {Absent}]
Answers(w) == [spec : Projects(w), target : Targets(w), assets : Partial(Ids, AssetChoices(w)),
               packages : Partial(Ids, Told)]
Sessions(w) == [at : Places, project : Nat, online : BOOLEAN, writes : BOOLEAN,
                nodes : Partial(Ids, Nodes), tasks : Partial(Ids, Tasks),
                got : Partial(Ids, Picks(w)), final : Partial(Ids, Picks(w)),
                answers : Seq(Answers(w)), error : [kind : Kinds, what : Nat],
                fetched : SUBSET (Ids \X Nat)]
Budgets == [commands : Nat, edits : Nat, clears : 0..MaxClears, faults : Nat]

\* In a graph, the command is at one of the projects.
Active == session.at \in {"graph", "discovery", "acquire", "rename", "retry"}

StateOK ==
    /\ world \in Worlds
    /\ specs \in Seq(Projects(world))
    /\ cache \in [world.roots -> [Packages -> Archives \cup {Absent}]]
    /\ locks \in [world.dirs -> Locks(world) \cup {NoLock}]
    /\ session \in Sessions(world)
    /\ batch \in Partial(Keys(world), Entries(world))
    /\ budget \in Budgets
    /\ wrote \in [world.dirs -> Projects(world) \cup {NoLock}]
    /\ discovery \in Discoveries
    /\ ~Ended => session.project \in 1..(Len(specs) + 1)

\* A task that has not run has found nothing; its source is one of the configuration.
TaskOK(task) ==
    /\ task.result = "none" => task.archive = Absent /\ task.origin = 0
    /\ task.origin # 0 => task.origin \in DOMAIN Config.sources

GraphOK ==
    /\ session.project \in DOMAIN specs
    /\ DOMAIN Now.refs \cup DOMAIN session.tasks \subseteq DOMAIN session.nodes
    /\ \A id \in DOMAIN session.tasks : TaskOK(session.tasks[id])
    /\ session.at \in {"rename", "retry"} => Wanted = {}
    /\ IsFiniteSet(discovery.slots)
    /\ IF session.at = "discovery"
       THEN /\ discovery.asked \in DOMAIN session.nodes
            /\ IsFiniteSet(discovery.running) /\ Cardinality(discovery.running) <= Workers
       ELSE discovery.running = {} /\ discovery.pending = <<>> /\ discovery.completed = <<>>

TypeOK == StateOK /\ (Active => GraphOK)

(***************************************************************************)
(* Functions with a part of a set as domain                                *)
(***************************************************************************)

LEMMA PartialFacts ==
    ASSUME NEW S, NEW T, NEW f \in Partial(S, T)
    PROVE  /\ DOMAIN f \subseteq S /\ f \in [DOMAIN f -> T]
           /\ \A x \in DOMAIN f : x \in S /\ f[x] \in T
  BY DEF Partial

LEMMA PartialIntro ==
    ASSUME NEW S, NEW T, NEW D \in SUBSET S, NEW f \in [D -> T]
    PROVE  f \in Partial(S, T)
  BY DEF Partial

LEMMA PartialEmpty ==
    ASSUME NEW S, NEW T
    PROVE  <<>> \in Partial(S, T) /\ DOMAIN <<>> = {}
  <1>1. <<>> \in [{} -> T]
    OBVIOUS
  <1> QED
    BY <1>1, PartialIntro

LEMMA WithFacts ==
    ASSUME NEW S, NEW T, NEW f \in Partial(S, T), NEW x \in S, NEW v \in T
    PROVE  /\ With(f, x, v) \in Partial(S, T)
           /\ \A y : y \in DOMAIN With(f, x, v) <=> y \in DOMAIN f \/ y = x
           /\ With(f, x, v)[x] = v
           /\ \A y \in DOMAIN f : y # x => With(f, x, v)[y] = f[y]
  <1>1. DOMAIN f \cup {x} \in SUBSET S /\ \A y \in DOMAIN f : f[y] \in T
    BY PartialFacts
  <1>2. With(f, x, v) \in [DOMAIN f \cup {x} -> T]
    BY <1>1 DEF With
  <1> QED
    BY <1>1, <1>2, PartialIntro DEF With

LEMMA WithoutFacts ==
    ASSUME NEW S, NEW T, NEW f \in Partial(S, T), NEW x
    PROVE  /\ Without(f, x) \in Partial(S, T)
           /\ \A y : y \in DOMAIN Without(f, x) <=> y \in DOMAIN f /\ y # x
           /\ \A y \in DOMAIN f : y # x => Without(f, x)[y] = f[y]
  <1>1. DOMAIN f \ {x} \in SUBSET S /\ \A y \in DOMAIN f : f[y] \in T
    BY PartialFacts
  <1>2. Without(f, x) \in [DOMAIN f \ {x} -> T]
    BY <1>1 DEF Without
  <1> QED
    BY <1>1, <1>2, PartialIntro DEF Without

LEMMA ExceptFacts ==
    ASSUME NEW S, NEW T, NEW f \in Partial(S, T), NEW x \in DOMAIN f, NEW v \in T
    PROVE  /\ [f EXCEPT ![x] = v] \in Partial(S, T)
           /\ DOMAIN [f EXCEPT ![x] = v] = DOMAIN f
           /\ [f EXCEPT ![x] = v][x] = v
           /\ \A y \in DOMAIN f : y # x => [f EXCEPT ![x] = v][y] = f[y]
  <1>1. DOMAIN f \in SUBSET S /\ f \in [DOMAIN f -> T]
    BY PartialFacts
  <1>2. [f EXCEPT ![x] = v] \in [DOMAIN f -> T]
    BY <1>1
  <1> QED
    BY <1>1, <1>2, PartialIntro

(***************************************************************************)
(* What a world gives                                                      *)
(***************************************************************************)

LEMMA ConstantFacts ==
    /\ Ids \subseteq Nat \ {0} /\ IsFiniteSet(Ids)
    /\ Versions \subseteq Nat /\ IsFiniteSet(Versions)
    /\ MaxVersion \in Nat /\ MaxWorkers \in Nat /\ ExactRank \in Nat \ {0}
    /\ Absent \notin Archives
  <1>1. IsFiniteSet(Versions)
    BY BoundsAssumption, FS_Interval DEF Versions
  <1> QED
    BY <1>1, IdsAssumption, BoundsAssumption, AbsentAssumption DEF Versions, NoId

LEMMA WorldFacts ==
    ASSUME StateOK
    PROVE  /\ world.specs \in Seq(Projects(world))
           /\ \A spec \in Projects(world) : ValidProject(world, spec)
           /\ \A name \in DOMAIN world.feeds : \A package \in DOMAIN world.feeds[name] :
                 world.feeds[name][package] \in Archives
           /\ \A target \in Targets(world), package \in Packages :
                 Dependencies(target, package) \in Partial(Ids, Versions)
           /\ RequirementsAgree(world)
           /\ world.online \subseteq BOOLEAN /\ world.writes \subseteq BOOLEAN
           /\ Torn \notin Locks(world) \cup {NoLock}
  <1>1. ASSUME NEW target, NEW package
        PROVE  Dependencies(target, package) \in Partial(Ids, Versions)
    <2>1. CASE <<target, package>> \in DOMAIN world.manifests
      BY <2>1, WorldsAssumption DEF Dependencies, StateOK
    <2>2. CASE <<target, package>> \notin DOMAIN world.manifests
      BY <2>2, PartialEmpty DEF Dependencies
    <2> QED
      BY <2>1, <2>2
  <1> QED
    BY <1>1, WorldsAssumption DEF StateOK

\* The project the command is at.
LEMMA NowFacts ==
    ASSUME StateOK, session.project \in DOMAIN specs
    PROVE  /\ Now \in Projects(world) /\ ValidProject(world, Now)
           /\ Now.dir \in world.dirs /\ Now.target \in Targets(world) /\ Now.inputs \in Inputs(world)
           /\ DOMAIN Now.refs \subseteq Ids
           /\ \A id \in DOMAIN Now.refs : Now.refs[id].assets \in AssetChoices(world)
           /\ Config.root \in world.roots
           /\ Config.sources \in Seq(Sources(world)) /\ Config.sources # <<>>
           /\ Len(Config.sources) \in Nat /\ DOMAIN Config.sources = 1..Len(Config.sources)
           /\ \A s \in DOMAIN Config.sources : /\ Config.sources[s] \in Sources(world)
                                               /\ Config.sources[s].name \in DOMAIN world.feeds
           /\ ValidConfiguration(Config)
           /\ Folder(Now) \in [Packages -> Archives \cup {Absent}]
  <1>1. Now \in Projects(world)
    BY DEF StateOK, Now
  <1>2. ValidProject(world, Now)
    BY <1>1, WorldFacts
  <1>3. /\ Now.target \in Targets(world) /\ Now.inputs \in Inputs(world)
        /\ \A id \in DOMAIN Now.refs : Now.refs[id].assets \in AssetChoices(world)
    BY <1>1 DEF Targets, Inputs, AssetChoices
  <1>4. Config.sources \in Seq(Sources(world)) /\ Config.sources # <<>>
    BY <1>2 DEF ValidProject, Config
  <1>5. /\ Len(Config.sources) \in Nat /\ DOMAIN Config.sources = 1..Len(Config.sources)
        /\ \A s \in DOMAIN Config.sources : Config.sources[s] \in Sources(world)
    BY <1>4
  <1>6. \A s \in DOMAIN Config.sources : Config.sources[s].name \in DOMAIN world.feeds
    BY <1>5 DEF Sources
  <1>7. Config.root \in world.roots /\ ValidConfiguration(Config) /\ Now.dir \in world.dirs
        /\ DOMAIN Now.refs \subseteq Ids
    BY <1>2 DEF ValidProject, Config
  <1>8. Folder(Now) \in [Packages -> Archives \cup {Absent}]
    BY <1>7 DEF Folder, StateOK, Config
  <1> QED
    BY <1>1, <1>2, <1>3, <1>4, <1>5, <1>6, <1>7, <1>8

LEMMA SelectedFacts ==
    ASSUME StateOK, session.project \in DOMAIN specs, NEW id
    PROVE  /\ SelectedSources(Config, id) = Entitled(Config, id)
           /\ SelectedSources(Config, id) \subseteq DOMAIN Config.sources
           /\ DOMAIN Config.sources \subseteq Nat \ {0} /\ IsFiniteSet(DOMAIN Config.sources)
  <1>1. /\ ValidConfiguration(Config) /\ ExactRank \in Nat \ {0}
        /\ DOMAIN Config.sources = 1..Len(Config.sources) /\ Len(Config.sources) \in Nat
    BY NowFacts, ConstantFacts
  <1>2. IsFiniteSet(1..Len(Config.sources))
    BY <1>1, FS_Interval
  <1> QED
    BY <1>1, <1>2, SelectedIsEntitled

(***************************************************************************)
(* The graph of the current project                                        *)
(***************************************************************************)

LEMMA SessionFacts ==
    ASSUME StateOK
    PROVE  /\ session.at \in Places /\ session.project \in Nat
           /\ session.online \in BOOLEAN /\ session.writes \in BOOLEAN
           /\ session.nodes \in Partial(Ids, Nodes) /\ session.tasks \in Partial(Ids, Tasks)
           /\ session.got \in Partial(Ids, Picks(world))
           /\ session.final \in Partial(Ids, Picks(world))
           /\ session.answers \in Seq(Answers(world))
           /\ session.error.kind \in Kinds /\ session.error.what \in Nat
           /\ session.error = [kind |-> session.error.kind, what |-> session.error.what]
           /\ session.fetched \subseteq Ids \X Nat
  BY DEF StateOK, Sessions

LEMMA NodeFacts ==
    ASSUME StateOK, session.project \in DOMAIN specs, NEW id \in DOMAIN session.nodes
    PROVE  /\ id \in Ids /\ session.nodes[id] \in Nodes
           /\ Version(id) \in Versions /\ Package(id) \in Packages
           /\ Folder(Now)[Package(id)] \in Archives \cup {Absent}
           /\ Key(id) \in Keys(world)
           /\ Dependencies(Now.target, Package(id)) \in Partial(Ids, Versions)
  <1>1. id \in Ids /\ session.nodes[id] \in Nodes
    BY SessionFacts, PartialFacts
  <1>2. Version(id) \in Versions
    BY <1>1 DEF Version, Nodes
  <1>3. Package(id) \in Packages
    BY <1>1, <1>2 DEF Package, Packages
  <1>4. Key(id) \in Keys(world)
    BY <1>3, NowFacts DEF Key, Keys
  <1>5. Dependencies(Now.target, Package(id)) \in Partial(Ids, Versions)
    BY <1>3, NowFacts, WorldFacts
  <1> QED
    BY <1>1, <1>2, <1>3, <1>4, <1>5, NowFacts

LEMMA InStateFacts ==
    ASSUME StateOK, NEW state
    PROVE  /\ InState(state) \subseteq DOMAIN session.nodes
           /\ InState(state) # {} => Min(InState(state)) \in InState(state)
  <1>1. InState(state) \subseteq DOMAIN session.nodes /\ DOMAIN session.nodes \subseteq Ids
    BY SessionFacts, PartialFacts DEF InState
  <1>2. InState(state) \in SUBSET Ids /\ InState(state) \subseteq Int
    <2>1. Ids \subseteq Int
      BY ConstantFacts
    <2> QED
      BY <1>1, <2>1
  <1>3. IsFiniteSet(InState(state))
    BY <1>2, ConstantFacts, FS_Subset
  <1> QED
    BY <1>1, <1>2, <1>3, MinFacts

LEMMA TaskFacts ==
    ASSUME StateOK, NEW id \in DOMAIN session.tasks
    PROVE  id \in Ids /\ session.tasks[id] \in Tasks
  BY SessionFacts, PartialFacts

LEMMA FreshTask ==
    ASSUME NEW endpoints \in Seq(Nat)
    PROVE  /\ Task(endpoints) \in Tasks /\ Task(endpoints).endpoints = endpoints
           /\ Task(endpoints).result = "none"
           /\ Task(endpoints).archive = Absent /\ Task(endpoints).origin = 0
  BY DEF Task, Tasks, Results

\* A task ends with requirements, from the folder or from a source that is selected,
\* with an archive that is not refused; or without an archive.
LEMMA LoadedFacts ==
    ASSUME StateOK, session.project \in DOMAIN specs, NEW id \in DOMAIN session.nodes,
           NEW task \in Tasks, task.archive = Absent, task.origin = 0
    PROVE  LET loaded == Loaded(task, id)
               cached == Folder(Now)[Package(id)]
           IN  /\ loaded \in Tasks
               /\ loaded.result # "none"
               /\ loaded.origin # 0 <=> loaded.archive # Absent
               /\ loaded.origin # 0 => loaded.origin \in SelectedSources(Config, id)
               /\ loaded.archive # Absent =>
                     /\ loaded.result = "requirements" /\ cached = Absent
                     /\ ~Refused(loaded.archive, FALSE)
               /\ loaded.result = "requirements" /\ loaded.archive = Absent =>
                     cached # Absent /\ ~Refused(cached, TRUE)
  <1> DEFINE package == Package(id)
             cached == Folder(Now)[package]
             asked == Endpoints(id, task.endpoints)
             offering == {j \in asked : package \in DOMAIN Feed(task.endpoints[j])}
             first == task.endpoints[Min(offering)]
             versions == CachedVersions(id) \cup
                            OfferedVersions(id, {task.endpoints[j] : j \in asked})
             loaded == Loaded(task, id)
  <1>1. task.endpoints \in Seq(Nat)
    BY DEF Tasks
  <1>2. asked \subseteq 1..Len(task.endpoints) /\ Len(task.endpoints) \in Nat
        /\ \A j \in asked : task.endpoints[j] \in SelectedSources(Config, id)
    BY <1>1 DEF Endpoints
  <1>3. versions \subseteq Versions
    BY DEF CachedVersions, OfferedVersions
  <1>4. ASSUME offering # {}
        PROVE  /\ first \in SelectedSources(Config, id) /\ first \in Nat \ {0}
               /\ Feed(first)[package] \in Archives
    <2>1. IsFiniteSet(offering) /\ offering \subseteq Int
      <3>1. offering \in SUBSET (1..Len(task.endpoints)) /\ IsFiniteSet(1..Len(task.endpoints))
        BY <1>2, FS_Interval
      <3> HIDE DEF offering
      <3>2. IsFiniteSet(offering)
        BY <3>1, FS_Subset
      <3> QED
        BY <1>2, <3>1, <3>2
    <2>2. Min(offering) \in offering
      <3> HIDE DEF offering
      <3> QED
        BY <1>4, <2>1, MinFacts
    <2>3. first \in SelectedSources(Config, id) /\ package \in DOMAIN Feed(first)
      BY <1>2, <2>2
    <2>4. first \in DOMAIN Config.sources /\ first \in Nat \ {0}
      BY <2>3, SelectedFacts
    <2>5. Config.sources[first].name \in DOMAIN world.feeds
      BY <2>4, NowFacts
    <2>6. Feed(first)[package] \in Archives
      BY <2>3, <2>5, WorldFacts DEF Feed
    <2> QED
      BY <2>3, <2>4, <2>6
  <1>5. cached \in Archives \cup {Absent}
    BY NodeFacts
  <1>6. loaded = CASE cached # Absent ->
               [task EXCEPT !.result = IF Refused(cached, TRUE) THEN "unsigned" ELSE "requirements"]
          [] cached = Absent /\ Unmapped(Config, id) -> [task EXCEPT !.result = "unmapped"]
          [] cached = Absent /\ ~Unmapped(Config, id) /\ offering # {} ->
               IF Refused(Feed(first)[package], FALSE)
                   THEN [task EXCEPT !.result = "unsigned"]
                   ELSE [task EXCEPT !.result = "requirements", !.archive = Feed(first)[package],
                                     !.origin = first]
          [] OTHER ->
               IF versions = {}
               THEN [task EXCEPT !.result = "missing"]
               ELSE [task EXCEPT !.result = "versions", !.versions = versions]
    BY DEF Loaded
  <1> HIDE DEF package, cached, asked, offering, first, versions, loaded
  <1>7. CASE cached # Absent
    <2>1. loaded = [task EXCEPT !.result = IF Refused(cached, TRUE) THEN "unsigned"
                                                                    ELSE "requirements"]
      BY <1>6, <1>7
    <2>2. /\ loaded \in Tasks /\ loaded.archive = Absent /\ loaded.origin = 0
          /\ loaded.result = IF Refused(cached, TRUE) THEN "unsigned" ELSE "requirements"
      BY <2>1 DEF Tasks, Results
    <2> QED
      BY <1>7, <2>2 DEF loaded, cached, package
  <1>8. CASE cached = Absent /\ Unmapped(Config, id)
    <2>1. loaded = [task EXCEPT !.result = "unmapped"]
      BY <1>6, <1>8
    <2>2. /\ loaded \in Tasks /\ loaded.archive = Absent /\ loaded.origin = 0
          /\ loaded.result = "unmapped"
      BY <2>1 DEF Tasks, Results
    <2> QED
      BY <2>2 DEF loaded
  <1>9. CASE cached = Absent /\ ~Unmapped(Config, id) /\ offering # {}
    <2> DEFINE archive == Feed(first)[package]
    <2>1. loaded = IF Refused(archive, FALSE)
                   THEN [task EXCEPT !.result = "unsigned"]
                   ELSE [task EXCEPT !.result = "requirements", !.archive = archive,
                                     !.origin = first]
      BY <1>6, <1>9
    <2>2. archive \in Archives /\ first \in Nat \ {0} /\ first \in SelectedSources(Config, id)
      BY <1>4, <1>9
    <2> HIDE DEF archive
    <2>3. CASE Refused(archive, FALSE)
      <3>1. /\ loaded \in Tasks /\ loaded.archive = Absent /\ loaded.origin = 0
            /\ loaded.result = "unsigned"
        BY <2>1, <2>3 DEF Tasks, Results
      <3> QED
        BY <3>1 DEF loaded
    <2>4. CASE ~Refused(archive, FALSE)
      <3>1. loaded = [task EXCEPT !.result = "requirements", !.archive = archive, !.origin = first]
        BY <2>1, <2>4
      <3>2. /\ loaded \in Tasks /\ loaded.archive = archive /\ loaded.origin = first
            /\ loaded.result = "requirements"
        BY <2>2, <3>1 DEF Tasks, Results
      <3>3. archive # Absent
        BY <2>2, ConstantFacts
      <3> QED
        BY <1>9, <2>2, <2>4, <3>2, <3>3 DEF loaded, cached, package
    <2> QED
      BY <2>3, <2>4
  <1>10. CASE cached = Absent /\ ~Unmapped(Config, id) /\ offering = {}
    <2>1. loaded = IF versions = {}
                   THEN [task EXCEPT !.result = "missing"]
                   ELSE [task EXCEPT !.result = "versions", !.versions = versions]
      BY <1>6, <1>10
    <2>2. /\ loaded \in Tasks /\ loaded.archive = Absent /\ loaded.origin = 0
          /\ loaded.result \in {"missing", "versions"}
      BY <1>3, <2>1 DEF Tasks, Results
    <2> QED
      BY <2>2 DEF loaded
  <1> QED
    BY <1>7, <1>8, <1>9, <1>10

(***************************************************************************)
(* How the session goes on                                                 *)
(***************************************************************************)

LEMMA FailFacts ==
    ASSUME StateOK, NEW kind \in Kinds, NEW what \in Nat, Fail(kind, what)
    PROVE  /\ session' \in Sessions(world)
           /\ session'.at = "ended" /\ session'.project = session.project
           /\ session'.answers = session.answers /\ session'.fetched = session.fetched
           /\ session'.error = [kind |-> kind, what |-> what]
  <1>1. session \in Sessions(world)
    BY DEF StateOK
  <1>2. session' = [session EXCEPT !.at = "ended", !.error = [kind |-> kind, what |-> what]]
    BY DEF Fail, Error
  <1>3. [kind |-> kind, what |-> what] \in [kind : Kinds, what : Nat]
    OBVIOUS
  <1>4. "ended" \in Places
    BY DEF Places
  <1> QED
    BY <1>1, <1>2, <1>3, <1>4 DEF Sessions

LEMMA AnswerFacts ==
    ASSUME StateOK, session.project \in DOMAIN specs, NEW answer \in Answers(world), Answer(answer)
    PROVE  /\ session' \in Sessions(world)
           /\ session'.at = "project" /\ session'.project = session.project + 1
           /\ session'.project \in 1..(Len(specs) + 1)
           /\ session'.answers = Append(session.answers, answer) /\ session'.fetched = {}
           /\ session'.error = session.error
  <1>1. session \in Sessions(world) /\ session.project \in Nat /\ session.answers \in Seq(Answers(world))
    BY SessionFacts DEF StateOK
  <1>2. session' = [session EXCEPT !.at = "project", !.project = session.project + 1,
                                   !.answers = Append(session.answers, answer), !.fetched = {}]
    BY DEF Answer
  <1>3. Append(session.answers, answer) \in Seq(Answers(world)) /\ session.project + 1 \in Nat
    BY <1>1
  <1>4. session.project + 1 \in 1..(Len(specs) + 1)
    <2>1. specs \in Seq(Projects(world))
      BY DEF StateOK
    <2>2. session.project \in 1..Len(specs) /\ Len(specs) \in Nat
      BY <2>1
    <2> QED
      BY <2>2
  <1>5. "project" \in Places
    BY DEF Places
  <1> QED
    BY <1>1, <1>2, <1>3, <1>4, <1>5 DEF Sessions

LEMMA PickFacts ==
    ASSUME StateOK, NEW final \in Partial(Ids, Picks(world)), NEW id \in DOMAIN final
    PROVE  /\ id \in Ids /\ final[id].version \in Versions /\ final[id].archive \in Archives
           /\ final[id].origin \in Origins(world) /\ <<id, final[id].version>> \in Packages
  <1>1. id \in Ids /\ final[id] \in Picks(world)
    BY PartialFacts
  <1> QED
    BY <1>1 DEF Picks, Packages

LEMMA ColdAnswerFacts ==
    ASSUME StateOK, session.project \in DOMAIN specs, NEW final \in Partial(Ids, Picks(world))
    PROVE  ColdAnswer(Now, final) \in Answers(world)
  <1> DEFINE assets == [id \in DOMAIN Now.refs |-> Now.refs[id].assets]
             packages == [id \in DOMAIN final |->
                             [version |-> final[id].version, archive |-> final[id].archive,
                              folder |-> Folder(Now)[<<id, final[id].version>>]]]
  <1>1. assets \in Partial(Ids, AssetChoices(world))
    <2>1. assets \in [DOMAIN Now.refs -> AssetChoices(world)] /\ DOMAIN Now.refs \in SUBSET Ids
      BY NowFacts
    <2> QED
      BY <2>1, PartialIntro
  <1>2. packages \in Partial(Ids, Told)
    <2>1. \A id \in DOMAIN final : Folder(Now)[<<id, final[id].version>>] \in Archives \cup {Absent}
      BY PickFacts, NowFacts
    <2>2. packages \in [DOMAIN final -> Told]
      BY <2>1, PickFacts DEF Told
    <2>3. DOMAIN final \in SUBSET Ids
      BY PickFacts
    <2> QED
      BY <2>2, <2>3, PartialIntro
  <1>3. ColdAnswer(Now, final) = [spec |-> Now, target |-> Now.target, assets |-> assets,
                                  packages |-> packages]
    BY DEF ColdAnswer
  <1> HIDE DEF assets, packages
  <1> QED
    BY <1>1, <1>2, <1>3, NowFacts DEF Answers

LEMMA LockFacts ==
    ASSUME StateOK, NEW lock \in Locks(world)
    PROVE  /\ lock.target \in Targets(world) /\ lock.inputs \in Inputs(world)
           /\ lock.direct \in Partial(Ids, LockedRequests(world))
           /\ lock.packages \in Partial(Ids, LockedPackages)
           /\ \A id \in DOMAIN lock.direct : lock.direct[id].assets \in AssetChoices(world)
           /\ \A id \in DOMAIN lock.packages :
                 /\ id \in Ids /\ lock.packages[id].version \in Versions
                 /\ lock.packages[id].archive \in Archives
                 /\ <<id, lock.packages[id].version>> \in Packages
  <1>1. /\ lock.target \in Targets(world) /\ lock.inputs \in Inputs(world)
        /\ lock.direct \in Partial(Ids, LockedRequests(world))
        /\ lock.packages \in Partial(Ids, LockedPackages)
    BY DEF Locks
  <1>2. \A id \in DOMAIN lock.direct : lock.direct[id] \in LockedRequests(world)
    BY <1>1, PartialFacts
  <1>3. \A id \in DOMAIN lock.packages :
           id \in Ids /\ lock.packages[id] \in LockedPackages
    BY <1>1, PartialFacts
  <1> QED
    BY <1>1, <1>2, <1>3 DEF LockedRequests, LockedPackages, Packages

\* A lock that answers is one, and is of the project.
LEMMA WarmFacts ==
    ASSUME StateOK, session.project \in DOMAIN specs, ReadWarmLock(Now) = "warm"
    PROVE  /\ locks[Now.dir] \in Locks(world)
           /\ LockMatches(locks[Now.dir], Now) /\ LockedAbsent(locks[Now.dir], Now) = {}
           /\ LockedUnsigned(locks[Now.dir], Now) = {} /\ Omitted(locks[Now.dir], Now) = {}
  <1>1. locks[Now.dir] \in Locks(world) \cup {NoLock}
    BY NowFacts DEF StateOK
  <1>2. /\ locks[Now.dir] # NoLock
        /\ LockMatches(locks[Now.dir], Now) /\ LockedAbsent(locks[Now.dir], Now) = {}
        /\ LockedUnsigned(locks[Now.dir], Now) = {} /\ Omitted(locks[Now.dir], Now) = {}
    BY DEF ReadWarmLock
  <1> QED
    BY <1>1, <1>2

LEMMA WarmAnswerFacts ==
    ASSUME StateOK, session.project \in DOMAIN specs, ReadWarmLock(Now) = "warm"
    PROVE  WarmAnswer(Now) \in Answers(world)
  <1> DEFINE lock == locks[Now.dir]
             assets == [id \in DOMAIN lock.direct |-> lock.direct[id].assets]
             packages == [id \in DOMAIN lock.packages |->
                 [version |-> lock.packages[id].version, archive |-> lock.packages[id].archive,
                  folder |-> Folder(Now)[<<id, lock.packages[id].version>>]]]
  <1>1. lock \in Locks(world)
    BY WarmFacts
  <1>2. WarmAnswer(Now) = [spec |-> Now, target |-> lock.target, assets |-> assets,
                           packages |-> packages]
    BY DEF WarmAnswer
  <1> HIDE DEF lock
  <1>3. assets \in Partial(Ids, AssetChoices(world))
    <2>1. assets \in [DOMAIN lock.direct -> AssetChoices(world)]
      BY <1>1, LockFacts
    <2>2. DOMAIN lock.direct \in SUBSET Ids
      BY <1>1, LockFacts, PartialFacts
    <2> QED
      BY <2>1, <2>2, PartialIntro
  <1>4. packages \in Partial(Ids, Told)
    <2>1. \A id \in DOMAIN lock.packages :
             Folder(Now)[<<id, lock.packages[id].version>>] \in Archives \cup {Absent}
      BY <1>1, LockFacts, NowFacts
    <2>2. packages \in [DOMAIN lock.packages -> Told]
      BY <1>1, <2>1, LockFacts DEF Told
    <2>3. DOMAIN lock.packages \in SUBSET Ids
      BY <1>1, LockFacts
    <2> QED
      BY <2>2, <2>3, PartialIntro
  <1>5. lock.target \in Targets(world)
    BY <1>1, LockFacts
  <1> HIDE DEF assets, packages
  <1> QED
    BY <1>2, <1>3, <1>4, <1>5, NowFacts DEF Answers

LEMMA LockedPackageIntro ==
    ASSUME NEW version \in Versions, NEW archive \in Archives, NEW direct \in BOOLEAN
    PROVE  [version |-> version, archive |-> archive, direct |-> direct] \in LockedPackages
  BY DEF LockedPackages

LEMMA LockOfFacts ==
    ASSUME StateOK, session.project \in DOMAIN specs, NEW final \in Partial(Ids, Picks(world)),
           DOMAIN Now.refs \subseteq DOMAIN final
    PROVE  LockOf(Now, final) \in Locks(world) /\ HasSource(Now, LockOf(Now, final).source)
  <1> DEFINE lock == LockOf(Now, final)
             direct == LockDirects(Now, final)
             packages == [id \in DOMAIN final |->
                             [version |-> final[id].version, archive |-> final[id].archive,
                              direct |-> id \in DOMAIN Now.refs]]
             first == Config.sources[1].name
             fetched == {id \in DOMAIN final : final[id].origin # Absent}
             origin == final[Min(fetched)].origin
             source == IF fetched # {} /\ HasSource(Now, origin) THEN origin ELSE first
  <1>1. lock = [target |-> Now.target, inputs |-> Now.inputs, source |-> source, direct |-> direct,
                packages |-> packages]
    BY DEF LockOf, Config
  <1>2. direct \in Partial(Ids, LockedRequests(world))
    <2>1. \A id \in DOMAIN Now.refs : Now.refs[id].assets \in AssetChoices(world)
      BY NowFacts
    <2>2. \A id \in DOMAIN Now.refs : final[id].version \in Versions
      BY PickFacts
    <2>3. direct \in [DOMAIN Now.refs -> LockedRequests(world)]
      BY <2>1, <2>2 DEF LockDirects, LockedRequests
    <2> QED
      BY <2>3, NowFacts, PartialIntro
  <1>3. packages \in Partial(Ids, LockedPackages)
    <2>1. ASSUME NEW id \in DOMAIN final
          PROVE  packages[id] \in LockedPackages
      <3> DEFINE asked == id \in DOMAIN Now.refs
      <3>1. asked \in BOOLEAN
        OBVIOUS
      <3>2. packages[id] = [version |-> final[id].version, archive |-> final[id].archive,
                            direct |-> asked]
        OBVIOUS
      <3>3. final[id].version \in Versions /\ final[id].archive \in Archives
        BY PickFacts
      <3> HIDE DEF asked, packages
      <3>4. [version |-> final[id].version, archive |-> final[id].archive, direct |-> asked]
               \in LockedPackages
        BY <3>1, <3>3, LockedPackageIntro, Zenon
      <3> QED
        BY <3>2, <3>4, Zenon
    <2>2. packages \in [DOMAIN final -> LockedPackages]
      BY <2>1
    <2>3. DOMAIN final \in SUBSET Ids
      BY PickFacts
    <2> QED
      BY <2>2, <2>3, PartialIntro
  <1>4. 1 \in DOMAIN Config.sources
    <2>1. Config.sources # <<>> /\ Config.sources \in Seq(Sources(world))
      BY NowFacts
    <2> QED
      BY <2>1
  <1>5. first \in DOMAIN world.feeds /\ HasSource(Now, first)
    BY <1>4, NowFacts DEF HasSource, Config
  <1>6. ASSUME NEW name, HasSource(Now, name)
        PROVE  name \in DOMAIN world.feeds
    BY <1>6, NowFacts DEF HasSource, Config
  <1>7. HasSource(Now, source) /\ source \in DOMAIN world.feeds
    <2> HIDE DEF first, fetched, origin
    <2> QED
      BY <1>5, <1>6
  <1> HIDE DEF lock, direct, packages, source
  <1>8. lock \in Locks(world) /\ lock.source = source
    BY <1>1, <1>2, <1>3, <1>7, NowFacts DEF Locks
  <1> QED
    BY <1>7, <1>8 DEF lock

LEMMA KnownFacts ==
    ASSUME NEW nodes \in Partial(Ids, Nodes), NEW id \in DOMAIN nodes,
           NEW dependencies \in Partial(Ids, Versions)
    PROVE  /\ Known(nodes, id, dependencies) \in Partial(Ids, Nodes)
           /\ \A x : x \in DOMAIN Known(nodes, id, dependencies) <=>
                        x \in DOMAIN nodes \/ x \in DOMAIN dependencies
           /\ \A x \in DOMAIN nodes :
                 /\ Known(nodes, id, dependencies)[x].low = nodes[x].low
                 /\ Known(nodes, id, dependencies)[x].high = nodes[x].high
                 /\ Known(nodes, id, dependencies)[x].version = nodes[x].version
                 /\ Known(nodes, id, dependencies)[x].state =
                       IF x = id THEN "known" ELSE nodes[x].state
           /\ \A x \in DOMAIN dependencies :
                 x \notin DOMAIN nodes =>
                    Known(nodes, id, dependencies)[x] = Node(dependencies[x], MaxVersion)
  <1> DEFINE new == Known(nodes, id, dependencies)
             D == DOMAIN nodes \cup DOMAIN dependencies
  <1>1. /\ D \in SUBSET Ids /\ \A x \in DOMAIN nodes : nodes[x] \in Nodes
        /\ \A x \in DOMAIN dependencies : dependencies[x] \in Versions
    BY PartialFacts
  <1>2. new = [x \in D |-> IF x \in DOMAIN nodes
                           THEN [nodes[x] EXCEPT !.state = IF x = id THEN "known" ELSE nodes[x].state]
                           ELSE Node(dependencies[x], MaxVersion)]
    BY DEF Known
  <1>3. ASSUME NEW x \in DOMAIN nodes
        PROVE  /\ new[x] \in Nodes /\ new[x].low = nodes[x].low /\ new[x].high = nodes[x].high
               /\ new[x].version = nodes[x].version
               /\ new[x].state = IF x = id THEN "known" ELSE nodes[x].state
    <2>1. new[x] = [nodes[x] EXCEPT !.state = IF x = id THEN "known" ELSE nodes[x].state]
      BY <1>2
    <2>2. nodes[x] \in Nodes
      BY <1>1
    <2> HIDE DEF new
    <2> QED
      BY <2>1, <2>2 DEF Nodes
  <1>4. ASSUME NEW x \in DOMAIN dependencies \ DOMAIN nodes
        PROVE  new[x] = Node(dependencies[x], MaxVersion) /\ new[x] \in Nodes
    <2>1. new[x] = Node(dependencies[x], MaxVersion)
      BY <1>2
    <2>2. dependencies[x] \in Versions /\ MaxVersion \in Nat
      BY <1>1, ConstantFacts
    <2> HIDE DEF new
    <2> QED
      BY <2>1, <2>2 DEF Node, Nodes
  <1>5. DOMAIN new = D /\ new \in [D -> Nodes]
    <2>1. \A x \in D : new[x] \in Nodes
      BY <1>3, <1>4
    <2>2. DOMAIN new = D /\ new = [x \in D |-> new[x]]
      BY <1>2
    <2> HIDE DEF new, D
    <2> QED
      BY <2>1, <2>2
  <1>6. new \in Partial(Ids, Nodes)
    <2> HIDE DEF new, D
    <2> QED
      BY <1>1, <1>5, PartialIntro
  <1> QED
    BY <1>3, <1>4, <1>5, <1>6

LEMMA SpawnedFacts ==
    ASSUME StateOK, NEW id \in DOMAIN session.nodes, NEW endpoints \in Seq(Nat),
           session' = Spawned(id, endpoints)
    PROVE  /\ session' \in Sessions(world) /\ session'.at = "graph"
           /\ session'.project = session.project /\ session'.answers = session.answers
           /\ session'.error = session.error /\ session'.fetched = session.fetched
           /\ session'.got = session.got /\ session'.final = session.final
           /\ session'.nodes = [session.nodes EXCEPT ![id] = [session.nodes[id] EXCEPT !.state = "loading"]]
           /\ DOMAIN session'.nodes = DOMAIN session.nodes
           /\ \A x \in DOMAIN session.nodes :
                 /\ session'.nodes[x].low = session.nodes[x].low
                 /\ session'.nodes[x].high = session.nodes[x].high
                 /\ session'.nodes[x].version = session.nodes[x].version
                 /\ session'.nodes[x].state = IF x = id THEN "loading" ELSE session.nodes[x].state
           /\ session'.tasks = With(session.tasks, id, Task(endpoints))
  <1> DEFINE node == [session.nodes[id] EXCEPT !.state = "loading"]
             nodes == [session.nodes EXCEPT ![id] = node]
             tasks == With(session.tasks, id, Task(endpoints))
  <1>1. session' = [session EXCEPT !.at = "graph", !.nodes = nodes, !.tasks = tasks]
    <2>1. session \in Sessions(world)
      BY DEF StateOK
    <2> QED
      BY <2>1 DEF Spawned, Sessions
  <1>2. session.nodes[id] \in Nodes /\ id \in Ids
    BY SessionFacts, PartialFacts
  <1>3. /\ node \in Nodes /\ node.low = session.nodes[id].low /\ node.high = session.nodes[id].high
        /\ node.version = session.nodes[id].version /\ node.state = "loading"
    BY <1>2 DEF Nodes
  <1> HIDE DEF node
  <1>4. /\ nodes \in Partial(Ids, Nodes) /\ DOMAIN nodes = DOMAIN session.nodes
        /\ nodes[id] = node
        /\ \A x \in DOMAIN session.nodes : x # id => nodes[x] = session.nodes[x]
    BY <1>3, SessionFacts, ExceptFacts
  <1>5. tasks \in Partial(Ids, Tasks)
    BY <1>2, SessionFacts, FreshTask, WithFacts
  <1>6. "graph" \in Places
    BY DEF Places
  <1>7. \A x \in DOMAIN session.nodes :
                 /\ nodes[x].low = session.nodes[x].low
                 /\ nodes[x].high = session.nodes[x].high
                 /\ nodes[x].version = session.nodes[x].version
                 /\ nodes[x].state = IF x = id THEN "loading" ELSE session.nodes[x].state
    <2> HIDE DEF nodes
    <2> QED
      BY <1>3, <1>4
  <1>8. nodes = [session.nodes EXCEPT ![id] = [session.nodes[id] EXCEPT !.state = "loading"]]
    BY DEF node
  <1> HIDE DEF nodes, tasks
  <1>9. session \in Sessions(world)
    BY DEF StateOK
  <1>10. /\ session' \in Sessions(world) /\ session'.at = "graph"
           /\ session'.project = session.project /\ session'.answers = session.answers
           /\ session'.error = session.error /\ session'.fetched = session.fetched
           /\ session'.got = session.got /\ session'.final = session.final
           /\ session'.nodes = nodes /\ session'.tasks = tasks
    BY <1>1, <1>4, <1>5, <1>6, <1>9 DEF Sessions
  <1> QED
    BY <1>4, <1>7, <1>8, <1>10 DEF tasks

(***************************************************************************)
(* Every step keeps the types                                              *)
(***************************************************************************)

LEMMA RestingFacts ==
    ASSUME NEW w
    PROVE  Resting \in Sessions(w)
  <1>1. /\ <<>> \in Partial(Ids, Nodes) /\ <<>> \in Partial(Ids, Tasks)
        /\ <<>> \in Partial(Ids, Picks(w)) /\ <<>> \in Seq(Answers(w))
    BY PartialEmpty
  <1>2. "ended" \in Places /\ NoError \in [kind : Kinds, what : Nat]
    BY DEF Places, Kinds, NoError
  <1> QED
    BY <1>1, <1>2 DEF Resting, Sessions

LEMMA TypeInit ==
    ASSUME Init
    PROVE  TypeOK
  <1>1. world \in Worlds /\ specs = world.specs
    BY DEF Init
  <1>2. specs \in Seq(Projects(world))
    BY <1>1, WorldsAssumption
  <1>3. session \in Sessions(world) /\ session.at = "ended"
    BY RestingFacts DEF Init, Resting
  <1>4. batch \in Partial(Keys(world), Entries(world))
    BY PartialEmpty DEF Init
  <1>5. budget \in Budgets
    BY BoundsAssumption DEF Init, Budgets
  <1>6. discovery \in Discoveries
    BY DEF Init, Undiscovered, Discoveries, NoId
  <1> QED
    BY <1>1, <1>2, <1>3, <1>4, <1>5, <1>6 DEF Init, TypeOK, StateOK, Active, Ended

\* Outside of a graph, nothing is asked of the session but its type.
LEMMA QuietStep ==
    ASSUME StateOK, UNCHANGED world, specs' \in Seq(Projects(world)),
           cache' \in [world.roots -> [Packages -> Archives \cup {Absent}]],
           locks' \in [world.dirs -> Locks(world) \cup {NoLock}],
           session' \in Sessions(world), batch' \in Partial(Keys(world), Entries(world)),
           budget' \in Budgets, wrote' \in [world.dirs -> Projects(world) \cup {NoLock}],
           discovery' \in Discoveries,
           \/ session'.at = "ended"
           \/ session'.at = "project" /\ session'.project \in 1..(Len(specs') + 1)
    PROVE  TypeOK' /\ ~Active'
  BY DEF TypeOK, StateOK, Active, Ended

\* As a graph goes on, its session stays at the project.
LEMMA GraphStep ==
    ASSUME StateOK, UNCHANGED <<world, specs>>,
           cache' \in [world.roots -> [Packages -> Archives \cup {Absent}]],
           locks' \in [world.dirs -> Locks(world) \cup {NoLock}],
           session' \in Sessions(world), batch' \in Partial(Keys(world), Entries(world)),
           budget' \in Budgets, wrote' \in [world.dirs -> Projects(world) \cup {NoLock}],
           discovery' \in Discoveries,
           session.project \in DOMAIN specs, session'.project = session.project
    PROVE  StateOK' /\ Now' = Now /\ Config' = Config
  <1>1. session.project \in 1..(Len(specs) + 1)
    <2>1. specs \in Seq(Projects(world))
      BY DEF StateOK
    <2> QED
      BY <2>1
  <1> QED
    BY <1>1 DEF StateOK, Ended, Now, Config

\* The types a frame condition leaves alone.
LEMMA VariableFacts ==
    ASSUME StateOK
    PROVE  /\ world \in Worlds /\ specs \in Seq(Projects(world))
           /\ cache \in [world.roots -> [Packages -> Archives \cup {Absent}]]
           /\ locks \in [world.dirs -> Locks(world) \cup {NoLock}]
           /\ session \in Sessions(world) /\ batch \in Partial(Keys(world), Entries(world))
           /\ budget \in Budgets /\ wrote \in [world.dirs -> Projects(world) \cup {NoLock}]
           /\ discovery \in Discoveries
           /\ session.at # "ended" => session.project \in 1..(Len(specs) + 1)
           /\ Len(specs) \in Nat /\ DOMAIN specs = 1..Len(specs)
  <1>1. specs \in Seq(Projects(world))
    BY DEF StateOK
  <1> QED
    BY <1>1 DEF StateOK, Ended

LEMMA AtProjectFacts ==
    ASSUME StateOK, AtProject
    PROVE  session.at = "project" /\ session.project \in DOMAIN specs
  <1>1. session.at = "project" /\ session.project <= Len(specs)
    BY DEF AtProject
  <1>2. session.project \in 1..(Len(specs) + 1) /\ Len(specs) \in Nat /\ DOMAIN specs = 1..Len(specs)
    BY <1>1, VariableFacts
  <1> QED
    BY <1>1, <1>2

LEMMA ReasonFacts ==
    ReadWarmLock(Now) \notin {"cold", "warm"}
       => ReadWarmLock(Now) \in {"torn", "absent", "unsigned", "omitted"}
  BY DEF ReadWarmLock

LEMMA TypeProject ==
    ASSUME TypeOK, Finish \/ AnswerEmpty \/ AnswerWarm \/ RejectLock
    PROVE  TypeOK'
  <1>0. StateOK
    BY DEF TypeOK
  <1>1. CASE Finish
    <2>1. session' = [session EXCEPT !.at = "ended"] /\ UNCHANGED <<world, specs, cache, locks, batch, budget, wrote, discovery>>
      BY <1>1 DEF Finish
    <2>2. session' \in Sessions(world) /\ session'.at = "ended"
      BY <1>0, <2>1, VariableFacts DEF Sessions, Places
    <2> QED
      BY <1>0, <2>1, <2>2, QuietStep, VariableFacts
  <1>2. CASE AnswerEmpty
    <2>1. session.project \in DOMAIN specs
      BY <1>0, <1>2, AtProjectFacts DEF AnswerEmpty
    <2>2. ColdAnswer(Now, <<>>) \in Answers(world) /\ Answer(ColdAnswer(Now, <<>>))
      BY <1>0, <1>2, <2>1, ColdAnswerFacts, PartialEmpty DEF AnswerEmpty
    <2>3. /\ session' \in Sessions(world) /\ session'.at = "project"
          /\ session'.project \in 1..(Len(specs) + 1)
      BY <1>0, <2>1, <2>2, AnswerFacts
    <2>4. UNCHANGED <<world, specs, cache, locks, batch, budget, wrote, discovery>>
      BY <1>2 DEF AnswerEmpty
    <2> QED
      BY <1>0, <2>3, <2>4, QuietStep, VariableFacts
  <1>3. CASE AnswerWarm
    <2>1. session.project \in DOMAIN specs
      BY <1>0, <1>3, AtProjectFacts DEF AnswerWarm
    <2>2. WarmAnswer(Now) \in Answers(world) /\ Answer(WarmAnswer(Now))
      BY <1>0, <1>3, <2>1, WarmAnswerFacts DEF AnswerWarm
    <2>3. /\ session' \in Sessions(world) /\ session'.at = "project"
          /\ session'.project \in 1..(Len(specs) + 1)
      BY <1>0, <2>1, <2>2, AnswerFacts
    <2>4. UNCHANGED <<world, specs, cache, locks, batch, budget, wrote, discovery>>
      BY <1>3 DEF AnswerWarm
    <2> QED
      BY <1>0, <2>3, <2>4, QuietStep, VariableFacts
  <1>4. CASE RejectLock
    <2>1. ReadWarmLock(Now) \in Kinds /\ session.project \in Nat
      BY <1>0, <1>4, ReasonFacts, SessionFacts DEF RejectLock, Kinds
    <2>2. session' \in Sessions(world) /\ session'.at = "ended"
      BY <1>0, <1>4, <2>1, FailFacts DEF RejectLock
    <2>3. UNCHANGED <<world, specs, cache, locks, batch, budget, wrote, discovery>>
      BY <1>4 DEF RejectLock
    <2> QED
      BY <1>0, <2>2, <2>3, QuietStep, VariableFacts
  <1> QED
    BY <1>1, <1>2, <1>3, <1>4

LEMMA TypeBeginGraph ==
    ASSUME TypeOK, BeginGraph
    PROVE  TypeOK'
  <1> DEFINE nodes == [id \in DOMAIN Now.refs |-> Node(Now.refs[id].low, Now.refs[id].high)]
  <1>0. StateOK /\ session.project \in DOMAIN specs
    BY AtProjectFacts DEF TypeOK, BeginGraph
  <1>1. nodes \in Partial(Ids, Nodes)
    <2>1. \A id \in DOMAIN Now.refs : Now.refs[id].low \in Versions /\ Now.refs[id].high \in Nat
      BY <1>0, NowFacts DEF ValidProject
    <2>2. nodes \in [DOMAIN Now.refs -> Nodes]
      BY <2>1 DEF Node, Nodes
    <2> QED
      BY <1>0, <2>2, NowFacts, PartialIntro
  <1>2. DOMAIN nodes = DOMAIN Now.refs
    OBVIOUS
  <1>3. session' = [session EXCEPT !.at = "graph", !.nodes = nodes,
                      !.tasks = <<>>, !.got = <<>>, !.final = <<>>, !.fetched = {}]
    BY DEF BeginGraph
  <1> HIDE DEF nodes
  <1>4. /\ <<>> \in Partial(Ids, Tasks) /\ <<>> \in Partial(Ids, Picks(world)) /\ DOMAIN <<>> = {}
    BY PartialEmpty
  <1>5. /\ session' \in Sessions(world) /\ session'.at = "graph"
        /\ session'.project = session.project /\ session'.nodes = nodes /\ session'.tasks = <<>>
    BY <1>0, <1>1, <1>3, <1>4, VariableFacts DEF Sessions, Places
  <1>6. discovery' = Undiscovered /\ UNCHANGED <<world, specs, cache, locks, batch, budget, wrote>>
    BY DEF BeginGraph
  <1>7. Undiscovered \in Discoveries
    BY DEF Undiscovered, Discoveries, NoId
  <1>8. StateOK' /\ Now' = Now
    BY <1>0, <1>5, <1>6, <1>7, GraphStep, VariableFacts
  <1>9. GraphOK'
    <2>1. IsFiniteSet({})
      BY FS_EmptySet
    <2> QED
      BY <1>0, <1>2, <1>4, <1>5, <1>6, <1>8, <2>1 DEF GraphOK, Undiscovered
  <1> QED
    BY <1>8, <1>9 DEF TypeOK

LEMMA ActiveFacts ==
    ASSUME TypeOK, session.at \in {"graph", "discovery", "acquire", "rename", "retry"}
    PROVE  StateOK /\ GraphOK /\ session.project \in DOMAIN specs
  BY DEF TypeOK, Active, GraphOK

LEMMA TasksFinite ==
    ASSUME StateOK
    PROVE  IsFiniteSet(DOMAIN session.tasks) /\ Cardinality(DOMAIN session.tasks) \in Nat
  <1>1. DOMAIN session.tasks \in SUBSET Ids
    BY TaskFacts
  <1>2. IsFiniteSet(DOMAIN session.tasks)
    BY <1>1, ConstantFacts, FS_Subset
  <1> QED
    BY <1>2, FS_CardinalityType

LEMMA BatchFacts ==
    ASSUME StateOK, NEW key \in DOMAIN batch
    PROVE  /\ key \in Keys(world) /\ batch[key] \in Entries(world)
           /\ batch[key].dependencies \in Partial(Ids, Versions)
           /\ batch[key].archive \in Archives \cup {Absent}
           /\ batch[key].origin \in Origins(world)
  <1>1. key \in Keys(world) /\ batch[key] \in Entries(world)
    BY VariableFacts, PartialFacts
  <1> QED
    BY <1>1 DEF Entries

LEMMA TypeReuse ==
    ASSUME TypeOK, Reuse
    PROVE  TypeOK'
  <1>1. PICK id \in DOMAIN session.nodes :
           /\ Dispatches(id) /\ Key(id) \in DOMAIN batch
           /\ session' = [session EXCEPT !.nodes =
                             Known(session.nodes, id, batch[Key(id)].dependencies)]
    BY DEF Reuse
  <1>2. session.at = "graph" /\ UNCHANGED <<world, specs, cache, locks, batch, budget, wrote, discovery>>
    BY <1>1 DEF Dispatches, Reuse
  <1>3. StateOK /\ GraphOK /\ session.project \in DOMAIN specs
    BY <1>2, ActiveFacts
  <1> DEFINE nodes == Known(session.nodes, id, batch[Key(id)].dependencies)
  <1>4. batch[Key(id)].dependencies \in Partial(Ids, Versions)
    BY <1>1, <1>3, BatchFacts
  <1>5. nodes \in Partial(Ids, Nodes) /\ DOMAIN session.nodes \subseteq DOMAIN nodes
    <2>1. session.nodes \in Partial(Ids, Nodes)
      BY <1>3, SessionFacts
    <2> QED
      BY <1>4, <2>1, KnownFacts
  <1> HIDE DEF nodes
  <1>6. /\ session' \in Sessions(world) /\ session'.at = "graph"
        /\ session'.project = session.project /\ session'.nodes = nodes
        /\ session'.tasks = session.tasks
    BY <1>1, <1>2, <1>3, <1>5, VariableFacts DEF Sessions, nodes
  <1>7. StateOK' /\ Now' = Now /\ Config' = Config
    BY <1>2, <1>3, <1>6, GraphStep, VariableFacts
  <1>8. GraphOK'
    BY <1>2, <1>3, <1>5, <1>6, <1>7 DEF GraphOK, TaskOK
  <1> QED
    BY <1>7, <1>8 DEF TypeOK

\* A task is started, of an identity without one or in place of the one it has.
LEMMA TypeSpawned ==
    ASSUME StateOK, GraphOK, NEW id \in DOMAIN session.nodes, NEW endpoints \in Seq(Nat),
           session' = Spawned(id, endpoints),
           UNCHANGED <<world, specs, cache, locks, batch, budget, wrote>>,
           discovery' \in Discoveries, IsFiniteSet(discovery'.slots),
           discovery'.running = {}, discovery'.pending = <<>>, discovery'.completed = <<>>
    PROVE  TypeOK'
  <1>1. session.project \in DOMAIN specs
    BY DEF GraphOK
  <1>2. /\ session' \in Sessions(world) /\ session'.at = "graph"
        /\ session'.project = session.project /\ DOMAIN session'.nodes = DOMAIN session.nodes
        /\ session'.tasks = With(session.tasks, id, Task(endpoints))
    BY SpawnedFacts
  <1>3. StateOK' /\ Now' = Now /\ Config' = Config
    BY <1>1, <1>2, GraphStep, VariableFacts
  <1>4. id \in Ids
    BY <1>1, NodeFacts
  <1>5. /\ \A x : x \in DOMAIN session'.tasks <=> x \in DOMAIN session.tasks \/ x = id
        /\ session'.tasks[id] = Task(endpoints)
        /\ \A x \in DOMAIN session.tasks : x # id => session'.tasks[x] = session.tasks[x]
    <2>1. session.tasks \in Partial(Ids, Tasks) /\ Task(endpoints) \in Tasks
      BY FreshTask, SessionFacts
    <2> QED
      BY <1>2, <1>4, <2>1, WithFacts
  <1>6. ASSUME NEW x \in DOMAIN session'.tasks
        PROVE  TaskOK(session.tasks[x])'
    <2>1. CASE x = id
      BY <1>5, <2>1, FreshTask DEF TaskOK
    <2>2. CASE x # id
      <3>1. x \in DOMAIN session.tasks /\ session'.tasks[x] = session.tasks[x]
        BY <1>5, <2>2
      <3> QED
        BY <1>3, <3>1 DEF GraphOK, TaskOK
    <2> QED
      BY <2>1, <2>2
  <1>7. GraphOK'
    BY <1>1, <1>2, <1>3, <1>5, <1>6 DEF GraphOK
  <1> QED
    BY <1>3, <1>7 DEF TypeOK

LEMMA TypeLoadCached ==
    ASSUME TypeOK, LoadCached
    PROVE  TypeOK'
  <1>1. PICK id \in DOMAIN session.nodes :
           Dispatches(id) /\ session' = Spawned(id, discovery.snapshot)
    BY DEF LoadCached
  <1>2. session.at = "graph" /\ UNCHANGED <<world, specs, cache, locks, batch, budget, wrote, discovery>>
    BY <1>1 DEF Dispatches, LoadCached
  <1>3. StateOK /\ GraphOK
    BY <1>2, ActiveFacts
  <1>4. discovery \in Discoveries /\ discovery.snapshot \in Seq(Nat)
    BY <1>3, VariableFacts DEF Discoveries
  <1> QED
    BY <1>1, <1>2, <1>3, <1>4, TypeSpawned DEF GraphOK

\* What EnsureIdentity leaves: the sources that are endpoints at once, and the jobs.
LEMMA EnsureFacts ==
    ASSUME StateOK, GraphOK, session.at = "graph", NEW id \in Nat, NEW workers \in Nat,
           EnsureIdentity(Config, id, session.online, workers)
    PROVE  /\ discovery' \in Discoveries /\ IsFiniteSet(discovery'.slots)
           /\ discovery'.asked = id
           /\ IsFiniteSet(discovery'.running) /\ Cardinality(discovery'.running) <= workers
           /\ \A s : s \in discovery'.slots <=>
                 \/ s \in discovery.slots
                 \/ /\ s \in SelectedSources(Config, id)
                    /\ \/ Config.sources[s].protocol = "local"
                       \/ session.online /\ Config.sources[s].protocol = "v2"
           /\ \A s : s \in Queued(discovery') <=>
                 /\ session.online /\ Config.sources[s].protocol = "v3"
                 /\ s \in SelectedSources(Config, id) /\ s \notin discovery.slots
  <1> DEFINE new == SelectedSources(Config, id) \ discovery.slots
             Of(protocol) == {s \in new : Config.sources[s].protocol = protocol}
             ready == Of("local") \cup (IF session.online THEN Of("v2") ELSE {})
             jobs == IF session.online THEN Of("v3") ELSE {}
             d == [discovery EXCEPT !.slots = @ \cup ready, !.asked = id, !.pending = InOrder(jobs)]
  <1>1. /\ session.project \in DOMAIN specs /\ discovery \in Discoveries
        /\ IsFiniteSet(discovery.slots)
        /\ discovery.running = {} /\ discovery.pending = <<>> /\ discovery.completed = <<>>
    BY VariableFacts DEF GraphOK
  <1>2. discovery' = Staffed(d, workers)
    BY DEF EnsureIdentity
  <1>3. new \in SUBSET DOMAIN Config.sources /\ IsFiniteSet(DOMAIN Config.sources)
        /\ DOMAIN Config.sources \subseteq Nat \ {0}
    BY <1>1, SelectedFacts
  <1>4. ready \in SUBSET DOMAIN Config.sources /\ jobs \in SUBSET DOMAIN Config.sources
    BY <1>3
  <1> HIDE DEF ready, jobs
  <1>5. IsFiniteSet(ready) /\ IsFiniteSet(jobs)
    BY <1>3, <1>4, FS_Subset
  <1>6. /\ InOrder(jobs) \in Seq(jobs) /\ ToSet(InOrder(jobs)) = jobs
    <2>1. jobs \subseteq Int
      BY <1>3, <1>4
    <2> QED
      BY <1>5, <2>1, InOrderFacts
  <1>7. InOrder(jobs) \in Seq(Nat) /\ ready \subseteq Nat
    <2>1. jobs \subseteq Nat
      BY <1>3, <1>4
    <2> QED
      BY <1>3, <1>4, <1>6, <2>1
  <1>8. /\ d \in Discoveries /\ d.slots = discovery.slots \cup ready /\ d.asked = id
        /\ d.running = {} /\ d.pending = InOrder(jobs) /\ d.completed = <<>>
    <2>1. d = [discovery EXCEPT !.slots = discovery.slots \cup ready, !.asked = id,
                                !.pending = InOrder(jobs)]
      BY <1>1 DEF Discoveries
    <2> QED
      BY <1>1, <1>7, <2>1 DEF Discoveries
  <1> HIDE DEF d
  <1>9. IsFiniteSet(d.slots)
    <2>1. IsFiniteSet(discovery.slots \cup ready)
      BY <1>1, <1>5, FS_Union
    <2> QED
      BY <1>8, <2>1
  <1>10. IsFiniteSet(d.running) /\ Cardinality(d.running) <= workers /\ workers \in Int
    <2>1. IsFiniteSet({}) /\ Cardinality({}) = 0
      BY FS_EmptySet
    <2> QED
      BY <1>8, <2>1
  <1>11. Queued(d) = jobs
    <2>1. ToSet(<<>>) = {}
      BY DEF ToSet
    <2> QED
      BY <1>6, <1>8, <2>1 DEF Queued
  <1>12. /\ discovery' \in Discoveries /\ discovery'.slots = d.slots /\ discovery'.asked = id
         /\ IsFiniteSet(discovery'.running) /\ Cardinality(discovery'.running) <= workers
         /\ Queued(discovery') = jobs
    BY <1>2, <1>8, <1>10, <1>11, StaffedFacts
  <1>13. \A s : s \in discovery'.slots <=> s \in discovery.slots \/ s \in ready
    BY <1>8, <1>12
  <1>14. \A s : s \in ready <=>
            /\ s \in SelectedSources(Config, id) /\ s \notin discovery.slots
            /\ \/ Config.sources[s].protocol = "local"
               \/ session.online /\ Config.sources[s].protocol = "v2"
    BY DEF ready
  <1>15. \A s : s \in jobs <=>
            /\ session.online /\ Config.sources[s].protocol = "v3"
            /\ s \in SelectedSources(Config, id) /\ s \notin discovery.slots
    BY DEF jobs
  <1> QED
    BY <1>9, <1>12, <1>13, <1>14, <1>15

LEMMA TypeDiscover ==
    ASSUME TypeOK, Discover
    PROVE  TypeOK'
  <1>1. PICK id \in DOMAIN session.nodes :
           /\ Dispatches(id)
           /\ IF Unmapped(Config, id)
              THEN Fail("unmapped", id) /\ UNCHANGED discovery
              ELSE /\ session' = [session EXCEPT !.at = "discovery"]
                   /\ EnsureIdentity(Config, id, session.online, Workers)
    BY DEF Discover
  <1>2. session.at = "graph" /\ Cardinality(DOMAIN session.tasks) < MaxWorkers
        /\ UNCHANGED <<world, specs, cache, locks, batch, budget, wrote>>
    BY <1>1 DEF Dispatches, Discover
  <1>3. StateOK /\ GraphOK /\ session.project \in DOMAIN specs
    BY <1>2, ActiveFacts
  <1>4. id \in Ids /\ id \in Nat
    BY <1>3, NodeFacts, ConstantFacts
  <1>5. CASE Unmapped(Config, id)
    <2>1. session' \in Sessions(world) /\ session'.at = "ended"
      BY <1>1, <1>3, <1>4, <1>5, FailFacts DEF Kinds
    <2>2. UNCHANGED discovery
      BY <1>1, <1>5
    <2> QED
      BY <1>2, <1>3, <2>1, <2>2, QuietStep, VariableFacts
  <1>6. CASE ~Unmapped(Config, id)
    <2>1. session' = [session EXCEPT !.at = "discovery"]
          /\ EnsureIdentity(Config, id, session.online, Workers)
      BY <1>1, <1>6
    <2>2. Workers \in Nat
      BY <1>2, <1>3, TasksFinite, ConstantFacts DEF Workers
    <2>3. /\ discovery' \in Discoveries /\ IsFiniteSet(discovery'.slots) /\ discovery'.asked = id
          /\ IsFiniteSet(discovery'.running) /\ Cardinality(discovery'.running) <= Workers
      BY <1>2, <1>3, <1>4, <2>1, <2>2, EnsureFacts
    <2>4. /\ session' \in Sessions(world) /\ session'.at = "discovery"
          /\ session'.project = session.project /\ session'.nodes = session.nodes
          /\ session'.tasks = session.tasks
      BY <1>3, <2>1, VariableFacts DEF Sessions, Places
    <2>5. StateOK' /\ Now' = Now /\ Config' = Config
      BY <1>2, <1>3, <2>3, <2>4, GraphStep, VariableFacts
    <2>6. Workers' = Workers
      BY <2>4 DEF Workers
    <2>7. \A x \in DOMAIN session.tasks : TaskOK(session.tasks[x])'
      BY <1>3, <2>4, <2>5 DEF GraphOK, TaskOK
    <2>8. DOMAIN Now.refs \cup DOMAIN session.tasks \subseteq DOMAIN session.nodes
      BY <1>3 DEF GraphOK
    <2>9. GraphOK'
      BY <1>2, <1>3, <2>3, <2>4, <2>5, <2>6, <2>7, <2>8 DEF GraphOK
    <2> QED
      BY <2>5, <2>9 DEF TypeOK
  <1> QED
    BY <1>5, <1>6

\* A service index arrives, and frees the worker that fetched it.
LEMMA ArriveFacts ==
    ASSUME NEW d \in Discoveries, NEW workers \in Nat, NEW s \in d.running,
           IsFiniteSet(d.running), Cardinality(d.running) <= workers
    PROVE  LET e == Staffed([d EXCEPT !.running = @ \ {s}, !.completed = Append(@, s)], workers)
           IN  /\ e \in Discoveries /\ e.slots = d.slots /\ e.asked = d.asked
               /\ IsFiniteSet(e.running) /\ Cardinality(e.running) <= workers
               /\ Queued(e) = Queued(d)
  <1> DEFINE c == [d EXCEPT !.running = @ \ {s}, !.completed = Append(@, s)]
  <1>1. /\ c \in Discoveries /\ c.slots = d.slots /\ c.asked = d.asked
        /\ c.running = d.running \ {s} /\ c.pending = d.pending
        /\ c.completed = Append(d.completed, s)
    <2>1. c = [d EXCEPT !.running = d.running \ {s}, !.completed = Append(d.completed, s)]
      BY DEF Discoveries
    <2>2. d.running \ {s} \subseteq Nat /\ s \in Nat /\ d.completed \in Seq(Nat)
      BY DEF Discoveries
    <2>3. Append(d.completed, s) \in Seq(Nat)
      BY <2>2
    <2> QED
      BY <2>1, <2>2, <2>3 DEF Discoveries
  <1> HIDE DEF c
  <1>2. IsFiniteSet(c.running) /\ Cardinality(c.running) <= workers
    <2>1. IsFiniteSet(d.running \ {s}) /\ Cardinality(d.running \ {s}) = Cardinality(d.running) - 1
      BY FS_RemoveElement
    <2>2. Cardinality(d.running) \in Nat
      BY FS_CardinalityType
    <2> QED
      BY <1>1, <2>1, <2>2
  <1>3. ToSet(c.completed) = ToSet(d.completed) \cup {s}
    <2>1. d.completed \in Seq(Nat) /\ s \in Nat
      BY DEF Discoveries
    <2>2. /\ Len(d.completed) \in Nat /\ DOMAIN d.completed = 1..Len(d.completed)
          /\ DOMAIN c.completed = 1..(Len(d.completed) + 1)
          /\ \A i \in 1..Len(d.completed) : c.completed[i] = d.completed[i]
          /\ c.completed[Len(d.completed) + 1] = s
      BY <1>1, <2>1
    <2>3. \A t \in ToSet(c.completed) : t \in ToSet(d.completed) \cup {s}
      <3> SUFFICES ASSUME NEW i \in DOMAIN c.completed
                   PROVE  c.completed[i] \in ToSet(d.completed) \cup {s}
        BY DEF ToSet
      <3> QED
        BY <2>2 DEF ToSet
    <2>4. s \in ToSet(c.completed)
      <3>1. Len(d.completed) + 1 \in DOMAIN c.completed
        BY <2>2
      <3> QED
        BY <2>2, <3>1 DEF ToSet
    <2>5. \A t \in ToSet(d.completed) : t \in ToSet(c.completed)
      <3> SUFFICES ASSUME NEW i \in DOMAIN d.completed
                   PROVE  d.completed[i] \in ToSet(c.completed)
        BY DEF ToSet
      <3>1. i \in DOMAIN c.completed /\ c.completed[i] = d.completed[i]
        BY <2>2
      <3> QED
        BY <3>1 DEF ToSet
    <2> QED
      BY <2>3, <2>4, <2>5
  <1>4. Queued(c) = Queued(d)
    BY <1>1, <1>3 DEF Queued
  <1>5. workers \in Int
    OBVIOUS
  <1> QED
    BY <1>1, <1>2, <1>4, <1>5, StaffedFacts DEF c

LEMMA TypeArrive ==
    ASSUME TypeOK, Arrive
    PROVE  TypeOK'
  <1>1. session.at = "discovery" /\ UNCHANGED <<world, specs, cache, locks, session, batch, budget, wrote>>
    BY DEF Arrive
  <1>2. StateOK /\ GraphOK /\ session.project \in DOMAIN specs
    BY <1>1, ActiveFacts
  <1>3. PICK s \in DOMAIN Config.sources : IndexArrives(s, Workers)
    BY DEF Arrive
  <1>4. /\ discovery \in Discoveries /\ IsFiniteSet(discovery.slots)
        /\ discovery.asked \in DOMAIN session.nodes
        /\ IsFiniteSet(discovery.running) /\ Cardinality(discovery.running) <= Workers
    BY <1>1, <1>2, VariableFacts DEF GraphOK
  <1>5. Workers \in Nat
    <2>1. Workers \in Int /\ Cardinality(discovery.running) \in Nat
      BY <1>2, <1>4, TasksFinite, ConstantFacts, FS_CardinalityType DEF Workers
    <2> QED
      BY <1>4, <2>1
  <1>6. /\ s \in discovery.running
        /\ discovery' = Staffed([discovery EXCEPT !.running = @ \ {s}, !.completed = Append(@, s)],
                                Workers)
    BY <1>3 DEF IndexArrives
  <1>7. /\ discovery' \in Discoveries /\ discovery'.slots = discovery.slots
        /\ discovery'.asked = discovery.asked
        /\ IsFiniteSet(discovery'.running) /\ Cardinality(discovery'.running) <= Workers
    BY <1>4, <1>5, <1>6, ArriveFacts
  <1>8. StateOK' /\ Now' = Now /\ Config' = Config
    BY <1>1, <1>2, <1>7, GraphStep, VariableFacts
  <1>9. Workers' = Workers
    BY <1>1 DEF Workers
  <1>10. \A x \in DOMAIN session.tasks : TaskOK(session.tasks[x])'
    BY <1>1, <1>2, <1>8 DEF GraphOK, TaskOK
  <1>11. DOMAIN Now.refs \cup DOMAIN session.tasks \subseteq DOMAIN session.nodes
    BY <1>2 DEF GraphOK
  <1>12. GraphOK'
    BY <1>1, <1>2, <1>4, <1>7, <1>8, <1>9, <1>10, <1>11 DEF GraphOK
  <1> QED
    BY <1>8, <1>12 DEF TypeOK

LEMMA SeqSubset ==
    ASSUME NEW S, NEW T, S \subseteq T, NEW s \in Seq(S)
    PROVE  s \in Seq(T)
  OBVIOUS

\* What Settle leaves.
LEMMA SettleFacts ==
    ASSUME NEW config, discovery \in Discoveries, IsFiniteSet(discovery.slots),
           AllArrived, Settle(config)
    PROVE  /\ discovery' \in Discoveries /\ IsFiniteSet(discovery'.slots)
           /\ discovery'.slots = discovery.slots \cup ToSet(discovery.completed)
           /\ discovery'.running = {} /\ discovery'.pending = <<>> /\ discovery'.completed = <<>>
           /\ discovery'.snapshot \in Seq(Nat)
  <1> DEFINE slots == discovery.slots \cup ToSet(discovery.completed)
             Folders == {s \in slots : config.sources[s].protocol = "local"}
             Others == slots \ Folders
             snapshot == EndpointSnapshot(config, slots)
  <1>1. discovery.slots \subseteq Nat /\ discovery.completed \in Seq(Nat)
    BY DEF Discoveries
  <1>2. ToSet(discovery.completed) \subseteq Nat /\ IsFiniteSet(ToSet(discovery.completed))
    BY <1>1, SeqFacts
  <1>3. slots \subseteq Nat /\ IsFiniteSet(slots)
    BY <1>1, <1>2, FS_Union
  <1>4. snapshot = InOrder(Folders) \o InOrder(Others)
    BY DEF EndpointSnapshot
  <1>5. discovery' = [discovery EXCEPT !.slots = slots, !.asked = NoId, !.completed = <<>>,
                                       !.snapshot = snapshot]
    BY DEF Settle
  <1>6. Folders \in SUBSET slots /\ Others \in SUBSET slots
    OBVIOUS
  <1>7. slots = discovery.slots \cup ToSet(discovery.completed)
    OBVIOUS
  <1> HIDE DEF slots, Folders, Others, snapshot
  <1>8. IsFiniteSet(Folders) /\ IsFiniteSet(Others)
    BY <1>3, <1>6, FS_Subset
  <1>9. InOrder(Folders) \in Seq(Folders) /\ InOrder(Others) \in Seq(Others)
    <2>1. Folders \subseteq Int /\ Others \subseteq Int
      BY <1>3, <1>6
    <2> QED
      BY <1>8, <2>1, InOrderFacts
  <1>10. InOrder(Folders) \in Seq(Nat) /\ InOrder(Others) \in Seq(Nat)
    <2>1. Folders \subseteq Nat /\ Others \subseteq Nat
      BY <1>3, <1>6
    <2> QED
      BY <1>9, <2>1, SeqSubset
  <1>11. snapshot \in Seq(Nat)
    BY <1>4, <1>10
  <1>12. /\ discovery' \in Discoveries /\ discovery'.slots = slots
         /\ discovery'.running = discovery.running /\ discovery'.pending = discovery.pending
         /\ discovery'.completed = <<>> /\ discovery'.snapshot \in Seq(Nat)
    <2>1. discovery' = [discovery EXCEPT !.slots = slots, !.asked = 0, !.completed = <<>>,
                                         !.snapshot = snapshot]
      BY <1>5 DEF NoId
    <2>2. slots \in SUBSET Nat /\ <<>> \in Seq(Nat) /\ 0 \in Nat
      BY <1>3
    <2>3. discovery' \in Discoveries
      BY <1>11, <2>1, <2>2 DEF Discoveries
    <2>4. /\ discovery'.slots = slots /\ discovery'.snapshot = snapshot
          /\ discovery'.running = discovery.running /\ discovery'.pending = discovery.pending
          /\ discovery'.completed = <<>>
      BY <2>1 DEF Discoveries
    <2> QED
      BY <1>11, <2>3, <2>4
  <1> QED
    BY <1>3, <1>7, <1>12 DEF AllArrived

LEMMA TypeDiscovered ==
    ASSUME TypeOK, Discovered
    PROVE  TypeOK'
  <1>1. session.at = "discovery" /\ AllArrived /\ Settle(Config)
        /\ session' = Spawned(discovery.asked, discovery'.snapshot)
        /\ UNCHANGED <<world, specs, cache, locks, batch, budget, wrote>>
    BY DEF Discovered
  <1>2. StateOK /\ GraphOK /\ session.project \in DOMAIN specs
    BY <1>1, ActiveFacts
  <1>3. discovery \in Discoveries /\ IsFiniteSet(discovery.slots)
        /\ discovery.asked \in DOMAIN session.nodes
    BY <1>1, <1>2, VariableFacts DEF GraphOK
  <1>4. /\ discovery' \in Discoveries /\ IsFiniteSet(discovery'.slots)
        /\ discovery'.running = {} /\ discovery'.pending = <<>> /\ discovery'.completed = <<>>
        /\ discovery'.snapshot \in Seq(Nat)
    BY <1>1, <1>3, SettleFacts
  <1> DEFINE id == discovery.asked
             endpoints == discovery'.snapshot
  <1>5. id \in DOMAIN session.nodes /\ endpoints \in Seq(Nat) /\ session' = Spawned(id, endpoints)
    BY <1>1, <1>3, <1>4
  <1> HIDE DEF id, endpoints
  <1> QED
    BY <1>1, <1>2, <1>4, <1>5, TypeSpawned

LEMMA TypeDiscoveryFails ==
    ASSUME TypeOK, DiscoveryFails
    PROVE  TypeOK' /\ ~Active'
  <1>1. session.at = "discovery" /\ FirstFailure(Config) # 0
        /\ Fail("discovery", FirstFailure(Config))
        /\ UNCHANGED <<world, specs, cache, locks, batch, budget, wrote, discovery>>
    BY DEF DiscoveryFails
  <1>2. StateOK /\ discovery \in Discoveries
    BY <1>1, ActiveFacts, VariableFacts
  <1>3. FirstFailure(Config) \in Nat
    <2>1. FirstFailure(Config) \in ToSet(discovery.completed)
      BY <1>1, <1>2, FirstFailureFacts
    <2>2. ToSet(discovery.completed) \subseteq Nat
      <3>1. discovery.completed \in Seq(Nat)
        BY <1>2 DEF Discoveries
      <3> QED
        BY <3>1, SeqFacts
    <2> QED
      BY <2>1, <2>2
  <1>4. "discovery" \in Kinds
    BY DEF Kinds
  <1>5. session' \in Sessions(world) /\ session'.at = "ended"
    BY <1>1, <1>2, <1>3, <1>4, FailFacts
  <1> QED
    BY <1>1, <1>2, <1>5, QuietStep, VariableFacts

LEMMA PublishedFacts ==
    ASSUME StateOK, session.project \in DOMAIN specs, NEW task \in Tasks, NEW package \in Packages
    PROVE  /\ Published(task, package) \in [world.roots -> [Packages -> Archives \cup {Absent}]]
           /\ \A root \in world.roots, p \in Packages :
                 Published(task, package)[root][p] =
                    IF task.archive # Absent /\ root = Config.root /\ p = package
                    THEN task.archive ELSE cache[root][p]
  <1>1. cache \in [world.roots -> [Packages -> Archives \cup {Absent}]] /\ Config.root \in world.roots
    BY VariableFacts, NowFacts
  <1>2. task.archive \in Archives \cup {Absent}
    BY DEF Tasks
  <1>3. CASE task.archive = Absent
    BY <1>1, <1>3 DEF Published
  <1>4. CASE task.archive # Absent
    <2> DEFINE folder == [cache[Config.root] EXCEPT ![package] = task.archive]
    <2>1. Published(task, package) = [cache EXCEPT ![Config.root] = folder]
      BY <1>4 DEF Published
    <2>2. /\ folder \in [Packages -> Archives \cup {Absent}]
          /\ \A p \in Packages : folder[p] = IF p = package THEN task.archive
                                             ELSE cache[Config.root][p]
      BY <1>1, <1>2
    <2> HIDE DEF folder
    <2> QED
      BY <1>1, <1>4, <2>1, <2>2
  <1> QED
    BY <1>3, <1>4

\* A task has done its work.
LEMMA LoadSession ==
    ASSUME TypeOK, NEW id \in Ids, Load(id)
    PROVE  LET task == Loaded(session.tasks[id], id)
           IN  /\ StateOK /\ GraphOK /\ session.project \in DOMAIN specs
               /\ session.at \in {"graph", "discovery"}
               /\ id \in DOMAIN session.tasks /\ id \in DOMAIN session.nodes
               /\ session.tasks[id] \in Tasks
               /\ session.tasks[id].archive = Absent /\ session.tasks[id].origin = 0
               /\ session' \in Sessions(world)
               /\ session'.at = session.at /\ session'.project = session.project
               /\ session'.nodes = session.nodes /\ session'.got = session.got
               /\ session'.final = session.final /\ session'.answers = session.answers
               /\ session'.error = session.error
               /\ session'.tasks = [session.tasks EXCEPT ![id] = task]
               /\ session'.fetched =
                     IF task.origin = 0 THEN session.fetched
                     ELSE session.fetched \cup {<<id, task.origin>>}
               /\ cache' = Published(task, Package(id))
               /\ UNCHANGED <<world, specs, locks, batch, budget, wrote, discovery>>
  <1> DEFINE task == Loaded(session.tasks[id], id)
             tasks == [session.tasks EXCEPT ![id] = task]
             fetched == IF task.origin = 0 THEN session.fetched
                        ELSE session.fetched \cup {<<id, task.origin>>}
  <1>1. /\ session.at \in {"graph", "discovery"} /\ id \in DOMAIN session.tasks
        /\ session.tasks[id].result = "none" /\ cache' = Published(task, Package(id))
        /\ UNCHANGED <<world, specs, locks, batch, budget, wrote, discovery>>
        /\ session' = [session EXCEPT !.tasks[id] = task,
                             !.fetched = IF task.origin = 0 THEN @ ELSE @ \cup {<<id, task.origin>>}]
    BY DEF Load
  <1>2. StateOK /\ GraphOK /\ session.project \in DOMAIN specs
    BY <1>1, ActiveFacts
  <1>3. session.tasks[id] \in Tasks /\ id \in DOMAIN session.nodes
    BY <1>1, <1>2, TaskFacts DEF GraphOK
  <1>4. session.tasks[id].archive = Absent /\ session.tasks[id].origin = 0
    BY <1>1, <1>2 DEF GraphOK, TaskOK
  <1>5. task \in Tasks
    BY <1>2, <1>3, <1>4, LoadedFacts
  <1>6. session \in Sessions(world)
    BY <1>2, VariableFacts
  <1>7. session' = [session EXCEPT !.tasks = tasks, !.fetched = fetched]
    BY <1>1, <1>6 DEF Sessions
  <1>8. tasks \in Partial(Ids, Tasks)
    BY <1>1, <1>2, <1>5, SessionFacts, ExceptFacts
  <1>9. fetched \in SUBSET (Ids \X Nat)
    <2>1. task.origin \in Nat /\ session.fetched \subseteq Ids \X Nat
      BY <1>2, <1>5, SessionFacts DEF Tasks
    <2> HIDE DEF task
    <2> QED
      BY <2>1
  <1> HIDE DEF tasks, fetched, task
  <1>10. /\ session' \in Sessions(world)
         /\ session'.at = session.at /\ session'.project = session.project
         /\ session'.nodes = session.nodes /\ session'.got = session.got
         /\ session'.final = session.final /\ session'.answers = session.answers
         /\ session'.error = session.error
         /\ session'.tasks = tasks /\ session'.fetched = fetched
    BY <1>6, <1>7, <1>8, <1>9 DEF Sessions
  <1> QED
    BY <1>1, <1>2, <1>3, <1>4, <1>10 DEF tasks, fetched, task

LEMMA TypeLoad ==
    ASSUME TypeOK, NEW id \in Ids, Load(id)
    PROVE  TypeOK'
  <1> DEFINE task == Loaded(session.tasks[id], id)
  <1>1. /\ StateOK /\ GraphOK /\ session.project \in DOMAIN specs
        /\ session.at \in {"graph", "discovery"}
        /\ id \in DOMAIN session.tasks /\ id \in DOMAIN session.nodes
        /\ session.tasks[id] \in Tasks
        /\ session.tasks[id].archive = Absent /\ session.tasks[id].origin = 0
        /\ session' \in Sessions(world)
        /\ session'.at = session.at /\ session'.project = session.project
        /\ session'.nodes = session.nodes
        /\ session'.tasks = [session.tasks EXCEPT ![id] = task]
        /\ cache' = Published(task, Package(id))
        /\ UNCHANGED <<world, specs, locks, batch, budget, wrote, discovery>>
    BY LoadSession
  <1>2. /\ task \in Tasks /\ task.result # "none"
        /\ task.origin # 0 => task.origin \in SelectedSources(Config, id)
    BY <1>1, LoadedFacts
  <1>3. task.origin # 0 => task.origin \in DOMAIN Config.sources
    BY <1>1, <1>2, SelectedFacts
  <1> HIDE DEF task
  <1>4. cache' \in [world.roots -> [Packages -> Archives \cup {Absent}]]
    BY <1>1, <1>2, NodeFacts, PublishedFacts
  <1>5. StateOK' /\ Now' = Now /\ Config' = Config
    BY <1>1, <1>4, GraphStep, VariableFacts
  <1>6. /\ DOMAIN session'.tasks = DOMAIN session.tasks /\ session'.tasks[id] = task
        /\ \A x \in DOMAIN session.tasks : x # id => session'.tasks[x] = session.tasks[x]
    BY <1>1
  <1>7. ASSUME NEW x \in DOMAIN session'.tasks
        PROVE  TaskOK(session.tasks[x])'
    <2>1. CASE x = id
      BY <1>2, <1>3, <1>5, <1>6, <2>1 DEF TaskOK
    <2>2. CASE x # id
      <3>1. x \in DOMAIN session.tasks /\ session'.tasks[x] = session.tasks[x]
        BY <1>6, <2>2
      <3> QED
        BY <1>1, <1>5, <3>1 DEF GraphOK, TaskOK
    <2> QED
      BY <2>1, <2>2
  <1>8. Workers' = Workers
    BY <1>6 DEF Workers
  <1>9. GraphOK'
    <2>1. DOMAIN Now.refs \cup DOMAIN session.tasks \subseteq DOMAIN session.nodes
      BY <1>1 DEF GraphOK
    <2>2. /\ IsFiniteSet(discovery.slots)
          /\ IF session.at = "discovery"
             THEN /\ discovery.asked \in DOMAIN session.nodes
                  /\ IsFiniteSet(discovery.running) /\ Cardinality(discovery.running) <= Workers
             ELSE discovery.running = {} /\ discovery.pending = <<>> /\ discovery.completed = <<>>
      BY <1>1 DEF GraphOK
    <2> QED
      BY <1>1, <1>5, <1>6, <1>7, <1>8, <2>1, <2>2 DEF GraphOK
  <1> QED
    BY <1>5, <1>9 DEF TypeOK

\* The name a task's source has.
LEMMA OriginFacts ==
    ASSUME StateOK, session.project \in DOMAIN specs, NEW task \in Tasks,
           task.origin # 0 => task.origin \in DOMAIN Config.sources
    PROVE  Origin(task) \in Origins(world)
  BY NowFacts DEF Origin, Origins

LEMMA RememberedFacts ==
    ASSUME StateOK, session.project \in DOMAIN specs, NEW id \in DOMAIN session.nodes,
           NEW dependencies \in Partial(Ids, Versions), NEW archive \in Archives \cup {Absent},
           NEW origin \in Origins(world)
    PROVE  LET memory == Remembered(id, dependencies, archive, origin)
           IN  /\ memory \in Partial(Keys(world), Entries(world))
               /\ \A key : key \in DOMAIN memory <=> key \in DOMAIN batch \/ key = Key(id)
               /\ \A key \in DOMAIN batch :
                     /\ memory[key].dependencies = batch[key].dependencies
                     /\ key # Key(id) => memory[key] = batch[key]
                     /\ batch[key].archive # Absent => memory[key] = batch[key]
               /\ Key(id) \notin DOMAIN batch => memory[Key(id)].dependencies = dependencies
               /\ \/ memory[Key(id)].archive = archive
                  \/ Key(id) \in DOMAIN batch /\ memory[Key(id)] = batch[Key(id)]
  <1> DEFINE entry == [dependencies |-> dependencies, archive |-> archive, origin |-> origin]
             memory == Remembered(id, dependencies, archive, origin)
             key == Key(id)
  <1>1. batch \in Partial(Keys(world), Entries(world)) /\ key \in Keys(world)
    BY NodeFacts, VariableFacts
  <1>2. entry \in Entries(world) /\ entry.dependencies = dependencies /\ entry.archive = archive
    BY DEF Entries
  <1>3. CASE key \notin DOMAIN batch
    <2>1. memory = With(batch, key, entry)
      BY <1>3 DEF Remembered
    <2> HIDE DEF entry, memory, key
    <2>2. /\ memory \in Partial(Keys(world), Entries(world))
          /\ \A k : k \in DOMAIN memory <=> k \in DOMAIN batch \/ k = key
          /\ memory[key] = entry
          /\ \A k \in DOMAIN batch : k # key => memory[k] = batch[k]
      BY <1>1, <1>2, <2>1, WithFacts
    <2> QED
      BY <1>2, <1>3, <2>2 DEF memory, key
  <1>4. CASE key \in DOMAIN batch
    <2> DEFINE new == IF batch[key].archive = Absent
                      THEN [batch[key] EXCEPT !.archive = archive, !.origin = origin]
                      ELSE batch[key]
    <2>1. memory = [batch EXCEPT ![key] = new]
      BY <1>4 DEF Remembered
    <2>2. batch[key] \in Entries(world)
      BY <1>4, BatchFacts
    <2>3. /\ new \in Entries(world) /\ new.dependencies = batch[key].dependencies
          /\ batch[key].archive # Absent => new = batch[key]
          /\ new.archive = archive \/ new = batch[key]
      BY <2>2 DEF Entries
    <2> HIDE DEF memory, key, new
    <2>4. /\ memory \in Partial(Keys(world), Entries(world)) /\ DOMAIN memory = DOMAIN batch
          /\ memory[key] = new /\ \A k \in DOMAIN batch : k # key => memory[k] = batch[k]
      BY <1>1, <1>4, <2>1, <2>3, ExceptFacts
    <2> QED
      BY <1>4, <2>3, <2>4 DEF memory, key
  <1> QED
    BY <1>3, <1>4

LEMMA JoinSession ==
    ASSUME TypeOK, JoinRequirements
    PROVE  \E id \in DOMAIN session.tasks :
              LET task == session.tasks[id]
                  dependencies == Dependencies(Now.target, Package(id))
              IN  /\ StateOK /\ GraphOK /\ session.project \in DOMAIN specs
                  /\ session.at = "graph" /\ id \in DOMAIN session.nodes
                  /\ task \in Tasks /\ TaskOK(task) /\ task.result = "requirements"
                  /\ dependencies \in Partial(Ids, Versions)
                  /\ Origin(task) \in Origins(world)
                  /\ batch' = Remembered(id, dependencies, task.archive, Origin(task))
                  /\ session' \in Sessions(world)
                  /\ session'.at = "graph" /\ session'.project = session.project
                  /\ session'.nodes = Known(session.nodes, id, dependencies)
                  /\ session'.tasks = Without(session.tasks, id)
                  /\ session'.got =
                        IF task.archive = Absent THEN session.got
                        ELSE With(session.got, id, Pick(id, task.archive, Origin(task)))
                  /\ session'.final = session.final /\ session'.answers = session.answers
                  /\ session'.error = session.error /\ session'.fetched = session.fetched
                  /\ UNCHANGED <<world, specs, cache, locks, budget, wrote, discovery>>
  <1>1. PICK id \in DOMAIN session.tasks :
          /\ Joins(id)
          /\ session.tasks[id].result = "requirements"
          /\ LET task == session.tasks[id]
                 dependencies == Dependencies(Now.target, Package(id))
             IN  /\ batch' = Remembered(id, dependencies, task.archive, Origin(task))
                 /\ session' = [session EXCEPT
                       !.nodes = Known(@, id, dependencies), !.tasks = Without(@, id),
                       !.got = IF task.archive = Absent THEN @
                               ELSE With(@, id, Pick(id, task.archive, Origin(task)))]
    BY DEF JoinRequirements
  <1> DEFINE task == session.tasks[id]
             dependencies == Dependencies(Now.target, Package(id))
             nodes == Known(session.nodes, id, dependencies)
             tasks == Without(session.tasks, id)
             got == IF task.archive = Absent THEN session.got
                    ELSE With(session.got, id, Pick(id, task.archive, Origin(task)))
  <1>2. session.at = "graph"
    BY <1>1 DEF Joins
  <1>3. StateOK /\ GraphOK /\ session.project \in DOMAIN specs
    BY <1>2, ActiveFacts
  <1>4. task \in Tasks /\ id \in DOMAIN session.nodes /\ TaskOK(task) /\ id \in Ids
    BY <1>1, <1>3, TaskFacts DEF GraphOK
  <1>5. Origin(task) \in Origins(world)
    BY <1>3, <1>4, OriginFacts DEF TaskOK
  <1>6. dependencies \in Partial(Ids, Versions) /\ Version(id) \in Versions
    BY <1>3, <1>4, NodeFacts
  <1>7. session \in Sessions(world)
    BY <1>3, VariableFacts
  <1>8. session' = [session EXCEPT !.nodes = nodes, !.tasks = tasks, !.got = got]
    BY <1>1, <1>7 DEF Sessions
  <1>9. nodes \in Partial(Ids, Nodes)
    <2>1. session.nodes \in Partial(Ids, Nodes)
      BY <1>3, SessionFacts
    <2> QED
      BY <1>4, <1>6, <2>1, KnownFacts
  <1>10. tasks \in Partial(Ids, Tasks)
    BY <1>3, SessionFacts, WithoutFacts
  <1>11. got \in Partial(Ids, Picks(world))
    <2>1. session.got \in Partial(Ids, Picks(world))
      BY <1>3, SessionFacts
    <2>2. ASSUME task.archive # Absent
          PROVE  Pick(id, task.archive, Origin(task)) \in Picks(world)
      <3>1. task.archive \in Archives
        BY <1>4, <2>2 DEF Tasks
      <3> QED
        BY <1>5, <1>6, <3>1 DEF Pick, Picks
    <2> QED
      BY <1>4, <2>1, <2>2, WithFacts
  <1> HIDE DEF nodes, tasks, got
  <1>12. /\ session' \in Sessions(world)
         /\ session'.at = "graph" /\ session'.project = session.project
         /\ session'.nodes = nodes /\ session'.tasks = tasks /\ session'.got = got
         /\ session'.final = session.final /\ session'.answers = session.answers
         /\ session'.error = session.error /\ session'.fetched = session.fetched
    BY <1>2, <1>7, <1>8, <1>9, <1>10, <1>11 DEF Sessions
  <1>13. UNCHANGED <<world, specs, cache, locks, budget, wrote, discovery>>
    BY DEF JoinRequirements
  <1>14. batch' = Remembered(id, dependencies, task.archive, Origin(task))
    BY <1>1
  <1> HIDE DEF dependencies, task
  <1> QED
    BY <1>1, <1>2, <1>3, <1>4, <1>5, <1>6, <1>12, <1>13, <1>14
       DEF nodes, tasks, got, dependencies, task

LEMMA TypeJoinRequirements ==
    ASSUME TypeOK, JoinRequirements
    PROVE  TypeOK'
  <1>1. PICK id \in DOMAIN session.tasks :
              LET task == session.tasks[id]
                  dependencies == Dependencies(Now.target, Package(id))
              IN  /\ StateOK /\ GraphOK /\ session.project \in DOMAIN specs
                  /\ session.at = "graph" /\ id \in DOMAIN session.nodes
                  /\ task \in Tasks
                  /\ dependencies \in Partial(Ids, Versions)
                  /\ Origin(task) \in Origins(world)
                  /\ batch' = Remembered(id, dependencies, task.archive, Origin(task))
                  /\ session' \in Sessions(world)
                  /\ session'.at = "graph" /\ session'.project = session.project
                  /\ session'.nodes = Known(session.nodes, id, dependencies)
                  /\ session'.tasks = Without(session.tasks, id)
                  /\ UNCHANGED <<world, specs, cache, locks, budget, wrote, discovery>>
    BY JoinSession
  <1> DEFINE task == session.tasks[id]
             dependencies == Dependencies(Now.target, Package(id))
  <1>2. task.archive \in Archives \cup {Absent}
    BY <1>1 DEF Tasks
  <1>3. batch' \in Partial(Keys(world), Entries(world))
    BY <1>1, <1>2, RememberedFacts
  <1>4. session.nodes \in Partial(Ids, Nodes) /\ session.tasks \in Partial(Ids, Tasks)
    BY <1>1, SessionFacts
  <1>5. /\ \A x : x \in DOMAIN session'.nodes <=>
                     x \in DOMAIN session.nodes \/ x \in DOMAIN dependencies
        /\ \A x : x \in DOMAIN session'.tasks <=> x \in DOMAIN session.tasks /\ x # id
        /\ \A x \in DOMAIN session.tasks : x # id => session'.tasks[x] = session.tasks[x]
    BY <1>1, <1>4, KnownFacts, WithoutFacts
  <1>6. StateOK' /\ Now' = Now /\ Config' = Config
    BY <1>1, <1>3, GraphStep, VariableFacts
  <1>7. \A x \in DOMAIN session'.tasks : TaskOK(session.tasks[x])'
    BY <1>1, <1>5, <1>6 DEF GraphOK, TaskOK
  <1>8. GraphOK'
    <2>1. DOMAIN Now.refs \cup DOMAIN session.tasks \subseteq DOMAIN session.nodes
      BY <1>1 DEF GraphOK
    <2>2. /\ IsFiniteSet(discovery.slots)
          /\ discovery.running = {} /\ discovery.pending = <<>> /\ discovery.completed = <<>>
      BY <1>1 DEF GraphOK
    <2>3. DOMAIN Now.refs \cup DOMAIN session'.tasks \subseteq DOMAIN session'.nodes
      BY <1>5, <2>1
    <2> QED
      BY <1>1, <1>6, <1>7, <2>2, <2>3 DEF GraphOK
  <1> QED
    BY <1>6, <1>8 DEF TypeOK

\* A task whose versions are known ends the command, or its node is ready again.
LEMMA VersionsSession ==
    ASSUME TypeOK, JoinVersions
    PROVE  /\ StateOK /\ GraphOK /\ session.project \in DOMAIN specs /\ session.at = "graph"
           /\ UNCHANGED <<world, specs, cache, locks, batch, budget, wrote, discovery>>
           /\ \E id \in DOMAIN session.tasks :
                 \/ Fail("noVersion", id)
                 \/ \E version \in Versions :
                       /\ InRange(version, session.nodes[id])
                       /\ session' \in Sessions(world)
                       /\ session'.at = "graph" /\ session'.project = session.project
                       /\ session'.nodes =
                             [session.nodes EXCEPT ![id] = [session.nodes[id] EXCEPT
                                 !.version = version, !.state = "ready"]]
                       /\ session'.tasks = Without(session.tasks, id)
                       /\ session'.got = session.got /\ session'.final = session.final
                       /\ session'.answers = session.answers /\ session'.error = session.error
                       /\ session'.fetched = session.fetched
  <1>1. PICK id \in DOMAIN session.tasks :
          /\ Joins(id)
          /\ LET node == session.nodes[id]
                 allowed == {v \in session.tasks[id].versions : InRange(v, node)}
             IN  IF allowed = {}
                 THEN Fail("noVersion", id)
                 ELSE session' = [session EXCEPT !.tasks = Without(@, id),
                                     !.nodes[id].version = Min(allowed),
                                     !.nodes[id].state = "ready"]
    BY DEF JoinVersions
  <1> DEFINE node == session.nodes[id]
             allowed == {v \in session.tasks[id].versions : InRange(v, node)}
             tasks == Without(session.tasks, id)
             version == Min(allowed)
             moved == [node EXCEPT !.version = version, !.state = "ready"]
             nodes == [session.nodes EXCEPT ![id] = moved]
  <1>2. session.at = "graph" /\ UNCHANGED <<world, specs, cache, locks, batch, budget, wrote, discovery>>
    BY <1>1 DEF Joins, JoinVersions
  <1>3. StateOK /\ GraphOK /\ session.project \in DOMAIN specs
    BY <1>2, ActiveFacts
  <1>4. session.tasks[id] \in Tasks /\ id \in DOMAIN session.nodes
    BY <1>3, TaskFacts DEF GraphOK
  <1>5. node \in Nodes
    BY <1>3, <1>4, NodeFacts
  <1>6. CASE allowed = {}
    BY <1>1, <1>2, <1>3, <1>6
  <1>7. CASE allowed # {}
    <2>1. version \in Versions /\ InRange(version, node)
      <3>1. allowed \in SUBSET Versions
        BY <1>4 DEF Tasks
      <3>2. IsFiniteSet(allowed) /\ allowed \subseteq Int
        <4> HIDE DEF allowed
        <4>1. Versions \subseteq Int
          BY ConstantFacts
        <4>2. IsFiniteSet(allowed)
          BY <3>1, ConstantFacts, FS_Subset
        <4> QED
          BY <3>1, <4>1, <4>2
      <3>3. version \in allowed
        <4> HIDE DEF allowed
        <4> QED
          BY <1>7, <3>2, MinFacts
      <3> QED
        BY <3>1, <3>3
    <2>2. session' = [session EXCEPT !.tasks = tasks, !.nodes = nodes]
      <3>1. session \in Sessions(world) /\ session.nodes \in [DOMAIN session.nodes -> Nodes]
        BY <1>3, VariableFacts, SessionFacts, PartialFacts
      <3>2. session' = [session EXCEPT !.tasks = tasks, !.nodes[id].version = version,
                                       !.nodes[id].state = "ready"]
        BY <1>1, <1>7, <3>1 DEF Sessions
      <3> HIDE DEF version, tasks, allowed
      <3> QED
        BY <1>4, <1>5, <3>1, <3>2 DEF Sessions, Nodes
    <2> HIDE DEF version, allowed, tasks
    <2>3. moved \in Nodes
      BY <1>5, <2>1 DEF Nodes
    <2> HIDE DEF moved
    <2>4. nodes \in Partial(Ids, Nodes)
      BY <1>3, <1>4, <2>3, SessionFacts, ExceptFacts
    <2>5. tasks \in Partial(Ids, Tasks)
      BY <1>3, SessionFacts, WithoutFacts DEF tasks
    <2> HIDE DEF nodes
    <2>6. session \in Sessions(world)
      BY <1>3, VariableFacts
    <2>7. /\ session' \in Sessions(world)
          /\ session'.at = "graph" /\ session'.project = session.project
          /\ session'.nodes = nodes /\ session'.tasks = tasks /\ session'.got = session.got
          /\ session'.final = session.final /\ session'.answers = session.answers
          /\ session'.error = session.error /\ session'.fetched = session.fetched
      BY <1>2, <2>2, <2>4, <2>5, <2>6 DEF Sessions
    <2> QED
      BY <1>2, <1>3, <2>1, <2>7 DEF nodes, moved, tasks, node
  <1> QED
    BY <1>6, <1>7

LEMMA TypeJoinVersions ==
    ASSUME TypeOK, JoinVersions
    PROVE  TypeOK'
  <1>1. /\ StateOK /\ GraphOK /\ session.project \in DOMAIN specs /\ session.at = "graph"
        /\ UNCHANGED <<world, specs, cache, locks, batch, budget, wrote, discovery>>
    BY VersionsSession
  <1>2. PICK id \in DOMAIN session.tasks :
                 \/ Fail("noVersion", id)
                 \/ \E version \in Versions :
                       /\ session' \in Sessions(world)
                       /\ session'.at = "graph" /\ session'.project = session.project
                       /\ session'.nodes =
                             [session.nodes EXCEPT ![id] = [session.nodes[id] EXCEPT
                                 !.version = version, !.state = "ready"]]
                       /\ session'.tasks = Without(session.tasks, id)
    BY VersionsSession
  <1>3. CASE Fail("noVersion", id)
    <2>1. id \in Nat /\ "noVersion" \in Kinds
      BY <1>1, TaskFacts, ConstantFacts DEF Kinds
    <2>2. session' \in Sessions(world) /\ session'.at = "ended"
      BY <1>1, <1>3, <2>1, FailFacts
    <2> QED
      BY <1>1, <2>2, QuietStep, VariableFacts
  <1>4. CASE ~Fail("noVersion", id)
    <2>1. /\ session' \in Sessions(world)
          /\ session'.at = "graph" /\ session'.project = session.project
          /\ DOMAIN session'.nodes = DOMAIN session.nodes
          /\ session'.tasks = Without(session.tasks, id)
      BY <1>2, <1>4
    <2>2. StateOK' /\ Now' = Now /\ Config' = Config
      BY <1>1, <2>1, GraphStep, VariableFacts
    <2>3. session.tasks \in Partial(Ids, Tasks)
      BY <1>1, SessionFacts
    <2>4. /\ \A x : x \in DOMAIN session'.tasks <=> x \in DOMAIN session.tasks /\ x # id
          /\ \A x \in DOMAIN session.tasks : x # id => session'.tasks[x] = session.tasks[x]
      BY <2>1, <2>3, WithoutFacts
    <2>5. \A x \in DOMAIN session'.tasks : TaskOK(session.tasks[x])'
      BY <1>1, <2>2, <2>4 DEF GraphOK, TaskOK
    <2>6. /\ DOMAIN Now.refs \cup DOMAIN session.tasks \subseteq DOMAIN session.nodes
          /\ IsFiniteSet(discovery.slots)
          /\ discovery.running = {} /\ discovery.pending = <<>> /\ discovery.completed = <<>>
      BY <1>1 DEF GraphOK
    <2>7. DOMAIN Now.refs \cup DOMAIN session'.tasks \subseteq DOMAIN session'.nodes
      BY <2>1, <2>4, <2>6
    <2>8. GraphOK'
      BY <1>1, <2>1, <2>2, <2>5, <2>6, <2>7 DEF GraphOK
    <2> QED
      BY <2>2, <2>8 DEF TypeOK
  <1> QED
    BY <1>3, <1>4

LEMMA TypeJoinError ==
    ASSUME TypeOK, JoinError
    PROVE  TypeOK'
  <1>1. PICK id \in DOMAIN session.tasks :
           /\ Joins(id) /\ session.tasks[id].result \in {"unsigned", "unmapped", "missing"}
           /\ Fail(session.tasks[id].result, id)
    BY DEF JoinError
  <1>2. session.at = "graph" /\ UNCHANGED <<world, specs, cache, locks, batch, budget, wrote, discovery>>
    BY <1>1 DEF Joins, JoinError
  <1>3. StateOK
    BY DEF TypeOK
  <1>4. id \in Nat /\ session.tasks[id].result \in Kinds
    BY <1>1, <1>3, TaskFacts, ConstantFacts DEF Kinds
  <1>5. session' \in Sessions(world) /\ session'.at = "ended"
    BY <1>1, <1>3, <1>4, FailFacts
  <1> QED
    BY <1>2, <1>3, <1>5, QuietStep, VariableFacts

LEMMA TypeBeginAcquire ==
    ASSUME TypeOK, BeginAcquire
    PROVE  TypeOK'
  <1>1. /\ session.at = "graph" /\ session' = [session EXCEPT !.at = "acquire", !.final = session.got]
        /\ UNCHANGED <<world, specs, cache, locks, batch, budget, wrote, discovery>>
    BY DEF BeginAcquire
  <1>2. StateOK /\ GraphOK /\ session.project \in DOMAIN specs
    BY <1>1, ActiveFacts
  <1>3. session.got \in Partial(Ids, Picks(world)) /\ session \in Sessions(world)
    BY <1>2, SessionFacts, VariableFacts
  <1>4. /\ session' \in Sessions(world) /\ session'.at = "acquire"
        /\ session'.project = session.project
        /\ session'.nodes = session.nodes /\ session'.tasks = session.tasks
    BY <1>1, <1>3 DEF Sessions, Places
  <1>5. StateOK' /\ Now' = Now /\ Config' = Config
    BY <1>1, <1>2, <1>4, GraphStep, VariableFacts
  <1>6. GraphOK'
    BY <1>1, <1>2, <1>4, <1>5 DEF GraphOK, TaskOK
  <1> QED
    BY <1>5, <1>6 DEF TypeOK

\* A package of the finished graph is had.
LEMMA FinalSession ==
    ASSUME StateOK, session.project \in DOMAIN specs, session.at = "acquire", NEW id \in Wanted,
           NEW archive \in Archives, NEW origin \in Origins(world), NEW fetched \in SUBSET (Ids \X Nat),
           session' = [Final(id, archive, origin) EXCEPT !.fetched = fetched]
    PROVE  /\ session' \in Sessions(world) /\ id \in DOMAIN session.nodes
           /\ session'.at = "acquire" /\ session'.project = session.project
           /\ session'.nodes = session.nodes /\ session'.tasks = session.tasks
           /\ session'.got = session.got
           /\ session'.final = With(session.final, id, Pick(id, archive, origin))
           /\ session'.answers = session.answers
           /\ session'.error = session.error /\ session'.fetched = fetched
  <1> DEFINE final == With(session.final, id, Pick(id, archive, origin))
  <1>1. session \in Sessions(world) /\ session.final \in Partial(Ids, Picks(world))
    BY SessionFacts, VariableFacts
  <1>2. id \in DOMAIN session.nodes
    BY DEF Wanted
  <1>3. id \in Ids /\ Version(id) \in Versions
    BY <1>2, NodeFacts
  <1>4. Pick(id, archive, origin) \in Picks(world)
    BY <1>3 DEF Pick, Picks
  <1>5. final \in Partial(Ids, Picks(world))
    BY <1>1, <1>3, <1>4, WithFacts
  <1>6. session' = [session EXCEPT !.final = final, !.fetched = fetched]
    BY <1>1 DEF Final, Sessions
  <1> HIDE DEF final
  <1>7. /\ session' \in Sessions(world)
           /\ session'.at = session.at /\ session'.project = session.project
           /\ session'.nodes = session.nodes /\ session'.tasks = session.tasks
           /\ session'.got = session.got
           /\ session'.final = final
           /\ session'.answers = session.answers
           /\ session'.error = session.error /\ session'.fetched = fetched
    BY <1>1, <1>5, <1>6 DEF Sessions
  <1> QED
    BY <1>2, <1>7 DEF final

\* The types of a graph whose packages are acquired.
LEMMA TypeFinal ==
    ASSUME StateOK, GraphOK, session.at = "acquire", UNCHANGED <<world, specs, locks, wrote, discovery>>,
           cache' \in [world.roots -> [Packages -> Archives \cup {Absent}]],
           batch' \in Partial(Keys(world), Entries(world)), budget' \in Budgets,
           session' \in Sessions(world), session'.at = "acquire", session'.project = session.project,
           session'.nodes = session.nodes, session'.tasks = session.tasks
    PROVE  TypeOK'
  <1>1. session.project \in DOMAIN specs
    BY DEF GraphOK
  <1>2. StateOK' /\ Now' = Now /\ Config' = Config
    BY <1>1, GraphStep, VariableFacts
  <1>3. \A x \in DOMAIN session.tasks : TaskOK(session.tasks[x])'
    BY <1>2 DEF GraphOK, TaskOK
  <1>4. GraphOK'
    BY <1>2, <1>3 DEF GraphOK
  <1> QED
    BY <1>2, <1>4 DEF TypeOK

LEMMA SharedSession ==
    ASSUME TypeOK, AcquireShared
    PROVE  \E id \in Wanted :
              /\ StateOK /\ GraphOK /\ session.project \in DOMAIN specs
              /\ session.at = "acquire" /\ id \in DOMAIN session.nodes
              /\ Key(id) \in DOMAIN batch /\ batch[Key(id)].archive \in Archives
              /\ session' \in Sessions(world)
              /\ session'.at = "acquire" /\ session'.project = session.project
              /\ session'.nodes = session.nodes /\ session'.tasks = session.tasks
              /\ session'.got = session.got
              /\ session'.final =
                    With(session.final, id, Pick(id, batch[Key(id)].archive, batch[Key(id)].origin))
              /\ session'.answers = session.answers
              /\ session'.error = session.error /\ session'.fetched = session.fetched
              /\ UNCHANGED <<world, specs, cache, locks, batch, budget, wrote, discovery>>
  <1>1. PICK id \in Wanted : /\ Key(id) \in DOMAIN batch /\ batch[Key(id)].archive # Absent
                             /\ session' = Final(id, batch[Key(id)].archive, batch[Key(id)].origin)
    BY DEF AcquireShared
  <1>2. session.at = "acquire" /\ UNCHANGED <<world, specs, cache, locks, batch, budget, wrote, discovery>>
    BY DEF AcquireShared
  <1>3. StateOK /\ GraphOK /\ session.project \in DOMAIN specs
    BY <1>2, ActiveFacts
  <1> DEFINE archive == batch[Key(id)].archive
             origin == batch[Key(id)].origin
             fetched == session.fetched
  <1>4. archive \in Archives /\ origin \in Origins(world)
    BY <1>1, <1>3, BatchFacts
  <1>5. session \in Sessions(world) /\ fetched \in SUBSET (Ids \X Nat)
    BY <1>3, SessionFacts, VariableFacts
  <1>6. session' = [Final(id, archive, origin) EXCEPT !.fetched = fetched]
    <2>1. session' = Final(id, archive, origin)
      BY <1>1
    <2> HIDE DEF archive, origin
    <2> QED
      BY <1>5, <2>1 DEF Final, Sessions
  <1> HIDE DEF archive, origin, fetched
  <1>7. /\ session' \in Sessions(world) /\ id \in DOMAIN session.nodes
           /\ session'.at = "acquire" /\ session'.project = session.project
           /\ session'.nodes = session.nodes /\ session'.tasks = session.tasks
           /\ session'.got = session.got
           /\ session'.final = With(session.final, id, Pick(id, archive, origin))
           /\ session'.answers = session.answers
           /\ session'.error = session.error /\ session'.fetched = fetched
    BY <1>2, <1>3, <1>4, <1>5, <1>6, FinalSession
  <1> QED
    BY <1>1, <1>2, <1>3, <1>4, <1>7 DEF archive, origin, fetched

LEMMA TypeAcquireShared ==
    ASSUME TypeOK, AcquireShared
    PROVE  TypeOK'
  <1>1. /\ StateOK /\ GraphOK /\ session.at = "acquire"
        /\ session' \in Sessions(world)
        /\ session'.at = "acquire" /\ session'.project = session.project
        /\ session'.nodes = session.nodes /\ session'.tasks = session.tasks
        /\ UNCHANGED <<world, specs, cache, locks, batch, budget, wrote, discovery>>
    BY SharedSession
  <1> QED
    BY <1>1, TypeFinal, VariableFacts

\* What ensure_package comes to: an error, or a package of the folder, which may have
\* been fetched.
LEMMA AcquireSession ==
    ASSUME TypeOK, Acquire
    PROVE  /\ StateOK /\ GraphOK /\ session.project \in DOMAIN specs /\ session.at = "acquire"
           /\ UNCHANGED <<world, specs, locks, budget, wrote, discovery>>
           /\ \E id \in Wanted :
              LET task == Loaded(Task(discovery.snapshot), id)
                  archive == IF task.archive = Absent THEN Folder(Now)[Package(id)]
                             ELSE task.archive
              IN  /\ id \in DOMAIN session.nodes /\ task \in Tasks
                  /\ Key(id) \in DOMAIN batch => batch[Key(id)].archive = Absent
                  /\ \/ /\ \E kind \in Kinds \ {"torn", "omitted", "absent", "discovery"} : Fail(kind, id)
                        /\ UNCHANGED <<cache, batch>>
                     \/ /\ task.result = "requirements" /\ archive \in Archives
                        /\ cache' = Published(task, Package(id))
                        /\ batch' \in Partial(Keys(world), Entries(world))
                        /\ DOMAIN batch' = DOMAIN batch
                        /\ \A key \in DOMAIN batch :
                              /\ batch'[key].dependencies = batch[key].dependencies
                              /\ key # Key(id) => batch'[key] = batch[key]
                        /\ Key(id) \in DOMAIN batch => batch'[Key(id)].archive = archive
                        /\ session' \in Sessions(world)
                        /\ session'.at = "acquire" /\ session'.project = session.project
                        /\ session'.nodes = session.nodes /\ session'.tasks = session.tasks
                        /\ session'.got = session.got
                        /\ session'.final =
                              With(session.final, id, Pick(id, archive, Origin(task)))
                        /\ session'.answers = session.answers /\ session'.error = session.error
                        /\ session'.fetched = IF task.origin = 0 THEN session.fetched
                                              ELSE session.fetched \cup {<<id, task.origin>>}
  <1>1. session.at = "acquire" /\ UNCHANGED <<world, specs, locks, budget, wrote, discovery>>
    BY DEF Acquire
  <1>2. StateOK /\ GraphOK /\ session.project \in DOMAIN specs
    BY <1>1, ActiveFacts
  <1>3. PICK id \in Wanted :
          /\ IF Key(id) \in DOMAIN batch THEN batch[Key(id)].archive = Absent ELSE TRUE
          /\ LET task == Loaded(Task(discovery.snapshot), id)
                 archive == IF task.archive = Absent THEN Folder(Now)[Package(id)] ELSE task.archive
             IN  IF task.result = "requirements"
                 THEN /\ session' = [Final(id, archive, Origin(task)) EXCEPT
                             !.fetched = IF task.origin = 0 THEN @ ELSE @ \cup {<<id, task.origin>>}]
                      /\ cache' = Published(task, Package(id))
                      /\ batch' = IF Key(id) \in DOMAIN batch
                                  THEN [batch EXCEPT ![Key(id)].archive = archive,
                                                    ![Key(id)].origin = Origin(task)]
                                  ELSE batch
                 ELSE /\ Fail(IF task.result = "versions" THEN "missing" ELSE task.result, id)
                      /\ UNCHANGED <<cache, batch>>
    BY DEF Acquire
  <1> DEFINE task == Loaded(Task(discovery.snapshot), id)
             archive == IF task.archive = Absent THEN Folder(Now)[Package(id)] ELSE task.archive
             origin == Origin(task)
             fetched == IF task.origin = 0 THEN session.fetched
                        ELSE session.fetched \cup {<<id, task.origin>>}
             key == Key(id)
  <1>4. id \in DOMAIN session.nodes
    BY DEF Wanted
  <1>5. Task(discovery.snapshot) \in Tasks /\ Task(discovery.snapshot).archive = Absent
        /\ Task(discovery.snapshot).origin = 0
    <2>1. discovery.snapshot \in Seq(Nat)
      BY <1>2, VariableFacts DEF Discoveries
    <2> QED
      BY <2>1, FreshTask
  <1>6. /\ task \in Tasks /\ task.result # "none"
        /\ task.origin # 0 => task.origin \in SelectedSources(Config, id)
        /\ task.result = "requirements" /\ task.archive = Absent => Folder(Now)[Package(id)] # Absent
    BY <1>2, <1>4, <1>5, LoadedFacts
  <1>7. key \in DOMAIN batch => batch[key].archive = Absent
    BY <1>3
  <1>8. CASE task.result # "requirements"
    <2> DEFINE kind == IF task.result = "versions" THEN "missing" ELSE task.result
    <2>1. Fail(kind, id) /\ UNCHANGED <<cache, batch>>
      BY <1>3, <1>8
    <2>2. kind \in Kinds \ {"torn", "omitted", "absent", "discovery"}
      <3>1. task.result \in Results
        BY <1>6 DEF Tasks
      <3> HIDE DEF task
      <3> QED
        BY <1>6, <1>8, <3>1 DEF Results, Kinds
    <2> HIDE DEF kind
    <2> QED
      BY <1>1, <1>2, <1>4, <1>6, <1>7, <2>1, <2>2
  <1>9. CASE task.result = "requirements"
    <2>1. archive \in Archives
      <3>1. Folder(Now)[Package(id)] \in Archives \cup {Absent}
        BY <1>2, <1>4, NodeFacts
      <3>2. task.archive \in Archives \cup {Absent}
        BY <1>6 DEF Tasks
      <3> HIDE DEF task
      <3> QED
        BY <1>6, <1>9, <3>1, <3>2
    <2>2. origin \in Origins(world)
      <3>1. task.origin # 0 => task.origin \in DOMAIN Config.sources
        BY <1>2, <1>6, SelectedFacts
      <3> QED
        BY <1>2, <1>6, <3>1, OriginFacts
    <2>3. fetched \in SUBSET (Ids \X Nat)
      <3>1. task.origin \in Nat /\ session.fetched \subseteq Ids \X Nat /\ id \in Ids
        BY <1>2, <1>4, <1>6, SessionFacts, NodeFacts DEF Tasks
      <3> HIDE DEF task
      <3> QED
        BY <3>1
    <2>4. /\ session' = [Final(id, archive, origin) EXCEPT
                             !.fetched = IF task.origin = 0 THEN @ ELSE @ \cup {<<id, task.origin>>}]
          /\ cache' = Published(task, Package(id))
          /\ batch' = IF key \in DOMAIN batch
                      THEN [batch EXCEPT ![key].archive = archive, ![key].origin = origin]
                      ELSE batch
      BY <1>3, <1>9
    <2> HIDE DEF archive, origin, key, task
    <2>5. session' = [Final(id, archive, origin) EXCEPT !.fetched = fetched]
      <3>1. session \in Sessions(world)
        BY <1>2, VariableFacts
      <3>2. Final(id, archive, origin).fetched = session.fetched
        BY <3>1 DEF Final, Sessions
      <3>3. Final(id, archive, origin) = [Final(id, archive, origin) EXCEPT
                                            !.fetched = session.fetched]
        BY <3>1 DEF Final, Sessions
      <3> QED
        BY <2>4, <3>2
    <2> HIDE DEF fetched
    <2>6. /\ session' \in Sessions(world)
           /\ session'.at = "acquire" /\ session'.project = session.project
           /\ session'.nodes = session.nodes /\ session'.tasks = session.tasks
           /\ session'.got = session.got
           /\ session'.final = With(session.final, id, Pick(id, archive, origin))
           /\ session'.answers = session.answers
           /\ session'.error = session.error /\ session'.fetched = fetched
      BY <1>1, <1>2, <2>1, <2>2, <2>3, <2>5, FinalSession
    <2>7. /\ batch' \in Partial(Keys(world), Entries(world)) /\ DOMAIN batch' = DOMAIN batch
          /\ \A k \in DOMAIN batch : /\ batch'[k].dependencies = batch[k].dependencies
                                     /\ k # key => batch'[k] = batch[k]
          /\ key \in DOMAIN batch => batch'[key].archive = archive
      <3>1. batch \in Partial(Keys(world), Entries(world))
        BY <1>2, VariableFacts
      <3>2. CASE key \notin DOMAIN batch
        BY <2>4, <3>1, <3>2
      <3>3. CASE key \in DOMAIN batch
        <4> DEFINE new == [batch[key] EXCEPT !.archive = archive, !.origin = origin]
        <4>1. batch' = [batch EXCEPT ![key] = new]
          <5>1. batch[key] \in Entries(world) /\ batch \in [DOMAIN batch -> Entries(world)]
            BY <3>1, <3>3, PartialFacts
          <5> QED
            BY <2>4, <3>3, <5>1 DEF Entries
        <4>2. batch[key] \in Entries(world)
          BY <3>1, <3>3, PartialFacts
        <4>3. /\ new \in Entries(world) /\ new.dependencies = batch[key].dependencies
              /\ new.archive = archive
          BY <2>1, <2>2, <4>2 DEF Entries
        <4> HIDE DEF new
        <4>4. /\ batch' \in Partial(Keys(world), Entries(world)) /\ DOMAIN batch' = DOMAIN batch
              /\ batch'[key] = new /\ \A k \in DOMAIN batch : k # key => batch'[k] = batch[k]
          BY <3>1, <3>3, <4>1, <4>3, ExceptFacts
        <4> QED
          BY <4>3, <4>4
      <3> QED
        BY <3>2, <3>3
    <2> QED
      BY <1>1, <1>2, <1>4, <1>6, <1>7, <1>9, <2>1, <2>4, <2>6, <2>7
         DEF archive, origin, key, task, fetched
  <1> QED
    BY <1>8, <1>9

LEMMA TypeAcquire ==
    ASSUME TypeOK, Acquire
    PROVE  TypeOK'
  <1>1. /\ StateOK /\ GraphOK /\ session.project \in DOMAIN specs /\ session.at = "acquire"
        /\ UNCHANGED <<world, specs, locks, budget, wrote, discovery>>
    BY AcquireSession
  <1>2. PICK id \in Wanted :
              LET task == Loaded(Task(discovery.snapshot), id)
              IN  /\ id \in DOMAIN session.nodes /\ task \in Tasks
                  /\ \/ /\ \E kind \in Kinds \ {"torn", "omitted", "absent", "discovery"} : Fail(kind, id)
                        /\ UNCHANGED <<cache, batch>>
                     \/ /\ cache' = Published(task, Package(id))
                        /\ batch' \in Partial(Keys(world), Entries(world))
                        /\ session' \in Sessions(world)
                        /\ session'.at = "acquire" /\ session'.project = session.project
                        /\ session'.nodes = session.nodes /\ session'.tasks = session.tasks
    BY AcquireSession
  <1>3. CASE /\ \E kind \in Kinds \ {"torn", "omitted", "absent", "discovery"} : Fail(kind, id)
             /\ UNCHANGED <<cache, batch>>
    <2>1. id \in Nat
      BY <1>1, <1>2, NodeFacts, ConstantFacts
    <2>2. session' \in Sessions(world) /\ session'.at = "ended"
      BY <1>1, <1>3, <2>1, FailFacts
    <2> QED
      BY <1>1, <1>3, <2>2, QuietStep, VariableFacts
  <1>4. CASE ~UNCHANGED <<cache, batch>> \/ ~\E kind \in Kinds \ {"torn", "omitted", "absent", "discovery"} : Fail(kind, id)
    <2>1. cache' \in [world.roots -> [Packages -> Archives \cup {Absent}]]
      BY <1>1, <1>2, <1>4, NodeFacts, PublishedFacts
    <2> QED
      BY <1>1, <1>2, <1>4, <2>1, TypeFinal, VariableFacts
  <1> QED
    BY <1>3, <1>4

\* The graph is finished, and all of its packages are had.
LEMMA ResolvedFacts ==
    ASSUME TypeOK, Resolved \/ session.at \in {"rename", "retry"}
    PROVE  /\ StateOK /\ GraphOK /\ session.project \in DOMAIN specs
           /\ session.at \in {"acquire", "rename", "retry"} /\ Wanted = {}
           /\ DOMAIN Now.refs \subseteq DOMAIN session.final
           /\ NewLock \in Locks(world) /\ HasSource(Now, NewLock.source)
           /\ ColdAnswer(Now, session.final) \in Answers(world)
  <1>1. session.at \in {"acquire", "rename", "retry"}
    BY DEF Resolved
  <1>2. StateOK /\ GraphOK /\ session.project \in DOMAIN specs
    BY <1>1, ActiveFacts
  <1>3. Wanted = {}
    BY <1>2 DEF Resolved, GraphOK
  <1>4. DOMAIN Now.refs \subseteq DOMAIN session.nodes
    BY <1>2 DEF GraphOK
  <1>5. DOMAIN Now.refs \subseteq DOMAIN session.final
    BY <1>3, <1>4 DEF Wanted
  <1>6. session.final \in Partial(Ids, Picks(world))
    BY <1>2, SessionFacts
  <1>7. NewLock \in Locks(world) /\ HasSource(Now, NewLock.source)
    BY <1>2, <1>5, <1>6, LockOfFacts DEF NewLock
  <1>8. ColdAnswer(Now, session.final) \in Answers(world)
    BY <1>2, <1>6, ColdAnswerFacts
  <1> QED
    BY <1>1, <1>2, <1>3, <1>5, <1>7, <1>8

LEMMA TypeWrite ==
    ASSUME TypeOK, Planned \/ KeepLock \/ Rename
    PROVE  TypeOK' /\ ~Active'
  <1>1. Resolved \/ session.at \in {"rename", "retry"}
    BY DEF Planned, KeepLock, Rename
  <1>2. /\ StateOK /\ session.project \in DOMAIN specs
        /\ NewLock \in Locks(world) /\ ColdAnswer(Now, session.final) \in Answers(world)
    BY <1>1, ResolvedFacts
  <1>3. Answer(ColdAnswer(Now, session.final))
    BY DEF Planned, KeepLock, Rename
  <1>4. /\ session' \in Sessions(world) /\ session'.at = "project"
        /\ session'.project \in 1..(Len(specs) + 1)
    BY <1>2, <1>3, AnswerFacts
  <1>5. UNCHANGED <<world, specs, cache, batch, budget, discovery>>
    BY DEF Planned, KeepLock, Rename
  <1>6. Now \in Projects(world) /\ Now.dir \in world.dirs
    BY <1>2, NowFacts
  <1>7. locks' \in [world.dirs -> Locks(world) \cup {NoLock}]
    <2>1. locks' = locks \/ locks' = [locks EXCEPT ![Now.dir] = NewLock]
      BY DEF Planned, KeepLock, Rename
    <2> QED
      BY <1>2, <1>6, <2>1, VariableFacts
  <1>8. wrote' \in [world.dirs -> Projects(world) \cup {NoLock}]
    <2>1. wrote' = wrote \/ wrote' = [wrote EXCEPT ![Now.dir] = Now]
      BY DEF Planned, KeepLock, Rename
    <2> QED
      BY <1>2, <1>6, <2>1, VariableFacts
  <1> QED
    BY <1>2, <1>4, <1>5, <1>7, <1>8, QuietStep, VariableFacts

LEMMA TypeWriteTemporary ==
    ASSUME TypeOK, WriteTemporary
    PROVE  TypeOK' /\ Now' = Now
  <1>1. /\ Resolved /\ session' = [session EXCEPT !.at = "rename"] /\ locks' = locks
        /\ UNCHANGED <<world, specs, cache, batch, budget, wrote, discovery>>
    BY DEF WriteTemporary, LocksWhileWriting
  <1>2. StateOK /\ GraphOK /\ session.project \in DOMAIN specs /\ session.at = "acquire" /\ Wanted = {}
    BY <1>1, ResolvedFacts DEF Resolved
  <1>3. /\ session' \in Sessions(world) /\ session'.at = "rename"
        /\ session'.project = session.project /\ session'.nodes = session.nodes
        /\ session'.tasks = session.tasks /\ session'.final = session.final
    BY <1>1, <1>2, VariableFacts DEF Sessions, Places
  <1>4. StateOK' /\ Now' = Now /\ Config' = Config
    BY <1>1, <1>2, <1>3, GraphStep, VariableFacts
  <1>5. Wanted' = {}
    BY <1>2, <1>3 DEF Wanted
  <1>6. \A x \in DOMAIN session.tasks : TaskOK(session.tasks[x])'
    BY <1>2, <1>3, <1>4 DEF GraphOK, TaskOK
  <1>7. GraphOK'
    BY <1>1, <1>2, <1>3, <1>4, <1>5, <1>6 DEF GraphOK
  <1> QED
    BY <1>4, <1>7 DEF TypeOK

LEMMA BudgetFacts ==
    ASSUME StateOK
    PROVE  /\ budget.commands \in Nat /\ budget.edits \in Nat /\ budget.faults \in Nat
           /\ budget.clears \in 0..MaxClears
           /\ budget.commands > 0 => [budget EXCEPT !.commands = @ - 1] \in Budgets
           /\ budget.edits > 0 => [budget EXCEPT !.edits = @ - 1] \in Budgets
           /\ budget.faults > 0 => [budget EXCEPT !.faults = @ - 1] \in Budgets
           /\ budget.clears > 0 => [budget EXCEPT !.clears = @ - 1] \in Budgets
  <1>1. budget \in Budgets
    BY VariableFacts
  <1>2. /\ budget.commands \in Nat /\ budget.edits \in Nat /\ budget.faults \in Nat
        /\ budget.clears \in 0..MaxClears
    BY <1>1 DEF Budgets
  <1>3. /\ budget.commands > 0 => budget.commands - 1 \in Nat
        /\ budget.edits > 0 => budget.edits - 1 \in Nat
        /\ budget.faults > 0 => budget.faults - 1 \in Nat
        /\ budget.clears > 0 => budget.clears - 1 \in 0..MaxClears
    BY <1>2, BoundsAssumption
  <1> QED
    BY <1>1, <1>2, <1>3 DEF Budgets

LEMMA TypeRenameFails ==
    ASSUME TypeOK, RenameFails
    PROVE  TypeOK' /\ (Active' => Now' = Now)
  <1>1. /\ session.at \in {"rename", "retry"} /\ budget.faults > 0
        /\ budget' = [budget EXCEPT !.faults = @ - 1]
        /\ UNCHANGED <<world, specs, cache, batch, wrote, discovery>>
    BY DEF RenameFails
  <1>2. StateOK /\ GraphOK /\ session.project \in DOMAIN specs /\ Wanted = {}
    BY <1>1, ResolvedFacts
  <1>3. budget' \in Budgets
    BY <1>1, <1>2, BudgetFacts
  <1>4. CASE session.at = "rename" /\ locks[Now.dir] # NoLock
    <2>1. session' = [session EXCEPT !.at = "retry"] /\ locks' = [locks EXCEPT ![Now.dir] = NoLock]
      BY <1>4 DEF RenameFails
    <2>2. /\ session' \in Sessions(world) /\ session'.at = "retry"
          /\ session'.project = session.project /\ session'.nodes = session.nodes
          /\ session'.tasks = session.tasks /\ session'.final = session.final
      BY <1>2, <2>1, VariableFacts DEF Sessions, Places
    <2>3. locks' \in [world.dirs -> Locks(world) \cup {NoLock}]
      BY <1>2, <2>1, VariableFacts
    <2>4. StateOK' /\ Now' = Now /\ Config' = Config
      BY <1>1, <1>2, <1>3, <2>2, <2>3, GraphStep, VariableFacts
    <2>5. Wanted' = {}
      BY <1>2, <2>2 DEF Wanted
    <2>6. \A x \in DOMAIN session.tasks : TaskOK(session.tasks[x])'
      BY <1>2, <2>2, <2>4 DEF GraphOK, TaskOK
    <2>7. GraphOK'
      BY <1>1, <1>2, <2>2, <2>4, <2>5, <2>6 DEF GraphOK
    <2> QED
      BY <2>4, <2>7 DEF TypeOK
  <1>5. CASE ~(session.at = "rename" /\ locks[Now.dir] # NoLock)
    <2>1. Fail("io", session.project) /\ UNCHANGED locks
      BY <1>5 DEF RenameFails
    <2>2. session.project \in Nat /\ "io" \in Kinds
      BY <1>2, SessionFacts DEF Kinds
    <2>3. session' \in Sessions(world) /\ session'.at = "ended"
      BY <1>2, <2>1, <2>2, FailFacts
    <2> QED
      BY <1>1, <1>2, <1>3, <2>1, <2>3, QuietStep, VariableFacts
  <1> QED
    BY <1>4, <1>5

LEMMA TypeCommand ==
    ASSUME TypeOK, Start \/ Cancel \/ Crash
    PROVE  TypeOK' /\ ~Active'
  <1>0. StateOK
    BY DEF TypeOK
  <1>1. CASE Start
    <2>1. PICK online \in world.online, writes \in world.writes :
             session' = [Resting EXCEPT !.at = "project", !.project = 1, !.online = online,
                                        !.writes = writes]
      BY <1>1 DEF Start
    <2>2. online \in BOOLEAN /\ writes \in BOOLEAN
      BY <1>0, WorldFacts
    <2>3. session' \in Sessions(world) /\ session'.at = "project" /\ session'.project = 1
      <3>1. Resting \in Sessions(world) /\ "project" \in Places
        BY RestingFacts DEF Places
      <3> HIDE DEF Resting
      <3> QED
        BY <2>1, <2>2, <3>1 DEF Sessions
    <2>4. 1 \in 1..(Len(specs) + 1)
      BY <1>0, VariableFacts
    <2>5. /\ batch' = <<>> /\ discovery' = Undiscovered /\ budget' \in Budgets
          /\ UNCHANGED <<world, specs, cache, locks, wrote>>
      BY <1>0, <1>1, BudgetFacts DEF Start
    <2>6. batch' \in Partial(Keys(world), Entries(world)) /\ discovery' \in Discoveries
      BY <2>5, PartialEmpty DEF Undiscovered, Discoveries, NoId
    <2> QED
      BY <1>0, <2>3, <2>4, <2>5, <2>6, QuietStep, VariableFacts
  <1>2. CASE Cancel
    <2>1. Fail("cancelled", session.project) /\ budget' \in Budgets
          /\ UNCHANGED <<world, specs, cache, locks, batch, wrote, discovery>>
      BY <1>0, <1>2, BudgetFacts DEF Cancel
    <2>2. session.project \in Nat /\ "cancelled" \in Kinds
      BY <1>0, SessionFacts DEF Kinds
    <2>3. session' \in Sessions(world) /\ session'.at = "ended"
      BY <1>0, <2>1, <2>2, FailFacts
    <2> QED
      BY <1>0, <2>1, <2>3, QuietStep, VariableFacts
  <1>3. CASE Crash
    <2>1. session' = [Resting EXCEPT !.error = Error("crash", 0)] /\ budget' \in Budgets
          /\ UNCHANGED <<world, specs, cache, locks, batch, wrote, discovery>>
      BY <1>0, <1>3, BudgetFacts DEF Crash
    <2>2. session' \in Sessions(world) /\ session'.at = "ended"
      <3>1. Resting \in Sessions(world) /\ Resting.at = "ended"
        BY RestingFacts DEF Resting
      <3>2. Error("crash", 0) \in [kind : Kinds, what : Nat]
        BY DEF Error, Kinds
      <3> HIDE DEF Resting
      <3> QED
        BY <2>1, <3>1, <3>2 DEF Sessions
    <2> QED
      BY <1>0, <2>1, <2>2, QuietStep, VariableFacts
  <1> QED
    BY <1>1, <1>2, <1>3

LEMMA TypeEdit ==
    ASSUME TypeOK, Edit
    PROVE  TypeOK' /\ ~Active'
  <1>0. StateOK
    BY DEF TypeOK
  <1>1. PICK i \in DOMAIN specs, spec \in world.edits : specs' = [specs EXCEPT ![i] = spec]
    BY DEF Edit
  <1>2. specs' \in Seq(Projects(world))
    <2>1. spec \in Projects(world) /\ specs \in Seq(Projects(world))
      BY <1>0, VariableFacts DEF Projects
    <2> QED
      BY <1>1, <2>1
  <1>3. session' \in Sessions(world) /\ session'.at = "ended"
    BY RestingFacts DEF Edit, Resting
  <1>4. budget' \in Budgets /\ UNCHANGED <<world, cache, locks, batch, wrote, discovery>>
    BY <1>0, BudgetFacts DEF Edit
  <1> QED
    BY <1>0, <1>2, <1>3, <1>4, QuietStep, VariableFacts

\* What is done elsewhere leaves the session alone.
LEMMA TypeElsewhere ==
    ASSUME TypeOK, UNCHANGED <<world, specs, session, batch, discovery>>,
           cache' \in [world.roots -> [Packages -> Archives \cup {Absent}]],
           locks' \in [world.dirs -> Locks(world) \cup {NoLock}], budget' \in Budgets,
           wrote' \in [world.dirs -> Projects(world) \cup {NoLock}]
    PROVE  TypeOK'
  <1>1. StateOK'
    BY DEF TypeOK, StateOK, Ended
  <1>2. ASSUME Active
        PROVE  GraphOK'
    <2>1. GraphOK
      BY <1>2 DEF TypeOK
    <2>2. Now' = Now /\ Config' = Config /\ Workers' = Workers /\ Wanted' = Wanted
      BY DEF Now, Config, Workers, Wanted
    <2>3. \A x \in DOMAIN session.tasks : TaskOK(session.tasks[x])'
      BY <2>1, <2>2 DEF GraphOK, TaskOK
    <2> QED
      BY <2>1, <2>2, <2>3 DEF GraphOK
  <1> QED
    BY <1>1, <1>2 DEF TypeOK, Active

LEMMA ClearFacts ==
    ASSUME StateOK, Clear
    PROVE  /\ budget' \in Budgets /\ budget.clears > 0 /\ budget'.clears = budget.clears - 1
           /\ cache' \in [world.roots -> [Packages -> Archives \cup {Absent}]]
           /\ \A root \in world.roots, package \in Packages :
                 cache'[root][package] \in {cache[root][package], Absent}
           /\ UNCHANGED <<world, specs, locks, session, batch, wrote, discovery>>
  <1>1. PICK root \in world.roots, package \in Packages :
           cache' = [cache EXCEPT ![root][package] = Absent]
    BY DEF Clear
  <1>2. cache \in [world.roots -> [Packages -> Archives \cup {Absent}]]
    BY VariableFacts
  <1> DEFINE folder == [cache[root] EXCEPT ![package] = Absent]
  <1>3. cache' = [cache EXCEPT ![root] = folder]
    BY <1>1
  <1>4. /\ folder \in [Packages -> Archives \cup {Absent}]
        /\ \A p \in Packages : folder[p] \in {cache[root][p], Absent}
    BY <1>2
  <1> HIDE DEF folder
  <1>5. cache' \in [world.roots -> [Packages -> Archives \cup {Absent}]]
    BY <1>2, <1>3, <1>4
  <1>6. \A r \in world.roots, p \in Packages : cache'[r][p] \in {cache[r][p], Absent}
    BY <1>2, <1>3, <1>4
  <1>7. budget' \in Budgets /\ budget.clears > 0 /\ budget'.clears = budget.clears - 1
    <2>1. budget' = [budget EXCEPT !.clears = @ - 1] /\ budget.clears > 0 /\ budget \in Budgets
      BY VariableFacts DEF Clear
    <2> QED
      BY <2>1, BudgetFacts DEF Budgets
  <1> QED
    BY <1>5, <1>6, <1>7 DEF Clear

LEMMA ElsewhereFacts ==
    ASSUME TypeOK, Elsewhere
    PROVE  /\ locks' \in [world.dirs -> Locks(world) \cup {NoLock}] /\ budget' \in Budgets
           /\ wrote' \in [world.dirs -> Projects(world) \cup {NoLock}]
           /\ budget'.clears = budget.clears
           /\ UNCHANGED <<world, specs, cache, session, batch, discovery>>
  <1>1. StateOK /\ session.project \in DOMAIN specs /\ NewLock \in Locks(world)
    BY ResolvedFacts DEF Elsewhere
  <1>2. Now \in Projects(world) /\ Now.dir \in world.dirs
    BY <1>1, NowFacts
  <1>3. budget' = [budget EXCEPT !.commands = @ - 1] /\ budget \in Budgets
    BY <1>1, VariableFacts DEF Elsewhere
  <1>4. budget' \in Budgets
    BY <1>1, BudgetFacts DEF Elsewhere
  <1>5. budget'.clears = budget.clears
    BY <1>3 DEF Budgets
  <1> QED
    BY <1>1, <1>2, <1>4, <1>5, VariableFacts DEF Elsewhere

LEMMA TypeNext ==
    ASSUME TypeOK, [Next]_vars
    PROVE  TypeOK'
  <1>0. StateOK
    BY DEF TypeOK
  <1>1. ASSUME NEW id \in Ids, Load(id)
        PROVE  TypeOK'
    BY <1>1, TypeLoad
  <1>2. CASE Clear
    BY <1>0, <1>2, ClearFacts, TypeElsewhere, VariableFacts
  <1>3. CASE Elsewhere
    BY <1>0, <1>3, ElsewhereFacts, TypeElsewhere, VariableFacts
  <1>4. CASE UNCHANGED vars
    BY <1>0, <1>4, TypeElsewhere, VariableFacts DEF vars
  <1>5. CASE Rest
    BY <1>4, <1>5 DEF Rest
  <1>6. CASE Step
    BY <1>1, <1>6, TypeProject, TypeBeginGraph, TypeReuse, TypeLoadCached, TypeDiscover, TypeArrive,
       TypeDiscovered, TypeDiscoveryFails, TypeJoinRequirements, TypeJoinVersions, TypeJoinError,
       TypeBeginAcquire, TypeAcquireShared, TypeAcquire, TypeWrite, TypeWriteTemporary DEF Step
  <1>7. CASE Environment
    BY <1>2, <1>3, <1>5, <1>7, TypeCommand, TypeRenameFails, TypeEdit DEF Environment
  <1> QED
    BY <1>4, <1>6, <1>7 DEF Next

\* Type correctness: whatever the user edits and whatever leaves the folders, a command
\* is at one of its projects, its tasks are for nodes of the graph and ask sources of the
\* configuration, no more service indexes are fetched than there are workers, and a lock
\* is whole or is not there.
THEOREM TypeCorrect == Spec => []TypeOK
  BY TypeInit, TypeNext, PTL DEF Spec

(***************************************************************************)
(* The graph, the lock and the answers                                     *)
(***************************************************************************)

\* What a package needs, in a world.
Requires(w, target, package) ==
    IF <<target, package>> \in DOMAIN w.manifests
    THEN w.manifests[<<target, package>>]
    ELSE <<>>

Needs(w, spec, nodes, id) == Requires(w, spec.target, <<id, nodes[id].version>>)

KnownIn(nodes) == {id \in DOMAIN nodes : nodes[id].state = "known"}

\* Every reference is a node, at its bounds; a node's version is within its bounds; what
\* a known node needs is there, at no lower a version than it asks for; and a node no
\* reference asked for was asked for by a known one.
NodesSound(w, spec, nodes) ==
    /\ \A id \in DOMAIN spec.refs :
          id \in DOMAIN nodes /\ nodes[id].low = spec.refs[id].low /\ nodes[id].high = spec.refs[id].high
    /\ \A id \in DOMAIN nodes : InRange(nodes[id].version, nodes[id])
    /\ \A id \in KnownIn(nodes) : \A child \in DOMAIN Needs(w, spec, nodes, id) :
          child \in DOMAIN nodes /\ nodes[child].low >= Needs(w, spec, nodes, id)[child]
    /\ \A id \in DOMAIN nodes : id \notin DOMAIN spec.refs =>
          \E parent \in KnownIn(nodes) :
             /\ id \in DOMAIN Needs(w, spec, nodes, parent)
             /\ nodes[id].low = Needs(w, spec, nodes, parent)[id]

\* The archives are of the versions of known nodes.
Chosen(nodes, picks) ==
    \A id \in DOMAIN picks : id \in KnownIn(nodes) /\ picks[id].version = nodes[id].version

\* The nodes with a task are those that load, and the one whose sources are discovered
\* is not one of them.
PhaseSound ==
    /\ \A id \in DOMAIN session.tasks : session.nodes[id].state = "loading"
    /\ session.at = "discovery" => session.nodes[discovery.asked].state = "ready"
    /\ session.at \in {"acquire", "rename", "retry"} =>
          \A id \in DOMAIN session.nodes : session.nodes[id].state = "known"

GraphSound ==
    Active =>
       /\ NodesSound(world, Now, session.nodes)
       /\ Chosen(session.nodes, session.got)
       /\ Chosen(session.nodes, session.final)
       /\ PhaseSound

\* The memory of the batch is what the manifests say.
BatchSound ==
    \A key \in DOMAIN batch : batch[key].dependencies = Requires(world, key[2], key[3])

\* The closure of the requirements, and nothing else.
Closed(w, spec, packages) ==
    /\ \A id \in DOMAIN packages :
          \A child \in DOMAIN Requires(w, spec.target, <<id, packages[id].version>>) :
             /\ child \in DOMAIN packages
             /\ packages[child].version >= Requires(w, spec.target, <<id, packages[id].version>>)[child]
    /\ \A id \in DOMAIN packages : id \notin DOMAIN spec.refs =>
          \E parent \in DOMAIN packages :
             id \in DOMAIN Requires(w, spec.target, <<parent, packages[parent].version>>)

\* A lock is of the project it was written for, as that was then.
LockSound(w, lock, spec) ==
    /\ lock.target = spec.target
    /\ lock.inputs = spec.inputs
    /\ HasSource(spec, lock.source)
    /\ DOMAIN lock.direct = DOMAIN spec.refs
    /\ \A id \in DOMAIN spec.refs : /\ id \in DOMAIN lock.packages
                                    /\ lock.direct[id].assets = spec.refs[id].assets
                                    /\ InRange(lock.direct[id].version, spec.refs[id])
                                    /\ lock.packages[id].version = lock.direct[id].version
                                    /\ lock.packages[id].direct
    /\ Closed(w, spec, lock.packages)

LocksSound ==
    \A dir \in world.dirs :
       locks[dir] # NoLock =>
          wrote[dir] \in Projects(world) /\ LockSound(world, locks[dir], wrote[dir])

Answered(w, answer) ==
    /\ answer.target = answer.spec.target
    /\ \A id \in DOMAIN answer.spec.refs :
          /\ id \in DOMAIN answer.packages
          /\ InRange(answer.packages[id].version, answer.spec.refs[id])
          /\ answer.assets[id] = answer.spec.refs[id].assets
    /\ Closed(w, answer.spec, answer.packages)

AnswersSound ==
    \A k \in DOMAIN session.answers :
       DOMAIN session.answers[k].spec.refs # {} => Answered(world, session.answers[k])

\* No command fails for a lock that was torn or contradicts itself, and none goes on after
\* an error.
ErrorSound ==
    /\ session.error.kind \notin {"torn", "omitted"}
    /\ ~Ended => session.error.kind = "none"

CurrentInv == GraphSound /\ BatchSound /\ LocksSound /\ AnswersSound /\ ErrorSound

\* The requirements of an identity agree, in a world.
LEMMA AgreeFacts ==
    ASSUME NEW w, RequirementsAgree(w), NEW target, NEW package, NEW id \in DOMAIN Requires(w, target, package)
    PROVE  /\ \A other : id \in DOMAIN Requires(w, target, other) =>
                 Requires(w, target, other)[id] = Requires(w, target, package)[id]
           /\ \A spec \in Projects(w) :
                 spec.target = target /\ id \in DOMAIN spec.refs =>
                    Requires(w, target, package)[id] <= spec.refs[id].low
  <1>1. <<target, package>> \in DOMAIN w.manifests /\ Requires(w, target, package) = w.manifests[<<target, package>>]
    <2>1. DOMAIN <<>> = {}
      OBVIOUS
    <2> QED
      BY <2>1 DEF Requires
  <1>2. id \in DOMAIN w.manifests[<<target, package>>]
    BY <1>1
  <1>3. ASSUME NEW other, id \in DOMAIN Requires(w, target, other)
        PROVE  Requires(w, target, other)[id] = Requires(w, target, package)[id]
    <2>1. <<target, other>> \in DOMAIN w.manifests /\ Requires(w, target, other) = w.manifests[<<target, other>>]
      <3>1. DOMAIN <<>> = {}
        OBVIOUS
      <3> QED
        BY <1>3, <3>1 DEF Requires
    <2>2. <<target, other>>[1] = target /\ <<target, package>>[1] = target
      OBVIOUS
    <2> QED
      BY <1>1, <1>2, <1>3, <2>1, <2>2 DEF RequirementsAgree
  <1>4. ASSUME NEW spec \in Projects(w), spec.target = target, id \in DOMAIN spec.refs
        PROVE  Requires(w, target, package)[id] <= spec.refs[id].low
    <2>1. <<target, package>>[1] = target
      OBVIOUS
    <2> QED
      BY <1>1, <1>2, <1>4, <2>1 DEF RequirementsAgree
  <1> QED
    BY <1>3, <1>4

LEMMA RequiresFacts ==
    ASSUME StateOK, NEW target, NEW package
    PROVE  /\ Requires(world, target, package) = Dependencies(target, package)
           /\ target \in Targets(world) /\ package \in Packages
                 => Requires(world, target, package) \in Partial(Ids, Versions)
  <1>1. Requires(world, target, package) = Dependencies(target, package)
    BY DEF Requires, Dependencies
  <1> QED
    BY <1>1, WorldFacts

\* A node that is not known changes its state, or its version within its bounds.
LEMMA MovedSound ==
    ASSUME NEW w, NEW spec, NEW nodes, NodesSound(w, spec, nodes), NEW new,
           DOMAIN new = DOMAIN nodes,
           \A x \in DOMAIN nodes :
              /\ new[x].low = nodes[x].low /\ new[x].high = nodes[x].high
              /\ InRange(new[x].version, new[x])
              /\ new[x].state = "known" <=> nodes[x].state = "known"
              /\ nodes[x].state = "known" => new[x].version = nodes[x].version
    PROVE  NodesSound(w, spec, new)
  <1>1. KnownIn(new) = KnownIn(nodes)
    BY DEF KnownIn
  <1>2. \A id \in KnownIn(nodes) : id \in DOMAIN nodes /\ Needs(w, spec, new, id) = Needs(w, spec, nodes, id)
    BY DEF KnownIn, Needs
  <1>3. \A id \in DOMAIN spec.refs :
          id \in DOMAIN new /\ new[id].low = spec.refs[id].low /\ new[id].high = spec.refs[id].high
    BY DEF NodesSound
  <1>4. \A id \in DOMAIN new : InRange(new[id].version, new[id])
    OBVIOUS
  <1>5. ASSUME NEW id \in KnownIn(new), NEW child \in DOMAIN Needs(w, spec, new, id)
        PROVE  child \in DOMAIN new /\ new[child].low >= Needs(w, spec, new, id)[child]
    BY <1>1, <1>2 DEF NodesSound
  <1>6. ASSUME NEW id \in DOMAIN new, id \notin DOMAIN spec.refs
        PROVE  \E parent \in KnownIn(new) :
                  /\ id \in DOMAIN Needs(w, spec, new, parent)
                  /\ new[id].low = Needs(w, spec, new, parent)[id]
    <2>1. PICK parent \in KnownIn(nodes) :
                  /\ id \in DOMAIN Needs(w, spec, nodes, parent)
                  /\ nodes[id].low = Needs(w, spec, nodes, parent)[id]
      BY <1>6 DEF NodesSound
    <2> QED
      BY <1>1, <1>2, <2>1
  <1> QED
    BY <1>3, <1>4, <1>5, <1>6 DEF NodesSound

\* A node is known, and what it needs is there: a node it shares with another, or with a
\* reference, was asked for at the same version or at none below.
LEMMA KnownSound ==
    ASSUME NEW w, RequirementsAgree(w), NEW spec \in Projects(w),
           NEW nodes \in Partial(Ids, Nodes), NodesSound(w, spec, nodes),
           NEW id \in DOMAIN nodes, Needs(w, spec, nodes, id) \in Partial(Ids, Versions)
    PROVE  NodesSound(w, spec, Known(nodes, id, Needs(w, spec, nodes, id)))
  <1> DEFINE dependencies == Needs(w, spec, nodes, id)
             new == Known(nodes, id, dependencies)
  <1>1. /\ \A x : x \in DOMAIN new <=> x \in DOMAIN nodes \/ x \in DOMAIN dependencies
        /\ \A x \in DOMAIN nodes :
              /\ new[x].low = nodes[x].low /\ new[x].high = nodes[x].high
              /\ new[x].version = nodes[x].version
              /\ new[x].state = IF x = id THEN "known" ELSE nodes[x].state
        /\ \A x \in DOMAIN dependencies :
              x \notin DOMAIN nodes => new[x] = Node(dependencies[x], MaxVersion)
    BY KnownFacts
  <1>2. \A x \in DOMAIN dependencies : dependencies[x] \in Versions
    BY PartialFacts
  <1> HIDE DEF new
  <1>3. \A x \in DOMAIN nodes : Needs(w, spec, new, x) = Needs(w, spec, nodes, x)
    BY <1>1 DEF Needs
  <1> HIDE DEF dependencies
  <1>4. ASSUME NEW x \in DOMAIN dependencies, x \notin DOMAIN nodes
        PROVE  /\ new[x].low = dependencies[x] /\ new[x].state = "ready"
               /\ InRange(new[x].version, new[x])
    <2>1. new[x] = Node(dependencies[x], MaxVersion)
      BY <1>1, <1>4
    <2>2. dependencies[x] \in 1..MaxVersion /\ MaxVersion \in Nat
      BY <1>2, ConstantFacts DEF Versions
    <2> QED
      BY <2>1, <2>2 DEF Node, InRange
  <1>5. KnownIn(new) \subseteq KnownIn(nodes) \cup {id} /\ KnownIn(nodes) \subseteq KnownIn(new)
        /\ id \in KnownIn(new)
    BY <1>1, <1>4 DEF KnownIn
  <1>6. \A x \in DOMAIN spec.refs :
          x \in DOMAIN new /\ new[x].low = spec.refs[x].low /\ new[x].high = spec.refs[x].high
    BY <1>1 DEF NodesSound
  <1>7. ASSUME NEW x \in DOMAIN new
        PROVE  InRange(new[x].version, new[x])
    <2>1. CASE x \in DOMAIN nodes
      BY <1>1, <2>1 DEF NodesSound, InRange
    <2>2. CASE x \notin DOMAIN nodes
      BY <1>1, <1>4, <2>2
    <2> QED
      BY <2>1, <2>2
  <1>8. ASSUME NEW x \in KnownIn(new), NEW child \in DOMAIN Needs(w, spec, new, x)
        PROVE  child \in DOMAIN new /\ new[child].low >= Needs(w, spec, new, x)[child]
    <2>1. CASE x \in KnownIn(nodes)
      <3>1. x \in DOMAIN nodes
        BY <2>1 DEF KnownIn
      <3>2. child \in DOMAIN nodes /\ nodes[child].low >= Needs(w, spec, nodes, x)[child]
        BY <1>3, <1>8, <2>1, <3>1 DEF NodesSound
      <3> QED
        BY <1>1, <1>3, <3>1, <3>2
    <2>2. CASE x = id
      <3>1. child \in DOMAIN dependencies /\ Needs(w, spec, new, x)[child] = dependencies[child]
        BY <1>3, <1>8, <2>2 DEF dependencies
      <3>2. dependencies[child] \in Nat
        BY <1>2, <3>1, ConstantFacts
      <3>3. CASE child \notin DOMAIN nodes
        <4>1. child \in DOMAIN new /\ new[child].low = dependencies[child]
          BY <1>1, <1>4, <3>1, <3>3
        <4> QED
          BY <3>1, <3>2, <4>1
      <3>4. CASE child \in DOMAIN nodes /\ child \in DOMAIN spec.refs
        <4>1. Requires(w, spec.target, <<id, nodes[id].version>>)[child] <= spec.refs[child].low
          <5>1. child \in DOMAIN Requires(w, spec.target, <<id, nodes[id].version>>)
            BY <3>1 DEF dependencies, Needs
          <5> QED
            BY <3>4, <5>1, AgreeFacts
        <4>2. dependencies[child] <= nodes[child].low
          BY <3>4, <4>1 DEF dependencies, Needs, NodesSound
        <4>3. nodes[child].low \in Nat
          <5>1. nodes[child] \in Nodes
            BY <3>4, PartialFacts
          <5> QED
            BY <5>1, ConstantFacts DEF Nodes
        <4> QED
          BY <1>1, <3>1, <3>2, <3>4, <4>2, <4>3
      <3>5. CASE child \in DOMAIN nodes /\ child \notin DOMAIN spec.refs
        <4>1. PICK parent \in KnownIn(nodes) :
                 /\ child \in DOMAIN Needs(w, spec, nodes, parent)
                 /\ nodes[child].low = Needs(w, spec, nodes, parent)[child]
          BY <3>5 DEF NodesSound
        <4>2. Needs(w, spec, nodes, parent)[child] = dependencies[child]
          <5>1. /\ child \in DOMAIN Requires(w, spec.target, <<id, nodes[id].version>>)
                /\ child \in DOMAIN Requires(w, spec.target, <<parent, nodes[parent].version>>)
            BY <3>1, <4>1 DEF dependencies, Needs
          <5>2. Requires(w, spec.target, <<parent, nodes[parent].version>>)[child]
                   = Requires(w, spec.target, <<id, nodes[id].version>>)[child]
            BY <5>1, AgreeFacts
          <5> QED
            BY <5>2 DEF dependencies, Needs
        <4> QED
          BY <1>1, <3>1, <3>2, <3>5, <4>1, <4>2
      <3> QED
        BY <3>3, <3>4, <3>5
    <2> QED
      BY <1>5, <2>1, <2>2
  <1>9. ASSUME NEW x \in DOMAIN new, x \notin DOMAIN spec.refs
        PROVE  \E parent \in KnownIn(new) :
                  /\ x \in DOMAIN Needs(w, spec, new, parent)
                  /\ new[x].low = Needs(w, spec, new, parent)[x]
    <2>1. CASE x \in DOMAIN nodes
      <3>1. PICK parent \in KnownIn(nodes) :
               /\ x \in DOMAIN Needs(w, spec, nodes, parent)
               /\ nodes[x].low = Needs(w, spec, nodes, parent)[x]
        BY <1>9, <2>1 DEF NodesSound
      <3>2. parent \in DOMAIN nodes
        BY DEF KnownIn
      <3> QED
        BY <1>1, <1>3, <1>5, <2>1, <3>1, <3>2
    <2>2. CASE x \notin DOMAIN nodes
      <3>1. x \in DOMAIN dependencies /\ new[x].low = dependencies[x]
        BY <1>1, <1>4, <2>2
      <3>2. Needs(w, spec, new, id) = dependencies
        BY <1>3 DEF dependencies
      <3> QED
        BY <1>5, <3>1, <3>2
    <2> QED
      BY <2>1, <2>2
  <1>10. NodesSound(w, spec, new)
    BY <1>6, <1>7, <1>8, <1>9 DEF NodesSound
  <1> QED
    BY <1>10 DEF new, dependencies

\* What a step without a graph leaves sound.
LEMMA CurrentQuiet ==
    ASSUME CurrentInv, ~Active', UNCHANGED <<world, locks, wrote>>,
           batch' = batch \/ batch' = <<>>,
           session'.answers = session.answers \/ session'.answers = <<>>,
           \/ session'.error.kind = "none"
           \/ session'.at = "ended" /\ session'.error.kind \notin {"torn", "omitted"}
    PROVE  CurrentInv'
  <1>1. GraphSound'
    BY DEF GraphSound
  <1>2. BatchSound'
    <2>1. CASE batch' = batch
      BY <2>1 DEF CurrentInv, BatchSound
    <2>2. CASE batch' = <<>>
      <3>1. DOMAIN <<>> = {}
        OBVIOUS
      <3> QED
        BY <2>2, <3>1 DEF BatchSound
    <2> QED
      BY <2>1, <2>2
  <1>3. LocksSound'
    BY DEF CurrentInv, LocksSound
  <1>4. AnswersSound'
    <2>1. CASE session'.answers = session.answers
      BY <2>1 DEF CurrentInv, AnswersSound
    <2>2. CASE session'.answers = <<>>
      <3>1. DOMAIN <<>> = {}
        OBVIOUS
      <3> QED
        BY <2>2, <3>1 DEF AnswersSound
    <2> QED
      BY <2>1, <2>2
  <1>5. ErrorSound'
    BY DEF ErrorSound, Ended
  <1> QED
    BY <1>1, <1>2, <1>3, <1>4, <1>5 DEF CurrentInv

\* What a step within the graph of one project leaves sound.
LEMMA CurrentGraph ==
    ASSUME CurrentInv, UNCHANGED <<world, locks, wrote>>, Now' = Now, ~Ended,
           session'.answers = session.answers, session'.error = session.error, BatchSound',
           NodesSound(world, Now, session'.nodes), Chosen(session'.nodes, session'.got),
           Chosen(session'.nodes, session'.final), PhaseSound'
    PROVE  CurrentInv'
  <1>1. GraphSound'
    BY DEF GraphSound
  <1>2. LocksSound' /\ AnswersSound'
    BY DEF CurrentInv, LocksSound, AnswersSound
  <1>3. ErrorSound'
    BY DEF CurrentInv, ErrorSound
  <1> QED
    BY <1>1, <1>2, <1>3 DEF CurrentInv

\* What a step that answers a project leaves sound.
LEMMA CurrentAnswer ==
    ASSUME CurrentInv, StateOK, session.project \in DOMAIN specs, ~Ended, UNCHANGED <<world, batch>>,
           NEW answer \in Answers(world), Answer(answer), LocksSound',
           DOMAIN answer.spec.refs # {} => Answered(world, answer)
    PROVE  CurrentInv'
  <1>1. /\ session'.at = "project" /\ session'.answers = Append(session.answers, answer)
        /\ session'.error = session.error
    BY AnswerFacts
  <1>2. GraphSound'
    BY <1>1 DEF GraphSound, Active
  <1>3. BatchSound'
    BY DEF CurrentInv, BatchSound
  <1>4. AnswersSound'
    <2>1. session.answers \in Seq(Answers(world))
      BY DEF StateOK, Sessions
    <2>2. ASSUME NEW k \in DOMAIN session'.answers
          PROVE  \/ session'.answers[k] = answer
                 \/ k \in DOMAIN session.answers /\ session'.answers[k] = session.answers[k]
      BY <1>1, <2>1, <2>2
    <2> QED
      BY <2>2 DEF CurrentInv, AnswersSound
  <1>5. ErrorSound'
    BY <1>1 DEF CurrentInv, ErrorSound
  <1> QED
    BY <1>2, <1>3, <1>4, <1>5 DEF CurrentInv

\* What a command that fails leaves sound.
LEMMA CurrentFail ==
    ASSUME StateOK, CurrentInv, NEW kind \in Kinds \ {"torn", "omitted"}, NEW what \in Nat,
           Fail(kind, what), UNCHANGED <<world, locks, batch, wrote>>
    PROVE  CurrentInv' /\ ~Active'
  <1>1. /\ session'.at = "ended" /\ session'.answers = session.answers
        /\ session'.error = [kind |-> kind, what |-> what]
    BY FailFacts
  <1>2. session'.error.kind = kind
    BY <1>1
  <1> QED
    BY <1>1, <1>2, CurrentQuiet DEF Active

LEMMA CurrentInit ==
    ASSUME Init
    PROVE  CurrentInv
  <1>1. DOMAIN <<>> = {}
    OBVIOUS
  <1>2. session.at = "ended" /\ session.answers = <<>> /\ session.error.kind = "none"
    BY DEF Init, Resting, NoError
  <1>3. GraphSound /\ ErrorSound
    BY <1>2 DEF GraphSound, ErrorSound, Active
  <1>4. BatchSound
    BY <1>1 DEF Init, BatchSound
  <1>5. LocksSound
    BY DEF Init, LocksSound
  <1>6. AnswersSound
    BY <1>1, <1>2 DEF AnswersSound
  <1> QED
    BY <1>3, <1>4, <1>5, <1>6 DEF CurrentInv

LEMMA CurrentBeginGraph ==
    ASSUME TypeOK, CurrentInv, BeginGraph
    PROVE  CurrentInv'
  <1> DEFINE nodes == [id \in DOMAIN Now.refs |-> Node(Now.refs[id].low, Now.refs[id].high)]
  <1>1. StateOK /\ session.at = "project" /\ session.project \in DOMAIN specs
    BY AtProjectFacts DEF TypeOK, BeginGraph
  <1>2. session \in Sessions(world)
    BY <1>1, VariableFacts
  <1>3. /\ session'.project = session.project /\ session'.nodes = nodes /\ session'.at = "graph"
        /\ session'.tasks = <<>> /\ session'.got = <<>> /\ session'.final = <<>>
        /\ session'.answers = session.answers /\ session'.error = session.error
        /\ UNCHANGED <<world, specs, locks, wrote, batch>>
    BY <1>2 DEF BeginGraph, Sessions
  <1>4. Now' = Now
    BY <1>3 DEF Now
  <1>5. \A id \in DOMAIN Now.refs : Now.refs[id].low \in Nat /\ Now.refs[id].high \in Nat
                                    /\ Now.refs[id].low <= Now.refs[id].high
    BY <1>1, NowFacts, ConstantFacts DEF ValidProject
  <1>6. NodesSound(world, Now, nodes)
    <2>1. KnownIn(nodes) = {}
      BY DEF KnownIn, Node
    <2>2. \A id \in DOMAIN nodes : InRange(nodes[id].version, nodes[id])
      BY <1>5 DEF InRange, Node
    <2> QED
      BY <2>1, <2>2 DEF NodesSound, Node
  <1>7. Chosen(nodes, <<>>)
    <2>1. DOMAIN <<>> = {}
      OBVIOUS
    <2> QED
      BY <2>1 DEF Chosen
  <1>8. PhaseSound'
    <2>1. DOMAIN <<>> = {}
      OBVIOUS
    <2> QED
      BY <1>3, <2>1 DEF PhaseSound
  <1>9. BatchSound'
    BY <1>3 DEF CurrentInv, BatchSound
  <1> HIDE DEF nodes
  <1> QED
    BY <1>1, <1>3, <1>4, <1>6, <1>7, <1>8, <1>9, CurrentGraph DEF Ended

\* In a graph, what the invariant says of it.
LEMMA GraphFacts ==
    ASSUME CurrentInv, Active
    PROVE  /\ NodesSound(world, Now, session.nodes) /\ Chosen(session.nodes, session.got)
           /\ Chosen(session.nodes, session.final) /\ PhaseSound /\ BatchSound /\ ~Ended
  BY DEF CurrentInv, GraphSound, Active, Ended

\* The node the owner takes next is ready and has no task.
LEMMA DispatchFacts ==
    ASSUME TypeOK, CurrentInv, NEW id \in DOMAIN session.nodes, Dispatches(id)
    PROVE  /\ StateOK /\ GraphOK /\ session.project \in DOMAIN specs
           /\ session.at = "graph" /\ Active
           /\ session.nodes[id].state = "ready" /\ id \notin DOMAIN session.tasks
  <1>1. session.at = "graph" /\ id = Min(InState("ready")) /\ InState("ready") # {}
    BY DEF Dispatches
  <1>2. StateOK /\ GraphOK /\ session.project \in DOMAIN specs
    BY <1>1, ActiveFacts
  <1>3. session.nodes[id].state = "ready"
    <2>1. id \in InState("ready")
      BY <1>1, <1>2, InStateFacts
    <2> QED
      BY <2>1 DEF InState
  <1>4. \A x \in DOMAIN session.tasks : session.nodes[x].state = "loading"
    BY <1>1, GraphFacts DEF Active, PhaseSound
  <1> QED
    BY <1>1, <1>2, <1>3, <1>4 DEF Active

\* What a package needs, by the names of the code.
LEMMA NeedsFacts ==
    ASSUME StateOK, session.project \in DOMAIN specs, NEW id \in DOMAIN session.nodes
    PROVE  /\ Needs(world, Now, session.nodes, id) = Dependencies(Now.target, Package(id))
           /\ Needs(world, Now, session.nodes, id) \in Partial(Ids, Versions)
  <1>1. Needs(world, Now, session.nodes, id) = Requires(world, Now.target, Package(id))
    BY DEF Needs, Package, Version
  <1> QED
    BY <1>1, NowFacts, NodeFacts, RequiresFacts

\* A node becomes known: what was chosen stays, and so does what is ready or loads.
LEMMA KnownGraph ==
    ASSUME StateOK, session.project \in DOMAIN specs, NEW id \in DOMAIN session.nodes,
           NodesSound(world, Now, session.nodes)
    PROVE  LET new == Known(session.nodes, id, Dependencies(Now.target, Package(id)))
           IN  /\ NodesSound(world, Now, new)
               /\ id \in KnownIn(new) /\ new[id].version = Version(id)
               /\ \A picks : Chosen(session.nodes, picks) => Chosen(new, picks)
               /\ \A x \in DOMAIN session.nodes :
                     x \in DOMAIN new /\ (x # id => new[x].state = session.nodes[x].state)
  <1> DEFINE dependencies == Dependencies(Now.target, Package(id))
             new == Known(session.nodes, id, dependencies)
  <1>1. /\ session.nodes \in Partial(Ids, Nodes) /\ dependencies \in Partial(Ids, Versions)
        /\ Needs(world, Now, session.nodes, id) = dependencies
    BY SessionFacts, NodeFacts, NeedsFacts
  <1>2. RequirementsAgree(world) /\ Now \in Projects(world)
    BY WorldFacts, NowFacts
  <1>3. NodesSound(world, Now, new)
    BY <1>1, <1>2, KnownSound
  <1>4. /\ \A x \in DOMAIN session.nodes : x \in DOMAIN new
        /\ \A x \in DOMAIN session.nodes :
              /\ new[x].version = session.nodes[x].version
              /\ new[x].state = IF x = id THEN "known" ELSE session.nodes[x].state
    BY <1>1, KnownFacts
  <1> HIDE DEF new
  <1>5. ASSUME NEW picks, Chosen(session.nodes, picks)
        PROVE  Chosen(new, picks)
    BY <1>4, <1>5 DEF Chosen, KnownIn
  <1>6. id \in KnownIn(new) /\ new[id].version = Version(id)
    BY <1>4 DEF KnownIn, Version
  <1> QED
    BY <1>3, <1>4, <1>5, <1>6 DEF new

LEMMA CurrentReuse ==
    ASSUME TypeOK, CurrentInv, Reuse
    PROVE  CurrentInv'
  <1>1. PICK id \in DOMAIN session.nodes :
           /\ Dispatches(id) /\ Key(id) \in DOMAIN batch
           /\ session' = [session EXCEPT !.nodes =
                             Known(session.nodes, id, batch[Key(id)].dependencies)]
    BY DEF Reuse
  <1>2. UNCHANGED <<world, specs, cache, locks, batch, budget, wrote, discovery>>
    BY DEF Reuse
  <1>3. /\ StateOK /\ GraphOK /\ session.project \in DOMAIN specs /\ session.at = "graph" /\ Active
        /\ session.nodes[id].state = "ready" /\ id \notin DOMAIN session.tasks
    BY <1>1, DispatchFacts
  <1> DEFINE dependencies == Dependencies(Now.target, Package(id))
             new == Known(session.nodes, id, dependencies)
  <1>4. batch[Key(id)].dependencies = dependencies
    <2>1. batch[Key(id)].dependencies = Requires(world, Now.target, Package(id))
      BY <1>1 DEF CurrentInv, BatchSound, Key
    <2> QED
      BY <1>3, <2>1, RequiresFacts
  <1>5. session' = [session EXCEPT !.nodes = new]
    BY <1>1, <1>4
  <1>6. /\ NodesSound(world, Now, new) /\ Chosen(new, session.got) /\ Chosen(new, session.final)
        /\ \A x \in DOMAIN session.nodes :
              x \in DOMAIN new /\ (x # id => new[x].state = session.nodes[x].state)
    BY <1>3, GraphFacts, KnownGraph
  <1> HIDE DEF new
  <1>7. /\ session'.at = "graph" /\ session'.project = session.project /\ session'.nodes = new
        /\ session'.tasks = session.tasks /\ session'.got = session.got
        /\ session'.final = session.final /\ session'.answers = session.answers
        /\ session'.error = session.error
    <2>1. session \in Sessions(world)
      BY <1>3, VariableFacts
    <2> QED
      BY <1>3, <1>5, <2>1 DEF Sessions
  <1>8. PhaseSound'
    <2>1. /\ \A x \in DOMAIN session.tasks : session.nodes[x].state = "loading"
          /\ DOMAIN session.tasks \subseteq DOMAIN session.nodes
      BY <1>3, GraphFacts DEF PhaseSound, GraphOK
    <2> QED
      BY <1>3, <1>6, <1>7, <2>1 DEF PhaseSound
  <1>9. Now' = Now
    BY <1>2, <1>7 DEF Now
  <1>10. BatchSound' /\ ~Ended
    BY <1>2, <1>3, GraphFacts DEF BatchSound
  <1> QED
    BY <1>2, <1>6, <1>7, <1>8, <1>9, <1>10, CurrentGraph

\* A ready node gets a task.
LEMMA CurrentSpawned ==
    ASSUME TypeOK, CurrentInv, Active, NEW id \in DOMAIN session.nodes, NEW endpoints \in Seq(Nat),
           session' = Spawned(id, endpoints), session.nodes[id].state = "ready",
           session.at \in {"graph", "discovery"},
           UNCHANGED <<world, specs, cache, locks, batch, budget, wrote>>
    PROVE  CurrentInv'
  <1>1. StateOK /\ GraphOK /\ session.project \in DOMAIN specs
    BY DEF TypeOK, GraphOK
  <1>2. /\ session'.at = "graph" /\ session'.project = session.project
        /\ session'.answers = session.answers /\ session'.error = session.error
        /\ session'.got = session.got /\ session'.final = session.final
        /\ DOMAIN session'.nodes = DOMAIN session.nodes
        /\ \A x \in DOMAIN session.nodes :
              /\ session'.nodes[x].low = session.nodes[x].low
              /\ session'.nodes[x].high = session.nodes[x].high
              /\ session'.nodes[x].version = session.nodes[x].version
              /\ session'.nodes[x].state = IF x = id THEN "loading" ELSE session.nodes[x].state
        /\ session'.tasks = With(session.tasks, id, Task(endpoints))
    BY <1>1, SpawnedFacts
  <1>3. \A x : x \in DOMAIN session'.tasks <=> x \in DOMAIN session.tasks \/ x = id
    <2>1. session.tasks \in Partial(Ids, Tasks) /\ Task(endpoints) \in Tasks /\ id \in Ids
      BY <1>1, FreshTask, SessionFacts, NodeFacts
    <2> QED
      BY <1>2, <2>1, WithFacts
  <1>4. /\ NodesSound(world, Now, session.nodes) /\ Chosen(session.nodes, session.got)
        /\ Chosen(session.nodes, session.final) /\ PhaseSound /\ BatchSound /\ ~Ended
    BY GraphFacts
  <1>5. NodesSound(world, Now, session'.nodes)
    <2>1. \A x \in DOMAIN session.nodes : InRange(session'.nodes[x].version, session'.nodes[x])
      BY <1>2, <1>4 DEF NodesSound, InRange
    <2> QED
      BY <1>2, <1>4, <2>1, MovedSound
  <1>6. Chosen(session'.nodes, session'.got) /\ Chosen(session'.nodes, session'.final)
    BY <1>2, <1>4 DEF Chosen, KnownIn
  <1>7. PhaseSound'
    BY <1>1, <1>2, <1>3, <1>4 DEF PhaseSound, GraphOK
  <1>8. Now' = Now /\ BatchSound'
    BY <1>2, <1>4 DEF Now, BatchSound
  <1> QED
    BY <1>2, <1>4, <1>5, <1>6, <1>7, <1>8, CurrentGraph

LEMMA CurrentLoadCached ==
    ASSUME TypeOK, CurrentInv, LoadCached
    PROVE  CurrentInv'
  <1>1. PICK id \in DOMAIN session.nodes :
           Dispatches(id) /\ session' = Spawned(id, discovery.snapshot)
    BY DEF LoadCached
  <1>2. StateOK /\ session.at = "graph" /\ Active /\ session.nodes[id].state = "ready"
    BY <1>1, DispatchFacts
  <1>3. discovery.snapshot \in Seq(Nat)
    BY <1>2, VariableFacts DEF Discoveries
  <1> QED
    BY <1>1, <1>2, <1>3, CurrentSpawned DEF LoadCached

LEMMA CurrentDiscovered ==
    ASSUME TypeOK, CurrentInv, Discovered
    PROVE  CurrentInv'
  <1>1. /\ session.at = "discovery" /\ AllArrived /\ Settle(Config)
        /\ session' = Spawned(discovery.asked, discovery'.snapshot)
        /\ UNCHANGED <<world, specs, cache, locks, batch, budget, wrote>>
    BY DEF Discovered
  <1>2. StateOK /\ GraphOK /\ Active
    BY <1>1, ActiveFacts DEF Active
  <1>3. discovery.asked \in DOMAIN session.nodes /\ session.nodes[discovery.asked].state = "ready"
    BY <1>1, <1>2, GraphFacts DEF GraphOK, PhaseSound
  <1>4. discovery'.snapshot \in Seq(Nat)
    BY <1>1, <1>2, SettleFacts, VariableFacts DEF GraphOK
  <1> QED
    BY <1>1, <1>2, <1>3, <1>4, CurrentSpawned

\* A step that leaves the graph as it is.
LEMMA CurrentStill ==
    ASSUME TypeOK, CurrentInv, Active, UNCHANGED <<world, specs, locks, batch, wrote>>,
           session'.project = session.project, session'.nodes = session.nodes,
           session'.got = session.got, Chosen(session.nodes, session'.final),
           session'.answers = session.answers, session'.error = session.error, PhaseSound'
    PROVE  CurrentInv'
  BY GraphFacts, CurrentGraph DEF Now, BatchSound

LEMMA CurrentDiscover ==
    ASSUME TypeOK, CurrentInv, Discover
    PROVE  CurrentInv'
  <1>1. PICK id \in DOMAIN session.nodes :
           /\ Dispatches(id)
           /\ IF Unmapped(Config, id)
              THEN Fail("unmapped", id) /\ UNCHANGED discovery
              ELSE /\ session' = [session EXCEPT !.at = "discovery"]
                   /\ EnsureIdentity(Config, id, session.online, Workers)
    BY DEF Discover
  <1>2. UNCHANGED <<world, specs, cache, locks, batch, budget, wrote>>
    BY DEF Discover
  <1>3. /\ StateOK /\ GraphOK /\ session.project \in DOMAIN specs /\ session.at = "graph" /\ Active
        /\ session.nodes[id].state = "ready" /\ id \notin DOMAIN session.tasks
    BY <1>1, DispatchFacts
  <1>4. id \in Nat
    BY <1>3, NodeFacts, ConstantFacts
  <1>5. CASE Unmapped(Config, id)
    <2>1. Fail("unmapped", id)
      BY <1>1, <1>5
    <2>2. "unmapped" \in Kinds \ {"torn", "omitted"}
      BY DEF Kinds
    <2> QED
      BY <1>2, <1>3, <1>4, <2>1, <2>2, CurrentFail
  <1>6. CASE ~Unmapped(Config, id)
    <2>1. /\ session'.at = "discovery" /\ session'.project = session.project
          /\ session'.nodes = session.nodes /\ session'.tasks = session.tasks
          /\ session'.got = session.got /\ session'.final = session.final
          /\ session'.answers = session.answers /\ session'.error = session.error
      <3>1. session \in Sessions(world)
        BY <1>3, VariableFacts
      <3> QED
        BY <1>1, <1>6, <3>1 DEF Sessions
    <2>2. discovery'.asked = id
      <3>1. Workers \in Nat
        <4>1. Cardinality(DOMAIN session.tasks) < MaxWorkers
          BY <1>1 DEF Dispatches
        <4> QED
          BY <1>3, <4>1, TasksFinite, ConstantFacts DEF Workers
      <3> QED
        BY <1>1, <1>3, <1>4, <1>6, <3>1, EnsureFacts
    <2>3. PhaseSound' /\ Chosen(session.nodes, session'.final)
      BY <1>3, <2>1, <2>2, GraphFacts DEF PhaseSound
    <2> QED
      BY <1>2, <1>3, <2>1, <2>3, CurrentStill
  <1> QED
    BY <1>5, <1>6

LEMMA CurrentArrive ==
    ASSUME TypeOK, CurrentInv, Arrive
    PROVE  CurrentInv'
  <1>1. /\ session.at = "discovery" /\ UNCHANGED <<world, specs, cache, locks, session, batch, wrote>>
    BY DEF Arrive
  <1>2. PICK s \in DOMAIN Config.sources : IndexArrives(s, Workers)
    BY DEF Arrive
  <1>3. StateOK /\ GraphOK /\ Active
    BY <1>1, ActiveFacts DEF Active
  <1>4. discovery'.asked = discovery.asked
    BY <1>2, <1>3, VariableFacts DEF IndexArrives, Staffed, Discoveries
  <1>5. PhaseSound' /\ Chosen(session.nodes, session.final)
    BY <1>1, <1>3, <1>4, GraphFacts DEF PhaseSound
  <1> QED
    BY <1>1, <1>3, <1>5, CurrentStill

LEMMA CurrentLoad ==
    ASSUME TypeOK, CurrentInv, NEW id \in Ids, Load(id)
    PROVE  CurrentInv'
  <1> DEFINE task == Loaded(session.tasks[id], id)
  <1>1. /\ session.at \in {"graph", "discovery"} /\ session'.at = session.at
        /\ session'.project = session.project
        /\ session'.nodes = session.nodes /\ session'.got = session.got
        /\ session'.final = session.final /\ session'.answers = session.answers
        /\ session'.error = session.error
        /\ session'.tasks = [session.tasks EXCEPT ![id] = task]
        /\ UNCHANGED <<world, specs, locks, batch, budget, wrote, discovery>>
    BY LoadSession
  <1> HIDE DEF task
  <1>2. DOMAIN session'.tasks = DOMAIN session.tasks /\ Active
    BY <1>1 DEF Active
  <1>3. PhaseSound' /\ Chosen(session.nodes, session'.final)
    BY <1>1, <1>2, GraphFacts DEF PhaseSound
  <1> QED
    BY <1>1, <1>2, <1>3, CurrentStill

LEMMA CurrentJoinRequirements ==
    ASSUME TypeOK, CurrentInv, JoinRequirements
    PROVE  CurrentInv'
  <1>1. PICK id \in DOMAIN session.tasks :
           LET task == session.tasks[id]
               dependencies == Dependencies(Now.target, Package(id))
           IN  /\ StateOK /\ GraphOK /\ session.project \in DOMAIN specs
               /\ session.at = "graph" /\ id \in DOMAIN session.nodes
               /\ task \in Tasks
               /\ dependencies \in Partial(Ids, Versions)
               /\ Origin(task) \in Origins(world)
               /\ batch' = Remembered(id, dependencies, task.archive, Origin(task))
               /\ session'.at = "graph" /\ session'.project = session.project
               /\ session'.nodes = Known(session.nodes, id, dependencies)
               /\ session'.tasks = Without(session.tasks, id)
               /\ session'.got =
                     IF task.archive = Absent THEN session.got
                     ELSE With(session.got, id, Pick(id, task.archive, Origin(task)))
               /\ session'.final = session.final /\ session'.answers = session.answers
               /\ session'.error = session.error
               /\ UNCHANGED <<world, specs, cache, locks, budget, wrote, discovery>>
    BY JoinSession
  <1> DEFINE task == session.tasks[id]
             dependencies == Dependencies(Now.target, Package(id))
             new == Known(session.nodes, id, dependencies)
             pick == Pick(id, task.archive, Origin(task))
  <1>2. Active
    BY <1>1 DEF Active
  <1>3. /\ NodesSound(world, Now, new) /\ id \in KnownIn(new) /\ new[id].version = Version(id)
        /\ Chosen(new, session.got) /\ Chosen(new, session.final)
        /\ \A x \in DOMAIN session.nodes :
              x \in DOMAIN new /\ (x # id => new[x].state = session.nodes[x].state)
    BY <1>1, <1>2, GraphFacts, KnownGraph
  <1>4. id \in Ids /\ Version(id) \in Versions /\ task.archive \in Archives \cup {Absent}
    BY <1>1, NodeFacts DEF Tasks
  <1>5. batch'  = Remembered(id, dependencies, task.archive, Origin(task))
        /\ session'.nodes = new
        /\ session'.got = IF task.archive = Absent THEN session.got ELSE With(session.got, id, pick)
    BY <1>1
  <1> HIDE DEF new
  <1>6. Chosen(new, session'.got)
    <2>1. CASE task.archive = Absent
      BY <1>3, <1>5, <2>1
    <2>2. CASE task.archive # Absent
      <3>1. pick \in Picks(world) /\ pick.version = Version(id)
        BY <1>1, <1>4, <2>2 DEF Pick, Picks
      <3>2. session.got \in Partial(Ids, Picks(world))
        BY <1>1, SessionFacts
      <3> HIDE DEF pick
      <3>3. /\ \A x : x \in DOMAIN session'.got <=> x \in DOMAIN session.got \/ x = id
            /\ session'.got[id] = pick
            /\ \A x \in DOMAIN session.got : x # id => session'.got[x] = session.got[x]
        BY <1>4, <1>5, <2>2, <3>1, <3>2, WithFacts
      <3> QED
        BY <1>3, <3>1, <3>3 DEF Chosen
    <2> QED
      BY <2>1, <2>2
  <1>7. \A x : x \in DOMAIN session'.tasks <=> x \in DOMAIN session.tasks /\ x # id
    <2>1. session.tasks \in Partial(Ids, Tasks)
      BY <1>1, SessionFacts
    <2> QED
      BY <1>1, <2>1, WithoutFacts
  <1>8. PhaseSound'
    <2>1. /\ \A x \in DOMAIN session.tasks : session.nodes[x].state = "loading"
          /\ DOMAIN session.tasks \subseteq DOMAIN session.nodes
      BY <1>1, <1>2, GraphFacts DEF PhaseSound, GraphOK
    <2> QED
      BY <1>1, <1>3, <1>5, <1>7, <2>1 DEF PhaseSound
  <1>9. BatchSound'
    <2>1. /\ \A key : key \in DOMAIN batch' <=> key \in DOMAIN batch \/ key = Key(id)
          /\ \A key \in DOMAIN batch : batch'[key].dependencies = batch[key].dependencies
          /\ Key(id) \notin DOMAIN batch => batch'[Key(id)].dependencies = dependencies
      <3> DEFINE archive == task.archive
                 origin == Origin(task)
                 memory == Remembered(id, dependencies, archive, origin)
      <3>1. /\ StateOK /\ session.project \in DOMAIN specs /\ id \in DOMAIN session.nodes
            /\ dependencies \in Partial(Ids, Versions) /\ archive \in Archives \cup {Absent}
            /\ origin \in Origins(world) /\ batch' = memory
        BY <1>1, <1>4, <1>5
      <3> HIDE DEF dependencies, archive, origin
      <3>2. /\ \A key : key \in DOMAIN memory <=> key \in DOMAIN batch \/ key = Key(id)
            /\ \A key \in DOMAIN batch : memory[key].dependencies = batch[key].dependencies
            /\ Key(id) \notin DOMAIN batch => memory[Key(id)].dependencies = dependencies
        BY <3>1, RememberedFacts
      <3> HIDE DEF memory
      <3> QED
        BY <3>1, <3>2
    <2>2. dependencies = Requires(world, Key(id)[2], Key(id)[3])
      <3>1. Key(id)[2] = Now.target /\ Key(id)[3] = Package(id)
        BY DEF Key
      <3> QED
        BY <1>1, <3>1, RequiresFacts
    <2>3. world' = world
      BY <1>1
    <2> HIDE DEF dependencies
    <2> QED
      BY <1>2, <2>1, <2>2, <2>3, GraphFacts DEF BatchSound
  <1>10. Now' = Now
    BY <1>1 DEF Now
  <1>11. /\ UNCHANGED <<world, locks, wrote>> /\ session'.answers = session.answers
         /\ session'.error = session.error /\ session'.final = session.final /\ ~Ended
    BY <1>1 DEF Ended
  <1> QED
    BY <1>3, <1>5, <1>6, <1>8, <1>9, <1>10, <1>11, CurrentGraph

LEMMA CurrentJoinVersions ==
    ASSUME TypeOK, CurrentInv, JoinVersions
    PROVE  CurrentInv'
  <1>1. /\ StateOK /\ GraphOK /\ session.project \in DOMAIN specs /\ session.at = "graph"
        /\ UNCHANGED <<world, specs, cache, locks, batch, budget, wrote, discovery>>
    BY VersionsSession
  <1>2. PICK id \in DOMAIN session.tasks :
                 \/ Fail("noVersion", id)
                 \/ \E version \in Versions :
                       /\ InRange(version, session.nodes[id])
                       /\ session'.at = "graph" /\ session'.project = session.project
                       /\ session'.nodes =
                             [session.nodes EXCEPT ![id] = [session.nodes[id] EXCEPT
                                 !.version = version, !.state = "ready"]]
                       /\ session'.tasks = Without(session.tasks, id)
                       /\ session'.got = session.got /\ session'.final = session.final
                       /\ session'.answers = session.answers /\ session'.error = session.error
    BY VersionsSession
  <1>3. id \in DOMAIN session.nodes /\ id \in Nat /\ session.nodes[id] \in Nodes
    BY <1>1, NodeFacts, ConstantFacts DEF GraphOK
  <1>4. CASE Fail("noVersion", id)
    <2>1. "noVersion" \in Kinds \ {"torn", "omitted"}
      BY DEF Kinds
    <2> QED
      BY <1>1, <1>3, <1>4, <2>1, CurrentFail
  <1>5. ASSUME NEW version \in Versions,
               /\ InRange(version, session.nodes[id])
               /\ session'.at = "graph" /\ session'.project = session.project
               /\ session'.nodes =
                     [session.nodes EXCEPT ![id] = [session.nodes[id] EXCEPT
                         !.version = version, !.state = "ready"]]
               /\ session'.tasks = Without(session.tasks, id)
               /\ session'.got = session.got /\ session'.final = session.final
               /\ session'.answers = session.answers /\ session'.error = session.error
        PROVE  CurrentInv'
    <2>1. /\ NodesSound(world, Now, session.nodes) /\ Chosen(session.nodes, session.got)
          /\ Chosen(session.nodes, session.final) /\ PhaseSound /\ BatchSound /\ ~Ended
      BY <1>1, GraphFacts DEF Active
    <2>2. /\ session.nodes[id].state = "loading"
          /\ \A x \in DOMAIN session.tasks : session.nodes[x].state = "loading"
          /\ DOMAIN session.tasks \subseteq DOMAIN session.nodes
      BY <1>1, <2>1 DEF PhaseSound, GraphOK
    <2>3. /\ DOMAIN session'.nodes = DOMAIN session.nodes
          /\ \A x \in DOMAIN session.nodes : x # id => session'.nodes[x] = session.nodes[x]
          /\ session'.nodes[id].low = session.nodes[id].low
          /\ session'.nodes[id].high = session.nodes[id].high
          /\ session'.nodes[id].version = version /\ session'.nodes[id].state = "ready"
      BY <1>3, <1>5 DEF Nodes
    <2>4. NodesSound(world, Now, session'.nodes)
      <3>1. ASSUME NEW x \in DOMAIN session.nodes
            PROVE  /\ session'.nodes[x].low = session.nodes[x].low
                   /\ session'.nodes[x].high = session.nodes[x].high
                   /\ InRange(session'.nodes[x].version, session'.nodes[x])
                   /\ session'.nodes[x].state = "known" <=> session.nodes[x].state = "known"
                   /\ session.nodes[x].state = "known" =>
                         session'.nodes[x].version = session.nodes[x].version
        <4>1. CASE x = id
          BY <1>5, <2>2, <2>3, <4>1 DEF InRange
        <4>2. CASE x # id
          BY <2>1, <2>3, <4>2 DEF NodesSound
        <4> QED
          BY <4>1, <4>2
      <3> QED
        BY <2>1, <2>3, <3>1, MovedSound
    <2>5. Chosen(session'.nodes, session'.got) /\ Chosen(session'.nodes, session'.final)
      BY <1>5, <2>1, <2>2, <2>3 DEF Chosen, KnownIn
    <2>6. \A x : x \in DOMAIN session'.tasks <=> x \in DOMAIN session.tasks /\ x # id
      <3>1. session.tasks \in Partial(Ids, Tasks)
        BY <1>1, SessionFacts
      <3> QED
        BY <1>5, <3>1, WithoutFacts
    <2>7. PhaseSound'
      BY <1>5, <2>2, <2>3, <2>6 DEF PhaseSound
    <2>8. Now' = Now /\ BatchSound'
      BY <1>1, <1>5, <2>1 DEF Now, BatchSound
    <2> QED
      BY <1>1, <1>5, <2>1, <2>4, <2>5, <2>7, <2>8, CurrentGraph
  <1> QED
    BY <1>2, <1>4, <1>5

LEMMA CurrentBeginAcquire ==
    ASSUME TypeOK, CurrentInv, BeginAcquire
    PROVE  CurrentInv'
  <1>1. /\ session.at = "graph" /\ InState("known") = DOMAIN session.nodes
        /\ session' = [session EXCEPT !.at = "acquire", !.final = session.got]
        /\ UNCHANGED <<world, specs, cache, locks, batch, budget, wrote, discovery>>
    BY DEF BeginAcquire
  <1>2. StateOK /\ Active
    BY <1>1, ActiveFacts DEF Active
  <1>3. /\ session'.at = "acquire" /\ session'.project = session.project
        /\ session'.nodes = session.nodes /\ session'.tasks = session.tasks
        /\ session'.got = session.got /\ session'.final = session.got
        /\ session'.answers = session.answers /\ session'.error = session.error
    <2>1. session \in Sessions(world)
      BY <1>2, VariableFacts
    <2> QED
      BY <1>1, <2>1 DEF Sessions
  <1>4. \A id \in DOMAIN session.nodes : session.nodes[id].state = "known"
    BY <1>1 DEF InState
  <1>5. PhaseSound' /\ Chosen(session.nodes, session'.final)
    BY <1>2, <1>3, <1>4, GraphFacts DEF PhaseSound
  <1> QED
    BY <1>1, <1>2, <1>3, <1>5, CurrentStill

\* A package of the finished graph is added to those that are there.
LEMMA ChosenWith ==
    ASSUME StateOK, session.project \in DOMAIN specs, NEW id \in DOMAIN session.nodes,
           session.nodes[id].state = "known", Chosen(session.nodes, session.final),
           NEW archive \in Archives, NEW origin \in Origins(world)
    PROVE  Chosen(session.nodes, With(session.final, id, Pick(id, archive, origin)))
  <1> DEFINE pick == Pick(id, archive, origin)
             final == With(session.final, id, pick)
  <1>1. pick \in Picks(world) /\ pick.version = session.nodes[id].version
    BY NodeFacts DEF Pick, Picks, Version
  <1>2. session.final \in Partial(Ids, Picks(world)) /\ id \in Ids
    BY SessionFacts, NodeFacts
  <1> HIDE DEF pick
  <1>3. /\ \A x : x \in DOMAIN final <=> x \in DOMAIN session.final \/ x = id
        /\ final[id] = pick /\ \A x \in DOMAIN session.final : x # id => final[x] = session.final[x]
    BY <1>1, <1>2, WithFacts
  <1> HIDE DEF final
  <1>4. Chosen(session.nodes, final)
    BY <1>1, <1>3 DEF Chosen, KnownIn
  <1> QED
    BY <1>4 DEF final, pick

LEMMA CurrentAcquireShared ==
    ASSUME TypeOK, CurrentInv, AcquireShared
    PROVE  CurrentInv'
  <1>1. PICK id \in Wanted :
              /\ StateOK /\ GraphOK /\ session.project \in DOMAIN specs
              /\ session.at = "acquire" /\ id \in DOMAIN session.nodes
              /\ Key(id) \in DOMAIN batch /\ batch[Key(id)].archive \in Archives
              /\ session'.at = "acquire" /\ session'.project = session.project
              /\ session'.nodes = session.nodes /\ session'.tasks = session.tasks
              /\ session'.got = session.got
              /\ session'.final =
                    With(session.final, id, Pick(id, batch[Key(id)].archive, batch[Key(id)].origin))
              /\ session'.answers = session.answers
              /\ session'.error = session.error
              /\ UNCHANGED <<world, specs, cache, locks, batch, budget, wrote, discovery>>
    BY SharedSession
  <1>2. Active
    BY <1>1 DEF Active
  <1>3. /\ Chosen(session.nodes, session.final) /\ session.nodes[id].state = "known"
        /\ PhaseSound
    BY <1>1, <1>2, GraphFacts DEF PhaseSound
  <1>4. batch[Key(id)].origin \in Origins(world)
    BY <1>1, BatchFacts
  <1>5. Chosen(session.nodes, session'.final)
    BY <1>1, <1>3, <1>4, ChosenWith
  <1>6. PhaseSound'
    BY <1>1, <1>3 DEF PhaseSound
  <1> QED
    BY <1>1, <1>2, <1>5, <1>6, CurrentStill

LEMMA CurrentAcquire ==
    ASSUME TypeOK, CurrentInv, Acquire
    PROVE  CurrentInv'
  <1>1. /\ StateOK /\ GraphOK /\ session.project \in DOMAIN specs /\ session.at = "acquire"
        /\ UNCHANGED <<world, specs, locks, budget, wrote, discovery>>
    BY AcquireSession
  <1>2. PICK id \in Wanted :
              LET task == Loaded(Task(discovery.snapshot), id)
                  archive == IF task.archive = Absent THEN Folder(Now)[Package(id)]
                             ELSE task.archive
              IN  /\ id \in DOMAIN session.nodes /\ task \in Tasks
                  /\ \/ /\ \E kind \in Kinds \ {"torn", "omitted", "absent", "discovery"} : Fail(kind, id)
                        /\ UNCHANGED <<cache, batch>>
                     \/ /\ archive \in Archives
                        /\ batch' \in Partial(Keys(world), Entries(world))
                        /\ DOMAIN batch' = DOMAIN batch
                        /\ \A key \in DOMAIN batch :
                              /\ batch'[key].dependencies = batch[key].dependencies
                              /\ key # Key(id) => batch'[key] = batch[key]
                        /\ session'.at = "acquire" /\ session'.project = session.project
                        /\ session'.nodes = session.nodes /\ session'.tasks = session.tasks
                        /\ session'.got = session.got
                        /\ session'.final =
                              With(session.final, id, Pick(id, archive, Origin(task)))
                        /\ session'.answers = session.answers /\ session'.error = session.error
    BY AcquireSession
  <1> DEFINE task == Loaded(Task(discovery.snapshot), id)
             archive == IF task.archive = Absent THEN Folder(Now)[Package(id)] ELSE task.archive
  <1>3. id \in DOMAIN session.nodes /\ task \in Tasks /\ id \in Nat
    BY <1>1, <1>2, NodeFacts, ConstantFacts
  <1>4. Active
    BY <1>1 DEF Active
  <1>5. CASE /\ \E kind \in Kinds \ {"torn", "omitted", "absent", "discovery"} : Fail(kind, id)
             /\ UNCHANGED <<cache, batch>>
    <2> HIDE DEF task
    <2>1. PICK kind \in Kinds \ {"torn", "omitted"} : Fail(kind, id)
      BY <1>5
    <2> QED
      BY <1>1, <1>3, <1>5, <2>1, CurrentFail
  <1>6. CASE /\ archive \in Archives
             /\ DOMAIN batch' = DOMAIN batch
             /\ \A key \in DOMAIN batch :
                   batch'[key].dependencies = batch[key].dependencies
             /\ session'.at = "acquire" /\ session'.project = session.project
             /\ session'.nodes = session.nodes /\ session'.tasks = session.tasks
             /\ session'.got = session.got
             /\ session'.final = With(session.final, id, Pick(id, archive, Origin(task)))
             /\ session'.answers = session.answers /\ session'.error = session.error
    <2>1. /\ NodesSound(world, Now, session.nodes) /\ Chosen(session.nodes, session.got)
          /\ Chosen(session.nodes, session.final) /\ PhaseSound /\ BatchSound /\ ~Ended
          /\ session.nodes[id].state = "known"
      BY <1>1, <1>3, <1>4, GraphFacts DEF PhaseSound
    <2>2. Origin(task) \in Origins(world)
      <3>1. discovery.snapshot \in Seq(Nat)
        BY <1>1, VariableFacts DEF Discoveries
      <3>2. task.origin # 0 => task.origin \in SelectedSources(Config, id)
        <4>1. /\ Task(discovery.snapshot) \in Tasks /\ Task(discovery.snapshot).archive = Absent
              /\ Task(discovery.snapshot).origin = 0
          BY <3>1, FreshTask
        <4> QED
          BY <1>1, <1>3, <4>1, LoadedFacts
      <3> HIDE DEF task
      <3>3. task.origin # 0 => task.origin \in DOMAIN Config.sources
        BY <1>1, <3>2, SelectedFacts
      <3> QED
        BY <1>1, <1>3, <3>3, OriginFacts
    <2> HIDE DEF task, archive
    <2>3. Chosen(session.nodes, session'.final)
      BY <1>1, <1>3, <1>6, <2>1, <2>2, ChosenWith
    <2>4. PhaseSound'
      BY <1>1, <1>6, <2>1 DEF PhaseSound
    <2>5. Now' = Now /\ BatchSound'
      BY <1>1, <1>6, <2>1 DEF Now, BatchSound
    <2> QED
      BY <1>1, <1>6, <2>1, <2>3, <2>4, <2>5, CurrentGraph
  <1> QED
    BY <1>2, <1>5, <1>6

LEMMA CurrentWriteTemporary ==
    ASSUME TypeOK, CurrentInv, WriteTemporary
    PROVE  CurrentInv'
  <1>1. /\ session.at = "acquire" /\ session' = [session EXCEPT !.at = "rename"]
        /\ UNCHANGED <<world, specs, locks, batch, wrote>>
    BY DEF WriteTemporary, Resolved, LocksWhileWriting
  <1>2. StateOK /\ Active
    BY <1>1, ActiveFacts DEF Active
  <1>3. /\ session'.at = "rename" /\ session'.project = session.project
        /\ session'.nodes = session.nodes /\ session'.tasks = session.tasks
        /\ session'.got = session.got /\ session'.final = session.final
        /\ session'.answers = session.answers /\ session'.error = session.error
    <2>1. session \in Sessions(world)
      BY <1>2, VariableFacts
    <2> QED
      BY <1>1, <2>1 DEF Sessions
  <1>4. PhaseSound' /\ Chosen(session.nodes, session.final)
    BY <1>1, <1>2, <1>3, GraphFacts DEF PhaseSound
  <1> QED
    BY <1>1, <1>2, <1>3, <1>4, CurrentStill

\* The nodes of a finished graph, or what was chosen for all of them, are an answer to
\* the project.
LEMMA FinishedClosed ==
    ASSUME NEW w, NEW spec, NEW nodes \in Partial(Ids, Nodes), NodesSound(w, spec, nodes), NEW packages,
           \A id : id \in DOMAIN packages <=> id \in DOMAIN nodes,
           \A id \in DOMAIN nodes : /\ nodes[id].state = "known"
                                    /\ packages[id].version = nodes[id].version
                                    /\ Needs(w, spec, nodes, id) \in Partial(Ids, Versions)
    PROVE  /\ Closed(w, spec, packages)
           /\ \A id \in DOMAIN spec.refs :
                 id \in DOMAIN packages /\ InRange(packages[id].version, spec.refs[id])
  <1>1. KnownIn(nodes) = DOMAIN nodes
    BY DEF KnownIn
  <1>2. \A id \in DOMAIN nodes :
           Requires(w, spec.target, <<id, packages[id].version>>) = Needs(w, spec, nodes, id)
    BY DEF Needs
  <1>3. ASSUME NEW id \in DOMAIN nodes
        PROVE  /\ nodes[id].version \in Nat /\ nodes[id].low \in Nat /\ nodes[id].high \in Nat
               /\ nodes[id].low <= nodes[id].version /\ nodes[id].version <= nodes[id].high
    <2>1. nodes[id] \in Nodes
      BY PartialFacts
    <2> QED
      BY <2>1, ConstantFacts DEF Nodes, NodesSound, InRange
  <1>4. ASSUME NEW id \in DOMAIN packages,
               NEW child \in DOMAIN Requires(w, spec.target, <<id, packages[id].version>>)
        PROVE  /\ child \in DOMAIN packages
               /\ packages[child].version >= Requires(w, spec.target, <<id, packages[id].version>>)[child]
    <2>1. child \in DOMAIN nodes /\ nodes[child].low >= Needs(w, spec, nodes, id)[child]
      BY <1>1, <1>2, <1>4 DEF NodesSound
    <2>2. Needs(w, spec, nodes, id)[child] \in Nat
      <3>1. Needs(w, spec, nodes, id) \in Partial(Ids, Versions) /\ child \in DOMAIN Needs(w, spec, nodes, id)
        BY <1>2, <1>4
      <3> QED
        BY <3>1, PartialFacts, ConstantFacts
    <2> QED
      BY <1>2, <1>3, <1>4, <2>1, <2>2
  <1>5. ASSUME NEW id \in DOMAIN packages, id \notin DOMAIN spec.refs
        PROVE  \E parent \in DOMAIN packages :
                  id \in DOMAIN Requires(w, spec.target, <<parent, packages[parent].version>>)
    BY <1>1, <1>2, <1>5 DEF NodesSound
  <1>6. Closed(w, spec, packages)
    BY <1>4, <1>5 DEF Closed
  <1>7. ASSUME NEW id \in DOMAIN spec.refs
        PROVE  id \in DOMAIN packages /\ InRange(packages[id].version, spec.refs[id])
    BY <1>3 DEF NodesSound, InRange
  <1> QED
    BY <1>6, <1>7

\* What a finished graph comes to: every node was chosen, and nothing else.
LEMMA FinishedFacts ==
    ASSUME TypeOK, CurrentInv, Resolved \/ session.at \in {"rename", "retry"}
    PROVE  /\ \A id : id \in DOMAIN session.final <=> id \in DOMAIN session.nodes
           /\ \A id \in DOMAIN session.nodes :
                 /\ session.nodes[id].state = "known"
                 /\ session.final[id].version = session.nodes[id].version
           /\ Closed(world, Now, session.final)
           /\ \A id \in DOMAIN Now.refs :
                 id \in DOMAIN session.final /\ InRange(session.final[id].version, Now.refs[id])
  <1>1. /\ StateOK /\ GraphOK /\ session.project \in DOMAIN specs
        /\ session.at \in {"acquire", "rename", "retry"} /\ Wanted = {}
    BY ResolvedFacts
  <1>2. NodesSound(world, Now, session.nodes) /\ Chosen(session.nodes, session.final) /\ PhaseSound
    BY <1>1, GraphFacts DEF Active
  <1>3. \A id : id \in DOMAIN session.final <=> id \in DOMAIN session.nodes
    BY <1>1, <1>2 DEF Wanted, Chosen, KnownIn
  <1>4. \A id \in DOMAIN session.nodes : /\ session.nodes[id].state = "known"
                                         /\ session.final[id].version = session.nodes[id].version
    BY <1>1, <1>2, <1>3 DEF PhaseSound, Chosen
  <1>5. \A id \in DOMAIN session.nodes :
           Needs(world, Now, session.nodes, id) \in Partial(Ids, Versions)
    BY <1>1, NeedsFacts
  <1>6. session.nodes \in Partial(Ids, Nodes)
    BY <1>1, SessionFacts
  <1> QED
    BY <1>2, <1>3, <1>4, <1>5, <1>6, FinishedClosed

\* Being closed is a matter of the versions, the target and the references.
LEMMA ClosedSame ==
    ASSUME NEW w, NEW spec, NEW other, NEW packages, NEW same, Closed(w, spec, packages),
           other.target = spec.target, DOMAIN other.refs = DOMAIN spec.refs,
           \A id : id \in DOMAIN same <=> id \in DOMAIN packages,
           \A id \in DOMAIN packages : same[id].version = packages[id].version
    PROVE  Closed(w, other, same)
  <1>1. \A id \in DOMAIN packages :
           Requires(w, other.target, <<id, same[id].version>>)
              = Requires(w, spec.target, <<id, packages[id].version>>)
    OBVIOUS
  <1> QED
    BY <1>1 DEF Closed

\* The lock that is written for a project is sound.
LEMMA NewLockSound ==
    ASSUME TypeOK, CurrentInv, Resolved \/ session.at \in {"rename", "retry"}
    PROVE  LockSound(world, NewLock, Now)
  <1> DEFINE packages == [id \in DOMAIN session.final |->
                             [version |-> session.final[id].version,
                              archive |-> session.final[id].archive,
                              direct |-> id \in DOMAIN Now.refs]]
             direct == LockDirects(Now, session.final)
  <1>1. NewLock.target = Now.target /\ NewLock.inputs = Now.inputs /\ NewLock.direct = direct
        /\ NewLock.packages = packages
    BY DEF NewLock, LockOf
  <1>2. HasSource(Now, NewLock.source)
    BY ResolvedFacts
  <1>3. /\ Closed(world, Now, session.final)
        /\ \A id \in DOMAIN Now.refs :
              id \in DOMAIN session.final /\ InRange(session.final[id].version, Now.refs[id])
    BY FinishedFacts
  <1>4. Closed(world, Now, packages)
    <2>1. /\ \A id : id \in DOMAIN packages <=> id \in DOMAIN session.final
          /\ \A id \in DOMAIN session.final : packages[id].version = session.final[id].version
      OBVIOUS
    <2> HIDE DEF packages
    <2> QED
      BY <1>3, <2>1, ClosedSame
  <1>5. /\ DOMAIN direct = DOMAIN Now.refs
        /\ \A id \in DOMAIN Now.refs : /\ direct[id].assets = Now.refs[id].assets
                                       /\ direct[id].version = session.final[id].version
    BY DEF LockDirects
  <1>6. \A id \in DOMAIN Now.refs : /\ id \in DOMAIN packages
                                    /\ packages[id].version = session.final[id].version
                                    /\ packages[id].direct
    <2>1. ASSUME NEW id \in DOMAIN Now.refs
          PROVE  /\ id \in DOMAIN packages
                 /\ packages[id].version = session.final[id].version
                 /\ packages[id].direct = (id \in DOMAIN Now.refs)
      BY <1>3
    <2> HIDE DEF packages
    <2> QED
      BY <2>1
  <1> HIDE DEF packages, direct
  <1> QED
    BY <1>1, <1>2, <1>3, <1>4, <1>5, <1>6 DEF LockSound

\* A lock is written for the current project, or goes.
LEMMA LocksWritten ==
    ASSUME StateOK, session.project \in DOMAIN specs, LocksSound, world' = world,
           \/ /\ locks' = [locks EXCEPT ![Now.dir] = NewLock] \/ (UNCHANGED locks /\ locks[Now.dir] = NewLock)
              /\ wrote' = [wrote EXCEPT ![Now.dir] = Now]
              /\ LockSound(world, NewLock, Now)
           \/ locks' = [locks EXCEPT ![Now.dir] = NoLock] /\ UNCHANGED wrote
    PROVE  LocksSound'
  <1>1. /\ Now.dir \in world.dirs /\ Now \in Projects(world)
        /\ DOMAIN locks = world.dirs /\ DOMAIN wrote = world.dirs
    BY NowFacts, VariableFacts
  <1>2. ASSUME NEW dir \in world.dirs, locks'[dir] # NoLock
        PROVE  wrote'[dir] \in Projects(world) /\ LockSound(world, locks'[dir], wrote'[dir])
    <2>1. CASE dir # Now.dir
      <3>1. locks'[dir] = locks[dir] /\ wrote'[dir] = wrote[dir]
        BY <1>1, <2>1
      <3> QED
        BY <1>2, <3>1 DEF LocksSound
    <2>2. CASE dir = Now.dir
      <3>1. locks'[dir] = NewLock /\ wrote'[dir] = Now /\ LockSound(world, NewLock, Now)
        BY <1>1, <1>2, <2>2
      <3> QED
        BY <1>1, <3>1
    <2> QED
      BY <2>1, <2>2
  <1> QED
    BY <1>2 DEF LocksSound

\* What a project is told that was resolved is current.
LEMMA ColdAnswered ==
    ASSUME TypeOK, CurrentInv, Resolved \/ session.at \in {"rename", "retry"}
    PROVE  Answered(world, ColdAnswer(Now, session.final))
  <1> DEFINE packages == [id \in DOMAIN session.final |->
                            [version |-> session.final[id].version,
                             archive |-> session.final[id].archive,
                             folder |-> Folder(Now)[<<id, session.final[id].version>>]]]
             answer == ColdAnswer(Now, session.final)
  <1>1. /\ answer.spec = Now /\ answer.target = Now.target /\ answer.packages = packages
        /\ \A id \in DOMAIN Now.refs : answer.assets[id] = Now.refs[id].assets
    BY DEF ColdAnswer
  <1>2. /\ Closed(world, Now, session.final)
        /\ \A id \in DOMAIN Now.refs :
              id \in DOMAIN session.final /\ InRange(session.final[id].version, Now.refs[id])
    BY FinishedFacts
  <1>3. /\ \A id : id \in DOMAIN packages <=> id \in DOMAIN session.final
        /\ \A id \in DOMAIN session.final : packages[id].version = session.final[id].version
    OBVIOUS
  <1> HIDE DEF packages, answer
  <1>4. Closed(world, Now, packages)
    BY <1>2, <1>3, ClosedSame
  <1>5. Answered(world, answer)
    BY <1>1, <1>2, <1>3, <1>4 DEF Answered
  <1> QED
    BY <1>5 DEF answer

\* A lock that matches a project is of the same closure, and omits no reference.
LEMMA MatchedFacts ==
    ASSUME NEW w, NEW lock, NEW old, NEW spec, LockSound(w, lock, old), LockMatches(lock, spec)
    PROVE  /\ Closed(w, spec, lock.packages)
           /\ Omitted(lock, spec) = {}
           /\ lock.target = spec.target
           /\ \A id \in DOMAIN spec.refs : /\ id \in DOMAIN lock.direct /\ id \in DOMAIN lock.packages
                                           /\ InRange(lock.packages[id].version, spec.refs[id])
                                           /\ lock.direct[id].assets = spec.refs[id].assets
  <1>1. /\ old.target = spec.target /\ DOMAIN old.refs = DOMAIN spec.refs
    BY DEF LockSound, LockMatches, DirectMatches
  <1>2. Closed(w, spec, lock.packages)
    <2>1. Closed(w, old, lock.packages)
      BY DEF LockSound
    <2> QED
      BY <1>1, <2>1, ClosedSame
  <1>3. \A id \in DOMAIN spec.refs : /\ id \in DOMAIN lock.direct /\ id \in DOMAIN lock.packages
                                     /\ InRange(lock.packages[id].version, spec.refs[id])
                                     /\ lock.direct[id].assets = spec.refs[id].assets
                                     /\ lock.packages[id].direct
    BY <1>1 DEF LockSound, LockMatches, DirectMatches
  <1>4. Omitted(lock, spec) = {}
    BY <1>3 DEF Omitted
  <1> QED
    BY <1>2, <1>3, <1>4 DEF LockMatches

LEMMA CurrentWrite ==
    ASSUME TypeOK, CurrentInv, Planned \/ KeepLock \/ Rename
    PROVE  CurrentInv'
  <1>1. Resolved \/ session.at \in {"rename", "retry"}
    BY DEF Planned, KeepLock, Rename
  <1>2. /\ StateOK /\ session.project \in DOMAIN specs /\ session.at \in {"acquire", "rename", "retry"}
        /\ ColdAnswer(Now, session.final) \in Answers(world)
    BY <1>1, ResolvedFacts
  <1>3. Answer(ColdAnswer(Now, session.final)) /\ UNCHANGED <<world, batch>>
    BY DEF Planned, KeepLock, Rename
  <1>4. LockSound(world, NewLock, Now) /\ Answered(world, ColdAnswer(Now, session.final))
    BY <1>1, NewLockSound, ColdAnswered
  <1>5. LocksSound'
    <2>1. CASE Planned
      BY <2>1 DEF Planned, CurrentInv, LocksSound
    <2>2. CASE KeepLock \/ Rename
      <3>1. /\ locks' = [locks EXCEPT ![Now.dir] = NewLock] \/ (UNCHANGED locks /\ locks[Now.dir] = NewLock)
            /\ wrote' = [wrote EXCEPT ![Now.dir] = Now]
        BY <2>2 DEF KeepLock, Rename
      <3> QED
        BY <1>2, <1>3, <1>4, <3>1, LocksWritten DEF CurrentInv
    <2> QED
      BY <2>1, <2>2
  <1>6. ~Ended
    BY <1>2 DEF Ended
  <1> QED
    BY <1>2, <1>3, <1>4, <1>5, <1>6, CurrentAnswer

LEMMA CurrentRenameFails ==
    ASSUME TypeOK, CurrentInv, RenameFails
    PROVE  CurrentInv'
  <1>1. session.at \in {"rename", "retry"} /\ UNCHANGED <<world, specs, cache, batch, wrote, discovery>>
    BY DEF RenameFails
  <1>2. StateOK /\ session.project \in DOMAIN specs /\ Active
    BY <1>1, ActiveFacts DEF Active
  <1>3. CASE session.at = "rename" /\ locks[Now.dir] # NoLock
    <2>1. session' = [session EXCEPT !.at = "retry"] /\ locks' = [locks EXCEPT ![Now.dir] = NoLock]
      BY <1>3 DEF RenameFails
    <2>2. /\ session'.at = "retry" /\ session'.project = session.project
          /\ session'.nodes = session.nodes /\ session'.tasks = session.tasks
          /\ session'.got = session.got /\ session'.final = session.final
          /\ session'.answers = session.answers /\ session'.error = session.error
      <3>1. session \in Sessions(world)
        BY <1>2, VariableFacts
      <3> QED
        BY <2>1, <3>1 DEF Sessions
    <2>3. LocksSound'
      BY <1>1, <1>2, <2>1, LocksWritten DEF CurrentInv
    <2>4. GraphSound'
      BY <1>1, <1>3, <2>2, GraphFacts, <1>2 DEF GraphSound, PhaseSound, Now
    <2>5. BatchSound' /\ AnswersSound' /\ ErrorSound'
      BY <1>1, <1>3, <2>2 DEF CurrentInv, BatchSound, AnswersSound, ErrorSound, Ended
    <2> QED
      BY <2>3, <2>4, <2>5 DEF CurrentInv
  <1>4. CASE ~(session.at = "rename" /\ locks[Now.dir] # NoLock)
    <2>1. Fail("io", session.project) /\ UNCHANGED locks
      BY <1>4 DEF RenameFails
    <2>2. session.project \in Nat /\ "io" \in Kinds \ {"torn", "omitted"}
      BY <1>2, SessionFacts DEF Kinds
    <2> QED
      BY <1>1, <1>2, <2>1, <2>2, CurrentFail
  <1> QED
    BY <1>3, <1>4

LEMMA CurrentElsewhere ==
    ASSUME TypeOK, CurrentInv, Elsewhere
    PROVE  CurrentInv'
  <1>1. /\ Resolved /\ locks' = [locks EXCEPT ![Now.dir] = NewLock]
        /\ wrote' = [wrote EXCEPT ![Now.dir] = Now]
        /\ UNCHANGED <<world, specs, cache, session, batch, discovery>>
    BY DEF Elsewhere
  <1>2. StateOK /\ session.project \in DOMAIN specs /\ LockSound(world, NewLock, Now)
    BY <1>1, ResolvedFacts, NewLockSound
  <1>3. LocksSound'
    BY <1>1, <1>2, LocksWritten DEF CurrentInv
  <1>4. GraphSound' /\ BatchSound' /\ AnswersSound' /\ ErrorSound'
    BY <1>1 DEF CurrentInv, GraphSound, Active, Now, PhaseSound, BatchSound, AnswersSound, ErrorSound, Ended
  <1> QED
    BY <1>3, <1>4 DEF CurrentInv

\* What a sound lock is for a project that is answered from it or rejects it.
LEMMA ReadFacts ==
    ASSUME TypeOK, CurrentInv, NEW spec \in Projects(world), locks[spec.dir] # NoLock
    PROVE  /\ locks[spec.dir] # Torn
           /\ LockSound(world, locks[spec.dir], wrote[spec.dir])
           /\ LockMatches(locks[spec.dir], spec) => Omitted(locks[spec.dir], spec) = {}
           /\ wrote[spec.dir] = spec => LockMatches(locks[spec.dir], spec)
  <1>1. StateOK
    BY DEF TypeOK
  <1>2. spec.dir \in world.dirs
    BY <1>1, WorldFacts DEF ValidProject
  <1>3. locks[spec.dir] # Torn
    <2>1. locks[spec.dir] \in Locks(world) \cup {NoLock} /\ Torn \notin Locks(world) \cup {NoLock}
      BY <1>1, <1>2, WorldFacts, VariableFacts
    <2> QED
      BY <2>1
  <1>4. LockSound(world, locks[spec.dir], wrote[spec.dir])
    BY <1>2 DEF CurrentInv, LocksSound
  <1>5. LockMatches(locks[spec.dir], spec) => Omitted(locks[spec.dir], spec) = {}
    BY <1>4, MatchedFacts
  <1>6. wrote[spec.dir] = spec => LockMatches(locks[spec.dir], spec)
    BY <1>4 DEF LockSound, LockMatches, DirectMatches
  <1> QED
    BY <1>3, <1>4, <1>5, <1>6

LEMMA CurrentProject ==
    ASSUME TypeOK, CurrentInv, Finish \/ AnswerEmpty \/ AnswerWarm \/ RejectLock
    PROVE  CurrentInv'
  <1>0. StateOK /\ UNCHANGED <<world, specs, cache, locks, batch, budget, wrote, discovery>>
    BY DEF TypeOK, Finish, AnswerEmpty, AnswerWarm, RejectLock
  <1>1. CASE Finish
    <2>1. session'.at = "ended" /\ session'.answers = session.answers /\ session'.error = session.error
      <3>1. session \in Sessions(world)
        BY <1>0, VariableFacts
      <3> QED
        BY <1>1, <3>1 DEF Finish, Sessions
    <2>2. session'.error.kind = "none"
      BY <1>1, <2>1 DEF Finish, CurrentInv, ErrorSound, Ended
    <2> QED
      BY <1>0, <2>1, <2>2, CurrentQuiet DEF Active
  <1>2. LocksSound'
    BY <1>0 DEF CurrentInv, LocksSound
  <1>3. CASE AnswerEmpty
    <2>1. session.project \in DOMAIN specs /\ ~Ended
      BY <1>0, <1>3, AtProjectFacts DEF AnswerEmpty, Ended
    <2>2. ColdAnswer(Now, <<>>) \in Answers(world) /\ Answer(ColdAnswer(Now, <<>>))
      BY <1>0, <1>3, <2>1, ColdAnswerFacts, PartialEmpty DEF AnswerEmpty
    <2>3. DOMAIN ColdAnswer(Now, <<>>).spec.refs = {}
      BY <1>3 DEF AnswerEmpty, ColdAnswer
    <2> QED
      BY <1>0, <1>2, <2>1, <2>2, <2>3, CurrentAnswer
  <1>4. CASE AnswerWarm
    <2>1. session.project \in DOMAIN specs /\ ~Ended
      BY <1>0, <1>4, AtProjectFacts DEF AnswerWarm, Ended
    <2>2. WarmAnswer(Now) \in Answers(world) /\ Answer(WarmAnswer(Now))
      BY <1>0, <1>4, <2>1, WarmAnswerFacts DEF AnswerWarm
    <2> DEFINE lock == locks[Now.dir]
               answer == WarmAnswer(Now)
    <2>3. LockMatches(lock, Now) /\ LockSound(world, lock, wrote[Now.dir])
      <3>1. ReadWarmLock(Now) = "warm" /\ Now \in Projects(world)
        BY <1>0, <1>4, <2>1, NowFacts DEF AnswerWarm
      <3>2. lock # NoLock
        BY <3>1 DEF ReadWarmLock
      <3> QED
        BY <1>0, <2>1, <3>1, <3>2, WarmFacts, ReadFacts
    <2>4. /\ answer.spec = Now /\ answer.target = lock.target
          /\ \A id \in DOMAIN lock.direct : answer.assets[id] = lock.direct[id].assets
          /\ \A id : id \in DOMAIN answer.packages <=> id \in DOMAIN lock.packages
          /\ \A id \in DOMAIN lock.packages : answer.packages[id].version = lock.packages[id].version
      BY DEF WarmAnswer
    <2> HIDE DEF lock, answer
    <2>5. /\ Closed(world, Now, lock.packages) /\ lock.target = Now.target
          /\ \A id \in DOMAIN Now.refs : /\ id \in DOMAIN lock.direct /\ id \in DOMAIN lock.packages
                                         /\ InRange(lock.packages[id].version, Now.refs[id])
                                         /\ lock.direct[id].assets = Now.refs[id].assets
      BY <2>3, MatchedFacts
    <2>6. Closed(world, Now, answer.packages)
      BY <2>4, <2>5, ClosedSame
    <2>7. Answered(world, answer)
      BY <2>4, <2>5, <2>6 DEF Answered
    <2> QED
      BY <1>0, <1>2, <2>1, <2>2, <2>7, CurrentAnswer DEF answer
  <1>5. CASE RejectLock
    <2>1. /\ ReadWarmLock(Now) \in {"torn", "absent", "unsigned", "omitted"}
          /\ Fail(ReadWarmLock(Now), session.project)
          /\ session.project \in DOMAIN specs /\ session.project \in Nat
      BY <1>0, <1>5, ReasonFacts, AtProjectFacts, SessionFacts DEF RejectLock
    <2>2. locks[Now.dir] # NoLock /\ Now \in Projects(world)
      BY <1>0, <2>1, NowFacts DEF ReadWarmLock
    <2>3. ReadWarmLock(Now) \notin {"torn", "omitted"}
      BY <2>2, ReadFacts DEF ReadWarmLock
    <2>4. ReadWarmLock(Now) \in Kinds \ {"torn", "omitted"}
      BY <2>1, <2>3 DEF Kinds
    <2> QED
      BY <1>0, <2>1, <2>4, CurrentFail
  <1> QED
    BY <1>1, <1>3, <1>4, <1>5

\* Commands that start, end or fail, and edits between them.
LEMMA CurrentCommand ==
    ASSUME TypeOK, CurrentInv, Start \/ Cancel \/ Crash \/ Edit \/ DiscoveryFails \/ JoinError
    PROVE  CurrentInv'
  <1>0. StateOK /\ UNCHANGED <<world, locks, wrote>>
    BY DEF TypeOK, Start, Cancel, Crash, Edit, DiscoveryFails, JoinError
  <1>1. CASE Start
    <2>1. session'.at = "project" /\ session'.answers = <<>> /\ session'.error.kind = "none"
      <3>1. PICK online \in world.online, writes \in world.writes :
               session' = [Resting EXCEPT !.at = "project", !.project = 1, !.online = online,
                                          !.writes = writes]
        BY <1>1 DEF Start
      <3>2. Resting.answers = <<>> /\ Resting.error.kind = "none"
        BY DEF Resting, NoError
      <3>3. Resting \in Sessions(world)
        BY RestingFacts
      <3> HIDE DEF Resting
      <3> QED
        BY <3>1, <3>2, <3>3 DEF Sessions
    <2> QED
      BY <1>0, <1>1, <2>1, CurrentQuiet DEF Active, Start
  <1>2. CASE Cancel
    <2>1. Fail("cancelled", session.project) /\ UNCHANGED batch
      BY <1>2 DEF Cancel
    <2>2. session.project \in Nat /\ "cancelled" \in Kinds \ {"torn", "omitted"}
      BY <1>0, SessionFacts DEF Kinds
    <2> QED
      BY <1>0, <2>1, <2>2, CurrentFail
  <1>3. CASE Crash
    <2>1. session'.at = "ended" /\ session'.answers = <<>> /\ session'.error.kind = "crash"
      BY <1>3 DEF Crash, Resting, Error
    <2> QED
      BY <1>0, <1>3, <2>1, CurrentQuiet DEF Active, Crash
  <1>4. CASE Edit
    <2>1. session'.at = "ended" /\ session'.answers = <<>> /\ session'.error.kind = "none"
      BY <1>4 DEF Edit, Resting, NoError
    <2> QED
      BY <1>0, <1>4, <2>1, CurrentQuiet DEF Active, Edit
  <1>5. CASE DiscoveryFails
    <2>1. session \in Sessions(world)
      BY <1>0, VariableFacts
    <2>2. /\ session'.at = "ended" /\ session'.answers = session.answers
          /\ session'.error.kind = "discovery"
      BY <1>5, <2>1 DEF DiscoveryFails, Fail, Error, Sessions
    <2> QED
      BY <1>0, <1>5, <2>2, CurrentQuiet DEF Active, DiscoveryFails
  <1>6. CASE JoinError
    <2>1. PICK id \in DOMAIN session.tasks :
             /\ session.tasks[id].result \in {"unsigned", "unmapped", "missing"}
             /\ Fail(session.tasks[id].result, id)
      BY <1>6 DEF JoinError
    <2>2. id \in Nat /\ session.tasks[id].result \in Kinds \ {"torn", "omitted"}
      BY <1>0, <2>1, TaskFacts, ConstantFacts DEF Kinds
    <2> QED
      BY <1>0, <1>6, <2>1, <2>2, CurrentFail DEF JoinError
  <1> QED
    BY <1>1, <1>2, <1>3, <1>4, <1>5, <1>6

\* A package leaves its folder, or nothing happens.
LEMMA CurrentAside ==
    ASSUME CurrentInv, UNCHANGED <<world, specs, locks, session, batch, wrote, discovery>>
    PROVE  CurrentInv'
  BY DEF CurrentInv, GraphSound, Active, Now, PhaseSound, BatchSound, LocksSound, AnswersSound,
         ErrorSound, Ended

LEMMA CurrentNext ==
    ASSUME TypeOK, CurrentInv, [Next]_vars
    PROVE  CurrentInv'
  <1>1. ASSUME NEW id \in Ids, Load(id)
        PROVE  CurrentInv'
    BY <1>1, CurrentLoad
  <1>2. CASE Clear
    BY <1>2, CurrentAside DEF Clear
  <1>3. CASE UNCHANGED vars
    BY <1>3, CurrentAside DEF vars
  <1>4. CASE Rest
    BY <1>3, <1>4 DEF Rest
  <1>5. CASE Step
    BY <1>1, <1>5, CurrentProject, CurrentBeginGraph, CurrentReuse, CurrentLoadCached, CurrentDiscover,
       CurrentArrive, CurrentDiscovered, CurrentCommand, CurrentJoinRequirements,
       CurrentJoinVersions, CurrentBeginAcquire, CurrentAcquireShared, CurrentAcquire, CurrentWrite,
       CurrentWriteTemporary DEF Step
  <1>6. CASE Environment
    BY <1>2, <1>4, <1>6, CurrentCommand, CurrentRenameFails, CurrentElsewhere DEF Environment
  <1> QED
    BY <1>3, <1>5, <1>6 DEF Next

\* Graph, memory, locks and answers are sound together: the requirements a graph has met
\* are those of the manifests, whether read or remembered; a lock is of the project it was
\* written for; and an answer, resolved or read from a lock, is the closure of what the
\* project asks for (resolve_package_inputs_with_runtime_graph, read_warm_lock, write_lock).
THEOREM CurrentInvariant == Spec => []CurrentInv
  <1>1. TypeOK /\ CurrentInv /\ [Next]_vars => CurrentInv'
    BY CurrentNext
  <1> QED
    BY <1>1, CurrentInit, TypeCorrect, PTL DEF Spec

\* Sound answers are what AnswersCurrent asks for.
LEMMA CurrentAnswers ==
    ASSUME TypeOK, CurrentInv
    PROVE  AnswersCurrent
  <1>1. StateOK
    BY DEF TypeOK
  <1>2. ASSUME NEW k \in DOMAIN session.answers, DOMAIN session.answers[k].spec.refs # {}
        PROVE  /\ session.answers[k].target = session.answers[k].spec.target
               /\ \A id \in DOMAIN session.answers[k].spec.refs :
                     /\ id \in DOMAIN session.answers[k].packages
                     /\ InRange(session.answers[k].packages[id].version,
                                session.answers[k].spec.refs[id])
                     /\ session.answers[k].assets[id] = session.answers[k].spec.refs[id].assets
               /\ Complete(session.answers[k])
    <2> DEFINE answer == session.answers[k]
    <2>1. Answered(world, answer)
      BY <1>2 DEF CurrentInv, AnswersSound
    <2> HIDE DEF answer
    <2>2. \A target, package : Dependencies(target, package) = Requires(world, target, package)
      BY <1>1, RequiresFacts
    <2>3. Complete(answer)
      BY <2>1, <2>2 DEF Complete, Answered, Closed
    <2> QED
      BY <2>1, <2>3 DEF Answered, answer
  <1> QED
    BY <1>2 DEF AnswersCurrent

\* An answer, from a lock, from the memory of the batch or resolved, is one for the
\* project as it is: every reference in its range and with its assets, and the closure
\* of the dependencies for the current target, no more and no less.
THEOREM AnswersAreCurrent == Spec => []AnswersCurrent
  BY TypeCorrect, CurrentInvariant, CurrentAnswers, PTL

\* A lock answers the project it was written for.
LEMMA RoundTrip ==
    ASSUME TypeOK, CurrentInv
    PROVE  WarmRoundTrip
  <1>1. StateOK
    BY DEF TypeOK
  <1>2. ASSUME NEW i \in DOMAIN specs,
               /\ locks[specs[i].dir] \notin {NoLock, Torn}
               /\ wrote[specs[i].dir] = specs[i]
               /\ LockedAbsent(locks[specs[i].dir], specs[i]) = {}
               /\ LockedUnsigned(locks[specs[i].dir], specs[i]) = {}
        PROVE  ReadWarmLock(specs[i]) = "warm"
    <2>1. specs[i] \in Projects(world)
      BY <1>1, VariableFacts
    <2> QED
      BY <1>2, <2>1, ReadFacts DEF ReadWarmLock
  <1> QED
    BY <1>2 DEF WarmRoundTrip

\* The lock a command leaves, however it was interrupted, answers the next command for the
\* same project while its packages stay in the folder and are signed as required.
THEOREM LocksRoundTrip == Spec => []WarmRoundTrip
  BY TypeCorrect, CurrentInvariant, RoundTrip, PTL

(***************************************************************************)
(* Packages stay where they are put                                        *)
(***************************************************************************)

\* What a lock names is in the folder of the project it was written for.
HeldLock(folders, lock, spec) ==
    \A id \in DOMAIN lock.packages :
       folders[spec.config.root][<<id, lock.packages[id].version>>] # Absent

\* So is what is known of a graph, or about to be.
HeldGraph(folder, nodes, tasks) ==
    /\ \A id \in KnownIn(nodes) : folder[<<id, nodes[id].version>>] # Absent
    /\ \A id \in DOMAIN tasks :
          tasks[id].result = "requirements" => folder[<<id, nodes[id].version>>] # Absent

LocksHeld == \A dir \in world.dirs : locks[dir] # NoLock => HeldLock(cache, locks[dir], wrote[dir])

BatchHeld == \A key \in DOMAIN batch : cache[key[1]][key[3]] # Absent

GraphHeld == Active => HeldGraph(Folder(Now), session.nodes, session.tasks)

\* A lock that names what is not in the folder was written for another folder.
ReasonHeld == session.error.kind = "absent" => wrote[Now.dir].config.root # Config.root

AllHeld == LocksHeld /\ BatchHeld /\ GraphHeld /\ ReasonHeld

PresentInv == budget.clears = MaxClears => AllHeld

\* No package leaves a folder.
Grows ==
    \A root \in world.roots, package \in Packages :
       cache[root][package] # Absent => cache'[root][package] # Absent

LEMMA LocksHeldGrow ==
    ASSUME StateOK, LocksSound, LocksHeld, Grows, UNCHANGED <<world, locks, wrote>>
    PROVE  LocksHeld'
  <1>1. ASSUME NEW dir \in world.dirs, locks[dir] # NoLock
        PROVE  HeldLock(cache', locks[dir], wrote[dir])
    <2>1. wrote[dir].config.root \in world.roots
      BY <1>1, WorldFacts DEF LocksSound, ValidProject
    <2>2. \A id \in DOMAIN locks[dir].packages : <<id, locks[dir].packages[id].version>> \in Packages
      <3>1. locks[dir] \in Locks(world)
        BY <1>1, VariableFacts
      <3> QED
        BY <3>1, LockFacts
    <2> QED
      BY <1>1, <2>1, <2>2 DEF LocksHeld, HeldLock, Grows
  <1> QED
    BY <1>1 DEF LocksHeld

LEMMA BatchHeldGrow ==
    ASSUME StateOK, BatchHeld, Grows
    PROVE  \A key \in DOMAIN batch : cache'[key[1]][key[3]] # Absent
  <1>1. ASSUME NEW key \in DOMAIN batch
        PROVE  key[1] \in world.roots /\ key[3] \in Packages
    BY BatchFacts DEF Keys
  <1> QED
    BY <1>1 DEF BatchHeld, Grows

LEMMA GraphHeldGrow ==
    ASSUME StateOK, session.project \in DOMAIN specs, Grows, Now' = Now,
           DOMAIN session.tasks \subseteq DOMAIN session.nodes,
           HeldGraph(Folder(Now), session.nodes, session.tasks)
    PROVE  HeldGraph(Folder(Now)', session.nodes, session.tasks)
  <1>1. \A id \in DOMAIN session.nodes : <<id, session.nodes[id].version>> \in Packages
    BY NodeFacts DEF Package, Version
  <1>2. Config.root \in world.roots
    BY NowFacts
  <1>3. /\ Folder(Now) = cache[Config.root] /\ Folder(Now)' = cache'[Config.root]
    BY DEF Folder, Config
  <1> QED
    BY <1>1, <1>2, <1>3 DEF HeldGraph, Grows, KnownIn

\* A step without a graph keeps what is there.
LEMMA HeldQuiet ==
    ASSUME AllHeld, ~Active', UNCHANGED <<world, cache, locks, wrote>>,
           batch' = batch \/ batch' = <<>>, session'.error.kind # "absent"
    PROVE  AllHeld'
  <1>1. LocksHeld' /\ GraphHeld' /\ ReasonHeld'
    BY DEF AllHeld, LocksHeld, GraphHeld, ReasonHeld
  <1>2. BatchHeld'
    <2>1. DOMAIN <<>> = {}
      OBVIOUS
    <2> QED
      BY <2>1 DEF AllHeld, BatchHeld
  <1> QED
    BY <1>1, <1>2 DEF AllHeld

\* So does a step within a graph.
LEMMA HeldGraphStep ==
    ASSUME StateOK, CurrentInv, AllHeld, ~Ended, Grows, UNCHANGED <<world, locks, wrote>>,
           session'.error = session.error, BatchHeld',
           HeldGraph(Folder(Now)', session'.nodes, session'.tasks)
    PROVE  AllHeld'
  <1>1. LocksHeld'
    BY LocksHeldGrow DEF AllHeld, CurrentInv
  <1>2. GraphHeld' /\ ReasonHeld'
    BY DEF GraphHeld, ReasonHeld, CurrentInv, ErrorSound
  <1> QED
    BY <1>1, <1>2 DEF AllHeld

LEMMA HeldStill ==
    ASSUME StateOK, CurrentInv, AllHeld, Active, UNCHANGED <<world, specs, cache, locks, batch, wrote>>,
           session'.project = session.project, session'.error = session.error,
           HeldGraph(Folder(Now), session'.nodes, session'.tasks)
    PROVE  AllHeld'
  <1>1. Now' = Now /\ Folder(Now)' = Folder(Now)
    BY DEF Now, Folder
  <1>2. Grows /\ BatchHeld' /\ ~Ended
    BY DEF Grows, AllHeld, BatchHeld, Active, Ended
  <1> QED
    BY <1>1, <1>2, HeldGraphStep

LEMMA HeldInit ==
    ASSUME Init
    PROVE  AllHeld
  <1>1. DOMAIN <<>> = {}
    OBVIOUS
  <1>2. session.at = "ended" /\ session.error.kind = "none"
    BY DEF Init, Resting, NoError
  <1> QED
    BY <1>1, <1>2 DEF Init, AllHeld, LocksHeld, BatchHeld, GraphHeld, ReasonHeld, Active

LEMMA HeldBeginGraph ==
    ASSUME TypeOK, CurrentInv, AllHeld, BeginGraph
    PROVE  AllHeld'
  <1> DEFINE nodes == [id \in DOMAIN Now.refs |-> Node(Now.refs[id].low, Now.refs[id].high)]
  <1>1. StateOK /\ session.at = "project" /\ session \in Sessions(world)
    BY VariableFacts DEF TypeOK, BeginGraph, AtProject
  <1>2. /\ session'.project = session.project /\ session'.nodes = nodes
        /\ session'.tasks = <<>> /\ session'.error = session.error
        /\ UNCHANGED <<world, specs, cache, locks, wrote, batch>>
    BY <1>1 DEF BeginGraph, Sessions
  <1>3. HeldGraph(Folder(Now)', nodes, <<>>)
    <2>1. KnownIn(nodes) = {} /\ DOMAIN <<>> = {}
      BY DEF KnownIn, Node
    <2> QED
      BY <2>1 DEF HeldGraph
  <1>4. Grows /\ BatchHeld' /\ ~Ended
    BY <1>1, <1>2 DEF Grows, AllHeld, BatchHeld, Ended
  <1> HIDE DEF nodes
  <1> QED
    BY <1>1, <1>2, <1>3, <1>4, HeldGraphStep

\* A node that becomes known is in the folder.
LEMMA HeldKnown ==
    ASSUME NEW folder, NEW nodes \in Partial(Ids, Nodes), NEW tasks, NEW id \in DOMAIN nodes,
           NEW dependencies \in Partial(Ids, Versions), DOMAIN tasks \subseteq DOMAIN nodes,
           HeldGraph(folder, nodes, tasks), folder[<<id, nodes[id].version>>] # Absent
    PROVE  HeldGraph(folder, Known(nodes, id, dependencies), tasks)
  <1> DEFINE new == Known(nodes, id, dependencies)
  <1>1. /\ \A x : x \in DOMAIN new <=> x \in DOMAIN nodes \/ x \in DOMAIN dependencies
        /\ \A x \in DOMAIN nodes :
              /\ new[x].version = nodes[x].version
              /\ new[x].state = IF x = id THEN "known" ELSE nodes[x].state
        /\ \A x \in DOMAIN dependencies :
              x \notin DOMAIN nodes => new[x] = Node(dependencies[x], MaxVersion)
    BY KnownFacts
  <1> HIDE DEF new
  <1>2. KnownIn(new) \subseteq KnownIn(nodes) \cup {id}
    <2>1. \A x \in DOMAIN dependencies : x \notin DOMAIN nodes => new[x].state = "ready"
      <3>1. \A low, high : Node(low, high).state = "ready"
        BY DEF Node
      <3> QED
        BY <1>1, <3>1
    <2> QED
      BY <1>1, <2>1 DEF KnownIn
  <1>3. HeldGraph(folder, new, tasks)
    BY <1>1, <1>2 DEF HeldGraph, KnownIn
  <1> QED
    BY <1>3 DEF new

LEMMA HeldReuse ==
    ASSUME TypeOK, CurrentInv, AllHeld, Reuse
    PROVE  AllHeld'
  <1>1. PICK id \in DOMAIN session.nodes :
           /\ Dispatches(id) /\ Key(id) \in DOMAIN batch
           /\ session' = [session EXCEPT !.nodes =
                             Known(session.nodes, id, batch[Key(id)].dependencies)]
    BY DEF Reuse
  <1>2. UNCHANGED <<world, specs, cache, locks, batch, budget, wrote, discovery>>
    BY DEF Reuse
  <1>3. StateOK /\ GraphOK /\ session.project \in DOMAIN specs /\ Active
    BY <1>1, DispatchFacts
  <1> DEFINE dependencies == batch[Key(id)].dependencies
             new == Known(session.nodes, id, dependencies)
  <1>4. session' = [session EXCEPT !.nodes = new]
    BY <1>1
  <1>5. dependencies \in Partial(Ids, Versions) /\ session.nodes \in Partial(Ids, Nodes)
    BY <1>1, <1>3, BatchFacts, SessionFacts
  <1>6. Folder(Now)[<<id, session.nodes[id].version>>] # Absent
    <2>1. Key(id)[1] = Config.root /\ Key(id)[3] = <<id, session.nodes[id].version>>
      BY DEF Key, Package, Version
    <2> QED
      BY <1>1, <2>1 DEF AllHeld, BatchHeld, Folder, Config
  <1>7. HeldGraph(Folder(Now), new, session.tasks)
    BY <1>3, <1>5, <1>6, HeldKnown DEF AllHeld, GraphHeld, GraphOK
  <1> HIDE DEF new, dependencies
  <1>8. /\ session'.project = session.project /\ session'.nodes = new
        /\ session'.tasks = session.tasks /\ session'.error = session.error
    <2>1. session \in Sessions(world)
      BY <1>3, VariableFacts
    <2> QED
      BY <1>4, <2>1 DEF Sessions
  <1> QED
    BY <1>2, <1>3, <1>7, <1>8, HeldStill

\* A ready node gets a task, which has found nothing yet.
LEMMA HeldSpawned ==
    ASSUME TypeOK, CurrentInv, AllHeld, Active, NEW id \in DOMAIN session.nodes,
           NEW endpoints \in Seq(Nat), session' = Spawned(id, endpoints),
           UNCHANGED <<world, specs, cache, locks, batch, budget, wrote>>
    PROVE  AllHeld'
  <1>1. StateOK /\ GraphOK /\ session.project \in DOMAIN specs
    BY DEF TypeOK, GraphOK
  <1>2. /\ session'.project = session.project /\ session'.error = session.error
        /\ DOMAIN session'.nodes = DOMAIN session.nodes
        /\ \A x \in DOMAIN session.nodes :
              /\ session'.nodes[x].version = session.nodes[x].version
              /\ session'.nodes[x].state = IF x = id THEN "loading" ELSE session.nodes[x].state
        /\ session'.tasks = With(session.tasks, id, Task(endpoints))
    BY <1>1, SpawnedFacts
  <1>3. /\ \A x : x \in DOMAIN session'.tasks <=> x \in DOMAIN session.tasks \/ x = id
        /\ session'.tasks[id].result = "none"
        /\ \A x \in DOMAIN session.tasks : x # id => session'.tasks[x] = session.tasks[x]
    <2>1. session.tasks \in Partial(Ids, Tasks) /\ Task(endpoints) \in Tasks /\ id \in Ids
          /\ Task(endpoints).result = "none"
      BY <1>1, FreshTask, SessionFacts, NodeFacts
    <2> QED
      BY <1>2, <2>1, WithFacts
  <1>4. HeldGraph(Folder(Now), session.nodes, session.tasks)
    BY DEF AllHeld, GraphHeld
  <1>5. HeldGraph(Folder(Now), session'.nodes, session'.tasks)
    <2>1. DOMAIN session.tasks \subseteq DOMAIN session.nodes
      BY <1>1 DEF GraphOK
    <2>2. \A x \in KnownIn(session'.nodes) : x \in KnownIn(session.nodes)
      BY <1>2 DEF KnownIn
    <2> QED
      BY <1>2, <1>3, <1>4, <2>1, <2>2 DEF HeldGraph, KnownIn
  <1> QED
    BY <1>1, <1>2, <1>5, HeldStill

LEMMA HeldTasks ==
    ASSUME TypeOK, CurrentInv, AllHeld, LoadCached \/ Discovered
    PROVE  AllHeld'
  <1>1. CASE LoadCached
    <2>1. PICK id \in DOMAIN session.nodes :
             Dispatches(id) /\ session' = Spawned(id, discovery.snapshot)
      BY <1>1 DEF LoadCached
    <2>2. StateOK /\ Active
      BY <2>1, DispatchFacts
    <2>3. discovery.snapshot \in Seq(Nat)
      BY <2>2, VariableFacts DEF Discoveries
    <2> QED
      BY <1>1, <2>1, <2>2, <2>3, HeldSpawned DEF LoadCached
  <1>2. CASE Discovered
    <2>1. /\ session.at = "discovery" /\ AllArrived /\ Settle(Config)
          /\ session' = Spawned(discovery.asked, discovery'.snapshot)
          /\ UNCHANGED <<world, specs, cache, locks, batch, budget, wrote>>
      BY <1>2 DEF Discovered
    <2>2. StateOK /\ GraphOK /\ Active
      BY <2>1, ActiveFacts DEF Active
    <2>3. discovery.asked \in DOMAIN session.nodes
      BY <2>1, <2>2 DEF GraphOK
    <2>4. discovery'.snapshot \in Seq(Nat)
      BY <2>1, <2>2, SettleFacts, VariableFacts DEF GraphOK
    <2> QED
      BY <2>1, <2>2, <2>3, <2>4, HeldSpawned
  <1> QED
    BY <1>1, <1>2

\* Steps of a graph that move no node and end no task.
LEMMA HeldMoves ==
    ASSUME TypeOK, CurrentInv, AllHeld,
           Discover \/ Arrive \/ BeginAcquire \/ AcquireShared \/ WriteTemporary
    PROVE  AllHeld'
  <1>1. StateOK /\ Active /\ session \in Sessions(world)
    <2>1. session.at \in {"graph", "discovery", "acquire"}
      BY DEF Discover, Dispatches, Arrive, BeginAcquire, AcquireShared, WriteTemporary, Resolved
    <2> QED
      BY <2>1, ActiveFacts, VariableFacts DEF Active
  <1>2. HeldGraph(Folder(Now), session.nodes, session.tasks)
    BY <1>1 DEF AllHeld, GraphHeld
  <1>3. UNCHANGED <<world, specs, cache, locks, batch, wrote>>
    BY DEF Discover, Arrive, BeginAcquire, AcquireShared, WriteTemporary, LocksWhileWriting
  <1>4. CASE Discover /\ session' # [session EXCEPT !.at = "discovery"]
    <2>1. PICK id \in DOMAIN session.nodes : Fail("unmapped", id)
      BY <1>4 DEF Discover
    <2>2. session'.at = "ended" /\ session'.error.kind = "unmapped"
      BY <1>1, <2>1 DEF Fail, Error, Sessions
    <2> QED
      BY <1>3, <2>2, HeldQuiet DEF Active
  <1>5. ASSUME ~(Discover /\ session' # [session EXCEPT !.at = "discovery"])
        PROVE  /\ session'.project = session.project /\ session'.error = session.error
               /\ session'.nodes = session.nodes /\ session'.tasks = session.tasks
    <2>1. CASE AcquireShared
      BY <2>1, SharedSession
    <2>2. CASE session' \in {session, [session EXCEPT !.at = "discovery"], [session EXCEPT !.at = "rename"],
                             [session EXCEPT !.at = "acquire", !.final = session.got]}
      BY <1>1, <2>2 DEF Sessions
    <2> QED
      BY <1>5, <2>1, <2>2 DEF Arrive, BeginAcquire, WriteTemporary
  <1> QED
    BY <1>1, <1>2, <1>3, <1>4, <1>5, HeldStill

\* A fetched archive is in the folder, and no other leaves it.
LEMMA PublishedHeld ==
    ASSUME StateOK, session.project \in DOMAIN specs, NEW id \in DOMAIN session.nodes,
           NEW task \in Tasks, task.archive = Absent, task.origin = 0,
           cache' = Published(Loaded(task, id), Package(id)), Now' = Now
    PROVE  /\ Grows
           /\ Loaded(task, id).result = "requirements" => Folder(Now)'[Package(id)] # Absent
  <1> DEFINE loaded == Loaded(task, id)
  <1>1. /\ loaded \in Tasks
        /\ loaded.result = "requirements" /\ loaded.archive = Absent => Folder(Now)[Package(id)] # Absent
    BY LoadedFacts
  <1> HIDE DEF loaded
  <1>2. Package(id) \in Packages /\ Config.root \in world.roots
    BY NodeFacts, NowFacts
  <1>3. \A root \in world.roots, p \in Packages :
           cache'[root][p] = IF loaded.archive # Absent /\ root = Config.root /\ p = Package(id)
                             THEN loaded.archive ELSE cache[root][p]
    <2>1. cache' = Published(loaded, Package(id))
      BY DEF loaded
    <2> QED
      BY <1>1, <1>2, <2>1, PublishedFacts
  <1>4. Folder(Now) = cache[Config.root] /\ Folder(Now)' = cache'[Config.root]
    BY DEF Folder, Config
  <1>5. Grows
    BY <1>3 DEF Grows
  <1>6. loaded.result = "requirements" => Folder(Now)'[Package(id)] # Absent
    BY <1>1, <1>2, <1>3, <1>4
  <1> QED
    BY <1>5, <1>6 DEF loaded

LEMMA HeldLoad ==
    ASSUME TypeOK, CurrentInv, AllHeld, NEW id \in Ids, Load(id)
    PROVE  AllHeld'
  <1> DEFINE task == Loaded(session.tasks[id], id)
  <1>1. /\ StateOK /\ GraphOK /\ session.project \in DOMAIN specs
        /\ session.at \in {"graph", "discovery"} /\ id \in DOMAIN session.tasks
        /\ id \in DOMAIN session.nodes /\ session.tasks[id] \in Tasks
        /\ session.tasks[id].archive = Absent /\ session.tasks[id].origin = 0
        /\ session'.project = session.project
        /\ session'.nodes = session.nodes /\ session'.error = session.error
        /\ session'.tasks = [session.tasks EXCEPT ![id] = task]
        /\ cache' = Published(task, Package(id))
        /\ UNCHANGED <<world, specs, locks, batch, budget, wrote, discovery>>
    BY LoadSession
  <1>2. Now' = Now /\ Active /\ ~Ended
    BY <1>1 DEF Now, Active, Ended
  <1>3. Grows /\ (task.result = "requirements" => Folder(Now)'[Package(id)] # Absent)
    BY <1>1, <1>2, PublishedHeld
  <1> HIDE DEF task
  <1>4. HeldGraph(Folder(Now)', session.nodes, session.tasks)
    BY <1>1, <1>2, <1>3, GraphHeldGrow DEF AllHeld, GraphHeld, GraphOK
  <1>5. HeldGraph(Folder(Now)', session'.nodes, session'.tasks)
    <2>1. /\ DOMAIN session'.tasks = DOMAIN session.tasks /\ session'.tasks[id] = task
          /\ \A x \in DOMAIN session.tasks : x # id => session'.tasks[x] = session.tasks[x]
      BY <1>1
    <2>2. Package(id) = <<id, session.nodes[id].version>>
      BY DEF Package, Version
    <2> QED
      BY <1>1, <1>3, <1>4, <2>1, <2>2 DEF HeldGraph
  <1>6. BatchHeld'
    BY <1>1, <1>3, BatchHeldGrow DEF AllHeld, BatchHeld
  <1> QED
    BY <1>1, <1>2, <1>3, <1>5, <1>6, HeldGraphStep

LEMMA HeldJoinRequirements ==
    ASSUME TypeOK, CurrentInv, AllHeld, JoinRequirements
    PROVE  AllHeld'
  <1>1. PICK id \in DOMAIN session.tasks :
           LET task == session.tasks[id]
               dependencies == Dependencies(Now.target, Package(id))
           IN  /\ StateOK /\ GraphOK /\ session.project \in DOMAIN specs
               /\ session.at = "graph" /\ id \in DOMAIN session.nodes
               /\ task \in Tasks /\ task.result = "requirements"
               /\ dependencies \in Partial(Ids, Versions)
               /\ Origin(task) \in Origins(world)
               /\ batch' = Remembered(id, dependencies, task.archive, Origin(task))
               /\ session'.project = session.project
               /\ session'.nodes = Known(session.nodes, id, dependencies)
               /\ session'.tasks = Without(session.tasks, id)
               /\ session'.error = session.error
               /\ UNCHANGED <<world, specs, cache, locks, budget, wrote, discovery>>
    BY JoinSession
  <1> DEFINE dependencies == Dependencies(Now.target, Package(id))
             new == Known(session.nodes, id, dependencies)
             archive == session.tasks[id].archive
             origin == Origin(session.tasks[id])
             memory == Remembered(id, dependencies, archive, origin)
  <1>2. Active /\ ~Ended
    BY <1>1 DEF Active, Ended
  <1>3. /\ HeldGraph(Folder(Now), session.nodes, session.tasks)
        /\ Folder(Now)[<<id, session.nodes[id].version>>] # Absent
    BY <1>1, <1>2 DEF AllHeld, GraphHeld, HeldGraph
  <1>4. session.nodes \in Partial(Ids, Nodes) /\ session.tasks \in Partial(Ids, Tasks)
        /\ dependencies \in Partial(Ids, Versions) /\ DOMAIN session.tasks \subseteq DOMAIN session.nodes
    BY <1>1, SessionFacts DEF GraphOK
  <1>5. /\ archive \in Archives \cup {Absent} /\ origin \in Origins(world) /\ batch' = memory
        /\ session'.nodes = new
    BY <1>1 DEF Tasks
  <1> HIDE DEF dependencies, archive, origin
  <1>6. HeldGraph(Folder(Now), new, session.tasks)
    BY <1>3, <1>4, HeldKnown
  <1>7. \A key : key \in DOMAIN memory <=> key \in DOMAIN batch \/ key = Key(id)
    <2>1. StateOK /\ session.project \in DOMAIN specs /\ id \in DOMAIN session.nodes
      BY <1>1
    <2> QED
      BY <1>4, <1>5, <2>1, RememberedFacts
  <1> HIDE DEF new, memory
  <1>8. HeldGraph(Folder(Now), session'.nodes, session'.tasks)
    <2>1. /\ \A x : x \in DOMAIN session'.tasks <=> x \in DOMAIN session.tasks /\ x # id
          /\ \A x \in DOMAIN session.tasks : x # id => session'.tasks[x] = session.tasks[x]
      BY <1>1, <1>4, WithoutFacts
    <2> QED
      BY <1>5, <1>6, <2>1 DEF HeldGraph
  <1>9. Now' = Now /\ Folder(Now)' = Folder(Now) /\ Grows
    BY <1>1 DEF Now, Folder, Grows
  <1>10. BatchHeld'
    <2>1. Key(id)[1] = Config.root /\ Key(id)[3] = <<id, session.nodes[id].version>>
      BY DEF Key, Package, Version
    <2>2. cache[Key(id)[1]][Key(id)[3]] # Absent
      BY <1>3, <2>1 DEF Folder, Config
    <2> QED
      BY <1>1, <1>5, <1>7, <2>2 DEF AllHeld, BatchHeld
  <1>11. UNCHANGED <<world, locks, wrote>> /\ session'.error = session.error /\ StateOK
    BY <1>1
  <1> QED
    BY <1>2, <1>8, <1>9, <1>10, <1>11, HeldGraphStep

LEMMA HeldJoinVersions ==
    ASSUME TypeOK, CurrentInv, AllHeld, JoinVersions
    PROVE  AllHeld'
  <1>1. /\ StateOK /\ GraphOK /\ session.project \in DOMAIN specs /\ session.at = "graph"
        /\ UNCHANGED <<world, specs, cache, locks, batch, budget, wrote, discovery>>
    BY VersionsSession
  <1>2. PICK id \in DOMAIN session.tasks :
                 \/ Fail("noVersion", id)
                 \/ \E version \in Versions :
                       /\ session'.project = session.project
                       /\ session'.nodes =
                             [session.nodes EXCEPT ![id] = [session.nodes[id] EXCEPT
                                 !.version = version, !.state = "ready"]]
                       /\ session'.tasks = Without(session.tasks, id)
                       /\ session'.error = session.error
    BY VersionsSession
  <1>3. id \in DOMAIN session.nodes /\ session.nodes[id] \in Nodes
    BY <1>1, NodeFacts DEF GraphOK
  <1>4. CASE Fail("noVersion", id)
    <2>1. session'.at = "ended" /\ session'.error.kind = "noVersion"
      <3>1. session \in Sessions(world)
        BY <1>1, VariableFacts
      <3> QED
        BY <1>4, <3>1 DEF Fail, Error, Sessions
    <2> QED
      BY <1>1, <2>1, HeldQuiet DEF Active
  <1>5. ASSUME NEW version \in Versions,
               /\ session'.project = session.project
               /\ session'.nodes =
                     [session.nodes EXCEPT ![id] = [session.nodes[id] EXCEPT
                         !.version = version, !.state = "ready"]]
               /\ session'.tasks = Without(session.tasks, id)
               /\ session'.error = session.error
        PROVE  AllHeld'
    <2>1. HeldGraph(Folder(Now), session.nodes, session.tasks) /\ Active
      BY <1>1 DEF AllHeld, GraphHeld, Active
    <2>2. /\ DOMAIN session'.nodes = DOMAIN session.nodes
          /\ \A x \in DOMAIN session.nodes : x # id => session'.nodes[x] = session.nodes[x]
          /\ session'.nodes[id].state = "ready"
      BY <1>3, <1>5 DEF Nodes
    <2>3. /\ \A x : x \in DOMAIN session'.tasks <=> x \in DOMAIN session.tasks /\ x # id
          /\ \A x \in DOMAIN session.tasks : x # id => session'.tasks[x] = session.tasks[x]
      <3>1. session.tasks \in Partial(Ids, Tasks)
        BY <1>1, SessionFacts
      <3> QED
        BY <1>5, <3>1, WithoutFacts
    <2>4. DOMAIN session.tasks \subseteq DOMAIN session.nodes
      BY <1>1 DEF GraphOK
    <2>5. HeldGraph(Folder(Now), session'.nodes, session'.tasks)
      BY <2>1, <2>2, <2>3, <2>4 DEF HeldGraph, KnownIn
    <2> QED
      BY <1>1, <1>5, <2>1, <2>5, HeldStill
  <1> QED
    BY <1>2, <1>4, <1>5

LEMMA HeldAcquire ==
    ASSUME TypeOK, CurrentInv, AllHeld, Acquire
    PROVE  AllHeld'
  <1>1. /\ StateOK /\ GraphOK /\ session.project \in DOMAIN specs /\ session.at = "acquire"
        /\ UNCHANGED <<world, specs, locks, budget, wrote, discovery>>
    BY AcquireSession
  <1>2. PICK id \in Wanted :
              LET task == Loaded(Task(discovery.snapshot), id)
              IN  /\ id \in DOMAIN session.nodes
                  /\ \/ /\ \E kind \in Kinds \ {"torn", "omitted", "absent", "discovery"} : Fail(kind, id)
                        /\ UNCHANGED <<cache, batch>>
                     \/ /\ cache' = Published(task, Package(id))
                        /\ DOMAIN batch' = DOMAIN batch
                        /\ session'.project = session.project
                        /\ session'.nodes = session.nodes /\ session'.tasks = session.tasks
                        /\ session'.error = session.error
    BY AcquireSession
  <1>3. CASE /\ \E kind \in Kinds \ {"torn", "omitted", "absent", "discovery"} : Fail(kind, id)
             /\ UNCHANGED <<cache, batch>>
    <2>1. PICK kind \in Kinds \ {"torn", "omitted", "absent", "discovery"} : Fail(kind, id)
      BY <1>3
    <2>2. session'.at = "ended" /\ session'.error.kind = kind
      <3>1. session \in Sessions(world)
        BY <1>1, VariableFacts
      <3> QED
        BY <2>1, <3>1 DEF Fail, Error, Sessions
    <2> QED
      BY <1>1, <1>3, <2>1, <2>2, HeldQuiet DEF Active
  <1>4. CASE /\ cache' = Published(Loaded(Task(discovery.snapshot), id), Package(id))
             /\ DOMAIN batch' = DOMAIN batch
             /\ session'.project = session.project
             /\ session'.nodes = session.nodes /\ session'.tasks = session.tasks
             /\ session'.error = session.error
    <2>1. Now' = Now /\ Active /\ ~Ended
      BY <1>1, <1>4 DEF Now, Active, Ended
    <2>2. Grows
      <3>1. discovery.snapshot \in Seq(Nat)
        BY <1>1, VariableFacts DEF Discoveries
      <3>2. /\ Task(discovery.snapshot) \in Tasks /\ Task(discovery.snapshot).archive = Absent
            /\ Task(discovery.snapshot).origin = 0
        BY <3>1, FreshTask
      <3> QED
        BY <1>1, <1>2, <1>4, <2>1, <3>2, PublishedHeld
    <2>3. HeldGraph(Folder(Now)', session'.nodes, session'.tasks)
      BY <1>1, <1>4, <2>1, <2>2, GraphHeldGrow DEF AllHeld, GraphHeld, GraphOK
    <2>4. BatchHeld'
      BY <1>1, <1>4, <2>2, BatchHeldGrow DEF AllHeld, BatchHeld
    <2> QED
      BY <1>1, <1>4, <2>1, <2>2, <2>3, <2>4, HeldGraphStep
  <1> QED
    BY <1>2, <1>3, <1>4

\* The packages of a finished graph are in the folder, and so are those of its lock.
LEMMA NewLockHeld ==
    ASSUME TypeOK, CurrentInv, AllHeld, Resolved \/ session.at \in {"rename", "retry"}
    PROVE  HeldLock(cache, NewLock, Now)
  <1>1. Active
    BY ResolvedFacts DEF Active
  <1>2. HeldGraph(Folder(Now), session.nodes, session.tasks)
    BY <1>1 DEF AllHeld, GraphHeld
  <1>3. /\ \A id : id \in DOMAIN session.final <=> id \in DOMAIN session.nodes
        /\ \A id \in DOMAIN session.nodes :
              /\ session.nodes[id].state = "known"
              /\ session.final[id].version = session.nodes[id].version
    BY FinishedFacts
  <1>4. \A id \in DOMAIN session.final :
           cache[Now.config.root][<<id, session.final[id].version>>] # Absent
    BY <1>2, <1>3 DEF HeldGraph, KnownIn, Folder
  <1>5. /\ \A id : id \in DOMAIN NewLock.packages <=> id \in DOMAIN session.final
        /\ \A id \in DOMAIN session.final : NewLock.packages[id].version = session.final[id].version
    BY DEF NewLock, LockOf
  <1> QED
    BY <1>4, <1>5 DEF HeldLock

\* A lock is written for the current project, or goes.
LEMMA LocksHeldWritten ==
    ASSUME StateOK, session.project \in DOMAIN specs, LocksHeld, UNCHANGED <<world, cache>>,
           \/ /\ locks' = [locks EXCEPT ![Now.dir] = NewLock] \/ (UNCHANGED locks /\ locks[Now.dir] = NewLock)
              /\ wrote' = [wrote EXCEPT ![Now.dir] = Now]
              /\ HeldLock(cache, NewLock, Now)
           \/ locks' = [locks EXCEPT ![Now.dir] = NoLock] /\ UNCHANGED wrote
    PROVE  LocksHeld'
  <1>1. Now.dir \in world.dirs /\ DOMAIN locks = world.dirs /\ DOMAIN wrote = world.dirs
    BY NowFacts, VariableFacts
  <1>2. ASSUME NEW dir \in world.dirs, locks'[dir] # NoLock
        PROVE  HeldLock(cache, locks'[dir], wrote'[dir])
    <2>1. CASE dir # Now.dir
      <3>1. locks'[dir] = locks[dir] /\ wrote'[dir] = wrote[dir]
        BY <1>1, <2>1
      <3> QED
        BY <1>2, <3>1 DEF LocksHeld
    <2>2. CASE dir = Now.dir
      <3>1. locks'[dir] = NewLock /\ wrote'[dir] = Now /\ HeldLock(cache, NewLock, Now)
        BY <1>1, <1>2, <2>2
      <3> QED
        BY <3>1
    <2> QED
      BY <2>1, <2>2
  <1> QED
    BY <1>2 DEF LocksHeld

LEMMA HeldWrite ==
    ASSUME TypeOK, CurrentInv, AllHeld, Planned \/ KeepLock \/ Rename
    PROVE  AllHeld'
  <1>1. Resolved \/ session.at \in {"rename", "retry"}
    BY DEF Planned, KeepLock, Rename
  <1>2. /\ StateOK /\ session.project \in DOMAIN specs /\ session.at \in {"acquire", "rename", "retry"}
        /\ ColdAnswer(Now, session.final) \in Answers(world)
    BY <1>1, ResolvedFacts
  <1>3. Answer(ColdAnswer(Now, session.final)) /\ UNCHANGED <<world, cache, batch>>
    BY DEF Planned, KeepLock, Rename
  <1>4. HeldLock(cache, NewLock, Now)
    BY <1>1, NewLockHeld
  <1>5. session'.at = "project" /\ session'.error.kind = "none"
    <2>1. session'.at = "project" /\ session'.error = session.error
      BY <1>2, <1>3, AnswerFacts
    <2> QED
      BY <1>2, <2>1 DEF CurrentInv, ErrorSound, Ended
  <1>6. CASE Planned
    BY <1>3, <1>5, <1>6, HeldQuiet DEF Planned, Active
  <1>7. CASE KeepLock \/ Rename
    <2>1. /\ locks' = [locks EXCEPT ![Now.dir] = NewLock] \/ (UNCHANGED locks /\ locks[Now.dir] = NewLock)
          /\ wrote' = [wrote EXCEPT ![Now.dir] = Now]
      BY <1>7 DEF KeepLock, Rename
    <2>2. LocksHeld'
      BY <1>2, <1>3, <1>4, <2>1, LocksHeldWritten DEF AllHeld
    <2> QED
      BY <1>3, <1>5, <2>2 DEF AllHeld, BatchHeld, GraphHeld, ReasonHeld, Active
  <1> QED
    BY <1>6, <1>7

LEMMA HeldRenameFails ==
    ASSUME TypeOK, CurrentInv, AllHeld, RenameFails
    PROVE  AllHeld'
  <1>1. session.at \in {"rename", "retry"} /\ UNCHANGED <<world, specs, cache, batch, wrote, discovery>>
    BY DEF RenameFails
  <1>2. StateOK /\ session.project \in DOMAIN specs /\ Active /\ session \in Sessions(world)
    BY <1>1, ActiveFacts, VariableFacts DEF Active
  <1>3. CASE session.at = "rename" /\ locks[Now.dir] # NoLock
    <2>1. session' = [session EXCEPT !.at = "retry"] /\ locks' = [locks EXCEPT ![Now.dir] = NoLock]
      BY <1>3 DEF RenameFails
    <2>2. /\ session'.at = "retry" /\ session'.project = session.project
          /\ session'.nodes = session.nodes /\ session'.tasks = session.tasks
          /\ session'.error = session.error
      BY <1>2, <2>1 DEF Sessions
    <2>3. LocksHeld'
      BY <1>1, <1>2, <2>1, LocksHeldWritten DEF AllHeld
    <2>4. GraphHeld' /\ BatchHeld' /\ ReasonHeld'
      BY <1>1, <1>2, <2>2 DEF AllHeld, GraphHeld, BatchHeld, ReasonHeld, Now, Config, Folder
    <2> QED
      BY <2>3, <2>4 DEF AllHeld
  <1>4. CASE ~(session.at = "rename" /\ locks[Now.dir] # NoLock)
    <2>1. Fail("io", session.project) /\ UNCHANGED locks
      BY <1>4 DEF RenameFails
    <2>2. session'.at = "ended" /\ session'.error.kind = "io"
      BY <1>2, <2>1 DEF Fail, Error, Sessions
    <2> QED
      BY <1>1, <2>1, <2>2, HeldQuiet DEF Active
  <1> QED
    BY <1>3, <1>4

LEMMA HeldElsewhere ==
    ASSUME TypeOK, CurrentInv, AllHeld, Elsewhere
    PROVE  AllHeld'
  <1>1. /\ Resolved /\ locks' = [locks EXCEPT ![Now.dir] = NewLock]
        /\ wrote' = [wrote EXCEPT ![Now.dir] = Now]
        /\ UNCHANGED <<world, specs, cache, session, batch, discovery>>
    BY DEF Elsewhere
  <1>2. StateOK /\ session.project \in DOMAIN specs /\ HeldLock(cache, NewLock, Now)
    BY <1>1, ResolvedFacts, NewLockHeld
  <1>3. LocksHeld'
    BY <1>1, <1>2, LocksHeldWritten DEF AllHeld
  <1>4. session.error.kind = "none"
    BY <1>1 DEF Resolved, CurrentInv, ErrorSound, Ended
  <1>5. GraphHeld' /\ BatchHeld' /\ ReasonHeld'
    BY <1>1, <1>4 DEF AllHeld, GraphHeld, BatchHeld, ReasonHeld, Active, Now, Folder
  <1> QED
    BY <1>3, <1>5 DEF AllHeld

LEMMA HeldProject ==
    ASSUME TypeOK, CurrentInv, AllHeld, Finish \/ AnswerEmpty \/ AnswerWarm \/ RejectLock
    PROVE  AllHeld'
  <1>0. StateOK /\ session \in Sessions(world)
        /\ UNCHANGED <<world, specs, cache, locks, batch, budget, wrote, discovery>>
    BY VariableFacts DEF TypeOK, Finish, AnswerEmpty, AnswerWarm, RejectLock
  <1>1. session.error.kind = "none"
    BY DEF Finish, AnswerEmpty, AnswerWarm, RejectLock, AtProject, CurrentInv, ErrorSound, Ended
  <1>2. CASE ~RejectLock
    <2>1. session'.at \in {"ended", "project"} /\ session'.error = session.error
      BY <1>0, <1>2 DEF Finish, AnswerEmpty, AnswerWarm, Answer, Sessions
    <2> QED
      BY <1>0, <1>1, <2>1, HeldQuiet DEF Active
  <1>3. CASE RejectLock
    <2>1. /\ Fail(ReadWarmLock(Now), session.project) /\ ReadWarmLock(Now) # "cold"
          /\ session.project \in DOMAIN specs
      BY <1>0, <1>3, AtProjectFacts DEF RejectLock
    <2>2. /\ session'.at = "ended" /\ session'.project = session.project
          /\ session'.error.kind = ReadWarmLock(Now)
      BY <1>0, <2>1 DEF Fail, Error, Sessions
    <2>3. CASE ReadWarmLock(Now) # "absent"
      BY <1>0, <2>2, <2>3, HeldQuiet DEF Active
    <2>4. CASE ReadWarmLock(Now) = "absent"
      <3>1. /\ locks[Now.dir] # NoLock
            /\ \E id \in DOMAIN locks[Now.dir].packages :
                  cache[Config.root][<<id, locks[Now.dir].packages[id].version>>] = Absent
        BY <2>4 DEF ReadWarmLock, LockedAbsent, Folder, Config
      <3>2. Now.dir \in world.dirs
        BY <1>0, <2>1, NowFacts
      <3>3. wrote[Now.dir].config.root # Config.root
        BY <3>1, <3>2 DEF AllHeld, LocksHeld, HeldLock
      <3>4. LocksHeld' /\ BatchHeld' /\ GraphHeld'
        BY <1>0, <2>2 DEF AllHeld, LocksHeld, BatchHeld, GraphHeld, Active
      <3>5. ReasonHeld'
        BY <1>0, <2>2, <3>3 DEF ReasonHeld, Now, Config
      <3> QED
        BY <3>4, <3>5 DEF AllHeld
    <2> QED
      BY <2>3, <2>4
  <1> QED
    BY <1>2, <1>3

LEMMA HeldCommand ==
    ASSUME TypeOK, CurrentInv, AllHeld, Start \/ Cancel \/ Crash \/ Edit \/ DiscoveryFails \/ JoinError
    PROVE  AllHeld'
  <1>0. StateOK /\ session \in Sessions(world) /\ UNCHANGED <<world, cache, locks, wrote>>
    BY VariableFacts DEF TypeOK, Start, Cancel, Crash, Edit, DiscoveryFails, JoinError
  <1>1. batch' = batch \/ batch' = <<>>
    BY DEF Start, Cancel, Crash, Edit, DiscoveryFails, JoinError
  <1>2. session'.at \in {"ended", "project"} /\ session'.error.kind # "absent"
    <2>1. CASE Start
      <3>1. PICK online \in world.online, writes \in world.writes :
               session' = [Resting EXCEPT !.at = "project", !.project = 1, !.online = online,
                                          !.writes = writes]
        BY <2>1 DEF Start
      <3>2. Resting.error.kind = "none" /\ Resting \in Sessions(world)
        BY RestingFacts DEF Resting, NoError
      <3> HIDE DEF Resting
      <3> QED
        BY <3>1, <3>2 DEF Sessions
    <2>2. CASE Crash \/ Edit
      BY <2>2 DEF Crash, Edit, Resting, Error, NoError
    <2>3. CASE Cancel
      BY <1>0, <2>3 DEF Cancel, Fail, Error, Sessions
    <2>4. CASE DiscoveryFails
      BY <1>0, <2>4 DEF DiscoveryFails, Fail, Error, Sessions
    <2>5. CASE JoinError
      <3>1. PICK id \in DOMAIN session.tasks :
               /\ session.tasks[id].result \in {"unsigned", "unmapped", "missing"}
               /\ Fail(session.tasks[id].result, id)
        BY <2>5 DEF JoinError
      <3>2. session'.at = "ended" /\ session'.error.kind = session.tasks[id].result
        BY <1>0, <3>1 DEF Fail, Error, Sessions
      <3> QED
        BY <3>1, <3>2
    <2> QED
      BY <2>1, <2>2, <2>3, <2>4, <2>5
  <1> QED
    BY <1>0, <1>1, <1>2, HeldQuiet DEF Active

LEMMA PresentNext ==
    ASSUME TypeOK, CurrentInv, PresentInv, [Next]_vars
    PROVE  PresentInv'
  <1>0. StateOK /\ budget.clears \in 0..MaxClears /\ MaxClears \in Nat
    BY BudgetFacts, BoundsAssumption DEF TypeOK
  <1>1. CASE Clear
    <2>1. budget'.clears = budget.clears - 1
      BY <1>0, <1>1, ClearFacts
    <2> QED
      BY <1>0, <2>1 DEF PresentInv
  <1>2. CASE UNCHANGED vars
    BY <1>2 DEF vars, PresentInv, AllHeld, LocksHeld, BatchHeld, GraphHeld, ReasonHeld, Active, Now,
                Config, Folder
  <1>3. ASSUME Next, ~Clear, ~(UNCHANGED vars), budget'.clears = MaxClears
        PROVE  AllHeld'
    <2>1. budget.clears = MaxClears
      <3>1. budget' = budget \/ budget' = [budget EXCEPT !.commands = @ - 1]
            \/ budget' = [budget EXCEPT !.edits = @ - 1] \/ budget' = [budget EXCEPT !.faults = @ - 1]
        BY <1>3 DEF Next, Step, Environment, Finish, AnswerEmpty, AnswerWarm, RejectLock, BeginGraph,
           Reuse, LoadCached, Discover, Arrive, Discovered, DiscoveryFails, Load, JoinRequirements,
           JoinVersions, JoinError, BeginAcquire, AcquireShared, Acquire, Planned, KeepLock,
           WriteTemporary, Rename, Start, RenameFails, Cancel, Crash, Edit, Elsewhere, Rest
      <3>2. budget \in Budgets
        BY <1>0, VariableFacts
      <3> QED
        BY <1>3, <3>1, <3>2 DEF Budgets
    <2>2. AllHeld
      BY <2>1 DEF PresentInv
    <2>3. ASSUME NEW id \in Ids, Load(id)
          PROVE  AllHeld'
      BY <2>2, <2>3, HeldLoad
    <2> QED
      BY <1>3, <2>2, <2>3, HeldProject, HeldBeginGraph, HeldReuse, HeldTasks, HeldMoves, HeldCommand,
         HeldJoinRequirements, HeldJoinVersions, HeldAcquire, HeldWrite, HeldRenameFails,
         HeldElsewhere DEF Next, Step, Environment, Rest
  <1> QED
    BY <1>1, <1>2, <1>3 DEF PresentInv

\* While no package has left a folder, what locks, memory and graphs name is there.
THEOREM PresentInvariant == Spec => []PresentInv
  <1>1. Init => PresentInv
    BY HeldInit DEF PresentInv
  <1>2. TypeOK /\ CurrentInv /\ PresentInv /\ [Next]_vars => PresentInv'
    BY PresentNext
  <1> QED
    BY <1>1, <1>2, TypeCorrect, CurrentInvariant, PTL DEF Spec

LEMMA ForCause ==
    ASSUME TypeOK, CurrentInv, PresentInv
    PROVE  LockFailsForCause
  <1>1. budget.clears \in 0..MaxClears /\ MaxClears \in Nat
    BY BudgetFacts, BoundsAssumption DEF TypeOK
  <1> QED
    BY <1>1 DEF LockFailsForCause, CurrentInv, ErrorSound, PresentInv, AllHeld, ReasonHeld

\* A lock fails a command only for what happened outside of it: no crash, failed rename or
\* edit of the references makes one that cannot be read or contradicts itself, and one that
\* names a package that is not there was written for another folder, or the package left.
THEOREM LocksFailForCause == Spec => []LockFailsForCause
  BY TypeCorrect, CurrentInvariant, PresentInvariant, ForCause, PTL

(***************************************************************************)
(* Required signatures                                                     *)
(***************************************************************************)

\* The projects of a batch that share a package folder have one policy.
OnePolicy ==
    \A i, j \in DOMAIN specs :
       specs[i].config.root = specs[j].config.root => specs[i].config.mode = specs[j].config.mode

\* The folders of the projects that require signatures.
Strict == {specs[i].config.root : i \in {j \in DOMAIN specs : specs[j].config.mode = "require"}}

\* A signed archive, of a package that is signed in its folder too, or has left it.
Vetted(folder, package, archive) == archive = "signed" /\ folder[package] \in {"signed", Absent}

VettedTasks(folder, nodes, tasks) ==
    \A id \in DOMAIN tasks :
       tasks[id].archive # Absent => Vetted(folder, <<id, nodes[id].version>>, tasks[id].archive)

VettedPicks(folder, picks) ==
    \A id \in DOMAIN picks : Vetted(folder, <<id, picks[id].version>>, picks[id].archive)

\* The archives the batch remembers were verified by a project with the same folder.
VettedBatch(folders, strict, memory) ==
    \A key \in DOMAIN memory :
       key[1] \in strict /\ memory[key].archive # Absent
          => Vetted(folders[key[1]], key[3], memory[key].archive)

VettedGraph(folder, nodes, tasks, got, final) ==
    VettedTasks(folder, nodes, tasks) /\ VettedPicks(folder, got) /\ VettedPicks(folder, final)

BatchSigned == ~Ended => VettedBatch(cache, Strict, batch)

GraphSigned ==
    Active /\ Config.mode = "require" =>
       VettedGraph(Folder(Now), session.nodes, session.tasks, session.got, session.final)

PolicyInv == BatchSigned /\ GraphSigned /\ PolicyHolds

\* Nothing unsigned takes the place of a signed package, or of none, where signatures are
\* required.
StaysSigned ==
    \A root \in Strict, package \in Packages :
       cache[root][package] \in {"signed", Absent} => cache'[root][package] \in {"signed", Absent}

LEMMA StrictFacts ==
    ASSUME StateOK, session.project \in DOMAIN specs
    PROVE  /\ Config.mode = "require" => Config.root \in Strict
           /\ OnePolicy /\ Config.root \in Strict => Config.mode = "require"
  <1>1. Config = specs[session.project].config
    BY DEF Config, Now
  <1>2. ASSUME OnePolicy, Config.root \in Strict
        PROVE  Config.mode = "require"
    <2>1. PICK i \in DOMAIN specs : specs[i].config.mode = "require" /\ specs[i].config.root = Config.root
      BY <1>2 DEF Strict
    <2> QED
      BY <1>1, <1>2, <2>1 DEF OnePolicy
  <1>3. ASSUME Config.mode = "require"
        PROVE  Config.root \in Strict
    BY <1>1, <1>3 DEF Strict
  <1> QED
    BY <1>2, <1>3

LEMMA BatchVettedKept ==
    ASSUME StateOK, VettedBatch(cache, Strict, batch), StaysSigned
    PROVE  VettedBatch(cache', Strict, batch)
  <1>1. ASSUME NEW key \in DOMAIN batch, key[1] \in Strict
        PROVE  cache[key[1]][key[3]] \in {"signed", Absent} => cache'[key[1]][key[3]] \in {"signed", Absent}
    <2>1. key[3] \in Packages
      BY BatchFacts DEF Keys
    <2> QED
      BY <1>1, <2>1 DEF StaysSigned
  <1> QED
    BY <1>1 DEF VettedBatch, Vetted

LEMMA PicksVettedKept ==
    ASSUME StateOK, session.project \in DOMAIN specs, Config.mode = "require", StaysSigned,
           NEW picks \in Partial(Ids, Picks(world)), VettedPicks(cache[Config.root], picks)
    PROVE  VettedPicks(cache'[Config.root], picks)
  <1>1. Config.root \in Strict /\ \A id \in DOMAIN picks : <<id, picks[id].version>> \in Packages
    BY StrictFacts, PickFacts
  <1> QED
    BY <1>1 DEF VettedPicks, Vetted, StaysSigned

LEMMA TasksVettedKept ==
    ASSUME StateOK, session.project \in DOMAIN specs, Config.mode = "require", StaysSigned,
           DOMAIN session.tasks \subseteq DOMAIN session.nodes,
           VettedTasks(cache[Config.root], session.nodes, session.tasks)
    PROVE  VettedTasks(cache'[Config.root], session.nodes, session.tasks)
  <1>1. Config.root \in Strict
    BY StrictFacts
  <1>2. \A id \in DOMAIN session.tasks : <<id, session.nodes[id].version>> \in Packages
    BY NodeFacts DEF Package, Version
  <1> QED
    BY <1>1, <1>2 DEF VettedTasks, Vetted, StaysSigned

\* What is known of a graph stays vetted.
LEMMA GraphVettedKept ==
    ASSUME StateOK, GraphOK, StaysSigned, Now' = Now, GraphSigned, Active, Config.mode = "require"
    PROVE  VettedGraph(Folder(Now)', session.nodes, session.tasks, session.got, session.final)
  <1>1. Folder(Now) = cache[Config.root] /\ Folder(Now)' = cache'[Config.root]
    BY DEF Folder, Config
  <1>2. /\ session.project \in DOMAIN specs /\ DOMAIN session.tasks \subseteq DOMAIN session.nodes
        /\ session.got \in Partial(Ids, Picks(world)) /\ session.final \in Partial(Ids, Picks(world))
    BY SessionFacts DEF GraphOK
  <1> QED
    BY <1>1, <1>2, PicksVettedKept, TasksVettedKept DEF GraphSigned, VettedGraph

\* The answers that were given are not given again.
LEMMA PolicyKept ==
    ASSUME PolicyHolds, session'.answers = session.answers \/ session'.answers = <<>>
    PROVE  PolicyHolds'
  <1>1. DOMAIN <<>> = {}
    OBVIOUS
  <1> QED
    BY <1>1 DEF PolicyHolds

LEMMA PolicyQuiet ==
    ASSUME PolicyInv, ~Active',
           session'.answers = session.answers \/ session'.answers = <<>>,
           \/ session'.at = "ended" \/ batch' = <<>>
           \/ ~Ended /\ UNCHANGED <<specs, cache, batch>>
    PROVE  PolicyInv'
  <1>1. BatchSigned'
    <2>1. CASE session'.at = "ended"
      BY <2>1 DEF BatchSigned, Ended
    <2>2. CASE batch' = <<>>
      <3>1. DOMAIN <<>> = {}
        OBVIOUS
      <3> QED
        BY <2>2, <3>1 DEF BatchSigned, VettedBatch
    <2>3. CASE ~Ended /\ UNCHANGED <<specs, cache, batch>>
      BY <2>3 DEF PolicyInv, BatchSigned, Strict
    <2> QED
      BY <2>1, <2>2, <2>3
  <1>2. GraphSigned' /\ PolicyHolds'
    BY PolicyKept DEF PolicyInv, GraphSigned
  <1> QED
    BY <1>1, <1>2 DEF PolicyInv

LEMMA PolicyGraphStep ==
    ASSUME PolicyInv, UNCHANGED specs, session'.project = session.project,
           session'.answers = session.answers, VettedBatch(cache', Strict, batch'),
           Config.mode = "require" =>
              VettedGraph(Folder(Now)', session'.nodes, session'.tasks, session'.got, session'.final)
    PROVE  PolicyInv'
  <1>1. Now' = Now /\ Config' = Config /\ Strict' = Strict
    BY DEF Now, Config, Strict
  <1>2. BatchSigned'
    BY <1>1 DEF BatchSigned
  <1>3. GraphSigned' /\ PolicyHolds'
    BY <1>1, PolicyKept DEF PolicyInv, GraphSigned
  <1> QED
    BY <1>2, <1>3 DEF PolicyInv

LEMMA PolicyStill ==
    ASSUME PolicyInv, Active, UNCHANGED <<specs, cache, batch>>, session'.project = session.project,
           session'.answers = session.answers,
           Config.mode = "require" =>
              VettedGraph(Folder(Now), session'.nodes, session'.tasks, session'.got, session'.final)
    PROVE  PolicyInv'
  <1>1. Folder(Now)' = Folder(Now) /\ Now' = Now /\ Config' = Config
    BY DEF Folder, Now, Config
  <1>2. VettedBatch(cache', Strict, batch')
    BY DEF PolicyInv, BatchSigned, Ended, Active
  <1> QED
    BY <1>1, <1>2, PolicyGraphStep

\* An answer is given by a command that keeps the batch.
LEMMA PolicyAnswered ==
    ASSUME StateOK, PolicyInv, ~Ended, session.project \in DOMAIN specs, UNCHANGED <<specs, cache, batch>>,
           NEW answer \in Answers(world), Answer(answer),
           answer.spec.config.mode = "require" =>
              \A id \in DOMAIN answer.packages :
                 \/ answer.packages[id].folder = "signed"
                 \/ answer.packages[id].folder = Absent /\ answer.packages[id].archive = "signed"
    PROVE  PolicyInv'
  <1>1. /\ session'.at = "project" /\ session'.answers = Append(session.answers, answer)
        /\ session.answers \in Seq(Answers(world))
    BY AnswerFacts, SessionFacts
  <1>2. BatchSigned' /\ GraphSigned'
    BY <1>1 DEF PolicyInv, BatchSigned, GraphSigned, Active, Strict
  <1>3. \A k \in DOMAIN session'.answers :
           \/ k \in DOMAIN session.answers /\ session'.answers[k] = session.answers[k]
           \/ session'.answers[k] = answer
    BY <1>1
  <1>4. PolicyHolds'
    BY <1>3 DEF PolicyInv, PolicyHolds
  <1> QED
    BY <1>2, <1>4 DEF PolicyInv


LEMMA PolicyInit ==
    ASSUME Init
    PROVE  PolicyInv
  <1>1. DOMAIN <<>> = {}
    OBVIOUS
  <1>2. session.at = "ended" /\ session.answers = <<>>
    BY DEF Init, Resting
  <1> QED
    BY <1>1, <1>2 DEF PolicyInv, BatchSigned, GraphSigned, PolicyHolds, Active, Ended

\* A lock answers a project that requires signatures from signed packages only.
LEMMA PolicyWarm ==
    ASSUME StateOK, session.project \in DOMAIN specs, ReadWarmLock(Now) = "warm"
    PROVE  LET answer == WarmAnswer(Now)
           IN  answer.spec.config.mode = "require" =>
                  \A id \in DOMAIN answer.packages : answer.packages[id].folder = "signed"
  <1> DEFINE lock == locks[Now.dir]
             answer == WarmAnswer(Now)
  <1>1. /\ lock \in Locks(world) /\ LockedAbsent(lock, Now) = {} /\ LockedUnsigned(lock, Now) = {}
    BY WarmFacts
  <1>2. /\ answer.spec = Now
        /\ \A id : id \in DOMAIN answer.packages <=> id \in DOMAIN lock.packages
        /\ \A id \in DOMAIN lock.packages :
              answer.packages[id].folder = Folder(Now)[<<id, lock.packages[id].version>>]
    BY DEF WarmAnswer
  <1> HIDE DEF lock, answer
  <1>3. ASSUME Now.config.mode = "require", NEW id \in DOMAIN lock.packages
        PROVE  Folder(Now)[<<id, lock.packages[id].version>>] = "signed"
    <2>1. Folder(Now)[<<id, lock.packages[id].version>>] \in Archives \cup {Absent}
      BY <1>1, LockFacts, NowFacts
    <2>2. Folder(Now)[<<id, lock.packages[id].version>>] \notin {Absent, "plain"}
      BY <1>1, <1>3 DEF LockedAbsent, LockedUnsigned
    <2> QED
      BY <2>1, <2>2 DEF Archives
  <1> QED
    BY <1>2, <1>3 DEF answer

LEMMA PolicyProject ==
    ASSUME TypeOK, PolicyInv, Finish \/ AnswerEmpty \/ AnswerWarm \/ RejectLock
    PROVE  PolicyInv'
  <1>0. /\ StateOK /\ session \in Sessions(world) /\ ~Ended
        /\ UNCHANGED <<world, specs, cache, locks, batch, budget, wrote, discovery>>
    BY VariableFacts DEF TypeOK, Finish, AnswerEmpty, AnswerWarm, RejectLock, AtProject, Ended
  <1>1. CASE Finish
    <2>1. session'.at = "ended" /\ session'.answers = session.answers
      BY <1>0, <1>1 DEF Finish, Sessions
    <2> QED
      BY <2>1, PolicyQuiet DEF Active
  <1>2. CASE RejectLock
    <2>1. Fail(ReadWarmLock(Now), session.project)
      BY <1>2 DEF RejectLock
    <2>2. session'.at = "ended" /\ session'.answers = session.answers
      BY <1>0, <2>1 DEF Fail, Sessions
    <2> QED
      BY <2>2, PolicyQuiet DEF Active
  <1>3. CASE AnswerEmpty
    <2>1. session.project \in DOMAIN specs /\ Answer(ColdAnswer(Now, <<>>))
      BY <1>0, <1>3, AtProjectFacts DEF AnswerEmpty
    <2>2. ColdAnswer(Now, <<>>) \in Answers(world)
      BY <1>0, <2>1, PartialEmpty, ColdAnswerFacts
    <2>3. DOMAIN ColdAnswer(Now, <<>>).packages = {}
      <3>1. DOMAIN <<>> = {}
        OBVIOUS
      <3> QED
        BY <3>1 DEF ColdAnswer
    <2> HIDE DEF ColdAnswer
    <2> QED
      BY <1>0, <2>1, <2>2, <2>3, PolicyAnswered
  <1>4. CASE AnswerWarm
    <2>1. /\ session.project \in DOMAIN specs /\ Answer(WarmAnswer(Now))
          /\ ReadWarmLock(Now) = "warm"
      BY <1>0, <1>4, AtProjectFacts DEF AnswerWarm
    <2>2. WarmAnswer(Now) \in Answers(world)
      BY <1>0, <2>1, WarmAnswerFacts
    <2>3. WarmAnswer(Now).spec.config.mode = "require" =>
             \A id \in DOMAIN WarmAnswer(Now).packages : WarmAnswer(Now).packages[id].folder = "signed"
      BY <1>0, <2>1, PolicyWarm
    <2> QED
      BY <1>0, <2>1, <2>2, <2>3, PolicyAnswered
  <1> QED
    BY <1>1, <1>2, <1>3, <1>4

LEMMA PolicyBeginGraph ==
    ASSUME TypeOK, PolicyInv, BeginGraph
    PROVE  PolicyInv'
  <1>1. StateOK /\ session.at = "project" /\ session \in Sessions(world)
    BY VariableFacts DEF TypeOK, BeginGraph, AtProject
  <1>2. /\ session'.project = session.project /\ session'.tasks = <<>>
        /\ session'.got = <<>> /\ session'.final = <<>> /\ session'.answers = session.answers
        /\ UNCHANGED <<world, specs, cache, locks, wrote, batch>>
    BY <1>1 DEF BeginGraph, Sessions
  <1>3. VettedGraph(Folder(Now)', session'.nodes, <<>>, <<>>, <<>>)
    <2>1. DOMAIN <<>> = {}
      OBVIOUS
    <2> QED
      BY <2>1 DEF VettedGraph, VettedTasks, VettedPicks
  <1>4. VettedBatch(cache', Strict, batch')
    BY <1>1, <1>2 DEF PolicyInv, BatchSigned, Ended
  <1> QED
    BY <1>2, <1>3, <1>4, PolicyGraphStep

\* Tasks that start have no archive, and steps that move nodes keep the versions of the others.
LEMMA PolicySpawned ==
    ASSUME TypeOK, PolicyInv, Active, NEW id \in DOMAIN session.nodes,
           NEW endpoints \in Seq(Nat), session' = Spawned(id, endpoints),
           UNCHANGED <<world, specs, cache, locks, batch, budget, wrote>>
    PROVE  PolicyInv'
  <1>1. StateOK /\ GraphOK /\ session.project \in DOMAIN specs
    BY DEF TypeOK, GraphOK
  <1>2. /\ session'.project = session.project /\ session'.answers = session.answers
        /\ session'.got = session.got /\ session'.final = session.final
        /\ \A x \in DOMAIN session.nodes : session'.nodes[x].version = session.nodes[x].version
        /\ session'.tasks = With(session.tasks, id, Task(endpoints))
    BY <1>1, SpawnedFacts
  <1>3. /\ \A x : x \in DOMAIN session'.tasks <=> x \in DOMAIN session.tasks \/ x = id
        /\ session'.tasks[id].archive = Absent
        /\ \A x \in DOMAIN session.tasks : x # id => session'.tasks[x] = session.tasks[x]
    <2>1. session.tasks \in Partial(Ids, Tasks) /\ Task(endpoints) \in Tasks /\ id \in Ids
          /\ Task(endpoints).archive = Absent
      BY <1>1, FreshTask, SessionFacts, NodeFacts
    <2> QED
      BY <1>2, <2>1, WithFacts
  <1>4. ASSUME Config.mode = "require"
        PROVE  VettedGraph(Folder(Now), session'.nodes, session'.tasks, session'.got, session'.final)
    <2>1. VettedGraph(Folder(Now), session.nodes, session.tasks, session.got, session.final)
      BY <1>4 DEF PolicyInv, GraphSigned
    <2>2. DOMAIN session.tasks \subseteq DOMAIN session.nodes
      BY <1>1 DEF GraphOK
    <2> QED
      BY <1>2, <1>3, <2>1, <2>2 DEF VettedGraph, VettedTasks
  <1> QED
    BY <1>2, <1>4, PolicyStill

LEMMA PolicyTasks ==
    ASSUME TypeOK, CurrentInv, PolicyInv, LoadCached \/ Discovered
    PROVE  PolicyInv'
  <1>1. CASE LoadCached
    <2>1. PICK id \in DOMAIN session.nodes :
             Dispatches(id) /\ session' = Spawned(id, discovery.snapshot)
      BY <1>1 DEF LoadCached
    <2>2. StateOK /\ Active
      BY <2>1, DispatchFacts
    <2>3. discovery.snapshot \in Seq(Nat)
      BY <2>2, VariableFacts DEF Discoveries
    <2> QED
      BY <1>1, <2>1, <2>2, <2>3, PolicySpawned DEF LoadCached
  <1>2. CASE Discovered
    <2>1. /\ session.at = "discovery" /\ AllArrived /\ Settle(Config)
          /\ session' = Spawned(discovery.asked, discovery'.snapshot)
          /\ UNCHANGED <<world, specs, cache, locks, batch, budget, wrote>>
      BY <1>2 DEF Discovered
    <2>2. StateOK /\ GraphOK /\ Active
      BY <2>1, ActiveFacts DEF Active
    <2>3. discovery.asked \in DOMAIN session.nodes
      BY <2>1, <2>2 DEF GraphOK
    <2>4. discovery'.snapshot \in Seq(Nat)
      BY <2>1, <2>2, SettleFacts, VariableFacts DEF GraphOK
    <2> QED
      BY <2>1, <2>2, <2>3, <2>4, PolicySpawned
  <1> QED
    BY <1>1, <1>2

\* A node that becomes known keeps its version, and so do the others.
LEMMA VettedKnown ==
    ASSUME NEW folder, NEW nodes \in Partial(Ids, Nodes), NEW tasks, NEW id \in DOMAIN nodes,
           NEW dependencies \in Partial(Ids, Versions), DOMAIN tasks \subseteq DOMAIN nodes,
           VettedTasks(folder, nodes, tasks)
    PROVE  VettedTasks(folder, Known(nodes, id, dependencies), tasks)
  <1> DEFINE new == Known(nodes, id, dependencies)
  <1>1. \A x \in DOMAIN nodes : new[x].version = nodes[x].version
    BY KnownFacts
  <1> HIDE DEF new
  <1>2. VettedTasks(folder, new, tasks)
    BY <1>1 DEF VettedTasks
  <1> QED
    BY <1>2 DEF new

LEMMA PolicyReuse ==
    ASSUME TypeOK, CurrentInv, PolicyInv, Reuse
    PROVE  PolicyInv'
  <1>1. PICK id \in DOMAIN session.nodes :
           /\ Dispatches(id) /\ Key(id) \in DOMAIN batch
           /\ session' = [session EXCEPT !.nodes =
                             Known(session.nodes, id, batch[Key(id)].dependencies)]
    BY DEF Reuse
  <1>2. UNCHANGED <<world, specs, cache, locks, batch, budget, wrote, discovery>>
    BY DEF Reuse
  <1>3. StateOK /\ GraphOK /\ session.project \in DOMAIN specs /\ Active
    BY <1>1, DispatchFacts
  <1> DEFINE dependencies == batch[Key(id)].dependencies
             new == Known(session.nodes, id, dependencies)
  <1>4. session' = [session EXCEPT !.nodes = new]
    BY <1>1
  <1>5. dependencies \in Partial(Ids, Versions) /\ session.nodes \in Partial(Ids, Nodes)
    BY <1>1, <1>3, BatchFacts, SessionFacts
  <1>6. ASSUME Config.mode = "require"
        PROVE  VettedGraph(Folder(Now), new, session.tasks, session.got, session.final)
    BY <1>3, <1>5, <1>6, VettedKnown DEF PolicyInv, GraphSigned, GraphOK, VettedGraph
  <1> HIDE DEF new, dependencies
  <1>7. /\ session'.project = session.project /\ session'.nodes = new
        /\ session'.tasks = session.tasks /\ session'.answers = session.answers
        /\ session'.got = session.got /\ session'.final = session.final
    <2>1. session \in Sessions(world)
      BY <1>3, VariableFacts
    <2> QED
      BY <1>4, <2>1 DEF Sessions
  <1> QED
    BY <1>2, <1>3, <1>6, <1>7, PolicyStill


\* Steps of a graph that move no node, no task and no archive; at the end of the graph the
\* archives that were fetched for it are its first ones.
LEMMA PolicyMoves ==
    ASSUME TypeOK, PolicyInv, Discover \/ Arrive \/ BeginAcquire \/ WriteTemporary \/ RenameFails
    PROVE  PolicyInv'
  <1>1. StateOK /\ Active /\ session \in Sessions(world)
    <2>1. session.at \in {"graph", "discovery", "acquire", "rename", "retry"}
      BY DEF Discover, Dispatches, Arrive, BeginAcquire, WriteTemporary, Resolved, RenameFails
    <2> QED
      BY <2>1, ActiveFacts, VariableFacts DEF Active
  <1>2. UNCHANGED <<specs, cache, batch>>
    BY DEF Discover, Arrive, BeginAcquire, WriteTemporary, RenameFails
  <1>3. CASE \E kind, what : Fail(kind, what)
    <2>1. session'.at = "ended" /\ session'.answers = session.answers
      BY <1>1, <1>3 DEF Fail, Sessions
    <2> QED
      BY <2>1, PolicyQuiet DEF Active
  <1>4. CASE session' \in {session, [session EXCEPT !.at = "discovery"], [session EXCEPT !.at = "rename"],
                           [session EXCEPT !.at = "retry"],
                           [session EXCEPT !.at = "acquire", !.final = session.got]}
    <2>1. /\ session'.project = session.project /\ session'.answers = session.answers
          /\ session'.nodes = session.nodes /\ session'.tasks = session.tasks
          /\ session'.got = session.got /\ session'.final \in {session.final, session.got}
      BY <1>1, <1>4 DEF Sessions
    <2>2. ASSUME Config.mode = "require"
          PROVE  VettedGraph(Folder(Now), session'.nodes, session'.tasks, session'.got, session'.final)
      BY <1>1, <2>1, <2>2 DEF PolicyInv, GraphSigned, VettedGraph
    <2> QED
      BY <1>1, <1>2, <2>1, <2>2, PolicyStill
  <1>5. \/ \E kind, what : Fail(kind, what)
        \/ session' \in {session, [session EXCEPT !.at = "discovery"], [session EXCEPT !.at = "rename"],
                         [session EXCEPT !.at = "retry"],
                         [session EXCEPT !.at = "acquire", !.final = session.got]}
    <2>1. CASE Discover
      <3>1. PICK id \in DOMAIN session.nodes :
               Fail("unmapped", id) \/ session' = [session EXCEPT !.at = "discovery"]
        BY <2>1 DEF Discover
      <3> QED
        BY <3>1
    <2>2. CASE RenameFails
      <3>1. Fail("io", session.project) \/ session' = [session EXCEPT !.at = "retry"]
        BY <2>2 DEF RenameFails
      <3> QED
        BY <3>1
    <2> QED
      BY <2>1, <2>2 DEF Arrive, BeginAcquire, WriteTemporary
  <1> QED
    BY <1>3, <1>4, <1>5

\* What a project that requires signatures fetches, or finds in its folder, is signed; and
\* it alone publishes to the folder.
LEMMA PublishedSigned ==
    ASSUME StateOK, OnePolicy, session.project \in DOMAIN specs, NEW id \in DOMAIN session.nodes,
           NEW task \in Tasks, task.archive = Absent, task.origin = 0,
           cache' = Published(Loaded(task, id), Package(id))
    PROVE  LET loaded == Loaded(task, id)
               cached == cache[Config.root][Package(id)]
           IN  /\ StaysSigned
               /\ Config.mode = "require" /\ loaded.archive # Absent
                     => Vetted(cache'[Config.root], Package(id), loaded.archive)
               /\ Config.mode = "require" /\ loaded.result = "requirements" /\ loaded.archive = Absent
                     => Vetted(cache'[Config.root], Package(id), cached)
  <1> DEFINE loaded == Loaded(task, id)
             cached == Folder(Now)[Package(id)]
  <1>1. /\ loaded \in Tasks
        /\ loaded.archive # Absent => ~Refused(loaded.archive, FALSE)
        /\ loaded.result = "requirements" /\ loaded.archive = Absent =>
              cached # Absent /\ ~Refused(cached, TRUE)
    BY LoadedFacts
  <1>2. cached \in Archives \cup {Absent} /\ Package(id) \in Packages /\ Config.root \in world.roots
    BY NodeFacts, NowFacts
  <1>3. cached = cache[Config.root][Package(id)]
    BY DEF Folder, Config
  <1>4. loaded.archive \in Archives \cup {Absent}
    BY <1>1 DEF Tasks
  <1>5. cache' = Published(loaded, Package(id))
    OBVIOUS
  <1> HIDE DEF loaded, cached
  <1>6. \A root \in world.roots, p \in Packages :
           cache'[root][p] = IF loaded.archive # Absent /\ root = Config.root /\ p = Package(id)
                             THEN loaded.archive ELSE cache[root][p]
    BY <1>1, <1>2, <1>5, PublishedFacts
  <1>7. Config.mode = "require" =>
           /\ loaded.archive \in {"signed", Absent}
           /\ loaded.result = "requirements" /\ loaded.archive = Absent => cached = "signed"
    BY <1>1, <1>2, <1>4 DEF Refused, Archives
  <1>8. StaysSigned
    <2>1. ASSUME NEW root \in Strict, NEW p \in Packages, cache[root][p] \in {"signed", Absent}
          PROVE  cache'[root][p] \in {"signed", Absent}
      <3>1. root \in world.roots
        <4>1. PICK i \in DOMAIN specs : root = specs[i].config.root
          BY DEF Strict
        <4>2. specs[i] \in Projects(world)
          BY VariableFacts
        <4> QED
          BY <4>1, <4>2, WorldFacts DEF ValidProject
      <3>2. root = Config.root => Config.mode = "require"
        BY StrictFacts
      <3> QED
        BY <1>6, <1>7, <2>1, <3>1, <3>2
    <2> QED
      BY <2>1 DEF StaysSigned
  <1>9. ASSUME Config.mode = "require", loaded.archive # Absent
        PROVE  Vetted(cache'[Config.root], Package(id), loaded.archive)
    BY <1>2, <1>6, <1>7, <1>9 DEF Vetted
  <1>10. ASSUME Config.mode = "require", loaded.result = "requirements", loaded.archive = Absent
         PROVE  Vetted(cache'[Config.root], Package(id), cached)
    BY <1>2, <1>3, <1>6, <1>7, <1>10 DEF Vetted
  <1> QED
    BY <1>3, <1>8, <1>9, <1>10 DEF loaded

LEMMA PolicyLoad ==
    ASSUME TypeOK, OnePolicy, PolicyInv, NEW id \in Ids, Load(id)
    PROVE  PolicyInv'
  <1> DEFINE task == Loaded(session.tasks[id], id)
  <1>1. /\ StateOK /\ GraphOK /\ session.project \in DOMAIN specs
        /\ session.at \in {"graph", "discovery"} /\ id \in DOMAIN session.tasks
        /\ id \in DOMAIN session.nodes /\ session.tasks[id] \in Tasks
        /\ session.tasks[id].archive = Absent /\ session.tasks[id].origin = 0
        /\ session'.project = session.project /\ session'.answers = session.answers
        /\ session'.nodes = session.nodes /\ session'.got = session.got
        /\ session'.final = session.final
        /\ session'.tasks = [session.tasks EXCEPT ![id] = task]
        /\ cache' = Published(task, Package(id))
        /\ UNCHANGED <<world, specs, locks, batch, budget, wrote, discovery>>
    BY LoadSession
  <1>2. Now' = Now /\ Active /\ ~Ended
    BY <1>1 DEF Now, Active, Ended
  <1>3. /\ StaysSigned
        /\ Config.mode = "require" /\ task.archive # Absent
              => Vetted(cache'[Config.root], Package(id), task.archive)
    BY <1>1, PublishedSigned
  <1> HIDE DEF task
  <1>4. VettedBatch(cache', Strict, batch')
    <2>1. VettedBatch(cache, Strict, batch)
      BY <1>2 DEF PolicyInv, BatchSigned
    <2> QED
      BY <1>1, <1>3, <2>1, BatchVettedKept
  <1>5. ASSUME Config.mode = "require"
        PROVE  VettedGraph(Folder(Now)', session'.nodes, session'.tasks, session'.got, session'.final)
    <2>1. VettedGraph(Folder(Now)', session.nodes, session.tasks, session.got, session.final)
      BY <1>1, <1>2, <1>3, <1>5, GraphVettedKept DEF PolicyInv
    <2>2. /\ DOMAIN session'.tasks = DOMAIN session.tasks /\ session'.tasks[id] = task
          /\ \A x \in DOMAIN session.tasks : x # id => session'.tasks[x] = session.tasks[x]
      BY <1>1
    <2>3. Package(id) = <<id, session.nodes[id].version>> /\ Folder(Now)' = cache'[Config.root]
      BY <1>2 DEF Package, Version, Folder, Config
    <2> QED
      BY <1>1, <1>3, <1>5, <2>1, <2>2, <2>3 DEF VettedGraph, VettedTasks
  <1> QED
    BY <1>1, <1>4, <1>5, PolicyGraphStep


\* One more archive, of the current package.
LEMMA VettedWith ==
    ASSUME StateOK, session.project \in DOMAIN specs, NEW folder,
           NEW picks \in Partial(Ids, Picks(world)), VettedPicks(folder, picks),
           NEW id \in DOMAIN session.nodes, NEW archive \in Archives, NEW origin \in Origins(world),
           Vetted(folder, Package(id), archive)
    PROVE  VettedPicks(folder, With(picks, id, Pick(id, archive, origin)))
  <1> DEFINE pick == Pick(id, archive, origin)
  <1>1. pick \in Picks(world) /\ pick.version = Version(id) /\ pick.archive = archive
    BY NodeFacts DEF Pick, Picks
  <1> HIDE DEF pick
  <1>2. id \in Ids
    BY NodeFacts
  <1>3. /\ \A y : y \in DOMAIN With(picks, id, pick) <=> y \in DOMAIN picks \/ y = id
        /\ With(picks, id, pick)[id] = pick
        /\ \A y \in DOMAIN picks : y # id => With(picks, id, pick)[y] = picks[y]
    BY <1>1, <1>2, WithFacts
  <1>4. Vetted(folder, <<id, pick.version>>, pick.archive)
    BY <1>1 DEF Package
  <1>5. VettedPicks(folder, With(picks, id, pick))
    BY <1>3, <1>4 DEF VettedPicks
  <1> QED
    BY <1>5 DEF pick

LEMMA PolicyJoinRequirements ==
    ASSUME TypeOK, OnePolicy, PolicyInv, JoinRequirements
    PROVE  PolicyInv'
  <1>1. PICK id \in DOMAIN session.tasks :
           LET task == session.tasks[id]
               dependencies == Dependencies(Now.target, Package(id))
           IN  /\ StateOK /\ GraphOK /\ session.project \in DOMAIN specs
               /\ session.at = "graph" /\ id \in DOMAIN session.nodes
               /\ task \in Tasks
               /\ dependencies \in Partial(Ids, Versions)
               /\ Origin(task) \in Origins(world)
               /\ batch' = Remembered(id, dependencies, task.archive, Origin(task))
               /\ session'.project = session.project /\ session'.answers = session.answers
               /\ session'.nodes = Known(session.nodes, id, dependencies)
               /\ session'.tasks = Without(session.tasks, id)
               /\ session'.got =
                     IF task.archive = Absent THEN session.got
                     ELSE With(session.got, id, Pick(id, task.archive, Origin(task)))
               /\ session'.final = session.final
               /\ UNCHANGED <<world, specs, cache, locks, budget, wrote, discovery>>
    BY JoinSession
  <1> DEFINE dependencies == Dependencies(Now.target, Package(id))
             new == Known(session.nodes, id, dependencies)
             archive == session.tasks[id].archive
             origin == Origin(session.tasks[id])
             memory == Remembered(id, dependencies, archive, origin)
             got == IF archive = Absent THEN session.got
                    ELSE With(session.got, id, Pick(id, archive, origin))
  <1>2. /\ StateOK /\ GraphOK /\ session.project \in DOMAIN specs /\ id \in DOMAIN session.nodes
        /\ Active /\ ~Ended /\ Now' = Now /\ Folder(Now)' = Folder(Now)
        /\ UNCHANGED <<world, specs, cache>>
        /\ session'.project = session.project /\ session'.answers = session.answers
        /\ session'.nodes = new /\ session'.tasks = Without(session.tasks, id)
        /\ session'.got = got /\ session'.final = session.final /\ batch' = memory
    BY <1>1 DEF Active, Ended, Now, Folder
  <1>3. /\ archive \in Archives \cup {Absent} /\ origin \in Origins(world)
        /\ dependencies \in Partial(Ids, Versions)
    BY <1>1 DEF Tasks
  <1>4. session.nodes \in Partial(Ids, Nodes) /\ session.tasks \in Partial(Ids, Tasks)
        /\ session.got \in Partial(Ids, Picks(world)) /\ DOMAIN session.tasks \subseteq DOMAIN session.nodes
    BY <1>2, SessionFacts DEF GraphOK
  <1>5. Config.mode = "require" =>
           VettedGraph(Folder(Now), session.nodes, session.tasks, session.got, session.final)
    BY <1>2 DEF PolicyInv, GraphSigned
  <1>6. Config.mode = "require" /\ archive # Absent => Vetted(Folder(Now), Package(id), archive)
    BY <1>5 DEF VettedGraph, VettedTasks, Package, Version
  <1> HIDE DEF dependencies, archive, origin
  <1>7. /\ \A key : key \in DOMAIN memory <=> key \in DOMAIN batch \/ key = Key(id)
        /\ \A key \in DOMAIN batch : key # Key(id) => memory[key] = batch[key]
        /\ \/ memory[Key(id)].archive = archive
           \/ Key(id) \in DOMAIN batch /\ memory[Key(id)] = batch[Key(id)]
    BY <1>2, <1>3, RememberedFacts
  <1>8. ASSUME Config.mode = "require"
        PROVE  VettedTasks(Folder(Now), new, session.tasks) /\ VettedPicks(Folder(Now), got)
    <2>1. VettedTasks(Folder(Now), new, session.tasks)
      BY <1>2, <1>3, <1>4, <1>5, <1>8, VettedKnown DEF VettedGraph
    <2>2. CASE archive = Absent
      BY <1>5, <1>8, <2>1, <2>2 DEF VettedGraph
    <2>3. CASE archive # Absent
      <3>1. archive \in Archives /\ Vetted(Folder(Now), Package(id), archive)
        BY <1>3, <1>6, <1>8, <2>3
      <3>2. VettedPicks(Folder(Now), session.got)
        BY <1>5, <1>8 DEF VettedGraph
      <3>3. VettedPicks(Folder(Now), With(session.got, id, Pick(id, archive, origin)))
        BY <1>2, <1>3, <1>4, <3>1, <3>2, VettedWith
      <3> QED
        BY <2>1, <2>3, <3>3
    <2> QED
      BY <2>2, <2>3
  <1> HIDE DEF new, memory, got
  <1>9. ASSUME Config.mode = "require"
        PROVE  VettedGraph(Folder(Now)', session'.nodes, session'.tasks, session'.got, session'.final)
    <2>1. /\ \A x : x \in DOMAIN session'.tasks <=> x \in DOMAIN session.tasks /\ x # id
          /\ \A x \in DOMAIN session.tasks : x # id => session'.tasks[x] = session.tasks[x]
      BY <1>2, <1>4, WithoutFacts
    <2>2. VettedTasks(Folder(Now), new, session'.tasks)
      BY <1>8, <1>9, <2>1 DEF VettedTasks
    <2> QED
      BY <1>2, <1>5, <1>8, <1>9, <2>2 DEF VettedGraph
  <1>10. VettedBatch(cache', Strict, batch')
    <2>1. VettedBatch(cache, Strict, batch)
      BY <1>2 DEF PolicyInv, BatchSigned
    <2>2. Key(id)[1] = Config.root /\ Key(id)[3] = Package(id)
      BY DEF Key
    <2>3. Config.root \in Strict /\ archive # Absent => Vetted(cache[Config.root], Package(id), archive)
      BY <1>2, <1>6, StrictFacts DEF Folder, Config
    <2>4. ASSUME NEW key \in DOMAIN memory, key[1] \in Strict, memory[key].archive # Absent
          PROVE  Vetted(cache[key[1]], key[3], memory[key].archive)
      <3>1. CASE key \in DOMAIN batch /\ memory[key] = batch[key]
        BY <2>1, <2>4, <3>1 DEF VettedBatch
      <3>2. CASE key = Key(id) /\ memory[key].archive = archive
        BY <2>2, <2>3, <2>4, <3>2
      <3> QED
        BY <1>7, <2>4, <3>1, <3>2
    <2> QED
      BY <1>2, <2>4 DEF VettedBatch
  <1> QED
    BY <1>2, <1>9, <1>10, PolicyGraphStep

LEMMA PolicyJoinVersions ==
    ASSUME TypeOK, PolicyInv, JoinVersions
    PROVE  PolicyInv'
  <1>1. /\ StateOK /\ GraphOK /\ session.project \in DOMAIN specs /\ session.at = "graph"
        /\ UNCHANGED <<world, specs, cache, locks, batch, budget, wrote, discovery>>
    BY VersionsSession
  <1>2. PICK id \in DOMAIN session.tasks :
                 \/ Fail("noVersion", id)
                 \/ \E version \in Versions :
                       /\ session'.project = session.project
                       /\ session'.nodes =
                             [session.nodes EXCEPT ![id] = [session.nodes[id] EXCEPT
                                 !.version = version, !.state = "ready"]]
                       /\ session'.tasks = Without(session.tasks, id)
                       /\ session'.got = session.got /\ session'.final = session.final
                       /\ session'.answers = session.answers
    BY VersionsSession
  <1>3. id \in DOMAIN session.nodes
    BY <1>1 DEF GraphOK
  <1>4. CASE Fail("noVersion", id)
    <2>1. session'.at = "ended" /\ session'.answers = session.answers
      <3>1. session \in Sessions(world)
        BY <1>1, VariableFacts
      <3> QED
        BY <1>4, <3>1 DEF Fail, Sessions
    <2> QED
      BY <2>1, PolicyQuiet DEF Active
  <1>5. ASSUME NEW version \in Versions,
               /\ session'.project = session.project
               /\ session'.nodes =
                     [session.nodes EXCEPT ![id] = [session.nodes[id] EXCEPT
                         !.version = version, !.state = "ready"]]
               /\ session'.tasks = Without(session.tasks, id)
               /\ session'.got = session.got /\ session'.final = session.final
               /\ session'.answers = session.answers
        PROVE  PolicyInv'
    <2>1. Active
      BY <1>1 DEF Active
    <2>2. \A x \in DOMAIN session.nodes : x # id => session'.nodes[x] = session.nodes[x]
      BY <1>3, <1>5
    <2>3. /\ \A x : x \in DOMAIN session'.tasks <=> x \in DOMAIN session.tasks /\ x # id
          /\ \A x \in DOMAIN session.tasks : x # id => session'.tasks[x] = session.tasks[x]
      <3>1. session.tasks \in Partial(Ids, Tasks)
        BY <1>1, SessionFacts
      <3> QED
        BY <1>5, <3>1, WithoutFacts
    <2>4. ASSUME Config.mode = "require"
          PROVE  VettedGraph(Folder(Now), session'.nodes, session'.tasks, session'.got, session'.final)
      <3>1. VettedGraph(Folder(Now), session.nodes, session.tasks, session.got, session.final)
        BY <2>1, <2>4 DEF PolicyInv, GraphSigned
      <3>2. DOMAIN session.tasks \subseteq DOMAIN session.nodes
        BY <1>1 DEF GraphOK
      <3> QED
        BY <1>5, <2>2, <2>3, <3>1, <3>2 DEF VettedGraph, VettedTasks
    <2> QED
      BY <1>1, <1>5, <2>1, <2>4, PolicyStill
  <1> QED
    BY <1>2, <1>4, <1>5

LEMMA PolicyAcquireShared ==
    ASSUME TypeOK, OnePolicy, PolicyInv, AcquireShared
    PROVE  PolicyInv'
  <1>1. PICK id \in Wanted :
           /\ StateOK /\ GraphOK /\ session.project \in DOMAIN specs
           /\ session.at = "acquire" /\ id \in DOMAIN session.nodes
           /\ Key(id) \in DOMAIN batch /\ batch[Key(id)].archive \in Archives
           /\ session'.project = session.project /\ session'.answers = session.answers
           /\ session'.nodes = session.nodes /\ session'.tasks = session.tasks
           /\ session'.got = session.got
           /\ session'.final =
                 With(session.final, id, Pick(id, batch[Key(id)].archive, batch[Key(id)].origin))
           /\ UNCHANGED <<world, specs, cache, locks, batch, budget, wrote, discovery>>
    BY SharedSession
  <1>2. Active /\ ~Ended
    BY <1>1 DEF Active, Ended
  <1> DEFINE archive == batch[Key(id)].archive
             origin == batch[Key(id)].origin
  <1>3. archive \in Archives /\ origin \in Origins(world)
    BY <1>1, BatchFacts
  <1>4. ASSUME Config.mode = "require"
        PROVE  VettedGraph(Folder(Now), session'.nodes, session'.tasks, session'.got, session'.final)
    <2>1. VettedGraph(Folder(Now), session.nodes, session.tasks, session.got, session.final)
      BY <1>2, <1>4 DEF PolicyInv, GraphSigned
    <2>2. Vetted(Folder(Now), Package(id), archive)
      <3>1. Key(id)[1] = Config.root /\ Key(id)[3] = Package(id)
        BY DEF Key
      <3>2. Config.root \in Strict
        BY <1>1, <1>4, StrictFacts
      <3>3. VettedBatch(cache, Strict, batch) /\ archive # Absent
        BY <1>2, <1>3, ConstantFacts DEF PolicyInv, BatchSigned
      <3>4. Folder(Now) = cache[Config.root]
        BY DEF Folder, Config
      <3> QED
        BY <1>1, <3>1, <3>2, <3>3, <3>4 DEF VettedBatch
    <2>3. session.final \in Partial(Ids, Picks(world)) /\ VettedPicks(Folder(Now), session.final)
      BY <1>1, <2>1, SessionFacts DEF VettedGraph
    <2> HIDE DEF archive, origin
    <2>4. VettedPicks(Folder(Now), With(session.final, id, Pick(id, archive, origin)))
      BY <1>1, <1>3, <2>2, <2>3, VettedWith
    <2> QED
      BY <1>1, <2>1, <2>4 DEF VettedGraph, archive, origin
  <1> QED
    BY <1>1, <1>2, <1>4, PolicyStill

LEMMA PolicyAcquire ==
    ASSUME TypeOK, OnePolicy, PolicyInv, Acquire
    PROVE  PolicyInv'
  <1>1. /\ StateOK /\ GraphOK /\ session.project \in DOMAIN specs /\ session.at = "acquire"
        /\ UNCHANGED <<world, specs, locks, budget, wrote, discovery>>
    BY AcquireSession
  <1>2. PICK id \in Wanted :
              LET task == Loaded(Task(discovery.snapshot), id)
                  archive == IF task.archive = Absent THEN Folder(Now)[Package(id)]
                             ELSE task.archive
              IN  /\ id \in DOMAIN session.nodes /\ task \in Tasks
                  /\ \/ /\ \E kind \in Kinds \ {"torn", "omitted", "absent", "discovery"} : Fail(kind, id)
                        /\ UNCHANGED <<cache, batch>>
                     \/ /\ task.result = "requirements" /\ archive \in Archives
                        /\ cache' = Published(task, Package(id))
                        /\ DOMAIN batch' = DOMAIN batch
                        /\ \A key \in DOMAIN batch : key # Key(id) => batch'[key] = batch[key]
                        /\ Key(id) \in DOMAIN batch => batch'[Key(id)].archive = archive
                        /\ session'.project = session.project
                        /\ session'.nodes = session.nodes /\ session'.tasks = session.tasks
                        /\ session'.got = session.got
                        /\ session'.final =
                              With(session.final, id, Pick(id, archive, Origin(task)))
                        /\ session'.answers = session.answers
    BY AcquireSession
  <1> DEFINE task == Loaded(Task(discovery.snapshot), id)
             archive == IF task.archive = Absent THEN Folder(Now)[Package(id)] ELSE task.archive
             origin == Origin(task)
  <1>3. CASE /\ \E kind \in Kinds \ {"torn", "omitted", "absent", "discovery"} : Fail(kind, id)
             /\ UNCHANGED <<cache, batch>>
    <2>1. session'.at = "ended" /\ session'.answers = session.answers
      <3>1. session \in Sessions(world)
        BY <1>1, VariableFacts
      <3> QED
        BY <1>3, <3>1 DEF Fail, Sessions
    <2> QED
      BY <2>1, PolicyQuiet DEF Active
  <1>4. CASE /\ task.result = "requirements" /\ archive \in Archives
             /\ cache' = Published(task, Package(id))
             /\ DOMAIN batch' = DOMAIN batch
             /\ \A key \in DOMAIN batch : key # Key(id) => batch'[key] = batch[key]
             /\ Key(id) \in DOMAIN batch => batch'[Key(id)].archive = archive
             /\ session'.project = session.project
             /\ session'.nodes = session.nodes /\ session'.tasks = session.tasks
             /\ session'.got = session.got
             /\ session'.final = With(session.final, id, Pick(id, archive, origin))
             /\ session'.answers = session.answers
    <2>1. Now' = Now /\ Active /\ ~Ended /\ Folder(Now)' = cache'[Config.root]
      BY <1>1, <1>4 DEF Now, Active, Ended, Folder, Config
    <2>2. discovery.snapshot \in Seq(Nat)
      BY <1>1, VariableFacts DEF Discoveries
    <2>3. /\ Task(discovery.snapshot) \in Tasks /\ Task(discovery.snapshot).archive = Absent
          /\ Task(discovery.snapshot).origin = 0
      BY <2>2, FreshTask
    <2>4. id \in DOMAIN session.nodes /\ task \in Tasks
      BY <1>2
    <2>5. /\ StaysSigned
          /\ Config.mode = "require" => Vetted(cache'[Config.root], Package(id), archive)
      <3>1. cache' = Published(Loaded(Task(discovery.snapshot), id), Package(id))
        BY <1>4
      <3>2. /\ StaysSigned
            /\ Config.mode = "require" /\ task.archive # Absent
                  => Vetted(cache'[Config.root], Package(id), task.archive)
            /\ Config.mode = "require" /\ task.result = "requirements" /\ task.archive = Absent
                  => Vetted(cache'[Config.root], Package(id), cache[Config.root][Package(id)])
        BY <1>1, <2>3, <2>4, <3>1, PublishedSigned
      <3>3. Folder(Now) = cache[Config.root]
        BY DEF Folder, Config
      <3> HIDE DEF task
      <3> QED
        BY <1>4, <3>2, <3>3
    <2>6. origin \in Origins(world)
      BY <1>2, <1>1, <2>3, <2>4, LoadedFacts, SelectedFacts, OriginFacts
    <2> HIDE DEF task, archive, origin
    <2>7. ASSUME Config.mode = "require"
          PROVE  VettedGraph(Folder(Now)', session'.nodes, session'.tasks, session'.got, session'.final)
      <3>1. VettedGraph(Folder(Now)', session.nodes, session.tasks, session.got, session.final)
        BY <1>1, <2>1, <2>5, <2>7, GraphVettedKept DEF PolicyInv
      <3>2. VettedPicks(Folder(Now)', With(session.final, id, Pick(id, archive, origin)))
        <4>1. session.final \in Partial(Ids, Picks(world)) /\ VettedPicks(Folder(Now)', session.final)
          BY <1>1, <3>1, SessionFacts DEF VettedGraph
        <4> QED
          BY <1>1, <1>4, <2>1, <2>4, <2>5, <2>6, <2>7, <4>1, VettedWith
      <3> QED
        BY <1>4, <3>1, <3>2 DEF VettedGraph
    <2>8. VettedBatch(cache', Strict, batch')
      <3>1. VettedBatch(cache', Strict, batch)
        BY <1>1, <2>1, <2>5, BatchVettedKept DEF PolicyInv, BatchSigned
      <3>2. Key(id)[1] = Config.root /\ Key(id)[3] = Package(id)
        BY DEF Key
      <3>3. Config.root \in Strict => Vetted(cache'[Config.root], Package(id), archive)
        BY <1>1, <2>5, StrictFacts
      <3> QED
        BY <1>4, <3>1, <3>2, <3>3 DEF VettedBatch
    <2> QED
      BY <1>1, <1>4, <2>7, <2>8, PolicyGraphStep
  <1> QED
    BY <1>2, <1>3, <1>4


\* A finished project is told of the archives it acquired, and of its folder as it is now.
LEMMA PolicyWrite ==
    ASSUME TypeOK, PolicyInv, Planned \/ KeepLock \/ Rename
    PROVE  PolicyInv'
  <1>1. Resolved \/ session.at \in {"rename", "retry"}
    BY DEF Planned, KeepLock, Rename
  <1>2. /\ StateOK /\ session.project \in DOMAIN specs /\ session.at \in {"acquire", "rename", "retry"}
        /\ ColdAnswer(Now, session.final) \in Answers(world)
    BY <1>1, ResolvedFacts
  <1>3. Answer(ColdAnswer(Now, session.final)) /\ UNCHANGED <<specs, cache, batch>>
    BY DEF Planned, KeepLock, Rename
  <1>4. Active /\ ~Ended
    BY <1>2 DEF Active, Ended
  <1> DEFINE answer == ColdAnswer(Now, session.final)
  <1>5. /\ answer.spec = Now
        /\ \A id : id \in DOMAIN answer.packages <=> id \in DOMAIN session.final
        /\ \A id \in DOMAIN session.final :
              /\ answer.packages[id].archive = session.final[id].archive
              /\ answer.packages[id].folder = Folder(Now)[<<id, session.final[id].version>>]
    BY DEF ColdAnswer
  <1> HIDE DEF answer
  <1>6. answer.spec.config.mode = "require" =>
           \A id \in DOMAIN answer.packages :
              \/ answer.packages[id].folder = "signed"
              \/ answer.packages[id].folder = Absent /\ answer.packages[id].archive = "signed"
    <2>1. Config.mode = "require" => VettedPicks(Folder(Now), session.final)
      BY <1>4 DEF PolicyInv, GraphSigned, VettedGraph
    <2> QED
      BY <1>5, <2>1 DEF VettedPicks, Vetted, Config
  <1>7. Answer(answer) /\ answer \in Answers(world)
    BY <1>2, <1>3 DEF answer
  <1> QED
    BY <1>2, <1>3, <1>4, <1>6, <1>7, PolicyAnswered

\* What happens aside leaves the session alone, and puts nothing into a folder.
LEMMA PolicyAside ==
    ASSUME TypeOK, PolicyInv, Clear \/ Elsewhere \/ UNCHANGED vars
    PROVE  PolicyInv'
  <1>1. StateOK /\ UNCHANGED <<specs, session, batch>>
    BY DEF TypeOK, Clear, Elsewhere, vars
  <1>2. StaysSigned
    <2>1. ASSUME NEW root \in Strict, NEW package \in Packages
          PROVE  cache'[root][package] \in {cache[root][package], Absent}
      <3>1. CASE Clear
        <4>1. PICK i \in DOMAIN specs : root = specs[i].config.root
          BY DEF Strict
        <4>2. specs[i] \in Projects(world)
          BY <1>1, VariableFacts
        <4>3. root \in world.roots
          BY <1>1, <4>1, <4>2, WorldFacts DEF ValidProject
        <4> QED
          BY <1>1, <3>1, <4>3, ClearFacts
      <3>2. CASE UNCHANGED cache
        BY <3>2
      <3> QED
        BY <3>1, <3>2 DEF Elsewhere, vars
    <2> QED
      BY <2>1 DEF StaysSigned
  <1>3. Now' = Now /\ Config' = Config /\ Strict' = Strict
    BY <1>1 DEF Now, Config, Strict
  <1>4. BatchSigned'
    BY <1>1, <1>2, <1>3, BatchVettedKept DEF PolicyInv, BatchSigned, Ended
  <1>5. GraphSigned'
    <2>1. ASSUME Active, Config.mode = "require"
          PROVE  VettedGraph(Folder(Now)', session.nodes, session.tasks, session.got, session.final)
      BY <1>1, <1>2, <1>3, <2>1, GraphVettedKept DEF PolicyInv, TypeOK
    <2> QED
      BY <1>1, <1>3, <2>1 DEF GraphSigned, Active
  <1>6. PolicyHolds'
    BY <1>1, PolicyKept DEF PolicyInv
  <1> QED
    BY <1>4, <1>5, <1>6 DEF PolicyInv

LEMMA PolicyCommand ==
    ASSUME TypeOK, PolicyInv, Start \/ Cancel \/ Crash \/ Edit \/ DiscoveryFails \/ JoinError
    PROVE  PolicyInv'
  <1>0. StateOK /\ session \in Sessions(world)
    BY VariableFacts DEF TypeOK
  <1>1. CASE Start
    <2>1. PICK online \in world.online, writes \in world.writes :
             session' = [Resting EXCEPT !.at = "project", !.project = 1, !.online = online,
                                        !.writes = writes]
      BY <1>1 DEF Start
    <2>2. session'.at = "project" /\ session'.answers = <<>>
      BY <2>1 DEF Resting
    <2>3. batch' = <<>>
      BY <1>1 DEF Start
    <2> QED
      BY <2>2, <2>3, PolicyQuiet DEF Active
  <1>2. CASE Crash \/ Edit
    <2>1. session'.at = "ended" /\ session'.answers = <<>>
      BY <1>2 DEF Crash, Edit, Resting
    <2> QED
      BY <2>1, PolicyQuiet DEF Active
  <1>3. CASE Cancel \/ DiscoveryFails \/ JoinError
    <2>1. \E kind, what : Fail(kind, what)
      BY <1>3 DEF Cancel, DiscoveryFails, JoinError
    <2>2. session'.at = "ended" /\ session'.answers = session.answers
      BY <1>0, <2>1 DEF Fail, Sessions
    <2> QED
      BY <2>2, PolicyQuiet DEF Active
  <1> QED
    BY <1>1, <1>2, <1>3

LEMMA PolicyNext ==
    ASSUME TypeOK, CurrentInv, OnePolicy, PolicyInv, [Next]_vars
    PROVE  PolicyInv'
  <1>1. ASSUME NEW id \in Ids, Load(id)
        PROVE  PolicyInv'
    BY <1>1, PolicyLoad
  <1> QED
    BY <1>1, PolicyProject, PolicyBeginGraph, PolicyReuse, PolicyTasks, PolicyMoves,
       PolicyJoinRequirements, PolicyJoinVersions, PolicyAcquireShared, PolicyAcquire, PolicyWrite,
       PolicyAside, PolicyCommand DEF Next, Step, Environment, Rest

\* While the projects of a batch that share a folder have one policy, an archive that is
\* remembered, fetched or chosen for a project that requires signatures is signed, and so is
\* the package in its folder, unless it has left (verify_package, BatchMetadataCache).
THEOREM PolicyInvariant == Spec /\ []OnePolicy => []PolicyInv
  BY PolicyInit, PolicyNext, TypeCorrect, CurrentInvariant, PTL DEF Spec

\* Required signatures: then no answer of a project that requires them names an archive that
\* has none.  Without the condition this does not hold: the batch shares its memory between
\* projects, whatever their policies are.
THEOREM PolicyIsKept == Spec /\ []OnePolicy => []PolicyHolds
  <1>1. PolicyInv => PolicyHolds
    BY DEF PolicyInv
  <1> QED
    BY <1>1, PolicyInvariant, PTL

(***************************************************************************)
(* The sources that are asked                                              *)
(***************************************************************************)

SelectedOf(config, ids) == UNION {SelectedSources(config, id) : id \in ids}

Served(config, s) == config.sources[s].protocol = "v3" => config.sources[s].index = "served"

\* The sources that are endpoints, and those that are asked, are selected for a node; an
\* endpoint is served; and what is asked for an identity is all there is to ask.
SlotsSound(config, d, nodes) ==
    /\ d.slots \cup Queued(d) \subseteq SelectedOf(config, DOMAIN nodes)
    /\ \A s \in d.slots : Served(config, s)
    /\ \/ Queued(d) = {}
       \/ \A s \in SelectedSources(config, d.asked) :
             config.sources[s].protocol = "v3" => s \in d.slots \cup Queued(d)

FetchedSound ==
    \A pair \in session.fetched :
       session.project \in DOMAIN specs /\ pair[2] \in SelectedSources(Config, pair[1])

\* No source before the one that is reported fails.
FailureSound ==
    session.error.kind = "discovery" =>
       /\ session.project \in DOMAIN specs
       /\ \A s \in SelectedSources(Config, discovery.asked) :
             s < session.error.what => Served(Config, s)

DiscoveryInv ==
    FetchedSound /\ FailureSound /\ (Active => SlotsSound(Config, discovery, session.nodes))

LEMMA DiscoveryInit ==
    ASSUME Init
    PROVE  DiscoveryInv
  BY DEF Init, Resting, NoError, DiscoveryInv, FetchedSound, FailureSound, Active

\* A command that fails for another reason keeps what was fetched.
LEMMA DiscoveryKept ==
    ASSUME DiscoveryInv, UNCHANGED specs, session'.project = session.project,
           session'.fetched = session.fetched \/ session'.fetched = {},
           session'.error.kind # "discovery"
    PROVE  FetchedSound' /\ FailureSound'
  BY DEF DiscoveryInv, FetchedSound, FailureSound, Now, Config

LEMMA DiscoveryQuiet ==
    ASSUME DiscoveryInv, ~Active', session'.error.kind # "discovery",
           \/ session'.fetched = {}
           \/ UNCHANGED specs /\ session'.project = session.project /\ session'.fetched = session.fetched
    PROVE  DiscoveryInv'
  <1>1. CASE session'.fetched = {}
    BY <1>1 DEF DiscoveryInv, FetchedSound, FailureSound
  <1>2. CASE UNCHANGED specs /\ session'.project = session.project /\ session'.fetched = session.fetched
    BY <1>2, DiscoveryKept DEF DiscoveryInv
  <1> QED
    BY <1>1, <1>2

\* A step that gives the graph no new source, and asks none.
LEMMA DiscoveryStill ==
    ASSUME CurrentInv, DiscoveryInv, Active, UNCHANGED <<specs, discovery>>,
           session'.project = session.project, session'.error = session.error,
           session'.fetched = session.fetched, DOMAIN session.nodes \subseteq DOMAIN session'.nodes
    PROVE  DiscoveryInv'
  <1>1. session'.error.kind # "discovery"
    BY DEF CurrentInv, ErrorSound, Active, Ended
  <1>2. FetchedSound' /\ FailureSound'
    BY <1>1, DiscoveryKept
  <1>3. Config' = Config
    BY DEF Config, Now
  <1>4. SlotsSound(Config, discovery, session.nodes)
    BY DEF DiscoveryInv
  <1>5. SlotsSound(Config, discovery, session'.nodes)
    BY <1>4 DEF SlotsSound, SelectedOf
  <1> QED
    BY <1>2, <1>3, <1>5 DEF DiscoveryInv

\* A step that fetched from a source, or from none.
LEMMA DiscoveryFetched ==
    ASSUME CurrentInv, DiscoveryInv, Active, UNCHANGED <<specs, discovery>>,
           session'.project = session.project, session'.error = session.error,
           session'.nodes = session.nodes, session.project \in DOMAIN specs,
           NEW id, NEW origin, origin # 0 => origin \in SelectedSources(Config, id),
           session'.fetched = IF origin = 0 THEN session.fetched
                              ELSE session.fetched \cup {<<id, origin>>}
    PROVE  DiscoveryInv'
  <1>1. session'.error.kind # "discovery"
    BY DEF CurrentInv, ErrorSound, Active, Ended
  <1>2. Config' = Config
    BY DEF Config, Now
  <1>3. FetchedSound'
    <2>1. ASSUME NEW pair \in session'.fetched
          PROVE  pair[2] \in SelectedSources(Config, pair[1])
      <3>1. CASE pair \in session.fetched
        BY <3>1 DEF DiscoveryInv, FetchedSound
      <3>2. CASE pair \notin session.fetched
        <4>1. pair = <<id, origin>> /\ origin # 0
          BY <2>1, <3>2
        <4> QED
          BY <4>1
      <3> QED
        BY <3>1, <3>2
    <2> QED
      BY <1>2, <2>1 DEF FetchedSound
  <1>4. FailureSound'
    BY <1>1 DEF FailureSound
  <1> QED
    BY <1>2, <1>3, <1>4 DEF DiscoveryInv

LEMMA DiscoveryBeginGraph ==
    ASSUME TypeOK, CurrentInv, DiscoveryInv, BeginGraph
    PROVE  DiscoveryInv'
  <1>1. StateOK /\ session \in Sessions(world) /\ session.at = "project"
    BY VariableFacts DEF TypeOK, BeginGraph, AtProject
  <1>2. session'.error = session.error /\ session'.fetched = {} /\ discovery' = Undiscovered
    BY <1>1 DEF BeginGraph, Sessions
  <1>3. session'.error.kind # "discovery"
    BY <1>1, <1>2 DEF CurrentInv, ErrorSound, Ended
  <1>4. Undiscovered.slots = {} /\ Queued(Undiscovered) = {}
    <2>1. ToSet(<<>>) = {}
      <3>1. <<>> \in Seq(Nat)
        OBVIOUS
      <3> QED
        BY <3>1, SeqFacts
    <2> QED
      BY <2>1 DEF Undiscovered, Queued
  <1>5. SlotsSound(Config', discovery', session'.nodes)
    <2> HIDE DEF Undiscovered
    <2> QED
      BY <1>2, <1>4 DEF SlotsSound
  <1> QED
    BY <1>2, <1>3, <1>5 DEF DiscoveryInv, FetchedSound, FailureSound

LEMMA DiscoveryGraph ==
    ASSUME TypeOK, CurrentInv, DiscoveryInv,
           \/ Reuse \/ LoadCached \/ JoinRequirements \/ JoinVersions \/ BeginAcquire
           \/ AcquireShared \/ WriteTemporary \/ RenameFails
    PROVE  DiscoveryInv'
  <1>1. StateOK /\ Active /\ session \in Sessions(world) /\ session.project \in DOMAIN specs
    <2>1. session.at \in {"graph", "acquire", "rename", "retry"}
      BY DEF Reuse, LoadCached, Dispatches, JoinRequirements, JoinVersions, Joins, BeginAcquire,
             AcquireShared, WriteTemporary, Resolved, RenameFails
    <2> QED
      BY <2>1, ActiveFacts, VariableFacts DEF Active
  <1>2. UNCHANGED <<specs, discovery>>
    BY DEF Reuse, LoadCached, JoinRequirements, JoinVersions, BeginAcquire, AcquireShared,
           WriteTemporary, RenameFails
  <1>3. ASSUME NEW kind, kind # "discovery", NEW what, Fail(kind, what)
        PROVE  DiscoveryInv'
    <2>1. /\ session'.at = "ended" /\ session'.project = session.project
          /\ session'.fetched = session.fetched /\ session'.error.kind = kind
      BY <1>1, <1>3 DEF Fail, Error, Sessions
    <2> QED
      BY <1>2, <1>3, <2>1, DiscoveryQuiet DEF Active
  <1>4. ASSUME session'.project = session.project, session'.error = session.error,
               session'.fetched = session.fetched, DOMAIN session.nodes \subseteq DOMAIN session'.nodes
        PROVE  DiscoveryInv'
    BY <1>1, <1>2, <1>4, DiscoveryStill
  <1>5. CASE Reuse
    <2>1. PICK id \in DOMAIN session.nodes :
             /\ Dispatches(id) /\ Key(id) \in DOMAIN batch
             /\ session' = [session EXCEPT !.nodes =
                               Known(session.nodes, id, batch[Key(id)].dependencies)]
      BY <1>5 DEF Reuse
    <2> DEFINE new == Known(session.nodes, id, batch[Key(id)].dependencies)
    <2>2. DOMAIN session.nodes \subseteq DOMAIN new
      BY DEF Known
    <2> HIDE DEF new
    <2>3. session' = [session EXCEPT !.nodes = new]
      BY <2>1 DEF new
    <2> QED
      BY <1>1, <1>4, <2>2, <2>3 DEF Sessions
  <1>6. CASE LoadCached
    <2>1. PICK id \in DOMAIN session.nodes :
             Dispatches(id) /\ session' = Spawned(id, discovery.snapshot)
      BY <1>6 DEF LoadCached
    <2>2. discovery.snapshot \in Seq(Nat)
      BY <1>1, VariableFacts DEF Discoveries
    <2> QED
      BY <1>1, <1>4, <2>1, <2>2, SpawnedFacts
  <1>7. CASE JoinRequirements
    <2>1. PICK id \in DOMAIN session.tasks :
             /\ session'.nodes = Known(session.nodes, id, Dependencies(Now.target, Package(id)))
             /\ session'.project = session.project /\ session'.error = session.error
             /\ session'.fetched = session.fetched
      BY <1>7, JoinSession
    <2> DEFINE new == Known(session.nodes, id, Dependencies(Now.target, Package(id)))
    <2>2. DOMAIN session.nodes \subseteq DOMAIN new
      BY DEF Known
    <2> HIDE DEF new
    <2>3. session'.nodes = new
      BY <2>1 DEF new
    <2> QED
      BY <1>4, <2>1, <2>2, <2>3
  <1>8. CASE JoinVersions
    <2>1. PICK id \in DOMAIN session.tasks :
             \/ Fail("noVersion", id)
             \/ \E version \in Versions :
                   /\ session'.project = session.project
                   /\ session'.nodes =
                         [session.nodes EXCEPT ![id] = [session.nodes[id] EXCEPT
                             !.version = version, !.state = "ready"]]
                   /\ session'.error = session.error /\ session'.fetched = session.fetched
      BY <1>8, VersionsSession
    <2> QED
      BY <1>3, <1>4, <2>1
  <1>9. CASE BeginAcquire \/ WriteTemporary
    <2>1. \/ session' = [session EXCEPT !.at = "acquire", !.final = session.got]
          \/ session' = [session EXCEPT !.at = "rename"]
      BY <1>9 DEF BeginAcquire, WriteTemporary
    <2> QED
      BY <1>1, <1>4, <2>1 DEF Sessions
  <1>10. CASE AcquireShared
    BY <1>4, <1>10, SharedSession
  <1>11. CASE RenameFails
    <2>1. session' = [session EXCEPT !.at = "retry"] \/ Fail("io", session.project)
      BY <1>11 DEF RenameFails
    <2>2. CASE session' = [session EXCEPT !.at = "retry"]
      BY <1>1, <1>4, <2>2 DEF Sessions
    <2> QED
      BY <1>3, <2>1, <2>2
  <1> QED
    BY <1>5, <1>6, <1>7, <1>8, <1>9, <1>10, <1>11

LEMMA DiscoveryLoad ==
    ASSUME TypeOK, CurrentInv, DiscoveryInv, NEW id \in Ids, Load(id)
    PROVE  DiscoveryInv'
  <1> DEFINE origin == Loaded(session.tasks[id], id).origin
  <1>1. /\ StateOK /\ session.project \in DOMAIN specs
        /\ session.at \in {"graph", "discovery"}
        /\ id \in DOMAIN session.nodes /\ session.tasks[id] \in Tasks
        /\ session.tasks[id].archive = Absent /\ session.tasks[id].origin = 0
        /\ session'.project = session.project
        /\ session'.nodes = session.nodes /\ session'.error = session.error
        /\ session'.fetched =
              IF origin = 0 THEN session.fetched ELSE session.fetched \cup {<<id, origin>>}
        /\ UNCHANGED <<specs, discovery>>
    BY LoadSession
  <1>2. origin # 0 => origin \in SelectedSources(Config, id)
    BY <1>1, LoadedFacts
  <1>3. Active
    BY <1>1 DEF Active
  <1> HIDE DEF origin
  <1> QED
    BY <1>1, <1>2, <1>3, DiscoveryFetched

LEMMA DiscoveryAcquire ==
    ASSUME TypeOK, CurrentInv, DiscoveryInv, Acquire
    PROVE  DiscoveryInv'
  <1>1. /\ StateOK /\ session.project \in DOMAIN specs /\ session.at = "acquire"
        /\ UNCHANGED <<specs, discovery>>
    BY AcquireSession
  <1>2. PICK id \in Wanted :
              LET task == Loaded(Task(discovery.snapshot), id)
              IN  /\ id \in DOMAIN session.nodes
                  /\ \/ \E kind \in Kinds \ {"torn", "omitted", "absent", "discovery"} : Fail(kind, id)
                     \/ /\ session'.project = session.project
                        /\ session'.nodes = session.nodes /\ session'.error = session.error
                        /\ session'.fetched = IF task.origin = 0 THEN session.fetched
                                              ELSE session.fetched \cup {<<id, task.origin>>}
    BY AcquireSession
  <1> DEFINE origin == Loaded(Task(discovery.snapshot), id).origin
  <1>3. CASE \E kind \in Kinds \ {"torn", "omitted", "absent", "discovery"} : Fail(kind, id)
    <2>1. PICK kind \in Kinds \ {"torn", "omitted", "absent", "discovery"} : Fail(kind, id)
      BY <1>3
    <2>2. /\ session'.at = "ended" /\ session'.project = session.project
          /\ session'.fetched = session.fetched /\ session'.error.kind = kind
      <3>1. session \in Sessions(world)
        BY <1>1, VariableFacts
      <3> QED
        BY <2>1, <3>1 DEF Fail, Error, Sessions
    <2> QED
      BY <1>1, <2>1, <2>2, DiscoveryQuiet DEF Active
  <1>4. CASE /\ session'.project = session.project
             /\ session'.nodes = session.nodes /\ session'.error = session.error
             /\ session'.fetched = IF origin = 0 THEN session.fetched
                                   ELSE session.fetched \cup {<<id, origin>>}
    <2>1. origin # 0 => origin \in SelectedSources(Config, id)
      <3>1. discovery.snapshot \in Seq(Nat)
        BY <1>1, VariableFacts DEF Discoveries
      <3>2. /\ Task(discovery.snapshot) \in Tasks /\ Task(discovery.snapshot).archive = Absent
            /\ Task(discovery.snapshot).origin = 0
        BY <3>1, FreshTask
      <3> QED
        BY <1>1, <1>2, <3>2, LoadedFacts
    <2>2. Active
      BY <1>1 DEF Active
    <2> HIDE DEF origin
    <2> QED
      BY <1>1, <1>4, <2>1, <2>2, DiscoveryFetched
  <1> QED
    BY <1>2, <1>3, <1>4

\* The sources of an identity without one are endpoints at once, or asked.
LEMMA DiscoveryDiscover ==
    ASSUME TypeOK, CurrentInv, DiscoveryInv, Discover
    PROVE  DiscoveryInv'
  <1>1. PICK id \in DOMAIN session.nodes :
           /\ Dispatches(id)
           /\ IF Unmapped(Config, id)
              THEN Fail("unmapped", id) /\ UNCHANGED discovery
              ELSE /\ session' = [session EXCEPT !.at = "discovery"]
                   /\ EnsureIdentity(Config, id, session.online, Workers)
    BY DEF Discover
  <1>2. UNCHANGED <<world, specs, cache, locks, batch, budget, wrote>>
    BY DEF Discover
  <1>3. /\ StateOK /\ GraphOK /\ session.project \in DOMAIN specs /\ session.at = "graph" /\ Active
        /\ session \in Sessions(world) /\ id \in Nat
    BY <1>1, DispatchFacts, VariableFacts, NodeFacts, ConstantFacts
  <1>4. CASE Unmapped(Config, id)
    <2>1. /\ session'.at = "ended" /\ session'.project = session.project
          /\ session'.fetched = session.fetched /\ session'.error.kind = "unmapped"
      <3>1. Fail("unmapped", id)
        BY <1>1, <1>4
      <3> QED
        BY <1>3, <3>1 DEF Fail, Error, Sessions
    <2> QED
      BY <1>2, <2>1, DiscoveryQuiet DEF Active
  <1>5. CASE ~Unmapped(Config, id)
    <2>1. /\ session'.project = session.project /\ session'.nodes = session.nodes
          /\ session'.error = session.error /\ session'.fetched = session.fetched
      BY <1>1, <1>3, <1>5 DEF Sessions
    <2>2. /\ discovery'.asked = id
          /\ \A s : s \in discovery'.slots <=>
                 \/ s \in discovery.slots
                 \/ /\ s \in SelectedSources(Config, id)
                    /\ \/ Config.sources[s].protocol = "local"
                       \/ session.online /\ Config.sources[s].protocol = "v2"
          /\ \A s : s \in Queued(discovery') <=>
                 /\ session.online /\ Config.sources[s].protocol = "v3"
                 /\ s \in SelectedSources(Config, id) /\ s \notin discovery.slots
      <3>1. Workers \in Nat
        <4>1. Cardinality(DOMAIN session.tasks) < MaxWorkers
          BY <1>1 DEF Dispatches
        <4> QED
          BY <1>3, <4>1, TasksFinite, ConstantFacts DEF Workers
      <3> QED
        BY <1>1, <1>3, <1>5, <3>1, EnsureFacts
    <2>3. SlotsSound(Config, discovery, session.nodes)
      BY <1>3 DEF DiscoveryInv
    <2>4. SlotsSound(Config, discovery', session.nodes)
      <3>1. discovery'.slots \cup Queued(discovery') \subseteq SelectedOf(Config, DOMAIN session.nodes)
        BY <2>2, <2>3 DEF SlotsSound, SelectedOf
      <3>2. \A s \in discovery'.slots : Served(Config, s)
        BY <2>2, <2>3 DEF SlotsSound, Served
      <3>3. \/ Queued(discovery') = {}
            \/ \A s \in SelectedSources(Config, discovery'.asked) :
                  Config.sources[s].protocol = "v3" => s \in discovery'.slots \cup Queued(discovery')
        BY <2>2
      <3> QED
        BY <3>1, <3>2, <3>3 DEF SlotsSound
    <2>5. Config' = Config /\ session'.error.kind # "discovery"
      BY <1>2, <1>3, <2>1 DEF Config, Now, CurrentInv, ErrorSound, Ended
    <2>6. FetchedSound' /\ FailureSound'
      BY <1>2, <2>1, <2>5, DiscoveryKept
    <2> QED
      BY <2>1, <2>4, <2>5, <2>6 DEF DiscoveryInv
  <1> QED
    BY <1>4, <1>5

LEMMA DiscoveryArrive ==
    ASSUME TypeOK, CurrentInv, DiscoveryInv, Arrive
    PROVE  DiscoveryInv'
  <1>1. /\ session.at = "discovery" /\ UNCHANGED <<world, specs, cache, locks, session, batch, wrote>>
    BY DEF Arrive
  <1>2. PICK s \in DOMAIN Config.sources : IndexArrives(s, Workers)
    BY DEF Arrive
  <1>3. /\ StateOK /\ GraphOK /\ Active /\ discovery \in Discoveries
        /\ IsFiniteSet(discovery.running) /\ Cardinality(discovery.running) <= Workers
    BY <1>1, ActiveFacts, VariableFacts DEF Active, GraphOK
  <1>4. Workers \in Nat
    <2>1. Cardinality(DOMAIN session.tasks) \in Nat /\ Cardinality(discovery.running) \in Nat
      BY <1>3, TasksFinite, FS_CardinalityType
    <2> QED
      BY <1>3, <2>1, ConstantFacts DEF Workers
  <1>5. /\ discovery'.slots = discovery.slots /\ discovery'.asked = discovery.asked
        /\ Queued(discovery') = Queued(discovery)
    BY <1>2, <1>3, <1>4, ArriveFacts DEF IndexArrives
  <1>6. SlotsSound(Config, discovery, session.nodes)
    BY <1>3 DEF DiscoveryInv
  <1>7. SlotsSound(Config, discovery', session.nodes)
    BY <1>5, <1>6 DEF SlotsSound
  <1>8. Config' = Config
    BY <1>1 DEF Config, Now
  <1>9. FetchedSound' /\ FailureSound'
    BY <1>1, <1>5, <1>8 DEF DiscoveryInv, FetchedSound, FailureSound
  <1> QED
    BY <1>1, <1>7, <1>8, <1>9 DEF DiscoveryInv

\* All that was asked for has arrived.
LEMMA ArrivedFacts ==
    ASSUME TypeOK, DiscoveryInv, session.at = "discovery", AllArrived
    PROVE  /\ StateOK /\ GraphOK /\ Active /\ session.project \in DOMAIN specs
           /\ discovery \in Discoveries
           /\ Queued(discovery) = ToSet(discovery.completed) /\ 0 \notin ToSet(discovery.completed)
           /\ SlotsSound(Config, discovery, session.nodes)
  <1>1. /\ StateOK /\ GraphOK /\ Active /\ discovery \in Discoveries /\ session.project \in DOMAIN specs
    BY ActiveFacts, VariableFacts DEF Active
  <1>2. Queued(discovery) = ToSet(discovery.completed)
    <2>1. discovery.running = {} /\ discovery.pending = <<>>
      BY DEF AllArrived
    <2>2. <<>> \in Seq(Nat)
      OBVIOUS
    <2>3. ToSet(<<>>) = {}
      BY <2>2, SeqFacts
    <2> QED
      BY <2>1, <2>3 DEF Queued
  <1>3. SlotsSound(Config, discovery, session.nodes)
    BY <1>1 DEF DiscoveryInv
  <1>4. 0 \notin ToSet(discovery.completed)
    <2>1. \A id : SelectedSources(Config, id) \subseteq Nat \ {0}
      BY <1>1, SelectedFacts
    <2> QED
      BY <1>2, <1>3, <2>1 DEF SlotsSound, SelectedOf
  <1> QED
    BY <1>1, <1>2, <1>3, <1>4

LEMMA DiscoveryDiscovered ==
    ASSUME TypeOK, CurrentInv, DiscoveryInv, Discovered
    PROVE  DiscoveryInv'
  <1>1. /\ session.at = "discovery" /\ AllArrived /\ Settle(Config) /\ FirstFailure(Config) = 0
        /\ session' = Spawned(discovery.asked, discovery'.snapshot)
        /\ UNCHANGED <<world, specs, cache, locks, batch, budget, wrote>>
    BY DEF Discovered
  <1>2. /\ StateOK /\ GraphOK /\ Active /\ session.project \in DOMAIN specs
        /\ discovery \in Discoveries
        /\ Queued(discovery) = ToSet(discovery.completed) /\ 0 \notin ToSet(discovery.completed)
        /\ SlotsSound(Config, discovery, session.nodes)
    BY <1>1, ArrivedFacts
  <1>3. discovery.asked \in DOMAIN session.nodes
    BY <1>1, <1>2 DEF GraphOK
  <1>4. /\ discovery'.slots = discovery.slots \cup ToSet(discovery.completed)
        /\ discovery'.running = {} /\ discovery'.pending = <<>> /\ discovery'.completed = <<>>
        /\ discovery'.snapshot \in Seq(Nat)
    BY <1>1, <1>2, SettleFacts DEF GraphOK
  <1>5. /\ session'.project = session.project /\ session'.error = session.error
        /\ session'.fetched = session.fetched /\ DOMAIN session'.nodes = DOMAIN session.nodes
    BY <1>1, <1>2, <1>3, <1>4, SpawnedFacts
  <1>6. \A s \in ToSet(discovery.completed) : Config.sources[s].index = "served"
    BY <1>1, <1>2, FirstFailureFacts
  <1>7. Queued(discovery') = {}
    <2>1. <<>> \in Seq(Nat)
      OBVIOUS
    <2>2. ToSet(<<>>) = {}
      BY <2>1, SeqFacts
    <2> QED
      BY <1>4, <2>2 DEF Queued
  <1>8. SlotsSound(Config, discovery', session'.nodes)
    BY <1>2, <1>4, <1>5, <1>6, <1>7 DEF SlotsSound, Served
  <1>9. Config' = Config /\ session'.error.kind # "discovery"
    BY <1>1, <1>5 DEF Config, Now, CurrentInv, ErrorSound, Ended
  <1>10. FetchedSound' /\ FailureSound'
    BY <1>1, <1>5, <1>9, DiscoveryKept
  <1> QED
    BY <1>8, <1>9, <1>10 DEF DiscoveryInv

\* Every source before the one that is reported was an endpoint, or has arrived and is
\* served.
LEMMA DiscoveryFailed ==
    ASSUME TypeOK, CurrentInv, DiscoveryInv, DiscoveryFails
    PROVE  DiscoveryInv'
  <1>1. /\ session.at = "discovery" /\ AllArrived /\ FirstFailure(Config) # 0
        /\ Fail("discovery", FirstFailure(Config))
        /\ UNCHANGED <<world, specs, cache, locks, batch, budget, wrote, discovery>>
    BY DEF DiscoveryFails
  <1>2. /\ StateOK /\ GraphOK /\ Active /\ session.project \in DOMAIN specs
        /\ discovery \in Discoveries
        /\ Queued(discovery) = ToSet(discovery.completed) /\ 0 \notin ToSet(discovery.completed)
        /\ SlotsSound(Config, discovery, session.nodes)
    BY <1>1, ArrivedFacts
  <1>3. /\ session'.at = "ended" /\ session'.project = session.project
        /\ session'.fetched = session.fetched /\ session'.error.what = FirstFailure(Config)
    <2>1. session \in Sessions(world)
      BY <1>2, VariableFacts
    <2> QED
      BY <1>1, <2>1 DEF Fail, Error, Sessions
  <1>4. /\ FirstFailure(Config) \in ToSet(discovery.completed)
        /\ \A s \in ToSet(discovery.completed) :
              s < FirstFailure(Config) => Config.sources[s].index = "served"
    BY <1>1, <1>2, FirstFailureFacts
  <1>5. \A s \in SelectedSources(Config, discovery.asked) :
           s < FirstFailure(Config) => Served(Config, s)
    BY <1>2, <1>4 DEF SlotsSound, Served
  <1>6. Config' = Config /\ discovery' = discovery
    BY <1>1, <1>3 DEF Config, Now
  <1>7. FailureSound'
    BY <1>1, <1>2, <1>3, <1>5, <1>6 DEF FailureSound
  <1>8. FetchedSound'
    BY <1>1, <1>3, <1>6 DEF DiscoveryInv, FetchedSound
  <1> QED
    BY <1>3, <1>7, <1>8 DEF DiscoveryInv, Active

\* Commands that start or end, projects that are answered, and edits between them.
LEMMA DiscoveryCommand ==
    ASSUME TypeOK, CurrentInv, DiscoveryInv,
           \/ Finish \/ AnswerEmpty \/ AnswerWarm \/ RejectLock \/ JoinError
           \/ Planned \/ KeepLock \/ Rename \/ Start \/ Cancel \/ Crash \/ Edit
    PROVE  DiscoveryInv'
  <1>0. StateOK /\ session \in Sessions(world)
    BY VariableFacts DEF TypeOK
  <1>1. ASSUME NEW kind, kind # "discovery", NEW what, Fail(kind, what), UNCHANGED specs
        PROVE  DiscoveryInv'
    <2>1. /\ session'.at = "ended" /\ session'.project = session.project
          /\ session'.fetched = session.fetched /\ session'.error.kind = kind
      BY <1>0, <1>1 DEF Fail, Error, Sessions
    <2> QED
      BY <1>1, <2>1, DiscoveryQuiet DEF Active
  <1>2. CASE AnswerEmpty \/ AnswerWarm \/ Planned \/ KeepLock \/ Rename
    <2>1. session.error.kind = "none"
      BY <1>2 DEF AnswerEmpty, AnswerWarm, AtProject, Planned, KeepLock, Rename, Resolved,
                  CurrentInv, ErrorSound, Ended
    <2>2. session'.at = "project" /\ session'.fetched = {} /\ session'.error = session.error
      BY <1>0, <1>2 DEF AnswerEmpty, AnswerWarm, Planned, KeepLock, Rename, Answer, Sessions
    <2> QED
      BY <2>1, <2>2, DiscoveryQuiet DEF Active
  <1>3. CASE Finish
    <2>1. /\ session'.at = "ended" /\ session'.project = session.project
          /\ session'.fetched = session.fetched /\ session'.error = session.error
      BY <1>0, <1>3 DEF Finish, Sessions
    <2>2. session.error.kind = "none" /\ UNCHANGED specs
      BY <1>3 DEF Finish, CurrentInv, ErrorSound, Ended
    <2> QED
      BY <2>1, <2>2, DiscoveryQuiet DEF Active
  <1>4. CASE RejectLock
    <2>1. ReadWarmLock(Now) # "discovery"
      BY <1>4, ReasonFacts DEF RejectLock
    <2> QED
      BY <1>1, <1>4, <2>1 DEF RejectLock
  <1>5. CASE Cancel
    BY <1>1, <1>5 DEF Cancel
  <1>6. CASE JoinError
    <2>1. PICK id \in DOMAIN session.tasks :
             /\ session.tasks[id].result \in {"unsigned", "unmapped", "missing"}
             /\ Fail(session.tasks[id].result, id)
      BY <1>6 DEF JoinError
    <2> QED
      BY <1>1, <1>6, <2>1 DEF JoinError
  <1>7. CASE Start
    <2>1. PICK online \in world.online, writes \in world.writes :
             session' = [Resting EXCEPT !.at = "project", !.project = 1, !.online = online,
                                        !.writes = writes]
      BY <1>7 DEF Start
    <2>2. /\ Resting \in Sessions(world) /\ Resting.error.kind = "none" /\ Resting.fetched = {}
      BY RestingFacts DEF Resting, NoError
    <2> HIDE DEF Resting
    <2>3. session'.at = "project" /\ session'.fetched = {} /\ session'.error.kind = "none"
      BY <2>1, <2>2 DEF Sessions
    <2> QED
      BY <2>3, DiscoveryQuiet DEF Active
  <1>8. CASE Crash \/ Edit
    <2>1. session'.at = "ended" /\ session'.fetched = {} /\ session'.error.kind # "discovery"
      BY <1>8 DEF Crash, Edit, Resting, Error, NoError
    <2> QED
      BY <2>1, DiscoveryQuiet DEF Active
  <1> QED
    BY <1>2, <1>3, <1>4, <1>5, <1>6, <1>7, <1>8

LEMMA DiscoveryAside ==
    ASSUME DiscoveryInv, UNCHANGED <<specs, session, discovery>>
    PROVE  DiscoveryInv'
  BY DEF DiscoveryInv, FetchedSound, FailureSound, Active, Now, Config

LEMMA DiscoveryNext ==
    ASSUME TypeOK, CurrentInv, DiscoveryInv, [Next]_vars
    PROVE  DiscoveryInv'
  <1>1. ASSUME NEW id \in Ids, Load(id)
        PROVE  DiscoveryInv'
    BY <1>1, DiscoveryLoad
  <1>2. CASE Clear \/ Elsewhere \/ UNCHANGED vars
    BY <1>2, DiscoveryAside DEF Clear, Elsewhere, vars
  <1>3. CASE Rest
    BY <1>2, <1>3 DEF Rest
  <1>4. CASE Step
    BY <1>1, <1>4, DiscoveryCommand, DiscoveryBeginGraph, DiscoveryGraph, DiscoveryAcquire,
       DiscoveryDiscover, DiscoveryArrive, DiscoveryDiscovered, DiscoveryFailed DEF Step
  <1>5. CASE Environment
    BY <1>2, <1>3, <1>5, DiscoveryCommand, DiscoveryGraph DEF Environment
  <1> QED
    BY <1>2, <1>4, <1>5 DEF Next

\* What is asked, and what was fetched, is selected for an identity of the graph; what is an
\* endpoint is served; and what is asked for an identity is all there is left to ask.
THEOREM DiscoveryInvariant == Spec => []DiscoveryInv
  <1>1. TypeOK /\ CurrentInv /\ DiscoveryInv /\ [Next]_vars => DiscoveryInv'
    BY DiscoveryNext
  <1> QED
    BY <1>1, DiscoveryInit, TypeCorrect, CurrentInvariant, PTL DEF Spec

LEMMA SoundDiscovery ==
    ASSUME TypeOK, DiscoveryInv
    PROVE  DiscoverySound
  <1>1. StateOK
    BY DEF TypeOK
  <1>2. ASSUME NEW pair \in session.fetched
        PROVE  pair[2] \in Entitled(Config, pair[1])
    <2>1. session.project \in DOMAIN specs /\ pair[2] \in SelectedSources(Config, pair[1])
      BY DEF DiscoveryInv, FetchedSound
    <2> QED
      BY <1>1, <2>1, SelectedFacts
  <1>3. ASSUME session.at \in {"graph", "discovery", "acquire"}
        PROVE  discovery.slots \cup discovery.running \cup ToSet(discovery.completed)
                  \subseteq UNION {Entitled(Config, id) : id \in DOMAIN session.nodes}
    <2>1. session.project \in DOMAIN specs /\ SlotsSound(Config, discovery, session.nodes)
      BY <1>3, ActiveFacts DEF DiscoveryInv, Active
    <2>2. \A id : SelectedSources(Config, id) = Entitled(Config, id)
      BY <1>1, <2>1, SelectedFacts
    <2>3. ASSUME NEW s \in discovery.slots \cup discovery.running \cup ToSet(discovery.completed)
          PROVE  \E id \in DOMAIN session.nodes : s \in Entitled(Config, id)
      BY <2>1, <2>2 DEF SlotsSound, SelectedOf, Queued
    <2> QED
      BY <2>3
  <1>4. ASSUME session.error.kind = "discovery", NEW s \in Entitled(Config, discovery.asked),
               s < session.error.what, Config.sources[s].protocol = "v3"
        PROVE  Config.sources[s].index = "served"
    <2>1. /\ session.project \in DOMAIN specs
          /\ \A r \in SelectedSources(Config, discovery.asked) :
                r < session.error.what => Served(Config, r)
      BY <1>4 DEF DiscoveryInv, FailureSound
    <2>2. s \in SelectedSources(Config, discovery.asked)
      BY <1>1, <2>1, SelectedFacts
    <2> QED
      BY <1>4, <2>1, <2>2 DEF Served
  <1> QED
    BY <1>2, <1>3, <1>4 DEF DiscoverySound

\* No archive comes from a source, and no service index is asked for, unless the most
\* specific pattern of the mapping says so; and the failure that is reported is that of the
\* first source that fails, in whatever order the answers arrive.
THEOREM DiscoveryIsSound == Spec => []DiscoverySound
  BY TypeCorrect, DiscoveryInvariant, SoundDiscovery, PTL
=============================================================================
