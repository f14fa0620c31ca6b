------------------------------ MODULE RuntimePacks ------------------------------
(***************************************************************************)
(* How a command plans the runtime pack and the host pack of a project     *)
(* (runtime_pack.rs, plan_runtime_packs): it evaluates the project,        *)
(* selects an SDK, from that SDK's lists and graph the identifiers the     *)
(* packs are made for, from the NuGet configuration the folder of restored *)
(* packages, and goes on with the inventory of the packs it locates        *)
(* (PackInventory).                                                        *)
(***************************************************************************)
EXTENDS PackInventory, SdkSelection, RuntimeGraph, NugetConfig, ProjectClosure, FrameworkReferences

CONSTANTS
    Worlds,         \* sets of circumstances to explore
    Undecided       \* what a command has selected before it has selected anything

(***************************************************************************)
(* What any circumstances are                                              *)
(***************************************************************************)

\* Every root is known, with the versions that are installed in it, if any.
SdkInputs(given) ==
    /\ given.global.version \in Versions \cup {NoVersion}
    /\ given.global.policy \in RollForwardPolicies \cup {"none"}
    /\ given.global.prerelease \in BOOLEAN
    /\ given.global.paths \in Seq(DOMAIN given.installed \cup {HostRoot})
    /\ given.hosts \in Seq(DOMAIN given.installed)
    /\ \A root \in DOMAIN given.installed :
          given.installed[root] \subseteq Versions /\ IsFiniteSet(given.installed[root])
    /\ NoSdk \notin [root : DOMAIN given.installed, version : Versions]

Identifiers(document) == DOMAIN document \cup UNION {ToSet(document[rid]) : rid \in DOMAIN document}

\* Every version that is installed has a graph, of few identifiers.
GraphInputs(given) ==
    \A root \in DOMAIN given.installed : \A version \in given.installed[root] :
       LET document == given.catalog[version].graph
       IN  /\ \A rid \in DOMAIN document : document[rid] \in Seq(Identifiers(document))
           /\ IsFiniteSet(Identifiers(document))
           /\ NoRid \notin Identifiers(document) \cup {given.requested}

\* No two references have one name; pruning knows frameworks that are themselves what
\* runs, and what runs a framework may be installed in some versions.
FrameworkInputs(given) ==
    /\ given.project.references \in Seq(ToSet(given.project.references))
    /\ \A i, j \in DOMAIN given.project.references :
          given.project.references[i].name = given.project.references[j].name => i = j
    /\ \A reference \in ToSet(given.project.references) : reference.runtime \in Versions \cup {NoVersion}
    /\ given.project.runtime \in Versions \cup {NoVersion}
    /\ given.project.rollForward \in RuntimePolicies
    /\ given.project.selfContained \in BOOLEAN
    /\ \A name \in DOMAIN given.definitions :
          /\ {given.definitions[name].default, given.definitions[name].latest} \subseteq Versions
          /\ given.definitions[name].runtimeName \in DOMAIN given.frameworks.shared
          /\ name \in Prunable => given.definitions[name].runtimeName = name
    /\ \A name \in DOMAIN given.frameworks.shared :
          /\ given.frameworks.shared[name] \subseteq Versions
          /\ IsFiniteSet(given.frameworks.shared[name])

\* Where a command line, an environment or a file names the folder of packages, it is one.
ConfigInputs(given) ==
    /\ given.files \in Seq(Seq(UNION {ToSet(file) : file \in ToSet(given.files)}))
    /\ \A file \in ToSet(given.files) : \A element \in ToSet(file) :
          /\ element.section \in Sections /\ element.op \in {"add", "remove", "clear"}
          /\ element.section = "config" /\ element.key = "globalPackagesFolder" =>
                element.value \in Folders \cup {Unset}
    /\ DOMAIN given.options = {"sources", "packages", "folder", "fallback"}
    /\ given.options.sources \in Seq(ToSet(given.options.sources))
    /\ {given.options.packages, given.options.folder} \subseteq Folders \cup {Unset}

PackInputs(given) ==
    /\ given.packs \in [Roots -> States]
    /\ given.repairs \subseteq Roots \X [present : BOOLEAN, whole : BOOLEAN, name : Apphosts]

ASSUME WorldsAssumption ==
    /\ DefaultFolder \in Folders
    /\ \A circumstances \in Worlds : \A given \in circumstances :
          /\ SdkInputs(given) /\ GraphInputs(given) /\ FrameworkInputs(given)
          /\ ConfigInputs(given) /\ PackInputs(given)

VARIABLES
    world,          \* [global, hosts, installed, catalog, requested, files, options,
                    \*  tree, roots, project, definitions, frameworks, packs, repairs,
                    \*  crashes, commands]; it does not change
    choice          \* per command: [sdk, runtime, host, config, folder, sources, closure,
                    \*  frameworks]

planVars == <<packs, entries, calls, world, choice>>

\* A pack is a directory of a place: a dotnet root or a folder of packages.
Place(place, kind, rid) == <<place, kind, rid>>

PlanInit ==
    /\ \E circumstances \in Worlds : world \in circumstances
    /\ packs = world.packs
    /\ entries = [folder \in Folders |-> [print \in Prints |-> Absent]]
    /\ calls = [c \in Calls |-> Idle]
    /\ choice = [c \in Calls |-> Undecided]

Sdk == SelectSdk(world.global, world.hosts, world.installed)

\* catalog: of each version of the SDK the graph and what the packs support.
Rid(kind) ==
    IF Sdk = NoSdk
    THEN NoRid
    ELSE SelectPackRuntimeIdentifier(Loaded(world.catalog[Sdk.version].graph),
                                     world.requested, world.catalog[Sdk.version][kind])

\* The sources of the first root, as every command evaluates its project.
Sources ==
    LET directory == Front(world.roots[1])
    IN  CollectSources(world.tree.fs,
                       Outputs(world.tree, Canonical(world.tree.fs, world.roots[1]), directory),
                       directory)

\* definitions: what the manifest of the SDK says of each framework.
Frameworks ==
    IF Sdk = NoSdk
    THEN [rows |-> <<>>, error |-> "sdk"]
    ELSE PlanFrameworks(world.project, world.definitions, world.frameworks)

\* All a command derives from its inputs before it looks for a pack.  The closure and the
\* frameworks are those a restore and a plan of frameworks derive from the same inputs.
\* Bound: as many commands begin as the circumstances say.
Choose(c) ==
    /\ At(c, "locate") /\ choice[c] = Undecided
    /\ Cardinality({other \in Calls : choice[other] # Undecided}) < world.commands
    /\ choice' = [choice EXCEPT ![c] =
            [sdk |-> Sdk, runtime |-> Rid("runtime"), host |-> Rid("host"),
             config |-> DiscoverConfiguration(world.files, world.options),
             folder |-> GlobalPackagesDirectory(world.files, world.options),
             sources |-> Sources,
             closure |-> EvaluateProjectClosures(world.tree, world.roots),
             frameworks |-> Frameworks]]
    /\ UNCHANGED <<packs, entries, calls, world>>

Complete(chosen) ==
    /\ chosen.sources.error = "none"
    /\ chosen.sdk # NoSdk
    /\ NoRid \notin {chosen.runtime, chosen.host}
    /\ chosen.folder # Unset

\* What is not in Roots is never there.
Known(root) == IF root \in Roots THEN <<root>> ELSE <<>>

\* The pack that comes with the SDK and the one that was restored.
Candidates(chosen, kind) ==
    Known(Place(chosen.sdk.root, kind, chosen[kind])) \o Known(Place(chosen.folder, kind, chosen[kind]))

LocatePacks(c) ==
    /\ choice[c] # Undecided /\ Complete(choice[c])
    /\ Locate(c, choice[c].folder, Candidates(choice[c], "runtime"), Candidates(choice[c], "host"))
    /\ UNCHANGED <<world, choice>>

PlanStep(c) == Step(c) /\ UNCHANGED <<world, choice>>

Kill(c) == world.crashes /\ Crash(c) /\ UNCHANGED <<world, choice>>

\* repairs: what becomes of which pack, some time.
Repair(root, state) ==
    /\ <<root, state>> \in world.repairs
    /\ Replace(root, [stamp |-> packs[root].stamp + 1, present |-> state.present,
                      whole |-> state.whole, name |-> state.name])
    /\ UNCHANGED <<world, choice>>

Blackout(folder, print) == world.crashes /\ LosePower(folder, print) /\ UNCHANGED <<world, choice>>

PlanNext ==
    \/ \E c \in Calls : Choose(c) \/ LocatePacks(c) \/ PlanStep(c) \/ Kill(c)
    \/ \E repair \in world.repairs : Repair(repair[1], repair[2])
    \/ \E folder \in Folders, print \in Prints : Blackout(folder, print)

PlanSpec == PlanInit /\ [][PlanNext]_planVars

\* What the commands have selected.
Selections == {choice[c] : c \in Calls} \ {Undecided}

(***************************************************************************)
(* What a command selects                                                  *)
(***************************************************************************)

\* Whether a version is one a policy may select.
Allowed(version, request) ==
    /\ request.prerelease \/ version.release
    /\ request.version # NoVersion =>
          /\ ~Below(version, request.version)
          /\ CASE request.policy = "disable" -> version = request.version
                [] request.policy \in {"patch", "latestPatch"} ->
                     /\ SameMinor(version, request.version)
                     /\ FeatureBand(version) = FeatureBand(request.version)
                [] request.policy \in {"feature", "latestFeature"} -> SameMinor(version, request.version)
                [] request.policy \in {"minor", "latestMinor"} -> SameMajor(version, request.version)
                [] request.policy \in {"major", "latestMajor"} -> TRUE

\* From the narrower policy to the wider.
Narrower == {<<"patch", "feature">>, <<"feature", "minor">>, <<"minor", "major">>}

\* The SDK is one that the policy allows, of the first root that has any, and there is
\* none only when no root has one.  A "latest" policy takes the highest; any other that
\* looks further than the next narrower one takes what that takes, if it takes any: so
\* it never leaves a feature band, a minor or a major it could have stayed in.
SdkFits(sdk) ==
    LET global == world.global
        roots == SearchRoots(global, world.hosts)
        request == [version |-> global.version, policy |-> Policy(global),
                    prerelease |-> global.prerelease]
        Fitting(root) == {version \in world.installed[root] : Allowed(version, request)}
        Taken(policy) == SelectFromRoot(world.installed[sdk.root], [request EXCEPT !.policy = policy])
    IN  IF sdk = NoSdk
        THEN \/ Contains(global.paths, HostRoot) /\ world.hosts = <<>>
             \/ global.version = NoVersion /\ global.policy \notin {"none", "latestMajor"}
             \/ \A i \in DOMAIN roots : Fitting(roots[i]) = {}
        ELSE /\ sdk.version \in Fitting(sdk.root)
             /\ \E i \in DOMAIN roots : /\ roots[i] = sdk.root
                                       /\ \A j \in 1..(i - 1) : Fitting(roots[j]) = {}
             /\ request.policy \in {"latestPatch", "latestFeature", "latestMinor", "latestMajor"} =>
                   \A version \in Fitting(sdk.root) : ~Below(sdk.version, version)
             /\ request.policy = "patch" /\ global.version \in Fitting(sdk.root) =>
                   sdk.version = global.version
             /\ \A pair \in Narrower :
                   request.policy = pair[2] /\ Taken(pair[1]) # NoSdk =>
                      IF pair[1] = "patch"
                      THEN SameFeatureBand(sdk.version, Taken("patch"))
                      ELSE sdk.version = Taken(pair[1])

\* The identifiers within a number of imports of one.
Within(graph, rid) ==
    LET Reached[n \in 0..Cardinality(DOMAIN graph)] ==
            IF n = 0
            THEN {rid}
            ELSE Reached[n - 1] \cup UNION {ToSet(graph[other]) : other \in Reached[n - 1] \cap DOMAIN graph}
    IN  Reached

\* The identifier of a pack is a supported one that fewest imports lead to; every
\* identifier imports lead to counts as compatible, once, and the nearer before the
\* farther.
RidFits(rid, graph, supported) ==
    LET within == Within(graph, world.requested)
        reached == within[Cardinality(DOMAIN graph)]
        Distance(other) == CHOOSE n \in DOMAIN within :
                              /\ other \in within[n]
                              /\ \A m \in 0..(n - 1) : other \notin within[m]
        compatible == CompatibleRids(graph, world.requested)
    IN  /\ ToSet(compatible) = reached /\ Len(compatible) = Cardinality(reached)
        /\ \A i, j \in DOMAIN compatible :
              i < j => Distance(compatible[i]) <= Distance(compatible[j])
        /\ \A other \in DOMAIN graph :
              AreCompatible(graph, world.requested, other) <=> other \in reached
        /\ IF rid = NoRid
           THEN reached \cap supported = {}
           ELSE /\ rid \in reached \cap supported
                /\ \A other \in reached \cap supported : Distance(rid) <= Distance(other)

\* What a command selects fits what it was asked for: the SDK, and the identifiers of
\* the packs (discover_sdks_in_roots; compile_compatibility_ranges and
\* select_pack_runtime_identifier).
SelectionFits ==
    \A chosen \in Selections :
       /\ SdkFits(chosen.sdk)
       /\ chosen.sdk # NoSdk =>
             LET bundled == world.catalog[chosen.sdk.version]
             IN  /\ RidFits(chosen.runtime, Loaded(bundled.graph), bundled.runtime)
                 /\ RidFits(chosen.host, Loaded(bundled.graph), bundled.host)

(***************************************************************************)
(* The configuration                                                       *)
(***************************************************************************)

\* Where the elements of all files are, and which of them come before which: the farthest
\* file is the first.
Words == UNION {{k} \X DOMAIN world.files[k] : k \in DOMAIN world.files}
Word(place) == world.files[place[1]][place[2]]
Sooner(left, right) == left[1] < right[1] \/ (left[1] = right[1] /\ left[2] < right[2])

\* The adds of a key, among some words, that no later one of them takes out of a section.
Said(words, section, key) ==
    {place \in words :
        /\ Word(place).section = section /\ Word(place).op = "add" /\ Word(place).key = key
        /\ \A later \in words :
              Sooner(place, later) /\ Word(later).section = section =>
                 /\ Word(later).op # "clear"
                 /\ Word(later).op = "remove" => Word(later).key # key}

Living(section) == {key \in {Word(place).key : place \in Words} : Said(Words, section, key) # {}}

Earliest(places) == CHOOSE first \in places : \A place \in places : ~Sooner(place, first)
Latest(places) == CHOOSE last \in places : \A place \in places : ~Sooner(last, place)

\* The file and the value of the last word on a key.
LastFile(section, key) == Latest(Said(Words, section, key))[1]
LastValue(section, key) == Word(Latest(Said(Words, section, key))).value

\* Whether a sequence is of these keys in an order.
Lists(sequence, keys, Ahead(_, _)) ==
    /\ ToSet(sequence) = keys /\ Len(sequence) = Cardinality(keys)
    /\ \A i, j \in DOMAIN sequence : i < j => Ahead(sequence[i], sequence[j])

Older(section, left, right) ==
    Sooner(Earliest(Said(Words, section, left)), Earliest(Said(Words, section, right)))

SourcesListed(sources) ==
    LET names == [i \in DOMAIN sources |-> sources[i].name]
    IN  /\ Lists(names, Living("sources") \ Living("disabled"),
                 LAMBDA left, right : Older("sources", left, right))
        /\ \A i \in DOMAIN names : sources[i].url = LastValue("sources", names[i])

MappingListed(mapping, names) ==
    mapping = {[source |-> IF key \in ToSet(names)
                           THEN CHOOSE i \in DOMAIN names : names[i] = key
                           ELSE 0,
                patterns |-> LastValue("mapping", key)] : key \in Living("mapping")}

\* The values of the command line, each where it comes first.
OverridesListed(urls) ==
    Lists(urls, ToSet(world.options.sources),
          LAMBDA left, right : \E i \in DOMAIN world.options.sources :
                                  /\ world.options.sources[i] = left
                                  /\ \A j \in 1..i : world.options.sources[j] # right)

Nearer(left, right) ==
    \/ LastFile("fallback", left) > LastFile("fallback", right)
    \/ /\ LastFile("fallback", left) = LastFile("fallback", right)
       /\ Older("fallback", left, right)

FallbackListed(folders) ==
    \E keys \in [DOMAIN folders -> Living("fallback")] :
       /\ Lists(keys, Living("fallback"), Nearer)
       /\ \A i \in DOMAIN folders : folders[i] = LastValue("fallback", keys[i])

ConfigFits(config) ==
    LET names == [i \in DOMAIN config.sources |-> config.sources[i].name]
    IN  /\ world.files # <<>> /\ world.options.sources = <<>> =>
              SourcesListed(config.sources) /\ MappingListed(config.mapping, names)
        /\ world.options.sources # <<>> =>
              OverridesListed([i \in DOMAIN config.sources |-> config.sources[i].url])
        /\ world.options.fallback = Unset => FallbackListed(config.fallback)
        /\ config.mode = "require" <=>
              /\ "signatureValidationMode" \in Living("config")
              /\ LastValue("config", "signatureValidationMode") = "require"

FolderFits(folder, config) ==
    \/ folder = config.root
    \/ /\ folder = Unset
       /\ world.options.sources # <<>> /\ world.files # <<>>
       /\ Living("sources") \subseteq Living("disabled")

\* The sources are those the last word on each adds and none disables, in the order in
\* which they came to be, each where the last word has it; the fallback folders are
\* those of the nearer files before the farther; a mapping is of the patterns the last
\* word gives it; and a command that plans looks for packs in the folder a restore puts
\* them in, unless it has no source but those the restore was told on its command line
\* (merge_config, ordered_fallback_paths, global_packages_directory).
ConfigurationMerged ==
    \A chosen \in Selections :
       chosen.config.valid => ConfigFits(chosen.config) /\ FolderFits(chosen.folder, chosen.config)
================================================================
