--------------------------- MODULE FrameworkReferences ---------------------------
(***************************************************************************)
(* The frameworks a project runs on and is compiled against                *)
(* (framework_reference.rs), and those whose packages it need not restore  *)
(* (package.rs, pruning_framework_batch).  Versions are those of           *)
(* SdkSelection: both orders compare their four numbers.                   *)
(***************************************************************************)
EXTENDS SdkSelection, FiniteSets

CONSTANTS
    Core,           \* "Microsoft.NETCore.App"
    Prunable,       \* the frameworks pruning knows: Core and the two that extend it
    Standard        \* what pruning takes for a .NET Standard project

ASSUME PrunableAssumption == Core \in Prunable /\ IsFiniteSet(Prunable) /\ Cardinality(Prunable) <= 3

RuntimePolicies == {"disable", "latestPatch", "minor", "latestMinor", "major", "latestMajor"}

\* Versions of the band a request is in, and above it.
RuntimeBand(version) == <<version.major, version.minor>>

Satisfies(version, requested, policy) ==
    CASE policy = "disable" -> version = requested
      [] policy = "latestPatch" -> SameMinor(version, requested) /\ AtLeast(version, requested)
      [] policy \in {"minor", "latestMinor"} -> SameMajor(version, requested) /\ AtLeast(version, requested)
      [] policy \in {"major", "latestMajor"} -> AtLeast(version, requested)

SelectByPolicy(installed, requested, policy, stableOnly) ==
    LET eligible == {version \in installed : /\ Satisfies(version, requested, policy)
                                             /\ stableOnly => version.release}
    IN  IF policy \in {"minor", "major"}
        THEN SelectNearestGroup(eligible, RuntimeBand)
        ELSE Highest(eligible)

\* The mutant's bug: a prerelease competes with the releases.
SelectInstalledRuntime_Mixed(installed, requested, policy) ==
    SelectByPolicy(installed, requested, policy, FALSE)

\* Releases for a release, and prereleases only where no release will do.
SelectInstalledRuntime(installed, requested, policy) ==
    LET stable == SelectByPolicy(installed, requested, policy, TRUE)
    IN  IF requested.release /\ stable # NoSdk
        THEN stable
        ELSE SelectByPolicy(installed, requested, policy, FALSE)

\* A reference of a project is [name, runtime, pack, latest]: its versions, or none, and
\* what it says of the latest patch ("yes", "no" or nothing).  No two have one name.
Implicit == [name |-> Core, runtime |-> NoVersion, pack |-> NoVersion, latest |-> "unset"]
IsCore(reference) == reference.name = Core

\* The core framework first, as the project refers to it if it does.
RequestedFrameworks(project) ==
    LET core == SelectInSeq(project.references, IsCore)
    IN  IF core = 0
        THEN <<Implicit>> \o project.references
        ELSE <<project.references[core]>> \o RemoveAt(project.references, core)

\* definition: what the manifest of the SDK says of a framework for the project's target.
RequestedRuntimeVersion(project, reference, definition) ==
    CASE reference.runtime # NoVersion -> reference.runtime
      [] reference.runtime = NoVersion /\ project.runtime # NoVersion -> project.runtime
      [] reference.runtime = NoVersion /\ project.runtime = NoVersion ->
           IF reference.latest = "yes" \/ (reference.latest = "unset" /\ project.latest = "yes")
           THEN definition.latest
           ELSE definition.default

\* installed: the shared frameworks of the SDK's root by name, and the targeting packs
\* there and in the package folder.
LocateTargetingPack(installed, pack, version) ==
    CASE <<pack, version>> \in installed.packs -> "installed"
      [] <<pack, version>> \in installed.cached \ installed.packs -> "cached"
      [] <<pack, version>> \notin installed.cached \cup installed.packs -> "none"

\* A row of the plan, or the error that ends it.
PlanFramework(project, definitions, installed, reference) ==
    LET definition == definitions[reference.name]
        requested == RequestedRuntimeVersion(project, reference, definition)
        packVersion == IF reference.pack # NoVersion THEN reference.pack ELSE definition.packVersion
        pack == LocateTargetingPack(installed, definition.pack, packVersion)
        selected == SelectInstalledRuntime(installed.shared[definition.runtimeName], requested,
                                           project.rollForward)
        Row(version) == [name |-> reference.name, runtimeName |-> definition.runtimeName,
                         requested |-> requested, selected |-> version, pack |-> pack, error |-> "none"]
    IN  CASE reference.name \notin DOMAIN definitions -> [error |-> "unknown"]
          [] OTHER ->
             CASE pack = "none" -> [error |-> "pack"]
               [] pack # "none" /\ project.selfContained -> Row(NoSdk)
               [] pack # "none" /\ ~project.selfContained ->
                    IF selected = NoSdk THEN [error |-> "runtime"] ELSE Row(selected)

PlanFrameworks(project, definitions, installed) ==
    LET requested == RequestedFrameworks(project)
        rows == [i \in DOMAIN requested |-> PlanFramework(project, definitions, installed, requested[i])]
        failing == {i \in DOMAIN rows : rows[i].error # "none"}
    IN  IF failing = {}
        THEN [rows |-> rows, error |-> "none"]
        ELSE [rows |-> <<>>, error |-> rows[CHOOSE i \in failing : \A j \in failing : i <= j].error]

\* The core framework where the project does not refer to it only if the family has it.
PackagePruningRequestedFrameworks(project) ==
    ToSet(IF project.family \in {"net", "netcoreapp"}
          THEN RequestedFrameworks(project)
          ELSE project.references)

PackagePruningRuntimeNames(project, definitions) ==
    LET requested == PackagePruningRequestedFrameworks(project)
    IN  IF \A reference \in requested : reference.name \in DOMAIN definitions
        THEN [error |-> "none", names |-> {definitions[reference.name].runtimeName : reference \in requested}]
        ELSE [error |-> "unknown"]

\* A batch has room for three; one more ends the process.
Kept(batch) == IF Cardinality(batch) <= 3
               THEN [error |-> "none", batch |-> batch]
               ELSE [error |-> "full", batch |-> {}]

\* The manifest is read only if a reference is not itself a framework pruning knows.
PruningFrameworkBatch(project, definitions) ==
    LET family == IF project.family = "netstandard" THEN {Standard} ELSE {Core}
        names == {reference.name : reference \in ToSet(project.references)}
        mapped == PackagePruningRuntimeNames(project, definitions)
    IN  CASE project.family = "netframework" -> [error |-> "none", batch |-> {}]
          [] project.family # "netframework" /\ names \subseteq Prunable ->
               Kept(family \cup names)
          [] OTHER ->
               IF mapped.error = "none"
               THEN Kept(family \cup ((names \cup mapped.names) \cap Prunable))
               ELSE mapped
================================================================
