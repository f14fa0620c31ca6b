------------------------------ MODULE SdkSelection ------------------------------
(***************************************************************************)
(* Which installed SDK a command uses (sdk.rs, discover_sdks_in_roots):    *)
(* the first root that has a compatible one, by the version and the roll-  *)
(* forward policy of global.json.                                          *)
(***************************************************************************)
EXTENDS Integers, Sequences, SequencesExt

CONSTANTS HostRoot, NoVersion, NoSdk     \* "$host$"; no version, no SDK

\* release is FALSE of a prerelease.
Versions == [major : Nat, minor : Nat, patch : Nat, release : BOOLEAN]

ASSUME VersionsAssumption == {NoSdk, NoVersion} \cap Versions = {}

RollForwardPolicies == {"disable", "patch", "latestPatch", "feature", "latestFeature", "minor",
                        "latestMinor", "major", "latestMajor"}

FeatureBand(version) == version.patch \div 100

Precedes(left, right) ==
    \E i \in DOMAIN left : left[i] < right[i] /\ \A j \in 1..(i - 1) : left[j] = right[j]

Order(version) == <<version.major, version.minor, version.patch, IF version.release THEN 1 ELSE 0>>
Below(left, right) == Precedes(Order(left), Order(right))

AtLeast(version, requested) == ~Below(version, requested)

SameMajor(version, requested) == version.major = requested.major
SameMinor(version, requested) == SameMajor(version, requested) /\ version.minor = requested.minor
SameFeatureBand(version, requested) ==
    SameMinor(version, requested) /\ FeatureBand(version) = FeatureBand(requested)

Highest(versions) ==
    IF versions = {}
    THEN NoSdk
    ELSE CHOOSE version \in versions : \A other \in versions : ~Below(version, other)

\* The highest version of the lowest group there is.
SelectNearestGroup(versions, Group(_)) ==
    Highest({version \in versions : \A other \in versions : ~Precedes(Group(other), Group(version))})

\* The mutant's bug: the minor policy takes the feature bands of all minors together.
MinorGroup_ByBand(version) == <<FeatureBand(version)>>

FeatureGroup(version) == <<FeatureBand(version)>>
MinorGroup(version) == <<version.minor, FeatureBand(version)>>
MajorGroup(version) == <<version.major, version.minor, FeatureBand(version)>>

\* request: the version and the policy of global.json, or none, and allowPrerelease.
SelectFromRoot(installed, request) ==
    LET requested == request.version
        candidates == {version \in installed : request.prerelease \/ version.release}
        Higher(Same(_, _)) == {version \in candidates : /\ AtLeast(version, requested)
                                                        /\ Same(version, requested)}
        policy == request.policy
    IN  CASE requested = NoVersion -> Highest(candidates)
          [] requested # NoVersion /\ policy = "disable" -> Highest(candidates \cap {requested})
          [] requested # NoVersion /\ policy = "patch" ->
               IF requested \in candidates THEN requested ELSE Highest(Higher(SameFeatureBand))
          [] requested # NoVersion /\ policy = "latestPatch" -> Highest(Higher(SameFeatureBand))
          [] requested # NoVersion /\ policy = "latestFeature" -> Highest(Higher(SameMinor))
          [] requested # NoVersion /\ policy = "latestMinor" -> Highest(Higher(SameMajor))
          [] requested # NoVersion /\ policy = "latestMajor" -> Highest(Higher(LAMBDA v, r : TRUE))
          [] requested # NoVersion /\ policy = "feature" ->
               SelectNearestGroup(Higher(SameMinor), FeatureGroup)
          [] requested # NoVersion /\ policy = "minor" ->
               SelectNearestGroup(Higher(SameMajor), MinorGroup)
          [] requested # NoVersion /\ policy = "major" ->
               SelectNearestGroup(Higher(LAMBDA v, r : TRUE), MajorGroup)

\* Without a policy: patch for a version, the latest of all without one.  Any other
\* policy needs a version.
Policy(global) ==
    CASE global.policy # "none" -> global.policy
      [] global.policy = "none" /\ global.version # NoVersion -> "patch"
      [] global.policy = "none" /\ global.version = NoVersion -> "latestMajor"

\* The paths of global.json, with the first host root for "$host$", each once; without
\* a list of them, the host roots.
SearchRoots(global, hosts) ==
    LET Resolved(path) == IF path = HostRoot THEN hosts[1] ELSE path
        Taken(roots, path) == IF Contains(roots, Resolved(path))
                              THEN roots
                              ELSE Append(roots, Resolved(path))
    IN  IF ~global.listed THEN hosts ELSE FoldLeft(Taken, <<>>, global.paths)

\* The root and the version, or NoSdk for an error.  installed: the versions per root.
SelectSdk(global, hosts, installed) ==
    LET roots == SearchRoots(global, hosts)
        request == [version |-> global.version, policy |-> Policy(global),
                    prerelease |-> global.prerelease]
        having == {i \in DOMAIN roots : SelectFromRoot(installed[roots[i]], request) # NoSdk}
        first == CHOOSE i \in having : \A j \in having : i <= j
    IN  IF \/ global.version = NoVersion /\ Policy(global) # "latestMajor"
           \/ Contains(global.paths, HostRoot) /\ hosts = <<>>
           \/ having = {}
        THEN NoSdk
        ELSE [root |-> roots[first], version |-> SelectFromRoot(installed[roots[first]], request)]
=============================================================================
