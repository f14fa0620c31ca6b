---------------------------- MODULE ProjectSelections ----------------------------
(***************************************************************************)
(* What the traversals and selections about projects should yield, stated  *)
(* without following them: paths instead of stacks of work, reachability   *)
(* instead of tables.                                                      *)
(***************************************************************************)
EXTENDS RuntimePacks

(***************************************************************************)
(* Sources                                                                 *)
(***************************************************************************)

\* The project whose sources are collected is the first root.
Directory == Front(world.roots[1])
ConfiguredOutputs == Outputs(world.tree, Canonical(world.tree.fs, world.roots[1]), Directory)
OutputsOnDisk ==
    LET fs == world.tree.fs
    IN  {IF Exists(fs, output) THEN [n \in DOMAIN output |-> OnDisk(fs, output[n])] ELSE output :
           output \in ConfiguredOutputs}
TreatmentOf(path) == Treatment(world.tree.fs, ConfiguredOutputs, Directory, path)

\* The entries of the directories so many names below the project's, by their spellings.
EntriesOf(directories) ==
    UNION {{Append(path, name) : name \in ToSet(Listing(world.tree.fs, path))} : path \in directories}
Entries ==
    LET Spelled[n \in 0..Cardinality(Directories(world.tree.fs))] ==
            EntriesOf(IF n = 0
                      THEN {Directory}
                      ELSE {path \in Spelled[n - 1] : TreatmentOf(path) \in {"directory", "link"}})
    IN  Spelled

\* The sources of a project are those of all spellings that lead to one, each once and
\* in one order, whatever the order in which directories list their entries; there is an
\* error exactly if a link leads out of the directory, nowhere, or back to where it is,
\* which it does if a way down has as many names as there are directories
\* (collect_sources and collect_linked_sources).  The case in which an output that is
\* there was spelled makes no difference where storage makes none (excludes_configured).
SourcesFit ==
    \E spelled \in {Entries} :
       LET Found(treatments) ==
               {path \in UNION {spelled[n] : n \in DOMAIN spelled} : TreatmentOf(path) \in treatments}
           endless == spelled[Cardinality(Directories(world.tree.fs))] # {}
           excluded == \E output \in ConfiguredOutputs : IsPrefix(output, Directory)
       IN  \A chosen \in Selections :
              LET sources == chosen.sources
              IN  /\ sources = CollectSources(world.tree.fs, OutputsOnDisk, Directory)
                  /\ CASE sources.error = "cycle" -> endless
                       [] sources.error \in {"escape", "broken"} -> Found({sources.error}) # {}
                       [] sources.error = "none" ->
                            /\ \A i, j \in DOMAIN sources.sources :
                                  i < j => Before(sources.sources[i], sources.sources[j])
                            /\ ~excluded =>
                                  /\ ~endless /\ Found({"escape", "broken"}) = {}
                                  /\ ToSet(sources.sources) = Found({"source"})

(***************************************************************************)
(* The closure of project references                                       *)
(***************************************************************************)

File(path) == Canonical(world.tree.fs, path)
SpelledFrom(project, reference) == AbsoluteLexical(Front(project) \o reference)

\* What a project refers to, in order.
ReferredBy(project) ==
    [i \in DOMAIN world.tree.references[File(project)] |->
        SpelledFrom(project, world.tree.references[File(project)][i])]

\* The spellings differ in more than the case of names: past what they share, one goes
\* through a link.
ThroughLink(left, right) ==
    LET fs == world.tree.fs
        shared == LongestCommonPrefix({left, right})
        Plain(path) ==
            Canonical(fs, path) = Canonical(fs, shared) \o
                [i \in 1..(Len(path) - Len(shared)) |->
                    LET name == path[Len(shared) + i]
                    IN  IF name \in DOMAIN fs.casing THEN fs.casing[name] ELSE name]
    IN  ~Plain(left) \/ ~Plain(right)

\* The first of the projects that refers to one, and where.
Referrers(projects, k) ==
    {at \in {<<j, i>> : j \in 1..(k - 1), i \in 1..2} :
        /\ at[2] \in DOMAIN ReferredBy(projects[at[1]])
        /\ ReferredBy(projects[at[1]])[at[2]] = projects[k]}
FirstReferrer(projects, k) ==
    CHOOSE at \in Referrers(projects, k) : \A other \in Referrers(projects, k) : ~Precedes(other, at)

\* A restore has each project once, the file and not the spelling deciding what one is;
\* it has all that its projects refer to, none that nothing refers to, and those of a
\* root before the next root, in the order in which they are referred to.  Unless a root
\* was given by it, no reference is a spelling that differs by a link from the one its
\* project has, and an error has its cause in a project that had been reached
\* (ProjectClosureBatch, expand_project_closure).
ClosureFits ==
    \A chosen \in Selections :
       LET projects == chosen.closure.projects
           error == chosen.closure.error
           named == ToSet(world.roots) \cup UNION {ToSet(ReferredBy(projects[i])) : i \in DOMAIN projects}
           files == {File(projects[i]) : i \in DOMAIN projects}
           IsRoot(k) == Referrers(projects, k) = {}
           Aliases == {alias \in (DOMAIN projects) \X named :
                          /\ File(projects[alias[1]]) = File(alias[2])
                          /\ ThroughLink(projects[alias[1]], alias[2])}
       IN  /\ Len(projects) = Cardinality(files)
           /\ \A k \in DOMAIN projects :
                 /\ IsRoot(k) => projects[k] \in ToSet(world.roots)
                 /\ IsRoot(k) =>
                       \A j \in 1..(k - 1) : \A i \in DOMAIN ReferredBy(projects[j]) :
                          \E m \in 1..(k - 1) : File(ReferredBy(projects[j])[i]) = File(projects[m])
                 /\ k > 1 /\ ~IsRoot(k) /\ ~IsRoot(k - 1) =>
                       Precedes(FirstReferrer(projects, k - 1), FirstReferrer(projects, k))
           /\ CASE error = "none" ->
                     /\ {File(path) : path \in named} = files
                     /\ \A alias \in Aliases : alias[2] \in ToSet(world.roots)
                [] error \in {"missing", "unidentified"} -> \E path \in named : File(path) \notin world.tree.fs.files
                [] error = "alias" -> Aliases # {}
                [] error = "escape" ->
                     \E path \in named, i \in DOMAIN projects :
                        /\ IsPrefix(Front(projects[i]), path)
                        /\ ~IsPrefix(File(Front(projects[i])), File(path))
                [] error = "sources" ->
                     \E path \in named : /\ File(path) \in world.tree.fs.files
                                         /\ ~Evaluates(world.tree, path)

(***************************************************************************)
(* Frameworks                                                              *)
(***************************************************************************)

\* From the narrower policy to the wider.
NarrowerRuntime == {<<"disable", "latestPatch">>, <<"latestPatch", "minor">>, <<"minor", "major">>}

\* The runtime satisfies the policy; it is a release if a release was asked for and any
\* will do; a "latest" policy takes the highest of those, and any other takes what the
\* next narrower one takes, if that is what it would look for: it moves on to another
\* band only when it must.
RuntimeFits(installed, row) ==
    LET policy == world.project.rollForward
        Fitting(wide) == {version \in installed : Satisfies(version, row.requested, wide)}
        releases == {version \in Fitting(policy) : version.release}
        pool == IF row.requested.release /\ releases # {} THEN releases ELSE Fitting(policy)
    IN  IF row.selected = NoSdk
        THEN Fitting(policy) = {}
        ELSE /\ row.selected \in pool
             /\ policy \in {"latestPatch", "latestMinor", "latestMajor"} =>
                   \A version \in pool : ~Below(row.selected, version)
             /\ policy \in {"minor", "major"} =>
                   \A version \in pool :
                      /\ ~Precedes(RuntimeBand(version), RuntimeBand(row.selected))
                      /\ RuntimeBand(version) = RuntimeBand(row.selected) => ~Below(row.selected, version)
             /\ \A pair \in NarrowerRuntime :
                   LET taken == SelectInstalledRuntime(installed, row.requested, pair[1])
                   IN  policy = pair[2] /\ pair[1] # "disable" /\ taken # NoSdk
                          /\ (taken.release \/ ~row.requested.release) =>
                             row.selected = taken

\* A plan has the core framework once and first and every framework the project refers
\* to, with a runtime that fits unless the project brings its own; and what a restore
\* prunes are the frameworks the plan has, as far as pruning knows them.
PlanFits(rows) ==
    LET pruned == PruningFrameworkBatch(world.project, world.definitions)
        shared == world.frameworks.shared
    IN  /\ rows[1].name = Core
        /\ {rows[i].name : i \in DOMAIN rows} =
              {Core} \cup {reference.name : reference \in ToSet(world.project.references)}
        /\ Len(rows) = Cardinality({rows[i].name : i \in DOMAIN rows})
        /\ \A i \in DOMAIN rows :
              IF world.project.selfContained
              THEN rows[i].selected = NoSdk
              ELSE rows[i].selected # NoSdk /\ RuntimeFits(shared[rows[i].runtimeName], rows[i])
        /\ world.project.family \in {"net", "netcoreapp"} =>
              /\ pruned.error = "none"
              /\ pruned.batch = Prunable \cap {rows[i].runtimeName : i \in DOMAIN rows}

\* The frameworks of every plan without an error fit what the project refers to and what
\* is installed, and a restore prunes those of the plan (plan_project,
\* select_installed_runtime; pruning_framework_batch, which maps the references again).
FrameworksFit ==
    \A chosen \in Selections :
       chosen.frameworks.error = "none" => PlanFits(chosen.frameworks.rows)
================================================================================
