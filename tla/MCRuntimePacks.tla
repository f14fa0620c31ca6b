---------------------------- MODULE MCRuntimePacks ----------------------------
(***************************************************************************)
(* The circumstances in which TLC explores RuntimePacks.                   *)
(***************************************************************************)
EXTENDS ProjectSelections

\* Places: two dotnet roots, the default folder and another.
MCFolders == {"packages", "elsewhere"}
MCRoots == {<<"dotnet", "runtime", "linux-x64">>, <<"packages", "runtime", "linux-x64">>,
            <<"packages", "host", "linux">>, <<"elsewhere", "host", "linux">>}

Pack(present, whole, name) == [stamp |-> 0, present |-> present, whole |-> whole, name |-> name]
There == Pack(TRUE, TRUE, "apphost")
Gone == Pack(FALSE, FALSE, "apphost")
Damaged == Pack(TRUE, FALSE, "apphost")

Version(major, minor, patch, release) ==
    [major |-> major, minor |-> minor, patch |-> patch, release |-> release]
Basic == Version(8, 0, 100, TRUE)

Global(version, policy, prerelease) ==
    [version |-> version, policy |-> policy, prerelease |-> prerelease,
     listed |-> FALSE, paths |-> <<>>]
Plain == Global(NoVersion, "none", TRUE)
Options == [sources |-> <<>>, packages |-> Unset, folder |-> Unset, fallback |-> Unset]

Portable == [rid \in {"linux-x64", "linux"} |-> IF rid = "linux-x64" THEN <<"linux">> ELSE <<>>]
Bundled(graph, runtimes, hosts) == [graph |-> graph, runtime |-> runtimes, host |-> hosts]
Usual == Bundled(Portable, {"linux-x64"}, {"linux"})

\* One project with one source.
Tree(files, links, order) ==
    [fs |-> [files |-> files, links |-> links, casing |-> <<>>, order |-> order],
     references |-> [path \in {<<"a", "p">>} |-> <<>>], outputs |-> [path \in {<<"a", "p">>} |-> {}]]
Small == Tree({<<"a", "p">>, <<"a", "cs">>}, <<>>, <<"p", "cs">>)

Framework(runtimeName) ==
    [runtimeName |-> runtimeName, default |-> Version(8, 0, 0, TRUE), latest |-> Version(8, 0, 5, TRUE),
     pack |-> runtimeName, packVersion |-> Basic]
Definitions == [name \in {"core", "web", "wpf", "winforms"} |->
                   Framework(IF name \in {"wpf", "winforms"} THEN "desktop" ELSE name)]
Simple == [family |-> "net", references |-> <<>>, runtime |-> NoVersion, latest |-> "unset",
           rollForward |-> "minor", selfContained |-> FALSE]
Shared(versions) ==
    [shared |-> [name \in {"core", "web", "desktop"} |-> versions],
     packs |-> {<<"core", Basic>>, <<"web", Basic>>}, cached |-> {<<"desktop", Basic>>}]

\* One SDK and the packs of it: the base of the other circumstances.
Base == [global |-> Plain, hosts |-> <<"dotnet">>,
         installed |-> [root \in {"dotnet", "preview"} |-> IF root = "dotnet" THEN {Basic} ELSE {}],
         catalog |-> (Basic :> Usual), requested |-> "linux-x64",
         files |-> <<>>, options |-> Options, tree |-> Small, roots |-> <<<<"a", "p">>>>,
         project |-> Simple, definitions |-> Definitions, frameworks |-> Shared({Basic}),
         packs |-> [root \in Roots |-> Gone], repairs |-> {}, crashes |-> FALSE,
         commands |-> 1]

(***************************************************************************)
(* The selection of an SDK                                                 *)
(***************************************************************************)
Installable == {Basic, Version(8, 0, 105, TRUE), Version(8, 0, 200, TRUE), Version(8, 0, 205, FALSE),
                Version(8, 1, 100, TRUE), Version(9, 0, 100, FALSE)}
Requestable == {NoVersion, Basic, Version(8, 0, 103, TRUE), Version(8, 0, 105, FALSE)}
Policies == {"none", "disable", "patch", "latestPatch", "feature", "latestFeature", "minor",
             "latestMinor", "major", "latestMajor"}
Selecting(global, hosts, here, there) ==
    [Base EXCEPT !.global = global, !.hosts = hosts,
                 !.catalog = [version \in Installable |-> Usual],
                 !.installed = [root \in {"dotnet", "preview"} |->
                                   IF root = "dotnet" THEN here ELSE there]]
Sdks == {Selecting(Global(version, policy, prerelease), <<"dotnet">>, here, {}) :
            version \in Requestable, policy \in Policies, prerelease \in BOOLEAN,
            here \in SUBSET Installable}
Listed(policy, paths) == [Global(Version(8, 0, 103, TRUE), policy, TRUE)
                             EXCEPT !.listed = TRUE, !.paths = paths]
SdkRoots == {Selecting(Listed(policy, paths), hosts, here, there) :
                policy \in {"patch", "minor"},
                paths \in {<<>>, <<HostRoot>>, <<"preview", HostRoot>>, <<HostRoot, "dotnet", "preview">>},
                hosts \in {<<>>, <<"dotnet">>, <<"preview", "dotnet">>},
                here, there \in {{}, {Basic}, {Version(8, 0, 105, TRUE)}, {Version(8, 1, 100, TRUE)}}}

(***************************************************************************)
(* Graphs of identifiers                                                   *)
(***************************************************************************)
Rids == {"linux-x64", "linux", "unix", "any"}
ImportsOf(rid) == {imports \in UNION {[1..n -> Rids] : n \in 0..2} :
                      /\ \A i \in DOMAIN imports : imports[i] # rid
                      /\ IsInjective(imports)}
Documents == {[rid \in {"linux-x64", "linux", "unix"} |-> lists[rid]] :
                 lists \in {choices \in [{"linux-x64", "linux", "unix"} -> UNION {ImportsOf(rid) : rid \in Rids}] :
                               \A rid \in DOMAIN choices : choices[rid] \in ImportsOf(rid)}}
Graphs == {[Base EXCEPT !.requested = requested,
                        !.catalog = (Basic :> Bundled(document, runtimes, {"any"}))] :
              requested \in {"linux-x64", "beos"}, document \in Documents,
              runtimes \in {{"linux", "any"}, {"any", "unix"}}}

(***************************************************************************)
(* Configuration files                                                     *)
(***************************************************************************)
Words2 == {Element("sources", "add", "a", "feed 1"), Element("sources", "add", "a", "feed 2"),
           Element("sources", "add", "b", "feed 3"), Element("sources", "remove", "a", Unset),
           Element("sources", "clear", Unset, Unset), Element("disabled", "add", "a", "true"),
           Element("disabled", "clear", Unset, Unset),
           Element("mapping", "add", "a", {"x"}), Element("mapping", "add", "a", {"x", "y"}),
           Element("mapping", "remove", "a", Unset)}
Words3 == {Element("fallback", "add", "a", "near"), Element("fallback", "add", "a", "nearer"),
           Element("fallback", "add", "b", "far"), Element("fallback", "remove", "a", Unset),
           Element("fallback", "clear", Unset, Unset),
           Element("config", "add", "globalPackagesFolder", "elsewhere"),
           Element("config", "remove", "globalPackagesFolder", Unset),
           Element("config", "add", "signatureValidationMode", "require"),
           Element("config", "add", "signatureValidationMode", "accept"),
           Element("config", "clear", Unset, Unset)}
FilesOf(words, length) == UNION {[1..n -> words] : n \in 0..length}
Shipped == <<Element("sources", "add", "b", "feed 3"), Element("sources", "add", "c", "feed 4")>>
Sourced == {[Base EXCEPT !.files = <<Shipped, far, near>>] :
               far \in FilesOf(Words2, 1), near \in FilesOf(Words2, 2)}
Foldered == {[Base EXCEPT !.files = <<Shipped \o far, near>>] :
                far \in FilesOf(Words3, 1), near \in FilesOf(Words3, 2)}
Optional == {[Base EXCEPT !.files = files, !.options = [sources |-> sources, packages |-> packages,
                                                        folder |-> folder, fallback |-> fallback]] :
                files \in {<<>>, <<Shipped>>, <<Shipped, <<Element("sources", "add", "d", "feed 3")>>>>,
                           <<Shipped, <<Element("credentials", "remove", "c", Unset)>>>>,
                           <<Shipped, <<Element("mapping", "add", "c", {})>>>>,
                           <<Shipped, <<Element("disabled", "add", "b", "true"),
                                        Element("disabled", "add", "c", "false")>>>>,
                           <<Shipped, <<Element("fallback", "add", "a", "near")>>>>},
                sources \in {<<>>, <<"feed 3", "feed 9", "feed 3">>, <<"feed 4", "feed 3">>},
                packages, folder \in {Unset, "elsewhere", "packages"},
                fallback \in {Unset, <<"other">>}}

(***************************************************************************)
(* Sources: the project's directory, two below it and one that only holds  *)
(* output, each with a source; and links that lead to any of these, to a   *)
(* source, to the next project's directory and nowhere.                    *)
(***************************************************************************)
Targets == {<<"a">>, <<"a", "b">>, <<"a", "b", "c">>, <<"a", "b", "obj">>, <<"a", "b", "c", "cs">>,
            <<"d">>, <<"e">>}
LinkPlaces == {<<"a", "l">>, <<"a", "b", "l">>, <<"a", "b", "c", "l">>, <<"a", "b", "obj", "cs">>}
SourceFiles == {<<"a", "p">>, <<"a", "cs">>, <<"a", "b", "cs">>, <<"a", "b", "c", "cs">>,
                <<"a", "b", "obj", "l", "cs">>, <<"d", "p">>}
Orders == {<<"b", "c", "d", "l", "obj", "cs", "p">>, <<"l", "p", "cs", "obj", "c", "b", "d">>}
CasedOrders == {<<"B">> \o order : order \in Orders}
Linked == {[Base EXCEPT !.tree = Tree(SourceFiles, links, order)] :
              links \in UNION {[places -> Targets] : places \in kSubset(3, LinkPlaces)},
              order \in Orders}
Built == {[Base EXCEPT !.tree = [Tree(SourceFiles, links, order)
                                    EXCEPT !.outputs = (<<"a", "p">> :> {output})]] :
             links \in UNION {[places -> Targets] : places \in kSubset(2, LinkPlaces)},
             order \in Orders, output \in {<<"b", "c">>, <<>>}}

\* The output is spelled in another case than on disk, on storage that tells cases
\* apart, where both may be there, and on storage that does not.
Storages == {[files |-> SourceFiles, casing |-> "B" :> "b"], [files |-> SourceFiles, casing |-> <<>>],
             [files |-> SourceFiles \cup {<<"a", "B", "c", "cs">>}, casing |-> <<>>]}
Cased == {[Base EXCEPT !.tree = [Tree(storage.files, place :> target, order)
                                    EXCEPT !.fs.casing = storage.casing,
                                           !.outputs = (<<"a", "p">> :> {output})]] :
             storage \in Storages, place \in LinkPlaces, order \in CasedOrders,
             target \in Targets \cup {<<"a", "B", "c">>}, output \in {<<"B">>, <<"B", "c">>}}

(***************************************************************************)
(* References of projects                                                  *)
(***************************************************************************)
To(directory) == <<Up, directory, "p">>
Referred == {<<>>, <<To("b")>>, <<To("c")>>, <<To("l")>>, <<To("b"), To("l")>>, <<To("B"), To("c")>>,
             <<<<"l", "p">>>>, <<To("l"), To("a")>>, <<To("x")>>,
             <<<<"l", Up, "b", "p">>>>}
Projects == {<<"a", "p">>, <<"b", "p">>, <<"c", "p">>}
Trees == {[fs |-> [files |-> Projects, links |-> links, casing |-> ("B" :> "b"),
                   order |-> <<"a", "b", "c", "l", "p">>],
           references |-> (<<"a", "p">> :> first @@ <<"b", "p">> :> second @@ <<"c", "p">> :> third),
           outputs |-> [path \in Projects |-> {<<"l">>}]] :
             links \in {<<>>, <<"l">> :> <<"b">>, <<"l">> :> <<"a">>, <<"a", "l">> :> <<"c">>},
             first, second \in Referred, third \in {<<>>, <<To("l"), To("a")>>}}
RootLists == {<<<<"a", "p">>>>, <<<<"b", "p">>, <<"a", "p">>, <<"b", "p">>>>,
              <<<<"c", "p">>, <<"l", "p">>, <<"a", "p">>>>}
Closures == {[Base EXCEPT !.tree = tree, !.roots = roots] : tree \in Trees, roots \in RootLists}

(***************************************************************************)
(* Frameworks                                                              *)
(***************************************************************************)
Runtimes == {Version(8, 0, 0, TRUE), Version(8, 0, 5, TRUE), Version(8, 0, 6, FALSE), Version(8, 1, 0, FALSE),
             Version(8, 2, 1, TRUE), Version(9, 0, 0, TRUE)}
RollForwards == {"disable", "latestPatch", "minor", "latestMinor", "major", "latestMajor"}
Reference(name, runtime, latest) ==
    [name |-> name, runtime |-> runtime, pack |-> NoVersion, latest |-> latest]
Running == {[Base EXCEPT !.project = [Simple EXCEPT !.runtime = requested, !.rollForward = policy],
                         !.frameworks = Shared(installed)] :
               requested \in {NoVersion, Version(8, 0, 3, TRUE), Version(8, 1, 0, FALSE)},
               policy \in RollForwards, installed \in SUBSET Runtimes}
Core2 == Reference("core", Version(8, 0, 5, TRUE), "no")
Desktop == Reference("wpf", NoVersion, "yes")
References2 == {<<>>, <<Core2>>, <<Desktop, Core2>>, <<Desktop, Reference("winforms", NoVersion, "no")>>,
                <<Reference("web", NoVersion, "unset"), Desktop>>, <<Reference("web", NoVersion, "unset")>>,
                <<Reference("web", NoVersion, "no"), Desktop, Core2>>, <<Reference("other", NoVersion, "unset")>>,
                <<[Core2 EXCEPT !.pack = Version(9, 9, 9, TRUE)]>>}
Referring == {[Base EXCEPT !.project = [Simple EXCEPT !.family = family, !.references = references,
                                           !.latest = latest, !.selfContained = contained],
                           !.frameworks = Shared({Version(8, 0, 0, TRUE), Version(8, 0, 5, TRUE)})] :
                 family \in {"net", "netcoreapp", "netstandard", "netframework"},
                 references \in References2, latest \in {"unset", "yes", "no"}, contained \in BOOLEAN}

(***************************************************************************)
(* Packs                                                                   *)
(***************************************************************************)
State(present, whole, name) == [present |-> present, whole |-> whole, name |-> name]
Elsewhere == <<<<Element("sources", "add", "a", "feed 1"),
                 Element("config", "add", "globalPackagesFolder", "elsewhere")>>>>
Restored == [Base EXCEPT
                !.packs = [root \in Roots |-> IF root[1] = "dotnet" THEN Gone ELSE There],
                !.crashes = TRUE, !.commands = 2]

\* A pack is repaired or renamed, becomes damaged, goes, or comes to be in the root that
\* is looked at first.
Repaired == [Restored EXCEPT
    !.repairs = {<<<<"packages", "runtime", "linux-x64">>, State(TRUE, TRUE, "apphost")>>,
                 <<<<"packages", "host", "linux">>, State(TRUE, TRUE, "apphost")>>}]
Removed == [Restored EXCEPT
    !.packs[<<"packages", "host", "linux">>] = Damaged,
    !.repairs = {<<<<"packages", "runtime", "linux-x64">>, State(FALSE, FALSE, "apphost")>>,
                 <<<<"dotnet", "runtime", "linux-x64">>, State(TRUE, TRUE, "apphost")>>,
                 <<<<"packages", "host", "linux">>, State(TRUE, TRUE, "apphost.exe")>>}]
Other == [Restored EXCEPT
    !.files = Elsewhere,
    !.packs[<<"dotnet", "runtime", "linux-x64">>] = There,
    !.repairs = {<<<<"elsewhere", "host", "linux">>, State(FALSE, FALSE, "apphost")>>,
                 <<<<"elsewhere", "host", "linux">>, State(TRUE, FALSE, "apphost")>>}]

MCSymmetry == Permutations(Calls)

Inventoried == {Repaired, Removed, Other}

MCWorlds == {Sdks, SdkRoots, Graphs, Sourced, Foldered, Optional, Linked, Built, Cased, Closures, Running,
             Referring, Inventoried}

\* The names of files and directories.
MCLowerCase == "B" :> "b"
MCAlphabet == <<"B", "a", "b", "c", "cs", "d", "l", "obj", "p">>
MCSourceNames == {"cs"}
MCOutputNames == {"obj"}
MCPrunable == {"core", "web", "desktop"}
=============================================================================
