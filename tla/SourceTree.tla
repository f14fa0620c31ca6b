------------------------------ MODULE SourceTree ------------------------------
(***************************************************************************)
(* The C# sources below the directory of a project (project.rs,            *)
(* collect_sources and collect_linked_sources): links within the directory *)
(* are followed, each source is listed under every name that leads to it,  *)
(* and a link that leads back to where the traversal came from, out of the *)
(* directory, or nowhere, is an error.                                     *)
(***************************************************************************)
EXTENDS FileSystem

CONSTANTS
    Alphabet,       \* all names, in their order
    SourceNames,    \* the names of files that end in .cs
    OutputNames     \* "bin", "obj" and the names that start with a dot

HasCaseVariantPrefix(path, prefix) ==
    /\ Len(prefix) <= Len(path)
    /\ \A n \in DOMAIN prefix : Lowered(path[n]) = Lowered(prefix[n])

\* outputs: the directories the project configures for its output.  Where one differs
\* from the path by its case only, what both lead to decides; a path that leads nowhere
\* is an error later at the latest.
ExcludesConfigured(fs, outputs, path) ==
    \E output \in outputs :
       \/ IsPrefix(output, path)
       \/ /\ HasCaseVariantPrefix(path, output)
          /\ Exists(fs, output) /\ Exists(fs, path)
          /\ IsPrefix(Canonical(fs, output), Canonical(fs, path))

Excludes(fs, outputs, path) ==
    Last(path) \in OutputNames \/ ExcludesConfigured(fs, outputs, path)

\* What a traversal of the project in root does with an entry.  A file that is no link is
\* not excluded by its path.
Handling(linked, directory, file, excluded, source, within) ==
    IF excluded /\ (linked \/ directory)
    THEN "none"
    ELSE CASE directory -> IF ~linked THEN "directory" ELSE IF within THEN "link" ELSE "escape"
           [] file /\ source -> IF linked /\ ~within THEN "escape" ELSE "source"
           [] file /\ ~source -> "none"
           [] ~directory /\ ~file -> "broken"

Treatment(fs, outputs, root, path) ==
    Handling(IsLink(fs, path), IsDirectory(fs, path), IsFile(fs, path),
             Excludes(fs, outputs, path), Last(path) \in SourceNames,
             IsPrefix(Canonical(fs, root), Canonical(fs, path)))

\* A traversal: the work left, the last item first; the sources found; the error.
Visit(logical, physical) == [leave |-> FALSE, logical |-> logical, physical |-> physical]
Leave == [leave |-> TRUE]

Paths == Seq(STRING)
Traversals == [work : Seq([leave : {FALSE}, logical : Paths, physical : Paths] \cup {Leave}),
               sources : Seq(Paths),
               error : {"none", "escape", "broken", "cycle"}]

Handled(fs, traversal, path, treatment) ==
    CASE treatment = "none" -> traversal
      [] treatment \in {"directory", "link"} ->
           [traversal EXCEPT !.work = Append(@, Visit(path, Canonical(fs, path)))]
      [] treatment = "source" -> [traversal EXCEPT !.sources = Append(@, path)]
      [] treatment \in {"escape", "broken"} -> [traversal EXCEPT !.error = treatment]

TakeLinked(fs, outputs, root, traversal, path) ==
    IF traversal.error = "none"
    THEN Handled(fs, traversal, path, Treatment(fs, outputs, root, path))
    ELSE traversal

\* The mutant's bug: a directory that has been left still counts as one on the way.
Left_Staying(active) == active

\* active: the directories on the way to where the traversal is.
Left(active) == Front(active)

LinkedSources(fs, outputs, root, start, on_the_way) ==
    LET Linked[traversal \in Traversals, active \in Seq(Paths)] ==
            LET item == Last(traversal.work)
                rest == [traversal EXCEPT !.work = Front(@)]
                entries == Listing(fs, item.logical)
                entered == FoldLeft(LAMBDA so_far, name :
                                        TakeLinked(fs, outputs, root, so_far, Append(item.logical, name)),
                                    [rest EXCEPT !.work = Append(@, Leave)], entries)
            IN  CASE traversal.error # "none" \/ traversal.work = <<>> -> traversal
                  [] OTHER ->
                       IF item.leave
                       THEN Linked[rest, Left(active)]
                       ELSE IF Contains(active, item.physical)
                            THEN [traversal EXCEPT !.error = "cycle"]
                            ELSE Linked[entered, Append(active, item.physical)]
    IN  Linked[start, on_the_way]

\* The directories from the root to the one that has the link; up to there nothing is.
Ancestry(fs, root, link) ==
    LET physical == Canonical(fs, root)
        below == SubSeq(link, Len(root) + 1, Len(link) - 1)
    IN  [n \in 1..(Len(below) + 1) |-> physical \o SubSeq(below, 1, n - 1)]

\* collect_sources: a link is followed to its end before the next entry.
LinkFollowed(fs, outputs, root, traversal, path) ==
    [LinkedSources(fs, outputs, root,
                   [traversal EXCEPT !.work = <<Visit(path, Canonical(fs, path))>>],
                   Ancestry(fs, root, path))
        EXCEPT !.work = traversal.work]

HandledFirst(fs, outputs, root, traversal, path, treatment) ==
    IF treatment = "link"
    THEN LinkFollowed(fs, outputs, root, traversal, path)
    ELSE Handled(fs, traversal, path, treatment)

Take(fs, outputs, root, traversal, path) ==
    IF traversal.error = "none"
    THEN HandledFirst(fs, outputs, root, traversal, path, Treatment(fs, outputs, root, path))
    ELSE traversal

Traversed(fs, outputs, root, start) ==
    LET Walked[traversal \in Traversals] ==
            LET directory == Last(traversal.work).logical
            IN  IF traversal.error # "none" \/ traversal.work = <<>>
                THEN traversal
                ELSE Walked[FoldLeft(LAMBDA so_far, name :
                                         Take(fs, outputs, root, so_far, Append(directory, name)),
                                     [traversal EXCEPT !.work = Front(@)], Listing(fs, directory))]
    IN  Walked[start]

\* Paths in the order of their spellings.
Before(left, right) ==
    LET shared == Len(LongestCommonPrefix({left, right}))
        Place(name) == CHOOSE n \in DOMAIN Alphabet : Alphabet[n] = name
    IN  /\ shared < Len(right)
        /\ shared = Len(left) \/ Place(left[shared + 1]) < Place(right[shared + 1])

\* The sources in that order, or an error.
Collected(traversal) ==
    [sources |-> SortSeq(traversal.sources, Before), error |-> traversal.error]

CollectSources(fs, outputs, root) ==
    Collected(LET start == [work |-> <<Visit(root, root)>>, sources |-> <<>>, error |-> "none"]
              IN  IF ExcludesConfigured(fs, outputs, root)
                  THEN start
                  ELSE Traversed(fs, outputs, root, start))
================================================================
