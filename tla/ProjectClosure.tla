----------------------------- MODULE ProjectClosure -----------------------------
(***************************************************************************)
(* The projects a restore is about: those it is given and all they refer   *)
(* to, each once (project.rs, ProjectClosureBatch).  A project that is     *)
(* found again under another spelling is the same project, unless a link   *)
(* makes the difference.                                                   *)
(***************************************************************************)
EXTENDS SourceTree

\* references, of a project file by its canonical path: what it refers to, relative to
\* its directory.  outputs: its configured output, likewise.
Outputs(files, physical, directory) == {directory \o output : output \in files.outputs[physical]}

\* Evaluation reads the file and collects the sources.
Evaluates(files, identity) ==
    LET directory == Front(identity)
    IN  CollectSources(files.fs, Outputs(files, Canonical(files.fs, identity), directory), directory).error
          = "none"

References(files, identity) == files.references[Canonical(files.fs, identity)]

\* A batch: its projects, those before the cursor expanded; the spellings it has met and
\* the project each file is, once there is a table; the error.
EmptyBatch == [projects |-> <<>>, cursor |-> 1, tabled |-> FALSE,
               lexical |-> {}, physical |-> <<>>, error |-> "none"]

\* Two spellings of a file, compared where they part.
SharedComponents(left, right) == Len(LongestCommonPrefix({left, right}))

PathSuffixUsesLink(fs, path, shared) ==
    \E n \in (shared + 1)..Len(path) : IsLink(fs, SubSeq(path, 1, n))

\* The mutant's bug: the spelling the project was found under is not looked at.
PathAliasUsesLink_Candidate(fs, existing, candidate) ==
    PathSuffixUsesLink(fs, candidate, SharedComponents(existing, candidate))

PathAliasUsesLink(fs, existing, candidate) ==
    LET shared == SharedComponents(existing, candidate)
    IN  PathSuffixUsesLink(fs, existing, shared) \/ PathSuffixUsesLink(fs, candidate, shared)

Met(batch, identity) == [batch EXCEPT !.lexical = @ \cup {identity}]

Tabled(fs, batch, identity) ==
    [Met(batch, identity) EXCEPT
        !.physical = [path \in DOMAIN @ \cup {Canonical(fs, identity)} |->
                         IF path \in DOMAIN @ THEN @[path] ELSE identity]]

\* insert_project, and the project at the end of the batch.
Inserted(fs, batch, identity) ==
    [Tabled(fs, batch, identity) EXCEPT !.projects = Append(@, identity)]

Failed(batch, error) == [batch EXCEPT !.error = error]

\* One reference of the project at the cursor: a file under a spelling that is new.
TakeFile(files, batch, directory, identity, physical) ==
    IF physical \in DOMAIN batch.physical
    THEN IF PathAliasUsesLink(files.fs, batch.physical[physical], identity)
         THEN Failed(batch, "alias")
         ELSE Met(batch, identity)
    ELSE CASE IsPrefix(directory, identity) /\ ~IsPrefix(Canonical(files.fs, directory), physical) ->
                Failed(batch, "escape")
           [] OTHER ->
                IF Evaluates(files, identity)
                THEN Inserted(files.fs, batch, identity)
                ELSE Failed(batch, "sources")

\* Any reference: its directory and the path relative to that.
TakeSpelling(files, batch, directory, reference) ==
    LET identity == AbsoluteLexical(directory \o reference)
    IN  CASE ~IsFile(files.fs, directory \o reference) -> Failed(batch, "missing")
          [] OTHER ->
               IF identity \in batch.lexical
               THEN batch
               ELSE IF IsFile(files.fs, identity)
                    THEN TakeFile(files, batch, directory, identity, Canonical(files.fs, identity))
                    ELSE Failed(batch, "unidentified")

TakeReference(files, batch, reference) ==
    IF batch.error = "none"
    THEN TakeSpelling(files, batch, Front(batch.projects[batch.cursor]), reference)
    ELSE batch

Advanced(batch) == IF batch.error = "none" THEN [batch EXCEPT !.cursor = @ + 1] ELSE batch

\* No file is two projects: after as many rounds as there are files every project has
\* been expanded.
ExpandProjectClosure(files, batch) ==
    LET Expanded[n \in 0..Cardinality(files.fs.files)] ==
            IF n = 0
            THEN batch
            ELSE IF Expanded[n - 1].error # "none" \/ Expanded[n - 1].cursor > Len(Expanded[n - 1].projects)
                 THEN Expanded[n - 1]
                 ELSE Advanced(FoldLeft(LAMBDA so_far, reference : TakeReference(files, so_far, reference),
                                        Expanded[n - 1],
                                        References(files, Expanded[n - 1].projects[Expanded[n - 1].cursor])))
    IN  Expanded[Cardinality(files.fs.files)]

\* The table is made when there is something to compare.
InitializeTable(fs, batch) ==
    IF batch.tabled
    THEN batch
    ELSE FoldLeft(LAMBDA so_far, identity : Tabled(fs, so_far, identity),
                  [batch EXCEPT !.tabled = TRUE], batch.projects)

\* A root, by a path without dot segments, which is evaluated first.
PushTabled(files, batch, root) ==
    IF root \in batch.lexical
    THEN batch
    ELSE IF Canonical(files.fs, root) \in DOMAIN batch.physical
         THEN Met(batch, root)
         ELSE ExpandProjectClosure(files, Inserted(files.fs, batch, root))

Push(files, batch, root) ==
    CASE batch.error # "none" -> batch
      [] batch.error = "none" /\ ~IsFile(files.fs, root) -> Failed(batch, "missing")
      [] OTHER ->
         IF ~Evaluates(files, root)
         THEN Failed(batch, "sources")
         ELSE IF ~batch.tabled /\ batch.projects = <<>> /\ References(files, root) = <<>>
              THEN [batch EXCEPT !.projects = <<root>>, !.cursor = 2]
              ELSE PushTabled(files, InitializeTable(files.fs, batch), root)

IntoProjects(batch) == [projects |-> batch.projects, error |-> batch.error]

EvaluateProjectClosures(files, roots) ==
    IntoProjects(FoldLeft(LAMBDA batch, root : Push(files, batch, root), EmptyBatch, roots))
================================================================
