------------------------------- MODULE NugetConfig -------------------------------
(***************************************************************************)
(* How the NuGet configuration files of a project, from the machine's to   *)
(* the nearest, become one configuration (package.rs, merge_config and     *)
(* discover_configuration).  Every section is a list of rows with a key;   *)
(* an element of a file clears a section, adds a row or removes one.       *)
(***************************************************************************)
EXTENDS Integers, Sequences, FiniteSets, SequencesExt

CONSTANTS
    PublicKey, PublicSource,    \* "nuget.org" and DEFAULT_SOURCE
    DefaultFolder,              \* ~/.nuget/packages
    Unset                       \* an option, variable or key without a value

ASSUME UnsetAssumption == Unset # "require"

Sections == {"sources", "disabled", "config", "fallback", "mapping", "credentials"}

\* An element is [section, op, key, value]; op is "add", "remove" or "clear".  Of the
\* config section the key is the setting; of mapping, the value is the set of patterns.
Element(section, op, key, value) == [section |-> section, op |-> op, key |-> key, value |-> value]

\* Mappings of one source in one file, also of one that is cleared in between, are an
\* error, and so is a mapping without patterns, or the removal of credentials.
Invalid(file) ==
    \/ \E i, j \in DOMAIN file :
          /\ i < j
          /\ {<<file[k].section, file[k].op>> : k \in {i, j}} = {<<"mapping", "add">>}
          /\ file[i].key = file[j].key
    \/ \E i \in DOMAIN file : \/ file[i].section = "mapping" /\ file[i].op = "add" /\ file[i].value = {}
                              \/ file[i].section = "credentials" /\ file[i].op = "remove"

\* The rows that are kept, in their order.
Retained(rows, kept) ==
    FoldLeft(LAMBDA so_far, row : IF row \in kept THEN Append(so_far, row) ELSE so_far, <<>>, rows)

Without(rows, key) == Retained(rows, {row \in ToSet(rows) : row.key # key})

\* The mutant's bug: an added row goes to the end, also where its key has one.
Added_AtTheEnd(rows, row) == Append(Without(rows, row.key), row)

\* A row replaces that of its key where it is.
Added(rows, row) ==
    IF \E i \in DOMAIN rows : rows[i].key = row.key
    THEN [i \in DOMAIN rows |-> IF rows[i].key = row.key THEN row ELSE rows[i]]
    ELSE Append(rows, row)

Applied(merged, element, priority) ==
    LET section == element.section
        row == [key |-> element.key, value |-> element.value, priority |-> priority]
    IN  [merged EXCEPT ![section] = CASE element.op = "clear" -> <<>>
                                      [] element.op = "remove" -> Without(@, element.key)
                                      [] element.op = "add" -> Added(@, row)]

\* A file has a higher priority than those before it.
MergeConfig(merged, file, priority) ==
    FoldLeft(LAMBDA so_far, element : Applied(so_far, element, priority), merged, file)

Merged(files) ==
    FoldLeft(LAMBDA so_far, k : MergeConfig(so_far, files[k], k),
             [section \in Sections |-> <<>>], [k \in DOMAIN files |-> k])

HasKey(rows, key) == \E i \in DOMAIN rows : rows[i].key = key
Setting(rows, key) ==
    IF HasKey(rows, key) THEN (CHOOSE row \in ToSet(rows) : row.key = key).value ELSE Unset

\* The presence of a key disables its source.  Without any file there is one source.
Configured(files, merged) ==
    LET rows == IF files = <<>>
                THEN <<[key |-> PublicKey, value |-> PublicSource, priority |-> 0]>>
                ELSE merged["sources"]
    IN  Retained(rows, {row \in ToSet(rows) : ~HasKey(merged["disabled"], row.key)})

\* --source: the values in their order, each once, under the name of the last source
\* that is configured with it, or its own.
CommandLineSources(overrides, configured) ==
    LET Named(value) ==
            LET matching == {i \in DOMAIN configured : configured[i].value = value}
            IN  IF matching = {}
                THEN [key |-> value, value |-> value, priority |-> 0]
                ELSE configured[CHOOSE i \in matching : \A j \in matching : j <= i]
        Taken(sources, value) ==
            IF \E i \in DOMAIN sources : sources[i].value = value
            THEN sources
            ELSE Append(sources, Named(value))
    IN  IF overrides = <<>> THEN configured ELSE FoldLeft(Taken, <<>>, overrides)

\* The mutant's bug: the folders stay in the order in which their keys came.
OrderedFallbackPaths_AsTheyCame(rows) == [i \in DOMAIN rows |-> rows[i].value]

\* The folders of nearer files first, those of one file in their order: a stable sort.
OrderedFallbackPaths(rows) ==
    LET Ahead(i, j) == \/ rows[i].priority > rows[j].priority
                       \/ rows[i].priority = rows[j].priority /\ i < j
        nearer == CHOOSE order \in [DOMAIN rows -> DOMAIN rows] :
                     \A m, n \in DOMAIN rows : m < n => Ahead(order[m], order[n])
    IN  [i \in DOMAIN rows |-> rows[nearer[i]].value]

\* Each mapping with the place of its source in the configuration, 0 without one.
CompiledMapping(rows, sources) ==
    LET Place(key) == IF HasKey(sources, key)
                      THEN CHOOSE i \in DOMAIN sources : sources[i].key = key /\
                               \A j \in DOMAIN sources : sources[j].key = key => i <= j
                      ELSE 0
    IN  {[source |-> Place(row.key), patterns |-> row.value] : row \in ToSet(rows)}

FirstSet(values) == IF \E i \in DOMAIN values : values[i] # Unset
                    THEN values[CHOOSE i \in DOMAIN values :
                                    /\ values[i] # Unset
                                    /\ \A j \in 1..(i - 1) : values[j] = Unset]
                    ELSE Unset

\* options: [sources, packages] of the command line, [folder, fallback] of the
\* environment.
DiscoverConfiguration(files, options) ==
    LET merged == Merged(files)
        sources == CommandLineSources(options.sources, Configured(files, merged))
    IN  IF sources = <<>> \/ \E k \in DOMAIN files : Invalid(files[k])
        THEN [valid |-> FALSE]
        ELSE [valid |-> TRUE,
              sources |-> [i \in DOMAIN sources |-> [name |-> sources[i].key,
                                                     url |-> sources[i].value]],
              mapping |-> CompiledMapping(merged["mapping"], sources),
              root |-> FirstSet(<<options.packages, options.folder,
                                  Setting(merged["config"], "globalPackagesFolder"),
                                  DefaultFolder>>),
              mode |-> IF Setting(merged["config"], "signatureValidationMode") = "require"
                       THEN "require" ELSE "accept",
              fallback |-> IF options.fallback # Unset
                           THEN options.fallback
                           ELSE OrderedFallbackPaths(merged["fallback"])]

\* Where a command that restores nothing looks for packages; Unset for an error.  The
\* files are not read when the command line or the environment names the folder.
GlobalPackagesDirectory(files, options) ==
    LET configuration == DiscoverConfiguration(files, [options EXCEPT !.sources = <<>>])
        named == FirstSet(<<options.packages, options.folder>>)
    IN  CASE named # Unset -> named
          [] named = Unset /\ configuration.valid -> configuration.root
          [] named = Unset /\ ~configuration.valid -> Unset
=============================================================================
