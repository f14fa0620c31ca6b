------------------------------ MODULE FileSystem ------------------------------
(***************************************************************************)
(* The file system below a common root as the evaluation of projects sees  *)
(* it: what a path leads to (canonicalize, external) and what it spells    *)
(* (path.rs, absolute_lexical).  A path is the sequence of its names.      *)
(***************************************************************************)
EXTENDS Integers, Sequences, FiniteSets, SequencesExt

CONSTANTS
    Up,             \* ".."
    LowerCase       \* of each name with capitals, the one without

\* A file system is [files, links, casing, order]: the files, by the paths that go
\* through no link; where each link leads, by such paths; the names that differ from the
\* one on disk by their case only, where the storage does not tell them apart; and the
\* order in which a directory lists its entries.
Lowered(name) == IF name \in DOMAIN LowerCase THEN LowerCase[name] ELSE name
OnDisk(fs, name) == IF name \in DOMAIN fs.casing THEN fs.casing[name] ELSE name
Parent(at) == IF at = <<>> THEN at ELSE Front(at)
Followed(fs, entry) == IF entry \in DOMAIN fs.links THEN fs.links[entry] ELSE entry

Entered(fs, at, name) ==
    IF name = Up THEN Parent(at) ELSE Followed(fs, Append(at, OnDisk(fs, name)))

Canonical(fs, path) == FoldLeft(LAMBDA at, name : Entered(fs, at, name), <<>>, path)

\* The entry a path names, which is a link where its last name is one.
EntryOf(fs, path) == Append(Canonical(fs, Front(path)), OnDisk(fs, Last(path)))
IsLink(fs, path) == EntryOf(fs, path) \in DOMAIN fs.links

Directories(fs) ==
    UNION {{SubSeq(path, 1, n) : n \in 0..(Len(path) - 1)} : path \in fs.files \cup DOMAIN fs.links}
IsDirectory(fs, path) == Canonical(fs, path) \in Directories(fs)
IsFile(fs, path) == Canonical(fs, path) \in fs.files
Exists(fs, path) == IsDirectory(fs, path) \/ IsFile(fs, path)

\* The names in a directory.
Listing(fs, directory) ==
    LET at == Canonical(fs, directory)
    IN  SelectSeq(fs.order, LAMBDA name :
            Append(at, name) \in fs.files \cup DOMAIN fs.links \cup Directories(fs))

\* Without dot segments, whatever the links.
AbsoluteLexical(path) ==
    FoldLeft(LAMBDA at, name : IF name = Up THEN Parent(at) ELSE Append(at, name), <<>>, path)
================================================================
