------------------------------ MODULE PackageCache ------------------------------
(***************************************************************************)
(* How concurrent processes of dv acquire one version of one package into  *)
(* the global package cache they share (ensure_package and what it calls). *)
(* A call looks the package root up, downloads an archive or opens one of  *)
(* a local feed, unpacks it in a staging directory of its own, and         *)
(* publishes it by renaming that directory to the package root.            *)
(*                                                                         *)
(* A step is one effect on the file system that another process can see,   *)
(* or one await.  A call may die at any step, its future may be dropped at *)
(* an await, and I/O may fail.  A client that is not dv may fill the same  *)
(* root file by file, the marker last, as a marker of NuGet's own that     *)
(* validate_cached_package accepts implies.                                *)
(***************************************************************************)
EXTENDS Naturals, Sequences

CONSTANTS
    Calls,          \* calls of ensure_package, each in a process of its own
    Archives,       \* archives that claim to be this package version
    Missing,        \* no archive
    Retries,        \* the number of PUBLISH_RETRY_DELAYS
    Worlds          \* the circumstances explored

Parts == {"nupkg", "content", "nuspec", "sha512", "marker"}
Directories == [exists : BOOLEAN, file : [Parts -> Archives \cup {Missing}]]
Absent == [exists |-> FALSE, file |-> [part \in Parts |-> Missing]]

\* The file of every part, written from archive a.
Tree(a) == [part \in Parts |-> a]
Whole(dir, a) == dir.exists /\ dir.file = Tree(a)
Empty(dir) == dir.file = Absent.file

\* A source is a feed that offers an archive for this version or none.
Sources == [local : BOOLEAN, offers : Archives \cup {Missing}]

\* What a client other than dv was interrupted at, or has finished: without a marker
\* there are only files of that client's archive, with one there is everything.
Sound(dir, client) ==
    /\ ~dir.exists => Empty(dir)
    /\ \/ dir.file["marker"] = Missing /\ \A part \in Parts : dir.file[part] \in {Missing, client}
       \/ \E a \in Archives : Whole(dir, a)

Circumstances == [
    sources       : [Calls -> Seq(Sources)],    \* the mapped endpoints of each call
    strict        : SUBSET Calls,               \* calls with signatureValidationMode=require
    trusted       : SUBSET Archives,            \* archives such a call accepts
    broken        : SUBSET Archives,            \* archives that no call unpacks
    cached        : Directories,                \* the package root at the start
    fallback      : Directories,                \* the root in a fallback folder
    client        : Archives \cup {Missing},    \* the archive of the other client
    clientRuns    : BOOLEAN,                    \* that client is at work too
    replacesEmpty : BOOLEAN]                    \* rename replaces an empty directory

ASSUME MissingAssumption == Missing \notin Archives
ASSUME RetriesAssumption == Retries \in Nat
\* Where a rename replaces an empty directory, another client at work would go on
\* writing into the published tree; those circumstances are not covered.
ASSUME WorldsAssumption ==
    \A w \in Worlds :
        /\ w \in Circumstances
        /\ Sound(w.cached, w.client) /\ Sound(w.fallback, w.client)
        /\ w.clientRuns => w.client \in Archives /\ ~w.replacesEmpty

VARIABLES
    world,          \* the circumstances, which never change
    root,           \* the package root in the global cache
    writing,        \* the other client is filling the root
    at,             \* per call: the next step
    source,         \* per call: the position in its endpoints
    archive,        \* per call: the archive it staged
    tries,          \* per call: the publish delays already used
    scratch,        \* per call: its scratch directory exists
    staging,        \* per call: its staging directory
    answer          \* per call: the result of ensure_package

vars == <<world, root, writing, at, source, archive, tries, scratch, staging, answer>>
shared == <<world, root, writing>>

\* find, source and the two validations precede a download; the places from unpack on
\* are in a blocking task, which a dropped future does not stop.
Blocking == {"unpack", "describe", "rename", "denied", "refused", "won", "lost"}
Places == {"find", "cache", "fallback", "source", "fetch", "stage"} \cup Blocking
Over == {"done", "dropped", "dead"}

Answers == [status : {"none", "error", "cache", "fallback"}, archive : Archives \cup {Missing}]
NoAnswer == [status |-> "none", archive |-> Missing]

-------------------------------------------------------------------------------
(* How a call ends.                                                        *)

Go(r, place) == at' = [at EXCEPT ![r] = place]

\* The function returns and its guards remove what they still guard.
End(r, status, a) ==
    /\ Go(r, "done")
    /\ answer' = [answer EXCEPT ![r] = [status |-> status, archive |-> a]]
    /\ scratch' = [scratch EXCEPT ![r] = FALSE]
    /\ staging' = [staging EXCEPT ![r] = Absent]
    /\ UNCHANGED <<shared, source, archive, tries>>

Fail(r) == End(r, "error", Missing)

\* Cancellation, an I/O error, or an archive that is not what the source says it is.
Abort(r) ==
    /\ at[r] \in {"find", "cache", "fallback", "source", "fetch", "stage", "unpack",
                 "describe", "lost"}
    /\ Fail(r)

-------------------------------------------------------------------------------
(* Lookup and validation.                                                  *)

\* find_package_root: a directory is enough, in the cache or else in a fallback folder.
Find(r) ==
    /\ at[r] = "find"
    /\ Go(r, IF root.exists THEN "cache" ELSE IF world.fallback.exists THEN "fallback"
             ELSE "source")
    /\ UNCHANGED <<shared, source, archive, tries, scratch, staging, answer>>

\* Mutant of validate_cached_package: it does not verify the signature.
Valid_Unverified(r, dir) ==
    /\ dir.exists
    /\ \A part \in {"marker", "nupkg", "sha512", "nuspec"} : dir.file[part] # Missing

\* validate_cached_package: the required files exist; require verifies the signature.
Valid(r, dir) ==
    /\ dir.exists
    /\ \A part \in {"marker", "nupkg", "sha512", "nuspec"} : dir.file[part] # Missing
    /\ r \in world.strict => dir.file["nupkg"] \in world.trusted \ world.broken

\* A root that was found, or that another process published first, is used as it is
\* or refused; it is never repaired.
Use(r, place, dir, status) ==
    /\ at[r] = place
    /\ IF Valid(r, dir) THEN End(r, status, dir.file["sha512"]) ELSE Fail(r)

-------------------------------------------------------------------------------
(* Download.                                                               *)

Current(r) == world.sources[r][source[r]]
HasSource(r) == source[r] <= Len(world.sources[r])

\* Every endpoint failed with a network error, or none is mapped.
Exhausted(r) ==
    /\ at[r] = "source" /\ ~HasSource(r)
    /\ Fail(r)

\* A network error sends the call to the next endpoint.
NextSource(r) ==
    /\ \/ at[r] = "fetch"
       \/ at[r] = "source" /\ HasSource(r) /\ Current(r).local /\ Current(r).offers = Missing
    /\ Go(r, "source")
    /\ source' = [source EXCEPT ![r] = @ + 1]
    /\ scratch' = [scratch EXCEPT ![r] = FALSE]
    /\ UNCHANGED <<shared, archive, tries, staging, answer>>

\* The scratch directory is created and the archive requested.
BeginFetch(r) ==
    /\ at[r] = "source" /\ HasSource(r) /\ ~Current(r).local
    /\ Go(r, "fetch")
    /\ scratch' = [scratch EXCEPT ![r] = TRUE]
    /\ UNCHANGED <<shared, source, archive, tries, staging, answer>>

\* The archive arrived with the size and hash the source announced.
Fetched(r) ==
    /\ at[r] = "fetch" /\ Current(r).offers # Missing
    /\ Go(r, "stage")
    /\ archive' = [archive EXCEPT ![r] = Current(r).offers]
    /\ UNCHANGED <<shared, source, tries, scratch, staging, answer>>

\* The archive alone, linked or copied into a new directory of the cache volume.
Linked(a) == [exists |-> TRUE, file |-> [Absent.file EXCEPT !["nupkg"] = a]]

Stage(r) ==
    /\ at[r] = "stage"
    /\ Go(r, "unpack")
    /\ staging' = [staging EXCEPT ![r] = Linked(archive[r])]
    /\ UNCHANGED <<shared, source, archive, tries, scratch, answer>>

\* install_local_package stages the archive of a local feed directly.
StageLocal(r) ==
    /\ at[r] = "source" /\ HasSource(r) /\ Current(r).local /\ Current(r).offers # Missing
    /\ Go(r, "unpack")
    /\ archive' = [archive EXCEPT ![r] = Current(r).offers]
    /\ staging' = [staging EXCEPT ![r] = Linked(Current(r).offers)]
    /\ UNCHANGED <<shared, source, tries, scratch, answer>>

-------------------------------------------------------------------------------
(* Unpacking and publication, in a blocking task.                          *)

\* verify_package under the policy of the call, then extraction, which refuses a
\* malformed archive or one with another identity.
Accepted(r, a) == a \notin world.broken /\ (r \in world.strict => a \in world.trusted)

Unpack(r) ==
    /\ at[r] = "unpack"
    /\ \/ /\ Accepted(r, archive[r])
          /\ Go(r, "describe")
          /\ staging' = [staging EXCEPT ![r] =
                 [exists |-> TRUE,
                  file |-> [@.file EXCEPT !["content"] = archive[r], !["nuspec"] = archive[r]]]]
          /\ UNCHANGED <<shared, source, archive, tries, scratch, answer>>
       \/ ~Accepted(r, archive[r]) /\ Fail(r)

\* Mutant: the hash file is not written.
Describe_NoHash(r) ==
    /\ at[r] = "describe"
    /\ Go(r, "rename")
    /\ staging' = [staging EXCEPT ![r] =
           [exists |-> TRUE, file |-> [@.file EXCEPT !["marker"] = archive[r]]]]
    /\ UNCHANGED <<shared, source, archive, tries, scratch, answer>>

\* The hash file and .dv.metadata.json are written.
Describe(r) ==
    /\ at[r] = "describe"
    /\ Go(r, "rename")
    /\ staging' = [staging EXCEPT ![r] =
           [exists |-> TRUE,
            file |-> [@.file EXCEPT !["sha512"] = archive[r], !["marker"] = archive[r]]]]
    /\ UNCHANGED <<shared, source, archive, tries, scratch, answer>>

\* What a rename of a directory may replace: nothing, or an empty directory on Unix.
\* Mutant: whatever is there, as after a removal of the destination.
Replaceable_Anything == TRUE
Replaceable == ~root.exists \/ (world.replacesEmpty /\ Empty(root))

Rename(r) ==
    /\ at[r] = "rename" /\ Replaceable
    /\ Go(r, "won")
    /\ root' = staging[r]
    /\ staging' = [staging EXCEPT ![r] = Absent]
    /\ UNCHANGED <<world, writing, source, archive, tries, scratch, answer>>

\* It may fail whatever is there: permission denied, or another error.
RenameFails(r) ==
    /\ at[r] = "rename"
    /\ \E place \in {"denied", "refused"} : Go(r, place)
    /\ UNCHANGED <<shared, source, archive, tries, scratch, staging, answer>>

\* Mutant: a denied rename is retried without counting.
Recheck_Uncounted(r) ==
    /\ at[r] \in {"denied", "refused"}
    /\ \/ /\ root.exists \/ at[r] = "denied"
          /\ Go(r, IF root.exists THEN "lost" ELSE "rename")
          /\ UNCHANGED <<shared, source, archive, tries, scratch, staging, answer>>
       \/ ~root.exists /\ at[r] = "refused" /\ Fail(r)

\* The destination is looked up after the failure: somebody may have published it
\* since.  Otherwise a denied rename is tried again while a delay is left.
Recheck(r) ==
    /\ at[r] \in {"denied", "refused"}
    /\ \/ /\ root.exists
          /\ Go(r, "lost")
          /\ UNCHANGED <<shared, source, archive, tries, scratch, staging, answer>>
       \/ /\ ~root.exists /\ at[r] = "denied" /\ tries[r] < Retries
          /\ Go(r, "rename")
          /\ tries' = [tries EXCEPT ![r] = @ + 1]
          /\ UNCHANGED <<shared, source, archive, scratch, staging, answer>>
       \/ /\ ~root.exists /\ (at[r] = "denied" => tries[r] = Retries)
          /\ Fail(r)

\* Mutant: the loser answers with the archive it downloaded itself.
Settle_OwnHash(r) ==
    \/ at[r] = "won" /\ End(r, "cache", archive[r])
    \/ at[r] = "lost" /\ End(r, "cache", archive[r])

\* The winner answers with what it knows, the loser with the winner's validated tree.
Settle(r) ==
    \/ at[r] = "won" /\ End(r, "cache", archive[r])
    \/ Use(r, "lost", root, "cache")

-------------------------------------------------------------------------------
(* Failure, and other clients.                                             *)

\* The future is dropped at an await outside a blocking task.  An operation of the
\* file system that is under way still completes, behind the back of the guard.
Drop(r) ==
    /\ at[r] \in {"cache", "fallback", "source", "fetch", "stage"}
    /\ Go(r, "dropped")
    /\ \E left \in BOOLEAN :
           /\ left => at[r] \in {"source", "fetch", "stage"}
           /\ scratch' = [scratch EXCEPT ![r] = left]
    /\ \/ staging' = staging
       \/ at[r] = "stage" /\ staging' = [staging EXCEPT ![r] = Linked(archive[r])]
    /\ UNCHANGED <<shared, source, archive, tries, answer>>

\* The process dies: no guard runs.
Crash(r) ==
    /\ at[r] \in Places
    /\ Go(r, "dead")
    /\ UNCHANGED <<shared, source, archive, tries, scratch, staging, answer>>

own == <<world, at, source, archive, tries, scratch, staging, answer>>

\* The other client fills a root that has no marker yet, part by part.
ClientBegins ==
    /\ world.clientRuns /\ ~writing /\ root.file["marker"] = Missing
    /\ writing' = TRUE
    /\ root' = [exists |-> TRUE, file |-> root.file]
    /\ UNCHANGED own

ClientWrites(part) ==
    /\ writing /\ root.file[part] = Missing
    /\ part = "marker" => \A other \in Parts \ {part} : root.file[other] # Missing
    /\ root' = [exists |-> TRUE, file |-> [root.file EXCEPT ![part] = world.client]]
    /\ writing' = (part # "marker")
    /\ UNCHANGED own

ClientStops ==
    /\ writing /\ writing' = FALSE
    /\ UNCHANGED <<root, own>>

Client == ClientBegins \/ (\E part \in Parts : ClientWrites(part)) \/ ClientStops

-------------------------------------------------------------------------------
Init ==
    /\ world \in Worlds
    /\ root = world.cached
    /\ writing = FALSE
    /\ at = [r \in Calls |-> "find"]
    /\ source = [r \in Calls |-> 1]
    /\ archive = [r \in Calls |-> Missing]
    /\ tries = [r \in Calls |-> 0]
    /\ scratch = [r \in Calls |-> FALSE]
    /\ staging = [r \in Calls |-> Absent]
    /\ answer = [r \in Calls |-> NoAnswer]

Step(r) ==
    \/ Find(r) \/ Use(r, "cache", root, "cache") \/ Use(r, "fallback", world.fallback, "fallback")
    \/ Exhausted(r) \/ NextSource(r) \/ BeginFetch(r) \/ Fetched(r) \/ Stage(r) \/ StageLocal(r)
    \/ Unpack(r) \/ Describe(r) \/ Rename(r) \/ RenameFails(r) \/ Recheck(r) \/ Settle(r)
    \/ Abort(r)

Next == \/ \E r \in Calls : Step(r) \/ Drop(r) \/ Crash(r)
        \/ Client

Spec == Init /\ [][Next]_vars

\* Requests have timeouts and file operations end, so a call that is neither dropped
\* nor killed goes on.
FairSpec == Spec /\ \A r \in Calls : WF_vars(Step(r))

-------------------------------------------------------------------------------
(* Properties.                                                             *)

\* Every variable keeps its type; a staging directory that does not exist is empty.
TypeOK ==
    /\ world \in Worlds
    /\ root \in Directories
    /\ writing \in BOOLEAN
    /\ at \in [Calls -> Places \cup Over]
    /\ source \in [Calls -> Nat \ {0}]
    /\ archive \in [Calls -> Archives \cup {Missing}]
    /\ tries \in [Calls -> 0..Retries]
    /\ scratch \in [Calls -> BOOLEAN]
    /\ staging \in [Calls -> Directories]
    /\ answer \in [Calls -> Answers]

\* A root that carries a marker holds every file, all from one archive: publication by
\* rename never shows a tree that is half unpacked or mixed from two downloads.
MarkerMeansWhole ==
    root.file["marker"] # Missing => \E a \in Archives : Whole(root, a)

\* A call that was told the package is in the cache, with some hash, was told the truth
\* and it stays true: whoever wins the race and whatever happens afterwards, the root
\* is the whole tree of the archive with that hash, so all callers agree.
AnswersHold ==
    \A r \in Calls : answer[r].status = "cache" => Whole(root, answer[r].archive)

\* A call that requires signatures never gets a package its policy rejects, though
\* another process with a laxer policy may have published it, before or during the call.
PolicyHolds ==
    \A r \in world.strict :
        answer[r].status \in {"cache", "fallback"} => answer[r].archive \in world.trusted

\* Every call is answered unless its process dies or its future is dropped: retries of
\* the rename and of the endpoints come to an end.
Answered == \A r \in Calls : <>(at[r] \in Over)

\* The archive the cache holds: none before a marker says that it is complete.
InCache(dir) == IF dir.file["marker"] = Missing THEN Missing ELSE dir.file["sha512"]

Store == INSTANCE PackageStore WITH
    stored <- InCache(root), elsewhere <- InCache(world.fallback)

\* The cache implements the abstract store: each step of a call, of another client or
\* of a crash is a publication, an answer, or invisible.
Implements == Store!Spec
=============================================================================
