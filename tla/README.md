# A formal model of dv

`dv` restores, evaluates and builds .NET projects without MSBuild or the NuGet
client. The part of it that is hard to get right is concurrent: one restore
downloads, reads and re-reads package manifests in whatever order they arrive
and must still end in one deterministic graph. This directory holds TLA+
modules that model the program from its source, the TLC configurations that
model-check them on small instances, and theorems about them whose proofs the
TLA+ proof system checks.

Paths below are relative to the repository root; `package.rs` and the other
`.rs` files are in `src/crates/dv-core/src/` unless said otherwise.

## Inventory

| Component | State | Operations | Hard behaviour | What makes it correct |
|---|---|---|---|---|
| Streaming package graph (`package.rs` 6310-7089) | constraint nodes, dirty set, ready set, metadata tasks, in-flight set, batch metadata | stabilize a node, dispatch a task, join a result, acquire, return | up to 24 tasks complete in any order; results go stale when a selection changes; nodes leave and re-enter | the result is the one fixed point of the inputs; nothing is forgotten; no edge dangles; it ends |
| Package acquisition and cache publication (7664-8031) | package roots, staging directories, readiness | look up, download, extract, rename, revalidate | several processes publish one root; crash between steps; `PermissionDenied` retries | a root is complete or absent; a loser uses the winner's tree |
| HTTP transport (8265-8552) | permits of a source and of the process, attempt counters | acquire permits, send, retry, authenticate | nested retries; permits held across sleeps; cancellation | bounded requests, no permit deadlock or leak |
| Credential providers (`credential_provider.rs`, `package.rs` 2700-2802) | session, request table, `SourceCredential` generation | handshake, log request, acquire, cancel and stop | concurrent 401s; provider dies or answers late | one acquisition per generation; provider always reaped |
| Service discovery and source mapping (5725-6067) | endpoint slots, snapshot | ensure an identity's sources | partial failure of concurrent discovery | slots and snapshot agree |
| Batch session and warm lock (2286-2416, 3138-3444, 10721-11143) | `BatchMetadataCache`, project locks | resolve each project, reuse, write lock | staleness of what is reused | reuse equals a fresh resolution |
| Cancellation token (`cancellation.rs`) | request time, phase, waiters | request, cancel, wait, read the grace | two signals race each other and the waiters | no lost wake-up; one deadline |
| Version and range algorithms (1583-1860) | none | compare, contain, prefer | boundaries | agree with their definitions |
| NuGet configuration (3946-4058, 5104-5702) | merged configuration | merge | hierarchy order, clears and removals | the last word on each key counts, in the order keys first appeared |
| Archives, manifests, signatures (`package_signature.rs`) | none | parse, verify | malformed bytes | rejects what it cannot vouch for |
| Assets and runtime graph (`runtime_graph.rs`) | none | select assets | graph traversal | nearest compatible |
| SDK selection (`sdk.rs`) | installed SDKs of each root | roll forward | version policy | the policy's version, of the first root that has one |
| Runtime packs and their inventory (`runtime_pack.rs`) | inventory files beside the packages | locate, fingerprint, read, build, publish | packs change and files tear while several commands use them | an inventory is what is in the packs, and never fails a command |
| Projects and workspaces (`project.rs`, `workspace.rs`) | evaluated properties and items, a table of the spellings and files met | evaluate, collect sources, close over references | links that lead back, out or to what is already there; several spellings of one file; reference cycles | each source under each of its names, each project once |
| Framework references, compiler plan (`framework_reference.rs`) | none | plan | roll-forward over bands and prereleases | the policy's runtime for every framework |
| Child-process exit policy (`child_process.rs`) | none | classify | signals against codes | one exit code |
| Event stream (`event.rs`, `reporter.rs`) | sequence of events | emit, validate | order of events | only legal sequences |
| CLI (`src/crates/dv-cli/src`) | none shared | parse, route, print | none | - |

How they interact: the CLI installs the cancellation token and starts a batch
session; the session resolves each project through the package graph; a task of
the graph asks the cache, then (after discovery and source mapping) acquires a
package over the HTTP transport, which asks credential providers when it is
refused; what was downloaded is published into the shared cache by a rename;
the returned graph is written as the project's lock. Sharing between concurrent
parties is confined to the join results of the graph's tasks, the transport's
permits and credentials, the file system under the cache, and the token.

`PROJECT.json` lists every component with its state of modelling and the
hazards at their lines.

## Modules

| Module | Models | Kind |
|---|---|---|
| `PackageGraph` | `resolve_streaming_graph` and what it calls | state machine |
| `PackageGraphReference` | what a resolution is, and the properties | abstract definition, properties |
| `MCPackageGraph` | the inputs that TLC explores | instances |
| `PackageGraphProofs` | theorems about `PackageGraph` and the graphs it returns | proofs |
| `CancellationToken` | the token and the children that are stopped by it | state machine, properties |
| `CancellationTokenProofs` | theorems about `CancellationToken` | proofs |
| `PackageStore` | what the package cache promises | abstract specification |
| `PackageCache` | `ensure_package` and what it calls, in several processes | state machine, properties, refinement |
| `MCPackageCache` | the circumstances that TLC explores | instances |
| `PackageCacheProofs` | theorems about `PackageCache`, and that it implements `PackageStore` | proofs |
| `HttpTransport` | `send_with_policy`, the requests of one command | state machine, properties |
| `CredentialProvider` | one session with the providers of a source | state machine, used by `HttpTransport` |
| `MCHttpTransport` | the circumstances that TLC explores | instances |
| `HttpTransportProofs` | theorems about both | proofs |
| `ServiceDiscovery` | `PackageSourceMapping`, `LazyServiceEndpoints` | operators and the actions `BatchSession` takes |
| `ServiceDiscoveryProofs` | theorems about `ServiceDiscovery` | proofs |
| `BatchSession` | `resolve_project` of several projects and commands, the batch's memory, the lock | state machine, properties |
| `BatchSessionProofs` | theorems about `BatchSession` | proofs |
| `MCBatchSession` | the circumstances that TLC explores | instances |
| `NugetConfig` | `merge_config`, `discover_configuration` | operators |
| `SdkSelection` | `discover_sdks_in_roots` | operators |
| `RuntimeGraph` | `RuntimeIdentifierGraph` | operators |
| `PackInventory` | `locate_pack`, `load_or_build_pack_inventory` in several processes | state machine, properties |
| `FileSystem` | paths, links, directories; `absolute_lexical` | operators, mostly external |
| `SourceTree` | `collect_sources`, `collect_linked_sources` | operators |
| `ProjectClosure` | `ProjectClosureBatch` | operators |
| `FrameworkReferences` | `plan_framework_references`, `pruning_framework_batch` | operators |
| `RuntimePacks` | `plan_runtime_packs`: the operator modules and the inventory, composed | state machine, reference definitions, properties |
| `ProjectSelections` | what sources, closures and frameworks should be | reference definitions, properties |
| `MCRuntimePacks` | the circumstances that TLC explores | instances |
| `RuntimePacksProofs` | theorems about `PackInventory`, `RuntimePacks` and `ProjectSelections` | proofs |
| `Folding` | what a fold goes through, for any operator that is folded | lemmas, instantiated by `RuntimePacksProofs` |

### PackageGraph

A resolution runs on a single owner that alternates two loops, so a step of the
specification is one iteration of one of them, and the concurrency that remains
is the order in which metadata tasks complete and what they answer.

| Variable | Code |
|---|---|
| `nodes` | `nodes: BTreeMap<String, ConstraintNode>`; `live` says the key is present |
| `dirty`, `ready`, `inFlight` | the sets of the same names |
| `tasks` | the `JoinSet`, with the generation each task was started with |
| `metadata`, `packages` | the entries of `BatchMetadataCache`, without and with a package |
| `held` | `metadata_packages` |
| `pending` | the packages the final acquisition has still to provide |
| `pc`, `failure` | the loop that runs and the error it returned |
| `world` | the inputs of the resolution, which never change |

`RemoveOrphan`, `KeepSelection`, `ChangeSelection`,
`FailSelection` and `Stabilized` are the iterations of
`stabilize_constraint_nodes`; `ReuseMetadata`, `Spawn` and `RejectSource` those
of the fill loop; `JoinError`, `JoinVersions` and `JoinRequirements` the joins;
`BeginAcquisition`, `Acquire` and `Return` what follows; `Cancel` the
cancellation at the points where the code tests it.

Abstractions. A package identity is a natural number, because the code only
compares identities as keys of ordered maps. A version is its rank among the
versions of the universe; a subset of ranks are prereleases. A range has two
bounds, their inclusiveness and the set of versions a floating bound matches. A
metadata task yields one of the results its inputs allow: what is cached, what
the feed lists, which exact fetches may fail, which manifests are malformed,
whether sources are mapped and discovery succeeds are fields of `world`.
Acquisition of the remaining packages is one action per package, since those
tasks share no state. `graph_results` of earlier projects with equal inputs,
timings, byte counts and the event log are left out.

### PackageGraphReference

`Resolutions` is the set of assignments of versions that reproduce themselves:
every package reachable from the direct requests selects its version among the
constraints the assignment's own manifests impose. It mentions no scheduler
and does not use the test of ranges for a conflict, as a version that every range admits is
enough: `OrderIndependent` (what is returned is the only resolution) and `ErrorsAreFinal`
(what is rejected has none) compare the concurrent resolver with a definition
that knows nothing of completion order.

### CancellationToken

| Variable | Code |
|---|---|
| `requested`, `phase` | the two atomics of `CancellationToken` |
| `registered` | the `Notified` futures that exist and are not woken |
| `clock` | time since the token's epoch |
| `call` | where each signaling thread is in `request` or `cancel` |
| `stage`, `at`, `until` | where each task is in `next_message` and `cancel_and_stop` of its provider, where in `wait_for`, and when its grace ends |

A signaler's step is one access: `Call` reads the time, `RecordTime` is the
`compare_exchange`, `RaisePhase` a `fetch_max`, `Notify` is `notify_waiters`. A
waiter's is one of the four lines of `wait_for` (`Check`, `Register`, `Recheck`,
`Woken`) or an event of its child (`Answer`, `TimeOut`, `Exit`, `GraceOver`). The
accesses are release and acquire and every thread writes the time before the phase,
so interleaving them has the same outcomes as the hardware. Timers are exact: `Tick`
does not pass one that is armed.

### PackageCache and PackageStore

`PackageCache` follows any number of calls of `ensure_package` for one package
version, each in a process of its own; calls for other versions touch other
paths. The package root and the staging directories are trees of five parts: the
archive, its contents, the nuspec, the hash file and the marker. A part is the
archive it was written from, so a mixed tree is visible. `at` is the call's place:

| Places | Code |
|---|---|
| `find`, `cache`, `fallback` | `find_package_root`, `validate_cached_package` of what it found |
| `source`, `fetch`, `stage` | the loop over the endpoints, `download_package`, the staging directory |
| `unpack`, `describe` | verification and extraction, hash file and `.dv.metadata.json` |
| `rename`, `denied`, `refused` | `publish_package_directory`: the rename, and the test of the destination after a failure, which is a step of its own |
| `won`, `lost` | the two branches after it |
| `done`, `dropped`, `dead` | returned, future dropped at an await, process killed |

`Crash` may happen at every place and leaves directories behind; `Drop` at the
awaits outside the blocking task, which goes on when its future is dropped.
`Abort` is every error that ends a call: cancellation, I/O, an archive with the
wrong hash or size. The circumstances (`world`) are the endpoints of each call
and what they offer (two feeds may offer different archives for one version), the
signature policy of each call, what the cache and a fallback folder hold at the
start, whether a rename replaces an empty directory (Unix) and whether a client
other than dv fills the same root. That client is external: it writes file by
file and the marker last, which is why `validate_cached_package` may rely on the
marker. A client at work where a rename replaces empty directories is left
out: dv could publish over the directory it has just created, and its files would
then go into dv's tree; nothing in this code coordinates with it.

`PackageStore` is the promise: one archive per version, stored once and for good,
and calls answered with it, with a fallback folder's, or with an error.
`PackageCache` implements it with `stored` the archive of a root that has a marker
and `elsewhere` that of the fallback folder.

### HttpTransport and CredentialProvider

`request` holds of each request its place in `send_with_policy` and its counters;
`sourcePermits` and `globalPermits` say who holds which semaphore; `lock` and
`credential` are the mutex of a `SourceCredential` and what it guards; `session` and
`running` are the acquisition in progress for a source and the provider processes.

| Places | Code |
|---|---|
| `source`, `global` | the two permits, in this order (8299-8304) |
| `snapshot`, `send`, `body` | authorization, the request and its response |
| `sleep` | the delay before the next network attempt |
| `queue`, `acquire` | the mutex after a 401, and the acquisition |

A fetch races every await against the cancellation, which is polled first; so once
the token is set its only step is `Cancel`. A probe (`inspect_source_batch`) does not,
and reaches the provider's own test of the token, which is made where a session waits
for a message (`ObserveCancellation`) and before the first provider (`Begin`). A step of
a session is the exchange of one request; Progress and Log messages change nothing but a
timer. `SessionOwnStep` and `OwnStep` are the steps that wait for no answer. The
generation of a credential (`u64`) does not wrap in the model.

### ServiceDiscovery and BatchSession

| Variable | Code |
|---|---|
| `specs`, `cache`, `locks` | the projects, the package folders and `dv.lock.json` files on disk, which outlive commands |
| `session` | the command: project, graph, tasks, what it acquired, what it answered |
| `batch` | `BatchMetadataCache`: keyed by folder, target, identity and version |
| `discovery` | `LazyServiceEndpoints` with the service indexes on their way |
| `budget`, `wrote` | how often the environment may act; the project each lock was written for (history) |

A command goes through its projects (`AnswerEmpty`, `AnswerWarm`, `RejectLock` or
`BeginGraph`); a graph takes packages from the memory (`Reuse`, `AcquireShared`), the
folder (`LoadCached`) or sources (`Discover`, `Arrive`, `Discovered`, then `Load` and the
joins); a lock is kept, or written to a temporary file and renamed (`KeepLock`,
`WriteTemporary`, `Rename`). The environment edits projects and configurations, clears
packages, cancels, kills, makes renames fail and runs another command for the same
project. Requirements with several parents, versions above the lowest and publication
are in `PackageGraph` and `PackageCache`; here a requirement has one parent and a
publication is one step. `WorldsAssumption` says that in the terms of the data: all
manifests ask for one version of an identity, and no reference for less than that, so a
graph has no upgrade and no conflict. Of the assets a lock lists there is the choice per reference;
of RIDs, runtime graph, pruning and central versions, one input that is equal or not.

### RuntimePacks and what it composes

A command chooses (`Choose`) an SDK, the identifiers of the packs and the folder of
packages by the operators of `SdkSelection`, `RuntimeGraph` and `NugetConfig`, then
locates packs and goes through `PackInventory`: the fingerprint is taken in two steps,
as a pack may change between them; `Read`, `Check` and `Discard` use an inventory file,
`Build` and `FindApphostTemplate` make one, `Publish` and `Rename` keep it. A pack is
its generation (what the fingerprint sees of it), whether it is there and whole, and
the name of its apphost. `Replace`, `LosePower` and `Crash` are the environment.

An SDK version is four numbers: a version has one prerelease in the model. Graphs,
files and SDKs are data that the operators interpret; the reference definitions in
`RuntimePacks` say what they should yield without following the code: `SdkFits` by
what a policy allows and what no other candidate improves on, `RidFits` by the length
of paths, `ConfigurationMerged` by the last word about each key.

Before that a command evaluates its project: `Choose` collects its sources
(`SourceTree`) and derives from the same inputs the closure of its references
(`ProjectClosure`) and its frameworks (`FrameworkReferences`), which a restore and a
plan of frameworks compute. A file system is its files, its links with the places they
lead to, the names storage does not tell apart by case, and the order in which
directories list their entries; a path is a sequence of names, and two names may differ
by their case only, whether storage tells them apart or not. `LinkedSources` keeps the
code's two stacks, of work and of the directories it is in; `TakeReference` its tests in
their order. `ProjectSelections` compares with definitions that keep no stack and no
table: `SourcesFit` with all ways down a directory (one with as many names as there are
directories has been somewhere twice), `ClosureFits` with what projects refer to and
which file each spelling is, `FrameworksFit` with what a policy allows and what the next
narrower one takes.

A link leads to a canonical place, or nowhere; a root is given by a path without dot
segments; files do not change during an evaluation. Projects
that cannot be parsed, batches that mix configurations, and the limits of 4 GiB are left
out.

## Runs

| Run | Shows |
|---|---|
| `graph` | over 135 inputs, every completion order ends in the one resolution or in a justified error; the scheduler's books, edges and work set are right at every step; every resolution ends |
| `graph_reentering` | finding: a node that leaves and re-enters accepts a stale result |
| `graph_transient` | finding: an intermediate conflict is final |
| `graph_orphaned` | finding: an orphaned cycle stays and is reported |
| `graph_flaky` | finding: after a failed exact fetch a package is returned without dependencies |
| `token` | two signalers, two children, three calls: the atomics and the notification agree at every interleaving, the grace is shared, and a cancellation reaches every task |
| `cache` | two processes and a foreign client race for one root: the cache implements the store, answers stay true, policies hold, every call ends |
| `transport` | three requests of two sources: permits balance, providers are asked for a reason and not orphaned, declines are reported, a stalled source holds nobody else up, and a cancelled command ends although a source and its provider do not answer |
| `provider_cancel` | finding: a cancelled fetch kills the provider it is asking |
| `batch` | three commands over two projects with edits, clears, kills and failures: answers from locks and from memory are current, locks fail a command for cause only and answer the next one, sources are asked as mapped |
| `batch_policy` | finding: a project that requires signatures takes a package from an earlier one that does not |
| `runtime_packs` | two commands over every roll-forward policy, small graphs and configuration files, links, project references and changing packs: what is selected, merged, collected and closed over is what the definitions say, and inventories are true |

The 135 inputs of `graph` are fourteen that resolve (diamonds with an upgrade, a
shrinking graph, a withdrawn version, nearest wins, an alternate path, a direct
downgrade, ranges that touch, floating and unpublished versions, prereleases, pins and pruning, a
warm and an offline cache), thirteen that must be rejected, and a family of 108
that varies the ranges among four packages. The other inputs provoke staleness
and partial failure on purpose.

Bounds. Five identities are enough for a superseded subtree three deep beside
the two direct requests that compete for it, which is what every interleaving
above needs. Two or three versions give an upgrade and a prerelease. Three
workers let three tasks be out at once, so a stale, a current and a re-queued
result can meet; `MaxRevisions = 4` (64 in the code) makes the revision bound
reachable by the input that never converges and is far above what the others
need. Both limits are constants and every theorem holds for all values of them.
Deadlock checking is off since a resolution that returned stops.

`token` has two signalers, so that their accesses interleave, three calls, so that a
third comes after a forced one, two waiters, so that a notification must reach more
than one, a grace of one tick and a clock of two, so that a grace may run, end, and
have ended before it is read.

`cache` has two calls, which are enough for a winner and a loser, a loser of the
foreign client, and a reader; a third call can only repeat one of these roles, and
the theorems hold for any number. Three archives (trusted, unsigned, broken) give
every pair of feeds and policies. The retries are the code's three. The 33
circumstances are fresh caches with feeds that agree or disagree, caches that hold
an empty, partial or whole root, and fallback folders, each on Windows with and
without a foreign client and on Unix.

`transport` has three requests: two that are challenged together and a third of another
source or a probe before them. Two providers let one decline before another answers,
and be preferred afterwards; two network attempts nest with two challenges. A stalled
source has a limit below the process's, as a bound equal to it would let it take every
permit (the code's defaults keep them apart). In one more circumstance (`Silent`) the
stalled source is the one that is probed first, so that everything waits for its provider
and only a cancellation lets the command end.

`batch` has three commands, so that a lock is written, becomes stale and is read again,
two edits, one cleared package and two faults; two projects share a dependency, or a
directory with different targets; two workers and three sources let indexes arrive in
any order while a task runs. Three identities at two versions give a range whose lowest
version is not to be had and a package that only one policy accepts.

`runtime_packs` explores one kind of circumstance at a time: all policies over all sets
of six SDKs, search roots, all graphs over three identifiers with up to two imports
each, two or three configuration files of up to two elements over the rest, options of
the command line and the environment, links, projects, frameworks, and packs that are
repaired or removed with kills and torn files. Of links there are three at once, at
places beside, inside and below what they lead to: enough for one directory to be
reached twice without a cycle, and for a cycle through two links. An output is spelled as
on disk or in another case, on storage that tells the two apart, where one or both may be
there, and on storage that does not. Three projects refer
to up to two others by spellings that go through a link, differ by case or do not exist,
in batches of one to three roots. Six runtimes are every subset of patches, minors,
majors and prereleases. Of packs, one is replaced once (`MaxStamp = 1`), which is
enough for a stale inventory; the theorems hold for any number. Deadlock checking is off
as commands end. Where only selections are explored one command runs, as no command's
selections depend on another (`commands` of a circumstance).

Fairness of the graph is weak fairness of the whole next-state relation: the owner is one
task that runs whenever it can, and every metadata task ends because requests
have timeouts and cache and archive work is finite. No task is promised to end
before another. In `token` each signaler and each waiter's way through `wait_for` is weakly fair
(threads and woken tasks run); no provider is promised to answer or to exit and no
timer to fire, so forcing alone must end the wait. In `cache` the steps of each call
are weakly fair, as its file operations end and its requests have timeouts; its death,
the drop of its future and the other client are not promised, nor is a rename that
succeeds. In `transport` a request is weakly fair unless its source is the stalled one,
since requests and providers have timeouts; of a request to that source only what waits
for no answer is (`OwnStep`): permits and the mutex are granted, a sleep ends, and a
provider that is stopped or closed exits or is killed after its grace. Its server need not
answer, and its provider need neither answer nor fall silent, as it would to let the timer
end. The observation of a cancellation is fair, as a woken task is polled. That a session's
writes end is assumed (the hazard at `credential_provider.rs:693`). `batch` and `runtime_packs` check safety only and assume no
fairness.

## Findings

1. *A removed node restarts its generations* (`package.rs:7052`). A node
   removed as an orphan and created again starts at generation 0, which a task
   of its first life also carries; its late result passes the staleness test at
   line 6479 and installs the dependencies of the older version.
2. *Intermediate conflicts are final* (`package.rs:6964`). The first empty
   intersection ends the resolution, although a result in flight may retract one
   side.
3. *Orphaned cycles survive* (`package.rs:6940`). Having no incoming constraint is
   not the same as being unreachable.
4. *A failed exact fetch can lose a manifest* (`package.rs:6975`, `7206`). The
   version list answers instead, the same version is selected, and the unchanged
   selection is not queued again.
5. *Cancelling a fetch kills the provider* (`package.rs:8443`). The acquisition is
   raced by the cancellation and dropped, so the Cancel message and the grace of
   `docs/cancellation.md:71-75` happen only for a probe.
6. *The batch's memory knows no signature policy* (`package.rs:2296`). It is keyed by
   folders; a project that requires signatures takes the metadata and the archive an
   earlier project of the command loaded without verifying them. With one policy for
   all projects of a folder, which is the case unless nested configurations differ,
   `batch` shows `PolicyHolds`.

`docs/package-resolution.md:304-306` promises that completion order cannot affect
the package order, the version-conflict text or the lock; findings 1 to 3 show
orders that do, and 4 a returned graph that misses edges.

Observations that no run checks:

- The token is tested before the first provider of an acquisition and not between two
  (`credential_provider.rs:244-252`): after a cancellation, a provider that declines or does
  not apply is followed by the next one, which is launched to be stopped. `CancelDrains`
  shows that this ends.
- A network retry starts the authentication attempts anew (`package.rs:8380-8390`): a
  request may be refused, and ask its provider, more often than the three times of
  `docs/nuget-credential-providers.md:70-71`. `TypeOK` of `HttpTransport` has the bound
  that does hold, three requests per network attempt.
- The SHA-512 of a locked package is decoded and not compared with the folder's
  (`package.rs:10995`).
- A locked package that left its folder fails the command; it is not resolved cold. So
  does one that is looked for in another folder, after an edit of
  `globalPackagesFolder`: the folder is not among the inputs of a lock.
- A package that leaves its folder between its manifest and its assets yields empty
  asset lists, which a lock would record; the model has the packages of an answer and
  not their files.
- Where a rename does not replace, a failure after the removal leaves no lock
  (`package.rs:11136`, see `issues/0004`); the next command resolves cold.
- A .NET Standard project with package pruning that refers to all three known frameworks
  needs four entries of `PruningFrameworkBatch`, which has three: the assertion at
  `package.rs:3624` fails, and without it the index is out of bounds. `FrameworksFit`
  shows that three are enough for the other families.
- In a restore of several roots, a spelling through a link is merged silently when it is
  given as a root (`project.rs:1612-1615`) and an error when it is a reference
  (`1692-1714`), so the order of the roots may decide. `ClosureFits` says what holds.
- A plan reads the configuration without the sources of the command line and without an
  explicit file (`global_packages_directory`, `package.rs:4907-4915`). Where the files leave
  no source enabled, it fails also where a restore that is given `--source` succeeds; the
  second case of `FolderFits` is that, and in all others the two agree on the folder.
- An inventory trusts the manifest, the native directory and the completion marker to
  stand for their pack: an asset that is removed without touching them is not noticed.

## Proofs

`PackageGraphProofs` proves for every set of identities, number of versions,
worker limit, revision limit and set of inputs:

| Theorem | States |
|---|---|
| `TypeCorrect` | `Spec => []TypeOK`: types, and that a removed identity leaves nothing in its slot |
| `SchedulerSafe` | `Spec => []SchedulerSound`: ready holds live unpruned nodes only; in-flight is the tasks' identities, one each; never more tasks than workers |
| `EdgesSafe` | `Spec => []EdgesBacked`: no dependency edge dangles |
| `NothingMissing` | a dirty identity is always in the map, so the early return of `stabilize_constraint_nodes` for a missing one is dead code (and no action of the model) |
| `NeverSpins` | with no task out and something ready, the fill loop can dispatch |

They rest on the assumptions named in `PackageGraph` (identities are a finite
set of naturals, limits are positive, inputs have the input type), which TLC
evaluates in each run. The type invariant is inductive by itself; it needs its
clause about removed identities, since otherwise a late version list could
revive a slot. For `SchedulerSafe` the ready part is inductive given types, but
the part about tasks needs the finiteness of `tasks` to count a new one, so the
inductive invariant carries `IsFiniteSet(tasks)`. `EdgesBacked` is inductive
given types: an action that drops a node retracts its constraints on both sides,
and an action that installs edges creates the children. `NeverSpins` takes the
least eligible identity, which exists because identities are naturals.

The second part of the module is about what is returned. The code does not guarantee it for every
input (findings 1, 3 and 4), so the theorems say under which hypothesis it does:

- `Recognised`: a task that is not stale asks for the version its node selects. It fails
  only by finding 1, and `GenerationsSuffice` proves it from `Kept`, that no node leaves
  the map while a task for it is out.
- `Reliable`: a listed version can be fetched; without it finding 4 bites.
- `Plain`: `Reliable`; an identity without an enabled source has no feed; what the batch
  remembers is in the cache; no package is pruned after its versions were listed. In these
  inputs the reference, which gives each package its whole version list, and the code,
  which lists versions only when it must, choose among the same versions.

| Theorem | States |
|---|---|
| `GenerationsSuffice` | `Spec /\ []Kept => []Recognised` |
| `SelectionsStayCurrent` | `Spec /\ []Recognised => []CurrentInv`: edges are those of the selected manifests, and who is not dirty selects what it carries |
| `DowngradesReported` | `Spec /\ []Recognised => []NoSilentDowngrade` |
| `RevisionsSafe` | `Spec /\ []Recognised => RevisionsRetract` |
| `NothingLeftOver` | `Spec /\ []Recognised => [](failure # "cycle" => NoLeftovers)` |
| `NothingLost`, `ReturnsComplete` | `Spec /\ []Recognised /\ []Reliable => []NoLostWork`, and `[]ManifestsComplete` |
| `ResolutionsReturned` | `Spec /\ []Recognised /\ []Plain => [](pc = "done" => Locked \in Resolutions[world])` |
| `OrderIrrelevant` | then, where the inputs have at most one resolution, `[]OrderIndependent` |

The hypotheses are not empty: in `graph`, 8081 of the 8129 states are reached with
`Recognised` true throughout, every returned graph is `Plain` (those with pruned packages
included), and no inputs have two resolutions. In the runs of findings 1 to 4 most states are
reached with `Recognised` true as well; there the theorems hold.

Everything rests on `SelectionsCurrent`: a live package that is not dirty is `Settled`,
that is, it is not refused, carries the version its constraints select, and is direct or
has a parent. The difficulty is that a selection depends on far more than the node: which
parents are active is decided by `Dominated`, which climbs to ancestors and descends from
the direct packages. `DominatedSame` and `SelectionSame` show that it depends only on the
edges at and above the parents of the node (a path from a root to a parent runs through
ancestors of the parent). So an edit of the edges at `a` concerns only the children of `a` and
the nodes with a parent below `a`, and `DroppedInputs`, `SettledOpens` and `SettledLists`
show that what the code marks dirty (`Retracted`, `Descendants`, `InstallDirties`) covers
them. That is where `GraphInv` is needed: edges and constraints are each other's mirror, and a node has no edges
or those of its selected manifest, so the edges an installation replaces were none or the
same. `ClosureFacts` gives the traversals their meaning, the least closed set, by an
induction over the iterates of `Closure`, which is written with a recursive function.

`WorkInv` says of each package without its manifest what will bring it: it is queued, a
task that is not stale is out, or it is dirty and has no version or one that its list
lacks, which a reselection cannot keep. `NothingLeftOver` takes a package out of reach: it has a
parent that is out of reach too and, as pruned packages have no edges (`PrunedInv`), not
pruned; so among finitely many one lies below itself (`CycleBelow`), and `validate_acyclic`
would have failed. For `ResolutionsReturned` the returned graph and the graph of its
versions have the same edges; where the code had the version list, the same rules choose
from the same list; where it read the manifest of the highest lower bound without listing,
every other acceptable version lies above that bound (`ListingAgrees`).

Only model-checked: `ErrorsAreFinal`, which is about inputs without a resolution and fails
by finding 2, that the inputs of `graph` have one resolution, and that a graph rejected as
cyclic has no leftovers, which fails by finding 3.

`CancellationTokenProofs` proves for any number of threads, tasks and signals and
any grace:

| Theorem | States | Rests on |
|---|---|---|
| `TokenType` | types; no child is granted a negative time | inductive by itself |
| `DeadlineAvailable` | who sees the cancellation finds its deadline | `Recorded`: a call past the exchange has left a request time |
| `OneSignalNeverForces` | forcing takes two calls | `Counted`: what each call in progress has already contributed |
| `TokenMonotone` | neither phase nor deadline is taken back | types |
| `NobodySleepsThrough` | a sleeping task whose phase has come is about to be woken | inductive given types |
| `GraceIsShared` | no child outlives the first signal's grace | `DeadlineKept`: what is granted is measured from that signal |

`PackageCacheProofs` proves for any number of calls, archives and retries and for
all circumstances that satisfy `WorldsAssumption`:

| Theorem | States |
|---|---|
| `CacheType` | types; the rename is retried no more often than there are delays |
| `RootsWhole` | a root with a marker is the whole tree of one archive |
| `AnswersKept` | what a call was told of the cache is true and stays true |
| `PolicyKept` | a call that requires signatures gets no package its policy rejects |
| `CacheImplementsStore` | `Spec => Store!Spec`: the protocol implements the abstract store |

`AnswersHold` is not inductive: that the winner's root is whole depends on what it
staged, that it stays so on who may still write there. The invariant `IInv` adds
what each place of a call guarantees about its staging directory (`Carries`), that a
call which has not returned has no answer (`Told`), and that a root without a marker
has files of the foreign client only, which is at work on no root with a marker
(`RootSound`). From it follows `WholeStays`, that no step of anybody changes a
whole root, and `Outcome`, that a call goes on without an answer or ends with an
honest one; the four invariants and the refinement all rest on these two. The
refinement maps a step that leaves the answers alone to `Publish` or a stutter,
and one that ends a call to `Answer`.

`HttpTransportProofs` proves for any number of sources, requests and providers and
all circumstances that satisfy `WorldsAssumption`:

| Theorem | States |
|---|---|
| `TransportType` | types; three requests per network attempt, and no more attempts than `max_tries` |
| `Reasoned` | a provider is asked for a request that holds the mutex and was refused with the credential that still is the source's |
| `Reaped` | processes are those of sessions in progress |
| `Sticky` | the provider that served a source keeps it |
| `Honest` | no acquisition that ends empty hides a decline |
| `Balanced` | permits are held by the requests at the places that need them, within the limits |

All but `Balanced` rest on one invariant that says, for the holder of a mutex, where it is
and what its session may know, and for all other sources that nothing runs; a step of
one request leaves the sources of the others alone. `Balanced` adds that the sets of
holders are finite, to count them.

`RuntimePacksProofs` proves of the inventories, for any number of commands, packs and
folders and any `MaxStamp`, and of what commands select, in all circumstances that satisfy
`WorldsAssumption`:

| Theorem | States | Rests on |
|---|---|---|
| `InventoriesStayTrue` | a file that would serve a command that starts now tells what is in the packs | `IInv` |
| `PlansStayFresh` | a plan is no older than when its packs were located; a command fails only for a pack that is, or has come to be, other than whole | `IInv` |
| `SelectionsAlwaysFit` | `PlanSpec => []SelectionFits`: the SDK and the runtime identifiers | `PlanIInv`, `SdkSelected`, `RidSelected` |
| `FrameworksAlwaysFit` | `PlanSpec => []FrameworksFit`: the rows of the plan, and what is pruned | `PlanIInv`, `FrameworksPlanned` |
| `ConfigurationAlwaysMerged` | `PlanSpec => []ConfigurationMerged`: the configuration, and the folder of packages | `PlanIInv`, `ConfigIs`, `FolderIs` |
| `PlansUseInventories` | `PlanSpec => Spec`: commands that select implement `PackInventory` | `PlanIInv`, `IInv`, `FolderKnown` |
| `PlansKeepInventories` | `PlanSpec => []InventoriesTrue /\ []PlansFresh` | the theorems above |

The invariant of the inventories relates generations, which only grow: of a file, what it
tells is no older than its fingerprint, and as old as that only if it is still true
(`EntriesSound`); of a command, the same of its fingerprint and of what it has read so far
(`CallSound`). A fingerprint taken before the packs are read can thus be too old for what
is kept under it, and then is no longer current; taken afterwards it could be too new,
which is what the mutant of `Key` does.

The invariant of the selections is short (the world stays one of those there are, and a
command that has selected selected what the operators give in it); the work is to show for
every input what the operators give. Versions are ordered strictly and totally
(`BelowOrders`), so a finite set of them has a highest one and lowest groups
(`TopmostExists`); from that, what a policy takes (`SelectionByPolicy`), and that a wider
policy takes what a narrower one takes if it takes anything (`NarrowerFirst`,
`NarrowerRuntimeFirst`). The queue of `compile_compatibility_ranges` never holds an
identifier twice, so as many rounds as there are identifiers expand all of it
(`CompatibilitiesAre`: pigeonhole); what is within n imports is always a front of it
(`ReachFollows`), hence the queue is in the order of distance and the first supported
identifier is a nearest one. The frameworks go through two translations of the references,
one for the plan and one for pruning; `RequestedAre` and `BatchIs` show that they name the
same.

A configuration is made by two nested loops, over files and over their elements, that
change lists of rows; what it should be is defined by the words of all files, which have
places and an order but no lists. `Reflects` relates the two at any moment: each row is
the last word on its key of those heard so far, the rows are in the order of the first
words, and every key that is alive has a row. `AppliedReflects` keeps it through a clear,
a removal and an addition, `FileReflects` through a file, `MergedReflects` through all of
them, to where every word is heard. From there `SourcesAre` drops what is disabled,
`FallbacksListed` sorts (`Arranged`: an order of places without ties has a sequence, by
counting what is ahead of each), and `TakenIs` takes each value of the command line
where it comes first.

Loops over sequences are folds, and a fold is defined by a function on sets of places of
which nothing is known before it is shown to exist. `Folding` does that once for any
operator, a constant of the module: `FoldTrace` gives the values that a fold goes through
one after the other, and `Numbers` the induction over them. Each proof about a loop takes an
instance with the body of the loop: `RootFold`, `VisitFold`, `RoundFold` and `ReachFold`, and
of the configuration `ElementFold`, `FileFold`, `KeepFold` and `TakenFold`.

What is assumed of a circumstance is what the code gets from its inputs: versions are of
the type of `SdkVersion` and neither absent value is one; each search root and each shared
framework has finitely many; a runtime graph has finitely many identifiers, none of which
is the absent one; references have been merged by name; what runs a framework has an entry
(that may be empty) among the installed; there are no more prunable frameworks than the
three a batch has room for (`package.rs:3606`), each of which runs itself; an element of a
file has a section and an operation that `merge_config` knows; the command line, the
environment, the default and the files name folders where they name the folder of packages
(`ConfigInputs`). A value that is absent is not the mode `require`.

`ServiceDiscoveryProofs` and `BatchSessionProofs` prove for any number of projects,
commands, workers, edits, clears and faults, and all worlds that satisfy
`WorldsAssumption`:

| Theorem | States | Rests on |
|---|---|---|
| `SelectedIsEntitled` | the sources of greatest rank are those with a pattern that none beats | maxima of finite sets |
| `TypeCorrect` | types; a command is at one of its projects, tasks belong to nodes and ask sources of the configuration, no more indexes are fetched than there are workers | inductive by itself |
| `CurrentInvariant` | the invariant `CurrentInv` | types |
| `AnswersAreCurrent` | an answer is the closure of what the project asks for, as it is now | `CurrentInv` |
| `LocksRoundTrip` | a lock answers the next command for the project it was written for | `CurrentInv` |
| `PresentInvariant` | `PresentInv`: while nothing was cleared, what locks, memory and graph name is in its folder | `CurrentInv` |
| `LocksFailForCause` | a lock fails a command for an edit, a package that left, or a signature | `CurrentInv`, `PresentInv` |
| `PolicyInvariant`, `PolicyIsKept` | `Spec /\ []OnePolicy => []PolicyHolds`: no answer of a project that requires signatures names an unsigned archive | `PolicyInv`: what memory and graph hold for such a project is signed |
| `DiscoveryInvariant` | `DiscoveryInv` | types, `CurrentInv` |
| `DiscoveryIsSound` | sources are asked as mapped; the failure reported is that of the first failing source | `DiscoveryInv`, `SelectedIsEntitled` |

That answers are current is not inductive: an answer may come from a lock that another
command wrote, a lock from a graph, a graph from what an earlier project left in memory.
`CurrentInv` has a part for each. `GraphSound`: an identity is in the graph because a
reference or a manifest that was read requires it, at the version required, the
requirements of every node that is known are in the graph, and what was acquired is at
its node's version. `BatchSound`: what is remembered under a key are the dependencies the
manifest has for the target of the key, which is why the target must be in it.
`LocksSound`: a lock is of the project in `wrote`, with its target, its inputs, a source
it has, its requests and the closure of them. `AnswersSound`: the same of answers.
`ErrorSound`: no command fails for a lock that is torn or contradicts itself.
A graph is closed when nothing is ready or loading, and
reachable because each node has a parent; both survive a step because no step replaces a
requirement. That is where `RequirementsAgree` is needed; what several constraints on one
identity come to is `PackageGraph`'s. `LockFailsForCause` needs more: that a package a lock names is in its
folder follows from its having been acquired, which follows from what the memory vouches
for. `PolicyIsKept` has the hypothesis that projects which share a folder have one
policy, since it is false without it (finding 6). `DiscoveryInv` relates the queue of service
indexes to the nodes of the graph for which they were asked; that no source is lost
between queue, workers and results (`SlotsSound`) makes the reported failure independent
of the order of arrival.

Liveness (`Termination`, `Responsive`, `Answered`, `BusySourceIsAlone`, `CancelDrains`) is
model-checked only: liveness under fairness is out of the prover's reach. So are two
properties of `runtime_packs` about selections, `SourcesFit` and `ClosureFits`, which compare
walks over trees of files, with their stacks and their order of visits, with definitions by
all ways and all reachable projects: their proofs are inductions over those trees that this
project has not made. `TokenMonotone` is proved and not a property of a run; nor are the type
invariants of the graph, the token, the cache and the batch, which their theorems show for
all instances.

## Plan

Done, in this order: the package graph and its proofs, the token, the package cache
and its refinement, the transport with the credential providers, service discovery and
the batch session, the planning of runtime packs with the pure selections it uses, the
collection of sources, the closure of project references, the frameworks.

Left: event validation (`event.rs`) and the exit policy, as operators against reference
definitions; asset selection within a package.

## Not modelled

Text and bytes: parsing of versions, configurations, manifests, archives, signatures
and MSBuild expressions, the wording of errors and the rendering of output. Of the
configuration: certificates, proxies, trusted signers and audit sources, which follow
the same merge and feed clients and verifiers that are not modelled. What a project
evaluates to (properties, items, conditions, central versions) and which workspace a
directory has are a single-threaded interpretation of MSBuild text; the command line
parses, routes and prints. Most of the lines of the repository are of
these kinds, and of tests and benchmarks. Generated pruning tables are an input of the
graph. Development tools, benchmarks and fixtures are not part of the program. Of the
package cache: loss of power (the code does not force a staged tree to stable storage),
removal of a published root while it is being published, and bytes that change under a
published name. Of the transport: the length of delays and the choice of a client.
