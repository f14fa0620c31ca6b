--------------------------- MODULE PackageCacheProofs ---------------------------
(***************************************************************************)
(* Safety of the package cache, and its implementation of PackageStore,    *)
(* for any number of calls, archives and retries and all circumstances.    *)
(***************************************************************************)
EXTENDS PackageCache, TLAPS

\* The archive a call carries, and what its staging directory holds of it.
Carries(r) ==
    /\ at[r] = "fetch" => HasSource(r)
    /\ at[r] \in ({"stage"} \cup Blocking) \ {"lost"} => archive[r] \in Archives
    /\ at[r] = "unpack" => staging[r].file["nupkg"] = archive[r]
    /\ at[r] = "describe" =>
           \A part \in {"nupkg", "content", "nuspec"} : staging[r].file[part] = archive[r]
    /\ at[r] \in {"rename", "denied", "refused"} => Whole(staging[r], archive[r])
    /\ at[r] \in {"describe", "rename", "denied", "refused", "won"} => Accepted(r, archive[r])
    /\ at[r] = "won" => Whole(root, archive[r])

\* What a call was told, once it is told.
Told(r) ==
    /\ at[r] # "done" => answer[r] = NoAnswer
    /\ answer[r].status = "cache" =>
           answer[r].archive \in Archives /\ Whole(root, answer[r].archive)

\* What the root may hold, whoever wrote it.
RootSound ==
    /\ Sound(root, world.client)
    /\ writing => root.exists /\ root.file["marker"] = Missing /\ world.clientRuns

IInv ==
    /\ TypeOK
    /\ RootSound
    /\ \A r \in Calls : Carries(r) /\ Told(r)
    /\ PolicyHolds

-------------------------------------------------------------------------------
(* Directories.                                                            *)

LEMMA DirectoryFacts ==
    /\ Absent \in Directories
    /\ \A a \in Archives \cup {Missing} : Tree(a) \in [Parts -> Archives \cup {Missing}]
    /\ \A a \in Archives : Linked(a) \in Directories /\ Linked(a).file["nupkg"] = a
  BY DEF Absent, Directories, Tree, Linked, Parts

\* The world keeps its type.
LEMMA WorldFacts ==
    ASSUME world \in Worlds
    PROVE  /\ world.sources \in [Calls -> Seq(Sources)]
           /\ world.strict \in SUBSET Calls
           /\ world.fallback \in Directories /\ world.cached \in Directories
           /\ world.client \in Archives \cup {Missing}
           /\ world.clientRuns \in BOOLEAN /\ world.replacesEmpty \in BOOLEAN
           /\ Sound(world.fallback, world.client) /\ Sound(world.cached, world.client)
           /\ world.clientRuns => world.client \in Archives /\ ~world.replacesEmpty
  <1>1. world \in Circumstances
    BY WorldsAssumption
  <1> QED
    BY <1>1, WorldsAssumption DEF Circumstances

\* A sound directory with a marker is the whole tree of one archive.
LEMMA SoundWhole ==
    ASSUME NEW dir, NEW client, Sound(dir, client), dir.file["marker"] # Missing
    PROVE  /\ dir.file["sha512"] \in Archives
           /\ Whole(dir, dir.file["sha512"])
           /\ dir.file["nupkg"] = dir.file["sha512"]
  BY DEF Sound, Whole, Tree, Parts

\* A whole tree has every file.
LEMMA WholeMarked ==
    ASSUME NEW dir, NEW a \in Archives, Whole(dir, a)
    PROVE  /\ \A part \in Parts : dir.file[part] = a /\ dir.file[part] # Missing
           /\ dir.exists /\ ~Empty(dir)
  <1>1. \A part \in Parts : dir.file[part] = a
    BY DEF Whole, Tree
  <1>2. a # Missing
    BY MissingAssumption
  <1>3. Absent.file["marker"] = Missing /\ "marker" \in Parts
    BY DEF Absent, Parts
  <1>4. dir.file["marker"] # Absent.file["marker"]
    BY <1>1, <1>2, <1>3
  <1> QED
    BY <1>1, <1>2, <1>4 DEF Whole, Empty

\* What a call may use of a sound directory is its one archive.
LEMMA ValidWhole ==
    ASSUME NEW r \in Calls, NEW dir, NEW client, Sound(dir, client), Valid(r, dir)
    PROVE  /\ dir.file["marker"] # Missing
           /\ dir.file["sha512"] \in Archives
           /\ Whole(dir, dir.file["sha512"])
           /\ r \in world.strict => dir.file["sha512"] \in world.trusted
  <1>1. dir.file["marker"] # Missing
    BY DEF Valid
  <1>2. r \in world.strict => dir.file["nupkg"] \in world.trusted
    BY DEF Valid
  <1> QED
    BY <1>1, <1>2, SoundWhole

-------------------------------------------------------------------------------
(* Types.                                                                  *)

\* A return changes the variables of its own call only, and to their types.
LEMMA EndType ==
    ASSUME TypeOK, NEW r \in Calls, NEW status \in {"error", "cache", "fallback"},
           NEW a \in Archives \cup {Missing}, End(r, status, a)
    PROVE  TypeOK'
  <1>1. [status |-> status, archive |-> a] \in Answers
    BY DEF Answers
  <1>2. answer' \in [Calls -> Answers]
    BY <1>1 DEF End, TypeOK
  <1>3. staging' \in [Calls -> Directories]
    BY DirectoryFacts DEF End, TypeOK
  <1>4. scratch' \in [Calls -> BOOLEAN] /\ at' \in [Calls -> Places \cup Over]
    BY DEF End, Go, TypeOK, Over
  <1> QED
    BY <1>2, <1>3, <1>4 DEF End, TypeOK, shared

LEMMA FailType ==
    ASSUME TypeOK, NEW r \in Calls, Fail(r)
    PROVE  TypeOK'
  BY EndType DEF Fail

\* A step to another place that changes nothing else.
LEMMA GoType ==
    ASSUME TypeOK, NEW r \in Calls, NEW place \in Places \cup Over, Go(r, place)
    PROVE  at' \in [Calls -> Places \cup Over]
  BY DEF Go, TypeOK

LEMMA UseType ==
    ASSUME TypeOK, NEW r \in Calls, NEW place, NEW dir, dir \in Directories,
           NEW status \in {"cache", "fallback"}, Use(r, place, dir, status)
    PROVE  TypeOK'
  <1>1. dir.file["sha512"] \in Archives \cup {Missing}
    BY DEF Directories, Parts
  <1>2. CASE Valid(r, dir)
    BY <1>1, <1>2, EndType DEF Use
  <1>3. CASE ~Valid(r, dir)
    BY <1>3, FailType DEF Use
  <1> QED
    BY <1>2, <1>3

\* The endpoint a call is at is one of its sources.
LEMMA CurrentSource ==
    ASSUME TypeOK, NEW r \in Calls, HasSource(r)
    PROVE  Current(r) \in Sources
  <1>1. world.sources[r] \in Seq(Sources)
    BY WorldFacts DEF TypeOK
  <1>2. source[r] \in 1..Len(world.sources[r])
    BY <1>1 DEF TypeOK, HasSource
  <1> QED
    BY <1>1, <1>2 DEF Current

\* A staging directory that receives files of an archive keeps its type.
LEMMA StagingType ==
    ASSUME TypeOK, NEW r \in Calls, NEW dir \in Directories,
           staging' = [staging EXCEPT ![r] = dir]
    PROVE  staging' \in [Calls -> Directories]
  BY DEF TypeOK

LEMMA FileType ==
    ASSUME NEW f \in [Parts -> Archives \cup {Missing}], NEW part \in Parts,
           NEW a \in Archives \cup {Missing}
    PROVE  [f EXCEPT ![part] = a] \in [Parts -> Archives \cup {Missing}]
  OBVIOUS

LEMMA MoveType ==
    ASSUME TypeOK, NEW r \in Calls,
           Find(r) \/ NextSource(r) \/ BeginFetch(r) \/ RenameFails(r) \/ Crash(r)
    PROVE  TypeOK'
  <1>1. \E place \in Places \cup Over : Go(r, place)
    BY DEF Find, NextSource, BeginFetch, RenameFails, Crash, Places, Blocking, Over
  <1>2. at' \in [Calls -> Places \cup Over]
    BY <1>1, GoType
  <1>3. UNCHANGED <<shared, archive, tries, staging, answer>>
    BY DEF Find, NextSource, BeginFetch, RenameFails, Crash
  <1>4. source' \in [Calls -> Nat \ {0}]
    BY DEF Find, NextSource, BeginFetch, RenameFails, Crash, TypeOK
  <1>5. scratch' \in [Calls -> BOOLEAN]
    BY DEF Find, NextSource, BeginFetch, RenameFails, Crash, TypeOK
  <1> QED
    BY <1>2, <1>3, <1>4, <1>5 DEF TypeOK, shared

LEMMA FetchedType ==
    ASSUME TypeOK, NEW r \in Calls, Fetched(r), HasSource(r)
    PROVE  TypeOK'
  <1>1. at' \in [Calls -> Places \cup Over]
    BY GoType DEF Fetched, Places
  <1>2. Current(r).offers \in Archives \cup {Missing}
    BY CurrentSource DEF Sources
  <1>3. archive' \in [Calls -> Archives \cup {Missing}]
    BY <1>2 DEF Fetched, TypeOK
  <1> QED
    BY <1>1, <1>3 DEF Fetched, TypeOK, shared

LEMMA StageType ==
    ASSUME TypeOK, NEW r \in Calls, Stage(r), archive[r] \in Archives
    PROVE  TypeOK'
  <1>1. at' \in [Calls -> Places \cup Over]
    BY GoType DEF Stage, Places, Blocking
  <1>2. staging' \in [Calls -> Directories]
    BY StagingType, DirectoryFacts DEF Stage
  <1> QED
    BY <1>1, <1>2 DEF Stage, TypeOK, shared

LEMMA StageLocalType ==
    ASSUME TypeOK, NEW r \in Calls, StageLocal(r)
    PROVE  TypeOK'
  <1>1. at' \in [Calls -> Places \cup Over]
    BY GoType DEF StageLocal, Places, Blocking
  <1>2. Current(r).offers \in Archives
    BY CurrentSource DEF StageLocal, Sources
  <1>3. archive' \in [Calls -> Archives \cup {Missing}]
    BY <1>2 DEF StageLocal, TypeOK
  <1>4. staging' \in [Calls -> Directories]
    BY <1>2, StagingType, DirectoryFacts DEF StageLocal
  <1> QED
    BY <1>1, <1>3, <1>4 DEF StageLocal, TypeOK, shared

LEMMA UnpackType ==
    ASSUME TypeOK, NEW r \in Calls, Unpack(r)
    PROVE  TypeOK'
  <1>1. CASE Fail(r)
    BY <1>1, FailType
  <1>2. CASE ~Fail(r)
    <2> DEFINE f == [staging[r].file EXCEPT !["content"] = archive[r], !["nuspec"] = archive[r]]
    <2>1. at' \in [Calls -> Places \cup Over]
      BY <1>2, GoType DEF Unpack, Places, Blocking
    <2>2. staging[r].file \in [Parts -> Archives \cup {Missing}]
      BY DEF TypeOK, Directories
    <2>3. archive[r] \in Archives \cup {Missing}
      BY DEF TypeOK
    <2>4. f \in [Parts -> Archives \cup {Missing}]
      BY <2>2, <2>3
    <2>5. [exists |-> TRUE, file |-> f] \in Directories
      BY <2>4 DEF Directories
    <2>6. staging' = [staging EXCEPT ![r] = [exists |-> TRUE, file |-> f]]
      BY <1>2 DEF Unpack, TypeOK
    <2>7. staging' \in [Calls -> Directories]
      BY <2>5, <2>6, StagingType
    <2> QED
      BY <1>2, <2>1, <2>7 DEF Unpack, TypeOK, shared
  <1> QED
    BY <1>1, <1>2

LEMMA DescribeType ==
    ASSUME TypeOK, NEW r \in Calls, Describe(r)
    PROVE  TypeOK'
  <1> DEFINE f == [staging[r].file EXCEPT !["sha512"] = archive[r], !["marker"] = archive[r]]
  <1>1. at' \in [Calls -> Places \cup Over]
    BY GoType DEF Describe, Places, Blocking
  <1>2. staging[r].file \in [Parts -> Archives \cup {Missing}]
    BY DEF TypeOK, Directories
  <1>3. archive[r] \in Archives \cup {Missing}
    BY DEF TypeOK
  <1>4. f \in [Parts -> Archives \cup {Missing}]
    BY <1>2, <1>3
  <1>5. [exists |-> TRUE, file |-> f] \in Directories
    BY <1>4 DEF Directories
  <1>6. staging' = [staging EXCEPT ![r] = [exists |-> TRUE, file |-> f]]
    BY DEF Describe, TypeOK
  <1>7. staging' \in [Calls -> Directories]
    BY <1>5, <1>6, StagingType
  <1> QED
    BY <1>1, <1>7 DEF Describe, TypeOK, shared

LEMMA RenameType ==
    ASSUME TypeOK, NEW r \in Calls, Rename(r)
    PROVE  TypeOK'
  <1>1. at' \in [Calls -> Places \cup Over]
    BY GoType DEF Rename, Places, Blocking
  <1>2. staging' \in [Calls -> Directories]
    BY StagingType, DirectoryFacts DEF Rename
  <1>3. root' \in Directories
    BY DEF Rename, TypeOK
  <1> QED
    BY <1>1, <1>2, <1>3 DEF Rename, TypeOK

LEMMA RecheckType ==
    ASSUME TypeOK, NEW r \in Calls, Recheck(r)
    PROVE  TypeOK'
  <1>1. CASE Fail(r)
    BY <1>1, FailType
  <1>2. CASE ~Fail(r)
    <2>1. at' \in [Calls -> Places \cup Over]
      BY <1>2, GoType DEF Recheck, Places, Blocking
    <2>2. tries' \in [Calls -> 0..Retries]
      BY <1>2, RetriesAssumption DEF Recheck, TypeOK
    <2> QED
      BY <1>2, <2>1, <2>2 DEF Recheck, TypeOK, shared
  <1> QED
    BY <1>1, <1>2

LEMMA SettleType ==
    ASSUME TypeOK, NEW r \in Calls, Settle(r)
    PROVE  TypeOK'
  <1>1. archive[r] \in Archives \cup {Missing} /\ root \in Directories
    BY DEF TypeOK
  <1>2. CASE End(r, "cache", archive[r])
    BY <1>1, <1>2, EndType
  <1>3. CASE Use(r, "lost", root, "cache")
    BY <1>1, <1>3, UseType
  <1> QED
    BY <1>2, <1>3 DEF Settle

LEMMA DropType ==
    ASSUME TypeOK, NEW r \in Calls, Drop(r), at[r] = "stage" => archive[r] \in Archives
    PROVE  TypeOK'
  <1>1. at' \in [Calls -> Places \cup Over]
    BY GoType DEF Drop, Over
  <1>2. scratch' \in [Calls -> BOOLEAN]
    BY DEF Drop, TypeOK
  <1>3. CASE staging' = staging
    BY <1>1, <1>2, <1>3 DEF Drop, TypeOK, shared
  <1>4. CASE at[r] = "stage" /\ staging' = [staging EXCEPT ![r] = Linked(archive[r])]
    <2>1. staging' \in [Calls -> Directories]
      BY <1>4, StagingType, DirectoryFacts
    <2> QED
      BY <1>1, <1>2, <2>1 DEF Drop, TypeOK, shared
  <1> QED
    BY <1>3, <1>4 DEF Drop

LEMMA ClientType ==
    ASSUME TypeOK, Client
    PROVE  TypeOK'
  <1>1. root' \in Directories
    <2>1. root.file \in [Parts -> Archives \cup {Missing}]
      BY DEF TypeOK, Directories
    <2>2. world.client \in Archives \cup {Missing}
      BY WorldFacts DEF TypeOK
    <2>3. CASE ClientBegins
      BY <2>1, <2>3 DEF ClientBegins, Directories
    <2>4. ASSUME NEW part \in Parts, ClientWrites(part) PROVE root' \in Directories
      BY <2>1, <2>2, <2>4 DEF ClientWrites, Directories
    <2>5. CASE ClientStops
      BY <2>5 DEF ClientStops, TypeOK
    <2> QED
      BY <2>3, <2>4, <2>5 DEF Client
  <1>2. writing' \in BOOLEAN
    BY DEF Client, ClientBegins, ClientWrites, ClientStops
  <1>3. UNCHANGED own
    BY DEF Client, ClientBegins, ClientWrites, ClientStops
  <1> QED
    BY <1>1, <1>2, <1>3 DEF TypeOK, own

LEMMA StepType ==
    ASSUME IInv, [Next]_vars
    PROVE  TypeOK'
  <1> USE DEF IInv
  <1>1. CASE UNCHANGED vars
    BY <1>1 DEF vars, TypeOK
  <1>2. ASSUME NEW r \in Calls, Step(r) PROVE TypeOK'
    <2>1. CASE Find(r) \/ NextSource(r) \/ BeginFetch(r) \/ RenameFails(r)
      BY <2>1, MoveType
    <2>2. CASE Use(r, "cache", root, "cache")
      BY <2>2, UseType DEF TypeOK
    <2>3. CASE Use(r, "fallback", world.fallback, "fallback")
      BY <2>3, UseType, WorldFacts DEF TypeOK
    <2>4. CASE Exhausted(r) \/ Abort(r)
      BY <2>4, FailType DEF Exhausted, Abort
    <2>5. CASE Fetched(r)
      BY <2>5, FetchedType DEF Fetched, Carries
    <2>6. CASE Stage(r)
      BY <2>6, StageType DEF Stage, Carries
    <2>7. CASE StageLocal(r)
      BY <2>7, StageLocalType
    <2>8. CASE Unpack(r) \/ Describe(r) \/ Rename(r)
      BY <2>8, UnpackType, DescribeType, RenameType
    <2>9. CASE Recheck(r) \/ Settle(r)
      BY <2>9, RecheckType, SettleType
    <2> QED
      BY <1>2, <2>1, <2>2, <2>3, <2>4, <2>5, <2>6, <2>7, <2>8, <2>9 DEF Step
  <1>3. ASSUME NEW r \in Calls, Drop(r) PROVE TypeOK'
    BY <1>3, DropType DEF Carries
  <1>4. ASSUME NEW r \in Calls, Crash(r) PROVE TypeOK'
    BY <1>4, MoveType
  <1>5. CASE Client
    BY <1>5, ClientType
  <1> QED
    BY <1>1, <1>2, <1>3, <1>4, <1>5 DEF Next

-------------------------------------------------------------------------------
(* The root.                                                               *)

\* A whole tree in the cache is never touched again, by anybody.
LEMMA WholeStays ==
    ASSUME IInv, [Next]_vars, NEW a \in Archives, Whole(root, a)
    PROVE  root' = root
  <1>1. /\ \A part \in Parts : root.file[part] # Missing
        /\ root.exists /\ ~Empty(root)
    BY WholeMarked
  <1>2. root.file["marker"] # Missing
    BY <1>1 DEF Parts
  <1>3. ~writing
    BY <1>2 DEF IInv, RootSound
  <1>4. \A r \in Calls : ~Rename(r)
    BY <1>1 DEF Rename, Replaceable
  <1>5. ~ClientBegins /\ \A part \in Parts : ~ClientWrites(part)
    BY <1>2, <1>3 DEF ClientBegins, ClientWrites
  <1>6. ASSUME NEW r \in Calls, Step(r) PROVE root' = root
    BY <1>4, <1>6
    DEF Step, Find, Use, End, Fail, Exhausted, NextSource, BeginFetch, Fetched, Stage,
        StageLocal, Unpack, Describe, RenameFails, Recheck, Settle, Abort, shared
  <1> QED
    BY <1>5, <1>6 DEF Next, Drop, Crash, Client, ClientStops, shared, vars

\* Nothing but a rename and the other client changes the root, and nothing the world.
LEMMA SharedFrame ==
    ASSUME NEW r \in Calls, Step(r) \/ Drop(r) \/ Crash(r)
    PROVE  /\ world' = world /\ writing' = writing
           /\ ~Rename(r) => root' = root
  BY DEF Step, Find, Use, End, Fail, Exhausted, NextSource, BeginFetch, Fetched, Stage,
         StageLocal, Unpack, Describe, Rename, RenameFails, Recheck, Settle, Abort, Drop,
         Crash, shared

LEMMA WorldStays ==
    ASSUME [Next]_vars
    PROVE  world' = world
  <1>1. ASSUME Client PROVE world' = world
    BY <1>1 DEF Client, ClientBegins, ClientWrites, ClientStops, own
  <1> QED
    BY <1>1, SharedFrame DEF Next, vars

LEMMA RootStep ==
    ASSUME IInv, [Next]_vars
    PROVE  RootSound'
  <1> USE DEF IInv
  <1>1. world' = world
    BY WorldStays
  <1>2. ASSUME root' = root, writing' = writing \/ ~writing' PROVE RootSound'
    BY <1>1, <1>2 DEF RootSound
  <1>3. ASSUME NEW r \in Calls, Rename(r) PROVE RootSound'
    <2>1. archive[r] \in Archives /\ Whole(root', archive[r])
      BY <1>3 DEF Carries, Rename, Blocking
    <2>2. root'.exists
      BY <2>1 DEF Whole
    <2>3. Sound(root', world'.client)
      BY <2>1, <2>2 DEF Sound
    <2>4. ~writing'
      <3>1. ASSUME writing PROVE FALSE
        <4>1. root.exists /\ world.clientRuns
          BY <3>1 DEF RootSound
        <4>2. ~world.replacesEmpty
          BY <4>1, WorldFacts DEF TypeOK
        <4> QED
          BY <1>3, <4>1, <4>2 DEF Rename, Replaceable
      <3> QED
        BY <1>3, <3>1 DEF Rename
    <2> QED
      BY <2>3, <2>4 DEF RootSound
  <1>4. ASSUME ClientBegins PROVE RootSound'
    <2>1. root.file["marker"] = Missing /\ world.clientRuns
      BY <1>4 DEF ClientBegins
    <2>2. \A part \in Parts : root.file[part] \in {Missing, world.client}
      BY <2>1, SoundWhole, WholeMarked, MissingAssumption DEF RootSound, Sound, Parts
    <2>3. root' = [exists |-> TRUE, file |-> root.file]
      BY <1>4 DEF ClientBegins
    <2>4. root'.exists /\ root'.file = root.file
      BY <2>3
    <2>5. Sound(root', world'.client)
      BY <1>1, <2>1, <2>2, <2>4 DEF Sound
    <2> QED
      BY <1>1, <2>1, <2>4, <2>5 DEF RootSound
  <1>5. ASSUME NEW part \in Parts, ClientWrites(part) PROVE RootSound'
    <2>1. /\ writing /\ root.file[part] = Missing
          /\ part = "marker" => \A other \in Parts \ {part} : root.file[other] # Missing
          /\ root' = [exists |-> TRUE, file |-> [root.file EXCEPT ![part] = world.client]]
          /\ writing' = (part # "marker")
      BY <1>5 DEF ClientWrites
    <2>2. root.file["marker"] = Missing /\ world.clientRuns /\ world.client \in Archives
      BY <2>1, WorldFacts DEF RootSound, TypeOK
    <2>3. \A p \in Parts : root.file[p] \in {Missing, world.client}
      BY <2>2, WholeMarked, MissingAssumption DEF RootSound, Sound, Parts
    <2>4. root.file \in [Parts -> Archives \cup {Missing}]
      BY DEF TypeOK, Directories
    <2>5. root'.exists /\ root'.file = [root.file EXCEPT ![part] = world.client]
      BY <2>1
    <2>6. /\ root'.file[part] = world.client
          /\ \A p \in Parts \ {part} : root'.file[p] = root.file[p]
          /\ root'.file \in [Parts -> Archives \cup {Missing}]
      BY <2>2, <2>4, <2>5
    <2>7. CASE part = "marker"
      <3>1. \A p \in Parts : root'.file[p] = world.client
        BY <2>1, <2>3, <2>6, <2>7
      <3>2. root'.file = Tree(world.client)
        BY <2>6, <3>1 DEF Tree
      <3>3. Whole(root', world.client)
        BY <2>5, <3>2 DEF Whole
      <3>4. Sound(root', world'.client)
        BY <2>2, <2>5, <3>3 DEF Sound
      <3> QED
        BY <2>1, <2>7, <3>4 DEF RootSound
    <2>8. CASE part # "marker"
      <3>1. root'.file["marker"] = Missing
        BY <2>2, <2>6, <2>8 DEF Parts
      <3>2. \A p \in Parts : root'.file[p] \in {Missing, world.client}
        BY <2>3, <2>6
      <3>3. Sound(root', world'.client)
        BY <1>1, <2>5, <3>1, <3>2 DEF Sound
      <3> QED
        BY <1>1, <2>2, <2>5, <3>1, <3>3 DEF RootSound
    <2> QED
      BY <2>7, <2>8
  <1>6. ASSUME ClientStops PROVE RootSound'
    BY <1>2, <1>6 DEF ClientStops
  <1>7. ASSUME NEW r \in Calls, Step(r) \/ Drop(r) \/ Crash(r) PROVE RootSound'
    BY <1>2, <1>3, <1>7, SharedFrame
  <1>8. CASE UNCHANGED vars
    BY <1>2, <1>8 DEF vars
  <1> QED
    BY <1>4, <1>5, <1>6, <1>7, <1>8 DEF Next, Client

-------------------------------------------------------------------------------
(* What a step does to its call, and what it leaves to the others.         *)

LEMMA OthersFrame ==
    ASSUME TypeOK, NEW r \in Calls, Step(r) \/ Drop(r) \/ Crash(r), NEW s \in Calls \ {r}
    PROVE  /\ at'[s] = at[s] /\ source'[s] = source[s] /\ archive'[s] = archive[s]
           /\ staging'[s] = staging[s] /\ answer'[s] = answer[s]
  BY DEF Step, Find, Use, End, Fail, Exhausted, NextSource, BeginFetch, Fetched, Stage,
         StageLocal, Unpack, Describe, Rename, RenameFails, Recheck, Settle, Abort, Drop,
         Crash, shared, Go, TypeOK

\* An answer a call may give, given the directories it is taken from.
Honest(r, status, a) ==
    \/ status = "error" /\ a = Missing
    \/ /\ status = "cache" /\ a \in Archives
       /\ Whole(root, a) /\ a = InCache(root)
       /\ r \in world.strict => a \in world.trusted
    \/ /\ status = "fallback" /\ a \in Archives
       /\ a = InCache(world.fallback)
       /\ r \in world.strict => a \in world.trusted

LEMMA UseHonest ==
    ASSUME IInv, NEW r \in Calls, NEW place \in {"cache", "fallback", "lost"},
           NEW dir, NEW status,
           \/ dir = root /\ status = "cache"
           \/ dir = world.fallback /\ status = "fallback",
           Use(r, place, dir, status)
    PROVE  \E st \in {"error", "cache", "fallback"}, a \in Archives \cup {Missing} :
               End(r, st, a) /\ Honest(r, st, a)
  <1>1. CASE ~Valid(r, dir)
    BY <1>1 DEF Use, Fail, Honest
  <1>2. CASE Valid(r, dir)
    <2>1. Sound(dir, world.client)
      BY WorldFacts DEF IInv, RootSound, TypeOK
    <2>2. /\ dir.file["marker"] # Missing
          /\ dir.file["sha512"] \in Archives
          /\ Whole(dir, dir.file["sha512"])
          /\ r \in world.strict => dir.file["sha512"] \in world.trusted
      BY <1>2, <2>1, ValidWhole
    <2>3. dir.file["sha512"] = InCache(dir)
      BY <2>2 DEF InCache
    <2>4. Honest(r, status, dir.file["sha512"])
      BY <2>2, <2>3 DEF Honest
    <2>5. End(r, status, dir.file["sha512"])
      BY <1>2 DEF Use
    <2> QED
      BY <2>2, <2>4, <2>5
  <1> QED
    BY <1>1, <1>2

\* A call either goes on without an answer or ends with an honest one.
LEMMA Outcome ==
    ASSUME IInv, NEW r \in Calls, Step(r) \/ Drop(r) \/ Crash(r)
    PROVE  /\ at[r] \in Places
           /\ \/ answer' = answer /\ at'[r] # "done"
              \/ \E st \in {"error", "cache", "fallback"}, a \in Archives \cup {Missing} :
                     End(r, st, a) /\ Honest(r, st, a)
  <1> USE DEF IInv
  <1>1. ASSUME Fail(r)
        PROVE  \E st \in {"error", "cache", "fallback"}, a \in Archives \cup {Missing} :
                   End(r, st, a) /\ Honest(r, st, a)
    BY <1>1 DEF Fail, Honest
  <1>2. at[r] \in Places
    BY DEF Step, Find, Use, Exhausted, NextSource, BeginFetch, Fetched, Stage, StageLocal,
           Unpack, Describe, Rename, RenameFails, Recheck, Settle, Abort, Drop, Crash,
           Places, Blocking
  <1>3. CASE \/ Find(r) \/ NextSource(r) \/ BeginFetch(r) \/ Fetched(r) \/ Stage(r)
             \/ StageLocal(r) \/ Describe(r) \/ Rename(r) \/ RenameFails(r)
             \/ Drop(r) \/ Crash(r)
    <2>1. answer' = answer /\ at'[r] # "done"
      BY <1>3 DEF Find, NextSource, BeginFetch, Fetched, Stage, StageLocal, Describe,
                  Rename, RenameFails, Drop, Crash, Go, TypeOK
    <2> QED
      BY <1>2, <2>1
  <1>4. CASE Unpack(r)
    <2>1. CASE Fail(r)
      BY <1>1, <1>2, <2>1
    <2>2. CASE ~Fail(r)
      BY <1>2, <1>4, <2>2 DEF Unpack, Go, TypeOK
    <2> QED
      BY <2>1, <2>2
  <1>5. CASE Recheck(r)
    <2>1. CASE Fail(r)
      BY <1>1, <1>2, <2>1
    <2>2. CASE ~Fail(r)
      BY <1>2, <1>5, <2>2 DEF Recheck, Go, TypeOK
    <2> QED
      BY <2>1, <2>2
  <1>6. CASE Exhausted(r) \/ Abort(r)
    BY <1>1, <1>2, <1>6 DEF Exhausted, Abort
  <1>7. CASE \/ Use(r, "cache", root, "cache") \/ Use(r, "lost", root, "cache")
             \/ Use(r, "fallback", world.fallback, "fallback")
    BY <1>2, <1>7, UseHonest
  <1>8. CASE at[r] = "won" /\ End(r, "cache", archive[r])
    <2>1. archive[r] \in Archives /\ Whole(root, archive[r]) /\ Accepted(r, archive[r])
      BY <1>8 DEF Carries, Blocking
    <2>2. archive[r] = InCache(root)
      BY <2>1, WholeMarked DEF InCache, Parts
    <2>3. Honest(r, "cache", archive[r])
      BY <2>1, <2>2 DEF Honest, Accepted
    <2> QED
      BY <1>2, <1>8, <2>1, <2>3
  <1> QED
    BY <1>3, <1>4, <1>5, <1>6, <1>7, <1>8 DEF Step, Settle

-------------------------------------------------------------------------------
(* The invariant.                                                          *)

\* A call that did not move keeps what it carries: the root it published stays.
LEMMA CarriesKept ==
    ASSUME IInv, [Next]_vars, NEW r \in Calls, world' = world,
           at'[r] = at[r], source'[r] = source[r], archive'[r] = archive[r],
           staging'[r] = staging[r]
    PROVE  Carries(r)'
  <1>1. at[r] = "won" => root' = root
    BY WholeStays DEF IInv, Carries, Blocking
  <1> QED
    BY <1>1 DEF IInv, Carries, HasSource, Whole, Accepted

\* Going on, a call carries what its next place needs.
LEMMA CarriesMove ==
    ASSUME IInv, NEW r \in Calls, Step(r) \/ Drop(r) \/ Crash(r)
    PROVE  Carries(r)'
  <1> USE DEF IInv
  <1>1. world' = world
    BY SharedFrame
  <1>2. Carries(r) /\ at[r] \in Places /\ TypeOK
    BY Outcome
  <1>3. ASSUME at'[r] \in {"cache", "fallback", "source", "lost"} \cup Over PROVE Carries(r)'
    BY <1>3 DEF Carries, Over, Blocking
  <1>4. CASE Find(r) \/ NextSource(r) \/ Drop(r) \/ Crash(r)
    BY <1>3, <1>4 DEF Find, NextSource, Drop, Crash, Go, TypeOK, Over
  <1>5. ASSUME NEW st, NEW a, End(r, st, a) PROVE Carries(r)'
    BY <1>3, <1>5 DEF End, Go, TypeOK, Over
  <1>6. CASE BeginFetch(r)
    <2>1. at'[r] = "fetch" /\ HasSource(r)'
      BY <1>1, <1>6 DEF BeginFetch, Go, TypeOK, HasSource
    <2> QED
      BY <2>1 DEF Carries, Blocking
  <1>7. CASE Fetched(r)
    <2>1. HasSource(r)
      BY <1>7 DEF Fetched, Carries
    <2>2. Current(r).offers \in Archives
      BY <1>7, <2>1, CurrentSource DEF Sources, Fetched
    <2>3. at'[r] = "stage" /\ archive'[r] \in Archives
      BY <1>7, <2>2 DEF Fetched, Go, TypeOK
    <2> QED
      BY <2>3 DEF Carries, Blocking
  <1>8. CASE Stage(r)
    <2>1. archive[r] \in Archives
      BY <1>8 DEF Stage, Carries
    <2>2. /\ at'[r] = "unpack" /\ archive'[r] = archive[r]
          /\ staging'[r] = Linked(archive[r])
      BY <1>8 DEF Stage, Go, TypeOK
    <2> QED
      BY <2>1, <2>2, DirectoryFacts DEF Carries, Blocking
  <1>9. CASE StageLocal(r)
    <2>1. Current(r).offers \in Archives
      BY <1>9, CurrentSource DEF StageLocal, Sources
    <2>2. /\ at'[r] = "unpack" /\ archive'[r] = Current(r).offers
          /\ staging'[r] = Linked(Current(r).offers)
      BY <1>9 DEF StageLocal, Go, TypeOK
    <2> QED
      BY <2>1, <2>2, DirectoryFacts DEF Carries, Blocking
  <1>10. CASE Unpack(r)
    <2>1. CASE Fail(r)
      BY <1>5, <2>1 DEF Fail
    <2>2. CASE ~Fail(r)
      <3>1. /\ at[r] = "unpack" /\ Accepted(r, archive[r])
            /\ at'[r] = "describe" /\ archive' = archive
            /\ staging'[r] = [exists |-> TRUE,
                   file |-> [staging[r].file EXCEPT !["content"] = archive[r],
                                                    !["nuspec"] = archive[r]]]
        BY <1>10, <2>2 DEF Unpack, Go, TypeOK
      <3>2. staging[r].file \in [Parts -> Archives \cup {Missing}]
        BY DEF TypeOK, Directories
      <3>3. staging[r].file["nupkg"] = archive[r] /\ archive[r] \in Archives
        BY <3>1 DEF Carries, Blocking
      <3>4. staging'[r].file = [staging[r].file EXCEPT !["content"] = archive[r],
                                                       !["nuspec"] = archive[r]]
        BY <3>1
      <3>5. \A part \in {"nupkg", "content", "nuspec"} : staging'[r].file[part] = archive'[r]
        BY <3>1, <3>2, <3>3, <3>4 DEF Parts
      <3>6. Accepted(r, archive[r])'
        BY <1>1, <3>1 DEF Accepted
      <3> QED
        BY <3>1, <3>3, <3>5, <3>6 DEF Carries, Blocking
    <2> QED
      BY <2>1, <2>2
  <1>11. CASE Describe(r)
    <2>1. /\ at[r] = "describe" /\ at'[r] = "rename" /\ archive' = archive
          /\ staging'[r] = [exists |-> TRUE,
                 file |-> [staging[r].file EXCEPT !["sha512"] = archive[r],
                                                  !["marker"] = archive[r]]]
      BY <1>11 DEF Describe, Go, TypeOK
    <2>2. staging[r].file \in [Parts -> Archives \cup {Missing}]
      BY DEF TypeOK, Directories
    <2>3. /\ archive[r] \in Archives /\ Accepted(r, archive[r])
          /\ \A part \in {"nupkg", "content", "nuspec"} : staging[r].file[part] = archive[r]
      BY <2>1 DEF Carries, Blocking
    <2>4. /\ staging'[r].exists
          /\ staging'[r].file = [staging[r].file EXCEPT !["sha512"] = archive[r],
                                                        !["marker"] = archive[r]]
      BY <2>1
    <2>5. \A part \in Parts : staging'[r].file[part] = archive[r]
      BY <2>2, <2>3, <2>4 DEF Parts
    <2>6. staging'[r].file = Tree(archive[r])
      BY <2>2, <2>4, <2>5 DEF Tree
    <2>7. Whole(staging[r], archive[r])'
      BY <2>1, <2>4, <2>6 DEF Whole, Tree
    <2>8. Accepted(r, archive[r])'
      BY <1>1, <2>1, <2>3 DEF Accepted
    <2> QED
      BY <2>1, <2>3, <2>7, <2>8 DEF Carries, Blocking
  <1>12. CASE Rename(r)
    <2>1. /\ at[r] = "rename" /\ at'[r] = "won" /\ archive' = archive
          /\ root' = staging[r]
      BY <1>12 DEF Rename, Go, TypeOK
    <2>2. archive[r] \in Archives /\ Whole(staging[r], archive[r]) /\ Accepted(r, archive[r])
      BY <2>1 DEF Carries, Blocking
    <2>3. Whole(root, archive[r])' /\ Accepted(r, archive[r])'
      BY <1>1, <2>1, <2>2 DEF Whole, Accepted, Tree
    <2> QED
      BY <2>1, <2>2, <2>3 DEF Carries, Blocking
  <1>13. CASE RenameFails(r) \/ (Recheck(r) /\ ~Fail(r))
    <2>1. /\ at[r] \in {"rename", "denied", "refused"}
          /\ at'[r] \in {"rename", "denied", "refused", "lost"}
          /\ archive' = archive /\ staging' = staging
      BY <1>13 DEF RenameFails, Recheck, Go, TypeOK
    <2>2. archive[r] \in Archives /\ Whole(staging[r], archive[r]) /\ Accepted(r, archive[r])
      BY <2>1 DEF Carries, Blocking
    <2>3. Whole(staging[r], archive[r])' /\ Accepted(r, archive[r])'
      BY <1>1, <2>1, <2>2 DEF Whole, Accepted, Tree
    <2> QED
      BY <2>1, <2>2, <2>3 DEF Carries, Blocking
  <1>14. CASE Recheck(r) /\ Fail(r)
    BY <1>5, <1>14 DEF Fail
  <1>15. CASE \/ Exhausted(r) \/ Abort(r) \/ Settle(r)
              \/ Use(r, "cache", root, "cache")
              \/ Use(r, "fallback", world.fallback, "fallback")
    BY <1>5, <1>15 DEF Exhausted, Abort, Settle, Use, Fail
  <1> QED
    BY <1>4, <1>6, <1>7, <1>8, <1>9, <1>10, <1>11, <1>12, <1>13, <1>14, <1>15 DEF Step

\* What was told stays true, and what is told now is true.
LEMMA ToldStep ==
    ASSUME IInv, [Next]_vars, NEW s \in Calls
    PROVE  Told(s)'
  <1> USE DEF IInv
  <1>1. ASSUME at'[s] = at[s], answer'[s] = answer[s] PROVE Told(s)'
    <2>1. ASSUME answer[s].status = "cache" PROVE root' = root
      BY <2>1, WholeStays DEF Told
    <2> QED
      BY <1>1, <2>1 DEF Told, Whole, Tree
  <1>2. ASSUME NEW r \in Calls, Step(r) \/ Drop(r) \/ Crash(r) PROVE Told(s)'
    <2>1. CASE s # r
      BY <1>1, <1>2, <2>1, OthersFrame
    <2>2. CASE s = r
      <3>1. at[r] \in Places
        BY <1>2, Outcome
      <3>2. answer[r] = NoAnswer
        BY <3>1, <2>2 DEF Told, Places, Blocking
      <3>3. CASE answer' = answer
        BY <2>2, <3>2, <3>3 DEF Told, NoAnswer
      <3>4. ASSUME NEW st \in {"error", "cache", "fallback"},
                   NEW a \in Archives \cup {Missing}, End(r, st, a), Honest(r, st, a)
            PROVE  Told(r)'
        <4>1. at'[r] = "done" /\ answer'[r] = [status |-> st, archive |-> a] /\ root' = root
          BY <3>4 DEF End, Go, TypeOK, shared
        <4>2. answer'[r].status = st /\ answer'[r].archive = a
          BY <4>1
        <4>3. st = "cache" => a \in Archives /\ Whole(root, a)
          BY <3>4 DEF Honest
        <4> QED
          BY <4>1, <4>2, <4>3 DEF Told, Whole, Tree
      <3> QED
        BY <1>2, <2>2, <3>3, <3>4, Outcome
    <2> QED
      BY <2>1, <2>2
  <1>3. CASE Client \/ UNCHANGED vars
    <2>1. at' = at /\ answer' = answer
      BY <1>3 DEF Client, ClientBegins, ClientWrites, ClientStops, own, vars
    <2> QED
      BY <1>1, <2>1
  <1> QED
    BY <1>2, <1>3 DEF Next

LEMMA PolicyStep ==
    ASSUME IInv, [Next]_vars
    PROVE  PolicyHolds'
  <1> USE DEF IInv
  <1>1. world' = world
    BY WorldStays
  <1>2. SUFFICES ASSUME NEW s \in world.strict, answer'[s].status \in {"cache", "fallback"}
                 PROVE  answer'[s].archive \in world.trusted
    BY <1>1 DEF PolicyHolds
  <1>3. s \in Calls
    BY WorldFacts DEF TypeOK
  <1>4. CASE answer'[s] = answer[s]
    BY <1>2, <1>4 DEF PolicyHolds
  <1>5. ASSUME NEW r \in Calls, Step(r) \/ Drop(r) \/ Crash(r), answer'[s] # answer[s]
        PROVE  answer'[s].archive \in world.trusted
    <2>1. s = r
      BY <1>3, <1>5, OthersFrame
    <2>2. PICK st \in {"error", "cache", "fallback"}, a \in Archives \cup {Missing} :
              End(r, st, a) /\ Honest(r, st, a)
      BY <1>5, Outcome
    <2>3. answer'[r].status = st /\ answer'[r].archive = a
      BY <2>2 DEF End, TypeOK
    <2> QED
      BY <1>2, <2>1, <2>2, <2>3 DEF Honest
  <1>6. CASE Client \/ UNCHANGED vars
    BY <1>4, <1>6 DEF Client, ClientBegins, ClientWrites, ClientStops, own, vars
  <1> QED
    BY <1>4, <1>5, <1>6 DEF Next

LEMMA Initially == Init => IInv
  <1> SUFFICES ASSUME Init PROVE IInv
    OBVIOUS
  <1> USE DEF Init
  <1>1. world \in Worlds
    OBVIOUS
  <1>2. root \in Directories /\ Sound(root, world.client)
    BY <1>1, WorldFacts
  <1>3. NoAnswer \in Answers
    BY DEF NoAnswer, Answers
  <1>4. TypeOK
    <2>1. "find" \in Places \cup Over
      BY DEF Places
    <2>2. at \in [Calls -> Places \cup Over]
      BY <2>1
    <2>3. 0 \in 0..Retries /\ 1 \in Nat \ {0}
      BY RetriesAssumption
    <2>4. /\ source \in [Calls -> Nat \ {0}]
          /\ tries \in [Calls -> 0..Retries]
      BY <2>3
    <2>5. /\ archive \in [Calls -> Archives \cup {Missing}]
          /\ staging \in [Calls -> Directories]
          /\ answer \in [Calls -> Answers]
      BY <1>3, DirectoryFacts
    <2>6. writing \in BOOLEAN /\ scratch \in [Calls -> BOOLEAN]
      OBVIOUS
    <2> QED
      BY <1>1, <1>2, <2>2, <2>4, <2>5, <2>6 DEF TypeOK
  <1>5. RootSound
    BY <1>2 DEF RootSound
  <1>6. \A r \in Calls : Carries(r) /\ Told(r)
    BY DEF Carries, Told, Blocking, NoAnswer
  <1>7. PolicyHolds
    <2>1. world.strict \in SUBSET Calls
      BY <1>1, WorldFacts
    <2> QED
      BY <2>1 DEF PolicyHolds, NoAnswer
  <1> QED
    BY <1>4, <1>5, <1>6, <1>7 DEF IInv

LEMMA Invariance == IInv /\ [Next]_vars => IInv'
  <1> SUFFICES ASSUME IInv, [Next]_vars PROVE IInv'
    OBVIOUS
  <1>1. TypeOK' /\ RootSound' /\ PolicyHolds'
    BY StepType, RootStep, PolicyStep
  <1>2. ASSUME NEW s \in Calls PROVE Carries(s)'
    <2>1. world' = world
      BY WorldStays
    <2>2. ASSUME NEW r \in Calls, Step(r) \/ Drop(r) \/ Crash(r) PROVE Carries(s)'
      <3>1. CASE s = r
        BY <2>2, <3>1, CarriesMove
      <3>2. CASE s # r
        BY <2>1, <2>2, <3>2, OthersFrame, CarriesKept DEF IInv
      <3> QED
        BY <3>1, <3>2
    <2>3. CASE Client \/ UNCHANGED vars
      <3>1. UNCHANGED <<at, source, archive, staging>>
        BY <2>3 DEF Client, ClientBegins, ClientWrites, ClientStops, own, vars
      <3> QED
        BY <2>1, <3>1, CarriesKept
    <2> QED
      BY <2>2, <2>3 DEF Next
  <1>3. \A s \in Calls : (Carries(s) /\ Told(s))'
    BY <1>2, ToldStep
  <1> QED
    BY <1>1, <1>3 DEF IInv

LEMMA AlwaysIInv == Spec => []IInv
  BY Initially, Invariance, PTL DEF Spec

-------------------------------------------------------------------------------
(* Theorems.                                                               *)

\* Every variable keeps its type, however many calls race: the retries of the rename
\* stay within their bound.
THEOREM CacheType == Spec => []TypeOK
  <1>1. IInv => TypeOK
    BY DEF IInv
  <1> QED
    BY <1>1, AlwaysIInv, PTL

\* The package root is whole as soon as it carries a marker: publish_package_directory
\* shows all of a staged tree or nothing of it.
THEOREM RootsWhole == Spec => []MarkerMeansWhole
  <1>1. IInv => MarkerMeansWhole
    BY SoundWhole DEF IInv, RootSound, MarkerMeansWhole
  <1> QED
    BY <1>1, AlwaysIInv, PTL

\* Winner, loser and reader of the cache agree on the package, and what ensure_package
\* told any of them stays true.
THEOREM AnswersKept == Spec => []AnswersHold
  <1>1. IInv => AnswersHold
    BY DEF IInv, Told, AnswersHold
  <1> QED
    BY <1>1, AlwaysIInv, PTL

\* A call that requires signatures is never given a package its policy rejects, be it
\* found in the cache, lost to a laxer process, or downloaded.
THEOREM PolicyKept == Spec => []PolicyHolds
  <1>1. IInv => PolicyHolds
    BY DEF IInv
  <1> QED
    BY <1>1, AlwaysIInv, PTL

-------------------------------------------------------------------------------
(* The cache implements the abstract store.                                *)

LEMMA InCacheType ==
    ASSUME NEW dir, NEW client, Sound(dir, client)
    PROVE  InCache(dir) \in Archives \cup {Missing}
  BY SoundWhole DEF InCache

LEMMA StoreInit == Init => Store!Init
  <1> SUFFICES ASSUME Init PROVE Store!Init
    OBVIOUS
  <1>1. Sound(root, world.client) /\ Sound(world.fallback, world.client)
    BY WorldFacts DEF Init
  <1>2. InCache(root) \in Archives \cup {Missing}
    BY <1>1, InCacheType
  <1>3. InCache(world.fallback) \in Archives \cup {Missing}
    BY <1>1, InCacheType
  <1>4. answer = [r \in Calls |-> Store!NoAnswer]
    BY DEF Init, NoAnswer, Store!NoAnswer
  <1> QED
    BY <1>2, <1>3, <1>4 DEF Store!Init

\* A step that leaves the answers alone publishes an archive or is invisible.
LEMMA StorePublish ==
    ASSUME IInv, [Next]_vars, answer' = answer
    PROVE  [Store!Next]_<<InCache(root), InCache(world.fallback), answer>>
  <1>1. world' = world
    BY WorldStays
  <1>2. InCache(root)' \in Archives \cup {Missing}
    BY RootStep, InCacheType DEF RootSound
  <1>3. CASE InCache(root) = Missing
    BY <1>1, <1>2, <1>3 DEF Store!Next, Store!Publish, InCache
  <1>4. CASE InCache(root) # Missing
    <2>1. root.file["marker"] # Missing
      BY <1>4 DEF InCache
    <2>2. \E a \in Archives : Whole(root, a)
      BY <2>1 DEF IInv, RootSound, Sound
    <2>3. root' = root
      BY <2>2, WholeStays
    <2> QED
      BY <1>1, <2>3 DEF InCache
  <1> QED
    BY <1>3, <1>4

\* A call that ends is given an answer of the store.
LEMMA StoreAnswer ==
    ASSUME IInv, [Next]_vars, NEW r \in Calls, Step(r) \/ Drop(r) \/ Crash(r),
           NEW st \in {"error", "cache", "fallback"}, NEW a \in Archives \cup {Missing},
           End(r, st, a), Honest(r, st, a)
    PROVE  Store!Next
  <1>1. at[r] \in Places
    BY Outcome
  <1>2. answer[r] = Store!NoAnswer
    BY <1>1 DEF IInv, Told, Places, Blocking, NoAnswer, Store!NoAnswer
  <1>3. world' = world /\ root' = root
    BY DEF End, shared
  <1>4. answer' = [answer EXCEPT ![r] = [status |-> st, archive |-> a]]
    BY DEF End
  <1>5. Store!Give(r, st, a)
    BY <1>2, <1>3, <1>4 DEF Store!Give, InCache
  <1>6. Missing \notin Archives
    BY MissingAssumption
  <1>7. Store!Answer(r)
    BY <1>5, <1>6 DEF Honest, Store!Answer
  <1> QED
    BY <1>7 DEF Store!Next

LEMMA StoreStep ==
    IInv /\ [Next]_vars => [Store!Next]_<<InCache(root), InCache(world.fallback), answer>>
  <1> SUFFICES ASSUME IInv, [Next]_vars
               PROVE  [Store!Next]_<<InCache(root), InCache(world.fallback), answer>>
    OBVIOUS
  <1>1. CASE answer' = answer
    BY <1>1, StorePublish
  <1>2. CASE answer' # answer
    <2>1. PICK r \in Calls : Step(r) \/ Drop(r) \/ Crash(r)
      BY <1>2 DEF Next, Client, ClientBegins, ClientWrites, ClientStops, own, vars
    <2>2. PICK st \in {"error", "cache", "fallback"}, a \in Archives \cup {Missing} :
              End(r, st, a) /\ Honest(r, st, a)
      BY <1>2, <2>1, Outcome
    <2> QED
      BY <2>1, <2>2, StoreAnswer
  <1> QED
    BY <1>1, <1>2

\* The package cache is a store that holds one archive, for good, and answers with it:
\* staging, races, retries, crashes and a second client do not show.
THEOREM CacheImplementsStore == Spec => Implements
  <1>1. Init /\ [][Next]_vars => Store!Spec
    BY AlwaysIInv, StoreInit, StoreStep, PTL DEF Spec, Store!Spec
  <1> QED
    BY <1>1 DEF Spec, Implements
=============================================================================
