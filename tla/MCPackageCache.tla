----------------------------- MODULE MCPackageCache -----------------------------
(***************************************************************************)
(* Circumstances of the package cache for TLC: two calls, three archives.  *)
(***************************************************************************)
EXTENDS PackageCache, TLC

CONSTANTS c1, c2, good, lax, bad

\* good is signed by a trusted signer, lax is not, bad cannot be unpacked.
Remote(a) == [local |-> FALSE, offers |-> a]
Local(a) == [local |-> TRUE, offers |-> a]
Holding(a) == [exists |-> TRUE, file |-> Tree(a)]
Partial == [exists |-> TRUE, file |-> [Absent.file EXCEPT !["nupkg"] = good, !["nuspec"] = good]]
EmptyRoot == [exists |-> TRUE, file |-> Absent.file]

\* Windows with no other client, Windows with one, Unix.
Platforms == {[unix |-> FALSE, client |-> FALSE], [unix |-> FALSE, client |-> TRUE],
              [unix |-> TRUE, client |-> FALSE]}

World(s1, s2, cached, fallback, platform) ==
    [sources |-> (c1 :> s1 @@ c2 :> s2), strict |-> {c1}, trusted |-> {good},
     broken |-> {bad}, cached |-> cached, fallback |-> fallback, client |-> good,
     clientRuns |-> platform.client, replacesEmpty |-> platform.unix]

\* The feeds of the calls agree, disagree, or are not the first to be asked.
Feeds == {<< <<Remote(good)>>, <<Remote(good)>> >>,
          << <<Remote(good)>>, <<Remote(lax)>> >>,
          << <<Remote(lax)>>, <<Local(lax)>> >>,
          << <<Local(Missing), Local(good)>>, <<Remote(Missing), Remote(lax)>> >>}

Fresh == {World(feeds[1], feeds[2], Absent, Absent, platform) :
              feeds \in Feeds, platform \in Platforms}
Occupied == {World(<<Remote(good)>>, <<Local(bad)>>, cached, Absent, platform) :
                 cached \in {EmptyRoot, Partial, Holding(good), Holding(lax)},
                 platform \in Platforms}
Backed == {World(<<Remote(good)>>, <<Remote(lax)>>, Absent, fallback, platform) :
               fallback \in {Partial, Holding(good), Holding(lax)}, platform \in Platforms}

MCWorlds == Fresh \cup Occupied \cup Backed
=============================================================================
