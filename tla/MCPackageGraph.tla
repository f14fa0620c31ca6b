---------------------------- MODULE MCPackageGraph ----------------------------
(***************************************************************************)
(* Small universes for PackageGraph.  Packages 1 and 2 play the direct     *)
(* requests unless a universe says otherwise; every package has every      *)
(* version and no dependency until a universe gives it one.                *)
(***************************************************************************)
EXTENDS PackageGraphReference, TLC

CONSTANTS Universes     \* which set of worlds a configuration explores

AtLeast(v) == [lo |-> v, loInc |-> TRUE, hi |-> MaxVersion + 1, hiInc |-> FALSE,
               float |-> {}]
Exactly(v) == [lo |-> v, loInc |-> TRUE, hi |-> v, hiInc |-> TRUE, float |-> {}]
Below(v) == [lo |-> 0, loInc |-> FALSE, hi |-> v, hiInc |-> FALSE, float |-> {}]
UpTo(v) == [Below(v) EXCEPT !.hiInc = TRUE]
Floating(v) == [lo |-> v, loInc |-> TRUE, hi |-> MaxVersion + 1, hiInc |-> FALSE,
                float |-> Versions \ Prereleases]

Base ==
    [direct |-> NoEdges, deps |-> [x \in Ids |-> [v \in Versions |-> NoEdges]],
     feed |-> [x \in Ids |-> Versions], cached |-> {},
     pins |-> [x \in Ids |-> None], prune |-> [x \in Ids |-> 0],
     mapped |-> Ids, online |-> TRUE, flaky |-> {}, duplicated |-> {}, batch |-> {}]

\* A world from its direct requests and from the manifests that are not empty,
\* given per package and version as edge maps.
World(direct, manifests) ==
    [Base EXCEPT !.direct = direct @@ NoEdges,
                 !.deps = [x \in Ids |-> [v \in Versions |->
                     (IF <<x, v>> \in DOMAIN manifests THEN manifests[<<x, v>>]
                      ELSE <<>>) @@ NoEdges]]]

OneTwo == (1 :> AtLeast(1)) @@ (2 :> AtLeast(1))

-------------------------------------------------------------------------------
\* Two parents raise a shared package; the new version has other dependencies.
Diamond == World(OneTwo,
    (<<1, 1>> :> (3 :> AtLeast(1))) @@ (<<2, 1>> :> (3 :> AtLeast(2))) @@
    (<<3, 1>> :> (4 :> AtLeast(1))) @@ (<<3, 2>> :> (4 :> AtLeast(2))) @@
    (<<4, 1>> :> (5 :> AtLeast(1))) @@ (<<4, 2>> :> (5 :> AtLeast(2))))

\* The upgrade removes a subtree.
Shrinking == World(OneTwo,
    (<<1, 1>> :> (3 :> AtLeast(1))) @@ (<<2, 1>> :> (3 :> AtLeast(2))) @@
    (<<3, 1>> :> (4 :> AtLeast(1))) @@ (<<4, 1>> :> (5 :> AtLeast(2))))

\* 2 raises 3 and excludes the version of 4 that only the older 3 wants.
Replaced == World(OneTwo,
    (<<1, 1>> :> (3 :> AtLeast(1))) @@ (<<3, 1>> :> (4 :> Exactly(1))) @@
    (<<2, 1>> :> ((3 :> AtLeast(2)) @@ (4 :> Exactly(2)))))

\* As Shrinking, while the removed package is still asking for its versions.
Withdrawn == [Shrinking EXCEPT !.feed[4] = {2},
                               !.deps[4][2] = (5 :> AtLeast(1)) @@ NoEdges]

\* The nearer constraint on 3 overrides the one below it, with a downgrade.
NearestWins == World(1 :> AtLeast(1),
    (<<1, 1>> :> ((3 :> Exactly(1)) @@ (4 :> AtLeast(1)))) @@
    (<<4, 1>> :> ((3 :> AtLeast(2)) @@ (5 :> AtLeast(1)))))

\* 4 has a root path of its own, so its constraint on 3 stays active.
AlternatePath == World((1 :> AtLeast(1)) @@ (2 :> AtLeast(1)),
    (<<1, 1>> :> ((3 :> AtLeast(1)) @@ (4 :> AtLeast(1)))) @@
    (<<2, 1>> :> (4 :> AtLeast(1))) @@ (<<4, 1>> :> (3 :> AtLeast(2))))

DirectWins == World(OneTwo @@ (3 :> Exactly(1)),
    (<<1, 1>> :> (3 :> AtLeast(2))) @@ (<<2, 1>> :> (4 :> Below(2))))

\* The requested version is not published; a floating request; an upper bound.
Unpublished == [World((1 :> Floating(1)) @@ (2 :> AtLeast(1)),
    (<<1, 2>> :> (3 :> AtLeast(1))) @@ (<<2, 1>> :> (3 :> Floating(1))) @@
    (<<3, 2>> :> (4 :> Below(2)))) EXCEPT !.feed[2] = {1}, !.feed[3] = {2}]

\* Version 3 is a prerelease: 1 opts into it, for 2 it does not exist.
Preview == [World((1 :> AtLeast(3)) @@ (2 :> AtLeast(1)),
    (<<1, 3>> :> (3 :> AtLeast(3))) @@ (<<2, 1>> :> ((3 :> AtLeast(1)) @@ (4 :> AtLeast(1)))))
    EXCEPT !.feed[4] = {2, 3}]

\* Two ranges touch: in a version they share, or, below, in one that one excludes.
Touching == World(OneTwo, (<<1, 1>> :> (3 :> UpTo(2))) @@ (<<2, 1>> :> (3 :> AtLeast(2))))

\* A central pin raises 3; the shared framework supplies 4 up to version 1.
PinnedPruned == [World(OneTwo,
    (<<1, 1>> :> ((3 :> AtLeast(1)) @@ (4 :> AtLeast(1)))) @@
    (<<3, 2>> :> (4 :> AtLeast(1))) @@ (<<3, 1>> :> (5 :> AtLeast(1))) @@
    (<<4, 1>> :> (5 :> AtLeast(1))))
    EXCEPT !.pins[3] = 2, !.prune[4] = 1]

\* 4 is pruned until 2 raises it above the framework's version.
Unpruned == [World(OneTwo,
    (<<1, 1>> :> (4 :> AtLeast(1))) @@ (<<2, 1>> :> (3 :> AtLeast(1))) @@
    (<<3, 1>> :> (4 :> AtLeast(2))) @@ (<<4, 2>> :> (5 :> AtLeast(1))))
    EXCEPT !.prune[4] = 1]

\* Part of the graph comes from the cache, part from an earlier project.
Warm == [Diamond EXCEPT !.cached = {<<1, 1>>, <<2, 1>>, <<3, 2>>, <<4, 2>>},
                        !.batch = {<<2, 1>>, <<3, 2>>}]
Offline == [Diamond EXCEPT !.feed = [x \in Ids |-> {}],
    !.cached = {<<1, 1>>, <<2, 1>>, <<3, 2>>, <<4, 2>>, <<5, 1>>}]

\* Inputs without a resolution, or that must be rejected.
Conflict == World(OneTwo, (<<1, 1>> :> (3 :> Exactly(1))) @@
                          (<<2, 1>> :> (3 :> Exactly(2))))
Apart == World(OneTwo, (<<1, 1>> :> (3 :> Below(2))) @@ (<<2, 1>> :> (3 :> AtLeast(2))))
PinTooLow == [Diamond EXCEPT !.pins[3] = 1]
PinMissing == [Diamond EXCEPT !.pins[3] = 1, !.feed[3] = {2},
                              !.deps[2][1] = NoEdges]
StableOnly == [World(OneTwo, <<1, 1>> :> (3 :> AtLeast(2)))
               EXCEPT !.feed[3] = {1, 3}]
NoVersion == [World(OneTwo, <<1, 1>> :> (3 :> AtLeast(2)))
              EXCEPT !.feed[3] = {1}]
Unfeasible == World(OneTwo,
    (<<1, 1>> :> (3 :> AtLeast(1))) @@ (<<3, 1>> :> (4 :> AtLeast(1))) @@
    (<<4, 1>> :> (3 :> AtLeast(2))))
Cyclic == World(OneTwo, (<<1, 1>> :> (3 :> AtLeast(1))) @@
    (<<3, 1>> :> (4 :> AtLeast(1))) @@ (<<4, 1>> :> (3 :> AtLeast(1))))
Unmapped == [Diamond EXCEPT !.mapped = Ids \ {4}]
Undiscovered == [Diamond EXCEPT !.online = FALSE, !.cached = {<<1, 1>>}]
Malformed == [Diamond EXCEPT !.duplicated = {<<3, 2>>}, !.batch = {<<3, 2>>},
                             !.cached = {<<3, 2>>}]
MalformedFetch == [Diamond EXCEPT !.duplicated = {<<3, 1>>}]
\* 3 exists nowhere, but only the superseded version of 5 asks for it.
StaleMissing == [World(OneTwo,
    (<<1, 1>> :> (5 :> AtLeast(1))) @@ (<<2, 1>> :> (4 :> AtLeast(1))) @@
    (<<4, 1>> :> (5 :> AtLeast(2))) @@ (<<5, 1>> :> (3 :> AtLeast(1))))
    EXCEPT !.feed[3] = {}]

Steady == {Diamond, Preview, Shrinking, Replaced, Withdrawn, NearestWins, AlternatePath,
           DirectWins, Unpublished, Touching, PinnedPruned, Unpruned, Warm, Offline}
Rejected == {Conflict, Apart, PinTooLow, PinMissing, NoVersion, StableOnly, Unfeasible, Cyclic,
             Unmapped, Undiscovered, Malformed, MalformedFetch, StaleMissing}

-------------------------------------------------------------------------------
\* Universes in which the completion order or a failed fetch shows.

\* 2 raises 1's child 3; both versions of 3 need 4, the older one through a
\* version of 4 that needs 5.  4 leaves and re-enters the graph meanwhile.
Reentering == World(OneTwo,
    (<<1, 1>> :> (3 :> AtLeast(1))) @@ (<<2, 1>> :> (3 :> AtLeast(2))) @@
    (<<3, 1>> :> (4 :> AtLeast(1))) @@ (<<3, 2>> :> (4 :> AtLeast(2))) @@
    (<<4, 1>> :> (5 :> AtLeast(1))))

\* 3 at version 1 conflicts with 4 over 5, but 2's child raises 3.
Transient == World(OneTwo,
    (<<1, 1>> :> ((3 :> AtLeast(1)) @@ (4 :> AtLeast(1)))) @@
    (<<2, 1>> :> (3 :> AtLeast(2))) @@
    (<<3, 1>> :> (5 :> Exactly(1))) @@ (<<4, 1>> :> (5 :> Exactly(2))))

\* Only the superseded version of 3 leads into the cycle of 4 and 5.
Orphaned == World(OneTwo,
    (<<1, 1>> :> (3 :> AtLeast(1))) @@ (<<2, 1>> :> (3 :> AtLeast(2))) @@
    (<<3, 1>> :> (4 :> AtLeast(1))) @@
    (<<4, 1>> :> (5 :> AtLeast(1))) @@ (<<5, 1>> :> (4 :> AtLeast(1))))

\* Package 3 may fail to download although its feed lists it.
Flaky == [Diamond EXCEPT !.flaky = {<<3, 1>>, <<3, 2>>}]

-------------------------------------------------------------------------------
\* Every universe over four packages in which 1 constrains 3 and 4 and the two
\* versions of 3, of which 2 may require the second, constrain 4.
Family ==
    LET lower == {NoRange, AtLeast(1), AtLeast(2)}
    IN  {World(OneTwo, (<<1, 1>> :> ((3 :> a) @@ (4 :> b))) @@
                       (<<2, 1>> :> (3 :> c)) @@
                       (<<3, 1>> :> (4 :> e)) @@ (<<3, 2>> :> (4 :> f))) :
           a \in {NoRange, AtLeast(1)}, b \in lower, c \in {NoRange, AtLeast(2)},
           e \in lower, f \in lower}

-------------------------------------------------------------------------------
MCWorlds ==
    CASE Universes = "steady" -> Steady \cup Rejected \cup Family
      [] Universes = "reentering" -> {Reentering}
      [] Universes = "transient" -> {Transient}
      [] Universes = "orphaned" -> {Orphaned}
      [] Universes = "flaky" -> {Flaky}
=============================================================================
