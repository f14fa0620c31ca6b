---------------------------- MODULE MCBatchSession ----------------------------
(***************************************************************************)
(* The circumstances in which TLC explores BatchSession.                   *)
(***************************************************************************)
EXTENDS BatchSession, TLC

CONSTANTS A, B, C

Source(name, protocol, index) == [name |-> name, protocol |-> protocol, index |-> index]
Exact(ids) == [exact |-> TRUE, length |-> 9, matches |-> ids]
Prefix(length, ids) == [exact |-> FALSE, length |-> length, matches |-> ids]

Folders(root, mode, sources) ==
    [root |-> root, mode |-> mode, sources |-> sources, mapping |-> NoMapping]

\* References: the identities, each from its lowest version up.
From(low, ids) == [id \in ids |-> [low |-> low, high |-> MaxVersion, assets |-> 1]]

Project(dir, refs, config) ==
    [dir |-> dir, refs |-> refs, target |-> 1, inputs |-> 1, config |-> config]

\* A signed archive of the first identity at both versions in a folder; the second
\* identity, which the first needs for target 1, on a server.
Local == <<1, 1>> :> "signed" @@ <<1, 2>> :> "signed"
Server == <<2, 1>> :> "signed" @@ <<1, 1>> :> "plain" @@ <<3, 2>> :> "plain"
Feeds == (A :> Local) @@ (B :> Server) @@ (C :> Server)
Manifests == <<1, <<1, 1>>>> :> (2 :> 1) @@ <<1, <<1, 2>>>> :> (2 :> 1)

Common == Folders(1, "accept", <<Source(B, "v3", "served"), Source(A, "local", "served")>>)
Left == Project(1, From(1, {1}), Common)
Right == Project(2, From(1, {1, 3}), Common)

World(projects, edits) == [specs |-> projects, edits |-> edits, roots |-> {1, 2}, dirs |-> {1, 2},
                        feeds |-> Feeds, manifests |-> Manifests, online |-> {TRUE},
                        writes |-> {TRUE}]

\* Two projects that share a dependency; the user edits what the first asks for.
Shared == World(<<Left, Right>>,
                {[Left EXCEPT !.refs = From(2, {1})], [Left EXCEPT !.target = 2],
                 [Left EXCEPT !.refs[1].assets = 2], [Left EXCEPT !.refs = <<>>]})

\* Two projects of one directory and different targets, on and off line, planned or
\* restored.
Neighbours == [World(<<Left, [Left EXCEPT !.target = 2]>>, {[Left EXCEPT !.inputs = 2]})
                  EXCEPT !.online = {TRUE, FALSE}, !.writes = {TRUE, FALSE}]

\* Signatures come to be required, of archives that have one and of one that has none,
\* or the packages come to be in another folder.
Strict == Folders(1, "require", Common.sources)
Unsigned == Project(1, From(1, {3}), Common)
Policies == World(<<Unsigned>>, {[Unsigned EXCEPT !.config = Strict], [Left EXCEPT !.config = Strict],
                               [Unsigned EXCEPT !.config.root = 2]})

\* Mapped sources: the third identity to C, which names no content, and A, the first
\* to whoever has its longest prefix; C and B are down for the second.
Rows == {[source |-> 1, patterns |-> {Prefix(1, {1, 2, 3}), Exact({2})}],
         [source |-> 2, patterns |-> {Prefix(3, {1}), Exact({2})}],
         [source |-> 3, patterns |-> {Exact({2}), Exact({3})}],
         [source |-> 0, patterns |-> {Prefix(2, {3})}]}
Mapped == [Folders(1, "accept", <<Source(A, "v2", "served"), Source(B, "v3", "down"),
                                  Source(C, "v3", "incomplete")>>)
              EXCEPT !.mapping = Rows]
Routed == World(<<Project(1, From(1, {1}), Mapped), Project(2, From(1, {2, 3}), Mapped)>>,
                {Project(1, From(1, {3}), Mapped), Project(1, From(1, {2}), Mapped),
                 Project(1, From(1, {2}), [Mapped EXCEPT
                     !.mapping = {[source |-> 0, patterns |-> {Prefix(0, {1, 2})}]}])})

MCWorlds == {Shared, Neighbours, Policies, Routed}

\* One command with two policies over one folder.
MixedWorlds == {World(<<Unsigned, [Unsigned EXCEPT !.dir = 2, !.config = Strict]>>, {})}
=============================================================================
