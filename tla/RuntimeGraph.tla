------------------------------ MODULE RuntimeGraph ------------------------------
(***************************************************************************)
(* The runtime identifiers that can stand for another, nearest first       *)
(* (runtime_graph.rs), and the one a pack is chosen for (runtime_pack.rs,  *)
(* select_pack_runtime_identifier).  A graph gives each identifier the     *)
(* list of those it imports.                                               *)
(***************************************************************************)
EXTENDS Integers, Sequences, FiniteSets, SequencesExt

CONSTANTS NoRid     \* the packs support none that is compatible

\* Imports that are not in the document become leaves.
Loaded(document) ==
    LET imported == UNION {ToSet(document[rid]) : rid \in DOMAIN document}
    IN  [rid \in DOMAIN document \cup imported |->
            IF rid \in DOMAIN document THEN document[rid] ELSE <<>>]

\* The mutant's bug: the imports are visited before what is already queued.
Enqueued_InFront(queue, cursor, imports) ==
    SubSeq(queue, 1, cursor)
        \o SelectSeq(imports, LAMBDA rid : ~Contains(queue, rid))
        \o SubSeq(queue, cursor + 1, Len(queue))

Enqueued(queue, cursor, imports) ==
    FoldLeft(LAMBDA so_far, rid : IF Contains(so_far, rid) THEN so_far ELSE Append(so_far, rid),
             queue, imports)

\* compile_compatibility_ranges, for one identifier: after as many rounds as there are
\* identifiers every one in the queue has been expanded.
Compatibilities(graph, start) ==
    LET Queue[n \in 0..Cardinality(DOMAIN graph)] ==
            IF n = 0
            THEN <<start>>
            ELSE IF n > Len(Queue[n - 1])
                 THEN Queue[n - 1]
                 ELSE Enqueued(Queue[n - 1], n, graph[Queue[n - 1][n]])
    IN  Queue[Cardinality(DOMAIN graph)]

\* An identifier the graph does not know is compatible with itself only.
CompatibleRids(graph, rid) ==
    IF rid \in DOMAIN graph THEN <<rid>> \o Tail(Compatibilities(graph, rid)) ELSE <<rid>>

AreCompatible(graph, requested, provided) ==
    \/ requested = provided
    \/ /\ {requested, provided} \subseteq DOMAIN graph
       /\ Contains(Compatibilities(graph, requested), provided)

SelectPackRuntimeIdentifier(graph, requested, supported) ==
    LET compatible == CompatibleRids(graph, requested)
        first == SelectInSeq(compatible, LAMBDA rid : rid \in supported)
    IN  IF first = 0 THEN NoRid ELSE compatible[first]
=============================================================================
