------------------------- MODULE ServiceDiscoveryProofs -------------------------
(***************************************************************************)
(* What the operators of ServiceDiscovery return, for any configuration:   *)
(* the sources selected, the batch of service indexes, and the order in    *)
(* which results are looked at.                                            *)
(***************************************************************************)
EXTENDS ServiceDiscovery, FiniteSetTheorems, SequenceTheorems, TLAPS

(***************************************************************************)
(* Finite sets of numbers                                                  *)
(***************************************************************************)

\* How many elements are no greater than s.
Place(S, s) == Cardinality({t \in S : t <= s})

\* The places of a finite set of numbers are those of an increasing sequence.
LEMMA PlaceFacts ==
    ASSUME NEW S, IsFiniteSet(S), S \subseteq Int
    PROVE  /\ Cardinality(S) \in Nat
           /\ \A s \in S : Place(S, s) \in 1..Cardinality(S)
           /\ \A s, t \in S : s < t => Place(S, s) < Place(S, t)
           /\ \A n \in 1..Cardinality(S) : \E s \in S : Place(S, s) = n
  <1> DEFINE UpTo(s) == {t \in S : t <= s}
             place == [s \in S |-> Cardinality(UpTo(s))]
             n == Cardinality(S)
  <1>1. n \in Nat
    BY FS_CardinalityType
  <1>2. ASSUME NEW s \in S
        PROVE  /\ IsFiniteSet(UpTo(s)) /\ Cardinality(UpTo(s)) \in Nat
               /\ Cardinality(UpTo(s)) <= n /\ 1 <= Cardinality(UpTo(s))
    <2>1. UpTo(s) \in SUBSET S
      OBVIOUS
    <2>2. IsFiniteSet(UpTo(s)) /\ Cardinality(UpTo(s)) <= n
      BY <2>1, FS_Subset
    <2>3. Cardinality(UpTo(s)) \in Nat /\ (Cardinality(UpTo(s)) = 0 <=> UpTo(s) = {})
      BY <2>2, FS_CardinalityType, FS_EmptySet
    <2>4. s \in UpTo(s)
      OBVIOUS
    <2> QED
      BY <2>2, <2>3, <2>4
  <1>3. ASSUME NEW s \in S, NEW t \in S, s < t
        PROVE  Cardinality(UpTo(s)) < Cardinality(UpTo(t))
    <2>1. UpTo(s) \in SUBSET UpTo(t)
      <3>1. \A x \in S : x \in Int /\ s \in Int /\ t \in Int
        OBVIOUS
      <3>2. \A x \in S : x <= s => x <= t
        BY <1>3, <3>1
      <3> QED
        BY <3>2
    <2>2. t \in UpTo(t) /\ t \notin UpTo(s)
      BY <1>3
    <2>3. IsFiniteSet(UpTo(t))
      BY <1>2
    <2>4. /\ Cardinality(UpTo(s)) <= Cardinality(UpTo(t))
          /\ Cardinality(UpTo(t)) = Cardinality(UpTo(s)) => UpTo(t) = UpTo(s)
      BY <2>1, <2>3, FS_Subset
    <2>5. UpTo(t) # UpTo(s)
      BY <2>2
    <2>6. Cardinality(UpTo(s)) \in Nat /\ Cardinality(UpTo(t)) \in Nat
      BY <1>2
    <2> HIDE DEF UpTo
    <2> QED
      BY <2>4, <2>5, <2>6
  <1> HIDE DEF UpTo
  <1>4. place \in Injection(S, 1..n)
    <2>1. place \in [S -> 1..n]
      BY <1>1, <1>2
    <2>2. ASSUME NEW s \in S, NEW t \in S, place[s] = place[t]
          PROVE  s = t
      <3>1. ~(s < t) /\ ~(t < s)
        BY <1>2, <1>3, <2>2
      <3> QED
        BY <3>1
    <2> QED
      BY <2>1, <2>2 DEF Injection, IsInjective
  <1>5. place \in Surjection(S, 1..n)
    <2>1. IsFiniteSet(1..n) /\ Cardinality(1..n) = n
      BY <1>1, FS_Interval
    <2> HIDE DEF place
    <2> QED
      BY <1>4, <2>1, FS_Injection
  <1>6. \A m \in 1..n : \E s \in S : place[s] = m
    BY <1>5 DEF Surjection
  <1> QED
    BY <1>1, <1>2, <1>3, <1>6 DEF Place, UpTo

LEMMA MinFacts ==
    ASSUME NEW S, IsFiniteSet(S), S \subseteq Int, S # {}
    PROVE  Min(S) \in S /\ \A s \in S : Min(S) <= s
  <1>1. 1 \in 1..Cardinality(S)
    <2>1. PICK s \in S : TRUE
      OBVIOUS
    <2>2. Cardinality(S) \in Nat /\ Place(S, s) \in 1..Cardinality(S)
      BY <2>1, PlaceFacts
    <2> QED
      BY <2>2
  <1>2. PICK s \in S : Place(S, s) = 1
    BY <1>1, PlaceFacts
  <1>3. \A t \in S : s <= t
    <2> SUFFICES ASSUME NEW t \in S, t < s PROVE FALSE
      OBVIOUS
    <2>1. Place(S, t) < Place(S, s) /\ Place(S, t) \in 1..Cardinality(S)
      BY PlaceFacts
    <2> QED
      BY <1>2, <2>1, PlaceFacts
  <1> QED
    BY <1>3 DEF Min

LEMMA MaxFacts ==
    ASSUME NEW S, IsFiniteSet(S), S \subseteq Int, S # {}
    PROVE  Max(S) \in S /\ \A s \in S : s <= Max(S)
  <1>1. Cardinality(S) \in 1..Cardinality(S)
    <2>1. PICK s \in S : TRUE
      OBVIOUS
    <2>2. Cardinality(S) \in Nat /\ Place(S, s) \in 1..Cardinality(S)
      BY <2>1, PlaceFacts
    <2> QED
      BY <2>2
  <1>2. PICK s \in S : Place(S, s) = Cardinality(S)
    BY <1>1, PlaceFacts
  <1>3. \A t \in S : t <= s
    <2> SUFFICES ASSUME NEW t \in S, s < t PROVE FALSE
      OBVIOUS
    <2>1. Place(S, s) < Place(S, t) /\ Place(S, t) \in 1..Cardinality(S)
      BY PlaceFacts
    <2> QED
      BY <1>1, <1>2, <2>1
  <1> QED
    BY <1>3 DEF Max

\* InOrder is the increasing sequence of the elements.
LEMMA InOrderFacts ==
    ASSUME NEW S, IsFiniteSet(S), S \subseteq Int
    PROVE  /\ InOrder(S) \in Seq(S)
           /\ ToSet(InOrder(S)) = S
           /\ \A i, j \in DOMAIN InOrder(S) : i < j => InOrder(S)[i] < InOrder(S)[j]
  <1> DEFINE n == Cardinality(S)
             s == [i \in 1..n |-> CHOOSE x \in S : Place(S, x) = i]
  <1>1. n \in Nat
    BY FS_CardinalityType
  <1>2. \A i \in 1..n : s[i] \in S /\ Place(S, s[i]) = i
    BY PlaceFacts
  <1>3. \A i, j \in 1..n : i < j => s[i] < s[j]
    <2> SUFFICES ASSUME NEW i \in 1..n, NEW j \in 1..n, i < j, ~(s[i] < s[j]) PROVE FALSE
      OBVIOUS
    <2>1. s[i] \in S /\ s[j] \in S /\ Place(S, s[i]) = i /\ Place(S, s[j]) = j
      BY <1>2
    <2> HIDE DEF s
    <2>2. s[i] # s[j]
      BY <2>1
    <2>3. s[j] < s[i]
      <3>1. s[i] \in Int /\ s[j] \in Int
        BY <2>1
      <3> QED
        BY <2>2, <3>1
    <2>4. Place(S, s[j]) < Place(S, s[i])
      BY <2>1, <2>3, PlaceFacts
    <2> QED
      BY <1>1, <2>1, <2>4
  <1>4. s \in SetToSeqs(S)
    <2>1. s \in [1..n -> S]
      BY <1>2
    <2>2. \A i, j \in 1..n : i # j => s[i] # s[j]
      BY <1>1, <1>2
    <2> QED
      BY <2>1, <2>2 DEF SetToSeqs
  <1>5. DOMAIN s = 1..n
    OBVIOUS
  <1> HIDE DEF s
  <1>6. /\ InOrder(S) \in SetToSeqs(S)
        /\ \A i, j \in DOMAIN InOrder(S) : i < j => InOrder(S)[i] < InOrder(S)[j]
    BY <1>3, <1>4, <1>5 DEF InOrder
  <1>7. /\ InOrder(S) \in [1..n -> S]
        /\ \A i, j \in 1..n : i # j => InOrder(S)[i] # InOrder(S)[j]
    BY <1>6 DEF SetToSeqs
  <1>8. InOrder(S) \in Injection(1..n, S)
    BY <1>7 DEF Injection, IsInjective
  <1>9. IsFiniteSet(1..n) /\ Cardinality(1..n) = n
    BY <1>1, FS_Interval
  <1>10. InOrder(S) \in Surjection(1..n, S)
    BY <1>8, <1>9, FS_Injection
  <1>11. ToSet(InOrder(S)) = S
    BY <1>7, <1>10 DEF ToSet, Surjection
  <1> QED
    BY <1>1, <1>6, <1>7, <1>11

(***************************************************************************)
(* The sources of an identity                                              *)
(***************************************************************************)

Patterns(config) == UNION {row.patterns : row \in config.mapping}

LEMMA PatternFacts ==
    ASSUME NEW config, ValidConfiguration(config), NEW id, ExactRank \in Nat \ {0},
           NEW p \in Patterns(config)
    PROVE  /\ p.exact \in BOOLEAN /\ p.length \in Nat
           /\ ~p.exact => p.length + 1 < ExactRank
           /\ PatternRank(p, id) \in Nat
           /\ PatternRank(p, id) # 0 <=> id \in p.matches
  <1>1. PICK row \in config.mapping : p \in row.patterns
    BY DEF Patterns
  <1>2. p.exact \in BOOLEAN /\ p.length \in Nat /\ (p.exact \/ p.length + 1 < ExactRank)
    BY <1>1 DEF ValidConfiguration
  <1>3. CASE id \notin p.matches
    <2>1. PatternRank(p, id) = 0
      BY <1>3 DEF PatternRank
    <2> QED
      BY <1>2, <1>3, <2>1
  <1>4. CASE id \in p.matches /\ p.exact
    <2>1. PatternRank(p, id) = ExactRank
      BY <1>4 DEF PatternRank
    <2> QED
      BY <1>2, <1>4, <2>1
  <1>5. CASE id \in p.matches /\ ~p.exact
    <2>1. PatternRank(p, id) = p.length + 1
      BY <1>5 DEF PatternRank
    <2> QED
      BY <1>2, <1>5, <2>1
  <1> QED
    BY <1>3, <1>4, <1>5

\* The rank a mapping requires is the greatest of its patterns.
LEMMA RequiredRankFacts ==
    ASSUME NEW config, ValidConfiguration(config), NEW id, ExactRank \in Nat \ {0}
    PROVE  LET rank == RequiredRank(config.mapping, id)
           IN  /\ rank \in Nat
               /\ \A p \in Patterns(config) : PatternRank(p, id) <= rank
               /\ rank # 0 => \E p \in Patterns(config) : PatternRank(p, id) = rank
  <1> DEFINE ranks == {PatternRank(p, id) : p \in Patterns(config)}
             rankOf == [p \in Patterns(config) |-> PatternRank(p, id)]
  <1>1. IsFiniteSet(Patterns(config))
    BY DEF ValidConfiguration, Patterns
  <1>2. rankOf \in Surjection(Patterns(config), ranks)
    <2>1. rankOf \in [Patterns(config) -> ranks]
      OBVIOUS
    <2>2. \A r \in ranks : \E p \in Patterns(config) : rankOf[p] = r
      OBVIOUS
    <2> QED
      BY <2>1, <2>2 DEF Surjection
  <1>3. IsFiniteSet(ranks)
    BY <1>1, <1>2, FS_Surjection
  <1>4. ranks \subseteq Nat
    BY PatternFacts
  <1>5. IsFiniteSet(ranks \cup {0}) /\ ranks \cup {0} = {0} \cup ranks
    BY <1>3, FS_AddElement
  <1>6. {0} \cup ranks \subseteq Int /\ {0} \cup ranks # {}
    BY <1>4
  <1> DEFINE rank == Max({0} \cup ranks)
  <1> HIDE DEF ranks
  <1>7. rank \in {0} \cup ranks /\ \A r \in {0} \cup ranks : r <= rank
    BY <1>5, <1>6, MaxFacts
  <1>8. rank = RequiredRank(config.mapping, id)
    BY DEF RequiredRank, ranks, Patterns
  <1> HIDE DEF rank
  <1>9. rank \in Nat /\ (rank # 0 => rank \in ranks)
    BY <1>4, <1>7
  <1> QED
    BY <1>7, <1>8, <1>9 DEF ranks

\* The most specific patterns of a mapping select (PackageSourceMapping): the sources whose
\* rank is the greatest are those with a pattern that none beats, an exact one beating any
\* prefix and a longer prefix a shorter one; all are sources of the configuration.
THEOREM SelectedIsEntitled ==
    ASSUME NEW config, ValidConfiguration(config), NEW id, ExactRank \in Nat \ {0},
           DOMAIN config.sources = 1..Len(config.sources), Len(config.sources) \in Nat
    PROVE  /\ SelectedSources(config, id) = Entitled(config, id)
           /\ SelectedSources(config, id) \subseteq DOMAIN config.sources
  <1> DEFINE rank == RequiredRank(config.mapping, id)
             matching == {p \in Patterns(config) : id \in p.matches}
             best == {p \in matching : \A q \in matching : ~Beats(q, p)}
  <1>1. CASE config.mapping = NoMapping
    BY <1>1 DEF SelectedSources, Entitled
  <1>2. CASE config.mapping # NoMapping
    <2>1. /\ rank \in Nat
          /\ \A p \in Patterns(config) : PatternRank(p, id) <= rank
          /\ rank # 0 => \E p \in Patterns(config) : PatternRank(p, id) = rank
      BY RequiredRankFacts
    <2>2. ASSUME NEW p \in Patterns(config)
          PROVE  p \in best <=> rank # 0 /\ PatternRank(p, id) = rank
      <3>1. ASSUME NEW q \in Patterns(config)
            PROVE  /\ q.exact \in BOOLEAN /\ q.length \in Nat
                   /\ ~q.exact => q.length + 1 < ExactRank
                   /\ PatternRank(q, id) \in Nat
                   /\ PatternRank(q, id) # 0 <=> id \in q.matches
        BY PatternFacts
      <3>2. ASSUME NEW q \in matching, NEW r \in matching
            PROVE  Beats(q, r) <=> PatternRank(q, id) > PatternRank(r, id)
        BY <3>1, <3>2 DEF Beats, PatternRank
      <3>3. p \in matching <=> PatternRank(p, id) # 0
        BY <3>1
      <3>4. ASSUME p \in best PROVE rank # 0 /\ PatternRank(p, id) = rank
        <4>1. p \in matching /\ PatternRank(p, id) \in Nat /\ PatternRank(p, id) # 0
          BY <3>1, <3>3, <3>4
        <4>2. rank # 0
          BY <2>1, <4>1
        <4>3. PICK q \in Patterns(config) : PatternRank(q, id) = rank
          BY <2>1, <4>2
        <4>4. q \in matching
          BY <3>1, <4>2, <4>3
        <4>5. ~Beats(q, p)
          BY <3>4, <4>4
        <4>6. ~(rank > PatternRank(p, id))
          BY <3>2, <4>1, <4>3, <4>4, <4>5
        <4> QED
          BY <2>1, <4>1, <4>2, <4>6
      <3>5. ASSUME rank # 0, PatternRank(p, id) = rank PROVE p \in best
        <4>1. p \in matching
          BY <3>3, <3>5
        <4>2. ASSUME NEW q \in matching PROVE ~Beats(q, p)
          <5>1. PatternRank(q, id) \in Nat /\ PatternRank(q, id) <= rank
            BY <2>1, <3>1
          <5>2. ~(PatternRank(q, id) > PatternRank(p, id))
            BY <2>1, <3>5, <5>1
          <5> QED
            BY <3>2, <4>1, <5>2
        <4> QED
          BY <4>1, <4>2
      <3> QED
        BY <3>4, <3>5
    <2> HIDE DEF best, rank
    <2>3. Entitled(config, id) =
             {s \in DOMAIN config.sources :
                 \E row \in config.mapping : row.source = s /\ row.patterns \cap best # {}}
      BY <1>2 DEF Entitled, best, Patterns
    <2>4. SelectedSources(config, id) =
             IF rank = 0 THEN {} ELSE SourcesAtRank(config.mapping, id, rank)
      BY <1>2 DEF SelectedSources, EnabledSources, rank
    <2>5. ASSUME NEW row \in config.mapping
          PROVE  /\ row.source \in 0..Len(config.sources)
                 /\ row.patterns \cap best # {} <=>
                       rank # 0 /\ \E p \in row.patterns : PatternRank(p, id) = rank
      <3>1. row.patterns \subseteq Patterns(config)
        BY DEF Patterns
      <3>2. row.source \in 0..Len(config.sources)
        BY DEF ValidConfiguration
      <3> QED
        BY <2>2, <3>1, <3>2
    <2>6. SelectedSources(config, id) = Entitled(config, id)
      <3>1. CASE rank = 0
        <4>1. SelectedSources(config, id) = {}
          BY <2>4, <3>1
        <4>2. Entitled(config, id) = {}
          BY <2>3, <2>5, <3>1
        <4> QED
          BY <4>1, <4>2
      <3>2. CASE rank # 0
        <4>1. ASSUME NEW s
              PROVE  s \in SelectedSources(config, id) <=>
                        \E row \in config.mapping :
                           /\ row.source = s /\ s # 0
                           /\ \E p \in row.patterns : PatternRank(p, id) = rank
          BY <2>4, <3>2 DEF SourcesAtRank
        <4>2. ASSUME NEW s
              PROVE  s \in Entitled(config, id) <=>
                        \E row \in config.mapping :
                           /\ row.source = s /\ s # 0
                           /\ \E p \in row.patterns : PatternRank(p, id) = rank
          BY <2>3, <2>5, <3>2
        <4> QED
          BY <4>1, <4>2
      <3> QED
        BY <3>1, <3>2
    <2>7. Entitled(config, id) \subseteq DOMAIN config.sources
      BY <2>3
    <2> QED
      BY <2>6, <2>7
  <1> QED
    BY <1>1, <1>2

(***************************************************************************)
(* The batch of service indexes                                            *)
(***************************************************************************)

LEMMA SeqFacts ==
    ASSUME NEW S, NEW s \in Seq(S)
    PROVE  /\ Len(s) \in Nat /\ DOMAIN s = 1..Len(s)
           /\ \A i \in DOMAIN s : s[i] \in S
           /\ ToSet(s) \subseteq S /\ IsFiniteSet(ToSet(s))
           /\ s = <<>> => ToSet(s) = {}
  <1>1. Len(s) \in Nat /\ DOMAIN s = 1..Len(s) /\ \A i \in DOMAIN s : s[i] \in S
    OBVIOUS
  <1>2. ToSet(s) \subseteq S
    BY <1>1 DEF ToSet
  <1>3. s \in Surjection(1..Len(s), ToSet(s))
    <2>1. s \in [1..Len(s) -> ToSet(s)]
      <3>1. s = [i \in 1..Len(s) |-> s[i]]
        BY <1>1
      <3> QED
        BY <1>1, <3>1 DEF ToSet
    <2>2. \A t \in ToSet(s) : \E i \in 1..Len(s) : s[i] = t
      BY <1>1 DEF ToSet
    <2> QED
      BY <2>1, <2>2 DEF Surjection
  <1>4. IsFiniteSet(1..Len(s))
    BY <1>1, FS_Interval
  <1>5. IsFiniteSet(ToSet(s))
    BY <1>3, <1>4, FS_Surjection
  <1>6. s = <<>> => ToSet(s) = {}
    BY DEF ToSet
  <1> QED
    BY <1>1, <1>2, <1>5, <1>6

\* A sequence is its first elements and the rest.
LEMMA SplitFacts ==
    ASSUME NEW S, NEW s \in Seq(S), NEW n \in 0..Len(s)
    PROVE  /\ SubSeq(s, n + 1, Len(s)) \in Seq(S)
           /\ {s[j] : j \in 1..n} \subseteq S
           /\ ToSet(s) = {s[j] : j \in 1..n} \cup ToSet(SubSeq(s, n + 1, Len(s)))
  <1> DEFINE rest == SubSeq(s, n + 1, Len(s))
  <1>1. Len(s) \in Nat /\ DOMAIN s = 1..Len(s) /\ \A i \in DOMAIN s : s[i] \in S
    OBVIOUS
  <1>2. /\ rest \in Seq(S) /\ Len(rest) = Len(s) - n /\ DOMAIN rest = 1..(Len(s) - n)
        /\ \A j \in 1..(Len(s) - n) : rest[j] = s[n + j]
    <2>1. n + 1 \in Int /\ Len(s) \in Int /\ \A i \in (n + 1)..Len(s) : s[i] \in S
      BY <1>1
    <2>2. /\ rest \in Seq(S)
          /\ Len(rest) = IF n + 1 <= Len(s) THEN Len(s) - (n + 1) + 1 ELSE 0
          /\ \A i \in 1..(Len(s) - (n + 1) + 1) : rest[i] = s[(n + 1) + i - 1]
      BY <2>1, SubSeqProperties
    <2> HIDE DEF rest
    <2>3. Len(rest) = Len(s) - n /\ Len(s) - (n + 1) + 1 = Len(s) - n
      <3>1. n \in Nat /\ n <= Len(s) /\ Len(s) \in Nat
        BY <1>1
      <3>2. Len(rest) = IF n + 1 <= Len(s) THEN Len(s) - (n + 1) + 1 ELSE 0
        BY <2>2
      <3> QED
        BY <3>1, <3>2
    <2>4. DOMAIN rest = 1..Len(rest)
      BY <2>2
    <2>5. \A j \in 1..(Len(s) - n) : rest[j] = s[n + j]
      <3> SUFFICES ASSUME NEW j \in 1..(Len(s) - n) PROVE rest[j] = s[n + j]
        OBVIOUS
      <3>1. (n + 1) + j - 1 = n + j
        BY <1>1
      <3> QED
        BY <2>2, <2>3, <3>1
    <2> QED
      BY <2>2, <2>3, <2>4, <2>5
  <1> HIDE DEF rest
  <1>3. ASSUME NEW j \in 1..Len(s), j > n
        PROVE  s[j] \in ToSet(rest)
    <2>1. j - n \in DOMAIN rest /\ rest[j - n] = s[j]
      <3>1. j - n \in 1..(Len(s) - n) /\ n + (j - n) = j
        BY <1>1, <1>3
      <3> QED
        BY <1>2, <3>1
    <2> QED
      BY <2>1 DEF ToSet
  <1>4. ASSUME NEW j \in DOMAIN rest
        PROVE  rest[j] \in ToSet(s)
    <2>1. n + j \in DOMAIN s /\ rest[j] = s[n + j]
      BY <1>1, <1>2
    <2> QED
      BY <2>1 DEF ToSet
  <1>5. \A j \in 1..n : j \in DOMAIN s
    BY <1>1
  <1>6. ToSet(s) \subseteq {s[j] : j \in 1..n} \cup ToSet(rest)
    <2> SUFFICES ASSUME NEW j \in DOMAIN s, j \notin 1..n
                 PROVE  s[j] \in ToSet(rest)
      BY DEF ToSet
    <2> QED
      BY <1>1, <1>3
  <1>7. {s[j] : j \in 1..n} \subseteq ToSet(s)
    BY <1>5 DEF ToSet
  <1>8. ToSet(rest) \subseteq ToSet(s)
    <2> SUFFICES ASSUME NEW j \in DOMAIN rest PROVE rest[j] \in ToSet(s)
      BY DEF ToSet
    <2> QED
      BY <1>4
  <1> QED
    BY <1>1, <1>2, <1>5, <1>6, <1>7, <1>8 DEF rest

Discoveries == [slots : SUBSET Nat, snapshot : Seq(Nat), asked : Nat, pending : Seq(Nat),
                running : SUBSET Nat, completed : Seq(Nat)]

Queued(d) == d.running \cup ToSet(d.pending) \cup ToSet(d.completed)

\* Jobs move from the queue to the workers; none is lost and there are never more than
\* the workers.
LEMMA StaffedFacts ==
    ASSUME NEW d \in Discoveries, NEW workers \in Int,
           IsFiniteSet(d.running), Cardinality(d.running) <= workers
    PROVE  /\ Staffed(d, workers) \in Discoveries
           /\ Staffed(d, workers).slots = d.slots
           /\ Staffed(d, workers).asked = d.asked
           /\ Staffed(d, workers).snapshot = d.snapshot
           /\ Staffed(d, workers).completed = d.completed
           /\ Queued(Staffed(d, workers)) = Queued(d)
           /\ IsFiniteSet(Staffed(d, workers).running)
           /\ Cardinality(Staffed(d, workers).running) <= workers
  <1> DEFINE both == {Len(d.pending), workers - Cardinality(d.running)}
             n == Min(both)
             taken == {d.pending[j] : j \in 1..n}
             rest == SubSeq(d.pending, n + 1, Len(d.pending))
             e == Staffed(d, workers)
  <1>1. Len(d.pending) \in Nat /\ Cardinality(d.running) \in Nat
    BY FS_CardinalityType DEF Discoveries
  <1>2. n \in both /\ \A m \in both : n <= m
    <2>1. CASE Len(d.pending) <= workers - Cardinality(d.running)
      BY <1>1, <2>1 DEF Min
    <2>2. CASE workers - Cardinality(d.running) <= Len(d.pending)
      BY <1>1, <2>2 DEF Min
    <2> QED
      BY <1>1, <2>1, <2>2
  <1>3. n \in Nat /\ n <= Len(d.pending) /\ n + Cardinality(d.running) <= workers
    BY <1>1, <1>2
  <1>4. e = [d EXCEPT !.running = @ \cup taken, !.pending = rest]
    BY DEF Staffed
  <1> HIDE DEF n, both, e
  <1>5. d.pending \in Seq(Nat) /\ n \in 0..Len(d.pending)
    BY <1>1, <1>3 DEF Discoveries
  <1>6. taken \subseteq Nat /\ rest \in Seq(Nat)
    BY <1>5, SplitFacts
  <1>7. ToSet(d.pending) = taken \cup ToSet(rest)
    BY <1>5, SplitFacts
  <1>8. IsFiniteSet(taken) /\ Cardinality(taken) <= n
    <2>1. IsFiniteSet(1..n) /\ Cardinality(1..n) = n
      BY <1>3, FS_Interval
    <2>2. [j \in 1..n |-> d.pending[j]] \in Surjection(1..n, taken)
      BY DEF Surjection
    <2> HIDE DEF taken
    <2> QED
      BY <2>1, <2>2, FS_Surjection
  <1>9. IsFiniteSet(d.running \cup taken) /\ Cardinality(d.running \cup taken) <= workers
    <2>1. /\ IsFiniteSet(d.running \cup taken)
          /\ Cardinality(d.running \cup taken) =
                Cardinality(d.running) + Cardinality(taken) - Cardinality(d.running \cap taken)
      BY <1>8, FS_Union
    <2>2. Cardinality(d.running \cap taken) \in Nat /\ Cardinality(taken) \in Nat
      BY <1>8, FS_Intersection, FS_CardinalityType
    <2> QED
      BY <1>1, <1>3, <1>8, <2>1, <2>2
  <1> HIDE DEF taken, rest
  <1>10. /\ e \in Discoveries /\ e.slots = d.slots /\ e.asked = d.asked /\ e.snapshot = d.snapshot
         /\ e.completed = d.completed /\ e.running = d.running \cup taken /\ e.pending = rest
    BY <1>4, <1>6 DEF Discoveries
  <1>11. Queued(e) = Queued(d)
    BY <1>7, <1>10 DEF Queued
  <1> QED
    BY <1>9, <1>10, <1>11 DEF e

\* The failure that is reported is that of the first source that fails; without one,
\* every index was served.
LEMMA FirstFailureFacts ==
    ASSUME NEW config, discovery \in Discoveries
    PROVE  LET results == ToSet(discovery.completed)
               Served(s) == config.sources[s].index = "served"
           IN  /\ FirstFailure(config) = 0 /\ 0 \notin results => \A s \in results : Served(s)
               /\ FirstFailure(config) # 0 =>
                     /\ FirstFailure(config) \in results
                     /\ \A s \in results : s < FirstFailure(config) => Served(s)
  <1> DEFINE results == ToSet(discovery.completed)
             sorted == Sorted(discovery.completed)
             failed == {j \in DOMAIN sorted : config.sources[sorted[j]].index # "served"}
  <1>1. results \subseteq Nat /\ IsFiniteSet(results)
    <2>1. discovery.completed \in Seq(Nat)
      BY DEF Discoveries
    <2> QED
      BY <2>1, SeqFacts
  <1>2. /\ sorted \in Seq(results) /\ ToSet(sorted) = results
        /\ \A i, j \in DOMAIN sorted : i < j => sorted[i] < sorted[j]
    BY <1>1, InOrderFacts DEF Sorted
  <1> HIDE DEF results, sorted
  <1>3. DOMAIN sorted = 1..Len(sorted) /\ Len(sorted) \in Nat
    BY <1>2
  <1>4. \A s \in results : \E j \in DOMAIN sorted : sorted[j] = s
    BY <1>2 DEF ToSet
  <1>5. FirstFailure(config) = IF failed = {} THEN 0 ELSE sorted[Min(failed)]
    BY DEF FirstFailure, sorted
  <1>6. CASE failed = {}
    <2>1. \A s \in results : config.sources[s].index = "served"
      BY <1>4, <1>6
    <2> QED
      BY <1>5, <1>6, <2>1 DEF results
  <1>7. CASE failed # {}
    <2>1. IsFiniteSet(failed)
      <3>1. IsFiniteSet(1..Len(sorted)) /\ failed \in SUBSET (1..Len(sorted))
        BY <1>3, FS_Interval
      <3> QED
        BY <3>1, FS_Subset
    <2>2. Min(failed) \in failed /\ \A j \in failed : Min(failed) <= j
      <3>1. failed \subseteq Int
        BY <1>3
      <3> HIDE DEF failed
      <3> QED
        BY <1>7, <2>1, <3>1, MinFacts
    <2> DEFINE first == Min(failed)
    <2> HIDE DEF first
    <2>3. first \in DOMAIN sorted /\ sorted[first] \in results /\ FirstFailure(config) = sorted[first]
      BY <1>2, <1>3, <1>5, <1>7, <2>2 DEF first
    <2>4. ASSUME NEW s \in results, s < sorted[first]
          PROVE  config.sources[s].index = "served"
      <3>1. PICK j \in DOMAIN sorted : sorted[j] = s
        BY <1>4
      <3>2. ~(first <= j)
        <4>1. CASE first = j
          BY <1>1, <2>3, <2>4, <3>1, <4>1
        <4>2. CASE first < j
          <5>1. sorted[first] < sorted[j]
            BY <1>2, <2>3, <3>1, <4>2
          <5>2. sorted[first] \in Nat /\ sorted[j] \in Nat /\ sorted[j] < sorted[first]
            BY <1>1, <2>3, <2>4, <3>1
          <5> QED
            BY <5>1, <5>2
        <4> QED
          BY <1>3, <2>3, <3>1, <4>1, <4>2
      <3>3. j \notin failed
        BY <2>2, <3>2 DEF first
      <3> QED
        BY <3>1, <3>3
    <2>5. config.sources[sorted[first]].index # "served"
      BY <2>2 DEF first
    <2>6. FirstFailure(config) = 0 /\ 0 \notin results => FALSE
      BY <2>3
    <2> QED
      BY <2>3, <2>4, <2>6 DEF results
  <1> QED
    BY <1>6, <1>7
=============================================================================
