--------------------------------- MODULE Folding ---------------------------------
(***************************************************************************)
(* What a fold from the left over a sequence goes through, for any         *)
(* operator that is folded: the proofs that need it take an instance of    *)
(* this module for each.                                                   *)
(***************************************************************************)
EXTENDS Integers, Sequences, SequencesExt, WellFoundedInduction, TLAPS

CONSTANT Op(_, _, _)    \* of what it depends on, the fold so far and an element

Folded(context, base, seq) == FoldLeft(LAMBDA so_far, x : Op(context, so_far, x), base, seq)

\* The values of a fold, from none of the elements to all.
IsTrace(trace, context, base, seq) ==
    trace = [n \in 0..Len(seq) |-> IF n = 0 THEN base ELSE Op(context, trace[n - 1], seq[n])]

\* The function by which a fold is defined, on the sets of the first places.
IsIteration(iteration, context, base, seq, k) ==
    iteration = [places \in SUBSET (1..k) |->
                    IF places = {}
                    THEN base
                    ELSE Op(context, iteration[places \ {Max(places)}], seq[Max(places)])]

-------------------------------------------------------------------------------

LEMMA LeastNumber ==
    ASSUME NEW S \in SUBSET Nat, S # {}
    PROVE  \E n \in S : \A m \in S : n <= m
  <1>1. IsWellFoundedOn(OpToRel(<, Nat), Nat)
    BY NatLessThanWellFounded
  <1>2. PICK n \in S : \A m \in S : <<m, n>> \notin OpToRel(<, Nat)
    BY <1>1, WFMin
  <1>3. ASSUME NEW m \in S, ~(n <= m) PROVE FALSE
    <2>1. m \in Nat /\ n \in Nat /\ m < n
      BY <1>3
    <2> QED
      BY <1>2, <2>1 DEF OpToRel
  <1> QED
    BY <1>3

\* A set of numbers that holds 0 and every successor is the whole interval.
LEMMA Numbers ==
    ASSUME NEW N \in Nat, NEW T \in SUBSET (0..N), 0 \in T,
           \A n \in T : n + 1 \in 0..N => n + 1 \in T
    PROVE  T = 0..N
  <1> SUFFICES ASSUME (0..N) \ T # {} PROVE FALSE
    OBVIOUS
  <1> DEFINE rest == (0..N) \ T
  <1>1. PICK n \in rest : \A m \in rest : n <= m
    <2>1. rest \in SUBSET Nat /\ rest # {}
      OBVIOUS
    <2> HIDE DEF rest
    <2> QED
      BY <2>1, LeastNumber
  <1>2. n # 0 /\ n - 1 \in 0..N /\ ~(n <= n - 1) /\ (n - 1) + 1 = n
    OBVIOUS
  <1> QED
    BY <1>1, <1>2

\* The place that is taken last of the first n is the nth.
LEMMA LastPlace ==
    ASSUME NEW n \in Nat, n # 0
    PROVE  /\ Max(1..n) = n
           /\ (1..n) \ {Max(1..n)} = 1..(n - 1)
           /\ 1..n # {}
  <1>1. n \in 1..n /\ \A m \in 1..n : n >= m
    OBVIOUS
  <1>2. \A m \in 1..n : (\A l \in 1..n : m >= l) => m = n
    OBVIOUS
  <1> QED
    BY <1>1, <1>2 DEF Max

\* What is left of a set of the first places without its last is of fewer.
LEMMA LastOfSome ==
    ASSUME NEW k \in Nat, NEW places \in SUBSET (1..(k + 1)), places # {}
    PROVE  /\ Max(places) \in places
           /\ places \ {Max(places)} \in SUBSET (1..k)
  <1> DEFINE above == {n \in 0..k : (k + 1) - n \in places}
  <1>1. \A place \in places : place \in Int /\ 1 <= place /\ place <= k + 1
    OBVIOUS
  <1>2. above \in SUBSET Nat /\ above # {}
    <2>1. PICK place \in places : TRUE
      OBVIOUS
    <2>2. (k + 1) - place \in 0..k /\ (k + 1) - ((k + 1) - place) = place
      BY <1>1
    <2>3. above \subseteq 0..k /\ 0..k \subseteq Nat
      OBVIOUS
    <2> QED
      BY <2>2, <2>3
  <1>3. PICK least \in above : \A other \in above : least <= other
    <2> HIDE DEF above
    <2> QED
      BY <1>2, LeastNumber
  <1> DEFINE last == (k + 1) - least
  <1>4. last \in places /\ least \in Int
    OBVIOUS
  <1>5. ASSUME NEW place \in places PROVE last >= place
    <2>1. (k + 1) - place \in above
      <3>1. (k + 1) - place \in 0..k /\ (k + 1) - ((k + 1) - place) = place
        BY <1>1
      <3> QED
        BY <3>1
    <2> HIDE DEF above
    <2> QED
      BY <1>1, <1>3, <1>4, <2>1
  <1> HIDE DEF last, above
  <1>6. Max(places) \in places /\ \A place \in places : Max(places) >= place
    BY <1>4, <1>5 DEF Max
  <1>7. ASSUME NEW place \in places \ {Max(places)} PROVE place \in 1..k
    <2>1. place \in Int /\ Max(places) \in Int /\ Max(places) <= k + 1 /\ 1 <= place
      BY <1>1, <1>6
    <2>2. Max(places) >= place /\ Max(places) # place
      BY <1>6
    <2>3. place < k + 1
      BY <2>1, <2>2
    <2> QED
      BY <2>1, <2>3
  <1> QED
    BY <1>6, <1>7

LEMMA IterationExists ==
    ASSUME NEW context, NEW base, NEW seq, NEW N \in Nat
    PROVE  \E iteration : IsIteration(iteration, context, base, seq, N)
  <1> DEFINE T == {k \in 0..N : \E iteration : IsIteration(iteration, context, base, seq, k)}
  <1>1. 0 \in T
    <2> DEFINE iteration == [places \in SUBSET (1..0) |-> base]
    <2>1. \A places \in SUBSET (1..0) : places = {}
      OBVIOUS
    <2>2. IsIteration(iteration, context, base, seq, 0)
      BY <2>1 DEF IsIteration
    <2> HIDE DEF iteration
    <2> QED
      BY <2>2
  <1>2. ASSUME NEW k \in T, k + 1 \in 0..N PROVE k + 1 \in T
    <2>1. PICK before : IsIteration(before, context, base, seq, k)
      OBVIOUS
    <2> DEFINE after == [places \in SUBSET (1..(k + 1)) |->
                            IF places = {}
                            THEN base
                            ELSE Op(context, before[places \ {Max(places)}], seq[Max(places)])]
    <2>0. k \in Nat /\ SUBSET (1..k) \subseteq SUBSET (1..(k + 1))
      OBVIOUS
    <2>2. ASSUME NEW places \in SUBSET (1..k) PROVE after[places] = before[places]
      BY <2>0, <2>1 DEF IsIteration
    <2>3. ASSUME NEW places \in SUBSET (1..(k + 1)), places # {}
          PROVE  after[places \ {Max(places)}] = before[places \ {Max(places)}]
      <3>1. places \ {Max(places)} \in SUBSET (1..k)
        BY <2>0, <2>3, LastOfSome
      <3> HIDE DEF after
      <3> QED
        BY <2>2, <3>1
    <2>4. after = [places \in SUBSET (1..(k + 1)) |->
                      IF places = {}
                      THEN base
                      ELSE Op(context, after[places \ {Max(places)}], seq[Max(places)])]
      BY <2>3
    <2> HIDE DEF after
    <2> QED
      BY <1>2, <2>4 DEF IsIteration
  <1> HIDE DEF T
  <1>3. T = 0..N
    <2>1. T \in SUBSET (0..N)
      BY DEF T
    <2> QED
      BY <1>1, <1>2, <2>1, Numbers
  <1> QED
    BY <1>3 DEF T

\* A fold is the last of the values it goes through.
LEMMA FoldTrace ==
    ASSUME NEW context, NEW base, NEW S, NEW seq \in Seq(S)
    PROVE  \E trace : /\ IsTrace(trace, context, base, seq)
                      /\ Folded(context, base, seq) = trace[Len(seq)]
  <1> DEFINE N == Len(seq)
  <1>1. N \in Nat /\ DOMAIN seq = 1..N
    OBVIOUS
  <1>2. PICK iteration : /\ IsIteration(iteration, context, base, seq, N)
                         /\ Folded(context, base, seq) = iteration[1..N]
    <2> DEFINE P(iteration) == iteration = [places \in SUBSET DOMAIN seq |->
                    IF places = {}
                    THEN base
                    ELSE Op(context, iteration[places \ {Max(places)}], seq[Max(places)])]
    <2>1. \E iteration : P(iteration)
      <3>1. PICK iteration : IsIteration(iteration, context, base, seq, N)
        BY <1>1, IterationExists
      <3>2. P(iteration)
        BY <1>1, <3>1 DEF IsIteration
      <3> HIDE DEF P
      <3> QED
        BY <3>2
    <2>2. P(CHOOSE iteration : P(iteration))
      <3> HIDE DEF P
      <3> QED
        BY <2>1
    <2>3. Folded(context, base, seq) = (CHOOSE iteration : P(iteration))[DOMAIN seq]
      BY DEF Folded, FoldLeft, MapThenFoldSet
    <2> QED
      BY <1>1, <2>2, <2>3 DEF IsIteration
  <1> DEFINE trace == [n \in 0..N |-> iteration[1..n]]
  <1>3. iteration[1..0] = base
    <2>1. 1..0 = {} /\ 1..0 \in SUBSET (1..N)
      OBVIOUS
    <2> QED
      BY <1>2, <2>1 DEF IsIteration
  <1>4. ASSUME NEW n \in 0..N, n # 0
        PROVE  iteration[1..n] = Op(context, iteration[1..(n - 1)], seq[n])
    <2>1. 1..n \in SUBSET (1..N)
      BY <1>1
    <2>2. /\ Max(1..n) = n /\ (1..n) \ {Max(1..n)} = 1..(n - 1) /\ 1..n # {}
      <3>1. n \in Nat
        BY <1>1
      <3> QED
        BY <1>4, <3>1, LastPlace
    <2>3. iteration[1..n] = IF 1..n = {}
                            THEN base
                            ELSE Op(context, iteration[(1..n) \ {Max(1..n)}], seq[Max(1..n)])
      BY <1>2, <2>1 DEF IsIteration
    <2> QED
      BY <2>2, <2>3
  <1>5. trace = [n \in 0..N |-> IF n = 0 THEN base ELSE Op(context, trace[n - 1], seq[n])]
    BY <1>1, <1>3, <1>4
  <1>6. trace[N] = iteration[1..N]
    BY <1>1
  <1> HIDE DEF trace
  <1> QED
    BY <1>2, <1>5, <1>6 DEF IsTrace
=============================================================================
