----------------------------- MODULE Inductions -----------------------------
(***************************************************************************)
(* Lemmas about sequences, finite sets of numbers and folds.  Induction    *)
(* over data is by the least counterexample: the numbers up to n for which *)
(* something fails would have a least element.                             *)
(***************************************************************************)
EXTENDS Filtering, Integers, Sequences, FiniteSets, FiniteSetsExt,
        FiniteSetTheorems, SequenceTheorems, WellFoundedInduction, TLAPS

\* A function over 1..n is a sequence.
LEMMA IsSeq ==
  ASSUME NEW S, NEW n \in Nat, NEW f \in [1..n -> S]
  PROVE  f \in Seq(S) /\ Len(f) = n
  OBVIOUS

\* The elements of a sequence.
LEMMA InSeq ==
  ASSUME NEW S, NEW s \in Seq(S)
  PROVE  /\ \A x \in ToSet(s) : \E k \in 1..Len(s) : x = s[k]
         /\ \A k \in 1..Len(s) : s[k] \in ToSet(s) /\ s[k] \in S
         /\ ToSet(s) \subseteq S
         /\ Len(s) \in Nat /\ DOMAIN s = 1..Len(s)
  BY DEF ToSet

\* A sequence cut in two.
LEMMA Cut ==
  ASSUME NEW S, NEW s \in Seq(S), NEW i \in 0..Len(s)
  PROVE  /\ SubSeq(s, 1, i) \in Seq(S) /\ Len(SubSeq(s, 1, i)) = i
         /\ \A k \in 1..i : SubSeq(s, 1, i)[k] = s[k]
         /\ SubSeq(s, i + 1, Len(s)) \in Seq(S) /\ Len(SubSeq(s, i + 1, Len(s))) = Len(s) - i
         /\ \A k \in 1..(Len(s) - i) : SubSeq(s, i + 1, Len(s))[k] = s[i + k]
         /\ SubSeq(s, 1, i) \o SubSeq(s, i + 1, Len(s)) = s
  <1>1. Len(s) \in Nat
    OBVIOUS
  <1>2. /\ SubSeq(s, 1, i) \in Seq(S) /\ Len(SubSeq(s, 1, i)) = i
        /\ \A k \in 1..i : SubSeq(s, 1, i)[k] = s[k]
    OBVIOUS
  <1>3. /\ SubSeq(s, i + 1, Len(s)) \in Seq(S) /\ Len(SubSeq(s, i + 1, Len(s))) = Len(s) - i
        /\ \A k \in 1..(Len(s) - i) : SubSeq(s, i + 1, Len(s))[k] = s[i + k]
    OBVIOUS
  <1>4. SubSeq(s, 1, i) \o SubSeq(s, i + 1, Len(s)) = s
    <2>1. 1 \in 1..(Len(s) + 1) /\ i \in (1 - 1)..Len(s) /\ Len(s) \in i..Len(s)
      BY <1>1
    <2> QED
      BY <2>1, ConcatAdjacentSubSeq, SubSeqFull
  <1> QED
    BY <1>2, <1>3, <1>4

\* < is well-founded.
LEMMA NatOrder == IsWellFoundedOn({p \in Nat \X Nat : p[1] < p[2]}, Nat)
  BY NatLessThanWellFounded DEF OpToRel

\* Every nonempty set of natural numbers has a least element.
LEMMA LeastElement ==
  ASSUME NEW T \in SUBSET Nat, T # {}
  PROVE  \E x \in T : \A y \in T : x <= y
  <1> DEFINE R == {p \in Nat \X Nat : p[1] < p[2]}
  <1>1. \E x \in T : \A y \in T : <<y, x>> \notin R
    <2>1. IsWellFoundedOn(R, Nat)
      BY NatOrder
    <2> HIDE DEF R
    <2> QED
      BY <2>1, WFMin
  <1>2. PICK x \in T : \A y \in T : <<y, x>> \notin R
    BY <1>1
  <1>3. ASSUME NEW y \in T, y < x PROVE FALSE
    <2>1. /\ <<y, x>> \in Nat \X Nat
          /\ <<y, x>>[1] = y /\ <<y, x>>[2] = x
      OBVIOUS
    <2>2. <<y, x>> \in R
      BY <2>1, <1>3, Zenon
    <2> QED
      BY <1>2, <2>2
  <1> QED
    BY <1>3

\* Induction up to n, for a set of numbers.
LEMMA UpTo ==
  ASSUME NEW n \in Nat, NEW T, 0 \in T, \A j \in 1..n : j - 1 \in T => j \in T
  PROVE  \A j \in 0..n : j \in T
  <1> DEFINE U == (0..n) \ T
  <1> SUFFICES ASSUME U # {} PROVE FALSE
    OBVIOUS
  <1>1. U \in SUBSET Nat
    OBVIOUS
  <1>2. PICK x \in U : \A y \in U : x <= y
    <2> HIDE DEF U
    <2> QED
      BY <1>1, LeastElement
  <1>3. x \in 1..n /\ x - 1 \in 0..n /\ x - 1 \notin U
    BY <1>2
  <1> QED
    BY <1>3

\* A nonempty set of integers with an upper bound has a greatest element.
LEMMA GreatestElement ==
  ASSUME NEW T \in SUBSET Int, T # {}, NEW m \in Int, \A t \in T : t <= m
  PROVE  Max(T) \in T /\ \A t \in T : t <= Max(T)
  <1> DEFINE U == {m - t : t \in T}
  <1>1. U \in SUBSET Nat /\ U # {}
    <2>1. \A t \in T : m - t \in Nat
      OBVIOUS
    <2> QED
      BY <2>1
  <1>2. PICK u \in U : \A v \in U : u <= v
    <2> HIDE DEF U
    <2> QED
      BY <1>1, LeastElement
  <1>3. PICK t \in T : u = m - t
    OBVIOUS
  <1>4. ASSUME NEW s \in T PROVE s <= t
    <2>1. m - s \in U
      OBVIOUS
    <2>2. m - t <= m - s
      BY <1>2, <1>3, <2>1
    <2> QED
      BY <2>2
  <1> QED
    BY <1>4 DEF Max

\* A nonempty set of integers with a lower bound has a smallest element.
LEMMA SmallestElement ==
  ASSUME NEW T \in SUBSET Int, T # {}, NEW m \in Int, \A t \in T : m <= t
  PROVE  Min(T) \in T /\ \A t \in T : Min(T) <= t
  <1> DEFINE U == {t - m : t \in T}
  <1>1. U \in SUBSET Nat /\ U # {}
    <2>1. \A t \in T : t - m \in Nat
      OBVIOUS
    <2> QED
      BY <2>1
  <1>2. PICK u \in U : \A v \in U : u <= v
    <2> HIDE DEF U
    <2> QED
      BY <1>1, LeastElement
  <1>3. PICK t \in T : u = t - m
    OBVIOUS
  <1>4. ASSUME NEW s \in T PROVE t <= s
    <2>1. s - m \in U
      OBVIOUS
    <2>2. t - m <= s - m
      BY <1>2, <1>3, <2>1
    <2> QED
      BY <2>2
  <1> QED
    BY <1>4 DEF Min

-----------------------------------------------------------------------------
(* Folds. *)

\* The function that MapThenFoldSet chooses when it folds over 1..n.
IsFold(g, base, next, n) ==
  g = [t \in SUBSET (1..n) |->
         IF t = {} THEN base ELSE next[<<g[t \ {Max(t)}], Max(t)>>]]

\* There is a fold of every step function.
LEMMA FoldExists ==
  ASSUME NEW A, NEW base \in A, NEW n \in Nat, NEW next \in [A \X (1..n) -> A]
  PROVE  \E g \in [SUBSET (1..n) -> A] : IsFold(g, base, next, n)
  <1> DEFINE E(m) == \E g \in [SUBSET (1..m) -> A] : IsFold(g, base, next, m)
             T == {m \in 0..n : ~E(m)}
  <1>1. E(0)
    <2> DEFINE g == [t \in SUBSET (1..0) |-> base]
    <2>1. g \in [SUBSET (1..0) -> A]
      OBVIOUS
    <2>2. \A t \in SUBSET (1..0) : t = {}
      OBVIOUS
    <2>3. IsFold(g, base, next, 0)
      BY <2>2 DEF IsFold
    <2> QED
      BY <2>1, <2>3
  <1>2. ASSUME NEW m \in 0..(n - 1), E(m) PROVE E(m + 1)
    <2>1. PICK g \in [SUBSET (1..m) -> A] : IsFold(g, base, next, m)
      BY <1>2
    <2> HIDE DEF T, E
    <2>0. m \in Nat /\ m + 1 \in Int /\ m + 1 \in 1..n
      OBVIOUS
    <2> DEFINE h == [t \in SUBSET (1..(m + 1)) |->
                       IF m + 1 \in t THEN next[<<g[t \ {m + 1}], m + 1>>] ELSE g[t]]
    <2>2. \A t \in SUBSET (1..(m + 1)) : t \ {m + 1} \in SUBSET (1..m)
      OBVIOUS
    <2>3. \A t \in SUBSET (1..(m + 1)) : m + 1 \notin t => t \in SUBSET (1..m)
      OBVIOUS
    <2>7. \A t \in SUBSET (1..(m + 1)) : t \in SUBSET Int /\ \A x \in t : x <= m + 1
      OBVIOUS
    <2>8. \A t \in SUBSET (1..(m + 1)) :
            t # {} => Max(t) \in t /\ \A x \in t : x <= Max(t)
      BY <2>0, <2>7, GreatestElement
    <2>4. h \in [SUBSET (1..(m + 1)) -> A]
      <3> SUFFICES ASSUME NEW t \in SUBSET (1..(m + 1)) PROVE h[t] \in A
        OBVIOUS
      <3>1. CASE m + 1 \in t
        <4>1. <<g[t \ {m + 1}], m + 1>> \in A \X (1..n)
          BY <2>2
        <4> QED
          BY <3>1, <4>1
      <3>2. CASE m + 1 \notin t
        BY <3>2, <2>3
      <3> QED
        BY <3>1, <3>2
    <2>5. ASSUME NEW t \in SUBSET (1..(m + 1))
          PROVE  h[t] = IF t = {} THEN base ELSE next[<<h[t \ {Max(t)}], Max(t)>>]
      <3>1. CASE m + 1 \in t
        <4>1. Max(t) = m + 1
          <5>1. Max(t) \in t /\ \A x \in t : x <= Max(t)
            BY <3>1, <2>8
          <5>2. Max(t) \in Int /\ Max(t) <= m + 1 /\ m + 1 <= Max(t)
            BY <5>1, <2>7, <3>1
          <5> QED
            BY <5>2, <2>0
        <4>2. h[t \ {m + 1}] = g[t \ {m + 1}]
          BY <2>2
        <4> QED
          BY <3>1, <4>1, <4>2
      <3>2. CASE m + 1 \notin t /\ t # {}
        <4>1. t \in SUBSET (1..m)
          BY <3>2, <2>3
        <4>2. Max(t) \in t
          BY <3>2, <2>8
        <4>3. t \ {Max(t)} \in SUBSET (1..m) /\ m + 1 \notin t \ {Max(t)}
          BY <4>1, <4>2, <3>2
        <4>4. t \ {Max(t)} \in SUBSET (1..(m + 1))
          OBVIOUS
        <4>5. h[t \ {Max(t)}] = g[t \ {Max(t)}]
          BY <4>3, <4>4
        <4>6. h[t] = g[t]
          BY <3>2
        <4>7. g[t] = next[<<g[t \ {Max(t)}], Max(t)>>]
          BY <2>1, <4>1, <3>2, Zenon DEF IsFold
        <4> QED
          BY <3>2, <4>5, <4>6, <4>7
      <3>3. CASE t = {}
        BY <3>3, <2>1, Zenon DEF IsFold
      <3> QED
        BY <3>1, <3>2, <3>3
    <2>6. IsFold(h, base, next, m + 1)
      <3> HIDE DEF h
      <3>1. h = [t \in SUBSET (1..(m + 1)) |-> h[t]]
        BY <2>4
      <3> QED
        BY <2>5, <3>1, Zenon DEF IsFold
    <2> HIDE DEF h
    <2> QED
      BY <2>4, <2>6 DEF E
  <1>3. ASSUME T # {} PROVE FALSE
    <2>1. T \in SUBSET Nat
      OBVIOUS
    <2>2. PICK m \in T : \A k \in T : m <= k
      <3> HIDE DEF T
      <3> QED
        BY <1>3, <2>1, LeastElement
    <2> HIDE DEF E
    <2>3. m # 0
      BY <1>1
    <2>4. m - 1 \in 0..(n - 1) /\ m - 1 \notin T
      BY <2>2, <2>3
    <2>5. E(m - 1)
      BY <2>4
    <2>6. E((m - 1) + 1)
      BY <1>2, <2>4, <2>5
    <2> QED
      BY <2>6
  <1>4. E(n)
    <2> HIDE DEF E
    <2> QED
      BY <1>3
  <1> QED
    BY <1>4 DEF E

\* 1..j loses its greatest element.
LEMMA Peel ==
  ASSUME NEW j \in Nat \ {0}
  PROVE  1..j # {} /\ Max(1..j) = j /\ (1..j) \ {Max(1..j)} = 1..(j - 1)
  <1>1. 1..j # {} /\ 1..j \in SUBSET Int /\ j \in Int /\ \A x \in 1..j : x <= j
    OBVIOUS
  <1>2. Max(1..j) \in 1..j /\ \A x \in 1..j : x <= Max(1..j)
    BY <1>1, GreatestElement
  <1>3. Max(1..j) = j
    BY <1>2
  <1> QED
    BY <1>1, <1>3

-----------------------------------------------------------------------------
(* Filter. *)

\* What a filter has kept after each element.
FilterRun(acc, S, s, A) ==
  /\ acc \in [0..Len(s) -> Seq(S)]
  /\ acc[0] = <<>>
  /\ \A j \in 1..Len(s) :
       acc[j] = IF s[j] \in A THEN Append(acc[j - 1], s[j]) ELSE acc[j - 1]
  /\ Filter(s, A) = acc[Len(s)]

\* There is such an account of every filter.
LEMMA FilterSteps ==
  ASSUME NEW S, NEW s \in Seq(S), NEW A
  PROVE  \E acc : FilterRun(acc, S, s, A)
  <1> DEFINE n == Len(s)
             op(k, x) == IF x \in A THEN Append(k, x) ELSE k
             next == [p \in Seq(S) \X (1..n) |-> op(p[1], s[p[2]])]
             Eq(g) == g = [t \in SUBSET (1..n) |->
                             IF t = {} THEN <<>> ELSE op(g[t \ {Max(t)}], s[Max(t)])]
             iter == CHOOSE g : Eq(g)
  <1>1. n \in Nat /\ DOMAIN s = 1..n /\ <<>> \in Seq(S)
    OBVIOUS
  <1>2. next \in [Seq(S) \X (1..n) -> Seq(S)]
    <2>1. \A p \in Seq(S) \X (1..n) : op(p[1], s[p[2]]) \in Seq(S)
      OBVIOUS
    <2> QED
      BY <2>1
  <1>3. PICK g \in [SUBSET (1..n) -> Seq(S)] : IsFold(g, <<>>, next, n)
    <2> HIDE DEF next, n
    <2> QED
      BY <1>1, <1>2, FoldExists
  <1>4. \A t \in SUBSET (1..n) : t # {} => Max(t) \in 1..n
    <2>1. \A t \in SUBSET (1..n) : t \in SUBSET Int /\ \A x \in t : x <= n
      BY <1>1
    <2>2. n \in Int
      BY <1>1
    <2> HIDE DEF n
    <2> QED
      BY <2>1, <2>2, GreatestElement
  <1>5. Eq(g)
    <2>1. ASSUME NEW t \in SUBSET (1..n), t # {}
          PROVE  next[<<g[t \ {Max(t)}], Max(t)>>] = op(g[t \ {Max(t)}], s[Max(t)])
      <3>1. t \ {Max(t)} \in SUBSET (1..n)
        OBVIOUS
      <3>2. g[t \ {Max(t)}] \in Seq(S) /\ Max(t) \in 1..n
        BY <3>1, <1>4, <2>1
      <3> HIDE DEF n, op
      <3> QED
        BY <3>2
    <2> HIDE DEF next, op, n
    <2> QED
      BY <1>3, <2>1 DEF IsFold
  <1>6. Eq(iter)
    <2> HIDE DEF Eq
    <2> QED
      BY <1>5
  <1>7. Filter(s, A) = iter[1..n]
    BY <1>1 DEF Filter, FoldLeft, MapThenFoldSet
  <1> DEFINE acc == [j \in 0..n |-> iter[1..j]]
  <1> HIDE DEF iter
  <1>8. acc[0] = <<>>
    BY <1>6
  <1>9. ASSUME NEW j \in 1..n PROVE acc[j] = op(acc[j - 1], s[j])
    <2>1. 1..j # {} /\ Max(1..j) = j /\ (1..j) \ {Max(1..j)} = 1..(j - 1)
      BY Peel
    <2>2. 1..j \in SUBSET (1..n)
      OBVIOUS
    <2>3. iter[1..j] = op(iter[1..(j - 1)], s[j])
      <3> HIDE DEF op, n
      <3> QED
      BY <1>6, <2>1, <2>2
    <2> QED
      BY <2>3
  <1>10. acc \in [0..n -> Seq(S)]
    <2> DEFINE T == {j \in 0..n : acc[j] \in Seq(S)}
    <2> HIDE DEF acc, op, next, Eq
    <2>1. 0 \in T
      <3>1. acc[0] \in Seq(S) /\ 0 \in 0..n
        BY <1>1, <1>8
      <3> QED
        BY <3>1
    <2>2. ASSUME NEW j \in 1..n, j - 1 \in T PROVE j \in T
      <3>1. acc[j] = op(acc[j - 1], s[j]) /\ s[j] \in S
        BY <1>1, <1>9
      <3>2. Append(acc[j - 1], s[j]) \in Seq(S)
        BY <2>2, <3>1, AppendProperties
      <3>3. acc[j] \in Seq(S)
        BY <2>2, <3>1, <3>2 DEF op
      <3> QED
        BY <3>3
    <2>3. \A j \in 0..n : j \in T
      <3> HIDE DEF T, n
      <3> QED
        BY <1>1, <2>1, <2>2, UpTo
    <2> QED
      BY <2>3 DEF acc
  <1>11. acc[n] = Filter(s, A)
    BY <1>1, <1>7
  <1> HIDE DEF acc
  <1> QED
    BY <1>8, <1>9, <1>10, <1>11 DEF FilterRun

\* A filter keeps elements of the sequence that are in the set.
LEMMA FilterType ==
  ASSUME NEW S, NEW s \in Seq(S), NEW A
  PROVE  Filter(s, A) \in Seq(S \cap A)
  <1>0. PICK acc : FilterRun(acc, S, s, A)
    BY FilterSteps
  <1>1. /\ acc \in [0..Len(s) -> Seq(S)]
        /\ acc[0] = <<>>
        /\ \A j \in 1..Len(s) :
             acc[j] = IF s[j] \in A THEN Append(acc[j - 1], s[j]) ELSE acc[j - 1]
        /\ Filter(s, A) = acc[Len(s)]
    BY <1>0 DEF FilterRun
  <1> DEFINE T == {j \in 0..Len(s) : acc[j] \in Seq(S \cap A)}
  <1>2. 0 \in T
    BY <1>1
  <1>3. ASSUME NEW j \in 1..Len(s), j - 1 \in T PROVE j \in T
    <2>1. s[j] \in A => s[j] \in S \cap A
      OBVIOUS
    <2>2. acc[j - 1] \in Seq(S \cap A)
      BY <1>3
    <2>3. s[j] \in A => Append(acc[j - 1], s[j]) \in Seq(S \cap A)
      BY <2>1, <2>2, AppendProperties
    <2>4. acc[j] \in Seq(S \cap A)
      BY <1>1, <2>2, <2>3
    <2> QED
      BY <2>4
  <1>4. \A j \in 0..Len(s) : j \in T
    <2>1. Len(s) \in Nat
      OBVIOUS
    <2> HIDE DEF T
    <2> QED
      BY <1>2, <1>3, <2>1, UpTo
  <1> QED
    BY <1>1, <1>4

\* A filter that one element of the sequence passes, and once, returns it.
LEMMA FilterOne ==
  ASSUME NEW S, NEW s \in Seq(S), NEW A, NEW i \in 1..Len(s), s[i] \in A,
         \A j \in 1..Len(s) : s[j] \in A => j = i
  PROVE  Filter(s, A) = <<s[i]>>
  <1>0. PICK acc : FilterRun(acc, S, s, A)
    BY FilterSteps
  <1>1. /\ acc \in [0..Len(s) -> Seq(S)]
        /\ acc[0] = <<>>
        /\ \A j \in 1..Len(s) :
             acc[j] = IF s[j] \in A THEN Append(acc[j - 1], s[j]) ELSE acc[j - 1]
        /\ Filter(s, A) = acc[Len(s)]
    BY <1>0 DEF FilterRun
  <1> DEFINE T == {j \in 0..Len(s) : acc[j] = IF j < i THEN <<>> ELSE <<s[i]>>}
  <1>2. 0 \in T
    BY <1>1
  <1>3. ASSUME NEW j \in 1..Len(s), j - 1 \in T PROVE j \in T
    <2>1. acc[j - 1] = IF j - 1 < i THEN <<>> ELSE <<s[i]>>
      BY <1>3
    <2>2. CASE j = i
      <3>0. j \in 1..Len(s) /\ s[j] \in A /\ acc[j - 1] = <<>>
        BY <2>1, <2>2
      <3>1. acc[j] = Append(<<>>, s[i])
        BY <1>1, <2>2, <3>0
      <3>2. Append(<<>>, s[i]) = <<s[i]>>
        OBVIOUS
      <3> QED
        BY <2>2, <3>1, <3>2
    <2>3. CASE j # i
      <3>1. acc[j] = acc[j - 1]
        BY <1>1, <2>3
      <3> QED
        BY <2>1, <2>3, <3>1
    <2> QED
      BY <2>2, <2>3
  <1>4. \A j \in 0..Len(s) : j \in T
    <2>1. Len(s) \in Nat
      OBVIOUS
    <2> HIDE DEF T
    <2> QED
      BY <1>2, <1>3, <2>1, UpTo
  <1> QED
    BY <1>1, <1>4

\* A sequence with one element more.
LEMMA AppendOne ==
  ASSUME NEW S, NEW s \in Seq(S), NEW x \in S
  PROVE  /\ Append(s, x) \in Seq(S)
         /\ Range(Append(s, x)) = Range(s) \union {x}
         /\ IsInjective(s) /\ x \notin Range(s) => IsInjective(Append(s, x))
  <1> DEFINE t == Append(s, x)
             n == Len(s)
  <1>1. /\ t \in Seq(S) /\ DOMAIN t = 1..(n + 1) /\ DOMAIN s = 1..n /\ n \in Nat
        /\ \A k \in 1..n : t[k] = s[k]
        /\ t[n + 1] = x
    OBVIOUS
  <1> HIDE DEF t, n
  <1>2. n + 1 \in 1..(n + 1) /\ \A k \in 1..n : k \in 1..(n + 1) /\ k # n + 1
    BY <1>1
  <1>3. \A k \in 1..(n + 1) : k \in 1..n \/ k = n + 1
    BY <1>1
  <1>4. Range(t) = Range(s) \union {x}
    <2>1. Range(t) \subseteq Range(s) \union {x}
      BY <1>1, <1>3 DEF Range
    <2>2. Range(s) \union {x} \subseteq Range(t)
      BY <1>1, <1>2 DEF Range
    <2> QED
      BY <2>1, <2>2
  <1>5. ASSUME IsInjective(s), x \notin Range(s), NEW a \in 1..(n + 1), NEW b \in 1..(n + 1), t[a] = t[b]
        PROVE  a = b
    <2>1. \A k \in 1..n : s[k] # x
      BY <1>1, <1>5 DEF Range
    <2>2. CASE a \in 1..n /\ b \in 1..n
      BY <1>1, <1>5, <2>2 DEF IsInjective
    <2>3. CASE a = n + 1 \/ b = n + 1
      BY <1>1, <1>3, <1>5, <2>1, <2>3
    <2> QED
      BY <1>3, <2>2, <2>3
  <1>6. IsInjective(s) /\ x \notin Range(s) => IsInjective(t)
    BY <1>1, <1>5 DEF IsInjective
  <1> QED
    BY <1>1, <1>4, <1>6 DEF t

\* What a filter keeps, and that it repeats nothing.
LEMMA FilterKeeps ==
  ASSUME NEW S, NEW s \in Seq(S), NEW A
  PROVE  /\ Filter(s, A) \in Seq(S)
         /\ Range(Filter(s, A)) = Range(s) \cap A
         /\ IsInjective(s) => IsInjective(Filter(s, A))
  <1>0. PICK acc : FilterRun(acc, S, s, A)
    BY FilterSteps
  <1> DEFINE n == Len(s)
             First(j) == {s[i] : i \in 1..j}
             T == {j \in 0..n : /\ Range(acc[j]) = First(j) \cap A
                                /\ IsInjective(s) => IsInjective(acc[j])}
  <1>1. /\ acc \in [0..n -> Seq(S)]
        /\ acc[0] = <<>>
        /\ \A j \in 1..n : acc[j] = IF s[j] \in A THEN Append(acc[j - 1], s[j]) ELSE acc[j - 1]
        /\ Filter(s, A) = acc[n]
        /\ n \in Nat /\ DOMAIN s = 1..n /\ \A j \in 1..n : s[j] \in S
    BY <1>0 DEF FilterRun
  <1> HIDE DEF n
  <1>2. 0 \in T
    <2>1. DOMAIN <<>> = {} /\ 1..0 = {}
      OBVIOUS
    <2> QED
      BY <1>1, <2>1 DEF Range, IsInjective
  <1>3. ASSUME NEW j \in 1..n, j - 1 \in T PROVE j \in T
    <2>1. j - 1 \in 0..n /\ 1..j = 1..(j - 1) \union {j}
          /\ \A i \in 1..(j - 1) : i \in 1..n /\ i # j
      BY <1>1
    <2>2. acc[j - 1] \in Seq(S) /\ s[j] \in S
          /\ Range(acc[j - 1]) = First(j - 1) \cap A
          /\ (IsInjective(s) => IsInjective(acc[j - 1]))
      BY <1>1, <1>3, <2>1
    <2>3. First(j) = First(j - 1) \union {s[j]}
      BY <2>1
    <2>4. CASE s[j] \in A
      <3>1. acc[j] = Append(acc[j - 1], s[j])
        BY <1>1, <2>4
      <3>2. /\ Range(acc[j]) = Range(acc[j - 1]) \union {s[j]}
            /\ IsInjective(acc[j - 1]) /\ s[j] \notin Range(acc[j - 1]) => IsInjective(acc[j])
        BY <2>2, <3>1, AppendOne
      <3>3. IsInjective(s) => s[j] \notin First(j - 1)
        BY <1>1, <2>1 DEF IsInjective
      <3>4. Range(acc[j]) = First(j) \cap A
        <4> HIDE DEF First
        <4> QED
          BY <2>2, <2>3, <2>4, <3>2
      <3> HIDE DEF First
      <3> QED
        BY <2>2, <3>2, <3>3, <3>4
    <2>5. CASE s[j] \notin A
      <3>1. acc[j] = acc[j - 1]
        BY <1>1, <2>5
      <3> HIDE DEF First
      <3> QED
        BY <2>2, <2>3, <2>5, <3>1
    <2> QED
      BY <2>4, <2>5
  <1>4. n \in 0..n
    BY <1>1
  <1>5. \A j \in 0..n : j \in T
    <2> HIDE DEF T
    <2> QED
      BY <1>1, <1>2, <1>3, UpTo
  <1>6. Range(s) = First(n)
    BY <1>1 DEF Range
  <1> HIDE DEF First
  <1> QED
    BY <1>1, <1>4, <1>5, <1>6

\* Two sequences, one after the other.
LEMMA RangeConcat ==
  ASSUME NEW S, NEW s \in Seq(S), NEW t \in Seq(S)
  PROVE  /\ s \o t \in Seq(S) /\ Len(s \o t) = Len(s) + Len(t)
         /\ Range(s \o t) = Range(s) \union Range(t)
         /\ IsInjective(s \o t) <=>
              IsInjective(s) /\ IsInjective(t) /\ Range(s) \cap Range(t) = {}
  <1> DEFINE u == s \o t
             n == Len(s)
             m == Len(t)
  <1>1. /\ u \in Seq(S) /\ Len(u) = n + m
        /\ DOMAIN u = 1..(n + m) /\ DOMAIN s = 1..n /\ DOMAIN t = 1..m
        /\ n \in Nat /\ m \in Nat
        /\ \A k \in 1..n : u[k] = s[k]
        /\ \A k \in 1..m : u[n + k] = t[k]
    OBVIOUS
  <1> HIDE DEF u, n, m
  <1>2. /\ \A k \in 1..n : k \in 1..(n + m)
        /\ \A k \in 1..m : n + k \in 1..(n + m) /\ n + k \notin 1..n
        /\ \A k \in 1..(n + m) : k \in 1..n \/ (k - n \in 1..m /\ n + (k - n) = k)
    BY <1>1
  <1>3. Range(u) = Range(s) \union Range(t)
    <2>1. Range(u) \subseteq Range(s) \union Range(t)
      <3> SUFFICES ASSUME NEW k \in 1..(n + m) PROVE u[k] \in Range(s) \union Range(t)
        BY <1>1 DEF Range
      <3>1. CASE k \in 1..n
        BY <1>1, <3>1 DEF Range
      <3>2. CASE k - n \in 1..m /\ n + (k - n) = k
        <4>1. u[k] = t[k - n]
          BY <1>1, <3>2
        <4> QED
          BY <1>1, <3>2, <4>1 DEF Range
      <3> QED
        BY <1>2, <3>1, <3>2
    <2>2. \A k \in 1..n : s[k] \in Range(u)
      BY <1>1, <1>2 DEF Range
    <2>3. \A k \in 1..m : t[k] \in Range(u)
      <3> SUFFICES ASSUME NEW k \in 1..m PROVE t[k] \in Range(u)
        OBVIOUS
      <3>1. n + k \in DOMAIN u /\ u[n + k] = t[k]
        BY <1>1, <1>2
      <3> QED
        BY <3>1 DEF Range
    <2>4. Range(s) \union Range(t) \subseteq Range(u)
      BY <1>1, <2>2, <2>3 DEF Range
    <2> QED
      BY <2>1, <2>4
  <1>4. ASSUME IsInjective(u)
        PROVE  IsInjective(s) /\ IsInjective(t) /\ Range(s) \cap Range(t) = {}
    <2>1. IsInjective(s)
      BY <1>1, <1>2, <1>4 DEF IsInjective
    <2>2. IsInjective(t)
      <3> SUFFICES ASSUME NEW a \in 1..m, NEW b \in 1..m, t[a] = t[b] PROVE a = b
        BY <1>1 DEF IsInjective
      <3>1. n + a = n + b
        BY <1>1, <1>2, <1>4 DEF IsInjective
      <3> QED
        BY <1>1, <3>1
    <2>3. \A a \in 1..n, b \in 1..m : s[a] # t[b]
      BY <1>1, <1>2, <1>4, ZenonT(40) DEF IsInjective
    <2> QED
      BY <1>1, <2>1, <2>2, <2>3 DEF Range
  <1>5. ASSUME IsInjective(s), IsInjective(t), Range(s) \cap Range(t) = {},
               NEW a \in 1..(n + m), NEW b \in 1..(n + m), u[a] = u[b]
        PROVE  a = b
    <2>1. \A i \in 1..n, j \in 1..m : s[i] # t[j]
      BY <1>1, <1>5 DEF Range
    <2>2. CASE a \in 1..n /\ b \in 1..n
      BY <1>1, <1>5, <2>2 DEF IsInjective
    <2>3. CASE a \in 1..n /\ b \notin 1..n
      <3>1. b - n \in 1..m /\ n + (b - n) = b
        BY <1>2, <2>3
      <3>2. u[a] = s[a] /\ u[b] = t[b - n]
        BY <1>1, <2>3, <3>1
      <3> QED
        BY <1>5, <2>1, <2>3, <3>1, <3>2
    <2>4. CASE a \notin 1..n /\ b \in 1..n
      <3>1. a - n \in 1..m /\ n + (a - n) = a
        BY <1>2, <2>4
      <3>2. u[b] = s[b] /\ u[a] = t[a - n]
        BY <1>1, <2>4, <3>1
      <3> QED
        BY <1>5, <2>1, <2>4, <3>1, <3>2
    <2>5. CASE a \notin 1..n /\ b \notin 1..n
      <3>1. u[a] = t[a - n] /\ u[b] = t[b - n] /\ a - n \in 1..m /\ b - n \in 1..m
        BY <1>1, <1>2, <2>5
      <3>2. a - n = b - n
        BY <1>1, <1>5, <3>1 DEF IsInjective
      <3> QED
        BY <1>1, <3>2
    <2> QED
      BY <2>2, <2>3, <2>4, <2>5
  <1>6. IsInjective(s) /\ IsInjective(t) /\ Range(s) \cap Range(t) = {} => IsInjective(u)
    BY <1>1, <1>5 DEF IsInjective
  <1> QED
    BY <1>1, <1>3, <1>4, <1>6 DEF u, n, m

-----------------------------------------------------------------------------
(* Sequences of sequences, listings and orders of finite sets. *)

\* What FlattenSeq has joined after each of the sequences.
FlattenRun(f, seqs, n) ==
  f = [i \in 1..n |-> IF i = 1 THEN seqs[i] ELSE f[i - 1] \o seqs[i]]

\* There is such an account.
LEMMA FlattenExists ==
  ASSUME NEW S, NEW n \in Nat, NEW seqs \in [1..n -> Seq(S)]
  PROVE  \E f \in [1..n -> Seq(S)] : FlattenRun(f, seqs, n)
<1> DEFINE E(m) == \E f \in [1..m -> Seq(S)] : FlattenRun(f, seqs, m)
           T == {m \in 0..n : E(m)}
<1>1. 0 \in T
  <2>1. [i \in 1..0 |-> <<>>] \in [1..0 -> Seq(S)]
    OBVIOUS
  <2>2. FlattenRun([i \in 1..0 |-> <<>>], seqs, 0)
    BY DEF FlattenRun
  <2>3. E(0)
    BY <2>1, <2>2, Zenon
  <2> HIDE DEF E
  <2> QED
    BY <2>3
<1>2. ASSUME NEW m \in 1..n, m - 1 \in T
      PROVE  m \in T
  <2>1. PICK f \in [1..(m - 1) -> Seq(S)] : FlattenRun(f, seqs, m - 1)
    BY <1>2
  <2>2. \A i \in 1..(m - 1) : f[i] = IF i = 1 THEN seqs[i] ELSE f[i - 1] \o seqs[i]
    BY <2>1, Zenon DEF FlattenRun
  <2> DEFINE last == IF m = 1 THEN seqs[m] ELSE f[m - 1] \o seqs[m]
             g == [i \in 1..m |-> IF i = m THEN last ELSE f[i]]
  <2>3. last \in Seq(S)
    <3>1. CASE m = 1
      BY <3>1
    <3>2. CASE m # 1
      BY <3>2, ConcatProperties
    <3> QED
      BY <3>1, <3>2
  <2>4. g \in [1..m -> Seq(S)]
    BY <2>3
  <2>5. ASSUME NEW i \in 1..m
        PROVE  g[i] = IF i = 1 THEN seqs[i] ELSE g[i - 1] \o seqs[i]
    <3>1. CASE i = m
      <4>1. m # 1 => m - 1 \in 1..m /\ m - 1 # m
        OBVIOUS
      <4>2. m # 1 => g[m - 1] = f[m - 1]
        BY <4>1
      <4>3. g[m] = last
        OBVIOUS
      <4> HIDE DEF g
      <4> QED
        BY <3>1, <4>2, <4>3
    <3>2. CASE i # m
      <4>1. i \in 1..(m - 1) /\ (i # 1 => i - 1 \in 1..m /\ i - 1 # m)
        BY <3>2
      <4>2. g[i] = f[i] /\ (i # 1 => g[i - 1] = f[i - 1])
        BY <3>2, <4>1
      <4> HIDE DEF g
      <4> QED
        BY <2>2, <4>1, <4>2
    <3> QED
      BY <3>1, <3>2
  <2>6. FlattenRun(g, seqs, m)
    BY <2>5 DEF FlattenRun
  <2>7. E(m)
    BY <2>4, <2>6, Zenon
  <2> HIDE DEF E
  <2> QED
    BY <2>7
<1>3. \A m \in 0..n : m \in T
  <2> HIDE DEF T
  <2> QED
    BY <1>1, <1>2, UpTo
<1> QED
  BY <1>3

\* Sequences one after the other.
LEMMA Flattened ==
  ASSUME NEW S, NEW n \in Nat, NEW seqs \in [1..n -> Seq(S)]
  PROVE  /\ FlattenSeq(seqs) \in Seq(S)
         /\ ToSet(FlattenSeq(seqs)) = UNION {ToSet(seqs[k]) : k \in 1..n}
<1>0. Len(seqs) = n /\ DOMAIN seqs = 1..n
  BY IsSeq
<1>1. CASE n = 0
  <2>1. FlattenSeq(seqs) = seqs
    BY <1>0, <1>1 DEF FlattenSeq
  <2>2. seqs = <<>>
    BY <1>1
  <2> QED
    BY <1>1, <2>1, <2>2 DEF ToSet
<1>2. CASE n # 0
  <2> DEFINE flatten == CHOOSE f : FlattenRun(f, seqs, n)
  <2>1. FlattenRun(flatten, seqs, n)
    BY FlattenExists
  <2>2. FlattenSeq(seqs) = flatten[n]
    BY <1>0, <1>2 DEF FlattenSeq, FlattenRun
  <2> HIDE DEF flatten
  <2>3. \A i \in 1..n : flatten[i] = IF i = 1 THEN seqs[i] ELSE flatten[i - 1] \o seqs[i]
    BY <2>1, Zenon DEF FlattenRun
  <2> DEFINE Joined(m) == /\ flatten[m] \in Seq(S)
                          /\ Range(flatten[m]) = UNION {Range(seqs[k]) : k \in 1..m}
             T == {m \in 0..n : m = 0 \/ Joined(m)}
  <2>4. ASSUME NEW m \in 1..n, m - 1 \in T
        PROVE  m \in T
    <3>0. 1..m = (1..(m - 1)) \union {m} /\ 1..1 = {1}
      OBVIOUS
    <3> SUFFICES Joined(m)
      OBVIOUS
    <3>1. CASE m = 1
      <4>1. flatten[m] = seqs[1]
        BY <2>3, <3>1
      <4> QED
        BY <4>1, <3>0, <3>1
    <3>2. CASE m # 1
      <4>b. flatten[m] = IF m = 1 THEN seqs[m] ELSE flatten[m - 1] \o seqs[m]
        BY <2>3, Zenon
      <4>c. m - 1 # 0
        BY <3>2
      <4>0. flatten[m] = flatten[m - 1] \o seqs[m] /\ m - 1 # 0
        BY <4>b, <4>c, <3>2, Zenon
      <4>a. m - 1 = 0 \/ Joined(m - 1)
        BY <2>4
      <4>1. flatten[m] = flatten[m - 1] \o seqs[m] /\ Joined(m - 1)
        BY <4>0, <4>a
      <4>2. /\ flatten[m] \in Seq(S)
            /\ Range(flatten[m]) = Range(flatten[m - 1]) \union Range(seqs[m])
        BY <4>1, RangeConcat
      <4> QED
        BY <4>1, <4>2, <3>0
    <3> QED
      BY <3>1, <3>2
  <2>5. 0 \in T
    OBVIOUS
  <2>6. \A m \in 0..n : m \in T
    <3> HIDE DEF T
    <3> QED
      BY <2>4, <2>5, UpTo
  <2>8. n \in T
    <3> HIDE DEF T
    <3>1. n \in 0..n
      OBVIOUS
    <3> QED
      BY <2>6, <3>1
  <2>7. Joined(n)
    BY <2>8, <1>2
  <2> QED
    BY <2>2, <2>7 DEF Range, ToSet
<1> QED
  BY <1>1, <1>2

\* A function has a finite set of values on a finite set.
LEMMA FiniteValues ==
  ASSUME NEW S, IsFiniteSet(S), NEW f, DOMAIN f = S
  PROVE  IsFiniteSet({f[x] : x \in S}) /\ Cardinality({f[x] : x \in S}) <= Cardinality(S)
<1> DEFINE V == {f[x] : x \in S}
           g == [x \in S |-> f[x]]
<1>1. g \in Surjection(S, V)
  BY DEF Surjection
<1> QED
  BY <1>1, FS_Surjection

\* SetToSeq lists the elements of a finite set, each once.
LEMMA Listed ==
  ASSUME NEW S, IsFiniteSet(S)
  PROVE  /\ SetToSeq(S) \in [1..Cardinality(S) -> S]
         /\ SetToSeq(S) \in Seq(S) /\ Len(SetToSeq(S)) = Cardinality(S)
         /\ IsInjective(SetToSeq(S))
         /\ ToSet(SetToSeq(S)) = S
<1>1. PICK f \in Bijection(1..Cardinality(S), S) : TRUE
  BY FS_CardinalityType DEF ExistsBijection
<1>2. f \in [1..Cardinality(S) -> S] /\ IsInjective(f)
  BY <1>1 DEF Bijection, Injection, IsInjective
<1> DEFINE s == SetToSeq(S)
<1>3. s \in [1..Cardinality(S) -> S] /\ IsInjective(s)
  BY <1>2 DEF SetToSeq
<1> HIDE DEF s
<1>4. Cardinality(S) \in Nat /\ IsFiniteSet(1..Cardinality(S)) /\ Cardinality(1..Cardinality(S)) = Cardinality(S)
  BY FS_CardinalityType, FS_Interval
<1>5. s \in Injection(1..Cardinality(S), S)
  BY <1>3 DEF Injection, IsInjective
<1>6. s \in Surjection(1..Cardinality(S), S)
  BY <1>4, <1>5, FS_Injection
<1>7. ToSet(s) = S
  BY <1>3, <1>6 DEF Surjection, ToSet
<1>8. s \in Seq(S) /\ Len(s) = Cardinality(S)
  BY <1>3, <1>4, IsSeq
<1> QED
  BY <1>3, <1>7, <1>8 DEF s

\* earlier[x] is the set of those before x in a strict total order of S.
TotalOrder(S, earlier) ==
  /\ earlier \in [S -> SUBSET S]
  /\ \A x \in S : x \notin earlier[x]
  /\ \A x, y \in S : y \in earlier[x] => earlier[y] \subseteq earlier[x]
  /\ \A x, y \in S : x # y => x \in earlier[y] \/ y \in earlier[x]

\* Every element of a finite total order has a place, and every place an element.
LEMMA PlacesOf ==
  ASSUME NEW S, IsFiniteSet(S), NEW earlier, TotalOrder(S, earlier)
  PROVE  /\ \A x \in S : Cardinality(earlier[x]) \in 0..(Cardinality(S) - 1)
         /\ \A x, y \in S : x \in earlier[y] => Cardinality(earlier[x]) < Cardinality(earlier[y])
         /\ \A k \in 1..Cardinality(S) : \E x \in S : Cardinality(earlier[x]) = k - 1
<1> DEFINE n == Cardinality(S)
<1>0. n \in Nat /\ IsFiniteSet(1..n) /\ Cardinality(1..n) = n
  BY FS_CardinalityType, FS_Interval
<1>1. ASSUME NEW x \in S
      PROVE  Cardinality(earlier[x]) \in 0..(n - 1) /\ IsFiniteSet(earlier[x])
  <2>1. earlier[x] \in SUBSET S /\ x \notin earlier[x]
    BY DEF TotalOrder
  <2>2. IsFiniteSet(earlier[x]) /\ Cardinality(earlier[x]) \in Nat /\ Cardinality(earlier[x]) <= n
    BY <2>1, FS_Subset, FS_CardinalityType
  <2>3. Cardinality(earlier[x]) # n
    BY <2>1, FS_Subset
  <2> QED
    BY <1>0, <2>2, <2>3
<1>2. ASSUME NEW x \in S, NEW y \in S, x \in earlier[y]
      PROVE  Cardinality(earlier[x]) < Cardinality(earlier[y])
  <2>1. earlier[x] \in SUBSET earlier[y] /\ x \notin earlier[x]
    BY <1>2 DEF TotalOrder
  <2>2. IsFiniteSet(earlier[y]) /\ Cardinality(earlier[x]) \in Nat /\ Cardinality(earlier[y]) \in Nat
    BY <1>1, <1>0
  <2>3. Cardinality(earlier[x]) <= Cardinality(earlier[y]) /\ Cardinality(earlier[x]) # Cardinality(earlier[y])
    BY <2>1, <2>2, <1>2, FS_Subset
  <2> QED
    BY <2>2, <2>3
<1> DEFINE rank == [x \in S |-> Cardinality(earlier[x]) + 1]
<1>3. rank \in Injection(S, 1..n)
  <2>1. rank \in [S -> 1..n]
    BY <1>0, <1>1
  <2>2. ASSUME NEW x \in S, NEW y \in S, x # y
        PROVE  rank[x] # rank[y]
    <3>1. x \in earlier[y] \/ y \in earlier[x]
      BY <2>2 DEF TotalOrder
    <3>2. Cardinality(earlier[x]) # Cardinality(earlier[y])
      BY <3>1, <1>1, <1>2, <1>0
    <3> QED
      BY <3>2, <1>1, <1>0
  <2> QED
    BY <2>1, <2>2 DEF Injection, IsInjective
<1>4. rank \in Surjection(S, 1..n)
  BY <1>0, <1>3, FS_Injection
<1>5. ASSUME NEW k \in 1..n
      PROVE  \E x \in S : Cardinality(earlier[x]) = k - 1
  <2>1. PICK x \in S : rank[x] = k
    BY <1>4 DEF Surjection
  <2> QED
    BY <2>1, <1>1, <1>0
<1> QED
  BY <1>0, <1>1, <1>2, <1>5

\* The numbers up to n are finitely many.
LEMMA UpToFinite ==
  ASSUME NEW n \in Nat
  PROVE  IsFiniteSet(1..n) /\ Cardinality(1..n) = n
BY FS_Interval

\* A finite set of integers has a greatest and a smallest element.
LEMMA FiniteExtremes ==
  ASSUME NEW T \in SUBSET Int, IsFiniteSet(T), T # {}
  PROVE  /\ Max(T) \in T /\ \A t \in T : t <= Max(T)
         /\ Min(T) \in T /\ \A t \in T : Min(T) <= t
<1> DEFINE earlier == [x \in T |-> {y \in T : y < x}]
           n == Cardinality(T)
<1>0. \A x, y \in T : y \in earlier[x] <=> y < x
  OBVIOUS
<1>1. TotalOrder(T, earlier)
  <2>1. earlier \in [T -> SUBSET T]
    OBVIOUS
  <2>2. \A x \in T : x \notin earlier[x]
    BY <1>0
  <2>3. ASSUME NEW x \in T, NEW y \in T, y \in earlier[x]
        PROVE  earlier[y] \subseteq earlier[x]
    <3> SUFFICES ASSUME NEW z \in earlier[y] PROVE z \in earlier[x]
      OBVIOUS
    <3>1. z \in T /\ z < y /\ y < x
      BY <1>0, <2>3
    <3>2. z \in Int /\ y \in Int /\ x \in Int
      BY <3>1
    <3> QED
      BY <1>0, <3>1, <3>2
  <2>4. \A x, y \in T : x # y => x \in earlier[y] \/ y \in earlier[x]
    BY <1>0
  <2> HIDE DEF earlier
  <2> QED
    BY <2>1, <2>2, <2>3, <2>4 DEF TotalOrder
<1> HIDE DEF earlier
<1>2. n \in Nat /\ n >= 1
  BY FS_CardinalityType, FS_EmptySet
<1>3. /\ \A x \in T : Cardinality(earlier[x]) \in 0..(n - 1)
      /\ \A x, y \in T : x \in earlier[y] => Cardinality(earlier[x]) < Cardinality(earlier[y])
      /\ \A k \in 1..n : \E x \in T : Cardinality(earlier[x]) = k - 1
  BY <1>1, PlacesOf
<1>4. \E m \in T : \A t \in T : t <= m
  <2>1. PICK m \in T : Cardinality(earlier[m]) = n - 1
    BY <1>2, <1>3
  <2>2. ASSUME NEW t \in T, ~(t <= m)
        PROVE  FALSE
    <3>0. m \in Int /\ t \in Int /\ m < t
      BY <2>2
    <3>1. m \in earlier[t]
      BY <1>0, <3>0
    <3> QED
      BY <1>2, <1>3, <2>1, <3>1
  <2> QED
    BY <2>2
<1>5. \E m \in T : \A t \in T : m <= t
  <2>1. PICK m \in T : Cardinality(earlier[m]) = 0
    <3>1. 1 \in 1..n /\ 1 - 1 = 0
      BY <1>2
    <3> QED
      BY <1>3, <3>1
  <2>2. ASSUME NEW t \in T, ~(m <= t)
        PROVE  FALSE
    <3>0. m \in Int /\ t \in Int /\ t < m
      BY <2>2
    <3>1. t \in earlier[m]
      BY <1>0, <3>0
    <3> QED
      BY <1>2, <1>3, <2>1, <3>1
  <2> QED
    BY <2>2
<1>6. \A x, y \in T : (y <= x) <=> (x >= y)
  OBVIOUS
<1>7. Max(T) \in T /\ \A t \in T : Max(T) >= t
  BY <1>4, <1>6 DEF Max
<1>8. Min(T) \in T /\ \A t \in T : Min(T) <= t
  BY <1>5 DEF Min
<1> QED
  BY <1>6, <1>7, <1>8
=============================================================================
