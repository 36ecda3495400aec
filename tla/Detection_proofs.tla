------------------------- MODULE Detection_proofs -------------------------
(***************************************************************************)
(* Detection from end to end, for every set of rule files, imported rules, *)
(* context and batches.  First what each stage returns for whatever it is  *)
(* given (lists of alerts of certain rules, batches of the same events     *)
(* with more known of them), then the invariant of the pipeline:           *)
(*   Shape      which stage comes next, and what each one left behind;     *)
(*   Analysed   a rule the import let through is one its analysis passed;  *)
(*   Refused    the rule whose evaluation ended the batch;                 *)
(*   Tallied    the report counts each case once, and what it saw is true; *)
(*   Travelled  who travelled before has the alerts of it;                 *)
(*   Risked     every notable is the best window of its entity;            *)
(*   Archived   the store has the notable of whoever one batch brought     *)
(*              over the threshold;                                        *)
(*   Sourced    every rule is a file or the translation of one;            *)
(*   Judged     what is kept of an id is what its last rule fired on.      *)
(***************************************************************************)
EXTENDS Detection, Conditions_proofs

-----------------------------------------------------------------------------
(* Lists and orders. *)

\* A list of the program is a sequence of its elements.
LEMMA ListIsSeq ==
  ASSUME NEW s
  PROVE  /\ IsList(s) => /\ s \in Seq(ToSet(s)) /\ Len(s) \in Nat /\ DOMAIN s = 1..Len(s)
                         /\ \A k \in 1..Len(s) : s[k] \in ToSet(s)
         /\ \A S : s \in Seq(S) => /\ IsList(s) /\ ToSet(s) \subseteq S
                                   /\ DOMAIN s = 1..Len(s) /\ \A k \in 1..Len(s) : s[k] \in S
<1>1. ASSUME IsList(s)
      PROVE  /\ s \in Seq(ToSet(s)) /\ Len(s) \in Nat /\ DOMAIN s = 1..Len(s)
             /\ \A k \in 1..Len(s) : s[k] \in ToSet(s)
  <2>1. Len(s) \in Nat /\ s = [k \in 1..Len(s) |-> s[k]]
    BY <1>1 DEF IsList
  <2>2. DOMAIN s = 1..Len(s)
    BY <2>1
  <2>3. \A k \in 1..Len(s) : s[k] \in ToSet(s)
    BY <2>2 DEF ToSet
  <2>4. s \in [1..Len(s) -> ToSet(s)]
    BY <2>1, <2>3
  <2> QED
    BY <2>1, <2>2, <2>3, <2>4, IsSeq
<1>2. ASSUME NEW S, s \in Seq(S)
      PROVE  /\ IsList(s) /\ ToSet(s) \subseteq S
             /\ DOMAIN s = 1..Len(s) /\ \A k \in 1..Len(s) : s[k] \in S
  BY <1>2 DEF IsList, ToSet
<1> QED
  BY <1>1, <1>2

\* One list after the other.
LEMMA ListConcat ==
  ASSUME NEW s, NEW t, IsList(s), IsList(t)
  PROVE  IsList(s \o t) /\ ToSet(s \o t) = ToSet(s) \union ToSet(t) /\ Len(s \o t) = Len(s) + Len(t)
<1> DEFINE S == ToSet(s) \union ToSet(t)
<1>1. s \in Seq(S) /\ t \in Seq(S)
  <2>1. s \in Seq(ToSet(s)) /\ t \in Seq(ToSet(t))
    BY ListIsSeq
  <2> QED
    BY <2>1
<1>2. s \o t \in Seq(S) /\ Len(s \o t) = Len(s) + Len(t) /\ Range(s \o t) = Range(s) \union Range(t)
  BY <1>1, RangeConcat
<1> QED
  BY <1>2, ListIsSeq DEF Range, ToSet

\* The lists of a list, one after the other.
LEMMA ListFlatten ==
  ASSUME NEW s, IsList(s), \A t \in ToSet(s) : IsList(t)
  PROVE  IsList(FlattenSeq(s)) /\ ToSet(FlattenSeq(s)) = UNION {ToSet(t) : t \in ToSet(s)}
<1> DEFINE n == Len(s)
           S == UNION {ToSet(t) : t \in ToSet(s)}
<1>1. n \in Nat /\ DOMAIN s = 1..n /\ s \in Seq(ToSet(s))
  BY ListIsSeq
<1>2. ASSUME NEW k \in 1..n
      PROVE  s[k] \in Seq(S)
  <2>1. s[k] \in ToSet(s)
    BY <1>1 DEF ToSet
  <2>2. s[k] \in Seq(ToSet(s[k])) /\ ToSet(s[k]) \subseteq S
    BY <2>1, ListIsSeq
  <2> QED
    BY <2>2
<1>3. s = [k \in 1..n |-> s[k]]
  BY DEF IsList
<1>4. s \in [1..n -> Seq(S)]
  BY <1>1, <1>2, <1>3
<1>5. FlattenSeq(s) \in Seq(S) /\ ToSet(FlattenSeq(s)) = UNION {ToSet(s[k]) : k \in 1..n}
  BY <1>1, <1>4, Flattened
<1>6. UNION {ToSet(s[k]) : k \in 1..n} = S
  <2>1. ToSet(s) = {s[k] : k \in 1..n}
    BY <1>1 DEF ToSet
  <2> QED
    BY <2>1
<1> QED
  BY <1>5, <1>6, ListIsSeq

\* Sorted lists every element of a finite total order after those before it.
LEMMA SortedPlaces ==
  ASSUME NEW S, IsFiniteSet(S), NEW earlier, TotalOrder(S, earlier)
  PROVE  /\ Sorted(S, earlier) \in [1..Cardinality(S) -> S]
         /\ Sorted(S, earlier) \in Seq(S) /\ Len(Sorted(S, earlier)) = Cardinality(S)
         /\ ToSet(Sorted(S, earlier)) = S
         /\ \A j, k \in 1..Cardinality(S) :
              j < k => Sorted(S, earlier)[j] \in earlier[Sorted(S, earlier)[k]]
<1> DEFINE n == Cardinality(S)
           s == Sorted(S, earlier)
<1>0. n \in Nat
  BY FS_CardinalityType
<1>1. /\ \A x \in S : Cardinality(earlier[x]) \in 0..(n - 1)
      /\ \A x, y \in S : x \in earlier[y] => Cardinality(earlier[x]) < Cardinality(earlier[y])
      /\ \A k \in 1..n : \E x \in S : Cardinality(earlier[x]) = k - 1
  BY PlacesOf
<1>2. DOMAIN s = 1..n /\ \A k \in 1..n : s[k] \in S /\ Cardinality(earlier[s[k]]) = k - 1
  BY <1>1 DEF Sorted
<1>3. s \in [1..n -> S]
  BY <1>1 DEF Sorted
<1> HIDE DEF s
<1>4. s \in Seq(S) /\ Len(s) = n
  BY <1>0, <1>3, IsSeq
<1>5. ASSUME NEW j \in 1..n, NEW k \in 1..n, j < k
      PROVE  s[j] \in earlier[s[k]]
  <2>1. s[j] # s[k]
    BY <1>2, <1>5, <1>0
  <2>2. s[j] \in earlier[s[k]] \/ s[k] \in earlier[s[j]]
    BY <1>2, <2>1 DEF TotalOrder
  <2>3. s[k] \notin earlier[s[j]]
    BY <1>0, <1>1, <1>2, <1>5
  <2> QED
    BY <2>2, <2>3
<1>6. ASSUME NEW x \in S
      PROVE  x \in ToSet(s)
  <2> DEFINE k == Cardinality(earlier[x]) + 1
  <2>1. k \in 1..n
    BY <1>0, <1>1
  <2>2. Cardinality(earlier[s[k]]) = Cardinality(earlier[x]) /\ s[k] \in S
    BY <1>1, <1>2, <2>1
  <2>3. s[k] = x
    <3>1. s[k] # x => s[k] \in earlier[x] \/ x \in earlier[s[k]]
      BY <2>2 DEF TotalOrder
    <3> QED
      BY <3>1, <1>1, <2>2
  <2> QED
    BY <1>2, <2>1, <2>3 DEF ToSet
<1>7. ToSet(s) = S
  BY <1>2, <1>6 DEF ToSet
<1> QED
  BY <1>3, <1>4, <1>5, <1>7 DEF s

\* Numbers in order of what a function gives them, equal ones by themselves.
ByValue(S, value, earlier) ==
  /\ earlier \in [S -> SUBSET S]
  /\ \A x, y \in S : y \in earlier[x] <=> value[y] < value[x] \/ (value[y] = value[x] /\ y < x)

\* That is a total order.
LEMMA ByValueOrder ==
  ASSUME NEW S \in SUBSET Int, NEW value, \A x \in S : value[x] \in Int,
         NEW earlier, ByValue(S, value, earlier)
  PROVE  TotalOrder(S, earlier)
<1>1. \A x, y \in S : y \in earlier[x] <=> value[y] < value[x] \/ (value[y] = value[x] /\ y < x)
  BY DEF ByValue
<1>0. \A x \in S : x \in Int /\ value[x] \in Int
  OBVIOUS
<1>2. ASSUME NEW x \in S
      PROVE  x \notin earlier[x]
  <2>1. x \in earlier[x] <=> value[x] < value[x] \/ (value[x] = value[x] /\ x < x)
    BY <1>1
  <2>2. x \in Int /\ value[x] \in Int
    BY <1>0
  <2>3. ~(value[x] < value[x]) /\ ~(x < x)
    BY <2>2
  <2> QED
    BY <2>1, <2>3
<1>3. ASSUME NEW x \in S, NEW y \in S, y \in earlier[x]
      PROVE  earlier[y] \subseteq earlier[x]
  <2> SUFFICES ASSUME NEW z \in earlier[y] PROVE z \in earlier[x]
    OBVIOUS
  <2>1. z \in S
    BY DEF ByValue
  <2>2. z \in earlier[y] <=> value[z] < value[y] \/ (value[z] = value[y] /\ z < y)
    BY <1>1, <2>1
  <2>3. y \in earlier[x] <=> value[y] < value[x] \/ (value[y] = value[x] /\ y < x)
    BY <1>1
  <2>4. z \in earlier[x] <=> value[z] < value[x] \/ (value[z] = value[x] /\ z < x)
    BY <1>1, <2>1
  <2>5. /\ value[x] \in Int /\ value[y] \in Int /\ value[z] \in Int
        /\ x \in Int /\ y \in Int /\ z \in Int
    BY <1>0, <2>1
  <2> QED
    BY <1>3, <2>2, <2>3, <2>4, <2>5
<1>4. ASSUME NEW x \in S, NEW y \in S, x # y
      PROVE  x \in earlier[y] \/ y \in earlier[x]
  <2>1. y \in earlier[x] <=> value[y] < value[x] \/ (value[y] = value[x] /\ y < x)
    BY <1>1
  <2>2. x \in earlier[y] <=> value[x] < value[y] \/ (value[x] = value[y] /\ x < y)
    BY <1>1
  <2>3. value[x] \in Int /\ value[y] \in Int /\ x \in Int /\ y \in Int
    BY <1>0
  <2> QED
    BY <1>4, <2>1, <2>2, <2>3
<1> QED
  BY <1>2, <1>3, <1>4 DEF TotalOrder, ByValue

\* Ascending lists a finite set of numbers in increasing order.
LEMMA AscendingOf ==
  ASSUME NEW S \in SUBSET Int, IsFiniteSet(S)
  PROVE  /\ Ascending(S) \in [1..Cardinality(S) -> S]
         /\ Ascending(S) \in Seq(S) /\ Len(Ascending(S)) = Cardinality(S)
         /\ DOMAIN Ascending(S) = 1..Cardinality(S) /\ ToSet(Ascending(S)) = S
         /\ \A j, k \in 1..Cardinality(S) : j < k => Ascending(S)[j] < Ascending(S)[k]
<1> DEFINE earlier == [x \in S |-> {y \in S : y < x}]
<1>1. TotalOrder(S, earlier)
  <2>1. ByValue(S, [x \in S |-> x], earlier)
    BY DEF ByValue
  <2> HIDE DEF earlier
  <2> QED
    BY <2>1, ByValueOrder
<1>2. Ascending(S) = Sorted(S, earlier)
  BY DEF Ascending
<1>3. \A x \in S : \A y \in earlier[x] : y < x
  OBVIOUS
<1> HIDE DEF earlier
<1> QED
  BY <1>1, <1>2, <1>3, SortedPlaces

\* What is picked from a list.
LEMMA PickedOf ==
  ASSUME NEW s, IsList(s), NEW at \in SUBSET (1..Len(s))
  PROVE  /\ IsList(Picked(s, at)) /\ Len(Picked(s, at)) = Cardinality(at)
         /\ DOMAIN Picked(s, at) = 1..Cardinality(at)
         /\ ToSet(Picked(s, at)) = {s[k] : k \in at}
         /\ Cardinality(at) \in 0..Len(s)
<1> DEFINE n == Cardinality(at)
           order == Ascending(at)
           p == Picked(s, at)
<1>0. Len(s) \in Nat /\ \A k \in 1..Len(s) : s[k] \in ToSet(s)
  BY ListIsSeq
<1>1. IsFiniteSet(at) /\ n \in Nat /\ n <= Len(s) /\ at \in SUBSET Int
  <2>1. IsFiniteSet(1..Len(s)) /\ Cardinality(1..Len(s)) = Len(s)
    BY <1>0, FS_Interval, SMTT(20)
  <2>2. IsFiniteSet(at) /\ n <= Len(s)
    BY <2>1, FS_Subset
  <2>3. n \in Nat
    BY <2>2, FS_CardinalityType
  <2>4. at \in SUBSET Int
    OBVIOUS
  <2> QED
    BY <2>2, <2>3, <2>4
<1>2. order \in [1..n -> at] /\ ToSet(order) = at /\ DOMAIN order = 1..n
  BY <1>1, AscendingOf
<1> HIDE DEF order
<1>3. p = [k \in 1..n |-> s[order[k]]]
  BY <1>2 DEF Picked, order
<1>4. p \in [1..n -> ToSet(s)] /\ DOMAIN p = 1..n
  BY <1>0, <1>2, <1>3
<1>5. p \in Seq(ToSet(s)) /\ Len(p) = n
  BY <1>1, <1>4, IsSeq
<1>6. at = {order[k] : k \in 1..n}
  BY <1>2 DEF ToSet
<1>7. ToSet(p) = {p[k] : k \in 1..n}
  BY <1>4 DEF ToSet
<1>8. ToSet(p) = {s[k] : k \in at}
  <2>1. \A k \in 1..n : p[k] = s[order[k]] /\ order[k] \in at
    BY <1>2, <1>3
  <2>2. \A x \in at : \E k \in 1..n : x = order[k]
    BY <1>6
  <2> HIDE DEF p, n
  <2>3. ASSUME NEW x \in ToSet(p)
        PROVE  \E k \in at : x = s[k]
    BY <1>7, <2>1
  <2>4. ASSUME NEW x \in at
        PROVE  s[x] \in ToSet(p)
    BY <1>7, <2>1, <2>2
  <2> QED
    BY <2>3, <2>4
<1>9. IsList(p)
  BY <1>5, ListIsSeq
<1> HIDE DEF p
<1> QED
  BY <1>1, <1>0, <1>4, <1>5, <1>8, <1>9 DEF p

\* A list has finitely many elements and positions.
LEMMA ListFinite ==
  ASSUME NEW s, IsList(s)
  PROVE  IsFiniteSet(ToSet(s)) /\ IsFiniteSet(DOMAIN s) /\ Cardinality(DOMAIN s) = Len(s)
<1>1. Len(s) \in Nat /\ DOMAIN s = 1..Len(s)
  BY ListIsSeq
<1>2. IsFiniteSet(DOMAIN s) /\ Cardinality(DOMAIN s) = Len(s)
  BY <1>1, UpToFinite
<1>3. ToSet(s) = {s[k] : k \in DOMAIN s}
  BY DEF ToSet
<1> QED
  BY <1>2, <1>3, FiniteValues

-----------------------------------------------------------------------------
(* What the stages return. *)

AlertFields == {"rule", "level", "events", "group", "time", "clock"}

\* An alert of one of the rules of ids on the first n events.
IsAlert(a, ids, n) ==
  /\ AlertFields \subseteq DOMAIN a
  /\ a.rule \in ids
  /\ IsList(a.events) /\ ToSet(a.events) \subseteq 1..n
  /\ a.time \in Int \union {None}

AreAlerts(s, ids, n) == IsList(s) /\ \A a \in ToSet(s) : IsAlert(a, ids, n)
AreEvents(evs) == IsList(evs) /\ \A e \in ToSet(evs) : IsEvent(e)

\* The times of some dated events.
LEMMA TimesOf ==
  ASSUME NEW evs, AreEvents(evs), NEW S \in SUBSET (1..Len(evs))
  PROVE  /\ DatedOf(evs, S) \in SUBSET S /\ IsFiniteSet(S) /\ IsFiniteSet(DatedOf(evs, S))
         /\ \A e \in DatedOf(evs, S) : evs[e].time \in Int
         /\ \A e \in 1..Len(evs) : evs[e].time \in Int \union {None} /\ IsEvent(evs[e])
         /\ IsFiniteSet({evs[e].time : e \in DatedOf(evs, S)})
         /\ {evs[e].time : e \in DatedOf(evs, S)} \in SUBSET Int
         /\ S \in SUBSET Int /\ Len(evs) \in Nat /\ DOMAIN evs = 1..Len(evs)
<1>1. Len(evs) \in Nat /\ DOMAIN evs = 1..Len(evs) /\ \A e \in 1..Len(evs) : evs[e] \in ToSet(evs)
  BY ListIsSeq DEF AreEvents
<1>2. \A e \in 1..Len(evs) : evs[e].time \in Int \union {None} /\ IsEvent(evs[e])
  BY <1>1 DEF AreEvents, IsEvent
<1>3. IsFiniteSet(S) /\ S \in SUBSET Int
  <2>1. IsFiniteSet(1..Len(evs))
    BY <1>1, UpToFinite
  <2>2. IsFiniteSet(S)
    BY <2>1, FS_Subset
  <2> QED
    BY <2>2
<1> DEFINE D == DatedOf(evs, S)
           V == {evs[e].time : e \in D}
<1>4. D \in SUBSET S /\ \A e \in D : evs[e].time # None
  BY DEF DatedOf
<1> HIDE DEF D
<1>5. IsFiniteSet(D)
  BY <1>3, <1>4, FS_Subset
<1>6. \A e \in D : evs[e].time \in Int
  BY <1>2, <1>4
<1>7. IsFiniteSet(V)
  <2> DEFINE f == [e \in D |-> evs[e].time]
  <2>1. DOMAIN f = D /\ V = {f[x] : x \in D}
    OBVIOUS
  <2> HIDE DEF f, V
  <2>2. IsFiniteSet({f[x] : x \in D})
    BY <1>5, <2>1, FiniteValues
  <2> QED
    BY <2>1, <2>2
<1>8. V \in SUBSET Int
  BY <1>6
<1> QED
  BY <1>1, <1>2, <1>3, <1>4, <1>5, <1>6, <1>7, <1>8 DEF D

\* _make_alert returns an alert of the rule.
LEMMA MakeAlertType ==
  ASSUME NEW evs, AreEvents(evs), NEW rule, NEW group,
         NEW evidence, IsList(evidence), ToSet(evidence) \subseteq 1..Len(evs)
  PROVE  IsAlert(MakeAlert(evs, rule, evidence, group), {rule.id}, Len(evs))
<1> DEFINE times == {evs[e].time : e \in DatedOf(evs, ToSet(evidence))}
           a == MakeAlert(evs, rule, evidence, group)
<1>1. IsFiniteSet(times) /\ times \in SUBSET Int
  BY TimesOf
<1> HIDE DEF times
<1>2. times # {} => Max(times) \in Int
  BY <1>1, FiniteExtremes
<1>3. /\ AlertFields \subseteq DOMAIN a
      /\ a.rule = rule.id /\ a.events = evidence
      /\ a.time = IF times = {} THEN None ELSE Max(times)
  BY DEF MakeAlert, AlertFields, times
<1> HIDE DEF a
<1> QED
  BY <1>2, <1>3 DEF IsAlert, a

\* The events of a group in order of their time.
LEMMA InTimeOrderOf ==
  ASSUME NEW evs, AreEvents(evs), NEW S \in SUBSET (1..Len(evs)),
         \A e \in S : evs[e].time \in Int
  PROVE  /\ InTimeOrder(evs, S) \in [1..Cardinality(S) -> S]
         /\ InTimeOrder(evs, S) \in Seq(S) /\ Len(InTimeOrder(evs, S)) = Cardinality(S)
         /\ Cardinality(S) \in Nat
         /\ DOMAIN InTimeOrder(evs, S) = 1..Cardinality(S) /\ ToSet(InTimeOrder(evs, S)) = S
         /\ \A j, k \in 1..Cardinality(S) :
              j < k => evs[InTimeOrder(evs, S)[j]].time <= evs[InTimeOrder(evs, S)[k]].time
<1> DEFINE earlier == [e \in S |-> {d \in S : EarlierOf(evs, d, e)}]
           value == [e \in S |-> evs[e].time]
<1>1. IsFiniteSet(S) /\ S \in SUBSET Int /\ Cardinality(S) \in Nat
  BY TimesOf, FS_CardinalityType
<1>2. ByValue(S, value, earlier)
  BY DEF ByValue, EarlierOf
<1>3. \A e \in S : value[e] \in Int /\ value[e] = evs[e].time
  OBVIOUS
<1>4. \A e \in S : \A d \in earlier[e] : d \in S /\ (value[d] < value[e] \/ value[d] = value[e])
  BY DEF EarlierOf
<1>5. InTimeOrder(evs, S) = Sorted(S, earlier)
  BY DEF InTimeOrder
<1> HIDE DEF earlier, value
<1>6. TotalOrder(S, earlier)
  BY <1>1, <1>2, <1>3, ByValueOrder
<1> DEFINE s == InTimeOrder(evs, S)
           n == Cardinality(S)
<1>7. /\ s \in [1..n -> S] /\ s \in Seq(S) /\ Len(s) = n /\ ToSet(s) = S
      /\ \A j, k \in 1..n : j < k => s[j] \in earlier[s[k]]
  BY <1>1, <1>5, <1>6, SortedPlaces
<1> HIDE DEF s, n
<1>8. ASSUME NEW j \in 1..n, NEW k \in 1..n, j < k
      PROVE  evs[s[j]].time <= evs[s[k]].time
  <2>1. s[j] \in earlier[s[k]] /\ s[k] \in S
    BY <1>7, <1>8
  <2>2. s[j] \in S /\ (value[s[j]] < value[s[k]] \/ value[s[j]] = value[s[k]])
    BY <1>4, <2>1
  <2>3. /\ value[s[j]] = evs[s[j]].time /\ value[s[k]] = evs[s[k]].time
        /\ value[s[j]] \in Int /\ value[s[k]] \in Int
    BY <1>3, <2>1, <2>2
  <2> QED
    BY <2>2, <2>3
<1> QED
  BY <1>1, <1>7, <1>8 DEF s, n

\* _first_window_crossing returns events of the group.
LEMMA FirstCrossingType ==
  ASSUME NEW evs, AreEvents(evs), NEW S \in SUBSET (1..Len(evs)), NEW cond, NEW window \in Nat
  PROVE  /\ IsList(FirstCrossing(evs, S, cond, window))
         /\ ToSet(FirstCrossing(evs, S, cond, window)) \subseteq S
<1> DEFINE D == DatedOf(evs, S)
           timed == InTimeOrder(evs, D)
           n == Cardinality(D)
           Within(e) == {k \in 1..e : evs[timed[e]].time - evs[timed[k]].time <= window}
           crossings == {e \in DOMAIN timed : Compare(cond, Cardinality(Within(e)))}
           r == FirstCrossing(evs, S, cond, window)
<1>1. /\ D \in SUBSET S /\ IsFiniteSet(S) /\ S \in SUBSET Int
      /\ \A e \in D : evs[e].time \in Int
  BY TimesOf
<1> HIDE DEF D
<1>2. D \in SUBSET (1..Len(evs))
  BY <1>1
<1>3. n \in Nat /\ timed \in [1..n -> D] /\ timed \in Seq(D) /\ DOMAIN timed = 1..n /\ Len(timed) = n
  BY <1>1, <1>2, InTimeOrderOf
<1> HIDE DEF timed, n
<1>4. /\ IsList(<<>>) /\ ToSet(<<>>) = {}
      /\ IsList(Ascending(S)) /\ ToSet(Ascending(S)) = S
  <2>1. <<>> \in Seq(S) /\ ToSet(<<>>) = {}
    BY DEF ToSet
  <2>2. Ascending(S) \in Seq(S) /\ ToSet(Ascending(S)) = S
    BY <1>1, AscendingOf
  <2> QED
    BY <2>1, <2>2, ListIsSeq
<1>5. ASSUME crossings # {}
      PROVE  /\ IsList(SubSeq(timed, Min(Within(Min(crossings))), Min(crossings)))
             /\ ToSet(SubSeq(timed, Min(Within(Min(crossings))), Min(crossings))) \subseteq S
  <2> DEFINE e == Min(crossings)
             W == Within(e)
  <2>1. crossings \in SUBSET (1..n) /\ crossings \in SUBSET Int
    BY <1>3
  <2>2. IsFiniteSet(crossings)
    BY <1>3, <2>1, UpToFinite, FS_Subset
  <2> HIDE DEF crossings
  <2>3. e \in 1..n
    BY <1>5, <2>1, <2>2, FiniteExtremes
  <2> HIDE DEF e
  <2>4. timed[e] \in D /\ evs[timed[e]].time \in Int
    BY <1>1, <1>3, <2>3
  <2>5. e \in W
    BY <2>3, <2>4
  <2>6. W \in SUBSET (1..e) /\ W \in SUBSET Int /\ e \in Nat
    BY <2>3
  <2> HIDE DEF W
  <2>7. IsFiniteSet(W)
    BY <2>6, UpToFinite, FS_Subset
  <2>8. Min(W) \in W
    BY <2>5, <2>6, <2>7, FiniteExtremes
  <2>9. Min(W) \in 1..e
    BY <2>6, <2>8
  <2>10. SubSeq(timed, Min(W), e) \in Seq(D)
    BY <1>3, <2>3, <2>9
  <2> QED
    BY <1>1, <2>10, ListIsSeq DEF e, W
<1>6. \/ r = <<>> \/ r = Ascending(S)
      \/ crossings # {} /\ r = SubSeq(timed, Min(Within(Min(crossings))), Min(crossings))
  BY Zenon DEF FirstCrossing, timed, D
<1> HIDE DEF r, crossings, Within
<1> QED
  BY <1>4, <1>5, <1>6 DEF r

\* What rules have in common, whether loaded or imported.
IsRuleRecord(rule) ==
  /\ {"id", "tags"} \subseteq DOMAIN rule
  /\ rule.id \in Int
  /\ rule.risk \in Int \union {None}
  /\ IsTimeframe(rule.timeframe)

\* _evaluate_aggregation returns alerts of the rule.
LEMMA AggregationType ==
  ASSUME NEW evs, AreEvents(evs), NEW matching \in SUBSET (1..Len(evs)),
         NEW rule, IsRuleRecord(rule), EvaluateAggregation(evs, rule, matching).err = "none"
  PROVE  AreAlerts(EvaluateAggregation(evs, rule, matching).alerts, {rule.id}, Len(evs))
<1> DEFINE cond == rule.condition
           window == WindowOf(rule)
           Members(e) == {d \in matching : GroupKey(evs[d], cond) = GroupKey(evs[e], cond)}
           F == {e \in matching : /\ e = Min(Members(e))
                                  /\ FirstCrossing(evs, Members(e), cond, window) # <<>>}
           crossing == Ascending(F)
           A(k) == MakeAlert(evs, rule, FirstCrossing(evs, Members(crossing[k]), cond, window),
                             GroupKey(evs[crossing[k]], cond))
           s == [k \in DOMAIN crossing |-> A(k)]
           r == EvaluateAggregation(evs, rule, matching)
<1>1. window # Bad
  BY DEF EvaluateAggregation, Raised
<1>2. window \in Nat
  BY <1>1, WindowAssumption DEF WindowOf, IsRuleRecord, IsTimeframe
<1>3. r.alerts = s
  BY <1>1, Zenon DEF EvaluateAggregation, Raised, Fired
<1>4. F \in SUBSET (1..Len(evs)) /\ IsFiniteSet(F) /\ F \in SUBSET Int
  <2>1. F \in SUBSET (1..Len(evs))
    OBVIOUS
  <2> HIDE DEF F
  <2> QED
    BY <2>1, TimesOf
<1> HIDE DEF F
<1>5. /\ crossing \in [1..Cardinality(F) -> F] /\ DOMAIN crossing = 1..Cardinality(F)
      /\ Cardinality(F) \in Nat
  BY <1>4, AscendingOf, FS_CardinalityType
<1> HIDE DEF crossing
<1>6. ASSUME NEW k \in 1..Cardinality(F)
      PROVE  IsAlert(A(k), {rule.id}, Len(evs))
  <2> DEFINE M == Members(crossing[k])
             evidence == FirstCrossing(evs, M, cond, window)
  <2>1. M \in SUBSET (1..Len(evs))
    OBVIOUS
  <2> HIDE DEF M, window
  <2>2. IsList(evidence) /\ ToSet(evidence) \subseteq 1..Len(evs)
    BY <1>2, <2>1, FirstCrossingType
  <2> HIDE DEF evidence
  <2>3. IsAlert(MakeAlert(evs, rule, evidence, GroupKey(evs[crossing[k]], cond)), {rule.id}, Len(evs))
    BY <2>2, MakeAlertType
  <2> QED
    BY <2>3 DEF evidence, M, window
<1>7. \A k \in 1..Cardinality(F) : s[k] = A(k)
  BY <1>5
<1>8. s \in [1..Cardinality(F) -> {A(k) : k \in 1..Cardinality(F)}]
  BY <1>5
<1> HIDE DEF A, s
<1>9. s \in Seq({A(k) : k \in 1..Cardinality(F)})
  BY <1>5, <1>8, IsSeq
<1>10. IsList(s) /\ ToSet(s) \subseteq {A(k) : k \in 1..Cardinality(F)}
  BY <1>9, ListIsSeq
<1> QED
  BY <1>3, <1>6, <1>10 DEF AreAlerts

\* evaluate_rule returns alerts of the rule.
LEMMA EvaluateType ==
  ASSUME NEW evs, AreEvents(evs), NEW rule, IsRuleRecord(rule), EvaluateRule(rule, evs).err = "none"
  PROVE  AreAlerts(EvaluateRule(rule, evs).alerts, {rule.id}, Len(evs))
<1> DEFINE inScope == {e \in DOMAIN evs : InLogsource(rule, evs[e])}
           matching == {e \in inScope : Holds(rule.condition, Results(rule, evs[e]))}
           order == Ascending(matching)
           A(k) == MakeAlert(evs, rule, <<order[k]>>, None)
           s == [k \in DOMAIN order |-> A(k)]
           r == EvaluateRule(rule, evs)
           n == Cardinality(matching)
<1>0. DOMAIN evs = 1..Len(evs)
  BY ListIsSeq DEF AreEvents
<1>1. matching \in SUBSET (1..Len(evs))
  BY <1>0
<1>2. \/ r.err # "none"
      \/ r = EvaluateAggregation(evs, rule, matching)
      \/ r.alerts = s
  BY Zenon DEF EvaluateRule, Fired, Raised
<1> HIDE DEF matching
<1>3. IsFiniteSet(matching) /\ matching \in SUBSET Int
  BY <1>1, TimesOf
<1>4. order \in [1..n -> matching] /\ DOMAIN order = 1..n /\ n \in Nat
  BY <1>3, AscendingOf, FS_CardinalityType
<1> HIDE DEF order, n
<1>5. ASSUME NEW k \in 1..n
      PROVE  IsAlert(A(k), {rule.id}, Len(evs))
  <2>1. order[k] \in 1..Len(evs)
    BY <1>1, <1>4
  <2>2. <<order[k]>> \in Seq(1..Len(evs))
    BY <2>1
  <2> DEFINE evidence == <<order[k]>>
  <2>3. IsList(evidence) /\ ToSet(evidence) \subseteq 1..Len(evs)
    BY <2>2, ListIsSeq
  <2> HIDE DEF evidence
  <2>4. IsAlert(MakeAlert(evs, rule, evidence, None), {rule.id}, Len(evs))
    BY <2>3, MakeAlertType
  <2> QED
    BY <2>4 DEF evidence
<1>6. s \in [1..n -> {A(k) : k \in 1..n}]
  BY <1>4
<1> HIDE DEF A, s
<1>7. IsList(s) /\ ToSet(s) \subseteq {A(k) : k \in 1..n}
  <2>1. s \in Seq({A(k) : k \in 1..n})
    BY <1>4, <1>6, IsSeq
  <2> QED
    BY <2>1, ListIsSeq
<1>8. AreAlerts(s, {rule.id}, Len(evs))
  BY <1>5, <1>7 DEF AreAlerts
<1>9. CASE r = EvaluateAggregation(evs, rule, matching)
  BY <1>1, <1>9, AggregationType DEF r
<1> QED
  BY <1>2, <1>8, <1>9 DEF r

\* The alerts of rules, by their rule.
AreFirings(firings, ids, n) == \A id \in ids : AreAlerts(firings[id], {id}, n)

IsCorrelationRecord(corr) ==
  /\ {"id", "tags"} \subseteq DOMAIN corr
  /\ IsList(corr.rules) /\ Len(corr.rules) >= 2

\* An occurrence stands for an alert.
LEMMA OccurrenceType ==
  ASSUME NEW corr, IsCorrelationRecord(corr), NEW n, NEW firings,
         AreFirings(firings, ToSet(corr.rules), n),
         NEW evs, NEW key, NEW occ \in OccurrencesOf(corr, evs, firings, key)
  PROVE  IsAlert(AlertAt(corr, firings, occ), ToSet(corr.rules), n)
<1>1. PICK r \in DOMAIN corr.rules : occ \in {r} \X DOMAIN firings[corr.rules[r]]
  BY DEF OccurrencesOf
<1>2. occ[1] = r /\ occ[2] \in DOMAIN firings[corr.rules[r]]
  BY <1>1
<1>3. corr.rules[r] \in ToSet(corr.rules)
  BY DEF ToSet
<1>4. AreAlerts(firings[corr.rules[r]], {corr.rules[r]}, n)
  BY <1>3 DEF AreFirings
<1>5. IsAlert(firings[corr.rules[r]][occ[2]], {corr.rules[r]}, n)
  BY <1>2, <1>4 DEF AreAlerts, ToSet
<1> QED
  BY <1>2, <1>3, <1>5 DEF AlertAt, IsAlert

\* A chain has an occurrence for every rule.
LEMMA ChainType ==
  ASSUME NEW corr, NEW firings, NEW evs, NEW key, NEW chain \in ChainOf(corr, evs, firings, key)
  PROVE  chain \in [DOMAIN corr.rules -> OccurrencesOf(corr, evs, firings, key)]
BY DEF ChainOf, OrderedChain, UnorderedChain

\* _make_alert of the correlator returns an alert of the correlation.
LEMMA ChainAlertType ==
  ASSUME NEW corr, IsCorrelationRecord(corr), NEW n, NEW firings,
         AreFirings(firings, ToSet(corr.rules), n),
         NEW evs, NEW key, NEW chain \in ChainOf(corr, evs, firings, key)
  PROVE  IsAlert(ChainAlert(corr, firings, key, chain), {corr.id}, n)
<1> DEFINE occurrences == OccurrencesOf(corr, evs, firings, key)
           m == Len(corr.rules)
           At(r) == AlertAt(corr, firings, chain[r])
           evidence == [r \in DOMAIN chain |-> At(r).events]
           a == ChainAlert(corr, firings, key, chain)
<1>1. m \in Nat /\ m >= 2 /\ DOMAIN corr.rules = 1..m
  BY ListIsSeq DEF IsCorrelationRecord
<1>2. chain \in [1..m -> occurrences]
  BY <1>1, ChainType
<1>3. Len(chain) = m /\ DOMAIN chain = 1..m
  BY <1>1, <1>2, IsSeq
<1>4. ASSUME NEW r \in 1..m
      PROVE  IsAlert(At(r), ToSet(corr.rules), n)
  BY <1>2, OccurrenceType
<1> HIDE DEF At
<1>5. evidence = [r \in 1..m |-> At(r).events]
  BY <1>3
<1>6. \A r \in 1..m : IsList(At(r).events) /\ ToSet(At(r).events) \subseteq 1..n
  BY <1>4 DEF IsAlert
<1>7. IsList(evidence) /\ ToSet(evidence) = {At(r).events : r \in 1..m}
  <2>1. evidence \in [1..m -> {At(r).events : r \in 1..m}] /\ DOMAIN evidence = 1..m
    BY <1>5
  <2>2. evidence \in Seq({At(r).events : r \in 1..m})
    BY <1>1, <2>1, IsSeq
  <2>3. ToSet(evidence) = {At(r).events : r \in 1..m}
    BY <1>5 DEF ToSet
  <2> QED
    BY <2>2, <2>3, ListIsSeq
<1> HIDE DEF evidence
<1>8. IsList(FlattenSeq(evidence)) /\ ToSet(FlattenSeq(evidence)) \subseteq 1..n
  <2>1. /\ IsList(FlattenSeq(evidence))
        /\ ToSet(FlattenSeq(evidence)) = UNION {ToSet(t) : t \in ToSet(evidence)}
    BY <1>6, <1>7, ListFlatten
  <2> QED
    BY <1>6, <1>7, <2>1
<1>9. At(m).time \in Int \union {None}
  BY <1>1, <1>4 DEF IsAlert
<1>10. /\ AlertFields \subseteq DOMAIN a /\ a.rule = corr.id
       /\ a.events = FlattenSeq(evidence) /\ a.time = At(m).time
  BY <1>3 DEF ChainAlert, AlertFields, Last, evidence, At
<1> HIDE DEF a
<1> QED
  BY <1>8, <1>9, <1>10 DEF IsAlert, a

\* The groups of a correlation are finitely many.
LEMMA KeysFinite ==
  ASSUME NEW corr, IsCorrelationRecord(corr), NEW n, NEW firings,
         AreFirings(firings, ToSet(corr.rules), n), NEW evs
  PROVE  IsFiniteSet(Keys(corr, evs, firings))
<1> DEFINE K(id) == {KeyOf(corr, evs, a) : a \in ToSet(firings[id])}
           U == {K(id) : id \in ToSet(corr.rules)}
<1>1. ASSUME NEW id \in ToSet(corr.rules)
      PROVE  IsFiniteSet(K(id))
  <2> DEFINE f == [a \in ToSet(firings[id]) |-> KeyOf(corr, evs, a)]
  <2>1. IsFiniteSet(ToSet(firings[id]))
    BY ListFinite DEF AreFirings, AreAlerts
  <2>2. DOMAIN f = ToSet(firings[id]) /\ K(id) = {f[a] : a \in ToSet(firings[id])}
    OBVIOUS
  <2> HIDE DEF f, K
  <2> QED
    BY <2>1, <2>2, FiniteValues
<1>2. IsFiniteSet(ToSet(corr.rules))
  BY ListFinite DEF IsCorrelationRecord
<1> DEFINE g == [id \in ToSet(corr.rules) |-> K(id)]
<1>3. DOMAIN g = ToSet(corr.rules) /\ U = {g[id] : id \in ToSet(corr.rules)}
  OBVIOUS
<1> HIDE DEF g
<1>4. IsFiniteSet(U)
  <2> HIDE DEF U
  <2> QED
    BY <1>2, <1>3, FiniteValues
<1>5. IsFiniteSet(UNION U)
  <2> HIDE DEF K
  <2>1. \A V \in U : IsFiniteSet(V)
    BY <1>1
  <2> HIDE DEF U
  <2> QED
    BY <1>4, <2>1, FS_UNION
<1>6. Keys(corr, evs, firings) = (UNION U) \ {None}
  BY DEF Keys
<1>7. Keys(corr, evs, firings) \in SUBSET UNION U
  BY <1>6
<1> HIDE DEF U
<1> QED
  BY <1>5, <1>7, FS_Subset

\* Correlator.evaluate returns alerts of the correlation.
LEMMA CorrelateType ==
  ASSUME NEW corr, IsCorrelationRecord(corr), NEW n, NEW firings,
         AreFirings(firings, ToSet(corr.rules), n), NEW evs,
         Correlate(corr, evs, firings).err = "none"
  PROVE  AreAlerts(Correlate(corr, evs, firings).alerts, {corr.id}, n)
<1> DEFINE keys == Keys(corr, evs, firings)
           complete == {k \in keys : ChainOf(corr, evs, firings, k) # {}}
           C(k) == ChainAlert(corr, firings, k, CHOOSE c \in ChainOf(corr, evs, firings, k) : TRUE)
           S == {C(k) : k \in complete}
           r == Correlate(corr, evs, firings)
<1>1. IsFiniteSet(complete)
  <2>1. IsFiniteSet(keys)
    BY KeysFinite
  <2>2. complete \in SUBSET keys
    OBVIOUS
  <2> HIDE DEF keys, complete
  <2> QED
    BY <2>1, <2>2, FS_Subset
<1>2. ASSUME NEW k \in complete
      PROVE  IsAlert(C(k), {corr.id}, n)
  BY ChainAlertType
<1>3. r.err # "none" \/ r.alerts = SetToSeq(S)
  BY Zenon DEF Correlate, Raised, Fired
<1> HIDE DEF complete, C, r
<1>4. IsFiniteSet(S)
  <2> DEFINE f == [k \in complete |-> C(k)]
  <2>1. DOMAIN f = complete /\ S = {f[k] : k \in complete}
    OBVIOUS
  <2> HIDE DEF f, S
  <2> QED
    BY <1>1, <2>1, FiniteValues
<1>5. \A a \in S : IsAlert(a, {corr.id}, n)
  BY <1>2
<1> HIDE DEF S
<1>6. AreAlerts(SetToSeq(S), {corr.id}, n)
  BY <1>4, <1>5, Listed, ListIsSeq DEF AreAlerts
<1> QED
  BY <1>3, <1>6 DEF r

\* The logins of a user are dated events of the batch.
LEMMA LoginsOf ==
  ASSUME NEW evs, AreEvents(evs), NEW user
  PROVE  /\ Logins(evs, user) \in SUBSET (1..Len(evs))
         /\ \A e \in Logins(evs, user) : evs[e].time \in Int
<1>1. DOMAIN evs = 1..Len(evs) /\ \A e \in 1..Len(evs) : evs[e] \in ToSet(evs)
  BY ListIsSeq DEF AreEvents
<1> QED
  BY <1>1 DEF Logins, IsLogin, AreEvents, IsEvent

\* A crossing is a pair of logins of the user.
LEMMA CrossingsOf ==
  ASSUME NEW evs, AreEvents(evs), NEW user, NEW pair \in Crossings(evs, user)
  PROVE  \E d, e \in Logins(evs, user) : pair = <<d, e>>
<1> DEFINE S == Logins(evs, user)
           timed == InTimeOrder(evs, S)
           n == Cardinality(S)
           at == {k \in 2..Len(timed) : Crosses(evs[timed[k - 1]], evs[timed[k]])}
<1>1. n \in Nat /\ timed \in [1..n -> S] /\ Len(timed) = n
  BY LoginsOf, InTimeOrderOf
<1>2. at # {} /\ pair = <<timed[Min(at) - 1], timed[Min(at)]>>
  BY DEF Crossings
<1> HIDE DEF timed, n, S
<1>3. at \in SUBSET (1..n) /\ at \in SUBSET Int /\ at \in SUBSET (2..n)
  BY <1>1
<1>4. IsFiniteSet(at)
  BY <1>1, <1>3, UpToFinite, FS_Subset
<1> HIDE DEF at
<1>5. Min(at) \in 2..n
  BY <1>2, <1>3, <1>4, FiniteExtremes
<1>6. Min(at) \in 1..n /\ Min(at) - 1 \in 1..n
  BY <1>1, <1>5
<1>7. timed[Min(at)] \in S /\ timed[Min(at) - 1] \in S
  BY <1>1, <1>6
<1> QED
  BY <1>2, <1>7 DEF S

\* Users who log in are finitely many.
LEMMA TravellersFinite ==
  ASSUME NEW evs, AreEvents(evs)
  PROVE  IsFiniteSet(Travellers(evs))
<1> DEFINE S == {d \in DOMAIN evs : IsLogin(evs[d])}
           f == [e \in S |-> User(evs[e])]
<1>1. IsFiniteSet(S)
  <2>1. IsFiniteSet(DOMAIN evs) /\ S \in SUBSET DOMAIN evs
    BY ListFinite DEF AreEvents
  <2> HIDE DEF S
  <2> QED
    BY <2>1, FS_Subset
<1>2. DOMAIN f = S /\ Travellers(evs) = {f[e] : e \in S}
  BY DEF Travellers
<1> HIDE DEF f, S
<1> QED
  BY <1>1, <1>2, FiniteValues

\* impossible_travel returns an alert for every user who crosses.
LEMMA TravelOf ==
  ASSUME NEW evs, AreEvents(evs)
  PROVE  /\ AreAlerts(Travel(evs), {TravelId}, Len(evs))
         /\ {a.group : a \in ToSet(Travel(evs))} = {u \in Travellers(evs) : Crossings(evs, u) # {}}
<1> DEFINE crossing == {u \in Travellers(evs) : Crossings(evs, u) # {}}
           A(u) == TravelAlert(evs, u, CHOOSE pair \in Crossings(evs, u) : TRUE)
           S == {A(u) : u \in crossing}
<1>1. IsFiniteSet(crossing)
  <2>1. IsFiniteSet(Travellers(evs)) /\ crossing \in SUBSET Travellers(evs)
    BY TravellersFinite
  <2> HIDE DEF crossing
  <2> QED
    BY <2>1, FS_Subset
<1>2. ASSUME NEW u \in crossing
      PROVE  IsAlert(A(u), {TravelId}, Len(evs)) /\ A(u).group = u
  <2> DEFINE pair == CHOOSE p \in Crossings(evs, u) : TRUE
  <2>1. pair \in Crossings(evs, u)
    OBVIOUS
  <2> HIDE DEF pair
  <2>2. PICK d, e \in Logins(evs, u) : pair = <<d, e>>
    BY <2>1, CrossingsOf
  <2>3. /\ d \in 1..Len(evs) /\ e \in 1..Len(evs)
        /\ evs[e].time \in Int
    BY LoginsOf
  <2>4. pair \in Seq(1..Len(evs)) /\ pair[2] = e
    BY <2>2, <2>3
  <2>5. IsList(pair) /\ ToSet(pair) \subseteq 1..Len(evs)
    BY <2>4, ListIsSeq
  <2>6. IsAlert(TravelAlert(evs, u, pair), {TravelId}, Len(evs)) /\ TravelAlert(evs, u, pair).group = u
    BY <2>3, <2>4, <2>5 DEF TravelAlert, IsAlert, AlertFields
  <2> QED
    BY <2>6 DEF pair
<1>3. Travel(evs) = SetToSeq(S)
  BY Zenon DEF Travel
<1> HIDE DEF crossing, A
<1>4. IsFiniteSet(S)
  <2> DEFINE f == [u \in crossing |-> A(u)]
  <2>1. DOMAIN f = crossing /\ S = {f[u] : u \in crossing}
    OBVIOUS
  <2> HIDE DEF f, S
  <2> QED
    BY <1>1, <2>1, FiniteValues
<1>5. {a.group : a \in S} = crossing
  BY <1>2
<1>6. \A a \in S : IsAlert(a, {TravelId}, Len(evs))
  BY <1>2
<1> HIDE DEF S
<1>7. ToSet(Travel(evs)) = S /\ IsList(Travel(evs))
  BY <1>3, <1>4, Listed, ListIsSeq
<1> QED
  BY <1>5, <1>6, <1>7 DEF AreAlerts, crossing

-----------------------------------------------------------------------------
(* The sliding window of the risk engine. *)

\* A total is a number, and grows with the set.
LEMMA TotalOf ==
  ASSUME NEW S, IsFiniteSet(S), NEW score, \A a \in S : score[a] \in Nat
  PROVE  /\ Total(score, S) \in Nat
         /\ \A T \in SUBSET S : Total(score, T) \in Nat /\ Total(score, T) <= Total(score, S)
         /\ Total(score, {}) = 0
<1> DEFINE P(a) == {a} \X (1..score[a])
           U(T) == UNION {P(a) : a \in T}
<1>1. IsFiniteSet(U(S))
  <2> DEFINE f == [a \in S |-> P(a)]
             V == {P(a) : a \in S}
  <2>1. DOMAIN f = S /\ V = {f[a] : a \in S}
    OBVIOUS
  <2>2. \A a \in S : IsFiniteSet(P(a))
    <3> SUFFICES ASSUME NEW a \in S PROVE IsFiniteSet(P(a))
      OBVIOUS
    <3>1. IsFiniteSet(1..score[a]) /\ IsFiniteSet({a})
      BY UpToFinite, FS_Singleton
    <3> QED
      BY <3>1, FS_Product
  <2> HIDE DEF P, f
  <2>3. \A W \in V : IsFiniteSet(W)
    BY <2>2
  <2>4. IsFiniteSet(V)
    <3> HIDE DEF V
    <3> QED
      BY <2>1, FiniteValues
  <2>5. IsFiniteSet(UNION V)
    <3> HIDE DEF V
    <3> QED
      BY <2>3, <2>4, FS_UNION
  <2> QED
    BY <2>5
<1>2. ASSUME NEW T \in SUBSET S
      PROVE  Total(score, T) \in Nat /\ Total(score, T) <= Total(score, S)
  <2>1. U(T) \in SUBSET U(S)
    OBVIOUS
  <2>2. Total(score, T) = Cardinality(U(T)) /\ Total(score, S) = Cardinality(U(S))
    BY DEF Total
  <2> HIDE DEF U
  <2> QED
    BY <1>1, <2>1, <2>2, FS_Subset, FS_CardinalityType
<1>3. Total(score, {}) = 0
  <2>1. UNION {{a} \X (1..score[a]) : a \in {}} = {}
    OBVIOUS
  <2> QED
    BY <2>1, FS_EmptySet DEF Total
<1> QED
  BY <1>2, <1>3

\* The contributions to an entity.
AreItems(items) ==
  /\ IsFiniteSet(DOMAIN items.at) /\ DOMAIN items.at \subseteq Int
  /\ \A a \in DOMAIN items.at : items.at[a] \in Int /\ items.score[a] \in Nat \ {0}

\* Contributions in order of their time.
LEMMA ItemsOrder ==
  ASSUME NEW items, AreItems(items), NEW S \in SUBSET DOMAIN items.at
  PROVE  /\ TotalOrder(S, [a \in S |-> S \intersect (SortedTo(items, a) \ {a})])
         /\ IsFiniteSet(S)
<1> DEFINE earlier == [a \in S |-> S \intersect (SortedTo(items, a) \ {a})]
           value == [a \in S |-> items.at[a]]
<1>1. \A a \in S : a \in Int /\ items.at[a] \in Int /\ a \in DOMAIN items.at /\ value[a] = items.at[a]
  BY DEF AreItems
<1>2. earlier \in [S -> SUBSET S]
  OBVIOUS
<1>3. \A x, y \in S : y \in earlier[x] <=>
        (items.at[y] < items.at[x] \/ (items.at[y] = items.at[x] /\ y <= x)) /\ y # x
  BY <1>1 DEF SortedTo
<1> HIDE DEF earlier, value
<1>4. ByValue(S, value, earlier)
  <2> SUFFICES ASSUME NEW x \in S, NEW y \in S
               PROVE  y \in earlier[x] <=> value[y] < value[x] \/ (value[y] = value[x] /\ y < x)
    BY <1>2 DEF ByValue
  <2>1. /\ x \in Int /\ items.at[x] \in Int /\ value[x] = items.at[x]
        /\ y \in Int /\ items.at[y] \in Int /\ value[y] = items.at[y]
    BY <1>1
  <2>2. y \in earlier[x] <=>
          (items.at[y] < items.at[x] \/ (items.at[y] = items.at[x] /\ y <= x)) /\ y # x
    BY <1>3
  <2> QED
    BY <2>1, <2>2
<1>5. IsFiniteSet(S)
  BY FS_Subset DEF AreItems
<1>6. TotalOrder(S, earlier)
  <2>1. S \in SUBSET Int /\ \A x \in S : value[x] \in Int
    BY <1>1
  <2> QED
    BY <1>4, <2>1, ByValueOrder
<1> QED
  BY <1>5, <1>6 DEF earlier

\* A nonempty set of contributions has a first and a last one.
LEMMA ItemsEnds ==
  ASSUME NEW items, AreItems(items), NEW S \in SUBSET DOMAIN items.at, S # {}
  PROVE  /\ \E a \in S : S \intersect SortedTo(items, a) = {a}
         /\ \E a \in S : S \subseteq SortedTo(items, a)
<1> DEFINE earlier == [a \in S |-> S \intersect (SortedTo(items, a) \ {a})]
           n == Cardinality(S)
<1>1. TotalOrder(S, earlier) /\ IsFiniteSet(S)
  BY ItemsOrder
<1>2. \A a \in S : a \in SortedTo(items, a)
  BY DEF SortedTo, AreItems
<1>3. \A a \in S : earlier[a] = S \intersect (SortedTo(items, a) \ {a})
  OBVIOUS
<1> HIDE DEF earlier
<1>4. n \in Nat /\ n >= 1
  BY <1>1, FS_CardinalityType, FS_EmptySet
<1>5. /\ \A x \in S : Cardinality(earlier[x]) \in 0..(n - 1)
      /\ \A x, y \in S : x \in earlier[y] => Cardinality(earlier[x]) < Cardinality(earlier[y])
      /\ \A k \in 1..n : \E x \in S : Cardinality(earlier[x]) = k - 1
  BY <1>1, PlacesOf
<1>6. \E a \in S : S \intersect SortedTo(items, a) = {a}
  <2>1. PICK a \in S : Cardinality(earlier[a]) = 0
    <3>1. 1 \in 1..n /\ 1 - 1 = 0
      BY <1>4
    <3> QED
      BY <1>5, <3>1
  <2>2. earlier[a] \in SUBSET S
    BY <1>3
  <2>3. earlier[a] = {}
    BY <1>1, <2>1, <2>2, FS_Subset, FS_EmptySet
  <2> QED
    BY <1>2, <1>3, <2>3
<1>7. \E a \in S : S \subseteq SortedTo(items, a)
  <2>1. PICK a \in S : Cardinality(earlier[a]) = n - 1
    BY <1>4, <1>5
  <2>2. ASSUME NEW b \in S, b \notin SortedTo(items, a)
        PROVE  FALSE
    <3>1. b \notin earlier[a] /\ b # a
      BY <1>2, <1>3, <2>2
    <3>2. a \in earlier[b]
      BY <1>1, <3>1 DEF TotalOrder
    <3>3. Cardinality(earlier[a]) < Cardinality(earlier[b]) /\ Cardinality(earlier[b]) \in 0..(n - 1)
      BY <1>5, <3>2
    <3> QED
      BY <1>4, <2>1, <3>3
  <2> QED
    BY <2>2
<1> QED
  BY <1>6, <1>7

\* A window ends with a contribution and holds none that is too old.
LEMMA WindowToOf ==
  ASSUME NEW items, AreItems(items), NEW window \in Nat, NEW end \in DOMAIN items.at
  PROVE  /\ WindowTo(items, window, end) \in SUBSET DOMAIN items.at
         /\ end \in WindowTo(items, window, end)
         /\ \A a \in WindowTo(items, window, end) :
              items.at[a] <= items.at[end] /\ items.at[end] - window <= items.at[a]
<1>1. \A a \in DOMAIN items.at : a \in Int /\ items.at[a] \in Int
  BY DEF AreItems
<1>2. ASSUME NEW a \in WindowTo(items, window, end)
      PROVE  /\ a \in DOMAIN items.at
             /\ items.at[a] <= items.at[end] /\ items.at[end] - window <= items.at[a]
  <2>1. a \in DOMAIN items.at
    BY DEF WindowTo, SortedTo
  <2>2. /\ items.at[a] < items.at[end] \/ items.at[a] = items.at[end]
        /\ items.at[end] - items.at[a] <= window
    BY DEF WindowTo, SortedTo
  <2>3. items.at[a] \in Int /\ items.at[end] \in Int
    BY <1>1, <2>1
  <2> QED
    BY <2>1, <2>2, <2>3
<1>3. end \in WindowTo(items, window, end)
  <2>1. items.at[end] \in Int /\ end \in Int
    BY <1>1
  <2>2. items.at[end] - items.at[end] <= window /\ end <= end
    BY <2>1
  <2> QED
    BY <2>2 DEF WindowTo, SortedTo
<1> QED
  BY <1>2, <1>3

\* _max_window returns a window that no set of contributions within one window
\* outweighs.
LEMMA MaxWindowOf ==
  ASSUME NEW items, AreItems(items), DOMAIN items.at # {}, NEW window \in Nat
  PROVE  /\ MaxWindow(items, window).sum \in Nat
         /\ \E end \in DOMAIN items.at :
              /\ MaxWindow(items, window).items = WindowTo(items, window, end)
              /\ MaxWindow(items, window).sum = Total(items.score, WindowTo(items, window, end))
         /\ \A S \in SUBSET DOMAIN items.at :
              (S # {} /\ \A a, b \in S : items.at[a] - items.at[b] <= window)
                => Total(items.score, S) <= MaxWindow(items, window).sum
<1> DEFINE D == DOMAIN items.at
           W(end) == WindowTo(items, window, end)
           Sums == [end \in D |-> Total(items.score, W(end))]
           greatest == {a \in D : \A b \in D : Sums[b] <= Sums[a]}
           first == CHOOSE a \in greatest : greatest \intersect SortedTo(items, a) = {a}
           m == MaxWindow(items, window)
<1>1. /\ IsFiniteSet(D) /\ \A a \in D : a \in Int /\ items.at[a] \in Int
      /\ \A a \in D : items.score[a] \in Nat
  BY DEF AreItems
<1>2. \A end \in D : W(end) \in SUBSET D
  BY WindowToOf
<1> HIDE DEF W
<1>3. ASSUME NEW T \in SUBSET D, NEW S \in SUBSET T
      PROVE  Total(items.score, S) \in Nat /\ Total(items.score, S) <= Total(items.score, T)
  <2>1. IsFiniteSet(T)
    BY <1>1, FS_Subset
  <2> QED
    BY <1>1, <2>1, TotalOf
<1>4. \A a \in D : Sums[a] = Total(items.score, W(a)) /\ Sums[a] \in Nat
  BY <1>2, <1>3
<1>5. DOMAIN Sums = D
  OBVIOUS
<1> HIDE DEF Sums
<1>6. greatest # {}
  <2> DEFINE V == {Sums[a] : a \in D}
  <2>1. IsFiniteSet(V)
    BY <1>1, <1>5, FiniteValues
  <2>2. V \in SUBSET Int /\ V # {}
    BY <1>4
  <2>3. Max(V) \in V /\ \A t \in V : t <= Max(V)
    <3> HIDE DEF V
    <3> QED
      BY <2>1, <2>2, FiniteExtremes
  <2>4. PICK a \in D : Sums[a] = Max(V)
    BY <2>3
  <2>5. \A b \in D : Sums[b] <= Sums[a]
    BY <2>3, <2>4
  <2> QED
    BY <2>5
<1>7. greatest \in SUBSET D
  OBVIOUS
<1>8. \A a \in greatest : \A b \in D : Sums[b] <= Sums[a]
  OBVIOUS
<1>9. m = [sum |-> Sums[first], items |-> [end \in D |-> W(end)][first]]
  BY Zenon DEF MaxWindow, Best, W, Sums
<1> HIDE DEF greatest
<1>10. first \in greatest
  BY <1>6, <1>7, ItemsEnds
<1> HIDE DEF first
<1>11. first \in D /\ m.sum = Total(items.score, W(first)) /\ m.items = W(first) /\ m.sum \in Nat
  BY <1>4, <1>7, <1>9, <1>10
<1> HIDE DEF m
<1>12. ASSUME NEW S \in SUBSET D, S # {}, \A a, b \in S : items.at[a] - items.at[b] <= window
       PROVE  Total(items.score, S) <= m.sum
  <2>1. PICK end \in S : S \subseteq SortedTo(items, end)
    BY <1>12, ItemsEnds
  <2>2. S \in SUBSET W(end)
    BY <1>12, <2>1 DEF W, WindowTo
  <2>3. Total(items.score, S) <= Sums[end] /\ Total(items.score, S) \in Nat
    BY <1>2, <1>3, <1>4, <2>2
  <2>4. Sums[end] <= Sums[first] /\ Sums[end] \in Nat /\ Sums[first] \in Nat
    BY <1>4, <1>8, <1>10, <1>11
  <2>5. m.sum = Sums[first]
    BY <1>4, <1>11
  <2> QED
    BY <2>3, <2>4, <2>5
<1> QED
  BY <1>11, <1>12 DEF m, W

\* The values of a field among the events of an alert are finitely many.
LEMMA EntityValuesFinite ==
  ASSUME NEW evs, NEW n, NEW ids, NEW a, IsAlert(a, ids, n), NEW field
  PROVE  IsFiniteSet(EntityValues(evs, a, field))
<1> DEFINE S == ToSet(a.events)
           f == [e \in S |-> evs[e].get[field]]
           V == {evs[e].get[field] : e \in S}
           G == IF field = "source.ip" /\ a.group \in IpValues THEN {a.group} ELSE {}
<1>1. IsFiniteSet(S)
  BY ListFinite DEF IsAlert
<1>2. DOMAIN f = S /\ V = {f[e] : e \in S}
  OBVIOUS
<1> HIDE DEF f, S
<1>3. IsFiniteSet(V)
  <2> HIDE DEF V
  <2> QED
    BY <1>1, <1>2, FiniteValues
<1>4. IsFiniteSet(G)
  BY FS_Singleton, FS_EmptySet
<1>5. EntityValues(evs, a, field) = (V \ {None, ""}) \union G
  BY DEF EntityValues, S
<1> HIDE DEF V, G
<1>6. V \ {None, ""} \in SUBSET V
  OBVIOUS
<1>7. IsFiniteSet(V \ {None, ""})
  BY <1>3, <1>6, FS_Subset
<1> QED
  BY <1>4, <1>5, <1>7, FS_Union

AreScores(overrides) == \A id \in DOMAIN overrides : overrides[id] \in Int

\* A contribution is a positive number.
LEMMA ShareOf ==
  ASSUME NEW evs, NEW n, NEW ids, NEW a, IsAlert(a, ids, n), NEW field,
         NEW overrides, AreScores(overrides), Contributes(overrides, a),
         EntityValues(evs, a, field) # {}
  PROVE  Share(Score(overrides, a), EntityValues(evs, a, field)) \in Nat \ {0}
<1> DEFINE c == Cardinality(EntityValues(evs, a, field))
           s == Score(overrides, a)
<1>1. c \in Nat /\ c >= 1
  BY EntityValuesFinite, FS_CardinalityType, FS_EmptySet
<1>2. s \in Int
  <2>1. CASE a.rule \in DOMAIN overrides
    BY <2>1 DEF Score, AreScores
  <2>2. CASE a.rule \notin DOMAIN overrides
    BY <2>2, SeverityAssumption DEF Score, SeverityScore
  <2> QED
    BY <2>1, <2>2
<1> HIDE DEF c, s
<1>3. s \div c \in Int
  BY <1>1, <1>2
<1> DEFINE share == s \div c
<1>4. Share(s, EntityValues(evs, a, field)) = IF share < 1 THEN 1 ELSE share
  BY DEF Share, c
<1> HIDE DEF share
<1>5. share \in Int
  BY <1>3 DEF share
<1> QED
  BY <1>4, <1>5 DEF s

\* The alerts that contribute to an entity.
Contributors(evs, al, overrides, entity) ==
  {a \in DOMAIN al : /\ Contributes(overrides, al[a])
                     /\ entity[2] \in EntityValues(evs, al[a], entity[1])}

\* They are those whose contributions are looked at.
LEMMA ContributorsOf ==
  ASSUME NEW evs, NEW al, NEW overrides, NEW entity, NEW undated
  PROVE  DOMAIN Contributions(evs, al, overrides, entity, undated).at
           = Contributors(evs, al, overrides, entity)
BY DEF Contributions, Contributors

\* What an alert contributes, and when.
LEMMA ContributionsOf ==
  ASSUME NEW evs, NEW n, NEW ids, NEW al, AreAlerts(al, ids, n),
         NEW overrides, AreScores(overrides), NEW entity, NEW undated \in Int
  PROVE  /\ AreItems(Contributions(evs, al, overrides, entity, undated))
         /\ Contributors(evs, al, overrides, entity) \subseteq 1..Len(al)
         /\ \A a \in DOMAIN Contributions(evs, al, overrides, entity, undated).at :
              /\ Contributions(evs, al, overrides, entity, undated).at[a]
                   = IF al[a].time = None THEN undated ELSE al[a].time
              /\ Contributions(evs, al, overrides, entity, undated).score[a]
                   = Share(Score(overrides, al[a]), EntityValues(evs, al[a], entity[1]))
<1> DEFINE from == {a \in 1..Len(al) : /\ Contributes(overrides, al[a])
                                       /\ entity[2] \in EntityValues(evs, al[a], entity[1])}
           items == Contributions(evs, al, overrides, entity, undated)
<1>1. /\ Len(al) \in Nat /\ DOMAIN al = 1..Len(al)
      /\ \A a \in 1..Len(al) : IsAlert(al[a], ids, n)
  BY ListIsSeq DEF AreAlerts
<1>2. /\ DOMAIN items.at = from
      /\ \A a \in from :
           /\ items.at[a] = IF al[a].time = None THEN undated ELSE al[a].time
           /\ items.score[a] = Share(Score(overrides, al[a]), EntityValues(evs, al[a], entity[1]))
  BY <1>1 DEF Contributions
<1>3. from \in SUBSET (1..Len(al)) /\ from \subseteq Int
  BY <1>1
<1>4. IsFiniteSet(from)
  <2> HIDE DEF from
  <2> QED
    BY <1>1, <1>3, UpToFinite, FS_Subset
<1> HIDE DEF items
<1>5. ASSUME NEW a \in from
      PROVE  items.at[a] \in Int /\ items.score[a] \in Nat \ {0}
  <2>1. al[a].time \in Int \union {None}
    BY <1>1 DEF IsAlert
  <2>2. items.at[a] \in Int
    BY <1>2, <2>1
  <2>3. Share(Score(overrides, al[a]), EntityValues(evs, al[a], entity[1])) \in Nat \ {0}
    BY <1>1, ShareOf
  <2> QED
    BY <1>2, <2>2, <2>3
<1>6. AreItems(items)
  BY <1>2, <1>3, <1>4, <1>5 DEF AreItems
<1> QED
  BY <1>1, <1>2, <1>3, <1>6 DEF items, Contributors

\* A set of one element is finite.
LEMMA Single ==
  ASSUME NEW x
  PROVE  IsFiniteSet({x})
BY FS_Singleton

\* The entities that collect risk are finitely many, and each has contributions.
LEMMA EntitiesOf ==
  ASSUME NEW evs, NEW n, NEW ids, NEW al, AreAlerts(al, ids, n),
         NEW overrides, AreScores(overrides), NEW undated \in Int
  PROVE  /\ IsFiniteSet(Entities(evs, al, overrides))
         /\ \A f, v : <<f, v>> \in Entities(evs, al, overrides) <=>
              f \in RiskObjects /\ DOMAIN Contributions(evs, al, overrides, <<f, v>>, undated).at # {}
         /\ \A e \in Entities(evs, al, overrides) : e = <<e[1], e[2]>>
<1> DEFINE S == {b \in DOMAIN al : Contributes(overrides, al[b])}
           P(a, f) == {f} \X EntityValues(evs, al[a], f)
           V == {P(a, f) : a \in S, f \in RiskObjects}
<1>1. /\ DOMAIN al = 1..Len(al) /\ Len(al) \in Nat
      /\ \A a \in 1..Len(al) : IsAlert(al[a], ids, n)
  BY ListIsSeq DEF AreAlerts
<1>2. Entities(evs, al, overrides) = UNION V
  BY DEF Entities
<1>0. \A W : W \in V <=> \E a \in S, f \in RiskObjects : W = P(a, f)
  OBVIOUS
<1> HIDE DEF V
<1>3. IsFiniteSet(S)
  <2>1. IsFiniteSet(DOMAIN al) /\ S \in SUBSET DOMAIN al
    BY <1>1, UpToFinite
  <2> HIDE DEF S
  <2> QED
    BY <2>1, FS_Subset
<1>4. ASSUME NEW W \in V
      PROVE  IsFiniteSet(W)
  <2>1. PICK a \in S, f \in RiskObjects : W = P(a, f)
    BY <1>0, <1>4
  <2>2. IsFiniteSet(EntityValues(evs, al[a], f))
    BY <1>1, EntityValuesFinite
  <2>3. IsFiniteSet({f})
    BY Single
  <2> QED
    BY <2>1, <2>2, <2>3, FS_Product
<1>5. IsFiniteSet(V)
  <2> DEFINE g == [p \in S \X RiskObjects |-> P(p[1], p[2])]
  <2>1. IsFiniteSet(S \X RiskObjects)
    BY <1>3, RiskObjectsAssumption, FS_Product
  <2>2. DOMAIN g = S \X RiskObjects
    OBVIOUS
  <2>3. V = {g[p] : p \in S \X RiskObjects}
    <3> HIDE DEF P, S
    <3>1. ASSUME NEW W \in V
          PROVE  W \in {g[p] : p \in S \X RiskObjects}
      <4>1. PICK a \in S, f \in RiskObjects : W = P(a, f)
        BY <1>0
      <4>2. <<a, f>> \in S \X RiskObjects /\ g[<<a, f>>] = P(a, f)
        OBVIOUS
      <4> QED
        BY <4>1, <4>2
    <3>2. ASSUME NEW p \in S \X RiskObjects
          PROVE  g[p] \in V
      BY <1>0
    <3> QED
      BY <3>1, <3>2
  <2> HIDE DEF g, S
  <2> QED
    BY <2>1, <2>2, <2>3, FiniteValues
<1>6. IsFiniteSet(UNION V)
  BY <1>4, <1>5, FS_UNION
<1>7. ASSUME NEW f, NEW v
      PROVE  <<f, v>> \in Entities(evs, al, overrides) <=>
               f \in RiskObjects /\ DOMAIN Contributions(evs, al, overrides, <<f, v>>, undated).at # {}
  <2> DEFINE items == Contributions(evs, al, overrides, <<f, v>>, undated)
  <2>1. DOMAIN items.at = {a \in 1..Len(al) : Contributes(overrides, al[a]) /\ v \in EntityValues(evs, al[a], f)}
    <3> DEFINE entity == <<f, v>>
    <3>1. entity[1] = f /\ entity[2] = v
      OBVIOUS
    <3> HIDE DEF entity
    <3>2. DOMAIN Contributions(evs, al, overrides, entity, undated).at
            = Contributors(evs, al, overrides, entity)
      BY ContributorsOf, Zenon
    <3>3. Contributors(evs, al, overrides, entity)
            = {a \in 1..Len(al) : /\ Contributes(overrides, al[a])
                                  /\ v \in EntityValues(evs, al[a], f)}
      BY <1>1, <3>1 DEF Contributors
    <3> QED
      BY <3>2, <3>3, Zenon DEF entity, items
  <2> HIDE DEF items
  <2>2. <<f, v>> \in UNION V <=> f \in RiskObjects /\ \E a \in S : v \in EntityValues(evs, al[a], f)
    <3>1. ASSUME <<f, v>> \in UNION V
          PROVE  f \in RiskObjects /\ \E a \in S : v \in EntityValues(evs, al[a], f)
      <4>1. PICK a \in S, g \in RiskObjects : <<f, v>> \in P(a, g)
        BY <1>0, <3>1
      <4> QED
        BY <4>1
    <3>2. ASSUME f \in RiskObjects, NEW a \in S, v \in EntityValues(evs, al[a], f)
          PROVE  <<f, v>> \in UNION V
      <4>1. <<f, v>> \in P(a, f) /\ P(a, f) \in V
        BY <1>0, <3>2
      <4> HIDE DEF P
      <4> QED
        BY <4>1
    <3> QED
      BY <3>1, <3>2
  <2>3. (\E a \in S : v \in EntityValues(evs, al[a], f)) <=> DOMAIN items.at # {}
    BY <1>1, <2>1
  <2> QED
    BY <1>2, <2>2, <2>3 DEF items
<1>8. ASSUME NEW e \in UNION V
      PROVE  e = <<e[1], e[2]>>
  BY <1>0
<1> QED
  BY <1>2, <1>6, <1>7, <1>8

\* _build_notable returns an alert of the risk engine.
LEMMA NotableType ==
  ASSUME NEW evs, NEW n, NEW ids, NEW al, AreAlerts(al, ids, n), NEW risk, NEW entity,
         NEW items, AreItems(items), DOMAIN items.at \subseteq 1..Len(al),
         NEW best, best.items \subseteq DOMAIN items.at
  PROVE  /\ IsAlert(Notable(evs, al, risk, entity, items, best), {NotableId}, n)
         /\ Notable(evs, al, risk, entity, items, best).group = entity[2]
<1> DEFINE S == best.items
           order == Sorted(S, [a \in S |-> S \intersect (SortedTo(items, a) \ {a})])
           m == Cardinality(S)
           lists == [k \in DOMAIN order |-> al[order[k]].events]
           seen == FlattenSeq(lists)
           new == {k \in DOMAIN seen : \A j \in 1..(k - 1) : seen[j] # seen[k]}
           times == {al[a].time : a \in S} \ {None}
           a == Notable(evs, al, risk, entity, items, best)
<1>1. /\ Len(al) \in Nat /\ \A b \in 1..Len(al) : IsAlert(al[b], ids, n)
  BY ListIsSeq DEF AreAlerts
<1>2. S \in SUBSET (1..Len(al)) /\ IsFiniteSet(S)
  BY ItemsOrder
<1>3. order \in [1..m -> S] /\ m \in Nat
  BY ItemsOrder, SortedPlaces, FS_CardinalityType
<1>4. /\ AlertFields \subseteq DOMAIN a /\ a.rule = NotableId /\ a.group = entity[2]
      /\ a.events = Picked(seen, new)
      /\ a.time = IF times = {} THEN Now ELSE Max(times)
  BY DEF Notable, AlertFields
<1> HIDE DEF order, a, m, S
<1>5. /\ IsList(lists) /\ \A t \in ToSet(lists) : IsList(t) /\ ToSet(t) \subseteq 1..n
  <2>1. \A k \in 1..m : IsList(al[order[k]].events) /\ ToSet(al[order[k]].events) \subseteq 1..n
    BY <1>1, <1>2, <1>3 DEF IsAlert
  <2> DEFINE L == {al[order[k]].events : k \in 1..m}
  <2>2. lists \in [1..m -> L]
    BY <1>3
  <2>3. lists \in Seq(L)
    BY <1>3, <2>2, IsSeq
  <2>4. IsList(lists) /\ ToSet(lists) \subseteq L
    BY <2>3, ListIsSeq
  <2> HIDE DEF lists
  <2> QED
    BY <2>1, <2>4
<1> HIDE DEF lists
<1>6. IsList(seen) /\ ToSet(seen) \subseteq 1..n
  <2>1. IsList(seen) /\ ToSet(seen) = UNION {ToSet(t) : t \in ToSet(lists)}
    BY <1>5, ListFlatten
  <2> QED
    BY <1>5, <2>1
<1> HIDE DEF seen
<1>7. IsList(Picked(seen, new)) /\ ToSet(Picked(seen, new)) \subseteq 1..n
  <2>1. new \in SUBSET (1..Len(seen)) /\ DOMAIN seen = 1..Len(seen)
    BY <1>6, ListIsSeq
  <2> HIDE DEF new
  <2>2. IsList(Picked(seen, new)) /\ ToSet(Picked(seen, new)) = {seen[k] : k \in new}
    BY <1>6, <2>1, PickedOf
  <2>3. \A k \in new : seen[k] \in ToSet(seen)
    BY <2>1 DEF ToSet
  <2> QED
    BY <1>6, <2>2, <2>3
<1>8. times # {} => Max(times) \in Int
  <2> DEFINE f == [b \in S |-> al[b].time]
             V == {al[b].time : b \in S}
  <2>1. DOMAIN f = S /\ V = {f[b] : b \in S}
    OBVIOUS
  <2> HIDE DEF f
  <2>2. IsFiniteSet(V)
    <3> HIDE DEF V
    <3> QED
      BY <1>2, <2>1, FiniteValues
  <2>3. times \in SUBSET V /\ times \in SUBSET Int
    BY <1>1, <1>2 DEF IsAlert
  <2> HIDE DEF times, V
  <2> QED
    BY <2>2, <2>3, FS_Subset, FiniteExtremes
<1>9. a.time \in Int
  BY <1>4, <1>8, NowAssumption
<1> QED
  BY <1>4, <1>7, <1>9 DEF IsAlert, a

IsRisk(risk) == risk.threshold \in Int /\ risk.window \in Nat /\ AreScores(risk.overrides)

\* assess looks at the best window of every entity.
LEMMA AssessmentOf ==
  ASSUME NEW evs, NEW al, NEW risk, NEW undated, NEW e \in Entities(evs, al, risk.overrides)
  PROVE  /\ Assessment(evs, al, risk, undated)[e].items
              = Contributions(evs, al, risk.overrides, e, undated)
         /\ Assessment(evs, al, risk, undated)[e].best
              = MaxWindow(Contributions(evs, al, risk.overrides, e, undated), risk.window)
BY DEF Assessment

\* It has contributions to look at.
LEMMA AssessedOf ==
  ASSUME NEW evs, NEW n, NEW ids, NEW al, AreAlerts(al, ids, n),
         NEW overrides, AreScores(overrides), NEW undated \in Int,
         NEW e \in Entities(evs, al, overrides)
  PROVE  /\ e[1] \in RiskObjects /\ e = <<e[1], e[2]>>
         /\ AreItems(Contributions(evs, al, overrides, e, undated))
         /\ DOMAIN Contributions(evs, al, overrides, e, undated).at # {}
         /\ DOMAIN Contributions(evs, al, overrides, e, undated).at \subseteq 1..Len(al)
<1> DEFINE items == Contributions(evs, al, overrides, e, undated)
<1>3. e = <<e[1], e[2]>>
  BY EntitiesOf
<1>4. e[1] \in RiskObjects /\ DOMAIN items.at # {}
  BY <1>3, EntitiesOf
<1>5. AreItems(items)
  BY ContributionsOf
<1>6. /\ DOMAIN items.at = Contributors(evs, al, overrides, e)
      /\ Contributors(evs, al, overrides, e) \subseteq 1..Len(al)
  BY ContributorsOf, ContributionsOf
<1>7. DOMAIN items.at \subseteq 1..Len(al)
  BY <1>6
<1> QED
  BY <1>3, <1>4, <1>5, <1>7

\* Some contributions to the entity, dated within one window, reach the threshold.
Heavy(evs, al, risk, undated, entity) ==
  LET items == Contributions(evs, al, risk.overrides, entity, undated) IN
  \E S \in SUBSET Contributors(evs, al, risk.overrides, entity) :
    /\ S # {} /\ \A a, b \in S : items.at[a] - items.at[b] <= risk.window
    /\ Total(items.score, S) >= risk.threshold

\* That is what the best window tells, whatever else the sweep looks at.
LEMMA OverIsHeavy ==
  ASSUME NEW evs, NEW n, NEW ids, NEW al, AreAlerts(al, ids, n),
         NEW risk, IsRisk(risk), NEW undated \in Int,
         NEW e \in Entities(evs, al, risk.overrides)
  PROVE  /\ OverThreshold(risk, Assessment(evs, al, risk, undated)[e])
              <=> Heavy(evs, al, risk, undated, e)
         /\ Assessment(evs, al, risk, undated)[e].best.items
              \subseteq DOMAIN Assessment(evs, al, risk, undated)[e].items.at
<1> DEFINE items == Contributions(evs, al, risk.overrides, e, undated)
           best == MaxWindow(items, risk.window)
           C == Contributors(evs, al, risk.overrides, e)
           looked == Assessment(evs, al, risk, undated)[e]
<1>1. /\ looked.items = items /\ looked.best = best
      /\ AreItems(items) /\ DOMAIN items.at # {}
  <2>1. looked.items = items /\ looked.best = best
    BY AssessmentOf
  <2>2. AreItems(items) /\ DOMAIN items.at # {}
    BY AssessedOf DEF IsRisk
  <2> QED
    BY <2>1, <2>2
<1>2. C = DOMAIN items.at
  BY ContributorsOf
<1>3. risk.window \in Nat /\ risk.threshold \in Int
  BY DEF IsRisk
<1>4. OverThreshold(risk, looked) <=> best.sum >= risk.threshold
  BY <1>1 DEF OverThreshold
<1>5. Heavy(evs, al, risk, undated, e) <=>
        \E S \in SUBSET C : /\ S # {} /\ \A a, b \in S : items.at[a] - items.at[b] <= risk.window
                            /\ Total(items.score, S) >= risk.threshold
  BY Zenon DEF Heavy
<1> HIDE DEF items, C, looked
<1>6. /\ best.sum \in Nat
      /\ \E end \in DOMAIN items.at :
           /\ best.items = WindowTo(items, risk.window, end)
           /\ best.sum = Total(items.score, WindowTo(items, risk.window, end))
      /\ \A S \in SUBSET DOMAIN items.at :
           (S # {} /\ \A a, b \in S : items.at[a] - items.at[b] <= risk.window)
             => Total(items.score, S) <= best.sum
  BY <1>1, <1>3, MaxWindowOf
<1> HIDE DEF best
<1>7. PICK end \in DOMAIN items.at :
        /\ best.items = WindowTo(items, risk.window, end)
        /\ best.sum = Total(items.score, WindowTo(items, risk.window, end))
  BY <1>6
<1> DEFINE W == WindowTo(items, risk.window, end)
<1>8. /\ W \in SUBSET DOMAIN items.at /\ end \in W
      /\ \A a \in W : items.at[a] <= items.at[end] /\ items.at[end] - risk.window <= items.at[a]
  BY <1>1, <1>3, WindowToOf
<1>9. \A a \in DOMAIN items.at : items.at[a] \in Int /\ items.score[a] \in Nat
  BY <1>1 DEF AreItems
<1>10. best.items = W /\ best.sum = Total(items.score, W)
  BY <1>7
<1> HIDE DEF W
<1>11. \A a, b \in W : items.at[a] - items.at[b] <= risk.window
  BY <1>3, <1>8, <1>9
<1>12. ASSUME best.sum >= risk.threshold PROVE Heavy(evs, al, risk, undated, e)
  BY <1>2, <1>5, <1>8, <1>10, <1>11, <1>12
<1>13. ASSUME Heavy(evs, al, risk, undated, e) PROVE best.sum >= risk.threshold
  <2>1. PICK S \in SUBSET C : /\ S # {} /\ \A a, b \in S : items.at[a] - items.at[b] <= risk.window
                              /\ Total(items.score, S) >= risk.threshold
    BY <1>5, <1>13
  <2>2. Total(items.score, S) \in Nat
    <3>1. IsFiniteSet(S)
      BY <1>1, <1>2, FS_Subset DEF AreItems
    <3> QED
      BY <1>2, <1>9, <3>1, TotalOf
  <2> QED
    BY <1>2, <1>3, <1>6, <2>1, <2>2
<1> QED
  BY <1>1, <1>4, <1>8, <1>10, <1>12, <1>13 DEF looked

\* assess finds all entities that are heavy.
LEMMA HeavyIsEntity ==
  ASSUME NEW evs, NEW n, NEW ids, NEW al, AreAlerts(al, ids, n),
         NEW risk, IsRisk(risk), NEW undated \in Int, NEW f \in RiskObjects, NEW v,
         Heavy(evs, al, risk, undated, <<f, v>>)
  PROVE  <<f, v>> \in Entities(evs, al, risk.overrides)
<1>1. Contributors(evs, al, risk.overrides, <<f, v>>) # {}
  BY Zenon DEF Heavy
<1>2. DOMAIN Contributions(evs, al, risk.overrides, <<f, v>>, undated).at # {}
  BY <1>1, ContributorsOf
<1> QED
  BY <1>2, EntitiesOf DEF IsRisk

\* The entities over the threshold, and the notable of one.
OverOf(evs, al, risk, undated) ==
  {e \in DOMAIN Assessment(evs, al, risk, undated) :
     OverThreshold(risk, Assessment(evs, al, risk, undated)[e])}
NotableOf(evs, al, risk, undated, e) ==
  Notable(evs, al, risk, e, Assessment(evs, al, risk, undated)[e].items,
          Assessment(evs, al, risk, undated)[e].best)

\* What assess adds.
Added(evs, al, risk, undated) ==
  [k \in DOMAIN SetToSeq(OverOf(evs, al, risk, undated)) |->
     NotableOf(evs, al, risk, undated, SetToSeq(OverOf(evs, al, risk, undated))[k])]

\* The entities over the threshold are the heavy ones.
LEMMA OverOfHeavy ==
  ASSUME NEW evs, NEW n, NEW ids, NEW al, AreAlerts(al, ids, n),
         NEW risk, IsRisk(risk), NEW undated \in Int
  PROVE  /\ IsFiniteSet(OverOf(evs, al, risk, undated))
         /\ \A e \in OverOf(evs, al, risk, undated) :
              /\ e[1] \in RiskObjects /\ e = <<e[1], e[2]>>
              /\ Heavy(evs, al, risk, undated, e)
              /\ IsAlert(NotableOf(evs, al, risk, undated, e), {NotableId}, n)
              /\ NotableOf(evs, al, risk, undated, e).group = e[2]
         /\ \A f \in RiskObjects : \A v : Heavy(evs, al, risk, undated, <<f, v>>)
                                        => <<f, v>> \in OverOf(evs, al, risk, undated)
<1> DEFINE E == Entities(evs, al, risk.overrides)
           scores == Assessment(evs, al, risk, undated)
<1>1. DOMAIN scores = E
  BY DEF Assessment
<1>2. ASSUME NEW e \in E
      PROVE  /\ AreItems(scores[e].items) /\ DOMAIN scores[e].items.at \subseteq 1..Len(al)
             /\ e[1] \in RiskObjects /\ e = <<e[1], e[2]>>
  <2> DEFINE items == Contributions(evs, al, risk.overrides, e, undated)
  <2>1. scores[e].items = items
    BY AssessmentOf
  <2>2. AreItems(items) /\ DOMAIN items.at \subseteq 1..Len(al)
    BY AssessedOf DEF IsRisk
  <2>3. e[1] \in RiskObjects /\ e = <<e[1], e[2]>>
    BY AssessedOf DEF IsRisk
  <2> HIDE DEF items, scores
  <2> QED
    BY <2>1, <2>2, <2>3
<1>3. \A e \in E : /\ OverThreshold(risk, scores[e]) <=> Heavy(evs, al, risk, undated, e)
                   /\ scores[e].best.items \subseteq DOMAIN scores[e].items.at
  BY OverIsHeavy
<1>4. IsFiniteSet(E)
  BY EntitiesOf DEF IsRisk
<1>5. OverOf(evs, al, risk, undated) = {e \in E : Heavy(evs, al, risk, undated, e)}
  BY <1>1, <1>3 DEF OverOf
<1>6. ASSUME NEW e \in E
      PROVE  /\ IsAlert(NotableOf(evs, al, risk, undated, e), {NotableId}, n)
             /\ NotableOf(evs, al, risk, undated, e).group = e[2]
  <2> DEFINE items == scores[e].items
             best == scores[e].best
  <2>1. AreItems(items) /\ DOMAIN items.at \subseteq 1..Len(al) /\ best.items \subseteq DOMAIN items.at
    BY <1>2, <1>3
  <2>2. NotableOf(evs, al, risk, undated, e) = Notable(evs, al, risk, e, items, best)
    BY DEF NotableOf
  <2> HIDE DEF items, best
  <2>3. /\ IsAlert(Notable(evs, al, risk, e, items, best), {NotableId}, n)
        /\ Notable(evs, al, risk, e, items, best).group = e[2]
    BY <2>1, NotableType
  <2> QED
    BY <2>2, <2>3
<1>7. IsFiniteSet(OverOf(evs, al, risk, undated))
  BY <1>4, <1>5, FS_Subset
<1>8. ASSUME NEW f \in RiskObjects, NEW v, Heavy(evs, al, risk, undated, <<f, v>>)
      PROVE  <<f, v>> \in OverOf(evs, al, risk, undated)
  <2>1. <<f, v>> \in E
    BY <1>8, HeavyIsEntity
  <2> QED
    BY <1>5, <1>8, <2>1
<1> HIDE DEF E, scores
<1> QED
  BY <1>2, <1>5, <1>6, <1>7, <1>8

\* The notables are those of the heavy entities.
LEMMA NotablesOf ==
  ASSUME NEW evs, NEW n, NEW ids, NEW al, AreAlerts(al, ids, n),
         NEW risk, IsRisk(risk), NEW undated \in Int
  PROVE  /\ AreAlerts(Added(evs, al, risk, undated), {NotableId}, n)
         /\ \A v : (\E a \in ToSet(Added(evs, al, risk, undated)) : a.group = v)
                     <=> \E f \in RiskObjects : Heavy(evs, al, risk, undated, <<f, v>>)
<1> DEFINE over == OverOf(evs, al, risk, undated)
           N(e) == NotableOf(evs, al, risk, undated, e)
           reached == SetToSeq(over)
           added == Added(evs, al, risk, undated)
<1>1. added = [k \in DOMAIN reached |-> N(reached[k])]
  BY DEF Added
<1>2. /\ IsFiniteSet(over)
      /\ \A e \in over : /\ e[1] \in RiskObjects /\ e = <<e[1], e[2]>>
                          /\ Heavy(evs, al, risk, undated, e)
                          /\ IsAlert(N(e), {NotableId}, n) /\ N(e).group = e[2]
      /\ \A f \in RiskObjects : \A v : Heavy(evs, al, risk, undated, <<f, v>>) => <<f, v>> \in over
  BY OverOfHeavy
<1> HIDE DEF over, N, added
<1>3. reached \in Seq(over) /\ ToSet(reached) = over
  BY <1>2, Listed
<1> HIDE DEF reached
<1>4. /\ DOMAIN reached = 1..Len(reached) /\ Len(reached) \in Nat
      /\ \A e \in over : \E k \in 1..Len(reached) : e = reached[k]
      /\ \A k \in 1..Len(reached) : reached[k] \in over
  BY <1>3, InSeq
<1>5. IsList(added) /\ \A a : a \in ToSet(added) <=> \E e \in over : a = N(e)
  <2>1. added \in [1..Len(reached) -> {N(e) : e \in over}]
    BY <1>1, <1>4
  <2>2. added \in Seq({N(e) : e \in over})
    BY <1>4, <2>1, IsSeq
  <2>3. IsList(added) /\ \A a \in ToSet(added) : a \in {N(e) : e \in over}
    BY <2>2, ListIsSeq
  <2>4. ASSUME NEW e \in over PROVE N(e) \in ToSet(added)
    <3>1. PICK k \in 1..Len(reached) : e = reached[k]
      BY <1>4
    <3>2. added[k] = N(e) /\ k \in DOMAIN added
      BY <1>1, <1>4, <3>1
    <3> QED
      BY <3>2 DEF ToSet
  <2> QED
    BY <2>3, <2>4
<1>6. AreAlerts(added, {NotableId}, n)
  <2>1. \A a \in ToSet(added) : IsAlert(a, {NotableId}, n)
    BY <1>2, <1>5
  <2> QED
    BY <1>5, <2>1 DEF AreAlerts
<1>7. ASSUME NEW v
      PROVE  (\E a \in ToSet(added) : a.group = v)
               <=> \E f \in RiskObjects : Heavy(evs, al, risk, undated, <<f, v>>)
  <2>1. ASSUME NEW a \in ToSet(added), a.group = v
        PROVE  \E f \in RiskObjects : Heavy(evs, al, risk, undated, <<f, v>>)
    <3>1. PICK e \in over : a = N(e)
      BY <1>5
    <3>2. Heavy(evs, al, risk, undated, e) /\ e[2] = v /\ e[1] \in RiskObjects /\ e = <<e[1], e[2]>>
      BY <1>2, <2>1, <3>1
    <3>3. e = <<e[1], v>>
      BY <3>2
    <3> QED
      BY <3>2, <3>3
  <2>2. ASSUME NEW f \in RiskObjects, Heavy(evs, al, risk, undated, <<f, v>>)
        PROVE  \E a \in ToSet(added) : a.group = v
    <3>1. <<f, v>> \in over /\ <<f, v>>[2] = v
      BY <1>2, <2>2
    <3> QED
      BY <1>2, <1>5, <3>1
  <2> QED
    BY <2>1, <2>2
<1> QED
  BY <1>6, <1>7 DEF added

\* What rules declare as their score is a number.
LEMMA OverridesOf ==
  ASSUME NEW s, IsList(s), \A r \in ToSet(s) : IsRuleRecord(r)
  PROVE  AreScores(Overrides(s))
<1> DEFINE scored == {k \in DOMAIN s : s[k].risk # None}
           of(id) == {k \in scored : s[k].id = id}
<1>1. /\ DOMAIN s = 1..Len(s) /\ Len(s) \in Nat
      /\ \A k \in DOMAIN s : s[k].risk \in Int \union {None}
  BY ListIsSeq DEF IsRuleRecord
<1> SUFFICES ASSUME NEW id \in {s[k].id : k \in scored} PROVE s[Max(of(id))].risk \in Int
  BY DEF AreScores, Overrides
<1>2. of(id) # {} /\ of(id) \in SUBSET Int /\ \A k \in of(id) : k <= Len(s)
  BY <1>1
<1>3. Max(of(id)) \in of(id)
  <2> DEFINE T == of(id)
  <2>1. T # {} /\ T \in SUBSET Int /\ (\A k \in T : k <= Len(s)) /\ Len(s) \in Int
    BY <1>1, <1>2
  <2> HIDE DEF T
  <2>2. Max(T) \in T
    BY <2>1, GreatestElement
  <2> QED
    BY <2>2 DEF T
<1> QED
  BY <1>1, <1>3

-----------------------------------------------------------------------------
(* Enrichment. *)

\* The country an event is given.
CountryGiven(context, event) ==
  LET geo == Geo(context.geoip, event.get["source.ip"]) IN
  IF geo # {} THEN (CHOOSE row \in geo : TRUE).country ELSE event.get["source.geo.country_iso_code"]

\* Enrichment sets fields of its own and nothing else.
LEMMA EnrichEventOf ==
  ASSUME NEW context, NEW event, IsEvent(event)
  PROVE  /\ IsEvent(EnrichEvent(context, event))
         /\ EnrichEvent(context, event).time = event.time
         /\ DOMAIN EnrichEvent(context, event).get = DOMAIN event.get
         /\ \A f \in DOMAIN event.get \ Shown : EnrichEvent(context, event).get[f] = event.get[f]
         /\ EnrichEvent(context, event).get["source.geo.country_iso_code"] = CountryGiven(context, event)
<1> DEFINE ip == event.get["source.ip"]
           user == event.get["user.name"]
           geo == Geo(context.geoip, ip)
           asset == Lookup(context.assets, ip)
           inventoried == Rows(context.assets) # {} /\ ip \notin Falsy
           Only(S) == CHOOSE row \in S : TRUE
           threat == Set(event.get, Blocklisted(context.blocklist, ip), "threat.matched", "True")
           country == Set(threat, geo # {}, "source.geo.country_iso_code", Only(geo).country)
           trust == Set(country, inventoried, "source.asset.trusted",
                        IF asset = {} THEN "False" ELSE Only(asset).trusted)
           name == Set(trust, inventoried /\ asset # {}, "source.asset.name", Only(asset).hostname)
           role == Set(name, user \in DOMAIN context.roles, "user.role", context.roles[user])
           D == DOMAIN event.get
           r == EnrichEvent(context, event)
<1>1. r = [event EXCEPT !.get = role]
  BY Zenon DEF EnrichEvent
<1>2. /\ {"threat.matched", "source.geo.country_iso_code", "source.asset.trusted",
          "source.asset.name", "user.role"} \subseteq D
      /\ {"get", "time", "clock"} \subseteq DOMAIN event /\ event.time \in Int \union {None}
      /\ Shown \union {"source.ip", "user.name", "event.outcome"} \subseteq D
  BY DEF IsEvent, Shown
<1> DEFINE place == Only(geo).country
           trusted == IF asset = {} THEN "False" ELSE Only(asset).trusted
           host == Only(asset).hostname
           title == context.roles[user]
<1> HIDE DEF place, trusted, host, title
<1>3. DOMAIN threat = D /\ \A f \in D : threat[f] # event.get[f] => f = "threat.matched"
  BY <1>2 DEF Set
<1> HIDE DEF threat
<1>4. DOMAIN country = D /\ \A f \in D :
        country[f] = IF geo # {} /\ f = "source.geo.country_iso_code" THEN place ELSE threat[f]
  BY <1>2, <1>3 DEF Set, place
<1> HIDE DEF country
<1>5. DOMAIN trust = D /\ \A f \in D : trust[f] # country[f] => f = "source.asset.trusted"
  BY <1>2, <1>4 DEF Set
<1> HIDE DEF trust
<1>6. DOMAIN name = D /\ \A f \in D : name[f] # trust[f] => f = "source.asset.name"
  BY <1>2, <1>5 DEF Set
<1> HIDE DEF name
<1>7. DOMAIN role = D /\ \A f \in D : role[f] # name[f] => f = "user.role"
  BY <1>2, <1>6 DEF Set
<1> HIDE DEF role
<1>8. \A f \in D \ Shown : role[f] = event.get[f]
  BY <1>3, <1>4, <1>5, <1>6, <1>7 DEF Shown
<1>9. role["source.geo.country_iso_code"] = CountryGiven(context, event)
  <2>1. /\ role["source.geo.country_iso_code"] = country["source.geo.country_iso_code"]
        /\ threat["source.geo.country_iso_code"] = event.get["source.geo.country_iso_code"]
    BY <1>2, <1>3, <1>5, <1>6, <1>7
  <2> QED
    BY <1>2, <1>4, <2>1 DEF CountryGiven, place
<1>10. r.get = role /\ r.time = event.time /\ DOMAIN r = DOMAIN event
  BY <1>1, <1>2
<1>11. IsEvent(r)
  BY <1>2, <1>7, <1>10 DEF IsEvent
<1> HIDE DEF r
<1> QED
  BY <1>7, <1>8, <1>9, <1>10, <1>11 DEF r

\* Enrichment goes through the events one by one.
LEMMA EnrichOf ==
  ASSUME NEW context, NEW evs, AreEvents(evs)
  PROVE  /\ AreEvents(Enrich(context, evs)) /\ Len(Enrich(context, evs)) = Len(evs)
         /\ \A e \in 1..Len(evs) : Enrich(context, evs)[e]
              = IF ~context.enabled THEN evs[e] ELSE EnrichEvent(context, evs[e])
<1> DEFINE n == Len(evs)
           E(e) == EnrichEvent(context, evs[e])
           s == [e \in DOMAIN evs |-> E(e)]
<1>1. n \in Nat /\ DOMAIN evs = 1..n /\ \A e \in 1..n : evs[e] \in ToSet(evs)
  BY ListIsSeq DEF AreEvents
<1>2. \A e \in 1..n : IsEvent(E(e))
  BY <1>1, EnrichEventOf DEF AreEvents
<1> HIDE DEF E
<1>3. s \in [1..n -> {E(e) : e \in 1..n}]
  BY <1>1
<1>4. s \in Seq({E(e) : e \in 1..n}) /\ Len(s) = n
  BY <1>1, <1>3, IsSeq
<1>5. AreEvents(s)
  <2> HIDE DEF s
  <2>1. IsList(s) /\ \A x \in ToSet(s) : x \in {E(e) : e \in 1..n}
    BY <1>4, ListIsSeq
  <2>2. \A x \in ToSet(s) : IsEvent(x)
    BY <1>2, <2>1
  <2> QED
    BY <2>1, <2>2 DEF AreEvents
<1>6. Enrich(context, evs) = IF ~context.enabled THEN evs ELSE s
  BY DEF Enrich, E
<1>7. \A e \in 1..n : s[e] = E(e)
  BY <1>1
<1> HIDE DEF s
<1> QED
  BY <1>4, <1>5, <1>6, <1>7 DEF E

-----------------------------------------------------------------------------
(* What is loaded and imported. *)

\* Loaded files keep their records; the sort loses none.
LEMMA SortedByIdOf ==
  ASSUME NEW files, IsList(files), \A k \in DOMAIN files : files[k].id \in Int
  PROVE  IsList(SortedById(files)) /\ ToSet(SortedById(files)) = ToSet(files)
<1> DEFINE S == DOMAIN files
           value == [k \in S |-> files[k].id]
           earlier == [k \in S |-> {j \in S : \/ files[j].id < files[k].id
                                             \/ (files[j].id = files[k].id /\ j < k)}]
           order == Sorted(S, earlier)
           n == Cardinality(S)
           s == SortedById(files)
<1>1. IsFiniteSet(S) /\ S = 1..Len(files) /\ Len(files) \in Nat /\ S \in SUBSET Int
  BY ListFinite, ListIsSeq
<1>2. ByValue(S, value, earlier)
  BY DEF ByValue
<1>3. \A k \in S : value[k] \in Int
  OBVIOUS
<1>4. s = [k \in DOMAIN order |-> files[order[k]]]
  BY DEF SortedById
<1> HIDE DEF earlier, value
<1>5. TotalOrder(S, earlier)
  BY <1>1, <1>2, <1>3, ByValueOrder
<1>6. order \in [1..n -> S] /\ ToSet(order) = S /\ n \in Nat
  BY <1>1, <1>5, SortedPlaces, FS_CardinalityType
<1> HIDE DEF order, n, s
<1>7. s \in [1..n -> ToSet(files)] /\ DOMAIN s = 1..n
  BY <1>4, <1>6 DEF ToSet
<1>8. IsList(s)
  <2>1. s \in Seq(ToSet(files))
    BY <1>6, <1>7, IsSeq
  <2> QED
    BY <2>1, ListIsSeq
<1>9. ToSet(files) \subseteq ToSet(s)
  <2> SUFFICES ASSUME NEW k \in S PROVE files[k] \in ToSet(s)
    BY DEF ToSet
  <2>1. PICK j \in 1..n : order[j] = k
    BY <1>6 DEF ToSet
  <2> QED
    BY <1>4, <1>6, <1>7, <2>1 DEF ToSet
<1>10. ToSet(s) \subseteq ToSet(files)
  BY <1>7 DEF ToSet
<1> QED
  BY <1>8, <1>9, <1>10 DEF s

\* What an imported rule keeps of its file.
LEMMA TranslateRuleOf ==
  ASSUME NEW file, IsUpstream(file)
  PROVE  /\ TranslateRule(file).id \in Int
         /\ TranslateRule(file).risk = None
         /\ TranslateRule(file).timeframe = file.timeframe
         /\ TranslateRule(file).condition = file.condition
         /\ TranslateRule(file).selections
              = [n \in DOMAIN file.selections |-> TranslateSelection(file.selections[n])]
         /\ DOMAIN TranslateRule(file) = DOMAIN file
BY DEF TranslateRule, IsUpstream

\* import_sigma_dir loads the translations of usable files.
LEMMA ImportOf ==
  ASSUME NEW files, IsList(files)
  PROVE  /\ IsList(ImportReport(files).loaded)
         /\ \A rule \in ToSet(ImportReport(files).loaded) :
              \E file \in ToSet(files) : Reasons(file) = {} /\ rule = TranslateRule(file)
<1> DEFINE usable == {k \in DOMAIN files : Reasons(files[k]) = {}}
           order == Ascending(usable)
           n == Cardinality(usable)
           s == [k \in DOMAIN order |-> TranslateRule(files[order[k]])]
           L == {TranslateRule(files[k]) : k \in usable}
<1>1. IsFiniteSet(usable) /\ usable \in SUBSET Int
  <2>1. IsFiniteSet(DOMAIN files) /\ usable \in SUBSET DOMAIN files /\ DOMAIN files \subseteq Int
    BY ListFinite, ListIsSeq
  <2> HIDE DEF usable
  <2> QED
    BY <2>1, FS_Subset
<1>2. ImportReport(files).loaded = s
  BY DEF ImportReport
<1>3. \A k \in usable : k \in DOMAIN files /\ Reasons(files[k]) = {} /\ files[k] \in ToSet(files)
  BY DEF ToSet
<1> HIDE DEF usable
<1>4. order \in [1..n -> usable] /\ DOMAIN order = 1..n /\ n \in Nat
  BY <1>1, AscendingOf, FS_CardinalityType
<1> HIDE DEF order, n
<1>5. s \in [1..n -> L]
  BY <1>4
<1> HIDE DEF s
<1>6. s \in Seq(L)
  BY <1>4, <1>5, IsSeq
<1>7. IsList(s) /\ ToSet(s) \subseteq L
  BY <1>6, ListIsSeq
<1> QED
  BY <1>2, <1>3, <1>7

-----------------------------------------------------------------------------
(* The shape of the state. *)

RuleIds == {r.id : r \in ToSet(rules)}
CorrelationIds == {c.id : c \in ToSet(correlations)}

\* The ids of the alerts that rules and correlations raise.
Detected == (RuleIds \ Suppressed) \union CorrelationIds

Building == {"cases", "load", "context", "import"}

\* What the pipeline is built of.
Loaded ==
  /\ IsDeployment(input)
  /\ IsList(rules) /\ \A r \in ToSet(rules) : IsRuleRecord(r)
  /\ IsList(correlations)
  /\ \A c \in ToSet(correlations) : IsCorrelationRecord(c) /\ ToSet(c.rules) \subseteq RuleIds

\* What the stages of a batch have left fits its events and its rules.
Fitting ==
  /\ AreEvents(events)
  /\ DOMAIN byRule \subseteq RuleIds
  /\ AreFirings(byRule, DOMAIN byRule, Len(events))
  /\ AreAlerts(alerts, Detected \union {TravelId, NotableId}, Len(events))
  /\ Len(kept) \in Nat /\ kept \in [1..Len(kept) -> 1..Len(alerts)]
  /\ \A j, k \in 1..Len(kept) : kept[j] = kept[k] => j = k

\* Where the pipeline is.
Position ==
  /\ pc \in Stages
  /\ IF pc = "failed" THEN error \in Stages \X Exceptions ELSE error = NoError
  /\ batch \in 0..Len(Cases)
  /\ pc \notin Building \union {"start", "done", "failed"} => batch >= 1
  /\ turn \in 0..(Len(rules) + Len(correlations))
  /\ pc \notin {"rules", "correlate", "failed"} => turn = 0
  /\ pc = "rules" => turn <= Len(rules)
  /\ pc = "correlate" => turn <= Len(correlations)

\* What is still empty, and what is complete.
Progress ==
  /\ pc \in Building => events = <<>>
  /\ pc \in Building \union {"enrich"} => byRule = Empty
  /\ pc \in Building \union {"enrich", "rules"} => alerts = <<>>
  /\ pc \notin {"start", "done", "failed"} => kept = <<>>
  /\ pc = "enrich" => events = Cases[batch].events
  /\ pc \in {"rules", "correlate", "assess"} => events = Enrich(input.context, Cases[batch].events)
  /\ pc = "rules" => DOMAIN byRule = {rules[k].id : k \in 1..turn}
  /\ pc = "correlate" => DOMAIN byRule = RuleIds
  /\ pc = "correlate" => \A a \in ToSet(alerts) : a.rule \in Detected
  /\ pc = "assess" => \A a \in ToSet(alerts) : a.rule \in Detected \union {TravelId}

Shape == Loaded /\ Fitting /\ Position /\ Progress

\* Nothing is loaded and nothing run when the pipeline is built.
LEMMA InitShape == Init => Shape
<1> SUFFICES ASSUME Init PROVE Shape
  OBVIOUS
<1>1. /\ input \in Inputs /\ pc = "cases" /\ error = NoError /\ rules = <<>> /\ correlations = <<>>
      /\ batch = 0 /\ events = <<>> /\ turn = 0 /\ byRule = <<>> /\ alerts = <<>> /\ kept = <<>>
  BY DEF Init, Empty
<1>2. /\ IsList(<<>>) /\ ToSet(<<>>) = {} /\ DOMAIN <<>> = {} /\ Len(<<>>) = 0
  BY DEF IsList, ToSet
<1>3. IsDeployment(input)
  BY <1>1, InputsAssumption
<1>4. Loaded
  BY <1>1, <1>2, <1>3 DEF Loaded
<1>5. Fitting
  <2>1. AreEvents(<<>>)
    BY <1>2 DEF AreEvents
  <2>2. AreFirings(<<>>, {}, 0)
    BY DEF AreFirings
  <2>3. AreAlerts(<<>>, Detected \union {TravelId, NotableId}, 0)
    BY <1>2 DEF AreAlerts
  <2>4. <<>> \in [1..0 -> 1..0]
    OBVIOUS
  <2> QED
    BY <1>1, <1>2, <2>1, <2>2, <2>3, <2>4 DEF Fitting
<1>6. Len(Cases) \in Nat
  BY <1>3, ListIsSeq DEF IsDeployment, Cases
<1>7. Position
  BY <1>1, <1>2, <1>6 DEF Position, Stages, Building
<1>8. Progress
  BY <1>1, <1>2 DEF Progress, Building, Empty
<1> QED
  BY <1>4, <1>5, <1>7, <1>8 DEF Shape

\* What is loaded stays while its variables do.
LEMMA LoadedSame ==
  ASSUME Loaded, UNCHANGED <<input, rules, correlations>>
  PROVE  /\ Loaded' /\ RuleIds' = RuleIds /\ CorrelationIds' = CorrelationIds
         /\ Suppressed' = Suppressed /\ Detected' = Detected /\ Cases' = Cases
<1>1. RuleIds' = RuleIds /\ CorrelationIds' = CorrelationIds /\ Suppressed' = Suppressed /\ Cases' = Cases
  BY DEF RuleIds, CorrelationIds, Suppressed, Cases
<1> QED
  BY <1>1 DEF Loaded, Detected

\* A batch still fits while nothing of it changes.
LEMMA FittingSame ==
  ASSUME Loaded, Fitting, UNCHANGED <<input, rules, correlations, events, byRule, alerts, kept>>
  PROVE  Fitting'
<1>1. RuleIds' = RuleIds /\ Detected' = Detected
  BY LoadedSame
<1> QED
  BY <1>1 DEF Fitting

\* The lengths of what is loaded.
LEMMA Lengths ==
  ASSUME Loaded
  PROVE  Len(rules) \in Nat /\ Len(correlations) \in Nat /\ Len(Cases) \in Nat
BY ListIsSeq DEF Loaded, IsDeployment, Cases

\* A step that leaves what is loaded and the batch as they are.
LEMMA FailShape ==
  ASSUME Shape, NEW stage \in Stages, NEW err \in Exceptions, Fail(stage, err)
  PROVE  Shape'
<1>1. Loaded /\ Fitting /\ Position /\ Progress
  BY DEF Shape
<1>2. /\ pc = stage /\ pc' = "failed" /\ error' = <<stage, err>>
      /\ UNCHANGED <<input, rules, correlations, batch, events, turn, byRule, alerts, kept>>
  BY DEF Fail, built
<1>3. Loaded' /\ Cases' = Cases
  BY <1>1, <1>2, LoadedSame
<1>4. Fitting'
  BY <1>1, <1>2, FittingSame
<1>5. Position'
  BY <1>1, <1>2, <1>3 DEF Position, Stages, Building
<1>6. Progress'
  BY <1>2 DEF Progress, Building
<1> QED
  BY <1>3, <1>4, <1>5, <1>6 DEF Shape

\* So are the steps of the pipeline that only move on.
LEMMA MoveShape ==
  ASSUME Shape,
         \/ LoadCases \/ BuildEnricher \/ NoRisk \/ ScoreBatch \/ Finish
  PROVE  Shape'
<1>1. Loaded /\ Fitting /\ Position /\ Progress
  BY DEF Shape
<1>2. /\ \/ pc = "cases" /\ pc' = "load"
         \/ pc = "context" /\ pc' = "import"
         \/ pc = "assess" /\ pc' = "summarise"
         \/ pc = "score" /\ pc' = "start"
         \/ pc = "start" /\ pc' = "done"
      /\ UNCHANGED <<input, rules, correlations, error, batch, events, turn, byRule, alerts, kept>>
  BY DEF LoadCases, BuildEnricher, NoRisk, ScoreBatch, Finish, built
<1>3. Loaded' /\ Cases' = Cases
  BY <1>1, <1>2, LoadedSame
<1>4. Fitting'
  BY <1>1, <1>2, FittingSame
<1>5. Position'
  BY <1>1, <1>2, <1>3 DEF Position, Stages, Building
<1>6. Progress'
  BY <1>1, <1>2, <1>3 DEF Progress, Building
<1> QED
  BY <1>3, <1>4, <1>5, <1>6 DEF Shape

\* Before a batch there are no firings and no alerts.
LEMMA EmptyFits ==
  ASSUME NEW ids, NEW n
  PROVE  /\ DOMAIN <<>> = {} /\ AreFirings(<<>>, {}, n) /\ AreAlerts(<<>>, ids, n)
         /\ Len(<<>>) = 0 /\ <<>> \in [1..0 -> 1..0] /\ ToSet(<<>>) = {}
<1>1. IsList(<<>>) /\ ToSet(<<>>) = {} /\ DOMAIN <<>> = {} /\ Len(<<>>) = 0
  BY DEF IsList, ToSet
<1> QED
  BY <1>1 DEF AreFirings, AreAlerts

\* What the loader accepts splits into rules and correlations of those rules.
LEMMA LoadsRulesOf ==
  ASSUME NEW files, IsList(files), \A file \in ToSet(files) : IsFile(file), LoadsRules(files),
         NEW loaded, loaded = SortedById(files),
         NEW ruled, ruled = Picked(loaded, {k \in DOMAIN loaded : IsRule(loaded[k])}),
         NEW correlated, correlated = Picked(loaded, {k \in DOMAIN loaded : IsCorrelation(loaded[k])})
  PROVE  /\ IsList(ruled) /\ \A r \in ToSet(ruled) : IsRuleRecord(r)
         /\ IsList(correlated)
         /\ \A c \in ToSet(correlated) :
              IsCorrelationRecord(c) /\ ToSet(c.rules) \subseteq {r.id : r \in ToSet(ruled)}
<1>1. /\ Len(files) \in Nat /\ DOMAIN files = 1..Len(files)
      /\ \A k \in DOMAIN files : files[k] \in ToSet(files) /\ LoadsRule(files[k])
      /\ \A x \in ToSet(files) : \E k \in DOMAIN files : x = files[k]
  BY ListIsSeq DEF LoadsRules, ToSet
<1>2. \A k \in DOMAIN files : files[k].id \in Int
  BY <1>1 DEF LoadsRule, IsFile
<1>3. IsList(loaded) /\ ToSet(loaded) = ToSet(files)
  BY <1>2, SortedByIdOf
<1>4. /\ DOMAIN loaded = 1..Len(loaded) /\ \A k \in DOMAIN loaded : loaded[k] \in ToSet(files)
      /\ \A x \in ToSet(files) : \E k \in DOMAIN loaded : x = loaded[k]
  BY <1>3, ListIsSeq DEF ToSet
<1> DEFINE R == {k \in DOMAIN loaded : IsRule(loaded[k])}
           C == {k \in DOMAIN loaded : IsCorrelation(loaded[k])}
<1>5. R \in SUBSET (1..Len(loaded)) /\ C \in SUBSET (1..Len(loaded))
  BY <1>4
<1>6. IsList(ruled) /\ ToSet(ruled) = {loaded[k] : k \in R}
  <2> HIDE DEF R
  <2> QED
    BY <1>3, <1>5, PickedOf DEF R
<1>7. IsList(correlated) /\ ToSet(correlated) = {loaded[k] : k \in C}
  <2> HIDE DEF C
  <2> QED
    BY <1>3, <1>5, PickedOf DEF C
<1>8. ToSet(ruled) = {f \in ToSet(files) : IsRule(f)}
  <2>1. \A x \in ToSet(ruled) : x \in ToSet(files) /\ IsRule(x)
    BY <1>4, <1>6
  <2>2. ASSUME NEW x \in ToSet(files), IsRule(x) PROVE x \in ToSet(ruled)
    <3>1. PICK k \in DOMAIN loaded : x = loaded[k]
      BY <1>4
    <3> QED
      BY <2>2, <3>1, <1>6
  <2> QED
    BY <2>1, <2>2
<1>9. \A r \in ToSet(files) : LoadsRule(r) /\ IsFile(r)
  BY <1>1
<1>10. ASSUME NEW r \in ToSet(ruled) PROVE IsRuleRecord(r)
  <2>1. IsFile(r) /\ LoadsRule(r) /\ r.kind = "rule"
    BY <1>8, <1>9 DEF IsRule
  <2> QED
    BY <2>1 DEF IsFile, LoadsRule, IsRuleRecord
<1>11. ASSUME NEW c \in ToSet(correlated)
       PROVE  IsCorrelationRecord(c) /\ ToSet(c.rules) \subseteq {r.id : r \in ToSet(ruled)}
  <2>1. c \in ToSet(files) /\ c.kind = "correlation"
    BY <1>4, <1>7 DEF IsCorrelation
  <2>2. IsFile(c) /\ LoadsRule(c)
    BY <1>9, <2>1
  <2>3. PICK k \in DOMAIN files : c = files[k]
    BY <1>1, <2>1
  <2>4. ToSet(c.rules) \subseteq {r.id : r \in ToSet(ruled)}
    BY <1>8, <2>1, <2>3 DEF LoadsRules, IsCorrelation
  <2>5. IsCorrelationRecord(c)
    BY <2>1, <2>2 DEF IsFile, LoadsRule, ValidCorrelation, IsCorrelationRecord
  <2> QED
    BY <2>4, <2>5
<1> QED
  BY <1>6, <1>7, <1>10, <1>11

\* Loading.
LEMMA LoadShape ==
  ASSUME Shape, Load
  PROVE  Shape'
<1>1. Loaded /\ Fitting /\ Position /\ Progress
  BY DEF Shape
<1> DEFINE loaded == SortedById(input.files)
<1>2. /\ pc = "load" /\ pc' = "context" /\ LoadsRules(input.files)
      /\ rules' = Picked(loaded, {k \in DOMAIN loaded : IsRule(loaded[k])})
      /\ correlations' = Picked(loaded, {k \in DOMAIN loaded : IsCorrelation(loaded[k])})
      /\ UNCHANGED <<input, error, batch, events, turn, byRule, alerts, kept>>
  BY DEF Load
<1>3. /\ byRule = <<>> /\ alerts = <<>> /\ kept = <<>> /\ events = <<>> /\ turn = 0
      /\ error = NoError
  BY <1>1, <1>2 DEF Progress, Position, Building, Empty
<1>4. IsDeployment(input)
  BY <1>1 DEF Loaded
<1>5. IsList(input.files) /\ \A file \in ToSet(input.files) : IsFile(file)
  BY <1>4 DEF IsDeployment
<1>6. Loaded'
  <2>1. /\ IsList(rules') /\ \A r \in ToSet(rules') : IsRuleRecord(r)
        /\ IsList(correlations')
        /\ \A c \in ToSet(correlations') :
             IsCorrelationRecord(c) /\ ToSet(c.rules) \subseteq {r.id : r \in ToSet(rules')}
    <3> HIDE DEF loaded
    <3> QED
      BY <1>2, <1>5, LoadsRulesOf DEF loaded
  <2> QED
    BY <1>2, <1>4, <2>1 DEF Loaded, RuleIds
<1>7. Cases' = Cases /\ Len(rules') \in Nat /\ Len(correlations') \in Nat
  BY <1>2, <1>6 DEF Loaded, IsList, Cases
<1>8. Fitting'
  BY <1>1, <1>2, <1>3, EmptyFits DEF Fitting
<1>9. Position'
  BY <1>1, <1>2, <1>3, <1>7 DEF Position, Stages, Building
<1>10. Progress'
  BY <1>2, <1>3 DEF Progress, Building, Empty
<1> QED
  BY <1>6, <1>8, <1>9, <1>10 DEF Shape

\* An imported rule is a rule like the others.
LEMMA ImportedRule ==
  ASSUME NEW file, IsUpstream(file)
  PROVE  IsRuleRecord(TranslateRule(file))
<1> DEFINE r == TranslateRule(file)
<1>1. /\ r.id \in Int /\ r.risk = None /\ r.timeframe = file.timeframe /\ DOMAIN r = DOMAIN file
  BY TranslateRuleOf
<1>2. {"id", "tags"} \subseteq DOMAIN file /\ IsTimeframe(file.timeframe)
  BY DEF IsUpstream
<1>3. {"id", "tags"} \subseteq DOMAIN r
  BY <1>1, <1>2
<1> HIDE DEF r
<1> QED
  BY <1>1, <1>2, <1>3, Zenon DEF IsRuleRecord, r

\* The import.
LEMMA ImportShape ==
  ASSUME Shape, Import
  PROVE  Shape'
<1>1. Loaded /\ Fitting /\ Position /\ Progress
  BY DEF Shape
<1> DEFINE upstream == sigma'.loaded
           new == {k \in DOMAIN upstream : upstream[k].id \notin {r.id : r \in ToSet(rules)}}
<1>2. /\ pc = "import" /\ pc' = "start" /\ sigma' = ImportReport(input.sigma)
      /\ rules' = rules \o Picked(upstream, new)
      /\ UNCHANGED <<input, error, correlations, batch, events, turn, byRule, alerts, kept>>
  BY DEF Import
<1>3. /\ byRule = <<>> /\ alerts = <<>> /\ kept = <<>> /\ events = <<>> /\ turn = 0
      /\ error = NoError
  BY <1>1, <1>2 DEF Progress, Position, Building, Empty
<1>4. IsDeployment(input)
  BY <1>1 DEF Loaded
<1>5. IsList(input.sigma) /\ \A file \in ToSet(input.sigma) : IsUpstream(file)
  BY <1>4 DEF IsDeployment
<1>6. IsList(upstream) /\ \A rule \in ToSet(upstream) : IsRuleRecord(rule)
  <2>1. /\ IsList(upstream)
        /\ \A rule \in ToSet(upstream) :
             \E file \in ToSet(input.sigma) : Reasons(file) = {} /\ rule = TranslateRule(file)
    BY <1>2, <1>5, ImportOf
  <2>2. \A file \in ToSet(input.sigma) : IsRuleRecord(TranslateRule(file))
    BY <1>5, ImportedRule
  <2> HIDE DEF upstream
  <2> QED
    BY <2>1, <2>2
<1>7. DOMAIN upstream = 1..Len(upstream) /\ \A k \in DOMAIN upstream : upstream[k] \in ToSet(upstream)
  <2> HIDE DEF upstream
  <2> QED
    BY <1>6, ListIsSeq
<1>8. IsList(Picked(upstream, new)) /\ ToSet(Picked(upstream, new)) = {upstream[k] : k \in new}
  <2>1. new \in SUBSET (1..Len(upstream))
    BY <1>7
  <2> HIDE DEF upstream, new
  <2> QED
    BY <1>6, <2>1, PickedOf
<1>9. IsList(rules') /\ ToSet(rules') = ToSet(rules) \union {upstream[k] : k \in new}
  <2> HIDE DEF upstream, new
  <2> QED
    BY <1>1, <1>2, <1>8, ListConcat DEF Loaded
<1>10. \A r \in ToSet(rules') : IsRuleRecord(r)
  BY <1>1, <1>6, <1>7, <1>9 DEF Loaded
<1>11. Loaded'
  <2>1. RuleIds \subseteq RuleIds'
    BY <1>9 DEF RuleIds
  <2> QED
    BY <1>1, <1>2, <1>9, <1>10, <2>1 DEF Loaded
<1>12. Cases' = Cases /\ Len(rules') \in Nat /\ Len(correlations') \in Nat
  BY <1>2, <1>11 DEF Loaded, IsList, Cases
<1>13. Fitting'
  BY <1>1, <1>2, <1>3, EmptyFits DEF Fitting
<1>14. Position'
  BY <1>1, <1>2, <1>3, <1>12 DEF Position, Stages, Building
<1>15. Progress'
  BY <1>2, <1>3 DEF Progress, Building, Empty
<1> QED
  BY <1>11, <1>13, <1>14, <1>15 DEF Shape

\* A batch begins with the events of its case.
LEMMA StartShape ==
  ASSUME Shape, Start
  PROVE  Shape'
<1>1. Loaded /\ Fitting /\ Position /\ Progress
  BY DEF Shape
<1>2. /\ pc = "start" /\ pc' = "enrich" /\ batch < Len(Cases) /\ batch' = batch + 1
      /\ events' = Cases[batch'].events
      /\ byRule' = <<>> /\ alerts' = <<>> /\ kept' = <<>>
      /\ UNCHANGED <<input, rules, correlations, error, turn>>
  BY DEF Start, built, Empty
<1>3. Loaded' /\ Cases' = Cases
  BY <1>1, <1>2, LoadedSame
<1>4. batch' \in 1..Len(Cases) /\ batch' \in 0..Len(Cases) /\ turn = 0 /\ error = NoError
  BY <1>1, <1>2, Lengths DEF Position, Building
<1>5. AreEvents(events')
  <2>1. IsList(Cases) /\ \A case \in ToSet(Cases) : IsCase(case)
    BY <1>1 DEF Loaded, IsDeployment, Cases
  <2>2. IsCase(Cases[batch'])
    BY <1>4, <2>1, ListIsSeq
  <2> QED
    BY <1>2, <2>2 DEF IsCase, AreEvents
<1>6. Fitting'
  BY <1>2, <1>5, EmptyFits DEF Fitting
<1>7. Position'
  BY <1>1, <1>2, <1>3, <1>4 DEF Position, Stages, Building
<1>8. Progress'
  BY <1>2, <1>3 DEF Progress, Building, Empty
<1> QED
  BY <1>3, <1>6, <1>7, <1>8 DEF Shape

\* Enrichment.
LEMMA EnrichShape ==
  ASSUME Shape, EnrichBatch
  PROVE  Shape'
<1>1. Loaded /\ Fitting /\ Position /\ Progress
  BY DEF Shape
<1>2. /\ pc = "enrich" /\ pc' = "rules" /\ turn' = 0 /\ events' = Enrich(input.context, events)
      /\ UNCHANGED <<input, rules, correlations, error, batch, byRule, alerts, kept>>
  BY DEF EnrichBatch, built
<1>3. Loaded' /\ Cases' = Cases
  BY <1>1, <1>2, LoadedSame
<1>4. /\ byRule = <<>> /\ alerts = <<>> /\ kept = <<>> /\ events = Cases[batch].events
      /\ error = NoError /\ batch \in 0..Len(Cases) /\ batch >= 1
  BY <1>1, <1>2 DEF Progress, Position, Building, Empty
<1>5. AreEvents(events')
  BY <1>1, <1>2, EnrichOf DEF Fitting
<1>6. Fitting'
  BY <1>2, <1>4, <1>5, EmptyFits DEF Fitting
<1>7. Position'
  BY <1>1, <1>2, <1>3, <1>4, Lengths DEF Position, Stages, Building
<1>8. Progress'
  <2>1. DOMAIN <<>> = {rules'[k].id : k \in 1..0}
    OBVIOUS
  <2> QED
    BY <1>2, <1>3, <1>4, <2>1 DEF Progress, Building, Empty
<1> QED
  BY <1>3, <1>6, <1>7, <1>8 DEF Shape

\* What evaluate_rule and Correlator.evaluate raise.
LEMMA EvaluateErr ==
  ASSUME NEW rule, NEW evs
  PROVE  EvaluateRule(rule, evs).err \in {"none"} \union Exceptions
<1>1. ParseCondition(rule.condition) \in {"none"} \union Exceptions
  BY DEF ParseCondition, ParseSearch, Exceptions
<1>2. \A matching : EvaluateAggregation(evs, rule, matching).err \in {"none"} \union Exceptions
  BY DEF EvaluateAggregation, Raised, Fired, Exceptions
<1>3. /\ \A al : Fired(al).err = "none"
      /\ \A err : Raised(err).err = err
  BY DEF Fired, Raised
<1>4. EvaluateRule(rule, evs).err = ParseCondition(rule.condition)
        \/ EvaluateRule(rule, evs).err \in {"none", "TypeError", "ValueError"}
        \/ \E matching : EvaluateRule(rule, evs).err = EvaluateAggregation(evs, rule, matching).err
  BY <1>3, Zenon DEF EvaluateRule
<1> QED
  BY <1>1, <1>2, <1>4 DEF Exceptions

\* A correlation returns its alerts or raises one of the exceptions known.
LEMMA CorrelateErr ==
  ASSUME NEW corr, NEW evs, NEW firings
  PROVE  Correlate(corr, evs, firings).err \in {"none"} \union Exceptions
BY DEF Correlate, Raised, Fired, Exceptions

\* Alerts of some rules are alerts of more, and so are lists of them together.
LEMMA AlertsConcat ==
  ASSUME NEW n, NEW more, NEW ids \in SUBSET more, NEW others \in SUBSET more,
         NEW s, AreAlerts(s, ids, n), NEW t, AreAlerts(t, others, n)
  PROVE  /\ AreAlerts(s, more, n) /\ AreAlerts(t, more, n) /\ AreAlerts(s \o t, more, n)
         /\ ToSet(s \o t) = ToSet(s) \union ToSet(t)
<1>1. \A a : (IsAlert(a, ids, n) \/ IsAlert(a, others, n)) => IsAlert(a, more, n)
  BY DEF IsAlert
<1>2. AreAlerts(s, more, n) /\ AreAlerts(t, more, n)
  BY <1>1 DEF AreAlerts
<1>3. IsList(s \o t) /\ ToSet(s \o t) = ToSet(s) \union ToSet(t)
  BY <1>2, ListConcat DEF AreAlerts
<1> QED
  BY <1>2, <1>3 DEF AreAlerts

\* A rule's alerts are kept under its id.
LEMMA EvaluateShape ==
  ASSUME Shape, Evaluate
  PROVE  Shape'
<1>1. Loaded /\ Fitting /\ Position /\ Progress
  BY DEF Shape
<1> DEFINE rule == rules[turn + 1]
           result == EvaluateRule(rule, events)
<1>2. /\ pc = "rules" /\ pc' = "rules" /\ turn < Len(rules) /\ turn' = turn + 1
      /\ result.err = "none" /\ byRule' = With(byRule, rule.id, result.alerts)
      /\ UNCHANGED <<input, rules, correlations, error, batch, events, alerts, kept>>
  BY DEF Evaluate, built
<1>3. /\ Loaded' /\ Cases' = Cases /\ RuleIds' = RuleIds /\ Detected' = Detected
  BY <1>1, <1>2, LoadedSame
<1>4. /\ alerts = <<>> /\ kept = <<>> /\ turn \in Nat /\ error = NoError
      /\ DOMAIN byRule = {rules[k].id : k \in 1..turn}
      /\ events = Enrich(input.context, Cases[batch].events)
      /\ batch \in 0..Len(Cases) /\ batch >= 1
  BY <1>1, <1>2, Lengths DEF Progress, Position, Building
<1>5. Len(rules) \in Nat /\ Len(correlations) \in Nat /\ turn + 1 \in 1..Len(rules)
  BY <1>1, <1>2, <1>4, Lengths
<1>6. rule \in ToSet(rules) /\ IsRuleRecord(rule)
  BY <1>1, <1>5, ListIsSeq DEF Loaded
<1>7. AreAlerts(result.alerts, {rule.id}, Len(events))
  BY <1>1, <1>2, <1>6, EvaluateType DEF Fitting
<1>8. /\ DOMAIN byRule' = DOMAIN byRule \union {rule.id}
      /\ byRule'[rule.id] = result.alerts
      /\ \A id \in DOMAIN byRule \ {rule.id} : byRule'[id] = byRule[id]
  <2> DEFINE key == rule.id
             value == result.alerts
  <2>1. byRule' = With(byRule, key, value)
    BY <1>2
  <2> HIDE DEF key, value
  <2>2. /\ DOMAIN byRule' = DOMAIN byRule \union {key} /\ byRule'[key] = value
        /\ \A id \in DOMAIN byRule \ {key} : byRule'[id] = byRule[id]
    BY <2>1 DEF With
  <2> QED
    BY <2>2 DEF key, value
<1>9. Fitting'
  <2>1. AreFirings(byRule', DOMAIN byRule', Len(events))
    BY <1>1, <1>7, <1>8 DEF Fitting, AreFirings
  <2>2. rule.id \in RuleIds
    BY <1>6 DEF RuleIds
  <2>3. DOMAIN byRule' \subseteq RuleIds
    BY <1>1, <1>8, <2>2 DEF Fitting
  <2> HIDE DEF rule, result
  <2> QED
    BY <1>1, <1>2, <1>3, <2>1, <2>3 DEF Fitting
<1>10. DOMAIN byRule' = {rules[k].id : k \in 1..(turn + 1)}
  BY <1>4, <1>8
<1>11. Position'
  BY <1>1, <1>2, <1>3, <1>4, <1>5 DEF Position, Stages, Building
<1>12. Progress'
  BY <1>2, <1>3, <1>4, <1>10 DEF Progress, Building
<1> QED
  BY <1>3, <1>9, <1>11, <1>12 DEF Shape

\* The alerts of the rules that are not silenced.
LEMMA CollectShape ==
  ASSUME Shape, Collect
  PROVE  Shape'
<1>1. Loaded /\ Fitting /\ Position /\ Progress
  BY DEF Shape
<1> DEFINE S == DOMAIN byRule \ Suppressed
           ids == IdsInOrder(Suppressed)
           n == Len(ids)
           lists == [k \in DOMAIN ids |-> byRule[ids[k]]]
<1>2. /\ pc = "rules" /\ pc' = "correlate" /\ turn = Len(rules) /\ turn' = 0
      /\ alerts' = FlattenSeq(lists)
      /\ UNCHANGED <<input, rules, correlations, error, batch, events, byRule, kept>>
  BY DEF Collect, built
<1>3. /\ Loaded' /\ Cases' = Cases /\ RuleIds' = RuleIds /\ Detected' = Detected
      /\ Suppressed' = Suppressed
  BY <1>1, <1>2, LoadedSame
<1>4. Len(rules) \in Nat /\ Len(correlations) \in Nat
  BY <1>1, Lengths
<1>5. /\ kept = <<>> /\ error = NoError
      /\ DOMAIN byRule = {rules[k].id : k \in 1..Len(rules)}
      /\ events = Enrich(input.context, Cases[batch].events)
      /\ batch \in 0..Len(Cases) /\ batch >= 1
  BY <1>1, <1>2, <1>4 DEF Progress, Position, Building
<1>6. DOMAIN byRule = RuleIds
  <2>1. DOMAIN rules = 1..Len(rules)
    BY <1>1, ListIsSeq DEF Loaded
  <2> QED
    BY <1>5, <2>1 DEF RuleIds, ToSet
<1>7. IsFiniteSet(RuleIds) /\ RuleIds \in SUBSET Int
  <2>1. IsFiniteSet(ToSet(rules)) /\ \A r \in ToSet(rules) : r.id \in Int
    BY <1>1, ListFinite DEF Loaded, IsRuleRecord
  <2> DEFINE id == [r \in ToSet(rules) |-> r.id]
  <2>2. RuleIds = {id[r] : r \in ToSet(rules)} /\ DOMAIN id = ToSet(rules)
    BY DEF RuleIds
  <2> HIDE DEF id
  <2>3. IsFiniteSet(RuleIds)
    BY <2>1, <2>2, FiniteValues
  <2>4. RuleIds \in SUBSET Int
    BY <2>1 DEF RuleIds
  <2> QED
    BY <2>3, <2>4
<1>8. S \in SUBSET Int /\ IsFiniteSet(S) /\ S \subseteq Detected /\ S \subseteq DOMAIN byRule
  BY <1>6, <1>7, FS_Subset DEF Detected
<1>9. ids \in [1..n -> S] /\ n \in Nat /\ DOMAIN ids = 1..n
  <2> DEFINE all == [k \in DOMAIN rules |-> rules[k].id]
             at == {k \in DOMAIN rules : /\ rules[k].id \notin Suppressed
                                         /\ \A j \in 1..(k - 1) : rules[j].id # rules[k].id}
             m == Cardinality(at)
  <2>1. DOMAIN rules = 1..Len(rules)
    BY <1>1, ListIsSeq DEF Loaded
  <2>2. at \in SUBSET Int /\ IsFiniteSet(at) /\ at \subseteq DOMAIN rules
    <3>1. at \in SUBSET (1..Len(rules))
      BY <2>1
    <3> HIDE DEF at
    <3>2. IsFiniteSet(1..Len(rules)) /\ (1..Len(rules)) \in SUBSET Int
      BY <1>4, UpToFinite
    <3>3. IsFiniteSet(at)
      BY <3>1, <3>2, FS_Subset
    <3>4. at \in SUBSET Int
      BY <3>1, <3>2
    <3> QED
      BY <2>1, <3>1, <3>3, <3>4
  <2>3. \A k \in at : all[k] \in S
    BY <1>5, <2>1
  <2> HIDE DEF at, m, S
  <2>4. Ascending(at) \in [1..m -> at] /\ DOMAIN Ascending(at) = 1..m /\ m \in Nat
    BY <2>2, AscendingOf, FS_CardinalityType DEF m
  <2>5. ids = [k \in 1..m |-> all[Ascending(at)[k]]]
    BY <2>4, Zenon DEF IdsInOrder, Picked, at
  <2> HIDE DEF all, ids
  <2>6. ids \in [1..m -> S]
    BY <2>3, <2>4, <2>5
  <2>7. ids \in Seq(S)
    BY <2>4, <2>6, IsSeq
  <2> QED
    BY <2>7
<1>10. \A id \in S : AreAlerts(byRule[id], {id}, Len(events))
  BY <1>1, <1>8 DEF Fitting, AreFirings
<1>11. IsList(lists) /\ \A t \in ToSet(lists) : \E id \in S : t = byRule[id]
  <2>1. lists \in [1..n -> {byRule[id] : id \in S}]
    <3> HIDE DEF ids, S
    <3> QED
      BY <1>9
  <2>2. lists \in Seq({byRule[id] : id \in S})
    <3> HIDE DEF ids, S, lists
    <3> QED
      BY <1>9, <2>1, IsSeq
  <2> HIDE DEF lists, ids, S
  <2> QED
    BY <2>2, ListIsSeq
<1>12. \A t \in ToSet(lists) : IsList(t)
  BY <1>10, <1>11 DEF AreAlerts
<1>13. IsList(alerts') /\ ToSet(alerts') = UNION {ToSet(t) : t \in ToSet(lists)}
  <2> HIDE DEF lists
  <2> QED
    BY <1>2, <1>11, <1>12, ListFlatten
<1>14. AreAlerts(alerts', Detected, Len(events))
  <2> SUFFICES ASSUME NEW a \in ToSet(alerts') PROVE IsAlert(a, Detected, Len(events))
    BY <1>13 DEF AreAlerts
  <2>1. PICK t \in ToSet(lists) : a \in ToSet(t)
    <3> HIDE DEF lists
    <3> QED
      BY <1>13
  <2>2. PICK id \in S : t = byRule[id]
    BY <1>11
  <2>3. IsAlert(a, {id}, Len(events))
    BY <1>10, <2>1, <2>2 DEF AreAlerts
  <2> QED
    BY <1>8, <2>2, <2>3 DEF IsAlert
<1>15. AreAlerts(alerts', Detected \union {TravelId, NotableId}, Len(events))
  BY <1>14 DEF AreAlerts, IsAlert
<1> HIDE DEF S, ids, lists
<1>16. Fitting'
  <2>1. Len(<<>>) = 0 /\ <<>> \in [1..0 -> 1..Len(alerts')]
    OBVIOUS
  <2> QED
    BY <1>1, <1>2, <1>3, <1>5, <1>15, <2>1 DEF Fitting
<1>17. Position'
  BY <1>1, <1>2, <1>3, <1>4, <1>5 DEF Position, Stages, Building
<1>18. Progress'
  <2>1. \A a \in ToSet(alerts') : a.rule \in Detected
    BY <1>14 DEF AreAlerts, IsAlert
  <2> QED
    BY <1>2, <1>3, <1>5, <1>6, <2>1 DEF Progress, Building
<1> QED
  BY <1>3, <1>16, <1>17, <1>18 DEF Shape

\* A correlation's alerts come after the others.
LEMMA CorrelateShape ==
  ASSUME Shape, CorrelateNext
  PROVE  Shape'
<1>1. Loaded /\ Fitting /\ Position /\ Progress
  BY DEF Shape
<1> DEFINE corr == correlations[turn + 1]
           result == Correlate(corr, events, byRule)
<1>2. /\ pc = "correlate" /\ pc' = "correlate" /\ turn < Len(correlations) /\ turn' = turn + 1
      /\ result.err = "none" /\ alerts' = alerts \o result.alerts
      /\ UNCHANGED <<input, rules, correlations, error, batch, events, byRule, kept>>
  BY DEF CorrelateNext, built
<1>3. /\ Loaded' /\ Cases' = Cases /\ RuleIds' = RuleIds /\ Detected' = Detected
  BY <1>1, <1>2, LoadedSame
<1>4. /\ kept = <<>> /\ turn \in Nat /\ error = NoError /\ DOMAIN byRule = RuleIds
      /\ events = Enrich(input.context, Cases[batch].events)
      /\ batch \in 0..Len(Cases) /\ batch >= 1
      /\ \A a \in ToSet(alerts) : a.rule \in Detected
  BY <1>1, <1>2, Lengths DEF Progress, Position, Building
<1>5. Len(rules) \in Nat /\ Len(correlations) \in Nat /\ turn + 1 \in 1..Len(correlations)
  BY <1>1, <1>2, <1>4, Lengths
<1>6. corr \in ToSet(correlations) /\ IsCorrelationRecord(corr) /\ ToSet(corr.rules) \subseteq RuleIds
  BY <1>1, <1>5, ListIsSeq DEF Loaded
<1>7. AreFirings(byRule, ToSet(corr.rules), Len(events))
  BY <1>1, <1>4, <1>6 DEF Fitting, AreFirings
<1>8. AreAlerts(result.alerts, {corr.id}, Len(events))
  BY <1>2, <1>6, <1>7, CorrelateType
<1>9. corr.id \in Detected
  BY <1>6 DEF Detected, CorrelationIds
<1> DEFINE new == result.alerts
<1>10. AreAlerts(alerts, Detected, Len(events))
  BY <1>1, <1>4 DEF Fitting, AreAlerts, IsAlert
<1> HIDE DEF corr, result, new
<1>11. /\ AreAlerts(alerts', Detected, Len(events))
       /\ AreAlerts(alerts', Detected \union {TravelId, NotableId}, Len(events))
  <2>1. AreAlerts(new, {corr.id}, Len(events)) /\ alerts' = alerts \o new
    BY <1>2, <1>8 DEF new
  <2>2. {corr.id} \in SUBSET Detected /\ Detected \in SUBSET Detected
    BY <1>9
  <2>3. AreAlerts(alerts', Detected, Len(events))
    BY <1>10, <2>1, <2>2, AlertsConcat
  <2> QED
    BY <2>3 DEF AreAlerts, IsAlert
<1>12. Fitting'
  <2>1. Len(<<>>) = 0 /\ <<>> \in [1..0 -> 1..Len(alerts')]
    OBVIOUS
  <2> QED
    BY <1>1, <1>2, <1>3, <1>4, <1>11, <2>1 DEF Fitting
<1>13. Position'
  BY <1>1, <1>2, <1>3, <1>4, <1>5 DEF Position, Stages, Building
<1>14. Progress'
  <2>1. \A a \in ToSet(alerts') : a.rule \in Detected
    BY <1>11 DEF AreAlerts, IsAlert
  <2> QED
    BY <1>2, <1>3, <1>4, <2>1 DEF Progress, Building
<1> QED
  BY <1>3, <1>12, <1>13, <1>14 DEF Shape

\* Travel alerts come after them.
LEMMA BehaveShape ==
  ASSUME Shape, Behave
  PROVE  Shape' /\ ToSet(alerts') = ToSet(alerts) \union ToSet(Travel(events))
<1>1. Loaded /\ Fitting /\ Position /\ Progress
  BY DEF Shape
<1>2. /\ pc = "correlate" /\ pc' = "assess" /\ turn' = 0 /\ alerts' = alerts \o Travel(events)
      /\ UNCHANGED <<input, rules, correlations, error, batch, events, byRule, kept>>
  BY DEF Behave, built
<1>3. /\ Loaded' /\ Cases' = Cases /\ RuleIds' = RuleIds /\ Detected' = Detected
  BY <1>1, <1>2, LoadedSame
<1>4. /\ kept = <<>> /\ error = NoError
      /\ events = Enrich(input.context, Cases[batch].events)
      /\ batch \in 0..Len(Cases) /\ batch >= 1
      /\ \A a \in ToSet(alerts) : a.rule \in Detected
  BY <1>1, <1>2, Lengths DEF Progress, Position, Building
<1>5. Len(rules) \in Nat /\ Len(correlations) \in Nat
  BY <1>1, Lengths
<1>6. AreAlerts(Travel(events), {TravelId}, Len(events))
  BY <1>1, TravelOf DEF Fitting
<1>7. AreAlerts(alerts, Detected, Len(events))
  BY <1>1, <1>4 DEF Fitting, AreAlerts, IsAlert
<1>8. /\ AreAlerts(alerts', Detected \union {TravelId}, Len(events))
      /\ ToSet(alerts') = ToSet(alerts) \union ToSet(Travel(events))
  <2> DEFINE ids == Detected \union {TravelId}
             new == Travel(events)
  <2>1. /\ Detected \in SUBSET ids /\ {TravelId} \in SUBSET ids /\ alerts' = alerts \o new
        /\ AreAlerts(new, {TravelId}, Len(events))
    BY <1>2, <1>6
  <2> HIDE DEF ids, new
  <2>2. AreAlerts(alerts \o new, ids, Len(events))
    BY <1>7, <2>1, AlertsConcat
  <2>3. ToSet(alerts \o new) = ToSet(alerts) \union ToSet(new)
    BY <1>7, <2>1, ListConcat DEF AreAlerts
  <2> QED
    BY <2>1, <2>2, <2>3 DEF ids, new
<1>9. AreAlerts(alerts', Detected \union {TravelId, NotableId}, Len(events))
  BY <1>8 DEF AreAlerts, IsAlert
<1>10. Fitting'
  <2>1. Len(<<>>) = 0 /\ <<>> \in [1..0 -> 1..Len(alerts')]
    OBVIOUS
  <2> QED
    BY <1>1, <1>2, <1>3, <1>4, <1>9, <2>1 DEF Fitting
<1>11. Position'
  BY <1>1, <1>2, <1>3, <1>4, <1>5 DEF Position, Stages, Building
<1>12. Progress'
  <2>1. \A a \in ToSet(alerts') : a.rule \in Detected \union {TravelId}
    BY <1>8 DEF AreAlerts, IsAlert
  <2> QED
    BY <1>2, <1>3, <1>4, <2>1 DEF Progress, Building
<1> QED
  BY <1>3, <1>8, <1>10, <1>11, <1>12 DEF Shape

\* The configuration of the risk engine.
LEMMA RiskOfIs ==
  ASSUME Loaded, ~NoRiskEngine
  PROVE  IsRisk(RiskOf) /\ RiskOf.overrides = Overrides(rules)
<1>1. input.risk.threshold \in Int /\ input.risk.window \in Nat
  BY DEF Loaded, IsDeployment, NoRiskEngine
<1>2. AreScores(Overrides(rules))
  BY OverridesOf DEF Loaded
<1>3. /\ RiskOf.threshold = input.risk.threshold /\ RiskOf.window = input.risk.window
      /\ RiskOf.overrides = Overrides(rules)
  BY DEF RiskOf
<1> QED
  BY <1>1, <1>2, <1>3 DEF IsRisk

\* Notables come last.
LEMMA AssessShape ==
  ASSUME Shape, Assess
  PROVE  Shape' /\ alerts' = alerts \o Added(events, alerts, RiskOf, Now)
<1>1. Loaded /\ Fitting /\ Position /\ Progress
  BY DEF Shape
<1> DEFINE new == Added(events, alerts, RiskOf, Now)
<1>2. /\ pc = "assess" /\ pc' = "summarise" /\ ~NoRiskEngine
      /\ UNCHANGED <<input, rules, correlations, error, batch, events, turn, byRule, kept>>
  BY DEF Assess, built
<1>3. alerts' = alerts \o new
  BY Zenon DEF Assess, Added, OverOf, NotableOf, Reached
<1>4. /\ Loaded' /\ Cases' = Cases /\ RuleIds' = RuleIds /\ Detected' = Detected
  BY <1>1, <1>2, LoadedSame
<1>5. /\ kept = <<>> /\ error = NoError /\ turn = 0
      /\ batch \in 0..Len(Cases) /\ batch >= 1
  BY <1>1, <1>2, Lengths DEF Progress, Position, Building
<1>6. Len(rules) \in Nat /\ Len(correlations) \in Nat
  BY <1>1, Lengths
<1>7. AreAlerts(new, {NotableId}, Len(events))
  BY <1>1, <1>2, RiskOfIs, NowAssumption, NotablesOf DEF Fitting
<1>8. AreAlerts(alerts', Detected \union {TravelId, NotableId}, Len(events))
  <2> DEFINE ids == Detected \union {TravelId, NotableId}
  <2>1. ids \in SUBSET ids /\ {NotableId} \in SUBSET ids /\ AreAlerts(alerts, ids, Len(events))
    BY <1>1 DEF Fitting
  <2> HIDE DEF ids, new
  <2>2. AreAlerts(alerts \o new, ids, Len(events))
    BY <1>7, <2>1, AlertsConcat
  <2> QED
    BY <1>3, <2>2 DEF ids
<1> HIDE DEF new
<1>9. Fitting'
  <2>1. Len(<<>>) = 0 /\ <<>> \in [1..0 -> 1..Len(alerts')]
    OBVIOUS
  <2> QED
    BY <1>1, <1>2, <1>4, <1>5, <1>8, <2>1 DEF Fitting
<1>10. Position'
  BY <1>1, <1>2, <1>4, <1>5, <1>6 DEF Position, Stages, Building
<1>11. Progress'
  BY <1>2, <1>5 DEF Progress, Building
<1> QED
  BY <1>3, <1>4, <1>9, <1>10, <1>11 DEF Shape, new

\* What alerts have in common that differ in their enrichment.
Alike(a, b) ==
  b.rule = a.rule /\ b.level = a.level /\ b.events = a.events /\ b.group = a.group /\ b.time = a.time

\* enrich_alert only adds to an alert.
LEMMA SummaryOf ==
  ASSUME NEW a, NEW ids, NEW n, IsAlert(a, ids, n), NEW said
  PROVE  IsAlert(With(a, "enrichment", said), ids, n) /\ Alike(a, With(a, "enrichment", said))
<1> DEFINE b == With(a, "enrichment", said)
<1>1. DOMAIN b = DOMAIN a \union {"enrichment"}
  BY DEF With
<1>2. \A f \in AlertFields : f \in DOMAIN b /\ b[f] = a[f]
  BY DEF IsAlert, AlertFields, With
<1> HIDE DEF b
<1>3. /\ b.rule = a.rule /\ b.level = a.level /\ b.events = a.events
      /\ b.group = a.group /\ b.time = a.time
  BY <1>2 DEF AlertFields
<1> QED
  BY <1>2, <1>3 DEF IsAlert, Alike, b

\* The alerts are summarised one by one.
LEMMA SummariseShape ==
  ASSUME Shape, Summarise
  PROVE  /\ Shape' /\ Len(alerts') = Len(alerts)
         /\ \A a \in 1..Len(alerts) : Alike(alerts[a], alerts'[a])
<1>1. Loaded /\ Fitting /\ Position /\ Progress
  BY DEF Shape
<1> DEFINE n == Len(alerts)
           ids == Detected \union {TravelId, NotableId}
           Said(a) == With(alerts[a], "enrichment", Summary(events, alerts[a]))
<1>2. /\ pc = "summarise" /\ pc' \in {"score", "dedup"}
      /\ alerts' = [a \in DOMAIN alerts |-> Said(a)]
      /\ UNCHANGED <<input, rules, correlations, error, batch, events, turn, byRule, kept>>
  BY DEF Summarise, built
<1>3. /\ Loaded' /\ Cases' = Cases /\ RuleIds' = RuleIds /\ Detected' = Detected
  BY <1>1, <1>2, LoadedSame
<1>4. /\ kept = <<>> /\ error = NoError /\ turn = 0
      /\ batch \in 0..Len(Cases) /\ batch >= 1
  BY <1>1, <1>2, Lengths DEF Progress, Position, Building
<1>5. Len(rules) \in Nat /\ Len(correlations) \in Nat
  BY <1>1, Lengths
<1>6. /\ n \in Nat /\ DOMAIN alerts = 1..n /\ \A a \in 1..n : IsAlert(alerts[a], ids, Len(events))
  BY <1>1, ListIsSeq DEF Fitting, AreAlerts
<1>7. \A a \in 1..n : IsAlert(Said(a), ids, Len(events)) /\ Alike(alerts[a], Said(a))
  <2> HIDE DEF n, ids
  <2> QED
    BY <1>6, SummaryOf
<1> HIDE DEF Said
<1>8. alerts' \in Seq({Said(a) : a \in 1..n}) /\ Len(alerts') = n
  <2>1. alerts' \in [1..n -> {Said(a) : a \in 1..n}]
    BY <1>2, <1>6
  <2> HIDE DEF n
  <2> QED
    BY <1>6, <2>1, IsSeq
<1>9. AreAlerts(alerts', ids, Len(events))
  <2> HIDE DEF n, ids
  <2>1. IsList(alerts') /\ \A x \in ToSet(alerts') : x \in {Said(a) : a \in 1..n}
    BY <1>8, ListIsSeq
  <2>2. \A x \in ToSet(alerts') : IsAlert(x, ids, Len(events))
    BY <1>7, <2>1
  <2> QED
    BY <2>1, <2>2 DEF AreAlerts
<1>10. \A a \in 1..n : Alike(alerts[a], alerts'[a])
  BY <1>2, <1>6, <1>7
<1>11. Fitting'
  <2>1. Len(<<>>) = 0 /\ <<>> \in [1..0 -> 1..Len(alerts')]
    OBVIOUS
  <2> QED
    BY <1>1, <1>2, <1>3, <1>4, <1>9, <2>1 DEF Fitting
<1>12. Position'
  BY <1>1, <1>2, <1>3, <1>4, <1>5 DEF Position, Stages, Building
<1>13. Progress'
  BY <1>2, <1>4 DEF Progress, Building
<1> QED
  BY <1>3, <1>8, <1>10, <1>11, <1>12, <1>13 DEF Shape

\* What is picked from a list without repetition repeats nothing.
LEMMA PickedOnce ==
  ASSUME NEW s, IsList(s), \A j, k \in 1..Len(s) : s[j] = s[k] => j = k,
         NEW at \in SUBSET (1..Len(s))
  PROVE  \A j, k \in 1..Cardinality(at) : Picked(s, at)[j] = Picked(s, at)[k] => j = k
<1>1. Len(s) \in Nat /\ IsFiniteSet(at) /\ at \in SUBSET Int
  BY UpToFinite, FS_Subset DEF IsList
<1>2. /\ DOMAIN Ascending(at) = 1..Cardinality(at) /\ Cardinality(at) \in Nat
      /\ \A k \in 1..Cardinality(at) : Ascending(at)[k] \in at
      /\ \A j, k \in 1..Cardinality(at) : j < k => Ascending(at)[j] < Ascending(at)[k]
  BY <1>1, AscendingOf, FS_CardinalityType
<1>3. \A k \in 1..Cardinality(at) : Picked(s, at)[k] = s[Ascending(at)[k]]
  BY <1>2 DEF Picked
<1> SUFFICES ASSUME NEW j \in 1..Cardinality(at), NEW k \in 1..Cardinality(at), j # k
             PROVE  Picked(s, at)[j] # Picked(s, at)[k]
  OBVIOUS
<1>4. j < k \/ k < j
  BY <1>2
<1> DEFINE x == Ascending(at)[j]
           y == Ascending(at)[k]
<1>5. x \in at /\ y \in at /\ (x < y \/ y < x)
  BY <1>2, <1>4
<1> HIDE DEF x, y
<1>6. x \in 1..Len(s) /\ y \in 1..Len(s) /\ x # y
  BY <1>1, <1>5
<1> QED
  BY <1>3, <1>6 DEF x, y

\* The deduplicator keeps some of the alerts, none twice, and of every key at least one.
LEMMA FilteredOf ==
  ASSUME Shape
  PROVE  /\ IsList(Filtered) /\ ToSet(Filtered) \subseteq 1..Len(alerts)
         /\ \A j, k \in 1..Len(Filtered) : Filtered[j] = Filtered[k] => j = k
         /\ \A a \in 1..Len(alerts) :
              \E b \in ToSet(Filtered) : DedupKey(alerts[b]) = DedupKey(alerts[a])
<1> DEFINE n == Len(alerts)
           TimeOf(a) == IF alerts[a].time = None THEN 0 ELSE alerts[a].time
           before == [a \in DOMAIN alerts |-> {b \in DOMAIN alerts :
                        TimeOf(b) < TimeOf(a) \/ (TimeOf(b) = TimeOf(a) /\ b < a)}]
           order == Sorted(DOMAIN alerts, before)
           Earlier(k) == {j \in 1..(k - 1) : /\ DedupKey(alerts[order[j]]) = DedupKey(alerts[order[k]])
                                             /\ alerts[order[j]].time # None}
           Repeats(k) == /\ alerts[order[k]].time # None
                         /\ \E j \in Earlier(k) :
                              alerts[order[k]].time - alerts[order[j]].time <= DefaultWindow
           at == {k \in DOMAIN order : ~Repeats(k)}
<1>1. Filtered = Picked(order, at)
  BY Zenon DEF Filtered
<1>2. \A k \in DOMAIN order : Earlier(k) = {} => k \in at
  OBVIOUS
<1>3. \A k \in DOMAIN order :
        (\A j \in 1..(k - 1) : DedupKey(alerts[order[j]]) # DedupKey(alerts[order[k]])) => k \in at
  BY <1>2
<1>4. at \in SUBSET (DOMAIN order)
  OBVIOUS
<1>5. /\ n \in Nat /\ DOMAIN alerts = 1..n
      /\ \A a \in 1..n : alerts[a].time \in Int \union {None}
  BY ListIsSeq DEF Shape, Fitting, AreAlerts, IsAlert
<1> HIDE DEF at
<1>6. /\ order \in [1..n -> 1..n] /\ order \in Seq(1..n) /\ Len(order) = n
      /\ \A j, k \in 1..n : order[j] = order[k] => j = k
      /\ ToSet(order) = 1..n
  <2> DEFINE S == 1..n
             value == [a \in S |-> TimeOf(a)]
  <2>1. S \in SUBSET Int /\ \A x \in S : value[x] \in Int
    BY <1>5
  <2>2. ByValue(S, value, before)
    BY <1>5 DEF ByValue
  <2>3. IsFiniteSet(S) /\ Cardinality(S) = n
    BY <1>5, UpToFinite
  <2>4. DOMAIN alerts = S
    BY <1>5
  <2> HIDE DEF S, value, before
  <2>5. TotalOrder(S, before)
    BY <2>1, <2>2, ByValueOrder
  <2>6. /\ order \in [1..Cardinality(S) -> S] /\ order \in Seq(S) /\ Len(order) = Cardinality(S)
        /\ ToSet(order) = S
        /\ \A j, k \in 1..Cardinality(S) : j < k => order[j] \in before[order[k]]
    BY <2>3, <2>4, <2>5, SortedPlaces
  <2>7. \A x \in S : x \notin before[x]
    BY <2>5 DEF TotalOrder
  <2> HIDE DEF order
  <2>8. ASSUME NEW j \in 1..n, NEW k \in 1..n, order[j] = order[k], j # k PROVE FALSE
    <3>1. order[j] \in S /\ order[k] \in S
      BY <2>3, <2>6
    <3>2. j < k \/ k < j
      BY <1>5, <2>8
    <3> QED
      BY <2>3, <2>6, <2>7, <2>8, <3>1, <3>2
  <2> QED
    BY <2>3, <2>6, <2>8 DEF S
<1> HIDE DEF order, n, Earlier, Repeats
<1>7. IsList(order) /\ DOMAIN order = 1..n /\ at \in SUBSET (1..Len(order))
  BY <1>4, <1>6, ListIsSeq
<1>8. /\ IsList(Picked(order, at)) /\ Len(Picked(order, at)) = Cardinality(at)
      /\ ToSet(Picked(order, at)) = {order[k] : k \in at}
  BY <1>7, PickedOf
<1>9. \A j, k \in 1..Cardinality(at) : Picked(order, at)[j] = Picked(order, at)[k] => j = k
  BY <1>6, <1>7, PickedOnce
<1>10. ToSet(Picked(order, at)) \subseteq 1..n
  BY <1>6, <1>7, <1>8
<1>11. ASSUME NEW a \in 1..n
       PROVE  \E b \in ToSet(Picked(order, at)) : DedupKey(alerts[b]) = DedupKey(alerts[a])
  <2> DEFINE P == {k \in 1..n : DedupKey(alerts[order[k]]) = DedupKey(alerts[a])}
  <2>1. P # {} /\ P \in SUBSET Int /\ P \in SUBSET (1..n)
    <3>1. PICK k \in 1..n : order[k] = a
      BY <1>6, <1>7 DEF ToSet
    <3> QED
      BY <3>1
  <2>2. PICK k \in P : \A j \in P : k <= j
    <3>1. IsFiniteSet(P)
      BY <1>5, <2>1, UpToFinite, FS_Subset
    <3> HIDE DEF P
    <3> QED
      BY <2>1, <3>1, FiniteExtremes
  <2>3. k \in 1..n /\ DedupKey(alerts[order[k]]) = DedupKey(alerts[a])
    OBVIOUS
  <2>4. \A j \in 1..(k - 1) : DedupKey(alerts[order[j]]) # DedupKey(alerts[order[k]])
    BY <1>5, <2>2, <2>3
  <2>5. k \in at
    BY <1>3, <1>7, <2>3, <2>4
  <2> QED
    BY <1>8, <2>3, <2>5
<1> QED
  BY <1>1, <1>8, <1>9, <1>10, <1>11 DEF n

\* So every batch ends with a list of its alerts.
LEMMA DeduplicateShape ==
  ASSUME Shape, Deduplicate
  PROVE  Shape'
<1>1. Loaded /\ Fitting /\ Position /\ Progress
  BY DEF Shape
<1>2. /\ pc = "dedup" /\ pc' = "start" /\ kept' = Filtered
      /\ UNCHANGED <<input, rules, correlations, error, batch, events, turn, byRule, alerts>>
  BY DEF Deduplicate, built
<1>3. /\ Loaded' /\ Cases' = Cases /\ RuleIds' = RuleIds /\ Detected' = Detected
  BY <1>1, <1>2, LoadedSame
<1>4. /\ error = NoError /\ turn = 0 /\ batch \in 0..Len(Cases) /\ batch >= 1
  BY <1>1, <1>2, Lengths DEF Progress, Position, Building
<1>5. Len(rules) \in Nat /\ Len(correlations) \in Nat
  BY <1>1, Lengths
<1> DEFINE K == Filtered
<1>6. /\ IsList(K) /\ ToSet(K) \subseteq 1..Len(alerts)
      /\ \A j, k \in 1..Len(K) : K[j] = K[k] => j = k
  BY FilteredOf
<1> HIDE DEF K
<1>7. Len(K) \in Nat /\ K \in [1..Len(K) -> 1..Len(alerts)]
  <2>1. K \in Seq(ToSet(K)) /\ Len(K) \in Nat
    BY <1>6, ListIsSeq
  <2> QED
    BY <1>6, <2>1
<1>8. kept' = K
  BY <1>2 DEF K
<1>9. Fitting'
  BY <1>1, <1>2, <1>3, <1>6, <1>7, <1>8 DEF Fitting
<1>10. Position'
  BY <1>1, <1>2, <1>3, <1>4, <1>5 DEF Position, Stages, Building
<1>11. Progress'
  BY <1>2 DEF Progress, Building
<1> QED
  BY <1>3, <1>9, <1>10, <1>11 DEF Shape

\* Every step of the pipeline keeps the shape.
LEMMA StepShape == Shape /\ [Next]_vars => Shape'
<1> SUFFICES ASSUME Shape, [Next]_vars PROVE Shape'
  OBVIOUS
<1>1. CASE UNCHANGED vars
  <2>1. UNCHANGED <<input, pc, error, rules, correlations, batch, events, turn, byRule, alerts, kept>>
    BY <1>1 DEF vars
  <2>2. Loaded /\ Fitting /\ Position /\ Progress
    BY DEF Shape
  <2>3. /\ Loaded' /\ Fitting' /\ RuleIds' = RuleIds /\ Detected' = Detected /\ Cases' = Cases
    BY <2>1, <2>2, LoadedSame, FittingSame
  <2>4. Position'
    BY <2>1, <2>2, <2>3 DEF Position
  <2>5. Progress'
    BY <2>1, <2>2, <2>3 DEF Progress
  <2> QED
    BY <2>3, <2>4, <2>5 DEF Shape
<1>2. CASE LoadCases \/ BuildEnricher \/ NoRisk \/ ScoreBatch \/ Finish
  BY <1>2, MoveShape
<1>3. CASE LoadCasesFails \/ LoadFails \/ BuildEnricherFails \/ ImportFails
  <2>1. \E stage \in Stages, err \in Exceptions : Fail(stage, err)
    BY <1>3 DEF LoadCasesFails, LoadFails, BuildEnricherFails, ImportFails, Stages, Exceptions
  <2> QED
    BY <2>1, FailShape
<1>4. CASE EvaluateFails
  <2> DEFINE err == EvaluateRule(rules[turn + 1], events).err
  <2>1. err # "none" /\ Fail("rules", err)
    BY <1>4 DEF EvaluateFails
  <2>2. err \in {"none"} \union Exceptions
    BY EvaluateErr
  <2> HIDE DEF err
  <2>3. err \in Exceptions /\ "rules" \in Stages
    BY <2>1, <2>2 DEF Stages
  <2> QED
    BY <2>1, <2>3, FailShape
<1>5. CASE CorrelateFails
  <2> DEFINE err == Correlate(correlations[turn + 1], events, byRule).err
  <2>1. err # "none" /\ Fail("correlate", err)
    BY <1>5 DEF CorrelateFails
  <2>2. err \in {"none"} \union Exceptions
    BY CorrelateErr
  <2> HIDE DEF err
  <2>3. err \in Exceptions /\ "correlate" \in Stages
    BY <2>1, <2>2 DEF Stages
  <2> QED
    BY <2>1, <2>3, FailShape
<1>6. CASE BehaveFails \/ AssessFails \/ DeduplicateFails
  <2>1. \E stage \in Stages, err \in Exceptions : Fail(stage, err)
    BY <1>6 DEF BehaveFails, AssessFails, DeduplicateFails, Stages, Exceptions
  <2> QED
    BY <2>1, FailShape
<1>7. CASE Load
  BY <1>7, LoadShape
<1>8. CASE Import
  BY <1>8, ImportShape
<1>9. CASE Start
  BY <1>9, StartShape
<1>10. CASE EnrichBatch
  BY <1>10, EnrichShape
<1>11. CASE Evaluate
  BY <1>11, EvaluateShape
<1>12. CASE Collect
  BY <1>12, CollectShape
<1>13. CASE CorrelateNext
  BY <1>13, CorrelateShape
<1>14. CASE Behave
  BY <1>14, BehaveShape
<1>15. CASE Assess
  BY <1>15, AssessShape
<1>16. CASE Summarise
  BY <1>16, SummariseShape
<1>17. CASE Deduplicate
  BY <1>17, DeduplicateShape
<1> QED
  BY <1>1, <1>2, <1>3, <1>4, <1>5, <1>6, <1>7, <1>8, <1>9, <1>10, <1>11, <1>12, <1>13, <1>14,
     <1>15, <1>16, <1>17 DEF Next, Build, Run

\* The shape is invariant.
LEMMA ShapeInvariant == Spec => []Shape
BY InitShape, StepShape, PTL DEF Spec

\* No more is kept than there is.
LEMMA KeptFew ==
  ASSUME Fitting
  PROVE  Len(kept) <= Len(alerts)
<1>1. Len(kept) \in Nat /\ Len(alerts) \in Nat
  BY DEF Fitting, AreAlerts, IsList
<1>2. kept \in Injection(1..Len(kept), 1..Len(alerts))
  BY DEF Fitting, Injection, IsInjective
<1>3. /\ IsFiniteSet(1..Len(kept)) /\ IsFiniteSet(1..Len(alerts))
      /\ Cardinality(1..Len(kept)) = Len(kept) /\ Cardinality(1..Len(alerts)) = Len(alerts)
  BY <1>1, UpToFinite
<1> QED
  BY <1>2, <1>3, FS_Injection

\* Of every stage the state is what the next one reads: the firings are of rules
\* that were loaded, every alert's evidence is among the events of the batch, and
\* no more alerts are kept than there are (pipeline.py 86-180).
THEOREM TypeCorrect == Spec => []TypeOK
<1>1. Shape => TypeOK
  <2> SUFFICES ASSUME Shape PROVE TypeOK
    OBVIOUS
  <2>1. Loaded /\ Fitting /\ Position
    BY DEF Shape
  <2>2. RuleIds = {rules[k].id : k \in DOMAIN rules}
    BY DEF RuleIds, ToSet
  <2>3. Len(kept) <= Len(alerts)
    BY <2>1, KeptFew
  <2>4. \A a \in DOMAIN alerts : ToSet(alerts[a].events) \subseteq DOMAIN events
    <3>1. DOMAIN events = 1..Len(events)
      BY <2>1, ListIsSeq DEF Fitting, AreEvents
    <3>2. \A a \in DOMAIN alerts : alerts[a] \in ToSet(alerts)
      BY DEF ToSet
    <3> QED
      BY <2>1, <3>1, <3>2 DEF Fitting, AreAlerts, IsAlert
  <2> QED
    BY <2>1, <2>2, <2>3, <2>4 DEF TypeOK, Fitting, Position
<1> QED
  BY <1>1, ShapeInvariant, PTL

-----------------------------------------------------------------------------
(* What the analysis of upstream rules lets pass. *)

\* FirstIn returns an element of the sequence, if not the default.
LEMMA FirstInOf ==
  ASSUME NEW seq, DOMAIN seq \in SUBSET Nat, NEW S, NEW default, FirstIn(seq, S, default) # default
  PROVE  \E k \in DOMAIN seq : seq[k] = FirstIn(seq, S, default)
<1> DEFINE hits == {k \in DOMAIN seq : seq[k] \in S}
<1>1. hits # {} /\ FirstIn(seq, S, default) = seq[Min(hits)]
  BY DEF FirstIn
<1>2. hits \in SUBSET DOMAIN seq /\ hits \in SUBSET Int /\ \A k \in hits : 0 <= k
  OBVIOUS
<1> HIDE DEF hits
<1>3. Min(hits) \in hits
  BY <1>1, <1>2, SmallestElement
<1> QED
  BY <1>1, <1>2, <1>3

\* The entries of a translated map have the modifiers of the entries of the map.
LEMMA TranslateMapOf ==
  ASSUME NEW entries, IsList(entries),
         \A entry \in ToSet(entries) : {"field", "modifier", "values"} \subseteq DOMAIN entry
  PROVE  /\ DOMAIN TranslateMap(entries) \in SUBSET Nat
         /\ \A i \in DOMAIN TranslateMap(entries) :
              \E entry \in ToSet(entries) : TranslateMap(entries)[i].modifier = entry.modifier
<1> DEFINE key(k) == <<Mapped(FieldMap, entries[k].field), entries[k].modifier>>
           S == {k \in DOMAIN entries : \A j \in 1..(k - 1) : key(j) # key(k)}
           same(k) == {j \in DOMAIN entries : key(j) = key(k)}
           last(k) == Max(same(k))
           firsts == Ascending(S)
<1>1. /\ Len(entries) \in Nat /\ DOMAIN entries = 1..Len(entries)
      /\ \A k \in 1..Len(entries) : entries[k] \in ToSet(entries)
  BY ListIsSeq
<1>2. S \in SUBSET (1..Len(entries)) /\ S \in SUBSET Int /\ IsFiniteSet(S)
  <2>1. S \in SUBSET (1..Len(entries))
    BY <1>1
  <2>2. IsFiniteSet(1..Len(entries))
    BY <1>1, UpToFinite
  <2> HIDE DEF S
  <2>3. IsFiniteSet(S)
    BY <2>1, <2>2, FS_Subset
  <2> QED
    BY <1>1, <2>1, <2>3
<1>3. /\ DOMAIN firsts = 1..Cardinality(S) /\ Cardinality(S) \in Nat
      /\ \A i \in DOMAIN firsts : firsts[i] \in S
  <2> HIDE DEF S
  <2> QED
    BY <1>2, AscendingOf, FS_CardinalityType
<1>4. ASSUME NEW k \in 1..Len(entries) PROVE last(k) \in 1..Len(entries)
  <2> DEFINE T == same(k)
  <2>1. T # {} /\ T \in SUBSET Int /\ (\A j \in T : j <= Len(entries)) /\ Len(entries) \in Int
        /\ T \in SUBSET (1..Len(entries))
    BY <1>1
  <2> HIDE DEF T
  <2>2. Max(T) \in T
    BY <2>1, GreatestElement
  <2> QED
    BY <2>1, <2>2 DEF T
<1> HIDE DEF last
<1>5. TranslateMap(entries)
        = [i \in DOMAIN firsts |-> [entries[last(firsts[i])] EXCEPT !.field = Mapped(FieldMap, @)]]
  BY DEF TranslateMap, last
<1> HIDE DEF firsts, S
<1>6. DOMAIN TranslateMap(entries) \in SUBSET Nat
  BY <1>3, <1>5
<1>7. ASSUME NEW i \in DOMAIN TranslateMap(entries)
      PROVE  \E entry \in ToSet(entries) : TranslateMap(entries)[i].modifier = entry.modifier
  <2> DEFINE entry == entries[last(firsts[i])]
  <2>1. i \in DOMAIN firsts /\ firsts[i] \in 1..Len(entries)
    BY <1>2, <1>3, <1>5, <1>7
  <2>2. entry \in ToSet(entries)
    BY <1>1, <1>4, <2>1
  <2>3. TranslateMap(entries)[i] = [entry EXCEPT !.field = Mapped(FieldMap, @)]
    BY <1>5, <2>1
  <2> HIDE DEF entry
  <2>4. TranslateMap(entries)[i].modifier = entry.modifier
    BY <2>2, <2>3
  <2> QED
    BY <2>2, <2>4
<1> QED
  BY <1>6, <1>7

\* An entry like "Field|" in a selection.
HasEmptyModifier(spec) ==
  \E k \in DOMAIN spec.maps : \E entry \in ToSet(spec.maps[k]) : entry.modifier = ""

\* A selection that the analysis finds no fault with raises nothing once translated,
\* but for an entry with an empty modifier.
LEMMA SelectionRuns ==
  ASSUME NEW spec, {"shape", "maps"} \subseteq DOMAIN spec, IsList(spec.maps),
         \A entries \in ToSet(spec.maps) :
           /\ IsList(entries)
           /\ \A entry \in ToSet(entries) : {"field", "modifier", "values"} \subseteq DOMAIN entry,
         SelectionReasons(spec) = {}, NEW event
  PROVE  SelectionResult(event, TranslateSelection(spec)) = "ValueError" =>
           HasEmptyModifier(TranslateSelection(spec))
<1> DEFINE new == TranslateSelection(spec)
           results == [k \in DOMAIN new.maps |-> MapResult(event, new.maps[k])]
<1> SUFFICES ASSUME SelectionResult(event, new) = "ValueError"
             PROVE  \E k \in DOMAIN new.maps : \E entry \in ToSet(new.maps[k]) : entry.modifier = ""
  BY DEF HasEmptyModifier
<1>1. spec.shape # "keywords"
  BY DEF SelectionReasons
<1>2. new.shape = spec.shape /\ new.maps = [k \in DOMAIN spec.maps |-> TranslateMap(spec.maps[k])]
  BY DEF TranslateSelection
<1>3. /\ DOMAIN spec.maps = 1..Len(spec.maps) /\ Len(spec.maps) \in Nat
      /\ \A k \in DOMAIN spec.maps : spec.maps[k] \in ToSet(spec.maps)
  BY ListIsSeq
<1>4. \A k \in DOMAIN spec.maps : \A entry \in ToSet(spec.maps[k]) : entry.modifier \in Modifiers \union {""}
  <2> DEFINE entries == UNION {ToSet(spec.maps[k]) : k \in DOMAIN spec.maps}
  <2>1. ~ \E f \in entries : f.modifier \notin Modifiers \union {""}
    BY <1>1 DEF SelectionReasons, When
  <2> QED
    BY <2>1
<1>5. FirstIn(results, {"match", "ValueError"}, "miss") = "ValueError"
  BY <1>1, <1>2 DEF SelectionResult
<1>6. DOMAIN results = DOMAIN spec.maps /\ DOMAIN results \in SUBSET Nat
  BY <1>2, <1>3
<1>7. PICK k \in DOMAIN spec.maps : results[k] = "ValueError"
  <2> HIDE DEF results
  <2> QED
    BY <1>5, <1>6, FirstInOf
<1> DEFINE entries == spec.maps[k]
           fields == [i \in DOMAIN TranslateMap(entries) |-> FieldResult(event, TranslateMap(entries)[i])]
<1>8. MapResult(event, TranslateMap(entries)) = "ValueError"
  BY <1>2, <1>7
<1>9. FirstIn(fields, {"miss", "ValueError"}, "match") = "ValueError"
  BY <1>8 DEF MapResult
<1>10. /\ DOMAIN TranslateMap(entries) \in SUBSET Nat
       /\ \A i \in DOMAIN TranslateMap(entries) :
            \E entry \in ToSet(entries) : TranslateMap(entries)[i].modifier = entry.modifier
  <2>1. /\ IsList(entries)
        /\ \A entry \in ToSet(entries) : {"field", "modifier", "values"} \subseteq DOMAIN entry
    BY <1>3
  <2> HIDE DEF entries
  <2> QED
    BY <2>1, TranslateMapOf
<1>11. DOMAIN fields = DOMAIN TranslateMap(entries)
  OBVIOUS
<1>12. PICK i \in DOMAIN TranslateMap(entries) : fields[i] = "ValueError"
  <2> HIDE DEF fields
  <2> QED
    BY <1>9, <1>10, <1>11, FirstInOf
<1>13. FieldResult(event, TranslateMap(entries)[i]) = "ValueError"
  BY <1>12
<1>14. TranslateMap(entries)[i].modifier \notin Modifiers
  BY <1>13, Zenon DEF FieldResult
<1>15. TranslateMap(entries)[i].modifier = ""
  BY <1>4, <1>10, <1>14
<1>16. new.maps[k] = TranslateMap(entries) /\ k \in DOMAIN new.maps
  BY <1>2
<1>17. TranslateMap(entries)[i] \in ToSet(new.maps[k])
  BY <1>16 DEF ToSet
<1> QED
  BY <1>15, <1>16, <1>17

\* What evaluate_rule raises is a timeframe or an empty modifier, when the condition
\* is text.
LEMMA AnalysedRuns ==
  ASSUME NEW file, IsUpstream(file), Reasons(file) = {}, ~AnalysisRaises(file), NEW evs,
         file.condition.written = "text",
         EvaluateRule(TranslateRule(file), evs).err \in {"ValueError", "IndexError"}
  PROVE  \/ file.timeframe = Bad
         \/ \E n \in DOMAIN TranslateRule(file).selections : HasEmptyModifier(TranslateRule(file).selections[n])
<1> DEFINE rule == TranslateRule(file)
           inScope == {e \in DOMAIN evs : InLogsource(rule, evs[e])}
           matching == {e \in inScope : Holds(rule.condition, Results(rule, evs[e]))}
<1>1. /\ rule.timeframe = file.timeframe /\ rule.condition = file.condition
      /\ rule.selections = [n \in DOMAIN file.selections |-> TranslateSelection(file.selections[n])]
  BY TranslateRuleOf
<1>2. ~Unusable(file)
  BY DEF Reasons, When
<1>3. /\ UNION {SelectionReasons(file.selections[n]) : n \in DOMAIN file.selections} = {}
      /\ ParseCondition(file.condition) # "ValueError"
  <2> DEFINE U == UNION {SelectionReasons(file.selections[n]) : n \in DOMAIN file.selections}
             grammar == When(file.condition.written = "text" /\ ParseCondition(file.condition) = "ValueError", "grammar")
  <2>1. Reasons(file) = When(~file.titled, "title") \union
          (IF Unusable(file) THEN {"condition"}
           ELSE U \union When(DOMAIN file.selections = {}, "selections") \union
                When(file.condition.written = "list", "multi-condition") \union grammar)
    BY DEF Reasons
  <2> HIDE DEF U, grammar
  <2>2. U \subseteq Reasons(file) /\ grammar \subseteq Reasons(file)
    BY <1>2, <2>1
  <2>3. U = {} /\ grammar = {}
    BY <2>2
  <2> QED
    BY <2>3 DEF U, grammar, When
<1>4. ParseCondition(rule.condition) = "none"
  <2>1. ParseCondition(file.condition) # "IndexError"
    BY <1>2 DEF AnalysisRaises
  <2>2. ParseCondition(file.condition) \in {"none", "ValueError", "IndexError"}
    BY DEF ParseCondition, ParseSearch
  <2> QED
    BY <1>1, <1>3, <2>1, <2>2
<1> SUFFICES ASSUME ~ \E n \in DOMAIN rule.selections : HasEmptyModifier(rule.selections[n])
             PROVE  file.timeframe = Bad
  OBVIOUS
<1>5. ASSUME NEW event, NEW n \in DOMAIN rule.selections
      PROVE  SelectionResult(event, rule.selections[n]) # "ValueError"
  <2> DEFINE spec == file.selections[n]
  <2>1. n \in DOMAIN file.selections /\ rule.selections[n] = TranslateSelection(spec)
    BY <1>1, <1>5
  <2>2. SelectionReasons(spec) = {}
    BY <1>3, <2>1
  <2>3. /\ {"shape", "maps"} \subseteq DOMAIN spec /\ IsList(spec.maps)
        /\ \A entries \in ToSet(spec.maps) :
             /\ IsList(entries)
             /\ \A entry \in ToSet(entries) : {"field", "modifier", "values"} \subseteq DOMAIN entry
    BY <2>1 DEF IsUpstream, IsDetection, IsSelection
  <2> HIDE DEF spec
  <2>4. SelectionResult(event, TranslateSelection(spec)) = "ValueError" => HasEmptyModifier(TranslateSelection(spec))
    BY <2>2, <2>3, SelectionRuns
  <2>5. ~HasEmptyModifier(rule.selections[n])
    BY <1>5
  <2> HIDE DEF rule
  <2> QED
    BY <2>1, <2>4, <2>5
<1>6. Fired({}).err = "none" /\ (\A al : Fired(al).err = "none") /\ \A err : Raised(err).err = err
  BY DEF Fired, Raised
<1>7. EvaluateAggregation(evs, rule, matching).err \in {"ValueError", "IndexError"}
  <2> HIDE DEF matching, rule, inScope
  <2>1. EvaluateRule(rule, evs).err \in {"ValueError", "IndexError"}
    BY DEF rule
  <2>2. "none" \notin {"ValueError", "IndexError"} /\ "TypeError" \notin {"ValueError", "IndexError"}
    OBVIOUS
  <2> QED
    BY <1>4, <1>5, <1>6, <2>1, <2>2, Zenon DEF EvaluateRule, matching, inScope
<1>8. WindowOf(rule) = Bad
  <2> HIDE DEF matching, rule
  <2>1. "none" \notin {"ValueError", "IndexError"} /\ "TypeError" \notin {"ValueError", "IndexError"}
    OBVIOUS
  <2> QED
    BY <1>6, <1>7, <2>1, Zenon DEF EvaluateAggregation
<1>9. DefaultWindow # Bad
  BY WindowAssumption, NoneAssumption
<1> QED
  BY <1>1, <1>8, <1>9 DEF WindowOf

\* A loaded upstream rule is the translation of a file the analysis lets pass.
Analysed ==
  \A rule \in ToSet(sigma.loaded) :
    \E file \in ToSet(input.sigma) :
      Reasons(file) = {} /\ ~AnalysisRaises(file) /\ rule = TranslateRule(file)

\* An evaluation that ends the pipeline is that of the rule whose turn it is.
Refused ==
  error[1] = "rules" =>
    turn < Len(rules) /\ EvaluateRule(rules[turn + 1], events).err = error[2]

\* Only the import adds to the imported rules, and only what it analysed.
LEMMA AnalysedStep == Shape /\ Analysed /\ [Next]_vars => Analysed'
<1> SUFFICES ASSUME Shape, Analysed, [Next]_vars PROVE Analysed'
  OBVIOUS
<1>1. CASE Import
  <2>1. IsList(input.sigma) /\ DOMAIN input.sigma = 1..Len(input.sigma)
    BY ListIsSeq DEF Shape, Loaded, IsDeployment
  <2>2. /\ sigma' = ImportReport(input.sigma) /\ input' = input
        /\ \A k \in DOMAIN input.sigma : ~AnalysisRaises(input.sigma[k])
    BY <1>1 DEF Import
  <2>3. \A file \in ToSet(input.sigma) : ~AnalysisRaises(file)
    BY <2>2 DEF ToSet
  <2>4. \A rule \in ToSet(sigma'.loaded) :
          \E file \in ToSet(input.sigma) : Reasons(file) = {} /\ rule = TranslateRule(file)
    BY <2>1, <2>2, ImportOf
  <2> QED
    BY <2>2, <2>3, <2>4 DEF Analysed
<1>2. CASE ~Import
  <2>1. sigma' = sigma /\ input' = input
    BY <1>2 DEF Next, Build, Run, vars, built, Fail, LoadCases, LoadCasesFails, Load, LoadFails,
                BuildEnricher, BuildEnricherFails, ImportFails, Start, EnrichBatch, Evaluate,
                EvaluateFails, Collect, CorrelateNext, CorrelateFails, Behave, BehaveFails, Assess,
                AssessFails, NoRisk, Summarise, Deduplicate, DeduplicateFails, ScoreBatch, Finish
  <2> QED
    BY <2>1 DEF Analysed
<1> QED
  BY <1>1, <1>2

\* Only the evaluation of a rule ends a batch at the rules.
LEMMA RefusedStep == Shape /\ Refused /\ [Next]_vars => Refused'
<1> SUFFICES ASSUME Shape, Refused, [Next]_vars, error'[1] = "rules"
             PROVE  /\ turn' < Len(rules')
                    /\ EvaluateRule(rules'[turn' + 1], events').err = error'[2]
  BY DEF Refused
<1>1. CASE UNCHANGED vars
  BY <1>1 DEF vars, Refused
<1>2. CASE EvaluateFails
  BY <1>2 DEF EvaluateFails, Fail, built
<1>3. CASE Next /\ ~EvaluateFails
  <2>1. pc # "failed" /\ error'[1] # "rules"
    <3>1. pc # "failed"
      BY <1>3 DEF Next, Build, Run, Fail, LoadCases, LoadCasesFails, Load, LoadFails,
                  BuildEnricher, BuildEnricherFails, Import, ImportFails, Start, EnrichBatch, Evaluate,
                  EvaluateFails, Collect, CorrelateNext, CorrelateFails, Behave, BehaveFails, Assess,
                  AssessFails, NoRisk, Summarise, Deduplicate, DeduplicateFails, ScoreBatch, Finish
    <3>2. error = NoError
      BY <3>1 DEF Shape, Position
    <3>3. \/ error' = error
          \/ \E stage \in {"cases", "load", "context", "import", "correlate", "assess", "dedup"} :
                \E err : error' = <<stage, err>>
      BY <1>3 DEF Next, Build, Run, Fail, LoadCases, LoadCasesFails, Load, LoadFails,
                  BuildEnricher, BuildEnricherFails, Import, ImportFails, Start, EnrichBatch, Evaluate,
                  EvaluateFails, Collect, CorrelateNext, CorrelateFails, Behave, BehaveFails, Assess,
                  AssessFails, NoRisk, Summarise, Deduplicate, DeduplicateFails, ScoreBatch, Finish
    <3> QED
      BY <3>1, <3>2, <3>3 DEF NoError
  <2> QED
    BY <2>1
<1> QED
  BY <1>1, <1>2, <1>3

\* What the analysis lets pass and the engine then refuses is a timeframe, an empty
\* modifier or a condition that is not text (sigma_import.py 88-193).
THEOREM AnalysisComplete == Spec => []AnalysisIsComplete
<1>1. Init => Analysed /\ Refused
  <2>1. ToSet(<<>>) = {} /\ NoError[1] # "rules"
    BY DEF ToSet, NoError
  <2> QED
    BY <2>1 DEF Init, NoSigma, Analysed, Refused
<1>2. Shape /\ Analysed /\ Refused => AnalysisIsComplete
  <2> DEFINE rule == rules[turn + 1]
  <2> SUFFICES ASSUME Shape, Analysed, Refused, rule \in ToSet(sigma.loaded),
                      error \in {<<"rules", "ValueError">>, <<"rules", "IndexError">>}
               PROVE  \/ rule.timeframe = Bad \/ rule.condition.written # "text"
                      \/ \E n \in DOMAIN rule.selections : HasEmptyModifier(rule.selections[n])
    BY DEF AnalysisIsComplete, ImportRefused, HasEmptyModifier
  <2>1. PICK file \in ToSet(input.sigma) :
          Reasons(file) = {} /\ ~AnalysisRaises(file) /\ rule = TranslateRule(file)
    BY DEF Analysed
  <2>2. IsUpstream(file)
    BY DEF Shape, Loaded, IsDeployment
  <2>3. EvaluateRule(TranslateRule(file), events).err \in {"ValueError", "IndexError"}
    BY <2>1 DEF Refused
  <2>4. file.condition.written = "text" =>
          \/ file.timeframe = Bad
          \/ \E n \in DOMAIN TranslateRule(file).selections : HasEmptyModifier(TranslateRule(file).selections[n])
    BY <2>1, <2>2, <2>3, AnalysedRuns
  <2>5. rule.timeframe = file.timeframe /\ rule.condition = file.condition
    BY <2>1, <2>2, TranslateRuleOf
  <2> HIDE DEF rule
  <2> QED
    BY <2>1, <2>4, <2>5
<1> QED
  BY <1>1, <1>2, ShapeInvariant, AnalysedStep, RefusedStep, PTL DEF Spec

-----------------------------------------------------------------------------
(* What the efficacy evaluation counts. *)

\* A report on the rules of a universe: rules are missed or raise false alarms
\* only where the totals say so.
Counts(rep, universe) ==
  /\ {"tp", "fp", "fn", "attacks", "falseAlarms", "misses", "untested"} \subseteq DOMAIN rep
  /\ DOMAIN rep.tp = universe /\ DOMAIN rep.fp = universe /\ DOMAIN rep.fn = universe
  /\ \A r \in universe : rep.tp[r] \in Nat /\ rep.fp[r] \in Nat /\ rep.fn[r] \in Nat
  /\ rep.attacks \in Nat /\ rep.falseAlarms \in Nat
  /\ rep.misses = {} => \A r \in universe : rep.fn[r] = 0
  /\ rep.falseAlarms = 0 => \A r \in universe : rep.fp[r] <= rep.attacks

\* Nothing is counted when nothing is scored.
LEMMA EmptyCounts ==
  ASSUME NEW universe
  PROVE  Counts(EmptyReport(universe), universe)
BY DEF Counts, EmptyReport

\* Scoring a case counts what it shows; a case without a miss fired what it expects.
LEMMA ScoreCounts ==
  ASSUME NEW universe, NEW rep, Counts(rep, universe), NEW case, case.expects \subseteq universe,
         NEW name, NEW fired
  PROVE  /\ Counts(ScoreCase(rep, case, name, fired), universe)
         /\ ScoreCase(rep, case, name, fired).misses = {}
              => rep.misses = {} /\ case.expects \subseteq fired
<1> DEFINE new == ScoreCase(rep, case, name, fired)
           missed == {<<name, r>> : r \in (case.expects \intersect universe) \ fired}
<1>1. /\ DOMAIN new = DOMAIN rep
      /\ new.attacks = rep.attacks + (IF Attack(case) THEN 1 ELSE 0)
      /\ new.falseAlarms = rep.falseAlarms + (IF ~Attack(case) /\ fired # {} THEN 1 ELSE 0)
  BY DEF ScoreCase, Counts
<1>2. new.misses = rep.misses \union missed
  BY DEF ScoreCase, Counts
<1>3. /\ new.tp = Counted(rep.tp, case.expects \intersect fired)
      /\ new.fn = Counted(rep.fn, case.expects \ fired)
      /\ new.fp = Counted(rep.fp, fired \ case.expects)
  BY DEF ScoreCase, Counts
<1> HIDE DEF new
<1>4. missed = {} => case.expects \subseteq fired
  OBVIOUS
<1> HIDE DEF missed
<1>5. new.misses = {} => rep.misses = {} /\ case.expects \subseteq fired
  BY <1>2, <1>4
<1>6. /\ DOMAIN new.tp = universe /\ DOMAIN new.fp = universe /\ DOMAIN new.fn = universe
      /\ \A r \in universe : new.tp[r] \in Nat /\ new.fp[r] \in Nat /\ new.fn[r] \in Nat
      /\ \A r \in universe : new.fp[r] = IF r \in fired \ case.expects THEN rep.fp[r] + 1 ELSE rep.fp[r]
      /\ \A r \in universe : new.fn[r] = IF r \in case.expects \ fired THEN rep.fn[r] + 1 ELSE rep.fn[r]
  BY <1>3 DEF Counts, Counted
<1>7. new.attacks \in Nat /\ new.falseAlarms \in Nat
  BY <1>1 DEF Counts
<1>8. new.misses = {} => \A r \in universe : new.fn[r] = 0
  BY <1>5, <1>6 DEF Counts
<1>9. new.falseAlarms = 0 => \A r \in universe : new.fp[r] <= new.attacks
  BY <1>1, <1>6 DEF Counts
<1>10. Counts(new, universe)
  BY <1>1, <1>6, <1>7, <1>8, <1>9 DEF Counts
<1> QED
  BY <1>5, <1>10 DEF new

\* The cases that have been scored.
Scored == IF pc \in {"start", "done"} THEN 1..batch ELSE 1..(batch - 1)

\* The report counts the cases scored so far, over every rule that can fire or is
\* expected, and if it names no miss, every rule they expect can fire.
Tallied ==
  /\ pc \in Building => batch = 0
  /\ pc = "dedup" => ~input.scored
  /\ pc = "score" => input.scored
  /\ pc = "done" => batch = Len(Cases) /\ report.untested = Untested(report, Suppressed)
  /\ pc \notin Building \union {"failed"} =>
       /\ Counts(report, Universe(Tagged(ToSet(rules)), Cases))
       /\ (input.scored /\ report.misses = {}) =>
            \A k \in Scored : Cases[k].expects \subseteq Detected \union {TravelId}

\* What fires are rules, correlations and the travel detector.
LEMMA FiredOf ==
  ASSUME Fitting
  PROVE  FiredIds \subseteq Detected \union {TravelId}
<1>1. \A a \in DOMAIN alerts : alerts[a].rule \in Detected \union {TravelId, NotableId}
  BY ListIsSeq DEF Fitting, AreAlerts, IsAlert
<1> QED
  BY <1>1 DEF FiredIds

\* The steps that leave the report alone.
LEMMA TalliedSame ==
  ASSUME Shape, Tallied, report' = report, UNCHANGED built,
         pc \notin Building \union {"failed", "done"}, pc' \notin Building \union {"failed", "done"},
         input.scored => Scored' = Scored,
         pc' = "dedup" => ~input.scored, pc' = "score" => input.scored
  PROVE  Tallied'
<1>1. /\ Suppressed' = Suppressed /\ Detected' = Detected /\ Cases' = Cases /\ rules' = rules
      /\ correlations' = correlations /\ input' = input
  BY LoadedSame DEF Shape, built
<1>2. Universe(Tagged(ToSet(rules)), Cases)' = Universe(Tagged(ToSet(rules)), Cases)
  BY <1>1 DEF Tagged
<1>3. Counts(report, Universe(Tagged(ToSet(rules)), Cases))'
  BY <1>2 DEF Tallied
<1>4. ((input.scored /\ report.misses = {}) =>
            \A k \in Scored : Cases[k].expects \subseteq Detected \union {TravelId})'
  BY <1>1 DEF Tallied
<1> QED
  BY <1>1, <1>3, <1>4 DEF Tallied

\* A batch of the evaluation ends with its score.
LEMMA ScoreTallied ==
  ASSUME Shape, Tallied, ScoreBatch
  PROVE  Tallied'
<1> DEFINE universe == Universe(Tagged(ToSet(rules)), Cases)
<1>1. /\ pc = "score" /\ pc' = "start" /\ UNCHANGED <<built, batch>>
      /\ report' = ScoreCase(report, Cases[batch], batch, FiredIds)
  BY DEF ScoreBatch
<1>2. /\ Detected' = Detected /\ Cases' = Cases /\ input' = input
      /\ universe' = universe /\ Suppressed' = Suppressed
  <2>1. /\ Suppressed' = Suppressed /\ Detected' = Detected /\ Cases' = Cases /\ rules' = rules
        /\ correlations' = correlations /\ input' = input
    BY <1>1, LoadedSame DEF Shape, built
  <2> QED
    BY <2>1 DEF Tagged
<1>3. /\ batch \in Nat /\ batch >= 1 /\ batch \in DOMAIN Cases
  <2>1. batch >= 1 /\ batch \in 0..Len(Cases) /\ IsList(Cases)
    BY <1>1 DEF Shape, Position, Building, Loaded, IsDeployment, Cases
  <2>2. Len(Cases) \in Nat /\ DOMAIN Cases = 1..Len(Cases)
    BY <2>1, ListIsSeq
  <2> QED
    BY <2>1, <2>2
<1>4. Cases[batch].expects \subseteq universe
  BY <1>3 DEF Universe
<1>5. Counts(report, universe)
  BY <1>1 DEF Tallied, Building
<1> HIDE DEF universe
<1>6. Counts(report', universe)
  BY <1>1, <1>4, <1>5, ScoreCounts
<1>7. report'.misses = {} => report.misses = {} /\ Cases[batch].expects \subseteq FiredIds
  BY <1>1, <1>4, <1>5, ScoreCounts
<1>8. Scored' = 1..batch /\ Scored = 1..(batch - 1)
  BY <1>1 DEF Scored
<1>9. (input'.scored /\ report'.misses = {}) =>
            \A k \in Scored' : Cases'[k].expects \subseteq Detected' \union {TravelId}
  <2> SUFFICES ASSUME input.scored, report'.misses = {}, NEW k \in 1..batch
               PROVE  Cases[k].expects \subseteq Detected \union {TravelId}
    BY <1>2, <1>8
  <2>1. CASE k = batch
    BY <1>7, <2>1, FiredOf DEF Shape
  <2>2. CASE k # batch
    <3>1. k \in Scored
      BY <1>3, <1>8, <2>2
    <3> QED
      BY <1>1, <1>7, <3>1 DEF Tallied, Building
  <2> QED
    BY <2>1, <2>2
<1> QED
  BY <1>1, <1>2, <1>6, <1>9 DEF Tallied, Building, universe

\* The report is completed at the end.
LEMMA FinishTallied ==
  ASSUME Shape, Tallied, Finish
  PROVE  Tallied'
<1> DEFINE universe == Universe(Tagged(ToSet(rules)), Cases)
<1>1. /\ pc = "start" /\ pc' = "done" /\ UNCHANGED <<built, batch>> /\ batch = Len(Cases)
      /\ report' = [report EXCEPT !.untested = Untested(report, Suppressed)]
  BY DEF Finish
<1>2. /\ Detected' = Detected /\ Cases' = Cases /\ input' = input
      /\ universe' = universe /\ Suppressed' = Suppressed
  <2>1. /\ Suppressed' = Suppressed /\ Detected' = Detected /\ Cases' = Cases /\ rules' = rules
        /\ correlations' = correlations /\ input' = input
    BY <1>1, LoadedSame DEF Shape, built
  <2> QED
    BY <2>1 DEF Tagged
<1>3. Counts(report, universe)
  BY <1>1 DEF Tallied, Building
<1> HIDE DEF universe
<1>4. /\ report'.tp = report.tp /\ report'.fp = report.fp /\ report'.fn = report.fn
      /\ report'.misses = report.misses
      /\ report'.untested = Untested(report, Suppressed)
  BY <1>1, <1>3 DEF Counts
<1>5. Counts(report', universe)
  BY <1>1, <1>3 DEF Counts
<1>6. report'.untested = Untested(report', Suppressed')
  BY <1>2, <1>4 DEF Untested
<1>7. Scored' = Scored
  BY <1>1 DEF Scored
<1>8. (input'.scored /\ report'.misses = {}) =>
            \A k \in Scored' : Cases'[k].expects \subseteq Detected' \union {TravelId}
  BY <1>1, <1>2, <1>4, <1>7 DEF Tallied, Building
<1> QED
  BY <1>1, <1>2, <1>5, <1>6, <1>8 DEF Tallied, Building, universe

\* The evaluation begins with an empty report on what has been loaded.
LEMMA ImportTallied ==
  ASSUME Shape, Tallied, Import
  PROVE  Tallied'
<1>1. /\ pc = "import" /\ pc' = "start" /\ UNCHANGED <<input, correlations, batch>>
      /\ report' = EmptyReport(Universe(Tagged(ToSet(rules')), Cases))
  BY DEF Import
<1>2. batch' = 0 /\ Scored' = {} /\ Cases' = Cases
  BY <1>1 DEF Tallied, Building, Scored, Cases
<1>3. Universe(Tagged(ToSet(rules)), Cases)' = Universe(Tagged(ToSet(rules')), Cases)
  BY <1>1, <1>2 DEF Tagged
<1>4. Counts(report, Universe(Tagged(ToSet(rules)), Cases))'
  BY <1>1, <1>3, EmptyCounts
<1> QED
  BY <1>1, <1>2, <1>4 DEF Tallied, Building

\* Every step keeps the tally.
LEMMA TalliedStep == Shape /\ Tallied /\ [Next]_vars => Tallied'
<1> SUFFICES ASSUME Shape, Tallied, [Next]_vars PROVE Tallied'
  OBVIOUS
<1>1. CASE UNCHANGED vars
  <2>1. CASE pc \in Building
    BY <1>1, <2>1 DEF Tallied, Building, vars
  <2>2. CASE pc = "failed"
    BY <1>1, <2>2 DEF Tallied, Building, vars
  <2>3. CASE pc \notin Building \union {"failed"}
    <3>1. /\ Suppressed' = Suppressed /\ Detected' = Detected /\ Cases' = Cases /\ Scored' = Scored
          /\ UNCHANGED <<input, rules, correlations, batch, pc, report>>
      BY <1>1, LoadedSame DEF Shape, vars, Scored
    <3>2. Universe(Tagged(ToSet(rules)), Cases)' = Universe(Tagged(ToSet(rules)), Cases)
      BY <3>1 DEF Tagged
    <3> QED
      BY <2>3, <3>1, <3>2 DEF Tallied
  <2> QED
    BY <2>1, <2>2, <2>3
<1>2. CASE pc' = "failed"
  BY <1>2 DEF Tallied, Building
<1>3. CASE LoadCases \/ Load \/ BuildEnricher
  BY <1>3 DEF Tallied, Building, LoadCases, Load, BuildEnricher
<1>4. CASE Start
  <2>1. /\ pc = "start" /\ pc' = "enrich" /\ UNCHANGED built /\ report' = report /\ batch' = batch + 1
    BY <1>4 DEF Start
  <2>2. Scored' = Scored
    BY <2>1 DEF Scored, Shape, Position
  <2> QED
    BY <2>1, <2>2, TalliedSame DEF Building
<1>5. CASE EnrichBatch \/ Evaluate \/ Collect \/ CorrelateNext \/ Behave \/ Assess \/ NoRisk \/ Summarise
  <2>1. /\ pc \notin Building \union {"failed", "done", "start"}
        /\ pc' \notin Building \union {"failed", "done", "start"}
        /\ report' = report /\ UNCHANGED built /\ batch' = batch
        /\ pc' = "dedup" => ~input.scored
        /\ pc' = "score" => input.scored
    BY <1>5 DEF Building, EnrichBatch, Evaluate, Collect, CorrelateNext, Behave, Assess, NoRisk, Summarise
  <2>2. Scored' = Scored
    BY <2>1 DEF Scored
  <2> QED
    BY <2>1, <2>2, TalliedSame
<1>6. CASE Deduplicate
  <2>1. /\ pc = "dedup" /\ pc' = "start" /\ report' = report /\ UNCHANGED built
    BY <1>6 DEF Deduplicate
  <2>2. ~input.scored
    BY <2>1 DEF Tallied
  <2> QED
    BY <2>1, <2>2, TalliedSame DEF Building
<1> QED
  BY <1>1, <1>2, <1>3, <1>4, <1>5, <1>6, ScoreTallied, FinishTallied, ImportTallied
     DEF Next, Build, Run, LoadCasesFails, LoadFails, BuildEnricherFails, ImportFails, EvaluateFails,
         CorrelateFails, BehaveFails, AssessFails, DeduplicateFails, Fail

\* The report is right in every state.
LEMMA TalliedInvariant == Spec => []Tallied
<1>1. Init => Tallied
  BY DEF Init, Tallied, Building
<1> QED
  BY <1>1, ShapeInvariant, TalliedStep, PTL DEF Spec

\* Whatever raises an alert is scored and stands in the coverage rollup
\* (pipeline.py 112-120, evaluate.py 176-180, coverage.py 45-85).
THEOREM EveryAlertCounts == Spec => []AllThatFiresCounts
<1>1. Shape /\ Tallied => AllThatFiresCounts
  <2> SUFFICES ASSUME Shape, Tallied, pc = "score", NEW id \in FiredIds
               PROVE  LET covered == Coverage(Tagged(ToSet(rules))) IN
                      /\ id \in DOMAIN report.tp
                      /\ \/ id \in covered.untagged
                         \/ \E t \in DOMAIN covered.techniques : id \in covered.techniques[t]
    BY DEF AllThatFiresCounts
  <2> DEFINE tagged == Tagged(ToSet(rules))
  <2>1. id \in RuleIds \union CorrelationIds \union {TravelId}
    BY FiredOf DEF Shape, Detected
  <2>2. PICK r \in tagged : r.id = id
    <3> DEFINE travel == [id |-> TravelId, tags |-> {"T1078"}]
    <3>1. tagged = ToSet(rules) \union ToSet(correlations) \union {travel} /\ travel.id = TravelId
      BY DEF Tagged
    <3> HIDE DEF travel, tagged
    <3> QED
      BY <2>1, <3>1 DEF RuleIds, CorrelationIds
  <2> HIDE DEF tagged
  <2>3. DOMAIN report.tp = Universe(tagged, Cases)
    BY DEF Tallied, Counts, Building, tagged
  <2>4. id \in DOMAIN report.tp
    BY <2>2, <2>3 DEF Universe
  <2>5. CASE r.tags = {}
    BY <2>2, <2>4, <2>5 DEF Coverage, tagged
  <2>6. CASE r.tags # {}
    <3>1. PICK t \in r.tags : TRUE
      BY <2>6
    <3>2. t \in UNION {x.tags : x \in tagged} /\ id \in {x.id : x \in {y \in tagged : t \in y.tags}}
      BY <2>2, <3>1
    <3> QED
      BY <2>4, <3>2 DEF Coverage, tagged
  <2> QED
    BY <2>5, <2>6
<1> QED
  BY <1>1, ShapeInvariant, TalliedInvariant, PTL

\* When the gate opens, no case expected a rule that a correlation silences, every
\* false positive is an attack case's, and a rule that never fired is a silenced
\* one or listed as untested (evaluate.py 185-218, cli/main.py 415).
THEOREM OpenGateIsClean == Spec => []GateMeansClean
<1>1. Shape /\ Tallied => GateMeansClean
  <2> SUFFICES ASSUME Shape, Tallied, pc = "done", input.scored, GateOpens(report)
               PROVE  /\ \A k \in DOMAIN Cases : Cases[k].expects \intersect Silenced = {}
                      /\ \A r \in DOMAIN report.fp : report.fp[r] <= report.attacks /\ report.fn[r] = 0
                      /\ \A r \in DOMAIN report.tp : report.tp[r] + report.fp[r] = 0
                                                       => r \in Suppressed \union report.untested
    BY DEF GateMeansClean
  <2> DEFINE universe == Universe(Tagged(ToSet(rules)), Cases)
  <2>1. Counts(report, universe) /\ report.misses = {} /\ report.falseAlarms = 0
    BY DEF Tallied, Building, GateOpens
  <2> HIDE DEF universe
  <2>2. \A r \in DOMAIN report.fp : report.fp[r] <= report.attacks /\ report.fn[r] = 0
    BY <2>1 DEF Counts
  <2>3. \A k \in DOMAIN Cases : Cases[k].expects \intersect Silenced = {}
    <3>1. DOMAIN Cases = 1..Len(Cases)
      BY ListIsSeq DEF Shape, Loaded, IsDeployment, Cases
    <3>2. \A k \in DOMAIN Cases : Cases[k].expects \subseteq Detected \union {TravelId}
      BY <2>1, <3>1 DEF Tallied, Building, Scored
    <3>3. (Detected \union {TravelId}) \intersect Silenced = {}
      BY DEF Detected, CorrelationIds, Silenced
    <3> QED
      BY <3>2, <3>3
  <2>4. \A r \in DOMAIN report.tp : report.tp[r] + report.fp[r] = 0 => r \in Suppressed \union report.untested
    <3>1. report.untested = Untested(report, Suppressed)
      BY DEF Tallied
    <3> SUFFICES ASSUME NEW r \in DOMAIN report.tp, report.tp[r] + report.fp[r] = 0, r \notin Suppressed
                 PROVE  r \in report.untested
      OBVIOUS
    <3>2. report.tp[r] = 0 /\ report.fp[r] = 0 /\ report.fn[r] = 0
      BY <2>1, <2>2 DEF Counts
    <3> QED
      BY <3>1, <3>2 DEF Untested
  <2> QED
    BY <2>2, <2>3, <2>4
<1> QED
  BY <1>1, ShapeInvariant, TalliedInvariant, PTL

-----------------------------------------------------------------------------
(* Journeys. *)

\* Two logins of the user within the timespan, from different countries.
Journey(evs, user) ==
  \E d \in Logins(evs, user) : \E e \in Logins(evs, user) :
    /\ evs[e].time - evs[d].time \in 0..TravelSpan
    /\ Country(evs[d]) # Country(evs[e])

\* The places in the list of the user's logins where two consecutive ones cross.
CrossesAt(evs, timed) == {k \in 2..Len(timed) : Crosses(evs[timed[k - 1]], evs[timed[k]])}

\* Between two places of a list with different countries, consecutive ones differ.
LEMMA ChangesBetween ==
  ASSUME NEW evs, NEW timed, NEW lo \in Nat, NEW hi \in Nat, lo < hi,
         Country(evs[timed[lo]]) # Country(evs[timed[hi]])
  PROVE  \E k \in (lo + 1)..hi : Country(evs[timed[k - 1]]) # Country(evs[timed[k]])
<1> DEFINE left == {k \in (lo + 1)..hi : Country(evs[timed[k]]) # Country(evs[timed[lo]])}
           first == Min(left)
<1>1. left \in SUBSET Int /\ hi \in left /\ \A k \in left : lo <= k
  OBVIOUS
<1> HIDE DEF left
<1>2. first \in left /\ \A k \in left : first <= k
  BY <1>1, SmallestElement
<1> HIDE DEF first
<1>3. first \in (lo + 1)..hi /\ Country(evs[timed[first]]) # Country(evs[timed[lo]])
  BY <1>2 DEF left
<1>4. Country(evs[timed[first - 1]]) = Country(evs[timed[lo]])
  <2>1. CASE first = lo + 1
    <3>1. first - 1 = lo
      BY <2>1
    <3> QED
      BY <3>1
  <2>2. CASE first # lo + 1
    <3>1. first - 1 \in (lo + 1)..hi /\ first - 1 < first /\ first - 1 \in Int
      BY <1>3, <2>2
    <3>2. first - 1 \notin left
      BY <1>2, <1>3, <3>1
    <3> QED
      BY <3>1, <3>2 DEF left
  <2> QED
    BY <2>1, <2>2
<1> QED
  BY <1>3, <1>4

\* Consecutive logins cross exactly when any two make a journey.
LEMMA CrossingIsJourney ==
  ASSUME NEW evs, AreEvents(evs), NEW user
  PROVE  Crossings(evs, user) # {} <=> Journey(evs, user)
<1> DEFINE S == Logins(evs, user)
           timed == InTimeOrder(evs, S)
           n == Cardinality(S)
<1>1. S \in SUBSET (1..Len(evs)) /\ \A e \in S : evs[e].time \in Int
  BY LoginsOf
<1>2. Crossings(evs, user) # {} <=> CrossesAt(evs, timed) # {}
  BY DEF Crossings, CrossesAt
<1>3. Journey(evs, user) <=>
        \E d \in S : \E e \in S : /\ evs[e].time - evs[d].time \in 0..TravelSpan
                                  /\ Country(evs[d]) # Country(evs[e])
  BY DEF Journey
<1> HIDE DEF S
<1>4. /\ timed \in [1..n -> S] /\ Len(timed) = n /\ n \in Nat
      /\ ToSet(timed) = S /\ DOMAIN timed = 1..n
      /\ \A j, k \in 1..n : j < k => evs[timed[j]].time <= evs[timed[k]].time
  BY <1>1, InTimeOrderOf
<1> HIDE DEF timed, n
<1>5. ASSUME NEW k \in CrossesAt(evs, timed) PROVE Journey(evs, user)
  <2>1. k \in 2..n /\ k - 1 \in 1..n /\ k \in 1..n /\ k - 1 < k
        /\ Crosses(evs[timed[k - 1]], evs[timed[k]])
    BY <1>4 DEF CrossesAt
  <2>2. timed[k - 1] \in S /\ timed[k] \in S /\ evs[timed[k - 1]].time <= evs[timed[k]].time
    BY <1>4, <2>1
  <2>3. evs[timed[k - 1]].time \in Int /\ evs[timed[k]].time \in Int
    BY <1>1, <2>2
  <2>4. evs[timed[k]].time - evs[timed[k - 1]].time \in 0..TravelSpan
    BY <2>1, <2>2, <2>3, TravelSpanAssumption DEF Crosses
  <2> QED
    BY <1>3, <2>1, <2>2, <2>4 DEF Crosses
<1>6. ASSUME Journey(evs, user) PROVE CrossesAt(evs, timed) # {}
  <2>1. PICK d \in S, e \in S : /\ evs[e].time - evs[d].time \in 0..TravelSpan
                                /\ Country(evs[d]) # Country(evs[e])
    BY <1>3, <1>6
  <2>2. PICK p \in 1..n, q \in 1..n : timed[p] = d /\ timed[q] = e
    BY <1>4 DEF ToSet
  <2>3. \E lo \in 1..n, hi \in 1..n :
          /\ lo < hi /\ evs[timed[hi]].time - evs[timed[lo]].time <= TravelSpan
          /\ Country(evs[timed[lo]]) # Country(evs[timed[hi]])
    <3>1. evs[d].time \in Int /\ evs[e].time \in Int /\ p # q
      BY <1>1, <2>1, <2>2
    <3>2. CASE p < q
      <4>1. evs[timed[q]].time - evs[timed[p]].time <= TravelSpan
        BY <2>1, <2>2, <3>1, TravelSpanAssumption
      <4> QED
        BY <2>1, <2>2, <3>2, <4>1
    <3>3. CASE q < p
      <4>1. evs[timed[q]].time <= evs[timed[p]].time
        BY <1>4, <3>3
      <4>2. evs[timed[p]].time - evs[timed[q]].time <= TravelSpan
        BY <2>1, <2>2, <3>1, <4>1, TravelSpanAssumption
      <4> QED
        BY <2>1, <2>2, <3>3, <4>2
    <3> QED
      BY <3>1, <3>2, <3>3
  <2>4. PICK lo \in 1..n, hi \in 1..n :
          /\ lo < hi /\ evs[timed[hi]].time - evs[timed[lo]].time <= TravelSpan
          /\ Country(evs[timed[lo]]) # Country(evs[timed[hi]])
    BY <2>3
  <2>5. PICK k \in (lo + 1)..hi : Country(evs[timed[k - 1]]) # Country(evs[timed[k]])
    <3>1. lo \in Nat /\ hi \in Nat
      BY <2>4
    <3> QED
      BY <2>4, <3>1, ChangesBetween
  <2>6. /\ k \in 2..n /\ k - 1 \in 1..n /\ k \in 1..n /\ lo <= k - 1 /\ k <= hi
    BY <1>4, <2>5
  <2>7. evs[timed[lo]].time <= evs[timed[k - 1]].time /\ evs[timed[k]].time <= evs[timed[hi]].time
    <3>1. \A i \in 1..n : evs[timed[i]].time \in Int
      BY <1>1, <1>4
    <3>2. lo = k - 1 \/ lo < k - 1
      BY <2>6
    <3>3. k = hi \/ k < hi
      BY <2>6
    <3> QED
      BY <1>4, <2>6, <3>1, <3>2, <3>3
  <2>8. evs[timed[k]].time - evs[timed[k - 1]].time <= TravelSpan
    <3>1. /\ evs[timed[lo]].time \in Int /\ evs[timed[k - 1]].time \in Int
          /\ evs[timed[k]].time \in Int /\ evs[timed[hi]].time \in Int
      BY <1>1, <1>4, <2>6
    <3> QED
      BY <2>4, <2>7, <3>1, TravelSpanAssumption
  <2>9. k \in CrossesAt(evs, timed)
    BY <1>4, <2>5, <2>6, <2>8 DEF CrossesAt, Crosses
  <2> QED
    BY <2>9
<1> QED
  BY <1>2, <1>5, <1>6

\* Where an event is located is the country it is given.
LEMMA LocatedOf ==
  ASSUME Loaded, NEW event
  PROVE  Located(event) = {IF input.context.enabled THEN CountryGiven(input.context, event)
                           ELSE event.get["source.geo.country_iso_code"]}
<1> DEFINE table == input.context.geoip
           ip == event.get["source.ip"]
           said == event.get["source.geo.country_iso_code"]
           rows == {k \in IF input.context.enabled THEN Rows(table) ELSE {} :
                      ip \in Addresses \ Private /\ ip \in table[k].net}
           foremost == {x \in rows : \A y \in rows \ {x} :
                          table[y].prefix < table[x].prefix \/ (table[y].prefix = table[x].prefix /\ x < y)}
           holding == {k \in Rows(table) : ip \in Addresses /\ ip \in table[k].net}
           longest == {k \in holding : \A j \in holding : table[j].prefix <= table[k].prefix}
<1>1. Located(event) = {table[k].country : k \in foremost} \union IF rows = {} THEN {said} ELSE {}
  BY DEF Located
<1>2. CountryGiven(input.context, event)
        = IF Geo(table, ip) # {} THEN (CHOOSE row \in Geo(table, ip) : TRUE).country ELSE said
  BY DEF CountryGiven
<1>3. Geo(table, ip) = IF ip \in Private \/ holding = {} THEN {} ELSE {table[Min(longest)]}
  BY DEF Geo, Lookup
<1>4. CASE rows = {}
  <2>1. foremost = {}
    BY <1>4
  <2>2. Located(event) = {said}
    <3> HIDE DEF rows, foremost
    <3> QED
      BY <1>1, <1>4, <2>1
  <2>3. input.context.enabled => ip \in Private \/ holding = {}
    BY <1>4
  <2> HIDE DEF holding, longest, rows, foremost
  <2> QED
    BY <1>2, <1>3, <2>2, <2>3
<1>5. CASE rows # {}
  <2>1. input.context.enabled /\ ip \notin Private /\ rows = holding /\ holding # {}
    BY <1>5
  <2>2. /\ holding \in SUBSET DOMAIN table /\ IsList(table)
        /\ \A k \in holding : table[k].prefix \in Nat
    BY <2>1 DEF Loaded, IsDeployment, Rows
  <2>3. holding \in SUBSET Int /\ IsFiniteSet(holding) /\ \A k \in holding : 1 <= k
    <3>1. Len(table) \in Nat /\ DOMAIN table = 1..Len(table)
      BY <2>2, ListIsSeq
    <3> HIDE DEF holding
    <3>2. IsFiniteSet(1..Len(table))
      BY <3>1, UpToFinite
    <3> QED
      BY <2>2, <3>1, <3>2, FS_Subset
  <2> DEFINE f == [k \in holding |-> table[k].prefix]
             prefixes == {f[k] : k \in holding}
  <2>4. PICK top \in holding : \A j \in holding : table[j].prefix <= table[top].prefix
    <3>1. DOMAIN f = holding /\ IsFiniteSet(holding)
      BY <2>3
    <3>2. \A k \in holding : f[k] \in Nat /\ f[k] = table[k].prefix
      BY <2>2
    <3> HIDE DEF f, holding, rows, foremost, longest
    <3>3. IsFiniteSet(prefixes)
      BY <3>1, FiniteValues
    <3>4. prefixes \in SUBSET Int /\ prefixes # {}
      BY <2>1, <3>2
    <3>5. Max(prefixes) \in prefixes /\ \A t \in prefixes : t <= Max(prefixes)
      <4> HIDE DEF prefixes
      <4> QED
        BY <3>3, <3>4, FiniteExtremes
    <3> QED
      BY <3>2, <3>5
  <2>5. longest \in SUBSET Int /\ longest # {} /\ \A k \in longest : 1 <= k
    BY <2>3, <2>4
  <2> DEFINE first == Min(longest)
  <2>6. first \in longest /\ \A k \in longest : first <= k
    <3> HIDE DEF longest, rows, foremost, holding, f, prefixes
    <3>1. longest \in SUBSET Int /\ longest # {} /\ \A k \in longest : 1 <= k
      BY <2>5
    <3>2. Min(longest) \in longest /\ \A k \in longest : Min(longest) <= k
      BY <3>1, SmallestElement
    <3> QED
      BY <3>2
  <2> HIDE DEF first
  <2>7. foremost = {first}
    <3>1. ASSUME NEW y \in holding \ {first}
          PROVE  /\ table[y].prefix < table[first].prefix \/ (table[y].prefix = table[first].prefix /\ first < y)
                 /\ y \notin foremost
      <4>1. first \in holding /\ table[y].prefix <= table[first].prefix
            /\ table[y].prefix \in Int /\ table[first].prefix \in Int /\ first \in Int /\ y \in Int
        BY <2>2, <2>3, <2>6
      <4>2. CASE table[y].prefix < table[first].prefix
        <5>1. ~(table[first].prefix < table[y].prefix \/ (table[first].prefix = table[y].prefix /\ y < first))
          BY <4>1, <4>2
        <5> QED
          BY <2>1, <4>1, <4>2, <5>1
      <4>3. CASE table[y].prefix = table[first].prefix
        <5>1. y \in longest
          BY <2>6, <4>3
        <5>2. first < y
          BY <2>6, <4>1, <5>1
        <5>3. ~(table[first].prefix < table[y].prefix \/ (table[first].prefix = table[y].prefix /\ y < first))
          BY <4>1, <4>3, <5>2
        <5> QED
          BY <2>1, <4>1, <4>3, <5>2, <5>3
      <4> QED
        BY <4>1, <4>2, <4>3
    <3>2. first \in holding
      BY <2>6
    <3>3. first \in foremost
      BY <2>1, <3>1, <3>2
    <3> QED
      BY <2>1, <3>1, <3>3
  <2>8. Located(event) = {table[first].country}
    <3> HIDE DEF rows, foremost, holding, longest
    <3> QED
      BY <1>1, <1>5, <2>7
  <2>9. CountryGiven(input.context, event) = table[first].country
    <3> HIDE DEF rows, foremost, holding, longest
    <3>1. Geo(table, ip) = {table[first]}
      BY <1>3, <2>1 DEF first
    <3>2. (CHOOSE row \in {table[first]} : TRUE) = table[first]
      OBVIOUS
    <3> QED
      BY <1>2, <3>1, <3>2
  <2> QED
    BY <2>1, <2>8, <2>9
<1> QED
  BY <1>4, <1>5

\* The travel alerts of a batch are those of the users whose logins cross.
Travelled ==
  (pc = "assess" /\ TravelId \notin Ids) =>
    {a.group : a \in {x \in ToSet(alerts) : x.rule = TravelId}} =
    {u \in Travellers(events) : Crossings(events, u) # {}}

\* They are what impossible_travel adds, nothing else raising its id.
LEMMA TravelledStep == Shape /\ Travelled /\ [Next]_vars => Travelled'
<1> SUFFICES ASSUME Shape, Travelled, [Next]_vars PROVE Travelled'
  OBVIOUS
<1>1. CASE Behave
  <2>1. /\ pc = "correlate" /\ UNCHANGED <<rules, correlations, events>>
        /\ ToSet(alerts') = ToSet(alerts) \union ToSet(Travel(events))
    BY <1>1, BehaveShape DEF Behave, built
  <2> SUFFICES ASSUME TravelId \notin Ids'
               PROVE  {a.group : a \in {x \in ToSet(alerts') : x.rule = TravelId}} =
                      {u \in Travellers(events) : Crossings(events, u) # {}}
    BY <2>1 DEF Travelled
  <2>2. Ids' = Ids
    BY <2>1 DEF Ids
  <2>3. \A a \in ToSet(alerts) : a.rule # TravelId
    <3>1. \A a \in ToSet(alerts) : a.rule \in Detected
      BY <2>1 DEF Shape, Progress
    <3>2. Detected \subseteq Ids
      BY DEF Detected, RuleIds, CorrelationIds, Ids
    <3> QED
      BY <2>2, <3>1, <3>2
  <2>4. AreEvents(events)
    BY DEF Shape, Fitting
  <2>5. \A a \in ToSet(Travel(events)) : a.rule = TravelId
    BY <2>4, TravelOf DEF AreAlerts, IsAlert
  <2>6. {a.group : a \in ToSet(Travel(events))} = {u \in Travellers(events) : Crossings(events, u) # {}}
    BY <2>4, TravelOf
  <2>7. {x \in ToSet(alerts') : x.rule = TravelId} = ToSet(Travel(events))
    BY <2>1, <2>3, <2>5
  <2> QED
    BY <2>6, <2>7
<1>2. CASE UNCHANGED vars
  <2>1. /\ pc' = pc /\ alerts' = alerts /\ events' = events /\ Ids' = Ids
    BY <1>2 DEF vars, Ids
  <2> QED
    BY <2>1 DEF Travelled
<1>3. CASE Next /\ ~Behave
  <2>1. pc' # "assess"
    BY <1>3 DEF Next, Build, Run, Fail, LoadCases, LoadCasesFails, Load, LoadFails,
                BuildEnricher, BuildEnricherFails, Import, ImportFails, Start, EnrichBatch, Evaluate,
                EvaluateFails, Collect, CorrelateNext, CorrelateFails, BehaveFails, Assess,
                AssessFails, NoRisk, Summarise, Deduplicate, DeduplicateFails, ScoreBatch, Finish
  <2> QED
    BY <2>1 DEF Travelled
<1> QED
  BY <1>1, <1>2, <1>3

\* What enrichment leaves of a logged event, and where it puts it.
LEMMA LoggedAndEnriched ==
  ASSUME Loaded, NEW logged, AreEvents(logged), NEW x \in 1..Len(logged)
  PROVE  LET event == Enrich(input.context, logged)[x] IN
         /\ event.time = logged[x].time
         /\ event.get["event.outcome"] = logged[x].get["event.outcome"]
         /\ User(event) = logged[x].get["user.name"]
         /\ Located(logged[x]) = {Country(event)}
<1> DEFINE event == Enrich(input.context, logged)[x]
<1>1. event = IF ~input.context.enabled THEN logged[x] ELSE EnrichEvent(input.context, logged[x])
  BY EnrichOf
<1>2. IsEvent(logged[x])
  BY ListIsSeq DEF AreEvents
<1>3. Located(logged[x]) = {IF input.context.enabled THEN CountryGiven(input.context, logged[x])
                            ELSE logged[x].get["source.geo.country_iso_code"]}
  BY LocatedOf
<1>4. /\ EnrichEvent(input.context, logged[x]).time = logged[x].time
      /\ \A f \in DOMAIN logged[x].get \ Shown : EnrichEvent(input.context, logged[x]).get[f] = logged[x].get[f]
      /\ EnrichEvent(input.context, logged[x]).get["source.geo.country_iso_code"]
           = CountryGiven(input.context, logged[x])
  BY <1>2, EnrichEventOf
<1>5. {"event.outcome", "user.name"} \subseteq DOMAIN logged[x].get \ Shown
  BY <1>2 DEF IsEvent, Shown
<1> HIDE DEF event
<1>6. CASE input.context.enabled
  BY <1>1, <1>3, <1>4, <1>5, <1>6 DEF User, Country, event
<1>7. CASE ~input.context.enabled
  BY <1>1, <1>3, <1>7 DEF User, Country, event
<1> QED
  BY <1>6, <1>7 DEF event

\* A user alerts exactly when any two logins within the timespan are from different
\* countries, as the logs and the tables have it (behavioral.py 47-66, geoip.py
\* 91-104, enricher.py 91-116).
THEOREM TravelFindsAnyPair == Spec => []TravelAnyPair
<1>1. Shape /\ Travelled => TravelAnyPair
  <2> DEFINE logged == Cases[batch].events
             Pair(x, e) ==
               /\ \A y \in {x, e} : /\ logged[y].get["event.outcome"] = "success"
                                    /\ logged[y].time # None
                                    /\ Located(logged[y]) \intersect Falsy = {}
               /\ logged[x].get["user.name"] = logged[e].get["user.name"]
               /\ logged[x].get["user.name"] \notin Falsy
               /\ logged[e].time - logged[x].time \in 0..TravelSpan
               /\ Located(logged[x]) # Located(logged[e])
             far == {x \in DOMAIN logged : \E e \in DOMAIN logged : Pair(x, e)}
             alerted == {u \in Travellers(events) : Crossings(events, u) # {}}
  <2> SUFFICES ASSUME Shape, Travelled, pc = "assess", TravelId \notin Ids
               PROVE  alerted = {logged[d].get["user.name"] : d \in far}
    BY DEF Travelled, TravelAnyPair
  <2>1. AreEvents(logged) /\ events = Enrich(input.context, logged)
    <3>1. events = Enrich(input.context, logged)
      BY DEF Shape, Progress
    <3>2. batch \in 1..Len(Cases) /\ IsList(Cases)
      BY DEF Shape, Position, Building, Loaded, IsDeployment, Cases
    <3>3. Cases[batch] \in ToSet(Cases)
      BY <3>2, ListIsSeq
    <3> QED
      BY <3>1, <3>3 DEF Shape, Loaded, IsDeployment, Cases, IsCase, AreEvents
  <2>2. AreEvents(events) /\ Len(events) = Len(logged) /\ DOMAIN logged = 1..Len(logged)
        /\ DOMAIN events = 1..Len(logged)
    <3>1. AreEvents(events) /\ Len(events) = Len(logged)
      BY <2>1, EnrichOf
    <3> QED
      BY <2>1, <3>1, ListIsSeq DEF AreEvents
  <2>3. \A x \in DOMAIN logged :
          /\ events[x].time = logged[x].time
          /\ events[x].get["event.outcome"] = logged[x].get["event.outcome"]
          /\ User(events[x]) = logged[x].get["user.name"]
          /\ Located(logged[x]) = {Country(events[x])}
    <3> HIDE DEF logged
    <3> QED
      BY <2>1, <2>2, LoggedAndEnriched DEF Shape
  <2> HIDE DEF logged
  <2>4. ASSUME NEW x \in DOMAIN logged, NEW e \in DOMAIN logged
        PROVE  Pair(x, e) <=> /\ IsLogin(events[x]) /\ IsLogin(events[e])
                              /\ User(events[x]) = User(events[e])
                              /\ events[e].time - events[x].time \in 0..TravelSpan
                              /\ Country(events[x]) # Country(events[e])
    BY <2>3 DEF IsLogin
  <2>5. \A u : Crossings(events, u) # {} <=> Journey(events, u)
    BY <2>2, CrossingIsJourney
  <2>6. ASSUME NEW u \in alerted PROVE u \in {logged[d].get["user.name"] : d \in far}
    <3>1. PICK d \in Logins(events, u), e \in Logins(events, u) :
            /\ events[e].time - events[d].time \in 0..TravelSpan
            /\ Country(events[d]) # Country(events[e])
      BY <2>5 DEF Journey
    <3>2. /\ d \in DOMAIN logged /\ e \in DOMAIN logged
          /\ IsLogin(events[d]) /\ IsLogin(events[e]) /\ User(events[d]) = u /\ User(events[e]) = u
      BY <2>2 DEF Logins
    <3>3. Pair(d, e)
      BY <2>4, <3>1, <3>2
    <3> HIDE DEF Pair
    <3> QED
      BY <2>3, <3>2, <3>3
  <2>7. ASSUME NEW d \in far PROVE logged[d].get["user.name"] \in alerted
    <3>1. PICK e \in DOMAIN logged : Pair(d, e)
      OBVIOUS
    <3>2. /\ IsLogin(events[d]) /\ IsLogin(events[e]) /\ User(events[d]) = User(events[e])
          /\ events[e].time - events[d].time \in 0..TravelSpan
          /\ Country(events[d]) # Country(events[e])
      BY <2>4, <3>1
    <3>3. d \in Logins(events, User(events[d])) /\ e \in Logins(events, User(events[d]))
      BY <2>2, <3>2 DEF Logins
    <3>4. Journey(events, User(events[d]))
      BY <3>2, <3>3 DEF Journey
    <3>5. User(events[d]) \in Travellers(events)
      BY <2>2, <3>2 DEF Travellers
    <3> QED
      BY <2>3, <2>5, <3>4, <3>5
  <2> HIDE DEF far, alerted
  <2> QED
    BY <2>6, <2>7
<1>2. Init => Travelled
  BY DEF Init, Travelled
<1> QED
  BY <1>1, <1>2, ShapeInvariant, TravelledStep, PTL DEF Spec

-----------------------------------------------------------------------------
(* Notables. *)

\* The risk engine has looked at the alerts of the batch.
RiskLooked == (pc \in {"summarise", "dedup"} \/ (pc = "start" /\ batch > 0)) /\ ~NoRiskEngine

\* It has left a notable for every heavy entity, and if no file has taken its id, no
\* others; what it and the enrichment added since weighs nothing.
Risked ==
  RiskLooked =>
    /\ \A f \in RiskObjects : \A v :
         Heavy(events, alerts, RiskOf, Now, <<f, v>>) => \E a \in Notables : a.group = v
    /\ NotableId \notin Ids =>
         \A a \in Notables : \E f \in RiskObjects : Heavy(events, alerts, RiskOf, Now, <<f, a.group>>)

\* What the enrichment of alerts and the notables add weighs nothing.
LEMMA SameContributions ==
  ASSUME NEW evs, NEW al, NEW more, NEW overrides, NEW entity, NEW undated,
         DOMAIN al \subseteq DOMAIN more, \A a \in DOMAIN al : Alike(al[a], more[a]),
         \A a \in DOMAIN more \ DOMAIN al : more[a].rule = NotableId
  PROVE  /\ Contributors(evs, more, overrides, entity) = Contributors(evs, al, overrides, entity)
         /\ Contributions(evs, more, overrides, entity, undated)
              = Contributions(evs, al, overrides, entity, undated)
<1> DEFINE At(a, s) == IF s[a].time = None THEN undated ELSE s[a].time
           Part(a, s) == Share(Score(overrides, s[a]), EntityValues(evs, s[a], entity[1]))
           F == Contributors(evs, al, overrides, entity)
           M == Contributors(evs, more, overrides, entity)
<1>1. ASSUME NEW a \in DOMAIN al
      PROVE  /\ Contributes(overrides, more[a]) <=> Contributes(overrides, al[a])
             /\ EntityValues(evs, more[a], entity[1]) = EntityValues(evs, al[a], entity[1])
             /\ Score(overrides, more[a]) = Score(overrides, al[a]) /\ more[a].time = al[a].time
  <2>1. Score(overrides, more[a]) = Score(overrides, al[a])
    BY DEF Alike, Score
  <2>2. EntityValues(evs, more[a], entity[1]) = EntityValues(evs, al[a], entity[1])
    BY DEF Alike, EntityValues
  <2> QED
    BY <2>1, <2>2 DEF Alike, Contributes
<1>2. \A a \in DOMAIN more \ DOMAIN al : ~Contributes(overrides, more[a])
  BY DEF Contributes
<1>3. M = F
  BY <1>1, <1>2 DEF Contributors
<1>4. /\ Contributions(evs, al, overrides, entity, undated)
           = [at |-> [a \in F |-> At(a, al)], score |-> [a \in F |-> Part(a, al)]]
      /\ Contributions(evs, more, overrides, entity, undated)
           = [at |-> [a \in M |-> At(a, more)], score |-> [a \in M |-> Part(a, more)]]
  BY DEF Contributions, Contributors
<1>5. \A a \in F : a \in DOMAIN al
  BY DEF Contributors
<1>6. \A a \in F : At(a, al) = At(a, more) /\ Part(a, al) = Part(a, more)
  BY <1>1, <1>5
<1> HIDE DEF F, M, At, Part
<1>7. /\ [a \in F |-> At(a, al)] = [a \in F |-> At(a, more)]
      /\ [a \in F |-> Part(a, al)] = [a \in F |-> Part(a, more)]
  BY <1>6
<1> QED
  BY <1>3, <1>4, <1>7 DEF F, M

\* So the same entities are heavy.
LEMMA SameHeavy ==
  ASSUME NEW evs, NEW al, NEW more, NEW risk, NEW entity, NEW undated,
         DOMAIN al \subseteq DOMAIN more, \A a \in DOMAIN al : Alike(al[a], more[a]),
         \A a \in DOMAIN more \ DOMAIN al : more[a].rule = NotableId
  PROVE  Heavy(evs, more, risk, undated, entity) <=> Heavy(evs, al, risk, undated, entity)
<1>1. /\ Contributors(evs, more, risk.overrides, entity) = Contributors(evs, al, risk.overrides, entity)
      /\ Contributions(evs, more, risk.overrides, entity, undated)
           = Contributions(evs, al, risk.overrides, entity, undated)
  BY SameContributions
<1> QED
  BY <1>1, Zenon DEF Heavy

\* assess adds the notables of its alerts.
LEMMA AssessRisked ==
  ASSUME Shape, Assess
  PROVE  Risked'
<1> DEFINE added == Added(events, alerts, RiskOf, Now)
           n == Len(events)
           ids == Detected \union {TravelId, NotableId}
<1>1. /\ pc = "assess" /\ ~NoRiskEngine
      /\ UNCHANGED <<input, rules, correlations, events>>
  BY DEF Assess, built
<1>2. alerts' = alerts \o added
  BY AssessShape
<1>3. AreAlerts(alerts, ids, n) /\ IsRisk(RiskOf)
  BY <1>1, RiskOfIs DEF Shape, Fitting
<1>4. /\ RiskOf' = RiskOf /\ Ids' = Ids /\ events' = events /\ (~NoRiskEngine)' = ~NoRiskEngine
  BY <1>1 DEF RiskOf, Ids, NoRiskEngine
<1> HIDE DEF n, ids
<1>5. /\ AreAlerts(added, {NotableId}, n)
      /\ \A v : (\E a \in ToSet(added) : a.group = v)
                  <=> \E f \in RiskObjects : Heavy(events, alerts, RiskOf, Now, <<f, v>>)
  BY <1>3, NotablesOf, NowAssumption DEF n
<1> HIDE DEF added
<1>6. IsList(alerts) /\ IsList(added) /\ \A a \in ToSet(added) : a.rule = NotableId
  BY <1>3, <1>5 DEF AreAlerts, IsAlert
<1>7. ToSet(alerts') = ToSet(alerts) \union ToSet(added)
  BY <1>2, <1>6, ListConcat
<1>8. ASSUME NEW f \in RiskObjects, NEW v
      PROVE  Heavy(events', alerts', RiskOf', Now, <<f, v>>) <=> Heavy(events, alerts, RiskOf, Now, <<f, v>>)
  <2> DEFINE entity == <<f, v>>
  <2>1. /\ DOMAIN alerts = 1..Len(alerts) /\ DOMAIN added = 1..Len(added)
        /\ Len(alerts) \in Nat /\ Len(added) \in Nat
        /\ alerts \in Seq(ToSet(alerts)) /\ added \in Seq(ToSet(added))
    BY <1>6, ListIsSeq
  <2>2. /\ DOMAIN alerts' = 1..(Len(alerts) + Len(added))
        /\ \A a \in 1..Len(alerts) : alerts'[a] = alerts[a]
        /\ \A a \in 1..(Len(alerts) + Len(added)) : a > Len(alerts) => alerts'[a] = added[a - Len(alerts)]
    BY <1>2, <2>1
  <2>3. \A a \in DOMAIN alerts : Alike(alerts[a], alerts'[a])
    BY <2>1, <2>2 DEF Alike
  <2>4. \A a \in DOMAIN alerts' \ DOMAIN alerts : alerts'[a].rule = NotableId
    <3> SUFFICES ASSUME NEW a \in DOMAIN alerts' \ DOMAIN alerts PROVE alerts'[a].rule = NotableId
      OBVIOUS
    <3>1. a - Len(alerts) \in 1..Len(added) /\ alerts'[a] = added[a - Len(alerts)]
      BY <2>1, <2>2
    <3>2. added[a - Len(alerts)] \in ToSet(added)
      BY <1>6, <3>1, ListIsSeq
    <3> QED
      BY <1>6, <3>1, <3>2
  <2>5. DOMAIN alerts \subseteq DOMAIN alerts'
    BY <2>1, <2>2
  <2> HIDE DEF entity
  <2>6. Heavy(events, alerts', RiskOf, Now, entity) <=> Heavy(events, alerts, RiskOf, Now, entity)
    BY <2>3, <2>4, <2>5, SameHeavy
  <2> QED
    BY <1>4, <2>6 DEF entity
<1>9. ASSUME NEW f \in RiskObjects, NEW v, Heavy(events', alerts', RiskOf', Now, <<f, v>>)
      PROVE  \E a \in Notables' : a.group = v
  <2>1. PICK a \in ToSet(added) : a.group = v
    BY <1>5, <1>8, <1>9
  <2>2. a \in Notables'
    BY <1>6, <1>7, <2>1 DEF Notables
  <2> QED
    BY <2>1, <2>2
<1>10. ASSUME NotableId \notin Ids', NEW a \in Notables'
       PROVE  \E f \in RiskObjects : Heavy(events', alerts', RiskOf', Now, <<f, a.group>>)
  <2>1. a \in ToSet(alerts') /\ a.rule = NotableId
    BY <1>10 DEF Notables
  <2>2. a \notin ToSet(alerts)
    <3>1. \A b \in ToSet(alerts) : b.rule \in Detected \union {TravelId}
      BY <1>1 DEF Shape, Progress
    <3>2. NotableId \notin Detected \union {TravelId}
      BY <1>4, <1>10, IdsAssumption DEF Detected, RuleIds, CorrelationIds, Ids
    <3> QED
      BY <2>1, <3>1, <3>2
  <2>3. a \in ToSet(added)
    BY <1>7, <2>1, <2>2
  <2>4. PICK f \in RiskObjects : Heavy(events, alerts, RiskOf, Now, <<f, a.group>>)
    BY <1>5, <2>3
  <2> QED
    BY <1>8, <2>4
<1> QED
  BY <1>9, <1>10 DEF Risked

\* The enrichment of alerts moves none of their weight.
LEMMA SummariseRisked ==
  ASSUME Shape, Risked, Summarise
  PROVE  Risked'
<1>1. /\ pc = "summarise" /\ UNCHANGED <<input, rules, correlations, events>>
      /\ Len(alerts') = Len(alerts) /\ \A a \in 1..Len(alerts) : Alike(alerts[a], alerts'[a])
      /\ Shape'
  BY SummariseShape DEF Summarise, built
<1>2. /\ RiskOf' = RiskOf /\ Ids' = Ids /\ events' = events /\ (~NoRiskEngine)' = ~NoRiskEngine
  BY <1>1 DEF RiskOf, Ids, NoRiskEngine
<1>3. /\ DOMAIN alerts = 1..Len(alerts) /\ DOMAIN alerts' = 1..Len(alerts)
      /\ ToSet(alerts) = {alerts[k] : k \in 1..Len(alerts)}
      /\ ToSet(alerts') = {alerts'[k] : k \in 1..Len(alerts)}
  <2>1. IsList(alerts) /\ IsList(alerts')
    BY <1>1 DEF Shape, Fitting, AreAlerts
  <2>2. DOMAIN alerts = 1..Len(alerts) /\ DOMAIN alerts' = 1..Len(alerts)
    BY <1>1, <2>1, ListIsSeq
  <2> QED
    BY <2>2 DEF ToSet
<1>4. ASSUME NEW f \in RiskObjects, NEW v
      PROVE  Heavy(events', alerts', RiskOf', Now, <<f, v>>) <=> Heavy(events, alerts, RiskOf, Now, <<f, v>>)
  <2> DEFINE entity == <<f, v>>
  <2> HIDE DEF entity
  <2>1. Heavy(events, alerts', RiskOf, Now, entity) <=> Heavy(events, alerts, RiskOf, Now, entity)
    BY <1>1, <1>3, SameHeavy
  <2> QED
    BY <1>2, <2>1 DEF entity
<1>5. \A a \in Notables : \E b \in Notables' : b.group = a.group
  BY <1>1, <1>3 DEF Notables, Alike
<1>6. \A b \in Notables' : \E a \in Notables : b.group = a.group
  BY <1>1, <1>3 DEF Notables, Alike
<1> SUFFICES ASSUME RiskLooked'
             PROVE  /\ \A f \in RiskObjects : \A v :
                         Heavy(events', alerts', RiskOf', Now, <<f, v>>) => \E a \in Notables' : a.group = v
                    /\ NotableId \notin Ids' =>
                         \A a \in Notables' : \E f \in RiskObjects :
                           Heavy(events', alerts', RiskOf', Now, <<f, a.group>>)
  BY DEF Risked
<1>7. RiskLooked
  BY <1>1, <1>2 DEF RiskLooked
<1>8. ASSUME NEW f \in RiskObjects, NEW v, Heavy(events', alerts', RiskOf', Now, <<f, v>>)
      PROVE  \E a \in Notables' : a.group = v
  BY <1>4, <1>5, <1>7, <1>8 DEF Risked
<1>9. ASSUME NotableId \notin Ids', NEW a \in Notables'
      PROVE  \E f \in RiskObjects : Heavy(events', alerts', RiskOf', Now, <<f, a.group>>)
  BY <1>2, <1>4, <1>6, <1>7, <1>9 DEF Risked
<1> QED
  BY <1>8, <1>9

\* Every step keeps what the risk engine has left.
LEMMA RiskedStep == Shape /\ Tallied /\ Risked /\ [Next]_vars => Risked'
<1> SUFFICES ASSUME Shape, Tallied, Risked, [Next]_vars PROVE Risked'
  OBVIOUS
<1>1. CASE UNCHANGED vars \/ Deduplicate
  <2>1. /\ UNCHANGED <<input, rules, correlations, events, alerts, batch>>
        /\ RiskLooked' => RiskLooked
    BY <1>1 DEF vars, Deduplicate, built, RiskLooked, NoRiskEngine
  <2>2. RiskOf' = RiskOf /\ Ids' = Ids /\ Notables' = Notables
    BY <2>1 DEF RiskOf, Ids, Notables
  <2> QED
    BY <2>1, <2>2 DEF Risked
<1>2. CASE NoRisk
  BY <1>2 DEF Risked, RiskLooked, NoRisk, NoRiskEngine, built
<1>3. CASE Import
  <2>1. batch = 0 /\ pc' = "start" /\ batch' = batch
    BY <1>3 DEF Import, Tallied, Building
  <2> QED
    BY <2>1 DEF Risked, RiskLooked
<1>4. CASE ScoreBatch
  BY <1>4 DEF ScoreBatch, Tallied, Risked, RiskLooked, NoRiskEngine, built
<1>5. CASE Next /\ ~(Deduplicate \/ NoRisk \/ Import \/ ScoreBatch \/ Assess \/ Summarise)
  <2>1. pc' \notin {"summarise", "dedup", "start"}
    BY <1>5 DEF Next, Build, Run, Fail, LoadCases, LoadCasesFails, Load, LoadFails,
                BuildEnricher, BuildEnricherFails, ImportFails, Start, EnrichBatch, Evaluate,
                EvaluateFails, Collect, CorrelateNext, CorrelateFails, Behave, BehaveFails,
                AssessFails, DeduplicateFails, Finish
  <2> QED
    BY <2>1 DEF Risked, RiskLooked
<1> QED
  BY <1>1, <1>2, <1>3, <1>4, <1>5, AssessRisked, SummariseRisked

\* What the risk engine has left is right in every state.
LEMMA RiskedInvariant == Spec => []Risked
<1>1. Init => Risked
  BY DEF Init, Risked, RiskLooked
<1> QED
  BY <1>1, ShapeInvariant, TalliedInvariant, RiskedStep, PTL DEF Spec

\* A share of a positive score is no less than zero.
LEMMA ShareNotNegative ==
  ASSUME NEW base \in Int, base > 0, NEW c \in Int, c > 0
  PROVE  base \div c \in Int /\ base \div c >= 0
OBVIOUS

\* A total is that of its scores.
LEMMA TotalSame ==
  ASSUME NEW S, NEW g, NEW h, \A a \in S : g[a] = h[a]
  PROVE  Total(g, S) = Total(h, S)
<1>1. {{a} \X (1..g[a]) : a \in S} = {{a} \X (1..h[a]) : a \in S}
  OBVIOUS
<1> QED
  BY <1>1, Zenon DEF Total

\* The contributions to an entity within one window from start.
Within(evs, als, undated, start, entity) ==
  {a \in Contributors(evs, als, RiskOf.overrides, entity) :
     LET at == Contributions(evs, als, RiskOf.overrides, entity, undated).at[a] IN
     at >= start /\ at <= start + RiskOf.window}

\* What the alerts of the batch contribute to an entity.
LEMMA ItemsOf ==
  ASSUME NEW evs, NEW al, NEW overrides, NEW entity, NEW undated
  PROVE  LET items == Contributions(evs, al, overrides, entity, undated) IN
         \A a \in Contributors(evs, al, overrides, entity) :
           /\ items.at[a] = IF al[a].time = None THEN undated ELSE al[a].time
           /\ items.score[a] = Share(Score(overrides, al[a]), EntityValues(evs, al[a], entity[1]))
BY DEF Contributions, Contributors

\* Their total is the risk from start.
LEMMA RiskFromOf ==
  ASSUME Loaded, ~NoRiskEngine, NEW evs, NEW n, NEW ids, NEW als, AreAlerts(als, ids, n),
         NEW undated \in Int, NEW entity, NEW start \in Int
  PROVE  /\ InWindow(evs, als, undated, start, entity) = Within(evs, als, undated, start, entity)
         /\ RiskFrom(evs, als, undated, start, entity)
              = Total(Contributions(evs, als, RiskOf.overrides, entity, undated).score,
                      Within(evs, als, undated, start, entity))
<1> DEFINE overrides == RiskOf.overrides
           items == Contributions(evs, als, overrides, entity, undated)
           values(a) == EntityValues(evs, als[a], entity[1])
           inSpan == InWindow(evs, als, undated, start, entity)
           W == Within(evs, als, undated, start, entity)
           Part(a) == Score(RiskOf.overrides, als[a])
                        \div Cardinality(EntityValues(evs, als[a], entity[1]))
           parts == [a \in inSpan |-> IF Part(a) = 0 THEN 1 ELSE Part(a)]
<1>1. RiskFrom(evs, als, undated, start, entity) = Total(parts, inSpan)
  BY DEF RiskFrom
<1>2. AreScores(overrides)
  BY RiskOfIs DEF IsRisk
<1>3. /\ Contributors(evs, als, overrides, entity) = DOMAIN items.at
      /\ \A a \in DOMAIN items.at :
           /\ items.at[a] = IF als[a].time = None THEN undated ELSE als[a].time
           /\ items.score[a] = Share(Score(overrides, als[a]), values(a))
  BY ItemsOf, ContributorsOf
<1>4. inSpan = W
  <2>1. \A a \in DOMAIN als :
          a \in DOMAIN items.at <=> /\ Contributes(overrides, als[a])
                                    /\ entity[2] \in EntityValues(evs, als[a], entity[1])
    BY <1>3 DEF Contributors
  <2>2. DOMAIN items.at \subseteq DOMAIN als
    BY <1>3 DEF Contributors
  <2>3. W = {a \in DOMAIN items.at : items.at[a] >= start /\ items.at[a] <= start + RiskOf.window}
    BY <1>3 DEF Within
  <2>4. inSpan = {a \in DOMAIN als :
          LET at == IF als[a].time = None THEN undated ELSE als[a].time IN
          /\ at >= start /\ at <= start + RiskOf.window
          /\ Contributes(overrides, als[a])
          /\ entity[2] \in EntityValues(evs, als[a], entity[1])}
    BY Zenon DEF InWindow
  <2> HIDE DEF items, inSpan, W, overrides
  <2> QED
    BY <1>3, <2>1, <2>2, <2>3, <2>4
<1>5. ASSUME NEW a \in inSpan PROVE parts[a] = items.score[a]
  <2> DEFINE base == Score(overrides, als[a])
             c == Cardinality(values(a))
  <2>1. a \in DOMAIN als /\ Contributes(overrides, als[a]) /\ entity[2] \in values(a)
    BY <1>5 DEF InWindow
  <2>2. IsAlert(als[a], ids, n)
    BY <2>1, ListIsSeq DEF AreAlerts
  <2>3. c \in Int /\ c > 0
    <3>1. IsFiniteSet(values(a)) /\ values(a) # {}
      BY <2>1, <2>2, EntityValuesFinite
    <3> HIDE DEF values
    <3> QED
      BY <3>1, FS_CardinalityType, FS_EmptySet
  <2>4. base \in Int /\ base > 0
    <3>1. base > 0
      BY <2>1 DEF Contributes
    <3>2. CASE als[a].rule \in DOMAIN overrides
      BY <1>2, <3>1, <3>2 DEF Score, AreScores
    <3>3. CASE als[a].rule \notin DOMAIN overrides
      BY <3>1, <3>3, SeverityAssumption DEF Score, SeverityScore
    <3> QED
      BY <3>1, <3>2, <3>3
  <2> HIDE DEF inSpan
  <2>5. parts[a] = IF base \div c = 0 THEN 1 ELSE base \div c
    BY <1>5
  <2>6. a \in DOMAIN items.at
    BY <1>3, <1>4, <1>5 DEF Within
  <2>7. items.score[a] = IF base \div c < 1 THEN 1 ELSE base \div c
    BY <1>3, <2>6 DEF Share
  <2> HIDE DEF base, c, parts, items
  <2>8. base \div c \in Int /\ base \div c >= 0
    BY <2>3, <2>4, ShareNotNegative
  <2> QED
    BY <2>5, <2>7, <2>8
<1> HIDE DEF parts, inSpan, items, W
<1>6. Total(parts, inSpan) = Total(items.score, inSpan)
  BY <1>5, TotalSame
<1>7. RiskFrom(evs, als, undated, start, entity) = Total(items.score, W)
  BY <1>1, <1>4, <1>6
<1> QED
  BY <1>4, <1>7 DEF items, inSpan, W

\* The times windows start at are those of the alerts.
LEMMA StartsOf ==
  ASSUME NEW n, NEW ids, NEW als, AreAlerts(als, ids, n), NEW undated \in Int
  PROVE  /\ Starts(als, undated) \in SUBSET Int
         /\ \A a \in DOMAIN als :
              (IF als[a].time = None THEN undated ELSE als[a].time) \in Starts(als, undated)
<1>1. \A a \in ToSet(als) : a.time \in Int \union {None}
  BY DEF AreAlerts, IsAlert
<1>2. DOMAIN als = 1..Len(als) /\ \A a \in DOMAIN als : als[a].time \in Int \union {None}
  BY <1>1, ListIsSeq DEF AreAlerts
<1> QED
  BY <1>2 DEF Starts

\* The contributions that make an entity heavy lie within one window, from the first
\* of them on, whose risk reaches the threshold.
LEMMA HeavyInWindow ==
  ASSUME Loaded, ~NoRiskEngine, NEW evs, NEW n, NEW ids, NEW als, AreAlerts(als, ids, n),
         NEW undated \in Int, NEW entity, Heavy(evs, als, RiskOf, undated, entity)
  PROVE  \E start \in Starts(als, undated) :
           /\ RiskFrom(evs, als, undated, start, entity) >= RiskOf.threshold
           /\ \E S \in SUBSET InWindow(evs, als, undated, start, entity) :
                /\ S \in SUBSET Contributors(evs, als, RiskOf.overrides, entity) /\ S # {}
                /\ \A a, b \in S :
                     Contributions(evs, als, RiskOf.overrides, entity, undated).at[a]
                       - Contributions(evs, als, RiskOf.overrides, entity, undated).at[b] <= RiskOf.window
                /\ Total(Contributions(evs, als, RiskOf.overrides, entity, undated).score, S) >= RiskOf.threshold
<1> DEFINE items == Contributions(evs, als, RiskOf.overrides, entity, undated)
           C == Contributors(evs, als, RiskOf.overrides, entity)
<1>1. IsRisk(RiskOf) /\ AreScores(RiskOf.overrides)
  BY RiskOfIs DEF IsRisk
<1>2. /\ AreItems(items) /\ DOMAIN items.at = C
      /\ \A a \in C : items.at[a] = IF als[a].time = None THEN undated ELSE als[a].time
  <2>1. AreItems(items)
    BY <1>1, ContributionsOf
  <2>2. DOMAIN items.at = C
    BY ContributorsOf
  <2>3. \A a \in C : items.at[a] = IF als[a].time = None THEN undated ELSE als[a].time
    BY ItemsOf
  <2> QED
    BY <2>1, <2>2, <2>3
<1>3. /\ IsFiniteSet(C)
      /\ \A a \in C : items.at[a] \in Int /\ items.score[a] \in Nat
      /\ RiskOf.window \in Nat /\ RiskOf.threshold \in Int
  BY <1>1, <1>2 DEF AreItems, IsRisk
<1>4. Starts(als, undated) \in SUBSET Int /\ \A a \in C : items.at[a] \in Starts(als, undated)
  <2>1. C \subseteq DOMAIN als
    BY DEF Contributors
  <2> HIDE DEF C, items
  <2> QED
    BY <1>2, <2>1, StartsOf
<1>5. PICK S \in SUBSET C : /\ S # {} /\ \A a, b \in S : items.at[a] - items.at[b] <= RiskOf.window
                            /\ Total(items.score, S) >= RiskOf.threshold
  BY Zenon DEF Heavy
<1> HIDE DEF C, items
<1>6. PICK first \in S : S \intersect SortedTo(items, first) = {first}
  BY <1>2, <1>5, ItemsEnds
<1> DEFINE start == items.at[first]
           W == Within(evs, als, undated, start, entity)
<1>7. start \in Int /\ start \in Starts(als, undated)
  BY <1>3, <1>4, <1>5, <1>6
<1>8. \A a \in S : items.at[a] >= start /\ items.at[a] <= start + RiskOf.window
  <2> SUFFICES ASSUME NEW a \in S PROVE items.at[a] >= start /\ items.at[a] <= start + RiskOf.window
    OBVIOUS
  <2>1. items.at[a] \in Int /\ RiskOf.window \in Int /\ a \in DOMAIN items.at /\ first \in DOMAIN items.at
    BY <1>2, <1>3, <1>5, <1>6
  <2>2. items.at[a] - items.at[first] <= RiskOf.window
    BY <1>5, <1>6
  <2>3. a # first => ~(items.at[a] < items.at[first])
    BY <1>6, <2>1 DEF SortedTo
  <2> QED
    BY <1>7, <2>1, <2>2, <2>3
<1>9. S \in SUBSET W /\ W \in SUBSET C
  BY <1>5, <1>8 DEF Within, C, items
<1> HIDE DEF start, W
<1>10. /\ Total(items.score, W) \in Nat /\ Total(items.score, S) \in Nat
       /\ Total(items.score, S) <= Total(items.score, W)
  <2>1. IsFiniteSet(W) /\ \A a \in W : items.score[a] \in Nat
    BY <1>3, <1>9, FS_Subset
  <2>2. W \in SUBSET W
    OBVIOUS
  <2>3. Total(items.score, W) \in Nat
    BY <2>1, <2>2, TotalOf
  <2>4. Total(items.score, S) \in Nat /\ Total(items.score, S) <= Total(items.score, W)
    BY <1>9, <2>1, TotalOf
  <2> QED
    BY <2>3, <2>4
<1>11. /\ InWindow(evs, als, undated, start, entity) = W
       /\ RiskFrom(evs, als, undated, start, entity) = Total(items.score, W)
  BY <1>7, RiskFromOf DEF items, W
<1>12. RiskFrom(evs, als, undated, start, entity) >= RiskOf.threshold
  BY <1>3, <1>5, <1>10, <1>11
<1>13. /\ S \in SUBSET InWindow(evs, als, undated, start, entity)
       /\ S \in SUBSET C /\ S # {}
       /\ \A a, b \in S : items.at[a] - items.at[b] <= RiskOf.window
       /\ Total(items.score, S) >= RiskOf.threshold
  BY <1>5, <1>9, <1>11
<1> QED
  BY <1>7, <1>12, <1>13 DEF items, C

\* A window whose risk reaches a threshold above zero makes an entity heavy.
LEMMA WindowIsHeavy ==
  ASSUME Loaded, ~NoRiskEngine, NEW evs, NEW n, NEW ids, NEW als, AreAlerts(als, ids, n),
         NEW undated \in Int, NEW entity, RiskOf.threshold > 0,
         NEW start \in Starts(als, undated),
         RiskFrom(evs, als, undated, start, entity) >= RiskOf.threshold
  PROVE  Heavy(evs, als, RiskOf, undated, entity)
<1> DEFINE items == Contributions(evs, als, RiskOf.overrides, entity, undated)
           C == Contributors(evs, als, RiskOf.overrides, entity)
           S == Within(evs, als, undated, start, entity)
<1>1. IsRisk(RiskOf) /\ AreScores(RiskOf.overrides)
  BY RiskOfIs DEF IsRisk
<1>2. AreItems(items) /\ DOMAIN items.at = C
  <2>1. AreItems(items)
    BY <1>1, ContributionsOf
  <2>2. DOMAIN items.at = C
    BY ContributorsOf
  <2> QED
    BY <2>1, <2>2
<1>3. /\ IsFiniteSet(C)
      /\ \A a \in C : items.at[a] \in Int /\ items.score[a] \in Nat
      /\ RiskOf.window \in Nat /\ RiskOf.threshold \in Int
  BY <1>1, <1>2 DEF AreItems, IsRisk
<1>4. start \in Int
  BY StartsOf
<1>5. Heavy(evs, als, RiskOf, undated, entity)
        <=> \E T \in SUBSET C : /\ T # {} /\ \A a, b \in T : items.at[a] - items.at[b] <= RiskOf.window
                                /\ Total(items.score, T) >= RiskOf.threshold
  BY Zenon DEF Heavy
<1>6. Total(items.score, S) >= RiskOf.threshold
  <2>1. RiskFrom(evs, als, undated, start, entity) = Total(items.score, S)
    BY <1>4, RiskFromOf
  <2> QED
    BY <2>1
<1>7. S \in SUBSET C /\ \A a \in S : items.at[a] >= start /\ items.at[a] <= start + RiskOf.window
  BY DEF Within
<1> HIDE DEF S, C, items
<1>8. S # {}
  <2>1. Total(items.score, {}) = 0
    BY <1>3, TotalOf
  <2> QED
    BY <1>3, <1>6, <2>1
<1>9. \A a, b \in S : items.at[a] - items.at[b] <= RiskOf.window
  <2> SUFFICES ASSUME NEW a \in S, NEW b \in S PROVE items.at[a] - items.at[b] <= RiskOf.window
    OBVIOUS
  <2>1. items.at[a] \in Int /\ items.at[b] \in Int /\ RiskOf.window \in Int
    BY <1>3, <1>7
  <2>2. items.at[a] <= start + RiskOf.window /\ items.at[b] >= start
    BY <1>7
  <2> QED
    BY <1>4, <2>1, <2>2
<1> QED
  BY <1>5, <1>6, <1>7, <1>8, <1>9

\* There is a notable for a value exactly when some entity of that value collects
\* the threshold within some window (risk/engine.py 155-183, 226-249).
THEOREM NotablesAreBestWindows == Spec => []NotableIsBestWindow
<1>1. Shape /\ Risked => NotableIsBestWindow
  <2> DEFINE V == {EntityValues(events, a, f) : a \in ToSet(alerts), f \in RiskObjects}
             Risk(start, f, v) == RiskFrom(events, alerts, Now, start, <<f, v>>)
             T == Starts(alerts, Now)
             Reaches(v) == \E f \in RiskObjects, start \in T : Risk(start, f, v) >= RiskOf.threshold
             ids == Detected \union {TravelId, NotableId}
             n == Len(events)
  <2> SUFFICES ASSUME Shape, Risked, pc = "dedup", ~NoRiskEngine, RiskOf.threshold > 0,
                      NotableId \notin Ids
               PROVE  {a.group : a \in Notables} = {v \in Observed : Reaches(v)}
    BY DEF NotableIsBestWindow
  <2>0. Observed = UNION V
    BY DEF Observed
  <2>1. \A W : W \in V <=> \E a \in ToSet(alerts), f \in RiskObjects : W = EntityValues(events, a, f)
    OBVIOUS
  <2> HIDE DEF V
  <2>2. /\ \A f \in RiskObjects : \A v :
             Heavy(events, alerts, RiskOf, Now, <<f, v>>) => \E a \in Notables : a.group = v
        /\ \A a \in Notables : \E f \in RiskObjects : Heavy(events, alerts, RiskOf, Now, <<f, a.group>>)
    BY DEF Risked, RiskLooked
  <2>3. ASSUME NEW f \in RiskObjects, NEW v
        PROVE  (\E start \in T : Risk(start, f, v) >= RiskOf.threshold)
                 <=> Heavy(events, alerts, RiskOf, Now, <<f, v>>)
    <3> DEFINE entity == <<f, v>>
    <3>1. Loaded /\ AreAlerts(alerts, ids, n) /\ Now \in Int
      BY NowAssumption DEF Shape, Fitting
    <3> HIDE DEF entity, ids, n
    <3>2. ASSUME NEW start \in T, RiskFrom(events, alerts, Now, start, entity) >= RiskOf.threshold
          PROVE  Heavy(events, alerts, RiskOf, Now, entity)
      BY <3>1, <3>2, WindowIsHeavy
    <3>3. ASSUME Heavy(events, alerts, RiskOf, Now, entity)
          PROVE  \E start \in T : RiskFrom(events, alerts, Now, start, entity) >= RiskOf.threshold
      BY <3>1, <3>3, HeavyInWindow
    <3> HIDE DEF T
    <3> QED
      BY <3>2, <3>3 DEF entity
  <2>4. ASSUME NEW f \in RiskObjects, NEW v, Heavy(events, alerts, RiskOf, Now, <<f, v>>)
        PROVE  v \in Observed
    <3> DEFINE entity == <<f, v>>
    <3>1. entity[1] = f /\ entity[2] = v
      OBVIOUS
    <3> HIDE DEF entity
    <3>2. PICK S \in SUBSET Contributors(events, alerts, RiskOf.overrides, entity) : S # {}
      <4>1. Heavy(events, alerts, RiskOf, Now, entity)
        BY <2>4 DEF entity
      <4> QED
        BY <4>1 DEF Heavy
    <3>3. PICK a \in DOMAIN alerts : v \in EntityValues(events, alerts[a], f)
      BY <3>1, <3>2 DEF Contributors
    <3>4. alerts[a] \in ToSet(alerts)
      BY DEF ToSet
    <3>5. EntityValues(events, alerts[a], f) \in V
      BY <2>1, <3>4
    <3> QED
      BY <2>0, <3>3, <3>5
  <2> HIDE DEF Risk, T
  <2>5. ASSUME NEW a \in Notables PROVE a.group \in {v \in Observed : Reaches(v)}
    <3>1. PICK f \in RiskObjects : Heavy(events, alerts, RiskOf, Now, <<f, a.group>>)
      BY <2>2
    <3>2. a.group \in Observed
      BY <2>4, <3>1
    <3>3. Reaches(a.group)
      BY <2>3, <3>1
    <3> HIDE DEF Reaches
    <3> QED
      BY <3>2, <3>3
  <2>6. ASSUME NEW v, Reaches(v) PROVE v \in {a.group : a \in Notables}
    <3>1. PICK f \in RiskObjects : Heavy(events, alerts, RiskOf, Now, <<f, v>>)
      BY <2>3, <2>6
    <3> QED
      BY <2>2, <3>1
  <2> HIDE DEF Reaches
  <2> QED
    BY <2>5, <2>6
<1> QED
  BY <1>1, ShapeInvariant, RiskedInvariant, PTL

-----------------------------------------------------------------------------
(* The leaderboard. *)

\* A total does not shrink when its summands are renamed.
LEMMA TotalMoved ==
  ASSUME NEW S, NEW g, NEW T, IsFiniteSet(T), NEW h, \A b \in T : h[b] \in Nat,
         NEW move, \A a \in S : move[a] \in T /\ h[move[a]] = g[a],
         \A a, b \in S : move[a] = move[b] => a = b, Total(g, S) \in Nat
  PROVE  Total(g, S) <= Total(h, T)
<1> DEFINE P(a) == {a} \X (1..g[a])
           Q(b) == {b} \X (1..h[b])
           U == UNION {P(a) : a \in S}
           W == UNION {Q(b) : b \in T}
           f == [p \in U |-> <<move[p[1]], p[2]>>]
<1>1. Total(g, S) = Cardinality(U) /\ Total(h, T) = Cardinality(W)
  BY DEF Total
<1>2. ASSUME NEW p \in U PROVE p[1] \in S /\ p[2] \in 1..g[p[1]] /\ p = <<p[1], p[2]>>
  OBVIOUS
<1>3. ASSUME NEW b \in T, NEW i \in 1..h[b] PROVE <<b, i>> \in W
  OBVIOUS
<1>4. IsFiniteSet(W)
  <2> DEFINE k == [b \in T |-> Q(b)]
  <2>1. DOMAIN k = T /\ IsFiniteSet(T)
    OBVIOUS
  <2>2. \A b \in T : IsFiniteSet(Q(b))
    <3> SUFFICES ASSUME NEW b \in T PROVE IsFiniteSet(Q(b))
      OBVIOUS
    <3>1. IsFiniteSet(1..h[b]) /\ IsFiniteSet({b})
      BY UpToFinite, FS_Singleton
    <3> QED
      BY <3>1, FS_Product
  <2>3. \A b \in T : k[b] = Q(b)
    OBVIOUS
  <2> DEFINE parts == {k[b] : b \in T}
  <2>4. UNION parts = W
    OBVIOUS
  <2> HIDE DEF Q, k, W
  <2>5. IsFiniteSet(parts)
    BY <2>1, FiniteValues
  <2>6. \A part \in parts : IsFiniteSet(part)
    BY <2>2, <2>3
  <2> HIDE DEF parts
  <2> QED
    BY <2>4, <2>5, <2>6, FS_UNION
<1> HIDE DEF U, W
<1>5. f \in [U -> W]
  <2> SUFFICES ASSUME NEW p \in U PROVE <<move[p[1]], p[2]>> \in W
    OBVIOUS
  <2> QED
    BY <1>2, <1>3
<1>6. ASSUME NEW p \in U, NEW q \in U, f[p] = f[q] PROVE p = q
  <2>1. move[p[1]] = move[q[1]] /\ p[2] = q[2]
    BY <1>6
  <2>2. p[1] = q[1]
    BY <1>2, <2>1
  <2> QED
    BY <1>2, <2>1, <2>2
<1> HIDE DEF f
<1>7. f \in Injection(U, W)
  BY <1>5, <1>6 DEF Injection, IsInjective
<1>8. Cardinality(U) <= Cardinality(W)
  BY <1>4, <1>7, FS_Injection
<1> QED
  BY <1>1, <1>8

\* An alert that says the same about the same events, counted from elsewhere.
Mirrors(evs, a, more, b) ==
  /\ b.rule = a.rule /\ b.level = a.level /\ b.group = a.group /\ b.time = a.time
  /\ \A x \in ToSet(a.events) : \E y \in ToSet(b.events) : more[y] = evs[x]
  /\ \A y \in ToSet(b.events) : \E x \in ToSet(a.events) : more[y] = evs[x]

\* It weighs the same.
LEMMA MirroredWeighs ==
  ASSUME NEW evs, NEW a, NEW more, NEW b, Mirrors(evs, a, more, b), NEW field, NEW overrides
  PROVE  /\ EntityValues(more, b, field) = EntityValues(evs, a, field)
         /\ Score(overrides, b) = Score(overrides, a)
         /\ Contributes(overrides, b) <=> Contributes(overrides, a)
<1>1. {more[y].get[field] : y \in ToSet(b.events)} = {evs[x].get[field] : x \in ToSet(a.events)}
  BY DEF Mirrors
<1>2. EntityValues(more, b, field) = EntityValues(evs, a, field)
  BY <1>1 DEF Mirrors, EntityValues
<1>3. Score(overrides, b) = Score(overrides, a)
  BY DEF Mirrors, Score
<1> QED
  BY <1>2, <1>3 DEF Mirrors, Contributes

\* Alerts that bring an entity over the threshold, whenever those without a time count:
\* they are all without one, or dated within one window.
Brought(evs, als, entity, S) ==
  /\ S \in SUBSET Contributors(evs, als, RiskOf.overrides, entity) /\ S # {}
  /\ \A j, k \in S : \/ als[j].time = None /\ als[k].time = None
                     \/ als[j].time # None /\ als[k].time # None /\ als[j].time - als[k].time <= RiskOf.window
  /\ Total(Contributions(evs, als, RiskOf.overrides, entity, 0).score, S) >= RiskOf.threshold

\* Alerts mirrored one by one, each by another.
Moves(evs, als, more, mals, S, move) ==
  /\ \A k \in S : move[k] \in DOMAIN als /\ Mirrors(evs, als[move[k]], more, mals[k])
  /\ \A j, k \in S : move[j] = move[k] => j = k
MovedTo(move, S) == {move[k] : k \in S}

\* What they mirror brings it over the threshold too.
LEMMA BroughtMoved ==
  ASSUME Loaded, ~NoRiskEngine,
         NEW evs, NEW n, NEW ids, NEW als, AreAlerts(als, ids, n),
         NEW more, NEW m, NEW mals, AreAlerts(mals, ids, m),
         NEW entity, NEW S, Brought(more, mals, entity, S),
         NEW move, Moves(evs, als, more, mals, S, move)
  PROVE  Brought(evs, als, entity, MovedTo(move, S))
<1> DEFINE old == Contributions(more, mals, RiskOf.overrides, entity, 0)
           new == Contributions(evs, als, RiskOf.overrides, entity, 0)
           C == Contributors(more, mals, RiskOf.overrides, entity)
           D == Contributors(evs, als, RiskOf.overrides, entity)
           T == {move[k] : k \in S}
<1>0. /\ \A k \in S : move[k] \in DOMAIN als /\ Mirrors(evs, als[move[k]], more, mals[k])
      /\ \A j, k \in S : move[j] = move[k] => j = k
  BY DEF Moves
<1>1. AreScores(RiskOf.overrides) /\ RiskOf.threshold \in Int /\ RiskOf.window \in Nat /\ 0 \in Int
  BY RiskOfIs DEF IsRisk
<1>2. /\ AreItems(old) /\ DOMAIN old.at = C
      /\ \A k \in C : old.score[k] = Share(Score(RiskOf.overrides, mals[k]), EntityValues(more, mals[k], entity[1]))
  <2>1. AreItems(old)
    BY <1>1, ContributionsOf
  <2>2. DOMAIN old.at = C
    BY ContributorsOf
  <2>3. \A k \in C : old.score[k] = Share(Score(RiskOf.overrides, mals[k]), EntityValues(more, mals[k], entity[1]))
    BY ItemsOf
  <2> QED
    BY <2>1, <2>2, <2>3
<1>3. /\ AreItems(new) /\ DOMAIN new.at = D
      /\ \A a \in D : new.score[a] = Share(Score(RiskOf.overrides, als[a]), EntityValues(evs, als[a], entity[1]))
  <2>1. AreItems(new)
    BY <1>1, ContributionsOf
  <2>2. DOMAIN new.at = D
    BY ContributorsOf
  <2>3. \A a \in D : new.score[a] = Share(Score(RiskOf.overrides, als[a]), EntityValues(evs, als[a], entity[1]))
    BY ItemsOf
  <2> QED
    BY <2>1, <2>2, <2>3
<1>4. /\ S \in SUBSET C /\ S # {} /\ Total(old.score, S) >= RiskOf.threshold
      /\ \A j, k \in S : \/ mals[j].time = None /\ mals[k].time = None
                         \/ /\ mals[j].time # None /\ mals[k].time # None
                            /\ mals[j].time - mals[k].time <= RiskOf.window
  BY DEF Brought
<1>5. ASSUME NEW k \in S
      PROVE  /\ move[k] \in D /\ als[move[k]].time = mals[k].time
             /\ Score(RiskOf.overrides, mals[k]) = Score(RiskOf.overrides, als[move[k]])
             /\ EntityValues(more, mals[k], entity[1]) = EntityValues(evs, als[move[k]], entity[1])
  <2> DEFINE a == als[move[k]]
             b == mals[k]
  <2>1. Mirrors(evs, a, more, b) /\ move[k] \in DOMAIN als
    BY <1>0
  <2>2. Contributes(RiskOf.overrides, b) /\ entity[2] \in EntityValues(more, b, entity[1])
    BY <1>4 DEF Contributors
  <2> HIDE DEF a, b
  <2>3. EntityValues(more, b, entity[1]) = EntityValues(evs, a, entity[1])
    BY <2>1, MirroredWeighs
  <2>4. Score(RiskOf.overrides, b) = Score(RiskOf.overrides, a)
    BY <2>1, MirroredWeighs
  <2>5. Contributes(RiskOf.overrides, b) <=> Contributes(RiskOf.overrides, a)
    BY <2>1, MirroredWeighs
  <2>6. a.time = b.time
    BY <2>1 DEF Mirrors
  <2>7. move[k] \in D
    BY <2>1, <2>2, <2>3, <2>5 DEF Contributors, a
  <2> QED
    BY <2>3, <2>4, <2>6, <2>7 DEF a, b
<1> HIDE DEF old, new, C, D
<1>6. \A k \in S : new.score[move[k]] = old.score[k]
  BY <1>2, <1>3, <1>4, <1>5
<1>7. T \in SUBSET D /\ T # {}
  BY <1>4, <1>5
<1>8. \A a, b \in T : \/ als[a].time = None /\ als[b].time = None
                      \/ als[a].time # None /\ als[b].time # None /\ als[a].time - als[b].time <= RiskOf.window
  BY <1>4, <1>5
<1>9. Total(new.score, T) >= RiskOf.threshold
  <2>1. IsFiniteSet(S) /\ IsFiniteSet(T)
    <3>1. IsFiniteSet(C) /\ IsFiniteSet(D)
      BY <1>2, <1>3 DEF AreItems
    <3> QED
      BY <1>4, <1>7, <3>1, FS_Subset
  <2>2. (\A k \in S : old.score[k] \in Nat) /\ \A a \in T : new.score[a] \in Nat
    BY <1>2, <1>3, <1>4, <1>7 DEF AreItems
  <2>3. \A k \in S : move[k] \in T /\ new.score[move[k]] = old.score[k]
    BY <1>6
  <2> HIDE DEF T
  <2> DEFINE before == old.score
             after == new.score
  <2>4. Total(before, S) \in Nat /\ Total(after, T) \in Nat
    <3>1. \A k \in S : before[k] \in Nat
      BY <2>2
    <3>2. \A k \in T : after[k] \in Nat
      BY <2>2
    <3> HIDE DEF before, after
    <3> QED
      BY <2>1, <3>1, <3>2, TotalOf
  <2>5. Total(before, S) <= Total(after, T)
    BY <1>0, <2>1, <2>2, <2>3, <2>4, TotalMoved
  <2> QED
    BY <1>1, <1>4, <2>4, <2>5
<1> QED
  BY <1>7, <1>8, <1>9 DEF Brought, new, D, MovedTo

\* What brings an entity over the threshold makes it heavy.
LEMMA BroughtIsHeavy ==
  ASSUME Loaded, ~NoRiskEngine, NEW evs, NEW n, NEW ids, NEW als, AreAlerts(als, ids, n),
         NEW undated \in Int, NEW entity, NEW S, Brought(evs, als, entity, S)
  PROVE  Heavy(evs, als, RiskOf, undated, entity)
<1> DEFINE items == Contributions(evs, als, RiskOf.overrides, entity, undated)
           zero == Contributions(evs, als, RiskOf.overrides, entity, 0)
           C == Contributors(evs, als, RiskOf.overrides, entity)
<1>1. \A a \in C : /\ items.at[a] = IF als[a].time = None THEN undated ELSE als[a].time
                   /\ items.score[a] = Share(Score(RiskOf.overrides, als[a]), EntityValues(evs, als[a], entity[1]))
  BY ItemsOf
<1>2. \A a \in C : zero.score[a] = Share(Score(RiskOf.overrides, als[a]), EntityValues(evs, als[a], entity[1]))
  BY ItemsOf
<1>3. /\ S \in SUBSET C /\ S # {} /\ Total(zero.score, S) >= RiskOf.threshold
      /\ \A j, k \in S : \/ als[j].time = None /\ als[k].time = None
                         \/ als[j].time # None /\ als[k].time # None /\ als[j].time - als[k].time <= RiskOf.window
  BY DEF Brought
<1>4. RiskOf.window \in Nat
  BY RiskOfIs DEF IsRisk
<1>5. Heavy(evs, als, RiskOf, undated, entity)
        <=> \E T \in SUBSET C : /\ T # {} /\ \A a, b \in T : items.at[a] - items.at[b] <= RiskOf.window
                                /\ Total(items.score, T) >= RiskOf.threshold
  BY Zenon DEF Heavy
<1> DEFINE whole == items.score
           part == zero.score
<1>6. \A a \in S : whole[a] = part[a]
  BY <1>1, <1>2, <1>3
<1>7. Total(part, S) >= RiskOf.threshold
  BY <1>3
<1> HIDE DEF whole, part
<1>8. Total(whole, S) = Total(part, S)
  BY <1>6, TotalSame
<1>9. Total(items.score, S) >= RiskOf.threshold
  BY <1>7, <1>8 DEF whole
<1> HIDE DEF C, items, zero
<1>10. \A a, b \in S : items.at[a] - items.at[b] <= RiskOf.window
  <2> SUFFICES ASSUME NEW a \in S, NEW b \in S PROVE items.at[a] - items.at[b] <= RiskOf.window
    OBVIOUS
  <2>1. /\ items.at[a] = IF als[a].time = None THEN undated ELSE als[a].time
        /\ items.at[b] = IF als[b].time = None THEN undated ELSE als[b].time
    BY <1>1, <1>3
  <2>2. CASE als[a].time = None /\ als[b].time = None
    <3>1. items.at[a] = undated /\ items.at[b] = undated
      BY <2>1, <2>2
    <3> QED
      BY <1>4, <3>1
  <2>3. CASE als[a].time # None /\ als[b].time # None /\ als[a].time - als[b].time <= RiskOf.window
    BY <2>1, <2>3
  <2> QED
    BY <1>3, <2>2, <2>3
<1> QED
  BY <1>3, <1>5, <1>9, <1>10

\* What the store holds.
StoreFits(store) ==
  /\ IsList(store.events) /\ IsList(store.batch) /\ Len(store.batch) = Len(store.alerts)
  /\ AreAlerts(store.alerts, Detected \union {TravelId, NotableId}, Len(store.events))

\* What the records of one batch brought over the threshold has its notable.
StoreNoted(store) ==
  \A f \in RiskObjects : \A v, S :
    (Brought(store.events, store.alerts, <<f, v>>, S) /\ \A j, k \in S : store.batch[j] = store.batch[k])
      => \E a \in ToSet(store.alerts) : a.rule = NotableId /\ a.group = v

\* The batches the store has records of are over.
StoreBefore(store) ==
  \A k \in 1..Len(store.alerts) :
    /\ store.batch[k] \in Int /\ store.batch[k] <= batch
    /\ pc \notin {"start", "done", "failed"} => store.batch[k] < batch

\* The store holds the records of the batches before.
Archived ==
  /\ StoreFits(archive) /\ StoreBefore(archive)
  /\ pc \in Building => archive = NoArchive
  /\ ~NoRiskEngine /\ NotableId \notin Ids => StoreNoted(archive)

\* A list after another, place by place.
LEMMA ConcatPlaces ==
  ASSUME NEW s, NEW t, IsList(s), IsList(t)
  PROVE  /\ IsList(s \o t) /\ Len(s \o t) = Len(s) + Len(t)
         /\ Len(s) \in Nat /\ Len(t) \in Nat
         /\ \A k \in 1..Len(s) : (s \o t)[k] = s[k]
         /\ \A k \in 1..Len(t) : (s \o t)[Len(s) + k] = t[k]
<1> DEFINE S == ToSet(s) \union ToSet(t)
<1>1. IsList(s \o t) /\ Len(s \o t) = Len(s) + Len(t)
  BY ListConcat
<1>2. s \in Seq(S) /\ t \in Seq(S) /\ Len(s) \in Nat /\ Len(t) \in Nat
  <2>1. s \in Seq(ToSet(s)) /\ t \in Seq(ToSet(t)) /\ Len(s) \in Nat /\ Len(t) \in Nat
    BY ListIsSeq
  <2> QED
    BY <2>1
<1> HIDE DEF S
<1>3. \A k \in 1..(Len(s) + Len(t)) : (s \o t)[k] = IF k <= Len(s) THEN s[k] ELSE t[k - Len(s)]
  BY <1>2
<1>4. \A k \in 1..Len(s) : (s \o t)[k] = s[k]
  BY <1>2, <1>3
<1>5. ASSUME NEW k \in 1..Len(t) PROVE (s \o t)[Len(s) + k] = t[k]
  <2>1. Len(s) + k \in 1..(Len(s) + Len(t)) /\ ~(Len(s) + k <= Len(s)) /\ (Len(s) + k) - Len(s) = k
    BY <1>2
  <2> QED
    BY <1>3, <2>1
<1> QED
  BY <1>1, <1>2, <1>4, <1>5

\* A record of an alert says what the alert says.
LEMMA RecordOf ==
  ASSUME NEW ids, NEW n \in Nat, NEW a, IsAlert(a, ids, n), NEW evs, NEW more, NEW shift \in Nat,
         \A e \in 1..n : more[shift + e] = evs[e]
  PROVE  IsAlert(Record(a, shift), ids, shift + n) /\ Mirrors(evs, a, more, Record(a, shift))
<1> DEFINE b == Record(a, shift)
           moved == [k \in DOMAIN a.events |-> a.events[k] + shift]
<1>1. /\ AlertFields \subseteq DOMAIN a /\ a.rule \in ids /\ IsList(a.events)
      /\ ToSet(a.events) \subseteq 1..n /\ a.time \in Int \union {None}
  BY DEF IsAlert
<1>2. /\ DOMAIN b = DOMAIN a /\ b.events = moved
      /\ b.rule = a.rule /\ b.level = a.level /\ b.group = a.group /\ b.time = a.time
  BY <1>1 DEF Record, AlertFields
<1> HIDE DEF b
<1>3. DOMAIN a.events = 1..Len(a.events) /\ Len(a.events) \in Nat
  BY <1>1, ListIsSeq
<1>4. \A k \in 1..Len(a.events) : a.events[k] \in 1..n /\ a.events[k] \in ToSet(a.events)
  BY <1>1, <1>3 DEF ToSet
<1>5. moved \in [1..Len(a.events) -> 1..(shift + n)]
  BY <1>3, <1>4
<1>6. ToSet(moved) = {a.events[k] + shift : k \in 1..Len(a.events)}
  BY <1>3 DEF ToSet
<1>7. IsList(moved) /\ ToSet(moved) \subseteq 1..(shift + n)
  <2>1. moved \in Seq(1..(shift + n))
    BY <1>3, <1>5, IsSeq
  <2> HIDE DEF moved
  <2> QED
    BY <2>1, ListIsSeq
<1> HIDE DEF moved
<1>8. IsAlert(b, ids, shift + n)
  BY <1>1, <1>2, <1>7 DEF IsAlert
<1>9. ASSUME NEW k \in 1..Len(a.events) PROVE more[a.events[k] + shift] = evs[a.events[k]]
  <2>1. a.events[k] \in 1..n /\ a.events[k] + shift = shift + a.events[k]
    BY <1>4
  <2> QED
    BY <2>1
<1>10. ASSUME NEW x \in ToSet(a.events) PROVE \E y \in ToSet(b.events) : more[y] = evs[x]
  <2>1. PICK k \in 1..Len(a.events) : x = a.events[k]
    BY <1>3 DEF ToSet
  <2>2. a.events[k] + shift \in ToSet(b.events)
    BY <1>2, <1>6
  <2> QED
    BY <1>9, <2>1, <2>2
<1>11. ASSUME NEW y \in ToSet(b.events) PROVE \E x \in ToSet(a.events) : more[y] = evs[x]
  <2>1. PICK k \in 1..Len(a.events) : y = a.events[k] + shift
    BY <1>2, <1>6
  <2> QED
    BY <1>4, <1>9, <2>1
<1>12. Mirrors(evs, a, more, b)
  BY <1>2, <1>10, <1>11 DEF Mirrors
<1> QED
  BY <1>8, <1>12 DEF b

\* An empty store.
LEMMA EmptyStore == StoreFits(NoArchive) /\ StoreNoted(NoArchive) /\ Len(NoArchive.alerts) = 0
<1>1. NoArchive.events = <<>> /\ NoArchive.alerts = <<>> /\ NoArchive.batch = <<>>
  BY DEF NoArchive
<1>2. IsList(<<>>) /\ ToSet(<<>>) = {} /\ DOMAIN <<>> = {} /\ Len(<<>>) = 0
  BY DEF IsList, ToSet
<1>3. StoreFits(NoArchive)
  BY <1>1, <1>2 DEF StoreFits, AreAlerts
<1>4. StoreNoted(NoArchive)
  BY <1>1, <1>2 DEF StoreNoted, Brought, Contributors
<1> QED
  BY <1>1, <1>2, <1>3, <1>4

\* What the store holds after a batch.
LEMMA EmittedOf ==
  ASSUME Shape, NEW store, StoreFits(store),
         NEW K, IsList(K), ToSet(K) \subseteq 1..Len(alerts)
  PROVE  /\ StoreFits(Emitted(store, K))
         /\ Len(Emitted(store, K).alerts) = Len(store.alerts) + Len(K)
         /\ \A k \in 1..Len(store.alerts) :
              /\ Emitted(store, K).alerts[k] = store.alerts[k]
              /\ Emitted(store, K).batch[k] = store.batch[k]
              /\ Mirrors(store.events, store.alerts[k], Emitted(store, K).events, Emitted(store, K).alerts[k])
         /\ \A k \in 1..Len(K) :
              /\ K[k] \in 1..Len(alerts)
              /\ Emitted(store, K).batch[Len(store.alerts) + k] = batch
              /\ Mirrors(events, alerts[K[k]], Emitted(store, K).events,
                         Emitted(store, K).alerts[Len(store.alerts) + k])
<1> DEFINE ids == Detected \union {TravelId, NotableId}
           n == Len(events)
           m == Len(store.events)
           p == Len(store.alerts)
           q == Len(K)
           recs == [k \in DOMAIN K |-> Record(alerts[K[k]], m)]
           marks == [k \in DOMAIN K |-> batch]
           new == Emitted(store, K)
<1>1. /\ AreAlerts(alerts, ids, n) /\ AreAlerts(store.alerts, ids, m)
      /\ IsList(events) /\ IsList(store.events) /\ IsList(store.batch) /\ IsList(store.alerts)
      /\ Len(store.batch) = p
  BY DEF Shape, Fitting, AreEvents, StoreFits, AreAlerts
<1>2. n \in Nat /\ m \in Nat /\ p \in Nat /\ q \in Nat /\ DOMAIN K = 1..q
  BY <1>1, ListIsSeq
<1>3. new.events = store.events \o events /\ new.alerts = store.alerts \o recs /\ new.batch = store.batch \o marks
  BY DEF Emitted
<1> HIDE DEF new, ids
<1>4. \A k \in 1..q : K[k] \in 1..Len(alerts)
  BY <1>2 DEF ToSet
<1>5. \A a \in 1..Len(alerts) : IsAlert(alerts[a], ids, n)
  BY <1>1, ListIsSeq DEF AreAlerts
<1>6. /\ IsList(new.events) /\ Len(new.events) = m + n
      /\ \A e \in 1..m : new.events[e] = store.events[e]
      /\ \A e \in 1..n : new.events[m + e] = events[e]
  BY <1>1, <1>3, ConcatPlaces
<1> DEFINE Rec(k) == Record(alerts[K[k]], m)
<1>7. ASSUME NEW k \in 1..q
      PROVE  IsAlert(Rec(k), ids, m + n) /\ Mirrors(events, alerts[K[k]], new.events, Rec(k))
  <2> DEFINE a == alerts[K[k]]
  <2>1. IsAlert(a, ids, n)
    BY <1>4, <1>5
  <2> HIDE DEF a
  <2>2. IsAlert(Record(a, m), ids, m + n) /\ Mirrors(events, a, new.events, Record(a, m))
    BY <1>2, <1>6, <2>1, RecordOf
  <2> QED
    BY <2>2 DEF a
<1>8. recs = [k \in 1..q |-> Rec(k)] /\ marks = [k \in 1..q |-> batch]
  BY <1>2
<1> DEFINE R == {a : a \in {Rec(k) : k \in 1..q}}
<1> HIDE DEF Rec, recs, marks, n, m
<1>9. recs \in [1..q -> R] /\ marks \in [1..q -> {batch}]
  BY <1>8
<1>10. IsList(recs) /\ IsList(marks) /\ Len(recs) = q /\ Len(marks) = q /\ ToSet(recs) \subseteq R
  <2> HIDE DEF R
  <2>1. recs \in Seq(R) /\ Len(recs) = q
    BY <1>2, <1>9, IsSeq
  <2>2. marks \in Seq({batch}) /\ Len(marks) = q
    BY <1>2, <1>9, IsSeq
  <2>3. IsList(recs) /\ ToSet(recs) \subseteq R
    BY <2>1, ListIsSeq
  <2>4. IsList(marks)
    BY <2>2, ListIsSeq
  <2> QED
    BY <2>1, <2>2, <2>3, <2>4
<1>11. /\ IsList(new.alerts) /\ Len(new.alerts) = p + q
       /\ \A k \in 1..p : new.alerts[k] = store.alerts[k]
       /\ \A k \in 1..q : new.alerts[p + k] = recs[k]
  <2> DEFINE s == store.alerts
             t == recs
  <2>1. IsList(s) /\ IsList(t) /\ Len(s) = p /\ Len(t) = q /\ new.alerts = s \o t
    BY <1>1, <1>3, <1>10
  <2> HIDE DEF s, t
  <2> HIDE DEF p, q, R
  <2>2. IsList(s \o t) /\ Len(s \o t) = Len(s) + Len(t)
    BY <2>1, ConcatPlaces
  <2>3. \A k \in 1..Len(s) : (s \o t)[k] = s[k]
    BY <2>1, ConcatPlaces
  <2>4. \A k \in 1..Len(t) : (s \o t)[Len(s) + k] = t[k]
    BY <2>1, ConcatPlaces
  <2> QED
    BY <2>1, <2>2, <2>3, <2>4 DEF s, t
<1>12. /\ IsList(new.batch) /\ Len(new.batch) = p + q
       /\ \A k \in 1..p : new.batch[k] = store.batch[k]
       /\ \A k \in 1..q : new.batch[p + k] = marks[k]
  <2> DEFINE s == store.batch
             t == marks
  <2>1. IsList(s) /\ IsList(t) /\ Len(s) = p /\ Len(t) = q /\ new.batch = s \o t
    BY <1>1, <1>3, <1>10
  <2> HIDE DEF s, t
  <2> HIDE DEF p, q, R
  <2>2. IsList(s \o t) /\ Len(s \o t) = Len(s) + Len(t)
    BY <2>1, ConcatPlaces
  <2>3. \A k \in 1..Len(s) : (s \o t)[k] = s[k]
    BY <2>1, ConcatPlaces
  <2>4. \A k \in 1..Len(t) : (s \o t)[Len(s) + k] = t[k]
    BY <2>1, ConcatPlaces
  <2> QED
    BY <2>1, <2>2, <2>3, <2>4 DEF s, t
<1>13. ToSet(new.alerts) = ToSet(store.alerts) \union ToSet(recs)
  BY <1>1, <1>3, <1>10, ListConcat
<1>14. ASSUME NEW a \in ToSet(new.alerts) PROVE IsAlert(a, ids, m + n)
  <2>1. CASE a \in ToSet(store.alerts)
    <3>1. IsAlert(a, ids, m) /\ 1..m \subseteq 1..(m + n)
      BY <1>1, <1>2, <2>1 DEF AreAlerts, m, n
    <3> QED
      BY <3>1 DEF IsAlert
  <2>2. CASE a \in ToSet(recs)
    BY <1>7, <1>10, <2>2
  <2> QED
    BY <1>13, <2>1, <2>2
<1>15. StoreFits(new)
  BY <1>6, <1>11, <1>12, <1>14 DEF StoreFits, AreAlerts, ids
<1>16. ASSUME NEW k \in 1..p
       PROVE  Mirrors(store.events, store.alerts[k], new.events, new.alerts[k])
  <2>1. IsAlert(store.alerts[k], ids, m)
    BY <1>1, ListIsSeq DEF AreAlerts
  <2>2. ToSet(store.alerts[k].events) \subseteq 1..m
    BY <2>1 DEF IsAlert
  <2>3. new.alerts[k] = store.alerts[k]
    BY <1>11
  <2> DEFINE a == store.alerts[k]
             b == new.alerts[k]
  <2> HIDE DEF a, b
  <2>4. b = a /\ \A e \in ToSet(a.events) : new.events[e] = store.events[e]
    BY <1>6, <2>2, <2>3 DEF a, b
  <2>5. Mirrors(store.events, a, new.events, b)
    BY <2>4 DEF Mirrors
  <2> QED
    BY <2>5 DEF a, b
<1>17. ASSUME NEW k \in 1..q
       PROVE  /\ new.batch[p + k] = batch
              /\ Mirrors(events, alerts[K[k]], new.events, new.alerts[p + k])
  <2>1. new.alerts[p + k] = Rec(k) /\ new.batch[p + k] = batch
    BY <1>8, <1>11, <1>12
  <2> QED
    BY <1>7, <2>1
<1> HIDE DEF p, q
<1>18. Len(new.alerts) = p + q
  BY <1>11
<1>19. \A k \in 1..p : new.alerts[k] = store.alerts[k] /\ new.batch[k] = store.batch[k]
  BY <1>11, <1>12
<1> QED
  BY <1>4, <1>15, <1>16, <1>17, <1>18, <1>19 DEF new, p, q

\* A notable names a value.
LEMMA NotableNames ==
  ASSUME Shape, Risked, RiskLooked, NotableId \notin Ids, NEW a \in Notables
  PROVE  a.group # None
<1>1. PICK f \in RiskObjects : Heavy(events, alerts, RiskOf, Now, <<f, a.group>>)
  BY DEF Risked
<1> DEFINE entity == <<f, a.group>>
<1>2. entity[1] = f /\ entity[2] = a.group
  OBVIOUS
<1>3. Heavy(events, alerts, RiskOf, Now, entity)
  BY <1>1
<1> HIDE DEF entity
<1>4. PICK S \in SUBSET Contributors(events, alerts, RiskOf.overrides, entity) : S # {}
  BY <1>3, Zenon DEF Heavy
<1>5. PICK b \in DOMAIN alerts : a.group \in EntityValues(events, alerts[b], f)
  BY <1>2, <1>4 DEF Contributors
<1>6. None \notin EntityValues(events, alerts[b], f)
  BY IpAssumption DEF EntityValues
<1> QED
  BY <1>5, <1>6

\* The store after a batch has the notable of whoever its records of one batch brought
\* over the threshold.
LEMMA EmittedNoted ==
  ASSUME Shape, Risked, RiskLooked, NotableId \notin Ids,
         NEW store, StoreFits(store), StoreNoted(store),
         \A k \in 1..Len(store.alerts) : store.batch[k] \in Int /\ store.batch[k] < batch
  PROVE  StoreNoted(Emitted(store, Filtered))
<1> DEFINE K == Filtered
           new == Emitted(store, K)
           p == Len(store.alerts)
           q == Len(K)
           ids == Detected \union {TravelId, NotableId}
<1>1. /\ IsList(K) /\ ToSet(K) \subseteq 1..Len(alerts)
      /\ \A j, k \in 1..q : K[j] = K[k] => j = k
      /\ \A a \in 1..Len(alerts) : \E b \in ToSet(K) : DedupKey(alerts[b]) = DedupKey(alerts[a])
  BY FilteredOf
<1> HIDE DEF K
<1>2. /\ StoreFits(new) /\ Len(new.alerts) = p + q
      /\ \A k \in 1..p : /\ new.alerts[k] = store.alerts[k] /\ new.batch[k] = store.batch[k]
                         /\ Mirrors(store.events, store.alerts[k], new.events, new.alerts[k])
      /\ \A k \in 1..q : /\ K[k] \in 1..Len(alerts) /\ new.batch[p + k] = batch
                         /\ Mirrors(events, alerts[K[k]], new.events, new.alerts[p + k])
  BY <1>1, EmittedOf
<1> HIDE DEF new
<1>3. /\ Loaded /\ ~NoRiskEngine
      /\ AreAlerts(alerts, ids, Len(events))
      /\ AreAlerts(store.alerts, ids, Len(store.events)) /\ AreAlerts(new.alerts, ids, Len(new.events))
  BY <1>2 DEF Shape, Fitting, RiskLooked, StoreFits
<1> HIDE DEF ids
<1>4. /\ p \in Nat /\ q \in Nat /\ DOMAIN K = 1..q
      /\ DOMAIN new.alerts = 1..(p + q) /\ DOMAIN store.alerts = 1..p /\ DOMAIN alerts = 1..Len(alerts)
  BY <1>1, <1>2, <1>3, ListIsSeq DEF AreAlerts
<1> HIDE DEF p, q
<1> SUFFICES ASSUME NEW f \in RiskObjects, NEW v, NEW S,
                    Brought(new.events, new.alerts, <<f, v>>, S),
                    \A j, k \in S : new.batch[j] = new.batch[k]
             PROVE  \E a \in ToSet(new.alerts) : a.rule = NotableId /\ a.group = v
  BY DEF StoreNoted, new, K
<1> DEFINE entity == <<f, v>>
<1>5. Brought(new.events, new.alerts, entity, S)
  OBVIOUS
<1> HIDE DEF entity
<1>6. S \in SUBSET (1..(p + q)) /\ S # {}
  BY <1>4, <1>5 DEF Brought, Contributors
<1>7. ASSUME NEW j \in S, j <= p, NEW k \in S PROVE k <= p
  <2>1. j \in 1..p /\ j \in 1..(p + q) /\ k \in 1..(p + q)
    BY <1>4, <1>6, <1>7
  <2>2. new.batch[j] < batch /\ new.batch[j] \in Int
    BY <1>2, <2>1 DEF p
  <2>3. ASSUME ~(k <= p) PROVE FALSE
    <3>1. k - p \in 1..q /\ p + (k - p) = k
      BY <1>4, <2>1, <2>3
    <3>2. new.batch[k] = batch
      BY <1>2, <3>1
    <3>3. new.batch[j] = new.batch[k]
      OBVIOUS
    <3> QED
      BY <2>2, <3>2, <3>3
  <2> QED
    BY <2>3
<1>8. CASE \E j \in S : j <= p
  <2>1. S \in SUBSET (1..p)
    BY <1>4, <1>6, <1>7, <1>8
  <2> DEFINE move == [k \in S |-> k]
             T == {move[k] : k \in S}
  <2>2. T = S
    OBVIOUS
  <2>3. /\ \A k \in S : move[k] \in DOMAIN store.alerts
                        /\ Mirrors(store.events, store.alerts[move[k]], new.events, new.alerts[k])
        /\ \A j, k \in S : move[j] = move[k] => j = k
    BY <1>2, <1>4, <2>1
  <2> DEFINE more == new.events
             mals == new.alerts
             evs == store.events
             als == store.alerts
             m == Len(new.events)
             n == Len(store.events)
  <2>4. Brought(store.events, store.alerts, entity, T)
    <3>1. AreAlerts(als, ids, n) /\ AreAlerts(mals, ids, m) /\ Brought(more, mals, entity, S)
      BY <1>3, <1>5
    <3>2. Moves(evs, als, more, mals, S, move)
      BY <2>3 DEF Moves
    <3> HIDE DEF move, more, mals, evs, als, m, n
    <3>3. Brought(evs, als, entity, MovedTo(move, S))
      BY <1>3, <3>1, <3>2, BroughtMoved
    <3> QED
      BY <3>3 DEF evs, als, MovedTo
  <2>5. Brought(store.events, store.alerts, <<f, v>>, S)
    BY <2>2, <2>4 DEF entity
  <2>6. \A j, k \in S : store.batch[j] = store.batch[k]
    BY <1>2, <2>1
  <2>7. PICK a \in ToSet(store.alerts) : a.rule = NotableId /\ a.group = v
    BY <2>5, <2>6 DEF StoreNoted
  <2>8. PICK k \in 1..p : a = store.alerts[k]
    BY <1>4 DEF ToSet
  <2>9. a = new.alerts[k] /\ k \in DOMAIN new.alerts
    BY <1>2, <1>4, <2>8
  <2>10. a \in ToSet(new.alerts)
    BY <2>9 DEF ToSet
  <2> QED
    BY <2>7, <2>10
<1>9. CASE \A j \in S : ~(j <= p)
  <2>1. \A k \in S : k - p \in 1..q /\ p + (k - p) = k /\ k \in Int
    BY <1>4, <1>6, <1>9
  <2> DEFINE move == [k \in S |-> K[k - p]]
             T == {move[k] : k \in S}
  <2>2. ASSUME NEW k \in S
        PROVE  move[k] \in DOMAIN alerts /\ Mirrors(events, alerts[move[k]], new.events, new.alerts[k])
    <3>1. k - p \in 1..q /\ p + (k - p) = k
      BY <2>1
    <3> DEFINE i == k - p
    <3>2. K[i] \in 1..Len(alerts) /\ Mirrors(events, alerts[K[i]], new.events, new.alerts[p + i])
      BY <1>2, <3>1
    <3> QED
      BY <1>4, <3>1, <3>2
  <2>3. ASSUME NEW j \in S, NEW k \in S, move[j] = move[k] PROVE j = k
    <3>1. j - p = k - p
      BY <1>1, <2>1, <2>3 DEF q
    <3>2. p + (j - p) = j /\ p + (k - p) = k
      BY <2>1
    <3> QED
      BY <3>1, <3>2
  <2> DEFINE more == new.events
             mals == new.alerts
             m == Len(new.events)
             n == Len(events)
  <2>4. Brought(events, alerts, entity, T)
    <3>1. AreAlerts(alerts, ids, n) /\ AreAlerts(mals, ids, m) /\ Brought(more, mals, entity, S)
      BY <1>3, <1>5
    <3>2. Moves(events, alerts, more, mals, S, move)
      BY <2>2, <2>3 DEF Moves
    <3> HIDE DEF move, more, mals, m, n
    <3>3. Brought(events, alerts, entity, MovedTo(move, S))
      BY <1>3, <3>1, <3>2, BroughtMoved
    <3> QED
      BY <3>3 DEF MovedTo
  <2> HIDE DEF T
  <2>5. Heavy(events, alerts, RiskOf, Now, entity)
    BY <1>3, <2>4, NowAssumption, BroughtIsHeavy
  <2>6. PICK a \in Notables : a.group = v
    BY <2>5 DEF Risked, entity
  <2>7. PICK x \in 1..Len(alerts) : a = alerts[x]
    BY <1>4 DEF Notables, ToSet
  <2>8. PICK y \in ToSet(K) : DedupKey(alerts[y]) = DedupKey(alerts[x])
    BY <1>1
  <2>9. PICK k \in 1..q : y = K[k]
    BY <1>4 DEF ToSet
  <2> DEFINE b == alerts[y]
  <2>10. b \in ToSet(alerts) /\ y \in 1..Len(alerts)
    BY <1>2, <1>4, <2>9 DEF ToSet
  <2>11. a.rule = NotableId /\ a.group # None
    BY NotableNames DEF Notables
  <2>12. DedupKey(a) = <<NotableId, v>>
    BY <2>6, <2>11 DEF DedupKey
  <2> HIDE DEF b
  <2>13. DedupKey(b) = <<NotableId, v>>
    BY <2>7, <2>8, <2>12 DEF b
  <2>14. b.rule = NotableId
    BY <2>13 DEF DedupKey
  <2>15. b.group # None
    BY <2>10, <2>14, NotableNames DEF Notables
  <2>16. b.group = v
    BY <2>13, <2>15 DEF DedupKey
  <2>17. Mirrors(events, b, new.events, new.alerts[p + k])
    BY <1>2, <2>9 DEF b
  <2>18. new.alerts[p + k].rule = NotableId /\ new.alerts[p + k].group = v
    BY <2>14, <2>16, <2>17 DEF Mirrors
  <2>19. p + k \in DOMAIN new.alerts
    BY <1>4
  <2> QED
    BY <2>18, <2>19 DEF ToSet
<1> QED
  BY <1>8, <1>9

\* Every step leaves the store with the records of the batches before.
LEMMA ArchivedStep == Shape /\ Risked /\ Tallied /\ Archived /\ [Next]_vars => Archived'
<1> SUFFICES ASSUME Shape, Risked, Tallied, Archived, [Next]_vars PROVE Archived'
  OBVIOUS
<1>0. batch \in Nat
  BY Lengths DEF Shape, Position
<1>1. CASE Deduplicate
  <2> DEFINE new == Emitted(archive, Filtered)
             fresh == Emitted(NoArchive, Filtered)
  <2>1. /\ pc = "dedup" /\ pc' = "start" /\ kept' = Filtered
        /\ archive' \in {archive, new, fresh}
        /\ UNCHANGED <<input, rules, correlations, batch>>
    BY <1>1 DEF Deduplicate, built
  <2>2. /\ Detected' = Detected /\ RiskOf' = RiskOf /\ Ids' = Ids /\ NoRiskEngine' = NoRiskEngine
    <3>1. Detected' = Detected
      BY <2>1, LoadedSame DEF Shape
    <3> QED
      BY <2>1, <3>1 DEF RiskOf, Ids, NoRiskEngine
  <2>3. StoreFits(archive) /\ \A k \in 1..Len(archive.alerts) : archive.batch[k] \in Int /\ archive.batch[k] < batch
    BY <2>1 DEF Archived, StoreBefore
  <2>4. StoreFits(NoArchive) /\ Len(NoArchive.alerts) = 0
    BY EmptyStore
  <2>5. /\ IsList(Filtered) /\ ToSet(Filtered) \subseteq 1..Len(alerts)
    BY FilteredOf
  <2> HIDE DEF new, fresh
  <2>6. ASSUME NEW store, StoreFits(store),
               \A k \in 1..Len(store.alerts) : store.batch[k] \in Int /\ store.batch[k] < batch
        PROVE  /\ StoreFits(Emitted(store, Filtered))
               /\ \A k \in 1..Len(Emitted(store, Filtered).alerts) :
                    Emitted(store, Filtered).batch[k] \in Int /\ Emitted(store, Filtered).batch[k] <= batch
    <3> DEFINE K == Filtered
               more == Emitted(store, K)
               p == Len(store.alerts)
               q == Len(K)
    <3>1. IsList(K) /\ ToSet(K) \subseteq 1..Len(alerts)
      BY <2>5
    <3> HIDE DEF K
    <3>2. /\ StoreFits(more) /\ Len(more.alerts) = p + q
          /\ \A k \in 1..p : more.batch[k] = store.batch[k]
          /\ \A k \in 1..q : more.batch[p + k] = batch
      BY <2>6, <3>1, EmittedOf
    <3>3. p \in Nat /\ q \in Nat
      BY <2>6, <3>1, ListIsSeq DEF StoreFits, AreAlerts
    <3> HIDE DEF more
    <3>4. ASSUME NEW k \in 1..(p + q) PROVE more.batch[k] \in Int /\ more.batch[k] <= batch
      <4>1. CASE k <= p
        <5>1. k \in 1..p
          BY <3>3, <4>1
        <5>2. more.batch[k] \in Int /\ more.batch[k] < batch
          BY <2>6, <3>2, <5>1
        <5> QED
          BY <1>0, <5>2
      <4>2. CASE ~(k <= p)
        <5>1. k - p \in 1..q /\ p + (k - p) = k
          BY <3>3, <4>2
        <5>2. more.batch[k] = batch
          BY <3>2, <5>1
        <5> QED
          BY <1>0, <5>2
      <4> QED
        BY <4>1, <4>2
    <3> QED
      BY <3>2, <3>4 DEF more, K
  <2>7. /\ StoreFits(archive')
        /\ \A k \in 1..Len(archive'.alerts) : archive'.batch[k] \in Int /\ archive'.batch[k] <= batch
    <3>1. StoreFits(new) /\ \A k \in 1..Len(new.alerts) : new.batch[k] \in Int /\ new.batch[k] <= batch
      BY <2>3, <2>6 DEF new
    <3>2. StoreFits(fresh) /\ \A k \in 1..Len(fresh.alerts) : fresh.batch[k] \in Int /\ fresh.batch[k] <= batch
      <4>1. \A k \in 1..Len(NoArchive.alerts) : NoArchive.batch[k] \in Int /\ NoArchive.batch[k] < batch
        BY <2>4
      <4> QED
        BY <2>4, <2>6, <4>1 DEF fresh
    <3>3. \A k \in 1..Len(archive.alerts) : archive.batch[k] \in Int /\ archive.batch[k] <= batch
      BY <1>0, <2>3
    <3>4. CASE archive' = new
      BY <3>1, <3>4
    <3>5. CASE archive' = fresh
      BY <3>2, <3>5
    <3>6. CASE archive' = archive
      BY <2>3, <3>3, <3>6
    <3> QED
      BY <2>1, <3>4, <3>5, <3>6
  <2>8. ASSUME ~NoRiskEngine, NotableId \notin Ids PROVE StoreNoted(archive')
    <3>1. RiskLooked /\ StoreNoted(archive)
      BY <2>1, <2>8 DEF RiskLooked, Archived
    <3>2. StoreNoted(new)
      BY <2>3, <2>8, <3>1, EmittedNoted DEF new
    <3>3. StoreNoted(fresh)
      <4>1. StoreNoted(NoArchive)
        BY EmptyStore
      <4>2. \A k \in 1..Len(NoArchive.alerts) : NoArchive.batch[k] \in Int /\ NoArchive.batch[k] < batch
        BY <2>4
      <4> QED
        BY <2>4, <2>8, <3>1, <4>1, <4>2, EmittedNoted DEF fresh
    <3>4. CASE archive' = new
      BY <3>2, <3>4
    <3>5. CASE archive' = fresh
      BY <3>3, <3>5
    <3>6. CASE archive' = archive
      BY <3>1, <3>6
    <3> QED
      BY <2>1, <3>4, <3>5, <3>6
  <2>9. StoreFits(archive)' /\ StoreBefore(archive)'
    BY <2>1, <2>2, <2>7 DEF StoreFits, StoreBefore
  <2>10. (~NoRiskEngine /\ NotableId \notin Ids => StoreNoted(archive))'
    BY <2>2, <2>8 DEF StoreNoted, Brought
  <2> QED
    BY <2>1, <2>9, <2>10 DEF Archived, Building
<1>2. CASE pc \in Building
  <2>1. archive = NoArchive /\ archive' = NoArchive
    BY <1>2 DEF Archived, Building, Next, Build, Run, vars, Fail, LoadCases, LoadCasesFails, Load, LoadFails,
                BuildEnricher, BuildEnricherFails, Import, ImportFails, Start, EnrichBatch, Evaluate,
                EvaluateFails, Collect, CorrelateNext, CorrelateFails, Behave, BehaveFails, Assess,
                AssessFails, NoRisk, Summarise, Deduplicate, DeduplicateFails, ScoreBatch, Finish
  <2>2. StoreFits(archive)' /\ StoreBefore(archive)' /\ StoreNoted(archive)'
    <3>1. StoreFits(NoArchive)' /\ StoreNoted(NoArchive)' /\ (Len(NoArchive.alerts) = 0)'
      BY EmptyStore, PTL
    <3>2. (archive = NoArchive)'
      BY <2>1 DEF NoArchive
    <3>3. StoreFits(archive)' /\ StoreNoted(archive)' /\ (Len(archive.alerts) = 0)'
      BY <3>1, <3>2
    <3> QED
      BY <3>3 DEF StoreBefore
  <2> QED
    BY <2>1, <2>2 DEF Archived, NoArchive
<1>3. CASE pc \notin Building /\ ~Deduplicate
  <2>1. /\ UNCHANGED <<input, rules, correlations, archive>>
        /\ pc' \notin Building
        /\ \/ batch' = batch /\ (pc' \in {"start", "done", "failed"} \/ pc \notin {"start", "done", "failed"})
           \/ batch' = batch + 1
    BY <1>3 DEF Building, Next, Build, Run, vars, built, Fail, LoadCases, LoadCasesFails, Load, LoadFails,
                BuildEnricher, BuildEnricherFails, Import, ImportFails, Start, EnrichBatch, Evaluate,
                EvaluateFails, Collect, CorrelateNext, CorrelateFails, Behave, BehaveFails, Assess,
                AssessFails, NoRisk, Summarise, DeduplicateFails, ScoreBatch, Finish
  <2>2. /\ Detected' = Detected /\ RiskOf' = RiskOf /\ Ids' = Ids /\ NoRiskEngine' = NoRiskEngine
    <3>1. Detected' = Detected
      BY <2>1, LoadedSame DEF Shape
    <3> QED
      BY <2>1, <3>1 DEF RiskOf, Ids, NoRiskEngine
  <2>3. StoreFits(archive)'
    BY <2>1, <2>2 DEF Archived, StoreFits
  <2>4. StoreBefore(archive)'
    <3> SUFFICES ASSUME NEW k \in 1..Len(archive.alerts)
                 PROVE  /\ archive.batch[k] \in Int /\ archive.batch[k] <= batch'
                        /\ pc' \notin {"start", "done", "failed"} => archive.batch[k] < batch'
      BY <2>1 DEF StoreBefore
    <3>1. /\ archive.batch[k] \in Int /\ archive.batch[k] <= batch
          /\ pc \notin {"start", "done", "failed"} => archive.batch[k] < batch
      BY DEF Archived, StoreBefore
    <3> DEFINE at == archive.batch[k]
    <3> HIDE DEF at
    <3>2. at \in Int /\ at <= batch /\ (pc \notin {"start", "done", "failed"} => at < batch)
      BY <3>1 DEF at
    <3>3. at <= batch' /\ (pc' \notin {"start", "done", "failed"} => at < batch')
      BY <1>0, <2>1, <3>2
    <3> QED
      BY <3>2, <3>3 DEF at
  <2>5. (~NoRiskEngine /\ NotableId \notin Ids => StoreNoted(archive))'
    BY <2>1, <2>2 DEF Archived, StoreNoted, Brought
  <2> QED
    BY <2>1, <2>3, <2>4, <2>5 DEF Archived
<1> QED
  BY <1>1, <1>2, <1>3

\* The dashboard's leaderboard marks only entities that collected the threshold within
\* one window of everything stored; one that the alerts of a single batch brought there
\* has its notable in the store (risk/engine.py 155-222, dashboard/app.py 87-94, 178-191).
THEOREM BoardMarksNotables == Spec => []BoardWithinNotables
<1>1. Shape /\ Archived => BoardWithinNotables
  <2> DEFINE evs == archive.events
             als == archive.alerts
             n == Len(archive.events)
             ids == Detected \union {TravelId, NotableId}
  <2> SUFFICES ASSUME Shape, Archived, pc = "start", ~NoRiskEngine, NotableId \notin Ids,
                      \A a \in ToSet(als) : a.time = None \/ a.time > RiskOf.window,
                      NEW row \in Leaderboard(evs, als, RiskOf), row.over
               PROVE  \E start \in Starts(als, 0) :
                        /\ RiskFrom(evs, als, 0, start, row.entity) >= RiskOf.threshold
                        /\ \/ Noted(row.entity[2])
                           \/ Mixed(InWindow(evs, als, 0, start, row.entity))
    BY DEF BoardWithinNotables
  <2>1. /\ Loaded /\ AreAlerts(als, ids, n) /\ IsRisk(RiskOf) /\ AreScores(RiskOf.overrides) /\ 0 \in Int
        /\ StoreNoted(archive)
    BY RiskOfIs DEF Shape, IsRisk, Archived, StoreFits
  <2> HIDE DEF evs, als, ids, n
  <2>2. PICK e \in Entities(evs, als, RiskOf.overrides) :
          row.entity = e /\ OverThreshold(RiskOf, Assessment(evs, als, RiskOf, 0)[e])
    <3>1. DOMAIN Assessment(evs, als, RiskOf, 0) = Entities(evs, als, RiskOf.overrides)
      BY DEF Assessment
    <3> QED
      BY <3>1 DEF Leaderboard
  <2>3. e[1] \in RiskObjects /\ e = <<e[1], e[2]>>
    BY <2>1, AssessedOf
  <2>4. Heavy(evs, als, RiskOf, 0, e)
    BY <2>1, <2>2, OverIsHeavy
  <2> DEFINE items == Contributions(evs, als, RiskOf.overrides, e, 0)
             C == Contributors(evs, als, RiskOf.overrides, e)
  <2>5. PICK start \in Starts(als, 0) :
          /\ RiskFrom(evs, als, 0, start, e) >= RiskOf.threshold
          /\ \E S \in SUBSET InWindow(evs, als, 0, start, e) :
               /\ S \in SUBSET C /\ S # {}
               /\ \A a, b \in S : items.at[a] - items.at[b] <= RiskOf.window
               /\ Total(items.score, S) >= RiskOf.threshold
    BY <2>1, <2>4, HeavyInWindow
  <2>6. PICK S \in SUBSET InWindow(evs, als, 0, start, e) :
          /\ S \in SUBSET C /\ S # {}
          /\ \A a, b \in S : items.at[a] - items.at[b] <= RiskOf.window
          /\ Total(items.score, S) >= RiskOf.threshold
    BY <2>5
  <2>7. \A a \in C : /\ items.at[a] = IF als[a].time = None THEN 0 ELSE als[a].time
                     /\ a \in DOMAIN als
    BY ItemsOf DEF Contributors
  <2>8. \A a \in DOMAIN als : als[a].time = None \/ (als[a].time > RiskOf.window /\ als[a].time \in Int)
    <3>1. \A a \in DOMAIN als : als[a] \in ToSet(als)
      BY DEF ToSet
    <3>2. \A a \in ToSet(als) : a.time \in Int \union {None}
      BY <2>1 DEF AreAlerts, IsAlert
    <3> QED
      BY <3>1, <3>2
  <2>9. RiskOf.window \in Nat
    BY <2>1 DEF IsRisk
  <2>10. \A j, k \in S : \/ als[j].time = None /\ als[k].time = None
                         \/ als[j].time # None /\ als[k].time # None /\ als[j].time - als[k].time <= RiskOf.window
    <3> HIDE DEF items, C
    <3> SUFFICES ASSUME NEW j \in S, NEW k \in S
                 PROVE  \/ als[j].time = None /\ als[k].time = None
                        \/ als[j].time # None /\ als[k].time # None /\ als[j].time - als[k].time <= RiskOf.window
      OBVIOUS
    <3>1. items.at[j] - items.at[k] <= RiskOf.window /\ items.at[k] - items.at[j] <= RiskOf.window
      BY <2>6
    <3>2. /\ items.at[j] = IF als[j].time = None THEN 0 ELSE als[j].time
          /\ items.at[k] = IF als[k].time = None THEN 0 ELSE als[k].time
      BY <2>6, <2>7
    <3>3. /\ als[j].time = None \/ (als[j].time > RiskOf.window /\ als[j].time \in Int)
          /\ als[k].time = None \/ (als[k].time > RiskOf.window /\ als[k].time \in Int)
      BY <2>6, <2>7, <2>8
    <3> QED
      BY <2>9, <3>1, <3>2, <3>3
  <2>11. Brought(evs, als, e, S)
    BY <2>6, <2>10 DEF Brought
  <2>12. ASSUME ~Mixed(InWindow(evs, als, 0, start, e)) PROVE Noted(e[2])
    <3>1. \A j, k \in S : archive.batch[j] = archive.batch[k]
      BY <2>6, <2>12 DEF Mixed
    <3> DEFINE f == e[1]
               v == e[2]
    <3>2. Brought(archive.events, archive.alerts, <<f, v>>, S)
      BY <2>3, <2>11 DEF evs, als
    <3>3. \E a \in ToSet(archive.alerts) : a.rule = NotableId /\ a.group = v
      BY <2>1, <2>3, <3>1, <3>2 DEF StoreNoted
    <3> QED
      BY <3>3 DEF Noted
  <2> HIDE DEF items, C
  <2> QED
    BY <2>2, <2>5, <2>12
<1>2. Init => Archived
  <2>1. ASSUME Init PROVE Archived
    <3>1. archive = NoArchive
      BY <2>1 DEF Init
    <3>2. StoreFits(archive) /\ StoreNoted(archive) /\ Len(archive.alerts) = 0
      BY <3>1, EmptyStore
    <3> QED
      BY <3>1, <3>2 DEF Archived, StoreBefore
  <2> QED
    BY <2>1
<1> QED
  BY <1>1, <1>2, ShapeInvariant, RiskedInvariant, TalliedInvariant, ArchivedStep, PTL DEF Spec

-----------------------------------------------------------------------------
(* Selections, whatever order their maps and fields are looked at in. *)

\* A map, and a selection, by its fields alone.
MapHolds(event, entries) ==
  \A entry \in ToSet(entries) : \E v \in entry.values : <<event.get[entry.field], entry.modifier, v>> \in Matching
SelectionHolds(event, spec) == \E k \in DOMAIN spec.maps : MapHolds(event, spec.maps[k])

\* The maps of a selection and their entries stand in order.
InOrder(spec) == DOMAIN spec.maps \in SUBSET Nat /\ \A k \in DOMAIN spec.maps : DOMAIN spec.maps[k] \in SUBSET Nat

\* FirstIn returns an element of the set if there is one, or else the default.
LEMMA FirstInIs ==
  ASSUME NEW seq, DOMAIN seq \in SUBSET Nat, NEW S, NEW default
  PROVE  IF \E k \in DOMAIN seq : seq[k] \in S
         THEN \E k \in DOMAIN seq : seq[k] \in S /\ FirstIn(seq, S, default) = seq[k]
         ELSE FirstIn(seq, S, default) = default
<1> DEFINE hits == {k \in DOMAIN seq : seq[k] \in S}
<1>1. FirstIn(seq, S, default) = IF hits = {} THEN default ELSE seq[Min(hits)]
  BY DEF FirstIn
<1>2. hits \in SUBSET DOMAIN seq /\ hits \in SUBSET Int /\ (\A k \in hits : 0 <= k) /\ (\A k \in hits : seq[k] \in S)
  OBVIOUS
<1>3. (\E k \in DOMAIN seq : seq[k] \in S) <=> hits # {}
  OBVIOUS
<1> HIDE DEF hits
<1>4. hits # {} => Min(hits) \in hits
  BY <1>2, SmallestElement
<1> QED
  BY <1>1, <1>2, <1>3, <1>4

\* What a map comes to.
LEMMA MapMeans ==
  ASSUME NEW event, NEW entries, DOMAIN entries \in SUBSET Nat
  PROVE  /\ MapResult(event, entries) = "match" => MapHolds(event, entries)
         /\ MapHolds(event, entries) => MapResult(event, entries) \in {"match", "ValueError"}
         /\ MapResult(event, entries) = "ValueError" => \E entry \in ToSet(entries) : entry.modifier \notin Modifiers
<1> DEFINE fields == [k \in DOMAIN entries |-> FieldResult(event, entries[k])]
           S == {"miss", "ValueError"}
<1>1. MapResult(event, entries) = FirstIn(fields, S, "match")
  BY DEF MapResult
<1>2. /\ DOMAIN fields = DOMAIN entries /\ DOMAIN fields \in SUBSET Nat
      /\ \A k \in DOMAIN entries : fields[k] = FieldResult(event, entries[k])
  OBVIOUS
<1>3. \A k \in DOMAIN entries : entries[k] \in ToSet(entries)
  BY DEF ToSet
<1>4. \A entry \in ToSet(entries) : \E k \in DOMAIN entries : entry = entries[k]
  BY DEF ToSet
<1>5. \A entry :
        LET hit == \E v \in entry.values : <<event.get[entry.field], entry.modifier, v>> \in Matching IN
        /\ FieldResult(event, entry) \in {"match", "miss", "ValueError"}
        /\ FieldResult(event, entry) = "match" => hit
        /\ FieldResult(event, entry) = "miss" => ~hit
        /\ FieldResult(event, entry) = "ValueError" => entry.modifier \notin Modifiers
  BY DEF FieldResult
<1> HIDE DEF fields
<1>6. IF \E k \in DOMAIN fields : fields[k] \in S
      THEN \E k \in DOMAIN fields : fields[k] \in S /\ FirstIn(fields, S, "match") = fields[k]
      ELSE FirstIn(fields, S, "match") = "match"
  BY <1>2, FirstInIs
<1>7. CASE \E k \in DOMAIN fields : fields[k] \in S
  <2>1. PICK k \in DOMAIN entries : fields[k] \in S /\ MapResult(event, entries) = fields[k]
    BY <1>1, <1>2, <1>6, <1>7
  <2>2. fields[k] = FieldResult(event, entries[k]) /\ entries[k] \in ToSet(entries)
    BY <1>2, <1>3
  <2>3. CASE fields[k] = "miss"
    BY <1>5, <2>1, <2>2, <2>3 DEF MapHolds
  <2>4. CASE fields[k] = "ValueError"
    BY <1>5, <2>1, <2>2, <2>4
  <2> QED
    BY <2>1, <2>3, <2>4
<1>8. CASE ~ \E k \in DOMAIN fields : fields[k] \in S
  <2>1. MapResult(event, entries) = "match"
    BY <1>1, <1>6, <1>8
  <2>2. \A k \in DOMAIN entries : FieldResult(event, entries[k]) = "match"
    BY <1>2, <1>5, <1>8
  <2>3. MapHolds(event, entries)
    BY <1>4, <1>5, <2>2 DEF MapHolds
  <2> QED
    BY <2>1, <2>3
<1> QED
  BY <1>7, <1>8

\* What a selection comes to, unless it raises, and what raises.
LEMMA SelectionMeans ==
  ASSUME NEW event, NEW spec, InOrder(spec)
  PROVE  /\ SelectionResult(event, spec) # "ValueError" =>
              (SelectionResult(event, spec) = "match" <=> SelectionHolds(event, spec))
         /\ SelectionResult(event, spec) = "ValueError" => Refuses(spec)
<1>1. CASE spec.shape = "keywords"
  BY <1>1 DEF SelectionResult, Refuses
<1>2. CASE spec.shape # "keywords"
  <2> DEFINE results == [k \in DOMAIN spec.maps |-> MapResult(event, spec.maps[k])]
             S == {"match", "ValueError"}
  <2>1. SelectionResult(event, spec) = FirstIn(results, S, "miss")
    BY <1>2 DEF SelectionResult
  <2>2. /\ DOMAIN results = DOMAIN spec.maps /\ DOMAIN results \in SUBSET Nat
        /\ \A k \in DOMAIN spec.maps : results[k] = MapResult(event, spec.maps[k])
    BY DEF InOrder
  <2> HIDE DEF results
  <2>3. IF \E k \in DOMAIN results : results[k] \in S
        THEN \E k \in DOMAIN results : results[k] \in S /\ FirstIn(results, S, "miss") = results[k]
        ELSE FirstIn(results, S, "miss") = "miss"
    BY <2>2, FirstInIs
  <2>4. ASSUME NEW k \in DOMAIN spec.maps
        PROVE  /\ results[k] = "match" => MapHolds(event, spec.maps[k])
               /\ MapHolds(event, spec.maps[k]) => results[k] \in S
               /\ results[k] = "ValueError" => \E entry \in ToSet(spec.maps[k]) : entry.modifier \notin Modifiers
    <3>1. DOMAIN spec.maps[k] \in SUBSET Nat
      BY DEF InOrder
    <3> QED
      BY <2>2, <3>1, MapMeans
  <2>5. CASE \E k \in DOMAIN results : results[k] \in S
    <3>1. PICK k \in DOMAIN spec.maps : results[k] \in S /\ SelectionResult(event, spec) = results[k]
      BY <2>1, <2>2, <2>3, <2>5
    <3>2. CASE results[k] = "match"
      BY <2>4, <3>1, <3>2 DEF SelectionHolds
    <3>3. CASE results[k] = "ValueError"
      <4>1. PICK entry \in ToSet(spec.maps[k]) : entry.modifier \notin Modifiers
        BY <2>4, <3>3
      <4>2. Refuses(spec)
        BY <4>1 DEF Refuses
      <4> QED
        BY <3>1, <3>3, <4>2
    <3> QED
      BY <3>1, <3>2, <3>3
  <2>6. CASE ~ \E k \in DOMAIN results : results[k] \in S
    <3>1. SelectionResult(event, spec) = "miss"
      BY <2>1, <2>3, <2>6
    <3>2. ~SelectionHolds(event, spec)
      BY <2>2, <2>4, <2>6 DEF SelectionHolds
    <3> QED
      BY <3>1, <3>2
  <2> QED
    BY <2>5, <2>6
<1> QED
  BY <1>1, <1>2

\* What a rule detects is written as the engine reads it.
IsWritten(rule) == IsCondition(rule.condition) /\ \A n \in DOMAIN rule.selections : InOrder(rule.selections[n])

\* A rule means an event exactly when evaluate_rule finds it matching.
LEMMA MeansIs ==
  ASSUME NEW rule, IsWritten(rule), NEW event, ParseCondition(rule.condition) = "none",
         \A n \in DOMAIN rule.selections : SelectionResult(event, rule.selections[n]) # "ValueError"
  PROVE  Means(rule, event) <=> InLogsource(rule, event) /\ Holds(rule.condition, Results(rule, event))
<1> DEFINE results == Results(rule, event)
<1>1. results = Holding(rule, event)
  <2>1. \A n \in DOMAIN rule.selections :
          /\ SelectionResult(event, rule.selections[n]) = "match" <=> SelectionHolds(event, rule.selections[n])
          /\ SelectionHolds(event, rule.selections[n]) \in BOOLEAN
    <3> SUFFICES ASSUME NEW n \in DOMAIN rule.selections
                 PROVE  /\ SelectionResult(event, rule.selections[n]) = "match"
                             <=> SelectionHolds(event, rule.selections[n])
                        /\ SelectionHolds(event, rule.selections[n]) \in BOOLEAN
      OBVIOUS
    <3>1. InOrder(rule.selections[n])
      BY DEF IsWritten
    <3>2. SelectionHolds(event, rule.selections[n]) \in BOOLEAN
      BY DEF SelectionHolds
    <3>3. SelectionResult(event, rule.selections[n]) = "match" <=> SelectionHolds(event, rule.selections[n])
      BY <3>1, SelectionMeans
    <3> QED
      BY <3>2, <3>3
  <2>2. Holding(rule, event) = [n \in DOMAIN rule.selections |-> SelectionHolds(event, rule.selections[n])]
    BY DEF Holding, SelectionHolds, MapHolds
  <2>3. results = [n \in DOMAIN rule.selections |-> SelectionResult(event, rule.selections[n]) = "match"]
    BY DEF Results
  <2> HIDE DEF results
  <2> QED
    BY <2>1, <2>2, <2>3
<1>2. \A name \in DOMAIN results : results[name] \in BOOLEAN
  BY DEF Results
<1>3. Len(rule.condition.search) \in Nat
  BY DEF IsWritten, IsCondition, IsList
<1> HIDE DEF results
<1>4. /\ Meaning(rule.condition, results) = {Holds(rule.condition, results)}
      /\ Meaning(rule.condition, results) \subseteq BOOLEAN
  BY <1>2, <1>3, ParserIsGrammar
<1>5. Holds(rule.condition, results) \in BOOLEAN
  BY <1>4
<1>6. Meaning(rule.condition, results) = {TRUE} <=> Holds(rule.condition, results)
  <2> DEFINE h == Holds(rule.condition, results)
             m == Meaning(rule.condition, results)
  <2>1. m = {h} /\ h \in BOOLEAN
    BY <1>4, <1>5
  <2> HIDE DEF h, m
  <2>2. m = {TRUE} <=> h
    BY <2>1
  <2> QED
    BY <2>2 DEF h, m
<1> QED
  BY <1>1, <1>6 DEF Means, results

\* The events a rule means.
Meant(rule, evs) == {e \in DOMAIN evs : Means(rule, evs[e])}

\* evaluate_rule, when it raises nothing: an alert for every event the rule means,
\* or the aggregation over them.
LEMMA RuleFires ==
  ASSUME NEW rule, IsWritten(rule), NEW evs, AreEvents(evs), EvaluateRule(rule, evs).err = "none"
  PROVE  /\ ParseCondition(rule.condition) = "none"
         /\ (Meant(rule, evs) # {} /\ rule.condition.pipe = "count") =>
              EvaluateRule(rule, evs) = EvaluateAggregation(evs, rule, Meant(rule, evs))
         /\ ~(Meant(rule, evs) # {} /\ rule.condition.pipe = "count") =>
              {a.events : a \in ToSet(EvaluateRule(rule, evs).alerts)} = {<<e>> : e \in Meant(rule, evs)}
<1> DEFINE inScope == {e \in DOMAIN evs : InLogsource(rule, evs[e])}
           matching == {e \in inScope : Holds(rule.condition, Results(rule, evs[e]))}
           order == Ascending(matching)
           A(k) == MakeAlert(evs, rule, <<order[k]>>, None)
           s == [k \in DOMAIN order |-> A(k)]
           r == EvaluateRule(rule, evs)
           raises == \E e \in inScope, n \in DOMAIN rule.selections :
                       SelectionResult(evs[e], rule.selections[n]) = "ValueError"
           counted == matching # {} /\ rule.condition.pipe = "count"
           untyped == \E e \in DOMAIN evs : LogsourceRaises(rule, evs[e])
<1>1. r = IF ParseCondition(rule.condition) # "none" THEN Raised(ParseCondition(rule.condition))
          ELSE IF untyped THEN Raised("TypeError")
          ELSE IF raises THEN Raised("ValueError")
          ELSE IF counted THEN EvaluateAggregation(evs, rule, matching) ELSE Fired(s)
  BY Zenon DEF EvaluateRule
<1>2. /\ \A err : Raised(err).err = err
      /\ \A al : Fired(al).alerts = al
      /\ "ValueError" # "none" /\ "TypeError" # "none"
  BY DEF Raised, Fired
<1>3. ParseCondition(rule.condition) = "none" /\ ~raises /\ ~untyped
  <2> HIDE DEF raises, untyped, counted, s, matching, inScope
  <2> QED
    BY <1>1, <1>2
<1>4. matching = Meant(rule, evs)
  <2> SUFFICES ASSUME NEW e \in DOMAIN evs PROVE e \in matching <=> e \in Meant(rule, evs)
    BY DEF Meant
  <2>1. CASE InLogsource(rule, evs[e])
    <3>1. \A n \in DOMAIN rule.selections : SelectionResult(evs[e], rule.selections[n]) # "ValueError"
      BY <1>3, <2>1
    <3>2. Means(rule, evs[e]) <=> InLogsource(rule, evs[e]) /\ Holds(rule.condition, Results(rule, evs[e]))
      BY <1>3, <3>1, MeansIs
    <3> QED
      BY <2>1, <3>2 DEF Meant
  <2>2. CASE ~InLogsource(rule, evs[e])
    BY <2>2 DEF Meant, Means
  <2> QED
    BY <2>1, <2>2
<1> HIDE DEF raises, untyped, s
<1>5. counted => r = EvaluateAggregation(evs, rule, matching)
  BY <1>1, <1>3
<1>6. ~counted => {a.events : a \in ToSet(r.alerts)} = {<<e>> : e \in matching}
  <2> SUFFICES ASSUME ~counted PROVE {a.events : a \in ToSet(r.alerts)} = {<<e>> : e \in matching}
    OBVIOUS
  <2>1. r.alerts = s
    BY <1>1, <1>2, <1>3
  <2>2. matching \in SUBSET (1..Len(evs))
    BY ListIsSeq DEF AreEvents
  <2> HIDE DEF matching, r, inScope
  <2>3. ToSet(order) = matching
    BY <2>2, TimesOf, AscendingOf
  <2>4. DOMAIN s = DOMAIN order /\ \A k \in DOMAIN order : s[k].events = <<order[k]>>
    BY DEF s, MakeAlert
  <2> HIDE DEF order
  <2>5. {a.events : a \in ToSet(s)} = {s[k].events : k \in DOMAIN order}
    BY <2>4 DEF ToSet
  <2>6. {s[k].events : k \in DOMAIN order} = {<<e>> : e \in matching}
    BY <2>3, <2>4 DEF ToSet
  <2> QED
    BY <2>1, <2>5, <2>6
<1> QED
  BY <1>3, <1>4, <1>5, <1>6

\* What evaluate_rule raises as a ValueError.
LEMMA RuleRefuses ==
  ASSUME NEW rule, IsWritten(rule), NEW evs, EvaluateRule(rule, evs).err = "ValueError"
  PROVE  \/ ParseCondition(rule.condition) = "ValueError"
         \/ rule.timeframe = Bad
         \/ \E n \in DOMAIN rule.selections : Refuses(rule.selections[n])
<1> DEFINE inScope == {e \in DOMAIN evs : InLogsource(rule, evs[e])}
           matching == {e \in inScope : Holds(rule.condition, Results(rule, evs[e]))}
           order == Ascending(matching)
           A(k) == MakeAlert(evs, rule, <<order[k]>>, None)
           s == [k \in DOMAIN order |-> A(k)]
           raises == \E e \in inScope, n \in DOMAIN rule.selections :
                       SelectionResult(evs[e], rule.selections[n]) = "ValueError"
           counted == matching # {} /\ rule.condition.pipe = "count"
           untyped == \E e \in DOMAIN evs : LogsourceRaises(rule, evs[e])
<1>1. EvaluateRule(rule, evs) =
          IF ParseCondition(rule.condition) # "none" THEN Raised(ParseCondition(rule.condition))
          ELSE IF untyped THEN Raised("TypeError")
          ELSE IF raises THEN Raised("ValueError")
          ELSE IF counted THEN EvaluateAggregation(evs, rule, matching) ELSE Fired(s)
  BY Zenon DEF EvaluateRule
<1>2. /\ \A err : Raised(err).err = err
      /\ \A al : Fired(al).err = "none"
  BY DEF Raised, Fired
<1>3. raises => \E n \in DOMAIN rule.selections : Refuses(rule.selections[n])
  BY SelectionMeans DEF IsWritten
<1>4. EvaluateAggregation(evs, rule, matching).err = "ValueError" => rule.timeframe = Bad
  <2> SUFFICES ASSUME EvaluateAggregation(evs, rule, matching).err = "ValueError" PROVE rule.timeframe = Bad
    OBVIOUS
  <2> HIDE DEF matching
  <2>1. Raised("TypeError").err = "TypeError" /\ "TypeError" # "ValueError" /\ "none" # "ValueError"
    BY DEF Raised
  <2>2. WindowOf(rule) = Bad
    BY <1>2, <2>1, Zenon DEF EvaluateAggregation
  <2>3. DefaultWindow # Bad
    BY WindowAssumption, NoneAssumption
  <2> QED
    BY <2>2, <2>3 DEF WindowOf
<1>5. "TypeError" # "ValueError"
  OBVIOUS
<1> HIDE DEF raises, untyped, counted, matching, s
<1> QED
  BY <1>1, <1>2, <1>3, <1>4, <1>5

\* A condition that is refused means nothing, one that is parsed means something.
LEMMA ParsedMeans ==
  ASSUME NEW rule, IsWritten(rule)
  PROVE  Meaning(rule.condition, [n \in DOMAIN rule.selections |-> TRUE]) # {}
           <=> ParseCondition(rule.condition) = "none"
<1> DEFINE results == [n \in DOMAIN rule.selections |-> TRUE]
<1>1. Len(rule.condition.search) \in Nat /\ \A name \in DOMAIN results : results[name] \in BOOLEAN
  BY DEF IsWritten, IsCondition, IsList
<1> HIDE DEF results
<1>2. Meaning(rule.condition, results) =
        IF ParseCondition(rule.condition) = "none" THEN {Holds(rule.condition, results)} ELSE {}
  BY <1>1, ParserIsGrammar
<1> QED
  BY <1>2 DEF results

-----------------------------------------------------------------------------
(* What the rules of a batch fire on. *)

\* A rule that a file holds, or that the import made of an upstream file.
IsNative(rule) == rule \in ToSet(input.files) /\ IsRule(rule) /\ LoadsRule(rule)
Translates(rule, file) ==
  file \in ToSet(input.sigma) /\ Reasons(file) = {} /\ ~AnalysisRaises(file) /\ rule = TranslateRule(file)
Sourced == \A rule \in ToSet(rules) : IsNative(rule) \/ \E file : Translates(rule, file)

\* Until they are collected, the alerts of an id are those of the last rule of it.
Judged ==
  pc = "rules" =>
    \A k \in 1..turn : LastOfId(k, turn) =>
      /\ EvaluateRule(rules[k], events).err = "none"
      /\ byRule[rules[k].id] = EvaluateRule(rules[k], events).alerts

\* What is picked of the loaded files as rules.
LEMMA LoadedRules ==
  ASSUME NEW files, IsList(files), \A file \in ToSet(files) : IsFile(file), LoadsRules(files),
         NEW loaded, loaded = SortedById(files),
         NEW rule \in ToSet(Picked(loaded, {k \in DOMAIN loaded : IsRule(loaded[k])}))
  PROVE  rule \in ToSet(files) /\ IsRule(rule) /\ LoadsRule(rule)
<1>1. /\ DOMAIN files = 1..Len(files) /\ \A k \in DOMAIN files : files[k] \in ToSet(files) /\ LoadsRule(files[k])
      /\ \A x \in ToSet(files) : \E k \in DOMAIN files : x = files[k]
  BY ListIsSeq DEF LoadsRules, ToSet
<1>2. \A k \in DOMAIN files : files[k].id \in Int
  BY <1>1 DEF LoadsRule, IsFile
<1>3. IsList(loaded) /\ ToSet(loaded) = ToSet(files)
  BY <1>2, SortedByIdOf
<1>4. DOMAIN loaded = 1..Len(loaded) /\ \A k \in DOMAIN loaded : loaded[k] \in ToSet(files)
  BY <1>3, ListIsSeq
<1> DEFINE R == {k \in DOMAIN loaded : IsRule(loaded[k])}
<1>5. R \in SUBSET (1..Len(loaded)) /\ \A k \in R : loaded[k] \in ToSet(files) /\ IsRule(loaded[k])
  BY <1>4
<1>6. rule \in {loaded[k] : k \in R}
  <2> HIDE DEF R
  <2>1. ToSet(Picked(loaded, R)) = {loaded[k] : k \in R}
    BY <1>3, <1>5, PickedOf
  <2> QED
    BY <2>1 DEF R
<1> QED
  BY <1>1, <1>5, <1>6

\* Only loading and the import add rules.
LEMMA SourcedStep == Shape /\ Sourced /\ [Next]_vars => Sourced'
<1> SUFFICES ASSUME Shape, Sourced, [Next]_vars PROVE Sourced'
  OBVIOUS
<1>0. /\ IsDeployment(input) /\ IsList(rules)
      /\ IsList(input.files) /\ (\A file \in ToSet(input.files) : IsFile(file)) /\ IsList(input.sigma)
  BY DEF Shape, Loaded, IsDeployment
<1>1. CASE Load
  <2> DEFINE loaded == SortedById(input.files)
             R == {k \in DOMAIN loaded : IsRule(loaded[k])}
  <2>1. LoadsRules(input.files) /\ input' = input /\ rules' = Picked(loaded, R)
    BY <1>1 DEF Load
  <2>2. ASSUME NEW rule \in ToSet(rules') PROVE IsNative(rule)'
    <3>1. rule \in ToSet(Picked(loaded, R))
      BY <2>1
    <3> HIDE DEF loaded
    <3>2. rule \in ToSet(input.files) /\ IsRule(rule) /\ LoadsRule(rule)
      BY <1>0, <2>1, <3>1, LoadedRules DEF loaded
    <3> QED
      BY <2>1, <3>2 DEF IsNative
  <2> QED
    BY <2>2 DEF Sourced
<1>2. CASE Import
  <2> DEFINE upstream == sigma'.loaded
             new == {k \in DOMAIN upstream : upstream[k].id \notin {r.id : r \in ToSet(rules)}}
  <2>1. /\ sigma' = ImportReport(input.sigma) /\ input' = input
        /\ rules' = rules \o Picked(upstream, new)
        /\ \A k \in DOMAIN input.sigma : ~AnalysisRaises(input.sigma[k])
    BY <1>2 DEF Import
  <2>2. \A file \in ToSet(input.sigma) : ~AnalysisRaises(file)
    BY <2>1 DEF ToSet
  <2>3. /\ IsList(upstream)
        /\ \A rule \in ToSet(upstream) : \E file \in ToSet(input.sigma) : Reasons(file) = {} /\ rule = TranslateRule(file)
    BY <1>0, <2>1, ImportOf
  <2> HIDE DEF upstream
  <2>4. DOMAIN upstream = 1..Len(upstream) /\ \A k \in DOMAIN upstream : upstream[k] \in ToSet(upstream)
    BY <2>3, ListIsSeq
  <2>5. new \in SUBSET (1..Len(upstream))
    BY <2>4
  <2> HIDE DEF new
  <2>6. IsList(Picked(upstream, new)) /\ ToSet(Picked(upstream, new)) = {upstream[k] : k \in new}
    BY <2>3, <2>5, PickedOf
  <2>7. ToSet(rules') = ToSet(rules) \union {upstream[k] : k \in new}
    BY <1>0, <2>1, <2>6, ListConcat
  <2>8. ASSUME NEW rule \in ToSet(rules') PROVE IsNative(rule)' \/ (\E file : Translates(rule, file))'
    <3>1. CASE rule \in ToSet(rules)
      BY <2>1, <3>1 DEF Sourced, IsNative, Translates
    <3>2. CASE rule \in ToSet(upstream)
      <4>1. PICK file \in ToSet(input.sigma) : Reasons(file) = {} /\ rule = TranslateRule(file)
        BY <2>3, <3>2
      <4> QED
        BY <2>1, <2>2, <4>1 DEF Translates
    <3> QED
      BY <2>4, <2>5, <2>7, <3>1, <3>2
  <2> QED
    BY <2>8 DEF Sourced
<1>3. CASE ~Load /\ ~Import
  <2>1. rules' = rules /\ input' = input
    BY <1>3 DEF Next, Build, Run, vars, built, Fail, LoadCases, LoadCasesFails, LoadFails,
                BuildEnricher, BuildEnricherFails, ImportFails, Start, EnrichBatch, Evaluate,
                EvaluateFails, Collect, CorrelateNext, CorrelateFails, Behave, BehaveFails, Assess,
                AssessFails, NoRisk, Summarise, Deduplicate, DeduplicateFails, ScoreBatch, Finish
  <2> QED
    BY <2>1 DEF Sourced, IsNative, Translates
<1> QED
  BY <1>1, <1>2, <1>3

\* Only the evaluation of a rule stores alerts of an id.
LEMMA JudgedStep == Shape /\ Judged /\ [Next]_vars => Judged'
<1> SUFFICES ASSUME Shape, Judged, [Next]_vars, pc' = "rules",
                    NEW k \in 1..(turn'), LastOfId(k, turn)'
             PROVE  /\ EvaluateRule(rules'[k], events').err = "none"
                    /\ byRule'[rules'[k].id] = EvaluateRule(rules'[k], events').alerts
  BY DEF Judged
<1>0. turn \in Nat
  BY Lengths DEF Shape, Position
<1>1. CASE Evaluate
  <2> DEFINE rule == rules[turn + 1]
             result == EvaluateRule(rule, events)
  <2>1. /\ pc = "rules" /\ turn' = turn + 1 /\ rules' = rules /\ events' = events
        /\ result.err = "none" /\ byRule' = With(byRule, rule.id, result.alerts)
    BY <1>1 DEF Evaluate, built
  <2>2. DOMAIN byRule = {rules[j].id : j \in 1..turn}
    BY <2>1 DEF Shape, Progress
  <2>3. CASE k = turn + 1
    <3>1. byRule'[rule.id] = result.alerts
      BY <2>1 DEF With
    <3> QED
      BY <2>1, <2>3, <3>1
  <2>4. CASE k # turn + 1
    <3>1. k \in 1..turn /\ turn + 1 \in (k + 1)..(turn + 1)
      BY <1>0, <2>1, <2>4
    <3>2. \A j \in (k + 1)..(turn + 1) : rules[j].id # rules[k].id
      BY <2>1 DEF LastOfId
    <3>3. LastOfId(k, turn)
      <4>1. \A j \in (k + 1)..turn : j \in (k + 1)..(turn + 1)
        BY <1>0, <3>1
      <4> QED
        BY <3>2, <4>1 DEF LastOfId
    <3>4. rules[k].id # rule.id /\ rules[k].id \in DOMAIN byRule
      BY <2>2, <3>1, <3>2
    <3>5. byRule'[rules[k].id] = byRule[rules[k].id]
      <4> DEFINE value == result.alerts
      <4>1. byRule' = With(byRule, rule.id, value)
        BY <2>1
      <4> HIDE DEF value, rule
      <4> QED
        BY <3>4, <4>1 DEF With
    <3> QED
      BY <2>1, <3>1, <3>3, <3>5 DEF Judged
  <2> QED
    BY <2>3, <2>4
<1>2. CASE EnrichBatch
  <2>1. turn' = 0
    BY <1>2 DEF EnrichBatch
  <2> QED
    BY <2>1
<1>3. CASE ~Evaluate /\ ~EnrichBatch
  <2>1. UNCHANGED vars
    BY <1>3 DEF Next, Build, Run, Fail, LoadCases, LoadCasesFails, Load, LoadFails,
                BuildEnricher, BuildEnricherFails, Import, ImportFails, Start,
                EvaluateFails, Collect, CorrelateNext, CorrelateFails, Behave, BehaveFails, Assess,
                AssessFails, NoRisk, Summarise, Deduplicate, DeduplicateFails, ScoreBatch, Finish
  <2> QED
    BY <2>1 DEF vars, built, Judged, LastOfId
<1> QED
  BY <1>1, <1>2, <1>3

\* Both hold of every reachable state.
LEMMA JudgedInvariant == Spec => [](Shape /\ Sourced /\ Judged /\ Refused)
<1>1. Init => Sourced /\ Judged /\ Refused
  <2>1. ToSet(<<>>) = {} /\ NoError[1] # "rules"
    BY DEF ToSet, NoError
  <2> QED
    BY <2>1 DEF Init, Sourced, Judged, Refused
<1> QED
  BY <1>1, ShapeInvariant, SourcedStep, JudgedStep, RefusedStep, PTL DEF Spec

\* The rules of a batch are written as the engine reads them.
LEMMA RulesWritten ==
  ASSUME Shape, Sourced, NEW rule \in ToSet(rules)
  PROVE  IsWritten(rule) /\ IsRuleRecord(rule)
<1>0. /\ IsDeployment(input) /\ (\A file \in ToSet(input.files) : IsFile(file))
      /\ (\A file \in ToSet(input.sigma) : IsUpstream(file)) /\ IsRuleRecord(rule)
  BY DEF Shape, Loaded, IsDeployment
<1>1. \A spec : IsSelection(spec) => InOrder(spec) /\ InOrder(TranslateSelection(spec))
  <2> SUFFICES ASSUME NEW spec, IsSelection(spec) PROVE InOrder(spec) /\ InOrder(TranslateSelection(spec))
    OBVIOUS
  <2>1. /\ IsList(spec.maps) /\ "maps" \in DOMAIN spec
        /\ \A entries \in ToSet(spec.maps) :
             /\ IsList(entries)
             /\ \A entry \in ToSet(entries) : {"field", "modifier", "values"} \subseteq DOMAIN entry
    BY DEF IsSelection
  <2>2. DOMAIN spec.maps = 1..Len(spec.maps) /\ \A k \in DOMAIN spec.maps : spec.maps[k] \in ToSet(spec.maps)
    BY <2>1, ListIsSeq
  <2>3. ASSUME NEW k \in DOMAIN spec.maps
        PROVE  DOMAIN spec.maps[k] \in SUBSET Nat /\ DOMAIN TranslateMap(spec.maps[k]) \in SUBSET Nat
    <3> DEFINE entries == spec.maps[k]
    <3>1. /\ IsList(entries)
          /\ \A entry \in ToSet(entries) : {"field", "modifier", "values"} \subseteq DOMAIN entry
      BY <2>1, <2>2
    <3> HIDE DEF entries
    <3>2. DOMAIN entries = 1..Len(entries) /\ DOMAIN TranslateMap(entries) \in SUBSET Nat
      BY <3>1, ListIsSeq, TranslateMapOf
    <3> QED
      BY <3>2 DEF entries
  <2>4. TranslateSelection(spec).maps = [k \in DOMAIN spec.maps |-> TranslateMap(spec.maps[k])]
    BY <2>1 DEF TranslateSelection
  <2> QED
    BY <2>2, <2>3, <2>4 DEF InOrder
<1>2. CASE IsNative(rule)
  <2>1. IsDetection(rule) /\ rule.condition # None
    BY <1>0, <1>2 DEF IsNative, IsFile, IsRule, LoadsRule, ValidDetection
  <2> QED
    BY <1>0, <1>1, <2>1 DEF IsWritten, IsDetection
<1>3. ASSUME NEW file, Translates(rule, file) PROVE IsWritten(rule)
  <2>1. IsUpstream(file) /\ ~Unusable(file) /\ rule = TranslateRule(file)
    BY <1>0, <1>3 DEF Translates, Reasons, When
  <2>2. IsDetection(file) /\ file.condition # None
    BY <2>1 DEF IsUpstream, Unusable
  <2>3. /\ rule.condition = file.condition
        /\ rule.selections = [n \in DOMAIN file.selections |-> TranslateSelection(file.selections[n])]
    BY <2>1, TranslateRuleOf
  <2> QED
    BY <1>1, <2>2, <2>3 DEF IsWritten, IsDetection
<1> QED
  BY <1>0, <1>2, <1>3 DEF Sourced

\* The rules evaluated, and what became of them.
LEMMA EvaluatedOf ==
  ASSUME Shape, Sourced, Judged, NEW k \in Evaluated
  PROVE  /\ pc = "rules" /\ rules[k] \in ToSet(rules) /\ IsWritten(rules[k]) /\ IsRuleRecord(rules[k])
         /\ AreEvents(events)
         /\ EvaluateRule(rules[k], events).err = "none"
         /\ byRule[rules[k].id] = EvaluateRule(rules[k], events).alerts
<1>1. k \in 1..turn /\ pc = "rules" /\ LastOfId(k, turn)
  BY DEF Evaluated
<1>2. Len(rules) \in Nat /\ turn \in Nat /\ turn <= Len(rules) /\ AreEvents(events) /\ IsList(rules)
  BY <1>1, Lengths DEF Shape, Position, Fitting, Loaded
<1>3. k \in 1..Len(rules)
  BY <1>1, <1>2
<1>4. rules[k] \in ToSet(rules)
  BY <1>2, <1>3, ListIsSeq
<1>5. IsWritten(rules[k]) /\ IsRuleRecord(rules[k])
  BY <1>4, RulesWritten
<1> QED
  BY <1>1, <1>2, <1>4, <1>5 DEF Judged

\* A rule fires on the events its condition, read by the grammar of the source,
\* means, and a condition that means nothing raises (engine.py 80-290, 362-412).
THEOREM RulesFireAsWritten == Spec => []FiresAsWritten
<1>1. Shape /\ Sourced /\ Judged /\ Refused => FiresAsWritten
  <2> SUFFICES ASSUME Shape, Sourced, Judged, Refused PROVE FiresAsWritten
    OBVIOUS
  <2>1. ASSUME NEW k \in Evaluated
        PROVE  /\ Meaning(rules[k].condition, [n \in DOMAIN rules[k].selections |-> TRUE]) # {}
               /\ rules[k].condition.pipe = "none" =>
                    {a.events : a \in ToSet(byRule[rules[k].id])}
                      = {<<e>> : e \in {d \in DOMAIN events : Means(rules[k], events[d])}}
    <3> DEFINE rule == rules[k]
    <3>1. /\ IsWritten(rule) /\ AreEvents(events) /\ EvaluateRule(rule, events).err = "none"
          /\ byRule[rule.id] = EvaluateRule(rule, events).alerts
      BY EvaluatedOf
    <3> HIDE DEF rule
    <3>2. /\ ParseCondition(rule.condition) = "none"
          /\ ~(Meant(rule, events) # {} /\ rule.condition.pipe = "count") =>
               {a.events : a \in ToSet(EvaluateRule(rule, events).alerts)} = {<<e>> : e \in Meant(rule, events)}
      BY <3>1, RuleFires
    <3>3. Meaning(rule.condition, [n \in DOMAIN rule.selections |-> TRUE]) # {}
      BY <3>1, <3>2, ParsedMeans
    <3> QED
      BY <3>1, <3>2, <3>3 DEF Meant, rule
  <2>2. ASSUME error = <<"rules", "ValueError">>
        PROVE  LET rule == rules[turn + 1] IN
               \/ Meaning(rule.condition, [n \in DOMAIN rule.selections |-> TRUE]) = {}
               \/ rule.timeframe = Bad
               \/ \E n \in DOMAIN rule.selections : Refuses(rule.selections[n])
    <3> DEFINE rule == rules[turn + 1]
    <3>1. turn < Len(rules) /\ EvaluateRule(rule, events).err = "ValueError"
      BY <2>2 DEF Refused
    <3>2. rule \in ToSet(rules)
      <4>1. turn \in Nat /\ Len(rules) \in Nat /\ IsList(rules)
        BY Lengths DEF Shape, Position, Loaded
      <4>2. turn + 1 \in 1..Len(rules)
        BY <3>1, <4>1
      <4> QED
        BY <4>1, <4>2, ListIsSeq
    <3>3. IsWritten(rule)
      BY <3>2, RulesWritten
    <3> HIDE DEF rule
    <3>4. \/ ParseCondition(rule.condition) = "ValueError"
          \/ rule.timeframe = Bad
          \/ \E n \in DOMAIN rule.selections : Refuses(rule.selections[n])
      BY <3>1, <3>3, RuleRefuses
    <3>5. ParseCondition(rule.condition) = "ValueError" =>
            Meaning(rule.condition, [n \in DOMAIN rule.selections |-> TRUE]) = {}
      BY <3>3, ParsedMeans
    <3> QED
      BY <3>4, <3>5 DEF rule
  <2> QED
    BY <2>1, <2>2 DEF FiresAsWritten
<1> QED
  BY <1>1, JudgedInvariant, PTL

-----------------------------------------------------------------------------
(* Groups of events within a window. *)

\* The values of a function that repeats none are as many as its arguments.
LEMMA DistinctValues ==
  ASSUME NEW S, IsFiniteSet(S), NEW f, \A x, y \in S : f[x] = f[y] => x = y
  PROVE  Cardinality({f[x] : x \in S}) = Cardinality(S)
<1> DEFINE V == {f[x] : x \in S}
           g == [x \in S |-> f[x]]
<1>1. g \in [S -> V] /\ \A x \in S : g[x] = f[x]
  OBVIOUS
<1>2. \A v \in V : \E x \in S : v = f[x]
  OBVIOUS
<1> HIDE DEF g, V
<1>3. g \in Surjection(S, V) /\ g \in Injection(S, V)
  BY <1>1, <1>2 DEF Surjection, Injection, IsInjective
<1> QED
  BY <1>3, FS_Surjection DEF V

\* A finite set has subsets of every size up to its own.
LEMMA SubsetOfSize ==
  ASSUME NEW S, IsFiniteSet(S), NEW n \in Nat, n <= Cardinality(S)
  PROVE  \E C \in SUBSET S : Cardinality(C) = n
<1> DEFINE T == {j \in 0..n : \E C \in SUBSET S : Cardinality(C) = j}
<1>1. 0 \in T
  BY FS_EmptySet
<1>2. ASSUME NEW j \in 1..n, j - 1 \in T PROVE j \in T
  <2>1. PICK C \in SUBSET S : Cardinality(C) = j - 1
    BY <1>2
  <2>2. C # S /\ IsFiniteSet(C)
    <3>1. Cardinality(S) \in Nat /\ Cardinality(C) < Cardinality(S)
      BY <2>1, FS_CardinalityType
    <3> QED
      BY <3>1, FS_Subset
  <2>3. PICK x \in S : x \notin C
    BY <2>2
  <2>4. Cardinality(C \union {x}) = j /\ C \union {x} \in SUBSET S
    BY <2>1, <2>2, <2>3, FS_AddElement
  <2> QED
    BY <2>4
<1> HIDE DEF T
<1>3. n \in T
  BY <1>1, <1>2, UpTo
<1> QED
  BY <1>3 DEF T

\* So many of the events within one window of each other.
Crowded(evs, S, n, window) ==
  \E C \in SUBSET S : Cardinality(C) = n /\ \A d, e \in C : evs[d].time - evs[e].time <= window

\* A list of events in order of time, and the positions in the window up to one.
InTime(evs, D, m, timed) ==
  /\ m \in Nat /\ timed \in [1..m -> D] /\ \A e \in D : evs[e].time \in Int
  /\ \A d \in D : \E k \in 1..m : d = timed[k]
  /\ \A j, k \in 1..m : timed[j] = timed[k] => j = k
  /\ \A j, k \in 1..m : j < k => evs[timed[j]].time <= evs[timed[k]].time
Before(evs, timed, window, e) == {k \in 1..e : evs[timed[e]].time - evs[timed[k]].time <= window}

\* The list of the dated events is one.
LEMMA InTimeOrderOnce ==
  ASSUME NEW evs, AreEvents(evs), NEW D \in SUBSET (1..Len(evs)), \A e \in D : evs[e].time \in Int
  PROVE  InTime(evs, D, Cardinality(D), InTimeOrder(evs, D)) /\ DOMAIN InTimeOrder(evs, D) = 1..Cardinality(D)
<1> DEFINE timed == InTimeOrder(evs, D)
           m == Cardinality(D)
<1>1. /\ timed \in [1..m -> D] /\ m \in Nat /\ DOMAIN timed = 1..m /\ ToSet(timed) = D
      /\ \A j, k \in 1..m : j < k => evs[timed[j]].time <= evs[timed[k]].time
  BY InTimeOrderOf
<1> HIDE DEF timed
<1>2. \A d \in D : \E k \in 1..m : d = timed[k]
  BY <1>1 DEF ToSet
<1>3. timed \in Injection(1..m, D)
  <2>1. timed \in Surjection(1..m, D)
    BY <1>1, <1>2 DEF Surjection
  <2>2. IsFiniteSet(1..m) /\ Cardinality(1..m) = m
    BY <1>1, UpToFinite
  <2> QED
    BY <2>1, <2>2, FS_Surjection
<1>4. \A j, k \in 1..m : timed[j] = timed[k] => j = k
  BY <1>1, <1>3 DEF Injection, IsInjective
<1> QED
  BY <1>1, <1>2, <1>4 DEF InTime, timed

\* A window holds n of them exactly when n of them are within a window.
LEMMA CrowdedWindow ==
  ASSUME NEW evs, NEW D, NEW m, NEW timed, InTime(evs, D, m, timed), m # 0, NEW n \in Nat, NEW window \in Nat
  PROVE  (\E e \in 1..m : Cardinality(Before(evs, timed, window, e)) >= n) <=> Crowded(evs, D, n, window)
<1>1. m \in Nat /\ timed \in [1..m -> D]
  BY DEF InTime
<1>2. \A k \in 1..m : evs[timed[k]].time \in Int
  BY DEF InTime
<1>3. ASSUME NEW e \in 1..m, Cardinality(Before(evs, timed, window, e)) >= n PROVE Crowded(evs, D, n, window)
  <2> DEFINE W == Before(evs, timed, window, e)
  <2>1. W \in SUBSET (1..e) /\ W \in SUBSET (1..m) /\ \A k \in W : evs[timed[e]].time - evs[timed[k]].time <= window
    BY <1>1 DEF Before
  <2>2. IsFiniteSet(W) /\ Cardinality(W) \in Nat /\ Cardinality(W) >= n
    BY <1>1, <1>3, <2>1, UpToFinite, FS_Subset, FS_CardinalityType
  <2> HIDE DEF W
  <2>3. PICK X \in SUBSET W : Cardinality(X) = n
    BY <2>2, SubsetOfSize
  <2> DEFINE C == {timed[k] : k \in X}
  <2>4. IsFiniteSet(X) /\ \A j, k \in X : timed[j] = timed[k] => j = k
    BY <2>1, <2>2, FS_Subset DEF InTime
  <2>5. Cardinality(C) = n
    BY <2>3, <2>4, DistinctValues
  <2>6. C \in SUBSET D
    BY <1>1, <2>1
  <2>7. ASSUME NEW j \in X, NEW k \in X PROVE evs[timed[j]].time - evs[timed[k]].time <= window
    <3>1. j \in 1..m /\ k \in 1..m /\ j \in 1..e
      BY <2>1
    <3>2. evs[timed[j]].time <= evs[timed[e]].time
      <4>1. CASE j = e
        BY <1>2, <4>1
      <4>2. CASE j # e
        BY <1>1, <3>1, <4>2 DEF InTime
      <4> QED
        BY <4>1, <4>2
    <3>3. evs[timed[e]].time - evs[timed[k]].time <= window
      BY <2>1
    <3>4. evs[timed[j]].time \in Int /\ evs[timed[k]].time \in Int /\ evs[timed[e]].time \in Int /\ window \in Int
      BY <1>2, <3>1
    <3> QED
      BY <3>2, <3>3, <3>4
  <2>8. \A c, d \in C : evs[c].time - evs[d].time <= window
    BY <2>7
  <2> HIDE DEF C
  <2> QED
    BY <2>5, <2>6, <2>8 DEF Crowded
<1>4. ASSUME Crowded(evs, D, n, window)
      PROVE  \E e \in 1..m : Cardinality(Before(evs, timed, window, e)) >= n
  <2>1. PICK C \in SUBSET D : Cardinality(C) = n /\ \A c, d \in C : evs[c].time - evs[d].time <= window
    BY <1>4 DEF Crowded
  <2> DEFINE K == {k \in 1..m : timed[k] \in C}
  <2>2. K \in SUBSET (1..m) /\ K \in SUBSET Int /\ (\A k \in K : timed[k] \in C /\ k <= m) /\ m \in Int
    BY <1>1
  <2>3. \A c \in C : \E k \in K : c = timed[k]
    BY DEF InTime
  <2>4. C = {timed[k] : k \in K}
    BY <2>2, <2>3
  <2> HIDE DEF K
  <2>5. IsFiniteSet(K) /\ Cardinality(K) \in Nat
    BY <1>1, <2>2, UpToFinite, FS_Subset, FS_CardinalityType
  <2>6. Cardinality(K) = n
    <3>1. \A j, k \in K : timed[j] = timed[k] => j = k
      BY <2>2 DEF InTime
    <3> QED
      BY <2>1, <2>4, <2>5, <3>1, DistinctValues
  <2>7. PICK e \in 1..m : K \subseteq Before(evs, timed, window, e)
    <3>1. CASE K = {}
      <4>1. 1 \in 1..m
        BY <1>1
      <4> QED
        BY <3>1, <4>1
    <3>2. CASE K # {}
      <4> DEFINE e == Max(K)
      <4>1. e \in K /\ \A k \in K : k <= e
        BY <2>2, <3>2, GreatestElement
      <4> HIDE DEF e
      <4>2. ASSUME NEW k \in K PROVE k \in Before(evs, timed, window, e)
        <5>1. evs[timed[e]].time - evs[timed[k]].time <= window
          BY <2>1, <2>2, <4>1
        <5>2. k \in 1..e
          BY <1>1, <2>2, <4>1
        <5> QED
          BY <5>1, <5>2 DEF Before
      <4> QED
        BY <2>2, <4>1, <4>2
    <3> QED
      BY <3>1, <3>2
  <2>8. IsFiniteSet(Before(evs, timed, window, e))
    <3>1. Before(evs, timed, window, e) \in SUBSET (1..e) /\ e \in Nat
      BY <1>1 DEF Before
    <3> QED
      BY <3>1, UpToFinite, FS_Subset
  <2>9. Cardinality(K) <= Cardinality(Before(evs, timed, window, e)) /\ Cardinality(Before(evs, timed, window, e)) \in Nat
    BY <2>7, <2>8, FS_Subset, FS_CardinalityType
  <2> QED
    BY <2>6, <2>9
<1> QED
  BY <1>3, <1>4

\* _first_window_crossing returns a window exactly when enough events are in one.
LEMMA FirstCrossingIs ==
  ASSUME NEW evs, AreEvents(evs), NEW S \in SUBSET (1..Len(evs)),
         NEW cond, cond.op = ">=", cond.n \in Nat, NEW window \in Nat
  PROVE  FirstCrossing(evs, S, cond, window) # <<>> <=>
           IF DatedOf(evs, S) = {} THEN S # {} /\ Cardinality(S) >= cond.n
           ELSE Crowded(evs, DatedOf(evs, S), cond.n, window)
<1> DEFINE D == DatedOf(evs, S)
           timed == InTimeOrder(evs, D)
           m == Cardinality(D)
           n == cond.n
           Spanned(e) == {k \in 1..e : evs[timed[e]].time - evs[timed[k]].time <= window}
           crossings == {e \in DOMAIN timed : Compare(cond, Cardinality(Spanned(e)))}
           window1 == SubSeq(timed, Min(Spanned(Min(crossings))), Min(crossings))
           r == FirstCrossing(evs, S, cond, window)
<1>1. r = IF timed = <<>> THEN IF Compare(cond, Cardinality(S)) THEN Ascending(S) ELSE <<>>
          ELSE IF crossings = {} THEN <<>> ELSE window1
  BY Zenon DEF FirstCrossing
<1>2. \A count : Compare(cond, count) <=> count >= n
  BY DEF Compare
<1>3. /\ D \in SUBSET (1..Len(evs)) /\ IsFiniteSet(S) /\ S \in SUBSET Int /\ D \in SUBSET S
      /\ \A e \in D : evs[e].time \in Int
  BY TimesOf
<1>4. IsFiniteSet(D)
  BY <1>3, FS_Subset
<1> HIDE DEF D, r
<1>5. InTime(evs, D, m, timed) /\ DOMAIN timed = 1..m /\ timed \in Seq(D) /\ Len(timed) = m /\ m \in Nat
  <2>1. InTime(evs, D, m, timed) /\ DOMAIN timed = 1..m
    BY <1>3, InTimeOrderOnce
  <2>2. timed \in Seq(D) /\ Len(timed) = m /\ m \in Nat
    BY <1>3, InTimeOrderOf
  <2> QED
    BY <2>1, <2>2
<1>6. m = 0 <=> D = {}
  BY <1>4, FS_EmptySet
<1>7. \A e : Spanned(e) = Before(evs, timed, window, e)
  BY DEF Before
<1> HIDE DEF timed, m, Spanned
<1>8. timed = <<>> <=> D = {}
  BY <1>5, <1>6
<1>9. CASE D = {}
  <2>1. r = IF Cardinality(S) >= n THEN Ascending(S) ELSE <<>>
    BY <1>1, <1>2, <1>8, <1>9
  <2>2. Ascending(S) # <<>> <=> S # {}
    <3>1. Len(Ascending(S)) = Cardinality(S) /\ ToSet(Ascending(S)) = S /\ DOMAIN Ascending(S) = 1..Cardinality(S)
      BY <1>3, AscendingOf
    <3>2. Ascending(S) = <<>> => S = {}
      BY <3>1 DEF ToSet
    <3>3. S = {} => Ascending(S) = <<>>
      <4> SUFFICES ASSUME S = {} PROVE Ascending(S) = <<>>
        OBVIOUS
      <4>1. Cardinality(S) = 0
        BY FS_EmptySet
      <4>2. Ascending(S) \in Seq(S) /\ Len(Ascending(S)) = 0
        BY <1>3, <3>1, <4>1, AscendingOf
      <4> QED
        BY <4>2
    <3> QED
      BY <3>2, <3>3
  <2> QED
    BY <1>9, <2>1, <2>2 DEF r, D
<1>10. CASE D # {}
  <2>1. r = IF crossings = {} THEN <<>> ELSE window1
    BY <1>1, <1>8, <1>10
  <2>2. crossings # {} <=> \E e \in 1..m : Cardinality(Before(evs, timed, window, e)) >= n
    BY <1>2, <1>5, <1>7
  <2>3. crossings \in SUBSET (1..m) /\ crossings \in SUBSET Int
    BY <1>5
  <2> HIDE DEF crossings
  <2>4. (\E e \in 1..m : Cardinality(Before(evs, timed, window, e)) >= n) <=> Crowded(evs, D, n, window)
    BY <1>5, <1>6, <1>10, CrowdedWindow
  <2>5. ASSUME crossings # {} PROVE window1 # <<>>
    <3> DEFINE e == Min(crossings)
               W == Spanned(e)
    <3>1. e \in 1..m
      <4>1. IsFiniteSet(crossings)
        BY <1>5, <2>3, UpToFinite, FS_Subset
      <4> QED
        BY <2>3, <2>5, <4>1, FiniteExtremes
    <3> HIDE DEF e
    <3>2. evs[timed[e]].time \in Int
      BY <1>5, <3>1 DEF InTime
    <3>3. e \in W /\ W \in SUBSET (1..e) /\ W \in SUBSET Int /\ e \in Nat
      <4>1. evs[timed[e]].time - evs[timed[e]].time <= window /\ e \in 1..e
        BY <1>5, <3>1, <3>2
      <4> QED
        BY <1>5, <3>1, <4>1 DEF Spanned
    <3> HIDE DEF W
    <3>4. IsFiniteSet(W)
      BY <3>3, UpToFinite, FS_Subset
    <3>5. Min(W) \in 1..e
      <4>1. Min(W) \in W
        BY <3>3, <3>4, FiniteExtremes
      <4> QED
        BY <3>3, <4>1
    <3> DEFINE a == Min(W)
    <3> HIDE DEF a
    <3>6. a \in 1..e /\ e \in 1..Len(timed) /\ timed \in Seq(D)
      BY <1>5, <3>1, <3>5 DEF a
    <3>7. Len(SubSeq(timed, a, e)) = e - a + 1
      BY <1>5, <3>6
    <3>8. Len(SubSeq(timed, a, e)) # 0
      BY <1>5, <3>6, <3>7
    <3>9. SubSeq(timed, a, e) # <<>>
      <4>1. Len(<<>>) = 0
        OBVIOUS
      <4> QED
        BY <3>8, <4>1, Zenon
    <3> QED
      BY <3>9 DEF a, e, W
  <2> QED
    BY <1>10, <2>1, <2>2, <2>4, <2>5 DEF r, D
<1> QED
  BY <1>9, <1>10

\* The events of the group of e, the events whose group has a window, and its keys.
GroupOf(evs, cond, matching, e) == {d \in matching : GroupKey(evs[d], cond) = GroupKey(evs[e], cond)}
Crossed(evs, rule, matching) ==
  {e \in matching : FirstCrossing(evs, GroupOf(evs, rule.condition, matching, e), rule.condition, WindowOf(rule)) # <<>>}
KeysOf(evs, cond, S) == {GroupKey(evs[e], cond) : e \in S}

\* The groups an aggregation fires for are those with a window.
LEMMA GroupsOf ==
  ASSUME NEW evs, AreEvents(evs), NEW matching \in SUBSET (1..Len(evs)),
         NEW rule, IsRuleRecord(rule), EvaluateAggregation(evs, rule, matching).err = "none"
  PROVE  /\ WindowOf(rule) \in Nat
         /\ {a.group : a \in ToSet(EvaluateAggregation(evs, rule, matching).alerts)} =
            KeysOf(evs, rule.condition, Crossed(evs, rule, matching))
<1> DEFINE cond == rule.condition
           window == WindowOf(rule)
           Members(e) == {d \in matching : GroupKey(evs[d], cond) = GroupKey(evs[e], cond)}
           Crosses1(M) == FirstCrossing(evs, M, cond, window) # <<>>
           F == {e \in matching : e = Min(Members(e)) /\ FirstCrossing(evs, Members(e), cond, window) # <<>>}
           Group == [e \in matching |-> GroupOf(evs, cond, matching, e)]
           X == Crossed(evs, rule, matching)
           crossing == Ascending(F)
           A(k) == MakeAlert(evs, rule, FirstCrossing(evs, Members(crossing[k]), cond, window),
                             GroupKey(evs[crossing[k]], cond))
           s == [k \in DOMAIN crossing |-> A(k)]
<1>1. window # Bad
  BY DEF EvaluateAggregation, Raised
<1>2. window \in Nat
  BY <1>1, WindowAssumption DEF WindowOf, IsRuleRecord, IsTimeframe
<1>3. EvaluateAggregation(evs, rule, matching).alerts = s
  BY <1>1, Zenon DEF EvaluateAggregation, Raised, Fired
<1>4. \A e \in matching : Group[e] = Members(e) /\ Group[e] \in SUBSET matching /\ e \in Group[e]
  BY DEF GroupOf
<1>5. \A e \in matching : \A d \in Group[e] : GroupKey(evs[d], cond) = GroupKey(evs[e], cond) /\ Group[d] = Group[e]
  BY DEF GroupOf
<1>6. F \in SUBSET matching /\ \A e \in F : Crosses1(Group[e])
  BY <1>4
<1>7. \A e \in matching : e = Min(Group[e]) /\ Crosses1(Group[e]) => e \in F
  BY <1>4
<1>8. \A k \in DOMAIN crossing : s[k].group = GroupKey(evs[crossing[k]], cond)
  BY DEF MakeAlert
<1>9. DOMAIN s = DOMAIN crossing
  OBVIOUS
<1>17. X = {e \in matching : Crosses1(Group[e])}
  BY DEF Crossed
<1>18. \A S : KeysOf(evs, cond, S) = {GroupKey(evs[e], cond) : e \in S}
  BY DEF KeysOf
<1> HIDE DEF F, Members, A, s, window, cond, Crosses1, X, Group
<1>10. F \in SUBSET (1..Len(evs))
  BY <1>6
<1>11. IsFiniteSet(F) /\ F \in SUBSET Int
  BY <1>10, TimesOf
<1>12. ToSet(crossing) = F
  BY <1>11, AscendingOf
<1>13. {a.group : a \in ToSet(s)} = {GroupKey(evs[e], cond) : e \in F}
  <2> HIDE DEF crossing
  <2>1. {a.group : a \in ToSet(s)} = {s[k].group : k \in DOMAIN crossing}
    BY <1>9 DEF ToSet
  <2>2. {s[k].group : k \in DOMAIN crossing} = {GroupKey(evs[e], cond) : e \in F}
    BY <1>8, <1>12 DEF ToSet
  <2> QED
    BY <2>1, <2>2
<1>14. \A e \in X : \E d \in F : GroupKey(evs[d], cond) = GroupKey(evs[e], cond)
  <2> SUFFICES ASSUME NEW e \in X PROVE \E d \in F : GroupKey(evs[d], cond) = GroupKey(evs[e], cond)
    OBVIOUS
  <2>1. e \in matching /\ Crosses1(Group[e]) /\ e \in Group[e] /\ Group[e] \in SUBSET (1..Len(evs))
    BY <1>4, <1>17
  <2> DEFINE d == Min(Group[e])
  <2>2. IsFiniteSet(Group[e]) /\ Group[e] \in SUBSET Int
    BY <2>1, TimesOf
  <2>3. d \in Group[e]
    BY <2>1, <2>2, FiniteExtremes
  <2> HIDE DEF d
  <2>4. GroupKey(evs[d], cond) = GroupKey(evs[e], cond) /\ Group[d] = Group[e] /\ d \in matching
    BY <1>4, <1>5, <2>1, <2>3
  <2>5. d \in F
    BY <1>7, <2>1, <2>4 DEF d
  <2> QED
    BY <2>4, <2>5
<1>15. \A e \in F : e \in X
  BY <1>6, <1>17
<1>16. {GroupKey(evs[e], cond) : e \in F} = {GroupKey(evs[e], cond) : e \in X}
  BY <1>14, <1>15
<1> QED
  BY <1>2, <1>3, <1>13, <1>16, <1>18 DEF cond, window, X

\* A group of a ">=" rule fires exactly when so many of its events lie within
\* one window; no other group's events count (engine.py 414-454).
THEOREM GroupsFireByThemselves == Spec => []GroupsFireAlone
<1>1. Shape /\ Sourced /\ Judged => GroupsFireAlone
  <2> SUFFICES ASSUME Shape, Sourced, Judged, NEW k \in Evaluated,
                      rules[k].condition.pipe = "count", rules[k].condition.op = ">="
               PROVE  LET rule == rules[k]
                          window == IF rule.timeframe = None THEN DefaultWindow ELSE rule.timeframe
                          Group(key) == {e \in DOMAIN events : /\ Means(rule, events[e])
                                                               /\ GroupKey(events[e], rule.condition) = key}
                      IN {a.group : a \in ToSet(byRule[rule.id])} =
                         {key \in {GroupKey(events[e], rule.condition) : e \in DOMAIN events} :
                            LET dated == DatedOf(events, Group(key)) IN
                            IF dated = {} THEN Group(key) # {} /\ Cardinality(Group(key)) >= rule.condition.n
                            ELSE Clustered(dated, rule.condition.n, window)}
    BY Zenon DEF GroupsFireAlone
  <2> DEFINE rule == rules[k]
             cond == rule.condition
             window == WindowOf(rule)
             matching == Meant(rule, events)
             Group(key) == {e \in DOMAIN events : Means(rule, events[e]) /\ GroupKey(events[e], cond) = key}
             Fires(S) == IF DatedOf(events, S) = {} THEN S # {} /\ Cardinality(S) >= cond.n
                         ELSE Crowded(events, DatedOf(events, S), cond.n, window)
             keys == {GroupKey(events[e], cond) : e \in DOMAIN events}
             Members(e) == GroupOf(events, cond, matching, e)
             fired == EvaluateRule(rule, events).alerts
  <2>1. /\ IsWritten(rule) /\ IsRuleRecord(rule) /\ AreEvents(events)
        /\ EvaluateRule(rule, events).err = "none" /\ byRule[rule.id] = fired
    BY EvaluatedOf
  <2>2. DOMAIN events = 1..Len(events) /\ matching \in SUBSET (1..Len(events)) /\ cond.n \in Nat
    BY <2>1, ListIsSeq DEF AreEvents, Meant, IsWritten, IsCondition
  <2>3. /\ matching # {} => EvaluateRule(rule, events) = EvaluateAggregation(events, rule, matching)
        /\ matching = {} => {a.events : a \in ToSet(fired)} = {<<e>> : e \in matching}
    <3> HIDE DEF rule
    <3> QED
      BY <2>1, RuleFires DEF rule
  <2>4. \A key : Group(key) \in SUBSET (1..Len(events)) /\ Group(key) \in SUBSET matching
    BY <2>2 DEF Meant
  <2>5. \A e \in matching : Members(e) = Group(GroupKey(events[e], cond)) /\ GroupKey(events[e], cond) \in keys
    BY DEF Meant, GroupOf
  <2>6. \A key \in keys : Group(key) # {} => \E e \in matching : key = GroupKey(events[e], cond)
    BY DEF Meant
  <2>7. \A S, n : Clustered(S, n, window) <=> Crowded(events, S, n, window)
    BY DEF Clustered, Crowded, kSubset
  <2>8. DatedOf(events, {}) = {}
    BY DEF DatedOf
  <2> HIDE DEF Group, keys, rule
  <2>9. {a.group : a \in ToSet(fired)} = {key \in keys : Fires(Group(key))}
    <3>1. CASE matching = {}
      <4>1. ToSet(fired) = {}
        BY <2>3, <3>1
      <4>2. \A key : Group(key) = {}
        BY <2>4, <3>1
      <4>3. ~Fires({})
        BY <2>8
      <4> QED
        BY <4>1, <4>2, <4>3
    <3>2. CASE matching # {}
      <4> DEFINE X == Crossed(events, rule, matching)
      <4>1. /\ EvaluateRule(rule, events) = EvaluateAggregation(events, rule, matching)
            /\ EvaluateAggregation(events, rule, matching).err = "none"
        BY <2>1, <2>3, <3>2
      <4>2. /\ window \in Nat
            /\ {a.group : a \in ToSet(fired)} = {GroupKey(events[e], cond) : e \in X}
        <5>1. fired = EvaluateAggregation(events, rule, matching).alerts
          BY <4>1
        <5> HIDE DEF matching, fired
        <5>2. /\ WindowOf(rule) \in Nat
              /\ {a.group : a \in ToSet(EvaluateAggregation(events, rule, matching).alerts)} =
                   KeysOf(events, rule.condition, Crossed(events, rule, matching))
          BY <2>1, <2>2, <4>1, GroupsOf
        <5> QED
          BY <5>1, <5>2 DEF KeysOf
      <4>7. X = {x \in matching : FirstCrossing(events, Members(x), cond, window) # <<>>}
        BY DEF Crossed
      <4>3. ASSUME NEW e \in matching
            PROVE  FirstCrossing(events, Members(e), cond, window) # <<>> <=> Fires(Group(GroupKey(events[e], cond)))
        <5> DEFINE S == Group(GroupKey(events[e], cond))
        <5>1. Members(e) = S /\ S \in SUBSET (1..Len(events))
          BY <2>4, <2>5
        <5> HIDE DEF S, matching, window, cond, Members
        <5>2. cond.op = ">=" /\ cond.n \in Nat /\ window \in Nat
          BY <2>2, <4>2 DEF cond, rule
        <5>3. FirstCrossing(events, S, cond, window) # <<>> <=> Fires(S)
          BY <2>1, <5>1, <5>2, FirstCrossingIs
        <5> QED
          BY <5>1, <5>3 DEF S
      <4>4. ~Fires({})
        BY <2>8
      <4> HIDE DEF matching, Members, window, cond, Fires, fired, X
      <4>5. ASSUME NEW e \in X PROVE GroupKey(events[e], cond) \in {key \in keys : Fires(Group(key))}
        BY <2>5, <4>3, <4>7
      <4>6. ASSUME NEW key \in keys, Fires(Group(key)) PROVE \E e \in X : key = GroupKey(events[e], cond)
        <5>1. PICK e \in matching : key = GroupKey(events[e], cond)
          BY <2>6, <4>4, <4>6
        <5> QED
          BY <4>3, <4>6, <4>7, <5>1
      <4> QED
        BY <4>2, <4>5, <4>6
    <3> QED
      BY <3>1, <3>2
  <2>10. window = IF rule.timeframe = None THEN DefaultWindow ELSE rule.timeframe
    BY DEF WindowOf
  <2>11. \A key : Fires(Group(key)) <=>
           LET dated == DatedOf(events, Group(key)) IN
           IF dated = {} THEN Group(key) # {} /\ Cardinality(Group(key)) >= rule.condition.n
           ELSE Clustered(dated, rule.condition.n, window)
    BY <2>7
  <2> HIDE DEF window, Fires, fired
  <2> QED
    BY <2>1, <2>9, <2>10, <2>11 DEF Group, keys, rule
<1> QED
  BY <1>1, JudgedInvariant, PTL

-----------------------------------------------------------------------------
(* Imported rules, read as their upstream files. *)

\* Two entries of a map come to stand for the same field.
MapCollides(entries) ==
  \E i, j \in DOMAIN entries : /\ i # j
                               /\ Mapped(FieldMap, entries[i].field) = Mapped(FieldMap, entries[j].field)
                               /\ entries[i].modifier = entries[j].modifier

\* An entry in the fields of the event schema.
TranslateEntry(entry) == [entry EXCEPT !.field = Mapped(FieldMap, @)]

\* Without such entries every entry of a map is translated, and nothing else.
LEMMA TranslatedEntries ==
  ASSUME NEW entries, IsList(entries), ~MapCollides(entries)
  PROVE  ToSet(TranslateMap(entries)) = {TranslateEntry(entry) : entry \in ToSet(entries)}
<1> DEFINE key(k) == <<Mapped(FieldMap, entries[k].field), entries[k].modifier>>
           S == {k \in DOMAIN entries : \A j \in 1..(k - 1) : key(j) # key(k)}
           same(k) == {j \in DOMAIN entries : key(j) = key(k)}
           last(k) == Max(same(k))
           firsts == Ascending(S)
           m == Len(entries)
<1>1. m \in Nat /\ DOMAIN entries = 1..m
  BY ListIsSeq
<1>2. \A i, j \in 1..m : key(i) = key(j) => i = j
  BY <1>1 DEF MapCollides
<1>3. TranslateMap(entries) = [i \in DOMAIN firsts |-> TranslateEntry(entries[last(firsts[i])])]
  BY DEF TranslateMap, TranslateEntry
<1> HIDE DEF key
<1>4. S = 1..m
  <2>1. ASSUME NEW k \in 1..m, NEW j \in 1..(k - 1) PROVE key(j) # key(k)
    <3>1. j \in 1..m /\ j # k
      BY <1>1, <2>1
    <3> QED
      BY <1>2, <3>1
  <2> QED
    BY <1>1, <2>1
<1>5. ASSUME NEW k \in 1..m PROVE last(k) = k
  <2> DEFINE T == same(k)
  <2>1. T = {k}
    BY <1>1, <1>2
  <2>2. T \in SUBSET Int /\ T # {} /\ k \in Int /\ \A t \in T : t <= k
    BY <1>1, <2>1
  <2> HIDE DEF T
  <2>3. Max(T) \in T
    BY <2>2, GreatestElement
  <2> QED
    BY <2>1, <2>3 DEF T
<1> HIDE DEF S, last
<1>6. ToSet(firsts) = 1..m
  <2>1. IsFiniteSet(S) /\ S \in SUBSET Int
    BY <1>1, <1>4, UpToFinite
  <2> QED
    BY <1>4, <2>1, AscendingOf
<1> HIDE DEF firsts
<1>7. ToSet(TranslateMap(entries)) = {TranslateEntry(entries[k]) : k \in 1..m}
  <2>1. \A i \in DOMAIN firsts : firsts[i] \in 1..m /\ last(firsts[i]) = firsts[i]
    BY <1>5, <1>6 DEF ToSet
  <2>2. DOMAIN TranslateMap(entries) = DOMAIN firsts
    BY <1>3
  <2>3. \A i \in DOMAIN firsts : TranslateMap(entries)[i] = TranslateEntry(entries[firsts[i]])
    BY <1>3, <2>1
  <2>4. \A k \in 1..m : \E i \in DOMAIN firsts : k = firsts[i]
    BY <1>6 DEF ToSet
  <2>5. ToSet(TranslateMap(entries)) = {TranslateMap(entries)[i] : i \in DOMAIN firsts}
    BY <2>2 DEF ToSet
  <2> QED
    BY <2>1, <2>3, <2>4, <2>5
<1>8. ToSet(entries) = {entries[k] : k \in 1..m}
  BY <1>1 DEF ToSet
<1> QED
  BY <1>7, <1>8

\* So a translated selection holds where the upstream one does.
LEMMA TranslatedHolds ==
  ASSUME NEW file, IsUpstream(file), file.condition # None, ~Collides(file),
         NEW n \in DOMAIN file.selections, NEW event
  PROVE  SelectionHolds(event, TranslateSelection(file.selections[n])) <=> SelectsUpstream(file, n, event)
<1> DEFINE spec == file.selections[n]
<1>1. IsSelection(spec)
  BY DEF IsUpstream, IsDetection
<1>2. /\ TranslateSelection(spec).maps = [k \in DOMAIN spec.maps |-> TranslateMap(spec.maps[k])]
      /\ \A k \in DOMAIN spec.maps : spec.maps[k] \in ToSet(spec.maps)
  BY <1>1 DEF TranslateSelection, IsSelection, ToSet
<1>3. \A k \in DOMAIN spec.maps : ~MapCollides(spec.maps[k])
  BY DEF Collides, MapCollides
<1>4. SelectsUpstream(file, n, event) <=>
        \E k \in DOMAIN spec.maps : \A entry \in ToSet(spec.maps[k]) :
          \E v \in entry.values : <<event.get[Mapped(FieldMap, entry.field)], entry.modifier, v>> \in Matching
  BY DEF SelectsUpstream
<1>5. ASSUME NEW k \in DOMAIN spec.maps
      PROVE  MapHolds(event, TranslateMap(spec.maps[k])) <=>
               \A entry \in ToSet(spec.maps[k]) :
                 \E v \in entry.values : <<event.get[Mapped(FieldMap, entry.field)], entry.modifier, v>> \in Matching
  <2> DEFINE entries == spec.maps[k]
             Hit(f, entry) == \E v \in entry.values : <<event.get[f], entry.modifier, v>> \in Matching
  <2>1. /\ IsList(entries) /\ ~MapCollides(entries)
        /\ \A entry \in ToSet(entries) : {"field", "modifier", "values"} \subseteq DOMAIN entry
    BY <1>1, <1>2, <1>3 DEF IsSelection
  <2> HIDE DEF entries
  <2>2. ToSet(TranslateMap(entries)) = {TranslateEntry(entry) : entry \in ToSet(entries)}
    BY <2>1, TranslatedEntries
  <2>3. \A entry \in ToSet(entries) :
          /\ TranslateEntry(entry).field = Mapped(FieldMap, entry.field)
          /\ TranslateEntry(entry).modifier = entry.modifier /\ TranslateEntry(entry).values = entry.values
    BY <2>1 DEF TranslateEntry
  <2>4. \A entry \in ToSet(entries) :
          Hit(TranslateEntry(entry).field, TranslateEntry(entry)) <=> Hit(Mapped(FieldMap, entry.field), entry)
    BY <2>3
  <2>5. MapHolds(event, TranslateMap(entries)) <=> \A entry \in ToSet(TranslateMap(entries)) : Hit(entry.field, entry)
    BY DEF MapHolds
  <2> HIDE DEF Hit
  <2>6. MapHolds(event, TranslateMap(entries)) <=> \A entry \in ToSet(entries) : Hit(Mapped(FieldMap, entry.field), entry)
    BY <2>2, <2>4, <2>5
  <2> QED
    BY <2>6 DEF Hit, entries
<1>6. SelectionHolds(event, TranslateSelection(spec)) <=> \E k \in DOMAIN spec.maps : MapHolds(event, TranslateMap(spec.maps[k]))
  BY <1>2 DEF SelectionHolds
<1> QED
  BY <1>4, <1>5, <1>6

\* The one upstream file of an id is the one its rule was made of.
LEMMA FileOfRule ==
  ASSUME Shape, Sourced, NEW rule \in ToSet(rules), NEW file \in FileOf(rule)
  PROVE  Translates(rule, file)
<1> DEFINE ids == [k \in DOMAIN input.sigma |-> TranslateRule(input.sigma[k]).id]
           at == {k \in DOMAIN ids : ids[k] = rule.id}
<1>1. Cardinality(at) = 1 /\ rule.id \notin {f.id : f \in ToSet(input.files)} /\ file \in {input.sigma[k] : k \in at}
  BY Zenon DEF FileOf
<1>2. IsList(input.sigma)
  BY DEF Shape, Loaded, IsDeployment
<1>3. IsFiniteSet(at)
  <2>1. IsFiniteSet(DOMAIN input.sigma) /\ at \in SUBSET DOMAIN input.sigma
    BY <1>2, ListFinite
  <2> HIDE DEF at
  <2> QED
    BY <2>1, FS_Subset
<1>4. PICK other : Translates(rule, other)
  BY <1>1 DEF Sourced, IsNative
<1>5. PICK k \in DOMAIN input.sigma : other = input.sigma[k]
  BY <1>4 DEF Translates, ToSet
<1>6. k \in at
  BY <1>4, <1>5 DEF Translates
<1>7. PICK j \in at : file = input.sigma[j]
  BY <1>1
<1> HIDE DEF at
<1>8. j = k
  BY <1>1, <1>3, <1>6, <1>7, FS_Singleton
<1> QED
  BY <1>4, <1>5, <1>7, <1>8

\* An imported rule fires exactly where its upstream file, read in the event
\* schema, holds (sigma_import.py 64-117, 181-193).
THEOREM ImportsFireAsWritten == Spec => []ImportedAsWritten
<1>1. Shape /\ Sourced /\ Judged => ImportedAsWritten
  <2> DEFINE Upstream(file, event) ==
               /\ SaysCategory(file) => event.get["event.category"] = Mapped(CategoryMap, file.logsource.category)
               /\ "service" \in DOMAIN file.logsource =>
                    <<event.get["process.name"], file.logsource.service>> \in Prefixed
               /\ Meaning(file.condition, [n \in DOMAIN file.selections |-> SelectsUpstream(file, n, event)]) = {TRUE}
  <2> SUFFICES ASSUME Shape, Sourced, Judged, NEW k \in Evaluated, NEW file \in FileOf(rules[k]),
                      ~Collides(file), file.condition.pipe = "none"
               PROVE  {a.events[1] : a \in ToSet(byRule[rules[k].id])} = {e \in DOMAIN events : Upstream(file, events[e])}
    BY DEF ImportedAsWritten
  <2> DEFINE rule == rules[k]
             fired == EvaluateRule(rule, events).alerts
  <2>1. /\ rule \in ToSet(rules) /\ IsWritten(rule) /\ AreEvents(events)
        /\ EvaluateRule(rule, events).err = "none" /\ byRule[rule.id] = fired
    BY EvaluatedOf
  <2>2. Translates(rule, file)
    BY <2>1, FileOfRule
  <2>3. IsUpstream(file) /\ rule = TranslateRule(file) /\ file.condition # None
    BY <2>2 DEF Shape, Loaded, IsDeployment, Translates, Reasons, When, Unusable
  <2>4. /\ rule.condition = file.condition
        /\ rule.selections = [n \in DOMAIN file.selections |-> TranslateSelection(file.selections[n])]
    BY <2>3, TranslateRuleOf
  <2>5. rule.logsource = TranslateLogsource(file.logsource)
    BY <2>3 DEF TranslateRule, IsUpstream
  <2> HIDE DEF rule
  <2>6. ASSUME NEW event PROVE Means(rule, event) <=> Upstream(file, event)
    <3>1. InLogsource(rule, event) <=>
            /\ SaysCategory(file) => event.get["event.category"] = Mapped(CategoryMap, file.logsource.category)
            /\ "service" \in DOMAIN file.logsource =>
                 <<event.get["process.name"], file.logsource.service>> \in Prefixed
      <4> DEFINE said == file.logsource
                 fields == {key \in DOMAIN said : key = "category" => ~UnknownCategory(said)}
      <4>1. rule.logsource = [key \in fields |-> IF key = "category" THEN Mapped(CategoryMap, said[key]) ELSE said[key]]
        BY <2>5 DEF TranslateLogsource
      <4>2. "service" \in fields <=> "service" \in DOMAIN said
        OBVIOUS
      <4>3. "category" \in fields <=> SaysCategory(file)
        BY DEF SaysCategory, UnknownCategory
      <4>4. /\ DOMAIN rule.logsource = fields
            /\ "service" \in fields => rule.logsource.service = said.service
            /\ "category" \in fields => rule.logsource.category = Mapped(CategoryMap, said.category)
        BY <4>1
      <4> HIDE DEF fields
      <4> QED
        BY <4>2, <4>3, <4>4 DEF InLogsource, InCategory
    <3>2. Holding(rule, event) = [n \in DOMAIN file.selections |-> SelectsUpstream(file, n, event)]
      <4>1. Holding(rule, event) = [n \in DOMAIN rule.selections |-> SelectionHolds(event, rule.selections[n])]
        BY DEF Holding, SelectionHolds, MapHolds
      <4>2. \A n \in DOMAIN file.selections :
              /\ SelectionHolds(event, TranslateSelection(file.selections[n])) <=> SelectsUpstream(file, n, event)
              /\ SelectionHolds(event, TranslateSelection(file.selections[n])) \in BOOLEAN
              /\ SelectsUpstream(file, n, event) \in BOOLEAN
        <5> SUFFICES ASSUME NEW n \in DOMAIN file.selections
                     PROVE  /\ SelectionHolds(event, TranslateSelection(file.selections[n])) <=> SelectsUpstream(file, n, event)
                            /\ SelectionHolds(event, TranslateSelection(file.selections[n])) \in BOOLEAN
                            /\ SelectsUpstream(file, n, event) \in BOOLEAN
          OBVIOUS
        <5>1. SelectionHolds(event, TranslateSelection(file.selections[n])) <=> SelectsUpstream(file, n, event)
          BY <2>3, TranslatedHolds
        <5>2. SelectionHolds(event, TranslateSelection(file.selections[n])) \in BOOLEAN
          BY DEF SelectionHolds
        <5>3. SelectsUpstream(file, n, event) \in BOOLEAN
          BY DEF SelectsUpstream
        <5> QED
          BY <5>1, <5>2, <5>3
      <4>3. /\ DOMAIN rule.selections = DOMAIN file.selections
            /\ \A n \in DOMAIN file.selections : rule.selections[n] = TranslateSelection(file.selections[n])
        BY <2>4
      <4> QED
        BY <4>1, <4>2, <4>3
    <3> QED
      BY <2>4, <3>1, <3>2 DEF Means
  <2>7. {a.events : a \in ToSet(fired)} = {<<e>> : e \in Meant(rule, events)}
    BY <2>1, <2>4, RuleFires
  <2>8. {a.events[1] : a \in ToSet(fired)} = Meant(rule, events)
    <3> HIDE DEF fired
    <3>1. ASSUME NEW a \in ToSet(fired) PROVE a.events[1] \in Meant(rule, events)
      <4>1. a.events \in {<<e>> : e \in Meant(rule, events)}
        BY <2>7
      <4>2. PICK e \in Meant(rule, events) : a.events = <<e>>
        BY <4>1
      <4> QED
        BY <4>2
    <3>2. ASSUME NEW e \in Meant(rule, events) PROVE \E a \in ToSet(fired) : e = a.events[1]
      <4>1. <<e>> \in {a.events : a \in ToSet(fired)}
        BY <2>7
      <4>2. PICK a \in ToSet(fired) : <<e>> = a.events
        BY <4>1
      <4>3. e = a.events[1]
        BY <4>2
      <4> QED
        BY <4>3
    <3> QED
      BY <3>1, <3>2
  <2>9. Meant(rule, events) = {e \in DOMAIN events : Upstream(file, events[e])}
    <3> HIDE DEF Upstream
    <3> QED
      BY <2>6 DEF Meant
  <2> HIDE DEF fired, Upstream
  <2> QED
    BY <2>1, <2>8, <2>9 DEF rule
<1> QED
  BY <1>1, JudgedInvariant, PTL

=============================================================================
