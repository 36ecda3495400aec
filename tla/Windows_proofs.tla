--------------------------- MODULE Windows_proofs ---------------------------
(***************************************************************************)
(* Proofs about the three sliding windows an alert goes through: the sweep *)
(* that decides whether a threshold rule fires (module Aggregation), the   *)
(* filter that keeps one alert of a burst (module Dedup), and the searches *)
(* for a chain of alerts (module Correlation).  They hold for every group  *)
(* or batch, every set of timestamps, every window, every aggregation      *)
(* clause, every set of keys and every list of rules.                      *)
(*                                                                         *)
(* The sweep is correct because the events are sorted: when the window     *)
(* fits, it holds all the events that a window ending with its last event  *)
(* may hold (WindowIsInterval), and the events that left it stay too old   *)
(* for every later end.  Sweeping is that argument as an invariant of the  *)
(* loop.                                                                   *)
(*                                                                         *)
(* The filter is correct because the alerts still to do all come after the *)
(* ones done, so that last_seen holds the latest time of a key among ALL   *)
(* alerts before the next one; an alert is kept by comparing with that one *)
(* time exactly when it opens a burst by the definition.                   *)
(*                                                                         *)
(* The ordered search is correct because the earliest follower loses       *)
(* nothing: a chain that starts no earlier has none of its links before    *)
(* those of the greedy chain (Growth).  The unordered one is correct       *)
(* because the counts are those of the window and because what left the    *)
(* window is too old for every later end (Sweep).                          *)
(***************************************************************************)
EXTENDS Aggregation, Dedup, Correlation, FiniteSetTheorems, TLAPS

-----------------------------------------------------------------------------
(* The sweep of Aggregation. *)

\* A comparison that can only start to hold when the count grows.
Upward == agg.op \in {">", ">=", "=="} /\ Needed > 0

\* Events that lie within one window of each other.
Close(S) == \A d, e \in S : events[d] - events[e] <= agg.window

\* What is true at every turn of the loops.
Sweeping ==
  /\ Dated # {}
  /\ timed \in [1..Cardinality(Dated) -> Dated]
  /\ IsSorting(timed)
  /\ start \in 1..end
  /\ end \in 1..Cardinality(Dated)
  /\ ~fired
  /\ \A k \in 1..(start - 1) : At(end) - At(k) > agg.window
  /\ \A k \in 1..(end - 1) : ~Crosses(timed[k])
  /\ Upward => /\ end - start + 1 <= Needed
               /\ \A S \in SUBSET {timed[k] : k \in 1..(end - 1)} :
                    Close(S) => Cardinality(S) # Needed

\* What is true when the sweep has returned, of a group with dated events.
Returned ==
  \/ /\ fired
     /\ \E e \in Dated :
          /\ Crosses(e)
          /\ evidence = WindowOf(e)
          /\ \A d \in Dated : Crosses(d) => Before(e, d)
          /\ Upward => Cardinality(WindowOf(e)) = Needed /\ Close(WindowOf(e))
  \/ /\ ~fired
     /\ \A e \in Dated : ~Crosses(e)
     /\ Upward => \A S \in SUBSET Dated : Close(S) => Cardinality(S) # Needed

\* The inductive invariant.
IInv ==
  /\ SweepTypeOK
  /\ pc = "sort" => ~fired
  /\ pc = "sweep" => Sweeping
  /\ (pc = "done" /\ Dated # {}) => Returned

-----------------------------------------------------------------------------
(* The data: groups are finite, timestamps are integers.                   *)

\* The dated events of a group are finitely many, at most MaxEvents, and
\* their timestamps can be compared and subtracted.
LEMMA DatedFinite ==
  ASSUME events \in Groups
  PROVE  /\ IsFiniteSet(Dated)
         /\ Cardinality(Dated) \in 0..MaxEvents
         /\ Dated # {} => Cardinality(Dated) >= 1
         /\ \A e \in Dated : events[e] \in Int
         /\ Dated \subseteq Nat
<1>1. PICK n \in 1..MaxEvents : events \in [1..n -> Time \union {Undated}]
  BY DEF Groups
<1>2. Dated \subseteq 1..n /\ n \in Nat /\ n <= MaxEvents
  BY <1>1, MaxEventsAssumption DEF Dated
<1>3. IsFiniteSet(1..n) /\ Cardinality(1..n) = n
  BY <1>2, FS_Interval
<1>4. IsFiniteSet(Dated) /\ Cardinality(Dated) <= n
  BY <1>2, <1>3, FS_Subset
<1>5. Cardinality(Dated) \in Nat
  BY <1>4, FS_CardinalityType
<1>6. Dated # {} => Cardinality(Dated) # 0
  BY <1>4, FS_EmptySet
<1>7. \A e \in Dated : events[e] \in Int
  BY <1>1, TimeAssumption DEF Dated
<1> QED
  BY <1>2, <1>4, <1>5, <1>6, <1>7, MaxEventsAssumption

\* The clause's comparison is over natural numbers.
LEMMA AggType ==
  ASSUME agg \in Aggs
  PROVE  agg.op \in Ops /\ agg.n \in Nat /\ agg.window \in Nat
BY AggsAssumption

\* A window that is a run of the sorted events has as many events as indices.
LEMMA RunCardinality ==
  ASSUME events \in Groups, timed \in [1..Cardinality(Dated) -> Dated],
         IsSorting(timed), NEW a \in 1..Cardinality(Dated),
         NEW b \in a..Cardinality(Dated)
  PROVE  Cardinality({timed[k] : k \in a..b}) = b - a + 1
<1> DEFINE run == {timed[k] : k \in a..b}
           f == [k \in a..b |-> timed[k]]
<1>1. Cardinality(Dated) \in Nat
  BY DatedFinite
<1>2. a \in Int /\ b \in Int /\ a <= b /\ a..b \subseteq 1..Cardinality(Dated)
  BY <1>1
<1>3. IsFiniteSet(a..b) /\ Cardinality(a..b) = b - a + 1
  BY <1>2, FS_Interval
<1>4. ASSUME NEW j \in a..b, NEW k \in a..b, j # k
      PROVE  timed[j] # timed[k]
  <2>1. j \in DOMAIN timed /\ k \in DOMAIN timed /\ (j < k \/ k < j)
    BY <1>2, <1>4
  <2> QED
    BY <2>1 DEF IsSorting
<1>5. f \in Bijection(a..b, run)
  <2>1. f \in [a..b -> run]
    OBVIOUS
  <2>2. \A j, k \in a..b : f[j] = f[k] => j = k
    BY <1>4
  <2>3. \A t \in run : \E k \in a..b : f[k] = t
    OBVIOUS
  <2> QED
    BY <2>1, <2>2, <2>3 DEF Bijection, Injection, Surjection, IsInjective
<1>6. Cardinality(run) = Cardinality(a..b)
  BY <1>3, <1>5, FS_Bijection DEF ExistsBijection
<1> QED
  BY <1>3, <1>6

-----------------------------------------------------------------------------
(* The loop.                                                               *)

\* When the window fits, it is everything that may precede its last event:
\* older events are too old, and sorting leaves nothing in between out.
LEMMA WindowIsInterval ==
  ASSUME SweepTypeOK, Sweeping, Fits
  PROVE  /\ WindowOf(timed[end]) = {timed[k] : k \in start..end}
         /\ Cardinality(WindowOf(timed[end])) = end - start + 1
         /\ Close(WindowOf(timed[end]))
<1> DEFINE n == Cardinality(Dated)
<1>1. /\ n \in Nat
      /\ \A e \in Dated : events[e] \in Int
      /\ agg.window \in Nat
      /\ Dated \subseteq Nat
  BY DatedFinite, AggType DEF SweepTypeOK
<1>2. /\ timed \in [1..n -> Dated]
      /\ end \in 1..n
      /\ start \in 1..end
      /\ \A d \in Dated : \E k \in 1..n : timed[k] = d
      /\ \A j, k \in 1..n : j < k => Before(timed[j], timed[k]) /\ timed[j] # timed[k]
  BY DEF Sweeping, IsSorting
<1>3. \A k \in 1..n : timed[k] \in Dated /\ timed[k] \in Nat /\ At(k) \in Int
  BY <1>1, <1>2 DEF At
<1>4. \A j, k \in 1..n : j <= k => At(j) <= At(k)
  BY <1>1, <1>2, <1>3 DEF At, Before
<1>5. \A k \in 1..n : Before(timed[k], timed[end]) => k <= end
  <2> SUFFICES ASSUME NEW k \in 1..n, Before(timed[k], timed[end]), end < k
               PROVE  FALSE
    BY <1>1, <1>2
  <2>1. Before(timed[end], timed[k]) /\ timed[end] # timed[k]
    BY <1>2
  <2>2. /\ timed[end] \in Nat /\ timed[k] \in Nat
        /\ events[timed[end]] \in Int /\ events[timed[k]] \in Int
    BY <1>1, <1>2, <1>3
  <2> QED
    BY <2>1, <2>2 DEF Before
<1>6. \A k \in 1..end : Before(timed[k], timed[end])
  <2> TAKE k \in 1..end
  <2>1. k \in 1..n /\ (k < end \/ k = end)
    BY <1>1, <1>2
  <2>2. timed[end] \in Nat
    BY <1>3, <1>2
  <2>3. Before(timed[end], timed[end])
    BY <2>2 DEF Before
  <2> QED
    BY <2>1, <2>3, <1>2
<1>7. \A k \in 1..end : At(end) - At(k) <= agg.window <=> k >= start
  <2> TAKE k \in 1..end
  <2>1. CASE k < start
    <3>1. k \in 1..(start - 1)
      BY <2>1, <1>1, <1>2
    <3>2. At(end) - At(k) > agg.window
      BY <3>1 DEF Sweeping
    <3> QED
      BY <3>2, <2>1, <1>1, <1>2, <1>3, SMTT(20)
  <2>2. CASE k >= start
    <3>1. At(start) <= At(k) /\ At(end) - At(start) <= agg.window
      BY <2>2, <1>1, <1>2, <1>4 DEF Fits
    <3>2. k \in 1..n /\ start \in 1..n /\ end \in 1..n
      BY <1>1, <1>2
    <3>3. At(k) \in Int /\ At(start) \in Int /\ At(end) \in Int
      BY <3>2, <1>3
    <3> QED
      BY <3>1, <3>3, <2>2, <1>1
  <2> QED
    BY <2>1, <2>2, <1>1, <1>2
<1>8. WindowOf(timed[end]) = {timed[k] : k \in start..end}
  <2>1. ASSUME NEW d \in WindowOf(timed[end])
        PROVE  d \in {timed[k] : k \in start..end}
    <3>1. PICK k \in 1..n : timed[k] = d
      BY <1>2 DEF WindowOf
    <3>2. k <= end /\ At(end) - At(k) <= agg.window
      BY <3>1, <1>5 DEF WindowOf, At
    <3>3. k \in start..end
      BY <3>2, <1>1, <1>2, <1>7
    <3> QED
      BY <3>1, <3>3
  <2>2. ASSUME NEW k \in start..end
        PROVE  timed[k] \in WindowOf(timed[end])
    <3>1. k \in 1..end /\ k \in 1..n /\ k >= start
      BY <1>1, <1>2
    <3> QED
      BY <3>1, <1>3, <1>6, <1>7 DEF WindowOf, At
  <2> QED
    BY <2>1, <2>2
<1>9. start \in 1..n /\ end \in start..n
  BY <1>1, <1>2
<1>10. Cardinality({timed[k] : k \in start..end}) = end - start + 1
  BY <1>9, RunCardinality DEF SweepTypeOK, Sweeping
<1>11. Close(WindowOf(timed[end]))
  <2> SUFFICES ASSUME NEW j \in start..end, NEW k \in start..end
               PROVE  events[timed[j]] - events[timed[k]] <= agg.window
    BY <1>8 DEF Close
  <2>1. At(j) <= At(end) /\ At(start) <= At(k) /\ At(end) - At(start) <= agg.window
    BY <1>1, <1>2, <1>4 DEF Fits
  <2>2. j \in 1..n /\ k \in 1..n /\ start \in 1..n /\ end \in 1..n
    BY <1>1, <1>2
  <2>3. At(j) \in Int /\ At(k) \in Int /\ At(start) \in Int /\ At(end) \in Int
    BY <2>2, <1>3
  <2> QED
    BY <2>1, <2>3, <1>1 DEF At
<1> QED
  BY <1>8, <1>10, <1>11

\* A count below what an upward comparison needs does not satisfy it; a
\* count that does not satisfy it and is not beyond the need is below it.
LEMMA UpwardCompare ==
  ASSUME agg \in Aggs, Upward, NEW count \in Nat \ {0}
  PROVE  /\ Needed \in Nat
         /\ Compare(count) => count >= Needed
         /\ (~Compare(count) /\ count <= Needed) => count < Needed
BY AggType DEF Upward, Needed, Compare, Ops

\* The sets of sorted events up to end that are close together and big
\* enough: the newest event cannot complete one unless the window fires.
LEMMA NoCloseSet ==
  ASSUME SweepTypeOK, Sweeping, Fits, ~Satisfied, Upward
  PROVE  \A S \in SUBSET {timed[k] : k \in 1..end} :
           Close(S) => Cardinality(S) # Needed
<1> SUFFICES ASSUME NEW S \in SUBSET {timed[k] : k \in 1..end}, Close(S),
                    Cardinality(S) = Needed
             PROVE  FALSE
  OBVIOUS
<1> DEFINE n == Cardinality(Dated)
<1>1. /\ n \in Nat /\ IsFiniteSet(Dated)
      /\ \A e \in Dated : events[e] \in Int
      /\ agg.window \in Nat
  BY DatedFinite, AggType DEF SweepTypeOK
<1>2. /\ timed \in [1..n -> Dated]
      /\ end \in 1..n
      /\ start \in 1..end
      /\ \A j, k \in 1..n : j < k => Before(timed[j], timed[k])
  BY DEF Sweeping, IsSorting
<1>3. end - start + 1 \in Nat \ {0} /\ end - start + 1 <= Needed
  BY <1>1, <1>2 DEF Sweeping
<1>4. end - start + 1 < Needed /\ Needed \in Nat
  BY <1>3, UpwardCompare DEF Satisfied, SweepTypeOK
<1>5. CASE timed[end] \in S
  <2>1. S \subseteq WindowOf(timed[end])
    <3> SUFFICES ASSUME NEW k \in 1..end, timed[k] \in S
                 PROVE  timed[k] \in WindowOf(timed[end])
      OBVIOUS
    <3>1. events[timed[end]] - events[timed[k]] <= agg.window
      BY <1>5 DEF Close
    <3>2. Before(timed[k], timed[end]) \/ k = end
      BY <1>1, <1>2
    <3>3. Before(timed[end], timed[end])
      <4>1. timed[end] \in Nat
        BY <1>2, DatedFinite DEF SweepTypeOK
      <4> QED
        BY <4>1 DEF Before
    <3>4. timed[k] \in Dated
      BY <1>1, <1>2
    <3> QED
      BY <3>1, <3>2, <3>3, <3>4 DEF WindowOf
  <2>2. IsFiniteSet(WindowOf(timed[end]))
    BY <1>1, FS_Subset DEF WindowOf
  <2>3. Cardinality(S) <= end - start + 1
    BY <2>1, <2>2, FS_Subset, WindowIsInterval
  <2>4. Cardinality(S) \in Nat
    BY <2>1, <2>2, FS_Subset, FS_CardinalityType
  <2> QED
    BY <2>3, <2>4, <1>3, <1>4
<1>6. CASE timed[end] \notin S
  <2>1. S \in SUBSET {timed[k] : k \in 1..(end - 1)}
    <3> SUFFICES ASSUME NEW k \in 1..end, timed[k] \in S
                 PROVE  k \in 1..(end - 1)
      OBVIOUS
    <3> QED
      BY <1>1, <1>2, <1>6
  <2> QED
    BY <2>1 DEF Sweeping
<1> QED
  BY <1>5, <1>6

-----------------------------------------------------------------------------
(* The steps.                                                              *)

\* Sorting puts both pointers on the first event.
LEMMA SortStep ==
  ASSUME IInv, Sort
  PROVE  IInv'
<1> DEFINE n == Cardinality(Dated)
<1>1. n \in 1..MaxEvents /\ MaxEvents \in Nat
  BY DatedFinite, MaxEventsAssumption DEF IInv, SweepTypeOK, Sort
<1>2. /\ timed' \in [1..n -> Dated]
      /\ IsSorting(timed')
      /\ start' = 1 /\ end' = 1 /\ pc' = "sweep"
      /\ UNCHANGED <<events, agg, fired, evidence>>
      /\ Dated # {} /\ pc = "sort"
  BY DEF Sort
<1>3. Dated' = Dated
  BY <1>2 DEF Dated
<1>4. IsSorting(timed)' <=> IsSorting(timed')
  BY <1>2, <1>3 DEF IsSorting, Before
<1>5. SweepTypeOK'
  BY <1>1, <1>2, <1>3 DEF IInv, SweepTypeOK
<1>6. Sweeping'
  <2>1. Upward' => Needed' \in Nat /\ Needed' > 0
    BY <1>2, AggType DEF IInv, SweepTypeOK, Upward, Needed, Ops
  <2>2. \A S \in SUBSET {timed'[k] : k \in 1..0} : S = {}
    OBVIOUS
  <2>3. Cardinality({}) = 0
    BY FS_EmptySet
  <2>4. \A S \in SUBSET {timed'[k] : k \in 1..(end' - 1)} : S = {}
    BY <1>2, <2>2
  <2>5. Upward' =>
          /\ end' - start' + 1 <= Needed'
          /\ \A S \in SUBSET {timed'[k] : k \in 1..(end' - 1)} :
               Close(S)' => Cardinality(S) # Needed'
    <3>1. ASSUME Upward'
          PROVE  end' - start' + 1 <= Needed'
      <4>1. Needed' \in Nat /\ Needed' > 0
        BY <2>1, <3>1
      <4>2. end' - start' + 1 = 1
        BY <1>2
      <4> QED
        BY <4>1, <4>2
    <3>2. ASSUME Upward', NEW S \in SUBSET {timed'[k] : k \in 1..(end' - 1)}
          PROVE  Cardinality(S) # Needed'
      <4>1. Needed' \in Nat /\ Needed' > 0
        BY <2>1, <3>2
      <4>2. S = {}
        BY <2>4, <3>2
      <4>3. Cardinality(S) = 0
        BY <2>3, <4>2
      <4> QED
        BY <4>1, <4>3
    <3> QED
      BY <3>1, <3>2
  <2>6. ~fired'
    BY <1>2 DEF IInv
  <2> QED
    BY <1>1, <1>2, <1>3, <1>4, <2>5, <2>6 DEF Sweeping
<1> QED
  BY <1>2, <1>5, <1>6 DEF IInv

\* The window is too wide: its first event is too old for every later end.
LEMMA ShrinkStep ==
  ASSUME IInv, Shrink
  PROVE  IInv'
<1> DEFINE n == Cardinality(Dated)
<1>1. /\ UNCHANGED <<events, agg, pc, timed, end, fired, evidence>>
      /\ pc = "sweep" /\ start' = start + 1
      /\ At(end) - At(start) > agg.window
      /\ Sweeping /\ SweepTypeOK
  BY DEF Shrink, IInv
<1>2. Dated' = Dated
  BY <1>1 DEF Dated
<1>3. n \in 0..MaxEvents /\ MaxEvents \in Nat /\ agg.window \in Nat
  BY <1>1, DatedFinite, AggType, MaxEventsAssumption DEF SweepTypeOK
<1>4. start \in 1..end /\ end \in 1..n
  BY <1>1 DEF Sweeping
<1>5. At(end) \in Int
  BY <1>1, <1>4, DatedFinite DEF At, SweepTypeOK, Sweeping
<1>6. start # end
  BY <1>1, <1>3, <1>5
<1>7. start' \in 1..end /\ start' \in 0..MaxEvents
  BY <1>1, <1>3, <1>4, <1>6
<1>8. SweepTypeOK'
  BY <1>1, <1>2, <1>7 DEF SweepTypeOK
<1>9. IsSorting(timed)' /\ (\A k : At(k)' = At(k))
  BY <1>1, <1>2 DEF Sweeping, IsSorting, Before, At
<1>10. \A k \in 1..(start' - 1) : At(end) - At(k) > agg.window
  <2> TAKE k \in 1..(start' - 1)
  <2>1. k \in 1..(start - 1) \/ k = start
    BY <1>1, <1>3, <1>4
  <2> QED
    BY <2>1, <1>1 DEF Sweeping
<1>11. \A k \in 1..(end - 1) : ~Crosses(timed[k])'
  BY <1>1, <1>2 DEF Sweeping, Crosses, Compare, WindowOf, Before
<1>12. Upward' =>
         /\ end' - start' + 1 <= Needed'
         /\ \A S \in SUBSET {timed'[k] : k \in 1..(end' - 1)} :
              Close(S)' => Cardinality(S) # Needed'
  <2>1. Upward' = Upward /\ Needed' = Needed
    BY <1>1 DEF Upward, Needed
  <2>2. Needed \in Int
    BY <1>1, AggType DEF SweepTypeOK, Needed
  <2>3. \A S : Close(S)' <=> Close(S)
    BY <1>1 DEF Close
  <2>4. Upward => end - start + 1 <= Needed
    BY <1>1 DEF Sweeping
  <2>5. Upward => end' - start' + 1 <= Needed
    BY <2>2, <2>4, <1>1, <1>3, <1>4
  <2>6. Upward =>
          \A S \in SUBSET {timed[k] : k \in 1..(end - 1)} :
            Close(S) => Cardinality(S) # Needed
    BY <1>1 DEF Sweeping
  <2> QED
    BY <1>1, <2>1, <2>3, <2>5, <2>6
<1>13. Sweeping'
  <2>1. Dated # {} /\ timed \in [1..n -> Dated] /\ ~fired
    BY <1>1 DEF Sweeping
  <2> QED
    BY <2>1, <1>1, <1>2, <1>4, <1>7, <1>9, <1>10, <1>11, <1>12 DEF Sweeping
<1> QED
  BY <1>1, <1>8, <1>13 DEF IInv

\* A window that fits satisfies the comparison or its last event does not
\* cross.
LEMMA SatisfiedIsCrossing ==
  ASSUME SweepTypeOK, Sweeping, Fits
  PROVE  Satisfied <=> Crosses(timed[end])
BY WindowIsInterval DEF Satisfied, Crosses

\* The first window that satisfies the comparison is returned.
LEMMA FireStep ==
  ASSUME IInv, Fire
  PROVE  IInv'
<1> DEFINE n == Cardinality(Dated)
           e == timed[end]
<1>1. /\ UNCHANGED <<events, agg, timed, start, end>>
      /\ pc = "sweep" /\ pc' = "done" /\ fired' /\ fired' = TRUE
      /\ evidence' = {timed[k] : k \in start..end}
      /\ Sweeping /\ SweepTypeOK /\ Fits /\ Satisfied
  BY DEF Fire, IInv
<1>2. /\ n \in Nat
      /\ timed \in [1..n -> Dated]
      /\ start \in 1..end /\ end \in 1..n
      /\ \A d \in Dated : \E k \in 1..n : timed[k] = d
      /\ \A j, k \in 1..n : j < k => Before(timed[j], timed[k])
      /\ \A k \in 1..(end - 1) : ~Crosses(timed[k])
  BY <1>1, DatedFinite DEF Sweeping, IsSorting, SweepTypeOK
<1>3. e \in Dated /\ e \in Nat
  BY <1>1, <1>2, DatedFinite DEF SweepTypeOK
<1>4. Crosses(e) /\ evidence' = WindowOf(e)
  BY <1>1, SatisfiedIsCrossing, WindowIsInterval
<1>5. \A d \in Dated : Crosses(d) => Before(e, d)
  <2> SUFFICES ASSUME NEW d \in Dated, Crosses(d)
               PROVE  Before(e, d)
    OBVIOUS
  <2>1. PICK k \in 1..n : timed[k] = d
    BY <1>2
  <2>2. k = end \/ end < k
    BY <2>1, <1>2
  <2>3. Before(e, e)
    BY <1>3 DEF Before
  <2> QED
    BY <2>1, <2>2, <2>3, <1>2
<1>6. Upward => Cardinality(WindowOf(e)) = Needed /\ Close(WindowOf(e))
  <2> SUFFICES ASSUME Upward
               PROVE  Cardinality(WindowOf(e)) = Needed /\ Close(WindowOf(e))
    OBVIOUS
  <2>1. Cardinality(WindowOf(e)) = end - start + 1 /\ Close(WindowOf(e))
    BY <1>1, WindowIsInterval
  <2>2. end - start + 1 \in Nat \ {0}
    BY <1>2
  <2>3. end - start + 1 <= Needed
    BY <1>1 DEF Sweeping
  <2>4. end - start + 1 >= Needed /\ Needed \in Nat
    BY <1>1, <2>2, UpwardCompare DEF Satisfied, SweepTypeOK
  <2> QED
    BY <2>1, <2>2, <2>3, <2>4
<1>7. Dated' = Dated /\ (\A d : WindowOf(d)' = WindowOf(d) /\ Crosses(d)' = Crosses(d))
  BY <1>1 DEF Dated, WindowOf, Before, Crosses, Compare
<1>8. /\ Upward' = Upward /\ Needed' = Needed
      /\ (\A S : Close(S)' <=> Close(S))
      /\ (\A d : Before(e, d)' <=> Before(e, d))
  BY <1>1 DEF Upward, Needed, Close, Before
<1>9. Returned'
  BY <1>1, <1>3, <1>4, <1>5, <1>6, <1>7, <1>8 DEF Returned
<1>10. SweepTypeOK'
  <2>1. WindowOf(e) \subseteq DOMAIN events
    BY DEF WindowOf, Dated
  <2> QED
    BY <2>1, <1>1, <1>4, <1>7 DEF SweepTypeOK
<1> QED
  BY <1>1, <1>9, <1>10 DEF IInv

\* The outer loop: an event that left the window stays outside.
LEMMA AdvanceStep ==
  ASSUME IInv, Advance
  PROVE  IInv'
<1> DEFINE n == Cardinality(Dated)
<1>1. /\ UNCHANGED <<events, agg, pc, timed, start, fired, evidence>>
      /\ pc = "sweep" /\ end' = end + 1 /\ end + 1 \in DOMAIN timed
      /\ Sweeping /\ SweepTypeOK /\ Fits /\ ~Satisfied
  BY DEF Advance, IInv
<1>2. /\ n \in 0..MaxEvents /\ MaxEvents \in Nat
      /\ agg.window \in Nat
      /\ \A d \in Dated : events[d] \in Int
  BY <1>1, DatedFinite, AggType, MaxEventsAssumption DEF SweepTypeOK
<1>3. /\ timed \in [1..n -> Dated]
      /\ start \in 1..end /\ end \in 1..n
      /\ \A j, k \in 1..n : j < k => Before(timed[j], timed[k])
      /\ Dated # {} /\ ~fired
  BY <1>1 DEF Sweeping, IsSorting
<1>4. end' \in 1..n /\ start \in 1..end' /\ end' \in 0..MaxEvents
  BY <1>1, <1>2, <1>3
<1>5. Dated' = Dated /\ (\A d : WindowOf(d)' = WindowOf(d) /\ Crosses(d)' = Crosses(d))
  BY <1>1 DEF Dated, WindowOf, Before, Crosses, Compare
<1>6. /\ Upward' = Upward /\ Needed' = Needed
      /\ (\A S : Close(S)' <=> Close(S))
      /\ IsSorting(timed)' <=> IsSorting(timed)
      /\ (\A k : At(k)' = At(k))
  BY <1>1, <1>5 DEF Upward, Needed, Close, IsSorting, Before, At
<1>7. \A k \in 1..(start - 1) : At(end + 1) - At(k) > agg.window
  <2> TAKE k \in 1..(start - 1)
  <2>1. k \in 1..n /\ end + 1 \in 1..n /\ end < end + 1
    BY <1>1, <1>2, <1>3
  <2>2. At(end) <= At(end + 1) /\ At(end) \in Int /\ At(end + 1) \in Int /\ At(k) \in Int
    BY <2>1, <1>2, <1>3 DEF Before, At
  <2>3. At(end) - At(k) > agg.window
    BY <1>1 DEF Sweeping
  <2> QED
    BY <2>2, <2>3, <1>2
<1>8. \A k \in 1..end : ~Crosses(timed[k])
  <2> TAKE k \in 1..end
  <2>1. k = end \/ k \in 1..(end - 1)
    BY <1>2, <1>3
  <2>2. ~Crosses(timed[end])
    BY <1>1, SatisfiedIsCrossing
  <2> QED
    BY <2>1, <2>2, <1>1 DEF Sweeping
<1>9. Upward =>
        /\ end' - start + 1 <= Needed
        /\ \A S \in SUBSET {timed[k] : k \in 1..end} :
             Close(S) => Cardinality(S) # Needed
  <2> SUFFICES ASSUME Upward
               PROVE  /\ end' - start + 1 <= Needed
                      /\ \A S \in SUBSET {timed[k] : k \in 1..end} :
                           Close(S) => Cardinality(S) # Needed
    OBVIOUS
  <2>1. end - start + 1 \in Nat \ {0} /\ end - start + 1 <= Needed
    BY <1>1, <1>2, <1>3 DEF Sweeping
  <2>2. end - start + 1 < Needed /\ Needed \in Nat
    BY <1>1, <2>1, UpwardCompare DEF Satisfied, SweepTypeOK
  <2>3. end' - start + 1 <= Needed
    BY <2>2, <1>1, <1>2, <1>3
  <2> QED
    BY <2>3, <1>1, NoCloseSet
<1>10. end' - 1 = end
  BY <1>1, <1>2, <1>3
<1>11. SweepTypeOK'
  BY <1>1, <1>4, <1>5 DEF SweepTypeOK
<1>12. \A k \in 1..(start' - 1) : (At(end) - At(k) > agg.window)'
  BY <1>1, <1>6, <1>7
<1>13. Sweeping'
  BY <1>1, <1>3, <1>4, <1>5, <1>6, <1>8, <1>9, <1>10, <1>12 DEF Sweeping
<1> QED
  BY <1>1, <1>11, <1>13 DEF IInv

\* Past the last event nothing crosses.
LEMMA GiveUpStep ==
  ASSUME IInv, GiveUp
  PROVE  IInv'
<1> DEFINE n == Cardinality(Dated)
<1>1. /\ UNCHANGED <<events, agg, timed, start, end, fired, evidence>>
      /\ pc = "sweep" /\ pc' = "done" /\ end + 1 \notin DOMAIN timed
      /\ Sweeping /\ SweepTypeOK /\ Fits /\ ~Satisfied
  BY DEF GiveUp, IInv
<1>2. /\ n \in Nat
      /\ timed \in [1..n -> Dated]
      /\ end \in 1..n /\ ~fired
      /\ \A d \in Dated : \E k \in 1..n : timed[k] = d
  BY <1>1, DatedFinite DEF Sweeping, IsSorting, SweepTypeOK
<1>3. end = n
  BY <1>1, <1>2
<1>4. \A d \in Dated : ~Crosses(d)
  <2> TAKE d \in Dated
  <2>1. PICK k \in 1..n : timed[k] = d
    BY <1>2
  <2>2. k = end \/ k \in 1..(end - 1)
    BY <2>1, <1>2, <1>3
  <2>3. ~Crosses(timed[end])
    BY <1>1, SatisfiedIsCrossing
  <2> QED
    BY <2>1, <2>2, <2>3, <1>1 DEF Sweeping
<1>5. Upward => \A S \in SUBSET Dated : Close(S) => Cardinality(S) # Needed
  <2>1. Dated = {timed[k] : k \in 1..end}
    BY <1>2, <1>3
  <2> QED
    BY <2>1, <1>1, NoCloseSet
<1>6. Dated' = Dated /\ (\A d : WindowOf(d)' = WindowOf(d) /\ Crosses(d)' = Crosses(d))
  BY <1>1 DEF Dated, WindowOf, Before, Crosses, Compare
<1>7. /\ Upward' = Upward /\ Needed' = Needed
      /\ (\A S : Close(S)' <=> Close(S))
  BY <1>1 DEF Upward, Needed, Close
<1>8. Returned'
  BY <1>1, <1>2, <1>4, <1>5, <1>6, <1>7 DEF Returned
<1>9. SweepTypeOK'
  BY <1>1, <1>6 DEF SweepTypeOK
<1> QED
  BY <1>1, <1>8, <1>9 DEF IInv

-----------------------------------------------------------------------------
(* The theorems.                                                           *)

\* The loop invariant of the sweep holds throughout (engine.py 447-454).
THEOREM SweepInvariant == SweepSpec => []IInv
<1>1. SweepInit => IInv
  <2> SUFFICES ASSUME SweepInit PROVE IInv
    OBVIOUS
  <2>1. timed \in [1..0 -> Dated]
    BY DEF SweepInit
  <2>2. 0 \in 0..MaxEvents
    BY MaxEventsAssumption
  <2>3. SweepTypeOK
    BY <2>1, <2>2 DEF SweepInit, SweepTypeOK
  <2> QED
    BY <2>3 DEF SweepInit, IInv
<1>2. IInv /\ [SweepNext]_sweepVars => IInv'
  <2> SUFFICES ASSUME IInv, [SweepNext]_sweepVars
               PROVE  IInv'
    OBVIOUS
  <2>1. CASE Bucket
    <3>1. Dated' = Dated /\ Dated = {} /\ pc' = "done"
      BY <2>1 DEF Bucket, Dated
    <3>2. fired' \in BOOLEAN
      BY <2>1 DEF Bucket, Compare
    <3>3. SweepTypeOK'
      BY <2>1, <3>1, <3>2 DEF Bucket, IInv, SweepTypeOK
    <3> QED
      BY <3>1, <3>3 DEF IInv
  <2>2. CASE Sort
    BY <2>2, SortStep
  <2>3. CASE Shrink
    BY <2>3, ShrinkStep
  <2>4. CASE Fire
    BY <2>4, FireStep
  <2>5. CASE Advance
    BY <2>5, AdvanceStep
  <2>6. CASE GiveUp
    BY <2>6, GiveUpStep
  <2>7. CASE UNCHANGED sweepVars
    BY <2>7 DEF sweepVars, IInv, SweepTypeOK, Sweeping, Returned, Dated, IsSorting,
            Before, At, Crosses, Compare, WindowOf, Upward, Needed, Close
  <2> QED
    BY <2>1, <2>2, <2>3, <2>4, <2>5, <2>6, <2>7 DEF SweepNext
<1> QED
  BY <1>1, <1>2, PTL DEF SweepSpec

\* Every variable of the sweep keeps its type.
THEOREM TypeCorrect == SweepSpec => []SweepTypeOK
<1>1. IInv => SweepTypeOK
  BY DEF IInv
<1> QED
  BY <1>1, SweepInvariant, PTL

\* No index of the sweep leaves the list of sorted events, so evaluating a
\* rule never ends in an IndexError (engine.py 447-450).
THEOREM NeverOverruns == SweepSpec => []NoOverrun
<1>1. IInv => NoOverrun
  <2> SUFFICES ASSUME IInv, pc = "sweep"
               PROVE  start \in DOMAIN timed /\ end \in DOMAIN timed
    BY DEF NoOverrun
  <2>1. Cardinality(Dated) \in Nat
    BY DatedFinite DEF IInv, SweepTypeOK
  <2> QED
    BY <2>1 DEF IInv, Sweeping
<1> QED
  BY <1>1, SweepInvariant, PTL

\* The sweep fires for a group exactly when some window of the rule's width
\* satisfies the comparison (engine.py 441-454).
THEOREM FiresCorrectly == SweepSpec => []FiresIffCrossing
<1>1. IInv => FiresIffCrossing
  BY DEF IInv, Returned, FiresIffCrossing
<1> QED
  BY <1>1, SweepInvariant, PTL

\* The evidence of an alert is the earliest window that crosses, complete
\* (engine.py 452-453).
THEOREM EvidenceCorrect == SweepSpec => []EvidenceIsFirstWindow
<1>1. IInv => EvidenceIsFirstWindow
  BY DEF IInv, Returned, EvidenceIsFirstWindow
<1> QED
  BY <1>1, SweepInvariant, PTL

\* A rule that counts upwards fires exactly when enough events of the group
\* lie within one window of each other, whichever they are; for == as for >=.
THEOREM ThresholdCorrect == SweepSpec => []ThresholdMeaning
<1>1. IInv => ThresholdMeaning
  <2> SUFFICES ASSUME IInv, pc = "done", Dated # {}, Upward
               PROVE  fired <=> \E S \in SUBSET Dated :
                                  Cardinality(S) = Needed /\ Close(S)
    BY DEF ThresholdMeaning, Upward, Close
  <2>1. Returned
    BY DEF IInv
  <2>2. \A e : WindowOf(e) \in SUBSET Dated
    BY DEF WindowOf
  <2> QED
    BY <2>1, <2>2 DEF Returned
<1> QED
  BY <1>1, SweepInvariant, PTL

-----------------------------------------------------------------------------
(* The filter of Dedup. *)

Done == Alerts \ todo

\* The loop goes through the batch in the order of the sort.
TodoLater == \A a \in Done, b \in todo : Sooner(a, b)

\* last_seen is the latest time of its key so far.
LatestSeen ==
  \A d \in Done \intersect DatedAlerts :
    lastSeen[KeyOf(d)] # None /\ StampOf(d) <= lastSeen[KeyOf(d)]

\* ... and the time of an alert.
SeenSomewhere ==
  \A k \in Keys :
    lastSeen[k] # None =>
      \E d \in Done \intersect DatedAlerts : KeyOf(d) = k /\ StampOf(d) = lastSeen[k]

KeptDone == Kept \subseteq Done

DedupIInv ==
  /\ DedupTypeOK
  /\ TodoLater
  /\ LatestSeen
  /\ SeenSomewhere
  /\ KeptDone
  /\ RepresentativeKnown
  /\ KeptExactly
  /\ KeptApart

\* Alerts are numbers with a key, and a time that is a number or None.
LEMMA AlertType ==
  ASSUME DedupTypeOK
  PROVE  /\ Alerts \subseteq Nat
         /\ None \notin Alerts
         /\ \A a \in Alerts : KeyOf(a) \in Keys
         /\ \A a \in DatedAlerts : StampOf(a) \in Int /\ StampOf(a) \in Stamps
  <1>1. PICK n \in 1..MaxAlerts : batch \in [1..n -> [key: Keys, time: Stamps \union {None}]]
    BY DEF DedupTypeOK, Batches
  <1>2. Alerts = 1..n
    BY <1>1 DEF Alerts
  <1>3. 1..n \subseteq Nat
    BY MaxAlertsAssumption
  <1>4. \A a \in Alerts : KeyOf(a) \in Keys /\ StampOf(a) \in Stamps \union {None}
    BY <1>1, <1>2 DEF KeyOf, StampOf
  <1>5. None \notin Alerts
    BY <1>2, <1>3, StampsAssumption
  <1>6. \A a \in DatedAlerts : StampOf(a) \in Stamps /\ StampOf(a) \in Int
    BY <1>4, StampsAssumption DEF DatedAlerts
  <1> QED
    BY <1>2, <1>3, <1>4, <1>5, <1>6

\* An alert that precedes the next one has been handled.
LEMMA PrecedingDone ==
  ASSUME DedupTypeOK, NEW a, IsNext(a), NEW d \in DatedAlerts, Precedes(d, a)
  PROVE  d \in Done
  BY AlertType DEF IsNext, Precedes, Sooner, Done, DatedAlerts

\* A handled alert of the key precedes the next one.
LEMMA DonePrecedes ==
  ASSUME DedupTypeOK, TodoLater, NEW a \in DatedAlerts, IsNext(a),
         NEW d \in Done \intersect DatedAlerts, KeyOf(d) = KeyOf(a)
  PROVE  Precedes(d, a) /\ StampOf(d) <= StampOf(a)
  <1>1. Sooner(d, a)
    BY DEF TodoLater, IsNext, DatedAlerts
  <1> QED
    BY <1>1, AlertType DEF Sooner, Precedes, DatedAlerts, Done

\* The code's test decides whether the next alert opens a burst.
LEMMA WithinWindowIffRepeat ==
  ASSUME DedupIInv, NEW a \in todo, IsNext(a)
  PROVE  WithinWindow(a) <=> ~Opens(a)
  <1> USE AlertType DEF DedupIInv
  <1>1. a \in Alerts
    BY DEF DedupTypeOK
  <1>2. ASSUME WithinWindow(a) PROVE ~Opens(a)
    <2>1. a \in DatedAlerts /\ KeyOf(a) \in Keys /\ lastSeen[KeyOf(a)] # None
      BY <1>1, <1>2 DEF WithinWindow
    <2>2. PICK d \in Done \intersect DatedAlerts :
            KeyOf(d) = KeyOf(a) /\ StampOf(d) = lastSeen[KeyOf(a)]
      BY <2>1 DEF SeenSomewhere
    <2>3. Precedes(d, a)
      BY <2>1, <2>2, DonePrecedes
    <2> QED
      BY <1>2, <2>1, <2>2, <2>3 DEF WithinWindow, Opens
  <1>3. ASSUME ~Opens(a) PROVE WithinWindow(a)
    <2>1. a \in DatedAlerts
      BY <1>3 DEF Opens
    <2>2. PICK d \in DatedAlerts : Precedes(d, a) /\ StampOf(a) - StampOf(d) <= Window
      BY <1>3, <2>1 DEF Opens
    <2>3. d \in Done /\ KeyOf(d) = KeyOf(a)
      BY <2>2, PrecedingDone DEF Precedes
    <2>4. lastSeen[KeyOf(a)] # None /\ StampOf(d) <= lastSeen[KeyOf(a)]
      BY <2>3 DEF LatestSeen
    <2>5. lastSeen[KeyOf(a)] \in Int
      BY <1>1, <2>4, StampsAssumption DEF DedupTypeOK
    <2>6. StampOf(a) \in Int /\ StampOf(d) \in Int
      BY <2>1
    <2> QED
      BY <2>1, <2>2, <2>4, <2>5, <2>6, WindowAssumption DEF WithinWindow
  <1> QED
    BY <1>2, <1>3

\* What the two actions do to the loop's bookkeeping is the same.
Handled(a) ==
  /\ a \in todo
  /\ IsNext(a)
  /\ Remember(a)
  /\ todo' = todo \ {a}
  /\ UNCHANGED batch

\* The alert just handled joins the handled ones, after all of them.
LEMMA HandledStep ==
  ASSUME DedupIInv, NEW a, Handled(a), DedupTypeOK'
  PROVE  /\ Done' = Done \union {a}
         /\ TodoLater'
         /\ LatestSeen'
         /\ SeenSomewhere'
  <1> USE AlertType DEF DedupIInv
  <1>0. /\ a \in Alerts /\ a \notin Done /\ todo \subseteq Alerts
        /\ Alerts' = Alerts /\ DatedAlerts' = DatedAlerts
        /\ \A b : KeyOf(b)' = KeyOf(b) /\ StampOf(b)' = StampOf(b)
        /\ \A b, c : Sooner(b, c)' <=> Sooner(b, c)
    BY DEF Handled, DedupTypeOK, Alerts, DatedAlerts, KeyOf, StampOf, Done, Sooner
  <1>1. Done' = Done \union {a}
    BY <1>0 DEF Handled, Done
  <1>2. TodoLater'
    BY <1>0, <1>1 DEF Handled, TodoLater, IsNext
  <1>3. ASSUME NEW d \in (Done \intersect DatedAlerts)'
        PROVE  lastSeen'[KeyOf(d)] # None /\ StampOf(d) <= lastSeen'[KeyOf(d)]
    <2>1. KeyOf(d) \in Keys /\ KeyOf(a) \in Keys /\ d \in DatedAlerts /\ StampOf(d) \in Int
      BY <1>0, <1>1, <1>3 DEF Done
    <2>2. lastSeen \in [Keys -> Stamps \union {None}]
      BY DEF DedupTypeOK
    <2>3. CASE a \in DatedAlerts /\ KeyOf(d) = KeyOf(a)
      <3>1. lastSeen'[KeyOf(d)] = StampOf(a)
        BY <2>1, <2>2, <2>3 DEF Handled, Remember
      <3>2. StampOf(a) \in Int /\ StampOf(d) <= StampOf(a)
        BY <1>0, <1>1, <1>3, <2>1, <2>3, DonePrecedes DEF Handled
      <3> QED
        BY <3>1, <3>2, StampsAssumption
    <2>4. CASE ~(a \in DatedAlerts /\ KeyOf(d) = KeyOf(a))
      <3>1. lastSeen'[KeyOf(d)] = lastSeen[KeyOf(d)]
        BY <2>1, <2>2, <2>4 DEF Handled, Remember
      <3>2. d \in Done
        BY <1>0, <1>1, <1>3, <2>1, <2>4
      <3> QED
        BY <2>1, <3>1, <3>2 DEF LatestSeen
    <2> QED
      BY <2>3, <2>4
  <1>4. LatestSeen'
    BY <1>0, <1>3 DEF LatestSeen
  <1>5. ASSUME NEW k \in Keys, lastSeen'[k] # None
        PROVE  \E d \in (Done \intersect DatedAlerts)' :
                 KeyOf(d) = k /\ StampOf(d) = lastSeen'[k]
    <2>1. CASE a \in DatedAlerts /\ k = KeyOf(a)
      BY <1>0, <1>1, <2>1 DEF Handled, Remember, DedupTypeOK
    <2>2. CASE ~(a \in DatedAlerts /\ k = KeyOf(a))
      <3>1. lastSeen'[k] = lastSeen[k]
        BY <1>5, <2>2 DEF Handled, Remember, DedupTypeOK
      <3> QED
        BY <1>0, <1>1, <1>5, <3>1 DEF SeenSomewhere
    <2> QED
      BY <2>1, <2>2
  <1>6. SeenSomewhere'
    BY <1>0, <1>5 DEF SeenSomewhere
  <1> QED
    BY <1>1, <1>2, <1>4, <1>6

\* A repeat is not kept, and it does not open a burst.
LEMMA AbsorbStep == ASSUME DedupIInv, NEW a \in todo, Absorb(a) PROVE DedupIInv'
  <1> USE AlertType DEF DedupIInv
  <1>0. /\ a \in Alerts /\ IsNext(a) /\ WithinWindow(a) /\ kept' = kept
        /\ Alerts' = Alerts /\ DatedAlerts' = DatedAlerts /\ Kept' = Kept
        /\ \A b : KeyOf(b)' = KeyOf(b) /\ StampOf(b)' = StampOf(b)
        /\ \A b : Opens(b)' <=> Opens(b)
    BY DEF Absorb, DedupTypeOK, Alerts, DatedAlerts, KeyOf, StampOf, Kept, Opens, Precedes
  <1>1. DedupTypeOK'
    <2>1. a \in DatedAlerts /\ representative[KeyOf(a)] \in Alerts
      BY <1>0 DEF WithinWindow, RepresentativeKnown, DatedAlerts
    <2>2. todo' \subseteq Alerts /\ lastSeen' \in [Keys -> Stamps \union {None}]
      BY <1>0, <2>1 DEF Absorb, Remember, DedupTypeOK
    <2>3. occurrences' \in [Alerts -> Nat \ {0}]
      BY <1>0, <2>1 DEF Absorb, DedupTypeOK
    <2>4. StampOf(a) \in Stamps
      BY <2>1
    <2>5. seen' \in [Alerts -> Stamps \union {None}]
      BY <1>0, <2>1, <2>4 DEF Absorb, DedupTypeOK
    <2> QED
      BY <1>0, <2>2, <2>3, <2>5 DEF Absorb, DedupTypeOK
  <1>2. Done' = Done \union {a} /\ TodoLater' /\ LatestSeen' /\ SeenSomewhere'
    BY <1>1, HandledStep DEF Absorb, Handled
  <1>3. KeptDone'
    BY <1>0, <1>2 DEF KeptDone
  <1>4. RepresentativeKnown'
    <2> SUFFICES ASSUME NEW k \in Keys, lastSeen'[k] # None
                 PROVE  representative[k] \in DatedAlerts
      BY <1>0 DEF RepresentativeKnown, Absorb
    <2>1. lastSeen[k] # None
      BY <1>0 DEF Absorb, Remember, WithinWindow, DedupTypeOK
    <2> QED
      BY <2>1 DEF RepresentativeKnown
  <1>5. KeptExactly'
    <2>1. ~Opens(a) /\ a \notin Kept
      BY <1>0, WithinWindowIffRepeat DEF KeptDone, Done
    <2> QED
      BY <1>0, <1>2, <2>1 DEF KeptExactly, Done
  <1>6. KeptApart'
    BY <1>0 DEF KeptApart
  <1> QED
    BY <1>1, <1>2, <1>3, <1>4, <1>5, <1>6

\* A kept alert opens a burst, later than Window after every kept one.
LEMMA KeepStep == ASSUME DedupIInv, NEW a \in todo, Keep(a) PROVE DedupIInv'
  <1> USE AlertType DEF DedupIInv
  <1>0. /\ a \in Alerts /\ IsNext(a) /\ ~WithinWindow(a) /\ Opens(a)
        /\ Alerts' = Alerts /\ DatedAlerts' = DatedAlerts
        /\ \A b : KeyOf(b)' = KeyOf(b) /\ StampOf(b)' = StampOf(b)
        /\ \A b : Opens(b)' <=> Opens(b)
    <2>1. Opens(a)
      BY WithinWindowIffRepeat DEF Keep
    <2> QED
      BY <2>1 DEF Keep, DedupTypeOK, Alerts, DatedAlerts, KeyOf, StampOf, Opens, Precedes
  <1>1. /\ kept \in Seq(Alerts) /\ kept' = Append(kept, a)
        /\ Len(kept) \in Nat /\ DOMAIN kept = 1..Len(kept)
        /\ DOMAIN kept' = 1..(Len(kept) + 1)
        /\ kept'[Len(kept) + 1] = a
        /\ \A j \in 1..Len(kept) : kept'[j] = kept[j] /\ kept[j] \in Kept
    BY <1>0 DEF Keep, DedupTypeOK, Kept
  <1>2. Kept' = Kept \union {a}
    BY <1>1 DEF Kept
  <1>3. DedupTypeOK'
    <2>1. /\ todo' \subseteq Alerts
          /\ representative' \in [Keys -> Alerts \union {None}]
          /\ lastSeen' \in [Keys -> Stamps \union {None}]
          /\ kept' \in Seq(Alerts)
          /\ occurrences' \in [Alerts -> Nat \ {0}]
      BY <1>0, <1>1 DEF Keep, Remember, DedupTypeOK
    <2>2. StampOf(a) \in Stamps \union {None}
      BY <1>0 DEF DatedAlerts
    <2>3. seen' \in [Alerts -> Stamps \union {None}]
      BY <1>0, <2>2 DEF Keep, DedupTypeOK
    <2> QED
      BY <1>0, <2>1, <2>3 DEF Keep, DedupTypeOK
  <1>4. Done' = Done \union {a} /\ TodoLater' /\ LatestSeen' /\ SeenSomewhere'
    BY <1>3, HandledStep DEF Keep, Handled
  <1>5. KeptDone'
    BY <1>2, <1>4 DEF KeptDone
  <1>6. RepresentativeKnown'
    <2> SUFFICES ASSUME NEW k \in Keys, lastSeen'[k] # None
                 PROVE  representative'[k] \in DatedAlerts
      BY <1>0 DEF RepresentativeKnown
    <2>1. CASE k = KeyOf(a) /\ a \in DatedAlerts
      BY <2>1 DEF Keep, DedupTypeOK
    <2>2. CASE k # KeyOf(a)
      BY <2>2 DEF Keep, Remember, RepresentativeKnown, DedupTypeOK
    <2>3. CASE k = KeyOf(a) /\ a \notin DatedAlerts
      \* Undated alerts come first: no key has a dated occurrence yet.
      <3>1. lastSeen[k] # None
        BY <2>3 DEF Keep, Remember
      <3>2. PICK d \in Done \intersect DatedAlerts : StampOf(d) = lastSeen[k]
        BY <3>1 DEF SeenSomewhere
      <3>3. Sooner(d, a)
        BY <3>2 DEF TodoLater
      <3> QED
        BY <2>3, <3>2, <3>3 DEF Sooner
    <2> QED
      BY <2>1, <2>2, <2>3
  <1>7. KeptExactly'
    BY <1>0, <1>2, <1>4 DEF KeptExactly, Done
  <1>8. KeptApart'
    <2> SUFFICES ASSUME NEW j \in DOMAIN kept', NEW k \in DOMAIN kept', j < k,
                        {kept'[j], kept'[k]} \subseteq DatedAlerts,
                        KeyOf(kept'[j]) = KeyOf(kept'[k])
                 PROVE  StampOf(kept'[k]) - StampOf(kept'[j]) > Window
      BY <1>0 DEF KeptApart
    <2>1. CASE k \in 1..Len(kept)
      BY <1>1, <2>1 DEF KeptApart
    <2>2. CASE k = Len(kept) + 1
      <3>1. kept'[k] = a /\ kept'[j] = kept[j] /\ kept[j] \in Done \intersect DatedAlerts
        BY <1>1, <2>2 DEF KeptDone
      <3>2. Precedes(kept[j], a)
        BY <1>0, <3>1, DonePrecedes
      <3>3. ~(StampOf(a) - StampOf(kept[j]) <= Window)
        BY <1>0, <3>1, <3>2 DEF Opens
      <3>4. StampOf(a) \in Int /\ StampOf(kept[j]) \in Int
        BY <3>1
      <3> QED
        BY <3>1, <3>3, <3>4, WindowAssumption
    <2> QED
      BY <1>1, <2>1, <2>2
  <1> QED
    BY <1>3, <1>4, <1>5, <1>6, <1>7, <1>8

\* The inductive invariant of the loop (dedup.py 49-76).
THEOREM FilterInvariant == DedupSpec => []DedupIInv
  <1>1. DedupInit => DedupIInv
    <2> SUFFICES ASSUME DedupInit PROVE DedupIInv
      OBVIOUS
    <2>1. batch \in Batches /\ todo = Alerts /\ kept = <<>> /\ Done = {}
      BY DEF DedupInit, Done
    <2>2. DedupTypeOK
      BY <2>1 DEF DedupInit, DedupTypeOK
    <2>3. Kept = {} /\ DOMAIN kept = {}
      BY <2>1 DEF Kept
    <2> QED
      BY <2>1, <2>2, <2>3 DEF DedupInit, DedupIInv, TodoLater, LatestSeen, SeenSomewhere, KeptDone,
         RepresentativeKnown, KeptExactly, KeptApart, Done
  <1>2. DedupIInv /\ [DedupNext]_dedupVars => DedupIInv'
    <2> SUFFICES ASSUME DedupIInv, [DedupNext]_dedupVars PROVE DedupIInv'
      OBVIOUS
    <2>1. CASE DedupNext
      BY <2>1, AbsorbStep, KeepStep DEF DedupNext
    <2>2. CASE UNCHANGED dedupVars
      BY <2>2 DEF dedupVars, DedupIInv, DedupTypeOK, TodoLater, LatestSeen, SeenSomewhere, KeptDone,
         RepresentativeKnown, KeptExactly, KeptApart, Done, Kept, Alerts, DatedAlerts, KeyOf,
         StampOf, Sooner, Opens, Precedes
    <2> QED
      BY <2>1, <2>2
  <1> QED
    BY <1>1, <1>2, PTL DEF DedupSpec

\* Exactly the alerts that open a burst are kept (dedup.py 9-12, 54-76).
THEOREM KeepsExactly == DedupSpec => []KeptExactly
  BY FilterInvariant, PTL DEF DedupIInv

\* Kept alerts of one key lie more than the window apart (live.py 176-183).
THEOREM KeepsApart == DedupSpec => []KeptApart
  BY FilterInvariant, PTL DEF DedupIInv

\* representative[key] raises no KeyError (dedup.py 65-76).
THEOREM KnowsRepresentative == DedupSpec => []RepresentativeKnown
  BY FilterInvariant, PTL DEF DedupIInv

\* Every step keeps the types (dedup.py 49-76).
THEOREM DedupTypeCorrect == DedupSpec => []DedupTypeOK
  BY FilterInvariant, PTL DEF DedupIInv

-----------------------------------------------------------------------------
(* The size of a burst.  Repeats are counted on the latest kept alert of   *)
(* their key, and a burst only grows as long as it is the latest.          *)

LatestKept ==
  \A k \in Keys :
    lastSeen[k] # None =>
      /\ representative[k] \in Kept \intersect DatedAlerts /\ KeyOf(representative[k]) = k
      /\ \A q \in Kept \intersect DatedAlerts :
           KeyOf(q) = k => q = representative[k] \/ Precedes(q, representative[k])

SumInv == DedupIInv /\ LatestKept /\ BurstsSummed

\* No two alerts precede each other.
LEMMA OneBefore ==
  ASSUME DedupTypeOK, NEW a, NEW b, Precedes(a, b)
  PROVE  ~Precedes(b, a) /\ a # b
  <1>1. a \in Nat /\ b \in Nat /\ StampOf(a) \in Int /\ StampOf(b) \in Int
    BY AlertType DEF Precedes, DatedAlerts
  <1>2. StampOf(a) < StampOf(b) \/ (StampOf(a) = StampOf(b) /\ a < b)
    BY DEF Precedes
  <1>3. ~(StampOf(b) < StampOf(a) \/ (StampOf(b) = StampOf(a) /\ b < a)) /\ a # b
    BY <1>1, <1>2
  <1> QED
    BY <1>3 DEF Precedes

\* Bursts are finite.
LEMMA BurstFinite ==
  ASSUME DedupTypeOK, NEW r
  PROVE  IsFiniteSet(Burst(r)) /\ Cardinality(Burst(r)) \in Nat
  <1>1. PICK n \in 1..MaxAlerts : batch \in [1..n -> [key: Keys, time: Stamps \union {None}]]
    BY DEF DedupTypeOK, Batches
  <1>2. IsFiniteSet(1..n)
    BY MaxAlertsAssumption, FS_Interval
  <1>3. Burst(r) \subseteq 1..n
    BY <1>1 DEF Burst, DatedAlerts, Alerts
  <1>4. IsFiniteSet(Burst(r))
    BY <1>2, <1>3, FS_Subset
  <1> QED
    BY <1>4, FS_CardinalityType

\* A repeat adds itself to the latest burst of its key and to no other.
LEMMA AbsorbSum == ASSUME SumInv, DedupIInv', NEW a \in todo, Absorb(a) PROVE SumInv'
  <1> USE AlertType
  <1>0. DedupIInv /\ DedupTypeOK /\ TodoLater
    BY DEF SumInv, DedupIInv
  <1>1. /\ a \in Alerts /\ IsNext(a) /\ WithinWindow(a) /\ kept' = kept
        /\ Alerts' = Alerts /\ DatedAlerts' = DatedAlerts /\ Kept' = Kept
        /\ \A b : KeyOf(b)' = KeyOf(b) /\ StampOf(b)' = StampOf(b)
        /\ \A b, c : Precedes(b, c)' <=> Precedes(b, c)
        /\ representative' = representative
        /\ todo' = todo \ {a}
    BY <1>0 DEF Absorb, DedupTypeOK, Alerts, DatedAlerts, KeyOf, StampOf, Kept, Precedes
  <1>2. a \in DatedAlerts /\ KeyOf(a) \in Keys /\ lastSeen[KeyOf(a)] # None
    BY <1>0, <1>1 DEF WithinWindow
  <1>3. PICK rep \in Kept :
        /\ rep = representative[KeyOf(a)] /\ rep \in DatedAlerts /\ KeyOf(rep) = KeyOf(a) /\ rep \in Done
        /\ \A q \in Kept \intersect DatedAlerts : KeyOf(q) = KeyOf(a) => q = rep \/ Precedes(q, rep)
    BY <1>0, <1>2 DEF SumInv, LatestKept, DedupIInv, KeptDone
  <1>4. Precedes(rep, a)
    BY <1>0, <1>1, <1>2, <1>3, DonePrecedes
  <1>5. a \notin Kept
    BY <1>0, <1>1 DEF DedupIInv, KeptDone, Done
  <1>6. LatestKept'
    <2>1. ASSUME NEW k \in Keys, lastSeen'[k] # None PROVE lastSeen[k] # None
      BY <1>0, <1>1, <1>2, <2>1 DEF Absorb, Remember, DedupTypeOK
    <2> QED
      BY <1>1, <2>1 DEF LatestKept, SumInv
  <1>7. ASSUME NEW r \in Kept, r # rep PROVE Burst(r)' = Burst(r)
    <2>1. Precedes(r, a) => Precedes(r, rep)
      BY <1>0, <1>3, <1>7 DEF Precedes
    <2> QED
      BY <1>1, <1>3, <1>4, <1>5, <1>7, <2>1 DEF Burst
  <1>8. Burst(rep)' = Burst(rep) \union {a}
    <2>1. ASSUME NEW q \in Kept, Precedes(rep, q) PROVE ~Precedes(q, a)
      <3>1. q \in DatedAlerts /\ KeyOf(q) = KeyOf(a)
        BY <1>3, <2>1 DEF Precedes
      <3>2. q = rep \/ Precedes(q, rep)
        BY <1>3, <3>1
      <3> QED
        BY <1>0, <2>1, <3>2, OneBefore
    <2>2. a \in Burst(rep)'
      BY <1>1, <1>2, <1>4, <1>5, <2>1 DEF Burst
    <2>3. ASSUME NEW b, b # a PROVE b \in Burst(rep)' <=> b \in Burst(rep)
      BY <1>1, <2>3 DEF Burst
    <2> QED
      BY <2>2, <2>3
  <1>9. a \notin Burst(rep)
    BY DEF Burst
  <1>10. /\ occurrences' = [occurrences EXCEPT ![rep] = @ + 1]
         /\ seen' = [seen EXCEPT ![rep] = StampOf(a)]
         /\ occurrences \in [Alerts -> Nat \ {0}] /\ seen \in [Alerts -> Stamps \union {None}]
         /\ Kept \subseteq Alerts
    BY <1>0, <1>3 DEF Absorb, DedupTypeOK, DedupIInv, KeptDone, Done
  <1>11. BurstsSummed'
    <2> SUFFICES ASSUME NEW r \in Kept
                 PROVE  /\ occurrences'[r] = IF r \in DatedAlerts THEN Cardinality(Burst(r)') ELSE 1
                        /\ r \in DatedAlerts => /\ \E b \in Burst(r)' : seen'[r] = StampOf(b)
                                          /\ \A b \in Burst(r)' : StampOf(b) <= seen'[r]
      BY <1>1 DEF BurstsSummed
    <2>1. CASE r # rep
      <3>1. occurrences'[r] = occurrences[r] /\ seen'[r] = seen[r]
        BY <1>10, <2>1
      <3> QED
        BY <1>7, <2>1, <3>1 DEF SumInv, BurstsSummed
    <2>2. CASE r = rep
      <3>1. occurrences'[r] = occurrences[r] + 1 /\ seen'[r] = StampOf(a)
        BY <1>3, <1>10, <2>2
      <3>2. IsFiniteSet(Burst(rep)) /\ Cardinality(Burst(rep)) \in Nat
        BY <1>0, BurstFinite
      <3>3. Cardinality(Burst(rep)') = Cardinality(Burst(rep)) + 1
        BY <1>8, <1>9, <3>2, FS_AddElement
      <3>4. occurrences[rep] = Cardinality(Burst(rep))
        BY <1>3 DEF SumInv, BurstsSummed
      <3>5. ASSUME NEW b \in Burst(r)' PROVE StampOf(b) <= StampOf(a)
        <4>1. CASE b = a
          BY <1>0, <1>2, <4>1
        <4>2. CASE b # a
          <5>1. b \in Done \intersect DatedAlerts /\ KeyOf(b) = KeyOf(a)
            <6>1. b \in Burst(rep)
              BY <1>8, <2>2, <3>5, <4>2
            <6>2. b \in DatedAlerts \ todo /\ (b = rep \/ Precedes(rep, b))
              BY <6>1 DEF Burst
            <6> QED
              BY <1>3, <6>2 DEF Precedes, Done, DatedAlerts
          <5> QED
            BY <1>0, <1>1, <1>2, <5>1, DonePrecedes
        <4> QED
          BY <4>1, <4>2
      <3>6. a \in Burst(r)'
        BY <1>8, <2>2
      <3>7. occurrences'[r] = Cardinality(Burst(r)')
        BY <2>2, <3>1, <3>3, <3>4
      <3> QED
        BY <1>3, <2>2, <3>1, <3>5, <3>6, <3>7
    <2> QED
      BY <2>1, <2>2
  <1> QED
    BY <1>6, <1>11 DEF SumInv

\* A kept alert is a burst of its own, and no part of an earlier one.
LEMMA KeepSum == ASSUME SumInv, DedupIInv', NEW a \in todo, Keep(a) PROVE SumInv'
  <1> USE AlertType
  <1>0. DedupIInv /\ DedupTypeOK /\ TodoLater
    BY DEF SumInv, DedupIInv
  <1>1. /\ a \in Alerts /\ IsNext(a)
        /\ Alerts' = Alerts /\ DatedAlerts' = DatedAlerts
        /\ \A b : KeyOf(b)' = KeyOf(b) /\ StampOf(b)' = StampOf(b)
        /\ \A b, c : Precedes(b, c)' <=> Precedes(b, c)
        /\ todo' = todo \ {a} /\ KeyOf(a) \in Keys
    BY <1>0 DEF Keep, DedupTypeOK, Alerts, DatedAlerts, KeyOf, StampOf, Precedes
  <1>2. Kept' = Kept \union {a} /\ a \notin Kept /\ Kept \subseteq Done /\ Kept \subseteq Alerts
    <2>1. kept \in Seq(Alerts) /\ kept' = Append(kept, a)
      BY <1>0 DEF Keep, DedupTypeOK
    <2>2. /\ DOMAIN kept = 1..Len(kept) /\ DOMAIN kept' = 1..(Len(kept) + 1) /\ Len(kept) \in Nat
          /\ kept'[Len(kept) + 1] = a /\ \A j \in 1..Len(kept) : kept'[j] = kept[j]
      BY <1>1, <2>1
    <2> QED
      BY <1>0, <2>2 DEF Kept, DedupIInv, KeptDone, Done
  <1>3. ASSUME NEW d \in Done, d \in DatedAlerts, a \in DatedAlerts, KeyOf(d) = KeyOf(a) PROVE Precedes(d, a)
    BY <1>0, <1>1, <1>3, DonePrecedes
  <1>4. ASSUME NEW d \in Done PROVE ~Precedes(a, d)
    BY <1>0, <1>3, <1>4, OneBefore DEF Precedes
  <1>5. LatestKept'
    <2> SUFFICES ASSUME NEW k \in Keys, lastSeen'[k] # None
                 PROVE  /\ representative'[k] \in Kept' \intersect DatedAlerts
                        /\ KeyOf(representative'[k]) = k
                        /\ \A q \in Kept' \intersect DatedAlerts :
                             KeyOf(q) = k => q = representative'[k] \/ Precedes(q, representative'[k])
      BY <1>1 DEF LatestKept
    <2>1. CASE k = KeyOf(a) /\ a \in DatedAlerts
      <3>1. representative'[k] = a
        BY <1>0, <2>1 DEF Keep, DedupTypeOK
      <3> QED
        BY <1>2, <1>3, <2>1, <3>1
    <2>2. CASE k # KeyOf(a)
      <3>1. representative'[k] = representative[k] /\ lastSeen'[k] = lastSeen[k]
        BY <1>0, <1>1, <2>2 DEF Keep, Remember, DedupTypeOK
      <3> QED
        BY <1>2, <2>2, <3>1 DEF SumInv, LatestKept
    <2>3. CASE k = KeyOf(a) /\ a \notin DatedAlerts
      \* Undated alerts come first: no key has a dated occurrence yet.
      <3>1. lastSeen[k] # None
        BY <2>3 DEF Keep, Remember
      <3>2. PICK d \in Done \intersect DatedAlerts : StampOf(d) = lastSeen[k]
        BY <1>0, <3>1 DEF SeenSomewhere, DedupIInv
      <3>3. Sooner(d, a)
        BY <1>0, <3>2 DEF TodoLater
      <3> QED
        BY <2>3, <3>2, <3>3 DEF Sooner
    <2> QED
      BY <2>1, <2>2, <2>3
  <1>6. ASSUME NEW r \in Kept PROVE Burst(r)' = Burst(r)
    <2>1. r \in Done /\ r # a
      BY <1>2
    <2>2. a \notin Burst(r)'
      BY <1>1, <1>2, <2>1 DEF Burst
    <2>3. ASSUME NEW b, b # a PROVE b \in Burst(r)' <=> b \in Burst(r)
      <3>1. b \in DatedAlerts \ todo => b \in Done
        BY DEF Done, DatedAlerts
      <3> QED
        BY <1>1, <1>2, <1>4, <2>3, <3>1 DEF Burst
    <2>4. a \notin Burst(r)
      BY DEF Burst
    <2> QED
      BY <2>2, <2>3, <2>4
  <1>7. a \in DatedAlerts => Burst(a)' = {a}
    <2>1. ASSUME a \in DatedAlerts PROVE a \in Burst(a)'
      BY <1>1, <2>1 DEF Burst
    <2>2. ASSUME NEW b \in Burst(a)', b # a PROVE FALSE
      <3>1. b \in Done /\ Precedes(a, b)
        BY <1>1, <2>2 DEF Burst, Done, DatedAlerts
      <3> QED
        BY <1>4, <3>1
    <2> QED
      BY <2>1, <2>2
  <1>8. /\ occurrences' = [occurrences EXCEPT ![a] = 1] /\ seen' = [seen EXCEPT ![a] = StampOf(a)]
        /\ occurrences \in [Alerts -> Nat \ {0}] /\ seen \in [Alerts -> Stamps \union {None}]
    BY <1>0 DEF Keep, DedupTypeOK
  <1>9. BurstsSummed'
    <2> SUFFICES ASSUME NEW r \in Kept'
                 PROVE  /\ occurrences'[r] = IF r \in DatedAlerts THEN Cardinality(Burst(r)') ELSE 1
                        /\ r \in DatedAlerts => /\ \E b \in Burst(r)' : seen'[r] = StampOf(b)
                                          /\ \A b \in Burst(r)' : StampOf(b) <= seen'[r]
      BY <1>1 DEF BurstsSummed
    <2>1. CASE r \in Kept
      <3>1. occurrences'[r] = occurrences[r] /\ seen'[r] = seen[r]
        BY <1>2, <1>8, <2>1
      <3> QED
        BY <1>6, <2>1, <3>1 DEF SumInv, BurstsSummed
    <2>2. CASE r = a
      <3>1. occurrences'[r] = 1 /\ seen'[r] = StampOf(a)
        BY <1>1, <1>8, <2>2
      <3>2. Cardinality({a}) = 1
        BY FS_Singleton
      <3> QED
        BY <1>0, <1>7, <2>2, <3>1, <3>2
    <2> QED
      BY <1>2, <2>1, <2>2
  <1> QED
    BY <1>5, <1>9 DEF SumInv

\* Each kept alert counts its whole burst and carries the latest time of it, for every batch
\* and every window (dedup.py 65-73).
THEOREM SumsBursts == DedupSpec => []BurstsSummed
  <1>1. DedupInit => LatestKept /\ BurstsSummed
    BY DEF DedupInit, LatestKept, BurstsSummed, Kept
  <1>2. SumInv /\ DedupIInv' /\ [DedupNext]_dedupVars => SumInv'
    <2> SUFFICES ASSUME SumInv, DedupIInv', [DedupNext]_dedupVars PROVE SumInv'
      OBVIOUS
    <2>1. CASE DedupNext
      BY <2>1, AbsorbSum, KeepSum DEF DedupNext
    <2>2. CASE UNCHANGED dedupVars
      <3>1. /\ UNCHANGED <<Kept, DatedAlerts, todo>>
            /\ \A b : KeyOf(b)' = KeyOf(b) /\ StampOf(b)' = StampOf(b)
            /\ \A b, c : Precedes(b, c)' <=> Precedes(b, c)
        BY <2>2 DEF dedupVars, Kept, Alerts, DatedAlerts, KeyOf, StampOf, Precedes
      <3>2. \A r : Burst(r)' = Burst(r)
        BY <3>1 DEF Burst
      <3>3. LatestKept'
        BY <2>2, <3>1 DEF dedupVars, SumInv, LatestKept
      <3>4. BurstsSummed'
        BY <2>2, <3>1, <3>2 DEF dedupVars, SumInv, BurstsSummed
      <3> QED
        BY <3>3, <3>4 DEF SumInv
    <2> QED
      BY <2>1, <2>2
  <1>3. SumInv => BurstsSummed
    BY DEF SumInv
  <1>4. DedupIInv /\ LatestKept /\ BurstsSummed => SumInv
    BY DEF SumInv
  <1> QED
    BY <1>1, <1>2, <1>3, <1>4, FilterInvariant, PTL DEF DedupSpec

-----------------------------------------------------------------------------
(* The chain searches of Correlation. *)

Reached == 1..Len(chain)
InWindow(r) == {a \in Held : RuleOf(a) = r}

\* One occurrence per rule, in the listed order.
Sorted(c) == \A j, k \in Positions : j < k => TimeOf(c[j]) <= TimeOf(c[k])

\* What is true while a chain grows: it is a part of a chain, no earlier
\* start has one, and no chain of this start or a later one is ahead of it.
Growth ==
  /\ corr.type = "temporal_ordered"
  /\ Len(chain) \in 1..Size
  /\ \A k \in Reached : chain[k] \in Of(corr.rules[k])
  /\ \A j, k \in Reached : j < k => TimeOf(chain[j]) <= TimeOf(chain[k])
  /\ \A c \in Chains : ~FiredBefore(c[1], chain[1])
  /\ \A c \in Picks :
       Sorted(c) /\ TimeOf(chain[1]) <= TimeOf(c[1]) =>
         \A k \in Reached : TimeOf(chain[k]) <= TimeOf(c[k])

\* The sweep has taken a prefix of the merged order.
Prefix == \A a \in taken : \A b \in Occurrences \ taken : MergedBefore(a, b)

\* What is true of the sweep at every turn.
Sweep ==
  /\ corr.type = "temporal"
  /\ Prefix
  /\ \A r \in Listed : counts[r] = Cardinality(InWindow(r))
  /\ \A a \in dropped : \A b \in Occurrences \ taken : TimeOf(b) - TimeOf(a) > corr.window

\* No chain among the occurrences taken.
Taking == \A c \in Chains : \E k \in Positions : c[k] \notin taken

\* No chain before the latest; what was dropped is too old for it.
Shrinking ==
  /\ latest \in taken
  /\ \A a \in taken \ {latest} : MergedBefore(a, latest)
  /\ \A a \in dropped : TooWide(a)
  /\ \A c \in Chains : \E k \in Positions : c[k] \notin taken \ {latest}

\* What is true when the search has returned.
Earliest(c) ==
  \A d \in Chains : \A k \in Positions :
    \E j \in Positions : TimeOf(c[k]) <= TimeOf(d[j])
Result ==
  IF found THEN chain \in Chains /\ Earliest(chain) ELSE Chains = {}

\* The inductive invariant.
Searching ==
  /\ ChainTypeOK
  /\ found => search = "done"
  /\ search = "collect" => taken = {} /\ \A r \in Listed : counts[r] = 0
  /\ search = "ordered" => Growth
  /\ search \in {"take", "shrink"} => Sweep
  /\ search = "take" => Taking
  /\ search = "shrink" => Shrinking
  /\ search = "done" => Result

-----------------------------------------------------------------------------
(* The data.                                                               *)

\* Rules are listed once, occurrences are finitely many and can be compared.
LEMMA Data ==
  ASSUME ChainTypeOK
  PROVE  /\ Size \in Nat /\ Size >= 2 /\ Positions = 1..Size
         /\ corr.window \in Nat
         /\ corr.type \in Types
         /\ \A k \in Positions : corr.rules[k] \in Listed
         /\ \A j, k \in Positions : corr.rules[j] = corr.rules[k] => j = k
         /\ IsFiniteSet(Listed) /\ Cardinality(Listed) = Size
         /\ IsFiniteSet(Occurrences)
         /\ \A a \in Occurrences :
              a \in Int /\ TimeOf(a) \in Int /\ RuleOf(a) \in Int /\ RuleOf(a) \in Listed
<1>1. /\ corr \in Correlations
      /\ corr.type \in Types
      /\ corr.window \in Nat
      /\ corr.rules \in Seq(RuleIds)
      /\ Len(corr.rules) >= 2
      /\ \A j, k \in Positions : corr.rules[j] = corr.rules[k] => j = k
  BY CorrelationsAssumption DEF ChainTypeOK, Positions
<1>2. Size \in Nat /\ Size >= 2 /\ Positions = 1..Size
  BY <1>1 DEF Size, Positions
<1>3. \A k \in Positions : corr.rules[k] \in Listed
  BY DEF Listed
<1>4. IsFiniteSet(Listed) /\ Cardinality(Listed) = Size
  <2> DEFINE f == [k \in 1..Size |-> corr.rules[k]]
  <2>1. IsFiniteSet(1..Size) /\ Cardinality(1..Size) = Size
    BY <1>2, FS_Interval
  <2>2. f \in Bijection(1..Size, Listed)
    <3>1. f \in [1..Size -> Listed]
      BY <1>2, <1>3
    <3>2. \A j, k \in 1..Size : f[j] = f[k] => j = k
      BY <1>1, <1>2
    <3>3. \A r \in Listed : \E k \in 1..Size : f[k] = r
      BY <1>2 DEF Listed
    <3> QED
      BY <3>1, <3>2, <3>3 DEF Bijection, Injection, Surjection, IsInjective
  <2> QED
    BY <2>1, <2>2, FS_Bijection DEF ExistsBijection
<1>5. PICK n \in 0..MaxFirings : alerts \in [1..n -> Firings]
  BY DEF ChainTypeOK
<1>6. n \in Nat /\ DOMAIN alerts = 1..n
  BY <1>5, MaxFiringsAssumption
<1>7. IsFiniteSet(Occurrences)
  <2>1. IsFiniteSet(1..n)
    BY <1>6, FS_Interval
  <2> QED
    BY <1>6, <2>1, FS_Subset DEF Occurrences
<1>8. ASSUME NEW a \in Occurrences
      PROVE  a \in Int /\ TimeOf(a) \in Int /\ RuleOf(a) \in Int /\ RuleOf(a) \in Listed
  <2>1. a \in 1..n /\ TimeOf(a) # Absent /\ RuleOf(a) \in Listed
    BY <1>6 DEF Occurrences
  <2>2. alerts[a] \in [rule: RuleIds, time: FiringTimes \union {Absent}, key: {Group, Absent}]
    BY <1>5, <2>1, FiringsAssumption
  <2>3. alerts[a].time \in FiringTimes \union {Absent} /\ alerts[a].rule \in RuleIds
    BY <2>2
  <2>4. TimeOf(a) \in FiringTimes /\ RuleOf(a) \in RuleIds
    BY <2>1, <2>3 DEF TimeOf, RuleOf
  <2>5. a \in Int
    BY <1>6, <2>1
  <2>6. TimeOf(a) \in Int
    BY <2>4, FiringTimesAssumption
  <2>7. RuleOf(a) \in Int
    BY <2>4, RulesAssumption
  <2> QED
    BY <2>1, <2>5, <2>6, <2>7
<1> QED
  BY <1>1, <1>2, <1>3, <1>4, <1>7, <1>8

\* The merged order is a strict total order that follows the times.
LEMMA MergedOrder ==
  ASSUME ChainTypeOK
  PROVE  /\ \A a \in Occurrences : ~MergedBefore(a, a)
         /\ \A a, b \in Occurrences : MergedBefore(a, b) => TimeOf(a) <= TimeOf(b)
         /\ \A a, b \in Occurrences : a = b \/ MergedBefore(a, b) \/ MergedBefore(b, a)
         /\ \A a, b, d \in Occurrences :
              MergedBefore(a, b) /\ MergedBefore(b, d) => MergedBefore(a, d)
<1>1. \A a \in Occurrences : a \in Int /\ TimeOf(a) \in Int /\ RuleOf(a) \in Int
  BY Data
<1>2. \A a \in Occurrences : ~MergedBefore(a, a)
  BY <1>1 DEF MergedBefore
<1>3. \A a, b \in Occurrences : MergedBefore(a, b) => TimeOf(a) <= TimeOf(b)
  BY <1>1 DEF MergedBefore
<1>4. \A a, b \in Occurrences : a = b \/ MergedBefore(a, b) \/ MergedBefore(b, a)
  BY <1>1 DEF MergedBefore
<1>5. \A a, b, d \in Occurrences :
        MergedBefore(a, b) /\ MergedBefore(b, d) => MergedBefore(a, d)
  BY <1>1 DEF MergedBefore
<1> QED
  BY <1>2, <1>3, <1>4, <1>5

\* The alerts and the correlation do not change during a search, nor does
\* what is said of them.
LEMMA Frozen ==
  ASSUME UNCHANGED <<alerts, corr>>
  PROVE  /\ Occurrences' = Occurrences /\ Listed' = Listed
         /\ Positions' = Positions /\ Size' = Size
         /\ Picks' = Picks /\ Chains' = Chains
         /\ \A r : Of(r)' = Of(r)
         /\ \A a : TimeOf(a)' = TimeOf(a) /\ RuleOf(a)' = RuleOf(a)
         /\ \A a, b : FiredBefore(a, b)' <=> FiredBefore(a, b)
         /\ \A a, b : MergedBefore(a, b)' <=> MergedBefore(a, b)
         /\ \A c : Sorted(c)' <=> Sorted(c)
         /\ \A c : Earliest(c)' <=> Earliest(c)
<1>1. \A a : TimeOf(a)' = TimeOf(a) /\ RuleOf(a)' = RuleOf(a)
  BY DEF TimeOf, RuleOf
<1>2. Positions' = Positions /\ Size' = Size /\ Listed' = Listed
  BY DEF Positions, Size, Listed
<1>3. Occurrences' = Occurrences
  BY <1>1, <1>2 DEF Occurrences
<1>4. \A r : Of(r)' = Of(r)
  BY <1>1, <1>3 DEF Of
<1>5. /\ \A a, b : FiredBefore(a, b)' <=> FiredBefore(a, b)
      /\ \A a, b : MergedBefore(a, b)' <=> MergedBefore(a, b)
  BY DEF FiredBefore, MergedBefore, TimeOf, RuleOf
<1>6. Picks' = Picks
  BY <1>1, <1>2, <1>3 DEF Picks
<1>7. /\ \A c : Together(c)' <=> Together(c)
      /\ \A c : InOrder(c)' <=> InOrder(c)
      /\ \A c : Sorted(c)' <=> Sorted(c)
  BY <1>2 DEF Together, InOrder, Sorted, TimeOf
<1>8. Chains' = Chains
  BY <1>6, <1>7 DEF Chains
<1>9. \A c : Earliest(c)' <=> Earliest(c)
  BY <1>2, <1>8 DEF Earliest, TimeOf
<1> QED
  BY <1>1, <1>2, <1>3, <1>4, <1>5, <1>6, <1>7, <1>8, <1>9

-----------------------------------------------------------------------------
(* The ordered search.                                                     *)

\* The first of some occurrences of a rule is not later than any of them.
LEMMA FirstIsEarliest ==
  ASSUME ChainTypeOK, NEW S \in SUBSET Occurrences, NEW a, First(a, S)
  PROVE  a \in S /\ \A b \in S : ~FiredBefore(b, a) /\ TimeOf(a) <= TimeOf(b)
<1>1. a \in S /\ \A b \in S \ {a} : FiredBefore(a, b)
  BY DEF First
<1>2. \A b \in Occurrences : b \in Int /\ TimeOf(b) \in Int
  BY Data
<1> QED
  BY <1>1, <1>2 DEF FiredBefore

\* Where to look for the links of a chain.
LEMMA LinkTypes ==
  ASSUME ChainTypeOK
  PROVE  /\ \A r : Of(r) \subseteq Occurrences
         /\ \A c \in Picks : \A k \in Positions :
              c[k] \in Of(corr.rules[k]) /\ TimeOf(c[k]) \in Int
         /\ Chains \subseteq Picks
         /\ \A c \in Chains : corr.type = "temporal_ordered" => InOrder(c) /\ Sorted(c)
<1>1. \A r : Of(r) \subseteq Occurrences
  BY DEF Of
<1>2. ASSUME NEW c \in Picks, NEW k \in Positions
      PROVE  c[k] \in Of(corr.rules[k]) /\ TimeOf(c[k]) \in Int
  BY <1>2, Data DEF Picks, Of
<1>3. Chains \subseteq Picks
  BY DEF Chains
<1>4. \A c \in Chains : corr.type = "temporal_ordered" => InOrder(c) /\ Sorted(c)
  BY DEF Chains, InOrder, Sorted
<1> QED
  BY <1>1, <1>2, <1>3, <1>4

\* A rule of the list that did not fire makes a chain impossible.
LEMMA IncompleteStep ==
  ASSUME Searching, Incomplete
  PROVE  Searching'
<1>1. /\ UNCHANGED <<alerts, corr, chain, taken, dropped, latest, counts, found>>
      /\ search = "collect" /\ search' = "done" /\ ChainTypeOK /\ ~found
  BY DEF Incomplete, Searching
<1>2. PICK r \in Listed : Of(r) = {}
  BY DEF Incomplete
<1>3. PICK k \in Positions : corr.rules[k] = r
  BY DEF Listed
<1>4. Chains = {}
  BY <1>1, <1>2, <1>3, LinkTypes
<1>5. Result'
  BY <1>1, <1>4, Frozen DEF Result
<1>6. ChainTypeOK'
  BY <1>1, Frozen DEF ChainTypeOK
<1> QED
  BY <1>1, <1>5, <1>6 DEF Searching

\* A new start, when no earlier one has a chain.
LEMMA StartStep ==
  ASSUME ChainTypeOK, ~found, corr.type = "temporal_ordered",
         NEW S \in SUBSET Of(corr.rules[1]), StartWith(S),
         \A c \in Chains : \E a \in S : ~FiredBefore(c[1], a)
  PROVE  Searching'
<1>1. /\ UNCHANGED <<alerts, corr, taken, dropped, latest, counts, found>>
      /\ search' = "ordered"
  BY DEF StartWith
<1>2. PICK a \in S : First(a, S) /\ chain' = <<a>>
  BY DEF StartWith, First
<1>3. a \in Of(corr.rules[1]) /\ a \in Occurrences
  BY <1>2, LinkTypes
<1>4. chain' \in Seq(Occurrences) /\ Len(chain') = 1 /\ chain'[1] = a
  BY <1>2, <1>3
<1>5. \A b \in S : ~FiredBefore(b, a) /\ TimeOf(a) <= TimeOf(b)
  BY <1>2, LinkTypes, FirstIsEarliest
<1>6. Reached' = {1}
  BY <1>4 DEF Reached
<1>7. \A c \in Chains : ~FiredBefore(c[1], a)
  <2> SUFFICES ASSUME NEW c \in Chains, FiredBefore(c[1], a)
               PROVE  FALSE
    OBVIOUS
  <2>1. PICK b \in S : ~FiredBefore(c[1], b)
    OBVIOUS
  <2>2. c[1] \in Occurrences /\ b \in Occurrences
    BY LinkTypes, Data
  <2>3. a = b \/ FiredBefore(a, b)
    BY <1>2 DEF First
  <2>4. \A e \in {a, b, c[1]} : e \in Int /\ TimeOf(e) \in Int
    BY <1>3, <2>2, Data
  <2> QED
    BY <2>1, <2>3, <2>4 DEF FiredBefore
<1>8. Growth'
  <2>1. corr'.type = "temporal_ordered" /\ Len(chain') \in 1..Size'
    BY <1>1, <1>4, Data, Frozen
  <2>2. \A k \in Reached' : chain'[k] \in Of(corr.rules[k])'
    BY <1>1, <1>3, <1>4, <1>6, Frozen DEF Of, RuleOf
  <2>3. \A j, k \in Reached' : j < k => TimeOf(chain[j])' <= TimeOf(chain[k])'
    BY <1>6
  <2>4. \A c \in Chains' : ~FiredBefore(c[1], chain[1])'
    BY <1>1, <1>4, <1>7, Frozen DEF FiredBefore, TimeOf
  <2>5. \A c \in Picks' :
          Sorted(c)' /\ TimeOf(chain[1])' <= TimeOf(c[1])' =>
            \A k \in Reached' : TimeOf(chain[k])' <= TimeOf(c[k])'
    BY <1>6 DEF TimeOf
  <2> QED
    BY <2>1, <2>2, <2>3, <2>4, <2>5 DEF Growth
<1>9. ChainTypeOK'
  BY <1>1, <1>4, Frozen DEF ChainTypeOK
<1> QED
  BY <1>1, <1>8, <1>9 DEF Searching

\* The search starts with the first rule's first occurrence.
LEMMA BeginOrderedStep ==
  ASSUME Searching, BeginOrdered
  PROVE  Searching'
<1>1. /\ ChainTypeOK /\ ~found /\ corr.type = "temporal_ordered"
      /\ StartWith(Of(corr.rules[1]))
  BY DEF Searching, BeginOrdered
<1>2. ASSUME NEW c \in Chains
      PROVE  \E a \in Of(corr.rules[1]) : ~FiredBefore(c[1], a)
  <2>1. 1 \in Positions
    BY <1>1, Data
  <2>2. c[1] \in Of(corr.rules[1]) /\ TimeOf(c[1]) \in Int /\ c[1] \in Int
    BY <1>1, <1>2, <2>1, LinkTypes, Data
  <2>3. ~FiredBefore(c[1], c[1])
    BY <2>2 DEF FiredBefore
  <2> QED
    BY <2>2, <2>3
<1> QED
  BY <1>1, <1>2, StartStep

\* The links of a growing chain have times, and so has every chain's.
LEMMA GrowthTypes ==
  ASSUME ChainTypeOK, Growth
  PROVE  /\ Len(chain) \in Nat /\ Len(chain) >= 1 /\ Len(chain) <= Size
         /\ DOMAIN chain = Reached
         /\ Reached \subseteq Positions
         /\ \A k \in Reached : chain[k] \in Occurrences /\ TimeOf(chain[k]) \in Int
<1>1. Len(chain) \in Nat /\ Len(chain) >= 1 /\ Len(chain) <= Size
  BY Data DEF Growth
<1>2. DOMAIN chain = Reached
  BY DEF ChainTypeOK, Reached
<1>3. Reached \subseteq Positions
  BY <1>1, Data DEF Reached
<1>4. \A k \in Reached : chain[k] \in Occurrences
  BY LinkTypes DEF Growth
<1> QED
  BY <1>1, <1>2, <1>3, <1>4, Data

\* The chain grows by the earliest follower, which no chain of this start can
\* precede.
LEMMA ExtendStep ==
  ASSUME Searching, Extend
  PROVE  Searching'
<1> DEFINE n == Len(chain)
<1>1. /\ UNCHANGED <<alerts, corr, search, taken, dropped, latest, counts, found>>
      /\ search = "ordered" /\ n < Size /\ ChainTypeOK /\ Growth /\ ~found
  BY DEF Extend, Growing, Searching
<1>2. PICK a \in Followers : First(a, Followers) /\ chain' = Append(chain, a)
  BY DEF Extend
<1>3. n \in Nat /\ n >= 1 /\ n + 1 <= Size /\ Size \in Nat /\ n + 1 \in Positions
  BY <1>1, GrowthTypes, Data
<1>4. Followers \subseteq Of(corr.rules[n + 1]) /\ Followers \subseteq Occurrences
  BY <1>1, LinkTypes DEF Followers
<1>5. a \in Of(corr.rules[n + 1]) /\ a \in Occurrences /\ TimeOf(a) \in Int
  BY <1>1, <1>2, <1>4, Data
<1>6. TimeOf(chain[n]) <= TimeOf(a)
  BY <1>1, <1>2, <1>3, <1>5, GrowthTypes DEF Followers, Reached
<1>7. /\ chain' \in Seq(Occurrences) /\ Len(chain') = n + 1
      /\ \A k \in Reached : chain'[k] = chain[k]
      /\ chain'[n + 1] = a
  BY <1>1, <1>2, <1>5 DEF ChainTypeOK, Reached
<1>8. Reached' = Reached \union {n + 1} /\ 1 \in Reached /\ n \in Reached
  BY <1>3, <1>7 DEF Reached
<1>9. \A k \in Reached' : chain'[k] \in Of(corr.rules[k])
  BY <1>1, <1>5, <1>7, <1>8 DEF Growth
<1>10. \A j, k \in Reached' : j < k => TimeOf(chain'[j]) <= TimeOf(chain'[k])
  <2> SUFFICES ASSUME NEW j \in Reached', NEW k \in Reached', j < k
               PROVE  TimeOf(chain'[j]) <= TimeOf(chain'[k])
    OBVIOUS
  <2>1. j \in Reached
    BY <1>3, <1>8 DEF Reached
  <2>2. CASE k \in Reached
    BY <1>1, <1>7, <2>1, <2>2 DEF Growth
  <2>3. CASE k = n + 1
    <3>1. TimeOf(chain[j]) <= TimeOf(chain[n])
      <4>1. j < n \/ j = n
        BY <1>3, <2>1 DEF Reached
      <4>2. TimeOf(chain[j]) \in Int
        BY <1>1, <2>1, GrowthTypes
      <4> QED
        BY <1>1, <1>8, <2>1, <4>1, <4>2 DEF Growth
    <3>2. TimeOf(chain[j]) \in Int /\ TimeOf(chain[n]) \in Int
      BY <1>1, <1>8, <2>1, GrowthTypes
    <3>3. TimeOf(chain[j]) <= TimeOf(a)
      BY <1>5, <1>6, <3>1, <3>2
    <3> QED
      BY <1>7, <2>1, <2>3, <3>3
  <2> QED
    BY <1>8, <2>2, <2>3
<1>11. ASSUME NEW c \in Picks, Sorted(c), TimeOf(chain[1]) <= TimeOf(c[1])
       PROVE  \A k \in Reached' : TimeOf(chain'[k]) <= TimeOf(c[k])
  <2>1. \A k \in Reached : TimeOf(chain[k]) <= TimeOf(c[k])
    BY <1>1, <1>11 DEF Growth
  <2>2. c[n + 1] \in Followers
    <3>1. c[n + 1] \in Of(corr.rules[n + 1]) /\ TimeOf(c[n + 1]) \in Int
      BY <1>1, <1>3, LinkTypes
    <3>2. n \in Positions
      BY <1>1, <1>8, GrowthTypes
    <3>3. TimeOf(c[n]) <= TimeOf(c[n + 1])
      BY <1>3, <1>11, <3>2 DEF Sorted
    <3>4. TimeOf(c[n]) \in Int /\ TimeOf(chain[n]) \in Int
      BY <1>1, <1>8, <3>2, LinkTypes, GrowthTypes
    <3>5. TimeOf(c[n + 1]) >= TimeOf(chain[n])
      BY <1>8, <2>1, <3>1, <3>3, <3>4
    <3> QED
      BY <3>1, <3>5 DEF Followers
  <2>3. TimeOf(a) <= TimeOf(c[n + 1])
    BY <1>1, <1>2, <1>4, <2>2, FirstIsEarliest
  <2> QED
    BY <1>7, <1>8, <2>1, <2>3
<1>12. Growth'
  <2>1. corr'.type = "temporal_ordered" /\ Len(chain') \in 1..Size'
    BY <1>1, <1>3, <1>7, Frozen DEF Growth
  <2>2. \A k \in Reached' : chain'[k] \in Of(corr.rules[k])'
    BY <1>1, <1>9, Frozen DEF Of, RuleOf
  <2>3. \A j, k \in Reached' : j < k => TimeOf(chain[j])' <= TimeOf(chain[k])'
    BY <1>1, <1>10 DEF TimeOf
  <2>4. \A c \in Chains' : ~FiredBefore(c[1], chain[1])'
    <3>1. \A c \in Chains : ~FiredBefore(c[1], chain[1])
      BY <1>1 DEF Growth
    <3>2. chain'[1] = chain[1]
      BY <1>7, <1>8
    <3> QED
      BY <1>1, <3>1, <3>2, Frozen DEF FiredBefore, TimeOf
  <2>5. \A c \in Picks' :
          Sorted(c)' /\ TimeOf(chain[1])' <= TimeOf(c[1])' =>
            \A k \in Reached' : TimeOf(chain[k])' <= TimeOf(c[k])'
    <3>1. chain'[1] = chain[1]
      BY <1>7, <1>8
    <3>2. \A c \in Picks' :
            Sorted(c) /\ TimeOf(chain[1]) <= TimeOf(c[1]) =>
              \A k \in Reached' : TimeOf(chain'[k]) <= TimeOf(c[k])
      BY <1>1, <1>11, Frozen
    <3>3. \A c : Sorted(c)' <=> Sorted(c)
      BY <1>1, Frozen
    <3> QED
      BY <1>1, <3>1, <3>2, <3>3 DEF TimeOf
  <2> QED
    BY <2>1, <2>2, <2>3, <2>4, <2>5 DEF Growth
<1>13. ChainTypeOK'
  BY <1>1, <1>7, Frozen DEF ChainTypeOK
<1> QED
  BY <1>1, <1>12, <1>13 DEF Searching

\* When a start is hopeless, every chain starts after it.
LEMMA HopelessStart ==
  ASSUME ChainTypeOK, Growth, Hopeless, NEW c \in Chains
  PROVE  c[1] \in LaterStarts
<1> DEFINE n == Len(chain)
<1>1. /\ c \in Picks /\ InOrder(c) /\ Sorted(c)
      /\ ~FiredBefore(c[1], chain[1])
  BY LinkTypes DEF Growth
<1>2. n \in Nat /\ n >= 1 /\ n <= Size /\ Size \in Nat /\ 1 \in Reached /\ n \in Reached
  BY GrowthTypes, Data DEF Reached
<1>3. 1 \in Positions /\ n \in Positions /\ Positions = 1..Size
  BY <1>2, GrowthTypes, Data
<1>4. \A k \in Positions : c[k] \in Of(corr.rules[k]) /\ TimeOf(c[k]) \in Int
  BY <1>1, LinkTypes
<1>5. c[1] \in Int /\ TimeOf(c[1]) \in Int
  BY <1>3, <1>4, LinkTypes, Data
<1>6. chain[1] \in Int /\ TimeOf(chain[1]) \in Int /\ TimeOf(chain[n]) \in Int
  BY <1>2, GrowthTypes, Data
<1>7. TimeOf(chain[1]) <= TimeOf(c[1])
  BY <1>1, <1>5, <1>6 DEF FiredBefore
<1>8. \A k \in Reached : TimeOf(chain[k]) <= TimeOf(c[k])
  BY <1>1, <1>7 DEF Growth
<1>9. c[1] # chain[1]
  <2>1. CASE Growing /\ Followers = {}
    <3>1. n + 1 \in Positions
      BY <1>2, <1>3, <2>1 DEF Growing
    <3>2. TimeOf(c[n]) <= TimeOf(c[n + 1])
      BY <1>1, <1>2, <1>3, <3>1 DEF Sorted
    <3>3. TimeOf(c[n + 1]) >= TimeOf(chain[n])
      BY <1>2, <1>3, <1>4, <1>6, <1>8, <3>1, <3>2
    <3> QED
      BY <1>4, <2>1, <3>1, <3>3 DEF Followers
  <2>2. CASE Grown /\ ~ChainFits
    <3>1. n = Size
      BY <2>2 DEF Grown
    <3>2. TimeOf(c[n]) - TimeOf(c[1]) <= corr.window
      BY <1>1, <3>1 DEF InOrder
    <3>3. ~(TimeOf(chain[n]) - TimeOf(chain[1]) <= corr.window)
      BY <2>2 DEF ChainFits
    <3>4. TimeOf(chain[n]) <= TimeOf(c[n]) /\ TimeOf(c[n]) \in Int
      BY <1>2, <1>3, <1>4, <1>8
    <3>5. corr.window \in Int
      BY Data
    <3> QED
      BY <1>6, <3>2, <3>3, <3>4, <3>5
  <2> QED
    BY <2>1, <2>2 DEF Hopeless
<1>10. FiredBefore(chain[1], c[1])
  BY <1>1, <1>5, <1>6, <1>9 DEF FiredBefore
<1> QED
  BY <1>3, <1>4, <1>10 DEF LaterStarts

\* The next start is the first of those that are left.
LEMMA NextStartStep ==
  ASSUME Searching, NextStart
  PROVE  Searching'
<1>1. /\ search = "ordered" /\ ChainTypeOK /\ Growth /\ ~found /\ Hopeless
      /\ StartWith(LaterStarts)
  BY DEF NextStart, Hopeless, Growing, Grown, Searching
<1>2. LaterStarts \subseteq Of(corr.rules[1])
  BY DEF LaterStarts
<1>3. ASSUME NEW c \in Chains
      PROVE  \E a \in LaterStarts : ~FiredBefore(c[1], a)
  <2>1. c[1] \in LaterStarts
    BY <1>1, <1>3, HopelessStart
  <2>2. c[1] \in Int /\ TimeOf(c[1]) \in Int
    BY <1>1, <1>2, <2>1, LinkTypes, Data
  <2>3. ~FiredBefore(c[1], c[1])
    BY <2>2 DEF FiredBefore
  <2> QED
    BY <2>1, <2>3
<1>4. corr.type = "temporal_ordered"
  BY <1>1 DEF Growth
<1> QED
  BY <1>1, <1>2, <1>3, <1>4, StartStep

\* No start is left: there is no chain.
LEMMA NoMoreStartsStep ==
  ASSUME Searching, NoMoreStarts
  PROVE  Searching'
<1>1. /\ UNCHANGED <<alerts, corr, chain, taken, dropped, latest, counts, found>>
      /\ search = "ordered" /\ search' = "done" /\ ChainTypeOK /\ Growth /\ ~found
      /\ Hopeless /\ LaterStarts = {}
  BY DEF NoMoreStarts, Hopeless, Growing, Grown, Searching
<1>2. Chains = {}
  BY <1>1, HopelessStart
<1>3. Result'
  BY <1>1, <1>2, Frozen DEF Result
<1>4. ChainTypeOK'
  BY <1>1, Frozen DEF ChainTypeOK
<1> QED
  BY <1>1, <1>3, <1>4 DEF Searching

\* A chain that fits is returned, and no chain is complete before it.
LEMMA ReturnOrderedStep ==
  ASSUME Searching, ReturnOrdered
  PROVE  Searching'
<1>1. /\ UNCHANGED <<alerts, corr, chain, taken, dropped, latest, counts>>
      /\ search = "ordered" /\ search' = "done" /\ found' = TRUE
      /\ ChainTypeOK /\ Growth /\ Len(chain) = Size /\ ChainFits
  BY DEF ReturnOrdered, Grown, Searching
<1>2. Reached = Positions /\ Size \in Positions /\ 1 \in Positions
  BY <1>1, Data DEF Reached
<1>3. chain \in Picks
  <2>1. chain \in [Positions -> Occurrences]
    BY <1>1, <1>2, GrowthTypes DEF ChainTypeOK
  <2>2. \A k \in Positions : RuleOf(chain[k]) = corr.rules[k]
    BY <1>1, <1>2 DEF Growth, Of
  <2> QED
    BY <2>1, <2>2 DEF Picks
<1>4. InOrder(chain)
  BY <1>1, <1>2 DEF Growth, ChainFits, InOrder
<1>5. chain \in Chains
  BY <1>1, <1>3, <1>4 DEF Chains, Growth
<1>6. ASSUME NEW c \in Chains, NEW k \in Positions
      PROVE  TimeOf(chain[k]) <= TimeOf(c[k])
  <2>1. c \in Picks /\ Sorted(c) /\ ~FiredBefore(c[1], chain[1])
    BY <1>1, <1>6, LinkTypes DEF Growth
  <2>2. TimeOf(chain[1]) \in Int /\ TimeOf(c[1]) \in Int
    BY <1>1, <1>2, <2>1, GrowthTypes, LinkTypes
  <2>3. TimeOf(chain[1]) <= TimeOf(c[1])
    BY <2>1, <2>2 DEF FiredBefore
  <2> QED
    BY <1>1, <1>2, <2>1, <2>3 DEF Growth
<1>7. Earliest(chain)
  BY <1>6 DEF Earliest
<1>8. Result'
  <2>1. chain' \in Chains' /\ chain' = chain /\ found'
    BY <1>1, <1>5, Frozen
  <2>2. Earliest(chain)'
    BY <1>1, <1>7, Frozen DEF Earliest, TimeOf
  <2> QED
    BY <2>1, <2>2 DEF Result
<1>9. ChainTypeOK'
  BY <1>1, Frozen DEF ChainTypeOK
<1> QED
  BY <1>1, <1>8, <1>9 DEF Searching

-----------------------------------------------------------------------------
(* The unordered search.                                                   *)

\* The occurrences of a rule in the window are finitely many.
LEMMA WindowTypes ==
  ASSUME ChainTypeOK
  PROVE  /\ Held \subseteq Occurrences
         /\ taken \subseteq Occurrences /\ dropped \subseteq taken
         /\ \A r : IsFiniteSet(InWindow(r)) /\ Cardinality(InWindow(r)) \in Nat
<1>1. taken \subseteq Occurrences /\ dropped \subseteq taken /\ Held \subseteq Occurrences
  BY DEF ChainTypeOK, Held
<1>2. ASSUME NEW r
      PROVE  IsFiniteSet(InWindow(r)) /\ Cardinality(InWindow(r)) \in Nat
  <2>1. InWindow(r) \subseteq Occurrences
    BY <1>1 DEF InWindow
  <2>2. IsFiniteSet(InWindow(r))
    BY <2>1, Data, FS_Subset
  <2> QED
    BY <2>2, FS_CardinalityType
<1> QED
  BY <1>1, <1>2

\* The sweep starts with an empty window.
LEMMA BeginSweepStep ==
  ASSUME Searching, BeginSweep
  PROVE  Searching'
<1>1. /\ UNCHANGED <<alerts, corr, chain, taken, dropped, latest, counts, found>>
      /\ search' = "take" /\ ChainTypeOK /\ ~found /\ corr.type = "temporal"
      /\ taken = {} /\ \A r \in Listed : counts[r] = 0
  BY DEF BeginSweep, Searching
<1>2. dropped = {} /\ Held = {}
  BY <1>1 DEF ChainTypeOK, Held
<1>3. \A r : InWindow(r)' = {}
  BY <1>1, <1>2 DEF InWindow, Held
<1>4. Sweep'
  <2>1. \A r \in Listed' : counts'[r] = Cardinality(InWindow(r)')
    BY <1>1, <1>3, Frozen, FS_EmptySet
  <2> QED
    BY <1>1, <1>2, <2>1 DEF Sweep, Prefix
<1>5. Taking'
  <2>1. 1 \in Positions'
    BY <1>1, Data, Frozen
  <2> QED
    BY <1>1, <2>1 DEF Taking
<1>6. ChainTypeOK'
  BY <1>1, Frozen DEF ChainTypeOK
<1> QED
  BY <1>1, <1>4, <1>5, <1>6 DEF Searching

\* The next occurrence of the merged order enters the window.
LEMMA TakeStep ==
  ASSUME Searching, Take
  PROVE  Searching'
<1>1. /\ UNCHANGED <<alerts, corr, chain, dropped, found>>
      /\ search = "take" /\ search' = "shrink" /\ ChainTypeOK /\ ~found /\ Sweep /\ Taking
  BY DEF Take, Searching
<1>2. PICK a \in Occurrences \ taken :
        /\ \A b \in Occurrences \ (taken \union {a}) : MergedBefore(a, b)
        /\ taken' = taken \union {a}
        /\ latest' = a
        /\ counts' = [counts EXCEPT ![RuleOf(a)] = @ + 1]
  BY DEF Take
<1>3. /\ taken \subseteq Occurrences /\ dropped \subseteq taken
      /\ Held' = Held \union {a} /\ a \notin Held
  BY <1>1, <1>2, WindowTypes DEF Held
<1>4. /\ counts \in [Listed -> Nat] /\ RuleOf(a) \in Listed
      /\ \A r \in Listed : counts[r] = Cardinality(InWindow(r))
  BY <1>1, <1>2, Data DEF ChainTypeOK, Sweep
<1>5. counts' \in [Listed -> Nat]
  BY <1>2, <1>4
<1>6. \A r \in Listed : counts'[r] = Cardinality(InWindow(r)')
  <2> SUFFICES ASSUME NEW r \in Listed
               PROVE  counts'[r] = Cardinality(InWindow(r)')
    OBVIOUS
  <2>1. CASE r = RuleOf(a)
    <3>1. InWindow(r)' = InWindow(r) \union {a} /\ a \notin InWindow(r)
      BY <1>1, <1>3, <2>1 DEF InWindow, RuleOf
    <3>2. Cardinality(InWindow(r)') = Cardinality(InWindow(r)) + 1
      BY <1>1, <3>1, WindowTypes, FS_AddElement
    <3>3. counts'[r] = counts[r] + 1
      BY <1>2, <1>4, <2>1
    <3> QED
      BY <1>4, <3>2, <3>3
  <2>2. CASE r # RuleOf(a)
    <3>1. InWindow(r)' = InWindow(r)
      BY <1>1, <1>3, <2>2 DEF InWindow, RuleOf
    <3>2. counts'[r] = counts[r]
      BY <1>2, <1>4, <2>2
    <3> QED
      BY <1>4, <3>1, <3>2
  <2> QED
    BY <2>1, <2>2
<1>7. \A x \in taken' : \A b \in Occurrences \ taken' : MergedBefore(x, b)
  BY <1>1, <1>2 DEF Sweep, Prefix
<1>8. \A x \in dropped : TimeOf(a) - TimeOf(x) > corr.window
  BY <1>1, <1>2 DEF Sweep
<1>9. Sweep'
  <2>1. Prefix'
    BY <1>1, <1>7, Frozen DEF Prefix, MergedBefore, TimeOf, RuleOf
  <2>2. \A r \in Listed' : counts'[r] = Cardinality(InWindow(r)')
    BY <1>1, <1>6, Frozen
  <2>3. \A x \in dropped' : \A b \in Occurrences' \ taken' :
          TimeOf(b)' - TimeOf(x)' > corr'.window
    BY <1>1, <1>2, Frozen DEF Sweep, TimeOf
  <2> QED
    BY <1>1, <2>1, <2>2, <2>3 DEF Sweep
<1>10. Shrinking'
  <2>1. latest' \in taken'
    BY <1>2
  <2>2. \A x \in taken : MergedBefore(x, a)
    BY <1>1, <1>2 DEF Sweep, Prefix
  <2>3. \A x \in taken' \ {latest'} : MergedBefore(x, latest)'
    BY <1>1, <1>2, <2>2 DEF MergedBefore, TimeOf, RuleOf
  <2>4. \A x \in dropped' : TooWide(x)'
    BY <1>1, <1>2, <1>8 DEF TooWide, TimeOf
  <2>5. \A c \in Chains' : \E k \in Positions' : c[k] \notin taken' \ {latest'}
    BY <1>1, <1>2, Frozen DEF Taking
  <2> QED
    BY <2>1, <2>3, <2>4, <2>5 DEF Shrinking
<1>11. ChainTypeOK'
  <2>1. taken' \subseteq Occurrences /\ dropped \subseteq taken' /\ latest' \in Held'
    BY <1>2, <1>3
  <2> QED
    BY <1>1, <1>5, <2>1, Frozen DEF ChainTypeOK
<1> QED
  BY <1>1, <1>9, <1>10, <1>11 DEF Searching

\* What leaves the window is too old for the latest and for what follows.
LEMMA ReleaseStep ==
  ASSUME Searching, Release
  PROVE  Searching'
<1>1. /\ UNCHANGED <<alerts, corr, search, chain, taken, latest, found>>
      /\ search = "shrink" /\ ChainTypeOK /\ ~found /\ Sweep /\ Shrinking
  BY DEF Release, Searching
<1>2. PICK a \in Held :
        /\ TooWide(a)
        /\ dropped' = dropped \union {a}
        /\ counts' = [counts EXCEPT ![RuleOf(a)] = @ - 1]
  BY DEF Release
<1>3. /\ taken \subseteq Occurrences /\ dropped \subseteq taken
      /\ a \in taken /\ a \in Occurrences /\ latest \in Occurrences
      /\ Held' = Held \ {a}
  BY <1>1, <1>2, WindowTypes DEF Held, Shrinking
<1>4. TimeOf(a) \in Int /\ TimeOf(latest) \in Int /\ corr.window \in Nat
  BY <1>1, <1>3, Data
<1>5. latest # a
  BY <1>2, <1>4 DEF TooWide
<1>6. latest \in Held'
  BY <1>1, <1>3, <1>5 DEF ChainTypeOK
<1>7. /\ counts \in [Listed -> Nat] /\ RuleOf(a) \in Listed
      /\ \A r \in Listed : counts[r] = Cardinality(InWindow(r))
  BY <1>1, <1>3, Data DEF ChainTypeOK, Sweep
<1>8. \A r \in Listed : counts'[r] = Cardinality(InWindow(r)')
  <2> SUFFICES ASSUME NEW r \in Listed
               PROVE  counts'[r] = Cardinality(InWindow(r)')
    OBVIOUS
  <2>1. CASE r = RuleOf(a)
    <3>1. InWindow(r)' = InWindow(r) \ {a} /\ a \in InWindow(r)
      BY <1>1, <1>2, <1>3, <2>1 DEF InWindow, RuleOf
    <3>2. Cardinality(InWindow(r)') = Cardinality(InWindow(r)) - 1
      BY <1>1, <3>1, WindowTypes, FS_RemoveElement
    <3>3. counts'[r] = counts[r] - 1
      BY <1>2, <1>7, <2>1
    <3> QED
      BY <1>7, <3>2, <3>3
  <2>2. CASE r # RuleOf(a)
    <3>1. InWindow(r)' = InWindow(r)
      BY <1>1, <1>3, <2>2 DEF InWindow, RuleOf
    <3>2. counts'[r] = counts[r]
      BY <1>2, <1>7, <2>2
    <3> QED
      BY <1>7, <3>1, <3>2
  <2> QED
    BY <2>1, <2>2
<1>9. counts' \in [Listed -> Nat]
  <2>1. \A r \in Listed : counts'[r] \in Nat
    <3> TAKE r \in Listed
    <3>1. InWindow(r)' \subseteq InWindow(r)
      BY <1>1, <1>3 DEF InWindow, RuleOf
    <3>2. IsFiniteSet(InWindow(r)')
      BY <1>1, <3>1, WindowTypes, FS_Subset
    <3>3. Cardinality(InWindow(r)') \in Nat
      BY <3>2, FS_CardinalityType
    <3> QED
      BY <1>8, <3>3
  <2>2. DOMAIN counts' = Listed /\ counts' = [r \in Listed |-> counts'[r]]
    BY <1>2, <1>7
  <2> QED
    BY <2>1, <2>2
<1>10. ASSUME NEW b \in Occurrences \ taken
       PROVE  TimeOf(b) - TimeOf(a) > corr.window
  <2>1. MergedBefore(latest, b)
    BY <1>1 DEF Sweep, Prefix, Shrinking
  <2>2. TimeOf(latest) <= TimeOf(b) /\ TimeOf(b) \in Int
    BY <1>1, <1>3, <2>1, MergedOrder, Data
  <2> QED
    BY <1>2, <1>4, <2>2 DEF TooWide
<1>11. Sweep'
  <2>1. Prefix'
    BY <1>1, Frozen DEF Sweep, Prefix, MergedBefore, TimeOf, RuleOf
  <2>2. \A r \in Listed' : counts'[r] = Cardinality(InWindow(r)')
    BY <1>1, <1>8, Frozen
  <2>3. \A x \in dropped' : \A b \in Occurrences' \ taken' :
          TimeOf(b)' - TimeOf(x)' > corr'.window
    BY <1>1, <1>2, <1>10, Frozen DEF Sweep, TimeOf
  <2> QED
    BY <1>1, <2>1, <2>2, <2>3 DEF Sweep
<1>12. Shrinking'
  <2>1. \A x \in taken' \ {latest'} : MergedBefore(x, latest)'
    BY <1>1 DEF Shrinking, MergedBefore, TimeOf, RuleOf
  <2>2. \A x \in dropped' : TooWide(x)'
    BY <1>1, <1>2 DEF Shrinking, TooWide, TimeOf
  <2>3. \A c \in Chains' : \E k \in Positions' : c[k] \notin taken' \ {latest'}
    BY <1>1, Frozen DEF Shrinking
  <2> QED
    BY <1>1, <2>1, <2>2, <2>3 DEF Shrinking
<1>13. ChainTypeOK'
  <2>1. dropped' \subseteq taken
    BY <1>2, <1>3
  <2> QED
    BY <1>1, <1>6, <1>9, <2>1, Frozen DEF ChainTypeOK
<1> QED
  BY <1>1, <1>11, <1>12, <1>13 DEF Searching

\* In a window that fits, everything is close to the latest.
LEMMA WindowClose ==
  ASSUME ChainTypeOK, Sweep, Shrinking, WindowFits, NEW a \in Held
  PROVE  TimeOf(a) <= TimeOf(latest) /\ TimeOf(latest) - TimeOf(a) <= corr.window
<1>1. PICK o \in Held : Oldest(o) /\ ~TooWide(o)
  BY DEF WindowFits
<1>2. /\ \A b \in {a, o, latest} : b \in Occurrences /\ TimeOf(b) \in Int
      /\ corr.window \in Int
  BY WindowTypes, Data DEF Shrinking
<1>3. TimeOf(o) <= TimeOf(a)
  BY <1>1, <1>2, MergedOrder DEF Oldest
<1>4. TimeOf(a) <= TimeOf(latest)
  BY <1>2, MergedOrder DEF Shrinking, Held
<1> QED
  BY <1>1, <1>2, <1>3, <1>4 DEF TooWide

\* A window that lacks a rule completes no chain.
LEMMA NoChainYet ==
  ASSUME ChainTypeOK, Sweep, Shrinking, WindowFits, ~AllInWindow
  PROVE  Taking
<1> SUFFICES ASSUME NEW c \in Chains, \A k \in Positions : c[k] \in taken
             PROVE  FALSE
  BY DEF Taking
<1>1. PICK j \in Positions : c[j] = latest
  BY DEF Shrinking
<1>2. c \in Picks /\ Together(c)
  BY DEF Chains, Sweep
<1>3. ASSUME NEW k \in Positions
      PROVE  c[k] \in Held
  <2>1. TimeOf(latest) - TimeOf(c[k]) <= corr.window
    BY <1>1, <1>2 DEF Together
  <2>2. TimeOf(latest) \in Int /\ TimeOf(c[k]) \in Int /\ corr.window \in Int
    BY <1>1, <1>2, LinkTypes, Data
  <2>3. ~TooWide(c[k])
    BY <2>1, <2>2 DEF TooWide
  <2> QED
    BY <2>3 DEF Shrinking, Held
<1>4. ASSUME NEW r \in Listed
      PROVE  counts[r] > 0
  <2>1. PICK k \in Positions : corr.rules[k] = r
    BY DEF Listed
  <2>2. c[k] \in InWindow(r)
    BY <1>2, <1>3, <2>1 DEF InWindow, Picks
  <2>3. Cardinality(InWindow(r)) # 0
    BY <2>2, WindowTypes, FS_EmptySet
  <2>4. Cardinality(InWindow(r)) \in Nat
    BY WindowTypes
  <2> QED
    BY <2>3, <2>4 DEF Sweep
<1>5. {r \in Listed : counts[r] > 0} = Listed
  BY <1>4
<1> QED
  BY <1>5, Data DEF AllInWindow

\* The window's evidence is a chain, and none is complete before the latest.
LEMMA ReturnUnorderedStep ==
  ASSUME Searching, ReturnUnordered
  PROVE  Searching'
<1>1. /\ UNCHANGED <<alerts, corr, taken, dropped, latest, counts>>
      /\ search = "shrink" /\ search' = "done" /\ found' = TRUE
      /\ ChainTypeOK /\ Sweep /\ Shrinking /\ WindowFits
  BY DEF ReturnUnordered, WindowFits, Searching
<1>2. PICK c \in [Positions -> Held] : IsEvidence(c) /\ chain' = c
  BY DEF ReturnUnordered
<1>3. \A k \in Positions : c[k] \in Held /\ c[k] \in Occurrences /\ TimeOf(c[k]) \in Int
  BY <1>1, <1>2, WindowTypes, Data
<1>4. latest \in Occurrences /\ TimeOf(latest) \in Int /\ corr.window \in Int
  BY <1>1, WindowTypes, Data DEF Shrinking
<1>5. c \in Picks
  BY <1>2, <1>3 DEF Picks, IsEvidence
<1>6. \A k \in Positions :
        TimeOf(c[k]) <= TimeOf(latest) /\ TimeOf(latest) - TimeOf(c[k]) <= corr.window
  BY <1>1, <1>3, WindowClose
<1>7. Together(c)
  BY <1>3, <1>4, <1>6 DEF Together
<1>8. c \in Chains
  BY <1>1, <1>5, <1>7 DEF Chains, Sweep
<1>9. ASSUME NEW d \in Chains, NEW k \in Positions
      PROVE  \E j \in Positions : TimeOf(c[k]) <= TimeOf(d[j])
  <2>1. PICK j \in Positions : d[j] \notin taken \ {latest}
    BY <1>1 DEF Shrinking
  <2>2. d[j] \in Occurrences /\ TimeOf(d[j]) \in Int
    BY <1>1, LinkTypes, Data
  <2>3. TimeOf(latest) <= TimeOf(d[j])
    <3>1. CASE d[j] = latest
      BY <1>4, <3>1
    <3>2. CASE d[j] \notin taken
      <4>1. MergedBefore(latest, d[j])
        BY <1>1, <2>2, <3>2 DEF Sweep, Prefix, Shrinking
      <4> QED
        BY <1>1, <1>4, <2>2, <4>1, MergedOrder
    <3> QED
      BY <2>1, <3>1, <3>2
  <2>4. TimeOf(c[k]) <= TimeOf(d[j])
    BY <1>3, <1>4, <1>6, <2>2, <2>3
  <2> QED
    BY <2>4
<1>10. Result'
  <2>1. chain' \in Chains' /\ found'
    BY <1>1, <1>2, <1>8, Frozen
  <2>2. Earliest(chain)'
    BY <1>1, <1>2, <1>9, Frozen DEF Earliest, TimeOf
  <2> QED
    BY <2>1, <2>2 DEF Result
<1>11. ChainTypeOK'
  <2>1. c \in Seq(Occurrences)
    <3>1. c \in [1..Size -> Occurrences] /\ Size \in Nat
      BY <1>1, <1>2, <1>3, Data
    <3> QED
      BY <3>1
  <2> QED
    BY <1>1, <1>2, <2>1, Frozen DEF ChainTypeOK
<1> QED
  BY <1>1, <1>10, <1>11 DEF Searching

\* The window's end moves on.
LEMMA GoOnStep ==
  ASSUME Searching, GoOn
  PROVE  Searching'
<1>1. /\ UNCHANGED <<alerts, corr, chain, taken, dropped, latest, counts, found>>
      /\ search' = "take" /\ ChainTypeOK /\ ~found /\ Sweep /\ Shrinking
      /\ WindowFits /\ ~AllInWindow
  BY DEF GoOn, WindowFits, Searching
<1>2. Taking'
  <2>1. Taking
    BY <1>1, NoChainYet
  <2> QED
    BY <1>1, <2>1, Frozen DEF Taking
<1>3. Sweep'
  <2>1. Prefix'
    BY <1>1, Frozen DEF Sweep, Prefix, MergedBefore, TimeOf, RuleOf
  <2>2. \A r \in Listed' : counts'[r] = Cardinality(InWindow(r)')
    BY <1>1, Frozen DEF Sweep, InWindow, Held, RuleOf
  <2>3. \A x \in dropped' : \A b \in Occurrences' \ taken' :
          TimeOf(b)' - TimeOf(x)' > corr'.window
    BY <1>1, Frozen DEF Sweep, TimeOf
  <2> QED
    BY <1>1, <2>1, <2>2, <2>3 DEF Sweep
<1>4. ChainTypeOK'
  BY <1>1, Frozen DEF ChainTypeOK
<1> QED
  BY <1>1, <1>2, <1>3, <1>4 DEF Searching

\* Everything was taken: there is no chain.
LEMMA SweepEndsStep ==
  ASSUME Searching, SweepEnds
  PROVE  Searching'
<1>1. /\ UNCHANGED <<alerts, corr, chain, taken, dropped, latest, counts, found>>
      /\ search' = "done" /\ ChainTypeOK /\ ~found /\ Sweep /\ Shrinking
      /\ WindowFits /\ ~AllInWindow /\ Occurrences = taken
  BY DEF SweepEnds, WindowFits, Searching
<1>2. Taking
  BY <1>1, NoChainYet
<1>3. Chains = {}
  BY <1>1, <1>2, LinkTypes DEF Taking
<1>4. Result'
  BY <1>1, <1>3, Frozen DEF Result
<1>5. ChainTypeOK'
  BY <1>1, Frozen DEF ChainTypeOK
<1> QED
  BY <1>1, <1>4, <1>5 DEF Searching

-----------------------------------------------------------------------------
(* The theorems.                                                           *)

\* The search starts with nothing found.
LEMMA InitSearching == ChainInit => Searching
<1> SUFFICES ASSUME ChainInit
             PROVE  Searching
  OBVIOUS
<1>1. ChainTypeOK
  <2>1. \E n \in 0..MaxFirings : alerts \in [1..n -> Firings]
    BY DEF ChainInit
  <2>2. corr \in Correlations /\ found \in BOOLEAN /\ search = "collect"
    BY DEF ChainInit
  <2>3. chain \in Seq(Occurrences) /\ taken = {} /\ dropped = {}
    BY DEF ChainInit
  <2>4. counts \in [Listed -> Nat]
    BY DEF ChainInit
  <2> QED
    BY <2>1, <2>2, <2>3, <2>4 DEF ChainTypeOK
<1>2. ~found /\ search = "collect" /\ taken = {} /\ \A r \in Listed : counts[r] = 0
  BY DEF ChainInit
<1> QED
  BY <1>1, <1>2 DEF Searching

\* The loop invariants of the two searches: what the greedy chain and the
\* sliding window know about all the chains there are.
THEOREM SearchInvariant == ChainSpec => []Searching
<1>1. Searching /\ [ChainNext]_chainVars => Searching'
  <2> SUFFICES ASSUME Searching, [ChainNext]_chainVars
               PROVE  Searching'
    OBVIOUS
  <2>1. CASE Incomplete
    BY <2>1, IncompleteStep
  <2>2. CASE Ordered
    BY <2>2, BeginOrderedStep, ExtendStep, NextStartStep, NoMoreStartsStep, ReturnOrderedStep
       DEF Ordered
  <2>3. CASE Unordered
    BY <2>3, BeginSweepStep, TakeStep, ReleaseStep, ReturnUnorderedStep, GoOnStep,
       SweepEndsStep DEF Unordered
  <2>4. CASE UNCHANGED chainVars
    <3>1. UNCHANGED <<alerts, corr, search, chain, taken, dropped, latest, counts, found>>
      BY <2>4 DEF chainVars
    <3>2. ChainTypeOK'
      BY <3>1, Frozen DEF Searching, ChainTypeOK, Held
    <3>3. (search = "ordered" => Growth)'
      BY <3>1, Frozen DEF Searching, Growth, Reached, Of, FiredBefore, Sorted, TimeOf, RuleOf
    <3>4. (search \in {"take", "shrink"} => Sweep)'
      BY <3>1, Frozen DEF Searching, Sweep, Prefix, InWindow, Held, MergedBefore, TimeOf, RuleOf
    <3>5. (search = "take" => Taking)' /\ (search = "shrink" => Shrinking)'
      BY <3>1, Frozen DEF Searching, Taking, Shrinking, TooWide, MergedBefore, TimeOf, RuleOf
    <3>6. (search = "done" => Result)'
      BY <3>1, Frozen DEF Searching, Result, Earliest, TimeOf
    <3>7. (found => search = "done")'
      BY <3>1 DEF Searching
    <3>8. (search = "collect" => taken = {} /\ \A r \in Listed : counts[r] = 0)'
      BY <3>1, Frozen DEF Searching
    <3> QED
      BY <3>2, <3>3, <3>4, <3>5, <3>6, <3>7, <3>8 DEF Searching
  <2> QED
    BY <2>1, <2>2, <2>3, <2>4 DEF ChainNext
<1> QED
  BY <1>1, InitSearching, PTL DEF ChainSpec

\* Every variable of both searches keeps its type; in particular no count
\* falls below zero and the latest occurrence stays in the window
\* (correlation.py 208-216).
THEOREM ChainTypes == ChainSpec => []ChainTypeOK
<1>1. Searching => ChainTypeOK
  BY DEF Searching
<1> QED
  BY <1>1, SearchInvariant, PTL

\* For any alerts, rules and timespan, the greedy search finds a chain in the
\* listed order exactly when there is one (correlation.py 167-185).
THEOREM OrderedCorrect == ChainSpec => []OrderedFires
<1>1. Searching => OrderedFires
  BY DEF Searching, Result, OrderedFires, ChainTypeOK
<1> QED
  BY <1>1, SearchInvariant, PTL

\* For any alerts, rules and timespan, the sweep fires exactly when every
\* rule fired within one timespan (correlation.py 193-223).
THEOREM UnorderedCorrect == ChainSpec => []UnorderedFires
<1>1. Searching => UnorderedFires
  BY DEF Searching, Result, UnorderedFires, ChainTypeOK
<1> QED
  BY <1>1, SearchInvariant, PTL

\* The evidence is a chain the correlation asks for, and no chain is complete
\* before it (correlation.py 182-184, 217-222).
THEOREM EarliestCorrect == ChainSpec => []EarliestChain
<1>1. Searching => EarliestChain
  BY DEF Searching, Result, Earliest, EarliestChain
<1> QED
  BY <1>1, SearchInvariant, PTL

=============================================================================
