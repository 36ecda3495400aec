---------------------------- MODULE Aggregation ----------------------------
(***************************************************************************)
(* How the detection engine decides whether a windowed threshold rule      *)
(* fires for one group of events (minisoc/detections/engine.py,            *)
(* DetectionEngine._first_window_crossing): a two-pointer sweep over the   *)
(* time-sorted events that stops at the first window whose count           *)
(* satisfies the rule's comparison.  One step of the model is one          *)
(* iteration of a loop of the code.                                        *)
(*                                                                         *)
(* An event is its position in the group; events[e] is its timestamp, or   *)
(* Undated when the parser could not read one.                             *)
(***************************************************************************)
EXTENDS Integers, FiniteSets

CONSTANTS
  Time,        \* the timestamps events may carry, in seconds
  Undated,     \* the timestamp of an event whose time could not be parsed
  MaxEvents,   \* the largest group considered (bounds the model)
  Aggs         \* the aggregation clauses considered: op, threshold, window

Ops == {">", ">=", "<", "<=", "=="}

ASSUME TimeAssumption == Time \subseteq Int /\ Undated \notin Int
ASSUME MaxEventsAssumption == MaxEvents \in Nat
ASSUME AggsAssumption == Aggs \subseteq [op: Ops, n: Nat, window: Nat]

VARIABLES
  events,   \* the matching events of the group, in log order
  agg,      \* the rule's aggregation clause and its window
  pc,       \* "sort", then "sweep", then "done"
  timed,    \* the dated events in time order
  start,    \* the first index of the sliding window
  end,      \* its last index
  fired,    \* whether a window was returned
  evidence  \* the events of the returned window

sweepVars == <<events, agg, pc, timed, start, end, fired, evidence>>

Groups == UNION {[1..n -> Time \union {Undated}] : n \in 1..MaxEvents}

\* The events with a usable timestamp.
Dated == {e \in DOMAIN events : events[e] # Undated}

\* Aggregation.compare
Compare(count) ==
  \/ agg.op = ">"  /\ count > agg.n
  \/ agg.op = ">=" /\ count >= agg.n
  \/ agg.op = "<"  /\ count < agg.n
  \/ agg.op = "<=" /\ count <= agg.n
  \/ agg.op = "==" /\ count = agg.n

\* The order of a stable sort by timestamp.
Before(d, e) == events[d] < events[e] \/ (events[d] = events[e] /\ d <= e)

\* sorted(...): every dated event once, in the order Before.
IsSorting(s) ==
  /\ \A d \in Dated : \E k \in DOMAIN s : s[k] = d
  /\ \A j, k \in DOMAIN s : j < k => Before(s[j], s[k]) /\ s[j] # s[k]

\* The time of the k-th dated event.
At(k) == events[timed[k]]

SweepTypeOK ==
  /\ events \in Groups
  /\ agg \in Aggs
  /\ pc \in {"sort", "sweep", "done"}
  /\ timed \in UNION {[1..n -> Dated] : n \in 0..MaxEvents}
  /\ start \in 0..MaxEvents
  /\ end \in 0..MaxEvents
  /\ fired \in BOOLEAN
  /\ evidence \subseteq DOMAIN events

SweepInit ==
  /\ events \in Groups
  /\ agg \in Aggs
  /\ pc = "sort"
  /\ timed = [k \in 1..0 |-> k]
  /\ start = 0
  /\ end = 0
  /\ fired = FALSE
  /\ evidence = {}

\* Without a single timestamp the whole group is one unbounded bucket.
Bucket ==
  /\ pc = "sort"
  /\ Dated = {}
  /\ pc' = "done"
  /\ fired' = Compare(Cardinality(DOMAIN events))
  /\ evidence' = IF fired' THEN DOMAIN events ELSE {}
  /\ UNCHANGED <<events, agg, timed, start, end>>

\* MUTANT of Sort: events without a timestamp are kept and sorted first.
SortUndatedFirst ==
  /\ pc = "sort"
  /\ Dated # {}
  /\ \E s \in [DOMAIN events -> DOMAIN events] :
       /\ \A j, k \in DOMAIN s : j < k =>
            /\ s[j] # s[k]
            /\ s[j] \in Dated => s[k] \in Dated /\ Before(s[j], s[k])
       /\ timed' = s
  /\ start' = 1
  /\ end' = 1
  /\ pc' = "sweep"
  /\ UNCHANGED <<events, agg, fired, evidence>>

\* Events without a timestamp are left out; the sweep starts at the first.
Sort ==
  /\ pc = "sort"
  /\ Dated # {}
  /\ \E s \in [1..Cardinality(Dated) -> Dated] :
       /\ IsSorting(s)
       /\ timed' = s
  /\ start' = 1
  /\ end' = 1
  /\ pc' = "sweep"
  /\ UNCHANGED <<events, agg, fired, evidence>>

ShrinkNothing ==
  /\ pc = "sweep"
  /\ At(end) - At(start) > agg.window
  /\ UNCHANGED sweepVars

\* The inner loop: the window is too wide, drop its first event.
Shrink ==
  /\ pc = "sweep"
  /\ At(end) - At(start) > agg.window
  /\ start' = start + 1
  /\ UNCHANGED <<events, agg, pc, timed, end, fired, evidence>>

Fits == At(end) - At(start) <= agg.window
Satisfied == Compare(end - start + 1)

\* MUTANT of Fire: return timed[start : end]
FireShort ==
  /\ pc = "sweep"
  /\ Fits
  /\ Satisfied
  /\ pc' = "done"
  /\ fired' = TRUE
  /\ evidence' = {timed[k] : k \in start..(end - 1)}
  /\ UNCHANGED <<events, agg, timed, start, end>>

\* return timed[start : end + 1]
Fire ==
  /\ pc = "sweep"
  /\ Fits
  /\ Satisfied
  /\ pc' = "done"
  /\ fired' = TRUE
  /\ evidence' = {timed[k] : k \in start..end}
  /\ UNCHANGED <<events, agg, timed, start, end>>

\* MUTANT of Advance: the window starts over at every event.
AdvanceAfresh ==
  /\ pc = "sweep"
  /\ Fits
  /\ ~Satisfied
  /\ end + 1 \in DOMAIN timed
  /\ end' = end + 1
  /\ start' = end + 1
  /\ UNCHANGED <<events, agg, pc, timed, fired, evidence>>

\* The outer loop takes the next event.
Advance ==
  /\ pc = "sweep"
  /\ Fits
  /\ ~Satisfied
  /\ end + 1 \in DOMAIN timed
  /\ end' = end + 1
  /\ UNCHANGED <<events, agg, pc, timed, start, fired, evidence>>

\* return None
GiveUp ==
  /\ pc = "sweep"
  /\ Fits
  /\ ~Satisfied
  /\ end + 1 \notin DOMAIN timed
  /\ pc' = "done"
  /\ UNCHANGED <<events, agg, timed, start, end, fired, evidence>>

SweepNext == Bucket \/ Sort \/ Shrink \/ Fire \/ Advance \/ GiveUp

\* The sweep is a plain function call: it runs until it returns.
SweepSpec == SweepInit /\ [][SweepNext]_sweepVars /\ WF_sweepVars(SweepNext)

-----------------------------------------------------------------------------
(* Correctness, against a definition that knows neither of the pointers.   *)

\* The dated events no later than e and at most agg.window before it.
WindowOf(e) ==
  {d \in Dated : Before(d, e) /\ events[e] - events[d] <= agg.window}

\* The window that ends with e satisfies the comparison.
Crosses(e) == Compare(Cardinality(WindowOf(e)))

\* Neither pointer runs past the sorted events: the code indexes without a
\* check and an IndexError would end the evaluation of every rule
\* (engine.py 447-450).
NoOverrun == pc = "sweep" => start \in DOMAIN timed /\ end \in DOMAIN timed

\* The sweep fires exactly when some window of the rule's width ending with
\* an event of the group satisfies the comparison (engine.py 441-454).
FiresIffCrossing ==
  (pc = "done" /\ Dated # {}) => (fired <=> \E e \in Dated : Crosses(e))

\* The evidence is the earliest such window, and all of it: later alerts
\* take their time and their suppression from its last event (engine.py
\* 452-453, 459-462).
EvidenceIsFirstWindow ==
  (pc = "done" /\ fired /\ Dated # {}) =>
    \E e \in Dated :
      /\ Crosses(e)
      /\ evidence = WindowOf(e)
      /\ \A d \in Dated : Crosses(d) => Before(e, d)

\* How many events within one window a rule that counts upwards asks for.
Needed ==
  IF agg.op = ">" THEN agg.n + 1
  ELSE IF agg.op = ">=" /\ agg.n = 0 THEN 1 ELSE agg.n

\* What the author of a rule with >, >= or == means: it fires exactly when
\* enough events lie within one window of each other, whichever they are.
\* For == this needs that the sweep passes every smaller count on its way.
ThresholdMeaning ==
  (pc = "done" /\ Dated # {} /\ agg.op \in {">", ">=", "=="} /\ Needed > 0) =>
    (fired <=> \E S \in SUBSET Dated :
                 /\ Cardinality(S) = Needed
                 /\ \A d, e \in S : events[d] - events[e] <= agg.window)

\* The sweep ends for every input: the pointers only move forward and the
\* inner loop stops at the outer one (engine.py 448-454).
Terminates == <>(pc = "done")

=============================================================================
