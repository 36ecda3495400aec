---------------------------- MODULE Correlation ----------------------------
(***************************************************************************)
(* How the correlator searches one group for a chain of base-rule alerts   *)
(* (minisoc/detections/correlation.py, Correlator.evaluate and its two     *)
(* searches): "temporal_ordered" grows a chain greedily from every alert   *)
(* of the first rule, "temporal" slides a window over all of them.  One    *)
(* step is one iteration of a loop.                                        *)
(*                                                                         *)
(* An alert is its position among the alerts the base rules fired.  A rule *)
(* id is a number, which stands for its place in the order of the strings. *)
(* A correlation lists no rule twice.                                      *)
(***************************************************************************)
EXTENDS Integers, Sequences, FiniteSets

CONSTANTS
  RuleIds,       \* the base rules
  FiringTimes,   \* the timestamps alerts may carry, in seconds
  Absent,        \* no timestamp, or a group-by field that is absent
  Group,         \* the group key the search is for
  Firings,       \* the alerts considered: rule, time, key
  MaxFirings,    \* how many of them at most (bounds the model)
  Correlations   \* the correlations considered: type, rules, window

Types == {"temporal", "temporal_ordered"}

ASSUME RulesAssumption == RuleIds \subseteq Int
ASSUME FiringTimesAssumption == FiringTimes \subseteq Int /\ Absent \notin Int
ASSUME FiringsAssumption ==
  Firings \subseteq [rule: RuleIds, time: FiringTimes \union {Absent}, key: {Group, Absent}]
ASSUME MaxFiringsAssumption == MaxFirings \in Nat
ASSUME CorrelationsAssumption ==
  \A c \in Correlations :
    /\ c.type \in Types
    /\ c.window \in Nat
    /\ c.rules \in Seq(RuleIds)
    /\ Len(c.rules) >= 2
    /\ \A j, k \in DOMAIN c.rules : c.rules[j] = c.rules[k] => j = k

VARIABLES
  alerts,   \* alerts_by_rule, of all groups
  corr,     \* the correlation
  search,   \* "collect", then "ordered", or "take" and "shrink", then "done"
  chain,    \* the chain under construction, and at last the one returned
  taken,    \* the occurrences the window's end has passed
  dropped,  \* those its start has passed
  latest,   \* the occurrence at the window's end
  counts,   \* rule -> how many of its occurrences are in the window
  found     \* whether a chain was returned

chainVars == <<alerts, corr, search, chain, taken, dropped, latest, counts, found>>

TimeOf(a) == alerts[a].time
RuleOf(a) == alerts[a].rule
Positions == DOMAIN corr.rules
Size == Len(corr.rules)
Listed == {corr.rules[k] : k \in Positions}

\* What is bucketed for the group: dated alerts of a listed rule that carry
\* every group-by field.
Occurrences ==
  {a \in DOMAIN alerts : TimeOf(a) # Absent /\ alerts[a].key = Group /\ RuleOf(a) \in Listed}
Of(r) == {a \in Occurrences : RuleOf(a) = r}

\* The stable sort of one rule's occurrences, and that of all of them.
FiredBefore(a, b) == TimeOf(a) < TimeOf(b) \/ (TimeOf(a) = TimeOf(b) /\ a < b)
MergedBefore(a, b) ==
  \/ TimeOf(a) < TimeOf(b)
  \/ /\ TimeOf(a) = TimeOf(b)
     /\ RuleOf(a) < RuleOf(b) \/ (RuleOf(a) = RuleOf(b) /\ a < b)

First(a, S) == a \in S /\ \A b \in S \ {a} : FiredBefore(a, b)
Held == taken \ dropped

ChainTypeOK ==
  /\ \E n \in 0..MaxFirings : alerts \in [1..n -> Firings]
  /\ corr \in Correlations
  /\ search \in {"collect", "ordered", "take", "shrink", "done"}
  /\ chain \in Seq(Occurrences)
  /\ taken \subseteq Occurrences
  /\ dropped \subseteq taken
  /\ search = "shrink" => latest \in Held
  /\ counts \in [Listed -> Nat]
  /\ found \in BOOLEAN

ChainInit ==
  /\ \E n \in 0..MaxFirings : alerts \in [1..n -> Firings]
  /\ corr \in Correlations
  /\ search = "collect"
  /\ chain = <<>>
  /\ taken = {}
  /\ dropped = {}
  /\ latest = Absent
  /\ counts = [r \in Listed |-> 0]
  /\ found = FALSE

\* A listed rule did not fire for the group.
Incomplete ==
  /\ search = "collect"
  /\ \E r \in Listed : Of(r) = {}
  /\ search' = "done"
  /\ UNCHANGED <<alerts, corr, chain, taken, dropped, latest, counts, found>>

AllFired == \A r \in Listed : Of(r) # {}

-----------------------------------------------------------------------------
(* _find_ordered_chain                                                     *)

\* The chain starts over with the first rule's first occurrence in S.
StartWith(S) ==
  /\ \E a \in S : First(a, S) /\ chain' = <<a>>
  /\ search' = "ordered"
  /\ UNCHANGED <<alerts, corr, taken, dropped, latest, counts, found>>

BeginOrdered ==
  /\ search = "collect"
  /\ corr.type = "temporal_ordered"
  /\ AllFired
  /\ StartWith(Of(corr.rules[1]))

\* MUTANT of Followers: a link must be later than the one before it.
FollowersStrictly ==
  {a \in Of(corr.rules[Len(chain) + 1]) : TimeOf(a) > TimeOf(chain[Len(chain)])}

\* The occurrences of the next rule that may follow the last link.
Followers ==
  {a \in Of(corr.rules[Len(chain) + 1]) : TimeOf(a) >= TimeOf(chain[Len(chain)])}

Growing == search = "ordered" /\ Len(chain) < Size
Grown == search = "ordered" /\ Len(chain) = Size

\* MUTANT of Extend: any follower.
ExtendAnyhow ==
  /\ Growing
  /\ \E a \in Followers : chain' = Append(chain, a)
  /\ UNCHANGED <<alerts, corr, search, taken, dropped, latest, counts, found>>

\* The chain takes the earliest follower.
Extend ==
  /\ Growing
  /\ \E a \in Followers : First(a, Followers) /\ chain' = Append(chain, a)
  /\ UNCHANGED <<alerts, corr, search, taken, dropped, latest, counts, found>>

ChainFits == TimeOf(chain[Len(chain)]) - TimeOf(chain[1]) <= corr.window

\* No chain from this start: nothing follows, or what follows ends too late.
Hopeless ==
  \/ Growing /\ Followers = {}
  \/ Grown /\ ~ChainFits

LaterStarts == {a \in Of(corr.rules[1]) : FiredBefore(chain[1], a)}

\* The outer loop tries the next start.
NextStart ==
  /\ Hopeless
  /\ LaterStarts # {}
  /\ StartWith(LaterStarts)

NoMoreStarts ==
  /\ Hopeless
  /\ LaterStarts = {}
  /\ search' = "done"
  /\ UNCHANGED <<alerts, corr, chain, taken, dropped, latest, counts, found>>

ReturnOrdered ==
  /\ Grown
  /\ ChainFits
  /\ found' = TRUE
  /\ search' = "done"
  /\ UNCHANGED <<alerts, corr, chain, taken, dropped, latest, counts>>

-----------------------------------------------------------------------------
(* _find_unordered_chain                                                   *)

BeginSweep ==
  /\ search = "collect"
  /\ corr.type = "temporal"
  /\ AllFired
  /\ search' = "take"
  /\ UNCHANGED <<alerts, corr, chain, taken, dropped, latest, counts, found>>

\* The window's end moves to the next occurrence in the merged order.
Take ==
  /\ search = "take"
  /\ \E a \in Occurrences \ taken :
       /\ \A b \in Occurrences \ (taken \union {a}) : MergedBefore(a, b)
       /\ taken' = taken \union {a}
       /\ latest' = a
       /\ counts' = [counts EXCEPT ![RuleOf(a)] = @ + 1]
  /\ search' = "shrink"
  /\ UNCHANGED <<alerts, corr, chain, dropped, found>>

Oldest(a) == a \in Held /\ \A b \in Held \ {a} : MergedBefore(a, b)

\* MUTANT of TooWide: an occurrence exactly one timespan old is left behind.
TooWideAtLimit(a) == TimeOf(latest) - TimeOf(a) >= corr.window

TooWide(a) == TimeOf(latest) - TimeOf(a) > corr.window

\* MUTANT of Release: the counts follow the wrong end.
ReleaseCountingLatest ==
  /\ search = "shrink"
  /\ \E a \in Held : Oldest(a) /\ TooWide(a) /\ dropped' = dropped \union {a}
  /\ counts' = [counts EXCEPT ![RuleOf(latest)] = @ - 1]
  /\ UNCHANGED <<alerts, corr, search, chain, taken, latest, found>>

\* Its start leaves an occurrence behind that is too old.
Release ==
  /\ search = "shrink"
  /\ \E a \in Held :
       /\ Oldest(a)
       /\ TooWide(a)
       /\ dropped' = dropped \union {a}
       /\ counts' = [counts EXCEPT ![RuleOf(a)] = @ - 1]
  /\ UNCHANGED <<alerts, corr, search, chain, taken, latest, found>>

WindowFits == search = "shrink" /\ \E a \in Held : Oldest(a) /\ ~TooWide(a)

\* len(counts) == len(rule_ids)
AllInWindow == Cardinality({r \in Listed : counts[r] > 0}) = Size

\* The latest occurrence of every rule in the window.
IsEvidence(c) ==
  \A k \in Positions :
    /\ c[k] \in Held
    /\ RuleOf(c[k]) = corr.rules[k]
    /\ \A b \in Held : RuleOf(b) = corr.rules[k] /\ b # c[k] => MergedBefore(b, c[k])

ReturnUnordered ==
  /\ WindowFits
  /\ AllInWindow
  /\ \E c \in [Positions -> Held] : IsEvidence(c) /\ chain' = c
  /\ found' = TRUE
  /\ search' = "done"
  /\ UNCHANGED <<alerts, corr, taken, dropped, latest, counts>>

GoOn ==
  /\ WindowFits
  /\ ~AllInWindow
  /\ Occurrences # taken
  /\ search' = "take"
  /\ UNCHANGED <<alerts, corr, chain, taken, dropped, latest, counts, found>>

SweepEnds ==
  /\ WindowFits
  /\ ~AllInWindow
  /\ Occurrences = taken
  /\ search' = "done"
  /\ UNCHANGED <<alerts, corr, chain, taken, dropped, latest, counts, found>>

-----------------------------------------------------------------------------

Ordered == BeginOrdered \/ Extend \/ NextStart \/ NoMoreStarts \/ ReturnOrdered
Unordered == BeginSweep \/ Take \/ Release \/ ReturnUnordered \/ GoOn \/ SweepEnds
ChainNext == Incomplete \/ Ordered \/ Unordered

ChainSpec == ChainInit /\ [][ChainNext]_chainVars

-----------------------------------------------------------------------------
(* Correctness, against definitions that search nothing.                   *)

\* One occurrence of every listed rule.
Picks == {c \in [Positions -> Occurrences] : \A k \in Positions : RuleOf(c[k]) = corr.rules[k]}

\* "in the listed order ... the whole chain must fit in this window"
InOrder(c) ==
  /\ \A j, k \in Positions : j < k => TimeOf(c[j]) <= TimeOf(c[k])
  /\ TimeOf(c[Size]) - TimeOf(c[1]) <= corr.window

\* "within timespan, in any order"
Together(c) == \A j, k \in Positions : TimeOf(c[j]) - TimeOf(c[k]) <= corr.window

\* The chains the correlation asks for.
Chains == {c \in Picks : IF corr.type = "temporal" THEN Together(c) ELSE InOrder(c)}

\* The greedy search finds a chain whenever there is one: taking the earliest
\* follower loses no chain of this start, and a start without a chain hides no
\* later one (correlation.py 167-185).
OrderedFires ==
  (search = "done" /\ corr.type = "temporal_ordered") => (found <=> Chains # {})

\* The sweep stops with an alert exactly when every rule fired within one
\* timespan: its counts always tell which rules are in the window
\* (correlation.py 193-223).
UnorderedFires ==
  (search = "done" /\ corr.type = "temporal") => (found <=> Chains # {})

\* The evidence is such a chain, and none is complete before it: "the first
\* chain", "the first time window" (correlation.py 167, 193).
EarliestChain ==
  found => /\ chain \in Chains
           /\ \A c \in Chains : \A k \in Positions :
                \E j \in Positions : TimeOf(chain[k]) <= TimeOf(c[j])

=============================================================================
