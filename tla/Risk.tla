-------------------------------- MODULE Risk --------------------------------
(***************************************************************************)
(* Risk-based alerting (minisoc/risk/engine.py): every alert contributes   *)
(* to the entities its evidence names, and an entity whose contributions   *)
(* reach the threshold within one window becomes a notable.                *)
(***************************************************************************)
EXTENDS Rules

CONSTANTS
  SeverityScores,  \* severity -> base score; the others score as "medium"
  RiskObjects,     \* the fields risk is tracked against
  IpValues,        \* the group values that parse as an address
  NotableId,       \* RISK_RULE_ID
  Now              \* the clock when alerts are assessed

ASSUME SeverityAssumption ==
  /\ "medium" \in DOMAIN SeverityScores
  /\ \A level \in DOMAIN SeverityScores : SeverityScores[level] \in Int
ASSUME IpAssumption == None \notin IpValues
ASSUME RiskObjectsAssumption == IsFiniteSet(RiskObjects)
ASSUME NowAssumption == Now \in Int

SeverityScore(level) ==
  IF level \in DOMAIN SeverityScores THEN SeverityScores[level] ELSE SeverityScores["medium"]

\* RiskEngine._score; a rule's risk_score overrides its severity.
Score(overrides, alert) ==
  IF alert.rule \in DOMAIN overrides THEN overrides[alert.rule] ELSE SeverityScore(alert.level)

\* RiskEngine.from_config: the last rule of an id that declares a score.
Overrides(rules) ==
  LET scored == {k \in DOMAIN rules : rules[k].risk # None} IN
  [id \in {rules[k].id : k \in scored} |-> rules[Max({k \in scored : rules[k].id = id})].risk]

\* The values of a field among the events of the alert; a group value that is an
\* address counts as a source address, whatever the rule groups by.
EntityValues(events, alert, field) ==
  ({events[e].get[field] : e \in ToSet(alert.events)} \ {None, ""}) \union
  IF field = "source.ip" /\ alert.group \in IpValues THEN {alert.group} ELSE {}

\* The score is divided among the values of one field.
Share(base, values) == LET share == base \div Cardinality(values) IN IF share < 1 THEN 1 ELSE share

Contributes(overrides, alert) == alert.rule # NotableId /\ Score(overrides, alert) > 0

\* The contributions to one entity, by the alert they come from: when, and how
\* much.  undated is the time an alert without a timestamp is given.
Contributions(events, alerts, overrides, entity, undated) ==
  LET from == {a \in DOMAIN alerts :
                 /\ Contributes(overrides, alerts[a])
                 /\ entity[2] \in EntityValues(events, alerts[a], entity[1])}
  IN [at |-> [a \in from |-> IF alerts[a].time = None THEN undated ELSE alerts[a].time],
      score |-> [a \in from |-> Share(Score(overrides, alerts[a]),
                                      EntityValues(events, alerts[a], entity[1]))]]

\* The contributions sorted by time up to one of them, and those of them within
\* the window that ends there.
SortedTo(items, end) ==
  {a \in DOMAIN items.at : items.at[a] < items.at[end] \/ (items.at[a] = items.at[end] /\ a <= end)}
WindowTo(items, window, end) == {a \in SortedTo(items, end) : items.at[end] - items.at[a] <= window}

\* The sum of the scores: one element for every point.
Total(score, S) == Cardinality(UNION {{a} \X (1..score[a]) : a \in S})

\* The first of the windows, by their last contribution, with the greatest sum.
Best(items, Sums, Windows) ==
  LET greatest == {a \in DOMAIN items.at : \A b \in DOMAIN items.at : Sums[b] <= Sums[a]}
      first == CHOOSE a \in greatest : greatest \intersect SortedTo(items, a) = {a}
  IN [sum |-> Sums[first], items |-> Windows[first]]

\* MUTANT of MaxWindow: the sum is compared before the window's start moves on.
MaxWindowLate(items, window) ==
  LET Previous(end) == {a \in SortedTo(items, end) \ {end} :
                          SortedTo(items, end) \ {end} \subseteq SortedTo(items, a)}
      Late(end) == {end} \union UNION {WindowTo(items, window, a) : a \in Previous(end)}
  IN Best(items, [end \in DOMAIN items.at |-> Total(items.score, Late(end))],
          [end \in DOMAIN items.at |-> WindowTo(items, window, end)])

\* _max_window: every contribution ends one window of the sweep.
MaxWindow(items, window) ==
  Best(items, [end \in DOMAIN items.at |-> Total(items.score, WindowTo(items, window, end))],
       [end \in DOMAIN items.at |-> WindowTo(items, window, end)])

Entities(events, alerts, overrides) ==
  UNION {{f} \X EntityValues(events, alerts[a], f)
           : a \in {b \in DOMAIN alerts : Contributes(overrides, alerts[b])}, f \in RiskObjects}

\* _build_notable: the evidence is each event of the window's alerts once.
Notable(events, alerts, risk, entity, items, best) ==
  LET order == Sorted(best.items, [a \in best.items |-> best.items \intersect (SortedTo(items, a) \ {a})])
      seen == FlattenSeq([k \in DOMAIN order |-> alerts[order[k]].events])
      times == {alerts[a].time : a \in best.items} \ {None}
  IN [rule |-> NotableId, group |-> entity[2],
      clock |-> IF times = {} THEN "naive"
                ELSE alerts[CHOOSE a \in best.items : alerts[a].time # None].clock,
      events |-> Picked(seen, {k \in DOMAIN seen : \A j \in 1..(k - 1) : seen[j] # seen[k]}),
      level |-> IF best.sum >= 2 * risk.threshold THEN "critical" ELSE "high",
      time |-> IF times = {} THEN Now ELSE Max(times)]

\* max() over the contributors' timestamps
NotableRaises(alerts, best) ==
  \E a, b \in best.items :
    /\ alerts[a].time # None /\ alerts[b].time # None
    /\ alerts[a].clock # alerts[b].clock

\* assess: entity -> its contributions and its best window
Assessment(events, alerts, risk, undated) ==
  [entity \in Entities(events, alerts, risk.overrides) |->
     LET items == Contributions(events, alerts, risk.overrides, entity, undated)
     IN [items |-> items, best |-> MaxWindow(items, risk.window)]]

OverThreshold(risk, assessed) == assessed.best.sum >= risk.threshold

\* MUTANT of Leaderboard: the sum of all time.
LeaderboardAllTime(events, alerts, risk) ==
  LET assessed == Assessment(events, alerts, [risk EXCEPT !.window = Now], 0) IN
  {[entity |-> e, score |-> assessed[e].best.sum, signals |-> Cardinality(DOMAIN assessed[e].items.at),
    over |-> OverThreshold(risk, assessed[e])] : e \in DOMAIN assessed}

\* leaderboard over the same alerts as records: an undated one counts at 0.
Leaderboard(events, alerts, risk) ==
  LET assessed == Assessment(events, alerts, risk, 0) IN
  {[entity |-> e, score |-> assessed[e].best.sum, signals |-> Cardinality(DOMAIN assessed[e].items.at),
    over |-> OverThreshold(risk, assessed[e])] : e \in DOMAIN assessed}

=============================================================================
