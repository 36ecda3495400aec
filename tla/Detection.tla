----------------------------- MODULE Detection -----------------------------
(***************************************************************************)
(* One life of a pipeline (minisoc/core/pipeline.py): it is built from     *)
(* rule files, context tables and upstream rules, and then handed one      *)
(* batch of events after the other; a batch goes through enrichment,       *)
(* rules, correlations, the behavioral detector and the risk engine.  The  *)
(* modules it extends say what each of them computes.                      *)
(*                                                                         *)
(* Who hands over the batches decides what becomes of the alerts: the      *)
(* efficacy evaluation (minisoc/efficacy/evaluate.py) switches risk off    *)
(* and scores them; a run (cli/main.py, run and replay) deduplicates them  *)
(* (input.scored).                                                         *)
(***************************************************************************)
EXTENDS Correlator, Behavioral, Risk, Efficacy

CONSTANT Inputs   \* the deployments: files, sigma, context, risk, cases, scored

\* What the readers of the files and of the logs hand over.
IsTimeframe(window) == window \in Nat \union {None, Bad}

IsSelection(spec) ==
  /\ {"shape", "maps"} \subseteq DOMAIN spec
  /\ IsList(spec.maps)
  /\ \A entries \in ToSet(spec.maps) :
       /\ IsList(entries)
       /\ \A entry \in ToSet(entries) : {"field", "modifier", "values"} \subseteq DOMAIN entry

\* The tokens of a condition; the threshold is written in digits.
IsCondition(condition) ==
  /\ IsList(condition.search)
  /\ condition.pipe = "count" => condition.n \in Nat

IsDetection(file) ==
  /\ file.condition # None => IsCondition(file.condition)
  /\ \A n \in DOMAIN file.selections : IsSelection(file.selections[n])

IsFile(file) ==
  /\ {"kind", "id", "tags"} \subseteq DOMAIN file
  /\ file.id \in Int \union {None}
  /\ file.kind = "rule" => IsDetection(file)
  /\ file.kind = "correlation" => IsList(file.rules)
  /\ file.kind # "correlation" => file.risk \in Int \union {None} /\ IsTimeframe(file.timeframe)

IsUpstream(file) ==
  /\ {"id", "stem", "risk", "logsource", "selections", "timeframe", "condition", "tags"} \subseteq DOMAIN file
  /\ file.id \in Int \union {None} /\ file.stem \in Int /\ IsTimeframe(file.timeframe)
  /\ IsDetection(file)

IsEvent(event) ==
  /\ {"get", "time", "clock"} \subseteq DOMAIN event
  /\ event.time \in Int \union {None}
  /\ Shown \union {"source.ip", "user.name", "event.outcome"} \subseteq DOMAIN event.get

\* A line that does not parse is no event.
IsCase(case) ==
  /\ IsList(case.events) /\ \A event \in ToSet(case.events) : IsEvent(event)
  /\ case.lines \in Nat /\ Len(case.events) <= case.lines

IsDeployment(i) ==
  /\ IsList(i.files) /\ \A file \in ToSet(i.files) : IsFile(file)
  /\ IsList(i.sigma) /\ \A file \in ToSet(i.sigma) : IsUpstream(file)
  /\ IsList(i.cases) /\ \A case \in ToSet(i.cases) : IsCase(case)
  /\ i.context.geoip # None =>
       /\ IsList(i.context.geoip)
       /\ \A k \in Rows(i.context.geoip) : i.context.geoip[k].prefix \in Nat
  /\ i.risk # None => i.risk.threshold \in Int /\ i.risk.window \in Nat
  /\ i.scored \in BOOLEAN

ASSUME InputsAssumption == \A i \in Inputs : IsDeployment(i)
ASSUME IdsAssumption == TravelId # NotableId

VARIABLES
  input,       \* what is on disk, and the cases
  pc,          \* the next stage
  error,       \* the stage and the exception that ended the pipeline
  rules,       \* _rules
  correlations,\* _correlations
  sigma,       \* sigma_report
  batch,       \* the case being run
  events,      \* its events, enriched in place
  turn,        \* how many rules, then correlations, are evaluated
  byRule,      \* by_rule: rule id -> its alerts
  alerts,      \* the alerts of the run so far
  assessed,    \* entity -> its contributions and best window
  kept,        \* the alerts the deduplicator keeps
  archive,     \* the alert store: the records of all batches, and the events they hold
  report       \* the efficacy report

built == <<input, rules, correlations, sigma>>
vars == <<input, pc, error, rules, correlations, sigma, batch, events, turn, byRule,
          alerts, assessed, kept, archive, report>>

Stages == {"cases", "load", "context", "import", "start", "enrich", "rules", "collect", "correlate",
           "behave", "assess", "summarise", "dedup", "score", "done", "failed"}
Exceptions == {"ValueError", "IndexError", "TypeError", "YAMLError", "exit 1"}
NoError == <<"none", "none">>

Empty == <<>>
NoReport == EmptyReport({})
NoSigma == [loaded |-> <<>>, skipped |-> <<>>]
NoArchive == [events |-> <<>>, alerts |-> <<>>, batch |-> <<>>]
Cases == input.cases
Suppressed ==
  UNION {{id \in ToSet(c.rules) : ~Generates(c, id)} : c \in ToSet(correlations)}

\* The ids the files name.
Ids == {r.id : r \in ToSet(rules) \union ToSet(correlations)}

\* MUTANT of Tagged: the rules and correlations that were loaded.
TaggedFiles(loaded) == loaded \union ToSet(correlations)

\* tagged_rules, for the detection rules loaded: all that can raise an alert.
Tagged(loaded) == loaded \union ToSet(correlations) \union {[id |-> TravelId, tags |-> {"T1078"}]}


\* evaluate scores with risk-based alerting off.
NoRiskEngine == input.scored \/ input.risk = None
RiskOf == [threshold |-> input.risk.threshold, window |-> input.risk.window,
           overrides |-> Overrides(rules)]

TypeOK ==
  /\ pc \in Stages
  /\ IF pc = "failed" THEN error \in Stages \X Exceptions ELSE error = NoError
  /\ batch \in 0..Len(Cases)
  /\ turn \in 0..(Len(rules) + Len(correlations))
  /\ DOMAIN byRule \subseteq {rules[k].id : k \in DOMAIN rules}
  /\ Len(kept) <= Len(alerts)
  /\ \A a \in DOMAIN alerts : ToSet(alerts[a].events) \subseteq DOMAIN events

Init ==
  /\ input \in Inputs
  /\ pc = "cases"
  /\ error = NoError
  /\ rules = <<>>
  /\ correlations = <<>>
  /\ sigma = NoSigma
  /\ batch = 0
  /\ events = <<>>
  /\ turn = 0
  /\ byRule = Empty
  /\ alerts = <<>>
  /\ assessed = Empty
  /\ kept = <<>>
  /\ archive = NoArchive
  /\ report = NoReport

Fail(stage, err) ==
  /\ pc = stage
  /\ pc' = "failed"
  /\ error' = <<stage, err>>
  /\ UNCHANGED <<built, batch, events, turn, byRule, alerts, assessed, kept, archive, report>>

\* load_cases: one malformed case file ends the evaluation, and so does the
\* lack of any.
LoadCases ==
  /\ pc = "cases"
  /\ input.scored => Cases # <<>> /\ \A k \in DOMAIN Cases : ValidCase(Cases[k])
  /\ pc' = "load"
  /\ UNCHANGED <<built, error, batch, events, turn, byRule, alerts, assessed, kept, archive, report>>

LoadCasesFails ==
  /\ input.scored
  /\ \/ (\E k \in DOMAIN Cases : ~ValidCase(Cases[k])) /\ Fail("cases", "ValueError")
     \/ Cases = <<>> /\ Fail("cases", "exit 1")

-----------------------------------------------------------------------------
(* Pipeline.__init__                                                       *)

Load ==
  /\ pc = "load"
  /\ LoadsRules(input.files)
  /\ LET loaded == SortedById(input.files) IN
     /\ rules' = Picked(loaded, {k \in DOMAIN loaded : IsRule(loaded[k])})
     /\ correlations' = Picked(loaded, {k \in DOMAIN loaded : IsCorrelation(loaded[k])})
  /\ pc' = "context"
  /\ UNCHANGED <<input, error, sigma, batch, events, turn, byRule, alerts, assessed, kept, archive, report>>

LoadFails == ~LoadsRules(input.files) /\ Fail("load", "ValueError")

BuildEnricher ==
  /\ pc = "context"
  /\ ~EnricherRaises(input.context)
  /\ pc' = "import"
  /\ UNCHANGED <<built, error, batch, events, turn, byRule, alerts, assessed, kept, archive, report>>

BuildEnricherFails == EnricherRaises(input.context) /\ Fail("context", "YAMLError")

\* An upstream rule is added unless a native rule has its id.
Import ==
  /\ pc = "import"
  /\ \A k \in DOMAIN input.sigma : ~AnalysisRaises(input.sigma[k])
  /\ sigma' = ImportReport(input.sigma)
  /\ LET upstream == sigma'.loaded IN
     rules' = rules \o Picked(upstream, {k \in DOMAIN upstream :
                                          upstream[k].id \notin {r.id : r \in ToSet(rules)}})
  /\ report' = EmptyReport(Universe(Tagged(ToSet(rules')), Cases))
  /\ pc' = "start"
  /\ UNCHANGED <<input, error, correlations, batch, events, turn, byRule, alerts, assessed, kept, archive>>

ImportFails ==
  /\ pc = "import"
  /\ \E k \in DOMAIN input.sigma : AnalysisRaises(input.sigma[k])
  /\ Fail("import", "IndexError")

-----------------------------------------------------------------------------
(* Pipeline.run_events, once for every case                                *)

\* MUTANT of Start: what was kept of the last batch stays.
StartKeepsKept ==
  /\ pc = "start"
  /\ batch < Len(Cases)
  /\ batch' = batch + 1
  /\ events' = Cases[batch'].events
  /\ byRule' = Empty
  /\ alerts' = <<>>
  /\ assessed' = Empty
  /\ pc' = "enrich"
  /\ UNCHANGED <<built, error, turn, kept, archive, report>>

\* A batch of events for run_events.
Start ==
  /\ pc = "start"
  /\ batch < Len(Cases)
  /\ batch' = batch + 1
  /\ events' = Cases[batch'].events
  /\ byRule' = Empty
  /\ alerts' = <<>>
  /\ assessed' = Empty
  /\ kept' = <<>>
  /\ pc' = "enrich"
  /\ UNCHANGED <<built, error, turn, archive, report>>

\* The end of evaluate lists the rules no case tested.
Finish ==
  /\ pc = "start"
  /\ batch = Len(Cases)
  /\ report' = [report EXCEPT !.untested = Untested(report, Suppressed)]
  /\ pc' = "done"
  /\ UNCHANGED <<built, error, batch, events, turn, byRule, alerts, assessed, kept, archive>>

\* Enrichment comes before detection: rules see the fields it adds.
EnrichBatch ==
  /\ pc = "enrich"
  /\ events' = Enrich(input.context, events)
  /\ turn' = 0
  /\ pc' = "rules"
  /\ UNCHANGED <<built, error, batch, byRule, alerts, assessed, kept, archive, report>>

\* Of rules with one id the last one's alerts are kept.
Evaluate ==
  /\ pc = "rules"
  /\ turn < Len(rules)
  /\ LET rule == rules[turn + 1]
         result == EvaluateRule(rule, events) IN
     /\ result.err = "none"
     /\ byRule' = With(byRule, rule.id, result.alerts)
  /\ turn' = turn + 1
  /\ UNCHANGED <<built, pc, error, batch, events, alerts, assessed, kept, archive, report>>

EvaluateFails ==
  /\ pc = "rules"
  /\ turn < Len(rules)
  /\ LET err == EvaluateRule(rules[turn + 1], events).err IN err # "none" /\ Fail("rules", err)

\* The ids of the rules outside a set in the order of the rules, each once.
IdsInOrder(silent) ==
  Picked([k \in DOMAIN rules |-> rules[k].id],
         {k \in DOMAIN rules : /\ rules[k].id \notin silent
                              /\ \A j \in 1..(k - 1) : rules[j].id # rules[k].id})

\* MUTANT of Collect: correlations silence nothing.
CollectAll ==
  /\ pc = "rules"
  /\ turn = Len(rules)
  /\ LET ids == IdsInOrder({}) IN
     alerts' = FlattenSeq([k \in DOMAIN ids |-> byRule[ids[k]]])
  /\ turn' = 0
  /\ pc' = "correlate"
  /\ UNCHANGED <<built, error, batch, events, byRule, assessed, kept, archive, report>>

\* The alerts of every rule no correlation silences; a dict keeps the order in
\* which its keys were first set.
Collect ==
  /\ pc = "rules"
  /\ turn = Len(rules)
  /\ LET ids == IdsInOrder(Suppressed) IN
     alerts' = FlattenSeq([k \in DOMAIN ids |-> byRule[ids[k]]])
  /\ turn' = 0
  /\ pc' = "correlate"
  /\ UNCHANGED <<built, error, batch, events, byRule, assessed, kept, archive, report>>

CorrelateNext ==
  /\ pc = "correlate"
  /\ turn < Len(correlations)
  /\ LET result == Correlate(correlations[turn + 1], events, byRule) IN
     /\ result.err = "none"
     /\ alerts' = alerts \o result.alerts
  /\ turn' = turn + 1
  /\ UNCHANGED <<built, pc, error, batch, events, byRule, assessed, kept, archive, report>>

CorrelateFails ==
  /\ pc = "correlate"
  /\ turn < Len(correlations)
  /\ LET err == Correlate(correlations[turn + 1], events, byRule).err IN
     err # "none" /\ Fail("correlate", err)

Behave ==
  /\ pc = "correlate"
  /\ turn = Len(correlations)
  /\ ~TravelRaises(events)
  /\ alerts' = alerts \o Travel(events)
  /\ turn' = 0
  /\ pc' = "assess"
  /\ UNCHANGED <<built, error, batch, events, byRule, assessed, kept, archive, report>>

BehaveFails ==
  /\ pc = "correlate"
  /\ turn = Len(correlations)
  /\ TravelRaises(events)
  /\ Fail("correlate", "TypeError")

Reached(scores) == {e \in DOMAIN scores : OverThreshold(RiskOf, scores[e])}

\* The risk engine adds one notable for every entity over the threshold.
Assess ==
  /\ pc = "assess"
  /\ ~NoRiskEngine
  /\ LET scores == Assessment(events, alerts, RiskOf, Now)
         reached == SetToSeq(Reached(scores)) IN
     /\ \A k \in DOMAIN reached :
          ~NotableRaises(alerts, scores[reached[k]].best)
     /\ assessed' = scores
     /\ alerts' = alerts \o [k \in DOMAIN reached |->
                    Notable(events, alerts, RiskOf, reached[k], scores[reached[k]].items,
                            scores[reached[k]].best)]
  /\ pc' = "summarise"
  /\ UNCHANGED <<built, error, batch, events, turn, byRule, kept, archive, report>>

AssessFails ==
  /\ pc = "assess"
  /\ ~NoRiskEngine
  /\ LET scores == Assessment(events, alerts, RiskOf, Now) IN
     \E e \in Reached(scores) : NotableRaises(alerts, scores[e].best)
  /\ Fail("assess", "TypeError")

NoRisk ==
  /\ pc = "assess"
  /\ NoRiskEngine
  /\ pc' = "summarise"
  /\ UNCHANGED <<built, error, batch, events, turn, byRule, alerts, assessed, kept, archive, report>>

\* enrich_alert for every alert, the notables too.
Summarise ==
  /\ pc = "summarise"
  /\ alerts' = [a \in DOMAIN alerts |-> With(alerts[a], "enrichment", Summary(events, alerts[a]))]
  /\ pc' = IF input.scored THEN "score" ELSE "dedup"
  /\ UNCHANGED <<built, error, batch, events, turn, byRule, assessed, kept, archive, report>>

\* Alert.dedup_key
DedupKey(alert) ==
  <<alert.rule, IF alert.group = None /\ alert.events # <<>>
                THEN events[alert.events[1]].get["source.ip"] ELSE alert.group>>

\* Deduplicator.filter (module Dedup): an alert is kept unless the one before it
\* of its key is at most a window earlier.  Undated alerts come first.
Filtered ==
  LET TimeOf(a) == IF alerts[a].time = None THEN 0 ELSE alerts[a].time
      order == Sorted(DOMAIN alerts, [a \in DOMAIN alerts |-> {b \in DOMAIN alerts :
                 TimeOf(b) < TimeOf(a) \/ (TimeOf(b) = TimeOf(a) /\ b < a)}])
      Earlier(k) == {j \in 1..(k - 1) : /\ DedupKey(alerts[order[j]]) = DedupKey(alerts[order[k]])
                                        /\ alerts[order[j]].time # None}
      Repeats(k) == /\ alerts[order[k]].time # None
                    /\ \E j \in Earlier(k) :
                         alerts[order[k]].time - alerts[order[j]].time <= DefaultWindow
  IN Picked(order, {k \in DOMAIN order : ~Repeats(k)})

\* The deduplicator sorts by time, an undated alert standing at a naive epoch.
Clocks == {IF alerts[a].time = None THEN "naive" ELSE alerts[a].clock : a \in DOMAIN alerts}
SortRaises == \E c, d \in Clocks : c # d

\* A record of the store holds the events of its alert, whatever becomes of the batch.
Record(alert, shift) == [alert EXCEPT !.events = [k \in DOMAIN @ |-> @[k] + shift]]

\* JsonlSink.emit: the store after a batch of alerts is appended to it.
Emitted(store, stored) ==
  [events |-> store.events \o events,
   alerts |-> store.alerts \o [k \in DOMAIN stored |-> Record(alerts[stored[k]], Len(store.events))],
   batch |-> store.batch \o [k \in DOMAIN stored |-> batch]]

\* What is kept is appended to the store, which a fresh run resets and a run
\* with --no-store leaves alone.
Deduplicate ==
  /\ pc = "dedup"
  /\ ~SortRaises
  /\ kept' = Filtered
  /\ archive' \in {archive, Emitted(archive, kept'), Emitted(NoArchive, kept')}
  /\ pc' = "start"
  /\ UNCHANGED <<built, error, batch, events, turn, byRule, alerts, assessed, report>>

DeduplicateFails == SortRaises /\ Fail("dedup", "TypeError")

FiredIds == {alerts[a].rule : a \in DOMAIN alerts} \ {NotableId}

ScoreBatch ==
  /\ pc = "score"
  /\ report' = ScoreCase(report, Cases[batch], batch, FiredIds)
  /\ pc' = "start"
  /\ UNCHANGED <<built, error, batch, events, turn, byRule, alerts, assessed, kept, archive>>

-----------------------------------------------------------------------------

Build ==
  \/ LoadCases \/ LoadCasesFails
  \/ Load \/ LoadFails
  \/ BuildEnricher \/ BuildEnricherFails
  \/ Import \/ ImportFails
Run ==
  \/ Start \/ EnrichBatch
  \/ Evaluate \/ EvaluateFails \/ Collect
  \/ CorrelateNext \/ CorrelateFails
  \/ Behave \/ BehaveFails
  \/ Assess \/ AssessFails \/ NoRisk \/ Summarise
  \/ Deduplicate \/ DeduplicateFails \/ ScoreBatch \/ Finish
Next == Build \/ Run

Spec == Init /\ [][Next]_vars

-----------------------------------------------------------------------------
(* Correctness, against definitions that parse, sweep and sort nothing.    *)

\* Which selections hold of an event, whatever order they are looked at in.
Holding(rule, event) ==
  [n \in DOMAIN rule.selections |->
     \E k \in DOMAIN rule.selections[n].maps : \A entry \in ToSet(rule.selections[n].maps[k]) :
       \E v \in entry.values : <<event.get[entry.field], entry.modifier, v>> \in Matching]

Means(rule, event) ==
  InLogsource(rule, event) /\ Meaning(rule.condition, Holding(rule, event)) = {TRUE}

\* As many of the events as the threshold, within one window.
Clustered(S, n, window) ==
  \E C \in kSubset(n, S) : \A d, e \in C : events[d].time - events[e].time <= window

\* A selection the engine has no meaning for.
Refuses(spec) ==
  \/ spec.shape = "keywords"
  \/ \E k \in DOMAIN spec.maps : \E entry \in ToSet(spec.maps[k]) : entry.modifier \notin Modifiers

LastOfId(k, upTo) == \A j \in (k + 1)..upTo : rules[j].id # rules[k].id
Evaluated == {k \in 1..turn : pc = "rules" /\ LastOfId(k, turn)}

\* A rule fires on the events its condition, read by the grammar of the source,
\* means, and a condition that means nothing raises: the parser, the short cuts
\* of the matching and the evaluation agree with the grammar (engine.py 80-290,
\* 362-412).
FiresAsWritten ==
  /\ \A k \in Evaluated :
       LET rule == rules[k] IN
       /\ Meaning(rule.condition, [n \in DOMAIN rule.selections |-> TRUE]) # {}
       /\ rule.condition.pipe = "none" =>
            {a.events : a \in ToSet(byRule[rule.id])}
              = {<<e>> : e \in {d \in DOMAIN events : Means(rule, events[d])}}
  /\ error = <<"rules", "ValueError">> =>
       LET rule == rules[turn + 1] IN
       \/ Meaning(rule.condition, [n \in DOMAIN rule.selections |-> TRUE]) = {}
       \/ rule.timeframe = Bad
       \/ \E n \in DOMAIN rule.selections : Refuses(rule.selections[n])

\* A group of a ">=" rule fires exactly when so many of its events lie within
\* one window; no other group's events count (engine.py 414-454).
GroupsFireAlone ==
  \A k \in Evaluated :
    LET rule == rules[k]
        window == IF rule.timeframe = None THEN DefaultWindow ELSE rule.timeframe
        Group(key) == {e \in DOMAIN events : /\ Means(rule, events[e])
                                             /\ GroupKey(events[e], rule.condition) = key}
    IN (rule.condition.pipe = "count" /\ rule.condition.op = ">=") =>
         {a.group : a \in ToSet(byRule[rule.id])} =
         {key \in {GroupKey(events[e], rule.condition) : e \in DOMAIN events} :
            LET dated == DatedOf(events, Group(key)) IN
            IF dated = {} THEN Group(key) # {} /\ Cardinality(Group(key)) >= rule.condition.n
            ELSE Clustered(dated, rule.condition.n, window)}

\* An imported rule whose condition or selections end the batch.
ImportRefused ==
  error \in {<<"rules", "ValueError">>, <<"rules", "IndexError">>} /\ rules[turn + 1] \in ToSet(sigma.loaded)

\* What the analysis lets pass and the engine then refuses is a timeframe, which
\* nobody analyses, an empty modifier or a condition that is not text, which
\* nobody parses; nothing else slips through (sigma_import.py 88-193).
AnalysisIsComplete ==
  ImportRefused =>
    LET rule == rules[turn + 1] IN
    \/ rule.timeframe = Bad
    \/ rule.condition.written # "text"
    \/ \E n \in DOMAIN rule.selections : \E k \in DOMAIN rule.selections[n].maps :
         \E entry \in ToSet(rule.selections[n].maps[k]) : entry.modifier = ""

\* "imports the ones the engine can actually run" (sigma_import.py 1-9): no rule
\* the import lets through is refused by the engine.
ImportsCanRun == ~ImportRefused

\* The upstream file a rule comes from, when no other file has its id.
FileOf(rule) ==
  LET ids == [k \in DOMAIN input.sigma |-> TranslateRule(input.sigma[k]).id]
      at == {k \in DOMAIN ids : ids[k] = rule.id}
  IN IF Cardinality(at) = 1 /\ rule.id \notin {f.id : f \in ToSet(input.files)}
     THEN {input.sigma[k] : k \in at} ELSE {}

\* What an upstream file selects, read in the fields of the event schema.
SelectsUpstream(file, n, event) ==
  \E k \in DOMAIN file.selections[n].maps : \A entry \in ToSet(file.selections[n].maps[k]) :
    \E v \in entry.values : <<event.get[Mapped(FieldMap, entry.field)], entry.modifier, v>> \in Matching

\* Two entries of one map that come to stand for the same field.
Collides(file) ==
  \E n \in DOMAIN file.selections : \E k \in DOMAIN file.selections[n].maps :
    LET entries == file.selections[n].maps[k] IN
    \E i, j \in DOMAIN entries : /\ i # j
                                 /\ Mapped(FieldMap, entries[i].field) = Mapped(FieldMap, entries[j].field)
                                 /\ entries[i].modifier = entries[j].modifier

\* A category the event schema has, or the demand that there is none.
SaysCategory(file) ==
  "category" \in DOMAIN file.logsource /\ file.logsource.category \in DOMAIN CategoryMap \union {None}

\* An imported rule fires exactly where its upstream file, read in the event
\* schema, holds and in every log when the schema has no such category, unless
\* the translation makes two of its entries one (sigma_import.py 64-117, 181-193).
ImportedAsWritten ==
  \A k \in Evaluated : \A file \in FileOf(rules[k]) :
    (~Collides(file) /\ file.condition.pipe = "none") =>
      {a.events[1] : a \in ToSet(byRule[rules[k].id])} =
      {e \in DOMAIN events :
         /\ SaysCategory(file) =>
              events[e].get["event.category"] = Mapped(CategoryMap, file.logsource.category)
         /\ "service" \in DOMAIN file.logsource =>
              <<events[e].get["process.name"], file.logsource.service>> \in Prefixed
         /\ Meaning(file.condition, [n \in DOMAIN file.selections |-> SelectsUpstream(file, n, events[e])]) = {TRUE}}

\* The alerts that weigh on an entity within one window from start, and the risk
\* it collects from them.  undated is when an alert without a time counts.
InWindow(evs, als, undated, start, entity) ==
  {a \in DOMAIN als :
     LET at == IF als[a].time = None THEN undated ELSE als[a].time IN
     /\ at >= start /\ at <= start + RiskOf.window
     /\ Contributes(RiskOf.overrides, als[a])
     /\ entity[2] \in EntityValues(evs, als[a], entity[1])}

RiskFrom(evs, als, undated, start, entity) ==
  LET inSpan == InWindow(evs, als, undated, start, entity)
      Part(a) == Score(RiskOf.overrides, als[a])
                   \div Cardinality(EntityValues(evs, als[a], entity[1]))
  IN Total([a \in inSpan |-> IF Part(a) = 0 THEN 1 ELSE Part(a)], inSpan)

\* The risk engine's alerts, unless a file has taken its id.
Notables == {a \in ToSet(alerts) : a.rule = NotableId}
Starts(als, undated) == {undated} \union {als[a].time : a \in {b \in DOMAIN als : als[b].time # None}}

\* The values the risk fields of the alerts' events hold.
Observed == UNION {EntityValues(events, a, f) : a \in ToSet(alerts), f \in RiskObjects}

\* There is a notable for a value exactly when some entity of that value collects
\* the threshold within some window: the sliding sum misses none and mixes none,
\* for a threshold above zero (risk/engine.py 155-183, 226-249).
NotableIsBestWindow ==
  (pc = "dedup" /\ ~NoRiskEngine /\ RiskOf.threshold > 0 /\ NotableId \notin Ids) =>
    {a.group : a \in Notables} =
    {v \in Observed : \E f \in RiskObjects, start \in Starts(alerts, Now) :
       RiskFrom(events, alerts, Now, start, <<f, v>>) >= RiskOf.threshold}

\* "The combined events are evaluated by every rule, and the resulting alerts are
\* deduplicated" (core/replay.py 129-131): what the rules raise over the files of
\* one replay gets through the risk engine and the deduplicator.
CombinedFilesDeduplicate == pc = "failed" => error[1] \notin {"assess", "dedup"}

\* Some record is a notable of the value.
Noted(value) == \E a \in ToSet(archive.alerts) : a.rule = NotableId /\ a.group = value

\* Records of more than one batch.
Mixed(lines) == \E j, k \in lines : archive.batch[j] # archive.batch[k]

\* An entity that the dashboard's leaderboard marks, over all that was ever stored,
\* did collect the threshold within one window; and when one batch alone brought
\* it there, its notable is in the store, whatever the deduplication merged.  Only
\* an entity that takes several batches is marked without one (risk/engine.py
\* 155-222, dashboard/app.py 87-94, 178-191).  Alerts without a time stand at the
\* epoch there, so that no other may be near it.
BoardWithinNotables ==
  (/\ pc = "start" /\ ~NoRiskEngine /\ NotableId \notin Ids
   /\ \A a \in ToSet(archive.alerts) : a.time = None \/ a.time > RiskOf.window) =>
    \A row \in Leaderboard(archive.events, archive.alerts, RiskOf) : row.over =>
      \E start \in Starts(archive.alerts, 0) :
        /\ RiskFrom(archive.events, archive.alerts, 0, start, row.entity) >= RiskOf.threshold
        /\ \/ Noted(row.entity[2])
           \/ Mixed(InWindow(archive.events, archive.alerts, 0, start, row.entity))

\* Where a logged event comes from: the first of the most specific networks that
\* hold a public address, or else what the log says.
Located(event) ==
  LET table == input.context.geoip
      ip == event.get["source.ip"]
      rows == {k \in IF input.context.enabled THEN Rows(table) ELSE {} :
                 ip \in Addresses \ Private /\ ip \in table[k].net}
  IN {table[k].country : k \in {x \in rows : \A y \in rows \ {x} :
        table[y].prefix < table[x].prefix \/ (table[y].prefix = table[x].prefix /\ x < y)}}
     \union IF rows = {} THEN {event.get["source.geo.country_iso_code"]} ELSE {}

\* Looking at consecutive logins loses no journey, and the table that says where
\* an address is may nest its networks: a user alerts exactly when any two
\* logins within the timespan are from different countries (behavioral.py 47-66,
\* geoip.py 91-104, enricher.py 91-116).
TravelAnyPair ==
  (pc = "assess" /\ TravelId \notin Ids) =>
    LET logged == Cases[batch].events IN
    {a.group : a \in {x \in ToSet(alerts) : x.rule = TravelId}} =
    {logged[d].get["user.name"] : d \in {x \in DOMAIN logged : \E e \in DOMAIN logged :
       /\ \A y \in {x, e} : /\ logged[y].get["event.outcome"] = "success"
                             /\ logged[y].time # None
                             /\ Located(logged[y]) \intersect Falsy = {}
       /\ logged[x].get["user.name"] = logged[e].get["user.name"]
       /\ logged[x].get["user.name"] \notin Falsy
       /\ logged[e].time - logged[x].time \in 0..TravelSpan
       /\ Located(logged[x]) # Located(logged[e])}}

\* Whatever raises an alert is scored and stands in the coverage rollup: no
\* import, correlation or detector fires outside of them (pipeline.py 112-120,
\* evaluate.py 176-180, coverage.py 45-85).
AllThatFiresCounts ==
  pc = "score" =>
    LET covered == Coverage(Tagged(ToSet(rules))) IN
    /\ FiredIds \subseteq DOMAIN report.tp
    /\ FiredIds \subseteq covered.untagged \union
                           UNION {covered.techniques[t] : t \in DOMAIN covered.techniques}

\* What a correlation silences and nothing else raises under the same id.
Silenced == Suppressed \ ({c.id : c \in ToSet(correlations)} \union {TravelId})

\* When the gate opens, no attack case expected a rule that a correlation
\* silences, every false positive is an attack case's, and a rule that never
\* fired is a silenced one or listed as untested (evaluate.py 185-218,
\* cli/main.py 415).
GateMeansClean ==
  (pc = "done" /\ input.scored /\ GateOpens(report)) =>
    /\ \A k \in DOMAIN Cases : Cases[k].expects \intersect Silenced = {}
    /\ \A r \in DOMAIN report.fp : report.fp[r] <= report.attacks /\ report.fn[r] = 0
    /\ \A r \in DOMAIN report.tp :
         report.tp[r] + report.fp[r] = 0 => r \in Suppressed \union report.untested

=============================================================================
