------------------------------- MODULE Rules -------------------------------
(***************************************************************************)
(* Detection rules: what the loaders accept (minisoc/detections/loader.py, *)
(* sigma_import.py) and what a rule fires on (engine.py, _match_selection, *)
(* evaluate_rule).                                                         *)
(*                                                                         *)
(* Field values, field names and selection names are members of small      *)
(* sets; which value matches which pattern is the constant Matching.  A    *)
(* rule id is a number, its place in the order of the strings.  An event   *)
(* is a record [get, time, clock]: get maps every field to a value or None *)
(* and clock is "aware" where the timestamp carries a UTC offset and       *)
(* "naive" where it does not.  Alerts name events by their position among  *)
(* the events of the run.                                                  *)
(***************************************************************************)
EXTENDS Conditions, SequencesExt, FiniteSetsExt

CONSTANTS
  None,          \* an absent field, key, timestamp or group
  Bad,           \* a window string that parse_window_seconds refuses
  Matching,      \* the triples <<value, modifier, pattern>> that match
  Prefixed,      \* the pairs <<process name or None, service>> that match, case by case
  Modifiers,     \* the field modifiers of the engine, and None for no modifier
  FieldMap,      \* upstream field name -> field of the event schema
  CategoryMap,   \* upstream logsource category -> event.category
  DefaultWindow  \* the alert window of the configuration, in seconds

ASSUME MatchingAssumption == \A match \in Matching : match[1] # None
ASSUME CategoryAssumption ==
  \A category \in DOMAIN CategoryMap : category # None /\ CategoryMap[category] # None
ASSUME NoneAssumption == None \notin Int /\ Bad \notin Int
ASSUME WindowAssumption == DefaultWindow \in Nat

\* What a list of the program is here.
IsList(s) == Len(s) \in Nat /\ s = [k \in 1..Len(s) |-> s[k]]

\* The elements of a set in a total order: earlier[x] are those before x.
Sorted(S, earlier) ==
  [k \in 1..Cardinality(S) |-> CHOOSE x \in S : Cardinality(earlier[x]) = k - 1]
Ascending(S) == Sorted(S, [x \in S |-> {y \in S : y < x}])

\* The elements of a sequence at some of its positions, in their order.
Picked(seq, at) == [k \in DOMAIN Ascending(at) |-> seq[Ascending(at)[k]]]

Mapped(map, key) == IF key \in DOMAIN map THEN map[key] ELSE key

\* A function with one more key, or another value for one.
With(f, key, value) == [k \in DOMAIN f \union {key} |-> IF k = key THEN value ELSE f[k]]

\* The first element of a sequence that is in S, or default.
FirstIn(seq, S, default) ==
  LET hits == {k \in DOMAIN seq : seq[k] \in S} IN IF hits = {} THEN default ELSE seq[Min(hits)]

-----------------------------------------------------------------------------
(* Matching.  A selection is a list of maps, a mapping being a list of one *)
(* (shape "map"); a map is the sequence of its entries [field, modifier,   *)
(* values].  Shape "keywords" is a list of plain values.                   *)

\* _match_scalar and the loop over expected values of _match_field
FieldResult(event, entry) ==
  IF entry.modifier \notin Modifiers THEN "ValueError"
  ELSE IF \E v \in entry.values : <<event.get[entry.field], entry.modifier, v>> \in Matching
  THEN "match" ELSE "miss"

\* all(...): the first entry that does not match decides.
MapResult(event, entries) ==
  FirstIn([k \in DOMAIN entries |-> FieldResult(event, entries[k])], {"miss", "ValueError"}, "match")

\* _match_selection: any(...) over a list of maps.
SelectionResult(event, spec) ==
  IF spec.shape = "keywords" THEN "ValueError"
  ELSE FirstIn([k \in DOMAIN spec.maps |-> MapResult(event, spec.maps[k])], {"match", "ValueError"}, "miss")

\* _logsource_matches: a key of the block counts even when its value is null.
InCategory(rule, event) ==
  "category" \in DOMAIN rule.logsource => event.get["event.category"] = rule.logsource.category

InLogsource(rule, event) ==
  /\ InCategory(rule, event)
  /\ "service" \in DOMAIN rule.logsource =>
       <<event.get["process.name"], rule.logsource.service>> \in Prefixed

\* startswith refuses a service that is no string.
LogsourceRaises(rule, event) ==
  InCategory(rule, event) /\ "service" \in DOMAIN rule.logsource /\ rule.logsource.service = None

Results(rule, event) ==
  [n \in DOMAIN rule.selections |-> SelectionResult(event, rule.selections[n]) = "match"]

-----------------------------------------------------------------------------
(* DetectionEngine.evaluate_rule                                           *)

Compare(cond, count) ==
  \/ cond.op = ">=" /\ count >= cond.n
  \/ cond.op = ">"  /\ count > cond.n
  \/ cond.op = "==" /\ count = cond.n
  \/ cond.op = "<=" /\ count <= cond.n
  \/ cond.op = "<"  /\ count < cond.n

\* Python refuses to order a naive and an aware timestamp.
MixedClocks(events, S) == \E d, e \in S : events[d].clock # events[e].clock

DatedOf(events, S) == {e \in S : events[e].time # None}
EarlierOf(events, d, e) ==
  events[d].time < events[e].time \/ (events[d].time = events[e].time /\ d < e)
InTimeOrder(events, S) == Sorted(S, [e \in S |-> {d \in S : EarlierOf(events, d, e)}])

\* MUTANT of FirstCrossing: the window starts at the first event and stays there.
FirstCrossingFixed(events, S, cond, window) ==
  LET timed == InTimeOrder(events, DatedOf(events, S))
      within == {e \in DOMAIN timed : events[timed[e]].time - events[timed[1]].time <= window}
  IN IF timed = <<>> THEN IF Compare(cond, Cardinality(S)) THEN Ascending(S) ELSE <<>>
     ELSE IF Compare(cond, Cardinality(within)) THEN SubSeq(timed, 1, Cardinality(within)) ELSE <<>>

\* _first_window_crossing: the first window, by its last event, whose count
\* satisfies the comparison (its sweep is module Aggregation); <<>> for None.
FirstCrossing(events, S, cond, window) ==
  LET timed == InTimeOrder(events, DatedOf(events, S))
      WindowTo(e) == {k \in 1..e : events[timed[e]].time - events[timed[k]].time <= window}
      crossings == {e \in DOMAIN timed : Compare(cond, Cardinality(WindowTo(e)))}
  IN IF timed = <<>> THEN IF Compare(cond, Cardinality(S)) THEN Ascending(S) ELSE <<>>
     ELSE IF crossings = {} THEN <<>>
     ELSE SubSeq(timed, Min(WindowTo(Min(crossings))), Min(crossings))

\* _make_alert of the engine
MakeAlert(events, rule, evidence, group) ==
  LET times == {events[e].time : e \in DatedOf(events, ToSet(evidence))} IN
  [rule |-> rule.id, level |-> rule.level, events |-> evidence, group |-> group,
   time |-> IF times = {} THEN None ELSE Max(times),
   clock |-> IF times = {} THEN None ELSE events[CHOOSE e \in DatedOf(events, ToSet(evidence)) : TRUE].clock]

Fired(alerts) == [err |-> "none", alerts |-> alerts]
Raised(err) == [err |-> err, alerts |-> <<>>]

GroupKey(event, cond) == IF cond.by = None THEN None ELSE event.get[cond.by]

WindowOf(rule) == IF rule.timeframe = None THEN DefaultWindow ELSE rule.timeframe

\* _evaluate_aggregation: groups in the order they first appear.
EvaluateAggregation(events, rule, matching) ==
  LET cond == rule.condition
      window == WindowOf(rule)
      Members(e) == {d \in matching : GroupKey(events[d], cond) = GroupKey(events[e], cond)}
      crossing == Ascending({e \in matching : /\ e = Min(Members(e))
                                              /\ FirstCrossing(events, Members(e), cond, window) # <<>>})
  IN IF window = Bad THEN Raised("ValueError")
     ELSE IF \E e \in matching : MixedClocks(events, DatedOf(events, Members(e)))
     THEN Raised("TypeError")
     ELSE Fired([k \in DOMAIN crossing |->
                   MakeAlert(events, rule, FirstCrossing(events, Members(crossing[k]), cond, window),
                             GroupKey(events[crossing[k]], cond))])

\* evaluate_rule: the condition is parsed even when there is no event; a
\* selection is evaluated for every event of the logsource.
EvaluateRule(rule, events) ==
  LET err == ParseCondition(rule.condition)
      inScope == {e \in DOMAIN events : InLogsource(rule, events[e])}
      matching == {e \in inScope : Holds(rule.condition, Results(rule, events[e]))}
  IN IF err # "none" THEN Raised(err)
     ELSE IF \E e \in DOMAIN events : LogsourceRaises(rule, events[e]) THEN Raised("TypeError")
     ELSE IF \E e \in inScope, n \in DOMAIN rule.selections :
                SelectionResult(events[e], rule.selections[n]) = "ValueError"
     THEN Raised("ValueError")
     ELSE IF matching # {} /\ rule.condition.pipe = "count"
     THEN EvaluateAggregation(events, rule, matching)
     ELSE Fired([k \in DOMAIN Ascending(matching) |->
                   MakeAlert(events, rule, <<Ascending(matching)[k]>>, None)])

-----------------------------------------------------------------------------
(* loader.py.  A file is the record its YAML holds; kind "correlation" has *)
(* a correlation block and kind "other" neither a usable detection block.  *)
(* A condition is None when the key is absent; it is written as text, as a *)
(* list or as something other (a number, null), its tokens are those of    *)
(* str(condition), and falsy says what Python takes it for.                *)

ValidDetection(file) ==
  /\ file.kind = "rule"
  /\ file.condition # None /\ ~file.condition.falsy
  /\ DOMAIN file.selections # {}

ValidCorrelation(file) ==
  /\ file.type \in {"temporal", "temporal_ordered"}
  /\ Len(file.rules) >= 2
  /\ file.timespan # None

\* load_rule
LoadsRule(file) ==
  /\ file.id # None
  /\ file.titled
  /\ IF file.kind = "correlation" THEN ValidCorrelation(file) ELSE ValidDetection(file)

IsRule(rule) == rule.kind = "rule"
IsCorrelation(rule) == rule.kind = "correlation"

\* load_rules: every file is valid and every correlation references rules.
LoadsRules(files) ==
  /\ \A k \in DOMAIN files : LoadsRule(files[k])
  /\ \A k \in DOMAIN files : IsCorrelation(files[k]) =>
       ToSet(files[k].rules) \subseteq {r.id : r \in {f \in ToSet(files) : IsRule(f)}}

\* sorted(rules, key=id), which is stable.
SortedById(files) ==
  LET order == Sorted(DOMAIN files, [k \in DOMAIN files |-> {j \in DOMAIN files :
                 files[j].id < files[k].id \/ (files[j].id = files[k].id /\ j < k)}])
  IN [k \in DOMAIN order |-> files[order[k]]]

-----------------------------------------------------------------------------
(* sigma_import.py                                                         *)

When(holds, reason) == IF holds THEN {reason} ELSE {}

\* MUTANT of SelectionReasons: modifiers are not looked at.
SelectionReasonsNull(spec) ==
  IF spec.shape = "keywords" THEN {"keywords"}
  ELSE LET entries == UNION {ToSet(spec.maps[k]) : k \in DOMAIN spec.maps} IN
       When(\E f \in entries : f.values = {None}, "null")

\* The reasons of _check_selection; an empty modifier ("Field|") is let through.
SelectionReasons(spec) ==
  IF spec.shape = "keywords" THEN {"keywords"}
  ELSE LET entries == UNION {ToSet(spec.maps[k]) : k \in DOMAIN spec.maps} IN
       When(\E f \in entries : f.modifier \notin Modifiers \union {""}, "modifier") \union
       When(\E f \in entries : f.values = {None}, "null")

\* translated[...] = value: two fields of one target leave one entry, at the
\* place of the first with the values of the last.
TranslateMap(entries) ==
  LET key(k) == <<Mapped(FieldMap, entries[k].field), entries[k].modifier>>
      kept == Ascending({k \in DOMAIN entries : \A j \in 1..(k - 1) : key(j) # key(k)})
      last(k) == Max({j \in DOMAIN entries : key(j) = key(k)})
  IN [i \in DOMAIN kept |-> [entries[last(kept[i])] EXCEPT !.field = Mapped(FieldMap, @)]]

TranslateSelection(spec) == [spec EXCEPT !.maps = [k \in DOMAIN @ |-> TranslateMap(@[k])]]

\* MUTANT of TranslateLogsource: an unknown category stays.
TranslateLogsourceKept(logsource) ==
  [key \in DOMAIN logsource |->
     IF key = "category" THEN Mapped(CategoryMap, logsource[key]) ELSE logsource[key]]

\* _translate_logsource: a category the schema does not have is dropped, null is not.
UnknownCategory(logsource) ==
  "category" \in DOMAIN logsource /\ logsource.category \notin DOMAIN CategoryMap \union {None}

TranslateLogsource(logsource) ==
  [key \in {k \in DOMAIN logsource : k = "category" => ~UnknownCategory(logsource)} |->
     IF key = "category" THEN Mapped(CategoryMap, logsource[key]) ELSE logsource[key]]

\* analyze_rule: the reasons to skip a file, or the exception that only a
\* truncated quantifier raises (ValueError is caught, IndexError is not).  Only a
\* condition that is text is parsed; what is neither text nor a list passes.
Unusable(file) == file.kind # "rule" \/ file.condition = None

Reasons(file) ==
  When(~file.titled, "title") \union
  IF Unusable(file) THEN {"condition"}
  ELSE (UNION {SelectionReasons(file.selections[n]) : n \in DOMAIN file.selections}) \union
       When(DOMAIN file.selections = {}, "selections") \union
       When(file.condition.written = "list", "multi-condition") \union
       When(file.condition.written = "text" /\ ParseCondition(file.condition) = "ValueError", "grammar")

AnalysisRaises(file) ==
  ~Unusable(file) /\ file.condition.written = "text" /\ ParseCondition(file.condition) = "IndexError"

TranslateRule(file) ==
  [file EXCEPT !.id = IF @ = None THEN file.stem ELSE @,
               !.logsource = TranslateLogsource(@),
               !.selections = [n \in DOMAIN @ |-> TranslateSelection(@[n])],
               !.risk = None]

\* import_sigma_dir, when no analysis raises
ImportReport(files) ==
  LET usable == {k \in DOMAIN files : Reasons(files[k]) = {}} IN
  [loaded |-> [k \in DOMAIN Ascending(usable) |-> TranslateRule(files[Ascending(usable)[k]])],
   skipped |-> Picked(files, DOMAIN files \ usable)]

=============================================================================
