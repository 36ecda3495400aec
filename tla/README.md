# A formal model of minisoc

minisoc is a small security operations centre: it parses log files into
events, runs detection rules over them, deduplicates and stores the alerts,
and lets analysts triage them.  This directory holds TLA+ models of the parts
whose correctness depends on order, time and concurrency, TLC configurations
that check them on small instances, and proofs checked by TLAPS.

`PROJECT.json` is the index: components, runs, the source lines behind every
definition, hazards, findings and theorems.

## The system

| Component | State | Operations | Talks to |
|---|---|---|---|
| File tailer (`core/live.py`, `FileTail`) | offset, partial line, inode | start at the end or the beginning, `read_new` | the log file, which a service appends to and logrotate renames, truncates or removes |
| Live monitor (`core/live.py`, `LiveMonitor`) | rolling buffer of events, table of emitted alerts | `poll_once`, `run` | tails, pipeline, deduplicator, sinks |
| Parsers (`parsers/`) | none | line to event; the time may be missing, and is aware or naive depending on the parser | pipeline |
| Pipeline (`core/pipeline.py`) | rules, suppressed rule ids | `parse_lines`, `run_events`: enrich, rules, correlations, behavioral detectors, risk | all of detection |
| Detection engine (`detections/engine.py`) | none | selections and conditions, windowed thresholds (`_first_window_crossing`) | pipeline |
| Correlator (`detections/correlation.py`) | none | ordered and unordered chains over the alerts of base rules | pipeline |
| Behavioral detector (`detections/behavioral.py`) | none | impossible travel | pipeline |
| Risk engine (`risk/engine.py`) | none | score per entity in a sliding window, notables, leaderboard | pipeline, dashboard |
| Enrichment (`enrichment/`) | lookup tables | annotates events and alerts in place | pipeline |
| Deduplicator (`alerting/dedup.py`) | per call: representative and last time per key | `filter` | live monitor, scenario runner, replay |
| Sinks (`alerting/sinks.py`, `notify.py`) | the JSONL alert file | append, reset, read | live monitor, scenario runner, triage store, dashboard |
| Triage store (`triage/store.py`) | SQLite tables alerts, notes, incidents | sync from the alert file, set status, note, group, queries | dashboard, command line |
| Dashboard (`dashboard/app.py`) | one pipeline, one store object | HTTP routes on a thread pool; the triage routes sync before they work | store, alert file, scenario runner |
| Scenario runner, replay (`core/runner.py`, `core/replay.py`) | a generated log per source | generate, parse, detect, store | pipeline, sinks |
| Loader, Sigma import (`detections/loader.py`, `sigma_import.py`) | none | rule files and upstream rules to rules, or the reasons why not | pipeline |
| Efficacy (`efficacy/`) | the report | labelled cases through the pipeline, counters per rule, the gate of a CI job | pipeline, command line |
| Configuration, scenarios | read-only | | |

What is hard about it:

* **Concurrency.** A tailer reads a path in three system calls while the
  service writes and logrotate moves files.  The monitor reads its logs one
  after the other.  Dashboard requests and commands sync the same SQLite file
  statement by statement.
* **Time.** Windows are inclusive at both ends, slide, and are measured with
  the times of the *log*, which may be missing, late, or of another time zone
  kind; undated alerts are stamped with the wall clock.
* **Memory.** Live mode evaluates a buffer that forgets (horizon, size cap)
  and suppresses what it emitted: together they must neither repeat an alert
  nor hide an attack.
* **Composition.** Enrichment, rules, correlations, detectors, risk and
  deduplication each change what the next one sees; one exception loses the
  batch, or the pipeline before there is one.
* **Failure.** Processes killed in the middle of a buffered line, a store that
  is unlinked while others append to it, rotation inside a poll, exceptions that end the watch, crashed
  syncs, an `IntegrityError` that answers an analyst's request with a 500.

What makes each component correct:

* tailer: every complete line exactly once, in order, eventually; no torn
  line; survives rotation.
* engine: fires exactly when the rule's window is crossed, with the right
  evidence; never overruns its list.
* deduplicator: keeps exactly the alerts that open a burst, and each kept alert
  stands for its burst.
* monitor: no repeat within the dedup window, no blind spot beyond it, the
  same alerts whatever the moments of the polls.
* store: no sync undoes an analyst's work; a sync that returns is complete.
* correlator, risk, behavioral: find what a definition without pointers says.
* conditions, imports: a rule fires on what its text means, and an imported one
  on what its upstream text means.
* sinks and runs: a run alone stores its own alerts and nothing else, a torn
  line costs one more at most, nobody is notified of what was not stored.
* efficacy: an open gate means that every expectation was met.

## The modules

| Module | Models | Checked by | Proofs |
|---|---|---|---|
| `FileTail` | the tailer and its environment | `tail`, `half_line` | `FileTail_proofs` |
| `Aggregation` | the two-pointer sweep of threshold rules | `windows` | `Windows_proofs` |
| `Dedup` | `Deduplicator.filter` | `windows` | `Windows_proofs` |
| `LiveMonitor` | polls, buffer, trim, rules, suppression | `live`, `live_example`, `live_chain` | `LiveMonitor_proofs` |
| `Correlation` | the two chain searches of `Correlator.evaluate`, step by step | `windows` | `Windows_proofs` |
| `TriageBoard` | what the triage store promises | `triage`, as `KeepsBoard` | `TriageStore_proofs` |
| `TriageStore` | the store under concurrent requests | `triage`, `triage_mttr` | `TriageStore_proofs` |
| `Conditions` | the condition parser and evaluator, and the grammar they are held against | `detection` | `Conditions_proofs` |
| `Rules` | selections, thresholds, alerts; the loader; the Sigma import | `detection`, `detection_imports` | `Detection_proofs` |
| `Correlator` | a whole correlation: groups, chain, alert | `detection` | `Detection_proofs` |
| `Behavioral` | impossible travel | `detection` | `Detection_proofs` |
| `Enrichment` | the lookup tables, stamps on events, summaries | `detection` | `Detection_proofs` |
| `Risk` | scores, windows, notables, the leaderboard | `detection` | `Detection_proofs` |
| `Efficacy` | cases, the report, the gate, the coverage rollup | `detection` | `Detection_proofs` |
| `Detection` | composes the seven above: the construction of a pipeline, its runs and the store they append to | `detection`, `detection_imports`, `replay_clocks` | `Detection_proofs` |
| `Service` | scenario runs, a watch, the alert store and the notifiers as processes | `service` | `Service_proofs` |
| `Filtering` | the list comprehension `[x for x in s if x in A]`, as a fold | the runs of its users | `Inductions` |
| `Inductions` | no code: the lemmas about sequences, finite sets and folds that the proofs share | | |

`MC<Module>` gives the constants of `<Module>` for TLC; `MCWindows` those of
`Aggregation`, `Dedup` and `Correlation`, whose functions one run checks: each behaviour
calls the three after one another, one of them with any input within the bounds and the
other two with the smallest one.

### FileTail

A line is two *pieces*, 2l-1 and 2l, the second with the newline; a file is a
sequence of pieces, and an offset counts them.  This is the least that tells a
half-written line from a whole one.  Files are inodes; `path` is the inode
linked under the watched path.  `read_new` is cut where another process can
act: `PollExists` (72-73), `PollStat` (74-82), `PollRead` (83-90) and
`PollRaises`, the `FileNotFoundError` of `stat` or `open`.  So is `__init__`:
`Construct` (61, `exists`), `ConstructStat` (62-64) and `ConstructRaises`, the
`FileNotFoundError` of a file that goes away in between.  The environment
appends, creates, reopens, renames, unlinks, truncates.

No tailer that knows only a path, a size and an inode can be right about
everything, so the model records in `happened` what it cannot know
(truncation, a swap inside `__init__` or inside a poll, a reused inode number, a
start in the middle of a line) and each property says which of these it
excludes.  Renames and removals between polls are never excluded.

* `WholeLines` — the parsers get whole lines; partial lines wait, and a
  rotation never glues two files together.
* `InOrderOnce` — nothing twice or out of order, truncation included.
* `NoneSkipped` — what lies before the offset was handed over, waits, or was
  skipped at the start.
* `DiesOnlyMidCall` — only a file that vanishes inside `__init__` or inside a
  poll ends the watch.
* `EventuallyHanded` — a line that stays in the file is read.
* `NoHalfLine` (violated, `half_line`) — the docstring's promise without a
  condition.

### Aggregation

One iteration of a loop is one step; the sort is one step, given by what a
stable sort returns.  `WindowOf` and `Crosses` define a crossing without
pointers.

* `NoOverrun` — no index leaves the list.
* `FiresIffCrossing`, `EvidenceIsFirstWindow` — the sweep returns the earliest
  crossing window, complete, and only then.
* `ThresholdMeaning` — for `>`, `>=`, `==` the rule fires exactly when enough
  events lie within one window of each other.
* `Terminates` — under weak fairness of `Next`: the sweep is a function call.

### Dedup

One step handles one alert.  `Opens` and `Burst` define bursts by the alerts
alone.

* `KeptExactly` — exactly the alerts that open a burst are kept; that they are
  in order and more than a window apart (`KeptApart`) is proved beside it.
* `BurstsSummed` — each kept alert counts its whole burst and the last time of
  it.
* `RepresentativeKnown` — a key that was seen has a dated
  representative, so that the look-up never fails.

### LiveMonitor

An event is a record of its log, kind, group and time, with a number in the
order of writing so that no two are equal.  Reading one tail is one action, so that services write between
two reads; the rest of a poll touches only the monitor's own state and is one
action (`Evaluate`), or the `TypeError` that ends the run (`EvaluateRaises`).
`FileTail` and the sweep appear here by what they were shown to do: a tail
hands over what was written, a threshold rule fires at the first crossing
(`FiresIffCrossing`, `EvidenceIsFirstWindow`), the deduplicator keeps what
opens a burst (`KeptExactly`).  Of the behavioral detector there is only what its
timespan adds to the horizon (`BehavioralSpan`, live.py 147-148).

* `SpacedRepeats` — two emissions of one key are more than the window apart.
* `LiveMatchesReplay` — as long as nothing is older than the horizon and lines
  come dated and in order, the alerts are those of a replay.
* `NoBlindSpot` — a crossing that ends within a dedup window of the newest
  event was alerted for, at most a horizon and a dedup window earlier, whatever
  the order of the logs.
* `InFlightKept` (violated, `live_chain`) — a login that completes a chain
  raises it.  It fails when the dedup window is smaller than a rule's window and
  no detector's timespan makes up for it.
* `SurvivesOneClock` — what can end a watch; `RunsContinuously` (violated,
  `live_example`) is what the configuration's example promises.

### Correlation

One iteration of a loop is one step.  The searches of different groups share
nothing, so the model has one group, and alerts that carry its key or lack a
group-by field.  A rule id is a number because the merged sort of the unordered
search breaks ties by it; a correlation lists no rule twice (a rule listed twice
can never satisfy the unordered search, and nothing says what it should mean).
`Chains` defines what a correlation asks for without searching.

* `OrderedFires` — the greedy search, which never goes back, finds a chain
  whenever there is one.
* `UnorderedFires` — the counts at the two ends of the window are right.
* `EarliestChain` — the evidence is such a chain and none is complete before it.

### TriageStore

A request syncs and then does what the analyst asked.  The steps are the
statements that other connections can see: reading the file, taking the time,
`SELECT`, `INSERT` or `UPDATE` with its commit, the operation; grouping is two
transactions.  History variables record what analysts did last.

* `KeepsBoard` — the store implements `TriageBoard`: a set of cards to which
  detection adds new ones, and which nothing changes but analysts, each request
  in one step and once (grouping in two, as in the code).  The refinement
  mapping `Cards` reads the cards off the two tables; a sync's `UPDATE` is a
  stutter and its `INSERT` is `File`.
* `SyncComplete` — a sync that returns has stored every alert it read.
* `LatestWins` — without a race, the file's last record of an alert is stored.
* `TriageKept`, `FailsOnlyWhenRaced` — no sync undoes what analysts
  decided; the `IntegrityError` needs another sync in between.
* `UpdatedWhenClosed` (violated, `triage_mttr`) — what `metrics` assumes.

### Detection and the modules it composes

One behaviour builds a pipeline from an input and runs every batch of the
input through it: load, import, then per batch enrich, rule after rule, collect
what is not silenced, correlation after correlation, detectors, risk,
summaries, deduplication or scoring.  Every stage has an action for the
exception that ends it; `error` says which one.  What the deduplicator keeps goes to
`archive`, the append-only store, which a run may reset first or leave alone; a
record of it holds the events of its alert, as in the file.  The stages themselves are
operators (`Conditions`, `Rules`, ...), translated function by function; loops
that only compute a value are written as what they return, and those whose
steps matter have modules of their own (`Aggregation`, `Correlation`, `Dedup`).
A rule id is a number, its place in the order of the ids; field values and
patterns are atoms and the constant `Matching` says which value matches which
pattern under which modifier; a network is the set of its addresses.

A parse is a function from the parser's calls, `<<method, position>>`, to what
they return, given by one equation over calls further right or lower in the
grammar; an evaluation is one over the nodes of the parse.  Sorts and windows
are sets with the order that Python's stable sort gives them.

* `FiresAsWritten` — the parser and evaluator against the grammar written at
  engine.py 131-139, which `ReadingsOf` and `Meaning` read over spans of tokens
  without a parser: a condition that means something is evaluated to it and any
  other raises.
* `GroupsFireAlone` — a threshold fires for exactly the groups with enough
  events in one window, the group of events that lack the field included.
* `AnalysisIsComplete` — a rule the import lets through is never refused by the
  engine later, but for a timeframe, which the import does not look at, an empty
  modifier (`Field|`), which it takes for none, and a condition that is not text,
  which it imports without parsing it.
* `ImportsCanRun` (violated, `detection_imports`) — the promise of the import's
  docstring, without these exceptions.
* `ImportedAsWritten` — an imported rule fires where its upstream text holds,
  read in this program's fields; files in which two upstream fields become one
  (sigma_import.py 116) are excluded, and do fire too often.  A category the
  schema does not have is dropped, and `category: null` asks for events without
  one.
* `TravelAnyPair` — comparing neighbours finds every pair of logins.
* `NotableIsBestWindow` — a notable for exactly the values that collect the
  threshold within some window, counted as a set: for a threshold above zero,
  and as long as no rule file takes the engine's own id, `notable`.
* `BoardWithinNotables` — an entity the leaderboard marks, over the whole store,
  did collect the threshold within one window of stored alerts, and its notable is
  in the store unless alerts of several batches had to come together for it: every
  batch is assessed by itself, so that two of them below the threshold can mark an
  entity no notable names.  The converse fails: merged alerts count once.  An
  alert without a time stands at the clock in one and at the epoch in the other, so
  that the property asks for alerts dated later than one window after it.
* `CombinedFilesDeduplicate` (violated, `replay_clocks`) — the alerts over the
  files of one replay get through the risk engine and the deduplicator.
* `AllThatFiresCounts`, `GateMeansClean` — the report counts all that can fire;
  when the gate opens, which takes a case, no case expects a silenced rule, and a rule that never
  fired is silenced or listed as untested.

### Service

Runs of scenarios (commands or dashboard requests) and one watch share the
alert store; runs of one source share the generated log.  A line of the store
is three pieces, its text in two parts and the line break, and a handle buffers
two pieces, so that a buffer ends inside a text and between a text and its line
break.  Files are numbered: `path` names one of them or none, and an unlinked
one goes on existing for whoever has it open.  Whether a run resets the store is
the caller's choice, taken in `Parse`.  A process may be killed in any step; the
watch may be started again, with `--from-start` or without.

A line of the watched log belongs to a pattern, and a pattern takes `Enough`
lines.  The watch alerts on what is complete among the lines this life of it has
read (`since`, `seen`); the buffer dies with it, so that a pattern in flight
across a restart at the end of the log is not seen.

Stored means *read back*: `ReadBack` is what `read_jsonl` finds at the path of the
store, which skips lines that are no JSON text and never sees an unlinked file.
`removed` records the alerts a fresh run took away, those on their way to the
unlinked file included; a later append to the file at the path takes them out again.

* `RunsAsAlone` — as long as no other run of its source is between writing and
  parsing, a run stores the alerts of its own scenario only; a run during which
  nothing else is busy does not fail and leaves exactly the store it should.
* `CrashCostsOneMore` — as long as no two processes have a file open at once, a
  process killed inside a line makes at most one later line unreadable.
* `NotifiedIsStored` — who is notified of an alert reads it back, unless a fresh
  run removed it; as long as no two processes have a file open at once, a kill
  costs one such alert at most: the line behind a torn one is appended and its
  alert notified, and no reader understands it.
* `EventuallyStored` — a pattern all of whose lines are in the watched log can be
  read from the store some time or was removed by a fresh run; or the watch is dead
  or was started again too late to read enough of it.  After a kill, or where two
  processes write, its line may be there and unreadable.

## Runs and bounds

| Run | Bounds | Why they are enough |
|---|---|---|
| `tail` | 3 lines, 2 rotations, 3 inodes, one line with a split character, both values of `from_start`, all faults | a line before, across and after a rotation; two rotations give every pair of faults and a third inode beside the renamed one |
| `half_line` | starts at the end, only the fault "mid_line" | isolates the divergence |
| `windows` | `Aggregation`: groups of 1-4 events, times 0-4 or none, all operators, n in 0-3, windows 0 and 2. `Dedup`: batches of 1-4 alerts, 2 keys, times 0-5 or none, window 2. `Correlation`: up to 4 alerts of 3 rules, times 0-3, undated or without the group field; chains of 2 and 3 rules in and against the order of ids, timespans 0, 1, 2 | windows narrower and wider than the span, ties, undated events, thresholds below and above the count; two bursts of one key with an undated alert between them, interleaved with another key; a chain of three with a decoy before, inside or after it, and windows that drop a rule and get it back. The functions share no state, so that one of them at a time is enough |
| `live` | 2 logs, 1 attacker, 4 events, times 0-5, threshold, timeframe, timespan, dedup window 2, detector's timespan 1, cap 3; one or both zones; undated lines | the horizon (4) is shorter than the run, so that events age out, and the cap is less than the events, so that it drops some; a second burst after suppression; groups do not interact, so one attacker suffices |
| `live_example` | as above, one naive and one aware log, all dated | the documented setup |
| `live_chain` | dedup window 1 | smaller than both windows of the chain |
| `triage` | 2 alerts, of which analysts close, annotate and group the first, 2 requests at a time, 3 in all, 2 records, 1 tick of time; symmetric in requests | two syncs that overlap at every statement and a third request after them; two records of one alert or of two |
| `detection` | one input of about 8300: every condition of up to 3 tokens and longer ones with each operator; selections of up to 2 entries; thresholds over 2 or 3 events of 2 groups; pairs of upstream files with each thing that can be wrong with one; chains of 2 rules; risk over 2 or 3 signals; up to 3 batches that reach one store; log sources with and without a category or a service, null included; journeys of up to 3 logins through nested networks; context tables | each family varies what its property tells apart and keeps the rest fixed; 3 events tell a window that slides from one that does not, 2 rules a chain from its members, and 2 nested networks a most specific one from a first one |
| `detection_imports` | the upstream files of `detection` | one of each thing the analysis lets pass |
| `replay_clocks` | one event of a naive and one of an aware log, of one entity or of two | the least replay of two kinds of logs |
| `service` | 2 runs of scenarios of 1 and 2 lines with one source, a command and a dashboard request, each fresh or not, 1 watch, 1 pattern of 2 lines, 1 kill | two runs are enough to overwrite, to be parsed for one another and to lose the race for `unlink`; a third line after a torn one shows that the damage ends; two lines of a pattern lie on both sides of a restart |
| `triage_mttr` | the same with more ticks, only queries and closings | a tick between closing and sync |

Every property is checked against a mutant of the code's model that breaks it
(`PROJECT.json`, "mutants"; the definitions marked MUTANT in the modules).

Deadlock is not checked where the system may rest: a service that writes no
more, a function that returned, a store without requests.

## Fairness

* `FileTail`: weak fairness of the construction and of polling.  `run` polls in
  an endless loop (live.py 202-206).  Nothing is assumed of the service or of
  logrotate; `EventuallyHanded` excuses a line that is rotated away.
* `Aggregation`: weak fairness of `SweepNext`, a function that runs until it returns.
* `Service`: weak fairness of the watch, `Poll` and its emission, for the same
  loop.  Nobody has to start a run, to write a log or to restart a dead watch.
* The other modules state no liveness: `Correlation`'s searches end because
  every step takes an occurrence or a start away; requests may be abandoned, and nothing
  promises that a log is written; `Detection` is a function call with as many steps as its
  input has rules and batches.

## What is proved

For every value of the constants, under the ASSUMEs of the modules: timestamps
are integers; windows, counts and the bounds of the models natural numbers, a
count of a threshold and the sizes of a buffer at least one; `None`, the watch
and "no file" are not among the values they stand beside; the scenarios are
listed once each; a pattern takes at least one line; a pattern `prefix*` starts with its own prefix; "no
category" is neither mapped nor mapped to, and no address is "no value"; severities score
at least one and the readers of rule files, tables and logs hand over records of
the right keys (`IsDeployment`: a condition is a list of tokens and perhaps a
threshold, a selection a list of maps; what the tokens and the values are is
arbitrary); and a list of logs, scenarios or rules is a list of the right
things.  The bounds (`MaxEvents`, `MaxLines`, `MaxCrashes`, ...) are arbitrary
numbers in the proofs.

Every theorem about behaviours follows the same line: an inductive invariant
`IInv`, a conjunction of named parts, each with what it is needed for; one lemma
per action that preserves it; and the properties as its consequences.  The
provers cannot instantiate the library's induction rules, so induction over data
is by the least counterexample (`LeastElement` and `UpTo` of `Inductions`), and a
loop over a list is a fold, whose value after each element is an account that
such an induction can follow (`FoldExists`, `FilterSteps`, `SplitSteps`,
`EmitInduction`).

* **Aggregation** — all five safety properties.  The invariant: `timed` sorts
  the dated events, `start <= end`, every event before `start` is more than a
  window before `end`, and no earlier end crossed.  A window returned by the
  sweep is then `WindowOf` its last event, and its size is compared; for
  `ThresholdMeaning` the last event of any set of close events has all of them
  in its window, and windows grow by one event at a time, so that `==` is met
  on the way.
* **Dedup** — types, `KeptExactly`, `KeptApart`, `RepresentativeKnown` and
  `BurstsSummed`.  The invariant: the alerts handled so far are a prefix of the
  sorted order, `lastSeen` is the greatest time handled of its key, and the
  representative of a key that has one is dated and kept.  For `BurstsSummed` it
  adds that the representative is the *latest* kept alert of its key, so that
  the burst a repeat belongs to is the one it is counted on, and that of every
  kept alert the burst handled so far is counted.
* **Correlation** — all four properties.  The invariant of the ordered search:
  no chain starts before the current start, and no chain that starts at or after
  it has a link before the greedy chain's (so that a greedy chain that cannot go
  on, or is too wide, rules out every chain of its start).  That of the sweep:
  the occurrences taken are a prefix of the merged order, the counts are those of
  the window, what left the window is more than a timespan older than everything
  to come, and no chain lies in what was taken before the latest.
* **FileTail** — all five safety properties.  The invariant: every file holds
  consecutive pieces from the start of a line, and the one that is written ends
  with the last piece (`Files`); between two steps of a poll the path and the
  inode stay what they were, unless the file is swapped inside it, and the same of the constructor (`Standing`);
  the offset lies within the file, what lies before it is accounted for, and
  `partial` is the half line there (`InStep`); and what was handed over, what
  waits and what is unread come one after the other (`Ordered`).  It rests on one
  fact about the split at newlines (live.py 87-89): consecutive pieces are split
  into whole lines and at most one half line.
* **LiveMonitor** — all five properties.  The invariant: an event is in one place
  only (`Apart`); the buffer holds everything of the past within a horizon of the
  newest event (`Buffered`); `_emitted` is the last thing sent of its key, and
  what was sent is more than the window apart (`Remembered`); and `NoBlindSpot`
  and `LiveMatchesReplay` in a form that holds inside a poll as well (`Sighted`,
  `Replayed`).  `NoBlindSpot`: the horizon spans the rule's window and the dedup
  window together, so that the whole window of a crossing within sight is in the
  buffer, and an alert is sent or one not more than a window before it was.
  `LiveMatchesReplay`: when dated events are appended in time order, a rule's
  alerts stay (`RulesGrow`: the first crossing stays the first, the correlation's
  first login too), new ones are later, what the deduplicator keeps it goes on
  keeping (`DedupGrows`), and so a poll sends the difference (`EmitNew`).
* **Service** — all four safety properties.  The invariant: a dead watch has
  forgotten what it emitted (`Forgotten`); the lines of a batch are in the buffer of
  its emitter or in the file it has open, and the whole line of a notified alert,
  or of one whose emitter is about to notify, is at the path unless it was removed
  (`StoredInv`); tails and line breaks follow their heads, in a file and across
  the end of a file into the buffer of whoever is writing it, and the places where
  a line stops for good are no more than the kills (`TearInv`); and how far a run
  is that nobody disturbs, with what its log, batch, buffer and the store hold
  then (`LoneInv`).  For `NotifiedIsStored` an alert that is lost has its line at the
  path and is not read there, so that the line is spoiled (`LostAreSpoiled`); lines
  of two alerts end in two places, and spoiled places are no more than the kills.
* **TriageStore** — types, `TriageKept`, `FailsOnlyWhenRaced`, `SyncComplete`,
  `LatestWins`, and `StoreKeepsBoard`: the refinement of `TriageBoard`.  The
  invariant adds that rows are never removed, so that the row a `SELECT` found
  is still there at the `UPDATE`, and that a row stored behind a `SELECT`'s back
  was stored by a request that raced it.  Without it none of them is inductive:
  an `UPDATE` of a missing row would create one without a status.
  `SyncProgress` adds that every record a sync has passed is in the table, and
  is the latest there unless raced; each statement of another request either
  leaves the row alone or marks the sync as raced.  The refinement needs in
  addition that an incident a request has opened is one of the board's
  (`Opened`); its proof has one lemma for the steps that leave the cards alone,
  one for the statements of a sync and one for each operation.

* **Detection** — all ten safety properties.
  Most of the module says what each stage returns for whatever it is handed: the
  alerts of a rule, a correlation, the detector, the risk engine (`AreAlerts`,
  `AreFirings`); what the enrichment leaves alone (`AreEvents`).  The invariant:
  which stage follows which and what each has left behind (`Shape`); that a rule
  the import let through is the translation of a file without reasons against it
  (`Analysed`) and that a batch which ends at the rules ended at the rule whose
  turn it was (`Refused`), from which `AnalysisIsComplete` follows because every
  exception of an evaluation but the three kinds named there is a reason of the analysis;
  that the report counts the cases scored so far and what they expect can fire
  (`Tallied`); that the travel alerts are those of the users whose neighbouring
  logins cross (`Travelled`: by the least counterexample between two logins of
  two countries); and that a value has a notable exactly when an entity of it is
  heavy (`Risked`).  For `NotableIsBestWindow` a sum of scores is the cardinality
  of a union, so that sums grow with their sets: the best window of the sweep is
  at least as heavy as every window, and is itself one, which starts at its first
  contribution.  For the leaderboard the store is the records of
  batches one after the other, each with its own events (`Archived`): what a record
  contributes is what its alert did, the records of one batch are some of its
  alerts, and fewer contributions weigh less; a window whose records are all of one
  batch was one of that batch's windows, so that the batch raised the notable, and
  the deduplicator keeps the first alert of every key.
* **The parser of conditions** (`Conditions_proofs`, `ParserIsGrammar`) — for
  conditions of any length and nesting, `parse_condition` accepts exactly what the
  grammar derives, and its tree evaluates to the only value a reading of the
  grammar has.  The calls of the parser and the readings of the grammar are
  recursive functions, over positions and over spans of tokens; that each equals
  its equation at every argument is shown by the least counterexample, calls
  ranked by position and level (a call only makes later calls, or calls of a
  tighter level at the same position) and spans by length and level.  Soundness, from the last
  position back: what a call returned is a reading of the tokens it consumed, and
  what a loop over `and` or `or` found may be joined to any reading of the tokens
  before it.  Completeness, from the shortest span up: a span the grammar reads
  is what the call at its start returns, if no token follows that would go on.
  Two readings of one span have therefore the value of one call: the grammar is
  unambiguous in what it means.
* **What fires** (`FiresAsWritten`, `GroupsFireAlone`, `ImportedAsWritten`) — the
  invariant adds that every loaded rule is one of the files or the translation of
  an imported one (`Sourced`), and that the alerts kept of an id are those of the
  last evaluated rule with that id (`Judged`).  The short cuts of the matching are
  the quantifiers of `Means` whatever the order of maps, fields and values; with
  the parser's theorem a rule fires on what its condition says.  A group crosses
  exactly when enough of its events lie within one window: `n` close events have
  all of them in the window of the last.  A translated selection holds of what its
  upstream selection holds of, entry by entry, as long as no two entries become
  one field (`Collides`).

Only model-checked: every liveness property
(`Terminates`, `EventuallyHanded`, `EventuallyStored`: liveness under fairness and
ENABLED are outside what the prover does).  The violated properties of the six runs that
show disagreements are of course not theorems.

## Findings

* `half_line` — a watch that starts in the middle of a line hands its second
  half to a parser (live.py 61-63 against 69-70).
* `live_example` — watching an access log and an auth log, as the example
  configuration does, ends in a `TypeError` (live.py 195).
* `live_chain` — the horizon is too short for a chain over a windowed rule when
  the dedup window is small (live.py 149 against 137-139).
* `triage_mttr` — every sync moves `last_updated` of closed alerts, from which
  the mean time to resolve is computed (store.py 149-152 against 354-355).
* `detection_imports` — the import lets rules through that the engine refuses
  (sigma_import.py 108, 172 and 189 against 5-7).
* `replay_clocks` — replaying an access log together with an auth log ends in a
  `TypeError` once each has raised an alert (dedup.py 49, risk/engine.py 262,
  against replay.py 129-131).

Two more disagreements show in the models without a run of their own.  The
docstring of `load_assets` says that a malformed file yields empty directories
rather than raising (enrichment/assets.py 91-92), and `yaml.safe_load` at line 97
raises: `BuildEnricherFails`.  An upstream rule whose condition ends in `1 of`
raises an `IndexError` that the import does not turn into a reason
(sigma_import.py 173-176): `ImportFails`.

## Not modelled

Parsers (regular expressions; their effect on times is an input of
`LiveMonitor` and `Detection`), configuration (read once; the windows are
constants), scenario generators, source detection and the verdict of a replay,
the dashboard's page, its statistics and pivots, authentication, printing, the
installer: no state whose order matters.  `enabled_sources` and the caches of
the lookups are left out.  Waiting for SQLite's write lock is
a statement that has not happened yet; its timeout is left out.  Two
notification channels are one, whose deliveries may fail one by one.

## Plan

1. The risk engine on the rolling buffer: `LiveMonitor` with a risk rule whose
   window exceeds the horizon (live.py 149).
2. An abstract line feed that `FileTail` refines.
3. The dashboard's statistics over a store that is reset while it is read.
