---------------------------- MODULE LiveMonitor ----------------------------
(***************************************************************************)
(* Live mode (minisoc/core/live.py, LiveMonitor): every poll reads the new *)
(* lines of each tailed log, one log after the other, appends their events *)
(* to a rolling buffer, trims the buffer to the horizon, runs ALL rules    *)
(* over it again, deduplicates the alerts and emits those not emitted      *)
(* within the dedup window.                                                *)
(*                                                                         *)
(* The services write their logs meanwhile, between any two reads.  The    *)
(* rules have the shape of the SSH rules minisoc ships: a windowed         *)
(* threshold per attacker ("brute"), a rule that fires on every matching   *)
(* event ("login"), and the ordered correlation of the two ("chain").  The *)
(* sweep that finds a threshold crossing is modelled step by step in       *)
(* Aggregation and the deduplicator in Dedup; here each is one operator.   *)
(*                                                                         *)
(* Events are numbered in the order of writing, so that no two are equal.  *)
(***************************************************************************)
EXTENDS Filtering, Integers, Sequences, FiniteSets, SequencesExt, FiniteSetsExt

CONSTANTS
  Tails,          \* the watched logs, in the order they are polled
  Carries,        \* the kinds of event each log reports
  ZoneChoices,    \* the kinds of timestamp the parsers of the logs return
  UndatedLogs,    \* the logs with lines whose timestamp does not parse
  Ips,            \* the attackers, the field rules group by
  None,           \* Python's None
  MaxTime,        \* the last second of a run (bounds the model)
  MaxEvents,      \* how many lines are written (bounds the model)
  Threshold,      \* the count of the brute-force rule
  Timeframe,      \* its window, in seconds
  Timespan,       \* the window of the correlation
  BehavioralSpan, \* the widest window of the behavioral detectors
  DedupWindow,    \* alert_window_seconds
  MaxBuffer,      \* _MAX_BUFFER_EVENTS
  Suppressed      \* the base rules the correlation keeps from alerting

Logs == Range(Tails)
Kinds == {"fail", "login"}
Zones == {"naive", "aware"}
Rules == {"brute", "login", "chain"}
Times == 0..MaxTime
Keys == Rules \X Ips

\* An emission: the alert's own timestamp, and the one _emitted remembers,
\* with whether it was taken from the wall clock.
Emission == [time: Times \union {None}, stamp: Times, wall: BOOLEAN]

ASSUME LogsAssumption ==
  /\ Tails \in Seq(Logs)
  /\ Carries \in [Logs -> SUBSET Kinds]
  /\ ZoneChoices \subseteq [Logs -> Zones]
  /\ UndatedLogs \subseteq Logs
ASSUME BoundsAssumption == MaxTime \in Nat /\ MaxEvents \in Nat
ASSUME WindowsAssumption ==
  /\ {Timeframe, Timespan, BehavioralSpan, DedupWindow} \subseteq Nat
  /\ {Threshold, MaxBuffer} \subseteq Nat \ {0}
  /\ Suppressed \subseteq {"brute", "login"}
ASSUME NoneAssumption == None \notin Int /\ None \notin Emission

VARIABLES
  zone,      \* log -> "aware" when its parser returns UTC offsets
  clock,     \* the wall clock, which is also what the services log
  logged,    \* history: every event written so far
  unread,    \* log -> its events not yet read by the tail
  pc,        \* "polling", or "dead" after an exception
  turn,      \* which tail the poll reads next
  newEvents, \* the events this poll has read so far
  buffer,    \* self._buffer
  emitted,   \* self._emitted: key -> stamp of the alert emitted last
  sent,      \* history: key -> the alerts handed to the sinks, in order
  past,      \* history: every event that was ever in the buffer
  orderly,   \* history: all events were dated and came in time order
  capped     \* history: the size cap has dropped events

vars == <<zone, clock, logged, unread, pc, turn, newEvents, buffer, emitted,
          sent, past, orderly, capped>>

\* What a line is parsed into.
Event == [id: 1..MaxEvents, log: Logs, kind: Kinds, ip: Ips, time: Times \union {None}]

TypeOK ==
  /\ zone \in ZoneChoices
  /\ clock \in Times
  /\ logged \subseteq Event
  /\ unread \in [Logs -> Seq(logged)]
  /\ pc \in {"polling", "dead"}
  /\ turn \in 1..(Len(Tails) + 1)
  /\ buffer \o newEvents \in Seq(logged)
  /\ IsInjective(buffer \o newEvents)
  /\ Len(buffer) <= MaxBuffer
  /\ emitted \in [Keys -> Emission \union {None}]
  /\ sent \in [Keys -> Seq(Emission)]
  /\ past \subseteq logged
  /\ orderly \in BOOLEAN
  /\ capped \in BOOLEAN

Init ==
  /\ zone \in ZoneChoices
  /\ clock = 0
  /\ logged = {}
  /\ unread = [l \in Logs |-> <<>>]
  /\ pc = "polling"
  /\ turn = 1
  /\ newEvents = <<>>
  /\ buffer = <<>>
  /\ emitted = [k \in Keys |-> None]
  /\ sent = [k \in Keys |-> <<>>]
  /\ past = {}
  /\ orderly = TRUE
  /\ capped = FALSE

-----------------------------------------------------------------------------
(* The services.                                                           *)

\* A line is written some time after the one before it.
Write(l, kind, ip, later, dated) ==
  /\ Cardinality(logged) < MaxEvents
  /\ clock + later <= MaxTime
  /\ kind \in Carries[l]
  /\ dated \/ l \in UndatedLogs
  /\ clock' = clock + later
  /\ LET e == [id |-> Cardinality(logged) + 1, log |-> l, kind |-> kind, ip |-> ip,
               time |-> IF dated THEN clock + later ELSE None]
     IN  /\ logged' = logged \union {e}
         /\ unread' = [unread EXCEPT ![l] = Append(@, e)]
  /\ UNCHANGED <<zone, pc, turn, newEvents, buffer, emitted, sent, past,
                 orderly, capped>>

-----------------------------------------------------------------------------
(* The rules: the alerts that run_events returns for a set of events E.     *)

Dated(E) == {e \in E : e.time # None}
TimesOf(E) == {e.time : e \in E}
Of(E, kind, ip) == {e \in E : e.kind = kind /\ e.ip = ip}

\* The times at which Threshold events of E, all of one group, lie within
\* one window that ends there.
Crossings(E) ==
  {t \in TimesOf(Dated(E)) :
     Cardinality({e \in Dated(E) : e.time \in (t - Timeframe)..t}) >= Threshold}

\* The threshold rule fires at most once per group, for the first crossing;
\* a group without any timestamp is one unbounded bucket.
Brute(E, ip) ==
  LET group == Of(E, "fail", ip)
  IN  IF Dated(group) = {}
      THEN IF group # {} /\ Cardinality(group) >= Threshold THEN {None} ELSE {}
      ELSE IF Crossings(group) = {} THEN {} ELSE {Min(Crossings(group))}

\* The per-event rule fires for every match.
Login(E, ip) == TimesOf(Of(E, "login", ip))

\* The correlation takes, for the first firing that has one, the first login
\* at or after it; undated firings cannot be placed.
Chain(E, ip) ==
  LET from(b) == {t \in Login(E, ip) \ {None} : t >= b}
  IN  {Min(from(b)) : b \in {c \in Brute(E, ip) \ {None} :
                               from(c) # {} /\ Min(from(c)) - c <= Timespan}}

\* The timestamps of the alerts of every key.
RunEvents(E) ==
  [k \in Keys |->
     IF k[1] \in Suppressed THEN {}
     ELSE IF k[1] = "brute" THEN Brute(E, k[2])
     ELSE IF k[1] = "login" THEN Login(E, k[2])
     ELSE Chain(E, k[2])]

\* Deduplicator.filter for the alerts of one key: see Dedup, KeptExactly.
Deduplicate(ts) ==
  {t \in ts : t = None \/ ~\E d \in ts \ {None} : d < t /\ t - d <= DedupWindow}

-----------------------------------------------------------------------------
(* The monitor.                                                            *)

\* tail.read_new() of the next tail.
ReadTail ==
  /\ pc = "polling"
  /\ turn \in DOMAIN Tails
  /\ newEvents' = newEvents \o unread[Tails[turn]]
  /\ unread' = [unread EXCEPT ![Tails[turn]] = <<>>]
  /\ turn' = turn + 1
  /\ UNCHANGED <<zone, clock, logged, pc, buffer, emitted, sent, past, orderly, capped>>

\* A poll that read nothing leaves the buffer alone.
NothingNew ==
  /\ pc = "polling"
  /\ turn \notin DOMAIN Tails
  /\ newEvents = <<>>
  /\ turn' = 1
  /\ UNCHANGED <<zone, clock, logged, unread, pc, newEvents, buffer, emitted,
                 sent, past, orderly, capped>>

\* MUTANT of Horizon: the longest window alone.
LongestWindow == Max({DedupWindow, Timeframe, Timespan, BehavioralSpan})

\* _compute_horizon
Horizon == Max({DedupWindow, Timeframe, Timespan, BehavioralSpan}) + DedupWindow

\* _trim_buffer, by age and then to the last MaxBuffer events.
DropOld(s) ==
  IF Dated(Range(s)) = {} THEN s
  ELSE LET cutoff == Max(TimesOf(Dated(Range(s)))) - Horizon
       IN  Filter(s, {e \in Range(s) : e.time = None \/ e.time >= cutoff})

LastOf(s, n) == SubSeq(s, Max({0, Len(s) - n}) + 1, Len(s))

Extended == buffer \o newEvents

\* MUTANT of Trimmed: only the new events are judged.
TrimmedNew == LastOf(DropOld(newEvents), MaxBuffer)

Trimmed == LastOf(DropOld(Extended), MaxBuffer)

ZonesOf(E) == {zone[e.log] : e \in Dated(E)}

\* MUTANT of WallZone: datetime.now(timezone.utc)
AwareWall == "aware"

\* datetime.now() and datetime.min carry no UTC offset.
WallZone == "naive"

\* One alert of a key in time order: skipped when _emitted has a stamp that is
\* not more than the window before it.
EmitAlert(acc, t) ==
  LET stamp == IF t = None THEN clock ELSE t
  IN  IF acc.last # None /\ stamp - acc.last.stamp <= DedupWindow
      THEN acc
      ELSE LET e == [time |-> t, stamp |-> stamp, wall |-> t = None]
           IN  [last |-> e, sent |-> Append(acc.sent, e)]

\* MUTANT of Emit: a skipped alert refreshes _emitted as well.
EmitRefreshing(k, ts) ==
  LET after == FoldLeft(EmitAlert, [last |-> emitted[k], sent |-> sent[k]], ts)
  IN  IF ts = <<>> THEN after
      ELSE [after EXCEPT !.last =
              [time  |-> ts[1], wall |-> ts[1] = None,
               stamp |-> IF ts[1] = None THEN clock ELSE ts[1]]]

\* What a poll emits of one key, given its alerts in order.
Emit(k, ts) ==
  FoldLeft(EmitAlert, [last |-> emitted[k], sent |-> sent[k]], ts)

\* sorted by timestamp, undated alerts first.
Before(a, b) == b # None /\ (a = None \/ a < b)

InOrder(ts) ==
  CHOOSE s \in [1..Cardinality(ts) -> ts] :
    \A i, j \in 1..Cardinality(ts) : i < j => Before(s[i], s[j])

\* Whether comparing or subtracting the timestamps of this poll raises
\* TypeError: max() over the buffer and sorted() over the alerts meet a
\* naive and an aware time, or an alert meets a stamp of the other kind.
Mixed ==
  \/ Cardinality(ZonesOf(Range(Extended))) > 1
  \/ /\ ZonesOf(Range(Extended)) # {}
     /\ LET dated  == CHOOSE z \in ZonesOf(Range(Extended)) : TRUE
            alerts == RunEvents(Range(Trimmed))
        IN  /\ dated # WallZone
            /\ \/ /\ \E k \in Keys : None \in alerts[k]
                  /\ \E k \in Keys : alerts[k] \ {None} # {}
               \/ \E k \in Keys :
                    /\ emitted[k] # None
                    /\ emitted[k].wall
                    /\ Deduplicate(alerts[k]) \ {None} # {}
               \/ \E k \in Keys :
                    /\ emitted[k] # None
                    /\ ~emitted[k].wall
                    /\ None \in alerts[k]

\* MUTANT of Evaluate: new_events outlives the poll.
EvaluateKeepingNew ==
  /\ pc = "polling"
  /\ turn \notin DOMAIN Tails
  /\ newEvents # <<>>
  /\ ~Mixed
  /\ LET alerts == RunEvents(Range(Trimmed))
         after  == [k \in Keys |-> Emit(k, InOrder(Deduplicate(alerts[k])))]
     IN  /\ emitted' = [k \in Keys |-> after[k].last]
         /\ sent' = [k \in Keys |-> after[k].sent]
  /\ buffer' = Trimmed
  /\ past' = past \union Range(newEvents)
  /\ orderly' = /\ orderly
                /\ Dated(Range(newEvents)) = Range(newEvents)
                /\ \A e \in Range(newEvents), p \in past : p.time <= e.time
  /\ capped' = (capped \/ Len(DropOld(Extended)) > MaxBuffer)
  /\ turn' = 1
  /\ UNCHANGED <<zone, clock, logged, unread, pc, newEvents>>

\* Judge the whole buffer again and emit what is new.
Evaluate ==
  /\ pc = "polling"
  /\ turn \notin DOMAIN Tails
  /\ newEvents # <<>>
  /\ ~Mixed
  /\ LET alerts == RunEvents(Range(Trimmed))
         after  == [k \in Keys |-> Emit(k, InOrder(Deduplicate(alerts[k])))]
     IN  /\ emitted' = [k \in Keys |-> after[k].last]
         /\ sent' = [k \in Keys |-> after[k].sent]
  /\ buffer' = Trimmed
  /\ past' = past \union Range(newEvents)
  /\ orderly' = /\ orderly
                /\ Dated(Range(newEvents)) = Range(newEvents)
                /\ \A e \in Range(newEvents), p \in past : p.time <= e.time
  /\ capped' = (capped \/ Len(DropOld(Extended)) > MaxBuffer)
  /\ newEvents' = <<>>
  /\ turn' = 1
  /\ UNCHANGED <<zone, clock, logged, unread, pc>>

\* The TypeError is not caught anywhere: run() ends.
EvaluateRaises ==
  /\ pc = "polling"
  /\ turn \notin DOMAIN Tails
  /\ newEvents # <<>>
  /\ Mixed
  /\ pc' = "dead"
  /\ UNCHANGED <<zone, clock, logged, unread, turn, newEvents, buffer, emitted,
                 sent, past, orderly, capped>>

Next ==
  \/ \E l \in Logs, kind \in Kinds, ip \in Ips, later \in Times, dated \in BOOLEAN :
       Write(l, kind, ip, later, dated)
  \/ ReadTail
  \/ NothingNew
  \/ Evaluate
  \/ EvaluateRaises

Spec == Init /\ [][Next]_vars

-----------------------------------------------------------------------------
(* Correctness, between two polls.                                         *)

Idle == pc = "polling" /\ turn = 1
Newest == Max(TimesOf(Dated(past)))
StampsOf(k) == {sent[k][i].stamp : i \in DOMAIN sent[k]}

\* No key is ever alerted twice within the dedup window, although every poll
\* finds the same alerts again, late lines produce older ones and undated
\* ones are stamped by the wall clock (live.py 171-183).
SpacedRepeats ==
  \A k \in Keys : \A i, j \in DOMAIN sent[k] :
    i < j => sent[k][j].stamp - sent[k][i].stamp > DedupWindow

\* As long as nothing is older than the horizon and every line came dated
\* and in time order, watching a log emits what replaying it at once would:
\* where the polls fall makes no difference (live.py 151-189, replay.py).
LiveMatchesReplay ==
  (Idle /\ orderly /\ ~capped /\ \A e \in past : e.time >= Newest - Horizon) =>
    \A k \in Keys :
      {sent[k][i].time : i \in DOMAIN sent[k]} = Deduplicate(RunEvents(past)[k])

\* A threshold crossing that ends no more than the dedup window before the
\* newest event is never missed, in whatever order the logs were read: its
\* attacker was alerted for, at most a horizon and a dedup window earlier.
\* Trimming and suppression together hide nothing longer (live.py 134-149).
NoBlindSpot ==
  (Idle /\ ~capped /\ "brute" \notin Suppressed) =>
    \A ip \in Ips : \A t \in Crossings(Of(past, "fail", ip)) :
      t >= Newest - DedupWindow =>
        \E s \in StampsOf(<<"brute", ip>>) : s >= t - Horizon - DedupWindow

\* "any pattern still in flight (e.g. a brute force building toward its
\* threshold) fits in the buffer" (live.py 137-139): a login within the
\* timespan of a brute force raises the correlation in the poll that reads it.
InFlightKept ==
  (Idle /\ orderly /\ ~capped) =>
    \A ip \in Ips : \A t \in Chain(past, ip) :
      t = Newest => \E i \in DOMAIN sent[<<"chain", ip>>] : sent[<<"chain", ip>>][i].time = t

\* Parsers that all return times without an offset never end the watch; nor
\* do parsers that all return them with one, when every time parses
\* (live.py 173-195, dedup.py 49).
SurvivesOneClock ==
  pc = "dead" =>
    \/ Cardinality({zone[e.log] : e \in logged}) > 1
    \/ \E d, e \in logged : zone[d.log] = "aware" /\ d.time # None /\ e.time = None

\* "tail real log files and run detections continuously", with the sources
\* config.yaml shows (live.py 1, config/config.yaml 75-88).
RunsContinuously == pc # "dead"

=============================================================================
