------------------------------- MODULE Dedup -------------------------------
(***************************************************************************)
(* Deduplicator.filter (minisoc/alerting/dedup.py): the alerts of a batch  *)
(* are taken in time order, and an alert that repeats its key within       *)
(* Window seconds of the previous occurrence is counted on the alert that  *)
(* opened the burst instead of being kept.  One step handles one alert.    *)
(*                                                                         *)
(* An alert is its position in the batch.  None is Python's None: the      *)
(* timestamp of an alert whose events carry no time, and the result of a   *)
(* dictionary lookup that finds nothing.                                   *)
(***************************************************************************)
EXTENDS Integers, Sequences, FiniteSets

CONSTANTS
  Keys,        \* the dedup keys of alerts (alert.py 62-74)
  Stamps,        \* the timestamps alerts may carry, in seconds
  None,
  MaxAlerts,   \* the largest batch considered (bounds the model)
  Window       \* alert_window_seconds

ASSUME StampsAssumption == Stamps \subseteq Int /\ None \notin Int
ASSUME WindowAssumption == Window \in Nat
ASSUME MaxAlertsAssumption == MaxAlerts \in Nat

VARIABLES
  batch,           \* the alerts given to filter
  todo,            \* the alerts the loop has not reached
  representative,  \* key -> the alert that opened its last burst
  lastSeen,        \* key -> the time of its last dated occurrence
  kept,            \* the alerts to return, in the order they were kept
  occurrences,     \* alert.occurrences
  seen             \* alert.last_seen

dedupVars == <<batch, todo, representative, lastSeen, kept, occurrences, seen>>

Batches == UNION {[1..n -> [key: Keys, time: Stamps \union {None}]] : n \in 1..MaxAlerts}

Alerts == DOMAIN batch
KeyOf(a) == batch[a].key
StampOf(a) == batch[a].time
DatedAlerts == {a \in Alerts : StampOf(a) # None}

DedupTypeOK ==
  /\ batch \in Batches
  /\ todo \subseteq Alerts
  /\ representative \in [Keys -> Alerts \union {None}]
  /\ lastSeen \in [Keys -> Stamps \union {None}]
  /\ kept \in Seq(Alerts)
  /\ occurrences \in [Alerts -> Nat \ {0}]
  /\ seen \in [Alerts -> Stamps \union {None}]

DedupInit ==
  /\ batch \in Batches
  /\ todo = Alerts
  /\ representative = [k \in Keys |-> None]
  /\ lastSeen = [k \in Keys |-> None]
  /\ kept = <<>>
  /\ occurrences = [a \in Alerts |-> 1]
  /\ seen = [a \in Alerts |-> None]

\* sorted(alerts, key=timestamp or datetime.min), which is stable: undated
\* alerts come first.
Sooner(a, b) ==
  \/ a \notin DatedAlerts /\ b \in DatedAlerts
  \/ a \notin DatedAlerts /\ b \notin DatedAlerts /\ a < b
  \/ /\ a \in DatedAlerts /\ b \in DatedAlerts
     /\ StampOf(a) < StampOf(b) \/ (StampOf(a) = StampOf(b) /\ a < b)

\* The alert the loop reaches next.
IsNext(a) ==
  /\ a \in todo
  /\ \A b \in todo \ {a} : Sooner(a, b)

\* MUTANT of WithinWindow: measured from the alert that opened the burst.
WithinWindowOfFirst(a) ==
  LET prev == lastSeen[KeyOf(a)]
  IN  /\ prev # None
      /\ a \in DatedAlerts
      /\ StampOf(a) - StampOf(representative[KeyOf(a)]) <= Window

WithinWindow(a) ==
  LET prev == lastSeen[KeyOf(a)]
  IN  /\ prev # None
      /\ a \in DatedAlerts
      /\ StampOf(a) - prev <= Window

\* if ts is not None: last_seen[key] = ts
Remember(a) ==
  lastSeen' = IF a \in DatedAlerts
              THEN [lastSeen EXCEPT ![KeyOf(a)] = StampOf(a)]
              ELSE lastSeen

\* A repeat is counted on the alert that represents its burst.
Absorb(a) ==
  /\ IsNext(a)
  /\ WithinWindow(a)
  /\ LET rep == representative[KeyOf(a)]
     IN  /\ occurrences' = [occurrences EXCEPT ![rep] = @ + 1]
         /\ seen' = [seen EXCEPT ![rep] = StampOf(a)]
  /\ Remember(a)
  /\ todo' = todo \ {a}
  /\ UNCHANGED <<batch, representative, kept>>

\* MUTANT of Keep: the first alert of a key stays its representative.
KeepFirstRepresentative(a) ==
  /\ IsNext(a)
  /\ ~WithinWindow(a)
  /\ occurrences' = [occurrences EXCEPT ![a] = 1]
  /\ seen' = [seen EXCEPT ![a] = StampOf(a)]
  /\ representative' = [representative EXCEPT ![KeyOf(a)] = IF @ = None THEN a ELSE @]
  /\ kept' = Append(kept, a)
  /\ Remember(a)
  /\ todo' = todo \ {a}
  /\ UNCHANGED batch

\* Any other alert opens a burst of its own.
Keep(a) ==
  /\ IsNext(a)
  /\ ~WithinWindow(a)
  /\ occurrences' = [occurrences EXCEPT ![a] = 1]
  /\ seen' = [seen EXCEPT ![a] = StampOf(a)]
  /\ representative' = [representative EXCEPT ![KeyOf(a)] = a]
  /\ kept' = Append(kept, a)
  /\ Remember(a)
  /\ todo' = todo \ {a}
  /\ UNCHANGED batch

DedupNext == \E a \in todo : Absorb(a) \/ Keep(a)

DedupSpec == DedupInit /\ [][DedupNext]_dedupVars

-----------------------------------------------------------------------------
(* Correctness, against definitions that know none of the dictionaries.    *)

Kept == {kept[k] : k \in DOMAIN kept}

\* d and a repeat each other, and d is the earlier one; alerts with the same
\* time count in batch order.
Precedes(d, a) ==
  /\ {d, a} \subseteq DatedAlerts
  /\ KeyOf(d) = KeyOf(a)
  /\ StampOf(d) < StampOf(a) \/ (StampOf(d) = StampOf(a) /\ d < a)

\* An alert opens a burst when it has no time, or when no alert of its key
\* lies within Window seconds before it.
Opens(a) ==
  a \in DatedAlerts => ~\E d \in DatedAlerts : Precedes(d, a) /\ StampOf(a) - StampOf(d) <= Window

\* Exactly the alerts that open a burst are kept, out of a batch in any
\* order: the window slides with every occurrence, kept or not (dedup.py
\* 9-12, 54-76).
KeptExactly == \A a \in Alerts \ todo : a \in Kept <=> Opens(a)

\* The alerts of the burst that a dated alert opened.
Burst(r) ==
  {a \in DatedAlerts \ todo :
     a = r \/ (Precedes(r, a) /\ ~\E q \in Kept : Precedes(r, q) /\ (q = a \/ Precedes(q, a)))}

\* A kept alert stands for its whole burst and nothing else: occurrences is
\* its size and last_seen its latest time (dedup.py 65-73).
BurstsSummed ==
  \A r \in Kept :
    /\ occurrences[r] = IF r \in DatedAlerts THEN Cardinality(Burst(r)) ELSE 1
    /\ r \in DatedAlerts => /\ \E a \in Burst(r) : seen[r] = StampOf(a)
                      /\ \A a \in Burst(r) : StampOf(a) <= seen[r]

\* Two kept alerts of one key are returned in time order and more than
\* Window seconds apart, so that live mode, which compares each with the one
\* it emitted before, drops none of them (live.py 176-183).
KeptApart ==
  \A j, k \in DOMAIN kept :
    (j < k /\ {kept[j], kept[k]} \subseteq DatedAlerts /\ KeyOf(kept[j]) = KeyOf(kept[k]))
      => StampOf(kept[k]) - StampOf(kept[j]) > Window

\* A key with a last_seen entry has a representative, and it is a dated one:
\* representative[key] raises no KeyError and no undated alert gains
\* occurrences (dedup.py 65-76).
RepresentativeKnown ==
  \A k \in Keys : lastSeen[k] # None => representative[k] \in DatedAlerts

=============================================================================
