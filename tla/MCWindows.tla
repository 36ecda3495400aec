----------------------------- MODULE MCWindows -----------------------------
(* The three functions that slide a window over events or alerts, called one *)
(* after the other.  In each behaviour one of them is given any input within *)
(* the bounds, and the other two the smallest one.                           *)
(*   Aggregation: up to four events within five seconds, with or without a   *)
(*     timestamp, thresholds up to three, two windows, every comparison;     *)
(*   Dedup: up to four alerts of two keys within six seconds, with or        *)
(*     without a timestamp; the dedup window is two seconds wide;            *)
(*   Correlation: up to four alerts of three rules within four seconds, one  *)
(*     of them possibly undated or without the group-by field; chains of two *)
(*     and of three rules, listed in and against the order of their ids.     *)
EXTENDS Aggregation, Dedup, Correlation

CONSTANTS k1, k2

MCTime == 0..4
MCAggs == [op: Ops, n: {0, 1, 2, 3}, window: {0, 2}]

MCKeys == {k1, k2}
MCStamps == 0..5

MCRules == 1..3
MCFiringTimes == 0..3
MCFirings == [rule: MCRules, time: MCFiringTimes, key: {Group}]
             \union {[rule |-> 1, time |-> Absent, key |-> Group],
                     [rule |-> 2, time |-> 1, key |-> Absent]}
MCCorrelations ==
  [type: Types, rules: {<<1, 2>>, <<3, 1, 2>>}, window: {1}]
  \union [type: Types, rules: {<<2, 1>>}, window: {0, 2}]

\* The smallest inputs.
OneEvent == events = <<Undated>> /\ agg = [op |-> ">=", n |-> 1, window |-> 0]
OneAlert == batch = <<[key |-> k1, time |-> None]>>
NoFiring == alerts = <<>> /\ corr = [type |-> "temporal", rules |-> <<1, 2>>, window |-> 1]

CallsInit ==
  /\ \/ OneAlert /\ NoFiring
     \/ OneEvent /\ NoFiring
     \/ OneEvent /\ OneAlert
  /\ SweepInit
  /\ DedupInit
  /\ ChainInit

CallsNext ==
  \/ SweepNext /\ UNCHANGED <<dedupVars, chainVars>>
  \/ pc = "done" /\ DedupNext /\ UNCHANGED <<sweepVars, chainVars>>
  \/ todo = {} /\ ChainNext /\ UNCHANGED <<sweepVars, dedupVars>>

\* Each is a plain function call; that the sweep returns is checked.
Calls == CallsInit /\ [][CallsNext]_<<sweepVars, dedupVars, chainVars>> /\ WF_sweepVars(SweepNext)
=============================================================================
