----------------------------- MODULE Correlator -----------------------------
(***************************************************************************)
(* What one correlation returns for the alerts its base rules fired        *)
(* (minisoc/detections/correlation.py, Correlator.evaluate), group by      *)
(* group.  The loops of its two searches are module Correlation; here is   *)
(* the chain they end with, which the pipeline goes on with.               *)
(*                                                                         *)
(* byRule maps a rule id to the sequence of its alerts.  An occurrence is  *)
(* <<position of the rule in the correlation, position of the alert>>.     *)
(***************************************************************************)
EXTENDS Rules

\* CorrelationRule.generates; generate is "all", "none" or a set of rule ids.
Generates(corr, id) == corr.generate = "all" \/ (corr.generate # "none" /\ id \in corr.generates)

AlertAt(corr, byRule, occ) == byRule[corr.rules[occ[1]]][occ[2]]

\* _group_key: for every field its first value among the alert's events; None
\* when there is none.  Without group-by there is one group, <<>>.
KeyOf(corr, events, alert) ==
  LET values(field) == [k \in DOMAIN alert.events |-> events[alert.events[k]].get[field]]
      present(field) == ToSet(values(field)) \ {None}
  IN IF \E f \in ToSet(corr.by) : present(f) = {} THEN None
     ELSE [k \in DOMAIN corr.by |-> FirstIn(values(corr.by[k]), present(corr.by[k]), None)]

\* The dated firings of the group.
OccurrencesOf(corr, events, byRule, key) ==
  {occ \in UNION {{r} \X DOMAIN byRule[corr.rules[r]] : r \in DOMAIN corr.rules} :
     /\ AlertAt(corr, byRule, occ).time # None
     /\ KeyOf(corr, events, AlertAt(corr, byRule, occ)) = key}

Keys(corr, events, byRule) ==
  (UNION {{KeyOf(corr, events, a) : a \in ToSet(byRule[id])} : id \in ToSet(corr.rules)}) \ {None}

\* At most one chain in order of the rules, a chain having an occurrence of every
\* rule: the first start from which the earliest follower of every link ends in
\* time.
OrderedChain(corr, occurrences, time) ==
  LET Earlier(a, b) == time[a] < time[b] \/ (time[a] = time[b] /\ a[2] < b[2])
      Earliest(S) == {a \in S : \A b \in S \ {a} : Earlier(a, b)}
      Followers(a) == {b \in occurrences : b[1] = a[1] + 1 /\ time[b] >= time[a]}
      fits == {chain \in [DOMAIN corr.rules -> occurrences] :
                 /\ chain[1][1] = 1
                 /\ \A r \in 2..Len(corr.rules) : chain[r] \in Earliest(Followers(chain[r - 1]))
                 /\ time[chain[Len(corr.rules)]] - time[chain[1]] <= corr.timespan}
  IN {chain \in fits : chain[1] \in Earliest({c[1] : c \in fits})}

\* The window ending at the first occurrence with every rule in it: the latest
\* occurrence of every rule there.
UnorderedChain(corr, occurrences, time) ==
  LET Rank(a) == corr.rules[a[1]]
      Earlier(a, b) == \/ time[a] < time[b]
                       \/ time[a] = time[b] /\ (Rank(a) < Rank(b) \/ (Rank(a) = Rank(b) /\ a[2] < b[2]))
      WindowTo(a) == {b \in occurrences : (b = a \/ Earlier(b, a)) /\ time[a] - time[b] <= corr.timespan}
      ends == {a \in occurrences : \A r \in DOMAIN corr.rules : \E b \in WindowTo(a) : b[1] = r}
      first == {a \in ends : \A b \in ends \ {a} : Earlier(a, b)}
  IN {chain \in [DOMAIN corr.rules -> occurrences] : \E a \in first : \A r \in DOMAIN corr.rules :
        /\ chain[r] \in WindowTo(a) /\ chain[r][1] = r
        /\ \A c \in WindowTo(a) \ {chain[r]} : c[1] = r => Earlier(c, chain[r])}

\* At most one chain of the group, as a set; every rule must have fired.
ChainOf(corr, events, byRule, key) ==
  LET occurrences == OccurrencesOf(corr, events, byRule, key)
      time == [occ \in occurrences |-> AlertAt(corr, byRule, occ).time]
  IN IF \E r \in DOMAIN corr.rules : \A occ \in occurrences : occ[1] # r THEN {}
     ELSE IF corr.type = "temporal_ordered" THEN OrderedChain(corr, occurrences, time)
     ELSE UnorderedChain(corr, occurrences, time)

\* Timestamps of one complete group that Python cannot compare (exact for
\* correlations of two rules).
ChainRaises(corr, events, byRule, key) ==
  LET occurrences == OccurrencesOf(corr, events, byRule, key) IN
  /\ \A r \in DOMAIN corr.rules : \E occ \in occurrences : occ[1] = r
  /\ \E a, b \in occurrences : AlertAt(corr, byRule, a).clock # AlertAt(corr, byRule, b).clock

\* _make_alert of the correlator
ChainAlert(corr, byRule, key, chain) ==
  LET last == AlertAt(corr, byRule, Last(chain)) IN
  [rule |-> corr.id, level |-> corr.level, time |-> last.time, clock |-> last.clock,
   events |-> FlattenSeq([r \in DOMAIN chain |-> AlertAt(corr, byRule, chain[r]).events]),
   group |-> IF Len(key) = 1 THEN key[1] ELSE IF key = <<>> THEN None ELSE key]

\* Correlator.evaluate
Correlate(corr, events, byRule) ==
  LET keys == Keys(corr, events, byRule)
      complete == {k \in keys : ChainOf(corr, events, byRule, k) # {}}
  IN IF corr.timespan = Bad THEN Raised("ValueError")
     ELSE IF \E k \in keys : ChainRaises(corr, events, byRule, k) THEN Raised("TypeError")
     ELSE Fired(SetToSeq({ChainAlert(corr, byRule, k, CHOOSE c \in ChainOf(corr, events, byRule, k) : TRUE)
                            : k \in complete}))

=============================================================================
