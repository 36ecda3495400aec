------------------------------ MODULE Efficacy ------------------------------
(***************************************************************************)
(* Scoring the rules against labeled cases (minisoc/efficacy/corpus.py,    *)
(* evaluate.py) and the ATT&CK rollup (detections/coverage.py).            *)
(***************************************************************************)
EXTENDS Rules

\* _case_from_data: an attack or benign case with at least one line, whether it
\* parses or not; a benign one expects nothing.
ValidCase(case) ==
  /\ case.label \in {"attack", "benign"}
  /\ case.label = "benign" => case.expects = {}
  /\ case.lines > 0

Attack(case) == case.label = "attack"

\* Every id that can fire and every id a case expects.
Universe(tagged, cases) ==
  {r.id : r \in tagged} \union UNION {cases[k].expects : k \in DOMAIN cases}

EmptyReport(universe) ==
  [tp |-> [r \in universe |-> 0], fp |-> [r \in universe |-> 0],
   fn |-> [r \in universe |-> 0], tn |-> [r \in universe |-> 0],
   attacks |-> 0, benign |-> 0, falseAlarms |-> 0, misses |-> {},
   untested |-> {}]

\* Which of its rules a case adds one to.
Counted(counts, ids) == [r \in DOMAIN counts |-> IF r \in ids THEN counts[r] + 1 ELSE counts[r]]

\* One turn of the loop of evaluate
ScoreCase(report, case, name, fired) ==
  LET universe == DOMAIN report.tp IN
  [report EXCEPT !.attacks = @ + (IF Attack(case) THEN 1 ELSE 0),
                 !.benign = @ + (IF Attack(case) THEN 0 ELSE 1),
                 !.falseAlarms = @ + (IF ~Attack(case) /\ fired # {} THEN 1 ELSE 0),
                 !.misses = @ \union {<<name, r>> : r \in (case.expects \intersect universe) \ fired},
                 !.tp = Counted(@, case.expects \intersect fired),
                 !.fn = Counted(@, case.expects \ fired),
                 !.fp = Counted(@, fired \ case.expects),
                 !.tn = Counted(@, universe \ (case.expects \union fired))]

\* The rules no case expects, which never fired and no correlation silences.
Untested(report, suppressed) ==
  {r \in DOMAIN report.tp : report.tp[r] + report.fn[r] = 0 /\ report.fp[r] = 0} \ suppressed

\* The efficacy command exits with 0: no case is not enough.
GateOpens(report) ==
  report.attacks + report.benign > 0 /\ report.misses = {} /\ report.falseAlarms = 0

\* mitre_coverage: technique -> the ids that carry it, and the ids without one.
Coverage(tagged) ==
  [techniques |-> [t \in UNION {r.tags : r \in tagged} |-> {r.id : r \in {x \in tagged : t \in x.tags}}],
   untagged |-> {r.id : r \in {x \in tagged : x.tags = {}}}]

=============================================================================
