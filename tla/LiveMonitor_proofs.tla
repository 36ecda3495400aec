------------------------ MODULE LiveMonitor_proofs -------------------------
(***************************************************************************)
(* Live mode loses nothing by its polls: the buffer holds what the rules   *)
(* can still need, no alert is repeated within the window, none within     *)
(* sight is missed, and what is emitted is what a replay of the same       *)
(* events would emit.  Proved for every number of logs, attackers and      *)
(* events and for every window.                                            *)
(***************************************************************************)
EXTENDS LiveMonitor, Inductions

-----------------------------------------------------------------------------
(* The inductive invariant. *)

\* Every event is on its way to one tail, in the buffer, or forgotten.
Apart ==
  /\ IsFiniteSet(logged)
  /\ \A e \in logged : e.id <= Cardinality(logged)
  /\ buffer \in Seq(logged) /\ newEvents \in Seq(logged)
  /\ \A l \in Logs : /\ IsInjective(unread[l])
                     /\ Range(unread[l]) \intersect Range(Extended) = {}
                     /\ \A m \in Logs \ {l} : Range(unread[l]) \intersect Range(unread[m]) = {}
  /\ IsInjective(Extended)

\* The events of E that a trim keeps.
Recent(E) ==
  {e \in E : e.time = None \/ \A d \in Dated(E) : e.time >= d.time - Horizon}

\* The buffer still has everything recent.
Buffered ==
  /\ Range(buffer) \subseteq past
  /\ ~capped => Recent(past) \subseteq Range(buffer)

\* _emitted remembers the last emission of every key, and each one came more
\* than the dedup window after the one before.
Remembered ==
  \A k \in Keys :
    /\ emitted[k] = IF sent[k] = <<>> THEN None ELSE sent[k][Len(sent[k])]
    /\ \A i, j \in 1..Len(sent[k]) :
         i < j => sent[k][j].stamp - sent[k][i].stamp > DedupWindow
    /\ \A i \in 1..Len(sent[k]) :
         IF sent[k][i].wall
         THEN sent[k][i].time = None /\ \E e \in logged : e.time = None
         ELSE sent[k][i].stamp = sent[k][i].time

\* The crossings within sight have been alerted for, also inside a poll.
Sighted ==
  ~capped /\ "brute" \notin Suppressed =>
    \A ip \in Ips : \A t \in Crossings(Of(past, "fail", ip)) :
      (\A d \in Dated(past) : t >= d.time - DedupWindow) =>
        \E s \in StampsOf(<<"brute", ip>>) : s >= t - Horizon - DedupWindow

\* All past events are within one horizon.
Narrow(E) == \A d, e \in E : e.time >= d.time - Horizon

TimesSent(k) == {sent[k][i].time : i \in DOMAIN sent[k]}

\* What was sent is what a replay of the past sends, also inside a poll.
Replayed ==
  orderly =>
    /\ Dated(past) = past
    /\ ~capped /\ Narrow(past) => \A k \in Keys : TimesSent(k) = Deduplicate(RunEvents(past)[k])

IInv == TypeOK /\ Apart /\ Buffered /\ Remembered /\ Sighted /\ Replayed /\ SurvivesOneClock

-----------------------------------------------------------------------------
(* Alerts in order. *)

Stamps == Times \union {None}

\* s lists ts in order.
SortedList(s, ts) ==
  /\ s \in [1..Cardinality(ts) -> ts]
  /\ \A i, j \in 1..Cardinality(ts) : i < j => Before(s[i], s[j])

\* Undated before dated, dated by time: a strict order.
LEMMA BeforeOrder ==
  ASSUME NEW a \in Stamps, NEW b \in Stamps, NEW c \in Stamps
  PROVE  /\ ~Before(a, a)
         /\ Before(a, b) /\ Before(b, c) => Before(a, c)
  BY NoneAssumption, BoundsAssumption DEF Before, Stamps, Times

\* A nonempty set of alerts has a last one.
LEMMA LastAlert ==
  ASSUME NEW ts \in SUBSET Stamps, ts # {}
  PROVE  \E m \in ts : \A t \in ts \ {m} : Before(t, m)
  <1>1. CASE ts \ {None} # {}
    <2> DEFINE D == ts \ {None}
    <2>0. \A t \in D : t \in Times
      BY DEF Stamps
    <2>1. D \in SUBSET Int /\ D # {} /\ MaxTime \in Int /\ \A t \in D : t <= MaxTime
      BY <1>1, <2>0, BoundsAssumption DEF Times
    <2>2. Max(D) \in D /\ \A t \in D : t <= Max(D)
      <3> HIDE DEF D
      <3> QED
        BY <2>1, GreatestElement
    <2>3. ASSUME NEW t \in ts \ {Max(D)} PROVE Before(t, Max(D))
      <3>1. Max(D) # None /\ Max(D) \in Int
        BY <2>1, <2>2
      <3>2. t = None \/ (t \in Int /\ t <= Max(D) /\ t # Max(D))
        BY <2>1, <2>2
      <3> HIDE DEF D
      <3>3. t = None \/ t < Max(D)
        BY <3>1, <3>2
      <3> QED
        BY <3>1, <3>3 DEF Before
    <2> QED
      BY <2>2, <2>3
  <1>2. CASE ts \ {None} = {}
    BY <1>2
  <1> QED
    BY <1>1, <1>2

\* Every finite set of alerts can be listed in order.
LEMMA CanSort ==
  ASSUME NEW ts \in SUBSET Stamps, IsFiniteSet(ts)
  PROVE  \E s : SortedList(s, ts)
  <1> DEFINE N == Cardinality(ts)
             T == {n \in 0..N : \A u \in SUBSET ts : Cardinality(u) = n => \E s : SortedList(s, u)}
  <1>1. N \in Nat
    BY FS_CardinalityType
  <1>0. \A u \in SUBSET ts : IsFiniteSet(u) /\ Cardinality(u) \in Nat
    BY FS_Subset, FS_CardinalityType
  <1>2. 0 \in T
    <2> SUFFICES ASSUME NEW u \in SUBSET ts, Cardinality(u) = 0 PROVE \E s : SortedList(s, u)
      BY <1>1
    <2>1. <<>> \in [1..0 -> u]
      OBVIOUS
    <2>2. 1..0 = {}
      OBVIOUS
    <2>3. SortedList(<<>>, u)
      BY <2>1, <2>2 DEF SortedList
    <2> QED
      BY <2>3
  <1>3. ASSUME NEW n \in 1..N, n - 1 \in T PROVE n \in T
    <2> SUFFICES ASSUME NEW u \in SUBSET ts, Cardinality(u) = n PROVE \E s : SortedList(s, u)
      OBVIOUS
    <2>1. u # {} /\ IsFiniteSet(u) /\ u \in SUBSET Stamps
      BY <1>0, FS_EmptySet
    <2>2. PICK m \in u : \A t \in u \ {m} : Before(t, m)
      BY <2>1, LastAlert
    <2>3. Cardinality(u \ {m}) = n - 1 /\ u \ {m} \in SUBSET ts
      BY <2>1, <2>2, FS_RemoveElement
    <2>4. PICK s : SortedList(s, u \ {m})
      BY <1>3, <2>3
    <2>5. /\ s \in [1..(n - 1) -> u \ {m}]
          /\ \A i, j \in 1..(n - 1) : i < j => Before(s[i], s[j])
      BY <2>3, <2>4 DEF SortedList
    <2> DEFINE r == [i \in 1..n |-> IF i = n THEN m ELSE s[i]]
    <2>6. \A i \in 1..n : i = n \/ i \in 1..(n - 1)
      OBVIOUS
    <2>7. r \in [1..n -> u]
      BY <2>2, <2>5, <2>6
    <2>8. ASSUME NEW i \in 1..n, NEW j \in 1..n, i < j PROVE Before(r[i], r[j])
      <3>1. i \in 1..(n - 1) /\ i # n /\ r[i] = s[i] /\ s[i] \in u \ {m}
        BY <2>5, <2>8
      <3>2. CASE j = n
        BY <2>2, <3>1, <3>2
      <3>3. CASE j \in 1..(n - 1)
        <4>1. r[j] = s[j]
          BY <3>3
        <4> QED
          BY <2>5, <2>8, <3>1, <3>3, <4>1
      <3> QED
        BY <2>6, <3>2, <3>3
    <2> HIDE DEF r
    <2>9. SortedList(r, u)
      BY <2>7, <2>8 DEF SortedList
    <2> QED
      BY <2>9
  <1>4. \A n \in 0..N : n \in T
    <2> HIDE DEF T, N
    <2> QED
      BY <1>1, <1>2, <1>3, UpTo
  <1>5. N \in T
    BY <1>1, <1>4
  <1> QED
    BY <1>5

\* What InOrder returns (dedup.py 49).
LEMMA InOrderLists ==
  ASSUME NEW ts \in SUBSET Stamps, IsFiniteSet(ts)
  PROVE  /\ InOrder(ts) \in Seq(ts)
         /\ \A i, j \in 1..Len(InOrder(ts)) : i < j => Before(InOrder(ts)[i], InOrder(ts)[j])
         /\ \A t \in ts : \E i \in 1..Len(InOrder(ts)) : InOrder(ts)[i] = t
  <1> DEFINE n == Cardinality(ts)
             s == InOrder(ts)
  <1>1. n \in Nat
    BY FS_CardinalityType
  <1>2. SortedList(s, ts)
    <2>1. \E r : SortedList(r, ts)
      BY CanSort
    <2>2. \E r \in [1..n -> ts] : \A i, j \in 1..n : i < j => Before(r[i], r[j])
      BY <2>1 DEF SortedList
    <2> QED
      BY <2>2, Zenon DEF InOrder, SortedList
  <1>3. /\ s \in [1..n -> ts]
        /\ \A i, j \in 1..n : i < j => Before(s[i], s[j])
    BY <1>2 DEF SortedList
  <1> HIDE DEF s, n
  <1>4. s \in Seq(ts) /\ Len(s) = n
    BY <1>1, <1>3, IsSeq
  <1>5. IsInjective(s)
    <2> SUFFICES ASSUME NEW a \in 1..n, NEW b \in 1..n, s[a] = s[b] PROVE a = b
      BY <1>3 DEF IsInjective
    <2>1. s[a] \in Stamps /\ s[b] \in Stamps
      BY <1>3
    <2>2. ~Before(s[a], s[b]) /\ ~Before(s[b], s[a])
      BY <2>1, BeforeOrder
    <2>3. ~(a < b) /\ ~(b < a)
      BY <1>3, <2>2
    <2> QED
      BY <1>1, <2>3
  <1>6. s \in Surjection(1..n, ts)
    <2>1. s \in Injection(1..n, ts)
      BY <1>3, <1>5 DEF Injection
    <2>2. IsFiniteSet(1..n) /\ Cardinality(1..n) = n
      BY <1>1, FS_Interval
    <2> QED
      BY <2>1, <2>2, FS_Injection DEF n
  <1>7. \A t \in ts : \E i \in 1..n : s[i] = t
    BY <1>6 DEF Surjection
  <1> QED
    BY <1>3, <1>4, <1>7 DEF s

-----------------------------------------------------------------------------
(* What a trim keeps. *)

\* The last events of a sequence: all of them when there are no more.
LEMMA LastOfKeeps ==
  ASSUME NEW S, NEW s \in Seq(S), NEW n \in Nat
  PROVE  /\ LastOf(s, n) \in Seq(S) /\ Len(LastOf(s, n)) <= n
         /\ Range(LastOf(s, n)) \subseteq Range(s)
         /\ IsInjective(s) => IsInjective(LastOf(s, n))
         /\ Len(s) <= n => LastOf(s, n) = s
  <1> DEFINE d == Max({0, Len(s) - n})
  <1>1. Len(s) \in Nat
    OBVIOUS
  <1>2. d \in {0, Len(s) - n} /\ d >= 0 /\ d >= Len(s) - n
    <2> DEFINE D == {0, Len(s) - n}
    <2>1. D \in SUBSET Int /\ D # {} /\ Len(s) \in Int /\ \A t \in D : t <= Len(s)
      BY <1>1
    <2>2. 0 \in D /\ Len(s) - n \in D
      OBVIOUS
    <2>3. Max(D) \in D /\ \A t \in D : t <= Max(D)
      <3> HIDE DEF D
      <3> QED
        BY <2>1, GreatestElement
    <2> HIDE DEF D
    <2>4. 0 <= Max(D) /\ Len(s) - n <= Max(D) /\ Max(D) \in Int
      BY <2>1, <2>2, <2>3
    <2> QED
      BY <1>1, <2>3, <2>4 DEF D
  <1>3. LastOf(s, n) = SubSeq(s, d + 1, Len(s))
    BY DEF LastOf
  <1> HIDE DEF d
  <1>4. d \in 0..Len(s) /\ Len(s) - d <= n
    BY <1>1, <1>2
  <1>5. /\ LastOf(s, n) \in Seq(S) /\ Len(LastOf(s, n)) = Len(s) - d
        /\ \A k \in 1..(Len(s) - d) : LastOf(s, n)[k] = s[d + k]
    BY <1>3, <1>4, Cut
  <1>6. /\ DOMAIN LastOf(s, n) = 1..(Len(s) - d) /\ DOMAIN s = 1..Len(s)
        /\ \A k \in 1..(Len(s) - d) : d + k \in 1..Len(s)
    BY <1>4, <1>5
  <1>7. Range(LastOf(s, n)) \subseteq Range(s)
    BY <1>5, <1>6 DEF Range
  <1>8. ASSUME IsInjective(s) PROVE IsInjective(LastOf(s, n))
    <2> SUFFICES ASSUME NEW a \in 1..(Len(s) - d), NEW b \in 1..(Len(s) - d),
                        LastOf(s, n)[a] = LastOf(s, n)[b]
                 PROVE  a = b
      BY <1>6 DEF IsInjective
    <2>1. d + a = d + b
      BY <1>5, <1>6, <1>8 DEF IsInjective
    <2> QED
      BY <1>4, <2>1
  <1>9. ASSUME Len(s) <= n PROVE LastOf(s, n) = s
    <2>1. d = 0
      BY <1>1, <1>2, <1>9
    <2> QED
      BY <1>3, <2>1, SubSeqFull
  <1> QED
    BY <1>4, <1>5, <1>7, <1>8, <1>9

\* The windows are numbers, and the horizon spans the window of the rule and
\* of the dedup together.
LEMMA HorizonSpans ==
  /\ Horizon \in Nat /\ DedupWindow \in Nat /\ Timeframe \in Nat
  /\ Horizon >= Timeframe + DedupWindow
  <1> DEFINE D == {DedupWindow, Timeframe, Timespan, BehavioralSpan}
  <1>1. DedupWindow \in Nat /\ Timeframe \in Nat /\ Timespan \in Nat /\ BehavioralSpan \in Nat
    BY WindowsAssumption
  <1>2. D \in SUBSET Int /\ D # {} /\ DedupWindow + Timeframe + Timespan + BehavioralSpan \in Int
        /\ \A t \in D : t <= DedupWindow + Timeframe + Timespan + BehavioralSpan
    BY <1>1
  <1>3. Timeframe \in D /\ DedupWindow \in D
    OBVIOUS
  <1>4. Max(D) \in D /\ \A t \in D : t <= Max(D)
    <2> HIDE DEF D
    <2> QED
      BY <1>2, GreatestElement
  <1>5. Horizon = Max(D) + DedupWindow
    BY DEF Horizon
  <1> HIDE DEF D
  <1>6. Max(D) \in Int /\ Timeframe <= Max(D)
    BY <1>2, <1>3, <1>4
  <1> QED
    BY <1>1, <1>5, <1>6

\* Events have a number or None for a time.
LEMMA EventTimes ==
  ASSUME NEW E \in SUBSET Event
  PROVE  /\ \A e \in E : e.time \in Stamps /\ (e.time # None => e.time \in Nat /\ e.time <= MaxTime)
         /\ TimesOf(Dated(E)) \subseteq Times /\ TimesOf(E) \subseteq Stamps
         /\ TimesOf(Dated(E)) \in SUBSET Int
         /\ MaxTime \in Int /\ \A t \in TimesOf(Dated(E)) : 0 <= t /\ t <= MaxTime
  <1>1. \A e \in Event : e.time \in Stamps
    BY DEF Event, Stamps
  <1>2. \A t \in Stamps : t # None => t \in Nat /\ t <= MaxTime /\ t \in Times
    BY BoundsAssumption DEF Stamps, Times
  <1>3. \A e \in E : e.time \in Stamps /\ (e.time # None => e.time \in Times)
    BY <1>1, <1>2
  <1>4. TimesOf(Dated(E)) \subseteq Times /\ TimesOf(E) \subseteq Stamps
    BY <1>3 DEF TimesOf, Dated
  <1>5. \A t \in Times : t \in Int /\ 0 <= t /\ t <= MaxTime
    BY BoundsAssumption DEF Times
  <1> QED
    BY <1>1, <1>2, <1>4, <1>5, BoundsAssumption

\* The trim by age keeps exactly the recent events (live.py 191-198).
LEMMA DropOldKeeps ==
  ASSUME NEW S \in SUBSET Event, NEW s \in Seq(S)
  PROVE  /\ DropOld(s) \in Seq(S)
         /\ Range(DropOld(s)) = Recent(Range(s))
         /\ IsInjective(s) => IsInjective(DropOld(s))
  <1> DEFINE R == Range(s)
             D == TimesOf(Dated(R))
             cutoff == Max(D) - Horizon
             A == {e \in R : e.time = None \/ e.time >= cutoff}
  <1>1. R \in SUBSET Event
    BY DEF Range
  <1>2. \A e \in R : e.time # None => e.time \in Int
    BY <1>1, EventTimes, SMTT(20)
  <1>3. CASE Dated(R) = {}
    <2>1. DropOld(s) = s /\ Recent(R) = R
      BY <1>3 DEF DropOld, Recent
    <2> QED
      BY <2>1
  <1>4. CASE Dated(R) # {}
    <2>1. D \in SUBSET Int /\ MaxTime \in Int /\ \A t \in D : t <= MaxTime
      BY <1>1, EventTimes
    <2>2. D # {}
      BY <1>4 DEF TimesOf
    <2>3. Max(D) \in D /\ \A t \in D : t <= Max(D)
      <3> HIDE DEF D
      <3> QED
        BY <2>1, <2>2, GreatestElement
    <2>4. DropOld(s) = Filter(s, A)
      BY <1>4 DEF DropOld
    <2>5. /\ Filter(s, A) \in Seq(S) /\ Range(Filter(s, A)) = R \cap A
          /\ IsInjective(s) => IsInjective(Filter(s, A))
      <3> HIDE DEF A
      <3> QED
        BY FilterKeeps
    <2>6. ASSUME NEW e \in R, e.time # None
          PROVE  (\A d \in Dated(R) : e.time >= d.time - Horizon) <=> e.time >= cutoff
      <3>1. \A d \in Dated(R) : d.time \in D
        BY DEF TimesOf
      <3>2. PICK top \in Dated(R) : top.time = Max(D)
        BY <2>3 DEF TimesOf
      <3> HIDE DEF D
      <3>3. \A d \in Dated(R) : d.time \in Int /\ d.time <= Max(D)
        BY <2>1, <2>3, <3>1
      <3>4. e.time \in Int /\ Horizon \in Int
        BY <1>2, <2>6, HorizonSpans
      <3>5. Max(D) \in Int
        BY <2>1, <2>3
      <3>6. \A d \in Dated(R) : d.time - Horizon <= cutoff
        BY <3>3, <3>4, <3>5
      <3>7. top.time - Horizon = cutoff
        BY <3>2
      <3>8. cutoff \in Int /\ \A d \in Dated(R) : d.time - Horizon \in Int
        BY <3>3, <3>4, <3>5
      <3> HIDE DEF cutoff, R
      <3>9. ASSUME e.time >= cutoff, NEW d \in Dated(R) PROVE e.time >= d.time - Horizon
        BY <3>4, <3>6, <3>8, <3>9
      <3> QED
        BY <3>2, <3>7, <3>9
    <2>7. A = Recent(R)
      <3> HIDE DEF D
      <3> QED
        BY <2>6 DEF Recent
    <2>8. R \cap A = A
      OBVIOUS
    <2> QED
      BY <2>4, <2>5, <2>7, <2>8
  <1> QED
    BY <1>3, <1>4

-----------------------------------------------------------------------------
(* What the rules return. *)

\* The logins at or after b.
From(E, ip, b) == {t \in Login(E, ip) \ {None} : t >= b}

\* The threshold rule alerts at the first crossing.
LEMMA BruteIs ==
  ASSUME NEW E \in SUBSET Event, NEW ip
  PROVE  /\ Brute(E, ip) \subseteq TimesOf(E)
         /\ Crossings(Of(E, "fail", ip)) \subseteq TimesOf(Dated(Of(E, "fail", ip)))
         /\ Crossings(Of(E, "fail", ip)) # {} =>
              \E t \in Crossings(Of(E, "fail", ip)) :
                /\ Brute(E, ip) = {t}
                /\ \A c \in Crossings(Of(E, "fail", ip)) : t <= c
         /\ Brute(E, ip) \ {None} # {} => Crossings(Of(E, "fail", ip)) # {}
  <1> DEFINE G == Of(E, "fail", ip)
             C == Crossings(G)
  <1>1. G \in SUBSET Event /\ G \subseteq E
    BY DEF Of
  <1>2. C \subseteq TimesOf(Dated(G))
    BY DEF Crossings
  <1>3. TimesOf(Dated(G)) \subseteq TimesOf(E)
    BY <1>1 DEF TimesOf, Dated
  <1>4. C \in SUBSET Int /\ \A t \in C : 0 <= t
    BY <1>1, <1>2, EventTimes
  <1>5. ASSUME C # {}
        PROVE  \E t \in C : Brute(E, ip) = {t} /\ \A c \in C : t <= c
    <2>1. Dated(G) # {}
      BY <1>2, <1>5 DEF TimesOf
    <2>2. Brute(E, ip) = {Min(C)}
      BY <1>5, <2>1 DEF Brute
    <2> HIDE DEF C
    <2>3. Min(C) \in C /\ \A c \in C : Min(C) <= c
      BY <1>4, <1>5, SmallestElement
    <2> QED
      BY <2>2, <2>3
  <1>6. ASSUME C = {} PROVE Brute(E, ip) = {} \/ (Brute(E, ip) = {None} /\ Dated(G) = {} /\ G # {})
    BY <1>6 DEF Brute
  <1>7. ASSUME Dated(G) = {}, G # {} PROVE None \in TimesOf(E)
    BY <1>1, <1>7 DEF Dated, TimesOf
  <1> HIDE DEF C, G
  <1>8. Brute(E, ip) \subseteq TimesOf(E)
    BY <1>2, <1>3, <1>5, <1>6, <1>7
  <1>9. Brute(E, ip) \ {None} # {} => C # {}
    BY <1>6
  <1> QED
    BY <1>2, <1>5, <1>8, <1>9 DEF C, G

\* The correlation alerts at the first login after the brute force.
LEMMA ChainIs ==
  ASSUME NEW E \in SUBSET Event, NEW ip
  PROVE  /\ Chain(E, ip) = {Min(From(E, ip, b)) : b \in {c \in Brute(E, ip) \ {None} :
                                From(E, ip, c) # {} /\ Min(From(E, ip, c)) - c <= Timespan}}
         /\ \A b \in Brute(E, ip) \ {None} : b \in Nat /\ From(E, ip, b) \subseteq TimesOf(E) \ {None}
         /\ \A b \in Brute(E, ip) \ {None} : From(E, ip, b) # {} =>
              /\ Min(From(E, ip, b)) \in From(E, ip, b)
              /\ \A t \in From(E, ip, b) : Min(From(E, ip, b)) <= t
         /\ Chain(E, ip) \subseteq TimesOf(E) \ {None}
  <1>1. Chain(E, ip) = {Min(From(E, ip, b)) : b \in {c \in Brute(E, ip) \ {None} :
                                From(E, ip, c) # {} /\ Min(From(E, ip, c)) - c <= Timespan}}
    BY DEF Chain, From
  <1>2. \A t \in TimesOf(E) \ {None} : t \in Nat
    BY EventTimes DEF TimesOf
  <1>3. \A b \in Brute(E, ip) \ {None} : b \in Nat
    BY <1>2, BruteIs
  <1>4. Login(E, ip) \subseteq TimesOf(E)
    BY DEF Login, TimesOf, Of
  <1>5. \A b : From(E, ip, b) \subseteq TimesOf(E) \ {None}
    BY <1>4 DEF From
  <1>6. ASSUME NEW b, From(E, ip, b) # {}
        PROVE  /\ Min(From(E, ip, b)) \in From(E, ip, b)
               /\ \A t \in From(E, ip, b) : Min(From(E, ip, b)) <= t
    <2>1. From(E, ip, b) \in SUBSET Int /\ \A t \in From(E, ip, b) : 0 <= t
      BY <1>2, <1>5
    <2> QED
      BY <1>6, <2>1, SmallestElement
  <1>7. Chain(E, ip) \subseteq TimesOf(E) \ {None}
    BY <1>1, <1>5, <1>6
  <1> QED
    BY <1>1, <1>3, <1>5, <1>6, <1>7

\* An alert carries the time of an event.
LEMMA AlertsOf ==
  ASSUME NEW E \in SUBSET Event, NEW k \in Keys
  PROVE  /\ RunEvents(E)[k] \subseteq TimesOf(E) /\ RunEvents(E)[k] \in SUBSET Stamps
         /\ IsFiniteSet(RunEvents(E)[k])
         /\ None \in RunEvents(E)[k] => \E e \in E : e.time = None
         /\ Dated(E) = E => RunEvents(E)[k] \in SUBSET Times
  <1>1. Login(E, k[2]) \subseteq TimesOf(E)
    BY DEF Login, TimesOf, Of
  <1>2. RunEvents(E)[k] \in {{}, Brute(E, k[2]), Login(E, k[2]), Chain(E, k[2])}
    BY Zenon DEF RunEvents
  <1>3. RunEvents(E)[k] \subseteq TimesOf(E)
    BY <1>1, <1>2, BruteIs, ChainIs
  <1>4. IsFiniteSet(Stamps)
    <2>1. IsFiniteSet(Times)
      BY BoundsAssumption, FS_Interval DEF Times
    <2> QED
      BY <2>1, FS_AddElement DEF Stamps
  <1>5. RunEvents(E)[k] \in SUBSET Stamps
    BY <1>3, EventTimes
  <1>6. IsFiniteSet(RunEvents(E)[k])
    BY <1>4, <1>5, FS_Subset
  <1>7. None \in TimesOf(E) => \E e \in E : e.time = None
    BY DEF TimesOf
  <1>8. Dated(E) = E => TimesOf(E) \subseteq Times
    BY EventTimes
  <1> QED
    BY <1>3, <1>5, <1>6, <1>7, <1>8

-----------------------------------------------------------------------------
(* Alerts of a growing past. *)

\* F continues E: no event of F comes before one of E.
Continues(F, E) ==
  /\ F \in SUBSET Event /\ IsFiniteSet(F) /\ Dated(F) = F
  /\ E \subseteq F
  /\ \A f \in F \ E, e \in E : e.time <= f.time

\* The numbers that are times in a past that continues.
LEMMA ContinuedTimes ==
  ASSUME NEW E, NEW F, Continues(F, E)
  PROVE  /\ E \in SUBSET Event /\ IsFiniteSet(E) /\ Dated(E) = E
         /\ \A f \in F : f.time \in Nat /\ f.time # None
         /\ \A t \in TimesOf(F) \ TimesOf(E), a \in TimesOf(E) : a < t /\ a \in Nat /\ t \in Nat
  <1>1. F \in SUBSET Event /\ IsFiniteSet(F) /\ Dated(F) = F /\ E \subseteq F
        /\ \A f \in F \ E, e \in E : e.time <= f.time
    BY DEF Continues
  <1>2. \A f \in F : f.time # None
    BY <1>1 DEF Dated
  <1>3. \A f \in F : f.time \in Nat
    BY <1>1, <1>2, EventTimes
  <1>4. E \in SUBSET Event /\ IsFiniteSet(E) /\ Dated(E) = E
    BY <1>1, <1>2, FS_Subset DEF Dated
  <1>5. ASSUME NEW t \in TimesOf(F) \ TimesOf(E), NEW a \in TimesOf(E)
        PROVE  a < t /\ a \in Nat /\ t \in Nat
    <2>1. PICK f \in F \ E : f.time = t
      BY <1>5 DEF TimesOf
    <2>2. PICK e \in E : e.time = a
      BY DEF TimesOf
    <2>3. a <= t /\ a \in Nat /\ t \in Nat /\ a # t
      BY <1>1, <1>3, <2>1, <2>2
    <2> QED
      BY <2>3
  <1> QED
    BY <1>2, <1>3, <1>4, <1>5

\* A window of a past that continues holds no fewer events, and the same
\* ones when it ends before the new events.
LEMMA CrossingsGrow ==
  ASSUME NEW E, NEW F, Continues(F, E)
  PROVE  /\ Crossings(E) \subseteq Crossings(F)
         /\ \A t \in Crossings(F), e \in E : t < e.time => t \in Crossings(E)
  <1> DEFINE In(S, t) == {e \in Dated(S) : e.time \in (t - Timeframe)..t}
  <1>1. /\ E \in SUBSET Event /\ IsFiniteSet(E) /\ Dated(E) = E
        /\ \A f \in F : f.time \in Nat /\ f.time # None
    BY ContinuedTimes
  <1>2. /\ F \in SUBSET Event /\ IsFiniteSet(F) /\ Dated(F) = F /\ E \subseteq F
        /\ \A f \in F \ E, e \in E : e.time <= f.time
    BY DEF Continues
  <1>3. \A S, t : t \in Crossings(S) <=> t \in TimesOf(Dated(S)) /\ Cardinality(In(S, t)) >= Threshold
    BY DEF Crossings
  <1>4. Threshold \in Nat /\ Timeframe \in Nat
    BY WindowsAssumption
  <1>5. ASSUME NEW t \in Crossings(E) PROVE t \in Crossings(F)
    <2>1. In(E, t) \subseteq In(F, t) /\ In(F, t) \subseteq F /\ In(E, t) \subseteq E
      BY <1>1, <1>2
    <2>2. Cardinality(In(E, t)) >= Threshold
      BY <1>3
    <2>2b. t \in TimesOf(Dated(E))
      BY <1>3
    <2>2a. t \in TimesOf(Dated(F))
      BY <1>1, <1>2, <2>2b DEF TimesOf
    <2> HIDE DEF In
    <2>3. IsFiniteSet(In(F, t)) /\ IsFiniteSet(In(E, t))
      BY <1>1, <1>2, <2>1, FS_Subset
    <2>4. Cardinality(In(E, t)) <= Cardinality(In(F, t))
      BY <2>1, <2>3, FS_Subset
    <2>5. Cardinality(In(F, t)) \in Nat /\ Cardinality(In(E, t)) \in Nat
      BY <2>3, FS_CardinalityType
    <2>6. Cardinality(In(F, t)) >= Threshold
      BY <1>4, <2>2, <2>4, <2>5
    <2> QED
      BY <1>3, <2>2a, <2>6
  <1>6. ASSUME NEW t \in Crossings(F), NEW e \in E, t < e.time PROVE t \in Crossings(E)
    <2>1. PICK f \in F : f.time = t
      BY <1>2, <1>3 DEF TimesOf
    <2>2. t \in Nat /\ e.time \in Nat
      BY <1>1, <1>2, <2>1
    <2>3. \A g \in F : g.time <= t => g \in E
      <3> SUFFICES ASSUME NEW g \in F, g.time <= t, g \notin E PROVE FALSE
        OBVIOUS
      <3>1. e.time <= g.time /\ g.time \in Nat
        BY <1>1, <1>2
      <3> QED
        BY <1>6, <2>2, <3>1
    <2>4. \A g \in F : g.time \in (t - Timeframe)..t => g.time <= t
      BY <2>2, <1>4
    <2>5. In(F, t) = In(E, t)
      BY <1>1, <1>2, <2>3, <2>4
    <2>6. t <= t
      BY <2>2
    <2>7. t \in TimesOf(Dated(E))
      BY <1>1, <2>1, <2>3, <2>6 DEF TimesOf
    <2> HIDE DEF In
    <2> QED
      BY <1>3, <2>5, <2>7
  <1> QED
    BY <1>5, <1>6

\* The first crossing stays the first.
LEMMA BruteStays ==
  ASSUME NEW E, NEW F, Continues(F, E), NEW ip, Brute(E, ip) # {}
  PROVE  Brute(F, ip) = Brute(E, ip)
  <1> DEFINE G == Of(E, "fail", ip)
             H == Of(F, "fail", ip)
  <1>1. /\ E \in SUBSET Event /\ Dated(E) = E /\ F \in SUBSET Event
        /\ IsFiniteSet(F) /\ Dated(F) = F /\ E \subseteq F
        /\ \A f \in F \ E, e \in E : e.time <= f.time
    BY ContinuedTimes DEF Continues
  <1>2. H \in SUBSET Event /\ IsFiniteSet(H) /\ Dated(H) = H /\ G \subseteq H /\ Dated(G) = G
    <2>1. H \subseteq F
      BY DEF Of
    <2> QED
      BY <1>1, <2>1, FS_Subset DEF Of, Dated
  <1>3. \A f \in H \ G, e \in G : e.time <= f.time
    BY <1>1 DEF Of
  <1>4. Continues(H, G)
    BY <1>2, <1>3 DEF Continues
  <1>5. Crossings(G) # {}
    <2>1. G # {}
      BY DEF Brute, Dated
    <2> QED
      BY <1>2, <2>1 DEF Brute
  <1>6. PICK t \in Crossings(G) : Brute(E, ip) = {t} /\ \A c \in Crossings(G) : t <= c
    BY <1>1, <1>5, BruteIs
  <1>7. t \in Crossings(H)
    BY <1>4, CrossingsGrow
  <1>8. PICK u \in Crossings(H) : Brute(F, ip) = {u} /\ \A c \in Crossings(H) : u <= c
    BY <1>1, <1>7, BruteIs
  <1>9. Crossings(G) \subseteq TimesOf(G) /\ Crossings(H) \subseteq TimesOf(H)
    BY <1>1, <1>2, BruteIs
  <1>10. PICK e \in G : e.time = t
    BY <1>9 DEF TimesOf
  <1>11. PICK f \in H : f.time = u
    BY <1>9 DEF TimesOf
  <1>12. t \in Nat /\ u \in Nat
    BY <1>2, <1>4, <1>10, <1>11, ContinuedTimes
  <1>13. u <= t
    BY <1>7, <1>8
  <1>14. u < t => u \in Crossings(G)
    BY <1>4, <1>10, CrossingsGrow
  <1>15. u = t
    BY <1>6, <1>12, <1>13, <1>14
  <1> QED
    BY <1>6, <1>8, <1>15

\* The correlation's alert stays.
LEMMA ChainStays ==
  ASSUME NEW E, NEW F, Continues(F, E), NEW ip, Chain(E, ip) # {}
  PROVE  Chain(F, ip) = Chain(E, ip)
  <1>1. E \in SUBSET Event /\ F \in SUBSET Event /\ E \subseteq F
    BY ContinuedTimes DEF Continues
  <1> DEFINE Paired(S) == {c \in Brute(S, ip) \ {None} :
                             From(S, ip, c) # {} /\ Min(From(S, ip, c)) - c <= Timespan}
  <1>0. \A S \in SUBSET Event : Chain(S, ip) = {Min(From(S, ip, b)) : b \in Paired(S)}
    BY ChainIs, Zenon
  <1>2a. Paired(E) # {}
    <2> HIDE DEF Paired
    <2> QED
      BY <1>0, <1>1
  <1>2. PICK b \in Brute(E, ip) \ {None} :
          From(E, ip, b) # {} /\ Min(From(E, ip, b)) - b <= Timespan
    BY <1>2a
  <1>3. Brute(E, ip) = {b} /\ Brute(F, ip) = {b}
    <2>1. \E t : Brute(E, ip) = {t}
      BY <1>1, <1>2, BruteIs
    <2> QED
      BY <1>2, <2>1, BruteStays
  <1>4. Login(E, ip) \subseteq Login(F, ip) /\ Login(E, ip) \subseteq TimesOf(E)
        /\ Login(F, ip) \subseteq TimesOf(F)
    BY <1>1 DEF Login, TimesOf, Of
  <1>5. From(E, ip, b) \subseteq From(F, ip, b)
    BY <1>4 DEF From
  <1>6. \A t \in From(F, ip, b) \ From(E, ip, b) : t \in Login(F, ip) \ Login(E, ip) /\ t # None
    BY <1>4 DEF From
  <1> DEFINE m == Min(From(E, ip, b))
             n == Min(From(F, ip, b))
  <1>7. m \in From(E, ip, b) /\ \A t \in From(E, ip, b) : m <= t
    BY <1>1, <1>2, ChainIs
  <1>8. b \in Brute(F, ip) \ {None} /\ From(F, ip, b) # {}
    BY <1>2, <1>3, <1>5
  <1>9. n \in From(F, ip, b) /\ \A t \in From(F, ip, b) : n <= t
    BY <1>1, <1>8, ChainIs
  <1>10. n <= m
    BY <1>5, <1>7, <1>9
  <1>11. From(E, ip, b) \subseteq TimesOf(E) /\ From(F, ip, b) \subseteq TimesOf(F)
    BY <1>4 DEF From
  <1>12. \A t \in TimesOf(F) : t \in Nat
    BY ContinuedTimes DEF TimesOf
  <1>13. TimesOf(E) \subseteq TimesOf(F)
    BY <1>1 DEF TimesOf
  <1>14. m \in Nat /\ n \in Nat
    BY <1>7, <1>9, <1>11, <1>12, <1>13
  <1>15. n \in From(E, ip, b)
    <2> SUFFICES ASSUME n \notin From(E, ip, b) PROVE FALSE
      OBVIOUS
    <2>1. n \in Login(F, ip) \ Login(E, ip)
      BY <1>6, <1>9
    <2>2. PICK f \in Of(F, "login", ip) : f.time = n /\ f \notin E
      BY <2>1 DEF Login, TimesOf, Of
    <2>3. PICK e \in E : e.time = m
      BY <1>7, <1>11 DEF TimesOf
    <2>4. f \in F \ E
      BY <2>2 DEF Of
    <2>5. m <= n
      BY <2>2, <2>3, <2>4 DEF Continues
    <2>6. m = n
      BY <1>10, <1>14, <2>5
    <2> QED
      BY <1>7, <2>6
  <1>16. m = n
    BY <1>7, <1>10, <1>14, <1>15
  <1>17. Chain(E, ip) = {m}
    <2>1. Paired(E) = {b}
      BY <1>2, <1>3
    <2> HIDE DEF Paired
    <2> QED
      BY <1>0, <1>1, <2>1
  <1>18. n - b <= Timespan
    BY <1>2, <1>16
  <1>19. Chain(F, ip) = {n}
    <2>1. Paired(F) = {b}
      BY <1>3, <1>8, <1>18
    <2> HIDE DEF Paired
    <2> QED
      BY <1>0, <1>1, <2>1
  <1> QED
    BY <1>16, <1>17, <1>19

\* An alert of the past stays an alert, and the new ones are later.
LEMMA RulesGrow ==
  ASSUME NEW E, NEW F, Continues(F, E), NEW k \in Keys
  PROVE  /\ RunEvents(E)[k] \subseteq RunEvents(F)[k]
         /\ \A t \in RunEvents(F)[k] \ RunEvents(E)[k], a \in RunEvents(E)[k] : a < t
         /\ RunEvents(E)[k] \in SUBSET Times /\ RunEvents(F)[k] \in SUBSET Times
  <1>1. /\ E \in SUBSET Event /\ F \in SUBSET Event /\ E \subseteq F
        /\ Dated(E) = E /\ Dated(F) = F
    BY ContinuedTimes DEF Continues
  <1>2. RunEvents(E)[k] \in SUBSET Times /\ RunEvents(F)[k] \in SUBSET Times
    BY <1>1, AlertsOf
  <1>3. CASE k[1] \in Suppressed
    BY <1>2, <1>3 DEF RunEvents
  <1>4. CASE k[1] \notin Suppressed /\ k[1] = "brute"
    <2>1. RunEvents(E)[k] = Brute(E, k[2]) /\ RunEvents(F)[k] = Brute(F, k[2])
      BY <1>4 DEF RunEvents
    <2> QED
      BY <1>2, <2>1, BruteStays
  <1>5. CASE k[1] \notin Suppressed /\ k[1] = "login"
    <2>1. RunEvents(E)[k] = Login(E, k[2]) /\ RunEvents(F)[k] = Login(F, k[2])
      BY <1>5 DEF RunEvents
    <2>2. Login(E, k[2]) \subseteq Login(F, k[2])
      BY <1>1 DEF Login, TimesOf, Of
    <2>3. ASSUME NEW t \in Login(F, k[2]) \ Login(E, k[2]), NEW a \in Login(E, k[2]) PROVE a < t
      <3>1. PICK f \in F \ E : f.time = t
        BY <2>3 DEF Login, TimesOf, Of
      <3>2. PICK e \in E : e.time = a
        BY DEF Login, TimesOf, Of
      <3>3. a <= t /\ a # t
        BY <2>3, <3>1, <3>2 DEF Continues
      <3>4. a \in Nat /\ t \in Nat
        BY <1>1, <3>1, <3>2, ContinuedTimes
      <3> QED
        BY <3>3, <3>4
    <2> QED
      BY <1>2, <2>1, <2>2, <2>3
  <1>6. CASE k[1] \notin Suppressed /\ k[1] \notin {"brute", "login"}
    <2>1. RunEvents(E)[k] = Chain(E, k[2]) /\ RunEvents(F)[k] = Chain(F, k[2])
      BY <1>6 DEF RunEvents
    <2> QED
      BY <1>2, <2>1, ChainStays
  <1> QED
    BY <1>3, <1>4, <1>5, <1>6

\* What the deduplicator keeps of a past it keeps of its continuation, and
\* what it keeps besides comes more than the window later (dedup.py 49-67).
LEMMA DedupGrows ==
  ASSUME NEW A \in SUBSET Times, NEW B \in SUBSET Times, A \subseteq B,
         \A t \in B \ A, a \in A : a < t
  PROVE  /\ Deduplicate(A) \subseteq Deduplicate(B) /\ Deduplicate(B) \subseteq B
         /\ \A t \in Deduplicate(B), d \in B : d < t => t - d > DedupWindow
         /\ Deduplicate(B) \cap A \subseteq Deduplicate(A)
  <1>1. \A t \in B : t \in Nat /\ t # None
    BY NoneAssumption, BoundsAssumption DEF Times
  <1>2. DedupWindow \in Nat
    BY WindowsAssumption
  <1>3. \A S \in SUBSET B : Deduplicate(S) = {t \in S : ~\E d \in S : d < t /\ t - d <= DedupWindow}
    BY <1>1 DEF Deduplicate
  <1>4. Deduplicate(A) \subseteq Deduplicate(B)
    <2> SUFFICES ASSUME NEW t \in A, ~\E d \in A : d < t /\ t - d <= DedupWindow,
                        NEW d \in B, d < t, t - d <= DedupWindow
                 PROVE  FALSE
      BY <1>3
    <2>1. d \notin A
      OBVIOUS
    <2>2. t < d
      BY <2>1
    <2> QED
      BY <1>1, <2>2
  <1>5. \A t \in Deduplicate(B), d \in B : d < t => t - d > DedupWindow
    <2> SUFFICES ASSUME NEW t \in Deduplicate(B), NEW d \in B, d < t PROVE t - d > DedupWindow
      OBVIOUS
    <2>1. t \in B /\ ~(t - d <= DedupWindow)
      BY <1>3
    <2>2. t \in Nat /\ d \in Nat
      BY <1>1, <2>1
    <2> QED
      BY <1>2, <2>1, <2>2
  <1>6. Deduplicate(B) \cap A \subseteq Deduplicate(A)
    BY <1>3
  <1> QED
    BY <1>3, <1>4, <1>5, <1>6

-----------------------------------------------------------------------------
(* What a poll emits of one key. *)

\* What is remembered of a key, and what was sent of it.
Account == [last: Emission \union {None}, sent: Seq(Emission)]

StampsIn(q) == {q[i].stamp : i \in 1..Len(q)}
TimesIn(q) == {q[i].time : i \in 1..Len(q)}

\* The part of Remembered about one key.
Sound(a) ==
  /\ a.last = IF a.sent = <<>> THEN None ELSE a.sent[Len(a.sent)]
  /\ \A i, j \in 1..Len(a.sent) : i < j => a.sent[j].stamp - a.sent[i].stamp > DedupWindow
  /\ \A i \in 1..Len(a.sent) :
       IF a.sent[i].wall
       THEN a.sent[i].time = None /\ \E e \in logged : e.time = None
       ELSE a.sent[i].stamp = a.sent[i].time

\* The stamp of an alert.
StampOf(t) == IF t = None THEN clock ELSE t

\* Emitting one alert: it extends what was sent, or it is not more than the
\* window after what was sent last.
LEMMA EmitOne ==
  ASSUME NEW a \in Account, NEW t \in Stamps, clock \in Times
  PROVE  /\ EmitAlert(a, t) \in Account
         /\ LET e == [time |-> t, stamp |-> StampOf(t), wall |-> t = None]
            IN  \/ /\ EmitAlert(a, t) = a
                   /\ a.last # None /\ a.last \in Emission
                   /\ StampOf(t) - a.last.stamp <= DedupWindow
                \/ /\ a.last = None \/ (a.last \in Emission /\ StampOf(t) - a.last.stamp > DedupWindow)
                   /\ e \in Emission
                   /\ EmitAlert(a, t) = [last |-> e, sent |-> Append(a.sent, e)]
  <1> DEFINE stamp == StampOf(t)
             e == [time |-> t, stamp |-> stamp, wall |-> t = None]
             skip == a.last # None /\ stamp - a.last.stamp <= DedupWindow
  <1>1. EmitAlert(a, t) = IF skip THEN a ELSE [last |-> e, sent |-> Append(a.sent, e)]
    BY DEF EmitAlert, StampOf
  <1>2. a.last \in Emission \union {None} /\ a.sent \in Seq(Emission)
    BY DEF Account
  <1>3. stamp \in Times
    BY DEF Stamps, StampOf
  <1>4. e \in Emission
    BY <1>3 DEF Emission, Stamps
  <1>5. \A x \in Emission : x.stamp \in Times
    BY DEF Emission
  <1> HIDE DEF e, stamp
  <1>6. CASE skip
    BY <1>1, <1>2, <1>6 DEF stamp
  <1>7. CASE ~skip
    <2>1. EmitAlert(a, t) = [last |-> e, sent |-> Append(a.sent, e)]
      BY <1>1, <1>7
    <2>2. Append(a.sent, e) \in Seq(Emission)
      BY <1>2, <1>4, AppendProperties
    <2>3. EmitAlert(a, t) \in Account
      BY <1>4, <2>1, <2>2 DEF Account
    <2>4. ASSUME a.last # None PROVE a.last \in Emission /\ stamp - a.last.stamp > DedupWindow
      <3>1. a.last \in Emission /\ a.last.stamp \in Times
        BY <1>2, <1>5, <2>4
      <3>2. ~(stamp - a.last.stamp <= DedupWindow)
        BY <1>7, <2>4
      <3> QED
        BY <1>3, <3>1, <3>2, WindowsAssumption, BoundsAssumption DEF Times
    <2> QED
      BY <1>4, <2>1, <2>3, <2>4 DEF stamp, e
  <1> QED
    BY <1>6, <1>7

\* What holds of the account before and is kept by every alert holds after
\* the poll.
LEMMA EmitInduction ==
  ASSUME NEW k \in Keys, NEW ts \in Seq(Stamps), NEW G,
         clock \in Times, [last |-> emitted[k], sent |-> sent[k]] \in Account,
         [last |-> emitted[k], sent |-> sent[k]] \in G[0],
         \A j \in 1..Len(ts) : \A a \in Account :
           a \in G[j - 1] => EmitAlert(a, ts[j]) \in G[j]
  PROVE  Emit(k, ts) \in Account /\ Emit(k, ts) \in G[Len(ts)]
  <1> DEFINE n == Len(ts)
             base == [last |-> emitted[k], sent |-> sent[k]]
             next == [p \in Account \X (1..n) |-> EmitAlert(p[1], ts[p[2]])]
             Eq(g) == g = [t \in SUBSET (1..n) |->
                             IF t = {} THEN base ELSE EmitAlert(g[t \ {Max(t)}], ts[Max(t)])]
             iter == CHOOSE g : Eq(g)
  <1>1. n \in Nat /\ DOMAIN ts = 1..n /\ \A j \in 1..n : ts[j] \in Stamps
    OBVIOUS
  <1>0. \A a \in Account, t \in Stamps : EmitAlert(a, t) \in Account
    BY EmitOne
  <1>2. next \in [Account \X (1..n) -> Account]
    <2>1. \A p \in Account \X (1..n) : EmitAlert(p[1], ts[p[2]]) \in Account
      <3> SUFFICES ASSUME NEW p \in Account \X (1..n) PROVE EmitAlert(p[1], ts[p[2]]) \in Account
        OBVIOUS
      <3>1. p[1] \in Account /\ p[2] \in 1..n
        OBVIOUS
      <3> HIDE DEF n
      <3>2. ts[p[2]] \in Stamps
        BY <1>1, <3>1
      <3> QED
        BY <1>0, <3>1, <3>2
    <2> QED
      BY <2>1
  <1>3. PICK g \in [SUBSET (1..n) -> Account] : IsFold(g, base, next, n)
    <2> HIDE DEF next, n
    <2> QED
      BY <1>1, <1>2, FoldExists
  <1>4. \A t \in SUBSET (1..n) : t # {} => Max(t) \in 1..n
    <2>1. \A t \in SUBSET (1..n) : t \in SUBSET Int /\ \A x \in t : x <= n
      BY <1>1
    <2>2. n \in Int
      BY <1>1
    <2> HIDE DEF n
    <2> QED
      BY <2>1, <2>2, GreatestElement
  <1>5. Eq(g)
    <2>1. ASSUME NEW t \in SUBSET (1..n), t # {}
          PROVE  next[<<g[t \ {Max(t)}], Max(t)>>] = EmitAlert(g[t \ {Max(t)}], ts[Max(t)])
      <3>1. t \ {Max(t)} \in SUBSET (1..n)
        OBVIOUS
      <3>2. g[t \ {Max(t)}] \in Account /\ Max(t) \in 1..n
        BY <3>1, <1>4, <2>1
      <3> HIDE DEF n
      <3> QED
        BY <3>2
    <2> HIDE DEF next, n, base
    <2> QED
      BY <1>3, <2>1 DEF IsFold
  <1>6. Eq(iter)
    <2> HIDE DEF Eq
    <2> QED
      BY <1>5
  <1>7. Emit(k, ts) = iter[1..n]
    BY <1>1 DEF Emit, FoldLeft, MapThenFoldSet
  <1> DEFINE acc == [j \in 0..n |-> iter[1..j]]
             T == {j \in 0..n : acc[j] \in Account /\ acc[j] \in G[j]}
  <1> HIDE DEF iter
  <1>8. acc[0] = base
    BY <1>6
  <1>9. ASSUME NEW j \in 1..n PROVE acc[j] = EmitAlert(acc[j - 1], ts[j])
    <2>1. 1..j # {} /\ Max(1..j) = j /\ (1..j) \ {Max(1..j)} = 1..(j - 1)
      BY Peel
    <2>2. 1..j \in SUBSET (1..n)
      OBVIOUS
    <2>3. iter[1..j] = EmitAlert(iter[1..(j - 1)], ts[j])
      <3> HIDE DEF n, base
      <3> QED
        BY <1>6, <2>1, <2>2
    <2> QED
      BY <2>3
  <1>10. acc[n] = Emit(k, ts)
    BY <1>1, <1>7
  <1> HIDE DEF acc, next, Eq
  <1>11. 0 \in T
    <2>1. acc[0] \in Account /\ acc[0] \in G[0] /\ 0 \in 0..n
      BY <1>1, <1>8
    <2> QED
      BY <2>1
  <1>12. ASSUME NEW j \in 1..n, j - 1 \in T PROVE j \in T
    <2>1. acc[j - 1] \in Account /\ acc[j - 1] \in G[j - 1]
      BY <1>12
    <2>2. acc[j] \in Account
      BY <1>0, <1>1, <1>9, <2>1
    <2>3. acc[j] \in G[j]
      BY <1>9, <2>1
    <2> QED
      BY <2>2, <2>3
  <1>13. \A j \in 0..n : j \in T
    <2> HIDE DEF T, n
    <2> QED
      BY <1>1, <1>11, <1>12, UpTo
  <1> QED
    BY <1>1, <1>10, <1>13

\* An alert is sent, or one not more than the window before it was; what was
\* sent stays sent, and nothing is repeated within the window.
LEMMA EmitSound ==
  ASSUME NEW a \in Account, Sound(a), NEW t \in Stamps, clock \in Times,
         t = None => \E e \in logged : e.time = None
  PROVE  LET b == EmitAlert(a, t)
         IN  /\ Sound(b)
             /\ StampsIn(a.sent) \subseteq StampsIn(b.sent)
             /\ \E s \in StampsIn(b.sent) : s >= StampOf(t) - DedupWindow
             /\ \/ b = a
                \/ TimesIn(b.sent) = TimesIn(a.sent) \union {t}
             /\ b = a => \E i \in 1..Len(a.sent) : StampOf(t) - a.sent[i].stamp <= DedupWindow
  <1> DEFINE e == [time |-> t, stamp |-> StampOf(t), wall |-> t = None]
             b == EmitAlert(a, t)
             q == a.sent
             r == Append(q, e)
             n == Len(q)
  <1>1. q \in Seq(Emission) /\ a.last \in Emission \union {None} /\ n \in Nat
    BY DEF Account
  <1>2. \A x \in Emission : x.stamp \in Int /\ x # None
    <2>1. None \notin Emission
      BY NoneAssumption
    <2>2. \A x \in Emission : x.stamp \in Times
      BY DEF Emission
    <2> QED
      BY <2>1, <2>2, BoundsAssumption DEF Times
  <1>2a. \A i \in 1..n : q[i] \in Emission /\ q[i].stamp \in Int
    BY <1>1, <1>2
  <1>3. StampOf(t) \in Int /\ DedupWindow \in Nat
    BY WindowsAssumption, BoundsAssumption DEF StampOf, Stamps, Times
  <1>4. /\ a.last = IF q = <<>> THEN None ELSE q[n]
        /\ \A i, j \in 1..n : i < j => q[j].stamp - q[i].stamp > DedupWindow
        /\ \A i \in 1..n :
             IF q[i].wall
             THEN q[i].time = None /\ \E x \in logged : x.time = None
             ELSE q[i].stamp = q[i].time
    BY DEF Sound
  <1>5. CASE b = a /\ a.last # None /\ StampOf(t) - a.last.stamp <= DedupWindow
    <2>1. q # <<>> /\ a.last = q[n] /\ n \in 1..n
      <3>1. q # <<>> /\ a.last = q[n]
        BY <1>4, <1>5
      <3>2. n # 0
        BY <1>1, <3>1, EmptySeq
      <3> QED
        BY <1>1, <3>1, <3>2
    <2>2. q[n].stamp \in StampsIn(q) /\ q[n].stamp \in Int
      BY <1>2a, <2>1 DEF StampsIn
    <2>3. q[n].stamp >= StampOf(t) - DedupWindow
      BY <1>3, <1>5, <2>1, <2>2
    <2> QED
      BY <1>5, <2>1, <2>2, <2>3
  <1>6. CASE /\ a.last = None \/ (a.last \in Emission /\ StampOf(t) - a.last.stamp > DedupWindow)
             /\ e \in Emission
             /\ b = [last |-> e, sent |-> r]
    <2>1. /\ r \in Seq(Emission) /\ Len(r) = n + 1 /\ r # <<>>
          /\ \A i \in 1..n : r[i] = q[i]
          /\ r[n + 1] = e
      <3> HIDE DEF e, q
      <3> QED
        BY <1>1, <1>6, AppendProperties
    <2>2. \A i \in 1..(n + 1) : i \in 1..n \/ i = n + 1
      BY <1>1
    <2>3. \A i \in 1..n : i \in 1..(n + 1)
      BY <1>1
    <2>4. n + 1 \in 1..(n + 1)
      BY <1>1
    <2>5. ASSUME NEW i \in 1..n PROVE e.stamp - q[i].stamp > DedupWindow
      <3>1. a.last = q[n] /\ a.last # None
        <4>1. q # <<>>
          BY <2>5
        <4> QED
          BY <1>1, <1>2, <1>4, <4>1, <2>5
      <3>2. StampOf(t) - q[n].stamp > DedupWindow
        BY <1>6, <3>1
      <3>3. n \in 1..n /\ q[n].stamp \in Int /\ q[i].stamp \in Int
        BY <1>1, <1>2a
      <3>4. i = n \/ q[n].stamp - q[i].stamp > DedupWindow
        BY <1>1, <1>4, <3>3
      <3>5. e.stamp = StampOf(t)
        OBVIOUS
      <3> QED
        BY <1>3, <3>2, <3>3, <3>4, <3>5
    <2> HIDE DEF r, n, q
    <2>6. Sound(b)
      <3>1. b.last = e /\ b.sent = r
        BY <1>6
      <3>2. b.last = r[Len(r)]
        BY <2>1, <3>1
      <3>3. ASSUME NEW i \in 1..(n + 1), NEW j \in 1..(n + 1), i < j
            PROVE  r[j].stamp - r[i].stamp > DedupWindow
        <4>1. i \in 1..n
          BY <1>1, <3>3
        <4> QED
          BY <1>4, <2>1, <2>2, <2>5, <3>3, <4>1
      <3>4. ASSUME NEW i \in 1..(n + 1)
            PROVE  IF r[i].wall
                   THEN r[i].time = None /\ \E x \in logged : x.time = None
                   ELSE r[i].stamp = r[i].time
        <4>1. CASE i \in 1..n
          BY <1>4, <2>1, <4>1
        <4>2. CASE i = n + 1
          <5>1. r[i] = e /\ (e.wall <=> t = None) /\ e.time = t /\ e.stamp = StampOf(t)
            BY <2>1, <4>2
          <5> QED
            BY <5>1 DEF StampOf
        <4> QED
          BY <2>2, <4>1, <4>2
      <3> QED
        BY <2>1, <3>1, <3>2, <3>3, <3>4 DEF Sound
    <2>7. StampsIn(q) \subseteq StampsIn(r) /\ StampOf(t) \in StampsIn(r)
      <3>1. r[n + 1].stamp = StampOf(t)
        BY <2>1
      <3>2. \A i \in 1..n : r[i].stamp = q[i].stamp /\ i \in 1..(n + 1)
        BY <2>1, <2>3
      <3> QED
        BY <2>1, <2>4, <3>1, <3>2 DEF StampsIn, n
    <2>8. StampOf(t) >= StampOf(t) - DedupWindow
      BY <1>3
    <2>9. TimesIn(r) = TimesIn(q) \union {t}
      <3>1. r[n + 1].time = t
        BY <2>1
      <3>2. \A i \in 1..n : r[i].time = q[i].time /\ i \in 1..(n + 1)
        BY <2>1, <2>3
      <3> QED
        BY <2>1, <2>2, <2>4, <3>1, <3>2 DEF TimesIn, n
    <2>10. b # a
      <3>1. b.sent = r /\ Len(r) # Len(a.sent)
        BY <1>1, <1>6, <2>1 DEF n, q
      <3> QED
        BY <3>1
    <2>11. b.sent = r /\ q = a.sent
      BY <1>6 DEF q
    <2> QED
      BY <2>6, <2>7, <2>8, <2>9, <2>10, <2>11
  <1> QED
    BY <1>5, <1>6, EmitOne

\* A whole list of alerts.
LEMMA EmitAll ==
  ASSUME NEW k \in Keys, NEW ts \in Seq(Stamps), clock \in Times,
         [last |-> emitted[k], sent |-> sent[k]] \in Account,
         Sound([last |-> emitted[k], sent |-> sent[k]]),
         \A i \in 1..Len(ts) : ts[i] = None => \E e \in logged : e.time = None
  PROVE  LET b == Emit(k, ts)
         IN  /\ b \in Account /\ Sound(b)
             /\ StampsIn(sent[k]) \subseteq StampsIn(b.sent)
             /\ \A i \in 1..Len(ts) : \E s \in StampsIn(b.sent) : s >= StampOf(ts[i]) - DedupWindow
  <1> DEFINE base == [last |-> emitted[k], sent |-> sent[k]]
             Seen(a, t) == \E s \in StampsIn(a.sent) : s >= StampOf(t) - DedupWindow
             G == [j \in 0..Len(ts) |->
                     {a \in Account : /\ Sound(a) /\ StampsIn(sent[k]) \subseteq StampsIn(a.sent)
                                      /\ \A i \in 1..j : Seen(a, ts[i])}]
  <1>1. Len(ts) \in Nat /\ 0 \in 0..Len(ts) /\ Len(ts) \in 0..Len(ts)
        /\ \A j \in 1..Len(ts) : ts[j] \in Stamps /\ j \in 0..Len(ts) /\ j - 1 \in 0..Len(ts)
    OBVIOUS
  <1>2. base \in G[0]
    <2>1. base.sent = sent[k] /\ 1..0 = {}
      OBVIOUS
    <2> HIDE DEF base, Seen
    <2> QED
      BY <1>1, <2>1 DEF base
  <1>3. ASSUME NEW j \in 1..Len(ts), NEW a \in Account, a \in G[j - 1]
        PROVE  EmitAlert(a, ts[j]) \in G[j]
    <2> DEFINE b == EmitAlert(a, ts[j])
    <2>1. /\ Sound(a) /\ StampsIn(sent[k]) \subseteq StampsIn(a.sent)
          /\ \A i \in 1..(j - 1) : Seen(a, ts[i])
      BY <1>1, <1>3
    <2>2. b \in Account
      BY <1>1, EmitOne
    <2>3. Sound(b) /\ StampsIn(a.sent) \subseteq StampsIn(b.sent) /\ Seen(b, ts[j])
      BY <1>1, <2>1, EmitSound
    <2>4. \A i \in 1..j : i = j \/ i \in 1..(j - 1)
      OBVIOUS
    <2>5. \A i \in 1..j : Seen(b, ts[i])
      BY <2>1, <2>3, <2>4
    <2> HIDE DEF b, Seen
    <2>6. b \in G[j]
      BY <1>1, <2>1, <2>2, <2>3, <2>5
    <2> QED
      BY <2>6 DEF b
  <1>4. Emit(k, ts) \in Account /\ Emit(k, ts) \in G[Len(ts)]
    <2> HIDE DEF G
    <2> QED
      BY <1>2, <1>3, EmitInduction
  <1> QED
    BY <1>1, <1>4

\* When the alerts of the past were all sent, the alerts of its continuation
\* are sent next, and nothing else.
LEMMA EmitNew ==
  ASSUME NEW k \in Keys, NEW ts \in Seq(Stamps), clock \in Times,
         [last |-> emitted[k], sent |-> sent[k]] \in Account,
         Sound([last |-> emitted[k], sent |-> sent[k]]),
         NEW A \in SUBSET Times, NEW B \in SUBSET Times, A \subseteq B,
         \A t \in B \ A, a \in A : a < t,
         TimesIn(sent[k]) = Deduplicate(A),
         ts \in Seq(Deduplicate(B)),
         \A i, j \in 1..Len(ts) : i < j => Before(ts[i], ts[j]),
         \A t \in Deduplicate(B) : \E i \in 1..Len(ts) : ts[i] = t
  PROVE  TimesIn(Emit(k, ts).sent) = Deduplicate(B)
  <1> DEFINE base == [last |-> emitted[k], sent |-> sent[k]]
             First(j) == {ts[i] : i \in 1..j}
             G == [j \in 0..Len(ts) |->
                     {a \in Account : Sound(a) /\ TimesIn(a.sent) = Deduplicate(A) \union First(j)}]
  <1>1. Len(ts) \in Nat /\ 0 \in 0..Len(ts) /\ Len(ts) \in 0..Len(ts)
        /\ \A j \in 1..Len(ts) : ts[j] \in Stamps /\ ts[j] \in Deduplicate(B)
             /\ j \in 0..Len(ts) /\ j - 1 \in 0..Len(ts)
    OBVIOUS
  <1>2. /\ Deduplicate(A) \subseteq Deduplicate(B) /\ Deduplicate(B) \subseteq B
        /\ \A t \in Deduplicate(B), d \in B : d < t => t - d > DedupWindow
        /\ Deduplicate(B) \cap A \subseteq Deduplicate(A)
        /\ Deduplicate(A) \subseteq A
    <2>1. Deduplicate(A) \subseteq A
      BY DEF Deduplicate
    <2> QED
      BY <2>1, DedupGrows
  <1>3. \A t \in Times : t # None /\ t \in Nat
    BY NoneAssumption, BoundsAssumption DEF Times
  <1>4. base \in G[0]
    <2>1. base.sent = sent[k] /\ First(0) = {}
      OBVIOUS
    <2> HIDE DEF base, First
    <2> QED
      BY <1>1, <2>1 DEF base
  <1>5. ASSUME NEW j \in 1..Len(ts), NEW a \in Account, a \in G[j - 1]
        PROVE  EmitAlert(a, ts[j]) \in G[j]
    <2> DEFINE b == EmitAlert(a, ts[j])
               t == ts[j]
    <2>1. Sound(a) /\ TimesIn(a.sent) = Deduplicate(A) \union First(j - 1)
      BY <1>1, <1>5
    <2>2. First(j) = First(j - 1) \union {t}
      <3>1. \A i \in 1..j : i = j \/ i \in 1..(j - 1)
        OBVIOUS
      <3>2. j \in 1..j /\ \A i \in 1..(j - 1) : i \in 1..j
        OBVIOUS
      <3> QED
        BY <3>1, <3>2
    <2>3. t \in Deduplicate(B) /\ t \in Times /\ t \in Nat /\ t # None
      BY <1>1, <1>2, <1>3
    <2>4. \A i \in 1..(j - 1) : ts[i] \in B /\ Before(ts[i], t)
      <3>1. \A i \in 1..(j - 1) : i \in 1..Len(ts) /\ i < j
        <4>1. \A n \in Nat : \A m \in 1..n : \A i \in 1..(m - 1) : i \in 1..n /\ i < m
          OBVIOUS
        <4> HIDE DEF G
        <4> QED
          BY <1>1, <4>1
      <3> QED
        BY <1>1, <1>2, <3>1
    <2>5. b \in Account /\ Sound(b)
      BY <1>1, <2>1, <2>3, EmitOne, EmitSound
    <2>6. CASE TimesIn(b.sent) = TimesIn(a.sent) \union {t}
      BY <1>1, <2>1, <2>2, <2>5, <2>6
    <2>7. CASE b = a
      <3>1. PICK i \in 1..Len(a.sent) : StampOf(t) - a.sent[i].stamp <= DedupWindow
        BY <1>1, <2>1, <2>3, <2>7, EmitSound
      <3>2. StampOf(t) = t
        BY <2>3 DEF StampOf
      <3> DEFINE x == a.sent[i].time
      <3>3. x \in Deduplicate(A) \union First(j - 1)
        BY <2>1 DEF TimesIn
      <3>4. x \in B /\ x \in Nat /\ x # None
        BY <1>1, <1>2, <1>3, <2>4, <3>3
      <3>5. a.sent[i].stamp = x
        BY <2>1, <3>4 DEF Sound
      <3>6. ~(x < t)
        <4>1. t - x <= DedupWindow
          BY <3>1, <3>2, <3>5
        <4>2. ASSUME x < t PROVE t - x > DedupWindow
          BY <1>2, <2>3, <3>4, <4>2
        <4>3. DedupWindow \in Nat
          BY WindowsAssumption
        <4> HIDE DEF x, t
        <4> QED
          BY <2>3, <3>4, <4>1, <4>2, <4>3
      <3>7. t \in TimesIn(a.sent)
        <4>1. CASE x = t
          BY <2>1, <3>3, <4>1
        <4>2. CASE t < x
          <5>1. x \notin First(j - 1)
            <6> SUFFICES ASSUME NEW l \in 1..(j - 1), x = ts[l] PROVE FALSE
              OBVIOUS
            <6>1. Before(x, t)
              BY <2>4
            <6>2. x < t
              BY <3>4, <6>1 DEF Before
            <6> HIDE DEF x, t
            <6> QED
              BY <2>3, <3>4, <4>2, <6>2
          <5>2. x \in A
            BY <1>2, <3>3, <5>1
          <5>3. t \in A
            BY <1>2, <2>3, <3>4, <4>2, <5>2, SMTT(20)
          <5> QED
            BY <1>2, <2>1, <2>3, <5>3
        <4>3. x = t \/ t < x
          <5> HIDE DEF x, t
          <5> QED
            BY <2>3, <3>4, <3>6
        <4> QED
          BY <4>1, <4>2, <4>3
      <3> HIDE DEF First, b, t
      <3> QED
        BY <1>1, <2>1, <2>2, <2>5, <2>7, <3>7 DEF b
    <2> QED
      BY <1>1, <2>1, <2>3, <2>6, <2>7, EmitSound
  <1>6. Emit(k, ts) \in G[Len(ts)]
    <2> HIDE DEF G
    <2> QED
      BY <1>4, <1>5, EmitInduction
  <1>7. TimesIn(Emit(k, ts).sent) = Deduplicate(A) \union First(Len(ts))
    BY <1>1, <1>6
  <1>8. First(Len(ts)) = Deduplicate(B)
    BY <1>1
  <1> QED
    BY <1>2, <1>7, <1>8

-----------------------------------------------------------------------------
(* The state of a poll. *)

\* The buffer with the new events, and what the trim keeps of it.
LEMMA PollShapes ==
  ASSUME TypeOK, Apart
  PROVE  /\ logged \in SUBSET Event /\ past \in SUBSET logged /\ IsFiniteSet(past)
         /\ Extended \in Seq(logged)
         /\ Range(Extended) = Range(buffer) \union Range(newEvents)
         /\ Range(Extended) \subseteq logged /\ Range(newEvents) \subseteq logged
         /\ Trimmed \in Seq(logged) /\ IsInjective(Trimmed) /\ Len(Trimmed) <= MaxBuffer
         /\ Range(Trimmed) \subseteq Recent(Range(Extended))
         /\ ~(Len(DropOld(Extended)) > MaxBuffer) => Range(Trimmed) = Recent(Range(Extended))
  <1>1. logged \in SUBSET Event /\ past \in SUBSET logged
    BY DEF TypeOK
  <1>2. IsFiniteSet(past)
    BY <1>1, FS_Subset DEF Apart
  <1>3. buffer \in Seq(logged) /\ newEvents \in Seq(logged) /\ IsInjective(Extended)
    BY DEF Apart
  <1>4. Extended \in Seq(logged) /\ Range(Extended) = Range(buffer) \union Range(newEvents)
    BY <1>3, RangeConcat DEF Extended
  <1>5. Range(Extended) \subseteq logged /\ Range(newEvents) \subseteq logged
    BY <1>3, <1>4 DEF Range
  <1>6. /\ DropOld(Extended) \in Seq(logged)
        /\ Range(DropOld(Extended)) = Recent(Range(Extended))
        /\ IsInjective(DropOld(Extended))
    BY <1>1, <1>3, <1>4, DropOldKeeps
  <1>7. MaxBuffer \in Nat
    BY WindowsAssumption
  <1>8. /\ Trimmed \in Seq(logged) /\ Len(Trimmed) <= MaxBuffer
        /\ Range(Trimmed) \subseteq Range(DropOld(Extended))
        /\ IsInjective(Trimmed)
        /\ Len(DropOld(Extended)) <= MaxBuffer => Trimmed = DropOld(Extended)
    BY <1>6, <1>7, LastOfKeeps DEF Trimmed
  <1>9. Len(DropOld(Extended)) \in Nat
    BY <1>6
  <1>10. ~(Len(DropOld(Extended)) > MaxBuffer) => Len(DropOld(Extended)) <= MaxBuffer
    BY <1>7, <1>9
  <1> QED
    BY <1>1, <1>2, <1>4, <1>5, <1>6, <1>8, <1>10

\* Every key has a sound account.
LEMMA Accounts ==
  ASSUME TypeOK, Remembered, NEW k \in Keys
  PROVE  LET a == [last |-> emitted[k], sent |-> sent[k]]
         IN  a \in Account /\ Sound(a)
  <1>1. emitted[k] \in Emission \union {None} /\ sent[k] \in Seq(Emission)
    BY DEF TypeOK
  <1> QED
    BY <1>1 DEF Account, Sound, Remembered

\* The alerts of a key, in order, and what becomes of its account.
LEMMA PollEmits ==
  ASSUME TypeOK, Apart, Remembered, Evaluate, NEW k \in Keys
  PROVE  LET kept == Deduplicate(RunEvents(Range(Trimmed))[k])
             ts == InOrder(kept)
         IN  /\ kept \in SUBSET Stamps
             /\ ts \in Seq(Stamps) /\ ts \in Seq(kept)
             /\ \A i, j \in 1..Len(ts) : i < j => Before(ts[i], ts[j])
             /\ \A t \in kept : \E i \in 1..Len(ts) : ts[i] = t
             /\ emitted'[k] = Emit(k, ts).last /\ sent'[k] = Emit(k, ts).sent
             /\ Emit(k, ts) \in Account /\ Sound(Emit(k, ts))
             /\ \A t \in kept : \E s \in StampsIn(sent'[k]) : s >= StampOf(t) - DedupWindow
  <1> DEFINE E == Range(Trimmed)
             al == RunEvents(E)[k]
             kept == Deduplicate(al)
             ts == InOrder(kept)
  <1>1. E \in SUBSET logged /\ E \in SUBSET Event
    BY PollShapes DEF Recent
  <1>2. al \in SUBSET Stamps /\ IsFiniteSet(al) /\ (None \in al => \E e \in E : e.time = None)
    <2> HIDE DEF E
    <2> QED
      BY <1>1, AlertsOf
  <1> HIDE DEF al
  <1>3. kept \in SUBSET al
    BY DEF Deduplicate
  <1>4. kept \in SUBSET Stamps /\ IsFiniteSet(kept)
    BY <1>2, <1>3, FS_Subset
  <1> HIDE DEF kept
  <1>5. /\ ts \in Seq(kept)
        /\ \A i, j \in 1..Len(ts) : i < j => Before(ts[i], ts[j])
        /\ \A t \in kept : \E i \in 1..Len(ts) : ts[i] = t
    BY <1>4, InOrderLists
  <1> HIDE DEF ts
  <1>6. /\ ts \in Seq(Stamps)
        /\ \A i \in 1..Len(ts) : ts[i] = None => \E e \in logged : e.time = None
    BY <1>1, <1>2, <1>3, <1>4, <1>5
  <1>7. clock \in Times
    BY DEF TypeOK
  <1>8. /\ Emit(k, ts) \in Account /\ Sound(Emit(k, ts))
        /\ \A i \in 1..Len(ts) :
             \E s \in StampsIn(Emit(k, ts).sent) : s >= StampOf(ts[i]) - DedupWindow
    BY <1>6, <1>7, Accounts, EmitAll
  <1>9. emitted'[k] = Emit(k, ts).last /\ sent'[k] = Emit(k, ts).sent
    BY DEF Evaluate, ts, kept, al
  <1>10. \A t \in kept : \E s \in StampsIn(sent'[k]) : s >= StampOf(t) - DedupWindow
    BY <1>5, <1>8, <1>9
  <1> QED
    BY <1>4, <1>5, <1>6, <1>8, <1>9, <1>10 DEF ts, kept, al

-----------------------------------------------------------------------------
(* The invariant holds initially. *)

\* No events, no alerts.
LEMMA NoEvents ==
  /\ \A ip : Crossings(Of({}, "fail", ip)) = {}
  /\ \A k \in Keys : Deduplicate(RunEvents({})[k]) = {}
  <1>1. TimesOf({}) = {} /\ Dated({}) = {}
    BY DEF TimesOf, Dated
  <1>2. \A ip : Crossings(Of({}, "fail", ip)) = {}
    BY <1>1 DEF Crossings, Of
  <1>3. \A k \in Keys : RunEvents({})[k] = {}
    BY <1>1, AlertsOf
  <1>4. Deduplicate({}) = {}
    BY DEF Deduplicate
  <1> QED
    BY <1>2, <1>3, <1>4

\* The first state.
LEMMA InitIInv == ASSUME Init PROVE IInv
  <1>1. Len(Tails) \in Nat /\ MaxBuffer \in Nat /\ 0 \in Times
    BY LogsAssumption, WindowsAssumption, BoundsAssumption DEF Times
  <1>2. \A S : <<>> \in Seq(S)
    OBVIOUS
  <1>3. Len(<<>>) = 0 /\ <<>> \o <<>> = <<>>
    OBVIOUS
  <1>4. Range(<<>>) = {} /\ IsInjective(<<>>)
    BY DEF Range, IsInjective
  <1>5. TypeOK
    <2>1. zone \in ZoneChoices /\ clock \in Times /\ logged \subseteq Event
          /\ pc \in {"polling", "dead"} /\ turn \in 1..(Len(Tails) + 1)
          /\ past \subseteq logged /\ orderly \in BOOLEAN /\ capped \in BOOLEAN
      <3>1. 1 \in 1..(Len(Tails) + 1)
        BY <1>1
      <3> QED
        BY <1>1, <3>1 DEF Init
    <2>2. unread \in [Logs -> Seq(logged)] /\ sent \in [Keys -> Seq(Emission)]
          /\ emitted \in [Keys -> Emission \union {None}]
      BY <1>2 DEF Init
    <2>3. buffer \o newEvents = <<>> /\ buffer = <<>>
      BY <1>3 DEF Init
    <2> QED
      BY <1>1, <1>2, <1>3, <1>4, <2>1, <2>2, <2>3 DEF TypeOK
  <1>6. Apart
    <2>1. logged = {} /\ buffer = <<>> /\ newEvents = <<>> /\ Extended = <<>>
          /\ \A l \in Logs : unread[l] = <<>>
      BY <1>3 DEF Init, Extended
    <2> QED
      BY <1>2, <1>4, <2>1, FS_EmptySet DEF Apart
  <1>7. Buffered
    BY <1>4 DEF Init, Buffered, Recent
  <1>8. Remembered
    BY <1>3 DEF Init, Remembered
  <1>9. Sighted
    BY NoEvents DEF Init, Sighted
  <1>10. Replayed
    <2>1. \A k \in Keys : TimesSent(k) = {}
      BY <1>3 DEF Init, TimesSent
    <2>2. past = {} /\ Dated({}) = {}
      BY DEF Init, Dated
    <2> QED
      BY <2>1, <2>2, NoEvents DEF Replayed
  <1>11. SurvivesOneClock
    BY DEF Init, SurvivesOneClock
  <1> QED
    BY <1>5, <1>6, <1>7, <1>8, <1>9, <1>10, <1>11 DEF IInv

-----------------------------------------------------------------------------
(* A line is written. *)

\* There are two kinds of offset.
LEMMA ZonesAreFinite == IsFiniteSet(Zones)
  <1>1. IsFiniteSet({"naive"})
    BY FS_Singleton
  <1>2. IsFiniteSet({"naive"} \union {"aware"})
    BY <1>1, FS_AddElement
  <1>3. Zones = {"naive"} \union {"aware"}
    BY DEF Zones
  <1> QED
    BY <1>2, <1>3

\* Write preserves the invariant: the event is new, and only its tail has it.
LEMMA WriteStep ==
  ASSUME IInv, NEW l \in Logs, NEW kind \in Kinds, NEW ip \in Ips, NEW later \in Times,
         NEW dated \in BOOLEAN, Write(l, kind, ip, later, dated)
  PROVE  IInv'
  <1> DEFINE e == [id |-> Cardinality(logged) + 1, log |-> l, kind |-> kind, ip |-> ip,
                   time |-> IF dated THEN clock + later ELSE None]
  <1>1. /\ Cardinality(logged) < MaxEvents /\ clock + later <= MaxTime
        /\ clock' = clock + later
        /\ logged' = logged \union {e}
        /\ unread' = [unread EXCEPT ![l] = Append(@, e)]
    BY DEF Write
  <1>2. UNCHANGED <<zone, pc, turn, newEvents, buffer, emitted, sent, past, orderly, capped>>
    BY DEF Write
  <1>3. IsFiniteSet(logged) /\ Cardinality(logged) \in Nat
    BY FS_CardinalityType DEF IInv, Apart
  <1>4. e \in Event
    <2>1. clock \in Nat /\ later \in Nat /\ MaxTime \in Nat /\ MaxEvents \in Nat
      BY BoundsAssumption DEF IInv, TypeOK, Times
    <2>2. clock + later \in Times
      BY <1>1, <2>1 DEF Times
    <2>3. Cardinality(logged) + 1 \in 1..MaxEvents
      BY <1>1, <1>3, <2>1
    <2> QED
      BY <2>2, <2>3 DEF Event
  <1>5. e \notin logged
    <2> SUFFICES ASSUME e \in logged PROVE FALSE
      OBVIOUS
    <2>1. e.id <= Cardinality(logged)
      BY DEF IInv, Apart
    <2> QED
      BY <1>3, <2>1
  <1>6. e.id = Cardinality(logged) + 1
    OBVIOUS
  <1>7. clock' \in Times
    BY <1>1, BoundsAssumption DEF IInv, TypeOK, Times
  <1> HIDE DEF e
  <1>8. logged \subseteq logged' /\ e \in logged' /\ logged' \subseteq Event
    BY <1>1, <1>4 DEF IInv, TypeOK
  <1>9. Seq(logged) \subseteq Seq(logged')
    BY <1>8
  <1>10. Extended' = Extended /\ Extended \in Seq(logged) /\ Range(Extended) \subseteq logged
    BY <1>2, PollShapes DEF IInv, Extended
  <1>11. \A m \in Logs : unread[m] \in Seq(logged) /\ Range(unread[m]) \subseteq logged
    BY DEF IInv, TypeOK, Range
  <1>12. /\ unread' \in [Logs -> Seq(logged')]
         /\ \A m \in Logs \ {l} : unread'[m] = unread[m]
         /\ Range(unread'[l]) = Range(unread[l]) \union {e}
         /\ IsInjective(unread'[l])
    <2>1. unread[l] \in Seq(logged') /\ e \in logged' /\ unread \in [Logs -> Seq(logged)]
      BY <1>8, <1>9, <1>11 DEF IInv, TypeOK
    <2>2. /\ Append(unread[l], e) \in Seq(logged')
          /\ Range(Append(unread[l], e)) = Range(unread[l]) \union {e}
          /\ IsInjective(unread[l]) /\ e \notin Range(unread[l]) => IsInjective(Append(unread[l], e))
      BY <2>1, AppendOne
    <2>3. IsInjective(unread[l]) /\ e \notin Range(unread[l])
      BY <1>5, <1>11 DEF IInv, Apart
    <2>4. unread'[l] = Append(unread[l], e) /\ \A m \in Logs \ {l} : unread'[m] = unread[m]
      BY <1>1, <2>1
    <2>5. unread' \in [Logs -> Seq(logged')]
      BY <1>1, <1>9, <2>1, <2>2
    <2> QED
      BY <2>2, <2>3, <2>4, <2>5
  <1>13. TypeOK'
    <2>1. zone' \in ZoneChoices /\ pc' \in {"polling", "dead"} /\ turn' \in 1..(Len(Tails) + 1)
          /\ Len(buffer') <= MaxBuffer /\ emitted' \in [Keys -> Emission \union {None}]
          /\ sent' \in [Keys -> Seq(Emission)] /\ orderly' \in BOOLEAN /\ capped' \in BOOLEAN
      BY <1>2 DEF IInv, TypeOK
    <2>2. past' \subseteq logged'
      BY <1>2, <1>8 DEF IInv, TypeOK
    <2>3. (buffer \o newEvents)' \in Seq(logged') /\ IsInjective((buffer \o newEvents)')
      <3>1. (buffer \o newEvents)' = Extended /\ IsInjective(Extended)
        BY <1>2 DEF Extended, IInv, Apart
      <3> QED
        BY <1>9, <1>10, <3>1
    <2> QED
      BY <1>7, <1>8, <1>12, <2>1, <2>2, <2>3 DEF TypeOK
  <1>14. Apart'
    <2>1. IsFiniteSet(logged') /\ Cardinality(logged') = Cardinality(logged) + 1
      BY <1>1, <1>3, <1>5, FS_AddElement
    <2>2. \A x \in logged' : x.id <= Cardinality(logged')
      <3>1. \A x \in logged : x.id \in Int /\ x.id <= Cardinality(logged)
        BY <1>8 DEF IInv, Apart, Event
      <3>2. \A x \in logged : x.id <= Cardinality(logged')
        BY <1>3, <2>1, <3>1
      <3>3. e.id <= Cardinality(logged')
        BY <1>3, <1>6, <2>1
      <3> QED
        BY <1>1, <3>2, <3>3
    <2>3. buffer' \in Seq(logged') /\ newEvents' \in Seq(logged') /\ IsInjective(Extended')
      BY <1>2, <1>9, <1>10 DEF IInv, Apart
    <2>4. ASSUME NEW m \in Logs
          PROVE  /\ IsInjective(unread'[m])
                 /\ Range(unread'[m]) \intersect Range(Extended') = {}
                 /\ \A o \in Logs \ {m} : Range(unread'[m]) \intersect Range(unread'[o]) = {}
      <3>1. /\ IsInjective(unread[m])
            /\ Range(unread[m]) \intersect Range(Extended) = {}
            /\ \A o \in Logs \ {m} : Range(unread[m]) \intersect Range(unread[o]) = {}
        BY DEF IInv, Apart
      <3>2. \A o \in Logs : e \notin Range(unread[o])
        BY <1>5, <1>11
      <3>3. e \notin Range(Extended)
        BY <1>5, <1>10
      <3>4. CASE m = l
        BY <1>10, <1>12, <3>1, <3>2, <3>3, <3>4
      <3>5. CASE m # l
        BY <1>10, <1>12, <3>1, <3>2, <3>5
      <3> QED
        BY <3>4, <3>5
    <2> QED
      BY <2>1, <2>2, <2>3, <2>4 DEF Apart
  <1>15. Buffered'
    BY <1>2 DEF IInv, Buffered
  <1>16. Remembered'
    <2>1. Remembered
      BY DEF IInv
    <2> QED
      BY <1>2, <1>8, <2>1 DEF Remembered
  <1>17. Sighted'
    BY <1>2 DEF IInv, Sighted, StampsOf
  <1>18. Replayed'
    BY <1>2 DEF IInv, Replayed, TimesSent
  <1>19. SurvivesOneClock'
    <2> SUFFICES ASSUME pc' = "dead"
                 PROVE  \/ Cardinality({zone[x.log] : x \in logged'}) > 1
                        \/ \E d, x \in logged' :
                             zone[d.log] = "aware" /\ d.time # None /\ x.time = None
      BY <1>2 DEF SurvivesOneClock
    <2>1. \/ Cardinality({zone[x.log] : x \in logged}) > 1
          \/ \E d, x \in logged : zone[d.log] = "aware" /\ d.time # None /\ x.time = None
      BY <1>2 DEF IInv, SurvivesOneClock
    <2>2. zone \in [Logs -> Zones]
      BY LogsAssumption DEF IInv, TypeOK
    <2>3. \A x \in logged' : zone[x.log] \in Zones
      BY <1>8, <2>2 DEF Event
    <2>4. {zone[x.log] : x \in logged} \subseteq {zone[x.log] : x \in logged'}
          /\ {zone[x.log] : x \in logged'} \subseteq Zones
      BY <1>8, <2>3
    <2>5. IsFiniteSet(Zones)
      BY ZonesAreFinite
    <2>6. IsFiniteSet({zone[x.log] : x \in logged'}) /\ IsFiniteSet({zone[x.log] : x \in logged})
      <3>1. {zone[x.log] : x \in logged'} \in SUBSET Zones /\ {zone[x.log] : x \in logged} \in SUBSET Zones
        BY <2>4
      <3> QED
        BY <2>5, <3>1, FS_Subset
    <2>7. Cardinality({zone[x.log] : x \in logged}) <= Cardinality({zone[x.log] : x \in logged'})
          /\ Cardinality({zone[x.log] : x \in logged}) \in Nat
          /\ Cardinality({zone[x.log] : x \in logged'}) \in Nat
      BY <2>4, <2>6, FS_Subset, FS_CardinalityType
    <2>8. CASE Cardinality({zone[x.log] : x \in logged}) > 1
      BY <2>7, <2>8
    <2>9. CASE \E d, x \in logged : zone[d.log] = "aware" /\ d.time # None /\ x.time = None
      BY <1>8, <2>9
    <2> QED
      BY <2>1, <2>8, <2>9
  <1> QED
    BY <1>13, <1>14, <1>15, <1>16, <1>17, <1>18, <1>19 DEF IInv

-----------------------------------------------------------------------------
(* A tail is read, or nothing was. *)

\* What the judging of events does not read may change.
LEMMA JudgedUnchanged ==
  ASSUME IInv, UNCHANGED <<logged, buffer, emitted, sent, past, orderly, capped>>
  PROVE  Buffered' /\ Remembered' /\ Sighted' /\ Replayed'
  <1>1. Buffered'
    BY DEF IInv, Buffered
  <1>2. Remembered'
    BY DEF IInv, Remembered
  <1>3. Sighted'
    BY DEF IInv, Sighted, StampsOf
  <1>4. Replayed'
    BY DEF IInv, Replayed, TimesSent
  <1> QED
    BY <1>1, <1>2, <1>3, <1>4

\* ReadTail preserves the invariant: the events move from the tail to the poll.
LEMMA ReadStep ==
  ASSUME IInv, ReadTail PROVE IInv'
  <1> DEFINE l == Tails[turn]
  <1>1. /\ turn \in 1..Len(Tails) /\ turn' = turn + 1
        /\ newEvents' = newEvents \o unread[l]
        /\ unread' = [unread EXCEPT ![l] = <<>>]
        /\ UNCHANGED <<zone, clock, logged, pc, buffer, emitted, sent, past, orderly, capped>>
    <2>1. DOMAIN Tails = 1..Len(Tails)
      BY LogsAssumption
    <2> QED
      BY <2>1 DEF ReadTail
  <1>2. l \in Logs
    BY <1>1, LogsAssumption
  <1> HIDE DEF l
  <1>3. unread \in [Logs -> Seq(logged)] /\ unread[l] \in Seq(logged)
    BY <1>2 DEF IInv, TypeOK
  <1>4. buffer \in Seq(logged) /\ newEvents \in Seq(logged) /\ IsInjective(Extended)
        /\ Extended \in Seq(logged)
    BY PollShapes DEF IInv, Apart
  <1>5. newEvents' \in Seq(logged)
    BY <1>1, <1>3, <1>4, ConcatProperties
  <1>6. Extended' = Extended \o unread[l]
    <2>1. Extended' = buffer \o (newEvents \o unread[l])
      BY <1>1 DEF Extended
    <2>2. (buffer \o newEvents) \o unread[l] = buffer \o (newEvents \o unread[l])
      <3>1. \A p \in Seq(logged), q \in Seq(logged), r \in Seq(logged) : (p \o q) \o r = p \o (q \o r)
        BY ConcatAssociative
      <3> QED
        BY <1>3, <1>4, <3>1, Zenon
    <2> QED
      BY <2>1, <2>2 DEF Extended
  <1>7. /\ Extended' \in Seq(logged)
        /\ Range(Extended') = Range(Extended) \union Range(unread[l])
        /\ IsInjective(Extended')
    <2>1. IsInjective(unread[l]) /\ Range(unread[l]) \cap Range(Extended) = {}
      BY <1>2 DEF IInv, Apart
    <2> QED
      BY <1>3, <1>4, <1>6, <2>1, RangeConcat
  <1>8. /\ unread' \in [Logs -> Seq(logged)]
        /\ unread'[l] = <<>>
        /\ \A m \in Logs \ {l} : unread'[m] = unread[m]
    <2>1. <<>> \in Seq(logged)
      OBVIOUS
    <2> QED
      BY <1>1, <1>2, <1>3, <2>1
  <1>9. Range(<<>>) = {} /\ IsInjective(<<>>)
    BY DEF Range, IsInjective
  <1>10. TypeOK'
    <2>1. turn' \in 1..(Len(Tails) + 1)
      BY <1>1, LogsAssumption
    <2>2. zone' \in ZoneChoices /\ clock' \in Times /\ logged' \subseteq Event
          /\ pc' \in {"polling", "dead"} /\ Len(buffer') <= MaxBuffer
          /\ emitted' \in [Keys -> Emission \union {None}] /\ sent' \in [Keys -> Seq(Emission)]
          /\ past' \subseteq logged' /\ orderly' \in BOOLEAN /\ capped' \in BOOLEAN
      BY <1>1 DEF IInv, TypeOK
    <2>3. logged' = logged /\ (buffer \o newEvents)' = Extended'
      BY <1>1 DEF Extended
    <2>4. unread' \in [Logs -> Seq(logged')]
      BY <1>8, <2>3
    <2>5. (buffer \o newEvents)' \in Seq(logged') /\ IsInjective((buffer \o newEvents)')
      BY <1>7, <2>3
    <2> QED
      BY <2>1, <2>2, <2>4, <2>5 DEF TypeOK
  <1>11. Apart'
    <2>1. IsFiniteSet(logged') /\ (\A e \in logged' : e.id <= Cardinality(logged'))
          /\ buffer' \in Seq(logged')
      BY <1>1 DEF IInv, Apart
    <2>2. newEvents' \in Seq(logged') /\ IsInjective(Extended')
      BY <1>1, <1>5, <1>7
    <2>3. ASSUME NEW m \in Logs
          PROVE  /\ IsInjective(unread'[m])
                 /\ Range(unread'[m]) \intersect Range(Extended') = {}
                 /\ \A o \in Logs \ {m} : Range(unread'[m]) \intersect Range(unread'[o]) = {}
      <3>1. /\ IsInjective(unread[m])
            /\ Range(unread[m]) \intersect Range(Extended) = {}
            /\ \A o \in Logs \ {m} : Range(unread[m]) \intersect Range(unread[o]) = {}
        BY DEF IInv, Apart
      <3>2. CASE m = l
        BY <1>8, <1>9, <3>2
      <3>3. CASE m # l
        <4>1. unread'[m] = unread[m] /\ Range(unread[m]) \intersect Range(unread[l]) = {}
          BY <1>2, <1>8, <3>1, <3>3
        <4> QED
          BY <1>7, <1>8, <1>9, <3>1, <4>1
      <3> QED
        BY <3>2, <3>3
    <2> QED
      BY <2>1, <2>2, <2>3 DEF Apart
  <1>12. Buffered' /\ Remembered' /\ Sighted' /\ Replayed'
    BY <1>1, JudgedUnchanged
  <1>13. SurvivesOneClock'
    BY <1>1 DEF IInv, SurvivesOneClock
  <1> QED
    BY <1>10, <1>11, <1>12, <1>13 DEF IInv

\* A step that changes no event preserves the invariant.
LEMMA IdleStep ==
  ASSUME IInv, turn' \in 1..(Len(Tails) + 1),
         UNCHANGED <<zone, clock, logged, unread, pc, newEvents, buffer, emitted, sent,
                     past, orderly, capped>>
  PROVE  IInv'
  <1>1. TypeOK'
    BY DEF IInv, TypeOK
  <1>2. Apart'
    BY DEF IInv, Apart, Extended
  <1>3. Buffered' /\ Remembered' /\ Sighted' /\ Replayed'
    BY JudgedUnchanged
  <1>4. SurvivesOneClock'
    BY DEF IInv, SurvivesOneClock
  <1> QED
    BY <1>1, <1>2, <1>3, <1>4 DEF IInv

-----------------------------------------------------------------------------
(* The poll raises. *)

\* A poll that mixes clocks has seen two kinds of offset, or an offset and a
\* line whose time does not parse.
LEMMA MixedClocks ==
  ASSUME IInv, Mixed
  PROVE  \/ Cardinality({zone[e.log] : e \in logged}) > 1
         \/ \E d, e \in logged : zone[d.log] = "aware" /\ d.time # None /\ e.time = None
  <1> DEFINE Z == ZonesOf(Range(Extended))
             All == {zone[e.log] : e \in logged}
  <1>1. /\ logged \in SUBSET Event /\ Range(Extended) \subseteq logged
        /\ Range(Trimmed) \in SUBSET logged /\ Range(Trimmed) \in SUBSET Event
    BY PollShapes DEF IInv, Recent
  <1>2. zone \in [Logs -> Zones]
    BY LogsAssumption DEF IInv, TypeOK
  <1>3. Z \subseteq All /\ All \subseteq Zones
    <2>1. \A e \in logged : zone[e.log] \in Zones
      BY <1>1, <1>2 DEF Event
    <2> QED
      BY <1>1, <2>1 DEF ZonesOf, Dated
  <1>4. CASE Cardinality(Z) > 1
    <2>1. IsFiniteSet(Zones)
      BY ZonesAreFinite
    <2> HIDE DEF Z, All
    <2>2. IsFiniteSet(All) /\ IsFiniteSet(Z)
      BY <1>3, <2>1, FS_Subset
    <2>3. Cardinality(Z) <= Cardinality(All) /\ Cardinality(Z) \in Nat /\ Cardinality(All) \in Nat
      BY <1>3, <2>2, FS_Subset, FS_CardinalityType
    <2>4. Cardinality(All) > 1
      BY <1>4, <2>3
    <2> QED
      BY <2>4 DEF All
  <1>5. CASE ~(Cardinality(Z) > 1)
    <2> DEFINE z == CHOOSE x \in Z : TRUE
               alerts == RunEvents(Range(Trimmed))
    <2>1. /\ Z # {} /\ z # "naive"
          /\ \/ \E k \in Keys : None \in alerts[k]
             \/ \E k \in Keys : emitted[k] # None /\ emitted[k].wall
      BY <1>5 DEF Mixed, WallZone
    <2>2. z \in Z
      BY <2>1
    <2> HIDE DEF z
    <2>3. PICK d \in Dated(Range(Extended)) : zone[d.log] = z
      BY <2>2 DEF ZonesOf
    <2>4. d \in logged /\ d.time # None /\ zone[d.log] = "aware"
      BY <1>1, <1>3, <2>1, <2>2, <2>3 DEF Dated, Zones
    <2>5. \E e \in logged : e.time = None
      <3>1. ASSUME NEW k \in Keys, None \in alerts[k] PROVE \E e \in logged : e.time = None
        BY <1>1, <3>1, AlertsOf
      <3>2. ASSUME NEW k \in Keys, emitted[k] # None, emitted[k].wall
            PROVE  \E e \in logged : e.time = None
        <4>1. emitted[k] = sent[k][Len(sent[k])] /\ sent[k] # <<>> /\ sent[k] \in Seq(Emission)
          BY <3>2 DEF IInv, TypeOK, Remembered
        <4>2. Len(sent[k]) \in 1..Len(sent[k])
          BY <4>1, EmptySeq
        <4> QED
          BY <3>2, <4>1, <4>2 DEF IInv, Remembered
      <3> QED
        BY <2>1, <3>1, <3>2
    <2> QED
      BY <2>4, <2>5
  <1> QED
    BY <1>4, <1>5

\* EvaluateRaises preserves the invariant.
LEMMA RaiseStep ==
  ASSUME IInv, EvaluateRaises PROVE IInv'
  <1>1. /\ Mixed /\ pc' = "dead"
        /\ UNCHANGED <<zone, clock, logged, unread, turn, newEvents, buffer, emitted, sent,
                       past, orderly, capped>>
    BY DEF EvaluateRaises
  <1>2. TypeOK'
    BY <1>1 DEF IInv, TypeOK
  <1>3. Apart'
    BY <1>1 DEF IInv, Apart, Extended
  <1>4. Buffered' /\ Remembered' /\ Sighted' /\ Replayed'
    BY <1>1, JudgedUnchanged
  <1>5. SurvivesOneClock'
    BY <1>1, MixedClocks DEF SurvivesOneClock
  <1> QED
    BY <1>2, <1>3, <1>4, <1>5 DEF IInv

-----------------------------------------------------------------------------
(* A poll is judged. *)

\* The past continues when the new events are dated and not older.
LEMMA PastContinues ==
  ASSUME IInv, Evaluate, orderly'
  PROVE  Continues(past', past) /\ orderly
  <1>1. /\ past' = past \union Range(newEvents)
        /\ orderly
        /\ Dated(Range(newEvents)) = Range(newEvents)
        /\ \A e \in Range(newEvents), p \in past : p.time <= e.time
    BY DEF Evaluate
  <1>2. past \subseteq logged /\ Range(newEvents) \subseteq logged /\ logged \subseteq Event
        /\ IsFiniteSet(logged)
    BY PollShapes DEF IInv, Apart
  <1>3. past' \in SUBSET logged /\ past' \in SUBSET Event
    BY <1>1, <1>2
  <1>4. IsFiniteSet(past')
    BY <1>2, <1>3, FS_Subset
  <1>5. Dated(past) = past
    BY <1>1 DEF IInv, Replayed
  <1>6. Dated(past') = past'
    BY <1>1, <1>5 DEF Dated
  <1>7. \A f \in past' \ past, e \in past : e.time <= f.time
    BY <1>1
  <1> QED
    BY <1>1, <1>3, <1>4, <1>6, <1>7 DEF Continues

\* The trimmed buffer has everything recent, unless the cap has dropped some.
LEMMA TrimKeepsRecent ==
  ASSUME IInv, Evaluate
  PROVE  /\ Range(Trimmed) \subseteq past'
         /\ ~capped' => ~capped /\ Recent(past') \subseteq Range(Trimmed)
                        /\ Range(Trimmed) = Recent(Range(Extended))
                        /\ Range(Extended) \subseteq past'
  <1>1. /\ past' = past \union Range(newEvents)
        /\ capped' = (capped \/ Len(DropOld(Extended)) > MaxBuffer)
    BY DEF Evaluate
  <1>2. /\ Range(Extended) = Range(buffer) \union Range(newEvents)
        /\ Range(Trimmed) \subseteq Recent(Range(Extended))
        /\ ~(Len(DropOld(Extended)) > MaxBuffer) => Range(Trimmed) = Recent(Range(Extended))
    BY PollShapes DEF IInv
  <1>3. Range(buffer) \subseteq past /\ (~capped => Recent(past) \subseteq Range(buffer))
    BY DEF IInv, Buffered
  <1>4. Range(Extended) \subseteq past'
    BY <1>1, <1>2, <1>3
  <1>5. Range(Trimmed) \subseteq past'
    BY <1>2, <1>4 DEF Recent
  <1>6. ASSUME ~capped'
        PROVE  ~capped /\ Recent(past') \subseteq Range(Trimmed)
               /\ Range(Trimmed) = Recent(Range(Extended))
    <2>1. ~capped /\ Range(Trimmed) = Recent(Range(Extended))
      BY <1>1, <1>2, <1>6
    <2>2. ASSUME NEW e \in Recent(past') PROVE e \in Range(Trimmed)
      <3>1. e \in past' /\ (e.time = None \/ \A d \in Dated(past') : e.time >= d.time - Horizon)
        BY DEF Recent
      <3>2. Dated(past) \subseteq Dated(past') /\ Dated(Range(Extended)) \subseteq Dated(past')
        BY <1>1, <1>4 DEF Dated
      <3>3. e \in Range(Extended)
        <4>1. CASE e \in past
          BY <1>2, <1>3, <2>1, <3>1, <3>2, <4>1 DEF Recent
        <4>2. CASE e \in Range(newEvents)
          BY <1>2, <4>2
        <4> QED
          BY <1>1, <3>1, <4>1, <4>2
      <3>4. e \in Recent(Range(Extended))
        BY <3>1, <3>2, <3>3 DEF Recent
      <3> QED
        BY <2>1, <3>4
    <2> QED
      BY <2>1, <2>2
  <1> QED
    BY <1>4, <1>5, <1>6

\* A crossing within sight is judged with its whole window.
LEMMA SeenWhole ==
  ASSUME NEW F \in SUBSET Event, NEW E \in SUBSET F, Recent(F) \subseteq E, NEW ip,
         NEW t \in Crossings(Of(F, "fail", ip)),
         \A d \in Dated(F) : t >= d.time - DedupWindow
  PROVE  t \in Crossings(Of(E, "fail", ip)) /\ t \in Nat /\ t # None
  <1> DEFINE G == Of(F, "fail", ip)
             H == Of(E, "fail", ip)
             In(S) == {e \in Dated(S) : e.time \in (t - Timeframe)..t}
  <1>1. t \in TimesOf(Dated(G)) /\ Cardinality(In(G)) >= Threshold
    BY DEF Crossings
  <1>2. PICK f \in G : f.time = t /\ f.time # None /\ f \in F
    BY <1>1 DEF TimesOf, Dated, Of
  <1>3. \A e \in F : e.time # None => e.time \in Nat
    BY EventTimes
  <1>4. t \in Nat /\ t # None
    BY <1>2, <1>3
  <1>5. \A e \in F : e.time # None /\ e.time >= t - Timeframe => e \in E
    <2> SUFFICES ASSUME NEW e \in F, e.time # None, e.time >= t - Timeframe,
                        NEW d \in Dated(F)
                 PROVE  e.time >= d.time - Horizon
      BY DEF Recent
    <2>1. e.time \in Nat /\ d.time \in Nat
      BY <1>3 DEF Dated
    <2>2. t >= d.time - DedupWindow
      OBVIOUS
    <2> QED
      BY <1>4, <2>1, <2>2, HorizonSpans
  <1>6. \A e \in F : e.time # None /\ e.time \in (t - Timeframe)..t => e \in E
    <2>1. \A x \in (t - Timeframe)..t : x >= t - Timeframe
      BY <1>4, HorizonSpans
    <2> QED
      BY <1>5, <2>1
  <1>7. In(G) = In(H)
    BY <1>6 DEF Dated, Of
  <1>8. f \in H
    <2>1. t >= t - Timeframe
      BY <1>4, HorizonSpans
    <2> QED
      BY <1>2, <1>5, <2>1 DEF Of
  <1>9. t \in TimesOf(Dated(H))
    BY <1>2, <1>8 DEF TimesOf, Dated
  <1> HIDE DEF G
  <1>10. Cardinality(In(H)) >= Threshold
    BY <1>1, <1>7
  <1>11. t \in Crossings(H)
    BY <1>9, <1>10 DEF Crossings
  <1> QED
    BY <1>4, <1>11

\* The poll alerts for every crossing within sight that it was not alerted
\* for within the window.
LEMMA SightKept ==
  ASSUME IInv, Evaluate PROVE Sighted'
  <1> SUFFICES ASSUME ~capped', "brute" \notin Suppressed, NEW ip \in Ips,
                      NEW t \in Crossings(Of(past', "fail", ip)),
                      \A d \in Dated(past') : t >= d.time - DedupWindow
               PROVE  \E s \in StampsOf(<<"brute", ip>>)' : s >= t - Horizon - DedupWindow
    BY DEF Sighted
  <1> DEFINE E == Range(Trimmed)
             X == Range(Extended)
             k == <<"brute", ip>>
  <1>1. /\ past' \in SUBSET Event /\ E \in SUBSET past' /\ Recent(past') \subseteq E
        /\ E = Recent(X) /\ X \subseteq past'
    <2>1. past' \subseteq logged /\ logged \subseteq Event
      BY PollShapes DEF IInv, Evaluate
    <2> QED
      BY <2>1, TrimKeepsRecent
  <1>2. k \in Keys /\ k[1] = "brute" /\ k[2] = ip
    BY DEF Keys, Rules
  <1> HIDE DEF E, X, k
  <1>3. t \in Crossings(Of(E, "fail", ip)) /\ t \in Nat
    BY <1>1, SeenWhole
  <1>4. E \in SUBSET Event
    BY <1>1
  <1>5. PICK c \in Crossings(Of(E, "fail", ip)) : Brute(E, ip) = {c} /\ c <= t
    BY <1>3, <1>4, BruteIs
  <1>6. c \in TimesOf(Dated(E)) /\ t \in TimesOf(Dated(E))
    <2>1. Crossings(Of(E, "fail", ip)) \subseteq TimesOf(Dated(Of(E, "fail", ip)))
      BY <1>4, BruteIs
    <2> QED
      BY <1>3, <2>1 DEF TimesOf, Dated, Of
  <1>7. PICK e \in E, f \in E : e.time = c /\ f.time = t /\ c # None /\ t # None
    BY <1>6 DEF TimesOf, Dated
  <1>8. c >= t - Horizon /\ c \in Nat
    <2>1. f \in Dated(X)
      BY <1>1, <1>7 DEF Recent, Dated
    <2>2. e.time >= f.time - Horizon
      BY <1>1, <1>7, <2>1 DEF Recent
    <2>3. c \in Nat
      BY <1>4, <1>7, EventTimes
    <2> QED
      BY <1>7, <2>2, <2>3
  <1>9. RunEvents(E)[k] = {c}
    BY <1>2, <1>5 DEF RunEvents
  <1>10. c \in Deduplicate({c})
    <2>1. ~(c < c)
      BY <1>8
    <2> QED
      BY <2>1 DEF Deduplicate
  <1>11. PICK s \in StampsIn(sent'[k]) : s >= StampOf(c) - DedupWindow
    BY <1>2, <1>9, <1>10, PollEmits DEF IInv, E
  <1>12. sent'[k] \in Seq(Emission)
    BY <1>2, PollEmits DEF IInv, Account
  <1>13. s \in StampsOf(k)' /\ s \in Nat
    <2>1. PICK i \in 1..Len(sent'[k]) : s = sent'[k][i].stamp
      BY <1>11 DEF StampsIn
    <2>2. i \in DOMAIN sent'[k] /\ sent'[k][i] \in Emission
      BY <1>12, <2>1
    <2>3. s \in Nat
      BY <2>1, <2>2, BoundsAssumption DEF Emission, Times
    <2> QED
      BY <2>1, <2>2, <2>3 DEF StampsOf
  <1>14. StampOf(c) = c
    BY <1>7 DEF StampOf
  <1>15. s >= t - Horizon - DedupWindow
    BY <1>3, <1>8, <1>11, <1>13, <1>14, HorizonSpans
  <1> QED
    BY <1>13, <1>15 DEF k

\* A poll of an orderly past sends what a replay adds.
LEMMA ReplayKept ==
  ASSUME IInv, Evaluate PROVE Replayed'
  <1> SUFFICES ASSUME orderly'
               PROVE  /\ Dated(past') = past'
                      /\ ~capped' /\ Narrow(past') =>
                           \A k \in Keys : TimesSent(k)' = Deduplicate(RunEvents(past')[k])
    BY DEF Replayed
  <1>1. Continues(past', past) /\ orderly
    BY PastContinues
  <1>2. Dated(past') = past' /\ past \subseteq past'
    BY <1>1 DEF Continues
  <1>3. ASSUME ~capped', Narrow(past'), NEW k \in Keys
        PROVE  TimesSent(k)' = Deduplicate(RunEvents(past')[k])
    <2> DEFINE A == RunEvents(past)[k]
               B == RunEvents(past')[k]
    <2>1. Narrow(past)
      BY <1>2, <1>3 DEF Narrow
    <2>2. ~capped
      BY <1>3, TrimKeepsRecent
    <2>3. TimesSent(k) = Deduplicate(A)
      BY <1>1, <2>1, <2>2 DEF IInv, Replayed
    <2>4. Range(Trimmed) = past'
      <3>1. Recent(past') = past'
        BY <1>2, <1>3 DEF Recent, Narrow
      <3> QED
        BY <1>3, <3>1, TrimKeepsRecent
    <2>5. /\ A \in SUBSET Times /\ B \in SUBSET Times /\ A \subseteq B
          /\ \A t \in B \ A, a \in A : a < t
      BY <1>1, RulesGrow
    <2> HIDE DEF A
    <2>6. [last |-> emitted[k], sent |-> sent[k]] \in Account
          /\ Sound([last |-> emitted[k], sent |-> sent[k]])
          /\ clock \in Times /\ sent[k] \in Seq(Emission)
      BY Accounts DEF IInv, TypeOK
    <2>7. TimesIn(sent[k]) = TimesSent(k)
      BY <2>6 DEF TimesIn, TimesSent
    <2> DEFINE ts == InOrder(Deduplicate(B))
    <2>8. /\ ts \in Seq(Stamps) /\ ts \in Seq(Deduplicate(B))
          /\ \A i, j \in 1..Len(ts) : i < j => Before(ts[i], ts[j])
          /\ \A t \in Deduplicate(B) : \E i \in 1..Len(ts) : ts[i] = t
          /\ sent'[k] = Emit(k, ts).sent /\ Emit(k, ts) \in Account
      BY <2>4, PollEmits DEF IInv
    <2> HIDE DEF ts, B
    <2>9. TimesIn(Emit(k, ts).sent) = Deduplicate(B)
      BY <2>3, <2>5, <2>6, <2>7, <2>8, EmitNew
    <2>10. TimesSent(k)' = TimesIn(sent'[k])
      <3>1. sent'[k] \in Seq(Emission)
        BY <2>8 DEF Account
      <3> QED
        BY <3>1 DEF TimesIn, TimesSent
    <2> QED
      BY <2>8, <2>9, <2>10 DEF B
  <1> QED
    BY <1>2, <1>3

\* Evaluate preserves the invariant.
LEMMA EvaluateStep ==
  ASSUME IInv, Evaluate PROVE IInv'
  <1>1. /\ buffer' = Trimmed /\ newEvents' = <<>> /\ turn' = 1
        /\ past' = past \union Range(newEvents)
        /\ UNCHANGED <<zone, clock, logged, unread, pc>>
    BY DEF Evaluate
  <1>2. /\ Trimmed \in Seq(logged) /\ IsInjective(Trimmed) /\ Len(Trimmed) <= MaxBuffer
        /\ Range(newEvents) \subseteq logged
        /\ Range(Trimmed) \subseteq Range(Extended)
    BY PollShapes DEF IInv, Recent
  <1>3. \A k \in Keys :
          /\ emitted'[k] \in Emission \union {None} /\ sent'[k] \in Seq(Emission)
          /\ Sound([last |-> emitted'[k], sent |-> sent'[k]])
    <2> SUFFICES ASSUME NEW k \in Keys
                 PROVE  /\ emitted'[k] \in Emission \union {None} /\ sent'[k] \in Seq(Emission)
                        /\ Sound([last |-> emitted'[k], sent |-> sent'[k]])
      OBVIOUS
    <2>1. PICK a \in Account : Sound(a) /\ emitted'[k] = a.last /\ sent'[k] = a.sent
      BY PollEmits DEF IInv
    <2>2. a = [last |-> emitted'[k], sent |-> sent'[k]]
      BY <2>1 DEF Account
    <2> QED
      BY <2>1, <2>2 DEF Account
  <1>4. (buffer \o newEvents)' = Trimmed
    BY <1>1, <1>2, ConcatEmptySeq
  <1>5. TypeOK'
    <2>1. emitted' \in [Keys -> Emission \union {None}]
      <3>1. emitted' = [k \in Keys |-> emitted'[k]]
        BY DEF Evaluate
      <3> QED
        BY <1>3, <3>1
    <2>2. sent' \in [Keys -> Seq(Emission)]
      <3>1. sent' = [k \in Keys |-> sent'[k]]
        BY DEF Evaluate
      <3> QED
        BY <1>3, <3>1
    <2>3. zone' \in ZoneChoices /\ clock' \in Times /\ logged' \subseteq Event
          /\ unread' \in [Logs -> Seq(logged')] /\ pc' \in {"polling", "dead"}
      BY <1>1 DEF IInv, TypeOK
    <2>4. turn' \in 1..(Len(Tails) + 1)
      BY <1>1, LogsAssumption
    <2>5. past' \subseteq logged'
      BY <1>1, <1>2 DEF IInv, TypeOK
    <2>6. orderly' \in BOOLEAN /\ capped' \in BOOLEAN
      BY DEF Evaluate, IInv, TypeOK
    <2>7. (buffer \o newEvents)' \in Seq(logged') /\ IsInjective((buffer \o newEvents)')
          /\ Len(buffer') <= MaxBuffer
      BY <1>1, <1>2, <1>4
    <2> QED
      BY <2>1, <2>2, <2>3, <2>4, <2>5, <2>6, <2>7 DEF TypeOK
  <1>6. Apart'
    <2>1. IsFiniteSet(logged') /\ (\A e \in logged' : e.id <= Cardinality(logged'))
      BY <1>1 DEF IInv, Apart
    <2>2. buffer' \in Seq(logged') /\ newEvents' \in Seq(logged')
      BY <1>1, <1>2
    <2>3. Extended' = Trimmed
      BY <1>4 DEF Extended
    <2>4. \A l \in Logs : /\ IsInjective(unread'[l])
                          /\ Range(unread'[l]) \intersect Range(Extended') = {}
                          /\ \A m \in Logs \ {l} :
                               Range(unread'[l]) \intersect Range(unread'[m]) = {}
      <3>1. \A l \in Logs : /\ IsInjective(unread[l])
                            /\ Range(unread[l]) \intersect Range(Extended) = {}
                            /\ \A m \in Logs \ {l} :
                                 Range(unread[l]) \intersect Range(unread[m]) = {}
        BY DEF IInv, Apart
      <3> QED
        BY <1>1, <1>2, <2>3, <3>1
    <2> QED
      BY <1>2, <2>1, <2>2, <2>3, <2>4 DEF Apart
  <1>7. Buffered'
    BY <1>1, TrimKeepsRecent DEF Buffered
  <1>8. Remembered'
    BY <1>1, <1>3 DEF Remembered, Sound
  <1>9. Sighted' /\ Replayed'
    BY SightKept, ReplayKept
  <1>10. SurvivesOneClock'
    BY <1>1 DEF IInv, SurvivesOneClock
  <1> QED
    BY <1>5, <1>6, <1>7, <1>8, <1>9, <1>10 DEF IInv

-----------------------------------------------------------------------------
(* The theorems. *)

\* Every step preserves the invariant.
LEMMA NextIInv ==
  ASSUME IInv, [Next]_vars PROVE IInv'
  <1>1. ASSUME NEW l \in Logs, NEW kind \in Kinds, NEW ip \in Ips, NEW later \in Times,
               NEW dated \in BOOLEAN, Write(l, kind, ip, later, dated)
        PROVE  IInv'
    BY <1>1, WriteStep
  <1>2. CASE ReadTail
    BY <1>2, ReadStep
  <1>3. CASE NothingNew
    <2>1. turn' = 1 /\ 1 \in 1..(Len(Tails) + 1)
      BY <1>3, LogsAssumption DEF NothingNew
    <2> QED
      BY <1>3, <2>1, IdleStep DEF NothingNew
  <1>4. CASE Evaluate
    BY <1>4, EvaluateStep
  <1>5. CASE EvaluateRaises
    BY <1>5, RaiseStep
  <1>6. CASE UNCHANGED vars
    <2>1. turn' \in 1..(Len(Tails) + 1)
      BY <1>6 DEF vars, IInv, TypeOK
    <2> QED
      BY <1>6, <2>1, IdleStep DEF vars
  <1> QED
    BY <1>1, <1>2, <1>3, <1>4, <1>5, <1>6 DEF Next

\* The invariant of live mode: nothing that the rules can still need leaves
\* the buffer, and what was emitted is remembered (live.py 144-198).
THEOREM LiveInvariant == Spec => []IInv
  <1>1. Init => IInv
    BY InitIInv
  <1>2. IInv /\ [Next]_vars => IInv'
    BY NextIInv
  <1> QED
    BY <1>1, <1>2, PTL DEF Spec

\* Every variable keeps its type; no event is in two places, and the buffer
\* never exceeds its cap (live.py 191-198).
THEOREM LiveTypes == Spec => []TypeOK
  <1>1. IInv => TypeOK
    BY DEF IInv
  <1> QED
    BY <1>1, LiveInvariant, PTL

\* No key is alerted twice within the dedup window (live.py 171-183).
THEOREM RepeatsAreSpaced == Spec => []SpacedRepeats
  <1>1. ASSUME IInv PROVE SpacedRepeats
    <2>1. \A k \in Keys : DOMAIN sent[k] = 1..Len(sent[k])
      BY DEF IInv, TypeOK
    <2> QED
      BY <1>1, <2>1 DEF IInv, Remembered, SpacedRepeats
  <1> QED
    BY <1>1, LiveInvariant, PTL

\* Wherever the polls fall, what they emit is what a replay of the same
\* events emits (live.py 151-189).
THEOREM PollsMatchReplay == Spec => []LiveMatchesReplay
  <1>1. ASSUME IInv PROVE LiveMatchesReplay
    <2> SUFFICES ASSUME orderly, ~capped, \A e \in past : e.time >= Newest - Horizon, NEW k \in Keys
                 PROVE  TimesSent(k) = Deduplicate(RunEvents(past)[k])
      BY DEF LiveMatchesReplay, TimesSent
    <2>1. Dated(past) = past /\ past \in SUBSET Event
      BY <1>1, PollShapes DEF IInv, Replayed
    <2>2. ASSUME NEW d \in past, NEW e \in past PROVE e.time >= d.time - Horizon
      <3> DEFINE T == TimesOf(Dated(past))
      <3>1. T \in SUBSET Int /\ MaxTime \in Int /\ (\A t \in T : t <= MaxTime) /\ d.time \in T
            /\ e.time \in T
        BY <2>1, EventTimes DEF TimesOf
      <3>2. Newest = Max(T)
        BY DEF Newest
      <3> HIDE DEF T
      <3>3. d.time <= Newest /\ Newest \in Int /\ d.time \in Int /\ e.time \in Int
        BY <3>1, <3>2, GreatestElement
      <3>4. e.time >= Newest - Horizon
        OBVIOUS
      <3> QED
        BY <3>3, <3>4, HorizonSpans
    <2>3. Narrow(past)
      BY <2>2 DEF Narrow
    <2> QED
      BY <1>1, <2>3 DEF IInv, Replayed
  <1> QED
    BY <1>1, LiveInvariant, PTL

\* Trimming and suppression hide no crossing within sight (live.py 134-149).
THEOREM NothingInSightIsMissed == Spec => []NoBlindSpot
  <1>1. ASSUME IInv PROVE NoBlindSpot
    <2> SUFFICES ASSUME ~capped, "brute" \notin Suppressed, NEW ip \in Ips,
                        NEW t \in Crossings(Of(past, "fail", ip)), t >= Newest - DedupWindow
                 PROVE  \E s \in StampsOf(<<"brute", ip>>) : s >= t - Horizon - DedupWindow
      BY DEF NoBlindSpot
    <2>1. past \in SUBSET Event
      BY <1>1, PollShapes DEF IInv
    <2>2. t \in TimesOf(Dated(past))
      BY DEF Crossings, TimesOf, Dated, Of
    <2>3. ASSUME NEW d \in Dated(past) PROVE t >= d.time - DedupWindow
      <3> DEFINE T == TimesOf(Dated(past))
      <3>1. T \in SUBSET Int /\ MaxTime \in Int /\ (\A x \in T : x <= MaxTime) /\ d.time \in T
            /\ t \in T
        BY <2>1, <2>2, EventTimes DEF TimesOf
      <3>2. Newest = Max(T)
        BY DEF Newest
      <3> HIDE DEF T
      <3>3. d.time <= Newest /\ Newest \in Int /\ d.time \in Int /\ t \in Int
        BY <3>1, <3>2, GreatestElement
      <3>4. t >= Newest - DedupWindow
        OBVIOUS
      <3> QED
        BY <3>3, <3>4, HorizonSpans
    <2> QED
      BY <1>1, <2>3 DEF IInv, Sighted
  <1> QED
    BY <1>1, LiveInvariant, PTL

\* Only logs of different clocks, or an aware log with an undated line, end
\* the watch (live.py 173-195, dedup.py 49).
THEOREM OneClockSurvives == Spec => []SurvivesOneClock
  <1>1. IInv => SurvivesOneClock
    BY DEF IInv
  <1> QED
    BY <1>1, LiveInvariant, PTL

=============================================================================
