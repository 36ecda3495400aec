--------------------------- MODULE Service_proofs ---------------------------
(***************************************************************************)
(* Proofs about the processes around the alert store, for any number of    *)
(* runs, scenarios and kills and every size of a buffer.                   *)
(*                                                                         *)
(* The invariant has four parts: what a dead watch remembers (Forgotten),  *)
(* where the alerts of a batch are on their way to the store (StoredInv),  *)
(* where lines are broken off (TearInv), and how far a run is that nobody  *)
(* disturbs (LoneInv).                                                     *)
(***************************************************************************)
EXTENDS Service, Inductions

\* A watch that died has forgotten what it emitted.
Forgotten == pc[Watch] = "dead" => emitted = {}

-----------------------------------------------------------------------------
(* What keeps NotifiedIsStored: the end of an alert's line is in the file  *)
(* or in the buffer of its emitter, and at the path of the store once the  *)
(* emitter notifies, but for what a fresh run removed.                     *)

\* The end of the alert's line is in the file or in the buffer.
Kept(e, alert) == <<alert, "end">> \in ToSet(files[handle[e]]) \union ToSet(out[e])

\* The line is at the path of the store, or it was removed.
AppendedOrRemoved(alert) == Appended(alert) \/ alert \in removed

Accounted(e) ==
  /\ pc[e] = "flush" =>
       \A alert \in ToSet(batch[e]) : IF handle[e] = path THEN Kept(e, alert) ELSE alert \in removed
  /\ pc[e] = "notify" => \A alert \in ToSet(batch[e]) : AppendedOrRemoved(alert)

StoredInv ==
  /\ \A alert \in notified : AppendedOrRemoved(alert)
  /\ \A e \in Emitters : Accounted(e)

-----------------------------------------------------------------------------
(* What keeps CrashCostsOneMore: the tails and line breaks of a file       *)
(* follow their heads, what is still buffered goes on where the file ends, *)
(* and a piece after which a line is neither finished nor being finished   *)
(* is the mark of one crash.                                               *)

Chained(s) ==
  \A k \in DOMAIN s :
    /\ s[k][2] = "tail" => k > 1 /\ s[k - 1] = <<s[k][1], "head">>
    /\ s[k][2] = "end" => k > 1 /\ s[k - 1] = <<s[k][1], "tail">>

\* A text without gaps, up to the end of its last line.
Unbroken(s) ==
  /\ s # <<>> => s[Len(s)][2] = "end"
  /\ \A k \in 1..(Len(s) - 1) : s[k][2] # "end" => s[k + 1][2] # "head"

\* A piece goes on, in the file or in the buffer of who is writing.
Continued(f, k) ==
  IF k < Len(files[f]) THEN files[f][k + 1][2] # "head"
  ELSE \E e \in Emitters : handle[e] = f /\ out[e] # <<>> /\ out[e][1][2] # "head"

\* Where a line stops for good.
Tears == {p \in Places : ~Ends(files[p[1]], p[2]) /\ ~Continued(p[1], p[2])}

TearInv ==
  /\ \A e \in Emitters : Unbroken(out[e])
  /\ single =>
       /\ \A e, q \in Emitters : e # q /\ handle[e] # 0 => handle[e] # handle[q]
       /\ \A f \in DOMAIN files : Chained(files[f])
       /\ \A e \in Emitters : handle[e] # 0 => Chained(files[handle[e]] \o out[e])
       /\ IsFiniteSet(Tears) /\ Cardinality(Tears) <= crashes

-----------------------------------------------------------------------------
(* What keeps RunsAsAlone.                                                 *)

Own(r) == <<[by |-> r, name |-> Job[r].scenario]>>

\* A run that has its generated log to itself.
ApartRun(r) ==
  apart[r] =>
    /\ pc[r] = "write" => generated[SourceOf(r)] = <<>>
    /\ pc[r] = "parse" => generated[SourceOf(r)] = LinesOf(Job[r].scenario)
    /\ InLog(r) => \A q \in SameLog(r) : ~InLog(q)
    /\ pc[r] \in {"reset", "unlink", "emit", "flush", "notify"} => batch[r] = Own(r)

\* A run during which nobody else is busy.
AloneRun(r) ==
  alone[r] =>
    /\ apart[r]
    /\ pc[r] \in {"write", "parse", "reset", "unlink", "emit", "flush", "notify"}
    /\ \A q \in Emitters \ {r} : ~Busy(q)
    /\ pc[r] \in {"write", "parse"} => before[r] = Content
    /\ pc[r] \in {"reset", "unlink"} => before[r] = <<>>
    /\ pc[r] = "unlink" => path # 0
    /\ pc[r] = "emit" => Content = before[r]
    /\ pc[r] = "flush" => /\ handle[r] = path
                          /\ files[path] \o out[r] = before[r] \o Text(Own(r))
    /\ pc[r] = "notify" => Content = before[r] \o Text(Own(r))

HistoryTypes ==
  /\ alone \in [Runs -> BOOLEAN] /\ apart \in [Runs -> BOOLEAN]
  /\ before \in [Runs -> Seq(Pieces)] /\ single \in BOOLEAN

LoneInv ==
  /\ HistoryTypes
  /\ \A r \in Runs : ApartRun(r) /\ AloneRun(r)

IInv == TypeOK /\ Forgotten /\ StoredInv /\ TearInv /\ LoneInv

-----------------------------------------------------------------------------
(* Lemmas about the data.                                                  *)

LEMMA PartsAre ==
  /\ Parts[1] = "head" /\ Parts[2] = "tail" /\ Parts[3] = "end"
  /\ ToSet(Parts) = {"head", "tail", "end"}
  <1>1. DOMAIN Parts = {1, 2, 3}
    BY DEF Parts
  <1>2. Parts[1] = "head" /\ Parts[2] = "tail" /\ Parts[3] = "end"
    BY DEF Parts
  <1> QED
    BY <1>1, <1>2 DEF ToSet

\* Where a piece of a text comes from.
LEMMA TextPieces ==
  ASSUME NEW s \in Seq(Alerts)
  PROVE  /\ Text(s) \in Seq(Pieces)
         /\ Len(Text(s)) = 3 * Len(s)
         /\ \A k \in 1..(3 * Len(s)) :
              /\ (k + 2) \div 3 \in 1..Len(s)
              /\ Text(s)[k] = <<s[(k + 2) \div 3], Parts[((k - 1) % 3) + 1]>>
  <1>1. Len(s) \in Nat /\ 3 * Len(s) \in Nat
    OBVIOUS
  <1>2. ASSUME NEW k \in 1..(3 * Len(s))
        PROVE  /\ (k + 2) \div 3 \in 1..Len(s)
               /\ <<s[(k + 2) \div 3], Parts[((k - 1) % 3) + 1]>> \in Pieces
    <2>1. (k + 2) \div 3 \in 1..Len(s)
      BY <1>1
    <2>2. ((k - 1) % 3) + 1 \in {1, 2, 3}
      OBVIOUS
    <2>3. s[(k + 2) \div 3] \in Alerts
      BY <2>1
    <2>4. Parts[((k - 1) % 3) + 1] \in ToSet(Parts)
      BY <2>2, PartsAre
    <2> QED
      BY <2>1, <2>3, <2>4 DEF Pieces
  <1>3. Text(s) \in [1..(3 * Len(s)) -> Pieces]
    BY <1>2 DEF Text
  <1>4. Text(s) \in Seq(Pieces) /\ Len(Text(s)) = 3 * Len(s)
    BY <1>1, <1>3
  <1> QED
    BY <1>2, <1>4 DEF Text

\* A text is whole lines: no piece is missing, and no line is broken off.
LEMMA TextIsWhole ==
  ASSUME NEW s \in Seq(Alerts)
  PROVE  /\ Chained(Text(s)) /\ Unbroken(Text(s))
         /\ Text(s) # <<>> => Text(s)[1][2] = "head"
         /\ \A k \in 1..Len(s) : \A part \in ToSet(Parts) : <<s[k], part>> \in ToSet(Text(s))
  <1> DEFINE t == Text(s)
  <1>1. /\ t \in Seq(Pieces) /\ Len(t) = 3 * Len(s) /\ DOMAIN t = 1..(3 * Len(s))
        /\ Len(s) \in Nat
    BY TextPieces
  <1>2. \A k \in 1..(3 * Len(s)) :
          t[k][1] = s[(k + 2) \div 3] /\ t[k][2] = Parts[((k - 1) % 3) + 1]
    BY TextPieces
  <1>3. ASSUME NEW k \in 1..(3 * Len(s))
        PROVE  /\ t[k][2] = "head" <=> k % 3 = 1
               /\ t[k][2] = "tail" <=> k % 3 = 2
               /\ t[k][2] = "end" <=> k % 3 = 0
    <2>1. k % 3 = 0 \/ k % 3 = 1 \/ k % 3 = 2
      OBVIOUS
    <2>2. k % 3 = 0 => ((k - 1) % 3) + 1 = 3
      OBVIOUS
    <2>3. k % 3 = 1 => ((k - 1) % 3) + 1 = 1
      OBVIOUS
    <2>4. k % 3 = 2 => ((k - 1) % 3) + 1 = 2
      OBVIOUS
    <2> QED
      BY <1>2, <2>1, <2>2, <2>3, <2>4, PartsAre
  <1>4. Chained(t)
    <2> SUFFICES ASSUME NEW k \in 1..(3 * Len(s)), t[k][2] # "head"
                 PROVE  /\ k > 1
                        /\ t[k - 1][1] = t[k][1]
                        /\ t[k][2] = "tail" => t[k - 1][2] = "head"
                        /\ t[k][2] = "end" => t[k - 1][2] = "tail"
      <3>1. \A k \in 1..(3 * Len(s)) : k > 1 => t[k - 1] = <<t[k - 1][1], t[k - 1][2]>>
        BY <1>1 DEF Pieces
      <3> QED
        BY <1>1, <3>1 DEF Chained
    <2>1. k % 3 # 1
      BY <1>3
    <2>2. k > 1 /\ k - 1 \in 1..(3 * Len(s))
      BY <2>1
    <2>3. (k - 1 + 2) \div 3 = (k + 2) \div 3
      BY <2>1
    <2>4. k % 3 = 2 => (k - 1) % 3 = 1
      OBVIOUS
    <2>5. k % 3 = 0 => (k - 1) % 3 = 2
      OBVIOUS
    <2> QED
      BY <1>2, <1>3, <2>2, <2>3, <2>4, <2>5
  <1>5. Unbroken(t)
    <2>1. t # <<>> => t[Len(t)][2] = "end"
      <3>1. (3 * Len(s)) % 3 = 0
        BY <1>1
      <3> QED
        BY <1>1, <1>3, <3>1
    <2>2. ASSUME NEW k \in 1..(Len(t) - 1), t[k][2] # "end" PROVE t[k + 1][2] # "head"
      <3>1. k \in 1..(3 * Len(s)) /\ k + 1 \in 1..(3 * Len(s))
        BY <1>1
      <3>2. k % 3 # 0
        BY <1>3, <2>2, <3>1
      <3>3. (k + 1) % 3 # 1
        BY <3>1, <3>2
      <3> QED
        BY <1>3, <3>1, <3>3
    <2> QED
      BY <2>1, <2>2 DEF Unbroken
  <1>6. t # <<>> => t[1][2] = "head"
    BY <1>1, <1>3
  <1>7. ASSUME NEW k \in 1..Len(s)
        PROVE  \A part \in ToSet(Parts) : <<s[k], part>> \in ToSet(t)
    <2>1. ASSUME NEW j \in 1..3 PROVE <<s[k], Parts[j]>> \in ToSet(t)
      <3>1. /\ 3 * (k - 1) + j \in 1..(3 * Len(s))
            /\ (3 * (k - 1) + j + 2) \div 3 = k
            /\ ((3 * (k - 1) + j - 1) % 3) + 1 = j
        BY <1>1
      <3>2. t[3 * (k - 1) + j] = <<s[k], Parts[j]>>
        BY <3>1, TextPieces
      <3> QED
        BY <1>1, <3>1, <3>2 DEF ToSet
    <2>2. \A part \in ToSet(Parts) : \E j \in 1..3 : part = Parts[j]
      BY PartsAre
    <2> QED
      BY <2>1, <2>2
  <1> QED
    BY <1>4, <1>5, <1>6, <1>7

-----------------------------------------------------------------------------
(* Types.                                                                  *)

\* The alerts that Parse makes of what it found.
LEMMA ParsedBatch ==
  ASSUME NEW r \in Runs, NEW A,
         NEW b, b = [k \in DOMAIN Filter(Scenarios, A) |->
                       [by |-> r, name |-> Filter(Scenarios, A)[k]]]
  PROVE  b \in Seq(Alerts) /\ \A k \in DOMAIN b : b[k].by = r
  <1> DEFINE found == Filter(Scenarios, A)
  <1>1. found \in Seq(ToSet(Scenarios) \cap A)
    BY ScenariosAssumption, FilterType
  <1> HIDE DEF found
  <1>2. DOMAIN found = 1..Len(found) /\ Len(found) \in Nat
    BY <1>1
  <1>3. \A k \in 1..Len(found) : [by |-> r, name |-> found[k]] \in Alerts
    BY <1>1 DEF Alerts, Emitters, Names
  <1>4. b = [k \in 1..Len(found) |-> [by |-> r, name |-> found[k]]]
    BY <1>2 DEF found
  <1> QED
    BY <1>2, <1>3, <1>4

\* The places where a pattern is complete are places of the buffer.
LEMMA PolledPlaces ==
  ASSUME NEW buffer \in Seq(Patterns), NEW A \in SUBSET DOMAIN buffer
  PROVE  /\ Filter([k \in DOMAIN buffer |-> k], A) \in Seq(DOMAIN buffer)
         /\ ToSet(Filter([k \in DOMAIN buffer |-> k], A)) \subseteq DOMAIN buffer
  <1> DEFINE places == [k \in DOMAIN buffer |-> k]
             last == Filter(places, A)
  <1>1. places \in Seq(DOMAIN buffer)
    OBVIOUS
  <1>2. last \in Seq(DOMAIN buffer \cap A)
    <2> HIDE DEF places
    <2> QED
      BY <1>1, FilterType
  <1>3. DOMAIN buffer \cap A \subseteq DOMAIN buffer
    OBVIOUS
  <1> HIDE DEF last
  <1>4. last \in Seq(DOMAIN buffer)
    BY <1>2, <1>3, SeqMonotonic
  <1>5. ToSet(last) \subseteq DOMAIN buffer
    BY <1>4 DEF ToSet
  <1> QED
    BY <1>4, <1>5 DEF last

\* The alerts that Poll makes of what is new.
LEMMA PolledBatch ==
  ASSUME NEW buffer \in Seq(Patterns), NEW A \in SUBSET DOMAIN buffer,
         NEW b, b = [k \in DOMAIN Filter([k \in DOMAIN buffer |-> k], A) |->
                       [by |-> Watch, name |-> buffer[Filter([j \in DOMAIN buffer |-> j], A)[k]]]]
  PROVE  b \in Seq(Alerts) /\ \A k \in DOMAIN b : b[k].by = Watch
  <1> DEFINE firsts == Filter([k \in DOMAIN buffer |-> k], A)
  <1>2. firsts \in Seq(DOMAIN buffer)
    BY PolledPlaces
  <1> HIDE DEF firsts
  <1>3. DOMAIN firsts = 1..Len(firsts) /\ Len(firsts) \in Nat
    BY <1>2
  <1>4. \A k \in 1..Len(firsts) : [by |-> Watch, name |-> buffer[firsts[k]]] \in Alerts
    BY <1>2 DEF Alerts, Emitters, Names
  <1>5. b = [k \in 1..Len(firsts) |-> [by |-> Watch, name |-> buffer[firsts[k]]]]
    BY <1>3 DEF firsts
  <1>6. b \in [1..Len(firsts) -> Alerts]
    BY <1>4, <1>5
  <1>7. b \in Seq(Alerts)
    BY <1>3, <1>6, IsSeq
  <1> QED
    BY <1>5, <1>6, <1>7

\* What a file holds are alerts.
LEMMA HeldAlerts ==
  ASSUME TypeOK, path # 0
  PROVE  Held(path) \subseteq Alerts
  <1>1. files[path] \in Seq(Pieces)
    BY DEF TypeOK
  <1>2. \A piece \in ToSet(files[path]) : piece[1] \in Alerts
    BY <1>1 DEF ToSet, Pieces
  <1>3. \A e \in Emitters : ToSet(batch[e]) \subseteq Alerts
    BY DEF TypeOK, ToSet
  <1> QED
    BY <1>2, <1>3 DEF Held

\* The steps of a run.
LEMMA RunTypes ==
  ASSUME TypeOK, NEW r \in Runs, Run(r)
  PROVE  TypeOK'
  <1> USE DEF TypeOK, store, watch, procs, history, Goto, Labels
  <1>0. r \in Emitters /\ Job[r].scenario \in ToSet(Scenarios) /\ SourceOf(r) \in Sources
    BY ScenariosAssumption DEF Emitters, SourceOf, Sources
  <1>1. CASE Begin(r)
    <2>1. generated' \in [Sources -> Seq(ToSet(Scenarios) \X Nat)]
      BY <1>0, <1>1 DEF Begin
    <2>2. pc' \in [Emitters -> Labels] /\ \A e \in Emitters : handle'[e] # 0 <=> pc'[e] = "flush"
      BY <1>0, <1>1 DEF Begin
    <2>3. UNCHANGED <<files, path, batch, handle, out, occurred, since, seen, emitted, notified, crashes,
                  removed>>
      BY <1>1 DEF Begin
    <2> QED
      BY <2>1, <2>2, <2>3
  <1>2. CASE WriteLog(r)
    <2> DEFINE own == LinesOf(Job[r].scenario)
               old == generated[SourceOf(r)]
    <2>1. own \in Seq(ToSet(Scenarios) \X Nat)
      <3>1. Lines[Job[r].scenario] \in Nat
        BY <1>0, LinesAssumption DEF ToSet
      <3>2. \A k \in 1..Lines[Job[r].scenario] :
              <<Job[r].scenario, k>> \in ToSet(Scenarios) \X Nat
        BY <1>0, <3>1
      <3> QED
        <4>1. own \in [1..Lines[Job[r].scenario] -> ToSet(Scenarios) \X Nat]
          BY <3>2 DEF LinesOf
        <4> HIDE DEF own
        <4> QED
          BY <3>1, <4>1, IsSeq
    <2>2. old \in Seq(ToSet(Scenarios) \X Nat)
      BY <1>0
    <2>3. SubSeq(old, Len(own) + 1, Len(old)) \in Seq(ToSet(Scenarios) \X Nat)
      BY <2>1, <2>2
    <2>4. own \o SubSeq(old, Len(own) + 1, Len(old)) \in Seq(ToSet(Scenarios) \X Nat)
      BY <2>1, <2>3
    <2> HIDE DEF own
    <2>5. generated' \in [Sources -> Seq(ToSet(Scenarios) \X Nat)]
      BY <1>0, <1>2, <2>4 DEF WriteLog, own
    <2> QED
      BY <1>0, <1>2, <2>5, SMTT(20) DEF WriteLog
  <1>3. CASE Parse(r)
    <2>1. batch' = [batch EXCEPT ![r] = batch'[r]]
      BY <1>0, <1>3 DEF Parse
    <2>2. batch'[r] \in Seq(Alerts) /\ \A k \in DOMAIN batch'[r] : batch'[r][k].by = r
      BY <1>0, <1>3, ParsedBatch DEF Parse
    <2>3. /\ batch' \in [Emitters -> Seq(Alerts)]
          /\ \A e \in Emitters : \A k \in DOMAIN batch'[e] : batch'[e][k].by = e
      BY <1>0, <2>1, <2>2
    <2> QED
      BY <1>0, <1>3, <2>3 DEF Parse
  <1>4. CASE CheckStore(r)
    BY <1>0, <1>4 DEF CheckStore
  <1>5. CASE Unlink(r)
    <2>1. removed' \subseteq Alerts
      BY <1>5, HeldAlerts DEF Unlink
    <2> QED
      BY <1>0, <1>5, <2>1 DEF Unlink
  <1>6. CASE UnlinkFails(r)
    BY <1>0, <1>6 DEF UnlinkFails
  <1> QED
    BY <1>1, <1>2, <1>3, <1>4, <1>5, <1>6 DEF Run

\* The steps of an emission.
LEMMA EmitTypes ==
  ASSUME TypeOK, NEW e \in Emitters, Emit(e)
  PROVE  TypeOK'
  <1> USE DEF TypeOK, store, watch, procs, history, Goto, Labels
  <1>1. CASE Open(e)
    <2>1. batch[e] \in Seq(Alerts) /\ Text(batch[e]) \in Seq(Pieces)
      BY TextPieces
    <2>2. /\ files' \in Seq(Seq(Pieces)) /\ path' \in 1..Len(files')
          /\ Len(files') >= Len(files)
      <3>1. CASE path = 0
        BY <1>1, <3>1 DEF Open
      <3>2. CASE path # 0
        BY <1>1, <3>2 DEF Open
      <3> QED
        BY <3>1, <3>2
    <2>3. handle' \in [Emitters -> 0..Len(files')] /\ out' \in [Emitters -> Seq(Pieces)]
      BY <1>1, <2>1, <2>2 DEF Open
    <2>4. \A q \in Emitters : handle'[q] # 0 <=> pc'[q] = "flush"
      BY <1>1, <2>2 DEF Open
    <2> QED
      <3>1. pc' \in [Emitters -> Labels]
        BY <1>1 DEF Open
      <3>2. path' \in 0..Len(files')
        BY <2>2
      <3> QED
        BY <1>1, <2>2, <2>3, <2>4, <3>1, <3>2, SMTT(20) DEF Open
  <1>2. CASE NothingToStore(e)
    BY <1>2 DEF NothingToStore
  <1>3. CASE Flush(e)
    <2>1. PICK n \in Nat :
             /\ n <= Len(out[e])
             /\ files' = [files EXCEPT ![handle[e]] = @ \o SubSeq(out[e], 1, n)]
             /\ out' = [out EXCEPT ![e] = SubSeq(@, n + 1, Len(@))]
      <3> DEFINE n == IF Len(out[e]) < Buffer THEN Len(out[e]) ELSE Buffer
      <3>1. n \in Nat /\ n <= Len(out[e])
        BY BufferAssumption
      <3>2. /\ files' = [files EXCEPT ![handle[e]] = @ \o SubSeq(out[e], 1, n)]
            /\ out' = [out EXCEPT ![e] = SubSeq(@, n + 1, Len(@))]
        BY <1>3 DEF Flush
      <3> QED
        BY <3>1, <3>2
    <2>2. handle[e] \in DOMAIN files /\ files[handle[e]] \in Seq(Pieces)
      BY <1>3 DEF Flush
    <2>3. SubSeq(out[e], 1, n) \in Seq(Pieces) /\ SubSeq(out[e], n + 1, Len(out[e])) \in Seq(Pieces)
      BY <2>1
    <2>4. files[handle[e]] \o SubSeq(out[e], 1, n) \in Seq(Pieces)
      BY <2>2, <2>3
    <2>5. files' \in Seq(Seq(Pieces)) /\ Len(files') = Len(files)
      BY <2>1, <2>2, <2>4, SMTT(20)
    <2>6. out' \in [Emitters -> Seq(Pieces)]
      BY <2>1, <2>3
    <2> QED
      BY <1>3, <2>5, <2>6 DEF Flush
  <1>4. CASE Close(e)
    <2>1. removed' \subseteq Alerts
      BY <1>4 DEF Close
    <2>2. /\ UNCHANGED <<files, path, generated, batch, out, occurred, since, seen, emitted, notified,
                         crashes>>
          /\ pc' = [pc EXCEPT ![e] = "notify"] /\ handle' = [handle EXCEPT ![e] = 0]
      BY <1>4 DEF Close
    <2>3. pc' \in [Emitters -> Labels] /\ handle' \in [Emitters -> 0..Len(files')]
      BY <2>2
    <2>4. \A q \in Emitters : handle'[q] # 0 <=> pc'[q] = "flush"
      BY <2>2
    <2>5. /\ files' \in Seq(Seq(Pieces)) /\ path' \in 0..Len(files')
          /\ generated' \in [Sources -> Seq(ToSet(Scenarios) \X Nat)]
          /\ batch' \in [Emitters -> Seq(Alerts)] /\ out' \in [Emitters -> Seq(Pieces)]
      BY <2>2
    <2>6. \A q \in Emitters : \A k \in DOMAIN batch'[q] : batch'[q][k].by = q
      BY <2>2
    <2>7. /\ occurred' \in Seq(Patterns) /\ since' \in 0..seen' /\ seen' \in 0..Len(occurred')
          /\ emitted' \subseteq {occurred'[k] : k \in (since' + 1)..seen'}
          /\ notified' \subseteq Alerts /\ crashes' \in 0..MaxCrashes
      BY <2>2
    <2> QED
      BY <2>1, <2>3, <2>4, <2>5, <2>6, <2>7, Zenon
  <1>5. CASE Notify(e)
    <2>1. notified' \subseteq Alerts
      BY <1>5 DEF Notify
    <2>2. /\ UNCHANGED <<files, path, generated, handle, out, occurred, since, seen, emitted, removed,
                         crashes>>
          /\ batch' = [batch EXCEPT ![e] = <<>>]
          /\ pc[e] = "notify" /\ pc' = [pc EXCEPT ![e] = IF e = Watch THEN "poll" ELSE "done"]
      BY <1>5 DEF Notify
    <2>3. /\ pc' \in [Emitters -> Labels] /\ handle' \in [Emitters -> 0..Len(files')]
          /\ batch' \in [Emitters -> Seq(Alerts)]
      BY <2>2
    <2>4. \A q \in Emitters : handle'[q] # 0 <=> pc'[q] = "flush"
      BY <2>2
    <2>5. /\ files' \in Seq(Seq(Pieces)) /\ path' \in 0..Len(files')
          /\ generated' \in [Sources -> Seq(ToSet(Scenarios) \X Nat)]
          /\ out' \in [Emitters -> Seq(Pieces)]
      BY <2>2
    <2>6. \A q \in Emitters : \A k \in DOMAIN batch'[q] : batch'[q][k].by = q
      BY <2>2
    <2>7. /\ occurred' \in Seq(Patterns) /\ since' \in 0..seen' /\ seen' \in 0..Len(occurred')
          /\ emitted' \subseteq {occurred'[k] : k \in (since' + 1)..seen'}
          /\ removed' \subseteq Alerts /\ crashes' \in 0..MaxCrashes
      BY <2>2
    <2> QED
      BY <2>1, <2>3, <2>4, <2>5, <2>6, <2>7, Zenon
  <1> QED
    BY <1>1, <1>2, <1>3, <1>4, <1>5 DEF Emit

\* The steps of nobody in particular.
LEMMA OtherTypes ==
  ASSUME TypeOK, Forgotten,
         (\E e \in Emitters : Crash(e)) \/ (\E p \in Patterns : Occur(p)) \/ Poll \/ Restart
  PROVE  TypeOK' /\ Forgotten'
  <1> USE DEF TypeOK, Forgotten, store, watch, procs, history, Goto, Labels
  <1>0. Watch \in Emitters
    BY DEF Emitters
  <1>1. ASSUME NEW e \in Emitters, Crash(e) PROVE TypeOK' /\ Forgotten'
    BY <1>0, <1>1, CrashesAssumption DEF Crash
  <1>2. ASSUME NEW p \in Patterns, Occur(p) PROVE TypeOK' /\ Forgotten'
    <2>1. /\ occurred' \in Seq(Patterns) /\ Len(occurred') = Len(occurred) + 1
          /\ \A k \in 1..seen : occurred'[k] = occurred[k]
      BY <1>2 DEF Occur
    <2>2. /\ since' \in 0..seen' /\ seen' \in 0..Len(occurred')
          /\ emitted' \subseteq {occurred'[k] : k \in (since' + 1)..seen'}
      BY <1>2, <2>1 DEF Occur
    <2> QED
      BY <1>2, <2>1, <2>2 DEF Occur
  <1>3. CASE Poll
    <2> DEFINE buffer == SubSeq(occurred, since + 1, Len(occurred))
    <2>1. buffer \in Seq(Patterns)
      OBVIOUS
    <2>2. batch'[Watch] \in Seq(Alerts) /\ \A k \in DOMAIN batch'[Watch] : batch'[Watch][k].by = Watch
      BY <1>0, <1>3, <2>1, PolledBatch DEF Poll
    <2>3. batch' = [batch EXCEPT ![Watch] = batch'[Watch]]
      BY <1>0, <1>3 DEF Poll
    <2>4. /\ batch' \in [Emitters -> Seq(Alerts)]
          /\ \A e \in Emitters : \A k \in DOMAIN batch'[e] : batch'[e][k].by = e
      BY <1>0, <2>2, <2>3
    <2>5. emitted' \subseteq {occurred[k] : k \in (since + 1)..seen'}
      <3>0. since \in 0..Len(occurred) /\ occurred \in Seq(Patterns) /\ Len(occurred) \in Nat
        OBVIOUS
      <3>1. /\ Len(buffer) = Len(occurred) - since
            /\ \A k \in 1..(Len(occurred) - since) : buffer[k] = occurred[since + k]
        BY <3>0, Cut
      <3>2. \A k \in 1..Len(buffer) :
              since + k \in (since + 1)..Len(occurred) /\ buffer[k] = occurred[since + k]
        <4> HIDE DEF TypeOK, buffer
        <4> QED
          BY <3>0, <3>1
      <3>3. DOMAIN buffer = 1..Len(buffer)
        BY <2>1
      <3> DEFINE new == emitted' \ emitted
      <3>4. new \subseteq {buffer[k] : k \in DOMAIN buffer} /\ seen' = Len(occurred)
        <4>1. PICK A \in SUBSET DOMAIN buffer :
                 emitted' = emitted \union {buffer[k] : k \in ToSet(Filter([k \in DOMAIN buffer |-> k], A))}
          BY <1>3 DEF Poll
        <4> DEFINE last == Filter([k \in DOMAIN buffer |-> k], A)
        <4>2. ToSet(last) \subseteq DOMAIN buffer
          BY <2>1, PolledPlaces
        <4> HIDE DEF last
        <4>3. emitted' = emitted \union {buffer[k] : k \in ToSet(last)}
          BY <4>1 DEF last
        <4>4. seen' = Len(occurred)
          BY <1>3 DEF Poll
        <4> HIDE DEF buffer, TypeOK
        <4> QED
          BY <4>2, <4>3, <4>4
      <3> HIDE DEF buffer
      <3>5. new \subseteq {occurred[k] : k \in (since + 1)..Len(occurred)}
        <4>1. ASSUME NEW k \in 1..Len(buffer)
              PROVE  buffer[k] \in {occurred[j] : j \in (since + 1)..Len(occurred)}
          BY <3>2
        <4> QED
          BY <3>3, <3>4, <4>1
      <3>6. emitted \subseteq {occurred[k] : k \in (since + 1)..Len(occurred)}
        OBVIOUS
      <3> HIDE DEF TypeOK
      <3> QED
        BY <3>4, <3>5, <3>6
    <2>6. since' \in 0..seen' /\ seen' \in 0..Len(occurred')
      BY <1>3 DEF Poll
    <2>7. /\ pc' \in [Emitters -> Labels] /\ pc'[Watch] # "dead"
          /\ \A e \in Emitters : handle'[e] # 0 <=> pc'[e] = "flush"
      BY <1>0, <1>3 DEF Poll
    <2> QED
      <3>1. UNCHANGED <<files, path, generated, handle, out, occurred, notified, crashes, since, removed>>
        BY <1>3 DEF Poll
      <3> QED
        BY <3>1, <2>4, <2>5, <2>6, <2>7
  <1>4. CASE Restart
    BY <1>0, <1>4 DEF Restart
  <1> QED
    BY <1>1, <1>2, <1>3, <1>4

-----------------------------------------------------------------------------
(* Who does what.                                                          *)

\* A step that is not an emitter's leaves its part of the state alone.
LEMMA Untouched ==
  ASSUME TypeOK, Next, NEW q \in Emitters
  PROVE  \/ pc'[q] = pc[q] /\ batch'[q] = batch[q] /\ handle'[q] = handle[q] /\ out'[q] = out[q]
         \/ q \in Runs /\ Run(q)
         \/ Emit(q) \/ Crash(q)
         \/ q = Watch /\ (Poll \/ Restart)
  <1> USE DEF TypeOK, store, watch, procs, history, Goto
  <1>1. ASSUME NEW r \in Runs, Run(r), r # q
        PROVE  pc'[q] = pc[q] /\ batch'[q] = batch[q] /\ handle'[q] = handle[q] /\ out'[q] = out[q]
    <2>1. CASE Begin(r)
      BY <1>1, <2>1 DEF Begin
    <2>2. CASE WriteLog(r)
      BY <1>1, <2>2 DEF WriteLog
    <2>3. CASE Parse(r)
      BY <1>1, <2>3 DEF Parse
    <2>4. CASE CheckStore(r) \/ Unlink(r) \/ UnlinkFails(r)
      BY <1>1, <2>4 DEF CheckStore, Unlink, UnlinkFails
    <2> QED
      BY <1>1, <2>1, <2>2, <2>3, <2>4 DEF Run
  <1>2. ASSUME NEW e \in Emitters, Emit(e) \/ Crash(e), e # q
        PROVE  pc'[q] = pc[q] /\ batch'[q] = batch[q] /\ handle'[q] = handle[q] /\ out'[q] = out[q]
    BY <1>2 DEF Emit, Open, NothingToStore, Flush, Close, Notify, Crash
  <1>3. ASSUME NEW p \in Patterns, Occur(p)
        PROVE  pc'[q] = pc[q] /\ batch'[q] = batch[q] /\ handle'[q] = handle[q] /\ out'[q] = out[q]
    BY <1>3 DEF Occur
  <1>4. ASSUME Poll \/ Restart, q # Watch
        PROVE  pc'[q] = pc[q] /\ batch'[q] = batch[q] /\ handle'[q] = handle[q] /\ out'[q] = out[q]
    BY <1>4 DEF Poll, Restart
  <1> QED
    BY <1>1, <1>2, <1>3, <1>4 DEF Next

\* Only who opens the store or flushes its buffer changes a file.
LEMMA FilesChange ==
  ASSUME Next
  PROVE  files' = files \/ \E e \in Emitters : Open(e) \/ Flush(e)
  <1> USE DEF store
  <1> QED
    BY DEF Next, Run, Begin, WriteLog, Parse, CheckStore, Unlink, UnlinkFails, Emit, NothingToStore,
           Close, Notify, Crash, Occur, Poll, Restart

\* What Flush does, the size of the buffer aside.
LEMMA Flushed ==
  ASSUME TypeOK, NEW e \in Emitters, Flush(e)
  PROVE  \E n \in 1..Len(out[e]) :
           /\ files' = [files EXCEPT ![handle[e]] = @ \o SubSeq(out[e], 1, n)]
           /\ out' = [out EXCEPT ![e] = SubSeq(@, n + 1, Len(@))]
  <1> DEFINE n == IF Len(out[e]) < Buffer THEN Len(out[e]) ELSE Buffer
  <1>1. out[e] \in Seq(Pieces) /\ out[e] # <<>>
    BY DEF TypeOK, Flush
  <1>2. n \in 1..Len(out[e])
    BY <1>1, BufferAssumption
  <1>3. /\ files' = [files EXCEPT ![handle[e]] = @ \o SubSeq(out[e], 1, n)]
        /\ out' = [out EXCEPT ![e] = SubSeq(@, n + 1, Len(@))]
    BY DEF Flush
  <1> QED
    BY <1>2, <1>3

\* The store files only grow, at their end.
LEMMA FilesGrow ==
  ASSUME TypeOK, TypeOK', [Next]_vars
  PROVE  \A f \in DOMAIN files :
           /\ f \in DOMAIN files'
           /\ \A k \in DOMAIN files[f] : k \in DOMAIN files'[f] /\ files'[f][k] = files[f][k]
  <1>1. CASE files' = files
    BY <1>1
  <1>2. ASSUME NEW e \in Emitters, Open(e), files' # files PROVE files' = Append(files, <<>>)
    BY <1>2 DEF Open
  <1>3. ASSUME NEW e \in Emitters, Flush(e)
        PROVE  \A f \in DOMAIN files :
                 /\ f \in DOMAIN files'
                 /\ \A k \in DOMAIN files[f] :
                      k \in DOMAIN files'[f] /\ files'[f][k] = files[f][k]
    <2>1. PICK n \in 1..Len(out[e]) :
             files' = [files EXCEPT ![handle[e]] = @ \o SubSeq(out[e], 1, n)]
      BY <1>3, Flushed
    <2>2. SubSeq(out[e], 1, n) \in Seq(Pieces)
      <3>1. out[e] \in Seq(Pieces) /\ n \in 0..Len(out[e])
        BY DEF TypeOK
      <3> QED
        BY <3>1, Cut
    <2>3. ASSUME NEW f \in DOMAIN files, NEW k \in DOMAIN files[f]
          PROVE  k \in DOMAIN files'[f] /\ files'[f][k] = files[f][k]
      <3>1. files[f] \in Seq(Pieces)
        BY SMTT(20) DEF TypeOK
      <3>2. files'[f] = files[f] \/ files'[f] = files[f] \o SubSeq(out[e], 1, n)
        BY <2>1
      <3> QED
        BY <2>2, <3>1, <3>2
    <2> QED
      BY <2>1, <2>3
  <1> QED
    <2>1. files' = files \/ \E e \in Emitters : Open(e) \/ Flush(e)
      BY FilesChange DEF vars, store
    <2>2. CASE files' = Append(files, <<>>)
      BY <2>2 DEF TypeOK
    <2> QED
      BY <1>1, <1>2, <1>3, <2>1, <2>2

\* What is at the path of the store stays there until a fresh run removes it.
LEMMA AppendedStays ==
  ASSUME TypeOK, TypeOK', StoredInv, [Next]_vars, NEW alert, AppendedOrRemoved(alert)
  PROVE  AppendedOrRemoved(alert)'
  <1>1. path # 0 => /\ files[path] \in Seq(Pieces) /\ path \in DOMAIN files /\ path \in DOMAIN files'
                    /\ ToSet(files[path]) \subseteq ToSet(files'[path])
    <2>1. path # 0 => path \in DOMAIN files /\ files[path] \in Seq(Pieces)
      BY DEF TypeOK
    <2> QED
      BY <2>1, FilesGrow DEF ToSet
  <1>2. Appended(alert) => path # 0
    BY DEF Appended, Content, ToSet
  <1>3. ASSUME path' = path, removed' = removed PROVE AppendedOrRemoved(alert)'
    BY <1>1, <1>2, <1>3 DEF AppendedOrRemoved, Appended, Content
  <1>4. ASSUME NEW r \in Runs, Unlink(r) PROVE AppendedOrRemoved(alert)'
    <2>1. removed' = removed \union Held(path)
      BY <1>4 DEF Unlink
    <2>2. Appended(alert) => alert \in Held(path)
      <3> SUFFICES ASSUME Appended(alert) PROVE alert \in Held(path)
        OBVIOUS
      <3>1. <<alert, "end">> \in ToSet(files[path])
        BY <1>2 DEF Appended, Content
      <3>2. <<alert, "end">>[1] = alert
        OBVIOUS
      <3> QED
        BY <3>1, <3>2 DEF Held
    <2> QED
      BY <2>1, <2>2 DEF AppendedOrRemoved
  <1>5. ASSUME NEW e \in Emitters, Open(e) PROVE AppendedOrRemoved(alert)'
    <2>1. removed' = removed /\ (path # 0 => path' = path)
      BY <1>5 DEF Open
    <2>2. CASE path = 0
      BY <1>2, <2>1, <2>2 DEF AppendedOrRemoved
    <2> QED
      BY <1>3, <2>1, <2>2
  <1>6. ASSUME NEW e \in Emitters, Close(e) PROVE AppendedOrRemoved(alert)'
    <2>1. /\ path' = path /\ files' = files /\ out[e] = <<>> /\ pc[e] = "flush" /\ handle[e] # 0
          /\ removed' = IF handle[e] = path THEN removed \ ToSet(batch[e]) ELSE removed
      BY <1>6 DEF Close, TypeOK, store
    <2>2. CASE handle[e] = path /\ alert \in ToSet(batch[e])
      <3>1. Kept(e, alert)
        BY <2>1, <2>2 DEF StoredInv, Accounted
      <3>2. <<alert, "end">> \in ToSet(files[path])
        BY <2>1, <2>2, <3>1 DEF Kept, ToSet
      <3>3. Appended(alert)'
        BY <2>1, <2>2, <3>2 DEF Appended, Content
      <3> QED
        BY <3>3 DEF AppendedOrRemoved
    <2>3. CASE ~(handle[e] = path /\ alert \in ToSet(batch[e]))
      <3>1. alert \in removed => alert \in removed'
        BY <2>1, <2>3
      <3>2. Appended(alert) => Appended(alert)'
        BY <2>1 DEF Appended, Content
      <3> QED
        BY <3>1, <3>2 DEF AppendedOrRemoved
    <2> QED
      BY <2>2, <2>3
  <1>7. \/ path' = path /\ removed' = removed
        \/ \E r \in Runs : Unlink(r)
        \/ \E e \in Emitters : Open(e) \/ Close(e)
    BY DEF vars, Next, Run, Begin, WriteLog, Parse, CheckStore, UnlinkFails, Emit, NothingToStore,
           Flush, Notify, Crash, Occur, Poll, Restart, store, history
  <1> QED
    BY <1>3, <1>4, <1>5, <1>6, <1>7

-----------------------------------------------------------------------------
(* Nobody is notified of what is not at the path of the store, unless it   *)
(* was removed.                                                            *)

\* The alerts of a batch are its emitter's.
LEMMA BatchIsOwn ==
  ASSUME TypeOK, NEW e \in Emitters, NEW alert \in ToSet(batch[e])
  PROVE  alert.by = e
  <1>1. \A k \in DOMAIN batch[e] : batch[e][k].by = e
    BY DEF TypeOK
  <1>2. \E k \in DOMAIN batch[e] : alert = batch[e][k]
    BY DEF ToSet
  <1> QED
    BY <1>1, <1>2

\* Whose file is at the path and whose is not, while it is open.
LEMMA OpenFile ==
  ASSUME TypeOK, TypeOK', Next, NEW q \in Emitters, pc[q] = "flush", pc'[q] = "flush",
         handle'[q] = handle[q], batch'[q] = batch[q], NEW alert \in ToSet(batch[q]),
         handle[q] # path => alert \in removed
  PROVE  handle'[q] # path' => alert \in removed'
  <1>0. handle[q] \in 1..Len(files) /\ path \in 0..Len(files) /\ Len(files) \in Nat
    BY DEF TypeOK
  <1>1. CASE path' = path /\ removed' = removed
    BY <1>1
  <1>2. ASSUME NEW r \in Runs, Unlink(r) PROVE handle'[q] # path' => alert \in removed'
    <2>1. removed' = removed \union Held(path)
      BY <1>2 DEF Unlink
    <2>2. handle[q] = path => alert \in Held(path)
      BY DEF Held
    <2> QED
      BY <2>1, <2>2
  <1>3. ASSUME NEW e \in Emitters, Open(e) PROVE handle'[q] # path' => alert \in removed'
    <2>1. removed' = removed /\ (path # 0 => path' = path)
      BY <1>3 DEF Open
    <2> QED
      BY <1>0, <2>1
  <1>4. ASSUME NEW e \in Emitters, Close(e) PROVE handle'[q] # path' => alert \in removed'
    <2>1. /\ path' = path /\ pc'[e] = "notify"
          /\ removed' = IF handle[e] = path THEN removed \ ToSet(batch[e]) ELSE removed
      BY <1>4 DEF Close, TypeOK, store, Goto
    <2>2. e # q
      BY <2>1
    <2>3. alert \notin ToSet(batch[e])
      <3>1. alert.by = q
        BY BatchIsOwn
      <3>2. \A x \in ToSet(batch[e]) : x.by = e
        BY BatchIsOwn
      <3> QED
        BY <2>2, <3>1, <3>2
    <2> QED
      BY <2>1, <2>3
  <1>5. \/ path' = path /\ removed' = removed
        \/ \E r \in Runs : Unlink(r)
        \/ \E e \in Emitters : Open(e) \/ Close(e)
    BY DEF Next, Run, Begin, WriteLog, Parse, CheckStore, UnlinkFails, Emit, NothingToStore,
           Flush, Notify, Crash, Occur, Poll, Restart, store, history
  <1> QED
    BY <1>1, <1>2, <1>3, <1>4, <1>5

\* What an emitter has written or will write is accounted for after every step.
LEMMA AccountedStep ==
  ASSUME TypeOK, TypeOK', StoredInv, Next, NEW q \in Emitters
  PROVE  Accounted(q)'
  <1>1. CASE pc'[q] = pc[q] /\ batch'[q] = batch[q] /\ handle'[q] = handle[q] /\ out'[q] = out[q]
    <2>1. pc[q] = "flush" => handle[q] \in DOMAIN files /\ handle[q] \in DOMAIN files'
                             /\ ToSet(files[handle[q]]) \subseteq ToSet(files'[handle[q]])
      <3>1. pc[q] = "flush" => handle[q] \in DOMAIN files
        BY SMTT(20) DEF TypeOK
      <3> QED
        BY <3>1, FilesGrow DEF ToSet
    <2>2. ASSUME pc[q] = "flush", NEW alert \in ToSet(batch[q])
          PROVE  IF handle'[q] = path' THEN Kept(q, alert)' ELSE alert \in removed'
      <3>1. IF handle[q] = path THEN Kept(q, alert) ELSE alert \in removed
        BY <2>2 DEF StoredInv, Accounted
      <3>2. handle'[q] # path' => alert \in removed'
        BY <1>1, <2>2, <3>1, OpenFile
      <3>3. handle'[q] = path' => handle[q] = path
        <4>1. handle[q] \in 1..Len(files) /\ Len(files) \in Nat
          BY <2>2, SMTT(20) DEF TypeOK
        <4>2. path' = path \/ path' = 0 \/ path' = Len(files) + 1
          <5>1. \/ path' = path
                \/ \E r \in Runs : Unlink(r)
                \/ \E e \in Emitters : Open(e)
            BY DEF Next, Run, Begin, WriteLog, Parse, CheckStore, UnlinkFails, Emit, NothingToStore,
                   Flush, Close, Notify, Crash, Occur, Poll, Restart, store
          <5>2. ASSUME NEW e \in Emitters, Open(e) PROVE path' = path \/ path' = Len(files) + 1
            BY <5>2 DEF Open, TypeOK
          <5> QED
            BY <5>1, <5>2 DEF Unlink
        <4> QED
          BY <1>1, <4>1, <4>2
      <3>4. Kept(q, alert) => Kept(q, alert)'
        BY <1>1, <2>1, <2>2 DEF Kept
      <3> QED
        BY <3>1, <3>2, <3>3, <3>4
    <2>3. ASSUME pc[q] = "notify", NEW alert \in ToSet(batch[q]) PROVE AppendedOrRemoved(alert)'
      BY <2>3, AppendedStays DEF StoredInv, Accounted
    <2> QED
      BY <1>1, <2>2, <2>3 DEF Accounted
  <1>2. CASE Open(q)
    <2>1. /\ batch'[q] = batch[q] /\ batch[q] \in Seq(Alerts) /\ pc'[q] = "flush"
          /\ out'[q] = Text(batch[q]) /\ handle'[q] = path'
      BY <1>2 DEF Open, TypeOK, Goto
    <2>2. \A alert \in ToSet(batch[q]) : <<alert, "end">> \in ToSet(Text(batch[q]))
      <3>1. \A k \in 1..Len(batch[q]) : <<batch[q][k], "end">> \in ToSet(Text(batch[q]))
        BY <2>1, TextIsWhole, PartsAre
      <3>2. \A alert \in ToSet(batch[q]) : \E k \in 1..Len(batch[q]) : alert = batch[q][k]
        BY <2>1 DEF ToSet
      <3> QED
        BY <3>1, <3>2
    <2> QED
      BY <2>1, <2>2 DEF Accounted, Kept
  <1>3. CASE NothingToStore(q)
    <2>1. batch'[q] = <<>> /\ pc'[q] = "notify"
      BY <1>3 DEF NothingToStore, TypeOK, Goto
    <2> QED
      BY <2>1 DEF Accounted, ToSet
  <1>4. CASE Flush(q)
    <2>1. PICK n \in 1..Len(out[q]) :
             /\ files' = [files EXCEPT ![handle[q]] = @ \o SubSeq(out[q], 1, n)]
             /\ out' = [out EXCEPT ![q] = SubSeq(@, n + 1, Len(@))]
      BY <1>4, Flushed
    <2>2. /\ pc'[q] = "flush" /\ batch' = batch /\ handle' = handle /\ pc[q] = "flush"
          /\ handle[q] \in DOMAIN files /\ files[handle[q]] \in Seq(Pieces)
          /\ out[q] \in Seq(Pieces)
      BY <1>4 DEF Flush, TypeOK
    <2> DEFINE old == files[handle[q]]
               new == SubSeq(out[q], 1, n)
               rest == SubSeq(out[q], n + 1, Len(out[q]))
    <2>3. files'[handle[q]] = old \o new /\ out'[q] = rest
      BY <2>1, <2>2 DEF TypeOK
    <2>4. ToSet(old) \subseteq ToSet(old \o new)
      BY <2>2 DEF ToSet
    <2>5. ToSet(out[q]) \subseteq ToSet(old \o new) \union ToSet(rest)
      <3> SUFFICES ASSUME NEW k \in 1..Len(out[q])
                   PROVE  out[q][k] \in ToSet(old \o new) \/ out[q][k] \in ToSet(rest)
        <4>1. \A x \in ToSet(out[q]) : \E k \in 1..Len(out[q]) : x = out[q][k]
          BY <2>2, InSeq
        <4> QED
          BY <4>1
      <3>1. CASE k <= n
        <4>1. (old \o new)[Len(old) + k] = out[q][k] /\ Len(old) + k \in DOMAIN (old \o new)
          BY <2>2, <3>1
        <4> QED
          BY <4>1 DEF ToSet
      <3>2. CASE k > n
        <4>1. rest[k - n] = out[q][k] /\ k - n \in DOMAIN rest
          BY <2>2, <3>2
        <4> QED
          BY <4>1 DEF ToSet
      <3> QED
        BY <3>1, <3>2
    <2> HIDE DEF old, new, rest
    <2>6. ASSUME NEW alert \in ToSet(batch[q])
          PROVE  IF handle'[q] = path' THEN Kept(q, alert)' ELSE alert \in removed'
      <3>1. IF handle[q] = path THEN Kept(q, alert) ELSE alert \in removed
        BY <2>2, <2>6 DEF StoredInv, Accounted
      <3>2. path' = path /\ removed' = removed
        BY <1>4 DEF Flush, history
      <3>3. Kept(q, alert) => Kept(q, alert)'
        BY <2>2, <2>3, <2>4, <2>5 DEF Kept, old
      <3> QED
        BY <2>2, <3>1, <3>2, <3>3
    <2> QED
      BY <2>2, <2>6 DEF Accounted
  <1>5. CASE Close(q)
    <2>1. /\ pc[q] = "flush" /\ pc'[q] = "notify" /\ batch' = batch /\ out[q] = <<>>
          /\ handle[q] \in DOMAIN files /\ ToSet(out[q]) = {}
          /\ handle[q] # 0 /\ files' = files /\ path' = path
          /\ handle[q] # path => removed' = removed
      BY <1>5 DEF Close, TypeOK, Goto, ToSet, store
    <2>2. ASSUME NEW alert \in ToSet(batch[q]) PROVE AppendedOrRemoved(alert)'
      <3>1. IF handle[q] = path THEN Kept(q, alert) ELSE alert \in removed
        BY <2>1, <2>2 DEF StoredInv, Accounted
      <3>2. handle[q] = path => Appended(alert)'
        BY <2>1, <3>1 DEF Kept, Appended, Content
      <3> QED
        BY <2>1, <3>1, <3>2 DEF AppendedOrRemoved
    <2> QED
      BY <2>1, <2>2 DEF Accounted
  <1>6. CASE Notify(q) \/ Crash(q) \/ (q \in Runs /\ Run(q)) \/ (q = Watch /\ (Poll \/ Restart))
    <2>1. pc'[q] # "flush" /\ pc'[q] # "notify"
      BY <1>6 DEF Notify, Crash, Run, Begin, WriteLog, Parse, CheckStore, Unlink, UnlinkFails,
                  Poll, Restart, TypeOK, Goto
    <2> QED
      BY <2>1 DEF Accounted
  <1> QED
    BY <1>1, <1>2, <1>3, <1>4, <1>5, <1>6, Untouched DEF Emit

\* Only Notify tells anybody, and of alerts whose file was closed.
LEMMA StoredStep ==
  ASSUME TypeOK, TypeOK', StoredInv, [Next]_vars
  PROVE  StoredInv'
  <1>1. CASE UNCHANGED vars
    BY <1>1 DEF StoredInv, AppendedOrRemoved, Appended, Content, Accounted, Kept, vars, store, procs,
                history
  <1>2. CASE Next
    <2>1. ASSUME NEW alert \in notified' PROVE AppendedOrRemoved(alert)
      <3>1. CASE alert \in notified
        BY <3>1 DEF StoredInv
      <3>2. CASE alert \notin notified
        <4>1. PICK e \in Emitters : Notify(e)
          BY <1>2, <2>1, <3>2 DEF Next, Run, Begin, WriteLog, Parse, CheckStore, Unlink, UnlinkFails,
            Emit, Open, NothingToStore, Flush, Close, Crash, Occur, Poll, Restart
        <4>2. alert \in ToSet(batch[e]) /\ pc[e] = "notify"
          BY <2>1, <3>2, <4>1 DEF Notify, ToSet
        <4> QED
          BY <4>2 DEF StoredInv, Accounted
      <3> QED
        BY <3>1, <3>2
    <2>2. \A alert \in notified' : AppendedOrRemoved(alert)'
      BY <2>1, AppendedStays
    <2> QED
      BY <1>2, <2>2, AccountedStep DEF StoredInv
  <1> QED
    BY <1>1, <1>2

-----------------------------------------------------------------------------
(* A crash costs one more line at most.                                    *)

LEMMA PlacesAre ==
  ASSUME NEW fs, NEW p
  PROVE  p \in UNION {{f} \X DOMAIN fs[f] : f \in DOMAIN fs}
           <=> p[1] \in DOMAIN fs /\ p[2] \in DOMAIN fs[p[1]] /\ p = <<p[1], p[2]>>
  OBVIOUS

\* Texts written after one another, and what was there before.
LEMMA ChainedConcat ==
  ASSUME NEW s \in Seq(Pieces), NEW t \in Seq(Pieces)
  PROVE  /\ Chained(s) /\ Chained(t) => Chained(s \o t)
         /\ Chained(s \o t) => Chained(s)
  <1>1. /\ \A k \in 1..Len(s) : (s \o t)[k] = s[k]
        /\ \A k \in 1..Len(t) : (s \o t)[Len(s) + k] = t[k]
        /\ s \o t \in Seq(Pieces) /\ Len(s \o t) = Len(s) + Len(t)
        /\ DOMAIN s = 1..Len(s) /\ DOMAIN t = 1..Len(t) /\ DOMAIN (s \o t) = 1..(Len(s) + Len(t))
        /\ Len(s) \in Nat /\ Len(t) \in Nat
    OBVIOUS
  <1> DEFINE u == s \o t
  <1> HIDE DEF u
  <1>2. ASSUME Chained(s), Chained(t) PROVE Chained(u)
    <2> SUFFICES ASSUME NEW k \in 1..(Len(s) + Len(t))
                 PROVE  /\ u[k][2] = "tail" => k > 1 /\ u[k - 1] = <<u[k][1], "head">>
                        /\ u[k][2] = "end" => k > 1 /\ u[k - 1] = <<u[k][1], "tail">>
      BY <1>1 DEF Chained, u
    <2>1. CASE k <= Len(s)
      <3>1. k \in DOMAIN s /\ u[k] = s[k] /\ (k > 1 => u[k - 1] = s[k - 1])
        BY <1>1, <2>1 DEF u
      <3> QED
        BY <1>2, <3>1 DEF Chained
    <2>2. CASE k > Len(s)
      <3> DEFINE j == k - Len(s)
      <3>1. j \in 1..Len(t) /\ k = Len(s) + j /\ j \in DOMAIN t
        BY <1>1, <2>2
      <3>2. u[k] = t[j]
        BY <1>1, <3>1 DEF u
      <3>3. j > 1 => k > 1 /\ j - 1 \in 1..Len(t) /\ k - 1 = Len(s) + (j - 1)
        BY <1>1, <3>1
      <3>4. j > 1 => u[k - 1] = t[j - 1]
        BY <1>1, <3>3 DEF u
      <3> HIDE DEF j
      <3> QED
        BY <1>2, <3>1, <3>2, <3>3, <3>4 DEF Chained
    <2> QED
      BY <1>1, <2>1, <2>2
  <1>3. ASSUME Chained(u) PROVE Chained(s)
    <2> SUFFICES ASSUME NEW k \in 1..Len(s)
                 PROVE  /\ s[k][2] = "tail" => k > 1 /\ s[k - 1] = <<s[k][1], "head">>
                        /\ s[k][2] = "end" => k > 1 /\ s[k - 1] = <<s[k][1], "tail">>
      BY <1>1 DEF Chained
    <2>1. k \in DOMAIN u /\ u[k] = s[k] /\ (k > 1 => u[k - 1] = s[k - 1])
      BY <1>1 DEF u
    <2> QED
      BY <1>3, <2>1 DEF Chained
  <1> QED
    BY <1>2, <1>3 DEF u

\* What is left of a text after some of it was written.
LEMMA UnbrokenRest ==
  ASSUME NEW s \in Seq(Pieces), Unbroken(s), NEW n \in 1..Len(s)
  PROVE  /\ Unbroken(SubSeq(s, n + 1, Len(s)))
         /\ SubSeq(s, 1, n) \o SubSeq(s, n + 1, Len(s)) = s
  <1> DEFINE rest == SubSeq(s, n + 1, Len(s))
  <1>1. /\ rest \in Seq(Pieces) /\ Len(rest) = Len(s) - n /\ Len(s) \in Nat
        /\ \A k \in 1..(Len(s) - n) : rest[k] = s[n + k]
    OBVIOUS
  <1> HIDE DEF rest
  <1>2. rest # <<>> => rest[Len(rest)][2] = "end"
    <2> SUFFICES ASSUME rest # <<>> PROVE rest[Len(rest)][2] = "end"
      OBVIOUS
    <2>1. Len(rest) \in 1..(Len(s) - n)
      BY <1>1
    <2>2. rest[Len(rest)] = s[n + (Len(s) - n)]
      BY <1>1, <2>1
    <2>3. n + (Len(s) - n) = Len(s) /\ s # <<>>
      BY <1>1
    <2> QED
      BY <2>2, <2>3 DEF Unbroken
  <1>3. ASSUME NEW k \in 1..(Len(rest) - 1), rest[k][2] # "end" PROVE rest[k + 1][2] # "head"
    <2>1. /\ k \in 1..(Len(s) - n) /\ k + 1 \in 1..(Len(s) - n) /\ n + k \in 1..(Len(s) - 1)
          /\ n + (k + 1) = (n + k) + 1
      BY <1>1
    <2>2. rest[k] = s[n + k] /\ rest[k + 1] = s[(n + k) + 1]
      BY <1>1, <2>1
    <2> QED
      BY <1>3, <2>1, <2>2 DEF Unbroken
  <1>4. SubSeq(s, 1, n) \o SubSeq(s, n + 1, Len(s)) = s
    <2>1. /\ 1 \in 1..(Len(s) + 1) /\ n \in (1 - 1)..Len(s) /\ Len(s) \in n..Len(s)
      BY <1>1
    <2> QED
      BY <2>1, ConcatAdjacentSubSeq, SubSeqFull
  <1>5. Unbroken(rest)
    BY <1>2, <1>3 DEF Unbroken
  <1> QED
    BY <1>4, <1>5 DEF rest

\* Fewer tears, or one more and one more crash.
LEMMA TearsCount ==
  ASSUME NEW old, NEW new, NEW x, IsFiniteSet(old), NEW c \in Nat, Cardinality(old) <= c
  PROVE  /\ new \subseteq old => IsFiniteSet(new) /\ Cardinality(new) <= c
         /\ new \subseteq old \union {x} => IsFiniteSet(new) /\ Cardinality(new) <= c + 1
  <1>1. Cardinality(old) \in Nat
    BY FS_CardinalityType
  <1>2. ASSUME new \subseteq old PROVE IsFiniteSet(new) /\ Cardinality(new) <= Cardinality(old)
    BY <1>2, FS_Subset
  <1>3. IsFiniteSet(old \union {x}) /\ Cardinality(old \union {x}) <= c + 1
        /\ Cardinality(old \union {x}) \in Nat
    BY <1>1, FS_AddElement
  <1>4. ASSUME new \subseteq old \union {x}
        PROVE  IsFiniteSet(new) /\ Cardinality(new) <= Cardinality(old \union {x})
    BY <1>3, <1>4, FS_Subset
  <1>5. IsFiniteSet(new) => Cardinality(new) \in Nat
    BY FS_CardinalityType
  <1> QED
    BY <1>1, <1>2, <1>3, <1>4, <1>5

\* A file is opened: a new one has no lines, and nothing was being written to an old
\* one.
LEMMA OpenTears ==
  ASSUME TypeOK, TypeOK', TearInv, NEW e \in Emitters, Open(e)
  PROVE  TearInv'
  <1> USE DEF store, procs
  <1>0. /\ handle[e] = 0 /\ batch[e] \in Seq(Alerts) /\ out'[e] = Text(batch[e])
        /\ handle'[e] = path' /\ path' \in DOMAIN files' /\ path' # 0
        /\ crashes' = crashes /\ crashes \in Nat
        /\ \A q \in Emitters \ {e} : handle'[q] = handle[q] /\ out'[q] = out[q]
    <2>1. path' \in 1..Len(files')
      BY DEF Open, TypeOK
    <2> QED
      BY <2>1, CrashesAssumption, SMTT(20) DEF Open, TypeOK
  <1>1. /\ Text(batch[e]) \in Seq(Pieces) /\ Chained(Text(batch[e])) /\ Unbroken(Text(batch[e]))
    BY <1>0, TextPieces, TextIsWhole
  <1>2. \A q \in Emitters : Unbroken(out'[q])
    BY <1>0, <1>1 DEF TearInv
  <1>3. /\ \A f \in DOMAIN files : f \in DOMAIN files' /\ files'[f] = files[f]
        /\ \A f \in DOMAIN files' \ DOMAIN files : files'[f] = <<>>
        /\ files' \in Seq(Seq(Pieces)) /\ files \in Seq(Seq(Pieces))
    <2>1. files' = files \/ files' = Append(files, <<>>)
      BY DEF Open
    <2>2. files \in Seq(Seq(Pieces)) /\ files' \in Seq(Seq(Pieces)) /\ <<>> \in Seq(Pieces)
      BY DEF TypeOK
    <2>3. CASE files' = Append(files, <<>>)
      <3>1. /\ Len(files') = Len(files) + 1 /\ files'[Len(files) + 1] = <<>>
            /\ \A k \in 1..Len(files) : files'[k] = files[k]
        BY <2>2, <2>3, AppendProperties
      <3>2. DOMAIN files = 1..Len(files) /\ DOMAIN files' = 1..(Len(files) + 1) /\ Len(files) \in Nat
        BY <2>2, <3>1
      <3> QED
        BY <2>2, <3>1, <3>2
    <2> QED
      BY <2>1, <2>2, <2>3
  <1>4. ASSUME single'
        PROVE  /\ \A q, p \in Emitters : q # p /\ handle'[q] # 0 => handle'[q] # handle'[p]
               /\ \A f \in DOMAIN files' : Chained(files'[f])
               /\ \A q \in Emitters : handle'[q] # 0 => Chained(files'[handle'[q]] \o out'[q])
               /\ IsFiniteSet(Tears') /\ Cardinality(Tears') <= crashes'
    <2>1. single /\ \A q \in Emitters \ {e} : handle[q] # path'
      BY <1>4 DEF Open
    <2>2. \A q, p \in Emitters : q # p /\ handle'[q] # 0 => handle'[q] # handle'[p]
      BY <1>0, <2>1 DEF TearInv
    <2>3. \A f \in DOMAIN files' : Chained(files'[f])
      <3>1. Chained(<<>>)
        BY DEF Chained
      <3> QED
        BY <1>3, <2>1, <3>1 DEF TearInv
    <2>4. ASSUME NEW q \in Emitters, handle'[q] # 0 PROVE Chained(files'[handle'[q]] \o out'[q])
      <3>1. CASE q = e
        <4>1. files'[path'] \in Seq(Pieces) /\ Chained(files'[path'])
          BY <1>0, <1>3, <2>3
        <4> QED
          BY <1>0, <1>1, <3>1, <4>1, ChainedConcat
      <3>2. CASE q # e
        <4>1. handle[q] \in DOMAIN files /\ handle'[q] = handle[q] /\ out'[q] = out[q]
          BY <1>0, <2>4, <3>2, SMTT(20) DEF TypeOK
        <4> QED
          BY <1>3, <2>1, <2>4, <4>1 DEF TearInv
      <3> QED
        BY <3>1, <3>2
    <2>5. Tears' \subseteq Tears
      <3> SUFFICES ASSUME NEW p \in Tears' PROVE p \in Tears
        OBVIOUS
      <3>1. /\ p[1] \in DOMAIN files' /\ p[2] \in DOMAIN files'[p[1]] /\ p = <<p[1], p[2]>>
            /\ ~Ends(files'[p[1]], p[2]) /\ ~Continued(p[1], p[2])'
        BY PlacesAre DEF Tears, Places
      <3>2. p[1] \in DOMAIN files /\ files'[p[1]] = files[p[1]] /\ p[1] # 0
        BY <1>3, <3>1
      <3>3. p \in Places
        BY <3>1, <3>2, PlacesAre DEF Places
      <3>4. ~Continued(p[1], p[2])
        BY <1>0, <3>1, <3>2 DEF Continued
      <3> QED
        BY <3>1, <3>2, <3>3, <3>4 DEF Tears
    <2>6. IsFiniteSet(Tears) /\ Cardinality(Tears) <= crashes
      BY <2>1 DEF TearInv
    <2>7. IsFiniteSet(Tears') /\ Cardinality(Tears') <= crashes'
      BY <1>0, <2>5, <2>6, TearsCount
    <2> QED
      BY <2>2, <2>3, <2>4, <2>7
  <1> QED
    BY <1>2, <1>4 DEF TearInv

\* A buffer is flushed: where it ends inside a line, the rest is in the buffer.
LEMMA FlushTears ==
  ASSUME TypeOK, TypeOK', TearInv, NEW e \in Emitters, Flush(e)
  PROVE  TearInv'
  <1> DEFINE f == handle[e]
             old == files[f]
  <1>1. PICK n \in 1..Len(out[e]) :
           /\ files' = [files EXCEPT ![f] = old \o SubSeq(out[e], 1, n)]
           /\ out' = [out EXCEPT ![e] = SubSeq(out[e], n + 1, Len(out[e]))]
    BY Flushed
  <1> DEFINE new == SubSeq(out[e], 1, n)
             rest == SubSeq(out[e], n + 1, Len(out[e]))
  <1>2. /\ f \in DOMAIN files /\ f # 0 /\ old \in Seq(Pieces) /\ out[e] \in Seq(Pieces)
        /\ handle' = handle /\ crashes' = crashes /\ single' = single /\ crashes \in Nat
        /\ n \in Nat
    BY CrashesAssumption DEF Flush, TypeOK, history
  <1>3. /\ new \in Seq(Pieces) /\ rest \in Seq(Pieces)
        /\ Len(new) = n /\ Len(rest) = Len(out[e]) - n /\ Len(out[e]) \in Nat
        /\ \A k \in 1..n : new[k] = out[e][k]
        /\ \A k \in 1..(Len(out[e]) - n) : rest[k] = out[e][n + k]
    BY <1>2, SMTT(20)
  <1>4. Unbroken(out[e]) /\ Unbroken(rest) /\ new \o rest = out[e]
    BY <1>2, UnbrokenRest DEF TearInv
  <1> HIDE DEF f, old, new, rest
  <1>5. /\ files'[f] = old \o new /\ out'[e] = rest
        /\ DOMAIN files' = DOMAIN files
        /\ \A g \in DOMAIN files : g # f => files'[g] = files[g]
        /\ \A q \in Emitters : q # e => out'[q] = out[q]
    BY <1>1, <1>2 DEF TypeOK, new, rest
  <1>6. /\ Len(old) \in Nat /\ Len(old \o new) = Len(old) + n
        /\ \A k \in 1..Len(old) : (old \o new)[k] = old[k]
        /\ \A k \in 1..n : (old \o new)[Len(old) + k] = out[e][k]
        /\ DOMAIN old = 1..Len(old) /\ DOMAIN (old \o new) = 1..(Len(old) + n)
    <2>1. /\ Len(old \o new) = Len(old) + Len(new) /\ old \o new \in Seq(Pieces)
          /\ \A k \in 1..Len(old) : (old \o new)[k] = old[k]
          /\ \A k \in 1..Len(new) : (old \o new)[Len(old) + k] = new[k]
      <3>1. old \in Seq(Pieces) /\ new \in Seq(Pieces)
        BY <1>2, <1>3
      <3> QED
        BY <3>1
    <2> QED
      BY <1>2, <1>3, <2>1
  <1>7. \A q \in Emitters : Unbroken(out'[q])
    BY <1>4, <1>5 DEF TearInv
  <1>8. ASSUME single
        PROVE  /\ \A q, p \in Emitters : q # p /\ handle'[q] # 0 => handle'[q] # handle'[p]
               /\ \A g \in DOMAIN files' : Chained(files'[g])
               /\ \A q \in Emitters : handle'[q] # 0 => Chained(files'[handle'[q]] \o out'[q])
               /\ IsFiniteSet(Tears') /\ Cardinality(Tears') <= crashes'
    <2>1. \A q, p \in Emitters : q # p /\ handle'[q] # 0 => handle'[q] # handle'[p]
      BY <1>2, <1>8 DEF TearInv
    <2>2. \A q \in Emitters : q # e => handle[q] # f
      BY <1>2, <1>8 DEF TearInv, f
    <2>3. Chained((old \o new) \o rest)
      <3>1. Chained(old \o out[e])
        BY <1>2, <1>8 DEF TearInv, f, old
      <3>2. (old \o new) \o rest = old \o (new \o rest)
        <4>1. old \in Seq(Pieces) /\ new \in Seq(Pieces) /\ rest \in Seq(Pieces)
          BY <1>2, <1>3
        <4> QED
          BY <4>1, ConcatAssociative
      <3> QED
        BY <1>4, <3>1, <3>2
    <2>4. \A g \in DOMAIN files' : Chained(files'[g])
      <3>1. old \o new \in Seq(Pieces)
        BY <1>2, <1>3
      <3>2. Chained(old \o new)
        BY <1>3, <2>3, <3>1, ChainedConcat
      <3> QED
        BY <1>5, <1>8, <3>2 DEF TearInv
    <2>5. ASSUME NEW q \in Emitters, handle'[q] # 0 PROVE Chained(files'[handle'[q]] \o out'[q])
      <3>1. CASE q = e
        BY <1>2, <1>5, <2>3, <3>1 DEF f
      <3>2. CASE q # e
        <4>1. handle[q] \in DOMAIN files /\ handle[q] # f
          <5>1. handle[q] \in 1..Len(files)
            <6>1. handle[q] # 0
              BY <1>2, <2>5
            <6>2. handle[q] \in 0..Len(files) /\ Len(files) \in Nat
              BY DEF TypeOK
            <6> QED
              BY <6>1, <6>2
          <5>2. DOMAIN files = 1..Len(files)
            BY DEF TypeOK
          <5> QED
            BY <2>2, <3>2, <5>1, <5>2
        <4> QED
          BY <1>2, <1>5, <1>8, <2>5, <3>2, <4>1 DEF TearInv
      <3> QED
        BY <3>1, <3>2
    <2>6. Tears' \subseteq Tears
      <3> SUFFICES ASSUME NEW p \in Tears', p \notin Tears PROVE FALSE
        OBVIOUS
      <3> DEFINE g == p[1]
                 k == p[2]
      <3>1. /\ g \in DOMAIN files' /\ k \in DOMAIN files'[g] /\ p = <<g, k>>
            /\ ~Ends(files'[g], k) /\ ~Continued(g, k)'
        BY PlacesAre DEF Tears, Places
      <3>2. g \in DOMAIN files /\ k \in DOMAIN files[g] /\ ~Ends(files[g], k) => Continued(g, k)
        BY <3>1, PlacesAre DEF Tears, Places
      <3> HIDE DEF g, k
      <3>3. CASE g # f
        <4>1. files'[g] = files[g]
          BY <1>5, <3>1, <3>3
        <4>2. Continued(g, k)
          BY <1>5, <3>1, <3>2, <4>1
        <4>3. Continued(g, k)'
          BY <1>2, <1>5, <3>3, <4>1, <4>2 DEF Continued, f
        <4> QED
          BY <3>1, <4>3
      <3>4. CASE g = f /\ k <= Len(old)
        <4>1. k \in DOMAIN old /\ files[g] = old /\ files'[g] = old \o new /\ (old \o new)[k] = old[k]
          BY <1>5, <1>6, <3>1, <3>4 DEF old
        <4>2. Continued(g, k)
          BY <3>1, <3>2, <3>4, <4>1, <1>5 DEF Ends
        <4>3. CASE k < Len(old)
          <5>1. (old \o new)[k + 1] = old[k + 1] /\ k < Len(old \o new)
            BY <1>6, <4>1, <4>3
          <5> QED
            BY <3>1, <4>1, <4>2, <4>3, <5>1 DEF Continued
        <4>4. CASE k = Len(old)
          <5>1. PICK q \in Emitters : handle[q] = g /\ out[q] # <<>> /\ out[q][1][2] # "head"
            BY <4>1, <4>2, <4>4, <1>6 DEF Continued
          <5>2. q = e
            BY <2>2, <3>4, <5>1
          <5>3. (old \o new)[k + 1] = out[e][1] /\ k < Len(old \o new)
            BY <1>2, <1>6, <4>4
          <5> QED
            BY <3>1, <4>1, <5>1, <5>2, <5>3 DEF Continued
        <4> QED
          BY <1>6, <3>4, <4>1, <4>3, <4>4
      <3>5. CASE g = f /\ k > Len(old)
        <4> DEFINE j == k - Len(old)
        <4>1. files'[g] = old \o new
          BY <1>5, <3>5
        <4>2. j \in 1..n /\ k = Len(old) + j
          BY <1>2, <1>6, <3>1, <3>5, <4>1
        <4> HIDE DEF j
        <4>3. out[e][j][2] # "end"
          BY <1>6, <3>1, <4>1, <4>2 DEF Ends
        <4>4. j \in 1..(Len(out[e]) - 1)
          <5>1. j # Len(out[e])
            BY <1>2, <1>4, <4>3 DEF Unbroken
          <5> QED
            BY <1>3, <4>2, <5>1
        <4>5. out[e][j + 1][2] # "head"
          BY <1>4, <4>3, <4>4 DEF Unbroken
        <4>6. CASE j < n
          <5>1. (old \o new)[k + 1] = out[e][j + 1] /\ k < Len(old \o new)
            <6>1. j + 1 \in 1..n /\ k + 1 = Len(old) + (j + 1) /\ k < Len(old) + n
              <7>1. Len(old) \in Nat /\ n \in Nat /\ j \in 1..n /\ k = Len(old) + j /\ j < n
                BY <1>2, <1>6, <4>2, <4>6
              <7> QED
                BY <7>1
            <6>2. (old \o new)[Len(old) + (j + 1)] = out[e][j + 1]
              BY <1>6, <6>1
            <6> QED
              BY <1>6, <6>1, <6>2
          <5> QED
            BY <3>1, <4>1, <4>5, <5>1 DEF Continued
        <4>7. CASE j = n
          <5>1. rest # <<>> /\ rest[1] = out[e][j + 1]
            <6>1. 1 \in 1..(Len(out[e]) - n) /\ Len(rest) > 0
              BY <1>3, <4>4, <4>7
            <6> QED
              BY <1>3, <4>7, <6>1
          <5>2. k = Len(old \o new)
            BY <1>6, <4>2, <4>7
          <5>3. handle'[e] = g /\ out'[e] = rest
            BY <1>2, <1>5, <3>5 DEF f
          <5> QED
            BY <3>1, <4>1, <4>5, <5>1, <5>2, <5>3 DEF Continued
        <4> QED
          BY <1>2, <4>2, <4>6, <4>7
      <3>6. k \in Int /\ Len(old) \in Int
        <4>0. files' \in Seq(Seq(Pieces))
          BY DEF TypeOK
        <4>1. files'[g] \in Seq(Pieces)
          BY <3>1, <4>0
        <4> QED
          BY <1>6, <3>1, <4>1
      <3> QED
        BY <3>3, <3>4, <3>5, <3>6
    <2>7. IsFiniteSet(Tears) /\ Cardinality(Tears) <= crashes
      BY <1>8 DEF TearInv
    <2>8. IsFiniteSet(Tears') /\ Cardinality(Tears') <= crashes'
      BY <1>2, <2>6, <2>7, TearsCount
    <2> QED
      BY <2>1, <2>4, <2>5, <2>8
  <1> QED
    BY <1>2, <1>7, <1>8 DEF TearInv

\* A file is closed, or its writer killed: only a kill breaks a line, and one at most.
LEMMA EndTears ==
  ASSUME TypeOK, TypeOK', TearInv, NEW e \in Emitters, Close(e) \/ Crash(e)
  PROVE  TearInv'
  <1>1. /\ files' = files /\ single' = single /\ handle'[e] = 0 /\ out'[e] = <<>>
        /\ \A q \in Emitters \ {e} : handle'[q] = handle[q] /\ out'[q] = out[q]
        /\ crashes \in Nat /\ (Close(e) => crashes' = crashes /\ out[e] = <<>>)
        /\ (Crash(e) => crashes' = crashes + 1)
    BY CrashesAssumption DEF Close, Crash, TypeOK, store, history
  <1>2. \A q \in Emitters : Unbroken(out'[q])
    <2>1. Unbroken(<<>>)
      BY DEF Unbroken
    <2> QED
      BY <1>1, <2>1 DEF TearInv
  <1>3. ASSUME single
        PROVE  /\ \A q, p \in Emitters : q # p /\ handle'[q] # 0 => handle'[q] # handle'[p]
               /\ \A g \in DOMAIN files' : Chained(files'[g])
               /\ \A q \in Emitters : handle'[q] # 0 => Chained(files'[handle'[q]] \o out'[q])
               /\ IsFiniteSet(Tears') /\ Cardinality(Tears') <= crashes'
    <2>1. \A q, p \in Emitters : q # p /\ handle'[q] # 0 => handle'[q] # handle'[p]
      BY <1>1, <1>3 DEF TearInv
    <2>2. \A g \in DOMAIN files' : Chained(files'[g])
      BY <1>1, <1>3 DEF TearInv
    <2>3. \A q \in Emitters : handle'[q] # 0 => Chained(files'[handle'[q]] \o out'[q])
      BY <1>1, <1>3 DEF TearInv
    <2> DEFINE lost == <<handle[e], Len(files[handle[e]])>>
    <2>4. ASSUME NEW p \in Tears', p \notin Tears PROVE out[e] # <<>> /\ p = lost
      <3>1. /\ p[1] \in DOMAIN files /\ p[2] \in DOMAIN files[p[1]] /\ p = <<p[1], p[2]>>
            /\ ~Ends(files[p[1]], p[2]) /\ ~Continued(p[1], p[2])'
        BY <1>1, <2>4, PlacesAre DEF Tears, Places
      <3>2. Continued(p[1], p[2])
        BY <2>4, <3>1, PlacesAre DEF Tears, Places
      <3>3. /\ ~(p[2] < Len(files[p[1]]))
            /\ \E q \in Emitters : handle[q] = p[1] /\ out[q] # <<>> /\ out[q][1][2] # "head"
        BY <1>1, <3>1, <3>2 DEF Continued
      <3>4. handle[e] = p[1] /\ out[e] # <<>>
        BY <1>1, <3>1, <3>3 DEF Continued
      <3>5. files[p[1]] \in Seq(Pieces)
        BY <3>1, SMTT(20) DEF TypeOK
      <3>6. p[2] = Len(files[p[1]])
        BY <3>1, <3>3, <3>5
      <3> QED
        BY <3>1, <3>4, <3>6
    <2>5. IsFiniteSet(Tears) /\ Cardinality(Tears) <= crashes
      BY <1>3 DEF TearInv
    <2>6. CASE Close(e)
      <3>1. Tears' \subseteq Tears
        BY <1>1, <2>4, <2>6
      <3> QED
        BY <1>1, <2>1, <2>2, <2>3, <2>5, <2>6, <3>1, TearsCount
    <2>7. CASE Crash(e)
      <3>1. Tears' \subseteq Tears \union {lost}
        BY <2>4
      <3> QED
        BY <1>1, <2>1, <2>2, <2>3, <2>5, <2>7, <3>1, TearsCount
    <2> QED
      BY <2>6, <2>7
  <1> QED
    BY <1>1, <1>2, <1>3 DEF TearInv

\* The others write nothing.
LEMMA TearStep ==
  ASSUME TypeOK, TypeOK', TearInv, [Next]_vars
  PROVE  TearInv'
  <1>1. CASE UNCHANGED <<files, handle, out, single, crashes>>
    BY <1>1 DEF TearInv, Tears, Continued, Places
  <1>2. \/ UNCHANGED <<files, handle, out, single, crashes>>
        \/ \E e \in Emitters : Open(e) \/ Flush(e) \/ Close(e) \/ Crash(e)
    BY DEF vars, Next, Run, Begin, WriteLog, Parse, CheckStore, Unlink, UnlinkFails, Emit,
           NothingToStore, Notify, Occur, Poll, Restart, store, procs, history
  <1> QED
    BY <1>1, <1>2, OpenTears, FlushTears, EndTears

\* Where a line is spoiled, the line before it was torn.
LEMMA SpoiledAreTorn ==
  ASSUME TypeOK, TearInv
  PROVE  single => IsFiniteSet(Spoiled) /\ Cardinality(Spoiled) <= crashes
  <1> SUFFICES ASSUME single PROVE IsFiniteSet(Spoiled) /\ Cardinality(Spoiled) <= crashes
    OBVIOUS
  <1> DEFINE before3 == [p \in Spoiled |-> <<p[1], p[2] - 3>>]
  <1>1. ASSUME NEW p \in Spoiled
        PROVE  /\ p[1] \in DOMAIN files /\ p[2] \in Int /\ p = <<p[1], p[2]>>
               /\ <<p[1], p[2] - 3>> \in Tears
    <2> DEFINE s == files[p[1]]
               k == p[2]
    <2>1. /\ p[1] \in DOMAIN files /\ k \in DOMAIN s /\ p = <<p[1], k>>
          /\ s[k][2] = "end" /\ k - 1 \notin Readable(s)
      BY <1>1, PlacesAre DEF Spoiled, Places, Ends
    <2>2. s \in Seq(Pieces) /\ k \in 1..Len(s) /\ Len(s) \in Nat /\ DOMAIN s = 1..Len(s)
      BY <2>1 DEF TypeOK
    <2>3. Chained(s)
      BY <2>1 DEF TearInv
    <2> HIDE DEF s, k
    <2>4. k > 1 /\ s[k - 1] = <<s[k][1], "tail">> /\ k - 1 \in DOMAIN s /\ k - 1 < Len(s)
      BY <2>1, <2>2, <2>3 DEF Chained
    <2>5. /\ k - 1 > 1 /\ s[k - 2] = <<s[k - 1][1], "head">>
          /\ s[k - 1][2] = "tail" /\ s[k - 2][2] = "head"
      <3>1. s[k - 1][2] = "tail"
        BY <2>4
      <3>2. k - 1 > 1 /\ s[(k - 1) - 1] = <<s[k - 1][1], "head">>
        BY <2>3, <2>4, <3>1 DEF Chained
      <3>3. (k - 1) - 1 = k - 2
        BY <2>2
      <3> QED
        BY <3>1, <3>2, <3>3
    <2>6. k - 1 > 2 /\ ~Ends(s, k - 3)
      <3>1. (k - 1) - 1 = k - 2 /\ (k - 1) - 2 = k - 3 /\ (k - 1) + 1 = k
        BY <2>2
      <3>2. Ends(s, k)
        BY <2>1 DEF Ends
      <3> QED
        BY <2>1, <2>4, <2>5, <3>1, <3>2 DEF Readable
    <2>7. k - 3 \in DOMAIN s /\ k - 3 < Len(s) /\ (k - 3) + 1 = k - 2
      BY <2>2, <2>6
    <2>8. <<p[1], k - 3>> \in Places
      BY <2>1, <2>7, PlacesAre DEF Places, s
    <2>9. ~Continued(p[1], k - 3)
      BY <2>5, <2>7 DEF Continued, s
    <2> QED
      BY <2>1, <2>2, <2>6, <2>8, <2>9 DEF Tears, s, k
  <1>2. before3 \in Injection(Spoiled, Tears)
    <2>1. before3 \in [Spoiled -> Tears]
      BY <1>1
    <2>2. ASSUME NEW p \in Spoiled, NEW q \in Spoiled, before3[p] = before3[q] PROVE p = q
      <3>1. p[1] = q[1] /\ p[2] - 3 = q[2] - 3
        BY <2>2
      <3>2. p = <<p[1], p[2]>> /\ q = <<q[1], q[2]>> /\ p[2] \in Int /\ q[2] \in Int
        BY <1>1
      <3>3. p[2] = q[2]
        BY <3>1, <3>2
      <3> QED
        BY <3>1, <3>2, <3>3
    <2> QED
      BY <2>1, <2>2 DEF Injection, IsInjective
  <1>3. IsFiniteSet(Tears) /\ Cardinality(Tears) <= crashes
    BY DEF TearInv
  <1>4. IsFiniteSet(Spoiled) /\ Cardinality(Spoiled) <= Cardinality(Tears)
    <2> HIDE DEF before3
    <2> QED
      BY <1>2, <1>3, FS_Injection
  <1> QED
    <2>1. Cardinality(Spoiled) \in Nat /\ Cardinality(Tears) \in Nat /\ crashes \in Nat
      BY <1>3, <1>4, FS_CardinalityType, CrashesAssumption DEF TypeOK
    <2> QED
      BY <1>3, <1>4, <2>1

\* Who is notified of an alert and does not find it: its line is one that is spoiled.
LEMMA LostAreSpoiled ==
  ASSUME TypeOK, TearInv, StoredInv
  PROVE  NotifiedIsStored
  <1> SUFFICES ASSUME single PROVE Cardinality(Lost) <= crashes
    BY DEF NotifiedIsStored
  <1> DEFINE line == [alert \in Lost |-> CHOOSE p \in Spoiled : files[p[1]][p[2]] = <<alert, "end">>]
  <1>1. ASSUME NEW alert \in Lost
        PROVE  \E p \in Spoiled : files[p[1]][p[2]] = <<alert, "end">>
    <2>1. alert \in notified /\ alert \notin removed /\ alert \notin ReadBack
      BY DEF Lost
    <2>2. <<alert, "end">> \in ToSet(Content)
      BY <2>1 DEF StoredInv, AppendedOrRemoved, Appended
    <2>3. path # 0 /\ Content = files[path]
      BY <2>2 DEF Content, ToSet
    <2>4. path \in DOMAIN files /\ files[path] \in Seq(Pieces) /\ Chained(files[path])
      BY <2>3 DEF TypeOK, TearInv
    <2>5. PICK k \in DOMAIN files[path] : files[path][k] = <<alert, "end">>
      BY <2>2, <2>3 DEF ToSet
    <2>6. files[path][k][2] = "end" /\ files[path][k][1] = alert
      BY <2>5
    <2>7. files[path][k - 1] = <<alert, "tail">>
      BY <2>4, <2>6 DEF Chained
    <2>8. k - 1 \notin Readable(files[path])
      <3> SUFFICES ASSUME k - 1 \in Readable(files[path]) PROVE FALSE
        OBVIOUS
      <3>1. files[path][k - 1][1] = alert
        BY <2>7
      <3> QED
        BY <2>1, <2>3, <3>1 DEF ReadBack
    <2>9. <<path, k>> \in Places
      BY <2>4, PlacesAre DEF Places
    <2>10. <<path, k>> \in Spoiled
      BY <2>6, <2>8, <2>9 DEF Spoiled, Ends
    <2> QED
      BY <2>5, <2>10
  <1>2. \A alert \in Lost : line[alert] \in Spoiled
                           /\ files[line[alert][1]][line[alert][2]] = <<alert, "end">>
    BY <1>1
  <1> HIDE DEF line
  <1>3. line \in [Lost -> Spoiled]
    BY <1>2 DEF line
  <1>4. ASSUME NEW a \in Lost, NEW b \in Lost, line[a] = line[b] PROVE a = b
    <2>1. <<a, "end">> = <<b, "end">>
      BY <1>2, <1>4
    <2> QED
      BY <2>1
  <1>5. line \in Injection(Lost, Spoiled)
    BY <1>3, <1>4 DEF Injection, IsInjective
  <1>6. IsFiniteSet(Spoiled) /\ Cardinality(Spoiled) <= crashes
    BY SpoiledAreTorn
  <1>7. IsFiniteSet(Lost) /\ Cardinality(Lost) <= Cardinality(Spoiled)
    BY <1>5, <1>6, FS_Injection
  <1>8. Cardinality(Lost) \in Nat /\ Cardinality(Spoiled) \in Nat /\ crashes \in Nat
    BY <1>6, <1>7, FS_CardinalityType, CrashesAssumption, SMTT(20) DEF TypeOK
  <1> QED
    BY <1>6, <1>7, <1>8

-----------------------------------------------------------------------------
(* A run is as it is alone.                                                *)

\* The types of the history variables.
LEMMA HistoryStep ==
  ASSUME TypeOK, HistoryTypes, [Next]_vars
  PROVE  HistoryTypes'
  <1> USE DEF HistoryTypes
  <1>1. CASE UNCHANGED <<alone, apart, before, single>>
    BY <1>1
  <1>2. ASSUME NEW r \in Runs, Begin(r) PROVE HistoryTypes'
    <2>1. Content \in Seq(Pieces)
      BY DEF Content, TypeOK
    <2>2. alone' \in [Runs -> BOOLEAN]
      BY <1>2 DEF Begin, Joins
    <2>3. before' \in [Runs -> Seq(Pieces)]
      BY <1>2, <2>1 DEF Begin
    <2>4. apart' \in [Runs -> BOOLEAN] /\ single' = single
      BY <1>2 DEF Begin
    <2> QED
      BY <2>2, <2>3, <2>4
  <1>3. ASSUME NEW e \in Emitters, Open(e) PROVE HistoryTypes'
    BY <1>3 DEF Open
  <1>4. ASSUME NEW e \in Emitters, Notify(e) \/ Crash(e) PROVE HistoryTypes'
    <2>1. Leaves(e) /\ single' = single
      BY <1>4 DEF Notify, Crash
    <2>2. before' \in [Runs -> Seq(Pieces)]
      BY <2>1 DEF Leaves
    <2>3. alone' \in [Runs -> BOOLEAN] /\ apart' \in [Runs -> BOOLEAN]
      BY <2>1 DEF Leaves
    <2> QED
      BY <2>1, <2>2, <2>3
  <1>5. CASE Poll
    BY <1>5 DEF Poll, Joins
  <1>6. ASSUME NEW r \in Runs, Parse(r) PROVE HistoryTypes'
    <2>1. before' \in [Runs -> Seq(Pieces)]
      BY <1>6 DEF Parse
    <2>2. UNCHANGED <<alone, apart, single>>
      BY <1>6 DEF Parse
    <2> QED
      BY <2>1, <2>2
  <1> QED
    BY <1>1, <1>2, <1>3, <1>4, <1>5, <1>6
    DEF vars, Next, Run, WriteLog, CheckStore, Unlink, UnlinkFails, Emit, NothingToStore,
        Flush, Close, Occur, Restart, history

Late == {"reset", "unlink", "emit", "flush", "notify"}

\* From the lines of one scenario no other is detected.
LEMMA OwnFound ==
  ASSUME NEW r \in Runs
  PROVE  Filter(Scenarios, {s \in ToSet(Scenarios) : Detected(LinesOf(Job[r].scenario), s)})
           = <<Job[r].scenario>>
  <1> DEFINE own == Job[r].scenario
             A == {s \in ToSet(Scenarios) : Detected(LinesOf(own), s)}
  <1>1. /\ own \in ToSet(Scenarios) /\ Scenarios \in Seq(ToSet(Scenarios))
        /\ DOMAIN Scenarios = 1..Len(Scenarios)
    BY ScenariosAssumption
  <1>2. PICK i \in 1..Len(Scenarios) : own = Scenarios[i]
    BY <1>1 DEF ToSet
  <1>3. \A s \in ToSet(Scenarios) : Lines[s] \in Nat \ {0}
    BY LinesAssumption DEF ToSet
  <1>4. ToSet(LinesOf(own)) = {<<own, k>> : k \in 1..Lines[own]}
    BY DEF ToSet, LinesOf
  <1> HIDE DEF own
  <1>5. ASSUME NEW s \in A PROVE s = own
    <2>1. Detected(LinesOf(own), s) /\ 1 \in 1..Lines[s]
      BY <1>3
    <2>2. <<s, 1>> \in ToSet(LinesOf(own))
      BY <2>1 DEF Detected
    <2> QED
      BY <1>4, <2>2
  <1>6. own \in A
    BY <1>1, <1>4 DEF Detected
  <1> HIDE DEF A
  <1>7. \A j \in 1..Len(Scenarios) : Scenarios[j] \in A => j = i
    BY <1>1, <1>2, <1>5, ScenariosAssumption DEF IsInjective
  <1>8. Filter(Scenarios, A) = <<Scenarios[i]>>
    BY <1>1, <1>2, <1>6, <1>7, FilterOne
  <1> QED
    BY <1>2, <1>8 DEF A, own

\* Steps that neither write a log nor read one leave the runs to themselves.
LEMMA ApartOther ==
  ASSUME TypeOK, HistoryTypes, NEW r \in Runs, ApartRun(r),
         generated' = generated,
         \A q \in Runs : pc'[q] = pc[q] \/ pc'[q] \notin {"write", "parse"},
         apart'[r] => apart[r] /\ batch'[r] = batch[r] /\ (pc'[r] \in Late => pc[r] \in Late)
  PROVE  ApartRun(r)'
  BY DEF ApartRun, Late, InLog, SameLog, Own

\* A run of another source does not touch the log, one of the same source that is
\* using it ends being apart.
LEMMA ApartStep ==
  ASSUME TypeOK, TypeOK', HistoryTypes, [Next]_vars, NEW r \in Runs, ApartRun(r)
  PROVE  ApartRun(r)'
  <1> USE DEF Goto, store, watch, procs, history
  <1>0. /\ pc \in [Emitters -> Labels] /\ Runs \subseteq Emitters /\ Watch \in Emitters
        /\ \A q \in Runs : q # Watch
        /\ \A q \in Runs : SourceOf(q) \in Sources
        /\ generated \in [Sources -> Seq(ToSet(Scenarios) \X Nat)]
        /\ batch \in [Emitters -> Seq(Alerts)]
        /\ apart \in [Runs -> BOOLEAN]
    BY ScenariosAssumption, WatchAssumption DEF TypeOK, Emitters, SourceOf, Sources, HistoryTypes
  <1>1. CASE UNCHANGED vars
    BY <1>1, ApartOther DEF vars
  <1>2. ASSUME NEW q \in Runs, Begin(q) PROVE ApartRun(r)'
    <2>1. /\ pc[q] = "idle" /\ pc' = [pc EXCEPT ![q] = "write"] /\ batch' = batch
          /\ generated' = [generated EXCEPT ![SourceOf(q)] = <<>>]
          /\ apart' = [p \in Runs |->
                         IF p = q THEN \A o \in SameLog(q) : ~InLog(o)
                         ELSE apart[p] /\ ~(p \in SameLog(q) /\ InLog(p))]
      BY <1>2 DEF Begin
    <2>2. CASE q = r
      <3>1. pc'[r] = "write" /\ generated'[SourceOf(r)] = <<>>
        BY <1>0, <2>1, <2>2
      <3>2. apart'[r] => \A o \in SameLog(r) : ~InLog(o)'
        BY <1>0, <2>1, <2>2 DEF InLog, SameLog
      <3> QED
        BY <3>1, <3>2 DEF ApartRun, SameLog, SourceOf
    <2>3. CASE q # r
      <3>1. apart'[r] => apart[r] /\ ~(r \in SameLog(q) /\ InLog(r))
        BY <2>1, <2>3
      <3>2. pc'[r] = pc[r] /\ batch'[r] = batch[r]
        BY <1>0, <2>1, <2>3
      <3>3. CASE SourceOf(q) = SourceOf(r)
        <4>1. r \in SameLog(q)
          BY <2>3, <3>3 DEF SameLog
        <4> QED
          BY <3>1, <3>2, <4>1 DEF ApartRun, InLog, Own
      <3>4. CASE SourceOf(q) # SourceOf(r)
        <4>1. generated'[SourceOf(r)] = generated[SourceOf(r)]
          BY <1>0, <2>1, <3>4
        <4>2. \A o \in SameLog(r) : o # q /\ pc'[o] = pc[o]
          BY <1>0, <2>1, <3>4 DEF SameLog
        <4>3. InLog(r) => \A o \in SameLog(r) : InLog(o)' => InLog(o)
          BY <4>2 DEF InLog
        <4> QED
          BY <3>1, <3>2, <4>1, <4>3 DEF ApartRun, InLog, Own, SameLog, SourceOf
      <3> QED
        BY <3>3, <3>4
    <2> QED
      BY <2>2, <2>3
  <1>3. ASSUME NEW q \in Runs, WriteLog(q) PROVE ApartRun(r)'
    <2> DEFINE own == LinesOf(Job[q].scenario)
               old == generated[SourceOf(q)]
    <2>1. /\ pc[q] = "write" /\ pc' = [pc EXCEPT ![q] = "parse"] /\ batch' = batch /\ apart' = apart
          /\ generated' = [generated EXCEPT ![SourceOf(q)] =
                             own \o SubSeq(old, Len(own) + 1, Len(old))]
      BY <1>3 DEF WriteLog
    <2>2. CASE q = r
      <3> SUFFICES ASSUME apart[r]
                   PROVE  /\ pc'[r] = "parse"
                          /\ generated'[SourceOf(r)] = LinesOf(Job[r].scenario)
                          /\ \A o \in SameLog(r) : ~InLog(o)'
        BY <1>0, <2>1, <2>2 DEF ApartRun, SameLog, SourceOf, LinesOf
      <3>1. old = <<>> /\ \A o \in SameLog(r) : ~InLog(o)
        BY <2>1, <2>2 DEF ApartRun, InLog
      <3>2. own \o SubSeq(old, Len(own) + 1, Len(old)) = own
        <4>1. Lines[Job[q].scenario] \in Nat
          BY ScenariosAssumption, LinesAssumption DEF ToSet
        <4>2. own \in [1..Lines[Job[q].scenario] -> {Job[q].scenario} \X Nat]
          BY <4>1 DEF LinesOf
        <4> HIDE DEF own, old
        <4>3. own \in Seq({Job[q].scenario} \X Nat) /\ Len(own) \in Nat
          BY <4>1, <4>2, IsSeq
        <4>4. SubSeq(old, Len(own) + 1, Len(old)) = <<>>
          BY <3>1, <4>3, SubSeqEmpty
        <4> QED
          BY <4>3, <4>4, ConcatEmptySeq
      <3>3. \A o \in SameLog(r) : pc'[o] = pc[o]
        BY <1>0, <2>1, <2>2 DEF SameLog
      <3>4. generated'[SourceOf(r)] = own
        BY <1>0, <2>1, <2>2, <3>2
      <3> QED
        BY <1>0, <2>1, <2>2, <3>1, <3>3, <3>4 DEF InLog
    <2>3. CASE q # r
      <3>1. pc'[r] = pc[r] /\ batch'[r] = batch[r] /\ apart'[r] = apart[r]
        BY <1>0, <2>1, <2>3
      <3>2. CASE apart[r] /\ InLog(r)
        <4>1. SourceOf(q) # SourceOf(r)
          <5>1. InLog(q)
            BY <2>1 DEF InLog
          <5> QED
            BY <2>3, <3>2, <5>1 DEF ApartRun, SameLog
        <4>2. generated'[SourceOf(r)] = generated[SourceOf(r)]
          BY <1>0, <2>1, <4>1
        <4>3. \A o \in SameLog(r) : pc'[o] = pc[o]
          BY <1>0, <2>1, <4>1 DEF SameLog
        <4> QED
          BY <3>1, <3>2, <4>2, <4>3 DEF ApartRun, InLog, Own, SameLog, SourceOf, LinesOf
      <3>3. CASE ~apart[r] \/ ~InLog(r)
        BY <3>1, <3>3 DEF ApartRun, InLog, Own
      <3> QED
        BY <3>2, <3>3
    <2> QED
      BY <2>2, <2>3
  <1>4. ASSUME NEW q \in Runs, Parse(q) PROVE ApartRun(r)'
    <2> DEFINE found == Filter(Scenarios, {s \in ToSet(Scenarios) :
                                             Detected(generated[SourceOf(q)], s)})
    <2>1. /\ pc[q] = "parse" /\ generated' = generated /\ apart' = apart
          /\ pc' \in {[pc EXCEPT ![q] = "reset"], [pc EXCEPT ![q] = "emit"]}
          /\ batch' = [batch EXCEPT ![q] =
                         [k \in DOMAIN found |-> [by |-> q, name |-> found[k]]]]
      BY <1>4 DEF Parse
    <2>2. CASE q = r
      <3>1. pc'[r] \in {"reset", "emit"}
        BY <1>0, <2>1, <2>2
      <3>2. apart[r] => batch'[r] = Own(r)
        <4> SUFFICES ASSUME apart[r] PROVE batch'[r] = Own(r)
          OBVIOUS
        <4>1. generated[SourceOf(r)] = LinesOf(Job[r].scenario)
          BY <2>1, <2>2 DEF ApartRun
        <4>2. found = <<Job[r].scenario>>
          BY <2>2, <4>1, OwnFound
        <4>3. batch'[r] = [k \in DOMAIN found |-> [by |-> r, name |-> found[k]]]
          BY <1>0, <2>1, <2>2
        <4> HIDE DEF found
        <4> QED
          BY <4>2, <4>3 DEF Own
      <3> QED
        BY <2>1, <3>1, <3>2 DEF ApartRun, InLog, Own
    <2>3. CASE q # r
      <3>1. \A o \in Runs : pc'[o] = pc[o] \/ pc'[o] \notin {"write", "parse"}
        BY <1>0, <2>1
      <3>2. batch'[r] = batch[r] /\ pc'[r] = pc[r]
        BY <1>0, <2>1, <2>3
      <3> QED
        BY <2>1, <3>1, <3>2, ApartOther
    <2> QED
      BY <2>2, <2>3
  <1>5. ASSUME NEW q \in Runs, CheckStore(q) \/ Unlink(q) \/ UnlinkFails(q) PROVE ApartRun(r)'
    <2>1. /\ generated' = generated /\ batch' = batch /\ apart' = apart
          /\ pc' \in {[pc EXCEPT ![q] = "emit"], [pc EXCEPT ![q] = "unlink"],
                      [pc EXCEPT ![q] = "failed"]}
          /\ pc[q] \in {"reset", "unlink"}
      BY <1>5 DEF CheckStore, Unlink, UnlinkFails
    <2>2. \A o \in Runs : pc'[o] = pc[o] \/ pc'[o] \notin {"write", "parse"}
      BY <1>0, <2>1
    <2>3. pc'[r] \in Late => pc[r] \in Late
      BY <1>0, <2>1 DEF Late
    <2> QED
      BY <2>1, <2>2, <2>3, ApartOther
  <1>6. ASSUME NEW e \in Emitters, Open(e) \/ NothingToStore(e) \/ Flush(e) \/ Close(e)
        PROVE  ApartRun(r)'
    <2>1. /\ generated' = generated /\ batch' = batch /\ apart' = apart
          /\ pc' \in {pc, [pc EXCEPT ![e] = "flush"], [pc EXCEPT ![e] = "notify"]}
          /\ pc[e] \in {"emit", "flush"}
      BY <1>6 DEF Open, NothingToStore, Flush, Close
    <2>2. \A o \in Runs : pc'[o] = pc[o] \/ pc'[o] \notin {"write", "parse"}
      BY <1>0, <2>1
    <2>3. pc'[r] \in Late => pc[r] \in Late
      BY <1>0, <2>1 DEF Late
    <2> QED
      BY <2>1, <2>2, <2>3, ApartOther
  <1>7. ASSUME NEW e \in Emitters, Notify(e) \/ Crash(e) PROVE ApartRun(r)'
    <2>1. /\ generated' = generated /\ batch' = [batch EXCEPT ![e] = <<>>] /\ Leaves(e)
          /\ \E l \in {"poll", "done", "dead", "failed"} : pc' = [pc EXCEPT ![e] = l]
      BY <1>7 DEF Notify, Crash
    <2>2. \A o \in Runs : pc'[o] = pc[o] \/ pc'[o] \notin {"write", "parse"}
      BY <1>0, <2>1
    <2>3. apart'[r] => apart[r] /\ r # e
      BY <2>1 DEF Leaves
    <2>4. r # e => pc'[r] = pc[r] /\ batch'[r] = batch[r]
      BY <1>0, <2>1
    <2> QED
      BY <2>1, <2>2, <2>3, <2>4, ApartOther
  <1>8. ASSUME NEW p \in Patterns, Occur(p) PROVE ApartRun(r)'
    BY <1>8, ApartOther DEF Occur
  <1>9. CASE Poll \/ Restart
    <2>1. /\ generated' = generated /\ apart' = apart
          /\ \A o \in Runs : pc'[o] = pc[o] /\ batch'[o] = batch[o]
      BY <1>0, <1>9 DEF Poll, Restart
    <2> QED
      BY <2>1, ApartOther
  <1> QED
    BY <1>1, <1>2, <1>3, <1>4, <1>5, <1>6, <1>7, <1>8, <1>9 DEF Next, Run, Emit

\* While a run is alone the others begin nothing.
LEMMA AloneOther ==
  ASSUME TypeOK, HistoryTypes, NEW r \in Runs, AloneRun(r),
         store' = store, pc'[r] = pc[r], out'[r] = out[r], handle'[r] = handle[r],
         \A q \in Emitters \ {r} : pc'[q] = pc[q] \/ pc'[q] \in Resting,
         alone'[r] => alone[r] /\ (apart[r] => apart'[r]) /\ before'[r] = before[r]
  PROVE  AloneRun(r)'
  BY DEF AloneRun, Content, Busy, Resting, Own, Text, Parts, store

\* The steps of the run itself, from one label to the next.
LEMMA AloneOwn ==
  ASSUME TypeOK, TypeOK', HistoryTypes, NEW r \in Runs, ApartRun(r), ApartRun(r)', AloneRun(r),
         Run(r) \/ Emit(r) \/ Crash(r)
  PROVE  AloneRun(r)'
  <1> USE DEF Goto, store, watch, procs, history
  <1>0. /\ pc \in [Emitters -> Labels] /\ r \in Emitters
        /\ handle \in [Emitters -> 0..Len(files)] /\ out \in [Emitters -> Seq(Pieces)]
        /\ batch \in [Emitters -> Seq(Alerts)]
        /\ files \in Seq(Seq(Pieces)) /\ path \in 0..Len(files) /\ Len(files) \in Nat
        /\ DOMAIN files = 1..Len(files)
        /\ before \in [Runs -> Seq(Pieces)]
    BY SMTT(20) DEF TypeOK, Emitters, HistoryTypes
  <1>1. CASE Begin(r)
    <2>1. /\ pc' = [pc EXCEPT ![r] = "write"] /\ store' = store
          /\ alone'[r] <=> \A q \in Emitters \ {r} : ~Busy(q)
          /\ apart'[r] <=> \A p \in SameLog(r) : ~InLog(p)
          /\ before'[r] = IF alone'[r] THEN Content ELSE <<>>
      BY <1>0, <1>1 DEF Begin, Joins
    <2>2. \A q \in Emitters \ {r} : pc'[q] = pc[q]
      BY <1>0, <2>1
    <2>3. ASSUME alone'[r] PROVE apart'[r] /\ \A q \in Emitters \ {r} : ~Busy(q)'
      BY <2>1, <2>2, <2>3 DEF Busy, InLog, Resting, SameLog, Emitters
    <2>4. pc'[r] = "write"
      BY <1>0, <2>1
    <2> QED
      BY <2>1, <2>3, <2>4 DEF AloneRun, Content
  <1>2. ASSUME UNCHANGED <<files, path, alone, apart>>,
               \A q \in Emitters \ {r} : pc'[q] = pc[q],
               alone[r] /\ apart[r] =>
                 /\ pc'[r] \in {"write", "parse", "reset", "unlink", "emit", "flush", "notify"}
                 /\ pc'[r] \in {"write", "parse"} => before'[r] = Content
                 /\ pc'[r] \in {"reset", "unlink"} => before'[r] = <<>>
                 /\ pc'[r] = "unlink" => path # 0
                 /\ pc'[r] = "emit" => Content = before'[r]
                 /\ pc'[r] = "notify" => Content = before'[r] \o Text(Own(r)),
               pc'[r] # "flush"
        PROVE  AloneRun(r)'
    BY <1>2 DEF AloneRun, Busy, Content, Own, Text, Parts
  <1>3. CASE WriteLog(r)
    <2>1. pc[r] = "write" /\ pc'[r] = "parse" /\ UNCHANGED <<files, path, alone, apart, before>>
          /\ \A q \in Emitters \ {r} : pc'[q] = pc[q]
      BY <1>0, <1>3 DEF WriteLog
    <2> QED
      BY <1>2, <2>1 DEF AloneRun
  <1>4. CASE Parse(r)
    <2>1. /\ pc[r] = "parse"
          /\ \/ pc'[r] = "reset" /\ before'[r] = <<>>
             \/ pc'[r] = "emit" /\ before'[r] = before[r]
          /\ UNCHANGED <<files, path, alone, apart>>
          /\ \A q \in Emitters \ {r} : pc'[q] = pc[q]
      BY <1>0, <1>4 DEF Parse
    <2> QED
      BY <1>2, <2>1 DEF AloneRun
  <1>5. CASE CheckStore(r)
    <2>1. /\ pc[r] = "reset" /\ pc'[r] = IF path = 0 THEN "emit" ELSE "unlink"
          /\ UNCHANGED <<files, path, alone, apart, before>>
          /\ \A q \in Emitters \ {r} : pc'[q] = pc[q]
      BY <1>0, <1>5 DEF CheckStore
    <2>2. path = 0 => Content = <<>>
      BY DEF Content
    <2> QED
      BY <1>2, <2>1, <2>2 DEF AloneRun
  <1>6. CASE Unlink(r)
    <2>1. /\ pc[r] = "unlink" /\ pc'[r] = "emit" /\ path' = 0
          /\ UNCHANGED <<files, alone, apart, before>>
          /\ \A q \in Emitters \ {r} : pc'[q] = pc[q]
      BY <1>0, <1>6 DEF Unlink
    <2>2. Content' = <<>>
      BY <2>1 DEF Content
    <2> QED
      BY <2>1, <2>2 DEF AloneRun, Busy
  <1>7. CASE UnlinkFails(r)
    <2>1. pc[r] = "unlink" /\ path = 0 /\ alone' = alone
      BY <1>7 DEF UnlinkFails
    <2> QED
      BY <2>1 DEF AloneRun
  <1>8. CASE Open(r)
    <2>1. /\ pc[r] = "emit" /\ pc'[r] = "flush" /\ handle'[r] = path' /\ out'[r] = Text(batch[r])
          /\ UNCHANGED <<alone, apart, before>>
          /\ \A q \in Emitters \ {r} : pc'[q] = pc[q]
          /\ files' = IF path = 0 THEN Append(files, <<>>) ELSE files
          /\ path' = IF path = 0 THEN Len(files') ELSE path
      BY <1>0, <1>8 DEF Open
    <2>2. alone[r] => batch[r] = Own(r)
      BY <2>1 DEF AloneRun, ApartRun
    <2>3. files'[path'] = Content
      <3>1. CASE path = 0
        <4>1. files' = Append(files, <<>>) /\ path' = Len(files')
          BY <2>1, <3>1
        <4>2. <<>> \in Seq(Pieces)
          OBVIOUS
        <4>3. Len(files') = Len(files) + 1 /\ files'[Len(files) + 1] = <<>>
          BY <1>0, <4>1, <4>2, AppendProperties
        <4> QED
          BY <3>1, <4>1, <4>3 DEF Content
      <3>2. CASE path # 0
        BY <2>1, <3>2 DEF Content
      <3> QED
        BY <3>1, <3>2
    <2>4. alone[r] => files'[path'] \o out'[r] = before[r] \o Text(Own(r))
      BY <2>1, <2>2, <2>3 DEF AloneRun
    <2> QED
      BY <2>1, <2>4 DEF AloneRun, Busy, Own, Text, Parts
  <1>9. CASE NothingToStore(r)
    <2>1. pc[r] = "emit" /\ alone' = alone /\ batch[r] = <<>>
      BY <1>9 DEF NothingToStore
    <2>2. Own(r) # <<>>
      BY DEF Own
    <2> QED
      BY <2>1, <2>2 DEF AloneRun, ApartRun
  <1>10. CASE Flush(r)
    <2>1. PICK n \in 1..Len(out[r]) :
             /\ files' = [files EXCEPT ![handle[r]] = @ \o SubSeq(out[r], 1, n)]
             /\ out' = [out EXCEPT ![r] = SubSeq(@, n + 1, Len(@))]
      BY <1>0, <1>10, Flushed
    <2>2. /\ pc[r] = "flush" /\ pc' = pc /\ handle' = handle /\ path' = path
          /\ UNCHANGED <<alone, apart, before>>
          /\ handle[r] \in DOMAIN files
      BY <1>0, <1>10 DEF Flush, TypeOK
    <2> SUFFICES ASSUME alone[r]
                 PROVE  files'[path] \o out'[r] = before[r] \o Text(Own(r))
      BY <2>2 DEF AloneRun, Busy, Own, Text, Parts
    <2> DEFINE old == files[path]
               new == SubSeq(out[r], 1, n)
               rest == SubSeq(out[r], n + 1, Len(out[r]))
    <2>3. handle[r] = path /\ old \o out[r] = before[r] \o Text(Own(r))
      BY <2>2 DEF AloneRun
    <2>4. files'[path] = old \o new /\ out'[r] = rest
      BY <1>0, <2>1, <2>2, <2>3
    <2>5. out[r] \in Seq(Pieces) /\ Len(out[r]) \in Nat /\ n \in 1..Len(out[r])
      BY <1>0
    <2>6. old \in Seq(Pieces) /\ new \in Seq(Pieces) /\ rest \in Seq(Pieces)
      BY <1>0, <2>2, <2>3, <2>5
    <2>7. new \o rest = out[r]
      <3> DEFINE u == out[r]
      <3>1. u \in Seq(Pieces) /\ Len(u) \in Nat /\ n \in 1..Len(u)
        BY <2>5
      <3> HIDE DEF u
      <3>2. 1 \in 1..(Len(u) + 1) /\ n \in (1 - 1)..Len(u) /\ Len(u) \in n..Len(u)
        BY <3>1
      <3>3. SubSeq(u, 1, n) \o SubSeq(u, n + 1, Len(u)) = SubSeq(u, 1, Len(u))
        BY <3>1, <3>2, ConcatAdjacentSubSeq
      <3>4. SubSeq(u, 1, Len(u)) = u
        BY <3>1, SubSeqFull
      <3> QED
        BY <3>3, <3>4 DEF u
    <2> HIDE DEF old, new, rest
    <2>8. (old \o new) \o rest = old \o (new \o rest)
      BY <2>6, ConcatAssociative, SMTT(20)
    <2> QED
      BY <2>3, <2>4, <2>7, <2>8
  <1>11. CASE Close(r)
    <2>1. /\ pc[r] = "flush" /\ pc'[r] = "notify" /\ out[r] = <<>>
          /\ UNCHANGED <<files, path, alone, apart, before>>
          /\ \A q \in Emitters \ {r} : pc'[q] = pc[q]
          /\ handle[r] \in DOMAIN files
      BY <1>0, <1>11 DEF Close, TypeOK
    <2>2. alone[r] => Content = before[r] \o Text(Own(r))
      <3> SUFFICES ASSUME alone[r] PROVE Content = before[r] \o Text(Own(r))
        OBVIOUS
      <3>1. handle[r] = path /\ files[path] \o out[r] = before[r] \o Text(Own(r))
        BY <2>1 DEF AloneRun
      <3>2. files[path] \in Seq(Pieces) /\ Content = files[path]
        BY <1>0, <2>1, <3>1 DEF Content
      <3>3. files[path] \o <<>> = files[path]
        BY <3>2, ConcatEmptySeq
      <3> QED
        BY <2>1, <3>1, <3>2, <3>3
    <2> QED
      BY <1>2, <2>1, <2>2
  <1>12. CASE Notify(r) \/ Crash(r)
    <2>1. ~alone'[r]
      BY <1>12 DEF Notify, Crash, Leaves
    <2> QED
      BY <2>1 DEF AloneRun
  <1> QED
    BY <1>1, <1>3, <1>4, <1>5, <1>6, <1>7, <1>8, <1>9, <1>10, <1>11, <1>12 DEF Run, Emit

\* The steps of the others: who is not busy can only begin, which ends being alone, or
\* rest.
LEMMA AloneStep ==
  ASSUME TypeOK, TypeOK', HistoryTypes, [Next]_vars, NEW r \in Runs,
         ApartRun(r), ApartRun(r)', AloneRun(r)
  PROVE  AloneRun(r)'
  <1> USE DEF Goto, store, watch, procs, history
  <1>0. /\ pc \in [Emitters -> Labels] /\ Runs \subseteq Emitters /\ Watch \in Emitters
        /\ handle \in [Emitters -> 0..Len(files)] /\ out \in [Emitters -> Seq(Pieces)]
        /\ r # Watch
    BY WatchAssumption DEF TypeOK, Emitters
  <1>1. CASE UNCHANGED vars
    BY <1>1, AloneOther DEF vars
  <1>2. alone[r] => /\ \A q \in Emitters \ {r} : pc[q] \in Resting
                    /\ Busy(r)
    BY DEF AloneRun, Busy, Resting
  <1>3. ASSUME ~alone'[r] PROVE AloneRun(r)'
    BY <1>3 DEF AloneRun
  <1>4. ASSUME NEW q \in Runs, q # r, Run(q) PROVE AloneRun(r)'
    <2>1. CASE Begin(q)
      <3>1. alone'[r] => alone[r] /\ ~Busy(r)
        BY <1>4, <2>1 DEF Begin, Joins
      <3> QED
        BY <1>2, <1>3, <3>1
    <2>2. CASE ~Begin(q)
      <3>1. alone' = alone /\ pc[q] \notin Resting
        BY <1>4, <2>2 DEF Run, WriteLog, Parse, CheckStore, Unlink, UnlinkFails, Resting
      <3> QED
        BY <1>0, <1>2, <1>3, <1>4, <3>1
    <2> QED
      BY <2>1, <2>2
  <1>5. ASSUME NEW q \in Emitters, q # r, Emit(q) PROVE AloneRun(r)'
    <2>1. alone'[r] => alone[r]
      BY <1>5 DEF Emit, Open, NothingToStore, Flush, Close, Notify, Leaves
    <2>2. pc[q] \notin Resting
      BY <1>5 DEF Emit, Open, NothingToStore, Flush, Close, Notify, Resting
    <2> QED
      BY <1>2, <1>3, <1>5, <2>1, <2>2
  <1>6. ASSUME NEW q \in Emitters, q # r, Crash(q) PROVE AloneRun(r)'
    <2>1. /\ store' = store /\ Leaves(q)
          /\ pc' = [pc EXCEPT ![q] = IF q = Watch THEN "dead" ELSE "failed"]
          /\ handle' = [handle EXCEPT ![q] = 0] /\ out' = [out EXCEPT ![q] = <<>>]
      BY <1>6 DEF Crash
    <2>2. /\ pc'[r] = pc[r] /\ handle'[r] = handle[r] /\ out'[r] = out[r]
          /\ \A o \in Emitters \ {r} : pc'[o] = pc[o] \/ pc'[o] \in Resting
      BY <1>0, <1>6, <2>1 DEF Resting
    <2>3. alone'[r] => alone[r] /\ (apart[r] => apart'[r]) /\ before'[r] = before[r]
      BY <1>6, <2>1 DEF Leaves
    <2> QED
      BY <2>1, <2>2, <2>3, AloneOther
  <1>7. ASSUME NEW p \in Patterns, Occur(p) PROVE AloneRun(r)'
    BY <1>7, AloneOther DEF Occur
  <1>8. CASE Poll
    <2>1. CASE alone' = alone /\ pc' = [pc EXCEPT ![Watch] = "poll"]
      <3>1. /\ store' = store /\ handle' = handle /\ out' = out /\ apart' = apart /\ before' = before
        BY <1>8 DEF Poll
      <3>2. pc'[r] = pc[r] /\ \A o \in Emitters \ {r} : pc'[o] = pc[o] \/ pc'[o] \in Resting
        BY <1>0, <2>1 DEF Resting
      <3> QED
        BY <2>1, <3>1, <3>2, AloneOther
    <2>2. CASE Joins(Watch)
      <3>1. alone'[r] => alone[r] /\ ~Busy(r)
        BY <1>0, <2>2 DEF Joins
      <3> QED
        BY <1>2, <1>3, <3>1
    <2> QED
      BY <1>8, <2>1, <2>2 DEF Poll
  <1>9. CASE Restart
    <2>1. /\ store' = store /\ handle' = handle /\ out' = out
          /\ alone' = alone /\ apart' = apart /\ before' = before
          /\ pc' = [pc EXCEPT ![Watch] = "poll"]
      BY <1>9 DEF Restart
    <2>2. pc'[r] = pc[r] /\ \A o \in Emitters \ {r} : pc'[o] = pc[o] \/ pc'[o] \in Resting
      BY <1>0, <2>1 DEF Resting
    <2> QED
      BY <2>1, <2>2, AloneOther
  <1> QED
    BY <1>1, <1>4, <1>5, <1>6, <1>7, <1>8, <1>9, AloneOwn DEF Next

-----------------------------------------------------------------------------
(* The invariant.                                                          *)

\* The invariant holds at first.
LEMMA ServiceInit ==
  Init => IInv
  <1> SUFFICES ASSUME Init PROVE IInv
    OBVIOUS
  <1> USE DEF Init
  <1>1. TypeOK
    BY CrashesAssumption DEF TypeOK, Labels
  <1>2. Forgotten
    BY DEF Forgotten
  <1>3. StoredInv
    BY DEF StoredInv, Accounted
  <1>4. TearInv
    <2>1. Unbroken(<<>>)
      BY DEF Unbroken
    <2>2. Tears = {}
      BY PlacesAre DEF Tears, Places
    <2> QED
      BY <2>1, <2>2, FS_EmptySet, CrashesAssumption DEF TearInv
  <1>5. LoneInv
    BY DEF LoneInv, HistoryTypes, ApartRun, AloneRun
  <1> QED
    BY <1>1, <1>2, <1>3, <1>4, <1>5 DEF IInv

\* Every step keeps the invariant.
LEMMA ServiceStep ==
  IInv /\ [Next]_vars => IInv'
  <1> SUFFICES ASSUME IInv, [Next]_vars PROVE IInv'
    OBVIOUS
  <1>1. TypeOK' /\ Forgotten'
    <2>1. CASE UNCHANGED vars
      BY <2>1 DEF IInv, TypeOK, Forgotten, vars, store, procs, watch, history
    <2>2. ASSUME NEW r \in Runs, Run(r) PROVE TypeOK' /\ Forgotten'
      <3>1. pc'[Watch] = pc[Watch] /\ emitted' = emitted
        BY <2>2, WatchAssumption DEF IInv, TypeOK, Emitters, Run, Begin, WriteLog, Parse, CheckStore,
           Unlink, UnlinkFails, Goto, watch
      <3> QED
        BY <2>2, <3>1, RunTypes DEF IInv, Forgotten
    <2>3. ASSUME NEW e \in Emitters, Emit(e) PROVE TypeOK' /\ Forgotten'
      <3>1. (pc'[Watch] = "dead" => pc[Watch] = "dead") /\ emitted' = emitted
        BY <2>3 DEF IInv, TypeOK, Emitters, Emit, Open, NothingToStore, Flush, Close, Notify, Goto, watch
      <3> QED
        BY <2>3, <3>1, EmitTypes DEF IInv, Forgotten
    <2> QED
      BY <2>1, <2>2, <2>3, OtherTypes DEF IInv, Next
  <1>2. StoredInv' /\ TearInv'
    BY <1>1, StoredStep, TearStep DEF IInv
  <1>3. HistoryTypes /\ HistoryTypes'
    BY HistoryStep DEF IInv, LoneInv, HistoryTypes
  <1>4. ASSUME NEW r \in Runs PROVE ApartRun(r)' /\ AloneRun(r)'
    <2>1. ApartRun(r) /\ AloneRun(r) /\ TypeOK
      BY DEF IInv, LoneInv
    <2>2. ApartRun(r)'
      BY <1>1, <1>3, <2>1, ApartStep
    <2> QED
      BY <1>1, <1>3, <2>1, <2>2, AloneStep
  <1> QED
    BY <1>1, <1>2, <1>3, <1>4 DEF IInv, LoneInv, HistoryTypes

\* The invariant holds in every behaviour of runs, watch, kills and restarts (run_scenario,
\* JsonlSink, _cmd_run, _cmd_watch).
THEOREM ServiceInvariant ==
  Spec => []IInv
  BY ServiceInit, ServiceStep, PTL DEF Spec

\* Every variable keeps its type; a handle is open exactly while flushing, and the watch
\* remembers only what it has read (sinks.py 133-139, live.py 151-189).
THEOREM ServiceTypes ==
  Spec => []TypeOK
  <1>1. IInv => TypeOK
    BY DEF IInv
  <1> QED
    BY <1>1, ServiceInvariant, PTL

\* Whatever is killed or reset: who is notified of an alert reads it in the store unless a
\* fresh run removed it, but for one alert a kill, as long as no two processes write at the
\* same time (cli/main.py 184-200, 288-296, live.py 184-187, sinks.py 133-166).
THEOREM NotifiedAlertsAreStored ==
  Spec => []NotifiedIsStored
  <1>1. IInv => NotifiedIsStored
    BY LostAreSpoiled DEF IInv
  <1> QED
    BY <1>1, ServiceInvariant, PTL

\* However large the buffer and whatever is written: each kill costs one more line at
\* most, as long as no two processes write at the same time (sinks.py 137-140, 143-165).
THEOREM CrashSpoilsOneLine ==
  Spec => []CrashCostsOneMore
  <1>1. IInv => CrashCostsOneMore
    BY SpoiledAreTorn DEF IInv, CrashCostsOneMore
  <1> QED
    BY <1>1, ServiceInvariant, PTL

\* A run on its own detects its scenario, does not fail and stores its alert after what
\* was there, for any scenarios and however many of them (runner.py 79-98).
THEOREM LoneRunStoresItsOwn ==
  Spec => []RunsAsAlone
  <1>1. IInv => RunsAsAlone
    BY DEF IInv, LoneInv, ApartRun, AloneRun, RunsAsAlone, Own
  <1> QED
    BY <1>1, ServiceInvariant, PTL
=============================================================================
