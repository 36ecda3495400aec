------------------------- MODULE TriageStore_proofs -------------------------
(***************************************************************************)
(* What analysts decided survives every interleaving of syncs, for every   *)
(* number of requests, alerts and records.  The argument: a row, once      *)
(* there, stays; so a sync that updates still finds the row its SELECT     *)
(* found, an INSERT only fills a free place, and neither touches what a    *)
(* request of an analyst wrote.                                            *)
(***************************************************************************)
EXTENDS TriageStore, TLAPS

\* The uid a request is ingesting.
Current(r) == Head(todo[r]).uid

\* A row that a SELECT found is still there at the UPDATE; one that was
\* stored behind its back was stored by a request that raced it.
SelectHolds ==
  \A r \in Requests :
    pc[r] = "write" =>
      /\ existing[r] => rows[Current(r)] # None
      /\ rows[Current(r)] # None => existing[r] \/ raced[r]

\* The notes table and what analysts wrote agree for every uid.
NotesAgree == \A u \in Uids : notes[u] = noted[u]

IInv ==
  /\ TypeOK
  /\ SelectHolds
  /\ NotesAgree
  /\ TriageKept
  /\ FailsOnlyWhenRaced

LEMMA NatBounds ==
  MaxRecords \in Nat /\ MaxTime \in Nat /\ MaxRequests \in Nat
  BY BoundsAssumption

\* A request for a status names an alert and a status, one for a note an
\* alert, one for an incident a set of them.
LEMMA OpType ==
  ASSUME NEW o \in Asked
  PROVE  /\ o.do = "status" => o.uid \in Uids /\ o.status \in Statuses
         /\ o.do = "note" => o.uid \in Uids
         /\ o.do = "group" => o.uids \subseteq Uids
         /\ o # None
  BY AskedAssumption, NoneAssumption DEF Ops

\* The record being ingested, and what is left after it.
LEMMA CurrentType ==
  ASSUME TypeOK, NEW r \in Requests, pc[r] \in Ingesting
  PROVE  /\ Head(todo[r]) \in Record
         /\ Current(r) \in Uids
         /\ Head(todo[r]).n \in 1..MaxRecords
         /\ Tail(todo[r]) \in Seq(Record)
  <1>1. todo[r] \in Seq(Record) /\ todo[r] # <<>>
    BY DEF TypeOK, RequestTypes
  <1>2. Head(todo[r]) \in Record /\ Tail(todo[r]) \in Seq(Record)
    BY <1>1
  <1> QED
    BY <1>2 DEF Record, Current

\* What the rest of the invariant says of the requests.
Sound == SelectHolds /\ FailsOnlyWhenRaced

\* A request that returns leaves its part of the invariant to the others, as
\* long as no row comes or goes.
LEMMA ReturnStep ==
  ASSUME TypeOK, Sound, NEW r \in Requests, Return(r),
         \A u \in Uids : rows'[u] = None <=> rows[u] = None,
         made' = made
  PROVE  RequestTypes' /\ Sound'
  <1> USE NatBounds DEF TypeOK, Return, Goto
  <1>1. RequestTypes'
    <2>1. /\ pc' \in [Requests -> Labels]
          /\ op' \in [Requests -> Asked \union {None}]
          /\ \A q \in Requests : pc'[q] # "idle" => op'[q] # None
      BY DEF RequestTypes, Labels
    <2>2. /\ snapshot' \in [Requests -> Seq(Record)]
          /\ todo' \in [Requests -> Seq(Record)]
      <3>1. <<>> \in Seq(Record)
        OBVIOUS
      <3> QED
        BY <3>1 DEF RequestTypes
    <2>3. \A q \in Requests : pc'[q] \in Ingesting => todo'[q] # <<>>
      BY DEF RequestTypes, Ingesting
    <2>4. /\ now' \in [Requests -> 0..MaxTime]
          /\ existing' \in [Requests -> BOOLEAN]
          /\ incident' \in [Requests -> Nat]
          /\ raced' \in [Requests -> BOOLEAN]
      BY DEF RequestTypes
    <2> QED
      BY <2>1, <2>2, <2>3, <2>4 DEF RequestTypes
  <1>2. SelectHolds'
    <2> SUFFICES ASSUME NEW q \in Requests, pc'[q] = "write"
                 PROVE  /\ existing'[q] => rows'[Current(q)'] # None
                        /\ rows'[Current(q)'] # None => existing'[q] \/ raced'[q]
      BY DEF SelectHolds
    <2>1. q # r /\ pc[q] = "write"
      BY DEF RequestTypes
    <2>2. Current(q)' = Current(q) /\ Current(q) \in Uids
      BY <2>1, CurrentType DEF RequestTypes, Current, Ingesting
    <2> QED
      BY <2>1, <2>2 DEF Sound, SelectHolds, RequestTypes
  <1>3. FailsOnlyWhenRaced'
    <2> SUFFICES ASSUME NEW q \in Requests, pc'[q] = "failed"
                 PROVE  raced'[q] \/ (op'[q].do = "note" /\ rows'[op'[q].uid] = None)
      BY DEF FailsOnlyWhenRaced
    <2>1. q # r /\ pc[q] = "failed" /\ op'[q] = op[q] /\ raced'[q] = raced[q]
      BY DEF RequestTypes
    <2>2. op[q] \in Asked
      BY <2>1 DEF RequestTypes
    <2> QED
      BY <2>1, <2>2, OpType DEF Sound, FailsOnlyWhenRaced
  <1> QED
    BY <1>1, <1>2, <1>3 DEF Sound

\* What Sound says of one request.
SoundFor(r) ==
  /\ pc[r] = "write" =>
       /\ existing[r] => rows[Current(r)] # None
       /\ rows[Current(r)] # None => existing[r] \/ raced[r]
  /\ pc[r] = "failed" => raced[r] \/ (op[r].do = "note" /\ rows[op[r].uid] = None)

LEMMA SoundForAll == Sound <=> \A r \in Requests : SoundFor(r)
  BY DEF Sound, SoundFor, SelectHolds, FailsOnlyWhenRaced

\* A step of one request that neither adds nor removes a row is no matter to
\* the others.
LEMMA LocalStep ==
  ASSUME TypeOK, Sound, NEW r \in Requests, SoundFor(r)',
         \A u \in Uids : rows'[u] = None <=> rows[u] = None,
         \A q \in Requests \ {r} :
           /\ pc'[q] = pc[q] /\ op'[q] = op[q] /\ todo'[q] = todo[q]
           /\ existing'[q] = existing[q]
           /\ raced[q] => raced'[q]
  PROVE  Sound'
  <1> SUFFICES ASSUME NEW q \in Requests \ {r} PROVE SoundFor(q)'
    BY DEF Sound, SoundFor, SelectHolds, FailsOnlyWhenRaced
  <1>1. SoundFor(q)
    BY SoundForAll
  <1>2. pc[q] = "write" => Current(q) \in Uids
    BY CurrentType DEF Ingesting
  <1>3. pc[q] = "failed" /\ op[q].do = "note" => op[q].uid \in Uids
    BY OpType DEF TypeOK, RequestTypes
  <1> QED
    BY <1>1, <1>2, <1>3 DEF SoundFor, Current

\* The clock, the file and an arriving request leave the tables alone.
LEMMA AroundStep ==
  ASSUME IInv,
         \/ Tick
         \/ \E u \in Uids : Emit(u)
         \/ ResetLog
         \/ \E r \in Requests : \E o \in Asked : Arrive(r, o)
         \/ \E r \in Requests : Crash(r)
  PROVE  IInv'
  <1> USE NatBounds DEF IInv, TypeOK, database, requests, history
  <1>1. ASSUME UNCHANGED <<database, requests, history>>, StoreTypes' PROVE IInv'
    BY <1>1 DEF RequestTypes, HistoryTypes, SelectHolds, NotesAgree, TriageKept,
       FailsOnlyWhenRaced, Current
  <1>2. CASE Tick
    BY <1>1, <1>2 DEF Tick, StoreTypes
  <1>3. CASE \E u \in Uids : Emit(u)
    <2> PICK u \in Uids : Emit(u)
      BY <1>3
    <2>1. appended' \in 1..MaxRecords
      BY DEF Emit, StoreTypes
    <2>2. [uid |-> u, n |-> appended'] \in Record
      BY <2>1 DEF Record
    <2>3. log' \in Seq(Record)
      BY <2>2 DEF Emit, StoreTypes
    <2> QED
      BY <1>1, <2>1, <2>3 DEF Emit, StoreTypes
  <1>4. CASE ResetLog
    BY <1>1, <1>4 DEF ResetLog, StoreTypes
  <1>5. CASE \E r \in Requests : \E o \in Asked : Arrive(r, o)
    <2> PICK r \in Requests, o \in Asked : Arrive(r, o)
      BY <1>5
    <2> USE DEF Arrive, Goto
    <2>1. /\ made' \in 0..MaxRequests
          /\ op' \in [Requests -> Asked \union {None}]
          /\ pc' \in [Requests -> Labels]
          /\ raced' \in [Requests -> BOOLEAN]
      BY DEF RequestTypes, Labels
    <2>2. \A q \in Requests : /\ pc'[q] # "idle" => op'[q] # None
                              /\ pc'[q] \in Ingesting => todo'[q] # <<>>
      BY OpType DEF RequestTypes, Ingesting
    <2>3. RequestTypes'
      BY <2>1, <2>2 DEF RequestTypes
    <2>4. Sound'
      BY LocalStep DEF Sound, SoundFor, RequestTypes
    <2> QED
      BY <2>3, <2>4 DEF Sound, StoreTypes, HistoryTypes, NotesAgree, TriageKept
  <1>6. CASE \E r \in Requests : Crash(r)
    <2> PICK r \in Requests : Crash(r)
      BY <1>6
    <2>1. RequestTypes' /\ Sound'
      BY ReturnStep DEF Crash, Sound
    <2> QED
      BY <2>1 DEF Crash, Sound, StoreTypes, HistoryTypes, NotesAgree, TriageKept
  <1> QED
    BY <1>2, <1>3, <1>4, <1>5, <1>6

\* The steps of a sync that do not write.
LEMMA ReadStep ==
  ASSUME IInv, NEW r \in Requests,
         ReadLog(r) \/ TakeRecord(r) \/ Select(r) \/ InsertFails(r) \/ SyncDone(r)
  PROVE  IInv'
  <1> USE NatBounds DEF IInv, TypeOK, database, requests, history, Goto
  <1>0. /\ StoreTypes' /\ HistoryTypes' /\ NotesAgree' /\ TriageKept'
        /\ rows' = rows /\ op' = op /\ raced' = raced /\ made' = made /\ incident' = incident
        /\ \A q \in Requests \ {r} :
             pc'[q] = pc[q] /\ todo'[q] = todo[q] /\ existing'[q] = existing[q]
    BY DEF ReadLog, TakeRecord, Select, InsertFails, SyncDone, StoreTypes,
       HistoryTypes, NotesAgree, TriageKept, RequestTypes
  <1>1. pc' \in [Requests -> Labels] /\ \A q \in Requests : pc'[q] # "idle" => op'[q] # None
    BY <1>0 DEF ReadLog, TakeRecord, Select, InsertFails, SyncDone, RequestTypes,
       Labels, Ingesting
  <1>2. \A q \in Requests : pc'[q] \in Ingesting => todo'[q] # <<>>
    BY DEF ReadLog, TakeRecord, Select, InsertFails, SyncDone, RequestTypes, Ingesting
  <1>3. CASE ReadLog(r)
    <2>1. RequestTypes'
      BY <1>0, <1>1, <1>2, <1>3 DEF ReadLog, RequestTypes, StoreTypes
    <2>2. SoundFor(r)'
      BY <1>3 DEF ReadLog, SoundFor, RequestTypes
    <2> QED
      BY <1>0, <2>1, <2>2, LocalStep DEF Sound
  <1>4. CASE TakeRecord(r)
    <2>1. RequestTypes'
      BY <1>0, <1>1, <1>2, <1>4 DEF TakeRecord, RequestTypes, StoreTypes
    <2>2. SoundFor(r)'
      BY <1>4 DEF TakeRecord, SoundFor, RequestTypes
    <2> QED
      BY <1>0, <2>1, <2>2, LocalStep DEF Sound
  <1>5. CASE Select(r)
    <2>1. RequestTypes'
      BY <1>0, <1>1, <1>2, <1>5 DEF Select, RequestTypes
    <2>2. SoundFor(r)'
      BY <1>5 DEF Select, SoundFor, RequestTypes, Current
    <2> QED
      BY <1>0, <2>1, <2>2, LocalStep DEF Sound
  <1>6. CASE InsertFails(r)
    <2>1. RequestTypes'
      BY <1>0, <1>1, <1>2, <1>6 DEF InsertFails, RequestTypes
    <2>2. raced[r]
      BY <1>6 DEF InsertFails, SelectHolds, Current
    <2>3. SoundFor(r)'
      BY <1>0, <1>6, <2>2 DEF InsertFails, SoundFor, RequestTypes
    <2> QED
      BY <1>0, <2>1, <2>3, LocalStep DEF Sound
  <1>7. CASE SyncDone(r)
    <2>1. RequestTypes'
      BY <1>0, <1>1, <1>2, <1>7 DEF SyncDone, RequestTypes
    <2>2. SoundFor(r)'
      BY <1>7 DEF SyncDone, SoundFor, RequestTypes
    <2> QED
      BY <1>0, <2>1, <2>2, LocalStep DEF Sound
  <1> QED
    BY <1>3, <1>4, <1>5, <1>6, <1>7

\* The row a sync writes: a new one for a new alert, otherwise the one there
\* was with the triage state it had.
LEMMA RowWritten ==
  ASSUME IInv, NEW r \in Requests, Insert(r) \/ Update(r)
  PROVE  \E row \in Row :
           /\ rows' = [rows EXCEPT ![Current(r)] = row]
           /\ row.n = Head(todo[r]).n
           /\ rows[Current(r)] = None => row.status = "new" /\ row.incident = None
           /\ rows[Current(r)] # None => /\ row.status = rows[Current(r)].status
                                         /\ row.incident = rows[Current(r)].incident
  <1> USE NatBounds
  <1>0. pc[r] = "write" /\ pc[r] \in Ingesting
    BY DEF Insert, Update, Ingesting
  <1>1. /\ Current(r) \in Uids
        /\ Head(todo[r]).n \in 1..MaxRecords
        /\ now[r] \in 0..MaxTime
        /\ rows \in [Uids -> Row \union {None}]
    BY <1>0, CurrentType DEF IInv, TypeOK, RequestTypes, StoreTypes
  <1>2. CASE Insert(r)
    <2>1. NewRow(r) \in Row
      BY <1>1 DEF NewRow, Row, Statuses, OpenStatuses
    <2>2. /\ NewRow(r).status = "new" /\ NewRow(r).incident = None
          /\ NewRow(r).n = Head(todo[r]).n
      BY DEF NewRow
    <2>3. rows' = [rows EXCEPT ![Current(r)] = NewRow(r)] /\ rows[Current(r)] = None
      BY <1>2 DEF Insert, Current
    <2> QED
      BY <2>1, <2>2, <2>3
  <1>3. CASE Update(r)
    <2> DEFINE row == [rows[Current(r)] EXCEPT !.n = Head(todo[r]).n, !.lastUpdated = now[r]]
    <2>1. rows[Current(r)] \in Row /\ rows[Current(r)] # None
      BY <1>0, <1>1, <1>3 DEF Update, IInv, SelectHolds
    <2>2. /\ row \in Row
          /\ row.n = Head(todo[r]).n
          /\ row.status = rows[Current(r)].status
          /\ row.incident = rows[Current(r)].incident
      BY <1>1, <2>1 DEF Row
    <2>3. rows' = [rows EXCEPT ![Current(r)] = row]
      BY <1>1, <1>3, <2>1 DEF Update, Current
    <2> QED
      BY <2>1, <2>2, <2>3
  <1> QED
    BY <1>2, <1>3

\* The steps of a sync that write.
LEMMA WriteStep ==
  ASSUME IInv, NEW r \in Requests, Insert(r) \/ Update(r)
  PROVE  IInv'
  <1> USE NatBounds
  <1>0. Ingested(r) /\ pc[r] = "write" /\ pc[r] \in Ingesting /\ TypeOK
    BY DEF Insert, Update, Ingesting, IInv
  <1>1. Current(r) \in Uids /\ Tail(todo[r]) \in Seq(Record)
    BY <1>0, CurrentType
  <1>2. PICK row \in Row :
          /\ rows' = [rows EXCEPT ![Current(r)] = row]
          /\ rows[Current(r)] = None => row.status = "new" /\ row.incident = None
          /\ rows[Current(r)] # None => /\ row.status = rows[Current(r)].status
                                        /\ row.incident = rows[Current(r)].incident
    BY RowWritten
  <1>3. row # None
    BY <1>2, NoneAssumption
  <1>4. /\ rows' \in [Uids -> Row \union {None}]
        /\ rows'[Current(r)] = row
        /\ \A u \in Uids : u # Current(r) => rows'[u] = rows[u]
    BY <1>0, <1>1, <1>2 DEF TypeOK, StoreTypes
  <1>5. StoreTypes' /\ HistoryTypes'
    BY <1>0, <1>4 DEF TypeOK, StoreTypes, HistoryTypes, Ingested, history
  <1>6. NotesAgree' /\ TriageKept'
    BY <1>0, <1>2, <1>3, <1>4 DEF IInv, NotesAgree, TriageKept, Ingested, history
  <1>7. RequestTypes'
    <2>1. /\ pc' \in [Requests -> Labels]
          /\ \A q \in Requests : /\ pc'[q] # "idle" => op'[q] # None
                                 /\ pc'[q] \in Ingesting => todo'[q] # <<>>
      BY <1>0 DEF TypeOK, RequestTypes, Ingested, Goto, Labels, Ingesting
    <2>2. todo' \in [Requests -> Seq(Record)]
      BY <1>0, <1>1 DEF TypeOK, RequestTypes, Ingested
    <2>3. /\ now' \in [Requests -> 0..MaxTime]
          /\ existing' \in [Requests -> BOOLEAN]
          /\ raced' \in [Requests -> BOOLEAN]
      BY <1>0 DEF TypeOK, RequestTypes, Ingested
    <2> QED
      BY <1>0, <2>1, <2>2, <2>3 DEF TypeOK, RequestTypes, Ingested
  <1>8. ASSUME NEW q \in Requests PROVE SoundFor(q)'
    <2>1. CASE q = r
      BY <1>0, <2>1 DEF SoundFor, Ingested, Goto, TypeOK, RequestTypes
    <2>2. CASE q # r
      <3>1. pc'[q] = pc[q] /\ todo'[q] = todo[q] /\ existing'[q] = existing[q]
        BY <1>0, <2>2 DEF Ingested, Goto, TypeOK, RequestTypes
      <3>2. pc[q] # "idle" => raced'[q]
        BY <1>0, <2>2 DEF Ingested, TypeOK, RequestTypes
      <3>3. pc[q] = "write" => Current(q) \in Uids
        BY <1>0, CurrentType DEF Ingesting
      <3>4. SoundFor(q)
        BY SoundForAll DEF IInv, Sound
      <3> QED
        BY <1>3, <1>4, <3>1, <3>2, <3>3, <3>4 DEF SoundFor, Current
    <2> QED
      BY <2>1, <2>2
  <1>9. Sound'
    BY <1>8 DEF Sound, SoundFor, SelectHolds, FailsOnlyWhenRaced
  <1> QED
    BY <1>5, <1>6, <1>7, <1>9 DEF IInv, TypeOK, Sound

\* What the analyst asked for.
LEMMA TriageStep ==
  ASSUME IInv, NEW r \in Requests, Triage(r)
  PROVE  IInv'
  <1> USE NatBounds
  <1>0. TypeOK /\ Sound
    BY DEF IInv, Sound
  <1>o. pc[r] \in {"op", "assign"} => op[r] \in Asked
    BY <1>0 DEF TypeOK, RequestTypes
  <1>1. CASE Query(r)
    <2>1. RequestTypes' /\ Sound'
      BY <1>0, <1>1, ReturnStep DEF Query, database
    <2> QED
      BY <1>1, <2>1 DEF Query, database, history, IInv, TypeOK, Sound, StoreTypes,
         HistoryTypes, NotesAgree, TriageKept
  <1>2. CASE SetStatus(r)
    <2>1. op[r].uid \in Uids /\ op[r].status \in Statuses
      BY <1>o, <1>2, OpType DEF SetStatus, Doing
    <2>2. CASE rows[op[r].uid] = None
      <3>1. UNCHANGED <<rows, verdict, closedAt>>
        BY <1>2, <2>2 DEF SetStatus
      <3>2. RequestTypes' /\ Sound'
        BY <1>0, <1>2, <3>1, ReturnStep DEF SetStatus
      <3> QED
        BY <1>2, <3>1, <3>2 DEF SetStatus, IInv, TypeOK, Sound, StoreTypes,
           HistoryTypes, NotesAgree, TriageKept
    <2>3. CASE rows[op[r].uid] # None
      <3> DEFINE u == op[r].uid
                 s == op[r].status
                 row == [rows[u] EXCEPT !.status = s, !.lastUpdated = clock]
      <3>1. rows[u] \in Row /\ clock \in 0..MaxTime
        BY <1>0, <2>1, <2>3 DEF TypeOK, StoreTypes
      <3>2. row \in Row /\ row.status = s /\ row.incident = rows[u].incident
        BY <2>1, <3>1 DEF Row
      <3>3. row # None
        BY <3>2, NoneAssumption
      <3>4. rows' = [rows EXCEPT ![u] = row]
        BY <1>0, <1>2, <2>1, <2>3, <3>1 DEF SetStatus, TypeOK, StoreTypes
      <3>5. /\ rows' \in [Uids -> Row \union {None}]
            /\ rows'[u] = row
            /\ \A v \in Uids : v # u => rows'[v] = rows[v]
        BY <1>0, <2>1, <3>2, <3>4 DEF TypeOK, StoreTypes
      <3>6. RequestTypes' /\ Sound'
        BY <1>0, <1>2, <2>3, <3>3, <3>5, ReturnStep DEF SetStatus
      <3>7. /\ verdict' = [verdict EXCEPT ![u] = s]
            /\ closedAt' \in [Uids -> 0..MaxTime]
            /\ UNCHANGED <<clock, log, appended, notes, incidents, filed, noted>>
        BY <1>0, <1>2, <2>3, <3>1 DEF SetStatus, TypeOK, HistoryTypes
      <3>8. StoreTypes' /\ HistoryTypes'
        BY <1>0, <2>1, <3>5, <3>7 DEF TypeOK, StoreTypes, HistoryTypes
      <3>9. NotesAgree' /\ TriageKept'
        BY <1>0, <2>1, <2>3, <3>2, <3>3, <3>5, <3>7, ZenonT(40) DEF IInv, NotesAgree, TriageKept,
           TypeOK, HistoryTypes
      <3> QED
        BY <3>6, <3>8, <3>9 DEF IInv, TypeOK, Sound
    <2> QED
      BY <2>2, <2>3
  <1>3. CASE AddNote(r)
    <2>1. op[r].uid \in Uids /\ op[r].do = "note" /\ pc[r] = "op"
      BY <1>o, <1>3, OpType DEF AddNote, Doing
    <2>2. CASE rows[op[r].uid] = None
      <3>1. /\ pc' = [pc EXCEPT ![r] = "failed"]
            /\ UNCHANGED <<clock, log, appended, database, made, op, snapshot, todo,
                           now, existing, incident, raced, history>>
        BY <1>3, <2>2 DEF AddNote, Goto, database, history
      <3>2. RequestTypes'
        BY <1>0, <2>1, <3>1 DEF TypeOK, RequestTypes, Labels, Ingesting
      <3>3. SoundFor(r)'
        BY <1>0, <2>1, <2>2, <3>1 DEF SoundFor, TypeOK, RequestTypes, database
      <3>4. Sound'
        BY <1>0, <3>1, <3>3, LocalStep DEF TypeOK, RequestTypes, database
      <3> QED
        BY <3>1, <3>2, <3>4 DEF database, history, IInv, TypeOK, Sound, StoreTypes,
           HistoryTypes, NotesAgree, TriageKept
    <2>3. CASE rows[op[r].uid] # None
      <3>1. RequestTypes' /\ Sound'
        BY <1>0, <1>3, <2>3, ReturnStep DEF AddNote
      <3>2. /\ UNCHANGED <<clock, log, appended, rows, incidents, verdict, filed, closedAt>>
            /\ notes' = [notes EXCEPT ![op[r].uid] = @ + 1]
            /\ noted' = [noted EXCEPT ![op[r].uid] = @ + 1]
        BY <1>3, <2>3 DEF AddNote
      <3>3. StoreTypes' /\ HistoryTypes'
        <4>1. notes' \in [Uids -> Nat] /\ noted' \in [Uids -> Nat]
          BY <1>0, <2>1, <3>2 DEF TypeOK, StoreTypes, HistoryTypes
        <4> QED
          BY <1>0, <3>2, <4>1 DEF TypeOK, StoreTypes, HistoryTypes
      <3>4. \A u \in Uids : /\ notes'[u] = noted'[u]
                            /\ rows[u] = None => noted'[u] = noted[u]
        BY <1>0, <2>1, <2>3, <3>2 DEF IInv, NotesAgree, TypeOK, StoreTypes, HistoryTypes
      <3>5. NotesAgree' /\ TriageKept'
        BY <3>2, <3>4 DEF IInv, NotesAgree, TriageKept
      <3> QED
        BY <3>1, <3>3, <3>5 DEF IInv, TypeOK, Sound
    <2> QED
      BY <2>2, <2>3
  <1>4. CASE CreateIncident(r)
    <2>1. RequestTypes'
      BY <1>0, <1>4 DEF CreateIncident, Doing, Goto, TypeOK, StoreTypes, RequestTypes,
         Labels, Ingesting
    <2>2. SoundFor(r)'
      BY <1>0, <1>4 DEF CreateIncident, Goto, SoundFor, TypeOK, RequestTypes
    <2>3. Sound'
      BY <1>0, <1>4, <2>2, LocalStep DEF CreateIncident, Goto, TypeOK, RequestTypes
    <2> QED
      BY <1>4, <2>1, <2>3 DEF CreateIncident, history, IInv, TypeOK, Sound, StoreTypes,
         HistoryTypes, NotesAgree, TriageKept
  <1>5. CASE AssignToIncident(r)
    <2> DEFINE members == {u \in op[r].uids : rows[u] # None}
               row(u) == [rows[u] EXCEPT !.incident = incident[r], !.lastUpdated = clock]
    <2>1. \A u \in Uids :
            rows[u] # None => /\ row(u) \in Row
                              /\ row(u) # None
                              /\ row(u).status = rows[u].status
                              /\ row(u).incident = incident[r]
      <3> SUFFICES ASSUME NEW u \in Uids, rows[u] # None
                   PROVE  /\ row(u) \in Row /\ row(u) # None
                          /\ row(u).status = rows[u].status
                          /\ row(u).incident = incident[r]
        OBVIOUS
      <3>1. rows[u] \in Row /\ clock \in 0..MaxTime /\ incident[r] \in Nat
        BY <1>0 DEF TypeOK, StoreTypes, RequestTypes
      <3>2. row(u) \in Row /\ row(u).status = rows[u].status /\ row(u).incident = incident[r]
        BY <3>1 DEF Row
      <3> QED
        BY <3>2, NoneAssumption
    <2>2. \A u \in Uids : /\ rows'[u] = IF u \in members THEN row(u) ELSE rows[u]
                          /\ filed'[u] = IF u \in members THEN incident[r] ELSE filed[u]
      BY <1>5 DEF AssignToIncident
    <2>3. rows' \in [Uids -> Row \union {None}] /\ filed' \in [Uids -> Nat \union {None}]
      <3>1. incident[r] \in Nat
        BY <1>0 DEF TypeOK, RequestTypes
      <3> HIDE DEF row
      <3> QED
        BY <1>0, <1>5, <2>1, <3>1 DEF AssignToIncident, TypeOK, StoreTypes, HistoryTypes, row
    <2> HIDE DEF row
    <2>4. \A u \in Uids : rows'[u] = None <=> rows[u] = None
      BY <2>1, <2>2
    <2>5. RequestTypes' /\ Sound'
      BY <1>0, <1>5, <2>4, ReturnStep DEF AssignToIncident
    <2>6. StoreTypes' /\ HistoryTypes'
      BY <1>0, <1>5, <2>3 DEF AssignToIncident, TypeOK, StoreTypes, HistoryTypes
    <2>7. NotesAgree' /\ TriageKept'
      <3>1. UNCHANGED <<notes, noted, verdict>>
        BY <1>5 DEF AssignToIncident
      <3>2. ASSUME NEW u \in Uids
            PROVE  IF rows'[u] = None
                   THEN verdict[u] = "new" /\ filed'[u] = None /\ noted[u] = 0
                   ELSE /\ rows'[u].status = verdict[u]
                        /\ rows'[u].incident = filed'[u]
                        /\ notes[u] = noted[u]
        BY <2>1, <2>2, <2>4 DEF IInv, TriageKept
      <3> QED
        BY <3>1, <3>2 DEF IInv, NotesAgree, TriageKept
    <2> QED
      BY <2>5, <2>6, <2>7 DEF IInv, TypeOK, Sound
  <1> QED
    BY <1>1, <1>2, <1>3, <1>4, <1>5 DEF Triage

LEMMA Initially == Init => IInv
  <1> SUFFICES ASSUME Init PROVE IInv
    OBVIOUS
  <1> USE NatBounds DEF Init
  <1>1. <<>> \in Seq(Record)
    OBVIOUS
  <1>2. StoreTypes
    BY <1>1 DEF StoreTypes
  <1>3. RequestTypes
    BY <1>1 DEF RequestTypes, Labels, Ingesting
  <1>4. HistoryTypes
    BY DEF HistoryTypes, Statuses, OpenStatuses
  <1> QED
    BY <1>2, <1>3, <1>4 DEF IInv, TypeOK, SelectHolds, NotesAgree, TriageKept,
       FailsOnlyWhenRaced

LEMMA Stutters ==
  ASSUME IInv, UNCHANGED vars
  PROVE  IInv'
  BY DEF vars, database, requests, history, IInv, TypeOK, StoreTypes, RequestTypes,
     HistoryTypes, SelectHolds, NotesAgree, TriageKept, FailsOnlyWhenRaced, Current

\* The inductive invariant holds of every behaviour of the store.
THEOREM TriageInvariant == Spec => []IInv
  <1>1. ASSUME IInv, [Next]_vars PROVE IInv'
    <2>1. CASE \/ Tick
               \/ \E u \in Uids : Emit(u)
               \/ ResetLog
               \/ \E r \in Requests : \E o \in Asked : Arrive(r, o)
               \/ \E r \in Requests : Crash(r)
      BY <1>1, <2>1, AroundStep
    <2>2. CASE \E r \in Requests : Sync(r)
      <3> PICK r \in Requests : Sync(r)
        BY <2>2
      <3> QED
        BY <1>1, ReadStep, WriteStep DEF Sync
    <2>3. CASE \E r \in Requests : Triage(r)
      BY <1>1, <2>3, TriageStep
    <2>4. CASE UNCHANGED vars
      BY <1>1, <2>4, Stutters
    <2> QED
      BY <1>1, <2>1, <2>2, <2>3, <2>4 DEF Next
  <1> QED
    BY <1>1, Initially, PTL DEF Spec

\* What analysts decided is never undone by a sync, for every number of
\* requests, alerts and records (store.py 11-13, 140-142).
THEOREM AnalystsWorkKept == Spec => []TriageKept
  BY TriageInvariant, PTL DEF IInv

\* A sync fails only if another one raced it (store.py 146-155).
THEOREM FailsOnlyRaced == Spec => []FailsOnlyWhenRaced
  BY TriageInvariant, PTL DEF IInv

\* The tables, the requests and their locals have their types; in particular
\* a request that ingests has a record to ingest (store.py 176-178).
THEOREM TypeCorrect == Spec => []TypeOK
  BY TriageInvariant, PTL DEF IInv

-----------------------------------------------------------------------------
(* The store implements the board.                                         *)

\* A request holds an incident only between the two transactions of a
\* grouping, and an idle one asks for nothing.
Opened ==
  \A r \in Requests :
    /\ IF pc[r] = "assign"
       THEN incident[r] \in 1..incidents /\ op[r].do = "group"
       ELSE incident[r] = 0
    /\ pc[r] = "idle" => op[r] = None

LEMMA OpenedStep ==
  ASSUME TypeOK, Opened, [Next]_vars
  PROVE  Opened'
  <1> USE DEF Opened, TypeOK, StoreTypes, RequestTypes
  <1>1. CASE \/ Tick
             \/ \E u \in Uids : Emit(u)
             \/ ResetLog
             \/ UNCHANGED vars
    BY <1>1 DEF Tick, Emit, ResetLog, vars, database, requests
  <1>2. ASSUME NEW r \in Requests, NEW o \in Asked, Arrive(r, o) PROVE Opened'
    BY <1>2 DEF Arrive, Goto, database
  <1>3. ASSUME NEW r \in Requests, Return(r), UNCHANGED incidents PROVE Opened'
    BY <1>3 DEF Return, Goto
  <1>4. ASSUME NEW r \in Requests, Sync(r) PROVE Opened'
    BY <1>4 DEF Sync, ReadLog, TakeRecord, Select, Insert, InsertFails, Update, SyncDone,
       Ingested, Goto, database
  <1>5. ASSUME NEW r \in Requests, CreateIncident(r) PROVE Opened'
    BY <1>5 DEF CreateIncident, Doing, Goto
  <1>6. ASSUME NEW r \in Requests, Doing(r, "note"), Goto(r, "failed"),
               UNCHANGED <<op, incident, incidents>>
        PROVE  Opened'
    BY <1>6 DEF Doing, Goto
  <1>7. ASSUME NEW r \in Requests, Triage(r) PROVE Opened'
    BY <1>3, <1>5, <1>6, <1>7 DEF Triage, Query, SetStatus, AddNote, AssignToIncident, database
  <1>8. ASSUME NEW r \in Requests, Crash(r) PROVE Opened'
    BY <1>3, <1>8 DEF Crash, database
  <1> QED
    BY <1>1, <1>2, <1>4, <1>7, <1>8 DEF Next

\* What the board shows stays when the tables do.
LEMMA SameCards ==
  ASSUME UNCHANGED <<rows, notes>>
  PROVE  Cards' = Cards
  BY DEF Cards

\* A request that returns without changing a table is dropped.
LEMMA ReturnDrops ==
  ASSUME TypeOK, NEW r \in Requests, pc[r] # "idle", Return(r), UNCHANGED database
  PROVE  Board!Drop(r)
  <1>1. op[r] # None
    BY DEF TypeOK, RequestTypes
  <1> QED
    BY <1>1, SameCards DEF Return, database, Board!Drop, Board!Over

\* INSERT files a new card; an UPDATE changes none.
LEMMA SyncOnBoard ==
  ASSUME IInv, Opened, NEW r \in Requests, Sync(r)
  PROVE  [Board!Next]_(Board!vars)
  <1> USE DEF IInv
  <1>1. CASE Insert(r)
    <2> DEFINE uid == Current(r)
    <2>1. uid \in Uids /\ now[r] \in 0..MaxTime
      BY <1>1, CurrentType DEF Insert, Ingesting, TypeOK, RequestTypes
    <2>2. /\ rows[uid] = None
          /\ rows' = [rows EXCEPT ![uid] = NewRow(r)]
          /\ UNCHANGED <<notes, incidents, op, incident>>
      BY <1>1 DEF Insert, Ingested, Current
    <2>3. NewRow(r) # None /\ NewRow(r).status = "new" /\ NewRow(r).incident = None
      BY <1>1, <2>1, CurrentType, NoneAssumption DEF NewRow, Insert, Ingesting, Row,
         Statuses, OpenStatuses
    <2>4. notes[uid] = 0
      BY <2>1, <2>2 DEF NotesAgree, TriageKept
    <2>5. rows \in [Uids -> Row \union {None}]
      BY DEF TypeOK, StoreTypes
    <2> HIDE DEF uid
    <2>6. {u \in Uids : rows'[u] # None} = {u \in Uids : rows[u] # None} \union {uid}
      BY <2>1, <2>2, <2>3, <2>5
    <2>7. uid \notin DOMAIN Cards /\ DOMAIN Cards = {u \in Uids : rows[u] # None}
      BY <2>2 DEF Cards
    <2>8. Cards' = [v \in DOMAIN Cards \union {uid} |->
                      IF v = uid THEN [status |-> "new", incident |-> None, notes |-> 0] ELSE Cards[v]]
      <3> DEFINE card(v) == [status |-> rows'[v].status, incident |-> rows'[v].incident,
                             notes |-> notes'[v]]
      <3>1. Cards' = [v \in DOMAIN Cards \union {uid} |-> card(v)]
        BY <2>6, <2>7 DEF Cards
      <3>2. ASSUME NEW v \in DOMAIN Cards \union {uid}
            PROVE  card(v) = IF v = uid THEN [status |-> "new", incident |-> None, notes |-> 0]
                             ELSE Cards[v]
        BY <2>1, <2>2, <2>3, <2>4, <2>5, <2>7 DEF Cards
      <3> HIDE DEF card
      <3> QED
        BY <3>1, <3>2
    <2>9. Board!File(uid)
      BY <2>2, <2>7, <2>8 DEF Board!File
    <2> QED
      BY <2>1, <2>9 DEF Board!Next
  <1>2. CASE Update(r)
    <2> DEFINE uid == Current(r)
               row == [rows[uid] EXCEPT !.n = Head(todo[r]).n, !.lastUpdated = now[r]]
    <2>1. uid \in Uids /\ Head(todo[r]).n \in 1..MaxRecords /\ now[r] \in 0..MaxTime
      BY <1>2, CurrentType DEF Update, Ingesting, TypeOK, RequestTypes
    <2>2. rows[uid] # None /\ rows[uid] \in Row
      BY <1>2, <2>1 DEF Update, SelectHolds, TypeOK, StoreTypes
    <2>3. /\ rows' = [rows EXCEPT ![uid] = row]
          /\ UNCHANGED <<notes, incidents, op, incident>>
      BY <1>2 DEF Update, Ingested, Current
    <2>4. row \in Row /\ row.status = rows[uid].status /\ row.incident = rows[uid].incident
      BY <2>1, <2>2 DEF Row
    <2>5. row # None
      BY <2>4, NoneAssumption
    <2>6. rows \in [Uids -> Row \union {None}]
      BY DEF TypeOK, StoreTypes
    <2> HIDE DEF row, uid
    <2>7. \A u \in Uids : /\ rows'[u] = None <=> rows[u] = None
                          /\ rows'[u].status = rows[u].status
                          /\ rows'[u].incident = rows[u].incident
      BY <2>1, <2>2, <2>3, <2>4, <2>5, <2>6
    <2>8. Cards' = Cards
      BY <2>3, <2>7 DEF Cards
    <2> QED
      BY <2>3, <2>8 DEF Board!vars
  <1>3. CASE UNCHANGED <<rows, notes, incidents, op, incident>>
    BY <1>3, SameCards DEF Board!vars
  <1> QED
    BY <1>1, <1>2, <1>3 DEF Sync, ReadLog, TakeRecord, Select, InsertFails, SyncDone, database

\* The step of a request that changes the card of one alert.
LEMMA CardWritten ==
  ASSUME IInv, NEW u \in Uids, rows[u] # None, NEW row \in Row, NEW k \in Nat,
         rows' = [rows EXCEPT ![u] = row], notes' = [notes EXCEPT ![u] = k]
  PROVE  Cards' = [Cards EXCEPT ![u] = [status |-> row.status, incident |-> row.incident, notes |-> k]]
  <1>1. rows \in [Uids -> Row \union {None}] /\ notes \in [Uids -> Nat]
    BY DEF IInv, TypeOK, StoreTypes
  <1>2. row # None
    BY NoneAssumption
  <1>3. \A v \in Uids : /\ rows'[v] = IF v = u THEN row ELSE rows[v]
                        /\ notes'[v] = IF v = u THEN k ELSE notes[v]
    BY <1>1
  <1>4. {v \in Uids : rows'[v] # None} = {v \in Uids : rows[v] # None}
    BY <1>2, <1>3
  <1> QED
    BY <1>3, <1>4 DEF Cards

\* What an analyst asked for is done on the board as it is in the tables.
LEMMA TriageOnBoard ==
  ASSUME IInv, Opened, NEW r \in Requests, Triage(r)
  PROVE  [Board!Next]_(Board!vars)
  <1>0. /\ TypeOK
        /\ rows \in [Uids -> Row \union {None}]
        /\ notes \in [Uids -> Nat]
        /\ clock \in 0..MaxTime
        /\ \A u \in Uids : u \in DOMAIN Cards <=> rows[u] # None
    BY DEF IInv, TypeOK, StoreTypes, Cards
  <1>1. ASSUME pc[r] = "op"
        PROVE  op[r] \in Asked /\ op[r] # None /\ incident[r] = 0
    BY <1>0, <1>1 DEF TypeOK, RequestTypes, Opened
  <1>2. CASE Query(r)
    BY <1>0, <1>2, ReturnDrops DEF Query, Doing, Board!Next
  <1>3. CASE SetStatus(r)
    <2> DEFINE u == op[r].uid
               row == [rows[u] EXCEPT !.status = op[r].status, !.lastUpdated = clock]
    <2>1. /\ u \in Uids /\ op[r].status \in Statuses /\ op[r].do = "status"
          /\ op[r] # None
          /\ Return(r) /\ UNCHANGED <<notes, incidents>>
      BY <1>1, <1>3, OpType DEF SetStatus, Doing
    <2>2. CASE rows[u] = None
      BY <1>0, <1>3, <2>2, ReturnDrops DEF SetStatus, Doing, database, Board!Next
    <2>3. CASE rows[u] # None
      <3>1. row \in Row /\ row.status = op[r].status /\ row.incident = rows[u].incident
        BY <1>0, <2>1, <2>3 DEF Row
      <3>2. rows' = [rows EXCEPT ![u] = row] /\ notes' = [notes EXCEPT ![u] = notes[u]]
        BY <1>0, <1>3, <2>1, <2>3 DEF SetStatus
      <3> DEFINE card == [status |-> row.status, incident |-> row.incident, notes |-> notes[u]]
      <3> HIDE DEF row
      <3>3. Cards' = [Cards EXCEPT ![u] = card]
        BY <1>0, <2>1, <2>3, <3>1, <3>2, CardWritten
      <3>4. Cards[u] = [status |-> rows[u].status, incident |-> rows[u].incident, notes |-> notes[u]]
        BY <2>1, <2>3 DEF Cards
      <3>5. [Cards[u] EXCEPT !.status = op[r].status] = card
        BY <3>1, <3>4
      <3> HIDE DEF card
      <3>6. Cards' = [Cards EXCEPT ![u].status = op[r].status]
        BY <3>3, <3>5
      <3>7. Board!SetStatus(r)
        BY <1>0, <2>1, <2>3, <3>6 DEF Return, Board!SetStatus, Board!Over
      <3> QED
        BY <3>7 DEF Board!Next
    <2> QED
      BY <2>2, <2>3
  <1>4. CASE AddNote(r)
    <2> DEFINE u == op[r].uid
    <2>1. u \in Uids /\ op[r].do = "note" /\ op[r] # None /\ UNCHANGED <<rows, incidents>>
      BY <1>1, <1>4, OpType DEF AddNote, Doing
    <2>2. CASE rows[u] = None
      BY <1>4, <2>1, <2>2, SameCards DEF AddNote, Board!vars
    <2>3. CASE rows[u] # None
      <3>1. rows[u] \in Row /\ notes[u] + 1 \in Nat
        BY <1>0, <2>1, <2>3
      <3>2. rows' = [rows EXCEPT ![u] = rows[u]] /\ notes' = [notes EXCEPT ![u] = notes[u] + 1]
        BY <1>0, <1>4, <2>1, <2>3 DEF AddNote
      <3> DEFINE card == [status |-> rows[u].status, incident |-> rows[u].incident,
                          notes |-> notes[u] + 1]
      <3>3. Cards' = [Cards EXCEPT ![u] = card]
        BY <2>1, <2>3, <3>1, <3>2, CardWritten
      <3>4. Cards[u] = [status |-> rows[u].status, incident |-> rows[u].incident, notes |-> notes[u]]
        BY <2>1, <2>3 DEF Cards
      <3>5. [Cards[u] EXCEPT !.notes = @ + 1] = card
        BY <3>4
      <3> HIDE DEF card
      <3>6. Cards' = [Cards EXCEPT ![u].notes = @ + 1]
        BY <3>3, <3>5
      <3>7. Board!AddNote(r)
        BY <1>0, <1>4, <2>1, <2>3, <3>6 DEF AddNote, Return, Board!AddNote, Board!Over
      <3> QED
        BY <3>7 DEF Board!Next
    <2> QED
      BY <2>2, <2>3
  <1>5. CASE CreateIncident(r)
    <2>1. Board!OpenIncident(r)
      BY <1>1, <1>5, SameCards DEF CreateIncident, Doing, Board!OpenIncident
    <2> QED
      BY <2>1 DEF Board!Next
  <1>6. CASE AssignToIncident(r)
    <2> DEFINE members == {u \in op[r].uids : rows[u] # None}
               row(u) == [rows[u] EXCEPT !.incident = incident[r], !.lastUpdated = clock]
               card(u) == [status |-> rows'[u].status, incident |-> rows'[u].incident, notes |-> notes[u]]
    <2>1. /\ op[r] \in Asked /\ op[r] # None /\ op[r].do = "group" /\ op[r].uids \subseteq Uids
          /\ incident[r] \in 1..incidents /\ incidents \in Nat
          /\ Return(r) /\ UNCHANGED <<notes, incidents>>
      BY <1>0, <1>6, OpType DEF AssignToIncident, TypeOK, StoreTypes, RequestTypes, Opened
    <2>2. \A u \in Uids : rows'[u] = IF u \in members THEN row(u) ELSE rows[u]
      BY <1>6 DEF AssignToIncident
    <2>3. ASSUME NEW u \in Uids, rows[u] # None
          PROVE  /\ row(u) # None
                 /\ row(u).status = rows[u].status
                 /\ row(u).incident = incident[r]
      <3>1. rows[u] \in Row /\ incident[r] \in Nat
        BY <1>0, <2>1, <2>3
      <3>2. row(u) \in Row /\ row(u).status = rows[u].status /\ row(u).incident = incident[r]
        BY <1>0, <3>1 DEF Row
      <3> QED
        BY <3>2, NoneAssumption
    <2> HIDE DEF row
    <2>4. \A u \in Uids : rows'[u] = None <=> rows[u] = None
      BY <2>2, <2>3
    <2>5. DOMAIN Cards = {u \in Uids : rows[u] # None} /\ DOMAIN Cards' = DOMAIN Cards
      BY <2>4 DEF Cards
    <2>6. Cards' = [u \in DOMAIN Cards |-> card(u)]
      BY <2>1, <2>4 DEF Cards
    <2>7. ASSUME NEW u \in DOMAIN Cards
          PROVE  card(u) = IF u \in op[r].uids THEN [Cards[u] EXCEPT !.incident = incident[r]]
                           ELSE Cards[u]
      <3>1. Cards[u] = [status |-> rows[u].status, incident |-> rows[u].incident, notes |-> notes[u]]
        BY <2>5 DEF Cards
      <3>2. u \in Uids /\ rows[u] # None
        BY <2>5
      <3>3. CASE u \in op[r].uids
        BY <2>2, <2>3, <3>1, <3>2, <3>3
      <3>4. CASE u \notin op[r].uids
        BY <2>2, <3>1, <3>2, <3>4
      <3> QED
        BY <3>3, <3>4
    <2> HIDE DEF card
    <2>8. Cards' = [u \in DOMAIN Cards |->
                      IF u \in op[r].uids THEN [Cards[u] EXCEPT !.incident = incident[r]] ELSE Cards[u]]
      BY <2>6, <2>7
    <2>9. Board!Assign(r)
      BY <1>0, <2>1, <2>8 DEF Return, TypeOK, RequestTypes, Board!Assign, Board!Over
    <2> QED
      BY <2>9 DEF Board!Next
  <1> QED
    BY <1>2, <1>3, <1>4, <1>5, <1>6 DEF Triage

\* The triage store implements the board: for every number of requests, alerts
\* and records, what analysts see changes by their requests alone, each done in
\* one step, as asked, at most once (store.py 128-318).
THEOREM StoreKeepsBoard == Spec => KeepsBoard
  <1>1. Init => Board!Init
    BY DEF Init, Board!Init, Cards
  <1>2. Init => Opened
    BY DEF Init, Opened
  <1>3. IInv /\ Opened /\ [Next]_vars => Opened'
    BY OpenedStep DEF IInv
  <1>4. ASSUME IInv, Opened, [Next]_vars PROVE [Board!Next]_(Board!vars)
    <2>1. CASE \/ Tick
               \/ \E u \in Uids : Emit(u)
               \/ ResetLog
               \/ UNCHANGED vars
      BY <2>1, SameCards DEF Tick, Emit, ResetLog, vars, database, requests, Board!vars
    <2>2. ASSUME NEW r \in Requests, NEW o \in Asked, Arrive(r, o) PROVE Board!Ask(r, o)
      BY <1>4, <2>2, SameCards DEF Arrive, Opened, database, Board!Ask
    <2>3. ASSUME NEW r \in Requests, Crash(r) PROVE Board!Drop(r)
      BY <1>4, <2>3, ReturnDrops DEF Crash, IInv
    <2> QED
      BY <1>4, <2>1, <2>2, <2>3, SyncOnBoard, TriageOnBoard DEF Next, Board!Next
  <1> QED
    BY <1>1, <1>2, <1>3, <1>4, TriageInvariant, PTL DEF Spec, KeepsBoard, Board!Spec

-----------------------------------------------------------------------------
(* What a sync has done when it is through.                                *)

Synced == {"next", "select", "write", "op", "assign"}

Done(r) == Len(snapshot[r]) - Len(todo[r])

\* The first records of the file, as many as are done, are stored, and unless
\* another request stored something meanwhile, as the last of them has it.
StoredUpTo(r, done) ==
  /\ \A i \in 1..done : rows[snapshot[r][i].uid] # None
  /\ ~raced[r] => \A i \in 1..done :
       (\A j \in 1..done : j > i => snapshot[r][j].uid # snapshot[r][i].uid)
         => rows[snapshot[r][i].uid].n = snapshot[r][i].n

\* What is left to ingest is the rest of the file.
Progress(r) ==
  pc[r] \in Synced =>
    /\ Done(r) \in 0..Len(snapshot[r])
    /\ \A j \in 1..Len(todo[r]) : todo[r][j] = snapshot[r][Done(r) + j]
    /\ StoredUpTo(r, Done(r))
    /\ pc[r] \in {"op", "assign"} => todo[r] = <<>>

LEMMA RecordAt ==
  ASSUME NEW s \in Seq(Record), NEW i \in 1..Len(s)
  PROVE  s[i] \in Record /\ s[i].uid \in Uids
  <1>1. s[i] \in Record
    OBVIOUS
  <1> QED
    BY <1>1 DEF Record

\* A step that leaves the request where it is, and its alerts as they are or
\* raced.
LEMMA Undisturbed ==
  ASSUME TypeOK, NEW r \in Requests, Progress(r),
         snapshot'[r] = snapshot[r], todo'[r] = todo[r],
         pc'[r] \in Synced => pc[r] \in Synced,
         pc'[r] \in {"op", "assign"} => todo[r] = <<>>,
         \A u \in Uids : rows[u] # None => rows'[u] # None,
         pc[r] \in Synced => \/ raced'[r]
                             \/ /\ raced'[r] = raced[r]
                                /\ \A u \in Uids : rows[u] # None => rows'[u].n = rows[u].n
  PROVE  Progress(r)'
  <1>1. snapshot[r] \in Seq(Record) /\ todo[r] \in Seq(Record)
    BY DEF TypeOK, RequestTypes
  <1>2. \A i \in 1..Len(snapshot[r]) : snapshot[r][i].uid \in Uids
    BY <1>1, RecordAt
  <1> SUFFICES ASSUME pc'[r] \in Synced
               PROVE  /\ Done(r) \in 0..Len(snapshot[r])
                      /\ \A j \in 1..Len(todo[r]) : todo[r][j] = snapshot[r][Done(r) + j]
                      /\ StoredUpTo(r, Done(r))'
                      /\ pc'[r] \in {"op", "assign"} => todo[r] = <<>>
    BY DEF Progress, Done
  <1>3. /\ Done(r) \in 0..Len(snapshot[r])
        /\ \A j \in 1..Len(todo[r]) : todo[r][j] = snapshot[r][Done(r) + j]
        /\ StoredUpTo(r, Done(r))
    BY DEF Progress
  <1>4. \A i \in 1..Done(r) : snapshot[r][i].uid \in Uids /\ rows[snapshot[r][i].uid] # None
    BY <1>1, <1>2, <1>3 DEF StoredUpTo, Done
  <1>5. Done(r)' = Done(r)
    BY DEF Done
  <1> HIDE DEF Done
  <1>6. StoredUpTo(r, Done(r))'
    BY <1>3, <1>4, <1>5 DEF StoredUpTo
  <1> QED
    BY <1>3, <1>6

\* A step of one request changes nothing of another but that it is raced.
LEMMA OtherProgress ==
  ASSUME TypeOK, NEW r \in Requests, NEW q \in Requests \ {r}, Progress(q),
         Sync(r) \/ Triage(r) \/ Crash(r) \/ (\E o \in Asked : Arrive(r, o)),
         IInv
  PROVE  Progress(q)'
  <1> USE DEF TypeOK, StoreTypes, RequestTypes
  <1>1. /\ pc'[q] = pc[q] /\ snapshot'[q] = snapshot[q] /\ todo'[q] = todo[q]
    BY DEF Sync, ReadLog, TakeRecord, Select, Insert, InsertFails, Update, SyncDone, Ingested,
       Triage, Query, SetStatus, AddNote, CreateIncident, AssignToIncident, Crash, Arrive,
       Return, Goto
  <1>2. pc[q] \in {"op", "assign"} => todo[q] = <<>>
    BY DEF Progress, Synced
  <1>3. CASE Insert(r) \/ Update(r)
    <2>1. Current(r) \in Uids
      BY <1>3, CurrentType DEF Insert, Update, Ingesting
    <2>2. \A u \in Uids : rows[u] # None => rows'[u] # None
      BY <1>3, <2>1, RowWritten, NoneAssumption
    <2>3. pc[q] \in Synced => raced'[q]
      BY <1>3 DEF Insert, Update, Ingested, Synced
    <2> QED
      BY <1>1, <1>2, <2>2, <2>3, Undisturbed
  <1>4. CASE rows' = rows /\ raced'[q] = raced[q]
    BY <1>1, <1>2, <1>4, Undisturbed
  <1>5. CASE SetStatus(r) \/ AssignToIncident(r)
    <2>1. op[r] \in Asked /\ incident[r] \in Nat /\ clock \in 0..MaxTime
      BY <1>5 DEF SetStatus, AssignToIncident, Doing
    <2>2. ASSUME NEW u \in Uids, rows[u] # None
          PROVE  rows'[u] # None /\ rows'[u].n = rows[u].n
      <3>1. rows[u] \in Row
        BY <2>2
      <3>2. CASE SetStatus(r)
        <4> DEFINE row == [rows[u] EXCEPT !.status = op[r].status, !.lastUpdated = clock]
        <4>1. op[r].uid \in Uids /\ op[r].status \in Statuses
          BY <2>1, <3>2, OpType DEF SetStatus, Doing
        <4>2. row \in Row /\ row.n = rows[u].n
          BY <2>1, <3>1, <4>1 DEF Row
        <4>3. CASE u = op[r].uid
          <5>1. rows' = [rows EXCEPT ![u] = row]
            BY <2>2, <3>2, <4>3 DEF SetStatus
          <5> HIDE DEF row
          <5> QED
            BY <4>2, <5>1, NoneAssumption
        <4>4. CASE u # op[r].uid
          BY <2>2, <3>2, <4>4 DEF SetStatus
        <4> QED
          BY <4>3, <4>4
      <3>3. CASE AssignToIncident(r)
        <4> DEFINE row == [rows[u] EXCEPT !.incident = incident[r], !.lastUpdated = clock]
        <4>1. row \in Row /\ row.n = rows[u].n
          BY <2>1, <3>1 DEF Row
        <4>2. rows'[u] = rows[u] \/ rows'[u] = row
          BY <2>2, <3>3 DEF AssignToIncident
        <4> HIDE DEF row
        <4> QED
          BY <2>2, <4>1, <4>2, NoneAssumption
      <3> QED
        BY <1>5, <3>2, <3>3
    <2>3. raced'[q] = raced[q]
      BY <1>5 DEF SetStatus, AssignToIncident, Return
    <2> QED
      BY <1>1, <1>2, <2>2, <2>3, Undisturbed
  <1>6. (Insert(r) \/ Update(r)) \/ (SetStatus(r) \/ AssignToIncident(r)) \/ (rows' = rows /\ raced'[q] = raced[q])
    BY DEF Sync, ReadLog, TakeRecord, Select, InsertFails, SyncDone, Triage, Query, AddNote,
       CreateIncident, Crash, Arrive, Return, database
  <1> QED
    BY <1>3, <1>4, <1>5, <1>6

\* A sync that writes has done one record more.
LEMMA OwnWrite ==
  ASSUME IInv, NEW r \in Requests, Progress(r), Insert(r) \/ Update(r)
  PROVE  Progress(r)'
  <1> DEFINE s == snapshot[r]
             t == todo[r]
             k == Len(s) - Len(t)
  <1>1. /\ pc[r] = "write" /\ pc[r] \in Ingesting /\ pc[r] \in Synced
        /\ snapshot' = snapshot /\ todo'[r] = Tail(t) /\ pc'[r] = "next"
        /\ raced'[r] = raced[r]
    BY DEF Insert, Update, Ingested, Goto, Ingesting, Synced, IInv, TypeOK, RequestTypes
  <1>2. s \in Seq(Record) /\ t \in Seq(Record) /\ t # <<>>
    BY <1>1 DEF IInv, TypeOK, RequestTypes
  <1>3. /\ k \in 0..Len(s)
        /\ \A j \in 1..Len(t) : t[j] = s[k + j]
        /\ StoredUpTo(r, k)
    BY <1>1 DEF Progress, Done
  <1> HIDE DEF s, t
  <1>4. /\ Len(t) \in Nat \ {0} /\ Len(s) \in Nat
        /\ Len(Tail(t)) = Len(t) - 1
        /\ \A j \in 1..(Len(t) - 1) : Tail(t)[j] = t[j + 1]
        /\ Head(t) = t[1]
    BY <1>2
  <1>5. k + 1 \in 1..Len(s) /\ Head(t) = s[k + 1]
    BY <1>3, <1>4
  <1>6. Done(r)' = k + 1
    BY <1>1, <1>3, <1>4 DEF Done, s
  <1>7. \A j \in 1..Len(Tail(t)) : Tail(t)[j] = s[k + 1 + j]
    BY <1>3, <1>4
  <1>8. PICK row \in Row : /\ rows' = [rows EXCEPT ![s[k + 1].uid] = row]
                           /\ row.n = s[k + 1].n
    BY <1>5, RowWritten DEF Current, t
  <1>9. \A i \in 1..(k + 1) : s[i].uid \in Uids
    BY <1>2, <1>5, RecordAt
  <1>10. /\ row # None
         /\ \A u \in Uids : rows'[u] = IF u = s[k + 1].uid THEN row ELSE rows[u]
    BY <1>8, NoneAssumption DEF IInv, TypeOK, StoreTypes
  <1>11. /\ \A i \in 1..k : rows[s[i].uid] # None
         /\ ~raced[r] => \A i \in 1..k :
              (\A j \in 1..k : j > i => s[j].uid # s[i].uid) => rows[s[i].uid].n = s[i].n
    BY <1>3 DEF StoredUpTo, s
  <1> HIDE DEF k
  <1>12. k \in Nat
    BY <1>3, <1>4
  <1>13. \A i \in 1..(k + 1) : rows'[s[i].uid] # None
    BY <1>9, <1>10, <1>11, <1>12
  <1>14. ASSUME ~raced[r], NEW i \in 1..(k + 1),
                \A j \in 1..(k + 1) : j > i => s[j].uid # s[i].uid
         PROVE  rows'[s[i].uid].n = s[i].n
    <2>1. CASE i = k + 1
      BY <1>8, <1>9, <1>10, <2>1
    <2>2. CASE i \in 1..k
      BY <1>9, <1>10, <1>11, <1>12, <1>14, <2>2
    <2> QED
      BY <1>12, <2>1, <2>2
  <1>15. /\ \A i \in 1..Done(r)' : rows'[s[i].uid] # None
         /\ ~raced[r] => \A i \in 1..Done(r)' :
              (\A j \in 1..Done(r)' : j > i => s[j].uid # s[i].uid) => rows'[s[i].uid].n = s[i].n
    BY <1>6, <1>13, <1>14
  <1>16. StoredUpTo(r, Done(r))'
    BY <1>1, <1>15 DEF StoredUpTo, s
  <1>17. Done(r)' \in 0..Len(s)
    BY <1>5, <1>6
  <1> QED
    BY <1>1, <1>6, <1>7, <1>16, <1>17 DEF Progress, s, t

\* The other steps of the request itself.
LEMMA OwnProgress ==
  ASSUME IInv, NEW r \in Requests, Progress(r),
         Sync(r) \/ Triage(r) \/ Crash(r) \/ (\E o \in Asked : Arrive(r, o))
  PROVE  Progress(r)'
  <1> USE DEF IInv, TypeOK, RequestTypes
  <1>1. CASE ReadLog(r)
    <2>1. /\ snapshot'[r] = log /\ todo'[r] = log /\ pc'[r] = "next" /\ log \in Seq(Record)
          /\ UNCHANGED <<rows, raced>>
      BY <1>1 DEF ReadLog, Goto, StoreTypes, database
    <2>2. Done(r)' = 0 /\ Len(log) \in Nat
      BY <2>1 DEF Done
    <2>3. StoredUpTo(r, Done(r))'
      BY <2>2 DEF StoredUpTo
    <2>4. /\ Done(r)' \in 0..Len(snapshot'[r])
          /\ \A j \in 1..Len(todo'[r]) : todo'[r][j] = snapshot'[r][Done(r)' + j]
      BY <2>1, <2>2
    <2> QED
      BY <2>1, <2>3, <2>4 DEF Progress
  <1>2. CASE TakeRecord(r) \/ Select(r) \/ InsertFails(r) \/ SyncDone(r)
    <2>1. /\ pc[r] \in Synced
          /\ pc'[r] \in {"op", "assign"} => todo[r] = <<>>
          /\ snapshot'[r] = snapshot[r] /\ todo'[r] = todo[r]
          /\ rows' = rows /\ raced'[r] = raced[r]
      BY <1>2 DEF TakeRecord, Select, InsertFails, SyncDone, Goto, Synced, database
    <2> QED
      BY <2>1, Undisturbed
  <1>3. CASE CreateIncident(r)
    <2>1. /\ pc[r] \in Synced /\ pc[r] \in {"op", "assign"}
          /\ snapshot'[r] = snapshot[r] /\ todo'[r] = todo[r]
          /\ rows' = rows /\ raced'[r] = raced[r]
      BY <1>3 DEF CreateIncident, Doing, Synced
    <2>2. todo[r] = <<>>
      BY <2>1 DEF Progress
    <2> QED
      BY <2>1, <2>2, Undisturbed
  <1>4. CASE pc'[r] \notin Synced
    BY <1>4 DEF Progress
  <1>5. CASE Query(r) \/ SetStatus(r) \/ AddNote(r) \/ AssignToIncident(r) \/ Crash(r)
             \/ (\E o \in Asked : Arrive(r, o))
    BY <1>4, <1>5 DEF Query, SetStatus, AddNote, AssignToIncident, Crash, Arrive, Return,
       Goto, Synced
  <1> QED
    BY <1>1, <1>2, <1>3, <1>5, OwnWrite DEF Sync, Triage

\* Every sync is as far as its locals say.
THEOREM SyncProgress == Spec => [](\A r \in Requests : Progress(r))
  <1>1. Init => \A r \in Requests : Progress(r)
    BY DEF Init, Progress, Synced
  <1>2. ASSUME IInv, \A r \in Requests : Progress(r), [Next]_vars
        PROVE  \A r \in Requests : Progress(r)'
    <2> SUFFICES ASSUME NEW r \in Requests PROVE Progress(r)'
      OBVIOUS
    <2>1. CASE \/ Tick
               \/ \E u \in Uids : Emit(u)
               \/ ResetLog
               \/ UNCHANGED vars
      <3>1. UNCHANGED <<database, requests>>
        BY <2>1 DEF Tick, Emit, ResetLog, vars
      <3>2. /\ snapshot' = snapshot /\ todo' = todo /\ pc' = pc /\ raced' = raced /\ rows' = rows
        BY <3>1 DEF database, requests
      <3> QED
        BY <1>2, <3>2 DEF Progress, StoredUpTo, Done
    <2>2. ASSUME NEW q \in Requests,
                 Sync(q) \/ Triage(q) \/ Crash(q) \/ (\E o \in Asked : Arrive(q, o))
          PROVE  Progress(r)'
      BY <1>2, <2>2, OwnProgress, OtherProgress DEF IInv
    <2> QED
      BY <1>2, <2>1, <2>2 DEF Next
  <1>3. IInv /\ (\A r \in Requests : Progress(r)) /\ [Next]_vars
          => (\A r \in Requests : Progress(r))'
    BY <1>2
  <1> QED
    BY <1>1, <1>3, TriageInvariant, PTL DEF Spec

LEMMA SyncedAll ==
  ASSUME TypeOK, NEW r \in Requests, Progress(r), pc[r] \in {"op", "assign"}
  PROVE  StoredUpTo(r, Len(snapshot[r])) /\ DOMAIN snapshot[r] = 1..Len(snapshot[r])
  <1>1. snapshot[r] \in Seq(Record)
    BY DEF TypeOK, RequestTypes
  <1>2. todo[r] = <<>> /\ StoredUpTo(r, Done(r)) /\ Len(snapshot[r]) \in Nat
    BY <1>1 DEF Progress, Synced
  <1>3. Done(r) = Len(snapshot[r])
    BY <1>2 DEF Done
  <1> QED
    BY <1>1, <1>2, <1>3

\* A sync that returns has stored every alert of the file it read, whatever
\* other requests do meanwhile (store.py 174-179).
THEOREM SyncsComplete == Spec => []SyncComplete
  <1>1. TypeOK /\ (\A r \in Requests : Progress(r)) => SyncComplete
    BY SyncedAll DEF SyncComplete, StoredUpTo
  <1> QED
    BY <1>1, TypeCorrect, SyncProgress, PTL

\* ... and, unless another one stored something meanwhile, each of them with
\* the contents of its last record (store.py 140-152).
THEOREM LatestRecordWins == Spec => []LatestWins
  <1>1. TypeOK /\ (\A r \in Requests : Progress(r)) => LatestWins
    BY SyncedAll DEF LatestWins, StoredUpTo
  <1> QED
    BY <1>1, TypeCorrect, SyncProgress, PTL

=============================================================================
