---------------------------- MODULE TriageStore ----------------------------
(***************************************************************************)
(* The triage store (minisoc/triage/store.py) under concurrent requests.   *)
(*                                                                         *)
(* Detection appends alert records to a JSONL file; every request to the   *)
(* dashboard's triage API (and every "minisoc triage" command) first syncs *)
(* the SQLite store from that file and then does what the analyst asked    *)
(* (dashboard/app.py synced_store, cli/main.py _cmd_triage).  FastAPI runs *)
(* requests on a thread pool, each operation on a connection of its own,   *)
(* so that their statements interleave: ingest_record's SELECT opens no    *)
(* transaction, only the INSERT or UPDATE after it does.                   *)
(*                                                                         *)
(* A uid stands for the four fields alert_uid hashes, and a record is its  *)
(* uid with the number n of its appending, which stands for its contents.  *)
(***************************************************************************)
EXTENDS Naturals, Sequences, FiniteSets, SequencesExt

CONSTANTS
  Uids,         \* alert_uid of the records
  Requests,     \* the threads and commands that use the store
  Asked,        \* what analysts ask for in the model, a subset of Ops
  None,         \* Python's None and SQL's NULL
  MaxRecords,   \* how many records are appended (bounds the model)
  MaxTime,      \* the last tick of the clock (bounds the model)
  MaxRequests   \* how many requests are made (bounds the model)

OpenStatuses == {"new", "acknowledged", "in_progress"}
ClosedStatuses == {"closed_true_positive", "closed_false_positive"}
Statuses == OpenStatuses \union ClosedStatuses

Ops == [do: {"query"}]
       \union [do: {"status"}, uid: Uids, status: Statuses]
       \union [do: {"note"}, uid: Uids]
       \union [do: {"group"}, uids: SUBSET Uids]

ASSUME AskedAssumption == Asked \subseteq Ops
ASSUME BoundsAssumption == {MaxRecords, MaxTime, MaxRequests} \subseteq Nat

VARIABLES
  clock,      \* _now()
  log,        \* the JSONL file
  appended,   \* how many records were ever appended
  rows,       \* the alerts table: uid -> row, or None
  notes,      \* the notes table: uid -> how many notes
  incidents,  \* the incidents table: ids 1..incidents
  made,       \* how many requests were made
  pc,         \* request -> where it stands
  op,         \* request -> what the analyst asks for after the sync
  snapshot,   \* request -> the records read_jsonl returned
  todo,       \* request -> those not ingested yet
  now,        \* request -> ingest_record's now
  existing,   \* request -> whether its SELECT found the row
  incident,   \* request -> the incident it created
  raced,      \* history: request -> another one ingested meanwhile
  verdict,    \* history: uid -> the status an analyst set last
  filed,      \* history: uid -> the incident it was last assigned to
  noted,      \* history: uid -> how many notes analysts attached
  closedAt    \* history: uid -> when an analyst last closed it

database == <<rows, notes, incidents>>
requests == <<made, pc, op, snapshot, todo, now, existing, incident, raced>>
history == <<verdict, filed, noted, closedAt>>
vars == <<clock, log, appended, database, requests, history>>

Record == [uid: Uids, n: 1..MaxRecords]
Row == [n: 1..MaxRecords, status: Statuses, incident: Nat \union {None},
        lastUpdated: 0..MaxTime]
ASSUME NoneAssumption == None \notin Row /\ None \notin Ops

Ingesting == {"select", "write"}

Labels == {"idle", "read", "next", "op", "assign", "failed"} \union Ingesting

StoreTypes ==
  /\ clock \in 0..MaxTime
  /\ log \in Seq(Record)
  /\ appended \in 0..MaxRecords
  /\ rows \in [Uids -> Row \union {None}]
  /\ notes \in [Uids -> Nat]
  /\ incidents \in Nat

RequestTypes ==
  /\ made \in 0..MaxRequests
  /\ pc \in [Requests -> Labels]
  /\ op \in [Requests -> Asked \union {None}]
  /\ \A r \in Requests : pc[r] # "idle" => op[r] # None
  /\ snapshot \in [Requests -> Seq(Record)]
  /\ todo \in [Requests -> Seq(Record)]
  /\ \A r \in Requests : pc[r] \in Ingesting => todo[r] # <<>>
  /\ now \in [Requests -> 0..MaxTime]
  /\ existing \in [Requests -> BOOLEAN]
  /\ incident \in [Requests -> Nat]
  /\ raced \in [Requests -> BOOLEAN]

HistoryTypes ==
  /\ verdict \in [Uids -> Statuses]
  /\ filed \in [Uids -> Nat \union {None}]
  /\ noted \in [Uids -> Nat]
  /\ closedAt \in [Uids -> 0..MaxTime]

TypeOK == StoreTypes /\ RequestTypes /\ HistoryTypes

Init ==
  /\ clock = 0
  /\ log = <<>>
  /\ appended = 0
  /\ rows = [u \in Uids |-> None]
  /\ notes = [u \in Uids |-> 0]
  /\ incidents = 0
  /\ made = 0
  /\ pc = [r \in Requests |-> "idle"]
  /\ op = [r \in Requests |-> None]
  /\ snapshot = [r \in Requests |-> <<>>]
  /\ todo = [r \in Requests |-> <<>>]
  /\ now = [r \in Requests |-> 0]
  /\ existing = [r \in Requests |-> FALSE]
  /\ incident = [r \in Requests |-> 0]
  /\ raced = [r \in Requests |-> FALSE]
  /\ verdict = [u \in Uids |-> "new"]
  /\ filed = [u \in Uids |-> None]
  /\ noted = [u \in Uids |-> 0]
  /\ closedAt = [u \in Uids |-> 0]

Goto(r, label) == pc' = [pc EXCEPT ![r] = label]

\* The request is over, and what it knew is gone.
Return(r) ==
  /\ Goto(r, "idle")
  /\ op' = [op EXCEPT ![r] = None]
  /\ snapshot' = [snapshot EXCEPT ![r] = <<>>]
  /\ todo' = [todo EXCEPT ![r] = <<>>]
  /\ now' = [now EXCEPT ![r] = 0]
  /\ existing' = [existing EXCEPT ![r] = FALSE]
  /\ incident' = [incident EXCEPT ![r] = 0]
  /\ raced' = [raced EXCEPT ![r] = FALSE]

-----------------------------------------------------------------------------
(* Around the store.                                                       *)

Tick ==
  /\ clock < MaxTime
  /\ clock' = clock + 1
  /\ UNCHANGED <<log, appended, database, requests, history>>

\* JsonlSink.emit: a watch or a scenario appends a record; a uid that recurs
\* is the same alert, grown.
Emit(u) ==
  /\ appended < MaxRecords
  /\ appended' = appended + 1
  /\ log' = Append(log, [uid |-> u, n |-> appended'])
  /\ UNCHANGED <<clock, database, requests, history>>

\* JsonlSink.reset: the file is unlinked.
ResetLog ==
  /\ log # <<>>
  /\ log' = <<>>
  /\ UNCHANGED <<clock, appended, database, requests, history>>

\* A request arrives.
Arrive(r, o) ==
  /\ pc[r] = "idle"
  /\ made < MaxRequests
  /\ made' = made + 1
  /\ Goto(r, "read")
  /\ op' = [op EXCEPT ![r] = o]
  /\ raced' = [raced EXCEPT ![r] = FALSE]
  /\ UNCHANGED <<clock, log, appended, database, snapshot, todo, now, existing,
                 incident, history>>

\* The process is killed, or a failed request answered with an error; what was
\* committed stays.
Crash(r) ==
  /\ pc[r] # "idle"
  /\ Return(r)
  /\ UNCHANGED <<clock, log, appended, made, database, history>>

-----------------------------------------------------------------------------
(* sync_from_jsonl                                                         *)

\* read_jsonl: the whole file at once.
ReadLog(r) ==
  /\ pc[r] = "read"
  /\ snapshot' = [snapshot EXCEPT ![r] = log]
  /\ todo' = [todo EXCEPT ![r] = log]
  /\ Goto(r, "next")
  /\ UNCHANGED <<clock, log, appended, database, made, op, now, existing,
                 incident, raced, history>>

\* MUTANT of TakeRecord: one record more than there is.
TakeRecordUnchecked(r) ==
  /\ pc[r] = "next"
  /\ now' = [now EXCEPT ![r] = clock]
  /\ Goto(r, "select")
  /\ UNCHANGED <<clock, log, appended, database, made, op, snapshot, todo,
                 existing, incident, raced, history>>

\* ingest_record takes the time before it looks at the table.
TakeRecord(r) ==
  /\ pc[r] = "next"
  /\ todo[r] # <<>>
  /\ now' = [now EXCEPT ![r] = clock]
  /\ Goto(r, "select")
  /\ UNCHANGED <<clock, log, appended, database, made, op, snapshot, todo,
                 existing, incident, raced, history>>

\* SELECT uid FROM alerts: no transaction is open yet.
Select(r) ==
  /\ pc[r] = "select"
  /\ existing' = [existing EXCEPT ![r] = rows[Head(todo[r]).uid] # None]
  /\ Goto(r, "write")
  /\ UNCHANGED <<clock, log, appended, database, made, op, snapshot, todo, now,
                 incident, raced, history>>

\* One record is committed: every other request under way has been raced, and
\* the locals of ingest_record are gone.
Ingested(r) ==
  /\ todo' = [todo EXCEPT ![r] = Tail(@)]
  /\ now' = [now EXCEPT ![r] = 0]
  /\ existing' = [existing EXCEPT ![r] = FALSE]
  /\ raced' = [q \in Requests |-> raced[q] \/ (q # r /\ pc[q] # "idle")]
  /\ Goto(r, "next")
  /\ UNCHANGED <<clock, log, appended, notes, incidents, made, op, snapshot,
                 incident, history>>

NewRow(r) ==
  [n |-> Head(todo[r]).n, status |-> "new", incident |-> None,
   lastUpdated |-> now[r]]

\* MUTANT of Insert: INSERT OR REPLACE.
InsertOrReplace(r) ==
  /\ pc[r] = "write"
  /\ ~existing[r]
  /\ rows' = [rows EXCEPT ![Head(todo[r]).uid] = NewRow(r)]
  /\ Ingested(r)

\* INSERT, with the record's uid still free.
Insert(r) ==
  /\ pc[r] = "write"
  /\ ~existing[r]
  /\ rows[Head(todo[r]).uid] = None
  /\ rows' = [rows EXCEPT ![Head(todo[r]).uid] = NewRow(r)]
  /\ Ingested(r)

\* MUTANT of InsertFails: the error ends the sync but not the request.
InsertErrorIgnored(r) ==
  /\ pc[r] = "write"
  /\ ~existing[r]
  /\ rows[Head(todo[r]).uid] # None
  /\ Goto(r, "op")
  /\ UNCHANGED <<clock, log, appended, database, made, op, snapshot, todo, now,
                 existing, incident, raced, history>>

\* INSERT of a uid that has a row by now: IntegrityError, which nothing
\* catches.  The rest of the sync and what the analyst asked are not done.
InsertFails(r) ==
  /\ pc[r] = "write"
  /\ ~existing[r]
  /\ rows[Head(todo[r]).uid] # None
  /\ Goto(r, "failed")
  /\ UNCHANGED <<clock, log, appended, database, made, op, snapshot, todo, now,
                 existing, incident, raced, history>>

\* MUTANT of Update: a known alert is not refreshed.
UpdateTimeOnly(r) ==
  /\ pc[r] = "write"
  /\ existing[r]
  /\ rows' = [rows EXCEPT ![Head(todo[r]).uid].lastUpdated = now[r]]
  /\ Ingested(r)

\* UPDATE: refresh the record, keep the triage state.
Update(r) ==
  /\ pc[r] = "write"
  /\ existing[r]
  /\ rows' = [rows EXCEPT ![Head(todo[r]).uid].n = Head(todo[r]).n,
                          ![Head(todo[r]).uid].lastUpdated = now[r]]
  /\ Ingested(r)

SyncDone(r) ==
  /\ pc[r] = "next"
  /\ todo[r] = <<>>
  /\ Goto(r, "op")
  /\ UNCHANGED <<clock, log, appended, database, made, op, snapshot, todo, now,
                 existing, incident, raced, history>>

-----------------------------------------------------------------------------
(* What the analyst asked for.                                             *)

Doing(r, what) == pc[r] = "op" /\ op[r].do = what

\* list_alerts, stats, metrics, get_alert, pivot: the tables are read.
Query(r) ==
  /\ Doing(r, "query")
  /\ Return(r)
  /\ UNCHANGED <<clock, log, appended, made, database, history>>

\* set_status; an unknown uid updates no row and is answered with 404.
SetStatus(r) ==
  /\ Doing(r, "status")
  /\ Return(r)
  /\ LET u == op[r].uid
         s == op[r].status
     IN  IF rows[u] = None
         THEN UNCHANGED <<rows, verdict, closedAt>>
         ELSE /\ rows' = [rows EXCEPT ![u].status = s, ![u].lastUpdated = clock]
              /\ verdict' = [verdict EXCEPT ![u] = s]
              /\ closedAt' = [closedAt EXCEPT ![u] =
                   IF s \in ClosedStatuses THEN clock ELSE @]
  /\ UNCHANGED <<clock, log, appended, made, notes, incidents, filed, noted>>

\* add_note; the foreign key refuses a note on an unknown alert.
AddNote(r) ==
  /\ Doing(r, "note")
  /\ IF rows[op[r].uid] = None
     THEN /\ Goto(r, "failed")
          /\ UNCHANGED <<op, snapshot, todo, now, existing, incident, raced, notes, noted>>
     ELSE /\ Return(r)
          /\ notes' = [notes EXCEPT ![op[r].uid] = @ + 1]
          /\ noted' = [noted EXCEPT ![op[r].uid] = @ + 1]
  /\ UNCHANGED <<clock, log, appended, made, rows, incidents, verdict, filed, closedAt>>

\* group_into_incident, first transaction: create_incident.
CreateIncident(r) ==
  /\ Doing(r, "group")
  /\ Goto(r, "assign")
  /\ incidents' = incidents + 1
  /\ incident' = [incident EXCEPT ![r] = incidents']
  /\ UNCHANGED <<clock, log, appended, made, op, snapshot, todo, now, existing,
                 raced, rows, notes, history>>

\* ... second transaction: assign_to_incident, over the uids that exist.
AssignToIncident(r) ==
  /\ pc[r] = "assign"
  /\ Return(r)
  /\ LET members == {u \in op[r].uids : rows[u] # None}
     IN  /\ rows' = [u \in Uids |->
                       IF u \in members
                       THEN [rows[u] EXCEPT !.incident = incident[r], !.lastUpdated = clock]
                       ELSE rows[u]]
         /\ filed' = [u \in Uids |-> IF u \in members THEN incident[r] ELSE filed[u]]
  /\ UNCHANGED <<clock, log, appended, made, notes, incidents, verdict, noted, closedAt>>

-----------------------------------------------------------------------------

Sync(r) ==
  \/ ReadLog(r)
  \/ TakeRecord(r)
  \/ Select(r)
  \/ Insert(r)
  \/ InsertFails(r)
  \/ Update(r)
  \/ SyncDone(r)

Triage(r) ==
  \/ Query(r)
  \/ SetStatus(r)
  \/ AddNote(r)
  \/ CreateIncident(r)
  \/ AssignToIncident(r)

Next ==
  \/ Tick
  \/ \E u \in Uids : Emit(u)
  \/ ResetLog
  \/ \E r \in Requests :
       \/ \E o \in Asked : Arrive(r, o)
       \/ Crash(r)
       \/ Sync(r)
       \/ Triage(r)

Spec == Init /\ [][Next]_vars

-----------------------------------------------------------------------------
(* Correctness.                                                            *)

\* What analysts decided is never undone: whatever syncs run at the same
\* time, of snapshots however old, an alert keeps the status, the incident
\* and the notes it was last given, and an alert never triaged is new
\* (store.py 11-13, 140-142).
TriageKept ==
  \A u \in Uids :
    IF rows[u] = None
    THEN verdict[u] = "new" /\ filed[u] = None /\ noted[u] = 0
    ELSE /\ rows[u].status = verdict[u]
         /\ rows[u].incident = filed[u]
         /\ notes[u] = noted[u]

\* A sync that returns has stored every alert of the file it read, and the
\* request goes on only then (store.py 174-179, app.py 81-84).
SyncComplete ==
  \A r \in Requests :
    pc[r] \in {"op", "assign"} =>
      \A i \in DOMAIN snapshot[r] : rows[snapshot[r][i].uid] # None

\* A sync fails only if another one stored the alert between its SELECT and
\* its INSERT, so that a single process never sees an IntegrityError
\* (store.py 146-155).  A note on an unknown alert is the other failure.
FailsOnlyWhenRaced ==
  \A r \in Requests :
    pc[r] = "failed" => raced[r] \/ (op[r].do = "note" /\ rows[op[r].uid] = None)

\* Unless another sync ran meanwhile, a sync leaves every alert with the
\* contents of its last record in the file (store.py 140-152).
LatestWins ==
  \A r \in Requests :
    (pc[r] = "op" /\ ~raced[r]) =>
      \A i \in DOMAIN snapshot[r] :
        (\A j \in DOMAIN snapshot[r] : j > i => snapshot[r][j].uid # snapshot[r][i].uid)
          => rows[snapshot[r][i].uid].n = snapshot[r][i].n

\* The board the tables show.
Cards ==
  [u \in {v \in Uids : rows[v] # None} |->
     [status |-> rows[u].status, incident |-> rows[u].incident, notes |-> notes[u]]]

Board == INSTANCE TriageBoard WITH cards <- Cards, asked <- op, opened <- incident

\* The store implements the board: however requests and syncs interleave, and
\* wherever they crash, an alert is filed once and only an analyst's request
\* changes its card, in one step, as asked, and at most once (store.py 11-13,
\* 128-318).
KeepsBoard == Board!Spec

\* What metrics says of its mean time to resolve: last_updated of a closed
\* alert is "its move into a closed state" (store.py 354-355).
UpdatedWhenClosed ==
  \A u \in Uids :
    rows[u] # None /\ rows[u].status \in ClosedStatuses =>
      rows[u].lastUpdated = closedAt[u]

=============================================================================
