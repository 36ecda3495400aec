------------------------------ MODULE Service ------------------------------
(***************************************************************************)
(* The processes that share the alert store, a JSON-Lines file             *)
(* (minisoc/alerting/sinks.py): runs of scenarios, each a command or a     *)
(* dashboard request (core/runner.py, cli/main.py _cmd_run, dashboard      *)
(* api_run), and one live watch (cli/main.py _cmd_watch, core/live.py).    *)
(* All of them append to the store through a buffered handle, runs reset   *)
(* it, and runs of one log source write one generated log; any of them may *)
(* be killed between two writes.                                           *)
(*                                                                         *)
(* A line of the store is three pieces, since the buffer of a handle may   *)
(* be full anywhere in it: the head of the JSON text, its tail and the     *)
(* line break.  What a pattern or a scenario is detected by is left to the *)
(* modules LiveMonitor and Detection: here a scenario is detected when all *)
(* its lines are in the log, and a live pattern when enough lines of it    *)
(* are among those this life of the watch has read.                        *)
(***************************************************************************)
EXTENDS Filtering, Naturals, Sequences, FiniteSets, SequencesExt, FiniteSetsExt

CONSTANTS
  Runs,        \* the runs requested
  Watch,       \* the live watch
  Job,         \* run -> [scenario, command]: what it generates, and who asked
  Scenarios,   \* the scenarios, in the order their alerts are raised
  Source,      \* scenario -> its log source (SCENARIOS)
  Lines,       \* scenario -> how many lines it generates
  Patterns,    \* what the watched log may show
  Enough,      \* how many lines make a pattern
  Severe,      \* the names of alerts of at least the severity notified
  Buffer,      \* how many pieces a file handle buffers
  MaxOccurred, \* how many lines of patterns occur (bounds the model)
  MaxCrashes   \* how many processes are killed (bounds the model)

ASSUME BufferAssumption == Buffer \in Nat \ {0}
ASSUME EnoughAssumption == Enough \in Nat \ {0}
ASSUME WatchAssumption == Watch \notin Runs
ASSUME CrashesAssumption == MaxCrashes \in Nat
ASSUME ScenariosAssumption ==
  /\ Scenarios \in Seq(ToSet(Scenarios)) /\ IsInjective(Scenarios)
  /\ Job \in [Runs -> [scenario: ToSet(Scenarios), command: BOOLEAN]]
ASSUME LinesAssumption == \A k \in DOMAIN Scenarios : Lines[Scenarios[k]] \in Nat \ {0}

Emitters == Runs \union {Watch}
Names == ToSet(Scenarios) \union Patterns
Alerts == [by: Emitters, name: Names]
Parts == <<"head", "tail", "end">>
Pieces == Alerts \X ToSet(Parts)
Sources == {Source[s] : s \in ToSet(Scenarios)}

VARIABLES
  files,      \* the contents of every store file there ever was
  path,       \* which of them the store path names, or 0
  generated,  \* source -> the lines of its generated log
  pc,         \* emitter -> where it stands
  batch,      \* emitter -> the alerts it emits
  handle,     \* emitter -> the file it appends to, or 0
  out,        \* emitter -> the pieces still in its buffer
  occurred,   \* the lines of the watched log, each by the pattern it belongs to
  since,      \* where this life of the watch began to read
  seen,       \* how far it has read
  emitted,    \* _emitted: the patterns it has alerted on
  notified,   \* the alerts delivered to a notification channel
  crashes,    \* how many processes were killed
  alone,      \* history: run -> no other emitter was busy meanwhile
  apart,      \* history: run -> no run of its source used the log meanwhile
  before,     \* history: run -> the store it shall append to
  single,     \* history: no two emitters ever had one file open
  removed     \* history: the alerts a fresh run removed, by now or before they were written

store == <<files, path>>
watch == <<occurred, since, seen, emitted>>
procs == <<pc, batch, handle, out>>
history == <<alone, apart, before, single, removed>>
vars == <<store, generated, procs, watch, notified, crashes, history>>

Labels == {"idle", "write", "parse", "reset", "unlink", "emit", "flush", "notify", "done", "failed",
           "poll", "dead"}
Resting == {"idle", "done", "failed", "poll", "dead"}
Busy(e) == pc[e] \notin Resting

TypeOK ==
  /\ files \in Seq(Seq(Pieces))
  /\ path \in 0..Len(files)
  /\ generated \in [Sources -> Seq(ToSet(Scenarios) \X Nat)]
  /\ pc \in [Emitters -> Labels]
  /\ batch \in [Emitters -> Seq(Alerts)]
  /\ \A e \in Emitters : \A k \in DOMAIN batch[e] : batch[e][k].by = e
  /\ handle \in [Emitters -> 0..Len(files)]
  /\ \A e \in Emitters : handle[e] # 0 <=> pc[e] = "flush"
  /\ out \in [Emitters -> Seq(Pieces)]
  /\ occurred \in Seq(Patterns)
  /\ since \in 0..seen /\ seen \in 0..Len(occurred)
  /\ emitted \subseteq {occurred[k] : k \in (since + 1)..seen}
  /\ notified \subseteq Alerts /\ removed \subseteq Alerts
  /\ crashes \in 0..MaxCrashes

Init ==
  /\ files = <<>>
  /\ path = 0
  /\ generated = [s \in Sources |-> <<>>]
  /\ pc = [e \in Emitters |-> IF e = Watch THEN "poll" ELSE "idle"]
  /\ batch = [e \in Emitters |-> <<>>]
  /\ handle = [e \in Emitters |-> 0]
  /\ out = [e \in Emitters |-> <<>>]
  /\ occurred = <<>>
  /\ since = 0
  /\ seen = 0
  /\ emitted = {}
  /\ notified = {}
  /\ crashes = 0
  /\ alone = [r \in Runs |-> FALSE]
  /\ apart = [r \in Runs |-> FALSE]
  /\ before = [r \in Runs |-> <<>>]
  /\ single = TRUE
  /\ removed = {}

Goto(e, label) == pc' = [pc EXCEPT ![e] = label]
Content == IF path = 0 THEN <<>> ELSE files[path]

\* An emitter becomes busy: the busy runs are not alone any more.
Joins(e) ==
  alone' = [r \in Runs |-> IF r = e THEN \A q \in Emitters \ {r} : ~Busy(q)
                           ELSE alone[r] /\ ~Busy(r)]

\* What the history says of a run that ends is not needed any more.
Leaves(e) ==
  /\ alone' = [r \in Runs |-> r # e /\ alone[r]]
  /\ apart' = [r \in Runs |-> r # e /\ apart[r]]
  /\ before' = [r \in Runs |-> IF r = e THEN <<>> ELSE before[r]]

-----------------------------------------------------------------------------
(* run_scenario                                                            *)

SourceOf(r) == Source[Job[r].scenario]
InLog(r) == pc[r] \in {"write", "parse"}
SameLog(r) == {q \in Runs \ {r} : SourceOf(q) = SourceOf(r)}

\* write_text opens the generated log, which empties it.
Begin(r) ==
  /\ pc[r] = "idle"
  /\ Goto(r, "write")
  /\ generated' = [generated EXCEPT ![SourceOf(r)] = <<>>]
  /\ Joins(r)
  /\ apart' = [q \in Runs |->
                 IF q = r THEN \A p \in SameLog(r) : ~InLog(p)
                 ELSE apart[q] /\ ~(q \in SameLog(r) /\ InLog(q))]
  /\ before' = [before EXCEPT ![r] = IF alone'[r] THEN Content ELSE <<>>]
  /\ UNCHANGED <<store, batch, handle, out, watch, notified, crashes, single, removed>>

LinesOf(s) == [k \in 1..Lines[s] |-> <<s, k>>]

\* ... and writes from its start, over what another run wrote meanwhile.
WriteLog(r) ==
  /\ pc[r] = "write"
  /\ Goto(r, "parse")
  /\ LET own == LinesOf(Job[r].scenario) IN
     generated' = [generated EXCEPT ![SourceOf(r)] = own \o SubSeq(@, Len(own) + 1, Len(@))]
  /\ UNCHANGED <<store, batch, handle, out, watch, notified, crashes, history>>

Detected(lines, s) == \A k \in 1..Lines[s] : <<s, k>> \in ToSet(lines)

\* run_file: all that is in the log by now.  Then the store is reset, where the caller
\* asked for that.
Parse(r) ==
  /\ pc[r] = "parse"
  /\ \E fresh \in BOOLEAN :
       /\ Goto(r, IF fresh THEN "reset" ELSE "emit")
       /\ before' = IF fresh THEN [before EXCEPT ![r] = <<>>] ELSE before
  /\ LET found == Filter(Scenarios, {s \in ToSet(Scenarios) :
                                       Detected(generated[SourceOf(r)], s)}) IN
     batch' = [batch EXCEPT ![r] = [k \in DOMAIN found |-> [by |-> r, name |-> found[k]]]]
  /\ UNCHANGED <<store, generated, handle, out, watch, notified, crashes, alone, apart, single, removed>>

\* MUTANT of CheckStore: the check is the wrong way round.
CheckStoreInverted(r) ==
  /\ pc[r] = "reset"
  /\ Goto(r, IF path # 0 THEN "emit" ELSE "unlink")
  /\ UNCHANGED <<store, generated, batch, handle, out, watch, notified, crashes, history>>

\* JsonlSink.reset: if the store exists ...
CheckStore(r) ==
  /\ pc[r] = "reset"
  /\ Goto(r, IF path = 0 THEN "emit" ELSE "unlink")
  /\ UNCHANGED <<store, generated, batch, handle, out, watch, notified, crashes, history>>

\* What a file holds, and what is on its way to it.
Held(f) ==
  {piece[1] : piece \in ToSet(files[f])}
    \union UNION {ToSet(batch[e]) : e \in {q \in Emitters : handle[q] = f}}

\* ... it is unlinked; who has it open goes on writing to it.
Unlink(r) ==
  /\ pc[r] = "unlink"
  /\ path # 0
  /\ path' = 0
  /\ removed' = removed \union Held(path)
  /\ Goto(r, "emit")
  /\ UNCHANGED <<files, generated, batch, handle, out, watch, notified, crashes, alone, apart, before,
                 single>>

\* FileNotFoundError: another run was faster.  Nothing is stored.
UnlinkFails(r) ==
  /\ pc[r] = "unlink"
  /\ path = 0
  /\ Goto(r, "failed")
  /\ UNCHANGED <<store, generated, batch, handle, out, watch, notified, crashes, history>>

-----------------------------------------------------------------------------
(* JsonlSink.emit and what comes after it                                  *)

\* The pieces of the lines of a batch.
Text(alerts) ==
  [k \in 1..(3 * Len(alerts)) |-> <<alerts[(k + 2) \div 3], Parts[((k - 1) % 3) + 1]>>]

\* No alert, no file.
Open(e) ==
  /\ pc[e] = "emit"
  /\ batch[e] # <<>>
  /\ Goto(e, "flush")
  /\ files' = IF path = 0 THEN Append(files, <<>>) ELSE files
  /\ path' = IF path = 0 THEN Len(files') ELSE path
  /\ handle' = [handle EXCEPT ![e] = path']
  /\ out' = [out EXCEPT ![e] = Text(batch[e])]
  /\ single' = (single /\ \A q \in Emitters \ {e} : handle[q] # path')
  /\ UNCHANGED <<generated, batch, watch, notified, crashes, alone, apart, before, removed>>

NothingToStore(e) ==
  /\ pc[e] = "emit"
  /\ batch[e] = <<>>
  /\ Goto(e, "notify")
  /\ UNCHANGED <<store, generated, batch, handle, out, watch, notified, crashes, history>>

\* A full buffer, and the last one, reaches the end of the file, wherever that
\* is by now.
Flush(e) ==
  /\ pc[e] = "flush"
  /\ out[e] # <<>>
  /\ LET n == IF Len(out[e]) < Buffer THEN Len(out[e]) ELSE Buffer IN
     /\ files' = [files EXCEPT ![handle[e]] = @ \o SubSeq(out[e], 1, n)]
     /\ out' = [out EXCEPT ![e] = SubSeq(@, n + 1, Len(@))]
  /\ UNCHANGED <<path, generated, pc, batch, handle, watch, notified, crashes, history>>

\* MUTANT of Close: the file is left to be closed some time.
CloseLater(e) ==
  /\ pc[e] = "flush"
  /\ Goto(e, "notify")
  /\ handle' = [handle EXCEPT ![e] = 0]
  /\ UNCHANGED <<store, generated, batch, out, watch, notified, crashes, history>>

Close(e) ==
  /\ pc[e] = "flush"
  /\ out[e] = <<>>
  /\ Goto(e, "notify")
  /\ handle' = [handle EXCEPT ![e] = 0]
  /\ removed' = IF handle[e] = path THEN removed \ ToSet(batch[e]) ELSE removed
  /\ UNCHANGED <<store, generated, batch, out, watch, notified, crashes, alone, apart, before, single>>

\* The notification sinks: of the severe alerts any may fail to be delivered,
\* which is printed and forgotten.  The dashboard's runs notify nobody.
Notify(e) ==
  /\ pc[e] = "notify"
  /\ \E sent \in SUBSET {batch[e][k] : k \in {j \in DOMAIN batch[e] : batch[e][j].name \in Severe}} :
       /\ e \in Runs /\ ~Job[e].command => sent = {}
       /\ notified' = notified \union sent
  /\ Goto(e, IF e = Watch THEN "poll" ELSE "done")
  /\ batch' = [batch EXCEPT ![e] = <<>>]
  /\ Leaves(e)
  /\ UNCHANGED <<store, generated, handle, out, watch, crashes, single, removed>>

-----------------------------------------------------------------------------
(* The watch                                                               *)

\* The watched log grows by a line of a pattern.
Occur(p) ==
  /\ Len(occurred) < MaxOccurred
  /\ occurred' = Append(occurred, p)
  /\ UNCHANGED <<store, generated, procs, since, seen, emitted, notified, crashes, history>>

\* The lines of p among the first k.
LinesTo(lines, p, k) == {j \in 1..k : lines[j] = p}

\* Enough of the lines from place k on belong to p.
Shows(p, k) == Cardinality(LinesTo(SubSeq(occurred, k, Len(occurred)), p, Len(occurred) - k + 1)) >= Enough

\* poll_once: the buffer is evaluated again as soon as there are new lines, and
\* what is new in it is marked as emitted before any sink has it.
Poll ==
  /\ pc[Watch] = "poll"
  /\ seen < Len(occurred)
  /\ seen' = Len(occurred)
  /\ LET buffer == SubSeq(occurred, since + 1, Len(occurred))
         last == Filter([k \in DOMAIN buffer |-> k], {k \in DOMAIN buffer :
                   buffer[k] \notin emitted /\ Cardinality(LinesTo(buffer, buffer[k], k)) = Enough})
     IN /\ batch' = [batch EXCEPT ![Watch] =
                       [k \in DOMAIN last |-> [by |-> Watch, name |-> buffer[last[k]]]]]
        /\ emitted' = emitted \union {buffer[k] : k \in ToSet(last)}
        /\ Goto(Watch, IF last = <<>> THEN "poll" ELSE "emit")
        /\ IF last = <<>> THEN UNCHANGED alone ELSE Joins(Watch)
  /\ UNCHANGED <<store, generated, handle, out, occurred, since, notified, crashes, apart, before, single,
                 removed>>

\* MUTANT of Crash: what was emitted is remembered, the alerts are not.
CrashRemembers(e) ==
  /\ pc[e] \notin {"idle", "done", "failed", "dead"}
  /\ crashes < MaxCrashes
  /\ crashes' = crashes + 1
  /\ Goto(e, IF e = Watch THEN "dead" ELSE "failed")
  /\ batch' = [batch EXCEPT ![e] = <<>>]
  /\ handle' = [handle EXCEPT ![e] = 0]
  /\ out' = [out EXCEPT ![e] = <<>>]
  /\ UNCHANGED <<store, generated, watch, notified, history>>

\* MUTANT of Crash: the handle stays open.
CrashOpen(e) ==
  /\ pc[e] \notin {"idle", "done", "failed", "dead"}
  /\ crashes < MaxCrashes
  /\ crashes' = crashes + 1
  /\ Goto(e, IF e = Watch THEN "dead" ELSE "failed")
  /\ UNCHANGED <<store, generated, batch, handle, out, watch, notified, history>>

\* A process is killed: its memory is gone and so is what it had not flushed.
Crash(e) ==
  /\ pc[e] \notin {"idle", "done", "failed", "dead"}
  /\ crashes < MaxCrashes
  /\ crashes' = crashes + 1
  /\ Goto(e, IF e = Watch THEN "dead" ELSE "failed")
  /\ batch' = [batch EXCEPT ![e] = <<>>]
  /\ handle' = [handle EXCEPT ![e] = 0]
  /\ out' = [out EXCEPT ![e] = <<>>]
  /\ emitted' = IF e = Watch THEN {} ELSE emitted
  /\ Leaves(e)
  /\ UNCHANGED <<store, generated, occurred, since, seen, notified, single, removed>>

\* minisoc watch again, with --from-start or without.
Restart ==
  /\ pc[Watch] = "dead"
  /\ Goto(Watch, "poll")
  /\ \E fromStart \in BOOLEAN : since' = IF fromStart THEN 0 ELSE Len(occurred)
  /\ seen' = since'
  /\ UNCHANGED <<store, generated, batch, handle, out, occurred, emitted, notified, crashes, history>>

-----------------------------------------------------------------------------

Emit(e) == Open(e) \/ NothingToStore(e) \/ Flush(e) \/ Close(e) \/ Notify(e)
Run(r) ==
  \/ Begin(r) \/ WriteLog(r) \/ Parse(r)
  \/ CheckStore(r) \/ Unlink(r) \/ UnlinkFails(r)

Next ==
  \/ \E r \in Runs : Run(r)
  \/ \E e \in Emitters : Emit(e) \/ Crash(e)
  \/ \E p \in Patterns : Occur(p)
  \/ Poll
  \/ Restart

\* A watch that is alive goes on; nobody has to start it again.
Spec == Init /\ [][Next]_vars /\ WF_vars(Poll \/ Emit(Watch))

-----------------------------------------------------------------------------
(* read_jsonl: a line that is no JSON text is skipped, a text without a    *)
(* line break at the end of the file is not.                               *)

Ends(pieces, k) == pieces[k][2] = "end"

\* MUTANT of Readable: a line is understood only where the lines before it are.
ReadableSoFar(pieces) ==
  {k \in DOMAIN pieces :
     /\ pieces[k][2] = "tail"
     /\ k < Len(pieces) => Ends(pieces, k + 1)
     /\ \A j \in 1..k : pieces[j][2] = Parts[((j - 1) % 3) + 1]}

\* The places where a text ends that a reader understands.
Readable(pieces) ==
  {k \in DOMAIN pieces :
     /\ pieces[k][2] = "tail"
     /\ k > 1 /\ pieces[k - 1] = <<pieces[k][1], "head">>
     /\ k > 2 => Ends(pieces, k - 2)
     /\ k < Len(pieces) => Ends(pieces, k + 1)}

-----------------------------------------------------------------------------
(* Correctness.                                                            *)

\* A run detects its own scenario and no other as long as no run of the same
\* source uses the generated log meanwhile; one during which nothing else is
\* busy never fails and leaves the store as it was, or empty when fresh, with
\* its own alerts after it (runner.py 79-98, sinks.py 128-140).
RunsAsAlone ==
  \A r \in Runs :
    LET own == <<[by |-> r, name |-> Job[r].scenario]>> IN
    /\ (apart[r] /\ pc[r] \in {"reset", "unlink", "emit", "flush", "notify"}) => batch[r] = own
    /\ alone[r] => pc[r] # "failed" /\ (pc[r] = "notify" => Content = before[r] \o Text(own))

\* The places in the store: the files, and where in them.
Places == UNION {{f} \X DOMAIN files[f] : f \in DOMAIN files}

\* The line breaks of the lines a reader does not understand.
Spoiled ==
  {p \in Places : Ends(files[p[1]], p[2]) /\ p[2] - 1 \notin Readable(files[p[1]])}

\* As long as no two processes write at the same time, a process killed in the
\* middle of a line costs one more line at most, the next one written after it
\* (sinks.py 137-140, 143-165).
CrashCostsOneMore ==
  single => Cardinality(Spoiled) <= crashes

\* What read_jsonl finds at the path of the store.
ReadBack == {Content[k][1] : k \in Readable(Content)}

\* Who was notified of them looks for them in vain, and no fresh run removed them.
Lost == {alert \in notified : alert \notin removed /\ alert \notin ReadBack}

\* The store comes before the channels and is closed before they are told: who is
\* notified of an alert reads it in the store, unless a fresh run removed it, and but
\* for one alert a kill, as long as no two processes write at the same time
\* (cli/main.py 184-200, 288-296, live.py 184-187, sinks.py 133-166).
NotifiedIsStored == single => Cardinality(Lost) <= crashes

\* Its line is at the path of the store, if only behind what is left of another one.
Appended(alert) == <<alert, "end">> \in ToSet(Content)

\* A pattern the watched log shows can be read in the store some time, or was removed
\* by a fresh run, unless the watch is dead or was started again too late to read
\* enough of it; after a kill, or where two processes write, its line may be one that
\* is not understood.  Marking it as emitted before it is stored, and dying in between,
\* costs nothing but that (live.py 61-64, 118-119, 175-189).
EventuallyStored ==
  \A p \in Patterns :
    LET alert == [by |-> Watch, name |-> p] IN
    Shows(p, 1) ~>
      \/ alert \in ReadBack \union removed
      \/ (crashes > 0 \/ ~single) /\ Appended(alert)
      \/ pc[Watch] = "dead"
      \/ ~Shows(p, since + 1)

=============================================================================
