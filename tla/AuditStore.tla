----------------------------- MODULE AuditStore -----------------------------
(***************************************************************************)
(* The SQLite store of backend/audit/store.py, statement by statement.     *)
(* Every operation opens a connection of its own, so runs of the server,   *)
(* its requests and the command-line demo (backend/run_demo.py), another   *)
(* process, meet in the database: one writes at a time, the others wait    *)
(* for the lock or give up, a transaction that is not committed leaves     *)
(* nothing.  The demo ends by exporting what it finds in the store         *)
(* (backend/audit/exporters.py), as a request of the server may as well:   *)
(* both write one file, which opening it empties.                          *)
(***************************************************************************)
EXTENDS Integers, Sequences, FiniteSets

CONSTANTS
    Runs,       \* runs of the server that come to save their resolutions
    Demo,       \* the run of the command-line demo
    Requests,   \* requests to the server: clear, metrics or export
    Tickets,    \* ticket ids, which runs share
    Work,       \* the tickets each run saves, in order
    MaxCalls,   \* bound: tool calls of a resolution
    MaxCrashes, \* bound: how often a process is killed
    Nobody,     \* the lock is free
    NoRow,      \* a ticket without a row
    Broken      \* a file that is no complete document

Writers == Runs \cup {Demo}

ASSUME StoreAssumption ==
    /\ Demo \notin Runs
    /\ Writers \cap Requests = {}
    /\ Nobody \notin Writers
    /\ IsFiniteSet(Tickets) /\ IsFiniteSet(Runs)
    /\ Work \in [Writers -> Seq(Tickets)]
    /\ MaxCalls \in Nat /\ MaxCrashes \in Nat
    /\ NoRow \notin 0 .. MaxCalls
    /\ \A S \in SUBSET Tickets : S # Broken

VARIABLES
    resolutions,  \* table resolutions: tool_call_cnt of a ticket's row
    toolCalls,    \* table tool_calls: how many rows of each ticket
    lock,         \* the writer whose transaction is open
    open,         \* its row, and how many tool calls it has inserted
    doing,        \* what each writer is at
    saved,        \* how many resolutions it has committed
    request,      \* what each request is at
    view,         \* the tickets an export has read
    artifact,     \* the tickets in audit_log.json
    opened,       \* who has opened it last, while the other was writing or not
    report,       \* what a metrics request has counted
    crashes,
    torn,         \* history: tickets saved between two DELETEs of a clear
    emptied,      \* history: metrics requests that a clear overtook
    behind,       \* history: exports that have read before a later commit
    wiped,        \* history: a clear deleted rows after the demo's first
    stale         \* history: the last export of the server was behind

tables == <<resolutions, toolCalls>>
writing == <<lock, open, doing, saved>>
file == <<artifact, opened>>
reading == <<view, file, report>>
history == <<torn, emptied, behind, wiped, stale>>
vars == <<tables, writing, request, reading, crashes, history>>

NoTransaction == [cnt |-> 0, done |-> 0]
HasRow == {t \in Tickets : resolutions[t] # NoRow}
Saving(w) == doing[w] = "saving" /\ saved[w] < Len(Work[w])
Ticket(w) == Work[w][saved[w] + 1]
\* The saves of a ticket that the runs have to make, as run and place in its work,
\* and the most tool calls the ticket can have of them.
Saves(t) ==
    UNION {{<<w, i>> : i \in {j \in DOMAIN Work[w] : Work[w][j] = t}} : w \in Writers}
MostCalls(t) == MaxCalls * Cardinality(Saves(t))

StoreTypeOK ==
    /\ resolutions \in [Tickets -> 0 .. MaxCalls \cup {NoRow}]
    /\ toolCalls \in [Tickets -> Nat]
    /\ \A t \in Tickets : toolCalls[t] <= MostCalls(t)
    /\ lock \in Writers \cup {Nobody}
    /\ lock # Nobody => Saving(lock)
    /\ open \in [cnt: 0 .. MaxCalls, done: 0 .. MaxCalls]
    /\ open.done <= open.cnt
    /\ lock = Nobody => open = NoTransaction
    /\ doing \in [Writers -> {"saving", "exporting", "writing", "over", "raised",
                            "killed"}]
    /\ \A w \in Writers : saved[w] \in 0 .. Len(Work[w])
    /\ request \in [Requests -> {"idle", "clear_rows", "clear_calls", "average",
                              "total", "export", "writing", "over", "killed"}]
    /\ view \in [Requests \cup {Demo} -> SUBSET Tickets]
    /\ artifact # Broken => artifact \in SUBSET Tickets
    /\ opened \in {"demo", "server", "both"}
    /\ report \in [Requests -> [counted: 0 .. Cardinality(Tickets),
                               total: 0 .. Cardinality(Tickets)]]
    /\ crashes \in 0 .. MaxCrashes
    /\ torn \subseteq Tickets
    /\ emptied \subseteq Requests
    /\ behind \subseteq Requests \cup {Demo}
    /\ wiped \in BOOLEAN /\ stale \in BOOLEAN

Init ==
    /\ resolutions = [t \in Tickets |-> NoRow]
    /\ toolCalls = [t \in Tickets |-> 0]
    /\ lock = Nobody
    /\ open = NoTransaction
    /\ doing = [w \in Writers |-> "saving"]
    /\ saved = [w \in Writers |-> 0]
    /\ request = [q \in Requests |-> "idle"]
    /\ view = [x \in Requests \cup {Demo} |-> {}]
    /\ artifact = {} /\ opened = "server"
    /\ report = [q \in Requests |-> [counted |-> 0, total |-> 0]]
    /\ crashes = 0
    /\ torn = {} /\ emptied = {} /\ behind = {}
    /\ wiped = FALSE /\ stale = FALSE
-----------------------------------------------------------------------------
(* save_resolution: one transaction, opened by its first statement.        *)

\* Mutant of BeginSave: the old row is deleted in a transaction of its own.
BeginByDeleting(w) ==
    /\ Saving(w)
    /\ lock = Nobody
    /\ lock' = w
    /\ \E n \in 0 .. MaxCalls : open' = [cnt |-> n, done |-> 0]
    /\ resolutions' = [resolutions EXCEPT ![Ticket(w)] = NoRow]
    /\ UNCHANGED <<toolCalls, doing, saved, request, reading, crashes, history>>

\* INSERT OR REPLACE takes the write lock.
BeginSave(w) ==
    /\ Saving(w)
    /\ lock = Nobody
    /\ lock' = w
    /\ \E n \in 0 .. MaxCalls : open' = [cnt |-> n, done |-> 0]
    /\ UNCHANGED <<tables, doing, saved, request, reading, crashes, history>>

InsertCall(w) ==
    /\ lock = w
    /\ open.done < open.cnt
    /\ open' = [open EXCEPT !.done = @ + 1]
    /\ UNCHANGED <<tables, lock, doing, saved, request, reading, crashes, history>>

Release ==
    /\ lock' = Nobody
    /\ open' = NoTransaction

Clearing == \E q \in Requests : request[q] = "clear_calls"

\* Rows become visible with the commit.  The tool calls are added to those of
\* earlier resolutions of the ticket, whose row is replaced.
Commit(w) ==
    /\ lock = w
    /\ open.done = open.cnt
    /\ resolutions' = [resolutions EXCEPT ![Ticket(w)] = open.cnt]
    /\ toolCalls' = [toolCalls EXCEPT ![Ticket(w)] = @ + open.cnt]
    /\ saved' = [saved EXCEPT ![w] = @ + 1]
    /\ torn' = IF Clearing THEN torn \cup {Ticket(w)} ELSE torn \ {Ticket(w)}
    /\ behind' = behind \cup {q \in Requests : request[q] \in {"export", "writing"}}
    /\ Release
    /\ UNCHANGED <<doing, request, reading, crashes, emptied, wiped, stale>>

\* Mutant of SaveFails: the row was committed by itself.
SaveFailsHalfway(w) ==
    /\ lock = w
    /\ resolutions' = [resolutions EXCEPT ![Ticket(w)] = open.cnt]
    /\ doing' = [doing EXCEPT ![w] = "raised"]
    /\ Release
    /\ UNCHANGED <<toolCalls, saved, request, reading, crashes, history>>

\* Mutant of SaveFails: the connection is left open.
SaveFailsLocked(w) ==
    /\ lock = w
    /\ doing' = [doing EXCEPT ![w] = "raised"]
    /\ UNCHANGED <<tables, lock, open, saved, request, reading, crashes, history>>

\* A statement or the commit fails: closing the connection rolls back, and the
\* exception ends the run.
SaveFails(w) ==
    /\ lock = w
    /\ doing' = [doing EXCEPT ![w] = "raised"]
    /\ Release
    /\ UNCHANGED <<tables, saved, request, reading, crashes, history>>

\* "database is locked", after five seconds.
LockTimesOut(w) ==
    /\ Saving(w)
    /\ lock \notin {Nobody, w}
    /\ doing' = [doing EXCEPT ![w] = "raised"]
    /\ UNCHANGED <<tables, lock, open, saved, request, reading, crashes, history>>

\* After its last resolution the demo exports; first it reads the rows.
AllSaved(w) ==
    /\ doing[w] = "saving"
    /\ saved[w] = Len(Work[w])
    /\ doing' = [doing EXCEPT ![w] = IF w = Demo THEN "exporting" ELSE "over"]
    /\ view' = IF w = Demo THEN [view EXCEPT ![w] = HasRow] ELSE view
    /\ UNCHANGED <<tables, lock, open, saved, request, file, report, crashes,
                   history>>
-----------------------------------------------------------------------------
(* The file: it is emptied when it is opened, and written after that.      *)

ServerWriting == \E q \in Requests : request[q] = "writing"

Forgets(x) == view' = [view EXCEPT ![x] = {}]

\* x writes what it has read.  Of two processes that have the file open, one may
\* write over, or into, what the other writes.
WritesFile(x) ==
    /\ Forgets(x)
    /\ \/ artifact' = view[x] /\ stale' = (x \in behind)
       \/ opened = "both" /\ artifact' \in {artifact, Broken} /\ UNCHANGED stale

\* What was written so far may have damaged what the other process has completed.
BreaksOff(wasWriting) ==
    IF wasWriting THEN artifact' \in {artifact, Broken} ELSE UNCHANGED artifact

DemoOpens ==
    /\ doing[Demo] = "exporting"
    /\ doing' = [doing EXCEPT ![Demo] = "writing"]
    /\ artifact' = Broken
    /\ opened' = IF ServerWriting THEN "both" ELSE "demo"
    /\ UNCHANGED <<tables, lock, open, saved, request, view, report, crashes, history>>

DemoExports ==
    /\ doing[Demo] = "writing"
    /\ doing' = [doing EXCEPT ![Demo] = "over"]
    /\ WritesFile(Demo)
    /\ UNCHANGED <<tables, lock, open, saved, request, opened, report, crashes, torn,
                   emptied, behind, wiped>>

\* Mutant of DemoExportFails: the error is logged and the demo goes on.
DemoExportFailsQuietly ==
    /\ doing[Demo] \in {"exporting", "writing"}
    /\ doing' = [doing EXCEPT ![Demo] = "over"]
    /\ BreaksOff(doing[Demo] = "writing") /\ Forgets(Demo)
    /\ UNCHANGED <<tables, lock, open, saved, request, opened, report, crashes, history>>

\* The query, opening the file or writing it fails, and the demo with it.
DemoExportFails ==
    /\ doing[Demo] \in {"exporting", "writing"}
    /\ doing' = [doing EXCEPT ![Demo] = "raised"]
    /\ BreaksOff(doing[Demo] = "writing") /\ Forgets(Demo)
    /\ UNCHANGED <<tables, lock, open, saved, request, opened, report, crashes, history>>
-----------------------------------------------------------------------------
(* Requests of the server.                                                 *)

Goes(q, from, to) ==
    /\ request[q] = from
    /\ request' = [request EXCEPT ![q] = to]

\* clear_all: executescript commits each DELETE by itself.
BeginClear(q) ==
    /\ Goes(q, "idle", "clear_rows")
    /\ UNCHANGED <<tables, writing, reading, crashes, history>>

ClearRows(q) ==
    /\ Goes(q, "clear_rows", "clear_calls")
    /\ lock = Nobody
    /\ resolutions' = [t \in Tickets |-> NoRow]
    /\ emptied' = emptied \cup {p \in Requests : request[p] \in {"average", "total"}}
    /\ torn' = {}
    /\ wiped' = (wiped \/ saved[Demo] > 0)
    /\ UNCHANGED <<toolCalls, writing, reading, crashes, behind, stale>>

ClearCalls(q) ==
    /\ Goes(q, "clear_calls", "over")
    /\ lock = Nobody
    /\ toolCalls' = [t \in Tickets |-> 0]
    /\ UNCHANGED <<resolutions, writing, reading, crashes, history>>

\* The lock is not to be had, or the disk fails: what is deleted stays deleted.
ClearFails(q) ==
    /\ request[q] \in {"clear_rows", "clear_calls"}
    /\ Goes(q, request[q], "over")
    /\ UNCHANGED <<tables, writing, reading, crashes, history>>

\* get_metrics: three queries, each of which sees what is committed by then.
CountByStatus(q) ==
    /\ Goes(q, "idle", "average")
    /\ report' = [report EXCEPT ![q].counted = Cardinality(HasRow)]
    /\ UNCHANGED <<tables, writing, view, file, crashes, history>>

Average(q) ==
    /\ Goes(q, "average", "total")
    /\ UNCHANGED <<tables, writing, reading, crashes, history>>

CountAll(q) ==
    /\ Goes(q, "total", "over")
    /\ report' = [report EXCEPT ![q].total = Cardinality(HasRow)]
    /\ UNCHANGED <<tables, writing, view, file, crashes, history>>

\* POST /export: the query, and later the file.
ReadRows(q) ==
    /\ Goes(q, "idle", "export")
    /\ view' = [view EXCEPT ![q] = HasRow]
    /\ UNCHANGED <<tables, writing, file, report, crashes, history>>

\* Between opening and closing the file the server's loop does nothing else.
OpenArtifact(q) ==
    /\ Goes(q, "export", "writing")
    /\ ~ServerWriting
    /\ artifact' = Broken
    /\ opened' = IF doing[Demo] = "writing" THEN "both" ELSE "server"
    /\ UNCHANGED <<tables, writing, view, report, crashes, history>>

WriteArtifact(q) ==
    /\ Goes(q, "writing", "over")
    /\ WritesFile(q)
    /\ UNCHANGED <<tables, writing, opened, report, crashes, torn, emptied, behind, wiped>>

\* The request is answered with an error.
ExportFails(q) ==
    /\ request[q] \in {"export", "writing"}
    /\ Goes(q, request[q], "over")
    /\ BreaksOff(request[q] = "writing") /\ Forgets(q)
    /\ UNCHANGED <<tables, writing, opened, report, crashes, history>>
-----------------------------------------------------------------------------
(* Processes are killed, and the server is started again.                  *)

Killed(w) == doing[w] = "saving" /\ (saved[w] > 0 \/ lock = w)

\* SQLite rolls the open transaction back.  A run without a row yet is no
\* different from one started after the restart.
ServerKilled ==
    /\ crashes < MaxCrashes
    /\ crashes' = crashes + 1
    /\ doing' = [w \in Writers |->
                    IF w \in Runs /\ Killed(w) THEN "killed" ELSE doing[w]]
    /\ IF lock \in Runs THEN Release ELSE UNCHANGED <<lock, open>>
    /\ request' = [q \in Requests |->
                      IF request[q] \in {"idle", "over"} THEN request[q] ELSE "killed"]
    /\ BreaksOff(ServerWriting)
    /\ view' = [x \in Requests \cup {Demo} |-> IF x = Demo THEN view[x] ELSE {}]
    /\ UNCHANGED <<tables, saved, opened, report, history>>

DemoKilled ==
    /\ crashes < MaxCrashes
    /\ crashes' = crashes + 1
    /\ doing[Demo] \in {"saving", "exporting", "writing"}
    /\ doing' = [doing EXCEPT ![Demo] = "killed"]
    /\ IF lock = Demo THEN Release ELSE UNCHANGED <<lock, open>>
    /\ BreaksOff(doing[Demo] = "writing") /\ Forgets(Demo)
    /\ UNCHANGED <<tables, saved, request, opened, report, history>>

SaveStep(w) ==
    \/ BeginSave(w) \/ InsertCall(w) \/ Commit(w) \/ SaveFails(w)
    \/ LockTimesOut(w) \/ AllSaved(w)
DemoStep == DemoOpens \/ DemoExports \/ DemoExportFails
ClearStep(q) == BeginClear(q) \/ ClearRows(q) \/ ClearCalls(q) \/ ClearFails(q)
ReadStep(q) ==
    CountByStatus(q) \/ Average(q) \/ CountAll(q)
ExportStep(q) ==
    ReadRows(q) \/ OpenArtifact(q) \/ WriteArtifact(q) \/ ExportFails(q)

Quiet ==
    /\ \A w \in Writers : doing[w] \notin {"saving", "exporting", "writing"}
    /\ \A q \in Requests : request[q] \in {"over", "killed"}
    /\ UNCHANGED vars

Next ==
    \/ \E w \in Writers : SaveStep(w)
    \/ DemoStep
    \/ \E q \in Requests : ClearStep(q) \/ ReadStep(q) \/ ExportStep(q)
    \/ ServerKilled \/ DemoKilled
    \/ Quiet

Spec == Init /\ [][Next]_vars
-----------------------------------------------------------------------------
(* Properties.                                                             *)

\* The two tables agree: a resolution's row counts no more tool calls than the
\* ticket has in the other table, through lock timeouts, failed commits, kills,
\* clears that stop halfway, and runs that save a ticket again.  Excepted are
\* rows saved between the two DELETEs of a clear, whose calls it takes along.
CallsBacked ==
    \A t \in HasRow : t \in torn \/ resolutions[t] <= toolCalls[t]

\* Metrics count the tickets by status and in total in different queries: the
\* parts never exceed the total, so resolution_rate stays within one, whatever
\* is saved in between; unless a clear comes in between.
RateWithinOne ==
    \A q \in Requests :
        request[q] = "over" /\ q \notin emptied =>
            report[q].counted <= report[q].total

\* run_demo.py:112-173: when the demo has announced its artifact, the file is
\* complete and has a resolution for each of its tickets, whatever other runs save,
\* fail or are killed at meanwhile.  Three things can come in between: the store is
\* cleared after the demo's first row; an export of the server that has read before
\* a later commit has written the file since; or an export of the server has opened
\* the file since the demo did, or had it open by then, and leaves it broken.
ExportCovers ==
    doing[Demo] = "over" /\ ~wiped /\ ~stale =>
        IF artifact = Broken
        THEN opened # "demo"
        ELSE \A i \in DOMAIN Work[Demo] : Work[Demo][i] \in artifact
=============================================================================
