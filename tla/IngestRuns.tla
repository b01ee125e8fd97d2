----------------------------- MODULE IngestRuns -----------------------------
(***************************************************************************)
(* The runs of backend/api/routes.py: POST /ingest starts one in the       *)
(* background, GET /ingest/{id} reports on it, and switching or uploading  *)
(* a dataset clears what earlier runs left in the audit store              *)
(* (backend/audit/store.py) while runs may still be under way.  Datasets   *)
(* come from the manifest of backend/tools/datastore.py.                   *)
(***************************************************************************)
EXTENDS Integers, Sequences, FiniteSets

CONSTANTS
    RunIds,        \* runs that may be started, numbered as they are
    Clients,       \* requests to switch or upload that may be under way
    Tickets,       \* ticket ids; datasets share them
    Shipped,       \* the dataset the manifest comes with and points at
    Custom,        \* ids an upload may get, one per second of the clock
    Uploads,       \* ticket lists clients upload
    ShippedList,   \* ticket list of the shipped dataset
    EnvDataset,    \* settings.active_dataset, or NoDataset
    NoDataset,
    NoRun,         \* a ticket without a row
    MaxSwitches,   \* bound: datasets switched to or uploaded
    MaxRestarts    \* bound: how often the server is killed and started again

Datasets == {Shipped} \cup Custom
Distinct(s) == Cardinality({s[i] : i \in DOMAIN s}) = Len(s)

ASSUME RunsAssumption ==
    /\ Shipped \notin Custom
    /\ NoDataset \notin Datasets
    /\ EnvDataset \in Datasets \cup {NoDataset}
    /\ RunIds \subseteq Nat /\ NoRun \notin RunIds
    /\ \A s \in Uploads \cup {ShippedList} :
          s \in Seq(Tickets) /\ s # <<>> /\ Distinct(s)
    /\ MaxSwitches \in Nat /\ MaxRestarts \in Nat

VARIABLES
    manifest,   \* [active |-> dataset, available |-> datasets]
    files,      \* the ticket file of each dataset, empty if never written
    status,     \* _runs[id]["status"], "unknown" before the run
    doing,      \* what the background task of a run is at
    source,     \* history: the dataset a run loaded
    work,       \* the tickets of a run, in order
    saved,      \* how many of its resolutions a run has saved
    rows,       \* table resolutions: the run that wrote a ticket's row
    logged,     \* runs with events in audit_log.jsonl
    request,    \* what each client's request is at
    switches,   \* history: how often the active dataset was set
    startedAt,  \* history: the value of switches when a run started
    wiped,      \* history: runs started before the rows were last cleared
    outlived,   \* history: those of them that were under way then
    uncleared,  \* history: what a clear that broke off has left, and none since
    restarts

runVars == <<status, doing, source, work, startedAt>>
storeVars == <<rows, logged>>
datasetVars == <<manifest, files, switches>>
clearVars == <<wiped, outlived, uncleared>>
historyVars == <<clearVars, restarts>>
vars == <<runVars, saved, storeVars, datasetVars, request, clearVars, restarts>>

TypeOK ==
    /\ manifest \in [active: Datasets, available: SUBSET Datasets]
    /\ manifest.active \in manifest.available
    /\ files \in [Datasets -> Seq(Tickets)]
    /\ status \in [RunIds -> {"unknown", "running", "done"}]
    /\ doing \in [RunIds -> {"nothing", "pool", "saving", "over", "raised",
                           "orphaned", "killed"}]
    /\ source \in [RunIds -> Datasets \cup {NoDataset}]
    /\ work \in [RunIds -> Seq(Tickets)]
    /\ \A r \in RunIds : saved[r] \in 0 .. Len(work[r])
    /\ rows \in [Tickets -> RunIds \cup {NoRun}]
    /\ logged \subseteq RunIds
    /\ request \in [Clients -> {"idle", "clear_rows", "clear_files"}]
    /\ switches \in 0 .. MaxSwitches
    /\ startedAt \in [RunIds -> 0 .. MaxSwitches]
    /\ outlived \subseteq wiped /\ wiped \subseteq RunIds
    /\ uncleared \subseteq {"rows", "log"}
    /\ restarts \in 0 .. MaxRestarts

Init ==
    /\ manifest = [active |-> Shipped, available |-> {Shipped}]
    /\ files = [d \in Datasets |-> IF d = Shipped THEN ShippedList ELSE <<>>]
    /\ status = [r \in RunIds |-> "unknown"]
    /\ doing = [r \in RunIds |-> "nothing"]
    /\ source = [r \in RunIds |-> NoDataset]
    /\ work = [r \in RunIds |-> <<>>]
    /\ saved = [r \in RunIds |-> 0]
    /\ rows = [t \in Tickets |-> NoRun]
    /\ logged = {}
    /\ request = [q \in Clients |-> "idle"]
    /\ switches = 0
    /\ startedAt = [r \in RunIds |-> 0]
    /\ wiped = {} /\ outlived = {} /\ uncleared = {}
    /\ restarts = 0
-----------------------------------------------------------------------------
(* A run, from POST /ingest to its last row.                               *)

\* get_active_dataset: the environment wins over the manifest's pointer; an id
\* the manifest does not list falls back to its first entry.
ActiveDataset ==
    LET id == IF EnvDataset # NoDataset THEN EnvDataset ELSE manifest.active
    IN  IF id \in manifest.available THEN id ELSE Shipped

Ingest(r) ==
    /\ doing[r] = "nothing"
    /\ \A u \in RunIds : u < r => doing[u] # "nothing"
    /\ status' = [status EXCEPT ![r] = "running"]
    /\ doing' = [doing EXCEPT ![r] = "pool"]
    /\ source' = [source EXCEPT ![r] = ActiveDataset]
    /\ work' = [work EXCEPT ![r] = files[ActiveDataset]]
    /\ startedAt' = [startedAt EXCEPT ![r] = switches]
    /\ UNCHANGED <<saved, storeVars, datasetVars, request, historyVars>>

\* The pool appends audit events while it runs; when gather has raised, the
\* tickets still in work go on doing so.
LogEvent(r) ==
    /\ doing[r] \in {"pool", "orphaned"}
    /\ logged' = logged \cup {r}
    /\ UNCHANGED <<runVars, saved, rows, datasetVars, request, historyVars>>

PoolReturns(r) ==
    /\ doing[r] = "pool"
    /\ doing' = [doing EXCEPT ![r] = "saving"]
    /\ UNCHANGED <<status, source, work, startedAt, saved, storeVars,
                   datasetVars, request, historyVars>>

\* Mutant of Save: the tickets are read again from the dataset's file.
SaveReloaded(r) ==
    LET now == files[source[r]] IN
    /\ doing[r] = "saving"
    /\ saved[r] < Len(work[r]) /\ saved[r] < Len(now)
    /\ saved' = [saved EXCEPT ![r] = @ + 1]
    /\ rows' = [rows EXCEPT ![now[saved'[r]]] = r]
    /\ UNCHANGED <<runVars, logged, datasetVars, request, historyVars>>

\* save_resolution: one commit per resolution, replacing the ticket's row.
Save(r) ==
    /\ doing[r] = "saving"
    /\ saved[r] < Len(work[r])
    /\ saved' = [saved EXCEPT ![r] = @ + 1]
    /\ rows' = [rows EXCEPT ![work[r][saved'[r]]] = r]
    /\ UNCHANGED <<runVars, logged, datasetVars, request, historyVars>>

\* Mutant of RunDone: done is reported before the last row is saved.
RunDoneEarly(r) ==
    /\ doing[r] = "saving"
    /\ saved[r] >= Len(work[r]) - 1
    /\ doing' = [doing EXCEPT ![r] = "over"]
    /\ status' = [status EXCEPT ![r] = "done"]
    /\ UNCHANGED <<source, work, startedAt, saved, storeVars, datasetVars,
                   request, historyVars>>

\* Mutant of RunDone: the status is not updated.
RunDoneUnreported(r) ==
    /\ doing[r] = "saving"
    /\ saved[r] = Len(work[r])
    /\ doing' = [doing EXCEPT ![r] = "over"]
    /\ UNCHANGED <<status, source, work, startedAt, saved, storeVars,
                   datasetVars, request, historyVars>>

RunDone(r) ==
    /\ doing[r] = "saving"
    /\ saved[r] = Len(work[r])
    /\ doing' = [doing EXCEPT ![r] = "over"]
    /\ status' = [status EXCEPT ![r] = "done"]
    /\ UNCHANGED <<source, work, startedAt, saved, storeVars, datasetVars,
                   request, historyVars>>

\* The pool or a save raises: the background task ends, its status stays.
RunRaises(r) ==
    /\ doing[r] \in {"pool", "saving"}
    /\ doing' = [doing EXCEPT ![r] = IF @ = "pool" THEN "orphaned" ELSE "raised"]
    /\ UNCHANGED <<status, source, work, startedAt, saved, storeVars,
                   datasetVars, request, historyVars>>
-----------------------------------------------------------------------------
(* Switching and uploading: the manifest first, then the audit store.      *)

\* Mutant of Activate: an uploaded dataset is not registered.
ActivateUnregistered(q, d) ==
    /\ request[q] = "idle"
    /\ switches < MaxSwitches
    /\ switches' = switches + 1
    /\ manifest' = [manifest EXCEPT !.active = d]
    /\ request' = [request EXCEPT ![q] = "clear_rows"]
    /\ UNCHANGED <<runVars, saved, storeVars, historyVars>>

Activate(q, d) ==
    /\ request[q] = "idle"
    /\ switches < MaxSwitches
    /\ switches' = switches + 1
    /\ manifest' = [active |-> d, available |-> manifest.available \cup {d}]
    /\ request' = [request EXCEPT ![q] = "clear_rows"]
    /\ UNCHANGED <<runVars, saved, storeVars, historyVars>>

Switch(q) ==
    \E d \in manifest.available : Activate(q, d) /\ UNCHANGED files

\* register_uploaded_dataset: two uploads in one second share id and file.
Register(d, s) == files' = [files EXCEPT ![d] = s]

Upload(q) == \E d \in Custom, s \in Uploads : Activate(q, d) /\ Register(d, s)

UnderWay == {r \in RunIds : doing[r] \in {"pool", "saving", "orphaned"}}

\* Mutant of ClearRows: the table of resolutions is left out.
ClearOtherTables(q) ==
    /\ request[q] = "clear_rows"
    /\ wiped' = {r \in RunIds : doing[r] # "nothing"}
    /\ outlived' = outlived \cup UnderWay
    /\ uncleared' = uncleared \ {"rows"}
    /\ request' = [request EXCEPT ![q] = "clear_files"]
    /\ UNCHANGED <<runVars, saved, rows, logged, datasetVars, restarts>>

\* clear_all: the first DELETE.  The other tables are not modelled.
ClearRows(q) ==
    /\ request[q] = "clear_rows"
    /\ rows' = [t \in Tickets |-> NoRun]
    /\ wiped' = {r \in RunIds : doing[r] # "nothing"}
    /\ outlived' = outlived \cup UnderWay
    /\ uncleared' = uncleared \ {"rows"}
    /\ request' = [request EXCEPT ![q] = "clear_files"]
    /\ UNCHANGED <<runVars, saved, logged, datasetVars, restarts>>

\* The rest of clear_all, with the log, and the response.  The log is only as good
\* as the rows: a run that a failed clear has left under way writes on.
ClearFiles(q) ==
    /\ request[q] = "clear_files"
    /\ logged' = {}
    /\ uncleared' = IF "rows" \in uncleared THEN uncleared ELSE {}
    /\ request' = [request EXCEPT ![q] = "idle"]
    /\ UNCHANGED <<runVars, saved, rows, datasetVars, wiped, outlived, restarts>>

\* What a request has yet to clear.
Remaining(q) ==
    CASE request[q] = "clear_rows" -> {"rows", "log"}
      [] request[q] = "clear_files" -> {"log"}
      [] OTHER -> {}

\* A DELETE finds the database locked, or a file cannot be written: an error
\* response.  What is cleared by then stays so, and so does the switch itself; the
\* file that fails may be the other one, after the log.
ClearFails(q) ==
    /\ request[q] \in {"clear_rows", "clear_files"}
    /\ request' = [request EXCEPT ![q] = "idle"]
    /\ uncleared' = uncleared \cup Remaining(q)
    /\ \/ UNCHANGED logged
       \/ request[q] = "clear_files" /\ logged' = {}
    /\ UNCHANGED <<runVars, saved, rows, datasetVars, wiped, outlived, restarts>>

\* The server is killed and started again: the runs it knew of, their tasks and
\* the requests under way are gone, the manifest, the store and the files are
\* there, as they were.
Restart ==
    /\ restarts < MaxRestarts
    /\ restarts' = restarts + 1
    /\ status' = [r \in RunIds |-> "unknown"]
    /\ doing' = [r \in RunIds |-> IF r \in UnderWay THEN "killed" ELSE doing[r]]
    /\ request' = [q \in Clients |-> "idle"]
    /\ uncleared' = uncleared \cup UNION {Remaining(q) : q \in Clients}
    /\ UNCHANGED <<source, work, startedAt, saved, storeVars, datasetVars,
                   wiped, outlived>>

RunStep(r) == PoolReturns(r) \/ Save(r) \/ RunDone(r) \/ RunRaises(r)
RequestStep(q) == ClearRows(q) \/ ClearFiles(q) \/ ClearFails(q)

Quiet ==
    /\ \A r \in RunIds : doing[r] \in {"over", "raised", "orphaned", "killed"}
    /\ \A q \in Clients : request[q] = "idle"
    /\ UNCHANGED vars

Next ==
    \/ \E r \in RunIds : Ingest(r) \/ LogEvent(r) \/ RunStep(r)
    \/ \E q \in Clients : Switch(q) \/ Upload(q) \/ RequestStep(q)
    \/ Restart
    \/ Quiet

\* The server finishes what it has begun; nothing makes a client ask.
Fairness ==
    /\ \A r \in RunIds : WF_vars(RunStep(r))
    /\ \A q \in Clients : WF_vars(RequestStep(q))

Spec == Init /\ [][Next]_vars
FairSpec == Spec /\ Fairness
-----------------------------------------------------------------------------
(* Properties.                                                             *)

\* A run that was reported as done has saved the resolution of each of its
\* tickets, and each has a row, the run's own or a later one, unless rows were
\* cleared since: restarts of the server lose none.
DoneMeansSaved ==
    \A r \in RunIds :
        doing[r] = "over" =>
            /\ saved[r] = Len(work[r])
            /\ r \notin wiped =>
                  \A i \in DOMAIN work[r] : rows[work[r][i]] # NoRun

\* A switch leaves nothing behind of the runs it finds finished: once no request
\* is under way, every row, and every line of the audit log, is of a run started
\* since the last switch, or of one under way when the rows were cleared.  A clear
\* that fails, or is killed, says so to its client; what it has left, the rows and
\* the log or the log alone, is excepted until a later one has cleared it.
QuietSwitchIsClean ==
    LET Clean(r) == r \in outlived \/ startedAt[r] = switches IN
    (\A q \in Clients : request[q] = "idle") =>
        /\ "rows" \notin uncleared => \A r \in {rows[t] : t \in Tickets} \ {NoRun} : Clean(r)
        /\ "log" \notin uncleared => \A r \in logged : Clean(r)

\* A run works on one dataset: its rows are of tickets of the list it loaded,
\* whatever is switched or uploaded meanwhile.
RowsOfOwnTickets ==
    \A t \in Tickets :
        rows[t] # NoRun =>
            \E i \in 1 .. saved[rows[t]] : work[rows[t]][i] = t

\* In the end no run is left running for its clients: each one started was
\* reported as done, or lost in a restart, which a client that asks is told; but
\* for those whose pool or one of whose saves has raised.
RunsFinish ==
    <>[](\A r \in RunIds :
            status[r] = "running" => doing[r] \in {"raised", "orphaned"})

\* store.py:69, "so metrics reflect only the new run": no row of a run that
\* loaded another dataset than the active one.  A run under way at the switch
\* saves its rows afterwards.
MetricsOfActiveDataset ==
    (\A q \in Clients : request[q] = "idle") =>
        \A t \in Tickets :
            rows[t] # NoRun => source[rows[t]] = manifest.active
=============================================================================
