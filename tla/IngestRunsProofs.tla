-------------------------- MODULE IngestRunsProofs ---------------------------
(***************************************************************************)
(* The safety properties of IngestRuns, proved for any number of runs,     *)
(* clients, datasets, switches and restarts.                               *)
(***************************************************************************)
EXTENDS IngestRuns, Measures, TLAPS

-----------------------------------------------------------------------------
(* The inductive invariant.                                                *)

Started == {r \in RunIds : doing[r] # "nothing"}

\* The types, and that nothing is known of a run that was not started.
RunTypes ==
    /\ TypeOK
    /\ saved \in [RunIds -> Nat]
    /\ \A r \in RunIds : doing[r] = "nothing" => saved[r] = 0
    /\ wiped \subseteq Started

\* What a run has saved since the rows were last cleared has a row.
SavedHaveRows ==
    \A r \in RunIds \ wiped :
        \A i \in 1 .. saved[r] : rows[work[r][i]] # NoRun

AllSavedWhenOver ==
    \A r \in RunIds : doing[r] = "over" => saved[r] = Len(work[r])

\* Runs that may have rows after a switch and its clear.
Current(r) == r \in outlived \/ startedAt[r] = switches

RowRuns == {rows[t] : t \in Tickets} \ {NoRun}

\* Once every switch is followed by its first deletion, the runs under way and
\* those with rows are current; the log is so once the second is done too.  What
\* leaves rows leaves the log.
CurrentRuns ==
    /\ "rows" \in uncleared => "log" \in uncleared
    /\ "rows" \notin uncleared /\ (\A q \in Clients : request[q] # "clear_rows") =>
          \A r \in UnderWay \cup RowRuns : Current(r)
    /\ "log" \notin uncleared /\ (\A q \in Clients : request[q] = "idle") =>
          \A r \in logged : Current(r)

RunInv ==
    /\ RunTypes
    /\ SavedHaveRows
    /\ AllSavedWhenOver
    /\ CurrentRuns
    /\ RowsOfOwnTickets

LEMMA InitRuns == Init => RunInv
<1> SUFFICES ASSUME Init PROVE RunInv
  OBVIOUS
<1> USE RunsAssumption DEF Init
<1>1. RowRuns = {} /\ UnderWay = {} /\ Started = {}
  BY DEF RowRuns, UnderWay, Started
<1>2. files \in [Datasets -> Seq(Tickets)]
  BY DEF Datasets
<1>3. work \in [RunIds -> Seq(Tickets)] /\ \A r \in RunIds : Len(work[r]) = 0
  OBVIOUS
<1>4. RunTypes
  <2>1. /\ manifest \in [active: Datasets, available: SUBSET Datasets]
        /\ manifest.active \in manifest.available
    BY DEF Datasets
  <2>2. /\ \A r \in RunIds : saved[r] \in 0 .. Len(work[r])
        /\ saved \in [RunIds -> Nat]
    BY <1>3
  <2>3. rows \in [Tickets -> RunIds \cup {NoRun}] /\ startedAt \in [RunIds -> 0 .. MaxSwitches]
    OBVIOUS
  <2>4. /\ wiped = {} /\ outlived = {} /\ logged = {} /\ uncleared = {}
        /\ restarts \in 0 .. MaxRestarts /\ switches \in 0 .. MaxSwitches
    OBVIOUS
  <2>5. TypeOK
    BY <1>2, <1>3, <2>1, <2>2, <2>3, <2>4 DEF TypeOK
  <2> QED BY <2>2, <2>4, <2>5 DEF RunTypes
<1>5. SavedHaveRows /\ AllSavedWhenOver /\ RowsOfOwnTickets
  BY DEF SavedHaveRows, AllSavedWhenOver, RowsOfOwnTickets
<1>6. CurrentRuns
  BY <1>1 DEF CurrentRuns
<1> QED BY <1>4, <1>5, <1>6 DEF RunInv
-----------------------------------------------------------------------------
(* Types.                                                                  *)

LEMMA ActiveType == TypeOK => ActiveDataset \in Datasets
  BY DEF TypeOK, ActiveDataset, Datasets

LEMMA StepTypes == RunTypes /\ [Next]_vars => RunTypes'
<1> SUFFICES ASSUME RunTypes, [Next]_vars PROVE RunTypes'
  OBVIOUS
<1> USE RunsAssumption
    DEF RunTypes, TypeOK, Started, runVars, storeVars, datasetVars, clearVars, historyVars
<1>1. ASSUME NEW r \in RunIds, Ingest(r) PROVE RunTypes'
  <2>1. files[ActiveDataset] \in Seq(Tickets) /\ ActiveDataset \in Datasets
    BY ActiveType
  <2>2. saved[r] = 0 /\ 0 \in 0 .. Len(files[ActiveDataset])
    BY <1>1, <2>1 DEF Ingest
  <2>3. /\ work' \in [RunIds -> Seq(Tickets)]
        /\ source' \in [RunIds -> Datasets \cup {NoDataset}]
        /\ \A u \in RunIds : saved'[u] \in 0 .. Len(work'[u])
    BY <1>1, <2>1, <2>2 DEF Ingest
  <2>4. /\ status' \in [RunIds -> {"unknown", "running", "done"}]
        /\ doing' \in [RunIds -> {"nothing", "pool", "saving", "over", "raised",
                                  "orphaned", "killed"}]
        /\ startedAt' \in [RunIds -> 0 .. MaxSwitches]
        /\ \A u \in RunIds : doing'[u] = "nothing" => doing[u] = "nothing"
    BY <1>1 DEF Ingest
  <2>5. UNCHANGED <<manifest, files, saved, rows, logged, request, switches, wiped,
                    outlived, uncleared, restarts>>
    BY <1>1 DEF Ingest
  <2> QED BY <2>3, <2>4, <2>5
<1>2. ASSUME NEW r \in RunIds, LogEvent(r) PROVE RunTypes'
  BY <1>2 DEF LogEvent
<1>3. ASSUME NEW r \in RunIds, PoolReturns(r) \/ RunDone(r) \/ RunRaises(r)
      PROVE  RunTypes'
  <2>1. /\ doing[r] # "nothing"
        /\ \E s \in {"saving", "over", "raised", "orphaned"} :
              doing' = [doing EXCEPT ![r] = s]
        /\ status' = status \/ status' = [status EXCEPT ![r] = "done"]
    BY <1>3 DEF PoolReturns, RunDone, RunRaises
  <2>2. /\ status' \in [RunIds -> {"unknown", "running", "done"}]
        /\ doing' \in [RunIds -> {"nothing", "pool", "saving", "over", "raised",
                                  "orphaned", "killed"}]
        /\ \A u \in RunIds : doing'[u] = "nothing" <=> doing[u] = "nothing"
    <3>1. doing \in [RunIds -> {"nothing", "pool", "saving", "over", "raised",
                               "orphaned", "killed"}]
      OBVIOUS
    <3>2. PICK s \in {"saving", "over", "raised", "orphaned"} :
             doing' = [doing EXCEPT ![r] = s]
      BY <2>1
    <3>3. status' \in [RunIds -> {"unknown", "running", "done"}]
      BY <2>1
    <3> HIDE DEF RunTypes, TypeOK
    <3> QED BY <2>1, <3>1, <3>2, <3>3
  <2>3. UNCHANGED <<manifest, files, source, work, saved, rows, logged, request,
                    switches, startedAt, wiped, outlived, uncleared, restarts>>
    BY <1>3 DEF PoolReturns, RunDone, RunRaises
  <2> QED BY <2>2, <2>3
<1>4. ASSUME NEW r \in RunIds, Save(r) PROVE RunTypes'
  <2>1. /\ saved[r] + 1 \in 0 .. Len(work[r]) /\ saved'[r] = saved[r] + 1
        /\ work[r][saved[r] + 1] \in Tickets
    BY <1>4 DEF Save
  <2>2. rows' \in [Tickets -> RunIds \cup {NoRun}]
    BY <1>4, <2>1 DEF Save
  <2>3. /\ saved' \in [RunIds -> Nat]
        /\ \A u \in RunIds : saved'[u] \in 0 .. Len(work[u])
    BY <1>4, <2>1 DEF Save
  <2> QED BY <1>4, <2>2, <2>3 DEF Save
<1>5. ASSUME NEW q \in Clients, NEW d \in Datasets, Activate(q, d),
             files' \in [Datasets -> Seq(Tickets)]
      PROVE  RunTypes'
  <2>1. switches + 1 \in 0 .. MaxSwitches
    BY <1>5 DEF Activate
  <2>2. /\ startedAt \in [RunIds -> 0 .. MaxSwitches]
        /\ manifest' \in [active: Datasets, available: SUBSET Datasets]
        /\ manifest'.active \in manifest'.available
    BY <1>5 DEF Activate
  <2> QED BY <1>5, <2>1, <2>2 DEF Activate
<1>6. ASSUME NEW q \in Clients, Switch(q) \/ Upload(q) PROVE RunTypes'
  <2>1. CASE Switch(q)
    BY <1>5, <2>1 DEF Switch
  <2>2. CASE Upload(q)
    <3>1. PICK d \in Custom, s \in Uploads : Activate(q, d) /\ Register(d, s)
      BY <2>2 DEF Upload
    <3>2. files' \in [Datasets -> Seq(Tickets)]
      BY <3>1 DEF Register
    <3> QED BY <1>5, <3>1, <3>2 DEF Datasets
  <2> QED BY <1>6, <2>1, <2>2
<1>7. ASSUME NEW q \in Clients, RequestStep(q) PROVE RunTypes'
  <2>1. CASE ClearRows(q)
    BY <2>1 DEF ClearRows, UnderWay
  <2>2. CASE ClearFiles(q)
    BY <2>2 DEF ClearFiles
  <2>3. CASE ClearFails(q)
    BY <2>3 DEF ClearFails, Remaining
  <2> QED BY <1>7, <2>1, <2>2, <2>3 DEF RequestStep
<1>8. CASE Restart
  <2>1. /\ restarts' \in 0 .. MaxRestarts
        /\ \A r \in RunIds : doing'[r] = "nothing" <=> doing[r] = "nothing"
        /\ doing' \in [RunIds -> {"nothing", "pool", "saving", "over", "raised",
                                  "orphaned", "killed"}]
    BY <1>8 DEF Restart, UnderWay
  <2>2. uncleared' \subseteq {"rows", "log"}
    BY <1>8 DEF Restart, Remaining
  <2> QED BY <1>8, <2>1, <2>2 DEF Restart
<1>9. CASE Quiet \/ UNCHANGED vars
  BY <1>9 DEF Quiet, vars
<1> QED
  BY <1>1, <1>2, <1>3, <1>4, <1>6, <1>7, <1>8, <1>9 DEF Next, RunStep

-----------------------------------------------------------------------------
(* Rows.                                                                   *)

\* What a run has saved, and whose the rows are.
RowsInv == SavedHaveRows /\ AllSavedWhenOver /\ RowsOfOwnTickets

LEMMA StepRows == RunTypes /\ RowsInv /\ [Next]_vars => RowsInv'
<1> SUFFICES ASSUME RunTypes, RowsInv, [Next]_vars PROVE RowsInv'
  OBVIOUS
<1> USE DEF runVars, storeVars, datasetVars, clearVars, historyVars
<1> USE DEF RowsInv, SavedHaveRows, AllSavedWhenOver, RowsOfOwnTickets
<1>0. /\ saved \in [RunIds -> Nat] /\ doing \in [RunIds -> {"nothing", "pool",
           "saving", "over", "raised", "orphaned", "killed"}]
      /\ rows \in [Tickets -> RunIds \cup {NoRun}]
      /\ work \in [RunIds -> Seq(Tickets)]
      /\ \A r \in RunIds : saved[r] \in 0 .. Len(work[r])
      /\ \A r \in RunIds : doing[r] = "nothing" => saved[r] = 0
      /\ wiped \subseteq RunIds
  BY DEF RunTypes, TypeOK
<1>1. ASSUME NEW r \in RunIds, Ingest(r) PROVE RowsInv'
  <2>1. /\ saved[r] = 0 /\ \A u \in RunIds \ {r} : work'[u] = work[u]
        /\ \A u \in RunIds : doing'[u] = "over" => u # r /\ doing[u] = "over"
        /\ UNCHANGED <<saved, rows, wiped>>
    BY <1>0, <1>1 DEF Ingest
  <2>2. \A t \in Tickets : rows[t] # r
    BY <2>1, RunsAssumption
  <2>3. SavedHaveRows'
    <3> SUFFICES ASSUME NEW u \in RunIds \ wiped, NEW i \in 1 .. saved[u]
                 PROVE  rows[work'[u][i]] # NoRun
      BY <2>1
    <3>1. u # r
      BY <2>1
    <3> QED BY <2>1, <3>1
  <2>4. AllSavedWhenOver'
    BY <2>1
  <2>5. RowsOfOwnTickets'
    <3> SUFFICES ASSUME NEW t \in Tickets, rows[t] # NoRun
                 PROVE  \E i \in 1 .. saved[rows[t]] : work'[rows[t]][i] = t
      BY <2>1
    <3>1. rows[t] \in RunIds \ {r}
      BY <1>0, <2>2
    <3> QED BY <2>1, <3>1
  <2> QED BY <2>3, <2>4, <2>5
<1>2. ASSUME NEW r \in RunIds, Save(r) PROVE RowsInv'
  <2> DEFINE t0 == work[r][saved[r] + 1]
  <2>1. /\ saved[r] + 1 \in 1 .. Len(work[r]) /\ t0 \in Tickets
        /\ saved'[r] = saved[r] + 1 /\ doing[r] = "saving"
        /\ \A u \in RunIds \ {r} : saved'[u] = saved[u]
        /\ rows'[t0] = r /\ \A t \in Tickets \ {t0} : rows'[t] = rows[t]
        /\ UNCHANGED <<work, doing, wiped>>
    BY <1>0, <1>2 DEF Save
  <2> HIDE DEF t0
  <2>2. r # NoRun
    BY RunsAssumption
  <2>3. SavedHaveRows'
    <3> SUFFICES ASSUME NEW u \in RunIds \ wiped, NEW i \in 1 .. saved'[u]
                 PROVE  rows'[work[u][i]] # NoRun
      BY <2>1
    <3>1. CASE u = r /\ i = saved[r] + 1
      BY <2>1, <2>2, <3>1 DEF t0
    <3>2. CASE ~(u = r /\ i = saved[r] + 1)
      <4>1. i \in 1 .. saved[u]
        BY <1>0, <2>1, <3>2
      <4>2. work[u][i] \in Tickets /\ rows[work[u][i]] # NoRun
        BY <1>0, <4>1
      <4> QED BY <2>1, <2>2, <4>2
    <3> QED BY <3>1, <3>2
  <2>4. AllSavedWhenOver'
    BY <2>1
  <2>5. RowsOfOwnTickets'
    <3> SUFFICES ASSUME NEW t \in Tickets, rows'[t] # NoRun
                 PROVE  \E i \in 1 .. saved'[rows'[t]] : work[rows'[t]][i] = t
      BY <2>1
    <3>1. CASE t = t0
      BY <1>0, <2>1, <3>1 DEF t0
    <3>2. CASE t # t0
      <4>1. rows'[t] = rows[t] /\ rows[t] \in RunIds
        BY <1>0, <2>1, <3>2
      <4>2. PICK i \in 1 .. saved[rows[t]] : work[rows[t]][i] = t
        BY <4>1
      <4>3. i \in 1 .. saved'[rows[t]]
        <5>1. saved[rows[t]] \in Nat /\ saved[r] \in Nat
          BY <1>0, <4>1
        <5>2. CASE rows[t] = r
          BY <2>1, <4>2, <5>1, <5>2
        <5>3. CASE rows[t] # r
          BY <2>1, <4>1, <4>2, <5>3
        <5> QED BY <5>2, <5>3
      <4> QED BY <4>1, <4>2, <4>3
    <3> QED BY <3>1, <3>2
  <2> QED BY <2>3, <2>4, <2>5
<1>3. ASSUME NEW r \in RunIds, LogEvent(r) \/ PoolReturns(r) \/ RunDone(r) \/ RunRaises(r)
      PROVE  RowsInv'
  <2>1. /\ UNCHANGED <<work, saved, rows, wiped>>
        /\ \A u \in RunIds : doing'[u] = "over" => doing[u] = "over" \/ saved[u] = Len(work[u])
    BY <1>0, <1>3 DEF LogEvent, PoolReturns, RunDone, RunRaises
  <2> QED BY <2>1
\* Clearing the rows wipes every run that has any.
<1>4. ASSUME NEW q \in Clients, ClearRows(q) PROVE RowsInv'
  <2>1. /\ wiped' = Started /\ \A t \in Tickets : rows'[t] = NoRun
        /\ UNCHANGED <<work, saved, doing>>
    BY <1>4 DEF ClearRows, Started
  <2>2. \A r \in RunIds \ Started : saved[r] = 0
    BY <1>0 DEF Started
  <2> QED BY <2>1, <2>2
<1>5. ASSUME NEW q \in Clients, Switch(q) \/ Upload(q) \/ ClearFiles(q) \/ ClearFails(q)
      PROVE  RowsInv'
  BY <1>5 DEF Switch, Upload, Activate, ClearFiles, ClearFails
<1>6. CASE Restart
  <2>1. /\ UNCHANGED <<work, saved, rows, wiped>>
        /\ \A u \in RunIds : doing'[u] = "over" => doing[u] = "over"
    BY <1>6 DEF Restart
  <2> QED BY <2>1
<1>7. CASE Quiet \/ UNCHANGED vars
  BY <1>7 DEF Quiet, vars
<1> QED
  BY <1>1, <1>2, <1>3, <1>4, <1>5, <1>6, <1>7 DEF Next, RunStep, RequestStep
-----------------------------------------------------------------------------
(* Switches.                                                               *)

\* Where no row, log line or run under way is new and no request comes to an end.
LEMMA CurrentLeftAlone ==
    ASSUME CurrentRuns, UNCHANGED uncleared,
           UnderWay' \subseteq UnderWay, RowRuns' \subseteq RowRuns,
           logged' \subseteq logged, outlived \subseteq outlived',
           UNCHANGED <<startedAt, switches, request>>
    PROVE  CurrentRuns'
  BY DEF CurrentRuns, Current

LEMMA StepCurrent == RunTypes /\ CurrentRuns /\ [Next]_vars => CurrentRuns'
<1> SUFFICES ASSUME RunTypes, CurrentRuns, [Next]_vars PROVE CurrentRuns'
  OBVIOUS
<1> USE DEF runVars, storeVars, datasetVars, clearVars, historyVars
<1>0. /\ doing \in [RunIds -> {"nothing", "pool", "saving", "over", "raised",
                                "orphaned", "killed"}]
      /\ rows \in [Tickets -> RunIds \cup {NoRun}]
      /\ work \in [RunIds -> Seq(Tickets)]
      /\ request \in [Clients -> {"idle", "clear_rows", "clear_files"}]
      /\ startedAt \in [RunIds -> 0 .. MaxSwitches]
      /\ logged \subseteq RunIds /\ uncleared \subseteq {"rows", "log"}
      /\ \A r \in RunIds : saved[r] \in 0 .. Len(work[r])
      /\ Started \subseteq RunIds
  BY DEF RunTypes, TypeOK, Started
<1>1. ASSUME NEW r \in RunIds, Ingest(r) PROVE CurrentRuns'
  <2>1. /\ UnderWay' \subseteq UnderWay \cup {r}
        /\ startedAt'[r] = switches
        /\ \A u \in RunIds \ {r} : startedAt'[u] = startedAt[u]
        /\ UNCHANGED <<rows, logged, request, switches, outlived, uncleared>>
    BY <1>0, <1>1 DEF Ingest, UnderWay
  <2>2. RowRuns' = RowRuns /\ RowRuns \subseteq RunIds /\ UnderWay \subseteq RunIds
    BY <1>0, <2>1 DEF RowRuns, UnderWay
  <2>3. \A u \in RunIds : Current(u) => Current(u)'
    BY <2>1 DEF Current
  <2>4. Current(r)'
    BY <2>1 DEF Current
  <2> QED BY <1>0, <2>1, <2>2, <2>3, <2>4 DEF CurrentRuns
<1>2. ASSUME NEW r \in RunIds, LogEvent(r) PROVE CurrentRuns'
  <2>1. /\ r \in UnderWay /\ logged' = logged \cup {r}
        /\ UNCHANGED <<doing, rows, startedAt, request, switches, outlived, uncleared>>
    BY <1>2 DEF LogEvent, UnderWay
  <2>2. RowRuns' = RowRuns /\ UnderWay' = UnderWay
    BY <2>1 DEF RowRuns, UnderWay
  <2> QED BY <2>1, <2>2 DEF CurrentRuns, Current
<1>3. ASSUME NEW r \in RunIds, Save(r) PROVE CurrentRuns'
  <2>1. /\ r \in UnderWay
        /\ UNCHANGED <<doing, logged, startedAt, request, switches, outlived, uncleared>>
    BY <1>3 DEF Save, UnderWay
  <2>2. RowRuns' \subseteq RowRuns \cup {r} /\ UnderWay' = UnderWay
    BY <1>0, <1>3, <2>1 DEF Save, RowRuns, UnderWay
  <2> QED BY <2>1, <2>2 DEF CurrentRuns, Current
<1>4. ASSUME NEW r \in RunIds, PoolReturns(r) \/ RunDone(r) \/ RunRaises(r)
      PROVE  CurrentRuns'
  <2>1. UNCHANGED <<rows, logged, startedAt, request, switches, outlived, uncleared>>
    BY <1>4 DEF PoolReturns, RunDone, RunRaises
  <2>2. UnderWay' \subseteq UnderWay
    BY <1>0, <1>4 DEF PoolReturns, RunDone, RunRaises, UnderWay
  <2>3. RowRuns' = RowRuns
    BY <2>1 DEF RowRuns
  <2> QED BY <1>0, <2>1, <2>2, <2>3, CurrentLeftAlone
\* After a switch nothing is claimed until its request has deleted the rows.
<1>5. ASSUME NEW q \in Clients, Switch(q) \/ Upload(q) PROVE CurrentRuns'
  <2>1. request'[q] = "clear_rows" /\ UNCHANGED uncleared
    BY <1>0, <1>5 DEF Switch, Upload, Activate
  <2> QED BY <2>1 DEF CurrentRuns
<1>6. ASSUME NEW q \in Clients, ClearRows(q) PROVE CurrentRuns'
  <2>1. /\ request'[q] = "clear_files" /\ RowRuns' = {}
        /\ outlived' = outlived \cup UnderWay /\ UnderWay' = UnderWay
        /\ uncleared' = uncleared \ {"rows"}
    BY <1>0, <1>6 DEF ClearRows, RowRuns, UnderWay
  <2> QED BY <2>1 DEF CurrentRuns, Current
<1>7. ASSUME NEW q \in Clients, ClearFiles(q) PROVE CurrentRuns'
  <2>1. /\ logged' = {}
        /\ request[q] = "clear_files" /\ request' = [request EXCEPT ![q] = "idle"]
        /\ uncleared' = IF "rows" \in uncleared THEN uncleared ELSE {}
        /\ UNCHANGED <<doing, rows, startedAt, switches, outlived>>
    BY <1>7 DEF ClearFiles
  <2>2. RowRuns' = RowRuns /\ UnderWay' = UnderWay
    BY <2>1 DEF RowRuns, UnderWay
  <2>3. (\A p \in Clients : request'[p] # "clear_rows") =>
           \A p \in Clients : request[p] # "clear_rows"
    BY <1>0, <2>1
  <2>4. "rows" \in uncleared' => "rows" \in uncleared /\ "log" \in uncleared'
    BY <2>1 DEF CurrentRuns
  <2>5. "rows" \notin uncleared' => "rows" \notin uncleared
    BY <2>1
  <2> QED BY <2>1, <2>2, <2>3, <2>4, <2>5 DEF CurrentRuns, Current
\* A clear that fails after the rows are deleted leaves the log to be claimed clean
\* by no one; one that fails before leaves both.
<1>8. ASSUME NEW q \in Clients, ClearFails(q) PROVE CurrentRuns'
  <2>1. /\ request[q] \in {"clear_rows", "clear_files"}
        /\ request' = [request EXCEPT ![q] = "idle"]
        /\ uncleared' = uncleared \cup Remaining(q)
        /\ UNCHANGED <<doing, rows, startedAt, switches, outlived>>
    BY <1>8 DEF ClearFails
  <2>2. RowRuns' = RowRuns /\ UnderWay' = UnderWay
    BY <2>1 DEF RowRuns, UnderWay
  <2>3. "log" \in uncleared'
    BY <2>1 DEF Remaining
  <2>4. CASE request[q] = "clear_rows"
    <3>1. "rows" \in uncleared'
      BY <2>1, <2>4 DEF Remaining
    <3> QED BY <2>3, <3>1 DEF CurrentRuns
  <2>5. CASE request[q] = "clear_files"
    <3>1. (\A p \in Clients : request'[p] # "clear_rows") =>
             \A p \in Clients : request[p] # "clear_rows"
      BY <1>0, <2>1, <2>5
    <3>2. "rows" \notin uncleared' => "rows" \notin uncleared
      BY <2>1
    <3> QED BY <2>1, <2>2, <2>3, <3>1, <3>2 DEF CurrentRuns, Current
  <2> QED BY <2>1, <2>4, <2>5
<1>9. CASE Restart
  <2>1. /\ UnderWay' = {} /\ \A q \in Clients : request'[q] = "idle"
        /\ UNCHANGED <<rows, logged, startedAt, switches, outlived>>
    BY <1>0, <1>9 DEF Restart, UnderWay
  <2>2. RowRuns' = RowRuns
    BY <2>1 DEF RowRuns
  <2>3. uncleared' = uncleared \cup UNION {Remaining(q) : q \in Clients}
    BY <1>9 DEF Restart
  <2>4. ASSUME NEW q \in Clients, request[q] = "clear_rows"
        PROVE  "rows" \in uncleared' /\ "log" \in uncleared'
    <3>1. Remaining(q) = {"rows", "log"}
      BY <2>4 DEF Remaining
    <3> QED BY <2>3, <3>1
  <2>5. ASSUME NEW q \in Clients, request[q] # "idle" PROVE "log" \in uncleared'
    <3>1. request[q] = "clear_rows" \/ request[q] = "clear_files"
      BY <1>0, <2>5
    <3>2. "log" \in Remaining(q)
      BY <3>1 DEF Remaining
    <3> QED BY <2>3, <3>2
  <2>6. "rows" \in uncleared' => "log" \in uncleared'
    <3>1. CASE "rows" \in uncleared
      BY <2>3, <3>1 DEF CurrentRuns
    <3>2. ASSUME NEW q \in Clients, "rows" \in Remaining(q) PROVE "log" \in uncleared'
      <4>1. request[q] # "idle"
        BY <3>2 DEF Remaining
      <4> QED BY <2>5, <4>1
    <3> QED BY <2>3, <3>1, <3>2
  <2>7. uncleared \subseteq uncleared'
    BY <2>3
  <2> QED BY <2>1, <2>2, <2>4, <2>5, <2>6, <2>7 DEF CurrentRuns, Current
<1>10. CASE Quiet \/ UNCHANGED vars
  BY <1>10 DEF Quiet, vars, CurrentRuns, Current, RowRuns, UnderWay
<1> QED
  BY <1>1, <1>2, <1>3, <1>4, <1>5, <1>6, <1>7, <1>8, <1>9, <1>10
  DEF Next, RunStep, RequestStep
-----------------------------------------------------------------------------
(* The theorems.                                                           *)

LEMMA RunSafety == Spec => []RunInv
<1>1. RunInv /\ [Next]_vars => RunInv'
  BY StepTypes, StepRows, StepCurrent DEF RunInv, RowsInv
<1> QED BY InitRuns, <1>1, PTL DEF Spec

\* The variables keep their types: the manifest always points at a dataset it
\* lists (switch_dataset of datastore.py), and a run saves no more
\* than its tickets.
THEOREM RunsTyped == Spec => []TypeOK
<1>1. RunInv => TypeOK
  BY DEF RunInv, RunTypes
<1> QED BY <1>1, RunSafety, PTL

\* A run whose status became done (routes.py:62) has its rows in the store, over
\* restarts of the server too, until rows are cleared.
THEOREM DoneIsSaved == Spec => []DoneMeansSaved
<1>1. RunInv => DoneMeansSaved
  <2> SUFFICES ASSUME RunInv, NEW r \in RunIds, doing[r] = "over"
               PROVE  /\ saved[r] = Len(work[r])
                      /\ r \notin wiped =>
                            \A i \in DOMAIN work[r] : rows[work[r][i]] # NoRun
    BY DEF DoneMeansSaved
  <2>1. saved[r] = Len(work[r]) /\ work[r] \in Seq(Tickets)
    BY DEF RunInv, AllSavedWhenOver, RunTypes, TypeOK
  <2> QED BY <2>1 DEF RunInv, SavedHaveRows
<1> QED BY <1>1, RunSafety, PTL

\* Once no switch or upload is under way, rows and log lines are of runs started
\* since the last one, or of runs that were under way when the rows were cleared; but
\* for what a clear that failed or was killed has left and no later one has cleared.
THEOREM SwitchesAreClean == Spec => []QuietSwitchIsClean
<1>1. RunInv => QuietSwitchIsClean
  BY DEF RunInv, CurrentRuns, Current, RowRuns, QuietSwitchIsClean
<1> QED BY <1>1, RunSafety, PTL

\* A run's rows are of the tickets it loaded (_load_tickets), whatever uploads do to
\* the file it loaded them from.
THEOREM OwnTicketsOnly == Spec => []RowsOfOwnTickets
<1>1. RunInv => RowsOfOwnTickets
  BY DEF RunInv
<1> QED BY <1>1, RunSafety, PTL
-----------------------------------------------------------------------------
(* Every run comes to an end.                                              *)

\* What the status says: running of a run whose task is there or has raised, done
\* of one that is over, unknown of one that was not started or met a restart.
StatusTells ==
    \A r \in RunIds :
        /\ status[r] = "running" => doing[r] \in {"pool", "saving", "raised", "orphaned"}
        /\ status[r] = "done" => doing[r] = "over"
        /\ doing[r] \in {"pool", "saving"} => status[r] = "running"

\* GET /ingest/{id} reports on a task that is there, over, or has raised: the status
\* that stays at running without end is that of a run whose pool or save has raised.
THEOREM StatusIsTrue == Spec => []StatusTells
<1>1. Init => StatusTells
  BY DEF Init, StatusTells
<1>2. RunInv /\ StatusTells /\ [Next]_vars => StatusTells'
  <2> SUFFICES ASSUME RunInv, StatusTells, [Next]_vars PROVE StatusTells'
    OBVIOUS
  <2> USE DEF StatusTells, RunInv, RunTypes, TypeOK
  <2>1. ASSUME NEW r \in RunIds, Ingest(r) PROVE StatusTells'
    BY <2>1 DEF Ingest
  <2>2. ASSUME NEW r \in RunIds, RunStep(r) \/ LogEvent(r) PROVE StatusTells'
    BY <2>2 DEF RunStep, PoolReturns, Save, RunDone, RunRaises, LogEvent, runVars
  <2>3. CASE Restart
    BY <2>3 DEF Restart, UnderWay
  <2>4. CASE \/ \E q \in Clients : Switch(q) \/ Upload(q) \/ RequestStep(q)
             \/ Quiet \/ UNCHANGED vars
    BY <2>4
    DEF Switch, Upload, Activate, RequestStep, ClearRows, ClearFiles, ClearFails, Quiet,
        vars, runVars
  <2> QED BY <2>1, <2>2, <2>3, <2>4 DEF Next
<1> QED BY <1>1, <1>2, RunSafety, PTL DEF Spec

DoingRank ==
    [nothing |-> 3, pool |-> 2, saving |-> 1, over |-> 0, raised |-> 0, orphaned |-> 0,
     killed |-> 0]

\* What a run has ahead of it: its start, its pool, its saves, and how many of them.
Left(r) == <<DoingRank[doing[r]], Len(work[r]) - saved[r]>>
Lefts == [1 .. 2 -> Nat]

LEMMA LeftType == RunInv => \A r \in RunIds : Left(r) \in Lefts
<1> SUFFICES ASSUME RunInv, NEW r \in RunIds PROVE Left(r) \in Lefts
  OBVIOUS
<1>1. /\ saved[r] \in 0 .. Len(work[r]) /\ Len(work[r]) \in Nat
      /\ DoingRank[doing[r]] \in Nat
  BY DEF RunInv, RunTypes, TypeOK, DoingRank
<1> QED BY <1>1 DEF Left, Lefts

LEMMA LeftTypeNext == RunInv' => (\A r \in RunIds : Left(r) \in Lefts)'
  BY LeftType, PTL

LEMMA RunGoesDown ==
    ASSUME RunInv, RunInv', NEW r \in RunIds,
           \/ DoingRank[doing'[r]] < DoingRank[doing[r]]
           \/ /\ doing'[r] = doing[r] /\ work'[r] = work[r]
              /\ saved'[r] = saved[r] + 1
    PROVE  <<Left(r)', Left(r)>> \in LexOrder(2)
<1> DEFINE f == Left(r)'
           g == Left(r)
<1>1. f \in [1 .. 2 -> Nat] /\ g \in [1 .. 2 -> Nat]
  BY LeftType, LeftTypeNext DEF Lefts
<1>2. /\ f[1] = DoingRank[doing'[r]] /\ f[2] = Len(work'[r]) - saved'[r]
      /\ g[1] = DoingRank[doing[r]] /\ g[2] = Len(work[r]) - saved[r]
  BY DEF Left
<1>3. saved[r] \in Nat /\ Len(work[r]) \in Nat
  BY DEF RunInv, RunTypes, TypeOK
<1> HIDE DEF f, g
<1>4. \E j \in 1 .. 2 : f[j] < g[j] /\ \A i \in 1 .. 2 : i < j => f[i] = g[i]
  <2>1. CASE DoingRank[doing'[r]] < DoingRank[doing[r]]
    <3>1. f[1] < g[1] /\ \A i \in 1 .. 2 : i < 1 => f[i] = g[i]
      BY <1>2, <2>1
    <3> QED BY <3>1
  <2>2. CASE doing'[r] = doing[r] /\ work'[r] = work[r] /\ saved'[r] = saved[r] + 1
    <3>1. f[2] < g[2] /\ \A i \in 1 .. 2 : i < 2 => f[i] = g[i]
      BY <1>2, <1>3, <2>2
    <3> QED BY <3>1
  <2> QED BY <2>1, <2>2
<1> QED BY <1>1, <1>4, GoesDown DEF f, g

\* A step of one run's task is none of another's.
LEMMA RunsAreApart ==
    ASSUME NEW r \in RunIds, NEW u \in RunIds \ {r}, Ingest(u) \/ RunStep(u)
    PROVE  doing'[r] = doing[r] /\ work'[r] = work[r] /\ saved'[r] = saved[r]
<1>1. CASE Ingest(u)
  <2>1. /\ doing' = [doing EXCEPT ![u] = "pool"] /\ saved' = saved
        /\ work' = [work EXCEPT ![u] = files[ActiveDataset]]
    BY <1>1 DEF Ingest
  <2> QED BY <2>1
<1>2. CASE PoolReturns(u)
  <2>1. UNCHANGED <<work, saved>> /\ doing' = [doing EXCEPT ![u] = "saving"]
    BY <1>2 DEF PoolReturns
  <2> QED BY <2>1
<1>3. CASE Save(u)
  <2>1. UNCHANGED <<doing, work>> /\ saved' = [saved EXCEPT ![u] = @ + 1]
    BY <1>3 DEF Save, runVars
  <2> QED BY <2>1
<1>4. CASE RunDone(u)
  <2>1. UNCHANGED <<work, saved>> /\ doing' = [doing EXCEPT ![u] = "over"]
    BY <1>4 DEF RunDone
  <2> QED BY <2>1
<1>5. CASE RunRaises(u)
  <2>1. UNCHANGED <<work, saved>> /\ \E s : doing' = [doing EXCEPT ![u] = s]
    BY <1>5 DEF RunRaises
  <2> QED BY <2>1
<1> QED BY <1>1, <1>2, <1>3, <1>4, <1>5 DEF RunStep

LEMMA RequestsLeaveRuns ==
    ASSUME \/ \E u \in RunIds : LogEvent(u)
           \/ \E q \in Clients : Switch(q) \/ Upload(q) \/ RequestStep(q)
           \/ Quiet \/ UNCHANGED vars
    PROVE  UNCHANGED <<doing, work, saved>>
BY DEF LogEvent, Switch, Upload, Activate, RequestStep, ClearRows, ClearFiles,
       ClearFails, Quiet, vars, runVars

\* The safety core of RunsFinish, for any number of runs, clients and switches: each
\* step of a run's task uses up some of what the run has left, in an order in which
\* nothing goes down for ever, and nothing else, neither another run nor a switch, an
\* upload, a clear or a restart, gives a run more to do.  So a task that the event loop
\* runs comes to its end, whatever clients ask of the server meanwhile.
THEOREM RunsRunOut ==
    /\ IsWellFoundedOn(LexOrder(2), Lefts)
    /\ Spec => [](\A r \in RunIds : Left(r) \in Lefts)
    /\ Spec => [][\A r \in RunIds :
                     /\ Left(r)' = Left(r) \/ <<Left(r)', Left(r)>> \in LexOrder(2)
                     /\ RunStep(r) => <<Left(r)', Left(r)>> \in LexOrder(2)]_vars
<1>1. RunInv /\ RunInv' /\ [Next]_vars =>
         [\A r \in RunIds :
             /\ Left(r)' = Left(r) \/ <<Left(r)', Left(r)>> \in LexOrder(2)
             /\ RunStep(r) => <<Left(r)', Left(r)>> \in LexOrder(2)]_vars
  <2> SUFFICES ASSUME RunInv, RunInv', [Next]_vars, NEW r \in RunIds
               PROVE  /\ Left(r)' = Left(r) \/ <<Left(r)', Left(r)>> \in LexOrder(2)
                      /\ RunStep(r) => <<Left(r)', Left(r)>> \in LexOrder(2)
    OBVIOUS
  <2> USE DEF RunInv, RunTypes, TypeOK, DoingRank
  <2>1. ASSUME RunStep(r) PROVE <<Left(r)', Left(r)>> \in LexOrder(2)
    <3>1. CASE Save(r)
      <4>1. /\ doing'[r] = doing[r] /\ work'[r] = work[r]
            /\ saved'[r] = saved[r] + 1
        BY <3>1 DEF Save, runVars
      <4> HIDE DEF RunInv, RunTypes, TypeOK, DoingRank
      <4> QED BY <4>1, RunGoesDown
    <3>2. CASE PoolReturns(r) \/ RunDone(r) \/ RunRaises(r)
      <4>1. DoingRank[doing'[r]] < DoingRank[doing[r]]
        BY <3>2 DEF PoolReturns, RunDone, RunRaises
      <4> QED BY <4>1, RunGoesDown
    <3> QED BY <2>1, <3>1, <3>2 DEF RunStep
  <2>2. CASE Ingest(r)
    <3>1. DoingRank[doing'[r]] < DoingRank[doing[r]]
      BY <2>2 DEF Ingest
    <3> QED BY <2>1, <3>1, RunGoesDown
  <2>3. CASE Restart
    <3>1. CASE r \in UnderWay
      <4>1. DoingRank[doing'[r]] < DoingRank[doing[r]] \/ doing[r] = "orphaned"
        BY <2>3, <3>1 DEF Restart, UnderWay
      <4>2. CASE doing[r] = "orphaned"
        BY <2>1, <2>3, <4>2 DEF Restart, UnderWay, Left
      <4> QED BY <2>1, <4>1, <4>2, RunGoesDown
    <3>2. CASE r \notin UnderWay
      BY <2>1, <2>3, <3>2 DEF Restart, Left
    <3> QED BY <3>1, <3>2
  <2>4. ASSUME NEW u \in RunIds \ {r}, Ingest(u) \/ RunStep(u)
        PROVE  Left(r)' = Left(r)
    BY <2>4, RunsAreApart DEF Left
  <2>5. CASE \/ \E u \in RunIds : LogEvent(u)
             \/ \E q \in Clients : Switch(q) \/ Upload(q) \/ RequestStep(q)
             \/ Quiet \/ UNCHANGED vars
    <3>1. UNCHANGED <<doing, work, saved>>
      BY <2>5, RequestsLeaveRuns
    <3>2. Left(r)' = Left(r)
      BY <3>1 DEF Left
    <3> QED BY <2>1, <3>2
  <2> HIDE DEF RunInv, RunTypes, TypeOK, DoingRank
  <2>6. \/ Ingest(r) \/ RunStep(r) \/ Restart
        \/ \E u \in RunIds \ {r} : Ingest(u) \/ RunStep(u)
        \/ \E u \in RunIds : LogEvent(u)
        \/ \E q \in Clients : Switch(q) \/ Upload(q) \/ RequestStep(q)
        \/ Quiet \/ UNCHANGED vars
    BY DEF Next
  <2>7. CASE \E u \in RunIds \ {r} : Ingest(u) \/ RunStep(u)
    BY <2>1, <2>4, <2>7
  <2> QED BY <2>1, <2>2, <2>3, <2>5, <2>6, <2>7
<1>2. IsWellFoundedOn(LexOrder(2), Lefts)
  BY LexWellFounded DEF Lefts
<1>3. Spec => [](\A r \in RunIds : Left(r) \in Lefts)
  BY LeftType, RunSafety, PTL
<1>4. Spec => [][\A r \in RunIds :
                   /\ Left(r)' = Left(r) \/ <<Left(r)', Left(r)>> \in LexOrder(2)
                   /\ RunStep(r) => <<Left(r)', Left(r)>> \in LexOrder(2)]_vars
  BY <1>1, RunSafety, PTL DEF Spec
<1> QED BY <1>2, <1>3, <1>4
=============================================================================
