-------------------------- MODULE AuditStoreProofs ---------------------------
(***************************************************************************)
(* What AuditStore promises of its tables, its metrics and the demo's      *)
(* artifact, proved for any number of runs, requests, tickets and kills.   *)
(***************************************************************************)
EXTENDS AuditStore, FiniteSetTheorems, TLAPS

-----------------------------------------------------------------------------
(* The inductive invariant.                                                *)

StoreTypes ==
    /\ resolutions \in [Tickets -> 0 .. MaxCalls \cup {NoRow}]
    /\ toolCalls \in [Tickets -> Nat]
    /\ lock \in Writers \cup {Nobody}
    /\ lock # Nobody => Saving(lock)
    /\ open \in [cnt: 0 .. MaxCalls, done: 0 .. MaxCalls]
    /\ doing \in [Writers -> {"saving", "exporting", "writing", "over", "raised",
                            "killed"}]
    /\ saved \in [Writers -> Nat]
    /\ request \in [Requests -> {"idle", "clear_rows", "clear_calls", "average",
                              "total", "export", "writing", "over", "killed"}]
    /\ view \in [Requests \cup {Demo} -> SUBSET Tickets]
    /\ report \in [Requests -> [counted: Nat, total: Nat]]

\* While a clear is between its two DELETEs, every row was saved since the first.
TornWhileClearing == Clearing => HasRow \subseteq torn

\* A count that no clear overtook is no more than the rows there are, and then
\* than their total.
CountsAreLow ==
    \A q \in Requests :
        q \notin emptied =>
            /\ request[q] \in {"average", "total"} =>
                  report[q].counted <= Cardinality(HasRow)
            /\ request[q] \notin {"average", "total", "killed"} =>
                  report[q].counted <= report[q].total

\* The tickets the demo has saved.
DemosTickets == {Work[Demo][i] : i \in 1 .. saved[Demo]}

\* Until rows were cleared, the demo's are in the table, in what it reads once it
\* has saved them all, and in what a request has read since the last commit.
DemosRowsStay ==
    ~wiped =>
        /\ saved[Demo] <= Len(Work[Demo])
        /\ DemosTickets \subseteq HasRow
        /\ \A q \in Requests :
              request[q] \in {"export", "writing"} /\ q \notin behind =>
                  DemosTickets \subseteq view[q]
        /\ doing[Demo] \in {"exporting", "writing", "over"} =>
              saved[Demo] = Len(Work[Demo])
        /\ doing[Demo] \in {"exporting", "writing"} => DemosTickets \subseteq view[Demo]
        /\ doing[Demo] \in {"writing", "over"} /\ ~stale /\ artifact # Broken =>
              DemosTickets \subseteq artifact

\* Since the demo has opened the file, only the server can have broken it.
BrokenByServer ==
    /\ doing[Demo] \in {"writing", "over"} /\ ServerWriting => opened # "demo"
    /\ doing[Demo] = "over" /\ artifact = Broken => opened # "demo"

StoreInv ==
    /\ StoreTypes
    /\ TornWhileClearing
    /\ CallsBacked
    /\ CountsAreLow
    /\ DemosRowsStay
    /\ BrokenByServer

LEMMA InitStore == Init => StoreInv
<1> SUFFICES ASSUME Init PROVE StoreInv
  OBVIOUS
<1> USE StoreAssumption DEF Init
<1>1. HasRow = {} /\ ~Clearing
  BY DEF HasRow, Clearing
<1>2. StoreTypes
  BY DEF StoreTypes, NoTransaction, Writers
<1>3. TornWhileClearing /\ CallsBacked /\ CountsAreLow
  BY <1>1 DEF TornWhileClearing, CallsBacked, CountsAreLow
<1>4. saved[Demo] = 0 /\ doing[Demo] = "saving" /\ Len(Work[Demo]) \in Nat
  BY DEF Writers
<1>5. DemosTickets = {}
  BY <1>4 DEF DemosTickets
<1>6. DemosRowsStay
  BY <1>4, <1>5 DEF DemosRowsStay
<1>7. BrokenByServer
  BY <1>4 DEF BrokenByServer
<1> QED BY <1>2, <1>3, <1>6, <1>7 DEF StoreInv
-----------------------------------------------------------------------------
(* Types.                                                                  *)

\* The ticket of a save under way, and how far its run is.
LEMMA TicketType ==
    ASSUME StoreTypes, NEW w \in Writers, Saving(w)
    PROVE  /\ Ticket(w) \in Tickets
           /\ saved[w] + 1 \in 1 .. Len(Work[w])
  BY StoreAssumption DEF StoreTypes, Saving, Ticket

LEMMA StepStoreTypes == StoreTypes /\ [Next]_vars => StoreTypes'
<1> SUFFICES ASSUME StoreTypes, [Next]_vars PROVE StoreTypes'
  OBVIOUS
<1> USE StoreAssumption DEF StoreTypes, tables, writing, reading, file, history, Saving
<1>1. ASSUME NEW w \in Writers, BeginSave(w) PROVE StoreTypes'
  BY <1>1 DEF BeginSave
<1>2. ASSUME NEW w \in Writers, InsertCall(w) PROVE StoreTypes'
  <2>1. open.done + 1 \in 0 .. MaxCalls
    BY <1>2 DEF InsertCall
  <2> QED BY <1>2, <2>1 DEF InsertCall
<1>3. ASSUME NEW w \in Writers, Commit(w) PROVE StoreTypes'
  <2>1. Saving(w)
    BY <1>3 DEF Commit, Writers
  <2>2. /\ Ticket(w) \in Tickets /\ open.cnt \in 0 .. MaxCalls
        /\ toolCalls[Ticket(w)] + open.cnt \in Nat
    BY <2>1, TicketType
  <2>3. /\ resolutions' \in [Tickets -> 0 .. MaxCalls \cup {NoRow}]
        /\ toolCalls' \in [Tickets -> Nat]
    BY <1>3, <2>2 DEF Commit
  <2>4. saved' \in [Writers -> Nat]
    BY <1>3 DEF Commit
  <2>5. /\ lock' = Nobody /\ open' = [cnt |-> 0, done |-> 0]
        /\ UNCHANGED <<doing, request, view, report>>
    BY <1>3 DEF Commit, Release, NoTransaction
  <2> QED BY <2>3, <2>4, <2>5
<1>4. ASSUME NEW w \in Writers, SaveFails(w) PROVE StoreTypes'
  BY <1>4 DEF SaveFails, Release, NoTransaction
<1>5. ASSUME NEW w \in Writers, LockTimesOut(w) PROVE StoreTypes'
  BY <1>5 DEF LockTimesOut
<1>6. ASSUME NEW w \in Writers, AllSaved(w) PROVE StoreTypes'
  <2>1. lock # w
    BY <1>6 DEF AllSaved
  <2>2. view' \in [Requests \cup {Demo} -> SUBSET Tickets]
    BY <1>6 DEF AllSaved, HasRow
  <2> QED BY <1>6, <2>1, <2>2 DEF AllSaved
<1>7. CASE DemoStep
  BY <1>7 DEF DemoStep, DemoOpens, DemoExports, DemoExportFails, WritesFile, Forgets,
              Writers
<1>8. ASSUME NEW q \in Requests, ClearStep(q) PROVE StoreTypes'
  <2>1. CASE BeginClear(q)
    BY <2>1 DEF BeginClear, Goes
  <2>2. CASE ClearRows(q)
    BY <2>2 DEF ClearRows, Goes
  <2>3. CASE ClearCalls(q)
    BY <2>3 DEF ClearCalls, Goes
  <2>4. CASE ClearFails(q)
    BY <2>4 DEF ClearFails, Goes
  <2> QED BY <1>8, <2>1, <2>2, <2>3, <2>4 DEF ClearStep
<1>9. Cardinality(HasRow) \in Nat
  BY FS_Subset, FS_CardinalityType DEF HasRow
<1>10. ASSUME NEW q \in Requests, ReadStep(q) PROVE StoreTypes'
  <2>1. CASE CountByStatus(q)
    BY <1>9, <2>1 DEF CountByStatus, Goes
  <2>2. CASE Average(q)
    BY <2>2 DEF Average, Goes
  <2>3. CASE CountAll(q)
    BY <1>9, <2>3 DEF CountAll, Goes
  <2> QED BY <1>10, <2>1, <2>2, <2>3 DEF ReadStep
<1>14. ASSUME NEW q \in Requests, ExportStep(q) PROVE StoreTypes'
  <2>1. CASE ReadRows(q)
    BY <2>1 DEF ReadRows, Goes, HasRow
  <2>2. CASE OpenArtifact(q)
    BY <2>2 DEF OpenArtifact, Goes
  <2>3. CASE WriteArtifact(q)
    BY <2>3 DEF WriteArtifact, WritesFile, Forgets, Goes
  <2>4. CASE ExportFails(q)
    BY <2>4 DEF ExportFails, Forgets, Goes
  <2> QED BY <1>14, <2>1, <2>2, <2>3, <2>4 DEF ExportStep
<1>11. CASE ServerKilled
  <2>1. lock' # Nobody => lock' = lock /\ lock \notin Runs
    BY <1>11 DEF ServerKilled, Release
  <2>2. lock' # Nobody => Saving(lock)'
    BY <1>11, <2>1 DEF ServerKilled, Writers
  <2>3. open' \in [cnt: 0 .. MaxCalls, done: 0 .. MaxCalls] /\ lock' \in Writers \cup {Nobody}
    BY <1>11 DEF ServerKilled, Release, NoTransaction
  <2>4. /\ doing' \in [Writers -> {"saving", "exporting", "writing", "over", "raised",
                                   "killed"}]
        /\ request' \in [Requests -> {"idle", "clear_rows", "clear_calls", "average",
                                     "total", "export", "writing", "over", "killed"}]
        /\ view' \in [Requests \cup {Demo} -> SUBSET Tickets]
    BY <1>11 DEF ServerKilled
  <2> QED BY <1>11, <2>2, <2>3, <2>4 DEF ServerKilled
<1>12. CASE DemoKilled
  BY <1>12 DEF DemoKilled, Forgets, Release, NoTransaction, Writers
<1>13. CASE Quiet \/ UNCHANGED vars
  BY <1>13 DEF Quiet, vars
<1> QED
  BY <1>1, <1>2, <1>3, <1>4, <1>5, <1>6, <1>7, <1>8, <1>10, <1>11, <1>12, <1>13, <1>14
  DEF Next, SaveStep, DemoStep

-----------------------------------------------------------------------------
(* The rest of the types, and how many tool calls a ticket can have.       *)

OtherTypes ==
    /\ open.done <= open.cnt
    /\ lock = Nobody => open = NoTransaction
    /\ \A w \in Writers : saved[w] <= Len(Work[w])
    /\ artifact # Broken => artifact \in SUBSET Tickets
    /\ opened \in {"demo", "server", "both"}
    /\ \A q \in Requests : /\ report[q].counted <= Cardinality(Tickets)
                           /\ report[q].total <= Cardinality(Tickets)
    /\ crashes \in 0 .. MaxCrashes
    /\ torn \subseteq Tickets
    /\ emptied \subseteq Requests
    /\ behind \subseteq Requests \cup {Demo}
    /\ wiped \in BOOLEAN /\ stale \in BOOLEAN

\* The saves of a ticket that are committed: each has added at most MaxCalls.
Committed(t) == {s \in Saves(t) : s[2] <= saved[s[1]]}

CallsBySaves == \A t \in Tickets : toolCalls[t] <= MaxCalls * Cardinality(Committed(t))

\* A ticket has finitely many saves, committed or not.
LEMMA SavesFinite ==
    ASSUME NEW t
    PROVE  IsFiniteSet(Saves(t)) /\ IsFiniteSet(Committed(t))
<1> DEFINE Of(w) == {<<w, i>> : i \in {j \in DOMAIN Work[w] : Work[w][j] = t}}
           f == [w \in Writers |-> Of(w)]
           R == {Of(w) : w \in Writers}
<1>1. IsFiniteSet(Writers)
  BY StoreAssumption, FS_AddElement DEF Writers
<1>2. f \in Surjection(Writers, R)
  BY DEF Surjection
<1>3. IsFiniteSet(R)
  BY <1>1, <1>2, FS_Surjection
<1>4. ASSUME NEW w \in Writers PROVE IsFiniteSet(Of(w))
  <2>1. Len(Work[w]) \in Nat /\ DOMAIN Work[w] = 1 .. Len(Work[w])
    BY StoreAssumption
  <2>2. IsFiniteSet(DOMAIN Work[w]) /\ IsFiniteSet({w})
    <3>1. IsFiniteSet(1 .. Len(Work[w]))
      BY <2>1, FS_Interval
    <3>2. IsFiniteSet({w})
      BY FS_Singleton
    <3> QED BY <2>1, <3>1, <3>2
  <2>3. IsFiniteSet({w} \X DOMAIN Work[w])
    BY <2>2, FS_Product
  <2>4. Of(w) \in SUBSET ({w} \X DOMAIN Work[w])
    OBVIOUS
  <2> QED BY <2>3, <2>4, FS_Subset
<1>5. IsFiniteSet(UNION R)
  BY <1>3, <1>4, FS_UNION
<1>6. UNION R = Saves(t)
  BY DEF Saves
<1>7. Committed(t) \in SUBSET Saves(t)
  BY DEF Committed
<1> HIDE DEF R
<1> QED BY <1>5, <1>6, <1>7, FS_Subset

\* Products of natural numbers, as the counts below use them.
LEMMA TimesMonotone ==
    ASSUME NEW k \in Nat, NEW m \in Nat, NEW n \in Nat, m <= n
    PROVE  /\ k * m \in Nat /\ k * n \in Nat /\ k * m <= k * n
           /\ k * (m + 1) = k * m + k
<1>1. PICK d \in Nat : n = m + d
  <2> WITNESS n - m \in Nat
  <2> QED OBVIOUS
<1>2. k * n = k * m + k * d /\ k * d \in Nat /\ k * m \in Nat
  BY <1>1
<1> QED BY <1>1, <1>2

LEMMA InitOther == Init => OtherTypes /\ CallsBySaves
<1> SUFFICES ASSUME Init PROVE OtherTypes /\ CallsBySaves
  OBVIOUS
<1> USE StoreAssumption DEF Init
<1>1. Cardinality(Tickets) \in Nat
  BY FS_CardinalityType
<1>2. \A w \in Writers : Len(Work[w]) \in Nat
  OBVIOUS
<1>3. \A q \in Requests : report[q].counted = 0 /\ report[q].total = 0
  OBVIOUS
<1>4. \A w \in Writers : saved[w] = 0
  OBVIOUS
<1>5. OtherTypes
  <2>1. /\ open = NoTransaction /\ artifact = {} /\ opened = "server" /\ crashes = 0
        /\ torn = {} /\ emptied = {} /\ behind = {} /\ wiped = FALSE /\ stale = FALSE
    OBVIOUS
  <2>2. \A w \in Writers : saved[w] <= Len(Work[w])
    BY <1>2, <1>4
  <2>3. \A q \in Requests : /\ report[q].counted <= Cardinality(Tickets)
                             /\ report[q].total <= Cardinality(Tickets)
    BY <1>1, <1>3
  <2>4. open.done <= open.cnt /\ crashes \in 0 .. MaxCrashes
    BY <2>1 DEF NoTransaction
  <2> HIDE DEF Init
  <2> QED BY <2>1, <2>2, <2>3, <2>4 DEF OtherTypes
<1>6. ASSUME NEW t \in Tickets PROVE toolCalls[t] <= MaxCalls * Cardinality(Committed(t))
  <2>1. Cardinality(Committed(t)) \in Nat
    BY SavesFinite, FS_CardinalityType
  <2> QED BY <2>1, TimesMonotone
<1> QED BY <1>5, <1>6 DEF CallsBySaves

\* A commit adds a save of its ticket, and at most MaxCalls calls.
LEMMA CommitAddsASave ==
    ASSUME StoreTypes, CallsBySaves, NEW w \in Writers, Commit(w)
    PROVE  CallsBySaves'
<1> USE StoreAssumption
<1> DEFINE s == <<w, saved[w] + 1>>
<1>1. Saving(w)
  BY DEF Commit, StoreTypes, Writers
<1>2. /\ Ticket(w) \in Tickets /\ saved[w] + 1 \in 1 .. Len(Work[w])
      /\ open.cnt \in 0 .. MaxCalls /\ saved[w] \in Nat
  BY <1>1, TicketType DEF StoreTypes
<1>3. /\ toolCalls' = [toolCalls EXCEPT ![Ticket(w)] = toolCalls[Ticket(w)] + open.cnt]
      /\ saved' = [saved EXCEPT ![w] = saved[w] + 1]
  BY DEF Commit
<1>4. s \in Saves(Ticket(w)) /\ s \notin Committed(Ticket(w))
  BY <1>2 DEF Saves, Committed, Ticket
<1>5. ASSUME NEW t \in Tickets, NEW r \in Saves(t)
      PROVE  \E v \in Writers : \E i \in DOMAIN Work[v] : r = <<v, i>> /\ Work[v][i] = t
  BY DEF Saves
<1>6. \A v \in Writers : saved'[v] = IF v = w THEN saved[w] + 1 ELSE saved[v]
  BY <1>3 DEF StoreTypes
<1>7. ASSUME NEW t \in Tickets, NEW r \in Saves(t), r # s
      PROVE  r \in Committed(t)' <=> r \in Committed(t)
  <2>1. PICK v \in Writers : \E i \in DOMAIN Work[v] : r = <<v, i>> /\ Work[v][i] = t
    BY <1>5
  <2>2. PICK i \in DOMAIN Work[v] : r = <<v, i>>
    BY <2>1
  <2>3. i \in Nat /\ saved[v] \in Nat /\ (v = w => i # saved[w] + 1)
    BY <1>7, <2>2 DEF StoreTypes
  <2>4. i <= saved'[v] <=> i <= saved[v]
    BY <1>2, <1>6, <2>3
  <2> QED BY <1>7, <2>2, <2>4 DEF Committed, Saves
<1>8. \A t \in Tickets : Committed(t) \subseteq Saves(t) /\ Committed(t)' \subseteq Saves(t)
  BY DEF Committed, Saves
<1>9. s[2] <= saved'[s[1]]
  BY <1>2, <1>6
<1>10. {r \in Saves(Ticket(w)) : r[2] <= saved'[r[1]]} = Committed(Ticket(w)) \cup {s}
  <2>1. \A r \in Saves(Ticket(w)) :
           r # s => (r[2] <= saved'[r[1]] <=> r[2] <= saved[r[1]])
    BY <1>2, <1>7 DEF Committed, Saves
  <2> HIDE DEF s
  <2> QED BY <1>4, <1>9, <2>1 DEF Committed
<1>11. ASSUME NEW t \in Tickets, t # Ticket(w) PROVE Committed(t)' = Committed(t)
  <2>1. s \notin Saves(t)
    BY <1>11 DEF Saves, Ticket
  <2> QED BY <2>1, <1>7, <1>8
<1> HIDE DEF s
<1>12. ASSUME NEW t \in Tickets
       PROVE  toolCalls'[t] <= MaxCalls * Cardinality(Committed(t)')
  <2>1. Cardinality(Committed(t)) \in Nat /\ toolCalls[t] \in Nat
    BY SavesFinite, FS_CardinalityType DEF StoreTypes
  <2>2. toolCalls[t] <= MaxCalls * Cardinality(Committed(t))
    BY DEF CallsBySaves
  <2>3. CASE t = Ticket(w)
    <3>1. Cardinality(Committed(t)') = Cardinality(Committed(t)) + 1
      <4>1. IsFiniteSet(Committed(t)) /\ s \notin Committed(t)
        BY <1>4, <2>3, SavesFinite
      <4>2. Cardinality(Committed(t) \cup {s}) = Cardinality(Committed(t)) + 1
        BY <4>1, FS_AddElement
      <4>3. Committed(t)' = Committed(t) \cup {s}
        BY <1>10, <2>3 DEF Committed, Saves
      <4> QED BY <4>2, <4>3
    <3>2. /\ MaxCalls * Cardinality(Committed(t)) \in Nat
          /\ MaxCalls * (Cardinality(Committed(t)) + 1)
                = MaxCalls * Cardinality(Committed(t)) + MaxCalls
      BY <2>1, TimesMonotone
    <3>3. toolCalls'[t] = toolCalls[t] + open.cnt
      BY <1>3, <2>3 DEF StoreTypes
    <3> HIDE DEF Committed
    <3> DEFINE n == Cardinality(Committed(t))
               p == MaxCalls * n
               q == MaxCalls * (n + 1)
    <3>4. Cardinality(Committed(t)') = n + 1
      BY <3>1
    <3>5. p \in Nat /\ q = p + MaxCalls /\ toolCalls[t] <= p
      BY <2>2, <3>2
    <3> HIDE DEF n, p
    <3>6. toolCalls'[t] <= p + MaxCalls
      BY <1>2, <2>1, <3>3, <3>5
    <3> QED BY <3>4, <3>5, <3>6
  <2>4. CASE t # Ticket(w)
    <3>1. toolCalls'[t] = toolCalls[t]
      BY <1>2, <1>3, <2>4 DEF StoreTypes
    <3> QED BY <1>11, <2>2, <2>4, <3>1
  <2> QED BY <2>3, <2>4
<1> QED BY <1>12 DEF CallsBySaves

\* Nothing else adds a call, and clearing only deletes them.
LEMMA CallsLeftAlone ==
    ASSUME CallsBySaves, UNCHANGED saved,
           \A t \in Tickets : toolCalls'[t] \in {0, toolCalls[t]}
    PROVE  CallsBySaves'
<1> SUFFICES ASSUME NEW t \in Tickets
             PROVE  toolCalls'[t] <= MaxCalls * Cardinality(Committed(t)')
  BY DEF CallsBySaves
<1>1. Committed(t)' = Committed(t)
  BY DEF Committed, Saves
<1>2. /\ Cardinality(Committed(t)) \in Nat
      /\ 0 <= MaxCalls * Cardinality(Committed(t))
  BY SavesFinite, FS_CardinalityType, TimesMonotone, StoreAssumption
<1> QED BY <1>1, <1>2 DEF CallsBySaves

LEMMA StepCallsBySaves == StoreTypes /\ CallsBySaves /\ [Next]_vars => CallsBySaves'
<1> SUFFICES ASSUME StoreTypes, CallsBySaves, [Next]_vars PROVE CallsBySaves'
  OBVIOUS
<1> USE DEF tables, writing
<1>1. ASSUME NEW q \in Requests, ClearCalls(q) PROVE CallsBySaves'
  BY <1>1, CallsLeftAlone DEF ClearCalls
<1>2. CASE \E w \in Writers : Commit(w)
  BY <1>2, CommitAddsASave
<1>3. CASE UNCHANGED <<toolCalls, saved>>
  BY <1>3, CallsLeftAlone
<1>4. \/ \E w \in Writers : Commit(w)
      \/ \E q \in Requests : ClearCalls(q)
      \/ UNCHANGED <<toolCalls, saved>>
  BY DEF Next, SaveStep, BeginSave, InsertCall, SaveFails, LockTimesOut, AllSaved,
         DemoStep, DemoOpens, DemoExports, DemoExportFails, ClearStep, BeginClear,
         ClearRows, ClearFails, ReadStep, CountByStatus, Average, CountAll, ExportStep,
         ReadRows, OpenArtifact, WriteArtifact, ExportFails, ServerKilled, DemoKilled,
         Quiet, vars
<1> QED BY <1>1, <1>2, <1>3, <1>4

LEMMA StepOther == StoreTypes /\ OtherTypes /\ [Next]_vars => OtherTypes'
<1> SUFFICES ASSUME StoreTypes, OtherTypes, [Next]_vars PROVE OtherTypes'
  OBVIOUS
<1> USE StoreAssumption DEF tables, writing, reading, file, history
<1>1. /\ Cardinality(HasRow) \in Nat /\ Cardinality(Tickets) \in Nat
      /\ Cardinality(HasRow) <= Cardinality(Tickets)
  <2>1. HasRow \in SUBSET Tickets
    BY DEF HasRow
  <2> QED BY <2>1, FS_Subset, FS_CardinalityType
<1>2. \A w \in Writers : Len(Work[w]) \in Nat
  OBVIOUS
<1> USE DEF OtherTypes, StoreTypes
<1>3. ASSUME NEW w \in Writers, SaveStep(w) PROVE OtherTypes'
  <2>1. CASE BeginSave(w)
    BY <2>1 DEF BeginSave, Saving
  <2>2. CASE InsertCall(w)
    BY <2>2 DEF InsertCall
  <2>3. CASE Commit(w)
    <3>1. Ticket(w) \in Tickets /\ saved[w] + 1 \in 1 .. Len(Work[w])
      BY <2>3, TicketType DEF Commit
    <3>2. torn' \subseteq Tickets /\ behind' \subseteq Requests \cup {Demo}
      BY <2>3, <3>1 DEF Commit
    <3>3. \A v \in Writers : saved'[v] <= Len(Work[v])
      BY <2>3, <3>1, <1>2 DEF Commit
    <3>4. lock' = Nobody /\ open' = NoTransaction
          /\ UNCHANGED <<request, reading, crashes, emptied, wiped, stale>>
      BY <2>3 DEF Commit, Release
    <3> QED BY <3>2, <3>3, <3>4 DEF NoTransaction
  <2>4. CASE SaveFails(w)
    BY <2>4 DEF SaveFails, Release, NoTransaction
  <2>5. CASE LockTimesOut(w)
    BY <2>5 DEF LockTimesOut
  <2>6. CASE AllSaved(w)
    BY <2>6 DEF AllSaved
  <2> QED BY <1>3, <2>1, <2>2, <2>3, <2>4, <2>5, <2>6 DEF SaveStep
\* What is written was read.
<1>10. ASSUME NEW x \in Requests \cup {Demo}, WritesFile(x)
       PROVE  /\ artifact' # Broken => artifact' \in SUBSET Tickets
              /\ stale' \in BOOLEAN
  <2>1. view[x] \in SUBSET Tickets /\ (x \in behind) \in BOOLEAN
    OBVIOUS
  <2>2. CASE artifact' = view[x] /\ stale' = (x \in behind)
    <3>1. stale' \in BOOLEAN
      BY <2>2
    <3> QED BY <2>1, <2>2, <3>1
  <2>3. CASE artifact' \in {artifact, Broken} /\ UNCHANGED stale
    BY <2>3
  <2> QED BY <1>10, <2>2, <2>3 DEF WritesFile
<1>4. CASE DemoStep
  <2>1. CASE DemoOpens
    BY <2>1 DEF DemoOpens
  <2>2. CASE DemoExports
    BY <1>10, <2>2 DEF DemoExports
  <2>3. CASE DemoExportFails
    BY <2>3 DEF DemoExportFails, BreaksOff
  <2> QED BY <1>4, <2>1, <2>2, <2>3 DEF DemoStep
<1>5. ASSUME NEW q \in Requests, ClearStep(q) PROVE OtherTypes'
  BY <1>5 DEF ClearStep, BeginClear, ClearRows, ClearCalls, ClearFails, Goes
<1>6. ASSUME NEW q \in Requests, ReadStep(q) PROVE OtherTypes'
  <2>1. CASE CountByStatus(q)
    BY <2>1, <1>1 DEF CountByStatus
  <2>2. CASE CountAll(q)
    BY <2>2, <1>1 DEF CountAll
  <2>3. CASE Average(q)
    BY <2>3 DEF Average
  <2> QED BY <1>6, <2>1, <2>2, <2>3 DEF ReadStep
<1>9. ASSUME NEW q \in Requests, ExportStep(q) PROVE OtherTypes'
  <2>1. CASE ReadRows(q)
    BY <2>1 DEF ReadRows
  <2>2. CASE OpenArtifact(q)
    BY <2>2 DEF OpenArtifact
  <2>3. CASE WriteArtifact(q)
    BY <1>10, <2>3 DEF WriteArtifact
  <2>4. CASE ExportFails(q)
    BY <2>4 DEF ExportFails, BreaksOff
  <2> QED BY <1>9, <2>1, <2>2, <2>3, <2>4 DEF ExportStep
<1>7. CASE ServerKilled \/ DemoKilled
  BY <1>7 DEF ServerKilled, DemoKilled, BreaksOff, Release, NoTransaction
<1>8. CASE Quiet \/ UNCHANGED vars
  BY <1>8 DEF Quiet, vars
<1> QED BY <1>3, <1>4, <1>5, <1>6, <1>7, <1>8, <1>9 DEF Next, DemoStep

-----------------------------------------------------------------------------
(* The two tables.                                                         *)

TablesAgree == TornWhileClearing /\ CallsBacked

\* What leaves the rows and the tool calls alone and begins no deletion.
LEMMA TablesLeftAlone ==
    ASSUME TablesAgree, UNCHANGED <<resolutions, toolCalls, torn>>,
           Clearing' => Clearing
    PROVE  TablesAgree'
  BY DEF TablesAgree, TornWhileClearing, CallsBacked, HasRow

LEMMA StepTables == StoreTypes /\ TablesAgree /\ [Next]_vars => TablesAgree'
<1> SUFFICES ASSUME StoreTypes, TablesAgree, [Next]_vars PROVE TablesAgree'
  OBVIOUS
<1> USE DEF tables, writing, reading, file, history
<1>1. ASSUME NEW w \in Writers, Commit(w) PROVE TablesAgree'
  <2>1. /\ Ticket(w) \in Tickets
        /\ open.cnt \in 0 .. MaxCalls /\ toolCalls[Ticket(w)] \in Nat
    BY <1>1, TicketType, StoreAssumption DEF Commit, StoreTypes
  <2>2. /\ resolutions'[Ticket(w)] = open.cnt
        /\ toolCalls'[Ticket(w)] = toolCalls[Ticket(w)] + open.cnt
        /\ \A t \in Tickets \ {Ticket(w)} :
              resolutions'[t] = resolutions[t] /\ toolCalls'[t] = toolCalls[t]
        /\ torn' = IF Clearing THEN torn \cup {Ticket(w)} ELSE torn \ {Ticket(w)}
        /\ Clearing' <=> Clearing
    BY <1>1, <2>1 DEF Commit, StoreTypes, Clearing
  <2>3. TornWhileClearing'
    BY <2>1, <2>2 DEF TablesAgree, TornWhileClearing, HasRow
  <2>4. open.cnt <= toolCalls[Ticket(w)] + open.cnt
    BY <2>1
  <2>5. ASSUME NEW t \in Tickets, resolutions'[t] # NoRow
        PROVE  t \in torn' \/ resolutions'[t] <= toolCalls'[t]
    <3>1. CASE t = Ticket(w)
      BY <3>1, <2>2, <2>4
    <3>2. CASE t # Ticket(w)
      BY <3>2, <2>2, <2>5 DEF TablesAgree, CallsBacked, HasRow
    <3> QED BY <3>1, <3>2
  <2>6. CallsBacked'
    BY <2>5 DEF CallsBacked, HasRow
  <2> QED BY <2>3, <2>6 DEF TablesAgree
<1>2. ASSUME NEW q \in Requests, ClearRows(q) PROVE TablesAgree'
  <2>1. HasRow' = {}
    BY <1>2 DEF ClearRows, HasRow
  <2> QED BY <2>1 DEF TablesAgree, TornWhileClearing, CallsBacked
<1>3. ASSUME NEW q \in Requests, ClearCalls(q) PROVE TablesAgree'
  <2>1. Clearing
    BY <1>3 DEF ClearCalls, Goes, Clearing
  <2>2. HasRow' \subseteq torn'
    BY <1>3, <2>1 DEF ClearCalls, TablesAgree, TornWhileClearing, HasRow
  <2> QED BY <2>2 DEF TablesAgree, TornWhileClearing, CallsBacked
<1>4. ASSUME NEW w \in Writers,
             BeginSave(w) \/ InsertCall(w) \/ SaveFails(w) \/ LockTimesOut(w) \/ AllSaved(w)
      PROVE  TablesAgree'
  <2>1. UNCHANGED <<resolutions, toolCalls, torn, request>>
    BY <1>4 DEF BeginSave, InsertCall, SaveFails, LockTimesOut, AllSaved
  <2> QED BY <2>1, TablesLeftAlone DEF Clearing
<1>5. ASSUME NEW q \in Requests,
             BeginClear(q) \/ ClearFails(q) \/ ReadStep(q) \/ ExportStep(q)
      PROVE  TablesAgree'
  <2>1. /\ UNCHANGED <<resolutions, toolCalls, torn>>
        /\ \E s \in {"clear_rows", "over", "average", "total", "export", "writing"} :
              request' = [request EXCEPT ![q] = s]
    BY <1>5 DEF BeginClear, ClearFails, ReadStep, CountByStatus, Average, CountAll,
                ExportStep, ReadRows, OpenArtifact, WriteArtifact, ExportFails, Goes
  <2>2. Clearing' => Clearing
    BY <2>1 DEF Clearing, StoreTypes
  <2> QED BY <2>1, <2>2, TablesLeftAlone
<1>6. CASE ServerKilled
  <2>1. UNCHANGED <<resolutions, toolCalls, torn>> /\ ~Clearing'
    BY <1>6 DEF ServerKilled, Clearing
  <2> QED BY <2>1, TablesLeftAlone
<1>7. CASE DemoStep \/ DemoKilled \/ Quiet \/ UNCHANGED vars
  <2>1. UNCHANGED <<resolutions, toolCalls, torn, request>>
    BY <1>7 DEF DemoStep, DemoOpens, DemoExports, DemoExportFails, DemoKilled, Quiet, vars
  <2> QED BY <2>1, TablesLeftAlone DEF Clearing
<1> QED
  BY <1>1, <1>2, <1>3, <1>4, <1>5, <1>6, <1>7 DEF Next, SaveStep, ClearStep, DemoStep
-----------------------------------------------------------------------------
(* Metrics.                                                                *)

\* Rows are finitely many, and more rows count for more.
LEMMA CountingRows ==
    ASSUME StoreTypes
    PROVE  /\ IsFiniteSet(HasRow) /\ Cardinality(HasRow) \in Nat
           /\ \A S \in SUBSET Tickets :
                 HasRow \subseteq S =>
                    Cardinality(S) \in Nat /\ Cardinality(HasRow) <= Cardinality(S)
<1>1. IsFiniteSet(HasRow) /\ Cardinality(HasRow) \in Nat
  BY StoreAssumption, FS_Subset, FS_CardinalityType DEF HasRow
<1>2. ASSUME NEW S \in SUBSET Tickets, HasRow \subseteq S
      PROVE  Cardinality(S) \in Nat /\ Cardinality(HasRow) <= Cardinality(S)
  <2>1. IsFiniteSet(S)
    BY StoreAssumption, FS_Subset
  <2> QED BY <1>2, <2>1, FS_Subset, FS_CardinalityType
<1> QED BY <1>1, <1>2

\* What counts nothing and loses no row.
LEMMA CountsLeftAlone ==
    ASSUME StoreTypes, CountsAreLow, HasRow \subseteq HasRow', HasRow' \subseteq Tickets,
           emptied \subseteq emptied', UNCHANGED report,
           \A q \in Requests :
              \/ request'[q] = request[q]
              \/ /\ request[q] \in {"average", "total"} <=>
                    request'[q] \in {"average", "total"}
                 /\ request[q] # "killed"
              \/ request'[q] = "killed"
    PROVE  CountsAreLow'
<1> SUFFICES ASSUME NEW q \in Requests, q \notin emptied'
             PROVE  /\ request'[q] \in {"average", "total"} =>
                          report'[q].counted <= Cardinality(HasRow')
                    /\ request'[q] \notin {"average", "total", "killed"} =>
                          report'[q].counted <= report'[q].total
  BY DEF CountsAreLow
<1>1. /\ Cardinality(HasRow) \in Nat /\ Cardinality(HasRow') \in Nat
      /\ Cardinality(HasRow) <= Cardinality(HasRow')
  BY CountingRows
<1>2. report[q].counted \in Nat /\ q \notin emptied
  BY DEF StoreTypes
<1> QED BY <1>1, <1>2 DEF CountsAreLow

LEMMA StepCounts == StoreTypes /\ CountsAreLow /\ [Next]_vars => CountsAreLow'
<1> SUFFICES ASSUME StoreTypes, CountsAreLow, [Next]_vars PROVE CountsAreLow'
  OBVIOUS
<1> USE DEF tables, writing, reading, file, history
<1>0. HasRow \subseteq Tickets /\ HasRow' \subseteq Tickets
  BY DEF HasRow
<1>1. ASSUME NEW w \in Writers, SaveStep(w) PROVE CountsAreLow'
  <2>1. UNCHANGED <<request, report, emptied>>
    BY <1>1 DEF SaveStep, BeginSave, InsertCall, Commit, SaveFails, LockTimesOut, AllSaved
  <2>2. CASE Commit(w)
    <3>1. open.cnt # NoRow /\ Ticket(w) \in Tickets
      BY <2>2, TicketType, StoreAssumption DEF Commit, StoreTypes
    <3>2. HasRow \subseteq HasRow'
      BY <2>2, <3>1 DEF Commit, HasRow, StoreTypes
    <3> QED BY <1>0, <2>1, <3>2, CountsLeftAlone
  <2>3. CASE ~Commit(w)
    <3>1. HasRow' = HasRow
      BY <1>1, <2>3 DEF SaveStep, BeginSave, InsertCall, SaveFails, LockTimesOut,
                        AllSaved, HasRow
    <3> QED BY <1>0, <2>1, <3>1, CountsLeftAlone
  <2> QED BY <2>2, <2>3
<1>2. ASSUME NEW q \in Requests, BeginClear(q) \/ ClearCalls(q) \/ ClearFails(q)
      PROVE  CountsAreLow'
  <2>1. UNCHANGED <<report, emptied>> /\ HasRow' = HasRow
    BY <1>2 DEF BeginClear, ClearCalls, ClearFails, HasRow
  <2>2. /\ request[q] \in {"idle", "clear_rows", "clear_calls"}
        /\ \E s \in {"clear_rows", "over"} : request' = [request EXCEPT ![q] = s]
    BY <1>2 DEF BeginClear, ClearCalls, ClearFails, Goes
  <2> QED BY <1>0, <2>1, <2>2, CountsLeftAlone DEF StoreTypes
\* Deleting rows marks the requests that are counting.
<1>3. ASSUME NEW q \in Requests, ClearRows(q) PROVE CountsAreLow'
  <2>1. /\ request' = [request EXCEPT ![q] = "clear_calls"] /\ request[q] = "clear_rows"
        /\ emptied' = emptied \cup {p \in Requests : request[p] \in {"average", "total"}}
        /\ UNCHANGED report
    BY <1>3 DEF ClearRows, Goes
  <2> QED BY <2>1 DEF CountsAreLow, StoreTypes
<1>4. ASSUME NEW q \in Requests, CountByStatus(q) PROVE CountsAreLow'
  <2>1. /\ request' = [request EXCEPT ![q] = "average"]
        /\ report'[q].counted = Cardinality(HasRow)
        /\ \A p \in Requests \ {q} : report'[p] = report[p]
        /\ UNCHANGED emptied /\ HasRow' = HasRow
        /\ Cardinality(HasRow) \in Nat
    BY <1>4, CountingRows DEF CountByStatus, Goes, StoreTypes, HasRow
  <2> QED BY <2>1 DEF CountsAreLow, StoreTypes
<1>5. ASSUME NEW q \in Requests, CountAll(q) PROVE CountsAreLow'
  <2>1. /\ request[q] = "total" /\ request' = [request EXCEPT ![q] = "over"]
        /\ report'[q].total = Cardinality(HasRow)
        /\ report'[q].counted = report[q].counted
        /\ \A p \in Requests \ {q} : report'[p] = report[p]
        /\ UNCHANGED emptied /\ HasRow' = HasRow
    BY <1>5 DEF CountAll, Goes, StoreTypes, HasRow
  <2> QED BY <2>1 DEF CountsAreLow, StoreTypes
<1>6. ASSUME NEW q \in Requests, Average(q) \/ ExportStep(q)
      PROVE  CountsAreLow'
  <2>1. UNCHANGED <<report, emptied>> /\ HasRow' = HasRow
    BY <1>6 DEF Average, ExportStep, ReadRows, OpenArtifact, WriteArtifact, ExportFails,
                HasRow
  <2>2. \/ request[q] = "average" /\ request' = [request EXCEPT ![q] = "total"]
        \/ /\ request[q] \in {"idle", "export", "writing"}
           /\ \E s \in {"export", "writing", "over"} : request' = [request EXCEPT ![q] = s]
    BY <1>6 DEF Average, ExportStep, ReadRows, OpenArtifact, WriteArtifact, ExportFails,
                Goes
  <2> QED BY <1>0, <2>1, <2>2, CountsLeftAlone DEF StoreTypes
<1>7. CASE ServerKilled
  <2>1. UNCHANGED <<report, emptied>> /\ HasRow' = HasRow
    BY <1>7 DEF ServerKilled, HasRow
  <2>2. \A q \in Requests : request'[q] \in {request[q], "killed"}
    BY <1>7 DEF ServerKilled
  <2> QED BY <1>0, <2>1, <2>2, CountsLeftAlone
<1>8. CASE DemoStep \/ DemoKilled \/ Quiet \/ UNCHANGED vars
  <2>1. UNCHANGED <<request, report, emptied>> /\ HasRow' = HasRow
    BY <1>8 DEF DemoStep, DemoOpens, DemoExports, DemoExportFails, DemoKilled, Quiet, vars,
                HasRow
  <2> QED BY <1>0, <2>1, CountsLeftAlone
<1> QED
  BY <1>1, <1>2, <1>3, <1>4, <1>5, <1>6, <1>7, <1>8
  DEF Next, ClearStep, ReadStep, DemoStep
-----------------------------------------------------------------------------
(* The demo's artifact.                                                    *)

\* What saves, reads and writes nothing the demo depends on.
LEMMA DemoLeftAlone ==
    ASSUME DemosRowsStay, saved'[Demo] = saved[Demo], HasRow \subseteq HasRow',
           behind \subseteq behind', artifact' \in {artifact, Broken},
           UNCHANGED <<stale, wiped>>,
           doing'[Demo] \in {"exporting", "writing", "over"} => doing'[Demo] = doing[Demo],
           doing'[Demo] \in {"exporting", "writing"} => view'[Demo] = view[Demo],
           \A q \in Requests :
              request'[q] \in {"export", "writing"} =>
                 request[q] \in {"export", "writing"} /\ view'[q] = view[q]
    PROVE  DemosRowsStay'
  BY DEF DemosRowsStay, DemosTickets

LEMMA StepDemo == StoreTypes /\ DemosRowsStay /\ [Next]_vars => DemosRowsStay'
<1> SUFFICES ASSUME StoreTypes, DemosRowsStay, [Next]_vars, ~wiped' PROVE DemosRowsStay'
  BY DEF DemosRowsStay
<1> USE DEF tables, writing, reading, file, history
<1>0. Demo \in Writers /\ Demo \notin Requests /\ Demo \notin Runs
  BY StoreAssumption DEF Writers
<1>1. ASSUME NEW w \in Writers,
             BeginSave(w) \/ InsertCall(w) \/ SaveFails(w) \/ LockTimesOut(w)
      PROVE  DemosRowsStay'
  <2>1. /\ UNCHANGED <<saved, artifact, stale, view, request, behind, wiped>>
        /\ HasRow' = HasRow
    BY <1>1 DEF BeginSave, InsertCall, SaveFails, LockTimesOut, HasRow
  <2>2. doing' = doing \/ doing' = [doing EXCEPT ![w] = "raised"]
    BY <1>1 DEF BeginSave, InsertCall, SaveFails, LockTimesOut
  <2> QED BY <1>0, <2>1, <2>2, DemoLeftAlone DEF StoreTypes
<1>2. ASSUME NEW w \in Writers, Commit(w) PROVE DemosRowsStay'
  <2>1. /\ open.cnt # NoRow /\ Ticket(w) \in Tickets
        /\ saved[w] + 1 \in 1 .. Len(Work[w]) /\ doing[w] = "saving"
    BY <1>2, TicketType, StoreAssumption DEF Commit, StoreTypes, Saving
  <2>2. /\ HasRow' = HasRow \cup {Ticket(w)}
        /\ UNCHANGED <<artifact, stale, view, request, wiped, doing>>
        /\ behind' = behind \cup {q \in Requests : request[q] \in {"export", "writing"}}
        /\ saved' = [saved EXCEPT ![w] = saved[w] + 1]
    BY <1>2, <2>1 DEF Commit, HasRow, StoreTypes
  <2>3. CASE w = Demo
    <3>1. DemosTickets' = DemosTickets \cup {Ticket(w)}
      BY <1>0, <2>1, <2>2, <2>3 DEF DemosTickets, Ticket, StoreTypes
    <3>2. saved'[Demo] <= Len(Work[Demo])
      BY <1>0, <2>1, <2>2, <2>3 DEF StoreTypes
    <3> QED BY <2>1, <2>2, <2>3, <3>1, <3>2 DEF DemosRowsStay
  <2>4. CASE w # Demo
    BY <1>0, <2>2, <2>4, DemoLeftAlone DEF StoreTypes
  <2> QED BY <2>3, <2>4
\* The demo reads what it has saved.
<1>3. ASSUME NEW w \in Writers, AllSaved(w) PROVE DemosRowsStay'
  <2>1. UNCHANGED <<saved, artifact, stale, request, behind, wiped>> /\ HasRow' = HasRow
    BY <1>3 DEF AllSaved, HasRow
  <2>2. CASE w = Demo
    <3>1. /\ doing'[Demo] = "exporting" /\ saved[Demo] = Len(Work[Demo])
          /\ view'[Demo] = HasRow
          /\ \A q \in Requests : view'[q] = view[q]
      BY <1>0, <1>3, <2>2 DEF AllSaved, StoreTypes
    <3> QED BY <2>1, <3>1 DEF DemosRowsStay, DemosTickets
  <2>3. CASE w # Demo
    <3>1. view' = view /\ doing'[Demo] = doing[Demo]
      BY <1>0, <1>3, <2>3 DEF AllSaved, StoreTypes
    <3> QED BY <2>1, <3>1, DemoLeftAlone
  <2> QED BY <2>2, <2>3
<1>4. CASE DemoStep
  <2>1. UNCHANGED <<saved, request, behind, wiped>> /\ HasRow' = HasRow
    BY <1>4 DEF DemoStep, DemoOpens, DemoExports, DemoExportFails, HasRow
  <2>2. CASE DemoOpens
    <3>1. /\ doing[Demo] = "exporting" /\ doing'[Demo] = "writing"
          /\ artifact' = Broken /\ view' = view
      BY <1>0, <2>2 DEF DemoOpens, StoreTypes
    <3> QED BY <2>1, <3>1 DEF DemosRowsStay, DemosTickets
  <2>3. CASE DemoExports
    <3>1. /\ doing[Demo] = "writing" /\ doing'[Demo] = "over"
          /\ \A q \in Requests : view'[q] = view[q]
          /\ \/ artifact' = view[Demo]
             \/ artifact' \in {artifact, Broken} /\ stale' = stale
      BY <1>0, <2>3 DEF DemoExports, WritesFile, Forgets, StoreTypes
    <3> QED BY <2>1, <3>1 DEF DemosRowsStay, DemosTickets
  <2>4. CASE DemoExportFails
    <3>1. /\ doing'[Demo] = "raised" /\ UNCHANGED stale
          /\ artifact' \in {artifact, Broken}
          /\ \A q \in Requests : view'[q] = view[q]
      BY <1>0, <2>4 DEF DemoExportFails, BreaksOff, Forgets, StoreTypes
    <3> QED BY <2>1, <3>1, DemoLeftAlone
  <2> QED BY <1>4, <2>2, <2>3, <2>4 DEF DemoStep
<1>5. ASSUME NEW q \in Requests, ClearRows(q) PROVE DemosRowsStay'
  <2>1. /\ UNCHANGED <<saved, doing, artifact, stale, view, behind>>
        /\ request' = [request EXCEPT ![q] = "clear_calls"]
    BY <1>5 DEF ClearRows, Goes
  <2>2. wiped' = (wiped \/ saved[Demo] > 0)
    BY <1>5 DEF ClearRows
  <2>3. ~wiped /\ ~(saved[Demo] > 0)
    BY <2>2, Zenon
  <2>4. saved[Demo] = 0
    BY <1>0, <2>3 DEF StoreTypes
  <2>5. DemosTickets = {} /\ DemosTickets' = {}
    BY <2>1, <2>4 DEF DemosTickets
  <2> QED BY <2>1, <2>3, <2>5 DEF DemosRowsStay, StoreTypes
<1>6. ASSUME NEW q \in Requests,
             \/ BeginClear(q) \/ ClearCalls(q) \/ ClearFails(q)
             \/ CountByStatus(q) \/ Average(q) \/ CountAll(q)
      PROVE  DemosRowsStay'
  <2>1. /\ UNCHANGED <<saved, doing, artifact, stale, view, behind, wiped>>
        /\ HasRow' = HasRow
        /\ \E s \in {"clear_rows", "average", "total", "over"} :
              request' = [request EXCEPT ![q] = s]
    BY <1>6 DEF BeginClear, ClearCalls, ClearFails, CountByStatus, Average, CountAll,
                Goes, HasRow
  <2> QED BY <2>1, DemoLeftAlone DEF StoreTypes
\* A request reads at least what the demo has saved by then.
<1>7. ASSUME NEW q \in Requests, ReadRows(q) PROVE DemosRowsStay'
  <2>1. /\ UNCHANGED <<saved, doing, artifact, stale, behind, wiped>> /\ HasRow' = HasRow
        /\ request' = [request EXCEPT ![q] = "export"]
        /\ view'[q] = HasRow
        /\ \A x \in (Requests \cup {Demo}) \ {q} : view'[x] = view[x]
    BY <1>7, <1>0 DEF ReadRows, Goes, HasRow, StoreTypes
  <2> QED BY <1>0, <2>1 DEF DemosRowsStay, DemosTickets, StoreTypes
<1>8. ASSUME NEW q \in Requests, OpenArtifact(q) PROVE DemosRowsStay'
  <2>1. /\ UNCHANGED <<saved, doing, behind, wiped, view, stale>> /\ HasRow' = HasRow
        /\ request[q] = "export" /\ request' = [request EXCEPT ![q] = "writing"]
        /\ artifact' = Broken
    BY <1>8 DEF OpenArtifact, Goes, HasRow
  <2> QED BY <2>1, DemoLeftAlone DEF StoreTypes
<1>9. ASSUME NEW q \in Requests, WriteArtifact(q) PROVE DemosRowsStay'
  <2>1. /\ UNCHANGED <<saved, doing, behind, wiped>> /\ HasRow' = HasRow
        /\ request[q] = "writing" /\ request' = [request EXCEPT ![q] = "over"]
        /\ \A x \in (Requests \cup {Demo}) \ {q} : view'[x] = view[x]
    BY <1>9, <1>0 DEF WriteArtifact, WritesFile, Forgets, Goes, HasRow, StoreTypes
  <2>2. \/ artifact' = view[q] /\ (~stale' => q \notin behind)
        \/ artifact' \in {artifact, Broken} /\ (~stale' => ~stale)
    BY <1>9 DEF WriteArtifact, WritesFile
  <2> QED BY <1>0, <2>1, <2>2 DEF DemosRowsStay, DemosTickets, StoreTypes
<1>10. ASSUME NEW q \in Requests, ExportFails(q) PROVE DemosRowsStay'
  <2>1. /\ UNCHANGED <<saved, doing, behind, wiped, stale>> /\ HasRow' = HasRow
        /\ request' = [request EXCEPT ![q] = "over"]
        /\ artifact' \in {artifact, Broken}
        /\ \A x \in (Requests \cup {Demo}) \ {q} : view'[x] = view[x]
    BY <1>10, <1>0 DEF ExportFails, BreaksOff, Forgets, Goes, HasRow, StoreTypes
  <2> QED BY <1>0, <2>1, DemoLeftAlone DEF StoreTypes
<1>11. CASE ServerKilled
  <2>1. /\ UNCHANGED <<saved, stale, behind, wiped>> /\ HasRow' = HasRow
        /\ artifact' \in {artifact, Broken} /\ view'[Demo] = view[Demo]
        /\ doing'[Demo] = doing[Demo]
        /\ \A q \in Requests : request'[q] \notin {"export", "writing"}
    BY <1>11, <1>0 DEF ServerKilled, BreaksOff, HasRow, StoreTypes
  <2> QED BY <2>1, DemoLeftAlone
<1>12. CASE DemoKilled
  <2>1. /\ UNCHANGED <<saved, request, stale, behind, wiped>> /\ HasRow' = HasRow
        /\ artifact' \in {artifact, Broken} /\ doing'[Demo] = "killed"
        /\ \A q \in Requests : view'[q] = view[q]
    BY <1>12, <1>0 DEF DemoKilled, BreaksOff, Forgets, HasRow, StoreTypes
  <2> QED BY <2>1, DemoLeftAlone
<1>13. CASE Quiet \/ UNCHANGED vars
  <2>1. UNCHANGED vars /\ HasRow' = HasRow
    BY <1>13 DEF Quiet, vars, HasRow
  <2> QED BY <2>1, DemoLeftAlone DEF vars
<1> QED
  BY <1>1, <1>2, <1>3, <1>4, <1>5, <1>6, <1>7, <1>8, <1>9, <1>10, <1>11, <1>12, <1>13
  DEF Next, SaveStep, ClearStep, ReadStep, ExportStep, DemoStep

\* The file is left broken, or opened, only by the server once the demo has it open.
LEMMA StepBroken == StoreTypes /\ BrokenByServer /\ [Next]_vars => BrokenByServer'
<1> SUFFICES ASSUME StoreTypes, BrokenByServer, [Next]_vars PROVE BrokenByServer'
  OBVIOUS
<1> USE DEF tables, writing, reading, file, history, BrokenByServer, ServerWriting
<1>0. Demo \in Writers /\ Demo \notin Requests /\ Demo \notin Runs
  BY StoreAssumption DEF Writers
\* What neither opens nor writes the file.
<1>1. ASSUME UNCHANGED file,
             doing'[Demo] \in {"writing", "over"} => doing'[Demo] = doing[Demo],
             \A q \in Requests : request'[q] = "writing" => request[q] = "writing"
      PROVE  BrokenByServer'
  BY <1>1
<1>2. ASSUME NEW w \in Writers, SaveStep(w) PROVE BrokenByServer'
  <2>1. UNCHANGED <<file, request>>
    BY <1>2 DEF SaveStep, BeginSave, InsertCall, Commit, SaveFails, LockTimesOut, AllSaved
  <2>2. doing'[Demo] \in {"writing", "over"} => doing'[Demo] = doing[Demo]
    BY <1>0, <1>2 DEF SaveStep, BeginSave, InsertCall, Commit, SaveFails, LockTimesOut,
                      AllSaved, StoreTypes
  <2> QED BY <1>1, <2>1, <2>2
<1>3. CASE DemoStep
  <2>1. CASE DemoOpens
    BY <1>0, <2>1 DEF DemoOpens, StoreTypes
  <2>2. CASE DemoExports
    <3>1. /\ doing[Demo] = "writing" /\ UNCHANGED <<request, opened>>
          /\ artifact' = view[Demo] \/ opened = "both"
      BY <2>2 DEF DemoExports, WritesFile
    <3>2. view[Demo] # Broken
      BY StoreAssumption DEF StoreTypes
    <3> QED BY <3>1, <3>2
  <2>3. CASE DemoExportFails
    BY <1>0, <2>3 DEF DemoExportFails, StoreTypes
  <2> QED BY <1>3, <2>1, <2>2, <2>3 DEF DemoStep
<1>4. ASSUME NEW q \in Requests, ClearStep(q) \/ ReadStep(q) \/ ReadRows(q)
      PROVE  BrokenByServer'
  <2>1. /\ UNCHANGED <<file, doing>>
        /\ \E s \in {"clear_rows", "clear_calls", "average", "total", "export", "over"} :
              request' = [request EXCEPT ![q] = s]
    BY <1>4 DEF ClearStep, BeginClear, ClearRows, ClearCalls, ClearFails, ReadStep,
                CountByStatus, Average, CountAll, ReadRows, Goes
  <2> QED BY <1>1, <2>1 DEF StoreTypes
<1>5. ASSUME NEW q \in Requests, OpenArtifact(q) PROVE BrokenByServer'
  <2>1. opened' # "demo"
    BY <1>5 DEF OpenArtifact
  <2> QED BY <2>1
<1>6. ASSUME NEW q \in Requests, WriteArtifact(q) PROVE BrokenByServer'
  <2>1. /\ UNCHANGED <<doing, opened>> /\ request[q] = "writing"
    BY <1>6 DEF WriteArtifact, Goes
  <2> QED BY <2>1
<1>7. ASSUME NEW q \in Requests, ExportFails(q) PROVE BrokenByServer'
  <2>1. /\ UNCHANGED <<doing, opened>>
        /\ request[q] = "writing" \/ artifact' = artifact
        /\ request' = [request EXCEPT ![q] = "over"]
    BY <1>7 DEF ExportFails, BreaksOff, Goes
  <2> QED BY <2>1 DEF StoreTypes
<1>8. CASE ServerKilled
  <2>1. /\ UNCHANGED opened /\ doing'[Demo] = doing[Demo]
        /\ ServerWriting \/ artifact' = artifact
        /\ \A q \in Requests : request'[q] # "writing"
    BY <1>0, <1>8 DEF ServerKilled, BreaksOff, StoreTypes
  <2> QED BY <2>1
<1>9. CASE DemoKilled
  BY <1>0, <1>9 DEF DemoKilled, StoreTypes
<1>10. CASE Quiet \/ UNCHANGED vars
  BY <1>1, <1>10 DEF Quiet, vars
<1> QED
  BY <1>2, <1>3, <1>4, <1>5, <1>6, <1>7, <1>8, <1>9, <1>10
  DEF Next, ExportStep, DemoStep
-----------------------------------------------------------------------------
(* The theorems.                                                           *)

LEMMA StoreSafety == Spec => []StoreInv
<1>1. StoreInv /\ [Next]_vars => StoreInv'
  BY StepStoreTypes, StepTables, StepCounts, StepDemo, StepBroken DEF StoreInv, TablesAgree
<1> QED BY InitStore, <1>1, PTL DEF Spec

\* save_resolution and clear_all keep the two tables in step: a row counts no more
\* tool calls than there are, but for rows saved between the DELETEs of a clear.
THEOREM TablesInStep == Spec => []CallsBacked
<1>1. StoreInv => CallsBacked
  BY DEF StoreInv
<1> QED BY <1>1, StoreSafety, PTL

\* The queries of get_metrics give a rate within one, unless a clear overtakes.
THEOREM RatesWithinOne == Spec => []RateWithinOne
<1>1. StoreInv => RateWithinOne
  BY DEF StoreInv, CountsAreLow, RateWithinOne
<1> QED BY <1>1, StoreSafety, PTL

\* What run_demo announces is a complete document with its tickets, unless rows
\* were cleared, an export of the server has written what it had read before a later
\* commit, or one has opened the file since, or had it open, and leaves it broken.
THEOREM ExportsCover == Spec => []ExportCovers
<1>1. StoreInv => ExportCovers
  <2> SUFFICES ASSUME DemosRowsStay, BrokenByServer, StoreTypes,
                      doing[Demo] = "over", ~wiped, ~stale
               PROVE  IF artifact = Broken
                      THEN opened # "demo"
                      ELSE \A i \in DOMAIN Work[Demo] : Work[Demo][i] \in artifact
    BY DEF StoreInv, ExportCovers
  <2>1. DOMAIN Work[Demo] = 1 .. saved[Demo]
    BY StoreAssumption DEF DemosRowsStay, Writers
  <2>2. artifact # Broken => DemosTickets \subseteq artifact
    BY DEF DemosRowsStay
  <2> QED BY <2>1, <2>2 DEF BrokenByServer, DemosTickets
<1> QED BY <1>1, StoreSafety, PTL

\* The types of save_resolution's state, among them that a ticket has no more tool
\* calls than its committed saves have added, whatever fails, is killed or cleared.
THEOREM StoreTypesHold == Spec => []StoreTypeOK
<1> DEFINE Inv == StoreTypes /\ OtherTypes /\ CallsBySaves
<1>1. Init => Inv
  BY InitStore, InitOther DEF StoreInv
<1>2. Inv /\ [Next]_vars => Inv'
  BY StepStoreTypes, StepOther, StepCallsBySaves
<1>3. Inv => StoreTypeOK
  <2> SUFFICES ASSUME StoreTypes, OtherTypes, CallsBySaves PROVE StoreTypeOK
    OBVIOUS
  <2>1. ASSUME NEW t \in Tickets PROVE toolCalls[t] <= MostCalls(t)
    <3>1. /\ Cardinality(Committed(t)) \in Nat /\ Cardinality(Saves(t)) \in Nat
          /\ Cardinality(Committed(t)) <= Cardinality(Saves(t))
      BY SavesFinite, FS_Subset, FS_CardinalityType DEF Committed
    <3>2. /\ MaxCalls * Cardinality(Committed(t)) <= MaxCalls * Cardinality(Saves(t))
          /\ MaxCalls * Cardinality(Committed(t)) \in Nat
          /\ MaxCalls * Cardinality(Saves(t)) \in Nat
      BY <3>1, StoreAssumption, TimesMonotone
    <3>3. toolCalls[t] \in Nat /\ toolCalls[t] <= MaxCalls * Cardinality(Committed(t))
      BY DEF StoreTypes, CallsBySaves
    <3> HIDE DEF Committed, Saves
    <3> DEFINE p == MaxCalls * Cardinality(Committed(t))
               r == MaxCalls * Cardinality(Saves(t))
    <3>4. p \in Nat /\ r \in Nat /\ p <= r /\ toolCalls[t] <= p
      BY <3>2, <3>3
    <3> HIDE DEF p
    <3>5. toolCalls[t] <= r
      BY <3>3, <3>4
    <3> QED BY <3>5 DEF MostCalls
  <2>2. \A w \in Writers : saved[w] \in 0 .. Len(Work[w])
    BY StoreAssumption DEF StoreTypes, OtherTypes
  <2>3. report \in [Requests -> [counted: 0 .. Cardinality(Tickets),
                                 total: 0 .. Cardinality(Tickets)]]
    <3>1. \A q \in Requests : report[q] \in [counted: 0 .. Cardinality(Tickets),
                                             total: 0 .. Cardinality(Tickets)]
      BY StoreAssumption, FS_CardinalityType DEF StoreTypes, OtherTypes
    <3> QED BY <3>1 DEF StoreTypes
  <2> QED BY <2>1, <2>2, <2>3 DEF StoreTypes, OtherTypes, StoreTypeOK
<1> QED BY <1>1, <1>2, <1>3, PTL DEF Spec
=============================================================================
