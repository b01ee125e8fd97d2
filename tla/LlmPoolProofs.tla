---------------------------- MODULE LlmPoolProofs ----------------------------
(***************************************************************************)
(* The safety of WorkerPool, for runs of any length, any number of slots   *)
(* and any number of tries; that LlmPool implements it, so that it keeps   *)
(* what is proved of the pool; that it retries what it should, under any   *)
(* bounds of both retry loops and every provider; and that it cannot go on *)
(* for ever.                                                               *)
(***************************************************************************)
EXTENDS LlmPool, Measures, FiniteSetTheorems, TLAPS

(***************************************************************************)
(* Part 1: the worker pool.                                                *)
(***************************************************************************)

-----------------------------------------------------------------------------
(* The inductive invariant.                                                *)

\* The queue holds the tickets that wait, each once, in the order of the list.
QueueOrdered ==
    /\ \A i \in 1 .. Len(queue) : stage[queue[i]] = "queued"
    /\ \A i, j \in 1 .. Len(queue) : i < j => queue[i] < queue[j]
    /\ \A t \in Tickets :
          stage[t] = "queued" => \E i \in 1 .. Len(queue) : queue[i] = t

\* The list is cut in three: tickets that were given a slot, those that wait,
\* and those whose timers have not gone off.
StartedInOrder ==
    /\ \A t \in Tickets : tries[t] > 0 <=> stage[t] \notin {"staggered", "queued"}
    /\ \A t, u \in Tickets : stage[t] = "staggered" /\ stage[u] # "staggered" => u < t
    /\ \A t, u \in Tickets : stage[t] = "queued" /\ tries[u] > 0 => u < t

\* A pause is followed by another try.
TryLeft == \A t \in Tickets : stage[t] = "cooldown" => tries[t] < MaxTries

SlotsCounted ==
    /\ slots + Cardinality(Holders) = Limit
    /\ queue # <<>> => slots = 0

SlotTypes ==
    /\ stage \in [Tickets -> Stages]
    /\ slots \in 0 .. Limit
    /\ queue \in Seq(Tickets)
    /\ tries \in [Tickets -> 0 .. MaxTries]

SlotInv ==
    SlotTypes /\ QueueOrdered /\ StartedInOrder /\ TryLeft /\ SlotsCounted

\* What a task has come to and what was written about it.
ReportsMatch ==
    /\ \A t \in Tickets :
          /\ stage[t] \notin {"done", "raised"} => status[t] = "none" /\ t \notin dead
          /\ stage[t] = "done" => status[t] # "none"
          /\ stage[t] = "raised" => status[t] = "none"
          /\ status[t] = "failed" => t \in dead
          /\ status[t] = "ok" => t \notin dead
    /\ pool = "returned" => \A t \in Tickets : stage[t] = "done"

-----------------------------------------------------------------------------
(* Slots and the queue.                                                    *)

LEMMA TailFacts ==
    ASSUME NEW q \in Seq(Tickets), q # <<>>
    PROVE  /\ Tail(q) \in Seq(Tickets)
           /\ Head(q) = q[1] /\ q[1] \in Tickets
           /\ Len(q) \in Nat \ {0} /\ Len(Tail(q)) = Len(q) - 1
           /\ \A i \in 1 .. Len(q) - 1 : Tail(q)[i] = q[i + 1]
           /\ \A i \in 1 .. Len(Tail(q)) : i + 1 \in 1 .. Len(q) /\ Tail(q)[i] = q[i + 1]
<1>1. /\ Tail(q) \in Seq(Tickets)
      /\ Head(q) = q[1] /\ q[1] \in Tickets
      /\ Len(q) \in Nat \ {0} /\ Len(Tail(q)) = Len(q) - 1
      /\ \A i \in 1 .. Len(q) - 1 : Tail(q)[i] = q[i + 1]
  OBVIOUS
<1> QED BY <1>1

\* Holders are finitely many, so they can be counted one by one.
LEMMA HoldersFinite == IsFiniteSet(Holders)
<1>1. IsFiniteSet(Tickets)
  BY FS_Interval, PoolAssumption DEF Tickets
<1>2. Holders \subseteq Tickets
  BY DEF Holders
<1> QED BY <1>1, <1>2, FS_Subset

LEMMA InitSlots == Init => SlotInv
<1> SUFFICES ASSUME Init PROVE SlotInv
  OBVIOUS
<1>1. Holders = {}
  BY DEF Init, Holders
<1>2. SlotsCounted
  BY <1>1, FS_EmptySet, PoolAssumption DEF Init, SlotsCounted
<1>3. SlotTypes /\ QueueOrdered /\ StartedInOrder /\ TryLeft
  BY PoolAssumption
  DEF Init, SlotTypes, QueueOrdered, StartedInOrder, TryLeft, Stages, Tickets
<1> QED BY <1>2, <1>3 DEF SlotInv

\* A ticket that arrives comes after all that have: it takes a free slot or
\* the last place of the queue.
LEMMA ArriveSlots ==
    ASSUME SlotInv, NEW t \in Tickets, Arrive(t)
    PROVE  SlotInv'
<1> USE DEF SlotInv, SlotTypes
<1>0. /\ stage[t] = "staggered"
      /\ Tickets \subseteq Int
      /\ \A u \in Tickets : stage[u] = "staggered" => t <= u
  BY DEF Arrive, Tickets
<1>1. CASE slots > 0 /\ queue = <<>>
  <2>1. /\ slots' = slots - 1
        /\ stage' = [stage EXCEPT ![t] = "running"]
        /\ tries' = [tries EXCEPT ![t] = 1]
        /\ queue' = queue
    BY <1>1 DEF Arrive
  <2>2. SlotTypes'
    BY <1>1, <2>1, PoolAssumption DEF Stages
  <2>3. QueueOrdered'
    BY <1>1, <2>1 DEF QueueOrdered
  <2>4. StartedInOrder'
    BY <1>0, <1>1, <2>1 DEF StartedInOrder, QueueOrdered
  <2>5. Holders' = Holders \cup {t} /\ t \notin Holders
    BY <1>0, <2>1 DEF Holders
  <2>6. Cardinality(Holders') = Cardinality(Holders) + 1 /\ Cardinality(Holders) \in Nat
    BY <2>5, HoldersFinite, FS_AddElement, FS_CardinalityType
  <2>7. SlotsCounted'
    BY <1>1, <2>1, <2>6, PoolAssumption DEF SlotsCounted
  <2>8. TryLeft'
    BY <2>1 DEF TryLeft
  <2> QED BY <2>2, <2>3, <2>4, <2>7, <2>8
<1>2. CASE ~(slots > 0 /\ queue = <<>>)
  <2>1. /\ stage' = [stage EXCEPT ![t] = "queued"]
        /\ queue' = Append(queue, t)
        /\ slots' = slots /\ tries' = tries
    BY <1>2 DEF Arrive
  <2>2. SlotTypes'
    BY <2>1 DEF Stages
  <2>3. /\ Len(queue) \in Nat /\ Len(queue') = Len(queue) + 1
        /\ \A i \in 1 .. Len(queue) : queue'[i] = queue[i] /\ queue[i] \in Tickets
        /\ queue'[Len(queue) + 1] = t
    BY <2>1
  <2>4. QueueOrdered'
    <3>1. \A i \in 1 .. Len(queue') : stage'[queue'[i]] = "queued"
      BY <1>0, <2>1, <2>3 DEF QueueOrdered
    <3>2. \A i \in 1 .. Len(queue) : queue[i] < t
      BY <1>0, <2>3 DEF QueueOrdered, StartedInOrder
    <3>3. ASSUME NEW i \in 1 .. Len(queue'), NEW j \in 1 .. Len(queue'), i < j
          PROVE  queue'[i] < queue'[j]
      <4>1. i \in 1 .. Len(queue)
        BY <3>3, <2>3
      <4>2. CASE j \in 1 .. Len(queue)
        BY <3>3, <4>1, <4>2, <2>3 DEF QueueOrdered
      <4>3. CASE j = Len(queue) + 1
        BY <4>1, <4>3, <2>3, <3>2
      <4> QED BY <4>2, <4>3, <2>3
    <3>4. ASSUME NEW u \in Tickets, stage'[u] = "queued"
          PROVE  \E i \in 1 .. Len(queue') : queue'[i] = u
      <4>1. CASE u = t
        BY <4>1, <2>3
      <4>2. CASE u # t
        <5>1. PICK i \in 1 .. Len(queue) : queue[i] = u
          BY <3>4, <4>2, <2>1 DEF QueueOrdered
        <5> QED BY <5>1, <2>3
      <4> QED BY <4>1, <4>2
    <3> QED BY <3>1, <3>3, <3>4 DEF QueueOrdered
  <2>5. StartedInOrder'
    BY <1>0, <2>1 DEF StartedInOrder
  <2>6. Holders' = Holders
    BY <1>0, <2>1 DEF Holders
  <2>7. SlotsCounted'
    BY <1>2, <2>1, <2>6 DEF SlotsCounted
  <2>8. TryLeft'
    BY <2>1 DEF TryLeft
  <2> QED BY <2>2, <2>4, <2>5, <2>7, <2>8
<1> QED BY <1>1, <1>2

\* A task that ends gives its slot back, or to the first ticket of the queue.
LEMMA LeaveSlots ==
    ASSUME SlotInv, NEW t \in Tickets, stage[t] = "running",
           NEW how \in {"done", "raised"}, Leave(t, how)
    PROVE  SlotInv'
<1> USE DEF SlotInv, SlotTypes
<1>0. t \in Holders /\ Tickets \subseteq Int
  BY DEF Holders, Tickets
<1>1. CASE queue = <<>>
  <2>1. /\ slots' = slots + 1
        /\ stage' = [stage EXCEPT ![t] = how]
        /\ queue' = queue /\ tries' = tries
    BY <1>1 DEF Leave
  <2>2. Holders' = Holders \ {t}
    BY <2>1 DEF Holders
  <2>3. /\ Cardinality(Holders') = Cardinality(Holders) - 1
        /\ Cardinality(Holders) \in Nat /\ Cardinality(Holders') \in Nat
    BY <1>0, <2>2, HoldersFinite, FS_RemoveElement, FS_CardinalityType
  <2>4. SlotsCounted'
    BY <1>1, <2>1, <2>3, PoolAssumption DEF SlotsCounted
  <2>5. SlotTypes'
    BY <2>1, <2>3, <2>4, PoolAssumption DEF SlotsCounted, Stages
  <2>6. QueueOrdered'
    BY <1>1, <2>1 DEF QueueOrdered
  <2>7. StartedInOrder'
    BY <2>1 DEF StartedInOrder
  <2>8. TryLeft'
    BY <2>1 DEF TryLeft
  <2> QED BY <2>4, <2>5, <2>6, <2>7, <2>8
<1>2. CASE queue # <<>>
  <2> DEFINE h == Head(queue)
  <2>1. /\ stage' = [stage EXCEPT ![t] = how, ![h] = "running"]
        /\ tries' = [tries EXCEPT ![h] = 1]
        /\ queue' = Tail(queue)
        /\ slots' = slots
    BY <1>2 DEF Leave
  <2>2. /\ h = queue[1] /\ h \in Tickets
        /\ Len(queue) \in Nat \ {0} /\ Len(queue') = Len(queue) - 1
        /\ queue' \in Seq(Tickets)
        /\ \A i \in 1 .. Len(queue) - 1 : queue'[i] = queue[i + 1]
        /\ \A i \in 1 .. Len(queue') :
              i + 1 \in 1 .. Len(queue) /\ queue'[i] = queue[i + 1]
    BY <1>2, <2>1, TailFacts
  <2> HIDE DEF h
  <2>3. stage[h] = "queued" /\ h # t
    BY <2>2 DEF QueueOrdered
  <2>4. /\ stage'[t] = how /\ stage'[h] = "running"
        /\ tries'[h] = 1
        /\ \A u \in Tickets : u # h => tries'[u] = tries[u]
        /\ \A u \in Tickets \ {t, h} : stage'[u] = stage[u]
    BY <2>1, <2>2, <2>3
  <2>5. SlotTypes'
    <3>1. stage' \in [Tickets -> Stages]
      BY <2>1, <2>2 DEF Stages
    <3>2. tries' \in [Tickets -> 0 .. MaxTries]
      BY <2>1, <2>2, PoolAssumption
    <3> QED BY <2>1, <2>2, <3>1, <3>2
  <2>6. \A i \in 1 .. Len(queue) : queue[i] \in Tickets /\ (i > 1 => h < queue[i])
    BY <2>2 DEF QueueOrdered
  <2>7. QueueOrdered'
    <3>1. ASSUME NEW i \in 1 .. Len(queue') PROVE stage'[queue'[i]] = "queued"
      <4>1. /\ i + 1 \in 1 .. Len(queue) /\ queue'[i] = queue[i + 1]
        BY <2>2
      <4>2. i + 1 > 1
        OBVIOUS
      <4>3. stage[queue[i + 1]] = "queued" /\ queue[i + 1] # h /\ queue[i + 1] \in Tickets
        BY <4>1, <4>2, <2>2, <1>0, <2>6 DEF QueueOrdered
      <4> QED BY <4>1, <4>3, <2>4
    <3>2. ASSUME NEW i \in 1 .. Len(queue'), NEW j \in 1 .. Len(queue'), i < j
          PROVE  queue'[i] < queue'[j]
      <4>1. ASSUME NEW k \in 1 .. Len(queue')
            PROVE  k + 1 \in 1 .. Len(queue) /\ queue'[k] = queue[k + 1]
        BY <2>2
      <4>2. i + 1 < j + 1
        BY <3>2, <2>2
      <4> QED BY <4>1, <4>2 DEF QueueOrdered
    <3>3. ASSUME NEW u \in Tickets, stage'[u] = "queued"
          PROVE  \E i \in 1 .. Len(queue') : queue'[i] = u
      <4>1. u # h /\ stage[u] = "queued"
        BY <3>3, <2>4
      <4>2. PICK i \in 1 .. Len(queue) : queue[i] = u
        BY <4>1 DEF QueueOrdered
      <4>3. i # 1 /\ i - 1 \in 1 .. Len(queue')
        BY <4>1, <4>2, <2>2
      <4>4. queue'[i - 1] = queue[i]
        BY <4>3, <2>2
      <4> QED BY <4>2, <4>3, <4>4
    <3> QED BY <3>1, <3>2, <3>3 DEF QueueOrdered
  <2>8. StartedInOrder'
    <3>1. ASSUME NEW u \in Tickets
          PROVE  tries'[u] > 0 <=> stage'[u] \notin {"staggered", "queued"}
      <4>1. CASE u = h
        BY <4>1, <2>4
      <4>2. CASE u = t
        BY <4>2, <2>3, <2>4 DEF StartedInOrder
      <4>3. CASE u \notin {t, h}
        BY <4>3, <2>4 DEF StartedInOrder
      <4> QED BY <4>1, <4>2, <4>3
    <3>2. ASSUME NEW u \in Tickets, NEW v \in Tickets,
                 stage'[u] = "staggered", stage'[v] # "staggered"
          PROVE  v < u
      BY <3>2, <2>2, <2>3, <2>4 DEF StartedInOrder
    <3>3. ASSUME NEW u \in Tickets, NEW v \in Tickets,
                 stage'[u] = "queued", tries'[v] > 0
          PROVE  v < u
      <4>1. u # h /\ u # t /\ stage[u] = "queued"
        BY <3>3, <2>4
      <4>2. CASE v = h
        <5>1. PICK i \in 1 .. Len(queue) : queue[i] = u
          BY <4>1 DEF QueueOrdered
        <5>2. i # 1
          BY <5>1, <4>1, <2>2
        <5> QED BY <4>2, <5>1, <5>2, <2>2, <2>6
      <4>3. CASE v # h
        BY <3>3, <4>1, <4>3, <2>4 DEF StartedInOrder
      <4> QED BY <4>2, <4>3
    <3> QED BY <3>1, <3>2, <3>3 DEF StartedInOrder
  <2>9. Holders' = (Holders \ {t}) \cup {h} /\ h \notin Holders
    BY <2>2, <2>3, <2>4 DEF Holders
  <2>10. Cardinality(Holders') = Cardinality(Holders)
    <3>1. IsFiniteSet(Holders \ {t}) /\ Cardinality(Holders \ {t}) = Cardinality(Holders) - 1
      BY <1>0, HoldersFinite, FS_RemoveElement
    <3>2. Cardinality((Holders \ {t}) \cup {h}) = Cardinality(Holders \ {t}) + 1
      BY <2>9, <3>1, FS_AddElement
    <3>3. Cardinality(Holders) \in Nat
      BY HoldersFinite, FS_CardinalityType
    <3> QED BY <2>9, <3>1, <3>2, <3>3
  <2>11. SlotsCounted'
    BY <1>2, <2>1, <2>10 DEF SlotsCounted
  <2>12. TryLeft'
    BY <2>4 DEF TryLeft
  <2> QED BY <2>5, <2>7, <2>8, <2>11, <2>12
<1> QED BY <1>1, <1>2

LEMMA StepSlots == SlotInv /\ [Next]_vars => SlotInv'
<1> SUFFICES ASSUME SlotInv, [Next]_vars PROVE SlotInv'
  OBVIOUS
<1>1. ASSUME NEW t \in Tickets, Arrive(t) PROVE SlotInv'
  BY <1>1, ArriveSlots
<1>2. ASSUME NEW t \in Tickets, NEW how \in {"done", "raised"},
             stage[t] = "running", Leave(t, how)
      PROVE  SlotInv'
  BY <1>2, LeaveSlots
<1>3. ASSUME NEW t \in Tickets, Succeeds(t) \/ Fails(t) \/ CannotReport(t)
      PROVE  SlotInv'
  BY <1>2, <1>3 DEF Succeeds, Fails, CannotReport
<1>4. ASSUME NEW t \in Tickets, RateLimited(t) \/ TryAgain(t)
      PROVE  SlotInv'
  <2>1. /\ stage[t] \in {"running", "cooldown"}
        /\ stage' \in {[stage EXCEPT ![t] = "running"], [stage EXCEPT ![t] = "cooldown"]}
        /\ UNCHANGED <<slots, queue>>
    BY <1>4 DEF RateLimited, TryAgain
  <2>2. Holders' = Holders
    BY <2>1 DEF Holders, SlotInv, SlotTypes
  <2>3. SlotsCounted'
    BY <2>1, <2>2 DEF SlotInv, SlotsCounted
  <2>4. /\ tries[t] \in 0 .. MaxTries /\ tries[t] > 0
        /\ tries' = tries \/ tries' = [tries EXCEPT ![t] = tries[t] + 1]
    BY <1>4, <2>1 DEF SlotInv, SlotTypes, StartedInOrder, RateLimited, TryAgain
  <2>5. TryLeft' /\ tries' \in [Tickets -> 0 .. MaxTries]
    <3>1. CASE RateLimited(t)
      BY <3>1 DEF SlotInv, SlotTypes, TryLeft, RateLimited
    <3>2. CASE TryAgain(t)
      <4>1. tries[t] + 1 \in 0 .. MaxTries
        BY <3>2, <2>4, PoolAssumption DEF SlotInv, TryLeft, TryAgain
      <4> QED BY <3>2, <4>1 DEF SlotInv, SlotTypes, TryLeft, TryAgain
    <3> QED BY <1>4, <3>1, <3>2
  <2>6. \A u \in Tickets : tries'[u] > 0 <=> tries[u] > 0
    BY <2>4, PoolAssumption DEF SlotInv, SlotTypes
  <2>7. \A u \in Tickets :
           /\ stage'[u] = "queued" <=> stage[u] = "queued"
           /\ stage'[u] = "staggered" <=> stage[u] = "staggered"
    BY <2>1 DEF SlotInv, SlotTypes
  <2>8. SlotTypes' /\ StartedInOrder'
    BY <2>1, <2>5, <2>6, <2>7 DEF SlotInv, SlotTypes, Stages, StartedInOrder
  <2>9. QueueOrdered'
    <3>1. \A i \in 1 .. Len(queue) : queue[i] \in Tickets
      BY DEF SlotInv, SlotTypes
    <3> QED BY <2>1, <2>7, <3>1 DEF SlotInv, QueueOrdered
  <2> QED BY <2>3, <2>5, <2>8, <2>9 DEF SlotInv
<1>5. CASE Gathered \/ Over \/ UNCHANGED vars
  BY <1>5 DEF Gathered, Over, vars, SlotInv, SlotTypes, QueueOrdered,
              StartedInOrder, TryLeft, SlotsCounted, Holders
<1> QED BY <1>1, <1>3, <1>4, <1>5 DEF Next, Task

-----------------------------------------------------------------------------
(* Reports.                                                                *)

ReportTypes ==
    /\ status \in [Tickets -> {"none", "ok", "failed"}]
    /\ dead \subseteq Tickets
    /\ pool \in {"gathering", "returned", "raised"}

ReportInv == ReportTypes /\ ReportsMatch

PoolInv == SlotInv /\ ReportInv

\* When a task ends, the only other one that moves is one that waited.
LEMMA LeaveStages ==
    ASSUME SlotInv, NEW t \in Tickets, stage[t] = "running",
           NEW how \in {"done", "raised"}, Leave(t, how)
    PROVE  /\ stage'[t] = how /\ tries'[t] = tries[t]
           /\ \A u \in Tickets \ {t} :
                 \/ stage'[u] = stage[u] /\ tries'[u] = tries[u]
                 \/ stage[u] = "queued" /\ stage'[u] = "running" /\ tries'[u] = 1
<1>1. CASE queue = <<>>
  BY <1>1 DEF Leave, SlotInv, SlotTypes
<1>2. CASE queue # <<>>
  <2>1. Head(queue) = queue[1] /\ queue[1] \in Tickets /\ 1 \in 1 .. Len(queue)
    BY <1>2, TailFacts DEF SlotInv, SlotTypes
  <2>2. stage[Head(queue)] = "queued"
    BY <2>1 DEF SlotInv, QueueOrdered
  <2> QED BY <1>2, <2>1, <2>2 DEF Leave, SlotInv, SlotTypes
<1> QED BY <1>1, <1>2

LEMMA InitReports == Init => ReportInv
  BY DEF Init, ReportInv, ReportTypes, ReportsMatch

LEMMA StepReports == PoolInv /\ [Next]_vars => ReportInv'
<1> SUFFICES ASSUME SlotInv, ReportInv, [Next]_vars PROVE ReportInv'
  BY DEF PoolInv
<1> USE DEF ReportInv, ReportTypes
<1>0. stage \in [Tickets -> Stages]
  BY DEF SlotInv, SlotTypes
<1>1. ASSUME NEW t \in Tickets, Succeeds(t) PROVE ReportInv'
  <2>1. stage[t] = "running" /\ Leave(t, "done")
    BY <1>1 DEF Succeeds
  <2>2. /\ stage'[t] = "done"
        /\ \A u \in Tickets \ {t} :
              \/ stage'[u] = stage[u]
              \/ stage[u] = "queued" /\ stage'[u] = "running"
    BY <2>1, LeaveStages
  <2> QED BY <1>1, <2>1, <2>2 DEF Succeeds, ReportsMatch
<1>2. ASSUME NEW t \in Tickets, Fails(t) PROVE ReportInv'
  <2>1. stage[t] = "running" /\ Leave(t, "done")
    BY <1>2 DEF Fails
  <2>2. /\ stage'[t] = "done"
        /\ \A u \in Tickets \ {t} :
              \/ stage'[u] = stage[u]
              \/ stage[u] = "queued" /\ stage'[u] = "running"
    BY <2>1, LeaveStages
  <2> QED BY <1>2, <2>1, <2>2 DEF Fails, ReportsMatch
<1>3. ASSUME NEW t \in Tickets, CannotReport(t) PROVE ReportInv'
  <2>1. stage[t] = "running" /\ Leave(t, "raised")
    BY <1>3 DEF CannotReport
  <2>2. /\ stage'[t] = "raised"
        /\ \A u \in Tickets \ {t} :
              \/ stage'[u] = stage[u]
              \/ stage[u] = "queued" /\ stage'[u] = "running"
    BY <2>1, LeaveStages
  <2> QED BY <1>3, <2>1, <2>2 DEF CannotReport, ReportsMatch
<1>4. ASSUME NEW t \in Tickets, Arrive(t) \/ RateLimited(t) \/ TryAgain(t)
      PROVE  ReportInv'
  <2>1. /\ stage[t] \notin {"done", "raised"}
        /\ \E s \in Stages \ {"done", "raised"} : stage' = [stage EXCEPT ![t] = s]
        /\ UNCHANGED <<status, dead, pool>>
    BY <1>4 DEF Arrive, RateLimited, TryAgain, Stages
  <2>2. /\ stage'[t] \notin {"done", "raised"}
        /\ \A u \in Tickets \ {t} : stage'[u] = stage[u]
    BY <1>0, <2>1
  <2> QED BY <2>1, <2>2 DEF ReportsMatch
<1>5. CASE Gathered \/ Over \/ UNCHANGED vars
  BY <1>5 DEF Gathered, Over, vars, ReportsMatch
<1> QED BY <1>1, <1>2, <1>3, <1>4, <1>5 DEF Next, Task

-----------------------------------------------------------------------------
(* The theorems.                                                           *)

LEMMA PoolSafety == Spec => []PoolInv
<1>1. Init => PoolInv
  BY InitSlots, InitReports DEF PoolInv
<1>2. PoolInv /\ [Next]_vars => PoolInv'
  BY StepSlots, StepReports DEF PoolInv
<1> QED BY <1>1, <1>2, PTL DEF Spec

\* The variables of the pool keep their types; among them, no ticket is tried
\* more often than MaxTries (_process_with_rate_limit_retry).
THEOREM PoolTypes == Spec => []TypeOK
<1>1. PoolInv => TypeOK
  BY DEF PoolInv, SlotInv, SlotTypes, ReportInv, ReportTypes, TypeOK
<1> QED BY <1>1, PoolSafety, PTL

\* The semaphore of _process_one neither loses nor gains slots on any exit of a
\* task, and never has one free while a ticket waits.
THEOREM SlotsNeverLost == Spec => []SlotsAccounted
<1>1. PoolInv => SlotsAccounted
  <2> SUFFICES ASSUME SlotInv PROVE SlotsAccounted
    BY DEF PoolInv
  <2>1. \A i \in DOMAIN queue : i \in 1 .. Len(queue) /\ queue[i] \in Tickets
    BY DEF SlotInv, SlotTypes
  <2>2. {queue[i] : i \in DOMAIN queue} = {t \in Tickets : stage[t] = "queued"}
    BY <2>1 DEF SlotInv, SlotTypes, QueueOrdered
  <2> QED BY <2>2 DEF SlotInv, SlotsCounted, SlotsAccounted
<1> QED BY <1>1, PoolSafety, PTL

\* Slots go to tickets in the order of the list that run_worker_pool was given: what
\* the stagger delays and the fair semaphore make of it, not the order of priority
\* that queue.py:1-5 and triage.py:3-6 promise.
THEOREM ListOrder == Spec => []NoOvertaking
<1>1. PoolInv => NoOvertaking
  <2> SUFFICES ASSUME SlotInv, NEW t \in Tickets, NEW u \in Tickets,
                      t < u, tries[u] > 0
               PROVE  tries[t] > 0
    BY DEF PoolInv, NoOvertaking
  <2>1. ~(u < t)
    BY DEF Tickets
  <2> QED BY <2>1 DEF SlotInv, StartedInOrder
<1> QED BY <1>1, PoolSafety, PTL

\* Every failed ticket has its dead letter; in a run that returned, what has none
\* was resolved.
THEOREM FailuresLeaveLetters == Spec => []FailuresReported
<1>1. PoolInv => FailuresReported
  BY DEF PoolInv, ReportInv, ReportTypes, ReportsMatch, FailuresReported
<1> QED BY <1>1, PoolSafety, PTL
-----------------------------------------------------------------------------
(* What the pool promises of each ticket.                                  *)

StateOf(t) ==
    CASE stage[t] \in {"staggered", "queued"} -> "waiting"
      [] stage[t] = "running" -> "trying"
      [] stage[t] = "cooldown" -> "pausing"
      [] stage[t] = "done" -> IF status[t] = "ok" THEN "returned" ELSE "failed"
      [] stage[t] = "raised" -> "raised"

Life(t) == INSTANCE TicketLife
               WITH state <- StateOf(t), tries <- tries[t], letter <- (t \in dead)

\* Another ticket is left alone, or given the slot that t had.
LEMMA PoolMoves ==
    ASSUME PoolInv, NEW t \in Tickets, Task(t), NEW u \in Tickets \ {t}
    PROVE  /\ \/ stage'[u] = stage[u] /\ tries'[u] = tries[u]
              \/ stage[u] = "queued" /\ stage'[u] = "running" /\ tries'[u] = 1
           /\ status'[u] = status[u]
<1> USE DEF PoolInv, SlotInv, SlotTypes, ReportInv, ReportTypes
<1>1. CASE Arrive(t) \/ RateLimited(t) \/ TryAgain(t)
  BY <1>1 DEF Arrive, RateLimited, TryAgain
<1>2. CASE Succeeds(t)
  BY <1>2, LeaveStages DEF Succeeds
<1>3. CASE Fails(t)
  BY <1>3, LeaveStages DEF Fails
<1>4. CASE CannotReport(t)
  BY <1>4, LeaveStages DEF CannotReport
<1> QED BY <1>1, <1>2, <1>3, <1>4 DEF Task

\* The ticket of a task takes a step of its life.
LEMMA OwnLife ==
    ASSUME PoolInv, NEW t \in Tickets, Task(t)
    PROVE  [Life(t)!Next]_(Life(t)!vars)
<1> USE PoolAssumption
    DEF PoolInv, SlotInv, SlotTypes, ReportInv, ReportTypes, StateOf, Life!vars
<1>0. tries[t] \in Nat /\ stage[t] \in {"staggered", "queued"} => tries[t] = 0
  BY DEF StartedInOrder
<1>1. CASE Arrive(t)
  <2>1. stage[t] = "staggered" /\ dead' = dead /\ status' = status
    BY <1>1 DEF Arrive
  <2>2. \/ stage'[t] = "queued" /\ tries'[t] = tries[t]
        \/ stage'[t] = "running" /\ tries'[t] = 1
    BY <1>1 DEF Arrive
  <2>3. CASE stage'[t] = "queued" /\ tries'[t] = tries[t]
    BY <2>1, <2>3
  <2>4. CASE stage'[t] = "running" /\ tries'[t] = 1
    <3>1. Life(t)!Try("waiting")
      BY <1>0, <2>1, <2>4 DEF Life!Try
    <3> QED BY <3>1 DEF Life!Next
  <2> QED BY <2>2, <2>3, <2>4
<1>2. CASE RateLimited(t)
  BY <1>0, <1>2 DEF RateLimited, Life!Next, Life!Pauses, Life!Ends, ReportsMatch
<1>3. CASE TryAgain(t)
  <2>1. /\ stage[t] = "cooldown" /\ stage'[t] = "running" /\ tries'[t] = tries[t] + 1
        /\ dead' = dead /\ tries[t] < MaxTries
    BY <1>3 DEF TryAgain, TryLeft
  <2> QED BY <2>1 DEF Life!Next, Life!Try
<1>4. CASE Succeeds(t)
  <2>1. /\ stage[t] = "running" /\ stage'[t] = "done" /\ tries'[t] = tries[t]
        /\ status'[t] = "ok" /\ dead' = dead /\ t \notin dead
    BY <1>4, LeaveStages DEF Succeeds, ReportsMatch
  <2> QED BY <2>1 DEF Life!Next, Life!Ends
<1>5. CASE Fails(t)
  <2>1. /\ stage[t] = "running" /\ stage'[t] = "done" /\ tries'[t] = tries[t]
        /\ status'[t] = "failed" /\ t \in dead'
    BY <1>5, LeaveStages DEF Fails
  <2> QED BY <2>1 DEF Life!Next, Life!Ends
<1>6. CASE CannotReport(t)
  <2>1. /\ stage[t] = "running" /\ stage'[t] = "raised" /\ tries'[t] = tries[t]
        /\ (t \in dead') \in BOOLEAN
    BY <1>6, LeaveStages DEF CannotReport
  <2> QED BY <2>1 DEF Life!Next, Life!Ends
<1> QED BY <1>1, <1>2, <1>3, <1>4, <1>5, <1>6 DEF Task

\* For _process_with_rate_limit_retry as the pool sees it: each ticket is taken up
\* once, tried at most MaxTries times, and comes to one end, with its dead letter if
\* it failed, whoever else waits, pauses, fails or raises.
THEOREM TicketsLive == Spec => \A t \in Tickets : Life(t)!Spec
<1> SUFFICES ASSUME NEW t \in Tickets PROVE Spec => Life(t)!Spec
  OBVIOUS
<1>1. Init => Life(t)!Init
  BY DEF Init, Life!Init, StateOf
<1>2. PoolInv /\ [Next]_vars => [Life(t)!Next]_(Life(t)!vars)
  <2> SUFFICES ASSUME PoolInv, [Next]_vars PROVE [Life(t)!Next]_(Life(t)!vars)
    OBVIOUS
  <2>1. CASE Task(t)
    BY <2>1, OwnLife
  <2>2. ASSUME NEW u \in Tickets \ {t}, Task(u) PROVE [Life(t)!Next]_(Life(t)!vars)
    <3>1. \/ stage'[t] = stage[t] /\ tries'[t] = tries[t]
          \/ stage[t] = "queued" /\ stage'[t] = "running" /\ tries'[t] = 1
      BY <2>2, PoolMoves
    <3>2. status'[t] = status[t] /\ (t \in dead' <=> t \in dead)
      BY <2>2, PoolMoves DEF Task, Arrive, Succeeds, RateLimited, TryAgain, Fails, CannotReport
    <3>3. stage[t] = "queued" => tries[t] = 0
      BY DEF PoolInv, SlotInv, SlotTypes, StartedInOrder
    <3>4. CASE stage'[t] = stage[t] /\ tries'[t] = tries[t]
      BY <3>2, <3>4 DEF Life!vars, StateOf
    <3>5. CASE stage[t] = "queued" /\ stage'[t] = "running" /\ tries'[t] = 1
      <4>1. Life(t)!Try("waiting")
        BY <3>2, <3>3, <3>5, PoolAssumption DEF Life!Try, StateOf
      <4> QED BY <4>1 DEF Life!Next
    <3> QED BY <3>1, <3>4, <3>5
  <2>3. CASE Gathered \/ Over \/ UNCHANGED vars
    BY <2>3 DEF Gathered, Over, vars, Life!vars, StateOf
  <2> QED BY <2>1, <2>2, <2>3 DEF Next
<1> QED BY <1>1, <1>2, PoolSafety, PTL DEF Spec, Life!Spec
-----------------------------------------------------------------------------
(***************************************************************************)
(* Part 2: the clients under it.                                           *)
(***************************************************************************)

\* Whatever the clients do, the pool under them does what WorkerPool allows:
\* an API call is a stutter, an error that a client raises one of the outcomes of
\* a pipeline (_process_with_rate_limit_retry).
THEOREM ClientsUsePool == LlmSpec => Spec
<1>1. LlmInit => Init
  BY DEF LlmInit
<1>2. [LlmNext]_llmVars => [Next]_vars
  <2> SUFFICES ASSUME [LlmNext]_llmVars PROVE [Next]_vars
    OBVIOUS
  <2>1. ASSUME NEW t \in Tickets, Task(t) PROVE Next
    BY <2>1 DEF Next
  <2>2. ASSUME NEW t \in Tickets, Work(t) PROVE [Next]_vars
    <3>1. CASE Starts(t) \/ Resumes(t) \/ Resolves(t) \/ Breaks(t)
      BY <2>1, <3>1 DEF Task, Starts, Resumes, Resolves, Breaks, GivesUp
    <3>2. CASE Asks(t) \/ Answered(t) \/ CallsAgain(t)
      BY <3>2 DEF Asks, Answered, CallsAgain
    <3>3. CASE Raises(t)
      <4>1. AfterLimit(t) \/ GivesUp(t)
        BY <3>3 DEF Raises
      <4> QED BY <2>1, <4>1 DEF Task, AfterLimit, GivesUp
    <3> QED BY <2>2, <3>1, <3>2, <3>3 DEF Work
  <2>3. CASE Gathered \/ Over
    BY <2>3 DEF Next
  <2>4. CASE UNCHANGED llmVars
    BY <2>4 DEF llmVars
  <2> QED BY <2>2, <2>3, <2>4 DEF LlmNext
<1> QED BY <1>1, <1>2, PTL DEF LlmSpec, Spec

LEMMA LlmPoolSafety == LlmSpec => []PoolInv
  BY ClientsUsePool, PoolSafety, PTL

-----------------------------------------------------------------------------
(* The inductive invariant, on top of the pool's.                          *)

ClientTypes ==
    /\ provider \in Providers
    /\ calls \in [Tickets -> 0 .. MaxCalls]
    /\ answered \in [Tickets -> 0 .. MaxSteps + 2]
    /\ \A t \in Tickets : calls[t] > 0 => answered[t] < MaxSteps + 2
    /\ worst \in [Tickets -> {"nothing", "rate_limit", "limit", "final"}]
    /\ exhausted \in [Tickets -> Nat]

\* A patient client that met nothing but 429s.
Only429s(t) == provider \in Patient /\ worst[t] \in {"nothing", "rate_limit"}

TicketInv(t) ==
    \* Clients work for running tickets only.
    /\ stage[t] # "running" => calls[t] = 0 /\ answered[t] = 0
    \* The try of a running ticket is not counted yet.
    /\ exhausted[t] <= tries[t]
    /\ stage[t] = "running" => exhausted[t] < tries[t]
    \* Such clients have used up every try before.
    /\ Only429s(t) /\ stage[t] = "running" => exhausted[t] = tries[t] - 1
    /\ Only429s(t) /\ stage[t] = "cooldown" => exhausted[t] = tries[t]
    \* OnlyLimitsRetried and LimitsExhausted.
    /\ worst[t] = "final" => Ended(t) /\ status[t] # "ok"
    /\ (Ended(t) /\ status[t] # "ok" /\ worst[t] # "final") =>
          /\ tries[t] = MaxTries
          /\ provider \in Patient /\ worst[t] = "rate_limit" =>
                exhausted[t] = MaxTries

LlmInv == ClientTypes /\ \A t \in Tickets : TicketInv(t)

LEMMA InitClients == LlmInit => LlmInv
  BY PoolAssumption, ClientAssumption
  DEF LlmInit, Init, LlmInv, ClientTypes, TicketInv, Only429s, Ended

LEMMA StepClientTypes ==
    ASSUME ClientTypes, [LlmNext]_llmVars
    PROVE  ClientTypes'
<1> USE ClientAssumption DEF ClientTypes
<1>1. ASSUME NEW t \in Tickets, Starts(t) \/ Resumes(t) PROVE ClientTypes'
  BY <1>1 DEF Starts, Resumes, clientVars, historyVars
<1>2. ASSUME NEW t \in Tickets, Asks(t) PROVE ClientTypes'
  BY <1>2 DEF Asks, historyVars
<1>3. ASSUME NEW t \in Tickets, Answered(t) PROVE ClientTypes'
  <2>1. answered[t] + 1 \in 0 .. MaxSteps + 2
    BY <1>3 DEF Answered, InFlight
  <2> QED BY <1>3, <2>1 DEF Answered, historyVars
<1>4. ASSUME NEW t \in Tickets, NEW e \in Errors, Meets(t, e)
      PROVE  worst' \in [Tickets -> {"nothing", "rate_limit", "limit", "final"}]
  BY <1>4 DEF Meets
<1>5. ASSUME NEW t \in Tickets, CallsAgain(t) PROVE ClientTypes'
  <2>1. calls[t] + 1 \in 0 .. MaxCalls /\ calls[t] > 0
    BY <1>5 DEF CallsAgain, InFlight, Retries
  <2>2. worst' \in [Tickets -> {"nothing", "rate_limit", "limit", "final"}]
    BY <1>4, <1>5 DEF CallsAgain
  <2> QED BY <1>5, <2>1, <2>2 DEF CallsAgain
<1>6. ASSUME NEW t \in Tickets, Forgets(t)
      PROVE  /\ provider' \in Providers
             /\ calls' \in [Tickets -> 0 .. MaxCalls]
             /\ answered' \in [Tickets -> 0 .. MaxSteps + 2]
             /\ \A u \in Tickets : calls'[u] > 0 => answered'[u] < MaxSteps + 2
  BY <1>6 DEF Forgets
<1>7. ASSUME NEW t \in Tickets, Raises(t) PROVE ClientTypes'
  <2>1. worst' \in [Tickets -> {"nothing", "rate_limit", "limit", "final"}]
    BY <1>4, <1>7 DEF Raises
  <2>2. exhausted' \in [Tickets -> Nat]
    BY <1>7 DEF Raises, TryEnds
  <2> QED BY <1>6, <1>7, <2>1, <2>2 DEF Raises
<1>8. ASSUME NEW t \in Tickets, Breaks(t) \/ Resolves(t) PROVE ClientTypes'
  <2>1. /\ worst' \in [Tickets -> {"nothing", "rate_limit", "limit", "final"}]
        /\ exhausted' \in [Tickets -> Nat]
    BY <1>8 DEF Breaks, Resolves, historyVars
  <2> QED BY <1>6, <1>8, <2>1 DEF Breaks, Resolves
<1>9. CASE UNCHANGED <<provider, clientVars, historyVars>>
  BY <1>9 DEF clientVars, historyVars
<1> QED
  BY <1>1, <1>2, <1>3, <1>5, <1>7, <1>8, <1>9 DEF LlmNext, Work, llmVars
-----------------------------------------------------------------------------
(* A step of one ticket, seen from another and from itself.                *)

LEMMA OtherTickets ==
    ASSUME PoolInv, LlmInv, NEW t \in Tickets, Work(t), NEW u \in Tickets \ {t}
    PROVE  TicketInv(u)'
<1>1. /\ calls'[u] = calls[u] /\ answered'[u] = answered[u]
      /\ exhausted'[u] = exhausted[u] /\ worst'[u] = worst[u]
      /\ provider' = provider
  BY DEF Work, Starts, Resumes, Asks, Answered, CallsAgain, Raises, Breaks,
         Resolves, Meets, Forgets, TryEnds, clientVars, historyVars,
         LlmInv, ClientTypes
<1>2. Task(t) \/ UNCHANGED vars
  BY DEF Work, Starts, Resumes, Asks, Answered, CallsAgain, Raises, Breaks,
         Resolves, AfterLimit, GivesUp, Task
<1>3. /\ \/ stage'[u] = stage[u] /\ tries'[u] = tries[u]
         \/ stage[u] = "queued" /\ stage'[u] = "running" /\ tries'[u] = 1
      /\ status'[u] = status[u]
  BY <1>2, PoolMoves DEF vars
<1>4. TicketInv(u) /\ exhausted[u] \in Nat
  BY DEF LlmInv, ClientTypes
<1>5. CASE stage'[u] = stage[u] /\ tries'[u] = tries[u]
  BY <1>1, <1>3, <1>4, <1>5 DEF TicketInv, Only429s, Ended
<1>6. CASE stage[u] = "queued" /\ stage'[u] = "running" /\ tries'[u] = 1
  <2>1. tries[u] = 0
    BY <1>6 DEF PoolInv, SlotInv, SlotTypes, StartedInOrder
  <2>2. exhausted[u] = 0 /\ worst[u] # "final"
    BY <1>4, <1>6, <2>1 DEF TicketInv, Ended
  <2> QED BY <1>1, <1>6, <2>2 DEF TicketInv, Only429s, Ended
<1> QED BY <1>3, <1>5, <1>6

\* How a try ends that is not tried again.
LEMMA GivenUp ==
    ASSUME PoolInv, NEW t \in Tickets, GivesUp(t)
    PROVE  /\ stage[t] = "running" /\ stage'[t] \in {"done", "raised"}
           /\ tries'[t] = tries[t]
           /\ status'[t] # "ok"
<1> USE DEF PoolInv, ReportInv, ReportTypes
<1>1. CASE Fails(t)
  BY <1>1, LeaveStages DEF Fails
<1>2. CASE CannotReport(t)
  <2>1. status[t] = "none"
    BY <1>2 DEF CannotReport, ReportsMatch
  <2> QED BY <1>2, <2>1, LeaveStages DEF CannotReport
<1> QED BY <1>1, <1>2 DEF GivesUp

\* What is left to show of the ticket itself, from what each kind of step does.
LEMMA RaisesOwn ==
    ASSUME PoolInv, LlmInv, NEW t \in Tickets, Raises(t)
    PROVE  TicketInv(t)'
<1>0. /\ stage[t] = "running" /\ calls[t] \in 1 .. MaxCalls
      /\ tries[t] \in 0 .. MaxTries /\ exhausted[t] \in Nat
      /\ exhausted[t] < tries[t]
      /\ worst[t] \in {"nothing", "rate_limit", "limit"}
      /\ Only429s(t) => exhausted[t] = tries[t] - 1
  <2>1. stage[t] = "running" /\ calls[t] > 0 /\ TicketInv(t)
    BY DEF Raises, InFlight, LlmInv
  <2>2. /\ calls[t] \in 0 .. MaxCalls /\ exhausted[t] \in Nat
        /\ tries[t] \in 0 .. MaxTries
        /\ worst[t] \in {"nothing", "rate_limit", "limit", "final"}
    BY DEF LlmInv, ClientTypes, PoolInv, SlotInv, SlotTypes
  <2> QED BY <2>1, <2>2, ClientAssumption DEF TicketInv, Ended
<1>1. PICK e \in Errors :
         /\ ~Retries(t, e)
         /\ Meets(t, e)
         /\ IF ReadAsLimit(e) THEN AfterLimit(t) ELSE GivesUp(t)
  BY DEF Raises
<1>2. /\ exhausted'[t] = IF calls[t] = MaxCalls THEN exhausted[t] + 1 ELSE exhausted[t]
      /\ calls'[t] = 0 /\ answered'[t] = 0
      /\ provider' = provider
  BY DEF Raises, TryEnds, Forgets, LlmInv, ClientTypes
<1>3. CASE ~ReadAsLimit(e)
  <2>1. worst'[t] = "final"
    BY <1>1, <1>3 DEF Meets, LlmInv, ClientTypes
  <2>2. /\ stage'[t] \in {"done", "raised"} /\ tries'[t] = tries[t]
        /\ status'[t] # "ok"
    BY <1>1, <1>3, GivenUp
  <2> QED BY <1>0, <1>2, <2>1, <2>2, PoolAssumption DEF TicketInv, Only429s, Ended
<1>4. CASE ReadAsLimit(e)
  <2>1. worst'[t] = IF e # "rate_limit" THEN "limit"
                    ELSE IF worst[t] = "nothing" THEN "rate_limit" ELSE worst[t]
    BY <1>1, <1>4 DEF Meets, LlmInv, ClientTypes
  <2>2. worst'[t] # "final"
    BY <1>0, <2>1
  \* A patient client lets go of a 429 at its last call only.
  <2>3. ASSUME Only429s(t)' PROVE exhausted'[t] = tries[t]
    <3>1. e = "rate_limit" /\ Only429s(t)
      BY <1>0, <1>2, <2>1, <2>3 DEF Only429s
    <3>2. calls[t] = MaxCalls
      BY <1>0, <1>1, <3>1, ClientAssumption DEF Retries, Only429s
    <3> QED BY <1>0, <1>2, <3>1, <3>2
  <2>4. exhausted'[t] <= tries[t]
    BY <1>0, <1>2
  <2>5. CASE RateLimited(t)
    <3>1. stage'[t] = "cooldown" /\ tries'[t] = tries[t]
      BY <2>5 DEF RateLimited, PoolInv, SlotInv, SlotTypes
    <3> QED BY <1>2, <2>2, <2>3, <2>4, <3>1 DEF TicketInv, Ended
  <2>6. CASE tries[t] = MaxTries /\ GivesUp(t)
    <3>1. /\ stage'[t] \in {"done", "raised"} /\ tries'[t] = tries[t]
          /\ status'[t] # "ok"
      BY <2>6, GivenUp
    <3>2. provider' \in Patient /\ worst'[t] = "rate_limit" => exhausted'[t] = MaxTries
      BY <2>3, <2>6 DEF Only429s
    <3> QED BY <1>2, <2>2, <2>4, <2>6, <3>1, <3>2 DEF TicketInv, Ended
  <2> QED BY <1>1, <1>4, <2>5, <2>6 DEF AfterLimit
<1> QED BY <1>3, <1>4

LEMMA OwnTicket ==
    ASSUME PoolInv, LlmInv, NEW t \in Tickets, Work(t)
    PROVE  TicketInv(t)'
<1>0. /\ TicketInv(t) /\ exhausted[t] \in Nat /\ tries[t] \in 0 .. MaxTries
      /\ stage \in [Tickets -> Stages]
      /\ stage[t] \in {"staggered", "queued"} => tries[t] = 0
  BY DEF LlmInv, ClientTypes, PoolInv, SlotInv, SlotTypes, StartedInOrder
<1>1. CASE Starts(t)
  <2>1. /\ stage[t] = "staggered"
        /\ \/ stage'[t] = "running" /\ tries'[t] = 1
           \/ stage'[t] = "queued" /\ tries'[t] = tries[t]
        /\ UNCHANGED <<status, provider, clientVars, historyVars>>
    BY <1>1 DEF Starts, Arrive, PoolInv, SlotInv, SlotTypes
  <2> QED BY <1>0, <2>1 DEF TicketInv, Only429s, Ended, clientVars, historyVars
<1>2. CASE Resumes(t)
  <2>1. /\ stage[t] = "cooldown" /\ stage'[t] = "running"
        /\ tries'[t] = tries[t] + 1
        /\ UNCHANGED <<status, provider, clientVars, historyVars>>
    BY <1>2 DEF Resumes, TryAgain, PoolInv, SlotInv, SlotTypes
  <2> QED BY <1>0, <2>1 DEF TicketInv, Only429s, Ended, clientVars, historyVars
<1>3. CASE Asks(t) \/ Answered(t)
  <2>1. stage[t] = "running" /\ UNCHANGED <<vars, provider, historyVars>>
    BY <1>3 DEF Asks, Answered, InFlight
  <2> QED BY <1>0, <2>1 DEF TicketInv, Only429s, Ended, vars, historyVars
<1>4. CASE CallsAgain(t)
  <2>1. PICK e \in Errors : Retries(t, e) /\ Meets(t, e)
    BY <1>4 DEF CallsAgain
  <2>2. e = "rate_limit" /\ ReadAsLimit(e)
    BY <2>1 DEF Retries, Patient, ReadAsLimit, GroqLimits, OpenAILimits
  <2>3. worst'[t] = IF worst[t] = "nothing" THEN "rate_limit" ELSE worst[t]
    BY <2>1, <2>2 DEF Meets, LlmInv, ClientTypes
  <2>4. stage[t] = "running" /\ UNCHANGED <<vars, provider, exhausted>>
    BY <1>4 DEF CallsAgain, InFlight
  <2> QED BY <1>0, <2>3, <2>4 DEF TicketInv, Only429s, Ended, vars
<1>5. CASE Raises(t)
  BY <1>5, RaisesOwn
<1>6. CASE Breaks(t)
  <2>1. /\ stage[t] = "running" /\ stage'[t] \in {"done", "raised"}
        /\ tries'[t] = tries[t] /\ status'[t] # "ok"
    BY <1>6, GivenUp DEF Breaks
  <2>2. /\ worst'[t] = "final" /\ calls'[t] = 0 /\ answered'[t] = 0
        /\ exhausted'[t] = exhausted[t]
    BY <1>6 DEF Breaks, Forgets, LlmInv, ClientTypes
  <2> QED BY <1>0, <2>1, <2>2 DEF TicketInv, Only429s, Ended
<1>7. CASE Resolves(t)
  <2>1. stage[t] = "running" /\ Leave(t, "done")
    BY <1>7 DEF Resolves, Succeeds
  <2>2. stage'[t] = "done" /\ tries'[t] = tries[t]
    BY <2>1, LeaveStages DEF PoolInv
  <2>3. /\ status'[t] = "ok" /\ calls'[t] = 0 /\ answered'[t] = 0
        /\ provider' = provider /\ UNCHANGED historyVars
    BY <1>7 DEF Resolves, Succeeds, Forgets, LlmInv, ClientTypes,
                PoolInv, ReportInv, ReportTypes
  <2>4. worst[t] # "final"
    BY <1>0, <2>1 DEF TicketInv, Ended
  <2> QED BY <1>0, <2>1, <2>2, <2>3, <2>4 DEF TicketInv, Only429s, Ended, historyVars
<1> QED BY <1>1, <1>2, <1>3, <1>4, <1>5, <1>6, <1>7 DEF Work

LEMMA StepClients == PoolInv /\ LlmInv /\ [LlmNext]_llmVars => LlmInv'
<1> SUFFICES ASSUME PoolInv, LlmInv, [LlmNext]_llmVars PROVE LlmInv'
  OBVIOUS
<1>1. ClientTypes'
  BY StepClientTypes DEF LlmInv
<1>2. ASSUME NEW t \in Tickets, Work(t) PROVE \A u \in Tickets : TicketInv(u)'
  BY <1>2, OtherTickets, OwnTicket
<1>3. ASSUME UNCHANGED <<stage, tries, status, provider, clientVars, historyVars>>
      PROVE  \A u \in Tickets : TicketInv(u)'
  BY <1>3 DEF clientVars, historyVars, LlmInv, TicketInv, Only429s, Ended
<1>4. \/ \E t \in Tickets : Work(t)
      \/ UNCHANGED <<stage, tries, status, provider, clientVars, historyVars>>
  BY DEF LlmNext, Gathered, Over, llmVars, vars
<1>5. \A u \in Tickets : TicketInv(u)'
  BY <1>2, <1>3, <1>4
<1> QED BY <1>1, <1>5 DEF LlmInv
-----------------------------------------------------------------------------
(* The theorems.                                                           *)

LEMMA LlmSafety == LlmSpec => [](PoolInv /\ LlmInv)
  BY LlmPoolSafety, InitClients, StepClients, PTL DEF LlmSpec

\* All variables keep their types: no question takes more than MaxCalls calls
\* (_invoke_with_rate_limit_retry), no try more than MaxSteps + 2 questions.
THEOREM LlmTypes == LlmSpec => []LlmTypeOK
<1>1. PoolInv /\ LlmInv => LlmTypeOK
  <2> SUFFICES ASSUME PoolInv, LlmInv PROVE LlmTypeOK
    OBVIOUS
  <2>1. TypeOK
    BY DEF PoolInv, SlotInv, SlotTypes, ReportInv, ReportTypes, TypeOK
  <2>2. \A t \in Tickets : exhausted[t] \in 0 .. MaxTries
    BY PoolAssumption DEF PoolInv, SlotInv, SlotTypes, LlmInv, ClientTypes, TicketInv
  <2> QED BY <2>1, <2>2 DEF LlmInv, ClientTypes, TicketInv, LlmTypeOK
<1> QED BY <1>1, LlmSafety, PTL

\* A ticket that met an error which its client does not read as a rate limit is
\* worked on no more and is not resolved (worker_pool.py:40-44).
THEOREM FinalErrorsEnd == LlmSpec => []OnlyLimitsRetried
<1>1. LlmInv => OnlyLimitsRetried
  BY DEF LlmInv, TicketInv, OnlyLimitsRetried
<1> QED BY <1>1, LlmSafety, PTL

\* Nobody gives a ticket up for rate limits before every try of the worker, and
\* every call of a patient client in it, was used up.
THEOREM LimitsGivenUpLast == LlmSpec => []LimitsExhausted
<1>1. LlmInv => LimitsExhausted
  BY DEF LlmInv, TicketInv, LimitsExhausted
<1> QED BY <1>1, LlmSafety, PTL

\* The pool's safety holds with the clients under it: slots, order and reports.
THEOREM PoolSafeWithClients ==
    LlmSpec => [](SlotsAccounted /\ NoOvertaking /\ FailuresReported)
  BY ClientsUsePool, SlotsNeverLost, ListOrder, FailuresLeaveLetters, PTL
(***************************************************************************)
(* Part 3: every run ends.  Each step brings the run closer to its end, so *)
(* that whatever fails and is retried, only finitely many steps are left.  *)
(***************************************************************************)
StageRank ==
    [staggered |-> 4, queued |-> 3, running |-> 2, cooldown |-> 1, done |-> 0, raised |-> 0]

\* What a ticket has ahead of it: tries, stages of this try, questions, calls.
Left(t) ==
    <<MaxTries - tries[t], StageRank[stage[t]], (MaxSteps + 2) - answered[t],
      MaxCalls - calls[t]>>

RunLeft == [t \in 1 .. Count |-> Left(t)]
Lefts == [1 .. 4 -> Nat]
RunOrder == LexProductOrdering(LexOrder(4), Lefts, Count)

\* No run can go down in this order for ever.
LEMMA RunOrderWellFounded == IsWellFoundedOn(RunOrder, [1 .. Count -> Lefts])
<1>1. IsWellFoundedOn(LexOrder(4), Lefts)
  BY LexWellFounded DEF Lefts
<1> QED BY <1>1, WFLexProductOrdering, PoolAssumption DEF RunOrder

LEMMA LeftType == PoolInv /\ LlmInv => \A t \in Tickets : Left(t) \in Lefts
<1> SUFFICES ASSUME PoolInv, LlmInv, NEW t \in Tickets PROVE Left(t) \in Lefts
  OBVIOUS
<1>1. /\ tries[t] \in 0 .. MaxTries /\ stage[t] \in Stages
      /\ answered[t] \in 0 .. MaxSteps + 2 /\ calls[t] \in 0 .. MaxCalls
  BY DEF PoolInv, SlotInv, SlotTypes, LlmInv, ClientTypes
<1>2. MaxTries - tries[t] \in Nat
  BY <1>1, PoolAssumption
<1>3. (MaxSteps + 2) - answered[t] \in Nat /\ MaxCalls - calls[t] \in Nat
  BY <1>1, ClientAssumption
<1>4. StageRank[stage[t]] \in Nat
  BY <1>1 DEF Stages, StageRank
<1> QED BY <1>2, <1>3, <1>4 DEF Left, Lefts

LEMMA LeftTypeNext ==
    (PoolInv /\ LlmInv)' => (\A t \in Tickets : Left(t) \in Lefts)'
  BY LeftType, PTL

\* A ticket goes down when it has fewer tries left, or as many and less of the rest.
LEMMA TicketGoesDown ==
    ASSUME PoolInv, LlmInv, PoolInv', LlmInv', NEW t \in Tickets,
           \/ tries[t] < tries'[t]
           \/ /\ tries'[t] = tries[t]
              /\ \/ StageRank[stage'[t]] < StageRank[stage[t]]
                 \/ /\ stage'[t] = stage[t]
                    /\ \/ answered[t] < answered'[t]
                       \/ answered'[t] = answered[t] /\ calls[t] < calls'[t]
    PROVE  <<Left(t)', Left(t)>> \in LexOrder(4)
<1> DEFINE f == Left(t)'
           g == Left(t)
<1>1. f \in [1 .. 4 -> Nat] /\ g \in [1 .. 4 -> Nat]
  BY LeftType, LeftTypeNext DEF Lefts
<1>2. /\ f[1] = MaxTries - tries'[t] /\ g[1] = MaxTries - tries[t]
      /\ f[2] = StageRank[stage'[t]] /\ g[2] = StageRank[stage[t]]
      /\ f[3] = (MaxSteps + 2) - answered'[t] /\ g[3] = (MaxSteps + 2) - answered[t]
      /\ f[4] = MaxCalls - calls'[t] /\ g[4] = MaxCalls - calls[t]
  BY DEF Left
<1>3. /\ tries[t] \in Nat /\ tries'[t] \in Nat /\ MaxTries \in Nat /\ MaxSteps \in Nat
      /\ answered[t] \in Nat /\ answered'[t] \in Nat
      /\ calls[t] \in Nat /\ calls'[t] \in Nat /\ MaxCalls \in Nat
  BY PoolAssumption, ClientAssumption
  DEF PoolInv, SlotInv, SlotTypes, LlmInv, ClientTypes
<1> HIDE DEF f, g
<1>4. \E j \in 1 .. 4 : f[j] < g[j] /\ \A i \in 1 .. 4 : i < j => f[i] = g[i]
  <2>1. CASE tries[t] < tries'[t]
    <3>1. f[1] < g[1] /\ \A i \in 1 .. 4 : i < 1 => f[i] = g[i]
      BY <1>2, <1>3, <2>1
    <3> QED BY <3>1
  <2>2. CASE tries'[t] = tries[t] /\ StageRank[stage'[t]] < StageRank[stage[t]]
    <3>1. f[2] < g[2] /\ \A i \in 1 .. 4 : i < 2 => f[i] = g[i]
      BY <1>2, <2>2
    <3> QED BY <3>1
  <2>3. CASE tries'[t] = tries[t] /\ stage'[t] = stage[t] /\ answered[t] < answered'[t]
    <3>1. f[3] < g[3] /\ \A i \in 1 .. 4 : i < 3 => f[i] = g[i]
      BY <1>2, <1>3, <2>3
    <3> QED BY <3>1
  <2>4. CASE /\ tries'[t] = tries[t] /\ stage'[t] = stage[t]
             /\ answered'[t] = answered[t] /\ calls[t] < calls'[t]
    <3>1. f[4] < g[4] /\ \A i \in 1 .. 4 : i < 4 => f[i] = g[i]
      BY <1>2, <1>3, <2>4
    <3> QED BY <3>1
  <2> QED BY <2>1, <2>2, <2>3, <2>4
<1> QED BY <1>1, <1>4, GoesDown DEF f, g

\* The ticket that takes a step goes down.
LEMMA WorkerGoesDown ==
    ASSUME PoolInv, LlmInv, PoolInv', LlmInv', NEW t \in Tickets, Work(t)
    PROVE  <<Left(t)', Left(t)>> \in LexOrder(4)
<1>0. /\ tries[t] \in Nat /\ stage \in [Tickets -> Stages]
      /\ tries \in [Tickets -> 0 .. MaxTries]
      /\ calls \in [Tickets -> 0 .. MaxCalls] /\ calls[t] \in Nat
      /\ answered \in [Tickets -> 0 .. MaxSteps + 2] /\ answered[t] \in Nat
      /\ stage[t] \in {"staggered", "queued"} => tries[t] = 0
  BY PoolAssumption, ClientAssumption
  DEF PoolInv, SlotInv, SlotTypes, StartedInOrder, LlmInv, ClientTypes
<1>1. CASE Starts(t)
  <2>1. \/ stage'[t] = "queued" /\ stage[t] = "staggered" /\ tries'[t] = tries[t]
        \/ tries[t] < tries'[t]
    BY <1>0, <1>1 DEF Starts, Arrive
  <2> QED BY <2>1, TicketGoesDown DEF StageRank
<1>2. CASE Resumes(t)
  <2>1. tries'[t] = tries[t] + 1
    BY <1>0, <1>2 DEF Resumes, TryAgain
  <2> QED BY <1>0, <2>1, TicketGoesDown
<1>3. CASE Asks(t) \/ CallsAgain(t)
  <2>1. /\ UNCHANGED <<stage, tries, answered>>
        /\ calls'[t] = calls[t] + 1
    BY <1>0, <1>3 DEF Asks, CallsAgain, vars
  <2> QED BY <1>0, <2>1, TicketGoesDown
<1>4. CASE Answered(t)
  <2>1. UNCHANGED <<stage, tries>> /\ answered'[t] = answered[t] + 1
    BY <1>0, <1>4 DEF Answered, vars
  <2> QED BY <1>0, <2>1, TicketGoesDown
<1>5. CASE RateLimited(t) \/ GivesUp(t) \/ Succeeds(t)
  <2>1. stage[t] = "running"
    BY <1>5 DEF RateLimited, GivesUp, Fails, CannotReport, Succeeds
  <2>2. stage'[t] \in {"cooldown", "done", "raised"} /\ tries'[t] = tries[t]
    <3>1. CASE RateLimited(t)
      BY <1>0, <3>1 DEF RateLimited
    <3>2. CASE GivesUp(t)
      BY <3>2, GivenUp
    <3>3. CASE Succeeds(t)
      BY <2>1, <3>3, LeaveStages DEF Succeeds, PoolInv
    <3> QED BY <1>5, <3>1, <3>2, <3>3
  <2> QED BY <2>1, <2>2, TicketGoesDown DEF StageRank
<1>6. CASE Raises(t)
  BY <1>5, <1>6 DEF Raises, AfterLimit
<1>7. CASE Breaks(t) \/ Resolves(t)
  BY <1>5, <1>7 DEF Breaks, Resolves
<1> QED BY <1>1, <1>2, <1>3, <1>4, <1>6, <1>7 DEF Work

\* Every other ticket stays or, given the slot, goes down as well.
LEMMA OthersStayOrGoDown ==
    ASSUME PoolInv, LlmInv, PoolInv', LlmInv', NEW t \in Tickets, Work(t),
           NEW u \in Tickets \ {t}
    PROVE  Left(u)' = Left(u) \/ <<Left(u)', Left(u)>> \in LexOrder(4)
<1>1. calls'[u] = calls[u] /\ answered'[u] = answered[u]
  BY DEF Work, Starts, Resumes, Asks, Answered, CallsAgain, Raises, Breaks,
         Resolves, Forgets, clientVars, LlmInv, ClientTypes
<1>2. Task(t) \/ UNCHANGED vars
  BY DEF Work, Starts, Resumes, Asks, Answered, CallsAgain, Raises, Breaks,
         Resolves, AfterLimit, GivesUp, Task
<1>3. \/ stage'[u] = stage[u] /\ tries'[u] = tries[u]
      \/ stage[u] = "queued" /\ stage'[u] = "running" /\ tries'[u] = 1
  BY <1>2, PoolMoves DEF vars
<1>4. CASE stage'[u] = stage[u] /\ tries'[u] = tries[u]
  BY <1>1, <1>4 DEF Left
<1>5. CASE stage[u] = "queued" /\ tries'[u] = 1
  <2>1. tries[u] = 0
    BY <1>5 DEF PoolInv, SlotInv, SlotTypes, StartedInOrder
  <2> QED BY <1>5, <2>1, TicketGoesDown
<1> QED BY <1>3, <1>4, <1>5

\* The safety core of RunEnds: whatever the provider answers and however the tickets
\* interleave, a step that a ticket takes uses up some of what the run has left, in
\* an order in which nothing goes down for ever; the one other step is the return of
\* run_worker_pool.  So retries of clients and workers cannot feed each other, and a
\* run that did not end would have to stand still.
THEOREM WorkRunsOut ==
    /\ IsWellFoundedOn(RunOrder, [1 .. Count -> Lefts])
    /\ LlmSpec => [](RunLeft \in [1 .. Count -> Lefts])
    /\ LlmSpec => [][\/ <<RunLeft', RunLeft>> \in RunOrder
                     \/ pool = "gathering" /\ pool' = "returned"]_llmVars
<1>1. PoolInv /\ LlmInv => RunLeft \in [1 .. Count -> Lefts]
  BY LeftType DEF RunLeft, Tickets
<1>2. PoolInv /\ LlmInv /\ PoolInv' /\ LlmInv' /\ [LlmNext]_llmVars =>
         [\/ <<RunLeft', RunLeft>> \in RunOrder
          \/ pool = "gathering" /\ pool' = "returned"]_llmVars
  <2> SUFFICES ASSUME PoolInv, LlmInv, PoolInv', LlmInv', LlmNext, ~UNCHANGED llmVars
               PROVE  \/ <<RunLeft', RunLeft>> \in RunOrder
                      \/ pool = "gathering" /\ pool' = "returned"
    OBVIOUS
  <2>1. ASSUME NEW t \in Tickets, Work(t) PROVE <<RunLeft', RunLeft>> \in RunOrder
    <3>1. <<Left(t)', Left(t)>> \in LexOrder(4)
      BY <2>1, WorkerGoesDown
    <3>2. Left(t)' # Left(t)
      <4>1. Left(t) \in Lefts
        BY LeftType
      <4> QED BY <3>1, <4>1, LexWellFounded, WellFoundedIsIrreflexive DEF Lefts
    <3>3. RunLeft \in [1 .. Count -> Lefts] /\ RunLeft' \in [1 .. Count -> Lefts]
      BY LeftType, LeftTypeNext DEF RunLeft, Tickets
    <3>4. \A u \in 1 .. Count : RunLeft[u] = Left(u) /\ RunLeft'[u] = Left(u)'
      BY DEF RunLeft
    <3>5. \A u \in 1 .. Count :
             RunLeft'[u] = RunLeft[u] \/ <<RunLeft'[u], RunLeft[u]>> \in LexOrder(4)
      BY <2>1, <3>1, <3>4, OthersStayOrGoDown DEF Tickets
    <3> QED BY <3>1, <3>2, <3>3, <3>4, <3>5, RowGoesDown, PoolAssumption
            DEF RunOrder, Tickets
  <2>2. CASE (Gathered \/ Over) /\ UNCHANGED <<provider, clientVars, historyVars>>
    BY <2>2 DEF Gathered, Over, llmVars
  <2> QED BY <2>1, <2>2 DEF LlmNext
<1>3. LlmSpec => [](RunLeft \in [1 .. Count -> Lefts])
  BY <1>1, LlmSafety, PTL
<1>4. LlmSpec => [][\/ <<RunLeft', RunLeft>> \in RunOrder
                    \/ pool = "gathering" /\ pool' = "returned"]_llmVars
  BY <1>2, LlmSafety, PTL DEF LlmSpec
<1> QED BY <1>3, <1>4, RunOrderWellFounded
=============================================================================
