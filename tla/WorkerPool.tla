----------------------------- MODULE WorkerPool -----------------------------
(***************************************************************************)
(* run_worker_pool of backend/ingestion/worker_pool.py: the tickets of a   *)
(* run, started one stagger delay apart, bounded by a semaphore, each with *)
(* its rate-limit retries and its dead letter, and the gather that waits   *)
(* for all of them.  What a pipeline does is TicketSession's matter; here  *)
(* it succeeds, runs into a rate limit or raises something else.           *)
(***************************************************************************)
EXTENDS Integers, Sequences, FiniteSets

CONSTANTS
    Count,     \* how many tickets the run has
    Limit,     \* settings.max_concurrent_tickets
    MaxTries   \* _WORKER_RATE_LIMIT_RETRIES + 1

\* The tickets, as positions in the list of the run.
Tickets == 1 .. Count

ASSUME PoolAssumption ==
    /\ Count \in Nat
    /\ Limit \in Nat \ {0}
    /\ MaxTries \in Nat \ {0}

VARIABLES
    stage,    \* where the task of each ticket is
    slots,    \* the semaphore's value
    queue,    \* tasks that wait for the semaphore
    tries,    \* pipeline attempts begun for a ticket
    status,   \* status of the Resolution a task returned
    dead,     \* tickets in the dead letter file
    pool      \* what run_worker_pool has come to

vars == <<stage, slots, queue, tries, status, dead, pool>>

Stages == {"staggered", "queued", "running", "cooldown", "done", "raised"}

TypeOK ==
    /\ stage \in [Tickets -> Stages]
    /\ slots \in 0 .. Limit
    /\ queue \in Seq(Tickets)
    /\ tries \in [Tickets -> 0 .. MaxTries]
    /\ status \in [Tickets -> {"none", "ok", "failed"}]
    /\ dead \subseteq Tickets
    /\ pool \in {"gathering", "returned", "raised"}

Init ==
    /\ stage = [t \in Tickets |-> "staggered"]
    /\ slots = Limit
    /\ queue = <<>>
    /\ tries = [t \in Tickets |-> 0]
    /\ status = [t \in Tickets |-> "none"]
    /\ dead = {}
    /\ pool = "gathering"

\* Ticket t sleeps (t - 1) * 3 s, so timers go off in list order.  A task takes
\* a free slot only when nobody waits for one.
Arrive(t) ==
    /\ stage[t] = "staggered"
    /\ \A u \in Tickets : stage[u] = "staggered" => t <= u
    /\ IF slots > 0 /\ queue = <<>>
       THEN /\ slots' = slots - 1
            /\ stage' = [stage EXCEPT ![t] = "running"]
            /\ tries' = [tries EXCEPT ![t] = 1]
            /\ UNCHANGED queue
       ELSE /\ stage' = [stage EXCEPT ![t] = "queued"]
            /\ queue' = Append(queue, t)
            /\ UNCHANGED <<slots, tries>>
    /\ UNCHANGED <<status, dead, pool>>

\* Leaving "async with sem": the first waiter gets the slot, in turn.
Leave(t, how) ==
    IF queue = <<>>
    THEN /\ slots' = slots + 1
         /\ stage' = [stage EXCEPT ![t] = how]
         /\ UNCHANGED <<queue, tries>>
    ELSE /\ stage' = [stage EXCEPT ![t] = how, ![Head(queue)] = "running"]
         /\ tries' = [tries EXCEPT ![Head(queue)] = 1]
         /\ queue' = Tail(queue)
         /\ UNCHANGED slots

Succeeds(t) ==
    /\ stage[t] = "running"
    /\ Leave(t, "done")
    /\ status' = [status EXCEPT ![t] = "ok"]
    /\ UNCHANGED <<dead, pool>>

\* The pause after a rate limit is slept with the slot held.
RateLimited(t) ==
    /\ stage[t] = "running"
    /\ tries[t] < MaxTries
    /\ stage' = [stage EXCEPT ![t] = "cooldown"]
    /\ UNCHANGED <<slots, queue, tries, status, dead, pool>>

\* Mutant of TryAgain: attempts are not counted.
TryAgainUncounted(t) ==
    /\ stage[t] = "cooldown"
    /\ stage' = [stage EXCEPT ![t] = "running"]
    /\ UNCHANGED <<slots, queue, tries, status, dead, pool>>

TryAgain(t) ==
    /\ stage[t] = "cooldown"
    /\ stage' = [stage EXCEPT ![t] = "running"]
    /\ tries' = [tries EXCEPT ![t] = @ + 1]
    /\ UNCHANGED <<slots, queue, status, dead, pool>>

\* Mutant of Fails: a ticket that was retried leaves no dead letter.
FailsQuietlyAfterRetry(t) ==
    /\ stage[t] = "running"
    /\ dead' = IF tries[t] = 1 THEN dead \cup {t} ELSE dead
    /\ status' = [status EXCEPT ![t] = "failed"]
    /\ Leave(t, "done")
    /\ UNCHANGED pool

\* Any other exception, or one rate limit too many: the dead letter and the
\* audit event are written without a suspension, and "failed" is returned.
Fails(t) ==
    /\ stage[t] = "running"
    /\ dead' = dead \cup {t}
    /\ status' = [status EXCEPT ![t] = "failed"]
    /\ Leave(t, "done")
    /\ UNCHANGED pool

\* Mutant of CannotReport: the exception leaves the task with its slot.
CannotReportKeepsSlot(t) ==
    /\ stage[t] = "running"
    /\ dead' \in {dead, dead \cup {t}}
    /\ stage' = [stage EXCEPT ![t] = "raised"]
    /\ pool' = "raised"
    /\ UNCHANGED <<slots, queue, tries, status>>

\* The dead letter or, after it, the audit event cannot be written: the
\* exception leaves the task, and gather passes the first one on at once.
CannotReport(t) ==
    /\ stage[t] = "running"
    /\ dead' \in {dead, dead \cup {t}}
    /\ Leave(t, "raised")
    /\ pool' = "raised"
    /\ UNCHANGED status

\* Every task returned.  After a raise the others run on, for nobody.
Gathered ==
    /\ pool = "gathering"
    /\ \A t \in Tickets : stage[t] = "done"
    /\ pool' = "returned"
    /\ UNCHANGED <<stage, slots, queue, tries, status, dead>>

Over ==
    /\ pool # "gathering"
    /\ \A t \in Tickets : stage[t] \in {"done", "raised"}
    /\ UNCHANGED vars

Task(t) ==
    \/ Arrive(t) \/ Succeeds(t) \/ RateLimited(t) \/ TryAgain(t)
    \/ Fails(t) \/ CannotReport(t)

Next == (\E t \in Tickets : Task(t)) \/ Gathered \/ Over

Spec == Init /\ [][Next]_vars
-----------------------------------------------------------------------------
(* Properties.                                                             *)

Holders == {t \in Tickets : stage[t] \in {"running", "cooldown"}}

\* No slot is ever lost or made up, also when a task ends in an exception, so at
\* most Limit tickets are worked on; and none is free while a ticket waits.
SlotsAccounted ==
    /\ slots + Cardinality(Holders) = Limit
    /\ queue # <<>> => slots = 0
    /\ {queue[i] : i \in DOMAIN queue} = {t \in Tickets : stage[t] = "queued"}

\* Slots go to tickets in the order of the list: none is overtaken by a later
\* one, however long the earlier ones run or cool down, and however urgent the later
\* one is.  queue.py:1-5 and triage.py:3-6 promise the order of priority instead; the
\* pool does not use the queue.
NoOvertaking ==
    \A t, u \in Tickets : t < u /\ tries[u] > 0 => tries[t] > 0

\* A failed ticket is in the dead letter file, whatever happened to the run; and
\* once the run has returned, a ticket that is not there was resolved.
FailuresReported ==
    \A t \in Tickets :
        /\ status[t] = "failed" => t \in dead
        /\ pool = "returned" => (status[t] = "ok" <=> t \notin dead)
=============================================================================
