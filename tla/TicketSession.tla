---------------------------- MODULE TicketSession ----------------------------
(***************************************************************************)
(* One worker resolving one ticket: the ReAct loop of                      *)
(* backend/agent/resolver.py with its loop guard, the rules of             *)
(* backend/agent/guardrails.py, and the rate-limit retries and dead letter *)
(* of _process_with_rate_limit_retry in backend/ingestion/worker_pool.py.  *)
(* The tools are those of ToolLayer; the LLM may answer anything.          *)
(*                                                                         *)
(* The resolver does not await between two executed calls except in the    *)
(* calls themselves and for the LLM.  Its steps in between touch only this *)
(* session's own variables, so taking them one at a time adds no outcome.  *)
(***************************************************************************)
EXTENDS ToolLayer, Sequences

CONSTANTS
    UnknownCalls,  \* calls of tools that TOOL_DISPATCH does not know
    Threshold,     \* settings.high_value_refund_threshold, in cents
    MaxSteps,      \* settings.max_agent_steps
    MaxParallel,   \* bound: tool calls in one response of the LLM
    MaxTries       \* _WORKER_RATE_LIMIT_RETRIES + 1

ASSUME SessionAssumption ==
    /\ UnknownCalls \cap Call = {}
    /\ Threshold \in Nat
    /\ MaxSteps \in Nat \ {0}
    /\ MaxParallel \in Nat \ {0}
    /\ MaxTries \in Nat \ {0}

Requests == Calls \cup UnknownCalls
Statuses == {"resolved", "escalated", "info_requested", "failed"}
Exceptions == {"rate_limit", "other"}

\* tool results with an "error" key: neither cached nor taken into the context
Errors == {"invalid_input", "not_found", "tool_failed"}

VARIABLES
    phase,      \* what the worker awaits or does
    tries,      \* pipeline attempts begun, at most MaxTries
    step,       \* ReAct steps taken
    todo,       \* calls of the LLM's response not dealt with yet
    elig,       \* eligibility_results, by the spelling checked
    issuedIds,  \* issued_refund_ids
    lookedUp,   \* a lookup tool is among tool_calls_made
    seen,       \* keys of seen_calls
    trail,      \* all_tool_records, as a set of calls with their results
    outcome,    \* status of the Resolution returned
    dead,       \* tickets in the dead letter file
    refunds     \* history: refunds issued for the ticket, in any attempt

contextVars == <<step, todo, elig, issuedIds, lookedUp, seen, trail>>
endVars == <<tries, outcome, dead>>
sessionVars == <<phase, contextVars, endVars, refunds>>
allVars == <<toolVars, sessionVars>>

Phases == {"triage", "thinking", "acting", "calling", "synthesis", "cooldown",
           "done", "raised"}

\* A ticket is done with its Resolution; or its task ended in an exception.
Ended == {"done", "raised"}

SessionTypeOK ==
    /\ phase \in [Workers -> Phases]
    /\ tries \in [Workers -> 1 .. MaxTries]
    /\ step \in [Workers -> 0 .. MaxSteps]
    /\ todo \in [Workers -> Seq(Requests)]
    /\ elig \in [Workers -> [Ids -> {"unchecked", "eligible", "not_eligible"}]]
    /\ issuedIds \in [Workers -> SUBSET Ids]
    /\ lookedUp \in [Workers -> BOOLEAN]
    /\ seen \in [Workers -> SUBSET Calls]
    /\ trail \in [Workers -> SUBSET (Calls \X (Results \cup {"blocked"}))]
    /\ outcome \in [Workers -> {"none"} \cup Statuses]
    /\ dead \subseteq Workers
    /\ refunds \in [Workers -> SUBSET Calls]
    /\ \A w \in Workers : phase[w] \in {"acting", "calling"} <=> todo[w] # <<>>
    /\ \A w \in Workers : pc[w] # "idle" => phase[w] = "calling"

SessionInit ==
    /\ Init
    /\ phase = [w \in Workers |-> "triage"]
    /\ tries = [w \in Workers |-> 1]
    /\ step = [w \in Workers |-> 0]
    /\ todo = [w \in Workers |-> <<>>]
    /\ elig = [w \in Workers |-> [i \in Ids |-> "unchecked"]]
    /\ issuedIds = [w \in Workers |-> {}]
    /\ lookedUp = [w \in Workers |-> FALSE]
    /\ seen = [w \in Workers |-> {}]
    /\ trail = [w \in Workers |-> {}]
    /\ outcome = [w \in Workers |-> "none"]
    /\ dead = {}
    /\ refunds = [w \in Workers |-> {}]

Goto(w, p) == phase' = [phase EXCEPT ![w] = p]
-----------------------------------------------------------------------------
(* The LLM answers.                                                        *)

\* classify returns a Triage whatever the LLM's text is (it has a fallback).
Triaged(w) ==
    /\ phase[w] = "triage"
    /\ Goto(w, "thinking")
    /\ UNCHANGED <<toolVars, contextVars, endVars, refunds>>

AsksForTools(w, calls) ==
    /\ phase[w] = "thinking"
    /\ todo' = [todo EXCEPT ![w] = calls]
    /\ Goto(w, "acting")
    /\ UNCHANGED <<toolVars, endVars, refunds, step, elig, issuedIds, lookedUp,
                   seen, trail>>

StopsAsking(w) ==
    /\ phase[w] = "thinking"
    /\ Goto(w, "synthesis")
    /\ UNCHANGED <<toolVars, contextVars, endVars, refunds>>
-----------------------------------------------------------------------------
(* The resolver works through the calls of a response.                     *)

Asked(w) == Head(todo[w])

\* Mutant of Advance: the step budget is overrun by one.
AdvanceOneTooFar(w) ==
    LET last == Len(todo[w]) = 1
        spent == last /\ step[w] = MaxSteps
    IN  /\ todo' = [todo EXCEPT ![w] = Tail(@)]
        /\ step' = [step EXCEPT ![w] = IF last THEN @ + 1 ELSE @]
        /\ Goto(w, IF ~last THEN "acting"
                   ELSE IF spent THEN "synthesis" ELSE "thinking")

\* Done with one call: on to the next, to the next ReAct step or, when the
\* step budget is spent, to the synthesis.
Advance(w) ==
    LET last == Len(todo[w]) = 1
        spent == last /\ step[w] + 1 = MaxSteps
    IN  /\ todo' = [todo EXCEPT ![w] = Tail(@)]
        /\ step' = [step EXCEPT ![w] = IF last THEN @ + 1 ELSE @]
        /\ Goto(w, IF ~last THEN "acting"
                   ELSE IF spent THEN "synthesis" ELSE "thinking")

\* Mutant of Record: the records are replaced, not extended.
RecordLast(w, c, r) == trail' = [trail EXCEPT ![w] = {<<c, r>>}]

Record(w, c, r) == trail' = [trail EXCEPT ![w] = @ \cup {<<c, r>>}]

\* An identical call succeeded before: its result is repeated, unrecorded.
LoopGuardHit(w) ==
    /\ phase[w] = "acting"
    /\ Asked(w) \in seen[w]
    /\ Advance(w)
    /\ UNCHANGED <<toolVars, endVars, refunds, elig, issuedIds, lookedUp, seen,
                   trail>>

Fresh(w, c) == phase[w] = "acting" /\ Asked(w) = c /\ c \notin seen[w]

\* Mutant of Refused: no threshold rule.
RefusedAnyAmount(w, c) ==
    \/ /\ c.tool = "issue_refund"
       /\ elig[w][c.id] # "eligible" \/ c.id \in issuedIds[w]
    \/ c.tool = "send_reply" /\ ~lookedUp[w]
    \/ c.tool = "escalate" /\ ~c.wellFormed

\* Guardrails.check.  An ill-formed escalation is one with a short summary,
\* which is refused here, or with a bad priority, which is left to the tool.
Refused(w, c) ==
    \/ /\ c.tool = "issue_refund"
       /\ \/ elig[w][c.id] # "eligible"
          \/ c.amount > Threshold
          \/ c.id \in issuedIds[w]
    \/ c.tool = "send_reply" /\ ~lookedUp[w]
    \/ c.tool = "escalate" /\ ~c.wellFormed

Allowed(w, c) == Refused(w, c) => c.tool = "escalate"

Blocked(w) ==
    \E c \in Calls :
        /\ Fresh(w, c)
        /\ Refused(w, c)
        /\ Record(w, c, "blocked")
        /\ Advance(w)
        /\ UNCHANGED <<toolVars, endVars, refunds, elig, issuedIds, lookedUp,
                       seen>>

UnknownTool(w) ==
    /\ phase[w] = "acting"
    /\ Asked(w) \in UnknownCalls
    /\ Advance(w)
    /\ UNCHANGED <<toolVars, endVars, refunds, elig, issuedIds, lookedUp, seen,
                   trail>>

Dispatch(w) ==
    \E c \in Calls :
        /\ Fresh(w, c)
        /\ Allowed(w, c)
        /\ BeginCall(w, c)
        /\ Goto(w, "calling")
        /\ UNCHANGED <<contextVars, endVars, refunds>>

\* Mutant of Cache: seen_calls stays empty.
CacheNothing(w, c, r) == UNCHANGED seen

Cache(w, c, r) ==
    seen' = [seen EXCEPT ![w] = IF r \in Errors THEN @ ELSE @ \cup {c}]

\* Mutant of UpdateContext: one agent_ctx for all sessions.
UpdateSharedContext(w, c, r) ==
    LET fine == r \notin Errors
    IN  /\ lookedUp' = [v \in Workers |->
                          lookedUp[v] \/ (fine /\ c.tool \in Lookups \cup Checks)]
        /\ elig' = IF fine /\ c.tool \in Checks
                   THEN [v \in Workers |-> [elig[v] EXCEPT ![c.id] = r]] ELSE elig
        /\ issuedIds' = [v \in Workers |-> IF r = "issued" THEN issuedIds[v] \cup {c.id}
                                            ELSE issuedIds[v]]

\* _update_context: what the guardrails will know of the attempt.
UpdateContext(w, c, r) ==
    LET fine == r \notin Errors
    IN  /\ lookedUp' = [lookedUp EXCEPT
                          ![w] = @ \/ (fine /\ c.tool \in Lookups \cup Checks)]
        /\ elig' = IF fine /\ c.tool \in Checks
                   THEN [elig EXCEPT ![w][c.id] = r] ELSE elig
        /\ issuedIds' = [issuedIds EXCEPT
                           ![w] = IF r = "issued" THEN @ \cup {c.id} ELSE @]

\* execute_tool is back with a result.
Absorb(w) ==
    LET c == call[w]
        r == result[w]
    IN  /\ phase[w] = "calling"
        /\ pc[w] = "idle"
        /\ Record(w, c, r)
        /\ Cache(w, c, r)
        /\ UpdateContext(w, c, r)
        /\ refunds' = [refunds EXCEPT
                         ![w] = IF r = "issued" THEN @ \cup {c} ELSE @]
        /\ Advance(w)
        /\ UNCHANGED <<toolVars, endVars>>
-----------------------------------------------------------------------------
(* How an attempt at the pipeline ends.                                    *)

Finish(w, s) ==
    /\ outcome' = [outcome EXCEPT ![w] = s]
    /\ Goto(w, "done")

\* Text that is no JSON, or an unknown status, counts as "escalated"; "failed"
\* is turned into it when the session recorded any call.
Synthesised(w) ==
    \E s \in Statuses :
        /\ phase[w] = "synthesis"
        /\ Finish(w, IF s = "failed" /\ trail[w] # {} THEN "escalated" ELSE s)
        /\ UNCHANGED <<toolVars, contextVars, tries, dead, refunds>>

\* An exception leaves _run_pipeline: the LLM client gave up, the final JSON is
\* not an object or does not fit Resolution, an audit event cannot be written,
\* or the arguments of a call, of whatever tool, are of a type that a guardrail
\* or the call's record cannot take.
Raises(w, e) ==
    \/ phase[w] \in {"triage", "thinking", "synthesis"}
    \/ e = "other" /\ \E c \in Calls : Fresh(w, c) /\ ~c.wellFormed

\* The dead letter and the audit event are written, and a bare "failed" returned.
Reports(w) == Finish(w, "failed") /\ dead' = dead \cup {w}

\* The dead letter or, after it, the audit event cannot be written: the exception
\* leaves the task, and the ticket gets no Resolution.
CannotReport(w) ==
    /\ Goto(w, "raised")
    /\ dead' \in {dead, dead \cup {w}}
    /\ UNCHANGED outcome

\* Rate limits are retried from scratch after a pause; anything else, or one
\* rate limit too many, is reported.  The records go with the exception.
PipelineRaises(w) ==
    \E e \in Exceptions :
        /\ Raises(w, e)
        /\ todo' = [todo EXCEPT ![w] = <<>>]
        /\ IF e = "rate_limit" /\ tries[w] < MaxTries
           THEN Goto(w, "cooldown") /\ UNCHANGED <<outcome, dead, trail>>
           ELSE /\ Reports(w) \/ CannotReport(w)
                /\ trail' = [trail EXCEPT ![w] = {}]
        /\ UNCHANGED <<toolVars, tries, refunds, step, elig, issuedIds,
                       lookedUp, seen>>

\* Mutant of EmptyContext: agent_ctx outlives the attempt.
EmptyContextButVerdicts(w) ==
    /\ step' = [step EXCEPT ![w] = 0]
    /\ seen' = [seen EXCEPT ![w] = {}]
    /\ trail' = [trail EXCEPT ![w] = {}]
    /\ UNCHANGED <<elig, issuedIds, lookedUp>>

EmptyContext(w) ==
    /\ step' = [step EXCEPT ![w] = 0]
    /\ elig' = [elig EXCEPT ![w] = [i \in Ids |-> "unchecked"]]
    /\ issuedIds' = [issuedIds EXCEPT ![w] = {}]
    /\ lookedUp' = [lookedUp EXCEPT ![w] = FALSE]
    /\ seen' = [seen EXCEPT ![w] = {}]
    /\ trail' = [trail EXCEPT ![w] = {}]

\* Mutant of TryAgain: attempts are not counted.
TryAgainUncounted(w) ==
    /\ phase[w] = "cooldown"
    /\ Goto(w, "triage")
    /\ EmptyContext(w)
    /\ UNCHANGED <<toolVars, todo, tries, outcome, dead, refunds>>

\* Mutant of TryAgain: the registry of performed actions is reset as well.
TryAgainFromNothing(w) ==
    /\ phase[w] = "cooldown"
    /\ Goto(w, "triage")
    /\ tries' = [tries EXCEPT ![w] = @ + 1]
    /\ EmptyContext(w)
    /\ performed' = [t \in Tickets |-> {}]
    /\ UNCHANGED <<overrides, windowOpen, callVars, historyVars, todo, outcome,
                   dead, refunds>>

\* The next attempt starts with an empty context; the store keeps its state.
TryAgain(w) ==
    /\ phase[w] = "cooldown"
    /\ Goto(w, "triage")
    /\ tries' = [tries EXCEPT ![w] = @ + 1]
    /\ EmptyContext(w)
    /\ UNCHANGED <<toolVars, todo, outcome, dead, refunds>>

Responses == UNION {[1 .. n -> Requests] : n \in 1 .. MaxParallel}

SessionStep(w) ==
    \/ Triaged(w)
    \/ \E calls \in Responses : AsksForTools(w, calls)
    \/ StopsAsking(w)
    \/ LoopGuardHit(w) \/ Blocked(w) \/ UnknownTool(w)
    \/ Dispatch(w) \/ Absorb(w)
    \/ Synthesised(w) \/ PipelineRaises(w) \/ TryAgain(w)

ToolWork(w) == ToolStep(w) /\ UNCHANGED sessionVars

\* All tasks have ended, and with them the batch.
BatchDone ==
    /\ \A w \in Workers : phase[w] \in Ended
    /\ UNCHANGED allVars

SessionNext ==
    \/ \E w \in Workers : SessionStep(w) \/ ToolWork(w)
    \/ WindowCloses /\ UNCHANGED sessionVars
    \/ BatchDone

\* The LLM clients answer or raise within their timeouts, and the event loop
\* runs every ready task.
SessionFairness ==
    \A w \in Workers : WF_allVars(SessionStep(w)) /\ WF_allVars(ToolWork(w))

SessionSpec == SessionInit /\ [][SessionNext]_allVars
FairSessionSpec == SessionSpec /\ SessionFairness
-----------------------------------------------------------------------------
(* Properties.                                                             *)

\* No order is paid back more than the high-value threshold without a human,
\* across calls, attempts and sessions (guardrails.py:76).
PaidWithinThreshold == \A o \in Orders : paid[o] <= Threshold

\* The calls that succeeded in this attempt, by its own records.
Succeeded(w) ==
    {c \in Calls : \E r \in Results \ Errors : <<c, r>> \in trail[w]}

\* Money moves and replies go out only on what this very attempt has on record: a
\* check of the order came out eligible, no refund of it was issued yet, the amount
\* is within the threshold, and a lookup succeeded before a reply.  A verdict of an
\* earlier attempt, whose records are gone, or of another session, whose records are
\* elsewhere, serves nobody (agent_ctx, resolver.py:102).
EffectsVetted ==
    [][\A w \in Workers :
          /\ pc[w] = "inner_check" /\ result'[w] = "issued" =>
                /\ \E c \in Calls : /\ c.tool \in Checks /\ c.id = call[w].id
                                    /\ <<c, "eligible">> \in trail[w]
                /\ \A c \in Calls : c.id = call[w].id => <<c, "issued">> \notin trail[w]
                /\ call[w].amount <= Threshold
          /\ pc[w] = "latency" /\ result'[w] = "sent" =>
                \E c \in Succeeded(w) : c.tool \in Lookups \cup Checks]_allVars

\* A ticket resolved in its first attempt carries every refund issued for it in
\* its tool-call records, whatever was retried or blocked on the way.
FirstAttemptAudited ==
    \A w \in Workers :
        phase[w] = "done" /\ tries[w] = 1 /\ w \notin dead =>
            \A c \in refunds[w] : <<c, "issued">> \in trail[w]

\* By the records of an attempt, no call that succeeded in it is executed again,
\* however many calls lie in between; and only those are answered from the cache: a
\* call that failed or was blocked is dealt with anew (resolver.py:200 and 259).
RepeatsNotExecuted ==
    \A w \in Workers :
        /\ pc[w] # "idle" => call[w] \notin Succeeded(w)
        /\ phase[w] \notin Ended => seen[w] \subseteq Succeeded(w)

\* Every session ends, steps, calls, attempts and retries being bounded: with a
\* Resolution or, where not even its failure could be reported, with an exception.
\* For the rest "never a dropped ticket" holds (docs/FAILURE_MODES.md:12-14).
SessionEnds == \A w \in Workers : <>(outcome[w] # "none" \/ phase[w] = "raised")

\* The resolver only ever uses the tools as ToolLayer lets any caller use them.
UsesTools == Spec

\* README.md:26, "every decision is written to JSONL (stream), SQLite (query),
\* and a final audit_log.json": so is every refund.  The code loses the records
\* of an attempt that ends in an exception.
RefundsAudited ==
    \A w \in Workers :
        phase[w] = "done" => \A c \in refunds[w] : <<c, "issued">> \in trail[w]
=============================================================================
