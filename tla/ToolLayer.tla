------------------------------ MODULE ToolLayer ------------------------------
(***************************************************************************)
(* The tools of backend/tools/mock_tools.py as execute_tool of             *)
(* backend/tools/resilience.py runs them: concurrent sessions ("workers"), *)
(* each with at most one call in flight, every call retried after a        *)
(* timeout or an error.                                                    *)
(*                                                                         *)
(* asyncio switches tasks only at an await, so a step here is the code     *)
(* from one await to the next.  A call awaits its own simulated latency,   *)
(* issue_refund also that of its inner eligibility check, and execute_tool *)
(* the backoff between attempts; those are the values of pc.               *)
(***************************************************************************)
EXTENDS DataStore

CONSTANTS
    Workers,      \* the sessions that may run at once
    Calls,        \* the calls an LLM may ask for, arguments included
    NoCall,       \* the call of a worker that has made none
    MaxAttempts   \* settings.max_tool_retries + 1

Lookups == {"get_order", "get_customer", "get_product", "search_knowledge_base"}
Checks == {"check_refund_eligibility"}
Tools == Lookups \cup Checks \cup {"issue_refund", "send_reply", "escalate"}

\* wellFormed: the arguments pass the tool's input checks (ids not empty, a
\* long enough text, a known priority).  A tool ignores the fields it has no
\* parameter for.
Call == [tool: Tools, id: Ids, amount: Int, ticket: Tickets, key: Keys,
         wellFormed: BOOLEAN]

ASSUME CallsAssumption == Calls \subseteq Call /\ NoCall \notin Call
ASSUME MaxAttemptsAssumption == MaxAttempts \in Nat \ {0}

\* The orders a lookup finds are the fixture's; customers and products are
\* only ever found or not, which Known(i) stands for as well.
Known(i) == Strip[i] \in Orders

NoResult == "none"
Results == {NoResult, "invalid_input", "found", "found_refunded", "not_found",
            "eligible", "not_eligible", "issued", "already_processed",
            "rejected", "sent", "already_sent", "escalated",
            "already_escalated", "tool_failed"}

VARIABLES
    call,      \* the call each worker runs, or the last one it ran
    pc,        \* the await each worker is suspended at
    attempt,   \* execute_tool's attempt, from 1
    result,    \* what the last call returned to its session
    effects,   \* history: how often an action key took effect for a ticket
    paid       \* history: money returned for each order

callVars == <<call, pc, attempt, result>>
historyVars == <<effects, paid>>
toolVars == <<storeVars, callVars, historyVars>>

Valid(c) == c.wellFormed /\ (c.tool = "issue_refund" => c.amount > 0)

CallTypeOK ==
    /\ call \in [Workers -> Call \cup {NoCall}]
    /\ pc \in [Workers -> {"idle", "latency", "inner_check", "backoff"}]
    /\ attempt \in [Workers -> 1 .. MaxAttempts]
    /\ result \in [Workers -> Results]
    /\ \A w \in Workers :
          /\ pc[w] # "idle" => call[w] \in Calls /\ Valid(call[w])
          /\ pc[w] = "inner_check" => call[w].tool = "issue_refund"
          /\ pc[w] = "backoff" => attempt[w] < MaxAttempts

HistoryTypeOK ==
    /\ effects \in [Tickets -> [ActionKeys -> Nat]]
    /\ paid \in [Orders -> Nat]

TypeOK == StoreTypeOK /\ CallTypeOK /\ HistoryTypeOK

Init ==
    /\ StoreInit
    /\ call = [w \in Workers |-> NoCall]
    /\ pc = [w \in Workers |-> "idle"]
    /\ attempt = [w \in Workers |-> 1]
    /\ result = [w \in Workers |-> NoResult]
    /\ effects = [t \in Tickets |-> [a \in ActionKeys |-> 0]]
    /\ paid = [o \in Orders |-> 0]
-----------------------------------------------------------------------------
(* execute_tool: starting an attempt, failing it, returning a result.      *)

Return(w, r) ==
    /\ pc' = [pc EXCEPT ![w] = "idle"]
    /\ result' = [result EXCEPT ![w] = r]

\* A session asks for a call.  Bad arguments return before the first await.
BeginCall(w, c) ==
    /\ pc[w] = "idle"
    /\ call' = [call EXCEPT ![w] = c]
    /\ attempt' = [attempt EXCEPT ![w] = 1]
    /\ IF Valid(c)
       THEN /\ pc' = [pc EXCEPT ![w] = "latency"]
            /\ result' = [result EXCEPT ![w] = NoResult]
       ELSE Return(w, "invalid_input")
    /\ UNCHANGED <<storeVars, historyVars>>

\* Mutant of AttemptFails: one attempt too many.
OneAttemptMore(w) ==
    /\ pc[w] \in {"latency", "inner_check"}
    /\ IF attempt[w] <= MaxAttempts
       THEN pc' = [pc EXCEPT ![w] = "backoff"] /\ UNCHANGED result
       ELSE Return(w, "tool_failed")
    /\ UNCHANGED <<call, attempt, storeVars, historyVars>>

\* A timeout, a malformed response or any exception at either await of the
\* tool.  Nothing the attempt has done to the store is undone.
AttemptFails(w) ==
    /\ pc[w] \in {"latency", "inner_check"}
    /\ IF attempt[w] < MaxAttempts
       THEN pc' = [pc EXCEPT ![w] = "backoff"] /\ UNCHANGED result
       ELSE Return(w, "tool_failed")
    /\ UNCHANGED <<call, attempt, storeVars, historyVars>>

\* Mutant of Retry: the attempts are not counted.
RetryUncounted(w) ==
    /\ pc[w] = "backoff"
    /\ pc' = [pc EXCEPT ![w] = "latency"]
    /\ UNCHANGED <<call, attempt, result, storeVars, historyVars>>

Retry(w) ==
    /\ pc[w] = "backoff"
    /\ pc' = [pc EXCEPT ![w] = "latency"]
    /\ attempt' = [attempt EXCEPT ![w] = @ + 1]
    /\ UNCHANGED <<call, result, storeVars, historyVars>>
-----------------------------------------------------------------------------
(* The tools, from the end of their simulated latency.                     *)

Running(w, tools) == pc[w] = "latency" /\ call[w].tool \in tools

\* A search answers with what there is, be it nothing.
Finds(c) == c.tool = "search_knowledge_base" \/ Known(c.id)

Lookup(w) ==
    /\ Running(w, Lookups)
    /\ LET c == call[w] IN
       Return(w, IF ~Finds(c) THEN "not_found"
                 ELSE IF c.tool = "get_order" /\ RefundedAs(Strip[c.id])
                      THEN "found_refunded" ELSE "found")
    /\ UNCHANGED <<call, attempt, storeVars, historyVars>>

CheckEligibility(w) ==
    /\ Running(w, Checks)
    /\ Return(w, IF Eligible(call[w].id) THEN "eligible" ELSE "not_eligible")
    /\ UNCHANGED <<call, attempt, storeVars, historyVars>>

\* Mutant of ReserveRefund: the key is looked up before the await, not taken.
LookUpKey(w) ==
    /\ Running(w, {"issue_refund"})
    /\ FirstToPerform(call[w].ticket, call[w].key)
    /\ pc' = [pc EXCEPT ![w] = "inner_check"]
    /\ UNCHANGED <<storeVars, call, attempt, result, historyVars>>

\* issue_refund reserves its key, then awaits the inner eligibility check.
ReserveRefund(w) ==
    /\ Running(w, {"issue_refund"})
    /\ FirstToPerform(call[w].ticket, call[w].key)
    /\ MarkPerformed(call[w].ticket, call[w].key)
    /\ pc' = [pc EXCEPT ![w] = "inner_check"]
    /\ UNCHANGED <<overrides, windowOpen, call, attempt, result, historyVars>>

AlreadyProcessed(w) ==
    /\ Running(w, {"issue_refund"})
    /\ ~FirstToPerform(call[w].ticket, call[w].key)
    /\ Return(w, "already_processed")
    /\ UNCHANGED <<call, attempt, storeVars, historyVars>>

\* Mutant of Capped: the amount asked for is paid as it is.
Uncapped(c) == c.amount

Capped(c) ==
    LET price == OrderAmount[Strip[c.id]] IN
    IF c.amount < price THEN c.amount ELSE price

TakeEffect(t, a) == effects' = [effects EXCEPT ![t][a] = @ + 1]

\* Mutant of IssueRefund: only a refund of the full price marks the order.
IssueUnlessPartial(w) ==
    LET c == call[w] IN
    /\ pc[w] = "inner_check"
    /\ Eligible(c.id)
    /\ IF Capped(c) = OrderAmount[Strip[c.id]]
       THEN MarkRefunded(c.id) ELSE UNCHANGED overrides
    /\ paid' = [paid EXCEPT ![Strip[c.id]] = @ + Capped(c)]
    /\ TakeEffect(c.ticket, c.key)
    /\ Return(w, "issued")
    /\ UNCHANGED <<performed, windowOpen, call, attempt>>

\* The verdict of the inner check and mark_refunded: no await in between.
IssueRefund(w) ==
    LET c == call[w] IN
    /\ pc[w] = "inner_check"
    /\ Eligible(c.id)
    /\ MarkRefunded(c.id)
    /\ paid' = [paid EXCEPT ![Strip[c.id]] = @ + Capped(c)]
    /\ TakeEffect(c.ticket, c.key)
    /\ Return(w, "issued")
    /\ UNCHANGED <<performed, windowOpen, call, attempt>>

\* Mutant of RejectRefund: the ticket's whole entry is dropped, not the key.
RejectForgetsTicket(w) ==
    /\ pc[w] = "inner_check"
    /\ ~Eligible(call[w].id)
    /\ performed' = [performed EXCEPT ![call[w].ticket] = {}]
    /\ Return(w, "rejected")
    /\ UNCHANGED <<overrides, windowOpen, call, attempt, historyVars>>

RejectRefund(w) ==
    /\ pc[w] = "inner_check"
    /\ ~Eligible(call[w].id)
    /\ Unperform(call[w].ticket, call[w].key)
    /\ Return(w, "rejected")
    /\ UNCHANGED <<overrides, windowOpen, call, attempt, historyVars>>

\* send_reply and escalate: once per ticket, the test and the mark in one step.
OncePerTicket(w, tool, first, again) ==
    LET t == call[w].ticket IN
    /\ Running(w, {tool})
    /\ IF FirstToPerform(t, tool)
       THEN MarkPerformed(t, tool) /\ TakeEffect(t, tool) /\ Return(w, first)
       ELSE Return(w, again) /\ UNCHANGED <<performed, effects>>
    /\ UNCHANGED <<overrides, windowOpen, call, attempt, paid>>

SendReply(w) == OncePerTicket(w, "send_reply", "sent", "already_sent")
Escalate(w) == OncePerTicket(w, "escalate", "escalated", "already_escalated")

ToolStep(w) ==
    \/ AttemptFails(w) \/ Retry(w)
    \/ Lookup(w) \/ CheckEligibility(w)
    \/ ReserveRefund(w) \/ AlreadyProcessed(w)
    \/ IssueRefund(w) \/ RejectRefund(w)
    \/ SendReply(w) \/ Escalate(w)

WindowCloses ==
    /\ \E o \in Orders : DeadlinePasses(o)
    /\ UNCHANGED <<callVars, historyVars>>

Next ==
    \/ \E w \in Workers : ToolStep(w) \/ \E c \in Calls : BeginCall(w, c)
    \/ WindowCloses

\* The event loop runs every ready task and every timer fires; nothing makes
\* a session ask for another call or a deadline pass.
Fairness == \A w \in Workers : WF_toolVars(ToolStep(w))

Spec == Init /\ [][Next]_toolVars
FairSpec == Spec /\ Fairness
-----------------------------------------------------------------------------
(* Properties.                                                             *)

\* A worker holds a refund key from its reservation to the inner verdict.
Holds(w, t, k) ==
    pc[w] = "inner_check" /\ call[w].ticket = t /\ call[w].key = k

\* No order is ever paid back more than it cost, whatever mix of retries, keys,
\* tickets and sessions asks for it.  The inner eligibility check, the cap and
\* mark_refunded have to work together for this (mock_tools.py:241-255); it is
\* the claim of datastore.py:5-7, "never double-refund even if an agent retries a
\* tool call".  It holds while ids reach issue_refund in their stored spelling,
\* and fails for an id with blanks around it.
PaidWithinPrice == \A o \in Orders : paid[o] <= OrderAmount[o]

\* The store calls exactly those orders refunded that got money: a rejected,
\* failed or abandoned attempt leaves no mark, and no payment goes unmarked.
MarkedIffPaid == \A o \in Orders : RefundedAs(o) <=> paid[o] > 0

\* An action key takes effect at most once for a ticket, and never without its
\* entry in the registry, in spite of retries, of keys given back by a rejected
\* refund and of two sessions racing for one key.  Covers refunds, replies and
\* escalations.
EffectsRegistered ==
    \A t \in Tickets, a \in ActionKeys :
        effects[t][a] <= (IF a \in performed[t] THEN 1 ELSE 0)

\* A key that is being refunded has one holder, is registered and has not taken
\* effect: the key a rejected refund gives back is its own, not another call's.
ReservationsExclusive ==
    \A t \in Tickets, k \in Keys, w \in Workers :
        Holds(w, t, k) =>
            /\ k \in performed[t]
            /\ effects[t][k] = 0
            /\ \A v \in Workers : Holds(v, t, k) => v = w

\* The answer "already_processed" promises that the refund of this key was
\* issued (mock_tools.py:237).  The code does not keep this promise.
AlreadyProcessedIsTrue ==
    \A w \in Workers :
        result[w] = "already_processed" =>
            effects[call[w].ticket][call[w].key] > 0

\* Every call returns to its session: attempts, timeouts and backoffs are
\* bounded (resilience.py:49-128).
CallsReturn == \A w \in Workers : (pc[w] # "idle") ~> (pc[w] = "idle")

\* The tools keep the promise of RefundLedger.
Ledger == INSTANCE RefundLedger
             WITH Orders <- Orders, OrderAmount <- OrderAmount,
                  Refundable <- Refundable, paid <- paid, windowOpen <- windowOpen
LedgerSpec == Ledger!Spec
=============================================================================
