------------------------- MODULE TicketSessionProofs -------------------------
(***************************************************************************)
(* What any number of concurrent sessions promise, proved on top of what   *)
(* ToolLayerProofs proves of the tools they call.                          *)
(***************************************************************************)
EXTENDS TicketSession, ToolLayerProofs, SequenceTheorems, Measures

\* A session step either leaves the tools alone or begins one of the calls the
\* LLM asked for, past the guardrails.
LEMMA SessionStepOnTools ==
    ASSUME NEW w \in Workers, SessionStep(w)
    PROVE  \/ UNCHANGED toolVars
           \/ \E c \in Calls : Allowed(w, c) /\ BeginCall(w, c)
  BY DEF SessionStep, Triaged, AsksForTools, StopsAsking, LoopGuardHit, Blocked,
         UnknownTool, Dispatch, Absorb, Synthesised, PipelineRaises, TryAgain

LEMMA SessionNextIsNext == [SessionNext]_allVars => [Next]_toolVars
<1> SUFFICES ASSUME [SessionNext]_allVars PROVE [Next]_toolVars
  OBVIOUS
<1>1. ASSUME NEW w \in Workers, SessionStep(w) PROVE [Next]_toolVars
  BY <1>1, SessionStepOnTools DEF Next
<1>2. ASSUME NEW w \in Workers, ToolWork(w) PROVE [Next]_toolVars
  BY <1>2 DEF ToolWork, Next
<1>3. CASE WindowCloses
  BY <1>3 DEF Next
<1>4. CASE UNCHANGED allVars
  BY <1>4 DEF allVars
<1> QED BY <1>1, <1>2, <1>3, <1>4 DEF SessionNext, BatchDone

\* Every behaviour of the sessions is one of ToolLayer, so what is proved of the
\* tools for any caller holds for the resolver, its retries and restarts included.
THEOREM SessionsUseTools == SessionSpec => UsesTools
  BY SessionNextIsNext, PTL DEF SessionSpec, SessionInit, Spec, UsesTools
-----------------------------------------------------------------------------
(* The high-value threshold.                                               *)

\* A refund call in flight passed the guardrails.
VettedCalls ==
    \A w \in Workers :
        pc[w] # "idle" /\ call[w].tool = "issue_refund" =>
            call[w].amount <= Threshold

LEMMA InitVetted == SessionInit => VettedCalls /\ PaidWithinThreshold
  BY SessionAssumption
  DEF SessionInit, Init, VettedCalls, PaidWithinThreshold

LEMMA StepVetted ==
    TypeOK /\ VettedCalls /\ [SessionNext]_allVars => VettedCalls'
<1> SUFFICES ASSUME TypeOK, VettedCalls, [SessionNext]_allVars PROVE VettedCalls'
  OBVIOUS
<1>1. ASSUME NEW w \in Workers, NEW c \in Calls, Allowed(w, c), BeginCall(w, c)
      PROVE  VettedCalls'
  <2>1. call' = [call EXCEPT ![w] = c]
    BY <1>1 DEF BeginCall
  <2>2. \A v \in Workers : v # w => pc'[v] = pc[v]
    BY <1>1 DEF BeginCall, Return, TypeOK, CallTypeOK
  <2>3. c.tool = "issue_refund" => c.amount <= Threshold
    BY <1>1, SessionAssumption, CallsAssumption DEF Allowed, Refused, Call
  <2> QED BY <2>1, <2>2, <2>3 DEF VettedCalls, TypeOK, CallTypeOK
<1>2. CASE UNCHANGED toolVars
  BY <1>2 DEF VettedCalls, toolVars, callVars
<1>3. ASSUME NEW w \in Workers, ToolWork(w) PROVE VettedCalls'
  <2>1. UNCHANGED call
    BY <1>3
    DEF ToolWork, ToolStep, AttemptFails, Retry, Lookup, CheckEligibility,
        ReserveRefund, AlreadyProcessed, IssueRefund, RejectRefund, SendReply,
        Escalate, OncePerTicket
  <2>2. pc[w] # "idle" /\ \A v \in Workers : v # w => pc'[v] = pc[v]
    BY <1>3
    DEF ToolWork, ToolStep, AttemptFails, Retry, Lookup, CheckEligibility,
        ReserveRefund, AlreadyProcessed, IssueRefund, RejectRefund, SendReply,
        Escalate, OncePerTicket, Running, Return, TypeOK, CallTypeOK
  <2> QED BY <2>1, <2>2 DEF VettedCalls
<1>4. CASE WindowCloses
  BY <1>4 DEF WindowCloses, callVars, VettedCalls
<1>5. CASE UNCHANGED allVars
  BY <1>2, <1>5 DEF allVars
<1> QED
  BY <1>1, <1>2, <1>3, <1>4, <1>5, SessionStepOnTools
  DEF SessionNext, BatchDone

LEMMA StepThreshold ==
    CanonicalIds /\ TypeOK /\ LedgerInv /\ VettedCalls /\ PaidWithinThreshold
    /\ [Next]_toolVars => PaidWithinThreshold'
<1> SUFFICES ASSUME CanonicalIds, TypeOK, LedgerInv, VettedCalls,
                    PaidWithinThreshold, [Next]_toolVars
             PROVE  PaidWithinThreshold'
  OBVIOUS
<1>1. ASSUME NEW w \in Workers, IssueRefund(w) PROVE PaidWithinThreshold'
  <2>1. call[w].amount <= Threshold /\ call[w] \in Call
    BY <1>1, CallsAssumption DEF IssueRefund, VettedCalls, TypeOK, CallTypeOK
  <2>2. PICK o \in Refundable \cap windowOpen :
            \E a \in 1 .. OrderAmount[o] :
                a <= call[w].amount /\ paid' = [paid EXCEPT ![o] = a]
    BY <1>1, PaymentStep
  <2>3. PICK a \in 1 .. OrderAmount[o] :
            a <= call[w].amount /\ paid' = [paid EXCEPT ![o] = a]
    BY <2>2
  <2>4. a <= Threshold
    BY <2>1, <2>3, OrdersAssumption, SessionAssumption DEF Call
  <2> QED BY <2>3, <2>4 DEF PaidWithinThreshold, TypeOK, HistoryTypeOK
<1>2. CASE \A w \in Workers : ~IssueRefund(w)
  BY <1>2, LedgerFrame DEF PaidWithinThreshold
<1> QED BY <1>1, <1>2

\* If refund calls spell order ids as the store does, sessions together pay no
\* order back more than HIGH_VALUE_REFUND_THRESHOLD, however they interleave,
\* retry and restart.
THEOREM NeverAboveThreshold ==
    CanonicalIds => (SessionSpec => []PaidWithinThreshold)
<1> SUFFICES ASSUME CanonicalIds PROVE SessionSpec => []PaidWithinThreshold
  OBVIOUS
<1> DEFINE IInv == TypeOK /\ LedgerInv /\ VettedCalls /\ PaidWithinThreshold
<1>1. SessionInit => IInv
  BY InitType, InitLedger, InitVetted DEF SessionInit
<1>2. IInv /\ [SessionNext]_allVars => IInv'
  BY SessionNextIsNext, StepType, StepLedger, StepVetted, StepThreshold
<1> QED BY <1>1, <1>2, PTL DEF SessionSpec
-----------------------------------------------------------------------------
(* Types, and what is known at each phase.                                 *)

\* A call in hand is one of the LLM's known ones, and a finished check has a
\* verdict or an error; there is a step left to take and a try to begin.
PhaseInv ==
    \A w \in Workers :
        /\ phase[w] = "calling" => call[w] \in Calls
        /\ phase[w] = "calling" /\ pc[w] = "idle" /\ call[w].tool \in Checks =>
              result[w] \in {"eligible", "not_eligible"} \cup Errors
        /\ phase[w] \in {"triage", "thinking", "acting", "calling"} =>
              step[w] < MaxSteps
        /\ phase[w] = "cooldown" => tries[w] < MaxTries

SessionInv == SessionTypeOK /\ PhaseInv

LEMMA InitSession == SessionInit => SessionInv
  BY SessionAssumption
  DEF SessionInit, Init, SessionInv, SessionTypeOK, PhaseInv, Phases

\* What the tools do to the calls of sessions.
LEMMA ToolStepOnCalls ==
    ASSUME TypeOK, NEW w \in Workers, ToolStep(w)
    PROVE  /\ call' = call /\ pc[w] # "idle"
           /\ \A v \in Workers \ {w} : pc'[v] = pc[v] /\ result'[v] = result[v]
           /\ pc'[w] = "idle" /\ call[w].tool \in Checks =>
                 result'[w] \in {"eligible", "not_eligible"} \cup Errors
<1> USE DEF TypeOK, CallTypeOK
<1>1. CASE AttemptFails(w) \/ Retry(w)
  BY <1>1 DEF AttemptFails, Retry, Return, Errors
<1>2. CASE Lookup(w) \/ SendReply(w) \/ Escalate(w)
  BY <1>2 DEF Lookup, SendReply, Escalate, OncePerTicket, Running, Return, Lookups, Checks
<1>3. CASE CheckEligibility(w)
  BY <1>3 DEF CheckEligibility, Running, Return
<1>4. CASE ReserveRefund(w) \/ AlreadyProcessed(w)
  BY <1>4 DEF ReserveRefund, AlreadyProcessed, Running, Return, Checks
<1>5. CASE IssueRefund(w) \/ RejectRefund(w)
  BY <1>5 DEF IssueRefund, RejectRefund, Return, Checks
<1> QED BY <1>1, <1>2, <1>3, <1>4, <1>5 DEF ToolStep

LEMMA TailType ==
    ASSUME NEW S, NEW q \in Seq(S), q # <<>>
    PROVE  /\ Tail(q) \in Seq(S) /\ Head(q) \in S
           /\ Tail(q) = <<>> <=> Len(q) = 1
<1>1. /\ Tail(q) \in Seq(S) /\ Head(q) \in S
      /\ Len(Tail(q)) = Len(q) - 1 /\ Len(q) \in Nat
  BY HeadTailProperties
<1>2. Tail(q) = <<>> <=> Len(Tail(q)) = 0
  BY <1>1, EmptySeq
<1> QED BY <1>1, <1>2

\* One call is dealt with.
LEMMA AdvanceStep ==
    ASSUME SessionInv, NEW w \in Workers, phase[w] \in {"acting", "calling"},
           Advance(w)
    PROVE  /\ todo' \in [Workers -> Seq(Requests)]
           /\ step' \in [Workers -> 0 .. MaxSteps]
           /\ phase' \in [Workers -> Phases]
           /\ phase'[w] \in {"acting", "thinking", "synthesis"}
           /\ phase'[w] = "acting" <=> todo'[w] # <<>>
           /\ phase'[w] # "synthesis" => step'[w] < MaxSteps
           /\ \A v \in Workers \ {w} :
                 /\ phase'[v] = phase[v] /\ todo'[v] = todo[v]
                 /\ step'[v] = step[v]
<1> DEFINE last == Len(todo[w]) = 1
<1>1. /\ todo[w] \in Seq(Requests) /\ todo[w] # <<>>
      /\ step[w] \in 0 .. MaxSteps /\ step[w] < MaxSteps /\ MaxSteps \in Nat
      /\ phase \in [Workers -> Phases]
      /\ step \in [Workers -> 0 .. MaxSteps] /\ todo \in [Workers -> Seq(Requests)]
  BY SessionAssumption DEF SessionInv, SessionTypeOK, PhaseInv
<1>2. Tail(todo[w]) \in Seq(Requests) /\ (Tail(todo[w]) = <<>> <=> last)
  BY <1>1, TailType
<1>3. /\ todo' = [todo EXCEPT ![w] = Tail(@)]
      /\ step' = [step EXCEPT ![w] = IF last THEN @ + 1 ELSE @]
      /\ phase' = [phase EXCEPT ![w] =
                     IF ~last THEN "acting"
                     ELSE IF step[w] + 1 = MaxSteps THEN "synthesis" ELSE "thinking"]
  BY DEF Advance, Goto
<1> HIDE DEF last
<1>4. todo' \in [Workers -> Seq(Requests)] /\ step' \in [Workers -> 0 .. MaxSteps]
  BY <1>1, <1>2, <1>3
<1>5. CASE ~last
  BY <1>1, <1>2, <1>3, <1>4, <1>5 DEF Phases
<1>6. CASE last
  <2>1. todo'[w] = <<>>
    BY <1>1, <1>2, <1>3, <1>6
  <2>2. /\ phase' \in [Workers -> Phases] /\ phase'[w] \in {"thinking", "synthesis"}
        /\ phase'[w] # "synthesis" => step'[w] < MaxSteps
    BY <1>1, <1>3, <1>6 DEF Phases
  <2> QED BY <1>1, <1>3, <1>4, <2>1, <2>2
<1> QED BY <1>5, <1>6

LEMMA AdvanceSession ==
    ASSUME SessionInv, NEW w \in Workers, phase[w] \in {"acting", "calling"},
           phase[w] = "calling" => pc[w] = "idle", Advance(w),
           UNCHANGED <<call, pc, result, endVars>>,
           elig' \in [Workers -> [Ids -> {"unchecked", "eligible", "not_eligible"}]],
           issuedIds' \in [Workers -> SUBSET Ids],
           lookedUp' \in [Workers -> BOOLEAN], seen' \in [Workers -> SUBSET Calls],
           trail' \in [Workers -> SUBSET (Calls \X (Results \cup {"blocked"}))],
           refunds' \in [Workers -> SUBSET Calls]
    PROVE  SessionInv'
<1>1. /\ todo' \in [Workers -> Seq(Requests)]
      /\ step' \in [Workers -> 0 .. MaxSteps]
      /\ phase' \in [Workers -> Phases]
      /\ phase'[w] \in {"acting", "thinking", "synthesis"}
      /\ phase'[w] = "acting" <=> todo'[w] # <<>>
      /\ phase'[w] # "synthesis" => step'[w] < MaxSteps
      /\ \A v \in Workers \ {w} :
            /\ phase'[v] = phase[v] /\ todo'[v] = todo[v]
            /\ step'[v] = step[v]
  BY AdvanceStep
<1>2. pc'[w] = "idle" /\ UNCHANGED <<call, pc, result, tries, outcome, dead>>
  BY DEF SessionInv, SessionTypeOK, endVars
<1>3. /\ tries' \in [Workers -> 1 .. MaxTries]
      /\ outcome' \in [Workers -> {"none"} \cup Statuses] /\ dead' \subseteq Workers
  BY <1>2 DEF SessionInv, SessionTypeOK
<1>4. ASSUME NEW v \in Workers
      PROVE  /\ phase'[v] \in {"acting", "calling"} <=> todo'[v] # <<>>
             /\ pc'[v] # "idle" => phase'[v] = "calling"
  <2>1. CASE v = w
    BY <1>1, <1>2, <2>1
  <2>2. CASE v # w
    BY <1>1, <1>2, <2>2 DEF SessionInv, SessionTypeOK
  <2> QED BY <2>1, <2>2
<1>5. SessionTypeOK'
  BY <1>1, <1>3, <1>4 DEF SessionTypeOK
<1>6. PhaseInv'
  BY <1>1, <1>2 DEF SessionInv, PhaseInv
<1> QED BY <1>5, <1>6 DEF SessionInv

LEMMA StepSession ==
    TypeOK /\ SessionInv /\ [SessionNext]_allVars => SessionInv'
<1> SUFFICES ASSUME TypeOK, SessionInv, [SessionNext]_allVars PROVE SessionInv'
  OBVIOUS
<1> USE SessionAssumption
    DEF SessionInv, SessionTypeOK, PhaseInv, contextVars, endVars, toolVars, callVars
<1>1. ASSUME NEW w \in Workers, Triaged(w) \/ StopsAsking(w) PROVE SessionInv'
  BY <1>1 DEF Triaged, StopsAsking, Goto, Phases
<1>2. ASSUME NEW w \in Workers, NEW calls \in Responses, AsksForTools(w, calls)
      PROVE  SessionInv'
  <2>0. PICK n \in 1 .. MaxParallel : calls \in [1 .. n -> Requests]
    BY <1>2 DEF Responses
  <2>1. calls \in Seq(Requests) /\ calls # <<>>
    <3>1. n \in Nat \ {0} /\ calls \in [1 .. n -> Requests]
      BY <2>0
    <3> HIDE DEF SessionInv
    <3>2. calls \in Seq(Requests) /\ Len(calls) = n
      BY <3>1
    <3> QED BY <3>1, <3>2
  <2> QED BY <1>2, <2>1 DEF AsksForTools, Goto, Phases
<1>3. ASSUME NEW w \in Workers, LoopGuardHit(w) \/ UnknownTool(w) PROVE SessionInv'
  <2>1. phase[w] = "acting" /\ Advance(w)
    BY <1>3 DEF LoopGuardHit, UnknownTool
  <2>2. UNCHANGED <<toolVars, endVars, refunds, elig, issuedIds, lookedUp, seen, trail>>
    BY <1>3 DEF LoopGuardHit, UnknownTool
  <2> QED BY <2>1, <2>2, AdvanceSession
<1>4. ASSUME NEW w \in Workers, Blocked(w) PROVE SessionInv'
  <2>1. phase[w] = "acting" /\ Advance(w)
    BY <1>4 DEF Blocked, Fresh
  <2>2. /\ trail' \in [Workers -> SUBSET (Calls \X (Results \cup {"blocked"}))]
        /\ UNCHANGED <<toolVars, endVars, refunds, elig, issuedIds, lookedUp, seen>>
    BY <1>4 DEF Blocked, Record
  <2> QED BY <2>1, <2>2, AdvanceSession
<1>5. ASSUME NEW w \in Workers, Dispatch(w) PROVE SessionInv'
  <2>1. PICK c \in Calls : /\ Fresh(w, c) /\ BeginCall(w, c) /\ Goto(w, "calling")
                           /\ UNCHANGED <<contextVars, endVars, refunds>>
    BY <1>5 DEF Dispatch
  <2>2. /\ phase' = [phase EXCEPT ![w] = "calling"] /\ phase[w] = "acting"
        /\ call'[w] = c /\ \A v \in Workers \ {w} : call'[v] = call[v]
    BY <2>1 DEF Fresh, Goto, BeginCall, TypeOK, CallTypeOK
  <2>3. /\ pc'[w] = "idle" => result'[w] = "invalid_input"
        /\ \A v \in Workers \ {w} : pc'[v] = pc[v] /\ result'[v] = result[v]
    BY <2>1 DEF BeginCall, Return, TypeOK, CallTypeOK
  <2> QED BY <2>1, <2>2, <2>3 DEF Phases, Errors
<1>6. ASSUME NEW w \in Workers, Absorb(w) PROVE SessionInv'
  <2>1. /\ phase[w] = "calling" /\ Advance(w) /\ pc[w] = "idle"
        /\ UNCHANGED <<toolVars, endVars>>
    BY <1>6 DEF Absorb
  <2>2. call[w] \in Calls /\ call[w].id \in Ids /\ result[w] \in Results
    BY <2>1, CallsAssumption DEF TypeOK, CallTypeOK, Call
  <2>3. /\ trail' \in [Workers -> SUBSET (Calls \X (Results \cup {"blocked"}))]
        /\ seen' \in [Workers -> SUBSET Calls]
        /\ refunds' \in [Workers -> SUBSET Calls]
        /\ issuedIds' \in [Workers -> SUBSET Ids]
    BY <1>6, <2>2 DEF Absorb, Record, Cache, UpdateContext
  <2>4. lookedUp' \in [Workers -> BOOLEAN]
    BY <1>6 DEF Absorb, UpdateContext
  <2>5. elig' \in [Workers -> [Ids -> {"unchecked", "eligible", "not_eligible"}]]
    BY <1>6, <2>1, <2>2 DEF Absorb, UpdateContext
  <2> QED BY <2>1, <2>3, <2>4, <2>5, AdvanceSession
<1>7. ASSUME NEW w \in Workers, Synthesised(w) PROVE SessionInv'
  BY <1>7 DEF Synthesised, Finish, Goto, Phases, Statuses
<1>8. ASSUME NEW w \in Workers, PipelineRaises(w) PROVE SessionInv'
  <2>1. /\ todo' = [todo EXCEPT ![w] = <<>>]
        /\ phase[w] \in {"triage", "thinking", "synthesis", "acting"} /\ pc[w] = "idle"
        /\ UNCHANGED <<toolVars, tries, refunds, step, elig, issuedIds, lookedUp, seen>>
    BY <1>8 DEF PipelineRaises, Raises, Fresh
  <2>2. \/ /\ phase' = [phase EXCEPT ![w] = "cooldown"] /\ tries[w] < MaxTries
           /\ UNCHANGED <<outcome, dead, trail>>
        \/ /\ \/ /\ phase' = [phase EXCEPT ![w] = "done"]
                 /\ outcome' = [outcome EXCEPT ![w] = "failed"]
              \/ phase' = [phase EXCEPT ![w] = "raised"] /\ outcome' = outcome
           /\ dead' \in {dead, dead \cup {w}} /\ trail' = [trail EXCEPT ![w] = {}]
    BY <1>8 DEF PipelineRaises, Reports, CannotReport, Goto, Finish
  <2>3. CASE phase' = [phase EXCEPT ![w] = "cooldown"] /\ tries[w] < MaxTries
             /\ UNCHANGED <<outcome, dead, trail>>
    BY <2>1, <2>3 DEF Phases
  <2>4. CASE /\ \/ /\ phase' = [phase EXCEPT ![w] = "done"]
                   /\ outcome' = [outcome EXCEPT ![w] = "failed"]
                \/ phase' = [phase EXCEPT ![w] = "raised"] /\ outcome' = outcome
             /\ dead' \in {dead, dead \cup {w}} /\ trail' = [trail EXCEPT ![w] = {}]
    <3>1. /\ phase' \in [Workers -> Phases]
          /\ outcome' \in [Workers -> {"none"} \cup Statuses]
      BY <2>4 DEF Phases, Statuses
    <3>2. \A v \in Workers : v # w => phase'[v] = phase[v] /\ todo'[v] = todo[v]
      BY <2>1, <2>4
    <3>3. phase'[w] \in Ended /\ todo'[w] = <<>>
      BY <2>1, <2>4 DEF Ended
    <3>4. /\ trail' \in [Workers -> SUBSET (Calls \X (Results \cup {"blocked"}))]
          /\ todo' \in [Workers -> Seq(Requests)] /\ dead' \subseteq Workers
      BY <2>1, <2>4
    <3>5. SessionTypeOK'
      BY <2>1, <3>1, <3>2, <3>3, <3>4 DEF Ended
    <3>6. PhaseInv'
      BY <2>1, <3>2, <3>3 DEF Ended
    <3> QED BY <3>5, <3>6
  <2> QED BY <2>2, <2>3, <2>4
<1>9. ASSUME NEW w \in Workers, TryAgain(w) PROVE SessionInv'
  <2>1. tries[w] + 1 \in 1 .. MaxTries
    BY <1>9 DEF TryAgain
  <2> QED BY <1>9, <2>1 DEF TryAgain, EmptyContext, Goto, Phases
<1>10. ASSUME NEW w \in Workers, ToolWork(w) PROVE SessionInv'
  BY <1>10, ToolStepOnCalls DEF ToolWork, sessionVars
<1>11. CASE \/ WindowCloses /\ UNCHANGED sessionVars
            \/ UNCHANGED allVars
  BY <1>11 DEF WindowCloses, allVars, sessionVars
<1> QED
  BY <1>1, <1>2, <1>3, <1>4, <1>5, <1>6, <1>7, <1>8, <1>9, <1>10, <1>11
  DEF SessionNext, SessionStep, BatchDone
-----------------------------------------------------------------------------
(* Calls in flight.                                                        *)

\* What the guardrails and the loop guard found out when a call was dispatched
\* still holds while it runs, and it has not returned anything.
InFlightInv ==
    \A w \in Workers :
        pc[w] # "idle" =>
            /\ Allowed(w, call[w])
            /\ call[w] \notin seen[w]
            /\ result[w] = NoResult

\* A session's context changes only while it has no call in flight.
LEMMA ContextFrame ==
    ASSUME SessionInv, NEW w \in Workers, SessionStep(w), ~Dispatch(w)
    PROVE  /\ UNCHANGED toolVars
           /\ \A v \in Workers :
                 pc[v] # "idle" =>
                     /\ elig'[v] = elig[v] /\ issuedIds'[v] = issuedIds[v]
                     /\ lookedUp'[v] = lookedUp[v] /\ seen'[v] = seen[v]
<1> USE DEF SessionInv, SessionTypeOK, contextVars
<1>1. CASE Absorb(w)
  BY <1>1 DEF Absorb, Cache, UpdateContext
<1>2. CASE TryAgain(w)
  BY <1>2 DEF TryAgain, EmptyContext
<1>3. CASE ~Absorb(w) /\ ~TryAgain(w)
  BY <1>3
  DEF SessionStep, Triaged, AsksForTools, StopsAsking, LoopGuardHit, Blocked,
      UnknownTool, Synthesised, PipelineRaises
<1> QED BY <1>1, <1>2, <1>3

LEMMA StepInFlight ==
    TypeOK /\ SessionInv /\ InFlightInv /\ [SessionNext]_allVars => InFlightInv'
<1> SUFFICES ASSUME TypeOK, SessionInv, InFlightInv, [SessionNext]_allVars
             PROVE  InFlightInv'
  OBVIOUS
<1> USE DEF InFlightInv, Allowed, Refused
<1>1. ASSUME NEW w \in Workers, Dispatch(w) PROVE InFlightInv'
  <2>1. PICK c \in Calls : /\ Fresh(w, c) /\ Allowed(w, c) /\ BeginCall(w, c)
                           /\ UNCHANGED <<elig, issuedIds, lookedUp, seen>>
    BY <1>1 DEF Dispatch, contextVars
  <2>2. /\ call'[w] = c /\ c \notin seen[w]
        /\ pc'[w] # "idle" => result'[w] = NoResult
        /\ \A v \in Workers \ {w} :
              call'[v] = call[v] /\ pc'[v] = pc[v] /\ result'[v] = result[v]
    BY <2>1 DEF Fresh, BeginCall, Return, TypeOK, CallTypeOK
  <2> QED BY <2>1, <2>2
<1>2. ASSUME NEW w \in Workers, SessionStep(w), ~Dispatch(w) PROVE InFlightInv'
  BY <1>2, ContextFrame DEF toolVars, callVars
<1>3. ASSUME NEW w \in Workers, ToolWork(w) PROVE InFlightInv'
  <2>1. /\ UNCHANGED <<call, elig, issuedIds, lookedUp, seen>> /\ pc[w] # "idle"
        /\ \A v \in Workers \ {w} : pc'[v] = pc[v] /\ result'[v] = result[v]
    BY <1>3, ToolStepOnCalls DEF ToolWork, sessionVars, contextVars
  <2>2. pc'[w] # "idle" => result'[w] = result[w]
    BY <1>3
    DEF ToolWork, ToolStep, AttemptFails, Retry, Lookup, CheckEligibility,
        ReserveRefund, AlreadyProcessed, IssueRefund, RejectRefund, SendReply,
        Escalate, OncePerTicket, Return, TypeOK, CallTypeOK
  <2> QED BY <2>1, <2>2
<1>4. CASE \/ WindowCloses /\ UNCHANGED sessionVars
           \/ UNCHANGED allVars
  BY <1>4
  DEF WindowCloses, allVars, toolVars, callVars, sessionVars, contextVars
<1> QED BY <1>1, <1>2, <1>3, <1>4 DEF SessionNext, BatchDone

-----------------------------------------------------------------------------
(* Records.                                                                *)

\* While a session is in its first attempt its records have all its refunds.
FirstTrail ==
    \A w \in Workers :
        tries[w] = 1 /\ w \notin dead /\ phase[w] # "raised" =>
            \A c \in refunds[w] : <<c, "issued">> \in trail[w]

\* A task that ended in an exception does nothing more.
LEMMA RaisedIsFinal ==
    SessionInv /\ [SessionNext]_allVars =>
        \A w \in Workers : phase[w] = "raised" => phase'[w] = "raised"
<1> SUFFICES ASSUME SessionInv, [SessionNext]_allVars,
                    NEW w \in Workers, phase[w] = "raised"
             PROVE  phase'[w] = "raised"
  OBVIOUS
<1> USE DEF SessionInv, SessionTypeOK
<1>1. ASSUME NEW v \in Workers, SessionStep(v) PROVE phase'[w] = "raised"
  <2>1. CASE Dispatch(v) \/ TryAgain(v) \/ PipelineRaises(v)
    BY <2>1
    DEF Dispatch, Fresh, TryAgain, PipelineRaises, Raises, Reports, CannotReport, Finish, Goto
  <2>2. CASE LoopGuardHit(v) \/ Blocked(v) \/ UnknownTool(v) \/ Absorb(v)
    BY <2>2
    DEF LoopGuardHit, Blocked, Fresh, UnknownTool, Absorb, Advance, Goto
  <2>3. CASE \/ Triaged(v) \/ StopsAsking(v) \/ Synthesised(v)
             \/ \E calls \in Responses : AsksForTools(v, calls)
    BY <2>3 DEF Triaged, StopsAsking, Synthesised, AsksForTools, Goto, Finish
  <2> QED BY <1>1, <2>1, <2>2, <2>3 DEF SessionStep
<1>2. CASE UNCHANGED sessionVars \/ UNCHANGED allVars
  BY <1>2 DEF allVars, sessionVars
<1> QED BY <1>1, <1>2 DEF SessionNext, BatchDone, ToolWork

LEMMA StepTrail ==
    SessionInv /\ FirstTrail /\ [SessionNext]_allVars => FirstTrail'
<1> SUFFICES ASSUME SessionInv, FirstTrail, [SessionNext]_allVars PROVE FirstTrail'
  OBVIOUS
<1>0. \A v \in Workers : phase'[v] # "raised" => phase[v] # "raised"
  BY RaisedIsFinal
<1> USE DEF FirstTrail, SessionInv, SessionTypeOK, contextVars, endVars
<1>1. ASSUME NEW w \in Workers, Absorb(w) PROVE FirstTrail'
  BY <1>0, <1>1 DEF Absorb, Record
<1>2. ASSUME NEW w \in Workers, Blocked(w) PROVE FirstTrail'
  <2>1. PICK c \in Calls : Record(w, c, "blocked") /\ UNCHANGED <<endVars, refunds>>
    BY <1>2 DEF Blocked
  <2>2. \A v \in Workers : trail[v] \subseteq trail'[v]
    BY <2>1 DEF Record
  <2> QED BY <1>0, <2>1, <2>2
<1>3. ASSUME NEW w \in Workers, PipelineRaises(w) PROVE FirstTrail'
  <2>1. \A v \in Workers :
           /\ tries'[v] = tries[v] /\ refunds'[v] = refunds[v]
           /\ v \notin dead' /\ phase'[v] # "raised" =>
                 v \notin dead /\ trail'[v] = trail[v]
    BY <1>3 DEF PipelineRaises, Reports, CannotReport, Goto
  <2> QED BY <1>0, <2>1
<1>4. ASSUME NEW w \in Workers, TryAgain(w) PROVE FirstTrail'
  <2>1. tries'[w] = tries[w] + 1 /\ tries[w] \in 1 .. MaxTries
    BY <1>4 DEF TryAgain
  <2>2. /\ UNCHANGED <<dead, refunds>>
        /\ \A v \in Workers \ {w} : tries'[v] = tries[v] /\ trail'[v] = trail[v]
    BY <1>4 DEF TryAgain, EmptyContext
  <2>3. tries'[w] # 1
    BY <2>1, SessionAssumption
  <2> QED BY <1>0, <2>2, <2>3
<1>5. ASSUME NEW w \in Workers,
             \/ Triaged(w) \/ StopsAsking(w) \/ LoopGuardHit(w) \/ UnknownTool(w)
             \/ Dispatch(w) \/ Synthesised(w)
             \/ \E calls \in Responses : AsksForTools(w, calls)
      PROVE  FirstTrail'
  BY <1>0, <1>5
  DEF Triaged, StopsAsking, LoopGuardHit, UnknownTool, Dispatch, Synthesised, AsksForTools
<1>6. CASE \/ UNCHANGED sessionVars
           \/ UNCHANGED allVars
  BY <1>0, <1>6 DEF allVars, sessionVars
<1> QED
  BY <1>1, <1>2, <1>3, <1>4, <1>5, <1>6
  DEF SessionNext, SessionStep, BatchDone, ToolWork

\* What the guardrails and the loop guard know of an attempt is on its records,
\* and what is on them they know.
Recorded(w) ==
    /\ seen[w] = Succeeded(w)
    /\ lookedUp[w] => \E c \in Succeeded(w) : c.tool \in Lookups \cup Checks
    /\ \A i \in Ids :
          elig[w][i] = "eligible" =>
              \E c \in Calls : /\ c.tool \in Checks /\ c.id = i
                              /\ <<c, "eligible">> \in trail[w]
    /\ \A c \in Calls : <<c, "issued">> \in trail[w] => c.id \in issuedIds[w]

RecordsInv == \A w \in Workers : phase[w] \notin Ended => Recorded(w)

\* A result is recorded, cached and taken into the context in one go.
LEMMA AbsorbRecords ==
    ASSUME TypeOK, SessionInv, NEW w \in Workers, Recorded(w), Absorb(w)
    PROVE  Recorded(w)'
<1> DEFINE c == call[w]
           r == result[w]
<1>1. /\ c \in Calls /\ c.id \in Ids /\ r \in Results
      /\ c.tool \in Checks => r \in {"eligible", "not_eligible"} \cup Errors
  BY CallsAssumption
  DEF Absorb, TypeOK, CallTypeOK, Call, SessionInv, PhaseInv
<1>2. /\ trail'[w] = trail[w] \cup {<<c, r>>}
      /\ seen'[w] = IF r \in Errors THEN seen[w] ELSE seen[w] \cup {c}
      /\ lookedUp'[w] =
            (lookedUp[w] \/ (r \notin Errors /\ c.tool \in Lookups \cup Checks))
      /\ issuedIds'[w] = IF r = "issued" THEN issuedIds[w] \cup {c.id} ELSE issuedIds[w]
  BY DEF Absorb, Record, Cache, UpdateContext, SessionInv, SessionTypeOK
<1>3. elig'[w] = IF r \notin Errors /\ c.tool \in Checks
                 THEN [elig[w] EXCEPT ![c.id] = r] ELSE elig[w]
  BY DEF Absorb, UpdateContext, SessionInv, SessionTypeOK
<1>4. elig[w] \in [Ids -> {"unchecked", "eligible", "not_eligible"}]
  BY DEF SessionInv, SessionTypeOK
<1> HIDE DEF c, r
<1>5. Succeeded(w)' = IF r \in Errors THEN Succeeded(w) ELSE Succeeded(w) \cup {c}
  BY <1>1, <1>2 DEF Succeeded
<1>6. seen'[w] = Succeeded(w)'
  BY <1>2, <1>5 DEF Recorded
<1>7. lookedUp'[w] => \E d \in Succeeded(w)' : d.tool \in Lookups \cup Checks
  BY <1>2, <1>5 DEF Recorded
<1>8. ASSUME NEW i \in Ids, elig'[w][i] = "eligible"
      PROVE  \E d \in Calls : /\ d.tool \in Checks /\ d.id = i
                             /\ <<d, "eligible">> \in trail'[w]
  <2>1. CASE r \notin Errors /\ c.tool \in Checks /\ c.id = i
    BY <1>1, <1>2, <1>3, <1>4, <1>8, <2>1
  <2>2. CASE ~(r \notin Errors /\ c.tool \in Checks /\ c.id = i)
    <3>1. elig[w][i] = "eligible"
      BY <1>3, <1>4, <1>8, <2>2
    <3> QED BY <1>2, <3>1 DEF Recorded
  <2> QED BY <2>1, <2>2
<1>9. \A d \in Calls : <<d, "issued">> \in trail'[w] => d.id \in issuedIds'[w]
  BY <1>2 DEF Recorded
<1> QED BY <1>6, <1>7, <1>8, <1>9 DEF Recorded

LEMMA StepRecords ==
    TypeOK /\ SessionInv /\ RecordsInv /\ [SessionNext]_allVars => RecordsInv'
<1> SUFFICES ASSUME TypeOK, SessionInv, RecordsInv, [SessionNext]_allVars
             PROVE  RecordsInv'
  OBVIOUS
<1> USE DEF SessionInv, SessionTypeOK, contextVars
<1>0. ASSUME NEW v \in Workers, Recorded(v), trail'[v] = trail[v],
             elig'[v] = elig[v], issuedIds'[v] = issuedIds[v],
             lookedUp'[v] = lookedUp[v], seen'[v] = seen[v]
      PROVE  Recorded(v)'
  BY <1>0 DEF Recorded, Succeeded
<1>1. ASSUME NEW w \in Workers, Absorb(w) PROVE RecordsInv'
  <2>1. phase[w] = "calling"
    BY <1>1 DEF Absorb
  <2>2. Recorded(w)'
    BY <1>1, <2>1, AbsorbRecords DEF RecordsInv, Ended
  <2>3. \A v \in Workers \ {w} :
           /\ phase'[v] = phase[v] /\ trail'[v] = trail[v] /\ elig'[v] = elig[v]
           /\ issuedIds'[v] = issuedIds[v] /\ lookedUp'[v] = lookedUp[v]
           /\ seen'[v] = seen[v]
    BY <1>1 DEF Absorb, Record, Cache, UpdateContext, Advance, Goto
  <2> QED BY <1>0, <2>2, <2>3 DEF RecordsInv
<1>2. ASSUME NEW w \in Workers, Blocked(w) PROVE RecordsInv'
  <2>1. PICK c \in Calls : Record(w, c, "blocked")
    BY <1>2 DEF Blocked
  <2>2. /\ UNCHANGED <<elig, issuedIds, lookedUp, seen>> /\ phase[w] = "acting"
        /\ \A v \in Workers \ {w} : phase'[v] = phase[v] /\ trail'[v] = trail[v]
    BY <1>2, <2>1 DEF Blocked, Record, Fresh, Advance, Goto
  <2>3. Recorded(w)'
    <3>1. trail'[w] = trail[w] \cup {<<c, "blocked">>}
      BY <2>1 DEF Record
    <3>2. Succeeded(w)' = Succeeded(w)
      BY <3>1 DEF Succeeded, Results, NoResult
    <3>3. Recorded(w)
      BY <2>2 DEF RecordsInv, Ended
    <3> QED BY <2>2, <3>1, <3>2, <3>3 DEF Recorded
  <2> QED BY <1>0, <2>2, <2>3 DEF RecordsInv
<1>3. ASSUME NEW w \in Workers, PipelineRaises(w) PROVE RecordsInv'
  <2>1. /\ UNCHANGED <<elig, issuedIds, lookedUp, seen>>
        /\ \A v \in Workers \ {w} : phase'[v] = phase[v] /\ trail'[v] = trail[v]
        /\ phase'[w] \in Ended \/ (trail' = trail /\ phase[w] \notin Ended)
    BY <1>3
    DEF PipelineRaises, Raises, Fresh, Reports, CannotReport, Finish, Goto, Ended
  <2> QED BY <1>0, <2>1 DEF RecordsInv
<1>4. ASSUME NEW w \in Workers, TryAgain(w) PROVE RecordsInv'
  <2>1. /\ trail'[w] = {} /\ seen'[w] = {} /\ lookedUp'[w] = FALSE
        /\ \A i \in Ids : elig'[w][i] = "unchecked"
    BY <1>4 DEF TryAgain, EmptyContext
  <2>2. Recorded(w)'
    BY <2>1 DEF Recorded, Succeeded
  <2>3. \A v \in Workers \ {w} :
           /\ phase'[v] = phase[v] /\ trail'[v] = trail[v] /\ elig'[v] = elig[v]
           /\ issuedIds'[v] = issuedIds[v] /\ lookedUp'[v] = lookedUp[v]
           /\ seen'[v] = seen[v]
    BY <1>4 DEF TryAgain, EmptyContext, Goto
  <2> QED BY <1>0, <2>2, <2>3 DEF RecordsInv
<1>5. ASSUME NEW w \in Workers,
             \/ Triaged(w) \/ StopsAsking(w) \/ LoopGuardHit(w) \/ UnknownTool(w)
             \/ Dispatch(w) \/ Synthesised(w)
             \/ \E calls \in Responses : AsksForTools(w, calls)
      PROVE  RecordsInv'
  <2>1. /\ UNCHANGED <<elig, issuedIds, lookedUp, seen, trail>>
        /\ \A v \in Workers : phase'[v] \notin Ended => phase[v] \notin Ended
    BY <1>5
    DEF Triaged, StopsAsking, LoopGuardHit, UnknownTool, Dispatch, Synthesised,
        AsksForTools, Fresh, Advance, Finish, Goto, Ended
  <2> QED BY <1>0, <2>1 DEF RecordsInv
<1>6. CASE UNCHANGED sessionVars \/ UNCHANGED allVars
  BY <1>0, <1>6 DEF allVars, sessionVars, RecordsInv
<1> QED
  BY <1>1, <1>2, <1>3, <1>4, <1>5, <1>6
  DEF SessionNext, SessionStep, BatchDone, ToolWork
-----------------------------------------------------------------------------
(* The theorems that rest on them.                                         *)

ResolverInv == TypeOK /\ SessionInv /\ InFlightInv /\ FirstTrail /\ RecordsInv

LEMMA ResolverSafety == SessionSpec => []ResolverInv
<1>1. SessionInit => ResolverInv
  BY InitType, InitSession
  DEF SessionInit, Init, ResolverInv, InFlightInv, FirstTrail, RecordsInv, Recorded,
      Succeeded
<1>2. ResolverInv /\ [SessionNext]_allVars => ResolverInv'
  BY SessionNextIsNext, StepType, StepSession, StepInFlight, StepTrail, StepRecords
  DEF ResolverInv
<1> QED BY <1>1, <1>2, PTL DEF SessionSpec

\* The variables of the resolver and of the worker's retries keep their types:
\* steps and tries stay within MaxSteps and MaxTries, the calls of a response are
\* worked off exactly in the phases that do so (resolve in resolver.py).
THEOREM SessionTyped == SessionSpec => []SessionTypeOK
<1>1. ResolverInv => SessionTypeOK
  BY DEF ResolverInv, SessionInv
<1> QED BY <1>1, ResolverSafety, PTL

\* The cache of resolver.py:259 is what the records say succeeded: the loop guard
\* executes none of it again and answers nothing else from the cache.
THEOREM NoRepeats == SessionSpec => []RepeatsNotExecuted
<1>1. ResolverInv => RepeatsNotExecuted
  BY DEF ResolverInv, InFlightInv, RecordsInv, Recorded, RepeatsNotExecuted, SessionInv,
         SessionTypeOK, Ended
<1> QED BY <1>1, ResolverSafety, PTL

\* all_tool_records of a ticket resolved in its first attempt has its refunds.
THEOREM FirstAttemptsAudited == SessionSpec => []FirstAttemptAudited
<1>1. ResolverInv => FirstAttemptAudited
  BY DEF ResolverInv, FirstTrail, FirstAttemptAudited
<1> QED BY <1>1, ResolverSafety, PTL

\* Guardrails.check vets a call before its first await; what it found out is on the
\* records of this attempt when the money moves and when the reply goes out.
THEOREM OnlyVettedActs == SessionSpec => EffectsVetted
<1> DEFINE Issues(w) ==
             /\ \E c \in Calls : /\ c.tool \in Checks /\ c.id = call[w].id
                                 /\ <<c, "eligible">> \in trail[w]
             /\ \A c \in Calls : c.id = call[w].id => <<c, "issued">> \notin trail[w]
             /\ call[w].amount <= Threshold
           Sends(w) == \E c \in Succeeded(w) : c.tool \in Lookups \cup Checks
           Vetted ==
             \A w \in Workers :
                 /\ pc[w] = "inner_check" /\ result'[w] = "issued" => Issues(w)
                 /\ pc[w] = "latency" /\ result'[w] = "sent" => Sends(w)
<1>1. ResolverInv /\ [SessionNext]_allVars => [Vetted]_allVars
  <2> SUFFICES ASSUME ResolverInv, [SessionNext]_allVars, NEW w \in Workers
               PROVE  /\ pc[w] = "inner_check" /\ result'[w] = "issued" => Issues(w)
                      /\ pc[w] = "latency" /\ result'[w] = "sent" => Sends(w)
    OBVIOUS
  <2> HIDE DEF Issues, Sends
  <2>0. pc[w] # "idle" => Recorded(w)
    BY DEF ResolverInv, SessionInv, SessionTypeOK, RecordsInv, Ended
  <2>1. CASE pc[w] = "inner_check"
    <3>1. call[w].tool = "issue_refund" /\ call[w] \in Call
      BY <2>1, CallsAssumption DEF ResolverInv, TypeOK, CallTypeOK
    <3>2. Allowed(w, call[w])
      BY <2>1 DEF ResolverInv, InFlightInv
    <3>3. call[w].amount \in Int /\ Threshold \in Int
      BY <3>1, SessionAssumption DEF Call
    <3>4. /\ elig[w][call[w].id] = "eligible" /\ call[w].id \in Ids
          /\ call[w].id \notin issuedIds[w] /\ call[w].amount <= Threshold
      BY <3>1, <3>2, <3>3 DEF Allowed, Refused, Call
    <3> QED BY <2>0, <2>1, <3>4 DEF Recorded, Issues
  <2>2. CASE pc[w] = "latency" /\ result'[w] = "sent"
    <3>1. Allowed(w, call[w]) /\ result[w] = NoResult
      BY <2>2 DEF ResolverInv, InFlightInv
    <3>2. call[w].tool = "send_reply"
      <4>1. ASSUME NEW v \in Workers, ToolWork(v) PROVE call[w].tool = "send_reply"
        <5>1. v = w
          BY <2>2, <3>1, <4>1, ToolStepOnCalls DEF ResolverInv, ToolWork, NoResult
        <5> QED
          BY <2>2, <3>1, <4>1, <5>1
          DEF ResolverInv, TypeOK, CallTypeOK, ToolWork, ToolStep, AttemptFails, Retry,
              Lookup, CheckEligibility, ReserveRefund, AlreadyProcessed, IssueRefund,
              RejectRefund, SendReply, Escalate, OncePerTicket, Running, Return, NoResult
      <4>2. ASSUME NEW v \in Workers, SessionStep(v) PROVE FALSE
        <5>1. CASE Dispatch(v)
          <6>1. PICK c \in Calls : BeginCall(v, c)
            BY <5>1 DEF Dispatch
          <6>2. result'[w] \in {result[w], NoResult, "invalid_input"}
            BY <6>1 DEF BeginCall, Return, ResolverInv, TypeOK, CallTypeOK
          <6> QED BY <2>2, <3>1, <6>2 DEF NoResult
        <5>2. CASE ~Dispatch(v)
          <6>1. UNCHANGED toolVars
            BY <4>2, <5>2, ContextFrame DEF ResolverInv
          <6> QED BY <2>2, <3>1, <6>1 DEF toolVars, callVars, NoResult
        <5> QED BY <5>1, <5>2
      <4>3. CASE WindowCloses \/ UNCHANGED allVars
        BY <2>2, <3>1, <4>3 DEF WindowCloses, allVars, toolVars, callVars, NoResult
      <4> QED BY <4>1, <4>2, <4>3 DEF SessionNext, BatchDone
    <3>3. lookedUp[w]
      BY <3>1, <3>2 DEF Allowed, Refused
    <3> QED BY <2>0, <2>2, <3>3 DEF Recorded, Sends
  <2> QED BY <2>1, <2>2
<1> QED BY <1>1, ResolverSafety, PTL DEF SessionSpec, EffectsVetted
-----------------------------------------------------------------------------
(* Every session ends: each step of it leaves less to do.                  *)

PhaseRank ==
    [triage |-> 4, thinking |-> 3, acting |-> 3, calling |-> 3, synthesis |-> 2,
     cooldown |-> 1, done |-> 0, raised |-> 0]
AwaitRank == [latency |-> 3, inner_check |-> 2, backoff |-> 1, idle |-> 0]

\* What a session has ahead of it: tries, phases of this try, ReAct steps, an answer
\* of the LLM, calls of that answer, a dispatch, attempts of the call, awaits.
Left(w) ==
    <<MaxTries - tries[w], PhaseRank[phase[w]], MaxSteps - step[w],
      IF phase[w] = "thinking" THEN 1 ELSE 0, Len(todo[w]),
      IF phase[w] = "acting" THEN 1 ELSE 0, MaxAttempts - attempt[w],
      AwaitRank[pc[w]]>>
Lefts == [1 .. 8 -> Nat]

LEMMA EightPlaces ==
    ASSUME NEW a \in Nat, NEW b \in Nat, NEW c \in Nat, NEW d \in Nat,
           NEW e \in Nat, NEW f \in Nat, NEW g \in Nat, NEW h \in Nat
    PROVE  <<a, b, c, d, e, f, g, h>> \in Lefts
<1> DEFINE s == <<a, b, c, d, e, f, g, h>>
<1>1. s \in Seq(Nat) /\ Len(s) = 8
  OBVIOUS
<1> HIDE DEF s
<1>2. s \in [1 .. 8 -> Nat]
  BY <1>1, LenProperties
<1> QED BY <1>2 DEF Lefts, s

LEMMA SessionLeftType ==
    TypeOK /\ SessionInv => \A w \in Workers : Left(w) \in Lefts
<1> SUFFICES ASSUME TypeOK, SessionInv, NEW w \in Workers PROVE Left(w) \in Lefts
  OBVIOUS
<1>1. /\ tries[w] \in 1 .. MaxTries /\ phase[w] \in Phases /\ step[w] \in 0 .. MaxSteps
      /\ todo[w] \in Seq(Requests) /\ attempt[w] \in 1 .. MaxAttempts
      /\ pc[w] \in {"idle", "latency", "inner_check", "backoff"}
  BY DEF SessionInv, SessionTypeOK, TypeOK, CallTypeOK
<1>2. MaxTries - tries[w] \in Nat /\ MaxSteps - step[w] \in Nat
  BY <1>1, SessionAssumption
<1>3. MaxAttempts - attempt[w] \in Nat /\ Len(todo[w]) \in Nat
  BY <1>1, MaxAttemptsAssumption, LenProperties
<1>4. PhaseRank[phase[w]] \in Nat /\ AwaitRank[pc[w]] \in Nat
  BY <1>1 DEF Phases, PhaseRank, AwaitRank
<1>5. /\ (IF phase[w] = "thinking" THEN 1 ELSE 0) \in Nat
      /\ (IF phase[w] = "acting" THEN 1 ELSE 0) \in Nat
  OBVIOUS
<1> QED BY <1>2, <1>3, <1>4, <1>5, EightPlaces DEF Left

LEMMA SessionLeftTypeNext ==
    (TypeOK /\ SessionInv)' => (\A w \in Workers : Left(w) \in Lefts)'
  BY SessionLeftType, PTL

\* What has to change for a session to have less ahead of it.
LEMMA SessionGoesDown ==
    ASSUME TypeOK, SessionInv, TypeOK', SessionInv', NEW w \in Workers,
           \E j \in 1 .. 8 : /\ Left(w)'[j] < Left(w)[j]
                             /\ \A i \in 1 .. 8 : i < j => Left(w)'[i] = Left(w)[i]
    PROVE  <<Left(w)', Left(w)>> \in LexOrder(8)
<1>1. Left(w) \in [1 .. 8 -> Nat] /\ Left(w)' \in [1 .. 8 -> Nat]
  BY SessionLeftType, SessionLeftTypeNext DEF Lefts
<1> QED BY <1>1, GoesDown

\* A tool comes closer to its return, attempt by attempt and await by await.
LEMMA ToolGoesOn ==
    ASSUME TypeOK, NEW w \in Workers, ToolStep(w)
    PROVE  /\ \/ attempt[w] < attempt'[w]
              \/ attempt'[w] = attempt[w] /\ AwaitRank[pc'[w]] < AwaitRank[pc[w]]
           /\ \A v \in Workers \ {w} : pc'[v] = pc[v] /\ attempt'[v] = attempt[v]
<1> USE DEF TypeOK, CallTypeOK, AwaitRank
<1>1. attempt[w] \in Nat
  BY MaxAttemptsAssumption
<1>2. CASE AttemptFails(w)
  BY <1>2 DEF AttemptFails, Return
<1>3. CASE Retry(w)
  BY <1>1, <1>3 DEF Retry
<1>4. CASE Lookup(w) \/ SendReply(w) \/ Escalate(w) \/ CheckEligibility(w)
  BY <1>4 DEF Lookup, CheckEligibility, SendReply, Escalate, OncePerTicket, Running, Return
<1>5. CASE ReserveRefund(w) \/ AlreadyProcessed(w)
  BY <1>5 DEF ReserveRefund, AlreadyProcessed, Running, Return
<1>6. CASE IssueRefund(w) \/ RejectRefund(w)
  BY <1>6 DEF IssueRefund, RejectRefund, Return
<1> QED BY <1>2, <1>3, <1>4, <1>5, <1>6 DEF ToolStep

\* Advance takes a call off the response or, with its last one, ends the step.
LEMMA AdvanceGoesDown ==
    ASSUME TypeOK, SessionInv, TypeOK', SessionInv', NEW w \in Workers,
           phase[w] \in {"acting", "calling"}, Advance(w), tries' = tries
    PROVE  <<Left(w)', Left(w)>> \in LexOrder(8)
<1> DEFINE f == Left(w)'
           g == Left(w)
<1>1. /\ f[1] = MaxTries - tries'[w] /\ g[1] = MaxTries - tries[w]
      /\ f[2] = PhaseRank[phase'[w]] /\ g[2] = PhaseRank[phase[w]]
      /\ f[3] = MaxSteps - step'[w] /\ g[3] = MaxSteps - step[w]
      /\ f[4] = (IF phase'[w] = "thinking" THEN 1 ELSE 0)
      /\ g[4] = (IF phase[w] = "thinking" THEN 1 ELSE 0)
      /\ f[5] = Len(todo'[w]) /\ g[5] = Len(todo[w])
  BY DEF Left
<1> HIDE DEF f, g
<1>2. /\ todo[w] \in Seq(Requests) /\ todo[w] # <<>> /\ Len(todo[w]) \in Nat
      /\ step[w] \in Nat /\ MaxSteps \in Nat
      /\ phase \in [Workers -> Phases] /\ todo \in [Workers -> Seq(Requests)]
      /\ step \in [Workers -> 0 .. MaxSteps]
  BY SessionAssumption, LenProperties DEF SessionInv, SessionTypeOK
<1>3. Len(Tail(todo[w])) = Len(todo[w]) - 1
  BY <1>2, HeadTailProperties
<1>4. CASE Len(todo[w]) = 1
  <2>1. /\ step'[w] = step[w] + 1
        /\ phase'[w] \in {"synthesis", "thinking"}
    BY <1>2, <1>4 DEF Advance, Goto
  <2>2. CASE phase'[w] = "synthesis"
    <3>1. f[2] < g[2] /\ \A i \in 1 .. 8 : i < 2 => f[i] = g[i]
      BY <1>1, <2>2 DEF PhaseRank
    <3> QED BY <3>1, SessionGoesDown DEF f, g
  <2>3. CASE phase'[w] = "thinking"
    <3>1. f[3] < g[3] /\ \A i \in 1 .. 8 : i < 3 => f[i] = g[i]
      BY <1>1, <1>2, <2>1, <2>3 DEF PhaseRank
    <3> QED BY <3>1, SessionGoesDown DEF f, g
  <2> QED BY <2>1, <2>2, <2>3
<1>5. CASE Len(todo[w]) # 1
  <2>1. /\ step'[w] = step[w] /\ phase'[w] = "acting" /\ todo'[w] = Tail(todo[w])
    BY <1>2, <1>5 DEF Advance, Goto
  <2>2. f[5] < g[5] /\ \A i \in 1 .. 8 : i < 5 => f[i] = g[i]
    BY <1>1, <1>2, <1>3, <2>1 DEF PhaseRank
  <2> QED BY <2>2, SessionGoesDown DEF f, g
<1> QED BY <1>4, <1>5

\* Whoever takes a step, resolver or tool, has less ahead of it.
LEMMA WorkGoesDown ==
    ASSUME TypeOK, SessionInv, TypeOK', SessionInv', NEW w \in Workers,
           SessionStep(w) \/ ToolWork(w)
    PROVE  <<Left(w)', Left(w)>> \in LexOrder(8)
<1> DEFINE f == Left(w)'
           g == Left(w)
<1>1. /\ f[1] = MaxTries - tries'[w] /\ g[1] = MaxTries - tries[w]
      /\ f[2] = PhaseRank[phase'[w]] /\ g[2] = PhaseRank[phase[w]]
      /\ f[3] = MaxSteps - step'[w] /\ g[3] = MaxSteps - step[w]
      /\ f[4] = (IF phase'[w] = "thinking" THEN 1 ELSE 0)
      /\ g[4] = (IF phase[w] = "thinking" THEN 1 ELSE 0)
      /\ f[5] = Len(todo'[w]) /\ g[5] = Len(todo[w])
      /\ f[6] = (IF phase'[w] = "acting" THEN 1 ELSE 0)
      /\ g[6] = (IF phase[w] = "acting" THEN 1 ELSE 0)
      /\ f[7] = MaxAttempts - attempt'[w] /\ g[7] = MaxAttempts - attempt[w]
      /\ f[8] = AwaitRank[pc'[w]] /\ g[8] = AwaitRank[pc[w]]
  BY DEF Left
<1> HIDE DEF f, g
<1>2. /\ phase \in [Workers -> Phases] /\ tries \in [Workers -> 1 .. MaxTries]
      /\ tries[w] \in Nat /\ MaxTries \in Nat
      /\ attempt[w] \in Nat /\ attempt'[w] \in Nat /\ MaxAttempts \in Nat
  BY SessionAssumption, MaxAttemptsAssumption
  DEF SessionInv, SessionTypeOK, TypeOK, CallTypeOK
<1>3. CASE \/ Triaged(w) \/ StopsAsking(w) \/ Synthesised(w) \/ PipelineRaises(w)
  <2>1. /\ PhaseRank[phase'[w]] < PhaseRank[phase[w]] /\ tries' = tries
    BY <1>2, <1>3
    DEF Triaged, StopsAsking, Synthesised, PipelineRaises, Raises, Reports,
        CannotReport, Fresh, Finish, Goto, PhaseRank, endVars
  <2>2. f[2] < g[2] /\ \A i \in 1 .. 8 : i < 2 => f[i] = g[i]
    BY <1>1, <2>1
  <2> QED BY <2>2, SessionGoesDown DEF f, g
<1>4. ASSUME NEW calls \in Responses, AsksForTools(w, calls)
      PROVE  <<Left(w)', Left(w)>> \in LexOrder(8)
  <2>1. /\ phase[w] = "thinking" /\ phase'[w] = "acting" /\ UNCHANGED <<tries, step>>
    BY <1>2, <1>4 DEF AsksForTools, Goto, endVars
  <2>2. f[4] < g[4] /\ \A i \in 1 .. 8 : i < 4 => f[i] = g[i]
    BY <1>1, <2>1 DEF PhaseRank
  <2> QED BY <2>2, SessionGoesDown DEF f, g
<1>5. CASE LoopGuardHit(w) \/ Blocked(w) \/ UnknownTool(w) \/ Absorb(w)
  <2>1. phase[w] \in {"acting", "calling"} /\ Advance(w) /\ tries' = tries
    BY <1>5 DEF LoopGuardHit, Blocked, UnknownTool, Absorb, Fresh, endVars
  <2> QED BY <2>1, AdvanceGoesDown
<1>6. CASE Dispatch(w)
  <2>1. /\ phase[w] = "acting" /\ phase'[w] = "calling"
        /\ UNCHANGED <<tries, step, todo>>
    BY <1>2, <1>6 DEF Dispatch, Fresh, Goto, contextVars, endVars
  <2>2. f[6] < g[6] /\ \A i \in 1 .. 8 : i < 6 => f[i] = g[i]
    BY <1>1, <2>1 DEF PhaseRank
  <2> QED BY <2>2, SessionGoesDown DEF f, g
<1>7. CASE TryAgain(w)
  <2>1. tries'[w] = tries[w] + 1
    BY <1>2, <1>7 DEF TryAgain
  <2>2. f[1] < g[1] /\ \A i \in 1 .. 8 : i < 1 => f[i] = g[i]
    BY <1>1, <1>2, <2>1
  <2> QED BY <2>2, SessionGoesDown DEF f, g
<1>8. CASE ToolWork(w)
  <2>1. /\ UNCHANGED <<tries, phase, step, todo>>
        /\ \/ attempt[w] < attempt'[w]
           \/ attempt'[w] = attempt[w] /\ AwaitRank[pc'[w]] < AwaitRank[pc[w]]
    BY <1>8, ToolGoesOn DEF ToolWork, sessionVars, contextVars, endVars
  <2>2. CASE attempt[w] < attempt'[w]
    <3>1. f[7] < g[7] /\ \A i \in 1 .. 8 : i < 7 => f[i] = g[i]
      BY <1>1, <1>2, <2>1, <2>2
    <3> QED BY <3>1, SessionGoesDown DEF f, g
  <2>3. CASE attempt'[w] = attempt[w] /\ AwaitRank[pc'[w]] < AwaitRank[pc[w]]
    <3>1. f[8] < g[8] /\ \A i \in 1 .. 8 : i < 8 => f[i] = g[i]
      BY <1>1, <2>1, <2>3
    <3> QED BY <3>1, SessionGoesDown DEF f, g
  <2> QED BY <2>1, <2>2, <2>3
<1> QED BY <1>3, <1>4, <1>5, <1>6, <1>7, <1>8 DEF SessionStep

\* Nobody gives another session more to do.
LEMMA OthersKeepWhatIsLeft ==
    ASSUME TypeOK, SessionInv, NEW w \in Workers, SessionStep(w) \/ ToolWork(w),
           NEW v \in Workers \ {w}
    PROVE  Left(v)' = Left(v)
<1> SUFFICES /\ phase'[v] = phase[v] /\ tries'[v] = tries[v] /\ step'[v] = step[v]
             /\ todo'[v] = todo[v] /\ attempt'[v] = attempt[v] /\ pc'[v] = pc[v]
  BY DEF Left
<1> USE DEF TypeOK, CallTypeOK, SessionInv, SessionTypeOK, contextVars, endVars
<1>1. CASE ToolWork(w)
  BY <1>1, ToolGoesOn DEF ToolWork, sessionVars
<1>2. CASE Dispatch(w)
  BY <1>2 DEF Dispatch, Goto, BeginCall, Return
<1>3. CASE TryAgain(w)
  BY <1>3 DEF TryAgain, Goto, EmptyContext, toolVars, callVars
<1>4. CASE PipelineRaises(w)
  BY <1>4 DEF PipelineRaises, Reports, CannotReport, Goto, Finish, toolVars, callVars
<1>5. CASE LoopGuardHit(w) \/ Blocked(w) \/ UnknownTool(w) \/ Absorb(w)
  BY <1>5
  DEF LoopGuardHit, Blocked, UnknownTool, Absorb, Advance, Goto, toolVars, callVars
<1>6. CASE \/ Triaged(w) \/ StopsAsking(w) \/ Synthesised(w)
           \/ \E calls \in Responses : AsksForTools(w, calls)
  BY <1>6
  DEF Triaged, StopsAsking, Synthesised, AsksForTools, Goto, Finish, toolVars, callVars
<1> QED BY <1>1, <1>2, <1>3, <1>4, <1>5, <1>6 DEF SessionStep

\* The safety core of SessionEnds, for any number of sessions: whatever the LLM asks
\* for and however often a tool times out, each step uses up some of what its session
\* has left, in an order in which nothing goes down for ever, and leaves the other
\* sessions as much as before.  Tries, ReAct steps, tool attempts (worker_pool.py:63,
\* resolver.py:145, resilience.py:49) and the awaits between them bound each other;
\* the one step outside is the calendar's, which closes a return window for good.
THEOREM SessionsRunOut ==
    /\ IsWellFoundedOn(LexOrder(8), Lefts)
    /\ SessionSpec => [](\A w \in Workers : Left(w) \in Lefts)
    /\ SessionSpec =>
         [][\/ \E w \in Workers :
                  /\ <<Left(w)', Left(w)>> \in LexOrder(8)
                  /\ \A v \in Workers \ {w} : Left(v)' = Left(v)
            \/ /\ \A w \in Workers : Left(w)' = Left(w)
               /\ \E o \in windowOpen : windowOpen' = windowOpen \ {o}]_allVars
<1>1. TypeOK /\ SessionInv /\ (TypeOK /\ SessionInv)' /\ [SessionNext]_allVars =>
         [\/ \E w \in Workers :
                /\ <<Left(w)', Left(w)>> \in LexOrder(8)
                /\ \A v \in Workers \ {w} : Left(v)' = Left(v)
          \/ /\ \A w \in Workers : Left(w)' = Left(w)
             /\ \E o \in windowOpen : windowOpen' = windowOpen \ {o}]_allVars
  <2> SUFFICES ASSUME TypeOK, SessionInv, TypeOK', SessionInv', SessionNext,
                      ~UNCHANGED allVars
               PROVE  \/ \E w \in Workers :
                            /\ <<Left(w)', Left(w)>> \in LexOrder(8)
                            /\ \A v \in Workers \ {w} : Left(v)' = Left(v)
                      \/ /\ \A w \in Workers : Left(w)' = Left(w)
                         /\ \E o \in windowOpen : windowOpen' = windowOpen \ {o}
    OBVIOUS
  <2>1. ASSUME NEW w \in Workers, SessionStep(w) \/ ToolWork(w)
        PROVE  /\ <<Left(w)', Left(w)>> \in LexOrder(8)
               /\ \A v \in Workers \ {w} : Left(v)' = Left(v)
    BY <2>1, WorkGoesDown, OthersKeepWhatIsLeft
  <2>2. CASE WindowCloses /\ UNCHANGED sessionVars
    <3>1. \A w \in Workers : Left(w)' = Left(w)
      BY <2>2 DEF WindowCloses, Left, sessionVars, contextVars, endVars, callVars
    <3>2. \E o \in windowOpen : windowOpen' = windowOpen \ {o}
      BY <2>2 DEF WindowCloses, DeadlinePasses
    <3> QED BY <3>1, <3>2
  <2> QED BY <2>1, <2>2 DEF SessionNext, BatchDone
<1>2. ResolverInv => TypeOK /\ SessionInv
  BY DEF ResolverInv
<1>3. SessionSpec => [](\A w \in Workers : Left(w) \in Lefts)
  BY <1>2, SessionLeftType, ResolverSafety, PTL
<1>4. SessionSpec =>
         [][\/ \E w \in Workers :
                  /\ <<Left(w)', Left(w)>> \in LexOrder(8)
                  /\ \A v \in Workers \ {w} : Left(v)' = Left(v)
            \/ /\ \A w \in Workers : Left(w)' = Left(w)
               /\ \E o \in windowOpen : windowOpen' = windowOpen \ {o}]_allVars
  BY <1>1, <1>2, ResolverSafety, PTL DEF SessionSpec
<1>5. IsWellFoundedOn(LexOrder(8), Lefts)
  BY LexWellFounded DEF Lefts
<1> QED BY <1>3, <1>4, <1>5
-----------------------------------------------------------------------------
(* What a session promises of its ticket.                                  *)

StateOf(w) ==
    CASE phase[w] \in Phases \ ({"cooldown"} \cup Ended) -> "trying"
      [] phase[w] = "cooldown" -> "pausing"
      [] phase[w] = "done" -> IF w \in dead THEN "failed" ELSE "returned"
      [] phase[w] = "raised" -> "raised"

Life(w) == INSTANCE TicketLife
               WITH state <- StateOf(w), tries <- tries[w], letter <- (w \in dead)

\* Only a session that has ended has a dead letter.
DeadAreDone == \A w \in dead : phase[w] \in Ended

\* Whose phase another session's step leaves alone.
LEMMA OthersKeepTheirLife ==
    ASSUME TypeOK, SessionInv, NEW w \in Workers, SessionStep(w) \/ ToolWork(w),
           NEW v \in Workers \ {w}
    PROVE  phase'[v] = phase[v] /\ tries'[v] = tries[v] /\ (v \in dead' <=> v \in dead)
<1> USE DEF SessionInv, SessionTypeOK, endVars
<1>1. CASE ToolWork(w)
  BY <1>1 DEF ToolWork, sessionVars
<1>2. CASE Dispatch(w) \/ TryAgain(w) \/ PipelineRaises(w)
  BY <1>2 DEF Dispatch, TryAgain, PipelineRaises, Reports, CannotReport, Finish, Goto
<1>3. CASE LoopGuardHit(w) \/ Blocked(w) \/ UnknownTool(w) \/ Absorb(w)
  BY <1>3 DEF LoopGuardHit, Blocked, UnknownTool, Absorb, Advance, Goto
<1>4. CASE \/ Triaged(w) \/ StopsAsking(w) \/ Synthesised(w)
           \/ \E calls \in Responses : AsksForTools(w, calls)
  BY <1>4 DEF Triaged, StopsAsking, Synthesised, AsksForTools, Goto, Finish
<1> QED BY <1>1, <1>2, <1>3, <1>4 DEF SessionStep

\* A session's own step is one of its ticket's life.
LEMMA OwnLife ==
    ASSUME TypeOK, SessionInv, DeadAreDone, NEW w \in Workers,
           SessionStep(w) \/ ToolWork(w)
    PROVE  [Life(w)!Next]_(Life(w)!vars)
<1> DEFINE Works == Phases \ ({"cooldown"} \cup Ended)
<1> USE DEF Ended
<1>0. /\ phase \in [Workers -> Phases] /\ tries \in [Workers -> 1 .. MaxTries]
      /\ tries[w] \in Nat /\ MaxTries \in Nat /\ phase[w] \in Phases
  BY SessionAssumption DEF SessionInv, SessionTypeOK
<1>1. ASSUME phase[w] \in Works, phase'[w] \in Works, tries'[w] = tries[w], dead' = dead
      PROVE  UNCHANGED Life(w)!vars
  BY <1>1 DEF StateOf, Life!vars, Phases
<1>2. CASE Synthesised(w)
  <2>1. /\ phase[w] = "synthesis" /\ phase'[w] = "done" /\ tries'[w] = tries[w]
        /\ dead' = dead /\ w \notin dead
    BY <1>0, <1>2 DEF Synthesised, Finish, Goto, DeadAreDone
  <2>2. Life(w)!Ends("returned", FALSE)
    BY <2>1 DEF Life!Ends, StateOf, Phases
  <2> QED BY <2>2 DEF Life!Next
<1>3. CASE PipelineRaises(w)
  <2>1. phase[w] \in Works /\ tries'[w] = tries[w]
    BY <1>3 DEF PipelineRaises, Raises, Fresh, Phases
  <2>2. \/ phase'[w] = "cooldown" /\ tries[w] < MaxTries /\ dead' = dead
        \/ phase'[w] = "done" /\ dead' = dead \cup {w}
        \/ phase'[w] = "raised" /\ dead' \in {dead, dead \cup {w}}
    BY <1>0, <1>3 DEF PipelineRaises, Reports, CannotReport, Finish, Goto
  <2>3. CASE phase'[w] = "cooldown" /\ tries[w] < MaxTries /\ dead' = dead
    <3>1. w \notin dead
      BY <2>1 DEF DeadAreDone
    <3>2. Life(w)!Ends("pausing", FALSE)
      BY <2>1, <2>3, <3>1 DEF Life!Ends, StateOf, Phases
    <3> QED BY <2>3, <3>2 DEF Life!Next, Life!Pauses
  <2>4. CASE phase'[w] = "done" /\ dead' = dead \cup {w}
    <3>1. Life(w)!Ends("failed", TRUE)
      BY <2>1, <2>4 DEF Life!Ends, StateOf, Phases
    <3> QED BY <3>1 DEF Life!Next
  <2>5. CASE phase'[w] = "raised" /\ dead' \in {dead, dead \cup {w}}
    <3>1. Life(w)!Ends("raised", w \in dead')
      BY <2>1, <2>5 DEF Life!Ends, StateOf, Phases
    <3>2. (w \in dead') \in BOOLEAN
      OBVIOUS
    <3> QED BY <3>1, <3>2 DEF Life!Next
  <2> QED BY <2>2, <2>3, <2>4, <2>5
<1>4. CASE TryAgain(w)
  <2>1. /\ phase[w] = "cooldown" /\ phase'[w] = "triage" /\ dead' = dead
        /\ tries'[w] = tries[w] + 1 /\ tries[w] < MaxTries
    BY <1>0, <1>4 DEF TryAgain, Goto, SessionInv, PhaseInv
  <2>2. Life(w)!Try("pausing")
    BY <2>1 DEF Life!Try, StateOf, Phases
  <2> QED BY <2>2 DEF Life!Next
<1>5. CASE LoopGuardHit(w) \/ Blocked(w) \/ UnknownTool(w) \/ Absorb(w)
  <2>1. phase[w] \in {"acting", "calling"} /\ Advance(w) /\ UNCHANGED <<tries, dead>>
    BY <1>5 DEF LoopGuardHit, Blocked, UnknownTool, Absorb, Fresh, endVars
  <2>2. phase'[w] \in Works
    BY <2>1, AdvanceStep DEF Phases
  <2> QED BY <1>1, <2>1, <2>2 DEF Phases
<1>6. CASE \/ Triaged(w) \/ StopsAsking(w) \/ Dispatch(w)
           \/ \E calls \in Responses : AsksForTools(w, calls)
  <2>1. phase[w] \in Works /\ phase'[w] \in Works /\ UNCHANGED <<tries, dead>>
    BY <1>0, <1>6
    DEF Triaged, StopsAsking, Dispatch, Fresh, AsksForTools, Goto, Phases, endVars
  <2> QED BY <1>1, <2>1
<1>7. CASE ToolWork(w)
  BY <1>7 DEF ToolWork, sessionVars, endVars, StateOf, Life!vars
<1> QED BY <1>2, <1>3, <1>4, <1>5, <1>6, <1>7 DEF SessionStep

LEMMA StepDead ==
    TypeOK /\ SessionInv /\ DeadAreDone /\ [SessionNext]_allVars => DeadAreDone'
<1> SUFFICES ASSUME TypeOK, SessionInv, DeadAreDone, [SessionNext]_allVars
             PROVE  DeadAreDone'
  OBVIOUS
<1> USE DEF DeadAreDone
<1>1. ASSUME NEW w \in Workers, SessionStep(w) \/ ToolWork(w) PROVE DeadAreDone'
  <2>1. \A v \in dead' \ {w} : v \in Workers
    <3>1. dead' \subseteq dead \cup {w} /\ dead \subseteq Workers
      BY <1>1
      DEF SessionStep, Triaged, AsksForTools, StopsAsking, LoopGuardHit, Blocked,
          UnknownTool, Dispatch, Absorb, Synthesised, PipelineRaises, Reports,
          CannotReport, TryAgain, ToolWork, sessionVars, endVars, SessionInv, SessionTypeOK
    <3> QED BY <3>1
  <2>2. \A v \in dead' \ {w} : phase'[v] \in Ended
    BY <1>1, <2>1, OthersKeepTheirLife
  <2>3. w \in dead' => phase'[w] \in Ended
    <3>1. CASE ToolWork(w)
      BY <3>1 DEF ToolWork, sessionVars, endVars
    <3>2. CASE PipelineRaises(w)
      <4>1. phase[w] \notin Ended /\ phase \in [Workers -> Phases]
        BY <3>2 DEF PipelineRaises, Raises, Fresh, SessionInv, SessionTypeOK, Ended
      <4> QED BY <3>2, <4>1 DEF PipelineRaises, Reports, CannotReport, Finish, Goto, Ended
    <3>3. CASE SessionStep(w) /\ ~PipelineRaises(w)
      BY <3>3
      DEF SessionStep, Triaged, AsksForTools, StopsAsking, LoopGuardHit, Blocked, Fresh,
          UnknownTool, Dispatch, Absorb, Synthesised, TryAgain, endVars, Ended
    <3> QED BY <1>1, <3>1, <3>2, <3>3
  <2> QED BY <2>2, <2>3
<1>2. CASE (WindowCloses /\ UNCHANGED sessionVars) \/ UNCHANGED allVars
  BY <1>2 DEF allVars, sessionVars, endVars
<1> QED BY <1>1, <1>2 DEF SessionNext, BatchDone

\* The same promise kept from inside the worker: whatever the LLM answers, the tools
\* do and the guardrails block, the ticket of a session is tried at most MaxTries
\* times and ends once: with a Resolution, where a dead letter marks a reported
\* failure, or with the exception of a report that could not be written, which may
\* have left its dead letter (worker_pool.py:88).  So what WorkerPool takes a pipeline
\* for is what TicketSession makes of it.
THEOREM SessionsLive == SessionSpec => \A w \in Workers : Life(w)!Spec
<1> SUFFICES ASSUME NEW w \in Workers PROVE SessionSpec => Life(w)!Spec
  OBVIOUS
<1> DEFINE Inv == TypeOK /\ SessionInv /\ DeadAreDone
<1>1. SessionInit => Life(w)!Init
  BY DEF SessionInit, Life!Init, StateOf, Phases, Ended
<1>2. SessionInit => DeadAreDone
  BY DEF SessionInit, DeadAreDone
<1>3. ResolverInv => TypeOK /\ SessionInv
  BY DEF ResolverInv
<1>4. SessionSpec => []Inv
  BY <1>2, <1>3, StepDead, ResolverSafety, PTL DEF SessionSpec
<1>5. Inv /\ [SessionNext]_allVars => [Life(w)!Next]_(Life(w)!vars)
  <2> SUFFICES ASSUME Inv, [SessionNext]_allVars PROVE [Life(w)!Next]_(Life(w)!vars)
    OBVIOUS
  <2>1. CASE SessionStep(w) \/ ToolWork(w)
    BY <2>1, OwnLife
  <2>2. ASSUME NEW v \in Workers \ {w}, SessionStep(v) \/ ToolWork(v)
        PROVE  UNCHANGED Life(w)!vars
    <3>1. phase'[w] = phase[w] /\ tries'[w] = tries[w] /\ (w \in dead' <=> w \in dead)
      BY <2>2, OthersKeepTheirLife
    <3> QED BY <3>1 DEF Life!vars, StateOf
  <2>3. CASE (WindowCloses /\ UNCHANGED sessionVars) \/ UNCHANGED allVars
    BY <2>3 DEF allVars, sessionVars, endVars, Life!vars, StateOf
  <2> QED BY <2>1, <2>2, <2>3 DEF SessionNext, BatchDone
<1> QED BY <1>1, <1>4, <1>5, PTL DEF SessionSpec, Life!Spec
=============================================================================
