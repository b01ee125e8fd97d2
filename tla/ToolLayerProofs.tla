--------------------------- MODULE ToolLayerProofs ---------------------------
(***************************************************************************)
(* The safety properties of ToolLayer, proved for any number of sessions,  *)
(* orders, tickets, keys and attempts.                                     *)
(***************************************************************************)
EXTENDS ToolLayer, TLAPS

\* Every refund call spells its order id the way the store does.
CanonicalIds == \A c \in Calls : c.tool = "issue_refund" => Strip[c.id] = c.id
-----------------------------------------------------------------------------
(* Types.                                                                  *)

\* What an in-flight call is worth is a positive number of cents.
LEMMA CappedType ==
    ASSUME NEW c \in Call, Valid(c), c.tool = "issue_refund", Eligible(c.id)
    PROVE  /\ Strip[c.id] \in Orders
           /\ Capped(c) \in Nat \ {0}
           /\ Capped(c) <= OrderAmount[Strip[c.id]]
           /\ Capped(c) <= c.amount
  BY OrdersAssumption DEF Call, Valid, Eligible, Capped

LEMMA InitType == Init => TypeOK
  BY MaxAttemptsAssumption
  DEF Init, TypeOK, StoreInit, StoreTypeOK, CallTypeOK, HistoryTypeOK, Results,
      NoResult

\* What a step leaves alone keeps its type.
LEMMA CallFrameType ==
    ASSUME TypeOK, UNCHANGED <<storeVars, historyVars>>
    PROVE  StoreTypeOK' /\ HistoryTypeOK'
  BY DEF TypeOK, StoreTypeOK, HistoryTypeOK, storeVars, historyVars

\* A call that returns goes idle, with its result.
LEMMA ReturnType ==
    ASSUME TypeOK, NEW w \in Workers, NEW r \in Results, Return(w, r),
           UNCHANGED <<call, attempt>>
    PROVE  CallTypeOK'
  BY DEF TypeOK, CallTypeOK, Return

\* Taking effect counts one more for one key of one ticket, and nothing else.
LEMMA TakeEffectType ==
    ASSUME HistoryTypeOK, NEW t \in Tickets, NEW a \in ActionKeys,
           TakeEffect(t, a)
    PROVE  /\ effects' \in [Tickets -> [ActionKeys -> Nat]]
           /\ \A u \in Tickets, b \in ActionKeys :
                 effects'[u][b] = IF u = t /\ b = a THEN effects[u][b] + 1
                                  ELSE effects[u][b]
<1> DEFINE counts == [effects[t] EXCEPT ![a] = effects[t][a] + 1]
<1>1. effects[t] \in [ActionKeys -> Nat]
  BY DEF HistoryTypeOK
<1>2. counts \in [ActionKeys -> Nat]
  BY <1>1
<1>3. effects' = [effects EXCEPT ![t] = counts]
  BY DEF TakeEffect
<1> HIDE DEF counts
<1>4. effects' \in [Tickets -> [ActionKeys -> Nat]]
  BY <1>2, <1>3 DEF HistoryTypeOK
<1>5. \A b \in ActionKeys :
         counts[b] = IF b = a THEN effects[t][b] + 1 ELSE effects[t][b]
  BY <1>1 DEF counts
<1> QED BY <1>3, <1>4, <1>5 DEF HistoryTypeOK

LEMMA StepType == TypeOK /\ [Next]_toolVars => TypeOK'
<1> SUFFICES ASSUME TypeOK, [Next]_toolVars PROVE TypeOK'
  OBVIOUS
<1> USE DEF Results, NoResult
<1>1. ASSUME NEW w \in Workers, NEW c \in Calls, BeginCall(w, c) PROVE TypeOK'
  <2>1. CallTypeOK'
    BY <1>1, CallsAssumption, MaxAttemptsAssumption
    DEF TypeOK, CallTypeOK, BeginCall, Return
  <2> QED BY <1>1, <2>1, CallFrameType DEF BeginCall, TypeOK
<1>2. ASSUME NEW w \in Workers, AttemptFails(w) PROVE TypeOK'
  <2>1. CallTypeOK'
    BY <1>2 DEF TypeOK, CallTypeOK, AttemptFails, Return
  <2> QED BY <1>2, <2>1, CallFrameType DEF AttemptFails, TypeOK
<1>3. ASSUME NEW w \in Workers, Retry(w) PROVE TypeOK'
  <2>1. CallTypeOK'
    BY <1>3, MaxAttemptsAssumption DEF TypeOK, CallTypeOK, Retry
  <2> QED BY <1>3, <2>1, CallFrameType DEF Retry, TypeOK
<1>4. ASSUME NEW w \in Workers, Lookup(w) \/ CheckEligibility(w)
                                \/ AlreadyProcessed(w)
      PROVE  TypeOK'
  <2>1. /\ UNCHANGED <<call, attempt, storeVars, historyVars>>
        /\ \E r \in Results : Return(w, r)
    BY <1>4 DEF Lookup, CheckEligibility, AlreadyProcessed
  <2> QED BY <2>1, CallFrameType, ReturnType DEF TypeOK
<1>5. ASSUME NEW w \in Workers, ReserveRefund(w) PROVE TypeOK'
  <2>1. call[w] \in Call /\ call[w].tool = "issue_refund"
    BY <1>5, CallsAssumption DEF ReserveRefund, Running, TypeOK, CallTypeOK
  <2>2. StoreTypeOK'
    BY <1>5, <2>1
    DEF ReserveRefund, MarkPerformed, TypeOK, StoreTypeOK, Call, ActionKeys
  <2>3. CallTypeOK'
    BY <1>5, <2>1 DEF ReserveRefund, TypeOK, CallTypeOK, Running
  <2>4. HistoryTypeOK'
    BY <1>5 DEF ReserveRefund, TypeOK, HistoryTypeOK, historyVars
  <2> QED BY <2>2, <2>3, <2>4 DEF TypeOK
<1>6. ASSUME NEW w \in Workers, IssueRefund(w) PROVE TypeOK'
  <2>1. /\ call[w] \in Call /\ call[w].tool = "issue_refund" /\ Valid(call[w])
    BY <1>6, CallsAssumption DEF IssueRefund, TypeOK, CallTypeOK
  <2>2. /\ Strip[call[w].id] \in Orders
        /\ Capped(call[w]) \in Nat
    BY <1>6, <2>1, CappedType DEF IssueRefund
  <2>3. StoreTypeOK'
    BY <1>6, <2>1 DEF IssueRefund, MarkRefunded, TypeOK, StoreTypeOK, Call
  <2>4. CallTypeOK'
    BY <1>6, ReturnType DEF IssueRefund
  <2>5. HistoryTypeOK'
    <3>1. paid' \in [Orders -> Nat]
      BY <1>6, <2>2 DEF IssueRefund, TypeOK, HistoryTypeOK
    <3>2. effects' \in [Tickets -> [ActionKeys -> Nat]]
      BY <1>6, <2>1, TakeEffectType
      DEF IssueRefund, TypeOK, Call, ActionKeys
    <3> QED BY <3>1, <3>2 DEF HistoryTypeOK
  <2> QED BY <2>3, <2>4, <2>5 DEF TypeOK
<1>7. ASSUME NEW w \in Workers, RejectRefund(w) PROVE TypeOK'
  <2>1. StoreTypeOK'
    BY <1>7 DEF RejectRefund, Unperform, TypeOK, StoreTypeOK
  <2>2. CallTypeOK'
    BY <1>7, ReturnType DEF RejectRefund
  <2>3. HistoryTypeOK'
    BY <1>7 DEF RejectRefund, TypeOK, HistoryTypeOK, historyVars
  <2> QED BY <2>1, <2>2, <2>3 DEF TypeOK
<1>8. ASSUME NEW w \in Workers, NEW tool \in {"send_reply", "escalate"},
             NEW first \in Results, NEW again \in Results,
             OncePerTicket(w, tool, first, again)
      PROVE  TypeOK'
  <2>1. call[w] \in Call
    BY <1>8, CallsAssumption DEF OncePerTicket, Running, TypeOK, CallTypeOK
  <2>2. StoreTypeOK'
    BY <1>8, <2>1
    DEF OncePerTicket, MarkPerformed, TypeOK, StoreTypeOK, Call, ActionKeys
  <2>3. CallTypeOK'
    BY <1>8, ReturnType DEF OncePerTicket
  <2>4. HistoryTypeOK'
    BY <1>8, <2>1, TakeEffectType
    DEF OncePerTicket, TypeOK, HistoryTypeOK, Call, ActionKeys
  <2> QED BY <2>2, <2>3, <2>4 DEF TypeOK
<1>9. CASE WindowCloses
  BY <1>9
  DEF WindowCloses, DeadlinePasses, TypeOK, StoreTypeOK, CallTypeOK,
      HistoryTypeOK, callVars, historyVars
<1>10. CASE UNCHANGED toolVars
  BY <1>10
  DEF TypeOK, StoreTypeOK, CallTypeOK, HistoryTypeOK, toolVars, storeVars,
      callVars, historyVars
<1> QED
  BY <1>1, <1>2, <1>3, <1>4, <1>5, <1>6, <1>7, <1>8, <1>9, <1>10
  DEF Next, ToolStep, SendReply, Escalate

\* Every variable keeps its type, attempts stay within settings.max_tool_retries
\* + 1, and a call in flight has passed its tool's input checks.
THEOREM TypeCorrect == Spec => []TypeOK
  BY InitType, StepType, PTL DEF Spec
-----------------------------------------------------------------------------
(* The idempotency registry.                                               *)

RegistryInv == EffectsRegistered /\ ReservationsExclusive

LEMMA InitRegistry == Init => RegistryInv
  BY DEF Init, StoreInit, RegistryInv, EffectsRegistered,
         ReservationsExclusive, Holds

\* A step that neither touches the registry nor reserves a key preserves it.
LEMMA RegistryFrame ==
    ASSUME RegistryInv, UNCHANGED <<performed, effects>>,
           \A w \in Workers, t \in Tickets, k \in Keys :
               Holds(w, t, k)' => Holds(w, t, k)
    PROVE  RegistryInv'
<1>1. EffectsRegistered'
  BY DEF RegistryInv, EffectsRegistered
<1>2. ReservationsExclusive'
  <2> SUFFICES ASSUME NEW t \in Tickets, NEW k \in Keys, NEW w \in Workers,
                      Holds(w, t, k)'
               PROVE  /\ k \in performed[t]
                      /\ effects[t][k] = 0
                      /\ \A v \in Workers : Holds(v, t, k)' => v = w
    BY DEF ReservationsExclusive
  <2>1. Holds(w, t, k)
    OBVIOUS
  <2> QED BY <2>1 DEF RegistryInv, ReservationsExclusive
<1> QED BY <1>1, <1>2 DEF RegistryInv

\* Adding an effect together with its entry, for a key that had no entry or is
\* held by the call that takes effect.
LEMMA RegistryEffect ==
    ASSUME TypeOK, RegistryInv, NEW t \in Tickets, NEW a \in ActionKeys,
           TakeEffect(t, a), effects[t][a] = 0,
           performed' \in [Tickets -> SUBSET ActionKeys],
           \A u \in Tickets, b \in ActionKeys :
               b \in performed[u] \/ (u = t /\ b = a) => b \in performed'[u],
           \A w \in Workers, u \in Tickets, k \in Keys :
               Holds(w, u, k)' => Holds(w, u, k) /\ ~(u = t /\ k = a)
    PROVE  RegistryInv'
<1>1. \A u \in Tickets, b \in ActionKeys :
         /\ effects[u][b] \in Nat
         /\ effects'[u][b] = IF u = t /\ b = a THEN effects[u][b] + 1
                            ELSE effects[u][b]
  BY TakeEffectType DEF TypeOK, HistoryTypeOK
<1>2. EffectsRegistered'
  <2> SUFFICES ASSUME NEW u \in Tickets, NEW b \in ActionKeys
               PROVE  effects'[u][b] <= (IF b \in performed'[u] THEN 1 ELSE 0)
    BY DEF EffectsRegistered
  <2>1. effects[u][b] <= (IF b \in performed[u] THEN 1 ELSE 0)
    BY DEF RegistryInv, EffectsRegistered
  <2> QED BY <1>1, <2>1
<1>3. ReservationsExclusive'
  <2> SUFFICES ASSUME NEW u \in Tickets, NEW k \in Keys, NEW w \in Workers,
                      Holds(w, u, k)'
               PROVE  /\ k \in performed'[u]
                      /\ effects'[u][k] = 0
                      /\ \A v \in Workers : Holds(v, u, k)' => v = w
    BY DEF ReservationsExclusive
  <2>1. Holds(w, u, k) /\ ~(u = t /\ k = a) /\ k \in ActionKeys
    BY DEF ActionKeys
  <2> QED BY <1>1, <2>1 DEF RegistryInv, ReservationsExclusive
<1> QED BY <1>2, <1>3 DEF RegistryInv

LEMMA StepRegistry == TypeOK /\ RegistryInv /\ [Next]_toolVars => RegistryInv'
<1> SUFFICES ASSUME TypeOK, RegistryInv, [Next]_toolVars PROVE RegistryInv'
  OBVIOUS
<1>1. ASSUME NEW w \in Workers, NEW c \in Calls, BeginCall(w, c)
      PROVE  RegistryInv'
  BY <1>1, RegistryFrame
  DEF BeginCall, Return, TypeOK, CallTypeOK, Holds, storeVars, historyVars
<1>2. ASSUME NEW w \in Workers,
             AttemptFails(w) \/ Retry(w) \/ Lookup(w) \/ CheckEligibility(w)
             \/ AlreadyProcessed(w)
      PROVE  RegistryInv'
  <2>1. /\ UNCHANGED <<performed, effects, call>>
        /\ \E p \in {"idle", "latency", "backoff"} : pc' = [pc EXCEPT ![w] = p]
    BY <1>2
    DEF AttemptFails, Retry, Lookup, CheckEligibility, AlreadyProcessed, Return,
        storeVars, historyVars
  <2> QED BY <2>1, RegistryFrame DEF TypeOK, CallTypeOK, Holds
<1>3. ASSUME NEW w \in Workers, ReserveRefund(w) PROVE RegistryInv'
  <2> DEFINE t == call[w].ticket
             k == call[w].key
  <2>1. t \in Tickets /\ k \in Keys /\ k \in ActionKeys
    BY <1>3, CallsAssumption
    DEF ReserveRefund, Running, TypeOK, CallTypeOK, Call, ActionKeys
  <2>2. k \notin performed[t] /\ effects[t][k] = 0
    BY <1>3, <2>1
    DEF ReserveRefund, FirstToPerform, TypeOK, HistoryTypeOK, RegistryInv,
        EffectsRegistered
  <2>3. \A v \in Workers : ~Holds(v, t, k)
    BY <2>1, <2>2 DEF RegistryInv, ReservationsExclusive
  <2>4. /\ UNCHANGED <<effects, call>>
        /\ performed' = [performed EXCEPT ![t] = performed[t] \cup {k}]
    BY <1>3 DEF ReserveRefund, MarkPerformed, historyVars
  <2>5. \A v \in Workers, u \in Tickets, j \in Keys :
           Holds(v, u, j)' <=> Holds(v, u, j) \/ (v = w /\ u = t /\ j = k)
    BY <1>3, <2>3, <2>4
    DEF ReserveRefund, Running, Holds, TypeOK, CallTypeOK
  <2>6. \A u \in Tickets, b \in ActionKeys :
           b \in performed'[u] <=> b \in performed[u] \/ (u = t /\ b = k)
    BY <2>1, <2>4 DEF TypeOK, StoreTypeOK
  <2> HIDE DEF t, k
  <2>7. EffectsRegistered'
    <3> SUFFICES ASSUME NEW u \in Tickets, NEW b \in ActionKeys
                 PROVE  effects[u][b] <= (IF b \in performed'[u] THEN 1 ELSE 0)
      BY <2>4 DEF EffectsRegistered
    <3>1. effects[u][b] <= (IF b \in performed[u] THEN 1 ELSE 0)
      BY DEF RegistryInv, EffectsRegistered
    <3> QED BY <2>2, <2>6, <3>1 DEF TypeOK, HistoryTypeOK
  <2>8. ReservationsExclusive'
    BY <2>1, <2>2, <2>3, <2>4, <2>5, <2>6
    DEF RegistryInv, ReservationsExclusive, ActionKeys
  <2> QED BY <2>7, <2>8 DEF RegistryInv
<1>4. ASSUME NEW w \in Workers, IssueRefund(w) PROVE RegistryInv'
  <2> DEFINE t == call[w].ticket
             k == call[w].key
  <2>1. t \in Tickets /\ k \in Keys /\ k \in ActionKeys
    BY <1>4, CallsAssumption
    DEF IssueRefund, TypeOK, CallTypeOK, Call, ActionKeys
  <2>2. Holds(w, t, k)
    BY <1>4 DEF IssueRefund, Holds
  <2>3. /\ k \in performed[t] /\ effects[t][k] = 0
        /\ \A v \in Workers : Holds(v, t, k) => v = w
    BY <2>1, <2>2 DEF RegistryInv, ReservationsExclusive
  <2>4. /\ TakeEffect(t, k) /\ UNCHANGED <<performed, call>>
        /\ pc' = [pc EXCEPT ![w] = "idle"]
    BY <1>4 DEF IssueRefund, Return
  <2>5. \A v \in Workers, u \in Tickets, j \in Keys :
           Holds(v, u, j)' => Holds(v, u, j) /\ ~(u = t /\ j = k)
    BY <2>3, <2>4 DEF Holds, TypeOK, CallTypeOK
  <2> HIDE DEF t, k
  <2> QED
    BY <2>1, <2>3, <2>4, <2>5, RegistryEffect DEF TypeOK, StoreTypeOK
<1>5. ASSUME NEW w \in Workers, RejectRefund(w) PROVE RegistryInv'
  <2> DEFINE t == call[w].ticket
             k == call[w].key
  <2>1. t \in Tickets /\ k \in Keys /\ k \in ActionKeys
    BY <1>5, CallsAssumption
    DEF RejectRefund, TypeOK, CallTypeOK, Call, ActionKeys
  <2>2. Holds(w, t, k)
    BY <1>5 DEF RejectRefund, Holds
  <2>3. /\ effects[t][k] = 0
        /\ \A v \in Workers : Holds(v, t, k) => v = w
    BY <2>1, <2>2 DEF RegistryInv, ReservationsExclusive
  <2>4. /\ UNCHANGED <<effects, call>>
        /\ pc' = [pc EXCEPT ![w] = "idle"]
        /\ performed' = [performed EXCEPT ![t] = performed[t] \ {k}]
    BY <1>5 DEF RejectRefund, Return, Unperform, historyVars
  <2>5. \A v \in Workers, u \in Tickets, j \in Keys :
           Holds(v, u, j)' => Holds(v, u, j) /\ ~(u = t /\ j = k)
    BY <2>3, <2>4 DEF Holds, TypeOK, CallTypeOK
  <2>6. \A u \in Tickets, b \in ActionKeys :
           b \in performed'[u] <=> b \in performed[u] /\ ~(u = t /\ b = k)
    BY <2>1, <2>4 DEF TypeOK, StoreTypeOK
  <2> HIDE DEF t, k
  <2>7. EffectsRegistered'
    <3> SUFFICES ASSUME NEW u \in Tickets, NEW b \in ActionKeys
                 PROVE  effects[u][b] <= (IF b \in performed'[u] THEN 1 ELSE 0)
      BY <2>4 DEF EffectsRegistered
    <3>1. effects[u][b] <= (IF b \in performed[u] THEN 1 ELSE 0)
      BY DEF RegistryInv, EffectsRegistered
    <3> QED BY <2>3, <2>6, <3>1
  <2>8. ReservationsExclusive'
    BY <2>4, <2>5, <2>6 DEF RegistryInv, ReservationsExclusive, ActionKeys
  <2> QED BY <2>7, <2>8 DEF RegistryInv
<1>6. ASSUME NEW w \in Workers, NEW tool \in {"send_reply", "escalate"},
             NEW first \in Results, NEW again \in Results,
             OncePerTicket(w, tool, first, again)
      PROVE  RegistryInv'
  <2> DEFINE t == call[w].ticket
  <2>1. t \in Tickets /\ tool \in ActionKeys /\ tool \notin Keys
    BY <1>6, CallsAssumption, KeysAssumption
    DEF OncePerTicket, Running, TypeOK, CallTypeOK, Call, ActionKeys
  <2>2. UNCHANGED call /\ pc' = [pc EXCEPT ![w] = "idle"]
    BY <1>6 DEF OncePerTicket, Return
  <2>3. \A v \in Workers, u \in Tickets, j \in Keys :
           Holds(v, u, j)' => Holds(v, u, j)
    BY <2>2 DEF Holds, TypeOK, CallTypeOK
  <2>4. CASE FirstToPerform(t, tool)
    <3>1. effects[t][tool] = 0
      BY <2>1, <2>4
      DEF FirstToPerform, TypeOK, HistoryTypeOK, RegistryInv, EffectsRegistered
    <3>2. /\ TakeEffect(t, tool)
          /\ performed' = [performed EXCEPT ![t] = performed[t] \cup {tool}]
      BY <1>6, <2>4 DEF OncePerTicket, MarkPerformed
    <3>3. /\ performed' \in [Tickets -> SUBSET ActionKeys]
          /\ \A u \in Tickets, b \in ActionKeys :
                b \in performed[u] \/ (u = t /\ b = tool) => b \in performed'[u]
      BY <2>1, <3>2 DEF TypeOK, StoreTypeOK
    <3> HIDE DEF t
    <3> QED BY <2>1, <2>3, <3>1, <3>2, <3>3, RegistryEffect
  <2>5. CASE ~FirstToPerform(t, tool)
    BY <1>6, <2>3, <2>5, RegistryFrame DEF OncePerTicket
  <2> QED BY <2>4, <2>5
<1>7. CASE WindowCloses
  BY <1>7, RegistryFrame
  DEF WindowCloses, DeadlinePasses, callVars, historyVars, Holds
<1>8. CASE UNCHANGED toolVars
  BY <1>8, RegistryFrame
  DEF toolVars, storeVars, callVars, historyVars, Holds
<1> QED
  BY <1>1, <1>2, <1>3, <1>4, <1>5, <1>6, <1>7, <1>8
  DEF Next, ToolStep, SendReply, Escalate, Results, NoResult

\* A refund key, a reply and an escalation take effect at most once for their
\* ticket, whatever spelling of the order id, retry or race is in play.
THEOREM ActsOnce == Spec => []EffectsRegistered
  BY InitType, StepType, InitRegistry, StepRegistry, PTL DEF Spec, RegistryInv

\* A reserved key belongs to one call and has not taken effect yet, so a rejected
\* refund gives back only what it took.
THEOREM KeysExclusive == Spec => []ReservationsExclusive
  BY InitType, StepType, InitRegistry, StepRegistry, PTL DEF Spec, RegistryInv
-----------------------------------------------------------------------------
(* The ledger.                                                             *)

LedgerInv == PaidWithinPrice /\ MarkedIffPaid

LEMMA InitLedger == Init => LedgerInv
  BY OrdersAssumption
  DEF Init, StoreInit, LedgerInv, PaidWithinPrice, MarkedIffPaid, RefundedAs

\* Only IssueRefund moves money or marks an order.
LEMMA LedgerFrame ==
    ASSUME [Next]_toolVars, \A w \in Workers : ~IssueRefund(w)
    PROVE  UNCHANGED <<overrides, paid>>
  BY DEF Next, ToolStep, BeginCall, AttemptFails, Retry, Lookup,
         CheckEligibility, ReserveRefund, AlreadyProcessed, RejectRefund,
         SendReply, Escalate, OncePerTicket, WindowCloses, DeadlinePasses,
         toolVars, storeVars, historyVars

\* A payment goes to an unpaid order in its window and marks that very order.
LEMMA PaymentStep ==
    ASSUME CanonicalIds, TypeOK, LedgerInv,
           NEW w \in Workers, IssueRefund(w)
    PROVE  \E o \in Refundable \cap windowOpen : \E a \in 1 .. OrderAmount[o] :
               /\ paid[o] = 0
               /\ a <= call[w].amount
               /\ paid' = [paid EXCEPT ![o] = a]
               /\ overrides' = overrides \cup {o}
               /\ UNCHANGED windowOpen
<1> DEFINE refund == call[w]
           order == Strip[refund.id]
<1>1. /\ refund \in Call /\ Valid(refund)
      /\ refund.tool = "issue_refund" /\ refund.id = order
  BY CallsAssumption DEF IssueRefund, TypeOK, CallTypeOK, CanonicalIds
<1>2. /\ order \in Orders
      /\ Capped(refund) \in 1 .. OrderAmount[order]
      /\ Capped(refund) <= refund.amount
  <2>1. /\ order \in Orders
        /\ Capped(refund) \in Nat \ {0}
        /\ Capped(refund) <= OrderAmount[order]
        /\ Capped(refund) <= refund.amount
    BY <1>1, CappedType DEF IssueRefund
  <2> QED BY <2>1, OrdersAssumption
<1>3. order \in Refundable \cap windowOpen /\ order \notin overrides
  BY DEF IssueRefund, Eligible, RefundedAs
<1>4. paid[order] = 0
  BY <1>2, <1>3
  DEF LedgerInv, MarkedIffPaid, RefundedAs, TypeOK, HistoryTypeOK
<1>5. paid' = [paid EXCEPT ![order] = Capped(refund)]
  <2>1. paid' = [paid EXCEPT ![order] = paid[order] + Capped(refund)]
    BY DEF IssueRefund
  <2>2. paid[order] + Capped(refund) = Capped(refund)
    BY <1>2, <1>4, OrdersAssumption
  <2> QED BY <2>1, <2>2
<1>6. overrides' = overrides \cup {order} /\ UNCHANGED windowOpen
  BY <1>1 DEF IssueRefund, MarkRefunded
<1>7. Capped(refund) <= call[w].amount
  BY <1>2
<1> HIDE DEF refund, order
<1> QED BY <1>7, <1>2, <1>3, <1>4, <1>5, <1>6

LEMMA StepLedger ==
    CanonicalIds /\ TypeOK /\ LedgerInv /\ [Next]_toolVars => LedgerInv'
<1> SUFFICES ASSUME CanonicalIds, TypeOK, LedgerInv, [Next]_toolVars
             PROVE  LedgerInv'
  OBVIOUS
<1>1. CASE \E w \in Workers : IssueRefund(w)
  <2>1. PICK o \in Refundable \cap windowOpen :
             \E a \in 1 .. OrderAmount[o] :
                 /\ paid' = [paid EXCEPT ![o] = a]
                 /\ overrides' = overrides \cup {o}
    BY <1>1, PaymentStep
  <2>2. PICK a \in 1 .. OrderAmount[o] :
           /\ paid' = [paid EXCEPT ![o] = a]
           /\ overrides' = overrides \cup {o}
    BY <2>1
  <2> QED
    BY <2>2, OrdersAssumption
    DEF LedgerInv, PaidWithinPrice, MarkedIffPaid, RefundedAs, TypeOK,
        HistoryTypeOK
<1>2. CASE \A w \in Workers : ~IssueRefund(w)
  BY <1>2, LedgerFrame
  DEF LedgerInv, PaidWithinPrice, MarkedIffPaid, RefundedAs
<1> QED BY <1>1, <1>2

LEMMA LedgerHolds == CanonicalIds => (Spec => [](TypeOK /\ LedgerInv))
<1> SUFFICES ASSUME CanonicalIds PROVE Spec => [](TypeOK /\ LedgerInv)
  OBVIOUS
<1>1. TypeOK /\ LedgerInv /\ [Next]_toolVars => (TypeOK /\ LedgerInv)'
  BY StepType, StepLedger
<1> QED BY InitType, InitLedger, <1>1, PTL DEF Spec

\* If refund calls spell order ids as the store does, no order is ever paid back
\* more than its price: no mix of retries, keys, tickets and sessions does it.
THEOREM NeverOverpaid == CanonicalIds => (Spec => []PaidWithinPrice)
  BY LedgerHolds, PTL DEF LedgerInv

\* Under the same condition the store marks exactly the orders that got money.
THEOREM MarksArePayments == CanonicalIds => (Spec => []MarkedIffPaid)
  BY LedgerHolds, PTL DEF LedgerInv

\* Under the same condition the tools implement RefundLedger: the initial states
\* are the ledger's, IssueRefund is its Refund, a passing deadline its
\* CloseWindow, and every other step leaves the ledger alone.
THEOREM ImplementsLedger == CanonicalIds => (Spec => LedgerSpec)
<1> SUFFICES ASSUME CanonicalIds PROVE Spec => LedgerSpec
  OBVIOUS
<1>1. Init => Ledger!Init
  BY DEF Init, StoreInit, Ledger!Init
<1>2. TypeOK /\ LedgerInv /\ [Next]_toolVars => [Ledger!Next]_(Ledger!vars)
  <2> SUFFICES ASSUME TypeOK, LedgerInv, [Next]_toolVars
               PROVE  [Ledger!Next]_(Ledger!vars)
    OBVIOUS
  <2>1. CASE \E w \in Workers : IssueRefund(w)
    BY <2>1, PaymentStep, OrdersAssumption
    DEF Ledger!Next, Ledger!Refund
  <2>2. CASE WindowCloses
    BY <2>2
    DEF WindowCloses, DeadlinePasses, historyVars, Ledger!Next,
        Ledger!CloseWindow
  <2>3. CASE ~WindowCloses /\ \A w \in Workers : ~IssueRefund(w)
    <3>1. UNCHANGED paid
      BY <2>3, LedgerFrame
    <3>2. UNCHANGED windowOpen
      BY <2>3
      DEF Next, ToolStep, BeginCall, AttemptFails, Retry, Lookup,
          CheckEligibility, ReserveRefund, AlreadyProcessed, RejectRefund,
          SendReply, Escalate, OncePerTicket, toolVars, storeVars
    <3> QED BY <3>1, <3>2 DEF Ledger!vars
  <2> QED BY <2>1, <2>2, <2>3
<1> QED BY LedgerHolds, <1>1, <1>2, PTL DEF Spec, LedgerSpec, Ledger!Spec
=============================================================================
