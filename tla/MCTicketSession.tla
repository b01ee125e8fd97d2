-------------------------- MODULE MCTicketSession --------------------------
(* Small values for the constants of TicketSession.                        *)
EXTENDS TicketSession, TLC

MCOrders == {"O1"}
MCIds == {"O1"}
MCStrip == [i \in MCIds |-> i]
MCOrderAmount == [o \in MCOrders |-> 3]
MCRefundable == {"O1"}

AnyOf(S) == CHOOSE x \in S : TRUE
CallOf(tool, amount, key, ok) ==
    [tool |-> tool, id |-> "O1", amount |-> amount, ticket |-> AnyOf(Tickets),
     key |-> key, wellFormed |-> ok]
K == AnyOf(Keys)

Check == CallOf("check_refund_eligibility", 0, K, TRUE)
Reply == CallOf("send_reply", 0, K, TRUE)
Handover == CallOf("escalate", 0, K, TRUE)

\* The threshold of the configurations is 2 and the price 3.
SmallRefund(k) == CallOf("issue_refund", 2, k, TRUE)
LargeRefund(k) == CallOf("issue_refund", 3, k, TRUE)

\* A session that can do everything once, and go wrong in every way.
MCAllCalls ==
    {Check, Reply, Handover, CallOf("escalate", 0, K, FALSE),
     CallOf("issue_refund", 2, K, FALSE)} \cup {SmallRefund(k) : k \in Keys}
MCUnknownCalls == {CallOf("cancel_order", 0, K, TRUE)}

\* The money path alone, for sessions that run side by side.
MCMoneyCalls ==
    {Check} \cup UNION {{SmallRefund(k), LargeRefund(k)} : k \in Keys}
MCNoCalls == {}
============================================================================
