---------------------------- MODULE MCToolLayer ----------------------------
(* Small values for the constants of ToolLayer.                            *)
EXTENDS ToolLayer

\* Two orders of the fixture.
MCOrders == {"O1", "O2"}
MCIds == MCOrders

\* One order, also in a spelling that strip() changes, and an id of no order.
MCOneOrder == {"O1"}
MCPaddedIds == {"O1", "O1 ", "O9"}

MCStrip == [i \in MCIds |-> i]
MCPaddedStrip == [i \in MCPaddedIds |-> IF i = "O1 " THEN "O1" ELSE i]
MCOrderAmount == [o \in Orders |-> 3]

\* Amounts below and above the price, and one the input check refuses.
RefundCalls(amounts) ==
    [tool: {"issue_refund"}, id: Ids, amount: amounts, ticket: Tickets,
     key: Keys, wellFormed: {TRUE}]

AnyOf(S) == CHOOSE x \in S : TRUE
MessageCalls ==
    [tool: {"send_reply", "escalate"}, id: {AnyOf(Ids)}, amount: {0},
     ticket: Tickets, key: {AnyOf(Keys)}, wellFormed: {TRUE}]

ReadCalls ==
    [tool: {"get_order", "check_refund_eligibility"}, id: {AnyOf(Ids)}, amount: {0},
     ticket: Tickets, key: {AnyOf(Keys)}, wellFormed: {TRUE}]

MCMoneyCalls == RefundCalls({1, 4})

\* The second key is only used to refund the first order in full, the second
\* order is only refunded in full and with the first key.
MCLedgerCalls ==
    {c \in MCMoneyCalls :
        /\ c.key # AnyOf(Keys) => c.id = "O1" /\ c.amount = 4
        /\ c.id = "O2" => c.amount = 4}
    \cup MessageCalls \cup ReadCalls
=============================================================================
