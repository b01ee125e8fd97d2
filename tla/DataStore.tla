------------------------------ MODULE DataStore ------------------------------
(***************************************************************************)
(* The in-memory store of backend/tools/datastore.py: the fixture orders,  *)
(* the runtime overrides laid over them, and the registry of actions       *)
(* already performed for a ticket.                                         *)
(*                                                                         *)
(* Every method below runs without suspending (mark_refunded takes an      *)
(* asyncio lock, but its body never awaits, so the lock is always free),   *)
(* so each is one atomic operator here, used by the actions of ToolLayer.  *)
(***************************************************************************)
EXTENDS Integers

CONSTANTS
    Orders,       \* the order ids of the fixture
    Ids,          \* the spellings of an order id an LLM may pass to a tool
    Strip,        \* what str.strip() makes of a spelling
    OrderAmount,  \* the price of each order, in cents
    Refundable,   \* orders delivered, returnable, not refunded
    Tickets,      \* ticket ids
    Keys          \* idempotency keys an LLM may choose for a refund

ASSUME IdsAssumption ==
    /\ Orders \subseteq Ids
    /\ Strip \in [Ids -> Ids]
    /\ \A i \in Ids : Strip[Strip[i]] = Strip[i]
    /\ \A o \in Orders : Strip[o] = o

ASSUME OrdersAssumption ==
    /\ OrderAmount \in [Orders -> Nat \ {0}]
    /\ Refundable \subseteq Orders

ASSUME KeysAssumption == Keys \cap {"send_reply", "escalate"} = {}

\* Keys stands for the action keys "refund:<key>"; the other two are literals.
ActionKeys == Keys \cup {"send_reply", "escalate"}

VARIABLES
    overrides,    \* the ids _order_overrides holds a refund for, as spelled
    performed,    \* _performed_actions, one set per ticket
    windowOpen    \* orders with no return_deadline, or date.today() not past it

storeVars == <<overrides, performed, windowOpen>>

StoreTypeOK ==
    /\ overrides \subseteq Ids
    /\ performed \in [Tickets -> SUBSET ActionKeys]
    /\ windowOpen \subseteq Orders

StoreInit ==
    /\ overrides = {}
    /\ performed = [t \in Tickets |-> {}]
    /\ windowOpen \in SUBSET Orders

\* get_effective_order: overrides are looked up by the id the caller passes.
RefundedAs(i) == i \in overrides

\* Mutant of Eligible: the deadline gate is forgotten.
EligibleLate(i) == Strip[i] \in Refundable /\ ~RefundedAs(Strip[i])

\* check_refund_eligibility strips the id, then applies its gates in order.
Eligible(i) ==
    LET o == Strip[i] IN
    /\ o \in Refundable
    /\ ~RefundedAs(o)
    /\ o \in windowOpen

\* mark_performed returns True for the caller that adds the key.
FirstToPerform(t, a) == a \notin performed[t]

MarkPerformed(t, a) ==
    performed' = [performed EXCEPT ![t] = @ \cup {a}]

\* issue_refund gives its key back when the order turns out not eligible.
Unperform(t, a) ==
    performed' = [performed EXCEPT ![t] = @ \ {a}]

\* mark_refunded writes under the id exactly as the caller spelled it.
MarkRefunded(i) == overrides' = overrides \cup {i}

\* The calendar: date.today() passes the return_deadline of an order.
DeadlinePasses(o) ==
    /\ o \in windowOpen
    /\ windowOpen' = windowOpen \ {o}
    /\ UNCHANGED <<overrides, performed>>
=============================================================================
