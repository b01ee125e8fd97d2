---------------------------- MODULE RefundLedger ----------------------------
(***************************************************************************)
(* What the refund path promises, without sessions, retries or keys: an    *)
(* order is paid back at most once, at most its price, and only while its  *)
(* return window is open.  ToolLayer is shown to implement it when the     *)
(* order ids reach issue_refund in their stored spelling.                  *)
(***************************************************************************)
EXTENDS Integers

CONSTANTS Orders, OrderAmount, Refundable

VARIABLES
    paid,         \* money returned for each order, in cents
    windowOpen    \* orders whose return window has not closed

vars == <<paid, windowOpen>>

Init ==
    /\ paid = [o \in Orders |-> 0]
    /\ windowOpen \in SUBSET Orders

Refund(o) ==
    /\ o \in Refundable \cap windowOpen
    /\ paid[o] = 0
    /\ \E a \in 1 .. OrderAmount[o] : paid' = [paid EXCEPT ![o] = a]
    /\ UNCHANGED windowOpen

CloseWindow(o) ==
    /\ o \in windowOpen
    /\ windowOpen' = windowOpen \ {o}
    /\ UNCHANGED paid

Next == \E o \in Orders : Refund(o) \/ CloseWindow(o)

Spec == Init /\ [][Next]_vars
=============================================================================
