----------------------------- MODULE EventFeed ------------------------------
(***************************************************************************)
(* What the live feed promises each page, without queues, connections,     *)
(* generators or retries: of the events pushed while it is there to come   *)
(* to, it gets some, each once, and none that is older than one it has     *)
(* had; what it has missed does not come back.  How many pages get an      *)
(* event is left open: push_event is documented as a broadcast, while the  *)
(* code gives an event to one page.  Both implement this promise;          *)
(* EventStream is shown to.                                                *)
(***************************************************************************)
EXTENDS Integers

CONSTANTS Clients, MaxEvents

VARIABLES
    pushed,     \* events pushed so far, numbered in their order
    coming,     \* the events that may still come to each page
    received    \* the events each page has had

vars == <<pushed, coming, received>>

Init ==
    /\ pushed = 0
    /\ coming = [c \in Clients |-> {}]
    /\ received = [c \in Clients |-> {}]

Push ==
    /\ pushed < MaxEvents
    /\ pushed' = pushed + 1
    /\ coming' = [c \in Clients |-> coming[c] \cup {pushed + 1}]
    /\ UNCHANGED received

Deliver(c, e) ==
    /\ e \in coming[c]
    /\ \A x \in received[c] : x < e
    /\ coming' = [coming EXCEPT ![c] = @ \ {e}]
    /\ received' = [received EXCEPT ![c] = @ \cup {e}]
    /\ UNCHANGED pushed

\* Events go to another page, or with a connection, or with the server.
Miss ==
    /\ coming' \in [Clients -> SUBSET (1 .. pushed)]
    /\ \A c \in Clients : coming'[c] \subseteq coming[c]
    /\ UNCHANGED <<pushed, received>>

Next ==
    \/ Push
    \/ \E c \in Clients : \E e \in coming[c] : Deliver(c, e)
    \/ Miss

Spec == Init /\ [][Next]_vars
=============================================================================
