----------------------------- MODULE TicketLife -----------------------------
(***************************************************************************)
(* What a worker promises of one ticket, whatever its pipeline does and    *)
(* however other tickets interleave: it is taken up once, tried at most    *)
(* MaxTries times with a pause in between, and ends once and for good,     *)
(* with a dead letter if it failed.  WorkerPool and TicketSession, which   *)
(* see the same worker from outside and from inside, both implement it.    *)
(***************************************************************************)
EXTENDS Integers

CONSTANT MaxTries

VARIABLES
    state,    \* where the ticket is
    tries,    \* tries of the pipeline begun for it
    letter    \* it is in the dead letter file

vars == <<state, tries, letter>>

\* A session begins with the slot in hand.
Init ==
    /\ \/ state = "waiting" /\ tries = 0
       \/ state = "trying" /\ tries = 1
    /\ letter = FALSE

Try(from) ==
    /\ state = from
    /\ tries < MaxTries
    /\ state' = "trying"
    /\ tries' = tries + 1
    /\ UNCHANGED letter

\* A try has ended, and this is what comes of it.
Ends(how, written) ==
    /\ state = "trying"
    /\ state' = how
    /\ letter' = written
    /\ UNCHANGED tries

\* A pause leads to another try, so none follows the last one.
Pauses == tries < MaxTries /\ Ends("pausing", FALSE)

Next ==
    \/ Try("waiting") \/ Try("pausing")
    \/ Pauses
    \/ Ends("returned", FALSE) \/ Ends("failed", TRUE)
    \/ \E written \in BOOLEAN : Ends("raised", written)

Spec == Init /\ [][Next]_vars
=============================================================================
