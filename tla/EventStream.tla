---------------------------- MODULE EventStream ----------------------------
(***************************************************************************)
(* The live feed, from push_event of backend/api/streams.py to the list a  *)
(* page shows (frontend sse.js, useLiveStream.js, useSentinelStore.js).    *)
(* All connections take from one queue.  Events are numbered in the order  *)
(* in which the worker pool pushes them; heartbeats, which change nothing, *)
(* are left out.                                                           *)
(***************************************************************************)
EXTENDS Integers, SequencesExt

CONSTANTS
    Clients,     \* browser pages
    MaxEvents,   \* bound: events pushed
    MaxGhosts,   \* bound: generators whose client is gone unnoticed
    MaxRetries,  \* MAX_RETRIES of sse.js
    MaxShown,    \* MAX_EVENTS of useSentinelStore.js
    MaxRestarts  \* bound: how often the server is killed and started again

ASSUME StreamAssumption ==
    /\ MaxEvents \in Nat
    /\ MaxGhosts \in Nat
    /\ MaxRetries \in Nat
    /\ MaxShown \in Nat \ {0}
    /\ MaxRestarts \in Nat

VARIABLES
    pushed,   \* events pushed so far
    queue,    \* _event_queue
    serving,  \* clients whose connection has a generator on the server
    ghosts,   \* generators the server has not yet cancelled
    cut,      \* clients whose server was killed and who have not noticed
    wire,     \* events yielded to a client and not yet received
    source,   \* its EventSource: none, connecting or open
    timer,    \* clients whose retryTimer is set
    mounted,  \* clients whose page is shown: "closed" is FALSE
    retries,  \* retries of the subscription
    status,   \* streamStatus of the page's store
    shown,    \* events of the page's store, newest first
    seen,     \* history: what a page has received
    lost,     \* history: left the queue, received by no page
    restarts

server == <<pushed, queue, ghosts, restarts>>
page == <<source, timer, mounted, retries, status>>
list == <<shown, seen>>
vars == <<server, serving, cut, wire, page, list, lost>>

Events == 1 .. MaxEvents

TypeOK ==
    /\ pushed \in 0 .. MaxEvents
    /\ queue \in Seq(Events)
    /\ serving \subseteq Clients
    /\ ghosts \in 0 .. MaxGhosts
    /\ cut \subseteq Clients
    /\ wire \in [Clients -> Seq(Events)]
    /\ source \in [Clients -> {"none", "connecting", "open"}]
    /\ timer \subseteq Clients
    /\ mounted \subseteq Clients
    /\ retries \in [Clients -> 0 .. MaxRetries]
    /\ status \in [Clients ->
                     {"idle", "connecting", "open", "error", "failed"}]
    /\ shown \in [Clients -> Seq(Events)]
    /\ \A c \in Clients : Len(shown[c]) <= MaxShown
    /\ seen \in [Clients -> SUBSET Events]
    /\ lost \subseteq Events
    /\ restarts \in 0 .. MaxRestarts

Init ==
    /\ pushed = 0
    /\ queue = <<>>
    /\ serving = {}
    /\ ghosts = 0
    /\ cut = {}
    /\ wire = [c \in Clients |-> <<>>]
    /\ source = [c \in Clients |-> "none"]
    /\ timer = {}
    /\ mounted = {}
    /\ retries = [c \in Clients |-> 0]
    /\ status = [c \in Clients |-> "idle"]
    /\ shown = [c \in Clients |-> <<>>]
    /\ seen = [c \in Clients |-> {}]
    /\ lost = {}
    /\ restarts = 0
-----------------------------------------------------------------------------
(* The server.                                                             *)

\* push_event: the queue has no limit, so nothing is dropped here.
Push ==
    /\ pushed < MaxEvents
    /\ pushed' = pushed + 1
    /\ queue' = Append(queue, pushed + 1)
    /\ UNCHANGED <<serving, ghosts, restarts, cut, wire, page, list, lost>>

\* GET /stream: a generator of its own, on the queue of all.
Serve(c) ==
    /\ source[c] = "connecting"
    /\ c \notin serving \cup cut
    /\ serving' = serving \cup {c}
    /\ UNCHANGED <<server, cut, wire, page, list, lost>>

\* Mutant of Yield: the connection looks at the event and leaves it there.
YieldCopy(c) ==
    /\ c \in serving
    /\ queue # <<>>
    /\ wire[c] = <<>> /\ Head(queue) \notin seen[c]
    /\ wire' = [wire EXCEPT ![c] = <<Head(queue)>>]
    /\ UNCHANGED <<server, serving, cut, page, list, lost>>

\* Mutant of Yield: an event taken when the wait for it times out vanishes.
YieldOrDrop(c) ==
    /\ c \in serving
    /\ queue # <<>>
    /\ wire' \in {wire, [wire EXCEPT ![c] = Append(@, Head(queue))]}
    /\ queue' = Tail(queue)
    /\ UNCHANGED <<pushed, serving, ghosts, restarts, cut, page, list, lost>>

\* The generator gets the oldest event and yields it to its own client only.
Yield(c) ==
    /\ c \in serving
    /\ queue # <<>>
    /\ wire' = [wire EXCEPT ![c] = Append(@, Head(queue))]
    /\ queue' = Tail(queue)
    /\ UNCHANGED <<pushed, serving, ghosts, restarts, cut, page, list, lost>>

\* So does one whose client is gone, until it is cancelled.
YieldToNobody ==
    /\ ghosts > 0
    /\ queue # <<>>
    /\ lost' = lost \cup {Head(queue)}
    /\ queue' = Tail(queue)
    /\ UNCHANGED <<pushed, serving, ghosts, restarts, cut, wire, page, list>>

Cancelled ==
    /\ ghosts > 0
    /\ ghosts' = ghosts - 1
    /\ UNCHANGED <<pushed, queue, serving, restarts, cut, wire, page, list, lost>>

\* The server is killed and started again: its queue is empty, its generators
\* are gone, and pages that were connected are about to notice.  What is on the
\* wire may still arrive before.
Restart ==
    /\ restarts < MaxRestarts
    /\ restarts' = restarts + 1
    /\ lost' = lost \cup {queue[i] : i \in DOMAIN queue}
    /\ queue' = <<>>
    /\ serving' = {} /\ ghosts' = 0
    /\ cut' = cut \cup serving
    /\ UNCHANGED <<pushed, wire, page, list>>
-----------------------------------------------------------------------------
(* A page.                                                                 *)

\* The connection of c ends.  What is on the wire is lost, and the generator,
\* if there is one, is cancelled now or stays a while.
Disconnect(c) ==
    /\ wire' = [wire EXCEPT ![c] = <<>>]
    /\ lost' = lost \cup {wire[c][i] : i \in DOMAIN wire[c]}
    /\ serving' = serving \ {c} /\ cut' = cut \ {c}
    /\ ghosts' \in {ghosts} \cup
         (IF c \in serving /\ ghosts < MaxGhosts THEN {ghosts + 1} ELSE {})

\* The effect of useLiveStream: subscribeToStream, which connects at once.
Mount(c) ==
    /\ c \notin mounted
    /\ mounted' = mounted \cup {c}
    /\ retries' = [retries EXCEPT ![c] = 0]
    /\ source' = [source EXCEPT ![c] = "connecting"]
    /\ status' = [status EXCEPT ![c] = "connecting"]
    /\ UNCHANGED <<server, serving, cut, wire, timer, list, lost>>

\* onopen
Opens(c) ==
    /\ source[c] = "connecting"
    /\ c \in serving \cup cut
    /\ source' = [source EXCEPT ![c] = "open"]
    /\ retries' = [retries EXCEPT ![c] = 0]
    /\ status' = [status EXCEPT ![c] = "open"]
    /\ UNCHANGED <<server, serving, cut, wire, timer, mounted, list, lost>>

\* A list cut to its first MaxShown events: "next.length = MAX_EVENTS".
Kept(s) == IF Len(s) > MaxShown THEN SubSeq(s, 1, MaxShown) ELSE s

\* Mutant of Receive: the event that was handled may be delivered again.
ReceiveTwice(c) ==
    /\ source[c] = "open"
    /\ wire[c] # <<>>
    /\ wire' \in {wire, [wire EXCEPT ![c] = Tail(@)]}
    /\ shown' = [shown EXCEPT ![c] = Kept(<<Head(wire[c])>> \o @)]
    /\ seen' = [seen EXCEPT ![c] = @ \cup {Head(wire[c])}]
    /\ UNCHANGED <<server, serving, cut, page, lost>>

\* onmessage, onEvent, pushEvent: the new event goes to the front.
Receive(c) ==
    /\ source[c] = "open"
    /\ wire[c] # <<>>
    /\ wire' = [wire EXCEPT ![c] = Tail(@)]
    /\ shown' = [shown EXCEPT ![c] = Kept(<<Head(wire[c])>> \o @)]
    /\ seen' = [seen EXCEPT ![c] = @ \cup {Head(wire[c])}]
    /\ UNCHANGED <<server, serving, cut, page, lost>>

\* Mutant of Retry: one reconnect too many.
RetryOnceMore(c) ==
    IF retries[c] > MaxRetries
    THEN /\ status' = [status EXCEPT ![c] = "failed"]
         /\ UNCHANGED <<timer, retries>>
    ELSE /\ status' = [status EXCEPT ![c] = "error"]
         /\ retries' = [retries EXCEPT ![c] = @ + 1]
         /\ timer' = timer \cup {c}

\* Mutant of Retry: reconnects are not counted.
RetryUncounted(c) ==
    /\ status' = [status EXCEPT ![c] = "error"]
    /\ timer' = timer \cup {c}
    /\ UNCHANGED retries

\* A reconnect after a pause, at most MaxRetries of them in a row.
Retry(c) ==
    IF retries[c] >= MaxRetries
    THEN /\ status' = [status EXCEPT ![c] = "failed"]
         /\ UNCHANGED <<timer, retries>>
    ELSE /\ status' = [status EXCEPT ![c] = "error"]
         /\ retries' = [retries EXCEPT ![c] = @ + 1]
         /\ timer' = timer \cup {c}

\* onerror: the source is closed, so the browser does not reconnect by itself.
Breaks(c) ==
    /\ source[c] # "none"
    /\ Disconnect(c)
    /\ source' = [source EXCEPT ![c] = "none"]
    /\ Retry(c)
    /\ UNCHANGED <<pushed, queue, restarts, mounted, list>>

\* The timer fires: connect.
Reconnect(c) ==
    /\ c \in timer
    /\ timer' = timer \ {c}
    /\ source' = [source EXCEPT ![c] = "connecting"]
    /\ status' = [status EXCEPT ![c] = "connecting"]
    /\ UNCHANGED <<server, serving, cut, wire, mounted, retries, list, lost>>

\* Mutant of Unmount: the timer runs on.
UnmountKeepsTimer(c) ==
    /\ c \in mounted
    /\ Disconnect(c)
    /\ mounted' = mounted \ {c}
    /\ source' = [source EXCEPT ![c] = "none"]
    /\ status' = [status EXCEPT ![c] = "idle"]
    /\ UNCHANGED <<pushed, queue, restarts, timer, retries, list>>

\* The cleanup of the effect: close the source, clear the timer, "idle".
Unmount(c) ==
    /\ c \in mounted
    /\ Disconnect(c)
    /\ mounted' = mounted \ {c}
    /\ source' = [source EXCEPT ![c] = "none"]
    /\ timer' = timer \ {c}
    /\ status' = [status EXCEPT ![c] = "idle"]
    /\ UNCHANGED <<pushed, queue, restarts, retries, list>>

\* The Clear button of the feed, which an empty list disables.
Clear(c) ==
    /\ c \in mounted
    /\ shown[c] # <<>>
    /\ shown' = [shown EXCEPT ![c] = <<>>]
    /\ UNCHANGED <<server, serving, cut, wire, page, seen, lost>>
-----------------------------------------------------------------------------
Server == Push \/ YieldToNobody \/ Cancelled \/ Restart

Client(c) ==
    \/ Serve(c) \/ Yield(c) \/ Mount(c) \/ Opens(c) \/ Receive(c)
    \/ Breaks(c) \/ Reconnect(c) \/ Unmount(c) \/ Clear(c)

Next == Server \/ \E c \in Clients : Client(c)

Spec == Init /\ [][Next]_vars

\* A generator takes what is queued, a page handles what arrives, timers fire,
\* an attempt to connect ends one way or the other, and a page notices that its
\* server was killed.  Nobody has to open or close a page, and no connection to
\* a server that lives has to break or to last.
Fairness ==
    \A c \in Clients :
        /\ WF_vars(Yield(c))
        /\ WF_vars(Receive(c))
        /\ WF_vars(Reconnect(c))
        /\ WF_vars(source[c] = "connecting" /\ (Opens(c) \/ Breaks(c)))
        /\ WF_vars(c \in cut /\ Breaks(c))

FairSpec == Spec /\ Fairness
-----------------------------------------------------------------------------
(* Properties.                                                             *)

\* What may still come to page c: queued, or on its wire.
Coming(c) == ToSet(queue) \cup ToSet(wire[c])

\* No event vanishes and none comes twice.  An event pushed has been shown by some
\* page, may still come to one, or went with a connection or with the server, and
\* then nobody has it; and nothing may come to a page that the page has had,
\* however often it reconnects, clears its list or the server is restarted.
EventsAccounted ==
    LET Had == UNION {seen[c] : c \in Clients}
        UnderWay == ToSet(queue) \cup UNION {Coming(c) : c \in Clients}
    IN  /\ 1 .. pushed = Had \cup UnderWay \cup lost
        /\ lost \cap (Had \cup UnderWay) = {}
        /\ \A c \in Clients : Coming(c) \cap seen[c] = {}

Increasing(s) == \A i, j \in DOMAIN s : i < j => s[i] < s[j]

\* What a page shows, then what is on its wire, then what is queued, is in the
\* order of the pushes: a reconnect never brings an older event after a newer
\* one, and a late generator never delivers to a page that has reconnected.
InOrder ==
    \A c \in Clients : Increasing(Reverse(shown[c]) \o wire[c] \o queue)

\* The server's queue and the pages keep the promise of EventFeed to each page:
\* every event at most once, never an older one after a newer one, and nothing that
\* it has missed, also when the page has cleared its list or reconnected in between
\* or the server was restarted.
Feed == INSTANCE EventFeed
            WITH coming <- [c \in Clients |-> Coming(c)], received <- seen
FeedSpec == Feed!Spec

\* A page that is shown has exactly one of a connection, a pause before the
\* next one, or a final failure, and its status says which; one that is left
\* has nothing that could still run.  An open one has its generator, unless the
\* server was killed.
ConnectionAccounted ==
    \A c \in Clients :
        /\ (status[c] = "idle") <=> (c \notin mounted)
        /\ (status[c] = "error") <=> (c \in timer)
        /\ (status[c] = "open") <=> (source[c] = "open")
        /\ (status[c] = "connecting") <=> (source[c] = "connecting")
        /\ source[c] = "open" => c \in serving \cup cut
        /\ source[c] = "none" => c \notin serving \cup cut /\ wire[c] = <<>>

\* A page does not try for ever: an attempt to connect is followed by an open
\* connection, by "failed", or by leaving the page.
RetriesEnd ==
    \A c \in Clients :
        status[c] = "connecting" ~> status[c] \in {"open", "failed", "idle"}

\* A page that stays connected empties the queue, also of what was pushed while
\* nobody was connected, and receives all that was taken for it.
QueueDrains ==
    \A c \in Clients :
        <>[](source[c] = "open") => <>[](queue = <<>> /\ wire[c] = <<>>)
=============================================================================
