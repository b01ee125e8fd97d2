------------------------- MODULE EventStreamProofs ---------------------------
(***************************************************************************)
(* Where events are and what pages know of their connections, proved for   *)
(* any number of pages, events, retries, late generators and restarts.     *)
(***************************************************************************)
EXTENDS EventStream, Measures, SequenceTheorems, TLAPS

-----------------------------------------------------------------------------
(* Sequences of numbers.                                                   *)

LEMMA AppendFacts ==
    ASSUME NEW q \in Seq(Nat), NEW e \in Nat
    PROVE  /\ Append(q, e) \in Seq(Nat)
           /\ ToSet(Append(q, e)) = ToSet(q) \cup {e}
           /\ Increasing(q) /\ (\A x \in ToSet(q) : x < e) => Increasing(Append(q, e))
<1>1. /\ Append(q, e) \in Seq(Nat) /\ Len(q) \in Nat
      /\ DOMAIN q = 1 .. Len(q) /\ DOMAIN Append(q, e) = 1 .. Len(q) + 1
      /\ \A i \in 1 .. Len(q) : Append(q, e)[i] = q[i]
      /\ Append(q, e)[Len(q) + 1] = e
  BY AppendProperties
<1>2. ToSet(Append(q, e)) = ToSet(q) \cup {e}
  <2>1. ASSUME NEW x \in ToSet(Append(q, e)) PROVE x \in ToSet(q) \cup {e}
    BY <1>1, <2>1 DEF ToSet
  <2>2. ASSUME NEW x \in ToSet(q) \cup {e} PROVE x \in ToSet(Append(q, e))
    BY <1>1, <2>2 DEF ToSet
  <2> QED BY <2>1, <2>2
<1>3. Increasing(q) /\ (\A x \in ToSet(q) : x < e) => Increasing(Append(q, e))
  BY <1>1 DEF Increasing, ToSet
<1> QED BY <1>1, <1>2, <1>3

LEMMA TailIncreasing ==
    ASSUME NEW q \in Seq(Nat), q # <<>>, Increasing(q)
    PROVE  /\ Tail(q) \in Seq(Nat) /\ Head(q) \in ToSet(q) /\ Head(q) \in Nat
           /\ ToSet(Tail(q)) = ToSet(q) \ {Head(q)}
           /\ Increasing(Tail(q))
           /\ \A x \in ToSet(Tail(q)) : Head(q) < x
<1>1. /\ Tail(q) \in Seq(Nat) /\ Len(q) \in Nat \ {0}
      /\ Head(q) = q[1] /\ q[1] \in Nat
      /\ DOMAIN q = 1 .. Len(q) /\ DOMAIN Tail(q) = 1 .. Len(q) - 1
      /\ \A i \in 1 .. Len(q) - 1 : Tail(q)[i] = q[i + 1]
      /\ \A i \in 1 .. Len(q) : q[i] \in Nat
  BY HeadTailProperties, EmptySeq
<1>2. ToSet(Tail(q)) = ToSet(q) \ {Head(q)}
  <2>1. ASSUME NEW x \in ToSet(Tail(q)) PROVE x \in ToSet(q) \ {Head(q)}
    <3>1. PICK i \in 1 .. Len(q) - 1 : x = q[i + 1]
      BY <1>1, <2>1 DEF ToSet
    <3>2. i + 1 \in DOMAIN q /\ 1 \in DOMAIN q /\ q[1] < q[i + 1]
      BY <1>1, <3>1 DEF Increasing
    <3> QED BY <1>1, <3>1, <3>2 DEF ToSet
  <2>2. ASSUME NEW x \in ToSet(q), x # Head(q) PROVE x \in ToSet(Tail(q))
    <3>1. PICK i \in 1 .. Len(q) : x = q[i]
      BY <1>1, <2>2 DEF ToSet
    <3>2. i - 1 \in DOMAIN Tail(q) /\ Tail(q)[i - 1] = x
      BY <1>1, <2>2, <3>1
    <3> QED BY <3>2 DEF ToSet
  <2> QED BY <2>1, <2>2
<1>3. Increasing(Tail(q)) /\ \A x \in ToSet(Tail(q)) : Head(q) < x
  <2>1. \A i, j \in 1 .. Len(q) - 1 : i < j => q[i + 1] < q[j + 1]
    BY <1>1 DEF Increasing
  <2>2. \A i \in 1 .. Len(q) - 1 : q[1] < q[i + 1]
    BY <1>1 DEF Increasing
  <2> QED BY <1>1, <2>1, <2>2 DEF Increasing, ToSet
<1>4. Head(q) \in ToSet(q)
  BY <1>1 DEF ToSet
<1> QED BY <1>1, <1>2, <1>3, <1>4

LEMMA EmptyFacts == ToSet(<<>>) = {} /\ Increasing(<<>>)
  BY DEF ToSet, Increasing

Decreasing(s) == \A i, j \in DOMAIN s : i < j => s[j] < s[i]

\* A newer event goes to the front of a list that is cut at its end.
LEMMA KeptFacts ==
    ASSUME NEW S, NEW s \in Seq(S), NEW e \in S, S \subseteq Nat
    PROVE  /\ Kept(<<e>> \o s) \in Seq(S) /\ Len(Kept(<<e>> \o s)) <= MaxShown
           /\ ToSet(Kept(<<e>> \o s)) \subseteq ToSet(s) \cup {e}
           /\ Decreasing(s) /\ (\A x \in ToSet(s) : x < e) =>
                 Decreasing(Kept(<<e>> \o s))
<1> DEFINE n == <<e>> \o s
           k == Kept(n)
<1>1. /\ n \in Seq(S) /\ Len(n) = Len(s) + 1 /\ Len(s) \in Nat
      /\ n[1] = e /\ \A i \in 2 .. Len(s) + 1 : n[i] = s[i - 1]
      /\ DOMAIN s = 1 .. Len(s)
  OBVIOUS
<1>2. /\ k \in Seq(S) /\ Len(k) <= MaxShown
      /\ Len(k) \in Nat /\ Len(k) <= Len(n) /\ DOMAIN k = 1 .. Len(k)
      /\ \A i \in 1 .. Len(k) : k[i] = n[i]
  <2>1. CASE Len(n) > MaxShown
    <3>1. k = SubSeq(n, 1, MaxShown)
      BY <2>1 DEF Kept
    <3>2. MaxShown \in 1 .. Len(n)
      BY <1>1, <2>1, StreamAssumption
    <3>3. /\ k \in Seq(S) /\ Len(k) = MaxShown
          /\ \A i \in 1 .. MaxShown : k[i] = n[1 + i - 1]
      <4>1. \A i \in 1 .. MaxShown : n[i] \in S
        BY <1>1, <3>2
      <4> HIDE DEF n, k
      <4> QED BY <1>1, <3>1, <3>2, <4>1, SubSeqProperties
    <3> HIDE DEF n, k
    <3>4. \A i \in 1 .. MaxShown : 1 + i - 1 = i
      OBVIOUS
    <3> QED BY <1>1, <3>2, <3>3, <3>4
  <2>2. CASE ~(Len(n) > MaxShown)
    BY <1>1, <2>2, StreamAssumption DEF Kept
  <2> QED BY <2>1, <2>2
<1> HIDE DEF n, k
<1>3. \A i \in 1 .. Len(k) :
         (i = 1 /\ k[i] = e) \/ (i - 1 \in DOMAIN s /\ k[i] = s[i - 1])
  BY <1>1, <1>2
<1>4. ToSet(k) \subseteq ToSet(s) \cup {e}
  BY <1>2, <1>3 DEF ToSet
<1>5. ASSUME Decreasing(s), \A x \in ToSet(s) : x < e PROVE Decreasing(k)
  <2> SUFFICES ASSUME NEW i \in 1 .. Len(k), NEW j \in 1 .. Len(k), i < j
               PROVE  k[j] < k[i]
    BY <1>2 DEF Decreasing
  <2>1. j - 1 \in DOMAIN s /\ k[j] = s[j - 1]
    BY <1>2, <1>3
  <2>2. CASE i = 1
    BY <1>1, <1>2, <1>5, <2>1, <2>2 DEF ToSet
  <2>3. CASE i # 1
    BY <1>3, <1>5, <2>1, <2>3 DEF Decreasing
  <2> QED BY <2>2, <2>3
<1> QED BY <1>2, <1>4, <1>5 DEF n, k
-----------------------------------------------------------------------------
(* Types.                                                                  *)

LEMMA EventSequences ==
    ASSUME NEW q \in Seq(Events)
    PROVE  /\ q \in Seq(Nat)
           /\ ToSet(q) \subseteq Events
           /\ \A e \in Events : Append(q, e) \in Seq(Events)
           /\ q # <<>> => Tail(q) \in Seq(Events) /\ Head(q) \in Events
<1>1. Events \subseteq Nat
  BY DEF Events
<1>2. q \in Seq(Nat)
  BY <1>1, SeqMonotonic
<1>3. \A i \in DOMAIN q : q[i] \in Events
  OBVIOUS
<1>4. ToSet(q) \subseteq Events
  BY <1>3 DEF ToSet
<1> QED BY <1>2, <1>4, HeadTailProperties, AppendProperties

LEMMA InitTypes == Init => TypeOK
  BY StreamAssumption DEF Init, TypeOK

LEMMA DisconnectTypes ==
    ASSUME TypeOK, NEW c \in Clients, Disconnect(c)
    PROVE  /\ wire' \in [Clients -> Seq(Events)] /\ lost' \subseteq Events
           /\ serving' \subseteq Clients /\ cut' \subseteq Clients
           /\ ghosts' \in 0 .. MaxGhosts
<1>1. /\ wire' = [wire EXCEPT ![c] = <<>>]
      /\ lost' = lost \cup ToSet(wire[c])
      /\ serving' = serving \ {c} /\ cut' = cut \ {c}
  BY DEF Disconnect, ToSet
<1>2. wire[c] \in Seq(Events) /\ <<>> \in Seq(Events)
  BY DEF TypeOK
<1>3. ghosts' \in 0 .. MaxGhosts
  <2>1. ghosts' = ghosts \/ (ghosts < MaxGhosts /\ ghosts' = ghosts + 1)
    BY DEF Disconnect
  <2> QED BY <2>1, StreamAssumption DEF TypeOK
<1>4. wire' \in [Clients -> Seq(Events)]
  BY <1>1, <1>2 DEF TypeOK
<1> QED BY <1>1, <1>2, <1>3, <1>4, EventSequences DEF TypeOK

LEMMA StepTypes == TypeOK /\ [Next]_vars => TypeOK'
<1> SUFFICES ASSUME TypeOK, [Next]_vars PROVE TypeOK'
  OBVIOUS
<1> USE StreamAssumption DEF TypeOK, server, page, list
<1>1. CASE Push
  <2>1. pushed + 1 \in Events /\ pushed' \in 0 .. MaxEvents
    BY <1>1 DEF Push, Events
  <2>2. queue' \in Seq(Events)
    BY <1>1, <2>1, EventSequences DEF Push
  <2> QED BY <1>1, <2>1, <2>2 DEF Push
<1>2. CASE YieldToNobody \/ Cancelled
  <2>1. CASE YieldToNobody
    <3>1. queue' \in Seq(Events) /\ lost' \subseteq Events
      BY <2>1, EventSequences DEF YieldToNobody
    <3> QED BY <2>1, <3>1 DEF YieldToNobody
  <2>2. CASE Cancelled
    BY <2>2 DEF Cancelled
  <2> QED BY <1>2, <2>1, <2>2
<1>3. CASE Restart
  <2>1. lost' = lost \cup ToSet(queue) /\ queue' = <<>>
    BY <1>3 DEF Restart, ToSet
  <2>2. queue' \in Seq(Events) /\ lost' \subseteq Events
    BY <2>1, EventSequences
  <2> QED BY <1>3, <2>2 DEF Restart
<1>4. ASSUME NEW c \in Clients, Serve(c) \/ Mount(c) \/ Opens(c) \/ Reconnect(c)
      PROVE  TypeOK'
  <2>1. CASE Serve(c)
    BY <2>1 DEF Serve
  <2>2. CASE Mount(c)
    BY <2>2 DEF Mount
  <2>3. CASE Opens(c)
    BY <2>3 DEF Opens
  <2>4. CASE Reconnect(c)
    BY <2>4 DEF Reconnect
  <2> QED BY <1>4, <2>1, <2>2, <2>3, <2>4
<1>5. ASSUME NEW c \in Clients, Yield(c) PROVE TypeOK'
  <2>1. queue' \in Seq(Events) /\ Head(queue) \in Events
    BY <1>5, EventSequences DEF Yield
  <2>2. wire' \in [Clients -> Seq(Events)]
    BY <1>5, <2>1, EventSequences DEF Yield
  <2> QED BY <1>5, <2>1, <2>2 DEF Yield
<1>6. ASSUME NEW c \in Clients, Receive(c) PROVE TypeOK'
  <2>1. /\ Tail(wire[c]) \in Seq(Events) /\ Head(wire[c]) \in Events
        /\ Events \subseteq Nat
    BY <1>6, EventSequences DEF Receive, Events
  <2>2. /\ Kept(<<Head(wire[c])>> \o shown[c]) \in Seq(Events)
        /\ Len(Kept(<<Head(wire[c])>> \o shown[c])) <= MaxShown
    BY <2>1, KeptFacts
  <2> QED BY <1>6, <2>1, <2>2 DEF Receive
<1>7. ASSUME NEW c \in Clients, Breaks(c) PROVE TypeOK'
  <2>1. /\ timer' \subseteq Clients /\ retries' \in [Clients -> 0 .. MaxRetries]
        /\ status' \in [Clients -> {"idle", "connecting", "open", "error", "failed"}]
    <3>1. CASE retries[c] >= MaxRetries
      BY <1>7, <3>1 DEF Breaks, Retry
    <3>2. CASE ~(retries[c] >= MaxRetries)
      <4>1. retries[c] + 1 \in 0 .. MaxRetries
        BY <3>2
      <4> QED BY <1>7, <3>2, <4>1 DEF Breaks, Retry
    <3> QED BY <3>1, <3>2
  <2> QED BY <1>7, <2>1, DisconnectTypes DEF Breaks
<1>8. ASSUME NEW c \in Clients, Unmount(c) PROVE TypeOK'
  BY <1>8, DisconnectTypes DEF Unmount
<1>9. ASSUME NEW c \in Clients, Clear(c) PROVE TypeOK'
  BY <1>9 DEF Clear
<1>10. CASE UNCHANGED vars
  BY <1>10 DEF vars
<1> QED
  BY <1>1, <1>2, <1>3, <1>4, <1>5, <1>6, <1>7, <1>8, <1>9, <1>10
  DEF Next, Server, Client

-----------------------------------------------------------------------------
(* Connections.                                                            *)

LEMMA StepConnections ==
    TypeOK /\ ConnectionAccounted /\ [Next]_vars => ConnectionAccounted'
<1> SUFFICES ASSUME TypeOK, ConnectionAccounted, [Next]_vars
             PROVE  ConnectionAccounted'
  OBVIOUS
<1> USE DEF ConnectionAccounted, server, page
<1>0. /\ source \in [Clients -> {"none", "connecting", "open"}]
      /\ status \in [Clients -> {"idle", "connecting", "open", "error", "failed"}]
      /\ wire \in [Clients -> Seq(Events)]
  BY DEF TypeOK
<1>1. CASE Push \/ YieldToNobody \/ Cancelled \/ Restart
  BY <1>1 DEF Push, YieldToNobody, Cancelled, Restart
<1>2. ASSUME NEW c \in Clients, Serve(c) \/ Mount(c) \/ Opens(c) \/ Reconnect(c)
      PROVE  ConnectionAccounted'
  BY <1>0, <1>2 DEF Serve, Mount, Opens, Reconnect
<1>3. ASSUME NEW c \in Clients, Yield(c) PROVE ConnectionAccounted'
  <2>1. /\ c \in serving /\ \A d \in Clients \ {c} : wire'[d] = wire[d]
        /\ UNCHANGED <<serving, cut, source, status, timer, mounted>>
    BY <1>0, <1>3 DEF Yield
  <2> QED BY <2>1
<1>4. ASSUME NEW c \in Clients, Receive(c) PROVE ConnectionAccounted'
  <2>1. /\ source[c] = "open" /\ \A d \in Clients \ {c} : wire'[d] = wire[d]
        /\ UNCHANGED <<serving, cut, source, status, timer, mounted>>
    BY <1>0, <1>4 DEF Receive
  <2> QED BY <2>1
<1>5. ASSUME NEW c \in Clients, Breaks(c) \/ Unmount(c) PROVE ConnectionAccounted'
  <2>1. /\ c \notin serving' \cup cut' /\ wire'[c] = <<>> /\ source'[c] = "none"
        /\ \A d \in Clients \ {c} :
              /\ wire'[d] = wire[d] /\ source'[d] = source[d]
              /\ d \in serving' <=> d \in serving
              /\ d \in cut' <=> d \in cut
    BY <1>0, <1>5 DEF Breaks, Unmount, Disconnect
  <2>2. /\ c \in mounted' <=> status'[c] # "idle"
        /\ c \in timer' <=> status'[c] = "error"
        /\ status'[c] \notin {"open", "connecting"}
        /\ \A d \in Clients \ {c} :
              /\ status'[d] = status[d]
              /\ d \in mounted' <=> d \in mounted
              /\ d \in timer' <=> d \in timer
    BY <1>0, <1>5 DEF Breaks, Unmount, Retry
  <2> QED BY <2>1, <2>2
<1>6. ASSUME NEW c \in Clients, Clear(c) PROVE ConnectionAccounted'
  BY <1>6 DEF Clear
<1>7. CASE UNCHANGED vars
  BY <1>7 DEF vars
<1> QED
  BY <1>1, <1>2, <1>3, <1>4, <1>5, <1>6, <1>7 DEF Next, Server, Client
-----------------------------------------------------------------------------
(* Where events are.                                                       *)

Queued == ToSet(queue)
Carried(c) == ToSet(wire[c])
Taken(c) == Carried(c) \cup seen[c]

EventsKnown ==
    /\ Queued \cup lost \subseteq 1 .. pushed
    /\ \A c \in Clients :
          Taken(c) \subseteq 1 .. pushed /\ ToSet(shown[c]) \subseteq seen[c]

EventsSomewhere ==
    \A e \in 1 .. pushed :
        e \in Queued \cup lost \/ \E c \in Clients : e \in Taken(c)

EventsOnce ==
    /\ Queued \cap lost = {}
    /\ \A c \in Clients :
          /\ Taken(c) \cap (Queued \cup lost) = {}
          /\ Carried(c) \cap seen[c] = {}
          /\ \A d \in Clients \ {c} : Taken(c) \cap Taken(d) = {}

\* What a page has had is older than what is on its wire, and that than the queue.
EventsOrdered ==
    /\ Increasing(queue)
    /\ \A c \in Clients :
          /\ Increasing(wire[c]) /\ Decreasing(shown[c])
          /\ \A x \in seen[c], y \in Carried(c) : x < y
          /\ \A x \in Taken(c), y \in Queued : x < y

EventInv == EventsKnown /\ EventsSomewhere /\ EventsOnce /\ EventsOrdered

LEMMA InitEvents == Init => EventInv
<1> SUFFICES ASSUME Init PROVE EventInv
  OBVIOUS
<1>1. /\ Queued = {} /\ lost = {} /\ pushed = 0
      /\ \A c \in Clients : Carried(c) = {} /\ seen[c] = {} /\ ToSet(shown[c]) = {}
  BY EmptyFacts DEF Init, Queued, Carried
<1>2. /\ Increasing(queue)
      /\ \A c \in Clients : Increasing(wire[c]) /\ Decreasing(shown[c])
  BY DEF Init, Increasing, Decreasing
<1> QED
  BY <1>1, <1>2
  DEF EventInv, EventsKnown, EventsSomewhere, EventsOnce, EventsOrdered, Taken

\* The oldest queued event.
LEMMA HeadOfQueue ==
    ASSUME TypeOK, EventInv, queue # <<>>
    PROVE  /\ Head(queue) \in Queued /\ Head(queue) \in Nat
           /\ ToSet(Tail(queue)) = Queued \ {Head(queue)}
           /\ Increasing(Tail(queue))
           /\ \A x \in ToSet(Tail(queue)) : Head(queue) < x
<1>1. queue \in Seq(Nat)
  BY EventSequences DEF TypeOK
<1> QED BY <1>1, TailIncreasing DEF EventInv, EventsOrdered, Queued

\* Events that go to lost, from a queue or a wire that is emptied.
LEMMA EventsLost ==
    ASSUME EventInv, NEW L,
           Queued' \subseteq Queued, Increasing(queue'), lost' = lost \cup L,
           \A c \in Clients : Carried(c)' \subseteq Carried(c) /\ Increasing(wire'[c]),
           L = (Queued \ Queued') \cup UNION {Carried(c) \ Carried(c)' : c \in Clients},
           UNCHANGED <<pushed, list>>
    PROVE  EventInv'
<1> USE DEF EventInv, Taken, list
<1>1. EventsKnown'
  BY DEF EventsKnown
<1>2. EventsSomewhere'
  BY DEF EventsSomewhere
<1>3. EventsOnce'
  BY DEF EventsOnce
<1>4. EventsOrdered'
  BY DEF EventsOrdered
<1> QED BY <1>1, <1>2, <1>3, <1>4

LEMMA StepEvents == TypeOK /\ EventInv /\ [Next]_vars => EventInv'
<1> SUFFICES ASSUME TypeOK, EventInv, [Next]_vars PROVE EventInv'
  OBVIOUS
<1>0. /\ queue \in Seq(Events) /\ wire \in [Clients -> Seq(Events)]
      /\ shown \in [Clients -> Seq(Events)] /\ seen \in [Clients -> SUBSET Events]
      /\ pushed \in Nat /\ Events \subseteq Nat
  BY StreamAssumption DEF TypeOK, Events
<1>1. CASE Push
  <2>1. /\ pushed' = pushed + 1 /\ queue' = Append(queue, pushed + 1)
        /\ UNCHANGED <<wire, list, lost>>
    BY <1>1 DEF Push
  <2>2. \A x \in Queued : x < pushed + 1
    BY <1>0 DEF EventInv, EventsKnown
  <2>3. Queued' = Queued \cup {pushed + 1} /\ Increasing(queue')
    <3>1. queue \in Seq(Nat) /\ pushed + 1 \in Nat /\ Increasing(queue)
      BY <1>0, EventSequences DEF EventInv, EventsOrdered
    <3> QED BY <2>1, <2>2, <3>1, AppendFacts DEF Queued
  <2>4. \A c \in Clients : Carried(c)' = Carried(c)
    BY <2>1 DEF Carried
  <2> USE DEF EventInv, Taken, list
  <2>5. EventsKnown' /\ EventsSomewhere'
    BY <1>0, <2>1, <2>3, <2>4 DEF EventsKnown, EventsSomewhere
  <2>6. EventsOnce'
    BY <1>0, <2>1, <2>3, <2>4 DEF EventsOnce, EventsKnown
  <2>7. EventsOrdered'
    BY <1>0, <2>1, <2>3, <2>4 DEF EventsOrdered, EventsKnown
  <2> QED BY <2>5, <2>6, <2>7
<1>2. ASSUME NEW c \in Clients, Yield(c) PROVE EventInv'
  <2> DEFINE e == Head(queue)
  <2>1. /\ queue # <<>> /\ queue' = Tail(queue)
        /\ wire' = [wire EXCEPT ![c] = Append(@, e)]
        /\ UNCHANGED <<pushed, list, lost>>
    BY <1>2 DEF Yield
  <2>2. /\ e \in Queued /\ Queued' = Queued \ {e} /\ e \in Nat
        /\ Increasing(queue') /\ \A x \in Queued' : e < x
    BY <2>1, HeadOfQueue DEF Queued
  <2> HIDE DEF e
  <2>3. wire[c] \in Seq(Nat) /\ \A x \in Carried(c) : x < e
    BY <1>0, <2>2, EventSequences DEF EventInv, EventsOrdered, Taken
  <2>4. /\ Carried(c)' = Carried(c) \cup {e} /\ Increasing(wire'[c])
        /\ \A d \in Clients \ {c} : Carried(d)' = Carried(d) /\ wire'[d] = wire[d]
    BY <1>0, <2>1, <2>2, <2>3, AppendFacts DEF EventInv, EventsOrdered, Carried
  <2> USE DEF EventInv, list
  <2>5. EventsKnown' /\ EventsSomewhere'
    BY <1>0, <2>1, <2>2, <2>4 DEF EventsKnown, EventsSomewhere, Taken
  <2>6. EventsOnce'
    <3>1. e \notin lost /\ \A d \in Clients : e \notin Taken(d)
      BY <2>2 DEF EventsOnce
    <3>2. Taken(c)' = Taken(c) \cup {e} /\ \A d \in Clients \ {c} : Taken(d)' = Taken(d)
      BY <2>1, <2>4 DEF Taken
    <3>3. \A d \in Clients : Carried(d)' \cap seen'[d] = {}
      BY <2>1, <2>4, <3>1 DEF EventsOnce, Taken
    <3> QED BY <2>1, <2>2, <3>1, <3>2, <3>3 DEF EventsOnce
  <2>7. EventsOrdered'
    BY <1>0, <2>1, <2>2, <2>4 DEF EventsOrdered, Taken
  <2> QED BY <2>5, <2>6, <2>7
<1>3. CASE YieldToNobody
  <2>1. /\ queue # <<>> /\ queue' = Tail(queue) /\ lost' = lost \cup {Head(queue)}
        /\ UNCHANGED <<pushed, wire, list>>
    BY <1>3 DEF YieldToNobody
  <2>2. /\ Head(queue) \in Queued /\ Queued' = Queued \ {Head(queue)}
        /\ Increasing(queue')
    BY <2>1, HeadOfQueue DEF Queued
  <2>3. \A c \in Clients : Carried(c)' = Carried(c) /\ Increasing(wire'[c])
    BY <2>1 DEF Carried, EventInv, EventsOrdered
  <2>4. {Head(queue)} =
           (Queued \ Queued') \cup UNION {Carried(c) \ Carried(c)' : c \in Clients}
    BY <2>2, <2>3
  <2> QED BY <2>1, <2>2, <2>3, <2>4, EventsLost
<1>4. CASE Restart
  <2>1. /\ queue' = <<>> /\ lost' = lost \cup Queued /\ UNCHANGED <<pushed, wire, list>>
    BY <1>4 DEF Restart, Queued, ToSet
  <2>2. Queued' = {} /\ Increasing(queue')
    BY <2>1, EmptyFacts DEF Queued
  <2>3. \A c \in Clients : Carried(c)' = Carried(c) /\ Increasing(wire'[c])
    BY <2>1 DEF Carried, EventInv, EventsOrdered
  <2> QED BY <2>1, <2>2, <2>3, EventsLost
<1>5. ASSUME NEW c \in Clients, Breaks(c) \/ Unmount(c) PROVE EventInv'
  <2>1. /\ wire' = [wire EXCEPT ![c] = <<>>] /\ lost' = lost \cup Carried(c)
        /\ UNCHANGED <<pushed, queue, list>>
    BY <1>5 DEF Breaks, Unmount, Disconnect, Carried, ToSet
  <2>2. /\ wire'[c] = <<>> /\ Carried(c)' = {}
        /\ \A d \in Clients \ {c} : wire'[d] = wire[d] /\ Carried(d)' = Carried(d)
    BY <1>0, <2>1, EmptyFacts DEF Carried
  <2>3. Queued' = Queued /\ Increasing(queue')
    BY <2>1 DEF Queued, EventInv, EventsOrdered
  <2>4. \A d \in Clients : Carried(d)' \subseteq Carried(d) /\ Increasing(wire'[d])
    BY <2>2, EmptyFacts DEF EventInv, EventsOrdered
  <2> QED BY <2>1, <2>2, <2>3, <2>4, EventsLost
<1>6. ASSUME NEW c \in Clients, Receive(c) PROVE EventInv'
  <2> DEFINE e == Head(wire[c])
  <2>1. /\ wire[c] # <<>> /\ wire' = [wire EXCEPT ![c] = Tail(@)]
        /\ shown' = [shown EXCEPT ![c] = Kept(<<e>> \o @)]
        /\ seen' = [seen EXCEPT ![c] = @ \cup {e}]
        /\ UNCHANGED <<pushed, queue, lost>>
    BY <1>6 DEF Receive, server
  <2>2. wire[c] \in Seq(Nat) /\ Increasing(wire[c])
    BY <1>0, EventSequences DEF EventInv, EventsOrdered
  <2>3. /\ e \in Carried(c) /\ Carried(c)' = Carried(c) \ {e} /\ e \in Nat
        /\ Increasing(wire'[c]) /\ \A x \in Carried(c)' : e < x
        /\ \A d \in Clients \ {c} : Carried(d)' = Carried(d) /\ wire'[d] = wire[d]
    BY <1>0, <2>1, <2>2, TailIncreasing DEF Carried
  <2>4. e \in Events
    BY <1>0, <2>1, EventSequences
  <2> HIDE DEF e
  <2>5. /\ Decreasing(shown'[c]) /\ ToSet(shown'[c]) \subseteq ToSet(shown[c]) \cup {e}
        /\ \A d \in Clients \ {c} : shown'[d] = shown[d]
    <3>1. \A x \in ToSet(shown[c]) : x < e
      BY <2>3 DEF EventInv, EventsOrdered, EventsKnown
    <3>2. shown'[c] = Kept(<<e>> \o shown[c]) /\ Decreasing(shown[c])
      BY <1>0, <2>1 DEF EventInv, EventsOrdered
    <3> QED BY <1>0, <2>1, <2>4, <3>1, <3>2, KeptFacts
  <2>6. /\ seen'[c] = seen[c] \cup {e}
        /\ \A d \in Clients \ {c} : seen'[d] = seen[d]
        /\ Queued' = Queued
    BY <1>0, <2>1 DEF Queued
  <2> USE DEF EventInv
  <2>7. \A d \in Clients : Taken(d)' = Taken(d)
    BY <2>3, <2>6 DEF Taken
  <2>8. EventsKnown' /\ EventsSomewhere'
    BY <2>1, <2>3, <2>5, <2>6, <2>7 DEF EventsKnown, EventsSomewhere, Taken
  <2>9. EventsOnce'
    <3>1. ASSUME NEW d \in Clients PROVE Carried(d)' \cap seen'[d] = {}
      <4>1. Carried(d) \cap seen[d] = {}
        BY DEF EventsOnce
      <4>2. CASE d = c
        BY <2>3, <2>6, <4>1, <4>2
      <4>3. CASE d # c
        BY <2>3, <2>6, <4>1, <4>3
      <4> QED BY <4>2, <4>3
    <3> QED BY <2>1, <2>6, <2>7, <3>1 DEF EventsOnce
  <2>10. EventsOrdered'
    BY <2>1, <2>2, <2>3, <2>5, <2>6, <2>7 DEF EventsOrdered
  <2> QED BY <2>8, <2>9, <2>10
<1>7. ASSUME NEW c \in Clients, Clear(c) PROVE EventInv'
  <2>1. /\ shown'[c] = <<>> /\ \A d \in Clients \ {c} : shown'[d] = shown[d]
        /\ UNCHANGED <<pushed, queue, wire, seen, lost>>
    BY <1>0, <1>7 DEF Clear, server
  <2>2. ToSet(shown'[c]) = {} /\ Decreasing(shown'[c])
    BY <2>1, EmptyFacts DEF Decreasing
  <2>3. /\ Queued' = Queued
        /\ \A d \in Clients : Carried(d)' = Carried(d) /\ Taken(d)' = Taken(d)
    BY <2>1 DEF Queued, Carried, Taken
  <2> USE DEF EventInv
  <2>4. EventsKnown' /\ EventsSomewhere'
    BY <2>1, <2>2, <2>3 DEF EventsKnown, EventsSomewhere
  <2>5. EventsOnce' /\ EventsOrdered'
    BY <2>1, <2>2, <2>3 DEF EventsOnce, EventsOrdered
  <2> QED BY <2>4, <2>5
<1>8. CASE \/ Cancelled
           \/ \E c \in Clients : Serve(c) \/ Mount(c) \/ Opens(c) \/ Reconnect(c)
           \/ UNCHANGED vars
  <2>1. UNCHANGED <<pushed, queue, wire, shown, seen, lost>>
    BY <1>8 DEF Cancelled, Serve, Mount, Opens, Reconnect, vars, server, list
  <2> QED
    BY <2>1
    DEF EventInv, EventsKnown, EventsSomewhere, EventsOnce, EventsOrdered, Queued,
        Carried, Taken
<1> QED
  BY <1>1, <1>2, <1>3, <1>4, <1>5, <1>6, <1>7, <1>8 DEF Next, Server, Client
-----------------------------------------------------------------------------
(* The theorems.                                                           *)

StreamInv == TypeOK /\ ConnectionAccounted /\ EventInv

LEMMA StreamSafety == Spec => []StreamInv
<1>1. Init => ConnectionAccounted
  BY DEF Init, ConnectionAccounted
<1>2. Init => StreamInv
  BY <1>1, InitTypes, InitEvents DEF StreamInv
<1>3. StreamInv /\ [Next]_vars => StreamInv'
  BY StepTypes, StepConnections, StepEvents DEF StreamInv
<1> QED BY <1>2, <1>3, PTL DEF Spec

\* The variables of server and pages keep their types: a subscription counts to
\* MAX_RETRIES, a list is cut to MAX_EVENTS.
THEOREM StreamTyped == Spec => []TypeOK
<1>1. StreamInv => TypeOK
  BY DEF StreamInv
<1> QED BY <1>1, StreamSafety, PTL

\* subscribeToStream leaves no page without a connection, a timer or a verdict,
\* and none with two of them.
THEOREM ConnectionsAccounted == Spec => []ConnectionAccounted
<1>1. StreamInv => ConnectionAccounted
  BY DEF StreamInv
<1> QED BY <1>1, StreamSafety, PTL

\* No event vanishes between push_event and a page but with a connection, a late
\* generator or the server, and none comes to a page again.
THEOREM NoneVanishes == Spec => []EventsAccounted
<1>1. StreamInv => EventsAccounted
  <2> SUFFICES ASSUME StreamInv PROVE EventsAccounted
    OBVIOUS
  <2> DEFINE Had == UNION {seen[c] : c \in Clients}
             UnderWay == Queued \cup UNION {Coming(c) : c \in Clients}
  <2>1. \A c \in Clients : Coming(c) = Queued \cup Carried(c)
    BY DEF Coming, Queued, Carried
  <2>2. EventsKnown /\ EventsSomewhere /\ EventsOnce
    BY DEF StreamInv, EventInv
  <2>3. 1 .. pushed = Had \cup UnderWay \cup lost
    <3>1. ASSUME NEW e \in 1 .. pushed PROVE e \in Had \cup UnderWay \cup lost
      BY <2>1, <2>2 DEF EventsSomewhere, Taken
    <3>2. ASSUME NEW e \in Had \cup UnderWay \cup lost PROVE e \in 1 .. pushed
      BY <2>1, <2>2 DEF EventsKnown, Taken
    <3> QED BY <3>1, <3>2
  <2>4. lost \cap (Had \cup UnderWay) = {}
    <3>1. ASSUME NEW e \in Had \cup UnderWay PROVE e \notin lost
      BY <2>1, <2>2 DEF EventsOnce, Taken
    <3> QED BY <3>1
  <2>5. \A c \in Clients : Coming(c) \cap seen[c] = {}
    BY <2>1, <2>2 DEF EventsOnce, Taken
  <2> QED BY <2>3, <2>4, <2>5 DEF EventsAccounted, Queued
<1> QED BY <1>1, StreamSafety, PTL

\* Increasing sequences, one above the other.
LEMMA JoinIncreasing ==
    ASSUME NEW a \in Seq(Nat), NEW b \in Seq(Nat), Increasing(a), Increasing(b),
           \A x \in ToSet(a), y \in ToSet(b) : x < y
    PROVE  /\ a \o b \in Seq(Nat) /\ Increasing(a \o b)
           /\ ToSet(a \o b) = ToSet(a) \cup ToSet(b)
<1> DEFINE ab == a \o b
<1>1. /\ ab \in Seq(Nat) /\ Len(a) \in Nat /\ Len(b) \in Nat
      /\ DOMAIN a = 1 .. Len(a) /\ DOMAIN b = 1 .. Len(b)
      /\ DOMAIN ab = 1 .. Len(a) + Len(b)
      /\ \A i \in 1 .. Len(a) : ab[i] = a[i]
      /\ \A i \in 1 .. Len(b) : ab[Len(a) + i] = b[i]
  OBVIOUS
<1> HIDE DEF ab
<1>2. \A i \in DOMAIN ab :
         \/ i \in DOMAIN a /\ ab[i] = a[i]
         \/ i > Len(a) /\ i - Len(a) \in DOMAIN b /\ ab[i] = b[i - Len(a)]
  BY <1>1
<1>3. ToSet(ab) = ToSet(a) \cup ToSet(b)
  <2>1. ASSUME NEW x \in ToSet(ab) PROVE x \in ToSet(a) \cup ToSet(b)
    BY <1>2, <2>1 DEF ToSet
  <2>2. ASSUME NEW x \in ToSet(a) PROVE x \in ToSet(ab)
    BY <1>1, <2>2 DEF ToSet
  <2>3. ASSUME NEW x \in ToSet(b) PROVE x \in ToSet(ab)
    <3>1. PICK i \in 1 .. Len(b) : x = b[i]
      BY <1>1, <2>3 DEF ToSet
    <3>2. Len(a) + i \in DOMAIN ab /\ ab[Len(a) + i] = x
      BY <1>1, <3>1
    <3> QED BY <3>2 DEF ToSet
  <2> QED BY <2>1, <2>2, <2>3
<1>4. ASSUME NEW i \in DOMAIN ab, NEW j \in DOMAIN ab, i < j PROVE ab[i] < ab[j]
  <2>1. CASE j \in DOMAIN a
    <3>1. i \in DOMAIN a /\ ab[i] = a[i] /\ ab[j] = a[j]
      BY <1>1, <1>4, <2>1
    <3> QED BY <1>4, <2>1, <3>1 DEF Increasing
  <2>2. CASE i \in DOMAIN a /\ j \notin DOMAIN a
    <3>1. ab[i] \in ToSet(a)
      BY <1>1, <2>2 DEF ToSet
    <3>2. ab[j] \in ToSet(b)
      BY <1>1, <1>2, <2>2 DEF ToSet
    <3> QED BY <3>1, <3>2
  <2>3. CASE i \notin DOMAIN a
    <3>1. /\ i - Len(a) \in DOMAIN b /\ ab[i] = b[i - Len(a)]
          /\ j - Len(a) \in DOMAIN b /\ ab[j] = b[j - Len(a)]
      BY <1>1, <1>2, <1>4, <2>3
    <3>2. i - Len(a) < j - Len(a)
      BY <1>1, <1>4
    <3> QED BY <3>1, <3>2 DEF Increasing
  <2> QED BY <2>1, <2>2, <2>3
<1>5. Increasing(ab)
  BY <1>4 DEF Increasing
<1> QED BY <1>1, <1>3, <1>5 DEF ab

LEMMA ReverseFacts ==
    ASSUME NEW s \in Seq(Nat), Decreasing(s)
    PROVE  /\ Reverse(s) \in Seq(Nat) /\ Increasing(Reverse(s))
           /\ ToSet(Reverse(s)) = ToSet(s)
<1> DEFINE r == Reverse(s)
<1>1. /\ Len(s) \in Nat /\ DOMAIN s = 1 .. Len(s)
      /\ \A i \in 1 .. Len(s) : s[i] \in Nat
      /\ r = [i \in 1 .. Len(s) |-> s[(Len(s) - i) + 1]]
  BY DEF Reverse
<1> HIDE DEF r
<1>2. \A i \in 1 .. Len(s) : (Len(s) - i) + 1 \in 1 .. Len(s)
  BY <1>1
<1>3. r \in [1 .. Len(s) -> Nat] /\ DOMAIN r = 1 .. Len(s)
  BY <1>1, <1>2
<1>4. r \in Seq(Nat)
  BY <1>1, <1>3, SeqDef
<1>5. Increasing(r)
  <2> SUFFICES ASSUME NEW i \in 1 .. Len(s), NEW j \in 1 .. Len(s), i < j
               PROVE  r[i] < r[j]
    BY <1>3 DEF Increasing
  <2> DEFINE k == (Len(s) - i) + 1
             l == (Len(s) - j) + 1
  <2>1. k \in DOMAIN s /\ l \in DOMAIN s /\ l < k
    BY <1>1
  <2>2. r[i] = s[k] /\ r[j] = s[l]
    BY <1>1
  <2> HIDE DEF k, l
  <2> QED BY <2>1, <2>2 DEF Decreasing
<1>6. ToSet(r) = ToSet(s)
  <2>1. ASSUME NEW x \in ToSet(r) PROVE x \in ToSet(s)
    BY <1>1, <1>2, <1>3, <2>1 DEF ToSet
  <2>2. ASSUME NEW x \in ToSet(s) PROVE x \in ToSet(r)
    <3>1. PICK i \in 1 .. Len(s) : x = s[i]
      BY <1>1, <2>2 DEF ToSet
    <3> DEFINE j == (Len(s) - i) + 1
    <3>2. j \in 1 .. Len(s) /\ (Len(s) - j) + 1 = i
      BY <1>1
    <3> HIDE DEF j
    <3>3. r[j] = x
      BY <1>1, <3>1, <3>2
    <3> QED BY <1>3, <3>2, <3>3 DEF ToSet
  <2> QED BY <2>1, <2>2
<1> QED BY <1>4, <1>5, <1>6 DEF r

\* No page gets an older event after a newer one (Receive prepends, Yield takes
\* the oldest), through any number of reconnects.
THEOREM EventsInOrder == Spec => []InOrder
<1>1. StreamInv => InOrder
  <2> SUFFICES ASSUME StreamInv, NEW c \in Clients
               PROVE  Increasing(Reverse(shown[c]) \o wire[c] \o queue)
    BY DEF InOrder
  <2>1. /\ queue \in Seq(Nat) /\ wire[c] \in Seq(Nat) /\ shown[c] \in Seq(Nat)
        /\ EventsOrdered /\ ToSet(shown[c]) \subseteq seen[c]
    BY EventSequences DEF StreamInv, TypeOK, EventInv, EventsKnown
  <2> DEFINE r == Reverse(shown[c])
  <2>2. r \in Seq(Nat) /\ Increasing(r) /\ ToSet(r) = ToSet(shown[c])
    BY <2>1, ReverseFacts DEF EventsOrdered
  <2> HIDE DEF r
  <2>3. /\ r \o wire[c] \in Seq(Nat) /\ Increasing(r \o wire[c])
        /\ ToSet(r \o wire[c]) = ToSet(shown[c]) \cup Carried(c)
    BY <2>1, <2>2, JoinIncreasing DEF EventsOrdered, Carried
  <2>4. Increasing((r \o wire[c]) \o queue)
    <3>1. \A x \in ToSet(r \o wire[c]), y \in ToSet(queue) : x < y
      BY <2>1, <2>3 DEF EventsOrdered, Queued, Taken
    <3> QED BY <2>1, <2>3, <3>1, JoinIncreasing DEF EventsOrdered
  <2> QED BY <2>4 DEF r
<1> QED BY <1>1, StreamSafety, PTL
-----------------------------------------------------------------------------
(* The promise of EventFeed.                                               *)

\* The refinement mapping, by where events are.
LEMMA ComingIs == \A c \in Clients : Coming(c) = Queued \cup Carried(c)
  BY DEF Coming, Queued, Carried

LEMMA ComingIsNext == \A c \in Clients : Coming(c)' = Queued' \cup Carried(c)'
  BY DEF Coming, Queued, Carried

\* Receive is EventFeed's Deliver: the event leaves the wire of this page, and it is
\* newer than all the page has had.
LEMMA ReceiveDelivers ==
    ASSUME TypeOK, EventInv, NEW c \in Clients, Receive(c)
    PROVE  Feed!Deliver(c, Head(wire[c])) /\ Head(wire[c]) \in Coming(c)
<1> DEFINE e == Head(wire[c])
<1>1. /\ wire[c] # <<>> /\ wire' = [wire EXCEPT ![c] = Tail(@)]
      /\ seen' = [seen EXCEPT ![c] = @ \cup {e}]
      /\ UNCHANGED <<pushed, queue>>
  BY DEF Receive, server
<1>2. wire[c] \in Seq(Nat) /\ Increasing(wire[c]) /\ wire \in [Clients -> Seq(Events)]
  BY EventSequences DEF TypeOK, EventInv, EventsOrdered
<1>3. e \in Carried(c) /\ Carried(c)' = Carried(c) \ {e}
  BY <1>1, <1>2, TailIncreasing DEF Carried
<1> HIDE DEF e
<1>4. Queued' = Queued /\ \A d \in Clients \ {c} : Carried(d)' = Carried(d)
  BY <1>1, <1>2 DEF Queued, Carried
<1>5. e \notin Queued /\ \A x \in seen[c] : x < e
  BY <1>3 DEF EventInv, EventsOnce, EventsOrdered, Taken
<1>6. /\ e \in Coming(c) /\ Coming(c)' = Coming(c) \ {e}
      /\ \A d \in Clients \ {c} : Coming(d)' = Coming(d)
  BY <1>3, <1>4, <1>5, ComingIs, ComingIsNext
<1>7. [d \in Clients |-> Coming(d)]'
         = [[d \in Clients |-> Coming(d)] EXCEPT ![c] = @ \ {e}]
  BY <1>6
<1> QED BY <1>1, <1>5, <1>6, <1>7 DEF Feed!Deliver, e

\* What leaves the queue or a wire without being received is missed.
LEMMA LeavesUnread ==
    ASSUME EventInv, UNCHANGED <<pushed, seen>>,
           \A c \in Clients : Coming(c)' \subseteq Coming(c)
    PROVE  Feed!Miss
<1>1. \A c \in Clients : Coming(c) \subseteq 1 .. pushed
  BY ComingIs DEF EventInv, EventsKnown, Taken
<1>2. \A c \in Clients : Coming(c)' \in SUBSET (1 .. pushed)
  BY <1>1
<1> HIDE DEF Coming
<1> QED BY <1>2 DEF Feed!Miss

LEMMA StepFeed == TypeOK /\ EventInv /\ [Next]_vars => [Feed!Next]_(Feed!vars)
<1> SUFFICES ASSUME TypeOK, EventInv, [Next]_vars PROVE [Feed!Next]_(Feed!vars)
  OBVIOUS
<1> USE DEF list
<1>0. /\ queue \in Seq(Events) /\ wire \in [Clients -> Seq(Events)] /\ pushed \in Nat
  BY DEF TypeOK
<1>1. CASE Push
  <2>1. /\ pushed < MaxEvents /\ pushed' = pushed + 1
        /\ queue' = Append(queue, pushed + 1) /\ UNCHANGED <<wire, seen>>
    BY <1>1 DEF Push
  <2>2. Queued' = Queued \cup {pushed + 1}
    <3>1. queue \in Seq(Nat) /\ pushed + 1 \in Nat
      BY <1>0, EventSequences
    <3> QED BY <2>1, <3>1, AppendFacts DEF Queued
  <2>3. \A c \in Clients : Carried(c)' = Carried(c)
    BY <2>1 DEF Carried
  <2>4. \A c \in Clients : Coming(c)' = Coming(c) \cup {pushed + 1}
    BY <2>2, <2>3, ComingIs, ComingIsNext
  <2> QED BY <2>1, <2>4 DEF Feed!Next, Feed!Push
<1>2. ASSUME NEW c \in Clients, Yield(c) PROVE Feed!Next
  <2> DEFINE e == Head(queue)
  <2>1. /\ queue # <<>> /\ queue' = Tail(queue)
        /\ wire' = [wire EXCEPT ![c] = Append(@, e)]
        /\ UNCHANGED <<pushed, seen>>
    BY <1>2 DEF Yield
  <2>2. e \in Queued /\ Queued' = Queued \ {e} /\ e \in Nat
    BY <2>1, HeadOfQueue DEF Queued
  <2> HIDE DEF e
  <2>3. wire[c] \in Seq(Nat)
    BY <1>0, EventSequences
  <2>4. /\ Carried(c)' = Carried(c) \cup {e}
        /\ \A d \in Clients \ {c} : Carried(d)' = Carried(d)
    BY <1>0, <2>1, <2>2, <2>3, AppendFacts DEF Carried
  <2>5. \A d \in Clients : Coming(d)' \subseteq Coming(d)
    BY <2>2, <2>4, ComingIs, ComingIsNext
  <2> QED BY <2>1, <2>5, LeavesUnread DEF Feed!Next
<1>3. CASE YieldToNobody \/ Restart
  <2>1. UNCHANGED <<pushed, wire, seen>> /\ Queued' \subseteq Queued
    <3>1. CASE YieldToNobody
      BY <3>1, HeadOfQueue DEF YieldToNobody, Queued
    <3>2. CASE Restart
      BY <3>2, EmptyFacts DEF Restart, Queued
    <3> QED BY <1>3, <3>1, <3>2
  <2>2. \A c \in Clients : Carried(c)' = Carried(c)
    BY <2>1 DEF Carried
  <2>3. \A c \in Clients : Coming(c)' \subseteq Coming(c)
    BY <2>1, <2>2, ComingIs, ComingIsNext
  <2> QED BY <2>1, <2>3, LeavesUnread DEF Feed!Next
<1>4. ASSUME NEW c \in Clients, Breaks(c) \/ Unmount(c) PROVE Feed!Next
  <2>1. wire' = [wire EXCEPT ![c] = <<>>] /\ UNCHANGED <<pushed, queue, seen>>
    BY <1>4 DEF Breaks, Unmount, Disconnect
  <2>2. /\ Queued' = Queued
        /\ \A d \in Clients : Carried(d)' \subseteq Carried(d)
    BY <1>0, <2>1, EmptyFacts DEF Carried, Queued
  <2>3. \A d \in Clients : Coming(d)' \subseteq Coming(d)
    BY <2>2, ComingIs, ComingIsNext
  <2> QED BY <2>1, <2>3, LeavesUnread DEF Feed!Next
<1>5. ASSUME NEW c \in Clients, Receive(c) PROVE Feed!Next
  <2>1. Feed!Deliver(c, Head(wire[c])) /\ Head(wire[c]) \in Coming(c)
    BY <1>5, ReceiveDelivers
  <2> HIDE DEF Coming
  <2> QED BY <2>1 DEF Feed!Next
<1>6. CASE \/ Cancelled
           \/ \E c \in Clients :
                 Serve(c) \/ Mount(c) \/ Opens(c) \/ Reconnect(c) \/ Clear(c)
           \/ UNCHANGED vars
  <2>1. UNCHANGED <<pushed, queue, wire, seen>>
    BY <1>6 DEF Cancelled, Serve, Mount, Opens, Reconnect, Clear, vars, server
  <2> QED BY <2>1 DEF Feed!vars, Coming
<1> QED
  BY <1>1, <1>2, <1>3, <1>4, <1>5, <1>6 DEF Next, Server, Client

\* Queue, generators and pages implement EventFeed: Receive is its Deliver, and an
\* event that another page takes or that goes with a wire or the server its Miss.
THEOREM FeedImplemented == Spec => FeedSpec
<1>1. Init => Feed!Init
  <2> SUFFICES ASSUME Init PROVE Feed!Init
    OBVIOUS
  <2>1. \A c \in Clients : Coming(c) = {}
    BY EmptyFacts DEF Init, Coming
  <2> QED BY <2>1 DEF Init, Feed!Init
<1>2. StreamInv /\ [Next]_vars => [Feed!Next]_(Feed!vars)
  BY StepFeed DEF StreamInv
<1> QED BY <1>1, <1>2, StreamSafety, PTL DEF Spec, FeedSpec, Feed!Spec
-----------------------------------------------------------------------------
(* Reconnects come to an end.                                              *)

StatusRank == [error |-> 2, connecting |-> 1, open |-> 1, failed |-> 0, idle |-> 0]

\* What a page has ahead of it between two connections: retries, and this attempt.
Left(c) == <<MaxRetries - retries[c], StatusRank[status[c]]>>
Lefts == [1 .. 2 -> Nat]

LEMMA LeftType == TypeOK => \A c \in Clients : Left(c) \in Lefts
<1> SUFFICES ASSUME TypeOK, NEW c \in Clients PROVE Left(c) \in Lefts
  OBVIOUS
<1>1. MaxRetries - retries[c] \in Nat /\ StatusRank[status[c]] \in Nat
  BY StreamAssumption DEF TypeOK, StatusRank
<1> QED BY <1>1 DEF Left, Lefts

LEMMA LeftTypeNext == TypeOK' => (\A c \in Clients : Left(c) \in Lefts)'
  BY LeftType, PTL

LEMMA PageGoesDown ==
    ASSUME TypeOK, TypeOK', NEW c \in Clients,
           \/ retries'[c] = retries[c] + 1
           \/ /\ retries'[c] = retries[c]
              /\ StatusRank[status'[c]] < StatusRank[status[c]]
    PROVE  <<Left(c)', Left(c)>> \in LexOrder(2)
<1> DEFINE f == Left(c)'
           g == Left(c)
<1>1. f \in [1 .. 2 -> Nat] /\ g \in [1 .. 2 -> Nat]
  BY LeftType, LeftTypeNext DEF Lefts
<1>2. /\ f[1] = MaxRetries - retries'[c] /\ f[2] = StatusRank[status'[c]]
      /\ g[1] = MaxRetries - retries[c] /\ g[2] = StatusRank[status[c]]
      /\ retries[c] \in Nat /\ MaxRetries \in Nat
  BY StreamAssumption DEF Left, TypeOK
<1> HIDE DEF f, g
<1>3. \E j \in 1 .. 2 : f[j] < g[j] /\ \A i \in 1 .. 2 : i < j => f[i] = g[i]
  <2>1. CASE retries'[c] = retries[c] + 1
    <3>1. f[1] < g[1] /\ \A i \in 1 .. 2 : i < 1 => f[i] = g[i]
      BY <1>2, <2>1
    <3> QED BY <3>1
  <2>2. CASE retries'[c] = retries[c] /\ StatusRank[status'[c]] < StatusRank[status[c]]
    <3>1. f[2] < g[2] /\ \A i \in 1 .. 2 : i < 2 => f[i] = g[i]
      BY <1>2, <2>2
    <3> QED BY <3>1
  <2> QED BY <2>1, <2>2
<1> QED BY <1>1, <1>3, GoesDown DEF f, g

\* The safety core of RetriesEnd: what onerror and connect of sse.js do for a
\* page uses up its retries, in an order in which nothing goes down for ever, until a
\* connection opens, it gives up, or the page is left; and what other pages and the
\* server do changes neither its status nor its retries.
THEOREM RetriesRunOut ==
    /\ IsWellFoundedOn(LexOrder(2), Lefts)
    /\ Spec => [](\A c \in Clients : Left(c) \in Lefts)
    /\ Spec => [][\A c \in Clients :
                     \/ Left(c)' = Left(c) /\ status'[c] = status[c]
                     \/ <<Left(c)', Left(c)>> \in LexOrder(2)
                     \/ Opens(c) \/ Mount(c) \/ Unmount(c)]_vars
<1>1. StreamInv /\ StreamInv' /\ [Next]_vars =>
         [\A c \in Clients :
             \/ Left(c)' = Left(c) /\ status'[c] = status[c]
             \/ <<Left(c)', Left(c)>> \in LexOrder(2)
             \/ Opens(c) \/ Mount(c) \/ Unmount(c)]_vars
  <2> SUFFICES ASSUME TypeOK, TypeOK', ConnectionAccounted, [Next]_vars, NEW c \in Clients,
                      ~(Opens(c) \/ Mount(c) \/ Unmount(c))
               PROVE  \/ Left(c)' = Left(c) /\ status'[c] = status[c]
                      \/ <<Left(c)', Left(c)>> \in LexOrder(2)
    BY DEF StreamInv
  <2>0. retries \in [Clients -> 0 .. MaxRetries] /\ DOMAIN status = Clients
    BY DEF TypeOK
  <2>1. CASE Breaks(c)
    <3>1. CASE retries[c] >= MaxRetries
      <4>1. status'[c] = "failed" /\ retries' = retries
        BY <2>0, <2>1, <3>1 DEF Breaks, Retry
      <4>2. status[c] \in {"connecting", "open"}
        BY <2>1 DEF Breaks, ConnectionAccounted, TypeOK
      <4> QED BY <4>1, <4>2, PageGoesDown DEF StatusRank
    <3>2. CASE ~(retries[c] >= MaxRetries)
      <4>1. retries'[c] = retries[c] + 1
        BY <2>0, <2>1, <3>2 DEF Breaks, Retry
      <4> QED BY <4>1, PageGoesDown
    <3> QED BY <3>1, <3>2
  <2>2. CASE Reconnect(c)
    <3>1. status[c] = "error" /\ status'[c] = "connecting" /\ retries' = retries
      BY <2>0, <2>2 DEF Reconnect, ConnectionAccounted
    <3> QED BY <3>1, PageGoesDown DEF StatusRank
  <2>3. ASSUME retries'[c] = retries[c], status'[c] = status[c]
        PROVE  Left(c)' = Left(c) /\ status'[c] = status[c]
    BY <2>3 DEF Left
  <2>4. CASE Serve(c) \/ Yield(c) \/ Receive(c) \/ Clear(c)
    BY <2>3, <2>4 DEF Serve, Yield, Receive, Clear, page
  <2>5. ASSUME NEW d \in Clients \ {c}, Client(d)
        PROVE  Left(c)' = Left(c) /\ status'[c] = status[c]
    <3>1. CASE Breaks(d)
      BY <2>0, <2>3, <3>1 DEF Breaks, Retry
    <3>2. CASE Mount(d) \/ Opens(d) \/ Reconnect(d) \/ Unmount(d)
      BY <2>0, <2>3, <3>2 DEF Mount, Opens, Reconnect, Unmount
    <3>3. CASE Serve(d) \/ Yield(d) \/ Receive(d) \/ Clear(d)
      BY <2>3, <3>3 DEF Serve, Yield, Receive, Clear, page
    <3> QED BY <2>5, <3>1, <3>2, <3>3 DEF Client
  <2>6. CASE Server \/ UNCHANGED vars
    BY <2>3, <2>6 DEF Server, Push, YieldToNobody, Cancelled, Restart, vars, page
  <2> QED BY <2>1, <2>2, <2>4, <2>5, <2>6 DEF Next, Client
<1>2. IsWellFoundedOn(LexOrder(2), Lefts)
  BY LexWellFounded DEF Lefts
<1>3. Spec => [](\A c \in Clients : Left(c) \in Lefts)
  <2>1. StreamInv => \A c \in Clients : Left(c) \in Lefts
    BY LeftType DEF StreamInv
  <2> QED BY <2>1, StreamSafety, PTL
<1>4. Spec => [][\A c \in Clients :
                   \/ Left(c)' = Left(c) /\ status'[c] = status[c]
                   \/ <<Left(c)', Left(c)>> \in LexOrder(2)
                   \/ Opens(c) \/ Mount(c) \/ Unmount(c)]_vars
  BY <1>1, StreamSafety, PTL DEF Spec
<1> QED BY <1>2, <1>3, <1>4
=============================================================================
