------------------------ MODULE MessageWindowProofs --------------------------
(***************************************************************************)
(* What the LLM is given of its conversation, proved for histories of any  *)
(* length, rounds of any size and any keep_recent.                         *)
(***************************************************************************)
EXTENDS MessageWindow, SequenceTheorems, FiniteSetTheorems, NaturalsInduction, TLAPS

-----------------------------------------------------------------------------
(* The inductive invariant: the shape of a history.                        *)

Messages == [role: {"user", "assistant", "tool"}, round: Nat]
Last == Len(messages)

\* The ticket, then rounds of a request and its results.
HistoryTypes ==
    /\ messages \in Seq(Messages)
    /\ Last \in Nat \ {0}
    /\ messages[1] = Message("user", 0)
    /\ \A p \in 2 .. Last : messages[p].role # "user"
    /\ Last > 1 => messages[Last].role = "tool"

ResultsFollowRequest ==
    \A p \in 1 .. Last :
        messages[p].role = "tool" =>
            \E q \in 1 .. p - 1 :
                /\ messages[q] = Message("assistant", messages[p].round)
                /\ \A r \in q + 1 .. p : messages[r] = messages[p]

RoundsInOrder ==
    \A p, q \in 1 .. Last :
        p < q =>
            /\ messages[p].round <= messages[q].round
            /\ messages[q].role = "assistant" => messages[p].round < messages[q].round

HistoryInv == HistoryTypes /\ ResultsFollowRequest /\ RoundsInOrder

LEMMA InitHistory == Init => HistoryInv
<1> SUFFICES ASSUME Init PROVE HistoryInv
  OBVIOUS
<1>1. /\ messages = <<Message("user", 0)>> /\ Message("user", 0) \in Messages
      /\ Message("user", 0).role = "user"
  BY DEF Init, Message, Messages
<1>2. messages \in Seq(Messages) /\ Last = 1 /\ messages[1] = Message("user", 0)
  BY <1>1 DEF Last
<1> QED
  BY <1>1, <1>2 DEF HistoryInv, HistoryTypes, ResultsFollowRequest, RoundsInOrder

\* A round goes to the end.
LEMMA StepShape ==
    ASSUME HistoryTypes, NEW n \in 1 .. MaxParallel, Step(n)
    PROVE  /\ messages' \in Seq(Messages)
           /\ Rounds \in Nat
           /\ Last' = Last + 1 + n
           /\ \A i \in 1 .. Last : messages'[i] = messages[i]
           /\ messages'[Last + 1] = Message("assistant", Rounds + 1)
           /\ \A i \in Last + 2 .. Last' : messages'[i] = Message("tool", Rounds + 1)
<1> DEFINE round == Rounds + 1
           asked == Append(messages, Message("assistant", round))
           results == [i \in 1 .. n |-> Message("tool", round)]
<1>1. messages' = asked \o results
  BY DEF Step
<1>2. Rounds \in Nat /\ n \in Nat /\ Last \in Nat
  <2>1. messages \in Seq(Messages) /\ Last \in Nat \ {0} /\ Last = Len(messages)
    BY DEF HistoryTypes, Last
  <2>2. messages[Last] \in Messages
    BY <2>1
  <2>3. Rounds \in Nat
    BY <2>2 DEF Rounds, Last, Messages
  <2> QED BY <2>1, <2>3, WindowAssumption
<1>3. Message("assistant", round) \in Messages /\ Message("tool", round) \in Messages
  BY <1>2 DEF Message, Messages
<1>4. /\ asked \in Seq(Messages) /\ Len(asked) = Last + 1
      /\ \A i \in 1 .. Last : asked[i] = messages[i]
      /\ asked[Last + 1] = Message("assistant", round)
  BY <1>3, AppendProperties DEF HistoryTypes, Last
<1> HIDE DEF asked, round
<1>5. results \in Seq(Messages) /\ Len(results) = n
  BY <1>2, <1>3, SeqDef
<1>6. \A i \in 1 .. n : results[i] = Message("tool", round)
  OBVIOUS
<1> HIDE DEF results
<1>7. /\ messages' \in Seq(Messages) /\ Len(messages') = Last + 1 + n
      /\ \A i \in 1 .. Last + 1 + n :
            messages'[i] = IF i <= Last + 1 THEN asked[i] ELSE results[i - (Last + 1)]
  <2>1. /\ asked \o results \in Seq(Messages)
        /\ Len(asked \o results) = Len(asked) + Len(results)
        /\ \A i \in 1 .. Len(asked) + Len(results) :
              (asked \o results)[i] =
                  IF i <= Len(asked) THEN asked[i] ELSE results[i - Len(asked)]
    BY <1>4, <1>5, ConcatProperties
  <2>2. Len(asked) + Len(results) = Last + 1 + n
    BY <1>4, <1>5
  <2> QED BY <1>1, <1>4, <2>1, <2>2
<1>8. Last' = Last + 1 + n
  BY <1>7 DEF Last
<1>9. \A i \in Last + 2 .. Last' : messages'[i] = Message("tool", round)
  <2> SUFFICES ASSUME NEW i \in Last + 2 .. Last'
               PROVE  messages'[i] = Message("tool", round)
    OBVIOUS
  <2>1. i - (Last + 1) \in 1 .. n /\ i \in 1 .. Last + 1 + n /\ ~(i <= Last + 1)
    BY <1>2, <1>8
  <2> QED BY <1>6, <1>7, <2>1
<1>10. /\ \A i \in 1 .. Last : messages'[i] = messages[i]
       /\ messages'[Last + 1] = Message("assistant", round)
  BY <1>2, <1>4, <1>7
<1> QED BY <1>2, <1>7, <1>8, <1>9, <1>10 DEF round

LEMMA StepHistory ==
    ASSUME HistoryInv, NEW n \in 1 .. MaxParallel, Step(n)
    PROVE  HistoryInv'
<1>1. /\ messages' \in Seq(Messages) /\ messages \in Seq(Messages)
      /\ Rounds \in Nat /\ Last \in Nat \ {0} /\ n \in Nat \ {0}
      /\ Last' = Last + 1 + n
      /\ \A i \in 1 .. Last : messages'[i] = messages[i]
      /\ messages'[Last + 1] = Message("assistant", Rounds + 1)
      /\ \A i \in Last + 2 .. Last' : messages'[i] = Message("tool", Rounds + 1)
  BY StepShape, WindowAssumption DEF HistoryInv, HistoryTypes
<1>2. \A i \in 1 .. Last : messages[i].round \in Nat /\ messages[i].round <= Rounds
  <2> SUFFICES ASSUME NEW i \in 1 .. Last
               PROVE  messages[i].round \in Nat /\ messages[i].round <= Rounds
    OBVIOUS
  <2>1. Last \in 1 .. Last /\ Rounds = messages[Last].round
    BY <1>1 DEF Rounds, Last
  <2>2. messages[i] \in Messages
    BY <1>1 DEF Last
  <2>3. messages[i].round \in Nat
    BY <2>2 DEF Messages
  <2>4. i < Last => messages[i].round <= messages[Last].round
    BY <2>1 DEF HistoryInv, RoundsInOrder
  <2> QED BY <1>1, <2>1, <2>3, <2>4
<1>3. \A role, round : Message(role, round).role = role /\ Message(role, round).round = round
  BY DEF Message
<1>4. HistoryTypes'
  <2>1. Last' \in Nat \ {0} /\ Last' > 1
    BY <1>1
  <2>2. messages'[1] = Message("user", 0)
    BY <1>1 DEF HistoryInv, HistoryTypes
  <2>3. ASSUME NEW p \in 2 .. Last' PROVE messages'[p].role # "user"
    <3>1. CASE p \in 2 .. Last
      BY <1>1, <3>1 DEF HistoryInv, HistoryTypes
    <3>2. CASE p = Last + 1
      BY <1>1, <1>3, <3>2
    <3>3. CASE p \in Last + 2 .. Last'
      BY <1>1, <1>3, <3>3
    <3> QED BY <1>1, <3>1, <3>2, <3>3
  <2>4. messages'[Last'].role = "tool"
    <3>1. Last' \in Last + 2 .. Last'
      BY <1>1
    <3> QED BY <1>1, <1>3, <3>1
  <2> QED BY <1>1, <2>1, <2>2, <2>3, <2>4 DEF HistoryTypes
<1>5. ResultsFollowRequest'
  <2> SUFFICES ASSUME NEW p \in 1 .. Last', messages'[p].role = "tool"
               PROVE  \E q \in 1 .. p - 1 :
                         /\ messages'[q] = Message("assistant", messages'[p].round)
                         /\ \A r \in q + 1 .. p : messages'[r] = messages'[p]
    BY DEF ResultsFollowRequest
  <2>1. CASE p \in 1 .. Last
    <3>1. PICK q \in 1 .. p - 1 :
                  /\ messages[q] = Message("assistant", messages[p].round)
                  /\ \A r \in q + 1 .. p : messages[r] = messages[p]
      BY <1>1, <2>1 DEF HistoryInv, ResultsFollowRequest
    <3> QED BY <1>1, <2>1, <3>1
  <2>2. CASE p \notin 1 .. Last
    <3>1. p \in Last + 2 .. Last' /\ Last + 1 \in 1 .. p - 1
      BY <1>1, <1>3, <2>2
    <3>2. messages'[p] = Message("tool", Rounds + 1)
      BY <1>1, <3>1
    <3>3. \A r \in Last + 1 + 1 .. p : messages'[r] = messages'[p]
      BY <1>1, <3>1, <3>2
    <3> QED BY <1>1, <1>3, <3>1, <3>2, <3>3
  <2> QED BY <2>1, <2>2
<1>6. RoundsInOrder'
  <2>1. \A i \in Last + 1 .. Last' :
           /\ messages'[i].round = Rounds + 1
           /\ messages'[i].role = "assistant" => i = Last + 1
    <3> SUFFICES ASSUME NEW i \in Last + 1 .. Last'
                 PROVE  /\ messages'[i].round = Rounds + 1
                        /\ messages'[i].role = "assistant" => i = Last + 1
      OBVIOUS
    <3>1. i = Last + 1 \/ i \in Last + 2 .. Last'
      BY <1>1
    <3>2. CASE i = Last + 1
      BY <1>1, <1>3, <3>2
    <3>3. CASE i \in Last + 2 .. Last'
      BY <1>1, <1>3, <3>3
    <3> QED BY <3>1, <3>2, <3>3
  <2>2. ASSUME NEW p \in 1 .. Last', NEW q \in 1 .. Last', p < q
        PROVE  /\ messages'[p].round <= messages'[q].round
               /\ messages'[q].role = "assistant" =>
                     messages'[p].round < messages'[q].round
    <3>1. CASE q \in 1 .. Last
      <4>1. p \in 1 .. Last /\ messages'[p] = messages[p] /\ messages'[q] = messages[q]
        BY <1>1, <2>2, <3>1
      <4> QED BY <2>2, <3>1, <4>1 DEF HistoryInv, RoundsInOrder
    <3>2. CASE q \notin 1 .. Last /\ p \in 1 .. Last
      <4>1. q \in Last + 1 .. Last'
        BY <1>1, <3>2
      <4>2. messages'[q].round = Rounds + 1 /\ messages'[p] = messages[p]
        BY <1>1, <2>1, <3>2, <4>1
      <4>3. messages[p].round \in Nat /\ messages[p].round <= Rounds
        BY <1>2, <3>2
      <4> QED BY <1>1, <4>2, <4>3
    <3>3. CASE p \notin 1 .. Last
      <4>1. p \in Last + 1 .. Last' /\ q \in Last + 1 .. Last' /\ q # Last + 1
        BY <1>1, <2>2, <3>3
      <4>2. messages'[p].round = Rounds + 1 /\ messages'[q].round = Rounds + 1
        BY <2>1, <4>1
      <4>3. messages'[q].role # "assistant"
        BY <2>1, <4>1
      <4> QED BY <1>1, <4>2, <4>3
    <3> QED BY <3>1, <3>2, <3>3
  <2> QED BY <2>2 DEF RoundsInOrder
<1> QED BY <1>4, <1>5, <1>6 DEF HistoryInv

-----------------------------------------------------------------------------
(* The cut and the view.                                                   *)

LEMMA LeastOf ==
    ASSUME NEW S \in SUBSET Nat, S # {}
    PROVE  Min(S) \in S /\ \A x \in S : Min(S) <= x
<1>1. \E m \in S : \A x \in S : m <= x
  <2>1. PICK m \in S : \A x \in S : ~(<<x, m>> \in OpToRel(<, Nat))
    BY NatLessThanWellFounded, WFMin
  <2>2. \A x \in S : ~(x < m)
    BY <2>1 DEF OpToRel
  <2> QED BY <2>2
<1> QED BY <1>1 DEF Min

LEMMA CutFacts ==
    ASSUME HistoryInv, ~(Last <= 1 + KeepRecent)
    PROVE  /\ Cut(messages) \in Last - KeepRecent + 1 .. Last + 1
           /\ Cut(messages) <= Last => messages[Cut(messages)].role # "tool"
           /\ \A p \in Last - KeepRecent + 1 .. Last :
                 messages[p].role # "tool" => Cut(messages) <= p
<1> DEFINE recent == Last - KeepRecent + 1 .. Last
           S == {p \in recent : messages[p].role # "tool"} \cup {Last + 1}
<1>1. Last \in Nat /\ KeepRecent \in Nat
  BY WindowAssumption DEF HistoryInv, HistoryTypes
<1>2. S \in SUBSET Nat /\ S # {}
  BY <1>1
<1>3. Cut(messages) = Min(S)
  BY DEF Cut, Last
<1>4. Cut(messages) \in S /\ \A x \in S : Cut(messages) <= x
  BY <1>2, <1>3, LeastOf
<1> QED BY <1>1, <1>4

\* The view v is the ticket and what follows the first k + 1 messages; nothing is
\* cut off or the rest starts with a request.
View(v, k) ==
    /\ v \in Seq(Messages) /\ k \in Nat
    /\ Len(v) \in Nat \ {0} /\ Len(v) <= 1 + KeepRecent /\ Len(v) + k = Last
    /\ v[1] = messages[1]
    /\ \A p \in 2 .. Len(v) : v[p] = messages[p + k]
    /\ k > 0 /\ Len(v) > 1 => v[2].role # "tool"
    /\ \A p \in 2 .. Last :
          p > Last - KeepRecent /\ messages[p].role # "tool" => p > k + 1

LEMMA ViewOfHistory == HistoryInv => \E k \in Nat : View(Truncated(messages), k)
<1> SUFFICES ASSUME HistoryInv PROVE \E k \in Nat : View(Truncated(messages), k)
  OBVIOUS
<1>1. /\ messages \in Seq(Messages) /\ Last \in Nat \ {0} /\ Last = Len(messages)
      /\ KeepRecent \in Nat \ {0} /\ messages[1] \in Messages
  BY WindowAssumption DEF HistoryInv, HistoryTypes, Last
<1>2. CASE Last <= 1 + KeepRecent
  <2>1. Truncated(messages) = messages
    BY <1>1, <1>2 DEF Truncated
  <2>2. View(messages, 0)
    BY <1>1, <1>2 DEF View
  <2> QED BY <2>1, <2>2
<1>3. CASE ~(Last <= 1 + KeepRecent)
  <2> DEFINE cut == Cut(messages)
             tail == SubSeq(messages, cut, Last)
             k == cut - 2
  <2>1. /\ cut \in Last - KeepRecent + 1 .. Last + 1
        /\ cut <= Last => messages[cut].role # "tool"
        /\ \A p \in Last - KeepRecent + 1 .. Last :
              messages[p].role # "tool" => cut <= p
    BY <1>3, CutFacts
  <2>2. Truncated(messages) = <<messages[1]>> \o tail
    BY <1>1, <1>3 DEF Truncated
  <2> HIDE DEF cut
  <2>3. cut \in 3 .. Last + 1 /\ k \in Nat \ {0}
    BY <1>1, <1>3, <2>1
  <2>4. \A i \in cut .. Last : messages[i] \in Messages
    BY <1>1, <2>3
  <2>5. /\ tail \in Seq(Messages)
        /\ Len(tail) = IF cut <= Last THEN Last - cut + 1 ELSE 0
        /\ \A i \in 1 .. Last - cut + 1 : tail[i] = messages[cut + i - 1]
    BY <1>1, <2>3, <2>4, SubSeqProperties
  <2>6. Len(tail) = Last - cut + 1 /\ Len(tail) \in Nat
    BY <1>1, <2>3, <2>5
  <2> HIDE DEF tail
  <2> DEFINE v == <<messages[1]>> \o tail
  <2>7. /\ v \in Seq(Messages) /\ Len(v) = 1 + Len(tail) /\ v[1] = messages[1]
        /\ \A p \in 2 .. Len(v) : v[p] = tail[p - 1]
    BY <1>1, <2>5, <2>6
  <2> HIDE DEF v
  <2>8. ASSUME NEW p \in 2 .. Len(v) PROVE v[p] = messages[p + k]
    <3>1. p - 1 \in 1 .. Last - cut + 1 /\ cut + (p - 1) - 1 = p + k
      BY <1>1, <2>3, <2>6, <2>7
    <3> QED BY <2>5, <2>7, <3>1
  <2>9. /\ Len(v) \in Nat \ {0} /\ Len(v) <= 1 + KeepRecent /\ Len(v) + k = Last
    BY <1>1, <2>1, <2>3, <2>6, <2>7
  <2>10. Len(v) > 1 => v[2].role # "tool"
    <3>1. SUFFICES ASSUME Len(v) > 1 PROVE v[2].role # "tool"
      OBVIOUS
    <3>2. 2 \in 2 .. Len(v) /\ 2 + k = cut /\ cut <= Last
      BY <1>1, <2>3, <2>6, <2>7, <3>1
    <3> QED BY <2>1, <2>8, <3>2
  <2>11. ASSUME NEW p \in 2 .. Last, p > Last - KeepRecent, messages[p].role # "tool"
         PROVE  p > k + 1
    <3>1. p \in Last - KeepRecent + 1 .. Last
      BY <1>1, <2>11
    <3>2. cut <= p
      BY <2>1, <2>11, <3>1
    <3> QED BY <2>3, <3>2
  <2>12. View(v, k)
    BY <2>3, <2>7, <2>8, <2>9, <2>10, <2>11 DEF View
  <2> QED BY <2>2, <2>3, <2>12 DEF v
<1> QED BY <1>2, <1>3

-----------------------------------------------------------------------------
(* What holds of a view.                                                   *)

\* A step takes its view from the history before it.
LEMMA StepView ==
    ASSUME HistoryInv, NEW n \in 1 .. MaxParallel, Step(n)
    PROVE  \E k \in Nat : View(view', k)
BY ViewOfHistory DEF Step

LEMMA ViewNoOrphan ==
    ASSUME HistoryInv, NEW n \in 1 .. MaxParallel, Step(n)
    PROVE  NoOrphanResult'
<1>1. PICK k \in Nat : View(view', k)
  BY StepView
<1>2. /\ Len(view') \in Nat \ {0} /\ Len(view') + k = Last /\ Last \in Nat
      /\ view'[1] = messages[1] /\ messages[1] = Message("user", 0)
      /\ \A i \in 2 .. Len(view') : view'[i] = messages[i + k]
      /\ k > 0 /\ Len(view') > 1 => view'[2].role # "tool"
  BY <1>1 DEF View, HistoryInv, HistoryTypes
<1>3. \A role, round : Message(role, round).role = role
  BY DEF Message
<1>4. SUFFICES ASSUME NEW p \in 1 .. Len(view'), view'[p].role = "tool"
               PROVE  \E q \in 1 .. p - 1 :
                         /\ view'[q] = Message("assistant", view'[p].round)
                         /\ \A r \in q + 1 .. p : view'[r] = view'[p]
  BY DEF NoOrphanResult, Positions
<1>5. p \in 2 .. Len(view') /\ p + k \in 1 .. Last /\ view'[p] = messages[p + k]
  BY <1>2, <1>3, <1>4
<1>6. PICK q \in 1 .. p + k - 1 :
              /\ messages[q] = Message("assistant", messages[p + k].round)
              /\ \A r \in q + 1 .. p + k : messages[r] = messages[p + k]
  BY <1>4, <1>5 DEF HistoryInv, ResultsFollowRequest
<1>7. q # 1
  BY <1>2, <1>3, <1>6
<1>8. q >= k + 2
  <2> SUFFICES ASSUME q <= k + 1 PROVE FALSE
    BY <1>2, <1>6
  <2>1. 2 + k \in q + 1 .. p + k /\ k > 0 /\ Len(view') > 1 /\ 2 \in 2 .. Len(view')
    BY <1>2, <1>5, <1>6, <1>7
  <2>2. view'[2] = messages[2 + k] /\ messages[2 + k] = messages[p + k]
    BY <1>2, <1>6, <2>1
  <2> QED BY <1>2, <1>4, <1>5, <2>1, <2>2
<1>9. q - k \in 2 .. p - 1 /\ q - k \in 2 .. Len(view') /\ q - k + k = q
  BY <1>2, <1>5, <1>6, <1>8
<1>10. view'[q - k] = Message("assistant", view'[p].round)
  BY <1>2, <1>5, <1>6, <1>9
<1>11. ASSUME NEW r \in q - k + 1 .. p PROVE view'[r] = view'[p]
  <2>1. r + k \in q + 1 .. p + k /\ r \in 2 .. Len(view')
    BY <1>2, <1>5, <1>6, <1>9
  <2> QED BY <1>2, <1>5, <1>6, <2>1
<1> QED BY <1>9, <1>10, <1>11

\* Shifting by k maps the results of a round in the view to those in the history.
LEMMA ViewAnswered ==
    ASSUME HistoryInv, NEW n \in 1 .. MaxParallel, Step(n)
    PROVE  NoUnansweredRequest'
<1>1. PICK k \in Nat : View(view', k)
  BY StepView
<1>2. /\ Len(view') \in Nat \ {0} /\ Len(view') + k = Last /\ Last \in Nat
      /\ view'[1] = messages[1] /\ messages[1] = Message("user", 0)
      /\ \A i \in 2 .. Len(view') : view'[i] = messages[i + k]
  BY <1>1 DEF View, HistoryInv, HistoryTypes
<1>3. \A role, round : Message(role, round).role = role /\ Message(role, round).round = round
  BY DEF Message
<1>4. /\ Last' = Last + 1 + n /\ n \in Nat /\ Rounds \in Nat
      /\ \A i \in 1 .. Last : messages'[i] = messages[i]
      /\ messages'[Last + 1] = Message("assistant", Rounds + 1)
      /\ \A i \in Last + 2 .. Last' : messages'[i] = Message("tool", Rounds + 1)
  BY StepShape, WindowAssumption DEF HistoryInv
<1> SUFFICES ASSUME NEW p \in 1 .. Len(view'), view'[p].role = "assistant"
             PROVE  Cardinality({q \in 1 .. Len(view') :
                                    view'[q] = Message("tool", view'[p].round)})
                      = Cardinality({q \in 1 .. Last' :
                                        messages'[q] = Message("tool", view'[p].round)})
  BY DEF NoUnansweredRequest, Positions, Last
<1> DEFINE round == view'[p].round
           inView == {q \in 1 .. Len(view') : view'[q] = Message("tool", round)}
           inHistory == {q \in 1 .. Last' : messages'[q] = Message("tool", round)}
           shift == [q \in inView |-> q + k]
<1>5. p \in 2 .. Len(view') /\ p + k \in 2 .. Last /\ view'[p] = messages[p + k]
  BY <1>2, <1>3
<1>6. round \in Nat /\ round <= Rounds
  <2>1. messages \in Seq(Messages) /\ Last = Len(messages) /\ Last \in 1 .. Last
    BY <1>2, <1>5 DEF HistoryInv, HistoryTypes, Last
  <2>2. messages[p + k] \in Messages
    BY <1>5, <2>1
  <2>3. messages[p + k].round \in Nat
    BY <2>2 DEF Messages
  <2>4. p + k < Last => messages[p + k].round <= messages[Last].round
    BY <1>5, <2>1 DEF HistoryInv, RoundsInOrder
  <2>5. messages[Last].round = Rounds
    BY <2>1 DEF Rounds
  <2>6. round = messages[p + k].round
    BY <1>5
  <2>7. p + k <= Last /\ p + k \in Nat
    BY <1>2, <1>5
  <2>8. CASE p + k = Last
    BY <1>4, <2>3, <2>5, <2>6, <2>8
  <2>9. CASE p + k < Last
    BY <1>4, <2>3, <2>4, <2>5, <2>6, <2>9
  <2> HIDE DEF round
  <2> QED BY <1>2, <2>7, <2>8, <2>9
<1>7. ASSUME NEW q \in inView PROVE q + k \in inHistory
  <2>1. q \in 2 .. Len(view')
    BY <1>2, <1>3
  <2>2. q + k \in 1 .. Last /\ q + k \in 1 .. Last' /\ messages'[q + k] = view'[q]
    BY <1>2, <1>4, <2>1
  <2> QED BY <2>2
<1>8. ASSUME NEW q \in inHistory PROVE q - k \in inView
  <2>1. q \in 1 .. Last
    <3>1. CASE q \in Last + 1 .. Last'
      <4>1. messages'[q].round = Rounds + 1
        <5>1. q = Last + 1 \/ q \in Last + 2 .. Last'
          BY <1>2, <1>4, <3>1
        <5>2. \/ messages'[q] = Message("assistant", Rounds + 1)
              \/ messages'[q] = Message("tool", Rounds + 1)
          BY <1>4, <5>1
        <5> QED BY <1>3, <5>2
      <4>2. messages'[q].round = round
        BY <1>3
      <4> QED BY <1>4, <1>6, <4>1, <4>2
    <3> QED BY <1>2, <1>4, <3>1
  <2>2. messages[q] = Message("tool", round)
    BY <1>4, <2>1
  <2>3. q > p + k
    <3>1. q < p + k => messages[q].round < messages[p + k].round
      BY <1>5, <2>1 DEF HistoryInv, RoundsInOrder
    <3>2. q # p + k
      BY <1>3, <1>5, <2>2
    <3>3. messages[q].round = round /\ messages[p + k].round = round
      BY <1>3, <1>5, <2>2
    <3> QED BY <1>2, <1>5, <1>6, <2>1, <3>1, <3>2, <3>3
  <2>4. q - k \in 2 .. Len(view') /\ q - k + k = q
    BY <1>2, <1>5, <2>1, <2>3
  <2> QED BY <1>2, <2>2, <2>4
<1>9. shift \in Bijection(inView, inHistory)
  <2>1. shift \in [inView -> inHistory]
    BY <1>7
  <2>2. \A a, b \in inView : shift[a] = shift[b] => a = b
    BY <1>2
  <2>3. \A q \in inHistory : \E a \in inView : shift[a] = q
    <3> TAKE q \in inHistory
    <3>1. q - k \in inView /\ q - k + k = q
      BY <1>2, <1>4, <1>8
    <3> QED BY <3>1
  <2> HIDE DEF shift, inView, inHistory
  <2> QED BY <2>1, <2>2, <2>3 DEF Bijection, Injection, Surjection, IsInjective
<1>10. IsFiniteSet(inView)
  <2>1. 1 \in Int /\ Len(view') \in Int
    BY <1>2
  <2>2. IsFiniteSet(1 .. Len(view'))
    BY <2>1, FS_Interval
  <2>3. inView \in SUBSET (1 .. Len(view'))
    OBVIOUS
  <2> HIDE DEF inView
  <2> QED BY <2>2, <2>3, FS_Subset
<1> HIDE DEF inView, inHistory, shift
<1>11. Cardinality(inHistory) = Cardinality(inView)
  BY <1>9, <1>10, FS_Bijection DEF ExistsBijection
<1> QED BY <1>11 DEF inView, inHistory

LEMMA ViewAnchored ==
    ASSUME HistoryInv, NEW n \in 1 .. MaxParallel, Step(n)
    PROVE  AnchoredAndBounded'
BY StepView DEF View, HistoryInv, HistoryTypes, AnchoredAndBounded

LEMMA ViewRecent ==
    ASSUME HistoryInv, NEW n \in 1 .. MaxParallel, Step(n)
    PROVE  RecentStepKept'
<1>1. PICK k \in Nat : View(view', k)
  BY StepView
<1>2. /\ Len(view') \in Nat \ {0} /\ Len(view') + k = Last /\ Last \in Nat \ {0}
      /\ \A i \in 2 .. Len(view') : view'[i] = messages[i + k]
      /\ \A i \in 2 .. Last :
            i > Last - KeepRecent /\ messages[i].role # "tool" => i > k + 1
  BY <1>1 DEF View, HistoryInv, HistoryTypes
<1>3. \A role, round : Message(role, round).role = role /\ Message(role, round).round = round
  BY DEF Message
<1>4. /\ Last' = Last + 1 + n /\ n \in Nat \ {0} /\ Rounds \in Nat /\ KeepRecent \in Nat
      /\ \A i \in 1 .. Last : messages'[i] = messages[i]
      /\ \A i \in Last + 2 .. Last' : messages'[i] = Message("tool", Rounds + 1)
  BY StepShape, WindowAssumption DEF HistoryInv
<1> DEFINE results == {q \in 1 .. Last' : messages'[q] = Message("tool", Rounds)}
<1>5. Rounds' - 1 = Rounds
  <2>1. messages'[Last'] = Message("tool", Rounds + 1)
    BY <1>2, <1>4
  <2>2. Rounds' = messages'[Last'].round
    BY DEF Rounds, Last
  <2> QED BY <1>3, <1>4, <2>1, <2>2
<1> SUFFICES ASSUME Rounds > 0, Cardinality(results) < KeepRecent
             PROVE  \E p \in 1 .. Len(view') : view'[p] = Message("assistant", Rounds)
  BY <1>5 DEF RecentStepKept, Positions, Last
<1>6. messages[Last] = Message("tool", Rounds)
  <2>1. messages[Last] \in Messages /\ messages[Last].round = Rounds
    BY <1>2 DEF HistoryInv, HistoryTypes, Rounds, Last
  <2>2. Last > 1
    <3>1. messages[1].round = 0
      BY <1>3 DEF HistoryInv, HistoryTypes
    <3> QED BY <1>2, <2>1, <3>1
  <2>3. messages[Last].role = "tool"
    BY <2>2 DEF HistoryInv, HistoryTypes
  <2> QED BY <2>1, <2>3 DEF Messages, Message
<1>7. PICK s \in 1 .. Last - 1 :
              /\ messages[s] = Message("assistant", Rounds)
              /\ \A r \in s + 1 .. Last : messages[r] = messages[Last]
  <2>1. Last \in 1 .. Last /\ messages[Last].role = "tool" /\ messages[Last].round = Rounds
    BY <1>2, <1>3, <1>6
  <2> QED BY <2>1 DEF HistoryInv, ResultsFollowRequest
<1>8. s + 1 .. Last \subseteq results
  <2> SUFFICES ASSUME NEW r \in s + 1 .. Last PROVE r \in results
    OBVIOUS
  <2>1. r \in 1 .. Last /\ r \in 1 .. Last'
    BY <1>2, <1>4, <1>7
  <2> QED BY <1>4, <1>6, <1>7, <2>1
<1>9. Last - s <= Cardinality(results) /\ Cardinality(results) \in Nat
  <2>1. IsFiniteSet(results) /\ Cardinality(results) \in Nat
    <3>1. 1 \in Int /\ Last' \in Int
      BY <1>2, <1>4
    <3>2. IsFiniteSet(1 .. Last')
      BY <3>1, FS_Interval
    <3>3. results \in SUBSET (1 .. Last')
      OBVIOUS
    <3> HIDE DEF results
    <3> QED BY <3>2, <3>3, FS_Subset, FS_CardinalityType
  <2>2. s + 1 \in Int /\ Last \in Int /\ s + 1 <= Last /\ s \in Nat
    BY <1>2, <1>7
  <2>3. Cardinality(s + 1 .. Last) = IF s + 1 > Last THEN 0 ELSE Last - (s + 1) + 1
    BY <2>2, FS_Interval
  <2>4. Cardinality(s + 1 .. Last) = Last - s
    BY <2>2, <2>3
  <2> HIDE DEF results
  <2>5. Cardinality(s + 1 .. Last) <= Cardinality(results)
    BY <1>8, <2>1, FS_Subset
  <2> QED BY <2>1, <2>4, <2>5
<1>10. s > Last - KeepRecent
  <2> HIDE DEF results
  <2> QED BY <1>2, <1>4, <1>7, <1>9
<1>11. s \in 2 .. Last
  <2>1. s # 1
    BY <1>3, <1>7 DEF HistoryInv, HistoryTypes
  <2> QED BY <1>2, <1>7, <2>1
<1>12. messages[s].role # "tool"
  BY <1>3, <1>7
<1>13. s > k + 1
  BY <1>2, <1>10, <1>11, <1>12
<1>14. s - k \in 2 .. Len(view') /\ s - k + k = s
  BY <1>2, <1>11, <1>13
<1> QED BY <1>2, <1>7, <1>14

-----------------------------------------------------------------------------
(* Together.                                                               *)

WindowInv ==
    /\ HistoryInv
    /\ NoOrphanResult
    /\ NoUnansweredRequest
    /\ AnchoredAndBounded
    /\ RecentStepKept

LEMMA InitWindow == Init => WindowInv
<1> SUFFICES ASSUME Init PROVE WindowInv
  OBVIOUS
<1>1. view = <<>> /\ Len(view) = 0
  BY DEF Init
<1>2. NoOrphanResult /\ NoUnansweredRequest /\ AnchoredAndBounded /\ RecentStepKept
  BY <1>1 DEF Positions, NoOrphanResult, NoUnansweredRequest, AnchoredAndBounded,
              RecentStepKept
<1> QED BY <1>2, InitHistory DEF WindowInv

LEMMA NextWindow == WindowInv /\ [Next]_vars => WindowInv'
<1> SUFFICES ASSUME WindowInv, [Next]_vars PROVE WindowInv'
  OBVIOUS
<1>1. CASE \E n \in 1 .. MaxParallel : Step(n)
  BY <1>1, StepHistory, ViewNoOrphan, ViewAnswered, ViewAnchored, ViewRecent DEF WindowInv
<1>2. CASE UNCHANGED vars
  BY <1>2 DEF WindowInv, vars, HistoryInv, HistoryTypes, ResultsFollowRequest,
              RoundsInOrder, Last, Positions, Rounds, NoOrphanResult,
              NoUnansweredRequest, AnchoredAndBounded, RecentStepKept
<1> QED BY <1>1, <1>2 DEF Next, Finished

LEMMA WindowSafety == Spec => []WindowInv
<1> QED BY InitWindow, NextWindow, PTL DEF Spec

\* The LLM is never shown a tool result without the request it answers: the skip
\* past the results that open the recent messages (resolver.py:52-57) is enough,
\* for any keep_recent and any number of parallel tool calls.
THEOREM NoOrphans == Spec => []NoOrphanResult
<1>1. WindowInv => NoOrphanResult
  BY DEF WindowInv
<1> QED BY <1>1, WindowSafety, PTL

\* Nor a request without all of its results: _truncate_messages only ever cuts in
\* front of a request, and the loop answers every call before it asks again.
THEOREM NoUnanswered == Spec => []NoUnansweredRequest
<1>1. WindowInv => NoUnansweredRequest
  BY DEF WindowInv
<1> QED BY <1>1, WindowSafety, PTL

\* Whatever _truncate_messages drops, the ticket stays in front and the view keeps
\* to keep_recent messages more.
THEOREM AnchoredBounded == Spec => []AnchoredAndBounded
<1>1. WindowInv => AnchoredAndBounded
  BY DEF WindowInv
<1> QED BY <1>1, WindowSafety, PTL

\* The promise of resolver.py:48 for rounds of fewer than keep_recent calls: the
\* LLM sees what it did last when it is asked for its next step.
THEOREM RecentKept == Spec => []RecentStepKept
<1>1. WindowInv => RecentStepKept
  BY DEF WindowInv
<1> QED BY <1>1, WindowSafety, PTL
=============================================================================
