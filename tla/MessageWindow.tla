---------------------------- MODULE MessageWindow ----------------------------
(***************************************************************************)
(* The view of its conversation that the resolver sends to the LLM:        *)
(* _truncate_messages of backend/agent/resolver.py, over the histories its *)
(* ReAct loop builds.                                                      *)
(*                                                                         *)
(* Of a message only its role and its round matter: the response of the    *)
(* LLM it belongs to, 0 for the ticket.                                    *)
(***************************************************************************)
EXTENDS Integers, Sequences, FiniteSetsExt

CONSTANTS
    KeepRecent,   \* _truncate_messages' keep_recent
    MaxSteps,     \* settings.max_agent_steps
    MaxParallel   \* bound: tool calls in one response of the LLM

ASSUME WindowAssumption ==
    /\ KeepRecent \in Nat \ {0}
    /\ MaxSteps \in Nat
    /\ MaxParallel \in Nat \ {0}

VARIABLES
    messages,  \* the whole history
    view       \* what the last LLM call was given of it

vars == <<messages, view>>

Message(role, round) == [role |-> role, round |-> round]

\* Mutant of Cut: the last KeepRecent messages, whatever they are.
CutAnywhere(msgs) == Len(msgs) - KeepRecent + 1

\* Where the tail starts: past the tool results that open the recent messages.
Cut(msgs) ==
    LET recent == Len(msgs) - KeepRecent + 1 .. Len(msgs)
    IN  Min({p \in recent : msgs[p].role # "tool"} \cup {Len(msgs) + 1})

\* Mutants of Truncated: the newest message or the first round of the tail is
\* lost.
TruncatedAtEnd(msgs) ==
    IF Len(msgs) <= 1 + KeepRecent THEN msgs
    ELSE <<msgs[1]>> \o SubSeq(msgs, Cut(msgs), Len(msgs) - 1)

TailFromNextRound(msgs) ==
    IF Len(msgs) <= 1 + KeepRecent THEN msgs
    ELSE <<msgs[1]>> \o
         SelectSeq(SubSeq(msgs, Cut(msgs), Len(msgs)),
                   LAMBDA m : m.round > msgs[Cut(msgs)].round)

Truncated(msgs) ==
    IF Len(msgs) <= 1 + KeepRecent THEN msgs
    ELSE <<msgs[1]>> \o SubSeq(msgs, Cut(msgs), Len(msgs))

Init ==
    /\ messages = <<Message("user", 0)>>
    /\ view = <<>>

Rounds == messages[Len(messages)].round

\* chat_with_tools gets the view; its tool calls are all answered, in order,
\* by a result, a block, a loop-guard note or an unknown-tool error.
Step(n) ==
    LET round == Rounds + 1
        results == [i \in 1 .. n |-> Message("tool", round)]
    IN  /\ Rounds < MaxSteps
        /\ view' = Truncated(messages)
        /\ messages' = Append(messages, Message("assistant", round)) \o results

Finished == Rounds = MaxSteps /\ UNCHANGED vars

Next == (\E n \in 1 .. MaxParallel : Step(n)) \/ Finished

Spec == Init /\ [][Next]_vars
-----------------------------------------------------------------------------
Positions == 1 .. Len(view)

\* A provider refuses a tool result whose request is not in the conversation
\* (resolver.py:52-57): each one in the view follows the assistant message of
\* its round, with only results of that round in between.
NoOrphanResult ==
    \A p \in Positions :
        view[p].role = "tool" =>
            \E q \in 1 .. p - 1 :
                /\ view[q] = Message("assistant", view[p].round)
                /\ \A r \in q + 1 .. p : view[r] = view[p]

\* It also refuses a request without its results: a round in the view is there
\* with every result the history has for it.
NoUnansweredRequest ==
    \A p \in Positions :
        view[p].role = "assistant" =>
            LET round == view[p].round IN
            Cardinality({q \in Positions : view[q] = Message("tool", round)})
                = Cardinality({q \in 1 .. Len(messages) :
                                  messages[q] = Message("tool", round)})

\* The ticket always opens the view, and the view keeps within its budget.
AnchoredAndBounded ==
    view # <<>> => view[1] = Message("user", 0) /\ Len(view) <= 1 + KeepRecent

\* resolver.py:48, "preserving ... the most recent reasoning steps": a round of
\* fewer than KeepRecent calls is still in view when the LLM is asked again.  A
\* larger one is not: none of its messages can start the tail.
RecentStepKept ==
    LET last == Rounds - 1
        results == {q \in 1 .. Len(messages) :
                       messages[q] = Message("tool", last)}
    IN  view # <<>> /\ last > 0 /\ Cardinality(results) < KeepRecent =>
            \E p \in Positions : view[p] = Message("assistant", last)
=============================================================================
