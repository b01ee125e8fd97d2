------------------------------ MODULE LlmPool -------------------------------
(***************************************************************************)
(* The worker pool with the LLM client under it.  A pipeline asks one      *)
(* question after another: triage, the steps of the resolver, synthesis.   *)
(* The client of the configured provider (backend/llm/) sends each to the  *)
(* provider's API; groq's and openai's retry rate limits on their own,     *)
(* inside one try of the worker, which retries them again.  What an error  *)
(* counts as is up to the client, so it decides what the worker does.      *)
(***************************************************************************)
EXTENDS WorkerPool

CONSTANTS
    MaxCalls,   \* _MAX_RATE_LIMIT_RETRIES of groq_client.py, openai_client.py
    MaxSteps    \* settings.max_agent_steps

ASSUME ClientAssumption ==
    /\ MaxCalls \in Nat \ {0}
    /\ MaxSteps \in Nat \ {0}

VARIABLES
    provider,   \* settings.llm_provider, read once: the client is a singleton
    calls,      \* API calls made for the question at hand, 0 between questions
    answered,   \* questions answered in the current try of the pipeline
    worst,      \* history: the worst kind of error a ticket has met
    exhausted   \* history: tries that ended at the client's last call

clientVars == <<calls, answered>>
historyVars == <<worst, exhausted>>
llmVars == <<vars, provider, clientVars, historyVars>>

Providers == {"groq", "openai", "anthropic", "ollama"}

\* What an API call may come to, but for an answer: a 429, another error whose
\* text has "rate limit" or "429" in it, an overloaded provider, any other
\* error, or an answer whose tool arguments are no JSON.
Errors == {"rate_limit", "worded", "overloaded", "other", "bad_arguments"}

\* The clients that retry a 429 themselves.
Patient == {"groq", "openai"}

\* The errors that a client raises as LLMRateLimitError, by their class or their
\* text; all others become LLMInvalidResponseError.
GroqLimits == {"rate_limit", "worded"}
OpenAILimits == {"rate_limit", "worded"}
AnthropicLimits == {"rate_limit", "worded", "overloaded"}
OllamaLimits == {}

ReadAsLimit(e) ==
    e \in CASE provider = "groq"      -> GroqLimits
            [] provider = "openai"    -> OpenAILimits
            [] provider = "anthropic" -> AnthropicLimits
            [] provider = "ollama"    -> OllamaLimits

\* Only a resolver's step is answered with tool calls.  Ollama's client takes
\* arguments it cannot read as none; anthropic's SDK hands them over parsed.
CanMeet(t, e) ==
    e = "bad_arguments" => provider \in Patient /\ answered[t] \in 1 .. MaxSteps

LlmTypeOK ==
    /\ TypeOK
    /\ provider \in Providers
    /\ calls \in [Tickets -> 0 .. MaxCalls]
    /\ answered \in [Tickets -> 0 .. MaxSteps + 2]
    /\ \A t \in Tickets :
          stage[t] # "running" => calls[t] = 0 /\ answered[t] = 0
    /\ worst \in [Tickets -> {"nothing", "rate_limit", "limit", "final"}]
    /\ exhausted \in [Tickets -> 0 .. MaxTries]

LlmInit ==
    /\ Init
    /\ provider \in Providers
    /\ calls = [t \in Tickets |-> 0]
    /\ answered = [t \in Tickets |-> 0]
    /\ worst = [t \in Tickets |-> "nothing"]
    /\ exhausted = [t \in Tickets |-> 0]
-----------------------------------------------------------------------------
(* One question: a call, and for patient clients its repetitions.          *)

Starts(t) == Arrive(t) /\ UNCHANGED <<provider, clientVars, historyVars>>
Resumes(t) == TryAgain(t) /\ UNCHANGED <<provider, clientVars, historyVars>>

\* The pipeline goes on: triage, at least one step, synthesis.
Asks(t) ==
    /\ stage[t] = "running"
    /\ calls[t] = 0
    /\ answered[t] < MaxSteps + 2
    /\ calls' = [calls EXCEPT ![t] = 1]
    /\ UNCHANGED <<vars, provider, answered, historyVars>>

InFlight(t) == stage[t] = "running" /\ calls[t] > 0

Answered(t) ==
    /\ InFlight(t)
    /\ calls' = [calls EXCEPT ![t] = 0]
    /\ answered' = [answered EXCEPT ![t] = @ + 1]
    /\ UNCHANGED <<vars, provider, historyVars>>

\* History: the call has met error e: a 429, another error that is read as a
\* limit, or one that is not.
Meets(t, e) ==
    worst' = [worst EXCEPT ![t] =
                 CASE ~ReadAsLimit(e) -> "final"
                   [] ReadAsLimit(e) /\ e # "rate_limit" -> "limit"
                   [] ReadAsLimit(e) /\ e = "rate_limit" ->
                         IF @ = "nothing" THEN "rate_limit" ELSE @]

\* Mutant of Retries: the last attempt is not made.
RetriesOnceLess(t, e) ==
    provider \in Patient /\ e = "rate_limit" /\ calls[t] + 1 < MaxCalls

\* Mutant of Retries: one call too many.
RetriesOnceMore(t, e) ==
    provider \in Patient /\ e = "rate_limit" /\ calls[t] <= MaxCalls

\* Whether the client is to repeat a call that met error e.
Retries(t, e) ==
    provider \in Patient /\ e = "rate_limit" /\ calls[t] < MaxCalls

\* The client sleeps and calls again, with the worker's slot held.
CallsAgain(t) ==
    /\ InFlight(t)
    /\ \E e \in Errors : Retries(t, e) /\ Meets(t, e)
    /\ calls' = [calls EXCEPT ![t] = @ + 1]
    /\ UNCHANGED <<vars, provider, answered, exhausted>>
-----------------------------------------------------------------------------
(* What the worker makes of it.                                            *)

\* The pipeline's state is gone with its try.
Forgets(t) ==
    /\ calls' = [calls EXCEPT ![t] = 0]
    /\ answered' = [answered EXCEPT ![t] = 0]
    /\ UNCHANGED provider

GivesUp(t) == Fails(t) \/ CannotReport(t)

\* LLMRateLimitError: another try of the pipeline, while there is one.
AfterLimit(t) == RateLimited(t) \/ (tries[t] = MaxTries /\ GivesUp(t))

\* History: a try has ended in an error, at this call of its question.
TryEnds(t) ==
    exhausted' = [exhausted EXCEPT ![t] = IF calls[t] = MaxCalls THEN @ + 1 ELSE @]

\* Mutant of Raises: any error of the client is retried by the worker.
RaisesToRetry(t) ==
    /\ InFlight(t)
    /\ \E e \in Errors :
          /\ CanMeet(t, e) /\ ~Retries(t, e)
          /\ Meets(t, e)
          /\ AfterLimit(t)
    /\ TryEnds(t)
    /\ Forgets(t)

\* The client raises: a rate limit is the worker's to retry, the rest is final.
Raises(t) ==
    /\ InFlight(t)
    /\ \E e \in Errors :
          /\ CanMeet(t, e) /\ ~Retries(t, e)
          /\ Meets(t, e)
          /\ IF ReadAsLimit(e) THEN AfterLimit(t) ELSE GivesUp(t)
    /\ TryEnds(t)
    /\ Forgets(t)

\* Any other exception of the pipeline, between two questions.
Breaks(t) ==
    /\ stage[t] = "running"
    /\ calls[t] = 0
    /\ GivesUp(t)
    /\ worst' = [worst EXCEPT ![t] = "final"]
    /\ Forgets(t)
    /\ UNCHANGED exhausted

Resolves(t) ==
    /\ calls[t] = 0
    /\ answered[t] >= 3
    /\ Succeeds(t)
    /\ Forgets(t)
    /\ UNCHANGED historyVars

Work(t) ==
    \/ Starts(t) \/ Resumes(t) \/ Asks(t) \/ Answered(t) \/ CallsAgain(t)
    \/ Raises(t) \/ Breaks(t) \/ Resolves(t)

LlmNext ==
    \/ \E t \in Tickets : Work(t)
    \/ (Gathered \/ Over) /\ UNCHANGED <<provider, clientVars, historyVars>>

\* API calls end, by the SDK's time limits at the latest; sleeps end.
LlmFairness ==
    /\ WF_llmVars(Gathered /\ UNCHANGED <<provider, clientVars, historyVars>>)
    /\ \A t \in Tickets : WF_llmVars(Work(t))

LlmSpec == LlmInit /\ [][LlmNext]_llmVars /\ LlmFairness
-----------------------------------------------------------------------------
(* Properties.                                                             *)

Ended(t) == stage[t] \in {"done", "raised"}

\* Errors other than rate limits are not retried (worker_pool.py:40-44), where
\* what its client reads as one counts as a rate limit.  Neither the client nor
\* the worker goes on with a ticket that met another error, nor with one whose
\* pipeline raised: the ticket ends, and not as resolved.
OnlyLimitsRetried ==
    \A t \in Tickets :
        worst[t] = "final" => Ended(t) /\ status[t] # "ok"

\* A ticket is given up for rate limits only when every try of the worker ran
\* into one; and if its client is patient and it met nothing but 429s, when
\* each of those tries ended with the client's full number of calls.
LimitsExhausted ==
    \A t \in Tickets :
        (Ended(t) /\ status[t] # "ok" /\ worst[t] # "final") =>
            /\ tries[t] = MaxTries
            /\ provider \in Patient /\ worst[t] = "rate_limit" =>
                  exhausted[t] = MaxTries

\* Through the pauses of clients and workers, on whose slots later tickets wait,
\* every ticket is worked on and ends, even in a run that has already raised;
\* and the run hands its resolutions over or raises.
RunEnds == <>(pool # "gathering" /\ \A t \in Tickets : Ended(t))
=============================================================================
