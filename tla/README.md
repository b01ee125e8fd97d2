# Sentinel: a TLA+ model of the ticket resolver

Sentinel takes support tickets, lets an LLM look things up and act on them
through tools (refund, reply, escalate), and keeps a record of what was done.
This directory holds TLA+ modules translated from `src/backend`, TLC
configurations that check them on small instances, and theorems that TLAPS
proves for every value of the constants.

Contents: 1 inventory, 2 plan, 3 the modules, 4 the runs and their bounds,
5 fairness, 6 what is proved, 7 where the code and its documentation disagree,
8 what is not modelled.

## 1. Inventory

One Python process, one asyncio event loop. Concurrency is the interleaving of
tasks at their `await`s; the state is in memory (lost with the process) except
the audit database, the JSONL files, the datasets and their manifest. The
command-line demo is a second process over the same database.

| component | state | operations | interacts with | what makes it correct |
|---|---|---|---|---|
| `tools/datastore.py` store | fixture, `_order_overrides`, `_performed_actions` | `get_effective_order`, `mark_refunded`, `mark_performed` | called by the tools | a mark for each payment, a key acts once |
| `tools/mock_tools.py`, `tool_registry.py` | none | 8 tools | store; awaited by `execute_tool` | no double refund, no overpayment |
| `tools/resilience.py` | attempt counter | `execute_tool` | tools, resolver | every call returns; a retry does no harm |
| `agent/resolver.py` | history, context, seen calls, records, step | `resolve` | LLM, guardrails, `execute_tool` | bounded; no repeat executed; acts on what it verified; all recorded |
| `agent/guardrails.py` | none | `check` | reads the resolver's context | no refund unchecked or above the threshold |
| `agent/triage.py`, `confidence.py` | none | `classify`, `calibrate` | LLM | a Triage in any case; a score in [0, 1] |
| `ingestion/worker_pool.py`, `dead_letter.py` | semaphore, tasks, dead letter file | `run_worker_pool` | resolver, audit log | every ticket ends; slots accounted; failures reported |
| `ingestion/queue.py` | priority queue | put, get | nobody | would be: urgent tickets first (section 7) |
| `api/routes.py` | `_runs` | ingest, status, switch, upload, reads | pool, store, manifest | a done run is saved and reported; switches are clean |
| `audit/` | SQLite tables, `audit_log.jsonl`, `audit_log.json` | save, clear, metrics, export | routes, pool, demo | rows match runs; tables agree; rates within one; the artifact is complete |
| manifest in `tools/datastore.py` | JSON file, ticket files | active, switch, register | routes | a run has one dataset |
| `api/streams.py` | one global queue | push, stream | pool, browsers | no event vanishes, comes twice or out of order; who gets it is open (section 7) |
| `llm/*` | call counter of a question | `chat`, `chat_with_tools` | resolver, triage, worker | only rate limits retried, and each level to its end |
| `frontend/src` | zustand store, query cache | SSE client, pages | routes, stream | what is shown is current |

Hard behaviours, in order of what they cost when they go wrong:

1. the refund path: two awaits inside one tool, retried from outside, reached by
   several sessions, with an idempotency key the LLM chooses;
2. restarts: the worker runs the pipeline again from an empty context over a store
   that remembers the first attempt, and drops the first attempt's records;
3. the LLM may answer anything: repeated, unknown, ill-formed and parallel calls,
   final answers that are not what was asked for;
4. the pool: slots held through pauses of 65 s, failures inside the handler of a
   failure, one gather over all tasks;
5. runs, switches and uploads side by side over one database and one manifest,
   which a killed server leaves as they are;
6. two levels of retries, the client's inside the worker's, where the text of an
   error decides which of them sees it;
7. the message window, which must not separate requests from results.

`PROJECT.json` lists each hazard at its line with the properties that cover it.

## 2. Plan

Done: `DataStore`, `RefundLedger`, `ToolLayer` (the money path, first), then
`TicketSession` (the resolver on top of it), `MessageWindow`, `WorkerPool` and
`LlmPool` (the clients under it), `IngestRuns`, `AuditStore`, `EventStream`;
`EventFeed` and `TicketLife` (what the stream and a worker promise); then theorems
about all of them, in the modules named `*Proofs` and in `Measures`.

Theorems that could follow: how a run whose status is done relates to the tickets
that `WorkerPool` ended, once the two are composed; a refinement of `IngestRuns` by
`AuditStore`, whose statements are what `Save` and `ClearRows` do in one step.

Modules that could follow: the query cache and the toasts of the pages
(`LiveFeed`, over `EventStream`); `calibrate` in thousandths; `WorkerPool` with
`TicketSession` for its pipelines.

## 3. The modules

asyncio switches tasks only at an `await` that suspends. A step of every model
is therefore the code from one such await to the next, and a method without one
(all of the store's, the manifest's, the writing of a dead letter) is part of
the step that calls it.

**`DataStore`** - the store's variables and operators. `overrides` holds ids *as
the caller spelled them*, because `mark_refunded` does; `Strip` is `str.strip()`.
`Eligible` is `check_refund_eligibility` after its latency. Fixture rows are
reduced to "may be refunded at all", a price in cents and an open or closed
return window, which the calendar may close at any time (`DeadlinePasses`).

**`RefundLedger`** - the abstract specification of the money path: an order is
paid back once, at most its price, while its window is open.

**`ToolLayer`** - `execute_tool` running the tools for concurrent workers, with
at most one call in flight each. `pc` is the await a call is suspended at:

| `pc` | code |
|---|---|
| `latency` | `_simulate_latency` at the start of a tool |
| `inner_check` | the `await check_refund_eligibility` inside `issue_refund` |
| `backoff` | `asyncio.sleep` between attempts |
| `idle` | no call; `result` is what the last one returned |

`AttemptFails` stands for a timeout, a malformed response or an exception at
either await. Python 3.11's `wait_for` hands over the result of a task that has
completed, so an effect that happened is always acknowledged; but an attempt
that is cut off in the inner check leaves its key reserved. `effects` and `paid`
are history variables. `Ledger` is `RefundLedger` under the refinement mapping
(`INSTANCE ... WITH`), and `LedgerSpec` its specification.

**`TicketSession`** - extends `ToolLayer` by the resolver, the guardrails and the
worker's retries. The LLM is a choice over `Calls` and `UnknownCalls`, in
responses of up to `MaxParallel` calls. `phase`:

| `phase` | code |
|---|---|
| `triage` | `TriageAgent.classify` |
| `thinking` | `chat_with_tools` |
| `acting` | the loop over the response's calls, at the head of `todo` |
| `calling` | inside `execute_tool` |
| `synthesis` | the final `chat` and its parsing |
| `cooldown` | the 65 s after a rate limit |
| `done` | a `Resolution` was returned |
| `raised` | an exception left the task: the failure itself could not be reported |

Variables follow the context dict and the locals of `resolve` (`elig` is
`eligibility_results`, `issuedIds` is `issued_refund_ids`, `trail` is
`all_tool_records`, `seen` the keys of `seen_calls`). `Absorb` is what follows
`execute_tool`: `Record`, `Cache`, `UpdateContext`. `PipelineRaises` is the handler of
an attempt that raised: a pause, or `Reports` (dead letter, audit event, a bare
Resolution), or `CannotReport`, where the dead letter or, after it, the event cannot be
written; then there is no Resolution, which `SessionEnds` says. `RepeatsNotExecuted`
and `EffectsVetted` read the records of the attempt, not the variables the guards test:
a cache that is not filled, a context that outlives its attempt and one that sessions
share each break them. `refunds` is history.

**`MessageWindow`** - `_truncate_messages` over every history the loop can build.
It stands alone: messages carry only a role and a round.

**`WorkerPool`** - stagger, semaphore, retries, dead letters and gather. A
pipeline succeeds, runs into a rate limit or raises. `Leave` is the release of
an `asyncio.Semaphore`, which passes the slot to its first waiter.

**`TicketLife`** - the abstract specification of what a worker does with one ticket:
it waits, is tried up to `MaxTries` times with pauses in between, and ends once, with
a dead letter if it failed. `WorkerPool` sees the worker from outside and
`TicketSession` from inside; both implement it for each of their tickets (`Life(t)` in
`LlmPoolProofs`, `Life(w)` in `TicketSessionProofs`). No run has it: TLC does not
take a property from a parameterised `INSTANCE`, so it is stated and proved only.

**`LlmPool`** - extends `WorkerPool`: a pipeline is now a sequence of questions
to the client of the configured provider. `calls` counts the API calls of the
question at hand (the loop variable of `_invoke_with_rate_limit_retry`),
`answered` the questions of the current try. `ReadAsLimit` is each client's
`_handle_error`, by the kind of error; `Retries` is the client's loop, `Raises`
hands the error to the worker, for which it is `RateLimited` or, if it is no
limit or there was one too many, `Fails` or `CannotReport`. `Breaks` stands for
everything else that raises in a pipeline. `worst` and `exhausted` are history.

**`IngestRuns`** - `POST /ingest`, its background task, `switch` and `upload`, the
manifest and the audit store. Each commit is a step; a request that switches is
suspended twice (`clear_rows`, `clear_files`), with runs going on in between. A
run whose pool raised is `orphaned`: its other tasks still log events. `Restart`
kills the server and starts it again: `_runs`, tasks and requests are gone, the
manifest, the files and the rows are there. `ClearFails` ends a request at either
point, with the rows gone or not and the log emptied or not. Run ids are random in
the code and numbered here in the order of their start, which no property tells apart.
`startedAt`, `wiped`, `outlived`, `source` and `switches` are history, and so is
`uncleared`: what a clear that broke off has left (the rows and the log, or the log),
until another gets through.

**`AuditStore`** - the statements of `audit/store.py` by two processes, a run of the
server and the demo, and by requests. `save_resolution` is one transaction (`BeginSave`,
`InsertCall`, `Commit` or `SaveFails`; rows show with the commit), `clear_all` two
statements that commit by themselves, `get_metrics` three reads, an export a read
(`AllSaved` of the demo, `ReadRows` of a request), the opening of the file, which
empties it (`artifact` is `Broken` from there), and the writing, each of which may fail
or be cut off by a kill. The server writes one export at a time, since `write_text` does
not await; the demo is another process, and while both have the file open (`opened`) the
outcome is either's document or a broken one. `lock` is SQLite's write lock, which a
writer waits for at most five seconds (`LockTimesOut`). `IngestRuns` has one step for
`Save` and one for `ClearRows`; here they are taken apart. `Saves(t)` are the saves of a
ticket that the runs have in their work, so `MostCalls(t)` is the most tool calls that
can add up for it. `torn`, `emptied`, `behind`, `wiped` and `stale` are history.

**`EventFeed`** - the abstract specification of the live feed, page by page: an event
pushed may come to a page (`coming`), once; it may be missed, and then it does not come
any more; and none comes after a newer one. How many pages get an event is left open:
the documentation speaks of a broadcast, the code gives it to one page, and both
implement this.

**`EventStream`** - `push_event`, the generators of all connections, and a page's
side of them. `serving` are clients with a generator, `ghosts` generators whose
client is gone; `source`, `timer`, `mounted` (not `closed`) and `retries` are the
locals of `subscribeToStream`; `shown` and `status` are in the page's store.
`Restart` kills the server; `cut` are clients that have not noticed yet.
`seen` and `lost` are history. `Feed` is `EventFeed` under the mapping that takes the
queue and a page's wire together as what is coming to it (`Coming(c)`), and `FeedSpec`
its specification.

**`Measures`** - no code: places compared one after the other, the order of natural
numbers lifted to them (`LexOrder`), that it is well-founded, and two lemmas that say
when a step goes down in it. The termination measures below use it.

`MC*` modules hold small values for the constants; the other modules need none.
Definitions that a comment calls a mutant are plausible bugs: each replaces one
definition of the model in a run that must then fail, which shows that the
property depends on the code it is about.

## 4. The runs and their bounds

| run | instance | shows |
|---|---|---|
| `tool_ledger` | 2 sessions, 2 orders, 2 keys, refunds below and above the price, replies, escalations, 2 attempts | types, `PaidWithinPrice`, `MarkedIffPaid`, each key acts once, exclusive reservations, implements `RefundLedger`, every call returns |
| `session_one` | 1 session, 2 steps, 2 calls per response, 2 tool attempts, 2 pipeline attempts | types, records, loop guard, effects vetted in their own attempt, uses the tools properly, every ticket ends |
| `session_two` | 2 sessions on one order, 3 steps, 2 keys, amounts at and above the threshold | the threshold holds across sessions, and no session acts on what another has checked |
| `window` | `keep_recent` 6 as in the code, 4 rounds of up to 7 calls | the view is one a provider accepts, with the last round in it |
| `pool` | 3 tickets, 2 slots, 2 tries, 3 calls per question, any of 4 clients, a disk that may fail | slots, reports; only limits are retried, and both levels to their end; the run and every ticket end |
| `store` | a run and the demo with a ticket in common, 2 requests, up to 1 tool call per row, 1 kill | tables agree, rates within one, the artifact the demo announces is complete and covers its tickets, but for what a clear or the server's export has done since |
| `runs` | 2 runs, 2 clients, 2 switches, 2 tickets (one shipped, uploads of both or the other), 1 restart, storage that may fail, also halfway through a clear | saved when done, clean switches, rows of own tickets, runs that do not raise are reported |
| `stream` | 2 pages, 3 events, 2 retries, lists of 2, 1 late generator, 1 restart | every event accounted for, none twice to a page, order, implements `EventFeed`, connections accounted, retries end, the queue drains |

`tool_padded_id`, `tool_abandoned_key`, `session_lost_records` and
`runs_stale_metrics` are those of section 7.

Why the bounds suffice. A race for a key or an order needs two calls, from two
sessions or two attempts; a padded spelling needs one extra id; a retry needs
two attempts. In a session, two steps with two calls each reach a check, a
refund and two more calls, a repeat in the same response and in a later one, and
the end of the step budget; one restart shows what survives it. In the window
seven results are more than `keep_recent`, so tails that start inside a round,
at its request and beyond it all occur. Three tickets over two slots have one
that waits for both. Two tries and three calls have a first, a last and (of the
calls) a middle one. With two clients a switch occurs during a run, after it, and
twice at once, and an upload can overwrite the file of an earlier one. The run
and the demo save two tickets each, the one in common last and first, so that a
row is replaced in either order; two requests are a clear and a read, two reads,
or two clears; one kill comes before, inside and after each transaction, and before,
while and after the file is written. Three events fill a
list of two; two pages and one late generator compete for each.

Bounds that are not constants of the code: `MaxParallel` (calls in a response),
`MaxSwitches` (datasets activated), `MaxRestarts`, `MaxCrashes`, `MaxEvents`,
`MaxGhosts`, the finite `Calls`, `Keys`, `RunIds`, `Clients`, `Requests`, and in
`AuditStore` `MaxCalls` (tool calls of a row). `MaxAttempts`, `MaxSteps`, `MaxTries`,
`MaxCalls` of `LlmPool`, `Limit`, `KeepRecent`, `MaxRetries` and `MaxShown` are the
code's settings, mostly with smaller values. Symmetry (of requests) is used in
`store` only, which checks invariants alone. Terminal states have a step of
their own (`BatchDone`, `Over`, `Finished`, `Quiet`), and pages can always be opened or
left, so deadlock is checked everywhere.

## 5. Fairness

Weak fairness of each task's own steps: the event loop runs every ready task,
timers fire, an LLM client answers or raises within its timeout, and SQLite
commits or raises. Nothing is assumed of choices: that the LLM asks for another
call, that a client switches, that the calendar passes a deadline, that an
attempt succeeds rather than fails, that a page is opened or a connection lasts,
that a server is killed. An attempt to connect ends (the browser's time limit), a
call to a provider too (the SDK's), and a page notices that its server was killed.
Fairness is on the disjunction of a task's
steps, so the outcome is free and the bounds of the code must do the work.

## 6. What is proved

Every safety property of the passing runs, for any sets of sessions, orders, calls,
tickets, runs and clients, and for any value of the limits; the abstract
specifications each component implements; and the measures that the liveness
properties rest on. Each component has its `*Proofs` module (`LlmPoolProofs` has
those of `WorkerPool` as well): types first, then the inductive invariant by one step
per action, then a theorem per property.

*Assumptions*: those in the modules (`IdsAssumption`: stripping is idempotent and leaves
stored ids alone; `KeysAssumption`: `refund:` keys differ from the two literal ones;
limits are positive; in `AuditStore` tickets and runs are finitely many; in `IngestRuns`
a dataset lists no ticket twice). `CanonicalIds` is a hypothesis of the money theorems,
never an assumption: it says that refund calls name orders as the store spells them, and
run `tool_padded_id` shows that it is needed.

1. `TypeCorrect`. One step per action; the conjuncts that tie `pc` to the call
   carry the weight.
2. `ActsOnce`, `KeysExclusive`. The two invariants are inductive together with
   the types: a key that is held is registered and has not taken effect, so
   giving it back cannot undo an effect, so an effect implies a registration.
   Neither is inductive alone: `RejectRefund` needs the exclusiveness and
   `ReserveRefund` needs the registry.
3. `NeverOverpaid`, `MarksArePayments`. The inductive invariant says that an
   order has been paid at most its price and that it is marked exactly when it
   has been paid anything; `IssueRefund` finds the order unmarked, hence unpaid.
4. `ImplementsLedger`. From 3: `IssueRefund` is `Refund`, `WindowCloses` is
   `CloseWindow`, every other step stutters.
5. `SessionsUseTools`. Each session step is a `ToolLayer` step or leaves the tools
   alone; 1 to 4 carry over.
6. `NeverAboveThreshold`. Calls in flight are vetted (the guardrail ran without an
   await before the call started) and an order is paid at most once.

7. `SessionTyped`, `NoRepeats`, `FirstAttemptsAudited`, `OnlyVettedActs`. The types hold
   only together with `PhaseInv` (a call in hand is a known one, a check that ended has
   a verdict or an error, a step and a try are left) and the others with two more.
   `RecordsInv`: the context is the records read again; what is seen, eligible, issued
   or looked up is what the records of this attempt say (`Absorb` writes both,
   `TryAgain` empties both). `InFlightInv`: a call in flight was vetted, is unseen and
   has no result yet; nothing else runs in its session, so this lasts until it ends,
   which is where money moves, a call becomes seen and a record is written.
8. `SlotsNeverLost`, `ListOrder` (`WorkerPool`; the second says which order the code
   keeps, not one that its documentation promises). Neither is inductive. The queue of
   the semaphore is ordered by the list, and the list falls into tasks that got a slot,
   tasks that wait and tasks that have not started, in this order; free and held slots
   add up to `Limit` and none is free while the queue is not empty. `Leave` is the hard
   case: it hands the slot to the head of the queue.
9. `FailuresLeaveLetters`. What a task has come to matches what was written of it,
   until gather returns.
10. `ClientsUsePool`: `LlmSpec` implements `Spec` of `WorkerPool`, so 8 and 9 hold
    with the clients under it (`PoolSafeWithClients`). `LlmTypes`, `FinalErrorsEnd`
    and `LimitsGivenUpLast` follow from an invariant of each ticket: only a
    running one is inside a question, what ended in a final error is over, and
    the tries that ended in limits are counted by both levels alike.
11. `TablesInStep`, `RatesWithinOne`, `ExportsCover` (`AuditStore`). Tables are torn
    only while a clear is between its statements or after a save came in there;
    a count read first is low, for later commits only add, unless a clear
    overtakes; the demo's rows stay from their commit on unless wiped. So they are in what
   it reads (`DemosRowsStay`), and the file it has written stays as it is until the
   server opens it (`BrokenByServer`); it ends otherwise than raised only by writing.
12. `RunsTyped`, `DoneIsSaved`, `SwitchesAreClean`, `OwnTicketsOnly` (`IngestRuns`). What
    a run has saved has rows unless wiped, `saved` has reached the end of its list
    when the status turns done, and runs under way, rows and log lines are
    current once the deletions that follow a switch are through; what a clear has not got
   to is in `uncleared`, and a log is only as clean as the rows, for runs that a failed
   clear has left under way write on.
13. `StreamTyped`, `ConnectionsAccounted`, `NoneVanishes`, `EventsInOrder`
    (`EventStream`). `ConnectionAccounted` is inductive by itself. For events: the
    places (queue, wires, what was seen, what was lost) are disjoint and cover
    what was pushed, each sequence is ordered, and what is shown is older than
    what is on the wire, which is older than what is queued.
14. `NoOrphans`, `NoUnanswered`, `AnchoredBounded`, `RecentKept` (`MessageWindow`), for
    any `keep_recent` and rounds of any size. The invariant is the shape of a
    history (a ticket, then rounds of a request and its results, numbered
    upwards). A view is the ticket and what follows the first k + 1 messages, and
    that part is empty or starts with a request unless k is 0. Results in the
    view and in the history are matched by shifting positions by k.

15. `StoreTypesHold` (`AuditStore`). That a ticket never has more than `MostCalls(t)` tool
    calls is not inductive; that it has at most `MaxCalls` for each of its saves that
    are committed is (`CallsBySaves`). Those saves are pairs of a run and a place in
    its work, a finite set that gains one with each commit, whatever fails, is killed
    or is cleared meanwhile.
16. `FeedImplemented` (`EventStream` implements `EventFeed`). `Push` is `Push`,
    `Receive` is `Deliver`; where an event goes to one page's wire the others miss it
    (`Miss`), as they do when a connection or the server goes with what it holds. The
    order comes from 13: all that is under way for a page is newer than what it has
    seen.
17. `TicketsLive` and `SessionsLive` (both implement `TicketLife`), for each ticket and
    each session. What is proved besides the matching of steps is that the others'
    steps stutter: nobody else ever moves a ticket, takes a try from it or writes
    its letter. `raised` is an end of both: a failure that could not be reported, with or
    without a letter, after which the ticket has no Resolution.
18. `StatusIsTrue` (`IngestRuns`). A status of running is that of a task that is there or
    has raised, a status of done that of a run that is over.

*Measures.* The prover does not reach liveness, for that needs fairness and
`ENABLED`. What can be proved of it is its safety core: a rank in a well-founded order
that each step of the actor lowers and that steps of others leave alone or lower. Then
a fair schedule leads to an end if the actor can always move, and this second half
is what the runs' liveness properties check.

19. `RetriesRunOut` for `RetriesEnd`: retries left, then the status of the page;
    `RunsRunOut` for `RunsFinish`: where the run's task is, then rows to save.
20. `WorkRunsOut` for `RunEnds`: per ticket the tries left, the place in the worker's
    loop, questions left and calls left, compared in this order; a retry of the
    worker gives the client all of its calls back, which is why calls come after
    tries. The rank of a run is the row of all ranks, and one place of it goes down
    while none goes up, but for a ticket that gets the slot of another, whose rank
    goes down too.
21. `SessionsRunOut` for `SessionEnds`: eight places, from tries, steps and calls of
    the response at hand down to attempts of the tool in flight and the awaits left
    in it. The loop guard, unknown tools and refused calls all use up a call of the
    response; a rate limit gives all back but for the try.

Only model-checked: liveness itself (`CallsReturn`, `SessionEnds`, `RunEnds`,
`RunsFinish`, `RetriesEnd`, `QueueDrains`), for it needs fairness and `ENABLED`. The four
violations of section 7 are TLC's too. `AnchoredBounded` states a property that is in
no run: it is a bound on lengths, proved for all of them.

## 7. Where the code and its documentation disagree

Each of these is a run whose property quotes the documentation and which TLC
violates.

| run | documented | what the code does |
|---|---|---|
| `tool_padded_id` | `datastore.py:5` never double-refund | marks the raw id, checks the stripped one |
| `tool_abandoned_key` | `mock_tools.py:219` safe to retry | a failed inner check leaves the key reserved; the retry says already refunded |
| `session_lost_records` | `README.md:26` every decision is written | records of an attempt that raises are lost |
| `runs_stale_metrics` | `store.py:69` only the new run | runs under way save later |

Noted while translating, modelled as the code has them, without a run of their
own:

- a session that ran out of steps is only asked to answer "escalated"
  (`resolver.py:266`); the status is the LLM's (`Synthesised`);
- loop-guard hits and unknown tools leave no record (`FAILURE_MODES.md:116`;
  `LoopGuardHit`, `UnknownTool`);
- a refund that was blocked can be issued by the same session after it escalated
  (`FAILURE_MODES.md:144`; `Refused` has no such rule);
- a final answer that is JSON of the wrong shape raises instead of escalating
  (`FAILURE_MODES.md:161`; `Raises`);
- six or more results of one response empty the window's tail
  (`resolver.py:48`; hence the condition in `RecentStepKept`);
- a dead letter or its audit event that cannot be written makes the run raise, and the
  ticket is dropped without a Resolution (`worker_pool.py:5`, "never a dropped ticket" in
  `FAILURE_MODES.md:14`; `CannotReport`, the second case of `SessionEnds`);
- a run whose pool or save raises stays "running" for its clients for ever
  (`routes.py:58`; the exception in `RunsFinish`);
- the pool does not use the priority queue: tickets start in the order of the list,
  whatever their urgency (`queue.py:1-5` and `triage.py:3-6` promise the urgent ones
  first). `ListOrder` proves which order the code keeps; no run states it as a promise;
- an event reaches one page although it is said to be broadcast (`streams.py:25`;
  `Yield`). `EventFeed` and `EventsAccounted` leave open how many pages get one, so they
  would hold of a broadcast too;
- nothing empties the queue of events while no page is connected, and nothing limits it
  (`streams.py:21`; `QueueDrains` needs a page that stays);
- pages refresh their queries on events of type `complete` or `resolved`
  (`useLiveStream.js:16`, after `streams.py:5`), but the pool sends
  `triage_complete` and `resolution_complete` (`worker_pool.py:131,152`);
- an error whose text merely mentions a rate limit or 429 is retried by the worker
  although "we don't retry on logic errors" (`worker_pool.py:40-44`,
  `groq_client.py:145`; `ReadAsLimit`);
- an upserted resolution adds its tool calls to those of the row it replaces
  (`store.py:84,108`; `Commit`), and a save between the two DELETEs of `clear_all`
  keeps a row without its tool calls (`torn` in `CallsBacked`);
- an export of the server may overwrite the demo's artifact with rows read before a
  later commit (`exporters.py:54`; `stale` in `ExportCovers`), and, cut off or failing
  after it has opened the file, leaves it broken (`opened` in `ExportCovers`);
- a server killed between a switch and its clear, or a clear that fails on the way, leaves
  the rows of the old dataset, or its log, under the new one; the switch itself is not
  taken back (`store.py:69`; `uncleared` in `QuietSwitchIsClean`);
- the environment override of the active dataset applies on every call, not once
  (`datastore.py:176`; `ActiveDataset`).

## 8. What is not modelled

The pages' query cache, toasts and filters, and `calibrate`, whose result goes
into the record and decides nothing (floats are beyond TLC). The priority queue
has no caller. Left out for good: prompts and knowledge base text (the LLM may
answer anything), the shape of messages to and answers of the providers, log
formatting, configuration but for the limits, middleware (no state), page
rendering. Reads that are one query (`/tickets`, `/audit-log`) are left out of
`AuditStore`. A kill of the server in the middle of a pipeline is not part of
`ToolLayer` and `TicketSession`: their store is not persisted and no session
resumes, so a killed process is a prefix of one of their behaviours.
