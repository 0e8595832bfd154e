# Formal models of the AI assistant service

TLA+ models of the parts of `src/` where several requests, transactions, caches or
processes meet: the credit wallet, the gate in front of LLM calls with the connection
pool under it, the monthly grants and the hourly reconciliation, what becomes of a
call's tokens, the prompt templates of industry packs with their Redis cache, the choice
of intent, prompt and model of a turn, the turns of a chat over the conversation memory,
the tenant context of pooled connections with the tool configuration under it, and the
admission of requests with its audit log. TLC checks each on small instances; TLAPS
proves the main results for every value of the constants.

Check an instance with `tlc -config WalletService_Calls.cfg MCWalletService`, a proof
with `tlapm WalletService_proofs.tla`. `PROJECT.json` lists the runs, the mutations each
property is shown to catch, the source lines behind every definition, the disagreements
found, the hazards and the theorems.

## 1. The system

One FastAPI process (or several behind a balancer) with an asyncpg pool, a Redis client
and an in-process scheduler. Everything in a process runs on one event loop, so steps of
requests interleave exactly at `await`s; processes meet in PostgreSQL and Redis.

| Component | State | Operations | Hard because |
|---|---|---|---|
| Credit wallet, `services/wallet.py` | `tenant_wallets`, `credit_transactions` | `debit`, `credit`, `grant_monthly` | read, compute in Python, write back; lost connections; rounding |
| Wallet gate, `services/wallet_gate.py` | the wallet; connections of the pool (`db/session.py`) | `check`, `_create_wallet`, `debit_after_call` | check and debit are far apart; a check may hold two connections |
| Wallet endpoints, `api/admin_wallet.py`, `api/tenant_wallet.py` | - | top-up, manual grant; reports | requests are not idempotent |
| Wallet scheduler, `services/scheduler.py`, `main.py` | apscheduler's in-memory jobs | monthly grant, hourly reconciliation, start, stop | missed and doubled runs; one tenant failing |
| Packs, `packs/loader.py`, `api/admin_packs.py` | `industry_packs`, `prompt_templates`, Redis `pack:<id>` | `upsert_template`, `disable_pack`, `create_pack`, `load_pack`, `invalidate_pack_cache` | statements without a transaction; a cache filled from old reads |
| Pack resolver, `packs/resolver.py` | `tenant_pack_assignments` | `assign_pack`, `resolve_for_tenant` | fallbacks; the tenant setting outside a transaction |
| Tenant context, `db/session.py`, the migrations' policies | `app.current_tenant` on a pooled connection | `acquire_with_tenant`, `set_config` at twelve more places | the setting's lifetime against the connection's |
| Conversation memory, `memory/conversation.py` | Redis list of at most 20 messages | `get`, `append`, `append_turn`, `clear` | turns of one conversation in parallel; trim and expiry |
| Chat, `api/chat.py`, `agents/orchestrator.py`, `services/usage_logger.py` | one turn's locals; background tasks | resolve, classify, stream, remember, log usage | a stream that fails or is abandoned half way |
| Model selection, `llm/selector.py`, `llm/registry.py`, `agents/classifier.py` | provider registry, shared classifier, `tenant_model_overrides` | `select`, `_get_classifier` | two reads with an LLM call between; order of fallbacks |
| Providers and pricing, `llm/providers/`, `llm/pricing.py` | `model_pricing`, `llm_usage_log` | usage of a stream, `calculate_cost` | vendors count tokens differently; `Decimal` and `float` |
| Tools, `services/tool_config.py`, `api/admin_tools.py`, `tools/` | `tenant_tool_configs`, tool registry | enable, disable, list | three readers of one table with three defaults |
| HMAC middleware, `middleware/tenant.py`, `services/audit.py` | `tenants`, `allowed_domains`, `audit_log` | `_verify`, `log_audit_event` | reads one after the other; up to three connections; an audit that may fail |

How they meet: a chat request passes the middleware, resolves the tenant's pack
(`load_pack`), reads the conversation, streams from a provider, appends the turn and
starts a usage-log task. `WalletGate` is meant to stand around the provider call -
nothing in `src/` calls it yet - and shares the pool with all of them. The admin
endpoints and the scheduler write to the wallet beside it.

What makes each correct: the wallet loses no update, its ledger explains its balance,
and a hard stop is a hard stop; the gate bounds what unpaid calls can cost and gives
back every connection; a template key has one active version, the newest, and the cache
holds what the tables hold; a tenant sees its own rows and no others; a conversation
holds whole turns in an order its user saw; a grant comes once a month and nobody's
failure costs another tenant theirs; usage is priced once, on what the vendor counted; a
turn's intent, prompt and model belong together; whoever is let in was entitled, and a
refusal is audited once.

## 2. Modules

| Module | Models | Role |
|---|---|---|
| `Money` | `Decimal.quantize`, `float` into `NUMERIC(12,4)` | arithmetic of `WalletService` |
| `WalletLedger` | what the wallet promises | abstract specification |
| `WalletService` | `wallet.py` and the tables of migration 007 | detailed; implements `WalletLedger` |
| `WalletGate` | `wallet_gate.py`, the pool | composed over `WalletLedger` |
| `PackTemplates` | `admin_packs.py`, `loader.py` | table and cache together |
| `ConversationMemory` | `conversation.py` | the Redis list; part of `ChatTurn` |
| `ChatTurn` | `chat.py`, `orchestrator.run_stream`, `usage_logger.py` | turns composed over the memory |
| `TenantContext` | `acquire_with_tenant` and its copies, the policies, PostgreSQL's settings | part of `ToolConfig` |
| `ToolConfig` | `tool_config.py`, `admin_tools.py`, `resolve_for_tenant` | requests composed over the context |
| `Admission` | `middleware/tenant.py`, `audit.py` | requests composed over the context |
| `MonthlyGrants` | `monthly_grant_job`, `start_scheduler`, `stop_scheduler`, `main.py` | schedulers of several processes |
| `UsageAccounting` | the providers' usage, `pricing.py`, `usage_logger.py`, the charge, `reconcile_job` | two records of each call; uses `Money` |
| `ModelSelection` | `resolver.py`, `classifier.py`, `selector.py`, `registry.py`, `_build_executor` | one turn against administrators' writes |
| `MC*` | values for TLC | |
| `*_proofs` | theorems; `Scheduler_proofs` is about both jobs of the scheduler | |

**WalletService.** One process per call. `row` and `entries` are the committed tables; a
transaction's own writes stay in the call's record (`after`, `change`) until `Commit`
publishes both, and `lock` is the row lock of `SELECT ... FOR UPDATE`. Each `await` is
an action: `ReadGrant`, `SelectForUpdate` (`NotFound`), `RefuseDebit`, `UpdateBalance`,
`InsertEntry`, `Commit`; `Overflow` is a value too large for its column.
`LoseConnection` may strike before each and rolls back; `Commit` may also lose just its
acknowledgement. `CreateWallet` is the gate's insert and `BlockTenant` the runbook's
manual statement, which is not in the code but must be survived. Amounts are integers:
raw ones in 10^-6 credit, stored ones in 10^-4 credit; `HalfEven` is `quantize`, and
`Stored` leaves open how a tie is broken, because the code passes a `float`. `wiped` is
a history variable that remembers where an operator overwrote the balance; nothing reads
it but properties.

`AppBypassesRls` says whether the database role is exempt from row-level security. Under
the role of the installation guide it is not, and the wallet finds no row at all
(section 5); the run, the other wallet modules and the refinement are about a role that
is exempt.

**WalletGate.** The wallet is the abstract ledger: a debit is one atomic `Post`,
`Refuse` or `Lose`, which the refinement justifies. `idle` counts the connections in the
pool, and program counters say who holds one or two. `Slots` are the requests a server
works on at a time: a call begins only when no other call of its slot is active, so
`Calls` can be a long history and `Cardinality(Slots)` the concurrency. Between check
and debit the caller decides: `FinishLLMCall` and `Abandon` are external. Each exit by
an exception is a step: `CheckFails` for the query, `CreateFails` for the insert of
`_create_wallet`, which unwinds two connections and may have taken effect,
`AcquireFails` for whoever waits, for a first connection or a second. A call may be a
top-up instead (`AskTopUp`, `AcquireForCredit`, `TopUp`, `TopUpFails`): the endpoint
takes a connection like the others and does not validate its amount, so that may have
either sign. `withdrawn` is history: what negative ones took since the wallet was last
not below zero. `OpeningFundedAssumption` starts from wallets that owe nothing.

**PackTemplates.** One pack. `upsert_template` is four actions because its statements
commit one by one; between any two the request may die (`AdminFails`), and a second
upsert may take the version (`DuplicateVersion`). A load is `GetCached`, `SelectPack`,
`SelectTemplates`, `SetCache`. Prompt texts are their version numbers. The `ok`/`broken`
outcomes are history, and so are `unsettled` (requests that have written to the tables
since the cache was last cleared), `overtaken` (loads that a `DEL` came upon between
their reads and their `SETEX`) and `late` (one of them filled the cache).

**ConversationMemory** and **ChatTurn.** A message is the turn it is of and its role.
`append_turn` is one action, since its pipeline is a `MULTI`/`EXEC`; `Expire` is the
key's TTL. A turn is a record of a coroutine's locals: `Begin`, `Resolve` (the pack's
intents decide whether the hint spares the classifier), `Classify`, `ReadHistory` (with
what precedes it), `EndStream`, `Persist`. `Fail` strikes at any await;
`PersistUnacknowledged` is an append that Redis did and the turn did not learn of.
`Done` starts the usage task in the step that makes the "done" event, because no await
lies between. `Disconnect` cancels a turn of `/chat/stream`; a turn of `/chat` runs on
unheard; a usage task is neither's and stays. `Crash` takes all turns and tasks. Deltas
are left out: a turn is the same after each, and `Fail` and `Disconnect` may strike
between any two. The history variables are `log`, `expired`, `answered`, a turn's
`seen`, and `due`: the turns whose stream has ended, and of which neither the append nor
the process nor the database has failed since. `append` and `clear` of the memory have
no caller. `ExpireMemory` does not happen while an answer is on its way to the client,
for the TTL is a day.

**TenantContext** and **ToolConfig.** `SetConfig` is `set_config(..., true)`: inside a
transaction block it lasts as long as that, outside one it is over at once and leaves
`''` (`Blank`), which the policies' cast to UUID rejects. That PostgreSQL keeps `''`
after the transaction, and that asyncpg resets a connection it takes back, are external
facts. A request of `ToolConfig` is an upsert (`enable`, `disable`), a `delete`, the
tool list, the MCP export or a chat turn's use of tools; the last first resolves the
pack outside a transaction and so, under a role subject to row-level security, always
gets `generic@1.0.0` (`PackServed`). `Enter`, `SetTenant`, `Query`, `Commit` are the
statements of one scoped transaction; `Abort` and `CommitLost` are what can go wrong at
each, and `Except` what the code makes of it. A `delete` by a role subject to the
policies is always `Refused`: migration 006 grants it no `DELETE`. `Raises` are the two
places where a reader fails on its own rows (section 5). `could` and `degraded` are
history.

**Admission.** A request of the HMAC middleware is `Arrive` (`__call__` and `_verify` up
to the first await: skipped paths, headers, timestamp), `ReadBody` (the signature),
`AcquireForRead` and `ReadTenant`, the same and `ReadDomain`, and for three of the
refusals `AuditBegin`, `AuditSet`, `AuditInsert`, `AuditCommit`, the transaction of
`log_audit_event` on a connection of its own. The connection is given back between them
(`Leave`), as leaving each `async with` does. `ReadFails` ends the request with an
exception, `AuditFails` is swallowed, also where the commit did take place. `Sees` of
`TenantContext` is the policy of `audit_log`. `SetStatus` and `SetDomain` are the
statements of the runbook. The HMAC is an input: a signature is good or bad. `seen` and
`degraded` are history.

**MonthlyGrants.** `Tick` is 00:00 on the 1st: of the processes that are up, any may
fire, except one whose last run is not over (`max_instances` is 1); one whose loop is
late by more than a second does not (`misfire_grace_time`). `ListTenants` is the query,
outside the loop's `try`, and `Grant` one row's turn, whose error is counted and may
hide a commit. `Start` and `Stop` are the lifespan of `main.py` and a crash. What a
grant posts is `WalletService`'s matter; here it is one step. `posted` is history. Its
specification is `GrantsSpec`, so that one proof module can extend both jobs of the
scheduler.

**UsageAccounting.** A call has two records, its row in `llm_usage_log` and its debit,
each `due`, `open` in a transaction, and `stored` or `lost`. `Extract` is what the three
families of vendors make of their counters, `PassOn` what the "done" event and `chat.py`
copy of it, `Cost` is `calculate_cost` with the `float` it runs into, `Logged` and
`Charged` are the roundings on the way into the tables. The price is looked up once for
each record. `Reconcile` compares the hour's sums over tenants with rows in both tables;
`ReconcileMissed` and `Restart` are hours without a comparison. The caller of
`debit_after_call` is external: nothing in `src/` calls it, and what the caller takes
the call to cost is taken to be what `calculate_cost` says. An hour of the model is the
hour between two reconciliations, a day `HoursPerDay` of them. `price` is history.

**ModelSelection.** One tenant. `ReadAssignment` and `LoadPack` are
`resolve_for_tenant`, with its fallbacks and `_to_effective`; `TakeHint`, `Classify` and
`NoClassifier` are the intent; `Render` the prompt; `BuildExecutor` reads
`tenant_model_overrides` and selects; `Stream` fails for a provider without a key.
`AssignPack` is the endpoint, `OverrideModel` SQL that has no endpoint. A deployment is
the set of providers with an API key. `assignments`, `rows`, `generic` and `blind` are
history.

Abstracted: texts and messages, a pack's tones and tables, timestamps, HTTP, logging. A
command that times out is a lost connection.

## 3. Runs

| Run | Instance | Shows |
|---|---|---|
| `wallet_calls` | 2 tenants (one without a wallet), 2 calls of any kind, 2 costs, 2 credits, column limit 5 quanta | ledger, balance and answers agree in every interleaving; the hard stop holds; refinement of `WalletLedger`; every call returns |
| `gate_calls` | 4 calls or top-ups of either sign on 2 slots, 2 tenants (one without a wallet), pool of 3, any statement failing | overdraft bounded by calls in flight and what top-ups took; no leaked connection; nobody waits for one for ever |
| `gate_exhausted` (violated) | 2 calls, pool of 2, missing wallet | checks that hold one and wait for one stall each other |
| `pack_races` | 1 key, 3 admin requests, 2 loads | versions, the active row; a cache unlike the tables has a load that a `DEL` overtook, or a request that died, to blame |
| `chat_turns` | 3 turns of one conversation or none, window of 2 turns | whole newest turns; history holds what the user has; a finished call is counted unless append, process or database fails; every turn ends |
| `tools_tenants` | 2 requests, 2 tenants, 2 connections, 2 tools, role subject to RLS | contexts end with their transactions; answers come from one state of the rows and, for chat, from the generic pack; every request ends |
| `tools_enabled` (violated) | the same, role exempt | a chat turn fails on a tool its tenant enabled |
| `monthly_grants` | 2 processes, 2 tenants, 2 months | one grant a month per process, whatever restarts; each listed tenant is tried |
| `usage_accounting` | 2 calls, a model of each family, 2 reconciliations, prices that change | the log covers what the vendor bills for what it sees; an alarm has a cause, be it the rounding of many calls |
| `usage_unpriced` (violated) | 2 calls on a model whose cached tokens are free | such calls are logged at no cost |
| `model_selection` | 1 turn, 2 packs, 4 assignments, 2 own models, 4 deployments, 3 writes | every turn finds a provider that has a key; what it serves follows from one assignment |
| `admission` | 2 requests of 9 kinds, 3 tenant names, 1 connection, role subject to RLS | who is let in was entitled; a refusal is audited once, under its own tenant; every request is answered |

Why the bounds are enough. Two calls on a row give a holder and a waiter, and the
operator's `BlockTenant` takes the part of a third writer; it also makes the open-ended
wallet a hard-stopped one, so open, hard-stopped and missing wallets all occur. Costs
fall on ties of both roundings (`Money`), one debit fits the balance and two do not, and
the column limit is inside the reach of two top-ups. The gate's two slots with two calls
each let a second round start on what the first one owes. Its `VIEW` leaves out the
entries and the outcomes: no guard reads the first, nor the second of a call that is
still to post, and no property of the run reads either. Three upserts give two that race
and one that arrives after; a load races with each, and with another that read before it
or after. Three turns fill a window of two and one more, with two in flight while a
third reads; at `WINDOW_SIZE` 10 nothing else can happen, only later. Two requests on
two connections contend for a row and for the pool, and each connection passes from one
tenant to the other; in `admission` they share a single one, so that a request that kept
one while asking for another would stall. A month is there to be granted in and a second
one to overlap the first one's runs. In `usage_accounting` the bill is worth 46.5
quanta, a tie at the log's rounding, and the tolerance is one quantum, so that the
roundings of two calls can exceed it; in the code it is one credit, 10^4 quanta, which
takes an hour of more than 10^4 calls. Turns of `ModelSelection` share the classifier
only, so one turn and three writes reach every pair of an old and a new assignment and
model. The theorems remove these bounds for the safety properties of all nine.

**Fairness.** A coroutine that can run does (asyncio), hence weak fairness of its steps.
PostgreSQL queues the waiters of a row lock and asyncpg those of the pool, so each is
served in turn: strong fairness of `SelectForUpdate`, `TakeConnection` and `Wait`.
PostgreSQL answers a statement that it refuses: weak fairness of `Refused /\ Abort`. A
chat turn and a usage task go on once they run, and a provider ends what it streams
(`max_tokens`, the SDK's timeouts). A grant run goes on while its process is up. A
client of the middleware sends its body or closes the connection (uvicorn tells the
coroutine either way). Nothing obliges a request to arrive, a connection to be lost, the
gate's LLM call to end, a month to pass or an operator to act, and no liveness property
needs them to. The deadlock check is off where requests are finitely many and end; in
`WalletService` operators and in `MonthlyGrants` processes can always act.

## 4. Proofs

* `WalletService_proofs`. The inductive invariant is `Inv`: types; `LockedReadIsCurrent`
  (who is past the select holds the lock, and the row is still the one it read);
  `StagedFromRead` (the values to be committed were computed from that read, and a debit
  that got this far was not refused); `PendingUntilReturned`; and `LedgerOK`, the
  ledger's own conjuncts with the history (`wiped` lies within the ledger). Without the
  middle two a commit could publish anything: they carry the check made at the lock to
  the moment of the commit. From it follow `TypeCorrect`, `LedgerCorrect`,
  `ResultsCorrect`, and `HardStop`, an action property. `Refinement` maps each action to
  a step of the ledger or a stutter: `Commit` to `Post`, refusals to `Refuse`, losses to
  `Lose`; it assumes a role exempt from RLS, and postings from all of `Int`.
  `WaitersWaitForHolders` is what makes the row locks free of deadlock: whose lock is
  waited for is past its own `SELECT ... FOR UPDATE`.
* `WalletGate_proofs`. `Inv` adds to the checked properties that a slot has one active
  call (`SlotsExclusive`): with it the calls of a tenant in flight are no more than
  slots, which is what pays for the next debit in `OverdraftIsBounded`. Top-ups are any
  integers there: `withdrawn` carries what negative ones took, and is what makes the
  bound inductive. `PoolIsConserved` counts each exit, the failing insert with its two
  connections included. `LargePoolSuffices` turns the run's pool of 3 for 2 slots into
  the condition `PoolSize > Cardinality(Slots)`; `gate_exhausted` shows that it is
  needed. With a pool of 20 the server must work on fewer than 20 such requests.
  `GateKeepsLedger` maps the gate's steps to the ledger's: `Spec => LedgerSpec`, if
  `Amounts` has the charges and the top-ups.
* `PackTemplates_proofs`. `AdminInv` describes where each upsert stands: the version it
  planned against those in the table (`Planned`), that past its `UPDATE` no older row is
  active (`Cleared`), and that a planned version is inserted once (`InsertedOnce`).
  `Contiguous` and `OneRowPerVersion` restate the versions of a key as an interval, each
  with one row. `CacheIsCurrent` is `StaleOnlyIfOvertaken`: what a load has read and no
  `DEL` has overtaken is what the tables held at a time that only the `unsettled`
  requests have changed since.
* `ChatTurn_proofs`. `MemoryOK` states the window by its indices (`Remembers`), which is
  inductive where the sequence expression of `MemoryIsWindow` is hard to work with:
  `PushAndTrim` says what `RPUSH` and `LTRIM` make of a list, `AppendOK` that it stays
  the window. `TurnOK` and `AnsweredOK` carry the append to the moments that depend on
  it: a turn at "deliver" is in the log since the key last expired, and so is every
  answered one. From these follow `MemoryWindow`, `CallsCounted` and `HistoryComplete`,
  an action property, for any window.
* `ToolConfig_proofs`. `Held` says where each request's connection and its context stand
  at each of its statements, `Exclusive` that no two requests hold one connection,
  `PoolOK` that idle ones work for nobody, and `Answering` that what a reader has read
  is one of the states its rows had, and the pack of a chat turn one that it may be
  served. `OneConnectionSuffices` follows from these: if a request is under way, then
  one is that waits for nobody, because a writer that holds a row has nothing left but
  to commit.
* `Admission_proofs`. The same of the middleware's connections (`Held`, `Exclusive`),
  `Judged` for the checks a request has passed by the place where it is, and `Recorded`
  for the audit rows. `LentIsHeld` says that a connection that is out is out with a
  request, for another `OneConnectionSuffices`: no request asks for its next connection,
  the audit's included, before it has given the last one back.
* `Scheduler_proofs`. `GrantsInv` adds to `OncePerProcess` that a tenant still to come
  in a run has no posting of this month and that a month to come has none: a run may
  last into the next month, but none starts before it is over. `UsageInv` says of each
  call that its records are what its usage makes of them (`CallOK`: the cost is that of
  the tokens passed on, the amount that cost rounded). `BillCovered` is then arithmetic,
  family by family: the two half-even roundings and the `float` between them cost a
  quantum at most, and where a cached token is counted at the full price it is off by
  the discount and no more. `AlarmCause` needs sums over the calls of an hour:
  `SumsClose` bounds the difference of two by the number of their terms, so that
  roundings alone can raise the alarm only where the hour has more debits than the
  tolerance has quanta. A sum over a set is the library's recursion, and the induction
  that it would take is replaced by the smallest set that is a counterexample.
* `ModelSelection_proofs`. `TurnOK` follows a turn from `await` to `await`: what it has
  read is in its history (`WitnessOK`, `ReadOK`), and what it derived is still derived
  from that (`EffectiveOK`, `IntentOK`, `PromptOK`, `ExecutorOK`). It is about `Select`
  too: the first registered provider of a preference list, and that there is one.

The assumptions are the named `ASSUME`s of the modules: finite sets of calls and slots,
costs that are not negative, charges from 0 to `MaxCharge`, opening wallets of the gate
that owe nothing, column limits, windows, tolerances and pool sizes that are numbers,
markers distinct from values; of prices that the cached one is at most the full one, as
in every row of `scripts/seed_pricing.py`; of a deployment that its keys are for
providers the registry lists. Top-ups are any integers. `OneConnectionSuffices` assumes
a pool that is not empty.

Every safety property that a passing run checks is a theorem, but for
`SomeoneCanGiveBack`, which `LargePoolSuffices` proves under its condition on the pool.
Model-checked only is liveness (`EveryCallReturns`, `WaitersProceed`, `EveryTurnEnds`,
`EveryRequestEnds`, `EveryListedTenantIsTried`, `EveryRequestIsAnswered`), since the
prover has no ENABLED or fairness. The two `OneConnectionSuffices`,
`WaitersWaitForHolders` and `LargePoolSuffices` prove the part of it that is safety: no
state is reachable in which all wait for each other.

## 5. What disagrees with the documentation

`PROJECT.json` quotes both sides of the three that a run shows: checks of missing
wallets can exhaust the pool for good; a chat turn fails on every tool that its tenant
enabled; a call on a model whose cached tokens are free or unpriced is logged at no
cost.

Without a run of its own, and in the model as the code has it:

* The wallet is invisible to the documented role. `README.md:269` and `:451` have the
  service connect as `ai_app` under row-level security, and the wallet's statements set
  no tenant: `AppBypassesRls = FALSE` makes every call answer "not found".
* `check` never reads `is_hard_stop` although its docstring (`wallet_gate.py:21`) names
  it. The mutation `ReadBalanceAndHardStop` is the docstring's version, and
  `OverdraftBounded` fails under it: without a hard stop nothing would bound what a
  tenant owes.
* Nothing in `src/` calls `WalletGate`, so no chat call is debited; a debit that the
  hard stop refuses is logged and forgotten (`DebitAfterCall`).
* A first top-up is answered 404 when no check has created the wallet yet, although
  `ONBOARD_NEW_TENANT.md` sets up a wallet with one.
* `INDUSTRY_PACK_GUIDE.md:119` has the cache cleared by an update; a load that read the
  old rows can refill it until it expires (`loader.py:70`). `StaleOnlyIfOvertaken` has
  this and a request that dies before its `DEL` as its exceptions, and no other.
* A turn that fails after an LLM call logs no usage: `final_usage` is always `None` at
  `chat.py:126`, although the branch below it is meant to log the call as a failed one.
  Usage is lost as well when the append fails, the process stops or the database fails,
  which `FinishedCallIsCounted` has as its exceptions, and the classifier's calls are
  never logged, all against `README.md:50`.
* `chat.py:64-68` and `:113-117` copy the prompt, output and total counters into the
  usage that is logged and drop those for cached and thought tokens (`PassOn`).
  `LoggedCoversBill` is about the counters that are passed on.
* Top-ups are not validated (`admin_wallet.py:22-24`): a negative one is a withdrawal
  that no hard stop refuses, and can take a wallet below zero. `OverdraftBounded` has
  what they took on top.
* Under row-level security the endpoint that deletes a tool's row fails, since migration
  006 grants `ai_app` no `DELETE`.
* `README.md:403` says of the reconciliation that it "raises an alert if there's a
  mismatch". Its JOIN drops a tenant with rows in one table only, and it compares costs
  with debits that contain the markup, so a markup alone can raise the alarm;
  `AlarmHasCause` is therefore about tenants without one. Under row-level security it
  sees no rows at all.
* `README.md:454` says that every security event is logged to `audit_log`; refusals of
  missing headers, of a timestamp that is no number and of an inactive tenant are not.
  `RefusalsAreAudited` has these three as its exceptions.
* Two processes grant a month twice (`MonthlyGrants`); a process that is down on the 1st
  does not make up for it.
* Of `tenant_model_overrides` and of a pack's models only the executor's is used: the
  classifier comes from a fixed list, and `tools` is passed to `_build_executor` for
  nothing. A tenant's own model whose provider has no key is replaced by the system's
  default, not by the pack's.
* Under row-level security `resolve_for_tenant` finds no assignment, since its
  `set_config` is over before its `SELECT`: every tenant has `generic@1.0.0`, and
  assigning a pack has no effect, against `README.md:41`. `AnswersAreTrue` says so
  (`PackServed`).
* A failed read of the tool configuration offers even disabled tools (`Except`), and the
  admin's tool list fails for a tenant without a row for every tool (`Raises`), which
  `HOW_TO_BUILD_TOOL_PLUGIN.md:640` describes as `is_enabled: null`.

## 6. Not modelled, and what could come next

* Tool plugins and their log: `BaseTool.execute` imports a module that does not exist
  (`src.services.tool_logger`) and no code calls it; discovery is sequential at
  start-up.
* Prompt rendering and vector search: text and I/O without state. The providers endpoint
  and the settings: static data. The vendors' SDK calls and Langfuse: I/O.
* The seeds and one-off scripts: run once, by hand; their rows are the instances of
  `MCUsageAccounting` and `MCModelSelection`.
* `ConversationMemory.append` and `clear`, which have no caller; `create_pack`, whose
  rows are inputs of `PackTemplates`; the read-only reports of the wallet endpoints; the
  policies of migration 001, which raise without a setting instead of hiding rows.

Next would be `PackTemplates` under `ModelSelection`, so that a turn's pack changes
while it runs.
