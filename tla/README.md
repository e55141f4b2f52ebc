# Maintainer's Copilot in TLA+

Maintainer's Copilot is a FastAPI service that answers questions about a
repository's issues and docs: a language model in an agent loop, tools that
classify, extract, search and remember, a chat widget that can be embedded in
other sites, and administrators who configure those widgets. This directory
models the parts of it whose behaviour depends on interleaving, failure and time,
checks the models with TLC and proves the most important facts with TLAPS.
Paths below are relative to the repository's root; line numbers of every
modelled definition are in `PROJECT.json` under `map`.

## The system

| Component | State it keeps | Operations | Talks to |
|---|---|---|---|
| Widget configuration (`app/services/widget_config.py`, `app/repositories/widget_configs.py`) | `widget_configs` rows; one Redis key per widget, 60 s | get, create, update, delete, list | Postgres, Redis |
| Widget routes, CORS (`app/api/widget.py`, `app/api/dynamic_cors.py`, `app/services/anon_session.py`) | none (tokens are signed, not stored) | config, embed, session, chat preflight | widget configuration |
| Admin routes (`app/api/admin.py`), audit (`app/repositories/audit.py`) | `audit_log` rows | CRUD of widgets, invite, audit list | widget configuration, users |
| Authentication (`app/api/auth.py`, `app/repositories/users.py`) | users; revoked token ids in Redis | register, login, revoke, resolve the principal | Postgres, Redis, Vault |
| Episodic memory (`app/services/memory.py`, `app/repositories/memory.py`, `app/infra/db.py`) | `episodic_memories`, `audit_log`, a pool of 4 connections | write, recall, list | Postgres, model server |
| Chat turn (`app/api/chat.py`, `app/services/chatbot.py`, `app/domain/tools.py`) | history of one turn, ContextVars | one SSE stream per request | language model, tools, memory |
| Retrieval (`app/services/rag.py`, `hyde.py`, `chunking.py`) | `chunks`, HyDE cache files | retrieve, ingest | Postgres, model server, language model |
| Model server (`model_server/`) | artifact in a lasting volume, loaded models | classify, extract, embed, rerank, health | object store |
| Boot (`app/boot/`, `app/main.py`), tracing, Vault | process-wide singletons | eight checks in order | everything |
| Training and ingestion (`scripts/`) | artifact and its pin, `chunks` rows | train, pin, upload, ingest | object store, Postgres |
| Evaluation gate (`evals/`, `.github/workflows/ci.yml`) | reports and baseline in the object store; the meter of the RAGAS judge | measure, compare, upload, gate, promote | object store, language model |
| Widget front end (`widget/`, `app/api/loader.py`) | messages, pending flag, theme | inject, bootstrap, send, consume the stream, post messages | chat route, host page |

Where it is hard:

* One event loop. Every coroutine runs to its next `await`; between two awaits
  of a request anything may happen. The cache fill (`widget_config.py:85-91`),
  the CORS decision (`dynamic_cors.py:104-119`) and the agent loop all use after
  an await what they read before it.
* Two stores without a transaction across them: a row and its Redis key, a
  change and its audit row.
* Failures are swallowed (Redis), turned into values (`ToolFailure`), into
  events (`error`) or into a 500, differently at each place. A statement may
  commit and its answer be lost.
* Four connections serve everybody, and clients disconnect in the middle.
* The language model decides which tools run, how often, with which arguments.
* Bearer tokens live by a clock that is finer than the whole seconds of their
  expiry and of the revocation that must outlive them.
* Files are written in place and downloaded one by one; a process that fails or
  dies in between leaves what the next reader takes for whole, and another
  process may be reading meanwhile.
* Workflows of two commits, or two of one, share the objects of the gate.
* The browser delivers messages to whoever listens at that moment.

What makes each component correct: a configuration is not served for longer
than its cache entry may live; grants follow configurations; the audit trail is
true and covers what was acknowledged; memory rows and their audit rows are one;
memories do not cross principals; the pool does not wedge; an event stream is
well-formed and ends; the model is never sent a broken history; a revoked token
stays out; what an ingestion read can be found; a hit is what the model reads;
the baseline is a report that passed; a serving API runs the weights it was
built for; an answer on the screen belongs to its question.
The hazards behind these, each with its line, are in `PROJECT.json` under
`hazards`, with the property that covers it or the reason why none does yet.

## The modules

| Module | Models | Kind |
|---|---|---|
| `WidgetConfig` | `WidgetConfigService`, its table, its Redis keys, time | component |
| `BoundedStaleStore` | what callers of that service are promised | abstract specification |
| `WidgetApi` | routes, CORS middleware, admin CRUD, audit, over `WidgetConfig` | composition |
| `Accounts` | tokens, revocation list, login, registration, invite, change of account | component |
| `EpisodicMemory` | `MemoryService`, `GET /memory`, transactions, pool | component |
| `ChatTurn` | the agent loop, the tools and the SSE stream over `EpisodicMemory` | composition |
| `ChatStream` | what a client of the stream may rely on | abstract specification |
| `ChatClient` | `useChat` and its panel, reading any behaviour of `ChatStream` | component |
| `Embed` | the loader, the iframe and the messages between the two windows | component |
| `Corpus` | chunking, chunk ids, ingestion, the `chunks` table | component |
| `Retrieval` | `RAGService.retrieve` and the HyDE cache over `Corpus` | composition |
| `EvalGate` | the commands of the two CI jobs over one object store | component |
| `RagasBudget` | the request budget of the RAGAS evaluation | component |
| `Boot` | training, upload, model server, boot checks of the API | component |
| `*Proofs` | theorems about every component: `Delivery` is `EvalGate`, `RagasBudget` and `Boot`; `Widget` is `ChatClient` and `Embed`; `Retrieval` includes `Corpus` | proofs |
| `MC*` | constants for TLC, and which component rests while another runs | model checking |

### WidgetConfig

A configuration is its version number: `row[w]` counts the contents the row of
widget `w` has had, `None` without a row. `cached[w]` and `ttl[w]` are the Redis
key. A request (`pc`, `op`, `wid`, `val`) goes through the points of the code:
`cache_get` (the Redis GET), `db` (its SQL statement), `reread` (the second SELECT
of `create`), `cache_put` (SET or DEL), `returned`. Between two of them everything
else may run. Redis commands may raise at any time (`"redis" \in Faults`),
statements may raise before they run (`Fails`) or after they committed (`ackLost`),
and the process may die (`Crash`), which keeps the table and Redis.

`gone[w][v]` is a history variable: how long ago version `v` stopped being the
row of `w`. `lag[p]` is the time since the SQL statement of a request that has
not written Redis yet. Nothing in the code bounds it, so the bound is a constant,
`MaxLag`: an assumption about the environment, enforced by `TimeMayPass`. It is
not small in this program: the clients of the model server are synchronous and
can hold the event loop for two timeouts of 30 s.

An `update` with an empty patch is a SELECT (`Select`); `list_all` bypasses the
cache and is left out. Widget ids are never reused (uuid), hence the guard of
`Insert`.

### WidgetApi

A request has a `stage`: `cors` while the middleware looks up the allowlist,
`handler` while the route's service call runs, `audit` while an admin route waits
for `write_audit`. `Settled` says that a coroutine whose await has returned runs
on at once: decisions that the code makes without an await in between are made
in one piece. Every action of `WidgetConfig` is reused as it stands. A lookup
that fails is an empty allowlist (`CorsMatch`). Admin routes carry no `Origin`
here: the middleware does not look at their paths. `acked` (changes whose 2xx
went out) and `tooLate` (a session request that arrived after a DELETE had
been answered) are history variables.

### Accounts

A request (`stage`, `job`) stops where the code awaits: the revocation list
(`list`, `set`), `current_user` (`account`), the password check (`login`), the
lookup and the INSERT of `BaseUserManager.create` (`lookup`, `insert`), the lookup
of a new address and the UPDATE of `BaseUserManager.update` (`taken`, `change`) and
the two audit rows, each a transaction of its own (`audit_register`,
`audit_invite`). An INSERT, an audit row or a SET may take effect and its answer be
lost (`ackLost`, `WriteListFails`), a statement may raise, the process may die with
all requests in it. A request that is refused before its first await has no action.

An account is known by its id, which is what tokens and audit rows carry; its
address is a column, which `PATCH /users/me` may change like the password and the
role (`UpdateMe`), and which the next invite may then use. The UNIQUE constraint of
the column is a guard of `Insert` and of `UpdateMe`: between the lookup and the
statement another request may have taken the address.

Time is counted in ticks, `Sec` of them a second: `exp` is the whole second of
the issue plus the lifetime (`Issue` starts `left` at `Life * Sec - phase`), and
the key of a revocation lives `max(1, int(exp - now))` whole seconds (`RevokeTtl`).
`acked`, `handed`, `welcomed`, `changed` record what clients were told and did. An
unreachable Redis makes `ReadList` accept, which is what `_is_revoked` does. The
compose file gives Redis neither a volume nor an append-only file, so
`RedisRestarts` may lose any of its keys; it also empties `acked`, for of a lost
revocation nothing can be promised.

The users routes that ask for a superuser are left out: no code creates one.

### EpisodicMemory

`write` runs both INSERTs on one connection in one transaction (`tx_memory`,
`tx_audit`, `tx_commit`, `committed`); `recall` runs its search, then two
statements on other connections whose failures are swallowed (`find`, `touch`,
`trail`); `list` is one SELECT. A statement needs a connection (`Acquire`), and
each connection goes back to the pool with the block that took it (`Release`).
The COMMIT and its answer are two steps: `Committed` may report a failure for a
row that exists. `Cancel` ends a call at any await, `Forget(Calls)` is the
process dying.

`owner` is the pair `user_id` / `widget_session_id` as the caller passed it, so
the checks of `_resolve_actor` are exercised by pairs with both or neither.
Similarity is left open: a search returns any subset of the principal's rows. A
`recall` that raises and one that returns nothing are the same to its caller.
No code path deletes a memory: rows go only with their user (`ON DELETE
CASCADE`), and the only route that deletes users asks for a superuser, which no
code creates.

### ChatTurn

`pc[t]` follows `run_turn`: `recall`, `llm` (the model's answer is streaming),
`tools` (between two tool calls), `run` (a tool is running), `saving`
(`write_memory` is in `MemoryService`, whose steps are those of
`EpisodicMemory`), `over` (the loop has been left, `done` comes next), `close`
(the `finally`, then `[DONE]`). The model answers with any text and any sequence
of tool calls. `write_memory` reads its principal from `ctx[Context(t)]`, as the
code does from its ContextVars; the mutant `OneContext` is the global variable
it must not be. Tools other than `write_memory` are one tool, `lookup`: they
touch no modelled state. `wire[t]` is the last event the client was sent.

Left out: texts and arguments, the conversation id (it is only a label), the
`except` clauses of `_sse` (`run_turn` raises nothing they could see but a
cancellation). `enabled_tools` of a session is not enforced by the code
(`chatbot.py:150` offers every tool to every session), so the model has no guard
for it.

### ChatClient and Embed

`ChatClient` reads `Stream!Follows`: at each step the API may send whatever
`ChatStream` allows after what it sent last, which is what `ChatTurn` is shown to
obey. `sent[t]` is what the handlers of turn `t` have seen, `bubbles` what the
panel makes of it. Closing the panel aborts nothing; a stream may break between
its terminator and its end (`Finish`), which `onerror` and the `catch` treat like
any error. `Embed` has the two windows and their messages: `toHost` and `toFrame`
are in the order of the posts, and a message meets the listeners of the moment of
its delivery. `Refuse` is `frame-ancestors` or a deleted widget. A page may have a
second widget of the same API (`beside`): the loader's listener compares the origin
of a message and not its source, so whatever the other iframe posts
(`NeighbourPosts`) is taken like a message of its own.

### Corpus and Retrieval

A source is a sequence of parts (sections, or the head and comments of an issue)
with sizes in tokens; a chunk's text is an interval of tokens in a run of parts,
so whether text is lost, cut or repeated can be said without any text. `Starts`,
`Windows`, `DocChunks` and `IssueChunks` are pure functions, without recursion: a
`chunk_seq` is the number of pieces before, and the end of a merged chunk of an
issue is the last part before the next that begins one. `Ingest` inserts
every chunk of all its sources with ON CONFLICT DO NOTHING and never deletes.
Sources change between ingestions (`Checkout`). The parser of RST headings is not
modelled.

`retrieve` waits for its two searches, which run side by side, and then for the
reranker and the parents. What a search
or the reranker finds is any list of rows; the fusion compares scores as
fractions, with the weights of the code, and its sort is stable: the list in the
order `Ahead`, with ties broken by the place in the dictionary (`Entry`). The code
adds floats; two scores that differ for ranks up to `OVERFETCH_PER_SIDE` differ by
far more than they round. A call that fails leaves its other search behind, which
ends by itself.

The passage of HyDE is a file per query, written in place and taken for the passage
as soon as it exists. Half of one can be there in three ways: `write_text` raises
(`AskBroken`: `retrieve` falls back to the query, and the half stays), the process
dies (`DieWriting`), or another process, such as the evaluation of `evals/rag`, uses
the directory and is writing (`OtherSteps`). A file that cannot be read makes the
call fall back as well (`AskPlainly`). `ClearCache` removes them all.

### EvalGate, RagasBudget and Boot

A pipeline of `EvalGate` runs `measure`, `compare`, `upload`, `gate` and, after
the push of a passing report, the two copies of `promote_baseline`; each command
may break, and workflows are run again whole or from the job that broke.
An operator may promote any uploaded commit by hand, as the RUNBOOK says. All
pipelines share one object store: that is what the scripts are written for,
although the workflow as committed talks to a MinIO of its own compose file that
does not outlive it (`DECISIONS.md:153`).
`was` and `byHand` are history variables. Scores are arbitrary.

`RagasBudget` is the meter of successful requests, read before and advanced after
each: generation by one worker, scoring by several. The client library may wrap
the budget's exception, which then ends the generation like any other (`Die`).
The script may be run again, each time with a meter and a budget of its own
(`Start`), and with `--skip-gen` on the answers that an earlier run left in its
checkpoint (`kept`).

In `Boot` a file's content is the number of the training that wrote it. Training,
pinning and uploading file by file, the download of whatever the volume lacks, the
load, and the eight checks of the API interleave; `crossed` records that an upload
and a download met. `StartServer`, `StopServer` and `RemoveVolume` are what an
operator may do between two checks.

## The runs

| Run | Shows | Bounds |
|---|---|---|
| `services` | `StaleEntriesAge`: a key that differs from the table is no older than its own age plus `MaxLag`. `RefinesStore`: the service implements a table whose reads lag by at most `Window`. `EventuallyFresh`: once writes stop, keys end up absent or equal to the row. `RowsAndAuditAgree`, `AckedWritesStored`: memories. `PoolRecovers`: the pool. | 1 widget, 2 requests, 3 versions, TTL 2, lag 1, both faults; 2 calls, 1 user and 1 session, pool of 2, 2 rows |
| `widget_api` | `MintsAreRecent`, `GrantsAreRecent`: sessions and CORS decisions rest on a configuration in force within `Window`. `AckedChangeAudited`, `AuditIsTrue`: the trail covers what was acknowledged and claims nothing else. | 1 widget, 2 requests, 2 versions (the first allows the page), TTL 1, lag 1 |
| `mint_after_delete` | violated: a late fill re-creates the key of a deleted widget and sessions are minted from it | as above, no faults |
| `every_change_audited` | violated: a change without an audit row | as above, no faults |
| `chat_turn` | `HistoryComplete`, `MemoriesAreTheirs`, `RefinesStream`, `TurnsEnd` | 2 turns, pool of 1, 2 iterations, 2 tool calls a turn, 1 row |
| `tool_errors` | violated: a tool call that ends the turn instead of being answered | 1 turn |
| `accounts` | `RevokedStaysOut`: an acknowledged revocation holds while Redis answers and is not restarted, to the last second of the token. `AnswersAreAudited`, `TrailIsTrue`: the trail of accounts. `HandedPasswordWorks`: the address and the password an invite told are those of its account and of no other, until its owner changes one, whoever races for the address. | 2 requests, 3 accounts and addresses, 2 passwords, 2 login tokens, 2 session tokens, 2 ticks a second, 2 seconds of life |
| `delivery` | `BaselineMeetsFloors`, `DropsAreWithinMargin`, `HistoryWasInForce`: the gate. `SpendIsBounded`: the budget is exceeded by less than the number of judges. `ServesConfigured`, `OneTraining`: what a serving API and its model server are made of. | 2 pipelines, 2 commits, 1 metric with scores 0..3, 1 rerun; 3 workers, 3 questions, budgets 2 and 4; 2 trainings |
| `budget` | violated: judges that pass the test together spend more than the budget | as above |
| `answers` | `SourcesAreSearchable`: chunking drops no text. `DenseTextIsItsOwn`: what is embedded is the query or its own passage, and half of one only for a reason. `AgreedOrderKept`, `ExpansionKeepsRank`, `HitsAreRead`: retrieval. `AnswersAreTheirs`, `OneTurnAtATime`, `InputComesBack`: the panel. `VisibleIsReady`: the frame of a page with one widget. | 1 guide and 1 issue, windows of 4 tokens overlapping by 1, 1 call, 2 queries, 2 rows a search, 3 rows fused and reranked, 2 answered; 2 turns of 3 events, 2 messages under way |
| `section_parent` | violated: two sections of one title share a parent row, and hits of the second are answered with the first | as above |
| `theme` | violated: the host's colour is posted before anyone listens, and lost | 2 messages under way |

The bounds are the smallest at which what is asked can go wrong. Widgets do not
interact (the keys and rows of two widgets are disjoint), so one is enough for TLC
and the proof covers any number. Two requests race over one row; a third version
lets a fill be overtaken twice; `CacheTTL = 2` lets a key be half-way through its
life. Two calls can hold the whole pool and each want more. Two tool calls can come
in one answer or in two, the second iteration is the last, and three tool calls
would add nothing but a longer list. Two ticks a second are enough for a token to be
issued, and revoked, off the second; of three addresses one is the administrator's,
and an account may leave the second for the third and another take the second. Two
pipelines can be of one commit or of two, and a rerun makes one of them meet its own
report. Four scores distinguish below the floor, at it, within the margin and above.
A budget of 2 stops the generation of three answers, one of 4 lets it end and leaves
the judges one request. Three reranked rows are more than the two that are answered,
so the cut of `top_k` after the expansion is met. Sections of 8, 9 and 10 tokens end
exactly on a window, just after one, and in a tail. `MaxRows`, `MaxVersion`,
`MaxCalls`, `MaxReruns`, `MaxTrainings`, `MaxCheckouts`, `MaxTurns` and `MaxEvents`
bound what is unbounded in the program; at a bound a call waits or fails, which the
code does too when its database fails, or nothing more is begun.

`services`, `delivery` and `answers` hold components that share no state. Their order
makes no difference to any property, so each is explored while the others rest
(`MCNext`); the panel runs in a frame that has settled. For the same reason
`MCAnswers` explores HyDE on an empty table, as what is embedded decides nothing
about what is found.

`MCAccounts` leaves out combinations, all of which the theorems cover. Session
tokens, Redis and the clock are explored beside the administrator's account alone,
and accounts without a session token, where Redis and the clock rest and
`/api/me` is called alone. One account changes its address or its password, and
roles stay as they are.

Faults other than those of `WidgetConfig` are no constants but part of the models:
cancellation, crash, a raising statement and a lost COMMIT answer can happen
everywhere. `CHECK_DEADLOCK FALSE` is set where the system really stops: each turn
is one request, a workflow ends, trainings and turns run out, a frame settles. The
services of `services`, `widget_api` and `accounts` never do.

The six violated properties are sentences of `RUNBOOK.md` (two), of `PRD.md` with a
docstring, of `EVALS.md` with the help of `--request-budget`, and of the docstrings
of `chunking.py` and `loader.py`; `findings` in `PROJECT.json` quotes them. The
models contain more that departs from what the repository says of itself; no run
of its own shows these:

* "Public `/auth/register` no longer accepts a `role` field, so a self-registrant
  cannot elevate to admin" (`PRD.md:150`, also `auth.py:49-51`). `UserUpdate`
  (`auth.py:56-57`) has a `role`, and `PATCH /users/me` writes it (`UpdateMe`), with no
  audit row, where `PRD.md:71` asks for one.
* "Return a 3-4 sentence hypothetical pandas-doc passage" (`hyde.py:61`): half a
  passage is embedded whenever half a file is found. `DenseTextIsItsOwn` has
  exactly these cases as its second disjunct.
* `mc:ready` comes "on auth bootstrap complete" (`PRD.md:159`): on a page with two
  widgets the message of one also fades in the frame of the other
  (`loader.py:86-89`), which is why `VisibleIsReady` has `~beside` as a premise.
* "Origin is validated on both sides" (`PRD.md:159`, `loader.py:17-18`): the
  listener of `App.tsx:27-36` looks at the type of a message only.

## Fairness

`WidgetConfig` and `EpisodicMemory` assume weak fairness of each request's next
step: asyncio runs every ready coroutine, and statements are answered. Nothing
obliges anyone to call, or Redis to work. In `EpisodicMemory` failures are
always possible and never promised (`Advance`): a call that waits for a
connection waits without a timeout, so a liveness property may not lean on its
giving up. `WidgetConfig`
also lets time pass (`WF(Tick)`). No strong fairness is assumed of `Acquire`: the pool does not
promise a waiter the next free connection, so a single call may be overtaken
for ever by an unbounded stream of others, and the liveness property is that
the pool is never exhausted for good (`PoolRecovers`), not that a given call ends.
`TurnsEnd` can be per turn because finitely many turns compete. In `ChatTurn`
repeated tokens are stuttering steps, so fairness says that the text of a model
is finite. `EventuallyFresh` has no premise about writes: versions run out,
after which nothing but a delete changes a row.

`ChatClient` assumes that the API goes on with a turn until its terminator or a
cut (`WF(Handle)`), which is `TurnsEnd`; nobody has to cut a connection, and the
panel is obliged to nothing. `Embed` assumes of the browser that it delivers posted
messages, runs the effects of what it rendered and fires the load event, and
nothing of the network. `Accounts`, `Retrieval`, `EvalGate`, `RagasBudget` and
`Boot` promise safety only: no fairness.

## The proofs

Each proof module holds for every value of the constants that the named
assumption of its component admits.

**`WidgetConfigProofs`** (`BoundsAssumption`): `TypeCorrect`,
`ServiceIsBoundedStale`, and `BoundedStaleness`, `Spec => []StaleEntriesAge`. `StaleEntriesAge` is not
inductive: `Put` copies `val[p]` into the cache, and nothing in it says how old
`val[p]` may be. The inductive invariant `IInv` adds `HeldIsRecent` (what a
request will write was superseded no longer than `lag[p]` ago),
`CurrentIsAgeless` (the row itself and versions to come have age 0) and
`RowWasCounted` (the row is a version its widget has had, so the next one is
new). A step that writes SQL can only start a version's age at 0, the Redis
write starts the key's age at 0 and hands over `lag[p] <= MaxLag`, and `Tick`
adds one to the age of the version and of the key alike. Every other action is
`Quiet`.
`ServiceIsBoundedStale` (`Spec => RefinesStore`) is the refinement of
`BoundedStaleStore`. Beyond `IInv` it needs `Backed`: a version in Redis is one the
widget has had (`CachedWasCounted`), what a request has still to write there is too or
is the end of a deleted widget (`HeldIsReal`), and only a read starts at Redis
(`ReadsStartThere`). An answer is given when the last await of the call returns; with
these it is one the store allows at that moment, exact where it says "not found" or
"deleted", and every other step maps to a step of the store or to none (`StoreStep`).

**`WidgetApiProofs`** (`BoundsAssumption`, `AllowAssumption`): `TypesHold`,
`ChangesAreAudited`, `TrailHoldsTrue`, `MintsRestOnRecent`, `GrantsRestOnRecent`.
It takes the theorems of `WidgetConfigProofs` over by INSTANCE, as every step of a
route is a step of the service or leaves it alone. `ApiInv` adds where a request
stands (`Routed`), that what it just got was in force a `Window` ago (`Fresh`:
this needs `StaleEntriesAge`, and survives because a coroutine that was answered
runs on before time or anyone else does), and that what it will audit took effect
(`Real`) and cannot be taken back (`TookStays`).

**`AccountsProofs`** (`AccountsAssumption`): `TypesHold`, `RevocationHolds`,
`RevokedTokensStayOut`, `AnswersHaveRows`, `TrailHoldsTrue`, `InvitesCanLogIn`.
The type invariant needs what a request carries at each await (`WellFormed`).
Revocation rests on arithmetic: the ticks a token has left at `revoke` are fewer
than those of the whole seconds the key is kept plus one second (`TtlFacts`), which
holds on while the SET is under way (`RevokingSuffices`) and after it
(`RevocationOutlivesToken`), since a tick takes one from both. The trail rests on
what the audit stages found (`Created`): the account they are about exists, with
the address and the password of this very invite unless its owner changed one since.
So what was told is kept (`HandedIsKept`), and as no two accounts have one address
(`AddressesApart`), nobody else has it.

**`EpisodicMemoryProofs`** (`MemoryAssumption`): `TypeCorrect`, `OneTransaction`
and `WritesAreStored`. The COMMIT keeps ids unique only if no row and no other
transaction has the id it brings (`DraftsApart`); it brings a row with one owner
only if no other call gets as far as the database (`OwnerResolved`); an answered
write is stored only if a call past its COMMIT has its row (`CommittedStored`)
and a successful `recall` or `list` is no write (`AtItsMethod`). With these,
every step but `Commit` and `Trail` leaves both tables alone (`Quiet`), `Trail`
adds a row of another kind, and `Commit` adds the memory and its audit row
together.

**`ChatTurnProofs`** (`ChatAssumption`): `TypesHold`, `HistoriesAreComplete`,
`MemoriesStayTheirs`, and `TurnsKeepTheContract`: `Spec => RefinesStream`, the
implementation of `ChatStream`. The memory's part comes from
`EpisodicMemoryProofs` by INSTANCE. `PrivateAt` says that a call to the memory is
under way only while its turn waits for it, for the principal in the turn's own
context, and has read rows of that principal only: rows are never taken away, so
it stays true. `OwedAt` says that each tool call of the history is answered, or
stands at its place in what is still to be run: asking appends what it owes
(`AskingOwes`), an answer pays the first of it (`AnsweringPays`), and at the
model nothing is owed. `OnWireAt` gives for every point of the turn what its
client was sent last, from which each step follows by `Follows`; a crash is the
second disjunct of `ChatStream`'s next-state relation.

**`DeliveryProofs`** (`GateAssumption`, `BudgetAssumption`, `BootAssumption`).
*The gate*: `TypesHold`, `BaselinesAreGated`, `HistoryIsTrue`, `DropsKeepTheMargin`.
The first two properties are about commits that were not promoted by hand and have
one pipeline (`Guarded`): for them the object `runs/<sha>.json` is the report the
gate read, from the gate to the last copy, and across a rerun of the second job
(`Settled`). `Reports` says that a verdict is true to the numbers next to it
(`Honest`), which gives floors and margin.
*The budget*: `TheCapHolds`. The meter alone is not inductive, as it says nothing of
requests that passed the test and were not answered yet; `Metered` counts them as
if they had been: at most `limit + Cardinality(Workers) - 1`, for the last to be
sent found the meter below the limit and itself not among them. While answers are
generated there is one request at a time, and the bound is the limit itself. Each
run of the script starts with a meter of 0, whatever the run before left.
*The boot*: `TheApiServesWhatWasPinned` and `AnArtifactIsOneTraining`, from one
invariant that follows a file from the training through the upload (`Uploaded`),
the bucket (`Bucket`) and the volume (`Volume`) into memory (`Loaded`), and says of
each check what it has established for good (`Booted`). `Volume` needs its second
half, that the missing files will be of the same training, which is what `crossed`
takes away. `DeliveryTypes` has the types of the three.

**`WidgetProofs`** (no assumption).
*The frame*: `FadesInWhenReady`. Only `Render` posts `mc:ready`, so wherever that
message is, or has been, both fetches were answered; none of that is ever taken
back (`ReadyInv`). With another widget beside it this is not so, and `ReadyInv` says
nothing of such pages.
*The panel*: `AnswersStayWithTheirTurn` and `TurnsTakeTurns`. A bubble is compared
with the events of its turn by counting them (`Mirrors`), which every event
preserves (`NextEvent`). A result is put into the last call of its name: that this
is the call it belongs to is not a matter of the panel but of the stream, where
calls and results alternate (`Balanced`). One flag guards the input for all turns:
that it is set while a turn waits needs that at most one turn waits (`OneWaits`),
or the end of another would clear it.

**`RetrievalProofs`** (`CorpusAssumption`, `RetrievalAssumption`).
*Order*: `InOrderIs` says that counting what comes before a member lists a finite
set in a strict order; it gives the fused list, the numbering of the chunks and the
deduplication alike.
*Chunks*: `EveryTokenIsSearchable`. The first window that ends at or after a token
holds it, and is not one of the short ones that are dropped, because what it has
beyond the window before and the overlap is at least one token and
`MinTokens <= Overlap + 1` (`WindowsCover`); this is what the assumption on the three
constants of `chunking.py` is for, and they satisfy it (50 and 50). That the chunk became a row
is `FirstIsThere` of `CorpusInv`: a chunk that shares its id with no other chunk of
its source is in the table as long as the source was ingested with one content
only. The premise `Alone` is needed, because two windowed sections of one title
share a parent row (`section_parent`); chunks that are searched have it (`DocIds`).
`CorpusInv` also says that ids tell rows apart and that every parent is there.
*The answer*: `PassagesAreTheirQueries`, `FusionIsMonotone`, `ExpansionIsForward`,
`HitsReachTheModel`. `SearchInv` says of each call that what it found and kept are
rows of the table, each once; the table only grows, so it stays true of calls that
rest while others, or an ingestion, run (`RestKeeps`). A file of HyDE holds a passage
of its own query, and half of one only while the other process writes it or when a
write of it broke off since the cache was cleared (`HydeInv`). Agreement of both sides is a
strict difference of the fractions in each of the cases of `Score`
(`AgreedIsAhead`), and cutting a list keeps its beginning (`CutIs`). The passage kept for
a hit is at its place or before because as many passages come first before it as
places, at most (`DedupedIs`). While a file did not change and its titles differ, the
parent row of a hit is that of its own section (`ExpansionHolds`).
`AnswerTypes` has the types of `Retrieval`, `ChatClient` and `Embed`.

Every safety property of the passing runs is a theorem. Each is stated of the
specification of its own component, where the runs let components that share
nothing take turns. Model-checked only are the liveness properties:
`EventuallyFresh`, `PoolRecovers`, `TurnsEnd` and `InputComesBack`, as fairness is
outside the reach of the provers. So is induction over data as the library states
it, but not the least number: `LeastNat` and counting do its work here. Violations
are shown by TLC alone.

## What is left

In the order of their weight:

1. The routes and SELECTs that only read: `list_all`, the audit listing; the
   themes of `/config`; `/chat` and the loader script in the CORS middleware.
2. The Redis and Vault clients of the first use and the pool (`db.py:33`), with the
   race of two first calls.
3. The positive half of `section_parent` as a theorem: with titles that differ an
   expansion is exact also for sources that changed, as far as ids allow.

## Not modelled

* Metrics, splits, baselines and training as computation: numeric batch programs
  without concurrency. What they save, pin, upload and compare is modelled.
* Redaction and logging: rewriting of strings by regular expressions. No state, and
  a property would be about wording.
* Tracing: calls of a library at every span; what it sends is never read back.
* Streamlit pages: one script run per interaction, no state but an access token;
  they call the routes modelled here.
* Inference of the model server: numeric library code without state.
* Prompts, demo pages, migrations as programs, build and deployment files. The
  columns and constraints that the migrations create are in the models.
