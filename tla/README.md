# A TLA+ verification project for the gift recommendation backend (AI side)

The repository holds four Python services. The **Profiler** (`src/profiling`)
turns a recipient's data into interest tags and a pool of products, and answers
Backend with a callback. **Search** (`src/product-search`) serves generations
of the product catalog. **Chat** (`src/chat`) answers conversation turns.
**Integration** (`src/integration`) is the glue of the shared deployment: it
records the inputs of recipients for Chat, checks the visibility of products
before a callback, and keeps the Profiler bound to the catalog of Search.

This directory models the parts in which steps of several actors, failures and
restarts meet, checks them with TLC on small instances, and proves some of the
results with TLAPS for every value of the constants. `PROJECT.json` lists the
runs, the mutants that show that each property can fail, the source lines of
every definition, the hazards, the findings and the theorems.

## 1. The system

### Profiler: intake and dispatch - `intake.py`, `supervisor.py`
*State*: the queue and the slots of the Supervisor. *Operations*: admit a
request 7.6 (503 with no active catalog or a full queue, else 202), take a job,
lock its key, read the row and decide (analyse, resend, skip), run, send the
callback 7.7 with retries, record what became of it; stop and restart.
*Hard*: several processes on one database, a lock that can fail or be lost, a
request repeated by Backend at any time, also with another body, a crash at
any statement, callbacks that are taken but not answered. *Correct when*: a
result is never sent for another body than the one it was made from; the ledger
says DELIVERED or SUPERSEDED only when that is so at Backend; every version
Backend issues is answered in the end or replaced.

### Profiler: pipeline - `pipeline.py`
*State*: none of its own; writes the run row and the profile. *Operations*:
`profile()` with its stages: RUNNING row, catalog, tags, scores, pool, result
committed (RESULT_READY), profile upserted; `_fail`. *Hard*: every stage can
fail, and each failure leaves a different pair of row and profile. *Correct
when*: the result is on disk before a callback leaves, and is what is sent.

### Profiler: stores - `stores.py`
*State*: `profile_runs` (one row per recipient and source version),
`recipient_profiles` (one row per recipient). *Operations*: the run upsert that
keeps a stored result, `_SUPERSEDE_OLDER`, `run_lock`, `recover_stale_runs`, the
profile upsert with its version guard, `delete`. *Hard*: a statement snapshot
against an advisory lock; a lock connection that doubles as the worker's
connection. *Correct when*: a profile never goes back to an older version; one
row is never written by two runs that both believe they hold it.

### Profiler: callback client - `backend.py`, `integration/profile_callback.py`
*State*: none. *Operations*: one callback; the answer becomes a run status.
*Hard*: an answer that never arrives. *Correct when*: no answer means "send
again", never "delivered".

### Recipient input store - `integration/recipient_data.py`
*State*: `recipient_input_versions` (the body of each known version),
`recipient_inputs` (the latest, and the last successful analysis). *Operations*:
`record`, `is_current`, `record_analysis`, recovery of an analysis that ran
before its input was recorded, `migrate`. *Hard*: requests out of order, the
same version with another body, an analysis that ends after a newer input.
*Correct when*: Chat never reads an analysis beside an input it is newer than or
was not made from, nor one without a stored profile.

### Search gate of the Profiler - `integration/profiler_rebind.py`
*State*: the current binding, retired bindings with their readers, the counts of
admitted and running jobs, the flags that stop admission. *Operations*: submit a
job, run it on its binding, read outside a job, refresh to another generation,
stop, close. *Hard*: jobs, health checks, a refresh and shutdown run on different
threads under one condition that none of them holds from end to end; every step
of a refresh can fail. *Correct when*: no client is closed in use, each is closed
exactly once, a refresh sees no job of the old catalog, and the gate opens again.

### Profiler: guards, algorithms, catalog
`integration/profiler_boundary.py` and its neighbours demand that a result was
made with the model and the vectors, on a generation Search still holds; what a
run missed is remembered per thread, beside a pipeline that swallows it. The
algorithms (`selection.py`, `incremental.py`, `changes.py`, `tagging.py`) decide
which tags are made anew and which are kept, how products are ranked and picked;
tags are handed on over versions that are saved in any order. `catalog.py` reads
the catalog of the Profiler's own database with a cache shared by threads, which
`load_catalog.py` changes in several transactions; `search_api.py` reads it from
Search page by page under a lease. The service shell (`main.py`, settings, health)
starts recovery and orders shutdown. *Correct when*: no stored result lacks what it
needed, a tag rests on texts of its own version, the pool leaves nothing out
without a reason, a request sees one version of the catalog.

### Search: generations - `catalog_store.py`, `catalog_runtime.py`, `search/reloading.py`, `search/catalog_bindings.py`
*State*: the active and the pending generation, the confirmed exports and their
tombstones, the file CURRENT, the service in memory with its readers, the leases
of clients. *Operations*: confirm, prepare, propose, activate, reject, poll, swap,
bind, renew, release, expire. *Hard*: writer and server each fenced by a session
lock they can lose; a crash between activating the row and swapping the service;
leases that end under a reader. *Correct when*: what is served is a generation
active during the call, without what was deleted; a generation somebody reads is
not closed and one that nobody reads is; the service settles.

### Search: query path and synchronisation
*State*: counters of running searches, a cache of results, the encoder's queue and
its child process, QA records. `app.py`, `search/service.py` and
`search/embedding.py` answer a query; `tools/sync_postgres.py` and
`tools/catalog_bundle.py` propose a generation. *Hard*: deletions and swaps under a
running search, late answers of the child, shutdown while a child is started.
*Correct when*: counts are exact, nothing deleted is served, pages continue one
another, a query gets its own vector.

### Chat: turns and the runtime lease - `store.py`, `runtime.py`, `main.py`
*State*: the lease row with its owner and expiry, turns and their events, the
admission switch, the tasks of the process. *Operations*: acquire and renew the
lease, admit a turn, start it, emit events, finish, cancel, recover the turns of
a dead owner. *Hard*: an owner whose renewal was not answered, two requests of one
turn, cancellation against the last event, shutdown against a new turn. *Correct
when*: an admitted turn ends in exactly one terminal event, event numbers have no
gap, and a process that lost the lease writes nothing.

### Chat: answers and streams
`low_latency.py`, `gift_core/harness.py` and the layers over it run a tool loop
whose session is restored from the last turn. `streaming.py` gathers the model's
pieces into events, `resource_limits.py` limits the readers, `llm_connection.py`
holds the model endpoint an administrator may change. *Hard*: what a turn may hand
to the next one; a stream that breaks; readers that connect again. *Correct when*:
no private dislike becomes a condition of the user's, a completed answer is whole,
the revision in a receipt names the connection that was used.

### Chat: bridge, reports, sessions, page
`bridge.py` and `bridge_worker.py` carry store calls over a socket the worker
opens; `store.py` files reports and pages through them; `demo_api.py` and
`minimal_chat/server.py` let browsers reach conversations; `static/chat.js` is the
page. *Hard*: reconnects under calls, ids that clients choose, answers that come
when the page has moved on. *Correct when*: a call ends once and truly, a
conversation is used for its own sender, no question is lost.

### Console and operations
The console (`server.py`, `admin_auth.py`, `products.py`, `launch_fixture.py`) logs
an operator in, freezes and sends turns, binds a fixture's input, shows product
cards. `integration/provider_key.py` keeps a credential in a file; the Alembic
revisions and `migration_upgrade.py` move the database. *Hard*: lost
acknowledgements, a session that ends under a request, a save that stops at any
system call, writers beside a migration.

### How they interact
Backend -> intake (HTTP), intake -> input store (one transaction), intake ->
Supervisor (queue; in the shared deployment through the Search gate), worker ->
database (one statement per step, on the connection of its lock), worker ->
Search (lease, products), worker -> Backend (callback), sync job -> Search
(HTTP), Chat -> input store and profile (reads), Chat -> Search.

## 2. Modules

| module | models | proofs |
|---|---|---|
| `RecipientInputs` | `integration/recipient_data.py`, as operators on its three variables | `ProfileRunsProofs` |
| `ProfileRuns` | intake, pipeline, stores, callback client, over `RecipientInputs` | `ProfileRunsProofs` |
| `RequiredRuns` | the guards around the pipeline: `profiler_boundary.py`, `profiler_generation.py`, `profile_callback.py`, `shared_search_binding.py` | `ProfileQueryProofs` |
| `IncrementalTags` | `incremental.py` and the extraction of `pipeline.py`; the statements of `_PROFILE_SAVE` | `ProfileQueryProofs` |
| `PoolSelection` | `rank_products`, `make_pool` of `pipeline.py`, `select_pool` of `selection.py` | `ProfileQueryProofs` |
| `CatalogLoads` | `catalog.py`, `embedding.py` and `load_catalog.py` of the Profiler | `ProfileQueryProofs` |
| `ManagedSearch` | `integration/profiler_rebind.py` over the Supervisor | `OperationsProofs` |
| `ProfilerShell` | `main.py` of the Profiler: what a process checks before it serves, readiness, its pool of database connections | `OperationsProofs` |
| `TagVocabulary` | `vocab.py`: brands that change under the threads that name tags, and the names products and people share | `ProfileQueryProofs` |
| `CatalogServing` | generations, jobs, servers and calls of Search; implements `OneCatalog` | `CatalogServingProofs` |
| `OneCatalog` | what Search promises about the catalog, abstractly | - |
| `SearchBindings` | bindings, readers and retirement, with their client `search_api.py` | `OperationsProofs` |
| `SearchRequests` | slots, cache, deletions and pages of `app.py`, `search/service.py` | `ProfileQueryProofs` |
| `SharedEmbedding` | `search/embedding.py`: event loop, pool thread, shutdown, child | `ProfileQueryProofs` |
| `QARecords` | recorded searches and verdicts of `app.py`, in SQLite and PostgreSQL | `ProfileQueryProofs` |
| `ChatTurns` | turns and lease of Chat: `store.py`, `runtime.py`, heartbeat and shutdown of `main.py` | `ChatTurnsProofs` |
| `TurnLife` | what Chat promises about turns, abstractly; `ChatTurns` implements it | - |
| `GiftTurns` | the tool loop and what it hands on: `low_latency.py`, `gift_core/`, `integrated_harness.py` | `FrontProofs` |
| `TurnStream` | model pieces to events to readers: `streaming.py`, `store.py`, `resource_limits.py`, the console's relay and page | `FrontProofs` |
| `ModelConnections` | `llm_connection.py` and the administrators' pages | `AroundChatProofs` |
| `StoreBridge` | `bridge.py`, `bridge_worker.py` | `AroundChatProofs` |
| `ChatReports` | feedback, reports, reviews and their pages of `store.py` | `FrontProofs` |
| `ChatSessions` | `/demo` of `main.py`, `demo_api.py`, `minimal_chat/server.py` | `FrontProofs` |
| `ChatPage` | `static/chat.js` | `AroundChatProofs` |
| `ConsoleChat`, `ProductCards` | the Chat turns of `console/server.py`; `products.py` | `AroundChatProofs` |
| `ConsoleLogin` | `admin_auth.py` and the login of `console/server.py` | `FrontProofs` |
| `FixtureProfile`, `FixtureLauncher` | profile requests against `integration/live_backend.py`; `launch_fixture.py` | `AroundChatProofs` |
| `CredentialFile` | `integration/provider_key.py` | `FrontProofs` |
| `Migrations` | revisions 0001-0011, `migration_upgrade.py`, `catalog_transition.py`, the `migrate` job | `OperationsProofs` |
| `RoleLaunch` | `integration/containers/entrypoint.py`, `search_sync.py`: tokens and the encoder in a volume that outlives image and container | `OperationsProofs` |
| `MCProfileRuns`, `MCProfileScenarios`, `MCChatTurns`, `MCCatalogServing` | constants, symmetry and scenarios of single instances | |
| `MCParts` | one instance of each module that shares no state with another | `PartsProofs` |
| `MCLive` | the same of those with liveness | |

`ManagedSearch`, `SharedEmbedding` and `SearchBindings` run in both of the latter, in
`MCParts` for safety and in `MCLive` for liveness, where one instance of `ChatTurns`
stands, too.

The modules of proofs EXTEND several components, and `MCParts` takes its instances from
them, so that what TLC runs and what is proved are the same definitions. Names are
therefore distinct between the components of one such module.

### ProfileRuns (and RecipientInputs)
A worker is `pc[w]`, `job[w]` and what it carries; a step of it is one statement of
the database or one call out, in the order of the code:

| `pc` | action | code |
|---|---|---|
| idle | `Take` | `Supervisor._worker` |
| lock | `LockKey` | `run_lock` |
| check | `CheckInput` (integrated) | `dispatch`, `is_current` |
| decide | `Decide` | `_existing_run`, `decide` |
| start | `StartRun` | `profile` stage 0 |
| analyse | `Analyse` | stages 1-4 |
| commit | `CommitResult` | stage 5 |
| upsert, receipt | `UpsertProfile`, `KeepReceipt` | stage 6, `RecordingRecipientStore.upsert` |
| fail | `FailRun` | `_fail` |
| send | `Send`, `Invisible` | `send_profile_callback`, `VisibleProductsBackend` |
| record, supersede | `RecordReply`, `SupersedeOlder` | `_send_and_record`, `save` |
| release | `Release` | the end of `run_lock` |

`save` of DELIVERED or SUPERSEDED is two statements (`_RUN_UPSERT`,
`_SUPERSEDE_OLDER`). They are two steps because under the lock the connection is
in AUTOCOMMIT. `session[w]` tells how the worker reaches the database: `locked`
(it owns the key, and the stores use that connection), `lost` (the session is
gone, so is the lock, and every statement fails), `unlocked` (the lock could not
be asked for, and the job went on without). `Receive` and `Submit` are the
admission of a request, before and after the queue check; between them other
threads run. `Age` lets a RUNNING row become older than `RUNNING_STALE_S` at any
time, which covers every clock. A body is represented by its digest, an analysis
by the body and the catalog it read and how its tag step ended.

Backend is external. It issues versions in order, repeats the request of its
latest version, and may send another body under it; an older request that
arrives late is a fault. It takes a callback of the version it waits for and
refuses one it has moved past.

The store here is the one without the guards of the integrated runtime, which are
`RequiredRuns`; every extraction is a full one (`IncrementalTags` has the other).
`migrate()` of rows older than the input store, `delete()` of the stores,
authentication and the validation of bodies are left out.

### ManagedSearch
A step is one block under `self.condition`, or one call between two blocks. A
binding goes from not made (`snapshot[b] = None`) to open to closed
(`closes[b]`). `stage` is the place inside `refresh()`: `drain`, `compare`,
`check`, `durable`, `create`, `validate`, `swap`, `end`. A candidate may carry
any snapshot, and every stage may fail and go to `end`, the `finally` block.
`shutdown` is the place between `stop()` and `close()`. Three simplifications:
- `_close` of a binding taken out of `retired` is part of the step that took it
  out: no other thread can reach it by then.
- `StopReturn` waits until no worker has a job off the queue that has not entered
  `_run`: two statements against a timeout of seconds.
- Whether `unfinished_runs()` finds a row is left open.

### ChatTurns and TurnLife
The store: `lease`, `status` and `events` of the turns, `paused`. Its operations
are transactions and one step each; `StartAnswer`, `EmitAnswer`, `LeaseAnswer`
say what they answer, the matching `...Effect` what they write. The lease row is
an owner id and whether it has expired; `Fresh` is an id that nothing refers to any
more (`uuid4`).

A process: `job[p][t]` is the task of a turn with its admission. Its stage is

| stage | code | left by |
|---|---|---|
| exists | `_admit_and_run`: `existing_turn`, then `self.healthy` | `JobExists`, `JobGivesUp` |
| config | connection, key, model | `JobConfigured`, `JobGivesUp` |
| start | up to `Attempts` calls of `start` | `StartAnswered`, `StartLost` |
| run | `generate` | `RunEmit`, `RunEnds` |
| finish | up to `Attempts` calls of `emit(turn.finished)` | `FinishAnswered`, `FinishLost` |
| closing | a cancelled `run` saves its trace | `Closed` |

`rejected` is no stage of the code: it remembers that the last task was turned
down, and in `sure` whether none of its starts was still under way then. The heartbeat `hb[p]` goes rest - gather - (inspect) - lease when it
reconnects, rest - renew otherwise. `demand` and `covers` stand for the two
recovery versions: only whether they are equal, and whether `pending` was made for
the present one, is ever asked. `Accept` is a request of a turn; a request whose
read of the turn is out of date when it is used counts as a fault.

A call is one step with its answer. Every call whose caller stops waiting
(timeout, lost answer, cancelled task, process gone) may be kept in `late` and run
at any later time or never (`GiveUp`, `Execute`); a lost answer is a late call
that ran before the caller went on. So the steps between a transaction and its
answer are there too, at the price of a fault. `Overtaking` says whether a try of
`start` that was given up may still run after a later try of the same task.

Left out: event streams and their limits, `save_context`, quick checks, matching of
a repeated request with its turn, conversations, reports, the epoch of the store
bridge, the fixture runtime. The daily limit counts all turns: the window of a day
never moves.

`TurnLife` has nothing but the status of each turn: `Admit` under the two limits,
`End` of some turns at once, and that every admitted turn ends.

### RequiredRuns, IncrementalTags, PoolSelection, CatalogLoads
`RequiredRuns`: a worker's `failure` is `ExecutionState.failure`, set by the checked
embedding and the model calls, reset by a save of RUNNING; a body is what it was
computed from (tags, pool), and `Verified` says which bodies may be stored or sent. `bound` is whether Search still
holds the generation.

`IncrementalTags`: a run reads the stored row, extracts (in full or from the changed
texts) and saves at any later time, so versions are saved in any order. A text is its
hash; a tag is a name, the texts it rests on (paired here with what was read, which
the code does not keep) and the edition of its rules. An input without any text is among
those tried. A review whose product was
outside the catalog when it was first seen is not sent when the product comes in; and
incremental tags need not equal those of a full extraction. Neither is claimed by the
code, and no property asks it.

`PoolSelection` takes one product per step, so that the failure of the vector step
happens at any place; `NearFails` throws away what was picked. The ranking is stated by
its order: in place n stands the product that has n - 1 above it, by score, bias and
number; the bias of a person's ratings is taken from how many products got each number of
stars. Scores are integers in sixtieths, which the denominators of up to six products
divide.

`CatalogLoads`: one load, one tagging, one upload of vectors is one transaction;
a reader polls the version, takes the lock and reads products and the state of their
tags in two statements. `loaded.torn` remembers that a tagging came between them. The
version that polls are compared with and the pair that is handed out are two assignments
(`catalog.py:311` and `:312`; `SetVersion`, `PutInPlace`), and neither the comparison nor
`HandOver` takes the lock: a thread that polls between them is handed the replaced pair, or on
the first load none. So `ServedIsOneVersion` asks for a pair not older than the polled
version except between the two (`Swapping`), where it asks for one not older than the
pair that was there at the poll (`shown`).

### CatalogServing, OneCatalog, SearchBindings
A generation is the number of its export. `job` and `server` step from one
transaction, or one stretch between two awaits, to the next; `writer` and `serving`
say whose session holds which lock, and a process that lost it goes on with its old
phase until a statement on that session fails. `since` is history: which generations
were active, and what was gone, while a call was under way.
The refinement `Catalog == INSTANCE OneCatalog WITH newest <- Newest, call <- ...`
maps locks, jobs and servers to nothing: `Activate` is `Publish`, `Confirm` is
`Confirm`, `CallStart` and `CallServe` are `Begin` and `Answer`, a refusal is a
`Refuse` of its call (of all calls at once where a server dies), and all else
stutters.

`SearchBindings` has one server's event loop: a step is what happens between two
awaits. A binding counts ticks until its lease ends; `expiring` is the watch task
between its look and its releases. The client goes contract - bind - pages - check -
use, and may die or lose an answer anywhere. `CatalogServing` says when the pointer
moves; here it moves whenever readiness is closed, which allows more.

### SearchRequests, SharedEmbedding, QARecords
`SearchRequests`: a request reads the deletions, takes a slot, looks in the cache of
the generation it holds, ranks and saves; swaps and deletions happen in between. The
order of the products depends on the words asked for and on what is deleted, as scores
over the rest do; browsing (no words) keeps one order. `SharedEmbedding` keeps
the event loop (`get`, `_work`), the pool's thread (`encode`, `start`) and the thread
of `shutdown` apart; a child may answer late, twice the time or never. `QARecords` has
a DELETE that waits for a running INSERT (PostgreSQL) or a single writer (SQLite).

### ProfilerShell, TagVocabulary, RoleLaunch
`ProfilerShell`: a process starts under settings an operator chose, while the database
is migrated, goes away and comes back; `said` is its last answer to `/readyz`. A slot
holds the connection of its lock and asks for a second one; a thread of the I/O limiter
asks for one: that is all the pool sees. `TagVocabulary`: the brands are cleared, filled
and counted in three steps other threads see, under the cache of `lru_cache`; a name is a
member of a small set, words in it are a set (spelling and tokenization are left out).
`RoleLaunch`: the encoder's files are copied by truncating and writing, one file in two
steps, into a volume that a container of another image may have filled; what a role
takes for its tokens is computed from the environment and the secret files.

### TurnStream, GiftTurns, ModelConnections
`TurnStream`: the pieces of an answer are numbered, and an event has the set of those it
brings; event n of a turn is n. `Close` is the end of
`stream_answer`, after the last flush. `signals` is a set: setting and clearing the
`asyncio.Event` is abstracted to the order of reads that it allows. `GiftTurns`: the model calls any tool
with any arguments; a refused call ends the turn without a trace. Prices and brands
behave as excluded products do and are left out, as are preferences,
`recipient_scope` and the earlier protocol variants. `ModelConnections`: a revision
after a restart is drawn from 48 random bits, and is taken to be none that was used
before.

### StoreBridge, ChatReports, ChatSessions, ChatPage
`StoreBridge` numbers the links; each end learns of a break in its own time, and a
thread that was cancelled finishes as `orphan`. `ChatReports` has READ COMMITTED
transactions under advisory locks with the `now()` of their start; a page is the set of
the first entries after its cursor, and what is kept of the pages read is how often each
report was on one. `ChatSessions` has
two adapters side by side over one Chat; ids that were never verified count towards
the limit of a minimal session, as in the code. `ChatPage`: an errand is a request
under way with the view it was made for; a reload drops all errands and keeps the
session storage. An answer settles the pending question only if it is an answer to that
question (`Settled`, `chat.js:291`).

### Console, fixture, credential, migrations
`ConsoleChat` freezes the body in the session's row before it is sent; Chat is
external and takes a request at once, late, or never. In `ConsoleLogin` the second look
at the credential (`Reread`) and the session's transaction (`Succeed`, `RefuseLogin`) are
two steps: nothing else of the process runs between them, since there is no await
(`LoopIsFree`), but the operator may rotate the credential, and then the row that is
committed names the old one. It lets nobody in (`session` asks for the present credential)
and the next request deletes it; `outrun` are the logins that were overtaken before
their second look, and those leave no row. `FixtureProfile` has the network deliver late and again. In `FixtureLauncher` services
go on when their launcher is killed; the cluster itself does not crash. A job of Chat is
starting or stored, one of the Profiler posted, queued, in a worker's hand
or running; `wait_for_idle` counts the stored turns (`CountTurns`) and then asks for what
is queued and running (`AskHealth`), and `missed` remembers what was in the other places. In
`CredentialFile` each system call of a save is a step, and `onDisk` is the set of
directories the disk may hold. In `Migrations` the revisions are data (`adds`,
`drops`), the job is one transaction whose draft is `draft`, with the locks the
statements take; plain Alembic is not run while the job runs.

## 3. Runs

| run | instance | properties |
|---|---|---|
| `profile_scenarios` | 2 processes of 1 worker, 2 faults; either 1 version with 2 bodies and locks that fail, or 2 versions, 1 body and a lock that works | `TypeOK`, `ResultOfInput`, `LedgerTruthful`, `LockedSentIsOnDisk`, `LockedResultStable` |
| `integrated` | 2 versions, 2 bodies, 1 process, 2 workers, input store installed | `AnalysisMatchesInput`, `AnalysisHasProfile` |
| `answered` | the same with 1 body, fair | `EventuallyAnswered` |
| `chat_two_processes` | 1 turn, 2 processes, 2 faults | `NoStrayTurn`, `RecoveryAlone`, `GeneratedOnce` |
| `chat_one_process` | 2 turns of 2 conversations, one active at a time, 1 process, 2 faults (pauses among them), 1 late call | `TypeOK`, `OneEnding`, `NoStrayTurn`, `NoResurrection`, `RejectionIsDefinitive` |
| `catalog` | 3 exports, 2 servers, 2 jobs, 1 call, rollbacks, 1 fault, fair | `TypeOK`, `DeletedEverywhere`, `OneCatalogSpec`, `ServiceSettles` |
| `live` | `ManagedSearch`, `SearchBindings`, `SharedEmbedding`, `ChatTurns` with pauses, fair | `GateLives`, `SearchSettles`, `ChatLives` |
| `parts` | 26 modules, one small instance of each | `PartsTypeOK` and 15 more, see below |
| `callback_profile`, `undelivered`, `chat_rejected`, `chat_paused` | see Findings | one each, violated |

*Runs of several parts.* `MCParts` and `MCLive` hold modules that share no state in
the system. The variable `part` is chosen in the initial state and never changes;
`v1`, `v2`, ... are the variables of the chosen module and the others stay `Nil`. So a
run of `Spec` is a run of one module, and the states are the sum, not the product. A
property is guarded by the part it is about and is the conjunction of what the module
states under its own names:

| property | what it says |
|---|---|
| `ProfileIsVerified` | `RequiredExecution`: what is stored or sent was computed with the tags and vectors it needs, and no thread refuses a result for a failure of another job. `TagsFitTheRow`, `ReviewsOfVersion`: over any chain of incremental versions, tags and reviews are those of the row's own input |
| `PoolIsRight` | nothing excluded, no model twice, nothing missing without a reason, caps and dislikes give way in order (a reference definition against the passes of the code); both dislike modes agree where nobody dislikes |
| `CatalogIsWhole` | a thread is served one version, not older than the one it saw (between the two assignments of a load: than the pair it found); stored tags are used only if they are what would be computed. `TagVocabulary`: the tags of a product follow the brands of the catalog in use, and a dislike meets the products it names |
| `UpgradesAreSafe` | the job archives what it drops, the stamp names the schema, and only the data named in the messages can hold it up. `ProfilerShell`: a migration that runs beside strict processes does not make them unready, and who waits for a connection waits for somebody who needs no other. `RoleLaunch`: a role that serves has the encoder of its own image, whole, and all roles take one token from one secret |
| `SearchHolds` | slots exact, deleted products not served, pages continue; a saved verdict stays |
| `BindingsHold` | readers exact, what is read is open and closed at most once, a client has one generation whole |
| `GiftsHold` | products offered are those of this turn's search, dislikes are not kept, origins of exclusions are true |
| `StreamHolds` | a completed answer is whole, a page's log is a prefix, slots exact |
| `SendersHold` | a conversation serves its own sender in its own mode; what was answered "saved" is stored, pages of reports are complete |
| `ConnectionsHold` | bridge calls end once and truly; the page keeps questions and goes on; a model connection is replaced only by who saw it |
| `FixtureHolds` | one input's context, never an older one; one stack at a time, no job cut off that could be counted |
| `SecretsHold` | no fallback after a confirmed key, a confirmed save survives, no lost update; one hash at a time, throttle, a rotation before the second look leaves no session |
| `ConsoleHolds` | one body per turn, an accepted turn is readable by its login and by no other; a failed photo drops its own card only |
| `GateIsSafe` | no closed client in use, a refresh is alone, pending is exact, each client closed once |
| `EncoderIsSafe` | a query gets its own vector, no future is forgotten |
| `GateLives` (of `live`) | the gate opens again and replaced clients are closed |
| `SearchSettles` (of `live`) | abandoned generations are closed, no child outlives `close()` |
| `ChatLives` (of `live`) | the whole of `TurnLife` over the statuses of the turns (safety and the fairness of `EndTurn`), and always again a healthy process |

*Faults and bounds.* In `ProfileRuns` every statement that fails, lost session, crash,
refused or unanswered callback, late request and catalog change takes one of
`MaxFaults` faults: two in the run with two processes, so that a crash can meet a lost
answer, or two sessions be lost; one in the others. Two workers are enough for
every race on a key, since a third one only repeats the part of one of them; two
versions are enough to tell an older from a newer one, two bodies a right one
from a wrong one. `QueueMax = 1` makes a full queue happen. `MaxAttempts = 2` in
the safety run has a retry. One recipient: no step relates two of them, except
`Restart` and the size of the queue. `profile_scenarios` prunes from two sides what
would be too many states together (`OneVersion`; `OneBody` and `Locks`), by a
condition on the next state of each step.

In the Chat runs a fault is a lost answer, a read that came late, an expiry under
a live owner, a shutdown or a crash, or a pause an operator begins or ends. A takeover needs an expiry and then one more
mishap of either side, hence two faults with two processes; a late claim after
a release needs a lost claim and a shutdown. Two tries (three in the code) tell the
first from the last. One late call is enough, since its effect depends on what the
store holds when it runs and not on other late calls. The passing runs take
`Overtaking = FALSE`: tries of one task reach the store in their order, as they do
with one connection queue; `chat_rejected` shows what happens otherwise. `chat_one_process`
has `MaxActive = 1` and two turns, so that a start is turned down while the other turn
is in processing, at once or after a try whose outcome is not known, and
asked for again later. The daily limit, whose answer is the same, would take a third turn. Swapping
turns is a symmetry also in `EachItsOwn`: all that is asked of conversations is
whether two differ. `ChatIds` has more ids than any state refers to, so that
`Fresh` always is one.

`catalog`: three exports, of which the second misses a product and the third brings
it back, so that a tombstone outlives a return; two jobs and two servers so that a
process that lost its lock meets the next holder; one call, since calls do not
interact. `parts` and `live`: two of every kind of actor that can race with its like
(three logins, for a throttle of two), one more item than a limit holds, limits of one
or two. `live` has three clients of the gate, so that a second refresh meets readers
of the first. `Bounded` cuts further: one request of an administrator's page at a time
(`ModelConnections`), two concurrent runs of two versions (`IncrementalTags`), one piece
once a second reader came (`TurnStream`), reports on conversations before the first page
(`ChatReports`), questions of the environment or containers of several images, not
both (`RoleLaunch`). `TagQuestions` are the pairs of a person's tag and a product that
the small vocabulary tells apart. Symmetry is used in safety runs only. In `parts` the interchangeable
values `a1..a3`, `b1`, `b2` are only those of sets no constant tells apart.

`LockedSentIsOnDisk` and `LockedResultStable` are stated for a lock that can be asked
for. If it cannot, the code goes on without it, and accepts a second analysis
(`stores.py:238`); then two runs of a key may overwrite each other, and only
`ResultOfInput` and `LedgerTruthful` are left (both proved without any use of a
lock).

*Fairness.* `ProfileRuns!FairSpec`: worker threads run; Backend repeats the
request of a version it still waits for, and `QUEUE_MAX` is above what it sends in
a tick, so that a repeated request finds room in the end (strong fairness of
`Queued`); a container that died is started again; time passes; Search serves a
catalog again. No fairness is assumed of any successful outcome: faults are
bounded instead. `ManagedSearch`: threads run; a job ends, having calls
with time limits only (strong fairness of `Finish`, since reads of the same job
disable it again and again); `refresh()` waits up to a deadline, so that `Drain`
can give up at any time; once shutdown has begun it goes on. Shutdown itself need
not begin. `ChatTurns`: a task goes on and ends (every call has a time
limit, generation one of 180 s), the heartbeat is a loop, an expiry comes, a
process that is down is started again, a shutdown goes on. Nothing is assumed of
late calls, clients or operators: a pause may last for ever. `CatalogServing`: the
watch task polls, a container that stopped is started again; jobs and calls need not
go on. `SearchBindings`: time passes, the watch task goes on, calls of the server end;
nothing is asked of clients. `SharedEmbedding`: reads have deadlines, the pool and the
loop go on; the child may be silent. `MCLive` states these conjuncts again, each
guarded by its part.

*Deadlock* is checked in the Chat runs. In the others it is not: the system may
rest when nobody asks anything, at the end of its bounds, or once it is shut down.

## 4. Findings

Shown by a run that TLC finds violated:

- `callback_profile`: `pipeline.py:415-416` puts a run back to FAILED when the
  profile cannot be saved, so that no callback leaves without a profile for Chat.
  A process that dies after RESULT_READY and before the upsert (or loses its
  session there, so that FAILED cannot be written) leaves RESULT_READY. The next
  request of the version resends the result; the profile is never saved.
- `undelivered`: `_SUPERSEDE_OLDER` runs when a newer version is saved. A run of the
  older version that ends RESULT_READY after that stays undelivered, which
  `stores.py:110-111` says must not happen.
- `chat_rejected`: `runtime.py:280` takes a rejection of a later try for the proof
  that the turn was not admitted, and demands no recovery. If the earlier try, which
  timed out, reaches the store after the rejection, the turn is admitted: it stays
  in processing with no task until a client asks for it again. It needs a call that
  is overtaken by a later one (`Overtaking = TRUE`).
- `chat_paused`: `store.py:40` says that in a pause existing turns retain their lease
  and finish, and `integration/RECOVERY.md:8` asks for exactly that. But a new
  question in a pause is answered 503, the task cannot tell this from an unknown
  outcome, and after its tries it demands a recovery, which cancels all tasks
  and fails their turns. Nothing but the pause is needed (it takes the one fault of
  `MaxFaults = 1`; three tries as in the code).

Met while modelling; where a model has the step, the property next to it leaves out
exactly that case, by a history variable or a condition named in the module
(`PROJECT.json` quotes the lines):

- a resend that gets no answer is saved as RESULT_READY through the guarded store and
  may be overwritten with FAILED (`RequiredRuns`);
- `--allow-older` cannot roll back past the newest confirmed export (`CatalogServing`);
- products and the edition of their tags are two statements (`CatalogLoads`, `torn`);
- `--no-activate` changes the products of the active version (no run: the constant
  `Inactive` of `CatalogLoads` turns it on, and the products then are newer than the
  version; stored tags of that version may then be those of other texts, too);
- tags written between the job's copy and the lock of 0006 are lost (`Migrations`,
  `raced`); a database that plain Alembic took to 0008 has no table of source
  categories, which Search reads;
- low-rated reviews alone never reach the model, though `validate` accepts dislikes
  from them; `list_gifts` is offered where calling it fails the turn; a product shown
  again has old facts under the present snapshot (read from the code, no run);
- a thread that polls between the two assignments of a load is handed the replaced catalog,
  and on the first load fails, although `catalog.py:257` takes the pair for filled
  (`CatalogLoads`, `Swapping`);
- the launcher's "refusing forced shutdown" (`launch_fixture.py:583`) does not see a turn
  that is not stored yet, nor a run between the queue and the worker's count
  (`supervisor.py:124-130`): those may be cut off (`FixtureLauncher`, `missed`);
- a rotation between the second look of a login and its commit leaves a session row of
  the old credential, of no use and deleted by the next request (`ConsoleLogin`, `outrun`);
- pruning deletes a verdict that was answered "saved" (`QARecords`, `overtaken`);
- the chat page can be left busy with no button after a failed reconnect (`recover` in
  `ChatPage`), or hide the button of a question that is still pending: when another turn
  ends, or when a question delivered twice is refused (`chat.js:201`, `:300`). The page is
  free then, and `PageGoesOn` asks for no more than a button or a page that is not busy;
- a thread that names a tag while the brands are cleared for a new catalog finds none
  under a name it has just seen there: a KeyError out of `_compute`
  (`TagVocabulary`, `failed`).

## 5. Proofs

Eight modules hold theorems; `PROJECT.json` lists those a reader should know. Every
theorem is for any sets and any bounds that the assumptions named allow, and for any
number of faults. A proof has one lemma for each action and each conjunct of the inductive
invariant that the action can disturb; the type invariant is the first conjunct.

### ProfileRunsProofs
Under `InputConstants` and `RunConstants`: `TypeCorrect`, and

- `ResultsAnswerTheirInput`: `Spec => []ResultOfInput`. A row in RESULT_READY,
  DELIVERED or SUPERSEDED and a worker about to send have a result of the body
  they stand for. Not inductive by itself: a worker between `Analyse` and the
  callback carries the result through five steps. `ResultInv` adds
  `CarriedOfInput`, that what it carries was made from its job. `Decide` then
  gives back a stored result only where the digests agree, and `Upserted`, which
  keeps an old result under a new digest, does so only for RUNNING and FAILED.
  No lock is used: the property holds when every lock fails.
- `LedgerIsTruthful`: `Spec => []LedgerTruthful`. `LedgerInv` adds
  `IssuedOnly` (no request, queued or in hand, is ahead of Backend, so a refusal
  means that Backend has moved past) and `RepliesTruthful` (the answer a worker is
  about to record is true of Backend, which only moves on).
- `AnalysisIsOfTheInput`, `ReceiptsStandForProfiles`: `[]AnalysisMatchesInput`,
  `[]AnalysisHasProfile`. `AnalysisInv` follows a request: in the integrated store whatever
  is queued or handled was recorded first (`RecordedOnly`), and a recorded body never
  changes; so a result, which is of its job (`ResultInv`), makes a profile of a recorded
  body (`ProfileRecorded`); and a receipt is written after the profile (`ProfileFirst`),
  which never goes back.
- `SendsWhatItStored`, `ResultsStay`: `[]SentIsOnDisk` and `ResultStable` for a lock that
  can always be asked for (it still can be lost at any time). `LockInv`: one holder to a
  row, every worker past the lock holds or lost it, and a holder knows its row. The others
  may at most mark a row without a result FAILED or old (restart, `Age`), or one with a
  result SUPERSEDED, neither of which touches the result; a worker that lost its lock
  can write nothing. `LockedSendsStored`, `LockedResultsStay` are the same as the run
  `profile_scenarios` states it, where the scenario with two versions is the one with locks.

### ChatTurnsProofs
Under `ChatConstants`, with or without pauses and overtaking:

- `TurnsEndOnce`, `TurnsLiveAsPromised`: `[]OneEnding` and `Spec => Life!Spec`, the safety
  half of `TurnsLive` (which the run checks as part of `ChatLives`). They rest on
  `StepTyped`: of all that happens, the turns see four things only (`StoreStep`): nothing,
  an admission under both limits, an event of a turn in processing, or a sweep. It needs
  `Typed`, which says of tasks and of late calls that what they are about to write is an
  event; nothing is needed of leases, since `emit` and the sweep look at the status.
- `RecoveryIsAlone`: `[]RecoveryAlone`. `AloneInv` adds `QuietAt`, that from the moment
  the heartbeat gathers, the process is not healthy and its tasks are waiting before the
  look at `healthy`, or are being cancelled. Most steps are a `TaskMove`, which cannot get
  past that look.

An owner id is a `uuid4`: the rest is for an infinite `Ids`, so that `Fresh`, an id that the
state does not refer to, exists (`FreshIsNew`: what the state refers to is finite). The runs
have finitely many, and more than they can refer to.

- `ChatTypes`: `HostInv` adds to `Typed` what is known of ids, calls and processes: one
  that is not down has an id, a heartbeat that asks for a lease has prepared it, a process
  that is down has no task.
- `ReleasedForGood`: `[]NoResurrection`. `NoWayBack` says why: there is a set of owners, the
  present one among them and none that gave the lease back, and every exchange still asked
  for, of a process or late, that starts in the set ends in it. A release moves to a fresh
  id, to which the set shrinks.
- `NobodyStrays`: `[]NoStrayTurn`, for `~Overtaking`.
- `RejectedForGood`: `[]RejectionHolds`, whatever overtakes what: a turn turned down is not in
  processing if no start of its task was still under way when it was answered (`sure`). For
  `~Overtaking` that is every rejection, so `[]RejectionIsDefinitive`; `chat_rejected` shows
  that this cannot be had without. `Apart` says that no
  two processes share an id and that an id asked for is nobody's yet. `StrayInv` adds for
  each process that every start given up is accounted for (its turn exists, its task still
  asks, or a recovery is due), that a turned down task left no start behind, that a healthy
  owner answers for all turns in processing, and that no turn is in processing once an
  exchange it asked for has run, the sweep being part of it.
- `GeneratesOnce`: `Spec => GeneratedOnce`, with overtaking as well. `OnceInv` adds that a
  task generates under the lease of its process, and that a turn whose task still asks has
  no event and none under way from its owner; a rotation, which needs the tasks gone
  (`AloneInv`), is what makes a turn fall to another.

### CatalogServingProofs
Under `CatalogConstants`: `CatalogTypes`; `CatalogDeletes`, `[]DeletedEverywhere`, which
follows from the same of all receipts, prepared or not; and `CatalogIsOne`,
`Spec => OneCatalogSpec`, the whole refinement. `Serving` says what the phases stand for:
what a job with the lock confirmed is the newest export; what a server loaded was prepared;
a call remembers every generation that its server may still load before it is served, and
what was gone when it began is in what it will deny or gone still. A process that lost its
lock needs no clause of its own: what it may still do is harmless because a statement on
its session fails.

### ProfileQueryProofs: a query on its way, and the profile made of it
- `VectorsAreOfTheirQueries` (`SharedEmbedding`): `EncoderInv`. The pipe between parent and
  child holds at most one line, and it is the answer to the query being encoded; what
  misses its time kills the child with the pipe. So what `_work` sets, what `get` takes and
  what the cache keeps is of its own key. A future somebody waits for is pending, and a
  pending one has its query in the queue or in the worker's hands until shutdown, after
  which nothing is pending.
- `SlotsStayExact`, `PagesStayTrue` (`SearchRequests`): the slots are cardinalities of the
  requests at the stages that hold one (`SlotsInv`). `PagesInv`: a cached or returned page
  is the page of its own query, generation, deletions and offset, and a request that goes
  on from another's page has seen at least its deletions.
- `VerdictsAreKept` (`QARecords`): in tables that are not shared there is one writer
  (`OneWriter`), so nothing that an open transaction will prune gets a verdict; in shared
  ones those that did are in `overtaken`, which the property leaves out.
- `RequiredIsExecuted` (`RequiredRuns`): `[]RequiredExecution`. `RequiredInv` follows the
  failure of a thread from the call that was missed to the save: a thread that missed one
  is about to store a result with tags and no vectors, which the guard refuses, and no
  thread that works has a failure left over from another job; so every stored body is
  verified, and so is what is sent.
- `TagsAreOfTheRow` (`IncrementalTags`): `OfItsInput` is what is inductive: each tag of a
  row, and of every run that carries one, rests only on texts of that row's version, and
  the hashes beside it are those of these texts. Kept tags pass from one row to the
  next only if their hashes are among the new ones.
- `ServedProductsAreOfOneVersion` (`CatalogLoads`): what was loaded is not newer than
  the active version nor older than what its thread polled, `_version` and the pair differ
  only while the thread with the lock is between its two assignments, and neither
  ever goes back; the tags are of the product beside them unless a tagging came between (`torn`) or
  the load was not activated (the theorem asks `~Inactive` for that half).
- `DislikesMeetProducts` (`TagVocabulary`): whatever is in the cache under a key was
  computed with brands of that catalog (`ComputedFits`), a thread that names a product has
  brands there are or were, never later ones (`NamingFits`), and a question during which the
  brands stay is answered with theirs (`CleanFits`).
- `PoolsAreRight` (`PoolSelection`): each pass of the selection is stated by what it has
  already tried: whoever was tried and not picked is excluded, a twin, over the cap of its
  category, or disliked, and the next pass starts when nothing else can be picked
  (`CapFirst`, `LikedNext`, `DislikedLast`). The ranking is a permutation of the products,
  and in both modes the same where nobody dislikes.

### FrontProofs: what people see
- `GiftsStayTrue` (`GiftTurns`): what is offered is from the search of this turn under its
  own filters, also if it was searched in an earlier turn, and the origins kept with the
  excluded products name the turns that excluded them.
- `TalksAreTheirSenders` (`ChatSessions`): a conversation a session holds as verified is its
  sender's in that mode; what was never verified is only counted.
- `ReadersSeeTheAnswer` (`TurnStream`): the events of a turn, put together, are a beginning of what the
  model sent, in order, and all of it if it is COMPLETED (`AnswerInv`); what a page shows
  and what is on its wire are consecutive events (`LogInv`); the slots are cardinalities
  of the streams open (`SlotInv`), and a signal is only kept for a turn in use.
- `ReportsAreKept` (`ChatReports`): a report that did not change while pages were read was
  on exactly one of them. `ReadSoFar`: it has been seen once if it lies before the cursor
  and not at all behind it. Ties of `updated` are broken by the id, as in the code.
- `ConfirmedForGood`, `SavesReplaceTheShown` (`CredentialFile`): `DiskKeeps` is about every
  directory the disk may hold: it has the marker once a key was seen, and a record not
  older than the last one confirmed. `UnderLock`: the system calls of two saves do not mix.
- `LoginIsThrottled`, `RotationWinsOverLogins` (`ConsoleLogin`): `Throttled` counts the
  attempts of every window in the past, not of the present one alone, since a login tries
  its password after the window was looked at.

### AroundChatProofs: bridge, page, model, console, fixture
- `CallsAreTrue` (`StoreBridge`): `OnePlace` says that an operation under way is in one
  place: asked for on one connection, with the worker, or in one reply. `Truth` says that
  it is under way only after its call was sent and before anyone holds an answer, that it
  was not carried out until a task ran it, and that whoever holds an answer (the task, the
  reply, the future, the caller) holds a true one. A break only takes messages and tasks
  away (`LosesKeeps`), which is why no ordering of the two ends needs to be known.
- `PageKeepsQuestions` (`ChatPage`): a page that is busy without a button has a callback to
  come that frees it or shows the button (`SomethingComes`), unless its pending question is
  in another conversation. `ErrandsFit`: a delivery goes to where its question was asked.
- `ConnectionsAreShown` (`ModelConnections`): whatever a page shows, a request names or a
  turn was admitted with is true of its revision (`TrueOf`): either revisions have moved on,
  or the setup is still that one.
- `ConsoleKeepsItsTurns` (`ConsoleChat`): a request that was ever sent is the frozen body of
  its row, and what may still be accepted belongs to a row that its login can read.
- `FailedCardsAreDropped` (`ProductCards`): the cache has one entry for an item, made for
  it; what a call holds was made for its own item, and what failed is gone from the cache.
- `ContextsAreOfOneInput` (`FixtureProfile`): a binding never changes once made, and every
  run posted, delivered late or again, fits it.
- `OneLaunchAtATime` (`FixtureLauncher`): one launch is active, what runs is what it lists;
  once it was in use, its console is down before it drains, so that nothing new comes, and
  from the two looks on no more is under way than they missed (`Foreseen`).

### OperationsProofs: processes and what they start with
- `GateStaysSafe` (`ManagedSearch`), which collects `InUseStaysOpen`, `RefreshIsAlone`,
  `PendingIsExact`, `ClosedAtMostOnce`. `GateInv` has the counts as cardinalities of sets of
  threads (`readers` of those that read a binding, `running` and `pending` of workers with a
  job), that what is read is the current binding or waits in `retired`, that the candidate
  is known to the refresh alone, and how far a shutdown has come. The current binding is
  kept until `closed` and the end of the last job, whichever comes later.
- `BindingsAreWhole` (`SearchBindings`), for finitely many clients and calls, which is no
  bound on their number, finite catalogs and infinitely many `Idents` (`uuid4` again).
  `BindInv` has three parts. Counts are cardinalities of the bindings and the calls of a
  generation, so a binding that expiry, a DELETE and a refused request all meet gives its
  reader back with its entry, and once. `Shelves`: what is read is current or retired, what
  is retired is older than what is current, and only what is neither was closed.
  `ViewAt`: what a client has got is visible under its first contract, in full once as many
  products have come as that contract counts (equal cardinality of a finite set and its
  subset), and its last check saw the same deletions.
- `ShellStandsReady` (`ProfilerShell`): what a process was let through with stays so, since
  the database is migrated upwards only; who holds a connection and waits for another is a
  slot, and the pool has more connections than there are slots.
- `LaunchedRolesAgree` (`RoleLaunch`): a file that Search has passed in its copy is the
  image's; that a job has passed may be cut short again by another job. Search is alone on
  its volume. Tokens are computed from the environment alone.
- `UpgradesLoseNothing` (`Migrations`): the tables of a stamped revision are a function of
  it, from the eleven revisions as data (`DropsWhatIsThere`, `SchemaIsVersioned`).
  `StoreInv`: nothing in the committed database is in the way of a job. `JobStands` says of
  each place of a job what it has locked, and that what it is going to drop is in the
  archive of its draft or was written meanwhile (`raced`).

### PartsProofs: the run of the parts
A run of `MCParts` chooses a part and is then a run of that part's specification
(`RequestsRun`, `GateRun`, ... : `Spec => []~On(part) \/ ComponentSpec`). From these and the
theorems above, taken through the same instances that TLC runs, follows every property of
the run `parts`:
`PartsStayTyped`, `StoredIsVerified`, `PoolStaysRight`, `CatalogStaysWhole`, `UpgradesStaySafe`,
`SearchesHold`, `EncoderStaysSafe`, `GateIsAlwaysSafe`, `BindingsStayWhole`,
`GiftAnswersStayTrue`, `StreamsStayTrue`, `SendersAreServed`, `FixtureStands`,
`SecretsStay`, `ConsoleStands`, `ConnectionsStand`. So they hold without the constraint
`Bounded` and without symmetry. The assumptions of the parts come from `PartsAssumption`,
which TLC evaluates; `BindingsStayWhole` and `PartsStayTyped` are for infinitely many
`Idents`, of which the run has four. The types of a part are the first conjunct of its
inductive invariant, or follow from it together with a small one of their own: what a
launcher lists is launches (`LauncherFits`), an epoch counts links that were met
(`EpochFits`), who holds data has been answered (`RequestsFit`), a shell that is down
holds nothing (`CountFits`), a category with a Backend number is a
category (`LeavesFit`).

`TurnsLive` and `SentIsOnDisk` are named in the modules; the runs check them as
`ChatLives` and `LockedSentIsOnDisk`.

### What the proofs changed in the models
- `OneCatalog` had a refusal of one call, and a server that dies refuses all of its calls in
  one step: the refinement proof failed there, and `Refuse` now takes a set.
- `Receipt` and `Verdict` were CASE expressions with arms that overlap, of which TLA+ leaves
  the choice open and TLC takes the first; they are the chains of the code now.
- `Fresh` chose an id in a way that promised nothing when there is none; it is CHOOSE among
  those not referred to, and the theorems say that there is one.
- `SearchRequests` had one order of the products per generation. That deleting a product
  leaves the order of the others is true of browsing only, and the proof of `PagesContinue`
  asked for it: orders now depend on the words and the deletions, and the property is about
  what it is true of.
- `ProductCards` dropped every entry equal to the one that failed; the code removes the one
  under its key, and so does `Discarded` now.
- Several markers ("nothing", "not known") could have been equal to a value; they are
  assumed different from them now.
- `VocabularyAssumption` names what the tables of brands must satisfy for a dislike to meet
  its product; TLC evaluates it on the small vocabulary.
- `ChatPage` let an answer settle whatever question was pending; the code compares
  (`chat.js:291`), and so does `Settled` now. Its run has three questions.
- `HeldUpOnlyByData` of `Migrations` was stated with ENABLED; the guards of the job's steps
  are operators of their own now (`MayStepUp`, ...), and it is stated with them.
- `ChatReports` keeps the set of a page, `ProfilerShell` the set of held connections,
  `PoolSelection` its ranking by counting who is above: in each a sequence had been computed
  of which only that was used.

### What is only checked
Liveness (`EventuallyAnswered`, `ServiceSettles`, `GateLives`, `SearchSettles`, `ChatLives`
beyond its safety part) and everything with ENABLED are out of the prover's reach.
`NoStrayTurn` and `RejectionIsDefinitive` are not true under overtaking (of the second,
`RejectionHolds` is what remains). What a
fold computes over any sequence cannot be proved, either; no theorem needs it, since what
the models take from folds is stated by order and by counting. No module declares a
RECURSIVE operator.


## 6. Not modelled

- The model clients (`llm.py`, `v3/`): calls to a model and parsing of its text. In
  the models they are the outcomes of the tag step.
- Text: spelling of the vocabulary (`norm`, `base`, words in a text), tokenization, prompts, wording, HTML. Vectors and scores of
  a model: any set, any order.
- HTTP formats, validation of bodies, most settings, health pages (but for the
  Profiler's readiness), the supervision of containers.
- Of Chat: `admin_turn_review`, `admin_conversations`, context hydration, quick
  checks, `AgentRuntime.generate`, the OpenRouter readiness check; of the page: report
  dialogs, failures of the history list, cards, drafts and the choice of a recipient.
- Of Search: removal of old generation files, downloading and projecting an export
  (`complete_export.py`), `prepare_encoder`, whose copy is not atomic.
- Of the Profiler: `delete()` of the stores, `apply_metrics` of the catalog, the
  settings that turn incremental tags off.
- Clocks are reduced to "may have run out by now"; the daily limit of Chat has one
  window.

## 7. Plan

The modules of the plan are written, and every safety invariant and action property of the
runs that speaks of one module has its theorem. What is left is composition:
`ManagedSearch` with `ProfileRuns` through the count of unfinished rows, `CatalogServing`
with `SearchBindings` through the pointer of the generation (the latter moves it freely
now), and `ChatPage` with `TurnStream` and `ChatTurns` through the events of a turn.
