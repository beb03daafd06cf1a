# A verification project for webdata-service

webdata-service scrapes product catalogues, stores the products, classifies
them, and sends them to the product catalogue (PIM); a second pipeline looks
for better images. This directory holds TLA+ models of its core, the TLC
configurations that check them on small instances, and theorems about them that
TLAPS checks for every instance. Paths below are relative to the repository.

## 1. The system

    HTTP handlers (chi)         scheduler goroutine        3 worker goroutines
      sources, jobs,              every 60 s: due            every 5 s: claim a
      products, enrichment        sources -> jobs            job, execute it
          |                           |                          |
          +-------------+-------------+------------+-------------+
                        |                          |
                    PostgreSQL               Firecrawl / VTEX / Coop,
       sources, jobs, products,              PIM, image services (HTTP)
       price history, image resolutions

All processes share one database and no memory; apart from the claim of a job
and the business types of a product, every database call is a transaction of
its own. So the hard behaviours are almost all of one kind: *a value read by one
call and used by a later one*, with another process in between.

| Component | State | Operations | What is hard |
|---|---|---|---|
| scraping: jobs (`src/scraping`) | job table: status, source, page, trigger, retries, started_at | trigger, retry, cancel, claim, execute, finish | two workers and one job; a cancel that read the job before the claim; errors that are dropped; jobs left running by a dead process |
| scraping: scheduler | the list of due sources, in memory | poll, create one job per page, advance next_run_at | jobs and next_run_at are separate statements; errors are only logged |
| source registry (`src/source`) | source table: is_active, cron, next_run_at, counters, health | create, update, delete, record result | the full-row update from a copy; soft delete; counters |
| process (`cmd/api/main.go`) | context, goroutines | start, SIGTERM, end | cancelling the context makes the calls of a running job fail; nobody waits for workers |
| scrapers (`scraping/infrastructure/adapter`) | a Firecrawl extraction, an offset | extract and poll, scrape, page through an API, retry with backoff | stopping conditions, limits, a retried POST |
| product store (`src/product`) | products by content hash, price history, business types | upsert, block, hide, assign | look-up then upsert by two workers; an id that was never stored |
| PIM sync (`src/product`) | synced_to_pim_at; products in PIM | search, create or update, mark; sync all pending | failure between the steps, concurrent syncs, a page that never drains |
| image enrichment (`src/enrichment`) | image resolutions, rejected URLs; a queue in PIM | batch, on demand, reject, status | paging over a shrinking queue; a reject between the steps of a batch |
| enrichment trigger (`src/product`, `POST /enrichment/trigger`) | none | list products that lack something, create jobs | sources of all tenants in one query |
| business types (`src/product`) | the types of each product; two category tables in code | assign, remove, bulk assign, auto-match | read, merge, replace; waits between transactions |
| seed scripts (`scripts/`) | rows they insert | insert unless the name exists | interrupted, and run again after edits |
| service token (`src/shared/platformauth`) | cached token and its expiry | get | expiry between check and use |
| stats, middleware, router, migrations | none, or run by hand | | |

What makes each correct, in short: *jobs* - one worker per job, one execution
per job, no job starved, no finished job changed; *scheduler* - one job per page
and cron instant, no due source forgotten; *sources* - counters that match the
jobs, a deleted source stays deleted; *product store* - one row per content hash,
a price record for each change, nothing hidden or blocked revived; *PIM sync* -
one PIM product per product, every ready product synced in the end; *enrichment*
- a rejected image is not chosen again, every queued item is visited; *fetching*
- what a store lists is what is read, and it ends; *business types* - requests
take effect one after the other, and none is lost half way; *token* - no caller
is surprised by an expiry, nobody makes a token that is not needed.

## 2. Modules

| Module | What it is |
|---|---|
| `SourceTable` | the source table and each SQL statement on it, as an operator |
| `JobTable` | the job table and each SQL statement on it |
| `Scraping` | scheduler, workers, handlers, time and process over the two tables |
| `JobLifecycle` | abstract specification: what the queue promises |
| `ScrapingProofs` | inductive invariant of the claim, and that `Scraping` implements `JobLifecycle` |
| `JobProofs` | the other properties of `Scraping`: running jobs, late cancels, counters, schedule |
| `ProductTable` | the product tables and each SQL statement on them |
| `Catalog` | workers' upserts, PIM synchronisation and moderation over those tables and PIM |
| `Publication` | abstract specification: what synchronisation promises |
| `CatalogProofs` | inductive invariants of `Catalog`, its refinement of `Publication`, the bound on duplicates, frozen rows and the price history |
| `Pipeline` | `Scraping` and `Catalog` in one process: a job from its claim to the rows and the price history its answer becomes |
| `PipelineProofs` | that it implements both, its inductive invariants, and what relates a job to what it stored |
| `FetchCall` | one fetch: what the source asks for, the context, the answer |
| `StoreFetch`, `FirecrawlFetch` | the adapters: paging a store's API; extracting through Firecrawl with retries and polling |
| `Fetching` | their composition: a fetch of any kind of source, with its environment |
| `FetchingProofs` | inductive invariants of paging, retries and polling, and the safety theorems |
| `ImageSources` | the cascade of image sources and the guards on their answers |
| `ResolutionTable` | the table of image resolutions and each SQL statement on it |
| `Enrichment` | batches, on-demand runs and rejections over that table, the object store and the queue |
| `EnrichmentProofs` | its inductive invariants and the safety theorems |
| `BusinessTypeTables` | the category tables of the upsert and of auto-match |
| `BusinessTypes` | the requests on business types, statement by statement |
| `BusinessTypesProofs` | its inductive invariant and the safety theorems |
| `ServiceToken` | the shared token and the loops that use it |
| `SourceRegistry` | creation, edits and deletion of sources of all tenants, and seed scripts |
| `GlobalEnrichment` | the trigger, over registry and token |
| `GlobalEnrichmentProofs` | inductive invariant of the token and its theorems; invariant of the registry and the trigger; that the token's theorems hold here |
| `MCScraping`, `MCCatalog`, `MCPipeline`, `MCFetching`, `MCEnrichment`, `MCBusinessTypes`, `MCGlobalEnrichment` | small instances for TLC |

`Scraping`, `Catalog` and `Fetching` meet in `Execute` of the scraping use case: between the fetch and
the job's last update a worker hands the page to the upsert. `Scraping` models
what surrounds that call, `Catalog` what happens inside it, product by product,
and `Fetching` the call before it. They share no table; the fetch tells its
caller a list of products or an error, and the upsert two counts, so each module
treats the others as an environment that may call, answer or stop at any time.
`Pipeline` puts `Scraping` and `Catalog` together, with one set of workers: what is then
known is which job a listing comes from, and how often.
`BusinessTypes` begins where the upsert ends: with the type that a new product
got from its own category or that of its source. `GlobalEnrichment` composes
components that share state: registry, token and trigger.

### How `Scraping` follows the code

An action is one database call, or one external call, together with the
computation around it. What a process has read and not yet used is in its
memory: `wk[w].row` is the `*ScrapingJob` a worker holds, `can[c].row` that of a
cancel request, `ed[e].row` the `*Source` of a PATCH, `sched.todo` the slice
`FindDueForScraping` returned.

| Code | Actions |
|---|---|
| `ClaimPendingJob` | `LockJob` (SELECT ... FOR UPDATE SKIP LOCKED), `CommitClaim` (UPDATE, COMMIT and the copy), `AbortClaim` (an error, rolled back), `LoseCommit` (committed, the answer lost) |
| `ExecuteScrapingUseCase.Execute` | `LoadSource` / `SourceMissing`, `Fetched`, `SaveOutcome`, `TallyResult` |
| `Scheduler.scheduleRuns` | `SchedTick`, `SchedNext`, `SchedCreate` (per page), `SchedAdvance` |
| `TriggerScrapeUseCase`, `RetryJobUseCase` | `Trigger`, `Retry` |
| `CancelJobUseCase` | `CancelRead`, `CancelWrite` |
| `UpdateSourceUseCase` | `EditRead`, `EditWrite` |
| `DeleteSourceUseCase` | `Delete` |
| `main` | `BeginShutdown`, `Die`, `Restart` |

Choices worth knowing:

- *Claiming.* The code picks a random tenant that has a pending job, locked ones
  included, then that tenant's oldest unlocked job. A pick that finds nothing
  changes nothing and is a stutter.
- *Execute.* The upsert of the products returns no error whatever happens to
  them (`upsert_products_usecase.go:247`), so the branch that fails a job after
  the upsert (`execute_scrape_usecase.go:86`) is dead, and a job whose fetch
  worked is completed. What the upsert does to the products is in
  `Catalog`, and `Pipeline` joins the two.
- *Dropped errors.* `Update` and `RecordJobResult` at the end of `Execute`, and
  the statements of the scheduler, may fail and the process goes on:
  `CallFails`. Once the context is cancelled (`proc = "stopping"`) all calls of
  the goroutines fail; those of a handler, which runs under its request's
  context, do not.
- *Full-row updates.* `UpdateJob` and `UpdateSource` write the caller's copy.
- *Time* is counted in cron instants. All sources share one schedule; a source
  is due when the instant in `nextRun` has passed, and 0 stands for NULL.
- *Retry* copies the tenant, source and trigger and not the page: a retry of page 3
  fetches the source's base URL (`retry_job_usecase.go`).
- *Restart* is the whole process: the connections are gone, so locks are
  released, and only the tables remain.

### How `Catalog` follows the code

`mem[c]` is what caller `c`, a worker or a request, has in hand: its step, the
`*ScrapedProduct` it works on, and the old price it is about to record. `loop[y]`
is the page `SyncPending` of request `y` has fetched and not yet handled.

| Code | Actions |
|---|---|
| `UpsertProductsUseCase.execute`, per product | `LookUpKnown` / `LookUpNew` (FindByContentHash and the work on the copy), `SaveKnown` / `SaveKnownFails`, `RecordPrice`, `SaveNew` / `SaveNewFails`, `AssignType`, and `trySyncToPIM` as `ToSync` in the last step of each path |
| `SyncProductToPIMUseCase.Execute` | `Search` (findExisting), `CreateNew`, `UpdateExisting`, `MarkSynced`, `SyncFails` |
| `SyncPending` | `StartSync`, `FetchPage`, `NextProduct`, `EndPage` |
| PATCH and DELETE of products | `Moderate` |
| end of the process and its restart | `Crash` |

Choices worth knowing:

- *A product* is reduced to what the upsert, the history and the sync tell
  apart: its price, which of image and category it has, whether it is blocked,
  hidden and synchronised, and when it was last seen. An item stands for a
  content hash within a tenant and a source; the unique index makes it one row.
- *`seen`* is `last_seen_at`, by which `FindAll` orders its pages. The number of
  listings handled so far serves as the clock.
- *Prices.* A listing's price is a `float64`, the column a `DECIMAL(12,2)`:
  `Rounded` says what the column makes of each price, and every write goes
  through `Column`.
- *`ghost`.* A worker that took a product for new and whose upsert then updated
  an existing row goes on with an id that is in no row: its business type breaks
  the foreign key and its mark updates nothing.
- *A refused upsert.* The WHERE of the upsert gives no row for a blocked or hidden
  product, `Scan` turns that into an error, and for a known product the copy goes
  on to PIM all the same, which `NeedsPIMSync` of the *copy* decides.
- *PIM* is another service. `pim[k]` counts its products for key `k` and says
  whether one has a business type. The search by EAN and the one by name are one
  step, since nothing on this side changes between them; `misses` counts the
  searches that overlook a product PIM has (a status other than 200, or a match
  behind the first ten results). Whether PIM itself refuses a second product is
  not known here, so it does not.
- *Failures.* Every call of a caller in `Faulty` may fail, without effect or with an effect
  whose answer is lost; if that is all of them, the process may also end at any step.
- *Left out:* products without a title and of excluded brands, which are dropped
  before anything is read; `RefreshTemplateProducts` at the end of `SyncPending`,
  which changes nothing here; `SyncBatch`, which nothing calls. A bulk deletion is
  a series of deletions: no property speaks of two rows hidden at once.
- *`replaced`, `met` and `lost`* are no state of the program. `replaced` notes every
  price a row gave up, and the history is compared with it; `met` the items that two
  workers were busy with at once, between the look-up and the price record; `lost` the
  items of which the very call that stores or records a price went wrong, or the process
  ended between the two, so that a price may be missing.

### How `Pipeline` follows the code

`Pipeline` has the variables of both modules and three more: the workers whose fetch
has answered, the listings of that answer each has looked up, and, only to state
properties, the sources that two workers upserted at once (`crossed`).

| Code | Actions |
|---|---|
| `ExecuteScrapingUseCase.Execute` | `Answers` / `FetchFails` (fetchProducts), `Handles` (the next listing), `GoesOn` (what the upsert does with it), `UpsertReturns` |
| the rest of the pool, handlers, scheduler | `PoolOnly`: the steps of `Scraping` other than the end of a fetch |
| requests about products | `CatalogOnly`: the steps of `Catalog` that no worker takes |
| end of the process | `Dies`: `Die` of `Scraping` and `Crash` of `Catalog` in one |

- *The answer* is not kept: which products it shows is found out one listing at a time,
  and that it shows no more when the upsert returns. It may show a product `MaxRepeats`
  times at most.
- *One step for two modules.* `UpsertReturns` is `Fetched(w, TRUE)` of `Scraping`, and
  leaves `Catalog` alone; it needs the worker of `Catalog` to be at rest, as the upsert
  is a call and not a goroutine.
- *A cancelled context.* The adapters return no answer once it is cancelled; an upsert
  under way goes on, and each of its calls fails without effect (`CallIsRefused`), the
  look-up included, which then counts as "not found".
- *A source of an item* is fixed: the source's id is part of the content hash.

### How `Fetching` follows the code

A step is one request to the store or to Firecrawl, or one pause, with what the
adapter computes before the next; the environment's steps are a change of the
store's listing, the end of an extraction, and the cancellation of the context.

| Code | Definitions |
|---|---|
| `ExecuteScrapingUseCase.fetchProducts` | `IsExtract`, `IsScrape`, `IsHTTP`, `Unsupported`; `Refuse` |
| `VTEXAdapter.FetchHTTPJSON`, `fetchPage` | `VTEXStep` and its parts |
| `CoopObreraAdapter.FetchHTTPJSON`, `fetchPage`, `selectCoopPrice` | `CoopStep` and its parts |
| `FirecrawlAdapter.Extract`, `ScrapeJSON` | `NoKey`, `SubmitExtract`, `ScrapeAnswered` |
| `pollExtractJob` | `PollWait`, `PollTimesOut`, `PollInterrupted`, `PollAnswered` |
| `doRequestWithRetry`, `doRequest` | `Send`, `NotSent`, `RequestFails`, `Elapses`, `Interrupted`, `AnswerSpoilt` |

- *A request* is in one of four states (`fc.pc`): about to be tried, sent, in the pause
  between two tries, or, between two polls, in the interval. A shutdown may cancel the
  context in each. It sends no further request; one that is out fails, unless its answer
  has come, and its retry is given up in the pause, since `select` waits for either; an interval
  is interrupted likewise.
- *Which failures are retried.* All of them: the loop does not look at the status.
  An answer without an id, or that cannot be decoded, comes after the loop and is
  not: it fails the call (`AnswerSpoilt`), whatever Firecrawl has begun, and charged, for it.
- *`mishaps`* is history: the requests that failed since one was answered, and whether
  an answer was no use.
- *A try takes any time up to the client's timeout*, also one that is answered.
- *The pause* before a retry doubles: a recursive function of the number of tries.
- *Products* are numbers with the prices the store has for them, in the order the
  adapter prefers them. A product of Firecrawl is the number of the extraction.
- *Left out:* `Scrape`, `Crawl` and `CrawlStatus`, which nothing calls.

### How `Enrichment` follows the code

| Code | Actions |
|---|---|
| `executeBatch`, `executeOnDemand` | `RunBatch`, `RunOnDemand`, `ListStep`, `NextItem` (with `shouldSkip`), `EndPage` |
| `processItem` | `ReadRejected`, `FindData`, `Enhance`, `Upload`, `SaveResolution`, `UpdatePIM`, `ItemFails` |
| `findProductData` | `Found`, over `Accepts` and the answers of `ImageSources` |
| `ChainEnhancer`, `ReplicateEnhancer` | `Enhance`, `CreatePrediction`, `PollPrediction`, `DownloadOutput` |
| `RejectImageUseCase` | `ReadCurrent`, `WriteRejection`, `ClearPIM`, `RejectFails` |

- *The services are constants*: what each has for a product, and the title it
  comes with. Names and titles are sets of tokens; the cut into tokens is not
  modelled, the 60 per cent rule is. The whole cascade is one step, since it reads
  and writes nothing of this service.
- *The queue* is the catalogue's: products without an image, in a fixed order. It and
  its pages are sets, and a product's rank is its place in the order.
- *Spent and recorded cost* are kept apart; `spent` is money, not a column.
- *`watch`, `disturbed` and `raced`* are history: they name the circumstances
  under which the properties promise less.

### How `BusinessTypes` follows the code

A step is one SQL statement. `SaveBusinessTypes` is a transaction in READ
COMMITTED, so its DELETE and INSERTs wait for the rows of other transactions
(`Locked`, `Pending`), a DELETE that waited does not see what was inserted
meanwhile, and two that wait for each other are resolved by the database.

| Code | Actions |
|---|---|
| `SaveBusinessTypes` | `DeleteTypes`, `DeleteResumes`, `InsertType`, `Deadlocked`, `Commit`, `StatementFails` |
| `AssignBusinessTypesUseCase` | `AssignBusinessTypes` |
| `RemoveBusinessTypeUseCase` | `RemoveBusinessType`, `RemoveRow`, `RemoveResumes` |
| `BulkAssignBusinessTypeUseCase` | `BulkAssign`, `ReadTypes`, and the transaction |
| `AutoMatchBusinessTypesUseCase` | `AutoMatch`, `Propose`; an administrator's `Confirm` is an assignment |
| `MapCategoryToBusinessType`, `categoryMapping`, `titleBrandSignals` | the tables of `BusinessTypeTables`, entry for entry |

- *Substring tests* on categories, titles and names of types are relations among
  constants (`Near`, `Signals`, `Mentions`); the order in which Go ranges over a map
  is a choice among the entries that match. No entry of the tables has more than three
  keywords, so the matches of an entry are those of its first, second and third.
- *A new product's types* are what the upsert gave it (`AssignmentToApply`): the type of its
  own category, by a resolver of another repository, which is a constant, or else that of its
  source's; the other way round for an authoritative source. In the run the resolver finds
  none: the products begin with the types of their sources.
- *A bulk assignment* takes its `product_ids` one after the other, repeated ones included.
- *A commit whose answer is lost* is no action of its own. The request reports an error and
  goes on to its next product, as after a commit that was heard of.
- *`ideal`* is history: what the requests would give one after the other.

### How `GlobalEnrichment` follows the code

| Code | Actions |
|---|---|
| `CreateSourceUseCase` | `CreateRead`, `CreateSave` |
| `UpdateSourceUseCase`, `DeleteSourceUseCase` | `EditRead`, `EditSave`; `Delete` |
| `scripts/seed_*.go`, `main` and insert loop | `RunScript`, `SeedInsert`, `SeedSkips`, `Interrupt` |
| `EnrichGlobalProductsUseCase` | `StartTrigger`, `Listed`, `ListFailed`, `NextType`, `SkipType`, `CreateJob`, `Finish` |
| `TriggerScrapeUseCase` | `TriggerScrape` (one step here; its errors are in `Scraping`) |
| `ServiceTokenProvider.Token` | `ReadCached` (read lock), `Mint` (write lock) |
| a loop of requests with one token (`GetProductsByIDs`) | `Begin`, `SendRequest`, `Answered`, `End`; `Tick` |

- *Rows* keep what an administrator sets; run-time columns are in `SourceTable`. `rev`
  counts the writes of a row and is no column: it tells a stale copy from a fresh one.
- *`TriggerScrape`* reads the source and inserts the job, two statements in the code; a row
  never changes its tenant, so nothing that comes between them could tell.
- *`Conflicts`* is the UNIQUE constraint on tenant and name. Deleted rows take part.
- *Time* of the token counts in units of the request timeout, 15 s: a request that is
  waited for lets time pass at most once. The life of a token is then 240 and the
  lead 20 units.

## 3. Runs

Runs of the jobs use module `MCScraping`. Deadlock checking is off because every
behaviour ends in its bounds or with the process down for good.

| Run | Instance | Shows |
|---|---|---|
| `ScrapingCore` | 1 source, 2 workers, 1 cancel, 2 jobs, 1 restart, 1 failed call | exclusive claims; no running job without a worker while nothing fails; at most one execution (refinement of `JobLifecycle`); only a late cancel rewrites a finished row |
| `ScrapingEdits` | 1 worker, 1 edit in flight, 2 jobs, 1 restart, 1 failed call | counters never exceed the jobs that ran; only an edit or a late cancel makes `successful_runs` miss a completed job; only an edit that read before takes next_run_at back |
| `ScrapingSchedule` | 2 sources, one of 2 pages, 2 instants, 1 restart, 1 failed call | at most one job per page and instant, plus one for each restart and failed call |
| `ScrapingLive` | 2 tenants, 2 workers, 1 cancel, fair goroutines | every pending job settles; every due source is scheduled |
| `LateCancel` | 1 worker, 1 cancel | violated: a cancelled job is being executed |

Runs of the catalogue use module `MCCatalog`:

| Run | Instance | Shows |
|---|---|---|
| `CatalogCore` | 1 product with a business type, 2 workers, 1 request, 2 listings, 1 missed search, failures and crashes | at most one PIM product per caller and missed search; marks follow publications (refinement of `Publication`); a blocked or hidden row is not touched |
| `CatalogSync` | 2 prices, 1 worker, 1 fair request with failures, 4 listings | a request to synchronise ends |

The run of the composition uses module `MCPipeline`:

| Run | Instance | Shows |
|---|---|---|
| `Pipeline` | 1 source, 1 item, 2 prices, 2 workers, 2 jobs, answers that show a product twice, 3 listings, moderation, 1 restart, failing calls on products, shutdown and crash | a job upserts its page once; the history is exact for products that no two workers were busy with at once, but for what the failure of a storing or recording call lost; it holds nothing that was not so unless two jobs of the source were upserted at once, and then at most once per worker |

Runs of the other parts, one module each:

| Run | Instance | Shows |
|---|---|---|
| `Fetching` | 8 kinds of source; pages of 2, an offset limit of 4, 2 changes of the store, 2 empty pages, 3 tries; fair adapter | a store that stands still is read exactly; what a moving one can hide or repeat; at most 3 extractions; a bound on the time; a fetch by Firecrawl fails only for a cause: failures between answers do not add up; every fetch ends |
| `Enrichment` | 3 products (with a barcode, branded, sold by weight), 1 batch and 1 rejection in flight, 2 requests, 1 fault, pages of 1; fair batches | what a row says is what is shown, and its object is that image; a rejected URL stays away; recorded costs were charged; the offset skips no more than left the queue; a batch ends |
| `BusinessTypes` | 2 products, 2 callers, 2 requests, 1 fault; fair requests | requests that do not overlap take effect in order; only a removal empties a product; requests end, deadlocks included |
| `GlobalEnrichment` | 2 tenants, 2 administrators, 1 script of 2 rows, a trigger and another client, 3 requests, 1 fault, a token of 3 units with a lead of 1 | an edit or deletion is undone only by a stale edit, never by a script; jobs carry their source's tenant; a token is refused only late in a loop; one token per period |

**Bounds.** `MaxJobs` rows, `MaxManual` requests that create a job, `MaxClock`
instants, `MaxRestarts`, `MaxFaults`. Two workers are enough for every race
between workers, since a property of a job speaks of at most two; one cancel and
one edit are enough since each interferes through the one row it writes. Each
run leaves out the processes its properties do not depend on. In
`ScrapingSchedule` `MaxJobs` is above the number of jobs the bound of
`ScheduledOncePerTick` allows, so the table never hides a duplicate. Workers are
symmetric (no definition tells them apart), which the safety runs with two workers use and
the liveness runs do not. In the catalogue, `MaxScrapes` bounds the listings and
`MaxMisses` the overlooked products; requests to synchronise, moderation,
failures and crashes are not bounded. The page size of 200 and the 500 iterations
are constants: with a page of 1 and 2 iterations a request can reach
both limits, as the real one can with 100 000 pending products. That a
key may stand for products of several sources is left to the theorems; callers that meet
on one product take the same steps. In `Pipeline` two jobs of one
source are enough for two workers to meet on one product, and three listings for both to
replace a price that a first one stored; a third listing comes from an answer that shows the
product twice. Its prices, too, are symmetric: they are only compared. The second
job is the scheduler's: a process that dies between the creation of a job and the update of
its source schedules the source again after the restart, and both jobs wait when the workers
come up (without `crossed`, `RealUnlessCrossed` is violated in this instance, and `HistoryIsExact`
without `met`, or without `lost`). A retry or a
trigger creates a job of the same kind, pending and of its own; these requests are left to the runs of
`Scraping`, and synchronisation to `CatalogCore` and `CatalogSync`: the listings here lack what the sync needs.

In `Fetching` a listing is empty, a page and a half, two pages, or one more than the
offset limit, so that every way out of the loops is taken; prices include null, zero and
each fallback. Two empty pages are `coopMaxEmptyPages`, so the early end happens; two
changes put a product across the page boundary in either direction. Times are small
numbers with the relations the real ones have (a pause is shorter than the deadline,
a poll may take longer than what is left of it). In `Enrichment` a page of 1 over a queue
of 3 shows the shrinking queue from the first page on, and the second request comes to
products that the first, or a rejection, has touched. Two products that OFF files under one
code share an object key. In `BusinessTypes` two requests are all that a wait or a deadlock
needs, and the sequences asked for contain one type pair in both orders. A bulk request names up to two products (`MaxIds`), or
one twice. In
`GlobalEnrichment` the number of requests is small because everything is possible at
every point: three are enough for a creation or a script, an edit in flight, and what
comes between. A lead of 1 is exceeded by the loop of 3, as the lead of 20 is by
loops of 100. Administrators are symmetric.

**Fairness** (`FairSpec`): weak fairness of each worker and of the scheduler.
Each is a loop over a ticker, and every call inside has a timeout, so a step
that stays possible is taken. Nothing is assumed of requests, of the clock, or of
the end and restart of the process. A tenant is picked with `ORDER BY RANDOM()`;
the model has finitely many jobs, so what is checked is that no job is left
behind for good, not that an endless stream of jobs of one tenant cannot delay
another's. In `Catalog`, a request that has begun goes on;
nothing is assumed of workers or moderation.

In `Fetching` the adapter goes on (`WF` of `FetchStep`): its loops run in one goroutine
and every call has a timeout; the store, Firecrawl and the shutdown need never do
anything. In `Enrichment` each batch goes on, in `BusinessTypes` each request that
has begun, since neither waits for anything but calls with a timeout and locks whose
holders go on. `GlobalEnrichment` states no fairness: its properties are safety.

## 4. Proofs

For any sets of sources, products, workers and requests, any pagination, any bounds:

| Theorem | States |
|---|---|
| `ScrapingProofs!TypeCorrect` | `Spec => []TypeOK` |
| `ScrapingProofs!ClaimExclusive` | `Spec => []OneWorkerPerJob` |
| `ScrapingProofs!StampsCorrect` | `Spec => []StampedIffClaimed` |
| `ScrapingProofs!AtMostOnceHolds` | `Spec => AtMostOnce`, the refinement of `JobLifecycle` |
| `JobProofs!RunningHeld` | `Spec => []RunningIsHeld` |
| `JobProofs!LateCancelOnly` | `Spec => OnlyLateCancelRewrites` |
| `JobProofs!CountersStayBounded` | `Spec => []CountersBounded` |
| `JobProofs!StaleEditsOnly` | `Spec => OnlyStaleEditRewinds` |
| `JobProofs!RequestsOnly` | `Spec => OnlyRequestsLoseSuccesses` |
| `JobProofs!OncePerTick` | `Spec => []ScheduledOncePerTick`, if there are no editors |
| `CatalogProofs!TypeCorrect` | `Spec => []TypeOK` |
| `CatalogProofs!PublicationImplemented` | `Spec => MarkFollowsPublication`, the refinement of `Publication` |
| `CatalogProofs!DuplicatesAreBounded` | `Spec => []DuplicatesBounded` |
| `CatalogProofs!FrozenRowsStay` | `Spec => FrozenIsUntouched` |
| `CatalogProofs!HistoryStaysBounded` | `Spec => []HistoryIsBounded`, if prices are in cents |
| `CatalogProofs!HistoryStaysExact` | `Spec => []HistoryIsExact`, if prices are in cents |
| `PipelineProofs!PipelineImplementsBoth` | `PipelineSpec => Pool!Spec /\ Spec`: both modules' theorems hold in the composition |
| `PipelineProofs!PipelineTyped` | `PipelineSpec => []PipelineTypeOK` |
| `PipelineProofs!JobsUpsertOnce` | `PipelineSpec => []UpsertedOncePerJob` |
| `PipelineProofs!RealUnlessTwoUpsert` | `PipelineSpec => []RealUnlessCrossed`, if prices are in cents |
| `PipelineProofs!PipelineBoundsDuplicates` | `PipelineSpec => []DuplicatesBounded` |
| `PipelineProofs!PipelineKeepsHistory` | `PipelineSpec => []HistoryIsExact`, if prices are in cents |
| `FetchingProofs!FetchTypeCorrect` | `Spec => []TypeOK` |
| `FetchingProofs!ExtractionsStayBounded` | `Spec => []ExtractionsBounded` |
| `FetchingProofs!FailuresHaveCauses` | `Spec => []FailsForCause` |
| `FetchingProofs!WorkerIsHeldBriefly` | `Spec => []HoldsWorkerBriefly` |
| `FetchingProofs!StillStoresAreCopied` | `Spec => []StillStoreIsCopied` |
| `FetchingProofs!DriftStaysBounded` | `Spec => []DriftIsBounded` |
| `EnrichmentProofs!TypeCorrect` | `Spec => []TypeOK` |
| `EnrichmentProofs!RejectedStays` | `Spec => []RejectedStaysAway` |
| `EnrichmentProofs!RowTells` | `Spec => []RowTellsWhatIsShown` |
| `EnrichmentProofs!OffsetSkipsFew` | `Spec => OffsetSkipsNoMoreThanLeft` |
| `EnrichmentProofs!CostsCharged` | `Spec => []CostsWereCharged` |
| `BusinessTypesProofs!TypeCorrect` | `Spec => []TypeOK` |
| `BusinessTypesProofs!InOrder` | `Spec => []AppliedInOrder` |
| `BusinessTypesProofs!OnlyRemovalsEmpty` | `Spec => NeverEmptied` |
| `GlobalEnrichmentProofs!TokensLastTheLead` | `TokenSpec => [](TokenTypeOK /\ RefusedOnlyLate)` |
| `GlobalEnrichmentProofs!OneTokenPerPeriod` | `TokenSpec => []MintedOncePerPeriod` |
| `GlobalEnrichmentProofs!TokenOfMany` | `Spec => TokenSpec`; by it the two before hold of `Spec` (`LoopsLastTheLead`, `OneTokenForAll`) |
| `GlobalEnrichmentProofs!GlobalTypeCorrect` | `Spec => []TypeOK` |
| `GlobalEnrichmentProofs!JobsKeepTheirTenant` | `Spec => []JobsOfTheirTenant` |
| `GlobalEnrichmentProofs!OnlyStaleCopiesUndo` | `Spec => OnlyStaleUpdatesUndo` |

**Assumptions.** They are in the modules that declare the constants, and TLC evaluates
them on every run.

- `JobTableAssumption`, `ScrapingAssumption`: bounds are natural numbers, `NoJob` and
  `NoSource` are not a job and a source, there are finitely many workers.
- `ProductTableAssumption`, `CatalogAssumption`: rounding a rounded price changes
  nothing; NULL is not a price, and no row is not a row; finitely many callers, a worker is
  not a request, every item has a key.
- `PipelineAssumption`: what `Scraping` assumes, that every item has a source, that answers show
  a product a bounded number of times, and that calls may fail. Every caller is
  in `Faulty`, because a shutdown fails all calls. `ModerationAssumption`: only products are moderated.
- `FetchCallAssumption`, `StoreFetchAssumption`, `FirecrawlAssumption`: page sizes, numbers of
  tries and of empty pages, and the poll interval are positive, all other durations and limits
  natural; products are numbers and a listing is a sequence of them.
  `ListingsAreDistinct`: a listing names a product once. Only `DriftStaysBounded` uses it:
  with a product listed twice the answer repeats it though nothing was gained.
- `ImageSourcesAssumption`, `CostAssumption`, `EnrichmentAssumption`: finitely many callers and
  products; the order of the queue names a product once; an object key is never the
  empty string; costs are natural numbers.
- `BusinessTypesAssumption`: types are codes and none occurs twice among them; an entry of the
  tables has at most three keywords; an assignment asks for some type, since the
  handler refuses an empty list (`product_controller.go:262`).
- `ServiceTokenAssumption`, `SourceRegistryAssumption`, `GlobalEnrichmentAssumption`: durations are
  natural numbers, a loop sends a request, and the lead is shorter than the life of a token
  (otherwise every call would make a token); scripts name a tenant and rows of the registry's
  shape.

Some theorems have a hypothesis of their own. *No editors* in `OncePerTick`: an update that
read a source before its next_run_at advanced writes the old one back, and the instant is
scheduled again; that nothing else takes it back is `StaleEditsOnly`. *Prices in cents* in all
theorems on the history: a price the column rounds is recorded at each scrape, although
the row keeps its own. Each is a real behaviour of the code and is listed in
Section 5. The number of workers and the failures of calls are restricted nowhere.

### Jobs

`OneWorkerPerJob` is not inductive: nothing in it says why a second worker cannot
lock a job that is held. The inductive invariant `ClaimInv` adds `WorkerInv` (a
held job is a row that exists; while its claim is uncommitted it is pending and
its lock is on; afterwards it is no longer pending, and the copy in memory says
running, completed or failed, with started_at set) and `CancelInv` (a cancel in
flight holds the copy of an existing row, cancelled and without started_at). A
worker locks only a pending row that nobody has locked: by `WorkerInv` nobody
holds such a row. Rows never return to pending, since every full-row update
writes a copy that is not pending.

The refinement maps a row to absent, queued, executing or retired (`Phase`).
`PhaseFacts` reduces the mapping to the status and to whether a worker holds the
job; `IsMove` and `IsStutter` turn that into a step of the abstract queue. Insert
is `Enqueue`, `CommitClaim` is `Begin`, `LoseCommit` and a cancel of a pending row
are `Withdraw`, the last call of `Execute` and the death of the process are
`Retire`, everything else, a late cancel included, is a stutter.

`JobProofs` first sums up what a step does to the jobs (`JobSteps`: a worker's move, an
insertion, a request that reads or writes a row, the end of the process) and to the
sources, and then argues on those.

- `RunningIsHeld` needs `HoldInv`: copies agree with their row in what never changes, and
  the row that a worker is about to finish is running, or cancelled by a request
  that came late, so its last write leaves no running row.
- `CountersBounded` needs the same bound for the copies that update requests hold
  (`CountInv`), as such a copy becomes the row, and room for the jobs that are
  still to be counted: total plus the jobs a worker executes are at most the jobs that ran.
- `OnlyStaleEditRewinds` needs that no next_run_at, in a row or a copy, is past the
  instant after the present one (`TimeInv`): then what the scheduler writes is never less.
- `OnlyRequestsLoseSuccesses` balances successes, jobs done and jobs owed in each step.
- `ScheduledOncePerTick` needs `PaceInv`: scheduled jobs of a page, plus one if the page may
  get another before the next instant, are at most the instants, restarts and failed calls
  so far. Inserting a job uses up that one; only a new instant, a restart or a failed
  call, which make room, give it back. `PlanInv` says that the sources the
  scheduler has in hand are due.

### Catalogue

Every step is first summarised by what matters to PIM.
`StepKinds` says that a step is `Quiet` (PIM, the marks and every caller's place
in a synchronisation stay, or a caller leaves it or begins one) or a `SyncStep` of one
caller. `MarkFollowsPublication` needs `PublishedInv`: a caller that is about to
update or to mark holds an item whose key PIM has, because only a search that
found it or a creation leads there, and PIM never loses a product. With it a
creation is `Publish`, the first mark is `Mark`, all else a stutter.
`DuplicatesBounded` is not inductive either, for a caller may be about to create.
`CreationInv` counts those callers too: products of a key plus callers about to
create one are at most all callers plus the missed searches. A search that finds
nothing adds a caller to the sum only while PIM has no product, when the sum is at
most the number of callers; a missed search adds one to both sides; a creation
moves one from the second summand to the first.

`FrozenIsUntouched` needs nothing but the types: the WHERE of every write spares such rows.

A worker compares a listing with the copy it read, so what it means to record (`old`) may
be a price that the row no longer has. A worker *holds* a price p of an item (`Holding`) if it
has replaced p and is about to record it, or is about to save over a row that does not have p any
more although its copy did. `BoundInv(k, i, p)` says that the records of p and the workers that
hold p are together at most k times as many as the times the row gave p up. When the row gives p up,
the right side grows by k and the left by the workers at work on the item, `Crowd(i)`, at most; a
worker that records p moves from one summand to the other; no other step lets a worker hold p,
because a look-up copies the price the row has. So the bound holds for any k that
is never less than the crowd: the number of workers gives `HistoryIsBounded`, and
the composition uses k = 1 for sources that nobody crossed.

`HistoryIsExact` is about items in neither `met` nor `lost`. On such an item at most one
worker is busy (`AloneInv`), so what it has looked up still holds when it saves: the row is
there, or is not, as it saw, and the price it means to record is the one its upsert
replaces (`PriceInv`). Hence each price that the row gives up has its worker, which records it next
(`ExactInv`). A call that goes wrong for the item puts it into `lost`, a second worker
into `met`, and neither is ever left again; steps for other items do not touch it.

### Pipeline

`PipelineInv` joins the invariants of the parts with `JointInv` (a worker that is in an
upsert has a job in state fetching whose source is that of the product) and `OneAnswer`
(two workers that upsert one source have crossed it). By it each step of `Pipeline` is a
step of `Scraping` or leaves it alone, and likewise of `Catalog` (`PipelineImplementsBoth`); only
`Dies` is a step of both.

`UpsertedOncePerJob` counts *slots*. A slot of item i is a pair of a job that has left the queue and a
number up to `MaxRepeats`; a worker takes one for each listing it looks up, under its own
job. `SlotInv` says that for each item row changes and the workers about to save are
together no more than the slots taken, and so with records and the workers about to record.
A slot is never taken twice since no two workers have one job and no worker gets a job again
that has left the queue, which is `PoolInv` of `JobProofs`: a worker that fetches is alone with its
job (`FetchingIsAlone`), and who left the queue stays out for good (`OutForGood`).

`RealUnlessCrossed` needs `UncrossedInv`: `BoundInv` with k = 1 for the items of sources not crossed.
By `OneAnswer` their crowd is one worker at most, and a source once crossed stays so.

### Fetching

- *Causes* (`CauseInv`): while a call goes on, the requests that failed since the last
  answer are the tries of the request it is at, so that the last of them is the MaxTries-th in a row.
- *Tries* (`TryInv`): while a request is being submitted there are no more extractions
  than tries, and polling begins none.
- *Time* (`TimeInv`): by the n-th try no more has passed than n timeouts and the pauses in
  between (`Spent`, bounded by `TriesTime` although the pauses double), and a round of
  polling begins before its deadline.
- *A still store* (`CopyInv`): what has been read is the prefix of the listing up to the
  position reached.
- *A moving store* (`DriftInv`): of the products that were listed all along, those that
  are behind the position and have not been read are no more than were lost, plus a
  page for each page that came back empty; those still ahead that have been read already are
  no more than were gained, less those that have been read again. One gain or one loss moves
  at most one product across the position; a page reads everything in its window; an empty
  answer passes a page unread, and one that is true has nothing ahead of it.

### Enrichment

- *Rejections* (`RejectInv`): unless a rejection came while a batch was at work on the
  product, the batch's list is the row's, and what it has chosen is not on it.
- *Rows and catalogue* (`ShowInv`): an undisturbed product is held by one caller at most; if
  that caller is not between its writes, row, catalogue and object agree, and if it is, what
  it has yet to write is what it holds.
- *The offset* (`PageInv`): of the products waiting since the first page, those that the
  batch has not listed and whose rank is below its offset are no more than have left the queue;
  each departure lowers every rank by one at most.
- *Costs* (`CostInv`): recorded costs plus those that batches are about to record are at most
  what was spent. A step changes one summand of a sum over a finite set, for which
  `Total` and its lemmas stand in.

### Business types

`AppliedInOrder` says nothing of requests under way. `Inv` adds that on a product where
two requests never met there is one at most (`AloneInv`) and that what it has read still
holds (`TxInv`): it waits for nobody, it has deleted every row there is, and it will insert
those rows and its type. Every action is then a `Turn` of one caller, which writes no types,
or a `Write` of its product; the invariant is proved for those two. `Fill` keeps a
transaction from ending without having inserted something, so only a removal
empties a product.

### Registry, trigger and token

`RefusedOnlyLate` says nothing of how time and requests are
related, so `LoopInv` does: a caller in its loop took a token with more than the
lead to live, and no more time has passed since than it has sent requests, plus the
one it waits for. That is kept because `Tick` is not possible while a caller has
waited once or is about to send. `MintInv` says when the cached token was made and that
those before it lie a period apart; it needs the second look under the write lock, for
a token that is made has then found the cached one within its lead. `TodoInv`
carries what `LoopInv` needs through the two ways to a token. Every step of
`GlobalEnrichment` is a step of `ServiceToken` or leaves its variables alone (`TokenOfMany`).

`OnlyStaleUpdatesUndo` needs `RegistryInv`: nothing changes a row's tenant, every write
changes its rev, and a copy with the rev of its row differs from it only in the columns
its request sets. `JobsOfTheirTenant` holds because a job copies the tenant of a source
that has one for good, and because the trigger's jobs are all refused.

### Induction

The library's induction theorems take an operator as a parameter, which the provers
cannot instantiate. Where a proof needs induction on natural numbers (sums over a set, the
doubling pauses), it uses a lemma about *sets* of natural numbers: a set
that has 0 and with each number the next is all of them, since the least number outside it
(`WFMin`) would be neither 0 nor the successor of one inside.

### What is only proved, and what is only checked

The type invariants of `Scraping`, `Catalog`, `Pipeline`, `Fetching` and `Enrichment` and `StampedIffClaimed` of
`Scraping` are proved for every instance and not checked by a run as well.

Only model-checked: liveness (`EveryJobSettles`, `DueIsScheduled`,
`SyncRequestEnds`, `FetchEnds`, `BatchEnds`, `RequestsEnd`), for fairness and ENABLED are out of
the prover's reach.

## 5. What the code does against its documents

One run is expected to be violated, with an entry under `findings` in `PROJECT.json`:
`LateCancel`. A cancel that read a job before its claim marks it cancelled
while a worker executes it.

Other disagreements with a document, a comment or a plain intention, which the code
shows on reading and for which there is no run of their own:

- *Circuit breaker* (`README.md:29`). Nothing calls it; a source that always fails stays
  active.
- *A price with a fraction of a cent* differs from its DECIMAL(12,2) column at every
  scrape, and is recorded each time (`upsert_products_usecase.go:139`).
  The runs have prices in whole cents.
- *`SyncPending`* fetches the first page again and again; products that are never ready
  fill it and those behind are not synchronised.
- *A later synchronisation leaves the business type out*, since the query that reads
  pending products does not read their types.
- *The enrichment trigger never makes a job.* It gives the type `enrichment`
  (`enrich_global_products_usecase.go`), which `NewScrapingJob` refuses; and it looks for sources whose
  category *equals* the code of a business type, which most seeded sources have not. That
  refusal is also what keeps jobs without a tenant out of the table: with it gone,
  `JobsOfTheirTenant` is violated.
- *Carrefour subcategories* (`seed_carr_exprimir_e22.go`): no category `carr_sub_*` is in
  `category_business_type_map.go`, and the business type the script computes is not used. The
  products of these sources get a type from their own category or none
  (`upsert_products_usecase.go:209`).
- *A seeded source that was renamed* is inserted again by the next run of its script.
- *A product with a barcode is never drawn.* The cascade asks by barcode only, and DALL-E
  answers nothing to one; Firecrawl gives the barcode back as the product's name,
  which the relevance guard then rejects after the request was paid for.
- *Perplexity's results are credited to MercadoLibre*, and the cost of a Replicate
  prediction whose later step failed is recorded nowhere.
- *Auto-match of named products* (`product_ids`) proposes types to products that have some:
  `FindByID` does not load them. What is proposed is applied by a PUT, which replaces any types the
  product got in the meantime. Its tables name types that are not among the
  20 (`congelados`, `supermercado`, `electronica`), and treat `bebidas` as `almacen` where
  the other table has `vinoteca`.
- *A PUT that names a type twice* breaks the primary key and fails.

The models show more of the same kind, which the passing runs have to step
around, and a reader should know where:

- An update of a source in flight writes next_run_at back, so
  `ScrapingSchedule` has no editor; `OnlyStaleEditRewinds` states that nothing else
  does. It takes counters back too, which `OnlyRequestsLoseSuccesses` states.
- A rejection reads the current image and then empties whatever is there; a batch that
  has read the list of rejected URLs before saves the rejected one again. `raced`
  names those products.
- Two replacements of one product's types at the same time may end in the union of both,
  or in an error for one of them; `overlapped` names those products.
- A look-up of 100 products takes its token once; requests behind the first 20 may be
  refused when each waits for its timeout.
- A process that ends leaves its running jobs in state running for good: the
  fetch is not waited for (`main.go:145`), and nothing reclaims them.
  `RunningIsHeld` therefore speaks of a process that has not been stopped.
- Any job, whatever its status, can be retried (`retry_job_usecase.go:27`).
- Two workers that scrape one source at the same time record one change of a
  price twice, and one that took the product for new writes an empty field over
  a known one: `met` names those products, `HistoryIsBounded` says how far it can go, and
  `RealUnlessCrossed` that it takes two jobs of one source upserted at once.
- A price whose record fails, or whose worker's process ends before it, is missing for good, as
  the next scrape finds the new price in place: `lost` names those products.
- Two callers that synchronise one product at the same time both create it in
  PIM; `DuplicatesBounded` says how far this can go.

## 6. Plan

1. *(done)* job queue, scheduler, source edits, process; queue refinement.
2. *(done)* product store, price history, moderation and PIM synchronisation.
3. *(done)* fetching: the three adapters, retries, polling, shutdown.
4. *(done)* image enrichment: batch, on-demand run, rejection, cascade, costs.
5. *(done)* business types: requests, transactions, auto-match, category tables.
6. *(done)* source registry, seed scripts, enrichment trigger, service token; theorems
   about the token.
7. *(done)* `Pipeline`, the composition of `Scraping` and `Catalog`: what a job stores, and that the
   theorems about either hold in it. `Fetching` stays apart: what it proves is about one fetch,
   and its answer, a sequence of products, would add to `Pipeline` only data.
8. *(done)* theorems for every safety and action property of the runs.

## 7. Not modelled

Left out for good:

- middleware, router and controllers: they keep no state between requests; the checks that
  guard an operation are in its action.
- the request and response formats of the image clients, and MercadoLibre's own token
  cache: nothing that depends on them is told apart here.
- `Scrape`, `Crawl`, `CrawlStatus` of Firecrawl and `SyncBatch`: nothing calls them.
- statistics: read only.
- the rows of the seed scripts (categories, URLs, schedules): data.
- migrations and the reclassification script: run once, by hand, with the service down.
- the normalisation and tokenising of names, titles and categories: the relations
  they give are constants.
- EAN check digits and the building of pagination URLs: pure functions that the
  repository's own tests cover value by value.
