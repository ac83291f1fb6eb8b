# Formal models of BEN v2

BEN is a FastAPI backend with a browser client. A user uploads documents, which
background drains extract and index; a model writes a first overview of each
into the chat it came from; chats and councils answer questions over the text;
images and videos are generated by paid providers and edited in the browser;
news feeds are collected and grouped into events. This directory holds TLA+
specifications of the parts whose correctness depends on the order in which
several actors act, the TLC configurations that check them on small instances,
and TLAPS proofs of the properties that matter most.

Paths below are relative to the repository root.

## 1. Inventory

### Modelled

| Component | State | What is hard | Correct when |
|---|---|---|---|
| **Job queue** (`workspace_files/job_queue.py`, `drain.py`, migrations 024, 027, 030) | a row per job: status, attempts, lease, eligibility; what each drain holds | any drains call any function at once; requeue and complete name a row by id only; a lease ends while its drain works; a drain dies | one active job per file and type, terminal rows final, attempts bounded, the quarantine untouched, every job the drains may run ends |
| **Extraction** (`extraction_pipeline.py`, `lifecycle.py`) | lifecycle columns, page and chunk rows, where each execution stands | executions of one file overlap; the timeout cancels between transactions; an error after somebody else's success | the file claims text only while its rows are there; job row and file row agree; a file whose jobs ended is shown as ended |
| **Initial read** (`initial_read.py`) | `initial_read_status`, the overview in SQLite and in Postgres | three stores without a common transaction around a model call | at most one overview, `complete` means written, `pending` does not last |
| **Request guards** (`ops/idempotency.py`, `ops/load_governance.py`, handlers in `main.py`) | registry of request ids, three counters, council start times | entries expire while their requests run; release acts on whatever entry has the key | exact counters, one execution per id and council per question, a key is freed, a replay stands for a stored exchange |
| **Thread sources** (`thread_sources.py`, `multi_source.py`, `service.py`, `chat_service.py`) | pending, active, recent and burst files of a thread; turns in progress | announcements lost, late or repeated; files change between the steps of a turn | a turn of a thread with sources uses no other file; what left the sources does not return |
| **Model gateway and inference ledger** (`model_gateway.py`, `services/inference`) | a breaker per provider; the row of each attempt | concurrent calls share breakers; cancellation at any await, the accounting included | each attempt is booked once; a breaker is earned; a closed stream costs nothing more |
| **Media executions** (`services/media`) | the execution row, journal, published bytes | a paid POST that must not be repeated; workers die or outlive leases | one POST at most; success means bytes; a video's result is not given up; every execution ends |
| **Edit documents** (`media/edit_repository.py`, `editSession.js`) | revisions; editor windows, recovery storage, requests on the wire | lost, late and repeated requests; reloads; two windows | acknowledged means durable; a conflict means not saved; nothing unseen is replaced |
| **Thread store** (`thread_service.py`, `thread_store.py`, `chat_service.py`) | Postgres rows, SQLite metadata, one message file per thread or project | handlers interleave at awaits; a store fails or the process dies between two of three stores | no message is lost but by a deletion; a chat shows what Postgres has; the shown order is a reading |
| **News events** (`services/news`) | articles, versioned packages, builds in two processes | grouping by pairwise likeness; concurrent publication; a window that moves | groups are stories; versions without gaps; building again changes nothing |

Interactions: an upload creates a file and a job and is then recorded in the
thread's sources; a drain claims the job, writes the file row, announces the
outcome to the sources and enqueues the initial read, which writes into the
thread's two message stores. A chat request passes the guards, resolves the
thread, reads its sources, retrieves, goes through the gateway's providers
(each attempt booked in the ledger), and writes SQLite and then Postgres.
Media, edits and news share only the database with these.

### Left out

- *Parsing, chunking, retrieval scoring, prompts*: sequential functions of text;
  the models keep the kind of document that comes out and which files may be
  read, not what is found in them.
- *Upload wake* (`upload_wake.py`): at most two scoped drains after an upload,
  best effort. Its effect on state is a `ClaimForFile` of the queue, which is
  allowed at any time; its own counter is given back in a `finally`.
- *Projects, copilot, knowledge*: CRUD over the stores, nothing of their own
  that is concurrent.
- *Public site and rate limit*: rendered content, and a sliding window that one
  synchronous function reads and writes.
- *Acquisition, vision, codebase expert, authentication, billing*: no state
  between requests.
- *Operations and diagnostics*: counters and log events that no decision reads.
- *Frontend*: but for the edit session, a reader of the states modelled here.
- *Scripts*: operator tools that drive the endpoints from outside.

Parts of modelled components that are not modelled are named in section 6.

## 2. Modules

    JobLedger                     what a client of the queue may rely on
       ^  implements
    JobQueueLedger --EXTENDS--> JobQueue         the table and its drains
                                   ^  EXTENDS, its actions conjoined
                     +-------------+--------------+
              FileExtraction              FileInitialRead
       (file row, pages, chunks)     (first read, two message stores)

    RequestGuard      registry, governors, chat and council handlers
    ThreadSources     sources of a thread, announcements, chat turns
    ModelGateway      calls, providers, breakers, ledger
    MediaExecution    rows, workers, journal and bytes
    EditDocuments     revisions, editor windows, network
    ThreadStore       Postgres, metadata and message files of threads
    NewsEvents        articles, grouping, builds and packages

Each `X` has an `MCX` with the symmetry sets or the data of its instance.
`DocumentJobsProofs` holds the theorems about the queue, its ledger and the two
modules above it; every other component has an `XProofs`. The components below the queue are modules
of their own because they meet the others at one point only, which each module
says how it abstracts (a turn in `ThreadSources` is any stream, a turn in
`ThreadStore` any answer).

### JobQueue

`jobs` is the table, `files` the existence of each file, `claims` what drains
hold: a record of job, attempt number, worker and kind of drain. Each SQL
function is one action, because it is one UPDATE over rows taken with FOR
UPDATE SKIP LOCKED. ORDER BY and SKIP LOCKED together let a call take any
subset (up to the limit) of the rows that satisfy its WHERE clause, as rows may
be locked by another call at that moment.

| Code | Definition |
|---|---|
| `_enqueue_in_session`, ON CONFLICT DO NOTHING | `Enqueue`, `Upload` |
| `claim_..._for_eligible`, `_for_file`, initial-read twins | `ClaimEligible`, `ClaimForFile`, `ClaimInitialRead`, `ClaimInitialReadForFile` |
| `reap_expired_...` (three) | `ReapEligible`, `ReapForFile`, `ReapInitialRead` |
| `requeue_job`, `complete_job` | `Requeued`, `Completed` in `Settle` |
| `_run_claimed_jobs`, `_retry_or_fail`, `_complete_initial_read_job` | `Conclude`, `RetryOrFail`, `ConcludeInitialRead`, `RetryInitialRead` |
| a process that dies, an update that raises | `Abort` |
| `delete_file` with its cascade | `DeleteFile` |

Time is two facts per row: `due` (available_at has passed) and the lease being
`live` or `expired`. Either may come true at any time. `LeaseOutlivesRun` is
the one assumption about timing: FALSE describes the default settings, where a
batch of five jobs of up to 120 s shares a 300 s lease and an initial read has
no limit; TRUE describes a deployment in which only the lease of a dead drain
runs out.

### JobLedger and JobQueueLedger

The abstract view: a job is accepted, executed a bounded number of times,
closed once and only after it was tried, or withdrawn by its owner; nothing
else ever changes. The refinement maps queued and running to open, the
`attempts` column to the executions, and MaxTries to `2 * MaxAttempts - 1`.

### FileExtraction

`doc[f]` has the lifecycle columns and whether page and chunk rows exist,
`stage[c]` is where execution `c` stands, `notices` the outcomes not yet
announced. The persist transaction is two actions, `BeginPersist` (its deletes
have run, and saw committed rows or none) and `Persist` (its inserts meet the
unique constraints and the foreign key, then commit), so that two of them can
overlap. `Retry` also stands for the timeout, after which the file row keeps
what was last committed; it may come at any step, also after the last commit.
Every action conjoins one of the queue's or leaves the queue unchanged, so what
is proved of the table holds here too.

### FileInitialRead

`ready` (files an extraction has made ready), `read` (the status column),
`sqlite` and `mirror` (overviews in the two stores), `reading` (where each
execution stands), `failures` (files whose exhausted job is still to be marked).
`ReadsMayFail` says whether `sqlite_has_initial_read` may raise and be taken for
"no message". `MessageCap` bounds the writes of a behaviour; it is at least 2,
so that a duplicate is visible.

### RequestGuard

A request is `running` from admission, `written` once its exchange is in
SQLite, `stored` once it is in Postgres, and then `ok` or `error`; `replayed`
and `rejected` requests were never admitted. begin and admission happen with no
await between them, and so do leaving the governor and completing the entry;
each pair is one action. A pending entry has the age of the request that made
it: past 45 s (`old`) its council start time may be purged, past 120 s (`late`)
its registry entry may be. `Floor0` is the `max(0, n - 1)` of the counters.

### ThreadSources

`src` is `threads.source_state`. Each mutator runs under SELECT FOR UPDATE and
is one function (`Uploaded`, `FileReady`, `FileFailed`, `Expired`,
`AfterTurn`); what interleaves are the transactions around them: the upload and
its recording, the drain and its announcement, and the five steps of a turn
(expire, resolve, load, stream, record). The lists of the code that are kept
without duplicates and only tested for membership are sets; the order of upload
is kept, as "the last two" depends on it. `Evidence` lets the retrieval find
anything in the files it may look at. `lost` remembers which files missed their
announcement.

### ModelGateway

A call is a plan of providers and a phase per await, so that `Cancel` can reach
every one. The three entry points differ where the code does: which of them
closes the breaker before booking, which goes on after a cancellation, which
stores the text of an error. `streak` counts failures since the last answer and
`sent` the requests that left; both exist for the properties.

### MediaExecution

A worker's tick claims a row, takes one of the branches of `tick`, and writes
the row again through a fence on owner and version (`Held`). Every await or
file operation between two writes is a step. The four kinds stand for the
adapters: bytes in the answer, an operation to poll with the bytes recorded in
the row first (`queued`) or in the journal first (`video`), and local rendering.

### EditDocuments

A save is known by its idempotency key, a revision by its save, and its number
is its place in `hist`. Requests are `<<save, request>>` pairs on a wire that
loses and reorders; a transaction is one step, with three outcomes (committed
and answered, committed and not answered, not committed). `seen` and `resumed`
record what a window had shown its user.

### ThreadStore

`rows` and `postgres` (with its cascade), `meta` (system_main.db) and `files`
(a SQLite file per path, a path being a thread id or a slug). `Path` is
`resolve_thread_db_path`, evaluated at each access, as in the code. What lies
between two awaits is one step: all of SQLite and the file system. A workspace is
described twice, as a chat with its row (`DescribeThread`) and then as a project
(`DescribeWorkspace`), with the end of a session between. `Reading` is
`order_thread_messages`, a recursive function over the places of the file: a
message, what is below it, what is next to it.

### NewsEvents

Grouping is written as the code does it (`Compared` blocks, `ShouldMerge`,
union-find `Components`, `Medoid`, the filter `Clusters`) and the properties
state what it should be. A build fixes the members, event and medoid of its
groups when it loads, and compares and publishes them one by one, each in a
transaction of two steps (`Read`, `Commit`). A title is the set of its significant
words, an event id is the medoid's title.

## 3. Runs

| Run | Question |
|---|---|
| `queue_stale` | With leases that end under live executions: is the table consistent, does it implement the ledger, does every job end? |
| `extraction_pipeline` | Does a file claim text it has no rows for? Where only dead drains lose leases: are executions exclusive, do job and file row agree, is the shown stage settled when the jobs are, is a first read queued only for a file that has text? |
| `initial_read` | Is a completed read written, is there one overview at most, does a pending read end? |
| `request_guard` | Are slots, keys and replays right while requests outlive the windows, and is there one execution per id, one council per question, while none does? |
| `thread_sources` | Does a turn of a thread with sources use another file? Does a file come back by a late announcement? Is every pending file still awaited? |
| `model_gateway` | Is every attempt put to the ledger once, does every answer leave a row or a log line, is every open breaker earned, does a cancelled stream stop? |
| `media_execution` | One POST, bytes behind every success, the bytes of an announced video never out of reach, no write to an ended row, an end to every execution? |
| `edit_documents` | Is what was acknowledged in the history, what conflicted not in it, what is unconfirmed in the recovery storage, and what is replaced seen? |
| `edit_overwrite` * | Does a window that was reopened on an unconfirmed save replace only what it has shown? |
| `thread_store` | Do messages leave the files only by deletion, does a chat show what Postgres has, is every file read whole and in order? |
| `thread_project` * | Is a project's conversation read from its folder? |
| `news_events` | Are groups stories, versions gapless, and builds idempotent? |

Runs with * end in a violation and are explained in section 5.

**Bounds.**
*Queue*: two jobs and two files with three drains give every pairing the queue
can tell apart: two jobs of one file (the unique index), two files in one batch,
one job held by a stale drain, the drain that took over and a third. One file is
quarantined. `MaxAttempts` is 2 (the code has 5), the least with both a retry
and an exhaustion; the bound `2 * MaxAttempts - 1` is reached. A job id is used
once, so three jobs are needed where a file is retried after its first job and
its read; those runs have one file, as no property there relates two.
*Guards*: three requests and one id let a request outlive its entry, a second
take the id and a third meet it; the caps (2, 2, 3) are reached.
*Sources*: two files make a burst, a pair and a replacement; one file that was
never in the chat is what must not be used; the turn may run again and again.
*Gateway*: two calls share the breakers; `MaxFailures` 2 (3 in the code) with
breakers that may begin half full, so that one opens under a call that started
earlier; each call is cancelled once.
*Media*: one execution, as executions share nothing but the thread; two workers,
one stale; two polls (180) and three ingests (3).
*Edits*: two windows in one browser or two, three saves, one of them sent
twice, documents of at most two revisions: a conflict, a limit and a replay all
occur. The other run has room for the fourth save and third revision that the
violation takes.
*Threads*: a chat with one exchange and an id still unused, one slug, two
requests at a time, two further messages, and one fault, which is a failing
store or a crash.
*News*: four items of two sources, two of them with a choice of what their feeds
say (dated or not, one title or another), chosen in `MCNewsEvents` so that
chains, twins, equal addresses, undated rows and the cut
at `MaxArticles` occur; two days in which one item ages out; two builds by two
processes.

Where a run checks liveness no symmetry is used. Deadlock is not checked: a
finite supply of ids, files, saves or requests is used up in the end, and the
system then rightly stops.

**Fairness.** *Queue*: the cron workflows call the eligible drain and the
initial-read drain again and again, so reaps and claims that stay possible
happen; a drain that runs comes to the end of each job, through the per-job
timeout or the timeouts of provider and database calls, or dies, and then its
lease ends; time passes. Nothing is assumed of the drains scoped to one file.
*Initial read*: an execution proceeds and its drain reaches
`sync_failed_file_initial_reads`. *Guards*: a running request ends, which the
provider and database timeouts give. *Media*: the worker loop ticks every 2 s
and a tick goes on or dies; a row that can be claimed again and again is, and
one such claim writes before a lease of two minutes ends. Everything else is
safety and needs no fairness.

## 4. Proofs

All theorems hold for every value of the constants allowed by the ASSUMEs of
the modules.

- **Queue** (`TypeCorrect`, `QueueInvariant`, `BoundedAttempts`,
  `TerminalRowsFinal`, `QuarantineHolds`, `OneActiveJob`,
  `AttemptsNameExecutions`). `QueueInv` is inductive. The part that is not
  obvious is `RequeueBudget`. A stale drain with a low attempt number can put a
  job back that has used up its attempts, so `attempts <= MaxAttempts` is
  false. But attempt numbers name executions and there are at most
  `MaxAttempts - 1` low ones, so once the limit is reached, attempts + low
  claims + (1 if queued) never grows. That gives `2 * MaxAttempts - 1`.
- **Exclusion** (`Exclusion`, `OneExecutionPerFile`). With `LeaseOutlivesRun`,
  `ExclusiveInv` adds that an expired lease has no execution left, and that a
  queued job has an attempt left. Exclusion per file needs also the unique
  index, and the fact that a deleted file gets no new job.
- **Refinement of the ledger** (`QueueImplementsLedger`). Closing a job that
  was never tried is excluded by an extra invariant: a running row has an
  attempt.
- **Extraction** (`PipelineTypes`, `PipelineClaims`, `ReadsFindText`,
  `PersistIsAlone`, `OnlyExtractionsRun`, `FilesExclude`, `StagesSettle`,
  `SucceededFilesAreReady`). Every pipeline step is a queue step or a stutter
  (lemma `PipeIsQueue`), so the queue's invariants carry over. `ClaimsAreBacked` is inductive with the
  types, because every write to a file row is one of six (`Writes`), and the only
  one that claims text commits with its rows. `PersistIsAlone` rests on the
  queue's exclusion per file and on the invariant that an execution past its turn
  is an extraction. `StageSettles` needs `Attended`: an extraction that
  reports success, or is recorded as succeeded, has left the uploaded status of
  its file behind, whatever executions overlap; it holds without any assumption
  about leases. `SucceededIsReady` needs them, and
  `ReadyUntilRecorded`: between the commit of the rows and the job's outcome the
  file stays ready, as no other execution can touch it. `ReadsHaveText` needs
  `Grounded`: page and chunk rows leave a file only with the file, or with a
  document that never had any, and an execution that reported success, the
  announcement of one and a queued first read each have them behind them.
- **Initial read** (`ReadTypeCorrect`, `CompleteReadsWritten`, `MirrorLags`, `OneOverview`). `OneOverview` rests on
  the queue's exclusion per file, and on the invariant that an execution between
  its second look and its write stands before a thread without the message.
- **Guards** (`GuardTypes`, `NoOrphanedKey`, `OneExecution`, `OneCouncil`,
  `NoSlotLeaks`, `ReplaysAreStored`). `SlotsExact` needs that the counters are
  the cardinalities of the running requests, by which the floor at 0 is never
  used. `PendingIsHeld` needs that the owner of a pending entry is a running
  request with its key; `OneExecution` and `OneCouncil` that, while no request
  outlives a window, each running request owns the pending entry of its id and
  the start time of its question, so that nothing held is purged.
- **Sources** (`SourcesInvariant`, `SourcesTypeCorrect`, `TurnsAreRestricted`,
  `PendingFilesAreAwaited`, `RecentFilesStayOut`). `SourcesInv` says of the state
  row that its lists are disjoint (`Coherent`) and of each pending file what will
  end its waiting (`Awaited`); `TurnsInv` carries from a turn's resolution to its
  record that what it reads belongs to the conversation. `StepSources` proves once
  that no step brings a recent file back (`Onward`), which is the action property.
- **Gateway** (`GatewayInvariant`, `GatewayTypes`, `BreakersAreEarned`,
  `EveryAttemptAccounted`, `CancelledStreamsStop`). The invariant goes along the
  providers a call has left: those behind the current one are untouched, those
  already left are accounted for, and only the current one may have an attempt
  that was not put to the ledger, in which case the phase says so
  (`PlanAccounted`). That an answer has a row or a log line is a part of its own
  (`AnswersLogged`): a row that cannot be written is logged in that phase. That needs a chain without duplicates, which
  `ChainAssumption` states and `_CHAIN` (model_gateway.py 87) has. A breaker's
  count is that of the failures since the last success, whichever calls they
  came from.
- **Edits** (`EditsInvariant`, `EditTypes`, `NoEarlySaved`,
  `RejectedSavesStayOut`, `UnconfirmedSavesKept`, `OnlySeenReplaced`). A save that
  was answered with a conflict or a limit is `Barred`: it creates a document that
  exists, or has no room, or revises one that has moved on. Histories only grow,
  so it stays barred, whatever copies of its requests are still on their way.
  `KeptAlone`: in a browser whose windows do not share it, the only save without
  an answer is the one in the storage, and the window waits for it.
- **Thread store** (`StoreInvariant`, `StoreTypes`, `ChatsShowAll`,
  `TranscriptsLast`, `OrdersAreReadings`). `ChatShowsAll` needs that a turn between its two writes has
  its message in the chat's own file, unless a store failed (`ChatsComplete`),
  that a project's slug is never forgotten while its row exists, and that files
  are removed only after the row (`PurgedAreGone`). One lemma (`StepKeeps`) says
  what a step of a handler may do to rows, messages and counters; each action is
  shown to be such a step. `TranscriptsOutlive` follows from what the five ways
  of writing a file keep (`TouchedKeeps` .. `PurgedKeeps`). `OrderIsAReading` needs
  that an opinion lies behind its anchor in every file (`FilesAnchored`), which the
  check of the anchor in `WriteOpinion` gives. The walk then goes to later messages
  only, so the function exists (`WalkComputes`), and what it reads from a message on
  (`Walked`) follows from what it reads from the later ones (`WalkOn`): each message
  once, opinions below their anchors and siblings in order.
- **Media** (`TypeCorrect`, `EndedRowsStay`, `OnePost`, `StoredWhenPublished`,
  `VideoKept`). Lemmas say once what a step can do to its row (`RowEffect`), to
  its tick (`TickEffect`), to the files (`FileEffect`) and what the
  surroundings can (`EnvEffect`); the invariants are proved from these instead
  of from the thirty actions. `PostInv`: a POST comes only from a tick past the
  committed mark, of which a row has one at most, whoever holds it now.
  `StoreInv`: a tick that is about to write success has its bytes in place.
  `VideoInv`: only a tick behind an announced download writes the journal, the
  row of such a video says running until the journal is there, no tick removes
  it before success, and the error handler, which may write the row at any step
  (`Guarded`), finds either no announced download, or the row still running, or
  the journal.
- **News** (`VersionsInvariant`, `VersionsHold`, `ReadersAreServed`,
  `StoryInvariant`, `NewsTypes`, `GroupsTell`, `BuildsSettle`).
  `VersionInv` is inductive: the shape of builds, that a version once read is
  not in the future (`ReadIsPast`), and `VersionsAreGapless` itself. Two builds
  that read the same version both try to insert its successor; the unique
  constraint refuses the second, and one that is late finds its number taken.
  That argument uses nothing of the grouping. `GroupsTell` is about the
  grouping: the function that `Clusters` defines by recursion exists
  (`SubsetRecursion`) because the headline of the rest is always kept
  (`KeptIsPart`), and what it returns follows by induction over the subsets of
  the component (`ClustersSplit`); the components part the articles because
  likeness has no direction (`ComponentsPart`). `BuildsSettle` needs `InHand`:
  each group of a build is still to come, is at hand, is what readers get, or
  has lost its event to another group of the build, which only twins do. Rows
  never change once stored, so that the groups of a build stay what they were
  while collections go on (`GroupsAreStable`).

**Assumptions on constants.** None beyond what the code has: bounds are naturals
(`MaxRevisions` positive: it is 1000), the values that stand for nothing are
outside the sets they extend, and the gateway's chain names a provider once.

**Only model-checked.** Everything temporal under fairness
(`EventuallySettled`, `PendingIsResolved`, `KeyIsFreed`, `Settles`), since the
prover does neither liveness under fairness nor ENABLED.
Every invariant and action property of a passing run is a theorem.
What a recursive function computes is proved where it is needed (`Clusters`,
`Reading`) without an induction theorem, which the installed provers cannot
instantiate: a counterexample that is least, in the order of the subsets or of the
places in a file, is shown not to exist.

## 5. What the models showed

### Two disagreements, each with a run

- `edit_overwrite`. `docs/EDITOR_INTEGRATION_V1.md` 31 and 33: after a conflict
  only an explicit Load latest moves to the server's head, and saving old
  content never silently overwrites another revision. `open()` on a pending save
  (`editSession.js` 29) takes the server's head while it shows the pending
  draft; after the conflict, a second press of Save is based on a revision the
  user was never shown, and is accepted.
- `thread_project`. `chat_service.py` 280 and `test_thread_promotion.py` 54-56:
  a promoted thread is a project and its conversation is in the project's
  folder. The next turn resolves the thread (`thread_service.py` 287) with the
  default session type, which the upsert's COALESCE always takes; from then on
  the file under the thread's id is read and the project's is not.

### Seen, and not listed as findings

Queue, extraction, initial read:
- `drain.py` 9 promises safety under concurrent invocation "(lease + reaper)".
  Where a lease ends under a live execution, that execution may fail late and
  mark a file failed that another made ready (`extraction_pipeline.py` 332), and
  two first reads may both write. The properties that end in `Exclusive` hold
  exactly without such leases.
- `lifecycle.py` 3-5 shows Extracting only while the durable job runs; the job
  map does not look at `job_type`, and shows it for a running initial read.
- The mark after an exhausted first read is unconditional
  (`initial_read.py` 427); a first read whose file is not ready is skipped and
  succeeds (131); readiness, enqueue and schedule share one try block (588).

Guards:
- `docs/BEN_RUNTIME_CONTRACTS.md` 27 and 38 refuse a duplicate of a council in
  flight. A council that outlived the window removes the start time of the one
  after it (`load_governance.py` 207), and a third is admitted.
- Line 204 of the same document says an id does not append twice. The markers it
  speaks of have no caller: a chat that fails between its stores frees its id,
  and the retry appends again (`chat_service.py` 773).
- `docs/DATA_GOVERNANCE.md` 14 wants the transcript stored before a council
  returns 200, while `run_council` writes to no store (`council_service.py` 25).
- `except Exception` (`main.py` 622) does not see a cancellation.

Sources:
- A file that joins a burst inherits the unused turns of the active files
  (`thread_sources.py` 146), so it may expire after one turn, where
  `source_policy.py` 9 allows two.
- A file that failed and was retried does not become active again
  (`thread_sources.py` 158).
- A pending file that was deleted, or whose announcement was lost, restricts the
  thread for ever: `PendingIsAwaited` names these two ways and shows there is
  no third.

Gateway and ledger:
- A stream that falls over after its first chunks mixes the text of two
  providers. A cancelled `route_request` goes on to the next provider
  (`model_gateway.py` 414). `handle_chat` stores the text of a provider error as
  an answer. A client that disconnects counts as a failure of the provider.
- An accounting that is cancelled leaves no row or two (`torn` in the model).
- `docs/INFERENCE_ACCOUNTING.md` 54 and `ledger.py` 71-74 promise that a record
  that cannot be inserted is logged with its fields ("no silent drop"). The log
  call passes `error_class` beside fields that have one when the attempt failed or
  was rejected (`ledger.py` 118-125): a TypeError, which 128 drops, so that
  neither a row nor a line is left. `Written` does the same, and
  `AttemptsAreAccounted` asks the row or line of answers only.

Media and edits:
- `record_result` and `save_result` are two steps: a crash between them
  (`service.py` 112) leaves a BFL execution in `ingesting` without its bytes and
  it ends as uncertain, though its operation could be asked again. `save_result`
  is not fenced (134).
- The error handler of `tick` (`service.py` 180-188) takes every OSError and
  ValueError for one of ingestion. A disk error in the source of a pending video
  sends an execution that was never submitted to `ingesting`, and from there to
  `submission_unknown`; a database error in a poll does the same to a video
  whose operation is known, where `docs/media-v1-veo-validation.md` 36 has
  restarted workers GET the stored operation. `VideoIsRecoverable` therefore
  begins where a download was announced.
- A 401, 403 or 404 on a retry drops a pending save that may be committed
  (`editSession.js` 63-64). Two windows of one browser share the recovery slot
  (10), which `UnconfirmedIsKept` has to except.

Threads:
- A turn that ends after the deletion of its thread re-creates its file.
- `delete_thread` reads the slug before its transaction, so a promotion in
  between leaves the project's folder behind; after the reset described above, a
  second promotion leaves the first folder behind. Its docstring promises that
  all of it is purged.
- Two threads may come to share one slug's file, and deleting one removes both
  conversations: `TranscriptsOutlive` counts that as a deletion of the project.
- An opinion on an unknown message pays for the model and then fails on the
  foreign key; after a reset it may hang under another message.
- `persist_council_transcript` and `append_adhoc_*` have no callers.

News:
- Twins - two articles of one title, too far apart to be compared - form two
  groups of one event id, and each build publishes the event twice, contrary to
  the docstring at `heuristic_event_builder.py` 812. `BuildSettles` has to
  except them.
- "Overlap-protected" (`pipeline_service.py` 46-47) covers the API process, not
  the cron script: a stale build may replace a newer package.
- A headline article that ages out changes the event id, and the old event
  stays as it was; the cut at `max_articles` makes packages shrink.

## 6. Abstractions to know of

- *Extraction*: the synchronous `process_file` path (processing switched off)
  and the evidence rows are not modelled.
- *Queue*: status `cancelled` is in the CHECK constraint and never written;
  `wrong_drain` is dead code, which `DrainMatchesType` of `QueueInv` shows;
  errors of `complete_job` and `requeue_job` end the drain and are `Abort`.
- *Guards*: chat and council streams pass neither guard. A handler is cancelled
  only at shutdown, when its registry, which is memory of one process, goes as
  well. What follows the Postgres commit of a chat swallows its errors, so a
  `stored` request can only become `ok`; the SQLite append swallows them too.
- *Sources*: which words of a message name a file is data: any two present files
  may be named. Only the four intents that select differently are kept.
- *Gateway*: request payloads, prices, tier routing and usage parsing are data.
  `unwritten` remembers the attempts whose insert failed; it is read by the
  property alone.
- *Media*: admission limits, decoding and evaluation, and the adapters'
  payloads are left out. The handler writes through the row `tick` holds; where
  `_async_result` has written the row since the claim (after a submission or a
  recorded poll) that row is stale and the change finds nothing, which is
  `Abort`. `StorageFails` also allows the write after a poll; for a video it is
  then the retry that `DownloadFails` makes. Errors while an execution is being
  expired or refused are `Abort`, after which the next claim decides again.
- *Edits*: the video export is left out; validation of a draft is a denial.
- *Threads*: one organisation; titles, message formats, the other files of a
  project's folder and the global service store are left out; the user and the
  assistant row of an exchange are one message.
- *News*: feed parsing, the ranking and projection of the product pages, and
  claim extraction are left out (two retries of which may persist the same
  claims, `claim_extraction_service.py` 113-206). A title has a significant word:
  the likeness of two titles without any is not modelled. Titles are sets of
  words, also in the event id, where the code hashes the sorted words with
  their repeats (`heuristic_event_builder.py` 269-271): two titles that differ
  in repeats alone are twins here and are not in the code, so the model excepts
  a little more. An administrator may publish a package of any content by hand
  (PUT `/api/internal/news/events/{id}/package`, `news_sources.py` 416-433),
  through the same transaction as a build; that third publisher is not
  modelled. To a build it is one more that disturbs it.

## 7. Plan

Modelling: claim extraction over the events of `NewsEvents`, the chat client's
recovery of an unanswered message, and the upload wake; each with the theorems that
its invariants need.
