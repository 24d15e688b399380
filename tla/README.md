# OmniOCR verification

TLA+ models of OmniOCR's concurrent core, of the programs and plugins it runs, and
of the algorithms that decide what its results contain; TLC configurations that
check them on small instances; and TLAPS proofs, for every instance, of what the
concurrent core promises, of what documents, plugins and backends do, and of what
becomes of boxes, tables and waves. The models are translated from the C++ sources; file and line references are relative to the
repository root, and `PROJECT.json` maps every definition to the lines it stands for.

    cd tla
    tlc -config ServerScheduler_job.cfg MCServerScheduler.tla
    tlapm ServerSchedulerProofs.tla   # and every other module named ...Proofs

## 1. The system and its inventory

OmniOCR turns documents (PDF, images, Office files, CSV) into structured text.
A document is rendered into pages; a layout model finds the boxes of a page;
each box is recognised by a model chosen by its type; the results are
post-processed and written. There are three front ends: the command line for
one document, the command line for a batch, and a REST server.

    Http (server.cpp)                     main.cpp
          | requests                         | one document / a batch
    ServerScheduler (server.cpp) --- Pipeline::run / run_batch (pipeline.cpp, batch.cpp)
          |  readers: read_document (document.cpp, tiff.cpp, csv.cpp, image.cpp)
          |  page workers: process_page (pipeline.cpp)
          |                  |- BoxTaskPool (box_pool.hpp), shared by the pages
          |                  |- RecognitionTaskPool (recognition_pool.hpp), shared by all
          |                  `- ModelRegistry::Pool (model_pool.cpp), one per model
          |                        `- backends: http, vllm, onnx, acl, plugins
          `- write_outputs (output.cpp)

| component | state it keeps | operations | hard behaviour | what makes it correct |
|---|---|---|---|---|
| ServerScheduler, `server.cpp:29-600` | jobs by id with status, flags and page counts; queue of waiting documents; bounded page queue; cleanup queue; quotas and counters; reader, page and cleanup threads; job directories | `reserve`, `add_upload`, `submit`, `cancel`, `remove`, reader loop, page worker loop, finalization, cleanup loop, destructor | cancel, delete, failure and shutdown against four kinds of threads; quotas shared by uploads and jobs; work outside the lock | each status is final when it says so; nothing works on a cancelled job; nothing hangs; quotas hold and are returned exactly once; results are complete |
| Http, `server.cpp:600-900` | one connection each | parse, authenticate, stream upload | timeouts, partial requests | reservations end with the request |
| `process_page`, `pipeline.cpp:22-240` | the page's stack frame: next box, stop flag, first error, outstanding tasks, pending crops | claim boxes, recognise, requeue, wait | tasks in a shared pool refer to the frame; refusal, errors, lost wakeups | the frame outlives its users; every box is done; the first error is reported |
| BoxTaskPool, `box_pool.hpp` | queue, threads | `submit`, drain on destruction | shared by pages | fair shares |
| RecognitionTaskPool, `recognition_pool.hpp` | queue, threads, credits of requests and bytes | `submit` with room, timeout and stop | admission against timeouts, exceptions in work | credits match the crops inside |
| ModelRegistry::Pool, `model_pool.cpp` | instances, scalar queue, leases, token budget and controller, visual wave, batch queue and workers | `infer` | starvation, withdrawal, batching over the callers' images, a budget that moves under running calls | an instance has one user; accounts match; nobody starves |
| `run_batch`, `batch.cpp` | ready pages, per-document results, readers left, abort | readers, page workers, assembly | failures of documents and of thread creation, bounded memory | a failure stays with its document; the batch ends |
| visual buckets and waves, `visual_buckets.hpp`, `model_pool.cpp:187-300` | none | partition, plan | boundaries of sliding windows, budget | groups partition the candidates; the best window is found |
| post-processing, `postprocess.cpp` | a page's boxes, a document's pages | filter, resolve composites and overlaps, suppress after recognition, merge tables across pages | passes that drop boxes for others which later passes may drop; chains over several pages | nothing is lost, nothing appears twice |
| OTSL tables, `table.cpp` | grid and cells of one table | read tokens, check, write HTML | spans in two directions | exactly the tables that exist are accepted, and read as written |
| token budget controller, `model_pool.cpp:365-490` | budget, phase, the window before, cooldown | end of a window, overload | decisions made from windows of other times | a good budget is found again |
| input sizes, `model_pool.cpp:107-163` | none | `input_size` | three kinds of bounds at once | the size fits, wherever one does |
| layout: `detect` in `pipeline.cpp:34-67`, `layout.cpp`, `doclayout_v3.cpp`, `geometry.cpp` | none | resize, parse, transform, crop | two resizes, four kinds of coordinates | boxes are where the regions are |
| csv, `csv.cpp` | the row and cell being read | `csv_to_html` | quotes, line breaks of two characters | rows and cells as a reader of CSV sees them |
| documents, `document.cpp`, `tiff.cpp`, `image.cpp` | child processes, temporary directories | convert, render, read | tools that leave helpers behind, deadline, cancellation | true pages in order, no process left |
| ACL backend, `backends/acl.cpp` | stream, pinned and device buffers | `run`, `clear` | asynchronous tasks that outlive a failed call | no call reads another's data |
| other backends | connections, sessions | `infer` | errors of libraries | |
| plugins, `plugin_loader.cpp`, `plugins.cpp` | loaded libraries, registry, instances, buffers of a call | load, create, call, destroy | refusals half-way, destruction of static objects | a library outlives its instances and names; buffers are released once |
| configuration, output, CLI, tools | none | | | |

## 2. Modules

| module | models | composes / implements |
|---|---|---|
| `ServerScheduler` | the REST server's scheduler, with its connections' part in it | implements `JobLifecycle` |
| `JobLifecycle` | what a client may see of a job: status, and how many threads work on it | abstract specification |
| `ServerSchedulerProofs`, `RecognitionPoolProofs`, `BoxPageProofs`, `ModelPoolProofs`, `BatchQueueProofs`, `RunBatchProofs` | theorems about the module so named | each extends it |
| `BackendProofs` | theorems about what reads documents and executes models | extends `PluginHost`, `AclStream`, `InputSize`, `DocumentReader`, `CsvRows` and `TableOtsl` |
| `DecisionProofs` | theorems about the algorithms that decide | extends `LayoutFrames`, `PageBoxes`, `TablePages` and `VisualWave` |
| `RecognitionPool` | the asynchronous recognition pool alone | its actions are parts of those of `BoxPage` |
| `BoxPage` | `process_page` with its BOX pool and recognition pool | instantiates `RecognitionPool` |
| `ModelPool` | a model's pool without native batching, all four strategies | |
| `BatchQueue` | a model's pool with native batching | |
| `RunBatch` | `run_batch` | |
| `VisualWave` | the choice of a wave and of buckets that `ModelPool` leaves open | planned waves are waves of `ModelPool` (`WavePlanned`) |
| `PageBoxes` | `postprocess_boxes` and `finalize_composite_page` | |
| `TablePages` | `postprocess_document` | |
| `TableOtsl` | `table_to_html` | |
| `AclStream` | one instance of the ACL backend, with the batches of `tensor.cpp` on it | |
| `DocumentReader` | `read_document`, `run_process` and the tools it runs | |
| `PluginHost` | plugins from `dlopen` to the end of the program | |
| `CsvRows` | `csv_to_html` | |
| `InputSize` | `input_size` | |
| `LayoutFrames` | `detect`, the parsers of layouts, `crop` | |
| `BudgetController` | the choice of a budget that `ModelPool` leaves open | |
| `MC...` | instances of each for TLC; `MCComponents` runs the last eleven side by side | |

How state and actions correspond to the code:

* **Granularity.** One action is one critical section of the component's mutex,
  or one step between two of them. What a thread keeps in local variables
  between critical sections is in its `pc` and in variables indexed by thread.
  Atomics are read and written in actions of their own where another thread can
  see the difference (`next`, `cancel`, `outstanding` in `BoxPage`).
* **Data.** Images, texts and model outputs are left out. What is kept of them
  is what control depends on: page numbers and sizes, byte counts, token
  estimates, whether a call failed.
* **Time.** A deadline may pass whenever a thread waits with one. Where an age
  decides something (`aged` in `ModelPool`) it is a flag that becomes true.
* **Errors.** Each place where a library, the file system, a backend or the
  allocation of a thread can fail has its own outcome.

`ServerScheduler`: `Id` stands for a POST request, its job and its directory;
`request[j]` is the connection's side, `state[j]` the Job's. A reader is
`idle`, `read` (inside `read_document`), `admit` (waiting for room in the page
queue), `copy` (room is reserved, the image is copied outside the lock),
`caught` (in its exception handler); page workers are `taken`, `process`; both
can be in `finalize` and `publish`, because whoever completes a document writes
it; the cleaner is in `clean`. `pages` holds `Pending` records, ordered by their
sequence.

`BoxPage`: a page has a main thread (the page worker of a scheduler or batch),
and tasks in the shared BOX pool; `box[p][b]` follows a box from layout to its
answer. `mode` says how a behaviour is configured: whether errors are recorded,
whether the BOX pool may refuse a task, whether recognition is asynchronous, and
whether there is a BOX pool at all: without one, as on the command line for one
document, the page starts threads of its own (`StartThread` to `Join`), for which the BOX
workers stand; `boxes`, how many boxes each page has. With `Async`, a box's crop goes to the recognition pool, whose state and
actions are those of `RecognitionPool` (`Pool == INSTANCE RecognitionPool WITH ...`), with
the page's stop and cancel flags for `abandoned`. `CropsHandedOver` is about the passage
between the two: a region of the page is written without a lock, first by a BOX thread and
then by one of the recognition pool, and `pending` is counted up by the one and down by
either.

`ModelPool`: `strategy` is the configured one of four and never changes. A caller
is `out`, `waiting` in `scalar_queue`, `calling` with a
lease, or `returning` (its budget is given back, its lease not yet). The choice
of a wave's members among those the code may choose, and the controller's
choice of a budget, are nondeterministic: properties hold for any choice.
`VisualWave` and `BudgetController` say which choices the code makes.

`BatchQueue`: callers and workers of native batching. A request is named by its
caller, which has one at a time.

`RunBatch`: readers, page workers and the calling thread of a batch. `ready` is the priority
queue as the set of its entries, each with the sequence number it was queued under.

`VisualWave`: requests are pairs of a visual cost and the other tokens of the
prompt; `Plan` is `plan_visual_wave` as a whole, with adaptive or fixed buckets,
any number of free instances and any age of the oldest request. The property
compares it with `ModelPool`'s definition of a wave and with a direct statement of
what the sliding windows look for.

`PageBoxes`: boxes are as high as the page, so that their left and right edges
decide containment and overlap; scores are in tenths; a text is the set of words
it contains, of which one is long enough to matter. The filters `low_score` and
`header_footer` and the resolution of composites are on, `overlap`,
`inspect_inner_text` and `expand_if_uncovered_text` are chosen by the behaviour.
`max_recovered_boxes` is not reached. Box numbers are places in the list that
remains after the filters; the code keeps the detector's numbers, in the same
order.

`TablePages`: a region's content is the sequence of its table's rows; horizontal
alignment is a column, and nearness to a page's edge a flag. `NextPage` is one
iteration of the loop of `postprocess_document`.

`TableOtsl`: one action per token; a table is cut off at a bound of rows and
columns. The HTML is the sequence of its cells, each with its row (`<tr>`) and its
spans. What a table means is stated twice: how a browser places the cells of the
HTML, and which token texts cut a grid into rectangles.

`AclStream`: `run` step by step, against a device that works off the stream at its
own pace and may fail at any moment; a buffer holds the number of the call whose
data is in it, for each place of the exported batch. `asked` is how many requests the
call is for; missing ones are padded and cut off again (`Combined`, `Slice`).

`DocumentReader`: `at` is the thread's place in `read_document`, `read_tiff` or
`run_process`; the tool and one process it has started run beside it, write chunks to
the pipe and may end at any moment, with or without the file they were to make.
`Kill` is `kill(-pid)`. Two assumptions: helpers stay in the tool's process group, and
the number of a group that is still to be killed is not given to another process.

`PluginHost`: a `shared_ptr` to a library is a member of `holders`, and the library is
`opened` while it has one. The loading thread holds `library_mutex`, so its steps are
its own; `CreateModel`, `Execute` and `DestroyModel` interleave with them. A library
exports one plugin, a backend, a layout or a recognition adapter, whose name may be that
of a built-in one or of the other library's. Each kind has names of its own (`BuiltIn`,
`Taken`): a backend and an adapter of one name, or an adapter named like a built-in
backend, are both registered.

`CsvRows`: one action per branch of the loop over the characters; `ReadText` chooses the
text. The reference is a definition of what the rows of a CSV text are.

`InputSize`: `Resize` is `input_size` as a whole, its candidates and searches operators
of their own; the property says when a size exists and what is to be true of it.

`LayoutFrames`: settings are those that `validate_config` lets through; a model answers
with the regions of the page in the coordinates it was configured for, and `Parsed`,
`ToPage` and `Box` are what the code makes of them. Lengths are quarters of pixels, and the sizes
are chosen so that every scaling comes out even: rounding is in `Crop` only.

`BudgetController`: one action per window that closes and per overload. Ratios are
percentages; where a product is an integer, the neighbouring one that floating point
may give is allowed too. The backend is `calm` from some moment on: then its rate is a
function of the budget. `searching` counts windows for the property and decides nothing.

These eleven share no state with each other or with the modules above, except
through the calls already modelled there. `MCComponents` therefore instantiates
them beside each other: the variable `part` says which of them a behaviour is of,
and all others stay as they began.

### Operators named `Buggy...`

Next to some definitions stands one with the same parameters whose name begins
with `Buggy`: the definition with a plausible mistake (a dropped guard, an
account not kept, a swapped order). No specification uses them. Each is listed
in `PROJECT.json` under `mutants` with the property that fails when it takes its
neighbour's place: it shows that the property depends on the code being as it is.

## 3. Runs, bounds and what they show

All runs are exhaustive for their instance. `CHECK_DEADLOCK FALSE` appears where
the system may stop: after the scheduler's destructor, the end of a batch, a
pool that has been destroyed, and functions that have returned (`MCComponents`).

| run | instance | question |
|---|---|---|
| `scheduler_job` | 2 jobs of up to 2 pages, 1 active slot, 1 reader, 2 page workers, queue of one page | the job life cycle in every interleaving of work, cancel, delete and shutdown, and that each job lives as `JobLifecycle` says |
| `scheduler_sharing` | 2 active jobs, 2 readers, 1 page worker, uploads in chunks of 1 and 2 bytes against a quota of 3, pages of 1 and 2 bytes in a queue of 2 pages and 2 bytes | accounts of uploads, of admission and of both limits of the page queue; a page as large as the queue; what is reserved for pages being copied |
| `scheduler_liveness` | 2 jobs, one thread of each kind, the second job with priority | every job ends, cancellation completes, the destructor returns |
| `scheduler_active` | 2 jobs, one active slot | the documents' reading of `max_active_jobs` (violated, see Findings) |
| `recognition_crops` | 5 crops, sizes up to more than the pool's, 2 workers, 2 places and 3 bytes | credits in every order of submissions, timeouts, abandoned pages and endings |
| `page_pages` | a page of 3 boxes or of 1, 2 BOX threads; submissions refused, or recognition asynchronous with one place and a crop that is too large, or the latter from the page's own threads, of which one may not start | no box lost, no task left, the error reported is the cause, a box at work is with one thread or queue, the page waits for its crops and no others, `process_page` returns |
| `page_lifetime` | 2 boxes | the frame's lifetime (violated, see Findings) |
| `pool_calls` | 4 callers, 2 instances, estimates 1 and 3, budgets 2 and 3, the four strategies | leases, budget accounts, waves, bypass limit, and that nobody waits for ever |
| `batching_calls` | 3 callers, slots of 3 and 2 | requests are neither lost, nor run twice, nor run after their caller left; calls return, the destructor joins |
| `batch_documents` | 2 documents of 2 priorities, 3 pages, 2 readers, 2 workers, room for 2 | failures are local, results complete, order kept, the batch ends |
| `components_parts` | OTSL tables of up to 3 by 3 and what is one token too long; documents of 3 pages of up to 2 regions of 9 kinds; 3 boxes of 4 extents and 5 kinds; queues of 4 requests of 6 costs; 3 calls of 2 inputs, 2 outputs and batches of 1 or 2 in places for 2; documents of up to 3 pages where 2 are allowed, tools that write 2 chunks into a pipe of 2; 2 libraries of any of 3 kinds and 3 names (one of them a built-in backend's), 2 instances and 2 calls of plugins; CSV texts of up to 5 characters; images of up to 6 by 6 with factors 1 to 3; pages of 2 regions in 2 rectangles and every valid setting; budgets from 4 to 32 and five curves | the last eleven modules, over all inputs and interleavings within these bounds |
| `components_nested` | the boxes of `components_parts` | the documents' reading of suppression (violated, see Findings) |

In `pool_calls` single callers reach the limit of `HeadBypassedSeldom`; a planned wave is too
small there to come near it, which `PassesAreBounded` covers for any bounds.

There is no liveness run of the recognition pool by itself: that admitted crops
finish and their pages are told is part of `EveryPageReturns`, which is checked
with the pool inside.

Why the bounds are enough. The interesting events need few actors: two jobs
compete for a place or a slot, two threads work on one job, one thread observes
another's half-finished step, and a third is waiting. Queues are given one or
two places so that they are full most of the time, sizes are chosen so that one
item exceeds a limit, and there are more callers than places. `MaxPages` bounds
a document. The algorithms have no larger cases of another kind: three boxes are a
composite in a composite with its contents, or two composites and a box that both
contain; three pages are a chain with a middle; a 3 by 3 table has cells inside
spans in both directions; four requests are more than one window and more than are
scanned; five characters are two cells, one of them quoted, and a line break of two
characters; a tool with one helper is the least that can leave a process and its
output behind, and a library refused after another was loaded the least that can close
the wrong one, and two libraries can also both be registered; limits on edges and areas are chosen around the multiples of the factors,
so that some have one solution and some none. Curves are work that saturates below,
within and above the range of budgets, and work that declines beyond a budget; turbulent
times may leave any of three rates in the controller's memory. Priorities differ only where order matters. Symmetry is used in
safety runs only, over values that no expression distinguishes.

## 4. Fairness

* Threads the program creates run: weak fairness of each thread's steps
  (`std::thread`, and blocking waits that are notified, or look again after 20 ms as those in
  `model_pool.cpp` and `recognition_pool.hpp` do).
* Calls that leave the program end: a backend has a request timeout, a
  converter a process timeout. So the step that ends such a call belongs to the
  thread's fair steps.
* A thread's step is one disjunction: which of several outcomes happens is never
  fair. No property needs a call to succeed, a timeout to expire, a client to
  act, or a caller to give up.
* In `ModelPool`, each waiting caller's `Acquire` is weakly fair by itself,
  because each of them looks at the pool at least every 20 ms, and becoming old
  (`Age`) is, because time passes.
* Of the parts in `MCComponents` only safety is checked, so they need no fairness:
  that `run_process` ends is its deadline and `kill`; that the controller finds a budget
  is stated with a bound on windows (`Patience`).
* Clients are not fair: `reserve`, `cancel`, `remove` and disconnects may happen
  or not.

## 5. Proofs

Each module of proofs holds for any values of its module's constants that satisfy the
assumption named in the tables: any number of jobs, pages, callers and threads, any
limits. The assumptions say what the code and its configuration guarantee (threads are
finitely many and of one kind each, limits are positive, pools are not empty), and TLC
evaluates them in the runs.

`ServerSchedulerProofs`, under `SchedulerAssumption` (`server.cpp:944-971` enforces the
limits):

| theorem | statement |
|---|---|
| `Types`, `FieldsKeepTheirTypes` | `TypeInv`, `TypeOK`: fields, queues and threads keep their types, and no unsigned counter is decremented below zero |
| `Invariant` | the inductive invariant `Inv` |
| `CancelledJobsAreQuiet` | `CancelledIsQuiet` |
| `CancellationNeverStalls` | `CancellingMakesProgress` |
| `ResultsAreWrittenAlone` | `FinalizesAlone` |
| `AccountsBalance` | `AdmissionLedger` |
| `LimitsHold` | `AdmissionBounded` |
| `QueueHoldsWantedPages` | `QueuedPagesAreWanted` |
| `ResultsAreComplete` | `SucceededComplete` |
| `NothingComesBack` | `NoResurrectedFiles` |
| `QuotasAlwaysBalance` | `QuotasBalance` |
| `Refinement` | `ImplementsLifecycle`: the scheduler implements `JobLifecycle` |

None of these is inductive. For example `CancelledIsQuiet` speaks of threads,
but the code decides by the flags `reader_running`, `finalizer_running` and
`pages_running`; so the flags must be shown to agree with the threads, whatever
state the job is in. The invariant is

    Inv == TypeInv /\ RunInv /\ RequestInv /\ CleanInv /\ AdmissionLedger /\ LimitInv

* `TypeInv`: types, in groups; counters are only integers in it (that none
  becomes negative follows from the rest).
* `RunInv`: of each job, `ReaderPart` (`reader_running` is set exactly while one
  reader has it), `WorkerPart` (`pages_running` is the number of page workers in
  `process`), `FinalPart` (`finalizer_running` is set exactly while one thread
  finalizes), `AccountPart` (`outstanding` counts queued and carried pages) and
  `FreshPart` (a job that has not begun has none of these); and `PagesInv`, that the
  page queue is finite and ordered.
* `RequestInv`: a job exists exactly when its request has been submitted; only
  submitted ones are registered; a reservation belongs to a request that is still
  being received or has just been rejected.
* `CleanInv`: a job being cancelled, with nobody at work on it, is in the
  cleanup queue once or with the cleaner; nobody else is there.
* `AdmissionLedger`, `LimitInv`: the accounts and the limits.

The later theorems take `Inv` as proved and add what they need:

* `ResultInv`, for `SucceededComplete`: the numbers of the pages that are queued, carried
  or collected are always those the reader has queued, so that none is lost between two
  threads; a reader's own page number agrees with them.
* `FileInv`, for `NoResurrectedFiles`: a job being deleted is final and nobody works on
  it, so that no thread can still write below its directory when it is removed. Each of the
  three removals (cleanup, `DELETE`, a request that ends before its job is submitted) may
  fail; cleanup and the end of a request go on, so what they leave behind is said to
  be left by a failed removal (`cleanupFailed`).
* `UploadInv` and `SpaceInv`, for `QuotasBalance`: bytes of uploads are those of the
  reservations, bytes of the page queue those of its pages, and reserved bytes those of
  the readers that copy one, so that a path which forgets to return them is seen; a byte account is the cardinality of a set of pairs, which lemmas take apart one
  owner at a time.
* The refinement shows that each step, seen through the mapping (a job's status and the
  number of threads that work on it), is a step of `JobLifecycle` or none at all.

The other modules:

| module, theorem | statement | assumption |
|---|---|---|
| `RecognitionPoolProofs`, `PoolTypes` | `TypeOK` | `PoolAssumption` |
| `RecognitionPoolProofs`, `CreditsAreTrue` | `CreditsMatch` | the same |
| `BoxPageProofs`, `TasksStayBounded` | `TasksBounded` | `PageAssumption` |
| `BoxPageProofs`, `FrameIsReleasedLast` | `NothingOutlivesPage` | the same |
| `BoxPageProofs`, `ReportsAreTrue` | `PageReportIsTrue` | the same |
| `BoxPageProofs`, `OneOwnerPerBox` | `CropsHandedOver` | the same |
| `ModelPoolProofs`, `TypeCorrect` | `TypeOK` | `PoolAssumption` |
| `ModelPoolProofs`, `LeasesAreExclusive` | `LeasesExclusive` | the same |
| `ModelPoolProofs`, `LedgerIsTrue` | `BudgetLedger` | the same |
| `ModelPoolProofs`, `PassesAreBounded` | `HeadBypassedSeldom` | the same |
| `BatchQueueProofs`, `BatchesStayBounded` | `TypeOK` | `BatchAssumption` |
| `BatchQueueProofs`, `RequestsNeverLost` | `RequestsAccountedFor` | the same |
| `RunBatchProofs`, `QueueStaysBounded` | `TypeOK` | `BatchAssumption` |
| `RunBatchProofs`, `OtherDocumentsComplete` | `FailuresStayLocal` | the same |
| `RunBatchProofs`, `PagesInOrder` | `PagesStartInOrder` | the same |
| `BackendProofs`, `NoProcessIsLeft` | `NothingLeftBehind` | none |
| `BackendProofs`, `EveryPageInOrder` | `PagesAreTrue` | `DrainAssumption` |
| `BackendProofs`, `TextIsRead` | `CsvReads` | none |
| `BackendProofs`, `TableIsRead` | `TableReads` | `OtslAssumption` |
| `BackendProofs`, `PluginsAreLoaded` | `PluginsStayLoaded` | `PluginAssumption` |
| `BackendProofs`, `CallsStayApart` | `CallsDoNotMix` | `AclAssumption` |
| `BackendProofs`, `EverySizeFits` | `InputsFit` | `SizeAssumption` |
| `DecisionProofs`, `LayoutPlacesBoxes` | `BoxesInPlace` | `LayoutAssumption` |
| `DecisionProofs`, `PageIsAccountedFor` | `PageAccountedFor` | `BoxesAssumption` |
| `DecisionProofs`, `TablesKeepRows` | `EveryRowOnce` | `TablesAssumption` |
| `DecisionProofs`, `WavesArePlanned` | `WavePlanned` | `WaveAssumption` |

Why each needs more than its property:

* `CreditsMatch` counts crops; an action moves one crop, named by the queue or by a
  worker. So the invariant adds that a crop is in the queue once (`TasksInv`), that it
  is with one worker and in a stage of work (`WorkersInv`), and that none admitted is
  larger than the pool (`SizesInv`). Types alone say only that credits are integers:
  that `size_t` is never decremented below zero follows from `CreditsMatch`.
* `BoxPage` is one invariant, since its properties hold for each other's reasons: a page
  returns only when `outstanding` and `pending` are zero, so these must count tasks and
  crops truly (`TaskInv`, `PendInv`, with who is at which place, `PlaceInv`); no box is
  left behind, because a page that still has boxes has a task that will look for them
  (`ProgressInv`) and what a box's state says of its holder is true (`HoldInv`, `BoxInv`,
  `CropInv`); and what is reported has its cause (`ReasonInv`). Without a BOX pool
  `outstanding` stays unused and joining the threads takes its part. `CropsHandedOver`
  takes this as proved and adds, for each box (`OwnInv`), that one thread has it at most,
  that the thread's place, the stage of the crop and the box's state fit together (`Fits`,
  `Given`), and that a box beyond `next` has neither thread nor crop, which is why a claim
  cannot meet another owner; and for each crop (`TakenInv`), that one worker has it exactly
  while it is taken. A step is either of no box (`QuietKeeps`), of the thread that has it
  (`HolderKeeps`), or of a recognition worker with its crop (`CropOwns`).
* In `ModelPool`, the queue must hold each waiting caller once, and a wave some of them
  (`QueueInv`); leases, instances and callers agree (`LeaseInv`), a planned wave finds its
  instances and sequences (`RoomInv`); the accounts follow (`LedgerInv`).
  `HeadBypassedSeldom` speaks of callers that have been passed; it holds because only the
  head of the queue is ever passed, and because what is left of a planned wave cannot take
  it past the limit (`PassInv`), which is what planning a new wave establishes.
* In `BatchQueue`, a started request without an answer is in the batch of exactly one
  worker, at a place the worker has not answered yet, and its caller still waits
  (`BatchInv`); the queue holds the others once (`QueueInv`), and `inflight` counts what is
  in calls (`CallInv`).
* In `RunBatch`, the pages of a document that has not failed are where they should be: what
  its reader has delivered is in the queue, with a worker or finished (`PageInv`).
  Completeness of a batch that returns follows when the readers have claimed every
  document (`ClaimInv`) and every thread has ended (`MainInv`, `CountInv`); an error has its
  reason (`ReasonInv`). Order needs that sequence numbers grow with page numbers
  (`OrderInv`).
* `NothingLeftBehind` needs `GroupInv`: in which places of `run_process` the child may be
  in which state, so that every way out leads through `kill` and the second `waitpid`
  waits only for a process that has ended.
* `PagesAreTrue` needs how many pages have been handed out at each place of
  `read_document`, and that a page's file is there only if it was made for this page
  (`PageInv`); and for the output, that what is kept and what is still in the pipe are all
  that was written, or the limit is reached (`OutputInv`), through the last `drain` after
  the tool has ended.
* `PluginsStayLoaded` needs who holds a library (`HolderInv`), that a library is open while
  it is held (`OpenInv`), to whom an instance belongs (`OwnerInv`), how far the loading
  thread is (`LoadInv`), and for buffers `CallInv`.
* `CallsDoNotMix` needs that the stream holds the last of the tasks the present call has
  queued, and that each buffer holds what the tasks before them have made
  (`StepInv`, `Work`); a copy that is still queued finds its buffer as its own call has
  left it (`CopyInv`), which fails as soon as a call returns without draining.
* `InputsFit` rests on arithmetic: `Up` and `Down` give the nearest multiples of the factor,
  a height is above the rounded quotient exactly if the area is large enough, so what the
  search finds is exactly what fits (`FoundFits`), and an image that fits is its own and only
  candidate (`KeptAsItIs`). It holds for every factor; the run has those up to 3.

* `CsvReads` compares a parser that passes the text once with a definition that cuts all of
  it, lines first and then cells. The definition is followed character by character:
  `RowsNext` says that one more character makes the last cell longer, or begins a cell or
  a row, and that only the last line can have a quote open (`Level`). The invariant
  `CsvInv` says of what has been read (`Prefix`: pairs of carriage return and line feed are
  one unit) that every cell but the last is written (`Writes`), and what the parser's
  state tells of the last (`CellReads`). A character that is refused leaves a cell that
  nothing behind it repairs (`Spoilt`, `Broken`), which an induction carries to the end of the
  text (`BrokenOn`).
* `TableReads` compares three things: what the code keeps of the tokens read, the tables that
  are cut into rectangles, and where a browser puts the cells. `ReadInv` says of each place
  that its token and its cell agree, of each cell that it reaches its first and last row and
  column at places of its own, and that cells are in reading order; this is not enough to
  refuse a token, since nothing in it is about tables. `FollowInv` adds that any table which
  begins with the tokens read has its rectangles where the cells are; since each place of
  such a table has one owner (`TilingOwner`), the next token continues the cell that the
  code asks (`TilingGoes`), or no table goes on with it (`NoTilingGoes`). At the end, `Squares`
  (the code's check of rectangles) makes the tokens a tiling (`AcceptedTiles`), and a tiling
  passes it (`TilingAccepted`). The browser follows by induction over the cells: the first
  free column in a cell's row is the cell's (`FreeColumn`), as every place on its left
  belongs to an earlier cell and its own place to no other. TLC checked the invariant
  (`OtslInv`) on tables of up to 3 by 2.

The algorithms of `DecisionProofs` run over data of any length, as do the two above, so
their proofs are inductions: over the boxes of a page, the pieces of a text, the requests
of a queue, the cells of a table. They are written with sets. A set of natural numbers that holds 0 and, with each number,
the next one, holds all of them (`NatInductive`); `FiniteInductive` says the same of the
subsets of a finite set, and `RecursionExists` that a function defined by recursion over
`0 .. n` is one. A loop of the code is such a function in the model, or the elements of
a set in the order of how many precede them; `CountOrder` and `RankSequence` show that
the latter names each element of a finite set once and in order.

* `BoxesInPlace` is about the last step of one page; before it, `LayoutInv` keeps that
  settings are valid and the model is shown the image of the size they promise. Then each
  scaling is undone exactly by the other (`Quotient`, for any sizes that divide evenly, as
  `LayoutAssumption` asks for), and sorting into reading order loses and doubles no box.
* `PageAccountedFor` says that what is near a chosen box may go, and that nothing else
  may. The passes drop boxes for others which a later pass may drop, so what each of them
  keeps is not about single boxes: in every set of boxes that nothing links to the rest
  of the page (by a shared place, or as composite and content) one is still chosen
  (`Represented`). `StillRepresented` shows it of a pass from what the pass does to a single
  box; the loops of deduplication and of suppression keep it at each of their steps
  (`DuelLosers` is one round of the first). `BoxInv` holds it from `postprocess_boxes` on
  (`Ready`) until the page is finalized.
* `EveryRowOnce` compares the whole document with the pages as they were recognised. The
  invariant says it of the pages the loop has been through (`ReadSoFar`), which the next
  merge keeps only because a merged region is emptied and linked to one that was not itself
  merged (`Rooted`), because nothing is shown between the two (`Silent`), so that rows moved
  from one to the other do not pass any other text, and because the header that is
  compared with is still the one that was recognised (`Headed`). Pages ahead of the loop
  are as they were (`Untouched`).
* `WavePlanned`: the sum that slides along is the prefill of the window that ends there
  (`SlideIs`), so the best window found is the best there is; the windows before, at and
  after it are the sequence again when put together; a wave grows by requests that
  are not in it and fit (`Packed`, kept by `Join`). `ModelPool` counts tokens as the
  cardinality of a set of units, which is the sum kept here (`UnitsCounted`). The invariant
  `WaveInv` keeps the plan's facts between planning and the end.

The invariants of `BoxPage`, `ModelPool`, `BatchQueue` and `RunBatch` were also checked by
TLC on the instances of their runs. Some assumptions came out of proofs:
`AclAssumption`, that a model has inputs, outputs and places; `SizeAssumption`, what
`bounded` enforces (`config.cpp:109-110`); that the sizes of `DocumentReader` are natural
numbers; that `NoCrop` is no crop (`PageAssumption`); and that boxes found again have a
width (`BoxesAssumption`).

Not proved, only model-checked:

* Liveness: `EveryJobEnds`, `ShutdownCompletes`, `EveryPageReturns`, `NoStarvation`,
  `EveryCallReturns`, `BatchEnds`. `ENABLED` and fairness are outside the prover.
* `FindsTheKnee`: its bound on windows (`Patience`) belongs to the curves of the instance,
  and its conclusion too: on another curve a probe downwards from the ceiling may end
  at a budget between the two that were held.

## 6. Findings

* **A failed job frees its active slot too early** (`scheduler_active`).
  `fail_locked` (`server.cpp:249`) returns the slot when the first thread fails,
  while the job's other threads still read or recognise it; `docs/server.md:74`
  says that `max_active_jobs` includes the jobs in conversion and inference. The
  limit does hold for the jobs whose status is not final (`AdmissionBounded`,
  proved).
* **A page's frame can go before its last task** (`page_lifetime`). The last BOX
  task decrements `outstanding` and then locks `done_mutex`
  (`pipeline.cpp:215-219`), both in the frame of `process_page`, which may see
  the count and return in between; `box_pool.hpp:13` says that page workers wait
  for their futures. The window is a few instructions. `NothingOutlivesPage`
  shows that nothing else of the page is used after it returns.
* **A composite nested in a kept one leaves its contents behind**
  (`components_nested`). With `inspect_inner_text`, a composite that is kept removes
  its direct children (`postprocess.cpp:269-273`); a child that is itself a
  composite is then skipped (`:246`), and what is inside it stays in the result
  beside the outer box. `docs/configuration.md:78` says that the outer box
  suppresses all of its descendants, which it does without `inspect_inner_text`.
  `PageAccountedFor` shows what does hold: nothing is lost, and a composite is never
  beside its own direct children.

## 7. Hazards

`PROJECT.json` lists what in this code is hard to test, each at its line, with
the properties that would catch it going wrong. Three that it does not list, because no property covers them:

* `pipeline.cpp:211`: when a BOX task cannot queue its successor, the page is
  stopped before the error is stored, so a cancellation may be reported when memory
  ran out. `PageReportIsTrue` allows it, and no document says otherwise.
* `document.cpp:55`: a group whose processes have all ended before `kill(-pid)` might
  have given its number away; the model assumes it has not.
* `batch.cpp:178`: `postprocess_document` is called unguarded when the results of
  a batch are assembled. Only exhausted memory or a plugin's own extension fields
  were found to make it throw.

Remarks on behaviour that no document speaks against:

* `document.cpp:127` turns a cancellation while an EPUB or OFD file is converted into an
  ordinary error; the job's own flag is looked at afterwards, so its status is right.
* When doubling the budget in slow start brings a loss, the controller takes 85 % of the
  doubled budget (`model_pool.cpp:450-455`), which is more than the budget before;
  `FindsTheKnee` shows that later windows correct it.
* `probe_step` has no upper bound (`model_pool.cpp:881`); `ControllerAssumption` asks for
  less than one.

## 8. Not modelled

* Decoding, scaling, rotating and drawing images, polygons and masks: floating-point
  arithmetic without state, and calls into libraries.
* Tensor pre- and post-processing, decoding of recognised characters included, and the
  backends HTTP and ONNX: to the models a call ends with a value or an error. Loading of
  the ACL backend is one step.
* Markup: the header row and escaping in `csv_to_html`, the HTML, colours and files that
  post-processing also handles; regular expressions over HTML appear as the flag
  `plain` of a table.
* HTTP parsing and authentication, configuration parsing, output formats, the
  command line, and the tools: sequential, and their effect on the models is the
  range of the constants and the inputs.
* The controller's new start after the pool has been idle (`model_pool.cpp:654-664`):
  `BudgetController` follows it while calls keep coming. It begins as the code does after
  such a start, in slow start, with any budget and nothing measured.
* Thread creation that fails in the constructors of the pools and of the scheduler:
  the program does not start then.

## 9. Plan

Done: 1. `ServerScheduler`, `JobLifecycle` and proofs; 2. `RecognitionPool` and
`BoxPage`; 3. `ModelPool` and `BatchQueue`; 4. `RunBatch`; 5. `VisualWave`,
`PageBoxes`, `TablePages`, `TableOtsl`, `AclStream`; 6. `DocumentReader`, `PluginHost`,
`CsvRows`, `InputSize`, `LayoutFrames`, the batches of `AclStream`, and the command
line's threads in `BoxPage`; 7. `BudgetController`; 8. proofs about `RecognitionPool`,
`DocumentReader` and `PluginHost`; 9. proofs of the scheduler's remaining safety properties
and of its refinement of `JobLifecycle`, of everything but liveness in `BoxPage`,
`ModelPool`, `BatchQueue` and `RunBatch`, and of `PagesAreTrue`, `CallsDoNotMix` and
`InputsFit`; 10. proofs about the algorithms on data: `BoxesInPlace`, `PageAccountedFor`,
`EveryRowOnce`, `WavePlanned`, `CsvReads` and `TableReads`.

What is left to TLC: liveness and `FindsTheKnee`, for the reasons given in
section 5.
