# A formal model of tangle-cli

`tangle-cli` submits pipelines to a Tangle API server, follows their runs,
publishes components, and turns Python into pipelines, pipelines into hydrated
documents, and both back again.  This directory models the parts of it whose
correctness depends on the *order* of things (what the manager knows when a
request fails halfway, what several threads or publishers do at the same time,
what is left when a run stops between two renames) or on *sharing* (a cache, a
key, a process, a name that means two things).  The modules are written in
TLA+; TLC checks them on small instances, and the TLA+ proof system checks
theorems about them for all values of their parameters.

Paths below are relative to `packages/tangle-cli/src/tangle_cli/` unless they
say otherwise.

- [Inventory](#inventory)
- [The modules](#the-modules)
- [The runs](#the-runs)
- [What is proved](#what-is-proved)
- [What the checks found](#what-the-checks-found)
- [Assumptions and abstractions](#assumptions-and-abstractions)
- [Not modelled, and the plan](#not-modelled-and-the-plan)

## Inventory

How the parts interact.  A command of the CLI loads its configuration, builds a
`TangleApiClient` and one manager object.  `PipelineRunner` prepares a pipeline
(compiler, hydrator, validation, layout) into a submit body and hands it to
`PipelineRunManager`, whose attempt loop creates a run and polls it.  Every
request of every component goes through `TangleApiClient._make_request`, which
retries within one budget and asks the client's one `RequestRateLimiter` for a
slot; worker threads (the execution tree, the publisher's reads) share client
and limiter.  Hooks of `PipelineRunHooks` are called at named points of the loop
and may raise.  `ComponentPublisher` reads and changes the registry through the
same client.  The compiler executes Python sources in its own process and writes
a bundle of files; the decompiler, the dehydrator, the generator and the version
manager write files too.  What is shared is thus: the server's state (runs,
component rows), the limiter, the interpreter (`sys.path`, `sys.modules`,
handles), and the file system.

| Component | State | Operations | What is hard | Correct means |
|---|---|---|---|---|
| Run manager: attempt loop (`pipeline_run_manager.py`) | attempt number, frozen submit body, run id per attempt, cancelled runs | submit, recover after a submit error, wait, cancel, retry, release | the create may act on the server though the client saw an error; hooks and Ctrl-C raise anywhere | one run per logical submission; a retry never forgets a run it may have made; hooks are paired |
| Runner (`pipeline_runner.py`) | preparations per attempt | prepare, run, format, clean up | clean-up hooks raise; a retry shares a preparation | every preparation is cleaned up once; the result is the one of the submitted body |
| Run manager: wait loop (`wait_for_completion`) | deadline, last observation | poll the run and its graph state, decide, sleep | tasks move between reads; a clock that is set; poll errors at the deadline | the verdict is true of the server; the wait ends; failures are not hidden |
| Run manager: task wait (`wait_for_task_statuses`) | map child → status, failure counter | fetch root, ask each child as container then as graph | one map of observations from many moments; glitches look like "unknown" | what it returns is final; failures surface |
| HTTP client (`client.py` `_make_request`) | budget of attempts, sends and time; layers' own counters | redirect, transient retry, rate-limit retry, auth refresh | four layers retry, one budget; a failed mutation may have been applied | a mutation is applied at most once; no answer is lost; everything ends |
| Log streams (`client.py`) | response in hand, rounds | open, retry, hand over | retries around retries; responses to close | one connection at most is held; the budget bounds both |
| Rate limiter (`rate_limit.py`) | last start, paused-until, pause owner, interval | acquire, pause, set rate | threads sleep outside the lock; pauses overlap and change owner | starts are spaced; none inside a pause; a bounded wait ends |
| Execution tree (`execution_tree.py`, `client.py`) | frontier, seen ids | level by level, a pool of threads, enrich tasks | a fetch fails or overtakes others; shared children | whole and in order, or an error |
| Run search (`pipeline_run_search.py`) | page token, collected rows | filter, page, cut, go on from a token | limits across pages; runs that start meanwhile | no row lost or repeated, what follows is told |
| Component publisher (`component_publisher.py`) | per component: checked state, candidates to deprecate | check, re-check, create, deprecate, batch | two requests are not atomic; other publishers; answers lost | only older rows are deprecated; the newest stays live; the pin is current |
| Decompiler (`pipeline_decompiler.py`) | sidecar, units, generated modules; files at their place, aside, staged | verify, pin, split, name, emit, prune; publish by renames, roll back | names clash; equal leaves are shared; any rename may fail, the process may stop | the Python text means the pipeline it came from, nothing is left over; a generation is published or restored together |
| Dehydrator (`pipeline_dehydrator.py`) | remembered choices, saved files, manifest | choose, replace, extract graphs, write | paths change while graphs are taken out; calls follow each other | each output hydrates back to its pipeline |
| Hydrator (`pipeline_hydrator.py`, `utils.py`) | cache, inherited template parameters | resolve the references of tasks depth first | what a reference means depends on its place, the cache outlives the place | the cache changes nothing; every graph keeps its directory and parameters; the best reference is taken |
| Compiler (`pipeline_compiler.py`) | frames, broadcast layers, registry by key | compile, share, validate, write | two ways for configuration to flow; recursion | sharing changes nothing; what is refused leaves nothing |
| … its imports | `sys.path`, `sys.modules` | evict, execute, trace, purge | one interpreter, modules of the same name | a compilation sees what it would see alone |
| … its references | variants, sidecar, URLs | plan, list, relocate, register, check | one function, several components; output elsewhere | every reference leads to its own component |
| Python DSL (`python_pipeline/`) | builder in a context variable, handles | call, bind, rename, wire, emit | nested and failing traces; handles used again | the graph is what the body did |
| Validation and layout (`pipeline_validation.py`, `pipelines.py`) | queues | check shape, order and wiring; place tasks | two collectors that descend differently | agrees with what the backend does |
| Configuration (`args_container.py`) | layers, selections | check, select, substitute, merge | a document is a graph (aliases); the environment | the file is what is loaded |
| Version manager (`version_manager.py`) | component file, Python source | find, bump, generate | the second of two writes fails | one version on both, one step on |
| Bundles of modules (`module_bundler.py`) | modules found, visited | collect, order, inject | a module's name against its file; order of execution | runs from its bundle what runs from the project |
| Front ends, secrets, artifacts, API cache, generated code | – | parse, print, one request each | – | – |

`PROJECT.json` lists the components with their sources and what of each is
modelled, and under "hazards" the places where the code is exposed to an order,
a failure or a boundary that its tests would hardly reach.

## The modules

| Module | Models | Built on |
|---|---|---|
| `RunLifecycle` | the attempt loop with its recovery of failed submits, against a server that applies, loses or delays creates | |
| `LogicalRun` | what that loop promises: logical submissions, the runs made for each, the one tracked | abstract, refined by `RunLifecycle` |
| `PreparedRun` | `run_pipeline`: preparation inside the loop, clean-up behind it | `RunLifecycle` |
| `StatusReduction` | how counts of task statuses become one status and a verdict | |
| `WaitLoop`, `TaskWait` | `wait_for_completion`, `wait_for_task_statuses` | `StatusReduction` |
| `HttpRequest` | one request through the client's four retry layers | |
| `LogStream` | the opening of a stream around that request | `HttpRequest` |
| `ExecutionTree` | the details of a run, fetched in threads | |
| `RateLimiter` | the limiter and the threads that share it | |
| `PacedStarts` | what the limiter promises: spaced starts, none inside a pause | abstract, refined by `RateLimiter` |
| `RunSearch` | searches page by page while runs start | |
| `ComponentPublish` | several publishers of one owner against one registry | |
| `StagedPublish` | the publication of a generation of files, over a series of runs | |
| `Decompiler` | a pipeline becomes Python, up to the stage that is published | |
| `Hydrator` | the traversal of pipelines and components, with its cache | |
| `Dehydrator` | specs become references again, over a series of calls | |
| `GraphChecks` | the two collectors, the layout, and the backend they speak about | |
| `Compiler` | the recursive compilation with its sharing by key | |
| `ModuleLoad` | the interpreter that compilations share | |
| `TaskSidecar` | where the references of a compiled pipeline lead | |
| `Tracing` | from a body to its graph | |
| `ConfigLayers` | the configuration of a command | |
| `VersionBump` | bumps of a component and its source | |
| `ModuleBundle` | the modules a component takes along, against Python itself | |
| `MC…` | the constants of the runs, and the choice between the components of one run | the modules they name |
| `…Proofs` | theorems and their proofs: `ClientProofs` about the modules of a request, `WaitProofs` about the two waits and the reductions they share, `PublishProofs` about the two publications, `SourcesProofs` about the modules a compilation imports, the references and the traces of a pipeline and the bump of a version | the modules they name, `TLAPS` |

How state and actions correspond to the code; the definitions' lines are in
`PROJECT.json` under "map".

**RunLifecycle.**  `attempt` is the loop variable, `body[a]` says by which
attempt the submit body of attempt *a* was built (a frozen body keeps its
submission id, so a shared body is a shared submission), `run[a]` is
`context.run_id`, `net[a]` the fate of the create request, which the server may
still apply after the manager gave up on it.  One action per step of
`_run_body_factory` and of `_recover_submitted_run_after_submit_error`; each
exit path (return, fail-fast, retry, ambiguity, an escaping exception) goes
through `Release`, the `finally` clause.  `setting` says who names the
submission and which faults occur.

**PreparedRun.**  Adds the runner's preparations to the loop's actions: `prep[a]`
is the preparation attempt *a* uses, its own or the one of the attempt whose
body it reuses; `cleanups` counts calls of the hook, `broken` is the preparation
whose clean-up raised.  `outcome` is how `run_pipeline` itself ends.

**WaitLoop / StatusReduction.**  `task` is the server; a poll is `ReadRun`, then
`ReadGraph` with `use_graph_state`; `seen` is the observation put together from
both.  `left` is the time to the deadline *on the clock the code reads*: that is
`time.monotonic()` by default, and `time.time()` with `timeout_clock="wall"`, the
one that `SetClock` moves.  An answer may lack counts, may say `has_ended`, or
the read may fail.  `StatusReduction` translates the precedence
orders and `PipelineWaitOutcome`; statuses keep their names.

**TaskWait.**  `leafStatus` gives the status of every leaf; a child is a container
with one leaf or a graph with several.  `found` is the map one poll fills in,
request by request; `asking` is the child whose container request was answered
404.  `failures` is `root_fetch_failures`.

**HttpRequest.**  `pc` is the layer in control; `attempts`, `sends`, `left` and
`slot` are `_RetryBudget`; `round`, `backoff` and `held` are the layers' locals
(`held`: which layer still has a response it returns when the budget is out).
`applied` counts what the server did, `heard` is a history variable: a response
other than a redirect arrived.

**LogStream** composes the steps of `HttpRequest` with connections: a streamed
answer adds one (`Arrive`), each place that drops a response must close it
(`Close`), and `OpenAgain` is the loop around the whole request.

**ExecutionTree.**  `level` is the frontier, `started`, `landed`, `failed` and
`collected` the pool: requests land in any order, responses are taken in the
order of submission, and a failure leaves those that are queued unstarted.

**RateLimiter.**  `since`, `pause_left`, `owner`, `interval` are the fields of
`RequestRateLimiter` as times relative to now; a worker's `at` and `timer` are
its place in the client and its sleep.  What a method does under its lock is one
action, every sleep is outside.  `Tick` advances all clocks.  `asked` is a
history variable: the pause each worker was asked for.

**RunSearch.**  `filter` is built from the options as `build_filter` does;
`cursor`, `rows`, `pages` and `final` are the locals of the paging loop, and the
user goes on from `final` while `NewRuns` start.

**ComponentPublish.**  `row` and `successor` are the registry; a publisher goes
through `Check`, `Recheck`, `Create`, `Deprecate`… as `publish_component` does,
or, without a version, through `SkipUnversioned`.
`seen` is what of the live rows could be read; `batch` says whether the
publishers run one at a time.

**StagedPublish.**  `dest`, `aside` and `script` say which generation's file is
where, `sidelined` and `placed` are the lists of `_publish`; every `os.replace`
is a step, may fail (`RenameFails`, the `OSError` handler) and may be the last
(`Stop`).  Runs follow each other with `pid`s, which may repeat.

**Decompiler.**  One step per phase of `decompile_pipeline_file`.  A pipeline is
its graphs, tasks and leaves; a leaf is what the library, its bytes and its
generating source say of it.  `units`, `emitted` and `code` are what the phases
hand on; the refusals are verdicts by name.  `ReadsBack` compiles `code` again.

**Hydrator.**  The documents (pipelines, components, inline subgraphs) and what
each reference means in each directory are parameters.  `stack` is the recursion
of `traverse_pipeline_tasks`: one frame per graph, with the task it has reached
and the `base_dir` and `recursive_params` passed down to it.  A spec carries the
annotations `_source_dir` and `_recursive_params` as fields; `Give` puts the
copy of a spec into a task and descends into it.  `tried`, `best`, `resolved`
are the locals of `_resolve_best_ref`; `given` is a history variable.  A call
that raises leaves the cache as it is (`EndAs` is the `finally` clause).

**Dehydrator.**  `remembered`, `saved` and `fragments` are the dehydrator's own
tables, which outlive a call; `working` holds the references by path, `todo` the
queue, deepest first.  `Hydrated` reads an output back from where it lies.

**GraphChecks.**  `shapeOf`, `wiringOf`, `layoutOf` are the work lists of the
collectors and of the layout, `ready` and `incoming` the queue of
`_task_layers`; `begun` and `done` are the backend, which is external.

**Compiler.**  A frame of `frames` is one `_compile_pipeline_fn` under way with
its effective configuration; `layers` is `ctx.broadcast_stack`, `registry` the
children by key.  What a body calls under which configuration is a parameter.

**ModuleLoad.**  `modules` and `path` are `sys.modules` and `sys.path`; every
import of every compilation is a step, so that compilations could take turns
(`AtOnce`).  `alone` runs the same compilation in a process of its own.

**TaskSidecar** has a step per function of the pass over the references;
**Tracing** one per entry of a body (`builders` are the `GraphBuilder`s,
`current` the context variable, `running` the traces inside each other);
**ConfigLayers** one per function of the load, on documents that are graphs of
nodes; **VersionBump** one per phase of `bump_version`, whose writes and whose
generation may fail.  `Remains` is what a write that failed leaves of a source:
any prefix of its functions, or these without the first, when the function of
the file's name, which the model lists first, stands lower in the text.

**ModuleBundle.**  `Collected` is the depth-first search with its `visited` set,
`Inject` the second pass of the snippet, one module at a time; a batch is what
`TopologicalSorter` has ready, in any order.  `Ran` is the import system of
Python on the same files.


## The runs

Six runs pass and six are violated by design (each states what a comment or
docstring of the repository promises and the code does not keep).  A passing run
holds several components that do not touch each other: a behaviour picks one
(`which`) and the others are over from the start, so nothing is lost to the
combination.  Every passing run checks deadlock except `Hydrator_all`, whose
components have nothing to do after the last call; the others stutter explicitly
when they have ended.  Each property has a mutant of the code ("mutants" in
`PROJECT.json`) under which TLC finds it violated.

| Run | Bounds | Why they are enough |
|---|---|---|
| `PreparedRun_all` | 3 attempts, 2 lookups, waiting, 3 settings | a third attempt can share a frozen body with both earlier ones or with one; two lookups distinguish first, later and none; the settings are: everything fails, failed creates are settled before they are looked for, pinned id |
| `Waits_all` | a run of 2 tasks, `max_wait` 3, intervals 2, reads up to 1, one setting of the clock by 2; a root with a container and a graph of 2 leaves, `max_wait` 1, 2 failures | a poll sees two tasks at different stages; sleeps are clamped or not; a setting can skip or double the rest of the wait; the smallest root with both kinds of children; the failure limit is 2 instead of 3, and the loop treats all values alike |
| `Client_all` | 4 attempts, 6 sends, 2 redirects, 2 rate-limit rounds, 6 time units, 3 openings; 2 threads with intervals 0 and 2, pauses 0, 1, 3, jitter 1, `max_wait` 3; trees of up to 5 executions and 2 threads; 3 searches, pages of 2 | in this budget each of the three limits runs out first on some path; pauses overlap, shorter inside longer and the reverse, ownership moving to either thread; a level with a shared child and one that fails; a limit below, at and above a page |
| `Publish_all` | 3 publishers, 3 digests, 3 versions, one may downgrade; 2 products beside the script, 2 further runs, 2 pids; pipelines of up to 3 tasks and 2 graphs | three publishers are the fewest where one acts between another's two steps while a third reads; a failure before, between and after the products, and at the script; names that read alike, equal and nearly equal leaves |
| `Hydrator_all` | 2 calls, nesting up to 4, 11 documents in 2 directories, 6 references, 2 template parameters; 2 dehydrations of pipelines with graphs 2 deep; graphs of 3 tasks | a second call finds what the first cached elsewhere; a relative and a template reference are reached from both directories, under two settings of the parameters and under none; equal graphs at two places, one extracted before the other; every wiring of three tasks has every cycle and every diamond |
| `Sources_all` | 6 functions, 2 keys, 2 values, depth 5; 3 compilations of 4 siblings; 3 bodies after another over 6 handles; documents with aliases and 3 selectors in a row; 2 bumps; 3 modules in every mixture of imports, packages 2 deep | two ways to the same child under equal and different configuration, with a cycle and a depth beyond the limit; the second compilation finds the names of the first; a handle bound by one body and used by the next; a node reached at two depths and from itself; a bump after a failed one; an order that one batch leaves open |
| `HttpRequest_replay` … `ModuleBundle_nested` | the same instances, one property each | the findings below |

What each shows:

- `PreparedRun_all`: a frozen body is shared exactly while its fate is in doubt
  and a tracked run stems from the attempt's own submission
  (`SubmissionFollowed`); with settled creates and working lookups a submission
  makes one run, and a run that was cancelled is not the result (`OneRunOfUse`);
  `on_submit_error` tells the truth (`ReportsTruthfully`); hooks are paired, of
  attempts and of preparations (`HooksPaired`), and what is reported is the
  preparation of the body that was sent (`PreparationOfBody`); the loop
  implements `LogicalRun`, by which an ambiguity is real, and the call ends.
- `Waits_all`: what is reported is true of the tasks although it was made of
  reads of different times (`ReportIsTrue`: the success verdict, the status,
  which hides no failure, and that what was read as ended is neither a timeout
  nor an early exit; and the outcome rebuilt from public metadata is the one the
  loop recorded); a returned map is final and failures surface
  (`TaskStatusesSurface`); on a clock nobody sets no poll is late (`NoLatePoll`),
  and of the requests for tasks one at most (`OneRequestLate`); waits end
  (`WaitsEnd`).
- `Client_all`: the deadline holds up to one send and an answer that arrived is
  not replaced by a `RetryError` (`AnswersInTime`); a mutation is applied once at
  most as long as servers redirect only what they have not applied
  (`AppliedOnce`); one connection at most is held (`OneConnection`); a tree is
  whole and in order, or an error, and nothing is under way after it
  (`TreeIsExact`); whoever is exempt from a pause sleeps through it
  (`OwnerSleeps`); the limiter implements `PacedStarts`; rows are what the filter
  means and what follows them is told (`SearchIsExact`); everything ends, a
  bounded wait for a slot too (`CallsEnd`).
- `Publish_all`: `RegistryStaysCurrent`, `PinsAreCurrent`, and in a batch
  `PublishesNewer`; `NothingLost`, `OneGeneration`, and over a series of runs
  `ScriptKeepsItsFiles`; what is staged reads back as the pipeline and has
  nothing left over (`ExportExact`).
- `Hydrator_all`: what a task is given is what its reference means where the
  task stands, the best of several, in the context of its place
  (`FitsItsPlace`); every output hydrates back and nothing promised is left
  inline (`SplitsExactly`); what validation accepts runs and what it refuses for
  order or wiring does not (`ChecksAgree`); every call ends, if only at Python's
  recursion limit (`Ends`).
- `Sources_all`: the bundle unfolds to every call compiled by itself, when the
  keys of calls and of broadcasts are apart (`SharedMeansEqualApart`); a
  compilation that succeeds leaves a whole bundle, one that is refused leaves
  nothing and names the reason, one whose write fails may leave a part
  (`BundleOrReason`); `LoadIsExact`; compilations one
  after another see their own modules, leave nothing, and select one pipeline
  (`LoadsClean`); `RefsLeadHome`; `TraceIsFaithful`; `BumpIsExact`; what Python
  runs also runs from its bundle (`BundleRuns`, but for circular imports and dots in
  nested packages, see below); everything ends (`SourcesEnd`).

### Fairness

Liveness is checked only where the code itself keeps going.

- The attempt loop is one synchronous thread, and each request has a transport
  timeout: `WF(Manager)` (with the runner's own steps) and `WF(Server)`, the
  latter because a request under way lands or is lost.
- The wait loops, the request and the compilations are one thread each; a step
  is always enabled until they end (every send has a timeout, every sleep is
  finite).  Where that is written as `<>Over \/ []<><<TRUE>>_vars` it says the
  same as weak fairness of the next step and is checked faster.
- The hydrator is one synchronous traversal: `WF(Work)`.  How long a stream is
  read is its reader's choice, and nothing is assumed of it.
- `WaitsEnd` assumes for waits without a deadline that the API answers (again
  and again; from some time on): an unbounded wait on an API that never answers
  has no end, and the code promises none.
- The limiter: the clock advances and a runnable thread runs.  That a wait for a
  slot ends is claimed for waits with a `max_wait` only.  A first slot is waited
  for without one, and by design nothing keeps other threads from taking every
  slot before it; that wait has no bound in the code.

## What is proved

`tlapm` checks every proof to the last leaf.  A theorem holds for all values of
the constants that satisfy the module's `…ConstantsOK`; none assumes a bound.

| Module | Theorems | Argument |
|---|---|---|
| `RunLifecycleProofs` | `TypeCorrect`, `SubmissionsKept` (`SubmissionFollowed`), `ExactlyOnce` and `CancelledIsNeverTheResult`, together `OneRunOfUseKept` (`OneRunOfUse`), `SubmitErrorsAreTrue` (`ReportsTruthfully`), `RunsAreLogical` (refinement of `LogicalRun`), `LifecyclesPaired`; of `PreparedRun`: `RunnerKeepsLifecycle` (it is one use of the loop), `ReportsItsPreparation` (`PreparationOfBody`), `PreparationsCleanedOnce`, `HooksArePaired` (`HooksPaired`) | `Shape`: attempts beyond the current one have no body, no run and no request. `NoRival`: while a submission is in doubt none of its creates is under way, and at most one was applied. `CancelledFailed`: a cancelled run belongs to an attempt before the current one, or to the one that failed. For the refinement: of a submission's attempts only the last has a run that is known (`KnownOnce`), so the run tracked of it is well defined; every step is one step of `LogicalRun` or none |
| `WaitProofs` | of `WaitLoop`: `TypeCorrect`, `ReportsAreTrue` (`ReportIsTrue`), `PollsAreInTime` (`NoLatePoll`); of `TaskWait`: `TaskReportsAreFinal` (`TaskStatusesSurface`), `RequestsAreInTime` (`OneRequestLate`) | of the reductions: counts turned into statements about tasks; the reduced status of an observation is terminal exactly when every task's is, and then unsuccessful exactly when some task's is. An observation, however old, agrees with the server on every terminal status, since terminal statuses have no successor; the two tests for a finished poll agree on counts, so the two outcomes do. `FoundStands`: a child found terminal in any request of a poll has leaves that ended for good, and what was found is what they reduce to. `Judged`: a result is the judgement of the map found last |
| `ClientProofs` | of `HttpRequest`: `RequestTypes`, `DeadlineHolds`, `AnswersAreKept`, both in `InTimeWithItsAnswer` (`AnswersInTime`), `NeverDuplicated` (`AppliedOnce`, under `~SeeOther`); of `LogStream`: `OpensKeepTheirPromises` and `NothingAppliedTwice` (the same two, over all opens of a stream), `StreamsHoldOneConnection` (`OneConnection`); of `RateLimiter`: `LimiterTypes`, `ExemptSleeps` (`OwnerSleeps`), `StartsArePaced` (refinement of `PacedStarts`) | `Leaving`: once applied, the mutation is on its way out with an answer no layer retries. `InHand`: what has been heard is the current answer or held by a layer. `StreamInv`: at each layer, whether the response in hand is still open. `AskedCovered`: the one pause kept covers all that were asked for |
| `ExecutionTreeProofs` | `TreesAreWhole` (`TreeIsExact`) | `Covered`: the children of all that is fetched are fetched or in the level, so that when nothing of a level is left, nothing of the tree is. `Owned`: an execution is kept with the response to its own request and below a parent kept before it. `Pooled`: what has been collected has landed |
| `SearchProofs` | `SearchesAreExact` (`SearchIsExact`) | a list that is newest first is told by the runs in it, so that the argument is about sets. `BuiltFilterMeans`: the filter built from options asks a run for what the options ask of it, dates and overriding notes included. `PagesSoFar`: the rows so far are the first of the runs wanted at the first answer, and the cursor names the last of them. `SnapshotIsOlder`: what has started since is newer than any cursor, so what is listed next is the rest (`PickedRest`). `EarlierAreNewer`: earlier results are above the token this one began with |
| `PublishProofs` | of `ComponentPublish`: `PublisherTypes`, `OnlyNewerSupersedes` and `NewestIsKept`, together `RegistryCurrent` (`RegistryStaysCurrent`), `PinsStayCurrent` (`PinsAreCurrent`), `BatchPublishesNewer` (`PublishesNewer`); of `StagedPublish`: `StageTypes`, `PreviousIsKept` (`NothingLost`), `RollbackRestores` and `ScriptComesLast`, together `GenerationsStayTogether` (`OneGeneration`), `SeriesKeepsScript` (`ScriptKeepsItsFiles`) | `TodoIsOlder` and `OwnIsPublished`: what a publisher will deprecate is older than what it has published by then; rows never vanish. `OneAtATime` and `CheckHolds`: in a batch what the last check saw is still all that is live at the create, and `VersionedAtWork`: who publishes has a version. `ProductOK`: where a product's files are can be read off the two lists; `ProgressOK`: how far the lists have got, off the place in the loop; `FreshAside`: a pid of its own finds nothing aside |
| `HydratorProofs` | `TypeCorrect`, `CacheIsTransparent`, `ContextIsInherited`, `BestIsTaken`, all in `EverythingFitsItsPlace` (`FitsItsPlace`) | `KeyIsEnough`: a cache key holds all that loading depends on, from `PathsOK`. `CacheCoherent`: every entry is what loading under its key gives. `StackStep`: the six things a step can do to the stack |
| `SourcesProofs` | of `ModuleLoad`, for `AtOnce = 1`: `NothingIsLeft` (`NothingLeft`) and, where `PlainModules` holds, `LoadsAreClean` (`LoadsClean`); of `VersionBump`: `BumpsAreExact` (`BumpIsExact`); of `TaskSidecar`: `ReferencesLeadHome` (`RefsLeadHome`); of `Tracing`: `TracesStayApart` (`RecordsItsOwn`, which `TraceIsFaithful` contains, and that a step leaves the builders of other pipelines alone) | `PathOK`: `sys.path` is the process's own, with the directory of the body that runs in front. `HeldOK`: `sys.modules` holds what the process finds by itself, and besides that only what lies in the directories that will be purged. `AloneOK`: it is that of a process of the compilation's own, and besides what any process finds; what is found where the body runs is its own. `SelectedIsTheOne`: the selection by positions is the one that the names ask for. `PhaseOK`: which files a bump has written is told by the step it is at. `IncrementIsNext`: the incremented version is the least later one of its depth, for any numbers; `FoundAgain`: a source is found again where the generation recorded it. `IdentityIsComponent`: two calls have one identity exactly when they describe one component, paths written from a directory being told apart as the paths they lead to (`RelPathLeads`). `VariantsOK`: the entry planned for a component is that of one of its calls, in the shortest spelling; `UrlOK`: what each step has made of a URL. `NestOK`: each trace under way has a builder of its own and the token of the one around it, so that a reset at either end of a body gives the context variable back |

None of the properties is inductive by itself; the strengthenings above say what
the code relies on without saying so.  The lemma of a module that carries the
weight is the one whose name ends in `Step` or `Inv` (`SearchStays` for a search),
with one case per action.

The levels of an execution tree, and the pages of a search, are flattened by a
recursive function.  The library's induction theorems cannot be cited for it,
since they take an operator; what they are needed for is shown from the least natural number at which it
would fail (`LeastOf`, from the well-foundedness of `<` on the naturals).

Model-checked only: liveness (the prover has neither fairness nor `ENABLED`);
and most modules about documents and sources: `Decompiler`,
`Dehydrator`, `GraphChecks`, `ConfigLayers`, `ModuleBundle` and the inputs of
`Compiler`, whose references are recursive operators, without which their
definitions would not be readable; and of `Tracing` that a graph is what the text
of its body says (`IsAsWritten`): what a chain of `.bind()` and the like derives
is a fold, which is induction over the chain.

The hypotheses of two theorems are about the code.  `AtOnce = 1`: that
compilations of one process do not overlap; without it the property is false
(`ModuleLoad_concurrent`).  `PlainModules`: beside a script, and off the
process's own path, there are modules and no packages, since
`_evict_shadowed_bundle_modules` (2691-2722) looks for `.py` files only, so that
a package that the process has imported under the name of one beside the script
stays; the run's files meet it (`FilesArePlain`).

## What the checks found

Six runs are violated, each on a statement of the repository about itself:

1. **A mutation can be sent again after a redirect** (`HttpRequest_replay`).
   `client.py` 433 and 453 say that a mutating request is never duplicated.  A
   server that applies a POST and answers 303 makes the client follow with a
   GET; if *that* is answered 429 (or 401), the rate-limit layer (the auth
   refresh) repeats the request from the start, with its original method.
   `AppliedOnce` holds, and is proved, for servers that redirect only before
   they act.
2. **The re-check before a create does not exclude other publishers**
   (`ComponentPublish_race`).  `component_publisher.py` 322 says the check never
   publishes an older version.  Check and create are two requests; a newer
   version created in between leaves the older one live beside it.  That no
   newer version is deprecated holds, and is proved.
3. **Several locators that all fail are an error** (`Hydrator_unresolved`).
   `pipeline_decompiler.py` 1682 says that the hydrator then "returns unresolved
   instead"; `_resolve_best_ref` resolves the first one again, which raises.
   The decompiler is safe either way, its check after hydration covers other
   cases (a nested reference without any locator).
4. **Two compilations of a child can share one key** (`Compiler_shadow`).  The
   comment at `pipeline_compiler.py` 1076 promises distinct keys "whenever the
   difference can affect its descendants".  The key holds the effective
   configuration and the ambient keys the child does *not* declare; of a key it
   declares, the broadcast value its descendants see is in neither.
   `SharedMeansEqualApart` is the part that holds: programs in which the keys
   set on calls and the keys that are broadcast are apart.
5. **Compilations in one process at the same time see each other's modules**
   (`ModuleLoad_concurrent`).  `pipeline_compiler.py` 2822 says concurrent
   compiles never collide; `sys.path` and `sys.modules` are shared while they
   run.  One after another (`LoadsClean`) they do not.
6. **The imports of a nested package are not collected** (`ModuleBundle_nested`).
   `module_bundler.py` 206 promises transitive collection.  A relative import
   in the `__init__.py` of a package inside a package is resolved one package
   too far out, so the module it means is missing from the component.

Noted while modelling, without a run of their own.  In the client, the run
manager and the publishers:

- After the last attempt fails nothing is resubmitted, although the log line
  (`pipeline_run_manager.py` 2054) announces it.
- A deprecation that fails is logged and leaves two live versions; this is by
  design, and the next publication proposes the old row again.
- `_publish` promises a rollback "across EVERY product" for a rename that
  fails.  The rollback's own renames are not retried: it stops at the first
  that fails, and an interruption between renames is not rolled back at all.
  `NothingLost` shows that even then all files are still on disk, under their
  own or a `.replaced-<pid>` name.
- The names of files moved aside are made unique by the pid.  When a pid comes
  back (in a container, every run may have the same), a run overwrites what a
  stopped run left aside: `ScriptKeepsItsFiles` is stated for different pids.
- `execution_tree.py` 106 says that each execution is fetched once.  One that
  two executions of the same level have as a child is asked for twice in that
  level's batch, and the later answer replaces the earlier one at its place.
- A search result cut to its limit hands over the token of the next *page*, so
  rows of the last page beyond the limit are skipped by whoever goes on from
  it; `SearchIsExact` states what the call does tell.  Dates without a zone
  take today's offset from UTC, and a basic-format offset (`-0500`) is read as
  no zone at all.

In what reads and writes documents:

- A nested graph whose path holds the separator (a task named with it) stays
  inline (`_get_subgraph_by_path`), although the comment above
  `default_choice` says that every choice that promises a dehydrated document
  replaces the nested graphs too.  `Separated` marks the case.
- A task's graph that is given as text is never searched for cycles; undeclared
  arguments of a component that cannot be loaded are not checked.
- `README.md` 1519 says that one entry of a resolve config that *raises* fails
  the hydration; the caller that tries several references of a task treats it
  as a miss.
- `_write_artifact` says that no partial bundle is written: that holds for what
  is refused (`BundleOrReason`), not for a write that fails.
- A handle keeps what a trace bound to it (an alias such as `main = train`, an
  argument), and a later trace in the same process finds it.
- Calls in helper functions are told apart by line number only.

In the version manager and the bundler:

- A bump whose generation fails has written its source and cannot be repeated
  with the same version, which is by then the current one.  When authoring code
  is refused the earlier component is deleted (`component_generator.py`
  324–326), while a failed write leaves the partial file; an empty component left
  by one is later bumped to a bare `0.1`.
- An unquoted `1.10` is read as the number 1.1 and bumped to `1.2`.
  `BumpIsExact` shows that this is the one loss there is: every other version is
  bumped from the text that is written, and a bump writes a spelling that is read
  as it is written, so that bumps do not undo each other.  A component
  whose source lags goes down in version.  Other keys of the docstring's
  metadata section are dropped.
- The order of modules in a bundle depends on the order of a set of strings, so
  the bytes and the digest differ between runs of the interpreter; the comment
  at `module_bundler.py` 373 says the tie-breaking is stable across runs.
- A cycle of imports that Python tolerates may fail in a bundle, although
  `encode` says that it would also fail under a normal import; and `import p.a`
  followed by `p.V` at load time is no dependency on `p`.  `BundleRuns` is
  stated for modules without a cycle; a statement of the model uses only what it
  names itself, so the second case is outside it.

## Assumptions and abstractions

- `RunLifecycle`: a create is applied at most once by the server; the listing
  is consistent with what was applied.  `LogicalRun` promises nothing to a
  caller who pins the submission id (`promise = "none"`): all attempts are then
  one submission by the caller's choice.
- `WaitLoop`, `TaskWait`: terminal statuses are final, which the code relies on.
  Only statuses on which the backend's task life differs for the code are
  reachable from `Follows`; the reduction itself is translated for all.
- `HttpRequest`, `LogStream`: statuses by the classes the layers tell apart;
  delays in whole units; the doubling of the backoff is exact.
- `RateLimiter`: pacing in whole units; the jitter added to a wait for another's
  pause is any value from 0 to `MaxJitter`.  `since` saturates at the longest
  interval, which is all the code compares it with.
- `RunSearch`: the server is external; its tokens are positions, newest run
  first, and it may answer an empty page with a token.  Run ids count up, and
  annotations are searched for under other keys than the server's own name and
  author (`SearchConstantsOK`).
- `ComponentPublish`: versions are compared as numbers in their order, a digest
  fixes a version; a create whose answer was lost is applied at once or never.
- `StagedPublish`: the products of an output name are the same for every run
  (the names derive from it); files are equal when of the same generation.  A
  deletion of what is aside may fail for any subset.
- `Hydrator`: a document does not change while a hydrator lives, and a reference
  means the same document each time it can be fetched at all (`Means`);
  `PathsOK` says that only a relative path, directly or in `file://` or
  `resolve://`, looks at the directory, which holds for the resolvers of this
  repository but would not for a registered resolver that reads the directory
  out of its context.  All schemes but `file` and `resolve` are "http".  The
  post-processing callback, which no caller in the repository passes, and
  `enable_resolution = False` are left out.  A `hash` of the parameters stands
  in the cache key; the model compares the parameters.  Inline specs carry no
  annotation.  `MaxDepth` stands for Python's recursion limit.
- `Dehydrator`: outputs and the bundle are local; a canonical URL is taken at
  its word; a name pins its author only; defaults of template inputs and the
  wording of file names are left out.
- `GraphChecks`: the backend is external, and a component that cannot be loaded
  is taken to run; a graph given as text is not descended into for its order; a
  document misfits the schema in one way per kind.
- `Compiler`: what a body calls under a configuration is a function of it, and
  layouts are values.  `ModuleLoad`: a module is the directory it was found in;
  only `.py` files in the script's own directory, or the child's, are evicted.
  What the process has imported before it finds on its own path, and what is
  found on a directory of sources lies in it (`ImportsOK`).
- `TaskSidecar`: the digest of an identity is the payload it is taken of; a task
  refers to a function in a file, a registered function or a written URL
  (`RefsConstantsOK`).
- `Tracing`: bodies are straight lines of calls; helper functions (told apart by
  line), runtime `inputs=`, handles kept from one run of the command to another
  and the order of arguments are left out.
- `ConfigLayers`: a document is a graph of nodes, and a variable of the
  environment stands for a whole value.
- `VersionBump`: versions are sequences of numbers or one word, times are the
  number of the call; a part of a version written without quotes is at most
  `MaxDecimal` (20 in the run, up to 999 for the proof), so that at most two zeros
  are lost; whether a write or the generation succeeds is open; a component
  that was written in part reads as an empty mapping or not at all (`Blank`,
  `Cut`), a source in part keeps some of its functions whole;
  dependency files that are detected without being named are left out.
- `ModuleBundle`: every package has an `__init__.py`; a module's own name is
  defined once its imports are done; a statement uses only what it names; the
  encoding of the bundle, and modules of the same name loaded from elsewhere,
  are left out.  Python's import system is external.

In all modules of documents and sources the inputs are written out
(`MC…`): every element is a document, a program or a set of files that the tools
accept as such, including the ones they then refuse.

## Not modelled, and the plan

Left out as a whole, since their correctness is about text, types or one
request without state, which tests reach and a model would only repeat:
payloads and listings of the run manager, lookups and response models of the
client, the schema cache, the front ends (`*_cli.py`), artifacts, secrets and
identity, `openapi/codegen.py` and what it generates, and the trust of Python
sources (a predicate on paths).

Modelled in part:

- Publisher: updates of metadata and a bare deprecation are single requests.
- Decompiler and dehydrator: the wording of the Python text, and the
  decompiler's check of its own output by importing it.
- Hydrator: the entries of a resolve config (in order, local against primary
  side, preview against final version, `fallback_on_error`), which stand behind
  `Means`.
- Search, validation and layout: tables, links, hints, diagrams; the schema's
  own rules.
- Compiler and DSL: the several spellings of a reference are one kind each.
- Component generation: the inspection of functions and their text
  (`component_from_func.py`) reshape one syntax tree into another.

What comes next:

1. `ResolveConfig`: the order of entries, and that it implements what
   `Hydrator` takes as `Means`.
2. `Tracing` with helper functions, and its handles across traces, once the code
   says what they should mean.

Beyond the prover: liveness under fairness, and recursive operators, which is
why the modules with theorems use none; what a recursive function computes can
be shown from the least counterexample, as for the execution tree and the pages
of a search.
