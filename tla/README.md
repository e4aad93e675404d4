# Tool QC in TLA+

Tool QC writes, checks and runs API test cases. A web server (ASP.NET) serves a
browser application in which users generate drafts from workbooks or build them by
hand, check and repair them, save them as official test case files, and run them.
The runner is a process of its own which the web server starts; it executes suites of
test cases against HTTP APIs, databases, caches and brokers. Diagrams are drawn by
Archify, a set of Node programs vendored under `.agents/skills/archify`, which fetches
its own updates and brand marks. This directory holds the formal model of the parts
where order, failure, concurrency or geometry decide whether the program is right:
TLA+ modules, TLC configurations, and proofs checked by TLAPS.

Contents: [Inventory](#inventory) · [Modules](#modules) · [Runs](#runs) ·
[Proofs](#proofs) · [Findings](#findings) · [Plan](#plan) · [Not modelled](#not-modelled)

## Inventory

`Web` is `src/runner/AutoTest.Web`, `Runner` is `src/runner/AutoTest.Runner`, `Archify`
is `src/.agents/skills/archify`, the libraries are under `src/src`.

### Tool QC

| Component | State it keeps | Operations | Hard behaviour | What makes it correct |
|---|---|---|---|---|
| **Workspace stores** (`Web/ApiBuilderWorkspace.cs`, `UnitXWorkspace.cs`, `WorkspacePersistence.cs`; the tabs that edit: `wwwroot/ui/api-builder.js`, `unitx.js`) | `workspace.json` per workspace, a `SemaphoreSlim` per path; in the tab, the workspace being edited | create, load, save with `expectedRevision`, clean-up at start | read-compare-write over several awaits; failing writes, cancelled requests, death of the server; revision numbers used again after clean-up | no stored edit is dropped by a save made from an older revision; a stored workspace is whole and loads; every save ends |
| **Runner engine** (`Core/RunnerEngine.cs`, `Runner/Program.cs`, `Http/HttpStepExecutor.cs`) | per engine the token, per case the variables, per chain the shared variables, results | run a chain, run independent cases, run a step, retry it until a deadline, send several requests at once | concurrent requests, login on demand, deadline against a late answer, partial failure of a step | a green case is earned; steps and cases do not mix; retries stop; the run ends |
| **Runs of the server** (`Web/Program.cs` `ExecutionManager`, `RunState`; `UiSupport.cs` run history) | dictionary of runs, process of each, history files | post, attach, start, output lines, complete, fail, cancel | stop against start, exit and completion; a history that cannot be written; death of the server | verdicts true, final, equal in history, and always given |
| **Run and draft panels** (`wwwroot/ui/testcases.js`, `generator.js`) | `runId`, polling chains, `generatorDraftRunId`, verdict shown | select a run, poll, run a draft | answers that arrive when another run is selected or being posted | what the panel says about a draft run is true, current, and comes |
| **Pickers** (`wwwroot/ui/testcases.js`, `generator.js`) | lists of test cases and of endpoints, what is picked of them and in which order | load, refresh every two seconds, switch the project, pick, clear, analyse a source | loads that overlap and are answered out of order, each restoring the selection it saw | the numbered order names what is picked and listed; the list converges to the project's |
| **Draft review** (`Web/Program.cs` preflight, repair, activate; `wwwroot/ui/generator.js`, `generator-repair.js`) | draft in the editor, flags that enable run and save; `suite.json` per review; the official file | preflight (partial and full), repair in rounds, save with confirmation of an overwrite | the user edits while requests are under way; one `suite.json` for all requests of a review; preflights that take too long; compare-then-write of the official file | only checked drafts become official; enabled means checked; overwrites are confirmed |
| **API Builder editor** (`ui/api-builder.js`; `Web/ApiBuilderWorkspace.cs` `Validate`, `ApiBuilderCompiler.cs`) | steps, saved variables, bindings, the contract they were made from | add, remove a step; save a response field; bind it to a request field | every removal renames the steps that links refer to by name | what the editor builds the server refuses for three known reasons only; a removal takes the links of that step only |
| **Workbook upload** (`Web/Program.cs`, `ui/workbook-message.js`) | dictionary of uploads, a directory each; in the tab the upload, its cases, the selection | analyse, select, generate | an upload is used once; the two kinds of request overlap; the project is switched meanwhile | the generator has its workbook; directories are not leaked; the selection is of what is listed |
| **Environment settings** (`Web/Program.cs`, `UiSupport.cs`, `ui/environment-history.js`) | `.env` per project; in the tab the form | read, type, save, diagnose | loads of two projects overlap; the form shows one while another is selected | what is typed is saved where it was typed |
| **Delivery of diagrams** (`Web/Program.cs`, `wwwroot/architecture.js`) | specification, rounds used | specify, deliver, repair by rule or by AI, fall back | a repair may drop what was asked for | what is delivered covers the first specification |
| **HTTP stub** (`AutoTest.HttpStub`) | rules, queue of captured requests | start, configure, reset, inspect with polling, stop, handle a request | requests arrive while they are counted | a request that was answered is counted, once |
| **Integration host** (`AutoTest.Integration.Http`) | rules and their positions, captures, artifacts; `current.json` with the owner's token | start, status, stop; handle a request, configure, read and clear captures, shut down | hosts compete for a port while a stop command looks; `current.json` that cannot be written or removed; concurrent requests take the responses of a sequence and trim the queue | each response of a sequence once, in order; a stop stops the host it looked at; the evidence is complete |
| **MQTT client** (`AutoTest.Mqtt`) | one connection, one `pendingMessage` | connect, publish, subscribe, roundtrip, last will | steps that subscribe at once share the field; late messages; lost connections; requests the broker carries out and does not answer | a step is answered by a message of its topic |
| **Redis steps** (`AutoTest.Redis`) | stream, consumer group, pending entries | read a matching entry, acknowledge it | a batch is read, one entry of it acknowledged; commands that fail before or after Redis carried them out | no entry is given to two consumers; an entry is not pending only if it was returned or its acknowledgement failed unheard |
| Not modelled: PostgreSQL and Elasticsearch steps, testcase validator, UnitX decision tables, API Builder project configuration, generator, workbook readers, message scanner, reports | see [Not modelled](#not-modelled) | | | |

### Archify

| Component | State it keeps | Operations | Hard behaviour | What makes it correct |
|---|---|---|---|---|
| **Update check** (`scripts/check-update.mjs`) | a cache directory: generations `pending-g`/`committed-g`, one active claim, trust in the directory | check, acknowledge | processes that share only a directory: claims, leases that run out, fences, death anywhere; a directory that others change | one record, changed as if commands ran one at a time; what was acknowledged stays silent; every command ends |
| **Release contract** (`scripts/update-contract.mjs`) | none | compare versions, validate a manifest | numeric and textual identifiers, channels, build metadata | what is offered is an upgrade |
| **Output paths** (`renderers/shared/output-path.mjs`, `cli.mjs`) | the file system | resolve, guard, write | links, names that differ in case, hard links; brand marks are fetched between guard and write | the input survives; an output the author names stays inside |
| **Brand marks** (`renderers/shared/brand-marks.mjs`) | cursor, captures per address | look up, capture, capture again, give up at the deadline | workers share captures and a deadline | drawn is what was pinned, in time |
| **Repository evidence** (`renderers/shared/repository-evidence.mjs`, `repository-location.mjs`) | none; the checkout | origin, commit, tree, lines | the checkout moves between two git commands | lines are those of the pinned commit |
| **Route gates** (`renderers/shared/geometry.mjs`, `scripts/check-render-output.mjs`) | none | crossings, hidden lines, shared tracks, labels, borders, endpoints | profiles and merged routes; a page whose gates are advisory | troubles are seen, in every profile that asks for them |
| **Routers** (`geometry.mjs`, `render-architecture.mjs`, `render-dataflow.mjs`, `render-lifecycle.mjs`) | none | spread ports, choose sides, route, bridge | several relations between the same boxes | ports are apart, siblings do not cross, the router satisfies its gates |
| **Architecture layout** (`render-architecture.mjs`, `grid.mjs`, `legend.mjs`, `engineering-profiles.mjs`) | none | grid, frames, titles, canvas, legend, ownership gates | nested and neighbouring boundaries | titles cover nothing; an accepted deployment can be read off its frames; the legend is complete and hides nothing |
| **Sequence layout** (`render-sequence.mjs`) | none | columns, messages, segments, labels | labels move until they fit | messages can be told apart, labels hide none |
| **Architecture delta** (`delta/architecture-delta.mjs`) | none; on the page the change shown, a playback with a timer | compare, draw, validate; step, play, stop | receipt, drawing and check are three computations; ticks, clicks, focus, page visibility interleave | the drawing shows what the receipt says; one timeout, one mark |
| Not modelled: workflow compiler, data and other parts | see [Not modelled](#not-modelled) | | | |

How they interact. The browser calls the web server over HTTP and polls for answers;
the web server starts the runner as a process, for a run and for every preflight, and
reads what it prints and its exit code; the two sides share files (`suite.json` of a
review, the official test case file, the report, the history). The engine calls step
executors through one interface; the HTTP executor calls back into the engine's login.
All shared state of the server is in dictionaries and files; the only lock is the
semaphore of the workspace stores and the one of the MQTT connection. For a diagram
the server starts Archify's command line, whose programs hand each other files; its
update check shares a cache directory with every other Archify process of the user.

`PROJECT.json` lists the hazards of this code at the line where each bites, with the
properties that would catch it.

## Modules

Control is kept whole: every guard, early return, error path and the order of awaits.
Data is reduced to what the properties tell apart.

Components that share no state are put together as a **sum of worlds**: `WebTools` and
`Archify` instantiate each of them, a behaviour picks one at the start (`world`) and lets
it run alone, and the variables of the others stay `None`. A property of a world reads
`world = "mqtt" => Mqtt!OwnMessage`. The constant `Worlds` of the configuration says which
of them a run looks at. A component keeps the names of its constants and variables, but
where two would clash: `MqttSteps` and `Readers` are the steps of `MqttClient` and
`RedisStream`, `runStatus` is the `status` of `RunLifecycle`, `asked` the `request` of
`OutputGuard`, `pair` the `input` of `ArchitectureDelta`, and so on; the `INSTANCE`
lines list them all. `InstancesAreLegal` of both modules is the conjunction of the
assumptions their components name; TLC evaluates it on the instances, and the theorems rest
on nothing else but where they say so.

`MCWeb` gives `WebTools` its small suites, contracts and plans. `MCArchify` does the same
for `Archify`, and adds the worlds that only TLC looks at (update, gates, ports),
which share the slots `s1`, `s2`, … for their variables,
with the drawings, plans and layouts they get. What a behaviour of
`AllSpec` does to the variables of `Archify` is a behaviour of `Archify!Spec`, so the
theorems about that are about the nine other worlds of the run.

### WorkspaceStore, VersionedDocument

`WorkspaceStore` is one workspace (one path): its file, the `SemaphoreSlim` of the path
(`gate`), and clients, each with a tab and at most one request under way (`pc`). A
workspace body is **the set of edits it was made by**: that makes "an edit is lost" a
formula. A save is the sequence the code awaits: `Acquire` (WaitAsync), `Check`/`Conflict`
(load and compare), `WriteTemp`, `Move`, `Release`; `Fail` is any of the I/O throwing or
the request token being cancelled, with the release of the `finally`. `Abort` is the
client giving up at any moment, `Crash` the death of the server at any moment, `Expire`
the clean-up at its start. Loads take no lock. `Edit` may happen while a request is under
way, and `Receive` replaces the tab's workspace by the answer, as `api-builder.js` does.

`VersionedDocument` is what the store promises: a document with a revision, and atomic
commits and refusals between call and answer. `WorkspaceStore!ImplementsDocument` is the
refinement (`doc <- file`, calls from `pc`).

Bounds: `MaxRevision` (saves explored), each edit is made once. `MCWorkspaceStore` adds a
variable `world`: revision numbers are used again only where the clean-up runs *and*
somebody saves without `expectedRevision`; the run has the worlds with one of the two.

### CaseRunner

One run of a suite: `mode` chain (one engine, stop at the first failure, variables handed
over) or independent (an engine per case, at most `MaxParallel` cases running). Each case
is at a step and a `stage` (the loop of `RunStepWithRetryAsync`, `begin`/`check`/`running`/`final`);
each request of a step has a phase of its own, `ready` → `login` → `sent` → `passed`/`failed`,
so that requests of one step interleave as their tasks do. A value is identified by where it
came from (`<<case, step, attempt>>`), which is what the properties about variables and
tokens speak of. `rows` is what the case reports, `answered` every result an executor made.

Abstracted: assertions (an answer is accepted or not, freely), texts, the kind of
executor (all go through the same interface; the login is HTTP's), `delayBefore` and
`probe`. Bounds: `MaxAttempts` before the deadline must have passed.

### RunLifecycle, RunPanel

`RunLifecycle` is the server's side of runs: `Post`, `Attach`, `StartProcess`, the process
(`PrintReport`, `ExitProcess`), the callbacks (`AddLine`), the completion (`Complete`,
`CompleteStopped`, `SaveFailed`, `CannotStart`), `Cancel` and `CancelTooEarly` (a stop that
is refused), and `Crash`, after which only the history is left.

`RunPanel` extends it by the browser: `runId`, a polling chain for every time a run was
selected (the code never ends the chain of the run before, it lets it follow the new
`runId`), `Fetch`/`Snapshot`/`Render` for the three moments of a poll, and the draft panel
with the steps of its POST (`RunDraft`, `DraftPosted`, `DraftAnswered`, `DraftRefused`).
Abstracted: the POST of an ordinary run is answered at once. Bounds: as many runs and
chains as the constants name; one draft-run request at a time.

### Pickers

The list of test cases and the list of endpoints of one tab. A load is three moments: sent
(it remembers the selection it will restore), answered, shown; `SwitchProject`, `LoadAgain`
and the background `Refresh` all make one, so loads of two projects overlap. `picked` and
`chosen` are a set and the order in which it was picked, kept by separate code. Abstracted:
names and details of test cases. Bounds: two projects that both have a test case of the
same id, two loads at once.

### DraftActivation

Tabs with a draft editor each, the three kinds of requests they send (`check`, `repair`,
`save`, each a little state machine of the handler), `suite.json` per review, one official
file. `Runnable` are the drafts that pass the preflight that allows incomplete coverage,
`Complete ⊆ Runnable` those that pass the full one: what the runner prints is decided by
the draft it **reads**, which need not be the one the request carried. `ReviewOf` says
which tabs share a review: all tabs of one API Builder workspace do (`api-builder-<id>`).
Three constants restrict the environment so that each property is checked where the code
can keep it: `Patient`, the tabs whose users leave the editor alone while a request is
under way (the code does not lock it); `Slow`, the tabs whose preflights may take longer
than their 30 seconds; `RequestsWait`, whether a tab has one request at a time.
Abstracted: repair directories are per round and per review; the model lets a repair see
the draft it wrote. Bounds: `MaxRepairs` is the code's `maximumRepairs`.

### ApiEditor

The editor's steps, variables and bindings, which refer to steps by name, and `AddStep`,
`RemoveStep` (which renames all that follow), saving and binding a field, and a change of
the contract. `Accepted` is the server's `Validate` with its checks of variables and
bindings, `Saves` and `BoundTo` what `Compile` makes of the result. The editor knows less
than the server: it does not know the names the server keeps for itself (`Forbidden`, to
which other digits than 0 to 9 belong), offers sensitive response fields, and has no idea
of credential headers, which the server recognises by their names (`credential`; the
contract marks no field as sensitive today). So the property is an equivalence: a save is
refused for these reasons or for a change of the contract, and for no other.
Abstracted: JSON paths of one step that differ only in case. Bounds: two operations whose
labels cross with their ids, one with a credential header, chains of three steps, a
variable name that is allowed and one that is not, two contracts that differ in the type
of a field.

### WorkbookUpload

One tab and the server. Analyse and generate are each a request of several moments (sent,
received, running, answered), and both may be under way; `SwitchProject` comes at any time.
`stored` is the dictionary of uploads, `directories` what is on disk, `strayed` the
directories a request for another project took out of the dictionary. Bounds: two uploads,
two generations, two projects.

### EnvironmentForm

The form, which project it was loaded for, what is typed, and the loads of two projects
that overlap. One value per project stands for the `.env` file.

### DiagramDelivery

A specification by the AI (nodes, and edges with an identity), `Deliver`, the rounds of
repair by rule and by AI with the comparison of `PreservesDiagramSemantics`, and the
fall-back to the standard profile. Whether Archify objects is free. Bounds: two nodes,
two parallel edges and one of their reverse, 3 rounds for the code's 12: rounds only
differ in their number.

### HttpStub, MqttClient, RedisStream

What steps share with what is outside. `HttpStub`: the steps of the case follow one
another, requests come at any time and are captured, looked up, delayed and served;
`Inspect` polls until its count or its deadline. `MqttClient`: a step's sequence of awaits
with the promise in the one field `pending`; `Received` is the callback, `Disconnect` the
loss of the connection, `PeerPublishes` other clients. A request to the broker may be
answered or not and, if not, may have been carried out (`taken`, `answered` in `Subscribe`,
`Publish` and `Unsubscribe`): `strays` are the topics that are subscribed although their
step has ended, as long as the connection lasts. A message carries the steps during which
it was sent and whether its topic was stray. `RedisStream`: `EnsureGroup`, `ReadHistory`,
`ReadNew`, then the entries of the batch one by one; each command may fail before Redis
carries it out or after (`EnsureFails`, `ReadFails`, `AcknowledgeFails`), and `silent` are
the entries whose acknowledgement was carried out unheard. Bounds: two steps, three
requests, a stream of three.

### IntegrationHost

Host processes of the command line, all on one port: `Start` writes `current.json` with a
fresh token before the port is tried, `Bind` or `BindFails` follows, and the `finally`
(`Exit`) deletes the file whoever it names, unless the delete fails, which `TryDelete`
keeps to itself. The write may fail (`StartFails`), and so may what comes between it and
the `try` (`BreakOff`). A process that ended by itself is `exited` if it removed the file and
has `left` if it did not. The stop command is three steps, as in the
code: the health of whoever listens (`CheckHealth`), the token in `current.json`
(`CheckOwner`), the request that the host compares with its own token (`Shutdown`,
`ShutdownRefused`). Tokens are the hosts themselves. A request is handled in the steps
other requests can come between: `Receive`, `Select` (the atomic increment of the rule's
invocation) or `SelectNothing`, `Respond` or `WriteThrows`, `Capture`, then `Trim` and
`Dequeue` (the count and the removal of the trimming loop), `Persist` (the artifacts' gate
makes it one step) and `WriteIndex` (which takes no gate). `Disconnect` is
`RequestAborted`; `Configure` replaces the rule's state, `ClearRequests` empties the queue.
Abstracted: one rule per host, whether it matches is free; `persistArtifacts` is on; the
session file; delays take no modelled time.
Bounds: `MaxConfigures`; each process starts once. `MCIntegrationHost` has three worlds:
several hosts without requests; one host that serves until Ctrl+C; one host that is
stopped by the command while it serves.

### UpdateState, UpdateLedger, UpdateCheck, CacheGuard

`UpdateState` is the record and what a check and an acknowledgement make of it.
`UpdateLedger` is the promise: commands read and change one record as if alone.
`UpdateCheck` is the protocol: a command reserves a generation (`pending-g`), takes the one
active claim (retiring that of an owner that ended or outlived its lease, `Expire`), fences
the lower generations still pending, reads the state of the last committed generation,
fetches, and commits by renaming `pending-g` to `committed-g`. `Fail` is any call on the
way failing or the process dying. `ImplementsLedger` is the refinement (`ledger <- Current`).
Bounds: three commands, two digests, capacity 2 for the code's limit of remembered
releases, 3 generations, 2 attempts.

`CacheGuard` is one guarded operation on the directory as its sequence of file system calls,
and an environment that swaps a directory or an entry between two of them, once.

### OutputGuard, BrandCapture, ReleaseOrder, EvidenceCheck

`OutputGuard`: a file system of paths, links and inodes (a record: what is stored where,
whether case matters, whether a probe can be made); the guard at loading, a change by
others, the guard again, the write. Links are followed by a recursive function. A file
system is an orderly one (`WellStored`): entries lie in directories, no two under spellings
it takes for the same, and a file whose inode is not reported (`Anonymous`) has one name.
Bounds: `MaxDepth` 4 for the code's 64 links. `BrandCapture`: workers that take nodes from a cursor,
one capture per address that others wait for, a clock up to the deadline. `ReleaseOrder`:
identifiers as digit sequences, so that the comparison as text and as numbers can differ.
`EvidenceCheck`: each question to git is a step; `HEAD` moves between any two.

### RouteGeometry, RouteGates, PortRoutes

`RouteGeometry` has the measurements on an integer lattice (squared lengths, no
tolerances). `RouteGates` is what a renderer demands of its routes; the reference
definitions its properties compare them with are stated from the picture alone. `Check` is
the check of the written page where the profile is not showcase: the renderer has marked
the gates of such a page as advisory, so none of what that check measures of routes is an
error. A showcase page is checked by the lines as they are drawn, with rounded corners, and
by the size of its texts; that is not modelled. `PortRoutes` is the automatic router: sides,
port spread, side-aware routes, rhythm bridges.

### ArchitectureFrames, SequenceLayout

`ArchitectureFrames` is the layout as operators on the diagram (`Boxes`, `Titles`,
`FramesOf`, `AutoViewBox`, `LegendBoxes`), in the order the code computes them: a title is
placed after those of smaller boundaries, an entry of the legend after those before it.
Its two steps are the check of the engineering profile and the rendering with its gates.
`SequenceLayout` has columns, messages, segments and the moves of their labels. A text is
the width it needs, and pixels are whole numbers.

### ArchitectureDelta, DeltaReview

`ArchitectureDelta` keeps apart the three computations that must agree: the receipt of
changes, the drawing, and the tags the drawing is checked for. Tags are a set, and what is
compared of them is a bag of name, state and classes; lists whose order means nothing are
sorted before they are compared, as in the code. `DeltaReview` is the page:
its functions act on a record of the state of the page, and clicks, focus, visibility,
printing and the timer come in any order. Bounds: 3 rows, 5 events; the theorem has neither.

## Runs

"violation" runs show a disagreement between the code and what the repository says of it
(see [Findings](#findings)); each has one property.

| Run | Instance | Shows |
|---|---|---|
| `workspace_store` | 2 tabs, 2 edits, one of them invalid, revisions to 3; the worlds "clean-up" and "blind saver" | `LockInv`, `StoredIsLoadable`, `NoLostUpdate`, `ImplementsDocument`, `SaveEnds` |
| `run_panel` | 2 runs with the whole server side, 2 polling chains, symmetric | the server's `TypeOK`, `VerdictIsTrue`, `VerdictStays`, `HistoryAgrees`, and `DraftVerdictIsTrue` of the panel |
| `draft_activation` | 2 tabs with a review each, 4 drafts, 2 repairs; `t1` patient, `t2` impatient and slow | `TypeOK`, `OfficialPassedPreflight`, `EnabledMeansChecked` |
| `integration_host` | 3 hosts of 2 integrations, a stop command, 2 requests, a sequence of 2 responses, 1 exchange in memory | `StopFindsItsHost` (no wrong stop, no success without a stop, no token that comes back), `BooksAgree` (sequence, memory, evidence), `StopEnds` |
| `update_check` | 3 commands, checks and acknowledgements of 2 releases, 3 generations, 2 attempts, symmetric | `CommitsOnCurrent`, `AnswersKept`, `ImplementsLedger` |
| `web_tools` | `MCWeb`, worlds runner, server, panel, editor, workbook, diagram, mqtt, stub, redis | `PassIsEarned`, `CasesKeepApart`, `PicksAreListed`, `EditsAreAccepted`, `RemovalKeepsLinks`, `WorkbookIsThere`, `DeliveredCovers`, `StepsGetTheirOwn`, `AllSettles` |
| `archify` | `MCArchify`, worlds cache, output, update, brand, release, evidence, gates, ports, frames, lifelines, delta, review | one property per world and `AllSettles` |
| `draft_overwrite` | two saves to one official file | violation of `OverwriteIsConfirmed` |
| `environment_form` | two projects, two loads, a user who types and saves only when nothing is under way | violation of `SavedWhereTyped` |
| `case_unique` | `MCWeb`, world runner | violation of `UniqueIsFresh` |
| `diagram_covers` | `MCWeb`, world diagram | violation of `DeliveredCoversAll` |
| `gate_standard` | `MCArchify`, world gates, lines along an axis between two nodes, a third behind or beside | violation of `HiddenAlwaysFails` |

Why the bounds are enough. A lost update, a stale check and an overwritten comparison
need two actors and two versions; the instances have both, with one more version to
return to. Retries need an attempt before the deadline, one across it, and one after:
`MaxAttempts = 2` and the final attempt. Parallel cases need more cases than slots: three
cases in two slots. A panel that tells the wrong verdict needs two runs and two chains; a
list that shows the wrong project two loads. The drafts are one that fails, one that may
only be run and two that may be saved, so that an overwrite can be seen. A stop that hits
the wrong host needs two hosts of the same integration, one after the other, and one of
another; a response given twice needs two requests; a queue trimmed wrongly needs one
exchange more than it holds. A commit that is lost needs a command whose lease runs out,
one that supersedes it and one that commits between: three commands and three generations.
The removal of a step needs one before it and one after it: chains of three. Steps that
steal each other's promise or entry are two. The pictures are the smallest in which the
reference can fail: two routes and a box between them, two or three relations between two
boxes, boundaries that nest and that are neighbours, segments that share messages. A page
of three changes has a first, a last, and one that is neither.

Fairness. `WorkspaceStore`: weak fairness of each handler's steps (threads of the pool run
what can run), strong fairness of `Acquire` because `SemaphoreSlim` serves its waiters in
the order they came, weak fairness of receiving an answer. `CaseRunner`: weak fairness of
the next step (requests are bounded by the `HttpClient` time-out, the clock of a retry goes
on). `RunLifecycle`: weak fairness of `Serve(r)` for each run: the process it waits for
ends, callbacks are delivered; stopping and crashing are never forced. `Pickers`: the
timer of the refresh fires, and requests are answered, not all of them with a failure
(strong fairness of `Answer`). `MqttClient`: weak fairness of each step, whose waits have a
time-out, and of the callback. `IntegrationHost`: weak fairness of the end of a host that
was told to stop, and of the handling of each request (a delay is bounded, a disconnected
client cuts it short). `UpdateCheck`: weak fairness of each command's steps, strong
fairness of the lease of an owner running out. `BrandCapture`: the clock, the workers and
the time-out of a capture. `DeltaReview`: the timeout fires. `DraftActivation`, `RunPanel`
and the others are checked for safety only.

## Proofs

Checked by `tlapm`, for all values of the constants that the named assumptions allow.

`WorkspaceStoreProofs`
: `TypeCorrect`, `LockCorrect`: `TypeOK` and `LockInv` are inductive together.
  `StoredCorrect`: what is stored can be loaded (`StoredIsLoadable`), which needs that what
  a temporary file holds was validated before it was written.
  `NoUpdateLost`: with `NoRevisionReuse` (no clean-up, or nobody saves blindly: without it
  the property fails, see [below](#further-observations)) no save drops a stored edit.
  `LockInv` alone is not
  enough: that the expected revision equals the stored one says nothing about the bodies.
  The invariant is `IInv`: besides types and lock, `HeldInv` (whoever holds a document of
  the stored revision, in a tab, an answer or a request, has all the edits of the stored
  body), `CreationInv` and `FileInv` (what a workspace that was just created can look like).
  `Refinement`: every step of the store is a step of `VersionedDocument` or a stutter.

`RunLifecycleProofs`
: `RunTypeCorrect`, `VerdictCorrect`, `HistoryCorrect`, `VerdictNotTakenBack`, from
  `IInv == TypeOK /\ RunInv`: `RunInv` ties the stage of a run's task to its process
  (`StageInv`), the status to the exit code (`CodeInv`), and the saved record to the status
  (`SavedInv`). `VerdictIsTrue` by itself does not survive a step, because `Complete` reads
  what earlier callbacks left.

`DraftActivationProofs`
: `DraftTypeCorrect`; `OfficialCorrect`: with `ReviewsApart` (requests of a tab wait for
  each other and no two tabs share a review; without it the property fails, see below) only
  drafts that passed the full preflight are official. `SaveInv`: what is in `suite.json`
  while a save is between its write and its preflight is that save's draft, and a save that
  passed carries a complete one.
  `EnabledCorrect`: with the same `ReviewsApart`, `EnabledMeansChecked` for the tabs whose
  users wait and whose preflights end in time. It needs `EnabledInv`: what each stage of a
  check knows of the draft in the editor, that a save under way carries that draft, and that
  a repair is offered or runs only while the flags are down (so that a repair that gave up,
  which replaces the draft and leaves the flags, cannot find them up).

`IntegrationHostProofs`
: `HostTypeCorrect`: `TypeOK` with `LifeInv` (the port is that of the one host that serves,
  and a request under way is handled by a host that still runs).
  `StopCorrect`: `StopFindsItsHost`. `StopInv` says what a stop command knows of the host it
  saw from one of its checks to the next, `OwnerInv` whom `current.json` may name, and
  `ToldInv` that a host whose stop was acknowledged is told or further.
  `BooksCorrect`: `BooksAgree`. The sequence needs more than its property:
  `GivenIsCounted` and `CountedIsGiven` (what the rule has counted is exactly what requests
  were given), `GivenOnce` and `GivenInOrder`. `MemoryInv` bounds the queue by its limit and
  the requests `Behind`, that is, between adding their exchange and shortening the queue,
  for which `Requests` must be finite (`HostsAssumption`). `EvidenceInv` needs no order of
  the writes of the index: the last one comes when no request is under way any more.

`UpdateCheckProofs`
: `UpdateTypeCorrect`, `NoCommitLost` (`CommitsOnCurrent`), `AnswersAreKept`
  (`AnswersKept`), `OneFetches` (`OneFetcher`), `UpdateRefinesLedger`. What keeps commits
  apart is not the claim, which a command may lose while it works, but the fencing: of two
  commands that got as far as reading, the one with the lower generation was `Cleared`
  before the other's operation was pending, so the other lists it before it reads, or finds
  it on the list of those it has still to fence (`FenceInv`). Hence what a command has read
  is current as long as it is pending (`ViewInv`), and the rename that commits is the step
  of `UpdateLedger`. The claim is needed for `OneFetcher` only (`ClaimInv`). That a state
  that was committed can be read back is part of `AnswersKept` and of its induction.

`RunLifecycleProofs`, the panel
: `PanelTypeCorrect`, `DraftVerdictCorrect` (`DraftVerdictIsTrue`) and
  `PanelImplementsServer`, that the panel with its chains adds nothing to what the server
  does. An answer on its way is old by the time it is shown; `AnswersInv` says that what it
  tells (`Told`) stays true: the only verdict that is taken back is a passed one whose save
  failed, and the exit code that a told "passed" stands for stays 0.

`WebToolsProofs`, the runner
: `RunnerTypeCorrect`, `PassCorrect` (`PassIsEarned` with `SavedByAccepted` and
  `RetryStopsInTime`), `ApartCorrect` (`CasesKeepApart`), for any suites, chained or side by
  side. Most of `RunnerInv` is about one case at a time: where it stands (`PlaceInv`), what its
  requests are (`TaskInv`), that an accepted request has an answer that says so after which
  no attempt was made (`PassedInv`, `RetryInv`), and whose value a saved variable has
  (`SaveInv`). Across cases, `ChainInv` makes a chain one case after the other, so that the
  engine they share serves one case at a time, and `LoginInv` says that whoever is about to
  log in found no token, so that only requests of its own step can have brought one since.

`WebToolsProofs`, the tools
: Each tool is proved about by itself, as the instance of its module that `WebTools` has
  (`DiagramCovers`, `WorkbookStays`, `EditorCorrect`, …). A behaviour of `WebTools` is in
  one world for good, and there it satisfies the specification of that tool
  (`WorldStays`, `RunnerRuns`, `DiagramRuns`, `MqttRuns`, …), which carries the results
  to the properties the runs check.
  `DeliveredCorrect` (`DeliveredCovers`): every accepted round keeps the nodes and the
  joined pairs of the first specification.
  `WorkbookCorrect` (`WorkbookIsThere`): the directories in use are disjoint: an upload is
  in the dictionary or was taken by one generate request (`DirectoriesInv`), and what the
  tab lists is what its upload has (`TabInv`, `RequestsInv`).
  `MessagesCorrect`, `EntriesCorrect`, `RequestsCorrect`, together `ClientsCorrect`
  (`StepsGetTheirOwn`): without overlap the broker has at most the topic of the step that
  runs and the stray ones (`TopicsInv`, `MailInv`); an entry of a stream is handed to one
  consumer and is pending until it was returned and acknowledged, or acknowledged unheard
  (`GivenInv`, `PendingInv`); a request is in
  the stub's queue once or was reset (`QueueInv`).
  `EditsCorrect` (`EditsAreAccepted`) and `RemovalCorrect` (`RemovalKeepsLinks`): the second
  part of a step's name is its place (`StepsFit`), so names are unique and a renaming is a
  shift of the places; a binding leads from an earlier step. What is left of `Accepted` then
  are the three conditions the editor does not look at (`BindingFits`, `EditsFit`).
  `PicksCorrect` (`PicksAreListed`): the lists are built by folds and `SelectSeq`, so what
  these return (the elements that pass, once each, in their order) is proved first, by a
  least counterexample over the lengths; then each of the ways the two pickers change the
  order keeps it the order of what is picked.

`ArchifyProofs`
: Laid out as `WebToolsProofs`, for the worlds of `Archify`.
  `MarksCorrect` (`DrawnIsPinned` and `InTime`): the limit of a capture that runs has not
  passed (`TimeInv`), and every mark is that of the capture its node asked for (`MarksInv`).
  `EvidenceCorrect` (`EvidenceIsPinned`): the verified sources are a prefix of those asked
  for, each with an answer of git for the pinned commit; the lines of a file counted by
  their ends, as the code does, are as many as counted by their beginnings
  (`LinesAreCounted`).
  `OffersCorrect` (`OffersAreUpgrades`): versions are compared identifier by identifier, and
  the reference counts places (`Precedes`). That numerals, whose length is not bounded,
  compare by length and then as text exactly as their values do is an induction over the
  digits; it is made over the numbers, with a least counterexample (`WFMin` of the
  library), since the induction theorems cannot be instantiated.
  `OutputCorrect` (`OutputIsApart`): the guard asks about paths that need not exist yet, the
  property about files after the write. Between the two stands that a store that grew by the
  page's path and its directories follows the same links (`GrownReaches`), that a path which
  leads to the new file was an alias of the output before (`LeadsToNew`), that the file
  which is overwritten is not that of the diagram (`OverwrittenIsOther`), and that the
  working directory stays where it was (`DirectoryStays`). `OutputInv` is that the store is
  orderly and that, unless something changed since, the guard would say yes again.
  `ReviewCorrect` (`ReviewIsSingle`): the properties are those of the functions of the page
  rather than of its events, so the lemmas are about the functions: each keeps a `Sound`
  state sound, and those that stop the playback leave it `Stopped`.
  `GuardCorrect` (`DoneMeansInspected`): the five operations differ in their calls but have
  one `Shape`: root first, every path noted once and before the mutation, one mutation, a
  look at everything it acted on before the last call. While nothing was replaced, what was
  noted is there (`NotedInv`); a replacement before the mutation leaves none to come, so the
  look after it tells (`Told`). This needs `MaxSwaps <= 1`, as the property says.
  `DistrustCorrect` (`NoMutationAfterDistrust`) has no such bound, and no run: it is only
  proved.

`DiagramProofs`
: More of `Archify`: what is drawn.
  `LifelinesCorrect` (`LifelinesTell`): a message has its place in the order by the number
  of those before it, and numbers from 1 to n that differ are all of 1 to n (`RanksAreAll`),
  so every two messages are compared by the neighbours between them (`FarApart`). A label
  that another's arrow or label covers is in the same rows, which the clearance gate sees
  (`HiddenIsOnLabel`). A message is in the way of at most two of the five heights a
  segment's label tries, so where at most two messages reach its columns (`AtMostTwo`) one
  height is free (`FourMovesGetPastTwo`).
  `FramesCorrect` (`FramesTell`): titles and entries of the legend are functions by
  recursion over an order (by area, by number); that there is such a function is proved
  once for any rank (`RankedRecursion`), over the natural numbers. A title that is moved
  only rises, to just above the highest obstacle it covers, so it never meets that one
  again (`RaiseIs`): each obstacle stops it once at most, and the bound the code puts on
  the moves, which exceeds the number of obstacles, is enough (`RaisedIs`,
  `TitlesAreApart`). So the gates on covering titles never speak (`NoTitleProblem`). A
  frame holds its members (`FrameIs`); two frames that hold one box overlap
  (`HoldersOverlap`), and overlapping frames of an accepted deployment are nested as their
  members are (`PairsAgree`), so a component in a foreign region would have two
  (`OwnershipHolds`). Entries of the legend are in their rows in order with a gap
  (`PlacesAre`, `Behind`), so their boxes are apart; the automatic canvas has the width of
  the longest entry and the height of the rows (`CanvasIs`).
  `DeltaCorrect` (`DeltaTells`): two lists sort to the same exactly if they have the same
  bag (`NormalIsBag`): by pairing off equal elements one way, by the number of elements not
  after a place the other. The change of an item is read backwards by swapping the diagrams
  (`ChangeTurns`), and is none exactly if all that is compared of the item is equal
  (`NoClassMeans`). Kind and id determine a change, so the tags found by them are its own
  (`TargetsAre`); for each of the ways an item changes, these differ in name, state or
  classes and so do the tags its row expects, so two bags are equal when their sets are
  (`ApartSameBag`, `RowIs`).

### Assumptions

Besides the named assumptions of the modules (finite sets of digests and requests, numbers
that are natural, finite lists of test cases, versions that parse, model values that are no
other value, stored files none of which has the inode of the file to come, contracts whose
fields have ids of their own, a command that prepares its cache first, pictures at whole
pixels whose boxes are not empty, types of components that the legend has), which TLC evaluates
on the instances, and `WellStored`, which `OutputGuard` demands of the first file system and
of what other programs make of it,
the theorems with a hypothesis of their own are `NoUpdateLost` (`NoRevisionReuse`),
`OfficialCorrect` and `EnabledCorrect` (`ReviewsApart`), and `GuardCorrect` (one
replacement). Where a hypothesis is dropped the code misbehaves for the first two, and
[Further observations](#further-observations) tells how.

### Only model-checked

- Liveness (`SaveEnds`, `StopEnds`, `AllSettles`): fairness and ENABLED are out of the
  prover's reach.
- `GatesSeeTrouble`, `PortsKeepApart`: these are computations rather than
  behaviours, compared with a reference on small pictures; most of what they compute is a
  fold over a sequence.

## Findings

Each has a run whose counterexample shows it, and the quoted sentence in `PROJECT.json`.

1. `case_unique`: in a chain `${unique}` of every later case is that of the first.
2. `draft_overwrite`: two saves that compared before either wrote: an overwrite nobody
   confirmed.
3. `environment_form`: values typed for one project are saved to the `.env` of another: the
   variables of `q` are asked for, `p` is selected and its form shown, then the late answer
   puts the form of `q` in its place, for good; the user fills it in and saves, and what is
   sent goes to `p`, which is selected.
4. `diagram_covers`: a repair that drops one of two relations between the same nodes is
   delivered as covering everything.
5. `gate_standard`: with the standard profile a straight line from one node to another,
   through the inside of a third between them, is rendered, and the page passes its check,
   although the authoring contract calls it a failure in any profile. The gate returns at
   once in that profile, and the check of the page does not look at nodes.

### Further observations

Behaviours of the code that the models have, without a run of their own. Where a
definition is named, adding it to a configuration shows it.

Web server and browser:

- after the clean-up has deleted a workspace and a save without `expectedRevision` has made
  it anew, a stale tab saves over other work without a conflict (`NoLostUpdate` fails
  under `MCWorkspaceStore!ReuseSpec`); the clean-up also deletes workspaces
  that tabs have open (`Expire`);
- a stop before the process has started is refused although the run is shown as running
  (`RunLifecycle!StopIsHonoured`);
- the verdict of a draft run never appears once another run is opened
  (`RunPanel!DraftResultShown`), and while a new draft run is posted the panel still shows
  the verdict of the one before (`RunDraft`);
- requests of one review overwrite each other's `suite.json`: with `ReviewOf` mapping both
  tabs to one review a draft that was not checked becomes official
  (`OfficialPassedPreflight` fails);
- the buttons are enabled for a draft edited after it was sent to be checked, and stay
  enabled when a repair that gave up replaces the draft (`DraftActivation!CheckAnswered`,
  `Repaired`): that is why `EnabledMeansChecked` speaks of patient tabs that are not slow;
- steps whose requests were answered may have no row in the report, when one of the
  requests sent together throws or an attempt ends after its deadline
  (`CaseRunner!StepFailed`, `StepPassed`);
- the tab goes on offering an upload that was used (`WorkbookUpload!OfferedIsStored`;
  `docs/tdq/brief/2026-10-11-0308-workbook-selection-draft.md:42`); a generate request for
  another project removes it from the dictionary and leaves its directory
  (`Program.cs:237`); the answer of an older generation takes a newer upload from the tab;
  the list of several drafts is overwritten by the rendering of the `finally`;
- `loadGeneratorStatus` in `generator.js` uses the message ids TQC-UI-116 to 118, which the
  catalogue has for other texts;
- clicks during a refresh are lost, a late answer of another project restores a selection
  of that project, and a test case that becomes destructive does not count as changed
  (`Pickers`);
- the value `${var}` of a field stays in it after the step that saved the variable is
  removed; the editor lets a user give a variable a name the server keeps for itself
  (`authToken`, `unique`, …) or digits of another script, bind a sensitive response field,
  or bind a header such as `Authorization`, and the server then refuses every save; so it
  does all saves with bindings after a change of the contract (`ApiEditor`: the three
  conditions of `EditsAreAccepted`);
- the form says an empty value keeps the stored one (`index.html:81`), but typing and
  deleting stores the empty string (`EnvironmentForm`).

Steps:

- overlapping MQTT steps fulfil each other's `pendingMessage`, and a late message of an
  earlier topic satisfies a later step (`MqttClient`: `OwnMessage` speaks of steps in a row
  and of what was sent during the step); a SUBSCRIBE or UNSUBSCRIBE that gets no answer leaves
  its topic subscribed while the connection lasts, and its messages satisfy later steps
  (`strays`); a step whose UNSUBSCRIBE fails fails with the message it had received;
  `ReportIntermediate` of a last will makes
  `requestResults.Single()` throw when requests are concurrent;
- the stub's stop clears neither captures nor rules, and an inspection does not count a
  request of its last 100 ms (`HttpStub`);
- entries of a Redis batch that did not match stay pending and no step reads them again;
  two steps that create the group at once race; a read that fails after Redis carried it
  out leaves its entries pending as well, and an acknowledgement whose answer is lost fails
  the step and takes the entry from all others (`silent`); with `blockMs` 0 and a fresh group new
  entries are never looked at; the start id `$` is an error of XREADGROUP (`RedisStream`);
- a `current.json` that could not be removed, or that a host left that was killed or broke
  off, names an owner that no longer exists until the next start; the stop command refuses
  then (`IntegrationHost!Exit`, `BreakOff`, `Kill`);
- a second `start` of an integration that runs overwrites `current.json`, cannot bind and
  deletes the file: the stop command then refuses to stop the host that runs
  (`IntegrationHost!Start`, `BindFails`, `Exit`).

Archify:

- a comparison of diagrams that differ in brand or `meta.locale` calls itself complete and
  lists nothing (`ArchitectureDelta!Compared`, `architecture-delta.mjs:290`, `:733`),
  and `elementById` finds the phantom of an element before the element (about `:604`);
- pressing Pause with the focus elsewhere stops the playback at `focusin`, and the click
  starts it again from the first row (`DeltaReview!Press`, `Click`);
- the output may change between the guard and the write (`OutputGuard`, `cli.mjs:56`);
- renderers that do not merge collinear points miss a crossing at a waypoint a route goes
  straight through; merging is only for schema 2 of the workflow
  (`workflow-compiler.mjs:2389`, `RouteGates`);
- rhythm bridges may cross a sibling relation between the same boxes, ungated; a gap
  between 32 and 64 px other than 48 gets no bridge although `authoring-contract.md:109`
  says so; the direct line is not tried against obstacles (`routeVia`, `geometry.mjs:829`);
  sides of at most 32 px are not spread; a dataflow arrow with |dy| < 4 is diagonal and
  refused by the endpoint gate only (`PortRoutes`);
- a component inside the frame of a private group it is not wrapped by is accepted
  (`ArchitectureFrames`);
- the label of a segment is not checked after its fourth move (`render-sequence.mjs:122`),
  and a long label on the first columns may leave the canvas (`SequenceLayout`).

## Plan

The most important behaviour first. Done: the stores, the engine, runs and panels, draft
review, the integration host; the remaining state of the web server
(pickers, editor, upload, environment form, diagram delivery); the clients steps share;
Archify's update check, guards, captures, evidence, gates, routers, layouts and delta.

Left, in this order:

1. Theorems: geometric lemmas for the gates (a crossing of merged routes is one of the
   authored ones).
2. The last will of MQTT, with the clients of its own.
3. The decision table and the validator against what `CaseRunner` refuses, as operators.
4. The exports and the share card of the delta page, activation bars and legend of
   sequence diagrams, text and label checks of architecture diagrams, route budgets.
5. The workflow router, if a part of it can be stated apart from its scoring.

## Not modelled

Formatting, colours and texts of the user interface, and translations (`i18n.mjs`); the
readers of workbooks and the project adapters (pure parsing); the message scanner (regular
expressions over files); HTML reports and load testing (writing of files); PostgreSQL and
Elasticsearch steps (one request, no state; the engine around them is in `CaseRunner`);
the testcase validator (a pass over one file: its two levels are the sets `Runnable` and
`Complete` of `DraftActivation`); the decision tables of UnitX (reflection on the assembly
under test); the project configuration of the API Builder and the JSON a step compiles to;
the generator (calls of an AI command line, whose answers are choices in `DraftActivation`
and `DiagramDelivery`).

Of Archify: `workflow-compiler.mjs` with its 4400 lines is a search over thousands of
candidate routes scored by weights. A model that keeps the scoring would be the program
again, and one that drops it would say nothing the gates in `RouteGates` do not.
`generated-brand-marks.mjs`, `generated-validators.mjs` and the scenarios are data;
migrations, generators and command line parsing are passes without state.
