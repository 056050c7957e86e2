# Verification of SpectraPack

SpectraPack packs rigid copies of a solid (an STL file) into a box or into
another solid. A C++20 engine does the work, a Rust core drives it as a child
process, and a React interface shows the result. This directory holds TLA+ models
of the parts whose correctness depends on order, interleaving, failure, caching
or boundary cases, the TLC runs that check them on small instances, and TLAPS
proofs that carry the most important results to every instance.

## 1. The system

| Component | Where | State it keeps | Operations | Talks to |
|---|---|---|---|---|
| Native session | `cli/src/desktop_session.cpp` | prepared asset and rollback slot, retained solution, last answer, identity history, active operation and its stop source | prepare, run, release, shutdown, replay, refuse | client over stdin/stdout, one worker thread, marker watcher, watchdog |
| Wire writer | same file, `Session` | response queue, one pending phase, one pending packing, in-flight flag, gate, failure and closing flags | send, phase, packing, flush, write, finish | worker, main thread, watchdog through `wire_mutex` and `wire_ready` |
| Transform team | `pack_compute/src/fft_execution.cpp` | job, generation, counts, shutdown, abort | create, run, join | the correlation, `OperationControl` |
| Raster team | `pack_geometry/src/raster_execution.cpp` | cursors, grants, work spent, generation | batches, rounds, commit, join | the fields, the validation budget |
| Incumbent, public gate | `pack_solver/src/incumbent.cpp`, `cli/src/count_publication.hpp` | best snapshot and its keys; public snapshot, revision, failure | offer, resume | solver, session sink |
| Search | `pack_solver`: `baseline`, `gap_fill`, `compaction`, `spectral`, `spectral_pipeline` | the phase's working layout, proposals, pages and cursors, a workspace of fields and correlations, the retained layout | grid, stagger, layout searches, trials | validation, fields, correlation, incumbent |
| Validation and fields | `pack_geometry`: `validation`, `validation_kernel`, `conservative_fields` | none; fields with their owners | validate a layout; voxelize, block, clone, remove, add | search, export |
| Solve command | `cli/src/solve.cpp` | stop file watcher, settings, outcome, diagnostics | one solve | search, export, standard streams |
| Result export | `pack_io/src/result_export.cpp`, `pack_geometry/src/export_validation.cpp` | stages, pins, files of the directory; a ledger of live bytes and a cache of copies | stage, certify, publish, commit | solve, session |
| Session client | `desktop/src-tauri/src/native_session.rs` | child, pipes, epoch, residency | request, drop | native session, core |
| Desktop core | `desktop/src-tauri/src/core.rs`, `archive.rs` | current operation, object, live packing, result, tokens and epochs, previews | import, repair, start, stop, new, save, open, export | client, interface, project files |
| Interface | `desktop/src/state.ts`, `App.tsx`, `Viewer.tsx` | accepted state, reads and commands in flight, mesh shown | poll, command, load preview | core |
| Service | `service/src/service.cpp` | replay cache, asset registry | run_stdio, register, lookup | its client |
| Contracts, import, repair | `pack_io`, `pack_geometry` | meshes, documents | pure functions | each other |

What makes it hard: threads that share a condition variable and a mutex that is
sometimes only tried; a thread joined with a lock released in between; a pipe that
may stall or break at every write; stops and deadlines that race the last step of
an operation; long sequences of prepare, rollback and release; files that several
processes publish; caches whose validity is a comparison of revisions; budgets
that are divided, granted and handed back; and chains of decisions, each by a rule
of its own, that have to agree.

What makes each part correct:

- *Session*: an identity completes once; every answer to it is the same; a granted
  token is held until released; a run's asset is not freed under it; a retained
  solution never outlives its assets; a session that ends has answered.
- *Writer*: nothing of an operation follows its answer; a successful run's last
  packing was delivered; every run is answered; cleanup ends.
- *Teams*: every line transformed exactly once on success; work is never overspent
  and never stranded; no thread touches a job outside its call; calls return.
- *Publication chain*: what is shown only improves within a run; the exported file
  is the packing shown, and holds the best count of the run.
- *Search*: batching and masks lose nothing; a page delivered is the page of the
  layout in use; a trial that ends has tried everything; the best layout is kept
  through every phase, denial and stop; the search ends.
- *Validation and fields*: a verdict is true; what a field offers is accepted; a
  field is that of the layout it is said to be of.
- *Export*: a committed result is complete and names certified bytes; the
  certificate's cache never causes a refusal.
- *Solve*: the answer says what is in the result file; a stop file that cannot be
  read is reported; the command ends.
- *Core*: no token is leaked or used after its epoch; what is saved is what is
  displayed; the desktop never stays busy.
- *Interface*: it never goes back, and comes to show the state of the core.

`PROJECT.json` lists every component, modelled or not, and under `hazards` the
places where this code is hard to test, each with the properties aimed at it.

## 2. The modules

| Module | Models | Uses |
|---|---|---|
| `DesktopSession` | the session: main thread, worker, marker watcher, watchdog | |
| `WireWriter` | the writer thread and everything that shares its mutex | |
| `DesktopSessionProofs` | invariants and theorems of these two | `DesktopSession`, `WireWriter` |
| `Showcase` | what the desktop promises about the packing it shows (abstract) | |
| `Publication` | the chain from the incumbent to the display, implementing `Showcase` | `Showcase` |
| `DesktopCore` | the coordinator with its client, the session as it sees it, the project file | |
| `DesktopCoreProofs` | its invariant and theorems | `DesktopCore` |
| `InterfaceState` | the window, its reads, commands and preview loads | |
| `QuantizedExport` | the certification of a staged STL under a memory allowance | |
| `SolveCommand` | the command `solve` beside its watcher, with that certification | `QuantizedExport` |
| `ResultExport` | exporters and an outsider in one directory | |
| `FrontEndProofs` | invariants and theorems of the three above and of the ledger | `SolveCommand`, `ResultExport`, `InterfaceState` |
| `SearchSpace` | solids, layouts, the lattice, the incumbent and the outcome of a phase | |
| `BaselineSearch` | grid and stagger | `SearchSpace` |
| `LayoutSearch` | the five layout searches, compaction, gap filling | `BaselineSearch` |
| `SpectralWorkspace` | how a page of candidates is built, cached and recovered | `LayoutSearch` |
| `SpectralSearch` | the trials and the whole run | `SpectralWorkspace` |
| `SolverProofs` | invariants and theorems of the whole search and of the publication; the refinement of `Showcase` | `SpectralSearch`, `Publication` |
| `PlacementKernel` | the verdict on a layout: pairs, containment, reuse (operators only) | |
| `ConservativeFields` | the fields and the update of a workspace to a layout | `PlacementKernel` |
| `KernelProofs` | the geometry of solids, surfaces and witnesses; theorems of what a verdict says | `PlacementKernel` |
| `FieldsProofs` | the geometry of fields; theorems of updates, reports and offers | `ConservativeFields`, `KernelProofs` |
| `ForkJoin` | what a team promises (abstract) | |
| `FftTeam` | the transform team, implementing `ForkJoin` | `ForkJoin` |
| `FftTeamProofs` | its invariant, theorems and the refinement | `FftTeam` |
| `RasterTeam` | the raster team and its budget, implementing `ForkJoin` | `ForkJoin` |
| `RasterTeamProofs` | its invariant, theorems and the refinement | `RasterTeam` |
| `MC...` | instances for TLC | |

Next to a definition that a mutant replaces a module keeps its *faulty variant*:
the same operation with a plausible bug (a dropped wait, a missing reset). TLC
finds the property violated with the variant in its place, which shows that the
property depends on that line of the code. `map` in `PROJECT.json` gives the
source lines of every definition.

### DesktopSession

State and code correspond name for name (`asset`, `previous_asset`,
`retained_solution`, `active`, `active_stop`, `last_*`, `identities`,
`wire_failed`). Optional values are sets of at most one element.

- `mainPc` is the place of the main thread: `read` (blocked in `std::cin.get`),
  `lock`, `dispatch` (holding `state_mutex`), `joinIdle` and `joinStop` (joining
  the worker with the lock released), `cleanup`, `joinWorker`, `done`. One action
  per branch of the dispatch, in its order: `ShutdownActive`, `Busy`,
  `UnlockToJoin`, `Replay`, `RefuseExpired`, `ShutdownIdle`, `Release`, `Start`.
- `workerPc` is the place of the worker: `start`, `staged` (a prepare moved its
  asset in and has not committed), `solve`, `finish`, `thrown`, `exited`
  (joinable), `none`.
- A request is its identity, method and token; its canonical record is that
  record, so equality of canonical records is equality of requests. An identity's
  hash is the set of history bits it probes (`Probes`, any function to nonempty
  sets), which keeps the false positives of the real history.
- A prepared asset is its token and the solid it shares; two assets may share a
  solid. A fresh token is random in the code and never repeats here (`MaxToken`).
- Loading, previews, admission and solving are their outcomes. An operation may
  fail before it changes anything, and after.
- `Send` may drop (failed wire), append, or fail the wire: the queue itself is in
  `WireWriter`.

### WireWriter

- Names: `writerPc` and `servePc` are the places of the writer and the main thread, `wireDown`
  is `Session::wire_failed`, `written` is the history of what reached the pipe.
- `writerPc`: `check` (about to evaluate the predicate), `blocking` (predicate
  false, mutex still held, not yet in the wait set), `asleep`, `pacing` (inside
  `wait_until`), `encode`, `encoded`, `write`, `writing` (inside `WriteFile`),
  `done`. The mutex is held across steps only in `blocking`; splitting the wait
  there is what exposes notifications that do not hold the mutex.
- `waiting` is the wait set of `wire_ready`. `NotifyOne` removes any member,
  spurious wake-ups remove one at any time, a wait that times out leaves the set.
- `due` is the truth of `now >= next_delivery`; it becomes false when a paced
  record has been written and true by the passing of time.
- The worker begins operations, publishes packings and phases, flushes and
  answers; the main thread refuses requests and later runs cleanup.
- External assumption: the client sends the next request after the answer to the
  one before (`NativeSession::request_with_packing` returns at the response).

### Publication and Showcase

One module composes five parts that each filter packings by a rule of its own: the
incumbent (count, spans, pose keys), the public gate (count, spans), the writer's
slot (latest wins), the client (revision, count) and the core (revision, count,
operation). Whether these rules agree is the question.

- A solution is its count, the rank of its spans and the rank of its keys. A score
  may be missing (`scored`), and so may the keys of a resumed best (`keyed`).
- `incumbent`, `retained_solution`, `sought` (history) belong to the search; `gate`, `revision`,
  `gateFailed` to `CountPublication`; `slot`, `undeliverable` to the session;
  `pipe`, `mark` to the client; `stage`, `op`, `token`, `live`, `result`, `failure`
  to the core. `enginePc` and `stage` are the places of the two processes.
- `OfferSolution` is the whole callback: admission, gate and slot. `OfferExhausted`
  is the early return between admission and callback. `SpectralPhase` is the second
  incumbent, which offers the retained solution again. `ReturnSearch` is the
  terminal offer, `Settle` reads the result file of the run whatever the answer was.
- `WriteSlot` abstracts `WireWriter`: an answer follows every packing, which
  `TerminalLast` and `LatestDelivered` check there, also when the flush timed out.
- `LoseTransport` stands for every deadline, malformed record and broken pipe;
  until `ReapChild` the engine runs on and may still export.
- Left out: the checks of session, epoch, settings and token in `accept_live`, which
  cannot fail while one request is outstanding; an empty result file, which a
  session never writes.
- `Showcase` is the promise: show an improvement of the same run, or anything of a
  later run, without files; finish the files of what is shown; replace both. That
  files and display belong together follows from it.

ADR 0017 (`spec/decisions/0017-count-quality-publication.md:42`: "Empty, lower,
equal and invalid offers never replace it.") and `doc/spectrapack-spec.md:303` describe a
count-only gate; `count_publication.hpp:41-57` also takes an equal count with
smaller spans, as `doc/spectrapack-spec.md:209` says. `Publication` follows the code, and
`Showcase` states the order it guarantees.

### DesktopCore

- `task` is the thread of the operation and its place, `new` the place of New, which
  runs on the caller's thread. Both take the mutex for single steps, which are the
  actions; New drops it while it releases the object (`transitioning`).
- Operations are numbered and what one creates bears its number: the object, its
  prepared token, its previews, a proposal, the packing of a run, the epoch of a
  session it started. The numbers do what random tokens and paths do in the code.
- `native` is the client with its epoch and whether it is still in step, `engine`
  the session process with its current and prior asset. A request may be answered,
  refused, or its answer lost after it took effect; the process may die at any time.
- One family of actions per command: inspection and acceptance by the helper,
  prepare (`PrepareGranted`, `PrepareRefused`, `PrepareLost`), checks and the release
  of the old token, `Install` or `Undo`, runs with their packings and `Settle`, saving
  with `archive.rs` replacing the file, opening, export.
- What the window does not offer is not assumed: any command may come at any time.

After a lost answer to a release the client is out of step and New keeps failing until
another request drops the client; ADR 0013
(`spec/decisions/0013-cpu-runtime.md`, "Replacement failure preserves the prior complete
state and its ownership") is not met by such a loss, the session then holding what the
core gave up. `TokensAccounted` is therefore stated for a client in step.

### InterfaceState

The window polls every 250 ms with one read at a time, reads again after each command,
and issues one command at a time; answers of reads, of New and of preview loads arrive
in any order. `AcceptState` is `acceptState` of `state.ts`; `Show` is what React does
with an accepted state: the viewer drops the meshes of other objects and begins to load.
The core is reduced to revision, operation, object and packing. `New` answers with a
state that is shown unconditionally, which is where going back would come from. A reload
of the page, the revisions of `phase()`, and the commands that differ from import and
solve only in what they install are left out.

### QuantizedExport and SolveCommand

`QuantizedExport` is `validate_quantized_export`: every copy is reread, imported, placed,
compared with the container and with the copies before it, under one ledger (`live`)
and allowances of tests and work. Checked copies stay in a cache, evicted least recently
used by any reservation that does not fit; the copy the last `find` returned is pinned.
What each copy and pair really is, is the scene. The cache is capped at a quarter of what
the sources leave, and a copy larger than that is dropped whole. The leases of a part of the
cache are the sum over a set of its places.

`SolveCommand` is the command around it: arguments, watcher, settings, assets, search,
the question to the monitor, the retained layout, build, certification, commit and answer.
The watcher's thread, a console signal and the deadline are actions of their own; every
step may fail with its code and exit. The search is reduced to what it leaves behind
(`found`, `why`). The export polls a control without the stop and with a deadline of its
own (`CleanupInterruption`). `spec/decisions/0010-desktop-workflow.md:179-189` and
`0013-cpu-runtime.md:408` say what a stop must keep. Observations: an empty initial layout
is validated only for commands with a stop file; a stop during it ends as `SOLVE_FAILED`;
`preserve_previous_on_empty` cannot be reached from this command.

### ResultExport

Several exporters, each at a step of its own, stage the assets, `result.json`, the STL and
its companion beside their targets and move them there; an exporter may fail (it unstages)
or die (its stages stay as `litter`) between any two steps; an outsider touches any file
nobody has pinned. A pin keeps the staged, published or reused STL from being replaced
until the commit. Bytes are the solution they were made from, so a hash is equality.

### The search: SearchSpace to SpectralSearch

Five modules, each extending the one before, are one sequential program with a phase and a
place in it; what interleaves is the control (`Halt`: a stop or the deadline), and what may
fail at each point is a resource denial, the scoring of an offer or the observer.

- The container is a line of `Length` units, a solid a set of unit cells with holes, a pose
  an orientation and a translation, a layout a set of poses; a voxel is `Pitch` units, so
  that the lattice is coarser than the validator. `scene` is the problem: solids,
  undecidable poses (`dim`), timed or fixed work, box or solid container, caps, plans,
  threads, an initial layout, which is one the validator accepted (`solve.cpp` validates the
  empty one, a retained solution was validated by the run it comes from).
- `BaselineSearch`: the grid submits batches and retries single copies of a rejected one;
  the stagger ranks whole proposals. `IsGreedy` says of a layout that a cell is in it exactly
  if it can be added to what of the layout lies before it.
- `LayoutSearch`: blocks are planned (`Blocks`, a row of one shape and the rest of the space
  planned again, a recursive function); of a pair of orientations that interlock the tighter
  plan or, for two different ones, a loose plan pulled into the box is proposed
  (`Interlocked`, `Contracted`). The lattices that the slab and stagger planners find in a
  mesh are data (`scene.plans`, `scene.turned`). Compaction contracts the layout by bisection
  (`Contract`), slides copies, drops new ones and fills gaps from masks of free translations
  that it updates insertion by insertion; `Greedier` builds from nothing.
- `SpectralWorkspace`: voxels of a layout, fields of two orientations, binary and proximity
  correlation, each kept with what it was really computed from; `Deny` and `Recover` are the
  recovery policy: more work, eviction, fewer threads, and giving up. `Admissions` stands for
  the estimate of buffers and transforms: which smaller number of threads fits is a choice.
- `SpectralSearch`: two trials with a private incumbent, pages and cursors over all
  orientations, faces, low overlap, renewal of caps; `RunRefused` and `TrialThrows` are the
  ends before the first phase and by an exception.

`Correlation` is the cyclic sum over the padded extent that the transforms compute, `Overlap`
the direct count; `FreeIsClear` and `TrialMaximal` compare what was found by the first with
the second. Both are exact, so the `direct` recheck always agrees. Layouts are sets: the
orientation of a layout's first copy, which `Turned` prefers, may be that of any of its
copies. Host pressure and memory samples are denials.

What was met on the way. A run in a box that defers work in the grid and ends inside the
layout loop (`spectral.cpp:727-730`) reports `search_stalled`, although Decision 0019
(`spec/decisions/0019-hardware-resource-recovery.md:157-159`) says a run with deferred work
is not to be relabelled as natural exhaustion; only its counter of deferred operations
tells. A halt between the stagger's last poll and the loop's head ends a run as
`search_stalled` with no layout tried. A stop between entering the trials and the first
offer drops `outcome.run.best` but keeps the retained solution, which is what is exported
(`BestKept` says so). A denial inside the gap filler ends it silently. A stop seen at a cap
ends as a budget.

### PlacementKernel and ConservativeFields

The space is a plane of unit squares: a solid is a set of squares, its faces are the maximal
segments of its boundary, coordinates are integers. A pose (`scene.pose`, one for each
orientation) has the two flags of the code and one number more. `cardinal`: cuboids, bounds,
walls and surface distances are compared by exact coordinates. `exact`: every corner is
represented exactly (`represented_world_exact`); otherwise the checks that look at represented
corners see the solid displaced by `slip`, up to a unit, and go by intervals a unit wide
(`Outward`). A turned pose is neither; what the code decides by exact arithmetic on turned
corners (walls of a box) is decided by the true coordinates. A witness whose interval lies apart
from every face, in the frame of the other solid, is decided by parity, and otherwise left open
(`local_interval_point_in_material`, for shells and for voxels).

- `PlacementKernel` has operators only, in the order of the code: bounds, support directions
  and layers accept pairs before their solids are placed; cuboids, boundary relation (found
  through boxes of blocks of faces), shell witnesses and surface distance decide the others;
  containment in a box or in a solid with cavities; `validate_report` with what it takes over
  from the base layout (`Proven`). `Packed` is the reference: no squares in common and
  every clearance kept, square by square. Solids are manifold (`IsManifold`): no two squares
  of one meet at a corner alone, for `analyze_solid` refuses a mesh with two sheets at an edge
  or a vertex, and one whose shells touch.
- `ConservativeFields`: `rasterize_boundary`, the flood of what is left and one witness for
  each component, the halo and stencil of a clearance, the raw window of a placed copy, the
  container's mask from a box or from a solid; the blocked field with counted cells, clone,
  removal and addition; and the update of a workspace (`Compare` to `Publish`), which may end
  in `Fail` at any point. The search is reduced to `Propose` (any layout) and `Offer` (a copy
  where the field is free); both are validated.

The container is always placed exactly. A copy whose pose is not exact is never accepted in a
container that is not a cuboid unless it is itself a cuboid in a cardinal pose, for whether it
holds a cavity of the container stays undecided (rotations in such containers are "Later" in
`doc/spectrapack-spec.md:54`). The budgets of kernel and fields are outcomes (`Discard`,
`Fail`); the team that rasters is `RasterTeam`.

### FftTeam, RasterTeam and ForkJoin

- `FftTeam`: `pc[0]` is the owner, `pc[w]` the thread w. Sections under the mutex are single
  steps. The assignment of the job is one step with no lock: `QuietOutsideCall` is what makes
  that sound. The test of `generation` and the wait are one step, because every change of
  `generation` or `shutdown` holds the mutex; `notify_all` is a step of its own after it.
  `transformed` counts how often a call transformed each line; a failed library call
  transforms any subset of its group.
- `RasterTeam`: an item is a cell in the box of a face; a cursor is the set of items it has
  not passed. Costs are scaled: what matters is that a test costs more than a lookup, and
  that two faces share cells. `Division` shares what is left into grants, `Starved` decides
  whether a round that spent nothing met a real cap.
- `ForkJoin` is the promise of both: begin, do some items not yet done, succeed only when all
  are, close.

## 3. The runs

| Run | Instance | Checks | Distinct states |
|---|---|---|---|
| `desktop_session` | 2 identities, one a false positive of the other, 2 tokens, 2 solids | 6 invariants, `SessionEnds` | 47,616 |
| `wire_writer` | queue 1, 2 runs, 2 revisions, 1 phase, 1 refusal | `TerminalLast`, `LatestDelivered`, `Answered` | 1,039,059 |
| `wire_writer_cleanup` | queue 2, 1 run, 1 revision | `CleanupEnds`: **violated** | |
| `publication` | counts to 2, 2 spans, 2 keys, 2 runs | `BestNotLost`, `NoMismatch`, refinement `IsShowcase` | 2,946,245 |
| `desktop_core` | 5 commands, 2 packings a run | `TokensAccounted`, `SavedIsShown`, `NeverBusyForever` | 119,508 |
| `interface_state` | 4 commands, 2 packings | `NeverGoesBack`, `Settles` | 516,452 |
| `solve` | 3 copies, 5 geometries, 10 allowances, 6 requests | `AnswerNamesResult`, `MonitorFailureTold`, `CacheNeverRejects`, `CommandEnds` | 958,912 |
| `result_export` | 2 exporters, 2 solutions, 1 asset, 2 attempts each, 1 touch | `ResultComplete`, `CommitNamesCertified` | 592,116 |
| `search` | 21 problems in 8 units, voxels of 2, pages of 1, 2 faults, blocks 3 deep, 2 pulls | `GridIsGreedy`, `FreeIsClear`, `PagesAreFresh`, `TrialMaximal`, `BestKept`, `SearchReturns` | 651,376 |
| `fields` | 12 problems, 2 copies, voxels of 1 to 4 units, clearances of 0 to 3, three kinds of poses | `VerdictsAreTrue`, `OffersAreAccepted`, `OccupancyIsFresh` | 15,184 |
| `fft_team` | 3 threads, 8 lines in rows of 4, groups of 2, 2 calls | `SuccessComplete`, refinement `IsForkJoin`, `CallReturns` | 172,406 |
| `raster_team` | 3 threads, 4 faces in batches, work of 11 or 22, 5 or 6 visits, 2 rasters | `NeverOverspends`, `CapsAreExact`, refinement `RasterIsForkJoin`, `RasterReturns` | 353,392 |

Why the bounds are enough.

- *Session*: two tokens fill the current and the rollback slot, two solids tell sharing
  from not sharing, and the second identity's bits contain the first's, so that expiry by
  false positive happens. Safety is proved for all values; a third identity makes the
  liveness too slow.
- *Writer*: a late packing needs a second run, supersession a second revision,
  competition for a notification a refusal; the queue limit is 1 instead of 4 so that
  overflow happens.
- *Publication*: two counts and two spans improve both ways, equal spans are told apart
  by keys; the second run starts with the display and files of the first.
- *Core*: five commands are an import, its replacement, a run, and two more that meet what
  these left behind. *Interface*: an answer is overtaken by two later states.
- *Solve*: memory lies just below and above what the certification needs with and without
  its cache (9, 15, 16, 20), tests and work just below, and work less than the fresh validation
  took; three copies so that one is reread
  while two are cached.
- *Export*: the second attempt meets the files of the first, the second exporter those of
  the other.
- *Search*: pages of one candidate force paging, the caps of the small scenes are hit, and
  there are scenes for every layout search, an undecidable pose, nested solids, an initial
  layout, a solid container and two threads. Two denials or failures may come in a row. The
  first pull is half of the distance instead of a tenth, so that on a line of eight units it
  moves copies; two pulls bisect once.
- *Fields*: the solids are bars in two turns, an L, a block with material that no boundary
  touches, a ring, and one of two parts; containers with and without a pillar; copies on and
  off the lattice; clearances that are and are not multiples of the voxel. Five scenes have
  rounded or turned poses, in boxes and in a solid: a rounded bar that is accepted next to a
  pillar, and an L and a block with a part of its own that are large enough for a witness to be
  decided by its interval, outside and inside. The tries cover contact, crossing, enclosing a
  pillar and lying around it. Four layers cut the thickest solids between their faces.
- *Transform team*: shares of 2, 3 and 3 lines, one of which crosses a row; two calls so
  that a worker can be late for the second; start failure at every thread. *Raster team*:
  two pairs of faces share cells; a raster needs 22 of work and 6 visits, and is given that or
  too little of either.

`MaxOps` bounds the runs and commands, so that `publication`, `desktop_core` and
`result_export` come to rest, as a finished search does: deadlock is not checked there. It
is checked everywhere else, where ended processes stutter by an explicit step.

### Fairness

*Session*: weak fairness of the main thread when it has something to do, of the worker's
completion, of an operation that was asked to stop, of the watchdog and of the cancelled
read. Nothing obliges the client to send or close, nor an operation nobody stops to end.
*Writer*: weak fairness of the writer, of time, of the watchdog, of cleanup, and of a write
once the wire failed (the watchdog cancels it every 20 ms); strong fairness of the worker's
acquisitions of `wire_mutex`, which the writer releases in every wait; none for a client
that reads, for a run that ends, or for spurious wake-ups. *Teams*: weak fairness of every
thread; a library call returns, a cursor's step is bounded. *Core*: the thread of an
operation and New go on, since every wait in them has a deadline. *Interface*: operations
end, requests are answered, the poll's timer fires. *Search*: the one thread goes on;
nobody has to stop it. *Solve*: the command, its watcher and the clock go on; the search of
a request without a deadline need not end.

### What the violation shows

`finish_writer` (`desktop_session.cpp:383-389`) stores `wire_closing` and notifies without
taking `wire_mutex`. If the writer has just found its predicate false and has not yet
blocked, the notification reaches nobody; nothing else ever notifies, because the queue and
both slots are empty and no write is outstanding. `writer.join()` then waits until a
spurious wake-up. The Rust client kills the child after five seconds, which ADR 0013 counts
as a failure, not as cleanup. The ordinary stores of `wire_failed` have the same form, but
the watchdog or another notification follows them while the session serves (`Answered`
holds).

## 4. The proofs

TLC checks the instances above; TLAPS proves, for every value of the constants:

- **DesktopSessionProofs**, the session: `Spec => []IInv`, and from it type correctness and the
  six safety properties of the run. Assumptions: `Probes` maps identities to nonempty sets of
  bits, `MaxToken` is a natural number. `IInv` is the conjunction of eight named parts,
  `TypeOK` and these. `Control`: a running worker implies `active`, a worker that threw has
  failed the wire, a finished main thread has no worker, and the job is at most one prepare
  or run request. `History`: an identity completes at most once, its probed bits are then in
  `identities`, and the identity of a running job has not completed: a request whose bits are
  in the history is never started again. `Agreement`: the answers and `last` agree identity
  by identity (hence `OneAnswer`), and on a working wire the completion kept in `last` was
  sent and a finished job is answered. `Ownership`: the retained solid is always owned by an
  asset, and while a new one is staged it is the previous asset's, so that a rollback cannot
  strand it. `Freshness`: each slot holds at most one asset, tokens differ and lie below
  `nextToken`, and a token in a reply is that of the current asset. `Account`: on a working
  wire, the tokens granted and not released are those held, except one that is staged or
  whose grant is not yet sent; it gives `GrantsHonoured`. `Unissued`: the client never saw
  the token of a staged asset. Each part has a lemma with one step per action.
- **FftTeamProofs**: arithmetic first: the shares `lines * w / count` are ordered, disjoint
  and cover every line (`SharesDisjoint`, `SharesCover`), and a group lies within the rest of
  its share (`GroupWithin`). Then `IInv`: `Roles` (each thread in a state of its kind, exactly
  the created ones exist), `Generations` (`finished` is the cardinality of the set of threads
  parked after the current generation, hence equals the team only when all are parked),
  `Shares` (lines before a worker's position are transformed once, those after it not),
  `Stalled` (what a failed worker may still do) and `Outcome` (who ended early did so for a
  cause that outlives the call: an abort is explained by a failure, a stop or a passed
  deadline, all still visible at the final poll). It yields `SuccessComplete`, three more
  invariants (`Exclusive`, `QuietOutsideCall`, `FailedIsClosed`) and the theorem `Refinement`:
  `Spec => IsForkJoin`, with one step per action, for every number of threads, shape, group
  limit and number of calls. Assumption: at least two threads and nonempty axes.

- **DesktopSessionProofs**, the wire: `WireSpec => []WireInv`, with `TerminalLast` and
  `LatestDelivered`.
  Assumption: the bounds are natural numbers and the queue takes at least one response.
  `TakenInv` says what the writer has taken off the slots at each place, and that a record
  in the encoder is in flight. `CurrentInv` and `EndedInv`: what is paced and not yet written
  is of the running operation, an answer of one that ended. `SweptInv` is what `TerminalLast`
  needs: an answer leaves the queue only when both slots are empty, and nothing paced of its
  operation appears later, because the slots are filled only while the operation runs.
  `KeptInv`, `PromisedInv` and `FollowsInv` follow the last packing: pending, with the writer
  or on the wire while the run lasts; past the encoder once `flush_packing` said so; on the
  wire before the success is written. An encoding that failed or a wire that failed frees each.
- **SolverProofs**, the publication: `Spec => []PublicationInv`, with `BestNotLost`, `NoMismatch`
  and the refinement of `Showcase`. Assumption: the bounds are natural numbers. `SearchInv`: the
  retained solution is the best of the search whatever phase runs, which is why a restarted
  incumbent loses nothing. `ExportInv`: what is exported is what the gate holds, and no fewer
  copies than were validated. `ChainInv` orders the way of a packing: slot, pipe, mark and
  display hold packings the gate holds or held, each followed by the next, and the gate's own is
  always on its way or shown (`ArrivalInv`); without that last part a mismatch of file and
  display could not be excluded. The refinement maps every step to a step of `Showcase` or a
  stutter.
- **RasterTeamProofs**: `Spec => []RasterInv`, with `NeverOverspends`, `CapsAreExact` and the
  refinement of `ForkJoin`. First the arithmetic of grants: `DivisionIsDealt` shows by induction
  over the workers that the grants of a division add up to no more than the budget, and
  `TotalIsSum` relates the model's sum to its steps. Then `Roles` and `Turns` as in the transform
  team; `Funds` (the grants of a round fit in what is left, each cursor's spending in its
  grant); `Places` and `Progress` (a cursor passes its items in order, each item is passed once,
  a cell is tagged exactly by the items passed); and `Ledger`: what is left and what the items
  passed so far must have cost make up what there was. `Ledger` at the end of a share gives the
  serial cost, and with `Waiting` (a cursor that stopped early says what its next primitive
  needs) a starved round contradicts a raster that fits. Assumption: faces are finitely
  many numbers in batches numbered without a gap, a face touches cells of its own
  finite box, costs and limits are natural numbers, and there are at least two threads.
- **DesktopCoreProofs**: `Spec => []CoreInv`, with `TokensAccounted`, `SavedIsShown` and a
  statement that only the proof makes, `DisplayAgrees`: a result and a packing shown together are
  of the object shown and of one run. Assumption: the two bounds are natural numbers.
  `OneAtATime`, `Numbered` and `Threads` say which thread may run, that what it creates is newer
  than what is displayed, and what it carries at each place; `Slots` gives, place by place, the
  current and the prior token of a session that answers: after a refused or undone replacement
  the prior token is the displayed object's again. `Belongs` and `SameRun` are the agreement of
  what is displayed.
- **FrontEndProofs**, four parts. *The command*: `Spec => []SolveInv`, with `AnswerNamesResult`
  and `MonitorFailureTold`. `Written` says what is in the result file at each phase;
  `Monitored`, that the watcher has been joined and its error is final before the search's
  layout is used. *The ledger*: `Spec => []CommandInv`, with `CacheNeverRejects`. `Ledger`: what
  is live is the sources, what the step at work holds (`Holding`, place by place), and as many
  copies' leases as the cache has copies, each there once and certified before the current one.
  `SumOfEquals` gives the sum of a part of the cache, so that a reservation that would fit without
  the cache fits after `Evictable` copies went: the pinned copy is one that the uncached
  certification would hold as well. *The export*: `ExportSpec => []ExportInv`, with
  `ResultComplete` and `CommitNamesCertified`. `Certified`: from certification to commit an
  exporter's STL is pinned and unchanged; this is what forbids a competitor's or an outsider's
  replacement. `Readable`: in a directory nobody tampered with, an exporter's place tells which
  files are there, and a committed result has all of its own. *The window*:
  `WindowSpec => []WindowInv`, with `NeverGoesBack`. `Behind`: no state that travels is ahead of
  the core. `NewIsLast`: between New and the arrival of its answer the core stands still, which
  is why that answer may be shown unconditionally. Assumptions: what the modules state of their
  constants, that `None` and `Foreign` are no solutions, and that the bounds are natural numbers.
- **SolverProofs**, the search: five theorems about a whole run (`SearchSpec`), each with an
  invariant of its own over every step of the search.
  - `BestKept` (`RunKeepsBest`) from `BestInv`: every layout that is kept, seeded, compacted,
    filled or tried is certified; the best snapshot's layout is the one kept; a phase that needs
    an incumbent is not entered without one, and a trial's incumbent is what was retained until
    it takes an offer.
  - `PagesAreFresh` (`PagesAlwaysFresh`) from `PageInv`: a correlation bears the layout and the
    orientation it was computed from (`Labelled`), and each stage of a page under construction
    finds what it relies on (`StagesReady`), whatever was denied, evicted or recovered before.
  - `GridIsGreedy` (`GridAlwaysGreedy`) from `GridInv`: the cells that are decided are those
    looked at less the batch under way, a batch is a stretch of consecutive cells, and the
    layout is greedy on the decided ones. A batch that is accepted decides its cells one by one
    (a part of a valid layout is valid); a rejected one is decided by the retries.
  - `FreeIsClear` (`MasksStayTrue`) from `FillInv`: a translation is in a mask only if the
    kernel's stamp misses what is occupied, and is missing only if it meets it or the validator
    could not decide the pose. The cyclic correlation over the padded extent finds exactly the
    overlap, since the padded positions of a kernel at two translations are told apart
    (`QuotientIsUnique`, `CorrelationFindsFree`).
  - `TrialMaximal` (`TrialsAreMaximal`) from `TrialInv`: in a round, unless work was put off, every
    translation worth a trial is in its orientation's page, or it ranks after the cursor and
    after the whole page and the orientation has another page (`Ahead`). A page is the next
    stretch of the candidates in the order of the ranks (`PageIsNext`): that sorting puts every
    candidate in its place is shown by counting (`PlacesAreTaken`). The low heads of the pages
    are a total order because the ranks of two candidates differ. Faces follow the lattice one
    orientation at a time.

  Assumptions: `SceneAssumption` (solids are nonempty finite sets of numbers, an initial layout
  is one at most) and that the bounds are natural numbers, batches, pages and parts at least one.
- **KernelProofs**: theorems about the verdicts of `PlacementKernel` for every scene.
  *Geometry*: along a ray the material changes just where a face is crossed (`OneMoreCrossing`,
  by a least counterexample among the squares left of the solid's far end), so that parity is
  material (`ParityIsMaterial`); a face of the mesh is a longest run of walls, and every wall is
  part of one (`WallHasFace`, `OneFace`). *Pairs*: `AcceptedPairsAreApart`: two solids that
  validation accepts by the gap of their bounds, by a strip between them or by the layer table
  keep their clearance (the nearest points of two squares, the Cauchy-Schwarz inequality for the
  strip, one slice for the layers). *Surfaces*: the blocks of a mesh leave out no face that meets
  or is near (`MayMeetIs`, `MayBeNearIs`); where no faces meet, a step from inside to outside of
  one solid stays on one side of the other (`NoWallAt`), and along a shell nothing changes, so
  one witness of each tells whether the solids share a square (`WitnessesTell`), also one known
  by its interval, whose middle no face parts from the real corner (`IntervalAnswers`); between the
  nearest squares of solids that share none there are faces no farther apart (`FacingWalls`,
  `FarSquares`). Hence `ValidPairsAreApart`, `ValidCopiesAreInside` (a witness in the material,
  none of a cavity in the copy) and `ValidLayoutsArePacked` (what is not taken over from the
  layout in use is checked, whatever the positions, `ChecksPass`). *Refusals*: a point of a face
  is a corner of a square inside and of one outside (`FaceHasBothSides`), so that faces that are
  near or meet and shells that lie inside give squares that are too near (`NearSurfaces`,
  `DisjointAreNear`); faces that cross give a square in common, for the two squares across a
  manifold's corner have a neighbour between them (`CrossingShares`). Hence
  `InvalidPairsAreNear`, `InvalidCopiesAreOutside` and, as a layout is called invalid only for
  one of its copies or pairs (`ReportIs`), `InvalidLayoutsAreUnpacked`. *Acceptance*: of copies
  that have no point in common with each other, nor with what is outside of a solid container,
  no witness lies on a surface and no contact is found: no check is left undecided
  (`PairDecided`, `InsideDecided`), and none refuses what is packed. The recursions of the kernel
  (meshes, blocks, connected corners, shells) are choices of a function that satisfies an
  equation: each is first shown to have a solution (`SomeSolution`, for any recursion that
  descends in size). Assumptions: names and blocks as in `KernelAssumption`; in
  `SceneAssumption`, solids are nonempty finite manifold sets of squares, pitches are positive,
  clearances natural.
- **FieldsProofs**: every property of the run `fields`, for every problem. *Cells*: the raster
  marks the cells some wall meets (`RasterIs`); all of any other cell is inside or all of it
  outside (`CellIsUniform`), as its neighbour is (`NextCellAgrees`), so that the witness decides
  for its component (`PartIsUniform`) and the raw field is the set of cells the solid touches
  (`RawIs`); the planned window and the halo leave out nothing that is reached (`PlanIs`,
  `HaloIsEnough`), so that the field of a copy is its reach (`FieldIs`). *The update*:
  `UpdateInv` says of which copies the staged field is at each step (`RemoveInv`, `AddInv`) and
  that what is in use is the field of its own layout (`LiveInv`): `Spec => []OccupancyIsFresh`.
  *Offers*: squares nearer than the clearance lie in cells that the stencil joins, so that a copy
  put where the fields leave room is inside, keeps its clearance to the walls and to every copy
  in use (`OfferIsPacked`), in whatever pose. With `PackedInv` (the layout in
  use and the one asked for are packed) and `ValidLayoutsArePacked` this is `LayoutsStayPacked`;
  with `InvalidLayoutsAreUnpacked`, `Spec => []VerdictsAreTrue`. The stencil always has the cell
  itself, so that an offered copy has no point in common with another one or with what is
  outside (`OfferedIsLoose`); with `AcceptedInv` (every check accepts the layout in use, so that
  a pair whose positions have changed is accepted again) this is `Spec => []OffersAreAccepted`.
  Assumptions: those of `KernelProofs`.

Induction over numbers and over data goes through the first-order facts
`NatLessThanWellFounded` and `WFMin` (a nonempty set of numbers has a least element): a
theorem that takes an operator as a parameter cannot be instantiated here, so that each
induction is the refutation of a least counterexample, and a fold is expanded to the recursive
function it is defined by (`DivisionIsDealt`, `TotalIsSum`, `SumOfEquals`, `PlacesAreTaken`).

Only model-checked:

- everything under fairness (`SessionEnds`, `Answered`, `CleanupEnds`, `CommandEnds`,
  `NeverBusyForever`, `Settles`, `SearchReturns`, `CallReturns`, `RasterReturns`): liveness and
  ENABLED are out of the prover's reach.

Every other property that a run checks (invariants, action properties, refinements) is stated
by a theorem.

## 5. What is abstracted, and what is not modelled

- Contents: documents, file names, diagnostics, sizes in bytes. An admission that depends on
  bytes is a free choice between its outcomes, except in `QuantizedExport` and `RasterTeam`,
  where the budget is the question.
- Time: gates, watchdogs, deadlines and polls are events that may happen when the code allows
  them. The deadlines that the Rust client extends per phase are one loss of the transport.
- Numbers: floating-point and interval arithmetic, exact predicates, convolutions and scores.
  They appear as verdicts, ranks, exact integers, and intervals of integers. A rounded solid is
  displaced as a whole. In this plane faces are parallel to the axes, so that two of them are
  separated by a projection (`triangles_separated_by_projection`) exactly if their bounds are.
- `import.cpp` and repair, hashing, JSON schemas, STL writing, the contents of archives: pure
  functions over data. In `QuantizedExport` the importer may refuse a copy, and the fresh
  validation, the container's placement or the check of an enclosed source may refuse theirs
  (`Declines`, one code for each place); the bytes of such a refusal are not told apart.
- `ResultExport` stages and moves the files of a result in separate steps, but a move that finds
  a file there, the comparison with it and the removal of the stage are one step
  (`result_export.cpp:995-1010`): an outsider who acts in between does what he can also do
  before or after. `BaselineSearch` ranks all staggers of a scene, of which the code keeps at
  most 1024, in 24 orientations (`baseline.cpp:1442-1689`).
- Answers and inputs nobody gives. The core ends an operation if a granted prepare lacks its
  token (`core.rs:820-824`): the engine always sends it. A search without a context, with a pitch
  that is not positive or an unknown orientation mode, which its callers have refused before,
  returns without its initial layout (`spectral.cpp:562-576`); `RunRefused` keeps it, as the
  refusals after these do.

### Not modelled

- The line protocol service (`service.cpp`): one sequential loop over lines. The only method
  it implements, `capabilities.get`, changes nothing, so that an answer from the replay cache
  cannot be told from one computed again, and what is left of the cache (an identity reused
  for another request, a full cache) are single guards. `AssetRegistry` has no caller outside
  its tests.
- `contracts.cpp`, `inspection.cpp`, `import.cpp`: parsing and one-shot inspection, functions
  from bytes to documents and meshes without a state of their own.
- The other commands of the command line (`main.cpp`, `desktop.cpp`), which call import,
  validation or export once.
- The one-thread paths of both teams, test hooks, handles of the operating system, the loss of
  standard output (exit 4), the failure of a Rust thread to start, and a poisoned mutex.

## 6. Plan

What is left to model is `inspection.cpp` and the reading back of assets in
`result_export.cpp`; every safety property that a run checks now has its theorem.
