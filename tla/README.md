# DigitorEngine verification

TLA+ models of the concurrent, stateful core of DigitorEngine (`../src`): what
they say about the code, the configurations TLC checks, and the theorems TLAPS
proves. DigitorEngine is a C++20 video engine: it plays and edits timelines,
applies effects on the GPU or the CPU, and exports, behind a C API and a Flutter
editor. Its own logic, as opposed to codecs, drivers and per-pixel arithmetic, is
in workers, queues, caches with generation numbers, sessions with a protocol,
edits with a history, and files that survive a crash. That is what is modelled.

Run from this directory:

    tlc -workers 2 -config Timeline.cfg MCTimelinePlayback.tla
    tlapm TimelineProofs.tla

## Inventory

### Modelled

| Component | State | Operations | Talks to | Module |
|---|---|---|---|---|
| Timeline playback worker, `src/editor/production_timeline_playback.cpp` | `epoch_`, `latest_sequence_`, `active_revision_` (atomics), `queue_`, `plan_cache_`, `cache_order_`, `paused_`, `stopping_` | `request`, `seek`, `invalidate_all`, `synchronize_revision`, `start`, `stop`, `pause`, `resume`, `run` | the publisher of timeline snapshots; completion and error callbacks | `TimelinePlayback` |
| Playback scheduler, `include/digitor/playback.hpp` | epoch, sequences, queue, source and graph identity, two LRU caches | `request`, `seek`, `cancel_before`, `invalidate_graph`, `set_context`, `start`, `stop`, `pause`, `resume`, the worker with prefetch | decode and process callbacks of the host | `PlaybackScheduler` |
| Playback engine, `src/runtime/production_playback_engine.cpp`, and its clock, `src/audio/playback_transport.cpp` | transport, `playing_`, `generation_`, cursor, `queue_`, `queued_bytes_`, loop | `play`, `pause`, `stop`, `seek`, `scrub`, `step_frames`, `set_loop_range`, `set_rate`, `tick`, the destructor, `worker_loop` | the decoder, the presenter, the host that polls | `PlaybackEngine`, `PlaybackTransport` |
| CPU parallel executor, `include/digitor/cpu_parallel_executor.hpp` | `job_`, `count_`, `task_count_`, `next_task_`, `remaining_`, `generation_`, `exception_` | `parallel_for`, `parallel_for_tiles`, `deterministic_reduce`, the workers, the destructor | every CPU kernel | `ParallelExecutor`, `CpuPartition` |
| Resumable segment export, `src/render/resumable_segment_export.cpp` | the manifest in memory, and the files: manifest, segments, output, each with its `.partial` | `load`, the constructor, `run`, `request_cancel`, `persist`, `render_segment`, `concatenate_segments` | the encoder process, the file system, the next process | `SegmentExport` |
| Export worker, `src/render/renderer.cpp` | the queue, one fence per frame, the frames kept for the encoder, three atomics | `try_push`, `start`, `request_drain`, `cancel`, `run` | a render thread, an encoder that answers late or never | `ExportWorker` |
| SDK worker, `src/ffi/sdk_worker_c_api.cpp`, `src/runtime/sdk_media_worker.cpp`, `src/runtime/async_operation.cpp` | handle table, `api_mutex`, `started_`, `disposed_`, `cancelled_`, `completed_`, the thread | `create`, `start`, `cancel`, `destroy`, `run`, `complete`, `dispose` | the host's threads and its callbacks, which call the API again | `SdkWorker` |
| Flutter production path, `src/ffi/flutter_production_c_api.cpp`, `src/ffi/flutter_production_host_adapter.cpp`, `src/runtime/production_media_graph_runtime.cpp` | registered host, sessions, the adapter's media, generation and runtime, `cancelled_`, `active_export_` | register, create, destroy, bind, preview, consume, export, cancel | several threads of the plugin; the two sessions below | `FlutterProduction` |
| Hardware encode session, `src/render/production_hardware_encode.cpp`, and native presentation, `src/ffi/native_preview_presentation.cpp` | a state word and what the encoder answered; the displayed and the pending frame | `start`, `submit`, `finish`, `cancel`; `submit`, `consumed` | the platform's encoder; the texture | `HardwareEncode`, `PreviewPresentation` |
| Flutter editor, `dart/digitor_engine_ffi/lib/src/*`, and the texture hosts of its plugins | the session, its texture, the outstanding frame; the channel; the registry of textures | `openMedia`, `renderPreview`, `exportMedia`, `close`; `createTexture`, `disposeTexture`, frames | the production path, over FFI; the plugin, over a method channel | `EditorWorkspace` |
| Audio pipeline and timeline audio session, `src/audio/production_audio_media_pipeline.cpp`, `src/sdk/timeline_audio_session.cpp` | decoder cursor, carried packet, published snapshot, the export's lock; session state, output and its feeding thread | attach, detach, play, pause, stop, seek, controls, timeline publication, an export's freeze, blocks and release | the decoder, the audio device, an exporter of the same file | `AudioPipeline`, `AudioSession` |
| Render graph, `src/gpu/render_graph.cpp` | passes, resources, edges; the compiled order and slots | `create_resource`, `add_pass`, `add_dependency`, `export_resource`, `release_resource`, `compile` | every GPU effect chain | `RenderGraph` |
| Timeline editing, `src/editor/multitrack_timeline.cpp`, `src/editor/timeline_editing_suite.cpp`, `src/editor/professional_timeline_suite.cpp` | project, undo and redo, the base of a transaction | every edit, undo, redo, begin, commit, rollback | the host's editor | `Multitrack`, `TimelineEditor` |

What makes each of them hard, and what makes it correct:

- **Timeline playback.** A request is numbered, stamped with epoch and revision,
  and queued in separate steps, by any thread, while the worker tests the same
  three atomics one after the other. Correct when completions go, in order and
  once, to requests that were the newest when the worker looked, a plan is always
  of the revision and time its request names, nothing of a cleared cache comes
  back under a wrong key, and the newest request is answered.
- **Playback scheduler.** The same promise, with a decoder and a GPU behind it:
  what was decoded before a seek or a change of graph is put into caches that
  were cleared meanwhile. Correct when it is never found again.
- **Playback engine.** The decoder runs without the lock while the host moves
  the position. Two counters, `generation_` and the transport's
  `seek_generation_`, decide what is stale. Correct when nothing decoded before
  a seek is shown after it, the queue keeps its limits however frames enter and
  leave it, and the host is shown a frame rather than starved.
- **Executor.** Workers that have not noticed the end of a job read the fields
  of the next one. Correct when each item has one owner, a call returns when and
  only when its items are done, and an exception reaches its own caller.
- **Segment export.** The process may die between any two file operations.
  Correct when the manifest never promises what is not there, the output is of
  one revision, and a resumed export ends.
- **Export worker.** A fence may be answered by the encoder, the timeout, drain
  or cancel, one after the other. Correct when an answered fence stays answered,
  its answer is final once nobody holds the frame, whoever waits on it waits for
  somebody, and the worker ends though the encoder is silent.
- **SDK worker.** Callbacks run on the worker's thread or on a caller's, the one of
  a failing start under `api_mutex`, and may start, cancel or destroy. Correct when
  there is one completion, destroy returns, and nothing but a cancel in progress is
  heard after it. Destroy does not return when the worker's callback is in start.
- **Flutter production.** Each layer locks for itself, and a call lets every lock
  go on its way. Correct when an operation keeps the runtime it works on, a held
  texture stays alive, and a cancelled export neither finalizes nor reports success.
- **Flutter editor.** Between two awaits any other call may run; the texture is
  replaced over two of them. Correct when each frame that is out has a call that
  will consume it, no texture is lost, and closing comes to its end.
- **Audio.** Preview and export take turns on one decoder and on the mix the
  session publishes. Correct when what is rendered is the source, an export keeps
  its mix and has no gap and no repetition, and the output does what the session
  says. That a revision names one mix is not so: a new duration keeps the old one.
- **Render graph.** Passes are culled, reordered, and share memory. Correct when
  no pass can tell.
- **Timeline editing.** Each edit changes start, source start and duration of
  several clips. Correct when what plays is the old timeline with only the
  intended change, and undo and redo retrace the same documents.

### Not modelled

Each is a component of `PROJECT.json` with its reason.

- *Twins of what is modelled*: the **export job** C API (a thread, a flag and a
  snapshot around an external encoder: `SdkWorker` says what there is to say).
- *Sequential façades and documents*: runtime sessions, the other timeline
  documents, timeline rendering, projects, GPU image sessions (one mutex held per
  call). They keep state, but no two actors meet in it. Where they matter to a
  modelled part they are its environment: a plan is a revision and a time.
- *Out of reach of TLC*: GPU backends, shaders, effects, color science, audio
  DSP, codecs and zero-copy import. They compute with floating point or call
  drivers. They are most of the implementation's lines.
- *Data validation and process*: plugin packages and catalogs, qualification,
  release evidence, the remaining C and Dart bindings, build files.

## Modules

    LatestRequest ··· TimelinePlayback ── MCTimelinePlayback
                  │         └── TimelineProofs
                  └·· PlaybackScheduler ── PlaybackSchedulerProofs
    PlaybackTransport ── PlaybackEngine ── MCPlaybackEngine
                               └── PlaybackEngineProofs
    CpuPartition ── ParallelExecutor ── MCParallelExecutor
         │                └─────────── ExecutionProofs
         └──────── MCCpuPartition ────────┼────┐
    RenderGraph ──────────────────────────┴────┼── MCAlgorithms
    EditHistory ··· TimelineEditor ────────────┤
    Multitrack ─────────┘     └── TimelineProofs
    AudioPipeline ── AudioSession ─────────────┘
                          ├── ExportAudioProofs
    ExportWorker ─────────┘
    SegmentExport ── SegmentExportProofs
    SdkWorker ── SdkWorkerProofs
    HardwareEncode ──────┬── FlutterProduction ──┬── MCFlutterProduction
    PreviewPresentation ─┘        │              │
                                  ├ FlutterProductionProofs
                             EditorWorkspace ────┘

A line reads "is extended by", a dotted one "is implemented by" (an abstract
specification, instantiated with a refinement mapping). `MC` modules hold model
values and the sets a configuration names; `Proofs` modules hold theorems.
Definitions named in a comment as *Mutant* are plausible bugs: each replaces one
definition to show that a property notices it. They are not part of any
specification. `SegmentExport`, `ExportWorker`, `SdkWorker` and
`PlaybackScheduler` are checked as they stand.

### How state and actions correspond to the code

**TimelinePlayback.** Every atomic operation and every section under a mutex is
an action. `pc` says where each client thread is inside a call: `request` is
`ReadPublished`, `Compare` (with `StoreRevision`, `BumpEpoch`, `BumpSequence`,
`Clear` when the revision moved), `TakeSequence`, `LoadEpoch`, `LoadRevision`,
`Enqueue`. `wpc` is the worker: `Dequeue`, then `current()` as three loads
(`TestEpoch`, `TestSequence`, `TestRevision`), which `run()` makes before
`Acquire`, before `Deliver` and before `ReportError`. `after` is which of the
three. `build_plan` is a function of revision and timestamp; `OutOfRange` is
where it refuses. `completed` and `answered` are history. `cv_.wait` is a guard:
what its predicate reads is written under the mutex.

**PlaybackScheduler.** The same grain. `host` is the source and graph the host
really has when a callback runs, `identity` what the scheduler was told; a cached
frame records the first, its key the second. The caches are sets of entries, and
`Put` may evict any of the others: the properties hold for every order of eviction,
the least recently used among them. `Take`, `Block` and `MutexFree` are
`cv_.wait` in halves, because `resume()` notifies without the mutex.

**LatestRequest.** What both workers promise: numbers are drawn, the worker claims
the newest, completes it or abandons it. The claim is mapped to the moment the
sequence test before delivery succeeds; the code tests a sequence that may have
been superseded by the time the callback runs, and that is exactly what `Claim`
before `Complete` allows.

**PlaybackEngine.** A section under `mutex_` is an action; the calls that take
the mutex twice have two. `Advance` is the host's clock. The worker is `TakeJob`,
then `DecodeReturns` or `DecodeFails` at any later moment. Positions are counted
in frames. `flushes`, `shown` and `dropped` are history.

**ParallelExecutor.** Atomic operations are actions, and so are the unlocked
reads of `task_count_`, `count_` and `job_` after a `fetch_add`; so
`parallel_for`'s writes, although under the mutex, are three actions (`Publish`,
`PublishNext`, `PublishRemaining`). `done_cv_.wait` is `TestDone`, `Block`, and
`Notify` for who is already blocked: `remaining_` is not written under the mutex.
`Wrap` is the width of `size_t`. `ran`, `thrown`, `size` are history.

**CpuPartition.** The bounds of `execute_tasks` and the tiles of
`parallel_for_tiles` as operators, which `ParallelExecutor` uses.

**SegmentExport.** A file holds `Absent`, `Torn` or the revision it was rendered
from. Each remove, write and rename is an action that may fail (`Fault`), and
`Crash`, `Clean` (somebody empties the working directory) and `RequestCancel` may
come between any two. `cancel_requested_` is a plain bool written by another
thread; the model lets it be seen at any step.

**ExportWorker.** `wpc` follows `run()` through one round: test of cancel, expiry
of late fences, collection of answered frames, `try_pop`, `submit_`, mark, retain,
test of drain. `drain` and `cancel` are two steps each (`RequestDrain`,
`RequestCancel`; then `CancelPending`, `Close`), and pushes may come in between
unless the host is `careful`. The encoder answers a frame it has at any moment,
also after its timeout and during `submit_`. The worker's test of a fence and its
own answer are one step: an encoder's answer in between is replaced at once, while
the worker holds the frame (`Held`).

**SdkWorker.** Each thread has a program counter and a stack, because callbacks
call the API again. Clearing `progress_` and `callback_` is folded into the
`disposed_` flags that are set before. A callback may call start, cancel and
destroy. `Careful` is an assumption about the host: its callbacks leave out calls
that would wait for their own thread (`WaitsForItself`): destroy on the worker's
thread, which joins itself, and start or destroy under a failing start, which holds
`api_mutex`. Start on the worker's thread remains, and may meet a destroy that
joins it (`StartWaitsForDestroy`).

**FlutterProduction.** A call is cut where the code lets a mutex go; `thread[t].at`
is the step. Registry and session mutex are taken together. The encode and the
presentation session hold one mutex for the whole of each call, so they are
records with operators (`HardwareEncode`, `PreviewPresentation`). Callbacks of the
host refuse or throw wherever the code lets them. `stopped` and `dropped` are
history.

**EditorWorkspace.** A call is cut at its awaits. An await is a message to the
plugin (`requests`) and its reply (`replies`), handled and resumed in order, as the
platform channel does. Android renders into the texture first (`renderTarget`),
Windows hands it the frame. Native calls that end a frame or a session succeed;
the session detaches in a microtask, so its second release follows at once.

**AudioPipeline, AudioSession.** A pipeline is a record of the decoder cursor (what
packet comes next, which is carried over, where the next contiguous request
starts) and the published snapshot. Session calls hold the session's mutex from
end to end and are one step; `Feed` is the thread that fills the device;
`BeginExport`, `ExportBlock`, `EndExport` are an exporter of the same path, which
the registry gives the same pipeline. Decoder and device may fail at each call.

**RenderGraph.** `graph` is what the builder has been told, each builder call an
action, and `compile()` operators on it: inferred edges (RAW, WAR, WAW), roots and
culling, the order with its tie-break, the first-fit slots, and the cases it
refuses. A pass has its reads and writes as sets and says in `repeats` whether a
list of them named one twice. `Live` is the least set that holds the roots and what its passes depend
on, which the code's stack computes. Barriers follow from the order. `FoundAt`
runs the result: who wrote last to the memory in which a resource lives.

**Multitrack, TimelineEditor.** A project is a value and an edit an operator on it
that returns the same project where the code returns an error. `Names` is what
ids, tracks, media and groups are made of; an id is a sequence of names, since the
parts of a cut clip get suffixes. The host starts with a valid project
(`EditorAssumption`): `deserialize_timeline_project` and every call of
`MultitrackTimeline` validate theirs. The `Prepare` actions are those calls, until
the project goes to an editor (`opened`). The editor's actions record the history
before the edit can fail, as the code does. `last` remembers the edit just made and
the project `before` it, so that `EditsShowTheRest` can compare what each instant
of each track shows before and after; of lifting, breaking apart, removing and
ripple moves it says only that the timeline stays valid. **EditHistory** is what a
host expects of undo; `Distinct` in the mapping drops the entries failed edits leave.

## Runs

| Run | Configuration | States | Shows |
|---|---|---|---|
| `timeline` | `Timeline.cfg` | 691,000 | two racing clients: `DeliveredPlanMatches`, `CachedPlansMatch`, `CacheCoherent`, `ImplementsLatestRequest`, `SettledRequestAnswered` |
| `scheduler` | `Scheduler.cfg` | 458,000 | prefetch and both caches against seek, invalidation and pause: `CompletedIsWanted`, `ImplementsLatestRequest`, `SettledRequestAnswered` |
| `engine_safety` | `EngineSafety.cfg` | 2.2 M | every call, failing callbacks: `BytesBounded`, `PresentsOnlyAfterSeek` |
| `engine_live` | `EngineLive.cfg` | 75,000 | `PlaybackShowsFrames`, `DestructionCompletes` |
| `exec` | `Exec.cfg` | 203,000 | `OneOwner`, `ReturnIsTrue`, `DestructionEnds` for jobs of at most two tasks |
| `exec_two_jobs` | `ExecTwoJobs.cfg` | violation | `OneOwner` fails: a worker compares the number it fetched in a two-task job with the task count of a three-task job and runs a task twice (`docs/CPU_PARALLEL_KERNEL_POLICY.md:36`, "Each output element has exactly one writer.") |
| `segment` | `Segment.cfg` | 172,000 | `CheckpointIsTrue`, `OutputIsWhole`, `ExportCompletes` |
| `export` | `Export.cfg` | 182,000 | `UnansweredHasOwner`, `AnswersStick`, `AcceptedIsAnswered`, `WorkerEnds` |
| `sdk` | `Sdk.cfg` | 29,000 | callbacks that start, cancel and destroy: `OneCompletion`, `OnlyCancelIsLate`, `StartedEnds`; `DestroyReturns`: it does, unless the worker's callback waits in start |
| `sdk_reentry` | `SdkReentry.cfg` | violation | `ReentryDoesNotDeadlock` fails: a progress callback is in start, waiting for the `api_mutex` of a destroy that joins its thread (`src/ffi/sdk_worker_c_api.cpp:87`, "a callback is allowed to re-enter the C API (including destroy) without deadlocking") |
| `flutter` | `Flutter.cfg` | 2.5 M | two threads on the native side: `ExportEndsAsAsked`, `OperationKeepsRuntime`, `HeldTextureIsAlive`; overlapping calls of the editor: `OutstandingHasOwner`, `WaitingAppKeepsFrames`, `CloseIsComplete` |
| `algorithms` | `Algorithms.cfg` | 1.4 M | every small cut, graph and editing session: `CutsAreExact`, `ResultsAreAsDeclared`, `EditsShowTheRest`, `ImplementsEditHistory`; an audio session with its feeder and exporter (498,000 of the states): `RenderedIsSource`, `ExportIsContiguous`, `MixIsFrozenOrShown`, `OutputFollowsSession` |

Type invariants (`TypeOK`) are not in the configurations; they hold when added
there, and are proved for `TimelinePlayback`, `PlaybackScheduler` (`Typed`),
`SegmentExport`, `ExportWorker`, `PlaybackEngine` (`Typed`, without
`queued_bytes_`) and `FlutterProduction`. The editor's are proved as part of
`ProjectsStayValid`.

### Where the code departs from its documentation or its intent

Runs `exec_two_jobs` and `sdk_reentry` above show two.
Configurations that reproduce others by hand, with TLC's counterexample as their
result (`-continue` where a configuration holds several invariants):

| Configuration, module | Property | What the trace shows |
|---|---|---|
| `TimelineLost.cfg`, `MCTimelinePlayback` | `LatestRequestWins` | two clients take numbers in one order and reach the queue in the other: the newest request is overwritten and never answered (`docs/production_timeline_v5_1.md:14`, "latest-request-wins") |
| `EngineStaleAfterStop.cfg`, `MCPlaybackEngine` | `SeekInvalidates` | `stop()` counts `generation_` but not `seek_generation_`; the next seek reuses a number and shows a frame from before it (`docs/production_playback_engine.md:30`) |
| `EngineLoopOrder.cfg`, `MCPlaybackEngine` | `DropsForNewerFrames` | the decode cursor wraps behind the requested position in a loop, frames are queued twice, and `tick` drops the due frame for an older one (`docs/production_playback_engine.md:20`) |
| `EngineReplay.cfg`, `MCPlaybackEngine` | `PlaybackShowsFrames` | play after the end keeps the frames of the end, and nothing of the replay is shown; `engine_live` therefore seeks to the middle only |
| `ExecHang.cfg`, `MCParallelExecutor` | `CallsReturn` | the last worker counts down and notifies between the submitter's test and its wait (`tests/test_cpu_parallel_qualification.cpp:125`) |
| `SegmentLoss.cfg`, `SegmentExport` | `CheckpointSurvives`, `OutputSurvives` | manifest and output are removed before the rename of their successor, so a crash in between leaves neither (`docs/export-release-qualification.md:33`, "atomic finalization") |
| `SdkLateProgress.cfg`, `SdkWorker` | `ReentryIsAllowed` | a callback on the worker thread destroys its worker: the thread joins itself inside a `noexcept` function (`src/ffi/sdk_worker_c_api.cpp:89`) |
| | `NoProgressAfterDispose` | `run()` calls a copy of the progress callback after `dispose()` has returned (`tests/sdk_media_worker_tests.cpp:67`) |
| `FlutterUnregister.cfg`, `FlutterProduction` | `HostCallsEnd` | `create_registered` uses the copied host after the lock: `unregister_host` may have succeeded by then (`include/digitor/flutter_production_c_api.h:173`) |
| `EditorLoss.cfg`, `EditorWorkspace` | `GenerationsIncrease` | reopened media counts previews from 1 again while the texture keeps its last: "Preview generations must increase." (`DigitorEngineFfiPlugin.kt:530`) |
| | `TargetIsRegistered` | `createTexture` fails after the old texture was disposed of; the workspace keeps that one, and previews of its size fail from then on |
| | `ShownIsOpen` | media opened during a preview: the frame of the old one is shown over the new |
| `AudioOverlap.cfg`, `MCAlgorithms` | `ExportIsContiguous` | an export begins just after a sample: the time of its second block is cut off to before that sample's successor, which is exported twice (`src/media/windows_unified_export_factory.cpp:550`, "adjacent AAC input blocks cannot accumulate the microsecond rounding overlap/gap") |
| | `RevisionNamesOneMix` | publishing a timeline of another duration gives the pipeline another mix under the audio revision it had: an export asked for the revision that was previewed freezes what was not (`docs/PROFESSIONAL_AUDIO_ENGINE_V5_42.md:11`, "immutable revisioned render snapshots") |

Without a configuration of their own:

- The timeline worker tests `current()` before, not at, the callback, so a
  completion may arrive after a newer seek has returned
  (`docs/production_timeline_v5_1.md:34` rules it out). What holds is `LatestRequest`.
- `set_rate` of the engine clears the queue but keeps the generation: a frame in
  flight for the old direction is queued.
- The progress figures of a segment export count the running segment twice, and a
  segment whose file vanished again.
- `PlaybackScheduler::resume` may lose its wake-up; the queued request waits for
  the next call (`SettledRequestAnswered` excludes sessions that paused).
- An exported transient of a render graph shares its slot with later ones
  (`ExportsEndAsDeclared` in `RenderGraph` is false; `docs/render_graph.md` calls
  exported resources observable roots).
- A failed edit leaves a history entry that undoes nothing and erases what could
  be redone; undo inside a transaction makes the history inconsistent
  (`UndoInTransaction = TRUE` breaks `ImplementsEditHistory`, which is therefore
  proved of hosts that undo between transactions); `break_apart` of a
  trimmed compound restores the untrimmed clips; linked clips are clamped at zero
  one by one; the halves of a split stay in one group; roll and slip ignore locks.
- The preview of an audio session falls one sample behind after 63 blocks at
  48 kHz and plays a sample twice. Exports count samples; they repeat one now and
  then only if they begin between a sample and the next microsecond (`AudioOverlap.cfg`).
- `preview_consumed` releases after its locks: with two previews out, the wrong
  order leaves a frame displayed that nobody consumes. With three threads, a
  release may also come after the media was reopened: if its frame was replaced
  while pending, it retires the new media's frame of the same number, which a
  client still holds (`HeldTextureIsAlive` excepts such numbers, in `dropped`).
- `sdk_media_worker.cpp:29`: when `std::thread` throws, the completion runs under
  `api_mutex`; `export_job_c_api.cpp:95`: two threads may join one job.

### Bounds, and why they are enough

- *Timeline*: two clients, two calls, one stop or pause (start and resume are
  free, so restarts happen), revisions up to three of which the last refuses the
  timestamp, a cache of one entry. Two calls race in every order, a late
  insertion after a clear happens, and eviction happens: without it
  `CacheCoherent` fails on this instance. `MCSpec` starts with revision 0 or 1
  published; only the order of revisions matters. The theorems have no bounds.
- *Scheduler*: one client, four calls, two sources, two graphs, one requested and
  one prefetched frame, caches of one frame, so that each insertion evicts. A
  stale frame needs a change, a decode across it and a second request.
- *Engine*: three frame intervals, a queue of two, a budget of five bytes with
  frames of two and six, so that a frame alone exceeds it and the queue's length
  and its bytes each become the limit; three calls, two seeks. A stale frame needs
  a call, a decode in flight and a second call. `engine_live` leaves failures
  out: the code skips a frame whose decode failed, so nothing need be shown while
  the clock stands still.
- *Executor*: two workers, two submitters, jobs of one item (run in the caller) or
  of four (two tasks), the second item throwing, two jobs. Stragglers of the first
  job run tasks of the second. Jobs of different task counts break `OneOwner`
  (run `exec_two_jobs`, three workers), so the passing run does not mix them.
  `Wrap` is 8, above every count of tasks.
- *Segments*: three segments, three revisions, three faults. A torn state needs
  one fault, recovering from one a second, and a stale file an edit.
- *Export*: three frames, a queue of one, two in flight: one is queued, one in the
  worker's hand, one with the encoder, and each limit is reached.
- *SDK*: two host threads with four calls, callbacks that start, cancel and destroy, two
  units of work, a thread that may fail to start. Each pair of calls meets at
  each step of the third party.
- *Flutter*: two threads, two sessions, two revisions, two frames, eight calls:
  enough to create and bind both sessions and race two operations. Editor: two
  overlapping previews of four, two sizes (each change replaces the texture), two
  openings, two failures. The two sides share one run, a behaviour takes one.
- *Audio*: seven samples in packets of 2, 3 and 2, blocks of two, so that blocks end
  inside packets; 3 samples in 10 units, so that times are cut off; six calls.
  Exports begin at 1 or 10, where a block's time does not fall back over a sample.
- *Algorithms*: 13 items or pixels, five workers, tiles of up to four with halos up
  to three: sizes that divide and that do not, tiles smaller than their halo. Three
  passes over two equal transients, a smaller one and an import, one read per pass
  and one explicit edge, export or release. Four clips on two tracks, four calls
  (`MaxHostCalls`) of which two edit (`MaxEdits`), a history of two, so that it
  overflows. The theorems have no bounds. The audio session shares the run: a
  behaviour takes one of the four.

### Fairness

Only steps of threads that can run are fair. Clients of the timeline and of the
scheduler finish the calls they are in and the worker runs, but nobody has to
call, publish or resume. The engine's host polls `tick`, as its documentation
asks, and the clock need not move. `DestroyedSpec` adds an owner that destroys an
executor nobody uses. In `SegmentExport` a host opens a session and runs it again
after a failure, and drops one it cancelled (strong fairness, since the session
ends and reopens); faults are bounded, so the property speaks of what happens once
they cease. The export worker and its controller run; a submitted frame that stays
unanswered is found expired by some later round (strong fairness, since the worker
passes that point again and again and the code compares with a clock); the encoder
need not answer at all. SDK callbacks return. `FlutterProduction`,
`EditorWorkspace`, `AudioSession` and `TimelineEditor` state no fairness: their
properties are of safety.

## Proofs

All hold for every value of the constants under the named assumptions of the
modules (sets of threads disjoint, bounds natural, `Timestamps` not empty, the
first project valid).

- **TimelineProofs**, the worker. `TypeCorrect`; `CompletionsInOrder`:
  `CompletionsAdvance` is not inductive, since nothing in it says where sequence
  numbers are. `CompletionInv` does: each number has one holder (a client between
  `TakeSequence` and `Enqueue`, the queue, or the worker), none exceeds
  `latest_sequence_`, none was completed, and one that passed the sequence test
  exceeds all completed. `WorkerImplementsLatestRequest` is the refinement: under
  the same invariant each step of the worker is a step of `LatestRequest` or a
  stutter (`PromiseStep`, one case per action). `PlansMatchRequests` and
  `CacheMatchesRevisions` follow from `PlanInv`: from `Acquire` on, the snapshot is
  of the revision the request names, so what is inserted after a clear is old but
  true. `CacheStaysCoherent` needs that the worker building a plan missed its
  key and that only it inserts (`MissedPlan`); then the order of the cache lists
  each key once, and has as many entries as the cache has keys.
- **TimelineProofs**, the editor, for projects of any size, any arguments, shortest
  clip and history limit. `ProjectsStayValid`: the invariant `EditorInv` says that
  the project, every entry of undo and redo and the base of a transaction are valid,
  for undo and rollback bring them back. One lemma per edit (`InsertSound` to
  `BreakSound`) shows what the checks of the code leave to prove: types, finitely
  many clips, and for the edits that validate nothing, such as slip, that nothing
  they change matters to validity.
  `EditsImplementHistory` is the refinement of `EditHistory`, assuming
  `UndoInTransaction = FALSE`; with `TRUE` it is false, as TLC shows. The mapping
  drops repeated entries by a recursive function, `Distinct`; what appending, forgetting
  the oldest entry and taking off the last do to it (`DistinctAppend`, `DistinctTail`,
  `BeforeIs`) makes each call an edit, a retraced step, or a stutter.
  `EditsShow` is `EditsShowTheRest`. The inductive invariant adds `Promised` to
  `EditorInv`: what the property says of `last`, of every integer instant and not
  only of those up to the end of the timeline. Validity of the project before an edit is
  what makes it true: where clips do not overlap, a clip that plays is all a track
  shows (`Alone`), so an edit that replaces clips by their parts is followed clip by
  clip (`SwappedShows`; `OpenedShows` and `ClearedShows` for the parts,
  `NeighboursAre` for slide). A ripple needs more, since it moves the tracks that
  were not asked about: an instant there shows what it showed or what came later,
  never both, because the project afterwards is valid, so no clip was moved onto
  another (`RippleShows`). `BreakRestores`: breaking a fresh compound apart gives back
  the very project it was made from.
- **PlaybackSchedulerProofs.** `SchedulerInvariant`, `FramesAreWanted` and
  `SchedulerImplementsLatestRequest`. `OneHolder` is the argument on numbers again.
  For the frames, `KeysTrue` says that what is cached or in hand differs from its
  key in the graph at most, and `TaintIsOld` bounds that: an epoch is *tainted* when
  something of another graph is cached under it or may still come to be, and a
  request of the present state of the host has a later epoch than every tainted
  one. It is inductive because the epoch moves after the identity and before the
  call ends (`BumpEpoch`), and a request made while the graph changes is of no state
  of the host (`HostKnown`).
- **SegmentExportProofs.** `TypeCorrect`, `CheckpointCorrect` and `OutputCorrect`
  from one invariant `IInv`. Its parts beyond the properties: what memory marks as
  completed is whole or missing (`MarksAreTrue`), a rename moves a whole file
  (`RenamesWhole`), the session has the revision the host wants
  (`SessionIsWanted`), and a manifest is never of a later revision
  (`CheckpointIsPast`), without which an edit could make a stale manifest
  current.
- **ExportAudioProofs.** The worker: `TypeCorrect`, `WaitersHaveOwners` and
  `CollectedAnswersAreFinal`. `UnansweredHasOwner` becomes inductive with `HandIsFree`: the
  worker has a frame in its hand from `Pop` to `Retain`, or because `submit_` threw,
  and at no other time, so that `Pop` puts none aside. That an answer is final once
  its frame is collected needs `QueueIsUntouched` as well: a queued frame is queued
  once, unanswered and in nobody's hands, so that `CancelPending` replaces no
  answer. The audio: `BlocksAreTheSource`, `MixStaysFrozenOrShown` and `OutputObeysSession`, from one
  invariant. `CursorFits` is what makes a cursor safe to keep: while it streams, the
  packet it reads next starts no later than the request that would continue the
  last one; a request that continues reads from there, any other seeks
  (`LandingFits`), and packets between two ends hold every sample between them
  (`PacketOf`). The ends of the packets are a recursive function: that it exists,
  grows and has no gap follows from `LeastNumber`, the well-foundedness of the
  naturals, which serves where one would say "by induction". The output is open as
  long as media is attached (`OutputIsOpen`), so every command can be followed from
  the session's side. `ExportsHaveNoGap` assumes `OriginsFit`: an export begins at a
  sample, or later than a unit of time after one. Otherwise `ExportIsContiguous` is
  false (`AudioOverlap.cfg`).
- **SdkWorkerProofs.** `CompletesOnce` and `LateIsCancel`, for careful hosts and
  careless ones. A call goes back to where it came from, so the invariant speaks of
  stacks: there is a place to return to (`Returns`), run() never returns to a host
  (`WorkerRuns`), and "startUnlock" is on one stack at most, of the thread that
  holds `api_mutex` (`LockHeld`). With it a failing start's result is delivered
  before destroy can return (`ResultIsOf`), and the thread that set `completed_` is
  alone on its way to the callback (`OneOnItsWay`).
- **FlutterProductionProofs.** `TypeCorrect`, `RuntimeIsKept`, `TexturesLive` and
  `ExportsEnd`, from an invariant in layers. `OneKeeper`: opened media belongs to
  one registered session, or to the one thread that is about to register it or to
  close it. `OneOperation`: the thread of a preview or an export is on that session,
  which is active and holds no texture, so there is one such thread; with both, no
  step of another thread can change the runtime. `FramesAlive`: a frame is in the
  hands of one thread or held by one session, or its number is in `dropped`; without
  it a release could retire a frame somebody else still needs. `Exported`: the state
  of the encode session, its callbacks, the place of the export and its verdict
  agree; the encoder runs only while an export is in its loop. The editor:
  `FrameIsConsumed`, `WaitingKeepsFrames` and `EditorCloses`. A call has one message
  on the channel at a time and each message is of a call that waits for it
  (`MessagesBelong`); there is one binding as long as there is a session, and closing
  lets both go (`SessionIsBound`); Windows renders before the first await of a
  preview and Android before the last, so its step says whether it has a frame
  (`FramesBelong`). In an app that waits, the call under way is alone, with the
  frame that is out and the one texture there is (`Waiting`).
- **PlaybackEngineProofs.** `EngineInvariant`, `SeeksInvalidate` and
  `QueueIsCounted`. A frame is
  refused by its generation, and what the property speaks of is flushes. `Fresh`
  ties them: until a stop, which flushes without a seek of the transport, the
  engine's generation, the transport's and the number of flushes are one, and the
  queue and the worker's job agree with them. Queues lose their first frames by the
  least index that satisfies a condition; `FirstOf` is that such an index exists,
  from the well-foundedness of the naturals. The bytes of a queue are a recursive
  function; the same least index proves that it exists and that a queue counts as
  its first frames and the rest (`BytesSplit`). So what `tick` and the worker drop
  takes its bytes off, and room is made until the budget holds the new frame or
  nothing else is left (`RoomIs`).
- **ExecutionProofs.** The cuts: `ItemHasOneTask`, `TasksAreNotEmpty`,
  `PixelHasOneTile` and `HaloIsTheNeighbourhood`, from lemmas on quotients that
  bring nonlinear division within reach of the solver, and `EveryCutIsExact`, which
  is `CutsAreExact` whatever the bounds. The threads: `ItemsHaveOneOwner` and
  `ReturnsAreTrue` assume `SameTasks`, that all jobs of several tasks have the same
  number of them. Without it `OneOwner` is false (`exec_two_jobs`); it holds when a
  call has one item or at least one per worker (`LargeJobsShareTasks`). The
  invariant is about numbers: in a job, each number below `task_count_` is fetched
  once (`Numbered`) and its items are untouched until its task has run (`Written`);
  between jobs `next_task_` is past the end, or every worker sleeps, so that no
  straggler starts on the next job before its counter is reset (`Between`).
  `remaining_` is never below the number of tasks that are not done (`Counted`):
  lost decrements only make a call wait. So at `Collect` no task is pending, and
  `exception_` says whether one threw (`Caught`).
  The render graph: `CompiledGraphsAreFaithful`, for every graph the builder can
  make. Kahn's sort puts each live pass after what it depends on (`OrderIsSorted`)
  and, unless it is shorter than the live passes, has them all (`OrderIsWhole`, an
  injection between sets of one size). Edges only join neighbours, so that all
  writers of a resource keep their order is an induction on passes
  (`WritesInOrder`), and a reader comes before every later writer because it comes
  before the next one (`ReadsBeforeWrites`). First fit keeps the lifetimes in one
  slot apart (`SlotsApart`), so between the store a pass is to read and the read
  nobody writes there (`OthersKeepOut`).

Only model-checked: liveness (fairness and `ENABLED` are outside TLAPS here). The
safety parts of every passing run are theorems, some under the hypotheses named
above.

## Plan

What is left, in the order of what it would add:

1. The plugin marketplace and its install store: revocation, quarantine, and a
   crash between installation and the journal.
2. The export job over the export worker, and processed GPU frames with their
   retirement when the device is lost.
