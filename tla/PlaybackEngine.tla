--------------------------- MODULE PlaybackEngine ---------------------------
(***************************************************************************)
(* ProductionPlaybackEngine (src/runtime/production_playback_engine.cpp):  *)
(* a worker decodes ahead of the transport into a bounded queue, the host  *)
(* thread moves the transport, polls tick and presents.                    *)
(*                                                                         *)
(* Grain: a section under mutex_ is a step; the worker runs between the    *)
(* sections of one host call.  The transport is only used by the host      *)
(* thread, so its operation joins the section that follows it.  Whatever   *)
(* the worker's wait predicate reads is written under mutex_ before        *)
(* notify_all, so the wait is a guard.                                     *)
(***************************************************************************)
EXTENDS PlaybackTransport, Sequences

CONSTANTS
  Prefetch,       \* prefetch_frames
  MaximumQueued,  \* maximum_queued_frames
  Budget,         \* gpu_memory_budget_bytes
  Sizes,          \* estimated_bytes of decoded frames
  Late,           \* frame duration plus late_frame_threshold_us
  SeekTargets,    \* positions the host seeks and scrubs to
  LoopRanges,     \* <<in, out>> ranges the host enables or disables
  Failures,       \* which of "decode" and "present" may fail
  Calls,          \* the calls the host makes
  MaxCalls,       \* bound: host calls
  MaxSeeks        \* bound: seeks, those of loops included

ASSUME EngineAssumption ==
  /\ Prefetch \in Nat \ {0} /\ MaximumQueued \in Nat /\ Prefetch <= MaximumQueued
  /\ Budget \in Nat \ {0} /\ Sizes \subseteq Nat \ {0}
  /\ Late \in Nat /\ MaxCalls \in Nat /\ MaxSeeks \in Nat
  /\ SeekTargets \subseteq Int
  /\ LoopRanges \subseteq (0..Duration) \X (0..Duration)
  /\ Failures \subseteq {"decode", "present"}

VARIABLES
  transport,      \* transport_
  playing,        \* playing_
  generation,     \* generation_
  requested,      \* requested_position_us_
  nextDecode,     \* next_decode_pts_us_
  rate,           \* rate_
  loopEnabled, loopIn, loopOut,
  queue,          \* queue_
  queuedBytes,    \* queued_bytes_
  lastPresented,  \* counters_.last_presented_pts_us
  shutdown,       \* shutdown_
  hpc,            \* the section of a call the host thread is at
  selected,       \* tick's selected frame
  wpc,            \* the worker: waiting, decoding or gone
  job,            \* the frame it is decoding
  flushes,        \* history: how often seek or stop has flushed the queue
  shown,          \* history: a frame was presented since the picture changed
  dropped,        \* history: furthest pts the current tick dropped
  calls

transportVars == <<transport, rate, loopEnabled, loopIn, loopOut>>
queueVars     == <<queue, queuedBytes>>
cursorVars    == <<requested, nextDecode>>
workerVars    == <<wpc, job>>
vars == <<transportVars, playing, generation, cursorVars, queueVars,
          lastPresented, shutdown, hpc, selected, workerVars, flushes, shown,
          dropped, calls>>

(* A frame knows the generation it was requested under; flushes is history. *)
Job   == [pts : 0..Duration, generation : Nat, flushes : Nat]
Frame == [pts : 0..Duration, generation : Nat, flushes : Nat, size : Sizes]

Bytes(frames) ==
  LET sum[n \in 0..Len(frames)] == IF n = 0 THEN 0 ELSE sum[n - 1] + frames[n].size
  IN sum[Len(frames)]
From(frames, first) == SubSeq(frames, first, Len(frames))

(* The first index that satisfies Test, one past the end when none does. *)
FirstIndex(frames, Test(_)) ==
  CHOOSE i \in 1..Len(frames) + 1 :
    /\ i = Len(frames) + 1 \/ Test(i)
    /\ \A j \in 1..i - 1 : ~ Test(j)

AnyFrame == [pts |-> 0, generation |-> 0, flushes |-> 0,
             size |-> CHOOSE s \in Sizes : TRUE]

Init ==
  /\ transport = InitTransport /\ rate = 1
  /\ playing = FALSE /\ generation = 0 /\ requested = 0 /\ nextDecode = 0
  /\ loopEnabled = FALSE /\ loopIn = 0 /\ loopOut = Duration
  /\ queue = <<>> /\ queuedBytes = 0 /\ lastPresented = -1
  /\ shutdown = FALSE /\ hpc = "idle" /\ selected = AnyFrame
  /\ wpc = "wait" /\ job = [pts |-> 0, generation |-> 0, flushes |-> 0]
  /\ flushes = 0 /\ shown = FALSE /\ dropped = -1 /\ calls = 0

-----------------------------------------------------------------------------
(* The host's calls.                                                       *)
Call(what) ==
  /\ what \in Calls
  /\ hpc = "idle"
  /\ calls < MaxCalls
  /\ calls' = calls + 1

callFrame == <<selected, workerVars, dropped>>

(* A call that moves the position or drops the queue wants a new picture.  *)
Redraws == shown' = (shown /\ transport'.position = transport.position /\ queue' = queue)

Play ==
  /\ Call("play")
  /\ transport' = TransportPlay(transport)
  /\ playing' = TRUE
  /\ requested' = transport'.position
  /\ nextDecode' = IF queue = <<>> THEN requested' ELSE nextDecode
  /\ UNCHANGED <<callFrame, rate, loopEnabled, loopIn, loopOut, generation,
                 queueVars, lastPresented, shutdown, hpc, flushes>>
  /\ Redraws

Pause ==
  /\ Call("pause")
  /\ transport' = TransportPause(transport)
  /\ playing' = FALSE
  /\ requested' = transport'.position
  /\ UNCHANGED <<callFrame, rate, loopEnabled, loopIn, loopOut, generation,
                 nextDecode, queueVars, lastPresented, shutdown, hpc, flushes>>
  /\ Redraws

(* flush_for_generation, as stop also does it. *)
Flush(newGeneration) ==
  /\ queue' = <<>> /\ queuedBytes' = 0
  /\ generation' = newGeneration
  /\ lastPresented' = -1
  /\ flushes' = flushes + 1
  /\ shown' = FALSE

Stop ==
  /\ Call("stop")
  /\ transport' = TransportStop(transport)
  /\ playing' = FALSE
  /\ Flush(generation + 1)
  /\ requested' = 0 /\ nextDecode' = 0
  /\ UNCHANGED <<callFrame, rate, loopEnabled, loopIn, loopOut, shutdown, hpc>>

(* seek's section; scrub and the loop of tick continue at next. *)
SeekTo(p, next) ==
  /\ transport.seekGeneration < MaxSeeks
  /\ transport' = TransportSeek(transport, p)
  /\ Flush(transport'.seekGeneration)
  /\ requested' = transport'.position /\ nextDecode' = requested'
  /\ hpc' = next
  /\ UNCHANGED <<callFrame, rate, loopEnabled, loopIn, loopOut, playing, shutdown>>

Seek(p) == Call("seek") /\ SeekTo(p, "idle")

Scrub(p) == Call("scrub") /\ SeekTo(p, "scrubPlay")

StepFrames(n) == Call("step") /\ SeekTo(transport.position + n, "scrubPlay")

ScrubPlay ==
  /\ hpc = "scrubPlay"
  /\ playing' = TRUE
  /\ hpc' = "idle"
  /\ UNCHANGED <<callFrame, transportVars, generation, cursorVars, queueVars,
                 lastPresented, shutdown, flushes, shown, calls>>

SetLoopRange(in, out, enabled) ==
  /\ Call("loop")
  /\ in < out
  /\ loopIn' = in /\ loopOut' = out /\ loopEnabled' = enabled
  /\ UNCHANGED <<callFrame, transport, rate, playing, generation, cursorVars,
                 queueVars, lastPresented, shutdown, hpc, flushes, shown>>

SetRate(r) ==
  /\ Call("rate")
  /\ transport' = TransportSetRate(transport, r)
  /\ rate' = r
  /\ requested' = transport'.position /\ nextDecode' = requested'
  /\ queue' = <<>> /\ queuedBytes' = 0
  /\ UNCHANGED <<callFrame, loopEnabled, loopIn, loopOut, playing, generation,
                 lastPresented, shutdown, hpc, flushes>>
  /\ Redraws

(* The host's clock moves on between two calls. *)
Advance ==
  /\ hpc = "idle"
  /\ transport.state = "playing"
  /\ transport' = Moved(transport, 1)
  /\ transport' # transport
  /\ UNCHANGED <<callFrame, rate, loopEnabled, loopIn, loopOut, playing, generation,
                 cursorVars, queueVars, lastPresented, shutdown, hpc, flushes, shown,
                 calls>>

(* The destructor: ask the worker to leave, then join it. *)
Destroy ==
  /\ Call("destroy")
  /\ shutdown' = TRUE
  /\ hpc' = "joining"
  /\ UNCHANGED <<callFrame, transportVars, playing, generation, cursorVars,
                 queueVars, lastPresented, flushes, shown>>

Joined ==
  /\ hpc = "joining"
  /\ wpc = "gone"
  /\ hpc' = "destroyed"
  /\ UNCHANGED <<callFrame, transportVars, playing, generation, cursorVars,
                 queueVars, lastPresented, shutdown, flushes, shown, calls>>

-----------------------------------------------------------------------------
(* tick.                                                                   *)
tickFrame == <<workerVars, shown, calls, shutdown>>

LoopReached ==
  /\ loopEnabled
  /\ IF rate < 0 THEN transport.position <= loopIn ELSE transport.position >= loopOut

TickBegin ==
  /\ hpc = "idle"
  /\ hpc' = IF LoopReached THEN "loopSeek" ELSE "select"
  /\ dropped' = -1
  /\ UNCHANGED <<tickFrame, transportVars, playing, generation, cursorVars,
                 queueVars, lastPresented, selected, flushes>>

LoopSeek ==
  /\ hpc = "loopSeek"
  /\ SeekTo(IF rate < 0 THEN loopOut ELSE loopIn, "loopPlay")
  /\ UNCHANGED calls

LoopPlay ==
  /\ hpc = "loopPlay"
  /\ transport' = TransportPlay(transport)
  /\ playing' = TRUE
  /\ hpc' = "select"
  /\ UNCHANGED <<tickFrame, rate, loopEnabled, loopIn, loopOut, generation,
                 cursorVars, queueVars, lastPresented, selected, flushes, dropped>>

(* In the direction of play: is pts reached, or about to be?               *)
Reached(pts) == IF rate < 0 THEN pts >= transport.position ELSE pts <= transport.position

(* Mutant: a frame is near only once it is past. *)
NearPast(pts) == IF rate < 0 THEN pts > transport.position ELSE pts < transport.position

Near(pts) == IF rate < 0 THEN pts >= transport.position - 1
                         ELSE pts <= transport.position + 1
TooLate(f) == rate > 0 /\ f.pts + Late < transport.position

(* The frames tick keeps: it drops the leading frames of another           *)
(* generation, then every frame whose successor is already due.            *)
Current == From(queue, FirstIndex(queue, LAMBDA i : queue[i].generation = generation))
Due     == From(Current, FirstIndex(Current, LAMBDA i :
                  i = Len(Current) \/ ~ Reached(Current[i + 1].pts)))
Skipped == SubSeq(Current, 1, Len(Current) - Len(Due))

(* The pts furthest on in the direction of play, -1 when there is none. *)
Furthest(frames) ==
  LET pts == {frames[i].pts : i \in DOMAIN frames}
  IN IF pts = {} THEN -1
     ELSE CHOOSE p \in pts : \A q \in pts : IF rate < 0 THEN p <= q ELSE p >= q

(* Mutant: the skipped frames are not taken off the byte count. *)
SelectForgetful ==
  LET chosen == Due # <<>> /\ Near(Head(Due).pts)
  IN /\ hpc = "select"
     /\ requested' = transport.position
     /\ queue' = IF chosen THEN Tail(Due) ELSE Due
     /\ queuedBytes' = queuedBytes - (IF chosen THEN Head(Due).size ELSE 0)
     /\ selected' = IF chosen THEN Head(Due) ELSE selected
     /\ dropped' = Furthest(Skipped)
     /\ hpc' = IF chosen /\ ~ TooLate(Head(Due)) THEN "present" ELSE "idle"
     /\ UNCHANGED <<tickFrame, transportVars, playing, generation, nextDecode,
                    lastPresented, flushes>>

Select ==
  LET chosen == Due # <<>> /\ Near(Head(Due).pts)
  IN /\ hpc = "select"
     /\ requested' = transport.position
     /\ queue' = IF chosen THEN Tail(Due) ELSE Due
     /\ queuedBytes' = queuedBytes - Bytes(SubSeq(queue, 1, Len(queue) - Len(queue')))
     /\ selected' = IF chosen THEN Head(Due) ELSE selected
     /\ dropped' = Furthest(Skipped)
     /\ hpc' = IF chosen /\ ~ TooLate(Head(Due)) THEN "present" ELSE "idle"
     /\ UNCHANGED <<tickFrame, transportVars, playing, generation, nextDecode,
                    lastPresented, flushes>>

(* present_ runs without the lock and may fail. *)
Present ==
  /\ hpc = "present"
  /\ hpc' = "idle"
  /\ \/ lastPresented' = selected.pts /\ shown' = TRUE
     \/ "present" \in Failures /\ UNCHANGED <<lastPresented, shown>>
  /\ UNCHANGED <<workerVars, calls, shutdown, transportVars, playing, generation,
                 cursorVars, queueVars, selected, flushes, dropped>>

-----------------------------------------------------------------------------
(* The worker.                                                             *)
workerFrame == <<transportVars, playing, generation, requested, lastPresented,
                 shutdown, hpc, selected, flushes, shown, dropped, calls>>

(* Mutant: shutdown_ is only seen while nothing is left to decode. *)
WorkerExitIdle ==
  /\ wpc = "wait"
  /\ shutdown /\ ~ playing
  /\ wpc' = "gone"
  /\ UNCHANGED <<workerFrame, nextDecode, queueVars, job>>

WorkerExit ==
  /\ wpc = "wait"
  /\ shutdown
  /\ wpc' = "gone"
  /\ UNCHANGED <<workerFrame, nextDecode, queueVars, job>>

(* The furthest of cursor and request in the direction of play. *)
Ahead == Clamp(IF (rate < 0) = (nextDecode < requested) THEN nextDecode ELSE requested)

Following(pts) ==
  LET next == pts + (IF rate < 0 THEN -1 ELSE 1)
  IN IF loopEnabled /\ rate > 0 /\ next >= loopOut THEN loopIn
     ELSE IF loopEnabled /\ rate < 0 /\ next <= loopIn THEN loopOut
     ELSE next

TakeJob ==
  /\ wpc = "wait"
  /\ ~ shutdown
  /\ playing /\ Len(queue) < Prefetch /\ queuedBytes < Budget
  /\ job' = [pts |-> Ahead, generation |-> generation, flushes |-> flushes]
  /\ nextDecode' = Following(Ahead)
  /\ wpc' = "decode"
  /\ UNCHANGED <<workerFrame, queueVars>>

(* decode_ throws, returns nothing, or a frame that is refused. *)
DecodeFails ==
  /\ "decode" \in Failures
  /\ wpc = "decode"
  /\ wpc' = "wait"
  /\ UNCHANGED <<workerFrame, nextDecode, queueVars, job>>

(* What is left of the queue once there is room for a frame of this size. *)
RoomFor(size) ==
  From(queue, FirstIndex(queue, LAMBDA i :
    /\ Len(From(queue, i)) < MaximumQueued
    /\ queuedBytes - Bytes(SubSeq(queue, 1, i - 1)) + size <= Budget))

(* Mutant: the frame is queued whatever generation it was decoded for. *)
EnqueueAnyGeneration(size) ==
  LET kept == RoomFor(size)
  IN /\ wpc = "decode"
     /\ wpc' = "wait"
     /\ queue' = Append(kept, [pts |-> job.pts, generation |-> generation,
                               flushes |-> job.flushes, size |-> size])
     /\ queuedBytes' = Bytes(kept) + size
     /\ UNCHANGED <<workerFrame, nextDecode, job>>

(* A frame of the generation it was asked under is queued, older ones make *)
(* room for it; one of another generation is counted as stale.             *)
DecodeReturns(size) ==
  LET kept == RoomFor(size)
  IN /\ wpc = "decode"
     /\ wpc' = "wait"
     /\ \/ /\ job.generation = generation
           /\ queue' = Append(kept, [pts |-> job.pts, generation |-> job.generation,
                                     flushes |-> job.flushes, size |-> size])
           /\ queuedBytes' = queuedBytes + size
                - Bytes(SubSeq(queue, 1, Len(queue) - Len(kept)))
        \/ /\ job.generation # generation
           /\ UNCHANGED queueVars
     /\ UNCHANGED <<workerFrame, nextDecode, job>>

-----------------------------------------------------------------------------
HostCall ==
  \/ Play \/ Pause \/ Stop
  \/ \E p \in SeekTargets : Seek(p) \/ Scrub(p)
  \/ \E n \in {-1, 1} : StepFrames(n)
  \/ \E range \in LoopRanges, enabled \in BOOLEAN : SetLoopRange(range[1], range[2], enabled)
  \/ \E r \in Rates : SetRate(r)
  \/ Destroy

Tick == TickBegin \/ LoopSeek \/ LoopPlay \/ Select \/ Present

Worker ==
  WorkerExit \/ TakeJob \/ DecodeFails \/ \E size \in Sizes : DecodeReturns(size)

Next == HostCall \/ ScrubPlay \/ Joined \/ Advance \/ Tick \/ Worker

Spec == Init /\ [][Next]_vars

(* The host polls tick and finishes the calls it is in; the worker runs.    *)
(* Neither the host's calls nor the clock are forced to move on.            *)
FairSpec ==
  /\ Spec
  /\ WF_vars(ScrubPlay \/ Joined \/ Tick)
  /\ WF_vars(Worker)

-----------------------------------------------------------------------------
HostPCs == {"idle", "scrubPlay", "loopSeek", "loopPlay", "select", "present",
            "joining", "destroyed"}

(* Every variable keeps its type, and prefetch_frames bounds the queue: it  *)
(* only grows by the one frame the worker was decoding.                     *)
TypeOK ==
  /\ transport \in Transport /\ rate \in Rates
  /\ playing \in BOOLEAN /\ generation \in Nat
  /\ requested \in 0..Duration /\ nextDecode \in -1..Duration + 1
  /\ loopEnabled \in BOOLEAN /\ loopIn \in 0..Duration /\ loopOut \in 0..Duration
  /\ queue \in Seq(Frame)
  /\ Len(queue) + (IF wpc = "decode" THEN 1 ELSE 0) <= Prefetch
  /\ queuedBytes \in Int /\ lastPresented \in -1..Duration
  /\ shutdown \in BOOLEAN /\ hpc \in HostPCs /\ selected \in Frame
  /\ wpc \in {"wait", "decode", "gone"} /\ job \in Job
  /\ flushes \in Nat /\ shown \in BOOLEAN /\ dropped \in -1..Duration
  /\ calls \in Nat

(* queued_bytes_ is what the queue holds, and within the budget but for a   *)
(* single frame that alone exceeds it: frames enter and leave through six   *)
(* places that each adjust the count.                                       *)
BytesBounded ==
  /\ queuedBytes = Bytes(queue)
  /\ queuedBytes <= Budget \/ Len(queue) = 1

(* "A seek invalidates all frames from the previous generation"             *)
(* (docs/production_playback_engine.md): what is presented was asked of the *)
(* decoder after the last seek or stop.                                     *)
SeekInvalidates == hpc = "present" => selected.flushes = flushes

(* The same for a session that has not been stopped: every flush is then a  *)
(* seek, of the host, of scrub, of a step or of the loop.                   *)
PresentsOnlyAfterSeek ==
  hpc = "present" /\ flushes = transport.seekGeneration => selected.flushes = flushes

(* "Deadline-aware hold/drop behavior": tick drops a frame only for one     *)
(* that is further on, so it never presents an older frame than it dropped. *)
DropsForNewerFrames ==
  hpc = "present" /\ dropped # -1 =>
    IF rate < 0 THEN selected.pts <= dropped ELSE selected.pts >= dropped

(* "timeline position -> decode-ahead worker -> GPU frame queue -> ...":    *)
(* while the transport plays and nothing fails, the host that polls tick is *)
(* shown a frame, even before the clock moves on.                           *)
PlaybackShowsFrames ==
  (transport.state = "playing" /\ ~ shown) ~>
    (shown \/ transport.state # "playing" \/ shutdown)

(* "Destruction requests worker cancellation and wakes blocked waits". *)
DestructionCompletes == shutdown ~> hpc = "destroyed"
=============================================================================
