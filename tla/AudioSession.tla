---------------------------- MODULE AudioSession ----------------------------
(***************************************************************************)
(* A timeline audio session (src/sdk/timeline_audio_session.cpp) with its  *)
(* preview output and the thread that feeds it, and the exporter of        *)
(* src/media/windows_unified_export_factory.cpp, over the AudioPipeline of *)
(* one media file. Session calls hold the session's mutex from end to end  *)
(* and take those of the output and of the pipeline one after the other;   *)
(* what other threads do in between they can do before, so a call is one   *)
(* step. A call that is refused and changes nothing is not a step.         *)
(***************************************************************************)
EXTENDS AudioPipeline

CONSTANTS Block,                          \* samples of a preview or export block
          Times, Durations, Rates, Gains,   \* arguments of the host
          Origins, ExportLength,          \* where exports begin; their duration
          MaxRevision, MaxUpdates, MaxCalls     \* bounds

ASSUME SessionAssumption ==
  /\ Block \in Nat \ {0} /\ ExportLength \in Nat
  /\ Times \union Durations \union Origins \subseteq Nat

VARIABLES session, output, pipe, exporter, troubled, frozen, calls
avars == <<session, output, pipe, exporter, troubled, frozen, calls>>

NoOutput == [on |-> FALSE, voice |-> FALSE, playing |-> FALSE, failure |-> FALSE,
             eof |-> FALSE, at |-> 0, rate |-> 1]
NoExport == [active |-> FALSE, origin |-> 0, frames |-> 0]
Snapshot(p) == <<p.revision, p.duration, p.gain>>

(* troubled: the media has reported an error since it was attached.        *)
AudioInit ==
  /\ session = [state |-> "stopped", revision |-> 0, duration |-> 0, position |-> 0,
                rate |-> 1, gain |-> 0, updates |-> 0, attached |-> FALSE]
  /\ output = NoOutput /\ pipe = NewPipeline /\ exporter = NoExport
  /\ troubled = FALSE /\ frozen = <<>> /\ calls = 0

---------------------------------------------------------------------------
(* WindowsPreviewAudioOutput: what a command may answer and leave.         *)
Answer(ok, o, p) == [ok |-> ok, out |-> o, pipe |-> p]
Command(o, p, answers) ==
  IF ~ o.on THEN {Answer(TRUE, o, p)}
  ELSE IF o.failure THEN {Answer(FALSE, o, p)} ELSE answers

(* The block frame of PipelinePlaybackDecoder: its time is cut off.        *)
Advance(o) == [o EXCEPT !.at = @ + TimeOf(Block)]

(* seek_locked: a failure leaves playing_ and failure_ alone, and the      *)
(* voice destroyed or useless. *)
SeekLocked(o, p, us, resume) ==
  LET bare == [o EXCEPT !.voice = FALSE, !.eof = FALSE, !.at = us]
      fed  == [Advance(bare) EXCEPT !.voice = TRUE]
  IN {Answer(FALSE, bare, RenderFails(p, "playback"))}
       \union UNION {
         IF q.block.copied = {}
         THEN {Answer(TRUE, [bare EXCEPT !.eof = TRUE, !.playing = resume], q)}
         ELSE {Answer(TRUE, [fed EXCEPT !.playing = resume], q)}
                \union {Answer(FALSE, [fed EXCEPT !.voice = v], q) : v \in BOOLEAN}
         : q \in Render(p, "playback", us, Block)}

PlayOutput(o, p) == Command(o, p,
  {Answer(~ f, [o EXCEPT !.playing = @ \/ ~ f, !.failure = f], p) : f \in {FALSE, o.voice}})
PauseOutput(o, p) == Command(o, p,
  {Answer(~ f, [o EXCEPT !.playing = FALSE, !.failure = f], p) : f \in {FALSE, o.voice}})
StopOutput(o, p) == Command(o, p, SeekLocked([o EXCEPT !.playing = FALSE], p, 0, FALSE))
SeekOutput(o, p, us) == Command(o, p, SeekLocked(o, p, us, o.playing))
RateOutput(o, p, rate) == Command(o, p,
  {Answer(~ f, [o EXCEPT !.rate = rate], p) : f \in {FALSE, o.voice}})

(* worker_loop: the next block, unless the device has enough; a block that *)
(* cannot be decoded or submitted is the end of the output.                *)
Feed ==
  LET failed == [output EXCEPT !.failure = TRUE, !.playing = FALSE]
  IN /\ output.on /\ output.playing /\ ~ output.failure /\ ~ output.eof /\ output.voice
     /\ \/ \E q \in Render(pipe, "playback", output.at, Block) :
             /\ pipe' = q
             /\ output' \in IF q.block.copied = {} THEN {[output EXCEPT !.eof = TRUE]}
                            ELSE {Advance(output), failed}
        \/ pipe' = RenderFails(pipe, "playback") /\ output' = failed
  /\ UNCHANGED <<session, exporter, troubled, frozen, calls>>

---------------------------------------------------------------------------
(* materialize_playback_position_locked: the clock has moved on by any     *)
(* amount; at the end of the timeline it pauses, whatever the output says. *)
Materialized(s, o) ==
  IF s.state # "playing" THEN {<<s, o>>}
  ELSE {<<[s EXCEPT !.position = t], o>> :
          t \in {t \in Times \union {s.position} :
                   t >= s.position /\ (s.duration = 0 \/ t < s.duration)}}
       \union {<<[s EXCEPT !.position = s.duration, !.state = "paused"], a.out>> :
                 a \in IF s.duration > 0 THEN PauseOutput(o, pipe) ELSE {}}

SessionCall == calls < MaxCalls /\ calls' = calls + 1
Keeps(answer) == /\ output' = answer.out /\ pipe' = answer.pipe
                 /\ troubled' = (troubled \/ ~ answer.ok)

(* digitor_timeline_session_publish: the pipeline first, so that a frozen  *)
(* one refuses before anything has changed.                                *)
PublishTimeline ==
  /\ SessionCall /\ (session.attached => CanPublish(pipe))
  /\ \E revision \in session.revision + 1..MaxRevision, duration \in Durations,
        m \in Materialized(session, output) :
       LET s == m[1]
           past == duration > 0 /\ s.position > duration
           t == [s EXCEPT !.revision = revision, !.duration = duration,
                          !.position = IF past THEN duration ELSE @,
                          !.state = IF past /\ @ = "playing" THEN "paused" ELSE @]
       IN /\ session' = t
          /\ output' \in IF s.state = t.state THEN {m[2]}
                         ELSE {a.out : a \in PauseOutput(m[2], pipe)}
          /\ pipe' = IF session.attached
                     THEN Publish(pipe, session.updates + 1, duration, session.gain) ELSE pipe
  /\ UNCHANGED <<exporter, troubled, frozen>>

(* What acquire_production_audio_media_pipeline finds once the session has *)
(* let its media go: the registry holds weak references, so the pipeline   *)
(* is a new one unless the exporter uses it.                               *)
Acquired == IF exporter.active THEN pipe ELSE NewPipeline

(* digitor_timeline_session_attach_media: the old media is gone first; a   *)
(* failure on the way leaves the session without any.                      *)
Attach ==
  /\ SessionCall
  /\ \/ session' = [session EXCEPT !.attached = FALSE] /\ output' = NoOutput /\ pipe' = Acquired
     \/ /\ CanPublish(Acquired)
        /\ \E a \in SeekLocked([NoOutput EXCEPT !.on = TRUE, !.rate = session.rate],
                      Publish(Acquired, session.updates + 1, session.duration, session.gain),
                      session.position, FALSE) :
             /\ a.ok
             /\ \E b \in IF session.state = "playing" THEN PlayOutput(a.out, a.pipe) ELSE {a} :
                  b.ok /\ output' = b.out /\ pipe' = b.pipe
        /\ session' = [session EXCEPT !.attached = TRUE]
  /\ troubled' = FALSE
  /\ UNCHANGED <<exporter, frozen>>

Detach ==
  /\ SessionCall /\ session.attached
  /\ session' = [session EXCEPT !.attached = FALSE]
  /\ output' = NoOutput /\ troubled' = FALSE /\ pipe' = Acquired
  /\ UNCHANGED <<exporter, frozen>>

Play ==
  /\ SessionCall /\ session.revision # 0
  /\ \E a \in PlayOutput(output, pipe) :
       /\ Keeps(a)
       /\ session' = IF a.ok THEN [session EXCEPT !.state = "playing"] ELSE session
  /\ UNCHANGED <<exporter, frozen>>

Pause ==
  /\ SessionCall
  /\ \E m \in Materialized(session, output) : \E a \in PauseOutput(m[2], pipe) :
       /\ Keeps(a)
       /\ session' = IF a.ok THEN [m[1] EXCEPT !.state = "paused"] ELSE m[1]
  /\ UNCHANGED <<exporter, frozen>>

Stop ==
  /\ SessionCall
  /\ \E a \in StopOutput(output, pipe) :
       /\ Keeps(a)
       /\ session' = IF a.ok THEN [session EXCEPT !.state = "stopped", !.position = 0]
                     ELSE session
  /\ UNCHANGED <<exporter, frozen>>

Seek ==
  /\ SessionCall
  /\ \E us \in {t \in Times : session.duration = 0 \/ t <= session.duration} :
       \E a \in SeekOutput(output, pipe, us) :
         /\ Keeps(a)
         /\ session' = IF a.ok THEN [session EXCEPT !.position = us] ELSE session
  /\ UNCHANGED <<exporter, frozen>>

(* Mutant: a refused snapshot leaves the new rate in the output. *)
RestoredNot(o, rate) == o

(* The rollback of set_audio_controls; its answer is not looked at.        *)
Restored(o, rate) == IF o.on /\ ~ o.failure THEN [o EXCEPT !.rate = rate] ELSE o

(* digitor_timeline_session_set_audio_controls: the rate of the output,    *)
(* then the snapshot of the next revision, then the session.               *)
SetControls ==
  /\ SessionCall /\ session.updates < MaxUpdates
  /\ \E rate \in Rates, gain \in Gains, m \in Materialized(session, output) :
       \E a \in RateOutput(m[2], pipe, rate) :
         LET refused == session.attached /\ ~ CanPublish(pipe)
             done == a.ok /\ ~ refused
         IN /\ session' = IF done THEN [m[1] EXCEPT !.rate = rate, !.gain = gain,
                                                    !.updates = @ + 1]
                          ELSE m[1]
            /\ output' = IF a.ok /\ refused THEN Restored(a.out, session.rate) ELSE a.out
            /\ pipe' = IF done /\ session.attached
                       THEN Publish(pipe, session.updates + 2, session.duration, gain)
                       ELSE pipe
            /\ troubled' = (troubled \/ ~ a.ok)
  /\ UNCHANGED <<exporter, frozen>>

GetStatus ==
  /\ \E m \in Materialized(session, output) : session' = m[1] /\ output' = m[2]
  /\ UNCHANGED <<pipe, exporter, troubled, frozen, calls>>

---------------------------------------------------------------------------
(* create_windows_unified_export_encoder freezes the revision the host     *)
(* names in its request; release_audio_revision ends that on every path,   *)
(* after a block that could not be rendered too.                           *)
BeginExport ==
  /\ SessionCall /\ ~ exporter.active
  /\ \E revision \in 1..MaxUpdates + 1 : CanFreeze(pipe, revision)
  /\ pipe' = Freeze(pipe) /\ frozen' = Snapshot(pipe)
  /\ \E origin \in Origins : exporter' = [active |-> TRUE, origin |-> origin, frames |-> 0]
  /\ UNCHANGED <<session, output, troubled>>

(* write_audio_until, up to the time of a video frame or the end: blocks   *)
(* follow each other by the count of samples.                              *)
ExportBlock ==
  /\ exporter.active
  /\ LET cursor == TimeOf(exporter.frames)
     IN \E target \in {t \in Times \union {ExportLength} : cursor < t /\ t <= ExportLength} :
          LET frames == Min({Block, AtOrAfter(target - cursor)})
          IN /\ pipe' \in Render(pipe, "export", exporter.origin + cursor, frames)
             /\ exporter' = [exporter EXCEPT !.frames = @ + frames]
  /\ UNCHANGED <<session, output, troubled, frozen, calls>>

EndExport ==
  /\ exporter.active
  /\ exporter' = NoExport /\ frozen' = <<>>
  /\ pipe' = IF session.attached THEN Thaw(pipe) ELSE NewPipeline
  /\ UNCHANGED <<session, output, troubled, calls>>

AudioNext ==
  \/ PublishTimeline \/ Attach \/ Detach \/ Play \/ Pause \/ Stop \/ Seek \/ SetControls
  \/ GetStatus \/ Feed \/ BeginExport \/ ExportBlock \/ EndExport

AudioSpec == AudioInit /\ [][AudioNext]_avars

---------------------------------------------------------------------------
RenderedIsSource == BlockIsSource(pipe)

(* The blocks of an export are the source from the first sample of its     *)
(* range on, none repeated and none left out, however they are cut and     *)
(* whatever is played in between (write_audio_until: the time of a block   *)
(* comes from the count of samples and is cut off below the sample). An    *)
(* export that begins between a sample and the next unit of time repeats   *)
(* one now and then: what was cut off takes it back over that sample.      *)
ExportIsContiguous ==
  [][exporter'.frames > exporter.frames =>
       pipe'.block.start = AtOrAfter(exporter.origin) + exporter.frames]_avars

(* "While the lock is held, UI/control publication is rejected instead of  *)
(* mutating an in-flight export" (production_audio_media_pipeline.hpp):    *)
(* the mix at the end of an export is the one that was frozen, whatever    *)
(* the session attaches, detaches, publishes or controls meanwhile.        *)
FrozenMix == exporter.active => pipe.locked /\ Snapshot(pipe) = frozen

(* What the preview plays and an export may freeze is what the session     *)
(* shows: revision, duration and gain, after any refusal or failure.       *)
PipelineMatchesSession ==
  session.attached => Snapshot(pipe) = <<session.updates + 1, session.duration, session.gain>>

(* An export keeps the mix it froze to its end, and what preview plays and *)
(* the next export may freeze is always the mix the session shows.         *)
MixIsFrozenOrShown == FrozenMix /\ PipelineMatchesSession

(* "Immutable revisioned render snapshots" (docs/PROFESSIONAL_AUDIO_ENGINE *)
(* _V5_42.md:11): while the session has its media, a revision of its       *)
(* pipeline keeps its mix, so that the revision an export is asked for     *)
(* names what was previewed under it. False of the code: PublishTimeline   *)
(* publishes another duration under the revision the controls had.         *)
RevisionNamesOneMix ==
  [][session.attached /\ session'.attached /\ pipe'.revision = pipe.revision =>
       Snapshot(pipe') = Snapshot(pipe)]_avars

(* The output plays exactly when the session says so, at its rate, as long *)
(* as the media reported no error: pauses at the end of the timeline and   *)
(* refused controls included.                                              *)
OutputFollowsSession ==
  session.attached /\ ~ troubled /\ ~ output.failure =>
    (output.playing <=> session.state = "playing") /\ output.rate = session.rate
=============================================================================
