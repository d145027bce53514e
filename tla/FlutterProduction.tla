------------------------- MODULE FlutterProduction -------------------------
(***************************************************************************)
(* The production path behind Flutter: the sessions of                     *)
(* src/ffi/flutter_production_c_api.cpp, called by several threads, over   *)
(* the one FlutterProductionHostAdapter the plugin registers, its          *)
(* ProductionMediaGraphRuntime, the encode session of an export and the    *)
(* presentation session the textures live in.                              *)
(*                                                                         *)
(* A call is a sequence of steps of its thread, cut where the code lets a  *)
(* mutex go: registry and session mutex are always taken together, the     *)
(* adapter has a mutex, the runtime another, encode and presentation       *)
(* session one each.  The graph and parameter revisions are one number.    *)
(***************************************************************************)
EXTENDS HardwareEncode, PreviewPresentation, FiniteSets

CONSTANTS Clients,      \* threads that call the C API
          Sessions,     \* the session objects that can be created
          Revisions,    \* graph revisions clients bind, in order
          Frames,       \* length of the exported range
          MaxCalls      \* bound: calls made in all

ASSUME FlutterAssumption == /\ Revisions \subseteq Nat \ {0} /\ Frames \in Nat \ {0}
                            /\ MaxCalls \in Nat /\ 0 \notin Sessions

VARIABLES registered,   \* g_registered_host
          registry,     \* g_flutter_sessions
          session,      \* per session: graph (0: none bound), held (generation of
                        \* current_preview, 0: none), active (active_operation)
          adapter,      \* opened, decoder (pending_decoder), generation
          runtime,      \* id (0: none), graph, cancelled_, exporting (active_export_)
          encoder,      \* the encode session of the running export
          presented,    \* the presentation session
          thread,       \* per client: at, its session s, the graph revision it copied,
                        \* the runtime rt it holds, the generation gen, the result res
          calls,        \* calls made
          dropped,      \* history: pending generations that went before their release
          stopped       \* history: cancel() ran through on the running, unfinished export

api == <<registered, registry, session>>
host == <<adapter, runtime, encoder, presented>>
ghosts == <<dropped, stopped>>
vars == <<api, host, thread, calls, ghosts>>

NoSession == [graph |-> 0, held |-> 0, active |-> FALSE]
ClosedAdapter == [opened |-> FALSE, decoder |-> FALSE, generation |-> 0]
NoRuntime == [id |-> 0, graph |-> 0, cancelled |-> FALSE, exporting |-> FALSE]
IdleThread == [at |-> "idle", s |-> 0, graph |-> 0, rt |-> 0, gen |-> 0, res |-> "none"]

Init ==
  /\ registered = FALSE /\ registry = {} /\ session = [s \in Sessions |-> NoSession]
  /\ adapter = ClosedAdapter /\ runtime = NoRuntime
  /\ encoder = NewEncoder /\ presented = NothingPresented
  /\ thread = [t \in Clients |-> IdleThread] /\ calls = 0
  /\ dropped = {} /\ stopped = FALSE

At(t, where) == thread[t].at = where
Go(t, where) == thread' = [thread EXCEPT ![t].at = where]
Return(t) == thread' = [thread EXCEPT ![t] = IdleThread]

\* A call that gets past its checks: one more call, and the thread has begun it.
Call(t, first) ==
  /\ At(t, "idle") /\ calls < MaxCalls
  /\ calls' = calls + 1
  /\ thread' = [thread EXCEPT ![t] = first]

-----------------------------------------------------------------------------
(* Registration of the host and the life of a session. *)

RegisterHost == ~registered /\ registered' = TRUE
                /\ UNCHANGED <<registry, session, host, thread, calls, ghosts>>

UnregisterHost == registered /\ registry = {} /\ registered' = FALSE
                  /\ UNCHANGED <<registry, session, host, thread, calls, ghosts>>

\* Objects that were never created, are not being created and are not used up.
Unborn(s) == s \notin registry /\ session[s] = NoSession /\ \A t \in Clients : thread[t].s # s

\* create_registered copies the host and lets its lock go.
Create(t, s) ==
  /\ registered /\ Unborn(s)
  /\ Call(t, [IdleThread EXCEPT !.at = "open", !.s = s])
  /\ UNCHANGED <<api, host, ghosts>>

\* Mutant of CanOpen: open_media replaces what is open.
CanReopen == TRUE

CanOpen == ~adapter.opened

\* open_media: one media at a time; the decoder factory may fail, too.
Open(t) ==
  /\ At(t, "open")
  /\ \/ Return(t) /\ UNCHANGED adapter
     \/ /\ CanOpen /\ Go(t, "insert")
        /\ adapter' = [adapter EXCEPT !.opened = TRUE, !.decoder = TRUE]
  /\ UNCHANGED <<api, runtime, encoder, presented, calls, ghosts>>

Insert(t) ==
  /\ At(t, "insert")
  /\ registry' = registry \cup {thread[t].s}
  /\ Return(t)
  /\ UNCHANGED <<registered, session, host, calls, ghosts>>

Busy(s) == session[s].active \/ session[s].held # 0

\* Mutant of CanDestroy: destroy looks at the registry only.
CanDestroyBusy(s) == s \in registry

CanDestroy(s) == s \in registry /\ ~session[s].active

\* destroy unlinks the session under the locks, the rest follows without them.
Destroy(t, s) ==
  /\ CanDestroy(s)
  /\ registry' = registry \ {s}
  /\ Call(t, [IdleThread EXCEPT !.at = IF session[s].held # 0 THEN "release" ELSE "close",
                                !.s = s, !.gen = session[s].held, !.res = "destroy"])
  /\ session' = [session EXCEPT ![s].held = 0]
  /\ UNCHANGED <<registered, host, ghosts>>

\* close_media: cancels and frees the runtime; the presentation session stays.
Close(t) ==
  /\ At(t, "close")
  /\ adapter' = ClosedAdapter /\ runtime' = NoRuntime
  /\ encoder' = IF runtime.exporting THEN EncodeCancelled(encoder) ELSE encoder
  /\ session' = [session EXCEPT ![thread[t].s] = NoSession]
  /\ Return(t)
  /\ UNCHANGED <<registered, registry, presented, calls, ghosts>>

\* bind_node_graph: revisions never move backwards.
Bind(t, s, r) ==
  /\ s \in registry /\ ~Busy(s) /\ r >= session[s].graph
  /\ session' = [session EXCEPT ![s].graph = r]
  /\ Call(t, IdleThread)
  /\ UNCHANGED <<registered, registry, host, ghosts>>

-----------------------------------------------------------------------------
(* What previews and exports share. *)

\* An operation begins on a session that has a graph and nothing active or unconsumed.
Begin(t, s, where) ==
  /\ s \in registry /\ session[s].graph # 0 /\ ~Busy(s)
  /\ session' = [session EXCEPT ![s].active = TRUE]
  /\ Call(t, [IdleThread EXCEPT !.at = where, !.s = s, !.graph = session[s].graph])
  /\ UNCHANGED <<registered, registry, host, ghosts>>

BoundRuntime(t) == runtime.id # 0 /\ runtime.graph = thread[t].graph

\* ensure_runtime: the runtime of the same graph, or a new one (named by the
\* call that needs it), made from the decoder of open_media or from a fresh one.
EnsureRuntime(t) ==
  runtime' = IF BoundRuntime(t) THEN runtime
             ELSE [NoRuntime EXCEPT !.id = calls, !.graph = thread[t].graph]

\* The decoder factory or the runtime's constructor fails: the old runtime is gone.
NoDecoder(t) == /\ ~BoundRuntime(t) /\ runtime' = NoRuntime

\* The C API's second half of a call: the session is free again.
Free(t, held) == session' = [session EXCEPT ![thread[t].s].active = FALSE,
                                            ![thread[t].s].held = held]

-----------------------------------------------------------------------------
(* preview, preview_consumed. *)

Preview(t, s) == Begin(t, s, "render")

\* render_frame of the adapter reserves the generation with the runtime.
Render(t) ==
  /\ At(t, "render")
  /\ \/ /\ NoDecoder(t) /\ Go(t, "previewFailed") /\ adapter' = [adapter EXCEPT !.decoder = FALSE]
     \/ /\ EnsureRuntime(t)
        /\ adapter' = [adapter EXCEPT !.decoder = @ /\ BoundRuntime(t), !.generation = @ + 1]
        /\ thread' = [thread EXCEPT ![t].at = "present", ![t].rt = runtime'.id,
                                    ![t].gen = adapter.generation + 1]
  /\ UNCHANGED <<api, encoder, presented, calls, ghosts>>

\* Generations whose release is on its way: behind the displayed frame, a pending
\* one of them can be replaced before its release comes.
Releasing == {thread[u].gen : u \in {u \in Clients : At(u, "release")}}

\* preview_at_timestamp: a cancelled runtime, the decoder, the graph or the
\* presenter refuses, or the presentation session has the frame.
Present(t) ==
  /\ At(t, "present")
  /\ \/ Go(t, "previewFailed") /\ UNCHANGED <<presented, dropped>>
     \/ \E shown \in BOOLEAN :
          /\ ~runtime.cancelled /\ FrameAccepted(presented, thread[t].gen, shown)
          /\ presented' = FrameSubmitted(presented, thread[t].gen, shown)
          /\ dropped' = dropped \cup (Releasing \cap {presented.pending})
          /\ Go(t, "describe")
  /\ UNCHANGED <<api, adapter, runtime, encoder, calls, stopped>>

\* The descriptor is built, or the frame is given back (wrong dimensions, builder
\* refused), or the builder throws and the frame stays where it is.
Describe(t) ==
  /\ At(t, "describe")
  /\ \/ Go(t, "previewEnd") /\ UNCHANGED <<presented, dropped>>
     \/ Go(t, "previewFailed") /\ UNCHANGED <<presented, dropped>>
     \/ \E shown \in BOOLEAN :
          /\ presented' = FrameConsumed(presented, thread[t].gen, shown)
          /\ dropped' = dropped \cup FrameDropped(presented, thread[t].gen, shown)
          /\ Go(t, "previewFailed")
  /\ UNCHANGED <<api, adapter, runtime, encoder, calls, stopped>>

\* A valid texture is held until it is consumed; an invalid one is released,
\* unless it has no handle.
PreviewEnd(t) ==
  /\ At(t, "previewEnd")
  /\ \/ Free(t, thread[t].gen) /\ Return(t)
     \/ Free(t, 0) /\ Go(t, "release")
     \/ Free(t, 0) /\ Return(t)
  /\ UNCHANGED <<registered, registry, host, calls, ghosts>>

PreviewFailed(t) ==
  /\ At(t, "previewFailed") /\ Free(t, 0) /\ Return(t)
  /\ UNCHANGED <<registered, registry, host, calls, ghosts>>

\* Mutant of Taken: preview_consumed leaves has_current_preview set.
StillHeld(s) == session

Taken(s) == [session EXCEPT ![s].held = 0]

\* preview_consumed takes the texture of the generation the client names ...
Consume(t, s) ==
  /\ s \in registry /\ session[s].held # 0
  /\ session' = Taken(s)
  /\ Call(t, [IdleThread EXCEPT !.at = "release", !.s = s, !.gen = session[s].held])
  /\ UNCHANGED <<registered, registry, host, ghosts>>

\* ... and releases it after the locks are gone.
Release(t) ==
  /\ At(t, "release")
  /\ \E shown \in BOOLEAN :
       /\ presented' = FrameConsumed(presented, thread[t].gen, shown)
       /\ dropped' = dropped \cup FrameDropped(presented, thread[t].gen, shown)
  /\ IF thread[t].res = "destroy" THEN Go(t, "close") ELSE Return(t)
  /\ UNCHANGED <<api, adapter, runtime, encoder, calls, stopped>>

-----------------------------------------------------------------------------
(* export, export_v2 and cancel. *)

\* V2 also compares the frozen revisions, which refuses without a trace.
Export(t, s) == Begin(t, s, "prepare")

\* Refused (no encoder, another recipe, no decoder, encoder_factory), or the runtime is there.
Prepare(t) ==
  /\ At(t, "prepare")
  /\ \/ Go(t, "exportEnd") /\ UNCHANGED <<runtime, adapter>>
     \/ NoDecoder(t) /\ Go(t, "exportEnd") /\ adapter' = [adapter EXCEPT !.decoder = FALSE]
     \/ /\ EnsureRuntime(t)
        /\ adapter' = [adapter EXCEPT !.decoder = @ /\ BoundRuntime(t)]
        /\ thread' = [thread EXCEPT ![t].at = "check", ![t].rt = runtime'.id]
  /\ UNCHANGED <<api, encoder, presented, calls, ghosts>>

\* export_frames_with_encoder: cancelled_, the graph, the seek to 0.
Check(t) ==
  /\ At(t, "check")
  /\ \/ Go(t, "exportEnd")
     \/ ~runtime.cancelled /\ Go(t, "activate")
  /\ UNCHANGED <<api, host, calls, ghosts>>

Activate(t) ==
  /\ At(t, "activate")
  /\ runtime' = [runtime EXCEPT !.exporting = TRUE]
  /\ encoder' = NewEncoder /\ stopped' = FALSE
  /\ Go(t, "start")
  /\ UNCHANGED <<api, adapter, presented, calls, dropped>>

StartEncoder(t) ==
  /\ At(t, "start")
  /\ \E ok \in BOOLEAN : encoder' = EncodeStarted(encoder, ok)
  /\ Go(t, IF encoder'.state = "running" THEN "frame" ELSE "clear")
  /\ UNCHANGED <<api, adapter, runtime, presented, calls, ghosts>>

\* A clean end of stream ends the range once a frame is submitted.
EndsAtEos == encoder.frames > 0

\* One iteration of the frame loop up to the submission.
ExportFrame(t) ==
  /\ At(t, "frame")
  /\ \/ /\ runtime.cancelled /\ encoder' = EncodeCancelled(encoder) /\ Go(t, "clear")
     \/ /\ ~runtime.cancelled
        /\ \/ encoder' = EncodeCancelled(encoder) /\ Go(t, "clear")
           \/ EndsAtEos /\ Go(t, "finish") /\ UNCHANGED encoder
           \/ Go(t, "submit") /\ UNCHANGED encoder
  /\ UNCHANGED <<api, adapter, runtime, presented, calls, ghosts>>

\* A refused submission also cancels the encoder, which by then has failed.
Submit(t) ==
  /\ At(t, "submit")
  /\ \E ok \in BOOLEAN : encoder' = EncodeSubmitted(encoder, ok)
  /\ Go(t, IF encoder'.state # "running" THEN "clear"
           ELSE IF encoder'.frames = Frames THEN "finish" ELSE "frame")
  /\ UNCHANGED <<api, adapter, runtime, presented, calls, ghosts>>

Finish(t) ==
  /\ At(t, "finish")
  /\ \E ok \in BOOLEAN : encoder' = EncodeFinished(encoder, ok)
  /\ thread' = [thread EXCEPT ![t].at = "clear",
                              ![t].res = IF encoder'.state = "completed" THEN "ok" ELSE "none"]
  /\ UNCHANGED <<api, adapter, runtime, presented, calls, ghosts>>

\* The progress callback throws: the encode session is destroyed by the unwinding,
\* and only then is active_export_ cleared.
ProgressThrows(t) ==
  /\ thread[t].at \in {"frame", "finish"}
  /\ encoder' = EncodeDestroyed(encoder) /\ Go(t, "clear")
  /\ UNCHANGED <<api, adapter, runtime, presented, calls, ghosts>>

ClearActive(t) ==
  /\ At(t, "clear")
  /\ runtime' = [runtime EXCEPT !.exporting = FALSE]
  /\ Go(t, "exportEnd")
  /\ UNCHANGED <<api, adapter, encoder, presented, calls, ghosts>>

\* V2 turns a finished export without zero-copy qualification into an error.
ExportEnd(t) ==
  /\ At(t, "exportEnd") /\ Free(t, 0) /\ Return(t)
  /\ UNCHANGED <<registered, registry, host, calls, ghosts>>

Cancel(t, s) ==
  /\ s \in registry
  /\ Call(t, [IdleThread EXCEPT !.at = "lookup"])
  /\ UNCHANGED <<api, host, ghosts>>

\* The adapter's cancel reads the runtime's address under its lock ...
Lookup(t) ==
  /\ At(t, "lookup")
  /\ IF runtime.id = 0 THEN Return(t)
     ELSE thread' = [thread EXCEPT ![t].at = "flag", ![t].rt = runtime.id]
  /\ UNCHANGED <<api, host, calls, ghosts>>

\* ... and uses it without: the runtime may be gone by then, which nothing stops.
Flag(t) ==
  /\ At(t, "flag") /\ Go(t, "cancelEncoder")
  /\ runtime' = IF runtime.id = thread[t].rt THEN [runtime EXCEPT !.cancelled = TRUE] ELSE runtime
  /\ UNCHANGED <<api, adapter, encoder, presented, calls, ghosts>>

CancelEncoder(t) ==
  /\ At(t, "cancelEncoder") /\ Return(t)
  /\ IF runtime.id = thread[t].rt /\ runtime.exporting
     THEN /\ encoder' = EncodeCancelled(encoder)
          /\ stopped' = (stopped \/ encoder.state # "completed")
     ELSE UNCHANGED <<encoder, stopped>>
  /\ UNCHANGED <<api, adapter, runtime, presented, calls, dropped>>

-----------------------------------------------------------------------------
SessionStep(t) == \/ Open(t) \/ Insert(t) \/ Close(t) \/ Release(t)
                  \/ \E s \in Sessions : Create(t, s) \/ Destroy(t, s) \/ Consume(t, s)
                                         \/ Preview(t, s) \/ Export(t, s) \/ Cancel(t, s)
                                         \/ \E r \in Revisions : Bind(t, s, r)
PreviewStep(t) == Render(t) \/ Present(t) \/ Describe(t) \/ PreviewEnd(t) \/ PreviewFailed(t)
ExportStep(t) == \/ Prepare(t) \/ Check(t) \/ Activate(t) \/ StartEncoder(t) \/ ExportFrame(t)
                 \/ Submit(t) \/ Finish(t) \/ ProgressThrows(t) \/ ClearActive(t) \/ ExportEnd(t)
CancelStep(t) == Lookup(t) \/ Flag(t) \/ CancelEncoder(t)

Next == \/ RegisterHost \/ UnregisterHost
        \/ \E t \in Clients : SessionStep(t) \/ PreviewStep(t) \/ ExportStep(t) \/ CancelStep(t)

Spec == Init /\ [][Next]_vars

-----------------------------------------------------------------------------
Places == {"idle", "open", "insert", "release", "close", "render", "present", "describe",
           "previewEnd", "previewFailed", "prepare", "check", "activate", "start", "frame",
           "submit", "finish", "clear", "exportEnd", "lookup", "flag", "cancelEncoder"}

SessionType == [graph : Revisions \cup {0}, held : Nat, active : BOOLEAN]
AdapterType == [opened : BOOLEAN, decoder : BOOLEAN, generation : Nat]
RuntimeType == [id : Nat, graph : Revisions \cup {0}, cancelled : BOOLEAN, exporting : BOOLEAN]
ThreadType  == [at : Places, s : Sessions \cup {0}, graph : Revisions \cup {0}, rt : Nat,
                gen : Nat, res : {"none", "destroy", "ok"}]

TypeOK ==
  /\ registered \in BOOLEAN /\ registry \subseteq Sessions
  /\ session \in [Sessions -> SessionType] /\ adapter \in AdapterType /\ runtime \in RuntimeType
  /\ encoder \in Encoders /\ presented \in Presentations
  /\ thread \in [Clients -> ThreadType]
  /\ calls \in Nat /\ dropped \subseteq Nat /\ stopped \in BOOLEAN

\* Where an operation runs on the runtime it got from ensure_runtime.
InRuntime == {"present", "describe", "check", "activate", "start", "frame", "submit",
              "finish", "clear"}

\* A preview or an export keeps the runtime it works on: neither destroy's
\* close_media nor another operation's ensure_runtime frees it meanwhile.
OperationKeepsRuntime ==
  \A t \in Clients : thread[t].at \in InRuntime => runtime.id = thread[t].rt

\* The texture a client holds is alive: the presentation session displays its
\* frame or has it pending, until the client consumes it.  Consumptions of other
\* threads, failed previews and reopened media do not take it away; only a host
\* that refuses to display the pending frame does, or the late release of a frame
\* of earlier media, replaced by then, that had the same number.
HeldTextureIsAlive ==
  \A s \in registry : session[s].held # 0 =>
    session[s].held \in {presented.current, presented.pending} \cup dropped

\* A cancel that ran through before the export was finished stops it, wherever
\* it fell between the tests of cancelled_: nothing is finalized and the export
\* does not report success.
CancelStops == stopped => ~encoder.finalized /\ \A t \in Clients : thread[t].res # "ok"

\* The encoder an export leaves behind was finalized or aborted, never both,
\* unless it refused something itself; success means finalized with a frame in it.
EncoderResolved ==
  /\ ~(encoder.finalized /\ encoder.aborted)
  /\ \A t \in Clients :
       /\ At(t, "exportEnd") /\ encoder.opened =>
            encoder.finalized \/ encoder.aborted \/ encoder.state = "failed"
       /\ thread[t].res = "ok" => encoder.finalized /\ encoder.frames > 0

\* However cancels, refusals, throwing callbacks and the end of the stream race,
\* an export ends the way it was asked to and says so.
ExportEndsAsAsked == CancelStops /\ EncoderResolved

\* The header lets the host's owner go once the host is unregistered and all
\* sessions are destroyed: no call into the host is under way or still comes.
HostCallsEnd ==
  ~registered /\ (\A s \in Sessions : s \notin registry /\ session[s] = NoSession) =>
    \A t \in Clients : ~At(t, "open")
=============================================================================
