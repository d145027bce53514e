-------------------------- MODULE EditorWorkspace --------------------------
(***************************************************************************)
(* The Dart editor over the Flutter production path: the controller        *)
(* (editor_controller.dart), its workspace (editor_workspace.dart), the    *)
(* production session it opens (registered_production_session.dart) and    *)
(* the texture host of the plugin on the other side of a method channel.   *)
(*                                                                         *)
(* Dart runs on one thread: a call is cut at its awaits, and each await    *)
(* here is a message to the host.  Messages are handled, and their replies *)
(* resumed, in the order they were sent.  Android shows a frame by         *)
(* rendering into the texture first (renderTarget), Windows hands the      *)
(* frame to the texture.                                                   *)
(***************************************************************************)
EXTENDS Naturals, Sequences

CONSTANTS Previews,      \* calls of renderPreview that can be under way at once
          Sizes,         \* sizes a preview asks for
          MaxPreviews, MaxOpens, MaxFaults   \* bounds: calls made, failures

ASSUME EditorAssumption == /\ Sizes # {} /\ 0 \notin Previews \cup Sizes
                           /\ {MaxPreviews, MaxOpens, MaxFaults} \subseteq Nat

VARIABLES renderTarget,  \* what the platform's capabilities say
          production,    \* _productionSession: 0 is null, else its number
          bindings,      \* _productionBindings of the node graph
          generation,    \* the native adapter's count of previews
          outstanding,   \* _outstandingPreviewGeneration, 0 is null
          target,        \* _previewTexture (id 0 is null) with its size
          preview,       \* per call: at (the await it is in), size, texture, generation, session
          closing,       \* "open", "first" and "second" release, "closed", or "threw"
          shown,         \* state.textureId (0 is null) and the session of its frame
          requests,      \* the channel: messages the host has not handled
          replies,       \* ... and those Dart has not resumed
          textures,      \* hosts of the plugin: id -> generation it shows
          created,       \* ids the registry has given out
          asked, opens, faults,   \* previews and opens begun, failures so far
          overlapped     \* history: a call began that disturbs one under way

native  == <<production, bindings, generation, outstanding>>
plugin  == <<textures, created>>
wires   == <<requests, replies>>
bounds  == <<asked, opens, faults>>
evars   == <<renderTarget, native, target, preview, closing, shown, wires, plugin, bounds,
            overlapped>>

Idle     == [at |-> "idle", size |-> 0, texture |-> 0, generation |-> 0, session |-> 0]
NoTarget == [id |-> 0, size |-> 0]
NoFrame  == [texture |-> 0, session |-> 0]

EditorInit ==
  /\ renderTarget \in BOOLEAN
  /\ production = 0 /\ bindings = 0 /\ generation = 0 /\ outstanding = 0
  /\ target = NoTarget /\ preview = [p \in Previews |-> Idle]
  /\ closing = "open" /\ shown = NoFrame
  /\ requests = <<>> /\ replies = <<>> /\ textures = <<>> /\ created = 0
  /\ asked = 0 /\ opens = 0 /\ faults = 0 /\ overlapped = FALSE

UnderWay == {p \in Previews : preview[p].at # "idle"}
Fault    == faults < MaxFaults /\ faults' = faults + 1

Message(p, does, texture, gen) ==
  [from |-> p, does |-> does, texture |-> texture, generation |-> gen, ok |-> TRUE]

-----------------------------------------------------------------------------
(* Opening media replaces the production session without an await. *)

(* dispose() consumes the preview still out; close_media restarts the count. *)
DisposeSession ==
  /\ outstanding' = 0
  /\ generation'  = IF production = 0 THEN generation ELSE 0

Dropped == IF production = 0 THEN bindings ELSE bindings - 1

(* The session was opened and the timeline may refuse the media (attach).  *)
Opened ==
  /\ production' = opens + 1 /\ bindings' = Dropped + 1
  /\ \/ shown' = NoFrame /\ UNCHANGED faults
     \/ Fault /\ UNCHANGED shown

(* Mutant: a graph that cannot be bound keeps the hold of the session.     *)
OpenFailedHolding ==
  /\ Fault /\ production' = 0 /\ bindings' = Dropped + 1 /\ UNCHANGED shown

(* The native session cannot be created, or refuses the graph.             *)
OpenFailed ==
  /\ Fault /\ production' = 0 /\ bindings' = Dropped /\ UNCHANGED shown

OpenMedia ==
  /\ closing = "open" /\ opens < MaxOpens
  /\ opens' = opens + 1
  /\ DisposeSession /\ (Opened \/ OpenFailed)
  /\ overlapped' = (overlapped \/ UnderWay # {})
  /\ UNCHANGED <<renderTarget, target, preview, closing, wires, plugin, asked>>

(* export() runs to its end at once; it consumes the preview still out. An *)
(* export of a graph edited since is refused before that.                  *)
ExportMedia ==
  /\ closing = "open" /\ production # 0 /\ outstanding # 0
  /\ outstanding' = 0
  /\ overlapped' = TRUE
  /\ UNCHANGED <<renderTarget, production, bindings, generation, target, preview, closing,
                 shown, wires, plugin, bounds>>

-----------------------------------------------------------------------------
(* renderPreview and presentPreview, from await to await. *)

Goes(p, at)   == preview' = [preview EXCEPT ![p].at = at]
Fails(p)      == preview' = [preview EXCEPT ![p] = Idle]
Send(message) == requests' = Append(requests, message)

(* A texture of another size is disposed of before the next is created.    *)
NeedsTexture(size) == target.id = 0 \/ target.size # size

(* Mutant: the texture of another size is forgotten. *)
SendsForTextureOnly(p, call) ==
  /\ Send(Message(p, "create", 0, 0))
  /\ preview' = [preview EXCEPT ![p] = [call EXCEPT !.at = "create"]]

SendsForTexture(p, call) ==
  IF target.id # 0
  THEN /\ Send(Message(p, "dispose", target.id, 0))
       /\ preview' = [preview EXCEPT ![p] = [call EXCEPT !.at = "dispose"]]
  ELSE /\ Send(Message(p, "create", 0, 0))
       /\ preview' = [preview EXCEPT ![p] = [call EXCEPT !.at = "create"]]

SendsFrame(p, call, texture) ==
  /\ Send(Message(p, "frame", texture, call.generation))
  /\ preview' = [preview EXCEPT ![p] = [call EXCEPT !.at = "frame", !.texture = texture]]

(* "Consume the current preview before requesting another."                *)
Accepts == production # 0 /\ outstanding = 0

(* The native preview counts even when it fails.                           *)
Renders       == generation' = generation + 1 /\ outstanding' = generation'
                 /\ UNCHANGED <<production, bindings>>
RenderFails   == Fault /\ generation' = generation + 1
                 /\ UNCHANGED <<production, bindings, outstanding>>
Rendered(call) == [call EXCEPT !.generation = generation + 1, !.session = production]

(* A call that cannot start throws and leaves everything as it was.        *)
RenderPreview(p, size) ==
  /\ closing = "open" /\ production # 0 /\ preview[p] = Idle /\ asked < MaxPreviews
  /\ asked' = asked + 1
  /\ LET call == [Idle EXCEPT !.size = size]
     IN IF renderTarget
        THEN /\ IF NeedsTexture(size) THEN SendsForTexture(p, call)
                ELSE /\ Send(Message(p, "refresh", target.id, 0))
                     /\ preview' = [preview EXCEPT ![p] = [call EXCEPT !.at = "refresh"]]
             /\ UNCHANGED <<native, faults>>
        ELSE /\ Accepts
             /\ \/ /\ Renders /\ UNCHANGED faults
                   /\ IF NeedsTexture(size) THEN SendsForTexture(p, Rendered(call))
                      ELSE SendsFrame(p, Rendered(call), target.id)
                \/ RenderFails /\ UNCHANGED <<preview, requests>>
  /\ overlapped' = (overlapped \/ (renderTarget /\ UnderWay # {}))
  /\ UNCHANGED <<renderTarget, target, closing, shown, replies, plugin, opens>>

(* finally: the frame of the call is consumed in the session there is now: *)
(* none throws, one with nothing out agrees, one with another frame throws.*)
Consumes(p) ==
  outstanding' = IF production # 0 /\ outstanding = preview[p].generation THEN 0 ELSE outstanding
Consumed(p) == production # 0 /\ outstanding \in {0, preview[p].generation}

(* Mutant: without the finally, a failed presentation consumes nothing. *)
PreviewEndsUnfinally(p, presented) ==
  /\ IF presented THEN Consumes(p) ELSE UNCHANGED outstanding
  /\ shown' = IF presented /\ Consumed(p) /\ closing = "open"
              THEN [texture |-> preview[p].texture, session |-> preview[p].session] ELSE shown
  /\ Fails(p)
  /\ UNCHANGED <<production, bindings, generation, target, requests, faults>>

(* What was presented is shown unless the controller is closed by now.     *)
PreviewEnds(p, presented) ==
  /\ Consumes(p)
  /\ shown' = IF presented /\ Consumed(p) /\ closing = "open"
              THEN [texture |-> preview[p].texture, session |-> preview[p].session] ELSE shown
  /\ Fails(p)
  /\ UNCHANGED <<production, bindings, generation, target, requests, faults>>

(* The texture is there.  Android now renders into its window, if there is *)
(* one and the session takes another preview; Windows hands its frame over.*)
HasTexture(p, texture, size, window) ==
  /\ target' = [id |-> texture, size |-> size]
  /\ IF ~ renderTarget
     THEN SendsFrame(p, preview[p], texture) /\ UNCHANGED <<native, faults>>
     ELSE IF window /\ Accepts
     THEN \/ Renders /\ SendsFrame(p, Rendered(preview[p]), texture) /\ UNCHANGED faults
          \/ RenderFails /\ Fails(p) /\ UNCHANGED requests
     ELSE Fails(p) /\ UNCHANGED <<native, requests, faults>>
  /\ UNCHANGED shown

(* The reply to the await a preview is in.  An error ends the call; on     *)
(* Windows a frame is out from the start and consumed.                     *)
Resume(p, reply) ==
  /\ reply.from = p
  /\ CASE reply.does = "frame" \/ ~ reply.ok -> PreviewEnds(p, reply.ok)
       [] reply.ok /\ reply.does = "dispose" ->
            /\ Send(Message(p, "create", 0, 0)) /\ Goes(p, "create")
            /\ UNCHANGED <<native, target, shown, faults>>
       [] reply.ok /\ reply.does = "create" ->
            HasTexture(p, reply.texture, preview[p].size, reply.generation = 0)
       [] reply.ok /\ reply.does = "refresh" ->
            HasTexture(p, reply.texture, target.size, reply.generation = 0)
  /\ UNCHANGED closing

-----------------------------------------------------------------------------
(* close() and dispose(): the controller is disposed of at once, then the  *)
(* session and the texture are released, once by it and once more by the   *)
(* workspace, which closes the graph and the engine after that. *)

Closer == 0

(* The graph cannot be disposed of while a session holds it. *)
Finishes == closing' = IF bindings' = 0 THEN "closed" ELSE "threw"

(* One release, and what follows it when there is no texture to await.     *)
Releases(next) ==
  /\ DisposeSession /\ production' = 0 /\ bindings' = Dropped
  /\ target' = NoTarget
  /\ IF target.id # 0
     THEN Send(Message(Closer, "dispose", target.id, 0)) /\ closing' = next
     ELSE Finishes /\ UNCHANGED requests

CloseEditor ==
  /\ closing = "open" /\ Releases("first")
  /\ overlapped' = (overlapped \/ UnderWay # {})
  /\ UNCHANGED <<renderTarget, preview, shown, replies, plugin, bounds>>

ResumeClose(reply) ==
  /\ reply.from = Closer
  /\ IF closing = "first" THEN Releases("second")
     ELSE UNCHANGED <<native, target, requests>> /\ Finishes
  /\ UNCHANGED <<preview, shown, faults>>

DartResumes ==
  /\ replies # <<>> /\ replies' = Tail(replies)
  /\ ResumeClose(Head(replies)) \/ \E p \in Previews : Resume(p, Head(replies))
  /\ UNCHANGED <<renderTarget, plugin, asked, opens, overlapped>>

-----------------------------------------------------------------------------
(* The plugin handles the next message.  A texture without a window is     *)
(* told by a handle of 0, here generation 1 in the reply.                  *)

Registered(id) == id \in DOMAIN textures

Disposes(m) ==
  /\ textures' = [id \in DOMAIN textures \ {m.texture} |-> textures[id]]
  /\ replies' = Append(replies, m)
  /\ UNCHANGED <<created, faults>>

Creates(m) ==
  \/ /\ created' = created + 1
     /\ textures' = [id \in DOMAIN textures \cup {created'} |->
                       IF id = created' THEN 0 ELSE textures[id]]
     /\ \/ replies' = Append(replies, [m EXCEPT !.texture = created']) /\ UNCHANGED faults
        \/ /\ renderTarget /\ Fault
           /\ replies' = Append(replies, [m EXCEPT !.texture = created', !.generation = 1])
  \/ Fault /\ replies' = Append(replies, [m EXCEPT !.ok = FALSE]) /\ UNCHANGED plugin

Refreshes(m) ==
  /\ \/ replies' = Append(replies, [m EXCEPT !.ok = Registered(m.texture)]) /\ UNCHANGED faults
     \/ /\ Registered(m.texture) /\ Fault
        /\ replies' = Append(replies, [m EXCEPT !.generation = 1])
  /\ UNCHANGED plugin

(* "Preview generations must increase."                                    *)
Newer(m) == Registered(m.texture) /\ m.generation > textures[m.texture]

ShowsFrame(m) ==
  \/ /\ Newer(m) /\ textures' = [textures EXCEPT ![m.texture] = m.generation]
     /\ replies' = Append(replies, m) /\ UNCHANGED <<created, faults>>
  \/ /\ ~ Newer(m)
     /\ replies' = Append(replies, [m EXCEPT !.ok = FALSE]) /\ UNCHANGED <<plugin, faults>>
  \/ /\ Newer(m) /\ Fault
     /\ replies' = Append(replies, [m EXCEPT !.ok = FALSE]) /\ UNCHANGED plugin

HostHandles ==
  /\ requests # <<>> /\ requests' = Tail(requests)
  /\ LET m == Head(requests)
     IN \/ m.does = "dispose" /\ Disposes(m)
        \/ m.does = "create"  /\ Creates(m)
        \/ m.does = "refresh" /\ Refreshes(m)
        \/ m.does = "frame"   /\ ShowsFrame(m)
  /\ UNCHANGED <<renderTarget, native, target, preview, closing, shown, asked, opens,
                 overlapped>>

EditorNext ==
  \/ OpenMedia \/ ExportMedia \/ CloseEditor \/ DartResumes \/ HostHandles
  \/ \E p \in Previews, size \in Sizes : RenderPreview(p, size)

EditorSpec == EditorInit /\ [][EditorNext]_evars

-----------------------------------------------------------------------------
(* A frame that is out will be consumed by the call that rendered it: else *)
(* every later preview, rebinding and export of the session is refused     *)
(* ("Consume the current preview before ..."). Whatever overlaps or fails. *)
OutstandingHasOwner ==
  outstanding # 0 =>
    \E p \in UnderWay : preview[p].at # "refresh" /\ preview[p].generation = outstanding

(* A frame is still held when the host comes to show it, as Windows asks   *)
(* (docs/windows-native-provider.md:17, RetainD3d11Texture).               *)
PresentedFrameIsHeld ==
  \A i \in DOMAIN requests : requests[i].does = "frame" =>
    \E p \in UnderWay : /\ requests[i].from = p /\ preview[p].session = production
                        /\ requests[i].generation = outstanding

(* Each texture is the workspace's, or just created, or about to be        *)
(* disposed of: none is lost, and none is left when the editor is closed.  *)
TexturesHaveOwner ==
  \A id \in DOMAIN textures :
    \/ id = target.id
    \/ \E i \in DOMAIN requests : requests[i].does = "dispose" /\ requests[i].texture = id
    \/ \E i \in DOMAIN replies : replies[i].does = "create" /\ replies[i].texture = id

(* After any failure, frames and textures are kept, if the app waits for a *)
(* preview before it opens, closes, exports or (on Android) previews again;*)
(* an app that does not wait loses textures and shows frames let go.       *)
WaitingAppKeepsFrames == ~ overlapped => PresentedFrameIsHeld /\ TexturesHaveOwner

(* Closing comes to its end, with the session and the graph released,      *)
(* whatever was under way or failed before.                                *)
CloseIsComplete ==
  /\ closing # "threw"
  /\ closing # "open" => production = 0 /\ outstanding = 0 /\ bindings = 0

(* The host demands that "Preview generations must increase"; the session  *)
(* of reopened media counts from 1 again while the texture stays.          *)
GenerationsIncrease ==
  \A i \in DOMAIN requests : requests[i].does = "frame" /\ Registered(requests[i].texture) =>
    Newer(requests[i])

(* The texture previews go to is registered, or was created by now, unless *)
(* the preview that replaces it is under way. It is not after a failed     *)
(* createTexture: the workspace keeps the texture it disposed of, and      *)
(* previews of its size fail from then on.                                 *)
TargetIsRegistered ==
  ~ overlapped /\ UnderWay = {} /\ target.id # 0 => Registered(target.id)

(* What is shown is a frame of the open media. *)
ShownIsOpen == shown.texture # 0 /\ production # 0 => shown.session = production
=============================================================================
