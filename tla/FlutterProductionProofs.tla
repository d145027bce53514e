---------------------- MODULE FlutterProductionProofs ----------------------
(***************************************************************************)
(* For every number of threads, sessions, revisions and calls: a preview   *)
(* or an export keeps its runtime, a client's texture stays alive, and an  *)
(* export ends the way it was asked to.  For every number of calls of the  *)
(* editor that drives them from Dart: a frame is consumed, an app that     *)
(* waits keeps frames and textures, and closing is complete.               *)
(***************************************************************************)
EXTENDS FlutterProduction, EditorWorkspace, SequenceTheorems, TLAPS

-----------------------------------------------------------------------------
(* Types: what each kind of update keeps. *)

LEMMA EncodersStayTyped ==
  ASSUME NEW e \in Encoders, NEW ok \in BOOLEAN
  PROVE  /\ NewEncoder \in Encoders /\ EncodeCancelled(e) \in Encoders
         /\ EncodeStarted(e, ok) \in Encoders /\ EncodeSubmitted(e, ok) \in Encoders
         /\ EncodeFinished(e, ok) \in Encoders /\ EncodeDestroyed(e) \in Encoders
<1>1. NewEncoder \in Encoders
  BY DEF NewEncoder, Encoders, EncodeStates
<1>2. EncodeFailed(e) \in Encoders
  BY DEF EncodeFailed, Encoders, EncodeStates
<1>3. EncodeCancelled(e) \in Encoders
  BY DEF EncodeCancelled, Encoders, EncodeStates
<1>4. EncodeStarted(e, ok) \in Encoders
  BY <1>2 DEF EncodeStarted, Encoders, EncodeStates
<1>5. EncodeSubmitted(e, ok) \in Encoders
  BY <1>2 DEF EncodeSubmitted, Encoders, EncodeStates
<1>6. EncodeFinished(e, ok) \in Encoders
  BY <1>2 DEF EncodeFinished, Encoders, EncodeStates
<1>7. EncodeDestroyed(e) \in Encoders
  BY <1>3 DEF EncodeDestroyed
<1> QED
  BY <1>1, <1>3, <1>4, <1>5, <1>6, <1>7

LEMMA PresentationsStayTyped ==
  ASSUME NEW p \in Presentations, NEW g \in Nat, NEW visible \in BOOLEAN
  PROVE  /\ FrameSubmitted(p, g, visible) \in Presentations
         /\ FrameConsumed(p, g, visible) \in Presentations
         /\ FrameDropped(p, g, visible) \subseteq Nat
BY DEF FrameSubmitted, FrameConsumed, FrameDropped, Presentations

LEMMA SessionsStayTyped ==
  ASSUME NEW f \in [Sessions -> SessionType], NEW s,
         NEW held \in Nat, NEW active \in BOOLEAN, NEW g \in Revisions \cup {0}
  PROVE  /\ [f EXCEPT ![s].held = held] \in [Sessions -> SessionType]
         /\ [f EXCEPT ![s].active = active] \in [Sessions -> SessionType]
         /\ [f EXCEPT ![s].active = active, ![s].held = held] \in [Sessions -> SessionType]
         /\ [f EXCEPT ![s].graph = g] \in [Sessions -> SessionType]
         /\ [f EXCEPT ![s] = NoSession] \in [Sessions -> SessionType]
BY DEF SessionType, NoSession

LEMMA ThreadsStayTyped ==
  ASSUME NEW f \in [Clients -> ThreadType], NEW t \in Clients, NEW where \in Places,
         NEW rt \in Nat, NEW gen \in Nat, NEW res \in {"none", "destroy", "ok"}
  PROVE  /\ [f EXCEPT ![t].at = where] \in [Clients -> ThreadType]
         /\ [f EXCEPT ![t].at = where, ![t].rt = rt] \in [Clients -> ThreadType]
         /\ [f EXCEPT ![t].at = where, ![t].rt = rt, ![t].gen = gen] \in [Clients -> ThreadType]
         /\ [f EXCEPT ![t].at = where, ![t].res = res] \in [Clients -> ThreadType]
<1>1. /\ [f EXCEPT ![t].at = where] \in [Clients -> ThreadType]
      /\ [f EXCEPT ![t].at = where, ![t].rt = rt] \in [Clients -> ThreadType]
      /\ [f EXCEPT ![t].at = where, ![t].res = res] \in [Clients -> ThreadType]
  BY DEF ThreadType
<1>2. [f EXCEPT ![t].at = where, ![t].rt = rt, ![t].gen = gen] \in [Clients -> ThreadType]
  BY DEF ThreadType
<1> QED
  BY <1>1, <1>2

LEMMA IdleIsTyped == IdleThread \in ThreadType
BY DEF ThreadType, IdleThread, Places

\* What ensure_runtime makes of the runtime and of the adapter's decoder.
LEMMA RuntimesStayTyped ==
  ASSUME TypeOK, NEW t \in Clients, EnsureRuntime(t) \/ NoDecoder(t)
  PROVE  runtime' \in RuntimeType
<1>1. thread[t].graph \in Revisions \cup {0}
  BY DEF TypeOK, ThreadType
<1>2. /\ NoRuntime \in RuntimeType
      /\ [NoRuntime EXCEPT !.id = calls, !.graph = thread[t].graph] \in RuntimeType
  BY <1>1 DEF TypeOK, RuntimeType, NoRuntime
<1> QED
  BY <1>2 DEF TypeOK, EnsureRuntime, NoDecoder

LEMMA AdaptersStayTyped ==
  ASSUME NEW a \in AdapterType, NEW b \in BOOLEAN
  PROVE  /\ [a EXCEPT !.decoder = FALSE] \in AdapterType
         /\ [a EXCEPT !.decoder = @ /\ b] \in AdapterType
         /\ [a EXCEPT !.decoder = @ /\ b, !.generation = @ + 1] \in AdapterType
         /\ [a EXCEPT !.opened = TRUE, !.decoder = TRUE] \in AdapterType
         /\ a.generation + 1 \in Nat
<1>1. /\ a.opened \in BOOLEAN /\ a.decoder \in BOOLEAN /\ (a.decoder /\ b) \in BOOLEAN
      /\ a.generation \in Nat /\ a.generation + 1 \in Nat
  BY DEF AdapterType
<1> QED
  BY <1>1 DEF AdapterType

\* The steps of a thread leave the others alone.
Others(t) == \A u \in Clients : u # t => thread'[u] = thread[u]

LEMMA Went ==
  ASSUME TypeOK, NEW t \in Clients, NEW where \in Places, Go(t, where)
  PROVE  /\ thread' \in [Clients -> ThreadType] /\ Others(t)
         /\ thread'[t] = [thread[t] EXCEPT !.at = where]
         /\ thread'[t].at = where /\ thread'[t].s = thread[t].s
         /\ thread'[t].rt = thread[t].rt /\ thread'[t].gen = thread[t].gen
         /\ thread'[t].res = thread[t].res
<1>1. thread' = [thread EXCEPT ![t].at = where] /\ thread \in [Clients -> ThreadType]
  BY DEF Go, TypeOK
<1>2. thread' \in [Clients -> ThreadType]
  BY <1>1, ThreadsStayTyped
<1>3. thread[t] \in ThreadType /\ thread'[t] = [thread[t] EXCEPT !.at = where]
  BY <1>1
<1> QED
  BY <1>1, <1>2, <1>3 DEF Others, ThreadType

LEMMA Returned ==
  ASSUME TypeOK, NEW t \in Clients, Return(t)
  PROVE  /\ thread' \in [Clients -> ThreadType] /\ Others(t) /\ thread'[t] = IdleThread
         /\ thread'[t].at = "idle" /\ thread'[t].s = 0 /\ thread'[t].res = "none"
<1>1. thread' = [thread EXCEPT ![t] = IdleThread] /\ thread \in [Clients -> ThreadType]
  BY DEF Return, TypeOK
<1>2. thread' \in [Clients -> ThreadType]
  BY <1>1, IdleIsTyped
<1>3. thread'[t] = IdleThread /\ Others(t)
  BY <1>1 DEF Others
<1> QED
  BY <1>2, <1>3 DEF IdleThread

LEMMA Called ==
  ASSUME TypeOK, NEW t \in Clients, NEW first \in ThreadType, Call(t, first)
  PROVE  /\ thread' \in [Clients -> ThreadType] /\ Others(t) /\ thread'[t] = first
         /\ thread[t].at = "idle" /\ calls' \in Nat
BY DEF TypeOK, Call, At, Others

LEMMA Freed ==
  ASSUME TypeOK, NEW t \in Clients, NEW held \in Nat, Free(t, held), thread[t].s \in Sessions
  PROVE  /\ session' \in [Sessions -> SessionType]
         /\ session'[thread[t].s].held = held /\ ~session'[thread[t].s].active
         /\ \A s \in Sessions : s # thread[t].s => session'[s] = session[s]
<1>1. session \in [Sessions -> SessionType]
  BY DEF TypeOK
<1>2. session' \in [Sessions -> SessionType]
  BY <1>1, SessionsStayTyped DEF Free
<1> QED
  BY <1>1, <1>2 DEF Free, SessionType

\* The first states of the calls on a session.
LEMMA FirstStates ==
  ASSUME TypeOK, NEW s \in Sessions, NEW where \in Places
  PROVE  /\ [IdleThread EXCEPT !.at = where] \in ThreadType
         /\ [IdleThread EXCEPT !.at = where, !.s = s] \in ThreadType
         /\ [IdleThread EXCEPT !.at = where, !.s = s, !.graph = session[s].graph] \in ThreadType
         /\ [IdleThread EXCEPT !.at = where, !.s = s, !.gen = session[s].held] \in ThreadType
         /\ [IdleThread EXCEPT !.at = where, !.s = s, !.gen = session[s].held,
                               !.res = "destroy"] \in ThreadType
<1>1. session[s].graph \in Revisions \cup {0} /\ session[s].held \in Nat
  BY DEF TypeOK, SessionType
<1>2. /\ [IdleThread EXCEPT !.at = where] \in ThreadType
      /\ [IdleThread EXCEPT !.at = where, !.s = s] \in ThreadType
  BY DEF ThreadType, IdleThread
<1>3. /\ [IdleThread EXCEPT !.at = where, !.s = s, !.graph = session[s].graph] \in ThreadType
      /\ [IdleThread EXCEPT !.at = where, !.s = s, !.gen = session[s].held] \in ThreadType
  BY <1>1 DEF ThreadType, IdleThread
<1>4. [IdleThread EXCEPT !.at = where, !.s = s, !.gen = session[s].held, !.res = "destroy"]
        \in ThreadType
  BY <1>1 DEF ThreadType, IdleThread
<1> QED
  BY <1>2, <1>3, <1>4

\* A thread inside a call on a session knows which.
Sessionless == {"idle", "lookup", "flag", "cancelEncoder"}
CallsHaveSession == \A t \in Clients : thread[t].at \notin Sessionless => thread[t].s \in Sessions

Typed == TypeOK /\ CallsHaveSession

LEMMA TypeInit == Init => Typed
<1> SUFFICES ASSUME Init PROVE Typed
  OBVIOUS
<1>1. NewEncoder \in Encoders /\ presented \in Presentations /\ session \in [Sessions -> SessionType]
  BY DEF Init, NewEncoder, Encoders, EncodeStates, NothingPresented, Presentations, NoSession,
         SessionType
<1>2. adapter \in AdapterType /\ runtime \in RuntimeType
  BY DEF Init, ClosedAdapter, NoRuntime, AdapterType, RuntimeType
<1>3. IdleThread \in ThreadType
  BY DEF IdleThread, ThreadType, Places
<1>4. TypeOK
  BY <1>1, <1>2, <1>3 DEF Init, TypeOK
<1> QED
  BY <1>4 DEF Init, Typed, CallsHaveSession, IdleThread, Sessionless

LEMMA TypeStep == Typed /\ [Next]_vars => Typed'
<1> SUFFICES ASSUME Typed, [Next]_vars PROVE Typed'
  OBVIOUS
<1>h. TypeOK /\ CallsHaveSession
  BY DEF Typed
<1>1. CASE RegisterHost \/ UnregisterHost
  BY <1>1, <1>h DEF RegisterHost, UnregisterHost, Typed, TypeOK, CallsHaveSession, host, ghosts
<1>2. ASSUME NEW t \in Clients, SessionStep(t) PROVE Typed'
  <2> USE DEF Typed
  <2>1. CASE Open(t)
    <3>1. "insert" \in Places /\ [adapter EXCEPT !.opened = TRUE, !.decoder = TRUE] \in AdapterType
      BY <1>h, AdaptersStayTyped DEF TypeOK, Places
    <3>2. TypeOK'
      BY <2>1, <1>h, <3>1, Went, Returned DEF Open, TypeOK, api, ghosts
    <3>3. CallsHaveSession'
      BY <2>1, <1>h, <3>1, Went, Returned DEF Open, At, CallsHaveSession, Sessionless, Others
    <3> QED
      BY <3>2, <3>3
  <2>2. CASE Insert(t)
    <3>1. thread[t].s \in Sessions
      BY <2>2, <1>h DEF Insert, At, CallsHaveSession, Sessionless
    <3>2. TypeOK'
      BY <2>2, <1>h, <3>1, Returned DEF Insert, TypeOK, host, ghosts
    <3>3. CallsHaveSession'
      BY <2>2, <1>h, Returned DEF Insert, CallsHaveSession, Sessionless, Others
    <3> QED
      BY <3>2, <3>3
  <2>3. CASE Close(t)
    <3>1. ClosedAdapter \in AdapterType /\ NoRuntime \in RuntimeType
      BY DEF ClosedAdapter, NoRuntime, AdapterType, RuntimeType
    <3>2. encoder' \in Encoders /\ session' \in [Sessions -> SessionType]
      BY <2>3, <1>h, EncodersStayTyped, SessionsStayTyped DEF Close, TypeOK
    <3>3. TypeOK'
      BY <2>3, <1>h, <3>1, <3>2, Returned DEF Close, TypeOK, ghosts
    <3>4. CallsHaveSession'
      BY <2>3, <1>h, Returned DEF Close, CallsHaveSession, Sessionless, Others
    <3> QED
      BY <3>3, <3>4
  <2>4. CASE Release(t)
    <3>1. presented' \in Presentations /\ dropped' \subseteq Nat
      <4>1. thread[t].gen \in Nat /\ presented \in Presentations
        BY <1>h DEF TypeOK, ThreadType
      <4> QED
        BY <2>4, <1>h, <4>1, PresentationsStayTyped DEF Release, TypeOK
    <3>2. "close" \in Places
      BY DEF Places
    <3>3. TypeOK'
      BY <2>4, <1>h, <3>1, <3>2, Went, Returned DEF Release, TypeOK, api
    <3>4. CallsHaveSession'
      BY <2>4, <1>h, <3>2, Went, Returned DEF Release, At, CallsHaveSession, Sessionless, Others
    <3> QED
      BY <3>3, <3>4
  <2>5. ASSUME NEW s \in Sessions, Create(t, s) PROVE Typed'
    <3>1. "open" \in Places
      BY DEF Places
    <3>2. TypeOK'
      BY <2>5, <1>h, <3>1, FirstStates, Called DEF Create, TypeOK, api, host, ghosts
    <3>3. thread'[t].s = s /\ Others(t)
      <4>1. thread'[t] = [IdleThread EXCEPT !.at = "open", !.s = s] /\ Others(t)
        BY <2>5, <1>h, <3>1, FirstStates, Called DEF Create
      <4> QED
        BY <4>1 DEF IdleThread
    <3> QED
      BY <1>h, <3>2, <3>3 DEF CallsHaveSession, Others
  <2>6. ASSUME NEW s \in Sessions, Destroy(t, s) PROVE Typed'
    <3> DEFINE where == IF session[s].held # 0 THEN "release" ELSE "close"
    <3>1. where \in Places
      BY DEF Places
    <3>2. session' \in [Sessions -> SessionType]
      BY <2>6, <1>h, SessionsStayTyped DEF Destroy, TypeOK
    <3>3. TypeOK'
      BY <2>6, <1>h, <3>1, <3>2, FirstStates, Called DEF Destroy, TypeOK, host, ghosts
    <3>4. thread'[t].s = s /\ Others(t)
      <4>1. thread'[t] = [IdleThread EXCEPT !.at = where, !.s = s, !.gen = session[s].held, !.res = "destroy"] /\ Others(t)
        BY <2>6, <1>h, <3>1, FirstStates, Called DEF Destroy
      <4> QED
        BY <4>1 DEF IdleThread
    <3> QED
      BY <1>h, <3>3, <3>4 DEF CallsHaveSession, Others
  <2>7. ASSUME NEW s \in Sessions, Consume(t, s) PROVE Typed'
    <3>1. "release" \in Places
      BY DEF Places
    <3>2. session' \in [Sessions -> SessionType]
      BY <2>7, <1>h, SessionsStayTyped DEF Consume, Taken, TypeOK
    <3>3. TypeOK'
      BY <2>7, <1>h, <3>1, <3>2, FirstStates, Called DEF Consume, TypeOK, host, ghosts
    <3>4. thread'[t].s = s /\ Others(t)
      <4>1. thread'[t] = [IdleThread EXCEPT !.at = "release", !.s = s, !.gen = session[s].held] /\ Others(t)
        BY <2>7, <1>h, <3>1, FirstStates, Called DEF Consume
      <4> QED
        BY <4>1 DEF IdleThread
    <3> QED
      BY <1>h, <3>3, <3>4 DEF CallsHaveSession, Others
  <2>8. ASSUME NEW s \in Sessions, NEW where \in Places, Begin(t, s, where) PROVE Typed'
    <3>1. session' \in [Sessions -> SessionType]
      BY <2>8, <1>h, SessionsStayTyped DEF Begin, TypeOK
    <3>2. TypeOK'
      BY <2>8, <1>h, <3>1, FirstStates, Called DEF Begin, TypeOK, host, ghosts
    <3>3. thread'[t].s = s /\ Others(t)
      <4>1. thread'[t] = [IdleThread EXCEPT !.at = where, !.s = s, !.graph = session[s].graph] /\ Others(t)
        BY <2>8, <1>h, FirstStates, Called DEF Begin
      <4> QED
        BY <4>1 DEF IdleThread
    <3> QED
      BY <1>h, <3>2, <3>3 DEF CallsHaveSession, Others
  <2>9. ASSUME NEW s \in Sessions, Cancel(t, s) PROVE Typed'
    <3>1. "lookup" \in Places
      BY DEF Places
    <3>2. TypeOK'
      BY <2>9, <1>h, <3>1, FirstStates, Called DEF Cancel, TypeOK, api, host, ghosts
    <3>3. thread'[t].at = "lookup" /\ Others(t)
      BY <2>9, <1>h, <3>1, FirstStates, Called DEF Cancel, IdleThread
    <3> QED
      BY <1>h, <3>2, <3>3 DEF CallsHaveSession, Others, Sessionless
  <2>10. ASSUME NEW s \in Sessions, NEW r \in Revisions, Bind(t, s, r) PROVE Typed'
    <3>1. IdleThread \in ThreadType
      BY DEF IdleThread, ThreadType, Places
    <3>2. session' \in [Sessions -> SessionType]
      BY <2>10, <1>h, SessionsStayTyped DEF Bind, TypeOK
    <3>3. TypeOK'
      BY <2>10, <1>h, <3>1, <3>2, Called DEF Bind, TypeOK, host, ghosts
    <3>4. thread'[t].at = "idle" /\ Others(t)
      BY <2>10, <1>h, <3>1, Called DEF Bind, IdleThread
    <3> QED
      BY <1>h, <3>3, <3>4 DEF CallsHaveSession, Others, Sessionless
  <2>11. "render" \in Places /\ "prepare" \in Places
    BY DEF Places
  <2> QED
    BY <1>2, <2>1, <2>2, <2>3, <2>4, <2>5, <2>6, <2>7, <2>8, <2>9, <2>10, <2>11
       DEF SessionStep, Preview, Export
<1>3. ASSUME NEW t \in Clients, PreviewStep(t) PROVE Typed'
  <2> USE DEF Typed
  <2>p. /\ thread[t].gen \in Nat
        /\ {"present", "describe", "previewEnd", "previewFailed", "release"} \subseteq Places
    BY <1>h DEF TypeOK, ThreadType, Places
  <2>1. CASE Render(t)
    <3>1. runtime' \in RuntimeType /\ BoundRuntime(t) \in BOOLEAN
      BY <2>1, <1>h, RuntimesStayTyped DEF Render, BoundRuntime
    <3>2. adapter' \in AdapterType /\ adapter.generation + 1 \in Nat
      BY <2>1, <1>h, <3>1, AdaptersStayTyped DEF Render, TypeOK
    <3>3. CASE Go(t, "previewFailed")
      BY <2>1, <1>h, <2>p, <3>1, <3>2, <3>3, Went
         DEF Render, At, TypeOK, CallsHaveSession, Sessionless, Others, api, ghosts
    <3>4. CASE thread' = [thread EXCEPT ![t].at = "present", ![t].rt = runtime'.id,
                                        ![t].gen = adapter.generation + 1]
      <4>1. thread' \in [Clients -> ThreadType]
        <5>1. runtime'.id \in Nat
          BY <3>1 DEF RuntimeType
        <5>2. thread \in [Clients -> ThreadType] /\ "present" \in Places
          BY <1>h, <2>p DEF TypeOK
        <5> QED
          BY <5>1, <5>2, <3>2, <3>4, ThreadsStayTyped
      <4>2. TypeOK'
        BY <2>1, <1>h, <3>1, <3>2, <4>1 DEF Render, TypeOK, api, ghosts
      <4>3. thread'[t].s = thread[t].s /\ Others(t)
        BY <1>h, <3>4 DEF TypeOK, ThreadType, Others
      <4> QED
        BY <2>1, <1>h, <4>2, <4>3 DEF Render, At, CallsHaveSession, Sessionless, Others
    <3> QED
      BY <2>1, <3>3, <3>4 DEF Render
  <2>2. CASE Present(t)
    <3>1. presented' \in Presentations /\ dropped' \subseteq Nat
      <4>1. presented \in Presentations /\ presented.pending \in Nat
        BY <1>h DEF TypeOK, Presentations
      <4> QED
        BY <2>2, <1>h, <2>p, <4>1, PresentationsStayTyped DEF Present, TypeOK
    <3>2. TypeOK'
      BY <2>2, <1>h, <2>p, <3>1, Went DEF Present, TypeOK, api
    <3> QED
      BY <2>2, <1>h, <2>p, <3>2, Went DEF Present, At, CallsHaveSession, Sessionless, Others
  <2>3. CASE Describe(t)
    <3>1. presented' \in Presentations /\ dropped' \subseteq Nat
      BY <2>3, <1>h, <2>p, PresentationsStayTyped DEF Describe, TypeOK
    <3>2. TypeOK'
      BY <2>3, <1>h, <2>p, <3>1, Went DEF Describe, TypeOK, api
    <3> QED
      BY <2>3, <1>h, <2>p, <3>2, Went DEF Describe, At, CallsHaveSession, Sessionless, Others
  <2>4. CASE PreviewEnd(t)
    <3>1. thread[t].s \in Sessions
      BY <2>4, <1>h DEF PreviewEnd, At, CallsHaveSession, Sessionless
    <3>2. TypeOK'
      BY <2>4, <1>h, <2>p, <3>1, Went, Returned, Freed DEF PreviewEnd, TypeOK, host, ghosts
    <3> QED
      BY <2>4, <1>h, <2>p, <3>1, <3>2, Went, Returned
         DEF PreviewEnd, CallsHaveSession, Sessionless, Others
  <2>5. CASE PreviewFailed(t)
    <3>1. thread[t].s \in Sessions
      BY <2>5, <1>h DEF PreviewFailed, At, CallsHaveSession, Sessionless
    <3>2. TypeOK'
      BY <2>5, <1>h, <3>1, Returned, Freed DEF PreviewFailed, TypeOK, host, ghosts
    <3> QED
      BY <2>5, <1>h, <3>2, Returned DEF PreviewFailed, CallsHaveSession, Sessionless, Others
  <2> QED
    BY <1>3, <2>1, <2>2, <2>3, <2>4, <2>5 DEF PreviewStep
<1>4. ASSUME NEW t \in Clients, ExportStep(t) PROVE Typed'
  <2> USE DEF Typed
  <2>p. /\ {"check", "activate", "start", "frame", "submit", "finish", "clear", "exportEnd"}
             \subseteq Places
        /\ encoder \in Encoders
    BY <1>h DEF TypeOK, Places
  <2>1. CASE Prepare(t)
    <3>1. runtime' \in RuntimeType /\ BoundRuntime(t) \in BOOLEAN
      BY <2>1, <1>h, RuntimesStayTyped DEF Prepare, BoundRuntime, TypeOK
    <3>2. adapter' \in AdapterType
      BY <2>1, <1>h, <3>1, AdaptersStayTyped DEF Prepare, TypeOK
    <3>3. CASE Go(t, "exportEnd")
      BY <2>1, <1>h, <2>p, <3>1, <3>2, <3>3, Went
         DEF Prepare, At, TypeOK, CallsHaveSession, Sessionless, Others, api, ghosts
    <3>4. CASE thread' = [thread EXCEPT ![t].at = "check", ![t].rt = runtime'.id]
      <4>1. thread' \in [Clients -> ThreadType]
        <5>1. runtime'.id \in Nat
          BY <3>1 DEF RuntimeType
        <5>2. thread \in [Clients -> ThreadType] /\ "check" \in Places
          BY <1>h, <2>p DEF TypeOK
        <5> QED
          BY <5>1, <5>2, <3>4, ThreadsStayTyped
      <4>2. TypeOK'
        BY <2>1, <1>h, <3>1, <3>2, <4>1 DEF Prepare, TypeOK, api, ghosts
      <4>3. thread'[t].s = thread[t].s /\ Others(t)
        BY <1>h, <3>4 DEF TypeOK, ThreadType, Others
      <4> QED
        BY <2>1, <1>h, <4>2, <4>3 DEF Prepare, At, CallsHaveSession, Sessionless, Others
    <3> QED
      BY <2>1, <3>3, <3>4 DEF Prepare
  <2>2. ASSUME NEW where \in Places, Go(t, where), thread[t].at \notin Sessionless,
               encoder' \in Encoders, runtime' \in RuntimeType, stopped' \in BOOLEAN,
               UNCHANGED <<api, adapter, presented, calls, dropped>>
        PROVE  Typed'
    <3>1. TypeOK'
      BY <2>2, <1>h, Went DEF TypeOK, api
    <3> QED
      BY <2>2, <1>h, <3>1, Went DEF CallsHaveSession, Sessionless, Others
  <2>3. CASE Check(t)
    BY <2>3, <1>h, <2>p, <2>2 DEF Check, At, Sessionless, TypeOK, host, ghosts
  <2>4. CASE Activate(t)
    <3>1. [runtime EXCEPT !.exporting = TRUE] \in RuntimeType
      BY <1>h DEF TypeOK, RuntimeType
    <3> QED
      BY <2>4, <1>h, <2>p, <2>2, <3>1, EncodersStayTyped DEF Activate, At, Sessionless
  <2>5. CASE StartEncoder(t)
    BY <2>5, <1>h, <2>p, <2>2, EncodersStayTyped
       DEF StartEncoder, At, Sessionless, TypeOK, ghosts
  <2>6. CASE ExportFrame(t)
    BY <2>6, <1>h, <2>p, <2>2, EncodersStayTyped
       DEF ExportFrame, At, Sessionless, TypeOK, ghosts
  <2>7. CASE Submit(t)
    BY <2>7, <1>h, <2>p, <2>2, EncodersStayTyped DEF Submit, At, Sessionless, TypeOK, ghosts
  <2>8. CASE Finish(t)
    <3>1. encoder' \in Encoders
      BY <2>8, <2>p, EncodersStayTyped DEF Finish
    <3>2. thread' \in [Clients -> ThreadType]
      BY <2>8, <1>h, <2>p, ThreadsStayTyped DEF Finish, TypeOK
    <3>3. TypeOK'
      BY <2>8, <1>h, <3>1, <3>2 DEF Finish, TypeOK, api, ghosts
    <3>4. thread'[t].s = thread[t].s /\ Others(t)
      BY <2>8, <1>h DEF Finish, TypeOK, ThreadType, Others
    <3> QED
      BY <2>8, <1>h, <3>3, <3>4 DEF Finish, At, CallsHaveSession, Sessionless, Others
  <2>9. CASE ProgressThrows(t)
    BY <2>9, <1>h, <2>p, <2>2, EncodersStayTyped
       DEF ProgressThrows, Sessionless, TypeOK, ghosts
  <2>10. CASE ClearActive(t)
    <3>1. [runtime EXCEPT !.exporting = FALSE] \in RuntimeType
      BY <1>h DEF TypeOK, RuntimeType
    <3> QED
      BY <2>10, <1>h, <2>p, <2>2, <3>1 DEF ClearActive, At, Sessionless, TypeOK, ghosts
  <2>11. CASE ExportEnd(t)
    <3>1. thread[t].s \in Sessions
      BY <2>11, <1>h DEF ExportEnd, At, CallsHaveSession, Sessionless
    <3>2. TypeOK'
      BY <2>11, <1>h, <3>1, Returned, Freed DEF ExportEnd, TypeOK, host, ghosts
    <3> QED
      BY <2>11, <1>h, <3>2, Returned DEF ExportEnd, CallsHaveSession, Sessionless, Others
  <2> QED
    BY <1>4, <2>1, <2>3, <2>4, <2>5, <2>6, <2>7, <2>8, <2>9, <2>10, <2>11 DEF ExportStep
<1>5. ASSUME NEW t \in Clients, CancelStep(t) PROVE Typed'
  <2> USE DEF Typed
  <2>p. "flag" \in Places /\ "cancelEncoder" \in Places
    BY DEF Places
  <2>1. CASE Lookup(t)
    <3>1. CASE Return(t)
      BY <2>1, <3>1, <1>h, Returned
         DEF Lookup, TypeOK, CallsHaveSession, Sessionless, Others, api, host, ghosts
    <3>2. CASE thread' = [thread EXCEPT ![t].at = "flag", ![t].rt = runtime.id]
      <4>1. thread' \in [Clients -> ThreadType] /\ thread'[t].at = "flag" /\ Others(t)
        <5>1. runtime.id \in Nat /\ thread \in [Clients -> ThreadType]
          BY <1>h DEF TypeOK, RuntimeType
        <5>2. thread' \in [Clients -> ThreadType]
          BY <5>1, <2>p, <3>2, ThreadsStayTyped
        <5> QED
          BY <5>1, <5>2, <3>2 DEF ThreadType, Others
      <4> QED
        BY <2>1, <1>h, <4>1
           DEF Lookup, TypeOK, CallsHaveSession, Sessionless, Others, api, host, ghosts
    <3> QED
      BY <2>1, <3>1, <3>2 DEF Lookup
  <2>2. CASE Flag(t)
    <3>1. runtime' \in RuntimeType
      BY <2>2, <1>h DEF Flag, TypeOK, RuntimeType
    <3>2. TypeOK'
      BY <2>2, <1>h, <2>p, <3>1, Went DEF Flag, TypeOK, api, ghosts
    <3>3. thread'[t].at = "cancelEncoder" /\ Others(t)
      BY <2>2, <1>h, <2>p, Went DEF Flag
    <3> QED
      BY <1>h, <3>2, <3>3 DEF CallsHaveSession, Sessionless, Others
  <2>3. CASE CancelEncoder(t)
    <3>1. encoder' \in Encoders /\ stopped' \in BOOLEAN
      BY <2>3, <1>h, EncodersStayTyped DEF CancelEncoder, TypeOK
    <3> QED
      BY <2>3, <1>h, <3>1, Returned
         DEF CancelEncoder, TypeOK, CallsHaveSession, Sessionless, Others, api
  <2> QED
    BY <1>5, <2>1, <2>2, <2>3 DEF CancelStep
<1>6. CASE UNCHANGED vars
  BY <1>6, <1>h DEF vars, api, host, ghosts, Typed, TypeOK, CallsHaveSession
<1> QED
  BY <1>1, <1>2, <1>3, <1>4, <1>5, <1>6 DEF Next

-----------------------------------------------------------------------------
(* One session at a time, one operation at a time, on one runtime. *)

\* The threads between open_media and the registry, or between the registry and
\* close_media: each stands for the one opened media.
Owns(u) == \/ thread[u].at \in {"insert", "close"}
           \/ thread[u].at = "release" /\ thread[u].res = "destroy"

Operations == InRuntime \cup {"render", "previewEnd", "previewFailed", "prepare", "exportEnd"}
Operates(u) == thread[u].at \in Operations

OneKeeper ==
  /\ \A s1, s2 \in registry : s1 = s2
  /\ registry # {} => adapter.opened
  /\ \A u \in Clients : Owns(u) => registry = {} /\ adapter.opened
  /\ \A u, v \in Clients : Owns(u) /\ Owns(v) => u = v
  /\ \A u \in Clients : thread[u].res = "destroy" => thread[u].at \in {"release", "close"}
  /\ \A s \in Sessions \ registry : session[s].held = 0

OneOperation ==
  /\ \A u \in Clients : Operates(u) =>
       thread[u].s \in registry /\ session[thread[u].s].active /\ session[thread[u].s].held = 0
  /\ \A u, v \in Clients : Operates(u) /\ Operates(v) => u = v

Kept == OneKeeper /\ OneOperation /\ OperationKeepsRuntime

LEMMA KeptInit == Init => Kept
BY DEF Init, Kept, OneKeeper, OneOperation, OperationKeepsRuntime, Owns, Operates, Operations,
       InRuntime, IdleThread, NoSession

\* A step inside an operation, which leaves registry and sessions alone.
LEMMA KeptInside ==
  ASSUME Typed, Kept, NEW t \in Clients, Operates(t), Others(t),
         thread'[t].at \in Operations, thread'[t].s = thread[t].s, thread'[t].res # "destroy",
         UNCHANGED <<registry, session>>, adapter'.opened = adapter.opened,
         thread'[t].at \in InRuntime => runtime'.id = thread'[t].rt
  PROVE  Kept'
<1>1. OneOperation'
  BY DEF Kept, OneOperation, Operates, Others
<1>2. OneKeeper'
  BY DEF Kept, OneKeeper, Owns, Others, Operations, InRuntime
<1>3. OperationKeepsRuntime'
  BY DEF Kept, OneOperation, OperationKeepsRuntime, Operates, Operations, Others
<1> QED
  BY <1>1, <1>2, <1>3 DEF Kept

\* The end of an operation.
LEMMA KeptAtEnd ==
  ASSUME Typed, Kept, NEW t \in Clients, Operates(t), Others(t),
         thread'[t].at \in {"idle", "release"}, thread'[t].res # "destroy",
         \A s \in Sessions : s # thread[t].s => session'[s] = session[s],
         UNCHANGED <<registry, adapter, runtime>>
  PROVE  Kept'
<1>1. OneOperation'
  BY DEF Kept, OneOperation, Operates, Operations, InRuntime, Others
<1>2. thread[t].s \in registry
  BY DEF Kept, OneOperation
<1>3. OneKeeper'
  BY <1>2 DEF Kept, OneKeeper, Owns, Others
<1>4. OperationKeepsRuntime'
  BY DEF Kept, OperationKeepsRuntime, InRuntime, Others
<1> QED
  BY <1>1, <1>3, <1>4 DEF Kept

\* A step outside operations that gives or takes no ownership.
LEMMA KeptOutside ==
  ASSUME Typed, Kept, NEW t \in Clients, Others(t),
         thread'[t].at \notin Operations \cup {"insert", "close"}, thread'[t].res # "destroy",
         UNCHANGED <<registry, session, adapter>>, runtime'.id = runtime.id
  PROVE  Kept'
<1>1. OneOperation'
  BY DEF Kept, OneOperation, Operates, Others
<1>2. OneKeeper'
  BY DEF Kept, OneKeeper, Owns, Others
<1>3. OperationKeepsRuntime'
  BY DEF Kept, OperationKeepsRuntime, Operations, Others
<1> QED
  BY <1>1, <1>2, <1>3 DEF Kept

\* Nobody operates on a session that is not active or that holds a texture.
LEMMA NobodyOperates ==
  ASSUME Typed, Kept,
         registry = {} \/ \E s \in registry : ~session[s].active \/ session[s].held # 0
  PROVE  \A u \in Clients : ~Operates(u)
BY DEF Kept, OneKeeper, OneOperation

LEMMA KeptStep == Typed /\ Kept /\ [Next]_vars => Kept'
<1> SUFFICES ASSUME Typed, Kept, [Next]_vars PROVE Kept'
  OBVIOUS
<1>h. TypeOK /\ CallsHaveSession
  BY DEF Typed
<1>i. /\ \A u \in Clients : thread[u] \in ThreadType
      /\ \A u \in Clients : thread[u].at \notin {"release", "close"} => thread[u].res # "destroy"
  BY <1>h DEF TypeOK, Kept, OneKeeper
<1>1. CASE RegisterHost \/ UnregisterHost
  BY <1>1 DEF RegisterHost, UnregisterHost, Kept, OneKeeper, OneOperation,
              OperationKeepsRuntime, Owns, Operates, host, ghosts
<1>2. ASSUME NEW t \in Clients, SessionStep(t) PROVE Kept'
  <2>p. {"insert", "close"} \subseteq Places
    BY DEF Places
  <2>1. CASE Open(t)
    <3>1. CASE Return(t) /\ UNCHANGED adapter
      BY <2>1, <3>1, <1>h, Returned, KeptOutside DEF Open, Operations, InRuntime, api
    <3>2. CASE CanOpen /\ Go(t, "insert") /\ adapter' = [adapter EXCEPT !.opened = TRUE, !.decoder = TRUE]
      <4>1. /\ thread[t].at = "open" /\ thread'[t].at = "insert" /\ thread'[t].res # "destroy"
            /\ Others(t) /\ adapter'.opened /\ ~adapter.opened
        BY <2>1, <3>2, <1>h, <1>i, <2>p, Went DEF Open, CanOpen, At, TypeOK, AdapterType
      <4>2. UNCHANGED <<registry, session, runtime>>
        BY <2>1 DEF Open, api
      <4>3. OneKeeper'
        BY <4>1, <4>2 DEF Kept, OneKeeper, Owns, Others
      <4>4. OneOperation' /\ OperationKeepsRuntime'
        BY <4>1, <4>2 DEF Kept, OneOperation, OperationKeepsRuntime, Operates, Operations,
                          InRuntime, Others
      <4> QED
        BY <4>3, <4>4 DEF Kept
    <3> QED
      BY <2>1, <3>1, <3>2 DEF Open
  <2>2. CASE Insert(t)
    <3>1. Owns(t) /\ registry = {} /\ registry' = {thread[t].s} /\ adapter.opened
      BY <2>2 DEF Insert, At, Owns, Kept, OneKeeper
    <3>2. /\ thread'[t].at = "idle" /\ thread'[t].res = "none" /\ Others(t)
          /\ UNCHANGED <<session, adapter, runtime>>
      BY <2>2, <1>h, Returned DEF Insert, host
    <3>3. OneKeeper'
      BY <3>1, <3>2 DEF Kept, OneKeeper, Owns, Others
    <3>4. OneOperation' /\ OperationKeepsRuntime'
      BY <3>1, <3>2 DEF Kept, OneOperation, OperationKeepsRuntime, Operates, Operations,
                        InRuntime, Others
    <3> QED
      BY <3>3, <3>4 DEF Kept
  <2>3. CASE Close(t)
    <3>1. Owns(t) /\ registry = {} /\ registry' = {}
      BY <2>3 DEF Close, At, Owns, Kept, OneKeeper
    <3>2. thread'[t].at = "idle" /\ thread'[t].res = "none" /\ Others(t)
      BY <2>3, <1>h, Returned DEF Close
    <3>3. \A s \in Sessions : session'[s].held = session[s].held \/ session'[s].held = 0
      BY <2>3, <1>h DEF Close, TypeOK, NoSession
    <3>4. OneKeeper'
      BY <3>1, <3>2, <3>3 DEF Kept, OneKeeper, Owns, Others
    <3>5. \A u \in Clients : ~Operates(u)
      BY <3>1, NobodyOperates
    <3>6. OneOperation' /\ OperationKeepsRuntime'
      BY <3>2, <3>5 DEF OneOperation, OperationKeepsRuntime, Operates, Operations,
                        InRuntime, Others
    <3> QED
      BY <3>4, <3>6 DEF Kept
  <2>4. CASE Release(t)
    <3>1. UNCHANGED <<registry, session, adapter, runtime>> /\ thread[t].at = "release"
      BY <2>4 DEF Release, At, api
    <3>2. CASE thread[t].res = "destroy"
      <4>1. /\ thread'[t].at = "close" /\ thread'[t].res = "destroy" /\ Others(t)
        BY <2>4, <3>2, <1>h, <2>p, Went DEF Release
      <4>2. OneKeeper'
        BY <3>1, <3>2, <4>1 DEF Kept, OneKeeper, Owns, Others
      <4>3. OneOperation' /\ OperationKeepsRuntime'
        BY <3>1, <4>1 DEF Kept, OneOperation, OperationKeepsRuntime, Operates, Operations,
                          InRuntime, Others
      <4> QED
        BY <4>2, <4>3 DEF Kept
    <3>3. CASE thread[t].res # "destroy"
      BY <2>4, <3>1, <3>3, <1>h, Returned, KeptOutside DEF Release, Operations, InRuntime
    <3> QED
      BY <3>2, <3>3
  <2>5. ASSUME NEW s \in Sessions, Create(t, s) PROVE Kept'
    <3>1. "open" \in Places
      BY DEF Places
    <3>2. thread'[t].at = "open" /\ thread'[t].res = "none" /\ Others(t)
      <4>1. thread'[t] = [IdleThread EXCEPT !.at = "open", !.s = s] /\ Others(t)
        BY <2>5, <1>h, <3>1, FirstStates, Called DEF Create
      <4> QED
        BY <4>1 DEF IdleThread
    <3> QED
      BY <2>5, <3>2, KeptOutside DEF Create, Operations, InRuntime, api, host
  <2>6. ASSUME NEW s \in Sessions, Destroy(t, s) PROVE Kept'
    <3> DEFINE where == IF session[s].held # 0 THEN "release" ELSE "close"
    <3>1. where \in Places
      BY DEF Places
    <3>2. thread'[t].at = where /\ thread'[t].res = "destroy" /\ Others(t)
      <4>1. thread'[t] = [IdleThread EXCEPT !.at = where, !.s = s, !.gen = session[s].held,
                                             !.res = "destroy"] /\ Others(t)
        BY <2>6, <1>h, <3>1, FirstStates, Called DEF Destroy
      <4> QED
        BY <4>1 DEF IdleThread
    <3>3. s \in registry /\ ~session[s].active /\ registry' = registry \ {s}
          /\ UNCHANGED <<adapter, runtime>>
      BY <2>6 DEF Destroy, CanDestroy, host
    <3>4. registry' = {}
      BY <3>3 DEF Kept, OneKeeper
    <3>5. \A x \in Sessions : session'[x].held = session[x].held \/ session'[x].held = 0
      BY <2>6, <1>h DEF Destroy, TypeOK, SessionType
    <3>6. session'[s].held = 0
      BY <2>6, <1>h DEF Destroy, TypeOK, SessionType
    <3>7. \A x \in Sessions : session'[x].held = 0
      BY <3>3, <3>5, <3>6 DEF Kept, OneKeeper
    <3>8. OneKeeper'
      BY <3>2, <3>3, <3>4, <3>7 DEF Kept, OneKeeper, Owns, Others
    <3>9. \A u \in Clients : ~Operates(u)
      BY <3>3, NobodyOperates
    <3>10. OneOperation' /\ OperationKeepsRuntime'
      BY <3>2, <3>9 DEF OneOperation, OperationKeepsRuntime, Operates, Operations,
                        InRuntime, Others
    <3> QED
      BY <3>8, <3>10 DEF Kept
  <2>7. ASSUME NEW s \in Sessions, Consume(t, s) PROVE Kept'
    <3>1. "release" \in Places
      BY DEF Places
    <3>2. thread'[t].at = "release" /\ thread'[t].res = "none" /\ Others(t)
      <4>1. thread'[t] = [IdleThread EXCEPT !.at = "release", !.s = s, !.gen = session[s].held] /\ Others(t)
        BY <2>7, <1>h, <3>1, FirstStates, Called DEF Consume
      <4> QED
        BY <4>1 DEF IdleThread
    <3>3. s \in registry /\ session[s].held # 0 /\ UNCHANGED <<registry, adapter, runtime>>
      BY <2>7 DEF Consume, host
    <3>4. \A x \in Sessions : session'[x].held = session[x].held \/ session'[x].held = 0
      BY <2>7, <1>h DEF Consume, Taken, TypeOK, SessionType
    <3>5. OneKeeper'
      BY <3>2, <3>3, <3>4 DEF Kept, OneKeeper, Owns, Others
    <3>6. \A u \in Clients : ~Operates(u)
      BY <3>3, NobodyOperates
    <3>7. OneOperation' /\ OperationKeepsRuntime'
      BY <3>2, <3>6 DEF OneOperation, OperationKeepsRuntime, Operates, Operations,
                        InRuntime, Others
    <3> QED
      BY <3>5, <3>7 DEF Kept
  <2>8. ASSUME NEW s \in Sessions, NEW where \in {"render", "prepare"}, Begin(t, s, where)
        PROVE  Kept'
    <3>1. where \in Places
      BY DEF Places
    <3>2. thread'[t].at = where /\ thread'[t].s = s /\ thread'[t].res = "none" /\ Others(t)
      <4>1. thread'[t] = [IdleThread EXCEPT !.at = where, !.s = s, !.graph = session[s].graph] /\ Others(t)
        BY <2>8, <1>h, <3>1, FirstStates, Called DEF Begin
      <4> QED
        BY <4>1 DEF IdleThread
    <3>3. /\ s \in registry /\ ~session[s].active /\ session[s].held = 0
          /\ UNCHANGED <<registry, adapter, runtime>>
      BY <2>8 DEF Begin, Busy, host
    <3>4. /\ \A x \in Sessions : session'[x].held = session[x].held
          /\ session'[s].active /\ session'[s].held = 0
      BY <2>8, <3>3, <1>h DEF Begin, TypeOK, SessionType
    <3>5. OneKeeper'
      BY <3>2, <3>3, <3>4 DEF Kept, OneKeeper, Owns, Others
    <3>6. \A u \in Clients : ~Operates(u)
      BY <3>3, NobodyOperates
    <3>7. OneOperation'
      BY <3>2, <3>3, <3>4, <3>6 DEF OneOperation, Operates, Others
    <3>8. OperationKeepsRuntime'
      BY <3>2, <3>6 DEF OperationKeepsRuntime, Operates, Operations, InRuntime, Others
    <3> QED
      BY <3>5, <3>7, <3>8 DEF Kept
  <2>9. ASSUME NEW s \in Sessions, Cancel(t, s) PROVE Kept'
    <3>1. "lookup" \in Places
      BY DEF Places
    <3>2. thread'[t].at = "lookup" /\ thread'[t].res = "none" /\ Others(t)
      BY <2>9, <1>h, <3>1, FirstStates, Called DEF Cancel, IdleThread
    <3> QED
      BY <2>9, <3>2, KeptOutside DEF Cancel, Operations, InRuntime, api, host
  <2>10. ASSUME NEW s \in Sessions, NEW r \in Revisions, Bind(t, s, r) PROVE Kept'
    <3>1. IdleThread \in ThreadType
      BY DEF IdleThread, ThreadType, Places
    <3>2. thread'[t].at = "idle" /\ thread'[t].res = "none" /\ Others(t)
      BY <2>10, <1>h, <3>1, Called DEF Bind, IdleThread
    <3>3. s \in registry /\ ~session[s].active /\ UNCHANGED <<registry, adapter, runtime>>
      BY <2>10 DEF Bind, Busy, host
    <3>4. \A x \in Sessions : session'[x].held = session[x].held
      BY <2>10, <1>h DEF Bind, TypeOK, SessionType
    <3>5. OneKeeper'
      BY <3>2, <3>3, <3>4 DEF Kept, OneKeeper, Owns, Others
    <3>6. \A u \in Clients : ~Operates(u)
      BY <3>3, NobodyOperates
    <3>7. OneOperation' /\ OperationKeepsRuntime'
      BY <3>2, <3>6 DEF OneOperation, OperationKeepsRuntime, Operates, Operations,
                        InRuntime, Others
    <3> QED
      BY <3>5, <3>7 DEF Kept
  <2> QED
    BY <1>2, <2>1, <2>2, <2>3, <2>4, <2>5, <2>6, <2>7, <2>8, <2>9, <2>10
       DEF SessionStep, Preview, Export
<1>3. ASSUME NEW t \in Clients, PreviewStep(t) PROVE Kept'
  <2>p. {"present", "describe", "previewEnd", "previewFailed", "release"} \subseteq Places
    BY DEF Places
  <2>q. {"present", "describe", "previewEnd", "previewFailed"} \subseteq Operations
        /\ "previewEnd" \notin InRuntime /\ "previewFailed" \notin InRuntime
    BY DEF Operations, InRuntime
  <2>1. CASE Render(t)
    <3>1. Operates(t) /\ thread[t].res # "destroy" /\ UNCHANGED <<registry, session>>
      BY <2>1, <1>i DEF Render, At, Operates, Operations, api
    <3>2. adapter'.opened = adapter.opened
      BY <2>1, <1>h DEF Render, TypeOK, AdapterType
    <3>3. CASE Go(t, "previewFailed")
      BY <3>1, <3>2, <3>3, <1>h, <2>p, <2>q, Went, KeptInside
    <3>4. CASE thread' = [thread EXCEPT ![t].at = "present", ![t].rt = runtime'.id,
                                        ![t].gen = adapter.generation + 1]
      <4>1. /\ thread'[t].at = "present" /\ thread'[t].rt = runtime'.id /\ Others(t)
            /\ thread'[t].s = thread[t].s /\ thread'[t].res = thread[t].res
        BY <3>4, <1>h DEF TypeOK, ThreadType, Others
      <4> QED
        BY <3>1, <3>2, <4>1, <2>q, KeptInside
    <3> QED
      BY <2>1, <3>3, <3>4 DEF Render
  <2>2. CASE Present(t)
    <3>1. /\ Operates(t) /\ thread[t].res # "destroy"
          /\ UNCHANGED <<registry, session, adapter, runtime>> /\ runtime.id = thread[t].rt
      BY <2>2, <1>i DEF Present, At, Operates, Operations, InRuntime, api, Kept,
                        OperationKeepsRuntime
    <3> QED
      BY <2>2, <3>1, <1>h, <2>p, <2>q, Went, KeptInside DEF Present
  <2>3. CASE Describe(t)
    <3>1. /\ Operates(t) /\ thread[t].res # "destroy"
          /\ UNCHANGED <<registry, session, adapter, runtime>>
      BY <2>3, <1>i DEF Describe, At, Operates, Operations, InRuntime, api
    <3> QED
      BY <2>3, <3>1, <1>h, <2>p, <2>q, Went, KeptInside DEF Describe
  <2>4. CASE PreviewEnd(t) \/ PreviewFailed(t)
    <3>1. /\ Operates(t) /\ thread[t].res # "destroy" /\ thread[t].s \in Sessions
          /\ UNCHANGED <<registry, adapter, runtime>> /\ thread[t].gen \in Nat
      BY <2>4, <1>h, <1>i DEF PreviewEnd, PreviewFailed, At, Operates, Operations, InRuntime, host,
                         CallsHaveSession, Sessionless, ThreadType
    <3>2. \A s \in Sessions : s # thread[t].s => session'[s] = session[s]
      BY <2>4, <3>1, <1>h, Freed DEF PreviewEnd, PreviewFailed
    <3>3. Go(t, "release") \/ Return(t)
      BY <2>4 DEF PreviewEnd, PreviewFailed
    <3>4. thread'[t].at \in {"idle", "release"} /\ thread'[t].res # "destroy" /\ Others(t)
      BY <3>1, <3>3, <1>h, <2>p, Went, Returned
    <3> QED
      BY <3>1, <3>2, <3>4, KeptAtEnd
  <2> QED
    BY <1>3, <2>1, <2>2, <2>3, <2>4 DEF PreviewStep
<1>4. ASSUME NEW t \in Clients, ExportStep(t) PROVE Kept'
  <2>p. {"check", "activate", "start", "frame", "submit", "finish", "clear", "exportEnd"}
           \subseteq Places \cap Operations
        /\ "exportEnd" \notin InRuntime
    BY DEF Places, Operations, InRuntime
  <2>1. CASE Prepare(t)
    <3>1. Operates(t) /\ thread[t].res # "destroy" /\ UNCHANGED <<registry, session>>
      BY <2>1, <1>i DEF Prepare, At, Operates, Operations, api
    <3>2. adapter'.opened = adapter.opened
      BY <2>1, <1>h DEF Prepare, TypeOK, AdapterType
    <3>3. CASE Go(t, "exportEnd")
      BY <3>1, <3>2, <3>3, <1>h, <2>p, Went, KeptInside
    <3>4. CASE thread' = [thread EXCEPT ![t].at = "check", ![t].rt = runtime'.id]
      <4>1. /\ thread'[t].at = "check" /\ thread'[t].rt = runtime'.id /\ Others(t)
            /\ thread'[t].s = thread[t].s /\ thread'[t].res = thread[t].res
        BY <3>4, <1>h DEF TypeOK, ThreadType, Others
      <4> QED
        BY <3>1, <3>2, <4>1, <2>p, KeptInside
    <3> QED
      BY <2>1, <3>3, <3>4 DEF Prepare
  <2>2. ASSUME thread[t].at \in InRuntime, UNCHANGED <<registry, session, adapter>>,
               runtime'.id = runtime.id, NEW where \in Places \cap Operations, Go(t, where)
        PROVE  Kept'
    <3>1. Operates(t) /\ thread[t].res # "destroy" /\ runtime.id = thread[t].rt
      BY <2>2, <1>i DEF Operates, Operations, InRuntime, Kept, OperationKeepsRuntime
    <3> QED
      BY <2>2, <3>1, <1>h, Went, KeptInside
  <2>r. \A b \in BOOLEAN : [runtime EXCEPT !.exporting = b].id = runtime.id
    BY <1>h DEF TypeOK, RuntimeType
  <2>3. CASE Check(t) \/ Activate(t) \/ StartEncoder(t) \/ ClearActive(t)
    BY <2>3, <2>2, <2>p, <2>r DEF Check, Activate, StartEncoder, ClearActive, At, InRuntime, api, host
  <2>4. CASE ExportFrame(t) \/ Submit(t) \/ ProgressThrows(t)
    BY <2>4, <2>2, <2>p DEF ExportFrame, Submit, ProgressThrows, At, InRuntime, api
  <2>5. CASE Finish(t)
    <3>1. /\ Operates(t) /\ runtime.id = thread[t].rt
          /\ UNCHANGED <<registry, session, adapter, runtime>>
      BY <2>5 DEF Finish, At, Operates, Operations, InRuntime, api, Kept, OperationKeepsRuntime
    <3>2. /\ thread'[t].at = "clear" /\ thread'[t].res # "destroy" /\ Others(t)
          /\ thread'[t].s = thread[t].s /\ thread'[t].rt = thread[t].rt
      BY <2>5, <1>h DEF Finish, TypeOK, ThreadType, Others
    <3> QED
      BY <3>1, <3>2, <2>p, KeptInside
  <2>6. CASE ExportEnd(t)
    <3>1. /\ Operates(t) /\ thread[t].s \in Sessions /\ UNCHANGED <<registry, adapter, runtime>>
      BY <2>6, <1>h DEF ExportEnd, At, Operates, Operations, host, CallsHaveSession, Sessionless
    <3>2. \A s \in Sessions : s # thread[t].s => session'[s] = session[s]
      BY <2>6, <3>1, <1>h, Freed DEF ExportEnd
    <3>3. thread'[t].at = "idle" /\ thread'[t].res = "none" /\ Others(t)
      BY <2>6, <1>h, Returned DEF ExportEnd
    <3> QED
      BY <3>1, <3>2, <3>3, KeptAtEnd
  <2> QED
    BY <1>4, <2>1, <2>3, <2>4, <2>5, <2>6 DEF ExportStep
<1>5. ASSUME NEW t \in Clients, CancelStep(t) PROVE Kept'
  <2>1. /\ thread[t].res # "destroy" /\ UNCHANGED <<registry, session, adapter>>
        /\ runtime'.id = runtime.id
    BY <1>5, <1>h, <1>i DEF CancelStep, Lookup, Flag, CancelEncoder, At, api, host, TypeOK, RuntimeType
  <2>2. /\ Others(t) /\ thread'[t].at \in {"idle", "flag", "cancelEncoder"}
        /\ thread'[t].res # "destroy"
    <3>1. CASE Return(t)
      BY <3>1, <1>h, Returned
    <3>2. CASE Go(t, "cancelEncoder")
      BY <3>2, <1>h, <2>1, Went DEF Places
    <3>3. CASE thread' = [thread EXCEPT ![t].at = "flag", ![t].rt = runtime.id]
      BY <3>3, <1>h, <2>1 DEF TypeOK, ThreadType, Others
    <3> QED
      BY <1>5, <3>1, <3>2, <3>3 DEF CancelStep, Lookup, Flag, CancelEncoder
  <2> QED
    BY <2>1, <2>2, KeptOutside DEF Operations, InRuntime
<1>6. CASE UNCHANGED vars
  BY <1>6 DEF vars, api, host, ghosts, Kept, OneKeeper, OneOperation, OperationKeepsRuntime,
              Owns, Operates
<1> QED
  BY <1>1, <1>2, <1>3, <1>4, <1>5, <1>6 DEF Next

-----------------------------------------------------------------------------
(* Every texture that a client holds, or a thread is about to hand out or release, *)
(* has a frame of its own in the presentation session.                             *)

Live == {presented.current, presented.pending} \cup dropped

\* Where a thread has a frame in the presentation session in its hands.
Handles == {"describe", "previewEnd", "release"}
Handling(u) == thread[u].at \in Handles

HandledAreFrames ==
  \A u \in Clients : thread[u].at \in Handles \cup {"present"} => thread[u].gen # 0
HandledAreAlive == \A u \in Clients : Handling(u) => thread[u].gen \in Live
HandledApart ==
  \A u, v \in Clients :
    Handling(u) /\ Handling(v) /\ u # v /\ thread[u].gen = thread[v].gen => thread[u].gen \in dropped
HeldApart ==
  \A u \in Clients : \A s \in registry :
    Handling(u) /\ session[s].held = thread[u].gen => thread[u].gen \in dropped

FramesAlive == /\ HandledAreFrames /\ HandledAreAlive /\ HandledApart /\ HeldApart
               /\ HeldTextureIsAlive

LEMMA FramesInit == Init => FramesAlive
BY DEF Init, FramesAlive, HandledAreFrames, HandledAreAlive, HandledApart, HeldApart,
       Handling, Handles, HeldTextureIsAlive, IdleThread, NoSession

\* A step that neither touches a frame nor takes one into the hands.
LEMMA FramesUntouched ==
  ASSUME Typed, FramesAlive, NEW t \in Clients, Others(t),
         thread'[t].at \notin Handles \cup {"present"},
         \A s \in registry' : session'[s].held = 0 \/ (s \in registry /\ session'[s].held = session[s].held),
         UNCHANGED <<presented, dropped>>
  PROVE  FramesAlive'
BY DEF FramesAlive, HandledAreFrames, HandledAreAlive, HandledApart, HeldApart, Handling, HeldTextureIsAlive, Live, Others

\* Giving a frame back retires it, or finds it gone; a pending one that is lost with
\* it is a dropped one.
LEMMA FramesGivenBack ==
  ASSUME Typed, FramesAlive, NEW t \in Clients, Handling(t), Others(t), NEW visible \in BOOLEAN,
         thread'[t].at \notin Handles \cup {"present"},
         presented' = FrameConsumed(presented, thread[t].gen, visible),
         dropped' = dropped \cup FrameDropped(presented, thread[t].gen, visible),
         UNCHANGED <<registry, session>>
  PROVE  FramesAlive'
<1>1. /\ Live \ {0, thread[t].gen} \subseteq Live'
      /\ dropped \subseteq dropped'
  BY DEF Live, FrameConsumed, FrameDropped
<1>a. dropped' \subseteq Live'
  BY DEF Live
<1>b. thread[t].gen # 0 /\ 0 \in Nat
  BY DEF FramesAlive, HandledAreFrames, Handling
<1>2. ASSUME NEW u \in Clients, Handling(u), u # t PROVE thread[u].gen \in Live'
  <2>1. CASE thread[u].gen = thread[t].gen
    BY <1>1, <1>2, <1>a, <2>1 DEF FramesAlive, HandledApart
  <2>2. CASE thread[u].gen # thread[t].gen
    BY <1>1, <1>2, <2>2 DEF FramesAlive, HandledAreFrames, HandledAreAlive, Handling
  <2> QED
    BY <2>1, <2>2
<1>6. HeldTextureIsAlive'
  <2> SUFFICES ASSUME NEW s \in registry, session[s].held # 0 PROVE session[s].held \in Live'
    BY DEF HeldTextureIsAlive, Live
  <2>1. session[s].held \in Live
    BY DEF FramesAlive, HeldTextureIsAlive, Live
  <2>2. CASE session[s].held = thread[t].gen
    BY <1>1, <1>a, <2>2 DEF FramesAlive, HeldApart
  <2>3. CASE session[s].held # thread[t].gen
    BY <1>1, <2>1, <2>3
  <2> QED
    BY <2>2, <2>3
<1>3. HandledAreFrames' /\ HandledAreAlive'
  BY <1>2 DEF FramesAlive, HandledAreFrames, HandledAreAlive, Handling, Others
<1>4. HandledApart'
  BY <1>1 DEF FramesAlive, HandledApart, Handling, Others
<1>5. HeldApart'
  BY <1>1 DEF FramesAlive, HeldApart, Handling, Others
<1> QED
  BY <1>6, <1>3, <1>4, <1>5 DEF FramesAlive

\* Taking the frame a client holds into the hands.
LEMMA FrameTaken ==
  ASSUME FramesAlive, NEW t \in Clients, NEW s \in registry, Others(t),
         thread'[t].gen = session[s].held, dropped' = dropped
  PROVE  HandledApart'
<1> SUFFICES ASSUME NEW u \in Clients, NEW v \in Clients, Handling(u)', Handling(v)', u # v,
                    thread'[u].gen = thread'[v].gen
             PROVE  thread'[u].gen \in dropped
  BY DEF HandledApart
<1>1. ASSUME NEW w \in Clients, w # t, Handling(w)'
      PROVE  thread'[w] = thread[w] /\ Handling(w)
  BY <1>1 DEF Others, Handling
<1>2. CASE u = t
  BY <1>1, <1>2 DEF FramesAlive, HeldApart
<1>3. CASE v = t
  BY <1>1, <1>3 DEF FramesAlive, HeldApart
<1>4. CASE u # t /\ v # t
  BY <1>1, <1>4 DEF FramesAlive, HandledApart
<1> QED
  BY <1>2, <1>3, <1>4

LEMMA FramesStep == Typed /\ Kept /\ FramesAlive /\ [Next]_vars => FramesAlive'
<1> SUFFICES ASSUME Typed, Kept, FramesAlive, [Next]_vars PROVE FramesAlive'
  OBVIOUS
<1>h. TypeOK /\ CallsHaveSession
  BY DEF Typed
<1>i. /\ \A u \in Clients : thread[u] \in ThreadType
      /\ \A s \in Sessions : session[s] \in SessionType
      /\ registry \subseteq Sessions
  BY <1>h DEF TypeOK
<1>1. CASE RegisterHost \/ UnregisterHost
  BY <1>1 DEF RegisterHost, UnregisterHost, FramesAlive, HandledAreFrames, HandledAreAlive, HandledApart, HeldApart, Handling, HeldTextureIsAlive, Live,
              host, ghosts
<1>2. ASSUME NEW t \in Clients, SessionStep(t) PROVE FramesAlive'
  <2>1. CASE Open(t)
    <3>1. "insert" \in Places
      BY DEF Places
    <3>2. Others(t) /\ thread'[t].at \in {"idle", "insert"}
      BY <2>1, <1>h, <3>1, Went, Returned DEF Open
    <3>3. UNCHANGED <<registry, session, presented, dropped>>
      BY <2>1 DEF Open, api, ghosts
    <3> QED
      BY <3>2, <3>3, FramesUntouched DEF Handles
  <2>2. CASE Insert(t)
    <3>1. Others(t) /\ thread'[t].at \notin Handles \cup {"present"}
      BY <2>2, <1>h, Returned DEF Insert, Handles
    <3>2. /\ registry = {} /\ registry' = {thread[t].s} /\ thread[t].s \in Sessions
          /\ UNCHANGED <<session, presented, dropped>>
      BY <2>2, <1>h DEF Insert, At, Owns, Kept, OneKeeper, host, ghosts, CallsHaveSession, Sessionless
    <3>3. session[thread[t].s].held = 0
      BY <3>2 DEF Kept, OneKeeper
    <3> QED
      BY <3>1, <3>2, <3>3, FramesUntouched
  <2>3. CASE Close(t)
    <3>1. Others(t) /\ thread'[t].at \notin Handles \cup {"present"}
      BY <2>3, <1>h, Returned DEF Close, Handles
    <3>2. registry' = {} /\ UNCHANGED <<presented, dropped>>
      BY <2>3 DEF Close, At, Owns, Kept, OneKeeper, ghosts
    <3> QED
      BY <3>1, <3>2, FramesUntouched
  <2>4. CASE Release(t)
    <3>1. "close" \in Places /\ Handling(t)
      BY <2>4 DEF Release, At, Handling, Handles, Places
    <3>2. Others(t) /\ thread'[t].at \notin Handles \cup {"present"}
      BY <2>4, <1>h, <3>1, Went, Returned DEF Release, Handles
    <3> QED
      BY <2>4, <3>1, <3>2, FramesGivenBack DEF Release, api
  <2>5. ASSUME NEW s \in Sessions, Create(t, s) PROVE FramesAlive'
    <3>1. "open" \in Places
      BY DEF Places
    <3>2. thread'[t] = [IdleThread EXCEPT !.at = "open", !.s = s] /\ Others(t)
      BY <2>5, <1>h, <3>1, FirstStates, Called DEF Create
    <3>3. thread'[t].at = "open"
      BY <3>2 DEF IdleThread
    <3> QED
      BY <2>5, <3>2, <3>3, FramesUntouched DEF Create, Handles, api, host, ghosts
  <2>6. ASSUME NEW s \in Sessions, Destroy(t, s) PROVE FramesAlive'
    <3> DEFINE where == IF session[s].held # 0 THEN "release" ELSE "close"
    <3>1. where \in Places
      BY DEF Places
    <3>2. thread'[t] = [IdleThread EXCEPT !.at = where, !.s = s, !.gen = session[s].held,
                                          !.res = "destroy"] /\ Others(t)
      BY <2>6, <1>h, <3>1, FirstStates, Called DEF Destroy
    <3>3. thread'[t].at = where /\ thread'[t].gen = session[s].held
      BY <3>2 DEF IdleThread
    <3>4. s \in registry /\ registry' = registry \ {s} /\ UNCHANGED <<presented, dropped>>
      BY <2>6 DEF Destroy, CanDestroy, host, ghosts
    <3>5. registry' = {}
      BY <3>4 DEF Kept, OneKeeper
    <3>6. Handling(t)' => session[s].held # 0 /\ session[s].held \in Live
      BY <3>3, <3>4 DEF FramesAlive, HeldTextureIsAlive, Live, Handling, Handles
    <3>7. HandledAreFrames' /\ HandledAreAlive'
      BY <3>2, <3>3, <3>4, <3>6
         DEF FramesAlive, HandledAreFrames, HandledAreAlive, Handling, Handles, Others, Live
    <3>8. HandledApart'
      BY <3>2, <3>3, <3>4, FrameTaken
    <3>9. HeldApart' /\ HeldTextureIsAlive'
      BY <3>5 DEF HeldApart, HeldTextureIsAlive
    <3> QED
      BY <3>7, <3>8, <3>9 DEF FramesAlive
  <2>7. ASSUME NEW s \in Sessions, Consume(t, s) PROVE FramesAlive'
    <3>1. "release" \in Places
      BY DEF Places
    <3>2. thread'[t] = [IdleThread EXCEPT !.at = "release", !.s = s, !.gen = session[s].held]
          /\ Others(t)
      BY <2>7, <1>h, <3>1, FirstStates, Called DEF Consume
    <3>3. thread'[t].at = "release" /\ thread'[t].gen = session[s].held
      BY <3>2 DEF IdleThread
    <3>4. s \in registry /\ session[s].held # 0 /\ UNCHANGED <<registry, presented, dropped>>
      BY <2>7 DEF Consume, host, ghosts
    <3>5. \A x \in registry' : session'[x].held = 0
      <4>1. \A x \in registry : x = s
        BY <3>4 DEF Kept, OneKeeper
      <4>2. session'[s].held = 0
        BY <2>7, <1>h, <1>i DEF Consume, Taken, TypeOK, SessionType
      <4> QED
        BY <3>4, <4>1, <4>2
    <3>6. session[s].held \in Live
      BY <3>4 DEF FramesAlive, HeldTextureIsAlive, Live
    <3>7. HandledAreFrames' /\ HandledAreAlive'
      BY <3>2, <3>3, <3>4, <3>6
         DEF FramesAlive, HandledAreFrames, HandledAreAlive, Handling, Handles, Others, Live
    <3>8. HandledApart'
      BY <3>2, <3>3, <3>4, FrameTaken
    <3>9. HeldTextureIsAlive'
      BY <3>5 DEF HeldTextureIsAlive
    <3>10. HeldApart'
      BY <3>5, <3>7 DEF HeldApart, HandledAreFrames, Handling
    <3> QED
      BY <3>7, <3>8, <3>9, <3>10 DEF FramesAlive
  <2>8. ASSUME NEW s \in Sessions, NEW where \in {"render", "prepare"}, Begin(t, s, where)
        PROVE  FramesAlive'
    <3>1. where \in Places
      BY DEF Places
    <3>2. thread'[t] = [IdleThread EXCEPT !.at = where, !.s = s, !.graph = session[s].graph]
          /\ Others(t)
      BY <2>8, <1>h, <3>1, FirstStates, Called DEF Begin
    <3>3. thread'[t].at = where
      BY <3>2 DEF IdleThread
    <3>4. \A x \in registry : session'[x].held = session[x].held
      BY <2>8, <1>i DEF Begin, SessionType
    <3> QED
      BY <2>8, <3>2, <3>3, <3>4, FramesUntouched DEF Begin, Handles, host, ghosts
  <2>9. ASSUME NEW s \in Sessions, Cancel(t, s) PROVE FramesAlive'
    <3>1. "lookup" \in Places
      BY DEF Places
    <3>2. thread'[t].at = "lookup" /\ Others(t)
      BY <2>9, <1>h, <3>1, FirstStates, Called DEF Cancel, IdleThread
    <3> QED
      BY <2>9, <3>2, FramesUntouched DEF Cancel, Handles, api, host, ghosts
  <2>10. ASSUME NEW s \in Sessions, NEW r \in Revisions, Bind(t, s, r) PROVE FramesAlive'
    <3>1. IdleThread \in ThreadType
      BY DEF IdleThread, ThreadType, Places
    <3>2. thread'[t].at = "idle" /\ Others(t)
      BY <2>10, <1>h, <3>1, Called DEF Bind, IdleThread
    <3>3. \A x \in registry : session'[x].held = session[x].held
      BY <2>10, <1>i DEF Bind, SessionType
    <3> QED
      BY <2>10, <3>2, <3>3, FramesUntouched DEF Bind, Handles, host, ghosts
  <2> QED
    BY <1>2, <2>1, <2>2, <2>3, <2>4, <2>5, <2>6, <2>7, <2>8, <2>9, <2>10
       DEF SessionStep, Preview, Export
<1>3. ASSUME NEW t \in Clients, PreviewStep(t) PROVE FramesAlive'
  <2>p. {"present", "describe", "previewEnd", "previewFailed", "release"} \subseteq Places
    BY DEF Places
  <2>1. CASE Render(t)
    <3>1. UNCHANGED <<registry, session, presented, dropped>>
      BY <2>1 DEF Render, api, ghosts
    <3>2. CASE Go(t, "previewFailed")
      BY <3>1, <3>2, <1>h, <2>p, Went, FramesUntouched DEF Handles
    <3>3. CASE thread' = [thread EXCEPT ![t].at = "present", ![t].rt = runtime'.id,
                                        ![t].gen = adapter.generation + 1]
      <4>1. thread'[t].at = "present" /\ thread'[t].gen = adapter.generation + 1 /\ Others(t)
        BY <3>3, <1>h DEF TypeOK, ThreadType, Others
      <4>2. adapter.generation + 1 # 0
        BY <1>h DEF TypeOK, AdapterType
      <4> QED
        BY <3>1, <4>1, <4>2 DEF FramesAlive, HandledAreFrames, HandledAreAlive, HandledApart, HeldApart, Handling, Handles, HeldTextureIsAlive, Live, Others
    <3> QED
      BY <2>1, <3>2, <3>3 DEF Render
  <2>2. CASE Present(t)
    <3>1. UNCHANGED <<registry, session>> /\ thread[t].at = "present" /\ Operates(t)
      BY <2>2 DEF Present, At, api, Operates, Operations, InRuntime
    <3>2. CASE Go(t, "previewFailed") /\ UNCHANGED <<presented, dropped>>
      BY <3>1, <3>2, <1>h, <2>p, Went, FramesUntouched DEF Handles
    <3>3. ASSUME NEW visible \in BOOLEAN, FrameAccepted(presented, thread[t].gen, visible),
                 presented' = FrameSubmitted(presented, thread[t].gen, visible),
                 dropped' = dropped \cup (Releasing \cap {presented.pending}), Go(t, "describe")
          PROVE  FramesAlive'
      <4> DEFINE g == thread[t].gen
      <4>1. /\ thread'[t].at = "describe" /\ thread'[t].gen = g /\ Others(t)
        BY <3>3, <1>h, <2>p, Went
      <4>2. /\ g # 0 /\ g # presented.current /\ g # presented.pending
            /\ g \in {presented'.current, presented'.pending}
        BY <3>1, <3>3, <1>h, <1>i
           DEF FramesAlive, HandledAreFrames, HandledAreAlive, HandledApart, HeldApart, FrameAccepted, FrameIsStale, FrameSubmitted, ThreadType, TypeOK, Presentations
      <4>3. /\ Live \ {0, presented.pending} \subseteq Live' /\ dropped \subseteq dropped'
            /\ Releasing \cap {presented.pending} \subseteq dropped'
            /\ presented.pending \in Live' \/ presented.pending # presented'.pending
        BY <3>3, <1>h DEF Live, FrameSubmitted, TypeOK, Presentations
      <4>4. \A u \in Clients : Handling(u) => thread[u].at = "release"
        BY <3>1 DEF Kept, OneOperation, Operates, Operations, InRuntime, Handling, Handles
      <4>5. \A u \in Clients : Handling(u) => thread[u].gen \in Live'
        BY <4>3, <4>4 DEF FramesAlive, HandledAreFrames, HandledAreAlive, HandledApart, HeldApart, Releasing, At, Live, Handling, Handles
      <4>6. \A s \in registry : session[s].held = 0
        BY <3>1 DEF Kept, OneOperation, OneKeeper
      <4>7. \A u \in Clients : Handling(u) /\ thread[u].gen = g => g \in dropped
        BY <4>2 DEF FramesAlive, HandledAreFrames, HandledAreAlive, HandledApart, HeldApart, Live
      <4>8. ~Handling(t)
        BY <3>1 DEF Handling, Handles
      <4> QED
        BY <3>1, <4>1, <4>2, <4>3, <4>5, <4>6, <4>7, <4>8
           DEF FramesAlive, HandledAreFrames, HandledAreAlive, HandledApart, HeldApart, Handling, Handles, HeldTextureIsAlive, Live, Others
    <3> QED
      BY <2>2, <3>2, <3>3 DEF Present
  <2>3. CASE Describe(t)
    <3>1. UNCHANGED <<registry, session>> /\ Handling(t)
      BY <2>3 DEF Describe, At, api, Handling, Handles
    <3>2. CASE Go(t, "previewEnd") /\ UNCHANGED <<presented, dropped>>
      <4>1. thread'[t].at = "previewEnd" /\ thread'[t].gen = thread[t].gen /\ Others(t)
        BY <3>2, <1>h, <2>p, Went
      <4> QED
        BY <3>1, <3>2, <4>1 DEF FramesAlive, HandledAreFrames, HandledAreAlive, HandledApart, HeldApart, Handling, Handles, HeldTextureIsAlive, Live, Others
    <3>3. CASE Go(t, "previewFailed")
      <4>1. thread'[t].at = "previewFailed" /\ Others(t)
        BY <3>3, <1>h, <2>p, Went
      <4> QED
        BY <2>3, <3>1, <4>1, FramesUntouched, FramesGivenBack DEF Describe, Handles
    <3> QED
      BY <2>3, <3>2, <3>3 DEF Describe
  <2>4. CASE PreviewEnd(t) \/ PreviewFailed(t)
    <3>1. /\ Operates(t) /\ thread[t].s \in registry /\ thread[t].s \in Sessions
          /\ UNCHANGED <<registry, presented, dropped>> /\ thread[t].gen \in Nat
      BY <2>4, <1>h, <1>i DEF PreviewEnd, PreviewFailed, At, Operates, Operations, Kept,
           OneOperation, host, ghosts, ThreadType
    <3>2. \A x \in registry : x = thread[t].s
      BY <3>1 DEF Kept, OneKeeper
    <3>3. ASSUME Free(t, thread[t].gen), Return(t), At(t, "previewEnd") PROVE FramesAlive'
      <4>1. Others(t) /\ thread'[t].at = "idle"
        BY <3>3, <1>h, Returned
      <4>2. \A x \in registry' : session'[x].held = thread[t].gen
        BY <3>1, <3>2, <3>3, <1>h, Freed
      <4> QED
        BY <3>1, <3>3, <4>1, <4>2 DEF FramesAlive, HandledAreFrames, HandledAreAlive, HandledApart, HeldApart, Handling, Handles, HeldTextureIsAlive, Live, Others, At
    <3>4. ASSUME Free(t, 0) PROVE \A x \in registry' : session'[x].held = 0
      BY <3>1, <3>2, <3>4, <1>h, Freed
    <3>5. ASSUME Free(t, 0), Go(t, "release"), At(t, "previewEnd") PROVE FramesAlive'
      <4>1. Others(t) /\ thread'[t].at = "release" /\ thread'[t].gen = thread[t].gen
        BY <3>5, <1>h, <2>p, Went
      <4> QED
        BY <3>1, <3>5, <3>4, <4>1 DEF FramesAlive, HandledAreFrames, HandledAreAlive, HandledApart, HeldApart, Handling, Handles, HeldTextureIsAlive, Live, Others, At
    <3>6. ASSUME Free(t, 0), Return(t) PROVE FramesAlive'
      <4>1. Others(t) /\ thread'[t].at \notin Handles \cup {"present"}
        BY <3>6, <1>h, Returned DEF Handles
      <4>2. \A x \in registry' :
              session'[x].held = 0 \/ (x \in registry /\ session'[x].held = session[x].held)
        BY <3>6, <3>4
      <4> QED
        BY <3>1, <4>1, <4>2, FramesUntouched
    <3> QED
      BY <2>4, <3>3, <3>5, <3>6 DEF PreviewEnd, PreviewFailed
  <2> QED
    BY <1>3, <2>1, <2>2, <2>3, <2>4 DEF PreviewStep
<1>4. ASSUME NEW t \in Clients, ExportStep(t) \/ CancelStep(t) PROVE FramesAlive'
  <2>p. {"check", "activate", "start", "frame", "submit", "finish", "clear", "exportEnd",
         "flag", "cancelEncoder"} \subseteq Places \ (Handles \cup {"present"})
    BY DEF Places, Handles
  <2>1. Others(t) /\ thread'[t].at \notin Handles \cup {"present"}
    <3>1. ASSUME NEW where \in Places \ (Handles \cup {"present"}), Go(t, where) 
          PROVE  Others(t) /\ thread'[t].at \notin Handles \cup {"present"}
      BY <3>1, <1>h, Went
    <3>2. CASE Return(t)
      BY <3>2, <1>h, Returned DEF Handles
    <3>3. CASE Prepare(t) \/ Lookup(t) \/ Finish(t)
      <4>1. Go(t, "exportEnd") \/ Return(t) \/
              \E where \in {"check", "flag", "clear"} : thread'[t].at = where /\ Others(t)
        BY <3>3, <1>h DEF Prepare, Lookup, Finish, TypeOK, ThreadType, Others
      <4> QED
        BY <4>1, <2>p, <3>1, <3>2 DEF Handles
    <3>4. CASE ~(Prepare(t) \/ Lookup(t) \/ Finish(t))
      <4>1. Return(t) \/ \E where \in Places \ (Handles \cup {"present"}) : Go(t, where)
        BY <1>4, <3>4, <2>p
           DEF ExportStep, CancelStep, Check, Activate, StartEncoder, ExportFrame, Submit,
               ProgressThrows, ClearActive, ExportEnd, Flag, CancelEncoder
      <4> QED
        BY <4>1, <3>1, <3>2
    <3> QED
      BY <3>3, <3>4
  <2>2. CASE ExportEnd(t)
    <3>1. /\ thread[t].s \in registry /\ thread[t].s \in Sessions
          /\ UNCHANGED <<registry, presented, dropped>>
      BY <2>2, <1>i DEF ExportEnd, At, Operates, Operations, Kept, OneOperation, host, ghosts
    <3>2. \A x \in registry' : session'[x].held = 0
      BY <2>2, <3>1, <1>h, Freed DEF ExportEnd, Kept, OneKeeper
    <3>3. \A x \in registry' :
            session'[x].held = 0 \/ (x \in registry /\ session'[x].held = session[x].held)
      BY <3>2
    <3> QED
      BY <2>1, <3>1, <3>3, FramesUntouched
  <2>3. CASE ~ExportEnd(t)
    <3>1. UNCHANGED <<registry, session, presented, dropped>>
      BY <1>4, <2>3
         DEF ExportStep, CancelStep, Prepare, Check, Activate, StartEncoder, ExportFrame, Submit,
             Finish, ProgressThrows, ClearActive, Lookup, Flag, CancelEncoder, api, host, ghosts
    <3> QED
      BY <2>1, <3>1, FramesUntouched
  <2> QED
    BY <2>2, <2>3
<1>5. CASE UNCHANGED vars
  BY <1>5 DEF vars, api, host, ghosts, FramesAlive, HandledAreFrames, HandledAreAlive, HandledApart, HeldApart, Handling, HeldTextureIsAlive, Live
<1> QED
  BY <1>1, <1>2, <1>3, <1>4, <1>5 DEF Next

-----------------------------------------------------------------------------
(* The encode session, the place of its export and the verdict agree. *)

\* Where the encode session can be running, and where it cannot have been finished.
Encoding(u) == thread[u].at \in {"frame", "submit", "finish"}
Unfinished(u) == thread[u].at \in {"start", "frame", "submit", "finish"}

EncoderSound ==
  /\ encoder.finalized <=> encoder.state = "completed"
  /\ encoder.finalized => ~encoder.aborted
  /\ encoder.state = "cancelled" => encoder.aborted
  /\ encoder.aborted => encoder.state \in {"cancelled", "failed"}
  /\ encoder.state = "idle" => ~encoder.opened

EncoderInExport ==
  /\ encoder.state = "running" => \E u \in Clients : Encoding(u)
  /\ \A u \in Clients : Unfinished(u) => encoder.state # "completed"
  /\ \A u \in Clients : thread[u].at = "finish" => encoder.frames > 0

VerdictIsTrue ==
  /\ stopped => encoder.state \in {"cancelled", "failed"}
  /\ \A u \in Clients : thread[u].res = "ok" =>
       thread[u].at \in {"clear", "exportEnd"} /\ encoder.state = "completed" /\ encoder.frames > 0

Exported == EncoderSound /\ EncoderInExport /\ VerdictIsTrue

LEMMA ExportedInit == Init => Exported
BY DEF Init, NewEncoder, Exported, EncoderSound, EncoderInExport, VerdictIsTrue, Unfinished, IdleThread

\* The properties the invariant is for.
LEMMA ExportedEnds == Typed /\ Kept /\ Exported => ExportEndsAsAsked
<1> SUFFICES ASSUME Typed, Kept, Exported PROVE ExportEndsAsAsked
  OBVIOUS
<1>1. CancelStops
  BY DEF Exported, EncoderSound, VerdictIsTrue, CancelStops
<1>2. ASSUME NEW t \in Clients, thread[t].at = "exportEnd" PROVE encoder.state # "running"
  BY <1>2 DEF Exported, EncoderInExport, Encoding, Kept, OneOperation, Operates, Operations, InRuntime
<1>3. encoder.state \in {"idle", "running", "completed", "cancelled", "failed"}
  BY DEF Typed, TypeOK, Encoders, EncodeStates
<1>4. EncoderResolved
  BY <1>2, <1>3 DEF Exported, EncoderSound, VerdictIsTrue, EncoderResolved, At
<1> QED
  BY <1>1, <1>4 DEF ExportEndsAsAsked

\* A step away from the encoder.
LEMMA ExportedElsewhere ==
  ASSUME Typed, Exported, NEW t \in Clients, Others(t), ~Encoding(t),
         thread'[t].at \notin {"start", "frame", "submit", "finish"},
         thread'[t].res = "ok" => (thread[t].res = "ok" /\ thread'[t].at \in {"clear", "exportEnd"}),
         UNCHANGED <<encoder, stopped>>
  PROVE  Exported'
<1>1. EncoderInExport'
  BY DEF Exported, EncoderInExport, Encoding, Unfinished, Others
<1>2. EncoderSound' /\ VerdictIsTrue'
  BY DEF Exported, EncoderSound, VerdictIsTrue, Others
<1> QED
  BY <1>1, <1>2 DEF Exported

\* A step of the running export on its encode session.
LEMMA ExportedInside ==
  ASSUME Typed, Kept, Exported, NEW t \in Clients, Others(t), Operates(t),
         thread'[t].at \in {"frame", "submit", "finish", "clear"},
         EncoderSound',
         encoder'.state = "running" => thread'[t].at # "clear",
         thread'[t].at # "clear" => encoder'.state # "completed",
         thread'[t].at = "finish" => encoder'.frames > 0,
         stopped' => encoder'.state \in {"cancelled", "failed"},
         thread'[t].res = "ok" =>
           (thread'[t].at = "clear" /\ encoder'.state = "completed" /\ encoder'.frames > 0)
  PROVE  Exported'
<1>1. ASSUME NEW u \in Clients, u # t
      PROVE  /\ thread'[u] = thread[u] /\ ~Operates(u)
             /\ thread[u].at \notin {"start", "frame", "submit", "finish", "clear", "exportEnd"}
  BY <1>1 DEF Kept, OneOperation, Operates, Operations, InRuntime, Others
<1>2. \A u \in Clients : u # t => thread[u].res # "ok"
  BY <1>1 DEF Exported, VerdictIsTrue
<1>3. EncoderInExport'
  BY <1>1 DEF EncoderInExport, Encoding, Unfinished
<1>4. VerdictIsTrue'
  BY <1>1, <1>2 DEF VerdictIsTrue
<1> QED
  BY <1>3, <1>4 DEF Exported

\* What a call does to a sound encode session.
LEMMA EncoderStaysSound ==
  ASSUME encoder \in Encoders, EncoderSound, NEW ok \in BOOLEAN,
         \/ encoder' \in {NewEncoder, EncodeCancelled(encoder), EncodeDestroyed(encoder)}
         \/ /\ encoder.state # "completed"
            /\ encoder' \in {EncodeStarted(encoder, ok), EncodeSubmitted(encoder, ok),
                             EncodeFinished(encoder, ok)}
  PROVE  EncoderSound'
<1>1. CASE encoder' = NewEncoder
  BY <1>1 DEF EncoderSound, NewEncoder
<1>2. CASE encoder' = EncodeCancelled(encoder)
  BY <1>2 DEF EncoderSound, EncodeCancelled, Encoders, EncodeStates
<1>3. CASE encoder' = EncodeDestroyed(encoder)
  BY <1>3 DEF EncoderSound, EncodeDestroyed, EncodeCancelled, Encoders, EncodeStates
<1>4. CASE encoder' = EncodeStarted(encoder, ok) /\ encoder.state # "completed"
  BY <1>4 DEF EncoderSound, EncodeStarted, EncodeFailed, Encoders, EncodeStates
<1>5. CASE encoder' = EncodeSubmitted(encoder, ok) /\ encoder.state # "completed"
  BY <1>5 DEF EncoderSound, EncodeSubmitted, EncodeFailed, Encoders, EncodeStates
<1>6. CASE encoder' = EncodeFinished(encoder, ok) /\ encoder.state # "completed"
  BY <1>6 DEF EncoderSound, EncodeFinished, EncodeFailed, Encoders, EncodeStates
<1> QED
  BY <1>1, <1>2, <1>3, <1>4, <1>5, <1>6

LEMMA ExportedStep == Typed /\ Kept /\ Exported /\ [Next]_vars => Exported'
<1> SUFFICES ASSUME Typed, Kept, Exported, [Next]_vars PROVE Exported'
  OBVIOUS
<1>h. TypeOK /\ CallsHaveSession
  BY DEF Typed
<1>i. /\ \A u \in Clients : thread[u] \in ThreadType
      /\ \A u \in Clients : thread[u].at \notin {"clear", "exportEnd"} => thread[u].res # "ok"
      /\ encoder \in Encoders /\ EncoderSound
      /\ stopped => encoder.state \in {"cancelled", "failed"}
  BY <1>h DEF TypeOK, Exported, VerdictIsTrue
<1>1. CASE RegisterHost \/ UnregisterHost
  BY <1>1 DEF RegisterHost, UnregisterHost, Exported, EncoderSound, EncoderInExport,
              VerdictIsTrue, Encoding, Unfinished, host, ghosts
<1>2. ASSUME NEW t \in Clients, SessionStep(t) PROVE Exported'
  <2>p. {"open", "insert", "release", "close", "render", "prepare", "lookup"} \subseteq Places
    BY DEF Places
  <2>1. CASE Open(t) \/ Insert(t) \/ Release(t)
    <3>1. ~Encoding(t) /\ UNCHANGED <<encoder, stopped>> /\ thread[t].res # "ok"
      BY <2>1, <1>i DEF Open, Insert, Release, At, Encoding, host, ghosts
    <3>2. /\ Others(t) /\ thread'[t].at \in {"idle", "insert", "close"}
          /\ thread'[t].res # "ok"
      BY <2>1, <3>1, <1>h, <2>p, Went, Returned DEF Open, Insert, Release
    <3> QED
      BY <3>1, <3>2, ExportedElsewhere
  <2>2. CASE Close(t)
    <3>1. Others(t) /\ thread'[t].at = "idle" /\ thread'[t].res = "none"
      BY <2>2, <1>h, Returned DEF Close
    <3>2. registry = {} /\ stopped' = stopped
      BY <2>2 DEF Close, At, Owns, Kept, OneKeeper, ghosts
    <3>3. \A u \in Clients : ~Operates(u)
      BY <3>2, NobodyOperates
    <3>4. encoder.state # "running"
      BY <3>3 DEF Exported, EncoderInExport, Encoding, Operates, Operations, InRuntime
    <3>5. encoder' \in {encoder, EncodeCancelled(encoder)}
      BY <2>2 DEF Close
    <3>6. EncoderSound'
      <4>1. CASE encoder' = encoder
        BY <4>1, <1>i DEF EncoderSound
      <4>2. CASE encoder' = EncodeCancelled(encoder)
        BY <4>2, <1>i, EncoderStaysSound
      <4> QED
        BY <3>5, <4>1, <4>2
    <3>7. encoder'.state # "running" /\ (stopped => encoder'.state \in {"cancelled", "failed"})
      BY <3>4, <3>5, <1>i DEF EncodeCancelled, Encoders
    <3>8. \A u \in Clients : ~Operates(u)'
      BY <3>1, <3>3 DEF Operates, Operations, InRuntime, Others
    <3>9. EncoderInExport'
      BY <3>7, <3>8 DEF EncoderInExport, Unfinished, Operates, Operations, InRuntime
    <3>10. \A u \in Clients : thread'[u].res # "ok"
      BY <3>1, <3>3, <1>i DEF Others, Operates, Operations, InRuntime
    <3> QED
      BY <3>2, <3>6, <3>7, <3>9, <3>10 DEF Exported, VerdictIsTrue
  <2>3. ASSUME NEW s \in Sessions, NEW first \in ThreadType, Call(t, first),
               first.at \in {"open", "release", "close", "render", "prepare", "lookup", "idle"},
               first.res # "ok", UNCHANGED <<encoder, stopped>>
        PROVE  Exported'
    <3>1. Others(t) /\ thread'[t] = first /\ ~Encoding(t)
      BY <2>3, <1>h, Called DEF Encoding
    <3> QED
      BY <2>3, <3>1, ExportedElsewhere
  <2>4. ASSUME NEW s \in Sessions, Create(t, s) PROVE Exported'
    <3>1. [IdleThread EXCEPT !.at = "open", !.s = s] \in ThreadType
      BY <1>h, <2>p, FirstStates
    <3>2. /\ [IdleThread EXCEPT !.at = "open", !.s = s].at = "open"
          /\ [IdleThread EXCEPT !.at = "open", !.s = s].res = "none"
      BY DEF IdleThread
    <3> QED
      BY <2>3, <2>4, <3>1, <3>2 DEF Create, host, ghosts
  <2>5. ASSUME NEW s \in Sessions, Destroy(t, s) PROVE Exported'
    <3> DEFINE where == IF session[s].held # 0 THEN "release" ELSE "close"
               first == [IdleThread EXCEPT !.at = where, !.s = s, !.gen = session[s].held,
                                           !.res = "destroy"]
    <3>1. first \in ThreadType
      <4>1. where \in Places
        BY <2>p
      <4> QED
        BY <4>1, <1>h, FirstStates
    <3>2. first.at = where /\ first.res = "destroy"
      BY DEF IdleThread
    <3>3. Call(t, first) /\ UNCHANGED <<encoder, stopped>>
      BY <2>5 DEF Destroy, host, ghosts
    <3> QED
      BY <2>3, <3>1, <3>2, <3>3
  <2>6. ASSUME NEW s \in Sessions, Consume(t, s) PROVE Exported'
    <3> DEFINE first == [IdleThread EXCEPT !.at = "release", !.s = s, !.gen = session[s].held]
    <3>1. first \in ThreadType
      BY <1>h, <2>p, FirstStates
    <3>2. first.at = "release" /\ first.res = "none"
      BY DEF IdleThread
    <3> QED
      BY <2>3, <2>6, <3>1, <3>2 DEF Consume, host, ghosts
  <2>7. ASSUME NEW s \in Sessions, NEW where \in {"render", "prepare"}, Begin(t, s, where)
        PROVE  Exported'
    <3> DEFINE first == [IdleThread EXCEPT !.at = where, !.s = s, !.graph = session[s].graph]
    <3>1. first \in ThreadType
      BY <1>h, <2>p, FirstStates
    <3>2. first.at = where /\ first.res = "none"
      BY DEF IdleThread
    <3>3. Call(t, first) /\ UNCHANGED <<encoder, stopped>>
      BY <2>7 DEF Begin, host, ghosts
    <3> QED
      BY <2>3, <3>1, <3>2, <3>3
  <2>8. ASSUME NEW s \in Sessions, Cancel(t, s) PROVE Exported'
    <3>1. [IdleThread EXCEPT !.at = "lookup"] \in ThreadType
      BY <1>h, <2>p, FirstStates
    <3>2. /\ [IdleThread EXCEPT !.at = "lookup"].at = "lookup"
          /\ [IdleThread EXCEPT !.at = "lookup"].res = "none"
      BY DEF IdleThread
    <3> QED
      BY <2>3, <2>8, <3>1, <3>2 DEF Cancel, host, ghosts
  <2>9. ASSUME NEW s \in Sessions, NEW r \in Revisions, Bind(t, s, r) PROVE Exported'
    <3>1. IdleThread \in ThreadType /\ IdleThread.at = "idle" /\ IdleThread.res = "none"
      BY DEF IdleThread, ThreadType, Places
    <3> QED
      BY <2>3, <2>9, <3>1 DEF Bind, host, ghosts
  <2> QED
    BY <1>2, <2>1, <2>2, <2>4, <2>5, <2>6, <2>7, <2>8, <2>9 DEF SessionStep, Preview, Export
<1>3. ASSUME NEW t \in Clients, PreviewStep(t) PROVE Exported'
  <2>p. {"present", "describe", "previewEnd", "previewFailed", "release"} \subseteq Places
    BY DEF Places
  <2>1. ~Encoding(t) /\ thread[t].res # "ok" /\ UNCHANGED <<encoder, stopped>>
    BY <1>3, <1>i DEF PreviewStep, Render, Present, Describe, PreviewEnd, PreviewFailed, At,
                      Encoding, host, ghosts
  <2>2. /\ Others(t) /\ thread'[t].res # "ok"
        /\ thread'[t].at \in {"present", "describe", "previewEnd", "previewFailed", "release", "idle"}
    <3>1. ASSUME NEW where \in {"describe", "previewEnd", "previewFailed", "release"}, Go(t, where)
          PROVE  <2>2
      BY <3>1, <2>1, <2>p, <1>h, Went
    <3>2. CASE Return(t)
      BY <3>2, <1>h, Returned
    <3>3. CASE thread' = [thread EXCEPT ![t].at = "present", ![t].rt = runtime'.id,
                                        ![t].gen = adapter.generation + 1]
      BY <3>3, <2>1, <1>h DEF TypeOK, ThreadType, Others
    <3> QED
      BY <1>3, <3>1, <3>2, <3>3
         DEF PreviewStep, Render, Present, Describe, PreviewEnd, PreviewFailed
  <2> QED
    BY <2>1, <2>2, ExportedElsewhere
<1>4. ASSUME NEW t \in Clients, ExportStep(t) PROVE Exported'
  <2>p. {"check", "activate", "start", "frame", "submit", "finish", "clear", "exportEnd"}
           \subseteq Places
    BY DEF Places
  <2>1. CASE Prepare(t) \/ Check(t) \/ ClearActive(t) \/ ExportEnd(t)
    <3>1. ~Encoding(t) /\ UNCHANGED <<encoder, stopped>>
      BY <2>1 DEF Prepare, Check, ClearActive, ExportEnd, At, Encoding, host, ghosts
    <3>2. Others(t) /\ thread'[t].at \in {"check", "activate", "exportEnd", "idle"}
          /\ (thread'[t].res = "ok" => (thread[t].res = "ok" /\ thread'[t].at = "exportEnd"))
      <4>1. CASE Prepare(t)
        <5>1. thread[t].res # "ok"
          BY <4>1, <1>i DEF Prepare, At
        <5>2. CASE Go(t, "exportEnd")
          BY <5>1, <5>2, <2>p, <1>h, Went
        <5>3. CASE thread' = [thread EXCEPT ![t].at = "check", ![t].rt = runtime'.id]
          BY <5>1, <5>3, <1>h DEF TypeOK, ThreadType, Others
        <5> QED
          BY <4>1, <5>2, <5>3 DEF Prepare
      <4>2. CASE Check(t)
        BY <4>2, <1>i, <2>p, <1>h, Went DEF Check, At
      <4>3. CASE ClearActive(t)
        BY <4>3, <2>p, <1>h, Went DEF ClearActive
      <4>4. CASE ExportEnd(t)
        BY <4>4, <1>h, Returned DEF ExportEnd
      <4> QED
        BY <2>1, <4>1, <4>2, <4>3, <4>4
    <3> QED
      BY <3>1, <3>2, ExportedElsewhere
  <2>2. CASE Activate(t)
    <3>1. /\ Others(t) /\ thread'[t].at = "start" /\ thread'[t].res # "ok" /\ Operates(t)
      BY <2>2, <1>h, <1>i, <2>p, Went DEF Activate, At, Operates, Operations, InRuntime
    <3>2. encoder' = NewEncoder /\ ~stopped' /\ EncoderSound'
      BY <2>2, <1>i, EncoderStaysSound DEF Activate
    <3>3. \A u \in Clients : u # t =>
            thread'[u].at \notin {"frame", "submit", "finish", "clear", "exportEnd"}
      BY <3>1 DEF Kept, OneOperation, Operates, Operations, InRuntime, Others
    <3>4. \A u \in Clients : u # t => thread'[u].res # "ok"
      BY <3>1, <3>3, <1>i DEF Others
    <3> QED
      BY <3>1, <3>2, <3>3, <3>4
         DEF Exported, EncoderInExport, VerdictIsTrue, Encoding, Unfinished, NewEncoder
  <2>3. CASE StartEncoder(t) \/ Submit(t)
    <3>1. Operates(t) /\ thread[t].res # "ok" /\ encoder.state # "completed" /\ stopped' = stopped
      BY <2>3, <1>i DEF StartEncoder, Submit, At, Operates, Operations, InRuntime, ghosts,
           Exported, EncoderInExport, Unfinished
    <3>2. PICK ok \in BOOLEAN : encoder' \in {EncodeStarted(encoder, ok), EncodeSubmitted(encoder, ok)}
      BY <2>3 DEF StartEncoder, Submit
    <3>3. EncoderSound'
      BY <3>1, <3>2, <1>i, EncoderStaysSound
    <3>4. /\ encoder'.state \in {"running", "failed"}
          /\ encoder'.state = "running" => encoder.state \in {"idle", "running"}
      BY <3>2, <1>i DEF EncodeStarted, EncodeSubmitted, EncodeFailed, Encoders
    <3>5. PICK where \in {"frame", "clear", "finish"} :
            /\ Go(t, where)
            /\ encoder'.state = "running" <=> where # "clear"
            /\ where = "finish" => encoder'.frames > 0
      <4>1. CASE StartEncoder(t)
        BY <4>1 DEF StartEncoder
      <4>2. CASE Submit(t)
        <5>1. CASE encoder'.state # "running"
          BY <4>2, <5>1 DEF Submit
        <5>2. CASE encoder'.state = "running" /\ encoder'.frames = Frames
          BY <4>2, <5>2, FlutterAssumption DEF Submit
        <5>3. CASE encoder'.state = "running" /\ encoder'.frames # Frames
          BY <4>2, <5>3 DEF Submit
        <5> QED
          BY <5>1, <5>2, <5>3
      <4> QED
        BY <2>3, <4>1, <4>2
    <3>6. /\ Others(t) /\ thread'[t].at = where /\ thread'[t].res # "ok"
      BY <3>1, <3>5, <1>h, <2>p, Went
    <3> QED
      BY <3>1, <3>3, <3>4, <3>5, <3>6, <1>i, ExportedInside
  <2>4. CASE ExportFrame(t) \/ ProgressThrows(t)
    <3>1. Operates(t) /\ thread[t].res # "ok" /\ encoder.state # "completed" /\ stopped' = stopped
      BY <2>4, <1>i DEF ExportFrame, ProgressThrows, At, Operates, Operations, InRuntime, ghosts,
           Exported, EncoderInExport, Unfinished
    <3>2. PICK where \in {"clear", "finish", "submit"} :
            /\ Go(t, where)
            /\ where = "clear" => encoder' \in {EncodeCancelled(encoder), EncodeDestroyed(encoder)}
            /\ where # "clear" => encoder' = encoder
            /\ where = "finish" => encoder.frames > 0
      BY <2>4 DEF ExportFrame, ProgressThrows, EndsAtEos
    <3>3. EncoderSound'
      <4>1. CASE encoder' = encoder
        BY <4>1, <1>i DEF EncoderSound
      <4>2. CASE encoder' \in {EncodeCancelled(encoder), EncodeDestroyed(encoder)}
        BY <4>2, <1>i, EncoderStaysSound
      <4> QED
        BY <3>2, <4>1, <4>2
    <3>4. /\ where = "clear" => encoder'.state # "running"
          /\ encoder.state \in {"cancelled", "failed"} => encoder'.state \in {"cancelled", "failed"}
      BY <3>2, <1>i DEF EncodeCancelled, EncodeDestroyed, Encoders
    <3>5. /\ Others(t) /\ thread'[t].at = where /\ thread'[t].res # "ok"
      BY <3>1, <3>2, <1>h, <2>p, Went
    <3> QED
      BY <3>1, <3>2, <3>3, <3>4, <3>5, <1>i, ExportedInside
  <2>5. CASE Finish(t)
    <3>1. /\ Operates(t) /\ encoder.state # "completed" /\ stopped' = stopped /\ encoder.frames > 0
      BY <2>5 DEF Finish, At, Operates, Operations, InRuntime, ghosts,
           Exported, EncoderInExport, Unfinished
    <3>2. PICK ok \in BOOLEAN : encoder' = EncodeFinished(encoder, ok)
      BY <2>5 DEF Finish
    <3>3. EncoderSound'
      BY <3>1, <3>2, <1>i, EncoderStaysSound
    <3>4. /\ encoder'.state \in {"completed", "failed"} /\ encoder'.frames = encoder.frames
          /\ encoder'.state = "completed" => encoder.state = "running"
      BY <3>2, <1>i DEF EncodeFinished, EncodeFailed, Encoders
    <3>5. /\ Others(t) /\ thread'[t].at = "clear"
          /\ thread'[t].res = "ok" => encoder'.state = "completed"
      BY <2>5, <1>h DEF Finish, TypeOK, ThreadType, Others
    <3> QED
      BY <3>1, <3>3, <3>4, <3>5, <1>i, ExportedInside
  <2> QED
    BY <1>4, <2>1, <2>2, <2>3, <2>4, <2>5 DEF ExportStep
<1>5. ASSUME NEW t \in Clients, CancelStep(t) PROVE Exported'
  <2>1. ~Encoding(t) /\ thread[t].res # "ok"
    BY <1>5, <1>i DEF CancelStep, Lookup, Flag, CancelEncoder, At, Encoding
  <2>2. Others(t) /\ thread'[t].at \in {"idle", "flag", "cancelEncoder"} /\ thread'[t].res # "ok"
    <3>1. CASE Return(t)
      BY <3>1, <1>h, Returned
    <3>2. CASE Go(t, "cancelEncoder")
      BY <3>2, <2>1, <1>h, Went DEF Places
    <3>3. CASE thread' = [thread EXCEPT ![t].at = "flag", ![t].rt = runtime.id]
      BY <3>3, <2>1, <1>h DEF TypeOK, ThreadType, Others
    <3> QED
      BY <1>5, <3>1, <3>2, <3>3 DEF CancelStep, Lookup, Flag, CancelEncoder
  <2>3. CASE UNCHANGED <<encoder, stopped>>
    BY <2>1, <2>2, <2>3, ExportedElsewhere
  <2>4. CASE encoder' = EncodeCancelled(encoder) /\ stopped' = (stopped \/ encoder.state # "completed")
    <3>1. EncoderSound'
      BY <2>4, <1>i, EncoderStaysSound
    <3>2. /\ encoder'.state # "running" /\ encoder'.frames = encoder.frames
          /\ encoder'.state = "completed" <=> encoder.state = "completed"
          /\ encoder.state # "completed" => encoder'.state \in {"cancelled", "failed"}
      BY <2>4, <1>i DEF EncodeCancelled, Encoders, EncodeStates
    <3>3. EncoderInExport'
      BY <2>2, <3>2 DEF Exported, EncoderInExport, Unfinished, Others
    <3>4. VerdictIsTrue'
      BY <2>2, <2>4, <3>2, <1>i DEF Exported, VerdictIsTrue, Others
    <3> QED
      BY <3>1, <3>3, <3>4 DEF Exported
  <2> QED
    BY <1>5, <2>3, <2>4 DEF CancelStep, Lookup, Flag, CancelEncoder, host, ghosts
<1>6. CASE UNCHANGED vars
  BY <1>6 DEF vars, host, ghosts, Exported, EncoderSound, EncoderInExport, VerdictIsTrue,
              Encoding, Unfinished
<1> QED
  BY <1>1, <1>2, <1>3, <1>4, <1>5, <1>6 DEF Next

-----------------------------------------------------------------------------
(* The theorems. *)

IInv == Typed /\ Kept /\ FramesAlive /\ Exported

LEMMA Inductive == Spec => []IInv
<1>1. Init => IInv
  BY TypeInit, KeptInit, FramesInit, ExportedInit DEF IInv
<1>2. IInv /\ [Next]_vars => IInv'
  BY TypeStep, KeptStep, FramesStep, ExportedStep DEF IInv
<1> QED
  BY <1>1, <1>2, PTL DEF Spec

\* The states are those of the types, whatever the calls.
THEOREM TypeCorrect == Spec => []TypeOK
<1>1. IInv => TypeOK
  BY DEF IInv, Typed
<1> QED
  BY <1>1, Inductive, PTL

\* A preview or an export works on the runtime it was given until it ends: the one
\* operation is on the one registered session, and who closes media has no session.
THEOREM RuntimeIsKept == Spec => []OperationKeepsRuntime
<1>1. IInv => OperationKeepsRuntime
  BY DEF IInv, Kept
<1> QED
  BY <1>1, Inductive, PTL

\* The texture a client holds has its frame, unless the host refused it or a late
\* release took it for one of earlier media.
THEOREM TexturesLive == Spec => []HeldTextureIsAlive
<1>1. IInv => HeldTextureIsAlive
  BY DEF IInv, FramesAlive
<1> QED
  BY <1>1, Inductive, PTL

\* A cancelled export finalizes nothing and reports no success, and every export
\* leaves its encoder finalized, aborted or failed.
THEOREM ExportsEnd == Spec => []ExportEndsAsAsked
<1>1. IInv => ExportEndsAsAsked
  BY ExportedEnds DEF IInv
<1> QED
  BY <1>1, Inductive, PTL

-----------------------------------------------------------------------------
(* The editor.  Every call under way has exactly one message, going or     *)
(* coming back, and it is the one of the await the call is in.             *)

Awaits   == {"dispose", "create", "refresh", "frame"}
Calls    == [at : Awaits \cup {"idle"}, size : Sizes \cup {0},
             texture : Nat, generation : Nat, session : Nat]
Messages == [from : Previews \cup {Closer}, does : Awaits,
             texture : Nat, generation : Nat, ok : BOOLEAN]

EditorTypes ==
  /\ renderTarget \in BOOLEAN /\ overlapped \in BOOLEAN
  /\ production \in Nat /\ bindings \in Nat /\ generation \in Nat /\ outstanding \in Nat
  /\ created \in Nat /\ opens \in Nat
  /\ target \in [id : Nat, size : Sizes \cup {0}]
  /\ preview \in [Previews -> Calls]
  /\ closing \in {"open", "first", "second", "closed", "threw"}
  /\ requests \in Seq(Messages) /\ replies \in Seq(Messages)
  /\ DOMAIN textures \subseteq 1..created

Silent(c, q) == \A i \in DOMAIN q : q[i].from # c

OneMessageEach(q, r) ==
  /\ \A i, j \in DOMAIN q : q[i].from = q[j].from => i = j
  /\ \A i, j \in DOMAIN r : r[i].from = r[j].from => i = j
  /\ \A i \in DOMAIN q, j \in DOMAIN r : q[i].from # r[j].from

(* What a message says of the call it is from. *)
Belongs(m) ==
  IF m.from = Closer
  THEN closing \in {"first", "second"} /\ m.does = "dispose"
  ELSE /\ preview[m.from].at = m.does
       /\ m.does = "frame" => m.generation = preview[m.from].generation

AllBelong(q) == \A i \in DOMAIN q : Belongs(q[i])

MessagesBelong ==
  OneMessageEach(requests, replies) /\ AllBelong(requests) /\ AllBelong(replies)

(* Windows renders before the first await of a call, Android before the    *)
(* last.                                                                   *)
FramesBelong ==
  /\ outstanding # 0 => production # 0
  /\ \A p \in Previews :
       IF renderTarget THEN preview[p].at # "frame" => preview[p].generation = 0
       ELSE preview[p].at # "refresh"

SessionIsBound ==
  /\ bindings = IF production = 0 THEN 0 ELSE 1
  /\ closing # "threw"
  /\ closing # "open" => production = 0

(* In an app that waits one call is under way, with the frame that is out, *)
(* if it has rendered, and with the one texture there is.                  *)
HasRendered(p) == ~ renderTarget \/ preview[p].at = "frame"

CallIsAlone(p) ==
  /\ closing = "open" /\ UnderWay = {p}
  /\ HasRendered(p) => /\ outstanding # 0 /\ production # 0
                       /\ preview[p].generation = outstanding
                       /\ preview[p].session = production
  /\ ~ HasRendered(p) => outstanding = 0

RequestIsOfTarget(m) ==
  /\ m.does = "create" => m.texture = 0 /\ m.ok /\ ~ Registered(target.id)
  /\ m.does = "refresh" => m.texture = target.id
  /\ m.does = "dispose" /\ m.from # Closer => m.texture = target.id

ReplyIsOfTarget(m) ==
  /\ m.does = "create" => /\ ~ Registered(target.id) /\ m.texture <= created
                          /\ m.ok \/ m.texture = 0
  /\ m.does = "refresh" => m.texture = target.id
  /\ m.does = "dispose" /\ m.from # Closer => ~ Registered(target.id)

Waiting ==
  /\ \A p \in UnderWay : CallIsAlone(p)
  /\ \A i \in DOMAIN requests : RequestIsOfTarget(requests[i])
  /\ \A i \in DOMAIN replies : ReplyIsOfTarget(replies[i])
  /\ TexturesHaveOwner /\ target.id <= created

LEMMA AppendElements ==
  ASSUME NEW S, NEW q \in Seq(S), NEW m \in S
  PROVE  /\ Append(q, m) \in Seq(S)
         /\ \A i \in DOMAIN Append(q, m) :
              \/ i \in DOMAIN q /\ Append(q, m)[i] = q[i]
              \/ i = Len(q) + 1 /\ i \notin DOMAIN q /\ Append(q, m)[i] = m
  OBVIOUS

LEMMA TailElements ==
  ASSUME NEW S, NEW q \in Seq(S), q # <<>>
  PROVE  /\ Tail(q) \in Seq(S) /\ Head(q) \in S /\ 1 \in DOMAIN q /\ Head(q) = q[1]
         /\ \A i \in DOMAIN Tail(q) :
              i \in Nat /\ i + 1 \in DOMAIN q /\ i + 1 # 1 /\ Tail(q)[i] = q[i + 1]
  OBVIOUS

(* A call without a message may send one. *)
LEMMA SentAlone ==
  ASSUME NEW q \in Seq(Messages), NEW r \in Seq(Messages), NEW m \in Messages,
         OneMessageEach(q, r), Silent(m.from, q), Silent(m.from, r)
  PROVE  OneMessageEach(Append(q, m), r)
<1> DEFINE s == Append(q, m)
<1>1. \A i \in DOMAIN s : \/ i \in DOMAIN q /\ s[i] = q[i]
                          \/ i = Len(q) + 1 /\ i \notin DOMAIN q /\ s[i] = m
  BY AppendElements
<1> HIDE DEF s
<1> QED
  BY <1>1 DEF OneMessageEach, Silent

(* The call whose message comes back has no other. *)
LEMMA TakenAlone ==
  ASSUME NEW q \in Seq(Messages), NEW r \in Seq(Messages), OneMessageEach(q, r), r # <<>>
  PROVE  /\ OneMessageEach(q, Tail(r))
         /\ Silent(Head(r).from, q) /\ Silent(Head(r).from, Tail(r))
<1> DEFINE s == Tail(r)
<1>1. /\ 1 \in DOMAIN r /\ Head(r) = r[1]
      /\ \A i \in DOMAIN s : i \in Nat /\ i + 1 \in DOMAIN r /\ i + 1 # 1 /\ s[i] = r[i + 1]
  BY TailElements
<1> HIDE DEF s
<1>2. \A i, j \in DOMAIN s : i + 1 = j + 1 => i = j
  BY <1>1
<1>3. OneMessageEach(q, s)
  BY <1>1, <1>2 DEF OneMessageEach
<1> QED
  BY <1>1, <1>3 DEF OneMessageEach, Silent, s

LEMMA AnsweredAlone ==
  ASSUME NEW q \in Seq(Messages), NEW r \in Seq(Messages), OneMessageEach(q, r), q # <<>>,
         NEW m \in Messages, m.from = Head(q).from
  PROVE  OneMessageEach(Tail(q), Append(r, m))
<1>1. OneMessageEach(r, q)
  BY DEF OneMessageEach
<1>2. /\ OneMessageEach(r, Tail(q)) /\ Silent(m.from, r) /\ Silent(m.from, Tail(q))
      /\ Tail(q) \in Seq(Messages)
  BY <1>1, TakenAlone, TailElements
<1>3. OneMessageEach(Append(r, m), Tail(q))
  BY <1>2, SentAlone
<1> QED
  BY <1>3 DEF OneMessageEach

(* Who has no call under way has no message on the channel. *)
LEMMA IdleIsSilent ==
  ASSUME EditorTypes, MessagesBelong
  PROVE  /\ \A p \in Previews : preview[p].at = "idle" =>
                                  Silent(p, requests) /\ Silent(p, replies)
         /\ closing = "open" => Silent(Closer, requests) /\ Silent(Closer, replies)
<1>1. /\ \A i \in DOMAIN requests : requests[i] \in Messages
      /\ \A i \in DOMAIN replies : replies[i] \in Messages
  BY DEF EditorTypes
<1> QED
  BY <1>1, EditorAssumption
  DEF MessagesBelong, AllBelong, Belongs, Silent, Messages, Awaits, Closer

(* What a step of one call leaves to the others. *)
Elsewhere(c) ==
  /\ \A p \in Previews : p # c => preview'[p] = preview[p]
  /\ c # Closer => closing' = closing

LEMMA OthersBelong ==
  ASSUME NEW c, Elsewhere(c), NEW m \in Messages, m.from # c, Belongs(m)
  PROVE  Belongs(m)'
BY DEF Belongs, Elsewhere, Messages, Closer

(* The call that has no message left ends, or sends its next one. *)
LEMMA StayBelonging ==
  ASSUME NEW c, Elsewhere(c), NEW q \in Seq(Messages), AllBelong(q), Silent(c, q)
  PROVE  AllBelong(q)'
<1> SUFFICES ASSUME NEW i \in DOMAIN q PROVE Belongs(q[i])'
  BY DEF AllBelong
<1>1. q[i] \in Messages /\ q[i].from # c /\ Belongs(q[i])
  BY DEF AllBelong, Silent
<1> QED
  BY <1>1, OthersBelong

LEMMA EndsBelonging ==
  ASSUME NEW c, Elsewhere(c), EditorTypes,
         NEW q \in Seq(Messages), NEW r \in Seq(Messages),
         OneMessageEach(q, r), AllBelong(q), AllBelong(r), Silent(c, q), Silent(c, r),
         requests' = q, replies' = r
  PROVE  MessagesBelong'
<1>1. AllBelong(q)' /\ AllBelong(r)'
  BY StayBelonging
<1> QED
  BY <1>1 DEF MessagesBelong, AllBelong, Belongs, OneMessageEach

LEMMA SendsBelonging ==
  ASSUME NEW m \in Messages, NEW c, m.from = c, Elsewhere(c), EditorTypes,
         NEW q \in Seq(Messages), NEW r \in Seq(Messages),
         OneMessageEach(q, r), AllBelong(q), AllBelong(r), Silent(c, q), Silent(c, r),
         requests' = Append(q, m), replies' = r, Belongs(m)'
  PROVE  MessagesBelong'
<1>1. AllBelong(q)' /\ AllBelong(r)'
  BY StayBelonging
<1>2. OneMessageEach(Append(q, m), r)
  BY SentAlone
<1>3. \A i \in DOMAIN requests' : \/ i \in DOMAIN q /\ requests'[i] = q[i]
                                  \/ requests'[i] = m
  BY AppendElements
<1>4. AllBelong(requests)'
  BY <1>1, <1>3 DEF AllBelong, Belongs
<1>5. AllBelong(replies)'
  BY <1>1 DEF AllBelong, Belongs
<1>6. OneMessageEach(requests, replies)'
  BY <1>2 DEF OneMessageEach
<1> QED
  BY <1>4, <1>5, <1>6 DEF MessagesBelong

LEMMA MessagesTyped ==
  ASSUME NEW p \in Previews \cup {Closer}, NEW does \in Awaits,
         NEW texture \in Nat, NEW gen \in Nat
  PROVE  Message(p, does, texture, gen) \in Messages
BY DEF Message, Messages

LEMMA SentTyped ==
  ASSUME EditorTypes, NEW m \in Messages, Send(m)
  PROVE  requests' \in Seq(Messages)
BY DEF EditorTypes, Send

LEMMA AwaitsTyped ==
  ASSUME NEW call \in Calls, NEW at \in Awaits, NEW texture \in Nat
  PROVE  /\ [call EXCEPT !.at = at] \in Calls
         /\ [call EXCEPT !.at = at, !.texture = texture] \in Calls
BY DEF Calls

LEMMA CallsTyped ==
  ASSUME EditorTypes, NEW p \in Previews
  PROVE  /\ Idle \in Calls /\ preview[p] \in Calls
         /\ \A call \in Calls : [preview EXCEPT ![p] = call] \in [Previews -> Calls]
         /\ [preview EXCEPT ![p] = Idle] \in [Previews -> Calls]
         /\ \A at \in Awaits : [preview EXCEPT ![p].at = at] \in [Previews -> Calls]
<1>1. preview \in [Previews -> Calls]
  BY DEF EditorTypes
<1>2. Idle \in Calls
  BY DEF Idle, Calls
<1>3. \A call \in Calls : [preview EXCEPT ![p] = call] \in [Previews -> Calls]
  BY <1>1
<1>4. \A at \in Awaits : [preview EXCEPT ![p].at = at] \in [Previews -> Calls]
  BY <1>1, AwaitsTyped
<1> QED
  BY <1>1, <1>2, <1>3, <1>4

LEMMA RenderedTyped ==
  ASSUME EditorTypes, NEW call \in Calls
  PROVE  Rendered(call) \in Calls
<1>1. \A n, s \in Nat : [call EXCEPT !.generation = n, !.session = s] \in Calls
  BY DEF Calls
<1>2. generation + 1 \in Nat /\ production \in Nat
  BY DEF EditorTypes
<1> QED
  BY <1>1, <1>2 DEF Rendered

LEMMA SendsTyped ==
  ASSUME EditorTypes, NEW p \in Previews, NEW call \in Calls, NEW texture \in Nat,
         SendsForTexture(p, call) \/ SendsFrame(p, call, texture)
  PROVE  preview' \in [Previews -> Calls] /\ requests' \in Seq(Messages)
<1>1. /\ target.id \in Nat /\ call.generation \in Nat /\ 0 \in Nat
      /\ "dispose" \in Awaits /\ "create" \in Awaits /\ "frame" \in Awaits
  BY DEF EditorTypes, Calls, Awaits
<1>2. PICK next \in Calls, m \in Messages : preview' = [preview EXCEPT ![p] = next] /\ Send(m)
  <2>1. CASE SendsForTexture(p, call) /\ target.id # 0
    <3>1. [call EXCEPT !.at = "dispose"] \in Calls
      BY <1>1, AwaitsTyped
    <3>2. Message(p, "dispose", target.id, 0) \in Messages
      BY <1>1, MessagesTyped
    <3> QED
      BY <2>1, <3>1, <3>2 DEF SendsForTexture
  <2>2. CASE SendsForTexture(p, call) /\ target.id = 0
    <3>1. [call EXCEPT !.at = "create"] \in Calls
      BY <1>1, AwaitsTyped
    <3>2. Message(p, "create", 0, 0) \in Messages
      BY <1>1, MessagesTyped
    <3> QED
      BY <2>2, <3>1, <3>2 DEF SendsForTexture
  <2>3. CASE SendsFrame(p, call, texture)
    <3>1. [call EXCEPT !.at = "frame", !.texture = texture] \in Calls
      BY <1>1, AwaitsTyped
    <3>2. Message(p, "frame", texture, call.generation) \in Messages
      BY <1>1, MessagesTyped
    <3> QED
      BY <2>3, <3>1, <3>2 DEF SendsFrame
  <2> QED
    BY <2>1, <2>2, <2>3
<1> QED
  BY <1>2, CallsTyped, SentTyped

Sound == EditorTypes /\ SessionIsBound

(* What a disposal, a render and the end of a preview do to the session. *)
LEMMA SessionDisposed ==
  ASSUME Sound, DisposeSession
  PROVE  Dropped = 0 /\ generation' \in Nat /\ outstanding' = 0
BY DEF Sound, EditorTypes, SessionIsBound, DisposeSession, Dropped

LEMMA ReleaseIsSound ==
  ASSUME Sound, NEW next \in {"first", "second"}, Releases(next)
  PROVE  /\ production' = 0 /\ bindings' = 0 /\ outstanding' = 0 /\ generation' \in Nat
         /\ target' = NoTarget
         /\ closing' = IF target.id # 0 THEN next ELSE "closed"
         /\ IF target.id # 0 THEN Send(Message(Closer, "dispose", target.id, 0))
                             ELSE UNCHANGED requests
         /\ requests' \in Seq(Messages)
<1>1. Dropped = 0 /\ generation' \in Nat /\ outstanding' = 0
  BY SessionDisposed DEF Releases
<1>2. ASSUME target.id # 0 PROVE requests' \in Seq(Messages)
  BY <1>2, MessagesTyped, SentTyped DEF Sound, EditorTypes, Releases, Awaits, Closer
<1> QED
  BY <1>1, <1>2 DEF Releases, Finishes, Sound, EditorTypes

LEMMA RenderIsSound ==
  ASSUME EditorTypes, Renders \/ RenderFails
  PROVE  /\ generation' = generation + 1 /\ generation' \in Nat /\ outstanding' \in Nat
         /\ production' = production /\ bindings' = bindings
BY DEF EditorTypes, Renders, RenderFails

LEMMA HasTextureIsSound ==
  ASSUME Sound, NEW p \in Previews, NEW texture \in Nat, NEW size \in Sizes \cup {0},
         NEW window \in BOOLEAN, HasTexture(p, texture, size, window)
  PROVE  /\ target' \in [id : Nat, size : Sizes \cup {0}]
         /\ preview' \in [Previews -> Calls] /\ requests' \in Seq(Messages)
         /\ generation' \in Nat /\ outstanding' \in Nat
         /\ production' = production /\ bindings' = bindings
<1> USE DEF Sound
<1>1. preview[p] \in Calls /\ Rendered(preview[p]) \in Calls
  BY CallsTyped, RenderedTyped
<1>2. target' \in [id : Nat, size : Sizes \cup {0}]
  BY DEF HasTexture
<1>3. CASE ~ renderTarget
  BY <1>1, <1>2, <1>3, SendsTyped DEF HasTexture, native, EditorTypes
<1>4. CASE renderTarget /\ Renders /\ SendsFrame(p, Rendered(preview[p]), texture)
  BY <1>1, <1>2, <1>4, SendsTyped, RenderIsSound
<1>5. CASE renderTarget /\ RenderFails /\ Fails(p) /\ UNCHANGED requests
  BY <1>2, <1>5, CallsTyped, RenderIsSound DEF Fails, EditorTypes
<1>6. CASE renderTarget /\ Fails(p) /\ UNCHANGED <<native, requests, faults>>
  BY <1>2, <1>6, CallsTyped DEF Fails, native, EditorTypes
<1> QED
  BY <1>3, <1>4, <1>5, <1>6 DEF HasTexture

(* A reply that Dart resumes is one of these. *)
Resuming(p, reply) == PreviewEnds(p, reply.ok) /\ (reply.does = "frame" \/ ~ reply.ok)
GoesToCreate(p, reply) ==
  /\ reply.does = "dispose" /\ Send(Message(p, "create", 0, 0)) /\ Goes(p, "create")
  /\ UNCHANGED <<native, target, shown, faults>>
TextureCreated(p, reply) ==
  /\ reply.does = "create" /\ reply.ok
  /\ HasTexture(p, reply.texture, preview[p].size, reply.generation = 0)
TextureRefreshed(p, reply) ==
  /\ reply.does = "refresh" /\ reply.ok
  /\ HasTexture(p, reply.texture, target.size, reply.generation = 0)

LEMMA DartSteps ==
  ASSUME EditorTypes, DartResumes
  PROVE  /\ replies # <<>> /\ replies' = Tail(replies)
         /\ Head(replies) \in Messages /\ Tail(replies) \in Seq(Messages)
         /\ UNCHANGED <<renderTarget, plugin, asked, opens, overlapped>>
         /\ \/ ResumeClose(Head(replies))
            \/ \E p \in Previews :
                 /\ Head(replies).from = p /\ UNCHANGED closing
                 /\ \/ Resuming(p, Head(replies)) \/ GoesToCreate(p, Head(replies))
                    \/ TextureCreated(p, Head(replies)) \/ TextureRefreshed(p, Head(replies))
<1>1. /\ replies # <<>> /\ replies' = Tail(replies)
      /\ Head(replies) \in Messages /\ Tail(replies) \in Seq(Messages)
      /\ UNCHANGED <<renderTarget, plugin, asked, opens, overlapped>>
  BY TailElements DEF DartResumes, EditorTypes
<1>2. ASSUME NEW p \in Previews, Resume(p, Head(replies))
      PROVE  /\ Head(replies).from = p /\ UNCHANGED closing
             /\ \/ Resuming(p, Head(replies)) \/ GoesToCreate(p, Head(replies))
                \/ TextureCreated(p, Head(replies)) \/ TextureRefreshed(p, Head(replies))
  BY <1>1, <1>2 DEF Resume, Resuming, GoesToCreate, TextureCreated, TextureRefreshed,
     Messages, Awaits
<1> QED
  BY <1>1, <1>2 DEF DartResumes

LEMMA EditorInitSound == EditorInit => Sound
<1> SUFFICES ASSUME EditorInit PROVE Sound
  OBVIOUS
<1>1. Idle \in Calls /\ requests \in Seq(Messages) /\ replies \in Seq(Messages)
  BY DEF EditorInit, Idle, Calls
<1>2. preview \in [Previews -> Calls] /\ target \in [id : Nat, size : Sizes \cup {0}]
  BY <1>1 DEF EditorInit, NoTarget
<1>3. DOMAIN textures \subseteq 1..created
  BY DEF EditorInit
<1> QED
  BY <1>1, <1>2, <1>3 DEF EditorInit, Sound, EditorTypes, SessionIsBound

LEMMA OpenSound == Sound /\ OpenMedia => Sound'
<1> SUFFICES ASSUME Sound, OpenMedia PROVE Sound'
  OBVIOUS
<1>1. Dropped = 0 /\ generation' \in Nat /\ outstanding' = 0
  BY SessionDisposed DEF OpenMedia
<1>2. \/ production' = opens + 1 /\ bindings' = 1
      \/ production' = 0 /\ bindings' = 0
  BY <1>1 DEF OpenMedia, Opened, OpenFailed
<1> QED
  BY <1>1, <1>2 DEF OpenMedia, Sound, EditorTypes, SessionIsBound, wires, plugin, UnderWay

LEMMA ExportSound == Sound /\ ExportMedia => Sound'
BY DEF ExportMedia, Sound, EditorTypes, SessionIsBound, wires, plugin, bounds

(* A preview that starts, and what it sends. *)
StartsOnAndroid(p, size) ==
  /\ renderTarget /\ UNCHANGED native
  /\ overlapped' = (overlapped \/ UnderWay # {})
  /\ LET call == [Idle EXCEPT !.size = size]
     IN IF NeedsTexture(size) THEN SendsForTexture(p, call)
        ELSE /\ Send(Message(p, "refresh", target.id, 0))
             /\ preview' = [preview EXCEPT ![p] = [call EXCEPT !.at = "refresh"]]
StartsOnWindows(p, size) ==
  /\ ~ renderTarget /\ Accepts /\ Renders /\ UNCHANGED overlapped
  /\ LET call == [Idle EXCEPT !.size = size]
     IN IF NeedsTexture(size) THEN SendsForTexture(p, Rendered(call))
        ELSE SendsFrame(p, Rendered(call), target.id)
FailsToStart == /\ ~ renderTarget /\ Accepts /\ RenderFails /\ UNCHANGED overlapped
                /\ UNCHANGED <<preview, requests>>

LEMMA PreviewSteps ==
  ASSUME EditorTypes, NEW p \in Previews, NEW size \in Sizes, RenderPreview(p, size)
  PROVE  /\ closing = "open" /\ production # 0 /\ preview[p] = Idle
         /\ UNCHANGED <<renderTarget, target, closing, shown, replies, plugin, opens>>
         /\ StartsOnAndroid(p, size) \/ StartsOnWindows(p, size) \/ FailsToStart
<1>1. overlapped' = (overlapped \/ (renderTarget /\ UnderWay # {}))
  BY DEF RenderPreview
<1>2. CASE renderTarget
  BY <1>1, <1>2 DEF RenderPreview, StartsOnAndroid
<1>3. CASE ~ renderTarget
  <2>1. overlapped' = overlapped
    BY <1>1, <1>3 DEF EditorTypes
  <2> QED
    BY <2>1, <1>3 DEF RenderPreview, StartsOnWindows, FailsToStart
<1> QED
  BY <1>2, <1>3

LEMMA StartTyped ==
  ASSUME EditorTypes, NEW p \in Previews, NEW size \in Sizes,
         StartsOnAndroid(p, size) \/ StartsOnWindows(p, size)
  PROVE  preview' \in [Previews -> Calls] /\ requests' \in Seq(Messages)
<1> DEFINE call == [Idle EXCEPT !.size = size]
<1>1. call \in Calls
  BY DEF Idle, Calls
<1>2. Rendered(call) \in Calls
  BY <1>1, RenderedTyped
<1>3. target.id \in Nat /\ "refresh" \in Awaits
  BY DEF EditorTypes, Awaits
<1>4. [call EXCEPT !.at = "refresh"] \in Calls /\ Message(p, "refresh", target.id, 0) \in Messages
  BY <1>1, <1>3, AwaitsTyped, MessagesTyped
<1> HIDE DEF call
<1> QED
  BY <1>1, <1>2, <1>3, <1>4, SendsTyped, SentTyped, CallsTyped
  DEF StartsOnAndroid, StartsOnWindows, call

LEMMA PreviewSound ==
  ASSUME Sound, NEW p \in Previews, NEW size \in Sizes, RenderPreview(p, size)
  PROVE  Sound'
<1> USE DEF Sound
<1>1. /\ UNCHANGED <<renderTarget, target, closing, shown, replies, plugin, opens>>
      /\ StartsOnAndroid(p, size) \/ StartsOnWindows(p, size) \/ FailsToStart
  BY PreviewSteps
<1>2. /\ generation' \in Nat /\ outstanding' \in Nat
      /\ production' = production /\ bindings' = bindings
  BY <1>1, RenderIsSound DEF StartsOnAndroid, StartsOnWindows, FailsToStart, native, EditorTypes
<1>3. preview' \in [Previews -> Calls] /\ requests' \in Seq(Messages)
  BY <1>1, StartTyped DEF FailsToStart, EditorTypes
<1>4. overlapped' \in BOOLEAN
  BY <1>1 DEF StartsOnAndroid, StartsOnWindows, FailsToStart, EditorTypes
<1> QED
  BY <1>1, <1>2, <1>3, <1>4 DEF EditorTypes, SessionIsBound, plugin

LEMMA CloseSound == Sound /\ CloseEditor => Sound'
<1> SUFFICES ASSUME Sound, CloseEditor PROVE Sound'
  OBVIOUS
<1>1. /\ production' = 0 /\ bindings' = 0 /\ outstanding' = 0 /\ generation' \in Nat
      /\ target' = NoTarget
      /\ closing' = IF target.id # 0 THEN "first" ELSE "closed"
      /\ requests' \in Seq(Messages)
  BY ReleaseIsSound DEF CloseEditor
<1>2. target' \in [id : Nat, size : Sizes \cup {0}]
  BY <1>1 DEF NoTarget
<1>3. overlapped' \in BOOLEAN
  BY DEF CloseEditor
<1> QED
  BY <1>1, <1>2, <1>3 DEF CloseEditor, Sound, EditorTypes, SessionIsBound, plugin, bounds

LEMMA DartSound == Sound /\ MessagesBelong /\ DartResumes => Sound'
<1> SUFFICES ASSUME Sound, MessagesBelong, DartResumes PROVE Sound'
  OBVIOUS
<1> USE DEF Sound
<1> DEFINE r == Head(replies)
<1>1. /\ r \in Messages /\ replies' \in Seq(Messages)
      /\ UNCHANGED <<renderTarget, plugin, asked, opens, overlapped>>
      /\ \/ ResumeClose(r)
         \/ \E p \in Previews :
              /\ r.from = p /\ UNCHANGED closing
              /\ Resuming(p, r) \/ GoesToCreate(p, r) \/ TextureCreated(p, r) \/ TextureRefreshed(p, r)
  BY DartSteps
<1>9. Belongs(r)
  BY DartSteps, TailElements DEF MessagesBelong, AllBelong, EditorTypes
<1> HIDE DEF r
<1>2. r.texture \in Nat /\ (r.generation = 0) \in BOOLEAN /\ r.ok \in BOOLEAN
  BY <1>1 DEF Messages
<1>3. SUFFICES
        /\ production' \in Nat /\ generation' \in Nat /\ outstanding' \in Nat
        /\ bindings' = IF production' = 0 THEN 0 ELSE 1
        /\ target' \in [id : Nat, size : Sizes \cup {0}]
        /\ preview' \in [Previews -> Calls] /\ requests' \in Seq(Messages)
        /\ closing' \in {"open", "first", "second", "closed"}
        /\ closing' # "open" => production' = 0
  BY <1>1 DEF EditorTypes, SessionIsBound, plugin
<1>4. CASE ResumeClose(r) /\ closing = "first"
  <2>1. Releases("second") /\ UNCHANGED preview
    BY <1>4 DEF ResumeClose
  <2>2. /\ production' = 0 /\ bindings' = 0 /\ outstanding' = 0 /\ generation' \in Nat
        /\ target' = NoTarget
        /\ closing' = IF target.id # 0 THEN "second" ELSE "closed"
        /\ requests' \in Seq(Messages)
    BY <2>1, ReleaseIsSound
  <2>3. target' \in [id : Nat, size : Sizes \cup {0}]
    BY <2>2 DEF NoTarget
  <2> QED
    BY <2>1, <2>2, <2>3 DEF EditorTypes
<1>5. CASE ResumeClose(r) /\ closing # "first"
  <2>1. UNCHANGED <<native, target, requests, preview>> /\ Finishes
    BY <1>5 DEF ResumeClose
  <2>2. closing' \in {"closed", "threw"} /\ (closing' = "closed" \/ bindings' # 0)
    BY <2>1 DEF Finishes
  <2>3. closing # "open"
    BY <1>5, <1>9 DEF ResumeClose, Belongs
  <2>4. closing' = "closed" /\ production' = 0
    BY <2>1, <2>2, <2>3 DEF SessionIsBound, native
  <2> QED
    BY <2>1, <2>4 DEF EditorTypes, SessionIsBound, native
<1>6. ASSUME NEW p \in Previews, Resuming(p, r), UNCHANGED closing
      PROVE  /\ production' = production /\ bindings' = bindings /\ target' = target
             /\ generation' \in Nat /\ outstanding' \in Nat
             /\ preview' \in [Previews -> Calls] /\ requests' \in Seq(Messages)
  BY <1>6, CallsTyped DEF Resuming, PreviewEnds, Consumes, Fails, EditorTypes
<1>7. ASSUME NEW p \in Previews, GoesToCreate(p, r), UNCHANGED closing
      PROVE  /\ production' = production /\ bindings' = bindings /\ target' = target
             /\ generation' \in Nat /\ outstanding' \in Nat
             /\ preview' \in [Previews -> Calls] /\ requests' \in Seq(Messages)
  <2>1. "create" \in Awaits /\ Message(p, "create", 0, 0) \in Messages
    BY MessagesTyped DEF Awaits
  <2> QED
    BY <2>1, <1>7, SentTyped, CallsTyped DEF GoesToCreate, Goes, native, EditorTypes
<1>8. ASSUME NEW p \in Previews, TextureCreated(p, r) \/ TextureRefreshed(p, r), UNCHANGED closing
      PROVE  /\ production' = production /\ bindings' = bindings
             /\ target' \in [id : Nat, size : Sizes \cup {0}]
             /\ generation' \in Nat /\ outstanding' \in Nat
             /\ preview' \in [Previews -> Calls] /\ requests' \in Seq(Messages)
  <2>1. preview[p].size \in Sizes \cup {0} /\ target.size \in Sizes \cup {0}
    BY DEF EditorTypes, Calls
  <2> QED
    BY <2>1, <1>2, <1>8, HasTextureIsSound DEF TextureCreated, TextureRefreshed
<1> QED
  BY <1>1, <1>4, <1>5, <1>6, <1>7, <1>8 DEF EditorTypes, SessionIsBound

(* The host answers the next message in the same words, but for the        *)
(* texture of a creation, a window that is missing, and success.           *)
HostAnswers(m, answer) ==
  /\ requests' = Tail(requests) /\ replies' = Append(replies, answer)
  /\ UNCHANGED <<renderTarget, native, target, preview, closing, shown, asked, opens, overlapped>>
  /\ answer \in Messages /\ answer.from = m.from /\ answer.does = m.does
  /\ m.does = "frame" => answer.generation = m.generation
  /\ \/ /\ DOMAIN textures' = DOMAIN textures /\ created' = created
        /\ answer.texture = m.texture
        /\ m.does # "dispose" /\ (m.does # "create" \/ ~ answer.ok)
     \/ /\ m.does = "dispose" /\ DOMAIN textures' = DOMAIN textures \ {m.texture}
        /\ created' = created /\ answer.texture = m.texture
     \/ /\ m.does = "create" /\ created' = created + 1 /\ answer.texture = created'
        /\ DOMAIN textures' = DOMAIN textures \cup {created'} /\ answer.ok = m.ok

LEMMA AnswersTyped ==
  ASSUME NEW m \in Messages
  PROVE  /\ \A ok \in BOOLEAN :
              LET a == [m EXCEPT !.ok = ok]
              IN  /\ a \in Messages /\ a.ok = ok /\ a.from = m.from /\ a.does = m.does
                  /\ a.texture = m.texture /\ a.generation = m.generation
         /\ LET a == [m EXCEPT !.generation = 1]
            IN  a \in Messages /\ a.from = m.from /\ a.does = m.does /\ a.texture = m.texture
         /\ \A id \in Nat :
              LET a == [m EXCEPT !.texture = id]
              IN  /\ a \in Messages /\ a.from = m.from /\ a.does = m.does
                  /\ a.texture = id /\ a.ok = m.ok
         /\ \A id \in Nat :
              LET a == [m EXCEPT !.texture = id, !.generation = 1]
              IN  /\ a \in Messages /\ a.from = m.from /\ a.does = m.does
                  /\ a.texture = id /\ a.ok = m.ok
BY DEF Messages

LEMMA HostSteps ==
  ASSUME EditorTypes, HostHandles
  PROVE  /\ requests # <<>> /\ Head(requests) \in Messages
         /\ Tail(requests) \in Seq(Messages)
         /\ \E answer \in Messages : HostAnswers(Head(requests), answer)
<1>1. /\ requests # <<>> /\ requests' = Tail(requests)
      /\ Head(requests) \in Messages /\ Tail(requests) \in Seq(Messages)
  BY TailElements DEF HostHandles, EditorTypes
<1>2. PICK m \in Messages : m = Head(requests)
  BY <1>1
<1>3. /\ UNCHANGED <<renderTarget, native, target, preview, closing, shown, asked, opens, overlapped>>
      /\ \/ m.does = "dispose" /\ Disposes(m)
         \/ m.does = "create"  /\ Creates(m)
         \/ m.does = "refresh" /\ Refreshes(m)
         \/ m.does = "frame"   /\ ShowsFrame(m)
  BY <1>2 DEF HostHandles
<1>4. CASE m.does = "dispose" /\ Disposes(m)
  <2>1. HostAnswers(m, m)
    BY <1>1, <1>2, <1>3, <1>4 DEF Disposes, HostAnswers
  <2> QED
    BY <1>1, <1>2, <2>1
<1>5. CASE m.does = "create" /\ Creates(m)
  <2>1. ASSUME NEW answer \in Messages, replies' = Append(replies, answer),
               answer.from = m.from, answer.does = m.does, answer.texture = m.texture,
               ~ answer.ok, UNCHANGED plugin
        PROVE  HostAnswers(m, answer)
    BY <1>1, <1>2, <1>3, <1>5, <2>1 DEF HostAnswers, plugin
  <2>2. ASSUME NEW answer \in Messages, replies' = Append(replies, answer),
               answer.from = m.from, answer.does = m.does, answer.ok = m.ok,
               answer.texture = created', created' = created + 1,
               DOMAIN textures' = DOMAIN textures \cup {created'}
        PROVE  HostAnswers(m, answer)
    BY <1>1, <1>2, <1>3, <1>5, <2>2 DEF HostAnswers
  <2>3. CASE replies' = Append(replies, [m EXCEPT !.ok = FALSE]) /\ UNCHANGED plugin
    <3> DEFINE answer == [m EXCEPT !.ok = FALSE]
    <3>1. /\ answer \in Messages /\ answer.from = m.from /\ answer.does = m.does
          /\ answer.texture = m.texture /\ ~ answer.ok
      BY AnswersTyped
    <3>2. replies' = Append(replies, answer)
      BY <2>3
    <3> HIDE DEF answer
    <3> QED
      BY <2>1, <2>3, <3>1, <3>2, <1>1, <1>2
  <2>4. ASSUME created' = created + 1,
               DOMAIN textures' = DOMAIN textures \cup {created'},
               \/ replies' = Append(replies, [m EXCEPT !.texture = created'])
               \/ replies' = Append(replies, [m EXCEPT !.texture = created', !.generation = 1])
        PROVE  \E answer \in Messages : HostAnswers(m, answer)
    <3>1. created' \in Nat
      BY <2>4 DEF EditorTypes
    <3>2. PICK id \in Nat : id = created'
      BY <3>1
    <3>3. PICK answer \in { [m EXCEPT !.texture = id], [m EXCEPT !.texture = id, !.generation = 1] } :
            replies' = Append(replies, answer)
      BY <2>4, <3>2
    <3>4. /\ answer \in Messages /\ answer.from = m.from /\ answer.does = m.does
          /\ answer.texture = id /\ answer.ok = m.ok
      <4>1. CASE answer = [m EXCEPT !.texture = id]
        BY <4>1 DEF Messages
      <4>2. CASE answer = [m EXCEPT !.texture = id, !.generation = 1]
        BY <4>2 DEF Messages
      <4> QED
        BY <3>3, <4>1, <4>2
    <3> QED
      BY <2>2, <2>4, <3>2, <3>3, <3>4
  <2>5. \/ replies' = Append(replies, [m EXCEPT !.ok = FALSE]) /\ UNCHANGED plugin
        \/ /\ created' = created + 1 /\ DOMAIN textures' = DOMAIN textures \cup {created'}
           /\ \/ replies' = Append(replies, [m EXCEPT !.texture = created'])
              \/ replies' = Append(replies, [m EXCEPT !.texture = created', !.generation = 1])
    BY <1>5 DEF Creates
  <2> QED
    BY <1>1, <1>2, <2>3, <2>4, <2>5
<1>6. ASSUME NEW answer \in Messages, replies' = Append(replies, answer),
             answer.from = m.from, answer.does = m.does, answer.texture = m.texture,
             DOMAIN textures' = DOMAIN textures, created' = created,
             \/ m.does = "refresh"
             \/ m.does = "frame" /\ answer.generation = m.generation
      PROVE  HostAnswers(m, answer)
  BY <1>1, <1>2, <1>3, <1>6 DEF HostAnswers
<1>7. CASE m.does = "refresh" /\ Refreshes(m)
  <2>1. DOMAIN textures' = DOMAIN textures /\ created' = created
    BY <1>7 DEF Refreshes, plugin
  <2>2. (m.texture \in DOMAIN textures) \in BOOLEAN
    OBVIOUS
  <2>3. PICK ok \in BOOLEAN : ok = Registered(m.texture)
    BY <2>2 DEF Registered
  <2>4. PICK answer \in { [m EXCEPT !.ok = ok], [m EXCEPT !.generation = 1] } :
          replies' = Append(replies, answer)
    BY <1>7, <2>3 DEF Refreshes
  <2>5. answer \in Messages /\ answer.from = m.from /\ answer.does = m.does
        /\ answer.texture = m.texture
    BY <2>4 DEF Messages
  <2> QED
    BY <1>1, <1>2, <1>6, <1>7, <2>1, <2>4, <2>5
<1>8. CASE m.does = "frame" /\ ShowsFrame(m)
  <2>1. DOMAIN textures' = DOMAIN textures /\ created' = created
    BY <1>8 DEF ShowsFrame, plugin
  <2>2. PICK answer \in { m, [m EXCEPT !.ok = FALSE] } : replies' = Append(replies, answer)
    BY <1>8 DEF ShowsFrame
  <2>3. answer \in Messages /\ answer.from = m.from /\ answer.does = m.does
        /\ answer.texture = m.texture /\ answer.generation = m.generation
    BY <2>2 DEF Messages
  <2> QED
    BY <1>1, <1>2, <1>6, <1>8, <2>1, <2>2, <2>3
<1> QED
  BY <1>1, <1>2, <1>3, <1>4, <1>5, <1>7, <1>8

LEMMA HostSound == Sound /\ HostHandles => Sound'
<1> SUFFICES ASSUME Sound, HostHandles PROVE Sound'
  OBVIOUS
<1>1. /\ Head(requests) \in Messages /\ Tail(requests) \in Seq(Messages)
      /\ \E answer \in Messages : HostAnswers(Head(requests), answer)
  BY HostSteps DEF Sound
<1>2. PICK m \in Messages, answer \in Messages : HostAnswers(m, answer)
  BY <1>1
<1>3. requests' \in Seq(Messages) /\ replies' \in Seq(Messages)
  BY <1>1, <1>2 DEF HostAnswers, Sound, EditorTypes
<1>4. created' \in Nat /\ DOMAIN textures' \subseteq 1..created'
  BY <1>2 DEF HostAnswers, Sound, EditorTypes
<1> QED
  BY <1>2, <1>3, <1>4 DEF HostAnswers, Sound, EditorTypes, SessionIsBound, native

LEMMA EditorSound == Sound /\ MessagesBelong /\ [EditorNext]_evars => Sound'
<1> SUFFICES ASSUME Sound, MessagesBelong, [EditorNext]_evars PROVE Sound'
  OBVIOUS
<1>1. CASE UNCHANGED evars
  BY <1>1 DEF evars, native, wires, plugin, bounds, Sound, EditorTypes, SessionIsBound
<1> QED
  BY <1>1, OpenSound, ExportSound, CloseSound, DartSound, HostSound, PreviewSound
  DEF EditorNext

(* Every send of a preview: its call is then in the await of the message.  *)
Sends(p, m, gen, media) ==
  /\ Send(m) /\ m.from = p /\ m.ok
  /\ preview'[p].at = m.does /\ preview'[p].generation = gen /\ preview'[p].session = media
  /\ m.does = "frame" => m.generation = gen
  /\ m.does = "create" => m.texture = 0
  /\ m.does = "dispose" => m.texture = target.id
  /\ \A q \in Previews : q # p => preview'[q] = preview[q]

LEMMA TextureSent ==
  ASSUME EditorTypes, NEW p \in Previews, NEW call \in Calls, SendsForTexture(p, call)
  PROVE  \E m \in Messages : /\ Sends(p, m, call.generation, call.session)
                             /\ m.does = IF target.id # 0 THEN "dispose" ELSE "create"
<1> USE DEF Message, Messages, Awaits
<1>1. preview \in [Previews -> Calls] /\ target.id \in Nat
  BY DEF EditorTypes
<1>2. CASE target.id # 0
  <2> DEFINE m == Message(p, "dispose", target.id, 0)
  <2>1. m \in Messages /\ Sends(p, m, call.generation, call.session)
    BY <1>1, <1>2 DEF SendsForTexture, Sends, Calls
  <2> QED
    BY <1>2, <2>1
<1>3. CASE target.id = 0
  <2> DEFINE m == Message(p, "create", 0, 0)
  <2>1. m \in Messages /\ Sends(p, m, call.generation, call.session)
    BY <1>1, <1>3 DEF SendsForTexture, Sends, Calls
  <2> QED
    BY <1>3, <2>1
<1> QED
  BY <1>2, <1>3

LEMMA FrameSent ==
  ASSUME EditorTypes, NEW p \in Previews, NEW call \in Calls, NEW texture \in Nat,
         SendsFrame(p, call, texture)
  PROVE  \E m \in Messages : Sends(p, m, call.generation, call.session) /\ m.does = "frame"
<1> DEFINE m == Message(p, "frame", texture, call.generation)
<1>1. preview \in [Previews -> Calls]
  BY DEF EditorTypes
<1>2. m \in Messages /\ Sends(p, m, call.generation, call.session)
  BY <1>1 DEF SendsFrame, Sends, Calls, Message, Messages, Awaits
<1> QED
  BY <1>2 DEF Message

LEMMA RefreshSent ==
  ASSUME EditorTypes, NEW p \in Previews, NEW size \in Sizes,
         Send(Message(p, "refresh", target.id, 0)),
         preview' = [preview EXCEPT ![p] = [[Idle EXCEPT !.size = size] EXCEPT !.at = "refresh"]]
  PROVE  \E m \in Messages : /\ Sends(p, m, 0, 0) /\ m.does = "refresh"
                             /\ m.texture = target.id
<1> DEFINE m == Message(p, "refresh", target.id, 0)
<1>1. preview \in [Previews -> Calls] /\ target.id \in Nat
  BY DEF EditorTypes
<1>2. m \in Messages /\ Sends(p, m, 0, 0)
  BY <1>1 DEF Sends, Calls, Message, Messages, Awaits, Idle
<1> QED
  BY <1>2 DEF Message

LEMMA AndroidStarts ==
  ASSUME EditorTypes, NEW p \in Previews, NEW size \in Sizes, StartsOnAndroid(p, size)
  PROVE  \E m \in Messages :
           /\ Sends(p, m, 0, 0)
           /\ \/ m.does = "refresh" /\ m.texture = target.id
              \/ m.does = IF target.id # 0 THEN "dispose" ELSE "create"
<1> DEFINE call == [Idle EXCEPT !.size = size]
<1>1. call \in Calls /\ call.generation = 0 /\ call.session = 0
  BY DEF Idle, Calls
<1>2. CASE SendsForTexture(p, call)
  BY <1>1, <1>2, TextureSent
<1> QED
  BY <1>2, RefreshSent DEF StartsOnAndroid

LEMMA WindowsStarts ==
  ASSUME EditorTypes, NEW p \in Previews, NEW size \in Sizes, StartsOnWindows(p, size)
  PROVE  \E m \in Messages :
           /\ Sends(p, m, generation + 1, production)
           /\ m.does = "frame" \/ m.does = IF target.id # 0 THEN "dispose" ELSE "create"
<1> DEFINE call == Rendered([Idle EXCEPT !.size = size])
<1>1. [Idle EXCEPT !.size = size] \in Calls
  BY DEF Idle, Calls
<1>2. call \in Calls
  BY <1>1, RenderedTyped
<1>3. call.generation = generation + 1 /\ call.session = production
  BY DEF Rendered, Idle
<1>4. target.id \in Nat
  BY DEF EditorTypes
<1> HIDE DEF call
<1>5. SendsForTexture(p, call) \/ SendsFrame(p, call, target.id)
  BY DEF StartsOnWindows, call
<1> QED
  BY <1>2, <1>3, <1>4, <1>5, TextureSent, FrameSent

(* A texture that is there ends a preview on Android that cannot render,   *)
(* and is sent the frame otherwise.                                        *)
TextureServes(p, m) ==
  /\ m.does = "frame"
  /\ IF renderTarget THEN Accepts /\ Renders /\ Sends(p, m, generation + 1, production)
     ELSE UNCHANGED native /\ Sends(p, m, preview[p].generation, preview[p].session)
TextureFails(p) ==
  /\ renderTarget /\ Fails(p) /\ UNCHANGED <<requests, outstanding, production, bindings>>

LEMMA TextureStep ==
  ASSUME EditorTypes, NEW p \in Previews, NEW texture \in Nat, NEW size, NEW window,
         HasTexture(p, texture, size, window)
  PROVE  /\ target' = [id |-> texture, size |-> size]
         /\ TextureFails(p) \/ \E m \in Messages : TextureServes(p, m)
<1>1. preview[p] \in Calls /\ Rendered(preview[p]) \in Calls
  BY CallsTyped, RenderedTyped
<1>2. /\ Rendered(preview[p]).generation = generation + 1
      /\ Rendered(preview[p]).session = production
  BY <1>1 DEF Rendered, Calls
<1>3. CASE ~ renderTarget
  <2>1. SendsFrame(p, preview[p], texture) /\ UNCHANGED native
    BY <1>3 DEF HasTexture
  <2> QED
    BY <1>1, <1>3, <2>1, FrameSent DEF TextureServes, HasTexture
<1>4. CASE renderTarget /\ Accepts /\ Renders /\ SendsFrame(p, Rendered(preview[p]), texture)
  <2>1. \E m \in Messages : Sends(p, m, generation + 1, production) /\ m.does = "frame"
    <3> DEFINE call == Rendered(preview[p])
    <3> HIDE DEF call
    <3>1. call \in Calls /\ SendsFrame(p, call, texture)
      BY <1>1, <1>4 DEF call
    <3>2. \E m \in Messages : Sends(p, m, call.generation, call.session) /\ m.does = "frame"
      BY <3>1, FrameSent
    <3> QED
      BY <1>2, <3>2 DEF call
  <2> QED
    BY <1>4, <2>1 DEF TextureServes, HasTexture
<1>5. CASE renderTarget /\ Fails(p) /\ UNCHANGED requests /\ (RenderFails \/ UNCHANGED native)
  BY <1>5 DEF TextureFails, RenderFails, native, HasTexture
<1> QED
  BY <1>3, <1>4, <1>5 DEF HasTexture

-----------------------------------------------------------------------------
(* The messages stay those of the calls. *)

LEMMA SendsKeepBelonging ==
  ASSUME EditorTypes, NEW p \in Previews, NEW m \in Messages, NEW gen, NEW media,
         Sends(p, m, gen, media), closing' = closing,
         NEW r \in Seq(Messages), replies' = r,
         OneMessageEach(requests, r), AllBelong(requests), AllBelong(r),
         Silent(p, requests), Silent(p, r)
  PROVE  MessagesBelong'
<1>1. Elsewhere(p)
  BY DEF Sends, Elsewhere
<1>2. p # Closer
  BY EditorAssumption DEF Closer
<1>3. Belongs(m)'
  BY <1>2 DEF Sends, Belongs
<1>4. PICK q \in Seq(Messages) : q = requests
  BY DEF EditorTypes
<1>5. requests' = Append(q, m) /\ m.from = p
  BY <1>4 DEF Sends, Send
<1> QED
  BY <1>1, <1>3, <1>4, <1>5, SendsBelonging

LEMMA CloserBelongs ==
  ASSUME EditorTypes, UNCHANGED preview, NEW id \in Nat,
         NEW r \in Seq(Messages), replies' = r,
         OneMessageEach(requests, r), AllBelong(requests), AllBelong(r),
         Silent(Closer, requests), Silent(Closer, r),
         \/ UNCHANGED requests
         \/ Send(Message(Closer, "dispose", id, 0)) /\ closing' \in {"first", "second"}
  PROVE  MessagesBelong'
<1>1. Elsewhere(Closer)
  BY DEF Elsewhere
<1>2. PICK q \in Seq(Messages) : q = requests
  BY DEF EditorTypes
<1>3. CASE UNCHANGED requests
  BY <1>1, <1>2, <1>3, EndsBelonging
<1>4. CASE Send(Message(Closer, "dispose", id, 0)) /\ closing' \in {"first", "second"}
  <2>1. PICK m \in Messages : m = Message(Closer, "dispose", id, 0)
    BY MessagesTyped DEF Awaits
  <2>2. m.from = Closer /\ Belongs(m)' /\ requests' = Append(q, m)
    BY <1>2, <1>4, <2>1 DEF Message, Belongs, Send
  <2> QED
    BY <1>1, <1>2, <2>2, SendsBelonging
<1> QED
  BY <1>3, <1>4

LEMMA OpenBelongs == EditorTypes /\ MessagesBelong /\ (OpenMedia \/ ExportMedia) => MessagesBelong'
BY DEF OpenMedia, ExportMedia, wires, MessagesBelong, OneMessageEach, AllBelong, Belongs

LEMMA PreviewBelongs ==
  ASSUME EditorTypes, MessagesBelong, NEW p \in Previews, NEW size \in Sizes,
         RenderPreview(p, size)
  PROVE  MessagesBelong'
<1>1. /\ preview[p] = Idle /\ UNCHANGED <<closing, replies>>
      /\ StartsOnAndroid(p, size) \/ StartsOnWindows(p, size) \/ FailsToStart
  BY PreviewSteps
<1>2. Silent(p, requests) /\ Silent(p, replies)
  BY <1>1, IdleIsSilent DEF Idle
<1>3. CASE FailsToStart
  BY <1>1, <1>3 DEF FailsToStart, MessagesBelong, OneMessageEach, AllBelong, Belongs
<1>4. ASSUME NEW gen, NEW media, NEW m \in Messages, Sends(p, m, gen, media)
      PROVE  MessagesBelong'
  <2>1. PICK r \in Seq(Messages) : r = replies
    BY DEF EditorTypes
  <2> QED
    BY <1>1, <1>2, <1>4, <2>1, SendsKeepBelonging DEF MessagesBelong
<1> QED
  BY <1>1, <1>3, <1>4, AndroidStarts, WindowsStarts

LEMMA CloseBelongs == Sound /\ MessagesBelong /\ CloseEditor => MessagesBelong'
<1> SUFFICES ASSUME Sound, MessagesBelong, CloseEditor PROVE MessagesBelong'
  OBVIOUS
<1>1. EditorTypes /\ target.id \in Nat
  BY DEF Sound, EditorTypes
<1>2. /\ UNCHANGED preview /\ UNCHANGED replies
      /\ \/ UNCHANGED requests
         \/ Send(Message(Closer, "dispose", target.id, 0)) /\ closing' \in {"first", "second"}
  BY ReleaseIsSound DEF CloseEditor
<1>3. Silent(Closer, requests) /\ Silent(Closer, replies)
  BY <1>1, IdleIsSilent DEF CloseEditor
<1>4. PICK r \in Seq(Messages) : r = replies
  BY <1>1 DEF EditorTypes
<1> QED
  BY <1>1, <1>2, <1>3, <1>4, CloserBelongs DEF MessagesBelong

(* The call that gets its reply has no message left. *)
LEMMA ReplyTaken ==
  ASSUME EditorTypes, MessagesBelong, replies # <<>>
  PROVE  /\ Tail(replies) \in Seq(Messages) /\ Belongs(Head(replies))
         /\ OneMessageEach(requests, Tail(replies))
         /\ AllBelong(requests) /\ AllBelong(Tail(replies))
         /\ Silent(Head(replies).from, requests) /\ Silent(Head(replies).from, Tail(replies))
<1>1. requests \in Seq(Messages) /\ replies \in Seq(Messages)
  BY DEF EditorTypes
<1>2. /\ Tail(replies) \in Seq(Messages) /\ Belongs(Head(replies)) /\ AllBelong(Tail(replies))
  BY <1>1, TailElements DEF MessagesBelong, AllBelong
<1> QED
  BY <1>1, <1>2, TakenAlone DEF MessagesBelong

LEMMA DartBelongs == Sound /\ MessagesBelong /\ DartResumes => MessagesBelong'
<1> SUFFICES ASSUME Sound, MessagesBelong, DartResumes PROVE MessagesBelong'
  OBVIOUS
<1>1. EditorTypes /\ target.id \in Nat
  BY DEF Sound, EditorTypes
<1>2. replies # <<>>
  BY DEF DartResumes
<1>3. PICK r \in Messages, t \in Seq(Messages), c \in Previews \cup {Closer} :
        r = Head(replies) /\ t = Tail(replies) /\ c = r.from
  BY <1>1, <1>2, TailElements DEF EditorTypes, Messages
<1>4. /\ Belongs(r) /\ OneMessageEach(requests, t) /\ AllBelong(requests) /\ AllBelong(t)
      /\ Silent(c, requests) /\ Silent(c, t) /\ replies' = t
  BY <1>1, <1>2, <1>3, ReplyTaken DEF DartResumes
<1>5. CASE ResumeClose(r)
  <2>1. c = Closer /\ UNCHANGED preview
    BY <1>3, <1>5 DEF ResumeClose
  <2>2. \/ UNCHANGED requests
        \/ Send(Message(Closer, "dispose", target.id, 0)) /\ closing' \in {"first", "second"}
    BY <1>5, ReleaseIsSound DEF ResumeClose
  <2> QED
    BY <1>1, <1>4, <2>1, <2>2, CloserBelongs
<1>6. ASSUME c \in Previews, Fails(c), UNCHANGED <<closing, requests>>
      PROVE  MessagesBelong'
  <2>1. Elsewhere(c)
    BY <1>1, <1>6 DEF Fails, Elsewhere, EditorTypes
  <2>2. PICK q \in Seq(Messages) : q = requests
    BY <1>1 DEF EditorTypes
  <2> QED
    BY <1>1, <1>4, <1>6, <2>1, <2>2, EndsBelonging
<1>7. ASSUME c \in Previews, UNCHANGED closing,
             NEW gen, NEW media, NEW m \in Messages, Sends(c, m, gen, media)
      PROVE  MessagesBelong'
  BY <1>1, <1>4, <1>7, SendsKeepBelonging
<1>8. ASSUME c \in Previews, UNCHANGED closing, GoesToCreate(c, r)
      PROVE  MessagesBelong'
  <2> DEFINE m == Message(c, "create", 0, 0)
  <2>1. m \in Messages
    BY <1>8, MessagesTyped DEF Awaits
  <2>2. Sends(c, m, preview[c].generation, preview[c].session)
    BY <1>1, <1>8 DEF GoesToCreate, Goes, Sends, Message, EditorTypes, Calls
  <2> QED
    BY <1>7, <1>8, <2>1, <2>2
<1>9. ASSUME c \in Previews, UNCHANGED closing, TextureCreated(c, r) \/ TextureRefreshed(c, r)
      PROVE  MessagesBelong'
  <2>1. TextureFails(c) \/ \E m \in Messages : TextureServes(c, m)
    BY <1>1, <1>9, TextureStep DEF TextureCreated, TextureRefreshed, Messages
  <2> QED
    BY <1>6, <1>7, <1>9, <2>1 DEF TextureFails, TextureServes
<1>10. ASSUME c \in Previews, UNCHANGED closing, Resuming(c, r)
       PROVE  MessagesBelong'
  BY <1>6, <1>10 DEF Resuming, PreviewEnds
<1> QED
  BY <1>1, <1>3, <1>5, <1>8, <1>9, <1>10, DartSteps

LEMMA HostBelongs == Sound /\ MessagesBelong /\ HostHandles => MessagesBelong'
<1> SUFFICES ASSUME Sound, MessagesBelong, HostHandles PROVE MessagesBelong'
  OBVIOUS
<1>1. EditorTypes /\ requests \in Seq(Messages) /\ replies \in Seq(Messages)
  BY DEF Sound, EditorTypes
<1>2. requests # <<>>
  BY DEF HostHandles
<1>3. PICK m \in Messages, answer \in Messages : m = Head(requests) /\ HostAnswers(m, answer)
  BY <1>1, HostSteps
<1>4. Belongs(m) /\ AllBelong(Tail(requests))
  BY <1>1, <1>2, <1>3, TailElements DEF MessagesBelong, AllBelong
<1>5. Belongs(answer)
  BY <1>3, <1>4 DEF HostAnswers, Belongs
<1>6. OneMessageEach(requests, replies)'
  <2>1. OneMessageEach(Tail(requests), Append(replies, answer))
    BY <1>1, <1>2, <1>3, AnsweredAlone DEF MessagesBelong, HostAnswers
  <2> QED
    BY <1>3, <2>1 DEF HostAnswers, OneMessageEach
<1>7. AllBelong(requests)'
  BY <1>3, <1>4 DEF HostAnswers, AllBelong, Belongs
<1>8. \A i \in DOMAIN replies' : Belongs(replies'[i])
  BY <1>1, <1>3, <1>5, AppendElements DEF MessagesBelong, AllBelong, HostAnswers
<1>9. AllBelong(replies)'
  BY <1>3, <1>8 DEF HostAnswers, AllBelong, Belongs
<1> QED
  BY <1>6, <1>7, <1>9 DEF MessagesBelong

LEMMA EditorBelongs == Sound /\ MessagesBelong /\ [EditorNext]_evars => MessagesBelong'
<1> SUFFICES ASSUME Sound, MessagesBelong, [EditorNext]_evars PROVE MessagesBelong'
  OBVIOUS
<1>1. CASE UNCHANGED evars
  BY <1>1 DEF evars, wires, MessagesBelong, OneMessageEach, AllBelong, Belongs
<1>2. EditorTypes
  BY DEF Sound
<1> QED
  BY <1>1, <1>2, OpenBelongs, PreviewBelongs, CloseBelongs, DartBelongs, HostBelongs
  DEF EditorNext

-----------------------------------------------------------------------------
(* A frame that is out is the one of a call under way. *)

Framed == FramesBelong /\ OutstandingHasOwner

LEMMA NothingOutIsFramed ==
  ASSUME FramesBelong, outstanding' = 0, UNCHANGED <<renderTarget, preview>>
  PROVE  Framed'
BY DEF Framed, FramesBelong, OutstandingHasOwner, UnderWay

LEMMA UntouchedIsFramed ==
  ASSUME Framed, UNCHANGED <<renderTarget, native, preview>>
  PROVE  Framed'
BY DEF Framed, FramesBelong, OutstandingHasOwner, UnderWay, native

(* A call that sends keeps its frame, or has just rendered it. *)
LEMMA SenderIsFramed ==
  ASSUME EditorTypes, Framed, NEW p \in Previews, NEW m \in Messages, NEW gen, NEW media,
         Sends(p, m, gen, media), UNCHANGED renderTarget, production' = production,
         \/ outstanding' = outstanding /\ (gen = preview[p].generation \/ preview[p].at = "idle")
         \/ outstanding' = gen /\ production # 0,
         IF renderTarget THEN m.does # "frame" => gen = 0 ELSE m.does # "refresh"
  PROVE  Framed'
<1> USE DEF Sends, UnderWay
<1>1. m.does \in Awaits
  BY DEF Messages
<1>2. FramesBelong'
  BY <1>1 DEF Framed, FramesBelong
<1>3. CASE outstanding' = gen
  <2>1. gen # 0 => m.does # "refresh"
    BY DEF Awaits
  <2> QED
    BY <1>1, <1>2, <1>3, <2>1 DEF Framed, OutstandingHasOwner, Awaits
<1>4. CASE outstanding' = outstanding /\ outstanding # 0
  <2>1. PICK o \in UnderWay : preview[o].at # "refresh" /\ preview[o].generation = outstanding
    BY <1>4 DEF Framed, OutstandingHasOwner
  <2>2. CASE o # p
    BY <1>2, <1>4, <2>1, <2>2 DEF Framed, OutstandingHasOwner
  <2>3. CASE o = p /\ gen # outstanding
    BY <1>4, <2>1, <2>3
  <2>4. CASE o = p /\ gen = outstanding
    BY <1>4, <1>3, <2>4
  <2> QED
    BY <2>2, <2>3, <2>4
<1> QED
  BY <1>2, <1>3, <1>4 DEF Framed, OutstandingHasOwner

(* A call that ends had no frame out, or consumes it. *)
LEMMA EndedIsFramed ==
  ASSUME EditorTypes, Framed, NEW p \in Previews, Fails(p), UNCHANGED renderTarget,
         production' = production,
         \/ Consumes(p)
         \/ outstanding' = outstanding /\ preview[p].generation = 0
  PROVE  Framed'
<1>1. /\ preview'[p] = Idle /\ \A q \in Previews : q # p => preview'[q] = preview[q]
  BY DEF Fails, EditorTypes
<1>2. outstanding' \in {0, outstanding}
  BY DEF Consumes
<1>3. FramesBelong'
  BY <1>1, <1>2 DEF Framed, FramesBelong, Idle
<1>4. ASSUME outstanding' # 0 PROVE OutstandingHasOwner'
  <2>1. outstanding' = outstanding /\ outstanding # 0 /\ production # 0
    BY <1>2, <1>4 DEF Framed, FramesBelong
  <2>2. PICK o \in UnderWay : preview[o].at # "refresh" /\ preview[o].generation = outstanding
    BY <2>1 DEF Framed, OutstandingHasOwner
  <2>3. o # p
    BY <1>4, <2>1, <2>2 DEF Consumes
  <2> QED
    BY <1>1, <2>1, <2>2, <2>3 DEF OutstandingHasOwner, UnderWay
<1> QED
  BY <1>3, <1>4 DEF Framed, OutstandingHasOwner

LEMMA PreviewFramed ==
  ASSUME EditorTypes, Framed, NEW p \in Previews, NEW size \in Sizes, RenderPreview(p, size)
  PROVE  Framed'
<1>1. /\ production # 0 /\ preview[p].at = "idle" /\ UNCHANGED renderTarget
      /\ StartsOnAndroid(p, size) \/ StartsOnWindows(p, size) \/ FailsToStart
  BY PreviewSteps DEF Idle
<1>2. CASE FailsToStart
  BY <1>1, <1>2, UntouchedIsFramed
  DEF FailsToStart, RenderFails, Framed, FramesBelong, OutstandingHasOwner, UnderWay
<1>3. CASE StartsOnAndroid(p, size)
  <2>1. PICK m \in Messages : Sends(p, m, 0, 0)
    BY <1>3, AndroidStarts
  <2>2. renderTarget /\ outstanding' = outstanding /\ production' = production
    BY <1>3 DEF StartsOnAndroid, native
  <2> QED
    BY <1>1, <2>1, <2>2, SenderIsFramed
<1>4. CASE StartsOnWindows(p, size)
  <2>1. PICK m \in Messages : Sends(p, m, generation + 1, production) /\ m.does # "refresh"
    BY <1>4, WindowsStarts
  <2>2. ~ renderTarget /\ outstanding' = generation + 1 /\ production' = production
    BY <1>4 DEF StartsOnWindows, Renders
  <2> QED
    BY <1>1, <2>1, <2>2, SenderIsFramed
<1> QED
  BY <1>1, <1>2, <1>3, <1>4

LEMMA DartFramed == Sound /\ MessagesBelong /\ Framed /\ DartResumes => Framed'
<1> SUFFICES ASSUME Sound, MessagesBelong, Framed, DartResumes PROVE Framed'
  OBVIOUS
<1>1. EditorTypes /\ UNCHANGED renderTarget /\ replies # <<>>
  BY DEF Sound, DartResumes
<1>2. PICK r \in Messages : r = Head(replies)
  BY <1>1, TailElements DEF EditorTypes
<1>3. Belongs(r)
  BY <1>1, <1>2, ReplyTaken
<1>4. CASE ResumeClose(r)
  <2>1. UNCHANGED preview /\ (outstanding' = 0 \/ UNCHANGED native)
    BY <1>4, ReleaseIsSound DEF ResumeClose
  <2> QED
    BY <1>1, <2>1, NothingOutIsFramed, UntouchedIsFramed DEF Framed
<1>5. ASSUME NEW p \in Previews, r.from = p, Resuming(p, r)
      PROVE  Framed'
  BY <1>1, <1>5, EndedIsFramed DEF Resuming, PreviewEnds
<1>6. ASSUME NEW p \in Previews, r.from = p
      PROVE  preview[p].at = r.does /\ r.texture \in Nat
  BY <1>3, <1>6, EditorAssumption DEF Belongs, Closer, Messages
<1>7. ASSUME NEW p \in Previews, r.from = p, GoesToCreate(p, r)
      PROVE  Framed'
  <2> DEFINE m == Message(p, "create", 0, 0)
  <2>1. m \in Messages /\ m.does = "create"
    BY MessagesTyped DEF Awaits, Message
  <2>2. Sends(p, m, preview[p].generation, preview[p].session)
    BY <1>1, <1>7 DEF GoesToCreate, Goes, Sends, Message, EditorTypes, Calls
  <2>3. renderTarget => preview[p].generation = 0
    BY <1>6, <1>7 DEF GoesToCreate, Framed, FramesBelong
  <2>4. outstanding' = outstanding /\ production' = production
    BY <1>7 DEF GoesToCreate, native
  <2> HIDE DEF m
  <2> QED
    BY <1>1, <2>1, <2>2, <2>3, <2>4, SenderIsFramed
<1>8. ASSUME NEW p \in Previews, r.from = p, TextureCreated(p, r) \/ TextureRefreshed(p, r)
      PROVE  Framed'
  <2>1. preview[p].at \in {"create", "refresh"}
    BY <1>6, <1>8 DEF TextureCreated, TextureRefreshed
  <2>2. renderTarget => preview[p].generation = 0
    BY <2>1 DEF Framed, FramesBelong
  <2>3. CASE TextureFails(p)
    BY <1>1, <2>2, <2>3, EndedIsFramed DEF TextureFails
  <2>4. ASSUME NEW m \in Messages, TextureServes(p, m), renderTarget PROVE Framed'
    <3>1. /\ Sends(p, m, generation + 1, production) /\ m.does = "frame"
          /\ production # 0 /\ production' = production /\ outstanding' = generation + 1
      BY <2>4 DEF TextureServes, Renders, Accepts
    <3> QED
      BY <1>1, <2>4, <3>1, SenderIsFramed
  <2>5. ASSUME NEW m \in Messages, TextureServes(p, m), ~ renderTarget PROVE Framed'
    <3>1. /\ Sends(p, m, preview[p].generation, preview[p].session) /\ m.does = "frame"
          /\ production' = production /\ outstanding' = outstanding
      BY <2>5 DEF TextureServes, native
    <3> QED
      BY <1>1, <2>5, <3>1, SenderIsFramed
  <2> QED
    BY <1>1, <1>6, <1>8, <2>3, <2>4, <2>5, TextureStep DEF TextureCreated, TextureRefreshed
<1> QED
  BY <1>1, <1>2, <1>4, <1>5, <1>7, <1>8, DartSteps

LEMMA EditorFramed == Sound /\ MessagesBelong /\ Framed /\ [EditorNext]_evars => Framed'
<1> SUFFICES ASSUME Sound, MessagesBelong, Framed, [EditorNext]_evars PROVE Framed'
  OBVIOUS
<1>1. CASE UNCHANGED evars
  BY <1>1, UntouchedIsFramed DEF evars
<1>2. CASE OpenMedia \/ ExportMedia
  BY <1>2, NothingOutIsFramed DEF OpenMedia, ExportMedia, DisposeSession, Framed
<1>3. CASE CloseEditor
  BY <1>3, ReleaseIsSound, NothingOutIsFramed DEF CloseEditor, Framed
<1>4. CASE HostHandles
  BY <1>4, UntouchedIsFramed DEF HostHandles
<1> QED
  BY <1>1, <1>2, <1>3, <1>4, PreviewFramed, DartFramed DEF EditorNext, Sound

-----------------------------------------------------------------------------
(* In an app that waits the channel holds one message at most. *)

LEMMA OneElementOnly ==
  ASSUME NEW m
  PROVE  DOMAIN Append(<<>>, m) = {1} /\ Append(<<>>, m)[1] = m
OBVIOUS

LEMMA NothingAfterTheOnly ==
  ASSUME NEW S, NEW q \in Seq(S), 1 \in DOMAIN q, \A i \in DOMAIN q : i = 1
  PROVE  Tail(q) = <<>>
<1>1. Len(q) \in Nat /\ DOMAIN q = 1..Len(q)
  OBVIOUS
<1>2. PICK n \in Nat : n = Len(q)
  BY <1>1
<1>3. 1 \in 1..n /\ \A i \in 1..n : i = 1
  BY <1>1, <1>2
<1>4. n = 1
  <2>1. n \in 1..n
    BY <1>3
  <2> QED
    BY <1>3, <2>1
<1>5. Tail(q) \in Seq(S) /\ Len(Tail(q)) = 0
  <2>1. q # <<>>
    OBVIOUS
  <2>2. Tail(q) \in Seq(S) /\ Len(Tail(q)) = Len(q) - 1
    BY <2>1, HeadTailProperties
  <2> QED
    BY <2>2, <1>2, <1>4
<1> QED
  BY <1>5, EmptySeq

LEMMA WaitsForApp ==
  ASSUME requests' = <<>>, replies' = <<>>, UnderWay' = {},
         \A id \in DOMAIN textures' : id = target'.id, target'.id <= created'
  PROVE  Waiting'
BY DEF Waiting, TexturesHaveOwner

LEMMA WaitsForHost ==
  ASSUME NEW m, requests' = Append(<<>>, m), replies' = <<>>,
         \A p \in UnderWay' : CallIsAlone(p)', RequestIsOfTarget(m)',
         \A id \in DOMAIN textures' : id = target'.id \/ (m.does = "dispose" /\ m.texture = id),
         target'.id <= created'
  PROVE  Waiting'
<1>1. DOMAIN requests' = {1} /\ requests'[1] = m /\ DOMAIN replies' = {}
  BY OneElementOnly
<1>2. TexturesHaveOwner'
  BY <1>1 DEF TexturesHaveOwner
<1>3. \A i \in DOMAIN requests' : RequestIsOfTarget(requests[i])'
  BY <1>1 DEF RequestIsOfTarget
<1> QED
  BY <1>1, <1>2, <1>3 DEF Waiting

LEMMA WaitsForDart ==
  ASSUME NEW m, requests' = <<>>, replies' = Append(<<>>, m),
         \A p \in UnderWay' : CallIsAlone(p)', ReplyIsOfTarget(m)',
         \A id \in DOMAIN textures' : id = target'.id \/ (m.does = "create" /\ m.texture = id),
         target'.id <= created'
  PROVE  Waiting'
<1>1. DOMAIN replies' = {1} /\ replies'[1] = m /\ DOMAIN requests' = {}
  BY OneElementOnly
<1>2. TexturesHaveOwner'
  BY <1>1 DEF TexturesHaveOwner
<1>3. \A i \in DOMAIN replies' : ReplyIsOfTarget(replies[i])'
  BY <1>1 DEF ReplyIsOfTarget
<1> QED
  BY <1>1, <1>2, <1>3 DEF Waiting

(* Two messages would be of the same call. *)
LEMMA OneCall ==
  ASSUME EditorTypes, MessagesBelong, Waiting
  PROVE  \E c : /\ \A i \in DOMAIN requests : requests[i].from = c
                /\ \A i \in DOMAIN replies : replies[i].from = c
                /\ c = Closer \/ (c \in UnderWay /\ closing = "open")
                   \/ (requests = <<>> /\ replies = <<>>)
<1>1. /\ \A i \in DOMAIN requests : requests[i] \in Messages /\ Belongs(requests[i])
      /\ \A i \in DOMAIN replies : replies[i] \in Messages /\ Belongs(replies[i])
  BY DEF EditorTypes, MessagesBelong, AllBelong
<1>2. ASSUME NEW m \in Messages, Belongs(m)
      PROVE  \/ m.from = Closer /\ closing # "open"
             \/ m.from \in UnderWay /\ closing = "open"
  BY <1>2 DEF Belongs, Messages, Awaits, UnderWay, Waiting, CallIsAlone
<1>3. \A p, q \in UnderWay : p = q
  BY DEF Waiting, CallIsAlone
<1>4. CASE closing # "open"
  BY <1>1, <1>2, <1>4
<1>5. CASE closing = "open" /\ UnderWay # {}
  <2>1. PICK p \in UnderWay : TRUE
    BY <1>5
  <2> QED
    BY <1>1, <1>2, <1>3, <1>5, <2>1
<1>6. CASE closing = "open" /\ UnderWay = {}
  <2>1. DOMAIN requests = {} /\ DOMAIN replies = {}
    BY <1>1, <1>2, <1>6
  <2>2. requests = <<>> /\ replies = <<>>
    BY <2>1 DEF EditorTypes
  <2> QED
    BY <2>1, <2>2
<1> QED
  BY <1>4, <1>5, <1>6

LEMMA EmptyChannel ==
  ASSUME EditorTypes, MessagesBelong, Waiting, UnderWay = {}, closing = "open"
  PROVE  /\ requests = <<>> /\ replies = <<>> /\ \A id \in DOMAIN textures : id = target.id
         /\ target.id = 0 => DOMAIN textures = {}
<1>1. requests = <<>> /\ replies = <<>>
  <2>1. Silent(Closer, requests) /\ Silent(Closer, replies)
    BY IdleIsSilent
  <2>2. PICK c : /\ \A i \in DOMAIN requests : requests[i].from = c
                 /\ \A i \in DOMAIN replies : replies[i].from = c
                 /\ c = Closer \/ (requests = <<>> /\ replies = <<>>)
    BY OneCall
  <2>3. CASE c = Closer
    <3>1. DOMAIN requests = {} /\ DOMAIN replies = {}
      BY <2>1, <2>2, <2>3 DEF Silent
    <3> QED
      BY <3>1 DEF EditorTypes
  <2> QED
    BY <2>2, <2>3
<1>2. DOMAIN requests = {} /\ DOMAIN replies = {}
  BY <1>1
<1>3. \A id \in DOMAIN textures : id = target.id
  BY <1>2 DEF Waiting, TexturesHaveOwner
<1> QED
  BY <1>1, <1>3 DEF EditorTypes

LEMMA SingleRequest ==
  ASSUME EditorTypes, MessagesBelong, Waiting, requests # <<>>
  PROVE  /\ Tail(requests) = <<>> /\ replies = <<>> /\ RequestIsOfTarget(Head(requests))
         /\ \A id \in DOMAIN textures :
              id = target.id \/ (Head(requests).does = "dispose" /\ Head(requests).texture = id)
<1>1. 1 \in DOMAIN requests /\ Head(requests) = requests[1]
  BY TailElements DEF EditorTypes
<1>2. \A i \in DOMAIN requests : i = 1
  BY <1>1, OneCall DEF MessagesBelong, OneMessageEach
<1>3. DOMAIN replies = {}
  BY <1>1, OneCall DEF MessagesBelong, OneMessageEach
<1>4. Tail(requests) = <<>> /\ replies = <<>>
  <2>1. requests \in Seq(Messages) /\ replies \in Seq(Messages)
    BY DEF EditorTypes
  <2>2. Tail(requests) = <<>>
    BY <1>1, <1>2, <2>1, NothingAfterTheOnly
  <2> QED
    BY <1>3, <2>1, <2>2
<1> QED
  BY <1>1, <1>2, <1>3, <1>4 DEF Waiting, TexturesHaveOwner

LEMMA SingleReply ==
  ASSUME EditorTypes, MessagesBelong, Waiting, replies # <<>>
  PROVE  /\ Tail(replies) = <<>> /\ requests = <<>> /\ ReplyIsOfTarget(Head(replies))
         /\ \A id \in DOMAIN textures :
              id = target.id \/ (Head(replies).does = "create" /\ Head(replies).texture = id)
         /\ Head(replies).from \in Previews =>
              /\ UnderWay = {Head(replies).from} /\ CallIsAlone(Head(replies).from)
              /\ preview[Head(replies).from].at = Head(replies).does
         /\ Head(replies).from = Closer => UnderWay = {}
<1>1. 1 \in DOMAIN replies /\ Head(replies) = replies[1] /\ Head(replies) \in Messages
  BY TailElements DEF EditorTypes
<1>2. \A i \in DOMAIN replies : i = 1
  BY <1>1, OneCall DEF MessagesBelong, OneMessageEach
<1>3. DOMAIN requests = {}
  BY <1>1, OneCall DEF MessagesBelong, OneMessageEach
<1>4. Tail(replies) = <<>> /\ requests = <<>>
  <2>1. replies \in Seq(Messages) /\ requests \in Seq(Messages)
    BY DEF EditorTypes
  <2>2. Tail(replies) = <<>>
    BY <1>1, <1>2, <2>1, NothingAfterTheOnly
  <2> QED
    BY <1>3, <2>1, <2>2
<1>5. Belongs(Head(replies))
  BY <1>1 DEF MessagesBelong, AllBelong
<1>6. Head(replies).from \in Previews =>
              /\ UnderWay = {Head(replies).from} /\ CallIsAlone(Head(replies).from)
              /\ preview[Head(replies).from].at = Head(replies).does
  BY <1>1, <1>5, EditorAssumption
  DEF Belongs, Closer, Waiting, CallIsAlone, UnderWay, Messages, Awaits
<1>7. Head(replies).from = Closer => UnderWay = {}
  BY <1>5 DEF Belongs, Waiting, CallIsAlone
<1>8. \A id \in DOMAIN textures :
        id = target.id \/ (Head(replies).does = "create" /\ Head(replies).texture = id)
  BY <1>1, <1>2, <1>3 DEF Waiting, TexturesHaveOwner
<1>9. ReplyIsOfTarget(Head(replies))
  BY <1>1 DEF Waiting
<1> QED
  BY <1>4, <1>6, <1>7, <1>8, <1>9

Tidy == Sound /\ MessagesBelong /\ Framed

LEMMA NobodyRenders ==
  ASSUME OutstandingHasOwner, UnderWay = {} PROVE outstanding = 0
BY DEF OutstandingHasOwner

LEMMA OpenWaits == Tidy /\ Waiting /\ OpenMedia /\ ~ overlapped' => Waiting'
<1> SUFFICES ASSUME Tidy, Waiting, OpenMedia, ~ overlapped' PROVE Waiting'
  OBVIOUS
<1>1. /\ UnderWay = {} /\ closing = "open"
      /\ UNCHANGED <<target, preview, wires, plugin>>
  BY DEF OpenMedia
<1>2. requests = <<>> /\ replies = <<>> /\ \A id \in DOMAIN textures : id = target.id
  BY <1>1, EmptyChannel DEF Tidy, Sound
<1>3. UnderWay' = {}
  BY <1>1 DEF UnderWay
<1>4. target.id <= created
  BY DEF Waiting
<1> QED
  BY <1>1, <1>2, <1>3, <1>4, WaitsForApp DEF wires, plugin

LEMMA CallAlone ==
  ASSUME EditorTypes, NEW p \in Previews, NEW m \in Messages, NEW gen, NEW media,
         Sends(p, m, gen, media), \A q \in UnderWay : q = p, closing' = "open",
         IF renderTarget' /\ m.does # "frame" THEN outstanding' = 0
         ELSE outstanding' # 0 /\ production' # 0 /\ gen = outstanding' /\ media = production'
  PROVE  \A q \in UnderWay' : CallIsAlone(q)'
<1>1. UnderWay' = {p}
  BY DEF Sends, UnderWay, Messages, Awaits
<1> QED
  BY <1>1 DEF CallIsAlone, HasRendered, Sends

LEMMA CallEnded ==
  ASSUME EditorTypes, NEW p \in Previews, Fails(p), \A q \in UnderWay : q = p
  PROVE  UnderWay' = {}
BY DEF EditorTypes, Fails, UnderWay, Idle

LEMMA StartWaits ==
  ASSUME Tidy, Waiting, NEW p \in Previews, NEW m \in Messages, NEW gen, NEW media,
         Sends(p, m, gen, media), UnderWay = {}, closing = "open",
         UNCHANGED <<renderTarget, target, closing, replies, plugin>>,
         IF renderTarget THEN outstanding' = 0 /\ m.does # "frame"
         ELSE outstanding' # 0 /\ production' # 0 /\ gen = outstanding' /\ media = production',
         \/ m.does = "refresh" /\ m.texture = target.id
         \/ m.does = "frame"
         \/ m.does = IF target.id # 0 THEN "dispose" ELSE "create"
  PROVE  Waiting'
<1>1. EditorTypes
  BY DEF Tidy, Sound
<1>2. /\ requests = <<>> /\ replies = <<>> /\ \A id \in DOMAIN textures : id = target.id
      /\ target.id = 0 => DOMAIN textures = {}
  BY <1>1, EmptyChannel DEF Tidy
<1>3. requests' = Append(<<>>, m) /\ replies' = <<>>
  BY <1>2 DEF Sends, Send
<1>4. \A q \in UnderWay' : CallIsAlone(q)'
  BY <1>1, CallAlone
<1>5. RequestIsOfTarget(m)'
  BY <1>2 DEF RequestIsOfTarget, Registered, Sends, plugin
<1>6. target'.id <= created'
  BY DEF Waiting, plugin
<1>7. \A id \in DOMAIN textures' : id = target'.id \/ (m.does = "dispose" /\ m.texture = id)
  BY <1>2 DEF plugin
<1> QED
  BY <1>3, <1>4, <1>5, <1>6, <1>7, WaitsForHost

LEMMA PreviewWaits ==
  ASSUME Tidy, Waiting, NEW p \in Previews, NEW size \in Sizes, RenderPreview(p, size),
         ~ overlapped'
  PROVE  Waiting'
<1>1. EditorTypes /\ OutstandingHasOwner
  BY DEF Tidy, Sound, Framed
<1>2. /\ closing = "open" /\ production # 0
      /\ UNCHANGED <<renderTarget, target, closing, shown, replies, plugin, opens>>
      /\ StartsOnAndroid(p, size) \/ StartsOnWindows(p, size) \/ FailsToStart
  BY <1>1, PreviewSteps
<1>3. UnderWay = {}
  <2>1. CASE StartsOnAndroid(p, size)
    BY <2>1 DEF StartsOnAndroid
  <2>2. CASE ~ renderTarget /\ outstanding = 0
    BY <2>2 DEF Waiting, CallIsAlone, HasRendered
  <2> QED
    BY <1>2, <2>1, <2>2 DEF StartsOnWindows, FailsToStart, Accepts
<1>4. outstanding = 0
  BY <1>1, <1>3, NobodyRenders
<1>5. CASE FailsToStart
  <2>1. requests = <<>> /\ replies = <<>> /\ \A id \in DOMAIN textures : id = target.id
    BY <1>1, <1>2, <1>3, EmptyChannel DEF Tidy
  <2>2. UnderWay' = {} /\ requests' = requests
    BY <1>3, <1>5 DEF FailsToStart, UnderWay
  <2>3. target.id <= created
    BY DEF Waiting
  <2> QED
    BY <1>2, <2>1, <2>2, <2>3, WaitsForApp DEF plugin
<1>6. CASE StartsOnAndroid(p, size)
  <2>1. PICK m \in Messages :
          /\ Sends(p, m, 0, 0)
          /\ \/ m.does = "refresh" /\ m.texture = target.id
             \/ m.does = IF target.id # 0 THEN "dispose" ELSE "create"
    BY <1>1, <1>6, AndroidStarts
  <2>2. renderTarget /\ outstanding' = 0 /\ m.does # "frame"
    BY <1>4, <1>6, <2>1 DEF StartsOnAndroid, native
  <2> QED
    BY <1>2, <1>3, <2>1, <2>2, StartWaits
<1>7. CASE StartsOnWindows(p, size)
  <2>1. PICK m \in Messages :
           /\ Sends(p, m, generation + 1, production)
           /\ m.does = "frame" \/ m.does = IF target.id # 0 THEN "dispose" ELSE "create"
    BY <1>1, <1>7, WindowsStarts
  <2>2. /\ ~ renderTarget /\ outstanding' = generation + 1 /\ generation + 1 # 0
        /\ production' = production
    BY <1>1, <1>7 DEF StartsOnWindows, Renders, EditorTypes
  <2> QED
    BY <1>2, <1>3, <2>1, <2>2, StartWaits
<1> QED
  BY <1>2, <1>5, <1>6, <1>7

(* The release of the texture is on its way when it is forgotten.          *)
LEMMA ReleaseWaits ==
  ASSUME Tidy, NEW next \in {"first", "second"}, Releases(next), UnderWay = {},
         requests = <<>>, replies' = <<>>, UNCHANGED <<preview, plugin>>,
         \A id \in DOMAIN textures : id = target.id
  PROVE  Waiting'
<1>1. EditorTypes /\ Sound
  BY DEF Tidy, Sound
<1>2. /\ target'.id = 0 /\ 0 <= created /\ 0 \notin DOMAIN textures
      /\ IF target.id # 0 THEN Send(Message(Closer, "dispose", target.id, 0))
                          ELSE UNCHANGED requests
  BY <1>1, ReleaseIsSound DEF NoTarget, EditorTypes
<1>3. UnderWay' = {}
  BY DEF UnderWay
<1>4. CASE target.id = 0
  BY <1>2, <1>3, <1>4, WaitsForApp DEF plugin
<1>5. CASE target.id # 0
  <2> DEFINE m == Message(Closer, "dispose", target.id, 0)
  <2>1. m.does = "dispose" /\ m.from = Closer /\ m.texture = target.id
    BY DEF Message
  <2>2. requests' = Append(<<>>, m)
    BY <1>2, <1>5 DEF Send
  <2>3. PICK d : d = m
    OBVIOUS
  <2>4. d.does = "dispose" /\ d.from = Closer /\ d.texture = target.id /\ requests' = Append(<<>>, d)
    BY <2>1, <2>2, <2>3
  <2> HIDE DEF m
  <2>5. RequestIsOfTarget(d)'
    BY <2>4 DEF RequestIsOfTarget
  <2> QED
    BY <1>2, <1>3, <2>4, <2>5, WaitsForHost DEF plugin
<1> QED
  BY <1>4, <1>5

LEMMA CloseWaits == Tidy /\ Waiting /\ CloseEditor /\ ~ overlapped' => Waiting'
<1> SUFFICES ASSUME Tidy, Waiting, CloseEditor, ~ overlapped' PROVE Waiting'
  OBVIOUS
<1>1. /\ UnderWay = {} /\ closing = "open" /\ Releases("first")
      /\ UNCHANGED <<preview, replies, plugin>>
  BY DEF CloseEditor
<1>2. requests = <<>> /\ replies = <<>> /\ \A id \in DOMAIN textures : id = target.id
  BY <1>1, EmptyChannel DEF Tidy, Sound
<1> QED
  BY <1>1, <1>2, ReleaseWaits

LEMMA DartWaits == Tidy /\ Waiting /\ DartResumes => Waiting'
<1> SUFFICES ASSUME Tidy, Waiting, DartResumes PROVE Waiting'
  OBVIOUS
<1>1. EditorTypes /\ Sound /\ MessagesBelong /\ OutstandingHasOwner
  BY DEF Tidy, Sound, Framed
<1>2. PICK r \in Messages : r = Head(replies)
  BY <1>1, DartSteps
<1>3. /\ replies' = <<>> /\ requests = <<>> /\ ReplyIsOfTarget(r)
      /\ \A id \in DOMAIN textures : id = target.id \/ (r.does = "create" /\ r.texture = id)
      /\ r.from \in Previews => /\ UnderWay = {r.from} /\ CallIsAlone(r.from)
                                /\ preview[r.from].at = r.does
      /\ r.from = Closer => UnderWay = {}
  BY <1>1, <1>2, SingleReply, DartSteps
<1>4. /\ UNCHANGED <<renderTarget, plugin>>
      /\ \/ ResumeClose(r)
         \/ \E p \in Previews :
              /\ r.from = p /\ UNCHANGED closing
              /\ Resuming(p, r) \/ GoesToCreate(p, r) \/ TextureCreated(p, r) \/ TextureRefreshed(p, r)
  BY <1>1, <1>2, DartSteps
<1>5. target.id <= created /\ 0 \notin DOMAIN textures /\ r.texture \in Nat /\ r.ok \in BOOLEAN
  BY <1>1 DEF Waiting, EditorTypes, Messages
<1>6. CASE ResumeClose(r)
  <2>1. r.does = "dispose" /\ UnderWay = {}
    BY <1>1, <1>2, <1>3, <1>6, ReplyTaken DEF ResumeClose, DartResumes, Belongs
  <2>2. CASE closing = "first"
    BY <1>3, <1>4, <1>6, <2>1, <2>2, ReleaseWaits DEF ResumeClose
  <2>3. CASE closing # "first"
    <3>1. UNCHANGED <<target, requests, preview>>
      BY <1>6, <2>3 DEF ResumeClose
    <3>2. UnderWay' = {}
      BY <2>1, <3>1 DEF UnderWay
    <3> QED
      BY <1>3, <1>4, <1>5, <2>1, <3>1, <3>2, WaitsForApp DEF plugin
  <2> QED
    BY <2>2, <2>3
<1>7. ASSUME NEW p \in Previews, r.from = p PROVE UnderWay = {p} /\ CallIsAlone(p) /\ preview[p].at = r.does
  BY <1>3, <1>7
<1>8. ASSUME NEW p \in Previews, r.from = p, Resuming(p, r)
      PROVE  Waiting'
  <2>1. UnderWay' = {} /\ requests' = <<>> /\ target' = target
    BY <1>1, <1>3, <1>7, <1>8, CallEnded DEF Resuming, PreviewEnds
  <2>2. \A id \in DOMAIN textures : id = target.id
    BY <1>3, <1>5, <1>8 DEF Resuming, ReplyIsOfTarget
  <2> QED
    BY <1>3, <1>4, <1>5, <2>1, <2>2, WaitsForApp DEF plugin
<1>9. ASSUME NEW p \in Previews, NEW m \in Messages, NEW gen, NEW media, r.from = p,
             Sends(p, m, gen, media), UNCHANGED closing,
             IF renderTarget /\ m.does # "frame" THEN outstanding' = 0
             ELSE outstanding' # 0 /\ production' # 0 /\ gen = outstanding' /\ media = production',
             RequestIsOfTarget(m)', target'.id <= created,
             \A id \in DOMAIN textures : id = target'.id
      PROVE  Waiting'
  <2>1. requests' = Append(<<>>, m)
    BY <1>3, <1>9 DEF Sends, Send
  <2>2. closing' = "open" /\ \A q \in UnderWay : q = p
    BY <1>7, <1>9 DEF CallIsAlone
  <2>3. \A q \in UnderWay' : CallIsAlone(q)'
    BY <1>1, <1>4, <1>9, <2>2, CallAlone
  <2> QED
    BY <1>3, <1>4, <1>9, <2>1, <2>3, WaitsForHost DEF plugin
<1>10. ASSUME NEW p \in Previews, r.from = p, UNCHANGED closing, GoesToCreate(p, r)
       PROVE  Waiting'
  <2> DEFINE m == Message(p, "create", 0, 0)
  <2>1. m \in Messages /\ m.does = "create" /\ m.texture = 0 /\ m.ok
    BY MessagesTyped DEF Awaits, Message
  <2>2. Sends(p, m, preview[p].generation, preview[p].session)
    BY <1>1, <1>10 DEF GoesToCreate, Goes, Sends, Message, EditorTypes, Calls
  <2> HIDE DEF m
  <2>3. p # Closer
    BY EditorAssumption DEF Closer
  <2>4. ~ Registered(target.id) /\ target' = target
    BY <1>3, <1>10, <2>3 DEF GoesToCreate, ReplyIsOfTarget
  <2>5. DOMAIN textures = {}
    BY <1>3, <1>10, <2>4 DEF GoesToCreate, Registered
  <2>6. RequestIsOfTarget(m)'
    BY <1>4, <2>1, <2>4 DEF RequestIsOfTarget, Registered, plugin
  <2>7. /\ ~ renderTarget => /\ outstanding # 0 /\ production # 0
                             /\ preview[p].generation = outstanding
                             /\ preview[p].session = production
        /\ renderTarget => outstanding = 0
    BY <1>7, <1>10 DEF CallIsAlone, HasRendered, GoesToCreate
  <2>8. outstanding' = outstanding /\ production' = production
    BY <1>10 DEF GoesToCreate, native
  <2> QED
    BY <1>5, <1>9, <1>10, <2>1, <2>2, <2>4, <2>5, <2>6, <2>7, <2>8
<1>11. ASSUME NEW p \in Previews, r.from = p, UNCHANGED closing,
              TextureCreated(p, r) \/ TextureRefreshed(p, r)
       PROVE  Waiting'
  <2>1. /\ target'.id = r.texture
        /\ TextureFails(p) \/ \E m \in Messages : TextureServes(p, m)
    BY <1>1, <1>5, <1>11, TextureStep DEF TextureCreated, TextureRefreshed
  <2>2. target'.id <= created /\ \A id \in DOMAIN textures : id = target'.id
    BY <1>3, <1>5, <1>11, <2>1 DEF TextureCreated, TextureRefreshed, ReplyIsOfTarget, Registered
  <2>3. CASE TextureFails(p)
    <3>1. UnderWay' = {} /\ requests' = <<>>
      BY <1>1, <1>3, <1>7, <1>11, <2>3, CallEnded DEF TextureFails
    <3> QED
      BY <1>3, <1>4, <2>2, <3>1, WaitsForApp DEF plugin
  <2>4. ASSUME NEW m \in Messages, TextureServes(p, m), renderTarget
        PROVE  Waiting'
    <3>1. /\ Sends(p, m, generation + 1, production) /\ m.does = "frame"
          /\ production # 0 /\ production' = production
          /\ outstanding' = generation + 1 /\ generation + 1 # 0
      BY <1>1, <2>4 DEF TextureServes, Renders, Accepts, EditorTypes
    <3>2. RequestIsOfTarget(m)'
      BY <3>1 DEF RequestIsOfTarget
    <3> QED
      BY <1>9, <1>11, <2>2, <3>1, <3>2
  <2>5. ASSUME NEW m \in Messages, TextureServes(p, m), ~ renderTarget
        PROVE  Waiting'
    <3>1. /\ Sends(p, m, preview[p].generation, preview[p].session) /\ m.does = "frame"
          /\ production' = production /\ outstanding' = outstanding
      BY <2>5 DEF TextureServes, native
    <3>2. RequestIsOfTarget(m)'
      BY <3>1 DEF RequestIsOfTarget
    <3>3. /\ outstanding # 0 /\ production # 0
          /\ preview[p].generation = outstanding /\ preview[p].session = production
      BY <1>7, <1>11, <2>5 DEF CallIsAlone, HasRendered
    <3> QED
      BY <1>9, <1>11, <2>2, <2>5, <3>1, <3>2, <3>3
  <2> QED
    BY <2>1, <2>3, <2>4, <2>5
<1> QED
  BY <1>4, <1>6, <1>8, <1>10, <1>11

LEMMA HostWaits == Tidy /\ Waiting /\ HostHandles => Waiting'
<1> SUFFICES ASSUME Tidy, Waiting, HostHandles PROVE Waiting'
  OBVIOUS
<1>1. EditorTypes /\ MessagesBelong /\ requests # <<>>
  BY DEF Tidy, Sound, HostHandles
<1>2. PICK m \in Messages, answer \in Messages : m = Head(requests) /\ HostAnswers(m, answer)
  BY <1>1, HostSteps
<1>3. /\ Tail(requests) = <<>> /\ replies = <<>> /\ RequestIsOfTarget(m)
      /\ \A id \in DOMAIN textures : id = target.id \/ (m.does = "dispose" /\ m.texture = id)
  BY <1>1, <1>2, SingleRequest
<1>4. requests' = <<>> /\ replies' = Append(<<>>, answer)
      /\ UNCHANGED <<renderTarget, native, target, preview, closing>>
  BY <1>2, <1>3 DEF HostAnswers
<1>5. \A p \in UnderWay' : CallIsAlone(p)'
  BY <1>4 DEF Waiting, CallIsAlone, UnderWay, HasRendered, native
<1>6. target.id <= created /\ target.id \in Nat /\ created \in Nat
  BY <1>1 DEF Waiting, EditorTypes
<1>7. target'.id <= created'
  BY <1>2, <1>4, <1>6 DEF HostAnswers
<1>8. ReplyIsOfTarget(answer)'
  <2>1. CASE m.does = "dispose"
    BY <1>2, <1>3, <1>4, <2>1 DEF HostAnswers, ReplyIsOfTarget, RequestIsOfTarget, Registered
  <2>2. CASE m.does = "create"
    BY <1>2, <1>3, <1>4, <1>6, <2>2
    DEF HostAnswers, ReplyIsOfTarget, RequestIsOfTarget, Registered
  <2>3. CASE m.does = "refresh" \/ m.does = "frame"
    BY <1>2, <1>3, <1>4, <2>3 DEF HostAnswers, ReplyIsOfTarget, RequestIsOfTarget
  <2> QED
    BY <2>1, <2>2, <2>3 DEF Messages, Awaits
<1>9. \A id \in DOMAIN textures' :
        id = target'.id \/ (answer.does = "create" /\ answer.texture = id)
  BY <1>2, <1>3, <1>4 DEF HostAnswers
<1> QED
  BY <1>4, <1>5, <1>7, <1>8, <1>9, WaitsForDart

LEMMA EditorWaits ==
  Tidy /\ (~ overlapped => Waiting) /\ [EditorNext]_evars => (~ overlapped => Waiting)'
<1> SUFFICES ASSUME Tidy, ~ overlapped => Waiting, [EditorNext]_evars, ~ overlapped'
             PROVE  Waiting'
  OBVIOUS
<1>1. Waiting
  BY DEF EditorNext, OpenMedia, ExportMedia, CloseEditor, DartResumes, HostHandles,
     RenderPreview, evars, Tidy, Sound, EditorTypes
<1>2. CASE UNCHANGED evars
  BY <1>1, <1>2
  DEF evars, native, wires, plugin, Waiting, CallIsAlone, UnderWay, HasRendered,
      RequestIsOfTarget, ReplyIsOfTarget, Registered, TexturesHaveOwner
<1>3. CASE ExportMedia
  BY <1>3 DEF ExportMedia
<1> QED
  BY <1>1, <1>2, <1>3, OpenWaits, PreviewWaits, CloseWaits, DartWaits, HostWaits DEF EditorNext

-----------------------------------------------------------------------------
EditorInv == Tidy /\ (~ overlapped => Waiting)

LEMMA EditorInvInit == EditorInit => EditorInv
<1> SUFFICES ASSUME EditorInit PROVE EditorInv
  OBVIOUS
<1>1. Sound
  BY EditorInitSound
<1>2. requests = <<>> /\ replies = <<>> /\ outstanding = 0 /\ UnderWay = {}
  BY DEF EditorInit, UnderWay, Idle
<1>3. MessagesBelong
  BY <1>2 DEF MessagesBelong, OneMessageEach, AllBelong
<1>4. Framed
  BY <1>2 DEF EditorInit, Framed, FramesBelong, OutstandingHasOwner, Idle
<1>5. Waiting
  <2>1. DOMAIN textures = {} /\ target.id = 0 /\ created = 0
    BY DEF EditorInit, NoTarget
  <2> QED
    BY <1>2, <2>1 DEF Waiting, TexturesHaveOwner
<1> QED
  BY <1>1, <1>3, <1>4, <1>5 DEF EditorInv, Tidy

LEMMA EditorInvariance == EditorSpec => []EditorInv
<1>1. EditorInv /\ [EditorNext]_evars => EditorInv'
  BY EditorSound, EditorBelongs, EditorFramed, EditorWaits DEF EditorInv, Tidy
<1> QED
  BY <1>1, EditorInvInit, PTL DEF EditorSpec

LEMMA FramesAreHeld == Tidy /\ Waiting => PresentedFrameIsHeld
<1> SUFFICES ASSUME Tidy, Waiting, NEW i \in DOMAIN requests, requests[i].does = "frame"
             PROVE  \E p \in UnderWay : /\ requests[i].from = p /\ preview[p].session = production
                                        /\ requests[i].generation = outstanding
  BY DEF PresentedFrameIsHeld
<1>1. requests[i] \in Messages /\ Belongs(requests[i])
  BY DEF Tidy, Sound, EditorTypes, MessagesBelong, AllBelong
<1> DEFINE p == requests[i].from
<1>2. p \in UnderWay /\ preview[p].at = "frame" /\ requests[i].generation = preview[p].generation
  BY <1>1 DEF Belongs, UnderWay, Messages
<1>3. preview[p].generation = outstanding /\ preview[p].session = production
  BY <1>2 DEF Waiting, CallIsAlone, HasRendered
<1> QED
  BY <1>2, <1>3

\* Whatever overlaps or fails, in an editor of any number of calls: a frame that is
\* out is the one of a preview under way, whose finally consumes it
\* (editor_controller.dart), so no later preview, rebinding or export is refused for good.
THEOREM FrameIsConsumed == EditorSpec => []OutstandingHasOwner
<1>1. EditorInv => OutstandingHasOwner
  BY DEF EditorInv, Tidy, Framed
<1> QED
  BY <1>1, EditorInvariance, PTL

\* As long as the app waits for a preview before it opens, closes, exports or previews
\* on Android again, each frame the texture host is asked to show is the one held by the
\* open session, and every texture it has registered is still known to the workspace.
THEOREM WaitingKeepsFrames == EditorSpec => []WaitingAppKeepsFrames
<1>1. EditorInv => WaitingAppKeepsFrames
  BY FramesAreHeld DEF EditorInv, WaitingAppKeepsFrames, Waiting
<1> QED
  BY <1>1, EditorInvariance, PTL

\* close() releases the session and the graph, and does not throw, whatever was under
\* way or had failed when it was called.
THEOREM EditorCloses == EditorSpec => []CloseIsComplete
<1>1. EditorInv => CloseIsComplete
  BY DEF EditorInv, Tidy, Sound, SessionIsBound, Framed, FramesBelong, CloseIsComplete
<1> QED
  BY <1>1, EditorInvariance, PTL
=============================================================================
