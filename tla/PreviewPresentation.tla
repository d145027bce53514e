------------------------ MODULE PreviewPresentation ------------------------
(***************************************************************************)
(* NativePreviewPresentationSession (src/ffi/native_preview_presentation   *)
(* .cpp) as a record: the generation of the displayed frame and of the one *)
(* that waits for it, 0 for none.  The session's shared_ptr is what keeps  *)
(* a displayed or pending frame alive.                                     *)
(***************************************************************************)
EXTENDS Naturals

Presentations == [current : Nat, pending : Nat]
NothingPresented == [current |-> 0, pending |-> 0]

\* A generation that is not newer than both is stale.
FrameIsStale(p, g) == g <= p.current \/ g <= p.pending

\* submit of a frame the host can display; "shown" says whether present()
\* succeeds.  Behind a displayed frame the new one only replaces the pending one.
FrameAccepted(p, g, shown) == ~FrameIsStale(p, g) /\ (p.current # 0 \/ shown)

FrameSubmitted(p, g, shown) ==
  IF ~FrameAccepted(p, g, shown) THEN p
  ELSE IF p.current # 0 THEN [p EXCEPT !.pending = g] ELSE [p EXCEPT !.current = g]

\* consumed: retires the displayed frame, promotes the pending one; a pending
\* frame the host refuses is dropped.
FrameConsumed(p, g, shown) ==
  IF p.current = 0 \/ g # p.current THEN p
  ELSE [current |-> IF shown THEN p.pending ELSE 0, pending |-> 0]

FrameDropped(p, g, shown) == IF g = p.current /\ ~shown THEN {p.pending} \ {0} ELSE {}
=============================================================================
