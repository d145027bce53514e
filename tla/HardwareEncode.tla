--------------------------- MODULE HardwareEncode ---------------------------
(***************************************************************************)
(* ProductionHardwareEncodeSession (src/render/                            *)
(* production_hardware_encode.cpp) as a record: every call locks mutex_    *)
(* for all it does, the encoder's callbacks included, so each is one step. *)
(* "opened", "finalized" and "aborted" record which callbacks the encoder  *)
(* has answered; "frames" counts what it accepted.  An "ok" that is FALSE  *)
(* is any rejection on the way: a callback's, or of the frame itself.      *)
(***************************************************************************)
EXTENDS Naturals

EncodeStates == {"idle", "running", "completed", "cancelled", "failed"}

Encoders == [state : EncodeStates, opened : BOOLEAN, finalized : BOOLEAN, aborted : BOOLEAN,
             frames : Nat]

NewEncoder == [state |-> "idle", opened |-> FALSE, finalized |-> FALSE, aborted |-> FALSE,
               frames |-> 0]

EncodeFailed(e) == [e EXCEPT !.state = "failed"]

EncodeStarted(e, ok) ==
  IF e.state = "idle" /\ ok THEN [e EXCEPT !.state = "running", !.opened = TRUE] ELSE EncodeFailed(e)

EncodeSubmitted(e, ok) ==
  IF e.state = "running" /\ ok THEN [e EXCEPT !.frames = @ + 1] ELSE EncodeFailed(e)

\* Mutant of EncodeFinished: the encoder was opened, so it can be finished.
FinishedWhenOpened(e, ok) ==
  IF e.opened /\ ok THEN [e EXCEPT !.state = "completed", !.finalized = TRUE] ELSE EncodeFailed(e)

\* drain and finalize_atomic; "draining" is never seen from outside the lock.
EncodeFinished(e, ok) ==
  IF e.state = "running" /\ e.opened /\ ok
  THEN [e EXCEPT !.state = "completed", !.finalized = TRUE]
  ELSE EncodeFailed(e)

EncodeCancelled(e) ==
  IF e.state \in {"completed", "failed", "cancelled"} THEN e
  ELSE [e EXCEPT !.state = "cancelled", !.aborted = TRUE]

\* The destructor aborts what still runs.
EncodeDestroyed(e) == IF e.state = "running" THEN EncodeCancelled(e) ELSE e
=============================================================================
