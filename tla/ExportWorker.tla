---------------------------- MODULE ExportWorker ----------------------------
(***************************************************************************)
(* The export worker of src/src/render/renderer.cpp: a render thread       *)
(* pushes processed frames, each with a completion fence, into a bounded   *)
(* ExportSubmissionQueue; the thread of ExportWorker::run pops them, hands *)
(* them to the encoder and keeps each frame in EncoderResourceRetirement   *)
(* until its fence is answered.  The encoder answers whenever it likes, or *)
(* never; a controller drains or cancels.                                  *)
(***************************************************************************)
EXTENDS Naturals, Sequences, FiniteSets

CONSTANTS Frames,       \* the frames of the export, each with its own fence
          Capacity,     \* ExportSubmissionQueue::capacity_
          MaxInFlight,  \* ExportWorkerOptions::max_in_flight
          None

ASSUME ExportAssumption == /\ Capacity \in Nat \ {0} /\ MaxInFlight \in Nat \ {0}
                           /\ None \notin Frames

VARIABLES careful,  \* the host: TRUE when pushes, drain and cancel come from one
                    \* thread and the submit callback does not throw
          fence,    \* ExportCompletionFence::state_ per frame
          items, closed,            \* ExportSubmissionQueue
          retained,                 \* frames in EncoderResourceRetirement
          active, hand, result,     \* run(): active, the popped frame, submit_'s result
          wpc,                      \* where run() is
          state, drain, cancel,     \* ExportWorker's atomics
          cpc,                      \* the controller, inside drain or cancel
          encoder,                  \* frames the encoder works on
          accepted                  \* history: frames try_push accepted

worker == <<active, hand, result, wpc, state>>
control == <<drain, cancel, cpc>>
vars == <<careful, fence, items, closed, retained, worker, control, encoder, accepted>>

Answers == {"completed", "failed", "cancelled"}
Fences == Answers \cup {"pending", "submitted"}
Answered(f) == fence[f] \in Answers
AnsweredFrames == {f \in Frames : Answered(f)}

\* fence.complete or fence.cancel of every frame in F.
AnswerAll(F, answer) == fence' = [f \in Frames |-> IF f \in F THEN answer ELSE fence[f]]

Init ==
  /\ careful \in BOOLEAN
  /\ fence = [f \in Frames |-> "pending"]
  /\ items = <<>> /\ closed = FALSE /\ retained = {}
  /\ active = {} /\ hand = None /\ result = "ok" /\ wpc = "off" /\ state = "stopped"
  /\ drain = FALSE /\ cancel = FALSE /\ cpc = "idle"
  /\ encoder = {} /\ accepted = {}

-----------------------------------------------------------------------------
(* The queue's producer. *)

\* try_push: a closed or a full queue refuses, which changes nothing.
Push(f) ==
  /\ f \notin accepted
  /\ careful => cpc = "idle"
  /\ ~closed /\ Len(items) < Capacity
  /\ items' = Append(items, f)
  /\ accepted' = accepted \cup {f}
  /\ UNCHANGED <<careful, fence, closed, retained, worker, control, encoder>>

-----------------------------------------------------------------------------
(* The controller: start, request_drain, cancel. *)

\* A stopped worker, once joined, may be started again; its flags stay.
Start ==
  /\ wpc \in {"off", "ended"} /\ state = "stopped"
  /\ state' = "running" /\ wpc' = "cancelTest"
  /\ UNCHANGED <<careful, fence, items, closed, retained, active, hand, result, control, encoder, accepted>>

RequestDrain ==
  /\ cpc = "idle" /\ ~drain /\ ~cancel
  /\ drain' = TRUE /\ cpc' = "close"
  /\ UNCHANGED <<careful, fence, items, closed, retained, worker, cancel, encoder, accepted>>

RequestCancel ==
  /\ cpc = "idle" /\ ~cancel
  /\ cancel' = TRUE /\ cpc' = "cancelPending"
  /\ UNCHANGED <<careful, fence, items, closed, retained, worker, drain, encoder, accepted>>

CancelPending ==
  /\ cpc = "cancelPending"
  /\ AnswerAll({items[i] : i \in DOMAIN items}, "cancelled")
  /\ items' = <<>> /\ cpc' = "close"
  /\ UNCHANGED <<careful, closed, retained, worker, drain, cancel, encoder, accepted>>

Close ==
  /\ cpc = "close"
  /\ closed' = TRUE /\ cpc' = "idle"
  /\ UNCHANGED <<careful, fence, items, retained, worker, drain, cancel, encoder, accepted>>

-----------------------------------------------------------------------------
(* ExportWorker::run. *)

Step(from, to) == wpc = from /\ wpc' = to

\* The cancel branch: the fences of active, then everything retained.
TestCancel ==
  /\ wpc = "cancelTest"
  /\ IF cancel
     THEN /\ AnswerAll(active \cup retained, "cancelled")
          /\ retained' = {} /\ state' = "cancelled" /\ wpc' = "ended"
     ELSE wpc' = "expire" /\ UNCHANGED <<fence, retained, state>>
  /\ UNCHANGED <<careful, items, closed, active, hand, result, control, encoder, accepted>>

\* Mutant of Expire: encoder_timeout is not looked at.
NeverExpire == Step("expire", "collect")
  /\ UNCHANGED <<careful, fence, items, closed, retained, active, hand, result, state, control,
                 encoder, accepted>>

\* Time is not modelled: any submitted frame may have waited too long.
Expire ==
  /\ Step("expire", "collect")
  /\ \E late \in SUBSET {f \in active : fence[f] = "submitted"} : AnswerAll(late, "failed")
  /\ UNCHANGED <<careful, items, closed, retained, active, hand, result, state, control, encoder, accepted>>

\* Mutant of Collect: collect_completed without the erase of active.
CollectRetained == Step("collect", "pop") /\ retained' = retained \ AnsweredFrames
  /\ UNCHANGED <<careful, fence, items, closed, active, hand, result, state, control, encoder, accepted>>

Collect ==
  /\ Step("collect", "pop")
  /\ active' = active \ AnsweredFrames
  /\ retained' = retained \ AnsweredFrames
  /\ UNCHANGED <<careful, fence, items, closed, hand, result, state, control, encoder, accepted>>

Pop ==
  /\ wpc = "pop"
  /\ IF Cardinality(active) < MaxInFlight /\ items # <<>>
     THEN hand' = Head(items) /\ items' = Tail(items) /\ wpc' = "submit"
     ELSE wpc' = "drainTest" /\ UNCHANGED <<hand, items>>
  /\ UNCHANGED <<careful, fence, closed, retained, active, result, state, control, encoder, accepted>>

\* submit_ returns: the encoder has the frame, or an error came back.
Submit(r) ==
  /\ Step("submit", "mark")
  /\ result' = r
  /\ encoder' = IF r = "ok" THEN encoder \cup {hand} ELSE encoder
  /\ UNCHANGED <<careful, fence, items, closed, retained, active, hand, state, control, accepted>>

\* Mutant of MarkSubmitted: mark_submitted as a plain store.
MarkAlways == Step("mark", "result") /\ fence' = [fence EXCEPT ![hand] = "submitted"]
  /\ UNCHANGED <<careful, items, closed, retained, active, hand, result, state, control, encoder, accepted>>

\* mark_submitted is a compare-and-swap: an answer already given stays.
MarkSubmitted ==
  /\ Step("mark", "result")
  /\ fence' = [fence EXCEPT ![hand] = IF @ = "pending" THEN "submitted" ELSE @]
  /\ UNCHANGED <<careful, items, closed, retained, active, hand, result, state, control, encoder, accepted>>

FailRefused ==
  /\ Step("result", "retain")
  /\ fence' = [fence EXCEPT ![hand] = IF result # "ok" /\ @ = "submitted" THEN "failed" ELSE @]
  /\ UNCHANGED <<careful, items, closed, retained, active, hand, result, state, control, encoder, accepted>>

\* Mutant of Retain: run() counts a frame as handed over before it retains it.
RetainLater == Step("retain", "pop") /\ active' = active \cup {hand} /\ hand' = None
  /\ UNCHANGED <<careful, fence, items, closed, retained, result, state, control, encoder, accepted>>

Retain ==
  /\ Step("retain", "pop")
  /\ retained' = retained \cup {hand} /\ active' = active \cup {hand} /\ hand' = None
  /\ UNCHANGED <<careful, fence, items, closed, result, state, control, encoder, accepted>>

TestDrain ==
  /\ wpc = "drainTest"
  /\ CASE ~drain -> wpc' = "cancelTest" /\ UNCHANGED state
       [] drain /\ items = <<>> /\ active = {} -> wpc' = "ended" /\ state' = "stopped"
       [] OTHER -> wpc' = "cancelTest" /\ state' = "draining"
  /\ UNCHANGED <<careful, fence, items, closed, retained, active, hand, result, control, encoder, accepted>>

\* submit_ throws: active is failed, then cancel_all cancels what is retained,
\* which includes all of active.  The popped frame is in neither list.
SubmitThrows ==
  /\ ~careful /\ Step("submit", "ended")
  /\ AnswerAll(active \cup retained, "cancelled")
  /\ retained' = {} /\ state' = "failed"
  /\ UNCHANGED <<careful, items, closed, active, hand, result, control, encoder, accepted>>

-----------------------------------------------------------------------------
\* The encoder completes the fence, whatever it says by now.
EncoderAnswers(f, answer) ==
  /\ f \in encoder
  /\ fence' = [fence EXCEPT ![f] = answer]
  /\ encoder' = encoder \ {f}
  /\ UNCHANGED <<careful, items, closed, retained, worker, control, accepted>>

WorkerStep == TestCancel \/ Expire \/ Collect \/ Pop \/ (\E r \in {"ok", "error"} : Submit(r))
              \/ MarkSubmitted \/ FailRefused \/ Retain \/ TestDrain \/ SubmitThrows
ControlStep == CancelPending \/ Close

Next == \/ WorkerStep \/ ControlStep
        \/ \E f \in Frames : Push(f) \/ EncoderAnswers(f, "completed") \/ EncoderAnswers(f, "failed")
        \/ Start \/ RequestDrain \/ RequestCancel

Spec == Init /\ [][Next]_vars

\* The worker and the controller's calls run on; a submitted frame that the
\* encoder forgets is late in the end.  Nobody has to start, drain or cancel.
Fairness ==
  /\ WF_vars(WorkerStep) /\ WF_vars(ControlStep)
  /\ \A f \in Frames : SF_vars(Expire /\ f \in active /\ fence'[f] # "submitted")
FairSpec == Spec /\ Fairness

-----------------------------------------------------------------------------
TypeOK ==
  /\ fence \in [Frames -> Fences]
  /\ items \in Seq(Frames) /\ Len(items) <= Capacity /\ closed \in BOOLEAN
  /\ retained \subseteq Frames /\ active \subseteq Frames /\ hand \in Frames \cup {None}
  /\ result \in {"ok", "error"}
  /\ wpc \in {"off", "cancelTest", "expire", "collect", "pop", "submit", "mark", "result",
              "retain", "drainTest", "ended"}
  /\ state \in {"stopped", "running", "draining", "cancelled", "failed"}
  /\ drain \in BOOLEAN /\ cancel \in BOOLEAN /\ cpc \in {"idle", "cancelPending", "close"}
  /\ encoder \subseteq Frames /\ accepted \subseteq Frames

\* Whoever waits on an accepted frame's fence waits for somebody: until it is
\* answered the frame is queued, in the worker's hand, or both watched for its
\* timeout and kept from being freed under the encoder.  (A frame whose submission
\* threw stays in the hand of a worker that is gone.)
UnansweredHasOwner ==
  \A f \in accepted : Answered(f) \/ f = hand \/ (\E i \in DOMAIN items : items[i] = f)
                                  \/ f \in active \cap retained

\* Who may still answer for a frame: its encoder, and a worker that has not yet
\* collected it.
Held(f) == f \in encoder \/ (wpc # "ended" /\ f \in active \cup retained)

\* A fence never loses its answer: mark_submitted, which races with an encoder
\* that answers during submit_, does not take it back.  The answer may be
\* replaced, "failed" of the timeout by "completed" of a late encoder or either
\* by "cancelled", but not once the encoder has answered and the worker has let
\* the frame go.
AnswersStick ==
  [][\A f \in Frames : Answered(f) =>
       /\ Answered(f)'
       /\ fence'[f] = fence[f] \/ Held(f)]_vars

\* A waiter on the fence of a frame a careful host pushed returns once the worker
\* was started, although the encoder may forget the frame.  A host that is not
\* careful waits for ever when it pushes between the two halves of drain or
\* cancel, or when submit_ throws.
AcceptedIsAnswered ==
  \A f \in Frames : (careful /\ f \in accepted /\ wpc # "off") ~> Answered(f)

\* Drain and cancel stop a started worker, even one whose encoder is silent.
WorkerEnds == ((drain \/ cancel) /\ wpc # "off") ~> (wpc = "ended")
=============================================================================
