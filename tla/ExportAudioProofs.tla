------------------------- MODULE ExportAudioProofs -------------------------
(***************************************************************************)
(* For every number of frames, every capacity of the queue and every limit *)
(* of frames in flight: the types of ExportWorker, that whoever waits on a *)
(* fence waits for somebody, and when an answer is final. For every        *)
(* source, cut into packets in any way, and every block, position and      *)
(* duration: what AudioSession renders is the source, an export keeps its  *)
(* mix, the output does as the session says, and an export has no gap.     *)
(***************************************************************************)
EXTENDS ExportWorker, AudioSession, WellFoundedInduction, TLAPS

\* Where run() has a popped frame in its hand.
Holding == {"submit", "mark", "result", "retain"}

\* The hand is empty when run() pops into it.  Only a submit_ that throws leaves
\* a frame in it, and that worker is never started again.
HandIsFree == /\ wpc \in Holding => hand \in Frames
              /\ hand # None => wpc \in Holding \/ (wpc = "ended" /\ state = "failed")

IInv == TypeOK /\ HandIsFree /\ UnansweredHasOwner

-----------------------------------------------------------------------------
(* The queue as a set of frames. *)

\* Membership in a queue, as UnansweredHasOwner states it.
Queued(s, f) == \E i \in DOMAIN s : s[i] = f

\* try_push adds one frame to the queue.
LEMMA AppendQueues ==
  ASSUME NEW s \in Seq(Frames), NEW f \in Frames
  PROVE  /\ Append(s, f) \in Seq(Frames) /\ Len(Append(s, f)) = Len(s) + 1
         /\ \A g : Queued(s, g) => Queued(Append(s, f), g)
         /\ Queued(Append(s, f), f)
<1>1. Append(s, f) \in Seq(Frames) /\ Len(Append(s, f)) = Len(s) + 1
  OBVIOUS
<1>2. /\ DOMAIN s \subseteq DOMAIN Append(s, f)
      /\ \A i \in DOMAIN s : Append(s, f)[i] = s[i]
  OBVIOUS
<1>3. Len(s) + 1 \in DOMAIN Append(s, f) /\ Append(s, f)[Len(s) + 1] = f
  OBVIOUS
<1> QED
  BY <1>1, <1>2, <1>3 DEF Queued

\* try_pop takes the first frame and no other.
LEMMA TailQueues ==
  ASSUME NEW s \in Seq(Frames), s # <<>>
  PROVE  /\ Tail(s) \in Seq(Frames) /\ Len(Tail(s)) = Len(s) - 1 /\ Head(s) \in Frames
         /\ \A g : Queued(s, g) => g = Head(s) \/ Queued(Tail(s), g)
<1>1. Tail(s) \in Seq(Frames) /\ Len(Tail(s)) = Len(s) - 1 /\ Head(s) \in Frames
  OBVIOUS
<1>2. ASSUME NEW i \in DOMAIN s, i # 1
      PROVE  i - 1 \in DOMAIN Tail(s) /\ Tail(s)[i - 1] = s[i]
  BY <1>2
<1>3. Head(s) = s[1]
  OBVIOUS
<1> QED
  BY <1>1, <1>2, <1>3 DEF Queued

-----------------------------------------------------------------------------
LEMMA InitEstablishes == Init => IInv
<1> SUFFICES ASSUME Init PROVE IInv
  OBVIOUS
<1>1. items \in Seq(Frames) /\ Len(items) <= Capacity
  BY ExportAssumption DEF Init
<1>2. fence \in [Frames -> Fences]
  BY DEF Init, Fences
<1>3. TypeOK
  BY <1>1, <1>2 DEF Init, TypeOK
<1> QED
  BY <1>3 DEF Init, IInv, HandIsFree, UnansweredHasOwner, Holding

LEMMA StepPreserves == IInv /\ [Next]_vars => IInv'
<1> SUFFICES ASSUME IInv, [Next]_vars PROVE IInv'
  OBVIOUS
<1> USE DEF IInv
<1>1. ASSUME NEW f \in Frames, Push(f) PROVE IInv'
  <2>1. Append(items, f) \in Seq(Frames) /\ Len(Append(items, f)) <= Capacity
    BY <1>1, AppendQueues, ExportAssumption DEF Push, TypeOK
  <2>2. TypeOK'
    BY <1>1, <2>1 DEF Push, TypeOK, worker, control
  <2>3. HandIsFree'
    BY <1>1 DEF Push, HandIsFree, worker
  <2>4. UnansweredHasOwner'
    BY <1>1, AppendQueues DEF Push, UnansweredHasOwner, Queued, Answered, TypeOK, worker
  <2> QED
    BY <2>2, <2>3, <2>4
<1>2. ASSUME NEW f \in Frames, NEW answer \in Answers, EncoderAnswers(f, answer) PROVE IInv'
  <2>1. TypeOK'
    BY <1>2 DEF EncoderAnswers, TypeOK, Fences, worker, control
  <2>2. HandIsFree'
    BY <1>2 DEF EncoderAnswers, HandIsFree, worker
  <2>3. UnansweredHasOwner'
    BY <1>2 DEF EncoderAnswers, UnansweredHasOwner, Answered, TypeOK, worker
  <2> QED
    BY <2>1, <2>2, <2>3
<1>3. CASE Start
  BY <1>3 DEF Start, TypeOK, HandIsFree, Holding, UnansweredHasOwner, Answered, control
<1>4. CASE RequestDrain
  BY <1>4 DEF RequestDrain, TypeOK, HandIsFree, UnansweredHasOwner, Answered, worker
<1>5. CASE RequestCancel
  BY <1>5 DEF RequestCancel, TypeOK, HandIsFree, UnansweredHasOwner, Answered, worker
<1>6. CASE CancelPending
  <2>1. TypeOK'
    BY <1>6, ExportAssumption DEF CancelPending, AnswerAll, TypeOK, Fences, Answers, worker
  <2>2. HandIsFree'
    BY <1>6 DEF CancelPending, HandIsFree, worker
  <2>3. UnansweredHasOwner'
    BY <1>6 DEF CancelPending, AnswerAll, UnansweredHasOwner, Answered, Answers, TypeOK, worker
  <2> QED
    BY <2>1, <2>2, <2>3
<1>7. CASE Close
  BY <1>7 DEF Close, TypeOK, HandIsFree, UnansweredHasOwner, Answered, worker
<1>8. CASE TestCancel
  <2>1. TypeOK'
    BY <1>8 DEF TestCancel, AnswerAll, TypeOK, Fences, Answers, control
  <2>2. HandIsFree'
    BY <1>8 DEF TestCancel, HandIsFree, Holding
  <2>3. UnansweredHasOwner'
    BY <1>8 DEF TestCancel, AnswerAll, UnansweredHasOwner, Answered, Answers, TypeOK
  <2> QED
    BY <2>1, <2>2, <2>3
<1>9. CASE Expire
  <2>1. PICK late \in SUBSET active : AnswerAll(late, "failed")
    BY <1>9 DEF Expire
  <2>2. TypeOK'
    BY <1>9, <2>1 DEF Expire, Step, AnswerAll, TypeOK, Fences, Answers, control
  <2>3. HandIsFree'
    BY <1>9 DEF Expire, Step, HandIsFree, Holding
  <2>4. UnansweredHasOwner'
    BY <1>9, <2>1 DEF Expire, AnswerAll, UnansweredHasOwner, Answered, Answers, TypeOK
  <2> QED
    BY <2>2, <2>3, <2>4
<1>10. CASE Collect
  <2>1. TypeOK'
    BY <1>10 DEF Collect, Step, TypeOK, control
  <2>2. HandIsFree'
    BY <1>10 DEF Collect, Step, HandIsFree, Holding
  <2>3. UnansweredHasOwner'
    BY <1>10 DEF Collect, AnsweredFrames, UnansweredHasOwner, Answered, TypeOK
  <2> QED
    BY <2>1, <2>2, <2>3
<1>11. CASE Pop
  <2>1. CASE Cardinality(active) < MaxInFlight /\ items # <<>>
    <3>1. hand = None /\ hand' = Head(items) /\ items' = Tail(items) /\ wpc' = "submit"
      BY <1>11, <2>1 DEF Pop, HandIsFree, Holding
    <3>2. TypeOK'
      BY <1>11, <3>1, <2>1, TailQueues, ExportAssumption DEF Pop, TypeOK, control
    <3>3. HandIsFree'
      BY <3>1, <2>1, TailQueues DEF HandIsFree, Holding, TypeOK
    <3>4. UnansweredHasOwner'
      BY <1>11, <3>1, <2>1, TailQueues, ExportAssumption
         DEF Pop, UnansweredHasOwner, Queued, Answered, TypeOK
    <3> QED
      BY <3>2, <3>3, <3>4
  <2>2. CASE ~(Cardinality(active) < MaxInFlight /\ items # <<>>)
    BY <1>11, <2>2
       DEF Pop, TypeOK, HandIsFree, Holding, UnansweredHasOwner, Answered, control
  <2> QED
    BY <2>1, <2>2
<1>12. ASSUME NEW r \in {"ok", "error"}, Submit(r) PROVE IInv'
  <2>1. hand \in Frames
    BY <1>12 DEF Submit, Step, HandIsFree, Holding
  <2> QED
    BY <1>12, <2>1
       DEF Submit, Step, TypeOK, HandIsFree, Holding, UnansweredHasOwner, Answered, control
<1>13. CASE MarkSubmitted
  <2>1. hand \in Frames /\ fence' \in [Frames -> Fences]
    BY <1>13 DEF MarkSubmitted, Step, HandIsFree, Holding, TypeOK, Fences
  <2>2. \A f \in Frames : f # hand => fence'[f] = fence[f]
    BY <1>13 DEF MarkSubmitted, TypeOK
  <2>3. TypeOK'
    BY <1>13, <2>1 DEF MarkSubmitted, Step, TypeOK, control
  <2>4. HandIsFree'
    BY <1>13 DEF MarkSubmitted, Step, HandIsFree, Holding
  <2>5. UnansweredHasOwner'
    BY <1>13, <2>2 DEF MarkSubmitted, UnansweredHasOwner, Answered, TypeOK
  <2> QED
    BY <2>3, <2>4, <2>5
<1>14. CASE FailRefused
  <2>1. hand \in Frames /\ fence' \in [Frames -> Fences]
    BY <1>14 DEF FailRefused, Step, HandIsFree, Holding, TypeOK, Fences, Answers
  <2>2. \A f \in Frames : f # hand => fence'[f] = fence[f]
    BY <1>14 DEF FailRefused, TypeOK
  <2>3. TypeOK'
    BY <1>14, <2>1 DEF FailRefused, Step, TypeOK, control
  <2>4. HandIsFree'
    BY <1>14 DEF FailRefused, Step, HandIsFree, Holding
  <2>5. UnansweredHasOwner'
    BY <1>14, <2>2 DEF FailRefused, UnansweredHasOwner, Answered, TypeOK
  <2> QED
    BY <2>3, <2>4, <2>5
<1>15. CASE Retain
  <2>1. hand \in Frames
    BY <1>15 DEF Retain, Step, HandIsFree, Holding
  <2> QED
    BY <1>15, <2>1
       DEF Retain, Step, TypeOK, HandIsFree, Holding, UnansweredHasOwner, Answered, control
<1>16. CASE TestDrain
  BY <1>16 DEF TestDrain, TypeOK, HandIsFree, Holding, UnansweredHasOwner, Answered, control
<1>17. CASE SubmitThrows
  <2>1. TypeOK'
    BY <1>17 DEF SubmitThrows, Step, AnswerAll, TypeOK, Fences, Answers, control
  <2>2. HandIsFree'
    BY <1>17 DEF SubmitThrows, Step, HandIsFree, Holding
  <2>3. UnansweredHasOwner'
    BY <1>17 DEF SubmitThrows, AnswerAll, UnansweredHasOwner, Answered, Answers, TypeOK
  <2> QED
    BY <2>1, <2>2, <2>3
<1>18. CASE UNCHANGED vars
  BY <1>18 DEF vars, worker, control, TypeOK, HandIsFree, UnansweredHasOwner, Answered
<1> QED
  BY <1>1, <1>2, <1>3, <1>4, <1>5, <1>6, <1>7, <1>8, <1>9, <1>10, <1>11, <1>12, <1>13, <1>14,
     <1>15, <1>16, <1>17, <1>18
     DEF Next, WorkerStep, ControlStep, Answers

LEMMA Invariance == Spec => []IInv
<1>1. Init => IInv
  BY InitEstablishes
<1>2. IInv /\ [Next]_vars => IInv'
  BY StepPreserves
<1> QED
  BY <1>1, <1>2, PTL DEF Spec

-----------------------------------------------------------------------------
\* Every state of the worker, its queue and its fences has its type; the queue
\* keeps its capacity (ExportSubmissionQueue::try_push).
THEOREM TypeCorrect == Spec => []TypeOK
<1>1. IInv => TypeOK
  BY DEF IInv
<1> QED
  BY <1>1, Invariance, PTL

\* An accepted frame that is not answered is queued, in the worker's hand, or both
\* watched and retained, however drain, cancel, timeouts and the encoder meet.
THEOREM WaitersHaveOwners == Spec => []UnansweredHasOwner
<1>1. IInv => UnansweredHasOwner
  BY DEF IInv
<1> QED
  BY <1>1, Invariance, PTL

\* A frame that waits in the queue, or was never pushed, is unanswered and in
\* nobody's hands, so that cancel_pending answers for no frame of another.
QueueIsUntouched ==
  /\ \A i \in DOMAIN items : items[i] \in accepted
  /\ \A i, j \in DOMAIN items : items[i] = items[j] => i = j
  /\ \A f \in Frames : f \notin accepted \/ Queued(items, f) =>
       fence[f] = "pending" /\ f # hand /\ f \notin encoder \cup active \cup retained

\* Popping the queue leaves frames that were in it, once each, without the first.
LEMMA TailIsDistinct ==
  ASSUME NEW s \in Seq(Frames), s # <<>>, \A i, j \in DOMAIN s : s[i] = s[j] => i = j
  PROVE  /\ \A i \in DOMAIN Tail(s) : Tail(s)[i] = s[i + 1] /\ i + 1 \in DOMAIN s
         /\ \A i, j \in DOMAIN Tail(s) : Tail(s)[i] = Tail(s)[j] => i = j
         /\ \A g : Queued(Tail(s), g) => Queued(s, g) /\ g # Head(s)
<1>1. \A i \in DOMAIN Tail(s) : Tail(s)[i] = s[i + 1] /\ i + 1 \in DOMAIN s /\ i \in Nat
  OBVIOUS
<1>2. Head(s) = s[1] /\ 1 \in DOMAIN s
  OBVIOUS
<1>3. \A i \in DOMAIN Tail(s) : i # 0
  OBVIOUS
<1>4. \A i, j \in DOMAIN Tail(s) : Tail(s)[i] = Tail(s)[j] => i = j
  <2>1. ASSUME NEW i \in DOMAIN Tail(s), NEW j \in DOMAIN Tail(s), Tail(s)[i] = Tail(s)[j]
        PROVE  i = j
    <3>1. i + 1 = j + 1
      BY <2>1, <1>1
    <3> QED
      BY <3>1, <1>1
  <2> QED
    BY <2>1
<1>5. ASSUME NEW g, Queued(Tail(s), g) PROVE Queued(s, g) /\ g # Head(s)
  <2>1. PICK i \in DOMAIN Tail(s) : Tail(s)[i] = g
    BY <1>5 DEF Queued
  <2>2. s[i + 1] = g /\ i + 1 \in DOMAIN s /\ i + 1 # 1
    BY <2>1, <1>1, <1>3
  <2> QED
    BY <2>2, <1>2 DEF Queued
<1> QED
  BY <1>1, <1>4, <1>5

\* What the other steps touch is in the hands of the worker or of the encoder.
LEMMA OthersKeepQueue ==
  ASSUME QueueIsUntouched, UNCHANGED <<items, accepted>>,
         \A f \in Frames : fence'[f] = fence[f] \/ f \in encoder \cup active \cup retained \cup {hand},
         hand' \in {hand, None}, None \notin Frames,
         encoder' \subseteq encoder \cup {hand},
         active' \subseteq active \cup {hand}, retained' \subseteq retained \cup {hand}
  PROVE  QueueIsUntouched'
BY DEF QueueIsUntouched, Queued

LEMMA QueueStaysUntouched == ASSUME IInv, QueueIsUntouched, Next PROVE QueueIsUntouched'
<1>1. fence \in [Frames -> Fences] /\ items \in Seq(Frames) /\ None \notin Frames
  BY ExportAssumption DEF IInv, TypeOK
<1>2. ASSUME NEW f \in Frames, Push(f) PROVE QueueIsUntouched'
  <2>1. /\ f \notin accepted /\ items' = Append(items, f) /\ accepted' = accepted \cup {f}
        /\ UNCHANGED <<fence, hand, encoder, active, retained>>
    BY <1>2 DEF Push, worker
  <2>2. \A i \in DOMAIN items' :
          items'[i] = (IF i = Len(items) + 1 THEN f ELSE items[i])
          /\ (i # Len(items) + 1 => i \in DOMAIN items)
    BY <2>1, <1>1
  <2>3. \A i, j \in DOMAIN items' : items'[i] = items'[j] => i = j
    BY <2>1, <2>2 DEF QueueIsUntouched
  <2>4. \A g \in Frames : g \notin accepted' \/ Queued(items', g) =>
                          g \notin accepted \/ Queued(items, g)
    BY <2>1, <2>2 DEF Queued
  <2> QED
    BY <2>1, <2>2, <2>3, <2>4 DEF QueueIsUntouched
<1>3. CASE Pop
  <2>1. CASE UNCHANGED <<hand, items>>
    BY <1>3, <2>1, <1>1, OthersKeepQueue DEF Pop
  <2>2. CASE items # <<>> /\ hand' = Head(items) /\ items' = Tail(items)
    <3>1. UNCHANGED <<fence, encoder, active, retained, accepted>>
      BY <1>3 DEF Pop
    <3>2. Head(items) = items[1] /\ 1 \in DOMAIN items
      BY <2>2, <1>1
    <3>3. /\ \A i \in DOMAIN items' : items'[i] = items[i + 1] /\ i + 1 \in DOMAIN items
          /\ \A i, j \in DOMAIN items' : items'[i] = items'[j] => i = j
          /\ \A g : Queued(items', g) => Queued(items, g) /\ g # Head(items)
      BY <2>2, <1>1, TailIsDistinct DEF QueueIsUntouched
    <3> QED
      BY <2>2, <3>1, <3>2, <3>3 DEF QueueIsUntouched
  <2> QED
    BY <1>3, <2>1, <2>2 DEF Pop
<1>4. CASE CancelPending
  <2>1. items' = <<>> /\ UNCHANGED <<hand, encoder, active, retained, accepted>>
    BY <1>4 DEF CancelPending, worker
  <2>2. \A f \in Frames : f \notin accepted => fence'[f] = fence[f]
    BY <1>4 DEF CancelPending, AnswerAll, QueueIsUntouched
  <2> QED
    BY <2>1, <2>2 DEF QueueIsUntouched, Queued
<1>5. CASE MarkSubmitted \/ FailRefused
  BY <1>1, <1>5, OthersKeepQueue DEF MarkSubmitted, FailRefused, Step
<1>6. CASE TestCancel \/ Expire \/ SubmitThrows
  BY <1>1, <1>6, OthersKeepQueue DEF TestCancel, Expire, SubmitThrows, AnswerAll, Step
<1>7. ASSUME NEW f \in Frames, NEW answer \in Answers, EncoderAnswers(f, answer)
      PROVE  QueueIsUntouched'
  BY <1>1, <1>7, OthersKeepQueue DEF EncoderAnswers, worker
<1>8. CASE (\E r \in {"ok", "error"} : Submit(r)) \/ Retain \/ Collect \/ TestDrain
  BY <1>1, <1>8, OthersKeepQueue DEF Submit, Retain, Collect, TestDrain, Step
<1>9. CASE Close \/ Start \/ RequestDrain \/ RequestCancel
  BY <1>1, <1>9, OthersKeepQueue DEF Close, Start, RequestDrain, RequestCancel, worker
<1> QED
  BY <1>2, <1>3, <1>4, <1>5, <1>6, <1>7, <1>8, <1>9 DEF Next, WorkerStep, ControlStep, Answers

LEMMA QueueUntouched == Spec => []QueueIsUntouched
<1>1. Init => QueueIsUntouched
  BY ExportAssumption DEF Init, QueueIsUntouched, Queued
<1>2. IInv /\ QueueIsUntouched /\ [Next]_vars => QueueIsUntouched'
  <2>1. ASSUME QueueIsUntouched, UNCHANGED vars PROVE QueueIsUntouched'
    BY <2>1 DEF vars, worker, QueueIsUntouched, Queued
  <2> QED
    BY <2>1, QueueStaysUntouched
<1> QED
  BY <1>1, <1>2, Invariance, PTL DEF Spec

\* An answered fence stays answered, and it keeps its answer once the encoder has
\* answered and the worker has collected the frame: mark_submitted is a
\* compare-and-swap, the worker answers for frames it watches only, and cancel
\* for those and for queued ones, none of which is answered
\* (ExportCompletionFence, ExportWorker::run).
THEOREM CollectedAnswersAreFinal == Spec => AnswersStick
<1> DEFINE Sticks == \A f \in Frames : Answered(f) =>
                       /\ Answered(f)'
                       /\ fence'[f] = fence[f] \/ Held(f)
<1>1. IInv /\ QueueIsUntouched /\ [Next]_vars => [Sticks]_vars
  <2> SUFFICES ASSUME IInv, QueueIsUntouched, Next PROVE Sticks
    OBVIOUS
  <2>1. fence \in [Frames -> Fences]
    BY DEF IInv, TypeOK
  <2>2. ASSUME NEW F, NEW answer \in Answers, AnswerAll(F, answer),
               \A f \in F : f \in Frames /\ Answered(f) => Held(f)
        PROVE  Sticks
    BY <2>2, <2>1 DEF AnswerAll, Answered
  <2>3. CASE UNCHANGED fence
    BY <2>3 DEF Answered
  <2>4. CASE MarkSubmitted
    BY <2>4, <2>1 DEF MarkSubmitted, Answered, Answers
  <2>5. CASE FailRefused
    BY <2>5, <2>1 DEF FailRefused, Answered, Answers
  <2>6. ASSUME NEW f \in Frames, NEW answer \in Answers, EncoderAnswers(f, answer) PROVE Sticks
    BY <2>6, <2>1 DEF EncoderAnswers, Answered, Held
  <2>7. CASE TestCancel \/ Expire \/ SubmitThrows
    <3>1. \A f \in active \cup retained : f \in Frames /\ Answered(f) => Held(f)
      BY <2>7 DEF TestCancel, Expire, SubmitThrows, Step, Held
    <3> QED
      BY <2>7, <2>2, <2>3, <3>1 DEF TestCancel, Expire, SubmitThrows, Answers
  <2>8. CASE CancelPending
    <3>1. \A i \in DOMAIN items : items[i] \in Frames => ~ Answered(items[i])
      BY DEF QueueIsUntouched, Queued, Answered, Answers
    <3> QED
      BY <2>8, <2>2, <3>1 DEF CancelPending, Answers
  <2>9. CASE Collect \/ Pop \/ (\E r \in {"ok", "error"} : Submit(r)) \/ Retain \/ TestDrain
             \/ Close \/ (\E f \in Frames : Push(f)) \/ Start \/ RequestDrain \/ RequestCancel
    BY <2>9, <2>3
       DEF Collect, Pop, Submit, Retain, TestDrain, Close, Push, Start, RequestDrain,
           RequestCancel
  <2> QED
    BY <2>4, <2>5, <2>6, <2>7, <2>8, <2>9 DEF Next, WorkerStep, ControlStep, Answers
<1> QED
  BY <1>1, Invariance, QueueUntouched, PTL DEF Spec, AnswersStick

-----------------------------------------------------------------------------
(* Numbers.  Every set of natural numbers has a least one: what the proofs *)
(* below use where one would say "by induction". *)

LEMMA LeastNumber ==
  ASSUME NEW T \in SUBSET Nat, T # {}
  PROVE  \E n \in T : \A m \in T : n <= m
<1> DEFINE R == {ss \in Nat \X Nat : ss[1] < ss[2]}
<1>1. IsWellFoundedOn(OpToRel(<, Nat), Nat)
  BY NatLessThanWellFounded
<1>2. OpToRel(<, Nat) = R
  BY DEF OpToRel
<1>3. IsWellFoundedOn(R, Nat)
  BY <1>1, <1>2
<1>4. \A i, j \in Nat : i < j => <<i, j>> \in R
  OBVIOUS
<1> HIDE DEF R
<1>5. PICK n \in T : \A y \in T : ~ (<<y, n>> \in R)
  BY <1>3, WFMin
<1>6. ASSUME NEW m \in T PROVE n <= m
  <2>1. m \in Nat /\ n \in Nat
    OBVIOUS
  <2>2. ~ (m < n)
    BY <1>4, <1>5, <2>1
  <2> QED
    BY <2>1, <2>2
<1> QED
  BY <1>6

LEMMA GreatestNumber ==
  ASSUME NEW b \in Nat, NEW T \in SUBSET (0..b), T # {}
  PROVE  \E n \in T : \A m \in T : m <= n
<1> DEFINE U == {b - m : m \in T}
<1>1. U \in SUBSET Nat /\ U # {}
  <2>1. \A m \in T : b - m \in Nat
    OBVIOUS
  <2> QED
    BY <2>1
<1>2. PICK u \in U : \A v \in U : u <= v
  BY <1>1, LeastNumber
<1>3. PICK n \in T : u = b - n
  OBVIOUS
<1>4. ASSUME NEW m \in T PROVE m <= n
  <2>1. b - n <= b - m
    BY <1>2, <1>3
  <2> QED
    BY <2>1
<1> QED
  BY <1>4

LEMMA MinOf ==
  ASSUME NEW T \in SUBSET Nat, T # {}
  PROVE  Min(T) \in T /\ \A m \in T : Min(T) <= m
BY LeastNumber DEF Min

LEMMA MaxOf ==
  ASSUME NEW b \in Nat, NEW T \in SUBSET (0..b), T # {}
  PROVE  Max(T) \in T /\ \A m \in T : m <= Max(T)
BY GreatestNumber DEF Max

LEMMA QuotientOf ==
  ASSUME NEW n \in Nat, NEW d \in Nat \ {0}
  PROVE  n \div d \in Nat /\ d * (n \div d) <= n /\ n < d * (n \div d) + d
BY Z3

LEMMA ProductOf == ASSUME NEW a \in Nat, NEW b \in Nat PROVE a * b \in Nat
OBVIOUS

LEMMA ProductGrows ==
  ASSUME NEW a \in Nat, NEW b \in Nat, NEW c \in Nat, a <= b PROVE c * a <= c * b
OBVIOUS

\* A sample is counted once: what lies less than a second of samples apart.
LEMMA ProductOrders ==
  ASSUME NEW a \in Nat, NEW b \in Nat, NEW c \in Nat \ {0}, c * a < c * b + c
  PROVE  a <= b
<1>1. SUFFICES ASSUME b + 1 <= a PROVE FALSE
  OBVIOUS
<1>2. c * (b + 1) <= c * a
  BY <1>1, ProductGrows
<1>3. c * (b + 1) = c * b + c
  OBVIOUS
<1>4. c * a \in Nat /\ c * b \in Nat
  BY ProductOf
<1> QED
  BY <1>2, <1>3, <1>4

\* The first sample at or after a time is less than a sample away from it.
LEMMA AtOrAfterIs ==
  ASSUME NEW us \in Nat
  PROVE  /\ AtOrAfter(us) \in Nat
         /\ us * Rate <= Second * AtOrAfter(us)
         /\ Second * AtOrAfter(us) < us * Rate + Second
<1>1. us * Rate \in Nat
  BY AudioAssumption, ProductOf
<1> DEFINE n == us * Rate + Second - 1
<1>2. n \in Nat /\ Second \in Nat \ {0}
  BY <1>1, AudioAssumption
<1>3. n \div Second \in Nat /\ Second * (n \div Second) <= n /\ n < Second * (n \div Second) + Second
  <2> HIDE DEF n
  <2> QED
    BY <1>2, QuotientOf
<1>4. AtOrAfter(us) = n \div Second
  BY DEF AtOrAfter
<1>5. Second * (n \div Second) \in Nat
  BY <1>2, <1>3, ProductOf
<1> DEFINE q == n \div Second
<1> DEFINE x == Second * q
<1>6. x \in Nat /\ x <= n /\ n < x + Second
  BY <1>3, <1>5
<1> HIDE DEF q, x
<1>7. us * Rate <= x /\ x < us * Rate + Second
  BY <1>1, <1>2, <1>6
<1> QED
  BY <1>3, <1>4, <1>7 DEF q, x

\* The time of a sample is less than a unit before it.
LEMMA TimeOfIs ==
  ASSUME NEW s \in Nat
  PROVE  /\ TimeOf(s) \in Nat
         /\ Rate * TimeOf(s) <= s * Second
         /\ s * Second < Rate * TimeOf(s) + Rate
BY AudioAssumption, ProductOf, QuotientOf DEF TimeOf

\* The first sample at or after a time is determined by its distance.
LEMMA AtOrAfterOnly ==
  ASSUME NEW us \in Nat, NEW k \in Nat, us * Rate <= Second * k, Second * k < us * Rate + Second
  PROVE  AtOrAfter(us) = k
<1> DEFINE a == AtOrAfter(us)
<1>1. a \in Nat /\ us * Rate <= Second * a /\ Second * a < us * Rate + Second
  BY AtOrAfterIs
<1>2. us * Rate \in Nat /\ Second * a \in Nat /\ Second * k \in Nat /\ Second \in Nat \ {0}
  BY <1>1, AudioAssumption, ProductOf
<1> HIDE DEF a
<1>3. Second * a < Second * k + Second /\ Second * k < Second * a + Second
  BY <1>1, <1>2
<1>4. a <= k /\ k <= a
  BY <1>1, <1>2, <1>3, ProductOrders
<1> QED
  BY <1>1, <1>4 DEF a

-----------------------------------------------------------------------------
(* The packets of a source.  PacketEnd is defined for every source: it is  *)
(* built packet by packet. *)

EndsAre(g, n) == g = [i \in 0..n |-> IF i = 0 THEN 0 ELSE g[i - 1] + Packets[i]]

LEMMA EndsExist == \A n \in Nat : \E g : EndsAre(g, n)
<1> DEFINE Bad == {n \in Nat : ~ \E g : EndsAre(g, n)}
<1>1. SUFFICES ASSUME Bad # {} PROVE FALSE
  OBVIOUS
<1>2. PICK n \in Bad : \A m \in Bad : n <= m
  <2> HIDE DEF Bad
  <2>1. Bad \in SUBSET Nat
    BY DEF Bad
  <2> QED
    BY <1>1, <2>1, LeastNumber
<1>3. CASE n = 0
  <2>1. EndsAre([i \in 0..0 |-> 0], 0)
    BY DEF EndsAre
  <2> QED
    BY <1>3, <2>1
<1>4. CASE n # 0
  <2>1. n \in Nat \ {0} /\ n - 1 \in Nat /\ n - 1 \notin Bad
    BY <1>2, <1>4
  <2>2. PICK g : EndsAre(g, n - 1)
    BY <2>1
  <2> DEFINE h == [i \in 0..n |-> IF i = n THEN g[n - 1] + Packets[n] ELSE g[i]]
  <2>3. \A i \in 0..n - 1 : g[i] = IF i = 0 THEN 0 ELSE g[i - 1] + Packets[i]
    BY <2>2 DEF EndsAre
  <2>4. ASSUME NEW i \in 0..n PROVE h[i] = IF i = 0 THEN 0 ELSE h[i - 1] + Packets[i]
    <3>1. CASE i = n
      BY <2>1, <3>1
    <3>2. CASE i # n
      <4>1. i \in 0..n - 1
        BY <2>1, <3>2
      <4>2. h[i] = g[i]
        BY <3>2
      <4>3. i # 0 => i - 1 \in 0..n /\ i - 1 # n /\ h[i - 1] = g[i - 1]
        BY <2>1, <4>1
      <4> QED
        BY <2>3, <4>1, <4>2, <4>3
    <3> QED
      BY <3>1, <3>2
  <2>5. h = [i \in 0..n |-> h[i]]
    OBVIOUS
  <2> HIDE DEF h
  <2>6. EndsAre(h, n)
    BY <2>4, <2>5 DEF EndsAre
  <2> QED
    BY <2>6
<1> QED
  BY <1>3, <1>4

LEMMA PacketEndIs ==
  /\ DOMAIN PacketEnd = 0..Len(Packets) /\ PacketEnd[0] = 0
  /\ \A i \in 1..Len(Packets) : PacketEnd[i] = PacketEnd[i - 1] + Packets[i]
<1>1. Len(Packets) \in Nat
  BY AudioAssumption
<1>2. EndsAre(PacketEnd, Len(Packets))
  <2>1. \E g : EndsAre(g, Len(Packets))
    BY <1>1, EndsExist
  <2>2. PacketEnd = CHOOSE g : EndsAre(g, Len(Packets))
    BY DEF PacketEnd, EndsAre
  <2> QED
    BY <2>1, <2>2
<1>3. \A i \in 0..Len(Packets) :
        PacketEnd[i] = IF i = 0 THEN 0 ELSE PacketEnd[i - 1] + Packets[i]
  BY <1>2 DEF EndsAre
<1>4. DOMAIN PacketEnd = 0..Len(Packets)
  BY <1>2 DEF EndsAre
<1> QED
  BY <1>1, <1>3, <1>4

\* Packets follow each other without a gap, and none is empty.
LEMMA EndsGrow ==
  \A i \in 0..Len(Packets) :
    /\ PacketEnd[i] \in Nat
    /\ i # 0 => PacketEnd[i - 1] \in Nat /\ PacketEnd[i - 1] < PacketEnd[i]
<1> DEFINE L == Len(Packets)
<1>1. L \in Nat /\ \A i \in 1..L : Packets[i] \in Nat \ {0}
  BY AudioAssumption
<1>2. PacketEnd[0] = 0 /\ \A i \in 1..L : PacketEnd[i] = PacketEnd[i - 1] + Packets[i]
  BY PacketEndIs
<1> HIDE DEF L
<1> DEFINE Bad == {i \in 0..L : PacketEnd[i] \notin Nat}
<1>3. Bad = {}
  <2>1. SUFFICES ASSUME Bad # {} PROVE FALSE
    OBVIOUS
  <2>2. PICK i \in Bad : \A j \in Bad : i <= j
    <3>1. Bad \in SUBSET Nat
      BY <1>1
    <3> HIDE DEF Bad
    <3> QED
      BY <2>1, <3>1, LeastNumber
  <2>3. i \in 1..L
    BY <1>1, <1>2
  <2>4. i - 1 \in 0..L /\ i - 1 \notin Bad
    BY <1>1, <2>2, <2>3
  <2> QED
    BY <1>1, <1>2, <2>3, <2>4
<1>4. ASSUME NEW i \in 0..L
      PROVE  /\ PacketEnd[i] \in Nat
             /\ i # 0 => PacketEnd[i - 1] \in Nat /\ PacketEnd[i - 1] < PacketEnd[i]
  <2>1. PacketEnd[i] \in Nat
    BY <1>3
  <2>2. ASSUME i # 0 PROVE PacketEnd[i - 1] \in Nat /\ PacketEnd[i - 1] < PacketEnd[i]
    <3>1. i \in 1..L /\ i - 1 \in 0..L
      BY <1>1, <2>2
    <3>2. PacketEnd[i - 1] \in Nat
      BY <1>3, <3>1
    <3> QED
      BY <1>1, <1>2, <3>1, <3>2
  <2> QED
    BY <2>1, <2>2
<1> QED
  BY <1>4 DEF L

LEMMA EndsOrdered ==
  ASSUME NEW i \in 0..Len(Packets), NEW j \in 0..Len(Packets), i <= j
  PROVE  PacketEnd[i] <= PacketEnd[j]
<1> DEFINE L == Len(Packets)
<1>1. L \in Nat
  BY AudioAssumption
<1>2. \A k \in 0..L : /\ PacketEnd[k] \in Nat
                      /\ k # 0 => PacketEnd[k - 1] \in Nat /\ PacketEnd[k - 1] < PacketEnd[k]
  BY EndsGrow
<1> HIDE DEF L
<1> DEFINE Bad == {k \in i..L : PacketEnd[k] < PacketEnd[i]}
<1>3. i \in 0..L /\ j \in i..L
  BY <1>1 DEF L
<1>4. SUFFICES ASSUME Bad # {} PROVE FALSE
  BY <1>2, <1>3
<1>5. PICK k \in Bad : \A m \in Bad : k <= m
  <2>1. Bad \in SUBSET Nat
    BY <1>1, <1>3
  <2> HIDE DEF Bad
  <2> QED
    BY <1>4, <2>1, LeastNumber
<1>6. k # i /\ k \in i..L
  BY <1>2, <1>3
<1>7. k - 1 \in i..L /\ k - 1 \notin Bad
  BY <1>1, <1>3, <1>5, <1>6
<1>8. /\ k \in 0..L /\ k # 0 /\ PacketEnd[i] \in Nat /\ PacketEnd[k] \in Nat
      /\ PacketEnd[k - 1] \in Nat /\ PacketEnd[k - 1] < PacketEnd[k]
  BY <1>1, <1>2, <1>3, <1>6
<1>9. ~ (PacketEnd[k - 1] < PacketEnd[i]) /\ PacketEnd[k] < PacketEnd[i]
  BY <1>5, <1>7
<1> QED
  BY <1>8, <1>9

\* A sample between the ends of two packets lies in a packet between them.
LEMMA PacketOf ==
  ASSUME NEW i \in 0..Len(Packets), NEW j \in 0..Len(Packets),
         NEW s \in Nat, PacketEnd[i] <= s, s < PacketEnd[j]
  PROVE  \E k \in i + 1..j : s \in PacketEnd[k - 1] .. PacketEnd[k] - 1
<1> DEFINE L == Len(Packets)
<1>1. L \in Nat
  BY AudioAssumption
<1>2. \A k \in 0..L : PacketEnd[k] \in Nat
  BY EndsGrow
<1> HIDE DEF L
<1>3. i \in 0..L /\ j \in 0..L
  BY DEF L
<1>4. i < j
  <2>1. SUFFICES ASSUME j <= i PROVE FALSE
    BY <1>1, <1>3
  <2>2. PacketEnd[j] <= PacketEnd[i]
    BY <2>1, EndsOrdered
  <2> QED
    BY <1>2, <1>3, <2>2
<1> DEFINE Above == {k \in i..j : s < PacketEnd[k]}
<1>5. PICK k \in Above : \A m \in Above : k <= m
  <2>1. Above \in SUBSET Nat
    BY <1>3
  <2>2. j \in Above
    BY <1>1, <1>3, <1>4
  <2> HIDE DEF Above
  <2> QED
    BY <2>1, <2>2, LeastNumber
<1>6. k # i /\ k \in i..j
  BY <1>2, <1>3
<1>7. k - 1 \in i..j /\ k - 1 \notin Above
  BY <1>3, <1>5, <1>6
<1>8. /\ k \in i + 1..j /\ PacketEnd[k - 1] \in Nat /\ PacketEnd[k] \in Nat
      /\ PacketEnd[k - 1] <= s /\ s < PacketEnd[k]
  BY <1>1, <1>2, <1>3, <1>5, <1>6, <1>7
<1> QED
  BY <1>8

-----------------------------------------------------------------------------
(* The cursor of a pipeline: where it streams, the packet it reads next    *)
(* starts no later than the request that would continue the last one. *)

PipelineFields == {"streaming", "next", "carry", "nextRequest", "mode", "locked",
                   "revision", "duration", "gain", "block"}
HasFields(p) == PipelineFields \subseteq DOMAIN p

First(p) == IF p.carry # 0 THEN p.carry ELSE p.next
StandsAt(p, start) == /\ First(p) \in 1..Len(Packets) + 1
                      /\ PacketEnd[First(p) - 1] <= start
CursorFits(p) == p.streaming => p.nextRequest \in Nat /\ StandsAt(p, p.nextRequest)

LEMMA LandingFits ==
  ASSUME NEW us \in Nat, NEW i \in Landings(us)
  PROVE  i \in 1..Len(Packets) /\ PacketEnd[i - 1] <= AtOrAfter(us)
<1> DEFINE L == Len(Packets)
<1> DEFINE a == AtOrAfter(us)
<1> DEFINE T == {1} \union {k \in DOMAIN Packets : TimeOf(PacketEnd[k - 1]) <= us}
<1>1. L \in Nat /\ L >= 1 /\ DOMAIN Packets = 1..L
  BY AudioAssumption
<1>2. a \in Nat /\ us * Rate <= Second * a
  BY AtOrAfterIs
<1>3. PacketEnd[0] = 0 /\ \A k \in 0..L : PacketEnd[k] \in Nat
  BY PacketEndIs, EndsGrow
<1> HIDE DEF a, L
<1>4. ASSUME NEW k \in 1..L, TimeOf(PacketEnd[k - 1]) <= us PROVE PacketEnd[k - 1] <= a
  <2> DEFINE e == PacketEnd[k - 1]
  <2>1. e \in Nat
    <3>1. k - 1 \in 0..L
      BY <1>1
    <3> QED
      BY <1>3, <3>1
  <2> HIDE DEF e
  <2>2. TimeOf(e) \in Nat /\ e * Second < Rate * TimeOf(e) + Rate /\ TimeOf(e) <= us
    BY <1>4, <2>1, TimeOfIs DEF e
  <2>3. Rate \in Nat /\ Second \in Nat \ {0} /\ Rate <= Second
    BY AudioAssumption
  <2>4. Rate * TimeOf(e) <= Rate * us /\ Rate * us = us * Rate
    BY <2>2, <2>3, ProductGrows
  <2>5. Rate * TimeOf(e) \in Nat /\ us * Rate \in Nat /\ Second * a \in Nat /\ e * Second \in Nat
    BY <1>2, <2>1, <2>2, <2>3, ProductOf
  <2>6. e * Second < Second * a + Second
    BY <1>2, <2>2, <2>3, <2>4, <2>5
  <2>7. e * Second = Second * e
    BY <2>1, <2>3
  <2> QED
    BY <1>2, <2>1, <2>3, <2>6, <2>7, ProductOrders DEF e
<1>5. T \in SUBSET (0..L) /\ T # {} /\ \A k \in T : k \in 1..L /\ PacketEnd[k - 1] <= a
  <2>1. \A k \in T : k \in 1..L /\ PacketEnd[k - 1] <= a
    BY <1>1, <1>2, <1>3, <1>4
  <2> QED
    BY <1>1, <2>1
<1> DEFINE at == Max(T)
<1>6. at \in 1..L /\ PacketEnd[at - 1] <= a
  <2> HIDE DEF T
  <2> QED
    BY <1>1, <1>5, MaxOf
<1>7. i = at \/ (i = at - 1 /\ i # 0)
  BY DEF Landings
<1> HIDE DEF at
<1>8. CASE i = at - 1 /\ i # 0
  <2>1. i \in 1..L /\ i - 1 \in 0..L /\ i \in 0..L
    BY <1>1, <1>6, <1>8
  <2>2. PacketEnd[i - 1] <= PacketEnd[i] /\ PacketEnd[i] <= a
    BY <1>1, <1>6, <1>8, <2>1, EndsOrdered DEF L
  <2> QED
    BY <1>2, <1>3, <2>1, <2>2 DEF a, L
<1> QED
  BY <1>6, <1>7, <1>8 DEF a, L

LEMMA SoughtFits ==
  ASSUME NEW p, HasFields(p), CursorFits(p), NEW us \in Nat,
         NEW r \in Sought(p, us, AtOrAfter(us))
  PROVE  StandsAt(r, AtOrAfter(us))
<1>1. CASE r = p /\ p.streaming /\ AtOrAfter(us) = p.nextRequest
  BY <1>1 DEF CursorFits
<1>2. ASSUME NEW i \in Landings(us), r = [p EXCEPT !.streaming = TRUE, !.carry = 0, !.next = i]
      PROVE  StandsAt(r, AtOrAfter(us))
  <2>1. First(r) = i
    BY <1>2 DEF First, HasFields, PipelineFields
  <2>2. i \in 1..Len(Packets) + 1
    BY LandingFits, AudioAssumption
  <2> QED
    BY <2>1, <2>2, LandingFits DEF StandsAt
<1> QED
  BY <1>1, <1>2 DEF Sought

\* A request that starts where the cursor stands, or behind, is the source.
LEMMA ReadFits ==
  ASSUME NEW p, HasFields(p), NEW start \in Nat, NEW frames \in Nat, StandsAt(p, start)
  PROVE  CursorFits(Read(p, start, frames)) /\ BlockIsSource(Read(p, start, frames))
<1> DEFINE L == Len(Packets)
<1> DEFINE end == start + frames
<1> DEFINE first == First(p)
<1> DEFINE reach == {i \in first..L : PacketEnd[i] >= end}
<1> DEFINE last == IF reach = {} THEN L ELSE Min(reach)
<1> DEFINE taken == {s \in start..end - 1 :
                       \E i \in first..last : s \in PacketEnd[i - 1] .. PacketEnd[i] - 1}
<1> DEFINE q == Read(p, start, frames)
<1>1. /\ q.streaming = (reach # {}) /\ q.next = last + 1
      /\ q.carry = IF reach # {} /\ PacketEnd[last] > end THEN last ELSE 0
      /\ q.nextRequest = end
      /\ q.block = [start |-> start, frames |-> frames, copied |-> taken]
  BY DEF Read, HasFields, PipelineFields, First
<1>2. L \in Nat /\ end \in Nat /\ first \in 1..L + 1 /\ start <= end
  BY AudioAssumption DEF StandsAt
<1>3. first - 1 \in 0..L /\ PacketEnd[first - 1] <= start
  BY <1>2 DEF StandsAt
<1>4. \A i \in 0..L : PacketEnd[i] \in Nat
  BY EndsGrow
<1> HIDE DEF L, first, end
<1>5. ASSUME reach # {}
      PROVE  /\ last \in first..L /\ PacketEnd[last] >= end
             /\ \A i \in first..L : i < last => PacketEnd[i] < end
  <2>1. reach \in SUBSET Nat
    BY <1>2
  <2>2. Min(reach) \in reach /\ \A m \in reach : Min(reach) <= m
    <3> HIDE DEF reach
    <3> QED
      BY <1>5, <2>1, MinOf
  <2>3. last = Min(reach)
    BY <1>5
  <2>4. ASSUME NEW i \in first..L, i < Min(reach) PROVE PacketEnd[i] < end
    <3>1. i \notin reach
      <4>1. ~ (Min(reach) <= i)
        BY <1>2, <2>1, <2>2, <2>4
      <4> QED
        BY <2>2, <4>1
    <3>2. i \in 0..L
      BY <1>2
    <3> QED
      BY <1>2, <1>4, <3>1, <3>2
  <2> QED
    BY <2>2, <2>3, <2>4
<1>6. last \in 0..L /\ (reach = {} => last = L)
  BY <1>2, <1>5
<1> HIDE DEF reach, last
<1>7. CursorFits(q)
  <2>1. SUFFICES ASSUME reach # {} PROVE end \in Nat /\ StandsAt(q, end)
    BY <1>1 DEF CursorFits
  <2>2. CASE PacketEnd[last] > end
    <3>1. last # 0 /\ First(q) = last
      BY <1>1, <1>2, <1>5, <2>1, <2>2 DEF First
    <3>2. last \in 1..L + 1 /\ last - 1 \in 0..L
      BY <1>2, <1>6, <3>1
    <3>3. PacketEnd[last - 1] <= end
      <4>1. CASE last = first
        BY <1>2, <1>3, <1>4, <4>1
      <4>2. CASE last # first
        <5>1. last - 1 \in first..L /\ last - 1 < last
          BY <1>2, <1>5, <2>1, <4>2
        <5> QED
          BY <1>2, <1>4, <1>5, <2>1, <3>2, <5>1
      <4> QED
        BY <4>1, <4>2
    <3> QED
      BY <1>2, <3>1, <3>2, <3>3 DEF StandsAt, L
  <2>3. CASE ~ (PacketEnd[last] > end)
    <3>1. First(q) = last + 1 /\ (last + 1) - 1 = last
      BY <1>1, <1>6, <2>3 DEF First
    <3>2. PacketEnd[last] <= end
      BY <1>2, <1>4, <1>6, <2>3
    <3>3. last + 1 \in 1..L + 1
      BY <1>2, <1>6
    <3> QED
      BY <1>2, <3>1, <3>2, <3>3 DEF StandsAt, L
  <2> QED
    BY <2>2, <2>3
<1>8. BlockIsSource(q)
  <2>1. Total = PacketEnd[L] /\ Total \in Nat /\ PacketEnd[0] = 0
    BY <1>2, <1>4, PacketEndIs DEF Total, L
  <2>2. ASSUME NEW s \in start..end - 1, s \in 0..Total - 1
        PROVE  s \in taken
    <3>1. s \in Nat /\ start <= s /\ s < end /\ s < Total
      BY <1>2, <2>1, <2>2
    <3>2. s < PacketEnd[last]
      <4>1. CASE reach = {}
        BY <1>6, <2>1, <3>1, <4>1
      <4>2. CASE reach # {}
        BY <1>2, <1>4, <1>5, <1>6, <3>1, <4>2
      <4> QED
        BY <4>1, <4>2
    <3>3. PacketEnd[first - 1] <= s
      BY <1>3, <1>4, <3>1
    <3>4. PICK i \in (first - 1) + 1..last : s \in PacketEnd[i - 1] .. PacketEnd[i] - 1
      BY <1>3, <1>6, <3>1, <3>2, <3>3, PacketOf DEF L
    <3>5. i \in first..last
      BY <1>2, <1>6
    <3> QED
      BY <3>4, <3>5
  <2>3. ASSUME NEW s \in taken PROVE s \in start..end - 1 /\ s \in 0..Total - 1
    <3>1. s \in start..end - 1
      OBVIOUS
    <3>2. PICK i \in first..last : s \in PacketEnd[i - 1] .. PacketEnd[i] - 1
      OBVIOUS
    <3>3. i \in 0..L /\ i - 1 \in 0..L /\ L \in 0..L /\ i <= L
      BY <1>2, <1>6
    <3>4. PacketEnd[i] <= PacketEnd[L]
      BY <3>3, EndsOrdered DEF L
    <3>5. PacketEnd[i] \in Nat /\ PacketEnd[i - 1] \in Nat
      BY <1>4, <3>3
    <3> QED
      BY <2>1, <3>1, <3>2, <3>4, <3>5
  <2> HIDE DEF taken
  <2>4. taken = (start..end - 1) \intersect 0..Total - 1
    <3>1. \A s \in taken : s \in (start..end - 1) \intersect 0..Total - 1
      BY <2>3
    <3>2. \A s \in (start..end - 1) \intersect 0..Total - 1 : s \in taken
      BY <2>2
    <3> QED
      BY <3>1, <3>2
  <2>5. /\ q.block.copied = taken
        /\ q.block.start .. q.block.start + q.block.frames - 1 = start..end - 1
    BY <1>1 DEF end
  <2> HIDE DEF q
  <2> QED
    BY <2>4, <2>5 DEF BlockIsSource
<1> QED
  BY <1>7, <1>8

-----------------------------------------------------------------------------
(* What the calls of a pipeline leave: the cursor fits, the block rendered *)
(* last is the source, and only publishing and freezing touch the mix. *)

IsPipeline(p) == HasFields(p) /\ CursorFits(p) /\ BlockIsSource(p)
SameMix(p, q) == IsPipeline(q) /\ Snapshot(q) = Snapshot(p) /\ q.locked = p.locked

LEMMA NewIsPipeline == IsPipeline(NewPipeline) /\ ~ NewPipeline.locked
<1>1. HasFields(NewPipeline) /\ ~ NewPipeline.locked /\ ~ NewPipeline.streaming
  BY DEF HasFields, PipelineFields, NewPipeline
<1>2. /\ NewPipeline.block.copied = {} /\ NewPipeline.block.start = 0
      /\ NewPipeline.block.frames = 0
  BY DEF NewPipeline
<1> QED
  BY <1>1, <1>2 DEF IsPipeline, CursorFits, BlockIsSource

\* A pipeline that is to be sought, with the block and the mix of another.
LEMMA AtRest ==
  ASSUME NEW p, IsPipeline(p), NEW q, HasFields(q), ~ q.streaming, q.block = p.block
  PROVE  IsPipeline(q)
BY DEF IsPipeline, CursorFits, BlockIsSource

LEMMA ResetIs ==
  ASSUME NEW p, HasFields(p)
  PROVE  /\ HasFields(Reset(p)) /\ ~ Reset(p).streaming /\ Reset(p).block = p.block
         /\ Snapshot(Reset(p)) = Snapshot(p) /\ Reset(p).locked = p.locked
BY DEF HasFields, PipelineFields, Snapshot, Reset

LEMMA ResetKeeps == ASSUME NEW p, IsPipeline(p) PROVE SameMix(p, Reset(p))
<1>1. HasFields(p)
  BY DEF IsPipeline
<1> QED
  BY <1>1, ResetIs, AtRest DEF SameMix

LEMMA InModeKeeps == ASSUME NEW p, IsPipeline(p), NEW mode PROVE SameMix(p, InMode(p, mode))
<1> DEFINE q == [Reset(p) EXCEPT !.mode = mode]
<1>1. HasFields(p)
  BY DEF IsPipeline
<1>2. /\ HasFields(q) /\ ~ q.streaming /\ q.block = p.block
      /\ Snapshot(q) = Snapshot(p) /\ q.locked = p.locked
  BY <1>1, ResetIs DEF HasFields, PipelineFields, Snapshot
<1> HIDE DEF q
<1>3. SameMix(p, q)
  BY <1>2, AtRest DEF SameMix
<1> QED
  BY <1>3 DEF InMode, SameMix, q

LEMMA SoughtKeeps ==
  ASSUME NEW p, HasFields(p), NEW us, NEW start, NEW r \in Sought(p, us, start)
  PROVE  HasFields(r) /\ Snapshot(r) = Snapshot(p) /\ r.locked = p.locked
BY DEF Sought, HasFields, PipelineFields, Snapshot

LEMMA ReadKeeps ==
  ASSUME NEW p, HasFields(p), NEW start, NEW frames
  PROVE  LET q == Read(p, start, frames)
         IN  /\ HasFields(q) /\ Snapshot(q) = Snapshot(p) /\ q.locked = p.locked
             /\ q.block.start = start
BY DEF Read, HasFields, PipelineFields, Snapshot

LEMMA RenderKeeps ==
  ASSUME NEW p, IsPipeline(p), NEW mode, NEW us \in Nat, NEW frames \in Nat,
         NEW q \in Render(p, mode, us, frames)
  PROVE  SameMix(p, q) /\ q.block.start = AtOrAfter(us)
<1> DEFINE i == InMode(p, mode)
<1> DEFINE start == AtOrAfter(us)
<1>1. SameMix(p, i)
  BY InModeKeeps
<1>2. start \in Nat
  BY AtOrAfterIs
<1>3. \/ q = [i EXCEPT !.block = [start |-> start, frames |-> 0, copied |-> {}]]
      \/ \E r \in Sought(i, us, start) : q = Read(r, start, frames)
  BY DEF Render
<1> HIDE DEF i
<1>4. CASE q = [i EXCEPT !.block = [start |-> start, frames |-> 0, copied |-> {}]]
  <2>1. /\ HasFields(q) /\ Snapshot(q) = Snapshot(i) /\ q.locked = i.locked
        /\ q.block = [start |-> start, frames |-> 0, copied |-> {}]
        /\ q.streaming = i.streaming /\ q.nextRequest = i.nextRequest
        /\ q.carry = i.carry /\ q.next = i.next
    BY <1>1, <1>4 DEF SameMix, IsPipeline, HasFields, PipelineFields, Snapshot
  <2>2. CursorFits(q)
    BY <1>1, <2>1 DEF SameMix, IsPipeline, CursorFits, StandsAt, First
  <2>3. BlockIsSource(q) /\ q.block.start = start
    <3>1. q.block.start = start /\ q.block.frames = 0 /\ q.block.copied = {}
      BY <2>1
    <3>2. start .. start + 0 - 1 = {}
      BY <1>2
    <3> QED
      BY <3>1, <3>2 DEF BlockIsSource
  <2> QED
    BY <1>1, <2>1, <2>2, <2>3 DEF SameMix, IsPipeline
<1>5. ASSUME NEW r \in Sought(i, us, start), q = Read(r, start, frames)
      PROVE  SameMix(p, q) /\ q.block.start = start
  <2>1. HasFields(i) /\ CursorFits(i)
    BY <1>1 DEF SameMix, IsPipeline
  <2>2. HasFields(r) /\ Snapshot(r) = Snapshot(i) /\ r.locked = i.locked
    BY <2>1, SoughtKeeps
  <2>3. StandsAt(r, start)
    BY <2>1, SoughtFits
  <2>4. CursorFits(q) /\ BlockIsSource(q)
    BY <1>2, <1>5, <2>2, <2>3, ReadFits
  <2>5. HasFields(q) /\ Snapshot(q) = Snapshot(r) /\ q.locked = r.locked /\ q.block.start = start
    BY <1>5, <2>2, ReadKeeps
  <2> QED
    BY <1>1, <2>2, <2>4, <2>5 DEF SameMix, IsPipeline
<1> QED
  BY <1>3, <1>4, <1>5

LEMMA FailingKeeps ==
  ASSUME NEW p, IsPipeline(p), NEW mode PROVE SameMix(p, RenderFails(p, mode))
BY InModeKeeps, ResetKeeps DEF RenderFails, SameMix

LEMMA PublishedMix ==
  ASSUME NEW p, IsPipeline(p), NEW revision, NEW duration, NEW gain
  PROVE  LET q == Publish(p, revision, duration, gain)
         IN  IsPipeline(q) /\ Snapshot(q) = <<revision, duration, gain>> /\ q.locked = p.locked
<1> DEFINE q == Publish(p, revision, duration, gain)
<1>1. HasFields(p)
  BY DEF IsPipeline
<1>2. /\ HasFields(q) /\ ~ q.streaming /\ q.block = p.block
      /\ Snapshot(q) = <<revision, duration, gain>> /\ q.locked = p.locked
  BY <1>1, ResetIs DEF Publish, HasFields, PipelineFields, Snapshot
<1> HIDE DEF q
<1>3. IsPipeline(q)
  BY <1>2, AtRest
<1> QED
  BY <1>2, <1>3 DEF q

LEMMA FrozenKeeps ==
  ASSUME NEW p, IsPipeline(p)
  PROVE  /\ IsPipeline(Freeze(p)) /\ Snapshot(Freeze(p)) = Snapshot(p) /\ Freeze(p).locked
         /\ IsPipeline(Thaw(p)) /\ Snapshot(Thaw(p)) = Snapshot(p)
<1>1. HasFields(p)
  BY DEF IsPipeline
<1>2. /\ HasFields(Freeze(p)) /\ ~ Freeze(p).streaming /\ Freeze(p).block = p.block
      /\ Snapshot(Freeze(p)) = Snapshot(p) /\ Freeze(p).locked
  BY <1>1, ResetIs DEF Freeze, HasFields, PipelineFields, Snapshot
<1>3. /\ HasFields(Thaw(p)) /\ ~ Thaw(p).streaming /\ Thaw(p).block = p.block
      /\ Snapshot(Thaw(p)) = Snapshot(p)
  BY <1>1, ResetIs DEF Thaw, HasFields, PipelineFields, Snapshot
<1> QED
  BY <1>2, <1>3, AtRest

-----------------------------------------------------------------------------
(* What each command leaves of the output. *)

OutputFields == {"on", "voice", "playing", "failure", "eof", "at", "rate"}
IsOutput(o) == /\ OutputFields \subseteq DOMAIN o
               /\ o.on \in BOOLEAN /\ o.voice \in BOOLEAN
               /\ o.playing \in BOOLEAN /\ o.failure \in BOOLEAN /\ o.at \in Nat

\* Whatever a command answers: it neither opens nor closes the output, it takes
\* back no failure, and a session without media asks nobody.
Obeys(o, p, a) ==
  /\ IsOutput(a.out) /\ a.out.on = o.on /\ (o.failure => a.out.failure)
  /\ SameMix(p, a.pipe)
  /\ ~ o.on => a.ok /\ a.out = o

LEMMA SameMixSelf == ASSUME NEW p, IsPipeline(p) PROVE SameMix(p, p)
BY DEF SameMix

LEMMA ClosedIsOutput ==
  /\ IsOutput(NoOutput) /\ ~ NoOutput.on
  /\ \A rate : LET o == [NoOutput EXCEPT !.on = TRUE, !.rate = rate]
               IN  IsOutput(o) /\ o.on /\ o.rate = rate /\ ~ o.failure
BY DEF NoOutput, IsOutput, OutputFields

LEMMA AdvanceKeeps ==
  ASSUME NEW o, IsOutput(o)
  PROVE  LET x == Advance(o)
         IN  /\ IsOutput(x) /\ x.on = o.on /\ x.failure = o.failure /\ x.rate = o.rate
             /\ x.playing = o.playing
<1> DEFINE t == TimeOf(Block)
<1>1. t \in Nat
  BY SessionAssumption, TimeOfIs
<1> HIDE DEF t
<1>2. Advance(o) = [o EXCEPT !.at = @ + t]
  BY DEF Advance, t
<1> QED
  BY <1>1, <1>2 DEF IsOutput, OutputFields

LEMMA SeekLockedKeeps ==
  ASSUME NEW o, IsOutput(o), NEW p, IsPipeline(p), NEW us \in Nat, NEW resume \in BOOLEAN,
         NEW a \in SeekLocked(o, p, us, resume)
  PROVE  /\ IsOutput(a.out) /\ a.out.on = o.on /\ a.out.failure = o.failure
         /\ a.out.rate = o.rate /\ SameMix(p, a.pipe)
         /\ a.ok => a.out.playing = resume
<1> DEFINE bare == [o EXCEPT !.voice = FALSE, !.eof = FALSE, !.at = us]
<1> DEFINE fed == [Advance(bare) EXCEPT !.voice = TRUE]
<1> DEFINE Like(x) == /\ IsOutput(x) /\ x.on = o.on /\ x.failure = o.failure /\ x.rate = o.rate
<1>1. Like(bare)
  BY DEF IsOutput, OutputFields
<1>2. Like(fed)
  <2> DEFINE next == Advance(bare)
  <2> HIDE DEF bare
  <2>1. Like(next)
    BY <1>1, AdvanceKeeps
  <2> HIDE DEF next
  <2>2. Like([next EXCEPT !.voice = TRUE])
    BY <2>1 DEF IsOutput, OutputFields
  <2> QED
    BY <2>2 DEF next
<1>3. /\ Like([bare EXCEPT !.eof = TRUE, !.playing = resume])
      /\ [bare EXCEPT !.eof = TRUE, !.playing = resume].playing = resume
  <2> HIDE DEF bare
  <2> QED
    BY <1>1 DEF IsOutput, OutputFields
<1>4. /\ Like([fed EXCEPT !.playing = resume]) /\ [fed EXCEPT !.playing = resume].playing = resume
      /\ \A v \in BOOLEAN : Like([fed EXCEPT !.voice = v])
  <2> HIDE DEF fed
  <2> QED
    BY <1>2 DEF IsOutput, OutputFields
<1>5. SameMix(p, RenderFails(p, "playback"))
  BY FailingKeeps
<1>6. \A q \in Render(p, "playback", us, Block) : SameMix(p, q)
  BY SessionAssumption, RenderKeeps
<1>7. \/ a = Answer(FALSE, bare, RenderFails(p, "playback"))
      \/ \E q \in Render(p, "playback", us, Block) :
           \/ a = Answer(TRUE, [bare EXCEPT !.eof = TRUE, !.playing = resume], q)
           \/ a = Answer(TRUE, [fed EXCEPT !.playing = resume], q)
           \/ \E v \in BOOLEAN : a = Answer(FALSE, [fed EXCEPT !.voice = v], q)
  BY DEF SeekLocked
<1> HIDE DEF bare, fed
<1>8. CASE a = Answer(FALSE, bare, RenderFails(p, "playback"))
  BY <1>1, <1>5, <1>8 DEF Answer
<1>9. ASSUME NEW q \in Render(p, "playback", us, Block),
             a = Answer(TRUE, [bare EXCEPT !.eof = TRUE, !.playing = resume], q)
      PROVE  Like(a.out) /\ SameMix(p, a.pipe) /\ a.out.playing = resume
  <2>1. a.out = [bare EXCEPT !.eof = TRUE, !.playing = resume] /\ a.pipe = q /\ a.ok = TRUE
    BY <1>9 DEF Answer
  <2> QED
    BY <2>1, <1>3, <1>6
<1>10. ASSUME NEW q \in Render(p, "playback", us, Block),
              a = Answer(TRUE, [fed EXCEPT !.playing = resume], q)
       PROVE  Like(a.out) /\ SameMix(p, a.pipe) /\ a.out.playing = resume
  <2>1. a.out = [fed EXCEPT !.playing = resume] /\ a.pipe = q /\ a.ok = TRUE
    BY <1>10 DEF Answer
  <2> QED
    BY <2>1, <1>4, <1>6
<1>11. ASSUME NEW q \in Render(p, "playback", us, Block), NEW v \in BOOLEAN,
              a = Answer(FALSE, [fed EXCEPT !.voice = v], q)
       PROVE  Like(a.out) /\ SameMix(p, a.pipe) /\ ~ a.ok
  <2>1. a.out = [fed EXCEPT !.voice = v] /\ a.pipe = q /\ a.ok = FALSE
    BY <1>11 DEF Answer
  <2> QED
    BY <2>1, <1>4, <1>6
<1> QED
  BY <1>7, <1>8, <1>9, <1>10, <1>11

\* An output that is closed or broken does nothing.
LEMMA CommandIdle ==
  ASSUME NEW o, IsOutput(o), NEW p, IsPipeline(p), NEW answers,
         NEW a \in Command(o, p, answers), ~ o.on \/ o.failure
  PROVE  Obeys(o, p, a) /\ a.out = o /\ (o.on => ~ a.ok)
BY SameMixSelf DEF Command, Answer, Obeys, IsOutput

LEMMA PlayKeeps ==
  ASSUME NEW o, IsOutput(o), NEW p, IsPipeline(p), NEW a \in PlayOutput(o, p)
  PROVE  /\ Obeys(o, p, a) /\ a.out.rate = o.rate
         /\ o.on /\ a.ok => a.out.playing
<1>1. CASE ~ o.on \/ o.failure
  BY <1>1, CommandIdle DEF PlayOutput
<1>2. CASE o.on /\ ~ o.failure
  <2>1. PICK f \in {FALSE, o.voice} :
          a = Answer(~ f, [o EXCEPT !.playing = @ \/ ~ f, !.failure = f], p)
    BY <1>2 DEF PlayOutput, Command
  <2>2. CASE ~ f
    BY <1>2, <2>1, <2>2, SameMixSelf DEF Answer, Obeys, IsOutput, OutputFields
  <2>3. CASE f
    BY <1>2, <2>1, <2>3, SameMixSelf DEF Answer, Obeys, IsOutput, OutputFields
  <2> QED
    BY <2>2, <2>3
<1> QED
  BY <1>1, <1>2 DEF IsOutput

LEMMA PauseKeeps ==
  ASSUME NEW o, IsOutput(o), NEW p, IsPipeline(p), NEW a \in PauseOutput(o, p)
  PROVE  /\ Obeys(o, p, a) /\ a.out.rate = o.rate
         /\ o.on /\ ~ a.out.failure => ~ a.out.playing
<1>1. CASE ~ o.on \/ o.failure
  BY <1>1, CommandIdle DEF PauseOutput
<1>2. CASE o.on /\ ~ o.failure
  <2>1. PICK f \in {FALSE, o.voice} :
          a = Answer(~ f, [o EXCEPT !.playing = FALSE, !.failure = f], p)
    BY <1>2 DEF PauseOutput, Command
  <2> QED
    BY <1>2, <2>1, SameMixSelf DEF Answer, Obeys, IsOutput, OutputFields
<1> QED
  BY <1>1, <1>2 DEF IsOutput

LEMMA StopKeeps ==
  ASSUME NEW o, IsOutput(o), NEW p, IsPipeline(p), NEW a \in StopOutput(o, p)
  PROVE  /\ Obeys(o, p, a) /\ a.out.rate = o.rate
         /\ o.on /\ a.ok => ~ a.out.playing
<1> DEFINE quiet == [o EXCEPT !.playing = FALSE]
<1>1. CASE ~ o.on \/ o.failure
  BY <1>1, CommandIdle DEF StopOutput
<1>2. CASE o.on /\ ~ o.failure
  <2>1. /\ IsOutput(quiet) /\ quiet.on = o.on /\ quiet.failure = o.failure
        /\ quiet.rate = o.rate
    BY DEF IsOutput, OutputFields
  <2>2. a \in SeekLocked(quiet, p, 0, FALSE)
    BY <1>2 DEF StopOutput, Command
  <2> HIDE DEF quiet
  <2> QED
    BY <1>2, <2>1, <2>2, SeekLockedKeeps DEF Obeys
<1> QED
  BY <1>1, <1>2 DEF IsOutput

LEMMA SeekKeeps ==
  ASSUME NEW o, IsOutput(o), NEW p, IsPipeline(p), NEW us \in Nat, NEW a \in SeekOutput(o, p, us)
  PROVE  /\ Obeys(o, p, a) /\ a.out.rate = o.rate
         /\ a.ok => a.out.playing = o.playing
<1>1. CASE ~ o.on \/ o.failure
  BY <1>1, CommandIdle DEF SeekOutput
<1>2. CASE o.on /\ ~ o.failure
  <2>1. a \in SeekLocked(o, p, us, o.playing) /\ o.playing \in BOOLEAN
    BY <1>2 DEF SeekOutput, Command, IsOutput
  <2> QED
    BY <1>2, <2>1, SeekLockedKeeps DEF Obeys
<1> QED
  BY <1>1, <1>2 DEF IsOutput

LEMMA RateKeeps ==
  ASSUME NEW o, IsOutput(o), NEW p, IsPipeline(p), NEW rate, NEW a \in RateOutput(o, p, rate)
  PROVE  /\ Obeys(o, p, a) /\ a.out.playing = o.playing
         /\ o.on /\ a.ok => a.out.rate = rate /\ ~ a.out.failure
<1>1. CASE ~ o.on \/ o.failure
  BY <1>1, CommandIdle DEF RateOutput
<1>2. CASE o.on /\ ~ o.failure
  <2>1. PICK f \in {FALSE, o.voice} : a = Answer(~ f, [o EXCEPT !.rate = rate], p)
    BY <1>2 DEF RateOutput, Command
  <2> QED
    BY <1>2, <2>1, SameMixSelf DEF Answer, Obeys, IsOutput, OutputFields
<1> QED
  BY <1>1, <1>2 DEF IsOutput

LEMMA RestoredKeeps ==
  ASSUME NEW o, IsOutput(o), NEW rate
  PROVE  LET r == Restored(o, rate)
         IN  /\ IsOutput(r) /\ r.on = o.on /\ r.playing = o.playing /\ r.failure = o.failure
             /\ o.on /\ ~ o.failure => r.rate = rate
<1>1. CASE o.on /\ ~ o.failure
  BY <1>1 DEF Restored, IsOutput, OutputFields
<1>2. CASE ~ (o.on /\ ~ o.failure)
  BY <1>2 DEF Restored, IsOutput
<1> QED
  BY <1>1, <1>2

-----------------------------------------------------------------------------
(* The session, and the invariant. *)

SessionFields == {"state", "revision", "duration", "position", "rate", "gain",
                  "updates", "attached"}
IsSession(s) == /\ SessionFields \subseteq DOMAIN s
                /\ s.updates \in Nat /\ s.duration \in Nat /\ s.position \in Nat
                /\ s.attached \in BOOLEAN

\* OutputFollowsSession of a session and an output that are being worked on.
Follows(s, o, t) ==
  s.attached /\ ~ t /\ ~ o.failure =>
    (o.playing <=> s.state = "playing") /\ o.rate = s.rate

AudioTypes ==
  /\ IsSession(session) /\ IsOutput(output) /\ IsPipeline(pipe)
  /\ exporter \in [active : BOOLEAN, origin : Nat, frames : Nat]
  /\ exporter.active => exporter.origin \in Origins
  /\ troubled \in BOOLEAN
\* The output is opened and closed with the media.
OutputIsOpen == output.on = session.attached

AudioInv == /\ AudioTypes /\ OutputIsOpen /\ MixIsFrozenOrShown /\ OutputFollowsSession

\* The mix the session shows.
Shown(s) == <<s.updates + 1, s.duration, s.gain>>

\* Reading the clock leaves the controls and the mix alone, and pauses both
\* sides at the end of the timeline.
LEMMA MaterializedKeeps ==
  ASSUME NEW s, IsSession(s), NEW o, IsOutput(o), o.on = s.attached, IsPipeline(pipe),
         NEW t, Follows(s, o, t), NEW m \in Materialized(s, o)
  PROVE  /\ IsSession(m[1]) /\ IsOutput(m[2]) /\ m[1].attached = s.attached
         /\ m[2].on = o.on /\ Follows(m[1], m[2], t) /\ m[1].rate = s.rate
         /\ Shown(m[1]) = Shown(s) /\ (o.failure => m[2].failure)
<1>1. CASE m = <<s, o>>
  BY <1>1
<1>2. ASSUME NEW us \in Nat, m = <<[s EXCEPT !.position = us], o>>
      PROVE  /\ IsSession(m[1]) /\ IsOutput(m[2]) /\ m[1].attached = s.attached
             /\ m[2].on = o.on /\ Follows(m[1], m[2], t) /\ m[1].rate = s.rate
             /\ Shown(m[1]) = Shown(s) /\ (o.failure => m[2].failure)
  <2>1. m[1] = [s EXCEPT !.position = us] /\ m[2] = o
    BY <1>2
  <2> QED
    BY <2>1 DEF IsSession, SessionFields, Follows, Shown
<1>3. ASSUME NEW a \in PauseOutput(o, pipe),
             m = <<[s EXCEPT !.position = s.duration, !.state = "paused"], a.out>>
      PROVE  /\ IsSession(m[1]) /\ IsOutput(m[2]) /\ m[1].attached = s.attached
             /\ m[2].on = o.on /\ Follows(m[1], m[2], t) /\ m[1].rate = s.rate
             /\ Shown(m[1]) = Shown(s) /\ (o.failure => m[2].failure)
  <2>1. m[1] = [s EXCEPT !.position = s.duration, !.state = "paused"] /\ m[2] = a.out
    BY <1>3
  <2>2. /\ IsSession(m[1]) /\ m[1].attached = s.attached /\ m[1].rate = s.rate
        /\ m[1].state = "paused" /\ Shown(m[1]) = Shown(s)
    BY <2>1 DEF IsSession, SessionFields, Shown
  <2>3. Obeys(o, pipe, a) /\ a.out.rate = o.rate /\ (o.on /\ ~ a.out.failure => ~ a.out.playing)
    BY PauseKeeps
  <2> QED
    BY <2>1, <2>2, <2>3 DEF Obeys, Follows, IsOutput
<1>4. \A us \in Times \union {s.position} : us \in Nat
  BY SessionAssumption DEF IsSession
<1> QED
  BY <1>1, <1>2, <1>3, <1>4 DEF Materialized

\* What a step has to show of the two sides when the exporter stands still.
LEMMA StepKeeps ==
  ASSUME AudioInv, exporter' = exporter, frozen' = frozen, troubled' \in BOOLEAN,
         IsSession(session'), IsOutput(output'), output'.on = session'.attached,
         Follows(session', output', troubled'), IsPipeline(pipe'),
         \/ SameMix(pipe, pipe')
         \/ ~ exporter.active,
         session'.attached => Snapshot(pipe') = Shown(session')
  PROVE  AudioInv'
<1>1. AudioTypes'
  BY DEF AudioInv, AudioTypes
<1>2. FrozenMix'
  BY DEF AudioInv, MixIsFrozenOrShown, FrozenMix, SameMix
<1>3. PipelineMatchesSession'
  BY DEF PipelineMatchesSession, Shown
<1>4. OutputFollowsSession'
  BY DEF OutputFollowsSession, Follows
<1> QED
  BY <1>1, <1>2, <1>3, <1>4 DEF AudioInv, OutputIsOpen, MixIsFrozenOrShown

\* The invariant in the terms of these lemmas.
LEMMA AudioFacts ==
  ASSUME AudioInv
  PROVE  /\ IsSession(session) /\ IsOutput(output) /\ IsPipeline(pipe)
         /\ troubled \in BOOLEAN /\ exporter.active \in BOOLEAN
         /\ output.on = session.attached /\ Follows(session, output, troubled)
         /\ session.attached => Snapshot(pipe) = Shown(session)
         /\ exporter.active => pipe.locked
         /\ SameMix(pipe, pipe)
BY SameMixSelf
   DEF AudioInv, AudioTypes, OutputIsOpen, OutputFollowsSession, Follows, MixIsFrozenOrShown,
       PipelineMatchesSession, FrozenMix, Shown

LEMMA AudioBegins == AudioInit => AudioInv
<1> SUFFICES ASSUME AudioInit PROVE AudioInv
  OBVIOUS
<1>1. IsSession(session) /\ ~ session.attached
  BY DEF AudioInit, IsSession, SessionFields
<1>2. IsOutput(output) /\ ~ output.on
  BY ClosedIsOutput DEF AudioInit
<1>3. /\ exporter \in [active : BOOLEAN, origin : Nat, frames : Nat] /\ ~ exporter.active
      /\ troubled \in BOOLEAN /\ IsPipeline(pipe)
  BY NewIsPipeline DEF AudioInit, NoExport
<1> QED
  BY <1>1, <1>2, <1>3 DEF AudioInv, AudioTypes, OutputIsOpen, MixIsFrozenOrShown, FrozenMix,
     PipelineMatchesSession, OutputFollowsSession, IsSession, IsOutput

\* Commands that only the output answers: Play, Pause, Stop and Seek.
LEMMA AnsweredKeeps ==
  ASSUME AudioInv, NEW o, IsOutput(o), o.on = session.attached,
         NEW a, Obeys(o, pipe, a), Keeps(a),
         exporter' = exporter, frozen' = frozen,
         IsSession(session'), session'.attached = session.attached,
         Shown(session') = Shown(session),
         Follows(session', a.out, troubled \/ ~ a.ok)
  PROVE  AudioInv'
<1>1. /\ output' = a.out /\ pipe' = a.pipe /\ troubled' = (troubled \/ ~ a.ok)
      /\ troubled' \in BOOLEAN
  BY AudioFacts DEF Keeps, Obeys
<1>2. IsOutput(output') /\ output'.on = session'.attached
  BY <1>1 DEF Obeys
<1>3. SameMix(pipe, pipe')
  BY <1>1 DEF Obeys
<1>4. session'.attached => Snapshot(pipe') = Shown(session')
  BY <1>3, AudioFacts DEF SameMix
<1> QED
  BY <1>1, <1>2, <1>3, <1>4, StepKeeps DEF SameMix

LEMMA PlayActs == ASSUME AudioInv, Play PROVE AudioInv'
<1>1. PICK a \in PlayOutput(output, pipe) :
        /\ Keeps(a)
        /\ session' = IF a.ok THEN [session EXCEPT !.state = "playing"] ELSE session
  BY DEF Play
<1>2. /\ Obeys(output, pipe, a) /\ a.out.rate = output.rate
      /\ output.on /\ a.ok => a.out.playing
  BY AudioFacts, PlayKeeps
<1>3. /\ IsSession(session') /\ session'.attached = session.attached
      /\ Shown(session') = Shown(session) /\ session'.rate = session.rate
      /\ a.ok => session'.state = "playing"
  BY <1>1, AudioFacts DEF IsSession, SessionFields, Shown
<1>4. Follows(session', a.out, troubled \/ ~ a.ok)
  BY <1>2, <1>3, AudioFacts DEF Follows, Obeys
<1>5. exporter' = exporter /\ frozen' = frozen
  BY DEF Play
<1> QED
  BY <1>1, <1>2, <1>3, <1>4, <1>5, AudioFacts, AnsweredKeeps

LEMMA PauseActs == ASSUME AudioInv, Pause PROVE AudioInv'
<1>0. PICK m \in Materialized(session, output) : \E a \in PauseOutput(m[2], pipe) :
        /\ Keeps(a)
        /\ session' = IF a.ok THEN [m[1] EXCEPT !.state = "paused"] ELSE m[1]
  BY DEF Pause
<1>1. PICK a \in PauseOutput(m[2], pipe) :
        /\ Keeps(a)
        /\ session' = IF a.ok THEN [m[1] EXCEPT !.state = "paused"] ELSE m[1]
  BY <1>0
<1>2. /\ IsSession(m[1]) /\ IsOutput(m[2]) /\ m[1].attached = session.attached
      /\ m[2].on = output.on /\ Follows(m[1], m[2], troubled) /\ m[1].rate = session.rate
      /\ Shown(m[1]) = Shown(session) /\ (output.failure => m[2].failure)
  BY AudioFacts, MaterializedKeeps
<1>3. /\ Obeys(m[2], pipe, a) /\ a.out.rate = m[2].rate
      /\ m[2].on /\ ~ a.out.failure => ~ a.out.playing
  BY <1>2, AudioFacts, PauseKeeps
<1>4. /\ IsSession(session') /\ session'.attached = session.attached
      /\ Shown(session') = Shown(session) /\ session'.rate = m[1].rate
      /\ a.ok => session'.state = "paused"
  <2>1. CASE a.ok
    BY <1>1, <1>2, <2>1 DEF IsSession, SessionFields, Shown
  <2>2. CASE ~ a.ok
    BY <1>1, <1>2, <2>2
  <2> QED
    BY <2>1, <2>2
<1>5. Follows(session', a.out, troubled \/ ~ a.ok)
  BY <1>2, <1>3, <1>4, AudioFacts DEF Follows, Obeys
<1>6. exporter' = exporter /\ frozen' = frozen /\ m[2].on = session.attached
  BY <1>2, AudioFacts DEF Pause
<1> QED
  BY <1>1, <1>2, <1>3, <1>4, <1>5, <1>6, AnsweredKeeps

LEMMA StopActs == ASSUME AudioInv, Stop PROVE AudioInv'
<1>1. PICK a \in StopOutput(output, pipe) :
        /\ Keeps(a)
        /\ session' = IF a.ok THEN [session EXCEPT !.state = "stopped", !.position = 0]
                      ELSE session
  BY DEF Stop
<1>2. /\ Obeys(output, pipe, a) /\ a.out.rate = output.rate
      /\ output.on /\ a.ok => ~ a.out.playing
  BY AudioFacts, StopKeeps
<1>3. /\ IsSession(session') /\ session'.attached = session.attached
      /\ Shown(session') = Shown(session) /\ session'.rate = session.rate
      /\ a.ok => session'.state = "stopped"
  BY <1>1, AudioFacts DEF IsSession, SessionFields, Shown
<1>4. Follows(session', a.out, troubled \/ ~ a.ok)
  BY <1>2, <1>3, AudioFacts DEF Follows, Obeys
<1>5. exporter' = exporter /\ frozen' = frozen
  BY DEF Stop
<1> QED
  BY <1>1, <1>2, <1>3, <1>4, <1>5, AudioFacts, AnsweredKeeps

LEMMA SeekActs == ASSUME AudioInv, Seek PROVE AudioInv'
<1>0. PICK us \in Times : \E a \in SeekOutput(output, pipe, us) :
        /\ Keeps(a)
        /\ session' = IF a.ok THEN [session EXCEPT !.position = us] ELSE session
  BY DEF Seek
<1>1. PICK a \in SeekOutput(output, pipe, us) :
        /\ Keeps(a)
        /\ session' = IF a.ok THEN [session EXCEPT !.position = us] ELSE session
  BY <1>0
<1>2. /\ Obeys(output, pipe, a) /\ a.out.rate = output.rate
      /\ a.ok => a.out.playing = output.playing
  BY AudioFacts, SessionAssumption, SeekKeeps
<1>3. /\ IsSession(session') /\ session'.attached = session.attached
      /\ Shown(session') = Shown(session) /\ session'.rate = session.rate
      /\ session'.state = session.state
  BY <1>1, AudioFacts, SessionAssumption DEF IsSession, SessionFields, Shown
<1>4. Follows(session', a.out, troubled \/ ~ a.ok)
  BY <1>2, <1>3, AudioFacts DEF Follows, Obeys
<1>5. exporter' = exporter /\ frozen' = frozen
  BY DEF Seek
<1> QED
  BY <1>1, <1>2, <1>3, <1>4, <1>5, AudioFacts, AnsweredKeeps

LEMMA GetStatusActs == ASSUME AudioInv, GetStatus PROVE AudioInv'
<1>1. PICK m \in Materialized(session, output) : session' = m[1] /\ output' = m[2]
  BY DEF GetStatus
<1>2. pipe' = pipe /\ exporter' = exporter /\ troubled' = troubled /\ frozen' = frozen
  BY DEF GetStatus
<1> QED
  BY <1>1, <1>2, AudioFacts, MaterializedKeeps, StepKeeps

LEMMA FeedActs == ASSUME AudioInv, Feed PROVE AudioInv'
<1> DEFINE failed == [output EXCEPT !.failure = TRUE, !.playing = FALSE]
<1>1. session' = session /\ exporter' = exporter /\ troubled' = troubled /\ frozen' = frozen
  BY DEF Feed
<1>2. \/ \E q \in Render(pipe, "playback", output.at, Block) :
           pipe' = q /\ output' \in {[output EXCEPT !.eof = TRUE], Advance(output), failed}
      \/ pipe' = RenderFails(pipe, "playback") /\ output' = failed
  BY DEF Feed
<1>3. SameMix(pipe, pipe')
  <2>1. output.at \in Nat /\ Block \in Nat
    BY AudioFacts, SessionAssumption DEF IsOutput
  <2> QED
    BY <1>2, <2>1, AudioFacts, RenderKeeps, FailingKeeps
<1>4. /\ IsOutput(output') /\ output'.on = output.on /\ output'.rate = output.rate
      /\ ~ output'.failure => ~ output.failure /\ output'.playing = output.playing
  <2>1. output' \in {[output EXCEPT !.eof = TRUE], Advance(output), failed}
    BY <1>2
  <2>2. CASE output' = failed
    BY <2>2, AudioFacts DEF IsOutput, OutputFields
  <2>3. CASE output' = [output EXCEPT !.eof = TRUE]
    BY <2>3, AudioFacts DEF IsOutput, OutputFields
  <2>4. CASE output' = Advance(output)
    BY <2>4, AudioFacts, AdvanceKeeps
  <2> QED
    BY <2>1, <2>2, <2>3, <2>4
<1>5. Follows(session', output', troubled')
  BY <1>1, <1>4, AudioFacts DEF Follows
<1>6. session'.attached => Snapshot(pipe') = Shown(session')
  BY <1>1, <1>3, AudioFacts DEF SameMix
<1> QED
  BY <1>1, <1>3, <1>4, <1>5, <1>6, AudioFacts, StepKeeps DEF SameMix

LEMMA PublishActs == ASSUME AudioInv, PublishTimeline PROVE AudioInv'
<1>0. PICK revision \in session.revision + 1..MaxRevision, duration \in Durations, m \in Materialized(session, output) :
        LET s == m[1]
            past == duration > 0 /\ s.position > duration
            t == [s EXCEPT !.revision = revision, !.duration = duration,
                           !.position = IF past THEN duration ELSE @,
                           !.state = IF past /\ @ = "playing" THEN "paused" ELSE @]
        IN /\ session' = t
           /\ output' \in IF s.state = t.state THEN {m[2]}
                          ELSE {a.out : a \in PauseOutput(m[2], pipe)}
           /\ pipe' = IF session.attached
                      THEN Publish(pipe, session.updates + 1, duration, session.gain) ELSE pipe
  BY DEF PublishTimeline
<1> DEFINE s == m[1]
<1>1. /\ IsSession(s) /\ IsOutput(m[2]) /\ s.attached = session.attached
      /\ m[2].on = output.on /\ Follows(s, m[2], troubled) /\ s.rate = session.rate
      /\ Shown(s) = Shown(session) /\ (output.failure => m[2].failure)
  BY AudioFacts, MaterializedKeeps
<1>2. /\ IsSession(session') /\ session'.attached = session.attached /\ session'.rate = s.rate
      /\ session'.duration = duration /\ session'.updates = s.updates
      /\ session'.gain = s.gain
      /\ session'.state = s.state \/ session'.state = "paused"
  BY <1>0, <1>1, SessionAssumption DEF IsSession, SessionFields
<1>3. output' \in IF s.state = session'.state THEN {m[2]}
                  ELSE {a.out : a \in PauseOutput(m[2], pipe)}
  BY <1>0
<1>4. pipe' = IF session.attached
              THEN Publish(pipe, session.updates + 1, duration, session.gain) ELSE pipe
  BY <1>0
<1>5. IsOutput(output') /\ output'.on = session'.attached /\ Follows(session', output', troubled)
  <2>1. CASE s.state = session'.state
    BY <1>1, <1>2, <1>3, <2>1, AudioFacts DEF Follows
  <2>2. CASE s.state # session'.state
    <3>1. PICK a \in PauseOutput(m[2], pipe) : output' = a.out
      BY <1>3, <2>2
    <3>2. /\ Obeys(m[2], pipe, a) /\ a.out.rate = m[2].rate
          /\ m[2].on /\ ~ a.out.failure => ~ a.out.playing
      BY <1>1, AudioFacts, PauseKeeps
    <3>3. session'.state = "paused"
      BY <1>2, <2>2
    <3> QED
      BY <1>1, <1>2, <3>1, <3>2, <3>3, AudioFacts DEF Follows, Obeys
  <2> QED
    BY <2>1, <2>2
<1>6. /\ IsPipeline(pipe') /\ (session'.attached => Snapshot(pipe') = Shown(session'))
      /\ SameMix(pipe, pipe') \/ ~ exporter.active
  <2>1. s.updates = session.updates /\ s.gain = session.gain
    <3>1. s.updates \in Nat /\ session.updates \in Nat
      BY <1>1, AudioFacts DEF IsSession
    <3>2. s.updates + 1 = session.updates + 1 /\ s.gain = session.gain
      BY <1>1 DEF Shown
    <3> HIDE DEF s
    <3> QED
      BY <3>1, <3>2
  <2>2. CASE session.attached
    <3>1. ~ exporter.active
      BY <2>2, AudioFacts DEF PublishTimeline, CanPublish
    <3> QED
      BY <1>2, <1>4, <2>1, <2>2, <3>1, AudioFacts, PublishedMix DEF Shown
  <2>3. CASE ~ session.attached
    BY <1>2, <1>4, <2>3, AudioFacts
  <2> QED
    BY <2>2, <2>3, AudioFacts DEF IsSession
<1>7. exporter' = exporter /\ frozen' = frozen /\ troubled' = troubled
  BY DEF PublishTimeline
<1> QED
  BY <1>2, <1>5, <1>6, <1>7, AudioFacts, StepKeeps

LEMMA DetachActs == ASSUME AudioInv, Detach PROVE AudioInv'
<1>1. /\ session' = [session EXCEPT !.attached = FALSE] /\ output' = NoOutput
      /\ troubled' = FALSE /\ pipe' = Acquired /\ exporter' = exporter /\ frozen' = frozen
  BY DEF Detach
<1>2. IsSession(session') /\ session'.attached = FALSE
  BY <1>1, AudioFacts DEF IsSession, SessionFields
<1>3. IsPipeline(pipe') /\ (SameMix(pipe, pipe') \/ ~ exporter.active)
  BY <1>1, AudioFacts, NewIsPipeline DEF Acquired
<1>4. Follows(session', output', troubled')
  BY <1>2 DEF Follows
<1>5. IsOutput(output') /\ output'.on = session'.attached
  BY <1>1, <1>2, ClosedIsOutput DEF NoOutput
<1>6. troubled' \in BOOLEAN /\ (session'.attached => Snapshot(pipe') = Shown(session'))
  BY <1>1, <1>2
<1> QED
  BY <1>1, <1>2, <1>3, <1>4, <1>5, <1>6, StepKeeps

LEMMA AttachActs == ASSUME AudioInv, Attach PROVE AudioInv'
<1>1. troubled' = FALSE /\ exporter' = exporter /\ frozen' = frozen
  BY DEF Attach
<1>2. CASE /\ session' = [session EXCEPT !.attached = FALSE] /\ output' = NoOutput
           /\ pipe' = Acquired
  <2>1. IsSession(session') /\ session'.attached = FALSE
    BY <1>2, AudioFacts DEF IsSession, SessionFields
  <2>2. IsPipeline(pipe') /\ (SameMix(pipe, pipe') \/ ~ exporter.active)
    BY <1>2, AudioFacts, NewIsPipeline DEF Acquired
  <2>3. Follows(session', output', troubled')
    BY <2>1 DEF Follows
  <2>4. IsOutput(output') /\ output'.on = session'.attached
    BY <1>2, <2>1, ClosedIsOutput DEF NoOutput
  <2>5. troubled' \in BOOLEAN /\ (session'.attached => Snapshot(pipe') = Shown(session'))
    BY <1>1, <2>1
  <2> QED
    BY <1>1, <2>1, <2>2, <2>3, <2>4, <2>5, StepKeeps
<1> DEFINE open == [NoOutput EXCEPT !.on = TRUE, !.rate = session.rate]
           mix == Publish(Acquired, session.updates + 1, session.duration, session.gain)
<1>3. CASE /\ CanPublish(Acquired) /\ session' = [session EXCEPT !.attached = TRUE]
           /\ \E a \in SeekLocked(open, mix, session.position, FALSE) :
                /\ a.ok
                /\ \E b \in IF session.state = "playing" THEN PlayOutput(a.out, a.pipe) ELSE {a} :
                     b.ok /\ output' = b.out /\ pipe' = b.pipe
  <2>1. PICK a \in SeekLocked(open, mix, session.position, FALSE) :
          /\ a.ok
          /\ \E b \in IF session.state = "playing" THEN PlayOutput(a.out, a.pipe) ELSE {a} :
               b.ok /\ output' = b.out /\ pipe' = b.pipe
    BY <1>3
  <2>2. PICK b \in IF session.state = "playing" THEN PlayOutput(a.out, a.pipe) ELSE {a} :
          b.ok /\ output' = b.out /\ pipe' = b.pipe
    BY <2>1
  <2>3. ~ exporter.active /\ IsPipeline(Acquired)
    BY <1>3, AudioFacts, NewIsPipeline DEF Acquired, CanPublish
  <2>4. /\ IsSession(session') /\ session'.attached = TRUE /\ Shown(session') = Shown(session)
        /\ session'.rate = session.rate /\ session'.state = session.state
    BY <1>3, AudioFacts DEF IsSession, SessionFields, Shown
  <2>5. IsPipeline(mix) /\ Snapshot(mix) = Shown(session)
    BY <2>3, PublishedMix DEF Shown
  <2>6. /\ IsOutput(open) /\ open.on /\ open.rate = session.rate /\ ~ open.failure
        /\ open.on \in BOOLEAN
    BY ClosedIsOutput DEF IsOutput
  <2> HIDE DEF open, mix
  <2>7. /\ IsOutput(a.out) /\ a.out.on = open.on /\ a.out.failure = open.failure
        /\ a.out.rate = open.rate /\ SameMix(mix, a.pipe) /\ a.out.playing = FALSE
    <3>1. session.position \in Nat
      BY AudioFacts DEF IsSession
    <3> QED
      BY <2>1, <2>5, <2>6, <3>1, SeekLockedKeeps
  <2>8. IsPipeline(a.pipe) /\ a.out.on
    BY <2>6, <2>7 DEF SameMix
  <2>9. /\ IsOutput(output') /\ output'.on = session'.attached /\ SameMix(a.pipe, pipe')
        /\ Follows(session', output', troubled')
    <3>1. CASE session.state = "playing"
      <4>1. b \in PlayOutput(a.out, a.pipe)
        BY <2>2, <3>1
      <4>2. Obeys(a.out, a.pipe, b) /\ b.out.rate = a.out.rate /\ b.out.playing
        BY <2>2, <2>7, <2>8, <4>1, PlayKeeps
      <4> QED
        BY <2>2, <2>4, <2>6, <2>7, <2>8, <3>1, <4>2 DEF Obeys, Follows, IsOutput
    <3>2. CASE session.state # "playing"
      <4>1. b = a
        BY <2>2, <3>2
      <4> QED
        BY <2>2, <2>4, <2>6, <2>7, <2>8, <3>2, <4>1, SameMixSelf DEF Follows, IsOutput
    <3> QED
      BY <3>1, <3>2
  <2>10. IsPipeline(pipe') /\ Snapshot(pipe') = Shown(session')
    BY <2>4, <2>5, <2>7, <2>9 DEF SameMix
  <2> QED
    BY <1>1, <2>3, <2>4, <2>9, <2>10, StepKeeps
<1> QED
  BY <1>2, <1>3 DEF Attach

LEMMA ControlsAct == ASSUME AudioInv, SetControls PROVE AudioInv'
<1>0. PICK rate \in Rates, gain \in Gains, m \in Materialized(session, output) :
        \E a \in RateOutput(m[2], pipe, rate) :
          LET refused == session.attached /\ ~ CanPublish(pipe)
              done == a.ok /\ ~ refused
          IN /\ session' = IF done THEN [m[1] EXCEPT !.rate = rate, !.gain = gain,
                                                     !.updates = @ + 1]
                           ELSE m[1]
             /\ output' = IF a.ok /\ refused THEN Restored(a.out, session.rate) ELSE a.out
             /\ pipe' = IF done /\ session.attached
                        THEN Publish(pipe, session.updates + 2, session.duration, gain)
                        ELSE pipe
             /\ troubled' = (troubled \/ ~ a.ok)
  BY DEF SetControls
<1> DEFINE refused == session.attached /\ ~ CanPublish(pipe)
<1> DEFINE s == m[1]
<1>1. PICK a \in RateOutput(m[2], pipe, rate) :
        /\ session' = IF a.ok /\ ~ refused
                      THEN [s EXCEPT !.rate = rate, !.gain = gain, !.updates = @ + 1]
                      ELSE s
        /\ output' = IF a.ok /\ refused THEN Restored(a.out, session.rate) ELSE a.out
        /\ pipe' = IF a.ok /\ ~ refused /\ session.attached
                   THEN Publish(pipe, session.updates + 2, session.duration, gain)
                   ELSE pipe
        /\ troubled' = (troubled \/ ~ a.ok)
  BY <1>0
<1>2. /\ IsSession(s) /\ IsOutput(m[2]) /\ s.attached = session.attached
      /\ m[2].on = output.on /\ Follows(s, m[2], troubled) /\ s.rate = session.rate
      /\ Shown(s) = Shown(session) /\ (output.failure => m[2].failure)
  BY AudioFacts, MaterializedKeeps
<1>3. /\ Obeys(m[2], pipe, a) /\ a.out.playing = m[2].playing
      /\ m[2].on /\ a.ok => a.out.rate = rate /\ ~ a.out.failure
  BY <1>2, AudioFacts, RateKeeps
<1>4. exporter' = exporter /\ frozen' = frozen /\ troubled' \in BOOLEAN
  BY <1>1, AudioFacts DEF SetControls
<1>5. s.updates = session.updates /\ s.duration = session.duration
  <2>1. s.updates \in Nat /\ session.updates \in Nat
    BY <1>2, AudioFacts DEF IsSession
  <2>2. s.updates + 1 = session.updates + 1 /\ s.duration = session.duration
    BY <1>2 DEF Shown
  <2> HIDE DEF s
  <2> QED
    BY <2>1, <2>2
<1> HIDE DEF refused, s
<1>6. CASE ~ a.ok
  <2>1. session' = s /\ output' = a.out /\ pipe' = pipe /\ troubled'
    BY <1>1, <1>6
  <2>2. Follows(session', output', troubled')
    BY <2>1 DEF Follows
  <2> QED
    BY <1>2, <1>3, <1>4, <2>1, <2>2, AudioFacts, StepKeeps DEF Obeys
<1>7. CASE a.ok /\ refused
  <2>1. session' = s /\ output' = Restored(a.out, session.rate) /\ pipe' = pipe
        /\ (troubled' => troubled) /\ (troubled => troubled')
    BY <1>1, <1>7
  <2>2. /\ IsOutput(output') /\ output'.on = a.out.on /\ output'.playing = a.out.playing
        /\ output'.failure = a.out.failure
        /\ a.out.on /\ ~ a.out.failure => output'.rate = session.rate
    BY <1>3, <2>1, RestoredKeeps DEF Obeys
  <2>3. output'.on = session'.attached
    BY <1>2, <1>3, <2>1, <2>2, AudioFacts DEF Obeys
  <2>4. Follows(session', output', troubled')
    BY <1>2, <1>3, <2>1, <2>2, <2>3, AudioFacts DEF Follows, Obeys
  <2> QED
    BY <1>2, <1>4, <2>1, <2>2, <2>3, <2>4, AudioFacts, StepKeeps
<1>8. CASE a.ok /\ ~ refused
  <2>1. /\ session' = [s EXCEPT !.rate = rate, !.gain = gain, !.updates = @ + 1]
        /\ output' = a.out /\ (troubled' => troubled) /\ (troubled => troubled')
        /\ pipe' = IF session.attached
                   THEN Publish(pipe, session.updates + 2, session.duration, gain)
                   ELSE pipe
    BY <1>1, <1>8
  <2>2. /\ IsSession(session') /\ session'.attached = s.attached /\ session'.rate = rate
        /\ session'.state = s.state /\ session'.updates = s.updates + 1
        /\ session'.duration = s.duration /\ session'.gain = gain
    BY <1>2, <2>1 DEF IsSession, SessionFields
  <2>3. IsOutput(output') /\ output'.on = session'.attached
    BY <1>2, <1>3, <2>1, <2>2, AudioFacts DEF Obeys
  <2>4. Follows(session', output', troubled')
    BY <1>2, <1>3, <1>8, <2>1, <2>2, <2>3, AudioFacts DEF Follows, Obeys
  <2>5. session'.updates + 1 = session.updates + 2
    BY <1>5, <2>2, AudioFacts DEF IsSession
  <2>6. /\ IsPipeline(pipe') /\ (session'.attached => Snapshot(pipe') = Shown(session'))
        /\ SameMix(pipe, pipe') \/ ~ exporter.active
    <3>1. CASE session.attached
      <4>1. ~ exporter.active
        BY <1>8, <3>1, AudioFacts DEF refused, CanPublish
      <4> QED
        BY <1>5, <2>1, <2>2, <2>5, <3>1, <4>1, AudioFacts, PublishedMix DEF Shown
    <3>2. CASE ~ session.attached
      BY <1>2, <2>1, <2>2, <3>2, AudioFacts
    <3> QED
      BY <3>1, <3>2, AudioFacts DEF IsSession
  <2> QED
    BY <1>4, <2>2, <2>3, <2>4, <2>6, StepKeeps
<1> QED
  BY <1>6, <1>7, <1>8

\* The exporter renders on the pipeline of the session, whose mix stays.
LEMMA ExporterActs ==
  ASSUME AudioInv, session' = session, output' = output, troubled' = troubled,
         IsPipeline(pipe'), (session.attached => Snapshot(pipe') = Snapshot(pipe)),
         exporter' \in [active : BOOLEAN, origin : Nat, frames : Nat],
         exporter'.active => exporter'.origin \in Origins,
         exporter'.active => pipe'.locked /\ Snapshot(pipe') = frozen'
  PROVE  AudioInv'
<1>1. AudioTypes'
  BY DEF AudioInv, AudioTypes
<1>2. FrozenMix'
  BY DEF FrozenMix
<1>3. PipelineMatchesSession' /\ OutputFollowsSession' /\ OutputIsOpen'
  BY DEF AudioInv, MixIsFrozenOrShown, PipelineMatchesSession, OutputFollowsSession, OutputIsOpen
<1> QED
  BY <1>1, <1>2, <1>3 DEF AudioInv, MixIsFrozenOrShown

LEMMA BeginExportActs == ASSUME AudioInv, BeginExport PROVE AudioInv'
<1>1. PICK origin \in Origins : exporter' = [active |-> TRUE, origin |-> origin, frames |-> 0]
  BY DEF BeginExport
<1>2. /\ pipe' = Freeze(pipe) /\ frozen' = Snapshot(pipe)
      /\ session' = session /\ output' = output /\ troubled' = troubled
  BY DEF BeginExport
<1>3. IsPipeline(pipe') /\ Snapshot(pipe') = Snapshot(pipe) /\ pipe'.locked
  BY <1>2, AudioFacts, FrozenKeeps
<1>4. exporter' \in [active : BOOLEAN, origin : Nat, frames : Nat] /\ exporter'.origin \in Origins
  BY <1>1, SessionAssumption
<1> QED
  BY <1>2, <1>3, <1>4, ExporterActs

LEMMA EndExportActs == ASSUME AudioInv, EndExport PROVE AudioInv'
<1>1. /\ exporter' = NoExport /\ session' = session /\ output' = output /\ troubled' = troubled
      /\ pipe' = IF session.attached THEN Thaw(pipe) ELSE NewPipeline
  BY DEF EndExport
<1>2. exporter' \in [active : BOOLEAN, origin : Nat, frames : Nat] /\ ~ exporter'.active
  BY <1>1 DEF NoExport
<1>3. IsPipeline(pipe') /\ (session.attached => Snapshot(pipe') = Snapshot(pipe))
  BY <1>1, AudioFacts, FrozenKeeps, NewIsPipeline
<1> QED
  BY <1>1, <1>2, <1>3, ExporterActs

\* A block of an export: its range, and what it leaves.
LEMMA BlockOfExport ==
  ASSUME AudioInv, ExportBlock
  PROVE  /\ SameMix(pipe, pipe')
         /\ pipe'.block.start = AtOrAfter(exporter.origin + TimeOf(exporter.frames))
         /\ exporter' \in [active : BOOLEAN, origin : Nat, frames : Nat]
         /\ exporter.active /\ exporter'.active /\ exporter'.origin = exporter.origin
         /\ exporter.frames \in Nat /\ exporter.origin \in Nat
<1> DEFINE cursor == TimeOf(exporter.frames)
<1> DEFINE Size(target) == Min({Block, AtOrAfter(target - cursor)})
<1>1. exporter \in [active : BOOLEAN, origin : Nat, frames : Nat] /\ exporter.active
  BY DEF AudioInv, AudioTypes, ExportBlock
<1>2. PICK target \in Times \union {ExportLength} :
        /\ cursor < target
        /\ pipe' \in Render(pipe, "export", exporter.origin + cursor, Size(target))
        /\ exporter' = [exporter EXCEPT !.frames = @ + Size(target)]
  BY DEF ExportBlock
<1>3. cursor \in Nat
  BY <1>1, TimeOfIs
<1> HIDE DEF cursor
<1>4. target - cursor \in Nat
  BY <1>2, <1>3, SessionAssumption
<1>5. Size(target) \in Nat
  <2>1. AtOrAfter(target - cursor) \in Nat
    BY <1>4, AtOrAfterIs
  <2> DEFINE T == {Block, AtOrAfter(target - cursor)}
  <2>2. T \in SUBSET Nat /\ T # {}
    BY <2>1, SessionAssumption
  <2> HIDE DEF T
  <2>3. Min(T) \in Nat
    BY <2>2, MinOf
  <2> QED
    BY <2>3 DEF T
<1> HIDE DEF Size
<1>6. exporter.origin + cursor \in Nat
  BY <1>1, <1>3
<1>7. SameMix(pipe, pipe') /\ pipe'.block.start = AtOrAfter(exporter.origin + cursor)
  BY <1>2, <1>5, <1>6, AudioFacts, RenderKeeps
<1> QED
  BY <1>1, <1>2, <1>5, <1>7 DEF cursor

LEMMA ExportBlockActs == ASSUME AudioInv, ExportBlock PROVE AudioInv'
<1>1. /\ session' = session /\ output' = output /\ troubled' = troubled /\ frozen' = frozen
  BY DEF ExportBlock
<1>2. /\ SameMix(pipe, pipe') /\ exporter' \in [active : BOOLEAN, origin : Nat, frames : Nat]
      /\ exporter.active /\ exporter'.active /\ exporter'.origin = exporter.origin
  BY BlockOfExport
<1>3. IsPipeline(pipe') /\ Snapshot(pipe') = Snapshot(pipe) /\ pipe'.locked
  BY <1>2, AudioFacts DEF SameMix
<1>4. Snapshot(pipe') = frozen' /\ exporter'.origin \in Origins
  BY <1>1, <1>2, <1>3 DEF AudioInv, AudioTypes, MixIsFrozenOrShown, FrozenMix
<1> QED
  BY <1>1, <1>2, <1>3, <1>4, ExporterActs

LEMMA AudioStep == AudioInv /\ [AudioNext]_avars => AudioInv'
<1> SUFFICES ASSUME AudioInv, [AudioNext]_avars PROVE AudioInv'
  OBVIOUS
<1>1. CASE UNCHANGED avars
  <2>1. /\ session' = session /\ output' = output /\ pipe' = pipe /\ exporter' = exporter
        /\ troubled' = troubled /\ frozen' = frozen
    BY <1>1 DEF avars
  <2> QED
    BY <2>1, AudioFacts, StepKeeps
<1> QED
  BY <1>1, PublishActs, AttachActs, DetachActs, PlayActs, PauseActs, StopActs, SeekActs,
     ControlsAct, GetStatusActs, FeedActs, BeginExportActs, ExportBlockActs, EndExportActs
     DEF AudioNext

LEMMA AudioSafe == AudioSpec => []AudioInv
BY AudioBegins, AudioStep, PTL DEF AudioSpec

-----------------------------------------------------------------------------
(* The theorems. *)

\* Whatever cursor, carried packet, seek or failure the preview and the export
\* leave each other on their one decoder, the block that is rendered is the
\* source: every sample of the range that was asked for, and silence past the
\* end, for every cut of the source into packets (render_source).
THEOREM BlocksAreTheSource == AudioSpec => []RenderedIsSource
<1>1. AudioInv => RenderedIsSource
  BY DEF AudioInv, AudioTypes, IsPipeline, RenderedIsSource
<1> QED
  BY <1>1, AudioSafe, PTL

\* An export ends with the mix it froze, and the pipeline of a session has the
\* mix the session shows, whatever is attached, detached, refused or published
\* meanwhile (begin_export_revision, publish_single_source_snapshot).
THEOREM MixStaysFrozenOrShown == AudioSpec => []MixIsFrozenOrShown
<1>1. AudioInv => MixIsFrozenOrShown
  BY DEF AudioInv
<1> QED
  BY <1>1, AudioSafe, PTL

\* Until the media reports an error the output plays exactly when the session
\* says so, at its rate: pauses at the end of the timeline and controls refused
\* under an export included (materialize_playback_position_locked, the rollback
\* of set_audio_controls).
THEOREM OutputObeysSession == AudioSpec => []OutputFollowsSession
<1>1. AudioInv => OutputFollowsSession
  BY DEF AudioInv
<1> QED
  BY <1>1, AudioSafe, PTL

-----------------------------------------------------------------------------
(* Exports without a gap or an overlap. *)

\* An origin at which the cut-off time of a block does not fall back over a
\* sample: a sample begins there, or the last one began a unit of time before
\* or earlier.
OriginsFit == \A o \in Origins : (o * Rate) % Second = 0 \/ (o * Rate) % Second >= Rate

LEMMA RemainderOf ==
  ASSUME NEW n \in Nat, NEW d \in Nat \ {0}
  PROVE  n = d * (n \div d) + (n % d) /\ n % d \in Nat /\ n % d < d /\ n \div d \in Nat
BY Z3

\* Seen from its first sample, such an origin is late by a unit at most.
LEMMA FittingOrigin ==
  ASSUME OriginsFit, NEW o \in Origins
  PROVE  LET a == AtOrAfter(o)
         IN  Second * a = o * Rate \/ Second * a + Rate <= o * Rate + Second
<1> DEFINE n == o * Rate
<1> DEFINE k == n \div Second
<1> DEFINE m == n % Second
<1>1. n \in Nat /\ Second \in Nat \ {0} /\ Rate \in Nat \ {0} /\ o \in Nat
  BY SessionAssumption, AudioAssumption, ProductOf
<1>2. n = Second * k + m /\ m \in Nat /\ m < Second /\ k \in Nat
  <2> HIDE DEF n
  <2> QED
    BY <1>1, RemainderOf
<1>3. m = 0 \/ m >= Rate
  BY DEF OriginsFit
<1>4. Second * k \in Nat /\ Second * (k + 1) = Second * k + Second
  BY <1>1, <1>2, ProductOf
<1> DEFINE x == Second * k
<1>5. x \in Nat /\ n = x + m /\ Second * (k + 1) = x + Second /\ k + 1 \in Nat
  BY <1>2, <1>4
<1>6. n = o * Rate
  OBVIOUS
<1> HIDE DEF n, k, m, x
<1>7. CASE m = 0
  <2>1. o * Rate <= Second * k /\ Second * k < o * Rate + Second
    BY <1>1, <1>5, <1>6, <1>7 DEF x
  <2>2. AtOrAfter(o) = k
    BY <1>1, <1>2, <2>1, AtOrAfterOnly
  <2> QED
    BY <1>5, <1>6, <1>7, <2>2 DEF x
<1>8. CASE m # 0
  <2>1. o * Rate <= Second * (k + 1) /\ Second * (k + 1) < o * Rate + Second
    BY <1>1, <1>2, <1>5, <1>6, <1>8
  <2>2. AtOrAfter(o) = k + 1
    BY <1>1, <1>5, <2>1, AtOrAfterOnly
  <2>3. x + Second + Rate <= n + Second
    BY <1>1, <1>2, <1>3, <1>5, <1>8
  <2> QED
    BY <1>5, <1>6, <2>2, <2>3
<1> QED
  BY <1>7, <1>8

\* The times of blocks are counted from the first sample of the export.
LEMMA BlocksFollow ==
  ASSUME OriginsFit, NEW o \in Origins, NEW f \in Nat
  PROVE  AtOrAfter(o + TimeOf(f)) = AtOrAfter(o) + f
<1> DEFINE a == AtOrAfter(o)
<1> DEFINE t == TimeOf(f)
<1>1. o \in Nat /\ Second \in Nat \ {0} /\ Rate \in Nat \ {0} /\ Rate <= Second
  BY SessionAssumption, AudioAssumption
<1>2. a \in Nat /\ o * Rate <= Second * a
  BY <1>1, AtOrAfterIs
<1>3. t \in Nat /\ Rate * t <= f * Second /\ f * Second < Rate * t + Rate
  BY TimeOfIs
<1>4. Second * a = o * Rate \/ Second * a + Rate <= o * Rate + Second
  BY FittingOrigin
<1> HIDE DEF a, t
<1>5. (o + t) * Rate = o * Rate + Rate * t
  BY <1>1, <1>3
<1>6. Second * (a + f) = Second * a + f * Second
  BY <1>1, <1>2
<1> DEFINE oR == o * Rate
           aS == Second * a
           tR == Rate * t
           fS == f * Second
<1>7. oR \in Nat /\ aS \in Nat /\ tR \in Nat /\ fS \in Nat
  BY <1>1, <1>2, <1>3, ProductOf
<1>8. /\ oR <= aS /\ tR <= fS /\ fS < tR + Rate
      /\ aS = oR \/ aS + Rate <= oR + Second
  BY <1>2, <1>3, <1>4
<1>9. (o + t) * Rate = oR + tR /\ Second * (a + f) = aS + fS
  BY <1>5, <1>6
<1> HIDE DEF oR, aS, tR, fS
<1>10. oR + tR <= aS + fS /\ aS + fS < oR + tR + Second
  BY <1>1, <1>7, <1>8
<1>11. o + t \in Nat /\ a + f \in Nat
  BY <1>1, <1>2, <1>3
<1>12. (o + t) * Rate <= Second * (a + f) /\ Second * (a + f) < (o + t) * Rate + Second
  BY <1>9, <1>10
<1> HIDE DEF a, t
<1>13. AtOrAfter(o + t) = a + f
  BY <1>11, <1>12, AtOrAfterOnly
<1> QED
  BY <1>13 DEF a, t

\* The blocks of an export are the source from its first sample on, none
\* repeated and none left out, however they are cut and whatever is played in
\* between (write_audio_until), as long as no export begins between a sample
\* and the next unit of time.
THEOREM ExportsHaveNoGap == OriginsFit /\ AudioSpec => ExportIsContiguous
<1> SUFFICES ASSUME OriginsFit PROVE AudioSpec => ExportIsContiguous
  OBVIOUS
<1>1. ASSUME AudioInv, [AudioNext]_avars
      PROVE  [exporter'.frames > exporter.frames =>
                pipe'.block.start = AtOrAfter(exporter.origin) + exporter.frames]_avars
  <2>1. SUFFICES ASSUME exporter'.frames > exporter.frames
                 PROVE  pipe'.block.start = AtOrAfter(exporter.origin) + exporter.frames
    OBVIOUS
  <2>2. exporter.frames \in Nat
    BY <1>1 DEF AudioInv, AudioTypes
  <2>3. exporter' # exporter /\ exporter'.frames # 0
    BY <2>1, <2>2
  <2>4. ~ BeginExport /\ ~ EndExport
    BY <2>3 DEF BeginExport, EndExport, NoExport
  <2>5. ExportBlock
    BY <1>1, <2>3, <2>4
       DEF AudioNext, avars, PublishTimeline, Attach, Detach, Play, Pause, Stop, Seek,
           SetControls, GetStatus, Feed
  <2>6. exporter.origin \in Origins
    BY <1>1, <2>5, BlockOfExport DEF AudioInv, AudioTypes
  <2> QED
    BY <1>1, <2>2, <2>5, <2>6, BlockOfExport, BlocksFollow
<1> QED
  BY <1>1, AudioSafe, PTL DEF AudioSpec, ExportIsContiguous
=============================================================================
