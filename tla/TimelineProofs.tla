--------------------------- MODULE TimelineProofs ---------------------------
(***************************************************************************)
(* What TimelinePlayback and TimelineEditor guarantee for every value of   *)
(* their constants. First the worker: types, the plans handed out, the     *)
(* order of completions, the cache. Then the editor: projects stay valid,  *)
(* undo and redo retrace its documents, and edits show what they promise.  *)
(***************************************************************************)
EXTENDS TimelinePlayback, TimelineEditor, FiniteSetTheorems, SequenceTheorems,
        WellFoundedInduction, TLAPS

-----------------------------------------------------------------------------
LEMMA AnyIsTimestamp == AnyTimestamp \in Timestamps
  BY ConstantAssumption DEF AnyTimestamp

(* Every reachable state is well typed and at most one request is pending. *)
LEMMA TypeInit == Init => TypeOK
  <1> SUFFICES ASSUME Init PROVE TypeOK
    OBVIOUS
  <1>1. planCache = <<>> /\ cacheOrder = <<>> /\ queue = <<>>
    BY DEF Init
  <1>2. DOMAIN planCache = {}
    BY <1>1
  <1>3. draft \in [Clients -> Request] /\ request \in Request /\ plan \in Plan
    BY AnyIsTimestamp DEF Init, Blank, Request, BuildPlan, Plan
  <1>4. /\ queue \in Seq(Request) /\ Len(queue) <= 1
        /\ cacheOrder \in Seq(Key)
    BY <1>1
  <1>5. pc \in [Clients -> ClientPCs] /\ wpc \in WorkerPCs
    BY DEF Init, ClientPCs, WorkerPCs
  <1>6. published \in Nat /\ activeRevision \in Nat
    BY ConstantAssumption DEF Init
  <1> QED
    BY <1>2, <1>3, <1>4, <1>5, <1>6 DEF Init, TypeOK

(* Numbering a draft leaves a well-formed request. *)
LEMMA NumberedDraft ==
  ASSUME draft \in [Clients -> Request], NEW c \in Clients, NEW n \in Nat
  PROVE  [draft EXCEPT ![c].sequence = n] \in [Clients -> Request]
  BY DEF Request

(* A queue of at most one request that is not empty holds just that one. *)
LEMMA OneElement ==
  ASSUME NEW S, NEW q \in Seq(S), q # <<>>, Len(q) <= 1
  PROVE  Len(q) = 1 /\ Head(q) = q[1] /\ 1 \in DOMAIN q
  <1>1. Len(q) \in Nat /\ Len(q) # 0
    BY EmptySeq
  <1>2. Len(q) = 1
    BY <1>1
  <1> QED
    BY <1>2

LEMMA TypeStep == TypeOK /\ [Next]_vars => TypeOK'
  <1> SUFFICES ASSUME TypeOK, [Next]_vars PROVE TypeOK'
    OBVIOUS
  <1> USE DEF TypeOK, Request, ClientPCs
  <1>1. ASSUME NEW r \in 1..MaxRevision, Publish(r) PROVE TypeOK'
    BY <1>1, ConstantAssumption DEF Publish, clientVars, workerVars, cacheVars,
       historyVars
  <1>2. ASSUME NEW c \in Clients, NEW t \in Timestamps, BeginRequest(c, t)
        PROVE TypeOK'
    BY <1>2 DEF BeginRequest, Begin, Blank, sessionVars, workerVars, cacheVars,
       historyVars
  <1>3. ASSUME NEW c \in Clients, BeginSynchronize(c) PROVE TypeOK'
    BY <1>3, AnyIsTimestamp DEF BeginSynchronize, Begin, Blank, sessionVars, workerVars,
       cacheVars, historyVars
  <1>4. ASSUME NEW c \in Clients, BeginSeek(c) PROVE TypeOK'
    BY <1>4, AnyIsTimestamp DEF BeginSeek, Begin, Blank, sessionVars, workerVars, cacheVars,
       historyVars
  <1>5. ASSUME NEW c \in Clients, ClientStep(c) PROVE TypeOK'
    <2> USE DEF clientFrame, cacheVars, workerVars, historyVars
    <2>1. CASE ReadPublished(c)   BY <2>1 DEF ReadPublished
    <2>2. CASE Compare(c)         BY <2>2 DEF Compare
    <2>3. CASE StoreRevision(c)   BY <2>3 DEF StoreRevision
    <2>4. CASE BumpEpoch(c)       BY <2>4 DEF BumpEpoch
    <2>5. CASE BumpSequence(c)
      <3>1. latestSequence + 1 \in Nat
        OBVIOUS
      <3>2. draft' \in [Clients -> Request]
        BY <2>5, <3>1, NumberedDraft DEF BumpSequence
      <3> QED
        BY <2>5, <3>1, <3>2 DEF BumpSequence
    <2>6. CASE Clear(c)           BY <2>6 DEF Clear
    <2>7. CASE TakeSequence(c)
      <3>1. latestSequence + 1 \in Nat
        OBVIOUS
      <3>2. draft' \in [Clients -> Request]
        BY <2>7, <3>1, NumberedDraft DEF TakeSequence
      <3> QED
        BY <2>7, <3>1, <3>2 DEF TakeSequence
    <2>8. CASE LoadEpoch(c)       BY <2>8 DEF LoadEpoch
    <2>9. CASE LoadRevision(c)    BY <2>9 DEF LoadRevision
    <2>10. CASE Enqueue(c)        BY <2>10 DEF Enqueue
    <2> QED
      BY <1>5, <2>1, <2>2, <2>3, <2>4, <2>5, <2>6, <2>7, <2>8, <2>9, <2>10
      DEF ClientStep
  <1>6. CASE Start \/ Stop \/ Join \/ Pause \/ Resume
    <2> USE DEF Control, ownerFrame, sessionVars, cacheVars, clientVars,
            historyVars, WorkerPCs
    <2>1. CASE Start
      <3>1. stopping' \in BOOLEAN
        BY <2>1, Zenon DEF Start
      <3> QED
        BY <2>1, <3>1 DEF Start
    <2>2. CASE Stop
      <3>1. queue' = <<>>
        BY <2>2 DEF Stop
      <3>2. queue' \in Seq(Request) /\ Len(queue') <= 1
        BY <3>1
      <3> QED
        BY <2>2, <3>2 DEF Stop
    <2>3. CASE Join    BY <2>3 DEF Join
    <2>4. CASE Pause   BY <2>4 DEF Pause
    <2>5. CASE Resume
      <3>1. paused' \in BOOLEAN
        BY <2>5, Zenon DEF Resume
      <3> QED
        BY <2>5, <3>1 DEF Resume
    <2> QED
      BY <1>6, <2>1, <2>2, <2>3, <2>4, <2>5
  <1>7. CASE WorkerStep
    <2> USE DEF workerFrame, sessionVars, clientVars, cacheVars, historyVars,
            WorkerPCs, Tests
    <2>1. CASE Exit          BY <2>1 DEF Exit
    <2>2. CASE Dequeue
      <3>1. queue # <<>> /\ queue \in Seq(Request)
        BY <2>2 DEF Dequeue
      <3>2. Head(queue) \in Request /\ Tail(queue) \in Seq(Request)
        BY <3>1, HeadTailProperties, Zenon
      <3>3. Len(Tail(queue)) <= 1
        BY <3>1, HeadTailProperties
      <3> QED
        BY <2>2, <3>2, <3>3 DEF Dequeue
    <2>3. CASE TestEpoch \/ TestSequence \/ TestRevision
      BY <2>3 DEF TestEpoch, TestSequence, TestRevision, Test
    <2>4. CASE Acquire       BY <2>4 DEF Acquire, AcquireFrame
    <2>5. CASE Lookup        BY <2>5 DEF Lookup, KeyOf, Key
    <2>6. CASE Build
      <3>1. BuildPlan(snapshot, request.timestamp) \in Plan
        BY DEF BuildPlan, Plan
      <3>2. KeyOf(request) \in Key
        BY DEF KeyOf, Key
      <3>3. KeptKeys \subseteq DOMAIN planCache /\ KeptOrder \in Seq(Key)
        BY DEF KeptKeys, KeptOrder, Evicts
      <3> DEFINE built == BuildPlan(snapshot, request.timestamp)
      <3>4. /\ DOMAIN planCache' \subseteq Key
            /\ \A k \in DOMAIN planCache' : planCache'[k] \in Plan
            /\ cacheOrder' \in Seq(Key)
        <4>1. CASE UNCHANGED <<planCache, cacheOrder>>
          BY <4>1
        <4>2. CASE /\ planCache' = [k \in KeptKeys \cup {KeyOf(request)} |->
                                     IF k = KeyOf(request) THEN built ELSE planCache[k]]
                   /\ cacheOrder' = Append(KeptOrder, KeyOf(request))
          <5> HIDE DEF built
          <5>1. built \in Plan
            BY <3>1 DEF built
          <5> QED
            BY <4>2, <5>1, <3>2, <3>3
        <4> QED
          BY <2>6, <4>1, <4>2 DEF Build
      <3>5. plan' \in Plan
        BY <2>6, <3>1 DEF Build
      <3> QED
        BY <2>6, <3>4, <3>5 DEF Build
    <2>7. CASE Deliver       BY <2>7 DEF Deliver
    <2>8. CASE ReportError   BY <2>8 DEF ReportError
    <2> QED
      BY <1>7, <2>1, <2>2, <2>3, <2>4, <2>5, <2>6, <2>7, <2>8 DEF WorkerStep
  <1>8. CASE UNCHANGED vars
    BY <1>8 DEF vars, sessionVars, cacheVars, clientVars, workerVars, historyVars
  <1> QED
    BY <1>1, <1>2, <1>3, <1>4, <1>5, <1>6, <1>7, <1>8 DEF Next

THEOREM TypeCorrect == Spec => []TypeOK
  BY TypeInit, TypeStep, PTL DEF Spec

-----------------------------------------------------------------------------
(* Completions are in request order.  The sequence numbers in flight are    *)
(* bounded by latest_sequence_, held once each and never completed before.  *)
LEMMA CompletionInit == Init => CompletionInv
  <1> SUFFICES ASSUME Init PROVE CompletionInv
    OBVIOUS
  <1>1. completed = 0 /\ latestSequence = 0 /\ queue = <<>> /\ wpc = "none"
        /\ after = "acquire"
    BY DEF Init
  <1>2. \A c \in Clients : ~ Holding(c)
    BY DEF Init, Holding
  <1>3. ~ Undelivered
    BY <1>1 DEF Undelivered, Tests
  <1> QED
    BY <1>1, <1>2, <1>3 DEF CompletionInv, HeldSequencesBounded,
       HeldSequencesDistinct, HeldSequencesFresh, TestedIsNewest, Tests

(* Sequence numbers in flight are numbers. *)
LEMMA SequencesAreNumbers ==
  ASSUME TypeOK
  PROVE  /\ \A c \in Clients : draft[c].sequence \in Nat
         /\ \A i \in DOMAIN queue : queue[i] \in Request /\ queue[i].sequence \in Nat
         /\ request.sequence \in Nat /\ completed \in Nat /\ latestSequence \in Nat
  <1>1. \A i \in DOMAIN queue : queue[i] \in Request
    BY DEF TypeOK
  <1>2. \A c \in Clients : draft[c] \in Request
    BY DEF TypeOK
  <1>3. \A r \in Request : r.sequence \in Nat
    BY DEF Request
  <1> QED
    BY <1>1, <1>2, <1>3 DEF TypeOK

(* A client that ends a step without holding a sequence disturbs nothing:   *)
(* every call up to TakeSequence, and the clear of seek and invalidate_all. *)
LEMMA ClientWithoutSequence ==
  ASSUME TypeOK, CompletionInv, NEW c \in Clients,
         ~ Holding(c)',
         \A d \in Clients \ {c} : pc'[d] = pc[d] /\ draft'[d] = draft[d],
         latestSequence' \in Nat, latestSequence' >= latestSequence,
         queue' = queue \/ queue' = <<>>,
         UNCHANGED <<workerVars, completed>>
  PROVE  CompletionInv'
  <1> USE DEF TypeOK, CompletionInv, workerVars
  <1> USE SequencesAreNumbers
  <1>1. \A d \in Clients : Holding(d)' => d # c /\ Holding(d) /\ draft'[d] = draft[d]
    BY DEF Holding
  <1>2. \A i \in DOMAIN queue' : i \in DOMAIN queue /\ queue'[i] = queue[i]
    <2>1. CASE queue' = queue
      BY <2>1
    <2>2. CASE queue' = <<>>
      BY <2>2
    <2> QED
      BY <2>1, <2>2
  <1>3. Undelivered' = Undelivered
    BY DEF Undelivered
  <1>4. HeldSequencesBounded'
    BY <1>1, <1>2, <1>3 DEF HeldSequencesBounded
  <1>5. HeldSequencesDistinct'
    BY <1>1, <1>2, <1>3 DEF HeldSequencesDistinct
  <1>6. HeldSequencesFresh'
    BY <1>1, <1>2, <1>3 DEF HeldSequencesFresh
  <1>7. TestedIsNewest'
    BY <1>3 DEF TestedIsNewest
  <1> QED
    BY <1>4, <1>5, <1>6, <1>7

(* A client that keeps the sequence it holds disturbs nothing either:       *)
(* the loads of request() between fetch_add and push_back.                  *)
LEMMA ClientKeepsSequence ==
  ASSUME TypeOK, CompletionInv, NEW c \in Clients,
         Holding(c), draft'[c].sequence = draft[c].sequence,
         \A d \in Clients \ {c} : pc'[d] = pc[d] /\ draft'[d] = draft[d],
         UNCHANGED <<workerVars, completed, latestSequence, queue>>
  PROVE  CompletionInv'
  <1> USE DEF TypeOK, CompletionInv, workerVars
  <1>1. \A d \in Clients : Holding(d)' =>
          Holding(d) /\ draft'[d].sequence = draft[d].sequence
    BY DEF Holding
  <1>2. Undelivered' = Undelivered
    BY DEF Undelivered
  <1>3. HeldSequencesBounded'
    BY <1>1, <1>2 DEF HeldSequencesBounded
  <1>4. HeldSequencesDistinct'
    BY <1>1, <1>2 DEF HeldSequencesDistinct
  <1>5. HeldSequencesFresh'
    BY <1>1, <1>2 DEF HeldSequencesFresh
  <1>6. TestedIsNewest'
    BY <1>2 DEF TestedIsNewest
  <1> QED
    BY <1>3, <1>4, <1>5, <1>6

(* request(): the number fetch_add returns exceeds every number in flight.  *)
LEMMA TakeSequenceStep ==
  ASSUME TypeOK, CompletionInv, NEW c \in Clients, TakeSequence(c)
  PROVE  CompletionInv'
  <1> USE DEF TypeOK, CompletionInv
  <1>1. /\ draft'[c].sequence = latestSequence + 1
        /\ latestSequence' = latestSequence + 1
        /\ \A d \in Clients \ {c} : pc'[d] = pc[d] /\ draft'[d] = draft[d]
        /\ ~ Holding(c) /\ Holding(c)'
        /\ UNCHANGED <<workerVars, completed, queue>>
    BY DEF TakeSequence, Holding, clientFrame, historyVars, Request
  <1> USE SequencesAreNumbers
  <1>2. \A d \in Clients : Holding(d)' /\ d # c => Holding(d) /\ draft'[d] = draft[d]
    BY <1>1 DEF Holding
  <1>3. Undelivered' = Undelivered /\ request' = request /\ queue' = queue
    BY <1>1 DEF Undelivered, workerVars
  <1>4. Undelivered => request.sequence <= latestSequence
    BY DEF HeldSequencesBounded
  <1>5. HeldSequencesBounded'
    BY <1>1, <1>2, <1>3, <1>4 DEF HeldSequencesBounded
  <1>6. HeldSequencesDistinct'
    BY <1>1, <1>2, <1>3, <1>4, SMTT(30) DEF HeldSequencesDistinct, HeldSequencesBounded
  <1>7. HeldSequencesFresh'
    BY <1>1, <1>2, <1>3 DEF HeldSequencesFresh, HeldSequencesBounded
  <1>8. TestedIsNewest'
    BY <1>1, <1>3 DEF TestedIsNewest, workerVars
  <1> QED
    BY <1>5, <1>6, <1>7, <1>8

(* push_back hands the sequence from the client to the queue. *)
LEMMA EnqueueStep ==
  ASSUME TypeOK, CompletionInv, NEW c \in Clients, Enqueue(c)
  PROVE  CompletionInv'
  <1> USE DEF TypeOK, CompletionInv
  <1> USE SequencesAreNumbers
  <1>1. /\ queue' = <<draft[c]>> /\ draft' = draft
        /\ \A d \in Clients \ {c} : pc'[d] = pc[d]
        /\ Holding(c) /\ ~ Holding(c)'
        /\ UNCHANGED <<workerVars, completed, latestSequence>>
    BY DEF Enqueue, Holding, clientFrame, historyVars
  <1>2. \A d \in Clients : Holding(d)' => Holding(d) /\ d # c
    BY <1>1 DEF Holding
  <1>3. \A i \in DOMAIN queue' : queue'[i] = draft[c]
    BY <1>1
  <1>4. Undelivered' = Undelivered /\ request' = request
    BY <1>1 DEF Undelivered, workerVars
  <1>5. HeldSequencesBounded'
    BY <1>1, <1>2, <1>3, <1>4 DEF HeldSequencesBounded
  <1>6. HeldSequencesDistinct'
    BY <1>1, <1>2, <1>3, <1>4 DEF HeldSequencesDistinct
  <1>7. HeldSequencesFresh'
    BY <1>1, <1>2, <1>3, <1>4 DEF HeldSequencesFresh
  <1>8. TestedIsNewest'
    BY <1>1, <1>4 DEF TestedIsNewest, workerVars
  <1> QED
    BY <1>5, <1>6, <1>7, <1>8

(* The owner starts, stops, pauses and joins: the worker gains no request   *)
(* and the queue, if anything, is dropped.                                  *)
LEMMA OwnerStepKeepsOrder ==
  ASSUME TypeOK, CompletionInv, Start \/ Stop \/ Join \/ Pause \/ Resume
  PROVE  CompletionInv'
  <1> USE DEF TypeOK, CompletionInv
  <1>1. /\ UNCHANGED <<draft, pc, latestSequence, completed, request, after>>
        /\ queue' = queue \/ queue' = <<>>
        /\ wpc' = wpc \/ wpc' \in {"none", "wait"}
    BY DEF Start, Stop, Join, Pause, Resume, ownerFrame, sessionVars, clientVars,
       historyVars
  <1>2. \A i \in DOMAIN queue' : i \in DOMAIN queue /\ queue'[i] = queue[i]
    <2>1. CASE queue' = queue
      BY <2>1
    <2>2. CASE queue' = <<>>
      BY <2>2
    <2> QED
      BY <1>1, <2>1, <2>2
  <1>3. Undelivered' => Undelivered
    BY <1>1 DEF Undelivered, Tests
  <1>4. \A c \in Clients : Holding(c)' = Holding(c)
    BY <1>1 DEF Holding
  <1>5. HeldSequencesBounded'
    BY <1>1, <1>2, <1>3, <1>4 DEF HeldSequencesBounded
  <1>6. HeldSequencesDistinct'
    BY <1>1, <1>2, <1>3, <1>4 DEF HeldSequencesDistinct
  <1>7. HeldSequencesFresh'
    BY <1>1, <1>2, <1>3, <1>4 DEF HeldSequencesFresh
  <1>8. TestedIsNewest'
    BY <1>1, <1>3 DEF TestedIsNewest, Tests
  <1> QED
    BY <1>5, <1>6, <1>7, <1>8

(* The worker between pop_front and the callback keeps its request or drops *)
(* it; it reaches the revision test only with the newest sequence.          *)
LEMMA WorkerKeepsRequest ==
  ASSUME TypeOK, CompletionInv,
         UNCHANGED <<draft, pc, latestSequence, completed, request, queue>>,
         Undelivered' => Undelivered,
         TestedIsNewest'
  PROVE  CompletionInv'
  <1> USE DEF CompletionInv
  <1>1. \A c \in Clients : Holding(c)' = Holding(c)
    BY DEF Holding
  <1>2. HeldSequencesBounded'
    BY <1>1 DEF HeldSequencesBounded
  <1>3. HeldSequencesDistinct'
    BY <1>1 DEF HeldSequencesDistinct
  <1>4. HeldSequencesFresh'
    BY <1>1 DEF HeldSequencesFresh
  <1> QED
    BY <1>2, <1>3, <1>4

(* pop_front hands the sequence from the queue to the worker. *)
LEMMA DequeueStep ==
  ASSUME TypeOK, CompletionInv, Dequeue
  PROVE  CompletionInv'
  <1> USE DEF CompletionInv
  <1> USE SequencesAreNumbers
  <1>1. /\ UNCHANGED <<draft, pc, latestSequence, completed>>
        /\ request' = Head(queue) /\ queue' = Tail(queue)
        /\ wpc' = "testEpoch" /\ after' = "acquire"
    BY DEF Dequeue, workerFrame, sessionVars, clientVars, historyVars
  <1>2. Len(queue) = 1 /\ request' = queue[1] /\ 1 \in DOMAIN queue
    <2>1. queue # <<>> /\ queue \in Seq(Request) /\ Len(queue) <= 1
      BY DEF TypeOK, Dequeue
    <2> QED
      BY <1>1, <2>1, OneElement
  <1>3. DOMAIN queue' = {}
    BY <1>1, <1>2 DEF TypeOK
  <1>4. \A c \in Clients : Holding(c)' = Holding(c)
    BY <1>1 DEF Holding
  <1>5. HeldSequencesBounded'
    BY <1>1, <1>2, <1>3, <1>4 DEF HeldSequencesBounded
  <1>6. HeldSequencesDistinct'
    BY <1>1, <1>2, <1>3, <1>4 DEF HeldSequencesDistinct
  <1>7. HeldSequencesFresh'
    BY <1>1, <1>2, <1>3, <1>4 DEF HeldSequencesFresh
  <1>8. TestedIsNewest'
    BY <1>1 DEF TestedIsNewest, Undelivered, Tests
  <1> QED
    BY <1>5, <1>6, <1>7, <1>8

(* The sequence test: what equals latest_sequence_ exceeds every completed  *)
(* sequence, because that bounds them and this one is not among them.       *)
LEMMA TestsStep ==
  ASSUME TypeOK, CompletionInv, TestEpoch \/ TestSequence \/ TestRevision
  PROVE  CompletionInv'
  <1> USE SequencesAreNumbers
  <1>1. /\ UNCHANGED <<draft, pc, latestSequence, completed, request, queue, after>>
        /\ wpc \in Tests
    BY DEF TestEpoch, TestSequence, TestRevision, Test, workerFrame, sessionVars,
       clientVars, historyVars, Tests
  <1>2. wpc' \in {"testSequence", "testRevision", "wait", after}
    BY DEF TestEpoch, TestSequence, TestRevision, Test
  <1>3. Undelivered' => Undelivered
    BY <1>1, <1>2 DEF Undelivered, TypeOK
  <1>4. CASE TestEpoch
    <2>1. wpc' \in {"testSequence", "wait"}
      BY <1>4 DEF TestEpoch, Test
    <2> QED
      BY <1>1, <1>3, <2>1, WorkerKeepsRequest DEF TestedIsNewest
  <1>5. CASE TestSequence
    <2>1. \/ wpc' = "wait"
          \/ wpc' = "testRevision" /\ request.sequence = latestSequence
      BY <1>5 DEF TestSequence, Test
    <2>2. Undelivered => completed # request.sequence /\ completed <= latestSequence
      BY DEF CompletionInv, HeldSequencesFresh, HeldSequencesBounded
    <2>3. TestedIsNewest'
      BY <1>1, <1>3, <2>1, <2>2 DEF TestedIsNewest
    <2> QED
      BY <1>1, <1>3, <2>3, WorkerKeepsRequest
  <1>6. CASE TestRevision
    <2>1. wpc = "testRevision" /\ (wpc' = "wait" \/ wpc' = after)
      BY <1>6 DEF TestRevision, Test
    <2>2. TestedIsNewest'
      BY <1>1, <1>3, <2>1 DEF CompletionInv, TestedIsNewest, TypeOK
    <2> QED
      BY <1>1, <1>3, <2>2, WorkerKeepsRequest
  <1> QED
    BY <1>4, <1>5, <1>6

(* Acquire, lookup and build keep the request they tested. *)
LEMMA PlanningStep ==
  ASSUME TypeOK, CompletionInv, Acquire \/ Lookup \/ Build
  PROVE  CompletionInv'
  <1>1. /\ UNCHANGED <<draft, pc, latestSequence, completed, request, queue>>
        /\ wpc \in {"acquire", "lookup", "build"}
        /\ wpc' \in {"testEpoch", "lookup", "build"}
        /\ wpc' \in {"lookup", "build"} => after' = after
    BY DEF Acquire, AcquireFrame, Lookup, Build, workerFrame, sessionVars,
       clientVars, historyVars
  <1>2. after = "acquire"
    BY <1>1 DEF CompletionInv, TestedIsNewest
  <1>3. Undelivered' => Undelivered
    BY <1>1, <1>2 DEF Undelivered
  <1>4. TestedIsNewest'
    BY <1>1, <1>2 DEF TestedIsNewest
  <1> QED
    BY <1>1, <1>3, <1>4, WorkerKeepsRequest

(* The callback moves the sequence from the worker to the completed ones. *)
LEMMA DeliverStep ==
  ASSUME TypeOK, CompletionInv, Deliver
  PROVE  CompletionInv' /\ completed' > completed
  <1> USE DEF CompletionInv
  <1> USE SequencesAreNumbers
  <1>1. /\ UNCHANGED <<draft, pc, latestSequence, request, queue>>
        /\ completed' = request.sequence
        /\ wpc = "deliver"
        /\ \/ wpc' = "wait" /\ after' = after
           \/ wpc' = "testEpoch" /\ after' = "reportError"
    BY DEF Deliver, workerFrame, sessionVars, clientVars
  <1>2. after = "deliver" /\ Undelivered
    BY <1>1 DEF TestedIsNewest, Undelivered
  <1>3. completed < request.sequence
    BY <1>1, <1>2 DEF TestedIsNewest
  <1>4. ~ Undelivered'
    BY <1>1, <1>2 DEF Undelivered, Tests
  <1>5. \A c \in Clients : Holding(c)' = Holding(c)
    BY <1>1 DEF Holding
  <1>6. HeldSequencesBounded'
    BY <1>1, <1>2, <1>4, <1>5 DEF HeldSequencesBounded
  <1>7. HeldSequencesDistinct'
    BY <1>1, <1>4, <1>5 DEF HeldSequencesDistinct
  <1>8. HeldSequencesFresh'
    BY <1>1, <1>2, <1>4, <1>5 DEF HeldSequencesFresh, HeldSequencesDistinct
  <1>9. TestedIsNewest'
    BY <1>1 DEF TestedIsNewest
  <1> QED
    BY <1>1, <1>3, <1>6, <1>7, <1>8, <1>9

LEMMA CompletionStep == TypeOK /\ CompletionInv /\ [Next]_vars => CompletionInv'
  <1> SUFFICES ASSUME TypeOK, CompletionInv, [Next]_vars PROVE CompletionInv'
    OBVIOUS
  <1> USE SequencesAreNumbers
  <1>0. ASSUME UNCHANGED <<draft, pc, latestSequence, queue, workerVars, completed>>
        PROVE  CompletionInv'
    <2>1. UNCHANGED <<wpc, after, request>>
      BY <1>0 DEF workerVars
    <2>2. Undelivered' => Undelivered
      BY <2>1 DEF Undelivered
    <2>3. TestedIsNewest'
      BY <1>0, <2>1, <2>2 DEF TestedIsNewest, CompletionInv
    <2> QED
      BY <1>0, <2>1, <2>2, <2>3, WorkerKeepsRequest
  <1>1. ASSUME NEW r \in 1..MaxRevision, Publish(r) PROVE CompletionInv'
    BY <1>0, <1>1 DEF Publish, clientVars, historyVars
  <1>2. ASSUME NEW c \in Clients, NEW what, NEW first, NEW t,
               Begin(c, what, first, t), first \in {"readPublished", "bumpEpoch"}
        PROVE  CompletionInv'
    <2>1. pc'[c] = first /\ latestSequence' = latestSequence
      BY <1>2 DEF Begin, sessionVars, TypeOK
    <2>2. ~ Holding(c)'
      BY <1>2, <2>1 DEF Holding
    <2>3. \A d \in Clients \ {c} : pc'[d] = pc[d] /\ draft'[d] = draft[d]
      BY <1>2 DEF Begin, TypeOK
    <2>4. UNCHANGED <<workerVars, completed, queue>>
      BY <1>2 DEF Begin, historyVars
    <2> QED
      BY <2>1, <2>2, <2>3, <2>4, ClientWithoutSequence
  <1>3. ASSUME NEW c \in Clients, ClientStep(c) PROVE CompletionInv'
    <2> USE DEF clientFrame, historyVars
    <2>1. CASE \/ ReadPublished(c) \/ Compare(c) \/ StoreRevision(c)
               \/ BumpEpoch(c) \/ BumpSequence(c) \/ Clear(c)
      <3>1. ~ Holding(c)'
        BY <2>1 DEF ReadPublished, Compare, StoreRevision, BumpEpoch, BumpSequence,
           Clear, Holding, TypeOK
      <3>2. \A d \in Clients \ {c} : pc'[d] = pc[d] /\ draft'[d] = draft[d]
        BY <2>1 DEF ReadPublished, Compare, StoreRevision, BumpEpoch, BumpSequence,
           Clear, TypeOK
      <3>3. latestSequence' = latestSequence \/ latestSequence' = latestSequence + 1
        BY <2>1 DEF ReadPublished, Compare, StoreRevision, BumpEpoch, BumpSequence,
           Clear
      <3>4. queue' = queue \/ queue' = <<>>
        BY <2>1 DEF ReadPublished, Compare, StoreRevision, BumpEpoch, BumpSequence,
           Clear
      <3>5. UNCHANGED <<workerVars, completed>>
        BY <2>1 DEF ReadPublished, Compare, StoreRevision, BumpEpoch, BumpSequence,
           Clear
      <3>6. latestSequence' \in Nat /\ latestSequence' >= latestSequence
        BY <3>3
      <3> QED
        BY <3>1, <3>2, <3>4, <3>5, <3>6, ClientWithoutSequence
    <2>2. CASE LoadEpoch(c) \/ LoadRevision(c)
      <3>1. Holding(c)
        BY <2>2 DEF LoadEpoch, LoadRevision, Holding
      <3>3. \A d \in Clients \ {c} : pc'[d] = pc[d] /\ draft'[d] = draft[d]
        BY <2>2 DEF LoadEpoch, LoadRevision, TypeOK
      <3>4. draft'[c].sequence = draft[c].sequence
        <4>1. draft \in [Clients -> Request]
          BY DEF TypeOK
        <4>2. \/ draft' = [draft EXCEPT ![c].epoch = epoch]
              \/ draft' = [draft EXCEPT ![c].revision = activeRevision]
          BY <2>2 DEF LoadEpoch, LoadRevision
        <4> QED
          BY <4>1, <4>2 DEF Request
      <3>2. UNCHANGED <<workerVars, completed, latestSequence, queue>>
        BY <2>2 DEF LoadEpoch, LoadRevision
      <3> QED
        BY <3>1, <3>2, <3>3, <3>4, ClientKeepsSequence
    <2>3. CASE TakeSequence(c)
      BY <2>3, TakeSequenceStep
    <2>4. CASE Enqueue(c)
      BY <2>4, EnqueueStep
    <2> QED
      BY <1>3, <2>1, <2>2, <2>3, <2>4 DEF ClientStep
  <1>4. CASE Start \/ Stop \/ Join \/ Pause \/ Resume
    BY <1>4, OwnerStepKeepsOrder
  <1>5. CASE WorkerStep
    <2>1. CASE Exit \/ ReportError
      <3>1. /\ UNCHANGED <<draft, pc, latestSequence, completed, request, queue, after>>
            /\ wpc' \in {"exited", "wait"}
        BY <2>1 DEF Exit, ReportError, workerFrame, sessionVars, clientVars,
           historyVars
      <3>2. ~ Undelivered' /\ TestedIsNewest'
        BY <3>1 DEF Undelivered, TestedIsNewest, Tests
      <3> QED
        BY <3>1, <3>2, WorkerKeepsRequest
    <2> QED
      BY <1>5, <2>1, DequeueStep, TestsStep, PlanningStep, DeliverStep DEF WorkerStep
  <1>6. CASE UNCHANGED vars
    BY <1>0, <1>6 DEF vars, sessionVars, clientVars, historyVars
  <1> QED
    BY <1>1, <1>2, <1>3, <1>4, <1>5, <1>6
    DEF Next, BeginRequest, BeginSynchronize, BeginSeek

LEMMA CompletionAlways == Spec => []CompletionInv
  BY TypeInit, TypeStep, CompletionInit, CompletionStep, PTL DEF Spec

(* Completions follow the order of the requests, each at most once, however *)
(* many clients race: the completion callback of run() never sees an older  *)
(* or a repeated sequence.                                                  *)
THEOREM CompletionsInOrder == Spec => CompletionsAdvance
  <1>1. TypeOK /\ CompletionInv /\ [Next]_vars
          => [wpc = "deliver" /\ wpc' # wpc => completed' > completed]_vars
    <2> SUFFICES ASSUME TypeOK, CompletionInv, [Next]_vars,
                        wpc = "deliver", wpc' # wpc
                 PROVE  completed' > completed
      OBVIOUS
    <2>1. ~ \E r \in 1..MaxRevision : Publish(r)
      BY DEF Publish, workerVars
    <2>2. \A c \in Clients : ~ ClientStep(c)
      BY DEF ClientStep, ReadPublished, Compare, StoreRevision, BumpEpoch,
         BumpSequence, Clear, TakeSequence, LoadEpoch, LoadRevision, Enqueue,
         clientFrame, workerVars
    <2>3. \A c \in Clients, t \in Timestamps :
            ~ BeginRequest(c, t) /\ ~ BeginSynchronize(c) /\ ~ BeginSeek(c)
      BY DEF BeginRequest, BeginSynchronize, BeginSeek, Begin, workerVars
    <2>4. \A c \in Clients : ~ BeginSynchronize(c) /\ ~ BeginSeek(c)
      BY DEF BeginSynchronize, BeginSeek, Begin, workerVars
    <2>5. ~ (Start \/ Stop \/ Join \/ Pause \/ Resume)
      BY DEF Start, Stop, Join, Pause, Resume, ownerFrame, workerVars
    <2>6. wpc' = wpc \/ WorkerStep
      BY <2>1, <2>2, <2>3, <2>4, <2>5 DEF Next, vars, workerVars
    <2>7. Deliver
      BY <2>6 DEF WorkerStep, Exit, Dequeue, TestEpoch, TestSequence, TestRevision,
         Test, Acquire, Lookup, Build, ReportError
    <2> QED
      BY <2>7, DeliverStep
  <1> QED
    BY <1>1, TypeCorrect, CompletionAlways, PTL DEF Spec, CompletionsAdvance

-----------------------------------------------------------------------------
(* The worker implements LatestRequest: its steps draw, claim, complete or *)
(* abandon a number, or stutter.                                           *)
LEMMA PromiseInit == Init => Promise!Init
  BY DEF Init, Claimed, Promise!Init

(* Everybody but the worker leaves what it claims alone.                   *)
LEMMA OthersStep ==
  ASSUME TypeOK, [Next]_vars, ~ WorkerStep
  PROVE  /\ completed' = completed /\ Claimed' = Claimed
         /\ latestSequence' \in {latestSequence, latestSequence + 1}
  <1> USE DEF Claimed, workerVars, historyVars, sessionVars
  <1>1. ASSUME NEW c \in Clients, ClientStep(c)
        PROVE  /\ completed' = completed /\ Claimed' = Claimed
               /\ latestSequence' \in {latestSequence, latestSequence + 1}
    BY <1>1 DEF ClientStep, ReadPublished, Compare, StoreRevision, BumpEpoch, BumpSequence,
       Clear, TakeSequence, LoadEpoch, LoadRevision, Enqueue, clientFrame
  <1>2. ASSUME NEW c \in Clients, NEW what, NEW first, NEW t, Begin(c, what, first, t)
        PROVE  /\ completed' = completed /\ Claimed' = Claimed
               /\ latestSequence' \in {latestSequence, latestSequence + 1}
    BY <1>2 DEF Begin
  <1>3. CASE Start \/ Stop \/ Join \/ Pause \/ Resume
    BY <1>3 DEF Start, Stop, Join, Pause, Resume, ownerFrame, TypeOK
  <1>4. CASE (\E r \in 1..MaxRevision : Publish(r)) \/ UNCHANGED vars
    BY <1>4 DEF Publish, vars
  <1> QED
    BY <1>1, <1>2, <1>3, <1>4 DEF Next, BeginRequest, BeginSynchronize, BeginSeek

LEMMA PromiseStep ==
  ASSUME TypeOK, CompletionInv, [Next]_vars
  PROVE  [Promise!Next]_Promise!vars
  <1> USE SequencesAreNumbers DEF Promise!Next, Promise!vars
  <1>1. CASE ~ WorkerStep
    BY <1>1, OthersStep DEF Promise!Draw
  <1>2. CASE TestSequence
    <2>1. /\ UNCHANGED <<latestSequence, completed, request, after>> /\ wpc = "testSequence"
          /\ \/ wpc' = "wait"
             \/ wpc' = "testRevision" /\ request.sequence = latestSequence
      BY <1>2 DEF TestSequence, Test, workerFrame, sessionVars, historyVars
    <2>2. Claimed = 0
      BY <2>1 DEF Claimed
    <2>3. CASE Claimed' = 0
      BY <2>1, <2>2, <2>3
    <2>4. CASE Claimed' # 0
      <3>1. wpc' = "testRevision" /\ after = "deliver" /\ Claimed' = latestSequence
        BY <2>1, <2>4 DEF Claimed
      <3>2. Undelivered
        BY <2>1, <3>1 DEF Undelivered, Tests
      <3>3. completed # request.sequence /\ completed <= latestSequence
        BY <3>2 DEF CompletionInv, HeldSequencesFresh, HeldSequencesBounded
      <3>4. Promise!Claim
        BY <2>1, <2>2, <3>1, <3>3 DEF Promise!Claim
      <3> QED
        BY <3>4
    <2> QED
      BY <2>3, <2>4
  <1>3. CASE TestRevision
    <2>1. /\ UNCHANGED <<latestSequence, completed, request, after>> /\ wpc = "testRevision"
          /\ wpc' = "wait" \/ wpc' = after
      BY <1>3 DEF TestRevision, Test, workerFrame, sessionVars, historyVars
    <2>2. CASE Claimed' = Claimed
      BY <2>1, <2>2
    <2>3. CASE Claimed' # Claimed
      <3>1. after = "deliver" /\ Claimed = request.sequence /\ Claimed' = 0
        BY <2>1, <2>3 DEF Claimed, TypeOK
      <3> QED
        BY <2>1, <2>3, <3>1 DEF Promise!Abandon
    <2> QED
      BY <2>2, <2>3
  <1>4. CASE Deliver
    <2>1. /\ wpc = "deliver" /\ wpc' \in {"wait", "testEpoch"}
          /\ completed' = request.sequence /\ latestSequence' = latestSequence
      BY <1>4 DEF Deliver, workerFrame, sessionVars
    <2>2. after = "deliver"
      BY <2>1 DEF CompletionInv, TestedIsNewest
    <2>3. Claimed = request.sequence /\ Claimed' = 0
      BY <2>1, <2>2 DEF Claimed
    <2>4. completed < request.sequence
      BY <2>1, <2>2 DEF CompletionInv, TestedIsNewest, Undelivered
    <2> QED
      BY <2>1, <2>3, <2>4 DEF Promise!Complete
  <1>5. CASE Exit \/ Dequeue \/ TestEpoch \/ Acquire \/ Lookup \/ Build \/ ReportError
    <2>1. /\ UNCHANGED <<latestSequence, completed>>
          /\ wpc \notin {"testRevision", "deliver"} /\ wpc' \notin {"testRevision", "deliver"}
      BY <1>5 DEF Exit, Dequeue, TestEpoch, Test, Acquire, AcquireFrame, Lookup, Build,
         ReportError, workerFrame, sessionVars, historyVars
    <2> QED
      BY <2>1 DEF Claimed
  <1> QED
    BY <1>1, <1>2, <1>3, <1>4, <1>5 DEF WorkerStep

(* Latest request wins, as an abstract specification: every completion of   *)
(* run() goes to a request that was the newest when current() last looked.  *)
THEOREM WorkerImplementsLatestRequest == Spec => ImplementsLatestRequest
  <1>1. TypeOK /\ CompletionInv /\ [Next]_vars => [Promise!Next]_Promise!vars
    BY PromiseStep
  <1> QED
    BY <1>1, PromiseInit, TypeCorrect, CompletionAlways, PTL
    DEF Spec, ImplementsLatestRequest, Promise!Spec

-----------------------------------------------------------------------------
(* The plan handed out is the one its request asked for, and a cached plan  *)
(* is the one its key names: the facts behind "cached plans never cross     *)
(* revision boundaries".                                                    *)
PlanInv == TypeOK /\ CompletionInv /\ SnapshotMatches /\ CachedPlansMatch

LEMMA PlanInit == Init => SnapshotMatches /\ CachedPlansMatch
  BY DEF Init, SnapshotMatches, CachedPlansMatch, Tests

LEMMA PlanStep == PlanInv /\ [Next]_vars => SnapshotMatches' /\ CachedPlansMatch'
  <1> SUFFICES ASSUME PlanInv, [Next]_vars
               PROVE  SnapshotMatches' /\ CachedPlansMatch'
    OBVIOUS
  <1> USE DEF PlanInv
  <1>1. ASSUME UNCHANGED workerVars,
               \/ UNCHANGED planCache
               \/ planCache' = <<>>
        PROVE  SnapshotMatches' /\ CachedPlansMatch'
    BY <1>1 DEF workerVars, SnapshotMatches, CachedPlansMatch
  <1>2. ASSUME NEW r \in 1..MaxRevision, Publish(r)
        PROVE  SnapshotMatches' /\ CachedPlansMatch'
    BY <1>1, <1>2 DEF Publish, cacheVars
  <1>3. ASSUME NEW c \in Clients, NEW what, NEW first, NEW t, Begin(c, what, first, t)
        PROVE  SnapshotMatches' /\ CachedPlansMatch'
    BY <1>1, <1>3 DEF Begin, cacheVars
  <1>4. ASSUME NEW c \in Clients, ClientStep(c)
        PROVE  SnapshotMatches' /\ CachedPlansMatch'
    <2>1. /\ UNCHANGED workerVars
          /\ \/ UNCHANGED planCache
             \/ planCache' = <<>>
      BY <1>4 DEF ClientStep, ReadPublished, Compare, StoreRevision, BumpEpoch,
         BumpSequence, Clear, TakeSequence, LoadEpoch, LoadRevision, Enqueue,
         clientFrame, cacheVars
    <2> QED
      BY <1>1, <2>1
  <1>5. CASE Start \/ Stop \/ Join \/ Pause \/ Resume
    <2>1. /\ UNCHANGED <<planCache, after, request, snapshot, plan>>
          /\ wpc' = wpc \/ wpc' \in {"none", "wait"}
      BY <1>5 DEF Start, Stop, Join, Pause, Resume, ownerFrame, cacheVars
    <2> QED
      BY <2>1 DEF SnapshotMatches, CachedPlansMatch, Tests
  <1>6. CASE WorkerStep
    <2> USE DEF workerFrame, cacheVars
    <2>1. CASE Exit \/ Dequeue \/ ReportError
      <3>1. /\ UNCHANGED planCache
            /\ \/ wpc' \in {"exited", "wait"}
               \/ wpc' = "testEpoch" /\ after' = "acquire"
        BY <2>1 DEF Exit, Dequeue, ReportError
      <3> QED
        BY <3>1 DEF SnapshotMatches, CachedPlansMatch, Tests
    <2>2. CASE TestEpoch \/ TestSequence \/ TestRevision
      <3>1. /\ UNCHANGED <<planCache, after, request, snapshot, plan>>
            /\ wpc \in Tests
            /\ wpc' \in {"testSequence", "testRevision", "wait", after}
        BY <2>2 DEF TestEpoch, TestSequence, TestRevision, Test, Tests
      <3>2. TestedIsNewest'
        BY CompletionStep DEF CompletionInv
      <3> QED
        BY <3>1, <3>2 DEF SnapshotMatches, CachedPlansMatch, Tests, TestedIsNewest,
           TypeOK
    <2>3. CASE Acquire
      BY <2>3 DEF Acquire, AcquireFrame, SnapshotMatches, CachedPlansMatch, Tests
    <2>4. CASE Lookup
      <3>1. CASE KeyOf(request) \in DOMAIN planCache
        <4>1. planCache[KeyOf(request)] = BuildPlan(request.revision, request.timestamp)
          BY <3>1 DEF CachedPlansMatch, KeyOf
        <4> QED
          BY <2>4, <3>1, <4>1 DEF Lookup, SnapshotMatches, CachedPlansMatch, Tests
      <3>2. CASE KeyOf(request) \notin DOMAIN planCache
        BY <2>4, <3>2 DEF Lookup, SnapshotMatches, CachedPlansMatch, Tests
      <3> QED
        BY <3>1, <3>2
    <2>5. CASE Build
      <3> DEFINE built == BuildPlan(snapshot, request.timestamp)
      <3>1. /\ built = BuildPlan(request.revision, request.timestamp)
            /\ plan' = built /\ request' = request
            /\ wpc' = "testEpoch" /\ after' = "deliver"
        BY <2>5 DEF Build, SnapshotMatches
      <3>2. SnapshotMatches'
        BY <3>1 DEF SnapshotMatches, Tests
      <3>3. \/ UNCHANGED planCache
            \/ planCache' = [k \in KeptKeys \cup {KeyOf(request)} |->
                               IF k = KeyOf(request) THEN built ELSE planCache[k]]
        BY <2>5 DEF Build
      <3> HIDE DEF built
      <3>4. KeptKeys \subseteq DOMAIN planCache
        BY DEF KeptKeys
      <3>5. built = BuildPlan(KeyOf(request).revision, KeyOf(request).timestamp)
        BY <3>1 DEF KeyOf
      <3>6. CachedPlansMatch'
        BY <3>3, <3>4, <3>5 DEF CachedPlansMatch
      <3> QED
        BY <3>2, <3>6
    <2>6. CASE Deliver
      BY <2>6 DEF Deliver, SnapshotMatches, CachedPlansMatch, Tests
    <2> QED
      BY <1>6, <2>1, <2>2, <2>3, <2>4, <2>5, <2>6 DEF WorkerStep
  <1>7. CASE UNCHANGED vars
    BY <1>1, <1>7 DEF vars, cacheVars
  <1> QED
    BY <1>2, <1>3, <1>4, <1>5, <1>6, <1>7
    DEF Next, BeginRequest, BeginSynchronize, BeginSeek

(* run() hands out the plan built for the revision and timestamp of the     *)
(* request it answers, cached or not.                                       *)
THEOREM PlansMatchRequests == Spec => []DeliveredPlanMatches
  <1>1. SnapshotMatches => DeliveredPlanMatches
    BY DEF SnapshotMatches, DeliveredPlanMatches
  <1> QED
    BY <1>1, TypeCorrect, CompletionAlways, PlanInit, PlanStep, PTL DEF Spec, PlanInv

(* Whatever plan_cache_ holds under a key is what the key's revision builds.*)
THEOREM CacheMatchesRevisions == Spec => []CachedPlansMatch
  BY TypeCorrect, CompletionAlways, PlanInit, PlanStep, PTL DEF Spec, PlanInv

-----------------------------------------------------------------------------
(* The cache and the order of its keys: sequences without repetition.      *)
Listed(s)   == {s[i] : i \in DOMAIN s}
Once(s) == \A i, j \in DOMAIN s : s[i] = s[j] => i = j

LEMMA ListedCount ==
  ASSUME NEW S, NEW s \in Seq(S), Once(s)
  PROVE  Cardinality(Listed(s)) = Len(s)
  <1>1. Len(s) \in Nat /\ DOMAIN s = 1..Len(s)
    OBVIOUS
  <1>2. s \in Bijection(1..Len(s), Listed(s))
    <2>1. s \in [1..Len(s) -> Listed(s)]
      BY <1>1 DEF Listed
    <2>2. \A x, y \in 1..Len(s) : s[x] = s[y] => x = y
      BY <1>1 DEF Once
    <2>3. \A e \in Listed(s) : \E x \in 1..Len(s) : s[x] = e
      BY <1>1 DEF Listed
    <2> QED
      BY <2>1, <2>2, <2>3 DEF Bijection, Injection, Surjection, IsInjective
  <1>3. ExistsBijection(1..Len(s), Listed(s))
    BY <1>2 DEF ExistsBijection
  <1> QED
    BY <1>1, <1>3, FS_CountingElements

LEMMA TailListed ==
  ASSUME NEW S, NEW s \in Seq(S), s # <<>>, Once(s)
  PROVE  /\ Listed(Tail(s)) = Listed(s) \ {Head(s)} /\ Head(s) \in Listed(s)
         /\ Once(Tail(s)) /\ Tail(s) \in Seq(S) /\ Len(Tail(s)) = Len(s) - 1
  <1>1. /\ Head(s) = s[1] /\ Tail(s) \in Seq(S) /\ Len(Tail(s)) = Len(s) - 1
        /\ \A i \in 1..Len(Tail(s)) : Tail(s)[i] = s[i + 1]
    BY HeadTailProperties
  <1>2. Len(s) \in Nat \ {0} /\ DOMAIN s = 1..Len(s) /\ DOMAIN Tail(s) = 1..Len(s) - 1
    BY <1>1, EmptySeq
  <1>3. Once(Tail(s))
    BY <1>1, <1>2 DEF Once
  <1>4. ASSUME NEW e PROVE e \in Listed(Tail(s)) <=> e \in Listed(s) \ {Head(s)}
    <2>1. ASSUME e \in Listed(Tail(s)) PROVE e \in Listed(s) \ {Head(s)}
      <3>1. PICK i \in 1..Len(s) - 1 : e = s[i + 1]
        BY <1>1, <1>2, <2>1 DEF Listed
      <3>2. i + 1 \in DOMAIN s /\ 1 \in DOMAIN s /\ i + 1 # 1
        BY <1>2
      <3>3. e # s[1]
        BY <3>1, <3>2 DEF Once
      <3> QED
        BY <1>1, <3>1, <3>2, <3>3 DEF Listed
    <2>2. ASSUME e \in Listed(s) \ {Head(s)} PROVE e \in Listed(Tail(s))
      <3>1. PICK j \in 1..Len(s) : e = s[j]
        BY <1>2, <2>2 DEF Listed
      <3>2. j # 1
        BY <1>1, <2>2, <3>1
      <3>3. j - 1 \in 1..Len(s) - 1 /\ (j - 1) + 1 = j
        BY <1>2, <3>2
      <3>4. Tail(s)[j - 1] = e
        BY <1>1, <3>1, <3>3
      <3> QED
        BY <1>2, <3>3, <3>4 DEF Listed
    <2> QED
      BY <2>1, <2>2
  <1>5. Head(s) \in Listed(s)
    BY <1>1, <1>2 DEF Listed
  <1> QED
    BY <1>1, <1>3, <1>4, <1>5

LEMMA AppendListed ==
  ASSUME NEW S, NEW s \in Seq(S), Once(s), NEW e \in S, e \notin Listed(s)
  PROVE  /\ Listed(Append(s, e)) = Listed(s) \cup {e}
         /\ Once(Append(s, e)) /\ Len(Append(s, e)) = Len(s) + 1
  <1> DEFINE t == Append(s, e)
  <1>1. /\ t \in Seq(S) /\ Len(t) = Len(s) + 1
        /\ \A i \in 1..Len(s) : t[i] = s[i]
        /\ t[Len(s) + 1] = e
    BY AppendProperties
  <1> HIDE DEF t
  <1>2. Len(s) \in Nat /\ DOMAIN s = 1..Len(s) /\ DOMAIN t = 1..Len(s) + 1
    BY <1>1
  <1>3. \A i \in DOMAIN s : s[i] # e
    BY DEF Listed
  <1>4. Once(t)
    BY <1>1, <1>2, <1>3 DEF Once
  <1>5. ASSUME NEW x PROVE x \in Listed(t) <=> x \in Listed(s) \cup {e}
    <2>1. ASSUME x \in Listed(t) PROVE x \in Listed(s) \cup {e}
      BY <1>1, <1>2, <2>1 DEF Listed
    <2>2. ASSUME x \in Listed(s) PROVE x \in Listed(t)
      BY <1>1, <1>2, <2>2 DEF Listed
    <2>3. e \in Listed(t)
      BY <1>1, <1>2 DEF Listed
    <2> QED
      BY <2>1, <2>2, <2>3
  <1> QED
    BY <1>1, <1>4, <1>5 DEF t

(* A worker that builds a plan missed it, and nobody else inserts: what it *)
(* adds to the order is not in it yet.                                     *)
MissedPlan == wpc = "build" => KeyOf(request) \notin DOMAIN planCache
CacheInv   == TypeOK /\ CacheCoherent /\ MissedPlan

LEMMA BuildCoherent ==
  ASSUME CacheInv, Build
  PROVE  CacheCoherent'
  <1> DEFINE key   == KeyOf(request)
             built == BuildPlan(snapshot, request.timestamp)
  <1>1. CASE UNCHANGED cacheVars
    BY <1>1 DEF cacheVars, CacheInv, CacheCoherent
  <1>2. CASE /\ CacheCapacity > 0
             /\ planCache' = [k \in KeptKeys \cup {key} |->
                                IF k = key THEN built ELSE planCache[k]]
             /\ cacheOrder' = Append(KeptOrder, key)
    <2>1. key \in Key /\ key \notin DOMAIN planCache
      BY DEF Build, CacheInv, MissedPlan, TypeOK, KeyOf, Key, Request
    <2> HIDE DEF key, built
    <2>2. /\ cacheOrder \in Seq(Key) /\ Listed(cacheOrder) = DOMAIN planCache
          /\ Once(cacheOrder) /\ Len(cacheOrder) <= CacheCapacity /\ Len(cacheOrder) \in Nat
      BY DEF CacheInv, TypeOK, CacheCoherent, Listed, Once
    <2>3. Cardinality(DOMAIN planCache) = Len(cacheOrder)
      BY <2>2, ListedCount
    <2>4. /\ KeptOrder \in Seq(Key) /\ Listed(KeptOrder) = KeptKeys /\ Once(KeptOrder)
          /\ Len(KeptOrder) < CacheCapacity /\ Len(KeptOrder) \in Nat
      <3>1. CASE Evicts
        <4>1. cacheOrder # <<>>
          BY <3>1 DEF Evicts
        <4>2. /\ Listed(Tail(cacheOrder)) = Listed(cacheOrder) \ {Head(cacheOrder)}
              /\ Once(Tail(cacheOrder)) /\ Tail(cacheOrder) \in Seq(Key)
              /\ Len(Tail(cacheOrder)) = Len(cacheOrder) - 1
          BY <2>2, <4>1, TailListed
        <4>3. Len(Tail(cacheOrder)) \in Nat
          BY <4>2
        <4> QED
          BY <2>2, <3>1, <4>2, <4>3, ConstantAssumption DEF KeptKeys, KeptOrder
      <3>2. CASE ~ Evicts
        <4>1. KeptKeys = DOMAIN planCache /\ KeptOrder = cacheOrder
          BY <3>2 DEF KeptKeys, KeptOrder
        <4>2. Len(cacheOrder) < CacheCapacity
          BY <1>2, <2>2, <2>3, <3>2, ConstantAssumption DEF Evicts
        <4> QED
          BY <2>2, <4>1, <4>2
      <3> QED
        BY <3>1, <3>2
    <2>5. key \notin Listed(KeptOrder)
      BY <2>1, <2>4 DEF KeptKeys
    <2>6. /\ Listed(Append(KeptOrder, key)) = Listed(KeptOrder) \cup {key}
          /\ Once(Append(KeptOrder, key)) /\ Len(Append(KeptOrder, key)) = Len(KeptOrder) + 1
      BY <2>1, <2>4, <2>5, AppendListed
    <2>7. Listed(cacheOrder') = DOMAIN planCache'
      BY <1>2, <2>4, <2>6
    <2>8. Once(cacheOrder') /\ Len(cacheOrder') <= CacheCapacity
      BY <1>2, <2>4, <2>6, ConstantAssumption
    <2> QED
      BY <2>7, <2>8 DEF CacheCoherent, Listed, Once
  <1> QED
    BY <1>1, <1>2 DEF Build

LEMMA CacheStep == CacheInv /\ [Next]_vars => CacheCoherent' /\ MissedPlan'
  <1> SUFFICES ASSUME CacheInv, [Next]_vars PROVE CacheCoherent' /\ MissedPlan'
    OBVIOUS
  <1> USE DEF CacheInv
  <1>1. ASSUME UNCHANGED cacheVars \/ (planCache' = <<>> /\ cacheOrder' = <<>>)
        PROVE  CacheCoherent'
    <2>1. CASE UNCHANGED cacheVars
      BY <2>1 DEF cacheVars, CacheCoherent
    <2>2. CASE planCache' = <<>> /\ cacheOrder' = <<>>
      BY <2>2, ConstantAssumption DEF CacheCoherent
    <2> QED
      BY <1>1, <2>1, <2>2
  <1>2. ASSUME UNCHANGED cacheVars \/ (planCache' = <<>> /\ cacheOrder' = <<>>),
               wpc' = "build" => wpc = "build" /\ request' = request
        PROVE  MissedPlan'
    BY <1>2 DEF MissedPlan, cacheVars, KeyOf
  <1>3. ASSUME NEW r \in 1..MaxRevision, Publish(r)
        PROVE  CacheCoherent' /\ MissedPlan'
    BY <1>1, <1>2, <1>3 DEF Publish, workerVars
  <1>4. ASSUME NEW c \in Clients, NEW what, NEW first, NEW t, Begin(c, what, first, t)
        PROVE  CacheCoherent' /\ MissedPlan'
    BY <1>1, <1>2, <1>4 DEF Begin, workerVars
  <1>5. ASSUME NEW c \in Clients, ClientStep(c)
        PROVE  CacheCoherent' /\ MissedPlan'
    <2>1. UNCHANGED workerVars
      BY <1>5 DEF ClientStep, ReadPublished, Compare, StoreRevision, BumpEpoch,
         BumpSequence, Clear, TakeSequence, LoadEpoch, LoadRevision, Enqueue, clientFrame
    <2>2. UNCHANGED cacheVars \/ (planCache' = <<>> /\ cacheOrder' = <<>>)
      BY <1>5 DEF ClientStep, ReadPublished, Compare, StoreRevision, BumpEpoch,
         BumpSequence, Clear, TakeSequence, LoadEpoch, LoadRevision, Enqueue
    <2> QED
      BY <1>1, <1>2, <2>1, <2>2 DEF workerVars
  <1>6. CASE Start \/ Stop \/ Join \/ Pause \/ Resume
    <2>1. UNCHANGED <<cacheVars, request>> /\ (wpc' = "build" => wpc = "build")
      BY <1>6 DEF Start, Stop, Join, Pause, Resume, ownerFrame
    <2> QED
      BY <1>1, <1>2, <2>1
  <1>7. CASE WorkerStep
    <2>1. CASE Build
      BY <2>1, BuildCoherent DEF Build, MissedPlan
    <2>2. CASE Lookup
      BY <1>1, <2>2 DEF Lookup, MissedPlan, cacheVars, KeyOf
    <2>3. CASE \/ Exit \/ Dequeue \/ TestEpoch \/ TestSequence \/ TestRevision
               \/ Acquire \/ Deliver \/ ReportError
      <3>1. UNCHANGED cacheVars /\ wpc' # "build"
        BY <2>3 DEF Exit, Dequeue, TestEpoch, TestSequence, TestRevision, Test, Acquire,
           AcquireFrame, Deliver, ReportError, TypeOK
      <3> QED
        BY <1>1, <1>2, <3>1
    <2> QED
      BY <1>7, <2>1, <2>2, <2>3 DEF WorkerStep
  <1>8. CASE UNCHANGED vars
    BY <1>1, <1>2, <1>8 DEF vars, workerVars
  <1> QED
    BY <1>3, <1>4, <1>5, <1>6, <1>7, <1>8
    DEF Next, BeginRequest, BeginSynchronize, BeginSeek

(* plan_cache_ and cache_order_ are two views of one set within the         *)
(* capacity, whatever clears the cache between a miss and its insertion.    *)
THEOREM CacheStaysCoherent == Spec => []CacheCoherent
  <1>1. Init => CacheCoherent /\ MissedPlan
    BY ConstantAssumption DEF Init, CacheCoherent, MissedPlan
  <1> QED
    BY <1>1, TypeCorrect, CacheStep, PTL DEF Spec, CacheInv

-----------------------------------------------------------------------------
LEMMA LeastNumber ==
  ASSUME NEW S \in SUBSET Nat, S # {}
  PROVE  \E m \in S : \A k \in S : m <= k
<1>1. PICK m \in S : \A k \in S : <<k, m>> \notin OpToRel(<, Nat)
  BY WFMin, NatLessThanWellFounded, Zenon
<1>2. \A k \in S : k \in Nat /\ m \in Nat /\ ~ (k < m)
  BY <1>1, Zenon DEF OpToRel
<1>3. \A k \in S : m <= k
  BY <1>2
<1> QED
  BY <1>3

-----------------------------------------------------------------------------
(* Sequences without repetitions next to each other. *)

\* What Distinct computes, entry by entry.
Kept(g, s) ==
  g = [n \in 0..Len(s) |-> IF n = 0 THEN <<>>
                           ELSE IF n > 1 /\ s[n] = s[n - 1] THEN g[n - 1]
                           ELSE Append(g[n - 1], s[n])]

LEMMA KeptExists == ASSUME NEW S, NEW s \in Seq(S) PROVE \E g : Kept(g, s)
<1> DEFINE Upto(g, m) == g = [n \in 0..m |-> IF n = 0 THEN <<>>
                                ELSE IF n > 1 /\ s[n] = s[n - 1] THEN g[n - 1]
                                ELSE Append(g[n - 1], s[n])]
<1> DEFINE Bad == {m \in Nat : ~ \E g : Upto(g, m)}
<1>1. Len(s) \in Nat
  OBVIOUS
<1>2. SUFFICES ASSUME Bad # {} PROVE FALSE
  BY <1>1 DEF Kept
<1>3. PICK m \in Bad : \A k \in Bad : m <= k
  <2>1. Bad \in SUBSET Nat
    OBVIOUS
  <2> HIDE DEF Bad
  <2> QED
    BY <1>2, <2>1, LeastNumber
<1>4. CASE m = 0
  <2>1. Upto([n \in 0..0 |-> <<>>], 0)
    OBVIOUS
  <2> QED
    BY <1>4, <2>1
<1>5. CASE m # 0
  <2>1. m \in Nat \ {0} /\ m - 1 \in Nat /\ m - 1 \notin Bad
    <3>1. m \in Nat /\ \A k \in Bad : m <= k
      BY <1>3
    <3> HIDE DEF Bad
    <3> QED
      BY <1>5, <3>1
  <2>2. PICK g : Upto(g, m - 1)
    BY <2>1
  <2> DEFINE Value(f, n) == IF n = 0 THEN <<>>
                            ELSE IF n > 1 /\ s[n] = s[n - 1] THEN f[n - 1]
                            ELSE Append(f[n - 1], s[n])
  <2> DEFINE h == [n \in 0..m |-> IF n = m THEN Value(g, m) ELSE g[n]]
  <2>3. \A n \in 0..m - 1 : g[n] = Value(g, n)
    BY <2>2
  <2>4. ASSUME NEW n \in 0..m PROVE h[n] = Value(h, n)
    <3>0. n # 0 => n - 1 \in 0..m /\ n - 1 # m /\ h[n - 1] = g[n - 1]
      BY <2>1
    <3>1. Value(h, n) = Value(g, n)
      BY <3>0
    <3>2. CASE n = m
      BY <3>1, <3>2
    <3>3. CASE n # m
      <4>1. n \in 0..m - 1 /\ h[n] = g[n]
        BY <2>1, <3>3
      <4> HIDE DEF Value, h
      <4> QED
        BY <2>3, <3>1, <4>1
    <3> QED
      BY <3>2, <3>3
  <2>5. h = [n \in 0..m |-> h[n]]
    OBVIOUS
  <2> HIDE DEF h
  <2>6. Upto(h, m)
    BY <2>4, <2>5
  <2> QED
    BY <2>6
<1> QED
  BY <1>4, <1>5

LEMMA DistinctIs ==
  ASSUME NEW S, NEW s \in Seq(S)
  PROVE  \E g : Kept(g, s) /\ Distinct(s) = g[Len(s)]
<1>1. \E g : Kept(g, s)
  BY KeptExists
<1>2. Distinct(s) = (CHOOSE g : Kept(g, s))[Len(s)]
  BY DEF Distinct, Kept
<1> QED
  BY <1>1, <1>2

LEMMA KeptEntry ==
  ASSUME NEW S, NEW s \in Seq(S), NEW g, Kept(g, s), NEW n \in 0..Len(s)
  PROVE  g[n] = IF n = 0 THEN <<>>
                ELSE IF n > 1 /\ s[n] = s[n - 1] THEN g[n - 1] ELSE Append(g[n - 1], s[n])
BY DEF Kept

LEMMA Ends ==
  ASSUME NEW S, NEW s \in Seq(S), NEW x \in S
  PROVE  /\ Append(s, x) \in Seq(S) /\ Append(s, x) # <<>>
         /\ Len(Append(s, x)) = Len(s) + 1
         /\ Last(Append(s, x)) = x /\ Front(Append(s, x)) = s
<1>1. /\ Append(s, x) \in Seq(S) /\ Len(Append(s, x)) = Len(s) + 1
      /\ Append(s, x)[Len(s) + 1] = x /\ \A i \in 1..Len(s) : Append(s, x)[i] = s[i]
  BY AppendProperties
<1>2. Len(s) \in Nat /\ Append(s, x) # <<>>
  BY <1>1
<1>3. Front(Append(s, x)) = SubSeq(Append(s, x), 1, Len(s))
  BY <1>1, <1>2 DEF Front
<1>4. SubSeq(Append(s, x), 1, Len(s)) = s
  BY <1>1, <1>2
<1> QED
  BY <1>1, <1>2, <1>3, <1>4 DEF Last

LEMMA Ended ==
  ASSUME NEW S, NEW s \in Seq(S), s # <<>>
  PROVE  /\ Front(s) \in Seq(S) /\ Last(s) \in S /\ s = Append(Front(s), Last(s))
         /\ Len(Front(s)) = Len(s) - 1
<1>1. Len(s) \in Nat \ {0}
  BY EmptySeq
<1>2. /\ Front(s) \in Seq(S) /\ Len(Front(s)) = Len(s) - 1
      /\ \A i \in 1..Len(s) - 1 : Front(s)[i] = s[i]
  <2>1. Front(s) = SubSeq(s, 1, Len(s) - 1)
    BY DEF Front
  <2>2. /\ SubSeq(s, 1, Len(s) - 1) \in Seq(S)
        /\ Len(SubSeq(s, 1, Len(s) - 1)) = Len(s) - 1
        /\ \A i \in 1..Len(s) - 1 : SubSeq(s, 1, Len(s) - 1)[i] = s[i]
    <3>1. PICK n \in Nat : n = Len(s) - 1 /\ \A i \in 1..n : s[i] \in S
      BY <1>1
    <3>2. /\ SubSeq(s, 1, n) \in Seq(S)
          /\ Len(SubSeq(s, 1, n)) = IF 1 <= n THEN n - 1 + 1 ELSE 0
          /\ \A i \in 1..n - 1 + 1 : SubSeq(s, 1, n)[i] = s[1 + i - 1]
      BY <3>1, SubSeqProperties
    <3>3. n - 1 + 1 = n /\ \A i \in 1..n : 1 + i - 1 = i
      BY <3>1
    <3>4. \A i \in 1..n : SubSeq(s, 1, n)[i] = s[i]
      BY <3>2, <3>3
    <3>5. Len(SubSeq(s, 1, n)) = n
      BY <3>1, <3>2
    <3> QED
      BY <3>1, <3>2, <3>4, <3>5
  <2> QED
    BY <2>1, <2>2
<1>3. Last(s) \in S
  BY <1>1 DEF Last
<1>4. /\ Append(Front(s), Last(s)) \in Seq(S) /\ Len(Append(Front(s), Last(s))) = Len(s)
      /\ Append(Front(s), Last(s))[Len(s)] = s[Len(s)]
      /\ \A i \in 1..Len(s) - 1 : Append(Front(s), Last(s))[i] = s[i]
  <2>1. /\ Append(Front(s), Last(s)) \in Seq(S)
        /\ Len(Append(Front(s), Last(s))) = Len(Front(s)) + 1
        /\ Append(Front(s), Last(s))[Len(Front(s)) + 1] = Last(s)
        /\ \A i \in 1..Len(Front(s)) : Append(Front(s), Last(s))[i] = Front(s)[i]
    BY <1>2, <1>3, AppendProperties, ZenonT(40)
  <2> QED
    BY <1>1, <1>2, <2>1 DEF Last
<1>5. \A i \in 1..Len(s) : Append(Front(s), Last(s))[i] = s[i]
  BY <1>1, <1>4
<1>6. s = Append(Front(s), Last(s))
  BY <1>4, <1>5, SeqEqual, Zenon
<1> QED
  BY <1>2, <1>3, <1>6

LEMMA PairAppended ==
  ASSUME NEW S, NEW a \in S, NEW b \in S PROVE Append(<<a>>, b) = <<a, b>>
<1>1. <<a>> \in Seq(S) /\ Len(<<a>>) = 1 /\ <<a>>[1] = a
  OBVIOUS
<1>2. /\ Append(<<a>>, b) \in Seq(S) /\ Len(Append(<<a>>, b)) = 2
      /\ Append(<<a>>, b)[1] = a /\ Append(<<a>>, b)[2] = b
  BY <1>1, AppendProperties
<1>3. <<a, b>> \in Seq(S) /\ Len(<<a, b>>) = 2 /\ <<a, b>>[1] = a /\ <<a, b>>[2] = b
  OBVIOUS
<1>4. \A i \in 1..2 : Append(<<a>>, b)[i] = <<a, b>>[i]
  BY <1>2, <1>3
<1> QED
  BY <1>2, <1>3, <1>4, SeqEqual

LEMMA KeptTyped ==
  ASSUME NEW S, NEW s \in Seq(S), NEW g, Kept(g, s)
  PROVE  \A n \in 0..Len(s) : g[n] \in Seq(S) /\ (n > 0 => g[n] # <<>> /\ Last(g[n]) = s[n])
<1> DEFINE Good(n) == g[n] \in Seq(S) /\ (n > 0 => g[n] # <<>> /\ Last(g[n]) = s[n])
<1> DEFINE Bad == {n \in 0..Len(s) : ~ Good(n)}
<1>1. Len(s) \in Nat
  OBVIOUS
<1>2. SUFFICES ASSUME Bad # {} PROVE FALSE
  OBVIOUS
<1>3. PICK n \in Bad : \A k \in Bad : n <= k
  <2>1. Bad \in SUBSET Nat
    BY <1>1
  <2> HIDE DEF Bad
  <2> QED
    BY <1>2, <2>1, LeastNumber
<1>4. n \in 0..Len(s) /\ ~ Good(n) /\ \A k \in 0..Len(s) : k < n => Good(k)
  BY <1>1, <1>3
<1> HIDE DEF Bad
<1>5. CASE n = 0
  <2>1. g[n] = <<>>
    BY <1>1, <1>5, KeptEntry
  <2> QED
    BY <1>4, <1>5, <2>1
<1>6. CASE n # 0
  <2>1. n \in 1..Len(s) /\ n - 1 \in 0..Len(s) /\ n - 1 < n
    BY <1>1, <1>4, <1>6
  <2>2. Good(n - 1)
    BY <1>4, <2>1
  <2>3. s[n] \in S
    BY <2>1
  <2>4. CASE n > 1 /\ s[n] = s[n - 1]
    <3>1. g[n] = g[n - 1]
      BY <1>6, <2>1, <2>4, KeptEntry
    <3> QED
      BY <1>4, <2>1, <2>2, <2>4, <3>1
  <2>5. CASE ~ (n > 1 /\ s[n] = s[n - 1])
    <3>1. g[n] = Append(g[n - 1], s[n])
      BY <1>4, <1>6, <2>5, KeptEntry
    <3>2. g[n] \in Seq(S) /\ g[n] # <<>> /\ Last(g[n]) = s[n]
      BY <2>2, <2>3, <3>1, Ends
    <3> QED
      BY <1>4, <3>2
  <2> QED
    BY <2>4, <2>5
<1> QED
  BY <1>5, <1>6

LEMMA DistinctTyped ==
  ASSUME NEW S, NEW s \in Seq(S)
  PROVE  /\ Distinct(s) \in Seq(S)
         /\ s # <<>> => Distinct(s) # <<>> /\ Last(Distinct(s)) = Last(s)
<1>1. PICK g : Kept(g, s) /\ Distinct(s) = g[Len(s)]
  BY DistinctIs
<1>2. Len(s) \in Nat /\ (s # <<>> => Len(s) > 0)
  BY EmptySeq
<1>3. g[Len(s)] \in Seq(S) /\ (Len(s) > 0 => g[Len(s)] # <<>> /\ Last(g[Len(s)]) = s[Len(s)])
  BY <1>1, <1>2, KeptTyped
<1> QED
  BY <1>1, <1>2, <1>3 DEF Last

LEMMA DistinctOfNone == Distinct(<<>>) = <<>>
<1>1. <<>> \in Seq({}) /\ Len(<<>>) = 0
  OBVIOUS
<1>2. PICK g : Kept(g, <<>>) /\ Distinct(<<>>) = g[0]
  BY <1>1, DistinctIs
<1>3. g[0] = <<>>
  BY <1>1, <1>2 DEF Kept
<1> QED
  BY <1>2, <1>3

\* One more entry decides nothing about the entries before it.
LEMMA KeptAgree ==
  ASSUME NEW S, NEW s \in Seq(S), NEW x \in S, NEW g, Kept(g, s), NEW h, Kept(h, Append(s, x))
  PROVE  \A n \in 0..Len(s) : h[n] = g[n]
<1> DEFINE t == Append(s, x)
<1>0. t \in Seq(S) /\ Len(t) = Len(s) + 1 /\ \A i \in 1..Len(s) : t[i] = s[i]
  BY AppendProperties
<1> HIDE DEF t
<1>1. Kept(h, t)
  BY DEF t
<1> DEFINE Bad == {n \in 0..Len(s) : h[n] # g[n]}
<1>2. Len(s) \in Nat
  OBVIOUS
<1>3. SUFFICES ASSUME Bad # {} PROVE FALSE
  OBVIOUS
<1>4. PICK n \in Bad : \A k \in Bad : n <= k
  <2>1. Bad \in SUBSET Nat
    BY <1>2
  <2> HIDE DEF Bad
  <2> QED
    BY <1>3, <2>1, LeastNumber
<1>5. n \in 0..Len(s) /\ h[n] # g[n] /\ \A k \in 0..Len(s) : k < n => h[k] = g[k]
  BY <1>2, <1>4
<1> HIDE DEF Bad
<1>6. n \in 0..Len(t)
  BY <1>0, <1>2, <1>5
<1>7. g[n] = IF n = 0 THEN <<>>
             ELSE IF n > 1 /\ s[n] = s[n - 1] THEN g[n - 1] ELSE Append(g[n - 1], s[n])
  BY <1>5, KeptEntry
<1>8. h[n] = IF n = 0 THEN <<>>
             ELSE IF n > 1 /\ t[n] = t[n - 1] THEN h[n - 1] ELSE Append(h[n - 1], t[n])
  BY <1>0, <1>1, <1>6, KeptEntry
<1>9. CASE n = 0
  BY <1>5, <1>7, <1>8, <1>9
<1>10. CASE n # 0
  <2>1. n \in 1..Len(s) /\ t[n] = s[n] /\ h[n - 1] = g[n - 1]
    BY <1>0, <1>2, <1>5, <1>10
  <2>2. n > 1 => t[n - 1] = s[n - 1]
    BY <1>0, <1>2, <2>1
  <2> QED
    BY <1>5, <1>7, <1>8, <1>10, <2>1, <2>2
<1> QED
  BY <1>9, <1>10

LEMMA DistinctAppend ==
  ASSUME NEW S, NEW s \in Seq(S), NEW x \in S
  PROVE  Distinct(Append(s, x)) = IF s # <<>> /\ Last(s) = x THEN Distinct(s)
                                  ELSE Append(Distinct(s), x)
<1> DEFINE t == Append(s, x)
<1>0. /\ t \in Seq(S) /\ Len(t) = Len(s) + 1 /\ t[Len(s) + 1] = x
      /\ \A i \in 1..Len(s) : t[i] = s[i]
  BY AppendProperties
<1>1. PICK g : Kept(g, s) /\ Distinct(s) = g[Len(s)]
  BY DistinctIs
<1>2. PICK h : Kept(h, t) /\ Distinct(t) = h[Len(t)]
  BY <1>0, DistinctIs
<1>3. Len(s) \in Nat
  OBVIOUS
<1>4. h[Len(s)] = g[Len(s)]
  BY <1>1, <1>2, <1>3, KeptAgree
<1> HIDE DEF t
<1>5. h[Len(t)] = IF Len(t) > 1 /\ t[Len(t)] = t[Len(s)] THEN h[Len(s)] ELSE Append(h[Len(s)], x)
  <2>1. Len(t) \in 0..Len(t) /\ Len(t) # 0 /\ Len(t) - 1 = Len(s)
    BY <1>0, <1>3
  <2>2. h[Len(t)] = IF Len(t) = 0 THEN <<>>
          ELSE IF Len(t) > 1 /\ t[Len(t)] = t[Len(t) - 1] THEN h[Len(t) - 1]
          ELSE Append(h[Len(t) - 1], t[Len(t)])
    BY <1>0, <1>2, <2>1, KeptEntry
  <2> QED
    BY <1>0, <2>1, <2>2
<1>6. Len(t) > 1 <=> s # <<>>
  BY <1>0, <1>3, EmptySeq
<1>7. s # <<>> => t[Len(s)] = Last(s)
  BY <1>0, <1>3, <1>6 DEF Last
<1>8. t[Len(t)] = x
  BY <1>0
<1> QED
  BY <1>1, <1>2, <1>4, <1>5, <1>6, <1>7, <1>8 DEF t

\* Of a sequence without its first entry the same ones are kept.
LEMMA KeptOfTail ==
  ASSUME NEW S, NEW s \in Seq(S), Len(s) > 1, NEW g, Kept(g, s), NEW h, Kept(h, Tail(s))
  PROVE  \A n \in 1..Len(s) - 1 : h[n] = IF s[1] = s[2] THEN g[n + 1] ELSE Tail(g[n + 1])
<1> DEFINE t == Tail(s)
<1> DEFINE Same(n) == h[n] = IF s[1] = s[2] THEN g[n + 1] ELSE Tail(g[n + 1])
<1>0. Len(s) \in Nat /\ s # <<>>
  BY EmptySeq
<1>1. t \in Seq(S) /\ Len(t) = Len(s) - 1 /\ \A i \in 1..Len(s) - 1 : t[i] = s[i + 1]
  BY <1>0, HeadTailProperties
<1> HIDE DEF t
<1>2. Kept(h, t)
  BY DEF t
<1> DEFINE Bad == {n \in 1..Len(s) - 1 : ~ Same(n)}
<1>3. SUFFICES ASSUME Bad # {} PROVE FALSE
  OBVIOUS
<1>4. PICK n \in Bad : \A k \in Bad : n <= k
  <2>1. Bad \in SUBSET Nat
    BY <1>0
  <2> HIDE DEF Bad
  <2> QED
    BY <1>3, <2>1, LeastNumber
<1>5. n \in 1..Len(s) - 1 /\ ~ Same(n) /\ \A k \in 1..Len(s) - 1 : k < n => Same(k)
  BY <1>0, <1>4
<1> HIDE DEF Bad
<1>6. /\ h[n] = IF n > 1 /\ t[n] = t[n - 1] THEN h[n - 1] ELSE Append(h[n - 1], t[n])
      /\ g[n + 1] = IF s[n + 1] = s[n] THEN g[n] ELSE Append(g[n], s[n + 1])
  <2>1. n \in 0..Len(t) /\ n # 0 /\ n + 1 \in 0..Len(s) /\ n + 1 # 0 /\ n + 1 > 1
        /\ n + 1 - 1 = n
    BY <1>0, <1>1, <1>5
  <2>2. h[n] = IF n = 0 THEN <<>>
               ELSE IF n > 1 /\ t[n] = t[n - 1] THEN h[n - 1] ELSE Append(h[n - 1], t[n])
    BY <1>1, <1>2, <2>1, KeptEntry
  <2>3. g[n + 1] = IF n + 1 = 0 THEN <<>>
          ELSE IF n + 1 > 1 /\ s[n + 1] = s[n + 1 - 1] THEN g[n + 1 - 1]
          ELSE Append(g[n + 1 - 1], s[n + 1])
    BY <2>1, KeptEntry
  <2> QED
    BY <2>1, <2>2, <2>3
<1>7. \A k \in 0..Len(s) : g[k] \in Seq(S) /\ (k > 0 => g[k] # <<>>)
  BY KeptTyped
<1>8. CASE n = 1
  <2>1. h[0] = <<>> /\ g[0] = <<>>
    BY <1>0, <1>1, <1>2, KeptEntry
  <2>2. g[1] = <<s[1]>>
    <3>1. 1 \in 0..Len(s)
      BY <1>0
    <3>2. g[1] = IF 1 = 0 THEN <<>>
                 ELSE IF 1 > 1 /\ s[1] = s[1 - 1] THEN g[1 - 1] ELSE Append(g[1 - 1], s[1])
      BY <3>1, KeptEntry, Zenon
    <3>3. g[1] = Append(g[0], s[1])
      BY <3>2
    <3> QED
      BY <2>1, <3>3
  <2>3. h[1] = <<s[2]>>
    <3>1. h[1] = Append(<<>>, t[1])
      BY <1>6, <1>8, <2>1
    <3>2. t[1] = s[2]
      BY <1>0, <1>1
    <3> QED
      BY <3>1, <3>2
  <2>4. g[2] = IF s[1] = s[2] THEN <<s[1]>> ELSE <<s[1], s[2]>>
    <3>1. g[2] = IF s[2] = s[1] THEN g[1] ELSE Append(g[1], s[2])
      BY <1>6, <1>8
    <3>2. Append(<<s[1]>>, s[2]) = <<s[1], s[2]>>
      <4>1. s[1] \in S /\ s[2] \in S
        BY <1>0
      <4> QED
        BY <4>1, PairAppended
    <3>3. CASE s[1] = s[2]
      BY <2>2, <3>1, <3>3
    <3>4. CASE s[1] # s[2]
      BY <2>2, <3>1, <3>2, <3>4, Zenon
    <3> QED
      BY <3>3, <3>4
  <2>5. Tail(<<s[1], s[2]>>) = <<s[2]>>
    OBVIOUS
  <2>6. h[1] = IF s[1] = s[2] THEN g[2] ELSE Tail(g[2])
    <3>1. CASE s[1] = s[2]
      BY <2>3, <2>4, <3>1
    <3>2. CASE s[1] # s[2]
      BY <2>3, <2>4, <2>5, <3>2, Zenon
    <3> QED
      BY <3>1, <3>2
  <2> QED
    BY <1>5, <1>8, <2>6
<1>9. CASE n # 1
  <2>1. n - 1 \in 1..Len(s) - 1 /\ n - 1 < n /\ n > 1 /\ n - 1 + 1 = n
    BY <1>0, <1>5, <1>9
  <2>2. h[n - 1] = IF s[1] = s[2] THEN g[n] ELSE Tail(g[n])
    BY <1>5, <2>1
  <2>3. t[n] = s[n + 1] /\ t[n - 1] = s[n]
    BY <1>1, <1>5, <2>1
  <2>4. CASE s[n + 1] = s[n]
    BY <1>5, <1>6, <2>1, <2>2, <2>3, <2>4
  <2>5. CASE s[n + 1] # s[n]
    <3>1. h[n] = Append(h[n - 1], s[n + 1]) /\ g[n + 1] = Append(g[n], s[n + 1])
      BY <1>6, <2>3, <2>5
    <3>2. g[n] \in Seq(S) /\ g[n] # <<>> /\ s[n + 1] \in S
      BY <1>0, <1>5, <1>7, <2>1
    <3>3. Tail(Append(g[n], s[n + 1])) = Append(Tail(g[n]), s[n + 1])
      BY <3>2, HeadTailAppend
    <3> QED
      BY <1>5, <2>2, <3>1, <3>3
  <2> QED
    BY <2>4, <2>5
<1> QED
  BY <1>8, <1>9

LEMMA DistinctTail ==
  ASSUME NEW S, NEW s \in Seq(S), Len(s) > 1
  PROVE  Distinct(Tail(s)) = Distinct(s) \/ Distinct(Tail(s)) = Tail(Distinct(s))
<1>0. Len(s) \in Nat /\ s # <<>>
  BY EmptySeq
<1>1. Tail(s) \in Seq(S) /\ Len(Tail(s)) = Len(s) - 1
  BY <1>0, HeadTailProperties
<1>2. PICK g : Kept(g, s) /\ Distinct(s) = g[Len(s)]
  BY DistinctIs
<1>3. PICK h : Kept(h, Tail(s)) /\ Distinct(Tail(s)) = h[Len(s) - 1]
  BY <1>1, DistinctIs
<1>4. Len(s) - 1 \in 1..Len(s) - 1 /\ Len(s) - 1 + 1 = Len(s)
  BY <1>0
<1>5. h[Len(s) - 1] = IF s[1] = s[2] THEN g[Len(s)] ELSE Tail(g[Len(s)])
  BY <1>2, <1>3, <1>4, KeptOfTail
<1> QED
  BY <1>2, <1>3, <1>5

LEMMA SuffixOfItself == ASSUME NEW S, NEW s \in Seq(S) PROVE IsSuffix(s, s)
<1>1. Len(Reverse(s)) \in Nat
  BY DEF Reverse
<1> QED
  BY <1>1 DEF IsSuffix, IsPrefix

LEMMA NoneIsSuffix == ASSUME NEW S, NEW s \in Seq(S) PROVE IsSuffix(<<>>, s)
<1>1. Reverse(<<>>) \in Seq({}) /\ Len(Reverse(<<>>)) = 0
  BY DEF Reverse
<1>2. Reverse(s) \in Seq(S)
  BY DEF Reverse
<1>3. SubSeq(Reverse(<<>>), 1, 0) = <<>> /\ SubSeq(Reverse(s), 1, 0) = <<>>
  BY SubSeqEmpty
<1> QED
  BY <1>1, <1>2, <1>3 DEF IsSuffix, IsPrefix

LEMMA TailIsSuffix == ASSUME NEW S, NEW s \in Seq(S), s # <<>> PROVE IsSuffix(Tail(s), s)
<1>0. Len(s) \in Nat /\ Len(s) > 0
  BY EmptySeq
<1> DEFINE t == Tail(s)  L == Len(s) - 1
<1>1. t \in Seq(S) /\ Len(t) = L /\ \A i \in 1..L : t[i] = s[i + 1]
  BY <1>0, HeadTailProperties
<1>2. L \in Nat /\ Len(s) = L + 1
  BY <1>0
<1> HIDE DEF t, L
<1>3. /\ Reverse(t) \in Seq(S) /\ Len(Reverse(t)) = L
      /\ \A i \in 1..L : Reverse(t)[i] = t[L - i + 1]
  BY <1>1, <1>2 DEF Reverse
<1>4. /\ Reverse(s) \in Seq(S) /\ Len(Reverse(s)) = L + 1
      /\ \A i \in 1..L + 1 : Reverse(s)[i] = s[L + 1 - i + 1]
  BY <1>2 DEF Reverse
<1>5. \A i \in 1..L : Reverse(t)[i] = Reverse(s)[i]
  BY <1>1, <1>2, <1>3, <1>4
<1>6. SubSeq(Reverse(t), 1, L) = SubSeq(Reverse(s), 1, L)
  BY <1>2, <1>5
<1>7. L <= L + 1
  BY <1>2
<1> QED
  BY <1>3, <1>4, <1>6, <1>7 DEF IsSuffix, IsPrefix, t

-----------------------------------------------------------------------------
(* Clips and projects. *)

\* What edits do to a clip.
LEMMA ClipFields ==
  ASSUME NEW c \in Clip
  PROVE  /\ c.id \in Seq(Names) /\ c.track \in Names /\ c.start \in Int /\ c.length \in Int
         /\ c.from \in Int /\ c.until \in Int /\ EndOf(c) \in Int /\ EndOf(c) = c.start + c.length
BY DEF Clip, EndOf

LEMMA Restarted ==
  ASSUME NEW c \in Clip, NEW x \in Int
  PROVE  LET d == [c EXCEPT !.start = x]
         IN /\ d \in Clip /\ d.id = c.id /\ d.track = c.track /\ d.audio = c.audio
            /\ d.media = c.media /\ d.until = c.until /\ d.from = c.from
            /\ d.length = c.length /\ d.start = x
BY DEF Clip

LEMMA Resourced ==
  ASSUME NEW c \in Clip, NEW x \in Int
  PROVE  LET d == [c EXCEPT !.from = x]
         IN /\ d \in Clip /\ d.id = c.id /\ d.track = c.track /\ d.audio = c.audio
            /\ d.media = c.media /\ d.until = c.until /\ d.from = x
            /\ d.length = c.length /\ d.start = c.start
BY DEF Clip

LEMMA Regrouped ==
  ASSUME NEW c \in Clip, NEW g \in Names
  PROVE  LET d == [c EXCEPT !.group = g]
         IN /\ d \in Clip /\ d.id = c.id /\ d.track = c.track /\ d.audio = c.audio
            /\ d.media = c.media /\ d.until = c.until /\ d.from = c.from
            /\ d.length = c.length /\ d.start = c.start
BY DEF Clip

LEMMA Relocated ==
  ASSUME NEW c \in Clip, NEW x \in Int, NEW k \in Names
  PROVE  LET d == [c EXCEPT !.start = x, !.track = k]
         IN /\ d \in Clip /\ d.id = c.id /\ d.track = k /\ d.audio = c.audio
            /\ d.media = c.media /\ d.until = c.until /\ d.from = c.from
            /\ d.length = c.length /\ d.start = x
BY DEF Clip

LEMMA HeadIs ==
  ASSUME NEW c \in Clip, NEW at \in Int
  PROVE  LET d == HeadOf(c, at)
         IN /\ d \in Clip /\ d.id = c.id /\ d.track = c.track /\ d.audio = c.audio
            /\ d.media = c.media /\ d.until = c.until /\ d.from = c.from
            /\ d.length = at - c.start /\ d.start = c.start /\ EndOf(d) = at
BY DEF Clip, HeadOf, EndOf

LEMMA TrimmedIs ==
  ASSUME NEW c \in Clip, NEW s \in Int, NEW e \in Int
  PROVE  LET d == Trimmed(c, s, e)
         IN /\ d \in Clip /\ d.id = c.id /\ d.track = c.track /\ d.audio = c.audio
            /\ d.media = c.media /\ d.until = c.until /\ d.from = c.from + s
            /\ d.length = c.length + e /\ d.start = c.start + s
<1>1. PICK x \in Int, y \in Int, z \in Int : x = c.start + s /\ y = c.from + s /\ z = c.length + e
  BY ClipFields
<1>2. Trimmed(c, s, e) = [c EXCEPT !.start = x, !.from = y, !.length = z]
  BY <1>1 DEF Trimmed
<1> DEFINE d == [c EXCEPT !.start = x, !.from = y, !.length = z]
<1>3. /\ d \in Clip /\ d.id = c.id /\ d.track = c.track /\ d.audio = c.audio
      /\ d.media = c.media /\ d.until = c.until /\ d.from = y
      /\ d.length = z /\ d.start = x
  BY DEF Clip
<1> QED
  BY <1>1, <1>2, <1>3

LEMMA TailIs ==
  ASSUME NEW c \in Clip, NEW at \in Int, NEW name \in Names
  PROVE  LET d == TailOf(c, at, name)
         IN /\ d \in Clip /\ d.id = Append(c.id, name) /\ d.track = c.track /\ d.audio = c.audio
            /\ d.media = c.media /\ d.until = c.until /\ d.from = c.from + at - c.start
            /\ d.length = EndOf(c) - at /\ d.start = at /\ EndOf(d) = EndOf(c)
<1>1. PICK i \in Seq(Names), y \in Int, z \in Int :
        i = Append(c.id, name) /\ y = c.from + at - c.start /\ z = EndOf(c) - at
  <2>1. Append(c.id, name) \in Seq(Names)
    BY ClipFields, AppendProperties
  <2>2. c.from + at - c.start \in Int /\ EndOf(c) - at \in Int
    BY ClipFields
  <2> QED
    BY <2>1, <2>2
<1> DEFINE d == [c EXCEPT !.id = i, !.start = at, !.from = y, !.length = z]
<1>2. TailOf(c, at, name) = d
  BY <1>1 DEF TailOf
<1>3. /\ d \in Clip /\ d.id = i /\ d.track = c.track /\ d.audio = c.audio
      /\ d.media = c.media /\ d.until = c.until /\ d.from = y
      /\ d.length = z /\ d.start = at
  BY DEF Clip
<1> HIDE DEF d
<1>4. at + (EndOf(c) - at) = EndOf(c)
  BY ClipFields
<1>5. EndOf(d) = EndOf(c)
  BY <1>1, <1>3, <1>4 DEF EndOf
<1> QED
  BY <1>1, <1>2, <1>3, <1>5

\* Clips that may be put on the tracks of a project, and the states of one.
Fits(p, new) ==
  /\ new \subseteq Clip /\ IsFiniteSet(new) /\ \A c \in new : c.track \in DOMAIN p.tracks
Sound(p) == IsProject(p) /\ Valid(p)

\* The values of a function f on a set.
Images(f, T) == {f[x] : x \in T}

LEMMA ImageFinite ==
  ASSUME NEW T, IsFiniteSet(T), NEW f PROVE IsFiniteSet(Images(f, T))
<1> DEFINE R == {f[x] : x \in T}  g == [x \in T |-> f[x]]
<1>1. g \in Surjection(T, R)
  <2>1. g \in [T -> R] /\ \A y \in R : \E x \in T : g[x] = y
    OBVIOUS
  <2> QED
    BY <2>1 DEF Surjection
<1> QED
  BY <1>1, FS_Surjection DEF Images

LEMMA SwappedIs ==
  ASSUME NEW p, IsProject(p), NEW old, NEW new
  PROVE  /\ Swapped(p, old, new).tracks = p.tracks
         /\ Swapped(p, old, new).clips = (p.clips \ old) \union new
         /\ Fits(p, new) => IsProject(Swapped(p, old, new))
<1> DEFINE q == Swapped(p, old, new)
<1>1. q = [tracks |-> p.tracks, clips |-> (p.clips \ old) \union new]
  <2>1. PICK tracks, clips : tracks = p.tracks /\ clips = p.clips
    OBVIOUS
  <2>2. p = [tracks |-> tracks, clips |-> clips]
    BY <2>1 DEF IsProject
  <2>3. [p EXCEPT !.clips = (clips \ old) \union new]
          = [tracks |-> tracks, clips |-> (clips \ old) \union new]
    BY <2>2
  <2>4. q = [p EXCEPT !.clips = (clips \ old) \union new]
    BY <2>1 DEF Swapped
  <2> QED
    BY <2>1, <2>3, <2>4
<1>2. q.tracks = p.tracks /\ q.clips = (p.clips \ old) \union new
  BY <1>1
<1> HIDE DEF q
<1>3. ASSUME Fits(p, new) PROVE IsProject(q)
  <2>1. q = [tracks |-> q.tracks, clips |-> q.clips]
    BY <1>1, <1>2
  <2>2. q.clips \subseteq Clip /\ \A c \in q.clips : c.track \in DOMAIN q.tracks
    BY <1>2, <1>3 DEF Fits, IsProject
  <2>3. IsFiniteSet(q.clips)
    <3>1. IsFiniteSet(p.clips \ old)
      BY FS_Subset DEF IsProject
    <3> QED
      BY <1>2, <1>3, <3>1, FS_Union DEF Fits
  <2>4. q.tracks \in [DOMAIN q.tracks -> [audio : BOOLEAN, locked : BOOLEAN]]
        /\ DOMAIN q.tracks \subseteq Names
    BY <1>2 DEF IsProject
  <2> QED
    BY <2>1, <2>2, <2>3, <2>4 DEF IsProject
<1> QED
  BY <1>2, <1>3 DEF q

LEMMA OwnFits ==
  ASSUME NEW p, IsProject(p), NEW new \in SUBSET p.clips PROVE Fits(p, new)
<1>1. IsFiniteSet(new)
  BY FS_Subset DEF IsProject
<1> QED
  BY <1>1 DEF Fits, IsProject

LEMMA UnionFits ==
  ASSUME NEW p, NEW a, Fits(p, a), NEW b, Fits(p, b) PROVE Fits(p, a \union b)
<1>1. IsFiniteSet(a \union b)
  BY FS_Union DEF Fits
<1> QED
  BY <1>1 DEF Fits

LEMMA OneFits ==
  ASSUME NEW p, NEW c \in Clip, c.track \in DOMAIN p.tracks PROVE Fits(p, {c})
BY FS_Singleton DEF Fits

LEMMA ImageFits ==
  ASSUME NEW p, NEW T, IsFiniteSet(T), NEW f,
         \A c \in T : f[c] \in Clip /\ f[c].track \in DOMAIN p.tracks
  PROVE  Fits(p, Images(f, T))
<1>1. IsFiniteSet(Images(f, T))
  BY ImageFinite
<1> QED
  BY <1>1 DEF Fits, Images

LEMMA UnionsFit ==
  ASSUME NEW p, NEW T, IsFiniteSet(T), NEW f, \A c \in T : Fits(p, f[c])
  PROVE  Fits(p, UNION Images(f, T))
<1>1. IsFiniteSet(Images(f, T))
  BY ImageFinite
<1>2. IsFiniteSet(UNION Images(f, T))
  <2>1. \A s \in Images(f, T) : IsFiniteSet(s)
    BY DEF Fits, Images
  <2> QED
    BY <1>1, <2>1, FS_UNION, Zenon
<1> QED
  BY <1>2 DEF Fits, Images

LEMMA CheckedSound ==
  ASSUME NEW p, Sound(p), NEW q, IsProject(q) PROVE Sound(Checked(p, q))
BY DEF Sound, Checked

LEMMA PartSound ==
  ASSUME NEW p, Sound(p), NEW old PROVE Sound(Swapped(p, old, {}))
<1> DEFINE q == Swapped(p, old, {})
<1>1. q.tracks = p.tracks /\ q.clips = p.clips \ old /\ IsProject(q)
  <2>1. Fits(p, {})
    BY FS_EmptySet DEF Fits
  <2> QED
    BY <2>1, SwappedIs DEF Sound
<1> HIDE DEF q
<1>2. Valid(q)
  BY <1>1 DEF Sound, Valid, Accepts
<1> QED
  BY <1>1, <1>2 DEF Sound, q

LEMMA ClipOfIs ==
  ASSUME NEW p, NEW id \in IdsOf(p.clips) PROVE ClipOf(p, id) \in p.clips /\ ClipOf(p, id).id = id
BY DEF IdsOf, ClipOf

\* Ids name clips.
LEMMA ClipOfOwn ==
  ASSUME NEW p, Valid(p), NEW c \in p.clips PROVE ClipOf(p, c.id) = c
<1>1. \E d \in p.clips : d.id = c.id
  OBVIOUS
<1>2. ClipOf(p, c.id) \in p.clips /\ ClipOf(p, c.id).id = c.id
  BY <1>1 DEF ClipOf
<1> QED
  BY <1>2 DEF Valid

LEMMA ChosenIs ==
  ASSUME NEW p, NEW id \in IdsOf(p.clips), NEW linked \in BOOLEAN
  PROVE  Chosen(p, id, linked) \subseteq p.clips /\ ClipOf(p, id) \in Chosen(p, id, linked)
<1>1. ClipOf(p, id) \in p.clips
  BY ClipOfIs
<1>2. Linked(p, ClipOf(p, id)) \subseteq p.clips /\ ClipOf(p, id) \in Linked(p, ClipOf(p, id))
  BY <1>1 DEF Linked
<1> QED
  BY <1>1, <1>2 DEF Chosen

LEMMA OnTrackIs ==
  ASSUME NEW p, IsProject(p), NEW k
  PROVE  OnTrack(p, k) \subseteq p.clips /\ OnTrack(p, k) \subseteq Clip /\ IsFiniteSet(OnTrack(p, k))
<1>1. OnTrack(p, k) \in SUBSET p.clips
  BY DEF OnTrack
<1> QED
  BY <1>1, FS_Subset DEF IsProject

LEMMA MaxOfTwo ==
  ASSUME NEW a \in Int, NEW b \in Int
  PROVE  Max({a, b}) \in Int /\ Max({a, b}) = IF a >= b THEN a ELSE b
<1>1. \E x \in {a, b} : \A y \in {a, b} : x >= y
  OBVIOUS
<1>2. Max({a, b}) \in {a, b} /\ \A y \in {a, b} : Max({a, b}) >= y
  BY <1>1 DEF Max
<1> QED
  BY <1>2

\* Clips that keep their place and name, and stay within their media.
LEMMA InPlaceSound ==
  ASSUME NEW p, Sound(p), NEW old \in SUBSET p.clips, NEW f,
         \A c \in old : /\ f[c] \in Clip /\ f[c].id = c.id /\ f[c].track = c.track
                        /\ f[c].audio = c.audio /\ f[c].start = c.start /\ f[c].length = c.length
                        /\ f[c].from >= 0 /\ f[c].from + f[c].length <= f[c].until
  PROVE  Sound(Swapped(p, old, Images(f, old)))
<1> DEFINE new == Images(f, old)  q == Swapped(p, old, new)
<1>0. IsProject(p) /\ Valid(p)
  BY DEF Sound
<1>1. Fits(p, new)
  <2>1. IsFiniteSet(old) /\ \A c \in old : c.track \in DOMAIN p.tracks
    BY <1>0, OwnFits DEF Fits
  <2>2. \A c \in old : f[c] \in Clip /\ f[c].track \in DOMAIN p.tracks
    BY <2>1
  <2>3. Fits(p, Images(f, old))
    BY <2>1, <2>2, ImageFits
  <2> QED
    BY <2>3
<1>2. q.tracks = p.tracks /\ q.clips = (p.clips \ old) \union new /\ IsProject(q)
  BY <1>0, <1>1, SwappedIs
<1> DEFINE Like(x, c) == /\ x.id = c.id /\ x.track = c.track /\ x.audio = c.audio
                         /\ x.start = c.start /\ x.length = c.length
                         /\ x.from >= 0 /\ x.from + x.length <= x.until
<1>3. \A x \in q.clips : \E c \in p.clips : Like(x, c) /\ (c \notin old => x = c)
                                             /\ (c \in old => x = f[c])
  <2>1. ASSUME NEW x \in q.clips PROVE \E c \in p.clips : Like(x, c) /\ (c \notin old => x = c)
                                                          /\ (c \in old => x = f[c])
    <3>1. CASE x \in p.clips \ old
      <4>1. Like(x, x)
        BY <1>0, <3>1 DEF Valid
      <4> QED
        BY <3>1, <4>1
    <3>2. CASE x \in new
      <4>1. PICK c \in old : x = f[c]
        BY <3>2 DEF Images
      <4>2. Like(x, c)
        BY <4>1
      <4> QED
        BY <4>1, <4>2
    <3> QED
      BY <1>2, <2>1, <3>1, <3>2
  <2> QED
    BY <2>1
<1> HIDE DEF new, q
<1>4. ASSUME NEW x \in q.clips, NEW y \in q.clips, x # y
      PROVE  x.id # y.id /\ ~ (x.track = y.track /\ Intersect(x, y))
  <2>1. PICK c \in p.clips : Like(x, c) /\ (c \notin old => x = c) /\ (c \in old => x = f[c])
    BY <1>3
  <2>2. PICK d \in p.clips : Like(y, d) /\ (d \notin old => y = d) /\ (d \in old => y = f[d])
    BY <1>3
  <2>3. c # d
    BY <1>4, <2>1, <2>2
  <2>4. c.id # d.id /\ ~ (c.track = d.track /\ Intersect(c, d))
    BY <1>0, <2>3 DEF Valid
  <2> QED
    BY <2>1, <2>2, <2>4 DEF Intersect, EndOf
<1>5. ASSUME NEW x \in q.clips
      PROVE  /\ x.start >= 0 /\ x.length > 0 /\ x.from >= 0
             /\ Accepts(q, x) /\ x.from + x.length <= x.until
  <2>1. PICK c \in p.clips : Like(x, c)
    BY <1>3
  <2>2. c.start >= 0 /\ c.length > 0 /\ Accepts(p, c)
    BY <1>0 DEF Valid
  <2> QED
    BY <1>2, <2>1, <2>2 DEF Accepts
<1>6. Valid(q)
  BY <1>4, <1>5 DEF Valid
<1> QED
  BY <1>2, <1>6 DEF Sound, q, new

LEMMA AddTrackIs ==
  ASSUME NEW p, IsProject(p), NEW k \in Names, k \notin DOMAIN p.tracks, NEW audio \in BOOLEAN
  PROVE  LET q == AddTrack(p, k, audio)
         IN /\ IsProject(q) /\ q.clips = p.clips /\ DOMAIN q.tracks = DOMAIN p.tracks \union {k}
            /\ \A j \in DOMAIN p.tracks : q.tracks[j] = p.tracks[j]
<1> DEFINE q == AddTrack(p, k, audio)
<1>1. PICK tracks, clips : tracks = p.tracks /\ clips = p.clips
  OBVIOUS
<1>2. p = [tracks |-> tracks, clips |-> clips]
  BY <1>1 DEF IsProject
<1> DEFINE more == [j \in DOMAIN tracks \union {k} |->
                      IF j = k THEN [audio |-> audio, locked |-> FALSE] ELSE tracks[j]]
<1>3. q = [p EXCEPT !.tracks = more]
  BY <1>1 DEF AddTrack
<1>4. q = [tracks |-> more, clips |-> clips]
  <2> HIDE DEF more, q
  <2> QED
    BY <1>2, <1>3
<1>5. q.tracks = more /\ q.clips = clips
  <2> HIDE DEF more, q
  <2> QED
    BY <1>4
<1>6. /\ DOMAIN more = DOMAIN tracks \union {k}
      /\ \A j \in DOMAIN tracks : more[j] = tracks[j]
  BY <1>1
<1>7. more \in [DOMAIN more -> [audio : BOOLEAN, locked : BOOLEAN]]
  <2>1. \A j \in DOMAIN tracks : tracks[j] \in [audio : BOOLEAN, locked : BOOLEAN]
    BY <1>1 DEF IsProject
  <2>2. [audio |-> audio, locked |-> FALSE] \in [audio : BOOLEAN, locked : BOOLEAN]
    OBVIOUS
  <2>3. \A j \in DOMAIN tracks \union {k} : more[j] \in [audio : BOOLEAN, locked : BOOLEAN]
    BY <2>1, <2>2, Zenon
  <2> QED
    BY <2>3
<1> HIDE DEF more, q
<1>8. IsProject(q)
  <2>1. q = [tracks |-> q.tracks, clips |-> q.clips]
    BY <1>4, <1>5
  <2>2. DOMAIN q.tracks \subseteq Names
    BY <1>1, <1>5, <1>6 DEF IsProject
  <2>3. q.clips \subseteq Clip /\ IsFiniteSet(q.clips) /\ \A c \in q.clips : c.track \in DOMAIN q.tracks
    BY <1>1, <1>5, <1>6 DEF IsProject
  <2> QED
    BY <1>5, <1>7, <2>1, <2>2, <2>3 DEF IsProject
<1> QED
  BY <1>1, <1>5, <1>6, <1>8 DEF q

LEMMA AddTrackSound ==
  ASSUME NEW p, Sound(p), NEW k \in Names, NEW audio \in BOOLEAN
  PROVE  Sound(AddTrack(p, k, audio))
<1>1. CASE k \in DOMAIN p.tracks
  BY <1>1 DEF AddTrack
<1>2. CASE k \notin DOMAIN p.tracks
  <2> DEFINE q == AddTrack(p, k, audio)
  <2>1. /\ IsProject(q) /\ q.clips = p.clips
        /\ \A j \in DOMAIN p.tracks : q.tracks[j] = p.tracks[j]
    BY <1>2, AddTrackIs DEF Sound
  <2> HIDE DEF q
  <2>2. \A c \in q.clips : Accepts(p, c) => Accepts(q, c)
    BY <2>1 DEF Accepts, Sound, IsProject
  <2>3. Valid(q)
    BY <2>1, <2>2 DEF Sound, Valid
  <2> QED
    BY <2>1, <2>3 DEF Sound, q
<1> QED
  BY <1>1, <1>2

LEMMA AddClipSound ==
  ASSUME NEW p, Sound(p), NEW c \in Clip PROVE Sound(AddClip(p, c))
<1>1. CASE c.track \notin DOMAIN p.tracks \/ ~ Free(p, c) \/ Has(p, c.id)
  BY <1>1 DEF AddClip
<1>2. CASE ~ (c.track \notin DOMAIN p.tracks \/ ~ Free(p, c) \/ Has(p, c.id))
  <2>1. AddClip(p, c) = Checked(p, Swapped(p, {}, {c}))
    <3>1. p.clips \ {} = p.clips
      OBVIOUS
    <3> QED
      BY <1>2, <3>1 DEF AddClip, Swapped
  <2>2. IsProject(Swapped(p, {}, {c}))
    BY <1>2, OneFits, SwappedIs DEF Sound
  <2> QED
    BY <2>1, <2>2, CheckedSound
<1> QED
  BY <1>1, <1>2

LEMMA RemoveClipSound ==
  ASSUME NEW p, Sound(p), NEW id, NEW linked PROVE Sound(RemoveClip(p, id, linked))
BY PartSound DEF RemoveClip

LEMMA LinkSound ==
  ASSUME NEW p, Sound(p), NEW a \in IdsOf(p.clips), NEW b \in IdsOf(p.clips), NEW group \in Names
  PROVE  Sound(LinkClips(p, a, b, group))
<1> DEFINE pair == {ClipOf(p, a), ClipOf(p, b)}  f == [c \in pair |-> [c EXCEPT !.group = group]]
<1>1. pair \in SUBSET p.clips
  BY ClipOfIs
<1>2. \A c \in pair : c \in Clip /\ f[c] = [c EXCEPT !.group = group]
  BY <1>1 DEF Sound, IsProject
<1>3. {[c EXCEPT !.group = group] : c \in pair} = Images(f, pair)
  BY DEF Images
<1>4. LinkClips(p, a, b, group) = p
      \/ LinkClips(p, a, b, group) = Swapped(p, pair, {[c EXCEPT !.group = group] : c \in pair})
  BY DEF LinkClips
<1> HIDE DEF pair, f
<1>5. \A c \in pair : /\ f[c] \in Clip /\ f[c].id = c.id /\ f[c].track = c.track
                      /\ f[c].audio = c.audio /\ f[c].start = c.start /\ f[c].length = c.length
                      /\ f[c].from = c.from /\ f[c].until = c.until
  <2>1. ASSUME NEW c \in pair
        PROVE  LET d == [c EXCEPT !.group = group]
               IN /\ d \in Clip /\ d.id = c.id /\ d.track = c.track /\ d.audio = c.audio
                  /\ d.media = c.media /\ d.until = c.until /\ d.from = c.from
                  /\ d.length = c.length /\ d.start = c.start
    BY <1>2, Regrouped
  <2> QED
    BY <1>2, <2>1, Zenon
<1>6. \A c \in pair : c.from >= 0 /\ c.from + c.length <= c.until
  BY <1>1 DEF Sound, Valid
<1>7. Sound(Swapped(p, pair, Images(f, pair)))
  BY <1>1, <1>5, <1>6, InPlaceSound
<1> QED
  BY <1>3, <1>4, <1>7

LEMMA UnlinkSound ==
  ASSUME NEW p, Sound(p), NEW group PROVE Sound(UnlinkGroup(p, group))
<1> DEFINE freed == {c \in p.clips : c.group = group /\ Free(p, c)}
           f == [c \in freed |-> [c EXCEPT !.group = NoGroup]]
<1>1. freed \in SUBSET p.clips
  OBVIOUS
<1>2. \A c \in freed : c \in Clip /\ f[c] = [c EXCEPT !.group = NoGroup]
  BY <1>1 DEF Sound, IsProject
<1>3. {[c EXCEPT !.group = NoGroup] : c \in freed} = Images(f, freed)
  BY DEF Images
<1>4. UnlinkGroup(p, group) = Swapped(p, freed, {[c EXCEPT !.group = NoGroup] : c \in freed})
  BY DEF UnlinkGroup
<1> HIDE DEF freed, f
<1>5. \A c \in freed : /\ f[c] \in Clip /\ f[c].id = c.id /\ f[c].track = c.track
                       /\ f[c].audio = c.audio /\ f[c].start = c.start /\ f[c].length = c.length
                       /\ f[c].from = c.from /\ f[c].until = c.until
  <2>1. NoGroup \in Names
    BY MultitrackAssumption
  <2>2. ASSUME NEW c \in freed
        PROVE  LET d == [c EXCEPT !.group = NoGroup]
               IN /\ d \in Clip /\ d.id = c.id /\ d.track = c.track /\ d.audio = c.audio
                  /\ d.media = c.media /\ d.until = c.until /\ d.from = c.from
                  /\ d.length = c.length /\ d.start = c.start
    BY <1>2, <2>1, Regrouped
  <2> QED
    BY <1>2, <2>2, Zenon
<1>6. \A c \in freed : c.from >= 0 /\ c.from + c.length <= c.until
  <2>1. ASSUME NEW c \in freed PROVE c.from >= 0 /\ c.from + c.length <= c.until
    BY <1>1 DEF Sound, Valid
  <2> QED
    BY <2>1
<1>7. Sound(Swapped(p, freed, Images(f, freed)))
  BY <1>1, <1>5, <1>6, InPlaceSound
<1> QED
  BY <1>3, <1>4, <1>7

\* Clips changed one by one, each still on a track of the project.
LEMMA MappedIs ==
  ASSUME NEW p, IsProject(p), NEW old \in SUBSET p.clips, NEW f,
         \A c \in old : f[c] \in Clip /\ f[c].track \in DOMAIN p.tracks
  PROVE  Fits(p, Images(f, old)) /\ IsProject(Swapped(p, old, Images(f, old)))
<1>1. IsFiniteSet(old)
  BY OwnFits DEF Fits
<1>2. Fits(p, Images(f, old))
  BY <1>1, ImageFits
<1> QED
  BY <1>2, SwappedIs

LEMMA MoveSound ==
  ASSUME NEW p, Sound(p), NEW id \in IdsOf(p.clips), NEW k \in DOMAIN p.tracks,
         NEW start \in Int, NEW linked \in BOOLEAN
  PROVE  Sound(MoveClip(p, id, k, start, linked))
<1> DEFINE c == ClipOf(p, id)  moving == Chosen(p, id, linked)  by == Max({0, start}) - c.start
           f == [d \in moving |-> [d EXCEPT !.start = Max({0, @ + by}),
                                            !.track = IF d = c THEN k ELSE @]]
<1>1. c \in Clip /\ moving \in SUBSET p.clips /\ k \in Names /\ IsProject(p)
  BY ClipOfIs, ChosenIs DEF Sound, IsProject
<1>2. by \in Int
  <2>1. Max({0, start}) \in Int
    BY MaxOfTwo
  <2> QED
    BY <1>1, <2>1, ClipFields
<1>3. {[d EXCEPT !.start = Max({0, @ + by}), !.track = IF d = c THEN k ELSE @] : d \in moving}
        = Images(f, moving)
  BY DEF Images
<1>4. \/ MoveClip(p, id, k, start, linked) = p
      \/ MoveClip(p, id, k, start, linked) = Checked(p, Swapped(p, moving, Images(f, moving)))
  BY <1>3 DEF MoveClip
<1>5. ASSUME NEW d \in moving PROVE f[d] \in Clip /\ f[d].track \in DOMAIN p.tracks
  <2>1. d \in Clip /\ d.track \in DOMAIN p.tracks
    BY <1>1 DEF IsProject
  <2>2. PICK x \in Int : x = Max({0, d.start + by})
    <3>1. d.start + by \in Int
      BY <1>2, <2>1, ClipFields
    <3>2. Max({0, d.start + by}) \in Int
      BY <3>1, MaxOfTwo
    <3> QED
      BY <3>2
  <2>3. PICK j \in DOMAIN p.tracks : j = IF d = c THEN k ELSE d.track
    BY <2>1
  <2>4. j \in Names
    BY <1>1 DEF IsProject
  <2>5. f[d] = [d EXCEPT !.start = x, !.track = j]
    BY <2>2, <2>3
  <2> HIDE DEF f
  <2>6. [d EXCEPT !.start = x, !.track = j] \in Clip /\ [d EXCEPT !.start = x, !.track = j].track = j
    BY <2>1, <2>2, <2>4 DEF Clip
  <2> QED
    BY <2>3, <2>5, <2>6
<1> HIDE DEF f, moving
<1>6. IsProject(Swapped(p, moving, Images(f, moving)))
  BY <1>1, <1>5, MappedIs
<1> QED
  BY <1>4, <1>6, CheckedSound

LEMMA TrimSound ==
  ASSUME NEW p, Sound(p), NEW id \in IdsOf(p.clips), NEW start \in Int, NEW end \in Int,
         NEW linked \in BOOLEAN
  PROVE  Sound(TrimClip(p, id, start, end, linked))
<1> DEFINE c == ClipOf(p, id)  items == Chosen(p, id, linked)
           f == [d \in items |-> Trimmed(d, start - c.start, end - start - c.length)]
<1>1. c \in Clip /\ items \in SUBSET p.clips /\ IsProject(p)
  BY ClipOfIs, ChosenIs DEF Sound, IsProject
<1>2. start - c.start \in Int /\ end - start - c.length \in Int
  BY <1>1, ClipFields
<1>3. {Trimmed(d, start - c.start, end - start - c.length) : d \in items} = Images(f, items)
  BY DEF Images
<1>4. \/ TrimClip(p, id, start, end, linked) = p
      \/ TrimClip(p, id, start, end, linked) = Checked(p, Swapped(p, items, Images(f, items)))
  BY <1>3 DEF TrimClip
<1>5. ASSUME NEW d \in items PROVE f[d] \in Clip /\ f[d].track \in DOMAIN p.tracks
  <2>1. d \in Clip /\ d.track \in DOMAIN p.tracks
    BY <1>1 DEF IsProject
  <2>2. PICK s \in Int, more \in Int : s = start - c.start /\ more = end - start - c.length
    BY <1>2
  <2>3. f[d] = Trimmed(d, s, more)
    BY <2>2
  <2>4. Trimmed(d, s, more) \in Clip /\ Trimmed(d, s, more).track = d.track
    BY <2>1, TrimmedIs
  <2> QED
    BY <2>1, <2>3, <2>4
<1> HIDE DEF f, items
<1>6. IsProject(Swapped(p, items, Images(f, items)))
  BY <1>1, <1>5, MappedIs
<1> QED
  BY <1>4, <1>6, CheckedSound

LEMMA SplitSound ==
  ASSUME NEW p, Sound(p), NEW id \in IdsOf(p.clips), NEW at \in Int, NEW name \in Names,
         NEW linked \in BOOLEAN
  PROVE  Sound(SplitClip(p, id, at, name, linked))
<1> DEFINE items == {d \in Chosen(p, id, linked) : Free(p, d) /\ Inside(d, at)}
           heads == [d \in items |-> HeadOf(d, at)]  tails == [d \in items |-> TailOf(d, at, name)]
           new == Images(heads, items) \union Images(tails, items)
<1>1. items \in SUBSET p.clips /\ IsProject(p)
  BY ChosenIs DEF Sound
<1>2. {HeadOf(d, at) : d \in items} \union {TailOf(d, at, name) : d \in items} = new
  BY DEF Images
<1>3. \/ SplitClip(p, id, at, name, linked) = p
      \/ SplitClip(p, id, at, name, linked) = Checked(p, Swapped(p, items, new))
  BY <1>2 DEF SplitClip
<1>4. ASSUME NEW d \in items PROVE heads[d] \in Clip /\ heads[d].track \in DOMAIN p.tracks
  <2>1. d \in Clip /\ d.track \in DOMAIN p.tracks
    BY <1>1 DEF IsProject
  <2> QED
    BY <2>1, HeadIs
<1>5. ASSUME NEW d \in items PROVE tails[d] \in Clip /\ tails[d].track \in DOMAIN p.tracks
  <2>1. d \in Clip /\ d.track \in DOMAIN p.tracks
    BY <1>1 DEF IsProject
  <2> QED
    BY <2>1, TailIs
<1> HIDE DEF heads, tails, items
<1>6. Fits(p, Images(heads, items)) /\ Fits(p, Images(tails, items))
  BY <1>1, <1>4, <1>5, MappedIs
<1>7. Fits(p, new)
  BY <1>6, UnionFits
<1>8. IsProject(Swapped(p, items, new))
  BY <1>1, <1>7, SwappedIs
<1> QED
  BY <1>3, <1>8, CheckedSound

LEMMA MovedIs ==
  ASSUME NEW p, IsProject(p), NEW items \in SUBSET p.clips, NEW by \in Int
  PROVE  LET new == {[d EXCEPT !.start = @ + by] : d \in items}
         IN Fits(p, new) /\ IsProject(Swapped(p, items, new))
<1> DEFINE f == [d \in items |-> [d EXCEPT !.start = @ + by]]
<1>1. {[d EXCEPT !.start = @ + by] : d \in items} = Images(f, items)
  BY DEF Images
<1>2. ASSUME NEW d \in items PROVE f[d] \in Clip /\ f[d].track \in DOMAIN p.tracks
  <2>1. d \in Clip /\ d.track \in DOMAIN p.tracks
    BY DEF IsProject
  <2>2. PICK x \in Int : x = d.start + by
    BY <2>1, ClipFields
  <2>3. f[d] = [d EXCEPT !.start = x]
    BY <2>2
  <2>4. [d EXCEPT !.start = x] \in Clip /\ [d EXCEPT !.start = x].track = d.track
    BY <2>1, <2>2 DEF Clip
  <2> QED
    BY <2>1, <2>3, <2>4
<1> HIDE DEF f
<1>3. Fits(p, Images(f, items)) /\ IsProject(Swapped(p, items, Images(f, items)))
  BY <1>2, MappedIs
<1> QED
  BY <1>1, <1>3

LEMMA RippleMoveSound ==
  ASSUME NEW p, Sound(p), NEW id \in IdsOf(p.clips), NEW start \in Int
  PROVE  Sound(RippleMove(p, id, start))
<1> DEFINE c == ClipOf(p, id)  by == Max({0, start}) - c.start
           items == {d \in p.clips : d.track = c.track /\ d.start >= c.start}
           new == {[d EXCEPT !.start = @ + by] : d \in items}
<1>1. by \in Int
  <2>1. Max({0, start}) \in Int
    BY MaxOfTwo
  <2>2. c \in Clip
    BY ClipOfIs DEF Sound, IsProject
  <2> QED
    BY <2>1, <2>2, ClipFields
<1>2. RippleMove(p, id, start) = p \/ RippleMove(p, id, start) = Checked(p, Swapped(p, items, new))
  BY DEF RippleMove
<1>3. items \in SUBSET p.clips
  OBVIOUS
<1> HIDE DEF items, by
<1>4. IsProject(Swapped(p, items, new))
  BY <1>1, <1>3, MovedIs DEF Sound
<1> HIDE DEF new
<1> QED
  BY <1>2, <1>4, CheckedSound

LEMMA RemoveTrackSound ==
  ASSUME NEW p, Sound(p), NEW k \in DOMAIN p.tracks, NEW policy
  PROVE  Sound(RemoveTrack(p, k, policy))
<1> DEFINE own == {c \in p.clips : c.track = k}
           others == IF policy = "clips and linked" THEN UNION {Linked(p, c) : c \in own} ELSE {}
           rest == DOMAIN p.tracks \ {k}
           q == [tracks |-> [j \in rest |-> p.tracks[j]], clips |-> p.clips \ (own \union others)]
<1>1. RemoveTrack(p, k, policy) = p \/ RemoveTrack(p, k, policy) = q
  BY DEF RemoveTrack
<1>2. IsProject(q)
  <2>0. q.clips \in SUBSET p.clips
    OBVIOUS
  <2>1. IsFiniteSet(q.clips) /\ q.clips \subseteq Clip
    BY <2>0, OwnFits DEF Fits, Sound
  <2>2. \A c \in q.clips : c.track \in DOMAIN q.tracks
    BY DEF Sound, IsProject
  <2>3. /\ q.tracks \in [DOMAIN q.tracks -> [audio : BOOLEAN, locked : BOOLEAN]]
        /\ DOMAIN q.tracks \subseteq Names
    BY DEF Sound, IsProject
  <2>4. q = [tracks |-> q.tracks, clips |-> q.clips]
    BY Zenon
  <2> HIDE DEF q
  <2> QED
    BY <2>0, <2>1, <2>2, <2>3, <2>4 DEF IsProject
<1>3. q.clips \subseteq p.clips /\ \A c \in q.clips : Accepts(p, c) => Accepts(q, c)
  BY DEF Accepts, Sound, IsProject
<1> HIDE DEF q
<1>4. Valid(q)
  BY <1>3 DEF Sound, Valid
<1> QED
  BY <1>1, <1>2, <1>4 DEF Sound

LEMMA PairFinite ==
  ASSUME NEW a, NEW b PROVE IsFiniteSet({a, b}) /\ IsFiniteSet({a})
<1>1. IsFiniteSet({a}) /\ IsFiniteSet({b})
  BY FS_Singleton
<1>2. {a, b} = {a} \union {b}
  OBVIOUS
<1>3. IsFiniteSet({a} \union {b})
  BY <1>1, FS_Union
<1> QED
  BY <1>1, <1>2, <1>3

\* The parts of a clip that insert and overwrite leave.
LEMMA LongEnoughIs ==
  ASSUME NEW clips PROVE LongEnough(clips) \subseteq clips
BY DEF LongEnough

LEMMA OpenedIs ==
  ASSUME NEW c \in Clip, NEW at \in Int, NEW length \in Int
  PROVE  /\ IsFiniteSet(Opened(c, at, length))
         /\ \A d \in Opened(c, at, length) : d \in Clip /\ d.track = c.track
<1> DEFINE tail == TailOf(c, at, "insert-tail")  x == tail.start + length
           late == [tail EXCEPT !.start = x]
<1>1. HeadOf(c, at) \in Clip /\ HeadOf(c, at).track = c.track
  BY HeadIs
<1>2. tail \in Clip /\ tail.track = c.track
  BY EditorAssumption, TailIs
<1>3. late \in Clip /\ late.track = c.track
  <2>1. x \in Int
    BY <1>2, ClipFields
  <2> HIDE DEF x, tail
  <2> QED
    BY <1>2, <2>1 DEF Clip
<1> DEFINE y == c.start + length  moved == [c EXCEPT !.start = y]
<1>4. moved \in Clip /\ moved.track = c.track
  <2>1. y \in Int
    BY ClipFields
  <2> HIDE DEF y
  <2> QED
    BY <2>1 DEF Clip
<1>5. IsFiniteSet({moved}) /\ IsFiniteSet({c}) /\ IsFiniteSet(LongEnough({HeadOf(c, at), late}))
  <2>1. IsFiniteSet({HeadOf(c, at), late})
    BY PairFinite
  <2>2. LongEnough({HeadOf(c, at), late}) \in SUBSET {HeadOf(c, at), late}
    BY DEF LongEnough
  <2>3. IsFiniteSet(LongEnough({HeadOf(c, at), late}))
    BY <2>1, <2>2, FS_Subset
  <2> QED
    BY <2>3, PairFinite
<1>6. Opened(c, at, length) \in {{moved}, {c}, LongEnough({HeadOf(c, at), late})}
  BY DEF Opened
<1> HIDE DEF tail, late, moved, x, y
<1>7. \A d \in LongEnough({HeadOf(c, at), late}) : d \in {HeadOf(c, at), late}
  BY DEF LongEnough
<1> QED
  BY <1>1, <1>3, <1>4, <1>5, <1>6, <1>7

LEMMA ClearedIs ==
  ASSUME NEW c \in Clip, NEW start \in Int, NEW end \in Int
  PROVE  /\ IsFiniteSet(Cleared(c, start, end))
         /\ \A d \in Cleared(c, start, end) : d \in Clip /\ d.track = c.track
<1> DEFINE both == {HeadOf(c, start), TailOf(c, end, "overwrite-tail")}
<1>1. HeadOf(c, start) \in Clip /\ HeadOf(c, start).track = c.track
  BY HeadIs
<1>2. /\ TailOf(c, end, "overwrite-tail") \in Clip
      /\ TailOf(c, end, "overwrite-tail").track = c.track
  BY EditorAssumption, TailIs
<1>3. IsFiniteSet(both)
  BY PairFinite
<1>4. Cleared(c, start, end) = {c} \/ Cleared(c, start, end) \in SUBSET both
  BY DEF Cleared, LongEnough
<1>5. \A d \in both : d \in Clip /\ d.track = c.track
  BY <1>1, <1>2
<1> HIDE DEF both
<1>6. CASE Cleared(c, start, end) = {c}
  BY <1>6, FS_Singleton
<1>7. CASE Cleared(c, start, end) \in SUBSET both
  BY <1>3, <1>5, <1>7, FS_Subset
<1> QED
  BY <1>4, <1>6, <1>7

LEMMA InsertSound ==
  ASSUME NEW p, Sound(p), NEW c \in Clip, c.track \in DOMAIN p.tracks, NEW mode
  PROVE  Sound(InsertClip(p, c, mode).project)
<1> DEFINE own == OnTrack(p, c.track)
           f == [d \in own |-> IF mode = "insert" THEN Opened(d, c.start, c.length)
                               ELSE Cleared(d, c.start, EndOf(c))]
           q == Swapped(p, own, (UNION Images(f, own)) \union {c})
<1>1. UNION Images(f, own)
        = UNION {IF mode = "insert" THEN Opened(d, c.start, c.length)
                 ELSE Cleared(d, c.start, EndOf(c)) : d \in own}
  BY DEF Images
<1>2. InsertClip(p, c, mode).project = p \/ InsertClip(p, c, mode).project = Checked(p, q)
  BY <1>1 DEF InsertClip, Refused, Tried
<1>3. IsProject(p) /\ own \in SUBSET p.clips /\ own \subseteq Clip /\ IsFiniteSet(own)
  BY OnTrackIs DEF Sound
<1>4. ASSUME NEW d \in own PROVE Fits(p, f[d])
  <2>1. d \in Clip /\ d.track \in DOMAIN p.tracks
    BY <1>3 DEF IsProject
  <2>2. c.start \in Int /\ c.length \in Int /\ EndOf(c) \in Int
    BY ClipFields
  <2>3. Fits(p, Opened(d, c.start, c.length))
    BY <2>1, <2>2, OpenedIs DEF Fits
  <2>4. Fits(p, Cleared(d, c.start, EndOf(c)))
    BY <2>1, <2>2, ClearedIs DEF Fits
  <2> QED
    BY <2>3, <2>4
<1> HIDE DEF f, own
<1>5. Fits(p, (UNION Images(f, own)) \union {c})
  <2> DEFINE parts == UNION Images(f, own)
  <2>1. Fits(p, parts)
    BY <1>3, <1>4, UnionsFit
  <2>2. Fits(p, {c})
    BY OneFits
  <2> HIDE DEF parts
  <2>3. Fits(p, parts \union {c})
    BY <2>1, <2>2, UnionFits
  <2> QED
    BY <2>3 DEF parts
<1>6. IsProject(q)
  BY <1>3, <1>5, SwappedIs
<1> HIDE DEF q
<1> QED
  BY <1>2, <1>6, CheckedSound

LEMMA LiftSound ==
  ASSUME NEW p, Sound(p), NEW id, NEW linked PROVE Sound(Lift(p, id, linked).project)
<1> DEFINE q == Swapped(p, {c \in Chosen(p, id, linked) : c.track \in Unlocked(p)}, {})
<1>1. Lift(p, id, linked).project = p \/ Lift(p, id, linked).project = q
  BY DEF Lift, Tried
<1>2. Sound(q)
  BY PartSound
<1> QED
  BY <1>1, <1>2

LEMMA LiftIs ==
  ASSUME NEW p, Sound(p), NEW id, NEW linked
  PROVE  Lift(p, id, linked).project.tracks = p.tracks /\ IsProject(Lift(p, id, linked).project)
<1> DEFINE q == Swapped(p, {c \in Chosen(p, id, linked) : c.track \in Unlocked(p)}, {})
<1>1. Lift(p, id, linked).project = p \/ Lift(p, id, linked).project = q
  BY DEF Lift, Tried
<1>2. q.tracks = p.tracks
  BY SwappedIs DEF Sound
<1>3. Sound(Lift(p, id, linked).project)
  BY LiftSound
<1> HIDE DEF q
<1> QED
  BY <1>1, <1>2, <1>3 DEF Sound

LEMMA ShiftedIs ==
  ASSUME NEW p, IsProject(p), NEW tracks, NEW from, NEW by \in Int
  PROVE  IsProject(Shifted(p, tracks, from, by))
<1> DEFINE moved == {c \in p.clips : c.track \in tracks /\ c.start >= from}
<1>1. moved \in SUBSET p.clips
  OBVIOUS
<1>2. Shifted(p, tracks, from, by) = Swapped(p, moved, {[c EXCEPT !.start = @ + by] : c \in moved})
  BY DEF Shifted
<1> HIDE DEF moved
<1>3. IsProject(Swapped(p, moved, {[c EXCEPT !.start = @ + by] : c \in moved}))
  BY <1>1, MovedIs
<1> QED
  BY <1>2, <1>3

LEMMA RippleDeleteSound ==
  ASSUME NEW p, Sound(p), NEW id \in IdsOf(p.clips), NEW linked
  PROVE  Sound(RippleDelete(p, id, linked).project)
<1> DEFINE c == ClipOf(p, id)  q == Lift(p, id, linked).project
           s == Shifted(q, Unlocked(p), EndOf(c), - c.length)
<1>1. RippleDelete(p, id, linked).project = p \/ RippleDelete(p, id, linked).project = Checked(p, s)
  BY DEF RippleDelete, Tried
<1>2. - c.length \in Int
  <2>1. c \in Clip
    BY ClipOfIs DEF Sound, IsProject
  <2> QED
    BY <2>1, ClipFields
<1>3. IsProject(s)
  <2>1. IsProject(q)
    BY LiftIs
  <2> HIDE DEF q, c
  <2> QED
    BY <1>2, <2>1, ShiftedIs
<1> HIDE DEF s
<1> QED
  BY <1>1, <1>3, CheckedSound

LEMMA CloseGapSound ==
  ASSUME NEW p, Sound(p), NEW k, NEW start \in Int, NEW end \in Int
  PROVE  Sound(CloseGap(p, k, start, end).project)
<1> DEFINE s == Shifted(p, Unlocked(p), end, start - end)
<1>1. CloseGap(p, k, start, end).project = p \/ CloseGap(p, k, start, end).project = Checked(p, s)
  BY DEF CloseGap, Tried, Refused
<1>2. IsProject(s)
  <2>1. start - end \in Int
    OBVIOUS
  <2> QED
    BY <2>1, ShiftedIs DEF Sound
<1> HIDE DEF s
<1> QED
  BY <1>1, <1>2, CheckedSound

LEMMA RollSound ==
  ASSUME NEW p, Sound(p), NEW left \in IdsOf(p.clips), NEW right \in IdsOf(p.clips), NEW cut \in Int
  PROVE  Sound(Roll(p, left, right, cut).project)
<1> DEFINE l == ClipOf(p, left)  r == ClipOf(p, right)
           new == {HeadOf(l, cut), Trimmed(r, cut - r.start, r.start - cut)}
           q == Swapped(p, {l, r}, new)
<1>1. Roll(p, left, right, cut).project = p \/ Roll(p, left, right, cut).project = Checked(p, q)
  BY DEF Roll, Tried, Refused
<1>2. /\ l \in Clip /\ l.track \in DOMAIN p.tracks /\ r \in Clip /\ r.track \in DOMAIN p.tracks
  BY ClipOfIs DEF Sound, IsProject
<1>3. cut - r.start \in Int /\ r.start - cut \in Int
  BY <1>2, ClipFields
<1> HIDE DEF l, r
<1>4. HeadOf(l, cut) \in Clip /\ HeadOf(l, cut).track \in DOMAIN p.tracks
  BY <1>2, HeadIs
<1>5. /\ Trimmed(r, cut - r.start, r.start - cut) \in Clip
      /\ Trimmed(r, cut - r.start, r.start - cut).track \in DOMAIN p.tracks
  BY <1>2, <1>3, TrimmedIs
<1>6. Fits(p, new)
  BY <1>4, <1>5, PairFinite DEF Fits
<1> HIDE DEF new
<1>7. IsProject(q)
  BY <1>6, SwappedIs DEF Sound
<1> HIDE DEF q
<1> QED
  BY <1>1, <1>7, CheckedSound

LEMMA SlipSound ==
  ASSUME NEW p, Sound(p), NEW id \in IdsOf(p.clips), NEW by \in Int
  PROVE  Sound(Slip(p, id, by).project)
<1> DEFINE c == ClipOf(p, id)  x == c.from + by  new == [c EXCEPT !.from = x]
           f == [d \in {c} |-> new]
<1>1. c \in p.clips /\ c \in Clip
  BY ClipOfIs DEF Sound, IsProject
<1>2. \/ Slip(p, id, by).project = p
      \/ /\ ~ (new.from < 0 \/ new.from + new.length > new.until)
         /\ Slip(p, id, by).project = Swapped(p, {c}, {new})
  BY DEF Slip, Tried, Refused
<1>3. x \in Int
  BY <1>1, ClipFields
<1>4. {new} = Images(f, {c})
  BY DEF Images
<1> HIDE DEF x, c
<1>5. /\ new \in Clip /\ new.id = c.id /\ new.track = c.track /\ new.audio = c.audio
      /\ new.start = c.start /\ new.length = c.length /\ new.until = c.until /\ new.from = x
  BY <1>1, <1>3 DEF Clip
<1>6. f[c] = new
  OBVIOUS
<1> HIDE DEF f, new
<1>7. ASSUME ~ (new.from < 0 \/ new.from + new.length > new.until)
      PROVE  Sound(Swapped(p, {c}, {new}))
  <2>1. new.from >= 0 /\ new.from + new.length <= new.until
    BY <1>5, <1>7, ClipFields
  <2>2. Sound(Swapped(p, {c}, Images(f, {c})))
    <3>1. {c} \in SUBSET p.clips
      BY <1>1
    <3>2. \A d \in {c} : /\ f[d] \in Clip /\ f[d].id = d.id /\ f[d].track = d.track
                         /\ f[d].audio = d.audio /\ f[d].start = d.start /\ f[d].length = d.length
                         /\ f[d].from >= 0 /\ f[d].from + f[d].length <= f[d].until
      BY <1>5, <1>6, <2>1
    <3> QED
      BY <3>1, <3>2, InPlaceSound
  <2> QED
    BY <1>4, <2>2
<1> QED
  BY <1>2, <1>7

LEMMA SlideSound ==
  ASSUME NEW p, Sound(p), NEW id \in IdsOf(p.clips), NEW by \in Int
  PROVE  Sound(Slide(p, id, by).project)
<1> DEFINE c == ClipOf(p, id)
           early == {d \in OnTrack(p, c.track) : EndOf(d) = c.start}
           late  == {d \in OnTrack(p, c.track) : d.start = EndOf(c)}
           f == [d \in early |-> HeadOf(d, EndOf(d) + by)]
           g == [d \in late |-> Trimmed(d, by, - by)]
           x == c.start + by
           new == Images(f, early) \union Images(g, late) \union {[c EXCEPT !.start = x]}
           q == Swapped(p, early \union {c} \union late, new)
<1>1. c \in p.clips /\ c \in Clip /\ c.track \in DOMAIN p.tracks /\ IsProject(p)
  BY ClipOfIs DEF Sound, IsProject
<1>2. /\ Images(f, early) = {HeadOf(d, EndOf(d) + by) : d \in early}
      /\ Images(g, late) = {Trimmed(d, by, - by) : d \in late}
  BY DEF Images
<1>3. Slide(p, id, by).project = p \/ Slide(p, id, by).project = Checked(p, q)
  BY <1>2 DEF Slide, Tried, Refused
<1>4. x \in Int
  BY <1>1, ClipFields
<1>5. early \in SUBSET p.clips /\ late \in SUBSET p.clips
  BY DEF OnTrack
<1> HIDE DEF x, c
<1>6. Fits(p, {[c EXCEPT !.start = x]})
  <2>1. [c EXCEPT !.start = x] \in Clip /\ [c EXCEPT !.start = x].track = c.track
    BY <1>1, <1>4 DEF Clip
  <2> QED
    BY <1>1, <2>1, OneFits
<1>7. ASSUME NEW d \in early PROVE f[d] \in Clip /\ f[d].track \in DOMAIN p.tracks
  <2>1. d \in Clip /\ d.track \in DOMAIN p.tracks
    BY <1>1, <1>5 DEF IsProject
  <2>2. EndOf(d) + by \in Int
    BY <2>1, ClipFields
  <2> QED
    BY <2>1, <2>2, HeadIs
<1>8. ASSUME NEW d \in late PROVE g[d] \in Clip /\ g[d].track \in DOMAIN p.tracks
  <2>1. d \in Clip /\ d.track \in DOMAIN p.tracks
    BY <1>1, <1>5 DEF IsProject
  <2>2. - by \in Int
    OBVIOUS
  <2> QED
    BY <2>1, <2>2, TrimmedIs
<1> HIDE DEF f, g, early, late
<1>9. Fits(p, Images(f, early)) /\ Fits(p, Images(g, late))
  BY <1>1, <1>5, <1>7, <1>8, MappedIs
<1>10. Fits(p, new)
  <2>1. Fits(p, Images(f, early) \union Images(g, late))
    BY <1>9, UnionFits
  <2> QED
    BY <1>6, <2>1, UnionFits
<1> HIDE DEF new
<1>11. IsProject(q)
  BY <1>1, <1>10, SwappedIs
<1> HIDE DEF q
<1> QED
  BY <1>3, <1>11, CheckedSound


\* The bounds of finitely many numbers.
HasBounds(S) ==
  /\ \E x \in S : \A y \in S : x <= y
  /\ \E x \in S : \A y \in S : x >= y

LEMMA FiniteBounds ==
  ASSUME NEW S, S \subseteq Int, IsFiniteSet(S), S # {} PROVE HasBounds(S)
<1> DEFINE Counter(T) == T \subseteq Int /\ IsFiniteSet(T) /\ T # {} /\ ~ HasBounds(T)
           Bad == {n \in Nat : \E T \in SUBSET Int : Counter(T) /\ Cardinality(T) = n}
<1>1. SUFFICES ASSUME Counter(S) PROVE FALSE
  OBVIOUS
<1>2. Cardinality(S) \in Bad
  <2>1. Cardinality(S) \in Nat
    BY FS_CardinalityType
  <2> QED
    BY <1>1, <2>1
<1>3. Bad \in SUBSET Nat
  OBVIOUS
<1>4. \A n \in Bad : \E T \in SUBSET Int : Counter(T) /\ Cardinality(T) = n
  OBVIOUS
<1>5. \A T \in SUBSET Int : Counter(T) /\ Cardinality(T) \in Nat => Cardinality(T) \in Bad
  OBVIOUS
<1> HIDE DEF Bad
<1>6. PICK n \in Bad : \A m \in Bad : n <= m
  BY <1>2, <1>3, LeastNumber
<1>7. PICK T \in SUBSET Int : Counter(T) /\ Cardinality(T) = n
  BY <1>4
<1>8. PICK x \in T : TRUE
  BY <1>7
<1> DEFINE R == T \ {x}
<1>9. R \in SUBSET Int /\ IsFiniteSet(R) /\ T = R \union {x} /\ x \in Int
  BY <1>7, <1>8, FS_RemoveElement
<1>10. Cardinality(R) \in Nat /\ Cardinality(R) < n
  <2>1. Cardinality(R) = Cardinality(T) - 1 /\ Cardinality(R) \in Nat /\ Cardinality(T) \in Nat
    BY <1>7, <1>8, <1>9, FS_RemoveElement, FS_CardinalityType
  <2> QED
    BY <1>7, <2>1
<1> HIDE DEF R
<1>11. ~ Counter(R)
  BY <1>3, <1>5, <1>6, <1>9, <1>10
<1>12. CASE R = {}
  <2>1. T = {x}
    BY <1>9, <1>12
  <2> QED
    BY <1>7, <1>9, <2>1 DEF HasBounds
<1>13. CASE R # {}
  <2>1. HasBounds(R)
    BY <1>9, <1>11, <1>13
  <2>2. PICK a \in R : \A y \in R : a <= y
    BY <2>1 DEF HasBounds
  <2>3. PICK b \in R : \A y \in R : b >= y
    BY <2>1 DEF HasBounds
  <2>4. \E z \in T : \A y \in T : z <= y
    <3>1. CASE a <= x
      BY <1>9, <2>2, <3>1
    <3>2. CASE x < a
      BY <1>9, <2>2, <3>2
    <3> QED
      BY <1>9, <3>1, <3>2
  <2>5. \E z \in T : \A y \in T : z >= y
    <3>1. CASE b >= x
      BY <1>9, <2>3, <3>1
    <3>2. CASE x > b
      BY <1>9, <2>3, <3>2
    <3> QED
      BY <1>9, <3>1, <3>2
  <2> QED
    BY <1>7, <2>4, <2>5 DEF HasBounds
<1> QED
  BY <1>12, <1>13

LEMMA LeastOf ==
  ASSUME NEW S, S \subseteq Int, IsFiniteSet(S), S # {}
  PROVE  Min(S) \in S /\ Min(S) \in Int /\ \A y \in S : Min(S) <= y
<1>1. \E x \in S : \A y \in S : x <= y
  BY FiniteBounds DEF HasBounds
<1>2. Min(S) \in S /\ \A y \in S : Min(S) <= y
  BY <1>1 DEF Min
<1> QED
  BY <1>2

LEMMA GreatestOf ==
  ASSUME NEW S, S \subseteq Int, IsFiniteSet(S), S # {}
  PROVE  Max(S) \in S /\ Max(S) \in Int /\ \A y \in S : Max(S) >= y
<1>1. \E x \in S : \A y \in S : x >= y
  BY FiniteBounds DEF HasBounds
<1>2. Max(S) \in S /\ \A y \in S : Max(S) >= y
  BY <1>1 DEF Max
<1> QED
  BY <1>2

\* The range some clips of a project take.
LEMMA RangeOf ==
  ASSUME NEW clips, clips \subseteq Clip, IsFiniteSet(clips), clips # {}
  PROVE  LET first == Min({c.start : c \in clips})  end == Max({EndOf(c) : c \in clips})
         IN /\ first \in Int /\ end \in Int
            /\ \A c \in clips : first <= c.start /\ EndOf(c) <= end
            /\ \E c \in clips : c.start = first
            /\ \E c \in clips : EndOf(c) = end
<1> DEFINE f == [c \in clips |-> c.start]  g == [c \in clips |-> EndOf(c)]
           S == {c.start : c \in clips}  E == {EndOf(c) : c \in clips}
<1>1. S = Images(f, clips) /\ E = Images(g, clips)
  BY DEF Images
<1>2. \A c \in clips : c.start \in Int /\ EndOf(c) \in Int
  BY ClipFields
<1>3. S \subseteq Int /\ E \subseteq Int /\ S # {} /\ E # {}
  BY <1>2
<1>4. IsFiniteSet(S) /\ IsFiniteSet(E)
  <2> HIDE DEF S, E, f, g
  <2> QED
    BY <1>1, ImageFinite
<1>5. (\A c \in clips : c.start \in S /\ EndOf(c) \in E)
  OBVIOUS
<1>6. (\A x \in S : \E c \in clips : c.start = x) /\ (\A x \in E : \E c \in clips : EndOf(c) = x)
  OBVIOUS
<1>9. Min(S) = Min({c.start : c \in clips}) /\ Max(E) = Max({EndOf(c) : c \in clips})
  OBVIOUS
<1> HIDE DEF S, E
<1>7. Min(S) \in S /\ Min(S) \in Int /\ \A y \in S : Min(S) <= y
  BY <1>3, <1>4, LeastOf
<1>8. Max(E) \in E /\ Max(E) \in Int /\ \A y \in E : Max(E) >= y
  BY <1>3, <1>4, GreatestOf
<1>10. \A c \in clips : Min(S) <= c.start /\ EndOf(c) <= Max(E)
  BY <1>2, <1>5, <1>7, <1>8
<1> QED
  BY <1>6, <1>7, <1>8, <1>9, <1>10, Zenon

LEMMA NamedClips ==
  ASSUME NEW p, IsProject(p), NEW ids, ids \subseteq IdsOf(p.clips), ids # {}
  PROVE  LET clips == {c \in p.clips : c.id \in ids}
         IN clips \subseteq p.clips /\ clips \subseteq Clip /\ IsFiniteSet(clips) /\ clips # {}
<1> DEFINE clips == {c \in p.clips : c.id \in ids}
<1>1. clips \in SUBSET p.clips
  OBVIOUS
<1>2. clips # {}
  BY DEF IdsOf
<1> HIDE DEF clips
<1>3. clips \subseteq p.clips /\ clips \subseteq Clip /\ IsFiniteSet(clips)
  BY <1>1, OwnFits DEF Fits
<1> QED
  BY <1>2, <1>3 DEF clips

LEMMA CompoundSound ==
  ASSUME NEW p, Sound(p), NEW ids, ids \subseteq IdsOf(p.clips), ids # {}, NEW k \in DOMAIN p.tracks
  PROVE  Sound(MakeCompound(p, ids, k).project)
<1> DEFINE clips == {c \in p.clips : c.id \in ids}
           first == Min({c.start : c \in clips})
           length == Max({EndOf(c) : c \in clips}) - first
           clip == [id |-> CompoundId, track |-> k, audio |-> FALSE, start |-> first,
                    length |-> length, from |-> 0, until |-> length, media |-> "compound",
                    group |-> NoGroup, locked |-> FALSE]
           q == Swapped(p, clips, {clip})
<1>1. MakeCompound(p, ids, k).project = p \/ MakeCompound(p, ids, k).project = Checked(p, q)
  BY DEF MakeCompound, Tried, Refused
<1>2. first \in Int /\ length \in Int
  <2>1. clips \subseteq Clip /\ IsFiniteSet(clips) /\ clips # {}
    BY NamedClips DEF Sound
  <2> HIDE DEF clips
  <2>2. Min({c.start : c \in clips}) \in Int /\ Max({EndOf(c) : c \in clips}) \in Int
    BY <2>1, RangeOf
  <2> QED
    BY <2>2
<1> HIDE DEF first, length
<1>3. clip \in Clip /\ clip.track = k
  <2>1. k \in Names /\ CompoundId \in Seq(Names) /\ "compound" \in Names /\ NoGroup \in Names
    <3>1. k \in Names
      BY DEF Sound, IsProject
    <3>2. "compound" \in Names /\ NoGroup \in Names
      BY EditorAssumption, MultitrackAssumption
    <3> QED
      BY <3>1, <3>2 DEF CompoundId
  <2> HIDE DEF NoGroup, CompoundId
  <2> QED
    BY <1>2, <2>1 DEF Clip
<1> HIDE DEF clip, clips
<1>4. IsProject(q)
  BY <1>3, OneFits, SwappedIs DEF Sound
<1> HIDE DEF q
<1> QED
  BY <1>1, <1>4, CheckedSound

LEMMA NestedIs ==
  ASSUME NEW p, IsProject(p), NEW ids, ids \subseteq IdsOf(p.clips), ids # {}
  PROVE  Nested(p, ids) \subseteq Clip /\ IsFiniteSet(Nested(p, ids))
<1> DEFINE clips == {c \in p.clips : c.id \in ids}
           first == Min({c.start : c \in clips})
           f == [c \in clips |-> [c EXCEPT !.start = @ - first]]
<1>1. clips \subseteq Clip /\ IsFiniteSet(clips) /\ clips # {}
  BY NamedClips
<1>2. Nested(p, ids) = Images(f, clips)
  BY DEF Nested, Images
<1>3. first \in Int
  <2> HIDE DEF clips
  <2> QED
    BY <1>1, RangeOf
<1> HIDE DEF clips, first
<1>4. ASSUME NEW c \in clips PROVE f[c] \in Clip
  <2>1. PICK x \in Int : x = c.start - first
    BY <1>1, <1>3, ClipFields
  <2>2. f[c] = [c EXCEPT !.start = x]
    BY <2>1
  <2> QED
    BY <1>1, <2>1, <2>2 DEF Clip
<1> HIDE DEF f
<1>5. IsFiniteSet(Images(f, clips))
  BY <1>1, ImageFinite
<1> QED
  BY <1>2, <1>4, <1>5 DEF Images

LEMMA BreakSound ==
  ASSUME NEW p, Sound(p), NEW nested, nested \subseteq Clip, IsFiniteSet(nested),
         NEW id \in IdsOf(p.clips), NEW k \in DOMAIN p.tracks
  PROVE  Sound(BreakApart(p, nested, id, k).project)
<1> DEFINE rest == Swapped(p, {ClipOf(p, id)}, {})
           Home(d) == IF d.track \in Unlocked(p) THEN d.track ELSE k
           f == [d \in nested |-> [d EXCEPT !.start = @ + ClipOf(p, id).start, !.track = Home(d)]]
           q == Swapped(rest, {}, Images(f, nested))
<1>1. Images(f, nested)
        = {[d EXCEPT !.start = @ + ClipOf(p, id).start, !.track = Home(d)] : d \in nested}
  BY DEF Images
<1>2. BreakApart(p, nested, id, k).project = p \/ BreakApart(p, nested, id, k).project = Checked(p, q)
  BY <1>1 DEF BreakApart, Tried, Refused
<1>3. Sound(rest) /\ rest.tracks = p.tracks /\ ClipOf(p, id) \in Clip
  <2>1. rest.tracks = p.tracks /\ ClipOf(p, id) \in Clip
    BY SwappedIs, ClipOfIs DEF Sound, IsProject
  <2>2. Sound(rest)
    BY PartSound
  <2> QED
    BY <2>1, <2>2
<1>4. ASSUME NEW d \in nested PROVE f[d] \in Clip /\ f[d].track \in DOMAIN rest.tracks
  <2>1. PICK x \in Int : x = d.start + ClipOf(p, id).start
    BY <1>3, ClipFields
  <2>2. PICK j \in DOMAIN p.tracks : j = Home(d)
    BY DEF Unlocked
  <2>3. f[d] = [d EXCEPT !.start = x, !.track = j]
    BY <2>1, <2>2
  <2>4. j \in Names /\ d \in Clip
    BY DEF Sound, IsProject
  <2>5. [d EXCEPT !.start = x, !.track = j] \in Clip /\ [d EXCEPT !.start = x, !.track = j].track = j
    BY <2>1, <2>4 DEF Clip
  <2> HIDE DEF f, rest
  <2> QED
    BY <1>3, <2>2, <2>3, <2>5
<1> HIDE DEF f, rest
<1>5. Fits(rest, Images(f, nested))
  BY <1>4, ImageFits
<1>6. IsProject(q)
  BY <1>3, <1>5, SwappedIs DEF Sound
<1> HIDE DEF q
<1> QED
  BY <1>2, <1>6, CheckedSound

\* The projects there are, and what holds in every state of the editor: its
\* project and those of its history are valid, a transaction has one base, and
\* before the first call of the editor there is no history.
Sounds ==
  {p \in [tracks : UNION {[K -> [audio : BOOLEAN, locked : BOOLEAN]] : K \in SUBSET Names},
          clips : SUBSET Clip] : Sound(p)}
Nests(clips) == clips \subseteq Clip /\ IsFiniteSet(clips)
EditorInv ==
  /\ Sound(project)
  /\ undo \in Seq(Sounds) /\ redo \in Seq(Sounds) /\ base \in Seq(Sounds)
  /\ Len(base) <= 1
  /\ Nests(compound)
  /\ opened \in BOOLEAN
  /\ ~ opened => undo = <<>> /\ redo = <<>> /\ base = <<>>

LEMMA SoundsIs ==
  ASSUME NEW p PROVE Sound(p) <=> p \in Sounds
<1>1. ASSUME Sound(p) PROVE p \in Sounds
  <2>1. p.tracks \in UNION {[K -> [audio : BOOLEAN, locked : BOOLEAN]] : K \in SUBSET Names}
    BY <1>1 DEF Sound, IsProject
  <2>2. p.clips \in SUBSET Clip /\ p = [tracks |-> p.tracks, clips |-> p.clips]
    BY <1>1 DEF Sound, IsProject
  <2> DEFINE T == UNION {[K -> [audio : BOOLEAN, locked : BOOLEAN]] : K \in SUBSET Names}
             C == SUBSET Clip
  <2> HIDE DEF T, C
  <2>3. p.tracks \in T /\ p.clips \in C
    BY <2>1, <2>2 DEF T, C
  <2>4. p \in [tracks : T, clips : C]
    BY <2>2, <2>3, Zenon
  <2> QED
    BY <1>1, <2>4 DEF Sounds, T, C
<1> QED
  BY <1>1 DEF Sounds

LEMMA AppendSounds ==
  ASSUME NEW s \in Seq(Sounds), NEW p, Sound(p)
  PROVE  Append(s, p) \in Seq(Sounds) /\ Recent(Append(s, p)) \in Seq(Sounds)
<1>1. Append(s, p) \in Seq(Sounds) /\ Append(s, p) # <<>>
  BY SoundsIs, AppendProperties
<1> HIDE DEF Recent
<1>2. Tail(Append(s, p)) \in Seq(Sounds)
  BY <1>1
<1> QED
  BY <1>1, <1>2 DEF Recent

LEMMA BaseSound ==
  ASSUME NEW s \in Seq(Sounds), s # <<>>, Len(s) <= 1
  PROVE  Sound(s[1]) /\ Len(s) = 1 /\ s = <<s[1]>>
<1>1. Len(s) = 1
  <2>1. Len(s) \in Nat /\ Len(s) # 0
    BY EmptySeq
  <2> QED
    BY <2>1
<1>2. s[1] \in Sounds
  BY <1>1
<1>3. s = <<s[1]>>
  BY <1>1
<1> QED
  BY <1>1, <1>2, <1>3, SoundsIs

LEMMA InitSound == EditorInit => EditorInv
<1> SUFFICES ASSUME EditorInit PROVE EditorInv
  OBVIOUS
<1>1. Sound(project)
  BY EditorAssumption DEF EditorInit, Sound
<1>2. undo \in Seq(Sounds) /\ redo \in Seq(Sounds) /\ base \in Seq(Sounds) /\ Len(base) <= 1
  BY DEF EditorInit
<1>3. Nests(compound)
  BY FS_EmptySet DEF EditorInit, Nests
<1> QED
  BY <1>1, <1>2, <1>3 DEF EditorInit, EditorInv

LEMMA EditKeeps ==
  ASSUME EditorInv, NEW e, NEW r, Sound(r.project), Edits(e, r), Nests(compound')
  PROVE  EditorInv'
<1>1. Sound(project')
  BY DEF Edits
<1>2. undo' \in Seq(Sounds) /\ redo' \in Seq(Sounds)
  <2>1. CASE base # <<>>
    BY <2>1 DEF Edits, Recorded, EditorInv
  <2>2. CASE base = <<>>
    <3>1. Recent(Append(undo, project)) \in Seq(Sounds)
      BY AppendSounds DEF EditorInv
    <3> QED
      BY <2>2, <3>1 DEF Edits, Recorded
  <2> QED
    BY <2>1, <2>2
<1>3. base' = base /\ opened' = TRUE
  BY DEF Edits
<1> QED
  BY <1>1, <1>2, <1>3 DEF EditorInv

LEMMA PreparedKeeps ==
  ASSUME EditorInv, NEW e, NEW q, Sound(q), Prepare(e, q) PROVE EditorInv'
BY DEF EditorInv, Prepare

LEMMA NewClipIs ==
  ASSUME EditorInv, NEW k \in Tracks, NEW start \in Positions, NEW length \in Lengths
  PROVE  NewClip(k, start, length) \in Clip /\ NewClip(k, start, length).track = k
<1>1. k \in Names /\ project.tracks[k].audio \in BOOLEAN
  BY DEF EditorInv, Sound, IsProject, Tracks
<1>2. <<"new">> \in Seq(Names) /\ "new" \in Names /\ NoGroup \in Names
  BY EditorAssumption, MultitrackAssumption
<1>3. start \in Int /\ length \in Int /\ length + 2 \in Int
  BY EditorAssumption
<1> HIDE DEF NoGroup
<1> QED
  BY <1>1, <1>2, <1>3 DEF NewClip, Clip

LEMMA PrepareTracksKeep == EditorInv /\ PrepareTracks => EditorInv'
<1> SUFFICES ASSUME EditorInv, PrepareTracks PROVE EditorInv'
  OBVIOUS
<1>1. ASSUME NEW audio \in BOOLEAN,
             Prepare([before |-> project, kind |-> "add track"], AddTrack(project, "added", audio))
      PROVE  EditorInv'
  <2>1. Sound(AddTrack(project, "added", audio))
    BY EditorAssumption, AddTrackSound DEF EditorInv
  <2> QED
    BY <1>1, <2>1, PreparedKeeps
<1>2. ASSUME NEW k \in Tracks, NEW policy,
             Prepare([before |-> project, kind |-> "remove track"], RemoveTrack(project, k, policy))
      PROVE  EditorInv'
  <2>1. Sound(RemoveTrack(project, k, policy))
    BY RemoveTrackSound DEF EditorInv, Tracks
  <2> QED
    BY <1>2, <2>1, PreparedKeeps
<1> QED
  BY <1>1, <1>2 DEF PrepareTracks

LEMMA PrepareClipsKeep == EditorInv /\ PrepareClips => EditorInv'
<1> SUFFICES ASSUME EditorInv, PrepareClips PROVE EditorInv'
  OBVIOUS
<1>0. Sound(project) /\ Positions \subseteq Int /\ Lengths \subseteq Int
  BY EditorAssumption DEF EditorInv
<1>1. ASSUME NEW k \in Tracks, NEW start \in Positions, NEW length \in Lengths, NEW e,
             Prepare(e, AddClip(project, NewClip(k, start, length)))
      PROVE  EditorInv'
  <2>1. Sound(AddClip(project, NewClip(k, start, length)))
    BY <1>0, NewClipIs, AddClipSound
  <2> QED
    BY <1>1, <2>1, PreparedKeeps
<1>2. ASSUME NEW id, NEW linked, NEW e, Prepare(e, RemoveClip(project, id, linked))
      PROVE  EditorInv'
  <2>1. Sound(RemoveClip(project, id, linked))
    BY <1>0, RemoveClipSound
  <2> QED
    BY <1>2, <2>1, PreparedKeeps
<1>3. ASSUME NEW id \in Ids, NEW k \in Tracks, NEW start \in Positions, NEW linked \in BOOLEAN,
             NEW e, Prepare(e, MoveClip(project, id, k, start, linked))
      PROVE  EditorInv'
  <2>1. Sound(MoveClip(project, id, k, start, linked))
    BY <1>0, MoveSound DEF Ids, Tracks
  <2> QED
    BY <1>3, <2>1, PreparedKeeps
<1>4. ASSUME NEW id \in Ids, NEW start \in Positions, NEW length \in Lengths,
             NEW linked \in BOOLEAN, NEW e,
             Prepare(e, TrimClip(project, id, start, start + length, linked))
      PROVE  EditorInv'
  <2>1. start + length \in Int /\ start \in Int
    BY <1>0
  <2>2. Sound(TrimClip(project, id, start, start + length, linked))
    BY <1>0, <2>1, TrimSound DEF Ids
  <2> QED
    BY <1>4, <2>2, PreparedKeeps
<1>5. ASSUME NEW id \in Ids, NEW at \in Positions, NEW linked \in BOOLEAN, NEW e,
             Prepare(e, SplitClip(project, id, at, "second", linked))
      PROVE  EditorInv'
  <2>1. Sound(SplitClip(project, id, at, "second", linked))
    BY <1>0, EditorAssumption, SplitSound DEF Ids
  <2> QED
    BY <1>5, <2>1, PreparedKeeps
<1>6. ASSUME NEW id \in Ids, NEW start \in Positions, NEW e, Prepare(e, RippleMove(project, id, start))
      PROVE  EditorInv'
  <2>1. Sound(RippleMove(project, id, start))
    BY <1>0, RippleMoveSound DEF Ids
  <2> QED
    BY <1>6, <2>1, PreparedKeeps
<1> QED
  BY <1>1, <1>2, <1>3, <1>4, <1>5, <1>6, Zenon DEF PrepareClips

LEMMA PrepareLinksKeep == EditorInv /\ PrepareLinks => EditorInv'
<1> SUFFICES ASSUME EditorInv, PrepareLinks PROVE EditorInv'
  OBVIOUS
<1>0. Sound(project)
  BY DEF EditorInv
<1>1. ASSUME NEW a \in Ids, NEW b \in Ids, NEW e, Prepare(e, LinkClips(project, a, b, "linked"))
      PROVE  EditorInv'
  <2>1. Sound(LinkClips(project, a, b, "linked"))
    BY <1>0, EditorAssumption, LinkSound DEF Ids
  <2> QED
    BY <1>1, <2>1, PreparedKeeps
<1>2. ASSUME NEW group, NEW e, Prepare(e, UnlinkGroup(project, group)) PROVE EditorInv'
  <2>1. Sound(UnlinkGroup(project, group))
    BY <1>0, UnlinkSound
  <2> QED
    BY <1>2, <2>1, PreparedKeeps
<1> QED
  BY <1>1, <1>2, Zenon DEF PrepareLinks

LEMMA EditsKeep ==
  EditorInv /\ (InsertOrOverwrite \/ LiftClip \/ RippleDeleteClip \/ CloseGapOnTrack
                  \/ RollClips \/ SlipClip \/ SlideClip \/ Compound \/ BreakCompound) => EditorInv'
<1> SUFFICES ASSUME EditorInv,
                    InsertOrOverwrite \/ LiftClip \/ RippleDeleteClip \/ CloseGapOnTrack
                      \/ RollClips \/ SlipClip \/ SlideClip \/ Compound \/ BreakCompound
             PROVE  EditorInv'
  OBVIOUS
<1>0. Sound(project) /\ Positions \subseteq Int /\ Deltas \subseteq Int /\ Nests(compound)
  BY EditorAssumption DEF EditorInv
<1>a. ASSUME NEW e, NEW r, Sound(r.project), Edit(e, r) PROVE EditorInv'
  <2>1. Nests(compound') /\ Edits(e, r)
    BY <1>0, <1>a DEF Edit
  <2> QED
    BY <1>a, <2>1, EditKeeps
<1>1. CASE InsertOrOverwrite
  <2>1. PICK k \in Tracks, start \in Positions, length \in Lengths, mode \in {"insert", "overwrite"} :
          LET c == NewClip(k, start, length)
          IN Edit([before |-> project, kind |-> mode, clip |-> c], InsertClip(project, c, mode))
    BY <1>1 DEF InsertOrOverwrite
  <2>2. Sound(InsertClip(project, NewClip(k, start, length), mode).project)
    BY <1>0, NewClipIs, InsertSound DEF Tracks
  <2> QED
    BY <1>a, <2>1, <2>2
<1>2. CASE LiftClip
  <2>1. PICK id \in Ids, linked \in BOOLEAN :
          Edit([before |-> project, kind |-> "lift", id |-> id, linked |-> linked],
               Lift(project, id, linked))
    BY <1>2 DEF LiftClip
  <2>2. Sound(Lift(project, id, linked).project)
    BY <1>0, LiftSound
  <2> QED
    BY <1>a, <2>1, <2>2
<1>3. CASE RippleDeleteClip
  <2>1. PICK id \in Ids, linked \in BOOLEAN :
          Edit([before |-> project, kind |-> "ripple delete", id |-> id, linked |-> linked],
               RippleDelete(project, id, linked))
    BY <1>3 DEF RippleDeleteClip
  <2>2. Sound(RippleDelete(project, id, linked).project)
    BY <1>0, RippleDeleteSound DEF Ids
  <2> QED
    BY <1>a, <2>1, <2>2
<1>4. CASE CloseGapOnTrack
  <2>1. PICK k \in Tracks, start \in Positions, end \in Positions :
          Edit([before |-> project, kind |-> "close gap", track |-> k, start |-> start, end |-> end],
               CloseGap(project, k, start, end))
    BY <1>4 DEF CloseGapOnTrack
  <2>2. Sound(CloseGap(project, k, start, end).project)
    BY <1>0, CloseGapSound
  <2> QED
    BY <1>a, <2>1, <2>2
<1>5. CASE RollClips
  <2>1. PICK l \in Ids, r \in Ids, cut \in Positions :
          Edit([before |-> project, kind |-> "roll", left |-> l, right |-> r, cut |-> cut],
               Roll(project, l, r, cut))
    BY <1>5 DEF RollClips
  <2>2. Sound(Roll(project, l, r, cut).project)
    BY <1>0, RollSound DEF Ids
  <2> QED
    BY <1>a, <2>1, <2>2
<1>6. CASE SlipClip
  <2>1. PICK id \in Ids, by \in Deltas :
          Edit([before |-> project, kind |-> "slip", id |-> id, by |-> by], Slip(project, id, by))
    BY <1>6 DEF SlipClip
  <2>2. Sound(Slip(project, id, by).project)
    BY <1>0, SlipSound DEF Ids
  <2> QED
    BY <1>a, <2>1, <2>2
<1>7. CASE SlideClip
  <2>1. PICK id \in Ids, by \in Deltas :
          Edit([before |-> project, kind |-> "slide", id |-> id, by |-> by], Slide(project, id, by))
    BY <1>7 DEF SlideClip
  <2>2. Sound(Slide(project, id, by).project)
    BY <1>0, SlideSound DEF Ids
  <2> QED
    BY <1>a, <2>1, <2>2
<1>8. CASE Compound
  <2>1. PICK ids \in (SUBSET Ids) \ {{}}, k \in Tracks :
          LET r == MakeCompound(project, ids, k)
          IN /\ Edits([before |-> project, kind |-> "compound", ids |-> ids, track |-> k], r)
             /\ compound' = IF r.project # project THEN Nested(project, ids) ELSE compound
    BY <1>8 DEF Compound
  <2>2. Sound(MakeCompound(project, ids, k).project)
    BY <1>0, CompoundSound DEF Ids, Tracks
  <2>3. Nests(compound')
    <3>1. Nests(Nested(project, ids))
      BY <1>0, NestedIs DEF Ids, Nests, Sound
    <3> QED
      BY <1>0, <2>1, <3>1
  <2> QED
    BY <2>1, <2>2, <2>3, EditKeeps
<1>9. CASE BreakCompound
  <2>1. PICK id \in Ids, k \in Tracks :
          Edit([before |-> project, kind |-> "break", id |-> id, track |-> k],
               BreakApart(project, compound, id, k))
    BY <1>9 DEF BreakCompound
  <2>2. Sound(BreakApart(project, compound, id, k).project)
    BY <1>0, BreakSound DEF Ids, Tracks, Nests
  <2> QED
    BY <1>a, <2>1, <2>2
<1> QED
  BY <1>1, <1>2, <1>3, <1>4, <1>5, <1>6, <1>7, <1>8, <1>9

LEMMA HistoryKeeps ==
  EditorInv /\ (UndoEdit \/ RedoEdit \/ BeginTransaction \/ CommitTransaction
                  \/ RollbackTransaction) => EditorInv'
<1> SUFFICES ASSUME EditorInv,
                    UndoEdit \/ RedoEdit \/ BeginTransaction \/ CommitTransaction
                      \/ RollbackTransaction
             PROVE  EditorInv'
  OBVIOUS
<1>0. /\ Sound(project) /\ Nests(compound) /\ Len(base) <= 1
      /\ undo \in Seq(Sounds) /\ redo \in Seq(Sounds) /\ base \in Seq(Sounds)
  BY DEF EditorInv
<1>1. CASE UndoEdit
  <2>1. Front(undo) \in Seq(Sounds) /\ Last(undo) \in Sounds
    BY <1>0, <1>1, Ended DEF UndoEdit
  <2>2. Sound(Last(undo)) /\ Append(redo, project) \in Seq(Sounds)
    BY <1>0, <2>1, SoundsIs, AppendSounds
  <2> QED
    BY <1>0, <1>1, <2>1, <2>2 DEF UndoEdit, Call, EditorInv
<1>2. CASE RedoEdit
  <2>1. Front(redo) \in Seq(Sounds) /\ Last(redo) \in Sounds
    BY <1>0, <1>2, Ended DEF RedoEdit
  <2>2. Sound(Last(redo)) /\ Append(undo, project) \in Seq(Sounds)
    BY <1>0, <2>1, SoundsIs, AppendSounds
  <2> QED
    BY <1>0, <1>2, <2>1, <2>2 DEF RedoEdit, Call, EditorInv
<1>3. CASE BeginTransaction
  <2>1. <<project>> \in Seq(Sounds) /\ Len(<<project>>) = 1
    BY <1>0, SoundsIs
  <2> QED
    BY <1>0, <1>3, <2>1 DEF BeginTransaction, Call, EditorInv
<1>4. CASE CommitTransaction
  <2>1. Sound(base[1])
    BY <1>0, <1>4, BaseSound DEF CommitTransaction
  <2>2. Recent(Append(undo, base[1])) \in Seq(Sounds)
    BY <1>0, <2>1, AppendSounds
  <2>3. <<>> \in Seq(Sounds) /\ Len(<<>>) <= 1
    OBVIOUS
  <2> QED
    BY <1>0, <1>4, <2>2, <2>3 DEF CommitTransaction, Call, EditorInv
<1>5. CASE RollbackTransaction
  <2>1. Sound(base[1])
    BY <1>0, <1>5, BaseSound DEF RollbackTransaction
  <2>2. <<>> \in Seq(Sounds) /\ Len(<<>>) <= 1
    OBVIOUS
  <2> QED
    BY <1>0, <1>5, <2>1, <2>2 DEF RollbackTransaction, Call, EditorInv
<1> QED
  BY <1>1, <1>2, <1>3, <1>4, <1>5

\* Whatever the host asks for, the timeline and every project it can undo or
\* redo to are well-formed and valid: clips on tracks of their kind, none over
\* another, each within its media.
THEOREM ProjectsStayValid == EditorSpec => []EditorInv
<1>1. EditorInit => EditorInv
  BY InitSound
<1>2. EditorInv /\ [EditorNext]_editorVars => EditorInv'
  <2>1. EditorInv /\ EditorNext => EditorInv'
    BY PrepareTracksKeep, PrepareClipsKeep, PrepareLinksKeep, EditsKeep, HistoryKeeps DEF EditorNext
  <2>2. EditorInv /\ UNCHANGED editorVars => EditorInv'
    BY DEF EditorInv, editorVars
  <2> QED
    BY <2>1, <2>2
<1> QED
  BY <1>1, <1>2, PTL DEF EditorSpec

-----------------------------------------------------------------------------
(* Undo and redo retrace the documents. *)

\* The documents before d, with u in the history.
Before(u, d) == Front(Distinct(Append(u, d)))

LEMMA BeforeIs ==
  ASSUME NEW S, NEW u \in Seq(S), NEW d \in S
  PROVE  Before(u, d) \in Seq(S) /\ Distinct(Append(u, d)) = Append(Before(u, d), d)
<1>1. Append(u, d) \in Seq(S) /\ Append(u, d) # <<>> /\ Last(Append(u, d)) = d
  BY Ends
<1>2. /\ Distinct(Append(u, d)) \in Seq(S) /\ Distinct(Append(u, d)) # <<>>
      /\ Last(Distinct(Append(u, d))) = d
  BY <1>1, DistinctTyped
<1> QED
  BY <1>2, Ended DEF Before

LEMMA BeforeFirst == ASSUME NEW S, NEW d \in S PROVE Before(<<>>, d) = <<>>
<1>1. <<>> \in Seq(S) /\ Distinct(<<>>) = <<>>
  BY DistinctOfNone
<1>2. Distinct(Append(<<>>, d)) = Append(<<>>, d)
  BY <1>1, DistinctAppend
<1>3. Front(Append(<<>>, d)) = <<>>
  BY <1>1, Ends
<1> QED
  BY <1>2, <1>3 DEF Before

\* Recording document d before document e.
LEMMA RecordedBefore ==
  ASSUME NEW S, NEW u \in Seq(S), NEW d \in S, NEW e \in S
  PROVE  LET was == Before(u, d)  is == Before(Recent(Append(u, d)), e)
         IN IF e = d THEN IsSuffix(is, was) ELSE IsSuffix(is, Append(was, d))
<1> DEFINE a == Append(u, d)  v == Recent(a)  was == Before(u, d)
<1>1. a \in Seq(S) /\ a # <<>> /\ Len(a) \in Nat /\ Last(a) = d
  BY Ends
<1>2. was \in Seq(S) /\ Distinct(a) = Append(was, d)
  BY BeforeIs
<1> HIDE DEF a, was
<1>3. /\ v \in Seq(S) /\ v # <<>> /\ Last(v) = d
      /\ Distinct(v) = Distinct(a) \/ Distinct(v) = Tail(Distinct(a))
  <2>1. CASE Len(a) > HistoryLimit
    <3>1. Len(a) > 1
      BY <1>1, <2>1, EditorAssumption
    <3>2. v = Tail(a)
      BY <2>1 DEF Recent
    <3>3. /\ Tail(a) \in Seq(S) /\ Len(Tail(a)) = Len(a) - 1
          /\ \A i \in 1..Len(a) - 1 : Tail(a)[i] = a[i + 1]
      BY <1>1, HeadTailProperties
    <3>4. Last(Tail(a)) = d /\ Tail(a) # <<>>
      <4>1. PICK n \in Nat : n = Len(a) - 1
        BY <1>1, <3>1
      <4>2. n \in 1..n /\ n + 1 = Len(a)
        BY <1>1, <3>1, <4>1
      <4>3. Tail(a)[n] = a[Len(a)] /\ Len(Tail(a)) = n
        BY <3>3, <4>1, <4>2
      <4> QED
        BY <1>1, <3>3, <4>2, <4>3 DEF Last
    <3>5. Distinct(Tail(a)) = Distinct(a) \/ Distinct(Tail(a)) = Tail(Distinct(a))
      BY <1>1, <3>1, DistinctTail
    <3> QED
      BY <3>2, <3>3, <3>4, <3>5
  <2>2. CASE ~ (Len(a) > HistoryLimit)
    BY <1>1, <2>2 DEF Recent
  <2> QED
    BY <2>1, <2>2
<1> HIDE DEF v
<1>4. Distinct(v) \in Seq(S) /\ Distinct(v) # <<>>
  BY <1>3, DistinctTyped
<1>5. Distinct(Append(v, e)) = IF e = d THEN Distinct(v) ELSE Append(Distinct(v), e)
  BY <1>3, DistinctAppend
<1>6. CASE e = d
  <2>1. Before(v, e) = Front(Distinct(v))
    BY <1>5, <1>6 DEF Before
  <2>2. CASE Distinct(v) = Distinct(a)
    <3>1. Before(v, e) = was
      BY <1>2, <2>1, <2>2, Ends
    <3> QED
      BY <1>2, <1>6, <3>1, SuffixOfItself DEF v, a, was
  <2>3. CASE Distinct(v) = Tail(Distinct(a))
    <3>1. was # <<>>
      <4>1. CASE was = <<>>
        <5>1. Tail(Append(<<>>, d)) = <<>>
          OBVIOUS
        <5> QED
          BY <1>2, <1>4, <2>3, <4>1, <5>1
      <4> QED
        BY <4>1
    <3>2. Tail(Append(was, d)) = Append(Tail(was), d) /\ Tail(was) \in Seq(S)
      BY <1>2, <3>1, HeadTailAppend, HeadTailProperties
    <3>3. Before(v, e) = Tail(was)
      BY <1>2, <2>1, <2>3, <3>2, Ends
    <3> QED
      BY <1>2, <1>6, <3>1, <3>3, TailIsSuffix DEF v, a, was
  <2> QED
    BY <1>3, <2>2, <2>3
<1>7. CASE e # d
  <2>1. Before(v, e) = Distinct(v)
    BY <1>4, <1>5, <1>7, Ends DEF Before
  <2>2. Append(was, d) \in Seq(S) /\ Append(was, d) # <<>>
    BY <1>2, Ends
  <2>3. IsSuffix(Before(v, e), Append(was, d))
    BY <1>2, <1>3, <2>1, <2>2, SuffixOfItself, TailIsSuffix
  <2> QED
    BY <1>7, <2>3 DEF v, a, was
<1> QED
  BY <1>6, <1>7

\* Going back from document d to the last one of a: b then holds d.
LEMMA Retraced ==
  ASSUME NEW S, NEW a \in Seq(S), a # <<>>, NEW b \in Seq(S), NEW d \in S
  PROVE  LET e == Last(a)
         IN /\ e \in S
            /\ IF e = d THEN /\ Before(Front(a), e) = Before(a, d)
                             /\ Before(Append(b, d), e) = Before(b, d)
               ELSE /\ Before(a, d) # <<>> /\ Last(Before(a, d)) = e
                    /\ Before(Front(a), e) = Front(Before(a, d))
                    /\ Before(Append(b, d), e) = Append(Before(b, d), d)
<1> DEFINE e == Last(a)
<1>1. e \in S /\ a = Append(Front(a), e) /\ Front(a) \in Seq(S)
  BY Ended
<1>2. Append(b, d) \in Seq(S) /\ Append(b, d) # <<>> /\ Last(Append(b, d)) = d
  BY Ends
<1>3. Distinct(a) \in Seq(S) /\ Distinct(a) # <<>> /\ Last(Distinct(a)) = e
  BY DistinctTyped
<1>4. Before(Front(a), e) = Front(Distinct(a))
  BY <1>1 DEF Before
<1>5. Distinct(Append(a, d)) = IF e = d THEN Distinct(a) ELSE Append(Distinct(a), d)
  BY DistinctAppend
<1>6. Distinct(Append(Append(b, d), e))
        = IF d = e THEN Distinct(Append(b, d)) ELSE Append(Distinct(Append(b, d)), e)
  BY <1>1, <1>2, DistinctAppend
<1>7. Distinct(Append(b, d)) \in Seq(S) /\ Distinct(Append(b, d)) = Append(Before(b, d), d)
  BY <1>2, BeforeIs, DistinctTyped
<1>8. CASE e = d
  BY <1>1, <1>4, <1>5, <1>6, <1>8 DEF Before
<1>9. CASE e # d
  <2>1. Before(a, d) = Distinct(a)
    BY <1>3, <1>5, <1>9, Ends DEF Before
  <2>2. Before(Append(b, d), e) = Distinct(Append(b, d))
    BY <1>1, <1>6, <1>7, <1>9, Ends DEF Before
  <2> QED
    BY <1>1, <1>3, <1>4, <1>7, <1>9, <2>1, <2>2
<1> QED
  BY <1>8, <1>9

\* What a step of the editor does to the documents.
Stays    == Document' = Document /\ Before(undo, Document)' = Before(undo, Document)
              /\ Before(redo, Document)' = Before(redo, Document)
Retraces == [History!Next]_History!vars

LEMMA SameOperators ==
  ASSUME NEW s, NEW t
  PROVE  /\ History!IsSuffix(s, t) <=> IsSuffix(s, t)
         /\ History!Front(s) = Front(s) /\ History!Last(s) = Last(s)
<1>1. History!Reverse(s) = Reverse(s) /\ History!Reverse(t) = Reverse(t)
  BY Zenon DEF Reverse, History!Reverse
<1>2. History!IsPrefix(Reverse(s), Reverse(t)) <=> IsPrefix(Reverse(s), Reverse(t))
  BY Zenon DEF IsPrefix, History!IsPrefix
<1>3. History!IsSuffix(s, t) <=> IsSuffix(s, t)
  BY <1>1, <1>2, Zenon DEF IsSuffix, History!IsSuffix
<1> QED
  BY <1>3, Zenon DEF Front, History!Front, Last, History!Last

LEMMA DocumentIs ==
  ASSUME EditorInv
  PROVE  /\ Document \in Sounds /\ undo \in Seq(Sounds) /\ redo \in Seq(Sounds)
         /\ Before(undo, Document) \in Seq(Sounds) /\ Before(redo, Document) \in Seq(Sounds)
<1>1. undo \in Seq(Sounds) /\ redo \in Seq(Sounds)
  BY DEF EditorInv
<1>2. Document \in Sounds
  <2>1. CASE base = <<>>
    BY <2>1, SoundsIs DEF EditorInv, Document
  <2>2. CASE base # <<>>
    <3>1. Sound(base[1])
      BY <2>2, BaseSound DEF EditorInv
    <3> QED
      BY <2>2, <3>1, SoundsIs DEF Document
  <2> QED
    BY <2>1, <2>2
<1> QED
  BY <1>1, <1>2, BeforeIs

LEMMA StaysRetraces == Stays => Retraces
BY DEF Stays, Retraces, Before, History!vars

LEMMA RecordedRetraces ==
  ASSUME EditorInv, EditorInv', undo' = Recent(Append(undo, Document)), redo' = <<>>
  PROVE  Retraces
<1> DEFINE d == Document  e == Document'  was == Before(undo, d)  is == Before(undo', e)
<1>1. d \in Sounds /\ e \in Sounds /\ undo \in Seq(Sounds)
  <2>1. d \in Sounds /\ undo \in Seq(Sounds)
    BY DocumentIs
  <2>2. (EditorInv => Document \in Sounds)'
    BY DocumentIs, PTL
  <2> QED
    BY <2>1, <2>2
<1>2. Before(redo', e) = <<>>
  BY <1>1, BeforeFirst
<1>3. IF e = d THEN IsSuffix(is, was) ELSE IsSuffix(is, Append(was, d))
  <2> HIDE DEF d, e
  <2> QED
    BY <1>1, RecordedBefore DEF d
<1>4. CASE e = d
  <2>1. History!Forget
    BY <1>2, <1>3, <1>4, SameOperators DEF History!Forget, Before
  <2> QED
    BY <2>1 DEF Retraces, History!Next
<1>5. CASE e # d
  <2>1. History!Edit
    BY <1>2, <1>3, <1>5, SameOperators DEF History!Edit, Before
  <2> QED
    BY <2>1 DEF Retraces, History!Next
<1> QED
  BY <1>4, <1>5

LEMMA PrepareRetraces ==
  ASSUME EditorInv, EditorInv', NEW e, NEW q, Prepare(e, q) PROVE Retraces
<1>1. /\ undo = <<>> /\ redo = <<>> /\ base = <<>> /\ undo' = <<>> /\ redo' = <<>> /\ base' = <<>>
      /\ project' # project
  BY DEF Prepare, EditorInv
<1>2. Document = project /\ Document' = project' /\ project \in Sounds /\ project' \in Sounds
  <2>1. project \in Sounds /\ project' \in Sounds
    BY SoundsIs DEF EditorInv
  <2> QED
    BY <1>1, <2>1 DEF Document
<1>3. Before(undo', Document') = <<>> /\ Before(redo', Document') = <<>>
  BY <1>1, <1>2, BeforeFirst
<1>4. IsSuffix(<<>>, Append(Before(undo, Document), Document))
  <2>1. Append(Before(undo, Document), Document) \in Seq(Sounds)
    BY <1>2, DocumentIs, AppendProperties
  <2> QED
    BY <2>1, NoneIsSuffix
<1>5. History!Edit
  BY <1>1, <1>2, <1>3, <1>4, SameOperators DEF History!Edit, Before
<1> QED
  BY <1>5 DEF Retraces, History!Next

LEMMA EditsRetrace ==
  ASSUME EditorInv, EditorInv', NEW e, NEW r, Edits(e, r) PROVE Retraces
<1>1. CASE base = <<>>
  <2>1. Document = project
    BY <1>1 DEF Document
  <2>2. undo' = Recent(Append(undo, Document)) /\ redo' = <<>>
    BY <1>1, <2>1 DEF Edits, Recorded
  <2> QED
    BY <2>2, RecordedRetraces
<1>2. CASE base # <<>>
  <2>1. undo' = undo /\ redo' = redo /\ base' = base
    BY <1>2 DEF Edits, Recorded
  <2>2. Stays
    BY <1>2, <2>1 DEF Stays, Document
  <2> QED
    BY <2>2, StaysRetraces
<1> QED
  BY <1>1, <1>2

LEMMA CommitRetraces ==
  ASSUME EditorInv, EditorInv', CommitTransaction PROVE Retraces
<1>1. Document = base[1]
  BY DEF CommitTransaction, Document
<1>2. undo' = Recent(Append(undo, Document)) /\ redo' = <<>>
  BY <1>1 DEF CommitTransaction
<1> QED
  BY <1>2, RecordedRetraces

LEMMA TransactionRetraces ==
  ASSUME EditorInv, BeginTransaction \/ RollbackTransaction PROVE Retraces
<1>1. Document' = Document /\ undo' = undo /\ redo' = redo
  <2>1. CASE BeginTransaction
    BY <2>1 DEF BeginTransaction, Document
  <2>2. CASE RollbackTransaction
    BY <2>2 DEF RollbackTransaction, Document
  <2> QED
    BY <2>1, <2>2
<1>2. Stays
  BY <1>1 DEF Stays
<1> QED
  BY <1>2, StaysRetraces

LEMMA UndoRetraces ==
  ASSUME UndoInTransaction = FALSE, EditorInv, UndoEdit PROVE Retraces
<1>1. /\ base = <<>> /\ base' = <<>> /\ undo # <<>> /\ project' = Last(undo)
      /\ undo' = Front(undo) /\ redo' = Append(redo, project)
  BY DEF UndoEdit
<1>2. Document = project /\ Document' = Last(undo) /\ project \in Sounds
  BY <1>1, DocumentIs DEF Document
<1>3. undo \in Seq(Sounds) /\ redo \in Seq(Sounds)
  BY DocumentIs
<1>4. IF Last(undo) = project
      THEN /\ Before(undo', Document') = Before(undo, Document)
           /\ Before(redo', Document') = Before(redo, Document)
      ELSE /\ Before(undo, Document) # <<>> /\ Last(Before(undo, Document)) = Document'
           /\ Before(undo', Document') = Front(Before(undo, Document))
           /\ Before(redo', Document') = Append(Before(redo, Document), Document)
  BY <1>1, <1>2, <1>3, Retraced
<1>5. CASE Last(undo) = project
  <2>1. Stays
    BY <1>2, <1>4, <1>5 DEF Stays
  <2> QED
    BY <2>1, StaysRetraces
<1>6. CASE Last(undo) # project
  <2>1. History!Undo
    BY <1>4, <1>6, SameOperators DEF History!Undo, Before
  <2> QED
    BY <2>1 DEF Retraces, History!Next
<1> QED
  BY <1>5, <1>6

LEMMA RedoRetraces ==
  ASSUME UndoInTransaction = FALSE, EditorInv, RedoEdit PROVE Retraces
<1>1. /\ base = <<>> /\ base' = <<>> /\ redo # <<>> /\ project' = Last(redo)
      /\ redo' = Front(redo) /\ undo' = Append(undo, project)
  BY DEF RedoEdit
<1>2. Document = project /\ Document' = Last(redo) /\ project \in Sounds
  BY <1>1, DocumentIs DEF Document
<1>3. undo \in Seq(Sounds) /\ redo \in Seq(Sounds)
  BY DocumentIs
<1>4. IF Last(redo) = project
      THEN /\ Before(redo', Document') = Before(redo, Document)
           /\ Before(undo', Document') = Before(undo, Document)
      ELSE /\ Before(redo, Document) # <<>> /\ Last(Before(redo, Document)) = Document'
           /\ Before(redo', Document') = Front(Before(redo, Document))
           /\ Before(undo', Document') = Append(Before(undo, Document), Document)
  BY <1>1, <1>2, <1>3, Retraced
<1>5. CASE Last(redo) = project
  <2>1. Stays
    BY <1>2, <1>4, <1>5 DEF Stays
  <2> QED
    BY <2>1, StaysRetraces
<1>6. CASE Last(redo) # project
  <2>1. History!Redo
    BY <1>4, <1>6, SameOperators DEF History!Redo, Before
  <2> QED
    BY <2>1 DEF Retraces, History!Next
<1> QED
  BY <1>5, <1>6

LEMMA StepRetraces ==
  ASSUME UndoInTransaction = FALSE, EditorInv, EditorInv', [EditorNext]_editorVars
  PROVE  Retraces
<1>1. CASE PrepareTracks \/ PrepareClips \/ PrepareLinks
  <2>1. \E e, q : Prepare(e, q)
    BY <1>1, Zenon DEF PrepareTracks, PrepareClips, PrepareLinks
  <2> QED
    BY <2>1, PrepareRetraces
<1>2. CASE InsertOrOverwrite \/ LiftClip \/ RippleDeleteClip \/ CloseGapOnTrack
           \/ RollClips \/ SlipClip \/ SlideClip \/ Compound \/ BreakCompound
  <2>1. \E e, r : Edits(e, r)
    BY <1>2, Zenon DEF InsertOrOverwrite, LiftClip, RippleDeleteClip, CloseGapOnTrack,
                       RollClips, SlipClip, SlideClip, Compound, BreakCompound, Edit
  <2> QED
    BY <2>1, EditsRetrace
<1>3. CASE UndoEdit \/ RedoEdit
  BY <1>3, UndoRetraces, RedoRetraces
<1>4. CASE BeginTransaction \/ CommitTransaction \/ RollbackTransaction
  BY <1>4, TransactionRetraces, CommitRetraces
<1>5. CASE UNCHANGED editorVars
  <2>1. Stays
    BY <1>5 DEF Stays, Document, editorVars
  <2> QED
    BY <2>1, StaysRetraces
<1> QED
  BY <1>1, <1>2, <1>3, <1>4, <1>5 DEF EditorNext

\* The editor implements the abstract history: undo and redo retrace the
\* documents the edits made, one by one and none twice, whatever edits fail and
\* whatever is committed or rolled back, for a host that undoes and redoes
\* between transactions (undo, redo, record_history, the transactions).
THEOREM EditsImplementHistory ==
  ASSUME UndoInTransaction = FALSE PROVE EditorSpec => ImplementsEditHistory
<1>1. EditorInit => History!Init
  <2> SUFFICES ASSUME EditorInit PROVE History!Init
    OBVIOUS
  <2>1. undo = <<>> /\ redo = <<>> /\ Document \in Sounds
    BY InitSound, DocumentIs DEF EditorInit
  <2>2. Before(undo, Document) = <<>> /\ Before(redo, Document) = <<>>
    BY <2>1, BeforeFirst
  <2> QED
    BY <2>2 DEF History!Init, Before
<1>2. EditorInv /\ EditorInv' /\ [EditorNext]_editorVars => [History!Next]_History!vars
  BY StepRetraces DEF Retraces
<1> QED
  BY <1>1, <1>2, ProjectsStayValid, PTL DEF EditorSpec, ImplementsEditHistory, History!Spec

-----------------------------------------------------------------------------
(* What a viewer sees. *)

\* Clip c shows something at instant t.
Plays(c, t) == c.start <= t /\ t < EndOf(c)

LEMMA AtIs ==
  ASSUME NEW clips, NEW t, NEW x
  PROVE  x \in At(clips, t) <=> \E c \in clips : Plays(c, t) /\ x = Picture(c, t)
BY DEF At, Plays

LEMMA ShownIs ==
  ASSUME NEW p, NEW k, NEW t, NEW x
  PROVE  x \in Shown(p, k, t)
           <=> \E c \in p.clips : c.track = k /\ Plays(c, t) /\ x = Picture(c, t)
BY AtIs DEF Shown, OnTrack

LEMMA SwappedShows ==
  ASSUME NEW p, IsProject(p), NEW old, NEW new, NEW k, NEW t, NEW x
  PROVE  x \in Shown(Swapped(p, old, new), k, t)
           <=> \/ \E c \in p.clips \ old : c.track = k /\ Plays(c, t) /\ x = Picture(c, t)
               \/ \E c \in new : c.track = k /\ Plays(c, t) /\ x = Picture(c, t)
<1> DEFINE q == Swapped(p, old, new)
<1>1. q.clips = (p.clips \ old) \union new
  BY SwappedIs
<1>2. x \in Shown(q, k, t) <=> \E c \in q.clips : c.track = k /\ Plays(c, t) /\ x = Picture(c, t)
  BY ShownIs
<1> HIDE DEF q
<1>3. x \in Shown(q, k, t)
           <=> \/ \E c \in p.clips \ old : c.track = k /\ Plays(c, t) /\ x = Picture(c, t)
               \/ \E c \in new : c.track = k /\ Plays(c, t) /\ x = Picture(c, t)
  BY <1>1, <1>2
<1> QED
  BY <1>3 DEF q

\* What a valid project says of a clip, and of two clips of one track.
LEMMA ClipIs ==
  ASSUME NEW p, Sound(p), NEW c \in p.clips
  PROVE  /\ c \in Clip /\ c.track \in DOMAIN p.tracks
         /\ c.start \in Int /\ c.length \in Int /\ c.from \in Int /\ EndOf(c) \in Int
         /\ EndOf(c) = c.start + c.length /\ c.start >= 0 /\ c.length > 0
<1>1. c \in Clip /\ c.track \in DOMAIN p.tracks /\ c.start >= 0 /\ c.length > 0
  BY DEF Sound, IsProject, Valid
<1> QED
  BY <1>1, ClipFields

LEMMA OnlyOne ==
  ASSUME NEW p, Sound(p), NEW c \in p.clips, NEW d \in p.clips, c.track = d.track,
         NEW t \in Int, Plays(c, t), Plays(d, t)
  PROVE  c = d
<1>1. Intersect(c, d)
  BY ClipIs DEF Plays, Intersect
<1> QED
  BY <1>1 DEF Sound, Valid

LEMMA Alone ==
  ASSUME NEW p, Sound(p), NEW c \in p.clips, NEW t \in Int, Plays(c, t)
  PROVE  Shown(p, c.track, t) = {Picture(c, t)}
<1>1. ASSUME NEW x PROVE x \in Shown(p, c.track, t) <=> x = Picture(c, t)
  <2>1. ASSUME x \in Shown(p, c.track, t) PROVE x = Picture(c, t)
    <3>1. PICK d \in p.clips : d.track = c.track /\ Plays(d, t) /\ x = Picture(d, t)
      BY <2>1, ShownIs
    <3>2. d = c
      BY <3>1, OnlyOne
    <3> QED
      BY <3>1, <3>2
  <2>2. ASSUME x = Picture(c, t) PROVE x \in Shown(p, c.track, t)
    BY <2>2, ShownIs
  <2> QED
    BY <2>1, <2>2
<1> QED
  BY <1>1

\* Two clips that show the same media and start it alike.
LEMMA SamePicture ==
  ASSUME NEW c \in Clip, NEW d \in Clip, NEW t \in Int, NEW u \in Int,
         c.media = d.media, c.from + t - c.start = d.from + u - d.start
  PROVE  Picture(c, t) = Picture(d, u)
BY DEF Picture

-----------------------------------------------------------------------------
(* Edits that keep every clip in its place. *)

LEMMA InPlaceShows ==
  ASSUME NEW p, IsProject(p), NEW old \in SUBSET p.clips, NEW f,
         \A c \in old : /\ f[c].track = c.track /\ f[c].media = c.media /\ f[c].from = c.from
                        /\ f[c].start = c.start /\ f[c].length = c.length,
         NEW k, NEW t
  PROVE  Shown(Swapped(p, old, Images(f, old)), k, t) = Shown(p, k, t)
<1> DEFINE q == Swapped(p, old, Images(f, old))
<1>1. \A c \in old : /\ f[c].track = c.track /\ Picture(f[c], t) = Picture(c, t)
                     /\ Plays(f[c], t) <=> Plays(c, t)
  BY DEF Picture, Plays, EndOf
<1>2. ASSUME NEW x PROVE x \in Shown(q, k, t) <=> x \in Shown(p, k, t)
  <2>1. x \in Shown(q, k, t)
           <=> \/ \E c \in p.clips \ old : c.track = k /\ Plays(c, t) /\ x = Picture(c, t)
               \/ \E c \in Images(f, old) : c.track = k /\ Plays(c, t) /\ x = Picture(c, t)
    BY SwappedShows
  <2>2. x \in Shown(p, k, t)
           <=> \E c \in p.clips : c.track = k /\ Plays(c, t) /\ x = Picture(c, t)
    BY ShownIs
  <2>3. (\E c \in Images(f, old) : c.track = k /\ Plays(c, t) /\ x = Picture(c, t))
          <=> \E c \in old : c.track = k /\ Plays(c, t) /\ x = Picture(c, t)
    BY <1>1 DEF Images
  <2> HIDE DEF q
  <2> QED
    BY <2>1, <2>2, <2>3
<1> QED
  BY <1>2

LEMMA LinkShows ==
  ASSUME NEW p, Sound(p), NEW a \in IdsOf(p.clips), NEW b \in IdsOf(p.clips), NEW group \in Names,
         NEW k, NEW t
  PROVE  Shown(LinkClips(p, a, b, group), k, t) = Shown(p, k, t)
<1> DEFINE pair == {ClipOf(p, a), ClipOf(p, b)}  f == [c \in pair |-> [c EXCEPT !.group = group]]
<1>1. pair \in SUBSET p.clips
  BY ClipOfIs
<1>2. LinkClips(p, a, b, group) = p \/ LinkClips(p, a, b, group) = Swapped(p, pair, Images(f, pair))
  BY DEF LinkClips, Images
<1>3. \A c \in pair : c \in Clip /\ f[c] = [c EXCEPT !.group = group]
  BY <1>1 DEF Sound, IsProject
<1> HIDE DEF pair, f
<1>4. ASSUME NEW c \in pair
      PROVE  /\ f[c].track = c.track /\ f[c].media = c.media /\ f[c].from = c.from
             /\ f[c].start = c.start /\ f[c].length = c.length
  BY <1>3 DEF Clip
<1>5. Shown(Swapped(p, pair, Images(f, pair)), k, t) = Shown(p, k, t)
  BY <1>1, <1>4, InPlaceShows DEF Sound
<1> QED
  BY <1>2, <1>5

LEMMA UnlinkShows ==
  ASSUME NEW p, Sound(p), NEW group, NEW k, NEW t
  PROVE  Shown(UnlinkGroup(p, group), k, t) = Shown(p, k, t)
<1> DEFINE freed == {c \in p.clips : c.group = group /\ Free(p, c)}
           f == [c \in freed |-> [c EXCEPT !.group = NoGroup]]
<1>1. freed \in SUBSET p.clips
  OBVIOUS
<1>2. UnlinkGroup(p, group) = Swapped(p, freed, Images(f, freed))
  BY DEF UnlinkGroup, Images
<1>3. \A c \in freed : c \in Clip /\ f[c] = [c EXCEPT !.group = NoGroup]
  BY <1>1 DEF Sound, IsProject
<1> HIDE DEF freed, f
<1>4. ASSUME NEW c \in freed
      PROVE  /\ f[c].track = c.track /\ f[c].media = c.media /\ f[c].from = c.from
             /\ f[c].start = c.start /\ f[c].length = c.length
  BY <1>3 DEF Clip
<1>5. Shown(Swapped(p, freed, Images(f, freed)), k, t) = Shown(p, k, t)
  BY <1>1, <1>4, InPlaceShows DEF Sound
<1> QED
  BY <1>2, <1>5

LEMMA AddTrackShows ==
  ASSUME NEW p, Sound(p), NEW j \in Names, NEW audio \in BOOLEAN, NEW k, NEW t
  PROVE  Shown(AddTrack(p, j, audio), k, t) = Shown(p, k, t)
<1>1. CASE j \in DOMAIN p.tracks
  BY <1>1 DEF AddTrack
<1>2. CASE j \notin DOMAIN p.tracks
  <2>1. AddTrack(p, j, audio).clips = p.clips
    BY <1>2, AddTrackIs DEF Sound
  <2> QED
    BY <2>1 DEF Shown, OnTrack
<1> QED
  BY <1>1, <1>2

\* The parts of a clip that is split show what it showed.
LEMMA PartsPlay ==
  ASSUME NEW c \in Clip, NEW at \in Int, NEW name \in Names, NEW t \in Int, Inside(c, at)
  PROVE  /\ Plays(HeadOf(c, at), t) <=> Plays(c, t) /\ t < at
         /\ Plays(TailOf(c, at, name), t) <=> Plays(c, t) /\ t >= at
         /\ Picture(HeadOf(c, at), t) = Picture(c, t)
         /\ Picture(TailOf(c, at, name), t) = Picture(c, t)
         /\ HeadOf(c, at).track = c.track /\ TailOf(c, at, name).track = c.track
<1> DEFINE h == HeadOf(c, at)  l == TailOf(c, at, name)
<1>1. /\ h \in Clip /\ h.media = c.media /\ h.from = c.from /\ h.start = c.start /\ EndOf(h) = at
      /\ h.track = c.track
  BY HeadIs
<1>2. /\ l \in Clip /\ l.media = c.media /\ l.from = c.from + at - c.start /\ l.start = at
      /\ EndOf(l) = EndOf(c) /\ l.track = c.track
  BY TailIs
<1>3. c.start \in Int /\ c.from \in Int /\ EndOf(c) \in Int
  BY ClipFields
<1> HIDE DEF h, l
<1>4. (Plays(h, t) <=> Plays(c, t) /\ t < at) /\ (Plays(l, t) <=> Plays(c, t) /\ t >= at)
  BY <1>1, <1>2, <1>3 DEF Plays, Inside
<1>5. Picture(h, t) = Picture(c, t)
  BY <1>1, <1>3 DEF Picture
<1>6. Picture(l, t) = Picture(c, t)
  BY <1>2, <1>3, SamePicture
<1> QED
  BY <1>1, <1>2, <1>4, <1>5, <1>6 DEF h, l

LEMMA SplitShows ==
  ASSUME NEW p, Sound(p), NEW id \in IdsOf(p.clips), NEW at \in Int, NEW name \in Names,
         NEW linked \in BOOLEAN, NEW k, NEW t \in Int
  PROVE  Shown(SplitClip(p, id, at, name, linked), k, t) = Shown(p, k, t)
<1> DEFINE items == {d \in Chosen(p, id, linked) : Free(p, d) /\ Inside(d, at)}
           heads == {HeadOf(d, at) : d \in items}  tails == {TailOf(d, at, name) : d \in items}
           q == Swapped(p, items, heads \union tails)
<1>1. SplitClip(p, id, at, name, linked) = p \/ SplitClip(p, id, at, name, linked) = q
  BY DEF SplitClip, Checked
<1>2. IsProject(p) /\ items \in SUBSET p.clips /\ \A d \in items : d \in Clip /\ Inside(d, at)
  BY ChosenIs DEF Sound, IsProject
<1> HIDE DEF items
<1>3. ASSUME NEW x PROVE x \in Shown(q, k, t) <=> x \in Shown(p, k, t)
  <2> DEFINE Sees(c) == c.track = k /\ Plays(c, t) /\ x = Picture(c, t)
  <2>1. x \in Shown(q, k, t)
          <=> (\E c \in p.clips \ items : Sees(c)) \/ (\E c \in heads \union tails : Sees(c))
    BY <1>2, SwappedShows
  <2>2. x \in Shown(p, k, t) <=> \E c \in p.clips : Sees(c)
    BY ShownIs
  <2>3. \A d \in items : Sees(d) <=> Sees(HeadOf(d, at)) \/ Sees(TailOf(d, at, name))
    <3>1. ASSUME NEW d \in items
          PROVE  Sees(d) <=> Sees(HeadOf(d, at)) \/ Sees(TailOf(d, at, name))
      <4>1. d \in Clip /\ Inside(d, at)
        BY <1>2
      <4>2. d.start \in Int /\ EndOf(d) \in Int
        BY <4>1, ClipFields
      <4> QED
        BY <4>1, <4>2, PartsPlay
    <3> QED
      BY <3>1
  <2> HIDE DEF Sees, q
  <2>4. (\E c \in heads \union tails : Sees(c)) <=> \E d \in items : Sees(d)
    BY <2>3
  <2> QED
    BY <1>2, <2>1, <2>2, <2>4
<1> HIDE DEF q
<1> QED
  BY <1>1, <1>3

-----------------------------------------------------------------------------
(* Edits that change what clips show in place. *)

\* A clip after its head moved by s and its length changed by e.
LEMMA TrimmedPlays ==
  ASSUME NEW c \in Clip, NEW s \in Int, NEW e \in Int, NEW t \in Int
  PROVE  LET d == Trimmed(c, s, e)
         IN /\ d.track = c.track /\ Picture(d, t) = Picture(c, t)
            /\ Plays(d, t) <=> c.start + s <= t /\ t < c.start + s + (c.length + e)
<1> DEFINE d == Trimmed(c, s, e)
<1>1. /\ d \in Clip /\ d.media = c.media /\ d.from = c.from + s /\ d.length = c.length + e
      /\ d.start = c.start + s /\ d.track = c.track
  BY TrimmedIs
<1>2. c.start \in Int /\ c.from \in Int /\ c.length \in Int
  BY ClipFields
<1> HIDE DEF d
<1>3. Picture(d, t) = Picture(c, t)
  BY <1>1, <1>2, SamePicture
<1>4. Plays(d, t) <=> c.start + s <= t /\ t < c.start + s + (c.length + e)
  BY <1>1, <1>2 DEF Plays, EndOf
<1> QED
  BY <1>1, <1>3, <1>4 DEF d

LEMMA TrimShows ==
  ASSUME NEW p, Sound(p), NEW id \in IdsOf(p.clips), NEW start \in Int, NEW length \in Int,
         NEW linked \in BOOLEAN, NEW end \in Int, end = start + length, NEW e,
         e.before = p, e.id = id, e.linked = linked, e.start = start, e.length = length,
         TrimClip(p, id, start, end, linked) # p,
         NEW k, NEW t \in Int
  PROVE  Shown(TrimClip(p, id, start, end, linked), k, t) = AfterTrim(e, k, t)
<1> DEFINE c == ClipOf(p, id)  items == Chosen(p, id, linked)
           s == start - c.start  more == end - start - c.length
           cut == {Trimmed(d, s, more) : d \in items}  q == Swapped(p, items, cut)
<1>1. TrimClip(p, id, start, end, linked) = q
  <2>1. \/ TrimClip(p, id, start, end, linked) = p
        \/ TrimClip(p, id, start, end, linked) = Checked(p, q)
    BY DEF TrimClip
  <2> HIDE DEF q
  <2> QED
    BY <2>1 DEF Checked
<1>2. c \in Clip /\ items \in SUBSET p.clips /\ IsProject(p)
  BY ClipOfIs, ChosenIs DEF Sound, IsProject
<1>3. s \in Int /\ more \in Int /\ more = length - c.length /\ c.length \in Int
  BY <1>2, ClipFields
<1> DEFINE kept == {d \in items : /\ d.track = k
                                  /\ d.start + s <= t /\ t < d.start + s + (d.length + length - c.length)}
<1>4. AfterTrim(e, k, t) = At(OnTrack(p, k) \ items, t) \union {Picture(d, t) : d \in kept}
  BY DEF AfterTrim
<1> HIDE DEF items, c, s, more, q
<1>5. ASSUME NEW x PROVE x \in Shown(q, k, t) <=> x \in AfterTrim(e, k, t)
  <2> DEFINE Sees(d) == d.track = k /\ Plays(d, t) /\ x = Picture(d, t)
  <2>1. x \in Shown(q, k, t) <=> (\E d \in p.clips \ items : Sees(d)) \/ (\E d \in cut : Sees(d))
    BY <1>2, SwappedShows DEF q
  <2>2. x \in At(OnTrack(p, k) \ items, t) <=> \E d \in p.clips \ items : Sees(d)
    BY AtIs DEF OnTrack
  <2>3. ASSUME NEW d \in items
        PROVE  Sees(Trimmed(d, s, more)) <=> d \in kept /\ x = Picture(d, t)
    <3>1. d \in Clip /\ d.start \in Int /\ d.length \in Int
      BY <1>2, ClipFields DEF IsProject
    <3>2. /\ Trimmed(d, s, more).track = d.track
          /\ Picture(Trimmed(d, s, more), t) = Picture(d, t)
          /\ Plays(Trimmed(d, s, more), t)
               <=> d.start + s <= t /\ t < d.start + s + (d.length + more)
      BY <1>3, <3>1, TrimmedPlays
    <3>3. d.length + more = d.length + length - c.length
      BY <1>3, <3>1
    <3> QED
      BY <3>2, <3>3
  <2> HIDE DEF Sees
  <2>4. (\E d \in cut : Sees(d)) <=> \E d \in kept : x = Picture(d, t)
    <3>1. (\E d \in cut : Sees(d)) <=> \E d \in items : Sees(Trimmed(d, s, more))
      OBVIOUS
    <3>2. (\E d \in items : Sees(Trimmed(d, s, more)))
            <=> \E d \in items : d \in kept /\ x = Picture(d, t)
      <4> HIDE DEF kept
      <4> QED
        BY <2>3
    <3> QED
      BY <3>1, <3>2
  <2> QED
    BY <1>4, <2>1, <2>2, <2>4
<1> QED
  BY <1>1, <1>5

LEMMA RollShows ==
  ASSUME NEW p, Sound(p), NEW left \in IdsOf(p.clips), NEW right \in IdsOf(p.clips), NEW cut \in Int,
         NEW e, e.before = p, e.left = left, e.right = right, e.cut = cut,
         Roll(p, left, right, cut).project # p,
         NEW k, NEW t \in Int
  PROVE  Shown(Roll(p, left, right, cut).project, k, t) = AfterRoll(e, k, t)
<1> DEFINE l == ClipOf(p, left)  r == ClipOf(p, right)
           h == HeadOf(l, cut)  m == Trimmed(r, cut - r.start, r.start - cut)
           q == Swapped(p, {l, r}, {h, m})
<1>1. Roll(p, left, right, cut).project = q
  BY DEF Roll, Checked, Tried, Refused
<1>2. l \in p.clips /\ r \in p.clips /\ IsProject(p)
  BY ClipOfIs DEF Sound
<1>3. /\ l \in Clip /\ r \in Clip /\ l.start \in Int /\ l.from \in Int
      /\ r.start \in Int /\ r.length \in Int /\ EndOf(r) = r.start + r.length
  BY <1>2, ClipIs
<1>4. AfterRoll(e, k, t)
        = At(OnTrack(p, k) \ {l, r}, t)
            \union (IF k = l.track /\ l.start <= t /\ t < cut THEN {Picture(l, t)} ELSE {})
            \union (IF k = r.track /\ cut <= t /\ t < EndOf(r) THEN {Picture(r, t)} ELSE {})
  BY DEF AfterRoll
<1> HIDE DEF l, r
<1>5. h.track = l.track /\ Picture(h, t) = Picture(l, t) /\ (Plays(h, t) <=> l.start <= t /\ t < cut)
  <2>1. h \in Clip /\ h.media = l.media /\ h.from = l.from /\ h.start = l.start /\ EndOf(h) = cut
        /\ h.track = l.track
    BY <1>3, HeadIs
  <2> HIDE DEF h
  <2> QED
    BY <2>1 DEF Plays, Picture
<1>6. /\ m.track = r.track /\ Picture(m, t) = Picture(r, t)
      /\ Plays(m, t) <=> cut <= t /\ t < EndOf(r)
  <2>1. cut - r.start \in Int /\ r.start - cut \in Int
    BY <1>3
  <2>2. /\ m.track = r.track /\ Picture(m, t) = Picture(r, t)
        /\ Plays(m, t) <=> /\ r.start + (cut - r.start) <= t
                           /\ t < r.start + (cut - r.start) + (r.length + (r.start - cut))
    BY <1>3, <2>1, TrimmedPlays
  <2> HIDE DEF m
  <2> QED
    BY <1>3, <2>2
<1> HIDE DEF h, m
<1>7. ASSUME NEW x PROVE x \in Shown(q, k, t) <=> x \in AfterRoll(e, k, t)
  <2> DEFINE Sees(d) == d.track = k /\ Plays(d, t) /\ x = Picture(d, t)
  <2>1. x \in Shown(q, k, t) <=> (\E d \in p.clips \ {l, r} : Sees(d)) \/ (\E d \in {h, m} : Sees(d))
    BY <1>2, SwappedShows
  <2>2. x \in At(OnTrack(p, k) \ {l, r}, t) <=> \E d \in p.clips \ {l, r} : Sees(d)
    BY AtIs DEF OnTrack
  <2>3. (\E d \in {h, m} : Sees(d))
          <=> \/ k = l.track /\ l.start <= t /\ t < cut /\ x = Picture(l, t)
              \/ k = r.track /\ cut <= t /\ t < EndOf(r) /\ x = Picture(r, t)
    BY <1>5, <1>6
  <2> HIDE DEF q, Sees
  <2> QED
    BY <1>4, <2>1, <2>2, <2>3
<1> QED
  BY <1>1, <1>7

LEMMA SlipShows ==
  ASSUME NEW p, Sound(p), NEW id \in IdsOf(p.clips), NEW by \in Int,
         NEW e, e.before = p, e.id = id, e.by = by,
         Slip(p, id, by).project # p,
         NEW k, NEW t \in Int
  PROVE  Shown(Slip(p, id, by).project, k, t) = AfterSlip(e, k, t)
<1> DEFINE c == ClipOf(p, id)  y == c.from + by  new == [c EXCEPT !.from = y]
           q == Swapped(p, {c}, {new})
<1>1. Slip(p, id, by).project = q
  BY DEF Slip, Tried, Refused
<1>2. c \in p.clips /\ IsProject(p)
  BY ClipOfIs DEF Sound
<1>3. c \in Clip /\ c.from \in Int /\ c.start \in Int /\ y \in Int
  BY <1>2, ClipIs
<1>4. AfterSlip(e, k, t) = IF k = c.track /\ Plays(c, t)
                           THEN {<<c.media, c.from + t - c.start + by>>} ELSE Shown(p, k, t)
  BY DEF AfterSlip, Plays
<1>5. y + t - c.start = c.from + t - c.start + by
  BY <1>3
<1> HIDE DEF c, y
<1>6. /\ new.track = c.track /\ (Plays(new, t) <=> Plays(c, t))
      /\ Picture(new, t) = <<c.media, c.from + t - c.start + by>>
  BY <1>3, <1>5 DEF Plays, Picture, EndOf, Clip
<1> HIDE DEF new
<1>7. ASSUME NEW x PROVE x \in Shown(q, k, t) <=> x \in AfterSlip(e, k, t)
  <2> DEFINE Sees(d) == d.track = k /\ Plays(d, t) /\ x = Picture(d, t)
  <2>1. x \in Shown(q, k, t) <=> (\E d \in p.clips \ {c} : Sees(d)) \/ (\E d \in {new} : Sees(d))
    BY <1>2, SwappedShows
  <2>2. x \in Shown(p, k, t) <=> \E d \in p.clips : Sees(d)
    BY ShownIs
  <2>3. CASE k = c.track /\ Plays(c, t)
    <3>1. ~ \E d \in p.clips \ {c} : Sees(d)
      BY <1>2, <2>3, OnlyOne
    <3>2. (\E d \in {new} : Sees(d)) <=> x = <<c.media, c.from + t - c.start + by>>
      BY <1>6, <2>3
    <3> HIDE DEF q, Sees
    <3> QED
      BY <1>4, <2>1, <2>3, <3>1, <3>2
  <2>4. CASE ~ (k = c.track /\ Plays(c, t))
    <3>1. ~ Sees(c) /\ ~ Sees(new)
      BY <1>6, <2>4
    <3> HIDE DEF q, Sees
    <3> QED
      BY <1>4, <2>1, <2>2, <2>4, <3>1
  <2> QED
    BY <2>3, <2>4
<1> QED
  BY <1>1, <1>7

-----------------------------------------------------------------------------
(* Inserting and overwriting. *)

\* What a sliver is, of one clip.
Short(c, cuts, t) ==
  \E at \in cuts : /\ Inside(c, at)
                   /\ \/ t \in c.start..at - 1    /\ at - c.start < Minimum
                      \/ t \in at..EndOf(c) - 1   /\ EndOf(c) - at < Minimum

LEMMA SliverIs ==
  ASSUME NEW p, NEW k, NEW cuts, NEW t
  PROVE  Sliver(p, k, cuts, t) <=> \E c \in p.clips : c.track = k /\ Short(c, cuts, t)
BY DEF Sliver, Short, OnTrack

LEMMA ShortPlays ==
  ASSUME NEW c \in Clip, NEW cuts \in SUBSET Int, NEW t \in Int, Short(c, cuts, t)
  PROVE  Plays(c, t)
<1>1. PICK at \in cuts : /\ Inside(c, at)
                         /\ \/ t \in c.start..at - 1    /\ at - c.start < Minimum
                            \/ t \in at..EndOf(c) - 1   /\ EndOf(c) - at < Minimum
  BY DEF Short
<1>2. at \in Int /\ c.start \in Int /\ EndOf(c) \in Int
  BY ClipFields
<1> QED
  BY <1>1, <1>2 DEF Plays, Inside

\* The parts of a clip that opens for length at an instant, seen before that
\* room and after it.
LEMMA OpenedShows ==
  ASSUME NEW c \in Clip, c.length > 0, NEW at \in Int, NEW length \in Int, length > 0,
         NEW t \in Int, t < at \/ t >= at + length, NEW x
  PROVE  LET u == IF t >= at + length THEN t - length ELSE t
         IN (\E d \in Opened(c, at, length) : Plays(d, t) /\ x = Picture(d, t))
              <=> Plays(c, u) /\ ~ Short(c, {at}, u) /\ x = Picture(c, u)
<1> DEFINE u == IF t >= at + length THEN t - length ELSE t
           Sees(d) == Plays(d, t) /\ x = Picture(d, t)
           h == HeadOf(c, at)  tail == TailOf(c, at, "insert-tail")
           y == c.start + length  moved == [c EXCEPT !.start = y]
           z == tail.start + length  late == [tail EXCEPT !.start = z]
<1>1. /\ c.start \in Int /\ c.from \in Int /\ c.length \in Int /\ EndOf(c) \in Int
      /\ EndOf(c) = c.start + c.length /\ u \in Int /\ Minimum \in Nat \ {0}
  BY ClipFields, MultitrackAssumption
<1>2. /\ h \in Clip /\ h.media = c.media /\ h.from = c.from /\ h.start = c.start /\ EndOf(h) = at
      /\ h.length = at - c.start
  BY HeadIs
<1>3. /\ tail \in Clip /\ tail.media = c.media /\ tail.from = c.from + at - c.start /\ tail.start = at
      /\ tail.length = EndOf(c) - at
  BY EditorAssumption, TailIs
<1>4. y \in Int /\ z \in Int /\ z = at + length
  BY <1>1, <1>3
<1>5. /\ Opened(c, at, length) = IF c.start >= at THEN {moved}
                                 ELSE IF EndOf(c) <= at THEN {c} ELSE LongEnough({h, late})
  BY DEF Opened
<1>y. y = c.start + length
  OBVIOUS
<1>u. u = IF t >= at + length THEN t - length ELSE t
  OBVIOUS
<1> HIDE DEF h, tail, y, z, u
<1>6. /\ moved \in Clip /\ moved.media = c.media /\ moved.from = c.from /\ moved.start = y
      /\ EndOf(moved) = y + c.length
  BY <1>4 DEF Clip, EndOf
<1>7. /\ late \in Clip /\ late.media = c.media /\ late.from = c.from + at - c.start
      /\ late.start = z /\ late.length = EndOf(c) - at /\ EndOf(late) = z + (EndOf(c) - at)
  BY <1>3, <1>4 DEF Clip, EndOf
<1> HIDE DEF moved, late
<1>8. Short(c, {at}, u) <=> /\ Inside(c, at)
                            /\ \/ c.start <= u /\ u < at /\ at - c.start < Minimum
                               \/ at <= u /\ u < EndOf(c) /\ EndOf(c) - at < Minimum
  BY <1>1 DEF Short
<1>9. CASE c.start >= at
  <2>1. ~ Inside(c, at) /\ Opened(c, at, length) = {moved}
    BY <1>1, <1>5, <1>9 DEF Inside
  <2>2. Plays(moved, t) <=> Plays(c, u)
    BY <1>1, <1>6, <1>9, <1>u, <1>y DEF Plays
  <2>3. Plays(moved, t) => Picture(moved, t) = Picture(c, u)
    <3>1. Plays(moved, t) => u = t - length
      BY <1>1, <1>6, <1>9, <1>u, <1>y DEF Plays
    <3>2. u = t - length => Picture(moved, t) = Picture(c, u)
      BY <1>1, <1>6, <1>y, SamePicture
    <3> QED
      BY <3>1, <3>2
  <2> QED
    BY <1>8, <2>1, <2>2, <2>3 DEF u
<1>10. CASE c.start < at /\ EndOf(c) <= at
  <2>1. ~ Inside(c, at) /\ Opened(c, at, length) = {c}
    BY <1>1, <1>5, <1>10 DEF Inside
  <2>2. (Plays(c, t) <=> Plays(c, u)) /\ (Plays(c, t) => u = t)
    BY <1>1, <1>10, <1>u DEF Plays
  <2> QED
    BY <1>8, <2>1, <2>2 DEF u
<1>11. CASE c.start < at /\ EndOf(c) > at
  <2>1. Inside(c, at) /\ Opened(c, at, length) = LongEnough({h, late})
    BY <1>1, <1>5, <1>11 DEF Inside
  <2>2. (\E d \in LongEnough({h, late}) : Sees(d))
          <=> (at - c.start >= Minimum /\ Sees(h)) \/ (EndOf(c) - at >= Minimum /\ Sees(late))
    BY <1>2, <1>7 DEF LongEnough
  <2>3. (Plays(h, t) <=> Plays(c, u) /\ u < at) /\ (Plays(h, t) => Picture(h, t) = Picture(c, u))
    <3>1. (Plays(h, t) <=> Plays(c, u) /\ u < at) /\ (Plays(h, t) => u = t)
      BY <1>1, <1>2, <1>11, <1>u DEF Plays
    <3>2. u = t => Picture(h, t) = Picture(c, u)
      BY <1>2 DEF Picture
    <3> QED
      BY <3>1, <3>2
  <2>4. /\ Plays(late, t) <=> Plays(c, u) /\ u >= at
        /\ Plays(late, t) => Picture(late, t) = Picture(c, u)
    <3>1. (Plays(late, t) <=> Plays(c, u) /\ u >= at) /\ (Plays(late, t) => u = t - length)
      BY <1>1, <1>4, <1>7, <1>11, <1>u DEF Plays
    <3>2. u = t - length => Picture(late, t) = Picture(c, u)
      BY <1>1, <1>4, <1>7, SamePicture
    <3> QED
      BY <3>1, <3>2
  <2> DEFINE Shows == \E d \in LongEnough({h, late}) : Sees(d)
  <2>5. Shows <=> Plays(c, u) /\ ~ Short(c, {at}, u) /\ x = Picture(c, u)
    <3>1. at - c.start \in Int /\ EndOf(c) - at \in Int
      BY <1>1
    <3>2. CASE u < at
      <4>1. ~ Sees(late) /\ (Sees(h) <=> Plays(c, u) /\ x = Picture(c, u))
        BY <1>1, <2>3, <2>4, <3>2
      <4>2. Plays(c, u) => (Short(c, {at}, u) <=> at - c.start < Minimum)
        BY <1>1, <1>8, <2>1, <3>2 DEF Plays
      <4>3. Shows <=> at - c.start >= Minimum /\ Sees(h)
        BY <2>2, <4>1
      <4>4. at - c.start >= Minimum <=> ~ (at - c.start < Minimum)
        BY <1>1, <3>1
      <4> HIDE DEF Sees, Shows
      <4> QED
        BY <4>1, <4>2, <4>3, <4>4
    <3>3. CASE u >= at
      <4>1. ~ Sees(h) /\ (Sees(late) <=> Plays(c, u) /\ x = Picture(c, u))
        BY <1>1, <2>3, <2>4, <3>3
      <4>2. Plays(c, u) => (Short(c, {at}, u) <=> EndOf(c) - at < Minimum)
        BY <1>1, <1>8, <2>1, <3>3 DEF Plays
      <4>3. Shows <=> EndOf(c) - at >= Minimum /\ Sees(late)
        BY <2>2, <4>1
      <4>4. EndOf(c) - at >= Minimum <=> ~ (EndOf(c) - at < Minimum)
        BY <1>1, <3>1
      <4> HIDE DEF Sees, Shows
      <4> QED
        BY <4>1, <4>2, <4>3, <4>4
    <3> HIDE DEF Shows
    <3>4. u < at \/ u >= at
      BY <1>1
    <3> QED
      BY <3>2, <3>3, <3>4
  <2> QED
    BY <2>1, <2>5 DEF u
<1> QED
  BY <1>1, <1>9, <1>10, <1>11

\* Clip c shows x at instant t.
Displays(c, t, x) == Plays(c, t) /\ x = Picture(c, t)

\* The parts of a clip that clears a range, seen outside it.
LEMMA ClearedShows ==
  ASSUME NEW c \in Clip, c.length > 0, NEW start \in Int, NEW end \in Int, start < end,
         NEW t \in Int, t < start \/ t >= end, NEW x
  PROVE  (\E d \in Cleared(c, start, end) : Displays(d, t, x))
           <=> ~ Short(c, {start, end}, t) /\ Displays(c, t, x)
<1> USE DEF Displays
<1> DEFINE Sees(d) == Plays(d, t) /\ x = Picture(d, t)
           h == HeadOf(c, start)  l == TailOf(c, end, "overwrite-tail")
           both == (IF c.start < start THEN {h} ELSE {}) \union (IF EndOf(c) > end THEN {l} ELSE {})
<1>1. /\ c.start \in Int /\ c.from \in Int /\ c.length \in Int /\ EndOf(c) \in Int
      /\ EndOf(c) = c.start + c.length /\ Minimum \in Nat \ {0}
  BY ClipFields, MultitrackAssumption
<1>2. /\ h \in Clip /\ h.media = c.media /\ h.from = c.from /\ h.start = c.start /\ EndOf(h) = start
      /\ h.length = start - c.start
  BY HeadIs
<1>3. /\ l \in Clip /\ l.media = c.media /\ l.from = c.from + end - c.start /\ l.start = end
      /\ l.length = EndOf(c) - end /\ EndOf(l) = EndOf(c)
  BY EditorAssumption, TailIs
<1>4. Cleared(c, start, end)
        = IF EndOf(c) <= start \/ c.start >= end THEN {c} ELSE LongEnough(both)
  BY DEF Cleared
<1> HIDE DEF h, l
<1>5. Short(c, {start, end}, t)
        <=> \/ /\ Inside(c, start)
               /\ \/ c.start <= t /\ t < start /\ start - c.start < Minimum
                  \/ start <= t /\ t < EndOf(c) /\ EndOf(c) - start < Minimum
            \/ /\ Inside(c, end)
               /\ \/ c.start <= t /\ t < end /\ end - c.start < Minimum
                  \/ end <= t /\ t < EndOf(c) /\ EndOf(c) - end < Minimum
  BY <1>1 DEF Short
<1>6. CASE EndOf(c) <= start \/ c.start >= end
  <2>1. ~ Inside(c, start) /\ ~ Inside(c, end)
    BY <1>1, <1>6 DEF Inside
  <2> QED
    BY <1>4, <1>5, <1>6, <2>1
<1>7. CASE ~ (EndOf(c) <= start \/ c.start >= end)
  <2> DEFINE Shows == \E d \in Cleared(c, start, end) : Sees(d)
  <2>1. Shows <=> \/ c.start < start /\ start - c.start >= Minimum /\ Sees(h)
                  \/ EndOf(c) > end /\ EndOf(c) - end >= Minimum /\ Sees(l)
    BY <1>2, <1>3, <1>4, <1>7 DEF LongEnough
  <2>2. CASE t < start
    <3>1. ~ Plays(l, t)
      BY <1>3, <2>2 DEF Plays
    <3>2. (Plays(h, t) <=> Plays(c, t)) /\ Picture(h, t) = Picture(c, t)
      BY <1>1, <1>2, <1>7, <2>2 DEF Plays, Picture
    <3>3. Plays(c, t) => c.start < start /\ (Short(c, {start, end}, t) <=> start - c.start < Minimum)
      BY <1>1, <1>5, <1>7, <2>2 DEF Plays, Inside
    <3>4. start - c.start >= Minimum <=> ~ (start - c.start < Minimum)
      BY <1>1
    <3> HIDE DEF Shows
    <3>5. Shows <=> Plays(c, t) /\ ~ Short(c, {start, end}, t) /\ x = Picture(c, t)
      BY <2>1, <3>1, <3>2, <3>3, <3>4
    <3> QED
      BY <3>5 DEF Shows
  <2>3. CASE t >= end
    <3>1. ~ Plays(h, t)
      BY <1>2, <2>3 DEF Plays
    <3>2. Plays(l, t) <=> Plays(c, t)
      BY <1>1, <1>3, <1>7, <2>3 DEF Plays
    <3>3. Picture(l, t) = Picture(c, t)
      BY <1>1, <1>3, SamePicture
    <3>4. Plays(c, t) => EndOf(c) > end /\ (Short(c, {start, end}, t) <=> EndOf(c) - end < Minimum)
      BY <1>1, <1>5, <1>7, <2>3 DEF Plays, Inside
    <3>5. EndOf(c) - end >= Minimum <=> ~ (EndOf(c) - end < Minimum)
      BY <1>1
    <3> HIDE DEF Shows
    <3>6. Shows <=> Plays(c, t) /\ ~ Short(c, {start, end}, t) /\ x = Picture(c, t)
      BY <2>1, <3>1, <3>2, <3>3, <3>4, <3>5
    <3> QED
      BY <3>6 DEF Shows
  <2> QED
    BY <2>2, <2>3
<1> QED
  BY <1>6, <1>7

LEMMA InsertShows ==
  ASSUME NEW p, Sound(p), NEW c \in Clip, c.track \in DOMAIN p.tracks,
         NEW mode \in {"insert", "overwrite"},
         NEW e, e.before = p, e.kind = mode, e.clip = c,
         InsertClip(p, c, mode).project # p,
         NEW k, NEW t \in Int
  PROVE  Shown(InsertClip(p, c, mode).project, k, t) = AfterInsert(e, k, t)
<1> DEFINE own == OnTrack(p, c.track)
           f == [d \in own |-> IF mode = "insert" THEN Opened(d, c.start, c.length)
                               ELSE Cleared(d, c.start, EndOf(c))]
           q == Swapped(p, own, (UNION Images(f, own)) \union {c})
           u == IF mode = "insert" /\ t >= EndOf(c) THEN t - c.length ELSE t
           cuts == {c.start} \union (IF mode = "overwrite" THEN {EndOf(c)} ELSE {})
<1>1. /\ InsertClip(p, c, mode).project = q /\ Valid(q) /\ c.length >= Minimum
  <2>1. UNION Images(f, own)
          = UNION {IF mode = "insert" THEN Opened(d, c.start, c.length)
                   ELSE Cleared(d, c.start, EndOf(c)) : d \in own}
    BY DEF Images
  <2>2. \/ InsertClip(p, c, mode).project = p
        \/ InsertClip(p, c, mode).project = Checked(p, q) /\ ~ (c.length < Minimum)
    BY <2>1 DEF InsertClip, Refused, Tried
  <2> HIDE DEF q
  <2>3. ~ (c.length < Minimum) => c.length >= Minimum
    BY ClipFields, MultitrackAssumption
  <2> QED
    BY <2>2, <2>3 DEF Checked
<1>2. /\ IsProject(p) /\ own \in SUBSET p.clips /\ \A d \in own : d \in Clip /\ d.track = c.track
  BY OnTrackIs DEF OnTrack, Sound
<1>3. /\ c.start \in Int /\ c.length \in Int /\ c.length > 0 /\ EndOf(c) = c.start + c.length
      /\ EndOf(c) \in Int /\ u \in Int
  BY <1>1, ClipFields, MultitrackAssumption
<1>4. AfterInsert(e, k, t)
        = IF k # c.track THEN Shown(p, k, t)
          ELSE IF c.start <= t /\ t < EndOf(c) THEN {Picture(c, t)}
          ELSE IF Sliver(p, k, cuts, u) THEN {} ELSE Shown(p, k, u)
  BY DEF AfterInsert
<1>5. Sound(q) /\ c \in q.clips
  <2>1. Sound(q)
    BY <1>1, InsertSound
  <2>2. c \in q.clips
    BY <1>2, SwappedIs
  <2> QED
    BY <2>1, <2>2
<1>6. ASSUME NEW d \in own PROVE \A g \in f[d] : g.track = c.track
  BY <1>2, <1>3, OpenedIs, ClearedIs
<1>7. ASSUME NEW x
      PROVE  x \in Shown(q, k, t)
               <=> \/ \E d \in p.clips \ own : d.track = k /\ Plays(d, t) /\ x = Picture(d, t)
                   \/ \E d \in own : \E g \in f[d] : g.track = k /\ Plays(g, t) /\ x = Picture(g, t)
                   \/ c.track = k /\ Plays(c, t) /\ x = Picture(c, t)
  <2> DEFINE Sees(d) == d.track = k /\ Plays(d, t) /\ x = Picture(d, t)
             new == (UNION Images(f, own)) \union {c}
  <2>1. x \in Shown(q, k, t) <=> (\E d \in p.clips \ own : Sees(d)) \/ (\E d \in new : Sees(d))
    BY <1>2, SwappedShows
  <2>2. (\E d \in new : Sees(d)) <=> (\E d \in own : \E g \in f[d] : Sees(g)) \/ Sees(c)
    <3> HIDE DEF Sees, f
    <3> QED
      BY DEF Images
  <2> HIDE DEF q, new, f
  <2> QED
    BY <2>1, <2>2
<1>8. CASE k # c.track
  <2>1. ASSUME NEW x PROVE x \in Shown(q, k, t) <=> x \in Shown(p, k, t)
    <3>1. x \in Shown(p, k, t)
            <=> \E d \in p.clips : d.track = k /\ Plays(d, t) /\ x = Picture(d, t)
      BY ShownIs
    <3> HIDE DEF q, f
    <3> QED
      BY <1>2, <1>6, <1>7, <1>8, <3>1
  <2> HIDE DEF q
  <2> QED
    BY <1>1, <1>4, <1>8, <2>1
<1>9. CASE k = c.track /\ c.start <= t /\ t < EndOf(c)
  <2> HIDE DEF q
  <2>1. Plays(c, t)
    BY <1>9 DEF Plays
  <2>2. Shown(q, c.track, t) = {Picture(c, t)}
    BY <1>5, <2>1, Alone
  <2> QED
    BY <1>1, <1>4, <1>9, <2>2
<1>10. CASE k = c.track /\ ~ (c.start <= t /\ t < EndOf(c))
  <2>0. t < c.start \/ t >= c.start + c.length
    BY <1>3, <1>10
  <2>1. ASSUME NEW d \in own, NEW x
        PROVE  (\E g \in f[d] : Plays(g, t) /\ x = Picture(g, t))
                 <=> Plays(d, u) /\ ~ Short(d, cuts, u) /\ x = Picture(d, u)
    <3>1. d \in Clip /\ d.length > 0
      BY <1>2, ClipIs
    <3>2. CASE mode = "insert"
      <4>1. u = IF t >= c.start + c.length THEN t - c.length ELSE t
        BY <1>3, <3>2
      <4>2. f[d] = Opened(d, c.start, c.length) /\ cuts = {c.start}
        BY <3>2
      <4> HIDE DEF f, u, cuts, own, q
      <4> DEFINE v == IF t >= c.start + c.length THEN t - c.length ELSE t
      <4>3. (\E g \in Opened(d, c.start, c.length) : Plays(g, t) /\ x = Picture(g, t))
              <=> Plays(d, v) /\ ~ Short(d, {c.start}, v) /\ x = Picture(d, v)
        <5>1. PICK at \in Int : at = c.start
          BY <1>3
        <5>2. PICK length \in Int : length = c.length
          BY <1>3
        <5>3. length > 0 /\ (t < at \/ t >= at + length)
          BY <1>3, <2>0, <5>1, <5>2
        <5>4. (\E g \in Opened(d, at, length) : Plays(g, t) /\ x = Picture(g, t))
                <=> LET w == IF t >= at + length THEN t - length ELSE t
                    IN Plays(d, w) /\ ~ Short(d, {at}, w) /\ x = Picture(d, w)
          BY <3>1, <5>3, OpenedShows, ZenonT(60)
        <5> QED
          BY <5>1, <5>2, <5>4
      <4> HIDE DEF v
      <4>4. u = v
        BY <4>1 DEF v
      <4> QED
        BY <4>2, <4>3, <4>4
    <3>3. CASE mode = "overwrite"
      <4>1. u = t /\ f[d] = Cleared(d, c.start, EndOf(c)) /\ cuts = {c.start, EndOf(c)}
        BY <3>3
      <4>2. c.start < EndOf(c) /\ (t < c.start \/ t >= EndOf(c))
        BY <1>3, <2>0
      <4> HIDE DEF f, u, cuts, own, q
      <4>3. (\E g \in Cleared(d, c.start, EndOf(c)) : Plays(g, t) /\ x = Picture(g, t))
              <=> Plays(d, t) /\ ~ Short(d, {c.start, EndOf(c)}, t) /\ x = Picture(d, t)
        <5>1. PICK start \in Int : start = c.start
          BY <1>3
        <5>2. PICK end \in Int : end = EndOf(c)
          BY <1>3
        <5>3. start < end /\ (t < start \/ t >= end)
          BY <4>2, <5>1, <5>2
        <5>4. (\E g \in Cleared(d, start, end) : Displays(g, t, x))
                <=> ~ Short(d, {start, end}, t) /\ Displays(d, t, x)
          BY <3>1, <5>3, ClearedShows
        <5> QED
          BY <5>1, <5>2, <5>4 DEF Displays
      <4> QED
        BY <4>1, <4>3
    <3> QED
      BY <3>2, <3>3
  <2>2. ASSUME NEW x
        PROVE  x \in Shown(q, k, t)
                 <=> \E d \in own : Plays(d, u) /\ ~ Short(d, cuts, u) /\ x = Picture(d, u)
    <3>1. ~ Plays(c, t) /\ ~ \E d \in p.clips \ own : d.track = k
      BY <1>10 DEF Plays, OnTrack
    <3> HIDE DEF q, f, u, cuts, own
    <3>2. \A d \in own : (\E g \in f[d] : g.track = k /\ Plays(g, t) /\ x = Picture(g, t))
                           <=> Plays(d, u) /\ ~ Short(d, cuts, u) /\ x = Picture(d, u)
      BY <1>6, <1>10, <2>1
    <3> QED
      BY <1>7, <3>1, <3>2
  <2>3. CASE Sliver(p, k, cuts, u)
    <3>1. PICK s \in p.clips : s.track = k /\ Short(s, cuts, u)
      BY <2>3, SliverIs
    <3>2. s \in own /\ Plays(s, u)
      <4>1. s \in Clip /\ cuts \in SUBSET Int
        BY <1>2, <1>3 DEF IsProject
      <4> HIDE DEF cuts, u
      <4> QED
        BY <1>3, <1>10, <3>1, <4>1, ShortPlays DEF OnTrack
    <3>3. ASSUME NEW d \in own, Plays(d, u) PROVE d = s
      <4> HIDE DEF u
      <4> QED
        BY <1>2, <1>3, <3>2, <3>3, OnlyOne
    <3> HIDE DEF q, u, cuts, own
    <3>4. ASSUME NEW x PROVE x \notin Shown(q, k, t)
      BY <2>2, <3>1, <3>3
    <3>5. Shown(q, k, t) = {}
      BY <3>4
    <3> QED
      BY <1>1, <1>4, <1>10, <2>3, <3>5
  <2>4. CASE ~ Sliver(p, k, cuts, u)
    <3>1. \A d \in own : ~ Short(d, cuts, u)
      BY <1>10, <2>4, SliverIs DEF OnTrack
    <3>2. ASSUME NEW x PROVE x \in Shown(p, k, u) <=> \E d \in own : Plays(d, u) /\ x = Picture(d, u)
      BY <1>10, AtIs DEF Shown, Plays
    <3> HIDE DEF q, u, cuts, own
    <3>3. ASSUME NEW x PROVE x \in Shown(q, k, t) <=> x \in Shown(p, k, u)
      BY <2>2, <3>1, <3>2
    <3>4. Shown(q, k, t) = Shown(p, k, u)
      BY <3>3
    <3> QED
      BY <1>1, <1>4, <1>10, <2>4, <3>4
  <2> QED
    BY <2>3, <2>4
<1> QED
  BY <1>8, <1>9, <1>10

-----------------------------------------------------------------------------
(* Sliding a clip between its neighbours. *)

\* The neighbours of a clip: one touches its start, one its end.
LEMMA NeighboursAre ==
  ASSUME NEW p, Sound(p), NEW c \in p.clips, NEW l \in p.clips, NEW r \in p.clips,
         l.track = c.track, EndOf(l) = c.start, r.track = c.track, r.start = EndOf(c)
  PROVE  /\ {d \in OnTrack(p, c.track) : EndOf(d) = c.start} = {l}
         /\ {d \in OnTrack(p, c.track) : d.start = EndOf(c)} = {r}
         /\ (CHOOSE d \in OnTrack(p, c.track) : EndOf(d) = c.start) = l
         /\ (CHOOSE d \in OnTrack(p, c.track) : d.start = EndOf(c)) = r
<1> DEFINE own == OnTrack(p, c.track)
<1>1. l \in own /\ r \in own
  BY DEF OnTrack
<1>2. ASSUME NEW d \in own, EndOf(d) = c.start PROVE d = l
  <2>1. d \in p.clips /\ d.track = c.track
    BY DEF OnTrack
  <2>2. c.start - 1 \in Int /\ Plays(d, c.start - 1) /\ Plays(l, c.start - 1)
    BY <1>2, <2>1, ClipIs DEF Plays
  <2> HIDE DEF own
  <2> QED
    BY <2>1, <2>2, OnlyOne
<1>3. ASSUME NEW d \in own, d.start = EndOf(c) PROVE d = r
  <2>1. d \in p.clips /\ d.track = c.track
    BY DEF OnTrack
  <2>2. EndOf(c) \in Int /\ Plays(d, EndOf(c)) /\ Plays(r, EndOf(c))
    BY <1>3, <2>1, ClipIs DEF Plays
  <2> HIDE DEF own
  <2> QED
    BY <2>1, <2>2, OnlyOne
<1> HIDE DEF own
<1>4. {d \in own : EndOf(d) = c.start} = {l} /\ {d \in own : d.start = EndOf(c)} = {r}
  BY <1>1, <1>2, <1>3
<1>5. (CHOOSE d \in own : EndOf(d) = c.start) = l /\ (CHOOSE d \in own : d.start = EndOf(c)) = r
  BY <1>1, <1>2, <1>3
<1> QED
  BY <1>4, <1>5 DEF own

LEMMA SlideShows ==
  ASSUME NEW p, Sound(p), NEW id \in IdsOf(p.clips), NEW by \in Int,
         NEW e, e.before = p, e.id = id, e.by = by,
         Slide(p, id, by).project # p,
         NEW k, NEW t \in Int
  PROVE  Shown(Slide(p, id, by).project, k, t) = AfterSlide(e, k, t)
<1> DEFINE c == ClipOf(p, id)
           early == {d \in OnTrack(p, c.track) : EndOf(d) = c.start}
           late  == {d \in OnTrack(p, c.track) : d.start = EndOf(c)}
           outer == {HeadOf(d, EndOf(d) + by) : d \in early} \union {Trimmed(d, by, - by) : d \in late}
<1>1. /\ early # {} /\ late # {} /\ LongEnough(outer) = outer
      /\ Slide(p, id, by).project
           = Checked(p, Swapped(p, early \union {c} \union late,
                                outer \union {[c EXCEPT !.start = @ + by]}))
  BY DEF Slide, Tried, Refused
<1>2. c \in p.clips /\ IsProject(p)
  BY ClipOfIs DEF Sound
<1>3. PICK l \in p.clips : l.track = c.track /\ EndOf(l) = c.start
  BY <1>1 DEF OnTrack
<1>4. PICK r \in p.clips : r.track = c.track /\ r.start = EndOf(c)
  BY <1>1 DEF OnTrack
<1>5. /\ early = {l} /\ late = {r}
      /\ (CHOOSE d \in OnTrack(p, c.track) : EndOf(d) = c.start) = l
      /\ (CHOOSE d \in OnTrack(p, c.track) : d.start = EndOf(c)) = r
  <2> HIDE DEF c
  <2> QED
    BY <1>2, <1>3, <1>4, NeighboursAre DEF c
<1>6. AfterSlide(e, k, t)
        = IF k # c.track \/ t < l.start \/ t >= EndOf(r) THEN Shown(p, k, t)
          ELSE IF t < c.start + by THEN {Picture(l, t)}
          ELSE IF t < EndOf(c) + by THEN {Picture(c, t - by)} ELSE {Picture(r, t)}
  BY <1>5 DEF AfterSlide
<1> DEFINE l2 == HeadOf(l, EndOf(l) + by)  r2 == Trimmed(r, by, - by)
           x == c.start + by  c2 == [c EXCEPT !.start = x]
           q == Swapped(p, {l, c, r}, {l2, r2, c2})
<1>7. /\ Slide(p, id, by).project = q /\ Valid(q)
      /\ l2.length >= Minimum /\ r2.length >= Minimum
  <2>1. outer = {l2, r2}
    BY <1>5
  <2>2. early \union {c} \union late = {l, c, r} /\ outer \union {c2} = {l2, r2, c2}
    BY <1>5, <2>1
  <2>3. l2.length >= Minimum /\ r2.length >= Minimum
    BY <1>1, <2>1 DEF LongEnough
  <2>4. Slide(p, id, by).project = Checked(p, q)
    BY <1>1, <2>2
  <2> HIDE DEF q, l2, r2
  <2> QED
    BY <2>3, <2>4 DEF Checked
<1> HIDE DEF early, late, outer
<1>8. /\ c \in Clip /\ c.start \in Int /\ c.from \in Int /\ EndOf(c) \in Int /\ c.length \in Int
      /\ EndOf(c) = c.start + c.length /\ c.length > 0 /\ x \in Int /\ x = c.start + by
      /\ l \in Clip /\ l.start \in Int /\ l.from \in Int /\ EndOf(l) \in Int
      /\ r \in Clip /\ r.start \in Int /\ r.from \in Int /\ EndOf(r) \in Int /\ r.length \in Int
      /\ EndOf(r) = r.start + r.length /\ Minimum \in Nat \ {0}
  BY <1>2, ClipIs, MultitrackAssumption
<1> HIDE DEF c, x
<1>9. /\ l2 \in Clip /\ l2.track = l.track /\ l2.media = l.media /\ l2.from = l.from
      /\ l2.start = l.start /\ EndOf(l2) = x /\ l2.length = x - l.start
  <2>1. EndOf(l) + by = x /\ l2 = HeadOf(l, EndOf(l) + by)
    BY <1>3, <1>8
  <2> HIDE DEF l2, q, r2, c2
  <2>2. l2 = HeadOf(l, x)
    BY <2>1
  <2>3. LET d == HeadOf(l, x)
        IN /\ d \in Clip /\ d.track = l.track /\ d.media = l.media /\ d.from = l.from
           /\ d.start = l.start /\ EndOf(d) = x /\ d.length = x - l.start
    BY <1>8, HeadIs, ZenonT(60)
  <2> QED
    BY <2>2, <2>3
<1>10. /\ r2 \in Clip /\ r2.track = r.track /\ r2.media = r.media /\ r2.from = r.from + by
       /\ r2.start = EndOf(c) + by /\ r2.length = r.length - by /\ EndOf(r2) = EndOf(r)
  <2>1. - by \in Int
    OBVIOUS
  <2>2. /\ r2 \in Clip /\ r2.track = r.track /\ r2.media = r.media /\ r2.from = r.from + by
        /\ r2.start = r.start + by /\ r2.length = r.length + (- by)
    BY <1>8, <2>1, TrimmedIs
  <2>3. r.length + (- by) = r.length - by /\ r.start + by + (r.length - by) = EndOf(r)
    BY <1>8
  <2> HIDE DEF r2
  <2> QED
    BY <1>4, <2>2, <2>3 DEF EndOf
<1>11. /\ c2 \in Clip /\ c2.track = c.track /\ c2.media = c.media /\ c2.from = c.from
       /\ c2.start = x /\ EndOf(c2) = x + c.length /\ x + c.length = EndOf(c) + by
  <2>1. /\ c2 \in Clip /\ c2.track = c.track /\ c2.media = c.media /\ c2.from = c.from
        /\ c2.start = x /\ c2.length = c.length
    BY <1>8 DEF Clip
  <2> HIDE DEF c2
  <2>2. EndOf(c2) = x + c.length
    BY <2>1 DEF EndOf
  <2>3. x + c.length = EndOf(c) + by
    BY <1>8
  <2> QED
    BY <2>1, <2>2, <2>3
<1> HIDE DEF l2, r2, c2
<1>12. /\ l.start < x /\ x < EndOf(c) + by /\ EndOf(c) + by < EndOf(r)
       /\ l.start < c.start /\ c.start < EndOf(c) /\ EndOf(c) < EndOf(r)
  <2>1. x - l.start > 0 /\ r.length - by > 0
    BY <1>7, <1>8, <1>9, <1>10
  <2>2. l.start < c.start /\ EndOf(c) < EndOf(r)
    BY <1>3, <1>4, ClipIs
  <2> QED
    BY <1>4, <1>8, <2>1, <2>2
<1>13. Sound(q) /\ l2 \in q.clips /\ r2 \in q.clips /\ c2 \in q.clips
  <2>1. Sound(Slide(p, id, by).project)
    BY SlideSound
  <2>2. q.clips = (p.clips \ {l, c, r}) \union {l2, r2, c2}
    BY <1>2, SwappedIs
  <2> HIDE DEF q
  <2> QED
    BY <1>7, <2>1, <2>2
<1>14. CASE k # c.track \/ t < l.start \/ t >= EndOf(r)
  <2>1. ASSUME NEW y PROVE y \in Shown(q, k, t) <=> y \in Shown(p, k, t)
    <3> DEFINE Sees(d) == d.track = k /\ Plays(d, t) /\ y = Picture(d, t)
    <3>1. y \in Shown(q, k, t)
            <=> (\E d \in p.clips \ {l, c, r} : Sees(d)) \/ (\E d \in {l2, r2, c2} : Sees(d))
      BY <1>2, SwappedShows
    <3>2. y \in Shown(p, k, t) <=> \E d \in p.clips : Sees(d)
      BY ShownIs
    <3>3. ~ Sees(l) /\ ~ Sees(c) /\ ~ Sees(r)
      BY <1>3, <1>4, <1>8, <1>12, <1>14 DEF Plays
    <3>4. ~ Sees(l2) /\ ~ Sees(c2) /\ ~ Sees(r2)
      BY <1>3, <1>4, <1>8, <1>9, <1>10, <1>11, <1>12, <1>14 DEF Plays
    <3> HIDE DEF Sees, q
    <3> QED
      BY <3>1, <3>2, <3>3, <3>4
  <2> HIDE DEF q
  <2> QED
    BY <1>6, <1>7, <1>14, <2>1
<1>15. CASE k = c.track /\ l.start <= t /\ t < EndOf(r)
  <2> HIDE DEF q
  <2>1. CASE t < x
    <3>1. Plays(l2, t) /\ Picture(l2, t) = Picture(l, t)
      BY <1>9, <1>15, <2>1 DEF Plays, Picture
    <3>2. Shown(q, k, t) = {Picture(l2, t)}
      BY <1>3, <1>9, <1>13, <1>15, <3>1, Alone
    <3> QED
      BY <1>6, <1>7, <1>8, <1>15, <2>1, <3>1, <3>2
  <2>2. CASE t >= x /\ t < EndOf(c) + by
    <3>1. Plays(c2, t)
      BY <1>11, <2>2 DEF Plays
    <3>2. Picture(c2, t) = Picture(c, t - by)
      <4>1. t - by \in Int /\ c.from + t - x = c.from + (t - by) - c.start
        BY <1>8
      <4> QED
        BY <1>8, <1>11, <4>1, SamePicture, SMTT(30)
    <3>3. Shown(q, k, t) = {Picture(c2, t)}
      BY <1>11, <1>13, <1>15, <3>1, Alone
    <3> QED
      BY <1>6, <1>7, <1>8, <1>15, <2>2, <3>2, <3>3
  <2>3. CASE t >= x /\ t >= EndOf(c) + by
    <3>1. Plays(r2, t)
      BY <1>10, <1>15, <2>3 DEF Plays
    <3>2. Picture(r2, t) = Picture(r, t)
      <4>1. r.from + by + t - (EndOf(c) + by) = r.from + t - r.start
        BY <1>4, <1>8
      <4> QED
        BY <1>8, <1>10, <4>1, SamePicture, SMTT(30)
    <3>3. Shown(q, k, t) = {Picture(r2, t)}
      BY <1>4, <1>10, <1>13, <1>15, <3>1, Alone
    <3> QED
      BY <1>6, <1>7, <1>8, <1>15, <2>3, <3>2, <3>3
  <2> QED
    BY <1>8, <2>1, <2>2, <2>3
<1> QED
  BY <1>8, <1>14, <1>15

-----------------------------------------------------------------------------
(* Rippling edits. *)

LEMMA ShowsIs ==
  ASSUME NEW p, NEW k, NEW t, NEW x
  PROVE  x \in Shown(p, k, t) <=> \E c \in p.clips : c.track = k /\ Displays(c, t, x)
BY ShownIs DEF Displays

\* A valid project shows at most one picture of a track at a time.
LEMMA AtMostOne ==
  ASSUME NEW p, Sound(p), NEW k, NEW t \in Int, NEW x \in Shown(p, k, t) PROVE Shown(p, k, t) = {x}
<1>1. PICK c \in p.clips : c.track = k /\ Plays(c, t) /\ x = Picture(c, t)
  BY ShownIs
<1>2. Shown(p, c.track, t) = {Picture(c, t)}
  BY <1>1, Alone
<1> QED
  BY <1>1, <1>2

LEMMA InstantsAre ==
  ASSUME NEW p, Sound(p)
  PROVE  /\ Instants(p) \subseteq Int
         /\ \A c \in p.clips, t \in Int : Plays(c, t) => t \in Instants(p)
<1> DEFINE f == [c \in p.clips |-> EndOf(c)]  ends == {0} \union Images(f, p.clips)
<1>1. Instants(p) = 0..Max(ends)
  BY DEF Instants, Images
<1>2. ends \subseteq Int /\ ends # {} /\ \A c \in p.clips : EndOf(c) \in ends
  <2>1. \A c \in p.clips : EndOf(c) \in Int
    BY ClipIs
  <2>2. \A y : y \in Images(f, p.clips) <=> \E c \in p.clips : y = EndOf(c)
    BY DEF Images
  <2> HIDE DEF f
  <2> QED
    BY <2>1, <2>2
<1>3. IsFiniteSet(ends)
  <2>1. IsFiniteSet(Images(f, p.clips))
    BY ImageFinite DEF Sound, IsProject
  <2> HIDE DEF f
  <2> QED
    BY <2>1, FS_Singleton, FS_Union
<1> HIDE DEF ends
<1>4. Max(ends) \in Int /\ \A y \in ends : Max(ends) >= y
  BY <1>2, <1>3, GreatestOf
<1>5. PICK m \in Int : m = Max(ends)
  BY <1>4
<1>6. ASSUME NEW c \in p.clips, NEW t \in Int, Plays(c, t) PROVE t \in 0..m
  <2>1. EndOf(c) <= m
    BY <1>2, <1>4, <1>5
  <2> QED
    BY <1>6, <2>1, ClipIs DEF Plays
<1> QED
  BY <1>1, <1>5, <1>6

LEMMA FilmIs ==
  ASSUME NEW p, Sound(p), NEW k, NEW x
  PROVE  x \in Film(p, k) <=> \E t \in Int : x \in Shown(p, k, t)
<1>1. x \in Film(p, k) <=> \E t \in Instants(p) : x \in Shown(p, k, t)
  BY DEF Film
<1>2. ASSUME NEW t \in Int, x \in Shown(p, k, t) PROVE t \in Instants(p)
  BY <1>2, ShownIs, InstantsAre
<1> QED
  BY <1>1, <1>2, InstantsAre

\* Clips that move to the front by some are seen that much earlier.
ShowsEarly(w, tracks, end, by, k, t, x) ==
  \E c \in w.clips : /\ c.track = k
                     /\ IF c.track \in tracks /\ c.start >= end
                        THEN Displays(c, t + by, x) ELSE Displays(c, t, x)
LEMMA ShiftedShows ==
  ASSUME NEW w, Sound(w), NEW tracks, NEW end \in Int, NEW by \in Int, NEW back \in Int, back = - by,
         NEW k, NEW t \in Int, NEW x
  PROVE  x \in Shown(Shifted(w, tracks, end, back), k, t)
           <=> ShowsEarly(w, tracks, end, by, k, t, x)
<1> DEFINE moved == {c \in w.clips : c.track \in tracks /\ c.start >= end}
           f == [c \in moved |-> [c EXCEPT !.start = @ + back]]
           new == Images(f, moved)
<1>1. IsProject(w) /\ moved \subseteq w.clips /\ t + by \in Int
  BY DEF Sound
<1>2. Shifted(w, tracks, end, back) = Swapped(w, moved, new)
  BY DEF Shifted, Images
<1>3. ASSUME NEW c \in moved
      PROVE  f[c].track = c.track /\ (Displays(f[c], t, x) <=> Displays(c, t + by, x))
  <2>1. PICK y \in Int : y = c.start + back
    BY <1>1, ClipIs
  <2> DEFINE d == [c EXCEPT !.start = y]
  <2>2. c \in Clip /\ c.start \in Int /\ c.from \in Int /\ EndOf(c) \in Int /\ c.length \in Int
        /\ EndOf(c) = c.start + c.length
    BY <1>1, ClipIs
  <2>3. d \in Clip /\ d.track = c.track /\ d.media = c.media /\ d.from = c.from /\ d.start = y
        /\ d.length = c.length
    BY <2>2 DEF Clip
  <2>4. f[c] = d
    BY <2>1
  <2> HIDE DEF d, moved, f
  <2>5. EndOf(d) = y + c.length
    BY <2>3 DEF EndOf
  <2>6. Plays(d, t) <=> Plays(c, t + by)
    BY <2>1, <2>2, <2>3, <2>5 DEF Plays
  <2>7. Picture(d, t) = Picture(c, t + by)
    <3>1. c.from + t - y = c.from + (t + by) - c.start
      BY <2>1, <2>2
    <3> QED
      BY <1>1, <2>2, <2>3, <3>1, SamePicture
  <2> QED
    BY <2>3, <2>4, <2>6, <2>7 DEF Displays
<1>4. x \in Shown(Swapped(w, moved, new), k, t)
        <=> \/ \E c \in w.clips \ moved : c.track = k /\ Displays(c, t, x)
            \/ \E c \in new : c.track = k /\ Displays(c, t, x)
  <2> HIDE DEF moved, new
  <2> QED
    BY <1>1, SwappedShows DEF Displays
<1>5. (\E c \in new : c.track = k /\ Displays(c, t, x))
        <=> \E c \in moved : c.track = k /\ Displays(c, t + by, x)
  <2> HIDE DEF moved, f
  <2> QED
    BY <1>3 DEF Images
<1>6. \A c \in w.clips : c \in moved <=> c.track \in tracks /\ c.start >= end
  OBVIOUS
<1> HIDE DEF moved, f, new
<1> QED
  BY <1>1, <1>2, <1>4, <1>5, <1>6 DEF ShowsEarly

LEMMA RippleShows ==
  ASSUME NEW w, Sound(w), NEW at \in Int, NEW end \in Int, at < end, NEW by \in Int, by = end - at,
         NEW back \in Int, back = - by, NEW own \in Unlocked(w),
         \A c \in w.clips : c.track = own => ~ (c.start < end /\ EndOf(c) > at),
         NEW q, q = Shifted(w, Unlocked(w), end, back), Sound(q),
         NEW k \in DOMAIN w.tracks
  PROVE  /\ Film(q, k) = Film(w, k)
         /\ \A t \in Int : Shown(q, k, t) \in AfterRipple(w, at, by, own, k, t)
<1> DEFINE moves(c) == k \in Unlocked(w) /\ c.start >= end
<1>1. ASSUME NEW t \in Int, NEW x
      PROVE  x \in Shown(q, k, t)
               <=> \E c \in w.clips : /\ c.track = k
                                      /\ IF moves(c) THEN Displays(c, t + by, x) ELSE Displays(c, t, x)
  <2>1. x \in Shown(Shifted(w, Unlocked(w), end, back), k, t)
           <=> \E c \in w.clips : /\ c.track = k
                                  /\ IF c.track \in Unlocked(w) /\ c.start >= end
                                     THEN Displays(c, t + by, x) ELSE Displays(c, t, x)
    <3>1. x \in Shown(Shifted(w, Unlocked(w), end, back), k, t)
             <=> ShowsEarly(w, Unlocked(w), end, by, k, t, x)
      BY ShiftedShows
    <3> QED
      BY <3>1 DEF ShowsEarly
  <2> QED
    BY <2>1
<1>2. ASSUME NEW c \in w.clips
      PROVE  c.start \in Int /\ EndOf(c) \in Int /\ c.start < EndOf(c)
  BY ClipIs
<1>3. ASSUME NEW x PROVE x \in Film(q, k) <=> x \in Film(w, k)
  <2>1. x \in Film(q, k) <=> \E t \in Int : x \in Shown(q, k, t)
    BY FilmIs
  <2>2. x \in Film(w, k) <=> \E t \in Int : x \in Shown(w, k, t)
    BY FilmIs
  <2>3. ASSUME NEW t \in Int, x \in Shown(q, k, t) PROVE \E u \in Int : x \in Shown(w, k, u)
    <3>1. PICK c \in w.clips : /\ c.track = k
                               /\ IF moves(c) THEN Displays(c, t + by, x) ELSE Displays(c, t, x)
      BY <1>1, <2>3
    <3>2. t + by \in Int
      OBVIOUS
    <3> QED
      BY <3>1, <3>2, ShowsIs
  <2>4. ASSUME NEW t \in Int, x \in Shown(w, k, t) PROVE \E u \in Int : x \in Shown(q, k, u)
    <3>1. PICK c \in w.clips : c.track = k /\ Displays(c, t, x)
      BY <2>4, ShowsIs
    <3>2. CASE moves(c)
      <4>1. PICK u \in Int : u = t - by /\ u + by = t
        OBVIOUS
      <4>2. x \in Shown(q, k, u)
        BY <1>1, <3>1, <3>2, <4>1
      <4> QED
        BY <4>2
    <3>3. CASE ~ moves(c)
      <4>1. x \in Shown(q, k, t)
        BY <1>1, <3>1, <3>3
      <4> QED
        BY <4>1
    <3> QED
      BY <3>2, <3>3
  <2> QED
    BY <2>1, <2>2, <2>3, <2>4
<1>4. ASSUME NEW t \in Int PROVE Shown(q, k, t) \in AfterRipple(w, at, by, own, k, t)
  <2> DEFINE now == Shown(w, k, t)  later == Shown(w, k, t + by)  seen == Shown(q, k, t)
  <2>0. t + by \in Int /\ (w.tracks[k].locked <=> k \notin Unlocked(w))
    BY DEF Unlocked
  <2>1. ASSUME NEW x
        PROVE /\ x \in now <=> \E c \in w.clips : c.track = k /\ Displays(c, t, x)
              /\ x \in later <=> \E c \in w.clips : c.track = k /\ Displays(c, t + by, x)
    BY ShowsIs
  <2>2. CASE t < at \/ k \notin Unlocked(w)
    <3>1. ASSUME NEW x PROVE x \in seen <=> x \in now
      <4>1. ASSUME NEW c \in w.clips, moves(c) PROVE ~ Displays(c, t + by, x) /\ ~ Displays(c, t, x)
        BY <1>2, <2>2, <4>1 DEF Displays, Plays
      <4> HIDE DEF moves, now, later
      <4> QED
        BY <1>1, <2>1, <4>1
    <3>2. seen = now
      BY <3>1
    <3> QED
      BY <2>0, <2>2, <3>2 DEF AfterRipple
  <2>3. CASE t >= at /\ k = own
    <3>1. ASSUME NEW x PROVE x \in seen <=> x \in later
      <4>1. ASSUME NEW c \in w.clips, c.track = k, ~ moves(c)
            PROVE  ~ Displays(c, t + by, x) /\ ~ Displays(c, t, x)
        BY <1>2, <2>3, <4>1 DEF Displays, Plays
      <4> HIDE DEF moves, now, later
      <4> QED
        BY <1>1, <2>1, <4>1
    <3>2. seen = later
      BY <3>1
    <3> QED
      BY <2>0, <2>3, <3>2 DEF AfterRipple
  <2>4. CASE t >= at /\ k # own /\ k \in Unlocked(w)
    <3>1. AfterRipple(w, at, by, own, k, t) = {later, now}
      BY <2>0, <2>4 DEF AfterRipple
    <3>2. CASE \E c \in w.clips : c.track = k /\ ~ moves(c) /\ Plays(c, t)
      <4>1. PICK c \in w.clips : c.track = k /\ ~ moves(c) /\ Plays(c, t)
        BY <3>2
      <4>2. now = {Picture(c, t)}
        BY <4>1, Alone
      <4>3. Picture(c, t) \in seen
        BY <1>1, <4>1 DEF Displays
      <4>4. seen = {Picture(c, t)}
        BY <4>3, AtMostOne
      <4> QED
        BY <3>1, <4>2, <4>4
    <3>3. CASE \E c \in w.clips : c.track = k /\ moves(c) /\ Plays(c, t + by)
      <4>1. PICK c \in w.clips : c.track = k /\ moves(c) /\ Plays(c, t + by)
        BY <3>3
      <4>2. later = {Picture(c, t + by)}
        BY <2>0, <4>1, Alone
      <4>3. Picture(c, t + by) \in seen
        BY <1>1, <4>1 DEF Displays
      <4>4. seen = {Picture(c, t + by)}
        BY <4>3, AtMostOne
      <4> QED
        BY <3>1, <4>2, <4>4
    <3>4. CASE /\ ~ \E c \in w.clips : c.track = k /\ ~ moves(c) /\ Plays(c, t)
               /\ ~ \E c \in w.clips : c.track = k /\ moves(c) /\ Plays(c, t + by)
      <4>1. seen = {}
        <5>1. ASSUME NEW x PROVE x \notin seen
          <6> HIDE DEF moves
          <6> QED
            BY <1>1, <3>4 DEF Displays
        <5> QED
          BY <5>1
      <4>2. now = {} \/ later = {}
        <5> SUFFICES ASSUME NEW x \in now, NEW y \in later PROVE FALSE
          OBVIOUS
        <5>1. PICK c \in w.clips : c.track = k /\ Displays(c, t, x)
          BY <2>1
        <5>2. PICK d \in w.clips : d.track = k /\ Displays(d, t + by, y)
          BY <2>1
        <5>3. moves(c) /\ ~ moves(d) /\ ~ Plays(d, t)
          BY <3>4, <5>1, <5>2 DEF Displays
        <5> QED
          BY <1>2, <2>4, <5>1, <5>2, <5>3 DEF Displays, Plays
      <4> QED
        BY <3>1, <4>1, <4>2
    <3> QED
      BY <3>2, <3>3, <3>4
  <2> QED
    BY <2>2, <2>3, <2>4
<1> QED
  BY <1>3, <1>4

LEMMA CloseGapShows ==
  ASSUME NEW p, Sound(p), NEW own \in DOMAIN p.tracks, NEW start \in Int, NEW end \in Int, start < end,
         CloseGap(p, own, start, end).project # p, NEW k \in DOMAIN p.tracks, NEW by, by = end - start
  PROVE  LET q == CloseGap(p, own, start, end).project
         IN /\ Film(q, k) = Film(p, k)
            /\ \A t \in Int : Shown(q, k, t) \in AfterRipple(p, start, by, own, k, t)
<1> DEFINE q == CloseGap(p, own, start, end).project
<1>1. by \in Int /\ \E back \in Int : back = start - end /\ back = - by
  OBVIOUS
<1>b. PICK back \in Int : back = start - end /\ back = - by
  BY <1>1
<1>2. /\ own \in Unlocked(p) /\ ~ \E c \in OnTrack(p, own) : c.start < end /\ EndOf(c) > start
      /\ q = Checked(p, Shifted(p, Unlocked(p), end, back))
  BY <1>b DEF CloseGap, Refused, Tried, Unlocked
<1>3. Sound(q)
  BY CloseGapSound
<1>4. q # p
  OBVIOUS
<1> HIDE DEF q
<1>5. q = Shifted(p, Unlocked(p), end, back)
  BY <1>2, <1>4 DEF Checked
<1>6. \A c \in p.clips : c.track = own => ~ (c.start < end /\ EndOf(c) > start)
  BY <1>2 DEF OnTrack
<1>7. /\ Film(q, k) = Film(p, k)
      /\ \A t \in Int : Shown(q, k, t) \in AfterRipple(p, start, by, own, k, t)
  BY <1>1, <1>b, <1>2, <1>3, <1>5, <1>6, RippleShows
<1> QED
  BY <1>1, <1>7 DEF q

LEMMA RippleDeleteShows ==
  ASSUME NEW p, Sound(p), NEW id \in IdsOf(p.clips), NEW linked \in BOOLEAN,
         RippleDelete(p, id, linked).project # p, NEW k \in DOMAIN p.tracks
  PROVE  LET q == RippleDelete(p, id, linked).project
             w == Swapped(p, {c \in Chosen(p, id, linked) : c.track \in Unlocked(p)}, {})
             c == ClipOf(p, id)
         IN /\ Sound(w) /\ Film(q, k) = Film(w, k)
            /\ \A t \in Int : Shown(q, k, t) \in AfterRipple(w, c.start, c.length, c.track, k, t)
<1> DEFINE q == RippleDelete(p, id, linked).project
           lifted == {c \in Chosen(p, id, linked) : c.track \in Unlocked(p)}
           w == Swapped(p, lifted, {})
           c == ClipOf(p, id)
<1>1. c \in p.clips /\ c.id = id
  BY ClipOfIs
<1>2. /\ c.start \in Int /\ c.length \in Int /\ EndOf(c) \in Int /\ EndOf(c) = c.start + c.length
      /\ c.length > 0
  BY <1>1, ClipIs
<1>3. PICK at \in Int, end \in Int, by \in Int, back \in Int :
        /\ at = c.start /\ end = EndOf(c) /\ by = c.length /\ back = - c.length
        /\ by = end - at /\ back = - by /\ at < end
  <2> HIDE DEF c
  <2>1. /\ - c.length \in Int /\ c.length = EndOf(c) - c.start /\ c.start < EndOf(c)
    BY <1>2
  <2> QED
    BY <1>2, <2>1
<1>4. Lift(p, id, linked).project = IF Has(w, id) THEN p ELSE w
  BY DEF Lift, Tried
<1>5. q = IF Lift(p, id, linked).project = p THEN p
          ELSE Checked(p, Shifted(Lift(p, id, linked).project, Unlocked(p), end, back))
  BY <1>3 DEF RippleDelete, Tried
<1>6. Sound(w) /\ Sound(q) /\ q # p
  BY PartSound, RippleDeleteSound
<1>7. w.tracks = p.tracks /\ w.clips = p.clips \ lifted
  BY SwappedIs DEF Sound
<1> HIDE DEF q, w, c
<1>8. ~ Has(w, id) /\ q = Shifted(w, Unlocked(w), end, back)
  <2>1. Unlocked(w) = Unlocked(p)
    BY <1>7 DEF Unlocked
  <2> QED
    BY <1>4, <1>5, <1>6, <2>1 DEF Checked
<1>9. c \in lifted
  BY <1>1, <1>7, <1>8 DEF Has
<1>10. c.track \in Unlocked(w)
  BY <1>7, <1>9 DEF Unlocked
<1>11. ASSUME NEW d \in w.clips, d.track = c.track PROVE ~ (d.start < end /\ EndOf(d) > at)
  <2>1. d \in p.clips /\ d # c
    BY <1>7, <1>9
  <2>2. ~ Intersect(c, d)
    BY <1>1, <1>11, <2>1 DEF Sound, Valid
  <2>3. d.start \in Int /\ EndOf(d) \in Int
    BY <2>1, ClipIs
  <2> QED
    BY <1>3, <2>2, <2>3 DEF Intersect
<1>12. /\ Film(q, k) = Film(w, k)
       /\ \A t \in Int : Shown(q, k, t) \in AfterRipple(w, at, by, c.track, k, t)
  <2>1. PICK own : own = c.track
    OBVIOUS
  <2>2. own \in Unlocked(w) /\ \A d \in w.clips : d.track = own => ~ (d.start < end /\ EndOf(d) > at)
    BY <1>10, <1>11, <2>1
  <2>3. /\ Film(q, k) = Film(w, k)
        /\ \A t \in Int : Shown(q, k, t) \in AfterRipple(w, at, by, own, k, t)
    BY <1>3, <1>6, <1>7, <1>8, <2>2, RippleShows
  <2> QED
    BY <2>1, <2>3
<1> QED
  BY <1>3, <1>6, <1>12 DEF q, w, c

-----------------------------------------------------------------------------
(* Moving clips. *)

\* All that some tracks show.
Films(p, tracks) == UNION {Film(p, k) : k \in tracks}

LEMMA MoveShows ==
  ASSUME NEW p, Sound(p), NEW id \in IdsOf(p.clips), NEW k \in DOMAIN p.tracks, NEW start \in Nat,
         NEW linked \in BOOLEAN, MoveClip(p, id, k, start, linked) # p,
         NEW r, r = MoveClip(p, id, k, start, linked)
  PROVE  /\ r.tracks = p.tracks /\ ClipOf(r, id).start = start
         /\ Films(r, DOMAIN p.tracks) = Films(p, DOMAIN p.tracks)
<1> DEFINE c == ClipOf(p, id)  moving == Chosen(p, id, linked)  by == Max({0, start}) - c.start
           f == [d \in moving |-> [d EXCEPT !.start = Max({0, @ + by}),
                                            !.track = IF d = c THEN k ELSE @]]
           q == Swapped(p, moving, Images(f, moving))
<1>1. /\ c \in p.clips /\ c.id = id /\ c \in Clip /\ moving \in SUBSET p.clips /\ c \in moving
      /\ k \in Names /\ IsProject(p)
  BY ClipOfIs, ChosenIs DEF Sound, IsProject
<1>2. MoveClip(p, id, k, start, linked) = q /\ Sound(q)
  <2>1. \/ MoveClip(p, id, k, start, linked) = p
        \/ MoveClip(p, id, k, start, linked) = Checked(p, q)
    BY DEF MoveClip, Images
  <2>2. Sound(MoveClip(p, id, k, start, linked))
    BY MoveSound
  <2> HIDE DEF q
  <2> QED
    BY <2>1, <2>2 DEF Checked
<1>3. c.start \in Int /\ by \in Int /\ c.start + by = start /\ Max({0, start}) = start
  BY <1>1, MaxOfTwo, ClipFields
<1>4. ASSUME NEW d \in moving
      PROVE  \E x \in Int, j \in DOMAIN p.tracks :
               /\ f[d] = [d EXCEPT !.start = x, !.track = j] /\ (d = c => x = start)
  <2>1. d \in p.clips /\ d \in Clip /\ d.start \in Int /\ d.track \in DOMAIN p.tracks
    BY <1>1, ClipIs, SMTT(30)
  <2>2. PICK x \in Int : x = Max({0, d.start + by})
    BY <1>3, <2>1, MaxOfTwo, SMTT(30)
  <2>3. PICK j \in DOMAIN p.tracks : j = IF d = c THEN k ELSE d.track
    BY <2>1
  <2>4. f[d] = [d EXCEPT !.start = x, !.track = j]
    BY <2>2, <2>3
  <2>5. d = c => x = start
    BY <1>3, <2>2
  <2> QED
    BY <2>4, <2>5
<1> HIDE DEF f, c, moving, by
<1>5. ASSUME NEW d \in moving
      PROVE  /\ f[d] \in Clip /\ f[d].id = d.id /\ f[d].track \in DOMAIN p.tracks
             /\ f[d].media = d.media /\ f[d].from = d.from /\ f[d].length = d.length
             /\ d = c => f[d].start = start
  <2>1. PICK x \in Int, j \in DOMAIN p.tracks :
          f[d] = [d EXCEPT !.start = x, !.track = j] /\ (d = c => x = start)
    BY <1>4
  <2>2. d \in Clip /\ j \in Names
    BY <1>1 DEF IsProject
  <2> QED
    BY <2>1, <2>2 DEF Clip
<1>6. q.tracks = p.tracks /\ q.clips = (p.clips \ moving) \union Images(f, moving)
  BY <1>1, SwappedIs
<1> HIDE DEF q
<1>7. ClipOf(q, id).start = start
  <2>1. f[c] \in q.clips /\ f[c].id = id /\ f[c].start = start
    BY <1>1, <1>5, <1>6 DEF Images
  <2>2. ClipOf(q, id) = f[c]
    BY <1>2, <2>1, ClipOfOwn DEF Sound
  <2> QED
    BY <2>1, <2>2
\* A clip shows the same wherever it is.
<1>8. ASSUME NEW c1 \in Clip, NEW c2 \in Clip, c1.media = c2.media, c1.from = c2.from,
             c1.length = c2.length, NEW t \in Int, NEW x, Displays(c1, t, x)
      PROVE  \E u \in Int : Displays(c2, u, x)
  <2>1. c1.start \in Int /\ c2.start \in Int /\ c1.from \in Int /\ c1.length \in Int
    BY ClipFields
  <2>2. PICK u \in Int : u = t - c1.start + c2.start
    BY <2>1
  <2>3. Plays(c2, u)
    BY <1>8, <2>1, <2>2 DEF Displays, Plays, EndOf
  <2>4. Picture(c2, u) = Picture(c1, t)
    <3>1. c2.from + u - c2.start = c1.from + t - c1.start
      BY <1>8, <2>1, <2>2
    <3> QED
      BY <1>8, <3>1, SamePicture
  <2> QED
    BY <1>8, <2>3, <2>4 DEF Displays
<1>9. ASSUME NEW w, Sound(w), NEW x
      PROVE  x \in Films(w, DOMAIN w.tracks)
               <=> \E d \in w.clips, t \in Int : Displays(d, t, x)
  <2>1. x \in Films(w, DOMAIN w.tracks) <=> \E j \in DOMAIN w.tracks : x \in Film(w, j)
    BY DEF Films
  <2>2. \A j : x \in Film(w, j) <=> \E t \in Int : x \in Shown(w, j, t)
    BY <1>9, FilmIs
  <2>3. \A j, t : x \in Shown(w, j, t) <=> \E d \in w.clips : d.track = j /\ Displays(d, t, x)
    BY ShowsIs
  <2>4. \A d \in w.clips : d.track \in DOMAIN w.tracks
    BY <1>9, ClipIs
  <2> QED
    BY <2>1, <2>2, <2>3, <2>4
<1>10. ASSUME NEW x
       PROVE  (\E d \in q.clips, t \in Int : Displays(d, t, x))
                <=> \E d \in p.clips, t \in Int : Displays(d, t, x)
  <2>1. ASSUME NEW d \in q.clips, NEW t \in Int, Displays(d, t, x)
        PROVE  \E g \in p.clips, u \in Int : Displays(g, u, x)
    <3>1. CASE d \in p.clips
      BY <2>1, <3>1
    <3>2. CASE d \in Images(f, moving)
      <4>1. PICK g \in moving : d = f[g]
        BY <3>2 DEF Images
      <4>2. g \in Clip /\ g \in p.clips
        BY <1>1 DEF IsProject
      <4>3. \E u \in Int : Displays(g, u, x)
        BY <1>5, <1>8, <2>1, <4>1, <4>2
      <4> QED
        BY <4>2, <4>3
    <3> QED
      BY <1>6, <3>1, <3>2
  <2>2. ASSUME NEW d \in p.clips, NEW t \in Int, Displays(d, t, x)
        PROVE  \E g \in q.clips, u \in Int : Displays(g, u, x)
    <3>1. CASE d \notin moving
      BY <1>6, <2>2, <3>1
    <3>2. CASE d \in moving
      <4>1. f[d] \in q.clips
        BY <1>6, <3>2 DEF Images
      <4>2. d \in Clip
        BY <1>1 DEF IsProject
      <4>3. \E u \in Int : Displays(f[d], u, x)
        BY <1>5, <1>8, <2>2, <3>2, <4>2
      <4> QED
        BY <4>1, <4>3
    <3> QED
      BY <3>1, <3>2
  <2> QED
    BY <2>1, <2>2
<1>11. Films(q, DOMAIN p.tracks) = Films(p, DOMAIN p.tracks)
  <2>1. ASSUME NEW x PROVE x \in Films(q, DOMAIN q.tracks) <=> x \in Films(p, DOMAIN p.tracks)
    <3>1. x \in Films(q, DOMAIN q.tracks) <=> \E d \in q.clips, t \in Int : Displays(d, t, x)
      BY <1>2, <1>9
    <3>2. x \in Films(p, DOMAIN p.tracks) <=> \E d \in p.clips, t \in Int : Displays(d, t, x)
      BY <1>9
    <3> QED
      BY <1>10, <3>1, <3>2
  <2>2. Films(q, DOMAIN q.tracks) = Films(p, DOMAIN p.tracks)
    <3>1. \A x : x \in Films(q, DOMAIN q.tracks) <=> x \in Films(p, DOMAIN p.tracks)
      BY <2>1
    <3>2. Films(q, DOMAIN q.tracks) \subseteq Films(p, DOMAIN p.tracks)
          /\ Films(p, DOMAIN p.tracks) \subseteq Films(q, DOMAIN q.tracks)
      BY <3>1
    <3> QED
      BY <3>2
  <2> QED
    BY <1>6, <2>2
<1> QED
  BY <1>2, <1>6, <1>7, <1>11

-----------------------------------------------------------------------------
(* Compounds. *)

\* The clips of some ids, and the clip that they become.
Named(p, ids) == {c \in p.clips : c.id \in ids}
Compounds(p, clips, own, q, first, end, clip) ==
  /\ first = Min({c.start : c \in clips}) /\ end = Max({EndOf(c) : c \in clips})
  /\ clip.id = CompoundId /\ clip.track = own /\ clip.media = "compound" /\ clip.from = 0
  /\ clip.start = first /\ EndOf(clip) = end
  /\ q = Swapped(p, clips, {clip})
  /\ Sound(q) /\ ~ Has(p, CompoundId)

LEMMA CompoundMakes ==
  ASSUME NEW p, Sound(p), NEW ids, ids \subseteq IdsOf(p.clips), ids # {}, NEW own \in DOMAIN p.tracks,
         MakeCompound(p, ids, own).project # p
  PROVE  \E first \in Int, end \in Int, clip \in Clip :
           Compounds(p, Named(p, ids), own, MakeCompound(p, ids, own).project, first, end, clip)
<1>0. PICK clips, q : clips = Named(p, ids) /\ q = MakeCompound(p, ids, own).project
  OBVIOUS
<1>1. clips \subseteq Clip /\ IsFiniteSet(clips) /\ clips # {}
  BY <1>0, NamedClips DEF Sound, Named
<1>2. PICK first \in Int, end \in Int :
        first = Min({c.start : c \in clips}) /\ end = Max({EndOf(c) : c \in clips})
  BY <1>1, RangeOf
<1>3. PICK length \in Int : length = end - first /\ first + length = end
  OBVIOUS
<1> DEFINE clip == [id |-> CompoundId, track |-> own, audio |-> FALSE, start |-> first,
                    length |-> length, from |-> 0, until |-> length, media |-> "compound",
                    group |-> NoGroup, locked |-> FALSE]
<1>4. q = Swapped(p, clips, {clip}) /\ ~ Has(p, CompoundId)
  <2>1. \/ q = p
        \/ q = Checked(p, Swapped(p, clips, {clip})) /\ ~ Has(p, CompoundId)
    BY <1>0, <1>2, <1>3 DEF MakeCompound, Tried, Refused, Named
  <2> HIDE DEF clip
  <2> QED
    BY <1>0, <2>1 DEF Checked
<1>5. clip \in Clip
  <2>1. own \in Names
    BY DEF Sound, IsProject
  <2>2. CompoundId \in Seq(Names) /\ "compound" \in Names /\ NoGroup \in Names
    <3>1. "compound" \in Names /\ NoGroup \in Names
      BY EditorAssumption, MultitrackAssumption
    <3> QED
      BY <3>1 DEF CompoundId
  <2> HIDE DEF NoGroup, CompoundId
  <2> QED
    BY <2>1, <2>2 DEF Clip
<1>6. EndOf(clip) = end
  BY <1>3 DEF EndOf
<1>7. Sound(q)
  BY <1>0, CompoundSound
<1> QED
  BY <1>0, <1>2, <1>4, <1>5, <1>6, <1>7 DEF Compounds

LEMMA CompoundShows ==
  ASSUME NEW p, Sound(p), NEW ids, ids \subseteq IdsOf(p.clips), ids # {}, NEW own \in DOMAIN p.tracks,
         NEW e, e.before = p, e.ids = ids, e.track = own,
         MakeCompound(p, ids, own).project # p, NEW k, NEW t \in Int
  PROVE  Shown(MakeCompound(p, ids, own).project, k, t) = AfterCompound(e, k, t)
<1>0. PICK first \in Int, end \in Int, clip \in Clip :
        Compounds(p, Named(p, ids), own, MakeCompound(p, ids, own).project, first, end, clip)
  BY CompoundMakes
<1>1. PICK clips, q : clips = {c \in p.clips : c.id \in ids} /\ q = MakeCompound(p, ids, own).project
  OBVIOUS
<1>2. /\ first = Min({c.start : c \in clips}) /\ end = Max({EndOf(c) : c \in clips})
      /\ clip.id = CompoundId /\ clip.track = own /\ clip.media = "compound" /\ clip.from = 0
      /\ clip.start = first /\ EndOf(clip) = end
      /\ q = Swapped(p, clips, {clip})
      /\ ~ Has(p, CompoundId)
  BY <1>0, <1>1 DEF Compounds, Named
<1>s. Sound(q) /\ IsProject(q) /\ IsProject(p)
  BY <1>0, <1>1 DEF Compounds, Sound
<1>3. AfterCompound(e, k, t)
        = IF k = own /\ first <= t /\ t < end THEN {<<"compound", t - first>>}
          ELSE At(OnTrack(p, k) \ clips, t)
  BY <1>1, <1>2 DEF AfterCompound
<1>4. IsProject(p) /\ clip \in q.clips
  BY <1>2, SwappedIs DEF Sound
<1>5. (Plays(clip, t) <=> first <= t /\ t < end) /\ Picture(clip, t) = <<"compound", t - first>>
  <2>1. 0 + t - first = t - first
    OBVIOUS
  <2> QED
    BY <1>2, <2>1 DEF Plays, Picture
<1>6. CASE k = own /\ first <= t /\ t < end
  <2>1. Plays(clip, t) /\ clip.track = k
    BY <1>2, <1>5, <1>6
  <2>2. Shown(q, clip.track, t) = {Picture(clip, t)}
    BY <1>s, <1>4, <2>1, Alone
  <2> QED
    BY <1>1, <1>3, <1>5, <1>6, <2>1, <2>2
<1>7. CASE ~ (k = own /\ first <= t /\ t < end)
  <2>1. ASSUME NEW x PROVE x \in Shown(q, k, t) <=> x \in At(OnTrack(p, k) \ clips, t)
    <3>1. x \in Shown(Swapped(p, clips, {clip}), k, t)
            <=> \/ \E c \in p.clips \ clips : c.track = k /\ Plays(c, t) /\ x = Picture(c, t)
                \/ \E c \in {clip} : c.track = k /\ Plays(c, t) /\ x = Picture(c, t)
      BY <1>4, SwappedShows
    <3>2. x \in At(OnTrack(p, k) \ clips, t)
            <=> \E c \in p.clips \ clips : c.track = k /\ Plays(c, t) /\ x = Picture(c, t)
      BY AtIs DEF OnTrack
    <3> QED
      BY <1>2, <1>5, <1>7, <3>1, <3>2
  <2>2. Shown(q, k, t) = At(OnTrack(p, k) \ clips, t)
    BY <2>1
  <2> QED
    BY <1>1, <1>3, <1>7, <2>2
<1> QED
  BY <1>6, <1>7

\* A compound that is broken apart at once gives the project before it.
LEMMA BreakRestores ==
  ASSUME NEW p, Sound(p), NEW ids, ids \subseteq IdsOf(p.clips), ids # {}, NEW own \in DOMAIN p.tracks,
         MakeCompound(p, ids, own).project # p,
         \A c \in p.clips : c.id \in ids => c.track \in Unlocked(p), NEW j \in Unlocked(p)
  PROVE  BreakApart(MakeCompound(p, ids, own).project, Nested(p, ids), CompoundId, j).project = p
<1>0. PICK first \in Int, end \in Int, clip \in Clip :
        Compounds(p, Named(p, ids), own, MakeCompound(p, ids, own).project, first, end, clip)
  BY CompoundMakes
<1>1. PICK clips, q : clips = {c \in p.clips : c.id \in ids} /\ q = MakeCompound(p, ids, own).project
  OBVIOUS
<1>2. /\ first = Min({c.start : c \in clips}) /\ end = Max({EndOf(c) : c \in clips})
      /\ clip.id = CompoundId /\ clip.track = own /\ clip.media = "compound" /\ clip.from = 0
      /\ clip.start = first /\ EndOf(clip) = end
      /\ q = Swapped(p, clips, {clip})
      /\ ~ Has(p, CompoundId)
  BY <1>0, <1>1 DEF Compounds, Named
<1>s. Sound(q) /\ IsProject(q) /\ IsProject(p)
  BY <1>0, <1>1 DEF Compounds, Sound
<1>3. /\ IsProject(p) /\ clips \in SUBSET p.clips /\ q.tracks = p.tracks
      /\ q.clips = (p.clips \ clips) \union {clip} /\ clip \notin p.clips
  BY <1>1, <1>2, SwappedIs DEF Sound, Has
<1>4. ClipOf(q, CompoundId) = clip /\ Unlocked(q) = Unlocked(p)
  BY <1>s, <1>2, <1>3, ClipOfOwn DEF Sound, Unlocked
<1> DEFINE f == [c \in clips |-> [c EXCEPT !.start = @ - first]]
           Home(d) == IF d.track \in Unlocked(q) THEN d.track ELSE j
           h == [c \in clips |-> [f[c] EXCEPT !.start = @ + first, !.track = Home(f[c])]]
           back == {[d EXCEPT !.start = @ + first, !.track = Home(d)] : d \in Images(f, clips)}
           rest == Swapped(q, {clip}, {})
<1>5. Nested(p, ids) = Images(f, clips)
  BY <1>1, <1>2 DEF Nested, Images
<1>6. BreakApart(q, Images(f, clips), CompoundId, j).project
        = IF IdsOf(back) \intersect IdsOf(rest.clips) # {} THEN q
          ELSE Checked(q, Swapped(rest, {}, back))
  <2>1. ~ q.tracks[j].locked
    BY <1>3 DEF Unlocked
  <2> HIDE DEF f
  <2> QED
    BY <1>2, <1>4, <2>1 DEF BreakApart, Tried, Refused
<1>7. ASSUME NEW c \in clips
      PROVE  c = h[c]
  <2>1. c \in Clip /\ c.start \in Int /\ c.track \in Unlocked(q)
    BY <1>1, <1>3, <1>4, ClipIs
  <2>2. PICK y \in Int : y = c.start - first /\ y + first = c.start
    BY <2>1
  <2>3. PICK g : g = [c EXCEPT !.start = y]
    OBVIOUS
  <2>4. f[c] = g
    BY <2>2, <2>3
  <2>5. g \in Clip /\ g.start = y /\ g.track = c.track /\ Home(g) = c.track
    BY <2>1, <2>3 DEF Clip
  <2>6. PICK z \in Int : z = c.start
    BY <2>1
  <2>7. c = [g EXCEPT !.start = z, !.track = c.track]
    BY <2>1, <2>3, <2>6 DEF Clip
  <2>8. [g EXCEPT !.start = @ + first, !.track = Home(g)] = [g EXCEPT !.start = z, !.track = c.track]
    <3> HIDE DEF Home
    <3> QED
      BY <2>2, <2>5, <2>6
  <2>9. h[c] = [f[c] EXCEPT !.start = @ + first, !.track = Home(f[c])]
    OBVIOUS
  <2> HIDE DEF f, h, Home
  <2> QED
    BY <2>4, <2>7, <2>8, <2>9
<1>8. back = clips
  <2> HIDE DEF f, Home
  <2>1. back = Images(h, clips)
    BY DEF Images
  <2> HIDE DEF h, back
  <2> QED
    BY <1>7, <2>1 DEF Images
<1>9. /\ rest.tracks = p.tracks /\ rest.clips = p.clips \ clips /\ IsProject(rest)
  <2>1. rest.tracks = q.tracks /\ rest.clips = (q.clips \ {clip}) \union {}
    <3>1. PICK old, new : old = {clip} /\ new = {}
      OBVIOUS
    <3>2. /\ Swapped(q, old, new).tracks = q.tracks
          /\ Swapped(q, old, new).clips = (q.clips \ old) \union new
      BY <1>s, SwappedIs
    <3> QED
      BY <3>1, <3>2
  <2>2. Sound(rest)
    BY <1>s, PartSound
  <2> HIDE DEF rest
  <2> QED
    BY <1>3, <2>1, <2>2 DEF Sound
<1>10. IdsOf(clips) \intersect IdsOf(rest.clips) = {}
  BY <1>3, <1>9 DEF IdsOf, Sound, Valid
<1>11. Swapped(rest, {}, clips) = p
  <2> HIDE DEF rest
  <2> DEFINE s == Swapped(rest, {}, clips)
  <2>1. Fits(rest, clips)
    BY <1>3, <1>9, OwnFits DEF Fits
  <2>2. s.tracks = p.tracks /\ s.clips = (p.clips \ clips) \union clips /\ IsProject(s)
    BY <1>9, <2>1, SwappedIs
  <2> HIDE DEF s
  <2>3. s.clips = p.clips
    BY <1>3, <2>2
  <2>4. s = [tracks |-> p.tracks, clips |-> p.clips] /\ p = [tracks |-> p.tracks, clips |-> p.clips]
    BY <1>3, <2>2, <2>3 DEF IsProject
  <2> QED
    BY <2>4 DEF s
<1>12. Checked(q, p) = p
  BY DEF Checked, Sound
<1> HIDE DEF back, rest, f
<1> QED
  BY <1>1, <1>5, <1>6, <1>8, <1>10, <1>11, <1>12

-----------------------------------------------------------------------------
(* What every edit shows. *)

LEMMA InstantsInt == ASSUME NEW p PROVE Instants(p) \subseteq Int
BY DEF Instants

\* What the edit e promises of the project q it gives and of the clips that
\* went into a compound, at every instant.
Ripples(q, w, at, by, own) ==
  \A k \in DOMAIN q.tracks :
    /\ Film(q, k) = Film(w, k)
    /\ \A t \in Int : Shown(q, k, t) \in AfterRipple(w, at, by, own, k, t)
Regroups(e, q, nested) ==
  LET p == e.before
  IN \A k \in Unlocked(p) :
       (\A c \in p.clips : c.id \in e.ids => c.track \in Unlocked(p))
         => BreakApart(q, nested, CompoundId, k).project = p
Relocates(e, q) ==
  /\ ClipOf(q, e.id).start = e.start
  /\ UNION {Film(q, k) : k \in DOMAIN q.tracks} = UNION {Film(e.before, k) : k \in DOMAIN q.tracks}
RippleDeletes(e, q) ==
  LET p == e.before
      c == ClipOf(p, e.id)
      w == Swapped(p, {d \in Chosen(p, e.id, e.linked) : d.track \in Unlocked(p)}, {})
  IN Ripples(q, w, c.start, c.length, c.track)

Promised(e, q, nested) ==
  /\ e.kind \in {"insert", "overwrite"}
       => \A k \in DOMAIN q.tracks, t \in Int : Shown(q, k, t) = AfterInsert(e, k, t)
  /\ e.kind = "roll"  => \A k \in DOMAIN q.tracks, t \in Int : Shown(q, k, t) = AfterRoll(e, k, t)
  /\ e.kind = "slide" => \A k \in DOMAIN q.tracks, t \in Int : Shown(q, k, t) = AfterSlide(e, k, t)
  /\ e.kind = "slip"  => \A k \in DOMAIN q.tracks, t \in Int : Shown(q, k, t) = AfterSlip(e, k, t)
  /\ e.kind = "trim"  => \A k \in DOMAIN q.tracks, t \in Int : Shown(q, k, t) = AfterTrim(e, k, t)
  /\ e.kind = "compound"
       => /\ \A k \in DOMAIN q.tracks, t \in Int : Shown(q, k, t) = AfterCompound(e, k, t)
          /\ Regroups(e, q, nested)
  /\ e.kind \in {"split", "link", "unlink", "add track"}
       => \A k \in DOMAIN e.before.tracks, t \in Int : Shown(q, k, t) = Shown(e.before, k, t)
  /\ e.kind = "close gap" => Ripples(q, e.before, e.start, e.end - e.start, e.track)
  /\ e.kind = "ripple delete" => RippleDeletes(e, q)
  /\ e.kind = "move" => Relocates(e, q)

LEMMA PromisedShows == Valid(project) /\ Promised(last, project, compound) => EditsShowTheRest
<1> SUFFICES ASSUME Valid(project), Promised(last, project, compound) PROVE EditsShowTheRest
  OBVIOUS
<1>0. Instants(last.before) \subseteq Int /\ Instants(project) \subseteq Int
  BY InstantsInt
<1>1. CASE last.kind \in {"insert", "overwrite"}
  <2>1. \A k \in Tracks, t \in Int : Shown(project, k, t) = AfterInsert(last, k, t)
    BY <1>1 DEF Promised, Tracks
  <2> QED
    BY <1>0, <1>1, <2>1 DEF EditsShowTheRest
<1>2. CASE last.kind = "roll"
  <2>1. \A k \in Tracks, t \in Int : Shown(project, k, t) = AfterRoll(last, k, t)
    BY <1>2 DEF Promised, Tracks
  <2> QED
    BY <1>0, <1>2, <2>1 DEF EditsShowTheRest
<1>3. CASE last.kind = "slide"
  <2>1. \A k \in Tracks, t \in Int : Shown(project, k, t) = AfterSlide(last, k, t)
    BY <1>3 DEF Promised, Tracks
  <2> QED
    BY <1>0, <1>3, <2>1 DEF EditsShowTheRest
<1>4. CASE last.kind = "slip"
  <2>1. \A k \in Tracks, t \in Int : Shown(project, k, t) = AfterSlip(last, k, t)
    BY <1>4 DEF Promised, Tracks
  <2> QED
    BY <1>0, <1>4, <2>1 DEF EditsShowTheRest
<1>5. CASE last.kind = "trim"
  <2>1. \A k \in Tracks, t \in Int : Shown(project, k, t) = AfterTrim(last, k, t)
    BY <1>5 DEF Promised, Tracks
  <2> QED
    BY <1>0, <1>5, <2>1 DEF EditsShowTheRest
<1>6. CASE last.kind = "compound"
  <2>1. /\ \A k \in Tracks, t \in Int : Shown(project, k, t) = AfterCompound(last, k, t)
        /\ Regroups(last, project, compound)
    BY <1>6 DEF Promised, Tracks
  <2> QED
    BY <1>0, <1>6, <2>1 DEF EditsShowTheRest, Regroups
<1>7. CASE last.kind \in {"split", "link", "unlink", "add track"}
  <2>1. \A k \in DOMAIN last.before.tracks, t \in Int : Shown(project, k, t) = Shown(last.before, k, t)
    BY <1>7 DEF Promised
  <2> QED
    BY <1>0, <1>7, <2>1 DEF EditsShowTheRest
<1>8. CASE last.kind = "close gap"
  <2>1. Ripples(project, last.before, last.start, last.end - last.start, last.track)
    BY <1>8 DEF Promised
  <2> QED
    BY <1>0, <1>8, <2>1 DEF EditsShowTheRest, Ripples, Tracks
<1>9. CASE last.kind = "ripple delete"
  <2>1. RippleDeletes(last, project)
    BY <1>9 DEF Promised
  <2> QED
    BY <1>0, <1>9, <2>1, InstantsInt DEF EditsShowTheRest, RippleDeletes, Ripples, Tracks
<1>10. CASE last.kind = "move"
  <2>1. Relocates(last, project)
    BY <1>10 DEF Promised
  <2> QED
    BY <1>0, <1>10, <2>1 DEF EditsShowTheRest, Relocates, Tracks
<1>11. CASE last.kind \notin {"insert", "overwrite", "roll", "slide", "slip", "trim", "compound", "split",
                              "link", "unlink", "add track", "close gap", "ripple delete", "move"}
  BY <1>11 DEF EditsShowTheRest
<1> QED
  BY <1>1, <1>2, <1>3, <1>4, <1>5, <1>6, <1>7, <1>8, <1>9, <1>10, <1>11

LEMMA ShiftedTracks ==
  ASSUME NEW w, Sound(w), NEW tracks, NEW end, NEW by
  PROVE  Shifted(w, tracks, end, by).tracks = w.tracks
BY SwappedIs DEF Shifted, Sound

LEMMA CloseGapTracks ==
  ASSUME NEW p, Sound(p), NEW own, NEW start, NEW end
  PROVE  CloseGap(p, own, start, end).project.tracks = p.tracks
<1> DEFINE q == CloseGap(p, own, start, end).project
<1>1. q = p \/ q = Shifted(p, Unlocked(p), end, start - end)
  BY DEF CloseGap, Refused, Tried, Checked
<1> HIDE DEF q
<1>2. q.tracks = p.tracks
  BY <1>1, ShiftedTracks
<1> QED
  BY <1>2 DEF q

LEMMA RippleDeleteTracks ==
  ASSUME NEW p, Sound(p), NEW id \in IdsOf(p.clips), NEW linked
  PROVE  RippleDelete(p, id, linked).project.tracks = p.tracks
<1> DEFINE q == RippleDelete(p, id, linked).project
<1>1. PICK w, tracks, end, by : /\ w = Lift(p, id, linked).project
                                /\ tracks = Unlocked(p) /\ end = EndOf(ClipOf(p, id))
                                /\ by = - ClipOf(p, id).length
  OBVIOUS
<1>2. q = p \/ q = Shifted(w, tracks, end, by)
  BY <1>1 DEF RippleDelete, Tried, Checked
<1>3. Sound(w) /\ w.tracks = p.tracks
  BY <1>1, LiftSound, LiftIs
<1> HIDE DEF q
<1>4. q.tracks = p.tracks
  BY <1>2, <1>3, ShiftedTracks
<1> QED
  BY <1>4 DEF q

LEMMA NoneShown == ASSUME NEW q, NEW nested PROVE Promised(None, q, nested)
BY DEF Promised, None

LEMMA EditShown ==
  ASSUME NEW e, NEW r, Edits(e, r), r.project # project => Promised(e, r.project, compound')
  PROVE  Promised(last', project', compound')
<1>1. CASE r.project = project
  <2>1. last' = None
    BY <1>1 DEF Edits
  <2> QED
    BY <2>1, NoneShown
<1>2. CASE r.project # project
  <2>1. last' = e /\ project' = r.project
    BY <1>2 DEF Edits
  <2> QED
    BY <1>2, <2>1
<1> QED
  BY <1>1, <1>2

LEMMA PreparedShown ==
  ASSUME NEW e, NEW q, Prepare(e, q), q # project => Promised(e, q, compound')
  PROVE  Promised(last', project', compound')
BY DEF Prepare

LEMMA InsertShown ==
  ASSUME EditorInv, InsertOrOverwrite PROVE Promised(last', project', compound')
<1>1. PICK k \in Tracks, start \in Positions, length \in Lengths, mode \in {"insert", "overwrite"} :
        LET c == NewClip(k, start, length)
        IN Edit([before |-> project, kind |-> mode, clip |-> c], InsertClip(project, c, mode))
  BY DEF InsertOrOverwrite
<1>2. PICK c : c = NewClip(k, start, length)
  OBVIOUS
<1>3. PICK e : e = [before |-> project, kind |-> mode, clip |-> c]
  OBVIOUS
<1>4. Edits(e, InsertClip(project, c, mode))
  BY <1>1, <1>2, <1>3 DEF Edit
<1>5. c \in Clip /\ c.track \in DOMAIN project.tracks /\ Sound(project)
  BY <1>2, NewClipIs DEF EditorInv, Tracks
<1>6. e.before = project /\ e.kind = mode /\ e.clip = c
  BY <1>3
<1>7. ASSUME InsertClip(project, c, mode).project # project
      PROVE  Promised(e, InsertClip(project, c, mode).project, compound')
  <2>1. \A j : \A t \in Int : Shown(InsertClip(project, c, mode).project, j, t) = AfterInsert(e, j, t)
    BY <1>5, <1>6, <1>7, InsertShows
  <2> QED
    BY <1>6, <2>1 DEF Promised
<1> QED
  BY <1>4, <1>7, EditShown

LEMMA RippleDeleteShown ==
  ASSUME EditorInv, RippleDeleteClip PROVE Promised(last', project', compound')
<1>1. PICK id \in Ids, linked \in BOOLEAN :
        Edit([before |-> project, kind |-> "ripple delete", id |-> id, linked |-> linked],
             RippleDelete(project, id, linked))
  BY DEF RippleDeleteClip
<1>2. PICK e : e = [before |-> project, kind |-> "ripple delete", id |-> id, linked |-> linked]
  OBVIOUS
<1>3. Edits(e, RippleDelete(project, id, linked))
  BY <1>1, <1>2 DEF Edit
<1>4. e.before = project /\ e.kind = "ripple delete" /\ e.id = id /\ e.linked = linked
  BY <1>2
<1>5. id \in IdsOf(project.clips) /\ Sound(project)
  BY DEF EditorInv, Ids
<1>6. PICK q : q = RippleDelete(project, id, linked).project
  OBVIOUS
<1>7. ASSUME q # project PROVE Promised(e, q, compound')
  <2>1. PICK w, c : /\ w = Swapped(project, {d \in Chosen(project, id, linked) : d.track \in Unlocked(project)}, {})
                    /\ c = ClipOf(project, id)
    OBVIOUS
  <2>2. \A k \in DOMAIN project.tracks :
          /\ Film(q, k) = Film(w, k)
          /\ \A t \in Int : Shown(q, k, t) \in AfterRipple(w, c.start, c.length, c.track, k, t)
    BY <1>5, <1>6, <1>7, <2>1, RippleDeleteShows
  <2>3. q.tracks = project.tracks
    BY <1>5, <1>6, RippleDeleteTracks
  <2>4. RippleDeletes(e, q)
    BY <1>4, <2>1, <2>2, <2>3 DEF RippleDeletes, Ripples
  <2> QED
    BY <1>4, <2>4 DEF Promised
<1> QED
  BY <1>3, <1>6, <1>7, EditShown

LEMMA CloseGapShown ==
  ASSUME EditorInv, CloseGapOnTrack PROVE Promised(last', project', compound')
<1>1. PICK k \in Tracks, start \in Positions, end \in Positions :
        /\ start < end
        /\ Edit([before |-> project, kind |-> "close gap", track |-> k, start |-> start, end |-> end],
                CloseGap(project, k, start, end))
  BY DEF CloseGapOnTrack
<1>2. PICK e : e = [before |-> project, kind |-> "close gap", track |-> k, start |-> start, end |-> end]
  OBVIOUS
<1>3. Edits(e, CloseGap(project, k, start, end))
  BY <1>1, <1>2 DEF Edit
<1>4. e.before = project /\ e.kind = "close gap" /\ e.track = k /\ e.start = start /\ e.end = end
  BY <1>2
<1>5. k \in DOMAIN project.tracks /\ Sound(project) /\ start \in Int /\ end \in Int
  BY EditorAssumption DEF EditorInv, Tracks
<1>a. PICK by : by = end - start
  OBVIOUS
<1>6. PICK q : q = CloseGap(project, k, start, end).project
  OBVIOUS
<1>7. ASSUME q # project PROVE Promised(e, q, compound')
  <2>1. \A j \in DOMAIN project.tracks :
          /\ Film(q, j) = Film(project, j)
          /\ \A t \in Int : Shown(q, j, t) \in AfterRipple(project, start, by, k, j, t)
    BY <1>1, <1>5, <1>6, <1>7, <1>a, CloseGapShows
  <2>2. q.tracks = project.tracks
    BY <1>5, <1>6, CloseGapTracks
  <2>3. Ripples(q, e.before, e.start, e.end - e.start, e.track)
    BY <1>4, <1>a, <2>1, <2>2 DEF Ripples
  <2> QED
    BY <1>4, <2>3 DEF Promised
<1> QED
  BY <1>3, <1>6, <1>7, EditShown

LEMMA RollShown ==
  ASSUME EditorInv, RollClips PROVE Promised(last', project', compound')
<1>1. PICK l \in Ids, r \in Ids, cut \in Positions :
        Edit([before |-> project, kind |-> "roll", left |-> l, right |-> r, cut |-> cut],
             Roll(project, l, r, cut))
  BY DEF RollClips
<1>2. PICK e : e = [before |-> project, kind |-> "roll", left |-> l, right |-> r, cut |-> cut]
  OBVIOUS
<1>3. Edits(e, Roll(project, l, r, cut))
  BY <1>1, <1>2 DEF Edit
<1>4. /\ e.before = project /\ e.kind = "roll" /\ e.left = l /\ e.right = r /\ e.cut = cut
      /\ cut \in Int /\ l \in IdsOf(project.clips) /\ r \in IdsOf(project.clips) /\ Sound(project)
  BY <1>2, EditorAssumption DEF EditorInv, Ids
<1>5. ASSUME Roll(project, l, r, cut).project # project
      PROVE  Promised(e, Roll(project, l, r, cut).project, compound')
  <2>1. \A j : \A t \in Int : Shown(Roll(project, l, r, cut).project, j, t) = AfterRoll(e, j, t)
    BY <1>4, <1>5, RollShows
  <2> QED
    BY <1>4, <2>1 DEF Promised
<1> QED
  BY <1>3, <1>5, EditShown

LEMMA SlipShown ==
  ASSUME EditorInv, SlipClip PROVE Promised(last', project', compound')
<1>1. PICK id \in Ids, by \in Deltas :
        Edit([before |-> project, kind |-> "slip", id |-> id, by |-> by], Slip(project, id, by))
  BY DEF SlipClip
<1>2. PICK e : e = [before |-> project, kind |-> "slip", id |-> id, by |-> by]
  OBVIOUS
<1>3. Edits(e, Slip(project, id, by))
  BY <1>1, <1>2 DEF Edit
<1>4. /\ e.before = project /\ e.kind = "slip" /\ e.id = id /\ e.by = by
      /\ by \in Int /\ id \in IdsOf(project.clips) /\ Sound(project)
  BY <1>2, EditorAssumption DEF EditorInv, Ids
<1>5. ASSUME Slip(project, id, by).project # project
      PROVE  Promised(e, Slip(project, id, by).project, compound')
  <2>1. \A j : \A t \in Int : Shown(Slip(project, id, by).project, j, t) = AfterSlip(e, j, t)
    BY <1>4, <1>5, SlipShows
  <2> QED
    BY <1>4, <2>1 DEF Promised
<1> QED
  BY <1>3, <1>5, EditShown

LEMMA SlideShown ==
  ASSUME EditorInv, SlideClip PROVE Promised(last', project', compound')
<1>1. PICK id \in Ids, by \in Deltas :
        Edit([before |-> project, kind |-> "slide", id |-> id, by |-> by], Slide(project, id, by))
  BY DEF SlideClip
<1>2. PICK e : e = [before |-> project, kind |-> "slide", id |-> id, by |-> by]
  OBVIOUS
<1>3. Edits(e, Slide(project, id, by))
  BY <1>1, <1>2 DEF Edit
<1>4. /\ e.before = project /\ e.kind = "slide" /\ e.id = id /\ e.by = by
      /\ by \in Int /\ id \in IdsOf(project.clips) /\ Sound(project)
  BY <1>2, EditorAssumption DEF EditorInv, Ids
<1>5. ASSUME Slide(project, id, by).project # project
      PROVE  Promised(e, Slide(project, id, by).project, compound')
  <2>1. \A j : \A t \in Int : Shown(Slide(project, id, by).project, j, t) = AfterSlide(e, j, t)
    BY <1>4, <1>5, SlideShows
  <2> QED
    BY <1>4, <2>1 DEF Promised
<1> QED
  BY <1>3, <1>5, EditShown

LEMMA CompoundShown ==
  ASSUME EditorInv, Compound PROVE Promised(last', project', compound')
<1>1. PICK ids \in (SUBSET Ids) \ {{}}, k \in Tracks :
        LET r == MakeCompound(project, ids, k)
        IN /\ Edits([before |-> project, kind |-> "compound", ids |-> ids, track |-> k], r)
           /\ compound' = IF r.project # project THEN Nested(project, ids) ELSE compound
  BY DEF Compound
<1>2. PICK e : e = [before |-> project, kind |-> "compound", ids |-> ids, track |-> k]
  OBVIOUS
<1>3. PICK q : q = MakeCompound(project, ids, k).project
  OBVIOUS
<1>4. /\ Edits(e, MakeCompound(project, ids, k))
      /\ q # project => compound' = Nested(project, ids)
  BY <1>1, <1>2, <1>3
<1>5. /\ e.before = project /\ e.kind = "compound" /\ e.ids = ids /\ e.track = k
      /\ ids \subseteq IdsOf(project.clips) /\ ids # {} /\ k \in DOMAIN project.tracks /\ Sound(project)
  BY <1>2 DEF EditorInv, Ids, Tracks
<1>6. ASSUME q # project PROVE Promised(e, q, compound')
  <2>1. \A j : \A t \in Int : Shown(q, j, t) = AfterCompound(e, j, t)
    BY <1>3, <1>5, <1>6, CompoundShows
  <2>2. Regroups(e, q, Nested(project, ids))
    BY <1>3, <1>5, <1>6, BreakRestores DEF Regroups
  <2> QED
    BY <1>4, <1>5, <1>6, <2>1, <2>2 DEF Promised
<1> QED
  BY <1>3, <1>4, <1>6, EditShown

LEMMA PreparedTracksShown ==
  ASSUME EditorInv, PrepareTracks PROVE Promised(last', project', compound')
<1>0. Sound(project) /\ "added" \in Names
  BY EditorAssumption DEF EditorInv
<1>1. ASSUME NEW audio \in BOOLEAN,
             Prepare([before |-> project, kind |-> "add track"], AddTrack(project, "added", audio))
      PROVE  Promised(last', project', compound')
  <2>1. PICK e : e = [before |-> project, kind |-> "add track"]
    OBVIOUS
  <2>2. e.before = project /\ e.kind = "add track"
    BY <2>1
  <2>3. \A k : \A t \in Int : Shown(AddTrack(project, "added", audio), k, t) = Shown(project, k, t)
    BY <1>0, AddTrackShows
  <2>4. Promised(e, AddTrack(project, "added", audio), compound')
    BY <2>2, <2>3 DEF Promised
  <2> QED
    BY <1>1, <2>1, <2>4, PreparedShown
<1>2. ASSUME NEW k, NEW policy,
             Prepare([before |-> project, kind |-> "remove track"], RemoveTrack(project, k, policy))
      PROVE  Promised(last', project', compound')
  <2>1. PICK e : e = [before |-> project, kind |-> "remove track"]
    OBVIOUS
  <2>2. e.kind = "remove track"
    BY <2>1
  <2>3. Promised(e, RemoveTrack(project, k, policy), compound')
    BY <2>2 DEF Promised
  <2> QED
    BY <1>2, <2>1, <2>3, PreparedShown
<1> QED
  BY <1>1, <1>2, Zenon DEF PrepareTracks

LEMMA PreparedClipsShown ==
  ASSUME EditorInv, PrepareClips PROVE Promised(last', project', compound')
<1>0. Sound(project) /\ Positions \subseteq Nat /\ Lengths \subseteq Int /\ "second" \in Names
  BY EditorAssumption DEF EditorInv
<1>1. ASSUME NEW q, Prepare([before |-> project, kind |-> "add clip"], q)
      PROVE  Promised(last', project', compound')
  <2>1. PICK e : e = [before |-> project, kind |-> "add clip"]
    OBVIOUS
  <2>2. e.kind = "add clip"
    BY <2>1
  <2>3. Promised(e, q, compound')
    BY <2>2 DEF Promised
  <2> QED
    BY <1>1, <2>1, <2>3, PreparedShown
<1>2. ASSUME NEW q, Prepare([before |-> project, kind |-> "remove clip"], q)
      PROVE  Promised(last', project', compound')
  <2>1. PICK e : e = [before |-> project, kind |-> "remove clip"]
    OBVIOUS
  <2>2. e.kind = "remove clip"
    BY <2>1
  <2>3. Promised(e, q, compound')
    BY <2>2 DEF Promised
  <2> QED
    BY <1>2, <2>1, <2>3, PreparedShown
<1>3. ASSUME NEW id \in Ids, NEW k \in Tracks, NEW start \in Positions, NEW linked \in BOOLEAN,
             Prepare([before |-> project, kind |-> "move", id |-> id, track |-> k, start |-> start],
                     MoveClip(project, id, k, start, linked))
      PROVE  Promised(last', project', compound')
  <2>1. PICK e : e = [before |-> project, kind |-> "move", id |-> id, track |-> k, start |-> start]
    OBVIOUS
  <2>2. e.before = project /\ e.kind = "move" /\ e.id = id /\ e.start = start
    BY <2>1
  <2>3. /\ id \in IdsOf(project.clips) /\ k \in DOMAIN project.tracks /\ start \in Nat
    BY <1>0 DEF Ids, Tracks
  <2>4. PICK q : q = MoveClip(project, id, k, start, linked)
    OBVIOUS
  <2>5. q # project
    BY <1>3, <2>4 DEF Prepare
  <2>6. /\ q.tracks = project.tracks /\ ClipOf(q, id).start = start
        /\ Films(q, DOMAIN project.tracks) = Films(project, DOMAIN project.tracks)
    BY <1>0, <2>3, <2>4, <2>5, MoveShows
  <2>7. Relocates(e, q)
    BY <2>2, <2>6 DEF Relocates, Films
  <2>8. Promised(e, q, compound')
    BY <2>2, <2>7 DEF Promised
  <2> QED
    BY <1>3, <2>1, <2>4, <2>8, PreparedShown
<1>4. ASSUME NEW id \in Ids, NEW start \in Positions, NEW length \in Lengths, NEW linked \in BOOLEAN,
             Prepare([before |-> project, kind |-> "trim", id |-> id, linked |-> linked,
                      start |-> start, length |-> length],
                     TrimClip(project, id, start, start + length, linked))
      PROVE  Promised(last', project', compound')
  <2>1. PICK e : e = [before |-> project, kind |-> "trim", id |-> id, linked |-> linked,
                      start |-> start, length |-> length]
    OBVIOUS
  <2>2. /\ e.before = project /\ e.kind = "trim" /\ e.id = id /\ e.linked = linked
        /\ e.start = start /\ e.length = length
    BY <2>1
  <2>3. id \in IdsOf(project.clips) /\ start \in Int /\ length \in Int
    BY <1>0 DEF Ids
  <2>4. PICK end \in Int : end = start + length
    BY <2>3
  <2>5. PICK q : q = TrimClip(project, id, start, end, linked)
    OBVIOUS
  <2>6. q # project
    BY <1>4, <2>4, <2>5 DEF Prepare
  <2>7. \A k : \A t \in Int : Shown(q, k, t) = AfterTrim(e, k, t)
    BY <1>0, <2>2, <2>3, <2>4, <2>5, <2>6, TrimShows
  <2>8. Promised(e, q, compound')
    BY <2>2, <2>7 DEF Promised
  <2> QED
    BY <1>4, <2>1, <2>4, <2>5, <2>8, PreparedShown
<1>5. ASSUME NEW id \in Ids, NEW at \in Positions, NEW linked \in BOOLEAN,
             Prepare([before |-> project, kind |-> "split"], SplitClip(project, id, at, "second", linked))
      PROVE  Promised(last', project', compound')
  <2>1. PICK e : e = [before |-> project, kind |-> "split"]
    OBVIOUS
  <2>2. e.before = project /\ e.kind = "split"
    BY <2>1
  <2>3. id \in IdsOf(project.clips) /\ at \in Int
    BY <1>0 DEF Ids
  <2>4. PICK q, name : q = SplitClip(project, id, at, name, linked) /\ name = "second"
    OBVIOUS
  <2>5. \A k : \A t \in Int : Shown(q, k, t) = Shown(project, k, t)
    BY <1>0, <2>3, <2>4, SplitShows
  <2>6. Promised(e, q, compound')
    BY <2>2, <2>5 DEF Promised
  <2> QED
    BY <1>5, <2>1, <2>4, <2>6, PreparedShown
<1>6. ASSUME NEW id, NEW start, NEW q,
             Prepare([before |-> project, kind |-> "ripple move", id |-> id, start |-> start], q)
      PROVE  Promised(last', project', compound')
  <2>1. PICK e : e = [before |-> project, kind |-> "ripple move", id |-> id, start |-> start]
    OBVIOUS
  <2>2. e.kind = "ripple move"
    BY <2>1
  <2>3. Promised(e, q, compound')
    BY <2>2 DEF Promised
  <2> QED
    BY <1>6, <2>1, <2>3, PreparedShown
<1> QED
  BY <1>1, <1>2, <1>3, <1>4, <1>5, <1>6, Zenon DEF PrepareClips

LEMMA PreparedLinksShown ==
  ASSUME EditorInv, PrepareLinks PROVE Promised(last', project', compound')
<1>0. Sound(project) /\ "linked" \in Names
  BY EditorAssumption DEF EditorInv
<1>1. ASSUME NEW a \in Ids, NEW b \in Ids,
             Prepare([before |-> project, kind |-> "link"], LinkClips(project, a, b, "linked"))
      PROVE  Promised(last', project', compound')
  <2>1. PICK e : e = [before |-> project, kind |-> "link"]
    OBVIOUS
  <2>2. e.before = project /\ e.kind = "link"
    BY <2>1
  <2>3. PICK q, group : q = LinkClips(project, a, b, group) /\ group = "linked"
    OBVIOUS
  <2>4. \A k : \A t \in Int : Shown(q, k, t) = Shown(project, k, t)
    BY <1>0, <2>3, LinkShows DEF Ids
  <2>5. Promised(e, q, compound')
    BY <2>2, <2>4 DEF Promised
  <2> QED
    BY <1>1, <2>1, <2>3, <2>5, PreparedShown
<1>2. ASSUME NEW group, Prepare([before |-> project, kind |-> "unlink"], UnlinkGroup(project, group))
      PROVE  Promised(last', project', compound')
  <2>1. PICK e : e = [before |-> project, kind |-> "unlink"]
    OBVIOUS
  <2>2. e.before = project /\ e.kind = "unlink"
    BY <2>1
  <2>3. PICK q : q = UnlinkGroup(project, group)
    OBVIOUS
  <2>4. \A k : \A t \in Int : Shown(q, k, t) = Shown(project, k, t)
    BY <1>0, <2>3, UnlinkShows
  <2>5. Promised(e, q, compound')
    BY <2>2, <2>4 DEF Promised
  <2> QED
    BY <1>2, <2>1, <2>3, <2>5, PreparedShown
<1> QED
  BY <1>1, <1>2, Zenon DEF PrepareLinks

LEMMA OthersShown ==
  ASSUME LiftClip \/ BreakCompound PROVE Promised(last', project', compound')
<1>1. ASSUME NEW id, NEW linked, NEW r,
             Edits([before |-> project, kind |-> "lift", id |-> id, linked |-> linked], r)
      PROVE  Promised(last', project', compound')
  <2>1. PICK e : e = [before |-> project, kind |-> "lift", id |-> id, linked |-> linked]
    OBVIOUS
  <2>2. e.kind = "lift"
    BY <2>1
  <2>3. Promised(e, r.project, compound')
    BY <2>2 DEF Promised
  <2> QED
    BY <1>1, <2>1, <2>3, EditShown
<1>2. ASSUME NEW id, NEW k, NEW r,
             Edits([before |-> project, kind |-> "break", id |-> id, track |-> k], r)
      PROVE  Promised(last', project', compound')
  <2>1. PICK e : e = [before |-> project, kind |-> "break", id |-> id, track |-> k]
    OBVIOUS
  <2>2. e.kind = "break"
    BY <2>1
  <2>3. Promised(e, r.project, compound')
    BY <2>2 DEF Promised
  <2> QED
    BY <1>2, <2>1, <2>3, EditShown
<1> QED
  BY <1>1, <1>2, Zenon DEF LiftClip, BreakCompound, Edit

LEMMA StepShown ==
  ASSUME EditorInv, Promised(last, project, compound), [EditorNext]_editorVars
  PROVE  Promised(last', project', compound')
<1>1. CASE PrepareTracks \/ PrepareClips \/ PrepareLinks
  BY <1>1, PreparedTracksShown, PreparedClipsShown, PreparedLinksShown
<1>2. CASE InsertOrOverwrite \/ RippleDeleteClip \/ CloseGapOnTrack
  BY <1>2, InsertShown, RippleDeleteShown, CloseGapShown
<1>3. CASE RollClips \/ SlipClip \/ SlideClip \/ Compound
  BY <1>3, RollShown, SlipShown, SlideShown, CompoundShown
<1>4. CASE LiftClip \/ BreakCompound
  BY <1>4, OthersShown
<1>5. CASE UndoEdit \/ RedoEdit \/ BeginTransaction \/ CommitTransaction \/ RollbackTransaction
  <2>1. last' = None
    BY <1>5 DEF UndoEdit, RedoEdit, BeginTransaction, CommitTransaction, RollbackTransaction, Call
  <2> QED
    BY <2>1, NoneShown
<1>6. CASE UNCHANGED editorVars
  BY <1>6 DEF editorVars
<1> QED
  BY <1>1, <1>2, <1>3, <1>4, <1>5, <1>6 DEF EditorNext

\* A timeline stays valid, and every edit shows on every track, instant by
\* instant, what its name promises of what was seen before and nothing else,
\* whatever projects, arguments and shortest clip (insert_clip, overwrite_clip,
\* ripple_delete, close_gap, roll_edit, slip_edit, slide_edit, make_compound,
\* break_apart, move_clip, trim_clip, split_clip, link_clips).
THEOREM EditsShow == EditorSpec => []EditsShowTheRest
<1>1. EditorInit => Promised(last, project, compound)
  BY NoneShown DEF EditorInit
<1>2. EditorInv /\ Promised(last, project, compound) /\ [EditorNext]_editorVars
        => Promised(last, project, compound)'
  BY StepShown
<1>3. EditorInv /\ Promised(last, project, compound) => EditsShowTheRest
  BY PromisedShows DEF EditorInv, Sound
<1> QED
  BY <1>1, <1>2, <1>3, ProjectsStayValid, PTL DEF EditorSpec
=============================================================================
