-------------------------- MODULE TimelinePlayback --------------------------
(***************************************************************************)
(* ProductionTimelinePlayback (src/editor/production_timeline_playback.cpp) *)
(* with the ProductionTimelinePublisher it reads.  An editor publishes     *)
(* timeline revisions, client threads request plans, seek and synchronise, *)
(* and one worker thread turns the newest request into an execution plan   *)
(* and hands it to the completion callback.                                *)
(*                                                                         *)
(* Grain: an atomic load, store or fetch_add is a step, and so is a        *)
(* section under mutex_.  condition_variable waits are guards: everything  *)
(* the wait predicate reads is written under mutex_ before notify_all, so  *)
(* no wake-up is lost.                                                     *)
(***************************************************************************)
EXTENDS Naturals, Sequences, FiniteSets

CONSTANTS
  Clients,        \* threads calling request, seek, synchronize_revision
  Timestamps,     \* (timestamp_us, audio_window_duration_us) pairs asked for
  OutOfRange,     \* <<revision, timestamp>>: evaluate_production_timeline refuses
  CacheCapacity,  \* plan_cache_capacity
  MaxRevision,    \* bound: revisions the editor publishes
  MaxCalls,       \* bound: client calls
  MaxControls,    \* bound: stop and pause calls
  Controls        \* which of those calls the owner makes

ASSUME ConstantAssumption ==
  /\ Timestamps # {}
  /\ OutOfRange \subseteq Nat \X Timestamps
  /\ CacheCapacity \in Nat
  /\ MaxRevision \in Nat
  /\ MaxCalls \in Nat
  /\ MaxControls \in Nat

VARIABLES
  published,      \* revision of publisher_->current_, 0 when there is none
  activeRevision, \* active_revision_
  epoch,          \* epoch_
  latestSequence, \* latest_sequence_
  queue,          \* queue_
  planCache,      \* plan_cache_: key -> plan
  cacheOrder,     \* cache_order_
  paused, stopping,
  pc,             \* where each client thread is
  call,           \* the call it is in
  draft,          \* the TimelinePlaybackRequest it is filling in
  wpc,            \* where the worker is; "none" when worker_ is not joinable
  after,          \* which of run()'s three current() tests is in progress
  request,        \* run()'s request_value
  snapshot,       \* the revision of the snapshot it acquired
  plan,           \* and its plan
  owner,          \* the thread calling start and stop
  completed,      \* history: sequence last given to the completion callback
  answered,       \* history: sequence last given to either callback
  calls, controls

clientVars  == <<pc, call, draft>>
workerVars  == <<wpc, after, request, snapshot, plan>>
cacheVars   == <<planCache, cacheOrder>>
historyVars == <<completed, answered>>
sessionVars == <<published, activeRevision, epoch, latestSequence>>
vars == <<sessionVars, queue, cacheVars, paused, stopping, clientVars,
          workerVars, owner, historyVars, calls, controls>>

Request == [sequence : Nat, epoch : Nat, revision : Nat, timestamp : Timestamps]
Key     == [revision : Nat, timestamp : Timestamps]
Plan    == [revision : Nat, timestamp : Timestamps, ok : BOOLEAN]

KeyOf(r) == [revision |-> r.revision, timestamp |-> r.timestamp]

(* build_plan on a snapshot: a function of the revision and the timestamp. *)
BuildPlan(revision, timestamp) ==
  [revision |-> revision, timestamp |-> timestamp,
   ok |-> <<revision, timestamp>> \notin OutOfRange]

AnyTimestamp == CHOOSE t \in Timestamps : TRUE

Blank(t) == [sequence |-> 0, epoch |-> 0, revision |-> 0, timestamp |-> t]

Init ==
  /\ published \in 0..MaxRevision /\ activeRevision = published
  /\ epoch = 1 /\ latestSequence = 0
  /\ queue = <<>> /\ planCache = <<>> /\ cacheOrder = <<>>
  /\ paused = FALSE /\ stopping = FALSE
  /\ pc = [c \in Clients |-> "idle"]
  /\ call = [c \in Clients |-> "seek"]
  /\ draft = [c \in Clients |-> Blank(AnyTimestamp)]
  /\ request = Blank(AnyTimestamp)
  /\ plan = BuildPlan(0, AnyTimestamp)
  /\ snapshot = 0
  /\ wpc = "none" /\ after = "acquire"
  /\ owner = "idle"
  /\ completed = 0 /\ answered = 0
  /\ calls = 0 /\ controls = 0

-----------------------------------------------------------------------------
(* The editor: ProductionTimelinePublisher::publish refuses a revision that *)
(* does not increase.                                                       *)
Publish(r) ==
  /\ r > published
  /\ published' = r
  /\ UNCHANGED <<activeRevision, epoch, latestSequence, queue, cacheVars, paused,
                 stopping, clientVars, workerVars, owner, historyVars,
                 calls, controls>>

-----------------------------------------------------------------------------
(* Client calls.  Each begins here and then takes the steps below.         *)
Begin(c, what, first, t) ==
  /\ pc[c] = "idle"
  /\ calls < MaxCalls
  /\ calls' = calls + 1
  /\ call' = [call EXCEPT ![c] = what]
  /\ pc' = [pc EXCEPT ![c] = first]
  /\ draft' = [draft EXCEPT ![c] = Blank(t)]
  /\ UNCHANGED <<sessionVars, queue, cacheVars, paused, stopping, workerVars,
                 owner, historyVars, controls>>

BeginRequest(c, t)     == Begin(c, "request", "readPublished", t)
BeginSynchronize(c)    == Begin(c, "synchronize", "readPublished", AnyTimestamp)
BeginSeek(c)           == Begin(c, "seek", "bumpEpoch", AnyTimestamp)

clientFrame == <<published, paused, stopping, workerVars, owner, historyVars,
                 calls, controls>>

(* synchronize_revision: publisher_->revision(), under the publisher's lock. *)
ReadPublished(c) ==
  /\ pc[c] = "readPublished"
  /\ draft' = [draft EXCEPT ![c].revision = published]
  /\ pc' = [pc EXCEPT ![c] = "compare"]
  /\ UNCHANGED <<clientFrame, activeRevision, epoch, latestSequence, queue,
                 cacheVars, call>>

Compare(c) ==
  /\ pc[c] = "compare"
  /\ pc' = [pc EXCEPT ![c] =
              IF draft[c].revision # activeRevision THEN "storeRevision"
              ELSE IF call[c] = "request" THEN "takeSequence" ELSE "idle"]
  /\ UNCHANGED <<clientFrame, activeRevision, epoch, latestSequence, queue,
                 cacheVars, call, draft>>

StoreRevision(c) ==
  /\ pc[c] = "storeRevision"
  /\ activeRevision' = draft[c].revision
  /\ pc' = [pc EXCEPT ![c] = "bumpEpoch"]
  /\ UNCHANGED <<clientFrame, epoch, latestSequence, queue, cacheVars, call,
                 draft>>

(* seek and invalidate_all start here; synchronize_revision continues here. *)
BumpEpoch(c) ==
  /\ pc[c] = "bumpEpoch"
  /\ epoch' = epoch + 1
  /\ pc' = [pc EXCEPT ![c] = "bumpSequence"]
  /\ UNCHANGED <<clientFrame, activeRevision, latestSequence, queue, cacheVars,
                 call, draft>>

BumpSequence(c) ==
  /\ pc[c] = "bumpSequence"
  /\ latestSequence' = latestSequence + 1
  /\ draft' = [draft EXCEPT ![c].sequence = latestSequence + 1]
  /\ pc' = [pc EXCEPT ![c] = "clear"]
  /\ UNCHANGED <<clientFrame, activeRevision, epoch, queue, cacheVars, call>>

(* Mutant: clear_cache_locked() leaves cache_order_ behind. *)
ClearPlansOnly(c) ==
  /\ pc[c] = "clear"
  /\ queue' = <<>> /\ planCache' = <<>>
  /\ pc' = [pc EXCEPT ![c] = IF call[c] = "request" THEN "takeSequence" ELSE "idle"]
  /\ UNCHANGED <<clientFrame, activeRevision, epoch, latestSequence, call, draft,
                 cacheOrder>>

(* queue_.clear() and clear_cache_locked(), then notify_all. *)
Clear(c) ==
  /\ pc[c] = "clear"
  /\ queue' = <<>> /\ planCache' = <<>> /\ cacheOrder' = <<>>
  /\ pc' = [pc EXCEPT ![c] = IF call[c] = "request" THEN "takeSequence" ELSE "idle"]
  /\ UNCHANGED <<clientFrame, activeRevision, epoch, latestSequence, call, draft>>

TakeSequence(c) ==
  /\ pc[c] = "takeSequence"
  /\ latestSequence' = latestSequence + 1
  /\ draft' = [draft EXCEPT ![c].sequence = latestSequence + 1]
  /\ pc' = [pc EXCEPT ![c] = "loadEpoch"]
  /\ UNCHANGED <<clientFrame, activeRevision, epoch, queue, cacheVars, call>>

LoadEpoch(c) ==
  /\ pc[c] = "loadEpoch"
  /\ draft' = [draft EXCEPT ![c].epoch = epoch]
  /\ pc' = [pc EXCEPT ![c] = "loadRevision"]
  /\ UNCHANGED <<clientFrame, activeRevision, epoch, latestSequence, queue,
                 cacheVars, call>>

LoadRevision(c) ==
  /\ pc[c] = "loadRevision"
  /\ draft' = [draft EXCEPT ![c].revision = activeRevision]
  /\ pc' = [pc EXCEPT ![c] = "enqueue"]
  /\ UNCHANGED <<clientFrame, activeRevision, epoch, latestSequence, queue,
                 cacheVars, call>>

(* queue_.clear() and push_back under the lock: the queue holds one request. *)
Enqueue(c) ==
  /\ pc[c] = "enqueue"
  /\ queue' = <<draft[c]>>
  /\ pc' = [pc EXCEPT ![c] = "idle"]
  /\ UNCHANGED <<clientFrame, activeRevision, epoch, latestSequence, cacheVars,
                 call, draft>>

ClientStep(c) ==
  \/ ReadPublished(c) \/ Compare(c) \/ StoreRevision(c) \/ BumpEpoch(c)
  \/ BumpSequence(c) \/ Clear(c) \/ TakeSequence(c) \/ LoadEpoch(c)
  \/ LoadRevision(c) \/ Enqueue(c)

-----------------------------------------------------------------------------
(* The owner of the session: start and resume undo a stop and a pause.     *)
Control(what) ==
  /\ what \in Controls
  /\ owner = "idle"
  /\ \/ what \in {"start", "resume"} /\ controls' = controls
     \/ what \in {"stop", "pause"} /\ controls < MaxControls /\ controls' = controls + 1

ownerFrame == <<sessionVars, cacheVars, clientVars, after, request, snapshot,
                plan, historyVars, calls>>

(* start returns at once when a thread is joinable. *)
Start ==
  /\ Control("start")
  /\ wpc = "none"
  /\ stopping' = FALSE
  /\ wpc' = "wait"
  /\ UNCHANGED <<ownerFrame, queue, paused, owner>>

(* stop: set stopping_ and drop the queue under the lock, then join. *)
Stop ==
  /\ Control("stop")
  /\ stopping' = TRUE
  /\ queue' = <<>>
  /\ owner' = IF wpc = "none" THEN "idle" ELSE "joining"
  /\ UNCHANGED <<ownerFrame, wpc, paused>>

Join ==
  /\ owner = "joining"
  /\ wpc = "exited"
  /\ wpc' = "none"
  /\ owner' = "idle"
  /\ UNCHANGED <<ownerFrame, queue, paused, stopping, controls>>

Pause ==
  /\ Control("pause")
  /\ paused' = TRUE
  /\ UNCHANGED <<ownerFrame, queue, stopping, owner, wpc>>

Resume ==
  /\ Control("resume")
  /\ paused' = FALSE
  /\ UNCHANGED <<ownerFrame, queue, stopping, owner, wpc>>

-----------------------------------------------------------------------------
(* The worker: run().                                                      *)
workerFrame == <<sessionVars, paused, stopping, clientVars, owner,
                 calls, controls>>

Exit ==
  /\ wpc = "wait"
  /\ stopping
  /\ wpc' = "exited"
  /\ UNCHANGED <<workerFrame, queue, cacheVars, after, request, snapshot,
                 plan, historyVars>>

Dequeue ==
  /\ wpc = "wait"
  /\ ~stopping /\ ~paused /\ queue # <<>>
  /\ request' = Head(queue)
  /\ queue' = Tail(queue)
  /\ after' = "acquire"
  /\ wpc' = "testEpoch"
  /\ UNCHANGED <<workerFrame, cacheVars, snapshot, plan, historyVars>>

(* current(): three atomic loads, left to right; a mismatch counts the     *)
(* request as stale and goes back to waiting.                              *)
Test(here, agrees, next) ==
  /\ wpc = here
  /\ wpc' = IF agrees THEN next ELSE "wait"
  /\ UNCHANGED <<workerFrame, queue, cacheVars, after, request, snapshot,
                 plan, historyVars>>

(* Mutant: current() forgets the sequence. *)
TestNoSequence == Test("testSequence", TRUE, "testRevision")

TestEpoch    == Test("testEpoch", request.epoch = epoch, "testSequence")
TestSequence == Test("testSequence", request.sequence = latestSequence, "testRevision")
TestRevision == Test("testRevision", request.revision = activeRevision, after)

AcquireFrame == <<workerFrame, queue, cacheVars, request, plan, historyVars>>

(* Mutant: the snapshot's revision is not compared with the request's. *)
AcquireAny ==
  /\ wpc = "acquire"
  /\ published # 0
  /\ snapshot' = published
  /\ wpc' = "lookup"
  /\ UNCHANGED <<AcquireFrame, after>>

(* Mutant: the mismatch is dropped instead of reported. *)
AcquireSilently ==
  /\ wpc = "acquire"
  /\ snapshot' = published
  /\ wpc' = IF published # 0 /\ published = request.revision THEN "lookup" ELSE "wait"
  /\ UNCHANGED <<AcquireFrame, after>>

(* publisher_->acquire(); no snapshot, or one of another revision, throws. *)
Acquire ==
  /\ wpc = "acquire"
  /\ snapshot' = published
  /\ \/ /\ published # 0 /\ published = request.revision
        /\ wpc' = "lookup"
        /\ UNCHANGED after
     \/ /\ published = 0 \/ published # request.revision
        /\ wpc' = "testEpoch"
        /\ after' = "reportError"
  /\ UNCHANGED AcquireFrame

(* Mutant: a miss is taken for a hit, and the plan at hand is delivered. *)
LookupWithoutMiss ==
  /\ wpc = "lookup"
  /\ plan' = IF KeyOf(request) \in DOMAIN planCache THEN planCache[KeyOf(request)] ELSE plan
  /\ after' = "deliver"
  /\ wpc' = "testEpoch"
  /\ UNCHANGED <<workerFrame, queue, cacheVars, request, snapshot, historyVars>>

(* find() under the lock: a hit is counted and tested again before it is    *)
(* delivered.                                                               *)
Lookup ==
  /\ wpc = "lookup"
  /\ \/ /\ KeyOf(request) \in DOMAIN planCache
        /\ plan' = planCache[KeyOf(request)]
        /\ after' = "deliver"
        /\ wpc' = "testEpoch"
     \/ /\ KeyOf(request) \notin DOMAIN planCache
        /\ wpc' = "build"
        /\ UNCHANGED <<plan, after>>
  /\ UNCHANGED <<workerFrame, queue, cacheVars, request, snapshot, historyVars>>

(* The keys and their order that remain once room has been made. *)
Evicts     == Cardinality(DOMAIN planCache) >= CacheCapacity /\ cacheOrder # <<>>
KeptKeys   == DOMAIN planCache \ (IF Evicts THEN {Head(cacheOrder)} ELSE {})
KeptOrder  == IF Evicts THEN Tail(cacheOrder) ELSE cacheOrder

(* build_plan, then the insertion under the lock with its eviction. *)
Build ==
  LET key   == KeyOf(request)
      built == BuildPlan(snapshot, request.timestamp)
  IN /\ wpc = "build"
     /\ plan' = built
     /\ \/ /\ CacheCapacity > 0 /\ built.ok
           /\ planCache' = [k \in KeptKeys \cup {key} |->
                              IF k = key THEN built ELSE planCache[k]]
           /\ cacheOrder' = Append(KeptOrder, key)
        \/ /\ CacheCapacity = 0 \/ ~built.ok
           /\ UNCHANGED cacheVars
     /\ after' = "deliver"
     /\ wpc' = "testEpoch"
     /\ UNCHANGED <<workerFrame, queue, request, snapshot, historyVars>>

(* completed_ is counted and completion_ is called; when the callback      *)
(* throws, run()'s catch tests current() again and reports the error.      *)
Deliver ==
  /\ wpc = "deliver"
  /\ completed' = request.sequence
  /\ answered' = request.sequence
  /\ \/ wpc' = "wait" /\ UNCHANGED after
     \/ wpc' = "testEpoch" /\ after' = "reportError"
  /\ UNCHANGED <<workerFrame, queue, cacheVars, request, snapshot, plan>>

ReportError ==
  /\ wpc = "reportError"
  /\ answered' = request.sequence
  /\ wpc' = "wait"
  /\ UNCHANGED <<workerFrame, queue, cacheVars, after, request, snapshot, plan,
                 completed>>

WorkerStep ==
  \/ Exit \/ Dequeue \/ TestEpoch \/ TestSequence \/ TestRevision
  \/ Acquire \/ Lookup \/ Build \/ Deliver \/ ReportError

-----------------------------------------------------------------------------
Next ==
  \/ \E r \in 1..MaxRevision : Publish(r)
  \/ \E c \in Clients :
       \/ \E t \in Timestamps : BeginRequest(c, t)
       \/ BeginSynchronize(c) \/ BeginSeek(c)
       \/ ClientStep(c)
  \/ Start \/ Stop \/ Join \/ Pause \/ Resume
  \/ WorkerStep

Spec == Init /\ [][Next]_vars

(* A thread that can run does run: the worker, every client inside a call, *)
(* and the owner waiting to join.  No client is forced to make a call.     *)
Fairness ==
  /\ WF_vars(WorkerStep)
  /\ WF_vars(Join)
  /\ \A c \in Clients : WF_vars(ClientStep(c))

FairSpec == Spec /\ Fairness

-----------------------------------------------------------------------------
ClientPCs == {"idle", "readPublished", "compare", "storeRevision", "bumpEpoch",
              "bumpSequence", "clear", "takeSequence", "loadEpoch",
              "loadRevision", "enqueue"}
Tests     == {"testEpoch", "testSequence", "testRevision"}
WorkerPCs == Tests \cup {"none", "wait", "acquire", "lookup", "build", "deliver",
                         "reportError", "exited"}

(* Every variable keeps its type, and at most one request is ever pending. *)
TypeOK ==
  /\ published \in Nat /\ activeRevision \in Nat
  /\ epoch \in Nat /\ latestSequence \in Nat
  /\ queue \in Seq(Request) /\ Len(queue) <= 1
  /\ DOMAIN planCache \subseteq Key
  /\ \A k \in DOMAIN planCache : planCache[k] \in Plan
  /\ cacheOrder \in Seq(Key)
  /\ paused \in BOOLEAN /\ stopping \in BOOLEAN
  /\ pc \in [Clients -> ClientPCs]
  /\ call \in [Clients -> {"request", "seek", "synchronize"}]
  /\ draft \in [Clients -> Request]
  /\ wpc \in WorkerPCs
  /\ after \in {"acquire", "deliver", "reportError"}
  /\ request \in Request /\ snapshot \in Nat /\ plan \in Plan
  /\ owner \in {"idle", "joining"}
  /\ completed \in Nat
  /\ answered \in Nat
  /\ calls \in Nat /\ controls \in Nat

(* The worker only ever hands out a plan that was built for the request it *)
(* belongs to: neither an eviction, nor a cache cleared while a build was  *)
(* in flight, nor a publication between acquire and delivery mixes them.   *)
DeliveredPlanMatches ==
  wpc = "deliver" => plan = BuildPlan(request.revision, request.timestamp)

(* "Cached plans never cross revision boundaries" (docs/production_        *)
(* timeline_v5_1.md): whatever a key finds is what its revision builds.    *)
CachedPlansMatch ==
  \A k \in DOMAIN planCache : planCache[k] = BuildPlan(k.revision, k.timestamp)

(* plan_cache_ and cache_order_ stay two views of one set, within the      *)
(* capacity: an order entry without a plan would evict nothing and let     *)
(* the cache outgrow its bound.                                            *)
CacheCoherent ==
  /\ {cacheOrder[i] : i \in DOMAIN cacheOrder} = DOMAIN planCache
  /\ \A i, j \in DOMAIN cacheOrder : cacheOrder[i] = cacheOrder[j] => i = j
  /\ Len(cacheOrder) <= CacheCapacity

(* Completions are delivered in the order the requests were made, each at  *)
(* most once: a plan for an older playhead never follows a newer one, even *)
(* when racing requests reach the queue out of order.                      *)
CompletionsAdvance ==
  [][wpc = "deliver" /\ wpc' # wpc => completed' > completed]_vars

(* The abstract promise of the two playback workers: completions go to     *)
(* requests that were the newest when the worker last looked, in order and *)
(* each once, whatever the editor, racing clients and the owner do.        *)
Claimed == IF wpc \in {"testRevision", "deliver"} /\ after = "deliver"
           THEN request.sequence ELSE 0
Promise == INSTANCE LatestRequest WITH
             latest <- latestSequence, claimed <- Claimed, completed <- completed
ImplementsLatestRequest == Promise!Spec

(* Why CompletionsAdvance holds.  A client holds a sequence from            *)
(* fetch_add to push_back, the worker from pop_front until it calls back;   *)
(* each sequence has one holder, none was completed before, and the one     *)
(* that passed the sequence test exceeds every completed one.               *)
Holding(c)  == pc[c] \in {"loadEpoch", "loadRevision", "enqueue"}
Undelivered == /\ wpc \in Tests \cup {"acquire", "lookup", "build", "deliver"}
               /\ after # "reportError"

HeldSequencesBounded ==
  /\ completed <= latestSequence
  /\ \A c \in Clients : Holding(c) => draft[c].sequence <= latestSequence
  /\ \A i \in DOMAIN queue : queue[i].sequence <= latestSequence
  /\ Undelivered => request.sequence <= latestSequence

HeldSequencesDistinct ==
  /\ \A c, d \in Clients :
       Holding(c) /\ Holding(d) /\ c # d => draft[c].sequence # draft[d].sequence
  /\ \A c \in Clients, i \in DOMAIN queue :
       Holding(c) => draft[c].sequence # queue[i].sequence
  /\ Undelivered => /\ \A c \in Clients : Holding(c) => draft[c].sequence # request.sequence
                    /\ \A i \in DOMAIN queue : queue[i].sequence # request.sequence

HeldSequencesFresh ==
  /\ \A c \in Clients : Holding(c) => draft[c].sequence # completed
  /\ \A i \in DOMAIN queue : queue[i].sequence # completed
  /\ Undelivered => request.sequence # completed

TestedIsNewest ==
  /\ wpc = "deliver" => after = "deliver"
  /\ wpc \in {"acquire", "lookup", "build"} => after = "acquire"
  /\ wpc \in {"testRevision", "deliver"} /\ Undelivered => completed < request.sequence

CompletionInv ==
  /\ HeldSequencesBounded /\ HeldSequencesDistinct
  /\ HeldSequencesFresh /\ TestedIsNewest

(* Why DeliveredPlanMatches holds: from acquire on, the snapshot the worker *)
(* builds from is of the revision its request names.                        *)
SnapshotMatches ==
  /\ wpc \in {"lookup", "build"} => snapshot = request.revision
  /\ wpc \in Tests \cup {"deliver"} /\ after = "deliver" =>
       plan = BuildPlan(request.revision, request.timestamp)
  /\ wpc = "deliver" => after = "deliver"

(* The newest request has reached the queue, and its call has returned.    *)
Pending(c) ==
  /\ pc[c] = "idle" /\ call[c] = "request"
  /\ draft[c].sequence = latestSequence
  /\ queue = <<draft[c]>>

Answered(c) ==
  \/ draft[c].sequence = answered
  \/ draft[c].sequence # latestSequence
  \/ paused \/ wpc = "none"

(* "Latest-request-wins" (docs/production_timeline_v5_1.md): the newest     *)
(* request is answered, by a plan or by an error, unless the session is    *)
(* paused or stopped, or a newer call takes over.                          *)
LatestRequestWins == \A c \in Clients : Pending(c) ~> Answered(c)

(* The same once no call is under way: nothing that the worker, the editor *)
(* or the owner does from there loses the request.                         *)
SettledRequestAnswered ==
  \A c \in Clients :
    (Pending(c) /\ \A d \in Clients : pc[d] = "idle") ~> Answered(c)
=============================================================================
