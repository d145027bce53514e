------------------------- MODULE PlaybackScheduler -------------------------
(***************************************************************************)
(* The frame scheduler of src/include/digitor/playback.hpp: clients        *)
(* request frames, seek, cancel, and invalidate the graph; a worker        *)
(* decodes and processes the requested frame and the next ones, through    *)
(* two caches keyed by source, graph, frame and epoch.  The decode and     *)
(* process callbacks belong to the host: what they return depends on the   *)
(* source and graph the host has when they run.                            *)
(***************************************************************************)
EXTENDS Naturals, Sequences, FiniteSets

CONSTANTS Clients, LastFrame, Prefetch, Sources, Graphs,
          Budget,     \* frames a cache has room for
          MaxCalls    \* bound on the calls of all clients together

ASSUME SchedulerAssumption ==
  /\ LastFrame \in Nat /\ Prefetch \in Nat /\ Budget \in Nat /\ MaxCalls \in Nat
  /\ Sources # {} /\ Graphs # {}

VARIABLES
  epoch, latest, cancelledBefore, paused, stopping, queue,
  identity,                     \* source_identity_ and graph_identity_
  decodedCache, gpuCache,       \* sets of [key, value]
  pc, draft,                    \* clients: where in a call, and its values
  host,                         \* the source and graph the host really has
  wpc, after, item, key, decoded, gpu,    \* run()
  changed,                      \* history: how often host was changed
  completed, answered,          \* history: last sequence completed, or answered
  calls, interrupted            \* history: calls made; pause or stop used

atomics == <<epoch, latest, cancelledBefore, paused>>
locked == <<stopping, queue, identity>>
caches == <<decodedCache, gpuCache>>
clients == <<pc, draft>>
context == <<host, changed>>
frame == <<after, item, key, decoded, gpu>>
answers == <<completed, answered>>
budget == <<calls, interrupted>>
vars == <<atomics, locked, caches, clients, context, wpc, frame, answers, budget>>

Identity == [source : Sources, graph : Graphs]
NoItem == [sequence |-> 0, epoch |-> 0, frame |-> 0, deliver |-> FALSE, made |-> 0]
NoValue == [frame |-> LastFrame + Prefetch + 1]

-----------------------------------------------------------------------------
(* ByteBudgetLruCache, as the set of its entries.  put evicts as many of    *)
(* the others as it has to; which are the longest unused ones is left open. *)

Found(cache, k) == IF \E e \in cache : e.key = k
                   THEN (CHOOSE e \in cache : e.key = k).value ELSE NoValue

\* What put can leave of a cache.
Put(cache, k, v) ==
  LET others == {e \in cache : e.key # k}
      new == [key |-> k, value |-> v]
  IN IF Budget = 0 THEN {others}
     ELSE {kept \cup {new} : kept \in {s \in SUBSET others : Cardinality(s) < Budget}}

Init ==
  /\ epoch = 1 /\ latest = 0 /\ cancelledBefore = 0 /\ paused = FALSE /\ stopping = FALSE
  /\ queue = <<>>
  /\ identity = CHOOSE i \in Identity : TRUE     \* which one is first does not matter
  /\ host = identity
  /\ decodedCache = {} /\ gpuCache = {}
  /\ pc = [c \in Clients |-> "idle"] /\ draft = [c \in Clients |-> NoItem]
  /\ wpc = "none" /\ after = "key" /\ item = NoItem /\ key = NoValue
  /\ decoded = NoValue /\ gpu = NoValue
  /\ changed = 0 /\ completed = 0 /\ answered = 0 /\ calls = 0 /\ interrupted = FALSE

-----------------------------------------------------------------------------
(* Clients. *)

Call(c, next) == /\ pc[c] = "idle" /\ calls < MaxCalls /\ calls' = calls + 1
                 /\ pc' = [pc EXCEPT ![c] = next] /\ UNCHANGED interrupted
Go(c, from, to) == /\ pc[c] = from /\ pc' = [pc EXCEPT ![c] = to] /\ UNCHANGED budget
\* Mutant of Notified: no cv_.notify_all().
NeverNotified == wpc

Notified == IF wpc = "waiting" THEN "wait" ELSE wpc
MutexFree == wpc # "blocking"

\* The host is between installing a graph and the end of invalidate_graph's effect.
Changing == \E c \in Clients : pc[c] \in {"setIdentity", "bumpEpoch"}

\* request: a number, the epoch, then the queue becomes the frame and the ones
\* after it, which are prefetched and not delivered.
Request(c, f) ==
  /\ Call(c, "loadEpoch")
  /\ latest' = latest + 1
  /\ draft' = [draft EXCEPT ![c] = [sequence |-> latest + 1, epoch |-> 0, frame |-> f,
                 deliver |-> TRUE, made |-> IF Changing THEN MaxCalls + 1 ELSE changed]]
  /\ UNCHANGED <<epoch, cancelledBefore, paused, locked, caches, context, wpc, frame, answers>>

LoadEpoch(c) ==
  /\ Go(c, "loadEpoch", "enqueue")
  /\ draft' = [draft EXCEPT ![c].epoch = epoch]
  /\ UNCHANGED <<atomics, locked, caches, context, wpc, frame, answers>>

Enqueue(c) ==
  /\ MutexFree /\ Go(c, "enqueue", "idle")
  /\ queue' = [i \in 1..(Prefetch + 1) |->
                 [draft[c] EXCEPT !.frame = @ + i - 1, !.deliver = (i = 1)]]
  /\ wpc' = Notified
  /\ UNCHANGED <<atomics, stopping, identity, caches, draft, context, frame, answers>>

CancelBefore(c, s) ==
  /\ Call(c, "idle")
  /\ cancelledBefore' = s /\ wpc' = Notified
  /\ UNCHANGED <<epoch, latest, paused, locked, caches, draft, context, frame, answers>>

\* seek: epoch, number, queue, then both caches keep the new epoch's entries.
BeginSeek(c) ==
  /\ Call(c, "seekSequence")
  /\ epoch' = epoch + 1
  /\ draft' = [draft EXCEPT ![c] = [NoItem EXCEPT !.epoch = epoch + 1]]
  /\ UNCHANGED <<latest, cancelledBefore, paused, locked, caches, context, wpc, frame, answers>>

SeekSequence(c) ==
  /\ Go(c, "seekSequence", "clearQueue")
  /\ latest' = latest + 1
  /\ UNCHANGED <<epoch, cancelledBefore, paused, locked, caches, draft, context, wpc, frame,
                 answers>>

ClearQueue(c) ==
  /\ MutexFree /\ Go(c, "clearQueue", "clearDecoded")
  /\ queue' = <<>>
  /\ UNCHANGED <<atomics, stopping, identity, caches, draft, context, wpc, frame, answers>>

\* clear_before_epoch of seek; invalidate_graph's clear names no epoch.
Kept(cache, c) == IF draft[c].epoch = 0 THEN {}
                  ELSE {e \in cache : e.key.epoch >= draft[c].epoch}

ClearDecoded(c) ==
  /\ Go(c, "clearDecoded", "clearGpu")
  /\ decodedCache' = Kept(decodedCache, c)
  /\ UNCHANGED <<atomics, locked, gpuCache, draft, context, wpc, frame, answers>>

ClearGpu(c) ==
  /\ Go(c, "clearGpu", "idle")
  /\ gpuCache' = Kept(gpuCache, c) /\ wpc' = Notified
  /\ UNCHANGED <<atomics, locked, decodedCache, draft, context, frame, answers>>

\* The host installs another graph and then calls invalidate_graph.
InvalidateGraph(c, g) ==
  /\ g # host.graph /\ ~Changing /\ Call(c, "setIdentity")
  /\ host' = [host EXCEPT !.graph = g] /\ changed' = changed + 1
  /\ draft' = [draft EXCEPT ![c] = NoItem]
  /\ UNCHANGED <<atomics, locked, caches, wpc, frame, answers>>

SetIdentity(c) ==
  /\ MutexFree /\ Go(c, "setIdentity", "bumpEpoch")
  /\ identity' = [identity EXCEPT !.graph = host.graph] /\ queue' = <<>>
  /\ UNCHANGED <<atomics, stopping, caches, draft, context, wpc, frame, answers>>

BumpEpoch(c) ==
  /\ Go(c, "bumpEpoch", "clearDecoded")
  /\ epoch' = epoch + 1
  /\ UNCHANGED <<latest, cancelledBefore, paused, locked, caches, draft, context, wpc, frame,
                 answers>>

\* Another source and set_context, while the worker is stopped.
SetContext(c, s) ==
  /\ wpc = "none" /\ s # host.source /\ ~Changing /\ Call(c, "idle")
  /\ host' = [host EXCEPT !.source = s] /\ changed' = changed + 1
  /\ identity' = host'
  /\ UNCHANGED <<atomics, stopping, queue, caches, draft, wpc, frame, answers>>

ClientStep(c) == \/ LoadEpoch(c) \/ Enqueue(c) \/ SeekSequence(c) \/ ClearQueue(c)
                 \/ ClearDecoded(c) \/ ClearGpu(c) \/ SetIdentity(c) \/ BumpEpoch(c)

ClientCall(c) == \/ \E f \in 0..LastFrame : Request(c, f)
                 \/ \E s \in 1..(latest + 1) : CancelBefore(c, s)
                 \/ BeginSeek(c)
                 \/ \E g \in Graphs : InvalidateGraph(c, g)
                 \/ \E s \in Sources : SetContext(c, s)

-----------------------------------------------------------------------------
(* The owner. *)

Start ==
  /\ wpc = "none"
  /\ wpc' = "wait" /\ stopping' = FALSE /\ paused' = FALSE
  /\ UNCHANGED <<epoch, latest, cancelledBefore, queue, identity, caches, clients, context,
                 frame, answers, budget>>

Interrupt == calls < MaxCalls /\ calls' = calls + 1 /\ interrupted' = TRUE

\* stop returns once the worker has left: Start waits for that.
Stop ==
  /\ wpc # "none" /\ MutexFree /\ ~stopping /\ Interrupt
  /\ stopping' = TRUE /\ queue' = <<>> /\ wpc' = Notified
  /\ UNCHANGED <<atomics, identity, caches, clients, context, frame, answers>>

Pause ==
  /\ ~paused /\ Interrupt /\ paused' = TRUE
  /\ UNCHANGED <<epoch, latest, cancelledBefore, locked, caches, clients, context, wpc, frame,
                 answers>>

\* resume stores paused_ and notifies without mutex_: a worker between its test
\* and its wait ("blocking") hears nothing.
Resume ==
  /\ paused /\ paused' = FALSE /\ wpc' = Notified
  /\ UNCHANGED <<epoch, latest, cancelledBefore, locked, caches, clients, context, frame,
                 answers, budget>>

-----------------------------------------------------------------------------
(* run(). *)

Step(from, to) == /\ wpc = from /\ wpc' = to
                  /\ UNCHANGED <<atomics, stopping, identity, clients, context, budget>>

\* The predicate of cv_.wait, under mutex_.
Take ==
  \/ /\ stopping /\ Step("wait", "none") /\ UNCHANGED <<queue, caches, frame, answers>>
  \/ /\ ~stopping /\ ~paused /\ queue # <<>> /\ Step("wait", "testEpoch")
     /\ item' = Head(queue) /\ queue' = Tail(queue) /\ after' = "key"
     /\ UNCHANGED <<caches, key, decoded, gpu, answers>>
  \/ /\ ~stopping /\ (paused \/ queue = <<>>) /\ Step("wait", "blocking")
     /\ UNCHANGED <<queue, caches, frame, answers>>

Block == Step("blocking", "waiting") /\ UNCHANGED <<queue, caches, frame, answers>>

\* current(): three loads, one after the other.
Test(from, holds, to) ==
  /\ Step(from, IF holds THEN to ELSE "wait") /\ UNCHANGED <<queue, caches, frame, answers>>
TestEpoch == Test("testEpoch", item.epoch = epoch, "testSequence")
\* Mutant of TestSequence: current() without the sequence.
TestNoSequence == Test("testSequence", TRUE, "testCancelled")

TestSequence == Test("testSequence", item.sequence = latest, "testCancelled")
TestCancelled == Test("testCancelled", item.sequence >= cancelledBefore, after)

\* Mutant of KeyFor: The key without the source identity.
KeyForGraph == [source |-> CHOOSE s \in Sources : TRUE, graph |-> identity.graph,
                frame |-> item.frame, epoch |-> item.epoch]

\* key_for, under mutex_.
KeyFor == [source |-> identity.source, graph |-> identity.graph,
           frame |-> item.frame, epoch |-> item.epoch]
TakeKey ==
  /\ Step("key", "getGpu") /\ key' = KeyFor
  /\ UNCHANGED <<queue, caches, after, item, decoded, gpu, answers>>

GetGpu ==
  /\ Step("getGpu", "getDecoded")
  /\ gpu' = Found(gpuCache, key)
  /\ UNCHANGED <<queue, caches, after, item, key, decoded, answers>>

\* What is still missing; only the requested frame is delivered.
Finish == IF item.deliver THEN "testEpoch" ELSE "wait"
GetDecoded ==
  LET found == Found(decodedCache, key)
  IN /\ Step("getDecoded", IF found = NoValue THEN "decode"
                           ELSE IF gpu = NoValue THEN "process" ELSE Finish)
     /\ decoded' = found /\ after' = "deliver"
     /\ UNCHANGED <<queue, caches, item, key, gpu, answers>>

Decode ==
  /\ Step("decode", "putDecoded")
  /\ decoded' = [frame |-> item.frame, source |-> host.source]
  /\ UNCHANGED <<queue, caches, after, item, key, gpu, answers>>

PutDecoded ==
  /\ Step("putDecoded", IF gpu = NoValue THEN "process" ELSE Finish)
  /\ decodedCache' \in Put(decodedCache, key, decoded)
  /\ UNCHANGED <<queue, gpuCache, frame, answers>>

Process ==
  /\ Step("process", "putGpu")
  /\ gpu' = [frame |-> decoded.frame, source |-> decoded.source, graph |-> host.graph]
  /\ UNCHANGED <<queue, caches, after, item, key, decoded, answers>>

PutGpu ==
  /\ Step("putGpu", Finish)
  /\ gpuCache' \in Put(gpuCache, key, gpu)
  /\ UNCHANGED <<queue, decodedCache, frame, answers>>

\* decode_, process_ or completion_ throws: the error of a prefetch is dropped.
Fail ==
  /\ wpc \in {"decode", "process"} /\ Step(wpc, Finish) /\ after' = "report"
  /\ UNCHANGED <<queue, caches, item, key, decoded, gpu, answers>>

Deliver ==
  /\ completed' = item.sequence /\ answered' = item.sequence
  /\ \/ Step("deliver", "wait") /\ UNCHANGED after
     \/ Step("deliver", "testEpoch") /\ after' = "report"
  /\ UNCHANGED <<queue, caches, item, key, decoded, gpu>>

Report ==
  /\ Step("report", "wait") /\ answered' = item.sequence
  /\ UNCHANGED <<queue, caches, frame, completed>>

WorkerStep == Take \/ Block \/ TestEpoch \/ TestSequence \/ TestCancelled \/ TakeKey \/ GetGpu
              \/ GetDecoded \/ Decode \/ PutDecoded \/ Process \/ PutGpu \/ Fail \/ Deliver \/ Report

Next == \/ \E c \in Clients : ClientCall(c) \/ ClientStep(c)
        \/ Start \/ Stop \/ Pause \/ Resume \/ WorkerStep

Spec == Init /\ [][Next]_vars
FairSpec == Spec /\ WF_vars(WorkerStep) /\ \A c \in Clients : WF_vars(ClientStep(c))

-----------------------------------------------------------------------------
\* The frame completed for a request made while source and graph stood still, and
\* not changed since, is that frame of that source through that graph: whatever
\* was decoded or processed across an earlier seek, stop or invalidation and then
\* put into a cache that had just been cleared is never found again.
CompletedIsWanted ==
  (wpc = "deliver" /\ item.made = changed) =>
    gpu = [frame |-> item.frame, source |-> host.source, graph |-> host.graph]

\* Completions go to requests that were the newest when the worker last looked,
\* in order and each once, whatever the prefetch, the caches and the clients do.
Promise == INSTANCE LatestRequest WITH
  latest <- latest, completed <- completed,
  claimed <- IF wpc \in {"testCancelled", "deliver"} /\ after = "deliver"
             THEN item.sequence ELSE 0
ImplementsLatestRequest == Promise!Spec

\* A queued newest request is answered once no call is under way, unless a newer
\* one or cancel_before overtakes it or somebody paused or stopped: after a pause
\* the wake-up of resume may be lost and the request waits for the next call.
Waiting(s) == queue # <<>> /\ Head(queue).sequence = s /\ Head(queue).deliver
SettledRequestAnswered ==
  \A s \in 1..MaxCalls :
    (Waiting(s) /\ wpc # "none" /\ s = latest /\ \A c \in Clients : pc[c] = "idle")
      ~> (answered = s \/ s # latest \/ s < cancelledBefore \/ interrupted
          \/ \E c \in Clients : pc[c] # "idle")
=============================================================================
