----------------------- MODULE PlaybackSchedulerProofs -----------------------
(***************************************************************************)
(* For every number of clients, frames, sources and graphs, every prefetch *)
(* and cache: a completed frame is the wanted one, and the worker keeps    *)
(* the promise of LatestRequest.                                           *)
(***************************************************************************)
EXTENDS PlaybackScheduler, TLAPS

Testing == {"testEpoch", "testSequence", "testCancelled"}
\* From key_for to the last put; the first of them without what GetGpu finds.
Filling == {"getGpu", "getDecoded", "decode", "putDecoded", "process", "putGpu"}
\* The worker has an item in its hand.
Busy == Testing \cup Filling \cup {"key", "deliver", "report"}

Items == [sequence : Nat, epoch : Nat, frame : Nat, deliver : BOOLEAN, made : Nat]

Typed ==
  /\ epoch \in Nat /\ latest \in Nat /\ completed \in Nat
  /\ queue \in Seq(Items) /\ item \in Items
  /\ pc \in [Clients -> {"idle", "loadEpoch", "enqueue", "seekSequence", "clearQueue",
                         "clearDecoded", "clearGpu", "setIdentity", "bumpEpoch"}]
  /\ draft \in [Clients -> Items]
  /\ identity \in Identity /\ host \in Identity
  /\ wpc \in Busy \cup {"none", "wait", "blocking", "waiting"}
  /\ after \in {"key", "deliver", "report"}
  /\ changed \in Nat /\ calls \in Nat /\ changed <= calls /\ calls <= MaxCalls

\* What the worker does once the tests have passed, place by place.
Staged ==
  /\ wpc \in {"key", "getGpu", "getDecoded"} => after = "key"
  /\ wpc \in {"decode", "putDecoded", "process", "putGpu"} => after = "deliver"
  /\ wpc \in Testing /\ after # "key" => item.deliver
  /\ wpc \in {"deliver", "report"} => after = wpc /\ item.deliver

Pending(c) == pc[c] \in {"loadEpoch", "enqueue"}

\* A number that is still to be completed is in one place.
OneHolder ==
  /\ completed <= latest /\ item.sequence <= latest
  /\ \A c \in Clients : Pending(c) =>
       /\ draft[c].sequence > 0 /\ draft[c].sequence <= latest
       /\ draft[c].sequence \notin {completed, item.sequence}
       /\ \A i \in DOMAIN queue : queue[i].sequence # draft[c].sequence
       /\ \A d \in Clients : Pending(d) /\ draft[d].sequence = draft[c].sequence => d = c
  /\ \A i \in DOMAIN queue :
       /\ queue[i].sequence > 0 /\ queue[i].sequence <= latest
       /\ queue[i].deliver => i = 1 /\ queue[i].sequence \notin {completed, item.sequence}
  /\ wpc \in Busy => item.sequence > 0
  /\ wpc \in Busy /\ after # "report" /\ item.deliver => item.sequence # completed

\* What is carried around of a request, and what of it is of no change of the host.
Carried(h) == \/ \E c \in Clients : Pending(c) /\ h = draft[c]
              \/ \E i \in DOMAIN queue : h = queue[i]
              \/ wpc \in Busy /\ h = item
Loaded(h)  == \/ \E c \in Clients : pc[c] = "enqueue" /\ h = draft[c]
              \/ \E i \in DOMAIN queue : h = queue[i]
              \/ wpc \in Busy /\ h = item

\* The scheduler knows the host, but for an invalidation that is under way; a
\* request of the present state of the host was not made across one.
HostKnown ==
  /\ identity.source = host.source
  /\ (\A c \in Clients : pc[c] # "setIdentity") => identity = host
  /\ \A c, d \in Clients : {pc[c], pc[d]} \subseteq {"setIdentity", "bumpEpoch"} => c = d
  /\ \A h \in Items : Carried(h) =>
       /\ h.made <= changed \/ h.made = MaxCalls + 1
       /\ h.made = changed => ~ Changing
       /\ h.frame <= LastFrame + Prefetch
  /\ \A c \in Clients : Pending(c) => draft[c].frame <= LastFrame

\* Only the graph of what is processed can differ from what the key says.
Keyed == wpc \in Filling \/ (wpc \in Testing \cup {"deliver"} /\ after = "deliver")
Decoded(k) == [frame |-> k.frame, source |-> k.source]
Processed(k, g) == [frame |-> k.frame, source |-> k.source, graph |-> g]
Keys == [source : Sources, graph : Graphs, frame : 0..LastFrame + Prefetch, epoch : Nat]

KeysTrue ==
  /\ \A e \in decodedCache : e.key \in Keys /\ e.value = Decoded(e.key)
  /\ \A e \in gpuCache : e.key \in Keys /\ e.value = Processed(e.key, e.value.graph)
  /\ Keyed => /\ key \in Keys /\ key.source = host.source
              /\ key.frame = item.frame /\ key.epoch = item.epoch
  /\ Keyed /\ wpc # "getGpu" => gpu = NoValue \/ gpu = Processed(key, gpu.graph)
  /\ wpc \in {"putDecoded", "process"} => decoded = Decoded(key)
  /\ Keyed /\ wpc \notin {"getGpu", "getDecoded", "decode", "putDecoded", "process"} =>
       gpu # NoValue

\* Epochs of keys under which something of another graph is cached or may come to be.
Tainted(n) ==
  \/ \E e \in gpuCache : e.key.epoch = n /\ e.value.graph # e.key.graph
  \/ /\ wpc \in Filling /\ key.epoch = n
     /\ key.graph # host.graph \/ (wpc = "putGpu" /\ gpu.graph # key.graph)

TaintIsOld ==
  /\ \A h \in Items : Loaded(h) => h.epoch <= epoch
  /\ \A e \in gpuCache : e.key.epoch <= epoch
  /\ \A n \in Nat : Tainted(n) =>
       /\ Changing \/ n < epoch
       /\ \A h \in Items : Loaded(h) /\ h.made = changed => n < h.epoch
  /\ Keyed /\ item.made = changed =>
       /\ key.graph = host.graph
       /\ wpc # "getGpu" => gpu = NoValue \/ gpu.graph = key.graph

IInv == Typed /\ Staged /\ OneHolder /\ HostKnown /\ KeysTrue /\ TaintIsOld

-----------------------------------------------------------------------------
(* What the steps of the clients and of the owner have in common. *)

Resting == {"none", "wait", "blocking", "waiting"}

Outside == \/ \E c \in Clients : ClientCall(c) \/ ClientStep(c)
           \/ Start \/ Stop \/ Pause \/ Resume

\* The worker keeps its item and its place, but for being woken, started or stopped.
LEMMA OutsideKeepsWorker ==
  ASSUME Typed, Outside
  PROVE  UNCHANGED <<frame, answers>> /\ (wpc' = wpc \/ {wpc, wpc'} \subseteq Resting)
<1>1. Notified = wpc \/ {wpc, Notified} \subseteq Resting
  BY DEF Notified, Resting
<1>2. ASSUME NEW c \in Clients, ClientStep(c)
      PROVE  UNCHANGED <<frame, answers>> /\ (wpc' = wpc \/ wpc' = Notified)
  BY <1>2 DEF ClientStep, LoadEpoch, Enqueue, SeekSequence, ClearQueue, ClearDecoded, ClearGpu,
     SetIdentity, BumpEpoch
<1>3. ASSUME NEW c \in Clients, ClientCall(c)
      PROVE  UNCHANGED <<frame, answers>> /\ (wpc' = wpc \/ wpc' = Notified)
  BY <1>3 DEF ClientCall, Request, CancelBefore, BeginSeek, InvalidateGraph, SetContext
<1>4. ASSUME Start
      PROVE  UNCHANGED <<frame, answers>> /\ {wpc, wpc'} \subseteq Resting
  BY <1>4 DEF Start, Resting
<1>5. ASSUME Stop \/ Pause \/ Resume
      PROVE  UNCHANGED <<frame, answers>> /\ (wpc' = wpc \/ wpc' = Notified)
  BY <1>5 DEF Stop, Pause, Resume
<1> QED
  BY <1>1, <1>2, <1>3, <1>4, <1>5 DEF Outside

\* The worker changes nothing of the clients, the host or the atomics.
LEMMA WorkerKeepsOutside ==
  ASSUME WorkerStep
  PROVE  UNCHANGED <<atomics, stopping, identity, clients, context, budget>>
  BY DEF WorkerStep, Take, Block, TestEpoch, TestSequence, TestCancelled, Test, TakeKey, GetGpu,
     GetDecoded, Decode, PutDecoded, Process, PutGpu, Fail, Deliver, Report, Step

\* The queue without its first item.
LEMMA TailIs ==
  ASSUME NEW s \in Seq(Items), s # <<>>
  PROVE  /\ Tail(s) \in Seq(Items) /\ Head(s) \in Items /\ Head(s) = s[1] /\ 1 \in DOMAIN s
         /\ \A i \in DOMAIN Tail(s) : i # 0 /\ i + 1 # 1 /\ i + 1 \in DOMAIN s /\ Tail(s)[i] = s[i + 1]
  OBVIOUS

\* What a request puts into the queue.
LEMMA EnqueueIs ==
  ASSUME Typed, NEW c \in Clients, Enqueue(c)
  PROVE  /\ queue' \in Seq(Items)
         /\ \A i \in DOMAIN queue' :
              /\ i \in Nat /\ i >= 1 /\ i <= Prefetch + 1
              /\ queue'[i].sequence = draft[c].sequence /\ queue'[i].epoch = draft[c].epoch
              /\ queue'[i].made = draft[c].made /\ queue'[i].frame = draft[c].frame + i - 1
              /\ queue'[i].deliver => i = 1
<1>1. Prefetch \in Nat /\ draft[c] \in Items /\ draft[c].frame \in Nat
  BY SchedulerAssumption DEF Typed, Items
<1> DEFINE new(i) == [draft[c] EXCEPT !.frame = @ + i - 1, !.deliver = (i = 1)]
<1>2. queue' = [i \in 1..(Prefetch + 1) |-> new(i)]
  BY DEF Enqueue
<1>3. ASSUME NEW i \in 1..(Prefetch + 1)
      PROVE  /\ new(i) \in Items /\ new(i).sequence = draft[c].sequence
             /\ new(i).epoch = draft[c].epoch /\ new(i).made = draft[c].made
             /\ new(i).frame = draft[c].frame + i - 1 /\ (new(i).deliver => i = 1)
  <2>1. draft[c].frame + i - 1 \in Nat /\ (i = 1) \in BOOLEAN
    BY <1>1
  <2>2. PICK first \in BOOLEAN : first = (i = 1)
    BY <2>1
  <2>3. PICK n \in Nat : n = draft[c].frame + i - 1
    BY <2>1
  <2>4. new(i) = [draft[c] EXCEPT !.frame = n, !.deliver = first]
    BY <2>2, <2>3
  <2> HIDE DEF new
  <2>5. first => i = 1
    BY <2>2
  <2>6. PICK m \in Items : m = [draft[c] EXCEPT !.frame = n, !.deliver = first]
    BY <1>1 DEF Items
  <2>7. /\ m.sequence = draft[c].sequence /\ m.epoch = draft[c].epoch
        /\ m.made = draft[c].made /\ m.frame = n /\ (m.deliver => first)
    BY <1>1, <2>6 DEF Items
  <2>8. new(i) = m
    BY <2>4, <2>6
  <2> QED
    BY <2>3, <2>5, <2>7, <2>8
<1> HIDE DEF new
<1>4. Prefetch + 1 \in Nat /\ DOMAIN queue' = 1..(Prefetch + 1)
  BY <1>1, <1>2
<1>5. \A i \in DOMAIN queue' : queue'[i] = new(i)
  BY <1>2
<1>6. queue' \in Seq(Items)
  BY <1>2, <1>3, <1>4
<1> QED
  BY <1>1, <1>3, <1>4, <1>5, <1>6

-----------------------------------------------------------------------------
(* Types. *)
LEMMA InitEstablishes == Init => IInv
<1> SUFFICES ASSUME Init PROVE IInv
  OBVIOUS
<1>0. identity \in Identity /\ host = identity
  <2>1. PICK s \in Sources, g \in Graphs : TRUE
    BY SchedulerAssumption
  <2>2. [source |-> s, graph |-> g] \in Identity
    BY DEF Identity
  <2>3. (CHOOSE i \in Identity : TRUE) \in Identity
    BY <2>2
  <2> QED
    BY <2>3 DEF Init
<1>1. /\ pc = [c \in Clients |-> "idle"] /\ draft = [c \in Clients |-> NoItem] /\ wpc = "none"
      /\ queue = <<>> /\ item = NoItem /\ latest = 0 /\ completed = 0
      /\ decodedCache = {} /\ gpuCache = {}
  BY DEF Init
<1>2. NoItem \in Items /\ <<>> \in Seq(Items)
  BY DEF NoItem, Items
<1>3. Typed
  BY <1>0, <1>1, <1>2, SchedulerAssumption DEF Init, Typed
<1>4. Staged
  BY <1>1 DEF Staged, Testing
<1>5. OneHolder
  BY <1>1 DEF OneHolder, Pending, Busy, Testing, Filling, NoItem
<1>6. \A h : ~ Carried(h) /\ ~ Loaded(h)
  BY <1>1 DEF Carried, Loaded, Pending, Busy, Testing, Filling
<1>7. HostKnown
  BY <1>0, <1>1, <1>6 DEF HostKnown, Pending
<1>8. KeysTrue
  BY <1>1 DEF KeysTrue, Keyed, Filling, Testing
<1>9. \A n : ~ Tainted(n)
  BY <1>1 DEF Tainted, Filling
<1>10. TaintIsOld
  BY <1>1, <1>6, <1>9 DEF TaintIsOld, Keyed, Filling, Testing
<1> QED
  BY <1>3, <1>4, <1>5, <1>7, <1>8, <1>10 DEF IInv

LEMMA OutsideTyped == ASSUME Typed, Outside PROVE Typed'
<1>1. /\ UNCHANGED <<item, after, completed>>
      /\ wpc' \in Busy \cup {"none", "wait", "blocking", "waiting"}
  BY OutsideKeepsWorker DEF Typed, Resting, frame, answers
<1>2. <<>> \in Seq(Items) /\ NoItem \in Items /\ MaxCalls \in Nat
  BY SchedulerAssumption DEF NoItem, Items
<1> USE DEF Typed
<1>3. ASSUME NEW c \in Clients, ClientStep(c) PROVE Typed'
  <2>1. CASE LoadEpoch(c)
    <3>1. [draft[c] EXCEPT !.epoch = epoch] \in Items
      BY DEF Items
    <3> QED
      BY <1>1, <2>1, <3>1 DEF LoadEpoch, Go, atomics, locked, context, budget
  <2>2. CASE Enqueue(c)
    BY <1>1, <2>2, EnqueueIs DEF Enqueue, Go, atomics, context, budget
  <2>3. CASE SeekSequence(c) \/ BumpEpoch(c)
    BY <1>1, <2>3 DEF SeekSequence, BumpEpoch, Go, locked, context, budget
  <2>4. CASE ClearQueue(c)
    BY <1>1, <1>2, <2>4 DEF ClearQueue, Go, atomics, context, budget
  <2>5. CASE ClearDecoded(c) \/ ClearGpu(c)
    BY <1>1, <2>5 DEF ClearDecoded, ClearGpu, Go, atomics, locked, context, budget
  <2>6. CASE SetIdentity(c)
    <3>1. [identity EXCEPT !.graph = host.graph] \in Identity
      BY DEF Identity
    <3> QED
      BY <1>1, <1>2, <2>6, <3>1 DEF SetIdentity, Go, atomics, context, budget
  <2> QED
    BY <1>3, <2>1, <2>2, <2>3, <2>4, <2>5, <2>6 DEF ClientStep
<1>4. ASSUME NEW c \in Clients, ClientCall(c) PROVE Typed'
  <2>1. ASSUME NEW f \in 0..LastFrame, Request(c, f) PROVE Typed'
    <3>1. [sequence |-> latest + 1, epoch |-> 0, frame |-> f, deliver |-> TRUE,
           made |-> IF Changing THEN MaxCalls + 1 ELSE changed] \in Items
      BY <1>2, SchedulerAssumption DEF Items
    <3> QED
      BY <1>1, <1>2, <2>1, <3>1 DEF Request, Call, locked, context
  <2>2. ASSUME NEW s, CancelBefore(c, s) PROVE Typed'
    BY <1>1, <1>2, <2>2 DEF CancelBefore, Call, locked, context
  <2>3. CASE BeginSeek(c)
    <3>1. \A d \in Items, n \in Nat : [d EXCEPT !.epoch = n] \in Items
      BY DEF Items
    <3> QED
      BY <1>1, <1>2, <2>3, <3>1 DEF BeginSeek, Call, locked, context
  <2>4. ASSUME NEW g \in Graphs, InvalidateGraph(c, g) PROVE Typed'
    <3>1. [host EXCEPT !.graph = g] \in Identity
      BY DEF Identity
    <3> QED
      BY <1>1, <1>2, <2>4, <3>1 DEF InvalidateGraph, Call, atomics, locked
  <2>5. ASSUME NEW s \in Sources, SetContext(c, s) PROVE Typed'
    <3>1. [host EXCEPT !.source = s] \in Identity
      BY DEF Identity
    <3> QED
      BY <1>1, <1>2, <2>5, <3>1 DEF SetContext, Call, atomics
  <2> QED
    BY <1>4, <2>1, <2>2, <2>3, <2>4, <2>5 DEF ClientCall
<1>5. CASE Start \/ Resume
  BY <1>1, <1>5 DEF Start, Resume, locked, clients, context, budget
<1>6. CASE Stop
  BY <1>1, <1>2, <1>6 DEF Stop, Interrupt, atomics, clients, context
<1>7. CASE Pause
  BY <1>1, <1>2, <1>7 DEF Pause, Interrupt, locked, clients, context
<1> QED
  BY <1>3, <1>4, <1>5, <1>6, <1>7 DEF Outside

LEMMA WorkerTyped == ASSUME Typed, WorkerStep PROVE Typed'
<1> USE DEF Typed
<1>1. UNCHANGED <<epoch, latest, pc, draft, identity, host, changed, calls>>
  BY WorkerKeepsOutside DEF atomics, clients, context, budget
<1>2. CASE Take
  <2>1. CASE UNCHANGED <<queue, caches, frame, answers>> /\ wpc' \in Resting
    BY <1>1, <2>1 DEF frame, answers, Resting
  <2>2. CASE /\ queue # <<>> /\ item' = Head(queue) /\ queue' = Tail(queue) /\ after' = "key"
             /\ wpc' = "testEpoch" /\ UNCHANGED answers
    BY <1>1, <2>2, TailIs DEF answers, Busy, Testing
  <2> QED
    BY <1>2, <2>1, <2>2 DEF Take, Step, Resting
<1>3. CASE Block \/ TestEpoch \/ TestSequence
  BY <1>1, <1>3 DEF Block, TestEpoch, TestSequence, Test, Step, Busy, Testing, frame, answers
<1>4. CASE TestCancelled
  BY <1>1, <1>4 DEF TestCancelled, Test, Step, Busy, frame, answers
<1>5. CASE TakeKey \/ GetGpu \/ GetDecoded
  BY <1>1, <1>5 DEF TakeKey, GetGpu, GetDecoded, Step, Finish, Busy, Filling, Testing, answers
<1>6. CASE Decode \/ PutDecoded \/ Process \/ PutGpu
  BY <1>1, <1>6 DEF Decode, PutDecoded, Process, PutGpu, Step, Finish, Busy, Filling, Testing,
     frame, answers
<1>7. CASE Fail
  BY <1>1, <1>7 DEF Fail, Step, Finish, Busy, Testing, answers
<1>8. CASE Deliver \/ Report
  BY <1>1, <1>8 DEF Deliver, Report, Step, Busy, Testing, Items, frame
<1> QED
  BY <1>2, <1>3, <1>4, <1>5, <1>6, <1>7, <1>8 DEF WorkerStep

-----------------------------------------------------------------------------
(* The places of the worker. *)
LEMMA OutsideStaged == ASSUME Typed, Staged, Outside PROVE Staged'
  BY OutsideKeepsWorker DEF Staged, Resting, frame, Testing

LEMMA WorkerStaged == ASSUME Typed, Staged, WorkerStep PROVE Staged'
<1> USE DEF Staged, Step, Testing, Typed
<1>1. CASE Take
  BY <1>1 DEF Take, frame
<1>2. CASE Block \/ TestEpoch \/ TestSequence \/ TestCancelled
  BY <1>2 DEF Block, TestEpoch, TestSequence, TestCancelled, Test, frame
<1>3. CASE TakeKey \/ GetGpu \/ GetDecoded
  BY <1>3 DEF TakeKey, GetGpu, GetDecoded, Finish
<1>4. CASE Decode \/ PutDecoded \/ Process \/ PutGpu
  BY <1>4 DEF Decode, PutDecoded, Process, PutGpu, Finish, frame
<1>5. CASE Fail \/ Deliver \/ Report
  BY <1>5 DEF Fail, Deliver, Report, Finish, frame
<1> QED
  BY <1>1, <1>2, <1>3, <1>4, <1>5 DEF WorkerStep

-----------------------------------------------------------------------------
(* The holders of numbers. *)

\* Dropping a holder, or drawing a number nobody holds, leaves every other alone.
LEMMA HoldersKept ==
  ASSUME Typed, OneHolder, latest' \in Nat, latest' >= latest, UNCHANGED <<item, after, completed>>,
         wpc' = wpc \/ wpc' \notin Busy, queue' \in {queue, <<>>},
         \A c \in Clients : Pending(c)' => Pending(c) /\ draft'[c].sequence = draft[c].sequence
  PROVE  OneHolder'
<1>1. completed' <= latest' /\ item'.sequence <= latest'
  BY DEF OneHolder, Typed, Items
<1>2. ASSUME NEW i \in DOMAIN queue'
      PROVE  i \in DOMAIN queue /\ queue'[i] = queue[i] /\ queue[i] \in Items
  BY DEF Typed
<1>3. \A i \in DOMAIN queue' :
        /\ queue'[i].sequence > 0 /\ queue'[i].sequence <= latest'
        /\ queue'[i].deliver => i = 1 /\ queue'[i].sequence \notin {completed', item'.sequence}
  <2>1. ASSUME NEW i \in DOMAIN queue'
        PROVE  queue'[i].sequence > 0 /\ queue'[i].sequence <= latest'
    <3>1. queue[i].sequence \in Nat
      BY <1>2 DEF Items
    <3> QED
      BY <1>2, <3>1 DEF OneHolder, Typed
  <2>2. ASSUME NEW i \in DOMAIN queue'
        PROVE  queue'[i].deliver =>
                 i = 1 /\ queue'[i].sequence \notin {completed', item'.sequence}
    BY <1>2 DEF OneHolder
  <2> QED
    BY <2>1, <2>2
<1>4. ASSUME NEW c \in Clients, Pending(c)'
      PROVE  /\ draft'[c].sequence > 0 /\ draft'[c].sequence <= latest'
             /\ draft'[c].sequence \notin {completed', item'.sequence}
             /\ \A i \in DOMAIN queue' : queue'[i].sequence # draft'[c].sequence
             /\ \A d \in Clients : Pending(d)' /\ draft'[d].sequence = draft'[c].sequence => d = c
  <2>1. Pending(c) /\ draft'[c].sequence = draft[c].sequence /\ draft[c].sequence \in Nat
    BY <1>4 DEF Typed, Items
  <2>2. draft'[c].sequence > 0 /\ draft'[c].sequence <= latest'
    BY <2>1 DEF OneHolder, Typed
  <2>3. draft'[c].sequence \notin {completed', item'.sequence}
    BY <2>1 DEF OneHolder
  <2> QED
    BY <1>2, <2>1, <2>2, <2>3 DEF OneHolder
<1>5. /\ wpc' \in Busy => item'.sequence > 0
      /\ wpc' \in Busy /\ after' # "report" /\ item'.deliver => item'.sequence # completed'
  BY DEF OneHolder
<1> QED
  BY <1>1, <1>3, <1>4, <1>5 DEF OneHolder

LEMMA RequestHolds ==
  ASSUME Typed, OneHolder, NEW c \in Clients, NEW f \in 0..LastFrame, Request(c, f)
  PROVE  OneHolder'
<1>1. /\ latest' = latest + 1 /\ UNCHANGED <<queue, item, after, completed, wpc>>
      /\ pc' = [pc EXCEPT ![c] = "loadEpoch"] /\ ~ Pending(c)
      /\ draft'[c].sequence = latest + 1
      /\ \A d \in Clients : d # c => draft'[d] = draft[d] /\ (Pending(d)' <=> Pending(d))
  BY DEF Request, Call, Pending, Typed, locked, frame, answers
<1>2. /\ latest \in Nat /\ completed <= latest /\ item.sequence <= latest
      /\ completed \in Nat /\ item.sequence \in Nat
      /\ \A i \in DOMAIN queue : queue[i].sequence <= latest /\ queue[i].sequence \in Nat
      /\ \A d \in Clients : draft[d].sequence \in Nat
      /\ \A d \in Clients : Pending(d) => draft[d].sequence <= latest
  <2>1. /\ \A i \in DOMAIN queue : queue[i] \in Items
        /\ item \in Items /\ \A d \in Clients : draft[d] \in Items
    BY DEF Typed
  <2>2. /\ \A i \in DOMAIN queue : queue[i].sequence \in Nat
        /\ item.sequence \in Nat /\ \A d \in Clients : draft[d].sequence \in Nat
    BY <2>1 DEF Items
  <2> QED
    BY <2>2 DEF OneHolder, Typed
<1>3. ASSUME NEW d \in Clients, Pending(d)'
      PROVE  /\ draft'[d].sequence > 0 /\ draft'[d].sequence <= latest'
             /\ draft'[d].sequence \notin {completed', item'.sequence}
             /\ \A i \in DOMAIN queue' : queue'[i].sequence # draft'[d].sequence
             /\ \A e \in Clients : Pending(e)' /\ draft'[e].sequence = draft'[d].sequence => e = d
  <2>1. CASE d = c
    BY <1>1, <1>2, <2>1
  <2>2. CASE d # c
    <3>1. Pending(d) /\ draft'[d] = draft[d] /\ draft[d].sequence <= latest
      BY <1>1, <1>2, <1>3, <2>2
    <3>2. /\ draft[d].sequence > 0 /\ draft[d].sequence \notin {completed, item.sequence}
          /\ \A i \in DOMAIN queue : queue[i].sequence # draft[d].sequence
          /\ \A e \in Clients : Pending(e) /\ draft[e].sequence = draft[d].sequence => e = d
      BY <3>1 DEF OneHolder
    <3> QED
      BY <1>1, <1>2, <3>1, <3>2
  <2> QED
    BY <2>1, <2>2
<1>4. completed' <= latest' /\ item'.sequence <= latest'
  BY <1>1, <1>2
<1>5. \A i \in DOMAIN queue' :
        /\ queue'[i].sequence > 0 /\ queue'[i].sequence <= latest'
        /\ queue'[i].deliver => i = 1 /\ queue'[i].sequence \notin {completed', item'.sequence}
  BY <1>1, <1>2 DEF OneHolder
<1>6. /\ wpc' \in Busy => item'.sequence > 0
      /\ wpc' \in Busy /\ after' # "report" /\ item'.deliver => item'.sequence # completed'
  BY <1>1 DEF OneHolder
<1> QED
  BY <1>3, <1>4, <1>5, <1>6 DEF OneHolder

LEMMA EnqueueHolds ==
  ASSUME Typed, OneHolder, NEW c \in Clients, Enqueue(c)
  PROVE  OneHolder'
<1>1. /\ UNCHANGED <<latest, draft, item, after, completed>>
      /\ pc' = [pc EXCEPT ![c] = "idle"] /\ Pending(c)
      /\ \A d \in Clients : Pending(d)' => d # c /\ Pending(d)
      /\ wpc' = wpc \/ wpc' \notin Busy
  BY DEF Enqueue, Go, Pending, Typed, atomics, frame, answers, Notified, Busy, Testing, Filling
<1>2. \A i \in DOMAIN queue' :
        /\ queue'[i].sequence = draft[c].sequence
        /\ queue'[i].deliver => i = 1
  BY EnqueueIs
<1>3. /\ draft[c].sequence > 0 /\ draft[c].sequence <= latest
      /\ draft[c].sequence \notin {completed, item.sequence}
      /\ \A d \in Clients : Pending(d) /\ draft[d].sequence = draft[c].sequence => d = c
  BY <1>1 DEF OneHolder
<1>4. \A i \in DOMAIN queue' :
        /\ queue'[i].sequence > 0 /\ queue'[i].sequence <= latest'
        /\ queue'[i].deliver => i = 1 /\ queue'[i].sequence \notin {completed', item'.sequence}
  BY <1>1, <1>2, <1>3
<1>5. ASSUME NEW d \in Clients, Pending(d)'
      PROVE  /\ draft'[d].sequence > 0 /\ draft'[d].sequence <= latest'
             /\ draft'[d].sequence \notin {completed', item'.sequence}
             /\ \A i \in DOMAIN queue' : queue'[i].sequence # draft'[d].sequence
             /\ \A e \in Clients : Pending(e)' /\ draft'[e].sequence = draft'[d].sequence => e = d
  <2>1. d # c /\ Pending(d)
    BY <1>1, <1>5
  <2> QED
    BY <1>1, <1>2, <1>3, <2>1 DEF OneHolder
<1>6. completed' <= latest' /\ item'.sequence <= latest'
  BY <1>1 DEF OneHolder
<1>7. /\ wpc' \in Busy => item'.sequence > 0
      /\ wpc' \in Busy /\ after' # "report" /\ item'.deliver => item'.sequence # completed'
  BY <1>1 DEF OneHolder
<1> QED
  BY <1>4, <1>5, <1>6, <1>7 DEF OneHolder

LEMMA OutsideHolds == ASSUME Typed, OneHolder, Outside PROVE OneHolder'
<1>1. UNCHANGED <<item, after, completed>> /\ (wpc' = wpc \/ wpc' \notin Busy)
  BY OutsideKeepsWorker DEF frame, answers, Resting, Busy, Testing, Filling
<1>2. latest \in Nat
  BY DEF Typed
<1> USE DEF Pending, Typed
<1>3. ASSUME NEW c \in Clients, ClientStep(c) PROVE OneHolder'
  <2>1. CASE Enqueue(c)
    BY <2>1, EnqueueHolds
  <2>2. CASE LoadEpoch(c)
    <3>1. draft[c] \in Items
      BY DEF Typed
    <3>2. \A d \in Clients : draft'[d].sequence = draft[d].sequence
      BY <2>2, <3>1 DEF LoadEpoch, Items
    <3> QED
      BY <1>1, <1>2, <2>2, <3>2, HoldersKept DEF LoadEpoch, Go, atomics, locked
  <2>3. CASE SeekSequence(c) \/ ClearQueue(c) \/ ClearDecoded(c) \/ ClearGpu(c)
    BY <1>1, <1>2, <2>3, HoldersKept DEF SeekSequence, ClearQueue, ClearDecoded, ClearGpu, Go,
       atomics, locked
  <2>4. CASE SetIdentity(c) \/ BumpEpoch(c)
    BY <1>1, <1>2, <2>4, HoldersKept DEF SetIdentity, BumpEpoch, Go, atomics, locked
  <2> QED
    BY <1>3, <2>1, <2>2, <2>3, <2>4 DEF ClientStep
<1>4. ASSUME NEW c \in Clients, ClientCall(c) PROVE OneHolder'
  <2>1. ASSUME NEW f \in 0..LastFrame, Request(c, f) PROVE OneHolder'
    BY <2>1, RequestHolds
  <2>2. ASSUME NEW s, CancelBefore(c, s) PROVE OneHolder'
    BY <1>1, <1>2, <2>2, HoldersKept DEF CancelBefore, Call, locked
  <2>3. CASE BeginSeek(c)
    BY <1>1, <1>2, <2>3, HoldersKept DEF BeginSeek, Call, locked
  <2>4. ASSUME NEW g \in Graphs, InvalidateGraph(c, g) PROVE OneHolder'
    BY <1>1, <1>2, <2>4, HoldersKept DEF InvalidateGraph, Call, locked, atomics
  <2>5. ASSUME NEW s \in Sources, SetContext(c, s) PROVE OneHolder'
    BY <1>1, <1>2, <2>5, HoldersKept DEF SetContext, Call, atomics
  <2> QED
    BY <1>4, <2>1, <2>2, <2>3, <2>4, <2>5 DEF ClientCall
<1>5. CASE Start \/ Stop \/ Pause \/ Resume
  BY <1>1, <1>2, <1>5, HoldersKept DEF Start, Stop, Pause, Resume, locked, clients, atomics
<1> QED
  BY <1>3, <1>4, <1>5 DEF Outside

LEMMA WorkerHolds == ASSUME Typed, Staged, OneHolder, WorkerStep PROVE OneHolder'
<1>1. /\ UNCHANGED <<latest, pc, draft>>
      /\ \A c \in Clients : Pending(c)' = Pending(c)
  BY WorkerKeepsOutside DEF atomics, clients, Pending
<1>2. ASSUME UNCHANGED <<queue, item, completed>>,
             wpc' \in Busy => wpc \in Busy,
             wpc' \in Busy /\ after' # "report" /\ item.deliver => after # "report"
      PROVE  OneHolder'
  BY <1>1, <1>2 DEF OneHolder
<1>3. CASE Take
  <2>1. CASE wpc' \notin Busy /\ UNCHANGED <<queue, frame, answers>>
    BY <1>2, <2>1 DEF frame, answers
  <2>2. CASE /\ queue # <<>> /\ item' = Head(queue) /\ queue' = Tail(queue)
             /\ UNCHANGED answers
    <3>1. /\ item' = queue[1] /\ 1 \in DOMAIN queue /\ completed' = completed
          /\ \A i \in DOMAIN queue' : i # 0 /\ i + 1 # 1 /\ i + 1 \in DOMAIN queue
                                      /\ queue'[i] = queue[i + 1]
      BY <2>2, TailIs DEF Typed, answers
    <3>2. \A c \in Clients : Pending(c) => draft[c].sequence # item'.sequence
      BY <3>1 DEF OneHolder
    <3>3. \A i \in DOMAIN queue' :
            /\ queue'[i].sequence > 0 /\ queue'[i].sequence <= latest
            /\ ~ queue'[i].deliver
      BY <3>1 DEF OneHolder
    <3>4. /\ item'.sequence > 0 /\ item'.sequence <= latest
          /\ item'.deliver => item'.sequence # completed
      BY <3>1 DEF OneHolder
    <3>5. \A c \in Clients : Pending(c) =>
            \A i \in DOMAIN queue' : queue'[i].sequence # draft[c].sequence
      BY <3>1 DEF OneHolder
    <3> QED
      BY <1>1, <3>1, <3>2, <3>3, <3>4, <3>5 DEF OneHolder
  <2> QED
    BY <1>3, <2>1, <2>2 DEF Take, Step, Busy, Testing, Filling
<1>4. CASE Block \/ TestEpoch \/ TestSequence \/ TestCancelled
  BY <1>2, <1>4 DEF Block, TestEpoch, TestSequence, TestCancelled, Test, Step, frame, answers,
     Busy, Testing, Filling
<1>5. CASE TakeKey \/ GetGpu \/ GetDecoded
  BY <1>2, <1>5 DEF TakeKey, GetGpu, GetDecoded, Step, answers, Busy, Testing, Filling, Staged
<1>6. CASE Decode \/ PutDecoded \/ Process \/ PutGpu
  BY <1>2, <1>6 DEF Decode, PutDecoded, Process, PutGpu, Step, frame, answers, Busy, Testing,
     Filling
<1>7. CASE Fail \/ Report
  BY <1>2, <1>7 DEF Fail, Report, Step, frame, answers, Busy, Testing, Filling
<1>8. CASE Deliver
  <2>1. /\ wpc = "deliver" /\ completed' = item.sequence /\ UNCHANGED <<queue, item>>
        /\ wpc' \in Busy => after' = "report"
    BY <1>8 DEF Deliver, Step, Busy, Testing, Filling
  <2>2. wpc \in Busy
    BY <2>1 DEF Busy
  <2> QED
    BY <1>1, <2>1, <2>2 DEF OneHolder
<1> QED
  BY <1>3, <1>4, <1>5, <1>6, <1>7, <1>8 DEF WorkerStep

-----------------------------------------------------------------------------
(* What is carried of requests, and the host they were made for. *)

\* Most steps only drop what is carried.
Drops ==
  /\ UNCHANGED item /\ (wpc' = wpc \/ wpc' \notin Busy) /\ queue' \in {queue, <<>>}
  /\ \A c \in Clients : Pending(c)' => pc'[c] = pc[c] /\ draft'[c] = draft[c]

LEMMA DropsCarry ==
  ASSUME Typed, Drops
  PROVE  /\ \A h : Carried(h)' => Carried(h)
         /\ \A h : Loaded(h)' => Loaded(h)
         /\ \A c \in Clients : Pending(c)' => Pending(c) /\ draft'[c] = draft[c]
<1>1. \A c \in Clients : Pending(c)' => Pending(c) /\ draft'[c] = draft[c] /\ pc'[c] = pc[c]
  BY DEF Drops, Pending
<1>2. \A h : (\E i \in DOMAIN queue' : h = queue'[i]) => \E i \in DOMAIN queue : h = queue[i]
  BY DEF Drops
<1>3. \A h : wpc' \in Busy /\ h = item' => wpc \in Busy /\ h = item
  BY DEF Drops
<1>4. \A c \in Clients : pc'[c] = "enqueue" => pc[c] = "enqueue" /\ draft'[c] = draft[c]
  BY DEF Drops, Pending
<1>5. \A h : Carried(h)' => Carried(h)
  BY <1>1, <1>2, <1>3 DEF Carried
<1>6. \A h : Loaded(h)' => Loaded(h)
  BY <1>2, <1>3, <1>4 DEF Loaded
<1> QED
  BY <1>1, <1>5, <1>6

\* Which all steps from outside do but those on the way of a request.
Dropping(c) ==
  \/ SeekSequence(c) \/ ClearQueue(c) \/ ClearDecoded(c) \/ ClearGpu(c)
  \/ SetIdentity(c) \/ BumpEpoch(c) \/ BeginSeek(c)
  \/ \E s \in 1..(latest + 1) : CancelBefore(c, s)
  \/ \E g \in Graphs : InvalidateGraph(c, g)
  \/ \E s \in Sources : SetContext(c, s)

LEMMA OutsideDrops ==
  ASSUME Typed, (\E c \in Clients : Dropping(c)) \/ Start \/ Stop \/ Pause \/ Resume
  PROVE  Drops
<1>1. UNCHANGED item /\ (wpc' = wpc \/ wpc' \notin Busy)
  BY OutsideKeepsWorker DEF frame, Resting, Busy, Testing, Filling, Outside, Dropping, ClientStep,
     ClientCall
<1> USE DEF Drops, Pending, Typed
<1>2. ASSUME NEW c \in Clients,
             SeekSequence(c) \/ ClearQueue(c) \/ ClearDecoded(c) \/ ClearGpu(c)
             \/ SetIdentity(c) \/ BumpEpoch(c)
      PROVE  Drops
  BY <1>1, <1>2 DEF SeekSequence, ClearQueue, ClearDecoded, ClearGpu, SetIdentity, BumpEpoch, Go,
     locked
<1>3. ASSUME NEW c \in Clients,
             \/ BeginSeek(c) \/ \E s : CancelBefore(c, s) \/ SetContext(c, s)
             \/ \E g : InvalidateGraph(c, g)
      PROVE  Drops
  BY <1>1, <1>3 DEF CancelBefore, SetContext, BeginSeek, InvalidateGraph, Call, locked
<1>4. CASE Start \/ Stop \/ Pause \/ Resume
  BY <1>1, <1>4 DEF Start, Stop, Pause, Resume, locked, clients
<1> QED
  BY <1>2, <1>3, <1>4 DEF Dropping

\* The worker takes what it carries from the queue.
LEMMA WorkerCarries ==
  ASSUME Typed, WorkerStep
  PROVE  /\ \A h : Carried(h)' => Carried(h)
         /\ \A h : Loaded(h)' => Loaded(h)
<1>1. UNCHANGED <<pc, draft>>
  BY WorkerKeepsOutside DEF clients
<1>2. \A h : (\E i \in DOMAIN queue' : h = queue'[i]) => \E i \in DOMAIN queue : h = queue[i]
  <2>1. CASE Take
    BY <2>1, TailIs DEF Take, Typed
  <2>2. CASE ~ Take
    BY <2>2 DEF WorkerStep, Block, TestEpoch, TestSequence, TestCancelled, Test, TakeKey, GetGpu,
       GetDecoded, Decode, PutDecoded, Process, PutGpu, Fail, Deliver, Report
  <2> QED
    BY <2>1, <2>2
<1>3. wpc' \in Busy => \/ wpc \in Busy /\ item' = item
                       \/ \E i \in DOMAIN queue : item' = queue[i]
  <2>1. CASE Take
    BY <2>1, TailIs DEF Take, Step, Typed, Busy, Testing, Filling
  <2>2. CASE Block \/ TestEpoch \/ TestSequence \/ TestCancelled
    BY <2>2 DEF Block, TestEpoch, TestSequence, TestCancelled, Test, Step, frame, Busy, Testing,
       Filling
  <2>3. CASE TakeKey \/ GetGpu \/ GetDecoded \/ Decode \/ PutDecoded \/ Process \/ PutGpu
    BY <2>3 DEF TakeKey, GetGpu, GetDecoded, Decode, PutDecoded, Process, PutGpu, Step, frame,
       Busy, Filling
  <2>4. CASE Fail \/ Deliver \/ Report
    BY <2>4 DEF Fail, Deliver, Report, Step, frame, Busy, Filling
  <2> QED
    BY <2>1, <2>2, <2>3, <2>4 DEF WorkerStep
<1>4. \A h : Carried(h)' => Carried(h)
  BY <1>1, <1>2, <1>3 DEF Carried, Pending
<1>5. \A h : Loaded(h)' => Loaded(h)
  BY <1>1, <1>2, <1>3 DEF Loaded
<1> QED
  BY <1>4, <1>5

-----------------------------------------------------------------------------
(* The host, and what the scheduler knows of it. *)
LEMMA QuietHost ==
  ASSUME Typed, HostKnown, UNCHANGED <<identity, host, changed>>,
         \A c \in Clients : {pc[c], pc'[c]} \cap {"setIdentity", "bumpEpoch"} # {} => pc'[c] = pc[c],
         \A h : Carried(h)' => Carried(h),
         \A c \in Clients : Pending(c)' => Pending(c) /\ draft'[c] = draft[c]
  PROVE  HostKnown'
<1>1. /\ Changing' => Changing
      /\ (\A c \in Clients : pc'[c] # "setIdentity") => \A c \in Clients : pc[c] # "setIdentity"
  BY DEF Changing
<1>2. \A c \in Clients : pc'[c] \in {"setIdentity", "bumpEpoch"} => pc'[c] = pc[c]
  OBVIOUS
<1>3. identity'.source = host'.source
      /\ ((\A c \in Clients : pc'[c] # "setIdentity") => identity' = host')
  BY <1>1 DEF HostKnown
<1>4. \A c, d \in Clients : {pc'[c], pc'[d]} \subseteq {"setIdentity", "bumpEpoch"} => c = d
  BY <1>2 DEF HostKnown
<1>5. \A h \in Items : Carried(h)' =>
        /\ h.made <= changed' \/ h.made = MaxCalls + 1
        /\ h.made = changed' => ~ Changing'
        /\ h.frame <= LastFrame + Prefetch
  BY <1>1 DEF HostKnown
<1>6. \A c \in Clients : Pending(c)' => draft'[c].frame <= LastFrame
  BY DEF HostKnown
<1> QED
  BY <1>3, <1>4, <1>5, <1>6 DEF HostKnown

\* The host changes: no request that is carried is of its new state.
LEMMA ChangedHost ==
  ASSUME Typed, HostKnown, Drops, changed' = changed + 1, calls < MaxCalls
  PROVE  /\ \A h \in Items : Carried(h)' =>
              /\ h.made <= changed' \/ h.made = MaxCalls + 1
              /\ h.made # changed'
              /\ h.frame <= LastFrame + Prefetch
         /\ \A c \in Clients : Pending(c)' => draft'[c].frame <= LastFrame
<1>1. /\ changed \in Nat /\ changed < MaxCalls /\ MaxCalls \in Nat
  BY SchedulerAssumption DEF Typed
<1>2. /\ \A h : Carried(h)' => Carried(h)
      /\ \A c \in Clients : Pending(c)' => Pending(c) /\ draft'[c] = draft[c]
  BY DropsCarry
<1>3. ASSUME NEW h \in Items, Carried(h)'
      PROVE  /\ h.made <= changed' \/ h.made = MaxCalls + 1
             /\ h.made # changed'
             /\ h.frame <= LastFrame + Prefetch
  <2>1. Carried(h) /\ h.made \in Nat
    BY <1>2, <1>3 DEF Items
  <2>2. (h.made <= changed \/ h.made = MaxCalls + 1) /\ h.frame <= LastFrame + Prefetch
    BY <2>1 DEF HostKnown
  <2> QED
    BY <1>1, <2>1, <2>2
<1>4. \A c \in Clients : Pending(c)' => draft'[c].frame <= LastFrame
  BY <1>2 DEF HostKnown
<1> QED
  BY <1>3, <1>4

LEMMA RequestHost ==
  ASSUME Typed, HostKnown, NEW c \in Clients, NEW f \in 0..LastFrame, Request(c, f)
  PROVE  HostKnown'
<1> DEFINE new == [sequence |-> latest + 1, epoch |-> 0, frame |-> f, deliver |-> TRUE,
                   made |-> IF Changing THEN MaxCalls + 1 ELSE changed]
<1>1. /\ UNCHANGED <<identity, host, changed, queue, item, wpc>>
      /\ pc[c] = "idle" /\ pc' = [pc EXCEPT ![c] = "loadEpoch"]
      /\ draft' = [draft EXCEPT ![c] = new]
  BY DEF Request, Call, locked, context, frame
<1>2. /\ \A d \in Clients : d # c => pc'[d] = pc[d] /\ draft'[d] = draft[d]
      /\ pc'[c] = "loadEpoch" /\ draft'[c] = new
  BY <1>1 DEF Typed
<1>3. \A d \in Clients : {pc[d], pc'[d]} \cap {"setIdentity", "bumpEpoch"} # {} =>
        pc'[d] = pc[d] /\ d # c
  BY <1>1, <1>2
<1>4. Changing' <=> Changing
  BY <1>3 DEF Changing
<1>5. \A h : Carried(h)' => Carried(h) \/ h = new
  BY <1>1, <1>2 DEF Carried, Pending
<1>6. /\ new.made <= changed \/ new.made = MaxCalls + 1
      /\ new.made = changed => ~ Changing
      /\ new.frame <= LastFrame + Prefetch /\ new.frame <= LastFrame
  <2>1. changed \in Nat /\ changed <= MaxCalls /\ MaxCalls \in Nat /\ LastFrame \in Nat
        /\ Prefetch \in Nat
    BY SchedulerAssumption DEF Typed
  <2>2. new.made = (IF Changing THEN MaxCalls + 1 ELSE changed) /\ new.frame = f
    OBVIOUS
  <2> HIDE DEF new
  <2> QED
    BY <2>1, <2>2
<1> HIDE DEF new
<1>7. \A h \in Items : Carried(h)' =>
        /\ h.made <= changed' \/ h.made = MaxCalls + 1
        /\ h.made = changed' => ~ Changing'
        /\ h.frame <= LastFrame + Prefetch
  BY <1>1, <1>4, <1>5, <1>6 DEF HostKnown
<1>8. \A d \in Clients : Pending(d)' => draft'[d].frame <= LastFrame
  BY <1>2, <1>6 DEF HostKnown, Pending
<1>9. \A d, e \in Clients : {pc'[d], pc'[e]} \subseteq {"setIdentity", "bumpEpoch"} => d = e
  <2>1. \A d \in Clients : pc'[d] \in {"setIdentity", "bumpEpoch"} => pc'[d] = pc[d]
    BY <1>3
  <2> QED
    BY <2>1 DEF HostKnown
<1>10. identity'.source = host'.source
       /\ ((\A d \in Clients : pc'[d] # "setIdentity") => identity' = host')
  BY <1>1, <1>3 DEF HostKnown
<1> QED
  BY <1>7, <1>8, <1>9, <1>10 DEF HostKnown

\* A request made for one state of the host is queued for it.
LEMMA EnqueueCarries ==
  ASSUME Typed, NEW c \in Clients, Enqueue(c), NEW h, Carried(h)'
  PROVE  \/ Carried(h)
         \/ /\ pc[c] = "enqueue" /\ h.made = draft[c].made /\ h.epoch = draft[c].epoch
            /\ \E i \in 1..Prefetch + 1 : h.frame = draft[c].frame + i - 1
            /\ \E i \in DOMAIN queue' : h = queue'[i]
<1>1. /\ UNCHANGED <<draft, item>> /\ (wpc' = wpc \/ wpc' \notin Busy) /\ pc[c] = "enqueue"
      /\ \A d \in Clients : Pending(d)' => Pending(d)
  BY DEF Enqueue, Go, Pending, Typed, frame, Notified, Busy, Testing, Filling
<1>2. CASE \E i \in DOMAIN queue' : h = queue'[i]
  <2>1. PICK i \in DOMAIN queue' : h = queue'[i]
    BY <1>2
  <2>2. /\ i \in Nat /\ i >= 1 /\ i <= Prefetch + 1 /\ queue'[i].epoch = draft[c].epoch
        /\ queue'[i].made = draft[c].made /\ queue'[i].frame = draft[c].frame + i - 1
    BY EnqueueIs
  <2>3. i \in 1..Prefetch + 1
    BY <2>2, SchedulerAssumption
  <2> QED
    BY <1>1, <2>1, <2>2, <2>3
<1>3. CASE ~ \E i \in DOMAIN queue' : h = queue'[i]
  BY <1>1, <1>3 DEF Carried
<1> QED
  BY <1>2, <1>3

LEMMA EnqueueHost ==
  ASSUME Typed, HostKnown, NEW c \in Clients, Enqueue(c) PROVE HostKnown'
<1>1. /\ UNCHANGED <<identity, host, changed, draft>> /\ pc[c] = "enqueue"
      /\ pc' = [pc EXCEPT ![c] = "idle"]
  BY DEF Enqueue, Go, context
<1>2. /\ \A d \in Clients : {pc[d], pc'[d]} \cap {"setIdentity", "bumpEpoch"} # {} => pc'[d] = pc[d]
      /\ \A d \in Clients : Pending(d)' => Pending(d)
  BY <1>1 DEF Typed, Pending
<1>3. Changing' <=> Changing
  BY <1>2 DEF Changing
<1>4. draft[c] \in Items /\ Carried(draft[c]) /\ draft[c].frame <= LastFrame
  BY <1>1 DEF Typed, Carried, Pending, HostKnown
<1>5. ASSUME NEW h \in Items, Carried(h)'
      PROVE  /\ h.made <= changed \/ h.made = MaxCalls + 1
             /\ h.made = changed => ~ Changing
             /\ h.frame <= LastFrame + Prefetch
  <2>1. CASE Carried(h)
    BY <2>1 DEF HostKnown
  <2>2. CASE h.made = draft[c].made /\ \E i \in 1..Prefetch + 1 : h.frame = draft[c].frame + i - 1
    <3>1. /\ h.made <= changed \/ h.made = MaxCalls + 1
          /\ h.made = changed => ~ Changing
      BY <1>4, <2>2 DEF HostKnown
    <3>2. h.frame <= LastFrame + Prefetch
      <4>1. draft[c].frame \in Nat /\ LastFrame \in Nat /\ Prefetch \in Nat
        BY <1>4, SchedulerAssumption DEF Items
      <4> QED
        BY <1>4, <2>2, <4>1
    <3> QED
      BY <3>1, <3>2
  <2> QED
    BY <1>5, <2>1, <2>2, EnqueueCarries
<1>6. identity'.source = host'.source
      /\ ((\A d \in Clients : pc'[d] # "setIdentity") => identity' = host')
  BY <1>1, <1>2 DEF HostKnown
<1>7. \A d, e \in Clients : {pc'[d], pc'[e]} \subseteq {"setIdentity", "bumpEpoch"} => d = e
  <2>1. \A d \in Clients : pc'[d] \in {"setIdentity", "bumpEpoch"} => pc'[d] = pc[d]
    BY <1>2
  <2> QED
    BY <2>1 DEF HostKnown
<1>8. \A d \in Clients : Pending(d)' => draft'[d].frame <= LastFrame
  BY <1>1, <1>2 DEF HostKnown
<1> QED
  BY <1>1, <1>3, <1>5, <1>6, <1>7, <1>8 DEF HostKnown

LEMMA LoadEpochHost ==
  ASSUME Typed, HostKnown, NEW c \in Clients, LoadEpoch(c) PROVE HostKnown'
<1>1. /\ UNCHANGED <<identity, host, changed, queue, item, wpc>>
      /\ pc[c] = "loadEpoch" /\ pc' = [pc EXCEPT ![c] = "enqueue"]
      /\ draft' = [draft EXCEPT ![c].epoch = epoch]
  BY DEF LoadEpoch, Go, locked, context, frame
<1>2. /\ \A d \in Clients : {pc[d], pc'[d]} \cap {"setIdentity", "bumpEpoch"} # {} => pc'[d] = pc[d]
      /\ \A d \in Clients : Pending(d)' <=> Pending(d)
      /\ \A d \in Clients : d # c => draft'[d] = draft[d]
  BY <1>1 DEF Typed, Pending
<1>3. draft[c] \in Items /\ Carried(draft[c]) /\ Pending(c)
  BY <1>1 DEF Typed, Carried, Pending
<1>4. draft'[c].made = draft[c].made /\ draft'[c].frame = draft[c].frame
  BY <1>1, <1>3 DEF Items, Typed
<1>5. Changing' <=> Changing
  BY <1>2 DEF Changing
<1>6. \A h : Carried(h)' => Carried(h) \/ h = draft'[c]
  BY <1>1, <1>2 DEF Carried
<1>7. \A h \in Items : Carried(h)' =>
        /\ h.made <= changed' \/ h.made = MaxCalls + 1
        /\ h.made = changed' => ~ Changing'
        /\ h.frame <= LastFrame + Prefetch
  BY <1>1, <1>3, <1>4, <1>5, <1>6 DEF HostKnown
<1>8. \A d \in Clients : Pending(d)' => draft'[d].frame <= LastFrame
  BY <1>2, <1>3, <1>4 DEF HostKnown
<1>9. \A d, e \in Clients : {pc'[d], pc'[e]} \subseteq {"setIdentity", "bumpEpoch"} => d = e
  <2>1. \A d \in Clients : pc'[d] \in {"setIdentity", "bumpEpoch"} => pc'[d] = pc[d]
    BY <1>2
  <2> QED
    BY <2>1 DEF HostKnown
<1>10. identity'.source = host'.source
       /\ ((\A d \in Clients : pc'[d] # "setIdentity") => identity' = host')
  BY <1>1, <1>2 DEF HostKnown
<1> QED
  BY <1>7, <1>8, <1>9, <1>10 DEF HostKnown

LEMMA OutsideHost == ASSUME Typed, HostKnown, Outside PROVE HostKnown'
<1>1. ASSUME NEW c \in Clients, SetIdentity(c) PROVE HostKnown'
  <2>1. /\ pc[c] = "setIdentity" /\ pc' = [pc EXCEPT ![c] = "bumpEpoch"]
        /\ UNCHANGED <<host, changed>> /\ identity' = [identity EXCEPT !.graph = host.graph]
    BY <1>1 DEF SetIdentity, Go, context
  <2>2. Drops
    BY <1>1, OutsideDrops DEF Dropping
  <2>3. identity' = host
    BY <2>1 DEF HostKnown, Typed, Identity
  <2>4. \A d \in Clients : pc'[d] \in {"setIdentity", "bumpEpoch"} =>
          pc[d] \in {"setIdentity", "bumpEpoch"}
    BY <2>1 DEF Typed
  <2>5. Changing' => Changing
    BY <2>4 DEF Changing
  <2>6. \A d, e \in Clients : {pc'[d], pc'[e]} \subseteq {"setIdentity", "bumpEpoch"} => d = e
    BY <2>4 DEF HostKnown
  <2>7. \A h \in Items : Carried(h)' =>
          /\ h.made <= changed' \/ h.made = MaxCalls + 1
          /\ h.made = changed' => ~ Changing'
          /\ h.frame <= LastFrame + Prefetch
    BY <2>1, <2>2, <2>5, DropsCarry DEF HostKnown
  <2>8. \A d \in Clients : Pending(d)' => draft'[d].frame <= LastFrame
    BY <2>2, DropsCarry DEF HostKnown
  <2> QED
    BY <2>1, <2>3, <2>6, <2>7, <2>8 DEF HostKnown
<1>2. ASSUME NEW c \in Clients, BumpEpoch(c) PROVE HostKnown'
  <2>1. /\ pc[c] = "bumpEpoch" /\ pc' = [pc EXCEPT ![c] = "clearDecoded"]
        /\ UNCHANGED <<host, changed, identity>>
    BY <1>2 DEF BumpEpoch, Go, context, locked
  <2>2. Drops
    BY <1>2, OutsideDrops DEF Dropping
  <2>3. /\ \A d \in Clients : pc'[d] \in {"setIdentity", "bumpEpoch"} => pc'[d] = pc[d]
        /\ \A d \in Clients : pc[d] = "setIdentity" => pc'[d] = "setIdentity"
    BY <2>1 DEF Typed
  <2>4. Changing' => Changing
    BY <2>3 DEF Changing
  <2>5. \A d, e \in Clients : {pc'[d], pc'[e]} \subseteq {"setIdentity", "bumpEpoch"} => d = e
    BY <2>3 DEF HostKnown
  <2>6. \A h \in Items : Carried(h)' =>
          /\ h.made <= changed' \/ h.made = MaxCalls + 1
          /\ h.made = changed' => ~ Changing'
          /\ h.frame <= LastFrame + Prefetch
    BY <2>1, <2>2, <2>4, DropsCarry DEF HostKnown
  <2>7. \A d \in Clients : Pending(d)' => draft'[d].frame <= LastFrame
    BY <2>2, DropsCarry DEF HostKnown
  <2>8. identity'.source = host'.source
        /\ ((\A d \in Clients : pc'[d] # "setIdentity") => identity' = host')
    BY <2>1, <2>3 DEF HostKnown
  <2> QED
    BY <2>5, <2>6, <2>7, <2>8 DEF HostKnown
<1>3. ASSUME NEW c \in Clients, NEW g \in Graphs, InvalidateGraph(c, g) PROVE HostKnown'
  <2>1. /\ pc[c] = "idle" /\ pc' = [pc EXCEPT ![c] = "setIdentity"] /\ ~ Changing
        /\ host' = [host EXCEPT !.graph = g] /\ changed' = changed + 1
        /\ identity' = identity /\ calls < MaxCalls
    BY <1>3 DEF InvalidateGraph, Call, locked
  <2>2. Drops
    BY <1>3, OutsideDrops DEF Dropping
  <2>3. pc'[c] = "setIdentity" /\ \A d \in Clients : d # c => pc'[d] = pc[d]
    BY <2>1 DEF Typed
  <2>4. \A d \in Clients : pc[d] \notin {"setIdentity", "bumpEpoch"}
    BY <2>1 DEF Changing
  <2>5. \A d, e \in Clients : {pc'[d], pc'[e]} \subseteq {"setIdentity", "bumpEpoch"} => d = e
    BY <2>3, <2>4
  <2>6. \A h \in Items : Carried(h)' =>
          /\ h.made <= changed' \/ h.made = MaxCalls + 1
          /\ h.made = changed' => ~ Changing'
          /\ h.frame <= LastFrame + Prefetch
    BY <2>1, <2>2, ChangedHost
  <2>7. \A d \in Clients : Pending(d)' => draft'[d].frame <= LastFrame
    BY <2>1, <2>2, ChangedHost
  <2>8. identity'.source = host'.source
    BY <2>1 DEF HostKnown, Typed, Identity
  <2> QED
    BY <2>3, <2>5, <2>6, <2>7, <2>8 DEF HostKnown
<1>4. ASSUME NEW c \in Clients, NEW s \in Sources, SetContext(c, s) PROVE HostKnown'
  <2>1. /\ pc[c] = "idle" /\ pc' = [pc EXCEPT ![c] = "idle"] /\ ~ Changing
        /\ changed' = changed + 1 /\ identity' = host' /\ calls < MaxCalls
    BY <1>4 DEF SetContext, Call
  <2>2. Drops
    BY <1>4, OutsideDrops DEF Dropping
  <2>3. \A d \in Clients : pc'[d] = pc[d]
    BY <2>1 DEF Typed
  <2>4. \A d, e \in Clients : {pc'[d], pc'[e]} \subseteq {"setIdentity", "bumpEpoch"} => d = e
    BY <2>3 DEF HostKnown
  <2>5. \A h \in Items : Carried(h)' =>
          /\ h.made <= changed' \/ h.made = MaxCalls + 1
          /\ h.made = changed' => ~ Changing'
          /\ h.frame <= LastFrame + Prefetch
    BY <2>1, <2>2, ChangedHost
  <2>6. \A d \in Clients : Pending(d)' => draft'[d].frame <= LastFrame
    BY <2>1, <2>2, ChangedHost
  <2> QED
    BY <2>1, <2>4, <2>5, <2>6 DEF HostKnown
<1>5. ASSUME Drops, UNCHANGED <<identity, host, changed>>,
             \A c \in Clients : {pc[c], pc'[c]} \cap {"setIdentity", "bumpEpoch"} # {} => pc'[c] = pc[c]
      PROVE  HostKnown'
  BY <1>5, DropsCarry, QuietHost
<1>6. ASSUME NEW c \in Clients, ClientStep(c), ~ Enqueue(c), ~ LoadEpoch(c), ~ SetIdentity(c), ~ BumpEpoch(c)
      PROVE  HostKnown'
  <2>1. SeekSequence(c) \/ ClearQueue(c) \/ ClearDecoded(c) \/ ClearGpu(c)
    BY <1>6 DEF ClientStep
  <2>2. Drops
    BY <2>1, OutsideDrops DEF Dropping
  <2> QED
    BY <1>5, <2>1, <2>2 DEF SeekSequence, ClearQueue, ClearDecoded, ClearGpu, Go, locked, context,
       Typed
<1>7. ASSUME NEW c \in Clients, BeginSeek(c) \/ \E s \in 1..(latest + 1) : CancelBefore(c, s)
      PROVE  HostKnown'
  <2>1. Drops
    BY <1>7, OutsideDrops DEF Dropping
  <2> QED
    BY <1>5, <1>7, <2>1 DEF BeginSeek, CancelBefore, Call, locked, context, Typed
<1>8. CASE Start \/ Stop \/ Pause \/ Resume
  <2>1. Drops
    BY <1>8, OutsideDrops
  <2> QED
    BY <1>5, <1>8, <2>1 DEF Start, Stop, Pause, Resume, locked, context, clients
<1>9. ASSUME NEW c \in Clients, ClientCall(c) PROVE HostKnown'
  BY <1>3, <1>4, <1>7, <1>9, RequestHost DEF ClientCall
<1> QED
  BY <1>1, <1>2, <1>6, <1>8, <1>9, EnqueueHost, LoadEpochHost DEF Outside

LEMMA WorkerHost == ASSUME Typed, HostKnown, WorkerStep PROVE HostKnown'
<1>1. UNCHANGED <<identity, host, changed, pc, draft>>
  BY WorkerKeepsOutside DEF clients, context
<1> QED
  BY <1>1, WorkerCarries, QuietHost DEF Pending

-----------------------------------------------------------------------------
(* The caches, the key in hand and what was found or made under it. *)
LEMMA FoundIs ==
  ASSUME NEW cache, NEW k
  PROVE  Found(cache, k) = NoValue \/ \E e \in cache : e.key = k /\ Found(cache, k) = e.value
  BY DEF Found

LEMMA PutIs ==
  ASSUME NEW cache, NEW k, NEW v, NEW grown \in Put(cache, k, v)
  PROVE  \A e \in grown : e \in cache \/ e = [key |-> k, value |-> v]
  BY DEF Put

\* Nothing from outside adds to a cache, and source changes while the worker is stopped.
LEMMA OutsideCaches ==
  ASSUME Typed, Outside
  PROVE  /\ decodedCache' \subseteq decodedCache /\ gpuCache' \subseteq gpuCache
         /\ host'.source = host.source \/ (wpc = "none" /\ wpc' = "none")
         /\ epoch' >= epoch /\ epoch' \in Nat
<1>1. epoch \in Nat
  BY DEF Typed
<1>2. ASSUME NEW c \in Clients, ClientStep(c)
      PROVE  /\ decodedCache' \subseteq decodedCache /\ gpuCache' \subseteq gpuCache
             /\ UNCHANGED host /\ epoch' >= epoch /\ epoch' \in Nat
  <2>1. \A cache : Kept(cache, c) \subseteq cache
    BY DEF Kept
  <2>2. ClearDecoded(c) \/ ClearGpu(c) =>
          /\ decodedCache' \subseteq decodedCache /\ gpuCache' \subseteq gpuCache
          /\ UNCHANGED <<host, epoch>>
    BY <2>1 DEF ClearDecoded, ClearGpu, context, atomics
  <2>3. LoadEpoch(c) \/ Enqueue(c) \/ SeekSequence(c) \/ ClearQueue(c) \/ SetIdentity(c) =>
          UNCHANGED <<caches, host, epoch>>
    BY DEF LoadEpoch, Enqueue, SeekSequence, ClearQueue, SetIdentity, context, atomics
  <2>4. BumpEpoch(c) => UNCHANGED <<caches, host>> /\ epoch' = epoch + 1
    BY DEF BumpEpoch, context
  <2> QED
    BY <1>1, <1>2, <2>2, <2>3, <2>4 DEF ClientStep, caches
<1>3. ASSUME NEW c \in Clients, ClientCall(c)
      PROVE  /\ UNCHANGED caches /\ epoch' >= epoch /\ epoch' \in Nat
             /\ host'.source = host.source \/ (wpc = "none" /\ wpc' = "none")
  <2>1. ASSUME NEW f, Request(c, f) \/ CancelBefore(c, f)
        PROVE  UNCHANGED <<caches, host, epoch>>
    BY <2>1 DEF Request, CancelBefore, context
  <2>2. CASE BeginSeek(c)
    BY <1>1, <2>2 DEF BeginSeek, context
  <2>3. ASSUME NEW g \in Graphs, InvalidateGraph(c, g)
        PROVE  UNCHANGED <<caches, epoch>> /\ host'.source = host.source
    BY <2>3 DEF InvalidateGraph, atomics, Typed, Identity
  <2>4. ASSUME NEW s \in Sources, SetContext(c, s)
        PROVE  UNCHANGED <<caches, epoch>> /\ wpc = "none" /\ wpc' = "none"
    BY <2>4 DEF SetContext, atomics
  <2> QED
    BY <1>1, <1>3, <2>1, <2>2, <2>3, <2>4 DEF ClientCall
<1>4. ASSUME Start \/ Stop \/ Pause \/ Resume PROVE UNCHANGED <<caches, host, epoch>>
  BY <1>4 DEF Start, Stop, Pause, Resume, context, atomics
<1> QED
  BY <1>1, <1>2, <1>3, <1>4 DEF Outside, caches

LEMMA OutsideKeys == ASSUME Typed, KeysTrue, Outside PROVE KeysTrue'
<1>1. /\ UNCHANGED <<after, item, key, decoded, gpu>>
      /\ wpc' = wpc \/ {wpc, wpc'} \subseteq Resting
  BY OutsideKeepsWorker DEF frame
<1>2. decodedCache' \subseteq decodedCache /\ gpuCache' \subseteq gpuCache
  BY OutsideCaches
<1>3. /\ Keyed' => Keyed /\ wpc' = wpc /\ host'.source = host.source
      /\ wpc' \in Busy => wpc' = wpc
  BY <1>1, OutsideCaches DEF Keyed, Resting, Busy, Filling, Testing
<1>4. /\ \A e \in decodedCache' : e.key \in Keys /\ e.value = Decoded(e.key)
      /\ \A e \in gpuCache' : e.key \in Keys /\ e.value = Processed(e.key, e.value.graph)
  BY <1>2 DEF KeysTrue
<1>5. Keyed' => /\ key' \in Keys /\ key'.source = host'.source
                /\ key'.frame = item'.frame /\ key'.epoch = item'.epoch
  BY <1>1, <1>3 DEF KeysTrue
<1>6. Keyed' /\ wpc' # "getGpu" => gpu' = NoValue \/ gpu' = Processed(key', gpu'.graph)
  BY <1>1, <1>3 DEF KeysTrue
<1>7. wpc' \in {"putDecoded", "process"} => decoded' = Decoded(key')
  BY <1>1, <1>3 DEF KeysTrue, Busy, Filling
<1>8. Keyed' /\ wpc' \notin {"getGpu", "getDecoded", "decode", "putDecoded", "process"} =>
        gpu' # NoValue
  BY <1>1, <1>3 DEF KeysTrue
<1> QED
  BY <1>4, <1>5, <1>6, <1>7, <1>8 DEF KeysTrue

\* A step that only moves the worker on.
LEMMA MovesKeys ==
  ASSUME KeysTrue, UNCHANGED <<caches, item, key, decoded, gpu, host>>,
         Keyed' => Keyed /\ wpc # "getGpu",
         wpc' \in {"putDecoded", "process"} => wpc' = wpc \/ decoded = Decoded(key),
         Keyed' => wpc' \in {"getGpu", "getDecoded", "decode", "putDecoded", "process"}
                   \/ gpu # NoValue
  PROVE  KeysTrue'
<1>1. UNCHANGED <<decodedCache, gpuCache, item, key, decoded, gpu, host>>
  BY DEF caches
<1>2. /\ \A e \in decodedCache' : e.key \in Keys /\ e.value = Decoded(e.key)
      /\ \A e \in gpuCache' : e.key \in Keys /\ e.value = Processed(e.key, e.value.graph)
  BY <1>1 DEF KeysTrue
<1>3. Keyed' => /\ key' \in Keys /\ key'.source = host'.source
                /\ key'.frame = item'.frame /\ key'.epoch = item'.epoch
  BY <1>1 DEF KeysTrue
<1>4. Keyed' => gpu' = NoValue \/ gpu' = Processed(key', gpu'.graph)
  BY <1>1 DEF KeysTrue
<1>5. wpc' \in {"putDecoded", "process"} => decoded' = Decoded(key')
  BY <1>1 DEF KeysTrue
<1> QED
  BY <1>1, <1>2, <1>3, <1>4, <1>5 DEF KeysTrue

LEMMA WorkerKeys ==
  ASSUME Typed, Staged, HostKnown, KeysTrue, WorkerStep PROVE KeysTrue'
<1>1. UNCHANGED <<identity, host, changed>>
  BY WorkerKeepsOutside DEF context
<1>2. LastFrame + Prefetch + 1 \in Nat /\ LastFrame \in Nat /\ Prefetch \in Nat
  BY SchedulerAssumption
<1> USE DEF Step, frame, Testing
<1>3. CASE Take
  <2>1. ~ Keyed' /\ UNCHANGED caches /\ wpc' \notin {"putDecoded", "process"}
    BY <1>3 DEF Take, Keyed, Filling
  <2> QED
    BY <2>1 DEF KeysTrue, caches
<1>4. CASE Block \/ TestEpoch \/ TestSequence \/ TestCancelled
  <2>1. /\ UNCHANGED <<caches, item, key, decoded, gpu>> /\ (Keyed' => Keyed /\ wpc # "getGpu")
        /\ wpc' \notin {"putDecoded", "process"}
        /\ Keyed' => wpc \in Testing /\ after = "deliver"
    BY <1>4 DEF Block, TestEpoch, TestSequence, TestCancelled, Test, Keyed, Filling, Typed
  <2>2. Keyed' => gpu # NoValue
    BY <2>1 DEF KeysTrue
  <2> QED
    BY <1>1, <2>1, <2>2, MovesKeys
<1>5. CASE TakeKey
  <2>1. /\ wpc = "key" /\ wpc' = "getGpu" /\ key' = KeyFor /\ UNCHANGED <<caches, item>>
    BY <1>5 DEF TakeKey
  <2>2. item \in Items /\ Carried(item)
    BY <2>1 DEF Typed, Carried, Busy
  <2>3. item.frame \in 0..LastFrame + Prefetch /\ item.epoch \in Nat
    BY <1>2, <2>2 DEF HostKnown, Items
  <2>4. /\ key' \in Keys /\ key'.source = host.source /\ key'.frame = item.frame
        /\ key'.epoch = item.epoch
    BY <2>1, <2>3 DEF KeyFor, Keys, HostKnown, Typed, Identity
  <2> QED
    BY <1>1, <2>1, <2>4 DEF KeysTrue, caches
<1>6. CASE GetGpu
  <2>1. /\ wpc = "getGpu" /\ wpc' = "getDecoded" /\ gpu' = Found(gpuCache, key)
        /\ UNCHANGED <<caches, item, key, decoded>> /\ Keyed
    BY <1>6 DEF GetGpu, Keyed, Filling
  <2>2. gpu' = NoValue \/ gpu' = Processed(key, gpu'.graph)
    BY <2>1, FoundIs DEF KeysTrue
  <2> QED
    BY <1>1, <2>1, <2>2 DEF KeysTrue, caches
<1>7. CASE GetDecoded
  <2>1. /\ wpc = "getDecoded" /\ decoded' = Found(decodedCache, key)
        /\ UNCHANGED <<caches, item, key, gpu>> /\ Keyed
        /\ \/ wpc' = "decode"
           \/ wpc' = "process" /\ decoded' # NoValue
           \/ wpc' \in {"testEpoch", "wait"} /\ gpu # NoValue
    BY <1>7 DEF GetDecoded, Keyed, Filling, Finish
  <2>2. decoded' # NoValue => decoded' = Decoded(key)
    BY <2>1, FoundIs DEF KeysTrue
  <2> QED
    BY <1>1, <2>1, <2>2 DEF KeysTrue, caches, Keyed, Filling
<1>8. CASE Decode
  <2>1. /\ wpc = "decode" /\ wpc' = "putDecoded" /\ UNCHANGED <<caches, item, key, gpu>> /\ Keyed
        /\ decoded' = [frame |-> item.frame, source |-> host.source]
    BY <1>8 DEF Decode, Keyed, Filling
  <2>2. decoded' = Decoded(key)
    BY <2>1 DEF KeysTrue, Decoded
  <2> QED
    BY <1>1, <2>1, <2>2 DEF KeysTrue, caches
<1>9. CASE PutDecoded
  <2>1. /\ wpc = "putDecoded" /\ decodedCache' \in Put(decodedCache, key, decoded)
        /\ UNCHANGED <<gpuCache, item, key, gpu, decoded>> /\ Keyed
        /\ wpc' = "process" \/ (wpc' \in {"testEpoch", "wait"} /\ gpu # NoValue)
    BY <1>9 DEF PutDecoded, Keyed, Filling, Finish
  <2>2. \A e \in decodedCache' : e.key \in Keys /\ e.value = Decoded(e.key)
    BY <2>1, PutIs DEF KeysTrue
  <2> QED
    BY <1>1, <2>1, <2>2 DEF KeysTrue, Keyed, Filling
<1>10. CASE Process
  <2>1. /\ wpc = "process" /\ wpc' = "putGpu" /\ UNCHANGED <<caches, item, key, decoded>> /\ Keyed
        /\ gpu' = [frame |-> decoded.frame, source |-> decoded.source, graph |-> host.graph]
    BY <1>10 DEF Process, Keyed, Filling
  <2>2. gpu' = Processed(key, host.graph)
    BY <2>1 DEF KeysTrue, Decoded, Processed
  <2>3. gpu'.graph = host.graph /\ gpu'.frame = key.frame
    BY <2>2 DEF Processed
  <2>4. key.frame \in 0..LastFrame + Prefetch
    BY <2>1 DEF KeysTrue, Keys
  <2>5. gpu' # NoValue
    BY <1>2, <2>3, <2>4 DEF NoValue
  <2> QED
    BY <1>1, <2>1, <2>2, <2>3, <2>5 DEF KeysTrue, caches
<1>11. CASE PutGpu
  <2>1. /\ wpc = "putGpu" /\ gpuCache' \in Put(gpuCache, key, gpu)
        /\ UNCHANGED <<decodedCache, item, key, gpu, decoded>> /\ Keyed
        /\ wpc' \in {"testEpoch", "wait"}
    BY <1>11 DEF PutGpu, Keyed, Filling, Finish
  <2>2. gpu # NoValue /\ gpu = Processed(key, gpu.graph)
    BY <2>1 DEF KeysTrue
  <2>3. \A e \in gpuCache' : e.key \in Keys /\ e.value = Processed(e.key, e.value.graph)
    BY <2>1, <2>2, PutIs DEF KeysTrue
  <2> QED
    BY <1>1, <2>1, <2>2, <2>3 DEF KeysTrue, Keyed, Filling
<1>12. CASE Fail \/ Deliver \/ Report
  <2>1. ~ Keyed' /\ UNCHANGED caches /\ wpc' \notin {"putDecoded", "process"}
    BY <1>12 DEF Fail, Deliver, Report, Finish, Keyed, Filling
  <2> QED
    BY <2>1 DEF KeysTrue, caches
<1> QED
  BY <1>3, <1>4, <1>5, <1>6, <1>7, <1>8, <1>9, <1>10, <1>11, <1>12 DEF WorkerStep

-----------------------------------------------------------------------------
(* What an older graph has tainted is under epochs no present request looks up. *)
LEMMA TaintSeen ==
  ASSUME Typed, KeysTrue, TaintIsOld, NEW n \in Nat, Tainted(n)
  PROVE  n <= epoch
<1>1. CASE wpc \in Filling /\ key.epoch = n
  <2>1. Keyed /\ Loaded(item) /\ item \in Items
    BY <1>1 DEF Keyed, Loaded, Busy, Typed
  <2> QED
    BY <1>1, <2>1 DEF KeysTrue, TaintIsOld
<1>2. CASE \E e \in gpuCache : e.key.epoch = n
  BY <1>2 DEF TaintIsOld
<1> QED
  BY <1>1, <1>2 DEF Tainted

\* A step from outside that loads what is fresh, and changes the graph of the host
\* only when an invalidation begins.
LEMMA TaintKept ==
  ASSUME Typed, KeysTrue, TaintIsOld, Outside,
         \A h \in Items : Loaded(h)' =>
           \/ Loaded(h)
           \/ /\ h.epoch <= epoch
              /\ h.made = changed' => \A n \in Nat : Tainted(n) => n < h.epoch,
         changed' = changed \/ \A h \in Items : Carried(h)' => h.made # changed',
         host'.graph = host.graph \/ (Changing' /\ changed' # changed),
         (Changing => Changing') \/ epoch' > epoch
  PROVE  TaintIsOld'
<1>1. /\ UNCHANGED <<after, item, key, decoded, gpu>>
      /\ wpc' = wpc \/ {wpc, wpc'} \subseteq Resting
      /\ gpuCache' \subseteq gpuCache /\ epoch' >= epoch /\ epoch' \in Nat
  BY OutsideKeepsWorker, OutsideCaches DEF frame
<1>2. /\ wpc' \in Filling => wpc' = wpc
      /\ Keyed' => Keyed /\ wpc' = wpc /\ wpc' \in Busy
  BY <1>1 DEF Keyed, Resting, Busy, Filling, Testing
<1>3. \A h : Loaded(h)' => Carried(h)'
  BY DEF Loaded, Carried, Pending
<1>4. epoch \in Nat /\ item \in Items
  BY DEF Typed
<1>5. ASSUME NEW h \in Items, Loaded(h)' PROVE h.epoch <= epoch'
  <2>1. h.epoch <= epoch /\ h.epoch \in Nat
    BY <1>5 DEF TaintIsOld, Items
  <2> QED
    BY <1>1, <1>4, <2>1
<1>6. ASSUME NEW e \in gpuCache' PROVE e.key.epoch <= epoch'
  <2>1. e.key.epoch <= epoch /\ e.key.epoch \in Nat
    BY <1>1 DEF TaintIsOld, KeysTrue, Keys
  <2> QED
    BY <1>1, <1>4, <2>1
<1>7. ASSUME NEW n \in Nat, Tainted(n)'
      PROVE  /\ Changing' \/ n < epoch'
             /\ \A h \in Items : Loaded(h)' /\ h.made = changed' => n < h.epoch
  <2>1. CASE host'.graph # host.graph
    BY <1>3, <2>1
  <2>2. CASE host'.graph = host.graph
    <3>1. Tainted(n)
      <4>1. CASE \E e \in gpuCache' : e.key.epoch = n /\ e.value.graph # e.key.graph
        BY <1>1, <4>1 DEF Tainted
      <4>2. CASE /\ wpc' \in Filling /\ key'.epoch = n
                 /\ key'.graph # host'.graph \/ (wpc' = "putGpu" /\ gpu'.graph # key'.graph)
        <5>1. wpc' = wpc /\ key' = key /\ gpu' = gpu
          BY <1>1, <1>2, <4>2
        <5> QED
          BY <2>2, <4>2, <5>1 DEF Tainted
      <4> QED
        BY <1>7, <4>1, <4>2 DEF Tainted
    <3>2. n <= epoch /\ (Changing \/ n < epoch)
      BY <3>1, TaintSeen DEF TaintIsOld
    <3>3. Changing' \/ n < epoch'
      BY <1>1, <1>4, <3>2
    <3>4. ASSUME NEW h \in Items, Loaded(h)', h.made = changed' PROVE n < h.epoch
      <4>1. changed' = changed
        BY <1>3, <3>4
      <4>2. CASE Loaded(h)
        BY <3>1, <3>4, <4>1, <4>2 DEF TaintIsOld
      <4> QED
        BY <3>1, <3>4, <4>2
    <3> QED
      BY <3>3, <3>4
  <2> QED
    BY <2>1, <2>2
<1>8. ASSUME Keyed', item'.made = changed'
      PROVE  /\ key'.graph = host'.graph
             /\ wpc' # "getGpu" => gpu' = NoValue \/ gpu'.graph = key'.graph
  <2>1. \A h : h = item' => Carried(h)'
    BY <1>2, <1>8 DEF Carried
  <2>2. changed' = changed /\ host'.graph = host.graph
    <3>1. item' \in Items
      BY <1>1, <1>4
    <3> QED
      BY <1>8, <2>1, <3>1
  <2>3. item.made = changed /\ Keyed
    BY <1>1, <1>2, <1>8, <2>2
  <2> QED
    BY <1>1, <1>2, <1>8, <2>2, <2>3 DEF TaintIsOld
<1> QED
  BY <1>5, <1>6, <1>7, <1>8 DEF TaintIsOld

LEMMA RequestTaint ==
  ASSUME Typed, KeysTrue, TaintIsOld, Outside, NEW c \in Clients, NEW f, Request(c, f)
  PROVE  TaintIsOld'
<1>1. /\ UNCHANGED <<queue, item, wpc, host, changed>>
      /\ pc[c] = "idle" /\ pc' = [pc EXCEPT ![c] = "loadEpoch"]
      /\ \A d \in Clients : d # c => draft'[d] = draft[d]
  BY DEF Request, Call, locked, context, frame, Typed
<1>2. \A d \in Clients : pc'[d] = IF d = c THEN "loadEpoch" ELSE pc[d]
  BY <1>1 DEF Typed
<1>3. \A h : Loaded(h)' => Loaded(h)
  BY <1>1, <1>2 DEF Loaded
<1>4. Changing => Changing'
  BY <1>1, <1>2 DEF Changing
<1> QED
  BY <1>1, <1>3, <1>4, TaintKept

LEMMA LoadEpochTaint ==
  ASSUME Typed, HostKnown, KeysTrue, TaintIsOld, Outside, NEW c \in Clients, LoadEpoch(c)
  PROVE  TaintIsOld'
<1>1. /\ UNCHANGED <<queue, item, wpc, host, changed>>
      /\ pc[c] = "loadEpoch" /\ pc' = [pc EXCEPT ![c] = "enqueue"]
      /\ draft' = [draft EXCEPT ![c].epoch = epoch]
  BY DEF LoadEpoch, Go, locked, context, frame
<1>2. /\ \A d \in Clients : pc'[d] = IF d = c THEN "enqueue" ELSE pc[d]
      /\ \A d \in Clients : d # c => draft'[d] = draft[d]
  BY <1>1 DEF Typed
<1>3. draft[c] \in Items /\ Carried(draft[c])
  BY <1>1 DEF Typed, Carried, Pending
<1>4. draft'[c].made = draft[c].made /\ draft'[c].epoch = epoch /\ epoch \in Nat
  BY <1>1, <1>3 DEF Items, Typed
<1>5. \A h : Loaded(h)' => Loaded(h) \/ h = draft'[c]
  BY <1>1, <1>2 DEF Loaded
<1>6. Changing => Changing'
  BY <1>1, <1>2 DEF Changing
<1>7. draft'[c].epoch <= epoch
  BY <1>4
<1>8. draft'[c].made = changed' => \A n \in Nat : Tainted(n) => n < draft'[c].epoch
  BY <1>1, <1>3, <1>4 DEF HostKnown, TaintIsOld
<1> QED
  BY <1>1, <1>5, <1>6, <1>7, <1>8, TaintKept

LEMMA EnqueueTaint ==
  ASSUME Typed, KeysTrue, TaintIsOld, Outside, NEW c \in Clients, Enqueue(c)
  PROVE  TaintIsOld'
<1>1. /\ UNCHANGED <<draft, item, host, changed>> /\ (wpc' = wpc \/ wpc' \notin Busy)
      /\ pc[c] = "enqueue" /\ pc' = [pc EXCEPT ![c] = "idle"]
  BY DEF Enqueue, Go, context, frame, Notified, Busy, Testing, Filling
<1>2. \A d \in Clients : pc'[d] = IF d = c THEN "idle" ELSE pc[d]
  BY <1>1 DEF Typed
<1>3. draft[c] \in Items /\ Loaded(draft[c])
  BY <1>1 DEF Typed, Loaded
<1>4. Changing => Changing'
  BY <1>1, <1>2 DEF Changing
<1>5. ASSUME NEW h \in Items, Loaded(h)'
      PROVE  Loaded(h) \/ (h.epoch = draft[c].epoch /\ h.made = draft[c].made)
  <2>1. CASE \E i \in DOMAIN queue' : h = queue'[i]
    BY <2>1, EnqueueIs
  <2>2. CASE ~ \E i \in DOMAIN queue' : h = queue'[i]
    BY <1>1, <1>2, <1>5, <2>2 DEF Loaded
  <2> QED
    BY <2>1, <2>2
<1>6. /\ draft[c].epoch <= epoch
      /\ draft[c].made = changed => \A n \in Nat : Tainted(n) => n < draft[c].epoch
  BY <1>3 DEF TaintIsOld
<1>7. \A h \in Items : Loaded(h)' =>
        \/ Loaded(h)
        \/ /\ h.epoch <= epoch
           /\ h.made = changed' => \A n \in Nat : Tainted(n) => n < h.epoch
  BY <1>1, <1>5, <1>6
<1> QED
  BY <1>1, <1>4, <1>7, TaintKept

LEMMA OutsideTaint ==
  ASSUME Typed, HostKnown, KeysTrue, TaintIsOld, Outside PROVE TaintIsOld'
<1>1. ASSUME Drops, UNCHANGED <<host, changed>>, (Changing => Changing') \/ epoch' > epoch
      PROVE  TaintIsOld'
  <2>1. \A h : Loaded(h)' => Loaded(h)
    BY <1>1, DropsCarry
  <2> QED
    BY <1>1, <2>1, TaintKept
<1>2. ASSUME NEW c \in Clients, BumpEpoch(c) PROVE TaintIsOld'
  <2>1. Drops /\ UNCHANGED <<host, changed>>
    BY <1>2, OutsideDrops DEF Dropping, BumpEpoch, context
  <2>2. epoch' > epoch
    BY <1>2 DEF BumpEpoch, Typed
  <2> QED
    BY <1>1, <2>1, <2>2
<1>3. ASSUME NEW c \in Clients, SetIdentity(c) PROVE TaintIsOld'
  <2>1. Drops /\ UNCHANGED <<host, changed>>
    BY <1>3, OutsideDrops DEF Dropping, SetIdentity, context
  <2>2. pc'[c] = "bumpEpoch"
    BY <1>3 DEF SetIdentity, Go, Typed
  <2>3. Changing'
    BY <2>2 DEF Changing
  <2> QED
    BY <1>1, <2>1, <2>3
<1>4. ASSUME NEW c \in Clients,
             SeekSequence(c) \/ ClearQueue(c) \/ ClearDecoded(c) \/ ClearGpu(c)
      PROVE  TaintIsOld'
  <2>1. Drops
    BY <1>4, OutsideDrops DEF Dropping
  <2>2. /\ UNCHANGED <<host, changed>>
        /\ \A d \in Clients : pc[d] \in {"setIdentity", "bumpEpoch"} => pc'[d] = pc[d]
    BY <1>4 DEF SeekSequence, ClearQueue, ClearDecoded, ClearGpu, Go, context, Typed
  <2>3. Changing => Changing'
    BY <2>2 DEF Changing
  <2> QED
    BY <1>1, <2>1, <2>2, <2>3
<1>5. ASSUME NEW c \in Clients, BeginSeek(c) \/ \E s \in 1..(latest + 1) : CancelBefore(c, s)
      PROVE  TaintIsOld'
  <2>1. Drops
    BY <1>5, OutsideDrops DEF Dropping
  <2>2. /\ UNCHANGED <<host, changed>>
        /\ \A d \in Clients : pc[d] \in {"setIdentity", "bumpEpoch"} => pc'[d] = pc[d]
    BY <1>5 DEF BeginSeek, CancelBefore, Call, context, Typed
  <2>3. Changing => Changing'
    BY <2>2 DEF Changing
  <2> QED
    BY <1>1, <2>1, <2>2, <2>3
<1>6. ASSUME NEW c \in Clients, NEW g \in Graphs, InvalidateGraph(c, g) PROVE TaintIsOld'
  <2>1. /\ changed' = changed + 1 /\ calls < MaxCalls /\ changed \in Nat
        /\ pc'[c] = "setIdentity"
    BY <1>6 DEF InvalidateGraph, Call, Typed
  <2>2. Drops
    BY <1>6, OutsideDrops DEF Dropping
  <2>3. Changing'
    BY <2>1 DEF Changing
  <2>4. changed' # changed
    BY <2>1
  <2>5. \A h : Loaded(h)' => Loaded(h)
    BY <2>2, DropsCarry
  <2>6. \A h \in Items : Carried(h)' => h.made # changed'
    BY <2>1, <2>2, ChangedHost
  <2> QED
    BY <2>3, <2>4, <2>5, <2>6, TaintKept
<1>7. ASSUME NEW c \in Clients, NEW s \in Sources, SetContext(c, s) PROVE TaintIsOld'
  <2>1. /\ changed' = changed + 1 /\ calls < MaxCalls /\ host' = [host EXCEPT !.source = s]
        /\ pc' = [pc EXCEPT ![c] = "idle"] /\ pc[c] = "idle"
    BY <1>7 DEF SetContext, Call
  <2>2. Drops
    BY <1>7, OutsideDrops DEF Dropping
  <2>3. host'.graph = host.graph /\ \A d \in Clients : pc'[d] = pc[d]
    BY <2>1 DEF Typed, Identity
  <2>4. Changing => Changing'
    BY <2>3 DEF Changing
  <2>5. \A h : Loaded(h)' => Loaded(h)
    BY <2>2, DropsCarry
  <2>6. \A h \in Items : Carried(h)' => h.made # changed'
    BY <2>1, <2>2, ChangedHost
  <2> QED
    BY <2>3, <2>4, <2>5, <2>6, TaintKept
<1>8. CASE Start \/ Stop \/ Pause \/ Resume
  <2>1. Drops
    BY <1>8, OutsideDrops
  <2>2. UNCHANGED <<host, changed, pc>>
    BY <1>8 DEF Start, Stop, Pause, Resume, context, clients
  <2>3. Changing => Changing'
    BY <2>2 DEF Changing
  <2> QED
    BY <1>1, <2>1, <2>2, <2>3
<1>9. ASSUME NEW c \in Clients, ClientStep(c) PROVE TaintIsOld'
  BY <1>2, <1>3, <1>4, <1>9, LoadEpochTaint, EnqueueTaint DEF ClientStep
<1>10. ASSUME NEW c \in Clients, ClientCall(c) PROVE TaintIsOld'
  BY <1>5, <1>6, <1>7, <1>10, RequestTaint DEF ClientCall
<1> QED
  BY <1>8, <1>9, <1>10 DEF Outside

LEMMA WorkerTaint ==
  ASSUME Typed, HostKnown, KeysTrue, TaintIsOld, WorkerStep PROVE TaintIsOld'
<1> DEFINE Good(g) == g = NoValue \/ g.graph = key'.graph
<1>1. UNCHANGED <<epoch, identity, host, changed, pc>>
  BY WorkerKeepsOutside DEF context, clients, atomics
<1>2. /\ Changing' <=> Changing
      /\ \A h : Loaded(h)' => Loaded(h)
      /\ \A h : Loaded(h) => Carried(h)
  BY <1>1, WorkerCarries DEF Changing, Loaded, Carried, Pending
<1>3. ASSUME \A e \in gpuCache' : e.key.epoch <= epoch,
             \A n \in Nat : Tainted(n)' => Tainted(n) \/ Changing,
             Keyed' /\ item'.made = changed =>
               key'.graph = host.graph /\ (wpc' # "getGpu" => Good(gpu'))
      PROVE  TaintIsOld'
  <2>1. \A h \in Items : Loaded(h)' => h.epoch <= epoch
    BY <1>2 DEF TaintIsOld
  <2>2. ASSUME NEW n \in Nat, Tainted(n)'
        PROVE  /\ Changing \/ n < epoch
               /\ \A h \in Items : Loaded(h)' /\ h.made = changed => n < h.epoch
    BY <1>2, <1>3, <2>2 DEF TaintIsOld, HostKnown
  <2> QED
    BY <1>1, <1>2, <1>3, <2>1, <2>2 DEF TaintIsOld
<1>4. ASSUME gpuCache' = gpuCache PROVE \A e \in gpuCache' : e.key.epoch <= epoch
  BY <1>4 DEF TaintIsOld
<1>5. ASSUME gpuCache' = gpuCache, wpc' \in Filling => wpc' # "putGpu" /\ wpc \in Filling /\ key' = key
      PROVE  \A n \in Nat : Tainted(n)' => Tainted(n) \/ Changing
  BY <1>1, <1>5 DEF Tainted
<1>6. ASSUME Keyed, wpc # "getGpu", UNCHANGED <<item, key, gpu>>
      PROVE  item'.made = changed => key'.graph = host.graph /\ Good(gpu')
  BY <1>6 DEF TaintIsOld
<1> USE DEF Step, frame, Testing
<1>7. CASE Take \/ Fail \/ Deliver \/ Report
  <2>1. ~ Keyed' /\ gpuCache' = gpuCache /\ wpc' \notin Filling
    BY <1>7 DEF Take, Fail, Deliver, Report, Finish, Keyed, Filling, caches
  <2> QED
    BY <1>3, <1>4, <1>5, <2>1
<1>8. CASE Block \/ TestEpoch \/ TestSequence \/ TestCancelled
  <2>1. /\ gpuCache' = gpuCache /\ UNCHANGED <<item, key, gpu>>
        /\ wpc' \notin Filling /\ (Keyed' => Keyed /\ wpc # "getGpu")
    BY <1>8 DEF Block, TestEpoch, TestSequence, TestCancelled, Test, Keyed, Filling, Typed, caches
  <2> QED
    BY <1>3, <1>4, <1>5, <1>6, <2>1
<1>9. CASE TakeKey
  <2>1. /\ wpc = "key" /\ wpc' = "getGpu" /\ key' = KeyFor /\ UNCHANGED <<gpuCache, item>>
    BY <1>9 DEF TakeKey, caches
  <2>2. Carried(item) /\ item \in Items /\ key'.graph = identity.graph
    BY <2>1 DEF Typed, Carried, Busy, KeyFor
  <2>3. key'.graph = host.graph \/ Changing
    BY <2>2 DEF HostKnown, Changing
  <2>4. item.made = changed => key'.graph = host.graph
    BY <2>2, <2>3 DEF HostKnown
  <2>5. \A n \in Nat : Tainted(n)' => Tainted(n) \/ Changing
    BY <1>1, <2>1, <2>3 DEF Tainted
  <2> QED
    BY <1>3, <1>4, <2>1, <2>4, <2>5
<1>10. CASE GetGpu
  <2>1. /\ wpc = "getGpu" /\ wpc' = "getDecoded" /\ gpu' = Found(gpuCache, key)
        /\ UNCHANGED <<gpuCache, item, key>>
    BY <1>10 DEF GetGpu, caches
  <2>2. /\ Keyed /\ Loaded(item) /\ item \in Items /\ wpc \in Filling
    BY <2>1 DEF Keyed, Loaded, Filling, Busy, Typed
  <2>3. key.epoch = item.epoch /\ item.epoch \in Nat
    BY <2>2 DEF KeysTrue, Items
  <2>4. ASSUME item.made = changed PROVE Good(gpu')
    <3>1. \A n \in Nat : Tainted(n) => n < item.epoch
      BY <2>2, <2>4 DEF TaintIsOld
    <3>2. ~ Tainted(key.epoch)
      BY <2>3, <3>1
    <3>3. \A e \in gpuCache : e.key = key => e.value.graph = key.graph
      BY <3>2 DEF Tainted
    <3> QED
      BY <2>1, <3>3, FoundIs
  <2>5. item.made = changed => key'.graph = host.graph
    BY <2>1, <2>2 DEF TaintIsOld
  <2> HIDE DEF Good
  <2>6. wpc' \in Filling => wpc' # "putGpu" /\ wpc \in Filling /\ key' = key
    BY <2>1, <2>2
  <2> QED
    BY <1>3, <1>4, <1>5, <2>1, <2>4, <2>5, <2>6
<1>11. CASE GetDecoded \/ Decode \/ PutDecoded
  <2>1. /\ gpuCache' = gpuCache /\ UNCHANGED <<item, key, gpu>>
        /\ wpc \in Filling /\ wpc # "getGpu" /\ Keyed /\ wpc' # "putGpu"
    BY <1>11 DEF GetDecoded, Decode, PutDecoded, Keyed, Filling, Finish, caches
  <2> QED
    BY <1>3, <1>4, <1>5, <1>6, <2>1
<1>12. CASE Process
  <2>1. /\ wpc = "process" /\ wpc' = "putGpu" /\ UNCHANGED <<gpuCache, item, key>>
        /\ gpu'.graph = host.graph /\ Keyed
    BY <1>12 DEF Process, Keyed, Filling, caches
  <2>2. \A n \in Nat : Tainted(n)' => Tainted(n) \/ Changing
    BY <1>1, <2>1 DEF Tainted, Filling
  <2>3. item.made = changed => key'.graph = host.graph
    BY <2>1 DEF TaintIsOld
  <2> QED
    BY <1>3, <1>4, <2>1, <2>2, <2>3
<1>13. CASE PutGpu
  <2>1. /\ wpc = "putGpu" /\ gpuCache' \in Put(gpuCache, key, gpu) /\ UNCHANGED <<item, key, gpu>>
        /\ Keyed /\ Loaded(item) /\ item \in Items /\ wpc' \notin Filling
    BY <1>13 DEF PutGpu, Finish, Keyed, Loaded, Filling, Busy, Typed
  <2>2. \A e \in gpuCache' : e \in gpuCache \/ (e.key = key /\ e.value = gpu)
    BY <2>1, PutIs
  <2>3. key.epoch = item.epoch /\ item.epoch <= epoch
    BY <2>1 DEF KeysTrue, TaintIsOld
  <2>4. \A e \in gpuCache' : e.key.epoch <= epoch
    BY <2>2, <2>3 DEF TaintIsOld
  <2>5. \A n \in Nat : Tainted(n)' => Tainted(n) \/ Changing
    BY <2>1, <2>2 DEF Tainted, Filling
  <2> QED
    BY <1>3, <1>6, <2>1, <2>4, <2>5
<1> QED
  BY <1>7, <1>8, <1>9, <1>10, <1>11, <1>12, <1>13 DEF WorkerStep

-----------------------------------------------------------------------------
(* The invariant, and what it was made for. *)
LEMMA StepPreserves == IInv /\ [Next]_vars => IInv'
<1> SUFFICES ASSUME IInv, [Next]_vars PROVE IInv'
  OBVIOUS
<1> USE DEF IInv
<1>1. CASE Outside
  BY <1>1, OutsideTyped, OutsideStaged, OutsideHolds, OutsideHost, OutsideKeys, OutsideTaint
<1>2. CASE WorkerStep
  BY <1>2, WorkerTyped, WorkerStaged, WorkerHolds, WorkerHost, WorkerKeys, WorkerTaint
<1>3. CASE UNCHANGED vars
  <2>1. UNCHANGED <<epoch, latest, queue, identity, decodedCache, gpuCache, pc, draft, host, wpc,
                    after, item, key, decoded, gpu, changed, completed, calls>>
    BY <1>3 DEF vars, atomics, locked, caches, clients, context, frame, answers, budget
  <2>2. Typed' /\ Staged'
    BY <2>1 DEF Typed, Staged
  <2>3. OneHolder'
    BY <2>1 DEF OneHolder, Pending
  <2>4. HostKnown'
    BY <2>1 DEF HostKnown, Carried, Pending, Changing
  <2>5. KeysTrue'
    BY <2>1 DEF KeysTrue, Keyed
  <2>6. TaintIsOld'
    BY <2>1 DEF TaintIsOld, Tainted, Loaded, Changing, Keyed
  <2> QED
    BY <2>2, <2>3, <2>4, <2>5, <2>6
<1> QED
  BY <1>1, <1>2, <1>3 DEF Next, Outside

\* The places of the worker, the holders of numbers, the host and what of an older
\* graph the caches may hold, at every step of any number of clients.
THEOREM SchedulerInvariant == Spec => []IInv
<1>1. Init => IInv
  BY InitEstablishes
<1>2. IInv /\ [Next]_vars => IInv'
  BY StepPreserves
<1> QED
  BY <1>1, <1>2, PTL DEF Spec

LEMMA WantedHolds == IInv => CompletedIsWanted
<1> SUFFICES ASSUME IInv, wpc = "deliver", item.made = changed
             PROVE  gpu = [frame |-> item.frame, source |-> host.source, graph |-> host.graph]
  BY DEF CompletedIsWanted
<1>1. Keyed
  BY DEF IInv, Staged, Keyed
<1>2. gpu # NoValue /\ gpu = Processed(key, gpu.graph)
  BY <1>1 DEF IInv, KeysTrue
<1>3. key.source = host.source /\ key.frame = item.frame
  BY <1>1 DEF IInv, KeysTrue
<1>4. gpu.graph = host.graph
  BY <1>1, <1>2 DEF IInv, TaintIsOld
<1> QED
  BY <1>2, <1>3, <1>4 DEF Processed

\* A frame completed for a request of the host as it is now is that frame of that
\* source through that graph, whatever was processed across an invalidation.
THEOREM FramesAreWanted == Spec => []CompletedIsWanted
BY SchedulerInvariant, WantedHolds, PTL

-----------------------------------------------------------------------------
(* The promise: the scheduler draws, claims, completes and abandons numbers *)
(* as LatestRequest does, or stutters.                                      *)
Claimed == IF wpc \in {"testCancelled", "deliver"} /\ after = "deliver" THEN item.sequence ELSE 0

LEMMA PromiseInit == Init => Promise!Init
  BY DEF Init, Promise!Init

LEMMA OutsidePromise ==
  ASSUME Typed, Outside
  PROVE  latest' \in {latest, latest + 1} /\ completed' = completed /\ Claimed' = Claimed
<1>1. UNCHANGED <<item, after, completed>> /\ (wpc' = wpc \/ {wpc, wpc'} \subseteq Resting)
  BY OutsideKeepsWorker DEF frame, answers
<1>2. Claimed' = Claimed
  BY <1>1 DEF Claimed, Resting
<1>3. ASSUME NEW c \in Clients, ClientStep(c) PROVE latest' \in {latest, latest + 1}
  BY <1>3 DEF ClientStep, LoadEpoch, Enqueue, SeekSequence, ClearQueue, ClearDecoded, ClearGpu,
     SetIdentity, BumpEpoch, atomics
<1>4. ASSUME NEW c \in Clients, ClientCall(c) PROVE latest' \in {latest, latest + 1}
  BY <1>4 DEF ClientCall, Request, CancelBefore, BeginSeek, InvalidateGraph, SetContext, atomics
<1>5. ASSUME Start \/ Stop \/ Pause \/ Resume PROVE latest' = latest
  BY <1>5 DEF Start, Stop, Pause, Resume, atomics
<1> QED
  BY <1>1, <1>2, <1>3, <1>4, <1>5 DEF Outside

LEMMA PromiseStep ==
  ASSUME Typed, Staged, OneHolder, [Next]_vars
  PROVE  [Promise!Next]_Promise!vars
<1> SUFFICES \/ latest' = latest + 1 /\ Claimed' = Claimed /\ completed' = completed
             \/ /\ Claimed = 0 /\ latest > completed
                /\ Claimed' = latest /\ latest' = latest /\ completed' = completed
             \/ Claimed # 0 /\ completed' = Claimed /\ Claimed' = 0 /\ latest' = latest
             \/ Claimed # 0 /\ Claimed' = 0 /\ latest' = latest /\ completed' = completed
             \/ latest' = latest /\ Claimed' = Claimed /\ completed' = completed
  BY DEF Promise!Next, Promise!vars, Promise!Draw, Promise!Claim, Promise!Complete,
     Promise!Abandon, Claimed
<1>1. CASE Outside
  BY <1>1, OutsidePromise
<1>2. CASE TestSequence
  <2>1. /\ UNCHANGED <<latest, completed, item, after>> /\ wpc = "testSequence"
        /\ wpc' = "wait" \/ (wpc' = "testCancelled" /\ item.sequence = latest)
    BY <1>2, WorkerKeepsOutside DEF TestSequence, Test, Step, WorkerStep, atomics, frame, answers
  <2>2. Claimed = 0
    BY <2>1 DEF Claimed
  <2>3. CASE wpc' = "testCancelled" /\ after = "deliver"
    <3>1. item.deliver
      BY <2>1, <2>3 DEF Staged, Testing
    <3>2. item.sequence # completed
      BY <2>1, <2>3, <3>1 DEF OneHolder, Busy, Testing
    <3>3. latest > completed
      BY <2>1, <2>3, <3>2 DEF OneHolder, Typed
    <3>4. Claimed' = latest
      BY <2>1, <2>3 DEF Claimed
    <3> QED
      BY <2>1, <2>2, <3>3, <3>4
  <2>4. CASE ~ (wpc' = "testCancelled" /\ after = "deliver")
    <3>1. Claimed' = 0
      BY <2>1, <2>4 DEF Claimed
    <3> QED
      BY <2>1, <2>2, <3>1
  <2> QED
    BY <2>3, <2>4
<1>3. CASE TestCancelled
  <2>1. /\ UNCHANGED <<latest, completed, item, after>> /\ wpc = "testCancelled"
        /\ wpc' \in {"wait", after}
    BY <1>3, WorkerKeepsOutside DEF TestCancelled, Test, Step, WorkerStep, atomics, frame, answers
  <2>2. Claimed' \in {Claimed, 0}
    BY <2>1 DEF Claimed, Typed
  <2> QED
    BY <2>1, <2>2
<1>4. CASE Deliver
  <2>1. /\ wpc = "deliver" /\ after = "deliver" /\ completed' = item.sequence
        /\ wpc' \in {"wait", "testEpoch"} /\ latest' = latest
    BY <1>4, WorkerKeepsOutside DEF Deliver, Step, WorkerStep, atomics, Staged
  <2>2. item.sequence # 0
    BY <2>1 DEF OneHolder, Busy
  <2>3. Claimed = item.sequence /\ Claimed' = 0
    BY <2>1 DEF Claimed
  <2> QED
    BY <2>1, <2>2, <2>3
<1>5. CASE Take \/ Block \/ TestEpoch \/ TakeKey \/ GetGpu \/ GetDecoded
  <2>1. /\ UNCHANGED <<latest, completed>>
        /\ wpc \notin {"testCancelled", "deliver"} /\ wpc' \notin {"testCancelled", "deliver"}
    BY <1>5, WorkerKeepsOutside DEF Take, Block, TestEpoch, Test, TakeKey, GetGpu, GetDecoded,
       Finish, Step, WorkerStep, atomics, answers
  <2> QED
    BY <2>1 DEF Claimed
<1>6. CASE Decode \/ PutDecoded \/ Process \/ PutGpu \/ Fail \/ Report
  <2>1. /\ UNCHANGED <<latest, completed>>
        /\ wpc \notin {"testCancelled", "deliver"} /\ wpc' \notin {"testCancelled", "deliver"}
    BY <1>6, WorkerKeepsOutside DEF Decode, PutDecoded, Process, PutGpu, Fail, Report,
       Finish, Step, WorkerStep, atomics, answers
  <2> QED
    BY <2>1 DEF Claimed
<1>7. CASE UNCHANGED vars
  BY <1>7 DEF vars, atomics, frame, answers, Claimed
<1> QED
  BY <1>1, <1>2, <1>3, <1>4, <1>5, <1>6, <1>7 DEF Next, Outside, WorkerStep

\* Latest request wins: every completion of run() goes to a request that was the
\* newest when the worker last looked, in order and once, for any number of clients.
THEOREM SchedulerImplementsLatestRequest == Spec => ImplementsLatestRequest
<1>1. IInv /\ [Next]_vars => [Promise!Next]_Promise!vars
  BY PromiseStep DEF IInv
<1> QED
  BY <1>1, PromiseInit, SchedulerInvariant, PTL DEF Spec, ImplementsLatestRequest, Promise!Spec
=============================================================================
