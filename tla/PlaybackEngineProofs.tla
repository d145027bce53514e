------------------------ MODULE PlaybackEngineProofs ------------------------
(***************************************************************************)
(* For every duration, queue, budget, call and failure: a session that was *)
(* not stopped presents nothing that was decoded before its last seek, and *)
(* queued_bytes_ is the bytes of the queue.                                *)
(***************************************************************************)
EXTENDS PlaybackEngine, TLAPS, WellFoundedInduction

-----------------------------------------------------------------------------
(* Suffixes of the queue. *)

LEMMA LeastNumber ==
  ASSUME NEW S \in SUBSET Nat, S # {}
  PROVE  \E m \in S : \A k \in S : m <= k
<1>1. PICK m \in S : \A k \in S : <<k, m>> \notin OpToRel(<, Nat)
  BY WFMin, NatLessThanWellFounded, Zenon
<1>2. \A k \in S : k \in Nat /\ m \in Nat /\ ~ (k < m)
  BY <1>1, Zenon DEF OpToRel
<1>3. \A k \in S : m <= k
  BY <1>2
<1> QED
  BY <1>3

\* What a queue of frames becomes when its first ones leave it.
Remains(rest, frames) ==
  /\ rest \in Seq(Frame) /\ Len(rest) <= Len(frames)
  /\ \A i \in DOMAIN rest : \E j \in DOMAIN frames : rest[i] = frames[j]

\* What is left without the first ones.
Suffix(rest, frames) == \E i \in 1..Len(frames) + 1 : rest = From(frames, i)

LEMMA FromRemains ==
  ASSUME NEW frames \in Seq(Frame), NEW i \in 1..Len(frames) + 1
  PROVE  /\ Remains(From(frames, i), frames) /\ Len(From(frames, i)) = Len(frames) + 1 - i
         /\ \A j \in 1..Len(From(frames, i)) : From(frames, i)[j] = frames[j + i - 1]
<1>1. Len(frames) \in Nat /\ DOMAIN frames = 1..Len(frames) /\ i \in Nat /\ i >= 1
  OBVIOUS
<1>2. /\ From(frames, i) \in Seq(Frame) /\ Len(From(frames, i)) = Len(frames) + 1 - i
      /\ \A j \in 1..Len(From(frames, i)) : From(frames, i)[j] = frames[j + i - 1]
  BY <1>1 DEF From
<1>3. \A j \in DOMAIN From(frames, i) : j + i - 1 \in DOMAIN frames
  BY <1>1, <1>2
<1>4. DOMAIN From(frames, i) = 1..Len(From(frames, i))
  BY <1>2
<1> QED
  BY <1>1, <1>2, <1>3, <1>4 DEF Remains

LEMMA RemainsTwice ==
  ASSUME NEW a, NEW b, NEW c, Remains(a, b), Remains(b, c), Len(c) \in Nat
  PROVE  Remains(a, c)
<1>1. Len(a) \in Nat /\ Len(b) \in Nat /\ Len(a) <= Len(c)
  BY DEF Remains
<1> QED
  BY <1>1 DEF Remains

LEMMA SuffixTwice ==
  ASSUME NEW c \in Seq(Frame), NEW a, NEW b, Suffix(a, b), Suffix(b, c)
  PROVE  Suffix(a, c)
<1>1. PICK j \in 1..Len(c) + 1 : b = From(c, j)
  BY DEF Suffix
<1>2. b \in Seq(Frame) /\ Len(b) = Len(c) + 1 - j /\ \A n \in 1..Len(b) : b[n] = c[n + j - 1]
  BY <1>1, FromRemains DEF Remains
<1>3. PICK i \in 1..Len(b) + 1 : a = From(b, i)
  BY DEF Suffix
<1>4. a \in Seq(Frame) /\ Len(a) = Len(b) + 1 - i /\ \A n \in 1..Len(a) : a[n] = b[n + i - 1]
  BY <1>2, <1>3, FromRemains DEF Remains
<1> DEFINE k == i + j - 1
           d == From(c, k)
<1>5. Len(c) \in Nat /\ k \in 1..Len(c) + 1
  BY <1>2
<1>6. d \in Seq(Frame) /\ Len(d) = Len(c) + 1 - k /\ \A n \in 1..Len(d) : d[n] = c[n + k - 1]
  BY <1>5, FromRemains DEF Remains
<1>7. Len(a) = Len(d)
  BY <1>2, <1>4, <1>5, <1>6
<1>8. ASSUME NEW n \in 1..Len(a) PROVE a[n] = d[n]
  <2>1. n + i - 1 \in 1..Len(b) /\ (n + i - 1) + j - 1 = n + k - 1
    BY <1>2, <1>4, <1>5
  <2>2. a[n] = b[n + i - 1] /\ b[n + i - 1] = c[n + k - 1]
    BY <1>2, <1>4, <2>1
  <2> QED
    BY <1>6, <1>7, <2>2
<1>9. a = d
  <2>1. a \in Seq(Frame) /\ d \in Seq(Frame) /\ Len(a) = Len(d)
    BY <1>4, <1>6, <1>7
  <2> HIDE DEF d
  <2> QED
    BY <1>8, <2>1
<1> QED
  BY <1>5, <1>9 DEF Suffix

LEMMA TailIsSuffix == ASSUME NEW s \in Seq(Frame), s # <<>> PROVE Suffix(Tail(s), s)
<1>1. Len(s) \in Nat /\ Len(s) >= 1 /\ 2 \in 1..Len(s) + 1
  OBVIOUS
<1> DEFINE a == Tail(s)
           b == From(s, 2)
<1>2. a \in Seq(Frame) /\ Len(a) = Len(s) - 1 /\ \A n \in 1..Len(a) : a[n] = s[n + 1]
  BY <1>1
<1>3. b \in Seq(Frame) /\ Len(b) = Len(s) + 1 - 2 /\ \A n \in 1..Len(b) : b[n] = s[n + 2 - 1]
  BY <1>1, FromRemains DEF Remains
<1> HIDE DEF a, b
<1>4. Len(a) = Len(b) /\ \A n \in 1..Len(a) : a[n] = b[n]
  BY <1>1, <1>2, <1>3
<1>5. a = b
  BY <1>2, <1>3, <1>4
<1> QED
  BY <1>1, <1>5 DEF Suffix, a, b

\* Among the indices of a queue and the one past its end there is a first one.
LEMMA FirstOf ==
  ASSUME NEW frames \in Seq(Frame), NEW S \in SUBSET (1..Len(frames) + 1), Len(frames) + 1 \in S
  PROVE  \E i \in S : \A j \in 1..i - 1 : j \notin S
<1>1. S \in SUBSET Nat /\ S # {} /\ Len(frames) \in Nat
  OBVIOUS
<1>2. PICK i \in S : \A k \in S : i <= k
  BY <1>1, LeastNumber
<1>3. i \in Nat /\ \A j \in 1..i - 1 : j \in Nat /\ j < i
  BY <1>1
<1>4. \A k \in S : k \in Nat /\ i <= k
  BY <1>1, <1>2
<1>5. \A j \in 1..i - 1 : j \notin S
  BY <1>3, <1>4
<1> QED
  BY <1>5

LEMMA CurrentIs ==
  ASSUME queue \in Seq(Frame) PROVE Remains(Current, queue) /\ Suffix(Current, queue)
<1> DEFINE S == {i \in 1..Len(queue) + 1 : i = Len(queue) + 1 \/ queue[i].generation = generation}
           first == FirstIndex(queue, LAMBDA i : queue[i].generation = generation)
<1>1. Len(queue) \in Nat
  OBVIOUS
<1>2. Len(queue) + 1 \in S
  BY <1>1
<1>3. PICK i \in S : \A j \in 1..i - 1 : j \notin S
  BY <1>2, FirstOf
<1>4. /\ i \in 1..Len(queue) + 1
      /\ i = Len(queue) + 1 \/ queue[i].generation = generation
      /\ \A j \in 1..i - 1 : ~ (queue[j].generation = generation)
  <2>1. \A j \in 1..i - 1 : j \in 1..Len(queue) + 1
    BY <1>1
  <2> QED
    BY <1>3, <2>1
<1>5. first \in 1..Len(queue) + 1
  BY <1>4 DEF FirstIndex
<1> QED
  BY <1>5, FromRemains DEF Current, Suffix

LEMMA DueIs == ASSUME queue \in Seq(Frame) PROVE Remains(Due, queue) /\ Suffix(Due, queue)
<1> DEFINE T(i) == i = Len(Current) \/ ~ Reached(Current[i + 1].pts)
           S == {i \in 1..Len(Current) + 1 : i = Len(Current) + 1 \/ T(i)}
           first == FirstIndex(Current, T)
<1>1. /\ Remains(Current, queue) /\ Suffix(Current, queue)
      /\ Current \in Seq(Frame) /\ Len(Current) \in Nat
  BY CurrentIs DEF Remains
<1> HIDE DEF T
<1>2. Len(Current) + 1 \in S
  BY <1>1
<1>3. PICK i \in S : \A j \in 1..i - 1 : j \notin S
  <2>1. S \in SUBSET (1..Len(Current) + 1)
    OBVIOUS
  <2> HIDE DEF S
  <2> QED
    BY <1>1, <1>2, <2>1, FirstOf
<1>4. /\ i \in 1..Len(Current) + 1
      /\ i = Len(Current) + 1 \/ T(i)
      /\ \A j \in 1..i - 1 : ~ T(j)
  <2>1. \A j \in 1..i - 1 : j \in 1..Len(Current) + 1
    BY <1>1
  <2> QED
    BY <1>3, <2>1
<1>5. first \in 1..Len(Current) + 1
  BY <1>4 DEF FirstIndex
<1>6. Due = From(Current, first)
  BY DEF Due, T
<1> HIDE DEF first
<1>7. Remains(Due, Current) /\ Suffix(Due, Current)
  BY <1>1, <1>5, <1>6, FromRemains DEF Suffix
<1> QED
  BY <1>1, <1>7, RemainsTwice, SuffixTwice

\* Room is made by dropping the first frames: all, or enough for the budget.
LEMMA RoomIs ==
  ASSUME queue \in Seq(Frame), NEW size
  PROVE  /\ Remains(RoomFor(size), queue)
         /\ \E i \in 1..Len(queue) + 1 :
              /\ RoomFor(size) = From(queue, i)
              /\ \/ i = Len(queue) + 1
                 \/ queuedBytes - Bytes(SubSeq(queue, 1, i - 1)) + size <= Budget
<1> DEFINE T(i) == /\ Len(From(queue, i)) < MaximumQueued
                   /\ queuedBytes - Bytes(SubSeq(queue, 1, i - 1)) + size <= Budget
           S == {i \in 1..Len(queue) + 1 : i = Len(queue) + 1 \/ T(i)}
           first == FirstIndex(queue, T)
<1>1. Len(queue) \in Nat
  OBVIOUS
<1>6. RoomFor(size) = From(queue, first)
  BY DEF RoomFor
<1> HIDE DEF T
<1>2. Len(queue) + 1 \in S
  BY <1>1
<1>3. PICK i \in S : \A j \in 1..i - 1 : j \notin S
  BY <1>2, FirstOf
<1>4. /\ i \in 1..Len(queue) + 1
      /\ i = Len(queue) + 1 \/ T(i)
      /\ \A j \in 1..i - 1 : ~ T(j)
  <2>1. \A j \in 1..i - 1 : j \in 1..Len(queue) + 1
    BY <1>1
  <2> QED
    BY <1>3, <2>1
<1>5. first \in 1..Len(queue) + 1 /\ (first = Len(queue) + 1 \/ T(first))
  BY <1>4 DEF FirstIndex
<1> HIDE DEF first
<1>7. first = Len(queue) + 1 \/ queuedBytes - Bytes(SubSeq(queue, 1, first - 1)) + size <= Budget
  BY <1>5 DEF T
<1> QED
  BY <1>5, <1>6, <1>7, FromRemains

-----------------------------------------------------------------------------
(* The invariant. *)

\* Types, and prefetch_frames as the bound of the queue; queued_bytes_ apart.
Typed ==
  /\ transport \in Transport /\ rate \in Rates /\ generation \in Nat
  /\ requested \in Int /\ nextDecode \in Int /\ loopIn \in Int /\ loopOut \in Int
  /\ queue \in Seq(Frame) /\ Len(queue) + (IF wpc = "decode" THEN 1 ELSE 0) <= Prefetch
  /\ wpc \in {"wait", "decode", "gone"} /\ job \in Job /\ flushes \in Nat

\* Every flush of a session that was not stopped is a seek: then both generations
\* are the number of flushes, and so is what frames and the worker's job know.
Unstopped == flushes = transport.seekGeneration
Fresh ==
  /\ transport.seekGeneration <= flushes
  /\ Unstopped =>
       /\ generation = flushes
       /\ job.generation = job.flushes
       /\ \A i \in DOMAIN queue : queue[i].flushes = flushes
       /\ hpc = "present" => selected.flushes = flushes

IInv == Typed /\ Fresh

LEMMA ClampIs == ASSUME NEW p \in Int PROVE Clamp(p) \in 0..Duration
  BY TransportAssumption DEF Clamp

LEMMA InitEstablishes == Init => IInv
<1> SUFFICES ASSUME Init PROVE IInv
  OBVIOUS
<1> USE TransportAssumption, EngineAssumption
<1>1. transport \in Transport /\ rate \in Rates /\ transport.seekGeneration = 0
  BY DEF Init, InitTransport, Transport, TransportStates
<1>2. job \in Job /\ job.generation = 0 /\ job.flushes = 0
  BY DEF Init, Job
<1>3. queue = <<>> /\ <<>> \in Seq(Frame) /\ Len(<<>>) = 0 /\ DOMAIN queue = {}
  BY DEF Init
<1>4. Typed
  BY <1>1, <1>2, <1>3 DEF Init, Typed
<1>5. Fresh
  BY <1>1, <1>2, <1>3 DEF Init, Fresh, Unstopped
<1> QED
  BY <1>4, <1>5 DEF IInv

-----------------------------------------------------------------------------
(* Steps that leave the generations and the flushes alone. *)

LEMMA QuietFresh ==
  ASSUME Typed, Fresh, UNCHANGED <<generation, flushes>>,
         transport'.seekGeneration = transport.seekGeneration,
         Remains(queue', queue),
         UNCHANGED job \/ (job'.generation = generation /\ job'.flushes = flushes),
         hpc' = "present" => \/ hpc = "present" /\ selected' = selected
                             \/ \E i \in DOMAIN queue : selected' = queue[i]
  PROVE  Fresh'
<1>1. ASSUME Unstopped'
      PROVE  /\ generation' = flushes'
             /\ job'.generation = job'.flushes
             /\ \A i \in DOMAIN queue' : queue'[i].flushes = flushes'
             /\ hpc' = "present" => selected'.flushes = flushes'
  <2>1. Unstopped
    BY <1>1 DEF Unstopped
  <2>2. /\ generation = flushes /\ job.generation = job.flushes
        /\ \A i \in DOMAIN queue : queue[i].flushes = flushes
        /\ hpc = "present" => selected.flushes = flushes
    BY <2>1 DEF Fresh
  <2> QED
    BY <2>2 DEF Remains
<1> QED
  BY <1>1 DEF Fresh

LEMMA RemainsAll == ASSUME Typed, queue' \in {queue, <<>>} PROVE Remains(queue', queue)
<1>1. queue \in Seq(Frame) /\ Len(queue) \in Nat
  BY DEF Typed
<1>2. CASE queue' = queue
  BY <1>1, <1>2 DEF Remains
<1>3. CASE queue' = <<>>
  BY <1>1, <1>3 DEF Remains
<1> QED
  BY <1>2, <1>3

\* The host's calls that do not seek.
LEMMA CallKeeps ==
  ASSUME IInv, \/ Play \/ Pause \/ Advance \/ Destroy \/ Joined \/ ScrubPlay
               \/ \E range \in LoopRanges, enabled \in BOOLEAN :
                    SetLoopRange(range[1], range[2], enabled)
               \/ \E r \in Rates : SetRate(r)
  PROVE  IInv'
<1> USE DEF IInv
<1>1. /\ UNCHANGED <<generation, flushes, wpc, job, selected>>
      /\ queue' \in {queue, <<>>}
      /\ hpc' = "present" => hpc = "present"
  BY DEF Play, Pause, Advance, Destroy, Joined, ScrubPlay, SetLoopRange, SetRate, callFrame,
     workerVars, queueVars
<1>2. transport' \in Transport /\ transport'.seekGeneration = transport.seekGeneration
      /\ rate' \in Rates /\ requested' \in Int /\ nextDecode' \in Int
      /\ loopIn' \in Int /\ loopOut' \in Int
  <2> USE DEF Typed, transportVars, cursorVars
  <2>1. transport \in Transport /\ transport.position \in Int
    BY TransportAssumption DEF Transport
  <2>2. CASE Play
    <3>1. Start(transport.rate) \in 0..Duration
      BY TransportAssumption DEF Start
    <3>2. transport' = TransportPlay(transport)
      BY <2>2 DEF Play
    <3>3. transport' \in Transport /\ transport'.seekGeneration = transport.seekGeneration
      BY <2>1, <3>1, <3>2 DEF TransportPlay, Transport, TransportStates
    <3>4. transport'.position \in Int
      BY <3>3, TransportAssumption DEF Transport
    <3> QED
      BY <2>2, <3>3, <3>4 DEF Play
  <2>3. CASE Pause
    <3>1. transport' = TransportPause(transport)
      BY <2>3 DEF Pause
    <3>2. transport' \in Transport /\ transport'.seekGeneration = transport.seekGeneration
          /\ transport'.position = transport.position
      BY <2>1, <3>1 DEF TransportPause, Transport, TransportStates
    <3> QED
      BY <2>1, <2>3, <3>2 DEF Pause
  <2>4. CASE Advance
    <3>1. transport' = Moved(transport, 1) /\ transport.position + 1 * transport.rate \in Int
      <4>1. transport.rate \in Int
        BY <2>1, TransportAssumption DEF Transport
      <4>2. transport' = Moved(transport, 1)
        BY <2>4 DEF Advance
      <4> QED
        BY <2>1, <4>1, <4>2
    <3>2. transport' \in Transport /\ transport'.seekGeneration = transport.seekGeneration
      BY <2>1, <3>1, ClampIs DEF Moved, Transport
    <3> QED
      BY <2>4, <3>2 DEF Advance
  <2>5. CASE Destroy \/ Joined \/ ScrubPlay
    BY <2>5 DEF Destroy, Joined, ScrubPlay
  <2>6. ASSUME NEW range \in LoopRanges, NEW enabled \in BOOLEAN,
               SetLoopRange(range[1], range[2], enabled)
        PROVE  /\ UNCHANGED <<transport, rate, requested, nextDecode>>
               /\ loopIn' \in Int /\ loopOut' \in Int
    BY <2>6, TransportAssumption, EngineAssumption DEF SetLoopRange
  <2>7. ASSUME NEW r \in Rates, SetRate(r)
        PROVE  /\ transport' \in Transport /\ transport'.seekGeneration = transport.seekGeneration
               /\ rate' \in Rates /\ requested' \in Int /\ nextDecode' \in Int
               /\ UNCHANGED <<loopIn, loopOut>>
    <3>1. transport' = TransportSetRate(transport, r)
      BY <2>7 DEF SetRate
    <3>2. transport' \in Transport /\ transport'.seekGeneration = transport.seekGeneration
          /\ transport'.position = transport.position
      BY <2>1, <2>7, <3>1 DEF TransportSetRate, Transport
    <3> QED
      BY <2>1, <2>7, <3>2 DEF SetRate
  <2> QED
    BY <2>2, <2>3, <2>4, <2>5, <2>6, <2>7
<1>3. Remains(queue', queue)
  BY <1>1, RemainsAll
<1>4. Len(queue') <= Len(queue) /\ queue' \in Seq(Frame) /\ Len(queue') \in Nat /\ Len(queue) \in Nat
  BY <1>3 DEF Remains, Typed
<1>5. Typed'
  BY <1>1, <1>2, <1>4, EngineAssumption DEF Typed
<1>6. Fresh'
  BY <1>1, <1>2, <1>3, QuietFresh
<1> QED
  BY <1>5, <1>6

-----------------------------------------------------------------------------
(* Flushes: one by stop, the others by seeks, which count together with them. *)
LEMMA FlushKeeps ==
  ASSUME IInv, NEW next \in Nat, Flush(next), UNCHANGED <<rate, loopIn, loopOut, wpc, job>>,
         transport' \in Transport, requested' \in Int, nextDecode' \in Int, hpc' # "present",
         \/ transport'.seekGeneration = transport.seekGeneration
         \/ transport'.seekGeneration = transport.seekGeneration + 1 /\ next = transport'.seekGeneration
  PROVE  IInv'
<1>1. /\ queue' = <<>> /\ generation' = next /\ flushes' = flushes + 1
      /\ <<>> \in Seq(Frame) /\ Len(<<>>) = 0 /\ DOMAIN queue' = {}
      /\ flushes \in Nat /\ Len(queue) \in Nat /\ Prefetch \in Nat
      /\ transport.seekGeneration \in Nat /\ transport.seekGeneration <= flushes
  BY EngineAssumption DEF Flush, IInv, Typed, Fresh, Transport
<1>2. Typed'
  BY <1>1 DEF IInv, Typed
<1>3. transport'.seekGeneration <= flushes'
  BY <1>1
<1>4. ASSUME Unstopped' PROVE Unstopped /\ generation' = flushes'
  BY <1>1, <1>4 DEF Unstopped
<1>5. Fresh'
  BY <1>1, <1>3, <1>4 DEF Fresh, IInv
<1> QED
  BY <1>2, <1>5 DEF IInv

LEMMA StopKeeps == ASSUME IInv, Stop PROVE IInv'
<1>1. transport \in Transport /\ generation + 1 \in Nat /\ Duration \in Nat
  BY TransportAssumption DEF IInv, Typed
<1>2. transport' = TransportStop(transport) /\ Flush(generation + 1) /\ hpc' = hpc /\ hpc = "idle"
      /\ UNCHANGED <<rate, loopIn, loopOut, wpc, job>> /\ requested' = 0 /\ nextDecode' = 0
  BY DEF Stop, Call, callFrame, workerVars
<1>3. transport' \in Transport /\ transport'.seekGeneration = transport.seekGeneration
  <2>1. transport' = TransportStop(transport) /\ 0 \in 0..Duration
    BY <1>1, <1>2
  <2> QED
    BY <1>1, <2>1 DEF TransportStop, Transport, TransportStates
<1> QED
  BY <1>1, <1>2, <1>3, FlushKeeps

LEMMA SeekKeeps ==
  ASSUME IInv, NEW p \in Int, NEW next, next # "present", SeekTo(p, next) PROVE IInv'
<1>1. transport \in Transport /\ Clamp(p) \in 0..Duration /\ transport.seekGeneration \in Nat
  BY ClampIs DEF IInv, Typed, Transport
<1>2. /\ transport' = TransportSeek(transport, p) /\ Flush(transport'.seekGeneration)
      /\ hpc' = next /\ requested' = transport'.position /\ nextDecode' = requested'
      /\ UNCHANGED <<rate, loopIn, loopOut, wpc, job>>
  BY DEF SeekTo, callFrame, workerVars
<1>3. /\ transport' \in Transport
      /\ transport'.seekGeneration = transport.seekGeneration + 1
  <2>1. transport' = TransportSeek(transport, p)
    BY <1>2
  <2>2. PICK state \in TransportStates :
          transport' = [transport EXCEPT !.state = state, !.position = Clamp(p),
                                         !.seekGeneration = transport.seekGeneration + 1]
    BY <2>1 DEF TransportSeek, TransportStates
  <2>3. PICK n \in Nat : n = transport.seekGeneration + 1
    BY <1>1
  <2>4. PICK q \in 0..Duration : q = Clamp(p)
    BY <1>1
  <2>5. transport' = [transport EXCEPT !.state = state, !.position = q, !.seekGeneration = n]
    BY <2>2, <2>3, <2>4
  <2>6. transport' \in Transport /\ transport'.seekGeneration = n
    BY <1>1, <2>5 DEF Transport
  <2> QED
    BY <2>3, <2>6
<1>4. transport'.position \in Int /\ transport'.seekGeneration \in Nat
  BY <1>3, TransportAssumption DEF Transport
<1> QED
  BY <1>2, <1>3, <1>4, FlushKeeps

-----------------------------------------------------------------------------
(* tick. *)
LEMMA SelectKeeps == ASSUME IInv, Select PROVE IInv'
<1> USE DEF IInv
<1>1. /\ UNCHANGED <<transport, rate, loopIn, loopOut, generation, nextDecode, flushes, wpc, job>>
      /\ requested' = transport.position
      /\ queue' = Due \/ (Due # <<>> /\ queue' = Tail(Due))
      /\ hpc' = "present" => Due # <<>> /\ selected' = Head(Due)
  BY DEF Select, tickFrame, transportVars, workerVars
<1>2. Remains(Due, queue) /\ Due \in Seq(Frame) /\ Len(queue) \in Nat
  BY DueIs DEF Typed, Remains
<1>3. Due # <<>> => /\ Remains(Tail(Due), Due) /\ Head(Due) = Due[1] /\ 1 \in DOMAIN Due
  <2>1. ASSUME Due # <<>>
        PROVE  /\ Tail(Due) \in Seq(Frame) /\ Len(Tail(Due)) <= Len(Due)
               /\ Head(Due) = Due[1] /\ 1 \in DOMAIN Due
               /\ \A i \in DOMAIN Tail(Due) : i + 1 \in DOMAIN Due /\ Tail(Due)[i] = Due[i + 1]
    BY <1>2, <2>1
  <2> QED
    BY <2>1 DEF Remains
<1>4. Remains(queue', queue)
  BY <1>1, <1>2, <1>3, RemainsTwice
<1>5. hpc' = "present" => \E i \in DOMAIN queue : selected' = queue[i]
  BY <1>1, <1>2, <1>3 DEF Remains
<1>6. Fresh'
  BY <1>1, <1>4, <1>5, QuietFresh
<1>7. queue' \in Seq(Frame) /\ Len(queue') <= Len(queue) /\ Len(queue') \in Nat
      /\ transport.position \in Int
  BY <1>4, TransportAssumption DEF Remains, Typed, Transport
<1>8. Typed'
  BY <1>1, <1>2, <1>7, EngineAssumption DEF Typed
<1> QED
  BY <1>6, <1>8

LEMMA TickKeeps == ASSUME IInv, Tick PROVE IInv'
<1> USE DEF IInv
<1>1. CASE TickBegin \/ Present
  <2>1. /\ UNCHANGED <<transport, rate, loopIn, loopOut, generation, requested, nextDecode, flushes,
                       wpc, job, queue, selected>>
        /\ hpc' # "present"
    BY <1>1 DEF TickBegin, Present, tickFrame, transportVars, workerVars, cursorVars, queueVars
  <2>2. Remains(queue', queue)
    BY <2>1, RemainsAll
  <2>3. Fresh'
    BY <2>1, <2>2, QuietFresh
  <2> QED
    BY <2>1, <2>3 DEF Typed
<1>2. CASE LoopSeek
  BY <1>2, SeekKeeps DEF LoopSeek, Typed
<1>3. CASE LoopPlay
  <2>1. /\ UNCHANGED <<rate, loopIn, loopOut, generation, requested, nextDecode, flushes,
                       wpc, job, queue, selected>>
        /\ hpc' # "present" /\ transport' = TransportPlay(transport)
    BY <1>3 DEF LoopPlay, tickFrame, workerVars, cursorVars, queueVars
  <2>2. Start(transport.rate) \in 0..Duration
    BY TransportAssumption DEF Start
  <2>3. transport' \in Transport /\ transport'.seekGeneration = transport.seekGeneration
    BY <2>1, <2>2 DEF TransportPlay, Transport, TransportStates, Typed
  <2>4. Remains(queue', queue)
    BY <2>1, RemainsAll
  <2>5. Fresh'
    BY <2>1, <2>3, <2>4, QuietFresh
  <2> QED
    BY <2>1, <2>3, <2>5 DEF Typed
<1>4. CASE Select
  BY <1>4, SelectKeeps
<1> QED
  BY <1>1, <1>2, <1>3, <1>4 DEF Tick

-----------------------------------------------------------------------------
(* The worker. *)
LEMMA WorkerKeeps == ASSUME IInv, Worker PROVE IInv'
<1> USE DEF IInv
<1>1. UNCHANGED <<transport, rate, loopIn, loopOut, generation, requested, flushes, hpc, selected>>
  BY DEF Worker, WorkerExit, TakeJob, DecodeFails, DecodeReturns, workerFrame, transportVars
<1>2. CASE WorkerExit \/ DecodeFails
  <2>1. UNCHANGED <<queue, job, nextDecode>> /\ wpc' \in {"gone", "wait"}
    BY <1>2 DEF WorkerExit, DecodeFails, queueVars
  <2>2. Remains(queue', queue) /\ Len(queue) \in Nat
    BY <2>1, RemainsAll DEF Typed
  <2>3. Fresh'
    BY <1>1, <2>1, <2>2, QuietFresh
  <2>4. Typed'
    BY <1>1, <2>1, <2>2, EngineAssumption DEF Typed
  <2> QED
    BY <2>3, <2>4
<1>3. CASE TakeJob
  <2>1. /\ UNCHANGED queue /\ wpc' = "decode" /\ Len(queue) < Prefetch
        /\ job' = [pts |-> Ahead, generation |-> generation, flushes |-> flushes]
        /\ nextDecode' = Following(Ahead)
    BY <1>3 DEF TakeJob, queueVars
  <2>2. Ahead \in 0..Duration
    BY ClampIs DEF Ahead, Typed
  <2>3. job' \in Job
    BY <2>1, <2>2 DEF Job, Typed
  <2>4. nextDecode' \in Int
    BY <2>1, <2>2, TransportAssumption DEF Following, Typed
  <2>5. Remains(queue', queue) /\ Len(queue) \in Nat
    BY <2>1, RemainsAll DEF Typed
  <2>6. job'.generation = generation /\ job'.flushes = flushes
    BY <2>1
  <2>7. Fresh'
    BY <1>1, <2>5, <2>6, QuietFresh
  <2>8. Typed'
    BY <1>1, <2>1, <2>3, <2>4, <2>5, EngineAssumption DEF Typed
  <2> QED
    BY <2>7, <2>8
<1>4. ASSUME NEW size \in Sizes, DecodeReturns(size) PROVE IInv'
  <2> DEFINE new == [pts |-> job.pts, generation |-> job.generation, flushes |-> job.flushes,
                     size |-> size]
  <2>1. /\ wpc = "decode" /\ wpc' = "wait" /\ UNCHANGED <<nextDecode, job>>
        /\ \/ job.generation = generation /\ queue' = Append(RoomFor(size), new)
           \/ UNCHANGED queue
    BY <1>4 DEF DecodeReturns, queueVars
  <2>2. new \in Frame /\ new.flushes = job.flushes
    BY DEF Frame, Job, Typed
  <2>3. Len(queue) \in Nat /\ Len(queue) + 1 <= Prefetch
    BY <2>1 DEF Typed
  <2>4. CASE UNCHANGED queue
    <3>1. Remains(queue', queue)
      BY <2>4, RemainsAll
    <3>2. Fresh'
      BY <1>1, <2>1, <3>1, QuietFresh
    <3>3. Typed'
      BY <1>1, <2>1, <2>3, <2>4, EngineAssumption DEF Typed
    <3> QED
      BY <3>2, <3>3
  <2>5. CASE job.generation = generation /\ queue' = Append(RoomFor(size), new)
    <3> HIDE DEF new
    <3>1. Remains(RoomFor(size), queue) /\ RoomFor(size) \in Seq(Frame)
          /\ Len(RoomFor(size)) <= Len(queue) /\ Len(RoomFor(size)) \in Nat
      BY RoomIs DEF Remains, Typed
    <3>2. /\ queue' \in Seq(Frame) /\ Len(queue') = Len(RoomFor(size)) + 1
          /\ \A i \in DOMAIN queue' : \/ queue'[i] = new
                                      \/ i \in DOMAIN RoomFor(size) /\ queue'[i] = RoomFor(size)[i]
      BY <2>2, <2>5, <3>1
    <3>3. Typed'
      BY <1>1, <2>1, <2>3, <3>1, <3>2, EngineAssumption DEF Typed
    <3>4. ASSUME Unstopped' PROVE \A i \in DOMAIN queue' : queue'[i].flushes = flushes
      <4>1. Unstopped
        BY <1>1, <3>4 DEF Unstopped
      <4>2. new.flushes = flushes /\ \A i \in DOMAIN queue : queue[i].flushes = flushes
        BY <2>2, <2>5, <4>1 DEF Fresh
      <4>3. \A i \in DOMAIN RoomFor(size) : RoomFor(size)[i].flushes = flushes
        BY <3>1, <4>2 DEF Remains
      <4> QED
        BY <3>2, <4>2, <4>3
    <3>5. Fresh'
      BY <1>1, <2>1, <3>4 DEF Fresh, Unstopped
    <3> QED
      BY <3>3, <3>5
  <2> QED
    BY <2>1, <2>4, <2>5
<1> QED
  BY <1>2, <1>3, <1>4 DEF Worker

-----------------------------------------------------------------------------
LEMMA StepPreserves == IInv /\ [Next]_vars => IInv'
<1> SUFFICES ASSUME IInv, [Next]_vars PROVE IInv'
  OBVIOUS
<1>1. ASSUME NEW p \in SeekTargets, Seek(p) \/ Scrub(p) PROVE IInv'
  BY <1>1, SeekKeeps, EngineAssumption DEF Seek, Scrub
<1>2. ASSUME NEW n \in {-1, 1}, StepFrames(n) PROVE IInv'
  <2>1. transport.position + n \in Int
    BY TransportAssumption DEF IInv, Typed, Transport
  <2> QED
    BY <1>2, <2>1, SeekKeeps DEF StepFrames
<1>3. CASE HostCall
  BY <1>1, <1>2, <1>3, CallKeeps, StopKeeps DEF HostCall
<1>4. CASE ScrubPlay \/ Joined \/ Advance
  BY <1>4, CallKeeps
<1>5. CASE Tick
  BY <1>5, TickKeeps
<1>6. CASE Worker
  BY <1>6, WorkerKeeps
<1>7. CASE UNCHANGED vars
  BY <1>7 DEF vars, transportVars, cursorVars, queueVars, workerVars, IInv, Typed, Fresh, Unstopped
<1> QED
  BY <1>3, <1>4, <1>5, <1>6, <1>7 DEF Next

\* Types, the queue's bound, and that flushes and generations go together until a stop.
THEOREM EngineInvariant == Spec => []IInv
<1>1. Init => IInv
  BY InitEstablishes
<1>2. IInv /\ [Next]_vars => IInv'
  BY StepPreserves
<1> QED
  BY <1>1, <1>2, PTL DEF Spec

\* A seek invalidates all frames from before it: what a session that was not stopped
\* presents was asked of the decoder after its last seek, whatever the queue does.
THEOREM SeeksInvalidate == Spec => []PresentsOnlyAfterSeek
<1>1. IInv => PresentsOnlyAfterSeek
  BY DEF IInv, Fresh, Unstopped, PresentsOnlyAfterSeek
<1> QED
  BY <1>1, EngineInvariant, PTL

-----------------------------------------------------------------------------
(* The bytes of a queue. *)

\* What Bytes adds up, frame by frame.
Sums(g, s) == g = [n \in 0..Len(s) |-> IF n = 0 THEN 0 ELSE g[n - 1] + s[n].size]

LEMMA SizesAre ==
  ASSUME NEW s \in Seq(Frame), NEW k \in 1..Len(s) PROVE s[k].size \in Nat
<1>1. s[k] \in Frame
  OBVIOUS
<1> QED
  BY <1>1, EngineAssumption DEF Frame

LEMMA SumsExist == ASSUME NEW s \in Seq(Frame) PROVE \E g : Sums(g, s)
<1> DEFINE Upto(g, m) == g = [n \in 0..m |-> IF n = 0 THEN 0 ELSE g[n - 1] + s[n].size]
<1> DEFINE Bad == {m \in Nat : ~ \E g : Upto(g, m)}
<1>1. Len(s) \in Nat
  OBVIOUS
<1>2. SUFFICES ASSUME Bad # {} PROVE FALSE
  BY <1>1 DEF Sums
<1>3. PICK m \in Bad : \A k \in Bad : m <= k
  <2>1. Bad \in SUBSET Nat
    OBVIOUS
  <2> HIDE DEF Bad
  <2> QED
    BY <1>2, <2>1, LeastNumber
<1>4. CASE m = 0
  <2>1. Upto([n \in 0..0 |-> 0], 0)
    OBVIOUS
  <2> QED
    BY <1>4, <2>1
<1>5. CASE m # 0
  <2>1. m \in Nat \ {0} /\ m - 1 \in Nat /\ m - 1 \notin Bad
    <3>1. m \in Nat /\ \A k \in Bad : m <= k
      BY <1>3
    <3> HIDE DEF Bad
    <3> QED
      BY <1>5, <3>1
  <2>2. PICK g : Upto(g, m - 1)
    BY <2>1
  <2> DEFINE h == [n \in 0..m |-> IF n = m THEN g[m - 1] + s[m].size ELSE g[n]]
  <2>3. \A n \in 0..m - 1 : g[n] = IF n = 0 THEN 0 ELSE g[n - 1] + s[n].size
    BY <2>2
  <2>4. ASSUME NEW n \in 0..m PROVE h[n] = IF n = 0 THEN 0 ELSE h[n - 1] + s[n].size
    <3>1. CASE n = m
      BY <2>1, <3>1
    <3>2. CASE n # m
      <4>1. n \in 0..m - 1
        BY <2>1, <3>2
      <4>2. h[n] = g[n]
        BY <3>2
      <4>3. n # 0 => n - 1 \in 0..m /\ n - 1 # m /\ h[n - 1] = g[n - 1]
        BY <2>1, <4>1
      <4> QED
        BY <2>3, <4>1, <4>2, <4>3
    <3> QED
      BY <3>1, <3>2
  <2>5. h = [n \in 0..m |-> h[n]]
    OBVIOUS
  <2> HIDE DEF h
  <2>6. Upto(h, m)
    BY <2>4, <2>5
  <2> QED
    BY <2>6
<1> QED
  BY <1>4, <1>5

LEMMA BytesAre ==
  ASSUME NEW s \in Seq(Frame)
  PROVE  \E g : Sums(g, s) /\ Bytes(s) = g[Len(s)]
<1>1. \E g : Sums(g, s)
  BY SumsExist
<1>2. Bytes(s) = (CHOOSE g : Sums(g, s))[Len(s)]
  BY DEF Bytes, Sums
<1> QED
  BY <1>1, <1>2

\* What is added up frame by frame to the last frame is the bytes.
LEMMA BytesAddUp ==
  ASSUME NEW s \in Seq(Frame), NEW h,
         h[0] = 0, \A n \in 1..Len(s) : h[n] = h[n - 1] + s[n].size
  PROVE  Bytes(s) = h[Len(s)]
<1>1. PICK g : Sums(g, s) /\ Bytes(s) = g[Len(s)]
  BY BytesAre
<1> DEFINE L == Len(s)
<1>2. L \in Nat
  OBVIOUS
<1>3. \A n \in 0..L : g[n] = IF n = 0 THEN 0 ELSE g[n - 1] + s[n].size
  BY <1>1 DEF Sums
<1> HIDE DEF L
<1> DEFINE Bad == {n \in 0..L : g[n] # h[n]}
<1>4. Bad = {}
  <2>1. SUFFICES ASSUME Bad # {} PROVE FALSE
    OBVIOUS
  <2>2. PICK n \in Bad : \A k \in Bad : n <= k
    <3>1. Bad \in SUBSET Nat
      BY <1>2
    <3> HIDE DEF Bad
    <3> QED
      BY <2>1, <3>1, LeastNumber
  <2>3. n # 0
    BY <1>2, <1>3
  <2>4. n \in 1..L /\ n - 1 \in 0..L /\ n - 1 \notin Bad
    BY <1>2, <2>2, <2>3
  <2>5. g[n - 1] = h[n - 1]
    BY <2>4
  <2> QED
    BY <1>3, <2>3, <2>4, <2>5 DEF L
<1> QED
  BY <1>1, <1>2, <1>4 DEF L

LEMMA BytesAreNumbers ==
  ASSUME NEW s \in Seq(Frame), NEW g, Sums(g, s), NEW n \in 0..Len(s) PROVE g[n] \in Nat
<1> DEFINE L == Len(s)
<1>1. L \in Nat /\ \A k \in 1..L : s[k].size \in Nat
  BY SizesAre
<1>2. \A k \in 0..L : g[k] = IF k = 0 THEN 0 ELSE g[k - 1] + s[k].size
  BY DEF Sums
<1> HIDE DEF L
<1> DEFINE Bad == {k \in 0..L : g[k] \notin Nat}
<1>3. SUFFICES ASSUME Bad # {} PROVE FALSE
  BY DEF L
<1>4. PICK k \in Bad : \A j \in Bad : k <= j
  <2>1. Bad \in SUBSET Nat
    BY <1>1
  <2> HIDE DEF Bad
  <2> QED
    BY <1>3, <2>1, LeastNumber
<1>5. k # 0
  BY <1>1, <1>2
<1>6. k \in 1..L /\ k - 1 \in 0..L /\ k - 1 \notin Bad
  BY <1>1, <1>4, <1>5
<1>7. g[k - 1] \in Nat /\ s[k].size \in Nat
  BY <1>1, <1>6
<1>8. g[k] = g[k - 1] + s[k].size
  BY <1>2, <1>5, <1>6
<1>9. g[k] \notin Nat
  BY <1>4
<1> HIDE DEF Bad
<1> QED
  BY <1>7, <1>8, <1>9

LEMMA NoBytes == Bytes(<<>>) = 0 /\ \A f \in Frame : Bytes(<<f>>) = f.size
<1>1. <<>> \in Seq(Frame) /\ Len(<<>>) = 0
  OBVIOUS
<1>2. Bytes(<<>>) = 0
  <2> DEFINE h == [n \in 0..0 |-> 0]
  <2>1. h[0] = 0
    OBVIOUS
  <2> HIDE DEF h
  <2>2. \A n \in 1..Len(<<>>) : h[n] = h[n - 1] + <<>>[n].size
    BY <1>1
  <2> QED
    BY <1>1, <2>1, <2>2, BytesAddUp
<1>3. ASSUME NEW f \in Frame PROVE Bytes(<<f>>) = f.size
  <2> DEFINE h == [n \in 0..1 |-> IF n = 0 THEN 0 ELSE f.size]
  <2>0. f.size \in Nat
    BY EngineAssumption DEF Frame
  <2>1. <<f>> \in Seq(Frame) /\ Len(<<f>>) = 1 /\ <<f>>[1] = f /\ f.size \in Nat
    BY <2>0
  <2>2. h[0] = 0 /\ h[1] = f.size /\ h[1] = h[1 - 1] + f.size
    BY <2>1
  <2> HIDE DEF h
  <2>3. \A n \in 1..Len(<<f>>) : h[n] = h[n - 1] + <<f>>[n].size
    BY <2>1, <2>2
  <2> QED
    BY <2>1, <2>2, <2>3, BytesAddUp
<1> QED
  BY <1>2, <1>3

\* A queue is its first frames and the rest.
LEMMA BytesSplit ==
  ASSUME NEW s \in Seq(Frame), NEW i \in 1..Len(s) + 1
  PROVE  /\ Bytes(SubSeq(s, 1, i - 1)) \in Nat /\ Bytes(From(s, i)) \in Nat
         /\ Bytes(s) = Bytes(SubSeq(s, 1, i - 1)) + Bytes(From(s, i))
<1>1. PICK g : Sums(g, s) /\ Bytes(s) = g[Len(s)]
  BY BytesAre
<1> DEFINE L == Len(s)
<1> DEFINE a == SubSeq(s, 1, i - 1)
<1> DEFINE b == From(s, i)
<1>2. L \in Nat /\ i \in 1..L + 1
  OBVIOUS
<1>3. \A n \in 0..L : g[n] = IF n = 0 THEN 0 ELSE g[n - 1] + s[n].size
  BY <1>1 DEF Sums
<1>4. \A n \in 0..L : g[n] \in Nat
  BY <1>1, BytesAreNumbers
<1>5. /\ a \in Seq(Frame) /\ Len(a) = i - 1 /\ \A n \in 1..i - 1 : a[n] = s[n]
  BY <1>2
<1>6. /\ b \in Seq(Frame) /\ Len(b) = L + 1 - i /\ \A n \in 1..L + 1 - i : b[n] = s[n + i - 1]
  BY <1>2, FromRemains DEF Remains
<1> HIDE DEF a, b, L
<1>7. Bytes(a) = g[i - 1]
  <2>1. g[0] = 0 /\ \A n \in 1..Len(a) : g[n] = g[n - 1] + a[n].size
    BY <1>2, <1>3, <1>5
  <2> QED
    BY <1>5, <2>1, BytesAddUp
<1>8. Bytes(b) = g[L] - g[i - 1]
  <2> DEFINE h == [n \in 0..L + 1 - i |-> g[n + i - 1] - g[i - 1]]
  <2>1. i - 1 \in 0..L /\ g[i - 1] \in Nat
    BY <1>2, <1>4
  <2>2. 0 + i - 1 = i - 1 /\ 0 \in 0..L + 1 - i /\ h[0] = 0
    BY <1>2, <2>1
  <2>3. ASSUME NEW n \in 1..L + 1 - i PROVE h[n] = h[n - 1] + b[n].size
    <3>1. /\ n \in 0..L + 1 - i /\ n - 1 \in 0..L + 1 - i
          /\ n + i - 1 \in 0..L /\ n + i - 1 # 0 /\ (n - 1) + i - 1 \in 0..L
          /\ (n + i - 1) - 1 = (n - 1) + i - 1
      BY <1>2
    <3>2. /\ h[n] = g[n + i - 1] - g[i - 1] /\ h[n - 1] = g[(n - 1) + i - 1] - g[i - 1]
      BY <3>1
    <3>3. g[n + i - 1] = g[(n - 1) + i - 1] + s[n + i - 1].size
      BY <1>3, <3>1
    <3>4. b[n].size = s[n + i - 1].size
      BY <1>6
    <3>5. s[n + i - 1].size \in Nat
      <4>1. n + i - 1 \in 1..L
        BY <3>1
      <4>2. s[n + i - 1] \in Frame
        BY <4>1 DEF L
      <4> QED
        BY <4>2, EngineAssumption DEF Frame
    <3>6. g[n + i - 1] \in Nat /\ g[(n - 1) + i - 1] \in Nat
      BY <1>4, <3>1
    <3> HIDE DEF h
    <3> QED
      BY <2>1, <3>2, <3>3, <3>4, <3>5, <3>6
  <2>4. h[L + 1 - i] = g[L] - g[i - 1]
    <3>1. L + 1 - i \in 0..L + 1 - i /\ (L + 1 - i) + i - 1 = L
      BY <1>2
    <3> QED
      BY <3>1
  <2> HIDE DEF h
  <2> QED
    BY <1>6, <2>2, <2>3, <2>4, BytesAddUp
<1>9. g[i - 1] \in Nat /\ g[L] \in Nat /\ g[i - 1] <= g[L]
  <2> DEFINE Bad == {n \in i - 1..L : g[n] < g[i - 1]}
  <2>1. i - 1 \in 0..L /\ L \in 0..L /\ L \in i - 1..L
    BY <1>2
  <2>2. Bad = {}
    <3>1. SUFFICES ASSUME Bad # {} PROVE FALSE
      OBVIOUS
    <3>2. PICK n \in Bad : \A k \in Bad : n <= k
      <4>1. Bad \in SUBSET Nat
        BY <1>2
      <4> HIDE DEF Bad
      <4> QED
        BY <3>1, <4>1, LeastNumber
    <3>3. n # i - 1
      BY <1>4, <2>1
    <3>4. n \in 1..L /\ n \in 0..L /\ n - 1 \in i - 1..L /\ n - 1 \in 0..L /\ n - 1 \notin Bad
      BY <1>2, <3>2, <3>3
    <3>5. s[n].size \in Nat
      <4>1. s[n] \in Frame
        BY <3>4 DEF L
      <4> QED
        BY <4>1, EngineAssumption DEF Frame
    <3>6. g[n] = g[n - 1] + s[n].size /\ g[n - 1] \in Nat /\ g[i - 1] \in Nat
      BY <1>3, <1>4, <2>1, <3>4
    <3> QED
      BY <3>4, <3>5, <3>6
  <2> QED
    BY <1>4, <2>1, <2>2
<1> QED
  BY <1>1, <1>7, <1>8, <1>9 DEF a, b, L

LEMMA BytesAppend ==
  ASSUME NEW s \in Seq(Frame), NEW f \in Frame
  PROVE  Bytes(Append(s, f)) = Bytes(s) + f.size /\ Bytes(s) \in Nat
<1> DEFINE t == Append(s, f)
<1>1. Len(s) \in Nat /\ t \in Seq(Frame) /\ Len(t) = Len(s) + 1
  OBVIOUS
<1>2. SubSeq(t, 1, (Len(s) + 1) - 1) = s
  OBVIOUS
<1>3. From(t, Len(s) + 1) = <<f>>
  <2> DEFINE last == SubSeq(t, Len(s) + 1, Len(t))
  <2>1. last \in Seq(Frame) /\ Len(last) = 1 /\ last[1] = f
    BY <1>1
  <2> HIDE DEF last
  <2>2. last = <<f>>
    BY <2>1
  <2> QED
    BY <2>2 DEF From, last
<1>4. Len(s) + 1 \in 1..Len(t) + 1
  BY <1>1
<1> HIDE DEF t
<1> QED
  BY <1>1, <1>2, <1>3, <1>4, BytesSplit, NoBytes DEF t

-----------------------------------------------------------------------------
(* The count of the queue: where frames enter and where they leave.       *)

\* Dropping the first frames takes their bytes off.
LEMMA DropCounts ==
  ASSUME NEW s \in Seq(Frame), NEW i \in 1..Len(s) + 1, NEW rest, rest = From(s, i)
  PROVE  /\ rest \in Seq(Frame) /\ Len(rest) = Len(s) + 1 - i
         /\ SubSeq(s, 1, Len(s) - Len(rest)) = SubSeq(s, 1, i - 1)
         /\ Bytes(s) - Bytes(SubSeq(s, 1, Len(s) - Len(rest))) = Bytes(rest)
         /\ Bytes(s) \in Nat /\ Bytes(rest) \in Nat /\ Bytes(rest) <= Bytes(s)
<1>1. rest \in Seq(Frame) /\ Len(rest) = Len(s) + 1 - i /\ Len(s) \in Nat
  BY FromRemains DEF Remains
<1>2. Len(s) - Len(rest) = i - 1
  BY <1>1
<1>3. /\ Bytes(SubSeq(s, 1, i - 1)) \in Nat /\ Bytes(rest) \in Nat
      /\ Bytes(s) = Bytes(SubSeq(s, 1, i - 1)) + Bytes(rest)
  BY BytesSplit
<1> QED
  BY <1>1, <1>2, <1>3

LEMMA EmptyCounts == ASSUME NEW s \in Seq(Frame), Len(s) = 0 PROVE Bytes(s) = 0
<1>1. s = <<>>
  OBVIOUS
<1> QED
  BY <1>1, NoBytes

LEMMA SelectCounts == ASSUME IInv, BytesBounded, Select PROVE BytesBounded'
<1>1. /\ queue' = Due \/ (Due # <<>> /\ queue' = Tail(Due))
      /\ queuedBytes' = queuedBytes - Bytes(SubSeq(queue, 1, Len(queue) - Len(queue')))
  BY DEF Select
<1>2. queue \in Seq(Frame) /\ Suffix(Due, queue) /\ Due \in Seq(Frame)
  BY DueIs DEF IInv, Typed, Remains
<1>3. Suffix(queue', queue)
  BY <1>1, <1>2, TailIsSuffix, SuffixTwice
<1>4. PICK i \in 1..Len(queue) + 1 : queue' = From(queue, i)
  BY <1>3 DEF Suffix
<1>5. /\ queue' \in Seq(Frame) /\ Len(queue') = Len(queue) + 1 - i /\ Len(queue) \in Nat
      /\ Bytes(queue) - Bytes(SubSeq(queue, 1, Len(queue) - Len(queue'))) = Bytes(queue')
      /\ Bytes(queue) \in Nat /\ Bytes(queue') \in Nat /\ Bytes(queue') <= Bytes(queue)
  <2>1. Len(queue) \in Nat
    BY <1>2
  <2> QED
    BY <1>2, <1>4, <2>1, DropCounts, Zenon
<1>6. queuedBytes' = Bytes(queue')
  BY <1>1, <1>5 DEF BytesBounded
<1>7. CASE queuedBytes <= Budget
  BY <1>5, <1>6, <1>7, EngineAssumption DEF BytesBounded
<1>8. CASE Len(queue) = 1
  <2>1. Len(queue') = 0 \/ Len(queue') = 1
    BY <1>5, <1>8
  <2>2. Len(queue') = 0 => queuedBytes' <= Budget
    <3>1. Len(queue') = 0 => Bytes(queue') = 0
      BY <1>5, EmptyCounts, Zenon
    <3> QED
      BY <1>6, <3>1, EngineAssumption
  <2> QED
    BY <1>6, <2>1, <2>2 DEF BytesBounded
<1> QED
  BY <1>7, <1>8 DEF BytesBounded

LEMMA LengthGrows ==
  ASSUME NEW s \in Seq(Frame), NEW f \in Frame PROVE Len(Append(s, f)) = Len(s) + 1
  OBVIOUS

LEMMA DecodeCounts ==
  ASSUME IInv, BytesBounded, NEW size \in Sizes, DecodeReturns(size) PROVE BytesBounded'
<1> DEFINE new == [pts |-> job.pts, generation |-> job.generation, flushes |-> job.flushes,
                   size |-> size]
           kept == RoomFor(size)
<1>1. \/ /\ queue' = Append(kept, new)
         /\ queuedBytes' = queuedBytes + size
              - Bytes(SubSeq(queue, 1, Len(queue) - Len(kept)))
      \/ UNCHANGED queueVars
  BY DEF DecodeReturns
<1>2. new \in Frame /\ new.size = size /\ size \in Nat
  BY EngineAssumption DEF Frame, Job, IInv, Typed
<1>3. queue \in Seq(Frame)
  BY DEF IInv, Typed
<1>4. PICK i \in 1..Len(queue) + 1 :
        /\ kept = From(queue, i)
        /\ \/ i = Len(queue) + 1
           \/ queuedBytes - Bytes(SubSeq(queue, 1, i - 1)) + size <= Budget
  BY <1>3, RoomIs
<1> HIDE DEF new, kept
<1>5. /\ kept \in Seq(Frame) /\ Len(kept) = Len(queue) + 1 - i /\ Len(queue) \in Nat
      /\ SubSeq(queue, 1, Len(queue) - Len(kept)) = SubSeq(queue, 1, i - 1)
      /\ Bytes(queue) - Bytes(SubSeq(queue, 1, Len(queue) - Len(kept))) = Bytes(kept)
      /\ Bytes(queue) \in Nat /\ Bytes(kept) \in Nat
  <2>1. Len(queue) \in Nat
    BY <1>3
  <2> QED
    BY <1>3, <1>4, <2>1, DropCounts, Zenon
<1>6. CASE UNCHANGED queueVars
  BY <1>6 DEF BytesBounded, queueVars
<1>7. CASE /\ queue' = Append(kept, new)
           /\ queuedBytes' = queuedBytes + size
                - Bytes(SubSeq(queue, 1, Len(queue) - Len(kept)))
  <2> DEFINE gone == Bytes(SubSeq(queue, 1, Len(queue) - Len(kept)))
  <2>1. gone \in Nat
    <3>1. Bytes(SubSeq(queue, 1, i - 1)) \in Nat
      BY <1>3, BytesSplit, Zenon
    <3> QED
      BY <1>5, <3>1
  <2>2. Bytes(queue') = Bytes(kept) + size /\ Len(queue') = Len(kept) + 1
    <3>1. Bytes(queue') = Bytes(kept) + size
      BY <1>2, <1>5, <1>7, BytesAppend, Zenon
    <3>2. Len(queue') = Len(kept) + 1
      BY <1>2, <1>5, <1>7, LengthGrows, Zenon
    <3> QED
      BY <3>1, <3>2
  <2>3. /\ queuedBytes = Bytes(queue) /\ Bytes(queue) - gone = Bytes(kept)
        /\ queuedBytes' = queuedBytes + size - gone
    BY <1>5, <1>7 DEF BytesBounded
  <2>4. i = Len(queue) + 1 \/ queuedBytes - gone + size <= Budget
    BY <1>4, <1>5
  <2> HIDE DEF gone
  <2>5. queuedBytes' = Bytes(queue')
    BY <1>2, <1>5, <2>1, <2>2, <2>3
  <2>6. i = Len(queue) + 1 => Len(queue') = 1
    BY <1>5, <2>2
  <2>7. queuedBytes - gone + size <= Budget => queuedBytes' <= Budget
    BY <1>2, <1>5, <2>1, <2>3
  <2> QED
    BY <2>4, <2>5, <2>6, <2>7 DEF BytesBounded
<1> QED
  BY <1>1, <1>6, <1>7

\* Every other step leaves queue and count alone or empties both.
LEMMA OthersCount ==
  ASSUME IInv, BytesBounded, UNCHANGED queueVars \/ (queue' = <<>> /\ queuedBytes' = 0)
  PROVE  BytesBounded'
<1>1. CASE UNCHANGED queueVars
  BY <1>1 DEF BytesBounded, queueVars
<1>2. CASE queue' = <<>> /\ queuedBytes' = 0
  BY <1>2, NoBytes, EngineAssumption DEF BytesBounded
<1> QED
  BY <1>1, <1>2

LEMMA CountPreserved == IInv /\ BytesBounded /\ [Next]_vars => BytesBounded'
<1> SUFFICES ASSUME IInv, BytesBounded, [Next]_vars PROVE BytesBounded'
  OBVIOUS
<1> DEFINE Rest == UNCHANGED queueVars \/ (queue' = <<>> /\ queuedBytes' = 0)
<1>1. CASE HostCall
  <2>1. (Play \/ Pause \/ Destroy) => Rest
    BY DEF Play, Pause, Destroy
  <2>2. Stop => Rest
    BY DEF Stop, Flush
  <2>3. ASSUME NEW p, NEW next, SeekTo(p, next) PROVE Rest
    BY <2>3 DEF SeekTo, Flush
  <2>4. ASSUME NEW p \in SeekTargets, Seek(p) \/ Scrub(p) PROVE Rest
    BY <2>3, <2>4 DEF Seek, Scrub
  <2>5. ASSUME NEW n \in {-1, 1}, StepFrames(n) PROVE Rest
    BY <2>3, <2>5 DEF StepFrames
  <2>6. ASSUME NEW range \in LoopRanges, NEW enabled \in BOOLEAN,
               SetLoopRange(range[1], range[2], enabled)
        PROVE  Rest
    BY <2>6 DEF SetLoopRange
  <2>7. ASSUME NEW r \in Rates, SetRate(r) PROVE Rest
    BY <2>7 DEF SetRate
  <2>8. Rest
    BY <1>1, <2>1, <2>2, <2>4, <2>5, <2>6, <2>7 DEF HostCall
  <2> QED
    BY <2>8, OthersCount
<1>2. CASE ScrubPlay \/ Joined \/ Advance \/ TickBegin \/ LoopPlay \/ Present
  <2>1. Rest
    BY <1>2 DEF ScrubPlay, Joined, Advance, TickBegin, LoopPlay, Present
  <2> QED
    BY <2>1, OthersCount
<1>3. CASE LoopSeek
  <2>1. Rest
    BY <1>3 DEF LoopSeek, SeekTo, Flush
  <2> QED
    BY <2>1, OthersCount
<1>4. CASE WorkerExit \/ TakeJob \/ DecodeFails
  <2>1. Rest
    BY <1>4 DEF WorkerExit, TakeJob, DecodeFails
  <2> QED
    BY <2>1, OthersCount
<1>5. CASE UNCHANGED vars
  <2>1. Rest
    BY <1>5 DEF vars
  <2> QED
    BY <2>1, OthersCount
<1> QED
  BY <1>1, <1>2, <1>3, <1>4, <1>5, SelectCounts, DecodeCounts DEF Next, Tick, Worker

\* queued_bytes_ is the bytes of the queue, whatever enters, is shown, dropped or
\* flushed; they exceed the budget only by a single frame that alone is too large.
THEOREM QueueIsCounted == Spec => []BytesBounded
<1>1. Init => BytesBounded
  BY NoBytes, EngineAssumption DEF Init, BytesBounded
<1>2. IInv /\ BytesBounded /\ [Next]_vars => BytesBounded'
  BY CountPreserved
<1> QED
  BY <1>1, <1>2, EngineInvariant, PTL DEF Spec
=============================================================================
