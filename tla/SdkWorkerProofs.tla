--------------------------- MODULE SdkWorkerProofs ---------------------------
(***************************************************************************)
(* For every number of threads, units and calls, and for careless hosts as *)
(* well: the host is told once how the work ended, and after destroy only  *)
(* a cancel that was under way still reaches it.                           *)
(***************************************************************************)
EXTENDS SdkWorker, TLAPS

\* Where calls return to.
BackPlaces == {"idle", "startUnlock", "endCompletion", "endProgress", "exit"}

\* Inside of a call, which returns to the top of the stack.
InCall == {"start", "startUnlock", "cancel", "cancelMark", "complete", "copyCallback",
           "callCompletion", "inCompletion", "endCompletion", "destroyErase",
           "destroyLock", "dispose", "disposeOperation", "join"}

Destroying == {"dispose", "disposeOperation", "join"}
Completing == {"complete", "copyCallback", "callCompletion"}

Typed ==
  /\ pc \in [Threads -> Places] /\ stack \in [Threads -> Seq(BackPlaces)]
  /\ passing \in [Threads -> Results \cup {None}]
  /\ completions \in Seq(Results)
  /\ registered \in BOOLEAN /\ active \in BOOLEAN /\ started \in BOOLEAN
  /\ completed \in BOOLEAN /\ destroyed \in BOOLEAN

\* A call has somewhere to return to, and so have the calls below it.
Returns ==
  \A t \in Threads :
    /\ pc[t] \in InCall => Len(stack[t]) > 0
    /\ \A i \in DOMAIN stack[t] : stack[t][i] \in InCall => i < Len(stack[t])

\* The thread of worker_ runs as long as run() does: it never returns to a host.
WorkerRuns ==
  /\ pc[Worker] = "idle" <=> thread # "running"
  /\ \A i \in DOMAIN stack[Worker] : stack[Worker][i] # "idle"

\* api_mutex has the one owner that will unlock it.
LockHeld ==
  \A t \in Threads :
    /\ pc[t] \in Destroying \cup {"startUnlock"} =>
         /\ apiMutex = t
         /\ \A i \in DOMAIN stack[t] : stack[t][i] # "startUnlock"
    /\ \A i \in DOMAIN stack[t] : stack[t][i] = "startUnlock" =>
         /\ apiMutex = t
         /\ \A j \in DOMAIN stack[t] : stack[t][j] = "startUnlock" => i = j

\* A handle being destroyed takes no start, and once it is destroyed nothing runs.
NothingStarts ==
  /\ \A t \in Threads : pc[t] \in Destroying => ~ active
  /\ destroyed => ~ active /\ thread # "running"

\* Whose result is on its way: a failing start's only while it holds api_mutex.
ResultIsOf ==
  \A t \in Threads : pc[t] \in Completing =>
    \/ passing[t] = "cancelled"
    \/ passing[t] = "completed" /\ t = Worker
    \/ passing[t] = "failed" /\ apiMutex = t /\ ~ destroyed

\* The thread that set completed_ is the only one on its way to the callback.
OneOnItsWay ==
  /\ \A t \in Threads : pc[t] \in {"copyCallback", "callCompletion"} =>
       /\ completed /\ completions = <<>>
       /\ \A u \in Threads : pc[u] \in {"copyCallback", "callCompletion"} => u = t
  /\ completions # <<>> => completed
  /\ Len(completions) <= 1

IInv == Typed /\ Returns /\ WorkerRuns /\ LockHeld /\ NothingStarts /\ ResultIsOf
        /\ OneOnItsWay

-----------------------------------------------------------------------------
(* Calls and returns. *)

\* A call puts its return on top of the stack.
LEMMA Pushed ==
  ASSUME Typed, NEW t \in Threads, NEW where, NEW back \in BackPlaces,
         CallThen(t, where, back)
  PROVE  /\ pc' = [pc EXCEPT ![t] = where]
         /\ stack' \in [Threads -> Seq(BackPlaces)]
         /\ \A u \in Threads : u # t => stack'[u] = stack[u]
         /\ Len(stack'[t]) = Len(stack[t]) + 1
         /\ \A i \in DOMAIN stack'[t] :
              stack'[t][i] = IF i = 1 THEN back ELSE stack[t][i - 1]
         /\ \A i \in DOMAIN stack'[t] : i # 1 => i - 1 \in DOMAIN stack[t]
<1>1. stack \in [Threads -> Seq(BackPlaces)] /\ stack[t] \in Seq(BackPlaces)
  BY DEF Typed
<1>2. <<back>> \o stack[t] \in Seq(BackPlaces)
  BY <1>1
<1>3. stack'[t] = <<back>> \o stack[t] /\ \A u \in Threads : u # t => stack'[u] = stack[u]
  BY <1>1 DEF CallThen
<1>4. /\ Len(stack'[t]) = Len(stack[t]) + 1
      /\ \A i \in DOMAIN stack'[t] :
           stack'[t][i] = IF i = 1 THEN back ELSE stack[t][i - 1]
      /\ \A i \in DOMAIN stack'[t] : i # 1 => i - 1 \in DOMAIN stack[t]
  BY <1>1, <1>3
<1> QED
  BY <1>1, <1>2, <1>3, <1>4 DEF CallThen

\* A return takes it off again.
LEMMA Popped ==
  ASSUME Typed, NEW t \in Threads, Len(stack[t]) > 0,
         stack' = [stack EXCEPT ![t] = Tail(@)]
  PROVE  /\ Head(stack[t]) = stack[t][1] /\ Head(stack[t]) \in BackPlaces
         /\ 1 \in DOMAIN stack[t]
         /\ stack' \in [Threads -> Seq(BackPlaces)]
         /\ \A u \in Threads : u # t => stack'[u] = stack[u]
         /\ Len(stack'[t]) = Len(stack[t]) - 1
         /\ \A i \in DOMAIN stack'[t] :
              i + 1 \in DOMAIN stack[t] /\ stack'[t][i] = stack[t][i + 1]
<1>1. stack \in [Threads -> Seq(BackPlaces)] /\ stack[t] \in Seq(BackPlaces)
  BY DEF Typed
<1>2. /\ Head(stack[t]) = stack[t][1] /\ Head(stack[t]) \in BackPlaces
      /\ 1 \in DOMAIN stack[t] /\ Tail(stack[t]) \in Seq(BackPlaces)
      /\ Len(Tail(stack[t])) = Len(stack[t]) - 1
  BY <1>1
<1>3. stack'[t] = Tail(stack[t]) /\ \A u \in Threads : u # t => stack'[u] = stack[u]
  BY <1>1
<1>4. \A i \in DOMAIN stack'[t] :
        i + 1 \in DOMAIN stack[t] /\ stack'[t][i] = stack[t][i + 1]
  BY <1>1, <1>3
<1> QED
  BY <1>1, <1>2, <1>3, <1>4

\* What a return does to the facts about places and stacks.
LEMMA ReturnKeeps ==
  ASSUME Typed, Returns, NEW t \in Threads, pc[t] \in InCall, Return(t)
  PROVE  /\ pc' \in [Threads -> Places] /\ stack' \in [Threads -> Seq(BackPlaces)]
         /\ pc' = [pc EXCEPT ![t] = stack[t][1]]
         /\ 1 \in DOMAIN stack[t] /\ pc'[t] \in BackPlaces
         /\ \A u \in Threads : u # t => stack'[u] = stack[u]
         /\ \A i \in DOMAIN stack'[t] :
              i + 1 \in DOMAIN stack[t] /\ stack'[t][i] = stack[t][i + 1]
         /\ Returns'
<1>1. Len(stack[t]) > 0
  BY DEF Returns
<1>2. /\ Head(stack[t]) = stack[t][1] /\ Head(stack[t]) \in BackPlaces
      /\ 1 \in DOMAIN stack[t]
      /\ stack' \in [Threads -> Seq(BackPlaces)]
      /\ \A u \in Threads : u # t => stack'[u] = stack[u]
      /\ Len(stack'[t]) = Len(stack[t]) - 1
      /\ \A i \in DOMAIN stack'[t] :
           i + 1 \in DOMAIN stack[t] /\ stack'[t][i] = stack[t][i + 1]
  BY <1>1, Popped DEF Return
<1>3. pc' = [pc EXCEPT ![t] = stack[t][1]] /\ stack[t][1] \in BackPlaces
  BY <1>2 DEF Return
<1>4. pc' \in [Threads -> Places] /\ pc'[t] \in BackPlaces
  BY <1>3 DEF Typed, BackPlaces, Places
<1>5. stack[t] \in Seq(BackPlaces) /\ stack'[t] \in Seq(BackPlaces)
  BY <1>2 DEF Typed
<1>6. ASSUME NEW u \in Threads, u # t
      PROVE  /\ pc'[u] \in InCall => Len(stack'[u]) > 0
             /\ \A i \in DOMAIN stack'[u] : stack'[u][i] \in InCall => i < Len(stack'[u])
  BY <1>2, <1>3, <1>6 DEF Returns, Typed
<1>7. pc'[t] \in InCall => Len(stack'[t]) > 0
  BY <1>2, <1>3, <1>5 DEF Returns, Typed
<1>8. \A i \in DOMAIN stack'[t] : stack'[t][i] \in InCall => i < Len(stack'[t])
  BY <1>2, <1>5 DEF Returns
<1>9. Returns'
  BY <1>6, <1>7, <1>8 DEF Returns
<1> QED
  BY <1>2, <1>3, <1>4, <1>9

\* What a call does to them.
LEMMA CallKeeps ==
  ASSUME Typed, Returns, NEW t \in Threads, NEW where \in Places, NEW back \in BackPlaces,
         pc[t] \in InCall \/ back \notin InCall, CallThen(t, where, back)
  PROVE  /\ pc' \in [Threads -> Places] /\ stack' \in [Threads -> Seq(BackPlaces)]
         /\ pc' = [pc EXCEPT ![t] = where]
         /\ \A u \in Threads : u # t => stack'[u] = stack[u]
         /\ \A i \in DOMAIN stack'[t] :
              stack'[t][i] = IF i = 1 THEN back ELSE stack[t][i - 1]
         /\ \A i \in DOMAIN stack'[t] : i # 1 => i - 1 \in DOMAIN stack[t]
         /\ Returns'
<1>1. /\ pc' = [pc EXCEPT ![t] = where]
      /\ stack' \in [Threads -> Seq(BackPlaces)]
      /\ \A u \in Threads : u # t => stack'[u] = stack[u]
      /\ Len(stack'[t]) = Len(stack[t]) + 1
      /\ \A i \in DOMAIN stack'[t] :
           stack'[t][i] = IF i = 1 THEN back ELSE stack[t][i - 1]
      /\ \A i \in DOMAIN stack'[t] : i # 1 => i - 1 \in DOMAIN stack[t]
  BY Pushed
<1>2. pc' \in [Threads -> Places]
  BY <1>1 DEF Typed
<1>3. stack[t] \in Seq(BackPlaces) /\ stack'[t] \in Seq(BackPlaces)
  BY <1>1 DEF Typed
<1>4. ASSUME NEW u \in Threads, u # t
      PROVE  /\ pc'[u] \in InCall => Len(stack'[u]) > 0
             /\ \A i \in DOMAIN stack'[u] : stack'[u][i] \in InCall => i < Len(stack'[u])
  BY <1>1, <1>4 DEF Returns, Typed
<1>5. Len(stack'[t]) > 0
  BY <1>1, <1>3
<1>6. \A i \in DOMAIN stack'[t] : stack'[t][i] \in InCall => i < Len(stack'[t])
  BY <1>1, <1>3 DEF Returns
<1>7. Returns'
  BY <1>4, <1>5, <1>6 DEF Returns
<1> QED
  BY <1>1, <1>2, <1>7

\* And a step to another place.
LEMMA GotoKeeps ==
  ASSUME Typed, Returns, NEW t \in Threads, NEW where \in Places,
         pc[t] \in InCall \/ where \notin InCall, Goto(t, where)
  PROVE  pc' \in [Threads -> Places] /\ pc' = [pc EXCEPT ![t] = where] /\ stack' = stack
         /\ Returns'
  BY DEF Goto, Typed, Returns

-----------------------------------------------------------------------------
(* Steps that only move a thread: nothing the invariant names changes with *)
(* them but its place and its stack.                                       *)
watched == <<active, apiMutex, started, completed, thread, passing, completions, destroyed>>

\* Places a thread can come to without more.
Plain == Places \ (Destroying \cup Completing \cup {"idle", "startUnlock"})

LEMMA QuietKeeps ==
  ASSUME IInv, NEW t \in Threads, NEW where, UNCHANGED watched, registered' \in BOOLEAN,
         pc' = [pc EXCEPT ![t] = where], where \notin Destroying \cup Completing,
         pc' \in [Threads -> Places], stack' \in [Threads -> Seq(BackPlaces)]
  PROVE  Typed' /\ NothingStarts' /\ ResultIsOf' /\ OneOnItsWay'
<1>1. Typed'
  BY DEF IInv, Typed, watched
<1>2. \A u \in Threads : u # t => pc'[u] = pc[u]
  BY DEF IInv, Typed
<1>3. pc'[t] \notin Destroying \cup Completing
  BY DEF IInv, Typed
<1>4. NothingStarts'
  BY <1>2, <1>3 DEF IInv, NothingStarts, watched
<1>5. ResultIsOf'
  BY <1>2, <1>3 DEF IInv, ResultIsOf, watched
<1>6. OneOnItsWay'
  BY <1>2, <1>3 DEF IInv, OneOnItsWay, watched, Completing
<1> QED
  BY <1>1, <1>4, <1>5, <1>6

LEMMA QuietReturn ==
  ASSUME IInv, NEW t \in Threads, UNCHANGED watched, registered' \in BOOLEAN,
         pc[t] \in InCall \ {"startUnlock", "join"}, Return(t)
  PROVE  IInv'
<1>1. /\ pc' \in [Threads -> Places] /\ stack' \in [Threads -> Seq(BackPlaces)]
      /\ pc' = [pc EXCEPT ![t] = stack[t][1]]
      /\ 1 \in DOMAIN stack[t] /\ pc'[t] \in BackPlaces
      /\ \A u \in Threads : u # t => stack'[u] = stack[u]
      /\ \A i \in DOMAIN stack'[t] :
           i + 1 \in DOMAIN stack[t] /\ stack'[t][i] = stack[t][i + 1]
      /\ Returns'
  BY ReturnKeeps DEF IInv
<1>2. pc'[t] = stack[t][1] /\ \A u \in Threads : u # t => pc'[u] = pc[u]
  BY <1>1 DEF IInv, Typed
<1>3. stack[t][1] \notin Destroying \cup Completing
  BY <1>1, <1>2 DEF BackPlaces, Destroying, Completing
<1>4. Typed' /\ NothingStarts' /\ ResultIsOf' /\ OneOnItsWay'
  BY <1>1, <1>3, QuietKeeps
<1>5. WorkerRuns'
  <2>1. CASE t = Worker
    BY <1>1, <1>2, <2>1 DEF IInv, WorkerRuns, InCall, watched
  <2>2. CASE t # Worker
    BY <1>1, <1>2, <2>2 DEF IInv, WorkerRuns, watched, Threads
  <2> QED
    BY <2>1, <2>2
<1>6. LockHeld'
  <2>1. stack[t] \in Seq(BackPlaces) /\ stack'[t] \in Seq(BackPlaces)
    BY <1>1 DEF IInv, Typed
  <2>2. \A i \in DOMAIN stack'[t] : i \in Int /\ i + 1 # 1
    BY <2>1
  <2>3. pc'[t] \in Destroying \cup {"startUnlock"} =>
          /\ apiMutex = t
          /\ \A i \in DOMAIN stack'[t] : stack'[t][i] # "startUnlock"
    BY <1>1, <1>2, <1>3, <2>2 DEF IInv, LockHeld
  <2>4. \A i \in DOMAIN stack'[t] : stack'[t][i] = "startUnlock" =>
          /\ apiMutex = t
          /\ \A j \in DOMAIN stack'[t] : stack'[t][j] = "startUnlock" => i = j
    BY <1>1, <2>1, <2>2 DEF IInv, LockHeld
  <2> QED
    BY <1>1, <1>2, <2>3, <2>4 DEF IInv, LockHeld, watched
<1> QED
  BY <1>1, <1>4, <1>5, <1>6 DEF IInv

LEMMA QuietGoto ==
  ASSUME IInv, NEW t \in Threads, NEW where \in Plain,
         UNCHANGED watched, registered' \in BOOLEAN,
         pc[t] # "idle", pc[t] \in InCall \/ where \notin InCall, Goto(t, where)
  PROVE  IInv'
<1>1. where \in Places /\ where \notin Destroying \cup Completing \cup {"idle", "startUnlock"}
  BY DEF Plain
<1>2. pc' \in [Threads -> Places] /\ pc' = [pc EXCEPT ![t] = where] /\ stack' = stack
      /\ Returns'
  BY <1>1, GotoKeeps DEF IInv
<1>3. pc'[t] = where /\ \A u \in Threads : u # t => pc'[u] = pc[u]
  BY <1>2 DEF IInv, Typed
<1>4. Typed' /\ NothingStarts' /\ ResultIsOf' /\ OneOnItsWay'
  BY <1>1, <1>2, QuietKeeps DEF IInv, Typed
<1>5. WorkerRuns'
  BY <1>1, <1>2, <1>3 DEF IInv, WorkerRuns, watched, Threads
<1>6. LockHeld'
  BY <1>1, <1>2, <1>3 DEF IInv, LockHeld, watched
<1> QED
  BY <1>2, <1>4, <1>5, <1>6 DEF IInv

\* The stack of a thread that calls from outside of start holds no new unlock.
LEMMA CallKeepsLock ==
  ASSUME IInv, NEW t \in Threads, NEW where \in Places \ (Destroying \cup {"startUnlock"}),
         NEW back \in BackPlaces \ {"startUnlock"},
         pc[t] \in InCall \/ back \notin InCall, CallThen(t, where, back),
         apiMutex' = apiMutex, thread' = thread,
         t = Worker => pc[t] # "idle" /\ where # "idle" /\ back # "idle"
  PROVE  LockHeld' /\ WorkerRuns'
<1>1. /\ pc' = [pc EXCEPT ![t] = where]
      /\ \A u \in Threads : u # t => stack'[u] = stack[u]
      /\ \A i \in DOMAIN stack'[t] :
           stack'[t][i] = IF i = 1 THEN back ELSE stack[t][i - 1]
      /\ \A i \in DOMAIN stack'[t] : i # 1 => i - 1 \in DOMAIN stack[t]
      /\ stack' \in [Threads -> Seq(BackPlaces)]
  BY CallKeeps DEF IInv
<1>2. pc'[t] = where /\ \A u \in Threads : u # t => pc'[u] = pc[u]
  BY <1>1 DEF IInv, Typed
<1>3. stack[t] \in Seq(BackPlaces) /\ stack'[t] \in Seq(BackPlaces)
  BY <1>1 DEF IInv, Typed
<1>4. \A i \in DOMAIN stack'[t] : stack'[t][i] = "startUnlock" =>
        /\ apiMutex = t
        /\ \A j \in DOMAIN stack'[t] : stack'[t][j] = "startUnlock" => i = j
  BY <1>1, <1>3 DEF IInv, LockHeld
<1>5. LockHeld'
  BY <1>1, <1>2, <1>4 DEF IInv, LockHeld
<1>6. WorkerRuns'
  <2>1. CASE t = Worker
    BY <1>1, <1>2, <2>1 DEF IInv, WorkerRuns
  <2>2. CASE t # Worker
    BY <1>1, <1>2, <2>2 DEF IInv, WorkerRuns, Threads
  <2> QED
    BY <2>1, <2>2
<1> QED
  BY <1>5, <1>6

LEMMA QuietCall ==
  ASSUME IInv, NEW t \in Threads, NEW where \in Plain,
         NEW back \in BackPlaces \ {"startUnlock"}, UNCHANGED watched, registered' \in BOOLEAN,
         pc[t] \in InCall \/ back \notin InCall, CallThen(t, where, back),
         t = Worker => pc[t] # "idle" /\ back # "idle"
  PROVE  IInv'
<1>1. where \in Places \ (Destroying \cup {"startUnlock"}) /\ where # "idle"
      /\ where \notin Destroying \cup Completing
  BY DEF Plain
<1>2. LockHeld' /\ WorkerRuns'
  BY <1>1, CallKeepsLock DEF watched
<1>3. /\ pc' \in [Threads -> Places] /\ stack' \in [Threads -> Seq(BackPlaces)]
      /\ pc' = [pc EXCEPT ![t] = where] /\ Returns'
  BY <1>1, CallKeeps DEF IInv
<1>4. Typed' /\ NothingStarts' /\ ResultIsOf' /\ OneOnItsWay'
  BY <1>1, <1>3, QuietKeeps
<1> QED
  BY <1>2, <1>3, <1>4 DEF IInv


-----------------------------------------------------------------------------
(* The steps that start, complete, destroy and end.                        *)

\* Leaving the stacks and api_mutex alone, a step to a place outside of the lock.
LEMMA LockKept ==
  ASSUME IInv, NEW t \in Threads, NEW where \in Places \ (Destroying \cup {"startUnlock"}),
         pc' = [pc EXCEPT ![t] = where], stack' = stack, apiMutex' = apiMutex
  PROVE  LockHeld'
  BY DEF IInv, Typed, LockHeld

LEMMA StartKeeps == ASSUME IInv, NEW t \in Threads, Start(t) PROVE IInv'
<1> USE DEF IInv
<1>1. pc[t] = "start" /\ apiMutex = None
  BY DEF Start
<1>2. pc[t] \in InCall \ {"startUnlock", "join"}
  BY <1>1 DEF InCall
<1>3. CASE Return(t) /\ UNCHANGED <<apiMutex, started, thread, passing>>
  BY <1>2, <1>3, QuietReturn DEF Start, watched, history, Typed
<1>4. CASE /\ active /\ ~ started /\ started' = TRUE /\ thread' = "running"
           /\ pc' = [pc EXCEPT ![t] = Head(stack[t]), ![Worker] = "loop"]
           /\ stack' = [stack EXCEPT ![t] = Tail(@)]
           /\ UNCHANGED <<apiMutex, passing>>
  <2>1. Worker \in Threads /\ Len(stack[t]) > 0
    BY <1>2 DEF Threads, Returns
  <2>2. /\ Head(stack[t]) = stack[t][1] /\ stack[t][1] \in BackPlaces
        /\ 1 \in DOMAIN stack[t]
        /\ stack' \in [Threads -> Seq(BackPlaces)]
        /\ \A u \in Threads : u # t => stack'[u] = stack[u]
        /\ Len(stack'[t]) = Len(stack[t]) - 1
        /\ \A i \in DOMAIN stack'[t] :
             i + 1 \in DOMAIN stack[t] /\ stack'[t][i] = stack[t][i + 1]
    BY <1>4, <2>1, Popped
  <2>3. /\ pc' \in [Threads -> Places] /\ pc'[Worker] = "loop"
        /\ t # Worker => pc'[t] = stack[t][1]
        /\ \A u \in Threads : u # t /\ u # Worker => pc'[u] = pc[u]
    BY <1>4, <2>1, <2>2 DEF Typed, BackPlaces, Places
  <2>4. stack[t] \in Seq(BackPlaces) /\ stack'[t] \in Seq(BackPlaces)
    BY <2>2 DEF Typed
  <2>5. stack[t][1] \notin Destroying \cup Completing
    BY <2>2 DEF BackPlaces, Destroying, Completing
  <2>6. Typed'
    BY <1>4, <2>2, <2>3 DEF Typed, Start, history
  <2>7. Returns'
    <3>1. ASSUME NEW u \in Threads, u # t
          PROVE  /\ pc'[u] \in InCall => Len(stack'[u]) > 0
                 /\ \A i \in DOMAIN stack'[u] : stack'[u][i] \in InCall => i < Len(stack'[u])
      BY <2>2, <2>3, <3>1 DEF Returns, InCall
    <3>2. pc'[t] \in InCall => Len(stack'[t]) > 0
      BY <2>2, <2>3, <2>4 DEF Returns, InCall
    <3>3. \A i \in DOMAIN stack'[t] : stack'[t][i] \in InCall => i < Len(stack'[t])
      BY <2>2, <2>4 DEF Returns
    <3> QED
      BY <3>1, <3>2, <3>3 DEF Returns
  <2>8. WorkerRuns'
    BY <1>4, <2>1, <2>2, <2>3 DEF WorkerRuns
  <2>9. \A u \in Threads : \A i \in DOMAIN stack[u] : stack[u][i] # "startUnlock"
    BY <1>1, SdkAssumption DEF LockHeld
  <2>10. LockHeld'
    <3>1. \A u \in Threads : \A i \in DOMAIN stack'[u] : stack'[u][i] # "startUnlock"
      BY <2>2, <2>9
    <3>2. \A u \in Threads : pc'[u] \notin Destroying \cup {"startUnlock"}
      BY <1>1, <2>2, <2>3, <2>5, <2>9, SdkAssumption DEF LockHeld, Destroying
    <3> QED
      BY <3>1, <3>2 DEF LockHeld
  <2>11. NothingStarts' /\ ResultIsOf' /\ OneOnItsWay'
    <3>1. UNCHANGED <<active, completed, completions, destroyed>> /\ ~ destroyed
      BY <1>4 DEF Start, history, NothingStarts
    <3>2. \A u \in Threads : pc'[u] \in Destroying \cup Completing => pc'[u] = pc[u]
      BY <2>3, <2>5 DEF Destroying, Completing
    <3>3. NothingStarts'
      BY <3>1, <3>2 DEF NothingStarts
    <3>4. ResultIsOf'
      BY <1>4, <3>1, <3>2 DEF ResultIsOf
    <3>5. OneOnItsWay'
      BY <3>1, <3>2 DEF OneOnItsWay, Completing
    <3> QED
      BY <3>3, <3>4, <3>5
  <2> QED
    BY <2>6, <2>7, <2>8, <2>10, <2>11
<1>5. CASE /\ active /\ ~ started /\ started' = TRUE /\ apiMutex' = t
           /\ passing' = [passing EXCEPT ![t] = "failed"]
           /\ CallThen(t, "complete", "startUnlock") /\ UNCHANGED thread
  <2>1. /\ pc' \in [Threads -> Places] /\ stack' \in [Threads -> Seq(BackPlaces)]
        /\ pc' = [pc EXCEPT ![t] = "complete"]
        /\ \A u \in Threads : u # t => stack'[u] = stack[u]
        /\ \A i \in DOMAIN stack'[t] :
             stack'[t][i] = IF i = 1 THEN "startUnlock" ELSE stack[t][i - 1]
        /\ \A i \in DOMAIN stack'[t] : i # 1 => i - 1 \in DOMAIN stack[t]
        /\ Returns'
    BY <1>2, <1>5, CallKeeps DEF Places, BackPlaces
  <2>2. pc'[t] = "complete" /\ \A u \in Threads : u # t => pc'[u] = pc[u]
    BY <2>1 DEF Typed
  <2>3. Typed'
    BY <1>5, <2>1 DEF Typed, Start, history, Results
  <2>4. WorkerRuns'
    <3>1. CASE t = Worker
      BY <1>1, <1>5, <2>1, <2>2, <3>1 DEF WorkerRuns
    <3>2. CASE t # Worker
      BY <1>5, <2>1, <2>2, <3>2 DEF WorkerRuns, Threads
    <3> QED
      BY <3>1, <3>2
  <2>5. /\ \A u \in Threads : \A i \in DOMAIN stack[u] : stack[u][i] # "startUnlock"
        /\ \A u \in Threads : pc[u] \notin Destroying \cup {"startUnlock"}
    BY <1>1, SdkAssumption DEF LockHeld
  <2>6. LockHeld'
    <3>1. \A i \in DOMAIN stack'[t] : stack'[t][i] = "startUnlock" => i = 1
      BY <2>1, <2>5
    <3>2. \A u \in Threads : pc'[u] \notin Destroying \cup {"startUnlock"}
      BY <2>2, <2>5 DEF Destroying
    <3>3. \A u \in Threads : u # t =>
            \A i \in DOMAIN stack'[u] : stack'[u][i] # "startUnlock"
      BY <2>1, <2>5
    <3>4. apiMutex' = t
      BY <1>5
    <3> QED
      BY <3>1, <3>2, <3>3, <3>4 DEF LockHeld
  <2>7. UNCHANGED <<active, completed, completions, destroyed>> /\ ~ destroyed
    BY <1>5 DEF Start, history, NothingStarts
  <2>8. NothingStarts'
    BY <1>5, <2>2, <2>7 DEF NothingStarts, Destroying
  <2>9. ResultIsOf'
    <3>1. passing'[t] = "failed" /\ \A u \in Threads : u # t => passing'[u] = passing[u]
      BY <1>5 DEF Typed
    <3>2. \A u \in Threads : apiMutex # u
      BY <1>1, SdkAssumption
    <3> QED
      BY <1>5, <2>2, <2>7, <3>1, <3>2 DEF ResultIsOf
  <2>10. OneOnItsWay'
    BY <2>2, <2>7 DEF OneOnItsWay
  <2> QED
    BY <2>1, <2>3, <2>4, <2>6, <2>8, <2>9, <2>10
<1> QED
  BY <1>3, <1>4, <1>5 DEF Start

\* Unlocking api_mutex at the end of a call that held it.
LEMMA UnlockKeeps ==
  ASSUME IInv, NEW t \in Threads, pc[t] \in {"startUnlock", "join"}, Return(t),
         apiMutex' = None,
         UNCHANGED <<registered, active, started, completed, thread, passing, completions>>,
         destroyed' \in BOOLEAN, destroyed' => destroyed \/ (pc[t] = "join" /\ thread # "running")
  PROVE  IInv'
<1> USE DEF IInv
<1>1. pc[t] \in InCall /\ pc[t] \in Destroying \cup {"startUnlock"}
  BY DEF InCall, Destroying
<1>2. /\ pc' \in [Threads -> Places] /\ stack' \in [Threads -> Seq(BackPlaces)]
      /\ pc' = [pc EXCEPT ![t] = stack[t][1]]
      /\ 1 \in DOMAIN stack[t] /\ pc'[t] \in BackPlaces
      /\ \A u \in Threads : u # t => stack'[u] = stack[u]
      /\ \A i \in DOMAIN stack'[t] :
           i + 1 \in DOMAIN stack[t] /\ stack'[t][i] = stack[t][i + 1]
      /\ Returns'
  BY <1>1, ReturnKeeps
<1>3. pc'[t] = stack[t][1] /\ \A u \in Threads : u # t => pc'[u] = pc[u]
  BY <1>2 DEF Typed
<1>4. pc'[t] \notin Destroying \cup Completing
  BY <1>2 DEF BackPlaces, Destroying, Completing
<1>5. apiMutex = t /\ \A i \in DOMAIN stack[t] : stack[t][i] # "startUnlock"
  BY <1>1 DEF LockHeld
<1>6. \A u \in Threads : u # t =>
        /\ pc[u] \notin Destroying \cup {"startUnlock"}
        /\ \A i \in DOMAIN stack[u] : stack[u][i] # "startUnlock"
  BY <1>5 DEF LockHeld
<1>7. \A u \in Threads : u # t /\ pc[u] \in Completing => passing[u] # "failed"
  BY <1>5 DEF ResultIsOf
<1>8. Typed'
  BY <1>2 DEF Typed
<1>9. WorkerRuns'
  <2>1. CASE t = Worker
    BY <1>2, <1>3, <2>1 DEF WorkerRuns
  <2>2. CASE t # Worker
    BY <1>2, <1>3, <2>2 DEF WorkerRuns, Threads
  <2> QED
    BY <2>1, <2>2
<1>10. LockHeld'
  BY <1>2, <1>3, <1>4, <1>5, <1>6 DEF LockHeld
<1>11. NothingStarts'
  BY <1>3, <1>4 DEF NothingStarts, Destroying
<1>12. ResultIsOf'
  BY <1>3, <1>4, <1>7 DEF ResultIsOf
<1>13. OneOnItsWay'
  BY <1>3, <1>4 DEF OneOnItsWay, Completing
<1> QED
  BY <1>2, <1>8, <1>9, <1>10, <1>11, <1>12, <1>13

LEMMA JoinKeeps == ASSUME IInv, NEW t \in Threads, Join(t) PROVE IInv'
<1>1. CASE thread \in {"none", "finished"} /\ apiMutex' = None /\ destroyed' = TRUE /\ Return(t)
  BY <1>1, UnlockKeeps DEF Join, joinFrame
<1>2. CASE Goto(t, "terminated") /\ UNCHANGED <<apiMutex, destroyed>>
  BY <1>2, QuietGoto DEF Join, joinFrame, watched, Plain, Places, Destroying, Completing,
     InCall, IInv, Typed
<1> QED
  BY <1>1, <1>2 DEF Join

LEMMA CancelMarkKeeps == ASSUME IInv, NEW t \in Threads, CancelMark(t) PROVE IInv'
<1> USE DEF IInv
<1>1. pc[t] = "cancelMark" /\ pc[t] \in InCall \ {"startUnlock", "join"}
  BY DEF CancelMark, InCall
<1>2. UNCHANGED <<registered, active, apiMutex, started, completed, thread, completions, destroyed>>
  BY DEF CancelMark, history
<1>3. CASE Return(t) /\ UNCHANGED passing
  BY <1>1, <1>2, <1>3, QuietReturn DEF watched, Typed
<1>4. CASE Goto(t, "complete") /\ passing' = [passing EXCEPT ![t] = "cancelled"]
  <2>1. pc' \in [Threads -> Places] /\ pc' = [pc EXCEPT ![t] = "complete"] /\ stack' = stack
        /\ Returns'
    BY <1>1, <1>4, GotoKeeps DEF Places
  <2>2. pc'[t] = "complete" /\ \A u \in Threads : u # t => pc'[u] = pc[u]
    BY <2>1 DEF Typed
  <2>3. passing'[t] = "cancelled" /\ \A u \in Threads : u # t => passing'[u] = passing[u]
    BY <1>4 DEF Typed
  <2>4. Typed'
    BY <1>2, <1>4, <2>1 DEF Typed, Results
  <2>5. WorkerRuns'
    BY <1>1, <1>2, <2>1, <2>2 DEF WorkerRuns, Threads
  <2>6. LockHeld'
    BY <1>2, <2>1, LockKept DEF Places, Destroying
  <2>7. NothingStarts'
    BY <1>2, <2>2 DEF NothingStarts, Destroying
  <2>8. ResultIsOf'
    BY <1>2, <2>2, <2>3 DEF ResultIsOf
  <2>9. OneOnItsWay'
    BY <1>2, <2>2 DEF OneOnItsWay
  <2> QED
    BY <2>1, <2>4, <2>5, <2>6, <2>7, <2>8, <2>9
<1> QED
  BY <1>3, <1>4 DEF CancelMark

\* A step of a thread that is on its way with a result.
LEMMA OnTheWay ==
  ASSUME IInv, NEW t \in Threads, NEW where \in Completing \cup {"inCompletion"},
         pc[t] \in Completing, Goto(t, where),
         UNCHANGED <<registered, active, apiMutex, started, thread, passing, destroyed>>,
         completed' \in BOOLEAN, completions' \in Seq(Results)
  PROVE  /\ Typed' /\ Returns' /\ WorkerRuns' /\ LockHeld' /\ NothingStarts' /\ ResultIsOf'
         /\ pc'[t] = where /\ \A u \in Threads : u # t => pc'[u] = pc[u]
<1> USE DEF IInv
<1>1. /\ pc[t] \in InCall /\ pc[t] # "idle"
      /\ where \in Places \ (Destroying \cup {"startUnlock", "idle"})
  BY DEF Completing, InCall, Places, Destroying
<1>2. pc' \in [Threads -> Places] /\ pc' = [pc EXCEPT ![t] = where] /\ stack' = stack
      /\ Returns'
  BY <1>1, GotoKeeps
<1>3. pc'[t] = where /\ \A u \in Threads : u # t => pc'[u] = pc[u]
  BY <1>2 DEF Typed
<1>4. Typed'
  BY <1>2 DEF Typed
<1>5. WorkerRuns'
  BY <1>1, <1>2, <1>3 DEF WorkerRuns, Threads
<1>6. LockHeld'
  BY <1>1, <1>2, LockKept
<1>7. NothingStarts'
  BY <1>1, <1>3 DEF NothingStarts
<1>8. ResultIsOf'
  BY <1>3 DEF ResultIsOf
<1> QED
  BY <1>2, <1>3, <1>4, <1>5, <1>6, <1>7, <1>8

LEMMA CompleteKeeps == ASSUME IInv, NEW t \in Threads, Complete(t) PROVE IInv'
<1> USE DEF IInv
<1>1. /\ pc[t] = "complete" /\ completed' = TRUE
      /\ UNCHANGED <<registered, active, apiMutex, started, thread, passing, completions, destroyed>>
  BY DEF Complete, completeFrame, history
<1>2. CASE completed /\ Return(t)
  BY <1>1, <1>2, QuietReturn DEF watched, Typed, InCall
<1>3. CASE ~ completed /\ Goto(t, "copyCallback")
  <2>1. /\ Typed' /\ Returns' /\ WorkerRuns' /\ LockHeld' /\ NothingStarts' /\ ResultIsOf'
        /\ pc'[t] = "copyCallback" /\ \A u \in Threads : u # t => pc'[u] = pc[u]
    BY <1>1, <1>3, OnTheWay DEF Completing, Typed
  <2>2. /\ completions = <<>>
        /\ \A u \in Threads : pc[u] \notin {"copyCallback", "callCompletion"}
    BY <1>3 DEF OneOnItsWay
  <2>3. OneOnItsWay'
    BY <1>1, <2>1, <2>2 DEF OneOnItsWay
  <2> QED
    BY <2>1, <2>3
<1> QED
  BY <1>2, <1>3 DEF Complete, Typed

LEMMA CopyCallbackKeeps == ASSUME IInv, NEW t \in Threads, CopyCallback(t) PROVE IInv'
<1> USE DEF IInv
<1>1. /\ pc[t] = "copyCallback"
      /\ UNCHANGED <<registered, active, apiMutex, started, thread, passing, completions,
                     destroyed, completed>>
  BY DEF CopyCallback, flags, history
<1>2. CASE Return(t)
  BY <1>1, <1>2, QuietReturn DEF watched, Typed, InCall
<1>3. CASE Goto(t, "callCompletion")
  <2>1. /\ Typed' /\ Returns' /\ WorkerRuns' /\ LockHeld' /\ NothingStarts' /\ ResultIsOf'
        /\ pc'[t] = "callCompletion" /\ \A u \in Threads : u # t => pc'[u] = pc[u]
    BY <1>1, <1>3, OnTheWay DEF Completing, Typed
  <2>2. OneOnItsWay'
    BY <1>1, <2>1 DEF OneOnItsWay
  <2> QED
    BY <2>1, <2>2
<1> QED
  BY <1>2, <1>3 DEF CopyCallback

LEMMA CallCompletionKeeps == ASSUME IInv, NEW t \in Threads, CallCompletion(t) PROVE IInv'
<1> USE DEF IInv
<1>1. /\ pc[t] = "callCompletion" /\ completions' = Append(completions, passing[t])
      /\ Goto(t, "inCompletion")
      /\ UNCHANGED <<registered, active, apiMutex, started, thread, passing, completed, destroyed>>
  BY DEF CallCompletion, flags
<1>2. passing[t] \in Results
  BY <1>1 DEF ResultIsOf, Completing, Results
<1>3. completed /\ completions = <<>>
  BY <1>1 DEF OneOnItsWay
<1>4. completions' \in Seq(Results) /\ completions' # <<>> /\ Len(completions') = 1
  BY <1>1, <1>2, <1>3
<1>5. /\ Typed' /\ Returns' /\ WorkerRuns' /\ LockHeld' /\ NothingStarts' /\ ResultIsOf'
      /\ pc'[t] = "inCompletion" /\ \A u \in Threads : u # t => pc'[u] = pc[u]
  BY <1>1, <1>4, OnTheWay DEF Completing, Typed
<1>6. \A u \in Threads : pc'[u] \notin {"copyCallback", "callCompletion"}
  BY <1>1, <1>5 DEF OneOnItsWay
<1>7. OneOnItsWay'
  BY <1>1, <1>3, <1>4, <1>6 DEF OneOnItsWay
<1> QED
  BY <1>5, <1>7

\* The way of a call of destroy, with api_mutex from DestroyLock on.
LEMMA DestroyKeeps ==
  ASSUME IInv, NEW t \in Threads, DestroyLock(t) \/ Dispose(t) \/ DisposeOperation(t)
  PROVE  IInv'
<1> USE DEF IInv
<1>1. PICK where \in Destroying : Goto(t, where)
  BY DEF DestroyLock, Dispose, DisposeOperation, Destroying
<1>2. /\ pc[t] \in InCall /\ where \in Places \ (Completing \cup {"idle", "startUnlock"})
      /\ pc[t] # "idle"
  BY DEF DestroyLock, Dispose, DisposeOperation, InCall, Destroying, Places, Completing
<1>3. /\ (apiMutex' = t /\ active' = FALSE) \/ UNCHANGED <<active, apiMutex>>
      /\ UNCHANGED <<registered, started, completed, thread, passing, completions, destroyed>>
  BY DEF DestroyLock, Dispose, DisposeOperation, history
<1>4. \/ apiMutex = None /\ apiMutex' = t /\ active' = FALSE
      \/ pc[t] \in Destroying /\ UNCHANGED <<active, apiMutex>>
  BY DEF DestroyLock, Dispose, DisposeOperation, Destroying
<1>5. pc' \in [Threads -> Places] /\ pc' = [pc EXCEPT ![t] = where] /\ stack' = stack
      /\ Returns'
  BY <1>1, <1>2, GotoKeeps
<1>6. pc'[t] = where /\ \A u \in Threads : u # t => pc'[u] = pc[u]
  BY <1>5 DEF Typed
<1>7. apiMutex' = t /\ active' = FALSE /\ UNCHANGED <<registered, started, completed, thread,
                                                passing, completions, destroyed>>
  BY <1>3, <1>4 DEF LockHeld, NothingStarts, Typed
<1>8. /\ \A u \in Threads : \A i \in DOMAIN stack[u] : stack[u][i] = "startUnlock" => u = t /\ pc[t] \in Destroying
      /\ \A u \in Threads : u # t => pc[u] \notin Destroying \cup {"startUnlock"}
      /\ \A u \in Threads : u # t => apiMutex # u
  BY <1>4, SdkAssumption DEF LockHeld
<1>9. \A i \in DOMAIN stack[t] : stack[t][i] # "startUnlock"
  BY <1>8 DEF LockHeld
<1>10. Typed'
  BY <1>5, <1>7 DEF Typed
<1>11. WorkerRuns'
  BY <1>2, <1>5, <1>6, <1>7 DEF WorkerRuns, Threads
<1>12. LockHeld'
  BY <1>5, <1>6, <1>7, <1>8, <1>9 DEF LockHeld
<1>13. NothingStarts'
  BY <1>6, <1>7 DEF NothingStarts
<1>14. ResultIsOf'
  BY <1>2, <1>6, <1>7, <1>8 DEF ResultIsOf
<1>15. OneOnItsWay'
  BY <1>2, <1>6, <1>7 DEF OneOnItsWay, Completing
<1> QED
  BY <1>5, <1>10, <1>11, <1>12, <1>13, <1>14, <1>15

\* run() ends, and worker_ can be joined.
LEMMA FinishKeeps ==
  ASSUME IInv, Finish, pc[Worker] \in {"loop", "exit"},
         UNCHANGED <<flags, passing, completions, destroyed>>
  PROVE  IInv'
<1> USE DEF IInv
<1>1. Worker \in Threads /\ "idle" \in Places /\ "idle" \notin InCall
  BY DEF Threads, Places, InCall
<1>2. pc' \in [Threads -> Places] /\ pc' = [pc EXCEPT ![Worker] = "idle"] /\ stack' = stack
      /\ Returns'
  BY <1>1, GotoKeeps DEF Finish
<1>3. pc'[Worker] = "idle" /\ \A u \in Threads : u # Worker => pc'[u] = pc[u]
  BY <1>1, <1>2 DEF Typed
<1>4. Typed'
  BY <1>2 DEF Typed, flags
<1>5. WorkerRuns'
  BY <1>2, <1>3 DEF WorkerRuns, Finish
<1>6. LockHeld'
  BY <1>1, <1>2, LockKept DEF flags, Destroying
<1>7. NothingStarts'
  BY <1>3 DEF NothingStarts, Destroying, flags, Finish
<1>8. ResultIsOf'
  BY <1>3 DEF ResultIsOf, Completing, flags
<1>9. OneOnItsWay'
  BY <1>3 DEF OneOnItsWay, flags
<1> QED
  BY <1>2, <1>4, <1>5, <1>6, <1>7, <1>8, <1>9

LEMMA LoopEndKeeps == ASSUME IInv, LoopEnd PROVE IInv'
<1> USE DEF IInv
<1>1. pc[Worker] = "loop" /\ UNCHANGED <<flags, completions, destroyed>> /\ Worker \in Threads
  BY DEF LoopEnd, runFrame, Threads
<1>2. CASE Finish /\ UNCHANGED passing
  BY <1>1, <1>2, FinishKeeps
<1>3. CASE /\ passing' = [passing EXCEPT ![Worker] = "completed"]
           /\ CallThen(Worker, "complete", "exit") /\ UNCHANGED thread
  <2>1. /\ "complete" \in Places \ (Destroying \cup {"startUnlock"})
        /\ "exit" \in BackPlaces \ {"startUnlock"} /\ "exit" \notin InCall
    BY DEF Places, Destroying, BackPlaces, InCall
  <2>2. /\ pc' \in [Threads -> Places] /\ stack' \in [Threads -> Seq(BackPlaces)]
        /\ pc' = [pc EXCEPT ![Worker] = "complete"] /\ Returns'
    BY <1>1, <1>3, <2>1, CallKeeps
  <2>3. pc'[Worker] = "complete" /\ \A u \in Threads : u # Worker => pc'[u] = pc[u]
    BY <1>1, <2>2 DEF Typed
  <2>4. passing'[Worker] = "completed" /\ \A u \in Threads : u # Worker => passing'[u] = passing[u]
    BY <1>1, <1>3 DEF Typed
  <2>5. Typed'
    BY <1>1, <1>3, <2>2 DEF Typed, flags, Results
  <2>6. LockHeld' /\ WorkerRuns'
    BY <1>1, <1>3, <2>1, CallKeepsLock DEF flags
  <2>7. NothingStarts'
    BY <1>1, <1>3, <2>3 DEF NothingStarts, Destroying, flags
  <2>8. ResultIsOf'
    BY <1>1, <2>3, <2>4 DEF ResultIsOf, flags
  <2>9. OneOnItsWay'
    BY <1>1, <2>3 DEF OneOnItsWay, flags
  <2> QED
    BY <2>2, <2>5, <2>6, <2>7, <2>8, <2>9
<1> QED
  BY <1>2, <1>3 DEF LoopEnd


-----------------------------------------------------------------------------
(* The invariant over the actions. *)
LEMMA InitEstablishes == Init => IInv
<1> SUFFICES ASSUME Init PROVE IInv
  OBVIOUS
<1>1. /\ pc = [t \in Threads |-> "idle"] /\ stack = [t \in Threads |-> <<>>]
      /\ completions = <<>> /\ Worker \in Threads
  BY DEF Init, Threads
<1>2. Typed
  <2>1. <<>> \in Seq(BackPlaces) /\ <<>> \in Seq(Results) /\ "idle" \in Places
    BY DEF Places
  <2>2. pc \in [Threads -> Places] /\ stack \in [Threads -> Seq(BackPlaces)]
    BY <1>1, <2>1
  <2> QED
    BY <1>1, <2>1, <2>2 DEF Init, Typed
<1>3. Returns /\ LockHeld
  BY <1>1 DEF Returns, LockHeld, InCall, Destroying
<1>4. WorkerRuns /\ NothingStarts
  BY <1>1 DEF Init, WorkerRuns, NothingStarts, Destroying
<1>5. ResultIsOf /\ OneOnItsWay
  BY <1>1 DEF ResultIsOf, OneOnItsWay, Completing
<1> QED
  BY <1>2, <1>3, <1>4, <1>5 DEF IInv

LEMMA OperationKeeps == ASSUME IInv, NEW t \in Threads, Operation(t) PROVE IInv'
<1> USE DEF IInv
<1>1. CASE Start(t)
  BY <1>1, StartKeeps
<1>2. CASE StartUnlock(t)
  BY <1>2, UnlockKeeps DEF StartUnlock, history, Typed
<1>3. CASE Cancel(t)
  <2>1. pc[t] = "cancel" /\ UNCHANGED watched /\ UNCHANGED registered
    BY <1>3 DEF Cancel, watched, flags, history
  <2>2. CASE Return(t)
    BY <2>1, <2>2, QuietReturn DEF InCall, Typed
  <2>3. CASE Goto(t, "cancelMark")
    BY <2>1, <2>3, QuietGoto DEF InCall, Typed, Plain, Places, Destroying, Completing
  <2> QED
    BY <1>3, <2>2, <2>3 DEF Cancel
<1>4. CASE CancelMark(t)
  BY <1>4, CancelMarkKeeps
<1>5. CASE Complete(t)
  BY <1>5, CompleteKeeps
<1>6. CASE CopyCallback(t)
  BY <1>6, CopyCallbackKeeps
<1>7. CASE CallCompletion(t)
  BY <1>7, CallCompletionKeeps
<1>8. CASE Callback(t)
  <2>1. pc[t] \in {"inCompletion", "inProgress"} /\ UNCHANGED watched /\ UNCHANGED registered
    BY <1>8 DEF Callback, watched, flags, history
  <2>2. PICK back \in {"endCompletion", "endProgress"} :
          /\ back = IF pc[t] = "inCompletion" THEN "endCompletion" ELSE "endProgress"
          /\ \/ Goto(t, back)
             \/ \E op \in Reentrant : CallThen(t, Entry[op], back)
    BY <1>8 DEF Callback
  <2>3. pc[t] \in InCall \/ back \notin InCall
    BY <2>1, <2>2 DEF InCall
  <2>4. back \in Plain /\ back \in BackPlaces \ {"startUnlock"} /\ back # "idle"
    BY DEF Plain, Places, Destroying, Completing, BackPlaces
  <2>5. CASE Goto(t, back)
    BY <2>1, <2>3, <2>4, <2>5, QuietGoto DEF Typed
  <2>6. ASSUME NEW op \in Reentrant, CallThen(t, Entry[op], back) PROVE IInv'
    <3>1. Entry[op] \in {"start", "cancel", "destroyErase"}
      BY SdkAssumption DEF Entry
    <3>2. Entry[op] \in Plain
      BY <3>1 DEF Plain, Places, Destroying, Completing
    <3> QED
      BY <2>1, <2>3, <2>4, <2>6, <3>2, QuietCall DEF Typed
  <2> QED
    BY <2>2, <2>5, <2>6
<1>9. CASE EndCompletion(t)
  BY <1>9, QuietReturn DEF EndCompletion, watched, flags, history, InCall, Typed
<1>10. CASE DestroyErase(t)
  <2>1. pc[t] = "destroyErase" /\ UNCHANGED watched /\ registered' \in BOOLEAN
    BY <1>10 DEF DestroyErase, watched, history
  <2>2. CASE Return(t)
    BY <2>1, <2>2, QuietReturn DEF InCall
  <2>3. CASE Goto(t, "destroyLock")
    BY <2>1, <2>3, QuietGoto DEF InCall, Plain, Places, Destroying, Completing
  <2> QED
    BY <1>10, <2>2, <2>3 DEF DestroyErase
<1>11. CASE DestroyLock(t) \/ Dispose(t) \/ DisposeOperation(t)
  BY <1>11, DestroyKeeps
<1>12. CASE Join(t)
  BY <1>12, JoinKeeps
<1> QED
  BY <1>1, <1>2, <1>3, <1>4, <1>5, <1>6, <1>7, <1>8, <1>9, <1>10, <1>11, <1>12 DEF Operation

LEMMA RunStepKeeps == ASSUME IInv, RunStep PROVE IInv'
<1> USE DEF IInv
<1>1. Worker \in Threads
  BY DEF Threads
<1>2. ASSUME NEW where \in {"copyProgress", "callProgress", "inProgress", "endProgress", "loop"},
             pc[Worker] \in {"loop", "copyProgress", "callProgress", "endProgress"},
             Goto(Worker, where), UNCHANGED <<flags, passing, completions, destroyed, thread>>
      PROVE  IInv'
  <2>1. where \in Plain /\ where \notin InCall
    BY DEF Plain, Places, Destroying, Completing, InCall
  <2> QED
    BY <1>1, <1>2, <2>1, QuietGoto DEF flags, watched, Typed
<1>3. CASE Loop
  BY <1>2, <1>3, FinishKeeps DEF Loop, runFrame
<1>4. CASE CopyProgress
  BY <1>2, <1>4 DEF CopyProgress, runFrame
<1>5. CASE CallProgress
  BY <1>2, <1>5 DEF CallProgress, runFrame
<1>6. CASE EndProgress
  BY <1>2, <1>6 DEF EndProgress, runFrame
<1>7. CASE LoopEnd
  BY <1>7, LoopEndKeeps
<1>8. CASE Exit
  BY <1>8, FinishKeeps DEF Exit, runFrame
<1> QED
  BY <1>3, <1>4, <1>5, <1>6, <1>7, <1>8 DEF RunStep

LEMMA StepPreserves == IInv /\ [Next]_vars => IInv'
<1> SUFFICES ASSUME IInv, [Next]_vars PROVE IInv'
  OBVIOUS
<1>1. CASE WorkerStep
  BY <1>1, OperationKeeps, RunStepKeeps DEF WorkerStep, Threads
<1>2. ASSUME NEW c \in Callers, CallerStep(c) PROVE IInv'
  BY <1>2, OperationKeeps DEF CallerStep, Threads
<1>3. ASSUME NEW c \in Callers, NEW op \in DOMAIN Entry, Call(c, op) PROVE IInv'
  <2>1. Entry[op] \in Plain /\ "idle" \in BackPlaces \ {"startUnlock"} /\ "idle" \notin InCall
    BY DEF Entry, Plain, Places, Destroying, Completing, BackPlaces, InCall
  <2>2. c \in Threads /\ c # Worker
    BY SdkAssumption DEF Threads
  <2> QED
    BY <1>3, <2>1, <2>2, QuietCall DEF Call, watched, flags, history, IInv, Typed
<1>4. CASE UNCHANGED vars
  BY <1>4 DEF vars, flags, history, IInv, Typed, Returns, WorkerRuns, LockHeld,
     NothingStarts, ResultIsOf, OneOnItsWay
<1> QED
  BY <1>1, <1>2, <1>3, <1>4 DEF Next

\* What the proofs rest on holds in every reachable state.
THEOREM WorkerInvariant == Spec => []IInv
  BY InitEstablishes, StepPreserves, PTL DEF Spec

\* However cancel, the last unit, a failing start and destroy race, the host
\* is told once how the work ended (AsyncOperation::complete).
THEOREM CompletesOnce == Spec => []OneCompletion
<1>1. IInv => OneCompletion
  BY DEF IInv, OneOnItsWay, OneCompletion
<1> QED
  BY <1>1, WorkerInvariant, PTL

\* A thread of the host moves no other thread, except that start begins run().
LEMMA CallersMoveThemselves ==
  ASSUME IInv, ~ active, NEW c \in Callers, CallerStep(c)
  PROVE  pc'[Worker] = pc[Worker]
<1>1. c \in Threads /\ Worker \in Threads /\ c # Worker /\ pc \in [Threads -> Places]
  BY SdkAssumption DEF Threads, IInv, Typed
<1>2. PICK where : pc' = [pc EXCEPT ![c] = where]
  <2>1. CASE Start(c)
    BY <2>1 DEF Start, Return
  <2>2. CASE Callback(c)
    BY <2>2 DEF Callback, Goto, CallThen
  <2>3. CASE StartUnlock(c) \/ EndCompletion(c)
    BY <2>3 DEF StartUnlock, EndCompletion, Return
  <2>4. CASE Cancel(c) \/ CancelMark(c) \/ Complete(c) \/ CopyCallback(c)
    BY <2>4 DEF Cancel, CancelMark, Complete, CopyCallback, Return, Goto
  <2>5. CASE CallCompletion(c) \/ DestroyErase(c) \/ DestroyLock(c) \/ Dispose(c)
    BY <2>5 DEF CallCompletion, DestroyErase, DestroyLock, Dispose, Return, Goto
  <2>6. CASE DisposeOperation(c) \/ Join(c)
    BY <2>6 DEF DisposeOperation, Join, Return, Goto
  <2> QED
    BY <2>1, <2>2, <2>3, <2>4, <2>5, <2>6 DEF CallerStep, Operation
<1> QED
  BY <1>1, <1>2

\* Only the call of the callback adds to what the host was told.
LEMMA ToldByCallback ==
  ASSUME NEW t \in Threads, Operation(t), completions' # completions
  PROVE  CallCompletion(t)
<1>1. ~ (Start(t) \/ StartUnlock(t) \/ Cancel(t) \/ CancelMark(t) \/ Complete(t)
         \/ CopyCallback(t) \/ Callback(t))
  BY DEF Start, StartUnlock, Cancel, CancelMark, Complete, completeFrame, CopyCallback,
     Callback, history
<1>2. ~ (EndCompletion(t) \/ DestroyErase(t) \/ DestroyLock(t) \/ Dispose(t)
         \/ DisposeOperation(t) \/ Join(t))
  BY DEF EndCompletion, DestroyErase, DestroyLock, Dispose, DisposeOperation, Join,
     joinFrame, history
<1> QED
  BY <1>1, <1>2 DEF Operation

\* Once destroy has returned the worker does nothing, and the host hears of
\* nothing but a cancel that was under way (digitor_sdk_worker_destroy).
THEOREM LateIsCancel == Spec => OnlyCancelIsLate
<1> DEFINE Late == destroyed => /\ pc'[Worker] = pc[Worker]
                                /\ completions' # completions => completions' = <<"cancelled">>
<1>1. IInv /\ [Next]_vars => Late
  <2> SUFFICES ASSUME IInv, [Next]_vars, destroyed PROVE Late
    OBVIOUS
  <2>1. pc[Worker] = "idle" /\ ~ active
    BY DEF IInv, NothingStarts, WorkerRuns
  <2>2. ~ WorkerStep
    <3>1. ~ RunStep
      BY <2>1 DEF RunStep, Loop, CopyProgress, CallProgress, EndProgress, LoopEnd, Exit
    <3>2. ~ Operation(Worker)
      BY <2>1 DEF Operation, Start, StartUnlock, Cancel, CancelMark, Complete, CopyCallback,
         CallCompletion, Callback, EndCompletion, DestroyErase, DestroyLock, Dispose,
         DisposeOperation, Join
    <3> QED
      BY <3>1, <3>2 DEF WorkerStep
  <2>3. ASSUME NEW c \in Callers, CallerStep(c) PROVE Late
    <3>1. c \in Threads /\ c # Worker /\ Operation(c)
      BY <2>3, SdkAssumption DEF Threads, CallerStep
    <3>2. pc'[Worker] = pc[Worker]
      BY <2>1, <2>3, CallersMoveThemselves
    <3>3. ASSUME completions' # completions PROVE completions' = <<"cancelled">>
      <4>1. pc[c] = "callCompletion" /\ completions' = Append(completions, passing[c])
        BY <3>1, <3>3, ToldByCallback DEF CallCompletion
      <4>2. completions = <<>> /\ passing[c] = "cancelled"
        BY <3>1, <4>1 DEF IInv, OneOnItsWay, ResultIsOf, Completing
      <4> QED
        BY <4>1, <4>2
    <3> QED
      BY <3>2, <3>3
  <2>4. ASSUME NEW c \in Callers, NEW op \in DOMAIN Entry, Call(c, op) PROVE Late
    <3>1. Worker \in Threads /\ c # Worker /\ pc \in [Threads -> Places]
      BY SdkAssumption DEF Threads, IInv, Typed
    <3> QED
      BY <2>4, <3>1 DEF Call, CallThen, history
  <2>5. CASE UNCHANGED vars
    BY <2>5 DEF vars, history
  <2> QED
    BY <2>2, <2>3, <2>4, <2>5 DEF Next
<1>2. IInv /\ [Next]_vars => [Late]_vars
  BY <1>1
<1> QED
  BY <1>2, WorkerInvariant, PTL DEF Spec, OnlyCancelIsLate
=============================================================================
