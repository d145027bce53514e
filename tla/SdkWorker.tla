------------------------------ MODULE SdkWorker ------------------------------
(***************************************************************************)
(* One worker of the SDK: the C API (src/ffi/sdk_worker_c_api.cpp), the    *)
(* SdkMediaWorker with its thread (src/runtime/sdk_media_worker.cpp) and   *)
(* its AsyncOperation (src/runtime/async_operation.cpp), called by several *)
(* threads of a host whose callbacks may call the API again.               *)
(*                                                                         *)
(* Every atomic is a step of its own.  Clearing progress_ and callback_ is *)
(* left out: whoever copies them looks at the disposed_ flag set before.   *)
(***************************************************************************)
EXTENDS Integers, Sequences

CONSTANTS
  Callers,       \* threads of the host
  Units,         \* total_units_
  Reentrant,     \* calls the callbacks make: of "start", "cancel" and "destroy"
  Careful,       \* do callbacks leave out the calls that wait for their own thread?
  ThreadMayFail, \* can std::thread throw?
  MaxCalls       \* bound: calls of the API from outside of callbacks

CONSTANT Worker  \* the thread in worker_

Threads == Callers \cup {Worker}
None    == "none"

ASSUME SdkAssumption ==
  /\ Worker \notin Callers /\ None \notin Threads
  /\ Units \in Nat \ {0} /\ MaxCalls \in Nat
  /\ Reentrant \subseteq {"start", "cancel", "destroy"}
  /\ Careful \in BOOLEAN /\ ThreadMayFail \in BOOLEAN

VARIABLES
  registered,    \* is the handle in handles?
  active,        \* handle.active
  apiMutex,      \* who holds api_mutex
  started, workerDisposed,             \* of SdkMediaWorker
  cancelled, completed, opDisposed,    \* of AsyncOperation
  thread,        \* worker_: "none", "running", "finished"
  unit,          \* progress of run()
  pc, stack,     \* each thread, and where it returns to
  passing,       \* result a thread passes to complete()
  calls,         \* API calls made
  completions,   \* history: results given to the completion callback
  destroyed,     \* history: destroy has returned
  lateProgress,  \* history: progress delivered after dispose()
  terminated     \* history: std::terminate was called

flags   == <<registered, active, apiMutex, started, workerDisposed, cancelled, completed,
             opDisposed>>
history == <<completions, destroyed, lateProgress, terminated>>
vars    == <<flags, thread, unit, pc, stack, passing, calls, history>>

Init ==
  /\ registered = TRUE /\ active = TRUE /\ apiMutex = None
  /\ started = FALSE /\ workerDisposed = FALSE
  /\ cancelled = FALSE /\ completed = FALSE /\ opDisposed = FALSE
  /\ thread = "none" /\ unit = 1
  /\ pc = [t \in Threads |-> "idle"] /\ stack = [t \in Threads |-> <<>>]
  /\ passing = [t \in Threads |-> None]
  /\ calls = 0
  /\ completions = <<>> /\ destroyed = FALSE /\ lateProgress = FALSE
  /\ terminated = FALSE

Goto(t, where) == pc' = [pc EXCEPT ![t] = where] /\ UNCHANGED stack

(* A call, to come back at a place; and the return from one.               *)
CallThen(t, where, back) ==
  /\ pc' = [pc EXCEPT ![t] = where]
  /\ stack' = [stack EXCEPT ![t] = <<back>> \o @]
Return(t) ==
  /\ pc' = [pc EXCEPT ![t] = Head(stack[t])]
  /\ stack' = [stack EXCEPT ![t] = Tail(@)]

-----------------------------------------------------------------------------
(* A thread of the host calls the API: calls on a handle that is not in    *)
(* handles return at once.                                                 *)
Entry == [start |-> "start", cancel |-> "cancel", destroy |-> "destroyErase"]

Call(c, op) ==
  /\ pc[c] = "idle" /\ calls < MaxCalls
  /\ calls' = calls + 1
  /\ registered
  /\ CallThen(c, Entry[op], "idle")
  /\ UNCHANGED <<flags, thread, unit, passing, history>>

-----------------------------------------------------------------------------
(* digitor_sdk_worker_start, under api_mutex, and SdkMediaWorker::start.   *)
Start(t) ==
  /\ pc[t] = "start" /\ apiMutex = None
  /\ \/ /\ ~ active \/ started
        /\ Return(t)
        /\ UNCHANGED <<apiMutex, started, thread, passing>>
     \/ /\ active /\ ~ started
        /\ started' = TRUE
        /\ thread' = "running"
        /\ pc' = [pc EXCEPT ![t] = Head(stack[t]), ![Worker] = "loop"]
        /\ stack' = [stack EXCEPT ![t] = Tail(@)]
        /\ UNCHANGED <<apiMutex, passing>>
     \/ /\ active /\ ~ started /\ ThreadMayFail
        /\ started' = TRUE
        /\ apiMutex' = t
        /\ passing' = [passing EXCEPT ![t] = "failed"]
        /\ CallThen(t, "complete", "startUnlock")
        /\ UNCHANGED thread
  /\ UNCHANGED <<registered, active, workerDisposed, cancelled, completed, opDisposed,
                 unit, calls, history>>

(* Mutant: the lock is not released when the thread cannot be created. *)
StartKeepsLock(t) ==
  /\ pc[t] = "startUnlock"
  /\ Return(t)
  /\ UNCHANGED <<flags, thread, unit, passing, calls, history>>

StartUnlock(t) ==
  /\ pc[t] = "startUnlock"
  /\ apiMutex' = None
  /\ Return(t)
  /\ UNCHANGED <<registered, active, started, workerDisposed, cancelled, completed,
                 opDisposed, thread, unit, passing, calls, history>>

(* digitor_sdk_worker_cancel, SdkMediaWorker::cancel, AsyncOperation::cancel.*)
Cancel(t) ==
  /\ pc[t] = "cancel"
  /\ IF workerDisposed THEN Return(t) ELSE Goto(t, "cancelMark")
  /\ UNCHANGED <<flags, thread, unit, passing, calls, history>>

CancelMark(t) ==
  /\ pc[t] = "cancelMark"
  /\ cancelled' = TRUE
  /\ IF cancelled
       THEN Return(t) /\ UNCHANGED passing
       ELSE Goto(t, "complete") /\ passing' = [passing EXCEPT ![t] = "cancelled"]
  /\ UNCHANGED <<registered, active, apiMutex, started, workerDisposed, completed,
                 opDisposed, thread, unit, calls, history>>

-----------------------------------------------------------------------------
(* AsyncOperation::complete.                                               *)
completeFrame == <<registered, active, apiMutex, started, workerDisposed, cancelled,
                   opDisposed, thread, unit, passing, calls, history>>

(* Mutant: completed_ is set without looking whether it was. *)
CompleteUnchecked(t) ==
  /\ pc[t] = "complete"
  /\ completed' = TRUE
  /\ Goto(t, "copyCallback")
  /\ UNCHANGED completeFrame

Complete(t) ==
  /\ pc[t] = "complete"
  /\ completed' = TRUE
  /\ IF completed THEN Return(t) ELSE Goto(t, "copyCallback")
  /\ UNCHANGED completeFrame

(* The copy of callback_, and the call of the copy.                        *)
CopyCallback(t) ==
  /\ pc[t] = "copyCallback"
  /\ IF opDisposed THEN Return(t) ELSE Goto(t, "callCompletion")
  /\ UNCHANGED <<flags, thread, unit, passing, calls, history>>

CallCompletion(t) ==
  /\ pc[t] = "callCompletion"
  /\ completions' = Append(completions, passing[t])
  /\ Goto(t, "inCompletion")
  /\ UNCHANGED <<flags, thread, unit, passing, calls, destroyed, lateProgress, terminated>>

(* What a callback on a thread cannot wait for: destroy joins the worker,  *)
(* and start and destroy take api_mutex, which a failing start holds while *)
(* it tells the host.  Careful hosts know, and make no such call.          *)
WaitsForItself(t, op) ==
  \/ op = "destroy" /\ t = Worker
  \/ op \in {"start", "destroy"} /\ apiMutex = t

(* A callback of the host returns, or first calls the API.                 *)
Callback(t) ==
  /\ pc[t] \in {"inCompletion", "inProgress"}
  /\ LET back == IF pc[t] = "inCompletion" THEN "endCompletion" ELSE "endProgress"
     IN \/ Goto(t, back)
        \/ \E op \in Reentrant :
             /\ registered
             /\ ~ (Careful /\ WaitsForItself(t, op))
             /\ CallThen(t, Entry[op], back)
  /\ UNCHANGED <<flags, thread, unit, passing, calls, history>>

EndCompletion(t) ==
  /\ pc[t] = "endCompletion"
  /\ Return(t)
  /\ UNCHANGED <<flags, thread, unit, passing, calls, history>>

-----------------------------------------------------------------------------
(* digitor_sdk_worker_destroy.                                             *)
DestroyErase(t) ==
  /\ pc[t] = "destroyErase"
  /\ registered' = FALSE
  /\ IF registered THEN Goto(t, "destroyLock") ELSE Return(t)
  /\ UNCHANGED <<active, apiMutex, started, workerDisposed, cancelled, completed,
                 opDisposed, thread, unit, passing, calls, history>>

DestroyLock(t) ==
  /\ pc[t] = "destroyLock" /\ apiMutex = None
  /\ apiMutex' = t
  /\ active' = FALSE
  /\ Goto(t, "dispose")
  /\ UNCHANGED <<registered, started, workerDisposed, cancelled, completed, opDisposed,
                 thread, unit, passing, calls, history>>

(* SdkMediaWorker::dispose and AsyncOperation::dispose.                    *)
Dispose(t) ==
  /\ pc[t] = "dispose"
  /\ workerDisposed' = TRUE
  /\ Goto(t, "disposeOperation")
  /\ UNCHANGED <<registered, active, apiMutex, started, cancelled, completed, opDisposed,
                 thread, unit, passing, calls, history>>

DisposeOperation(t) ==
  /\ pc[t] = "disposeOperation"
  /\ opDisposed' = TRUE
  /\ Goto(t, "join")
  /\ UNCHANGED <<registered, active, apiMutex, started, workerDisposed, cancelled,
                 completed, thread, unit, passing, calls, history>>

joinFrame == <<registered, active, started, workerDisposed, cancelled, completed,
               opDisposed, thread, unit, passing, calls, completions, lateProgress>>

(* Mutant: the worker is disposed of and not joined. *)
JoinNothing(t) ==
  /\ pc[t] = "join"
  /\ apiMutex' = None /\ destroyed' = TRUE
  /\ Return(t)
  /\ UNCHANGED <<joinFrame, terminated>>

(* SdkMediaWorker::join: a thread that joins itself throws in a noexcept.  *)
Join(t) ==
  /\ pc[t] = "join"
  /\ \/ /\ thread \in {"none", "finished"}
        /\ apiMutex' = None /\ destroyed' = TRUE
        /\ Return(t)
        /\ UNCHANGED terminated
     \/ /\ t = Worker
        /\ terminated' = TRUE
        /\ Goto(t, "terminated")
        /\ UNCHANGED <<apiMutex, destroyed>>
  /\ UNCHANGED joinFrame

-----------------------------------------------------------------------------
(* SdkMediaWorker::run.                                                    *)
Finish == thread' = "finished" /\ Goto(Worker, "idle")

runFrame == <<flags, calls, completions, destroyed, terminated>>

Loop ==
  /\ pc[Worker] = "loop" /\ unit <= Units
  /\ IF completed \/ workerDisposed
       THEN Finish
       ELSE Goto(Worker, "copyProgress") /\ UNCHANGED thread
  /\ UNCHANGED <<runFrame, unit, passing, lateProgress>>

CopyProgress ==
  /\ pc[Worker] = "copyProgress"
  /\ Goto(Worker, IF workerDisposed THEN "endProgress" ELSE "callProgress")
  /\ UNCHANGED <<runFrame, thread, unit, passing, lateProgress>>

CallProgress ==
  /\ pc[Worker] = "callProgress"
  /\ lateProgress' = (lateProgress \/ opDisposed)
  /\ Goto(Worker, "inProgress")
  /\ UNCHANGED <<runFrame, thread, unit, passing>>

EndProgress ==
  /\ pc[Worker] = "endProgress"
  /\ unit' = unit + 1
  /\ Goto(Worker, "loop")
  /\ UNCHANGED <<runFrame, thread, passing, lateProgress>>

(* Mutant: the last unit is not followed by the completion. *)
LoopEndSilent ==
  /\ pc[Worker] = "loop" /\ unit > Units
  /\ Finish
  /\ UNCHANGED <<runFrame, unit, passing, lateProgress>>

LoopEnd ==
  /\ pc[Worker] = "loop" /\ unit > Units
  /\ IF workerDisposed
       THEN Finish /\ UNCHANGED passing
       ELSE /\ passing' = [passing EXCEPT ![Worker] = "completed"]
            /\ CallThen(Worker, "complete", "exit")
            /\ UNCHANGED thread
  /\ UNCHANGED <<runFrame, unit, lateProgress>>

Exit ==
  /\ pc[Worker] = "exit"
  /\ Finish
  /\ UNCHANGED <<runFrame, unit, passing, lateProgress>>

-----------------------------------------------------------------------------
Operation(t) ==
  \/ Start(t) \/ StartUnlock(t) \/ Cancel(t) \/ CancelMark(t)
  \/ Complete(t) \/ CopyCallback(t) \/ CallCompletion(t)
  \/ Callback(t) \/ EndCompletion(t)
  \/ DestroyErase(t) \/ DestroyLock(t) \/ Dispose(t) \/ DisposeOperation(t) \/ Join(t)

RunStep == Loop \/ CopyProgress \/ CallProgress \/ EndProgress \/ LoopEnd \/ Exit

WorkerStep == ~ terminated /\ (RunStep \/ Operation(Worker))
CallerStep(c) == ~ terminated /\ Operation(c)

Next ==
  \/ WorkerStep
  \/ \E c \in Callers : CallerStep(c)
  \/ ~ terminated /\ \E c \in Callers, op \in DOMAIN Entry : Call(c, op)

Spec == Init /\ [][Next]_vars

(* Threads run, callbacks return; nobody has to call the API.              *)
FairSpec ==
  /\ Spec
  /\ WF_vars(WorkerStep)
  /\ \A c \in Callers : WF_vars(CallerStep(c))

-----------------------------------------------------------------------------
Results == {"completed", "cancelled", "failed"}
Places  == {"idle", "start", "startUnlock", "cancel", "cancelMark", "complete",
            "copyCallback", "callCompletion", "inCompletion", "endCompletion",
            "destroyErase", "destroyLock", "dispose", "disposeOperation", "join", "terminated",
            "loop", "copyProgress", "callProgress", "inProgress", "endProgress", "exit"}

(* Every variable keeps its type, and callbacks nest three deep at most.   *)
TypeOK ==
  /\ \A flag \in {registered, active, started, workerDisposed, cancelled, completed,
                  opDisposed, destroyed, lateProgress, terminated} : flag \in BOOLEAN
  /\ apiMutex \in Threads \cup {None}
  /\ thread \in {"none", "running", "finished"} /\ unit \in 1..Units + 1
  /\ pc \in [Threads -> Places]
  /\ \A t \in Threads : Len(stack[t]) <= 4
  /\ passing \in [Threads -> Results \cup {None}]
  /\ calls \in 0..MaxCalls
  /\ \A i \in DOMAIN completions : completions[i] \in Results

(* However cancel, the last unit, a failing start and destroy race, the    *)
(* host is told once how the work ended, or not at all when it destroyed   *)
(* the worker.                                                             *)
OneCompletion ==
  /\ Len(completions) <= 1
  /\ completions # <<>> => completed

(* Once destroy has returned the worker does nothing more, and only a call *)
(* of cancel that another thread was in the middle of can still reach the  *)
(* host, which may have freed user_data.                                   *)
OnlyCancelIsLate ==
  [][destroyed => /\ pc'[Worker] = pc[Worker]
                  /\ completions' # completions => completions' = <<"cancelled">>]_vars

(* Work that was started ends with the callback, or with a call of destroy.*)
StartedEnds == started ~> (completions # <<>> \/ ~ registered)

(* A callback on the worker waits in start for api_mutex, and destroy,     *)
(* which holds it, waits for the worker: neither ever goes on.             *)
StartWaitsForDestroy ==
  /\ pc[Worker] = "start"
  /\ \E t \in Threads : apiMutex = t /\ pc[t] = "join"

(* A call of destroy returns, the worker stopping at the next unit, unless *)
(* a callback on the worker came to call start: of all that host threads   *)
(* and callbacks of careful hosts do, only this keeps destroy from it.     *)
DestroyReturns == ~ registered ~> (destroyed \/ StartWaitsForDestroy)

(* "A callback is allowed to re-enter the C API (including destroy)        *)
(* without deadlocking" (sdk_worker_c_api.cpp:87-89): no callback is in    *)
(* start while destroy holds api_mutex and joins the callback's thread.    *)
ReentryDoesNotDeadlock == ~ StartWaitsForDestroy

(* Nor does destroy called in a callback end the process, which it does    *)
(* on the worker's own thread: its join() throws in a noexcept function.   *)
ReentryIsAllowed == ~ terminated

(* No progress is delivered once dispose() has returned, as                *)
(* tests/sdk_media_worker_tests.cpp asserts.                               *)
NoProgressAfterDispose == ~ lateProgress
=============================================================================
