-------------------------- MODULE ParallelExecutor --------------------------
(***************************************************************************)
(* CpuParallelExecutor (include/digitor/cpu_parallel_executor.hpp):        *)
(* parallel_for called by several threads, its persistent workers, and the *)
(* destructor.                                                             *)
(*                                                                         *)
(* Grain: an atomic operation is a step, and so is the reading of          *)
(* task_count_, count_ and job_ that follows a fetch_add, which workers do *)
(* without mutex_; parallel_for's writes to them are therefore steps of    *)
(* their own while it holds mutex_.  The wait on work_cv_ is a guard, since*)
(* what it reads is written under mutex_; the wait on done_cv_ is modelled *)
(* as it is, test then block, since remaining_ is not.                     *)
(***************************************************************************)
EXTENDS CpuPartition, FiniteSets

CONSTANTS
  Workers,        \* workers_
  Submitters,     \* threads that call parallel_for
  Counts,         \* item counts they submit, with a grain of 1
  Throwing,       \* items on which their function throws
  MaxJobs,        \* bound: calls of parallel_for
  Wrap            \* remaining_ is a size_t: it wraps

None == "none"

ASSUME ExecutorAssumption ==
  /\ IsFiniteSet(Workers) /\ Workers # {}
  /\ Workers \cap Submitters = {}
  /\ None \notin Submitters
  /\ Counts \subseteq Nat \ {0} /\ \E n \in Counts : \A k \in Counts : k <= n
  /\ MaxJobs \in Nat
  /\ Wrap \in Nat /\ Wrap > Cardinality(Workers)

Threads == Workers \cup Submitters
Jobs    == 1..MaxJobs
Items   == 0..CHOOSE n \in Counts : \A k \in Counts : k <= n

VARIABLES
  count, taskCount, job,   \* count_, task_count_, job_ (0 when empty)
  exception,               \* exception_: has a task thrown?
  nextTask, remaining,     \* next_task_, remaining_
  generation, stopping,
  mutex,                   \* who holds mutex_ over several steps
  submission,              \* who holds submission_mutex_
  pc, task,                \* each thread, and the task it fetched
  running,                 \* the job a thread is inside of, and the items
  observed,                \* observed_generation of a worker
  mine,                    \* the job a submitter submitted last
  size,                    \* history: items of each job
  ran,                     \* history: how often each item was processed
  thrown,                  \* history: jobs whose function threw
  result                   \* what parallel_for did: "open", "ok", "error"

sharedVars  == <<count, taskCount, job, exception, nextTask, remaining,
                 generation, stopping>>
threadVars  == <<task, running, observed, mine>>
historyVars == <<size, ran, thrown>>
vars == <<sharedVars, mutex, submission, pc, threadVars, historyVars, result>>

Idle == [job |-> 0, items |-> {}]

Init ==
  /\ count = 0 /\ taskCount = 0 /\ job = 0 /\ exception = FALSE
  /\ nextTask = 0 /\ remaining = 0 /\ generation = 0 /\ stopping = FALSE
  /\ mutex = None /\ submission = None
  /\ pc = [t \in Threads |-> IF t \in Workers THEN "wait" ELSE "idle"]
  /\ task = [t \in Threads |-> 0]
  /\ running = [t \in Threads |-> Idle]
  /\ observed = [w \in Workers |-> 0]
  /\ mine = [s \in Submitters |-> 0]
  /\ size = [j \in Jobs |-> 0]
  /\ ran = [j \in Jobs |-> [i \in Items |-> 0]]
  /\ thrown = {}
  /\ result = [j \in Jobs |-> None]

Goto(t, where) == pc' = [pc EXCEPT ![t] = where]

-----------------------------------------------------------------------------
(* parallel_for: one task, or several.                                     *)
Submit(s, n) ==
  /\ pc[s] = "idle" /\ ~ stopping
  /\ \E j \in Jobs :
       /\ result[j] = None /\ \A k \in 1..j - 1 : result[k] # None
       /\ mine' = [mine EXCEPT ![s] = j]
       /\ size' = [size EXCEPT ![j] = n]
       /\ result' = [result EXCEPT ![j] = "open"]
  /\ Goto(s, IF TaskCount(Cardinality(Workers), n, 1) <= 1 THEN "serial"
             ELSE "lockSubmission")
  /\ UNCHANGED <<sharedVars, mutex, submission, task, running, observed, ran, thrown>>

(* The items of a range that a call of the function gets through.          *)
Processed(items) == {i \in items : \A k \in Throwing \cap items : i < k}
RanOnce(j, items) ==
  [ran EXCEPT ![j] = [i \in Items |-> IF i \in items THEN @[i] + 1 ELSE @[i]]]

(* Small work runs in the calling thread, as nested calls do.              *)
Serial(s) ==
  /\ pc[s] = "serial"
  /\ LET items == 0..size[mine[s]] - 1
     IN /\ ran' = RanOnce(mine[s], Processed(items))
        /\ IF Throwing \cap items = {}
             THEN thrown' = thrown /\ result' = [result EXCEPT ![mine[s]] = "ok"]
             ELSE /\ thrown' = thrown \cup {mine[s]}
                  /\ result' = [result EXCEPT ![mine[s]] = "error"]
  /\ Goto(s, "idle")
  /\ UNCHANGED <<sharedVars, mutex, submission, threadVars, size>>

LockSubmission(s) ==
  /\ pc[s] = "lockSubmission"
  /\ submission = None
  /\ submission' = s
  /\ Goto(s, "publish")
  /\ UNCHANGED <<sharedVars, mutex, threadVars, historyVars, result>>

publishFrame == <<stopping, submission, threadVars, historyVars, result>>

Publish(s) ==
  /\ pc[s] = "publish"
  /\ mutex = None
  /\ mutex' = s
  /\ count' = size[mine[s]]
  /\ taskCount' = TaskCount(Cardinality(Workers), size[mine[s]], 1)
  /\ job' = mine[s]
  /\ exception' = FALSE
  /\ Goto(s, "publishNext")
  /\ UNCHANGED <<publishFrame, nextTask, remaining, generation>>

PublishNext(s) ==
  /\ pc[s] = "publishNext"
  /\ nextTask' = 0
  /\ Goto(s, "publishRemaining")
  /\ UNCHANGED <<publishFrame, count, taskCount, job, exception, remaining,
                 generation, mutex>>

PublishRemaining(s) ==
  /\ pc[s] = "publishRemaining"
  /\ remaining' = taskCount
  /\ generation' = generation + 1
  /\ mutex' = None
  /\ Goto(s, "fetch")
  /\ UNCHANGED <<publishFrame, count, taskCount, job, exception, nextTask>>

-----------------------------------------------------------------------------
(* worker_loop: the wait on work_cv_.                                      *)
WorkerWake(w) ==
  /\ pc[w] = "wait" /\ mutex = None
  /\ ~ stopping /\ generation # observed[w]
  /\ observed' = [observed EXCEPT ![w] = generation]
  /\ Goto(w, "fetch")
  /\ UNCHANGED <<sharedVars, mutex, submission, task, running, mine, historyVars,
                 result>>

WorkerLeave(w) ==
  /\ pc[w] = "wait" /\ mutex = None
  /\ stopping
  /\ Goto(w, "gone")
  /\ UNCHANGED <<sharedVars, mutex, submission, threadVars, historyVars, result>>

-----------------------------------------------------------------------------
(* execute_tasks, by workers and submitters alike.                         *)
taskFrame == <<count, taskCount, job, generation, stopping, submission, observed,
               mine, size, result>>

(* Mutant: the counter is read and not advanced in one step. *)
FetchByLoad(t) ==
  /\ pc[t] = "fetch"
  /\ \E n \in {nextTask, nextTask - 1} \cap 0..nextTask :
       task' = [task EXCEPT ![t] = n]
  /\ nextTask' = nextTask + 1
  /\ Goto(t, "compare")
  /\ UNCHANGED <<taskFrame, exception, remaining, mutex, running, ran, thrown>>

Fetch(t) ==
  /\ pc[t] = "fetch"
  /\ task' = [task EXCEPT ![t] = nextTask]
  /\ nextTask' = nextTask + 1
  /\ Goto(t, "compare")
  /\ UNCHANGED <<taskFrame, exception, remaining, mutex, running, ran, thrown>>

(* task >= task_count_ ends the loop; otherwise the call begins.           *)
Compare(t) ==
  /\ pc[t] = "compare"
  /\ \/ /\ task[t] >= taskCount
        /\ Goto(t, IF t \in Workers THEN "wait" ELSE "testDone")
        /\ UNCHANGED running
     \/ /\ task[t] < taskCount
        /\ running' = [running EXCEPT ![t] =
             [job |-> job, items |-> TaskItems(count, taskCount, task[t])]]
        /\ Goto(t, "run")
  /\ UNCHANGED <<taskFrame, exception, nextTask, remaining, mutex, task, ran, thrown>>

(* job_(begin, end); an empty job_ throws bad_function_call.               *)
Run(t) ==
  LET j     == running[t].job
      items == running[t].items
  IN /\ pc[t] = "run"
     /\ \/ /\ j # 0 /\ Throwing \cap items = {}
           /\ ran' = RanOnce(j, items)
           /\ Goto(t, "subtract")
           /\ UNCHANGED thrown
        \/ /\ j # 0 /\ Throwing \cap items # {}
           /\ ran' = RanOnce(j, Processed(items))
           /\ thrown' = thrown \cup {j}
           /\ Goto(t, "catch")
        \/ /\ j = 0
           /\ Goto(t, "catch")
           /\ UNCHANGED <<ran, thrown>>
     /\ running' = [running EXCEPT ![t] = Idle]
     /\ UNCHANGED <<taskFrame, exception, nextTask, remaining, mutex, task>>

Catch(t) ==
  /\ pc[t] = "catch" /\ mutex = None
  /\ exception' = TRUE
  /\ Goto(t, "subtract")
  /\ UNCHANGED <<taskFrame, nextTask, remaining, mutex, task, running, ran, thrown>>

Subtract(t) ==
  /\ pc[t] = "subtract"
  /\ remaining' = (remaining - 1) % Wrap
  /\ Goto(t, IF remaining = 1 THEN "notify" ELSE "fetch")
  /\ UNCHANGED <<taskFrame, exception, nextTask, mutex, task, running, ran, thrown>>

(* notify_one wakes the submitter only if it is already blocked.           *)
Notify(t) ==
  /\ pc[t] = "notify"
  /\ pc' = [u \in Threads |->
              IF u = t THEN "fetch" ELSE IF pc[u] = "blocked" THEN "testDone" ELSE pc[u]]
  /\ UNCHANGED <<taskFrame, exception, nextTask, remaining, mutex, task, running,
                 ran, thrown>>

-----------------------------------------------------------------------------
(* The end of parallel_for: done_cv_.wait, then the results.               *)
finishFrame == <<count, taskCount, nextTask, remaining, generation, stopping,
                 threadVars, historyVars>>

(* Mutant: the last task is taken for done. *)
TestAlmostDone(s) ==
  /\ pc[s] = "testDone" /\ mutex = None
  /\ mutex' = s
  /\ Goto(s, IF remaining <= 1 THEN "collect" ELSE "block")
  /\ UNCHANGED <<finishFrame, job, exception, submission, result>>

TestDone(s) ==
  /\ pc[s] = "testDone" /\ mutex = None
  /\ mutex' = s
  /\ Goto(s, IF remaining = 0 THEN "collect" ELSE "block")
  /\ UNCHANGED <<finishFrame, job, exception, submission, result>>

Block(s) ==
  /\ pc[s] = "block"
  /\ mutex' = None
  /\ Goto(s, "blocked")
  /\ UNCHANGED <<finishFrame, job, exception, submission, result>>

(* job_ = {}, then the exception is rethrown or the call returns.          *)
Collect(s) ==
  /\ pc[s] = "collect"
  /\ job' = 0
  /\ result' = [result EXCEPT ![mine[s]] = IF exception THEN "error" ELSE "ok"]
  /\ mutex' = None /\ submission' = None
  /\ Goto(s, "idle")
  /\ UNCHANGED <<finishFrame, exception>>

-----------------------------------------------------------------------------
(* Mutant: the destructor does not raise stopping_. *)
DestroyWithoutStopping ==
  /\ ~ stopping /\ generation <= MaxJobs
  /\ \A s \in Submitters : pc[s] = "idle"
  /\ generation' = generation + 1
  /\ UNCHANGED <<stopping, count, taskCount, job, exception, nextTask, remaining,
                 mutex, submission, pc, threadVars, historyVars, result>>

(* The destructor, once no parallel_for is in progress.                    *)
Destroy ==
  /\ ~ stopping
  /\ \A s \in Submitters : pc[s] = "idle"
  /\ stopping' = TRUE
  /\ generation' = generation + 1
  /\ UNCHANGED <<count, taskCount, job, exception, nextTask, remaining, mutex,
                 submission, pc, threadVars, historyVars, result>>

Execute(t) ==
  Fetch(t) \/ Compare(t) \/ Run(t) \/ Catch(t) \/ Subtract(t) \/ Notify(t)

SubmitterStep(s) ==
  \/ Serial(s) \/ LockSubmission(s) \/ Publish(s) \/ PublishNext(s)
  \/ PublishRemaining(s) \/ Execute(s) \/ TestDone(s) \/ Block(s) \/ Collect(s)

WorkerStep(w) == WorkerWake(w) \/ WorkerLeave(w) \/ Execute(w)

Next ==
  \/ \E s \in Submitters : SubmitterStep(s) \/ \E n \in Counts : Submit(s, n)
  \/ \E w \in Workers : WorkerStep(w)
  \/ Destroy

Spec == Init /\ [][Next]_vars

(* Every thread that can run does; nobody has to submit or to destroy.     *)
FairSpec ==
  /\ Spec
  /\ \A s \in Submitters : WF_vars(SubmitterStep(s))
  /\ \A w \in Workers : WF_vars(WorkerStep(w))

(* As above for an owner that does destroy the executor when it is unused. *)
DestroyedSpec == FairSpec /\ WF_vars(Destroy)

-----------------------------------------------------------------------------
SubmitterPCs == {"idle", "serial", "lockSubmission", "publish", "publishNext",
                 "publishRemaining", "testDone", "block", "blocked", "collect"}
WorkerPCs    == {"wait", "gone"}
TaskPCs      == {"fetch", "compare", "run", "catch", "subtract", "notify"}

(* Every variable keeps its type.                                          *)
TypeOK ==
  /\ count \in Nat /\ taskCount \in 0..Cardinality(Workers) /\ job \in 0..MaxJobs
  /\ exception \in BOOLEAN
  /\ nextTask \in Nat /\ remaining \in 0..Wrap - 1
  /\ generation \in Nat /\ stopping \in BOOLEAN
  /\ mutex \in Submitters \cup {None} /\ submission \in Submitters \cup {None}
  /\ pc \in [Threads -> SubmitterPCs \cup WorkerPCs \cup TaskPCs]
  /\ task \in [Threads -> Nat]
  /\ running \in [Threads -> [job : 0..MaxJobs, items : SUBSET Int]]
  /\ observed \in [Workers -> Nat] /\ mine \in [Submitters -> 0..MaxJobs]
  /\ size \in [Jobs -> Counts \cup {0}] /\ ran \in [Jobs -> [Items -> Nat]]
  /\ thrown \subseteq Jobs
  /\ result \in [Jobs -> {None, "open", "ok", "error"}]

(* "Every output element or tile has one owner": no item is processed       *)
(* twice, whichever threads fetch the tasks.                               *)
OneOwner == \A j \in Jobs, i \in Items : ran[j][i] <= 1

(* parallel_for returns only when its work is done: every item has been    *)
(* processed and no thread is still inside the function.                   *)
CompleteOnReturn ==
  \A j \in Jobs :
    /\ result[j] \in {"ok", "error"} => \A t \in Threads : running[t].job # j
    /\ result[j] \in {"ok", "error"} /\ j \notin thrown
         => \A i \in 0..size[j] - 1 : ran[j][i] # 0

(* "Exceptions are captured on workers and rethrown to the submitting      *)
(* thread" - and only exceptions of that job.                              *)
ExceptionsReachCaller ==
  \A j \in Jobs : result[j] \in {"ok", "error"} => (result[j] = "error") = (j \in thrown)

(* What a call of parallel_for tells its caller when it returns is true,   *)
(* whatever stragglers of earlier jobs do meanwhile.                       *)
ReturnIsTrue == CompleteOnReturn /\ ExceptionsReachCaller

(* Every call of parallel_for returns (the concurrent submissions of       *)
(* test_cpu_parallel_qualification.cpp are joined).                        *)
CallsReturn == \A j \in Jobs : result[j] = "open" ~> result[j] \in {"ok", "error"}

(* "The executor owns persistent workers and joins them": when nobody       *)
(* submits any more, every worker leaves, whatever jobs came before.       *)
DestructionEnds ==
  <>[](\A s \in Submitters : pc[s] = "idle") => <>(\A w \in Workers : pc[w] = "gone")
=============================================================================
