----------------------------- MODULE WorkerPool -----------------------------
(***************************************************************************)
(* The pause/resume thread pool of xrpl/core/src/jobs/workers.rs.          *)
(*                                                                         *)
(* The counters are atomics and only the `paused' flag is protected by     *)
(* pause_mutex, so every atomic operation is a step: a worker is between   *)
(* the fetch_add that makes it the first active one and the store of the   *)
(* flag ("flagDown"), or between the fetch_sub that makes it the last one  *)
(* and the store ("flagUp"), while the others go on.                       *)
(*                                                                         *)
(* One owner calls set_number_of_threads and stop, as JobQueue does; any   *)
(* thread calls add_task.                                                  *)
(***************************************************************************)
EXTENDS Integers, Sequences, FiniteSets

CONSTANTS
    Threads,     \* threads that may be spawned; bounds spawn_worker
    Sizes,       \* arguments of set_number_of_threads
    MaxTasks,    \* bound: calls of add_task
    MaxCalls     \* bound: calls of set_number_of_threads and stop

ASSUME WorkerPoolAssumption ==
    /\ IsFiniteSet(Threads) /\ Sizes \subseteq Nat
    /\ MaxTasks \in Nat /\ MaxCalls \in Nat

VARIABLES
    sem,            \* WorkersInner::semaphore
    numThreads,     \* number_of_threads
    active,         \* active_count
    pauseCount,     \* pause_count
    runningTasks,   \* running_task_count
    paused,         \* the flag behind pause_mutex
    stack,          \* paused_workers
    wakeCount,      \* per thread: WakeState::wake_count
    pc,             \* per thread
    owner,          \* the owner: what it does, how often still, its target
    calls,          \* calls made by the owner (bound)
    posted, done    \* tasks posted and tasks processed (history)

vars == <<sem, numThreads, active, pauseCount, runningTasks, paused, stack,
          wakeCount, pc, owner, calls, posted, done>>
shared == <<sem, numThreads, active, pauseCount, runningTasks, paused, stack,
            wakeCount>>

OwnerIdle == [at |-> "idle", left |-> 0, to |-> 0, stop |-> FALSE]

Init ==
    /\ sem = 0 /\ numThreads = 0 /\ active = 0 /\ pauseCount = 0
    /\ runningTasks = 0 /\ paused = TRUE /\ stack = <<>>
    /\ wakeCount = [t \in Threads |-> 0]
    /\ pc = [t \in Threads |-> "unborn"]
    /\ owner = OwnerIdle /\ calls = 0 /\ posted = 0 /\ done = 0

Unborn == {t \in Threads : pc[t] = "unborn"}
At(s) == {t \in Threads : pc[t] = s}
Go(t, from, to) == pc[t] = from /\ pc' = [pc EXCEPT ![t] = to]
-----------------------------------------------------------------------------
(* Mutated forms.                                                          *)

\* the flag is raised without pause_cv.notify_all().
MutFlagUp(t) ==
    /\ Go(t, "flagUp", "asleep")
    /\ paused' = TRUE
    /\ UNCHANGED <<sem, numThreads, active, pauseCount, runningTasks, stack,
                   wakeCount, owner, calls, posted, done>>
\* a pause request without its token.
MutShrinkPost ==
    /\ owner.at = "shrinkPost"
    /\ owner' = [owner EXCEPT !.at = "shrink", !.left = @ - 1]
    /\ UNCHANGED <<shared, pc, calls, posted, done>>
\* a paused worker is taken off the stack and not notified.
MutGrow ==
    /\ owner.at = "grow" /\ owner.left > 0
    /\ owner' = [owner EXCEPT !.left = @ - 1]
    /\ \/ /\ stack # <<>>
          /\ stack' = SubSeq(stack, 1, Len(stack) - 1)
          /\ UNCHANGED pc
       \/ /\ stack = <<>>
          /\ \E t \in Unborn : pc' = [pc EXCEPT ![t] = "enter"]
          /\ UNCHANGED stack
    /\ UNCHANGED <<sem, numThreads, active, pauseCount, runningTasks, paused,
                   wakeCount, calls, posted, done>>
-----------------------------------------------------------------------------
(* The owner.                                                              *)

\* pause_cv.notify_all(): the owner re-checks if it waits.
NotifyOwner == IF owner.at = "stopWait" THEN [owner EXCEPT !.at = "stopCheck"]
                                        ELSE owner

\* set_number_of_threads(n), or the one in stop(): the choice of a branch.
Call(n, isStop) ==
    /\ owner.at \in {"idle", "stopped"}
    /\ calls < MaxCalls /\ calls' = calls + 1
    /\ n - numThreads <= Cardinality(Unborn) + Len(stack)    \* bound
    /\ owner' = [at |-> CASE n > numThreads -> "grow"
                          [] n < numThreads -> "shrink"
                          [] OTHER -> IF isStop THEN "stopCheck" ELSE "idle",
                 left |-> IF n > numThreads THEN n - numThreads
                                            ELSE numThreads - n,
                 to |-> n, stop |-> isStop]
    /\ UNCHANGED <<shared, pc, posted, done>>

SetNumberOfThreads == \E n \in Sizes : Call(n, FALSE)
Stop == Call(0, TRUE)

\* One turn of the growing loop: wake a paused worker or spawn one.
Grow ==
    /\ owner.at = "grow" /\ owner.left > 0
    /\ owner' = [owner EXCEPT !.left = @ - 1]
    /\ \/ /\ stack # <<>>
          /\ stack' = SubSeq(stack, 1, Len(stack) - 1)
          /\ wakeCount' = [wakeCount EXCEPT ![stack[Len(stack)]] = @ + 1]
          /\ UNCHANGED pc
       \/ /\ stack = <<>>
          /\ \E t \in Unborn : pc' = [pc EXCEPT ![t] = "enter"]
          /\ UNCHANGED <<stack, wakeCount>>
    /\ UNCHANGED <<sem, numThreads, active, pauseCount, runningTasks, paused,
                   calls, posted, done>>

\* One turn of the shrinking loop: the pause request, then its token.
ShrinkRequest ==
    /\ owner.at = "shrink" /\ owner.left > 0
    /\ pauseCount' = pauseCount + 1
    /\ owner' = [owner EXCEPT !.at = "shrinkPost"]
    /\ UNCHANGED <<sem, numThreads, active, runningTasks, paused, stack,
                   wakeCount, pc, calls, posted, done>>
ShrinkPost ==
    /\ owner.at = "shrinkPost"
    /\ sem' = sem + 1
    /\ owner' = [owner EXCEPT !.at = "shrink", !.left = @ - 1]
    /\ UNCHANGED <<numThreads, active, pauseCount, runningTasks, paused, stack,
                   wakeCount, pc, calls, posted, done>>

\* number_of_threads.store at the end of set_number_of_threads.
Store ==
    /\ owner.at \in {"grow", "shrink"} /\ owner.left = 0
    /\ numThreads' = owner.to
    /\ owner' = [owner EXCEPT !.at = IF owner.stop THEN "stopCheck" ELSE "idle"]
    /\ UNCHANGED <<sem, active, pauseCount, runningTasks, paused, stack,
                   wakeCount, pc, calls, posted, done>>

\* The wait of stop(), under pause_mutex.
StopCheck ==
    /\ owner.at = "stopCheck"
    /\ owner' = [owner EXCEPT !.at = IF paused /\ runningTasks = 0
                                       THEN "stopped" ELSE "stopWait"]
    /\ UNCHANGED <<shared, pc, calls, posted, done>>

\* add_task.
AddTask ==
    /\ posted < MaxTasks
    /\ posted' = posted + 1
    /\ sem' = sem + 1
    /\ UNCHANGED <<numThreads, active, pauseCount, runningTasks, paused, stack,
                   wakeCount, pc, owner, calls, done>>
-----------------------------------------------------------------------------
(* worker_main.                                                            *)

\* active_count.fetch_add: the first one in must lower the flag.
Enter(t) ==
    /\ Go(t, "enter", IF active = 0 THEN "flagDown" ELSE "wait")
    /\ active' = active + 1
    /\ UNCHANGED <<sem, numThreads, pauseCount, runningTasks, paused, stack,
                   wakeCount, owner, calls, posted, done>>

FlagDown(t) ==
    /\ Go(t, "flagDown", "wait")
    /\ paused' = FALSE
    /\ UNCHANGED <<sem, numThreads, active, pauseCount, runningTasks, stack,
                   wakeCount, owner, calls, posted, done>>

\* semaphore.wait().
SemWait(t) ==
    /\ sem > 0
    /\ Go(t, "wait", "token")
    /\ sem' = sem - 1
    /\ UNCHANGED <<numThreads, active, pauseCount, runningTasks, paused, stack,
                   wakeCount, owner, calls, posted, done>>

\* acquire_pause_request: a compare-exchange loop, so one step.
TakeToken(t) ==
    /\ Go(t, "token", IF pauseCount > 0 THEN "push" ELSE "begin")
    /\ pauseCount' = IF pauseCount > 0 THEN pauseCount - 1 ELSE pauseCount
    /\ UNCHANGED <<sem, numThreads, active, runningTasks, paused, stack,
                   wakeCount, owner, calls, posted, done>>

Begin(t) ==
    /\ Go(t, "begin", "task")
    /\ runningTasks' = runningTasks + 1
    /\ UNCHANGED <<sem, numThreads, active, pauseCount, paused, stack,
                   wakeCount, owner, calls, posted, done>>

\* process_task returns.
ProcessTask(t) ==
    /\ Go(t, "task", "end")
    /\ done' = done + 1
    /\ UNCHANGED <<shared, owner, calls, posted>>

\* finish_running_task: the decrement, then the notification if it was last.
FinishRunningTask(t) ==
    /\ Go(t, "end", IF runningTasks = 1 THEN "notify" ELSE "wait")
    /\ runningTasks' = runningTasks - 1
    /\ UNCHANGED <<sem, numThreads, active, pauseCount, paused, stack,
                   wakeCount, owner, calls, posted, done>>
NotifyDone(t) ==
    /\ Go(t, "notify", "wait")
    /\ owner' = NotifyOwner
    /\ UNCHANGED <<shared, calls, posted, done>>

Push(t) ==
    /\ Go(t, "push", "leave")
    /\ stack' = Append(stack, t)
    /\ UNCHANGED <<sem, numThreads, active, pauseCount, runningTasks, paused,
                   wakeCount, owner, calls, posted, done>>

\* active_count.fetch_sub: the last one out must raise the flag.
Leave(t) ==
    /\ Go(t, "leave", IF active = 1 THEN "flagUp" ELSE "asleep")
    /\ active' = active - 1
    /\ UNCHANGED <<sem, numThreads, pauseCount, runningTasks, paused, stack,
                   wakeCount, owner, calls, posted, done>>

FlagUp(t) ==
    /\ Go(t, "flagUp", "asleep")
    /\ paused' = TRUE
    /\ owner' = NotifyOwner
    /\ UNCHANGED <<sem, numThreads, active, pauseCount, runningTasks, stack,
                   wakeCount, calls, posted, done>>

\* wait_for_wakeup.
Wake(t) ==
    /\ wakeCount[t] > 0
    /\ Go(t, "asleep", "enter")
    /\ wakeCount' = [wakeCount EXCEPT ![t] = @ - 1]
    /\ UNCHANGED <<sem, numThreads, active, pauseCount, runningTasks, paused,
                   stack, owner, calls, posted, done>>
-----------------------------------------------------------------------------
ThreadNext(t) ==
    \/ Enter(t) \/ FlagDown(t) \/ SemWait(t) \/ TakeToken(t) \/ Begin(t)
    \/ ProcessTask(t) \/ FinishRunningTask(t) \/ NotifyDone(t) \/ Push(t)
    \/ Leave(t) \/ FlagUp(t) \/ Wake(t)

OwnerNext == Grow \/ ShrinkRequest \/ ShrinkPost \/ Store \/ StopCheck

Next ==
    \/ SetNumberOfThreads \/ Stop \/ AddTask \/ OwnerNext
    \/ \E t \in Threads : ThreadNext(t)

Spec == Init /\ [][Next]_vars

\* Threads are scheduled; nobody has to add tasks or to call the pool.
FairSpec ==
    /\ Spec
    /\ WF_vars(OwnerNext)
    /\ \A t \in Threads : WF_vars(ThreadNext(t))
-----------------------------------------------------------------------------
(* Properties.                                                             *)

\* The pcs between fetch_add and fetch_sub on active_count.
ActivePcs == {"flagDown", "wait", "token", "begin", "task", "end", "notify",
              "push", "leave"}
Outside == {"unborn", "push", "leave", "flagUp", "asleep"}

\* The number of threads that the pool has been asked for so far.
Target ==
    CASE owner.at = "grow" -> owner.to - owner.left
      [] owner.at = "shrink" -> owner.to + owner.left
      [] owner.at = "shrinkPost" -> owner.to + owner.left - 1
      [] OTHER -> numThreads

\* set_number_of_threads: the workers that will serve tasks (those in the loop
\* and those woken) less the outstanding pause requests are as many as asked
\* for, and the counters agree with where the workers are: no worker is both
\* woken and paused, none is woken twice, and none is forgotten.  The tokens, on
\* the semaphore or in a worker's hands, are as many as the tasks that have not run
\* and the pause requests, whichever token is spent on which.
PoolBalance ==
    /\ Cardinality({t \in Threads : pc[t] \notin Outside})
         + Cardinality({t \in Threads : wakeCount[t] > 0})
         - pauseCount = Target
    /\ active = Cardinality({t \in Threads : pc[t] \in ActivePcs})
    /\ runningTasks = Cardinality(At("task") \cup At("end"))
    /\ sem + Cardinality(At("token") \cup At("begin") \cup At("task"))
         + (IF owner.at = "shrinkPost" THEN 1 ELSE 0) = posted - done + pauseCount
    /\ \A i, j \in DOMAIN stack : stack[i] = stack[j] => i = j
    /\ \A t \in Threads :
          (\E i \in DOMAIN stack : stack[i] = t)
            <=> pc[t] \in {"leave", "flagUp", "asleep"} /\ wakeCount[t] = 0

\* stop(): the documented promise, "waits until all workers are paused and no
\* callback is running".
NoCallbackAfterStop == owner.at = "stopped" => At("task") = {}

\* stop() returns, once tasks are no longer added.
StopReturns == [](owner.stop /\ owner.at # "stopped" => <>(owner.at = "stopped"))

\* A pool that keeps at least one thread runs every task posted to it.
EveryTaskRuns ==
    <>[](numThreads > 0 /\ owner.at \in {"idle", "stopped"}) => <>[](done = posted)
=============================================================================
