------------------------------ MODULE JobQueue ------------------------------
(***************************************************************************)
(* The production job queue, xrpld/app/src/job/job_queue.rs: a fixed pool  *)
(* of worker threads that take jobs by priority under a concurrency limit  *)
(* per job type, callers that add jobs, reserve them by hand, wait for the *)
(* queue to drain (rendezvous) and stop it.                                *)
(*                                                                         *)
(* One mutex protects the state; each critical section is one action.  The *)
(* condition variables are notified after the unlock, so a notification is *)
(* a step of its own.  `stopping' is stored without the mutex, so the scan *)
(* of a worker that finds nothing is split at the read of `stopping': the  *)
(* worker keeps the mutex (variable mutex) until it is parked.             *)
(***************************************************************************)
EXTENDS Integers, Sequences, FiniteSets

CONSTANTS
    Workers,   \* the worker threads spawned by JobQueue::new
    Callers,   \* threads that call stop() and rendezvous()
    Types,     \* job types; the number is the priority
    Limit,     \* JobType::limit: 0 marks a special type
    MaxJobs    \* bound: how many jobs are ever accepted

ASSUME JobQueueAssumption ==
    /\ Types \subseteq Nat
    /\ Limit \in [Types -> Nat]
    /\ MaxJobs \in Nat
    /\ IsFiniteSet(Workers)
    /\ 0 \notin Workers

VARIABLES
    typeOf,        \* type of every accepted job; next_index is its length
    queue,         \* State::queue: indices of the jobs that wait
    waiting, running, deferred,   \* JobTypeCounters, per type
    processCount,  \* State::process_count
    reserved,      \* jobs held by a RunningJob handle
    done,          \* jobs that ran to the end (history)
    stopping, stopped,
    mutex,         \* 0, or the worker that is about to park
    wpc, job,      \* per worker: where it is, and the job it holds (0: none)
    note,          \* per worker: notifications it owes after a finished job
    owedOne, owedIdle,   \* notifications owed by add_job and finish_inner
    cpc,           \* per caller: where it is in stop() or rendezvous()
    handles,       \* JobQueueInner::workers: handles not yet taken
    taken          \* per caller: handles taken by its stop()

stateVars == <<typeOf, queue, waiting, running, deferred, processCount>>
workerVars == <<mutex, wpc, job, note>>
callerVars == <<cpc, handles, taken>>
vars == <<stateVars, workerVars, callerVars, reserved, done, stopping,
          stopped, owedOne, owedIdle>>

Indices == 1 .. Len(typeOf)
NoNote == [idle |-> FALSE, one |-> FALSE]
Held == reserved \cup ({job[w] : w \in Workers} \ {0})

Init ==
    /\ typeOf = <<>> /\ queue = {}
    /\ waiting = [t \in Types |-> 0]
    /\ running = [t \in Types |-> 0]
    /\ deferred = [t \in Types |-> 0]
    /\ processCount = 0 /\ reserved = {} /\ done = {}
    /\ stopping = FALSE /\ stopped = FALSE /\ mutex = 0
    /\ wpc = [w \in Workers |-> "scan"]
    /\ job = [w \in Workers |-> 0]
    /\ note = [w \in Workers |-> NoNote]
    /\ owedOne = 0 /\ owedIdle = 0
    /\ cpc = [c \in Callers |-> "out"]
    /\ handles = Workers
    /\ taken = [c \in Callers |-> {}]
-----------------------------------------------------------------------------
(* Mutated forms of the operators below: bugs the code could have had.     *)

MutAccepting == ~stopped
MutUnderLimit(t) == running[t] < Limit[t]
MutPromoted(t) == FALSE
MutTake(j) ==
    /\ waiting' = [waiting EXCEPT ![typeOf[j]] = @ - 1]
    /\ running' = [running EXCEPT ![typeOf[j]] = @ + 1]
    /\ processCount' = processCount + 1
    /\ UNCHANGED <<typeOf, queue, deferred>>
\* the drain also waits for the workers to park, which no longer park.
MutStopDrain(c) ==
    /\ mutex = 0 /\ cpc[c] = "drain"
    /\ cpc' = [cpc EXCEPT ![c] =
                 IF queue = {} /\ \A w \in Workers : wpc[w] = "parked" THEN "wake2" ELSE "wake1"]
    /\ UNCHANGED <<stateVars, workerVars, handles, taken, reserved, done,
                   stopping, stopped, owedOne, owedIdle>>
-----------------------------------------------------------------------------
(* Helpers of State.                                                       *)

\* The re-check of the stop flags that add_job makes under the lock.
Accepting == ~stopping /\ ~stopped

\* add_job: is the new job inside its type's limit?
UnderLimit(t) == waiting[t] + running[t] < Limit[t]

\* take_next_runnable_job: may job j start now?
Runnable(j) == running[typeOf[j]] < Limit[typeOf[j]]

\* Ord for Job: the higher type first, then the earlier submission.
Before(i, j) == \/ typeOf[i] > typeOf[j]
                \/ typeOf[i] = typeOf[j] /\ i < j

\* take_next_runnable_job: the first runnable job in queue order.
Next1(j) == /\ j \in queue /\ Runnable(j)
            /\ \A i \in queue \ {j} : Runnable(i) => Before(j, i)

NothingRunnable == \A j \in queue : ~Runnable(j)

\* The bookkeeping of a successful take_next_runnable_job.
Take(j) ==
    /\ queue' = queue \ {j}
    /\ waiting' = [waiting EXCEPT ![typeOf[j]] = @ - 1]
    /\ running' = [running EXCEPT ![typeOf[j]] = @ + 1]
    /\ processCount' = processCount + 1
    /\ UNCHANGED <<typeOf, deferred>>

\* finish_job: was a deferred job promoted?
Promoted(t) == deferred[t] > 0

\* finish_job and the decrement of process_count after it.
Finish(j) ==
    LET t == typeOf[j]
    IN  /\ running' = [running EXCEPT ![t] = @ - 1]
        /\ deferred' = [deferred EXCEPT ![t] = IF Promoted(t) THEN @ - 1 ELSE @]
        /\ processCount' = processCount - 1
        /\ done' = done \cup {j}
        /\ UNCHANGED <<typeOf, queue, waiting>>

\* What rendezvous() and stop() wait for.
Idle == processCount = 0 /\ queue = {}

\* What the finisher of job j owes once it has released the lock.
Owed(j) == [idle |-> processCount' = 0 /\ queue = {},
            one  |-> Promoted(typeOf[j])]

Parked == {w \in Workers : wpc[w] = "parked"}

\* Condvar::notify_one on not_empty.
NotifyOne == IF Parked = {} THEN UNCHANGED wpc
             ELSE \E w \in Parked : wpc' = [wpc EXCEPT ![w] = "scan"]

\* Condvar::notify_all on not_empty: the new value of wpc.
NotifyAll == [w \in Workers |-> IF w \in Parked THEN "scan" ELSE wpc[w]]

\* Condvar::notify_all on idle: the new value of cpc.
NotifyIdle == [c \in Callers |-> CASE cpc[c] = "drainWait" -> "drain"
                                   [] cpc[c] = "rdvWait" -> "rdv"
                                   [] OTHER -> cpc[c]]
-----------------------------------------------------------------------------
(* Submission and manual dispatch.                                         *)

\* add_job up to the release of the lock; the notify_one is owed.
AddJob(t) ==
    /\ mutex = 0
    /\ Limit[t] > 0
    /\ Accepting
    /\ Len(typeOf) < MaxJobs
    /\ typeOf' = Append(typeOf, t)
    /\ queue' = queue \cup {Len(typeOf) + 1}
    /\ deferred' = [deferred EXCEPT ![t] = IF UnderLimit(t) THEN @ ELSE @ + 1]
    /\ waiting' = [waiting EXCEPT ![t] = @ + 1]
    /\ owedOne' = owedOne + 1
    /\ UNCHANGED <<running, processCount, workerVars, callerVars, reserved,
                   done, stopping, stopped, owedIdle>>

\* not_empty.notify_one() of add_job, or of finish_inner after a promotion.
PayOne ==
    /\ owedOne > 0
    /\ owedOne' = owedOne - 1
    /\ NotifyOne
    /\ UNCHANGED <<stateVars, mutex, job, note, callerVars, reserved, done,
                   stopping, stopped, owedIdle>>

\* reserve_next_job: the caller keeps a RunningJob.
Reserve(j) ==
    /\ mutex = 0
    /\ Next1(j)
    /\ Take(j)
    /\ reserved' = reserved \cup {j}
    /\ UNCHANGED <<workerVars, callerVars, done, stopping, stopped, owedOne,
                   owedIdle>>

\* RunningJob::finish_inner, called by finish() or by Drop.
FinishReserved(j) ==
    /\ mutex = 0
    /\ j \in reserved
    /\ Finish(j)
    /\ reserved' = reserved \ {j}
    /\ owedIdle' = IF Owed(j).idle THEN owedIdle + 1 ELSE owedIdle
    /\ owedOne' = IF Owed(j).one THEN owedOne + 1 ELSE owedOne
    /\ UNCHANGED <<workerVars, callerVars, stopping, stopped>>

\* idle.notify_all() of finish_inner.
PayIdle ==
    /\ owedIdle > 0
    /\ owedIdle' = owedIdle - 1
    /\ cpc' = NotifyIdle
    /\ UNCHANGED <<stateVars, workerVars, handles, taken, reserved, done,
                   stopping, stopped, owedOne>>
-----------------------------------------------------------------------------
(* worker_loop.                                                            *)

\* The worker takes the lock and finds a runnable job.
ScanHit(w, j) ==
    /\ mutex = 0 /\ wpc[w] = "scan"
    /\ Next1(j)
    /\ Take(j)
    /\ wpc' = [wpc EXCEPT ![w] = "run"]
    /\ job' = [job EXCEPT ![w] = j]
    /\ UNCHANGED <<mutex, note, callerVars, reserved, done, stopping, stopped,
                   owedOne, owedIdle>>

\* Nothing runnable, the stop flag is set and the queue is empty: return.
ScanExit(w) ==
    /\ mutex = 0 /\ wpc[w] = "scan"
    /\ NothingRunnable
    /\ stopping /\ queue = {}
    /\ wpc' = [wpc EXCEPT ![w] = "exited"]
    /\ UNCHANGED <<stateVars, mutex, job, note, callerVars, reserved, done,
                   stopping, stopped, owedOne, owedIdle>>

\* Nothing runnable and no reason to return: the decision to wait is made.
ScanMiss(w) ==
    /\ mutex = 0 /\ wpc[w] = "scan"
    /\ NothingRunnable
    /\ ~(stopping /\ queue = {})
    /\ mutex' = w
    /\ wpc' = [wpc EXCEPT ![w] = "parking"]
    /\ UNCHANGED <<stateVars, job, note, callerVars, reserved, done, stopping,
                   stopped, owedOne, owedIdle>>

\* not_empty.wait: the worker joins the waiters and releases the lock.
Park(w) ==
    /\ wpc[w] = "parking"
    /\ mutex' = 0
    /\ wpc' = [wpc EXCEPT ![w] = "parked"]
    /\ UNCHANGED <<stateVars, job, note, callerVars, reserved, done, stopping,
                   stopped, owedOne, owedIdle>>

\* The job returns or panics (catch_unwind); the worker finishes it.
FinishJob(w) ==
    /\ mutex = 0 /\ wpc[w] = "run"
    /\ Finish(job[w])
    /\ note' = [note EXCEPT ![w] = Owed(job[w])]
    /\ wpc' = [wpc EXCEPT ![w] = "notify"]
    /\ job' = [job EXCEPT ![w] = 0]
    /\ UNCHANGED <<mutex, callerVars, reserved, stopping, stopped, owedOne,
                   owedIdle>>

\* The notifications after the unlock, and back to the top of the loop.
Notify(w) ==
    /\ wpc[w] = "notify"
    /\ cpc' = IF note[w].idle THEN NotifyIdle ELSE cpc
    /\ IF note[w].one /\ Parked # {}
         THEN \E v \in Parked : wpc' = [wpc EXCEPT ![v] = "scan", ![w] = "scan"]
         ELSE wpc' = [wpc EXCEPT ![w] = "scan"]
    /\ note' = [note EXCEPT ![w] = NoNote]
    /\ UNCHANGED <<stateVars, mutex, job, handles, taken, reserved, done,
                   stopping, stopped, owedOne, owedIdle>>
-----------------------------------------------------------------------------
(* rendezvous() and stop().                                                *)

CallerStep(c, from, to) ==
    /\ cpc[c] = from
    /\ cpc' = [cpc EXCEPT ![c] = to]

Rendezvous(c) ==
    /\ CallerStep(c, "out", "rdv")
    /\ UNCHANGED <<stateVars, workerVars, handles, taken, reserved, done,
                   stopping, stopped, owedOne, owedIdle>>

RendezvousCheck(c) ==
    /\ mutex = 0
    /\ CallerStep(c, "rdv", IF Idle THEN "out" ELSE "rdvWait")
    /\ UNCHANGED <<stateVars, workerVars, handles, taken, reserved, done,
                   stopping, stopped, owedOne, owedIdle>>

\* stop(): stopping.store(true), without the mutex.
Stop(c) ==
    /\ CallerStep(c, "out", "wake1")
    /\ stopping' = TRUE
    /\ UNCHANGED <<stateVars, workerVars, handles, taken, reserved, done,
                   stopped, owedOne, owedIdle>>

\* not_empty.notify_all(), before and after the drain.
StopWake(c) ==
    /\ \/ CallerStep(c, "wake1", "drain")
       \/ CallerStep(c, "wake2", "take")
    /\ wpc' = NotifyAll
    /\ UNCHANGED <<stateVars, mutex, job, note, handles, taken, reserved, done,
                   stopping, stopped, owedOne, owedIdle>>

StopDrain(c) ==
    /\ mutex = 0
    /\ CallerStep(c, "drain", IF Idle THEN "wake2" ELSE "drainWait")
    /\ UNCHANGED <<stateVars, workerVars, handles, taken, reserved, done,
                   stopping, stopped, owedOne, owedIdle>>

\* mem::take of the worker handles.
StopTake(c) ==
    /\ CallerStep(c, "take", "join")
    /\ taken' = [taken EXCEPT ![c] = handles]
    /\ handles' = {}
    /\ UNCHANGED <<stateVars, workerVars, reserved, done, stopping, stopped,
                   owedOne, owedIdle>>

\* Every taken handle is joined, and the queue is marked stopped.
StopJoin(c) ==
    /\ CallerStep(c, "join", "out")
    /\ \A w \in taken[c] : wpc[w] = "exited"
    /\ taken' = [taken EXCEPT ![c] = {}]
    /\ stopped' = TRUE
    /\ UNCHANGED <<stateVars, workerVars, handles, reserved, done, stopping,
                   owedOne, owedIdle>>
-----------------------------------------------------------------------------
WorkerNext(w) ==
    \/ \E j \in queue : ScanHit(w, j)
    \/ ScanExit(w) \/ ScanMiss(w) \/ Park(w) \/ FinishJob(w) \/ Notify(w)

CallerNext(c) ==
    \/ RendezvousCheck(c) \/ StopWake(c) \/ StopDrain(c) \/ StopTake(c)
    \/ StopJoin(c)

Next ==
    \/ \E t \in Types : AddJob(t)
    \/ PayOne
    \/ \E j \in queue : Reserve(j)
    \/ \E j \in reserved : FinishReserved(j)
    \/ PayIdle
    \/ \E w \in Workers : WorkerNext(w)
    \/ \E c \in Callers : Rendezvous(c) \/ Stop(c) \/ CallerNext(c)

Spec == Init /\ [][Next]_vars

\* The threads are scheduled, jobs end and handles are finished or dropped;
\* nobody is obliged to add a job, to reserve one or to call stop.
Fairness ==
    /\ \A w \in Workers : WF_vars(WorkerNext(w))
    /\ \A c \in Callers : WF_vars(CallerNext(c))
    /\ WF_vars(PayOne) /\ WF_vars(PayIdle)
    /\ WF_vars(\E j \in reserved : FinishReserved(j))

FairSpec == Spec /\ Fairness
-----------------------------------------------------------------------------
(* Properties.                                                             *)

\* Every variable has the type of its field; no counter falls below zero.
TypeOK ==
    /\ typeOf \in Seq(Types) /\ Len(typeOf) <= MaxJobs
    /\ queue \subseteq Indices /\ reserved \subseteq Indices
    /\ done \subseteq Indices
    /\ waiting \in [Types -> Nat]
    /\ running \in [Types -> Nat]
    /\ deferred \in [Types -> Nat]
    /\ processCount \in Nat /\ owedOne \in Nat /\ owedIdle \in Nat
    /\ stopping \in BOOLEAN /\ stopped \in BOOLEAN
    /\ mutex \in Workers \cup {0}
    /\ wpc \in [Workers -> {"scan", "parking", "parked", "run", "notify",
                           "exited"}]
    /\ job \in [Workers -> Indices \cup {0}]
    /\ note \in [Workers -> [idle : BOOLEAN, one : BOOLEAN]]
    /\ cpc \in [Callers -> {"out", "rdv", "rdvWait", "wake1", "drain",
                           "drainWait", "wake2", "take", "join"}]
    /\ handles \subseteq Workers
    /\ taken \in [Callers -> SUBSET Workers]

OfType(S, t) == {j \in S : typeOf[j] = t}

\* The counters that decide dispatch agree with the jobs themselves, and the
\* deferred count is exactly the excess of a type over its limit: finish_job
\* relies on it to know that a slot it frees is wanted (job_queue.rs:762).
CountersExact ==
    /\ \A t \in Types :
         /\ waiting[t] = Cardinality(OfType(queue, t))
         /\ running[t] = Cardinality(OfType(Held, t))
         /\ running[t] <= Limit[t]
         /\ deferred[t] = IF waiting[t] + running[t] > Limit[t]
                            THEN waiting[t] + running[t] - Limit[t] ELSE 0
    /\ processCount = Cardinality(Held)

\* Every accepted job is in exactly one place: queued, held by one worker or
\* one RunningJob, or done.  Nothing is lost or run twice.
NoJobLost ==
    /\ Indices = queue \cup Held \cup done
    /\ queue \cap Held = {} /\ queue \cap done = {} /\ Held \cap done = {}
    /\ \A v, w \in Workers : job[v] = job[w] /\ job[v] # 0 => v = w
    /\ \A w \in Workers : job[w] \notin reserved

\* After stop() has returned nothing is queued or running, whatever add_job
\* calls were blocked behind it.
StoppedIsDrained == stopped => queue = {} /\ Held = {}

\* Every accepted job runs, also when its type was at its limit or stop() was
\* called in the meantime.
EveryJobRuns ==
    \A j \in 1 .. MaxJobs : (j \in queue) ~> (j \in done)

\* stop() returns: no caller waits for a worker that nobody wakes.
StopReturns ==
    \A c \in Callers : (cpc[c] = "wake1") ~> (cpc[c] = "out")
=============================================================================
