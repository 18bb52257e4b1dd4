---------------------------- MODULE CoreJobQueue ----------------------------
(***************************************************************************)
(* The job queue of xrpl/core/src/jobs/job_queue.rs with its ClosureCounter *)
(* (closure_counter.rs), over the task tokens of the pool modelled in       *)
(* WorkerPool.                                                             *)
(*                                                                         *)
(* Each critical section is a step.  The end of process_task is three of   *)
(* them: the deferred count is read under one lock (Settle), `running' is  *)
(* lowered under the next (Retire), and the token for a deferred job is    *)
(* posted after both (Repost).                                             *)
(*                                                                         *)
(* The pool shows as `sem' and as the workers between semaphore.wait() and *)
(* the end of process_task.  Workers::stop() may return as soon as the     *)
(* count of running tasks is zero: WorkerPool shows that the flag it also  *)
(* waits for may be up early.                                              *)
(***************************************************************************)
EXTENDS Integers, FiniteSets, FiniteSetsExt

CONSTANTS
    Types,      \* job types, numbered by priority; those with a limit are known
    Limit,      \* limit of each known type
    Workers,    \* threads of the pool
    Callers,    \* threads that call add_job
    MaxJobs,    \* bound: jobs inserted
    MaxPanics   \* bound: jobs that panic

ASSUME CoreJobQueueAssumption ==
    /\ IsFiniteSet(Workers) /\ IsFiniteSet(Callers) /\ IsFiniteSet(DOMAIN Limit)
    /\ Types \subseteq Nat /\ DOMAIN Limit \subseteq Types
    /\ \A t \in DOMAIN Limit : Limit[t] \in Nat
    /\ MaxJobs \in Nat /\ MaxPanics \in Nat

VARIABLES
    queue, lastJob,                       \* jobs, last_job
    waiting, running, deferred,           \* job_data
    processCount,
    sem,                                  \* tokens posted by Workers::add_task
    pc, cur, owes,                        \* per worker
    count, joined,                        \* ClosureCounter
    stopping, stopped, stopPc,            \* flags; the thread that calls stop()
    addPc, addType,                       \* per caller of add_job
    finished, panics                      \* history

stateVars == <<queue, lastJob, waiting, running, deferred, processCount>>
workerVars == <<pc, cur, owes>>
counterVars == <<count, joined>>
stopVars == <<stopping, stopped, stopPc>>
addVars == <<addPc, addType>>
history == <<finished, panics>>
vars == <<stateVars, sem, workerVars, counterVars, stopVars, addVars, history>>

Known == DOMAIN Limit
NoJob == [type |-> 0, index |-> 0]
At(s) == {w \in Workers : pc[w] = s}
Move(w, from, to) == pc[w] = from /\ pc' = [pc EXCEPT ![w] = to]

Init ==
    /\ queue = {} /\ lastJob = 0 /\ processCount = 0 /\ sem = 0
    /\ waiting = [t \in Known |-> 0]
    /\ running = [t \in Known |-> 0]
    /\ deferred = [t \in Known |-> 0]
    /\ pc = [w \in Workers |-> "idle"]
    /\ cur = [w \in Workers |-> NoJob]
    /\ owes = [w \in Workers |-> FALSE]
    /\ count = 0 /\ joined = FALSE
    /\ stopping = FALSE /\ stopped = FALSE /\ stopPc = "idle"
    /\ addPc = [c \in Callers |-> "idle"]
    /\ addType = [c \in Callers |-> 0]
    /\ finished = {} /\ panics = 0
-----------------------------------------------------------------------------
(* Mutated forms.                                                          *)

\* one job more than the limit gets a token.
MutHasRoom(t) == waiting[t] + running[t] <= Limit[t]
\* the closure outlives its job.
MutRun(w) ==
    /\ Move(w, "run", "settle")
    /\ finished' = finished \cup {cur[w]}
    /\ UNCHANGED <<stateVars, sem, cur, owes, count, joined, stopVars, addVars,
                   panics>>
\* the closure is counted without the test of the joined flag.
MutAddWrap(c) ==
    /\ addPc[c] = "wrap"
    /\ addPc' = [addPc EXCEPT ![c] = "insert"]
    /\ count' = count + 1
    /\ UNCHANGED <<stateVars, sem, workerVars, joined, stopVars, addType, history>>
\* no token is posted for the deferred job.
MutRepost(w) ==
    /\ \/ Move(w, "repost", "idle")
       \/ Move(w, "repostP", "dead")
    /\ owes' = [owes EXCEPT ![w] = FALSE]
    /\ UNCHANGED <<stateVars, sem, cur, counterVars, stopVars, addVars, history>>
-----------------------------------------------------------------------------
(* add_job.                                                                *)

\* waiting + running < limit.
HasRoom(t) == waiting[t] + running[t] < Limit[t]

\* The test of the flags.
AddCheck(c) ==
    /\ addPc[c] = "idle"
    /\ lastJob + Cardinality({d \in Callers : addPc[d] # "idle"}) < MaxJobs
    /\ ~stopping /\ ~stopped
    /\ \E t \in Types : addType' = [addType EXCEPT ![c] = t]
    /\ addPc' = [addPc EXCEPT ![c] = "wrap"]
    /\ UNCHANGED <<stateVars, sem, workerVars, counterVars, stopVars, history>>

\* job_counter.wrap, refused once the counter is joined.
AddWrap(c) ==
    /\ addPc[c] = "wrap"
    /\ addPc' = [addPc EXCEPT ![c] = IF joined THEN "idle" ELSE "insert"]
    /\ count' = IF joined THEN count ELSE count + 1
    /\ UNCHANGED <<stateVars, sem, workerVars, joined, stopVars, addType, history>>

\* The critical section; an unknown type drops the counted closure.
AddInsert(c) ==
    LET t == addType[c] IN
    /\ addPc[c] = "insert"
    /\ addPc' = [addPc EXCEPT ![c] = "idle"]
    /\ \/ /\ t \notin Known
          /\ count' = count - 1
          /\ UNCHANGED <<stateVars, sem>>
       \/ /\ t \in Known
          /\ lastJob' = lastJob + 1
          /\ queue' = queue \cup {[type |-> t, index |-> lastJob']}
          /\ waiting' = [waiting EXCEPT ![t] = @ + 1]
          /\ \/ /\ HasRoom(t)
                /\ sem' = sem + 1
                /\ UNCHANGED deferred
             \/ /\ ~HasRoom(t)
                /\ deferred' = [deferred EXCEPT ![t] = @ + 1]
                /\ UNCHANGED sem
          /\ UNCHANGED <<running, processCount, count>>
    /\ UNCHANGED <<workerVars, joined, stopVars, addType, history>>
-----------------------------------------------------------------------------
(* A worker: one turn of the pool's loop and process_task.                 *)

Eligible(j) == Limit[j.type] > 0 /\ running[j.type] < Limit[j.type]
Before(i, j) == i.type > j.type \/ (i.type = j.type /\ i.index < j.index)
Selected(j) ==
    /\ j \in queue /\ Eligible(j)
    /\ \A i \in queue : Eligible(i) => i = j \/ Before(j, i)

\* semaphore.wait(); a stopped pool spends its tokens on the pause requests.
TakeToken(w) ==
    /\ sem > 0 /\ stopPc # "done"
    /\ Move(w, "idle", "granted")
    /\ sem' = sem - 1
    /\ UNCHANGED <<stateVars, cur, owes, counterVars, stopVars, addVars, history>>

\* running_task_count.fetch_add.
Begin(w) ==
    /\ Move(w, "granted", "pick")
    /\ UNCHANGED <<stateVars, sem, cur, owes, counterVars, stopVars, addVars,
                   history>>

\* The first critical section of process_task, which gives the token up when no
\* job may start.
Pick(w) ==
    IF \E j \in queue : Selected(j)
      THEN /\ \E j \in queue :
                 /\ Selected(j)
                 /\ Move(w, "pick", "run")
                 /\ cur' = [cur EXCEPT ![w] = j]
                 /\ queue' = queue \ {j}
                 /\ waiting' = [waiting EXCEPT ![j.type] = @ - 1]
                 /\ running' = [running EXCEPT ![j.type] = @ + 1]
                 /\ processCount' = processCount + 1
           /\ UNCHANGED <<lastJob, deferred, sem, owes, counterVars, stopVars,
                          addVars, history>>
      ELSE /\ Move(w, "pick", "idle")
           /\ UNCHANGED <<stateVars, sem, cur, owes, counterVars, stopVars,
                          addVars, history>>

\* do_job: the closure is dropped when it returns or unwinds.
Run(w) ==
    /\ \/ Move(w, "run", "settle") /\ UNCHANGED panics
       \/ Move(w, "run", "settleP") /\ panics < MaxPanics /\ panics' = panics + 1
    /\ finished' = finished \cup {cur[w]}
    /\ count' = count - 1
    /\ UNCHANGED <<stateVars, sem, cur, owes, joined, stopVars, addVars>>

\* should_add_task: the deferred count, under its own lock.
Settle(w) ==
    LET t == cur[w].type IN
    /\ \/ Move(w, "settle", "retire")
       \/ Move(w, "settleP", "retireP")
    /\ owes' = [owes EXCEPT ![w] = deferred[t] > 0]
    /\ deferred' = [deferred EXCEPT ![t] = IF @ > 0 THEN @ - 1 ELSE @]
    /\ UNCHANGED <<queue, lastJob, waiting, running, processCount, sem, cur,
                   counterVars, stopVars, addVars, history>>

\* running and process_count, under the next lock.
Retire(w) ==
    /\ \/ Move(w, "retire", "repost")
       \/ Move(w, "retireP", "repostP")
    /\ running' = [running EXCEPT ![cur[w].type] = @ - 1]
    /\ processCount' = processCount - 1
    /\ cur' = [cur EXCEPT ![w] = NoJob]
    /\ UNCHANGED <<queue, lastJob, waiting, deferred, sem, owes, counterVars,
                   stopVars, addVars, history>>

\* workers.add_task() for the deferred job; a panic then kills the thread, whose
\* running_task_count is never given back.
Repost(w) ==
    /\ \/ Move(w, "repost", "idle")
       \/ Move(w, "repostP", "dead")
    /\ sem' = IF owes[w] THEN sem + 1 ELSE sem
    /\ owes' = [owes EXCEPT ![w] = FALSE]
    /\ UNCHANGED <<stateVars, cur, counterVars, stopVars, addVars, history>>
-----------------------------------------------------------------------------
(* stop().                                                                 *)

Idle == processCount = 0 /\ queue = {}

Stop ==
    /\ stopPc = "idle" /\ ~stopped
    /\ stopping' = TRUE
    /\ stopPc' = "closing"
    /\ UNCHANGED <<stateVars, sem, workerVars, counterVars, stopped, addVars,
                   history>>

\* ClosureCounter::join: the flag, then the wait for the count.
StopClose ==
    /\ stopPc = "closing"
    /\ joined' = TRUE
    /\ stopPc' = "join"
    /\ UNCHANGED <<stateVars, sem, workerVars, count, stopping, stopped, addVars,
                   history>>
StopJoin ==
    /\ stopPc = "join" /\ count = 0
    /\ stopPc' = "rendezvous"
    /\ UNCHANGED <<stateVars, sem, workerVars, counterVars, stopping, stopped,
                   addVars, history>>

StopRendezvous ==
    /\ stopPc = "rendezvous" /\ Idle
    /\ stopPc' = "pool"
    /\ UNCHANGED <<stateVars, sem, workerVars, counterVars, stopping, stopped,
                   addVars, history>>

\* Workers::stop(), then the store of stopped.
StopPool ==
    /\ stopPc = "pool"
    /\ \A w \in Workers : pc[w] \in {"idle", "granted"}
    /\ stopPc' = "done"
    /\ stopped' = TRUE
    /\ UNCHANGED <<stateVars, sem, workerVars, counterVars, stopping, addVars,
                   history>>
-----------------------------------------------------------------------------
WorkerNext(w) ==
    \/ TakeToken(w) \/ Begin(w) \/ Pick(w) \/ Run(w)
    \/ Settle(w) \/ Retire(w) \/ Repost(w)
StopNext == StopClose \/ StopJoin \/ StopRendezvous \/ StopPool
AddNext(c) == AddWrap(c) \/ AddInsert(c)

Next ==
    \/ \E w \in Workers : WorkerNext(w)
    \/ \E c \in Callers : AddCheck(c) \/ AddNext(c)
    \/ Stop \/ StopNext

Spec == Init /\ [][Next]_vars

\* Threads are scheduled and jobs return; nobody has to add a job or to stop.
FairSpec ==
    /\ Spec
    /\ \A w \in Workers : WF_vars(WorkerNext(w))
    /\ \A c \in Callers : WF_vars(AddNext(c))
    /\ WF_vars(StopNext)
-----------------------------------------------------------------------------
(* Properties.                                                             *)

Executing(t) == {w \in Workers : cur[w].type = t /\ cur[w] # NoJob}

\* How many more jobs of each type the limits let run.
Startable == [t \in Known |-> Min({waiting[t], Limit[t] - running[t]})]

\* The counters that rendezvous, get_job_count and the limits read agree with
\* the jobs: waiting with the queue, running with the jobs being executed (never
\* more than the limit), process_count with their sum, and the closure counter
\* with the closures that exist.  And process_task never finds nothing to do:
\* there are at least as many jobs that may start as tokens and workers that
\* hold one.
JobsAreAccounted ==
    /\ \A t \in Known :
          /\ waiting[t] = Cardinality({j \in queue : j.type = t})
          /\ running[t] = Cardinality(Executing(t))
          /\ running[t] <= Limit[t]
    /\ processCount = SumFunction(running)
    /\ count = Cardinality(queue) + Cardinality(At("run"))
               + Cardinality({c \in Callers : addPc[c] = "insert"})
    /\ sem + Cardinality(At("granted") \cup At("pick"))
         <= SumFunction(Startable)

\* add_job racing stop(): once join has returned no job exists and none can be
\* inserted, although the flags were tested before the job was counted.
JoinedIsDrained ==
    stopPc \in {"rendezvous", "pool", "done"} =>
      /\ queue = {} /\ At("run") = {}
      /\ \A c \in Callers : addPc[c] # "insert"
      /\ Cardinality(finished) = lastJob

\* A deferred job that no finishing worker will post a token for: it was added
\* between the two critical sections that end process_task.
Orphaned(t) ==
    /\ deferred[t] > 0 /\ waiting[t] = deferred[t]
    /\ \A w \in Workers : cur[w].type = t => pc[w] \in {"retire", "retireP"}

\* Every job that add_job accepted is executed.
EveryJobRuns ==
    \A i \in 1..MaxJobs : lastJob >= i ~> \E j \in finished : j.index = i

\* The limits and the deferred counts of add_job and process_task lose no job in
\* any other way: without an orphaned job every job runs, a panic notwithstanding.
OnlyOrphansAreLost == [](\A t \in Known : ~Orphaned(t)) => EveryJobRuns

\* stop() returns, unless a job is orphaned or a panic has taken a worker away.
StopReturns ==
    [](panics = 0 /\ \A t \in Known : ~Orphaned(t)) => (stopping ~> stopped)
=============================================================================
