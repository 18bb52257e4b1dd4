--------------------------- MODULE JobQueueProofs ---------------------------
(***************************************************************************)
(* The safety of the job queue for any number of workers, callers, types,  *)
(* limits and jobs.  Every step adds a job, starts one, finishes one or    *)
(* leaves the scheduling state alone (Shapes); the counters are shown      *)
(* exact for each of the four shapes, and from exact counters follows that *)
(* a drained and stopping queue stays drained.                             *)
(***************************************************************************)
EXTENDS JobQueue, FiniteSetTheorems, TLAPS

\* A worker holds a job exactly while it runs it.
PcOK == \A w \in Workers : job[w] # 0 <=> wpc[w] = "run"

\* A caller past the drain of stop() has seen the queue idle and stopping,
\* and it stays so.
DrainOK ==
    /\ stopped => stopping /\ Idle
    /\ \A c \in Callers :
         /\ cpc[c] \in {"wake1", "drain", "drainWait"} => stopping
         /\ cpc[c] \in {"wake2", "take", "join"} => stopping /\ Idle

\* The inductive invariant.
IInv == TypeOK /\ PcOK /\ NoJobLost /\ CountersExact /\ DrainOK

\* The four shapes of a step, seen from the scheduling state.
Adds(t) ==
    /\ ~stopping /\ ~stopped
    /\ Len(typeOf) < MaxJobs
    /\ typeOf' = Append(typeOf, t)
    /\ queue' = queue \cup {Len(typeOf) + 1}
    /\ deferred' = [deferred EXCEPT ![t] = IF UnderLimit(t) THEN @ ELSE @ + 1]
    /\ waiting' = [waiting EXCEPT ![t] = @ + 1]
    /\ Held' = Held
    /\ UNCHANGED <<running, processCount, done>>
Starts(j) == Next1(j) /\ Take(j) /\ Held' = Held \cup {j} /\ UNCHANGED done
Ends(j) == j \in Held /\ Finish(j) /\ Held' = Held \ {j}
Keeps == UNCHANGED <<stateVars, done>> /\ Held' = Held

USE JobQueueAssumption
-----------------------------------------------------------------------------
(* What the worker and handle variables hold after a step.                 *)

LEMMA HeldSame ==
    ASSUME job' = job, reserved' = reserved
    PROVE  Held' = Held
BY DEF Held

LEMMA HeldReserve ==
    ASSUME NEW j, job' = job, reserved' = reserved \cup {j}
    PROVE  Held' = Held \cup {j}
BY DEF Held

LEMMA HeldScan ==
    ASSUME TypeOK, PcOK, NEW w \in Workers, NEW j \in Indices,
           wpc[w] = "scan", job' = [job EXCEPT ![w] = j],
           reserved' = reserved
    PROVE  Held' = Held \cup {j}
<1>1. job[w] = 0
  BY DEF PcOK
<1>2. j # 0
  BY DEF Indices
<1>3. \A v \in Workers : job'[v] = IF v = w THEN j ELSE job[v]
  BY DEF TypeOK
<1> QED
  BY <1>1, <1>2, <1>3 DEF Held

LEMMA HeldFinishReserved ==
    ASSUME NoJobLost, NEW j \in reserved, job' = job,
           reserved' = reserved \ {j}
    PROVE  Held' = Held \ {j}
<1>1. \A w \in Workers : job[w] # j
  BY DEF NoJobLost
<1> QED
  BY <1>1 DEF Held

LEMMA HeldFinish ==
    ASSUME TypeOK, NoJobLost, NEW w \in Workers, job[w] # 0,
           job' = [job EXCEPT ![w] = 0], reserved' = reserved
    PROVE  Held' = Held \ {job[w]}
<1>1. \A v \in Workers : job'[v] = IF v = w THEN 0 ELSE job[v]
  BY DEF TypeOK
<1>2. \A v \in Workers : v # w => job[v] # job[w]
  BY DEF NoJobLost
<1>3. job[w] \notin reserved
  BY DEF NoJobLost
<1> QED
  BY <1>1, <1>2, <1>3 DEF Held
-----------------------------------------------------------------------------
(* Every step has one of the four shapes.                                  *)
LEMMA Shapes ==
    ASSUME IInv, [Next]_vars
    PROVE  \/ \E t \in Types : Limit[t] > 0 /\ Adds(t)
           \/ \E j \in queue : Starts(j)
           \/ \E j \in Held : Ends(j)
           \/ Keeps
<1> USE DEF IInv
<1>1. ASSUME NEW t \in Types, AddJob(t) PROVE Limit[t] > 0 /\ Adds(t)
  BY <1>1, HeldSame DEF AddJob, Adds, Accepting, workerVars
<1>2. ASSUME NEW j \in queue, Reserve(j) PROVE Starts(j)
  BY <1>2, HeldReserve DEF Reserve, Starts, workerVars
<1>3. ASSUME NEW j \in reserved, FinishReserved(j) PROVE j \in Held /\ Ends(j)
  BY <1>3, HeldFinishReserved DEF FinishReserved, Ends, workerVars, Held
<1>4. ASSUME NEW w \in Workers, NEW j \in queue, ScanHit(w, j) PROVE Starts(j)
  <2>1. j \in Indices
    BY DEF TypeOK
  <2> QED
    BY <1>4, <2>1, HeldScan, Zenon DEF ScanHit, Starts
<1>5. ASSUME NEW w \in Workers, FinishJob(w)
      PROVE  job[w] \in Held /\ Ends(job[w])
  <2>1. job[w] # 0
    BY <1>5 DEF FinishJob, PcOK
  <2>2. job[w] \in Held
    BY <2>1 DEF Held
  <2> QED
    BY <1>5, <2>1, <2>2, HeldFinish, Zenon DEF FinishJob, Ends
<1>6. CASE UNCHANGED vars
  BY <1>6, HeldSame DEF vars, Keeps, workerVars
<1>7. CASE PayOne \/ PayIdle
  BY <1>7, HeldSame DEF PayOne, PayIdle, Keeps, workerVars
<1>8. ASSUME NEW w \in Workers,
             ScanExit(w) \/ ScanMiss(w) \/ Park(w) \/ Notify(w)
      PROVE  Keeps
  BY <1>8, HeldSame DEF ScanExit, ScanMiss, Park, Notify, Keeps
<1>9. ASSUME NEW c \in Callers, Rendezvous(c) \/ Stop(c) \/ CallerNext(c)
      PROVE  Keeps
  BY <1>9, HeldSame DEF Rendezvous, Stop, CallerNext, RendezvousCheck,
     StopWake, StopDrain, StopTake, StopJoin, Keeps, workerVars
<1> QED
  BY <1>1, <1>2, <1>3, <1>4, <1>5, <1>6, <1>7, <1>8, <1>9
  DEF Next, WorkerNext
-----------------------------------------------------------------------------
(* The counters stay exact.                                                *)

\* Sets of job indices are finite, so that they have a cardinality.
LEMMA FiniteJobs ==
    ASSUME TypeOK, NEW S \in SUBSET Indices
    PROVE  /\ IsFiniteSet(S) /\ Cardinality(S) \in Nat
           /\ \A t : IsFiniteSet(OfType(S, t)) /\ Cardinality(OfType(S, t)) \in Nat
<1>1. IsFiniteSet(Indices)
  BY FS_Interval DEF TypeOK, Indices
<1>2. IsFiniteSet(S)
  BY <1>1, FS_Subset
<1>3. \A t : OfType(S, t) \in SUBSET S
  BY DEF OfType
<1>4. \A t : IsFiniteSet(OfType(S, t))
  BY <1>2, <1>3, FS_Subset
<1> QED
  BY <1>2, <1>4, FS_CardinalityType

LEMMA HeldIndices ==
    ASSUME TypeOK PROVE Held \in SUBSET Indices
BY DEF TypeOK, Held

\* Adding j to a set of jobs, or removing it, moves one count by one.
LEMMA OfTypeAdd ==
    ASSUME TypeOK, NEW S \in SUBSET Indices, NEW j \in Indices, j \notin S,
           NEW t
    PROVE  Cardinality(OfType(S \cup {j}, t)) =
             Cardinality(OfType(S, t)) + (IF typeOf[j] = t THEN 1 ELSE 0)
<1>1. IsFiniteSet(OfType(S, t)) /\ Cardinality(OfType(S, t)) \in Nat
  BY FiniteJobs
<1>2. CASE typeOf[j] = t
  <2>1. OfType(S \cup {j}, t) = OfType(S, t) \cup {j} /\ j \notin OfType(S, t)
    BY <1>2 DEF OfType
  <2> QED
    BY <1>1, <1>2, <2>1, FS_AddElement, Zenon
<1>3. CASE typeOf[j] # t
  <2>1. OfType(S \cup {j}, t) = OfType(S, t)
    BY <1>3 DEF OfType
  <2> QED
    BY <1>1, <1>3, <2>1
<1> QED
  BY <1>2, <1>3

LEMMA OfTypeRemove ==
    ASSUME TypeOK, NEW S \in SUBSET Indices, NEW j \in S, NEW t
    PROVE  /\ Cardinality(OfType(S \ {j}, t)) =
                Cardinality(OfType(S, t)) - (IF typeOf[j] = t THEN 1 ELSE 0)
           /\ typeOf[j] = t => Cardinality(OfType(S, t)) > 0
<1>0. S \ {j} \in SUBSET Indices /\ j \in Indices /\ j \notin S \ {j}
      /\ (S \ {j}) \cup {j} = S
  OBVIOUS
<1>1. /\ Cardinality(OfType(S, t)) \in Nat
      /\ Cardinality(OfType(S \ {j}, t)) \in Nat
  BY <1>0, FiniteJobs
<1>2. Cardinality(OfType(S, t)) =
        Cardinality(OfType(S \ {j}, t)) + (IF typeOf[j] = t THEN 1 ELSE 0)
  BY <1>0, OfTypeAdd
<1> QED
  BY <1>1, <1>2

\* What an appended job changes: the old jobs keep their types.
LEMMA AppendTypes ==
    ASSUME TypeOK, NEW t \in Types, typeOf' = Append(typeOf, t)
    PROVE  /\ Len(typeOf) \in Nat /\ Len(typeOf') = Len(typeOf) + 1
           /\ typeOf' \in Seq(Types)
           /\ Indices' = Indices \cup {Len(typeOf) + 1}
           /\ Len(typeOf) + 1 \notin Indices
           /\ typeOf'[Len(typeOf) + 1] = t
           /\ \A i \in Indices : typeOf'[i] = typeOf[i]
           /\ \A S \in SUBSET Indices : \A u : OfType(S, u)' = OfType(S, u)
<1>1. typeOf \in Seq(Types) /\ Len(typeOf) \in Nat
  BY DEF TypeOK
<1>2. /\ typeOf' \in Seq(Types) /\ Len(typeOf') = Len(typeOf) + 1
      /\ typeOf'[Len(typeOf) + 1] = t
      /\ \A i \in 1 .. Len(typeOf) : typeOf'[i] = typeOf[i]
  BY <1>1
<1>3. \A S \in SUBSET Indices : \A u : OfType(S, u)' = OfType(S, u)
  BY <1>2, Zenon DEF OfType, Indices
<1> QED
  BY <1>1, <1>2, <1>3 DEF Indices

\* The per-type part of CountersExact, for one type.
Exact(t) ==
    /\ waiting[t] = Cardinality(OfType(queue, t))
    /\ running[t] = Cardinality(OfType(Held, t))
    /\ running[t] <= Limit[t]
    /\ deferred[t] = IF waiting[t] + running[t] > Limit[t]
                       THEN waiting[t] + running[t] - Limit[t] ELSE 0

\* The types of the counters, apart from the rest of TypeOK.
CounterTypes ==
    /\ waiting \in [Types -> Nat]
    /\ running \in [Types -> Nat]
    /\ deferred \in [Types -> Nat]
    /\ processCount \in Nat

LEMMA ExactDef == CountersExact <=> (/\ \A t \in Types : Exact(t)
                                     /\ processCount = Cardinality(Held))
BY DEF CountersExact, Exact

LEMMA AddCounts ==
    ASSUME IInv, NEW t \in Types, Limit[t] > 0, Adds(t)
    PROVE  CountersExact' /\ CounterTypes'
<1> USE DEF IInv
<1>1. /\ Len(typeOf) + 1 \notin Indices /\ Len(typeOf) + 1 \in Indices'
      /\ typeOf'[Len(typeOf) + 1] = t
      /\ \A S \in SUBSET Indices : \A u : OfType(S, u)' = OfType(S, u)
  BY AppendTypes DEF Adds
<1>2. Held' = Held /\ Held \in SUBSET Indices /\ queue \in SUBSET Indices
  BY HeldIndices, SMTT(30) DEF Adds, TypeOK
<1>3. ASSUME NEW u \in Types
      PROVE  Cardinality(OfType(queue, u)') =
               Cardinality(OfType(queue, u)) + (IF u = t THEN 1 ELSE 0)
  <2>1. OfType(queue, u)' = IF u = t
             THEN OfType(queue, u) \cup {Len(typeOf) + 1} ELSE OfType(queue, u)
    <3>1. OfType(queue, u)' = {k \in queue \cup {Len(typeOf) + 1} : typeOf'[k] = u}
      BY DEF OfType, Adds
    <3>2. {k \in queue : typeOf'[k] = u} = OfType(queue, u)
      BY <1>1, <1>2, Zenon DEF OfType
    <3> QED
      BY <1>1, <3>1, <3>2
  <2>2. Len(typeOf) + 1 \notin OfType(queue, u) /\ IsFiniteSet(OfType(queue, u))
    BY <1>1, <1>2, FiniteJobs DEF OfType
  <2>3. Cardinality(OfType(queue, u)) \in Nat
    BY <1>2, FiniteJobs
  <2>4. Cardinality(OfType(queue, u) \cup {Len(typeOf) + 1}) =
          Cardinality(OfType(queue, u)) + 1
    BY <2>2, FS_AddElement, Zenon
  <2>5. CASE u = t
    BY <2>1, <2>4, <2>5
  <2>6. CASE u # t
    BY <2>1, <2>3, <2>6
  <2> QED
    BY <2>5, <2>6
<1>4. ASSUME NEW u \in Types PROVE OfType(Held, u)' = OfType(Held, u)
  <2>1. OfType(Held, u)' = {k \in Held' : typeOf'[k] = u}
    BY DEF OfType
  <2>2. {k \in Held : typeOf'[k] = u} = OfType(Held, u)
    BY <1>1, <1>2, ZenonT(60) DEF OfType
  <2> QED
    BY <1>2, <2>1, <2>2
<1>5. CounterTypes'
  BY SMTT(30) DEF Adds, TypeOK, CounterTypes
<1>6. ASSUME NEW u \in Types PROVE Exact(u)'
  <2>1. Exact(u) /\ Exact(t)
    BY ExactDef
  <2>2. /\ waiting'[u] = waiting[u] + (IF u = t THEN 1 ELSE 0)
        /\ running'[u] = running[u]
        /\ deferred'[u] = IF u = t /\ ~UnderLimit(t) THEN deferred[u] + 1
                                                     ELSE deferred[u]
    BY DEF Adds, TypeOK
  <2>3. /\ waiting[u] \in Nat /\ running[u] \in Nat /\ Limit[u] \in Nat
        /\ deferred[u] \in Nat
    BY DEF TypeOK
  <2> QED
    BY <1>3, <1>4, <2>1, <2>2, <2>3 DEF Exact, UnderLimit
<1>7. processCount' = Cardinality(Held)'
  BY <1>2, ExactDef DEF Adds
<1> QED
  BY <1>5, <1>6, <1>7 DEF CountersExact, Exact

LEMMA StartCounts ==
    ASSUME IInv, NEW j \in queue, Starts(j)
    PROVE  CountersExact' /\ CounterTypes'
<1> USE DEF IInv
<1>1. /\ j \in Indices /\ j \notin Held /\ queue \in SUBSET Indices
      /\ Held \in SUBSET Indices /\ typeOf[j] \in Types
  BY HeldIndices, SMTT(30) DEF TypeOK, NoJobLost, Indices
<1>2. /\ \A u : OfType(queue, u)' = OfType(queue \ {j}, u)
      /\ \A u : OfType(Held, u)' = OfType(Held \cup {j}, u)
  BY DEF OfType, Starts, Take
<1>3. ASSUME NEW u \in Types PROVE Exact(u)' /\ waiting'[u] \in Nat
  <2>1. Exact(u) /\ Exact(typeOf[j])
    BY <1>1, ExactDef, Zenon
  <2>2. /\ Cardinality(OfType(queue, u)') =
             Cardinality(OfType(queue, u)) - (IF typeOf[j] = u THEN 1 ELSE 0)
        /\ Cardinality(OfType(Held, u)') =
             Cardinality(OfType(Held, u)) + (IF typeOf[j] = u THEN 1 ELSE 0)
        /\ typeOf[j] = u => Cardinality(OfType(queue, u)) > 0
    BY <1>1, <1>2, OfTypeAdd, OfTypeRemove
  <2>3. /\ waiting'[u] = waiting[u] - (IF typeOf[j] = u THEN 1 ELSE 0)
        /\ running'[u] = running[u] + (IF typeOf[j] = u THEN 1 ELSE 0)
        /\ deferred'[u] = deferred[u]
    BY <1>1 DEF Starts, Take, TypeOK
  <2>4. /\ waiting[u] \in Nat /\ running[u] \in Nat /\ Limit[u] \in Nat
        /\ typeOf[j] = u => running[u] < Limit[u]
    BY DEF TypeOK, Starts, Next1, Runnable
  <2> QED
    BY <2>1, <2>2, <2>3, <2>4 DEF Exact
<1>4. processCount' = Cardinality(Held)'
  <2>1. IsFiniteSet(Held)
    BY <1>1, FiniteJobs
  <2> QED
    BY <1>1, <2>1, ExactDef, FS_AddElement, Zenon DEF Starts, Take
<1>5. CounterTypes'
  <2>1. waiting[typeOf[j]] - 1 \in Nat
    BY <1>1, <1>3, Zenon DEF Starts, Take, TypeOK
  <2>2. CounterTypes
    BY DEF TypeOK, CounterTypes
  <2>3. \A t \in Types : running[t] + 1 \in Nat
    BY <2>2 DEF CounterTypes
  <2>4. PICK t \in Types : t = typeOf[j]
    BY <1>1, Zenon
  <2>5. /\ waiting' = [waiting EXCEPT ![t] = waiting[t] - 1]
        /\ running' = [running EXCEPT ![t] = running[t] + 1]
        /\ deferred' = deferred /\ processCount' = processCount + 1
    BY <2>4 DEF Starts, Take
  <2> QED
    BY <2>1, <2>2, <2>3, <2>4, <2>5 DEF CounterTypes
<1> QED
  BY <1>3, <1>4, <1>5 DEF CountersExact, Exact

LEMMA EndCounts ==
    ASSUME IInv, NEW j \in Held, Ends(j)
    PROVE  CountersExact' /\ CounterTypes'
<1> USE DEF IInv
<1>1. /\ j \in Indices /\ queue \in SUBSET Indices
      /\ Held \in SUBSET Indices /\ typeOf[j] \in Types
  BY HeldIndices DEF TypeOK, Indices
<1>2. /\ \A u : OfType(queue, u)' = OfType(queue, u)
      /\ \A u : OfType(Held, u)' = OfType(Held \ {j}, u)
  BY DEF OfType, Ends, Finish
<1>3. ASSUME NEW u \in Types
      PROVE  Exact(u)' /\ running'[u] \in Nat /\ deferred'[u] \in Nat
  <2>1. Exact(u) /\ Exact(typeOf[j])
    BY <1>1, ExactDef, Zenon
  <2>2. /\ Cardinality(OfType(Held, u)') =
             Cardinality(OfType(Held, u)) - (IF typeOf[j] = u THEN 1 ELSE 0)
        /\ typeOf[j] = u => Cardinality(OfType(Held, u)) > 0
    BY <1>1, <1>2, OfTypeRemove
  <2>3. /\ running'[u] = running[u] - (IF typeOf[j] = u THEN 1 ELSE 0)
        /\ waiting'[u] = waiting[u]
        /\ deferred'[u] = deferred[u] - (IF typeOf[j] = u /\ deferred[u] > 0
                                           THEN 1 ELSE 0)
    BY <1>1 DEF Ends, Finish, TypeOK, Promoted
  <2>4. /\ waiting[u] \in Nat /\ running[u] \in Nat /\ Limit[u] \in Nat
        /\ deferred[u] \in Nat
    BY DEF TypeOK
  <2> QED
    BY <1>2, <2>1, <2>2, <2>3, <2>4 DEF Exact
<1>4. processCount' = Cardinality(Held)' /\ processCount' \in Nat
  <2>1. IsFiniteSet(Held) /\ IsFiniteSet(Held \ {j})
    BY <1>1, FiniteJobs
  <2>2. Cardinality(Held \ {j}) = Cardinality(Held) - 1
    BY <2>1, FS_RemoveElement
  <2> QED
    BY <2>1, <2>2, ExactDef, FS_CardinalityType DEF Ends, Finish
<1>5. CounterTypes'
  BY <1>1, <1>3, <1>4, Zenon DEF Ends, Finish, TypeOK, CounterTypes
<1> QED
  BY <1>3, <1>4, <1>5 DEF CountersExact, Exact

LEMMA KeepCounts ==
    ASSUME IInv, Keeps
    PROVE  CountersExact' /\ CounterTypes'
<1>1. /\ \A u : OfType(queue, u)' = OfType(queue, u)
      /\ \A u : OfType(Held, u)' = OfType(Held, u)
  BY DEF OfType, Keeps, stateVars
<1>2. CounterTypes'
  BY DEF IInv, Keeps, stateVars, TypeOK, CounterTypes
<1> QED
  BY <1>1, <1>2 DEF IInv, Keeps, stateVars, CountersExact

LEMMA CountsStep ==
    ASSUME IInv, [Next]_vars
    PROVE  CountersExact' /\ CounterTypes'
BY Shapes, AddCounts, StartCounts, EndCounts, KeepCounts
-----------------------------------------------------------------------------
(* Jobs are neither lost nor duplicated.                                   *)

\* The part of NoJobLost that speaks of sets.
Partition ==
    /\ Indices = queue \cup Held \cup done
    /\ queue \cap Held = {} /\ queue \cap done = {} /\ Held \cap done = {}

LEMMA PartitionStep ==
    ASSUME IInv, [Next]_vars
    PROVE  /\ Partition' /\ typeOf' \in Seq(Types) /\ Len(typeOf') <= MaxJobs
           /\ Indices \subseteq Indices'
<1> USE DEF IInv
<1>1. Partition /\ typeOf \in Seq(Types) /\ Len(typeOf) <= MaxJobs
  BY DEF NoJobLost, Partition, TypeOK
<1>2. CASE \E t \in Types : Limit[t] > 0 /\ Adds(t)
  <2>1. PICK t \in Types : Adds(t)
    BY <1>2
  <2>2. /\ Indices' = Indices \cup {Len(typeOf) + 1} /\ typeOf' \in Seq(Types)
        /\ Len(typeOf) + 1 \notin Indices /\ Len(typeOf') = Len(typeOf) + 1
        /\ Len(typeOf) \in Nat
    BY <2>1, AppendTypes DEF Adds
  <2> QED
    BY <1>1, <2>1, <2>2 DEF Partition, Adds
<1>3. CASE \E j \in queue : Starts(j)
  BY <1>1, <1>3 DEF Starts, Take, Partition, Indices
<1>4. CASE \E j \in Held : Ends(j)
  BY <1>1, <1>4 DEF Ends, Finish, Partition, Indices
<1>5. CASE Keeps
  BY <1>1, <1>5 DEF Keeps, stateVars, Partition, Indices
<1> QED
  BY <1>2, <1>3, <1>4, <1>5, Shapes

\* No two workers, and no worker and handle, hold the same job.
LEMMA OwnersStep ==
    ASSUME IInv, [Next]_vars
    PROVE  /\ \A v, w \in Workers : job'[v] = job'[w] /\ job'[v] # 0 => v = w
           /\ \A w \in Workers : job'[w] \notin reserved'
<1> USE DEF IInv
<1>1. /\ \A v, w \in Workers : job[v] = job[w] /\ job[v] # 0 => v = w
      /\ \A w \in Workers : job[w] \notin reserved
      /\ \A w \in Workers : job[w] # 0 => job[w] \in Held
      /\ \A j \in reserved : j \in Held
      /\ \A j \in queue : j \notin Held /\ j # 0
      /\ 0 \notin reserved
      /\ job \in [Workers -> Indices \cup {0}]
  BY SMTT(30) DEF NoJobLost, Held, TypeOK, Indices
<1>2. ASSUME NEW j \in queue, Reserve(j)
      PROVE  job' = job /\ reserved' = reserved \cup {j}
  BY <1>2 DEF Reserve, workerVars
<1>3. ASSUME NEW j \in reserved, FinishReserved(j)
      PROVE  job' = job /\ reserved' = reserved \ {j}
  BY <1>3 DEF FinishReserved, workerVars
<1>4. ASSUME NEW w \in Workers, NEW j \in queue, ScanHit(w, j)
      PROVE  job' = [job EXCEPT ![w] = j] /\ reserved' = reserved
  BY <1>4 DEF ScanHit
<1>5. ASSUME NEW w \in Workers, FinishJob(w)
      PROVE  job' = [job EXCEPT ![w] = 0] /\ reserved' = reserved
  BY <1>5 DEF FinishJob
<1>6. \/ job' = job /\ reserved' = reserved
      \/ \E j \in queue : job' = job /\ reserved' = reserved \cup {j}
      \/ \E j \in reserved : job' = job /\ reserved' = reserved \ {j}
      \/ \E w \in Workers, j \in queue :
            job' = [job EXCEPT ![w] = j] /\ reserved' = reserved
      \/ \E w \in Workers : job' = [job EXCEPT ![w] = 0] /\ reserved' = reserved
  <2>1. ASSUME NEW w \in Workers,
               ScanExit(w) \/ ScanMiss(w) \/ Park(w) \/ Notify(w)
        PROVE  job' = job /\ reserved' = reserved
    BY <2>1 DEF ScanExit, ScanMiss, Park, Notify
  <2>2. ASSUME NEW c \in Callers, Rendezvous(c) \/ Stop(c) \/ CallerNext(c)
        PROVE  job' = job /\ reserved' = reserved
    BY <2>2 DEF Rendezvous, Stop, CallerNext, RendezvousCheck, StopWake,
       StopDrain, StopTake, StopJoin, workerVars
  <2>3. CASE UNCHANGED vars \/ PayOne \/ PayIdle \/ \E t \in Types : AddJob(t)
    BY <2>3 DEF vars, PayOne, PayIdle, AddJob, workerVars
  <2> QED
    BY <1>2, <1>3, <1>4, <1>5, <2>1, <2>2, <2>3 DEF Next, WorkerNext
<1> QED
  BY <1>1, <1>6
-----------------------------------------------------------------------------
(* The remaining types, and the program counters of the workers.           *)

\* TypeOK without the jobs and the counters.
ControlTypes ==
    /\ owedOne \in Nat /\ owedIdle \in Nat
    /\ stopping \in BOOLEAN /\ stopped \in BOOLEAN
    /\ mutex \in Workers \cup {0}
    /\ wpc \in [Workers -> {"scan", "parking", "parked", "run", "notify",
                           "exited"}]
    /\ note \in [Workers -> [idle : BOOLEAN, one : BOOLEAN]]
    /\ cpc \in [Callers -> {"out", "rdv", "rdvWait", "wake1", "drain",
                           "drainWait", "wake2", "take", "join"}]
    /\ handles \subseteq Workers
    /\ taken \in [Callers -> SUBSET Workers]

LEMMA NotifyTypes ==
    ASSUME ControlTypes
    PROVE  /\ NotifyAll \in [Workers -> {"scan", "parking", "parked", "run",
                                         "notify", "exited"}]
           /\ NotifyIdle \in [Callers -> {"out", "rdv", "rdvWait", "wake1",
                 "drain", "drainWait", "wake2", "take", "join"}]
BY DEF ControlTypes, NotifyAll, NotifyIdle

LEMMA ControlStep ==
    ASSUME IInv, [Next]_vars
    PROVE  ControlTypes'
<1>0. ControlTypes /\ NoNote \in [idle : BOOLEAN, one : BOOLEAN]
  BY DEF IInv, TypeOK, ControlTypes, NoNote
<1>1. ASSUME NEW t \in Types, AddJob(t) PROVE ControlTypes'
  BY <1>0, <1>1 DEF AddJob, ControlTypes, workerVars, callerVars
<1>2. CASE PayOne
  BY <1>0, <1>2 DEF PayOne, NotifyOne, Parked, ControlTypes, callerVars
<1>3. ASSUME NEW j \in queue, Reserve(j) PROVE ControlTypes'
  BY <1>0, <1>3 DEF Reserve, ControlTypes, workerVars, callerVars
<1>4. ASSUME NEW j \in reserved, FinishReserved(j) PROVE ControlTypes'
  BY <1>0, <1>4 DEF FinishReserved, ControlTypes, workerVars, callerVars
<1>5. CASE PayIdle
  BY <1>0, <1>5, NotifyTypes DEF PayIdle, ControlTypes, workerVars
<1>6. ASSUME NEW w \in Workers, NEW j \in queue, ScanHit(w, j)
      PROVE  ControlTypes'
  BY <1>0, <1>6 DEF ScanHit, ControlTypes, callerVars
<1>7. ASSUME NEW w \in Workers, ScanExit(w) \/ ScanMiss(w) \/ Park(w)
      PROVE  ControlTypes'
  BY <1>0, <1>7 DEF ScanExit, ScanMiss, Park, ControlTypes, callerVars
<1>8. ASSUME NEW w \in Workers, FinishJob(w) PROVE ControlTypes'
  <2>1. Owed(job[w]) \in [idle : BOOLEAN, one : BOOLEAN]
    BY DEF Owed, Promoted
  <2> QED
    BY <1>0, <1>8, <2>1 DEF FinishJob, ControlTypes, callerVars
<1>9. ASSUME NEW w \in Workers, Notify(w) PROVE ControlTypes'
  BY <1>0, <1>9, NotifyTypes DEF Notify, Parked, ControlTypes
<1>10. ASSUME NEW c \in Callers, Rendezvous(c) \/ Stop(c) \/ CallerNext(c)
       PROVE  ControlTypes'
  BY <1>0, <1>10, NotifyTypes, ZenonT(60) DEF Rendezvous, Stop, CallerNext,
     RendezvousCheck, StopWake, StopDrain, StopTake, StopJoin, CallerStep,
     ControlTypes, workerVars
<1>11. CASE UNCHANGED vars
  BY <1>0, <1>11 DEF vars, workerVars, callerVars, ControlTypes
<1> QED
  BY <1>1, <1>2, <1>3, <1>4, <1>5, <1>6, <1>7, <1>8, <1>9, <1>10, <1>11
  DEF Next, WorkerNext

LEMMA PcStep ==
    ASSUME IInv, [Next]_vars
    PROVE  PcOK' /\ job' \in [Workers -> Indices' \cup {0}]
<1> USE DEF IInv
<1>0. /\ PcOK /\ job \in [Workers -> Indices \cup {0}]
      /\ wpc \in [Workers -> {"scan", "parking", "parked", "run", "notify",
                              "exited"}]
      /\ Indices \subseteq Indices'
      /\ \A j \in queue : j \in Indices /\ j # 0
  BY PartitionStep DEF TypeOK, Indices
<1>1. ASSUME job' = job,
             \A w \in Workers : wpc'[w] = "run" <=> wpc[w] = "run"
      PROVE  PcOK' /\ job' \in [Workers -> Indices' \cup {0}]
  BY <1>0, <1>1 DEF PcOK
<1>2. ASSUME NEW w \in Workers, NEW j \in queue, ScanHit(w, j)
      PROVE  PcOK' /\ job' \in [Workers -> Indices' \cup {0}]
  BY <1>0, <1>2 DEF ScanHit, PcOK
<1>3. ASSUME NEW w \in Workers, FinishJob(w)
      PROVE  PcOK' /\ job' \in [Workers -> Indices' \cup {0}]
  BY <1>0, <1>3 DEF FinishJob, PcOK
<1>4. ASSUME NEW w \in Workers,
             ScanExit(w) \/ ScanMiss(w) \/ Park(w) \/ Notify(w)
      PROVE  job' = job /\ \A v \in Workers : wpc'[v] = "run" <=> wpc[v] = "run"
  BY <1>0, <1>4 DEF ScanExit, ScanMiss, Park, Notify, Parked
<1>5. ASSUME NEW c \in Callers, Rendezvous(c) \/ Stop(c) \/ CallerNext(c)
      PROVE  job' = job /\ \A v \in Workers : wpc'[v] = "run" <=> wpc[v] = "run"
  BY <1>0, <1>5 DEF Rendezvous, Stop, CallerNext, RendezvousCheck, StopWake,
     StopDrain, StopTake, StopJoin, NotifyAll, Parked, workerVars
<1>6. CASE PayOne
  <2>1. job' = job /\ \A v \in Workers : wpc'[v] = "run" <=> wpc[v] = "run"
    BY <1>0, <1>6 DEF PayOne, NotifyOne, Parked
  <2> QED
    BY <1>1, <2>1
<1>7. CASE \/ UNCHANGED vars \/ PayIdle \/ \E t \in Types : AddJob(t)
           \/ \E j \in queue : Reserve(j)
           \/ \E j \in reserved : FinishReserved(j)
  <2>1. job' = job /\ wpc' = wpc
    BY <1>7 DEF vars, PayIdle, AddJob, Reserve, FinishReserved, workerVars
  <2> QED
    BY <1>1, <2>1
<1> QED
  BY <1>1, <1>2, <1>3, <1>4, <1>5, <1>6, <1>7 DEF Next, WorkerNext

LEMMA TypeStep ==
    ASSUME IInv, [Next]_vars
    PROVE  TypeOK'
<1>1. Partition' /\ typeOf' \in Seq(Types) /\ Len(typeOf') <= MaxJobs
  BY PartitionStep
<1>2. CounterTypes' /\ ControlTypes' /\ job' \in [Workers -> Indices' \cup {0}]
  BY CountsStep, ControlStep, PcStep
<1>3. queue' \subseteq Indices' /\ done' \subseteq Indices' /\ Held' \subseteq Indices'
  BY <1>1 DEF Partition
<1>4. reserved' \subseteq Held'
  BY DEF Held
<1> QED
  BY <1>1, <1>2, <1>3, <1>4 DEF TypeOK, CounterTypes, ControlTypes
-----------------------------------------------------------------------------
(* A queue that is stopping and idle stays so.                             *)

LEMMA NobodyHolds ==
    ASSUME IInv, processCount = 0 PROVE Held = {}
<1>1. IsFiniteSet(Held)
  BY HeldIndices, FiniteJobs DEF IInv
<1> QED
  BY <1>1, FS_EmptySet, Zenon DEF IInv, CountersExact

LEMMA IdleStable ==
    ASSUME IInv, [Next]_vars, stopping, Idle
    PROVE  Idle'
<1>1. queue = {} /\ Held = {}
  BY NobodyHolds DEF Idle
<1>2. Keeps
  BY <1>1, Shapes DEF Adds
<1> QED
  BY <1>2 DEF Keeps, stateVars, Idle

LEMMA StoppingStable ==
    ASSUME [Next]_vars, stopping PROVE stopping'
BY Zenon DEF Next, vars, AddJob, PayOne, Reserve, FinishReserved, PayIdle,
   WorkerNext, ScanHit, ScanExit, ScanMiss, Park, FinishJob, Notify,
   Rendezvous, Stop, CallerNext, RendezvousCheck, StopWake, StopDrain,
   StopTake, StopJoin

LEMMA DrainStep ==
    ASSUME IInv, [Next]_vars
    PROVE  DrainOK'
<1> USE DEF IInv
<1>0. /\ DrainOK /\ cpc \in [Callers -> {"out", "rdv", "rdvWait", "wake1",
            "drain", "drainWait", "wake2", "take", "join"}]
      /\ stopping => stopping'
      /\ stopping /\ Idle => Idle'
  BY IdleStable, StoppingStable DEF TypeOK
<1>1. ASSUME cpc' = cpc, stopped' = stopped PROVE DrainOK'
  BY <1>0, <1>1 DEF DrainOK
<1>2. ASSUME cpc' = NotifyIdle, stopped' = stopped PROVE DrainOK'
  BY <1>0, <1>2 DEF DrainOK, NotifyIdle
<1>3. ASSUME NEW w \in Workers, WorkerNext(w) PROVE DrainOK'
  BY <1>1, <1>2, <1>3 DEF WorkerNext, ScanHit, ScanExit, ScanMiss, Park,
     FinishJob, Notify, callerVars
<1>4. CASE \/ UNCHANGED vars \/ PayOne \/ PayIdle \/ \E t \in Types : AddJob(t)
           \/ \E j \in queue : Reserve(j)
           \/ \E j \in reserved : FinishReserved(j)
  BY <1>1, <1>2, <1>4 DEF vars, PayOne, PayIdle, AddJob, Reserve,
     FinishReserved, callerVars
<1>5. ASSUME NEW c \in Callers,
             Rendezvous(c) \/ RendezvousCheck(c) \/ Stop(c) \/ StopWake(c)
      PROVE  DrainOK'
  BY <1>0, <1>5 DEF Rendezvous, RendezvousCheck, Stop, StopWake, CallerStep,
     DrainOK
<1>6. ASSUME NEW c \in Callers, StopDrain(c) \/ StopTake(c) \/ StopJoin(c)
      PROVE  DrainOK'
  BY <1>0, <1>6 DEF StopDrain, StopTake, StopJoin, CallerStep, DrainOK
<1> QED
  BY <1>3, <1>4, <1>5, <1>6 DEF Next, CallerNext
-----------------------------------------------------------------------------
(* The theorems.                                                           *)

LEMMA InitIInv == Init => IInv
<1> SUFFICES ASSUME Init PROVE IInv
  OBVIOUS
<1>1. Indices = {} /\ typeOf \in Seq(Types) /\ Len(typeOf) = 0
  BY DEF Init, Indices
<1>2. Held = {}
  BY DEF Init, Held
<1>3. \A t : OfType(queue, t) = {} /\ OfType(Held, t) = {}
  BY <1>2 DEF Init, OfType
<1>4. CountersExact
  <2>1. \A t \in Types : Limit[t] \in Nat /\ waiting[t] = 0 /\ running[t] = 0
                          /\ deferred[t] = 0
    BY DEF Init
  <2>2. ASSUME NEW t \in Types PROVE Exact(t)
    <3>1. Cardinality(OfType(queue, t)) = 0 /\ Cardinality(OfType(Held, t)) = 0
      BY <1>3, FS_EmptySet
    <3>2. ~(0 + 0 > Limit[t]) /\ 0 <= Limit[t]
      BY <2>1
    <3> QED
      BY <2>1, <3>1, <3>2 DEF Exact
  <2> QED
    BY <1>2, <2>2, FS_EmptySet, ExactDef DEF Init
<1>5. TypeOK
  <2>1. ControlTypes
    BY Zenon DEF Init, ControlTypes, NoNote
  <2>2. CounterTypes
    BY DEF Init, CounterTypes
  <2> QED
    BY <1>1, <2>1, <2>2 DEF Init, TypeOK, ControlTypes, CounterTypes
<1>6. PcOK /\ DrainOK
  BY DEF Init, PcOK, DrainOK
<1>7. NoJobLost
  BY <1>1, <1>2 DEF Init, NoJobLost
<1> QED
  BY <1>4, <1>5, <1>6, <1>7 DEF IInv

LEMMA NextIInv == IInv /\ [Next]_vars => IInv'
<1> SUFFICES ASSUME IInv, [Next]_vars PROVE IInv'
  OBVIOUS
<1>1. NoJobLost'
  BY PartitionStep, OwnersStep DEF NoJobLost, Partition
<1> QED
  BY <1>1, TypeStep, PcStep, CountsStep, DrainStep DEF IInv

\* The inductive invariant of the job queue holds in every reachable state.
THEOREM InvariantHolds == Spec => []IInv
BY InitIInv, NextIInv, PTL DEF Spec

\* Every variable keeps its type: in particular no counter of job_queue.rs
\* ever underflows, which saturating_sub would hide and `-= 1' would not.
THEOREM TypeCorrect == Spec => []TypeOK
<1>1. IInv => TypeOK
  BY DEF IInv
<1> QED
  BY <1>1, InvariantHolds, PTL

\* The counters agree with the queued and held jobs and no type exceeds its
\* limit, for any mix of worker threads and RunningJob handles.
THEOREM CountersAreExact == Spec => []CountersExact
<1>1. IInv => CountersExact
  BY DEF IInv
<1> QED
  BY <1>1, InvariantHolds, PTL

\* Every accepted job is queued, held once or done.
THEOREM JobsAreConserved == Spec => []NoJobLost
<1>1. IInv => NoJobLost
  BY DEF IInv
<1> QED
  BY <1>1, InvariantHolds, PTL

\* Once some stop() has returned, nothing is queued or running, for any number
\* of concurrent callers of stop() and add_job().
THEOREM StopDrains == Spec => []StoppedIsDrained
<1>1. IInv => StoppedIsDrained
  BY NobodyHolds DEF IInv, DrainOK, Idle, StoppedIsDrained
<1> QED
  BY <1>1, InvariantHolds, PTL
=============================================================================
