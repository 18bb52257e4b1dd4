------------------------- MODULE CoreJobQueueProofs -------------------------
(***************************************************************************)
(* The accounting of the job queue of xrpl/core, for any number of         *)
(* workers, callers, types, limits and jobs: every token of the pool is    *)
(* backed by a job that may start, every counter agrees with the jobs it   *)
(* counts, and stop() returns to a queue that has been drained.            *)
(***************************************************************************)
EXTENDS CoreJobQueue, FiniteSetTheorems, TLAPS

\* A leaf that names no prover is left to Zenon.
USE Zenon

(* Sums over a finite set, as SumFunction folds them.                      *)

\* A set of natural numbers that is not empty has a least member.
LEMMA Least ==
    ASSUME NEW N \in SUBSET Nat, N # {}
    PROVE  \E n \in N : \A m \in N : n <= m
<1>1. IsWellFoundedOn(OpToRel(<, Nat), Nat)
  BY NatLessThanWellFounded
<1>2. PICK n \in N : \A m \in N : ~(<<m, n>> \in OpToRel(<, Nat))
  BY <1>1, WFMin
<1>3. \A m \in N : ~(m < n)
  BY <1>2 DEF OpToRel
<1> QED
  BY <1>3, SMT

Pick1(s) == CHOOSE x \in s : TRUE

\* The fold's recursion over the subsets of S has a solution.
Folds1(g, f, S) ==
    g = [s \in SUBSET S |-> IF s = {} THEN 0 ELSE f[Pick1(s)] + g[s \ {Pick1(s)}]]

UpTo(S, n) == {s \in SUBSET S : Cardinality(s) <= n}
Partial(g, f, S, n) ==
    /\ g \in [UpTo(S, n) -> Int]
    /\ \A s \in UpTo(S, n) :
          g[s] = IF s = {} THEN 0 ELSE f[Pick1(s)] + g[s \ {Pick1(s)}]

LEMMA PickIn ==
    ASSUME NEW s, s # {}
    PROVE  Pick1(s) \in s
BY DEF Pick1

LEMMA SmallerPart ==
    ASSUME NEW S, IsFiniteSet(S), NEW n \in Nat, NEW s \in UpTo(S, n + 1), s # {}
    PROVE  /\ Pick1(s) \in S /\ s \ {Pick1(s)} \in UpTo(S, n)
           /\ Cardinality(s) \in Nat
<1>1. s \in SUBSET S /\ IsFiniteSet(s) /\ Cardinality(s) \in Nat /\ Cardinality(s) <= n + 1
  BY FS_Subset, FS_CardinalityType DEF UpTo
<1>2. Pick1(s) \in s
  BY PickIn
<1>3. Cardinality(s \ {Pick1(s)}) = Cardinality(s) - 1
  BY <1>1, <1>2, FS_RemoveElement
<1> QED
  BY <1>1, <1>2, <1>3, SMT DEF UpTo

LEMMA FoldStep ==
    ASSUME NEW S, IsFiniteSet(S), NEW f \in [S -> Int], NEW n \in Nat,
           NEW g, Partial(g, f, S, n)
    PROVE  \E h : Partial(h, f, S, n + 1)
<1> DEFINE h == [s \in UpTo(S, n + 1) |->
                   IF s = {} THEN 0 ELSE f[Pick1(s)] + g[s \ {Pick1(s)}]]
<1>1. ASSUME NEW s \in UpTo(S, n + 1), s # {}
      PROVE  /\ Pick1(s) \in S /\ s \ {Pick1(s)} \in UpTo(S, n)
             /\ g[s \ {Pick1(s)}] \in Int /\ f[Pick1(s)] \in Int
  <2>1. Pick1(s) \in S /\ s \ {Pick1(s)} \in UpTo(S, n)
    BY <1>1, SmallerPart
  <2> QED
    BY <2>1 DEF Partial
<1>2. h \in [UpTo(S, n + 1) -> Int]
  <2>1. ASSUME NEW s \in UpTo(S, n + 1)
        PROVE  (IF s = {} THEN 0 ELSE f[Pick1(s)] + g[s \ {Pick1(s)}]) \in Int
    BY <1>1, SMT
  <2> QED
    BY <2>1
<1>3. UpTo(S, n) \subseteq UpTo(S, n + 1)
  <2> SUFFICES ASSUME NEW s \in UpTo(S, n) PROVE s \in UpTo(S, n + 1)
    OBVIOUS
  <2>1. s \in SUBSET S /\ Cardinality(s) \in Nat /\ Cardinality(s) <= n
    BY FS_Subset, FS_CardinalityType DEF UpTo
  <2> QED
    BY <2>1, SMT DEF UpTo
<1>4. ASSUME NEW s \in UpTo(S, n) PROVE h[s] = g[s]
  BY <1>3, <1>4 DEF Partial
<1>5. ASSUME NEW s \in UpTo(S, n + 1)
      PROVE  h[s] = IF s = {} THEN 0 ELSE f[Pick1(s)] + h[s \ {Pick1(s)}]
  <2>1. CASE s = {}
    BY <2>1
  <2>2. CASE s # {}
    <3>1. h[s \ {Pick1(s)}] = g[s \ {Pick1(s)}]
      BY <1>1, <1>4, <2>2
    <3> QED
      BY <2>2, <3>1
  <2> QED
    BY <2>1, <2>2
<1> HIDE DEF h
<1>6. Partial(h, f, S, n + 1)
  BY <1>2, <1>5 DEF Partial
<1> QED
  BY <1>6

LEMMA FoldExists ==
    ASSUME NEW S, IsFiniteSet(S), NEW f \in [S -> Int]
    PROVE  \E g : g \in [SUBSET S -> Int] /\ Folds1(g, f, S)
<1> DEFINE Bad == {n \in Nat : ~\E g : Partial(g, f, S, n)}
<1>1. \E g : Partial(g, f, S, 0)
  <2> DEFINE g == [s \in UpTo(S, 0) |-> 0]
  <2>1. \A s \in UpTo(S, 0) : s = {}
    BY FS_Subset, FS_CardinalityType, FS_EmptySet, SMT DEF UpTo
  <2>2. Partial(g, f, S, 0)
    BY <2>1, SMT DEF Partial
  <2> QED
    BY <2>2
<1>2. Bad = {}
  <2> SUFFICES ASSUME Bad # {} PROVE FALSE
    OBVIOUS
  <2>1. Bad \in SUBSET Nat
    OBVIOUS
  <2> HIDE DEF Bad
  <2>2. PICK n \in Bad : \A m \in Bad : n <= m
    BY <2>1, Least
  <2>3. n \in Nat /\ n # 0
    BY <1>1, <2>1 DEF Bad
  <2>4. n - 1 \in Nat /\ n - 1 \notin Bad
    BY <2>2, <2>3, SMT
  <2>5. PICK g : Partial(g, f, S, n - 1)
    BY <2>4 DEF Bad
  <2>6. \E h : Partial(h, f, S, (n - 1) + 1)
    BY <2>4, <2>5, FoldStep
  <2>7. (n - 1) + 1 = n
    BY <2>3, SMT
  <2> QED
    BY <2>2, <2>6, <2>7 DEF Bad
<1>3. Cardinality(S) \in Nat
  BY FS_CardinalityType
<1>4. PICK g : Partial(g, f, S, Cardinality(S))
  BY <1>2, <1>3
<1>5. UpTo(S, Cardinality(S)) = SUBSET S
  BY FS_Subset, FS_CardinalityType DEF UpTo
<1> QED
  BY <1>4, <1>5 DEF Partial, Folds1

\* Induction over the subsets of a finite set, along the elements Pick1 picks.
LEMMA SubsetInduction ==
    ASSUME NEW S, IsFiniteSet(S), NEW G, {} \in G,
           \A s \in SUBSET S : s # {} /\ s \ {Pick1(s)} \in G => s \in G
    PROVE  \A s \in SUBSET S : s \in G
<1> SUFFICES ASSUME NEW b \in SUBSET S, b \notin G PROVE FALSE
  OBVIOUS
<1> DEFINE B == {s \in SUBSET S : s \notin G}
           R == StrictSubsetOrdering(S)
<1>1. IsWellFoundedOn(R, SUBSET S)
  <2>1. FiniteSubsetsOf(S) = SUBSET S
    BY FS_FiniteSubsetsOfFinite
  <2>2. IsWellFoundedOn(StrictSubsetOrdering(S), FiniteSubsetsOf(S))
    BY FS_StrictSubsetOrderingWellFounded
  <2> QED
    BY <2>1, <2>2
<1>2. PICK s \in B : \A r \in B : ~(<<r, s>> \in R)
  <2>1. B \subseteq SUBSET S /\ B # {}
    OBVIOUS
  <2> HIDE DEF B, R
  <2> QED
    BY <1>1, <2>1, WFMin
<1>3. s \in SUBSET S /\ s \notin G /\ s # {}
  OBVIOUS
<1>4. Pick1(s) \in s
  BY <1>3, PickIn
<1>5. s \ {Pick1(s)} \in SUBSET S /\ s \ {Pick1(s)} \notin G
  BY <1>3
<1>6. <<s \ {Pick1(s)}, s>> \in R
  BY <1>3, <1>4, <1>5, SMT DEF StrictSubsetOrdering
<1> QED
  BY <1>2, <1>5, <1>6

LEMMA FoldEmpty ==
    ASSUME NEW S, NEW f, NEW g, Folds1(g, f, S)
    PROVE  g[{}] = 0
BY DEF Folds1

LEMMA FoldAt ==
    ASSUME NEW S, NEW f, NEW g, Folds1(g, f, S), NEW s \in SUBSET S, s # {}
    PROVE  /\ g[s] = f[Pick1(s)] + g[s \ {Pick1(s)}]
           /\ Pick1(s) \in S /\ s \ {Pick1(s)} \in SUBSET S
BY PickIn DEF Folds1

\* SumFunction is the value of that solution at the whole set.
LEMMA SumIsFold ==
    ASSUME NEW S, IsFiniteSet(S), NEW f \in [S -> Int]
    PROVE  \E g : /\ SumFunction(f) = g[S] /\ Folds1(g, f, S)
                  /\ \A s \in SUBSET S : g[s] \in Int
<1> DEFINE g == CHOOSE h : Folds1(h, f, S)
           G == {s \in SUBSET S : g[s] \in Int}
<1>1. Folds1(g, f, S)
  BY FoldExists
<1>2. SumFunction(f) = g[S]
  BY DEF SumFunction, SumFunctionOnSet, FoldFunctionOnSet, MapThenFoldSet, Folds1, Pick1
<1> HIDE DEF g
<1>3. \A s \in SUBSET S : s # {} /\ s \ {Pick1(s)} \in G => s \in G
  BY <1>1, FoldAt, SMT
<1>4. {} \in G
  <2>1. {} \in SUBSET S
    OBVIOUS
  <2>2. g[{}] = 0
    BY <1>1, FoldEmpty
  <2> QED
    BY <2>1, <2>2, SMT
<1>5. \A s \in SUBSET S : s \in G
  <2> HIDE DEF G
  <2> QED
    BY <1>3, <1>4, SubsetInduction
<1> QED
  BY <1>1, <1>2, <1>5

\* A sum follows its summands: one that changes, all that are no larger, and a
\* positive sum has a positive summand.
LEMMA SumStep ==
    ASSUME NEW S, IsFiniteSet(S), NEW f, f \in [S -> Int], NEW e, e \in [S -> Int],
           NEW x, x \in S, \A y \in S : y # x => e[y] = f[y]
    PROVE  SumFunction(e) = SumFunction(f) - f[x] + e[x]
<1> DEFINE v == e[x]
<1>0. e \in [S -> Int] /\ e[x] = v /\ \A y \in S : y # x => e[y] = f[y]
  OBVIOUS
<1>v. v \in Int
  OBVIOUS
<1> HIDE DEF v
<1>1. PICK g : /\ SumFunction(f) = g[S] /\ Folds1(g, f, S)
               /\ \A s \in SUBSET S : g[s] \in Int
  BY SumIsFold
<1>2. PICK h : /\ SumFunction(e) = h[S] /\ Folds1(h, e, S)
               /\ \A s \in SUBSET S : h[s] \in Int
  BY <1>0, SumIsFold
<1> DEFINE G == {s \in SUBSET S : h[s] = IF x \in s THEN g[s] - f[x] + v ELSE g[s]}
<1>3. {} \in G
  <2>1. {} \in SUBSET S
    OBVIOUS
  <2>2. g[{}] = 0 /\ h[{}] = 0
    BY <1>1, <1>2, FoldEmpty
  <2> QED
    BY <2>1, <2>2
<1>4. ASSUME NEW s \in SUBSET S, s # {}, s \ {Pick1(s)} \in G PROVE s \in G
  <2> DEFINE p == Pick1(s)
             r == s \ {p}
  <2>1. /\ g[s] = f[p] + g[r] /\ h[s] = e[p] + h[r]
        /\ p \in S /\ r \in SUBSET S
    <3>1. g[s] = f[p] + g[r] /\ p \in S /\ r \in SUBSET S
      BY <1>1, <1>4, FoldAt, SMT
    <3>2. h[s] = e[p] + h[r]
      BY <1>2, <1>4, FoldAt
    <3> QED
      BY <3>1, <3>2
  <2>2. h[r] = IF x \in r THEN g[r] - f[x] + v ELSE g[r]
    BY <1>4
  <2>3. g[r] \in Int /\ h[r] \in Int /\ f[p] \in Int /\ f[x] \in Int
    BY <1>1, <1>2, <2>1
  <2>4. p \in s
    BY <1>4, PickIn
  <2> HIDE DEF p
  <2>5. CASE p = x
    BY <1>0, <1>v, <2>1, <2>2, <2>3, <2>4, <2>5, SMT
  <2>6. CASE p # x
    BY <1>0, <1>v, <2>1, <2>2, <2>3, <2>4, <2>6, SMT
  <2> QED
    BY <2>5, <2>6
<1>5. S \in G
  <2>1. \A s \in SUBSET S : s \in G
    <3> HIDE DEF G
    <3> QED
      BY <1>3, <1>4, SubsetInduction
  <2> QED
    BY <2>1
<1> QED
  BY <1>0, <1>1, <1>2, <1>5

LEMMA SumMono ==
    ASSUME NEW S, IsFiniteSet(S), NEW f \in [S -> Int], NEW e \in [S -> Int],
           \A x \in S : f[x] <= e[x]
    PROVE  SumFunction(f) <= SumFunction(e) /\ SumFunction(f) \in Int /\ SumFunction(e) \in Int
<1>1. PICK g : /\ SumFunction(f) = g[S] /\ Folds1(g, f, S)
               /\ \A s \in SUBSET S : g[s] \in Int
  BY SumIsFold
<1>2. PICK h : /\ SumFunction(e) = h[S] /\ Folds1(h, e, S)
               /\ \A s \in SUBSET S : h[s] \in Int
  BY SumIsFold
<1> DEFINE G == {s \in SUBSET S : g[s] <= h[s]}
<1>3. {} \in G
  <2>1. {} \in SUBSET S
    OBVIOUS
  <2>2. g[{}] = 0 /\ h[{}] = 0
    BY <1>1, <1>2, FoldEmpty
  <2> QED
    BY <2>1, <2>2, SMT
<1>4. ASSUME NEW s \in SUBSET S, s # {}, s \ {Pick1(s)} \in G PROVE s \in G
  <2> DEFINE p == Pick1(s)
             r == s \ {p}
  <2>1. /\ g[s] = f[p] + g[r] /\ h[s] = e[p] + h[r]
        /\ p \in S /\ r \in SUBSET S
    <3>1. g[s] = f[p] + g[r] /\ p \in S /\ r \in SUBSET S
      BY <1>1, <1>4, FoldAt
    <3>2. h[s] = e[p] + h[r]
      BY <1>2, <1>4, FoldAt
    <3> QED
      BY <3>1, <3>2
  <2>2. g[r] <= h[r] /\ f[p] <= e[p]
    BY <1>4, <2>1
  <2>3. g[r] \in Int /\ h[r] \in Int /\ f[p] \in Int /\ e[p] \in Int
    BY <1>1, <1>2, <2>1
  <2> HIDE DEF p, r
  <2> QED
    BY <2>1, <2>2, <2>3, SMT
<1>5. S \in G
  <2>1. \A s \in SUBSET S : s \in G
    <3> HIDE DEF G
    <3> QED
      BY <1>3, <1>4, SubsetInduction
  <2> QED
    BY <2>1
<1> QED
  BY <1>1, <1>2, <1>5

LEMMA SumZero ==
    ASSUME NEW S, IsFiniteSet(S), NEW f \in [S -> Int], \A x \in S : f[x] = 0
    PROVE  SumFunction(f) = 0
<1>1. PICK g : /\ SumFunction(f) = g[S] /\ Folds1(g, f, S)
               /\ \A s \in SUBSET S : g[s] \in Int
  BY SumIsFold
<1> DEFINE G == {s \in SUBSET S : g[s] = 0}
<1>2. {} \in G
  BY <1>1, FoldEmpty
<1>3. ASSUME NEW s \in SUBSET S, s # {}, s \ {Pick1(s)} \in G PROVE s \in G
  BY <1>1, <1>3, FoldAt, SMT
<1>4. \A s \in SUBSET S : s \in G
  <2> HIDE DEF G
  <2> QED
    BY <1>2, <1>3, SubsetInduction
<1> QED
  BY <1>1, <1>4
-----------------------------------------------------------------------------
(* The inductive invariant.                                                *)

Jobs == [type : Known, index : Nat \ {0}]
Ended == {"retire", "retireP"}
Reposts == {"repost", "repostP"}
Busy == {"run", "settle", "settleP"} \cup Ended
WorkerPcs == {"idle", "granted", "pick", "dead"} \cup Busy \cup Reposts
StopPcs == {"idle", "closing", "join", "rendezvous", "pool", "done"}

TypeOK ==
    /\ queue \subseteq Jobs /\ IsFiniteSet(queue)
    /\ finished \subseteq Jobs /\ IsFiniteSet(finished)
    /\ lastJob \in Nat /\ processCount \in Int /\ sem \in Nat /\ count \in Int
    /\ waiting \in [Known -> Int] /\ running \in [Known -> Int]
    /\ deferred \in [Known -> Nat]
    /\ pc \in [Workers -> WorkerPcs] /\ cur \in [Workers -> Jobs \cup {NoJob}]
    /\ owes \in [Workers -> BOOLEAN]
    /\ joined \in BOOLEAN /\ stopPc \in StopPcs
    /\ addPc \in [Callers -> {"idle", "wrap", "insert"}]

\* A worker has a job from the first critical section of process_task to the last.
Holding ==
    \A w \in Workers :
      /\ cur[w] # NoJob <=> pc[w] \in Busy
      /\ owes[w] => pc[w] \in Ended \cup Reposts

\* A job is in the queue, with one worker, or finished, and there are as many
\* jobs as add_job has numbered.
EveryJobIsSomewhere ==
    /\ \A j \in queue \cup finished : j.index <= lastJob
    /\ \A w \in At("run") : cur[w].index <= lastJob /\ cur[w] \notin queue \cup finished
    /\ \A v, w \in At("run") : cur[v] = cur[w] => v = w
    /\ queue \cap finished = {}
    /\ Cardinality(queue) + Cardinality(At("run")) + Cardinality(finished) = lastJob

\* The jobs of a type that a token stands for: those that are neither deferred
\* nor about to be paid for by a worker that has not left `running' yet.  With the
\* running ones they fit under the limit, because a job that would not fit is
\* deferred and because a worker pays only with the place that it leaves.
Tokened == At("granted") \cup At("pick")
Pending(t) == {w \in Workers : owes[w] /\ pc[w] \in Ended /\ cur[w].type = t}
Owed == {w \in Workers : owes[w] /\ pc[w] \in Reposts}
Backed == [t \in Known |-> waiting[t] - deferred[t] - Cardinality(Pending(t))]
TokensAreBacked ==
    /\ sem + Cardinality(Tokened) + Cardinality(Owed) <= SumFunction(Backed)
    /\ \A t \in Known : Backed[t] + running[t] <= Limit[t]

Inserting == {c \in Callers : addPc[c] = "insert"}
OfType(t) == {j \in queue : j.type = t}
CountersOK ==
    /\ \A t \in Known :
          /\ waiting[t] = Cardinality(OfType(t))
          /\ running[t] = Cardinality(Executing(t))
          /\ running[t] <= Limit[t]
    /\ processCount = SumFunction(running)
    /\ count = Cardinality(queue) + Cardinality(At("run"))
               + Cardinality(Inserting)

\* Once join has returned no closure exists.
JoinOK ==
    /\ stopPc \in {"join", "rendezvous", "pool", "done"} => joined
    /\ stopPc \in {"rendezvous", "pool", "done"} => count = 0

IInv ==
    TypeOK /\ Holding /\ EveryJobIsSomewhere /\ TokensAreBacked /\ CountersOK /\ JoinOK
-----------------------------------------------------------------------------
(* Types, and who holds a job.                                             *)

LEMMA KnownOK ==
    /\ IsFiniteSet(Known) /\ IsFiniteSet(Workers) /\ IsFiniteSet(Callers)
    /\ Known \subseteq Nat /\ \A t \in Known : Limit[t] \in Nat
    /\ NoJob \notin Jobs
BY CoreJobQueueAssumption DEF Known, NoJob, Jobs

\* A worker's step leaves the other workers alone.
LEMMA Others ==
    ASSUME TypeOK, NEW w \in Workers, WorkerNext(w)
    PROVE  \A u \in Workers : u # w =>
             /\ pc'[u] = pc[u] /\ cur'[u] = cur[u] /\ owes'[u] = owes[u]
<1>1. \A u \in Workers : u # w => pc'[u] = pc[u]
  BY DEF WorkerNext, TakeToken, Begin, Pick, Run, Settle, Retire, Repost, Move, TypeOK
<1>2. \A u \in Workers : u # w => cur'[u] = cur[u]
  BY DEF WorkerNext, TakeToken, Begin, Pick, Run, Settle, Retire, Repost, TypeOK
<1>3. \A u \in Workers : u # w => owes'[u] = owes[u]
  BY DEF WorkerNext, TakeToken, Begin, Pick, Run, Settle, Retire, Repost, TypeOK,
         stateVars, workerVars
<1> QED
  BY <1>1, <1>2, <1>3

LEMMA MoveType ==
    ASSUME TypeOK, NEW w \in Workers, NEW from, NEW to \in WorkerPcs, Move(w, from, to)
    PROVE  pc' \in [Workers -> WorkerPcs] /\ pc'[w] = to /\ pc[w] = from
BY DEF TypeOK, Move

\* What a worker in process_task has.
LEMMA CurType ==
    ASSUME TypeOK, Holding, NEW w \in Workers, pc[w] \in Busy
    PROVE  cur[w] \in Jobs /\ cur[w].type \in Known /\ cur[w] # NoJob
BY DEF TypeOK, Holding, Jobs

LEMMA WorkerType ==
    ASSUME TypeOK, Holding, NEW w \in Workers, WorkerNext(w)
    PROVE  TypeOK'
<1> USE DEF WorkerPcs, Ended, Reposts, Busy
<1>1. CASE TakeToken(w)
  BY <1>1, MoveType, SMT DEF TakeToken, TypeOK, stateVars, counterVars, stopVars, addVars, history
<1>2. CASE Begin(w)
  BY <1>2, MoveType DEF Begin, TypeOK, stateVars, counterVars, stopVars, addVars, history
<1>3. CASE Pick(w) /\ \E j \in queue : Selected(j)
  <2>1. PICK j \in queue :
           /\ Move(w, "pick", "run") /\ cur' = [cur EXCEPT ![w] = j]
           /\ queue' = queue \ {j} /\ waiting' = [waiting EXCEPT ![j.type] = @ - 1]
           /\ running' = [running EXCEPT ![j.type] = @ + 1]
           /\ processCount' = processCount + 1
    BY <1>3 DEF Pick
  <2>2. UNCHANGED <<lastJob, deferred, sem, owes, counterVars, stopVars, addVars, history>>
    BY <1>3 DEF Pick
  <2>3. j \in Jobs /\ j.type \in Known /\ IsFiniteSet(queue') /\ queue' \subseteq Jobs
    BY <2>1, FS_Subset DEF TypeOK, Jobs
  <2>4. waiting[j.type] - 1 \in Int /\ running[j.type] + 1 \in Int
    BY <2>3, SMT DEF TypeOK
  <2>5. waiting' \in [Known -> Int] /\ running' \in [Known -> Int]
    BY <2>1, <2>4 DEF TypeOK
  <2> QED
    BY <2>1, <2>2, <2>3, <2>5, MoveType, SMT DEF TypeOK, counterVars, stopVars, addVars, history
<1>4. CASE Pick(w) /\ ~(\E j \in queue : Selected(j))
  BY <1>4, MoveType DEF Pick, TypeOK, stateVars, counterVars, stopVars, addVars, history
<1>5. CASE Run(w)
  <2>1. pc[w] = "run" /\ pc' \in [Workers -> WorkerPcs]
    BY <1>5, MoveType DEF Run
  <2>2. finished' \subseteq Jobs /\ IsFiniteSet(finished')
    BY <1>5, <2>1, CurType, FS_AddElement, ZenonT(60) DEF Run, TypeOK
  <2> QED
    BY <1>5, <2>1, <2>2, SMT DEF Run, TypeOK, stateVars, stopVars, addVars
<1>6. CASE Settle(w)
  <2> DEFINE t == cur[w].type
  <2>1. pc[w] \in Busy /\ pc' \in [Workers -> WorkerPcs]
    BY <1>6, MoveType DEF Settle
  <2>2. t \in Known /\ deferred[t] \in Nat
    BY <2>1, CurType DEF TypeOK
  <2>3. (IF deferred[t] > 0 THEN deferred[t] - 1 ELSE deferred[t]) \in Nat
    BY <2>2, SMT
  <2>4. deferred' \in [Known -> Nat]
    BY <1>6, <2>3 DEF Settle, TypeOK
  <2>5. owes' \in [Workers -> BOOLEAN]
    BY <1>6, SMT DEF Settle, TypeOK
  <2> HIDE DEF t
  <2> QED
    BY <1>6, <2>1, <2>4, <2>5 DEF Settle, TypeOK, counterVars, stopVars, addVars, history
<1>7. CASE Retire(w)
  <2> DEFINE t == cur[w].type
  <2>1. pc[w] \in Busy /\ pc' \in [Workers -> WorkerPcs]
    BY <1>7, MoveType DEF Retire
  <2>2. t \in Known /\ running[t] - 1 \in Int
    BY <2>1, CurType, SMT DEF TypeOK
  <2>3. running' \in [Known -> Int]
    BY <1>7, <2>2 DEF Retire, TypeOK
  <2>4. cur' \in [Workers -> Jobs \cup {NoJob}] /\ processCount' \in Int
    BY <1>7, SMT DEF Retire, TypeOK
  <2> HIDE DEF t
  <2> QED
    BY <1>7, <2>1, <2>3, <2>4 DEF Retire, TypeOK, counterVars, stopVars, addVars, history
<1>8. CASE Repost(w)
  BY <1>8, MoveType, SMT DEF Repost, TypeOK, stateVars, counterVars, stopVars, addVars, history
<1> QED
  BY <1>1, <1>2, <1>3, <1>4, <1>5, <1>6, <1>7, <1>8 DEF WorkerNext

LEMMA WorkerHolding ==
    ASSUME TypeOK, Holding, NEW w \in Workers, WorkerNext(w)
    PROVE  Holding'
<1> USE DEF WorkerPcs, Ended, Reposts, Busy
<1>1. SUFFICES (cur'[w] # NoJob <=> pc'[w] \in Busy) /\ (owes'[w] => pc'[w] \in Ended \cup Reposts)
  BY Others DEF Holding
<1>2. CASE TakeToken(w) \/ Begin(w)
  BY <1>2, MoveType, SMT DEF TakeToken, Begin, Holding, stateVars
<1>3. CASE Pick(w) /\ \E j \in queue : Selected(j)
  <2>1. PICK j \in queue : Move(w, "pick", "run") /\ cur' = [cur EXCEPT ![w] = j] /\ owes' = owes
    BY <1>3 DEF Pick
  <2>2. j # NoJob
    BY <2>1, KnownOK DEF TypeOK
  <2> QED
    BY <2>1, <2>2, MoveType, SMT DEF Holding, TypeOK
<1>4. CASE Pick(w) /\ ~(\E j \in queue : Selected(j))
  BY <1>4, MoveType, SMT DEF Pick, Holding
<1>5. CASE Run(w)
  BY <1>5, MoveType, SMT DEF Run, Holding
<1>6. CASE Settle(w)
  BY <1>6, MoveType DEF Settle, Holding
<1>7. CASE Retire(w)
  BY <1>7, MoveType, SMT DEF Retire, Holding, TypeOK
<1>8. CASE Repost(w)
  BY <1>8, MoveType, SMT DEF Repost, Holding, TypeOK
<1> QED
  BY <1>2, <1>3, <1>4, <1>5, <1>6, <1>7, <1>8 DEF WorkerNext
-----------------------------------------------------------------------------
(* How the sets of workers change with a step of one of them.              *)

\* B is A but for the worker w.
Differ(A, B, w) ==
    /\ Cardinality(A) \in Nat /\ Cardinality(B) \in Nat
    /\ (w \in A <=> w \in B) => A = B
    /\ w \notin A /\ w \in B => Cardinality(B) = Cardinality(A) + 1
    /\ w \in A /\ w \notin B => Cardinality(B) = Cardinality(A) - 1

LEMMA OneWorker ==
    ASSUME NEW w \in Workers, NEW A, NEW B, A \subseteq Workers, B \subseteq Workers,
           \A u \in Workers : u # w => (u \in A <=> u \in B)
    PROVE  Differ(A, B, w)
<1>1. IsFiniteSet(A) /\ IsFiniteSet(B) /\ Cardinality(A) \in Nat /\ Cardinality(B) \in Nat
  BY FS_Subset, FS_CardinalityType, KnownOK
<1>2. ASSUME w \notin A, w \in B PROVE Cardinality(B) = Cardinality(A) + 1
  <2>1. B = A \cup {w}
    BY <1>2
  <2> QED
    BY <1>1, <1>2, <2>1, FS_AddElement
<1>3. ASSUME w \in A, w \notin B PROVE Cardinality(B) = Cardinality(A) - 1
  <2>1. B = A \ {w}
    BY <1>3
  <2> QED
    BY <1>1, <1>3, <2>1, FS_RemoveElement
<1>4. (w \in A <=> w \in B) => A = B
  BY SMT
<1> QED
  BY <1>1, <1>2, <1>3, <1>4 DEF Differ

LEMMA RunSet ==
    ASSUME TypeOK, NEW w \in Workers, WorkerNext(w)
    PROVE  /\ Cardinality(At("run")) \in Nat
           /\ pc[w] # "run" /\ pc'[w] # "run" => At("run")' = At("run")
           /\ pc[w] # "run" /\ pc'[w] = "run" =>
                Cardinality(At("run")') = Cardinality(At("run")) + 1
           /\ pc[w] = "run" /\ pc'[w] # "run" =>
                Cardinality(At("run")') = Cardinality(At("run")) - 1
<1>1. /\ At("run") \subseteq Workers /\ At("run")' \subseteq Workers
      /\ w \in At("run") <=> pc[w] = "run"
      /\ w \in At("run")' <=> pc'[w] = "run"
  BY DEF At
<1>2. \A u \in Workers : u # w => (u \in At("run") <=> u \in At("run")')
  BY Others DEF At
<1>3. Differ(At("run"), At("run")', w)
  BY <1>1, <1>2, OneWorker
<1> QED
  BY <1>1, <1>3 DEF Differ

LEMMA TokenSet ==
    ASSUME TypeOK, NEW w \in Workers, WorkerNext(w)
    PROVE  /\ Cardinality(Tokened) \in Nat
           /\ (pc[w] \in {"granted", "pick"} <=> pc'[w] \in {"granted", "pick"})
                => Tokened' = Tokened
           /\ pc[w] \notin {"granted", "pick"} /\ pc'[w] \in {"granted", "pick"} =>
                Cardinality(Tokened') = Cardinality(Tokened) + 1
           /\ pc[w] \in {"granted", "pick"} /\ pc'[w] \notin {"granted", "pick"} =>
                Cardinality(Tokened') = Cardinality(Tokened) - 1
<1>1. /\ Tokened \subseteq Workers /\ Tokened' \subseteq Workers
      /\ w \in Tokened <=> pc[w] \in {"granted", "pick"}
      /\ w \in Tokened' <=> pc'[w] \in {"granted", "pick"}
  BY DEF Tokened, At
<1>2. \A u \in Workers : u # w => (u \in Tokened <=> u \in Tokened')
  BY Others DEF Tokened, At
<1>3. Differ(Tokened, Tokened', w)
  BY <1>1, <1>2, OneWorker
<1> QED
  BY <1>1, <1>3 DEF Differ

LEMMA PendingSet ==
    ASSUME TypeOK, NEW w \in Workers, WorkerNext(w), NEW t
    PROVE  LET here == owes[w] /\ pc[w] \in Ended /\ cur[w].type = t
               then == owes'[w] /\ pc'[w] \in Ended /\ cur'[w].type = t
           IN  /\ Cardinality(Pending(t)) \in Nat
               /\ (here <=> then) => Pending(t)' = Pending(t)
               /\ ~here /\ then => Cardinality(Pending(t)') = Cardinality(Pending(t)) + 1
               /\ here /\ ~then => Cardinality(Pending(t)') = Cardinality(Pending(t)) - 1
<1> DEFINE here == owes[w] /\ pc[w] \in Ended /\ cur[w].type = t
           then == owes'[w] /\ pc'[w] \in Ended /\ cur'[w].type = t
<1>1. /\ Pending(t) \subseteq Workers /\ Pending(t)' \subseteq Workers
      /\ w \in Pending(t) <=> here
      /\ w \in Pending(t)' <=> then
  BY DEF Pending
<1>2. \A u \in Workers : u # w => (u \in Pending(t) <=> u \in Pending(t)')
  BY Others DEF Pending
<1> HIDE DEF here, then
<1>3. Differ(Pending(t), Pending(t)', w)
  BY <1>1, <1>2, OneWorker
<1>4. /\ Cardinality(Pending(t)) \in Nat
      /\ (here <=> then) => Pending(t)' = Pending(t)
      /\ ~here /\ then => Cardinality(Pending(t)') = Cardinality(Pending(t)) + 1
      /\ here /\ ~then => Cardinality(Pending(t)') = Cardinality(Pending(t)) - 1
  BY <1>1, <1>3 DEF Differ
<1> QED
  BY <1>4 DEF here, then

LEMMA OwedSet ==
    ASSUME TypeOK, NEW w \in Workers, WorkerNext(w)
    PROVE  LET here == owes[w] /\ pc[w] \in Reposts
               then == owes'[w] /\ pc'[w] \in Reposts
           IN  /\ Cardinality(Owed) \in Nat
               /\ (here <=> then) => Owed' = Owed
               /\ ~here /\ then => Cardinality(Owed') = Cardinality(Owed) + 1
               /\ here /\ ~then => Cardinality(Owed') = Cardinality(Owed) - 1
<1> DEFINE here == owes[w] /\ pc[w] \in Reposts
           then == owes'[w] /\ pc'[w] \in Reposts
<1>1. /\ Owed \subseteq Workers /\ Owed' \subseteq Workers
      /\ w \in Owed <=> here
      /\ w \in Owed' <=> then
  BY DEF Owed
<1>2. \A u \in Workers : u # w => (u \in Owed <=> u \in Owed')
  BY Others DEF Owed
<1> HIDE DEF here, then
<1>3. Differ(Owed, Owed', w)
  BY <1>1, <1>2, OneWorker
<1>4. /\ Cardinality(Owed) \in Nat
      /\ (here <=> then) => Owed' = Owed
      /\ ~here /\ then => Cardinality(Owed') = Cardinality(Owed) + 1
      /\ here /\ ~then => Cardinality(Owed') = Cardinality(Owed) - 1
  BY <1>1, <1>3 DEF Differ
<1> QED
  BY <1>4 DEF here, then

LEMMA ExecutingSet ==
    ASSUME TypeOK, NEW w \in Workers, WorkerNext(w), NEW t
    PROVE  LET here == cur[w].type = t /\ cur[w] # NoJob
               then == cur'[w].type = t /\ cur'[w] # NoJob
           IN  /\ Cardinality(Executing(t)) \in Nat
               /\ (here <=> then) => Executing(t)' = Executing(t)
               /\ ~here /\ then => Cardinality(Executing(t)') = Cardinality(Executing(t)) + 1
               /\ here /\ ~then => Cardinality(Executing(t)') = Cardinality(Executing(t)) - 1
<1> DEFINE here == cur[w].type = t /\ cur[w] # NoJob
           then == cur'[w].type = t /\ cur'[w] # NoJob
<1>1. /\ Executing(t) \subseteq Workers /\ Executing(t)' \subseteq Workers
      /\ w \in Executing(t) <=> here
      /\ w \in Executing(t)' <=> then
  BY DEF Executing
<1>2. \A u \in Workers : u # w => (u \in Executing(t) <=> u \in Executing(t)')
  BY Others DEF Executing
<1> HIDE DEF here, then
<1>3. Differ(Executing(t), Executing(t)', w)
  BY <1>1, <1>2, OneWorker
<1>4. /\ Cardinality(Executing(t)) \in Nat
      /\ (here <=> then) => Executing(t)' = Executing(t)
      /\ ~here /\ then => Cardinality(Executing(t)') = Cardinality(Executing(t)) + 1
      /\ here /\ ~then => Cardinality(Executing(t)') = Cardinality(Executing(t)) - 1
  BY <1>1, <1>3 DEF Differ
<1> QED
  BY <1>4 DEF here, then

LEMMA SumInt ==
    ASSUME NEW S, IsFiniteSet(S), NEW f, f \in [S -> Int]
    PROVE  SumFunction(f) \in Int
<1>1. \A x \in S : f[x] <= f[x]
  BY SMT
<1> QED
  BY <1>1, SumMono

LEMMA BackedType ==
    ASSUME TypeOK
    PROVE  /\ Backed \in [Known -> Int] /\ SumFunction(Backed) \in Int
           /\ \A t \in Known : /\ Cardinality(Pending(t)) \in Nat
                               /\ Backed[t] = waiting[t] - deferred[t] - Cardinality(Pending(t))
<1>1. \A t \in Known : Cardinality(Pending(t)) \in Nat
  BY KnownOK, FS_Subset, FS_CardinalityType DEF Pending
<1>2. Backed \in [Known -> Int]
  BY <1>1, SMT DEF Backed, TypeOK
<1>3. SumFunction(Backed) \in Int
  BY <1>2, SumInt, KnownOK
<1> QED
  BY <1>1, <1>2, <1>3 DEF Backed

LEMMA BackedTypeNext ==
    ASSUME TypeOK'
    PROVE  /\ Backed' \in [Known -> Int] /\ SumFunction(Backed') \in Int
           /\ \A t \in Known : Backed'[t] = waiting'[t] - deferred'[t] - Cardinality(Pending(t)')
<1>1. \A t \in Known : Cardinality(Pending(t)') \in Nat
  BY KnownOK, FS_Subset, FS_CardinalityType DEF Pending
<1>2. Backed' \in [Known -> Int]
  BY <1>1, SMT DEF Backed, TypeOK
<1>3. SumFunction(Backed') \in Int
  BY <1>2, SumInt, KnownOK
<1> QED
  BY <1>1, <1>2, <1>3 DEF Backed

\* The sum follows the one type whose jobs change.
LEMMA BackedStep ==
    ASSUME TypeOK, TypeOK', NEW t \in Known, NEW d \in Int, Backed'[t] = Backed[t] + d,
           \A s \in Known : s # t => Backed'[s] = Backed[s]
    PROVE  SumFunction(Backed') = SumFunction(Backed) + d
<1>1. Backed \in [Known -> Int] /\ Backed' \in [Known -> Int] /\ SumFunction(Backed) \in Int
  BY BackedType, BackedTypeNext
<1>2. IsFiniteSet(Known)
  BY KnownOK
<1>3. Backed[t] + d \in Int /\ Backed[t] \in Int
  BY <1>1
<1>4. SumFunction(Backed') = SumFunction(Backed) - Backed[t] + Backed'[t]
  BY <1>1, <1>2, SumStep, SMT
<1> QED
  BY <1>1, <1>3, <1>4, SMT
-----------------------------------------------------------------------------
(* The tokens.                                                             *)

\* A worker that takes the job j.
Takes(w, j) ==
    /\ j \in queue /\ Selected(j) /\ pc[w] = "pick" /\ pc'[w] = "run"
    /\ cur' = [cur EXCEPT ![w] = j] /\ cur'[w] = j
    /\ queue' = queue \ {j} /\ waiting' = [waiting EXCEPT ![j.type] = @ - 1]
    /\ running' = [running EXCEPT ![j.type] = @ + 1]
    /\ processCount' = processCount + 1
    /\ UNCHANGED <<lastJob, deferred, sem, owes, count, joined, stopPc, addPc, finished>>
    /\ j \in Jobs /\ j.type \in Known /\ running[j.type] < Limit[j.type]

LEMMA PickCases ==
    ASSUME TypeOK, NEW w \in Workers, Pick(w)
    PROVE  \/ \E j : Takes(w, j)
           \/ /\ pc[w] = "pick" /\ pc'[w] = "idle"
              /\ UNCHANGED <<queue, lastJob, waiting, running, deferred, processCount,
                             sem, cur, owes, count, joined, stopPc, addPc, finished>>
<1>1. CASE \E j \in queue : Selected(j)
  <2>1. PICK j \in queue :
           /\ Selected(j)
           /\ Move(w, "pick", "run") /\ cur' = [cur EXCEPT ![w] = j]
           /\ queue' = queue \ {j} /\ waiting' = [waiting EXCEPT ![j.type] = @ - 1]
           /\ running' = [running EXCEPT ![j.type] = @ + 1]
           /\ processCount' = processCount + 1
    BY <1>1 DEF Pick
  <2>2. UNCHANGED <<lastJob, deferred, sem, owes, counterVars, stopVars, addVars, history>>
    BY <1>1 DEF Pick
  <2>3. pc[w] = "pick" /\ pc'[w] = "run" /\ cur'[w] = j
    BY <2>1 DEF Move, TypeOK
  <2>4. j \in Jobs /\ j.type \in Known /\ running[j.type] < Limit[j.type]
    BY <2>1 DEF TypeOK, Jobs, Selected, Eligible
  <2>5. Takes(w, j)
    BY <2>1, <2>2, <2>3, <2>4 DEF Takes, counterVars, stopVars, addVars, history
  <2> QED
    BY <2>5
<1>2. CASE ~(\E j \in queue : Selected(j))
  BY <1>2 DEF Pick, Move, TypeOK, stateVars, counterVars, stopVars, addVars, history
<1> QED
  BY <1>1, <1>2

LEMMA BackedSame ==
    ASSUME UNCHANGED <<waiting, deferred>>, \A t \in Known : Pending(t)' = Pending(t)
    PROVE  Backed' = Backed
BY DEF Backed

LEMMA WorkerTokens ==
    ASSUME TypeOK, TypeOK', Holding, Holding', TokensAreBacked, NEW w \in Workers, WorkerNext(w)
    PROVE  TokensAreBacked'
<1>0. /\ SumFunction(Backed) \in Int /\ sem \in Int /\ Backed \in [Known -> Int]
      /\ Cardinality(Tokened) \in Nat /\ Cardinality(Owed) \in Nat
  BY BackedType, TokenSet, OwedSet, SMT DEF TypeOK
<1>1. CASE TakeToken(w)
  <2>1. pc[w] = "idle" /\ pc'[w] = "granted" /\ sem' = sem - 1
    BY <1>1 DEF TakeToken, Move, TypeOK
  <2>2. UNCHANGED <<waiting, deferred, running, cur, owes>>
    BY <1>1 DEF TakeToken, stateVars
  <2>3. Cardinality(Tokened') = Cardinality(Tokened) + 1 /\ Owed' = Owed
    BY <2>1, TokenSet, OwedSet DEF Reposts
  <2>4. Backed' = Backed
    BY <2>1, <2>2, PendingSet, BackedSame DEF Ended
  <2> QED
    BY <1>0, <2>1, <2>2, <2>3, <2>4, SMT DEF TokensAreBacked
<1>2. CASE Begin(w)
  <2>1. pc[w] = "granted" /\ pc'[w] = "pick" /\ sem' = sem
    BY <1>2 DEF Begin, Move, TypeOK
  <2>2. UNCHANGED <<waiting, deferred, running, cur, owes>>
    BY <1>2 DEF Begin, stateVars
  <2>3. Tokened' = Tokened /\ Owed' = Owed
    BY <2>1, TokenSet, OwedSet DEF Reposts
  <2>4. Backed' = Backed
    BY <2>1, <2>2, PendingSet, BackedSame DEF Ended
  <2> QED
    BY <1>0, <2>1, <2>2, <2>3, <2>4 DEF TokensAreBacked
<1>3. ASSUME NEW j, Takes(w, j) PROVE TokensAreBacked'
  <2> DEFINE t == j.type
  <2>1. /\ pc[w] = "pick" /\ pc'[w] = "run" /\ sem' = sem /\ t \in Known
        /\ UNCHANGED deferred
    BY <1>3 DEF Takes
  <2>2. Cardinality(Tokened') = Cardinality(Tokened) - 1 /\ Owed' = Owed
    BY <2>1, TokenSet, OwedSet DEF Reposts
  <2>3. \A s \in Known : Pending(s)' = Pending(s)
    BY <2>1, PendingSet DEF Ended
  <2>4. /\ waiting'[t] = waiting[t] - 1 /\ running'[t] = running[t] + 1
        /\ \A s \in Known : s # t => waiting'[s] = waiting[s] /\ running'[s] = running[s]
    BY <1>3 DEF Takes, TypeOK
  <2> HIDE DEF t
  <2>5. \A s \in Known : waiting[s] \in Int /\ deferred[s] \in Int /\ running[s] \in Int /\ Limit[s] \in Int
    BY KnownOK, SMT DEF TypeOK
  <2>6. Backed'[t] = Backed[t] + (-1) /\ \A s \in Known : s # t => Backed'[s] = Backed[s]
    BY <2>1, <2>3, <2>4, <2>5, BackedType, BackedTypeNext, SMT
  <2>7. SumFunction(Backed') = SumFunction(Backed) + (-1)
    BY <2>1, <2>6, BackedStep, SMT
  <2>8. \A s \in Known : Backed'[s] + running'[s] <= Limit[s]
    BY <1>0, <2>4, <2>5, <2>6, SMT DEF TokensAreBacked
  <2> QED
    BY <1>0, <2>1, <2>2, <2>7, <2>8, SMT DEF TokensAreBacked
<1>4. CASE /\ pc[w] = "pick" /\ pc'[w] = "idle"
           /\ UNCHANGED <<queue, lastJob, waiting, running, deferred, processCount,
                          sem, cur, owes, count, joined, stopPc, addPc, finished>>
  <2>1. Cardinality(Tokened') = Cardinality(Tokened) - 1 /\ Owed' = Owed
    BY <1>4, TokenSet, OwedSet DEF Reposts
  <2>2. Backed' = Backed
    BY <1>4, PendingSet, BackedSame DEF Ended
  <2> QED
    BY <1>0, <1>4, <2>1, <2>2, SMT DEF TokensAreBacked
<1>5. CASE Run(w)
  <2>1. pc[w] = "run" /\ pc'[w] \in {"settle", "settleP"}
    BY <1>5 DEF Run, Move, TypeOK
  <2>2. UNCHANGED <<waiting, deferred, running, cur, owes, sem>>
    BY <1>5 DEF Run, stateVars
  <2>3. Tokened' = Tokened /\ Owed' = Owed
    BY <2>1, TokenSet, OwedSet DEF Reposts
  <2>4. Backed' = Backed
    BY <2>1, <2>2, PendingSet, BackedSame DEF Ended
  <2> QED
    BY <1>0, <2>1, <2>2, <2>3, <2>4 DEF TokensAreBacked
<1>6. CASE Settle(w)
  <2>1. /\ pc[w] \in {"settle", "settleP"} /\ pc'[w] \in Ended
        /\ UNCHANGED <<waiting, running, cur, sem>>
    BY <1>6 DEF Settle, Move, TypeOK, Ended
  <2>2. PICK t \in Known : t = cur[w].type
    BY <2>1, CurType DEF Busy
  <2>3. /\ owes'[w] = (deferred[t] > 0)
        /\ deferred'[t] = IF deferred[t] > 0 THEN deferred[t] - 1 ELSE deferred[t]
        /\ \A s \in Known : s # t => deferred'[s] = deferred[s]
    BY <1>6, <2>2 DEF Settle, TypeOK
  <2>4. Tokened' = Tokened /\ Owed' = Owed
    BY <2>1, TokenSet, OwedSet DEF Reposts, Ended
  <2>5. \A s \in Known : s # t => Pending(s)' = Pending(s)
    BY <2>1, <2>2, PendingSet DEF Ended
  <2>6. ~owes'[w] => Pending(t)' = Pending(t)
    BY <2>1, <2>2, PendingSet DEF Ended
  <2>7. owes'[w] => Cardinality(Pending(t)') = Cardinality(Pending(t)) + 1
    BY <2>1, <2>2, PendingSet DEF Ended
  <2>8. \A s \in Known : waiting[s] \in Int /\ deferred[s] \in Int
    BY SMT DEF TypeOK
  <2>9. \A s \in Known : Backed'[s] = Backed[s]
    <3>1. ASSUME NEW s \in Known, s # t PROVE Backed'[s] = Backed[s]
      BY <2>1, <2>3, <2>5, <3>1, BackedType, BackedTypeNext
    <3>2. Backed'[t] = Backed[t]
      <4>1. /\ Backed[t] = waiting[t] - deferred[t] - Cardinality(Pending(t))
            /\ Backed'[t] = waiting[t] - deferred'[t] - Cardinality(Pending(t)')
            /\ Cardinality(Pending(t)) \in Nat
        BY <2>1, BackedType, BackedTypeNext
      <4>2. CASE deferred[t] > 0
        <5>1. owes'[w]
          BY <2>3, <4>2
        <5>2. Cardinality(Pending(t)') = Cardinality(Pending(t)) + 1
          BY <2>7, <5>1
        <5> QED
          BY <2>3, <2>8, <4>1, <4>2, <5>2, SMT
      <4>3. CASE ~(deferred[t] > 0)
        BY <2>3, <2>6, <2>8, <4>1, <4>3
      <4> QED
        BY <4>2, <4>3
    <3> QED
      BY <3>1, <3>2
  <2>10. Backed' = Backed
    BY <2>9, BackedType, BackedTypeNext, SMT
  <2> QED
    BY <1>0, <2>1, <2>4, <2>10 DEF TokensAreBacked
<1>7. CASE Retire(w)
  <2> DEFINE d == IF owes[w] THEN 1 ELSE 0
  <2>1. /\ pc[w] \in Ended /\ pc'[w] \in Reposts /\ cur'[w] = NoJob
        /\ UNCHANGED <<waiting, deferred, owes, sem>>
    BY <1>7 DEF Retire, Move, TypeOK, Ended, Reposts
  <2>2. PICK t \in Known : t = cur[w].type
    BY <2>1, CurType DEF Busy
  <2>3. running'[t] = running[t] - 1 /\ \A s \in Known : s # t => running'[s] = running[s]
    BY <1>7, <2>2 DEF Retire, TypeOK
  <2>4. Tokened' = Tokened
    BY <2>1, TokenSet DEF Reposts, Ended
  <2>5. Cardinality(Owed') = Cardinality(Owed) + d
    BY <1>0, <2>1, OwedSet, SMT DEF Reposts, Ended
  <2>6. \A s \in Known : s # t => Pending(s)' = Pending(s)
    BY <2>1, <2>2, PendingSet DEF Ended, Reposts
  <2>7. /\ ~owes[w] => Pending(t)' = Pending(t)
        /\ owes[w] => Cardinality(Pending(t)') = Cardinality(Pending(t)) - 1
    BY <2>1, <2>2, PendingSet DEF Ended, Reposts
  <2>8. \A s \in Known : waiting[s] \in Int /\ deferred[s] \in Int /\ running[s] \in Int /\ Limit[s] \in Int
    BY KnownOK, SMT DEF TypeOK
  <2>9. Backed'[t] = Backed[t] + d /\ \A s \in Known : s # t => Backed'[s] = Backed[s]
    <3>1. ASSUME NEW s \in Known, s # t PROVE Backed'[s] = Backed[s]
      BY <2>1, <2>6, <3>1, BackedType, BackedTypeNext
    <3>2. Backed'[t] = Backed[t] + d
      BY <2>1, <2>2, <2>7, <2>8, BackedType, BackedTypeNext, SMT
    <3> QED
      BY <3>1, <3>2
  <2>10. d \in Int /\ d <= 1
    BY SMT
  <2> HIDE DEF d
  <2>11. SumFunction(Backed') = SumFunction(Backed) + d
    BY <2>2, <2>9, <2>10, BackedStep
  <2>12. \A s \in Known : Backed'[s] + running'[s] <= Limit[s]
    BY <1>0, <2>3, <2>8, <2>9, <2>10, SMTT(30) DEF TokensAreBacked
  <2> QED
    BY <1>0, <2>1, <2>4, <2>5, <2>10, <2>11, <2>12, SMT DEF TokensAreBacked
<1>8. CASE Repost(w)
  <2>1. /\ pc[w] \in Reposts /\ pc'[w] \in {"idle", "dead"} /\ ~owes'[w]
        /\ sem' = IF owes[w] THEN sem + 1 ELSE sem
        /\ UNCHANGED <<waiting, deferred, running, cur>>
    BY <1>8 DEF Repost, Move, TypeOK, Reposts, stateVars
  <2>2. Tokened' = Tokened
    BY <2>1, TokenSet DEF Reposts
  <2>3. /\ ~owes[w] => Owed' = Owed
        /\ owes[w] => Cardinality(Owed') = Cardinality(Owed) - 1
    BY <2>1, OwedSet
  <2>4. Backed' = Backed
    BY <2>1, PendingSet, BackedSame DEF Ended, Reposts
  <2> QED
    BY <1>0, <2>1, <2>2, <2>3, <2>4, SMT DEF TokensAreBacked
<1> QED
  BY <1>1, <1>2, <1>3, <1>4, <1>5, <1>6, <1>7, <1>8, PickCases DEF WorkerNext

-----------------------------------------------------------------------------
(* The jobs and the counters, under a worker's step.                       *)

\* The steps of a worker that touch neither the queue nor a job.
LEMMA WorkerCases ==
    ASSUME TypeOK, Holding, NEW w \in Workers, WorkerNext(w)
    PROVE  \/ \E j : Takes(w, j)
           \/ Run(w)
           \/ Retire(w)
           \/ /\ pc[w] # "run" /\ pc'[w] # "run"
              /\ UNCHANGED <<queue, lastJob, waiting, running, processCount, cur, count,
                             joined, stopPc, addPc, finished>>
<1>1. CASE TakeToken(w) \/ Begin(w) \/ Repost(w)
  BY <1>1 DEF TakeToken, Begin, Repost, Move, TypeOK, stateVars, counterVars, stopVars,
              addVars, history
<1>2. CASE Settle(w)
  BY <1>2 DEF Settle, Move, TypeOK, counterVars, stopVars, addVars, history
<1>3. CASE Pick(w)
  BY <1>3, PickCases
<1> QED
  BY <1>1, <1>2, <1>3 DEF WorkerNext

LEMMA WorkerJobs ==
    ASSUME TypeOK, TypeOK', Holding, EveryJobIsSomewhere, NEW w \in Workers, WorkerNext(w)
    PROVE  EveryJobIsSomewhere'
<1>0. /\ Cardinality(queue) \in Nat /\ Cardinality(finished) \in Nat
      /\ Cardinality(At("run")) \in Nat /\ lastJob \in Nat
  BY FS_CardinalityType, RunSet DEF TypeOK
<1>1. ASSUME NEW j, Takes(w, j) PROVE EveryJobIsSomewhere'
  <2>1. /\ pc[w] # "run" /\ pc'[w] = "run" /\ cur'[w] = j /\ j \in queue
        /\ queue' = queue \ {j} /\ UNCHANGED <<lastJob, finished>>
    BY <1>1 DEF Takes
  <2>2. /\ Cardinality(queue') = Cardinality(queue) - 1
        /\ Cardinality(At("run")') = Cardinality(At("run")) + 1
    BY <2>1, RunSet, FS_RemoveElement DEF TypeOK
  <2>3. \A u \in At("run")' : u = w \/ (u \in At("run") /\ cur'[u] = cur[u])
    BY Others DEF At
  <2>4. \A u \in At("run") : cur[u] # j
    BY <2>1 DEF EveryJobIsSomewhere
  <2>5. /\ \A i \in queue' \cup finished' : i.index <= lastJob'
        /\ queue' \cap finished' = {}
    BY <2>1 DEF EveryJobIsSomewhere
  <2>6. \A u \in At("run")' : cur'[u].index <= lastJob' /\ cur'[u] \notin queue' \cup finished'
    BY <2>1, <2>3, <2>4 DEF EveryJobIsSomewhere
  <2>7. \A u, v \in At("run")' : cur'[u] = cur'[v] => u = v
    BY <2>1, <2>3, <2>4 DEF EveryJobIsSomewhere
  <2>8. Cardinality(queue') + Cardinality(At("run")') + Cardinality(finished') = lastJob'
    BY <1>0, <2>1, <2>2, SMT DEF EveryJobIsSomewhere
  <2> QED
    BY <2>5, <2>6, <2>7, <2>8 DEF EveryJobIsSomewhere
<1>2. CASE Run(w)
  <2>1. /\ pc[w] = "run" /\ pc'[w] # "run" /\ finished' = finished \cup {cur[w]}
        /\ UNCHANGED <<queue, lastJob, cur>> /\ w \in At("run")
    BY <1>2 DEF Run, Move, TypeOK, stateVars, At
  <2>2. cur[w] \notin finished /\ cur[w] \notin queue /\ cur[w].index <= lastJob
    BY <2>1 DEF EveryJobIsSomewhere
  <2>3. /\ Cardinality(finished') = Cardinality(finished) + 1
        /\ Cardinality(At("run")') = Cardinality(At("run")) - 1
    BY <2>1, <2>2, RunSet, FS_AddElement DEF TypeOK
  <2>4. \A u \in At("run")' : u # w /\ u \in At("run")
    BY <2>1, Others DEF At
  <2>5. /\ \A i \in queue' \cup finished' : i.index <= lastJob'
        /\ queue' \cap finished' = {}
    BY <2>1, <2>2 DEF EveryJobIsSomewhere
  <2>6. \A u \in At("run")' : cur'[u].index <= lastJob' /\ cur'[u] \notin queue' \cup finished'
    BY <2>1, <2>4 DEF EveryJobIsSomewhere
  <2>7. \A u, v \in At("run")' : cur'[u] = cur'[v] => u = v
    BY <2>1, <2>4 DEF EveryJobIsSomewhere
  <2>8. Cardinality(queue') + Cardinality(At("run")') + Cardinality(finished') = lastJob'
    BY <1>0, <2>1, <2>3, SMT DEF EveryJobIsSomewhere
  <2> QED
    BY <2>5, <2>6, <2>7, <2>8 DEF EveryJobIsSomewhere
<1>3. ASSUME pc[w] # "run", pc'[w] # "run", UNCHANGED <<queue, lastJob, finished>>
      PROVE  EveryJobIsSomewhere'
  <2>1. At("run")' = At("run")
    BY <1>3, RunSet
  <2>2. \A u \in At("run") : cur'[u] = cur[u]
    BY <1>3, Others DEF At
  <2> QED
    BY <1>3, <2>1, <2>2 DEF EveryJobIsSomewhere
<1>4. CASE Retire(w)
  <2>1. pc[w] # "run" /\ pc'[w] # "run" /\ UNCHANGED <<queue, lastJob, finished>>
    BY <1>4 DEF Retire, Move, TypeOK, history
  <2> QED
    BY <1>3, <2>1
<1> QED
  BY <1>1, <1>2, <1>3, <1>4, WorkerCases

LEMMA RunningStep ==
    ASSUME TypeOK, TypeOK', NEW t \in Known, NEW d \in Int, running'[t] = running[t] + d,
           \A s \in Known : s # t => running'[s] = running[s]
    PROVE  SumFunction(running') = SumFunction(running) + d
<1>1. running \in [Known -> Int] /\ running' \in [Known -> Int] /\ IsFiniteSet(Known)
  BY KnownOK DEF TypeOK
<1>2. SumFunction(running') = SumFunction(running) - running[t] + running'[t]
  BY <1>1, SumStep, SMT
<1>3. SumFunction(running) \in Int
  BY <1>1, SumInt
<1> QED
  BY <1>1, <1>2, <1>3, SMT

LEMMA WorkerCounters ==
    ASSUME TypeOK, TypeOK', Holding, EveryJobIsSomewhere, CountersOK,
           NEW w \in Workers, WorkerNext(w)
    PROVE  CountersOK'
<1>0. /\ Cardinality(queue) \in Nat /\ Cardinality(At("run")) \in Nat
      /\ Cardinality(Inserting) \in Nat /\ count \in Int /\ SumFunction(running) \in Int
  BY FS_CardinalityType, FS_Subset, RunSet, SumInt, KnownOK DEF TypeOK, Inserting
<1>1. ASSUME NEW j, Takes(w, j) PROVE CountersOK'
  <2>1. PICK t \in Known : t = j.type
    BY <1>1 DEF Takes
  <2>2. /\ pc[w] # "run" /\ pc'[w] = "run" /\ cur'[w] = j /\ j \in queue /\ j # NoJob
        /\ queue' = queue \ {j} /\ UNCHANGED <<count, addPc>>
        /\ processCount' = processCount + 1 /\ running[t] < Limit[t]
    BY <1>1, <2>1, KnownOK DEF Takes
  <2>3. /\ waiting'[t] = waiting[t] - 1 /\ running'[t] = running[t] + 1
        /\ \A s \in Known : s # t => waiting'[s] = waiting[s] /\ running'[s] = running[s]
    BY <1>1, <2>1 DEF Takes, TypeOK
  <2>4. /\ Cardinality(queue') = Cardinality(queue) - 1
        /\ Cardinality(At("run")') = Cardinality(At("run")) + 1
    BY <2>2, RunSet, FS_RemoveElement DEF TypeOK
  <2>5. /\ OfType(t)' = OfType(t) \ {j} /\ j \in OfType(t) /\ IsFiniteSet(OfType(t))
        /\ \A s \in Known : s # t => OfType(s)' = OfType(s)
    BY <2>1, <2>2, FS_Subset DEF OfType, TypeOK
  <2>6. Cardinality(OfType(t)') = Cardinality(OfType(t)) - 1
    BY <2>5, FS_RemoveElement
  <2>7. cur[w] = NoJob
    BY <1>1 DEF Takes, Holding, Busy, Ended
  <2>8. Cardinality(Executing(t)') = Cardinality(Executing(t)) + 1
    BY <2>1, <2>2, <2>7, ExecutingSet
  <2>9. \A s \in Known : s # t => Executing(s)' = Executing(s)
    BY <2>1, <2>2, <2>7, ExecutingSet
  <2>10. SumFunction(running') = SumFunction(running) + 1
    BY <2>3, RunningStep, SMT
  <2>11. running[t] \in Int /\ waiting[t] \in Int /\ Limit[t] \in Int
    BY KnownOK, SMT DEF TypeOK
  <2>12. \A s \in Known : /\ waiting'[s] = Cardinality(OfType(s)')
                          /\ running'[s] = Cardinality(Executing(s)')
                          /\ running'[s] <= Limit[s]
    <3>1. ASSUME NEW s \in Known, s # t
          PROVE  /\ waiting'[s] = Cardinality(OfType(s)')
                 /\ running'[s] = Cardinality(Executing(s)') /\ running'[s] <= Limit[s]
      BY <2>3, <2>5, <2>9, <3>1 DEF CountersOK
    <3>2. /\ waiting'[t] = Cardinality(OfType(t)')
          /\ running'[t] = Cardinality(Executing(t)') /\ running'[t] <= Limit[t]
      BY <2>2, <2>3, <2>6, <2>8, <2>11, SMT DEF CountersOK
    <3> QED
      BY <3>1, <3>2
  <2>13. Inserting' = Inserting
    BY <2>2 DEF Inserting
  <2>14. count' = Cardinality(queue') + Cardinality(At("run")') + Cardinality(Inserting')
    BY <1>0, <2>2, <2>4, <2>13, SMT DEF CountersOK
  <2> QED
    BY <1>0, <2>2, <2>10, <2>12, <2>14 DEF CountersOK
<1>2. CASE Run(w)
  <2>1. /\ pc[w] = "run" /\ pc'[w] # "run" /\ count' = count - 1
        /\ UNCHANGED <<queue, cur, addPc, waiting, running, processCount>>
    BY <1>2 DEF Run, Move, TypeOK, stateVars, addVars
  <2>2. Cardinality(At("run")') = Cardinality(At("run")) - 1
    BY <2>1, RunSet
  <2>3. /\ \A s \in Known : OfType(s)' = OfType(s) /\ Executing(s)' = Executing(s)
        /\ Inserting' = Inserting
    BY <2>1 DEF OfType, Executing, Inserting
  <2> QED
    BY <1>0, <2>1, <2>2, <2>3, SMT DEF CountersOK
<1>3. CASE Retire(w)
  <2>1. /\ pc[w] \in Ended /\ pc'[w] # "run" /\ cur'[w] = NoJob
        /\ UNCHANGED <<queue, addPc, waiting, count>> /\ processCount' = processCount - 1
    BY <1>3 DEF Retire, Move, TypeOK, counterVars, addVars, Ended
  <2>2. PICK t \in Known : t = cur[w].type
    BY <2>1, CurType DEF Busy
  <2>3. cur[w] # NoJob
    BY <2>1, CurType DEF Busy
  <2>4. running'[t] = running[t] - 1 /\ \A s \in Known : s # t => running'[s] = running[s]
    BY <1>3, <2>2 DEF Retire, TypeOK
  <2>5. Cardinality(Executing(t)') = Cardinality(Executing(t)) - 1
    BY <2>1, <2>2, <2>3, ExecutingSet
  <2>6. \A s \in Known : s # t => Executing(s)' = Executing(s)
    BY <2>1, <2>2, <2>3, ExecutingSet
  <2>7. running[t] \in Int /\ Limit[t] \in Int
    BY KnownOK, SMT DEF TypeOK
  <2>8. running'[t] = running[t] + (-1)
    BY <2>4, <2>7
  <2>9. SumFunction(running') = SumFunction(running) + (-1)
    BY <2>4, <2>8, RunningStep, SMT
  <2>10. \A s \in Known : OfType(s)' = OfType(s)
    BY <2>1 DEF OfType
  <2>11. Inserting' = Inserting /\ At("run")' = At("run")
    BY <2>1, RunSet DEF Inserting, Ended
  <2>12. \A s \in Known : /\ waiting'[s] = Cardinality(OfType(s)')
                          /\ running'[s] = Cardinality(Executing(s)')
                          /\ running'[s] <= Limit[s]
    <3>1. ASSUME NEW s \in Known, s # t
          PROVE  /\ waiting'[s] = Cardinality(OfType(s)')
                 /\ running'[s] = Cardinality(Executing(s)') /\ running'[s] <= Limit[s]
      BY <2>1, <2>4, <2>6, <2>10, <3>1 DEF CountersOK
    <3>2. /\ waiting'[t] = Cardinality(OfType(t)')
          /\ running'[t] = Cardinality(Executing(t)') /\ running'[t] <= Limit[t]
      BY <2>1, <2>4, <2>5, <2>7, <2>10, SMT DEF CountersOK
    <3> QED
      BY <3>1, <3>2
  <2> QED
    BY <1>0, <2>1, <2>9, <2>11, <2>12 DEF CountersOK
<1>4. CASE /\ pc[w] # "run" /\ pc'[w] # "run"
           /\ UNCHANGED <<queue, lastJob, waiting, running, processCount, cur, count,
                          joined, stopPc, addPc, finished>>
  <2>1. /\ \A s \in Known : OfType(s)' = OfType(s) /\ Executing(s)' = Executing(s)
        /\ Inserting' = Inserting /\ At("run")' = At("run")
    BY <1>4, RunSet DEF OfType, Executing, Inserting
  <2> QED
    BY <1>4, <2>1 DEF CountersOK
<1> QED
  BY <1>1, <1>2, <1>3, <1>4, WorkerCases

\* A worker never counts a closure, and stop() waits for those that there are.
LEMMA WorkerJoin ==
    ASSUME TypeOK, Holding, CountersOK, JoinOK, NEW w \in Workers, WorkerNext(w)
    PROVE  JoinOK'
<1>1. CASE Run(w)
  <2>1. count' = count - 1 /\ UNCHANGED <<joined, stopPc>> /\ w \in At("run")
    BY <1>1 DEF Run, stopVars, At, Move
  <2>2. /\ Cardinality(queue) \in Nat /\ Cardinality(At("run")) \in Nat
        /\ Cardinality(Inserting) \in Nat
    BY FS_CardinalityType, FS_Subset, RunSet, KnownOK DEF TypeOK, Inserting
  <2>3. Cardinality(At("run")) # 0
    BY <2>1, FS_EmptySet, FS_Subset, KnownOK DEF At
  <2>4. count # 0
    BY <2>2, <2>3, SMT DEF CountersOK
  <2> QED
    BY <2>1, <2>4 DEF JoinOK
<1>2. CASE ~Run(w)
  <2>1. UNCHANGED <<count, joined, stopPc>>
    BY <1>2, WorkerCases DEF Takes, Retire, counterVars, stopVars
  <2> QED
    BY <2>1 DEF JoinOK
<1> QED
  BY <1>1, <1>2
-----------------------------------------------------------------------------
(* The callers of add_job.                                                 *)

CallerStep(c) == AddCheck(c) \/ AddNext(c)

\* What a caller leaves alone.
LEMMA CallerLeaves ==
    ASSUME NEW c \in Callers, CallerStep(c)
    PROVE  UNCHANGED <<pc, cur, owes, running, processCount, joined, stopPc, finished>>
BY DEF CallerStep, AddCheck, AddNext, AddWrap, AddInsert, stateVars, workerVars, counterVars,
       stopVars, addVars, history

\* The job that a caller inserts.
Inserts(c, t, j) ==
    /\ t \in Known /\ t = addType[c] /\ j = [type |-> t, index |-> lastJob + 1]
    /\ j \in Jobs /\ j.type = t /\ j.index = lastJob + 1
    /\ addPc[c] = "insert" /\ addPc' = [addPc EXCEPT ![c] = "idle"]
    /\ lastJob' = lastJob + 1 /\ queue' = queue \cup {j}
    /\ waiting' = [waiting EXCEPT ![t] = @ + 1]
    /\ \/ HasRoom(t) /\ sem' = sem + 1 /\ deferred' = deferred
       \/ ~HasRoom(t) /\ deferred' = [deferred EXCEPT ![t] = @ + 1] /\ sem' = sem
    /\ count' = count

\* A caller inserts a job, or changes at most its own place and the count.
LEMMA CallerCases ==
    ASSUME TypeOK, NEW c \in Callers, CallerStep(c)
    PROVE  \/ \E t, j : Inserts(c, t, j)
           \/ /\ UNCHANGED <<queue, lastJob, waiting, deferred, sem>>
              /\ \/ /\ addPc[c] = "idle" /\ addPc' = [addPc EXCEPT ![c] = "wrap"]
                    /\ count' = count
                 \/ /\ addPc[c] = "wrap" /\ joined
                    /\ addPc' = [addPc EXCEPT ![c] = "idle"] /\ count' = count
                 \/ /\ addPc[c] = "wrap" /\ ~joined
                    /\ addPc' = [addPc EXCEPT ![c] = "insert"] /\ count' = count + 1
                 \/ /\ addPc[c] = "insert"
                    /\ addPc' = [addPc EXCEPT ![c] = "idle"] /\ count' = count - 1
<1>1. CASE AddCheck(c)
  BY <1>1 DEF AddCheck, stateVars, counterVars
<1>2. CASE AddWrap(c)
  BY <1>2 DEF AddWrap, stateVars
<1>3. CASE AddInsert(c) /\ addType[c] \notin Known
  BY <1>3 DEF AddInsert, stateVars
<1>4. CASE AddInsert(c) /\ addType[c] \in Known
  <2> DEFINE t == addType[c]
             j == [type |-> t, index |-> lastJob + 1]
  <2>1. j \in Jobs /\ j.type = t /\ j.index = lastJob + 1
    BY <1>4, SMT DEF Jobs, TypeOK
  <2>2. /\ addPc[c] = "insert" /\ addPc' = [addPc EXCEPT ![c] = "idle"]
        /\ lastJob' = lastJob + 1 /\ waiting' = [waiting EXCEPT ![t] = @ + 1]
        /\ \/ HasRoom(t) /\ sem' = sem + 1 /\ deferred' = deferred
           \/ ~HasRoom(t) /\ deferred' = [deferred EXCEPT ![t] = @ + 1] /\ sem' = sem
        /\ count' = count
    BY <1>4 DEF AddInsert
  <2>3. queue' = queue \cup {j}
    BY <1>4 DEF AddInsert
  <2>4. Inserts(c, t, j)
    <3>1. t \in Known /\ t = addType[c] /\ j = [type |-> t, index |-> lastJob + 1]
      BY <1>4
    <3> HIDE DEF t, j
    <3> QED
      BY <2>1, <2>2, <2>3, <3>1 DEF Inserts
  <2> QED
    BY <2>4
<1> QED
  BY <1>1, <1>2, <1>3, <1>4 DEF CallerStep, AddNext

LEMMA CallerType ==
    ASSUME TypeOK, NEW c \in Callers, CallerStep(c)
    PROVE  TypeOK'
<1>1. UNCHANGED <<pc, cur, owes, running, processCount, joined, stopPc, finished>>
  BY CallerLeaves
<1>2. ASSUME NEW t, NEW j, Inserts(c, t, j) PROVE TypeOK'
  <2>1. waiting[t] + 1 \in Int /\ deferred[t] + 1 \in Nat /\ t \in Known
    BY <1>2, SMT DEF Inserts, TypeOK
  <2>2. waiting' \in [Known -> Int] /\ deferred' \in [Known -> Nat]
    BY <1>2, <2>1 DEF Inserts, TypeOK
  <2>3. queue' \subseteq Jobs /\ IsFiniteSet(queue')
    BY <1>2, FS_AddElement DEF Inserts, TypeOK
  <2> QED
    BY <1>1, <1>2, <2>2, <2>3, SMT DEF Inserts, TypeOK
<1>3. ASSUME UNCHANGED <<queue, lastJob, waiting, deferred, sem>>,
             \E s \in {"idle", "wrap", "insert"} : addPc' = [addPc EXCEPT ![c] = s],
             count' \in Int
      PROVE  TypeOK'
  BY <1>1, <1>3 DEF TypeOK
<1>4. count + 1 \in Int /\ count - 1 \in Int /\ count \in Int
  BY SMT DEF TypeOK
<1> QED
  BY <1>2, <1>3, <1>4, CallerCases

\* The set of callers that have counted a closure and not inserted the job.
LEMMA InsertingSet ==
    ASSUME TypeOK, NEW c \in Callers, \E s : addPc' = [addPc EXCEPT ![c] = s]
    PROVE  /\ Cardinality(Inserting) \in Nat
           /\ addPc[c] # "insert" /\ addPc'[c] # "insert" => Inserting' = Inserting
           /\ addPc[c] # "insert" /\ addPc'[c] = "insert" =>
                Cardinality(Inserting') = Cardinality(Inserting) + 1
           /\ addPc[c] = "insert" /\ addPc'[c] # "insert" =>
                Cardinality(Inserting') = Cardinality(Inserting) - 1
<1>1. IsFiniteSet(Inserting) /\ Cardinality(Inserting) \in Nat
  BY FS_Subset, FS_CardinalityType, KnownOK DEF Inserting
<1>2. \A d \in Callers : d # c => addPc'[d] = addPc[d]
  BY DEF TypeOK
<1>3. addPc[c] # "insert" /\ addPc'[c] # "insert" => Inserting' = Inserting
  BY <1>2 DEF Inserting
<1>4. ASSUME addPc[c] # "insert", addPc'[c] = "insert"
      PROVE  Cardinality(Inserting') = Cardinality(Inserting) + 1
  <2>1. Inserting' = Inserting \cup {c} /\ c \notin Inserting
    BY <1>2, <1>4 DEF Inserting
  <2> QED
    BY <1>1, <2>1, FS_AddElement
<1>5. ASSUME addPc[c] = "insert", addPc'[c] # "insert"
      PROVE  Cardinality(Inserting') = Cardinality(Inserting) - 1
  <2>1. Inserting' = Inserting \ {c} /\ c \in Inserting
    BY <1>2, <1>5 DEF Inserting
  <2> QED
    BY <1>1, <2>1, FS_RemoveElement
<1> QED
  BY <1>1, <1>3, <1>4, <1>5

LEMMA CallerSets ==
    ASSUME NEW c \in Callers, CallerStep(c)
    PROVE  /\ At("run")' = At("run") /\ Tokened' = Tokened /\ Owed' = Owed
           /\ \A t : Pending(t)' = Pending(t) /\ Executing(t)' = Executing(t)
BY CallerLeaves DEF At, Tokened, Owed, Pending, Executing

LEMMA CallerOK ==
    ASSUME IInv, NEW c \in Callers, CallerStep(c)
    PROVE  Holding' /\ EveryJobIsSomewhere' /\ TokensAreBacked' /\ CountersOK' /\ JoinOK'
<1>0. /\ Cardinality(queue) \in Nat /\ Cardinality(finished) \in Nat /\ lastJob \in Nat
      /\ Cardinality(At("run")) \in Nat /\ Cardinality(Inserting) \in Nat /\ count \in Int
      /\ Cardinality(Tokened) \in Nat /\ Cardinality(Owed) \in Nat /\ sem \in Int
      /\ SumFunction(Backed) \in Int /\ Backed \in [Known -> Int]
  BY FS_CardinalityType, FS_Subset, KnownOK, BackedType, SMTT(30)
     DEF IInv, TypeOK, At, Inserting, Tokened, Owed
<1>1. /\ UNCHANGED <<pc, cur, owes, running, processCount, joined, stopPc, finished>>
      /\ At("run")' = At("run") /\ Tokened' = Tokened /\ Owed' = Owed
      /\ \A t : Pending(t)' = Pending(t) /\ Executing(t)' = Executing(t)
  BY CallerLeaves, CallerSets
<1>2. Holding'
  BY <1>1 DEF IInv, Holding
<1>3. TypeOK /\ TypeOK'
  BY CallerType DEF IInv
<1>4. ASSUME NEW t, NEW j, Inserts(c, t, j)
      PROVE  EveryJobIsSomewhere' /\ TokensAreBacked' /\ CountersOK' /\ JoinOK'
  <2>1. /\ t \in Known /\ j.type = t /\ j.index = lastJob + 1 /\ lastJob' = lastJob + 1
        /\ queue' = queue \cup {j} /\ count' = count
    BY <1>4 DEF Inserts
  <2>2. \A i \in queue \cup finished : i # j
    BY <1>0, <2>1, SMT DEF IInv, EveryJobIsSomewhere
  <2>3. \A w \in At("run") : cur[w] # j
    BY <1>0, <2>1, SMT DEF IInv, EveryJobIsSomewhere
  <2>4. Cardinality(queue') = Cardinality(queue) + 1
    BY <2>1, <2>2, <1>3, FS_AddElement DEF TypeOK
  <2>5. EveryJobIsSomewhere'
    <3>1. queue' \cap finished' = {} /\ \A i \in queue' \cup finished' : i.index <= lastJob'
      BY <1>0, <1>1, <1>3, <2>1, <2>2, SMTT(30) DEF IInv, EveryJobIsSomewhere, TypeOK, Jobs
    <3>2. \A w \in At("run")' : cur'[w].index <= lastJob' /\ cur'[w] \notin queue' \cup finished'
      <4>1. \A w \in At("run") : cur[w].index \in Nat
        BY <1>3, CurType DEF IInv, At, Busy, Jobs
      <4> QED
        BY <1>0, <1>1, <2>1, <2>3, <4>1, SMT DEF IInv, EveryJobIsSomewhere
    <3>3. \A v, w \in At("run")' : cur'[v] = cur'[w] => v = w
      BY <1>1 DEF IInv, EveryJobIsSomewhere
    <3>4. Cardinality(queue') + Cardinality(At("run")') + Cardinality(finished') = lastJob'
      BY <1>0, <1>1, <2>1, <2>4, SMT DEF IInv, EveryJobIsSomewhere
    <3> QED
      BY <3>1, <3>2, <3>3, <3>4 DEF EveryJobIsSomewhere
  <2>6. waiting'[t] = waiting[t] + 1 /\ \A s \in Known : s # t => waiting'[s] = waiting[s]
    BY <1>3, <1>4, <2>1 DEF Inserts, TypeOK
  <2>7. \A s \in Known : waiting[s] \in Int /\ deferred[s] \in Nat /\ running[s] \in Int /\ Limit[s] \in Int
    <3>1. waiting \in [Known -> Int] /\ deferred \in [Known -> Nat] /\ running \in [Known -> Int]
      BY <1>3 DEF TypeOK
    <3>2. ASSUME NEW s \in Known PROVE Limit[s] \in Int
      <4>1. Limit[s] \in Nat
        BY KnownOK
      <4> QED
        BY <4>1, SMT
    <3> QED
      BY <3>1, <3>2
  <2>8. CountersOK'
    <3>1. /\ OfType(t)' = OfType(t) \cup {j} /\ j \notin OfType(t) /\ IsFiniteSet(OfType(t))
          /\ \A s \in Known : s # t => OfType(s)' = OfType(s)
      BY <1>3, <2>1, <2>2, FS_Subset DEF OfType, TypeOK
    <3>2. Cardinality(OfType(t)') = Cardinality(OfType(t)) + 1
      BY <3>1, FS_AddElement
    <3>3. Cardinality(Inserting') = Cardinality(Inserting) - 1
      <4>1. addPc[c] = "insert" /\ addPc' = [addPc EXCEPT ![c] = "idle"] /\ addPc'[c] = "idle"
        BY <1>3, <1>4 DEF Inserts, TypeOK
      <4> QED
        BY <1>3, <4>1, InsertingSet
    <3>4. \A s \in Known : waiting'[s] = Cardinality(OfType(s)')
      BY <2>1, <2>6, <2>7, <3>1, <3>2 DEF IInv, CountersOK
    <3>5. count' = Cardinality(queue') + Cardinality(At("run")') + Cardinality(Inserting')
      BY <1>0, <1>1, <2>1, <2>4, <3>3, SMT DEF IInv, CountersOK
    <3> QED
      BY <1>1, <3>4, <3>5 DEF IInv, CountersOK
  <2>9. TokensAreBacked'
    <3>1. CASE HasRoom(t) /\ sem' = sem + 1 /\ deferred' = deferred
      <4>1. Backed'[t] = Backed[t] + 1 /\ \A s \in Known : s # t => Backed'[s] = Backed[s]
        BY <1>1, <1>3, <2>1, <2>6, <2>7, <3>1, BackedType, BackedTypeNext, SMTT(30)
      <4>2. SumFunction(Backed') = SumFunction(Backed) + 1
        BY <1>3, <2>1, <4>1, BackedStep, SMT
      <4>3. Backed[t] <= waiting[t] /\ waiting[t] + running[t] < Limit[t]
        BY <1>3, <2>1, <2>7, <3>1, BackedType, SMTT(30) DEF HasRoom
      <4>4. \A s \in Known : Backed'[s] + running'[s] <= Limit[s]
        BY <1>0, <1>1, <2>1, <2>7, <4>1, <4>3, SMT DEF IInv, TokensAreBacked
      <4> QED
        BY <1>0, <1>1, <3>1, <4>2, <4>4, SMTT(30) DEF IInv, TokensAreBacked
    <3>2. CASE deferred' = [deferred EXCEPT ![t] = @ + 1] /\ sem' = sem
      <4>1. deferred'[t] = deferred[t] + 1 /\ \A s \in Known : s # t => deferred'[s] = deferred[s]
        BY <1>3, <2>1, <3>2 DEF TypeOK
      <4>2. \A s \in Known : Backed'[s] = Backed[s]
        BY <1>1, <1>3, <2>1, <2>6, <2>7, <4>1, BackedType, BackedTypeNext, SMTT(30)
      <4>3. Backed' = Backed
        BY <1>0, <1>3, <4>2, BackedTypeNext, SMT
      <4> QED
        BY <1>1, <3>2, <4>3 DEF IInv, TokensAreBacked
    <3> QED
      BY <1>4, <3>1, <3>2 DEF Inserts
  <2>10. JoinOK'
    BY <1>1, <2>1 DEF IInv, JoinOK
  <2> QED
    BY <2>5, <2>8, <2>9, <2>10
<1>5. ASSUME UNCHANGED <<queue, lastJob, waiting, deferred, sem>>,
             count' = Cardinality(queue) + Cardinality(At("run")) + Cardinality(Inserting'),
             stopPc \in {"rendezvous", "pool", "done"} => count' = 0
      PROVE  EveryJobIsSomewhere' /\ TokensAreBacked' /\ CountersOK' /\ JoinOK'
  <2>1. Backed' = Backed /\ \A s \in Known : OfType(s)' = OfType(s)
    BY <1>1, <1>5, BackedSame DEF OfType
  <2>2. EveryJobIsSomewhere'
    BY <1>1, <1>5 DEF IInv, EveryJobIsSomewhere
  <2>3. TokensAreBacked'
    BY <1>1, <1>5, <2>1 DEF IInv, TokensAreBacked
  <2>4. CountersOK'
    BY <1>1, <1>5, <2>1 DEF IInv, CountersOK
  <2>5. JoinOK'
    BY <1>1, <1>5 DEF IInv, JoinOK
  <2> QED
    BY <2>2, <2>3, <2>4, <2>5
<1>6. /\ count = Cardinality(queue) + Cardinality(At("run")) + Cardinality(Inserting)
      /\ stopPc \in {"rendezvous", "pool", "done"} => count = 0 /\ joined
  BY DEF IInv, CountersOK, JoinOK
<1>7. ASSUME addPc[c] \in {"idle", "wrap"}, count' = count,
             \E s \in {"idle", "wrap"} : addPc' = [addPc EXCEPT ![c] = s],
             UNCHANGED <<queue, lastJob, waiting, deferred, sem>>
      PROVE  EveryJobIsSomewhere' /\ TokensAreBacked' /\ CountersOK' /\ JoinOK'
  <2>1. addPc'[c] # "insert"
    BY <1>3, <1>7 DEF TypeOK
  <2>2. Inserting' = Inserting
    BY <1>3, <1>7, <2>1, InsertingSet
  <2> QED
    BY <1>5, <1>6, <1>7, <2>2
<1>8. ASSUME addPc[c] = "wrap", ~joined, count' = count + 1,
             addPc' = [addPc EXCEPT ![c] = "insert"],
             UNCHANGED <<queue, lastJob, waiting, deferred, sem>>
      PROVE  EveryJobIsSomewhere' /\ TokensAreBacked' /\ CountersOK' /\ JoinOK'
  <2>1. addPc'[c] = "insert"
    BY <1>3, <1>8 DEF TypeOK
  <2>2. Cardinality(Inserting') = Cardinality(Inserting) + 1
    BY <1>3, <1>8, <2>1, InsertingSet
  <2> QED
    BY <1>0, <1>5, <1>6, <1>8, <2>2, SMT
<1>9. ASSUME addPc[c] = "insert", count' = count - 1,
             addPc' = [addPc EXCEPT ![c] = "idle"],
             UNCHANGED <<queue, lastJob, waiting, deferred, sem>>
      PROVE  EveryJobIsSomewhere' /\ TokensAreBacked' /\ CountersOK' /\ JoinOK'
  <2>0. addPc'[c] = "idle"
    BY <1>3, <1>9 DEF TypeOK
  <2>1. Cardinality(Inserting') = Cardinality(Inserting) - 1
    BY <1>3, <1>9, <2>0, InsertingSet
  <2>2. Cardinality(Inserting) # 0
    BY <1>9, FS_EmptySet, FS_Subset, KnownOK DEF Inserting
  <2>3. count # 0
    BY <1>0, <1>6, <2>2, SMT
  <2> QED
    BY <1>0, <1>5, <1>6, <1>9, <2>1, <2>3, SMT
<1> QED
  BY <1>2, <1>3, <1>4, <1>7, <1>8, <1>9, CallerCases
-----------------------------------------------------------------------------
(* stop(), the initial state and the theorems.                             *)

LEMMA StopOK ==
    ASSUME IInv, Stop \/ StopNext
    PROVE  IInv'
<1>1. /\ UNCHANGED <<stateVars, sem, workerVars, count, addVars, history>>
      /\ stopPc' \in StopPcs /\ joined' \in BOOLEAN
  BY DEF IInv, TypeOK, StopPcs, Stop, StopNext, StopClose, StopJoin, StopRendezvous, StopPool,
         counterVars
<1>2. TypeOK'
  BY <1>1 DEF IInv, TypeOK, stateVars, workerVars, addVars, history
<1>3. Holding'
  BY <1>1 DEF IInv, Holding, workerVars
<1>4. At("run")' = At("run") /\ Tokened' = Tokened /\ Owed' = Owed /\ Inserting' = Inserting
  BY <1>1 DEF At, Tokened, Owed, Inserting, workerVars, addVars
<1>5. \A t : Pending(t)' = Pending(t) /\ Executing(t)' = Executing(t) /\ OfType(t)' = OfType(t)
  BY <1>1 DEF Pending, Executing, OfType, workerVars, stateVars
<1>6. Backed' = Backed
  BY <1>1, <1>5, BackedSame DEF stateVars
<1>7. EveryJobIsSomewhere'
  BY <1>1, <1>4 DEF IInv, EveryJobIsSomewhere, workerVars, stateVars, history
<1>8. TokensAreBacked'
  BY <1>1, <1>4, <1>6 DEF IInv, TokensAreBacked, stateVars
<1>9. CountersOK'
  BY <1>1, <1>4, <1>5 DEF IInv, CountersOK, stateVars
<1>10. JoinOK'
  BY DEF IInv, JoinOK, Stop, StopNext, StopClose, StopJoin, StopRendezvous, StopPool, counterVars
<1> QED
  BY <1>2, <1>3, <1>7, <1>8, <1>9, <1>10 DEF IInv

LEMMA InitOK ==
    ASSUME Init
    PROVE  IInv
<1>1. TypeOK
  <2>1. waiting \in [Known -> Int] /\ running \in [Known -> Int] /\ deferred \in [Known -> Nat]
    BY SMT DEF Init
  <2>2. pc \in [Workers -> WorkerPcs] /\ cur \in [Workers -> Jobs \cup {NoJob}]
    BY DEF Init, WorkerPcs
  <2>3. owes \in [Workers -> BOOLEAN] /\ addPc \in [Callers -> {"idle", "wrap", "insert"}]
    BY DEF Init
  <2>4. /\ queue \subseteq Jobs /\ IsFiniteSet(queue)
        /\ finished \subseteq Jobs /\ IsFiniteSet(finished)
    BY FS_EmptySet DEF Init
  <2>5. /\ lastJob \in Nat /\ processCount \in Int /\ sem \in Nat /\ count \in Int
        /\ stopPc \in StopPcs
    BY SMT DEF Init, StopPcs
  <2>6. joined \in BOOLEAN
    BY DEF Init
  <2> QED
    BY <2>1, <2>2, <2>3, <2>4, <2>5, <2>6 DEF TypeOK
<1>2. Holding
  BY DEF Init, Holding, Busy, Ended
<1>3. /\ At("run") = {} /\ Tokened = {} /\ Owed = {} /\ Inserting = {}
      /\ \A t : Pending(t) = {} /\ Executing(t) = {} /\ OfType(t) = {}
  BY DEF Init, At, Tokened, Owed, Inserting, Pending, Executing, OfType
<1>4. Cardinality({}) = 0
  BY FS_EmptySet
<1>5. EveryJobIsSomewhere
  BY <1>3, <1>4, SMT DEF Init, EveryJobIsSomewhere
<1>6. \A t \in Known : Backed[t] = 0
  BY <1>3, <1>4, SMT DEF Init, Backed
<1>7. SumFunction(Backed) = 0
  BY <1>1, <1>6, BackedType, SumZero, KnownOK
<1>8. \A t \in Known : running[t] = 0 /\ Limit[t] \in Nat
  BY KnownOK DEF Init
<1>9. SumFunction(running) = 0
  BY <1>1, <1>8, SumZero, KnownOK DEF TypeOK
<1>10. TokensAreBacked
  BY <1>3, <1>4, <1>6, <1>7, <1>8, SMT DEF Init, TokensAreBacked
<1>11. CountersOK
  <2>1. \A t \in Known : waiting[t] = Cardinality(OfType(t)) /\ running[t] = Cardinality(Executing(t))
    BY <1>3, <1>4, <1>8 DEF Init
  <2>2. count = Cardinality(queue) + Cardinality(At("run")) + Cardinality(Inserting)
    BY <1>3, <1>4, SMT DEF Init
  <2>3. \A t \in Known : running[t] <= Limit[t]
    BY <1>8, SMT
  <2> QED
    BY <1>9, <2>1, <2>2, <2>3 DEF Init, CountersOK
<1>12. JoinOK
  BY DEF Init, JoinOK
<1> QED
  BY <1>1, <1>2, <1>5, <1>10, <1>11, <1>12 DEF IInv

LEMMA Invariance == Spec => []IInv
<1>1. Init => IInv
  BY InitOK
<1>2. IInv /\ [Next]_vars => IInv'
  <2>1. ASSUME IInv, NEW w \in Workers, WorkerNext(w) PROVE IInv'
    <3>1. TypeOK /\ Holding /\ EveryJobIsSomewhere /\ TokensAreBacked /\ CountersOK /\ JoinOK
      BY <2>1 DEF IInv
    <3>2. TypeOK' /\ Holding'
      BY <2>1, <3>1, WorkerType, WorkerHolding
    <3>3. EveryJobIsSomewhere' /\ CountersOK' /\ JoinOK'
      BY <2>1, <3>1, <3>2, WorkerJobs, WorkerCounters, WorkerJoin
    <3>4. TokensAreBacked'
      BY <2>1, <3>1, <3>2, WorkerTokens
    <3> QED
      BY <3>2, <3>3, <3>4 DEF IInv
  <2>2. ASSUME IInv, NEW c \in Callers, AddCheck(c) \/ AddNext(c) PROVE IInv'
    <3>1. TypeOK /\ CallerStep(c)
      BY <2>2 DEF IInv, CallerStep
    <3> QED
      BY <2>2, <3>1, CallerType, CallerOK DEF IInv
  <2>3. ASSUME IInv, UNCHANGED vars PROVE IInv'
    <3>1. /\ UNCHANGED <<queue, lastJob, waiting, running, deferred, processCount, sem,
                         pc, cur, owes, count, joined, stopPc, addPc, finished>>
      BY <2>3 DEF vars, stateVars, workerVars, counterVars, stopVars, addVars, history
    <3>2. /\ At("run")' = At("run") /\ Tokened' = Tokened /\ Owed' = Owed
          /\ Inserting' = Inserting
      BY <3>1 DEF At, Tokened, Owed, Inserting
    <3>3. \A t : Pending(t)' = Pending(t) /\ Executing(t)' = Executing(t) /\ OfType(t)' = OfType(t)
      BY <3>1 DEF Pending, Executing, OfType
    <3>4. Backed' = Backed
      BY <3>1, <3>3, BackedSame
    <3>5. TypeOK' /\ Holding' /\ JoinOK'
      BY <2>3, <3>1 DEF IInv, TypeOK, Holding, JoinOK
    <3>6. EveryJobIsSomewhere' /\ TokensAreBacked' /\ CountersOK'
      BY <2>3, <3>1, <3>2, <3>3, <3>4 DEF IInv, EveryJobIsSomewhere, TokensAreBacked, CountersOK
    <3> QED
      BY <3>5, <3>6 DEF IInv
  <2> QED
    BY <2>1, <2>2, <2>3, StopOK DEF Next
<1> QED
  BY <1>1, <1>2, PTL DEF Spec

\* Every backed job may start.
LEMMA BackedMayStart ==
    ASSUME IInv, NEW t \in Known
    PROVE  /\ Backed[t] \in Int /\ waiting[t] \in Int /\ Limit[t] - running[t] \in Int
           /\ Backed[t] <= waiting[t] /\ Backed[t] <= Limit[t] - running[t]
<1>1. /\ waiting[t] \in Int /\ deferred[t] \in Nat /\ running[t] \in Int /\ Limit[t] \in Int
  BY KnownOK, SMT DEF IInv, TypeOK
<1>2. /\ Backed[t] = waiting[t] - deferred[t] - Cardinality(Pending(t))
      /\ Cardinality(Pending(t)) \in Nat
  BY BackedType DEF IInv
<1>3. Backed[t] + running[t] <= Limit[t]
  BY DEF IInv, TokensAreBacked
<1> QED
  BY <1>1, <1>2, <1>3, SMT

LEMMA MinOfTwo ==
    ASSUME NEW a \in Int, NEW b \in Int, NEW c \in Int, c <= a, c <= b
    PROVE  Min({a, b}) \in Int /\ c <= Min({a, b})
<1>1. \E x \in {a, b} : \A y \in {a, b} : x <= y
  BY SMT
<1> QED
  BY <1>1 DEF Min

\* The counters of the queue agree with the jobs and the tokens with the jobs
\* that may start, whatever threads add jobs, run them, panic or stop the queue.
THEOREM JobsAreCounted == Spec => []JobsAreAccounted
<1>1. IInv => JobsAreAccounted
  <2> SUFFICES ASSUME IInv PROVE JobsAreAccounted
    OBVIOUS
  <2>1. \A t \in Known : Startable[t] \in Int /\ Backed[t] <= Startable[t]
    BY BackedMayStart, MinOfTwo DEF Startable
  <2>2. Startable \in [Known -> Int] /\ Backed \in [Known -> Int] /\ IsFiniteSet(Known)
    BY <2>1, BackedType, KnownOK DEF Startable, IInv
  <2>3. /\ SumFunction(Backed) <= SumFunction(Startable)
        /\ SumFunction(Backed) \in Int /\ SumFunction(Startable) \in Int
    BY <2>1, <2>2, SumMono
  <2>4. Cardinality(Tokened) \in Nat /\ Cardinality(Owed) \in Nat /\ sem \in Int
    BY FS_CardinalityType, FS_Subset, KnownOK, SMT DEF IInv, TypeOK, At, Tokened, Owed
  <2>5. sem + Cardinality(At("granted") \cup At("pick")) <= SumFunction(Startable)
    BY <2>3, <2>4, SMT DEF IInv, TokensAreBacked, Tokened
  <2> QED
    BY <2>5 DEF IInv, CountersOK, JobsAreAccounted, OfType, Inserting
<1> QED
  BY <1>1, Invariance, PTL

\* Once ClosureCounter::join has returned every job that was ever numbered has
\* been executed, and no caller can insert another.
THEOREM JoinDrains == Spec => []JoinedIsDrained
<1>1. IInv => JoinedIsDrained
  <2> SUFFICES ASSUME IInv, stopPc \in {"rendezvous", "pool", "done"}
               PROVE  /\ queue = {} /\ At("run") = {}
                      /\ \A c \in Callers : addPc[c] # "insert"
                      /\ Cardinality(finished) = lastJob
    BY DEF JoinedIsDrained
  <2>1. /\ IsFiniteSet(queue) /\ IsFiniteSet(At("run")) /\ IsFiniteSet(Inserting)
        /\ IsFiniteSet(finished)
    BY FS_Subset, KnownOK DEF IInv, TypeOK, At, Inserting
  <2>2. /\ Cardinality(queue) \in Nat /\ Cardinality(At("run")) \in Nat
        /\ Cardinality(Inserting) \in Nat /\ Cardinality(finished) \in Nat
    BY <2>1, FS_CardinalityType
  <2>3. Cardinality(queue) = 0 /\ Cardinality(At("run")) = 0 /\ Cardinality(Inserting) = 0
    BY <2>2, SMT DEF IInv, JoinOK, CountersOK
  <2>4. queue = {} /\ At("run") = {} /\ Inserting = {}
    BY <2>1, <2>3, FS_EmptySet
  <2>5. Cardinality(finished) = lastJob
    BY <2>2, <2>3, SMT DEF IInv, EveryJobIsSomewhere, TypeOK
  <2> QED
    BY <2>4, <2>5 DEF Inserting
<1> QED
  BY <1>1, Invariance, PTL

\* A set of jobs that is not empty has a first one in the order of the queue.
LEMMA FirstJob ==
    ASSUME NEW E, E \subseteq Jobs, E # {}
    PROVE  \E j \in E : \A i \in E : i = j \/ Before(j, i)
<1> DEFINE Above(t) == {s \in Known : s > t}
           T == {j.type : j \in E}
           N == {Cardinality(Above(t)) : t \in T}
<1>1. T \subseteq Known /\ T # {}
  BY DEF Jobs
<1>2. \A t \in Known : IsFiniteSet(Above(t)) /\ Cardinality(Above(t)) \in Nat
  BY KnownOK, FS_Subset, FS_CardinalityType
<1> HIDE DEF T
<1>3. N \in SUBSET Nat /\ N # {}
  BY <1>1, <1>2
<1>4. PICK n \in N : \A m \in N : n <= m
  <2> HIDE DEF N
  <2> QED
    BY <1>3, Least
<1>5. PICK t \in T : n = Cardinality(Above(t))
  BY <1>4
<1>6. ASSUME NEW u \in T, u > t PROVE FALSE
  <2>1. u \in Known /\ t \in Known /\ u \in Nat /\ t \in Nat /\ Known \subseteq Nat
    BY <1>1, KnownOK
  <2>2. Above(u) \subseteq Above(t) /\ u \in Above(t) /\ u \notin Above(u)
    <3>1. \A v \in Known : v \in Nat
      BY <2>1
    <3>2. \A v \in Known : v > u => v > t
      BY <1>6, <2>1, <3>1, SMT
    <3>3. Above(u) \subseteq Above(t)
      BY <3>2
    <3>4. ~(u > u)
      BY <2>1, SMT
    <3> QED
      BY <1>6, <2>1, <3>3, <3>4
  <2>3. IsFiniteSet(Above(t)) /\ Cardinality(Above(t)) \in Nat /\ Cardinality(Above(u)) \in Nat
    BY <1>2, <2>1
  <2>4. Cardinality(Above(t)) <= Cardinality(Above(u))
    BY <1>4, <1>5, <1>6
  <2> HIDE DEF Above
  <2>5. Cardinality(Above(u)) < Cardinality(Above(t))
    BY <2>2, <2>3, FS_Subset, SMT
  <2> QED
    BY <2>3, <2>4, <2>5, SMT
<1> DEFINE I == {j.index : j \in {e \in E : e.type = t}}
<1>7. I \in SUBSET Nat /\ I # {}
  BY <1>5 DEF T, Jobs
<1>8. PICK x \in I : \A y \in I : x <= y
  <2> HIDE DEF I
  <2> QED
    BY <1>7, Least
<1>9. PICK j \in E : j.type = t /\ j.index = x
  BY <1>8
<1>10. ASSUME NEW i \in E, i # j PROVE Before(j, i)
  <2>1. i \in Jobs /\ j \in Jobs /\ i.type \in Nat /\ j.type \in Nat /\ i.index \in Nat /\ j.index \in Nat
    BY KnownOK DEF Jobs
  <2>2. i.type \in T
    BY DEF T
  <2>3. ~(i.type > t)
    BY <1>6, <2>2
  <2>4. CASE i.type = t
    <3>1. x <= i.index
      BY <1>8, <2>4
    <3>2. i.index # j.index
      BY <1>9, <1>10, <2>1, <2>4, SMT DEF Jobs
    <3> QED
      BY <1>9, <2>1, <2>4, <3>1, <3>2, SMT DEF Before
  <2>5. CASE i.type # t
    BY <1>9, <2>1, <2>3, <2>5, SMT DEF Before
  <2> QED
    BY <2>4, <2>5
<1> QED
  BY <1>10

\* A worker that enters process_task finds a job that it may run.
TokenFindsJob == \A w \in At("pick") : \E j \in queue : Selected(j)

\* The branch of process_task that gives a token up for want of a job is never
\* taken: no token is lost, although the deferred count and `running' are changed
\* under different locks.
THEOREM TokensFindJobs == Spec => []TokenFindsJob
<1>1. IInv => TokenFindsJob
  <2> SUFFICES ASSUME IInv, NEW w \in At("pick") PROVE \E j \in queue : Selected(j)
    BY DEF TokenFindsJob
  <2>1. w \in Tokened /\ IsFiniteSet(Tokened)
    BY FS_Subset, KnownOK DEF Tokened, At
  <2>2. Cardinality(Tokened) > 0 /\ Cardinality(Tokened) \in Nat
    BY <2>1, FS_EmptySet, FS_CardinalityType, SMT
  <2>3. Cardinality(Owed) \in Nat /\ sem \in Nat
    BY FS_CardinalityType, FS_Subset, KnownOK DEF IInv, TypeOK, Owed
  <2>4. SumFunction(Backed) > 0 /\ SumFunction(Backed) \in Int
    BY <2>2, <2>3, BackedType, SMT DEF IInv, TokensAreBacked
  <2>5. PICK t \in Known : Backed[t] > 0
    <3> SUFFICES ASSUME \A t \in Known : ~(Backed[t] > 0) PROVE FALSE
      OBVIOUS
    <3> DEFINE zero == [t \in Known |-> 0]
    <3>1. Backed \in [Known -> Int] /\ zero \in [Known -> Int] /\ IsFiniteSet(Known)
      BY BackedType, KnownOK, SMT DEF IInv
    <3>2. \A t \in Known : Backed[t] <= zero[t] /\ zero[t] = 0
      BY <3>1, SMT
    <3> HIDE DEF zero
    <3>3. SumFunction(Backed) <= SumFunction(zero)
      BY <3>1, <3>2, SumMono
    <3>4. SumFunction(zero) = 0
      BY <3>1, <3>2, SumZero
    <3> QED
      BY <2>4, <3>3, <3>4, SMT
  <2>6. waiting[t] > 0 /\ running[t] < Limit[t] /\ Limit[t] > 0 /\ waiting[t] = Cardinality(OfType(t))
    <3>1. running[t] = Cardinality(Executing(t)) /\ waiting[t] = Cardinality(OfType(t))
      BY DEF IInv, CountersOK
    <3>2. Cardinality(Executing(t)) \in Nat
      BY FS_CardinalityType, FS_Subset, KnownOK DEF Executing
    <3> QED
      BY <2>5, <3>1, <3>2, BackedMayStart, KnownOK, SMT
  <2>7. OfType(t) # {}
    BY <2>6, FS_EmptySet, SMT
  <2> DEFINE E == {j \in queue : Eligible(j)}
  <2>8. E \subseteq Jobs /\ E # {}
    BY <2>6, <2>7 DEF IInv, TypeOK, OfType, Eligible
  <2>9. PICK j \in E : \A i \in E : i = j \/ Before(j, i)
    <3> HIDE DEF E
    <3> QED
      BY <2>8, FirstJob
  <2>10. Selected(j)
    BY <2>9 DEF Selected
  <2> QED
    BY <2>9, <2>10
<1> QED
  BY <1>1, Invariance, PTL
=============================================================================
