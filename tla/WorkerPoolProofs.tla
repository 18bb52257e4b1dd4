-------------------------- MODULE WorkerPoolProofs --------------------------
(***************************************************************************)
(* The balance of the thread pool for any number of threads, any sizes and *)
(* any number of calls.  The counters of the pool count the workers at     *)
(* certain places of worker_main, so every step is judged by the places it *)
(* moves a worker from and to (CountMove).                                 *)
(***************************************************************************)
EXTENDS WorkerPool, FiniteSetTheorems, SequenceTheorems, TLAPS

Pcs == {"unborn", "enter", "flagDown", "wait", "token", "begin", "task", "end",
        "notify", "push", "leave", "flagUp", "asleep"}
OwnerPcs == {"idle", "grow", "shrink", "shrinkPost", "stopCheck", "stopWait", "stopped"}
Owners == [at : OwnerPcs, left : Nat, to : Nat, stop : BOOLEAN]

TypeOK ==
    /\ numThreads \in Nat /\ pauseCount \in Nat /\ sem \in Nat
    /\ active \in Int /\ runningTasks \in Int /\ posted \in Nat /\ done \in Nat
    /\ paused \in BOOLEAN /\ stack \in Seq(Threads)
    /\ wakeCount \in [Threads -> Nat] /\ pc \in [Threads -> Pcs]
    /\ owner \in Owners

\* A wake-up is pending for a worker that has put itself on the stack, and at
\* most one: wake_count is raised by whoever takes the worker off the stack.
Resting == {"leave", "flagUp", "asleep"}
WakesAreOwed ==
    \A t \in Threads : wakeCount[t] <= 1 /\ (wakeCount[t] > 0 => pc[t] \in Resting)

\* A pause request that lacks its token is one of those still to be made.
RequestIsDue == owner.at = "shrinkPost" => owner.left > 0

\* The inductive invariant.
IInv == TypeOK /\ WakesAreOwed /\ RequestIsDue /\ PoolBalance

USE WorkerPoolAssumption
-----------------------------------------------------------------------------
(* Counting workers by where they are.                                     *)

In(Q) == {t \in Threads : pc[t] \in Q}
Woken == {t \in Threads : wakeCount[t] > 0}
Serving == Pcs \ Outside
Bit(b) == IF b THEN 1 ELSE 0

LEMMA CardAdd ==
    ASSUME NEW S \in SUBSET Threads, NEW t \in Threads
    PROVE  /\ Cardinality(S) \in Nat
           /\ t \notin S => Cardinality(S \cup {t}) = Cardinality(S) + 1
           /\ t \in S => Cardinality(S \ {t}) = Cardinality(S) - 1
<1>1. IsFiniteSet(S)
  BY FS_Subset
<1> QED
  BY <1>1, FS_CardinalityType, FS_AddElement, FS_RemoveElement, Zenon

\* A worker that goes from one place to another.
LEMMA CountMove ==
    ASSUME TypeOK, NEW t \in Threads, NEW s, pc' = [pc EXCEPT ![t] = s], NEW Q
    PROVE  /\ Cardinality(In(Q)) \in Nat
           /\ Cardinality(In(Q)') = Cardinality(In(Q)) + Bit(s \in Q) - Bit(pc[t] \in Q)
<1>1. pc'[t] = s /\ \A u \in Threads : u # t => pc'[u] = pc[u]
  BY DEF TypeOK
<1>2. In(Q) \in SUBSET Threads
  BY DEF In
<1>3. In(Q)' = IF s \in Q THEN In(Q) \cup {t} ELSE In(Q) \ {t}
  BY <1>1 DEF In
<1>4. t \in In(Q) <=> pc[t] \in Q
  BY DEF In
<1>5. t \in In(Q) => In(Q) \cup {t} = In(Q)
  OBVIOUS
<1>6. t \notin In(Q) => In(Q) \ {t} = In(Q)
  OBVIOUS
<1>7. /\ Cardinality(In(Q)) \in Nat
      /\ t \notin In(Q) => Cardinality(In(Q) \cup {t}) = Cardinality(In(Q)) + 1
      /\ t \in In(Q) => Cardinality(In(Q) \ {t}) = Cardinality(In(Q)) - 1
  BY <1>2, CardAdd, Zenon
<1>8. CASE s \in Q /\ pc[t] \in Q
  <2>1. In(Q)' = In(Q)
    BY <1>3, <1>4, <1>5, <1>8, Zenon
  <2> QED
    BY <2>1, <1>7, <1>8 DEF Bit
<1>9. CASE s \in Q /\ pc[t] \notin Q
  BY <1>3, <1>4, <1>7, <1>9 DEF Bit
<1>10. CASE s \notin Q /\ pc[t] \in Q
  BY <1>3, <1>4, <1>7, <1>10 DEF Bit
<1>11. CASE s \notin Q /\ pc[t] \notin Q
  <2>1. In(Q)' = In(Q)
    BY <1>3, <1>4, <1>6, <1>11, Zenon
  <2> QED
    BY <2>1, <1>7, <1>11 DEF Bit
<1> QED
  BY <1>8, <1>9, <1>10, <1>11

LEMMA CountStay ==
    ASSUME NEW Q, UNCHANGED pc
    PROVE  In(Q)' = In(Q)
BY DEF In

\* The clauses of PoolBalance in these terms.
Balance == Cardinality(In(Serving)) + Cardinality(Woken) - pauseCount = Target
Counted ==
    /\ active = Cardinality(In(ActivePcs))
    /\ runningTasks = Cardinality(In({"task", "end"}))
Held == {"token", "begin", "task"}
Tokens ==
    sem + Cardinality(In(Held)) + (IF owner.at = "shrinkPost" THEN 1 ELSE 0)
      = posted - done + pauseCount
StackOK ==
    /\ \A i, j \in DOMAIN stack : stack[i] = stack[j] => i = j
    /\ \A t \in Threads :
          (\E i \in DOMAIN stack : stack[i] = t) <=> pc[t] \in Resting /\ wakeCount[t] = 0

LEMMA Parts ==
    ASSUME TypeOK
    PROVE  PoolBalance <=> Balance /\ Counted /\ Tokens /\ StackOK
<1>1. {t \in Threads : pc[t] \notin Outside} = In(Serving)
  BY DEF In, Serving, TypeOK
<1>2. At("task") \cup At("end") = In({"task", "end"})
  BY DEF In, At
<1>3. {t \in Threads : pc[t] \in ActivePcs} = In(ActivePcs)
  BY DEF In
<1>4. At("token") \cup At("begin") \cup At("task") = In(Held)
  BY DEF In, At, Held
<1> QED
  BY <1>1, <1>2, <1>3, <1>4, Zenon DEF PoolBalance, Balance, Counted, Tokens, StackOK, Woken, Resting

LEMMA PartsNext ==
    ASSUME TypeOK'
    PROVE  PoolBalance' <=> Balance' /\ Counted' /\ Tokens' /\ StackOK'
<1>1. {t \in Threads : pc'[t] \notin Outside} = In(Serving)'
  BY DEF In, Serving, TypeOK
<1>2. At("task")' \cup At("end")' = In({"task", "end"})'
  BY DEF In, At
<1>3. {t \in Threads : pc'[t] \in ActivePcs} = In(ActivePcs)'
  BY DEF In
<1>4. At("token")' \cup At("begin")' \cup At("task")' = In(Held)'
  BY DEF In, At, Held
<1> QED
  BY <1>1, <1>2, <1>3, <1>4, Zenon DEF PoolBalance, Balance, Counted, Tokens, StackOK, Woken, Resting
-----------------------------------------------------------------------------
(* Types.                                                                  *)

LEMMA TypeMove ==
    ASSUME TypeOK, NEW t \in Threads, NEW s \in Pcs, pc' = [pc EXCEPT ![t] = s]
    PROVE  pc' \in [Threads -> Pcs]
BY DEF TypeOK

LEMMA NotifyType ==
    ASSUME TypeOK
    PROVE  /\ NotifyOwner \in Owners
           /\ NotifyOwner.at = "shrinkPost" => NotifyOwner = owner
BY SMTT(30) DEF TypeOK, NotifyOwner, Owners, OwnerPcs

\* The end of the stack, taken off or put on.
LEMMA StackPop ==
    ASSUME TypeOK, stack # <<>>, stack' = SubSeq(stack, 1, Len(stack) - 1)
    PROVE  /\ stack' \in Seq(Threads) /\ Len(stack) \in DOMAIN stack
           /\ stack[Len(stack)] \in Threads
           /\ DOMAIN stack = 1..Len(stack) /\ DOMAIN stack' = 1..(Len(stack) - 1)
           /\ \A i \in DOMAIN stack' : stack'[i] = stack[i]
<1>1. stack \in Seq(Threads) /\ Len(stack) \in Nat /\ Len(stack) > 0 /\ DOMAIN stack = 1..Len(stack)
  BY EmptySeq, LenProperties DEF TypeOK
<1>2. /\ stack' \in Seq(Threads) /\ Len(stack') = Len(stack) - 1
      /\ \A i \in 1..(Len(stack) - 1) : stack'[i] = stack[i]
  BY <1>1
<1>3. DOMAIN stack' = 1..(Len(stack) - 1)
  BY <1>2, LenProperties
<1>4. stack[Len(stack)] \in Threads
  BY <1>1, ElementOfSeq
<1> QED
  BY <1>1, <1>2, <1>3, <1>4

LEMMA StackPush ==
    ASSUME TypeOK, NEW t \in Threads, stack' = Append(stack, t)
    PROVE  /\ stack' \in Seq(Threads) /\ Len(stack) \in Nat
           /\ DOMAIN stack = 1..Len(stack) /\ DOMAIN stack' = 1..(Len(stack) + 1)
           /\ stack'[Len(stack) + 1] = t
           /\ \A i \in DOMAIN stack : stack'[i] = stack[i]
<1>1. stack \in Seq(Threads) /\ Len(stack) \in Nat /\ DOMAIN stack = 1..Len(stack)
  BY LenProperties DEF TypeOK
<1>2. /\ stack' \in Seq(Threads) /\ Len(stack') = Len(stack) + 1
      /\ stack'[Len(stack) + 1] = t
      /\ \A i \in 1..Len(stack) : stack'[i] = stack[i]
  BY <1>1, AppendProperties
<1>3. DOMAIN stack' = 1..(Len(stack) + 1)
  BY <1>2, LenProperties
<1> QED
  BY <1>1, <1>2, <1>3

LEMMA TypeNext ==
    ASSUME IInv, [Next]_vars
    PROVE  TypeOK' /\ RequestIsDue'
<1> USE DEF IInv
<1>1. ASSUME NEW n \in Nat, NEW b \in BOOLEAN, Call(n, b) PROVE TypeOK' /\ RequestIsDue'
  BY <1>1, SMTT(30) DEF Call, shared, TypeOK, Owners, OwnerPcs, RequestIsDue
<1>2. CASE Grow
  <2>1. owner' = [owner EXCEPT !.left = @ - 1] /\ owner.left > 0 /\ owner.at = "grow"
    BY <1>2 DEF Grow
  <2>2. owner' \in Owners /\ RequestIsDue'
    <3>1. owner.left - 1 \in Nat
      BY <2>1 DEF TypeOK, Owners
    <3> QED
      BY <2>1, <3>1, SMTT(30) DEF TypeOK, Owners, RequestIsDue
  <2>3. stack' \in Seq(Threads) /\ wakeCount' \in [Threads -> Nat] /\ pc' \in [Threads -> Pcs]
    <3>1. CASE stack # <<>> /\ stack' = SubSeq(stack, 1, Len(stack) - 1)
                 /\ wakeCount' = [wakeCount EXCEPT ![stack[Len(stack)]] = @ + 1] /\ UNCHANGED pc
      BY <3>1, StackPop DEF TypeOK
    <3>2. CASE stack = <<>> /\ (\E t \in Unborn : pc' = [pc EXCEPT ![t] = "enter"])
                 /\ UNCHANGED <<stack, wakeCount>>
      BY <3>2 DEF TypeOK, Pcs, Unborn
    <3> QED
      BY <1>2, <3>1, <3>2 DEF Grow
  <2> QED
    BY <1>2, <2>2, <2>3 DEF Grow, TypeOK
<1>3. CASE ShrinkRequest
  <2>1. owner' = [owner EXCEPT !.at = "shrinkPost"] /\ owner.left > 0
    BY <1>3 DEF ShrinkRequest
  <2>2. owner' \in Owners /\ RequestIsDue'
    BY <2>1, Zenon DEF TypeOK, Owners, OwnerPcs, RequestIsDue
  <2> QED
    BY <1>3, <2>2 DEF ShrinkRequest, TypeOK
<1>4. CASE ShrinkPost
  <2>1. owner' = [owner EXCEPT !.at = "shrink", !.left = @ - 1] /\ owner.left > 0
    BY <1>4 DEF ShrinkPost, RequestIsDue
  <2>2. owner.left - 1 \in Nat
    BY <2>1, SMTT(30) DEF TypeOK, Owners
  <2>3. owner' \in Owners /\ RequestIsDue'
    BY <2>1, <2>2, Zenon DEF TypeOK, Owners, OwnerPcs, RequestIsDue
  <2> QED
    BY <1>4, <2>3 DEF ShrinkPost, TypeOK
<1>5. CASE Store
  <2>1. owner.to \in Nat
    BY DEF TypeOK, Owners
  <2> QED
    BY <2>1, <1>5, Zenon DEF Store, TypeOK, Owners, OwnerPcs, RequestIsDue
<1>6. CASE StopCheck
  BY <1>6, Zenon DEF StopCheck, shared, TypeOK, Owners, OwnerPcs, RequestIsDue
<1>7. CASE AddTask
  BY <1>7 DEF AddTask, TypeOK, Owners, OwnerPcs, RequestIsDue
<1>8. CASE UNCHANGED vars
  BY <1>8 DEF vars, TypeOK, Owners, OwnerPcs, RequestIsDue
<1>9. ASSUME NEW t \in Threads, ThreadNext(t) PROVE TypeOK' /\ RequestIsDue'
  <2>1. CASE Enter(t)
    BY <2>1 DEF Enter, Go, TypeOK, RequestIsDue, Pcs
  <2>2. CASE FlagDown(t)
    BY <2>2, Zenon DEF FlagDown, Go, TypeOK, RequestIsDue, Pcs
  <2>3. CASE SemWait(t)
    BY <2>3 DEF SemWait, Go, TypeOK, RequestIsDue, Pcs
  <2>4. CASE TakeToken(t)
    BY <2>4 DEF TakeToken, Go, TypeOK, RequestIsDue, Pcs
  <2>5. CASE Begin(t)
    BY <2>5 DEF Begin, Go, TypeOK, RequestIsDue, Pcs
  <2>6. CASE ProcessTask(t)
    BY <2>6 DEF ProcessTask, Go, shared, TypeOK, RequestIsDue, Pcs
  <2>7. CASE FinishRunningTask(t)
    BY <2>7 DEF FinishRunningTask, Go, TypeOK, RequestIsDue, Pcs
  <2>8. CASE NotifyDone(t)
    BY <2>8, NotifyType DEF NotifyDone, Go, shared, TypeOK, RequestIsDue, Pcs
  <2>9. CASE Push(t)
    BY <2>9, StackPush DEF Push, Go, TypeOK, RequestIsDue, Pcs
  <2>10. CASE Leave(t)
    BY <2>10 DEF Leave, Go, TypeOK, RequestIsDue, Pcs
  <2>11. CASE FlagUp(t)
    BY <2>11, NotifyType DEF FlagUp, Go, TypeOK, RequestIsDue, Pcs
  <2>12. CASE Wake(t)
    BY <2>12 DEF Wake, Go, TypeOK, RequestIsDue, Pcs
  <2> QED
    BY <1>9, <2>1, <2>2, <2>3, <2>4, <2>5, <2>6, <2>7, <2>8, <2>9, <2>10, <2>11, <2>12 DEF ThreadNext
<1> QED
  BY <1>1, <1>2, <1>3, <1>4, <1>5, <1>6, <1>7, <1>8, <1>9, Zenon
  DEF Next, OwnerNext, SetNumberOfThreads, Stop
-----------------------------------------------------------------------------
(* The counters.                                                           *)

Count(Q) == Cardinality(In(Q))

LEMMA GoCounts ==
    ASSUME TypeOK, NEW t \in Threads, NEW from, NEW to, Go(t, from, to), NEW Q
    PROVE  Count(Q) \in Nat /\ Count(Q)' = Count(Q) + Bit(to \in Q) - Bit(from \in Q)
BY CountMove, Zenon DEF Go, Count

LEMMA CountIsNat ==
    ASSUME NEW Q
    PROVE  Count(Q) \in Nat
<1>1. In(Q) \in SUBSET Threads
  BY DEF In
<1> QED
  BY <1>1, FS_Subset, FS_CardinalityType DEF Count

LEMMA StayCounts ==
    ASSUME NEW Q, UNCHANGED pc
    PROVE  Count(Q)' = Count(Q)
BY CountStay DEF Count

\* What a grow step does to the workers.
LEMMA GrowCases ==
    ASSUME Grow
    PROVE  \/ /\ stack # <<>>
              /\ stack' = SubSeq(stack, 1, Len(stack) - 1)
              /\ wakeCount' = [wakeCount EXCEPT ![stack[Len(stack)]] = @ + 1]
              /\ UNCHANGED pc
           \/ \E t \in Threads : Go(t, "unborn", "enter") /\ UNCHANGED <<stack, wakeCount>>
BY DEF Grow, Go, Unborn

LEMMA CountedNext ==
    ASSUME IInv, [Next]_vars
    PROVE  Counted'
<1> USE DEF IInv
<1>1. active = Count(ActivePcs) /\ runningTasks = Count({"task", "end"})
  BY Parts DEF Counted, Count
<1> SUFFICES active' = Count(ActivePcs)' /\ runningTasks' = Count({"task", "end"})'
  BY DEF Counted, Count
<1> HIDE DEF Count
<1>2. ASSUME NEW t \in Threads, ThreadNext(t)
      PROVE  active' = Count(ActivePcs)' /\ runningTasks' = Count({"task", "end"})'
  <2> USE DEF Bit, ActivePcs
  <2>1. CASE Enter(t)
    BY <1>1, <2>1, GoCounts DEF Enter
  <2>2. CASE FlagDown(t)
    BY <1>1, <2>2, GoCounts DEF FlagDown
  <2>3. CASE SemWait(t)
    BY <1>1, <2>3, GoCounts DEF SemWait
  <2>4. CASE TakeToken(t)
    BY <1>1, <2>4, GoCounts DEF TakeToken
  <2>5. CASE Begin(t)
    BY <1>1, <2>5, GoCounts DEF Begin
  <2>6. CASE ProcessTask(t)
    BY <1>1, <2>6, GoCounts DEF ProcessTask, shared
  <2>7. CASE FinishRunningTask(t)
    BY <1>1, <2>7, GoCounts DEF FinishRunningTask
  <2>8. CASE NotifyDone(t)
    BY <1>1, <2>8, GoCounts DEF NotifyDone, shared
  <2>9. CASE Push(t)
    BY <1>1, <2>9, GoCounts DEF Push
  <2>10. CASE Leave(t)
    BY <1>1, <2>10, GoCounts DEF Leave
  <2>11. CASE FlagUp(t)
    BY <1>1, <2>11, GoCounts DEF FlagUp
  <2>12. CASE Wake(t)
    BY <1>1, <2>12, GoCounts DEF Wake
  <2> QED
    BY <1>2, <2>1, <2>2, <2>3, <2>4, <2>5, <2>6, <2>7, <2>8, <2>9, <2>10, <2>11, <2>12 DEF ThreadNext
<1>3. CASE Grow
  <2>1. UNCHANGED <<active, runningTasks>>
    BY <1>3 DEF Grow
  <2>2. CASE UNCHANGED pc
    BY <1>1, <2>1, <2>2, StayCounts
  <2>3. ASSUME NEW t \in Threads, Go(t, "unborn", "enter")
        PROVE  active' = Count(ActivePcs)' /\ runningTasks' = Count({"task", "end"})'
    BY <1>1, <2>1, <2>3, GoCounts DEF Bit, ActivePcs
  <2> QED
    BY <1>3, <2>2, <2>3, GrowCases
<1>4. CASE UNCHANGED <<pc, active, runningTasks>>
  BY <1>1, <1>4, StayCounts
<1>5. CASE SetNumberOfThreads \/ Stop \/ AddTask \/ ShrinkRequest \/ ShrinkPost \/ Store
             \/ StopCheck \/ UNCHANGED vars
  <2>1. UNCHANGED <<pc, active, runningTasks>>
    BY <1>5 DEF SetNumberOfThreads, Stop, Call, AddTask, ShrinkRequest, ShrinkPost, Store,
       StopCheck, vars, shared
  <2> QED
    BY <1>4, <2>1
<1> QED
  BY <1>2, <1>3, <1>5 DEF Next, OwnerNext
-----------------------------------------------------------------------------
(* The balance.                                                            *)

LEMMA WokenStep ==
    ASSUME TypeOK, NEW t \in Threads
    PROVE  /\ Cardinality(Woken) \in Nat
           /\ wakeCount[t] = 0 /\ wakeCount' = [wakeCount EXCEPT ![t] = @ + 1] =>
                 Cardinality(Woken') = Cardinality(Woken) + 1
           /\ wakeCount[t] = 1 /\ wakeCount' = [wakeCount EXCEPT ![t] = @ - 1] =>
                 Cardinality(Woken') = Cardinality(Woken) - 1
<1>1. Woken \in SUBSET Threads
  BY DEF Woken
<1>2. ASSUME wakeCount[t] = 0, wakeCount' = [wakeCount EXCEPT ![t] = @ + 1]
      PROVE  Woken' = Woken \cup {t} /\ t \notin Woken
  BY <1>2 DEF Woken, TypeOK
<1>3. ASSUME wakeCount[t] = 1, wakeCount' = [wakeCount EXCEPT ![t] = @ - 1]
      PROVE  Woken' = Woken \ {t} /\ t \in Woken
  BY <1>3 DEF Woken, TypeOK
<1> QED
  BY <1>1, <1>2, <1>3, CardAdd, Zenon

\* A notification of stop() does not change the size asked for.
LEMMA TargetStays ==
    ASSUME TypeOK, owner' = owner \/ owner' = NotifyOwner, UNCHANGED numThreads
    PROVE  Target' = Target
<1>1. owner.at # "stopWait" => owner' = owner
  BY DEF NotifyOwner
<1>2. owner.at = "stopWait" => owner'.at \in {"stopWait", "stopCheck"}
  BY DEF NotifyOwner, TypeOK, Owners
<1> QED
  BY <1>1, <1>2 DEF Target

LEMMA BalanceNext ==
    ASSUME IInv, [Next]_vars
    PROVE  Balance'
<1> DEFINE W == Cardinality(Woken)
<1>1. Count(Serving) + W - pauseCount = Target /\ W \in Nat /\ pauseCount \in Nat
  <2>1. Woken \in SUBSET Threads
    BY DEF Woken
  <2> QED
    BY <2>1, Parts, FS_Subset, FS_CardinalityType DEF IInv, Balance, Count, TypeOK
<1>2. UNCHANGED wakeCount => W' = W
  BY DEF Woken
<1> SUFFICES Count(Serving)' + W' - pauseCount' = Target'
  BY DEF Balance, Count
<1> HIDE DEF Count, W
<1>3. ASSUME NEW t \in Threads, ThreadNext(t)
      PROVE  Count(Serving)' + W' - pauseCount' = Target'
  <2>0. Target' = Target
    BY <1>3, TargetStays DEF IInv, ThreadNext, Enter, FlagDown, SemWait, TakeToken, Begin, ProcessTask,
       FinishRunningTask, NotifyDone, Push, Leave, FlagUp, Wake, shared
  <2> HIDE DEF Target
  <2> USE DEF Bit, Serving, Outside, Pcs
  <2>1. CASE Enter(t)
    BY <1>1, <1>2, <2>0, <2>1, GoCounts DEF IInv, Enter
  <2>2. CASE FlagDown(t)
    BY <1>1, <1>2, <2>0, <2>2, GoCounts DEF IInv, FlagDown
  <2>3. CASE SemWait(t)
    BY <1>1, <1>2, <2>0, <2>3, GoCounts DEF IInv, SemWait
  <2>4. CASE TakeToken(t)
    BY <1>1, <1>2, <2>0, <2>4, GoCounts DEF IInv, TakeToken
  <2>5. CASE Begin(t)
    BY <1>1, <1>2, <2>0, <2>5, GoCounts DEF IInv, Begin
  <2>6. CASE ProcessTask(t)
    BY <1>1, <1>2, <2>0, <2>6, GoCounts DEF IInv, ProcessTask, shared
  <2>7. CASE FinishRunningTask(t)
    BY <1>1, <1>2, <2>0, <2>7, GoCounts DEF IInv, FinishRunningTask
  <2>8. CASE NotifyDone(t)
    BY <1>1, <1>2, <2>0, <2>8, GoCounts DEF IInv, NotifyDone, shared
  <2>9. CASE Push(t)
    BY <1>1, <1>2, <2>0, <2>9, GoCounts DEF IInv, Push
  <2>10. CASE Leave(t)
    BY <1>1, <1>2, <2>0, <2>10, GoCounts DEF IInv, Leave
  <2>11. CASE FlagUp(t)
    BY <1>1, <1>2, <2>0, <2>11, GoCounts DEF IInv, FlagUp
  <2>12. CASE Wake(t)
    <3>1. wakeCount[t] = 1 /\ wakeCount' = [wakeCount EXCEPT ![t] = @ - 1]
      BY <2>12 DEF Wake, IInv, WakesAreOwed, TypeOK
    <3>2. W' = W - 1
      BY <3>1, WokenStep, Zenon DEF W, IInv
    <3> QED
      BY <1>1, <3>2, <2>0, <2>12, GoCounts DEF IInv, Wake
  <2> QED
    BY <1>3, <2>1, <2>2, <2>3, <2>4, <2>5, <2>6, <2>7, <2>8, <2>9, <2>10, <2>11, <2>12 DEF ThreadNext
<1>4. CASE Grow
  <2>1. Target' = Target + 1 /\ pauseCount' = pauseCount
    BY <1>4, SMTT(60) DEF Grow, Target, IInv, TypeOK, Owners
  <2>2. CASE /\ stack # <<>>
             /\ wakeCount' = [wakeCount EXCEPT ![stack[Len(stack)]] = @ + 1]
             /\ stack' = SubSeq(stack, 1, Len(stack) - 1)
             /\ UNCHANGED pc
    <3> DEFINE t == stack[Len(stack)]
    <3>1. t \in Threads /\ wakeCount[t] = 0
      BY <2>2, StackPop, Parts DEF IInv, StackOK
    <3>2. W' = W + 1
      BY <2>2, <3>1, WokenStep, Zenon DEF W, IInv
    <3> QED
      BY <1>1, <2>1, <2>2, <3>2, StayCounts, CountIsNat
  <2>3. ASSUME NEW t \in Threads, Go(t, "unborn", "enter"), UNCHANGED wakeCount
        PROVE  Count(Serving)' + W' - pauseCount' = Target'
    BY <1>1, <1>2, <2>1, <2>3, GoCounts DEF IInv, Bit, Serving, Outside, Pcs
  <2> QED
    BY <1>4, <2>2, <2>3, GrowCases
<1>5. ASSUME UNCHANGED <<pc, wakeCount>>, pauseCount' \in Nat,
             Target' = Target + pauseCount - pauseCount'
      PROVE  Count(Serving)' + W' - pauseCount' = Target'
  <2>1. Count(Serving)' = Count(Serving) /\ Count(Serving) \in Nat
    BY <1>5, StayCounts, CountIsNat DEF IInv
  <2> QED
    BY <1>1, <1>2, <1>5, <2>1
<1>6. ASSUME NEW n \in Nat, NEW b \in BOOLEAN, Call(n, b)
      PROVE  Count(Serving)' + W' - pauseCount' = Target'
  <2>0. numThreads \in Nat
    BY DEF IInv, TypeOK
  <2>1. UNCHANGED <<pc, wakeCount, pauseCount>> /\ Target' = Target
    BY <1>6, <2>0 DEF Call, Target, shared
  <2> QED
    BY <1>1, <1>5, <2>1, CountIsNat
<1>7. CASE ShrinkRequest
  BY <1>7, <1>5, SMTT(30) DEF ShrinkRequest, Target, IInv, TypeOK, Owners
<1>8. CASE ShrinkPost
  BY <1>8, <1>5, SMTT(30) DEF ShrinkPost, Target, IInv, TypeOK, Owners
<1>9. CASE Store
  BY <1>9, <1>5 DEF Store, Target, IInv, TypeOK, Owners
<1>10. CASE StopCheck
  <2>1. owner'.at \in {"stopped", "stopWait"} /\ owner.at = "stopCheck"
    BY <1>10 DEF StopCheck, IInv, TypeOK, Owners
  <2>2. Target' = Target /\ UNCHANGED <<pc, wakeCount, pauseCount>>
    BY <1>10, <2>1 DEF StopCheck, shared, Target
  <2> QED
    BY <1>5, <1>1, <2>2, CountIsNat
<1>11. CASE AddTask \/ UNCHANGED vars
  <2>1. Target' = Target /\ UNCHANGED <<pc, wakeCount, pauseCount>>
    BY <1>11 DEF AddTask, vars, Target
  <2> QED
    BY <1>5, <1>1, <2>1, CountIsNat
<1> QED
  BY <1>3, <1>4, <1>6, <1>7, <1>8, <1>9, <1>10, <1>11, Zenon
  DEF Next, OwnerNext, SetNumberOfThreads, Stop
-----------------------------------------------------------------------------
(* The tokens.                                                             *)

Lacking == IF owner.at = "shrinkPost" THEN 1 ELSE 0

LEMMA TokensNext ==
    ASSUME IInv, [Next]_vars
    PROVE  Tokens'
<1> USE DEF IInv
<1>1. /\ sem + Count(Held) + Lacking = posted - done + pauseCount
      /\ Count(Held) \in Nat /\ Lacking \in Nat
  BY Parts, CountIsNat DEF Tokens, Count, Lacking
<1> SUFFICES sem' + Count(Held)' + Lacking' = posted' - done' + pauseCount'
  BY DEF Tokens, Count, Lacking
<1>2. /\ sem \in Nat /\ pauseCount \in Nat /\ posted \in Nat /\ done \in Nat
  BY DEF TypeOK
<1>3. owner' = owner \/ owner' = NotifyOwner => Lacking' = Lacking
  BY NotifyType, SMTT(30) DEF Lacking, NotifyOwner, TypeOK, Owners
<1>4. ASSUME NEW t \in Threads, ThreadNext(t)
      PROVE  sem' + Count(Held)' + Lacking' = posted' - done' + pauseCount'
  <2>0. Lacking' = Lacking
    BY <1>3, <1>4 DEF ThreadNext, Enter, FlagDown, SemWait, TakeToken, Begin, ProcessTask,
       FinishRunningTask, NotifyDone, Push, Leave, FlagUp, Wake, shared
  <2> HIDE DEF Lacking, IInv
  <2>a. TypeOK
    BY DEF IInv
  <2> USE DEF Bit, Held
  <2>1. CASE Enter(t)
    BY <1>1, <1>2, <2>0, <2>a, <2>1, GoCounts DEF Enter
  <2>2. CASE FlagDown(t)
    BY <1>1, <1>2, <2>0, <2>a, <2>2, GoCounts DEF FlagDown
  <2>3. CASE SemWait(t)
    BY <1>1, <1>2, <2>0, <2>a, <2>3, GoCounts DEF SemWait
  <2>4. CASE TakeToken(t)
    BY <1>1, <1>2, <2>0, <2>a, <2>4, GoCounts DEF TakeToken
  <2>5. CASE Begin(t)
    BY <1>1, <1>2, <2>0, <2>a, <2>5, GoCounts DEF Begin
  <2>6. CASE ProcessTask(t)
    BY <1>1, <1>2, <2>0, <2>a, <2>6, GoCounts DEF ProcessTask, shared
  <2>7. CASE FinishRunningTask(t)
    BY <1>1, <1>2, <2>0, <2>a, <2>7, GoCounts DEF FinishRunningTask
  <2>8. CASE NotifyDone(t)
    BY <1>1, <1>2, <2>0, <2>a, <2>8, GoCounts DEF NotifyDone, shared
  <2>9. CASE Push(t)
    BY <1>1, <1>2, <2>0, <2>a, <2>9, GoCounts, SMTT(30) DEF Push
  <2>10. CASE Leave(t)
    BY <1>1, <1>2, <2>0, <2>a, <2>10, GoCounts DEF Leave
  <2>11. CASE FlagUp(t)
    BY <1>1, <1>2, <2>0, <2>a, <2>11, GoCounts DEF FlagUp
  <2>12. CASE Wake(t)
    BY <1>1, <1>2, <2>0, <2>a, <2>12, GoCounts DEF Wake
  <2> QED
    BY <1>4, <2>1, <2>2, <2>3, <2>4, <2>5, <2>6, <2>7, <2>8, <2>9, <2>10, <2>11, <2>12 DEF ThreadNext
<1>5. CASE Grow
  <2>1. UNCHANGED <<sem, posted, done, pauseCount>> /\ Lacking' = Lacking
    BY <1>5 DEF Grow, Lacking, TypeOK, Owners
  <2>2. Count(Held)' = Count(Held)
    <3>1. CASE UNCHANGED pc
      BY <3>1, StayCounts
    <3>2. ASSUME NEW t \in Threads, Go(t, "unborn", "enter") PROVE Count(Held)' = Count(Held)
      BY <3>2, GoCounts DEF Bit, Held
    <3> QED
      BY <1>5, <3>1, <3>2, GrowCases
  <2> QED
    BY <1>1, <2>1, <2>2
<1>6. CASE ShrinkRequest
  <2>1. Lacking' = 1 /\ Lacking = 0 /\ UNCHANGED <<sem, posted, done, pc>>
           /\ pauseCount' = pauseCount + 1
    BY <1>6 DEF ShrinkRequest, Lacking, TypeOK, Owners
  <2> QED
    BY <1>1, <1>2, <2>1, StayCounts
<1>7. CASE ShrinkPost
  <2>1. Lacking' = 0 /\ Lacking = 1 /\ UNCHANGED <<pauseCount, posted, done, pc>>
           /\ sem' = sem + 1
    BY <1>7 DEF ShrinkPost, Lacking, TypeOK, Owners
  <2> QED
    BY <1>1, <1>2, <2>1, StayCounts
<1>8. CASE AddTask
  BY <1>1, <1>2, <1>3, <1>8, StayCounts DEF AddTask
<1>9. CASE SetNumberOfThreads \/ Stop \/ Store \/ StopCheck \/ UNCHANGED vars
  <2>1. UNCHANGED <<sem, posted, done, pauseCount, pc>>
    BY <1>9 DEF SetNumberOfThreads, Stop, Call, Store, StopCheck, vars, shared
  <2>2. Lacking' = Lacking
    BY <1>9, SMTT(30) DEF SetNumberOfThreads, Stop, Call, Store, StopCheck, vars, Lacking, TypeOK, Owners
  <2> QED
    BY <1>1, <2>1, <2>2, StayCounts
<1> QED
  BY <1>4, <1>5, <1>6, <1>7, <1>8, <1>9 DEF Next, OwnerNext
-----------------------------------------------------------------------------
(* The stack of paused workers.                                            *)

\* A move that neither enters nor leaves the rest on the stack.
LEMMA StackStays ==
    ASSUME TypeOK, StackOK, WakesAreOwed, NEW t \in Threads, NEW from, NEW to,
           Go(t, from, to), from \in Resting <=> to \in Resting,
           UNCHANGED <<stack, wakeCount>>
    PROVE  StackOK' /\ WakesAreOwed'
<1>1. \A u \in Threads : pc'[u] \in Resting <=> pc[u] \in Resting
  BY DEF Go, TypeOK
<1> HIDE DEF Resting
<1> QED
  BY <1>1 DEF StackOK, WakesAreOwed

LEMMA StackNext ==
    ASSUME IInv, [Next]_vars
    PROVE  StackOK' /\ WakesAreOwed'
<1> USE DEF IInv
<1>1. StackOK
  BY Parts
<1>2. ASSUME NEW t \in Threads, ThreadNext(t) PROVE StackOK' /\ WakesAreOwed'
  <2>1. CASE Enter(t) \/ FlagDown(t) \/ SemWait(t) \/ TakeToken(t) \/ Begin(t) \/ ProcessTask(t)
               \/ FinishRunningTask(t) \/ NotifyDone(t)
    <3>1. UNCHANGED <<stack, wakeCount>>
      BY <2>1 DEF Enter, FlagDown, SemWait, TakeToken, Begin, ProcessTask, FinishRunningTask,
         NotifyDone, shared
    <3>2. PICK from \in Pcs \ Resting, to \in Pcs \ Resting : Go(t, from, to)
      BY <2>1 DEF Enter, FlagDown, SemWait, TakeToken, Begin, ProcessTask, FinishRunningTask,
         NotifyDone, Pcs, Resting
    <3> QED
      BY <1>1, <3>1, <3>2, StackStays
  <2>2. CASE Push(t)
    <3>1. /\ stack' = Append(stack, t) /\ wakeCount' = wakeCount
          /\ pc[t] = "push" /\ pc' = [pc EXCEPT ![t] = "leave"]
      BY <2>2 DEF Push, Go
    <3>2. pc'[t] = "leave" /\ \A u \in Threads : u # t => pc'[u] = pc[u]
      BY <3>1 DEF TypeOK
    <3>3. wakeCount[t] = 0
      BY <3>1 DEF WakesAreOwed, Resting, TypeOK
    <3>4. WakesAreOwed'
      BY <3>1, <3>2, <3>3 DEF WakesAreOwed, Resting
    <3>5. \A i \in DOMAIN stack : stack[i] # t
      BY <1>1, <3>1 DEF StackOK, Resting
    <3>6. /\ DOMAIN stack = 1..Len(stack) /\ DOMAIN stack' = 1..(Len(stack) + 1)
          /\ Len(stack) \in Nat /\ stack'[Len(stack) + 1] = t
          /\ \A i \in DOMAIN stack : stack'[i] = stack[i]
      BY <3>1, StackPush
    <3>7. \A i \in DOMAIN stack' : i \in DOMAIN stack \/ i = Len(stack) + 1
      BY <3>6
    <3>8. DOMAIN stack \subseteq DOMAIN stack' /\ Len(stack) + 1 \in DOMAIN stack'
      BY <3>6
    <3>9. \A i, j \in DOMAIN stack' : stack'[i] = stack'[j] => i = j
      BY <1>1, <3>5, <3>6, <3>7 DEF StackOK
    <3>10. ASSUME NEW u \in Threads
           PROVE  (\E i \in DOMAIN stack' : stack'[i] = u)
                     <=> pc'[u] \in Resting /\ wakeCount'[u] = 0
      <4>1. CASE u = t
        BY <3>1, <3>2, <3>3, <3>6, <3>8, <4>1 DEF Resting
      <4>2. CASE u # t
        <5>1. (\E i \in DOMAIN stack' : stack'[i] = u) <=> (\E i \in DOMAIN stack : stack[i] = u)
          BY <3>6, <3>7, <3>8, <4>2
        <5> QED
          BY <1>1, <3>1, <3>2, <4>2, <5>1 DEF StackOK
      <4> QED
        BY <4>1, <4>2
    <3> QED
      BY <3>4, <3>9, <3>10 DEF StackOK
  <2>3. CASE Leave(t) \/ FlagUp(t)
    <3>1. UNCHANGED <<stack, wakeCount>>
      BY <2>3 DEF Leave, FlagUp
    <3>2. PICK from \in Resting, to \in Resting : Go(t, from, to)
      BY <2>3 DEF Leave, FlagUp, Resting
    <3> QED
      BY <1>1, <3>1, <3>2, StackStays
  <2>4. CASE Wake(t)
    <3>1. /\ wakeCount' = [wakeCount EXCEPT ![t] = @ - 1] /\ stack' = stack
          /\ pc' = [pc EXCEPT ![t] = "enter"] /\ wakeCount[t] = 1 /\ pc[t] = "asleep"
      BY <2>4 DEF Wake, Go, WakesAreOwed, TypeOK
    <3>2. /\ pc'[t] = "enter" /\ wakeCount'[t] = 0
          /\ \A u \in Threads : u # t => pc'[u] = pc[u] /\ wakeCount'[u] = wakeCount[u]
      BY <3>1 DEF TypeOK
    <3>3. WakesAreOwed'
      BY <3>2 DEF WakesAreOwed, Resting
    <3>4. \A i \in DOMAIN stack : stack[i] # t
      BY <1>1, <3>1 DEF StackOK
    <3> QED
      BY <1>1, <3>1, <3>2, <3>3, <3>4 DEF StackOK, Resting
  <2> QED
    BY <1>2, <2>1, <2>2, <2>3, <2>4 DEF ThreadNext
<1>3. CASE Grow
  <2>1. CASE /\ stack # <<>>
             /\ wakeCount' = [wakeCount EXCEPT ![stack[Len(stack)]] = @ + 1]
             /\ stack' = SubSeq(stack, 1, Len(stack) - 1)
             /\ UNCHANGED pc
    <3> DEFINE n == Len(stack)
               t == stack[n]
    <3>1. /\ n \in DOMAIN stack /\ t \in Threads
          /\ DOMAIN stack = 1..n /\ DOMAIN stack' = 1..(n - 1)
          /\ \A i \in DOMAIN stack' : stack'[i] = stack[i]
      BY <2>1, StackPop
    <3>2. wakeCount[t] = 0 /\ pc[t] \in Resting
      BY <1>1, <3>1 DEF StackOK
    <3>3. /\ wakeCount'[t] = 1
          /\ \A u \in Threads : u # t => wakeCount'[u] = wakeCount[u]
      BY <2>1, <3>1, <3>2 DEF TypeOK
    <3>4. \A i \in DOMAIN stack : i \in DOMAIN stack' \/ i = n
      BY <3>1 DEF TypeOK
    <3>5. n \notin DOMAIN stack' /\ DOMAIN stack' \subseteq DOMAIN stack
      BY <3>1
    <3> HIDE DEF n, t
    <3>6. WakesAreOwed'
      BY <2>1, <3>2, <3>3 DEF WakesAreOwed
    <3>7. \A i, j \in DOMAIN stack' : stack'[i] = stack'[j] => i = j
      BY <1>1, <3>1, <3>5, SMTT(30) DEF StackOK
    <3>8. ASSUME NEW u \in Threads
          PROVE  (\E i \in DOMAIN stack' : stack'[i] = u)
                    <=> pc'[u] \in Resting /\ wakeCount'[u] = 0
      <4>0. stack[n] = t
        BY DEF t
      <4>1. CASE u = t
        <5>1. \A i \in DOMAIN stack' : stack'[i] # t
          BY <1>1, <3>1, <3>5, <4>0 DEF StackOK
        <5> QED
          BY <3>3, <4>1, <5>1
      <4>2. CASE u # t
        <5>1. (\E i \in DOMAIN stack' : stack'[i] = u) <=> (\E i \in DOMAIN stack : stack[i] = u)
          BY <3>1, <3>4, <3>5, <4>0, <4>2
        <5> QED
          BY <1>1, <2>1, <3>3, <4>2, <5>1 DEF StackOK
      <4> QED
        BY <4>1, <4>2
    <3> QED
      BY <3>6, <3>7, <3>8 DEF StackOK
  <2>2. ASSUME NEW t \in Threads, Go(t, "unborn", "enter"), UNCHANGED <<stack, wakeCount>>
        PROVE  StackOK' /\ WakesAreOwed'
    BY <1>1, <2>2, StackStays DEF Resting
  <2> QED
    BY <1>3, <2>1, <2>2, GrowCases
<1>4. CASE SetNumberOfThreads \/ Stop \/ AddTask \/ ShrinkRequest \/ ShrinkPost \/ Store
             \/ StopCheck \/ UNCHANGED vars
  <2>1. UNCHANGED <<pc, stack, wakeCount>>
    BY <1>4 DEF SetNumberOfThreads, Stop, Call, AddTask, ShrinkRequest, ShrinkPost, Store,
       StopCheck, vars, shared
  <2> QED
    BY <1>1, <2>1 DEF StackOK, WakesAreOwed
<1> QED
  BY <1>2, <1>3, <1>4 DEF Next, OwnerNext
-----------------------------------------------------------------------------
LEMMA InitOK == Init => IInv
<1> SUFFICES ASSUME Init PROVE IInv
  OBVIOUS
<1>1. TypeOK
  BY DEF Init, TypeOK, Owners, OwnerPcs, OwnerIdle, Pcs
<1>2. WakesAreOwed /\ RequestIsDue
  BY DEF Init, WakesAreOwed, RequestIsDue, OwnerIdle
<1>3. /\ In(Serving) = {} /\ In(ActivePcs) = {} /\ In({"task", "end"}) = {}
      /\ In(Held) = {} /\ Woken = {}
  BY DEF Init, In, Serving, Outside, ActivePcs, Held, Woken
<1>4. Cardinality({}) = 0
  BY FS_EmptySet
<1>5. /\ Target = 0 /\ pauseCount = 0 /\ active = 0 /\ runningTasks = 0
      /\ sem = 0 /\ posted = 0 /\ done = 0 /\ owner.at = "idle"
  BY DEF Init, Target, OwnerIdle
<1>6. Balance
  BY <1>3, <1>4, <1>5 DEF Balance
<1>7. Counted
  BY <1>3, <1>4, <1>5 DEF Counted
<1>8. Tokens
  BY <1>3, <1>4, <1>5 DEF Tokens
<1>9. StackOK
  BY DEF StackOK, Init, Resting
<1> QED
  BY <1>1, <1>2, <1>6, <1>7, <1>8, <1>9, Parts DEF IInv

LEMMA Invariance == Spec => []IInv
<1>1. IInv /\ [Next]_vars => IInv'
  BY TypeNext, CountedNext, BalanceNext, TokensNext, StackNext, PartsNext DEF IInv
<1> QED
  BY InitOK, <1>1, PTL DEF Spec

\* set_number_of_threads, for any number of threads: the workers that will serve
\* tasks less the pause requests are as many as the owner has asked for so far,
\* active_count and running_task_count count the workers they should, and a paused
\* worker is on the stack exactly once, or woken exactly once.
THEOREM PoolIsBalanced == Spec => []PoolBalance
<1>1. IInv => PoolBalance
  BY DEF IInv
<1> QED
  BY Invariance, <1>1, PTL

\* The owner never wakes a worker twice: a wake-up is pending only for a worker that
\* is resting, and never more than one.
THEOREM WakesAreNeverDoubled == Spec => []WakesAreOwed
<1>1. IInv => WakesAreOwed
  BY DEF IInv
<1> QED
  BY Invariance, <1>1, PTL
=============================================================================
