---------------------------- MODULE StorageProofs ---------------------------
(***************************************************************************)
(* The rotating node store under online deletion, for any number of        *)
(* threads, objects and ledgers, with NuDB or RocksDB: fetches are sound,  *)
(* a restart finds what was safe, and the store implements two             *)
(* generations.                                                            *)
(***************************************************************************)
EXTENDS OnlineDelete, WellFoundedInduction, TLAPS

\* A leaf that names no prover is left to Zenon.
USE Zenon

CopyPcs == {"copyRead", "copyWait", "copyIn", "copied"}
RotatePcs == {"rotate", "drop", "rotated"}
FetchPcs == {"fetchW", "fetchA", "check", "forward", "forwarding", "fetched"}
StorePcs == {"storeWait", "storeIn", "storing", "batchWait", "batchIn", "stored"}
ClientPcs == {"idle", "exporting", "exportA", "exported"} \cup FetchPcs \cup StorePcs
OpPcs == ClientPcs \cup CopyPcs \cup RotatePcs

IdlePcs == {"check", "wait", "woken", "take", "exited"}
QuietPcs == {"decide", "first", "refresh", "clear", "copy", "visit", "window", "freshen", "freshenKeys",
             "prepare", "swap", "merge"}
WkPcs == IdlePcs \cup QuietPcs \cup {"copying", "freshening", "rotating"}

MaybeName == Names \cup {None}
Ops == [pc : OpPcs, w : MaybeName, a : MaybeName, t : MaybeName, objs : SUBSET Objects,
        got : SUBSET Objects, lost : SUBSET Objects, flag : BOOLEAN, had : BOOLEAN]
Snapshots == [pc : WkPcs, seq : Nat, last : Nat, can : Nat, todo : SUBSET Objects,
              batch : SUBSET Objects, working : BOOLEAN, new : MaybeName]

DbTypeOK ==
    /\ dirs \subseteq Names /\ disk \in [Names -> SUBSET Objects]
    /\ burst \in [Names -> SUBSET Objects] /\ backend \in Backends
    /\ pair \in [w : Names, a : Names] /\ doomed \subseteq Names
    /\ inFlight \in BOOLEAN /\ op \in [Threads -> Ops]

CtlTypeOK ==
    /\ mode \in {"up", "down", "refused"} /\ closed \in Nat /\ queued \in Seqs \cup {0}
    /\ working \in BOOLEAN /\ closing \in BOOLEAN /\ wake \in BOOLEAN /\ last \in Nat
    /\ can \in [store : Nat, atomic : Nat, setting : BOOLEAN]
    /\ durable \in [w : Names, a : Names, last : Nat, can : Nat, pin : SUBSET Objects, failed : BOOLEAN]
    /\ stop \in {"no", "flagged", "requested", "woken", "joined"}
    /\ wk \in Snapshots /\ pinned \in SUBSET Objects
-----------------------------------------------------------------------------
(* The worker and its calls go together, and a server that is down has no  *)
(* threads.                                                                *)
Coupled ==
    /\ wk.pc \in IdlePcs \cup QuietPcs => op[Worker] = Idle
    /\ wk.pc = "copying" => op[Worker].pc \in CopyPcs \cup {"batchWait", "batchIn", "stored"}
    /\ wk.pc = "freshening" => op[Worker].pc \in CopyPcs
    /\ wk.pc = "rotating" => op[Worker].pc \in RotatePcs
    /\ wk.pc \notin IdlePcs => wk.seq \in Seqs
    /\ \A c \in Clients : op[c].pc \in ClientPcs
    /\ mode # "up" => wk = Parked /\ doomed = {} /\ \A c \in Threads : op[c] = Idle

(* What is in use or held exists; what does not exist is empty.            *)
NamesOf(r) == {r.w, r.a, r.t} \ {None}
Held ==
    /\ pair.w # pair.a /\ {pair.w, pair.a} \subseteq dirs \ doomed /\ doomed \subseteq dirs
    /\ \A b \in Names \ dirs : disk[b] = {} /\ burst[b] = {}
    /\ \A c \in Threads : NamesOf(op[c]) \subseteq dirs

(* A backend that was made for the next rotation is empty, and nobody else *)
(* knows it.                                                               *)
Unknown(n) ==
    /\ n \in dirs \ doomed /\ n \notin {pair.w, pair.a} /\ disk[n] = {} /\ burst[n] = {}
    /\ \A c \in Clients : n \notin NamesOf(op[c])
NextIsFresh ==
    /\ wk.pc = "swap" => Unknown(wk.new)
    /\ op[Worker].pc = "rotate" => Unknown(op[Worker].t)

(* What a call has found is still there, because it holds the backend.     *)
CallOK(r) ==
    /\ r.pc \in FetchPcs \cup CopyPcs \cup {"exporting", "exportA"} => r.w \in Names /\ r.a \in Names
    /\ r.pc \in {"storing", "forward", "forwarding", "rotate"} => r.t \in Names
    /\ r.pc \in {"fetchW", "fetchA"} => \A x, y \in r.objs : x = y
    /\ r.pc = "fetchW" /\ r.had => r.objs \subseteq disk[r.w] \/ r.objs \subseteq disk[r.a]
    /\ r.pc = "fetchA" /\ r.had => r.objs \subseteq disk[r.a]
    /\ r.pc \in {"check", "forward", "forwarding"} => r.got = r.objs /\ r.got \subseteq disk[r.a]
    /\ r.pc \in {"forward", "forwarding"} =>
          /\ r.w \in {pair.w, pair.a} => r.t \in {pair.w, pair.a}
          /\ r.w = pair.w => r.t = pair.w
CallsOK == \A c \in Threads : CallOK(op[c])

(* How far the worker has copied the state map of its ledger.              *)
Whole == StateMap[wk.seq] \subseteq disk[pair.w]
Copied ==
    LET r == op[Worker]
    IN  /\ r.pc \in CopyPcs => r.w = pair.w /\ r.a = pair.a
        /\ wk.pc \in {"copy", "visit", "copying"} => StateMap[wk.seq] \ wk.todo \subseteq disk[pair.w]
        /\ wk.pc = "copying" =>
              /\ r.pc = "copyRead" => r.objs = wk.batch
              /\ r.pc \in {"copyWait", "copyIn"} => wk.batch \subseteq disk[pair.w] \cup r.got \cup r.lost
              /\ r.pc = "copied" => wk.batch \subseteq disk[pair.w] \cup r.lost
              /\ r.pc \in {"batchWait", "batchIn"} => wk.batch \subseteq disk[pair.w] \cup r.objs
              /\ r.pc = "stored" => wk.batch \subseteq disk[pair.w]
        /\ wk.pc \in {"window", "freshen", "freshenKeys", "freshening", "prepare", "swap"} => Whole
        /\ r.pc = "rotate" => Whole

(* What a restart finds.                                                   *)
Synced == durable.w = pair.w /\ durable.a = pair.a
Noted ==
    /\ pinned \subseteq Stored
    /\ durable.failed => durable.pin = {}
    /\ (Saved \subseteq dirs) => durable.pin \subseteq Kept(durable.w) \cup Kept(durable.a)
    /\ NuDB => Saved \subseteq dirs
    /\ durable.w # durable.a
    /\ ~durable.failed =>
          \/ Synced
          \/ /\ durable.w = pair.a /\ durable.a \notin {pair.w, pair.a}
             /\ mode # "up" \/ op[Worker].pc \in {"drop", "rotated"}

(* The shared flags.                                                       *)
Accounted ==
    /\ mode = "up" /\ wk.pc # "exited" /\ (queued # 0 \/ wk.pc \notin IdlePcs) => working
    /\ mode # "up" => queued = 0
    /\ mode = "refused" => ~(Saved \subseteq dirs)
    /\ mode = "up" => (IF can.setting THEN can.store ELSE can.atomic) = durable.can
    /\ wk.pc \in {"decide", "refresh"} => wk.last = last

IInv == DbTypeOK /\ CtlTypeOK /\ Coupled /\ Held /\ NextIsFresh /\ CallsOK /\ Copied /\ Noted /\ Accounted
-----------------------------------------------------------------------------
(* Types.                                                                  *)

\* The names of the backends.
LEMMA NoneIsNoName == None \notin Names /\ 0 \in Names /\ 1 \in Names
BY NamesAssumption, SMT DEF Names

\* No call.
LEMMA IdleType == Idle \in Ops
BY DEF Idle, Ops, MaybeName, OpPcs, ClientPcs

\* A call that begins.
LEMMA CallType ==
  ASSUME NEW pc \in OpPcs, NEW w \in MaybeName, NEW a \in MaybeName, NEW t \in MaybeName,
         NEW X \in SUBSET Objects, NEW flag \in BOOLEAN, NEW had \in BOOLEAN
  PROVE  /\ [Idle EXCEPT !.pc = pc, !.objs = X] \in Ops
         /\ [[Idle EXCEPT !.pc = pc, !.objs = X, !.flag = flag, !.had = had] EXCEPT !.w = w, !.a = a] \in Ops
         /\ [[Idle EXCEPT !.pc = pc] EXCEPT !.w = w, !.a = a] \in Ops
         /\ [[Idle EXCEPT !.pc = pc, !.objs = X] EXCEPT !.w = w, !.a = a] \in Ops
         /\ [Idle EXCEPT !.pc = pc, !.t = t, !.flag = flag] \in Ops
BY IdleType DEF Ops

\* A call that goes on.
LEMMA StepType ==
  ASSUME NEW r \in Ops, NEW pc \in OpPcs, NEW w \in MaybeName, NEW a \in MaybeName, NEW t \in MaybeName,
         NEW X \in SUBSET Objects, NEW Y \in SUBSET Objects
  PROVE  /\ [r EXCEPT !.pc = pc] \in Ops
         /\ [r EXCEPT !.pc = pc, !.t = t] \in Ops
         /\ [r EXCEPT !.pc = pc, !.a = a] \in Ops
         /\ [r EXCEPT !.pc = pc, !.got = X] \in Ops
         /\ [r EXCEPT !.pc = pc, !.got = X, !.lost = Y] \in Ops
         /\ [r EXCEPT !.pc = pc, !.w = w, !.a = a] \in Ops
BY DEF Ops

\* Letting go of backends.
LEMMA DropsType ==
  ASSUME DbTypeOK, NEW c \in Threads, NEW r \in Ops, Drops(c, r)
  PROVE  /\ dirs' \subseteq Names /\ doomed' \subseteq Names
         /\ disk' \in [Names -> SUBSET Objects] /\ burst' \in [Names -> SUBSET Objects]
         /\ op' \in [Threads -> Ops]
BY DEF DbTypeOK, Drops, Becomes

(* What a write to one backend does to all of them.                        *)
Wrote(b) ==
    /\ \A x \in Names \ {b} : disk'[x] = disk[x] /\ burst'[x] = burst[x]
    /\ disk[b] \subseteq disk'[b] /\ Kept(b) \subseteq Kept(b)'

\* What a backend accepts, keeps and loses.
LEMMA BackendTypes ==
  ASSUME DbTypeOK, NEW b \in Names
  PROVE  Accepted(b) \in SUBSET Objects /\ Kept(b) \in SUBSET Objects
BY DEF DbTypeOK, Accepted, Kept

\* Writing to one.
LEMMA WriteBatchDoes ==
  ASSUME DbTypeOK, NEW b \in Names, NEW X \in SUBSET Objects, WriteBatch(b, X), backend' = backend
  PROVE  /\ disk' \in [Names -> SUBSET Objects] /\ burst' \in [Names -> SUBSET Objects]
         /\ Wrote(b) /\ disk'[b] = disk[b] \cup X
<1> DEFINE pending == burst[b] \cup (X \ disk[b])
           left == IF Cardinality(pending) < backend.limit THEN pending ELSE {}
<1>1. left \in SUBSET Objects /\ left \subseteq pending
  BY DEF DbTypeOK
<1>2. disk' = [disk EXCEPT ![b] = disk[b] \cup X]
  BY DEF WriteBatch
<1>3. burst' = IF NuDB THEN [burst EXCEPT ![b] = left] ELSE burst
  BY DEF WriteBatch
<1> HIDE DEF left
<1>4. disk' \in [Names -> SUBSET Objects] /\ burst' \in [Names -> SUBSET Objects]
  BY <1>1, <1>2, <1>3 DEF DbTypeOK
<1>5. \A x \in Names \ {b} : disk'[x] = disk[x] /\ burst'[x] = burst[x]
  BY <1>2, <1>3 DEF DbTypeOK
<1>6. disk'[b] = disk[b] \cup X /\ (NuDB => burst'[b] = left) /\ NuDB' = NuDB
  BY <1>2, <1>3 DEF DbTypeOK, NuDB
<1>7. Kept(b) \subseteq Kept(b)'
  BY <1>1, <1>6 DEF Kept
<1> QED BY <1>4, <1>5, <1>6, <1>7 DEF Wrote

\* Writing one object, which RocksDB queues.
LEMMA WriteOneDoes ==
  ASSUME DbTypeOK, NEW b \in Names, NEW X \in SUBSET Objects, WriteOne(b, X), backend' = backend
  PROVE  /\ disk' \in [Names -> SUBSET Objects] /\ burst' \in [Names -> SUBSET Objects]
         /\ Wrote(b) /\ X \subseteq Accepted(b)'
<1>1. NuDB' = NuDB
  BY DEF NuDB
<1>2. CASE NuDB
  <2>1. WriteBatch(b, X)
    BY <1>2 DEF WriteOne
  <2> QED BY <1>1, <1>2, <2>1, WriteBatchDoes DEF Accepted
<1>3. CASE ~NuDB
  <2>1. burst' = [burst EXCEPT ![b] = burst[b] \cup X] /\ disk' = disk
    BY <1>3 DEF WriteOne
  <2>2. disk' \in [Names -> SUBSET Objects] /\ burst' \in [Names -> SUBSET Objects]
    BY <2>1 DEF DbTypeOK
  <2>3. \A x \in Names \ {b} : disk'[x] = disk[x] /\ burst'[x] = burst[x]
    BY <2>1 DEF DbTypeOK
  <2>4. burst'[b] = burst[b] \cup X
    BY <2>1 DEF DbTypeOK
  <2> QED BY <1>1, <1>3, <2>1, <2>2, <2>3, <2>4 DEF Wrote, Kept, Accepted
<1> QED BY <1>2, <1>3

\* What was accepted is settled: nothing is lost, and more is kept.
LEMMA SettleDoes ==
  ASSUME DbTypeOK, NEW B, Settle(B), backend' = backend
  PROVE  /\ disk' \in [Names -> SUBSET Objects] /\ burst' \in [Names -> SUBSET Objects]
         /\ \A b \in Names : disk[b] \subseteq disk'[b] /\ Kept(b) \subseteq Kept(b)'
         /\ \A b \in Names : (b \notin B \/ burst[b] = {}) =>
                                 disk'[b] = disk[b] /\ burst'[b] = burst[b]
<1>1. \A b \in Names : Accepted(b) \in SUBSET Objects
  BY BackendTypes
<1>2. disk' \in [Names -> SUBSET Objects] /\ burst' \in [Names -> SUBSET Objects]
  BY <1>1 DEF Settle, DbTypeOK
<1>3. ASSUME NEW b \in Names
      PROVE  /\ disk[b] \subseteq disk'[b] /\ Kept(b) \subseteq Kept(b)'
             /\ (b \notin B \/ burst[b] = {}) => disk'[b] = disk[b] /\ burst'[b] = burst[b]
  <2>1. /\ disk'[b] = IF b \in B THEN Accepted(b) ELSE disk[b]
        /\ burst'[b] = IF b \in B THEN {} ELSE burst[b]
    BY DEF Settle
  <2>2. NuDB' = NuDB
    BY DEF NuDB
  <2> QED BY <2>1, <2>2 DEF Accepted, Kept
<1> QED BY <1>2, <1>3

\* A backend is committed.
LEMMA CommitDoes ==
  ASSUME DbTypeOK, NEW b \in Names, Commit(b), backend' = backend
  PROVE  /\ disk' \in [Names -> SUBSET Objects] /\ burst' \in [Names -> SUBSET Objects]
         /\ Wrote(b)
<1>1. CASE Settle({b})
  BY <1>1, SettleDoes DEF Wrote
<1>2. CASE UNCHANGED <<disk, burst>>
  <2>1. disk' = disk /\ burst' = burst /\ NuDB' = NuDB
    BY <1>2 DEF NuDB
  <2> QED BY <2>1 DEF Wrote, Kept, DbTypeOK
<1> QED BY <1>1, <1>2 DEF Commit

\* The steps inside a call.
LEMMA GoOnType ==
  ASSUME DbTypeOK, CallsOK, NEW c \in Threads, GoOn(c), backend' = backend
  PROVE  DbTypeOK'
<1> USE DEF DbTypeOK
<1>1. op[c] \in Ops /\ pair.w \in MaybeName /\ pair.a \in MaybeName /\ pair.w \in Names
  BY DEF MaybeName
<1>2. /\ op[c].w \in MaybeName /\ op[c].a \in MaybeName /\ op[c].t \in MaybeName
      /\ op[c].objs \in SUBSET Objects /\ op[c].got \in SUBSET Objects /\ op[c].lost \in SUBSET Objects
  BY <1>1 DEF Ops
<1>3. \A r \in Ops : [op EXCEPT ![c] = r] \in [Threads -> Ops]
  OBVIOUS
<1>4. \A pc \in OpPcs : [op[c] EXCEPT !.pc = pc] \in Ops
  BY <1>1, <1>2, StepType
<1> USE DEF Becomes, OpPcs, ClientPcs, CopyPcs, RotatePcs, FetchPcs, StorePcs
<1>5. CASE EnterForeground(c)
  <2>1. (IF op[c].pc = "storeWait" THEN "storeIn" ELSE "batchIn") \in OpPcs
    OBVIOUS
  <2>2. op' = [op EXCEPT ![c] = [op[c] EXCEPT !.pc = IF op[c].pc = "storeWait" THEN "storeIn" ELSE "batchIn"]]
    BY <1>5, <1>1 DEF EnterForeground, Ops
  <2> QED BY <1>5, <1>3, <1>4, <2>1, <2>2 DEF EnterForeground
<1>6. CASE TakeWritable(c)
  <2>1. [op[c] EXCEPT !.pc = "storing", !.t = pair.w] \in Ops
    BY <1>1, <1>2, StepType
  <2> QED BY <1>6, <1>3, <2>1 DEF TakeWritable
<1>7. CASE StoreObject(c)
  <2>1. op[c].t \in Names
    BY <1>7 DEF StoreObject, CallsOK, CallOK
  <2> QED BY <1>7, <1>2, <1>3, <1>4, <2>1, WriteOneDoes DEF StoreObject
<1>8. CASE StoreBatch(c)
  BY <1>8, <1>1, <1>2, <1>3, <1>4, WriteBatchDoes DEF StoreBatch
<1>9. CASE FetchWritable(c)
  <2>1. op[c].objs \cap disk[op[c].w] \in SUBSET Objects
    BY <1>2
  <2>2. \A pc \in OpPcs : [op[c] EXCEPT !.pc = pc, !.got = op[c].objs \cap disk[op[c].w]] \in Ops
    BY <2>1, <1>1, <1>2, StepType, ZenonT(30)
  <2> QED BY <1>9, <1>3, <2>2 DEF FetchWritable, Found
<1>10. CASE FetchArchive(c)
  <2>1. op[c].objs \cap disk[op[c].a] \in SUBSET Objects
    BY <1>2
  <2>2. \A pc \in OpPcs : [op[c] EXCEPT !.pc = pc, !.got = op[c].objs \cap disk[op[c].a]] \in Ops
    BY <2>1, <1>1, <1>2, StepType, ZenonT(30)
  <2> QED BY <1>10, <1>3, <2>2 DEF FetchArchive, Found
<1>11. CASE CheckPair(c)
  <2>1. [op[c] EXCEPT !.pc = "forward", !.t = pair.w] \in Ops
    BY <1>1, <1>2, StepType
  <2> QED BY <1>11, <1>3, <1>4, <2>1 DEF CheckPair
<1>12. CASE EnterMaintenance(c)
  <2>1. (IF op[c].pc = "forward" THEN "forwarding" ELSE "copyIn") \in OpPcs
    OBVIOUS
  <2>2. op' = [op EXCEPT ![c] = [op[c] EXCEPT !.pc = IF op[c].pc = "forward" THEN "forwarding" ELSE "copyIn"]]
    BY <1>12, <1>1 DEF EnterMaintenance, Ops
  <2> QED BY <1>12, <1>3, <1>4, <2>1, <2>2 DEF EnterMaintenance
<1>13. CASE Forward(c)
  <2>1. op[c].t \in Names
    BY <1>13 DEF Forward, CallsOK, CallOK
  <2> QED BY <1>13, <1>2, <1>3, <1>4, <2>1, WriteOneDoes DEF Forward
<1>14. CASE CopyRead(c)
  <2> DEFINE got == (op[c].objs \ disk[op[c].w]) \cap disk[op[c].a]
             lost == (op[c].objs \ disk[op[c].w]) \ disk[op[c].a]
  <2>1. got \in SUBSET Objects /\ lost \in SUBSET Objects
    BY <1>2
  <2>2. [op[c] EXCEPT !.pc = "copyWait", !.got = got, !.lost = lost] \in Ops
    BY <2>1, <1>1, <1>2, StepType
  <2> QED BY <1>14, <1>3, <2>2 DEF CopyRead
<1>15. CASE CopyCommit(c)
  <2>1. CASE PairChanged(c)
    <3>1. [op[c] EXCEPT !.pc = "copyRead", !.w = pair.w, !.a = pair.a] \in Ops
      BY <1>1, <1>2, StepType
    <3> QED BY <1>15, <2>1, <3>1, DropsType DEF CopyCommit
  <2>2. CASE ~PairChanged(c)
    <3>1. /\ WriteBatch(pair.w, op[c].got) /\ op' = [op EXCEPT ![c] = [op[c] EXCEPT !.pc = "copied"]]
          /\ UNCHANGED <<dirs, doomed, pair, inFlight>>
      BY <1>15, <2>2 DEF CopyCommit
    <3>2. disk' \in [Names -> SUBSET Objects] /\ burst' \in [Names -> SUBSET Objects]
      BY <3>1, <1>1, <1>2, WriteBatchDoes
    <3>3. op' \in [Threads -> Ops]
      BY <3>1, <1>3, <1>4
    <3> QED BY <3>1, <3>2, <3>3
  <2> QED BY <2>1, <2>2
<1>16. CASE SwapPair(c)
  <2>1. [op[c] EXCEPT !.pc = "drop", !.a = pair.a] \in Ops
    BY <1>1, <1>2, StepType
  <2>2. op[c].t \in Names
    BY <1>16 DEF SwapPair, CallsOK, CallOK
  <2> QED BY <1>16, <1>1, <1>3, <2>1, <2>2 DEF SwapPair
<1>17. CASE DropOld(c)
  <2>1. [Idle EXCEPT !.pc = "rotated"] \in Ops
    BY IdleType, <1>1, <1>2, StepType
  <2> QED BY <1>17, <2>1, DropsType DEF DropOld
<1>18. CASE ExportWritable(c)
  <2>1. op[c].w \in Names
    BY <1>18 DEF ExportWritable, CallsOK, CallOK
  <2> QED BY <1>18, <1>3, <1>4, <2>1, CommitDoes DEF ExportWritable
<1>19. CASE ExportArchive(c)
  <2>1. op[c].a \in Names
    BY <1>19 DEF ExportArchive, CallsOK, CallOK
  <2> QED BY <1>19, <1>3, <1>4, <2>1, CommitDoes DEF ExportArchive
<1> QED
  BY <1>5, <1>6, <1>7, <1>8, <1>9, <1>10, <1>11, <1>12, <1>13, <1>14, <1>15, <1>16, <1>17, <1>18, <1>19
     DEF GoOn

\* The beginning and the end of a call.
LEMMA CallsType ==
  ASSUME DbTypeOK, NEW c \in Threads, backend' = backend,
         \/ Call(c) \/ Return(c) \/ Sync(c)
         \/ \E X \in SUBSET Objects : StartCopy(c, X) \/ StartBatch(c, X)
         \/ /\ Drops(c, Idle) /\ UNCHANGED <<pair, inFlight>>
  PROVE  DbTypeOK'
<1> USE DEF DbTypeOK
<1>1. pair.w \in MaybeName /\ pair.a \in MaybeName
  BY DEF MaybeName
<1>2. \A r \in Ops : [op EXCEPT ![c] = r] \in [Threads -> Ops]
  OBVIOUS
<1>3. {"storeWait", "batchWait", "fetchW", "exporting", "copyRead"} \subseteq OpPcs
  BY DEF OpPcs, ClientPcs, CopyPcs, RotatePcs, FetchPcs, StorePcs
<1>4. CASE Drops(c, Idle) /\ UNCHANGED <<pair, inFlight>>
  BY <1>4, IdleType, DropsType
<1>5. CASE \E X \in SUBSET Objects : StartBatch(c, X)
  <2>1. \A X \in SUBSET Objects : [Idle EXCEPT !.pc = "batchWait", !.objs = X] \in Ops
    BY <1>1, <1>3, CallType
  <2> QED BY <1>5, <1>2, <2>1 DEF StartBatch, Becomes
<1>6. CASE \E X \in SUBSET Objects : StartCopy(c, X)
  <2>1. \A X \in SUBSET Objects :
           [[Idle EXCEPT !.pc = "copyRead", !.objs = X] EXCEPT !.w = pair.w, !.a = pair.a] \in Ops
    BY <1>1, <1>3, CallType
  <2> QED BY <1>6, <1>2, <2>1 DEF StartCopy, Capture, Becomes
<1>7. ASSUME NEW x \in Objects, StartStore(c, x)
      PROVE  DbTypeOK'
  <2>1. {x} \in SUBSET Objects
    OBVIOUS
  <2>2. [Idle EXCEPT !.pc = "storeWait", !.objs = {x}] \in Ops
    BY <2>1, <1>1, <1>3, CallType
  <2> QED BY <1>7, <1>2, <2>2 DEF StartStore, Becomes
<1>8. ASSUME NEW x \in Objects, NEW dup \in BOOLEAN, StartFetch(c, x, dup)
      PROVE  DbTypeOK'
  <2>1. {x} \in SUBSET Objects /\ (x \in Stored) \in BOOLEAN
    BY SMT
  <2>2. [[Idle EXCEPT !.pc = "fetchW", !.objs = {x}, !.flag = dup, !.had = x \in Stored]
            EXCEPT !.w = pair.w, !.a = pair.a] \in Ops
    BY <2>1, <1>1, <1>3, CallType, ZenonT(30)
  <2> QED BY <1>8, <1>2, <2>2 DEF StartFetch, Capture, Becomes
<1>9. CASE StartExport(c)
  <2>1. [[Idle EXCEPT !.pc = "exporting"] EXCEPT !.w = pair.w, !.a = pair.a] \in Ops
    BY <1>1, <1>3, CallType
  <2> QED BY <1>9, <1>2, <2>1 DEF StartExport, Capture, Becomes
<1>10. CASE Sync(c)
  BY <1>10, CommitDoes DEF Sync
<1> QED
  BY <1>4, <1>5, <1>6, <1>7, <1>8, <1>9, <1>10 DEF Call, Return

\* The worker's snapshot at rest and with a ledger.
LEMMA ParkedType ==
  ASSUME NEW seq \in Nat, NEW l \in Nat, NEW c \in Nat, NEW b \in BOOLEAN
  PROVE  /\ Parked \in Snapshots
         /\ [Parked EXCEPT !.pc = "decide", !.seq = seq, !.last = l, !.can = c, !.working = b] \in Snapshots
BY DEF Parked, Snapshots, WkPcs, IdlePcs, QuietPcs, MaybeName

\* The actions outside the worker's step.
OutsideActions ==
    \/ /\ mode = "up"
       /\ \/ OnLedgerClosed \/ Notify \/ Spurious \/ StopStep \/ Loop
          \/ PublishCanDelete \/ \E c \in Policies : SetCanDelete(c)
    \/ Crash \/ Exit \/ Restart \/ Refuse

\* Ledgers that close, the policy, a stop, a crash and a restart.
LEMMA OutsideType ==
  ASSUME DbTypeOK, CtlTypeOK, OutsideActions
  PROVE  DbTypeOK' /\ CtlTypeOK'
<1>1. /\ wk \in Snapshots /\ Seqs \subseteq Nat /\ Policies \subseteq Nat /\ queued \in Nat
      /\ 0 \in Nat
  BY DeleteAssumption, SMT DEF CtlTypeOK, Seqs
<1>2. \A pc \in {"check", "wait", "woken", "take", "exited"} : [wk EXCEPT !.pc = pc] \in Snapshots
  BY <1>1 DEF Snapshots, WkPcs, IdlePcs
<1>3. Parked \in Snapshots
  BY <1>1, ParkedType
<1>4. CASE OnLedgerClosed \/ Notify \/ StopStep \/ Refuse
  BY <1>4, <1>1, ZenonT(60) DEF OnLedgerClosed, Notify, StopStep, Refuse, DbTypeOK, CtlTypeOK, dbVars
<1>5. CASE Spurious \/ CheckWork \/ WakeUp \/ TestStop
  BY <1>5, <1>2, ZenonT(30) DEF Spurious, CheckWork, WakeUp, TestStop, Goes, DbTypeOK, CtlTypeOK, dbVars
<1>6. CASE TakeLedger
  <2>1. [Parked EXCEPT !.pc = "decide", !.seq = queued, !.last = last, !.can = can.store,
                       !.working = working] \in Snapshots
    BY <1>1, ParkedType DEF CtlTypeOK
  <2> QED BY <1>6, <1>3, <2>1 DEF TakeLedger, DbTypeOK, CtlTypeOK, dbVars
<1>7. CASE Merge
  <2>1. wk.last \in Nat /\ wk.working \in BOOLEAN
    BY <1>1 DEF Snapshots
  <2> QED BY <1>7, <1>3, <2>1 DEF Merge, DbTypeOK, CtlTypeOK, dbVars
<1>8. CASE Crash \/ Exit
  <2>1. ProcessEnds /\ backend' = backend
    BY <1>8 DEF Crash, Exit, ProcessEnds
  <2>2. disk' \in [Names -> SUBSET Objects] /\ burst' \in [Names -> SUBSET Objects]
    BY <1>8, <2>1, SettleDoes DEF Crash, Exit, DbTypeOK
  <2> QED BY <1>3, <2>1, <2>2, IdleType DEF ProcessEnds, DbTypeOK, CtlTypeOK
<1>9. CASE Restart
  <2>1. /\ durable.w \in Names /\ durable.a \in Names /\ durable.last \in Nat /\ durable.can \in Nat
        /\ durable.pin \in SUBSET Objects /\ Saved \subseteq Names
        /\ \A b \in Names : Kept(b) \in SUBSET Objects
    BY BackendTypes DEF CtlTypeOK, Saved
  <2>2. DbTypeOK'
    BY <1>9, <2>1 DEF Restart, DbTypeOK
  <2>3. CtlTypeOK'
    BY <1>9, <2>1 DEF Restart, CtlTypeOK
  <2> QED BY <2>2, <2>3
<1>10. ASSUME NEW c \in Policies, SetCanDelete(c)
       PROVE  DbTypeOK' /\ CtlTypeOK'
  <2>1. c \in Nat
    BY <1>1
  <2>2. can' \in [store : Nat, atomic : Nat, setting : BOOLEAN]
    BY <1>10, <2>1 DEF SetCanDelete, CtlTypeOK
  <2>3. durable' \in [w : Names, a : Names, last : Nat, can : Nat, pin : SUBSET Objects, failed : BOOLEAN]
    BY <1>10, <2>1 DEF SetCanDelete, CtlTypeOK
  <2>4. CtlTypeOK'
    BY <1>10, <2>2, <2>3 DEF SetCanDelete, CtlTypeOK
  <2> QED BY <1>10, <2>4 DEF SetCanDelete, DbTypeOK, dbVars
<1>11. CASE PublishCanDelete
  <2>1. can' \in [store : Nat, atomic : Nat, setting : BOOLEAN]
    BY <1>11 DEF PublishCanDelete, CtlTypeOK
  <2> QED BY <1>11, <2>1 DEF PublishCanDelete, CtlTypeOK, DbTypeOK, dbVars
<1> QED
  BY <1>4, <1>5, <1>6, <1>7, <1>8, <1>9, <1>10, <1>11 DEF OutsideActions, Loop

QuietStep == \/ Decide \/ SaveFirst \/ GiveUp \/ RefreshPolicy \/ ClearPrior \/ StartVisit
             \/ MissingNode \/ CopyDone \/ OpenWindow \/ StartFreshen \/ FreshenDone
StoreStep == \/ CopyBatch \/ BatchCopied \/ BatchRescued \/ CopyFails \/ FreshenBatch \/ Freshened
             \/ PrepareRotation \/ RotateBackends \/ PersistState

\* The types that the steps of the worker start from.
LEMMA WorkerFacts ==
  ASSUME DbTypeOK, CtlTypeOK, Coupled
  PROVE  /\ wk \in Snapshots /\ wk.last \in Nat /\ wk.seq \in Nat /\ wk.todo \in SUBSET Objects
         /\ wk.batch \in SUBSET Objects /\ wk.new \in MaybeName
         /\ wk.pc \notin IdlePcs => wk.seq \in Seqs /\ StateMap[wk.seq] \in SUBSET Objects
         /\ Worker \in Threads /\ op[Worker] \in Ops /\ op[Worker].lost \in SUBSET Objects
         /\ op[Worker].t \in MaybeName
  <1>1. wk \in Snapshots /\ Worker \in Threads
    BY DeleteAssumption DEF CtlTypeOK
  <1>2. op[Worker] \in Ops
    BY <1>1 DEF DbTypeOK
  <1>3. \A s \in Seqs : StateMap[s] \in SUBSET Objects
    BY DeleteAssumption DEF Seqs
  <1>4. wk.pc \notin IdlePcs => wk.seq \in Seqs
    BY DEF Coupled
  <1> QED BY <1>1, <1>2, <1>3, <1>4 DEF Snapshots, Ops

\* The steps of the worker that leave the store alone.
LEMMA QuietStepType ==
  ASSUME DbTypeOK, CtlTypeOK, Coupled, QuietStep
  PROVE  DbTypeOK' /\ CtlTypeOK'
<1> USE DEF shared, dbRest, dbVars
<1>1. /\ wk \in Snapshots /\ wk.last \in Nat /\ wk.seq \in Nat
      /\ wk.pc \notin IdlePcs => StateMap[wk.seq] \in SUBSET Objects
  BY WorkerFacts
<1>2. \A pc \in {"merge", "refresh", "clear", "visit", "window", "freshen", "prepare"} :
         [wk EXCEPT !.pc = pc] \in Snapshots
  BY <1>1 DEF Snapshots, WkPcs, QuietPcs
<1>3. [wk EXCEPT !.pc = "merge", !.working = FALSE] \in Snapshots
  BY <1>1 DEF Snapshots, WkPcs, QuietPcs
<1>4. {"first", "copy"} \subseteq WkPcs
  BY DEF WkPcs, QuietPcs
<1>5. CASE Decide
  <2>1. [wk EXCEPT !.pc = "first", !.last = wk.seq] \in Snapshots
    BY <1>1, <1>4 DEF Snapshots
  <2> QED BY <1>5, <1>2, <1>3, <1>4, <2>1, ZenonT(60) DEF Decide, Finish, Goes, DbTypeOK, CtlTypeOK
<1>6. CASE SaveFirst
  BY <1>6, <1>1, <1>2, <1>3, <1>4 DEF SaveFirst, Finish, Fail, Goes, DbTypeOK, CtlTypeOK
<1>7. CASE ClearPrior
  <2>1. [wk EXCEPT !.pc = "copy", !.todo = StateMap[wk.seq]] \in Snapshots
    BY <1>7, <1>1, <1>4 DEF Snapshots, ClearPrior, IdlePcs
  <2> QED BY <1>7, <1>2, <1>4, <2>1, ZenonT(30) DEF ClearPrior, Fail, Goes, DbTypeOK, CtlTypeOK
<1>8. CASE GiveUp \/ MissingNode \/ RefreshPolicy
  BY <1>8, <1>2, <1>3, <1>4, ZenonT(30) DEF GiveUp, MissingNode, RefreshPolicy, Finish, Goes, DbTypeOK, CtlTypeOK
<1>9. CASE StartVisit \/ CopyDone \/ OpenWindow \/ FreshenDone
  BY <1>9, <1>2, <1>4, ZenonT(30)
     DEF StartVisit, CopyDone, OpenWindow, FreshenDone, Goes, DbTypeOK, CtlTypeOK
<1>10. CASE StartFreshen
  <2>1. \A X \in SUBSET Objects : [wk EXCEPT !.pc = "freshenKeys", !.todo = X] \in Snapshots
    BY <1>1 DEF Snapshots, WkPcs, QuietPcs
  <2> QED BY <1>10, <2>1 DEF StartFreshen, DbTypeOK, CtlTypeOK
<1> QED BY <1>5, <1>6, <1>7, <1>8, <1>9, <1>10 DEF QuietStep

\* The lowest free number is free.
LEMMA NameIsUnused ==
  ASSUME Unused # {}
  PROVE  NewName \in Unused /\ NewName \in Names \ dirs
<1>1. Unused \subseteq Nat
  BY NamesAssumption, SMT DEF Unused, Names
<1>2. \E b \in Unused : \A x \in Unused : b <= x
  <2>1. \E b \in Unused : \A x \in Unused : ~(<<x, b>> \in OpToRel(<, Nat))
    BY <1>1, WFMin, NatLessThanWellFounded
  <2>2. \A x, b \in Nat : x < b => <<x, b>> \in OpToRel(<, Nat)
    BY DEF OpToRel
  <2>3. \E b \in Unused : \A x \in Unused : ~(x < b)
    BY <1>1, <2>1, <2>2
  <2> QED BY <1>1, <2>3, SMT
<1> QED BY <1>2 DEF NewName, Unused

\* And those that do not.
LEMMA StoreStepType ==
  ASSUME DbTypeOK, CtlTypeOK, Coupled, StoreStep
  PROVE  DbTypeOK' /\ CtlTypeOK'
<1> USE DEF shared
<1>0. backend' = backend
  BY DEF StoreStep, CopyBatch, BatchCopied, BatchRescued, CopyFails, FreshenBatch, Freshened,
         PrepareRotation, RotateBackends, PersistState
<1>1. /\ wk \in Snapshots /\ wk.seq \in Nat /\ wk.todo \in SUBSET Objects /\ wk.batch \in SUBSET Objects
      /\ wk.new \in MaybeName /\ Worker \in Threads /\ op[Worker] \in Ops
      /\ op[Worker].lost \in SUBSET Objects
  BY WorkerFacts
<1>2. \A pc \in {"merge", "rotating"} : [wk EXCEPT !.pc = pc] \in Snapshots
  BY <1>1 DEF Snapshots, WkPcs, QuietPcs
<1>3. BatchDone => wk' \in Snapshots
  BY <1>1, ZenonT(30) DEF Snapshots, WkPcs, QuietPcs, BatchDone
<1>4. ASSUME UNCHANGED <<shared, durable, pinned>>, wk' \in Snapshots
      PROVE  CtlTypeOK'
  BY <1>4 DEF CtlTypeOK
<1>5. ASSUME Drops(Worker, Idle), pair' = pair, inFlight' \in BOOLEAN
      PROVE  DbTypeOK'
  BY <1>0, <1>5, <1>1, IdleType, DropsType DEF DbTypeOK
<1>6. ASSUME NEW X \in SUBSET Objects, StartCopy(Worker, X) \/ StartBatch(Worker, X)
      PROVE  DbTypeOK'
  BY <1>0, <1>6, <1>1, CallsType
<1>7. Return(Worker) => DbTypeOK'
  BY <1>0, <1>1, CallsType
<1>8. CASE CopyBatch
  <2>1. PICK X \in SUBSET wk.todo : /\ wk' = [wk EXCEPT !.pc = "copying", !.batch = X]
                                    /\ StartCopy(Worker, X)
    BY <1>8 DEF CopyBatch
  <2>2. X \in SUBSET Objects
    BY <1>1
  <2>3. wk' \in Snapshots
    BY <2>1, <2>2, <1>1 DEF Snapshots, WkPcs
  <2> QED BY <1>8, <2>1, <2>2, <2>3, <1>4, <1>6 DEF CopyBatch
<1>9. CASE BatchCopied
  <2>1. wk' \in Snapshots
    BY <1>9, <1>1, <1>3 DEF BatchCopied
  <2> QED BY <1>9, <2>1, <1>1, <1>4, <1>6, <1>7 DEF BatchCopied
<1>10. CASE BatchRescued
  BY <1>10, <1>3, <1>4, <1>7 DEF BatchRescued
<1>11. CASE CopyFails
  BY <1>11, <1>2, <1>4, <1>5 DEF CopyFails, Fail, Goes
<1>12. CASE FreshenBatch
  <2>1. PICK X \in SUBSET wk.todo : /\ wk' = [wk EXCEPT !.pc = "freshening", !.batch = X]
                                    /\ StartCopy(Worker, X)
    BY <1>12 DEF FreshenBatch
  <2>2. X \in SUBSET Objects
    BY <1>1
  <2>3. wk' \in Snapshots
    BY <2>1, <2>2, <1>1 DEF Snapshots, WkPcs
  <2> QED BY <1>12, <2>1, <2>2, <2>3, <1>4, <1>6 DEF FreshenBatch
<1>13. CASE Freshened
  <2>1. wk' \in Snapshots
    BY <1>13, <1>1, ZenonT(30) DEF Freshened, Snapshots, WkPcs, QuietPcs
  <2> QED BY <1>13, <2>1, <1>4, <1>7 DEF Freshened
<1>14. CASE PrepareRotation
  <2>1. CASE MakeBackend /\ wk' = [wk EXCEPT !.pc = "swap", !.new = NewName] /\ UNCHANGED inFlight
    <3>1. NewName \in Names
      BY <2>1, NameIsUnused DEF Unused, MakeBackend
    <3>2. wk' \in Snapshots
      BY <2>1, <3>1, <1>1 DEF Snapshots, WkPcs, QuietPcs, MaybeName
    <3>3. DbTypeOK'
      BY <1>0, <1>14, <2>1, <3>1 DEF PrepareRotation, MakeBackend, DbTypeOK
    <3> QED BY <1>14, <3>2, <3>3, <1>4 DEF PrepareRotation
  <2>2. CASE Fail /\ UNCHANGED dirs
    BY <1>0, <1>14, <2>2, <1>2, <1>4 DEF PrepareRotation, Fail, Goes, DbTypeOK
  <2> QED BY <1>14, <2>1, <2>2 DEF PrepareRotation
<1>15. CASE RotateBackends
  <2>1. "rotate" \in OpPcs /\ inFlight \in BOOLEAN
    BY DEF OpPcs, RotatePcs, DbTypeOK
  <2>2. [Idle EXCEPT !.pc = "rotate", !.t = wk.new, !.flag = inFlight] \in Ops
    BY <1>1, <2>1, CallType
  <2>3. DbTypeOK'
    BY <1>0, <1>15, <2>2 DEF RotateBackends, StartRotate, Becomes, DbTypeOK
  <2> QED BY <1>15, <2>3, <1>2, <1>4 DEF RotateBackends, Goes
<1>16. CASE PersistState
  <2>1. DbTypeOK'
    BY <1>16, <1>5 DEF PersistState, Fail
  <2>2. wk' \in Snapshots
    BY <1>16, <1>1, <1>2 DEF PersistState, Fail, Goes, Snapshots, WkPcs, QuietPcs
  <2>3. PinnedSafe \in SUBSET Objects /\ pair.w \in Names /\ pair.a \in Names
    BY DEF PinnedSafe, CtlTypeOK, DbTypeOK
  <2>4. durable' \in [w : Names, a : Names, last : Nat, can : Nat, pin : SUBSET Objects, failed : BOOLEAN]
    BY <1>16, <2>3, <1>1, ZenonT(30) DEF PersistState, CtlTypeOK
  <2>5. CtlTypeOK'
    BY <1>16, <2>2, <2>4 DEF PersistState, CtlTypeOK
  <2> QED BY <2>1, <2>5
<1> QED
  BY <1>8, <1>9, <1>10, <1>11, <1>12, <1>13, <1>14, <1>15, <1>16 DEF StoreStep

InStep == mode = "up" /\ InStore
ClientStep == mode = "up" /\ \E c \in Clients : Client(c)
QueueStep == mode = "up" /\ WriteQueued /\ UNCHANGED <<backend, ctlVars, pinned>>

\* Every step is one of five kinds.
LEMMA KindsOfStep ==
  ASSUME OdNext
  PROVE  \/ OutsideActions \/ (mode = "up" /\ (QuietStep \/ StoreStep)) \/ InStep \/ ClientStep
         \/ QueueStep
BY DEF OdNext, Work, Step, Loop, OutsideActions, QuietStep, StoreStep, InStep, ClientStep, QueueStep

\* The types are kept by every step.
LEMMA TypesArePreserved ==
  ASSUME DbTypeOK, CtlTypeOK, Coupled, CallsOK, OdNext
  PROVE  DbTypeOK' /\ CtlTypeOK'
<1>1. CASE OutsideActions
  BY <1>1, OutsideType
<1>2. CASE QuietStep \/ StoreStep
  BY <1>2, QuietStepType, StoreStepType
<1>3. CASE InStep
  <2>1. Worker \in Threads /\ (op[Worker].pc = "rotate" => StateMap[wk.seq] \in SUBSET Objects)
    <3>1. op[Worker].pc = "rotate" => wk.pc \notin IdlePcs
      BY SMT DEF Coupled, Idle
    <3> QED BY <3>1, WorkerFacts
  <2>2. DbTypeOK'
    BY <1>3, <2>1, GoOnType DEF InStep, InStore, shared
  <2>3. CtlTypeOK'
    BY <1>3, <2>1 DEF InStep, InStore, CtlTypeOK, shared
  <2> QED BY <2>2, <2>3
<1>4. CASE ClientStep
  <2>1. PICK c \in Clients : Client(c)
    BY <1>4 DEF ClientStep
  <2>2. c \in Threads
    BY DEF Clients
  <2>3. DbTypeOK'
    BY <2>1, <2>2, GoOnType, CallsType DEF Client, ThreadStep
  <2>4. CtlTypeOK'
    BY <2>1 DEF Client, ctlVars, CtlTypeOK
  <2> QED BY <2>3, <2>4
<1>5. CASE QueueStep
  <2>1. DbTypeOK'
    BY <1>5, SettleDoes DEF QueueStep, WriteQueued, DbTypeOK
  <2>2. CtlTypeOK'
    BY <1>5 DEF QueueStep, ctlVars, CtlTypeOK
  <2> QED BY <2>1, <2>2
<1> QED BY <1>1, <1>2, <1>3, <1>4, <1>5, KindsOfStep

-----------------------------------------------------------------------------
(* What a step of thread c does to the store, other than a rotation: what  *)
(* others hold, what can be read and what is kept stay, and so does the    *)
(* pair; a backend with nothing in it stays so unless c holds it or it is  *)
(* the writable one.                                                       *)
Tame(c) ==
    /\ pair' = pair /\ \A d \in Threads \ {c} : op'[d] = op[d]
    /\ dirs' \subseteq dirs /\ dirs \ dirs' \subseteq doomed /\ doomed' = doomed \cap dirs'
    /\ {pair.w, pair.a} \subseteq dirs' /\ \A d \in Threads : NamesOf(op'[d]) \subseteq dirs'
    /\ c # Worker => NamesOf(op'[c]) \subseteq NamesOf(op[c]) \cup {pair.w, pair.a}
    /\ \A b \in Names \ dirs' : disk'[b] = {} /\ burst'[b] = {}
    /\ \A b \in dirs' : disk[b] \subseteq disk'[b] /\ Kept(b) \subseteq Kept(b)'
    /\ \A b \in dirs' \ (NamesOf(op[c]) \cup {pair.w}) :
          disk[b] = {} /\ burst[b] = {} => disk'[b] = {} /\ burst'[b] = {}
    /\ (NuDB => dirs' = dirs) /\ backend' = backend

\* A call goes on or starts, and may write to one backend.
LEMMA TameMove ==
  ASSUME DbTypeOK, Held, NEW c \in Threads, NEW r \in Ops, Becomes(c, r),
         UNCHANGED <<dirs, pair, doomed, backend>>,
         NamesOf(r) \subseteq NamesOf(op[c]) \cup {pair.w, pair.a},
         \/ disk' = disk /\ burst' = burst
         \/ \E b \in Names : Wrote(b) /\ b \in NamesOf(op[c]) \cup {pair.w}
  PROVE  Tame(c)
<1>1. \A d \in Threads \ {c} : op'[d] = op[d]
  BY DEF Becomes, DbTypeOK
<1>2. op'[c] = r
  BY DEF Becomes, DbTypeOK
<1>3. \A d \in Threads : NamesOf(op'[d]) \subseteq dirs
  <2> SUFFICES ASSUME NEW d \in Threads PROVE NamesOf(op'[d]) \subseteq dirs
    OBVIOUS
  <2>1. NamesOf(op[d]) \subseteq dirs /\ NamesOf(op[c]) \subseteq dirs /\ {pair.w, pair.a} \subseteq dirs
    BY DEF Held
  <2> QED BY <2>1, <1>1, <1>2
<1>4. dirs \subseteq Names /\ doomed \subseteq dirs /\ {pair.w, pair.a} \subseteq dirs
  BY DEF Held, DbTypeOK
<1>5. CASE disk' = disk /\ burst' = burst
  <2>1. \A b : Kept(b)' = Kept(b)
    BY <1>5 DEF Kept, NuDB
  <2> QED BY <1>1, <1>2, <1>3, <1>4, <1>5, <2>1 DEF Tame, Held
<1>6. CASE \E b \in Names : Wrote(b) /\ b \in NamesOf(op[c]) \cup {pair.w}
  <2>1. PICK b \in Names : Wrote(b) /\ b \in NamesOf(op[c]) \cup {pair.w}
    BY <1>6
  <2>2. \A x \in Names \ {b} : disk'[x] = disk[x] /\ burst'[x] = burst[x] /\ Kept(x)' = Kept(x)
    BY <2>1 DEF Wrote, Kept, NuDB
  <2>3. b \in dirs
    BY <2>1 DEF Held
  <2>4. \A x \in Names \ dirs : disk'[x] = {} /\ burst'[x] = {}
    BY <2>2, <2>3 DEF Held
  <2>5. \A x \in dirs : disk[x] \subseteq disk'[x] /\ Kept(x) \subseteq Kept(x)'
    BY <2>1, <2>2, <1>4 DEF Wrote
  <2>6. \A x \in dirs \ (NamesOf(op[c]) \cup {pair.w}) : disk'[x] = disk[x] /\ burst'[x] = burst[x]
    BY <2>1, <2>2, <1>4
  <2> QED BY <1>1, <1>2, <1>3, <1>4, <2>4, <2>5, <2>6 DEF Tame
<1> QED BY <1>5, <1>6

\* A call lets go of what it holds.
LEMMA TameDrop ==
  ASSUME DbTypeOK, Held, NEW c \in Threads, NEW r \in Ops, Drops(c, r), UNCHANGED <<pair, backend>>,
         NamesOf(r) \subseteq NamesOf(op[c]) \cup {pair.w, pair.a}
  PROVE  Tame(c)
<1> DEFINE gone == Gone(pair, op')
<1>1. \A d \in Threads \ {c} : op'[d] = op[d]
  BY DEF Drops, Becomes, DbTypeOK
<1>2. op'[c] = r
  BY DEF Drops, Becomes, DbTypeOK
<1>3. /\ dirs' = dirs \ gone /\ doomed' = doomed \ gone
      /\ disk' = [b \in Names |-> IF b \in gone THEN {} ELSE disk[b]]
      /\ burst' = [b \in Names |-> IF b \in gone THEN {} ELSE burst[b]]
  BY DEF Drops
<1>4. gone \subseteq doomed /\ pair.w \notin gone /\ pair.a \notin gone /\ (NuDB => gone = {})
  BY DEF Gone, HeldIn
<1>5. \A d \in Threads : NamesOf(op'[d]) \cap gone = {}
  BY DEF Gone, HeldIn, NamesOf
<1>6. \A d \in Threads \ {c} : NamesOf(op'[d]) \subseteq dirs
  BY <1>1 DEF Held
<1>7. /\ NamesOf(op'[c]) \subseteq NamesOf(op[c]) \cup {pair.w, pair.a}
      /\ NamesOf(op[c]) \subseteq dirs /\ {pair.w, pair.a} \subseteq dirs
  BY <1>2 DEF Held
<1>8. \A d \in Threads : NamesOf(op'[d]) \subseteq dirs'
  BY <1>3, <1>5, <1>6, <1>7
<1>9. \A b \in Names : /\ disk'[b] = IF b \in gone THEN {} ELSE disk[b]
                       /\ burst'[b] = IF b \in gone THEN {} ELSE burst[b]
  BY <1>3
<1>10. \A b \in Names \ dirs' : disk'[b] = {} /\ burst'[b] = {}
  BY <1>3, <1>9 DEF Held
<1>11. dirs \subseteq Names /\ doomed \subseteq dirs /\ pair.w \in Names
  BY DEF Held, DbTypeOK
<1>12. \A b \in dirs' : disk'[b] = disk[b] /\ burst'[b] = burst[b] /\ Kept(b)' = Kept(b)
  BY <1>3, <1>9, <1>11 DEF Kept, NuDB
<1>13. {pair.w, pair.a} \subseteq dirs' /\ doomed' = doomed \cap dirs' /\ dirs \ dirs' \subseteq doomed
  BY <1>3, <1>4, <1>7, <1>11
<1> HIDE DEF gone
<1>14. NuDB => dirs' = dirs
  BY <1>3, <1>4
<1> QED BY <1>1, <1>3, <1>7, <1>8, <1>10, <1>12, <1>13, <1>14 DEF Tame

\* Everything that a thread does inside a call is tame, except the rotation.
LEMMA GoOnIsTame ==
  ASSUME DbTypeOK, Held, CallsOK, NEW c \in Threads, GoOn(c), op[c].pc # "rotate", DbTypeOK',
         backend' = backend
  PROVE  Tame(c)
<1>1. op[c] \in Ops /\ op'[c] \in Ops /\ CallOK(op[c])
  BY DEF DbTypeOK, CallsOK
<1>2. /\ pair.w \in Names /\ op[c].objs \in SUBSET Objects /\ op[c].got \in SUBSET Objects
      /\ DOMAIN op = Threads
  BY <1>1 DEF DbTypeOK, Ops
<1>3. ASSUME NEW r, Becomes(c, r)
      PROVE  r \in Ops
  BY <1>1, <1>2, <1>3 DEF Becomes
<1>4. \A pc : NamesOf([op[c] EXCEPT !.pc = pc]) = NamesOf(op[c])
  BY <1>1 DEF NamesOf, Ops
<1>5. \A pc : NamesOf([op[c] EXCEPT !.pc = pc, !.t = pair.w]) \subseteq NamesOf(op[c]) \cup {pair.w, pair.a}
  BY <1>1 DEF NamesOf, Ops
<1>6. \A pc, X : NamesOf([op[c] EXCEPT !.pc = pc, !.got = X]) = NamesOf(op[c])
  BY <1>1 DEF NamesOf, Ops
<1>7. \A pc, X, Y : NamesOf([op[c] EXCEPT !.pc = pc, !.got = X, !.lost = Y]) = NamesOf(op[c])
  BY <1>1 DEF NamesOf, Ops
<1>8. CASE EnterForeground(c)
  <2>1. PICK pc : Becomes(c, [op[c] EXCEPT !.pc = pc])
    BY <1>8, <1>1 DEF EnterForeground, Ops
  <2> QED BY <1>8, <2>1, <1>3, <1>4, TameMove DEF EnterForeground
<1>9. CASE TakeWritable(c)
  BY <1>9, <1>3, <1>5, TameMove DEF TakeWritable
<1>10. CASE StoreObject(c)
  <2>1. op[c].t \in Names /\ op[c].t \in NamesOf(op[c])
    BY <1>10, <1>1, NoneIsNoName DEF StoreObject, CallOK, NamesOf
  <2>2. Wrote(op[c].t)
    BY <1>10, <2>1, <1>2, WriteOneDoes DEF StoreObject
  <2> QED BY <1>10, <2>1, <2>2, <1>3, <1>4, TameMove DEF StoreObject
<1>11. CASE StoreBatch(c)
  <2>1. Wrote(pair.w)
    BY <1>11, <1>2, WriteBatchDoes DEF StoreBatch
  <2> QED BY <1>11, <2>1, <1>2, <1>3, <1>4, TameMove DEF StoreBatch
<1>12. CASE FetchWritable(c)
  BY <1>12, <1>3, <1>6, TameMove DEF FetchWritable, Found
<1>13. CASE FetchArchive(c)
  BY <1>13, <1>3, <1>6, TameMove DEF FetchArchive, Found
<1>14. CASE CheckPair(c)
  BY <1>14, <1>3, <1>4, <1>5, TameMove DEF CheckPair
<1>15. CASE EnterMaintenance(c)
  <2>1. PICK pc : Becomes(c, [op[c] EXCEPT !.pc = pc])
    BY <1>15, <1>1 DEF EnterMaintenance, Ops
  <2> QED BY <1>15, <2>1, <1>3, <1>4, TameMove DEF EnterMaintenance
<1>16. CASE Forward(c)
  <2>1. op[c].t \in Names /\ op[c].t \in NamesOf(op[c])
    BY <1>16, <1>1, NoneIsNoName DEF Forward, CallOK, NamesOf
  <2>2. Wrote(op[c].t)
    BY <1>16, <2>1, <1>2, WriteOneDoes DEF Forward
  <2> QED BY <1>16, <2>1, <2>2, <1>3, <1>4, TameMove DEF Forward
<1>17. CASE CopyRead(c)
  BY <1>17, <1>3, <1>7, TameMove DEF CopyRead
<1>18. CASE CopyCommit(c) /\ ~PairChanged(c)
  <2>1. Wrote(pair.w)
    BY <1>18, <1>2, WriteBatchDoes DEF CopyCommit
  <2> QED BY <1>18, <2>1, <1>2, <1>3, <1>4, TameMove DEF CopyCommit
<1>19. CASE CopyCommit(c) /\ PairChanged(c)
  <2> DEFINE r == [op[c] EXCEPT !.pc = "copyRead", !.w = pair.w, !.a = pair.a]
  <2>1. Drops(c, r) /\ pair' = pair
    BY <1>19 DEF CopyCommit
  <2>2. r \in Ops
    BY <2>1, <1>3 DEF Drops
  <2>3. NamesOf(r) \subseteq NamesOf(op[c]) \cup {pair.w, pair.a}
    BY <1>1 DEF NamesOf, Ops
  <2> QED BY <2>1, <2>2, <2>3, TameDrop
<1>20. CASE DropOld(c)
  <2>1. NamesOf([Idle EXCEPT !.pc = "rotated"]) = {}
    BY DEF NamesOf, Idle
  <2> QED BY <1>20, <2>1, <1>3, TameDrop DEF DropOld, Drops
<1>21. CASE ExportWritable(c)
  <2>1. op[c].w \in Names /\ op[c].w \in NamesOf(op[c])
    BY <1>21, <1>1, NoneIsNoName DEF ExportWritable, CallOK, NamesOf
  <2>2. Wrote(op[c].w)
    BY <1>21, <2>1, CommitDoes DEF ExportWritable
  <2> QED BY <1>21, <2>1, <2>2, <1>3, <1>4, TameMove DEF ExportWritable
<1>22. CASE ExportArchive(c)
  <2>1. op[c].a \in Names /\ op[c].a \in NamesOf(op[c])
    BY <1>22, <1>1, NoneIsNoName DEF ExportArchive, CallOK, NamesOf
  <2>2. Wrote(op[c].a)
    BY <1>22, <2>1, CommitDoes DEF ExportArchive
  <2> QED BY <1>22, <2>1, <2>2, <1>3, <1>4, TameMove DEF ExportArchive
<1>23. ~SwapPair(c)
  BY DEF SwapPair
<1> QED
  BY <1>8, <1>9, <1>10, <1>11, <1>12, <1>13, <1>14, <1>15, <1>16, <1>17, <1>18, <1>19, <1>20, <1>21,
     <1>22, <1>23 DEF GoOn

\* So is the beginning and the end of a call.
LEMMA CallsAreTame ==
  ASSUME DbTypeOK, Held, NEW c \in Threads, DbTypeOK', backend' = backend,
         \/ Call(c) \/ Return(c) \/ Sync(c)
         \/ \E X \in SUBSET Objects : StartCopy(c, X) \/ StartBatch(c, X)
         \/ (Drops(c, Idle) /\ pair' = pair)
  PROVE  Tame(c)
<1>1. DOMAIN op = Threads /\ op'[c] \in Ops
  BY DEF DbTypeOK
<1>2. ASSUME NEW r, Becomes(c, r)
      PROVE  r \in Ops
  BY <1>1, <1>2 DEF Becomes
<1>3. NamesOf(Idle) = {}
  BY DEF NamesOf, Idle
<1>4. CASE Drops(c, Idle) /\ pair' = pair
  BY <1>4, <1>3, IdleType, TameDrop
<1>5. \A pc, X : NamesOf([Idle EXCEPT !.pc = pc, !.objs = X]) = {}
  BY DEF NamesOf, Idle
<1>6. ASSUME NEW r, Capture(c, r), NamesOf([r EXCEPT !.w = pair.w, !.a = pair.a]) \subseteq {pair.w, pair.a}
      PROVE  Tame(c)
  BY <1>6, <1>2, TameMove DEF Capture
<1>7. ASSUME NEW x \in Objects, NEW dup \in BOOLEAN, StartFetch(c, x, dup)
      PROVE  Tame(c)
  BY <1>6, <1>7 DEF StartFetch, NamesOf, Idle
<1>8. CASE StartExport(c)
  BY <1>6, <1>8 DEF StartExport, NamesOf, Idle
<1>9. ASSUME NEW X \in SUBSET Objects, StartCopy(c, X)
      PROVE  Tame(c)
  BY <1>6, <1>9 DEF StartCopy, NamesOf, Idle
<1>10. ASSUME NEW X \in SUBSET Objects, StartBatch(c, X)
       PROVE  Tame(c)
  BY <1>10, <1>2, <1>5, TameMove DEF StartBatch
<1>11. ASSUME NEW x \in Objects, StartStore(c, x)
       PROVE  Tame(c)
  BY <1>11, <1>2, <1>5, TameMove DEF StartStore
<1>12. CASE Sync(c)
  <2>1. Becomes(c, op[c]) /\ op[c] \in Ops /\ pair.w \in Names
    BY <1>12 DEF Sync, Becomes, DbTypeOK
  <2>2. Wrote(pair.w)
    BY <1>12, <2>1, CommitDoes DEF Sync
  <2> QED BY <1>12, <2>1, <2>2, TameMove DEF Sync
<1> QED
  BY <1>4, <1>7, <1>8, <1>9, <1>10, <1>11, <1>12 DEF Call, Return

\* What the BatchWriter has queued is written: tame, and of no backend that
\* is unknown.
LEMMA QueueIsTame ==
  ASSUME DbTypeOK, Held, QueueStep
  PROVE  Tame(Worker) /\ \A n \in Names : Unknown(n) => Unknown(n)'
<1>1. PICK b \in Names : burst[b] # {} /\ Settle({b})
  BY DEF QueueStep, WriteQueued
<1>2. /\ dirs' = dirs /\ pair' = pair /\ doomed' = doomed /\ op' = op /\ backend' = backend
      /\ dirs \subseteq Names /\ doomed \subseteq dirs
  BY DEF QueueStep, WriteQueued, DbTypeOK, Held
<1>3. /\ \A x \in Names : disk[x] \subseteq disk'[x] /\ Kept(x) \subseteq Kept(x)'
      /\ \A x \in Names : burst[x] = {} => disk'[x] = disk[x] /\ burst'[x] = burst[x]
  BY <1>1, <1>2, SettleDoes
<1>4. Tame(Worker)
  BY <1>2, <1>3 DEF Tame, Held
<1>5. \A n \in Names : Unknown(n) => Unknown(n)'
  BY <1>2, <1>3 DEF Unknown
<1> QED BY <1>4, <1>5

\* A call that does not move still knows what it knew.
LEMMA TameCall ==
  ASSUME DbTypeOK, NEW c \in Threads, Tame(c), NEW d \in Threads, op'[d] = op[d], CallOK(op[d])
  PROVE  CallOK(op[d])'
<1>1. pair' = pair /\ NamesOf(op[d]) \subseteq dirs'
  BY DEF Tame
<1>2. /\ op[d].w \in Names => disk[op[d].w] \subseteq disk'[op[d].w]
      /\ op[d].a \in Names => disk[op[d].a] \subseteq disk'[op[d].a]
  BY <1>1, NoneIsNoName DEF Tame, NamesOf
<1> QED BY <1>1, <1>2 DEF CallOK, FetchPcs, CopyPcs

\* What a tame step of one thread leaves to the others.
LEMMA TameKeeps ==
  ASSUME DbTypeOK, Held, NEW c \in Threads, Tame(c)
  PROVE  /\ Held'
         /\ \A d \in Threads \ {c} : CallOK(op[d]) => CallOK(op[d])'
         /\ c # Worker => \A n \in Names : Unknown(n) => Unknown(n)'
<1>1. Held'
  BY DEF Tame, Held
<1>2. ASSUME NEW d \in Threads \ {c}, CallOK(op[d])
      PROVE  CallOK(op[d])'
  BY <1>2, TameCall DEF Tame
<1>3. ASSUME NEW n \in Names, c # Worker, Unknown(n)
      PROVE  Unknown(n)'
  <2>1. n \in dirs /\ n \notin doomed /\ n \notin {pair.w, pair.a} /\ disk[n] = {} /\ burst[n] = {}
    BY <1>3 DEF Unknown
  <2>2. \A d \in Clients : n \notin NamesOf(op[d])
    BY <1>3 DEF Unknown
  <2>3. n \notin NamesOf(op[c])
    BY <1>3, <2>2 DEF Clients
  <2>4. n \in dirs' /\ n \notin doomed' /\ pair' = pair
    BY <2>1 DEF Tame
  <2>5. disk'[n] = {} /\ burst'[n] = {}
    BY <2>1, <2>3, <2>4 DEF Tame
  <2>6. NamesOf(op'[c]) \subseteq NamesOf(op[c]) \cup {pair.w, pair.a}
    BY <1>3 DEF Tame
  <2>7. \A d \in Clients : n \notin NamesOf(op'[d])
    BY <2>1, <2>2, <2>3, <2>6 DEF Tame, Clients
  <2> QED BY <2>1, <2>4, <2>5, <2>7 DEF Unknown
<1> QED BY <1>1, <1>2, <1>3

\* What the thread that moves knows of the store.
LEMMA OwnGoOn ==
  ASSUME DbTypeOK, Held, CallsOK, NEW c \in Threads, GoOn(c), op[c].pc # "rotate", Tame(c)
  PROVE  CallOK(op[c])'
<1>1. op[c] \in Ops /\ DOMAIN op = Threads /\ CallOK(op[c]) /\ pair' = pair
  BY DEF DbTypeOK, CallsOK, Tame
<1>2. pair.w \in Names /\ pair.a \in Names
  BY DEF DbTypeOK
<1>3. op[c].a \in Names /\ op'[c].a = op[c].a => disk[op[c].a] \subseteq disk'[op[c].a]
  <2>1. op[c].a \in Names /\ op'[c].a = op[c].a => op[c].a \in NamesOf(op'[c])
    BY NoneIsNoName DEF NamesOf
  <2> QED BY <2>1 DEF Tame
<1> USE DEF Becomes, CallOK, FetchPcs, CopyPcs
<1>4. CASE EnterForeground(c) \/ StoreObject(c) \/ StoreBatch(c)
  BY <1>4, <1>1, SMT DEF EnterForeground, StoreObject, StoreBatch, Waiting, At, Ops
<1>5. CASE TakeWritable(c)
  BY <1>5, <1>1, <1>2 DEF TakeWritable, Ops
<1>6. CASE FetchWritable(c)
  BY <1>6, <1>1 DEF FetchWritable, Found, Ops
<1>7. CASE FetchArchive(c)
  BY <1>7, <1>1 DEF FetchArchive, Found, Ops
<1>8. CASE CheckPair(c)
  <2>1. CASE op'[c] = [op[c] EXCEPT !.pc = "forward", !.t = pair.w] /\ op[c].pc = "check" /\ disk' = disk
    BY <2>1, <1>1, <1>2 DEF Ops
  <2>2. CASE op'[c] = [op[c] EXCEPT !.pc = "fetched"] /\ op[c].pc = "check"
    BY <2>2, <1>1 DEF Ops
  <2> QED BY <1>8, <1>1, <2>1, <2>2 DEF CheckPair
<1>9. CASE EnterMaintenance(c)
  BY <1>9, <1>1 DEF EnterMaintenance, Ops
<1>10. CASE Forward(c)
  BY <1>10, <1>1 DEF Forward, Ops
<1>11. CASE CopyRead(c)
  BY <1>11, <1>1 DEF CopyRead, Ops
<1>12. CASE CopyCommit(c)
  <2>1. CASE op'[c] = [op[c] EXCEPT !.pc = "copyRead", !.w = pair.w, !.a = pair.a]
    BY <2>1, <1>1, <1>2 DEF Ops
  <2>2. CASE op'[c] = [op[c] EXCEPT !.pc = "copied"] /\ op[c].pc = "copyIn"
    BY <2>2, <1>1 DEF Ops
  <2> QED BY <1>12, <1>1, <2>1, <2>2 DEF CopyCommit, Drops
<1>13. CASE DropOld(c)
  BY <1>13, <1>1 DEF DropOld, Drops, Idle
<1>14. CASE ExportWritable(c) \/ ExportArchive(c)
  BY <1>14, <1>1 DEF ExportWritable, ExportArchive, Ops
<1>15. ~SwapPair(c)
  BY DEF SwapPair
<1> QED
  BY <1>4, <1>5, <1>6, <1>7, <1>8, <1>9, <1>10, <1>11, <1>12, <1>13, <1>14, <1>15 DEF GoOn

\* And when its call begins or ends.
LEMMA OwnCall ==
  ASSUME DbTypeOK, NEW c \in Threads,
         \/ Call(c) \/ Return(c) \/ Sync(c)
         \/ \E X \in SUBSET Objects : StartCopy(c, X) \/ StartBatch(c, X)
         \/ (Drops(c, Idle) /\ pair' = pair)
  PROVE  CallOK(op[c])'
<1>1. DOMAIN op = Threads /\ pair.w \in Names /\ pair.a \in Names
  BY DEF DbTypeOK
<1> USE DEF Becomes, CallOK, FetchPcs, CopyPcs, Idle
<1>2. CASE Drops(c, Idle)
  BY <1>1, <1>2 DEF Drops
<1>3. CASE \E x \in Objects : StartStore(c, x)
  BY <1>1, <1>3, ZenonT(30) DEF StartStore
<1>4. CASE \E X \in SUBSET Objects : StartBatch(c, X)
  BY <1>1, <1>4, ZenonT(30) DEF StartBatch
<1>5. CASE \E X \in SUBSET Objects : StartCopy(c, X)
  <2>1. PICK X \in SUBSET Objects :
           op'[c] = [pc |-> "copyRead", w |-> pair.w, a |-> pair.a, t |-> None, objs |-> X, got |-> {},
                     lost |-> {}, flag |-> FALSE, had |-> FALSE]
    BY <1>1, <1>5 DEF StartCopy, Capture
  <2> QED BY <1>1, <2>1, SMT
<1>6. CASE StartExport(c)
  BY <1>1, <1>6 DEF StartExport, Capture
<1>7. ASSUME NEW x \in Objects, NEW dup \in BOOLEAN, StartFetch(c, x, dup)
      PROVE  CallOK(op[c])'
  <2>1. op'[c] = [pc |-> "fetchW", w |-> pair.w, a |-> pair.a, t |-> None, objs |-> {x}, got |-> {},
                  lost |-> {}, flag |-> dup, had |-> x \in Stored]
    BY <1>1, <1>7 DEF StartFetch, Capture
  <2>2. disk' = disk
    BY <1>7 DEF StartFetch, Capture
  <2>3. x \in Stored => {x} \subseteq disk[pair.w] \/ {x} \subseteq disk[pair.a]
    BY DEF Stored
  <2>4. /\ op'[c].pc = "fetchW" /\ op'[c].w = pair.w /\ op'[c].a = pair.a /\ op'[c].objs = {x}
        /\ op'[c].had = (x \in Stored)
    BY <2>1, SMT
  <2> QED BY <1>1, <2>2, <2>3, <2>4
<1>8. CASE Sync(c)
  BY <1>8 DEF Sync
<1> QED
  BY <1>2, <1>3, <1>4, <1>5, <1>6, <1>7, <1>8 DEF Call, Return

\* The rotation.
LEMMA SwapKeeps ==
  ASSUME DbTypeOK, Held, CallsOK, NextIsFresh, SwapPair(Worker)
  PROVE  Held' /\ CallsOK'
<1> DEFINE n == op[Worker].t
<1>1. Unknown(n) /\ Worker \in Threads /\ op[Worker] \in Ops /\ op[Worker].pc = "rotate"
  BY DeleteAssumption DEF NextIsFresh, SwapPair, DbTypeOK
<1>2. n \in dirs /\ n \notin doomed /\ n # pair.w /\ n # pair.a
  BY <1>1 DEF Unknown
<1>3. /\ dirs' = dirs /\ disk' = disk /\ burst' = burst /\ doomed' = doomed \cup {pair.a}
      /\ pair' = [w |-> n, a |-> pair.w]
  BY DEF SwapPair
<1>4. \A d \in Threads \ {Worker} : op'[d] = op[d]
  BY DEF SwapPair, Becomes, DbTypeOK
<1>5. op'[Worker] = [op[Worker] EXCEPT !.pc = "drop", !.a = pair.a]
  BY <1>1 DEF SwapPair, Becomes, DbTypeOK
<1>6. \A d \in Threads : NamesOf(op[d]) \subseteq dirs
  BY DEF Held
<1>7. NamesOf(op'[Worker]) \subseteq dirs
  BY <1>1, <1>5, <1>6, SMT DEF NamesOf, Ops, Held
<1>8. \A d \in Threads : NamesOf(op'[d]) \subseteq dirs
  BY <1>4, <1>6, <1>7
<1>9. Held'
  BY <1>2, <1>3, <1>8 DEF Held
<1>10. CallOK(op[Worker])'
  BY <1>1, <1>5 DEF CallOK, FetchPcs, CopyPcs, Ops
<1>11. ASSUME NEW d \in Threads \ {Worker}
       PROVE  CallOK(op[d])'
  <2>1. n \notin NamesOf(op[d])
    BY <1>1 DEF Unknown, Clients
  <2>2. n # None
    BY <1>2, NoneIsNoName DEF DbTypeOK
  <2>3. op[d].w # n /\ CallOK(op[d]) /\ op'[d] = op[d]
    BY <2>1, <2>2, <1>4 DEF NamesOf, CallsOK
  <2> HIDE DEF n
  <2> QED BY <1>3, <2>3 DEF CallOK
<1> QED BY <1>9, <1>10, <1>11 DEF CallsOK
-----------------------------------------------------------------------------
(* Where the calls are.                                                    *)

\* A call goes on within its own program.
LEMMA GoOnPcs ==
  ASSUME DbTypeOK, NEW c \in Threads, GoOn(c)
  PROVE  /\ op[c].pc \in CopyPcs => op'[c].pc \in CopyPcs
         /\ op[c].pc \in {"batchWait", "batchIn", "stored"} => op'[c].pc \in {"batchIn", "stored"}
         /\ op[c].pc \in RotatePcs => op'[c].pc \in {"drop", "rotated"}
         /\ op[c].pc \in ClientPcs => op'[c].pc \in ClientPcs
         /\ op[c].pc # "idle" /\ op'[c].pc # "rotate"
         /\ \A d \in Threads \ {c} : op'[d] = op[d]
<1>1. op[c] \in Ops /\ DOMAIN op = Threads
  BY DEF DbTypeOK
<1>2. PICK r : Becomes(c, r)
  BY DEF GoOn, EnterForeground, TakeWritable, StoreObject, StoreBatch, FetchWritable, FetchArchive,
         CheckPair, EnterMaintenance, Forward, ExportWritable, ExportArchive, CopyRead, CopyCommit,
         SwapPair, DropOld, Found, Drops
<1>3. \A d \in Threads \ {c} : op'[d] = op[d]
  BY <1>1, <1>2 DEF Becomes
<1> DEFINE From(P) == op[c].pc \in P
           To(P) == op'[c].pc \in P
<1>4. EnterForeground(c) => \/ From({"storeWait"}) /\ To({"storeIn"})
                            \/ From({"batchWait"}) /\ To({"batchIn"})
  BY <1>1 DEF EnterForeground, Waiting, At, Becomes, Ops
<1>5. TakeWritable(c) => From({"storeIn"}) /\ To({"storing"})
  BY <1>1 DEF TakeWritable, Becomes, Ops
<1>6. StoreObject(c) => From({"storing"}) /\ To({"stored"})
  BY <1>1 DEF StoreObject, Becomes, Ops
<1>7. StoreBatch(c) => From({"batchIn"}) /\ To({"stored"})
  BY <1>1 DEF StoreBatch, Becomes, Ops
<1>8. FetchWritable(c) => From({"fetchW"}) /\ To({"fetchA", "fetched"})
  BY <1>1, SMT DEF FetchWritable, Found, Becomes, Ops
<1>9. FetchArchive(c) => From({"fetchA"}) /\ To({"check", "fetched"})
  BY <1>1, SMT DEF FetchArchive, Found, Becomes, Ops
<1>10. CheckPair(c) => From({"check"}) /\ To({"forward", "fetched"})
  BY <1>1 DEF CheckPair, Becomes, Ops
<1>11. EnterMaintenance(c) => \/ From({"forward"}) /\ To({"forwarding"})
                              \/ From({"copyWait"}) /\ To({"copyIn"})
  BY <1>1 DEF EnterMaintenance, Becomes, Ops
<1>12. Forward(c) => From({"forwarding"}) /\ To({"fetched"})
  BY <1>1 DEF Forward, Becomes, Ops
<1>13. CopyRead(c) => From({"copyRead"}) /\ To({"copyWait"})
  BY <1>1 DEF CopyRead, Becomes, Ops
<1>14. CopyCommit(c) => From({"copyIn"}) /\ To({"copyRead", "copied"})
  BY <1>1, ZenonT(30) DEF CopyCommit, Drops, Becomes, Ops
<1>15. SwapPair(c) => From({"rotate"}) /\ To({"drop"})
  BY <1>1 DEF SwapPair, Becomes, Ops
<1>16. DropOld(c) => From({"drop"}) /\ To({"rotated"})
  BY <1>1 DEF DropOld, Drops, Becomes, Idle
<1>17. ExportWritable(c) => From({"exporting"}) /\ To({"exportA"})
  BY <1>1 DEF ExportWritable, Becomes, Ops
<1>18. ExportArchive(c) => From({"exportA"}) /\ To({"exported"})
  BY <1>1 DEF ExportArchive, Becomes, Ops
<1> QED
  BY <1>3, <1>4, <1>5, <1>6, <1>7, <1>8, <1>9, <1>10, <1>11, <1>12, <1>13, <1>14, <1>15, <1>16, <1>17, <1>18
     DEF GoOn, CopyPcs, RotatePcs, ClientPcs, FetchPcs, StorePcs

\* The calls of clients.
LEMMA CallPcs ==
  ASSUME DbTypeOK, NEW c \in Threads, Call(c) \/ Return(c) \/ Sync(c)
  PROVE  op'[c].pc \in ClientPcs \ {"fetched"} /\ \A d \in Threads \ {c} : op'[d] = op[d]
<1>1. DOMAIN op = Threads
  BY DEF DbTypeOK
<1> USE <1>1 DEF Becomes, Capture, Drops, Idle, ClientPcs, FetchPcs, StorePcs
<1>2. CASE Return(c) \/ Sync(c)
  BY <1>2, SMT DEF Return, Sync
<1>3. CASE \E x \in Objects : StartStore(c, x)
  BY <1>3 DEF StartStore
<1>4. CASE \E x \in Objects, dup \in BOOLEAN : StartFetch(c, x, dup)
  BY <1>4 DEF StartFetch
<1>5. CASE \E X \in SUBSET Objects : StartBatch(c, X)
  BY <1>5 DEF StartBatch
<1>6. CASE StartExport(c)
  BY <1>6 DEF StartExport
<1> QED BY <1>2, <1>3, <1>4, <1>5, <1>6 DEF Call

\* Where a step of the worker leaves its call and its snapshot.
LEMMA StoreStepPcs ==
  ASSUME DbTypeOK, CtlTypeOK, Coupled, StoreStep
  PROVE  /\ wk.pc \notin IdlePcs /\ wk'.seq = wk.seq /\ \A d \in Clients : op'[d] = op[d]
         /\ \/ /\ wk'.pc \in {"visit", "merge", "freshenKeys", "swap"} /\ op'[Worker] = Idle
               /\ wk'.pc = "swap" => PrepareRotation
            \/ wk'.pc = "copying" /\ op'[Worker].pc \in {"copyRead", "batchWait"}
            \/ wk'.pc = "freshening" /\ op'[Worker].pc = "copyRead"
            \/ wk'.pc = "rotating" /\ op'[Worker].pc = "rotate" /\ RotateBackends
<1>1. wk \in Snapshots /\ Worker \in Threads /\ DOMAIN op = Threads /\ Clients = Threads \ {Worker}
  BY WorkerFacts DEF DbTypeOK, Clients
<1>2. \A pc : [wk EXCEPT !.pc = pc].pc = pc /\ [wk EXCEPT !.pc = pc].seq = wk.seq
  BY <1>1 DEF Snapshots
<1>3. BatchDone => wk'.pc = "visit" /\ wk'.seq = wk.seq
  BY <1>1 DEF Snapshots, BatchDone
<1>4. ASSUME Drops(Worker, Idle)
      PROVE  op'[Worker] = Idle /\ \A d \in Clients : op'[d] = op[d]
  BY <1>1, <1>4 DEF Drops, Becomes
<1>5. ASSUME NEW X, StartCopy(Worker, X)
      PROVE  op'[Worker].pc = "copyRead" /\ \A d \in Clients : op'[d] = op[d]
  BY <1>1, <1>5 DEF StartCopy, Capture, Becomes, Idle
<1>6. ASSUME NEW X, StartBatch(Worker, X)
      PROVE  op'[Worker].pc = "batchWait" /\ \A d \in Clients : op'[d] = op[d]
  BY <1>1, <1>6 DEF StartBatch, Becomes, Idle
<1>7. CASE CopyBatch
  <2>1. PICK X : wk' = [wk EXCEPT !.pc = "copying", !.batch = X] /\ StartCopy(Worker, X) /\ wk.pc = "visit"
    BY <1>7 DEF CopyBatch
  <2> QED BY <1>1, <1>5, <2>1 DEF Snapshots, IdlePcs
<1>8. CASE BatchCopied
  BY <1>3, <1>4, <1>6, <1>8 DEF BatchCopied, Return, IdlePcs
<1>9. CASE BatchRescued
  BY <1>3, <1>4, <1>9 DEF BatchRescued, Return, IdlePcs
<1>10. CASE CopyFails
  BY <1>2, <1>4, <1>10 DEF CopyFails, Fail, Goes, IdlePcs
<1>11. CASE FreshenBatch
  <2>1. PICK X : /\ wk' = [wk EXCEPT !.pc = "freshening", !.batch = X] /\ StartCopy(Worker, X)
                 /\ wk.pc = "freshenKeys"
    BY <1>11 DEF FreshenBatch
  <2> QED BY <1>1, <1>5, <2>1 DEF Snapshots, IdlePcs
<1>12. CASE Freshened
  BY <1>1, <1>4, <1>12 DEF Freshened, Return, Snapshots, IdlePcs
<1>13. CASE PrepareRotation
  <2>1. op' = op /\ op[Worker] = Idle /\ wk.pc = "prepare"
    BY <1>13 DEF PrepareRotation, QuietPcs, Coupled
  <2>2. wk'.seq = wk.seq /\ wk'.pc \in {"merge", "swap"}
    BY <1>1, <1>2, <1>13 DEF PrepareRotation, Fail, Goes, Snapshots
  <2> QED BY <1>13, <2>1, <2>2 DEF IdlePcs
<1>14. CASE RotateBackends
  BY <1>1, <1>2, <1>14 DEF RotateBackends, StartRotate, Becomes, Idle, Goes, IdlePcs
<1>15. CASE PersistState
  BY <1>1, <1>2, <1>4, <1>15 DEF PersistState, Fail, Goes, IdlePcs, Snapshots
<1> QED
  BY <1>7, <1>8, <1>9, <1>10, <1>11, <1>12, <1>13, <1>14, <1>15 DEF StoreStep

\* The steps of the worker that leave the store alone.
LEMMA QuietStepPcs ==
  ASSUME DbTypeOK, CtlTypeOK, Coupled, QuietStep
  PROVE  /\ wk.pc \in QuietPcs /\ wk'.pc \in QuietPcs \ {"swap", "decide"}
         /\ wk'.seq = wk.seq /\ wk'.new = wk.new
         /\ UNCHANGED <<dbRest, shared, pinned>>
         /\ wk'.pc = "refresh" => wk.pc = "decide" /\ wk'.last = wk.last
         /\ wk'.pc = "clear" => wk.pc = "refresh" /\ Ready(wk.seq, wk.last, can.atomic)
         /\ wk'.pc = "visit" => wk.pc = "copy" /\ wk'.todo = wk.todo
         /\ wk'.pc = "copy" => wk'.todo = StateMap[wk.seq]
         /\ wk'.pc = "window" => wk.pc = "visit" /\ wk.todo = {}
         /\ wk'.pc = "freshen" => wk.pc = "window"
         /\ wk'.pc = "freshenKeys" => wk.pc = "freshen"
         /\ wk'.pc = "prepare" => wk.pc = "freshenKeys"
         /\ durable' # durable => durable' = [durable EXCEPT !.last = wk.last]
<1>1. wk \in Snapshots
  BY WorkerFacts
<1> USE <1>1 DEF Snapshots, Finish, Fail, Goes, QuietPcs, dbVars, dbRest
<1>2. CASE Decide
  BY <1>2, ZenonT(60) DEF Decide
<1>3. CASE SaveFirst
  BY <1>3 DEF SaveFirst
<1>4. CASE GiveUp
  BY <1>4 DEF GiveUp
<1>5. CASE RefreshPolicy
  BY <1>5, ZenonT(60) DEF RefreshPolicy
<1>6. CASE ClearPrior
  BY <1>6 DEF ClearPrior
<1>7. CASE StartVisit
  BY <1>7 DEF StartVisit
<1>8. CASE MissingNode
  BY <1>8 DEF MissingNode
<1>9. CASE CopyDone
  BY <1>9 DEF CopyDone
<1>10. CASE OpenWindow
  BY <1>10 DEF OpenWindow
<1>11. CASE StartFreshen
  BY <1>11 DEF StartFreshen
<1>12. CASE FreshenDone
  BY <1>12 DEF FreshenDone
<1> QED
  BY <1>2, <1>3, <1>4, <1>5, <1>6, <1>7, <1>8, <1>9, <1>10, <1>11, <1>12 DEF QuietStep

\* The other actions leave the store as it is, except the end of the process
\* and a restart, and move the worker only in its loop.
LEMMA OutsidePcs ==
  ASSUME DbTypeOK, CtlTypeOK, Coupled, OutsideActions, ~Crash, ~Exit, ~Restart
  PROVE  /\ UNCHANGED <<dbVars, pinned>>
         /\ \/ UNCHANGED wk
            \/ /\ op[Worker] = Idle /\ UNCHANGED mode /\ mode = "up"
               /\ wk'.pc \in IdlePcs \cup {"decide"} /\ (wk'.pc = "decide" => wk'.seq \in Seqs)
         /\ mode' = mode \/ (mode = "down" /\ mode' = "refused")
         /\ durable' # durable => \E c \in Policies : durable' = [durable EXCEPT !.can = c]
<1>1. wk \in Snapshots
  BY DEF CtlTypeOK
<1>2. wk.pc \in IdlePcs \cup {"merge"} => op[Worker] = Idle
  BY DEF Coupled, QuietPcs
<1>3. \A pc : [wk EXCEPT !.pc = pc].pc = pc
  BY <1>1 DEF Snapshots
<1>4. Parked.pc = "check"
  BY DEF Parked
<1>5. CASE OnLedgerClosed \/ Notify \/ StopStep \/ PublishCanDelete \/ Refuse
  BY <1>5 DEF OnLedgerClosed, Notify, StopStep, PublishCanDelete, Refuse
<1>6. CASE \E c \in Policies : SetCanDelete(c)
  BY <1>6 DEF SetCanDelete
<1>7. CASE mode = "up" /\ (CheckWork \/ WakeUp \/ TestStop \/ Spurious)
  <2>1. wk.pc \in IdlePcs /\ UNCHANGED <<dbVars, pinned, mode, durable>>
    BY <1>7 DEF CheckWork, WakeUp, TestStop, Spurious, IdlePcs
  <2>2. \E pc \in {"check", "woken", "wait", "exited", "take"} : Goes(pc)
    BY <1>7 DEF CheckWork, WakeUp, TestStop, Spurious
  <2>3. wk'.pc \in IdlePcs
    BY <1>3, <2>2 DEF Goes, IdlePcs
  <2> QED BY <1>2, <1>7, <2>1, <2>3 DEF IdlePcs
<1>8. CASE mode = "up" /\ TakeLedger
  <2>1. queued # 0 => queued \in Seqs
    BY DEF CtlTypeOK
  <2>2. wk' = Parked \/ (wk'.pc = "decide" /\ wk'.seq \in Seqs)
    BY <1>8, <2>1 DEF TakeLedger, Parked
  <2> QED BY <1>2, <1>4, <1>8, <2>2 DEF TakeLedger, IdlePcs
<1>9. CASE mode = "up" /\ Merge
  BY <1>2, <1>4, <1>9 DEF Merge, IdlePcs
<1> QED
  BY <1>5, <1>6, <1>7, <1>8, <1>9 DEF OutsideActions, Loop

\* The call that the worker is in is the one its program counter says.
LEMMA CoupledIsPreserved ==
  ASSUME DbTypeOK, CtlTypeOK, Coupled, OdNext
  PROVE  Coupled'
<1>1. CASE Crash \/ Exit
  <2>1. Worker \in Threads /\ Clients \subseteq Threads
    BY DeleteAssumption DEF Clients
  <2>2. wk' = Parked /\ doomed' = {} /\ op' = [c \in Threads |-> Idle]
    BY <1>1 DEF Crash, Exit, ProcessEnds
  <2> QED BY <2>1, <2>2 DEF Coupled, Parked, Idle, IdlePcs, ClientPcs
<1>2. CASE Restart
  BY <1>2 DEF Restart, Coupled
<1>3. CASE OutsideActions /\ ~Crash /\ ~Exit /\ ~Restart
  <2>1. UNCHANGED dbVars
    BY <1>3, OutsidePcs
  <2>2. CASE UNCHANGED wk
    BY <1>3, <2>1, <2>2, OutsidePcs DEF Coupled, dbVars
  <2>3. CASE /\ op[Worker] = Idle /\ UNCHANGED mode /\ mode = "up"
             /\ wk'.pc \in IdlePcs \cup {"decide"} /\ (wk'.pc = "decide" => wk'.seq \in Seqs)
    BY <2>1, <2>3 DEF Coupled, dbVars, IdlePcs, QuietPcs
  <2> QED BY <1>3, <2>2, <2>3, OutsidePcs
<1>4. CASE mode = "up" /\ QuietStep
  <2>1. op' = op /\ mode' = mode /\ wk.pc \in QuietPcs /\ wk'.pc \in QuietPcs /\ wk'.seq = wk.seq
    BY <1>4, QuietStepPcs DEF dbRest, shared
  <2> QED BY <1>4, <2>1 DEF Coupled, QuietPcs, IdlePcs
<1>5. CASE mode = "up" /\ StoreStep
  <2>1. mode' = "up"
    BY <1>5 DEF StoreStep, CopyBatch, BatchCopied, BatchRescued, CopyFails, FreshenBatch, Freshened,
                PrepareRotation, RotateBackends, PersistState, shared
  <2>2. wk'.seq \in Seqs /\ \A d \in Clients : op'[d].pc \in ClientPcs
    BY <1>5, StoreStepPcs DEF Coupled
  <2> QED BY <1>5, <2>1, <2>2, StoreStepPcs DEF Coupled, IdlePcs, QuietPcs, CopyPcs, RotatePcs
<1>6. CASE InStep
  <2>1. Worker \in Threads /\ GoOn(Worker) /\ wk' = wk /\ mode' = mode /\ mode = "up"
    BY <1>6, DeleteAssumption DEF InStep, InStore, shared
  <2>2. \A d \in Clients : op'[d] = op[d]
    BY <2>1, GoOnPcs DEF Clients
  <2>3. op[Worker] # Idle
    BY <2>1, GoOnPcs, SMT DEF Idle
  <2>4. wk.pc \notin IdlePcs \cup QuietPcs
    BY <2>3 DEF Coupled
  <2>5. wk.pc = "copying" => op'[Worker].pc \in CopyPcs \cup {"batchWait", "batchIn", "stored"}
    BY <2>1, GoOnPcs DEF Coupled
  <2>6. wk.pc = "freshening" => op'[Worker].pc \in CopyPcs
    BY <2>1, GoOnPcs DEF Coupled
  <2>7. wk.pc = "rotating" => op'[Worker].pc \in RotatePcs
    BY <2>1, GoOnPcs DEF Coupled, RotatePcs
  <2> QED BY <2>1, <2>2, <2>4, <2>5, <2>6, <2>7 DEF Coupled
<1>7. CASE ClientStep
  <2>1. PICK c \in Clients : Client(c)
    BY <1>7 DEF ClientStep
  <2>2. c \in Threads /\ c # Worker /\ Worker \in Threads /\ mode = "up" /\ wk' = wk /\ mode' = mode
    BY <1>7, <2>1, DeleteAssumption DEF Clients, ClientStep, Client, ctlVars
  <2>3. op'[c].pc \in ClientPcs /\ \A d \in Threads \ {c} : op'[d] = op[d]
    BY <2>1, <2>2, GoOnPcs, CallPcs DEF Client, ThreadStep, Coupled
  <2> QED BY <2>2, <2>3 DEF Coupled, Clients
<1>8. CASE QueueStep
  BY <1>8 DEF QueueStep, WriteQueued, ctlVars, Coupled
<1> QED BY <1>1, <1>2, <1>3, <1>4, <1>5, <1>6, <1>7, <1>8, KindsOfStep
-----------------------------------------------------------------------------
(* The flags.                                                              *)

\* The flags of the snapshot agree with the queue, the policy and the mode.
LEMMA AccountedIsPreserved ==
  ASSUME DbTypeOK, CtlTypeOK, Coupled, Accounted, OdNext
  PROVE  Accounted'
<1>1. wk \in Snapshots
  BY DEF CtlTypeOK
<1>2. \A pc : [wk EXCEPT !.pc = pc].pc = pc /\ [wk EXCEPT !.pc = pc].last = wk.last
  BY <1>1 DEF Snapshots
<1>3. Parked.pc = "check"
  BY DEF Parked
<1>4. CASE Crash \/ Exit
  BY <1>3, <1>4 DEF Crash, Exit, ProcessEnds, Accounted
<1>5. CASE Restart
  <2>1. /\ wk' = Parked /\ queued' = 0 /\ can'.atomic = durable'.can /\ can'.setting = FALSE
        /\ mode' = "up"
    BY <1>5 DEF Restart, Coupled, Accounted
  <2> QED BY <1>3, <2>1 DEF Accounted, IdlePcs
<1>6. CASE Refuse
  BY <1>6 DEF Refuse, Accounted, Saved, dbVars
<1>7. CASE mode = "up" /\ (OnLedgerClosed \/ Notify \/ StopStep)
  BY <1>7 DEF OnLedgerClosed, Notify, StopStep, Accounted
<1>8. CASE mode = "up" /\ \E c \in Policies : SetCanDelete(c)
  <2>1. can.setting = FALSE /\ can.atomic = durable.can
    BY <1>8 DEF SetCanDelete, storeFree, Accounted, CtlTypeOK
  <2>2. PICK c \in Policies : SetCanDelete(c)
    BY <1>8
  <2>3. /\ \/ can'.setting = TRUE /\ can'.store = c /\ durable'.can = c
           \/ can'.setting = FALSE /\ can'.atomic = can.atomic /\ durable' = durable
        /\ UNCHANGED <<mode, wk, queued, working, last>>
    BY <2>1, <2>2 DEF SetCanDelete, CtlTypeOK
  <2> QED BY <1>8, <2>1, <2>3 DEF Accounted
<1>9. CASE mode = "up" /\ (CheckWork \/ WakeUp \/ Spurious \/ TestStop)
  <2>1. wk.pc \in IdlePcs /\ wk.pc # "exited" /\ UNCHANGED <<mode, queued, last, can, durable>>
    BY <1>9 DEF CheckWork, WakeUp, Spurious, TestStop, IdlePcs
  <2>2. \/ wk'.pc \in {"check", "woken", "wait", "take"} /\ working' = working
        \/ wk'.pc = "exited"
    BY <1>2, <1>9 DEF CheckWork, WakeUp, Spurious, TestStop, Goes
  <2> QED BY <1>9, <2>1, <2>2 DEF Accounted, IdlePcs
<1>10. CASE mode = "up" /\ TakeLedger
  <2>1. wk' = Parked \/ (queued # 0 /\ wk'.pc = "decide" /\ wk'.last = last)
    BY <1>10 DEF TakeLedger, Parked
  <2> QED BY <1>3, <1>10, <2>1 DEF TakeLedger, Accounted, IdlePcs
<1>11. CASE mode = "up" /\ Merge
  BY <1>3, <1>11 DEF Merge, Accounted, IdlePcs
<1>12. CASE mode = "up" /\ QuietStep
  <2>1. /\ UNCHANGED <<mode, queued, working, last, can>> /\ durable'.can = durable.can
        /\ wk.pc \in QuietPcs /\ wk'.pc \in QuietPcs \ {"decide"}
        /\ wk'.pc = "refresh" => wk.pc = "decide" /\ wk'.last = wk.last
    BY <1>12, QuietStepPcs DEF shared, CtlTypeOK
  <2> QED BY <1>12, <2>1 DEF Accounted, QuietPcs, IdlePcs
<1>13. CASE mode = "up" /\ StoreStep
  <2>1. UNCHANGED <<mode, queued, working, last, can>> /\ durable'.can = durable.can
    BY <1>13 DEF StoreStep, CopyBatch, BatchCopied, BatchRescued, CopyFails, FreshenBatch, Freshened,
                 PrepareRotation, RotateBackends, PersistState, shared, CtlTypeOK
  <2>2. wk.pc \notin IdlePcs /\ wk'.pc \notin {"decide", "refresh"}
    BY <1>13, StoreStepPcs
  <2> QED BY <1>13, <2>1, <2>2 DEF Accounted, IdlePcs
<1>14. CASE InStep \/ ClientStep \/ QueueStep
  <2>1. mode = "up" /\ UNCHANGED <<mode, queued, working, last, can, durable, wk>>
    BY <1>14 DEF InStep, InStore, ClientStep, Client, QueueStep, ctlVars, shared
  <2> QED BY <2>1 DEF Accounted
<1>15. CASE mode = "up" /\ PublishCanDelete
  <2>1. /\ can'.atomic = can.store /\ can'.setting = FALSE /\ can.setting
        /\ UNCHANGED <<mode, wk, queued, working, last, durable>>
    BY <1>15 DEF PublishCanDelete, CtlTypeOK
  <2> QED BY <1>15, <2>1 DEF Accounted
<1> QED
  BY <1>4, <1>5, <1>6, <1>7, <1>8, <1>9, <1>10, <1>11, <1>12, <1>13, <1>14, <1>15, KindsOfStep
     DEF OutsideActions, Loop

(* The store.                                                              *)

\* A step that leaves the store alone.
LEMMA StutterIsTame ==
  ASSUME DbTypeOK, Held, NEW c \in Threads, UNCHANGED <<dbRest, backend>>
  PROVE  Tame(c)
<1>1. /\ dirs' = dirs /\ disk' = disk /\ burst' = burst /\ pair' = pair /\ doomed' = doomed /\ op' = op
      /\ backend' = backend
  BY DEF dbRest
<1>2. \A b : Kept(b)' = Kept(b)
  BY <1>1 DEF Kept, NuDB
<1> QED BY <1>1, <1>2 DEF Tame, Held

\* The end of the process leaves the backends with what they had, or more.
LEMMA EndKeeps ==
  ASSUME DbTypeOK, Crash \/ Exit
  PROVE  /\ ProcessEnds
         /\ \A b \in Names : /\ disk[b] \subseteq disk'[b] /\ Kept(b) \subseteq Kept(b)'
                             /\ burst[b] = {} => disk'[b] = disk[b] /\ burst'[b] = burst[b]
<1>1. ProcessEnds /\ backend' = backend
  BY DEF Crash, Exit, ProcessEnds
<1>2. CASE UNCHANGED <<disk, burst>>
  <2>1. \A b : Kept(b)' = Kept(b)
    BY <1>1, <1>2 DEF Kept, NuDB
  <2> QED BY <1>1, <1>2, <2>1
<1>3. CASE Settle({pair.w, pair.a})
  BY <1>1, <1>3, SettleDoes
<1> QED BY <1>2, <1>3 DEF Crash, Exit

\* The steps of the worker that touch the store, but for the new directory.
LEMMA StoreStepIsTame ==
  ASSUME DbTypeOK, CtlTypeOK, Coupled, Held, CallsOK, NextIsFresh, StoreStep, ~PrepareRotation, DbTypeOK'
  PROVE  Tame(Worker) /\ CallOK(op[Worker])'
<1>0. backend' = backend
  BY DEF StoreStep, CopyBatch, BatchCopied, BatchRescued, CopyFails, FreshenBatch, Freshened,
         PrepareRotation, RotateBackends, PersistState, shared
<1>1. /\ Worker \in Threads /\ wk.todo \in SUBSET Objects /\ op[Worker].lost \in SUBSET Objects
  BY WorkerFacts
<1>2. ASSUME \/ \E X \in SUBSET Objects : StartCopy(Worker, X) \/ StartBatch(Worker, X)
             \/ Return(Worker) \/ (Drops(Worker, Idle) /\ pair' = pair)
      PROVE  Tame(Worker) /\ CallOK(op[Worker])'
  BY <1>0, <1>1, <1>2, CallsAreTame, OwnCall
<1>3. CASE CopyBatch
  <2>1. \E X \in SUBSET Objects : StartCopy(Worker, X)
    BY <1>1, <1>3 DEF CopyBatch
  <2> QED BY <1>2, <2>1
<1>4. CASE BatchCopied
  BY <1>1, <1>2, <1>4 DEF BatchCopied
<1>5. CASE BatchRescued \/ Freshened
  BY <1>2, <1>5 DEF BatchRescued, Freshened
<1>6. CASE CopyFails \/ PersistState
  BY <1>2, <1>6 DEF CopyFails, PersistState
<1>7. CASE FreshenBatch
  <2>1. \E X \in SUBSET Objects : StartCopy(Worker, X)
    BY <1>1, <1>7 DEF FreshenBatch
  <2> QED BY <1>2, <2>1
<1>8. CASE RotateBackends
  <2>1. Unknown(wk.new)
    BY <1>8 DEF RotateBackends, NextIsFresh
  <2>2. wk.new \in dirs /\ wk.new \in Names
    BY <2>1 DEF Unknown, DbTypeOK
  <2>3. op' = [op EXCEPT ![Worker] = [Idle EXCEPT !.pc = "rotate", !.t = wk.new, !.flag = inFlight]]
    BY <1>8 DEF RotateBackends, StartRotate, Becomes
  <2>4. /\ dirs' = dirs /\ disk' = disk /\ burst' = burst /\ pair' = pair /\ doomed' = doomed
        /\ \A b : Kept(b)' = Kept(b)
    BY <1>0, <1>8 DEF RotateBackends, StartRotate, Kept, NuDB
  <2>5. op'[Worker].pc = "rotate" /\ op'[Worker].t = wk.new /\ NamesOf(op'[Worker]) \subseteq {wk.new}
    BY <1>1, <2>3 DEF Idle, NamesOf, DbTypeOK
  <2>6. \A d \in Threads \ {Worker} : op'[d] = op[d]
    BY <2>3 DEF DbTypeOK
  <2>7. Tame(Worker)
    BY <1>0, <2>2, <2>4, <2>5, <2>6 DEF Tame, Held
  <2>8. CallOK(op[Worker])'
    BY <2>2, <2>5 DEF CallOK, FetchPcs, CopyPcs
  <2> QED BY <2>7, <2>8
<1> QED BY <1>3, <1>4, <1>5, <1>6, <1>7, <1>8 DEF StoreStep

\* A directory is made for the next rotation.
LEMMA PrepareKeeps ==
  ASSUME DbTypeOK, CtlTypeOK, Coupled, Held, CallsOK, PrepareRotation
  PROVE  Held' /\ CallsOK' /\ NextIsFresh'
<1>1. /\ op' = op /\ disk' = disk /\ burst' = burst /\ pair' = pair /\ doomed' = doomed
      /\ wk.pc = "prepare"
      /\ wk \in Snapshots /\ op[Worker] = Idle
  BY DEF PrepareRotation, Coupled, QuietPcs, CtlTypeOK
<1>2. CallsOK'
  BY <1>1 DEF CallsOK, CallOK
<1>3. CASE dirs' = dirs /\ Fail
  <2>1. wk'.pc = "merge"
    BY <1>1, <1>3 DEF Fail, Goes, Snapshots
  <2> QED BY <1>1, <1>2, <1>3, <2>1, SMT DEF Held, NextIsFresh, Idle
<1>4. CASE MakeBackend /\ wk' = [wk EXCEPT !.pc = "swap", !.new = NewName]
  <2>1. NewName \in Names \ dirs /\ dirs' = dirs \cup {NewName}
    BY <1>4, NameIsUnused DEF MakeBackend
  <2>2. Held'
    BY <1>1, <2>1 DEF Held
  <2>3. wk'.new = NewName
    BY <1>1, <1>4 DEF Snapshots
  <2>4. Unknown(wk.new)'
    BY <1>1, <2>1, <2>3 DEF Unknown, Held, Clients
  <2> QED BY <1>1, <1>2, <2>2, <2>4, SMT DEF NextIsFresh, Idle
<1> QED BY <1>3, <1>4 DEF PrepareRotation

\* What the calls hold stays there, and the next backend stays unknown to
\* everybody else, through every action.
LEMMA StoreIsPreserved ==
  ASSUME DbTypeOK, CtlTypeOK, Coupled, Held, CallsOK, NextIsFresh, Noted, OdNext, DbTypeOK'
  PROVE  Held' /\ CallsOK' /\ NextIsFresh'
<1>1. Worker \in Threads
  BY DeleteAssumption
<1>2. ASSUME NEW c \in Threads, Tame(c), CallOK(op[c])'
      PROVE  Held' /\ CallsOK'
  BY <1>2, TameKeeps DEF CallsOK
<1>3. CASE Crash \/ Exit
  <2>1. /\ dirs' = dirs /\ pair' = pair /\ doomed' = {}
        /\ op' = [c \in Threads |-> Idle] /\ wk' = Parked
    BY <1>3, EndKeeps DEF ProcessEnds
  <2>2. NamesOf(Idle) = {}
    BY DEF Idle, NamesOf
  <2>3. \A b \in Names \ dirs : disk'[b] = {} /\ burst'[b] = {}
    BY <1>3, EndKeeps DEF Held
  <2>4. Held'
    BY <2>1, <2>2, <2>3 DEF Held
  <2>5. CallsOK'
    BY <2>1 DEF CallsOK, CallOK, Idle, FetchPcs, CopyPcs
  <2> QED BY <1>1, <2>1, <2>4, <2>5 DEF NextIsFresh, Parked, Idle
<1>4. CASE Restart
  <2>1. doomed = {} /\ wk = Parked /\ \A c \in Threads : op[c] = Idle
    BY <1>4 DEF Restart, Coupled
  <2>2. /\ dirs' = Saved /\ pair' = [w |-> durable.w, a |-> durable.a] /\ doomed' = {} /\ op' = op
        /\ wk' = wk /\ disk' = [b \in Names |-> IF b \in Saved THEN Kept(b) ELSE {}]
        /\ burst' = [b \in Names |-> {}]
    BY <1>4, <2>1 DEF Restart
  <2>3. NamesOf(Idle) = {}
    BY DEF Idle, NamesOf
  <2>4. Held'
    BY <2>1, <2>2, <2>3 DEF Held, Noted, Saved
  <2>5. CallsOK'
    BY <2>1, <2>2, SMT DEF CallsOK, CallOK, Idle, FetchPcs, CopyPcs
  <2> QED BY <1>1, <2>1, <2>2, <2>4, <2>5, SMT DEF NextIsFresh, Parked, Idle
<1>5. CASE UNCHANGED dbRest /\ (wk'.pc = "swap" => wk' = wk)
  <2>1. dirs' = dirs /\ disk' = disk /\ burst' = burst /\ pair' = pair /\ doomed' = doomed /\ op' = op
    BY <1>5 DEF dbRest
  <2>2. Held'
    BY <2>1 DEF Held
  <2>3. CallsOK'
    BY <2>1 DEF CallsOK, CallOK
  <2>4. NextIsFresh'
    BY <1>5, <2>1 DEF NextIsFresh, Unknown
  <2> QED BY <2>2, <2>3, <2>4
<1>6. CASE OutsideActions /\ ~Crash /\ ~Exit /\ ~Restart
  BY <1>5, <1>6, OutsidePcs DEF dbVars, dbRest, IdlePcs
<1>7. CASE QuietStep
  BY <1>5, <1>7, QuietStepPcs
<1>8. CASE StoreStep
  <2>1. CASE PrepareRotation
    BY <2>1, PrepareKeeps
  <2>2. CASE ~PrepareRotation
    <3>1. Held' /\ CallsOK'
      BY <1>1, <1>2, <1>8, <2>2, StoreStepIsTame
    <3>2. wk'.pc # "swap"
      BY <1>8, <2>2, StoreStepPcs
    <3>3. op'[Worker].pc = "rotate" => RotateBackends
      BY <1>8, StoreStepPcs, SMT DEF Idle
    <3>4. RotateBackends => Unknown(op[Worker].t)'
      <4>1. SUFFICES ASSUME RotateBackends PROVE Unknown(op[Worker].t)'
        OBVIOUS
      <4>2. /\ Unknown(wk.new) /\ dirs' = dirs /\ disk' = disk /\ burst' = burst /\ pair' = pair
            /\ doomed' = doomed
        BY <4>1 DEF RotateBackends, StartRotate, NextIsFresh
      <4>3. op' = [op EXCEPT ![Worker] = [Idle EXCEPT !.pc = "rotate", !.t = wk.new, !.flag = inFlight]]
        BY <4>1 DEF RotateBackends, StartRotate, Becomes
      <4>4. op'[Worker].t = wk.new /\ \A d \in Clients : op'[d] = op[d]
        BY <1>1, <4>3 DEF Idle, Clients, DbTypeOK
      <4> QED BY <4>2, <4>4 DEF Unknown
    <3> QED BY <3>1, <3>2, <3>3, <3>4 DEF NextIsFresh
  <2> QED BY <2>1, <2>2
<1>9. CASE InStep
  <2>1. GoOn(Worker) /\ wk' = wk /\ backend' = backend
    BY <1>9 DEF InStep, InStore, shared
  <2>2. op[Worker] # Idle /\ op'[Worker].pc # "rotate"
    BY <1>1, <2>1, GoOnPcs, SMT DEF Idle
  <2>3. wk.pc # "swap"
    BY <2>2 DEF Coupled, QuietPcs
  <2>4. NextIsFresh'
    BY <2>1, <2>2, <2>3 DEF NextIsFresh
  <2>5. CASE op[Worker].pc = "rotate"
    <3>1. SwapPair(Worker)
      BY <2>1, <2>5 DEF GoOn, EnterForeground, Waiting, At, TakeWritable, StoreObject, StoreBatch,
         FetchWritable, FetchArchive, CheckPair, EnterMaintenance, Forward, ExportWritable, ExportArchive,
         CopyRead, CopyCommit, DropOld
    <3> QED BY <3>1, <2>4, SwapKeeps
  <2>6. CASE op[Worker].pc # "rotate"
    BY <1>1, <1>2, <2>1, <2>4, <2>6, GoOnIsTame, OwnGoOn
  <2> QED BY <2>5, <2>6
<1>10. CASE ClientStep
  <2>1. PICK c \in Clients : Client(c)
    BY <1>10 DEF ClientStep
  <2>2. c \in Threads /\ c # Worker /\ wk' = wk /\ op[c].pc \in ClientPcs
    BY <2>1 DEF Clients, Client, ctlVars, Coupled
  <2>3. Tame(c) /\ CallOK(op[c])'
    BY <2>1, <2>2, GoOnIsTame, OwnGoOn, CallsAreTame, OwnCall
       DEF Client, ThreadStep, ClientPcs, FetchPcs, StorePcs
  <2>4. op'[Worker] = op[Worker]
    BY <1>1, <2>2, <2>3 DEF Tame
  <2>5. /\ wk.pc = "swap" => wk.new \in Names
        /\ op[Worker].pc = "rotate" => op[Worker].t \in Names
    BY DEF NextIsFresh, Unknown, DbTypeOK
  <2>6. NextIsFresh'
    BY <2>2, <2>3, <2>4, <2>5, TameKeeps DEF NextIsFresh
  <2> QED BY <1>2, <2>2, <2>3, <2>6
<1>11. CASE QueueStep
  <2>1. Tame(Worker) /\ op' = op /\ wk' = wk
    BY <1>11, QueueIsTame DEF QueueStep, WriteQueued, ctlVars
  <2>2. /\ wk.pc = "swap" => wk.new \in Names
        /\ op[Worker].pc = "rotate" => op[Worker].t \in Names
    BY DEF NextIsFresh, Unknown, DbTypeOK
  <2>3. NextIsFresh'
    BY <1>11, <2>1, <2>2, QueueIsTame DEF NextIsFresh
  <2>4. CallOK(op[Worker])'
    BY <1>1, <2>1, TameCall DEF CallsOK
  <2> QED BY <1>1, <1>2, <2>1, <2>3, <2>4
<1> QED BY <1>3, <1>4, <1>6, <1>7, <1>8, <1>9, <1>10, <1>11, KindsOfStep
-----------------------------------------------------------------------------
(* The copy.                                                               *)

\* Additions to the writable backend do not undo the copy.
LEMMA CopyKept ==
  ASSUME Copied, pair' = pair, op'[Worker] = op[Worker], wk' = wk, disk[pair.w] \subseteq disk'[pair.w]
  PROVE  Copied'
BY DEF Copied, Whole

\* The worker inside a call of the copy.
LEMMA CopyGoesOn ==
  ASSUME DbTypeOK, CtlTypeOK, Coupled, Copied, GoOn(Worker), op[Worker].pc # "rotate", Tame(Worker), wk' = wk
  PROVE  Copied'
<1> DEFINE r == op[Worker]   s == op'[Worker]   D == disk[pair.w]   E == disk'[pair.w]
<1>1. Worker \in Threads /\ r \in Ops /\ DOMAIN op = Threads /\ pair' = pair /\ D \subseteq E
  BY WorkerFacts DEF DbTypeOK, Tame
<1>2. r # Idle /\ s.pc # "rotate"
  BY <1>1, GoOnPcs, SMT DEF Idle
<1>3. wk.pc \in {"copying", "freshening", "rotating"}
  BY <1>2, WorkerFacts DEF Coupled, Snapshots, WkPcs
<1>4. CASE wk.pc = "rotating"
  BY <1>1, <1>2, <1>4, GoOnPcs DEF Coupled, Copied, CopyPcs, RotatePcs
<1>5. CASE wk.pc \in {"copying", "freshening"} /\ r.pc \in CopyPcs
  <2>1. r.w = pair.w /\ r.a = pair.a
    BY <1>5 DEF Copied
  <2>2. ~PairChanged(Worker)
    BY <2>1 DEF PairChanged
  <2>3. /\ wk.pc = "copying" => StateMap[wk.seq] \ wk.todo \subseteq D
        /\ wk.pc = "freshening" => StateMap[wk.seq] \subseteq D
    BY DEF Copied, Whole
  <2>4. ASSUME s.w = pair.w, s.a = pair.a, s.pc \in CopyPcs,
               wk.pc = "copying" =>
                  /\ s.pc # "copyRead"
                  /\ s.pc \in {"copyWait", "copyIn"} => wk.batch \subseteq E \cup s.got \cup s.lost
                  /\ s.pc = "copied" => wk.batch \subseteq E \cup s.lost
        PROVE  Copied'
    BY <1>1, <1>5, <2>3, <2>4 DEF Copied, Whole, CopyPcs
  <2>5. CASE CopyRead(Worker)
    <3>1. s = [r EXCEPT !.pc = "copyWait", !.got = (r.objs \ disk[r.w]) \cap disk[r.a],
                        !.lost = (r.objs \ disk[r.w]) \ disk[r.a]]
      BY <1>1, <2>5 DEF CopyRead, Becomes
    <3>2. /\ s.pc = "copyWait" /\ s.w = r.w /\ s.a = r.a
          /\ s.got = (r.objs \ D) \cap disk[r.a] /\ s.lost = (r.objs \ D) \ disk[r.a]
      BY <1>1, <2>1, <3>1 DEF Ops
    <3>3. wk.pc = "copying" => r.objs = wk.batch
      BY <2>5 DEF CopyRead, Copied
    <3> HIDE DEF r, s, D, E
    <3> QED BY <1>1, <2>1, <2>4, <3>2, <3>3 DEF CopyPcs
  <2>6. CASE EnterMaintenance(Worker)
    <3>1. s = [r EXCEPT !.pc = "copyIn"] /\ r.pc = "copyWait"
      BY <1>1, <1>5, <2>6 DEF EnterMaintenance, Becomes, CopyPcs
    <3>2. s.pc = "copyIn" /\ s.w = r.w /\ s.a = r.a /\ s.got = r.got /\ s.lost = r.lost
      BY <1>1, <3>1 DEF Ops
    <3>3. wk.pc = "copying" => wk.batch \subseteq D \cup r.got \cup r.lost
      BY <3>1 DEF Copied
    <3> HIDE DEF r, s, D, E
    <3> QED BY <1>1, <2>1, <2>4, <3>2, <3>3 DEF CopyPcs
  <2>7. CASE CopyCommit(Worker)
    <3>1. s = [r EXCEPT !.pc = "copied"] /\ r.pc = "copyIn" /\ WriteBatch(pair.w, r.got)
      BY <1>1, <2>2, <2>7 DEF CopyCommit, Becomes
    <3>2. s.pc = "copied" /\ s.w = r.w /\ s.a = r.a /\ s.lost = r.lost
      BY <1>1, <3>1 DEF Ops
    <3>3. E = D \cup r.got
      BY <3>1 DEF WriteBatch, DbTypeOK
    <3>4. wk.pc = "copying" => wk.batch \subseteq D \cup r.got \cup r.lost
      BY <3>1 DEF Copied
    <3> HIDE DEF r, s, D, E
    <3> QED BY <1>1, <2>1, <2>4, <3>2, <3>3, <3>4 DEF CopyPcs
  <2> QED
    BY <1>5, <2>5, <2>6, <2>7 DEF CopyPcs, GoOn, EnterForeground, Waiting, At, TakeWritable, StoreObject,
       StoreBatch, FetchWritable, FetchArchive, CheckPair, Forward, ExportWritable, ExportArchive, SwapPair,
       DropOld
<1>6. CASE wk.pc = "copying" /\ r.pc \in {"batchWait", "batchIn", "stored"}
  <2>1. StateMap[wk.seq] \ wk.todo \subseteq D
    BY <1>6 DEF Copied
  <2>2. ASSUME \/ s.pc = "batchIn" /\ wk.batch \subseteq E \cup s.objs
               \/ s.pc = "stored" /\ wk.batch \subseteq E
        PROVE  Copied'
    BY <1>1, <1>6, <2>1, <2>2 DEF Copied, CopyPcs
  <2>3. CASE EnterForeground(Worker)
    <3>1. s = [r EXCEPT !.pc = "batchIn"] /\ r.pc = "batchWait"
      BY <1>1, <1>6, <2>3 DEF EnterForeground, Waiting, At, Becomes
    <3>2. s.pc = "batchIn" /\ s.objs = r.objs
      BY <1>1, <3>1 DEF Ops
    <3>3. wk.batch \subseteq D \cup r.objs
      BY <1>6, <3>1 DEF Copied
    <3> HIDE DEF r, s, D, E
    <3> QED BY <1>1, <2>2, <3>2, <3>3
  <2>4. CASE StoreBatch(Worker)
    <3>1. s = [r EXCEPT !.pc = "stored"] /\ r.pc = "batchIn" /\ WriteBatch(pair.w, r.objs)
      BY <1>1, <2>4 DEF StoreBatch, Becomes
    <3>2. s.pc = "stored"
      BY <1>1, <3>1 DEF Ops
    <3>3. E = D \cup r.objs
      BY <3>1 DEF WriteBatch, DbTypeOK
    <3>4. wk.batch \subseteq D \cup r.objs
      BY <1>6, <3>1 DEF Copied
    <3> HIDE DEF r, s, D, E
    <3> QED BY <1>1, <2>2, <3>2, <3>3, <3>4
  <2> QED
    BY <1>6, <2>3, <2>4 DEF GoOn, TakeWritable, StoreObject, FetchWritable, FetchArchive,
       CheckPair, EnterMaintenance, Forward, ExportWritable, ExportArchive, CopyRead, CopyCommit, SwapPair,
       DropOld
<1> QED BY <1>3, <1>4, <1>5, <1>6 DEF Coupled

\* The worker between its calls.
LEMMA CopyStep ==
  ASSUME DbTypeOK, CtlTypeOK, Coupled, Held, Copied, StoreStep, PrepareRotation \/ Tame(Worker)
  PROVE  Copied'
<1> DEFINE D == disk[pair.w]   E == disk'[pair.w]
<1>1. /\ Worker \in Threads /\ DOMAIN op = Threads /\ wk \in Snapshots /\ pair' = pair /\ D \subseteq E
  BY WorkerFacts DEF DbTypeOK, Tame, PrepareRotation
<1>2. wk'.seq = wk.seq
  BY StoreStepPcs
<1>3. ASSUME wk'.pc = "merge", op'[Worker] = Idle
      PROVE  Copied'
  BY <1>3, SMT DEF Copied, Idle, CopyPcs
<1>4. ASSUME Whole, wk'.pc \in {"freshenKeys", "freshening", "swap", "rotating"},
             op'[Worker].pc \in CopyPcs => op'[Worker].w = pair.w /\ op'[Worker].a = pair.a
      PROVE  Copied'
  BY <1>1, <1>2, <1>4 DEF Copied, Whole
<1>5. ASSUME NEW X, StartCopy(Worker, X)
      PROVE  /\ op'[Worker].pc = "copyRead" /\ op'[Worker].w = pair.w /\ op'[Worker].a = pair.a
             /\ op'[Worker].objs = X
  BY <1>1, <1>5 DEF StartCopy, Capture, Becomes, Idle
<1>6. ASSUME StateMap[wk.seq] \ wk.todo \subseteq D, wk.batch \subseteq E, BatchDone, op'[Worker] = Idle
      PROVE  Copied'
  <2>1. wk'.pc = "visit" /\ wk'.todo = wk.todo \ wk.batch
    BY <1>1, <1>6 DEF BatchDone, Snapshots
  <2> QED BY <1>1, <1>2, <1>6, <2>1, SMT DEF Copied, Idle, CopyPcs
<1>7. Return(Worker) => op'[Worker] = Idle
  BY <1>1 DEF Return, Drops, Becomes
<1>8. CASE CopyBatch
  <2>1. PICK X : wk' = [wk EXCEPT !.pc = "copying", !.batch = X] /\ StartCopy(Worker, X)
    BY <1>8 DEF CopyBatch
  <2>2. wk'.pc = "copying" /\ wk'.todo = wk.todo /\ wk'.batch = X
    BY <1>1, <2>1 DEF Snapshots
  <2>3. StateMap[wk.seq] \ wk.todo \subseteq D
    BY <1>8 DEF CopyBatch, Copied
  <2> QED BY <1>1, <1>2, <1>5, <2>1, <2>2, <2>3 DEF Copied
<1>9. CASE BatchCopied
  <2>1. StateMap[wk.seq] \ wk.todo \subseteq D /\ wk.batch \subseteq D \cup op[Worker].lost
    BY <1>9 DEF BatchCopied, Copied
  <2>2. CASE op[Worker].lost = {}
    BY <1>1, <1>6, <1>7, <1>9, <2>1, <2>2 DEF BatchCopied
  <2>3. CASE op[Worker].lost # {}
    <3>1. op'[Worker] = [Idle EXCEPT !.pc = "batchWait", !.objs = op[Worker].lost] /\ wk' = wk
      BY <1>1, <1>9, <2>3 DEF BatchCopied, StartBatch, Becomes
    <3>2. op'[Worker].pc = "batchWait" /\ op'[Worker].objs = op[Worker].lost /\ wk.pc = "copying"
      BY <1>9, <3>1 DEF Idle, BatchCopied
    <3> QED BY <1>1, <2>1, <3>1, <3>2 DEF Copied, CopyPcs
  <2> QED BY <2>2, <2>3
<1>10. CASE BatchRescued
  <2>1. StateMap[wk.seq] \ wk.todo \subseteq D /\ wk.batch \subseteq D
    BY <1>10 DEF BatchRescued, Copied
  <2> QED BY <1>1, <1>6, <1>7, <1>10, <2>1 DEF BatchRescued
<1>11. CASE CopyFails \/ PersistState
  <2>1. op'[Worker] = Idle
    BY <1>1, <1>11 DEF CopyFails, PersistState, Drops, Becomes
  <2>2. wk'.pc = "merge"
    BY <1>1, <1>11 DEF CopyFails, PersistState, Fail, Goes, Snapshots
  <2> QED BY <1>3, <2>1, <2>2
<1>12. CASE FreshenBatch
  <2>1. PICK X : wk' = [wk EXCEPT !.pc = "freshening", !.batch = X] /\ StartCopy(Worker, X)
    BY <1>12 DEF FreshenBatch
  <2>2. Whole /\ wk'.pc = "freshening"
    BY <1>1, <1>12, <2>1 DEF FreshenBatch, Copied, Snapshots
  <2> QED BY <1>4, <1>5, <2>1, <2>2
<1>13. CASE Freshened
  <2>1. Whole /\ op'[Worker] = Idle /\ wk'.pc = "freshenKeys"
    BY <1>1, <1>7, <1>13 DEF Freshened, Copied, Snapshots
  <2> QED BY <1>4, <2>1, SMT DEF Idle, CopyPcs
<1>14. CASE PrepareRotation
  <2>1. Whole /\ op'[Worker] = Idle /\ wk'.pc \in {"merge", "swap"}
    BY <1>1, <1>14 DEF PrepareRotation, Copied, Fail, Goes, Snapshots, Coupled, QuietPcs
  <2> QED BY <1>3, <1>4, <2>1, SMT DEF Idle, CopyPcs
<1>15. CASE RotateBackends
  <2>1. Whole /\ wk'.pc = "rotating"
    BY <1>1, <1>15 DEF RotateBackends, Copied, Goes, Snapshots
  <2>2. op'[Worker].pc = "rotate"
    BY <1>1, <1>15 DEF RotateBackends, StartRotate, Becomes, Idle
  <2> QED BY <1>4, <2>1, <2>2 DEF CopyPcs
<1> QED
  BY <1>8, <1>9, <1>10, <1>11, <1>12, <1>13, <1>14, <1>15 DEF StoreStep

\* From the first batch of copy_validated_state_map to the rotation, what the
\* copy has passed is in the writable backend.
LEMMA CopiedIsPreserved ==
  ASSUME DbTypeOK, CtlTypeOK, Coupled, Held, CallsOK, NextIsFresh, Copied, OdNext, DbTypeOK'
  PROVE  Copied'
<1>1. Worker \in Threads /\ wk \in Snapshots /\ DOMAIN op = Threads
  BY WorkerFacts DEF DbTypeOK
<1>2. ASSUME op'[Worker] = Idle, wk'.pc \in IdlePcs \cup {"decide"}
      PROVE  Copied'
  BY <1>2, SMT DEF Copied, Idle, CopyPcs, IdlePcs
<1>3. CASE Crash \/ Exit
  <2>1. wk' = Parked /\ op' = [c \in Threads |-> Idle]
    BY <1>3 DEF Crash, Exit, ProcessEnds
  <2> QED BY <1>1, <1>2, <2>1 DEF Parked, IdlePcs
<1>4. CASE Restart
  BY <1>1, <1>2, <1>4, SMT DEF Restart, Coupled, Parked, IdlePcs
<1>5. CASE OutsideActions /\ ~Crash /\ ~Exit /\ ~Restart
  <2>1. op' = op /\ pair' = pair /\ disk' = disk
    BY <1>5, OutsidePcs DEF dbVars
  <2>2. CASE wk' = wk
    BY <2>1, <2>2, CopyKept
  <2>3. CASE op[Worker] = Idle /\ wk'.pc \in IdlePcs \cup {"decide"}
    BY <1>2, <2>1, <2>3
  <2> QED BY <1>5, <2>2, <2>3, OutsidePcs
<1>6. CASE QuietStep
  <2>1. op' = op /\ pair' = pair /\ disk' = disk /\ op[Worker] = Idle /\ wk'.seq = wk.seq
    BY <1>6, QuietStepPcs DEF dbRest, Coupled
  <2>2. wk'.pc \in {"copy", "visit"} => StateMap[wk.seq] \ wk'.todo \subseteq disk[pair.w]
    BY <1>6, QuietStepPcs DEF Copied
  <2>3. wk'.pc \in {"window", "freshen", "freshenKeys", "prepare"} => Whole
    BY <1>6, QuietStepPcs DEF Copied, Whole
  <2>4. wk'.pc \in QuietPcs \ {"swap"}
    BY <1>6, QuietStepPcs
  <2> QED BY <2>1, <2>2, <2>3, <2>4 DEF Copied, Whole, Idle, CopyPcs, QuietPcs
<1>7. CASE StoreStep
  BY <1>7, CopyStep, StoreStepIsTame
<1>8. CASE InStep
  <2>1. GoOn(Worker) /\ wk' = wk /\ backend' = backend
    BY <1>8 DEF InStep, InStore, shared
  <2>2. CASE op[Worker].pc # "rotate"
    BY <1>1, <2>1, <2>2, GoOnIsTame, CopyGoesOn
  <2>3. CASE op[Worker].pc = "rotate"
    <3>1. op'[Worker].pc \in {"drop", "rotated"}
      BY <1>1, <2>1, <2>3, GoOnPcs DEF RotatePcs
    <3>2. wk.pc = "rotating"
      <4>1. op[Worker] # Idle /\ op[Worker].pc \notin CopyPcs \cup {"batchWait", "batchIn", "stored"}
        BY <2>3, SMT DEF Idle, CopyPcs
      <4>2. wk.pc \in WkPcs
        BY <1>1 DEF Snapshots
      <4> QED BY <4>1, <4>2 DEF Coupled, WkPcs
    <3> QED BY <2>1, <3>1, <3>2 DEF Copied, CopyPcs
  <2> QED BY <2>2, <2>3
<1>9. CASE ClientStep
  <2>1. PICK c \in Clients : Client(c)
    BY <1>9 DEF ClientStep
  <2>2. c \in Threads /\ c # Worker /\ wk' = wk /\ op[c].pc \in ClientPcs
    BY <2>1 DEF Clients, Client, ctlVars, Coupled
  <2>3. Tame(c)
    BY <2>1, <2>2, GoOnIsTame, CallsAreTame DEF Client, ThreadStep, ClientPcs, FetchPcs, StorePcs
  <2>4. op'[Worker] = op[Worker] /\ pair' = pair /\ disk[pair.w] \subseteq disk'[pair.w]
    BY <1>1, <2>2, <2>3 DEF Tame
  <2> QED BY <2>2, <2>4, CopyKept
<1>10. CASE QueueStep
  <2>1. Tame(Worker) /\ op' = op /\ wk' = wk
    BY <1>10, QueueIsTame DEF QueueStep, WriteQueued, ctlVars
  <2>2. pair' = pair /\ disk[pair.w] \subseteq disk'[pair.w]
    BY <2>1 DEF Tame
  <2> QED BY <2>1, <2>2, CopyKept
<1> QED BY <1>3, <1>4, <1>5, <1>6, <1>7, <1>8, <1>9, <1>10, KindsOfStep
-----------------------------------------------------------------------------
(* What was pinned and noted.                                              *)

\* A tame step loses nothing of what a rotation has pinned.
LEMMA NotedKept ==
  ASSUME DbTypeOK, Held, Noted, NEW c \in Threads, Tame(c), pinned' = pinned,
         mode' = mode \/ mode' # "up",
         durable'.w = durable.w, durable'.a = durable.a, durable'.pin = durable.pin,
         durable'.failed = durable.failed,
         op[Worker].pc \in {"drop", "rotated"} => op'[Worker].pc \in {"drop", "rotated"}
  PROVE  Noted'
<1>1. pair' = pair /\ dirs' \subseteq dirs /\ {pair.w, pair.a} \subseteq dirs'
  BY DEF Tame
<1>2. \A b \in dirs' : disk[b] \subseteq disk'[b] /\ Kept(b) \subseteq Kept(b)'
  BY DEF Tame
<1>3. pinned' \subseteq Stored'
  BY <1>1, <1>2 DEF Noted, Stored
<1>4. Saved' = Saved /\ NuDB' = NuDB /\ (NuDB => dirs' = dirs)
  BY DEF Saved, Tame, NuDB
<1>5. ASSUME Saved \subseteq dirs'
      PROVE  durable'.pin \subseteq Kept(durable.w)' \cup Kept(durable.a)'
  <2>1. durable.w \in dirs' /\ durable.a \in dirs' /\ Saved \subseteq dirs
    BY <1>1, <1>5 DEF Saved
  <2>2. durable'.pin \subseteq Kept(durable.w) \cup Kept(durable.a)
    BY <2>1 DEF Noted
  <2>3. Kept(durable.w) \subseteq Kept(durable.w)' /\ Kept(durable.a) \subseteq Kept(durable.a)'
    BY <1>2, <2>1 DEF Kept
  <2> QED BY <2>2, <2>3
<1> QED BY <1>1, <1>3, <1>4, <1>5 DEF Noted, Synced

\* The state is saved, or the save fails, and the old archive goes.
LEMMA PersistKeeps ==
  ASSUME DbTypeOK, CtlTypeOK, Held, Noted, PersistState
  PROVE  /\ Noted' /\ pair' = pair /\ pinned' = pinned
         /\ disk'[pair.w] = disk[pair.w] /\ disk'[pair.a] = disk[pair.a]
         /\ Kept(pair.w)' = Kept(pair.w) /\ Kept(pair.a)' = Kept(pair.a)
         /\ \/ durable'.pin = {} /\ (Synced' <=> Synced)
            \/ durable'.pin = PinnedSafe /\ Synced'
<1>1. pair' = pair /\ pinned' = pinned /\ NuDB' = NuDB
  BY DEF PersistState, NuDB, shared
<1>2. /\ disk'[pair.w] = disk[pair.w] /\ disk'[pair.a] = disk[pair.a]
      /\ burst'[pair.w] = burst[pair.w] /\ burst'[pair.a] = burst[pair.a]
      /\ pair.w \in dirs' /\ pair.a \in dirs'
  BY DEF PersistState, Drops, Gone, HeldIn, DbTypeOK, Held
<1>3. Kept(pair.w)' = Kept(pair.w) /\ Kept(pair.a)' = Kept(pair.a)
  BY <1>1, <1>2 DEF Kept
<1>4. NuDB => dirs' = dirs
  BY DEF PersistState, Drops, Gone
<1>5. CASE durable' = [durable EXCEPT !.pin = {}, !.failed = TRUE]
  <2>1. durable'.failed /\ durable'.pin = {} /\ durable'.w = durable.w /\ durable'.a = durable.a
    BY <1>5 DEF CtlTypeOK
  <2> QED BY <1>1, <1>2, <1>3, <1>4, <2>1 DEF Noted, Stored, Saved, Synced
<1>6. CASE durable' = [durable EXCEPT !.w = pair.w, !.a = pair.a, !.last = wk.seq,
                                      !.pin = PinnedSafe, !.failed = FALSE]
  <2>1. durable'.failed = FALSE /\ durable'.pin = PinnedSafe /\ durable'.w = pair.w /\ durable'.a = pair.a
    BY <1>6 DEF CtlTypeOK
  <2>2. durable'.pin \subseteq Kept(durable.w)' \cup Kept(durable.a)'
    BY <1>1, <1>3, <2>1 DEF PinnedSafe
  <2> QED BY <1>1, <1>2, <1>3, <2>1, <2>2 DEF Noted, Stored, Synced, Saved, Held
<1> QED BY <1>5, <1>6 DEF PersistState

\* The pinned ledger is in the pair in use, and the saved pair is known to
\* be, or not to be, that pair.
LEMMA NotedIsPreserved ==
  ASSUME DbTypeOK, CtlTypeOK, Coupled, Held, CallsOK, NextIsFresh, Copied, Noted, OdNext, DbTypeOK'
  PROVE  Noted'
<1>1. Worker \in Threads /\ wk \in Snapshots /\ DOMAIN op = Threads
  BY WorkerFacts DEF DbTypeOK
<1>2. CASE Crash \/ Exit
  <2>1. /\ dirs' = dirs /\ pair' = pair /\ durable' = durable /\ pinned' = pinned /\ mode' = "down"
        /\ NuDB' = NuDB
    BY <1>2, EndKeeps DEF ProcessEnds, NuDB
  <2>2. \A b \in Names : disk[b] \subseteq disk'[b] /\ Kept(b) \subseteq Kept(b)'
    BY <1>2, EndKeeps
  <2>3. pinned' \subseteq Stored'
    BY <2>1, <2>2 DEF Noted, Stored, DbTypeOK
  <2>4. Saved \subseteq dirs => durable'.pin \subseteq Kept(durable.w)' \cup Kept(durable.a)'
    BY <2>1, <2>2 DEF Noted, CtlTypeOK
  <2> QED BY <2>1, <2>3, <2>4 DEF Noted, Synced, Saved
<1>3. CASE Restart
  <2>1. /\ Saved \subseteq dirs /\ dirs' = Saved /\ pair' = [w |-> durable.w, a |-> durable.a]
        /\ disk' = [b \in Names |-> IF b \in Saved THEN Kept(b) ELSE {}]
        /\ burst' = [b \in Names |-> {}] /\ durable' = durable /\ pinned' = durable.pin
    BY <1>3 DEF Restart
  <2>2. disk'[durable.w] = Kept(durable.w) /\ disk'[durable.a] = Kept(durable.a)
    BY <2>1 DEF Saved, CtlTypeOK
  <2>3. durable.pin \subseteq Kept(durable.w) \cup Kept(durable.a)
    BY <2>1 DEF Noted
  <2>4. Kept(durable.w)' = Kept(durable.w) /\ Kept(durable.a)' = Kept(durable.a)
    BY <2>1, <2>2 DEF Kept, CtlTypeOK
  <2> QED BY <2>1, <2>2, <2>3, <2>4 DEF Noted, Synced, Stored, Saved
<1>4. ASSUME NEW c \in Threads, Tame(c), pinned' = pinned, mode' = mode \/ mode' # "up", durable' = durable,
             op[Worker].pc \in {"drop", "rotated"} => op'[Worker].pc \in {"drop", "rotated"}
      PROVE  Noted'
  BY <1>4, NotedKept
<1>5. CASE OutsideActions /\ ~Crash /\ ~Exit /\ ~Restart
  <2>1. op' = op /\ pinned' = pinned /\ (mode' = mode \/ mode' # "up") /\ UNCHANGED <<dbRest, backend>>
    BY <1>5, OutsidePcs DEF dbVars, dbRest
  <2>2. /\ durable'.w = durable.w /\ durable'.a = durable.a /\ durable'.pin = durable.pin
        /\ durable'.failed = durable.failed
    BY <1>5, OutsidePcs DEF CtlTypeOK
  <2> QED BY <1>1, <2>1, <2>2, StutterIsTame, NotedKept
<1>6. CASE QuietStep
  <2>1. op' = op /\ pinned' = pinned /\ mode' = mode /\ UNCHANGED <<dbRest, backend>>
    BY <1>6, QuietStepPcs DEF dbRest, shared
  <2>2. /\ durable'.w = durable.w /\ durable'.a = durable.a /\ durable'.pin = durable.pin
        /\ durable'.failed = durable.failed
    BY <1>6, QuietStepPcs DEF CtlTypeOK
  <2> QED BY <1>1, <2>1, <2>2, StutterIsTame, NotedKept
<1>7. CASE PersistState
  BY <1>7, PersistKeeps
<1>8. CASE mode = "up" /\ PrepareRotation
  <2>1. /\ op' = op /\ disk' = disk /\ pair' = pair /\ durable' = durable /\ pinned' = pinned
        /\ mode' = mode /\ op[Worker] = Idle
    BY <1>8 DEF PrepareRotation, shared, Coupled, QuietPcs
  <2>5. NuDB' = NuDB /\ \A b : Kept(b)' = Kept(b)
    BY <1>8 DEF PrepareRotation, shared, Kept, NuDB
  <2>6. dirs \subseteq dirs'
    BY <1>8 DEF PrepareRotation, MakeBackend
  <2>2. ~durable.failed => Synced
    BY <1>8, <2>1, SMT DEF Noted, Idle
  <2>3. Saved \subseteq dirs \/ durable.pin = {}
    BY <2>2 DEF Noted, Synced, Saved, Held
  <2>4. durable.pin \subseteq Kept(durable.w) \cup Kept(durable.a)
    BY <2>3 DEF Noted
  <2> QED BY <2>1, <2>4, <2>5, <2>6 DEF Noted, Synced, Stored, Saved
<1>9. CASE StoreStep /\ ~PersistState /\ ~PrepareRotation
  <2>1. durable' = durable /\ pinned' = pinned /\ mode' = mode
    BY <1>9 DEF StoreStep, CopyBatch, BatchCopied, BatchRescued, CopyFails, FreshenBatch, Freshened,
                RotateBackends, shared
  <2>2. wk.pc \in {"visit", "copying", "freshenKeys", "freshening", "swap"}
    BY <1>9 DEF StoreStep, CopyBatch, BatchCopied, BatchRescued, CopyFails, FreshenBatch, Freshened,
                RotateBackends
  <2>3. op[Worker].pc \notin {"drop", "rotated"}
    BY <2>2, SMT DEF Coupled, QuietPcs, CopyPcs, Idle
  <2> QED BY <1>1, <1>4, <1>9, <2>1, <2>3, StoreStepIsTame
<1>10. CASE InStep
  <2>1. GoOn(Worker) /\ mode' = mode /\ durable' = durable /\ mode = "up" /\ backend' = backend
    BY <1>10 DEF InStep, InStore, shared
  <2>2. CASE op[Worker].pc # "rotate"
    <3>1. pinned' = pinned
      BY <1>10, <2>2 DEF InStep, InStore
    <3>2. op[Worker].pc \in {"drop", "rotated"} => op'[Worker].pc \in {"drop", "rotated"}
      BY <1>1, <2>1, GoOnPcs DEF RotatePcs
    <3> QED BY <1>1, <1>4, <2>1, <2>2, <3>1, <3>2, GoOnIsTame
  <2>3. CASE op[Worker].pc = "rotate"
    <3>1. SwapPair(Worker)
      BY <2>1, <2>3 DEF GoOn, EnterForeground, Waiting, At, TakeWritable, StoreObject, StoreBatch,
         FetchWritable, FetchArchive, CheckPair, EnterMaintenance, Forward, ExportWritable, ExportArchive,
         CopyRead, CopyCommit, DropOld
    <3>7. NuDB' = NuDB /\ \A b : Kept(b)' = Kept(b)
      BY <2>1, <3>1 DEF SwapPair, Kept, NuDB
    <3>2. /\ dirs' = dirs /\ disk' = disk /\ pair' = [w |-> op[Worker].t, a |-> pair.w]
          /\ pinned' = StateMap[wk.seq]
      BY <1>10, <2>3, <3>1 DEF SwapPair, InStep, InStore
    <3>3. Unknown(op[Worker].t) /\ Whole
      BY <2>3 DEF NextIsFresh, Copied
    <3>4. op[Worker].t \notin {pair.w, pair.a} /\ pair.w # pair.a
      BY <3>3 DEF Unknown, Held
    <3>5. op'[Worker].pc \in {"drop", "rotated"}
      BY <1>1, <2>1, <2>3, GoOnPcs DEF RotatePcs
    <3>6. ~durable.failed => Synced
      BY <2>1, <2>3 DEF Noted
    <3> QED BY <2>1, <3>2, <3>3, <3>4, <3>5, <3>6, <3>7 DEF Noted, Synced, Stored, Saved, Whole
  <2> QED BY <2>2, <2>3
<1>11. CASE ClientStep
  <2>1. PICK c \in Clients : Client(c)
    BY <1>11 DEF ClientStep
  <2>2. /\ c \in Threads /\ c # Worker /\ op[c].pc \in ClientPcs
        /\ mode' = mode /\ durable' = durable /\ pinned' = pinned
    BY <2>1 DEF Clients, Client, ctlVars, Coupled
  <2>3. Tame(c)
    BY <2>1, <2>2, GoOnIsTame, CallsAreTame DEF Client, ThreadStep, ClientPcs, FetchPcs, StorePcs
  <2>4. op'[Worker] = op[Worker]
    BY <1>1, <2>2, <2>3 DEF Tame
  <2> QED BY <1>4, <2>2, <2>3, <2>4
<1>12. CASE QueueStep
  BY <1>1, <1>4, <1>12, QueueIsTame DEF QueueStep, WriteQueued, ctlVars
<1> QED
  BY <1>2, <1>3, <1>5, <1>6, <1>7, <1>8, <1>9, <1>10, <1>11, <1>12, KindsOfStep
-----------------------------------------------------------------------------
(* The invariant.                                                          *)

\* The server as it first starts.
LEMMA Initial ==
  ASSUME OdInit
  PROVE  IInv
<1>1. 0 \in Names /\ 1 \in Names /\ Worker \in Threads /\ Policies \subseteq Nat
  BY NoneIsNoName, DeleteAssumption
<1>2. DbTypeOK
  BY <1>1, IdleType DEF OdInit, DbInit, DbTypeOK
<1>3. CtlTypeOK
  <2>1. Parked \in Snapshots
    BY DEF Parked, Snapshots, WkPcs, IdlePcs, MaybeName
  <2>2. PICK c \in Policies :
           /\ can = [store |-> c, atomic |-> c, setting |-> FALSE]
           /\ durable = [w |-> 0, a |-> 1, last |-> 0, can |-> c, pin |-> {}, failed |-> FALSE]
    BY DEF OdInit
  <2>3. /\ can \in [store : Nat, atomic : Nat, setting : BOOLEAN]
        /\ durable \in [w : Names, a : Names, last : Nat, can : Nat, pin : SUBSET Objects, failed : BOOLEAN]
    BY <1>1, <2>2
  <2> QED BY <2>1, <2>3 DEF OdInit, CtlTypeOK
<1>4. \A c \in Threads : op[c] = Idle
  BY DEF OdInit, DbInit
<1>5. Clients \subseteq Threads /\ NamesOf(Idle) = {}
  BY DEF Clients, NamesOf, Idle
<1>6. Coupled
  <2>1. wk.pc = "check" /\ mode = "up" /\ op[Worker] = Idle
    BY <1>1, <1>4 DEF OdInit, Parked
  <2>2. \A c \in Clients : op[c].pc \in ClientPcs
    BY <1>4, <1>5, SMT DEF Idle, ClientPcs
  <2> QED BY <2>1, <2>2 DEF Coupled, IdlePcs
<1>7. Held
  BY <1>4, <1>5, SMTT(30) DEF OdInit, DbInit, Held
<1>8. NextIsFresh /\ CallsOK
  BY <1>1, <1>4, SMT DEF OdInit, NextIsFresh, CallsOK, CallOK, Parked, Idle, FetchPcs, CopyPcs
<1>9. Copied
  BY <1>1, <1>4, SMT DEF OdInit, Copied, Parked, Idle, CopyPcs
<1>10. Noted
  BY SMT DEF OdInit, DbInit, Noted, Synced, Saved
<1>11. Accounted
  BY SMT DEF OdInit, Accounted, Parked, IdlePcs
<1> QED BY <1>2, <1>3, <1>6, <1>7, <1>8, <1>9, <1>10, <1>11 DEF IInv

\* Every step keeps the invariant.
LEMMA Inductive ==
  ASSUME IInv, [OdNext]_odVars
  PROVE  IInv'
<1> USE DEF IInv
<1>1. CASE OdNext
  <2>1. DbTypeOK' /\ CtlTypeOK'
    BY <1>1, TypesArePreserved
  <2>2. Coupled'
    BY <1>1, CoupledIsPreserved
  <2>3. Held' /\ CallsOK' /\ NextIsFresh'
    BY <1>1, <2>1, StoreIsPreserved
  <2>4. Copied'
    BY <1>1, <2>1, CopiedIsPreserved
  <2>5. Noted'
    BY <1>1, <2>1, NotedIsPreserved
  <2>6. Accounted'
    BY <1>1, AccountedIsPreserved
  <2> QED BY <2>1, <2>2, <2>3, <2>4, <2>5, <2>6
<1>2. CASE UNCHANGED odVars
  <2>1. /\ UNCHANGED <<dirs, disk, burst, backend, pair, doomed, inFlight, op, pinned>>
        /\ UNCHANGED <<mode, closed, queued, working, closing, wake, last, can, durable, stop, wk>>
    BY <1>2 DEF odVars, dbVars, ctlVars
  <2>2. DbTypeOK' /\ CtlTypeOK'
    BY <2>1 DEF DbTypeOK, CtlTypeOK
  <2>3. Coupled' /\ Held' /\ NextIsFresh'
    BY <2>1 DEF Coupled, Held, NextIsFresh, Unknown
  <2>4. CallsOK'
    BY <2>1 DEF CallsOK, CallOK
  <2>5. Copied'
    BY <2>1, CopyKept
  <2>6. Noted'
    BY <2>1 DEF Noted, Synced, Stored, Saved, Kept, NuDB
  <2>7. Accounted'
    BY <2>1 DEF Accounted, Saved
  <2> QED BY <2>2, <2>3, <2>4, <2>5, <2>6, <2>7
<1> QED BY <1>1, <1>2

\* The inductive invariant of the rotating database under online deletion, from
\* which the theorems of StorageProofs follow.
THEOREM Invariance == OdSpec => []IInv
BY Initial, Inductive, PTL DEF OdSpec

\* The backends in use exist, are the saved ones outside the unsaved part of
\* a rotation, and only then does a server refuse to start.
THEOREM RecoverableHolds == OdSpec => []Recoverable
<1>1. ASSUME IInv
      PROVE  Recoverable
  <2> USE <1>1 DEF IInv
  <2>1. {pair.w, pair.a} \subseteq dirs
    BY DEF Held
  <2>2. ASSUME mode = "up", ~Synced, ~durable.failed
        PROVE  wk.pc = "rotating"
    <3>1. op[Worker].pc \in {"drop", "rotated"}
      BY <2>2 DEF Noted
    <3>2. op[Worker] # Idle /\ op[Worker].pc \notin CopyPcs \cup {"batchWait", "batchIn", "stored"}
      BY <3>1, SMT DEF Idle, CopyPcs
    <3>3. wk.pc \in WkPcs
      BY DEF CtlTypeOK, Snapshots
    <3> QED BY <3>2, <3>3 DEF Coupled, WkPcs
  <2>3. mode = "refused" => ~Synced /\ ~NuDB
    BY <2>1 DEF Accounted, Noted, Saved, Synced
  <2> QED BY <2>1, <2>2, <2>3 DEF Recoverable, Synced
<1> QED BY <1>1, Invariance, PTL

\* While rendezvous answers that the store is idle, nothing is queued and the
\* worker is in its loop, whatever was queued during a step.
THEOREM RendezvousHolds == OdSpec => []RendezvousIsIdle
<1>1. ASSUME IInv
      PROVE  RendezvousIsIdle
  <2>1. (mode = "up" /\ ~working) => wk.pc = "exited" \/ (queued = 0 /\ wk.pc \in IdlePcs)
    BY <1>1 DEF IInv, Accounted
  <2> QED BY <2>1 DEF RendezvousIsIdle, IdlePcs
<1> QED BY <1>1, Invariance, PTL

\* A rotation starts to delete only with the policy that was saved, however
\* long the worker has waited for the server to be healthy, or while the call
\* that saves another one has not published it yet.
THEOREM PolicyHolds == OdSpec => PolicyHonoured
<1>1. ASSUME IInv, [OdNext]_odVars, wk.pc # "clear", wk'.pc = "clear"
      PROVE  durable.can >= last - 1 \/ can.setting
  <2> USE <1>1 DEF IInv
  <2>1. wk' # wk /\ OdNext
    BY DEF odVars, ctlVars
  <2>2. CASE mode = "up" /\ QuietStep
    <3>1. Ready(wk.seq, wk.last, can.atomic) /\ wk.pc = "refresh"
      BY <2>2, QuietStepPcs
    <3>2. (can.setting \/ can.atomic = durable.can) /\ wk.last = last
      BY <2>2, <3>1 DEF Accounted
    <3>3. last \in Nat /\ durable.can \in Nat
      BY DEF CtlTypeOK
    <3> QED BY <3>1, <3>2, <3>3, SMT DEF Ready
  <2>3. CASE mode = "up" /\ StoreStep
    BY <2>3, StoreStepPcs
  <2>4. CASE OutsideActions
    <3>1. ~Crash /\ ~Exit /\ ~Restart
      BY <2>1, SMT DEF Crash, Exit, ProcessEnds, Restart, Parked
    <3> QED BY <2>1, <2>4, <3>1, OutsidePcs DEF IdlePcs
  <2>5. ~InStep /\ ~ClientStep /\ ~QueueStep
    BY <2>1 DEF InStep, InStore, ClientStep, Client, QueueStep, ctlVars
  <2> QED BY <2>1, <2>2, <2>3, <2>4, <2>5, KindsOfStep
<1>2. IInv /\ [OdNext]_odVars =>
         [(wk.pc # "clear" /\ wk'.pc = "clear") => (durable.can >= last - 1 \/ can.setting)]_odVars
  BY <1>1
<1> QED BY <1>2, Invariance, PTL DEF OdSpec, PolicyHonoured

\* The only step into the answer of a fetch.
LEMMA FetchEnds ==
  ASSUME DbTypeOK, Held, CallsOK, NEW c \in Threads, GoOn(c), Tame(c),
         op[c].pc # "fetched", op'[c].pc = "fetched"
  PROVE  /\ op'[c].had => op'[c].got = op'[c].objs
         /\ op'[c].got \subseteq Accepted(pair.w)' \cup Accepted(pair.a)' \/ op'[c].w \notin {pair'.w, pair'.a}
<1> DEFINE r == op[c]   s == op'[c]
<1>1. r \in Ops /\ DOMAIN op = Threads /\ CallOK(r) /\ pair' = pair
  BY DEF DbTypeOK, CallsOK, Tame
<1>2. /\ disk'[pair.w] \subseteq Accepted(pair.w)' /\ disk'[pair.a] \subseteq Accepted(pair.a)'
      /\ Stored \subseteq disk'[pair.w] \cup disk'[pair.a]
  BY <1>1 DEF Tame, Stored, Accepted
<1>3. CASE FetchWritable(c)
  <2>1. s = [r EXCEPT !.pc = IF r.objs \subseteq disk[r.w] THEN "fetched" ELSE "fetchA", !.got = r.objs \cap disk[r.w]]
    BY <1>1, <1>3 DEF FetchWritable, Found, Becomes
  <2>2. s.w = r.w /\ s.objs = r.objs /\ s.got = r.objs \cap disk[r.w] /\ r.objs \subseteq disk[r.w]
    BY <1>1, <2>1 DEF Ops
  <2> QED BY <1>1, <1>2, <2>2 DEF Stored
<1>4. CASE FetchArchive(c)
  <2>1. s = [r EXCEPT !.pc = IF r.objs \subseteq disk[r.a] THEN "check" ELSE "fetched", !.got = r.objs \cap disk[r.a]]
    BY <1>1, <1>4 DEF FetchArchive, Found, Becomes
  <2>2. s.objs = r.objs /\ s.got = r.objs \cap disk[r.a] /\ ~(r.objs \subseteq disk[r.a]) /\ s.had = r.had
    BY <1>1, <2>1 DEF Ops
  <2>3. r.pc = "fetchA"
    BY <1>4 DEF FetchArchive
  <2>4. \A x, y \in r.objs : x = y
    BY <1>1, <2>3 DEF CallOK
  <2>5. s.got = {}
    <3> HIDE DEF r, s
    <3> QED BY <2>2, <2>4
  <2>6. ~s.had
    BY <1>1, <2>2, <2>3 DEF CallOK
  <2> QED BY <2>5, <2>6
<1>5. CASE CheckPair(c)
  <2>1. s.pc = "fetched" /\ r.pc = "check"
    BY <1>5 DEF CheckPair
  <2>2. ~(r.flag \/ CopyForward(c))
    <3>1. [r EXCEPT !.pc = "forward", !.t = pair.w].pc = "forward"
      BY <1>1 DEF Ops
    <3> QED BY <1>1, <1>5, <2>1, <3>1 DEF CheckPair, Becomes
  <2>3. s = [r EXCEPT !.pc = "fetched"]
    BY <1>1, <1>5, <2>2 DEF CheckPair, Becomes
  <2>4. s.got = r.got /\ s.objs = r.objs
    BY <1>1, <2>3 DEF Ops
  <2>5. r.a = pair.a /\ r.got = r.objs /\ r.got \subseteq disk[r.a]
    BY <1>1, <2>1, <2>2 DEF CopyForward, PairChanged, CallOK
  <2> QED BY <1>1, <1>2, <2>4, <2>5 DEF Stored
<1>6. CASE Forward(c)
  <2>1. s = [r EXCEPT !.pc = "fetched"] /\ WriteOne(r.t, r.got) /\ r.pc = "forwarding"
    BY <1>1, <1>6 DEF Forward, Becomes
  <2>2. s.got = r.got /\ s.objs = r.objs /\ s.w = r.w
    BY <1>1, <2>1 DEF Ops
  <2>3. r.got = r.objs /\ (r.w \in {pair.w, pair.a} => r.t \in {pair.w, pair.a}) /\ r.t \in Names
    BY <1>1, <2>1 DEF CallOK
  <2>4. r.got \in SUBSET Objects /\ backend' = backend
    BY <1>1 DEF Ops, Tame
  <2>5. \A t \in Names : WriteOne(t, r.got) => r.got \subseteq Accepted(t)'
    BY <2>4, WriteOneDoes
  <2>6. \A t \in Names : (t = pair.w => Accepted(t)' = Accepted(pair.w)')
                        /\ (t = pair.a => Accepted(t)' = Accepted(pair.a)')
    BY <1>1 DEF Accepted
  <2> QED BY <1>1, <2>1, <2>2, <2>3, <2>5, <2>6
<1>7. FetchWritable(c) \/ FetchArchive(c) \/ CheckPair(c) \/ Forward(c)
  <2>2. EnterForeground(c) => s.pc # "fetched"
    BY <1>1 DEF EnterForeground, Becomes, Ops
  <2>3. TakeWritable(c) \/ StoreObject(c) \/ StoreBatch(c) => s.pc # "fetched"
    BY <1>1 DEF TakeWritable, StoreObject, StoreBatch, Becomes, Ops
  <2>4. EnterMaintenance(c) \/ CopyRead(c) \/ ExportWritable(c) \/ ExportArchive(c) => s.pc # "fetched"
    BY <1>1 DEF EnterMaintenance, CopyRead, ExportWritable, ExportArchive, Becomes, Ops
  <2>5. CopyCommit(c) => s.pc # "fetched"
    BY <1>1 DEF CopyCommit, Drops, Becomes, Ops
  <2>6. SwapPair(c) \/ DropOld(c) => s.pc # "fetched"
    BY <1>1, ZenonT(30) DEF SwapPair, DropOld, Drops, Becomes, Ops, Idle
  <2> QED BY <2>2, <2>3, <2>4, <2>5, <2>6 DEF GoOn
<1> QED BY <1>3, <1>4, <1>5, <1>6, <1>7

\* A fetch finds what was in the store when it began, and what it returns is
\* in the store, or queued to be, unless two rotations have passed, with any
\* number of threads.
THEOREM FetchHolds == OdSpec => FetchIsSound
<1> DEFINE Sound(c) == (op[c].pc # "fetched" /\ op'[c].pc = "fetched") =>
              /\ op'[c].had => op'[c].got = op'[c].objs
              /\ op'[c].got \subseteq Accepted(pair.w)' \cup Accepted(pair.a)'
                 \/ op'[c].w \notin {pair'.w, pair'.a}
<1>1. ASSUME IInv, [OdNext]_odVars, IInv', NEW c \in Threads
      PROVE  Sound(c)
  <2> USE <1>1 DEF IInv
  <2>1. SUFFICES ASSUME op[c].pc # "fetched", op'[c].pc = "fetched"
                 PROVE  Sound(c)
    OBVIOUS
  <2>2. op' # op /\ OdNext
    BY <2>1 DEF odVars, dbVars
  <2>3. Worker \in Threads
    BY DeleteAssumption
  <2>4. ~OutsideActions
    <3>1. ~Crash /\ ~Exit
      BY <2>1, SMT DEF Crash, Exit, ProcessEnds, Idle
    <3>2. ~Restart
      BY <2>2 DEF Restart
    <3> QED BY <2>2, <3>1, <3>2, OutsidePcs DEF dbVars
  <2>5. ~QuietStep
    BY <2>2, QuietStepPcs DEF dbRest
  <2>6. c \in Clients
    <3>1. op'[Worker].pc # "fetched"
      <4>1. wk'.pc \in WkPcs
        BY DEF CtlTypeOK, Snapshots
      <4> QED BY <4>1, SMT DEF Coupled, WkPcs, CopyPcs, RotatePcs, Idle
    <3> QED BY <2>1, <3>1 DEF Clients
  <2>7. ~StoreStep
    BY <2>1, <2>6, StoreStepPcs
  <2>8. CASE InStep
    BY <2>1, <2>3, <2>6, <2>8, GoOnPcs DEF InStep, InStore, Clients
  <2>9. CASE ClientStep
    <3>1. PICK d \in Clients : Client(d)
      BY <2>9 DEF ClientStep
    <3>2. d \in Threads /\ op[d].pc \in ClientPcs
      BY <3>1 DEF Clients, Coupled
    <3>3. d = c
      BY <2>1, <3>1, <3>2, GoOnPcs, CallPcs DEF Client, ThreadStep
    <3>4. GoOn(c) /\ backend' = backend
      BY <2>1, <3>1, <3>2, <3>3, CallPcs DEF Client, ThreadStep
    <3>5. Tame(c)
      BY <3>2, <3>3, <3>4, GoOnIsTame DEF ClientPcs, FetchPcs, StorePcs
    <3> QED BY <2>1, <3>4, <3>5, FetchEnds
  <2>10. ~QueueStep
    BY <2>2 DEF QueueStep, WriteQueued
  <2> QED BY <2>2, <2>4, <2>5, <2>7, <2>8, <2>9, <2>10, KindsOfStep
<1>2. IInv /\ [OdNext]_odVars /\ IInv' => [\A c \in Threads : Sound(c)]_dbVars
  BY <1>1
<1>3. OdSpec => [][\A c \in Threads : Sound(c)]_dbVars
  BY <1>2, Invariance, PTL DEF OdSpec
<1> QED BY <1>3 DEF FetchIsSound

\* The generations of the store, as GenerationStore names them.
genVars == <<disk[pair.w], Kept(pair.w), disk[pair.a], Kept(pair.a), pinned, durable.pin, Synced>>

\* The pair stays and its backends grow: a put.
LEMMA GrowthIsPut ==
  ASSUME DbTypeOK, DbTypeOK', pair' = pair, pinned' = pinned, durable'.pin = durable.pin, Synced' = Synced,
         disk[pair.w] \subseteq disk'[pair.w], disk[pair.a] \subseteq disk'[pair.a],
         Kept(pair.w) \subseteq Kept(pair.w)', Kept(pair.a) \subseteq Kept(pair.a)'
  PROVE  Generations!Next
<1>1. /\ disk'[pair.w] \in SUBSET Objects /\ disk'[pair.a] \in SUBSET Objects
      /\ Kept(pair.w)' \subseteq disk'[pair.w] /\ Kept(pair.a)' \subseteq disk'[pair.a]
  BY DEF DbTypeOK, Kept
<1>2. Generations!Put(disk'[pair.w], disk'[pair.a])
  BY <1>1 DEF Generations!Put, Synced
<1> QED BY <1>1, <1>2 DEF Generations!Next

\* Every step of the store is a step of the two generations.
LEMMA GenerationStep ==
  ASSUME IInv, IInv', OdNext
  PROVE  [Generations!Next]_genVars
<1> USE DEF IInv
<1>1. Worker \in Threads /\ DOMAIN op = Threads
  BY WorkerFacts DEF DbTypeOK
<1>2. ASSUME NEW c \in Threads, Tame(c), pinned' = pinned, durable'.pin = durable.pin,
             durable'.w = durable.w, durable'.a = durable.a
      PROVE  Generations!Next
  <2>1. /\ pair' = pair /\ disk[pair.w] \subseteq disk'[pair.w] /\ disk[pair.a] \subseteq disk'[pair.a]
        /\ Kept(pair.w) \subseteq Kept(pair.w)' /\ Kept(pair.a) \subseteq Kept(pair.a)'
    BY <1>2 DEF Tame, Kept
  <2>2. Synced' = Synced
    BY <1>2, <2>1 DEF Synced
  <2> QED BY <1>2, <2>1, <2>2, GrowthIsPut
<1>3. CASE Crash \/ Exit
  <2>1. pair' = pair /\ durable' = durable /\ pinned' = pinned /\ pair.w \in Names /\ pair.a \in Names
    BY <1>3, EndKeeps DEF ProcessEnds, DbTypeOK
  <2>2. /\ disk[pair.w] \subseteq disk'[pair.w] /\ disk[pair.a] \subseteq disk'[pair.a]
        /\ Kept(pair.w) \subseteq Kept(pair.w)' /\ Kept(pair.a) \subseteq Kept(pair.a)'
    BY <1>3, <2>1, EndKeeps DEF Kept
  <2>3. Synced' = Synced
    BY <2>1 DEF Synced
  <2> QED BY <2>1, <2>2, <2>3, GrowthIsPut
<1>4. CASE Restart
  <2>1. /\ Saved \subseteq dirs /\ pair' = [w |-> durable.w, a |-> durable.a]
        /\ disk' = [b \in Names |-> IF b \in Saved THEN Kept(b) ELSE {}]
        /\ burst' = [b \in Names |-> {}] /\ durable' = durable /\ pinned' = durable.pin
    BY <1>4 DEF Restart
  <2>2. /\ durable.w \in Names /\ durable.a \in Names
        /\ disk'[pair'.w] \in SUBSET Objects /\ disk'[pair'.a] \in SUBSET Objects
    BY DEF DbTypeOK, CtlTypeOK
  <2>3. disk'[pair'.w] = Kept(durable.w) /\ disk'[pair'.a] = Kept(durable.a)
    BY <2>1, <2>2 DEF Saved
  <2>4. Kept(pair.w)' = disk'[pair'.w] /\ Kept(pair.a)' = disk'[pair'.a]
    BY <2>1, <2>2 DEF Kept
  <2>5. durable.pin \subseteq disk'[pair'.w] \cup disk'[pair'.a]
    BY <2>1, <2>3 DEF Noted
  <2>6. Synced => Kept(durable.w) = Kept(pair.w) /\ Kept(durable.a) = Kept(pair.a)
    BY DEF Synced
  <2>7. durable'.w = pair'.w /\ durable'.a = pair'.a
    BY <2>1
  <2>8. Generations!Recover
    BY <2>1, <2>2, <2>3, <2>4, <2>5, <2>6, <2>7 DEF Generations!Recover, Synced
  <2> QED BY <2>8 DEF Generations!Next
<1>5. CASE OutsideActions /\ ~Crash /\ ~Exit /\ ~Restart
  <2>1. /\ UNCHANGED <<dbRest, backend>> /\ pinned' = pinned /\ durable'.pin = durable.pin
        /\ durable'.w = durable.w /\ durable'.a = durable.a
    BY <1>5, OutsidePcs DEF CtlTypeOK, dbVars, dbRest
  <2> QED BY <1>1, <1>2, <2>1, StutterIsTame
<1>6. CASE QuietStep
  <2>1. /\ UNCHANGED <<dbRest, backend>> /\ pinned' = pinned /\ durable'.pin = durable.pin
        /\ durable'.w = durable.w /\ durable'.a = durable.a
    BY <1>6, QuietStepPcs DEF CtlTypeOK, shared
  <2> QED BY <1>1, <1>2, <2>1, StutterIsTame
<1>7. CASE PersistState
  <2>1. /\ pair' = pair /\ disk'[pair.w] = disk[pair.w] /\ disk'[pair.a] = disk[pair.a]
        /\ Kept(pair.w)' = Kept(pair.w) /\ Kept(pair.a)' = Kept(pair.a) /\ pinned' = pinned
    BY <1>7, PersistKeeps
  <2>2. CASE durable'.pin = {} /\ (Synced' <=> Synced)
    <3>1. Generations!Forget
      BY <2>1, <2>2 DEF Generations!Forget, Synced
    <3> QED BY <3>1 DEF Generations!Next
  <2>3. CASE durable'.pin = PinnedSafe /\ Synced'
    <3>1. Generations!Note
      BY <2>1, <2>3 DEF Generations!Note, Synced, PinnedSafe
    <3> QED BY <3>1 DEF Generations!Next
  <2> QED BY <1>7, <2>2, <2>3, PersistKeeps
<1>8. CASE PrepareRotation
  BY <1>8 DEF PrepareRotation, shared, genVars, Kept, NuDB, Synced
<1>9. CASE StoreStep /\ ~PersistState /\ ~PrepareRotation
  <2>1. durable' = durable /\ pinned' = pinned
    BY <1>9 DEF StoreStep, CopyBatch, BatchCopied, BatchRescued, CopyFails, FreshenBatch, Freshened,
                RotateBackends, shared
  <2> QED BY <1>1, <1>2, <1>9, <2>1, StoreStepIsTame
<1>10. CASE InStep
  <2>1. GoOn(Worker) /\ durable' = durable /\ backend' = backend /\ mode = "up"
    BY <1>10 DEF InStep, InStore, shared
  <2>2. CASE op[Worker].pc # "rotate"
    <3>1. pinned' = pinned
      BY <1>10, <2>2 DEF InStep, InStore
    <3> QED BY <1>1, <1>2, <2>1, <2>2, <3>1, GoOnIsTame
  <2>3. CASE op[Worker].pc = "rotate"
    <3>1. SwapPair(Worker)
      BY <2>1, <2>3 DEF GoOn, EnterForeground, Waiting, At, TakeWritable, StoreObject, StoreBatch,
         FetchWritable, FetchArchive, CheckPair, EnterMaintenance, Forward, ExportWritable, ExportArchive,
         CopyRead, CopyCommit, DropOld
    <3>2. /\ disk' = disk /\ burst' = burst /\ pair' = [w |-> op[Worker].t, a |-> pair.w]
          /\ pinned' = StateMap[wk.seq]
      BY <1>10, <2>3, <3>1 DEF SwapPair, InStep, InStore
    <3>3. /\ disk[op[Worker].t] = {} /\ StateMap[wk.seq] \subseteq disk[pair.w]
          /\ disk[pair.w] \in SUBSET Objects /\ op[Worker].t \notin {pair.w, pair.a}
      BY <2>3 DEF NextIsFresh, Unknown, Copied, Whole, DbTypeOK
    <3>4. disk'[pair'.w] = {} /\ disk'[pair'.a] = disk[pair.w]
      BY <3>2, <3>3
    <3>5. Kept(pair.w)' = {} /\ Kept(pair.a)' = Kept(pair.w)
      BY <2>1, <3>2, <3>3 DEF Kept, NuDB
    <3>6. Synced' => durable.pin = {}
      <4>1. durable.failed \/ Synced
        BY <2>1, <2>3 DEF Noted
      <4>2. Synced => ~Synced'
        BY <2>1, <3>2, <3>3 DEF Synced
      <4> QED BY <4>1, <4>2 DEF Noted
    <3>7. Generations!Rotate(StateMap[wk.seq])
      BY <2>1, <3>2, <3>3, <3>4, <3>5, <3>6 DEF Generations!Rotate, Synced
    <3> QED BY <3>3, <3>7 DEF Generations!Next
  <2> QED BY <2>2, <2>3
<1>11. CASE ClientStep
  <2>1. PICK c \in Clients : Client(c)
    BY <1>11 DEF ClientStep
  <2>2. /\ c \in Threads /\ op[c].pc \in ClientPcs /\ durable' = durable /\ pinned' = pinned
        /\ backend' = backend
    BY <2>1 DEF Clients, Client, ctlVars, Coupled
  <2>3. Tame(c)
    BY <2>1, <2>2, GoOnIsTame, CallsAreTame DEF Client, ThreadStep, ClientPcs, FetchPcs, StorePcs
  <2> QED BY <1>2, <2>2, <2>3
<1>12. CASE QueueStep
  BY <1>1, <1>2, <1>12, QueueIsTame DEF QueueStep, ctlVars
<1> QED
  BY <1>3, <1>4, <1>5, <1>6, <1>7, <1>8, <1>9, <1>10, <1>11, <1>12, KindsOfStep

\* With its threads, rotations, crashes and restarts the rotating store is a
\* store of two generations: what a rotation pins is fresh when it happens and
\* can be read until the process ends, and a restart brings back what was safe
\* of it when the names were saved, and of both backends if they are the saved
\* ones.
THEOREM StoreImplementsGenerations == OdSpec => ImplementsGenerations
<1>1. ASSUME OdInit PROVE Generations!Init
  <2>1. DbTypeOK /\ pair = [w |-> 0, a |-> 1] /\ burst = [b \in Names |-> {}]
    BY <1>1, Initial DEF IInv, OdInit, DbInit
  <2>2. disk[pair.w] \in SUBSET Objects /\ disk[pair.a] \in SUBSET Objects
    BY <2>1 DEF DbTypeOK
  <2>3. pinned = {} /\ durable.pin = {} /\ durable.w = pair.w /\ durable.a = pair.a
    BY <1>1, <2>1, SMT DEF OdInit
  <2>4. Kept(pair.w) = disk[pair.w] /\ Kept(pair.a) = disk[pair.a]
    BY <2>1, <2>2 DEF Kept, DbTypeOK
  <2> QED BY <2>2, <2>3, <2>4 DEF Generations!Init
<1>2. IInv /\ IInv' /\ [OdNext]_odVars => [Generations!Next]_Generations!vars
  <2>1. ASSUME IInv, IInv', OdNext PROVE [Generations!Next]_Generations!vars
    BY <2>1, GenerationStep DEF Generations!vars, genVars, Synced
  <2>2. UNCHANGED odVars => UNCHANGED Generations!vars
    BY DEF odVars, dbVars, ctlVars, Generations!vars, Kept, NuDB
  <2> QED BY <2>1, <2>2
<1> QED BY <1>1, <1>2, Invariance, PTL DEF OdSpec, ImplementsGenerations, Generations!Spec

\* So the state map of the last rotation can be read in full until the process
\* ends; and what of it the backends had kept when their names were saved is
\* kept as long as they are the ones in use.
THEOREM RotatedLedgerIsKept == OdSpec => [](Generations!PinnedIsStored /\ Generations!NotedIsSafe)
<1>1. IInv => Generations!PinnedIsStored /\ Generations!NotedIsSafe
  <2>1. SUFFICES ASSUME IInv PROVE Generations!PinnedIsStored /\ Generations!NotedIsSafe
    OBVIOUS
  <2>2. Generations!PinnedIsStored
    BY <2>1 DEF IInv, Noted, Stored, Generations!PinnedIsStored, Generations!Stored
  <2>3. ASSUME Synced PROVE durable.pin \subseteq Kept(pair.w) \cup Kept(pair.a)
    BY <2>1, <2>3 DEF IInv, Noted, Held, Saved, Synced
  <2> QED BY <2>2, <2>3 DEF Generations!NotedIsSafe, Synced
<1> QED BY <1>1, Invariance, PTL
=============================================================================
