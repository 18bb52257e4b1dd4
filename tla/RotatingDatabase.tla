-------------------------- MODULE RotatingDatabase ---------------------------
(***************************************************************************)
(* The rotating node store (database_rotating.rs).  Two backends are in    *)
(* use: stores go to the writable one, reads fall back to the archive.  A  *)
(* rotation makes the writable backend the archive and puts an empty one   *)
(* in its place; the old archive is marked for deletion.                   *)
(*                                                                         *)
(* A thread is inside at most one call.  The state mutex is held within    *)
(* one step here, except where the code unlocks it; so a step that reads   *)
(* the pair and one that uses what was read are two steps.  The counters   *)
(* of WritePriorityGate are the numbers of threads at the corresponding    *)
(* points.                                                                 *)
(*                                                                         *)
(* A backend is a set of objects that only grows while it is open: how the *)
(* files hold them is left out, and so are read errors, which are passed   *)
(* on, and the object cache, which is switched off for this database.  The *)
(* two kinds of backend differ in what `burst` stands for.                 *)
(*   NuDB     what was written since the last commit.  It can be read, and *)
(*            is rolled back if the process ends before the next commit.   *)
(*   RocksDB  what store() has queued in the BatchWriter.  It can not be   *)
(*            read yet; what has been written outlives the process.        *)
(* The directory of a doomed RocksDB backend goes when the last thread     *)
(* that holds it lets go of it, that of a NuDB backend at the next start.  *)
(***************************************************************************)
EXTENDS FiniteSets, Integers

CONSTANTS
    Objects,
    Threads,
    MaxName,    \* directories are numbered from 0; 10000 in the code
    Backends,   \* the backends that may be configured: kind, burst_commit_limit
    None

ASSUME NamesAssumption == MaxName \in Nat \ {0} /\ None \notin 0..MaxName
ASSUME BackendsAssumption == Backends \subseteq [kind : {"NuDB", "RocksDB"}, limit : Nat \ {0}]

VARIABLES
    dirs,       \* the backend directories that exist
    disk,       \* name -> the objects that can be read from the backend
    burst,      \* name -> the objects it has accepted and not yet settled
    pair,       \* RotatingState
    doomed,     \* the backends with set_delete_path
    inFlight,   \* rotation_in_flight
    op,         \* thread -> the call it is in
    backend     \* the backend that is configured

dbVars == <<dirs, disk, burst, pair, doomed, inFlight, op, backend>>

Names == 0..MaxName

\* w, a: the captured pair; t: the backend to be written; objs: what the call
\* is about; got, lost: what it found, or did not find, in both backends;
\* flag: the duplicate argument of a fetch, already_in_flight of a rotation;
\* had: whether the object was in the store when a fetch took its pair.
Idle == [pc |-> "idle", w |-> None, a |-> None, t |-> None, objs |-> {},
         got |-> {}, lost |-> {}, flag |-> FALSE, had |-> FALSE]

Stored == disk[pair.w] \cup disk[pair.a]
At(pcs) == {c \in Threads : op[c].pc \in pcs}
Becomes(c, r) == op' = [op EXCEPT ![c] = r]

-----------------------------------------------------------------------------
(* The backends.                                                           *)

NuDB == backend.kind = "NuDB"

\* What the backend has taken on, and what of it outlives the process.
Accepted(b) == IF NuDB THEN disk[b] ELSE disk[b] \cup burst[b]
Kept(b) == IF NuDB THEN disk[b] \ burst[b] ELSE disk[b]

\* store_batch_result.  NuDB skips what it has, and commits the burst once
\* it is long enough.
WriteBatch(b, X) ==
    LET pending == burst[b] \cup (X \ disk[b])
    IN  /\ disk' = [disk EXCEPT ![b] = @ \cup X]
        /\ burst' = IF NuDB
                    THEN [burst EXCEPT ![b] = IF Cardinality(pending) < backend.limit THEN pending ELSE {}]
                    ELSE burst

\* store: RocksDB leaves the object to its BatchWriter.
WriteOne(b, X) ==
    \/ NuDB /\ WriteBatch(b, X)
    \/ ~NuDB /\ burst' = [burst EXCEPT ![b] = @ \cup X] /\ UNCHANGED disk

\* What was accepted is committed, or what was queued is written.
Settle(B) ==
    /\ disk' = [b \in Names |-> IF b \in B THEN Accepted(b) ELSE disk[b]]
    /\ burst' = [b \in Names |-> IF b \in B THEN {} ELSE burst[b]]

\* commit_active_burst_if_needed; RocksDB has nothing to do.
Commit(b) == (NuDB /\ Settle({b})) \/ (~NuDB /\ UNCHANGED <<disk, burst>>)

\* The task of the BatchWriter.
WriteQueued ==
    /\ ~NuDB /\ \E b \in Names : burst[b] # {} /\ Settle({b})
    /\ UNCHANGED <<dirs, pair, doomed, inFlight, op>>

\* The doomed backends that nobody holds any more and that the drop of the
\* last Arc closes and deletes.  NuDB has no drop of its own.
HeldIn(p, f) == {p.w, p.a} \cup UNION {{f[c].w, f[c].a, f[c].t} : c \in Threads}
Gone(p, f) == IF NuDB THEN {} ELSE doomed \ HeldIn(p, f)

\* Thread c goes on with r, and with it drops what it held.
Drops(c, r) ==
    /\ Becomes(c, r)
    /\ LET gone == Gone(pair, op')
       IN  /\ dirs' = dirs \ gone /\ doomed' = doomed \ gone
           /\ disk' = [b \in Names |-> IF b \in gone THEN {} ELSE disk[b]]
           /\ burst' = [b \in Names |-> IF b \in gone THEN {} ELSE burst[b]]

DbInit ==
    /\ dirs = {0, 1} /\ pair = [w |-> 0, a |-> 1]
    /\ disk \in [Names -> SUBSET Objects] /\ \A b \in Names \ {0, 1} : disk[b] = {}
    /\ burst = [b \in Names |-> {}] /\ backend \in Backends
    /\ doomed = {} /\ inFlight = FALSE
    /\ op = [c \in Threads |-> Idle]
-----------------------------------------------------------------------------
(* The write gate.                                                         *)

Foreground == At({"storeIn", "storing", "batchIn"})
Waiting == At({"storeWait", "batchWait"})
Maintaining == At({"forwarding", "copyIn"})

MayStore == Maintaining = {}
MayMaintain == Maintaining = {} /\ Foreground = {} /\ Waiting = {}
-----------------------------------------------------------------------------
(* Stores.                                                                 *)

StartStore(c, x) ==
    /\ Becomes(c, [Idle EXCEPT !.pc = "storeWait", !.objs = {x}])
    /\ UNCHANGED <<dirs, disk, burst, pair, doomed, inFlight>>

StartBatch(c, X) ==
    /\ Becomes(c, [Idle EXCEPT !.pc = "batchWait", !.objs = X])
    /\ UNCHANGED <<dirs, disk, burst, pair, doomed, inFlight>>

EnterForeground(c) ==
    /\ c \in Waiting /\ MayStore
    /\ Becomes(c, [op[c] EXCEPT !.pc = IF @ = "storeWait" THEN "storeIn" ELSE "batchIn"])
    /\ UNCHANGED <<dirs, disk, burst, pair, doomed, inFlight>>

\* store takes the writable backend under the mutex and writes after it.
TakeWritable(c) ==
    /\ op[c].pc = "storeIn"
    /\ Becomes(c, [op[c] EXCEPT !.pc = "storing", !.t = pair.w])
    /\ UNCHANGED <<dirs, disk, burst, pair, doomed, inFlight>>

StoreObject(c) ==
    /\ op[c].pc = "storing"
    /\ WriteOne(op[c].t, op[c].objs)
    /\ Becomes(c, [op[c] EXCEPT !.pc = "stored"])
    /\ UNCHANGED <<dirs, pair, doomed, inFlight>>

\* store_batch holds the mutex through the write.
StoreBatch(c) ==
    /\ op[c].pc = "batchIn"
    /\ WriteBatch(pair.w, op[c].objs)
    /\ Becomes(c, [op[c] EXCEPT !.pc = "stored"])
    /\ UNCHANGED <<dirs, pair, doomed, inFlight>>
-----------------------------------------------------------------------------
(* Reads.                                                                  *)

Capture(c, r) ==
    /\ Becomes(c, [r EXCEPT !.w = pair.w, !.a = pair.a])
    /\ UNCHANGED <<dirs, disk, burst, pair, doomed, inFlight>>

StartFetch(c, x, dup) ==
    Capture(c, [Idle EXCEPT !.pc = "fetchW", !.objs = {x}, !.flag = dup, !.had = x \in Stored])

Found(c, b, pc) == Becomes(c, [op[c] EXCEPT !.pc = pc, !.got = op[c].objs \cap disk[b]])

FetchWritable(c) ==
    /\ op[c].pc = "fetchW"
    /\ Found(c, op[c].w, IF op[c].objs \subseteq disk[op[c].w] THEN "fetched" ELSE "fetchA")
    /\ UNCHANGED <<dirs, disk, burst, pair, doomed, inFlight>>

FetchArchive(c) ==
    /\ op[c].pc = "fetchA"
    /\ Found(c, op[c].a, IF op[c].objs \subseteq disk[op[c].a] THEN "check" ELSE "fetched")
    /\ UNCHANGED <<dirs, disk, burst, pair, doomed, inFlight>>

PairChanged(c) == op[c].w # pair.w \/ op[c].a # pair.a

\* Mutant: a pair that was rotated out meanwhile does not count.
MutCopyForward(c) == ~op[c].flag /\ inFlight

\* An object of an archive that is going away is copied forward.
CopyForward(c) == ~op[c].flag /\ (PairChanged(c) \/ inFlight)

CheckPair(c) ==
    /\ op[c].pc = "check"
    /\ IF op[c].flag \/ CopyForward(c)
       THEN Becomes(c, [op[c] EXCEPT !.pc = "forward", !.t = pair.w])
       ELSE Becomes(c, [op[c] EXCEPT !.pc = "fetched"])
    /\ UNCHANGED <<dirs, disk, burst, pair, doomed, inFlight>>

EnterMaintenance(c) ==
    /\ op[c].pc \in {"forward", "copyWait"} /\ MayMaintain
    /\ Becomes(c, [op[c] EXCEPT !.pc = IF @ = "forward" THEN "forwarding" ELSE "copyIn"])
    /\ UNCHANGED <<dirs, disk, burst, pair, doomed, inFlight>>

Forward(c) ==
    /\ op[c].pc = "forwarding"
    /\ WriteOne(op[c].t, op[c].got)
    /\ Becomes(c, [op[c] EXCEPT !.pc = "fetched"])
    /\ UNCHANGED <<dirs, pair, doomed, inFlight>>

\* The view of export_backend holds both backends and never writes, but the
\* traversal of a NuDB backend commits its burst first.
StartExport(c) == Capture(c, [Idle EXCEPT !.pc = "exporting"])

ExportWritable(c) ==
    /\ op[c].pc = "exporting"
    /\ Commit(op[c].w)
    /\ Becomes(c, [op[c] EXCEPT !.pc = "exportA"])
    /\ UNCHANGED <<dirs, pair, doomed, inFlight>>

ExportArchive(c) ==
    /\ op[c].pc = "exportA"
    /\ Commit(op[c].a)
    /\ Becomes(c, [op[c] EXCEPT !.pc = "exported"])
    /\ UNCHANGED <<dirs, pair, doomed, inFlight>>

\* sync_result, in one step: it holds the mutex, and knows no other backend
\* than the writable one.
Sync(c) ==
    /\ op[c].pc = "idle" /\ Commit(pair.w)
    /\ UNCHANGED <<dirs, pair, doomed, inFlight, op>>
-----------------------------------------------------------------------------
(* copy_to_writable_batch_detailed.                                        *)

StartCopy(c, X) == Capture(c, [Idle EXCEPT !.pc = "copyRead", !.objs = X])

CopyRead(c) ==
    LET missing == op[c].objs \ disk[op[c].w]
    IN  /\ op[c].pc = "copyRead"
        /\ Becomes(c, [op[c] EXCEPT !.pc = "copyWait", !.got = missing \cap disk[op[c].a],
                                    !.lost = missing \ disk[op[c].a]])
        /\ UNCHANGED <<dirs, disk, burst, pair, doomed, inFlight>>

\* What was read belongs to one pair: a rotation in between starts it again.
CopyCommit(c) ==
    /\ op[c].pc = "copyIn"
    /\ IF PairChanged(c)
       THEN Drops(c, [op[c] EXCEPT !.pc = "copyRead", !.w = pair.w, !.a = pair.a])
       ELSE /\ WriteBatch(pair.w, op[c].got)
            /\ Becomes(c, [op[c] EXCEPT !.pc = "copied"])
            /\ UNCHANGED <<dirs, doomed>>
    /\ UNCHANGED <<pair, inFlight>>
-----------------------------------------------------------------------------
(* rotate_impl.                                                            *)

\* unique_backend_path: the lowest number that is not taken.
Unused == Names \ dirs
NewName == CHOOSE b \in Unused : \A x \in Unused : b <= x
MakeBackend == Unused # {} /\ dirs' = dirs \cup {NewName}

\* The flag is set, whether or not the caller has done so before.
StartRotate(c, new) ==
    /\ inFlight' = TRUE
    /\ Becomes(c, [Idle EXCEPT !.pc = "rotate", !.t = new, !.flag = inFlight])
    /\ UNCHANGED <<disk, burst, pair, doomed>>

SwapPair(c) ==
    /\ op[c].pc = "rotate"
    /\ doomed' = doomed \cup {pair.a}
    /\ pair' = [w |-> op[c].t, a |-> pair.w]
    /\ Becomes(c, [op[c] EXCEPT !.pc = "drop", !.a = pair.a])
    /\ UNCHANGED <<dirs, disk, burst, inFlight>>

DropOld(c) ==
    /\ op[c].pc = "drop"
    /\ Drops(c, [Idle EXCEPT !.pc = "rotated"])
    /\ inFlight' = (inFlight /\ op[c].flag)
    /\ UNCHANGED pair
-----------------------------------------------------------------------------
Return(c) ==
    /\ op[c].pc \in {"stored", "fetched", "exported", "copied", "rotated"}
    /\ Drops(c, Idle)
    /\ UNCHANGED <<pair, inFlight>>

\* A thread that is inside a call goes on.
GoOn(c) ==
    \/ EnterForeground(c) \/ TakeWritable(c) \/ StoreObject(c) \/ StoreBatch(c)
    \/ FetchWritable(c) \/ FetchArchive(c) \/ CheckPair(c) \/ EnterMaintenance(c) \/ Forward(c)
    \/ ExportWritable(c) \/ ExportArchive(c) \/ CopyRead(c) \/ CopyCommit(c) \/ SwapPair(c) \/ DropOld(c)

Call(c) ==
    /\ op[c].pc = "idle"
    /\ \/ \E x \in Objects : StartStore(c, x) \/ (\E dup \in BOOLEAN : StartFetch(c, x, dup))
       \/ \E X \in SUBSET Objects \ {{}} : StartBatch(c, X)
       \/ StartExport(c)

ThreadStep(c) == Call(c) \/ GoOn(c) \/ Return(c) \/ Sync(c)
-----------------------------------------------------------------------------
(* Properties.                                                             *)

\* A fetch keeps its word although rotations overtake it.  An object that
\* was in the store when it took its pair is found, because it holds both
\* backends; and what it returns is in the store when it returns, or queued
\* there, copied forward if need be, unless two rotations have passed since.
FetchIsSound ==
    [][\A c \in Threads :
          LET r == op[c]   s == op'[c]
          IN  (r.pc # "fetched" /\ s.pc = "fetched") =>
                /\ s.had => s.got = s.objs
                /\ s.got \subseteq Accepted(pair.w)' \cup Accepted(pair.a)'
                   \/ s.w \notin {pair'.w, pair'.a}]_dbVars
=============================================================================
