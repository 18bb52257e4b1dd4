---------------------------- MODULE OnlineDelete -----------------------------
(***************************************************************************)
(* Online deletion (shamap_store*.rs): a worker thread takes validated     *)
(* ledgers, and once enough of them have passed copies the state of one    *)
(* from the archive to the writable backend and rotates the node store.    *)
(* It runs beside the threads that read and write the store, an operator   *)
(* who sets the can_delete policy, and a stop; and the server may crash    *)
(* and start again from the directories and the saved state.               *)
(*                                                                         *)
(* The worker works on a snapshot of the shared SHAMapStore and merges it  *)
(* back.  Before each destructive stage it waits for the server to be      *)
(* healthy: while it is not, the worker does not move, and once a stop has *)
(* been flagged it gives up instead.  The deletion of rows of the SQL      *)
(* tables and the clearing of ledger caches have no state here; neither    *)
(* has minimum_online, which is only reported.  The keys that freshen the  *)
(* caches are any set.  The names that saved_state keeps in memory are     *)
(* never read and left out; the ones in the state database are `durable`.  *)
(***************************************************************************)
EXTENDS RotatingDatabase

CONSTANTS
    Worker,          \* the worker thread, one of Threads
    StateMap,        \* ledger sequence -> the nodes of its state map
    DeleteInterval,  \* online_delete
    Policies,        \* the values an operator may set can_delete to
    BatchSize        \* SHAMAP_STORE_COPY_BATCH_SIZE

ASSUME DeleteAssumption ==
    /\ Worker \in Threads
    /\ DeleteInterval \in Nat \ {0} /\ BatchSize \in Nat \ {0} /\ Policies \subseteq Nat
    /\ \A s \in DOMAIN StateMap : s \in Nat \ {0} /\ StateMap[s] \subseteq Objects

VARIABLES
    mode,       \* "up", "down", or "refused": it does not start any more
    closed,     \* the last validated ledger
    queued,     \* queued_ledger, 0 when there is none
    working,    \* what rendezvous() answers, negated
    closing,    \* on_ledger_closed is between its two locks
    wake,       \* wake_mutex
    last,       \* saved_state.last_rotated in memory
    can,        \* can_delete of the store, its atomic copy; whether set_can_delete is between them
    durable,    \* the state database; pin: what was safe of pinned then; failed: a save has failed
    stop,       \* how far stop() has come
    wk,         \* the worker: where it is, and its snapshot
    pinned      \* the state map for which the last rotation was made

ctlVars == <<mode, closed, queued, working, closing, wake, last, can, durable, stop, wk>>
odVars == <<dbVars, ctlVars, pinned>>

Seqs == DOMAIN StateMap
halting == stop # "no"                         \* the flags that health waits see
storeFree == ~can.setting                      \* the mutex of the store
stopRequested == stop \in {"requested", "woken", "joined"}

Parked == [pc |-> "check", seq |-> 0, last |-> 0, can |-> 0, todo |-> {}, batch |-> {},
           working |-> FALSE, new |-> None]

\* rotation_ready.
Ready(seq, l, c) ==
    /\ seq >= l + DeleteInterval
    /\ c >= (IF l = 0 THEN 0 ELSE l - 1)

OdInit ==
    /\ DbInit
    /\ mode = "up" /\ closed = 0 /\ queued = 0 /\ working = FALSE /\ closing = FALSE
    /\ wake = FALSE /\ last = 0
    /\ \E c \in Policies :
          /\ can = [store |-> c, atomic |-> c, setting |-> FALSE]
          /\ durable = [w |-> 0, a |-> 1, last |-> 0, can |-> c, pin |-> {}, failed |-> FALSE]
    /\ stop = "no" /\ wk = Parked /\ pinned = {}
-----------------------------------------------------------------------------
(* The validated ledger, the operator and the stop.                        *)

OnLedgerClosed ==
    /\ storeFree /\ ~closing /\ closed + 1 \in Seqs
    /\ closed' = closed + 1 /\ queued' = closed + 1 /\ working' = TRUE /\ closing' = TRUE
    /\ UNCHANGED <<dbVars, mode, wake, last, can, durable, stop, wk, pinned>>

\* Mutant: nobody is notified.
MutNotify ==
    /\ closing /\ closing' = FALSE
    /\ UNCHANGED <<dbVars, mode, closed, queued, working, wake, last, can, durable, stop, wk, pinned>>

Notify ==
    /\ closing /\ closing' = FALSE /\ wake' = TRUE
    /\ UNCHANGED <<dbVars, mode, closed, queued, working, last, can, durable, stop, wk, pinned>>

\* set_can_delete, with the mutex of the store held to the end.  When the
\* state database refuses the value, the store has it and the worker's copy
\* has not.
SetCanDelete(c) ==
    /\ storeFree
    /\ \/ can' = [can EXCEPT !.store = c, !.setting = TRUE] /\ durable' = [durable EXCEPT !.can = c]
       \/ can' = [can EXCEPT !.store = c] /\ UNCHANGED durable
    /\ UNCHANGED <<dbVars, mode, closed, queued, working, closing, wake, last, stop, wk, pinned>>

PublishCanDelete ==
    /\ can.setting /\ can' = [can EXCEPT !.atomic = can.store, !.setting = FALSE]
    /\ UNCHANGED <<dbVars, mode, closed, queued, working, closing, wake, last, durable, stop, wk, pinned>>

\* SHAMapStoreService::stop: the flags, the request, the wake-up, the join.
StopStep ==
    /\ stop' = CASE stop = "no" -> "flagged" [] stop = "flagged" -> "requested"
                 [] stop = "requested" -> "woken" [] OTHER -> "joined"
    /\ stop # "joined" /\ (stop = "woken" => wk.pc = "exited")
    /\ stop \in {"flagged", "woken"} => storeFree
    /\ wake' = (wake \/ stop = "requested")
    /\ UNCHANGED <<dbVars, mode, closed, queued, working, closing, last, can, durable, wk, pinned>>
-----------------------------------------------------------------------------
(* The worker's loop.                                                      *)

Goes(pc) == wk' = [wk EXCEPT !.pc = pc]

\* With wake_mutex held: wait unless there is something to do.
CheckWork ==
    /\ wk.pc = "check" /\ (wake \/ storeFree)
    /\ IF wake \/ stopRequested \/ queued # 0
       THEN Goes("woken") /\ wake' = FALSE
       ELSE Goes("wait") /\ UNCHANGED wake
    /\ UNCHANGED <<dbVars, mode, closed, queued, working, closing, last, can, durable, stop, pinned>>

\* The condition variable wakes a waiting worker when it is notified, or for
\* no reason.
Spurious ==
    /\ wk.pc = "wait" /\ Goes("check")
    /\ UNCHANGED <<dbVars, mode, closed, queued, working, closing, wake, last, can, durable, stop, pinned>>

WakeUp ==
    /\ wk.pc = "wait" /\ wake
    /\ Goes("woken") /\ wake' = FALSE
    /\ UNCHANGED <<dbVars, mode, closed, queued, working, closing, last, can, durable, stop, pinned>>

TestStop ==
    /\ wk.pc = "woken" /\ storeFree
    /\ IF stopRequested THEN Goes("exited") /\ working' = FALSE ELSE Goes("take") /\ UNCHANGED working
    /\ UNCHANGED <<dbVars, mode, closed, queued, closing, wake, last, can, durable, stop, pinned>>

\* take_worker_snapshot.
TakeLedger ==
    /\ wk.pc = "take" /\ storeFree /\ queued' = 0
    /\ wk' = IF queued = 0 THEN Parked
             ELSE [Parked EXCEPT !.pc = "decide", !.seq = queued, !.last = last,
                                 !.can = can.store, !.working = working]
    /\ UNCHANGED <<dbVars, mode, closed, working, closing, wake, last, can, durable, stop, pinned>>

\* Mutant: a ledger that was queued meanwhile is forgotten.
MutMerge ==
    /\ wk.pc = "merge" /\ storeFree
    /\ last' = wk.last /\ wk' = Parked
    /\ working' = wk.working
    /\ UNCHANGED <<dbVars, mode, closed, queued, closing, wake, can, durable, stop, pinned>>

\* merge_worker_state.
Merge ==
    /\ wk.pc = "merge" /\ storeFree
    /\ last' = wk.last /\ wk' = Parked
    /\ working' = IF queued = 0 THEN wk.working ELSE working
    /\ UNCHANGED <<dbVars, mode, closed, queued, closing, wake, can, durable, stop, pinned>>
-----------------------------------------------------------------------------
(* One step of the worker on its snapshot.  `local` are the variables that *)
(* it shares with nobody.                                                  *)

shared == <<backend, mode, closed, queued, working, closing, wake, last, can, stop>>

\* finish_rendezvous on the snapshot and return; or an early return with an
\* error, which leaves the snapshot working.  Either ends the rotation window.
Finish == wk' = [wk EXCEPT !.pc = "merge", !.working = FALSE] /\ inFlight' = FALSE
Fail == Goes("merge") /\ inFlight' = FALSE

dbRest == <<dirs, disk, burst, pair, doomed, op>>

Decide ==
    /\ wk.pc = "decide"
    /\ IF wk.last = 0
       THEN /\ wk' = [wk EXCEPT !.pc = "first", !.last = wk.seq] /\ UNCHANGED inFlight
       ELSE IF Ready(wk.seq, wk.last, wk.can) THEN Goes("refresh") /\ UNCHANGED inFlight ELSE Finish
    /\ UNCHANGED <<dbRest, shared, durable, pinned>>

\* persist_last_rotated of the first ledger.
SaveFirst ==
    /\ wk.pc = "first"
    /\ \/ durable' = [durable EXCEPT !.last = wk.last] /\ Finish
       \/ UNCHANGED durable /\ Fail
    /\ UNCHANGED <<dbRest, shared, pinned>>

\* A health wait that finds the server stopping.  The actions with the guard
\* ~halting are the ones a health wait precedes; a copy under way looks at
\* it only every so many nodes.
GiveUp ==
    /\ halting /\ wk.pc \in {"refresh", "copy", "visit", "window", "prepare", "swap"} /\ op[Worker].pc = "idle"
    /\ Finish
    /\ UNCHANGED <<dbRest, shared, durable, pinned>>

\* Mutant: the policy is not read again after the wait.
MutRefreshPolicy ==
    /\ wk.pc = "refresh" /\ ~halting
    /\ Goes("clear") /\ UNCHANGED inFlight
    /\ UNCHANGED <<dbRest, shared, durable, pinned>>

RefreshPolicy ==
    /\ wk.pc = "refresh" /\ ~halting
    /\ IF Ready(wk.seq, wk.last, can.atomic) THEN Goes("clear") /\ UNCHANGED inFlight ELSE Finish
    /\ UNCHANGED <<dbRest, shared, durable, pinned>>

ClearPrior ==
    /\ wk.pc = "clear"
    /\ \/ wk' = [wk EXCEPT !.pc = "copy", !.todo = StateMap[wk.seq]] /\ UNCHANGED inFlight
       \/ Fail
    /\ UNCHANGED <<dbRest, shared, durable, pinned>>
-----------------------------------------------------------------------------
(* copy_validated_state_map: the nodes of the state map in batches, in the *)
(* order of the traversal, which is any.  A node that is in neither        *)
(* backend is stored again from memory when it is resident; when it is     *)
(* not, the traversal ends with MissingNode.                               *)

StartVisit ==
    /\ wk.pc = "copy" /\ ~halting
    /\ Goes("visit")
    /\ UNCHANGED <<dbVars, shared, durable, pinned>>

CopyBatch ==
    /\ wk.pc = "visit"
    /\ \E X \in SUBSET wk.todo \ {{}} :
          /\ Cardinality(X) <= BatchSize
          /\ wk' = [wk EXCEPT !.pc = "copying", !.batch = X]
          /\ StartCopy(Worker, X)
    /\ UNCHANGED <<shared, durable, pinned>>

MissingNode ==
    /\ wk.pc = "visit" /\ ~(wk.todo \subseteq Stored)
    /\ Finish
    /\ UNCHANGED <<dbRest, shared, durable, pinned>>

BatchDone == wk' = [wk EXCEPT !.pc = "visit", !.todo = @ \ wk.batch, !.batch = {}]

\* Mutant: what was in neither backend is not stored again.
MutBatchCopied ==
    /\ wk.pc = "copying" /\ op[Worker].pc = "copied"
    /\ Return(Worker) /\ BatchDone
    /\ UNCHANGED <<shared, durable, pinned>>

\* copy_rotation_batch after the copy.
BatchCopied ==
    /\ wk.pc = "copying" /\ op[Worker].pc = "copied"
    /\ IF op[Worker].lost = {}
       THEN Return(Worker) /\ BatchDone
       ELSE StartBatch(Worker, op[Worker].lost) /\ UNCHANGED wk
    /\ UNCHANGED <<shared, durable, pinned>>

BatchRescued ==
    /\ wk.pc = "copying" /\ op[Worker].pc = "stored"
    /\ Return(Worker) /\ BatchDone
    /\ UNCHANGED <<shared, durable, pinned>>

\* A backend that cannot be read or written, or a node that cannot be
\* serialised.
CopyFails ==
    /\ wk.pc \in {"copying", "freshening"}
    /\ op[Worker].pc \in {"copyRead", "copyIn", "batchIn", "copied"}
    /\ Drops(Worker, Idle) /\ Fail
    /\ UNCHANGED <<pair, shared, durable, pinned>>

CopyDone ==
    /\ wk.pc = "visit" /\ wk.todo = {}
    /\ Goes("window")
    /\ UNCHANGED <<dbVars, shared, durable, pinned>>
-----------------------------------------------------------------------------
(* The rotation.                                                           *)

OpenWindow ==
    /\ wk.pc = "window" /\ ~halting
    /\ Goes("freshen") /\ inFlight' = TRUE
    /\ UNCHANGED <<dbRest, shared, durable, pinned>>

\* freshen_caches: the keys of the tree and the transaction cache, in batches.
StartFreshen ==
    /\ wk.pc = "freshen"
    /\ \E X \in SUBSET Objects : wk' = [wk EXCEPT !.pc = "freshenKeys", !.todo = X]
    /\ UNCHANGED <<dbVars, shared, durable, pinned>>

FreshenBatch ==
    /\ wk.pc = "freshenKeys"
    /\ \E X \in SUBSET wk.todo \ {{}} :
          /\ Cardinality(X) <= BatchSize
          /\ wk' = [wk EXCEPT !.pc = "freshening", !.batch = X]
          /\ StartCopy(Worker, X)
    /\ UNCHANGED <<shared, durable, pinned>>

Freshened ==
    /\ wk.pc = "freshening" /\ op[Worker].pc = "copied"
    /\ Return(Worker) /\ wk' = [wk EXCEPT !.pc = "freshenKeys", !.todo = @ \ wk.batch, !.batch = {}]
    /\ UNCHANGED <<shared, durable, pinned>>

FreshenDone ==
    /\ wk.pc = "freshenKeys" /\ wk.todo = {}
    /\ Goes("prepare")
    /\ UNCHANGED <<dbVars, shared, durable, pinned>>

\* prepare_rotation; a backend that is prepared and then not used stays.
PrepareRotation ==
    /\ wk.pc = "prepare" /\ ~halting
    /\ \/ /\ MakeBackend /\ wk' = [wk EXCEPT !.pc = "swap", !.new = NewName]
          /\ UNCHANGED inFlight
       \/ Fail /\ UNCHANGED dirs
    /\ UNCHANGED <<disk, burst, pair, doomed, op, shared, durable, pinned>>

RotateBackends ==
    /\ wk.pc = "swap" /\ ~halting
    /\ StartRotate(Worker, wk.new) /\ Goes("rotating")
    /\ UNCHANGED <<dirs, shared, durable, pinned>>

\* What of the rotated state map would survive the end of the process.
PinnedSafe == pinned \cap (Kept(pair.w) \cup Kept(pair.a))

\* Mutant: the names of before the rotation are saved.
MutPersistState ==
    /\ wk.pc = "rotating" /\ op[Worker].pc = "rotated"
    /\ Drops(Worker, Idle)
    /\ durable' = [durable EXCEPT !.last = wk.seq, !.pin = PinnedSafe]
    /\ wk' = [wk EXCEPT !.pc = "merge", !.last = wk.seq, !.working = FALSE] /\ inFlight' = FALSE
    /\ UNCHANGED <<pair, shared, pinned>>

\* persist_state: the pair, after it has been rotated and the old archive
\* dropped.  Neither backend is committed first.
PersistState ==
    /\ wk.pc = "rotating" /\ op[Worker].pc = "rotated"
    /\ Drops(Worker, Idle)
    /\ \/ /\ durable' = [durable EXCEPT !.w = pair.w, !.a = pair.a, !.last = wk.seq,
                                    !.pin = PinnedSafe, !.failed = FALSE]
          /\ wk' = [wk EXCEPT !.pc = "merge", !.last = wk.seq, !.working = FALSE] /\ inFlight' = FALSE
       \/ durable' = [durable EXCEPT !.pin = {}, !.failed = TRUE] /\ Fail
    /\ UNCHANGED <<pair, shared, pinned>>

\* The worker inside a call of the node store.
InStore ==
    /\ GoOn(Worker)
    /\ pinned' = IF op[Worker].pc = "rotate" THEN StateMap[wk.seq] ELSE pinned
    /\ UNCHANGED <<shared, durable, wk>>
-----------------------------------------------------------------------------
(* A crash, or the end of the process after a stop, and the next start.    *)

ProcessEnds ==
    /\ mode = "up" /\ mode' = "down"
    /\ queued' = 0 /\ working' = FALSE /\ closing' = FALSE /\ wake' = FALSE /\ last' = 0
    /\ can' = [store |-> 0, atomic |-> 0, setting |-> FALSE] /\ stop' = "no" /\ wk' = Parked
    /\ inFlight' = FALSE /\ doomed' = {} /\ op' = [c \in Threads |-> Idle]
    /\ UNCHANGED <<dirs, pair, backend, closed, durable, pinned>>

Crash == ProcessEnds /\ UNCHANGED <<disk, burst>>

\* The node store is stopped after the worker, and closes its two backends.
Exit == stop = "joined" /\ ProcessEnds /\ Settle({pair.w, pair.a})

\* reconcile_shamap_store_paths and cleanup_stale_paths: the two directories
\* that were saved must be there, and all the others are deleted.  Opening a
\* NuDB backend rolls it back to the last commit (recover_from_log_if_needed).
Saved == {durable.w, durable.a}

Restart ==
    /\ mode = "down" /\ Saved \subseteq dirs
    /\ mode' = "up" /\ dirs' = Saved /\ pair' = [w |-> durable.w, a |-> durable.a]
    /\ disk' = [b \in Names |-> IF b \in Saved THEN Kept(b) ELSE {}]
    /\ burst' = [b \in Names |-> {}]
    /\ last' = durable.last
    /\ can' = [store |-> durable.can, atomic |-> durable.can, setting |-> FALSE]
    /\ pinned' = durable.pin
    /\ UNCHANGED <<doomed, inFlight, op, backend, closed, queued, working, closing, wake, durable, stop, wk>>

\* "state db error".
Refuse ==
    /\ mode = "down" /\ ~(Saved \subseteq dirs)
    /\ mode' = "refused"
    /\ UNCHANGED <<dbVars, closed, queued, working, closing, wake, last, can, durable, stop, wk, pinned>>
-----------------------------------------------------------------------------
Loop == CheckWork \/ WakeUp \/ TestStop \/ TakeLedger \/ Merge
Step == \/ Decide \/ SaveFirst \/ GiveUp \/ RefreshPolicy \/ ClearPrior
        \/ StartVisit \/ CopyBatch \/ MissingNode \/ BatchCopied \/ BatchRescued \/ CopyFails \/ CopyDone
        \/ OpenWindow \/ StartFreshen \/ FreshenBatch \/ Freshened \/ FreshenDone
        \/ PrepareRotation \/ RotateBackends \/ PersistState \/ InStore

Clients == Threads \ {Worker}
Client(c) ==
    ThreadStep(c) /\ UNCHANGED <<backend, ctlVars, pinned>>

Work == mode = "up" /\ (Loop \/ Step)

OdNext ==
    \/ Work
    \/ /\ mode = "up"
       /\ \/ OnLedgerClosed \/ Notify \/ Spurious \/ StopStep
          \/ PublishCanDelete \/ \E c \in Policies : SetCanDelete(c)
          \/ \E c \in Clients : Client(c)
          \/ WriteQueued /\ UNCHANGED <<backend, ctlVars, pinned>>
    \/ Crash \/ Exit \/ Restart \/ Refuse

\* The worker, a thread that is in a call, and the thread that closes a
\* ledger, sets the policy or stops the store go on.  The worker gets through
\* the write gate, and it and the stop get the mutex of the store, if they
\* are free again and again.
Fairness ==
    /\ SF_odVars(Work)
    /\ \A c \in Clients : WF_odVars(mode = "up" /\ GoOn(c) /\ UNCHANGED <<backend, ctlVars, pinned>>)
    /\ WF_odVars(mode = "up" /\ Notify)
    /\ WF_odVars(mode = "up" /\ PublishCanDelete)
    /\ SF_odVars(mode = "up" /\ stop # "no" /\ StopStep)

OdSpec == OdInit /\ [][OdNext]_odVars
FairOdSpec == OdSpec /\ Fairness
-----------------------------------------------------------------------------
(* Properties.                                                             *)

\* To a reader the store is two generations: a rotation keeps the state map
\* of its ledger whole while the server runs, and a restart brings back what
\* of it was safe when the rotation was noted.
Generations == INSTANCE GenerationStore
    WITH fresh <- disk[pair.w], freshSafe <- Kept(pair.w),
         old <- disk[pair.a], oldSafe <- Kept(pair.a),
         noted <- durable.pin, known <- (durable.w = pair.w /\ durable.a = pair.a)
ImplementsGenerations == Generations!Spec

\* The two backends in use exist, and they are the saved ones except from
\* the rotation until it is saved, or once a save has failed.  The server
\* refuses to start only then, and never with NuDB.
Recoverable ==
    LET unsaved == durable.w # pair.w \/ durable.a # pair.a
    IN  /\ mode # "refused" => {pair.w, pair.a} \subseteq dirs
        /\ (mode = "up" /\ unsaved) => (wk.pc = "rotating" \/ durable.failed)
        /\ mode = "refused" => unsaved /\ ~NuDB

\* When rendezvous says so, nothing is queued and the worker is not at work.
RendezvousIsIdle ==
    (mode = "up" /\ ~working) =>
        \/ wk.pc = "exited"
        \/ queued = 0 /\ wk.pc \in {"check", "wait", "woken", "take"}

\* A rotation that starts to delete is allowed by the policy that was saved,
\* unless the call that sets it has not returned yet.
PolicyHonoured ==
    [][(wk.pc # "clear" /\ wk'.pc = "clear") => (durable.can >= last - 1 \/ can.setting)]_odVars

\* A validated ledger is taken up by the worker, whatever it is doing, and a
\* stop ends; unless the server crashes.
MaintenanceGoesOn ==
    /\ queued # 0 ~> (wk.pc \in {"decide", "exited"} \/ mode # "up")
    /\ stop # "no" ~> (stop = "joined" \/ mode # "up")
=============================================================================
