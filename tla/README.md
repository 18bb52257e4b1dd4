# Formal models of quaxar (xrpld)

TLA+ models of the concurrent and stateful parts of the server, TLC
configurations that check them on small instances, and TLAPS proofs that hold
for every value of the constants.

* [1. The system](#1-the-system)
* [2. Modules and the code](#2-modules-and-the-code)
* [3. Runs](#3-runs)
* [4. Bounds](#4-bounds)
* [5. Fairness](#5-fairness)
* [6. Proofs](#6-proofs)
* [7. Where code and documentation differ](#7-where-code-and-documentation-differ)
* [8. What is not modelled](#8-what-is-not-modelled)

To check a run: `tlc -config MCJobQueue.cfg MCJobQueue`; to check a proof:
`tlapm JobQueueProofs.tla`.

## 1. The system

The server is a workspace of Rust crates: libraries under `src/xrpl` (basics,
core, protocol, shamap, resource) and services under `src/xrpld` (acquisition,
app, consensus, ledger, overlay, nodestore, tx, rpc, server). Its parts, by what
they own and who calls them:

| Part | State | Operations | What makes it hard |
|---|---|---|---|
| app job queue (`app/src/job`) | jobs by type, counters, worker handles, stop flags under one mutex and two condition variables | `add_job`, `reserve_next_job`, worker loop, `rendezvous`, `stop` | notifications outside the mutex, stop flag stored outside it, per-type limits |
| core worker pool (`core/src/jobs/workers.rs`) | atomics, one semaphore, paused stack | `set_number_of_threads`, `add_task`, `stop`, worker loop | no common lock; pause requests and tasks share the semaphore |
| core job queue (`core/src/jobs/job_queue.rs`) | as the app queue, one pool token per runnable job | `add_job`, `process_task`, `stop`, closure counter | three critical sections per job, panics |
| consensus functions (`consensus/src/algorithm`) | none | close, agreement, thresholds, close-time rounding | integer division at small numbers |
| disputed transactions (`consensus/src/model`) | votes, cached counts, avalanche state | `set_vote`, `un_vote`, `update_vote`, `stalled` | cached counts; our vote feeds back |
| consensus round (`consensus/src/algorithm/consensus.rs`) | phase, mode, positions, disputes, result | `start_round`, `peer_proposal`, `got_tx_set`, `timer_entry` | messages in any order, ledger switches, re-entry |
| acquisition coordinator (`acquisition/src/runner.rs`) | sessions, phase, recovery latches, scan permits, timers | 30 kinds of events on one strand | turns nested in handlers, late completions, rotation |
| acquisition adapters (`app/src/ledger/inbound_ledgers`) | read broker, persistence FIFO, handoff | effects and their completions | threads between the strand and the store |
| network operations strand, RCL adaptor | order of heartbeats and events | glue of consensus, validations, acquisition | re-entrant calls between large parts |
| validations and ledger trie | current validations, branch support | `add`, `trust_changed`, `get_preferred` | two indexes of the same facts |
| rotating node store (`nodestore/src/database_runtime`) | two backends, write gate, batch writer | `fetch`, `store`, `store_batch`, `rotate` | calls hold backends that a rotation takes out of use |
| online deletion (`app/src/shamap/shamap_store*.rs`) | queued ledger, last rotated ledger, saved state | worker loop, `on_ledger_closed`, `stop` | a snapshot of shared state, crashes between steps |
| reference counts and pointers (`basics/src/memory`) | one atomic word per object | clone, downgrade, lock, drop, convert | lock-free destruction in two stages |
| tagged cache (`basics/src/sync/tagged_cache.rs`) | strong and weak entries, `cache_count` | `fetch`, `canonicalize`, `sweep`, `del`, `clear` | clients drop pointers beside the mutex |
| hash router, resource manager, load fees, reservations | tables under a mutex | lookups with expiry | time |
| ledger master, open ledger, transaction queue, transactors | ledgers and transactions | close, publish, apply | large sequential data |
| overlay, validator lists, manifests, amendments, fee votes | peers, keys, votes | messages | I/O and signed inputs |
| shutdown tree | registered components | `signal_stop` | registration during shutdown |
| RPC, server, CLI, metrics, SQL | requests | handlers | I/O |

How they interact: the overlay, RPC and the network-operations strand submit
work to the job queue. A heartbeat on that strand reports peers and quorum to the
acquisition coordinator and calls the consensus timer; consensus asks its adaptor
for the network's preferred ledger, and a preferred ledger that is not held
becomes demand for the coordinator, which fetches it, has it written to the node
store and hands it to the ledger master. The node store may rotate at any time.

The hazards of this code are listed, each at its line and with the properties
that would catch it, under `hazards` in `PROJECT.json`.

## 2. Modules and the code

**`JobQueue`** models `xrpld/app/src/job/job_queue.rs`. The fields of `State` are
variables (`queue`, `waiting`, `running`, `deferred`, `processCount`), a critical
section is an action, and each notification after an unlock is an action of its
own: `owedOne` and `owedIdle` in the module hold what is still to be sent. A
worker is a thread with a program counter (`ScanHit`, `ScanMiss`, `Park`,
`FinishJob`, `Notify`); a `RunningJob` handle is a member of `reserved`. Callers
of `stop` and `rendezvous` have a program counter too, because each waits twice.
A job is its index; its type decides its priority. `Before` is the code's order.

**`WorkerPool`** models `xrpl/core/src/jobs/workers.rs` and its semaphore, one
step per atomic operation: nothing but the semaphore, the paused stack and
`pause_mutex` is protected by a lock. One owner calls `set_number_of_threads` and
`stop`; tasks are added by anybody. `Drop` is not an action: every worker holds a
reference to the pool, so it returns at its first test.

**`CoreJobQueue`** models `xrpl/core/src/jobs/job_queue.rs` with the closure
counter it stops by. `add_job` is three steps (test of the flags, count of the
closure, insertion); `process_task` is pick, run, settle, retire and repost, the
three critical sections of the code and what lies between them. The worker pool
appears as a semaphore of tokens. A job may panic.

**`ConsensusFunctions`** holds the operators for `functions.rs`, `timing.rs`,
`params.rs` and `participants_needed`; `Parms` is the record of durations.
**`ConsensusDecisions`** drives them over all times and numbers of proposers and
states what callers rely on.

**`DisputedTx`** is `DisputedTx` as a record with `SetVote`, `UnVote`,
`UpdateVote` and `Stalled`; **`DisputeVoting`** is the life of one dispute under
peers that vote, change and disappear between the ticks of our timer.

**`ConsensusRound`** extends `DisputedTx`. The struct `Consensus` is the record
`c`; each private method is an operator from record to record with the method's
name, and the public methods are the actions. A transaction set is its own id.
What the adaptor answers (the ledger the network is on, ledgers and sets at hand,
open transactions, validated and finished proposers, the wish to pause, the time
since the last close) is a record chosen at each call.

**`Acquisition`** models `xrpld/acquisition/src/runner.rs` with
the phase table of `phase.rs`. The record `c` is `CoordinatorState`; each event of
`handle_event` is an action that applies its handler, an operator with the
handler's name, and then the reconciliation passes in the order of the code. A
plan turn (`plan.rs`) is one of six outcomes: nothing to do, reads issued,
an incremental write with or without the scan going on, the final write, an
invalid tree. One event may run turns of several sessions, when a permit
is passed on; their outcomes are chosen when the event arrives. A completion
(read, write, fence, handoff, timer) is an action enabled while it is
outstanding, so it may come in any order and arbitrarily late. The store's own
generation (`storeGen`) moves before the coordinator hears of it. Peers are reported
by heartbeats and by every demand for a ledger, so the phase-bearing and the
phase-neutral report are both possible at any time and in any kind of start. The seed
of the startup mode is `Connected` or `Full`; the third one of the code, `Syncing`
(`runner.rs:1386`), is never emitted by the server.

**`RefCounts`** models `intrusive_ref_counts.rs` and the pointers of
`intrusive_pointer.rs`. `word` is the atomic word of each object, its two counts
and its two flags; `at` is each pointer, with the point its thread has reached in
an operation on it and the word it last saw. One step is one access to the word,
so a compare-and-exchange loop is a read and an attempt that may fail.
**`SharedObject`** is what the pointers promise: who holds an object, and what is
left of it. `ImplementsSharedObject` maps the one to the other: an operation counts
as its effect from the access at which the word changes.

**`TaggedCache`** puts the cache over `RefCounts`: every step of it is at most one
step of the counts. `op` is the operation that holds the mutex; a `sweep` looks at
one entry per step, and the pointers it removed (`swept`) are dropped after it has
let go of the mutex, beside the clients.

**`RotatingDatabase`** models `database_rotating.rs` and what its backends keep: a
thread is in at most one call, `op`, with the pair of backends it has captured.
`disk` is what can be read from a backend, `burst` what it has accepted and not
settled. With NuDB that is what was written since the last commit, which the next
open rolls back (`recover_from_log_if_needed`); with RocksDB it is what the
`BatchWriter` has queued, which cannot be read yet. `Kept` is what of a backend
outlives the process, `Accepted` what it will have once it is settled. Commits happen
when the burst is full, in `sync`, in the traversal of an export and at close. The
directory of a doomed RocksDB backend goes with the last thread that holds it; NuDB
has no drop of its own, so its directory stays until the next start.

**`OnlineDelete`** extends it by the worker (`wk`, its snapshot of the shared store),
the queue of one ledger, the policy, the stop, and the state database (`durable`), the
only thing besides the directories that the end of the process leaves.
`set_can_delete` is two steps under the mutex of the store, the save and the store to
the atomic, because the worker reads the atomic without the mutex. The state map and the
cache keys are copied batch by batch. A crash takes with it all that `Kept` leaves out;
an exit after a stop closes both backends first.

**`GenerationStore`** is the store without backends, threads and directories: a fresh
and an old generation, how much of each is safe, and the state map that a rotation has
to keep. Its promise has two halves: the map can be read in full while the server
runs, and a restart brings back what of it was safe when the rotation was saved.
`ImplementsGenerations` maps the one to the other.

`...Proofs` modules hold theorems (section 6). `MC*` modules give the constants their values and define nothing of the models.
Definitions called `Mut...` are plausible faults of the definition they follow;
each property is violated when one of them takes its place.

## 3. Runs

| Run | Instance | Distinct states | Shows |
|---|---|---|---|
| `job_queue` | 2 workers, 1 caller, 3 jobs of 3 types | 121,555 | counters equal what is queued and held; a job is queued, held once or done; `stop()` leaves nothing queued or running; no wake-up is lost for good: every accepted job runs and `stop()` returns, having joined its workers |
| `worker_pool` | 3 threads, 4 resizing calls, 2 tasks | 997,131 | threads are active, paused or on their way exactly as the counters say; `stop()` returns, so neither the paused flag nor its notification is missed; tasks run when a thread is left, so no task token is spent on a pause |
| `worker_pool_stop_early` | 2 threads, 1 task | violation | section 7 |
| `core_queue` | 2 workers, 2 callers, 3 jobs, 1 panic | 228,084 | counters and limits; a token never finds an empty queue; nothing enters behind `stop()`; a job is lost only as section 7 shows; `stop()` returns if none is |
| `core_queue_deferred` | 2 workers, 1 caller, 2 jobs | violation | section 7 |
| `dispute` | 4 peers, 6 changes of votes; times to 260 s and 6 proposers for the decision functions | 381,448 | a stalled dispute is decided; we follow a majority only; our vote comes to rest; `check_consensus` answers past its limit; Yes takes 80%; close times are rounded to the nearest and stay after the parent's |
| `consensus_round` | 2 peers, 2 transactions, in two environments: one ledger and 3 proposals past the hard limit; 2 ledgers, 2 rounds and 2 proposals | 2,910,089 | every difference between our set and a peer's is disputed; positions and votes are those on the current ledger; proposals carry growing numbers; past its limits a round waits for a fresh close time only, so silence ends it |
| `acquisition_sessions` | 2 sessions, 1 permit, 4 inputs, any completions | 418,021 | permits are neither lost nor idle; every session that is not finished waits for something that will come; a durable result is not revoked; sessions move forward only |
| `acquisition_policy` | room for 1 session, 2 ledgers, 5 inputs | 639,646 | demand is coalesced; latches name live sessions; recovery targets and deferred demand wait only while something blocks them; the anchor does not chase the consensus target |
| `acquisition_tombstone` | 1 ledger | violation | section 7 |
| `shared_objects` | 2 objects; 4 pointers under the cache, or 3 pointers by themselves | 980,225 | the word implements `SharedObject`; an object nobody holds is destroyed; `cache_count` is the number of strong entries; a node a client holds is the one the cache gives out |
| `online_delete` | 3 ledgers, 1 node, the worker and one other thread, in four scenes; NuDB with bursts, NuDB without, RocksDB | 684,705 | the store implements `GenerationStore`; a fetch overtaken by rotations is sound; a restart finds its backends outside the window of section 7; the policy is honoured; `rendezvous()` reports an idle worker only; the worker neither loses a ledger nor hangs a stop |

Deadlock is checked in `job_queue` and `dispute`. In the others the bound on
calls or inputs runs out, or the server has stopped, and the system rests, which
is no error there.

## 4. Bounds

* Job queues: three jobs are the fewest with which one type is at its limit, one
  job is deferred and a job of another type overtakes it; two workers suffice for
  every race of two critical sections. `MaxPanics = 1`, as a panic ends a thread.
* Worker pool: sizes 0, 1 and 3 make growth from the stack, growth by new threads
  and shrinking by one and by two happen; four calls let each follow each.
* Consensus decisions: twice the hard limit of 120 s; six proposers are where
  80% and 75% first differ as integers in both directions.
* Dispute: four peers and ourselves are the smallest number with a stall of
  exactly 80%. The percentages of the round are one of each avalanche state.
* Consensus round: the durations are the defaults divided by about four with
  their order kept. Three proposals let one peer propose, change and bow out
  while the other disagrees. `maxNow` lies beyond the hard limit and beyond the
  freshness of the last proposal. In the environment `switch` the network moves at
  any tick, with its ledger at hand or not. Peers are symmetric.
* Acquisition: `MaxInputs` bounds demand and reports from outside; completions
  are not bounded. With four inputs two sessions can be demanded and one of the transport,
  sweep, rotation or shutdown come twice; divergence, validation and install
  reports, and those of peers that move the phase, are left to the policy run. Burst and timeouts are 1 or 0 rather
  than the code's constants, so that the limits are reached.
* Shared objects: two objects let an allocation be reused beside one in use; with
  four pointers a client, an entry and its replacement, and a swept pointer exist
  at once. The counts are wide enough for every pointer (`CountsFit`), as
  the code assumes without a test. One key suffices: keys meet in `cache_count`
  only, and the proofs of section 6 have any number of them.
* Online deletion: three ledgers and an interval of one make two rotations, so that a
  call can be overtaken twice; the node is in the first and the third ledger, so
  that it has to be copied forward and may be dropped in between. Four directory
  names are the fewest with which a dropped backend can still be held while the
  next is made. A burst limit of two is one that a single write does not fill. One
  object and one other thread keep the run small, so that a map or a set of cache keys
  is one batch there; the proofs have any number of all of them.

## 5. Fairness

Weak fairness of each thread (the operating system schedules it), of owed
notifications (they are the next instruction), of finishing a reserved job (the
handle is finished or dropped), of a thread in a destructor or waiting for one
(`Finish` in `MCTaggedCache`) and, for disputes, of the timer: `timer_entry` is
called for as long as the round lasts, and the share of the round that has passed
reaches every percentage. Nobody is obliged to add a job, resize a pool, vote,
store or stop. In online deletion a call that sets the policy goes on as well
(`PublishCanDelete`). Strong fairness is used for two threads there, the worker and
the one that stops: both need the mutex of the store, which is free again and again and
not for ever. For the worker it assumes more. Its copies pass the write gate only
when no foreground writer waits or writes; that such gaps come again and again is a
property of the load, which the code does not guarantee, so `MaintenanceGoesOn` says
nothing about starvation at the gate. It also says that an unhealthy server, which
is a worker that does not move, gets well.
`OnlyOrphansAreLost` and `StopReturns` of the core queue exempt the jobs of section
7, and nothing else.

## 6. Proofs

All from the assumptions that the modules name, which TLC evaluates in the runs.
In the larger modules `USE Zenon` makes Zenon the prover of a leaf that names
none, and a leaf that needs arithmetic or records says `SMT`.

**`JobQueueProofs`**: for any number of workers, callers, types, limits and jobs
(`Types` and limits natural numbers), `TypeOK`, `CountersExact`, `NoJobLost` and
`StoppedIsDrained` are invariants. `CountersExact` is not inductive alone: one
needs that a worker holds a job exactly while its program counter says so
(`PcOK`), that no two hold the same (`NoJobLost`) and, for the drain, that a
caller beyond it has seen the queue idle with the stop flag set (`DrainOK`), which
is stable as `add_job` refuses. The inductive invariant is their conjunction. The
lemma `Shapes` reduces each of the actions to one of four: add, start, end, keep;
the cardinality arguments are made once for each shape.

**`WorkerPoolProofs`**: for any finite set of threads, any sizes and any number of
calls and tasks, `PoolBalance` holds. It lacks three things to be inductive: the
types, that a wake-up is pending only for a worker that is resting and never twice
(`WakesAreOwed`, a theorem of its own), and that an owner about to post a
pause request has one left to post (`RequestIsDue`). Workers are counted by the
set of points they are at; a step moves one worker from one set to another.

**`CoreJobQueueProofs`**: for any number of workers, callers, types, limits, jobs
and panics, `JobsAreAccounted` and `JoinedIsDrained` hold, and a worker that took a
token always finds a job (`TokensFindJobs`): the branch in which `process_task`
gives up is never taken. The difficulty is the tokens. `waiting`, `running` and
`deferred` change in three critical sections, and the number of jobs that may start
is a minimum per type. What is inductive is a sum without minima
(`TokensAreBacked`): `Backed` is, per type, `waiting - deferred` less the jobs that
a finishing worker is about to pay for; its sum is at least the tokens that exist or
are owed, and with `running` it fits under the limit. The other conjuncts are the
counters (`CountersOK`), the place of every job (`EveryJobIsSomewhere`), what a
worker's program counter says of its job (`Holding`) and what `join` has seen
(`JoinOK`). The sums are `SumFunction` of the community modules; how one changes with
a summand is proved by induction over the subsets of the domain (`Least` gives a
smallest counterexample, in place of the library's induction rules).

**`ConsensusProofs`**: for all natural durations with `maxConsensus <= abandon`
(where the code's `clamp` would panic otherwise) and any number of proposers,
`RoundMustEnd`, `YesNeedsAgreement`, `CloseTimeIsNearest`, and that thresholds
can be reached, resolutions stay on their ladder and the patience of `should_pause`
grows within a cycle. For one dispute with any finite set of peers and any number
of votes: the types, the exact counts, that a stalled dispute is decided, and the
action property that the avalanche only moves forward and that we turn to yes only
with a majority. The inductive invariant is the shape of the record and the exact
counts; `SetVoteExact` and `UnVoteExact` show that a new, changed, repeated or
withdrawn vote keeps the counts, `ShareBounds` what integer division loses.

**`ConsensusRoundProofs`**: for any finite set of peers, any transactions, ledgers,
messages, answers of the adaptor and natural durations, `DisputesAreComplete`,
`VotesAreCurrent`, `ProposalsAreOrdered` and `RoundEnds` hold. The assumptions are
those of `ConsensusRound` on the shape of the environments and that the clock, which
moves by one with each `timer_entry`, stays below `SEQ_LEAVE`: our sequence number
grows at most once per tick, and this is what keeps it from reaching the number that
means bowing out. What is inductive (`IInv`, which TLC has checked on the instance of
`consensus_round`):

* `Held`, `Recorded`: a position is on our ledger and of a peer that has not bowed
  out, and the proposals kept of that peer end with one at least as new. Playback and
  the end of a round both need the second half.
* `Counted`: every set that a voting peer proposes is among those compared
  (`compares`), every transaction in which a compared set differs from ours is in
  dispute, and the ballots are those of the positions. The detour over `compares` is
  what makes completeness inductive: `create_disputes` returns at once for a set it
  has seen, and a change of our own position flips disputed transactions only.
* `Ordered`: the last number sent is at most that of our position, and the latter is
  at most the ticks since the ledger closed, plus one once this tick has changed it
  (the parameter `k`); a result exists in phase `Establish` and not in `Open`.
* `Ends`: `RoundEnds` with the last proposal of a peer as the fresh one.

The operators fold record updates over sets of peers in no particular order.
`FoldExists` shows that such a recursion has a solution which stays in sets given for
every subset, from any choice of the next element; each fold of the model is an
instance of it (a late set's votes, the votes of a new dispute, the sets compared when the
ledger closes, stale positions, playback). Its induction is over the subsets of a
finite set, by way of a least counterexample. The rest goes along the calls: one
lemma per operator, named after it, says that it keeps `Fit`, or for the treatment of
peers that it leaves everything else alone (`PeersStep`).

**`RefCountsProofs`**: for any number of objects, and of pointers that the fields
of the word can count, `ImplementsSharedObject`; the word of every live object is
exact (`WordsAreExact`), and no pointer names a destroyed object
(`PointersAreSafe`). The inductive invariant says of each handle what its point in
an operation tells of its object (`HandleOK`), of each object that its counts are
the cardinalities of its holders, operations between two accesses included, and
that its flags and its life agree (`ObjectOK`), and that at most one thread is
in its destructor of either stage. The theorems assume `DebugAssertions` (section
7).

**`TaggedCacheProofs`**: for any number of keys, handles and objects,
`CountIsExact`, `CanonicalIsTracked` and, from the cache's own specification,
`ImplementsSharedObject`. The invariant adds to that of the counts the types, that
entries, operands and swept pointers are pairwise different handles (`Apart`), which
handle may be between two accesses under which operation (`Converting`), the
relation of `cache_count` to the strong entries in the middle of a sweep or
deletion (`Counted`), the operation's own state (`OpOK`), and that an object handed
out and still held is the one its key finds (`Tracked`). It does not assume
`DebugAssertions`: the cache never upgrades a union in place, so its pointers are safe in
every build.

**`StorageProofs`**: for either kind of backend, any burst limit and any number of
threads, objects, directories and ledgers, `Recoverable`, `RendezvousIsIdle`,
`PolicyHonoured`, `FetchIsSound` and `ImplementsGenerations`. `RotatedLedgerIsKept`
draws the conclusion for a reader: the map of the ledger last rotated on can be read at
all times, and what of it was noted as safe is safe as long as the saved names are the
ones in use. It does not say that the whole map is noted; with NuDB it need not be
(section 7). `PolicyHonoured` allows for a call of `set_can_delete` between its save and
its store to the atomic, when the worker may still act on the value before.
The inductive invariant couples the worker with its call
(`Coupled`), says that what a call holds exists (`Held`), that the backend made for the
next rotation is empty and unknown to others (`NextIsFresh`), what a call has found
(`CallsOK`), how much of the state map has been copied (`Copied`), what a restart
will find (`Noted`) and what the shared flags say (`Accounted`). The proof goes by
kinds of steps: most are tame (`Tame`: the pair stays, what is written was held or
goes to the writable backend, and what was safe stays so), so that only the rotation,
the worker's own steps and the end of the process need an argument of their own.

Only model-checked: liveness (`EveryJobRuns`, `StopReturns`, `EveryTaskRuns`,
`OnlyOrphansAreLost`, `VoteSettles`, `UnheldIsFreed`, `MaintenanceGoesOn`), which is out of
the prover's reach; and the properties of `Acquisition`, whose nested turns are a
recursive operator, which the prover does not accept.

## 7. Where code and documentation differ

Shown by a run:

* `worker_pool_stop_early`: `stop()` "waits until all workers are paused and no
  callback is running" (`workers.rs:10`); it can return just before one runs.
* `core_queue_deferred`: a job added at its limit between the two critical
  sections that end `process_task` is deferred and never gets a token;
  `rendezvous()` and `stop()` then wait for ever.
* `acquisition_tombstone`: a session whose timeout handler adopts an invalid
  resident tree fails inside the handler, which then overwrites the retention
  timer (`runner.rs:2650`). The failed session is never reaped and
  answers for its hash from then on.

Met while modelling, without a run of their own:

* Two overlapping `JobQueue::stop()` calls: the second takes an empty list of
  handles and sets `stopped` while workers live (`job_queue.rs:660`).
  The drain is complete all the same: `StopDrains` is proved for any number of callers.
* A dispute with five peers against us is stalled at 83%, and the round ends as
  Yes on our side (`disputed_tx.rs:185`, `types.rs:145`).
* The mode stays `WrongLedger` when the network returns to the ledger we hold
  (`consensus.rs:665`, `types.rs:32`).
* `max_sessions` is "the maximum concurrently live sessions" (`runner.rs:161`); a
  swept session is not counted and may be revived without a capacity test.
* Authoritative demand in phase `Disconnected` with peers preempts a session and
  is then refused by the phase table, so that no session takes its place.
* `convert_to_strong` of `SharedWeakUnion` releases its old weak reference inside
  `debug_assert_eq!` (`intrusive_pointer.rs:604`): in a build without debug
  assertions the reference stays counted and the object is never destroyed. The
  models have the constant `DebugAssertions`; nothing in the cache calls this method.
* A crash between a rotation and the save of the new names leaves directories that
  the saved state does not name, and the next start is refused. `Recoverable` says
  that this is the only window, but for a save that has failed.
* "Copies are bounded into 64-hash durable batches" (`docs/ARCHITECTURE.md:242`). A batch
  copied into a NuDB backend joins the burst, which is committed only when it is long
  enough (`nudb_backend.rs:1526`); neither the copy, nor the rotation, nor
  `persist_state` syncs, and `sync` reaches the new writable backend only. After a crash
  the saved names can therefore lead to an archive without the last nodes of the state
  map, whose other copy went with the old archive. With a burst limit of two, TLC finds this
  in 33 steps from the property that `durable.pin` is all of `pinned` after a save;
  `GenerationStore` promises what the code does keep.
* While `set_can_delete` is between its save and its store to the atomic, the worker can
  start a rotation that the saved policy forbids (`shamap_store_component.rs:183`, `237`).
* A failed save does not undo the rotation. The next rotation may then give a new
  backend the number of a directory that has been deleted and that the saved state
  still names.

## 8. What is not modelled

`PROJECT.json` lists every part with its reason. In short: byte-level code
(protocol, file formats, SQL), I/O (transport, RPC, command line) and the
transactors are out of a small instance's reach. Parts that are sequential behind a
mutex (validations and the ledger trie, hash router, resource manager, fee voting)
would gain little from interleavings; the trie's branch support could be checked
against a reference definition. The batch writer of the node store appears as its
queue and the task that writes it, without its limit, at which a store waits; the acquisition adapters as the completions they report, in any order, and the
shutdown tree as the stops it calls.

Inside the modelled parts, statistics, JSON, logs, coroutines, peer selection and
request credits of the coordinator, its packet mailboxes and the refinement of a
target's sequence number are left out, and no property depends on them. In
`OnlineDelete` only the worker rotates and copies, so the branch of a copy that
finds the pair changed and starts over is part of `RotatingDatabase` and
never taken in the composition. The end of the process is modelled, that of the
machine is not: what a backend has committed, and every save of the state database, is
taken to last. A NuDB backend that refuses everything after a failed write is not
modelled either, and the save of the policy is the one made with `advisory_delete`. The reference counts never overflow in the model: the code
tests them in debug assertions only.

What would come next: the invariants of `Acquisition`, once its turns are written as
a recursive function; the read broker and the persistence FIFO, composed with the coordinator.
