----------------------------- MODULE Acquisition -----------------------------
(***************************************************************************)
(* The acquisition coordinator of xrpld/acquisition/src/runner.rs: the one *)
(* owner of the sessions that fetch ledgers from peers, of the sync phase  *)
(* of the server, and of the latches that say which ledger it recovers to. *)
(*                                                                         *)
(* The coordinator is a record `c' and every event is one action: the      *)
(* handler is an operator from record to record, followed by the           *)
(* reconciliation passes of handle_event.  A turn of a session's plan      *)
(* (plan.rs, run_turn) is a choice of one of the outcomes the runner tells *)
(* apart; a handler may run the turns of several sessions, when a permit   *)
(* passes from one to the next, so the choices are made when the event     *)
(* arrives and kept in c.oracle.                                           *)
(*                                                                         *)
(* A target is its hash: the optional sequence number only refines a       *)
(* target of the same hash.  Peers are present or absent; request credits, *)
(* peer selection, mailboxes and statistics are left out, and so is the    *)
(* Dormant session phase, which no code assigns.                           *)
(***************************************************************************)
EXTENDS Integers, Sequences, FiniteSets, SequencesExt, TLC

CONSTANTS
    Hashes,          \* ledger hashes, positive numbers; 0 is "no target"
    Reasons,         \* reasons a demand may carry
    Outcomes,        \* outcomes of a plan turn that this instance lets happen
    Residents,       \* whether the plan seed has a resident engine: a set of Booleans
    StartModes,      \* startup phases: "Connected" (networked), "Full" (start_valid)
    MaxSessions,     \* BudgetState::max_sessions
    MaxScanOwners,   \* MAX_LOCAL_SCAN_OWNERS
    MaxBurst,        \* MAX_PLAIN_CONSENSUS_SCAN_BURST
    MaxTimeouts,     \* DEFAULT_MAX_ACQUIRE_TIMEOUTS
    MaxMinted,       \* bound: sessions ever created
    Inputs,          \* classes of inputs that arrive in this instance
    MaxInputs        \* bound: how many inputs arrive

Classes ==
    {"acquire", "consensus", "divergence", "validation", "peers", "transport", "ledger", "store",
     "sweep", "shutdown"}
AllOutcomes == {"idle", "reads", "incremental", "laneWrite", "final", "invalid"}
AllReasons == {"Consensus", "Generic", "History"}
None == 0

ASSUME AcquisitionAssumption ==
    /\ Hashes \subseteq Nat \ {0}
    /\ Reasons \subseteq AllReasons /\ Outcomes \subseteq AllOutcomes
    /\ Residents \subseteq BOOLEAN /\ StartModes \subseteq {"Connected", "Full"}
    /\ MaxSessions \in Nat \ {0} /\ MaxScanOwners \in Nat \ {0}
    /\ MaxBurst \in Nat /\ MaxTimeouts \in Nat /\ MaxMinted \in Nat
    /\ Inputs \subseteq Classes /\ MaxInputs \in Nat

VARIABLES
    c,          \* CoordinatorState and the shutdown flag
    storeGen,   \* generation of the NodeStore; the coordinator learns of it later
    left        \* inputs that may still arrive (bound)

vars == <<c, storeGen, left>>

InitialState ==
    [ phase       |-> [name |-> "Disconnected", on |-> None],
      quorum      |-> TRUE,        \* consensus_quorum_available
      peers       |-> FALSE,       \* peer_view has usable peers
      shutdown    |-> FALSE,
      startup     |-> "none",      \* the startup mode, once it was reported
      sessions    |-> <<>>,        \* by session id
      next        |-> 1,           \* next session id
      gen         |-> 1,           \* storage_generation
      peerless    |-> <<>>,        \* deferred_acquires, by hash
      latest      |-> None,        \* latest_consensus_target
      deferred    |-> None,        \* deferred_consensus_acquire
      anchor      |-> None,        \* recovery_anchor_target
      anchorOwner |-> None,        \* recovery_anchor_session
      vr          |-> None,        \* validation_recovery_target
      vrOwner     |-> None,        \* validation_recovery_session
      vrNext      |-> None,        \* validation_recovery_candidate
      installed   |-> FALSE,       \* last_installed_lcl is known
      owners      |-> {},          \* local_scan_owners
      waiters     |-> <<>>,        \* local_scan_waiters
      burst       |-> 0,           \* plain_consensus_scan_burst
      swept       |-> {},          \* swept_local_scan_owners
      oracle      |-> <<>>,        \* outcomes of this event's plan turns
      resident    |-> FALSE ]      \* this event's answer of build_resident

Init == c = InitialState /\ storeGen = 1 /\ left = MaxInputs
-----------------------------------------------------------------------------
(* Sessions.                                                               *)

NewSession(h, reason, gen, seeded) ==
    [ hash |-> h, reason |-> reason, gen |-> gen, phase |-> "Active",
      admitted |-> TRUE,            \* network_admitted
      seeded |-> seeded,            \* the plan has an engine
      header |-> ~seeded,           \* pending_header_read
      reads |-> FALSE,              \* traversal reads pending
      probes |-> FALSE,             \* recovery reads pending
      write |-> "none",             \* SessionPersistence
      timeouts |-> 0,
      timer |-> "acquire",          \* pending_timer, by kind
      expiry |-> FALSE,             \* pending_expiry_timer
      eligible |-> FALSE,           \* expiry_sweep_eligible
      published |-> FALSE ]         \* PublishDurable sent and not answered

Has(d, s) == s \in DOMAIN d.sessions
Live(r) == r.phase \in {"Active", "Persisting", "DurablePending"}
LiveFor(d, h) == {s \in DOMAIN d.sessions : Live(d.sessions[s]) /\ d.sessions[s].hash = h}
IsActive(d, s) == Has(d, s) /\ d.sessions[s].phase = "Active"

Least(S) == CHOOSE x \in S : \A y \in S : x <= y
InOrder(S) == SetToSortSeq(S, LAMBDA a, b : a < b)

\* viable_session_for_target: the oldest live session of the hash.
Viable(d, h) == IF LiveFor(d, h) = {} THEN None ELSE Least(LiveFor(d, h))

\* Capacity counts live sessions that the registry has not swept.
Counted(d) == {s \in DOMAIN d.sessions : Live(d.sessions[s]) /\ s \notin d.swept}

Scanning(d, s) == s \in d.owners \/ Contains(d.waiters, s)

\* The next phase, or Rejected where phase_transition has no row.
Phase(n) == [name |-> n, on |-> None]
Syncing(h) == [name |-> "Syncing", on |-> h]
Rejected == Phase("Rejected")

PhaseTransition(p, fact, h) ==
    CASE fact \in {"PeersAvailable", "QuorumAvailable"} /\ p.name = "Disconnected" -> Phase("Connected")
      [] fact \in {"TargetRequired", "Divergence"} /\ p.name \in {"Connected", "Full"} -> Syncing(h)
      [] fact \in {"TargetRequired", "Divergence"} /\ p.name = "Syncing" -> p
      [] fact = "Divergence" /\ p.name = "Tracking" -> Syncing(h)
      [] fact = "LclInstalled" /\ p.name \in {"Connected", "Syncing"} -> Phase("Tracking")
      [] fact = "Reconciled" /\ p.name = "Syncing" -> Phase("Tracking")
      [] fact = "ViewChange" /\ p.name \in {"Tracking", "Full"} -> Phase("Connected")
      [] fact = "Contiguous" /\ p.name = "Tracking" -> Phase("Full")
      [] fact = "Blocked" /\ p.name = "Full" -> Phase("Connected")
      [] fact \in {"PeersLost", "QuorumLost"}
           /\ p.name \in {"Connected", "Syncing", "Tracking", "Full"} -> Phase("Disconnected")
      [] fact = "Shutdown" /\ p.name # "Stopping" -> Phase("Stopping")
      [] OTHER -> Rejected

\* Applies a fact; an illegal one leaves the phase alone.
InPhase(d, p) == IF p = Rejected THEN d ELSE [d EXCEPT !.phase = p]
ApplyFact(d, fact, h) == InPhase(d, PhaseTransition(d.phase, fact, h))
-----------------------------------------------------------------------------
(* Local scan permits: at most MaxScanOwners sessions walk their tree.     *)

\* scan_priority_rank: the anchor, validation recovery, other consensus
\* work, everything else.
Rank(d, s) ==
    CASE s = d.anchorOwner -> 0
      [] s = d.vrOwner /\ s # d.anchorOwner -> 1
      [] s \notin {d.anchorOwner, d.vrOwner} /\ d.sessions[s].reason = "Consensus" -> 2
      [] OTHER -> 3

\* The first session of seq, in rank order, among the indices I.
FirstByRank(d, seq, I) ==
    IF I = {} THEN None
    ELSE seq[CHOOSE i \in I : \A j \in I : \/ Rank(d, seq[i]) < Rank(d, seq[j])
                                           \/ Rank(d, seq[i]) = Rank(d, seq[j]) /\ i <= j]

BestConsensusCandidate(d, seq) ==
    FirstByRank(d, seq, {i \in DOMAIN seq : IsActive(d, seq[i]) /\ Rank(d, seq[i]) < 3})

DropWaiter(d, s) == [d EXCEPT !.waiters = SelectSeq(@, LAMBDA x : x # s)]
AddWaiter(d, s) == [d EXCEPT !.waiters = IF Contains(@, s) THEN @ ELSE Append(@, s)]
GiveRoom(d) == Cardinality(d.owners) < MaxScanOwners

\* What run_plan_turn does once the plan has run (defined below).
RECURSIVE RunTurn(_, _)

\* An owner of lower rank that waits for an incremental write may lose its
\* permit: the highest rank first, the youngest among equals.
BlockedOwner(d, recovery) ==
    LET B == {o \in d.owners : /\ Rank(d, o) > Rank(d, recovery)
                               /\ d.sessions[o].write = "incremental"}
        barred == Rank(d, recovery) = 2 /\ d.burst >= MaxBurst
    IN  IF GiveRoom(d) \/ barred \/ B = {} THEN None
        ELSE CHOOSE o \in B : \A x \in B : \/ Rank(d, x) < Rank(d, o)
                                           \/ Rank(d, x) = Rank(d, o) /\ x <= o

Reclaim(d, o, plain) ==
    IF o = None THEN d
    ELSE [d EXCEPT !.owners = @ \ {o}, !.burst = IF plain THEN @ + 1 ELSE @]
ReclaimFor(d, recovery) ==
    IF recovery = None THEN d
    ELSE Reclaim(d, BlockedOwner(d, recovery), Rank(d, recovery) = 2)

\* The turn that s asks for goes to the best candidate rec, or to s, or waits.
Owning(d, s) == [DropWaiter(d, s) EXCEPT !.owners = @ \cup {s}]
GrantPermit(d, s, rec) ==
    IF rec \in d.owners THEN [st |-> IF rec = s THEN d ELSE AddWaiter(d, s), ok |-> rec = s]
    ELSE IF rec # None /\ GiveRoom(d)
    THEN IF rec = s THEN [st |-> Owning(d, s), ok |-> TRUE]
         ELSE [st |-> RunTurn(AddWaiter(Owning(d, rec), s), rec), ok |-> FALSE]
    ELSE IF GiveRoom(d) /\ d.waiters = <<>>
         THEN [st |-> [d EXCEPT !.owners = @ \cup {s}], ok |-> TRUE]
         ELSE [st |-> AddWaiter(d, s), ok |-> FALSE]
ReclaimAndGrant(d, s, rec) == GrantPermit(ReclaimFor(d, rec), s, rec)

\* ensure_local_scan_permit: the new state, and whether s may run its turn.
EnsurePermit(d, s) ==
    CASE ~IsActive(d, s) -> [st |-> d, ok |-> FALSE]
      [] IsActive(d, s) /\ d.sessions[s].write = "incremental" ->
            [st |-> DropWaiter(d, s), ok |-> FALSE]
      [] IsActive(d, s) /\ d.sessions[s].write # "incremental" /\ s \in d.owners ->
            [st |-> d, ok |-> TRUE]
      [] OTHER ->
            ReclaimAndGrant(d, s, IF Rank(d, s) < 3
                                  THEN BestConsensusCandidate(d, Append(d.waiters, s)) ELSE None)

\* yield_ordinary_scan_to_recovery.
MayYield(d, s, rec) ==
    /\ s \in d.owners /\ IsActive(d, s)
    /\ ~d.sessions[s].reads /\ ~d.sessions[s].probes
    /\ rec # None /\ Rank(d, rec) < Rank(d, s)
Pass(d, s, rec, requeue, plain) ==
    [DropWaiter(DropWaiter(d, rec), s) EXCEPT
        !.owners = (@ \ {s}) \cup {rec},
        !.waiters = IF requeue THEN Append(@, s) ELSE @,
        !.burst = IF plain THEN @ + 1 ELSE @]
YieldTo(d, s, requeue, rec) ==
    LET plain == Rank(d, rec) = 2 /\ Rank(d, s) = 3
    IN  IF ~MayYield(d, s, rec) THEN [st |-> d, ok |-> FALSE]
        ELSE IF plain /\ d.burst >= MaxBurst THEN [st |-> [d EXCEPT !.burst = 0], ok |-> FALSE]
        ELSE [st |-> RunTurn(Pass(d, s, rec, requeue, plain), rec), ok |-> TRUE]
Yield(d, s, requeue) == YieldTo(d, s, requeue, BestConsensusCandidate(d, d.waiters))

\* pop_scan_waiter: recovery work first; plain consensus work may pass over
\* ordinary work MaxBurst times.
Prune(d) == [d EXCEPT !.waiters = SelectSeq(@, LAMBDA x : IsActive(d, x))]
WaitersAt(d, R) == {i \in DOMAIN d.waiters : Rank(d, d.waiters[i]) \in R}

\* top, plain, rest: the waiters for recovery, other consensus work, the rest.
PopAmong(d, top, plain, rest) ==
    LET overdue == plain # {} /\ rest # {} /\ d.burst >= MaxBurst
        pick == FirstByRank(d, d.waiters, IF top = {} /\ overdue THEN rest ELSE DOMAIN d.waiters)
        burst == CASE top # {} -> d.burst
                   [] top = {} /\ (overdue \/ plain = {}) -> 0
                   [] OTHER -> IF rest # {} THEN d.burst + 1 ELSE d.burst
    IN  [st |-> [DropWaiter(d, pick) EXCEPT !.burst = burst], next |-> pick]
PopFrom(d) ==
    IF d.waiters = <<>> THEN [st |-> d, next |-> None]
    ELSE PopAmong(d, WaitersAt(d, {0, 1}), WaitersAt(d, {2}), WaitersAt(d, {3}))
PopWaiter(d) == PopFrom(Prune(d))

\* The permit goes to the popped waiter, whose turn runs at once.
HandOn(p) ==
    IF p.next = None THEN p.st
    ELSE RunTurn([p.st EXCEPT !.owners = @ \cup {p.next}], p.next)

\* release_local_scan_permit.
Release(d, s) ==
    LET e == [DropWaiter(d, s) EXCEPT !.owners = @ \ {s}, !.swept = @ \ {s}]
    IN  IF s \in d.owners THEN HandOn(PopWaiter(e)) ELSE e

Forget(d, s) == [d EXCEPT !.sessions = [x \in DOMAIN @ \ {s} |-> @[x]]]

\* expire_idle_session: an Active session is removed at once.
Expire(d, s) ==
    IF ~Has(d, s) THEN d
    ELSE IF IsActive(d, s) THEN Release(Forget(d, s), s)
    ELSE [d EXCEPT !.sessions[s].expiry = FALSE]

\* Mutant: a session that waits for the network keeps its permit.
MutBoundary(d, s) == IF s \in d.swept THEN Expire(d, s) ELSE d

\* release_local_scan_at_network_boundary.
ExpireIf(d, s, marked) == IF marked THEN Expire(d, s) ELSE d
Boundary(d, s) == ExpireIf(Release(d, s), s, s \in d.swept)

\* The plan keeps its engine and drops every pending operation.
Ended(r, phase) ==
    [r EXCEPT !.phase = phase, !.timer = "none", !.expiry = FALSE, !.header = FALSE,
              !.reads = FALSE, !.probes = FALSE, !.write = "none", !.published = FALSE]

\* arm_terminal_retention.
Retain(d, s) == [d EXCEPT !.sessions[s].timer = "retention"]

\* Mutant: a durable result may still be cancelled.
MutEndable(d, s) == Has(d, s) /\ Live(d.sessions[s])

\* fail_session and cancel_session: legal from Active and Persisting only.
Endable(d, s) == Has(d, s) /\ d.sessions[s].phase \in {"Active", "Persisting"}

Fail(d, s) ==
    IF ~Endable(d, s) THEN d
    ELSE Retain(Release([d EXCEPT !.sessions[s] = Ended(@, "Failed")], s), s)

Cancel(d, s) ==
    IF ~Endable(d, s) THEN d
    ELSE Retain(Release([d EXCEPT !.sessions[s] = Ended(@, "Cancelled")], s), s)

CancelForShutdown(d, s) ==
    IF ~Endable(d, s) THEN d
    ELSE Release([d EXCEPT !.sessions[s] = Ended(@, "Cancelled")], s)

\* Without an engine a turn has nothing to do, and it waits for the whole
\* batch of traversal reads; otherwise the tree decides.
TurnOutcome(d, s) ==
    IF ~d.sessions[s].seeded \/ d.sessions[s].reads THEN "idle" ELSE d.oracle[s]

\* The tree is complete: its final write is on the way, and only the write
\* and its fence govern the session from here.
Persisting(r) ==
    [r EXCEPT !.phase = "Persisting", !.timer = "none", !.write = "final",
              !.header = FALSE, !.probes = FALSE]

\* Without local reads the session waits for the network from here.
Pending(r) == r.reads \/ r.probes
BoundaryUnless(d, s, pending) == IF pending THEN d ELSE Boundary(d, s)
Written(d, s) == Yield([d EXCEPT !.sessions[s].write = "incremental"], s, FALSE).st

TurnWith(d, s, o) ==
    CASE o = "reads" -> [d EXCEPT !.sessions[s].reads = TRUE]
      [] o \in {"idle", "incremental", "laneWrite"} ->
            BoundaryUnless(IF o = "idle" THEN d ELSE Written(d, s), s,
                           o = "incremental" \/ Pending(d.sessions[s]))
      [] o = "final" -> [Release(d, s) EXCEPT !.sessions[s] = Persisting(@)]
      [] o = "invalid" -> Fail(Release(d, s), s)

TurnIf(p, s) == IF p.ok THEN TurnWith(p.st, s, TurnOutcome(p.st, s)) ELSE p.st
RunTurn(d, s) == TurnIf(EnsurePermit(d, s), s)

\* touch_session_expiry: demand for the hash revives a swept session.
Touch(d, s) ==
    LET e == [d EXCEPT !.swept = @ \ {s}]
    IN  IF IsActive(e, s)
        THEN [e EXCEPT !.sessions[s].eligible = FALSE, !.sessions[s].expiry = TRUE]
        ELSE e
-----------------------------------------------------------------------------
(* on_acquire.                                                             *)

\* retain_peerless_acquire: one preferred and one ordinary demand outlive a
\* time without peers.
RetainPeerless(d, h, reason, preferred, neutral) ==
    LET old == IF h \in DOMAIN d.peerless THEN d.peerless[h]
               ELSE [reason |-> reason, preferred |-> FALSE, neutral |-> TRUE]
        new == [ reason |-> IF preferred \/ ~old.preferred THEN reason ELSE old.reason,
                 preferred |-> old.preferred \/ preferred,
                 neutral |-> old.neutral /\ neutral ]
        kept == {x \in DOMAIN d.peerless \ {h} : d.peerless[x].preferred # new.preferred}
    IN  [d EXCEPT !.peerless = (h :> new) @@ [x \in kept |-> d.peerless[x]]]

\* The session a recovery demand may preempt: History before Generic, the
\* oldest first; a durable result is never revoked.
Preemptible(d) ==
    LET of(reason) == {s \in Counted(d) : Endable(d, s) /\ d.sessions[s].reason = reason}
    IN  IF of("History") # {} THEN Least(of("History"))
        ELSE IF of("Generic") # {} THEN Least(of("Generic")) ELSE None

Mint(d, h, reason) ==
    LET s == d.next
        e == [d EXCEPT !.next = s + 1,
                       !.sessions = (s :> NewSession(h, reason, d.gen, d.resident)) @@ @]
    IN  IF d.resident THEN RunTurn(Touch(e, s), s) ELSE Touch(e, s)
Find(d, h, reason) == IF LiveFor(d, h) # {} THEN Touch(d, Viable(d, h)) ELSE Mint(d, h, reason)

\* Mutant: demand for a live hash is not coalesced.
MutAdmit(d, h, reason, auth, neutral) ==
    LET p == IF neutral \/ d.phase.name \in {"Tracking", "Full"} THEN d.phase
             ELSE PhaseTransition(d.phase, "TargetRequired", h)
    IN  IF p = Rejected THEN d ELSE Mint([d EXCEPT !.phase = p], h, reason)

AdmitIn(d, h, reason, p) ==
    IF p = Rejected THEN d ELSE Find([d EXCEPT !.phase = p], h, reason)

\* The demand was admitted: the phase learns of it unless it is neutral, an
\* installed ledger is kept, or a preferred target has the say.
Admit(d, h, reason, auth, neutral) ==
    LET silent == \/ neutral \/ d.phase.name \in {"Tracking", "Full"}
                  \/ ~auth /\ d.latest # None
    IN  AdmitIn(d, h, reason, IF silent THEN d.phase
                              ELSE PhaseTransition(d.phase, "TargetRequired", h))

\* Capacity: a retained preferred target reserves the next free slot.
CancelIf(d, s) == IF s = None THEN d ELSE Cancel(d, s)
AcquireOver(d, h, reason, auth, neutral, exceeds, victim) ==
    LET waiting == [d EXCEPT !.deferred = h]
    IN  IF ~exceeds \/ victim # None THEN Admit(CancelIf(d, victim), h, reason, auth, neutral)
        ELSE IF ~auth THEN d
        ELSE IF d.phase.name \in {"Tracking", "Full"} THEN waiting
        ELSE ApplyFact(waiting, "TargetRequired", h)
AcquireWithPeers(d, h, reason, auth, stable, neutral) ==
    LET exceeds == /\ LiveFor(d, h) = {}
                   /\ \/ Cardinality(Counted(d)) >= MaxSessions
                      \/ ~stable /\ d.deferred # None
    IN  AcquireOver(d, h, reason, auth, neutral, exceeds,
                    IF exceeds /\ stable THEN Preemptible(d) ELSE None)

\* A Complete or Failed session of the hash answers the demand until it is
\* reaped; a failed one leaves preferred demand to be retried.
AcquireAtTombstone(d, h, retry, authVR) ==
    LET tomb == Least({s \in DOMAIN d.sessions : /\ d.sessions[s].hash = h
                                                 /\ d.sessions[s].phase \in {"Complete", "Failed"}})
    IN  IF d.sessions[tomb].phase = "Failed"
        THEN IF retry THEN [d EXCEPT !.deferred = h] ELSE d
        ELSE IF authVR THEN [d EXCEPT !.vr = None, !.vrOwner = None] ELSE d

Acquire(d, h, reason, preferred, neutral) ==
    LET auth == reason = "Consensus" /\ ~neutral /\ d.anchor = h
        authVR == reason = "Consensus" /\ neutral /\ d.vr = h
        gated == reason = "Consensus" /\ d.vr \notin {None, h}
        buried == \E s \in DOMAIN d.sessions :
                      d.sessions[s].hash = h /\ d.sessions[s].phase \in {"Complete", "Failed"}
        moving == preferred /\ d.anchor \notin {None, h}
    IN  IF gated THEN IF preferred \/ auth THEN [d EXCEPT !.deferred = h] ELSE d
        ELSE IF buried THEN AcquireAtTombstone(d, h, preferred \/ auth, authVR)
        ELSE IF ~d.peers
             THEN IF moving THEN d ELSE RetainPeerless(d, h, reason, auth, neutral)
        ELSE AcquireWithPeers(d, h, reason, auth, auth \/ authVR, neutral)
-----------------------------------------------------------------------------
(* The passes that end handle_event.                                       *)

Bind(d, h) == [d EXCEPT !.vrOwner = Viable(d, h)]
BindRecovery(d) ==
    IF Viable(d, d.vr) = None THEN Bind(Acquire(d, d.vr, "Consensus", FALSE, TRUE), d.vr)
    ELSE IF Contains(d.waiters, Viable(d, d.vr)) THEN RunTurn(Bind(d, d.vr), Viable(d, d.vr))
    ELSE Bind(d, d.vr)

\* Mutant: an owner that has ended keeps the latch.
MutReconcileRecovery(d) ==
    IF d.shutdown \/ d.vrOwner # None \/ d.vr = None THEN d ELSE BindRecovery(d)

\* reconcile_validation_recovery_owner: a terminal owner hands over to the
\* newest candidate; a target without owner is demanded again.
ReconcileRecovery(d) ==
    LET lost == d.vrOwner # None /\ ~(Has(d, d.vrOwner) /\ Live(d.sessions[d.vrOwner]))
        e == IF lost THEN [d EXCEPT !.vrOwner = None, !.vr = d.vrNext, !.vrNext = None] ELSE d
    IN  IF d.shutdown THEN d
        ELSE IF e.vrOwner # None \/ e.vr = None THEN e ELSE BindRecovery(e)

\* Mutant: the replay wants one slot more than it needs.
MutReplayDeferred(d) ==
    IF d.shutdown \/ ~d.peers \/ d.deferred = None \/ Cardinality(Counted(d)) + 1 >= MaxSessions
    THEN d
    ELSE Acquire([d EXCEPT !.latest = d.deferred, !.deferred = None],
                 d.deferred, "Consensus", TRUE, FALSE)

\* replay_deferred_consensus.
ReplayDeferred(d) ==
    IF d.shutdown \/ ~d.peers \/ d.deferred = None \/ Cardinality(Counted(d)) >= MaxSessions
    THEN d
    ELSE Acquire([d EXCEPT !.latest = d.deferred, !.deferred = None],
                 d.deferred, "Consensus", TRUE, FALSE)

\* reconcile_recovery_anchor: the anchor moves to the latest consensus target
\* only when its own session has failed, was cancelled or is gone.
ReconcileAnchor(d) ==
    LET s == d.anchorOwner
        keeps == Has(d, s) /\ Live(d.sessions[s]) /\ d.sessions[s].hash = d.anchor
        complete == Has(d, s) /\ d.sessions[s].phase = "Complete"
        heir == IF d.latest = None THEN None ELSE Viable(d, d.latest)
    IN  CASE s = None /\ d.anchor = None -> d
          [] s = None /\ d.anchor # None -> [d EXCEPT !.anchorOwner = Viable(d, d.anchor)]
          [] s # None /\ keeps -> d
          [] s # None /\ complete -> [d EXCEPT !.anchorOwner = None]
          [] OTHER -> [d EXCEPT !.anchorOwner = heir,
                                !.anchor = IF heir = None THEN None ELSE d.latest]

\* enforce_recovery_anchor_phase.
EnforceAnchor(d) ==
    IF d.anchor = None \/ d.shutdown \/ ~d.peers \/ d.phase.name \in {"Disconnected", "Stopping"}
    THEN d ELSE [d EXCEPT !.phase = Syncing(d.anchor)]

HasWork(d, h) == LiveFor(d, h) # {} \/ d.deferred = h \/ h \in DOMAIN d.peerless

\* promote_latest_viable_syncing_anchor.
PromoteLatest(d) ==
    IF /\ d.anchor = None /\ d.phase.name = "Syncing" /\ ~HasWork(d, d.phase.on)
       /\ d.latest \notin {None, d.phase.on} /\ HasWork(d, d.latest)
    THEN [d EXCEPT !.phase = Syncing(d.latest)] ELSE d

Reconcile(d) == PromoteLatest(EnforceAnchor(ReconcileAnchor(ReplayDeferred(ReconcileRecovery(d)))))
-----------------------------------------------------------------------------
(* Handlers of policy facts.                                               *)

\* The seed is Connected or Full: the server has no target to be Syncing on.
OnStartupMode(d, mode) == [d EXCEPT !.phase = Phase(mode), !.startup = mode]

\* Mutant: the anchor follows the consensus target.
MutObserve(d, h, latch) == [d EXCEPT !.latest = h, !.anchor = IF latch THEN h ELSE @]

\* observe_consensus_target.
Observe(d, h, latch) ==
    [d EXCEPT !.latest = h, !.anchor = IF latch /\ @ = None THEN h ELSE @]

OnConsensus(d, h) ==
    LET latch == \/ d.phase.name = "Syncing"
                 \/ ~d.installed /\ d.phase.name \notin {"Tracking", "Full"}
        e == Observe(d, h, latch)
    IN  Acquire([e EXCEPT !.deferred = IF @ = h THEN None ELSE @], h, "Consensus", TRUE, FALSE)

OnValidationTarget(d, h) == Acquire(d, h, "Consensus", FALSE, TRUE)

OnRecoveryTarget(d, h) ==
    LET ended == Has(d, d.vrOwner) /\ ~Live(d.sessions[d.vrOwner])
    IN  CASE h = None -> [d EXCEPT !.vrNext = None]
          [] h # None /\ (d.vr \notin {None, h} \/ (d.vr = h /\ ended)) -> [d EXCEPT !.vrNext = h]
          [] OTHER -> Acquire([d EXCEPT !.vr = h, !.vrNext = None], h, "Consensus", FALSE, TRUE)

OnDivergence(d, h) == IF d.peers THEN ApplyFact(Observe(d, h, TRUE), "Divergence", h) ELSE d

OnReconciled(d) ==
    ApplyFact([d EXCEPT !.installed = TRUE, !.anchor = None, !.anchorOwner = None, !.vr = None,
                        !.vrOwner = None, !.vrNext = None, !.latest = None, !.deferred = None],
              "Reconciled", None)

CancelAll(d, S) == FoldLeft(Cancel, d, InOrder(S))

OnLclInstalled(d, h) ==
    LET hit == d.anchor = h
        e == [d EXCEPT !.installed = TRUE,
                       !.anchor = IF hit THEN None ELSE @,
                       !.anchorOwner = IF hit THEN None ELSE @,
                       !.latest = IF @ = h THEN None ELSE @]
        fits == d.phase = Syncing(h) \/ d.phase.name = "Connected"
    IN  CancelAll(IF fits THEN ApplyFact(e, "LclInstalled", h) ELSE e, LiveFor(d, h))

OnPublication(d, fresh) == IF fresh THEN ApplyFact(d, "Contiguous", None) ELSE d

OnQuorumLost(d) == IF d.quorum THEN ApplyFact([d EXCEPT !.quorum = FALSE], "QuorumLost", None) ELSE d

OnQuorumAvailable(d) ==
    IF d.quorum /\ d.phase.name # "Disconnected" THEN d
    ELSE ApplyFact([d EXCEPT !.quorum = TRUE], "QuorumAvailable", None)

\* pause_live_sessions_for_peer_loss.
Pause(d) ==
    [d EXCEPT !.sessions =
        [s \in DOMAIN @ |-> IF @[s].phase = "Active"
                            THEN [@[s] EXCEPT !.admitted = FALSE, !.timer = "none"] ELSE @[s]]]

\* resume_live_sessions_after_peer_recovery: every paused session is granted
\* a peer, probes the store again and has its deadline armed.
Resume(d, probe) ==
    LET e == IF Has(d, d.anchorOwner)
             THEN ApplyFact(d, "TargetRequired", d.sessions[d.anchorOwner].hash) ELSE d
        granted(r) == [r EXCEPT !.admitted = TRUE,
                                !.probes = @ \/ (r.seeded /\ probe),
                                !.timer = IF @ = "none" THEN "acquire" ELSE @]
    IN  [e EXCEPT !.sessions =
            [s \in DOMAIN @ |-> IF @[s].phase = "Active" /\ ~@[s].admitted
                                THEN granted(@[s]) ELSE @[s]]]

OnConnectivity(d, has, probe, neutral) ==
    LET e == [d EXCEPT !.peers = has]
        fact(x, f) == IF neutral THEN x ELSE ApplyFact(x, f, None)
        up == Resume(IF ~d.peers /\ d.quorum THEN fact(e, "PeersAvailable") ELSE e, probe)
        replay(x, h) == Acquire(x, h, d.peerless[h].reason, d.peerless[h].preferred,
                                d.peerless[h].neutral)
    IN  IF has THEN FoldLeft(replay, [up EXCEPT !.peerless = <<>>], InOrder(DOMAIN d.peerless))
        ELSE IF d.peers THEN Pause(fact(e, "PeersLost")) ELSE e

\* on_transport_connectivity: no phase change survives it.
OnTransport(d, has, probe) ==
    [OnConnectivity(d, has, probe, TRUE) EXCEPT !.phase = d.phase]
-----------------------------------------------------------------------------
(* Handlers of session events.                                             *)

\* on_packet: a Base packet may seed the plan.
OnPacket(d, s, seeds) == RunTurn([d EXCEPT !.sessions[s].seeded = @ \/ seeds], s)

\* The header probe of a new session: it seeds the plan unless a packet did.
OnHeaderRead(d, s, seeds) ==
    LET e == [d EXCEPT !.sessions[s].header = FALSE, !.sessions[s].seeded = @ \/ seeds]
    IN  IF e.sessions[s].seeded THEN RunTurn(e, s) ELSE e

\* A scheduling boundary: better ranked work first, else the session goes on.
GoOn(y, s) == IF y.ok THEN y.st ELSE RunTurn(y.st, s)
Resched(d, s) == GoOn(Yield(d, s, TRUE), s)

\* The last traversal read of the batch.
OnReads(d, s) == Resched([d EXCEPT !.sessions[s].reads = FALSE], s)

\* One recovery read; `last' when none is pending after it.
OnProbe(d, s, last) == Resched([d EXCEPT !.sessions[s].probes = ~last], s)

OnWrite(d, s, outcome) ==
    CASE outcome = "failed" -> Fail(d, s)
      [] outcome = "cancelled" -> Cancel(d, s)
      [] outcome = "accepted" /\ d.sessions[s].write = "incremental" ->
            Resched([d EXCEPT !.sessions[s].write = "none"], s)
      [] OTHER -> [d EXCEPT !.sessions[s].write = "fence"]

\* on_durability: the fence passed; without a ledger to hand over the session
\* fails.
OnDurability(d, s, ledger) ==
    IF ledger
    THEN [d EXCEPT !.sessions[s].phase = "DurablePending", !.sessions[s].write = "none",
                   !.sessions[s].timer = "none", !.sessions[s].published = TRUE]
    ELSE Fail(d, s)

OnHandoffAck(d, s) == Retain(Release([d EXCEPT !.sessions[s] = Ended(@, "Complete")], s), s)

\* Mutant: a rejected handoff is not retried.
MutOnHandoffRejected(d, s) == [d EXCEPT !.sessions[s].published = FALSE]

OnHandoffRejected(d, s) ==
    [d EXCEPT !.sessions[s].published = FALSE,
              !.sessions[s].timer = IF @ = "none" THEN "handoff" ELSE @]

OnHandoffRetry(d, s) ==
    [d EXCEPT !.sessions[s].published = TRUE, !.sessions[s].timer = "none"]

\* SessionExpiry: an owner of a recovery latch stays registered.
OnExpiry(d, s) ==
    IF s \in {d.anchorOwner, d.vrOwner} THEN Touch(d, s)
    ELSE [d EXCEPT !.sessions[s].eligible = TRUE, !.sessions[s].expiry = FALSE]

\* local_reconstruction_in_flight.
Reconstructing(r) == r.header \/ r.reads \/ r.probes \/ r.write = "incremental"

Rearm(d, s) == IF Has(d, s) THEN [d EXCEPT !.sessions[s].timer = "acquire"] ELSE d

\* A no-progress interval within the budget: seeded plans probe the store
\* again, others try a resident engine; then the deadline is armed again.
RetryInterval(d, s, probe) ==
    LET e == [d EXCEPT !.sessions[s].timeouts = @ + 1]
        seeded == d.sessions[s].seeded
    IN  IF seeded THEN Rearm([e EXCEPT !.sessions[s].probes = probe], s)
        ELSE IF d.resident THEN Rearm(RunTurn([e EXCEPT !.sessions[s].seeded = TRUE], s), s)
        ELSE Rearm(e, s)

OnAcquireTimeout(d, s, progress, probe) ==
    LET r == d.sessions[s]
    IN  IF Reconstructing(r) \/ Scanning(d, s) THEN d
        ELSE IF ~r.admitted \/ ~d.peers THEN [d EXCEPT !.sessions[s].timer = "none"]
        ELSE IF progress THEN RunTurn(d, s)
        ELSE IF r.timeouts + 1 > MaxTimeouts THEN Fail(d, s)
        ELSE RunTurn(RetryInterval(d, s, probe), s)

OnStoreRotated(d, gen) ==
    CancelAll([d EXCEPT !.gen = gen], {s \in DOMAIN d.sessions : d.sessions[s].gen # gen})

SeededActive(d) == {s \in DOMAIN d.sessions : IsActive(d, s) /\ d.sessions[s].seeded}

OnFetchPack(d) ==
    FoldLeft(LAMBDA e, s : IF s \in SeededActive(e) THEN RunTurn(e, s) ELSE e,
             d, InOrder({s \in DOMAIN d.sessions : IsActive(d, s)}))

\* on_registry_sweep: a session whose scan runs or waits is only marked.
SweepOne(d, s) ==
    IF s \in d.swept \/ Scanning(d, s) \/ (Has(d, s) /\ d.sessions[s].write = "incremental")
    THEN [d EXCEPT !.swept = @ \cup {s}] ELSE Expire(d, s)

OnSweep(d) ==
    FoldLeft(SweepOne, d, InOrder({s \in DOMAIN d.sessions : IsActive(d, s) /\ d.sessions[s].eligible}))

OnShutdown(d) ==
    LET live == {s \in DOMAIN d.sessions : Live(d.sessions[s])}
    IN  [FoldLeft(CancelForShutdown, ApplyFact(d, "Shutdown", None), InOrder(live))
            EXCEPT !.shutdown = TRUE]
-----------------------------------------------------------------------------
(* The events.                                                             *)

\* The states in which an event may find the coordinator: the present one,
\* with the outcomes of the turns the event may cause.  A session beyond
\* MaxMinted needs no choice: Settle cuts the event that creates it.
Contexts(subjects) ==
    LET waiting == {s \in ToSet(c.waiters) : c.sessions[s].seeded}
        minted(r) == IF r THEN c.next .. MaxMinted ELSE {}
        beyond == [s \in MaxMinted + 1 .. MaxMinted + 2 |-> "idle"]
    IN  UNION {{[c EXCEPT !.oracle = o @@ beyond, !.resident = r] :
                  o \in [subjects \cup waiting \cup minted(r) -> Outcomes]} : r \in Residents}

\* One input of a class, or a completion or timer the coordinator asked for.
Input(class) ==
    /\ class \in Inputs /\ left > 0 /\ c.startup # "none" /\ ~c.shutdown
    /\ left' = left - 1
    /\ UNCHANGED storeGen

Completion == ~c.shutdown /\ UNCHANGED <<left, storeGen>>

\* handle_event: the passes, then the effects leave the coordinator.
Settle(d) == /\ d.next <= MaxMinted + 1
             /\ c' = [d EXCEPT !.oracle = <<>>, !.resident = FALSE]
Handle(d) == Settle(Reconcile(d))

StartupMode ==
    /\ c.startup = "none"
    /\ \E m \in StartModes : Handle(OnStartupMode(c, m))
    /\ UNCHANGED <<left, storeGen>>

\* The heartbeat of a networked server, and every demand for a ledger, report
\* the peers.
Connectivity ==
    /\ Input("peers")
    /\ \E has \in BOOLEAN : \E probe \in {FALSE, has}, k \in Contexts({}) :
          Handle(OnConnectivity(k, has, probe, FALSE))

\* The heartbeat of a start_valid server, which needs no peers, and a
\* validation recovery target change the transport view only.
TransportConnectivity ==
    /\ Input("transport")
    /\ \E has \in BOOLEAN : \E probe \in {FALSE, has}, k \in Contexts({}) :
          Handle(OnTransport(k, has, probe))

ConsensusQuorumLost ==
    /\ Input("peers") /\ c.startup = "Connected"
    /\ \E k \in Contexts({}) : Handle(OnQuorumLost(k))

ConsensusQuorumAvailable ==
    /\ Input("peers") /\ (c.peers \/ c.startup = "Full") /\ c.phase.name = "Disconnected"
    /\ \E k \in Contexts({}) : Handle(OnQuorumAvailable(k))

AcquireRequested ==
    /\ Input("acquire")
    /\ \E h \in Hashes, reason \in Reasons : \E k \in Contexts({}) :
          Handle(Acquire(k, h, reason, FALSE, FALSE))

ConsensusTarget ==
    Input("consensus") /\ \E h \in Hashes : \E k \in Contexts({}) : Handle(OnConsensus(k, h))

ValidationTarget ==
    Input("validation") /\ \E h \in Hashes : \E k \in Contexts({}) : Handle(OnValidationTarget(k, h))

ValidationRecoveryTarget ==
    /\ Input("validation")
    /\ \E h \in Hashes \cup {None} : \E k \in Contexts({}) : Handle(OnRecoveryTarget(k, h))

PreferredLclDivergence ==
    Input("divergence") /\ \E h \in Hashes : \E k \in Contexts({}) : Handle(OnDivergence(k, h))

PreferredLclReconciled ==
    Input("ledger") /\ \E k \in Contexts({}) : Handle(OnReconciled(k))

LclInstalled ==
    Input("ledger") /\ \E h \in Hashes : \E k \in Contexts({}) : Handle(OnLclInstalled(k, h))

PublicationCommitted ==
    Input("ledger") /\ \E fresh \in BOOLEAN : \E k \in Contexts({}) : Handle(OnPublication(k, fresh))

ModeOnlyFact ==
    Input("ledger") /\ \E f \in {"ViewChange", "Blocked"} : \E k \in Contexts({}) :
                          Handle(ApplyFact(k, f, None))

\* A tick runs the passes and nothing else.
Heartbeat == Completion /\ c.startup # "none" /\ \E k \in Contexts({}) : Handle(k)

\* The sessions an event of the given kind may be addressed to.
In(phase) == {s \in DOMAIN c.sessions : c.sessions[s].phase = phase}
Waiting(field) == {s \in DOMAIN c.sessions : c.sessions[s][field]}
Armed(kind) == {s \in DOMAIN c.sessions : c.sessions[s].timer = kind}

\* The turn of s has an outcome only if its plan has an engine by then and
\* no read is pending.
Subject(s, seeds) ==
    IF (seeds \/ c.sessions[s].seeded) /\ ~c.sessions[s].reads THEN {s} ELSE {}
\* Whether an answer seeds the plan of s, where that makes a difference.
Seeds(s) == IF c.sessions[s].seeded THEN {FALSE} ELSE BOOLEAN

PacketAdmitted ==
    Completion /\ \E s \in In("Active") : \E seeds \in Seeds(s) :
                     \E k \in Contexts(Subject(s, seeds)) : Handle(OnPacket(k, s, seeds))

HeaderRead ==
    Completion /\ \E s \in Waiting("header") : \E seeds \in Seeds(s) :
                     \E k \in Contexts(Subject(s, seeds)) : Handle(OnHeaderRead(k, s, seeds))

ReadsCompleted ==
    Completion /\ \E s \in Waiting("reads") : \E k \in Contexts({s}) : Handle(OnReads(k, s))

ProbeCompleted ==
    Completion /\ \E s \in Waiting("probes"), last \in BOOLEAN : \E k \in Contexts({s}) :
                     Handle(OnProbe(k, s, last))

\* The store drops a batch of an older generation.
WriteOutcomes(s) ==
    {"accepted", "failed"} \cup (IF c.sessions[s].gen # storeGen THEN {"cancelled"} ELSE {})

WriteCompleted ==
    Completion /\ \E s \in {x \in DOMAIN c.sessions : c.sessions[x].write \in {"incremental", "final"}} :
                     \E o \in WriteOutcomes(s) :
                     \E k \in Contexts(Subject(s, FALSE)) : Handle(OnWrite(k, s, o))

DurabilityFenced ==
    Completion /\ \E s \in {x \in DOMAIN c.sessions : c.sessions[x].write = "fence"} :
                     \E ledger \in BOOLEAN : \E k \in Contexts({}) : Handle(OnDurability(k, s, ledger))

DurableHandoffAcknowledged ==
    Completion /\ \E s \in Waiting("published") : \E k \in Contexts({}) : Handle(OnHandoffAck(k, s))

DurableHandoffRejected ==
    Completion /\ \E s \in Waiting("published") : \E k \in Contexts({}) : Handle(OnHandoffRejected(k, s))

HandoffRetryFired ==
    Completion /\ \E s \in Armed("handoff") : \E k \in Contexts({}) : Handle(OnHandoffRetry(k, s))

TerminalRetentionFired ==
    Completion /\ \E s \in Armed("retention") : \E k \in Contexts({}) : Handle(Forget(k, s))

SessionExpiryFired ==
    Completion /\ \E s \in Waiting("expiry") : \E k \in Contexts({}) : Handle(OnExpiry(k, s))

\* What the deadline of s finds: progress was made, or not; without it, a
\* recovery read of a plan with an engine is under way afterwards, or not.
Findings(s) ==
    {f \in [progress : BOOLEAN, probe : BOOLEAN] :
        f.probe => ~f.progress /\ c.sessions[s].seeded}

AcquireTimeoutFired ==
    Completion /\ \E s \in Armed("acquire") \cap In("Active") : \E f \in Findings(s) :
                     \E k \in Contexts(Subject(s, TRUE \in Residents)) :
                         Handle(OnAcquireTimeout(k, s, f.progress, f.probe))

\* The store moves to its next generation; the coordinator is told later.
RotateStore ==
    /\ "store" \in Inputs /\ left > 0 /\ ~c.shutdown
    /\ left' = left - 1
    /\ storeGen' = storeGen + 1 /\ UNCHANGED c

StoreRotated ==
    c.gen # storeGen /\ Completion /\ \E k \in Contexts({}) : Handle(OnStoreRotated(k, storeGen))

FetchPackAvailable ==
    Completion /\ \E k \in Contexts({s \in SeededActive(c) : ~c.sessions[s].reads}) : Handle(OnFetchPack(k))

RegistrySweep == Input("sweep") /\ \E k \in Contexts({}) : Handle(OnSweep(k))

Shutdown == Input("shutdown") /\ \E k \in Contexts({}) : Handle(OnShutdown(k))

Next ==
    \/ StartupMode \/ Connectivity \/ TransportConnectivity
    \/ ConsensusQuorumLost \/ ConsensusQuorumAvailable
    \/ AcquireRequested \/ ConsensusTarget \/ ValidationTarget
    \/ ValidationRecoveryTarget \/ PreferredLclDivergence
    \/ PreferredLclReconciled \/ LclInstalled \/ PublicationCommitted
    \/ ModeOnlyFact \/ Heartbeat
    \/ PacketAdmitted \/ HeaderRead \/ ReadsCompleted \/ ProbeCompleted
    \/ WriteCompleted \/ DurabilityFenced
    \/ DurableHandoffAcknowledged \/ DurableHandoffRejected \/ HandoffRetryFired
    \/ TerminalRetentionFired \/ SessionExpiryFired \/ AcquireTimeoutFired
    \/ RotateStore \/ StoreRotated \/ FetchPackAvailable \/ RegistrySweep
    \/ Shutdown

Spec == Init /\ [][Next]_vars
-----------------------------------------------------------------------------
(* Properties.                                                             *)

\* A hash has one session that is live or that answers for its result; only
\* a cancelled one may be replaced before it is reaped, whatever mix of
\* demand, peer loss, replay, preemption and recovery minted it (on_acquire).
OneSessionPerHash ==
    \A h \in Hashes : Cardinality({s \in DOMAIN c.sessions : c.sessions[s].hash = h
                                                             /\ c.sessions[s].phase # "Cancelled"}) <= 1

\* Scan permits are neither idle nor lost.  While a session waits for one all
\* are taken (release_local_scan_permit hands a permit on in the same event),
\* and between events every holder waits for a store completion: nobody else
\* would give its permit back.
PermitsAreUsed ==
    /\ ~c.shutdown /\ c.waiters # <<>> => Cardinality(c.owners) = MaxScanOwners
    /\ \A s \in c.owners : LET r == c.sessions[s] IN r.reads \/ r.probes \/ r.write = "incremental"

\* Nobody is forgotten: every live session waits for something that will
\* come.  An Active one has its deadline armed exactly while peers are
\* connected, through pauses, grants, yields and deferrals; one that the
\* registry swept but kept still scans or writes, so that the next boundary
\* removes it; one that reads or writes does so in the store generation the
\* coordinator is on, whose completions it will take; a durable ledger has been
\* published and not answered, or has its retry armed (on_connectivity,
\* on_registry_sweep, on_store_rotated, on_handoff_rejected).
EverySessionIsAwaited ==
    /\ \A s \in In("Active") : /\ c.peers <=> c.sessions[s].admitted
                               /\ c.peers <=> c.sessions[s].timer = "acquire"
    /\ \A s \in c.swept : IsActive(c, s) /\ (Scanning(c, s) \/ c.sessions[s].write = "incremental")
    /\ \A s \in In("Active") \cup In("Persisting") : c.sessions[s].gen = c.gen
    /\ ~c.shutdown => \A s \in In("DurablePending") : \/ c.sessions[s].published
                                                      \/ c.sessions[s].timer = "handoff"

\* A recovery latch names a live session of its own target: no permit is
\* ranked by, and no expiry is waived for, a session that has ended.
LatchesAreLive ==
    ~c.shutdown =>
    /\ c.anchorOwner # None => c.anchorOwner \in LiveFor(c, c.anchor)
    /\ c.vrOwner # None => c.vrOwner \in LiveFor(c, c.vr)

\* Retained demand is taken up as soon as nothing blocks it: the passes of
\* handle_event run after every event.  A validation recovery target that
\* nobody fetches is held back by its own failed session, or by a full
\* registry without History or Generic work to preempt; preferred demand kept
\* for later by a full registry, by another recovery target or by its own
\* failed session.
DemandIsTakenUp ==
    LET failed(h) == \E s \in In("Failed") : c.sessions[s].hash = h
        full == Cardinality(Counted(c)) >= MaxSessions
    IN  c.peers /\ ~c.shutdown =>
        /\ c.vr # None /\ c.vrOwner = None => failed(c.vr) \/ (full /\ Preemptible(c) = None)
        /\ c.deferred # None => full \/ c.vr \notin {None, c.deferred} \/ failed(c.deferred)

\* A session moves only forward: its result, once durable, is neither
\* cancelled nor dropped by installs, rotations, sweeps, preemption or
\* shutdown until the handoff is acknowledged, and a session that ended
\* stays as it is until it is reaped.
SessionsMoveForward ==
    [][\A s \in DOMAIN c.sessions :
          LET old == c.sessions[s].phase
              new == IF Has(c', s) THEN c'.sessions[s].phase ELSE "reaped"
          IN  new # old =>
                CASE old = "Active" -> new \in {"Persisting", "Failed", "Cancelled", "reaped"}
                  [] old = "Persisting" -> new \in {"DurablePending", "Failed", "Cancelled"}
                  [] old = "DurablePending" -> new = "Complete"
                  [] OTHER -> new = "reaped"]_vars

\* The recovery anchor does not follow the moving consensus target: it goes
\* to another ledger only when its own session has ended without a result.
AnchorIsStable ==
    [][(c.anchor # None /\ c'.anchor \notin {None, c.anchor}) =>
          c.anchorOwner # None /\ c.anchorOwner \notin LiveFor(c', c.anchor)]_vars

\* Every session that has ended waits for its retention timer, which reaps
\* it: until then it answers for its hash and holds new demand back.
TombstonesExpire ==
    ~c.shutdown => \A s \in DOMAIN c.sessions : ~Live(c.sessions[s]) => c.sessions[s].timer = "retention"
=============================================================================
