--------------------------- MODULE ConsensusRound ---------------------------
(***************************************************************************)
(* One server's consensus state machine: Consensus of                      *)
(* xrpld/consensus/src/algorithm/consensus.rs.                             *)
(*                                                                         *)
(* The state of the machine is one record c, the struct Consensus; the     *)
(* operators below are its private methods, from a state to the state they *)
(* leave, and the actions are its public ones.  The adaptor's answers are  *)
(* inputs: a record e of answers for each call (the ledger the network is  *)
(* on, what can be acquired at once, the open transactions, what peers     *)
(* have validated).                                                        *)
(*                                                                         *)
(* A transaction set is its own id.  timer_entry runs once per unit of     *)
(* time, so the counters it advances are bounded by maxNow.  The times     *)
(* that raw_close_times collects are not kept: only the clock offset       *)
(* computation of the application reads them.                              *)
(***************************************************************************)
EXTENDS DisputedTx, FiniteSetsExt, Sequences

CONSTANTS
    Ledgers,        \* ledger ids
    Txs,            \* transactions
    Resolution,     \* next_ledger_time_resolution of every ledger
    RecentCap,      \* recent positions kept per peer (10 in the code)
    Start,          \* first value of the clock
    Environments    \* name -> what surrounds the machine, with these fields:
                    \*   ledgers   the ledgers it may begin on
                    \*   answers   the adaptor's answers
                    \*   calls     the arguments start_round is called with
                    \*   messages  peers' proposals, without the time they are seen
                    \*   sets      transaction sets that may arrive
                    \*   maxNow, maxMsgs, maxSets, maxRounds   bounds: last value of
                    \*             the clock, proposals and sets received, rounds

\* SEQ_LEAVE, above every other sequence number.
Leave == 1000

ASSUME ConsensusRoundAssumption ==
    /\ Resolution \in Nat \ {0} /\ RecentCap \in Nat \ {0}
    /\ Start \in 1..(Leave - 1)
    /\ \A k \in DOMAIN Environments :
         LET n == Environments[k] IN
         /\ n.ledgers \subseteq Ledgers /\ n.sets \subseteq SUBSET Txs
         /\ n.messages \subseteq [node : Peers, prev : Ledgers, seq : 0..Leave,
                                  set : SUBSET Txs, ct : Nat]
         /\ n.answers \subseteq [net : Ledgers, have : SUBSET Ledgers,
                                 avail : SUBSET SUBSET Txs, open : SUBSET Txs,
                                 validated : Nat, finished : Nat, since : Nat,
                                 pause : BOOLEAN]
         /\ n.calls \subseteq [id : Ledgers, ledger : Ledgers, proposing : BOOLEAN,
                               untrusted : SUBSET Peers]
         /\ n.maxNow \in 0..(Leave - 1)
         /\ {n.maxMsgs, n.maxSets, n.maxRounds} \subseteq Nat

VARIABLES
    c,          \* the struct Consensus
    env,        \* the name of the environment, which never changes
    msgs, sets, rounds      \* bounds

vars == <<c, env, msgs, sets, rounds>>

Env == Environments[env]
Round(t) == RoundCloseTime(t, Resolution)
NoResult == [txns |-> "none"]
HasResult(x) == x.result # NoResult
Proposing(x) == x.mode = "Proposing"
BowedOut(r) == r.pos.seq = Leave
PeersOn(x, set) == {p \in DOMAIN x.positions : x.positions[p].set = set}
Voters(x) == {p \in DOMAIN x.positions : x.positions[p].set \in x.acquired}

Init ==
    /\ env \in DOMAIN Environments
    /\ msgs = 0 /\ sets = 0 /\ rounds = 0
    /\ \E id \in Env.ledgers :
         c = [now |-> Start, phase |-> "Accepted", mode |-> "Observing",
              prevId |-> id, prev |-> id,
              positions |-> <<>>, recent |-> [p \in Peers |-> <<>>], dead |-> {},
              acquired |-> {}, result |-> NoResult,
              prevProposers |-> 0, prevRoundTime |-> Parms.idle,
              percent |-> 0, haveCT |-> FALSE, ctState |-> "Init",
              unchanged |-> 0, establish |-> 0, openStart |-> Start, sent |-> <<>>]
-----------------------------------------------------------------------------
(* Disputes.                                                               *)

\* dispute.un_vote(p) for every dispute of the result.
UnVoteAll(x, p) ==
    IF ~HasResult(x) THEN x
    ELSE [x EXCEPT !.result.disputes = [t \in DOMAIN @ |-> UnVote(@[t], p)]]

\* A dispute over t with the votes of all peers whose set we have.
Dispute(x, t) ==
    FoldSet(LAMBDA p, d : SetVote(d, p, t \in x.positions[p].set),
            NewDispute(t \in x.result.txns), Voters(x))

CreateDisputes(x, other) ==
    LET r == x.result
        fresh == ((r.txns \ other) \cup (other \ r.txns)) \ DOMAIN r.disputes
    IN
    IF other \in r.compares THEN x
    ELSE [x EXCEPT !.result.compares = @ \cup {other},
                   !.result.disputes = [t \in DOMAIN @ \cup fresh |->
                      IF t \in fresh THEN Dispute(x, t) ELSE @[t]],
                   !.unchanged = IF fresh # {} /\ Voters(x) # {} THEN 0 ELSE @]

\* The vote of peer p for a set on every dispute.
CastVotes(x, p, other) ==
    LET ds == x.result.disputes IN
    [x EXCEPT !.result.disputes = [t \in DOMAIN ds |-> SetVote(ds[t], p, t \in other)],
              !.unchanged = IF \E t \in DOMAIN ds : VoteChanges(ds[t], p, t \in other)
                              THEN 0 ELSE @]
UpdateDisputes(x, p, other) == CastVotes(CreateDisputes(x, other), p, other)

\* Mutated form: the set is stored, and nobody's votes are taken from it.
MutGotTxSet(x, set) ==
    IF x.phase = "Accepted" THEN x ELSE [x EXCEPT !.acquired = @ \cup {set}]
GotTxSet(x, set) ==
    IF x.phase = "Accepted" \/ set \in x.acquired THEN x
    ELSE LET y == [x EXCEPT !.acquired = @ \cup {set}] IN
         IF ~HasResult(y) THEN y
         ELSE FoldSet(LAMBDA p, z : UpdateDisputes(z, p, set), y, PeersOn(y, set))
-----------------------------------------------------------------------------
(* Peer positions.                                                         *)

\* Whether peer_proposal_internal takes the proposal up.
Accepts(x, prop) ==
    /\ x.phase # "Accepted"
    /\ prop.prev = x.prevId
    /\ prop.node \notin x.dead
    /\ prop.node \in DOMAIN x.positions => prop.seq > x.positions[prop.node].seq

\* A peer that bows out: its votes and its position go, and it stays away.
BowOut(x, p) ==
    LET y == UnVoteAll(x, p) IN
    [y EXCEPT !.positions = Restrict(@, DOMAIN @ \ {p}), !.dead = @ \cup {p}]

TakePosition(x, prop, avail) ==
    LET p == prop.node
        y == [x EXCEPT !.positions = [q \in DOMAIN @ \cup {p} |->
                                        IF q = p THEN prop ELSE @[q]]]
    IN CASE prop.set \notin y.acquired ->
              IF prop.set \in avail THEN GotTxSet(y, prop.set) ELSE y
         [] prop.set \in y.acquired /\ HasResult(y) -> UpdateDisputes(y, p, prop.set)
         [] OTHER -> y

PeerProposalInternal(x, prop, avail) ==
    IF ~Accepts(x, prop) THEN x
    ELSE IF prop.seq = Leave THEN BowOut(x, prop.node)
    ELSE TakePosition(x, prop, avail)

\* The proposals kept of every peer, each peer's from the oldest to the newest.
PlaybackProposals(x, avail) ==
    LET Replay(prop, y) == IF prop.prev = y.prevId
                             THEN PeerProposalInternal(y, prop, avail) ELSE y
        ReplayAll(y, q) == MapThenFoldSet(Replay, y, LAMBDA i : q[i], Max, DOMAIN q)
    IN FoldSet(LAMBDA p, y : ReplayAll(y, x.recent[p]), x, Peers)
-----------------------------------------------------------------------------
(* Our position.                                                           *)

\* adaptor.propose, remembered.
Propose(x) == [x EXCEPT !.sent = Append(@, x.result.pos.seq)]

LeaveConsensus(x) ==
    IF ~Proposing(x) THEN x
    ELSE LET y == IF HasResult(x) /\ ~BowedOut(x.result)
                    THEN Propose([x EXCEPT !.result.pos.seq = Leave,
                                           !.result.pos.seen = x.now])
                    ELSE x
         IN [y EXCEPT !.mode = "Observing"]

CloseLedger(x, e) ==
    LET y == [x EXCEPT !.phase = "Establish", !.unchanged = 0, !.establish = 0,
                !.acquired = @ \cup {e.open},
                !.result = [txns |-> e.open,
                            pos |-> [set |-> e.open, ct |-> x.now, seen |-> x.now, seq |-> 0],
                            disputes |-> <<>>, compares |-> {}, start |-> x.now,
                            state |-> "No"]]
        z == IF Proposing(y) THEN Propose(y) ELSE y
    IN FoldSet(LAMBDA p, w : CreateDisputes(w, w.positions[p].set), z, Voters(z))

\* e.since: the time since the close that phase_open goes by.
PhaseOpen(x, e) ==
    IF ShouldCloseLedger(e.open # {}, x.prevProposers, Cardinality(DOMAIN x.positions),
                         e.validated, x.prevRoundTime, e.since, x.now - x.openStart,
                         Larger(Parms.idle, 2 * Resolution))
      THEN CloseLedger(x, e) ELSE x

\* Mutated form: no position is dropped.
MutDropStaleNever(x) == x
\* Positions that have not been refreshed are dropped with their votes.
DropStale(x) ==
    LET cutoff == Larger(0, x.now - Parms.freshness)
        stale == {p \in DOMAIN x.positions : x.positions[p].seen <= cutoff}
    IN FoldSet(LAMBDA p, y : [UnVoteAll(y, p) EXCEPT
                                !.positions = Restrict(@, DOMAIN @ \ {p})], x, stale)

\* The votes for each rounded close time, ours included when we propose.
CloseTimeVotes(x) ==
    LET at(p) == Round(x.positions[p].ct)
        ours(t) == Bit(Proposing(x) /\ Round(x.result.pos.ct) = t)
        times == {at(p) : p \in DOMAIN x.positions}
                   \cup (IF Proposing(x) THEN {Round(x.result.pos.ct)} ELSE {})
    IN [t \in times |-> Cardinality({p \in DOMAIN x.positions : at(p) = t}) + ours(t)]

\* The close time with the most votes (the latest of several) if it passes the
\* avalanche threshold, or zero; consensus on it if it passes the fixed one.
CloseTimeOf(x, votes, state) ==
    LET participants == Cardinality(DOMAIN x.positions) + Bit(Proposing(x))
        best == Max({votes[t] : t \in DOMAIN votes})
        passes == best >= ParticipantsNeeded(participants, AvalancheCutoffs[state].pct)
    IN IF DOMAIN x.positions = {}
         THEN [ct |-> Round(x.result.pos.ct), have |-> TRUE, state |-> x.ctState]
         ELSE [ct |-> IF passes THEN Max({t \in DOMAIN votes : votes[t] = best}) ELSE 0,
               have |-> passes /\ best >= ParticipantsNeeded(participants, AvCtConsensusPct),
               state |-> state]
CloseTimeConsensus(x) ==
    CloseTimeOf(x, CloseTimeVotes(x), NeededState(x.ctState, x.percent, 0, 0))

ProposeUnlessOut(x) == IF Proposing(x) /\ ~BowedOut(x.result) THEN Propose(x) ELSE x

\* Mutated form: the new position keeps the sequence number of the old one.
MutChangePositionSeq(x, set, ct) ==
    Propose([x EXCEPT !.result.txns = set, !.result.pos.set = set, !.result.pos.ct = ct,
                      !.acquired = @ \cup {set}])
\* change_position to the set and the close time, and what follows from it.
ChangePosition(x, set, ct) ==
    LET y == [x EXCEPT !.result.txns = set,
                       !.result.pos = [set |-> set, ct |-> ct, seen |-> x.now,
                                       seq |-> IF @.seq = Leave THEN Leave ELSE @.seq + 1],
                       !.acquired = @ \cup {set}]
    IN ProposeUnlessOut(
         IF set \in x.acquired THEN y
         ELSE FoldSet(LAMBDA p, w : UpdateDisputes(w, p, set), y, PeersOn(y, set)))

\* Our position follows the disputes and the close time just decided.
Reposition(x, new, ct) ==
    LET old == x.result.disputes
        flipped == {t \in DOMAIN old : new[t].our # old[t].our}
        set == (x.result.txns \ flipped) \cup {t \in flipped : new[t].our}
        y == [x EXCEPT !.result.disputes = new, !.haveCT = ct.have, !.ctState = ct.state]
        ourCutoff == Larger(0, x.now - Parms.interval)
    IN IF \/ flipped # {}
          \/ ct.ct # Round(x.result.pos.ct)
          \/ x.result.pos.seen <= ourCutoff
         THEN ChangePosition(y, set, ct.ct) ELSE y

VoteAnew(x) == [t \in DOMAIN x.result.disputes |->
                  UpdateVote(x.result.disputes[t], x.percent, Proposing(x))]
UpdateFresh(x) == Reposition(x, VoteAnew(x), CloseTimeConsensus(x))
UpdateOurPositions(x) == UpdateFresh(DropStale(x))

RoundTime(x) == x.now - x.result.start

\* have_consensus: the state it stores, and what Expired entails.
ConsensusStateOf(x, e) ==
    LET ds == x.result.disputes
        agree == Cardinality(PeersOn(x, x.result.pos.set))
        stalled == /\ x.haveCT /\ DOMAIN ds # {}
                   /\ \A t \in DOMAIN ds : Stalled(ds[t], Proposing(x), x.unchanged)
    IN CheckConsensus(x.prevProposers, Cardinality(DOMAIN x.positions), agree,
                      e.finished, x.prevRoundTime, RoundTime(x), stalled, Proposing(x))
ExpiryAllowed(x) == x.establish >= Cardinality(AvalancheStates) * Parms.avMinRounds

\* The round is over, provided that the close time is agreed too.
Accept(x) ==
    IF ~x.haveCT THEN x
    ELSE [x EXCEPT !.prevProposers = Cardinality(DOMAIN x.positions),
                   !.prevRoundTime = RoundTime(x), !.phase = "Accepted"]

Conclude(x, state) ==
    LET y == [x EXCEPT !.result.state = state] IN
    CASE state \in {"Yes", "MovedOn"} -> Accept(y)
      [] state = "Expired" /\ ExpiryAllowed(x) -> Accept(LeaveConsensus(y))
      [] OTHER -> y

PauseOrConclude(x, e) ==
    IF e.pause /\ RoundTime(x) <= Parms.maxConsensus THEN x
    ELSE Conclude(x, ConsensusStateOf(x, e))

PhaseEstablish(x, e) ==
    LET y == [x EXCEPT !.unchanged = @ + 1, !.establish = @ + 1,
                       !.percent = (RoundTime(x) * 100)
                                     \div Larger(x.prevRoundTime, Parms.avMinConsensus)]
    IN IF RoundTime(x) < Parms.minConsensus THEN y
       ELSE PauseOrConclude(UpdateOurPositions(y), e)
-----------------------------------------------------------------------------
(* Rounds.                                                                 *)

PhaseStep(x, e) ==
    CASE x.phase = "Open" -> PhaseOpen(x, e)
      [] x.phase = "Establish" -> PhaseEstablish(x, e)
      [] OTHER -> x

\* start_round_internal up to the playback.
Reset(x, id, ledger, mode, e) ==
    PlaybackProposals(
      [x EXCEPT !.phase = "Open", !.mode = mode, !.prevId = id, !.prev = ledger,
                !.result = NoResult, !.percent = 0, !.ctState = "Init",
                !.haveCT = FALSE, !.openStart = x.now, !.positions = <<>>,
                !.acquired = {}, !.dead = {}, !.sent = <<>>], e.avail)
MayBeBehind(x) == Cardinality(DOMAIN x.positions) > x.prevProposers \div 2

\* The switch to an acquired ledger.  When start_round_internal then calls
\* timer_entry, its check_ledger finds the ledger it has just switched to.
CatchUp(x, e) == IF MayBeBehind(x) THEN PhaseStep(x, e) ELSE x
SwitchLedger(x, e) == CatchUp(Reset(x, e.net, e.net, "SwitchedLedger", e), e)

\* Mutated form: the positions of the old ledger are kept.
MutFollowLedger(x, net) == [x EXCEPT !.prevId = net]
\* What handle_wrong_ledger clears when it takes up another ledger id.
FollowLedger(x, net) ==
    [x EXCEPT !.prevId = net, !.positions = <<>>, !.dead = {},
              !.result = IF HasResult(x) THEN [@ EXCEPT !.disputes = <<>>, !.compares = {}]
                                         ELSE @]

\* The network's ledger id becomes ours.
TakeLedgerId(x, e) ==
    IF x.prevId = e.net THEN x
    ELSE PlaybackProposals(FollowLedger(x, e.net), e.avail)

\* Its ledger is the one we hold, can be had at once, or is missing.
TakeLedger(x, e) ==
    CASE x.prev = x.prevId -> x
      [] x.prev # x.prevId /\ e.net \in e.have -> SwitchLedger(x, e)
      [] OTHER -> [x EXCEPT !.mode = "WrongLedger"]

HandleWrongLedger(x, e) == TakeLedger(TakeLedgerId(LeaveConsensus(x), e), e)

CheckLedger(x, e) ==
    IF e.net # x.prevId \/ x.prev # x.prevId THEN HandleWrongLedger(x, e) ELSE x

TimerEntry(x, e) ==
    IF x.phase = "Accepted" THEN x ELSE PhaseStep(CheckLedger(x, e), e)

StartMode(got, call) ==
    IF got # call.id THEN "WrongLedger"
    ELSE IF call.proposing THEN "Proposing" ELSE "Observing"

\* The end of start_round_internal.
TimerIfBehind(x, e) == IF MayBeBehind(x) THEN TimerEntry(x, e) ELSE x

StartRoundOn(x, call, e) ==
    LET got == IF call.id \in e.have THEN call.id ELSE call.ledger
        trusted == [x EXCEPT !.recent = [p \in Peers |->
                                IF p \in call.untrusted THEN <<>> ELSE @[p]]]
    IN TimerIfBehind(Reset(trusted, call.id, got, StartMode(got, call), e), e)
-----------------------------------------------------------------------------
(* Actions.                                                                *)

StartRound(call, e) ==
    /\ rounds < Env.maxRounds /\ rounds' = rounds + 1
    /\ UNCHANGED <<env, msgs, sets>>
    /\ c' = StartRoundOn(c, call, e)

\* recent_peer_positions keeps the last RecentCap proposals of a peer.
Remember(q, prop) == Append(IF Len(q) >= RecentCap THEN Tail(q) ELSE q, prop)

\* peer_proposal: the proposal is kept for playback whatever becomes of it.
PeerProposal(msg, avail) ==
    /\ msgs < Env.maxMsgs /\ msgs' = msgs + 1
    /\ UNCHANGED <<env, sets, rounds>>
    /\ LET prop == [node |-> msg.node, prev |-> msg.prev, seq |-> msg.seq, set |-> msg.set,
                     ct |-> msg.ct, seen |-> c.now] IN
       c' = PeerProposalInternal([c EXCEPT !.recent[prop.node] = Remember(@, prop)],
                                 prop, avail)

TxSetArrives(set) ==
    /\ sets < Env.maxSets /\ sets' = sets + 1
    /\ UNCHANGED <<env, msgs, rounds>>
    /\ c' = GotTxSet(c, set)

Timer(e) ==
    /\ c.now < Env.maxNow
    /\ UNCHANGED <<env, msgs, sets, rounds>>
    /\ c' = TimerEntry([c EXCEPT !.now = @ + 1], e)

Next ==
    \/ \E call \in Env.calls, e \in Env.answers : StartRound(call, e)
    \/ \E msg \in Env.messages, e \in Env.answers : PeerProposal(msg, e.avail)
    \/ \E set \in Env.sets : TxSetArrives(set)
    \/ \E e \in Env.answers : Timer(e)

Spec == Init /\ [][Next]_vars
-----------------------------------------------------------------------------
(* Properties.                                                             *)

\* create_disputes and update_disputes between them keep the disputes complete:
\* every transaction in which our set differs from a set that a peer proposes and
\* we have is disputed, through changes of either position.
DisputesAreComplete ==
    HasResult(c) =>
      \A p \in Voters(c) : \A t \in Txs :
        (t \in c.result.txns) # (t \in c.positions[p].set) => t \in DOMAIN c.result.disputes

\* The positions that are counted build on the ledger we work on, and a peer
\* that bowed out has none until the next change of ledger.  The votes of a
\* dispute are those of the current positions: no peer without a position votes,
\* and one whose set we have votes for what it proposes.
VotesAreCurrent ==
    /\ \A p \in DOMAIN c.positions :
          c.positions[p].prev = c.prevId /\ p \notin c.dead /\ c.positions[p].seq # Leave
    /\ HasResult(c) =>
      \A t \in DOMAIN c.result.disputes :
        LET d == c.result.disputes[t] IN
        /\ DOMAIN d.votes \subseteq DOMAIN c.positions
        /\ \A p \in Voters(c) : p \in DOMAIN d.votes /\ d.votes[p] = (t \in c.positions[p].set)
        /\ d.our = (t \in c.result.txns)

\* Within a round our proposals carry increasing sequence numbers, and none
\* follows the one that bows out (change_position, leave_consensus).
ProposalsAreOrdered ==
    /\ \A i \in 1..(Len(c.sent) - 1) : c.sent[i] < c.sent[i + 1]
    /\ c.sent # <<>> /\ HasResult(c) => c.result.pos.seq >= c.sent[Len(c.sent)]
    /\ HasResult(c) /\ BowedOut(c.result) => ~Proposing(c)

\* A round that has closed its ledger ends: past the hard limit of check_consensus,
\* and past the previous round's length for which it waits for missing peers, with
\* the rounds that an expiry needs behind it, it lasts only while the close time is
\* undecided between positions of which at least one arrived within
\* propose_freshness.  Silence ends it.
PastLimit(x) ==
    /\ RoundTime(x) > Larger(Parms.abandon, x.prevRoundTime + Parms.minConsensus)
    /\ ExpiryAllowed(x)
RoundEnds ==
    c.phase = "Establish" /\ PastLimit(c) =>
      /\ ~c.haveCT
      /\ \E p \in Peers : \E prop \in Range(c.recent[p]) :
            prop.seen > c.now - Parms.freshness
=============================================================================
