--------------------------- MODULE SGTGovernance ---------------------------
(***************************************************************************)
(* The proposal tracker (governance_singleton_inner_v2.clsp), the SGT      *)
(* voting coins (sgt_free_inner.clsp, sgt_locked_inner.clsp) and the part  *)
(* of the statutes registry that governs voting.                           *)
(*                                                                         *)
(* A step is the spend of one coin inside the block being built.           *)
(* Announcements made by a spend stay assertable, by any number of spends, *)
(* until the block closes: variable block.  A SEND_MESSAGE/RECEIVE_MESSAGE *)
(* pair is one step, since neither side is valid without the other.        *)
(*                                                                         *)
(* Chia's CAT2 layer conserves SGT, so the supply is a fixed set Mojo of   *)
(* units and each unit has one state.  Coins of one state split and merge. *)
(***************************************************************************)
EXTENDS Integers, FiniteSets

CONSTANTS
  Mojo,                   \* the units of SGT; SGT_TOTAL_SUPPLY is their number
  Holder,                 \* the owners' inner puzzle hashes
  Bill,                   \* bills that pass known-bill-tag; a bill is its own hash
  NoBill,                 \* PROPOSAL_HASH of an idle tracker, and of a free coin
  Policy,                 \* values of the governed voting parameters
  GenesisPolicy,          \* the policy at deployment
  TrackerSpendsPerBlock,  \* bound on the tracker's spends in one block
  Moving,                 \* bound: the targets that spends of their own move
  MaxTime,                \* bound: the clock stops here, no deadline is later
  MaxVersion,             \* bound on the moves of each target
  MaxTally                \* bound on vote_tally

Supply == Cardinality(Mojo)

StatuteTag == {"PARAMETER", "COLLECTION", "ORACLE", "ROUTE", "LIQUIDITY", "PAUSE"}

BillTag == StatuteTag \cup {"MINT", "FREEZE", "SETTLE", "REDEMPTION",
                            "VAULT_VERSION", "SGT_SALE", "SGT_GRANT"}

Target == {"statutes", "registry", "pool", "treasury", "reserve", "none"}

Time == 0 .. MaxTime

ASSUME SGTAssumption == IsFiniteSet(Mojo) /\ NoBill \notin Bill

ASSUME BoundAssumption ==
  /\ TrackerSpendsPerBlock \in Nat \ {0}
  /\ Moving \subseteq Target \ {"statutes", "none"}
  /\ MaxTime \in Nat
  /\ MaxVersion \in Nat
  /\ MaxTally \in Nat

\* The bounds valid-parameters puts on the three voting parameters, with the
\* window's seconds scaled to the model's clock.
ASSUME PolicyAssumption ==
  /\ Policy \subseteq [window : Nat \ {0}, quorum : 1 .. 10000, stake : 1 .. Supply]
  /\ GenesisPolicy \in Policy

\* from: the target states whose own recomputation reproduces the bill's
\* message.  policy: the voting parameters a statutes bill leaves behind.
ASSUME BillAssumption ==
  Bill \subseteq [tag : BillTag, from : SUBSET Nat, policy : Policy]

VARIABLES
  now,      \* timestamp that the time conditions of the current block compare with
  sgt,      \* state of each unit: owner, and the lock of a locked coin
  tracker,  \* curried state of the tracker
  policy,   \* voting parameters in the statutes registry
  targets,  \* version of the state each receiving singleton has
  block,    \* the current block so far: its announcements, those of locks that
            \* the tracker counted, and the number of tracker spends
  history   \* how the open vote came about, which no puzzle sees: twice, some
            \* lock announcement was counted twice; reopened, the block of its
            \* PROPOSE had ended an earlier vote before

vars == <<now, sgt, tracker, policy, targets, block, history>>

----------------------------------------------------------------------------
SGTState == [owner : Holder, bill : Bill \cup {NoBill}, deadline : Time]

LockAnnouncement == [voter : Holder, bill : Bill, amount : Nat, deadline : Time]

Tracker == [bill : Bill \cup {NoBill}, tally : Nat, deadline : Time, policy : Policy]

EmptyBlock ==
  [approvals |-> {}, evidence |-> {}, locks |-> {}, counted |-> {}, exec |-> {},
   spends |-> 0]

Block == [approvals : SUBSET Bill, evidence : SUBSET Policy,
          locks : SUBSET LockAnnouncement, counted : SUBSET LockAnnouncement,
          exec : SUBSET Bill, spends : 0 .. TrackerSpendsPerBlock]

NoHistory == [twice |-> FALSE, reopened |-> FALSE]

\* The type invariant.
TypeOK ==
  /\ now \in Time
  /\ sgt \in [Mojo -> SGTState]
  /\ tracker \in Tracker
  /\ policy \in Policy
  /\ targets \in [Target -> Nat]
  /\ block \in Block
  /\ history \in [twice : BOOLEAN, reopened : BOOLEAN]

FreeCoin(h) == [owner |-> h, bill |-> NoBill, deadline |-> 0]

LockedCoin(h, b, d) == [owner |-> h, bill |-> b, deadline |-> d]

\* The units locked to bill b with deadline d.
LockedTo(b, d) == {m \in Mojo : sgt[m].bill = b /\ sgt[m].deadline = d}

Open == tracker.bill # NoBill

QuorumMet == tracker.tally * 10000 >= tracker.policy.quorum * Supply

Idle == [bill |-> NoBill, tally |-> 0, deadline |-> 0, policy |-> tracker.policy]

TargetOf(tag) ==
  CASE tag \in StatuteTag              -> "statutes"
    [] tag = "MINT"                    -> "registry"
    [] tag \in {"FREEZE", "SETTLE"}    -> "pool"
    [] tag = "REDEMPTION"              -> "treasury"
    [] tag \in {"SGT_SALE", "SGT_GRANT"} -> "reserve"
    [] OTHER                           -> "none"

\* dispatch_bill: bills whose EXECUTE asserts something of the target's spend, the
\* registry's announcement or the reserve's puzzle.  The others are messages that
\* name no receiver, or (VAULT_VERSION) an announcement.
BoundToTarget(b) == b.tag \in {"MINT", "SGT_SALE", "SGT_GRANT"}

\* The target takes the bill in its present state, which the bill commits to.
TargetAccepts(b) == targets[TargetOf(b.tag)] \in b.from

----------------------------------------------------------------------------
Init ==
  /\ now = 0
  /\ sgt \in [Mojo -> {FreeCoin(h) : h \in Holder}]
  /\ tracker = [bill |-> NoBill, tally |-> 0, deadline |-> 0, policy |-> GenesisPolicy]
  /\ policy = GenesisPolicy
  /\ targets = [t \in Target |-> 1]
  /\ block = EmptyBlock
  /\ history = NoHistory

\* sgt_free_inner, TRANSFER: free coins change owner and stay free.
Transfer(S, h, to) ==
  /\ \A m \in S : sgt[m] = FreeCoin(h)
  /\ sgt' = [m \in Mojo |-> IF m \in S THEN FreeCoin(to) ELSE sgt[m]]
  /\ UNCHANGED <<now, tracker, policy, targets, block, history>>

\* sgt_free_inner, LOCK: a whole coin is locked and the lock announced.
Lock(S, h, b, d) ==
  /\ S # {}
  /\ \A m \in S : sgt[m] = FreeCoin(h)
  /\ now < d
  /\ sgt' = [m \in Mojo |-> IF m \in S THEN LockedCoin(h, b, d) ELSE sgt[m]]
  /\ block' = [block EXCEPT
       !.locks = @ \cup {[voter |-> h, bill |-> b, amount |-> Cardinality(S), deadline |-> d]}]
  /\ UNCHANGED <<now, tracker, policy, targets, history>>

\* A locked coin returns to its owner as a free coin.
Release(S, h, b, d) ==
  /\ S # {}
  /\ b \in Bill
  /\ \A m \in S : sgt[m] = LockedCoin(h, b, d)
  /\ sgt' = [m \in Mojo |-> IF m \in S THEN FreeCoin(h) ELSE sgt[m]]
  /\ UNCHANGED <<now, tracker, policy, targets, block, history>>

\* Slip: the deadline release has no time condition.
EarlyRelease(S, h, b, d) == Release(S, h, b, d)

\* Slip: an overdue lock needs the tracker's announcement as well.
PairedRelease(S, h, b, d) == now >= d /\ b \in block.exec /\ Release(S, h, b, d)

\* sgt_locked_inner, RELEASE_DEADLINE: anyone, once the deadline has passed.
ReleaseDeadline(S, h, b, d) == now >= d /\ Release(S, h, b, d)

\* Slip: the release does not assert the tracker's announcement.
UnprovenRelease(S, h, b, d) == Release(S, h, b, d)

\* sgt_locked_inner, RELEASE_EXEC: the tracker announced the end of the bill's vote.
ReleaseExec(S, h, b, d) == b \in block.exec /\ Release(S, h, b, d)

\* The admin authority announces its approval of a bill (GOVP).
AdminApprove(b) ==
  /\ block' = [block EXCEPT !.approvals = @ \cup {b}]
  /\ UNCHANGED <<now, sgt, tracker, policy, targets, history>>

\* Statutes GOVERNANCE_EVIDENCE: the current parameters are announced.
GovernanceEvidence ==
  /\ block' = [block EXCEPT !.evidence = @ \cup {policy}]
  /\ UNCHANGED <<now, sgt, tracker, policy, targets, history>>

TrackerMaySpend == block.spends < TrackerSpendsPerBlock

\* The tracker spend that counts announcement x, and what it adds to the history.
Counts(x, h) ==
  /\ block' = [block EXCEPT !.spends = @ + 1, !.counted = @ \cup {x}]
  /\ history' = h

Opening == [twice |-> FALSE, reopened |-> block.exec # {}]

Counting(x) ==
  [twice |-> history.twice \/ x \in block.counted, reopened |-> history.reopened]

\* Slip: the snapshot stays that of the previous vote.
StaleProposal(x, p) ==
  /\ TrackerMaySpend
  /\ ~Open
  /\ x \in block.locks /\ x.bill \in block.approvals /\ p \in block.evidence
  /\ x.amount >= p.stake
  /\ now < x.deadline /\ now >= x.deadline - p.window
  /\ tracker' = [tracker EXCEPT !.bill = x.bill, !.tally = x.amount, !.deadline = x.deadline]
  /\ Counts(x, Opening)
  /\ UNCHANGED <<now, sgt, policy, targets>>

\* PROPOSE: announcement x is the sponsor's lock, p the announced parameters.
Propose(x, p) ==
  /\ TrackerMaySpend
  /\ ~Open
  /\ x \in block.locks /\ x.bill \in block.approvals /\ p \in block.evidence
  /\ x.amount >= p.stake
  /\ now < x.deadline /\ now >= x.deadline - p.window
  /\ tracker' = [bill |-> x.bill, tally |-> x.amount, deadline |-> x.deadline, policy |-> p]
  /\ Counts(x, Opening)
  /\ UNCHANGED <<now, sgt, policy, targets>>

\* Slip: the lock's deadline is not compared with the vote's.
VoteAnyDeadline(x) ==
  /\ TrackerMaySpend
  /\ Open
  /\ x \in block.locks /\ x.bill = tracker.bill
  /\ now < tracker.deadline
  /\ tracker.tally + x.amount <= MaxTally
  /\ tracker' = [tracker EXCEPT !.tally = @ + x.amount]
  /\ Counts(x, Counting(x))
  /\ UNCHANGED <<now, sgt, policy, targets>>

\* Slip: a vote may come after the deadline.
LateVote(x) ==
  /\ TrackerMaySpend
  /\ Open
  /\ x \in block.locks /\ x.bill = tracker.bill
  /\ tracker.tally + x.amount <= MaxTally
  /\ tracker' = [tracker EXCEPT !.tally = @ + x.amount]
  /\ Counts(x, Counting(x))
  /\ UNCHANGED <<now, sgt, policy, targets>>

\* VOTE: the weight of announcement x is added.
Vote(x) ==
  /\ TrackerMaySpend
  /\ Open
  /\ x \in block.locks /\ x.bill = tracker.bill /\ x.deadline = tracker.deadline
  /\ x.amount > 0
  /\ now < tracker.deadline
  /\ tracker.tally + x.amount <= MaxTally
  /\ tracker' = [tracker EXCEPT !.tally = @ + x.amount]
  /\ Counts(x, Counting(x))
  /\ UNCHANGED <<now, sgt, policy, targets>>

\* What EXECUTE and EXPIRE share: the vote ends and its locks may be released.
CloseVote ==
  /\ TrackerMaySpend
  /\ Open
  /\ now >= tracker.deadline
  /\ tracker' = Idle
  /\ block' = [block EXCEPT !.spends = @ + 1, !.exec = @ \cup {tracker.bill}]
  /\ history' = NoHistory
  /\ UNCHANGED <<now, sgt>>

\* The target's spend takes the bill in the block of the EXECUTE.
CarryOut(b) ==
  LET t == TargetOf(b.tag)
  IN /\ t # "none" /\ TargetAccepts(b)
     /\ targets[t] < MaxVersion
     /\ targets' = [targets EXCEPT ![t] = @ + 1]
     /\ policy' = IF b.tag = "PARAMETER" THEN b.policy ELSE policy

\* EXECUTE.  Any coin may receive a message without a receiver, so a bill that is
\* not bound to its target may end without being carried out.
Execute ==
  /\ CloseVote
  /\ QuorumMet
  /\ \/ CarryOut(tracker.bill)
     \/ ~BoundToTarget(tracker.bill) /\ UNCHANGED <<policy, targets>>

\* Slip: only a vote below the sponsor's stake counts as failed.
ExpireBelowStake ==
  /\ CloseVote
  /\ tracker.tally < tracker.policy.stake
  /\ UNCHANGED <<policy, targets>>

\* EXPIRE: the vote ended below quorum.
Expire ==
  /\ CloseVote
  /\ ~QuorumMet
  /\ UNCHANGED <<policy, targets>>

\* A target other than the statutes is spent for reasons of its own.
TargetMoves(t) ==
  /\ targets[t] < MaxVersion
  /\ targets' = [targets EXCEPT ![t] = @ + 1]
  /\ UNCHANGED <<now, sgt, tracker, policy, block, history>>

\* The block closes; the next one has a later timestamp and no announcement.
NextBlock(t) ==
  /\ t > now \/ (t = now /\ now = MaxTime)
  /\ now' = t
  /\ block' = EmptyBlock
  /\ UNCHANGED <<sgt, tracker, policy, targets, history>>

SGTSpend ==
  \E S \in SUBSET Mojo, h \in Holder :
    \/ \E to \in Holder : Transfer(S, h, to)
    \/ \E b \in Bill, d \in Time :
         \/ Lock(S, h, b, d)
         \/ ReleaseDeadline(S, h, b, d)
         \/ ReleaseExec(S, h, b, d)

TrackerSpend ==
  \/ \E x \in block.locks : Vote(x) \/ \E p \in block.evidence : Propose(x, p)
  \/ Execute
  \/ Expire

Next ==
  \/ SGTSpend
  \/ TrackerSpend
  \/ \E b \in Bill : AdminApprove(b)
  \/ GovernanceEvidence
  \/ \E t \in Moving : TargetMoves(t)
  \/ \E t \in Time : NextBlock(t)

Spec == Init /\ [][Next]_vars

\* Blocks keep coming; anyone may release an overdue lock, and anyone may
\* spend the tracker once the vote is over, so neither is put off for ever.
Fairness ==
  /\ WF_vars(\E t \in Time : NextBlock(t))
  /\ WF_vars(Execute)
  /\ WF_vars(Expire)
  /\ \A m \in Mojo : WF_vars(\E h \in Holder, b \in Bill, d \in Time :
                               ReleaseDeadline({m}, h, b, d))

FairSpec == Spec /\ Fairness

----------------------------------------------------------------------------
\* The open vote began in a block that had ended no vote before it.  The EXEC
\* announcement of an ended vote outlives the vote: for the rest of its block it
\* releases coins locked anew to the same bill, and the evidence announced before
\* an EXECUTE can still open a vote.
BegunAfresh == Open /\ ~history.reopened

\* And none of its tracker spends shared an announcement with another.
CountedOnce == BegunAfresh /\ ~history.twice

\* The tally of a running vote never exceeds the SGT locked to that bill and
\* that deadline: every vote is backed by coins that cannot vote again.
TallyBacked ==
  CountedOnce /\ now < tracker.deadline =>
    tracker.tally <= Cardinality(LockedTo(tracker.bill, tracker.deadline))

\* The tally stays within the supply after the deadline as well, when its locks
\* may have been released and have voted on something else.
SupplyBoundsTally == CountedOnce => tracker.tally <= Supply

\* The header of governance_singleton_inner_v2.clsp: CAT2 conservation bounds
\* the maximum vote weight at SGT_TOTAL_SUPPLY.
TallyWithinSupply == tracker.tally <= Supply

\* The parameters an open vote is counted under are those the statutes hold:
\* no statutes change slips between the snapshot and the count.
SnapshotCurrent == BegunAfresh => tracker.policy = policy

\* A unit locked to the running vote is not freed before that vote's deadline,
\* whatever announcements the block holds.
HoldVotes ==
  \A m \in Mojo :
    /\ BegunAfresh /\ now < tracker.deadline
    /\ m \in LockedTo(tracker.bill, tracker.deadline)
    => sgt'[m].bill = tracker.bill

VotesStayLocked == [][HoldVotes]_vars

\* What other contracts see of the tracker is a ballot: the quorum decides once,
\* before the deadline, and either end is announced after it.
Abstract ==
  INSTANCE Ballot WITH
    vote <- [bill |-> tracker.bill, deadline |-> tracker.deadline,
             passed |-> Open /\ QuorumMet],
    closed <- block.exec

ImplementsBallot == Abstract!BallotSpec

\* Every lock ends: the coin is eventually free again.
LocksReturn == \A m \in Mojo : sgt[m].bill # NoBill ~> sgt[m].bill = NoBill

\* A vote that closes below quorum is eventually cleared from the tracker.
\* QuorumVotes is the least tally that meets the quorum.
QuorumVotes == (tracker.policy.quorum * Supply + 9999) \div 10000

FailedVoteClears ==
  Open /\ now >= tracker.deadline /\ tracker.tally < QuorumVotes ~> ~Open

\* The comment on known-bill-tag: rejecting malformed bills keeps a proposal
\* that reaches quorum from stranding the tracker.
VotesConclude == Open ~> ~Open
=============================================================================
