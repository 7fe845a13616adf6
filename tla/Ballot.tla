------------------------------- MODULE Ballot -------------------------------
(***************************************************************************)
(* What the proposal tracker promises the contracts that wait for it: one  *)
(* bill at a time is open, it passes before its deadline or not at all,    *)
(* what has passed stays passed, and its end is announced once, in one     *)
(* block, after the deadline.  How votes are weighed is not said.          *)
(***************************************************************************)
EXTENDS Integers

CONSTANTS
  Bill,
  NoBill,
  MaxTime   \* bound: the clock stops here, no deadline is later

ASSUME BallotAssumption == NoBill \notin Bill /\ MaxTime \in Nat

VARIABLES
  now,     \* timestamp of the current block
  vote,    \* the open bill, its deadline and whether its quorum is met
  closed   \* bills whose end the tracker announced in this block (EXEC)

ballotVars == <<now, vote, closed>>

NoVote == [bill |-> NoBill, deadline |-> 0, passed |-> FALSE]

Vote == [bill : Bill, deadline : 0 .. MaxTime, passed : BOOLEAN] \cup {NoVote}

VoteOpen == vote.bill # NoBill

BallotInit == now = 0 /\ vote = NoVote /\ closed = {}

\* PROPOSE: the sponsor's stake may already be a quorum.
Begin(b, d) ==
  /\ ~VoteOpen
  /\ now < d
  /\ \E p \in BOOLEAN : vote' = [bill |-> b, deadline |-> d, passed |-> p]
  /\ UNCHANGED <<now, closed>>

\* The VOTE that meets the quorum.
Pass ==
  /\ VoteOpen /\ ~vote.passed
  /\ now < vote.deadline
  /\ vote' = [bill |-> vote.bill, deadline |-> vote.deadline, passed |-> TRUE]
  /\ UNCHANGED <<now, closed>>

\* EXECUTE of a bill that passed, EXPIRE of one that did not: both announce EXEC.
Close(passed) ==
  /\ VoteOpen /\ vote.passed = passed
  /\ now >= vote.deadline
  /\ vote' = NoVote
  /\ closed' = closed \cup {vote.bill}
  /\ UNCHANGED now

BallotNextBlock(t) ==
  /\ t > now \/ (t = now /\ now = MaxTime)
  /\ now' = t
  /\ closed' = {}
  /\ UNCHANGED vote

BallotNext ==
  \/ \E b \in Bill, d \in 0 .. MaxTime : Begin(b, d)
  \/ Pass
  \/ \E passed \in BOOLEAN : Close(passed)
  \/ \E t \in 0 .. MaxTime : BallotNextBlock(t)

BallotSpec == BallotInit /\ [][BallotNext]_ballotVars
=============================================================================
