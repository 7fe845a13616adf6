----------------------- MODULE SGTGovernance_proofs -----------------------
(***************************************************************************)
(* Proofs about SGTGovernance for every supply, set of holders, bills and  *)
(* policies.                                                               *)
(***************************************************************************)
EXTENDS SGTGovernance, FiniteSetTheorems, TLAPS

\* Sets of units are finite, so their sizes are natural numbers.
LEMMA UnitsFinite ==
  ASSUME NEW S \in SUBSET Mojo
  PROVE  IsFiniteSet(S) /\ Cardinality(S) \in Nat /\ Cardinality(S) <= Supply
BY SGTAssumption, FS_Subset, FS_CardinalityType DEF Supply

\* A larger set of units is no smaller.
LEMMA UnitsMonotone ==
  ASSUME NEW S \in SUBSET Mojo, NEW T \in SUBSET S
  PROVE  Cardinality(T) <= Cardinality(S)
BY UnitsFinite, FS_Subset

\* Moving a target keeps the versions natural numbers.
LEMMA TargetBump ==
  ASSUME NEW t, NEW f \in [Target -> Nat]
  PROVE  [f EXCEPT ![t] = @ + 1] \in [Target -> Nat]
<1>1. \A u \in Target : f[u] + 1 \in Nat
  OBVIOUS
<1>2. QED BY <1>1

----------------------------------------------------------------------------
\* The initial state is well typed.
LEMMA TypeInit == Init => TypeOK
BY PolicyAssumption, BoundAssumption
   DEF Init, TypeOK, Time, SGTState, FreeCoin, Tracker, Block, EmptyBlock, NoHistory

\* A transfer keeps the state well typed.
LEMMA TypeTransfer ==
  ASSUME TypeOK, NEW S \in SUBSET Mojo, NEW h \in Holder, NEW to \in Holder,
         Transfer(S, h, to)
  PROVE  TypeOK'
BY BoundAssumption DEF TypeOK, Transfer, SGTState, FreeCoin, Time

\* A lock keeps the state well typed.
LEMMA TypeLock ==
  ASSUME TypeOK, NEW S \in SUBSET Mojo, NEW h \in Holder, NEW b \in Bill,
         NEW d \in Time, Lock(S, h, b, d)
  PROVE  TypeOK'
<1>1. sgt' \in [Mojo -> SGTState]
  BY DEF TypeOK, Lock, SGTState, LockedCoin
<1>2. [voter |-> h, bill |-> b, amount |-> Cardinality(S), deadline |-> d]
         \in LockAnnouncement
  BY UnitsFinite DEF LockAnnouncement
<1>3. block' \in Block
  BY <1>2 DEF TypeOK, Lock, Block
<1>4. QED BY <1>1, <1>3 DEF TypeOK, Lock

\* A release keeps the state well typed, whatever admits it.
LEMMA TypeRelease ==
  ASSUME TypeOK, NEW S \in SUBSET Mojo, NEW h \in Holder, NEW b \in Bill,
         NEW d \in Time, Release(S, h, b, d)
  PROVE  TypeOK'
BY BoundAssumption DEF TypeOK, Release, SGTState, FreeCoin, Time

\* The tracker's spend that counts an announcement leaves a well typed block.
LEMMA TypeCounts ==
  ASSUME TypeOK, TrackerMaySpend, NEW x \in LockAnnouncement, NEW h, Counts(x, h)
  PROVE  block' \in Block
<1>1. block' = [block EXCEPT !.spends = block.spends + 1, !.counted = block.counted \cup {x}]
  BY DEF Counts
<1>2. block.spends + 1 \in 0 .. TrackerSpendsPerBlock
  BY BoundAssumption DEF TypeOK, Block, TrackerMaySpend
<1>3. block.counted \cup {x} \in SUBSET LockAnnouncement
  BY DEF TypeOK, Block
<1>4. QED BY <1>1, <1>2, <1>3 DEF TypeOK, Block

\* A vote keeps the state well typed.
LEMMA TypeVote ==
  ASSUME TypeOK, NEW x \in block.locks, Vote(x)
  PROVE  TypeOK'
<1>1. x \in LockAnnouncement
  BY DEF TypeOK, Block
<1>2. tracker' \in Tracker
  BY <1>1 DEF TypeOK, Vote, Tracker, LockAnnouncement
<1>3. block' \in Block
  BY <1>1, TypeCounts DEF Vote
<1>4. history' \in [twice : BOOLEAN, reopened : BOOLEAN]
  BY DEF TypeOK, Vote, Counts, Counting
<1>5. QED BY <1>2, <1>3, <1>4 DEF TypeOK, Vote

\* A proposal keeps the state well typed.
LEMMA TypePropose ==
  ASSUME TypeOK, NEW x \in block.locks, NEW p \in block.evidence, Propose(x, p)
  PROVE  TypeOK'
<1>1. x \in LockAnnouncement /\ p \in Policy
  BY DEF TypeOK, Block
<1>2. tracker' \in Tracker
  BY <1>1 DEF Propose, Tracker, LockAnnouncement
<1>3. block' \in Block
  BY <1>1, TypeCounts DEF Propose
<1>4. history' \in [twice : BOOLEAN, reopened : BOOLEAN]
  BY DEF Propose, Counts, Opening
<1>5. QED BY <1>2, <1>3, <1>4 DEF TypeOK, Propose

\* The end of a vote leaves a well typed tracker and block.
LEMMA TypeCloseVote ==
  ASSUME TypeOK, CloseVote
  PROVE  tracker' \in Tracker /\ block' \in Block /\ now' \in Time
         /\ sgt' \in [Mojo -> SGTState]
         /\ history' \in [twice : BOOLEAN, reopened : BOOLEAN]
<1>1. tracker' \in Tracker
  BY BoundAssumption DEF TypeOK, CloseVote, Idle, Tracker, Time
<1>2. tracker.bill \in Bill
  BY DEF TypeOK, CloseVote, Open, Tracker
<1>3. block.spends + 1 \in 0 .. TrackerSpendsPerBlock
  BY BoundAssumption DEF TypeOK, CloseVote, Block, TrackerMaySpend
<1>4. block.exec \cup {tracker.bill} \in SUBSET Bill
  BY <1>2 DEF TypeOK, Block
<1>5. block' = [block EXCEPT !.spends = block.spends + 1,
                             !.exec = block.exec \cup {tracker.bill}]
  BY DEF CloseVote
<1>6. block' \in Block
  BY <1>3, <1>4, <1>5 DEF TypeOK, Block
<1>7. QED BY <1>1, <1>6 DEF TypeOK, CloseVote, NoHistory

\* Executing a bill keeps the state well typed.
LEMMA TypeExecute == ASSUME TypeOK, Execute PROVE TypeOK'
<1>1. CloseVote /\ tracker.bill \in Bill
  BY DEF TypeOK, Execute, CloseVote, Open, Tracker
<1>2. policy' \in Policy
  BY <1>1, BillAssumption DEF TypeOK, Execute, CarryOut
<1>3. targets' \in [Target -> Nat]
  <2>1. CASE CarryOut(tracker.bill)
    <3> DEFINE t == TargetOf(tracker.bill.tag)
    <3>1. targets' = [targets EXCEPT ![t] = @ + 1]
      BY <2>1 DEF CarryOut
    <3> HIDE DEF t
    <3>2. [targets EXCEPT ![t] = @ + 1] \in [Target -> Nat]
      BY TargetBump DEF TypeOK
    <3>3. QED BY <3>1, <3>2
  <2>2. QED BY <2>1 DEF TypeOK, Execute
<1>4. QED BY <1>1, <1>2, <1>3, TypeCloseVote DEF TypeOK

\* The type invariant: every spend leaves the tracker, the coins and the block
\* in states the puzzles can be curried with.
THEOREM TypeCorrect == Spec => []TypeOK
<1>1. TypeOK /\ [Next]_vars => TypeOK'
  <2> SUFFICES ASSUME TypeOK, [Next]_vars PROVE TypeOK'
    OBVIOUS
  <2>1. CASE SGTSpend
    <3>1. PICK S \in SUBSET Mojo, h \in Holder :
            \/ \E to \in Holder : Transfer(S, h, to)
            \/ \E b \in Bill, d \in Time : Lock(S, h, b, d) \/ Release(S, h, b, d)
      BY <2>1 DEF SGTSpend, ReleaseDeadline, ReleaseExec
    <3>2. CASE \E to \in Holder : Transfer(S, h, to)
      BY <3>2, TypeTransfer
    <3>3. ASSUME NEW b \in Bill, NEW d \in Time, Lock(S, h, b, d) PROVE TypeOK'
      BY <3>3, TypeLock
    <3>4. ASSUME NEW b \in Bill, NEW d \in Time, Release(S, h, b, d) PROVE TypeOK'
      BY <3>4, TypeRelease
    <3>5. QED BY <3>1, <3>2, <3>3, <3>4
  <2>2. CASE TrackerSpend
    <3>1. CASE Expire
      BY <3>1, TypeCloseVote DEF Expire, TypeOK
    <3>2. QED BY <2>2, <3>1, TypeVote, TypePropose, TypeExecute DEF TrackerSpend
  <2>3. CASE \E b \in Bill : AdminApprove(b)
    BY <2>3 DEF TypeOK, AdminApprove, Block
  <2>4. CASE GovernanceEvidence
    BY <2>4 DEF TypeOK, GovernanceEvidence, Block
  <2>5. CASE \E t \in Moving : TargetMoves(t)
    BY <2>5, TargetBump DEF TypeOK, TargetMoves
  <2>6. CASE \E t \in Time : NextBlock(t)
    BY <2>6, BoundAssumption DEF TypeOK, NextBlock, Block, EmptyBlock
  <2>7. CASE UNCHANGED vars
    BY <2>7 DEF TypeOK, vars
  <2>8. QED BY <2>1, <2>2, <2>3, <2>4, <2>5, <2>6, <2>7 DEF Next
<1>2. QED BY TypeInit, <1>1, PTL DEF Spec

----------------------------------------------------------------------------
(***************************************************************************)
(* TallyBacked is not inductive: nothing in it says that an announcement   *)
(* about to be counted stands for units not yet counted.  The strengthening*)
(* is a witness f, which names for each unit the announcement its lock of  *)
(* this block made, if any: behind every announcement stand enough locked  *)
(* units, and the tally is covered by locked units whose announcement was  *)
(* counted or is of an earlier block.  It is kept as long as no vote has   *)
(* ended in the block.                                                     *)
(***************************************************************************)
\* Announced locks are still in the future.
LocksAhead == \A x \in block.locks : now < x.deadline

\* The locked units that stand behind announcement x.
Behind(f, x) == {m \in LockedTo(x.bill, x.deadline) : x \in f[m]}

\* The locked units of the open vote of which no announcement is still to be counted.
Covered(f) == {m \in LockedTo(tracker.bill, tracker.deadline) : f[m] \subseteq block.counted}

\* f gives each unit at most one announcement, backs all of them and leaves the
\* tally covered.
BackedBy(f) ==
  /\ \A m \in Mojo : \A x, y \in f[m] : x = y
  /\ \A x \in block.locks : x.amount <= Cardinality(Behind(f, x))
  /\ CountedOnce /\ now < tracker.deadline => tracker.tally <= Cardinality(Covered(f))

AnnouncementsBacked ==
  block.exec = {} => \E f \in [Mojo -> SUBSET block.locks] : BackedBy(f)

\* A vote begun afresh sees no EXEC announcement while it is open.
NoEndSince == BegunAfresh => block.exec = {}

\* Evidence announced before any vote ended in the block is up to date.
EvidenceCurrent == block.exec = {} => block.evidence \subseteq {policy}

IInv ==
  /\ TypeOK
  /\ LocksAhead
  /\ NoEndSince
  /\ AnnouncementsBacked
  /\ SupplyBoundsTally
  /\ EvidenceCurrent
  /\ SnapshotCurrent

\* Sizes of disjoint sets of units add up.
LEMMA UnitsDisjoint ==
  ASSUME NEW A \in SUBSET Mojo, NEW B \in SUBSET Mojo, A \cap B = {}
  PROVE  Cardinality(A \cup B) = Cardinality(A) + Cardinality(B)
<1>1. IsFiniteSet(A) /\ IsFiniteSet(B) /\ Cardinality(A) \in Nat /\ Cardinality(B) \in Nat
  BY UnitsFinite
<1>2. Cardinality(A \cup B) = Cardinality(A) + Cardinality(B) - Cardinality(A \cap B)
  BY <1>1, FS_Union
<1>3. Cardinality(A \cap B) = 0
  BY FS_EmptySet
<1>4. QED BY <1>1, <1>2, <1>3

\* The units behind announcements and those covered are units.
LEMMA LockedUnits ==
  ASSUME NEW f, NEW x
  PROVE  /\ LockedTo(x.bill, x.deadline) \in SUBSET Mojo
         /\ LockedTo(tracker.bill, tracker.deadline) \in SUBSET Mojo
         /\ Behind(f, x) \in SUBSET LockedTo(x.bill, x.deadline)
         /\ Covered(f) \in SUBSET LockedTo(tracker.bill, tracker.deadline)
BY DEF LockedTo, Behind, Covered

\* What a state of the invariant says of the announcements and of the open vote.
LEMMA InvTypes ==
  ASSUME TypeOK
  PROVE  /\ \A x \in block.locks : x.bill \in Bill /\ x.deadline \in Time /\ x.amount \in Nat
         /\ Open => tracker.bill \in Bill
         /\ tracker.deadline \in Time /\ tracker.tally \in Nat /\ now \in Time
         /\ \A t \in Time : t \in Nat
BY BoundAssumption DEF TypeOK, Block, LockAnnouncement, Open, Tracker, Time

\* The deployment satisfies the inductive invariant.
LEMMA InvInit == Init => IInv
<1> SUFFICES ASSUME Init PROVE IInv
  OBVIOUS
<1>1. TypeOK
  BY TypeInit
<1>2. ~Open /\ block = EmptyBlock
  BY DEF Init, Open
<1>3. AnnouncementsBacked
  <2> DEFINE f == [m \in Mojo |-> {}]
  <2>1. f \in [Mojo -> SUBSET block.locks] /\ block.locks = {}
    BY <1>2 DEF EmptyBlock
  <2>2. BackedBy(f)
    BY <1>2, <2>1 DEF BackedBy, CountedOnce, BegunAfresh
  <2>3. QED BY <2>1, <2>2 DEF AnnouncementsBacked
<1>4. QED
  BY <1>1, <1>2, <1>3
     DEF IInv, LocksAhead, NoEndSince, SupplyBoundsTally, EvidenceCurrent, SnapshotCurrent,
         CountedOnce, BegunAfresh, EmptyBlock

\* A transfer moves free coins only, so no lock set changes.
LEMMA InvTransfer ==
  ASSUME IInv, TypeOK', NEW S \in SUBSET Mojo, NEW h \in Holder,
         NEW to \in Holder, Transfer(S, h, to)
  PROVE  IInv'
<1>1. UNCHANGED <<now, tracker, policy, block, history>>
  BY DEF Transfer
<1>2. ASSUME NEW b \in Bill, NEW d PROVE LockedTo(b, d)' = LockedTo(b, d)
  BY SGTAssumption DEF Transfer, LockedTo, FreeCoin
<1>3. AnnouncementsBacked'
  <2> SUFFICES ASSUME block.exec = {}
      PROVE  \E f \in [Mojo -> SUBSET block.locks] : BackedBy(f)'
    BY <1>1 DEF AnnouncementsBacked
  <2>1. PICK f \in [Mojo -> SUBSET block.locks] : BackedBy(f)
    BY DEF IInv, AnnouncementsBacked
  <2>2. \A x \in block.locks : Behind(f, x)' = Behind(f, x)
    BY <1>2, InvTypes DEF Behind, IInv
  <2>3. Open => Covered(f)' = Covered(f)
    BY <1>1, <1>2, InvTypes DEF Covered, IInv
  <2>4. BackedBy(f)'
    BY <1>1, <2>1, <2>2, <2>3 DEF BackedBy, CountedOnce, BegunAfresh, Open
  <2>5. QED BY <2>4
<1>4. QED
  BY <1>1, <1>3
     DEF IInv, LocksAhead, NoEndSince, SupplyBoundsTally, EvidenceCurrent, SnapshotCurrent,
         CountedOnce, BegunAfresh, Open

\* A lock adds free units to its lock set, and they stand behind its announcement.
LEMMA InvLock ==
  ASSUME IInv, TypeOK', NEW S \in SUBSET Mojo, NEW h \in Holder,
         NEW b \in Bill, NEW d \in Time, Lock(S, h, b, d)
  PROVE  IInv'
<1> DEFINE x0 == [voter |-> h, bill |-> b, amount |-> Cardinality(S), deadline |-> d]
<1>1. /\ UNCHANGED <<now, tracker, policy, history>> /\ now < d
      /\ block'.locks = block.locks \cup {x0}
      /\ block'.counted = block.counted /\ block'.exec = block.exec
      /\ block'.evidence = block.evidence
  BY DEF Lock, IInv, TypeOK, Block
<1>2. \A c \in Bill, e \in Time :
         LockedTo(c, e)' = LockedTo(c, e) \cup (IF c = b /\ e = d THEN S ELSE {})
  BY SGTAssumption DEF Lock, LockedTo, FreeCoin, LockedCoin
<1>3. \A c \in Bill, e \in Time : LockedTo(c, e) \cap S = {}
  BY SGTAssumption DEF Lock, LockedTo, FreeCoin
<1>4. AnnouncementsBacked'
  <2> SUFFICES ASSUME block.exec = {}
      PROVE  \E g \in [Mojo -> SUBSET block'.locks] : BackedBy(g)'
    BY <1>1 DEF AnnouncementsBacked
  <2>1. PICK f \in [Mojo -> SUBSET block.locks] : BackedBy(f)
    BY DEF IInv, AnnouncementsBacked
  <2> DEFINE g == [m \in Mojo |-> IF m \in S THEN {x0} ELSE f[m]]
  <2>2. g \in [Mojo -> SUBSET block'.locks]
    BY <1>1, <2>1
  <2>3. \A m \in Mojo : \A x, y \in g[m] : x = y
    BY <2>1 DEF BackedBy
  <2>4. ASSUME NEW x \in block'.locks
        PROVE  x.amount <= Cardinality(Behind(g, x)')
    <3>1. Behind(g, x)' \in SUBSET Mojo
      BY DEF Behind, LockedTo
    <3>2. CASE x = x0
      <4>1. x.bill = b /\ x.deadline = d /\ x.amount = Cardinality(S)
        BY <3>2
      <4>2. S \subseteq LockedTo(x.bill, x.deadline)'
        BY <1>2, <4>1
      <4>3. \A m \in S : m \in Mojo /\ x \in g[m]
        BY <3>2
      <4>4. S \subseteq Behind(g, x)'
        BY <4>2, <4>3 DEF Behind
      <4>5. QED BY <4>1, <4>4, <3>1, UnitsMonotone
    <3>3. CASE x \in block.locks
      <4>1. x.bill \in Bill /\ x.deadline \in Time /\ x.amount \in Nat
        BY <3>3, InvTypes DEF IInv
      <4>2. Behind(f, x) \subseteq Behind(g, x)'
        BY <4>1, <1>2, <1>3 DEF Behind, LockedTo
      <4>3. Cardinality(Behind(f, x)) <= Cardinality(Behind(g, x)')
        BY <4>2, <3>1, UnitsMonotone
      <4>4. x.amount <= Cardinality(Behind(f, x))
        BY <2>1, <3>3 DEF BackedBy
      <4>5. Cardinality(Behind(f, x)) \in Nat /\ Cardinality(Behind(g, x)') \in Nat
        BY <4>2, <3>1, UnitsFinite
      <4>6. QED BY <4>1, <4>3, <4>4, <4>5
    <3>4. QED BY <3>2, <3>3, <1>1
  <2>5. ASSUME CountedOnce, now < tracker.deadline
        PROVE  tracker.tally <= Cardinality(Covered(g)')
    <3>1. tracker.bill \in Bill /\ tracker.deadline \in Time /\ tracker.tally \in Nat
      BY <2>5, InvTypes DEF IInv, CountedOnce, BegunAfresh
    <3>2. Covered(f) \subseteq Covered(g)' /\ Covered(g)' \in SUBSET Mojo
      BY <3>1, <1>1, <1>2, <1>3 DEF Covered, LockedTo
    <3>3. Cardinality(Covered(f)) <= Cardinality(Covered(g)')
      BY <3>2, UnitsMonotone
    <3>4. Cardinality(Covered(f)) \in Nat /\ Cardinality(Covered(g)') \in Nat
      BY <3>2, UnitsFinite
    <3>5. tracker.tally <= Cardinality(Covered(f))
      BY <2>1, <2>5 DEF BackedBy
    <3>6. QED BY <3>1, <3>3, <3>4, <3>5
  <2> HIDE DEF g
  <2>6. CountedOnce' <=> CountedOnce
    BY <1>1 DEF CountedOnce, BegunAfresh, Open
  <2>7. BackedBy(g)'
    BY <1>1, <2>3, <2>4, <2>5, <2>6 DEF BackedBy
  <2>8. QED BY <2>2, <2>7
<1>5. LocksAhead'
  BY <1>1 DEF IInv, LocksAhead
<1>6. QED
  BY <1>1, <1>4, <1>5
     DEF IInv, NoEndSince, SupplyBoundsTally, EvidenceCurrent, SnapshotCurrent,
         CountedOnce, BegunAfresh, Open

\* A release frees units of an overdue lock, or of a bill whose vote ended in
\* this block; neither is announced for a vote to come nor in a vote begun afresh.
LEMMA InvRelease ==
  ASSUME IInv, TypeOK', NEW S \in SUBSET Mojo, NEW h \in Holder,
         NEW b \in Bill, NEW d \in Time,
         ReleaseDeadline(S, h, b, d) \/ ReleaseExec(S, h, b, d)
  PROVE  IInv'
<1>1. Release(S, h, b, d) /\ UNCHANGED <<now, tracker, policy, block, history>>
  BY DEF ReleaseDeadline, ReleaseExec, Release
<1>2. \A c \in Bill, e \in Time :
         (c # b \/ e # d) => LockedTo(c, e)' = LockedTo(c, e)
  BY <1>1, SGTAssumption DEF Release, LockedTo, FreeCoin, LockedCoin
<1>3. block.exec = {} => now >= d
  BY DEF ReleaseDeadline, ReleaseExec
<1>4. AnnouncementsBacked'
  <2> SUFFICES ASSUME block.exec = {}
      PROVE  \E f \in [Mojo -> SUBSET block.locks] : BackedBy(f)'
    BY <1>1 DEF AnnouncementsBacked
  <2>1. PICK f \in [Mojo -> SUBSET block.locks] : BackedBy(f)
    BY DEF IInv, AnnouncementsBacked
  <2>2. \A e \in Time : now < e => e # d
    BY <1>3, InvTypes DEF IInv
  <2>3. \A x \in block.locks : Behind(f, x)' = Behind(f, x)
    BY <1>2, <2>2, InvTypes DEF Behind, IInv, LocksAhead
  <2>4. Open /\ now < tracker.deadline => Covered(f)' = Covered(f)
    BY <1>1, <1>2, <2>2, InvTypes DEF Covered, IInv
  <2>5. BackedBy(f)'
    BY <1>1, <2>1, <2>3, <2>4 DEF BackedBy, CountedOnce, BegunAfresh, Open
  <2>6. QED BY <2>5
<1>5. QED
  BY <1>1, <1>4
     DEF IInv, LocksAhead, NoEndSince, SupplyBoundsTally, EvidenceCurrent, SnapshotCurrent,
         CountedOnce, BegunAfresh, Open

\* The weight an announcement adds the first time is that of the units behind it,
\* which the tally did not cover before.
LEMMA InvVote ==
  ASSUME IInv, TypeOK', NEW x \in block.locks, Vote(x)
  PROVE  IInv'
<1> DEFINE L == LockedTo(tracker.bill, tracker.deadline)
<1>1. /\ UNCHANGED <<now, sgt, policy>> /\ Open /\ now < tracker.deadline
      /\ x.bill = tracker.bill /\ x.deadline = tracker.deadline
      /\ tracker'.bill = tracker.bill /\ tracker'.deadline = tracker.deadline
      /\ tracker'.policy = tracker.policy /\ tracker'.tally = tracker.tally + x.amount
      /\ block'.locks = block.locks /\ block'.counted = block.counted \cup {x}
      /\ block'.exec = block.exec /\ block'.evidence = block.evidence
  BY DEF Vote, Counts, IInv, TypeOK, Tracker, Block
<1>2. history'.reopened = history.reopened
      /\ history'.twice = (history.twice \/ x \in block.counted)
  BY DEF Vote, Counts, Counting
<1>3. (BegunAfresh' <=> BegunAfresh)
      /\ (CountedOnce' => CountedOnce /\ x \notin block.counted)
  BY <1>1, <1>2 DEF CountedOnce, BegunAfresh, Open
<1>4. tracker.tally \in Nat /\ x.amount \in Nat
  BY InvTypes DEF IInv
<1>5. ASSUME NEW f \in [Mojo -> SUBSET block.locks], BackedBy(f), CountedOnce'
      PROVE  tracker.tally + x.amount <= Cardinality(Covered(f)')
  <2> DEFINE A == Covered(f)
             B == Behind(f, x)
  <2>1. tracker.tally <= Cardinality(A) /\ x.amount <= Cardinality(B)
    BY <1>1, <1>3, <1>5 DEF BackedBy
  <2>2. A \in SUBSET Mojo /\ B \in SUBSET Mojo
    BY DEF Covered, Behind, LockedTo
  <2>3. A \cap B = {}
    BY <1>3, <1>5 DEF Covered, Behind
  <2>4. \A m \in Mojo : x \in f[m] => f[m] = {x}
    BY <1>5 DEF BackedBy
  <2>5. A \cup B \subseteq Covered(f)'
    BY <1>1, <2>2, <2>4 DEF Covered, Behind, LockedTo
  <2>6. Covered(f)' \in SUBSET Mojo
    BY DEF Covered, LockedTo
  <2> HIDE DEF A, B
  <2>7. Cardinality(A \cup B) = Cardinality(A) + Cardinality(B)
    BY <2>2, <2>3, UnitsDisjoint
  <2>8. Cardinality(A \cup B) <= Cardinality(Covered(f)')
    BY <2>5, <2>6, UnitsMonotone
  <2>9. Cardinality(A) \in Nat /\ Cardinality(B) \in Nat /\ Cardinality(Covered(f)') \in Nat
    BY <2>2, <2>6, UnitsFinite
  <2>10. QED BY <1>4, <2>1, <2>7, <2>8, <2>9
<1>6. AnnouncementsBacked'
  <2> SUFFICES ASSUME block.exec = {}
      PROVE  \E f \in [Mojo -> SUBSET block.locks] : BackedBy(f)'
    BY <1>1 DEF AnnouncementsBacked
  <2>1. PICK f \in [Mojo -> SUBSET block.locks] : BackedBy(f)
    BY DEF IInv, AnnouncementsBacked
  <2>2. \A y \in block.locks : Behind(f, y)' = Behind(f, y)
    BY <1>1 DEF Behind, LockedTo
  <2>3. BackedBy(f)'
    BY <1>1, <1>5, <2>1, <2>2 DEF BackedBy
  <2>4. QED BY <2>3
<1>7. SupplyBoundsTally'
  <2> SUFFICES ASSUME CountedOnce' PROVE tracker'.tally <= Supply'
    BY DEF SupplyBoundsTally
  <2>1. block.exec = {}
    BY <1>3 DEF IInv, NoEndSince, CountedOnce
  <2>2. PICK f \in [Mojo -> SUBSET block.locks] : BackedBy(f)
    BY <2>1 DEF IInv, AnnouncementsBacked
  <2>3. tracker.tally + x.amount <= Cardinality(Covered(f)')
    BY <1>5, <2>2
  <2>4. Covered(f)' \in SUBSET Mojo
    BY DEF Covered, LockedTo
  <2>5. Cardinality(Covered(f)') \in Nat /\ Cardinality(Covered(f)') <= Supply
    BY <2>4, UnitsFinite
  <2>6. Supply \in Nat /\ Supply' = Supply
    BY SGTAssumption, FS_CardinalityType DEF Supply
  <2>7. QED BY <1>1, <1>4, <2>3, <2>5, <2>6
<1>8. QED
  BY <1>1, <1>3, <1>6, <1>7
     DEF IInv, LocksAhead, NoEndSince, EvidenceCurrent, SnapshotCurrent

\* The first tally is the sponsor's announced lock, and the snapshot is what the
\* statutes announced earlier in this block.
LEMMA InvPropose ==
  ASSUME IInv, TypeOK', NEW x \in block.locks, NEW p \in block.evidence,
         Propose(x, p)
  PROVE  IInv'
<1>1. /\ UNCHANGED <<now, sgt, policy>>
      /\ tracker' = [bill |-> x.bill, tally |-> x.amount, deadline |-> x.deadline, policy |-> p]
      /\ block'.locks = block.locks /\ block'.counted = block.counted \cup {x}
      /\ block'.exec = block.exec /\ block'.evidence = block.evidence
      /\ history'.reopened = (block.exec # {})
  BY DEF Propose, Counts, Opening, IInv, TypeOK, Block
<1>2. BegunAfresh' => block.exec = {}
  BY <1>1 DEF BegunAfresh
<1>3. x.amount \in Nat
  BY InvTypes DEF IInv
<1>4. ASSUME NEW f \in [Mojo -> SUBSET block.locks], BackedBy(f)
      PROVE  x.amount <= Cardinality(Covered(f)')
  <2>1. Behind(f, x) \subseteq Covered(f)' /\ Covered(f)' \in SUBSET Mojo
    <3>1. \A m \in Mojo : x \in f[m] => f[m] \subseteq {x}
      BY <1>4 DEF BackedBy
    <3>2. QED BY <1>1, <3>1 DEF Covered, Behind, LockedTo
  <2>2. Cardinality(Behind(f, x)) <= Cardinality(Covered(f)')
    BY <2>1, UnitsMonotone
  <2>3. Cardinality(Behind(f, x)) \in Nat /\ Cardinality(Covered(f)') \in Nat
    BY <2>1, UnitsFinite
  <2>4. x.amount <= Cardinality(Behind(f, x))
    BY <1>4 DEF BackedBy
  <2>5. QED BY <1>3, <2>2, <2>3, <2>4
<1>5. AnnouncementsBacked'
  <2> SUFFICES ASSUME block.exec = {}
      PROVE  \E f \in [Mojo -> SUBSET block.locks] : BackedBy(f)'
    BY <1>1 DEF AnnouncementsBacked
  <2>1. PICK f \in [Mojo -> SUBSET block.locks] : BackedBy(f)
    BY DEF IInv, AnnouncementsBacked
  <2>2. \A y \in block.locks : Behind(f, y)' = Behind(f, y)
    BY <1>1 DEF Behind, LockedTo
  <2>3. BackedBy(f)'
    BY <1>1, <1>4, <2>1, <2>2 DEF BackedBy
  <2>4. QED BY <2>3
<1>6. SupplyBoundsTally'
  <2> SUFFICES ASSUME CountedOnce' PROVE tracker'.tally <= Supply'
    BY DEF SupplyBoundsTally
  <2>1. PICK f \in [Mojo -> SUBSET block.locks] : BackedBy(f)
    BY <1>2 DEF IInv, AnnouncementsBacked, CountedOnce
  <2>2. x.amount <= Cardinality(Covered(f)')
    BY <1>4, <2>1
  <2>3. Covered(f)' \in SUBSET Mojo
    BY DEF Covered, LockedTo
  <2>4. Cardinality(Covered(f)') \in Nat /\ Cardinality(Covered(f)') <= Supply
    BY <2>3, UnitsFinite
  <2>5. Supply \in Nat /\ Supply' = Supply
    BY SGTAssumption, FS_CardinalityType DEF Supply
  <2>6. QED BY <1>1, <1>3, <2>2, <2>4, <2>5
<1>7. SnapshotCurrent'
  <2>1. block.exec = {} => p = policy
    BY DEF IInv, EvidenceCurrent
  <2>2. QED BY <1>1, <1>2, <2>1 DEF SnapshotCurrent
<1>8. QED
  BY <1>1, <1>2, <1>5, <1>6, <1>7
     DEF IInv, LocksAhead, NoEndSince, EvidenceCurrent

\* The end of a vote is announced, and leaves no tally to cover.
LEMMA InvCloseVote ==
  ASSUME IInv, TypeOK', CloseVote
  PROVE  IInv'
<1>1. /\ UNCHANGED now /\ tracker' = Idle
      /\ block'.exec = block.exec \cup {tracker.bill} /\ block'.locks = block.locks
  BY DEF CloseVote, IInv, TypeOK, Block
<1>2. block'.exec # {} /\ ~Open'
  BY <1>1 DEF Idle, Open
<1>3. QED
  BY <1>1, <1>2
     DEF IInv, LocksAhead, NoEndSince, AnnouncementsBacked, SupplyBoundsTally,
         EvidenceCurrent, SnapshotCurrent, CountedOnce, BegunAfresh

\* A step that leaves tracker, coins, locks and what ended in the block alone keeps
\* the inductive invariant, when the evidence it announces is up to date.
LEMMA InvUnrelated ==
  ASSUME IInv, TypeOK', UNCHANGED <<now, sgt, tracker, policy, history>>,
         block'.locks = block.locks, block'.counted = block.counted,
         block'.exec = block.exec, block'.evidence \subseteq block.evidence \cup {policy}
  PROVE  IInv'
<1>1. AnnouncementsBacked'
  <2> SUFFICES ASSUME block.exec = {}
      PROVE  \E f \in [Mojo -> SUBSET block.locks] : BackedBy(f)'
    BY DEF AnnouncementsBacked
  <2>1. PICK f \in [Mojo -> SUBSET block.locks] : BackedBy(f)
    BY DEF IInv, AnnouncementsBacked
  <2>2. (\A x \in block.locks : Behind(f, x)' = Behind(f, x)) /\ Covered(f)' = Covered(f)
    BY DEF Behind, Covered, LockedTo
  <2>3. BackedBy(f)'
    BY <2>1, <2>2 DEF BackedBy, CountedOnce, BegunAfresh, Open
  <2>4. QED BY <2>3
<1>2. SupplyBoundsTally' /\ NoEndSince' /\ SnapshotCurrent'
  BY DEF IInv, SupplyBoundsTally, Supply, NoEndSince, SnapshotCurrent, CountedOnce,
         BegunAfresh, Open
<1>3. LocksAhead' /\ EvidenceCurrent'
  BY DEF IInv, LocksAhead, EvidenceCurrent
<1>4. QED BY <1>1, <1>2, <1>3 DEF IInv

\* A new block forgets the announcements; whatever locks the tally covers is of
\* an earlier block now.
LEMMA InvNextBlock ==
  ASSUME IInv, TypeOK', NEW t \in Time, NextBlock(t)
  PROVE  IInv'
<1>1. /\ UNCHANGED <<sgt, tracker, policy, history>> /\ block' = EmptyBlock
      /\ now' >= now /\ now' \in Nat /\ now \in Nat
  BY InvTypes, BoundAssumption DEF NextBlock, IInv, Time
<1>2. AnnouncementsBacked'
  <2> DEFINE g == [m \in Mojo |-> {}]
  <2>1. g \in [Mojo -> SUBSET block'.locks] /\ block'.locks = {}
    BY <1>1 DEF EmptyBlock
  <2>2. ASSUME CountedOnce, now' < tracker.deadline
        PROVE  tracker.tally <= Cardinality(Covered(g)')
    <3>1. tracker.deadline \in Nat /\ tracker.tally \in Nat /\ now < tracker.deadline
      BY <1>1, <2>2, InvTypes DEF IInv
    <3>2. block.exec = {}
      BY <2>2 DEF IInv, NoEndSince, CountedOnce
    <3>3. PICK f \in [Mojo -> SUBSET block.locks] : BackedBy(f)
      BY <3>2 DEF IInv, AnnouncementsBacked
    <3>4. tracker.tally <= Cardinality(Covered(f))
      BY <2>2, <3>1, <3>3 DEF BackedBy
    <3>5. Covered(f) \subseteq Covered(g)' /\ Covered(g)' \in SUBSET Mojo
      BY <1>1 DEF Covered, LockedTo
    <3>6. Cardinality(Covered(f)) <= Cardinality(Covered(g)')
      BY <3>5, UnitsMonotone
    <3>7. Cardinality(Covered(f)) \in Nat /\ Cardinality(Covered(g)') \in Nat
      BY <3>5, UnitsFinite
    <3>8. QED BY <3>1, <3>4, <3>6, <3>7
  <2>3. CountedOnce' <=> CountedOnce
    BY <1>1 DEF CountedOnce, BegunAfresh, Open
  <2>4. \A m \in Mojo : \A x, y \in g[m] : x = y
    OBVIOUS
  <2> HIDE DEF g
  <2>5. BackedBy(g)'
    BY <1>1, <2>1, <2>2, <2>3, <2>4 DEF BackedBy
  <2>6. QED BY <2>1, <2>5 DEF AnnouncementsBacked
<1>3. QED
  BY <1>1, <1>2
     DEF IInv, LocksAhead, NoEndSince, SupplyBoundsTally, Supply, EvidenceCurrent,
         SnapshotCurrent, CountedOnce, BegunAfresh, EmptyBlock, Open

\* Every step keeps the inductive invariant.
LEMMA InvNext == ASSUME IInv, TypeOK', [Next]_vars PROVE IInv'
<1>1. CASE SGTSpend
  <2>1. PICK S \in SUBSET Mojo, h \in Holder :
          \/ \E to \in Holder : Transfer(S, h, to)
          \/ \E b \in Bill, d \in Time :
               \/ Lock(S, h, b, d)
               \/ ReleaseDeadline(S, h, b, d) \/ ReleaseExec(S, h, b, d)
    BY <1>1 DEF SGTSpend
  <2>2. CASE \E to \in Holder : Transfer(S, h, to)
    BY <2>2, InvTransfer
  <2>3. ASSUME NEW b \in Bill, NEW d \in Time, Lock(S, h, b, d) PROVE IInv'
    BY <2>3, InvLock
  <2>4. ASSUME NEW b \in Bill, NEW d \in Time,
               ReleaseDeadline(S, h, b, d) \/ ReleaseExec(S, h, b, d)
        PROVE IInv'
    BY <2>4, InvRelease
  <2>5. QED BY <2>1, <2>2, <2>3, <2>4
<1>2. CASE TrackerSpend
  <2>1. ASSUME Execute \/ Expire PROVE IInv'
    BY <2>1, InvCloseVote DEF Execute, Expire
  <2>2. QED BY <1>2, <2>1, InvVote, InvPropose DEF TrackerSpend
<1>3. CASE (\E b \in Bill : AdminApprove(b)) \/ GovernanceEvidence
  <2>1. /\ UNCHANGED <<now, sgt, tracker, policy, history>>
        /\ block'.locks = block.locks /\ block'.counted = block.counted
        /\ block'.exec = block.exec /\ block'.evidence \subseteq block.evidence \cup {policy}
    BY <1>3 DEF AdminApprove, GovernanceEvidence, IInv, TypeOK, Block
  <2>2. QED BY <2>1, InvUnrelated
<1>4. CASE (\E t \in Moving : TargetMoves(t)) \/ UNCHANGED vars
  BY <1>4, InvUnrelated DEF TargetMoves, vars
<1>5. CASE \E t \in Time : NextBlock(t)
  BY <1>5, InvNextBlock
<1>6. QED BY <1>1, <1>2, <1>3, <1>4, <1>5 DEF Next

\* The inductive invariant holds in every behaviour.
THEOREM Invariance == Spec => []IInv
<1>1. IInv /\ TypeOK' /\ [Next]_vars => IInv'
  BY InvNext
<1>2. QED BY InvInit, <1>1, TypeCorrect, PTL DEF Spec

\* The tally of a running vote that began afresh and shared no announcement never
\* exceeds the SGT locked to it: no unit of SGT votes twice.
THEOREM TallyIsBacked == Spec => []TallyBacked
<1>1. IInv => TallyBacked
  <2> SUFFICES ASSUME IInv, CountedOnce, now < tracker.deadline
      PROVE tracker.tally <= Cardinality(LockedTo(tracker.bill, tracker.deadline))
    BY DEF TallyBacked
  <2> DEFINE L == LockedTo(tracker.bill, tracker.deadline)
  <2>1. block.exec = {}
    BY DEF IInv, NoEndSince, CountedOnce
  <2>2. PICK f \in [Mojo -> SUBSET block.locks] : BackedBy(f)
    BY <2>1 DEF IInv, AnnouncementsBacked
  <2>3. L \in SUBSET Mojo /\ Covered(f) \in SUBSET L
    BY DEF LockedTo, Covered
  <2>4. tracker.tally <= Cardinality(Covered(f))
    BY <2>2 DEF BackedBy
  <2> HIDE DEF L
  <2>5. Cardinality(Covered(f)) <= Cardinality(L)
    BY <2>3, UnitsMonotone
  <2>6. Cardinality(Covered(f)) \in Nat /\ Cardinality(L) \in Nat /\ tracker.tally \in Nat
    BY <2>3, UnitsFinite, InvTypes DEF IInv
  <2>7. QED BY <2>4, <2>5, <2>6 DEF L
<1>2. QED BY <1>1, Invariance, PTL

\* The tally of such a vote never exceeds the SGT supply, after the deadline
\* included, when the locks may have been released.
THEOREM TallyIsWithinSupply == Spec => []SupplyBoundsTally
<1>1. IInv => SupplyBoundsTally
  BY DEF IInv
<1>2. QED BY <1>1, Invariance, PTL

\* An open vote that began afresh is counted under the parameters that the
\* statutes hold at that moment.
THEOREM SnapshotIsCurrent == Spec => []SnapshotCurrent
<1>1. IInv => SnapshotCurrent
  BY DEF IInv
<1>2. QED BY <1>1, Invariance, PTL

\* A unit that voted stays locked until the deadline of the vote, when the vote
\* began afresh.
THEOREM VotesAreHeld == Spec => VotesStayLocked
<1>1. IInv /\ [Next]_vars => [HoldVotes]_vars
  <2> SUFFICES ASSUME IInv, Next, NEW m \in Mojo, BegunAfresh, now < tracker.deadline,
                      m \in LockedTo(tracker.bill, tracker.deadline)
      PROVE  sgt'[m].bill = tracker.bill
    BY DEF HoldVotes
  <2>1. sgt[m].bill = tracker.bill /\ sgt[m].deadline = tracker.deadline
        /\ tracker.bill # NoBill /\ block.exec = {}
    BY DEF LockedTo, BegunAfresh, Open, IInv, NoEndSince
  <2>2. CASE UNCHANGED sgt
    BY <2>1, <2>2
  <2>3. CASE SGTSpend
    <3>1. PICK S \in SUBSET Mojo, h \in Holder :
            \/ \E to \in Holder : Transfer(S, h, to)
            \/ \E b \in Bill, d \in Time :
                 \/ Lock(S, h, b, d)
                 \/ ReleaseDeadline(S, h, b, d) \/ ReleaseExec(S, h, b, d)
      BY <2>3 DEF SGTSpend
    <3>2. ASSUME NEW to \in Holder, Transfer(S, h, to) PROVE sgt'[m] = sgt[m]
      BY <3>2, <2>1 DEF Transfer, FreeCoin
    <3>3. ASSUME NEW b \in Bill, NEW d \in Time, Lock(S, h, b, d)
          PROVE sgt'[m] = sgt[m]
      BY <3>3, <2>1 DEF Lock, FreeCoin
    <3>4. ASSUME NEW b \in Bill, NEW d \in Time,
                 ReleaseDeadline(S, h, b, d) \/ ReleaseExec(S, h, b, d)
          PROVE sgt'[m] = sgt[m]
      <4>1. m \in S => d = tracker.deadline
        BY <3>4, <2>1 DEF ReleaseDeadline, ReleaseExec, Release, LockedCoin
      <4>2. now >= d
        BY <3>4, <2>1 DEF ReleaseDeadline, ReleaseExec
      <4>3. m \notin S
        BY <4>1, <4>2, InvTypes DEF IInv
      <4>4. QED BY <3>4, <4>3 DEF ReleaseDeadline, ReleaseExec, Release
    <3>5. QED BY <2>1, <3>1, <3>2, <3>3, <3>4
  <2>4. QED
    BY <2>2, <2>3 DEF Next, TrackerSpend, Vote, Propose, Execute, Expire, CloseVote,
                      AdminApprove, GovernanceEvidence, TargetMoves, NextBlock
<1>2. QED BY <1>1, Invariance, PTL DEF Spec, VotesStayLocked

----------------------------------------------------------------------------
(***************************************************************************)
(* Refinement: whatever its votes weigh, the tracker is a ballot.  The     *)
(* tally only grows, so the quorum is met once, and a vote that counts was *)
(* announced by a lock for which the same block asserts the deadline.  No  *)
(* assumption on the number of tracker spends is needed.                   *)
(***************************************************************************)
\* A deployed tracker starts as an empty ballot.
LEMMA BallotStarts == Init => Abstract!BallotInit
<1> SUFFICES ASSUME Init PROVE Abstract!BallotInit
  OBVIOUS
<1>1. tracker.bill = NoBill /\ tracker.deadline = 0 /\ now = 0
  BY DEF Init
<1>2. block.exec = {}
  BY DEF Init, EmptyBlock
<1>3. (Open /\ QuorumMet) = FALSE
  BY <1>1 DEF Open
<1>4. QED BY <1>1, <1>2, <1>3 DEF Abstract!BallotInit, Abstract!NoVote

\* Spends of voting coins, of targets and of the evidence do not touch the ballot.
LEMMA BallotUntouched ==
  ASSUME UNCHANGED <<now, tracker>>, block'.exec = block.exec
  PROVE  UNCHANGED Abstract!ballotVars
BY DEF Abstract!ballotVars, Open, QuorumMet

\* A proposal opens the ballot.
LEMMA BallotBegins ==
  ASSUME TypeOK, NEW x \in block.locks, NEW p \in block.evidence, Propose(x, p)
  PROVE  Abstract!BallotNext
<1>1. x \in LockAnnouncement
  BY DEF TypeOK, Block
<1>2. x.bill \in Bill /\ x.deadline \in 0 .. MaxTime
  BY <1>1 DEF LockAnnouncement, Time
<1>3. tracker'.bill = x.bill /\ tracker'.deadline = x.deadline /\ ~Open
  BY DEF Propose
<1>4. block'.exec = block.exec /\ UNCHANGED now /\ now < x.deadline
  BY DEF Propose, Counts, TypeOK, Block
<1>5. (Open /\ QuorumMet)' \in BOOLEAN
  BY DEF Open
<1>6. Abstract!Begin(x.bill, x.deadline)
  BY <1>3, <1>4, <1>5 DEF Abstract!Begin, Abstract!VoteOpen, Open
<1>7. QED BY <1>2, <1>6 DEF Abstract!BallotNext

\* Every policy's quorum is a number of basis points.
LEMMA QuorumNatural ==
  ASSUME NEW p \in Policy
  PROVE  p.quorum \in Nat
<1> DEFINE q == p.quorum
           Parameters == [window : Nat \ {0}, quorum : 1 .. 10000, stake : 1 .. Supply]
<1>1. p \in Parameters
  <2> HIDE DEF Parameters
  <2>1. Policy \subseteq Parameters
    BY PolicyAssumption DEF Parameters
  <2>2. QED BY <2>1
<1>2. q \in 1 .. 10000
  BY <1>1
<1> HIDE DEF q
<1>3. q \in Nat
  BY <1>2
<1>4. QED BY <1>3 DEF q

\* A vote leaves the ballot as it is or meets the quorum before the deadline.
LEMMA BallotCounts ==
  ASSUME TypeOK, NEW x \in block.locks, Vote(x)
  PROVE  Abstract!BallotNext \/ UNCHANGED Abstract!ballotVars
<1>1. x \in LockAnnouncement
  BY DEF TypeOK, Block
<1>2. /\ tracker'.bill = tracker.bill /\ tracker'.deadline = tracker.deadline
      /\ tracker'.policy = tracker.policy /\ tracker'.tally = tracker.tally + x.amount
      /\ x.amount \in Nat /\ tracker.tally \in Nat
  BY <1>1 DEF Vote, TypeOK, Tracker, LockAnnouncement
<1>3. Open /\ Open' /\ now < tracker.deadline /\ UNCHANGED now /\ block'.exec = block.exec
  BY <1>2 DEF Vote, Counts, Open, TypeOK, Block
<1>4. QuorumMet => QuorumMet'
  <2>1. tracker.policy.quorum \in Nat
    BY QuorumNatural DEF TypeOK, Tracker
  <2>2. Supply \in Nat
    BY SGTAssumption, FS_CardinalityType DEF Supply
  <2>3. tracker.policy.quorum * Supply \in Nat
    BY <2>1, <2>2
  <2>4. QED BY <1>2, <2>3 DEF QuorumMet
<1>5. CASE QuorumMet' = QuorumMet
  BY <1>2, <1>3, <1>5 DEF Abstract!ballotVars
<1>6. CASE ~QuorumMet /\ QuorumMet'
  <2>1. (Open /\ QuorumMet) = FALSE /\ (Open /\ QuorumMet)' = TRUE
    BY <1>3, <1>6
  <2>2. Abstract!Pass
    BY <1>2, <1>3, <2>1 DEF Abstract!Pass, Abstract!VoteOpen, Open
  <2>3. QED BY <2>2 DEF Abstract!BallotNext
<1>7. QED BY <1>4, <1>5, <1>6 DEF QuorumMet

\* Either end of a vote closes the ballot.
LEMMA BallotCloses ==
  ASSUME TypeOK, CloseVote
  PROVE  Abstract!BallotNext
<1>1. Open /\ now >= tracker.deadline /\ UNCHANGED now
      /\ block'.exec = block.exec \cup {tracker.bill}
  BY DEF CloseVote, TypeOK, Block
<1>2. tracker'.bill = NoBill /\ tracker'.deadline = 0
  BY DEF CloseVote, Idle
<1>3. ~Open'
  BY <1>2 DEF Open
<1>4. QuorumMet \in BOOLEAN
  BY DEF QuorumMet
<1>5. Abstract!Close(QuorumMet)
  BY <1>1, <1>2, <1>3, <1>4 DEF Abstract!Close, Abstract!VoteOpen, Abstract!NoVote, Open
<1>6. QED BY <1>4, <1>5 DEF Abstract!BallotNext

\* Every step of the tracker, the coins and the block is a step of the ballot or
\* leaves it alone.
LEMMA BallotSteps ==
  ASSUME TypeOK, [Next]_vars
  PROVE  Abstract!BallotNext \/ UNCHANGED Abstract!ballotVars
<1>1. CASE SGTSpend
  <2>1. PICK S \in SUBSET Mojo, h \in Holder :
          \/ \E to \in Holder : Transfer(S, h, to)
          \/ \E b \in Bill, d \in Time : Lock(S, h, b, d) \/ Release(S, h, b, d)
    BY <1>1 DEF SGTSpend, ReleaseDeadline, ReleaseExec
  <2>2. CASE \E to \in Holder : Transfer(S, h, to)
    BY <2>2, BallotUntouched DEF Transfer
  <2>3. ASSUME NEW b \in Bill, NEW d \in Time, Lock(S, h, b, d)
        PROVE  UNCHANGED Abstract!ballotVars
    BY <2>3, BallotUntouched DEF Lock, TypeOK, Block
  <2>4. ASSUME NEW b \in Bill, NEW d \in Time, Release(S, h, b, d)
        PROVE  UNCHANGED Abstract!ballotVars
    BY <2>4, BallotUntouched DEF Release
  <2>5. QED BY <2>1, <2>2, <2>3, <2>4
<1>2. CASE TrackerSpend
  <2>1. CASE Execute \/ Expire
    BY <2>1, BallotCloses DEF Execute, Expire
  <2>2. QED BY <1>2, <2>1, BallotBegins, BallotCounts DEF TrackerSpend
<1>3. CASE (\E b \in Bill : AdminApprove(b)) \/ GovernanceEvidence
  <2>1. UNCHANGED <<now, tracker>> /\ block'.exec = block.exec
    BY <1>3 DEF AdminApprove, GovernanceEvidence, TypeOK, Block
  <2>2. QED BY <2>1, BallotUntouched
<1>4. CASE (\E t \in Moving : TargetMoves(t)) \/ UNCHANGED vars
  BY <1>4, BallotUntouched DEF TargetMoves, vars
<1>5. CASE \E t \in Time : NextBlock(t)
  <2>1. PICK t \in Time : NextBlock(t)
    BY <1>5
  <2>2. Abstract!BallotNextBlock(t)
    BY <2>1 DEF NextBlock, EmptyBlock, Abstract!BallotNextBlock, Open, QuorumMet
  <2>3. QED BY <2>1, <2>2 DEF Abstract!BallotNext, Time
<1>6. QED BY <1>1, <1>2, <1>3, <1>4, <1>5 DEF Next

\* The tracker implements the ballot that the contracts behind it rely on, for
\* any number of tracker spends in a block.
THEOREM Refinement == Spec => ImplementsBallot
<1>1. TypeOK /\ [Next]_vars => [Abstract!BallotNext]_(Abstract!ballotVars)
  BY BallotSteps
<1>2. QED
  BY BallotStarts, <1>1, TypeCorrect, PTL DEF Spec, ImplementsBallot, Abstract!BallotSpec
=============================================================================
