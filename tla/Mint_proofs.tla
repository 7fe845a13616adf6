----------------------------- MODULE Mint_proofs -----------------------------
(***************************************************************************)
(* Proofs about Mint for any deeds, properties and publications.           *)
(***************************************************************************)
EXTENDS Mint, TLAPS

\* What the steps of the ballot do to it.
LEMMA BallotType ==
  ASSUME TypeOK, NEW b \in MintBill, NEW t \in 0 .. MaxTime, NEW passed \in BOOLEAN
  PROVE  /\ Begin(b, t) => vote' \in Vote /\ vote'.deadline = t /\ now < t
                             /\ now' = now /\ closed' = closed
         /\ Pass => vote' \in Vote /\ vote'.deadline = vote.deadline
                      /\ vote'.bill = vote.bill /\ now' = now /\ closed' = closed
         /\ Close(passed) => /\ vote.bill \in MintBill /\ vote' \in Vote /\ ~VoteOpen'
                             /\ now >= vote.deadline /\ VoteOpen /\ now' = now
                             /\ closed' = closed \cup {vote.bill}
         /\ BallotNextBlock(t) => now' \in 0 .. MaxTime /\ closed' = {} /\ vote' = vote
<1>1. vote \in Vote /\ NoBill \notin MintBill  BY MintAssumption DEF TypeOK
<1>2. Begin(b, t) => vote' \in Vote /\ vote'.deadline = t /\ now < t
                       /\ now' = now /\ closed' = closed
  BY DEF Begin, Vote
<1>3. Pass => vote' \in Vote /\ vote'.deadline = vote.deadline
                /\ vote'.bill = vote.bill /\ now' = now /\ closed' = closed
  BY <1>1 DEF Pass, Vote, VoteOpen, NoVote
<1>4. VoteOpen => vote.bill \in MintBill
  BY <1>1 DEF VoteOpen, Vote, NoVote
<1>5. NoVote \in Vote /\ NoVote.bill = NoBill
  BY DEF NoVote, Vote
<1>6. Close(passed) => /\ vote.bill \in MintBill /\ vote' \in Vote /\ ~VoteOpen'
                       /\ now >= vote.deadline /\ VoteOpen /\ now' = now
                       /\ closed' = closed \cup {vote.bill}
  BY <1>4, <1>5 DEF Close, VoteOpen
<1>7. BallotNextBlock(t) => now' \in 0 .. MaxTime /\ closed' = {} /\ vote' = vote
  BY DEF BallotNextBlock
<1> QED  BY <1>2, <1>3, <1>6, <1>7

LEMMA InitType == Init => TypeOK
<1>1. <<>> \in Ids  BY DEF Ids
<1>2. NoVote \in Vote  BY DEF NoVote, Vote
<1>3. 0 \in 0 .. MaxTime  BY MintAssumption
<1> QED
  BY <1>1, <1>2, <1>3
  DEF Init, BallotInit, TypeOK, ProposalState, LauncherState, EmptyBlock

\* Every step keeps the types.
LEMMA StepType == TypeOK /\ [Next]_vars => TypeOK'
<1> SUFFICES ASSUME TypeOK, [Next]_vars PROVE TypeOK'
  OBVIOUS
<1>t. /\ proposal \in [Deed -> [state : ProposalState, ids : Ids]]
      /\ launcher \in [Deed -> LauncherState] /\ registry \in Ids
      /\ block \in [registered : SUBSET Registration, admitted : SUBSET Deed,
                    launched : SUBSET Deed]
      /\ now \in 0 .. MaxTime /\ vote \in Vote /\ closed \subseteq MintBill
  BY DEF TypeOK
<1>1. ASSUME NEW d \in Deed, NEW t \in 0 .. MaxTime, Publish(d, t)
      PROVE TypeOK'
  <2> DEFINE b == [deed |-> d, ids |-> registry]
  <2>1. b \in MintBill  BY <1>t DEF MintBill
  <2>2. vote' \in Vote /\ now' = now /\ closed' = closed
    BY <1>1, <2>1, BallotType DEF Publish
  <2>3. proposal' \in [Deed -> [state : ProposalState, ids : Ids]]
    BY <1>1, <1>t DEF Publish, ProposalState
  <2>4. launcher' \in [Deed -> LauncherState]
    BY <1>1, <1>t DEF Publish, LauncherState
  <2> QED  BY <1>1, <1>t, <2>2, <2>3, <2>4 DEF Publish, TypeOK
<1>2. ASSUME NEW d \in Deed, NEW t \in 0 .. MaxTime,
             NEW ids \in {proposal[d].ids, registry}, ProposeAgain(d, ids, t)
      PROVE TypeOK'
  <2>1. ids \in Ids  BY <1>t
  <2>2. [deed |-> d, ids |-> ids] \in MintBill  BY <2>1 DEF MintBill
  <2>3. vote' \in Vote /\ now' = now /\ closed' = closed
    BY <1>2, <2>2, BallotType DEF ProposeAgain
  <2> QED  BY <1>2, <1>t, <2>3 DEF ProposeAgain, TypeOK
<1>3. CASE MeetQuorum
  <2>1. vote' \in Vote /\ now' = now /\ closed' = closed
    BY <1>3 DEF MeetQuorum, Pass, TypeOK, Vote, VoteOpen, NoVote
  <2> QED  BY <1>3, <1>t, <2>1 DEF MeetQuorum, TypeOK
<1>c. ASSUME NEW passed \in BOOLEAN, Close(passed)
      PROVE /\ vote.bill \in MintBill /\ vote' \in Vote /\ now' = now
            /\ closed' \subseteq MintBill
  <2>1. vote.bill \in MintBill
    BY <1>c, <1>t, MintAssumption DEF Close, VoteOpen, Vote, NoVote
  <2>2. NoVote \in Vote  BY DEF NoVote, Vote
  <2> QED  BY <1>c, <1>t, <2>1, <2>2 DEF Close
<1>4. CASE Expire
  BY <1>4, <1>c, <1>t DEF Expire, TypeOK
<1>5. ASSUME NEW q \in Property, Register(q)
      PROVE TypeOK'
  <2>1. registry' \in Ids  BY <1>5, <1>t DEF Register, Ids
  <2>2. [ids |-> registry, property |-> q] \in Registration  BY <1>t DEF Registration
  <2>3. block' \in [registered : SUBSET Registration, admitted : SUBSET Deed,
                    launched : SUBSET Deed]
    BY <1>5, <1>t, <2>2 DEF Register
  <2> QED  BY <1>5, <1>t, <2>1, <2>3 DEF Register, TypeOK
<1>6. CASE Execute
  <2>1. vote.bill.deed \in Deed  BY <1>6, <1>c DEF Execute, MintBill
  <2>2. block' \in [registered : SUBSET Registration, admitted : SUBSET Deed,
                    launched : SUBSET Deed]
    BY <1>6, <1>t, <2>1 DEF Execute
  <2> QED  BY <1>6, <1>c, <1>t, <2>2 DEF Execute, TypeOK
<1>7. ASSUME NEW l \in Deed, NEW d \in Deed, Launch(l, d)
      PROVE TypeOK'
  <2>1. launcher' \in [Deed -> LauncherState]
    BY <1>7, <1>t DEF Launch, LauncherState
  <2>2. block' \in [registered : SUBSET Registration, admitted : SUBSET Deed,
                    launched : SUBSET Deed]
    BY <1>7, <1>t DEF Launch
  <2> QED  BY <1>7, <1>t, <2>1, <2>2 DEF Launch, TypeOK
<1>8. ASSUME NEW d \in Deed, Approve(d) \/ Cancel(d) \/ ExecuteProposal(d)
      PROVE TypeOK'
  BY <1>8, <1>t
  DEF Approve, Cancel, ExecuteProposal, Transition, TypeOK, ProposalState
<1>9. ASSUME NEW t \in 0 .. MaxTime, NextBlock(t)
      PROVE TypeOK'
  BY <1>9, <1>t DEF NextBlock, BallotNextBlock, EmptyBlock, TypeOK
<1>10. CASE UNCHANGED vars
  BY <1>10 DEF vars, TypeOK, Vote
<1> QED
  BY <1>1, <1>2, <1>3, <1>4, <1>5, <1>6, <1>7, <1>8, <1>9, <1>10 DEF Next

\* Type correctness of mint proposals, launchers, registry and ballot.
THEOREM TypeCorrect == Spec => []TypeOK
BY InitType, StepType, PTL DEF Spec

----------------------------------------------------------------------------
(* One vote ends per block: the next one's deadline lies after it.         *)
OneEnd ==
  /\ closed # {} /\ VoteOpen => now < vote.deadline
  /\ \A b, c \in closed : b = c

\* The registration that the vote on deed d's bill b asserted.
Asserted(d, b) == [ids |-> b.ids, property |-> PropertyOf[d]] \in block.registered

\* The DID announced a deed because a bill for it ended in this block.
AdmittedByVote == \A d \in block.admitted : \E b \in closed : b.deed = d /\ Asserted(d, b)

LaunchedInBlock ==
  block.launched \subseteq block.admitted /\ \A d \in block.launched : launcher[d] = "launched"

RegistrationsRecorded == \A r \in block.registered : Recorded(r.ids, r.property)

NoRepeat == \A i, j \in 1 .. Len(registry) : registry[i] = registry[j] => i = j

Contains(ids, q) == \E i \in 1 .. Len(ids) : ids[i] = q

\* A deed of an earlier block has its property in the registry as it was before
\* every registration of this block.
LaunchedEarlier ==
  \A d \in Deed \ block.admitted :
    launcher[d] = "launched" =>
      \A r \in block.registered : Contains(r.ids, PropertyOf[d])

LaunchedRegistered ==
  \A d \in Deed : launcher[d] = "launched" => Contains(registry, PropertyOf[d])

OneEach ==
  \A d, e \in Deed :
    launcher[d] = "launched" /\ launcher[e] = "launched"
      /\ PropertyOf[d] = PropertyOf[e] => d = e

\* The inductive invariant.
IInv ==
  /\ TypeOK /\ OneEnd /\ AdmittedByVote /\ LaunchedInBlock
  /\ RegistrationsRecorded /\ NoRepeat
  /\ LaunchedEarlier /\ LaunchedRegistered /\ OneEach
  /\ ExecutedWasVoted

LEMMA InvInit == Init => IInv
<1> SUFFICES ASSUME Init PROVE IInv
  OBVIOUS
<1>1. TypeOK  BY InitType
<1>2. OneEnd /\ AdmittedByVote /\ LaunchedInBlock /\ RegistrationsRecorded
  BY DEF Init, BallotInit, EmptyBlock, OneEnd, AdmittedByVote, LaunchedInBlock,
         RegistrationsRecorded
<1>3. NoRepeat  BY DEF Init, NoRepeat
<1>4. LaunchedEarlier /\ LaunchedRegistered /\ OneEach /\ ExecutedWasVoted
  BY DEF Init, EmptyBlock, LaunchedEarlier, LaunchedRegistered, OneEach, ExecutedWasVoted
<1> QED  BY <1>1, <1>2, <1>3, <1>4 DEF IInv

\* A step that registers, launches and executes nothing and ends no vote: it may
\* begin a vote or move one on.
LEMMA InvBallot ==
  ASSUME IInv, TypeOK', UNCHANGED <<registry, block, closed, now>>,
         \A d \in Deed : launcher'[d] = "launched" => launcher[d] = "launched",
         \A d \in Deed : launcher[d] = "launched" => launcher'[d] = "launched",
         VoteOpen' => (VoteOpen /\ vote'.deadline = vote.deadline) \/ now < vote'.deadline,
         \A d \in Deed : proposal'[d].state = "executed" => proposal'[d] = proposal[d]
  PROVE  IInv'
<1>1. OneEnd'  BY DEF IInv, OneEnd
<1>2. AdmittedByVote' /\ RegistrationsRecorded'
  BY DEF IInv, AdmittedByVote, Asserted, RegistrationsRecorded, Recorded
<1>l. LaunchedInBlock'  BY DEF IInv, TypeOK, LaunchedInBlock
<1>3. NoRepeat' /\ LaunchedEarlier' /\ LaunchedRegistered' /\ OneEach'
  BY DEF IInv, NoRepeat, LaunchedEarlier, LaunchedRegistered, OneEach, Contains
<1>4. ExecutedWasVoted'  BY DEF IInv, ExecutedWasVoted, Recorded
<1> QED  BY <1>1, <1>2, <1>l, <1>3, <1>4 DEF IInv

\* The end of a vote is the block's first, and before it nothing was admitted.
LEMMA FirstEnd ==
  ASSUME IInv, NEW passed \in BOOLEAN, Close(passed)
  PROVE  closed = {} /\ block.admitted = {} /\ closed' = {vote.bill} /\ OneEnd'
<1>1. VoteOpen /\ now >= vote.deadline /\ now \in Int /\ vote.deadline \in Int
  BY DEF Close, IInv, TypeOK, Vote, VoteOpen, NoVote
<1>2. closed = {}  BY <1>1 DEF IInv, OneEnd
<1>3. block.admitted = {}  BY <1>2 DEF IInv, AdmittedByVote
<1>4. closed' = {vote.bill} /\ ~VoteOpen'
  BY <1>2 DEF Close, VoteOpen, NoVote
<1> QED  BY <1>2, <1>3, <1>4 DEF OneEnd

LEMMA InvExpire == ASSUME IInv, TypeOK', Expire PROVE IInv'
<1>1. closed = {} /\ block.admitted = {} /\ OneEnd'  BY FirstEnd DEF Expire
<1>2. UNCHANGED <<proposal, launcher, registry, block>>  BY DEF Expire
<1>3. AdmittedByVote' /\ LaunchedInBlock' /\ RegistrationsRecorded'
  BY <1>1, <1>2
  DEF IInv, AdmittedByVote, Asserted, LaunchedInBlock, RegistrationsRecorded, Recorded
<1>4. NoRepeat' /\ LaunchedEarlier' /\ LaunchedRegistered' /\ OneEach'
  BY <1>2 DEF IInv, NoRepeat, LaunchedEarlier, LaunchedRegistered, OneEach, Contains
<1>5. ExecutedWasVoted'  BY <1>2 DEF IInv, ExecutedWasVoted, Recorded
<1> QED  BY <1>1, <1>3, <1>4, <1>5 DEF IInv

LEMMA InvExecute == ASSUME IInv, TypeOK', Execute PROVE IInv'
<1> DEFINE b == vote.bill
<1>1. /\ closed = {} /\ block.admitted = {} /\ closed' = {b} /\ OneEnd'
  BY FirstEnd DEF Execute
<1>2. UNCHANGED <<proposal, launcher, registry>>  BY DEF Execute
<1>3. /\ block'.registered = block.registered /\ block'.launched = block.launched
      /\ block'.admitted = block.admitted \cup {b.deed}
  BY DEF Execute, IInv, TypeOK
<1>4. Asserted(b.deed, b)  BY DEF Execute, Asserted
<1>5. AdmittedByVote'  BY <1>1, <1>3, <1>4 DEF AdmittedByVote, Asserted
<1>6. LaunchedInBlock' /\ RegistrationsRecorded'
  BY <1>2, <1>3 DEF IInv, LaunchedInBlock, RegistrationsRecorded, Recorded
<1>7. NoRepeat' /\ LaunchedEarlier' /\ LaunchedRegistered' /\ OneEach'
  BY <1>2, <1>3 DEF IInv, NoRepeat, LaunchedEarlier, LaunchedRegistered, OneEach, Contains
<1>8. ExecutedWasVoted'  BY <1>2 DEF IInv, ExecutedWasVoted, Recorded
<1> QED  BY <1>1, <1>5, <1>6, <1>7, <1>8 DEF IInv

LEMMA InvRegister == ASSUME IInv, TypeOK', NEW q \in Property, Register(q) PROVE IInv'
<1> DEFINE n == Len(registry)
           r == [ids |-> registry, property |-> q]
<1>1. registry \in Seq(Property) /\ n \in Nat  BY DEF IInv, TypeOK, Ids
<1>2. /\ Len(registry') = n + 1 /\ registry'[n + 1] = q
      /\ \A i \in 1 .. n : registry'[i] = registry[i]
  BY <1>1 DEF Register
<1>3. /\ block'.registered = block.registered \cup {r}
      /\ block'.admitted = block.admitted /\ block'.launched = block.launched
  BY DEF Register, IInv, TypeOK
<1>4. UNCHANGED <<proposal, launcher, now, vote, closed>>  BY DEF Register
<1>5. ASSUME NEW ids \in Ids, NEW p, Recorded(ids, p) \/ (ids = registry /\ p = q)
      PROVE Recorded(ids, p)'
  <2>1. Len(ids) \in Nat  BY DEF Ids
  <2>2. CASE Recorded(ids, p)  BY <1>1, <1>2, <2>1, <2>2 DEF Recorded
  <2>3. CASE ids = registry /\ p = q  BY <1>1, <1>2, <2>1, <2>3 DEF Recorded
  <2> QED  BY <1>5, <2>2, <2>3
<1>6. RegistrationsRecorded'
  <2> SUFFICES ASSUME NEW x \in block.registered \cup {r} PROVE Recorded(x.ids, x.property)'
    BY <1>3 DEF RegistrationsRecorded
  <2>1. x.ids \in Ids  BY <1>1 DEF IInv, TypeOK, Registration, Ids
  <2>2. Recorded(x.ids, x.property) \/ (x.ids = registry /\ x.property = q)
    BY DEF IInv, RegistrationsRecorded
  <2> QED  BY <1>5, <2>1, <2>2
<1>7. NoRepeat'
  <2>1. \A i \in 1 .. n : registry[i] # q  BY <1>1 DEF Register, Range
  <2> QED  BY <1>1, <1>2, <2>1 DEF IInv, NoRepeat
<1>8. LaunchedEarlier'
  <2> SUFFICES ASSUME NEW d \in Deed \ block.admitted, launcher[d] = "launched",
                      NEW x \in block.registered \cup {r}
               PROVE Contains(x.ids, PropertyOf[d])
    BY <1>3, <1>4 DEF LaunchedEarlier, Contains
  <2>1. CASE x \in block.registered  BY <2>1 DEF IInv, LaunchedEarlier
  <2>2. CASE x = r  BY <2>2 DEF IInv, LaunchedRegistered
  <2> QED  BY <2>1, <2>2
<1>9. LaunchedRegistered'
  BY <1>1, <1>2, <1>4 DEF IInv, LaunchedRegistered, Contains
<1>10. OneEnd' /\ LaunchedInBlock' /\ OneEach'
  BY <1>3, <1>4 DEF IInv, OneEnd, LaunchedInBlock, OneEach, VoteOpen
<1>11. AdmittedByVote'
  BY <1>3, <1>4 DEF IInv, AdmittedByVote, Asserted
<1>12. ExecutedWasVoted'
  <2> SUFFICES ASSUME NEW d \in Deed, proposal[d].state = "executed"
               PROVE launcher[d] = "launched" /\ Recorded(proposal[d].ids, PropertyOf[d])'
    BY <1>4 DEF ExecutedWasVoted, Recorded
  <2>1. proposal[d].ids \in Ids  BY DEF IInv, TypeOK
  <2>2. launcher[d] = "launched" /\ Recorded(proposal[d].ids, PropertyOf[d])
    BY DEF IInv, ExecutedWasVoted
  <2>3. ASSUME NEW ids \in Ids, ids = proposal[d].ids
        PROVE Recorded(ids, PropertyOf[d])'
    BY <1>5, <2>2, <2>3
  <2> QED  BY <1>4, <2>1, <2>2, <2>3 DEF Recorded
<1> QED  BY <1>6, <1>7, <1>8, <1>9, <1>10, <1>11, <1>12 DEF IInv

\* If a deed is launched while the DID admits it, the property was registered in
\* this block after the registry its bill names, so no deed of an earlier block
\* is of that property, nor another deed of this block.
LEMMA InvLaunch ==
  ASSUME IInv, TypeOK', NEW l \in Deed, NEW d \in Deed, Launch(l, d) PROVE IInv'
<1>1. UNCHANGED <<proposal, registry, now, vote, closed>>  BY DEF Launch
<1>2. /\ block'.registered = block.registered /\ block'.admitted = block.admitted
      /\ block'.launched = IF l = d THEN block.launched \cup {d} ELSE block.launched
      /\ launcher' = [launcher EXCEPT ![l] = IF l = d THEN "launched" ELSE "wasted"]
      /\ launcher[l] = "waiting" /\ d \in block.admitted
  BY DEF Launch, IInv, TypeOK
<1>3. launcher \in [Deed -> LauncherState] /\ registry \in Seq(Property)
  BY DEF IInv, TypeOK, Ids
<1>4. \A e \in Deed : launcher'[e] = "launched" <=> launcher[e] = "launched" \/ (e = l /\ l = d)
  BY <1>2, <1>3
<1>5. PICK b \in closed : b.deed = d /\ Asserted(d, b)
  BY <1>2 DEF IInv, AdmittedByVote
<1>6. b.ids \in Seq(Property) /\ Recorded(b.ids, PropertyOf[d])
  BY <1>5 DEF IInv, TypeOK, MintBill, Ids, Asserted, RegistrationsRecorded
<1>7. ASSUME NEW e \in Deed, launcher[e] = "launched", PropertyOf[e] = PropertyOf[d]
      PROVE e = d
  <2>1. CASE e \in block.admitted
    BY <2>1, <1>5 DEF IInv, AdmittedByVote, OneEnd
  <2>2. CASE e \notin block.admitted
    <3>1. PICK i \in 1 .. Len(b.ids) : b.ids[i] = PropertyOf[d]
      BY <2>2, <1>5, <1>7 DEF IInv, LaunchedEarlier, Asserted, Contains
    <3>2. i \in 1 .. Len(registry) /\ Len(b.ids) + 1 \in 1 .. Len(registry)
          /\ i # Len(b.ids) + 1
      BY <1>3, <1>6 DEF Recorded
    <3>3. registry[i] = registry[Len(b.ids) + 1]
      BY <1>6, <3>1 DEF Recorded
    <3> QED  BY <3>2, <3>3 DEF IInv, NoRepeat
  <2> QED  BY <2>1, <2>2
<1>8. OneEach'  BY <1>4, <1>7 DEF IInv, OneEach
<1>9. Contains(registry, PropertyOf[d])
  BY <1>3, <1>6 DEF Recorded, Contains
<1>10. LaunchedRegistered'
  BY <1>1, <1>4, <1>9 DEF IInv, LaunchedRegistered, Contains
<1>11. LaunchedEarlier'
  BY <1>2, <1>4 DEF IInv, LaunchedEarlier, Contains
<1>12. LaunchedInBlock'
  BY <1>2, <1>4 DEF IInv, TypeOK, LaunchedInBlock
<1>13. OneEnd' /\ AdmittedByVote' /\ RegistrationsRecorded' /\ NoRepeat'
  BY <1>1, <1>2
  DEF IInv, OneEnd, VoteOpen, AdmittedByVote, Asserted, RegistrationsRecorded, Recorded,
      NoRepeat
<1>14. ExecutedWasVoted'
  BY <1>1, <1>4 DEF IInv, ExecutedWasVoted, Recorded
<1> QED  BY <1>8, <1>10, <1>11, <1>12, <1>13, <1>14 DEF IInv

\* EXECUTE of a proposal: the vote that ended is the one on its bill.
LEMMA InvExecuteProposal ==
  ASSUME IInv, TypeOK', NEW d \in Deed, ExecuteProposal(d) PROVE IInv'
<1>1. UNCHANGED <<launcher, registry, block, now, vote, closed>>
  BY DEF ExecuteProposal, Transition
<1>2. PICK b \in closed : b.deed = d /\ Asserted(d, b)
  BY DEF ExecuteProposal, IInv, LaunchedInBlock, AdmittedByVote
<1>3. b = BillOf(d)  BY DEF ExecuteProposal, IInv, OneEnd
<1>4. launcher[d] = "launched" /\ Recorded(proposal[d].ids, PropertyOf[d])
  BY <1>2, <1>3 DEF ExecuteProposal, BillOf, IInv, LaunchedInBlock, Asserted,
                    RegistrationsRecorded
<1>5. ExecutedWasVoted'
  BY <1>1, <1>4 DEF ExecuteProposal, Transition, IInv, TypeOK, ExecutedWasVoted, Recorded
<1>6. OneEnd' /\ AdmittedByVote' /\ LaunchedInBlock' /\ RegistrationsRecorded'
  BY <1>1 DEF IInv, OneEnd, VoteOpen, AdmittedByVote, Asserted, LaunchedInBlock,
              RegistrationsRecorded, Recorded
<1>7. NoRepeat' /\ LaunchedEarlier' /\ LaunchedRegistered' /\ OneEach'
  BY <1>1 DEF IInv, NoRepeat, LaunchedEarlier, LaunchedRegistered, OneEach, Contains
<1> QED  BY <1>5, <1>6, <1>7 DEF IInv

LEMMA InvNextBlock ==
  ASSUME IInv, TypeOK', NEW t \in 0 .. MaxTime, NextBlock(t) PROVE IInv'
<1>1. UNCHANGED <<proposal, launcher, registry>> /\ block' = EmptyBlock /\ closed' = {}
  BY DEF NextBlock, BallotNextBlock
<1>2. OneEnd' /\ AdmittedByVote' /\ LaunchedInBlock' /\ RegistrationsRecorded'
      /\ LaunchedEarlier'
  BY <1>1 DEF EmptyBlock, OneEnd, AdmittedByVote, LaunchedInBlock, RegistrationsRecorded,
              LaunchedEarlier
<1>3. NoRepeat' /\ LaunchedRegistered' /\ OneEach' /\ ExecutedWasVoted'
  BY <1>1 DEF IInv, NoRepeat, LaunchedRegistered, OneEach, Contains, ExecutedWasVoted,
              Recorded
<1> QED  BY <1>2, <1>3 DEF IInv

\* A launcher coin is made when its deed is published.
Published == \A d \in Deed : launcher[d] # "none" => proposal[d].state # "none"

LEMMA StepPublished == TypeOK /\ Published /\ [Next]_vars => Published'
<1> SUFFICES ASSUME TypeOK, Published, [Next]_vars PROVE Published'
  OBVIOUS
<1>1. /\ proposal \in [Deed -> [state : ProposalState, ids : Ids]]
      /\ launcher \in [Deed -> LauncherState]
  BY DEF TypeOK
<1>2. ASSUME NEW d \in Deed, NEW t \in 0 .. MaxTime, Publish(d, t)
      PROVE Published'
  BY <1>1, <1>2 DEF Publish, Published
<1>3. ASSUME NEW l \in Deed, NEW d \in Deed, Launch(l, d)
      PROVE Published'
  BY <1>1, <1>3 DEF Launch, Published
<1>4. ASSUME NEW d \in Deed, Approve(d) \/ Cancel(d) \/ ExecuteProposal(d)
      PROVE Published'
  BY <1>1, <1>4 DEF Approve, Cancel, ExecuteProposal, Transition, Published
<1>5. CASE UNCHANGED <<proposal, launcher>>  BY <1>5 DEF Published
<1> QED
  BY <1>2, <1>3, <1>4, <1>5
  DEF Next, vars, ProposeAgain, MeetQuorum, Expire, Register, Execute, NextBlock

\* Every step keeps the invariant.
LEMMA StepInv == IInv /\ Published /\ [Next]_vars => IInv'
<1> SUFFICES ASSUME IInv, Published, [Next]_vars PROVE IInv'
  OBVIOUS
<1>t. TypeOK /\ TypeOK'  BY StepType DEF IInv
<1>1. ASSUME NEW d \in Deed, NEW t \in 0 .. MaxTime, Publish(d, t)
      PROVE IInv'
  <2>1. /\ UNCHANGED <<registry, block, closed, now>> /\ now < vote'.deadline
    BY <1>1 DEF Publish, Begin
  <2>2. /\ proposal' = [proposal EXCEPT ![d] = [state |-> "draft", ids |-> registry]]
        /\ launcher' = [launcher EXCEPT ![d] = "waiting"]
        /\ proposal[d].state = "none"
    BY <1>1 DEF Publish
  <2>3. proposal \in [Deed -> [state : ProposalState, ids : Ids]]
        /\ launcher \in [Deed -> LauncherState] /\ launcher[d] = "none"
    BY <1>t, <2>2 DEF TypeOK, Published
  <2>4. \A e \in Deed : launcher'[e] = "launched" <=> launcher[e] = "launched"
    BY <2>2, <2>3
  <2>5. \A e \in Deed : proposal'[e].state = "executed" => proposal'[e] = proposal[e]
    BY <2>2, <2>3
  <2> QED  BY <1>t, <2>1, <2>4, <2>5, InvBallot
<1>2. ASSUME NEW d \in Deed, NEW t \in 0 .. MaxTime,
             NEW ids \in {proposal[d].ids, registry}, ProposeAgain(d, ids, t)
      PROVE IInv'
  <2>1. /\ UNCHANGED <<proposal, launcher, registry, block, closed, now>>
        /\ now < vote'.deadline
    BY <1>2 DEF ProposeAgain, Begin
  <2> QED  BY <1>t, <2>1, InvBallot
<1>3. CASE MeetQuorum
  <2>1. /\ UNCHANGED <<proposal, launcher, registry, block, closed, now>>
        /\ VoteOpen /\ vote'.deadline = vote.deadline
    BY <1>3, <1>t DEF MeetQuorum, Pass, TypeOK, Vote, VoteOpen, NoVote
  <2> QED  BY <1>t, <2>1, InvBallot
<1>4. CASE Expire  BY <1>t, <1>4, InvExpire
<1>5. ASSUME NEW q \in Property, Register(q) PROVE IInv'
  BY <1>t, <1>5, InvRegister
<1>6. CASE Execute  BY <1>t, <1>6, InvExecute
<1>7. ASSUME NEW l \in Deed, NEW d \in Deed, Launch(l, d) PROVE IInv'
  BY <1>t, <1>7, InvLaunch
<1>8. ASSUME NEW d \in Deed, Approve(d) \/ Cancel(d) PROVE IInv'
  <2>1. /\ UNCHANGED <<launcher, registry, block, now, vote, closed>>
        /\ proposal[d].state = "draft"
        /\ \A e \in Deed \ {d} : proposal'[e] = proposal[e]
        /\ proposal'[d].state # "executed"
    BY <1>8, <1>t DEF Approve, Cancel, Transition, TypeOK
  <2>2. VoteOpen' => VoteOpen /\ vote'.deadline = vote.deadline
    BY <2>1 DEF VoteOpen
  <2> QED  BY <1>t, <2>1, <2>2, InvBallot
<1>9. ASSUME NEW d \in Deed, ExecuteProposal(d) PROVE IInv'
  BY <1>t, <1>9, InvExecuteProposal
<1>10. ASSUME NEW t \in 0 .. MaxTime, NextBlock(t) PROVE IInv'
  BY <1>t, <1>10, InvNextBlock
<1>11. CASE UNCHANGED vars
  <2>1. VoteOpen' => VoteOpen /\ vote'.deadline = vote.deadline
    BY <1>11 DEF vars, VoteOpen
  <2> QED  BY <1>t, <1>11, <2>1, InvBallot DEF vars
<1> QED
  BY <1>1, <1>2, <1>3, <1>4, <1>5, <1>6, <1>7, <1>8, <1>9, <1>10, <1>11 DEF Next

LEMMA Invariance == Spec => []IInv
<1>1. Init => Published  BY DEF Init, Published
<1> QED  BY <1>1, InvInit, TypeCorrect, StepPublished, StepInv, PTL DEF Spec

\* No two launched deeds are of one property, whatever was published, voted on and
\* registered in whatever order.
THEOREM OnePerProperty == Spec => []OneDeedPerProperty
<1>1. IInv => OneDeedPerProperty
  BY DEF IInv, TypeOK, Ids, LaunchedRegistered, OneEach, Contains, OneDeedPerProperty, Range
<1> QED  BY <1>1, Invariance, PTL

\* A proposal is EXECUTED only by the vote on its own bill, which registered the
\* property, and with its deed launched.
THEOREM ExecutedByVote == Spec => []ExecutedWasVoted
<1>1. IInv => ExecutedWasVoted  BY DEF IInv
<1> QED  BY <1>1, Invariance, PTL

\* A deed is launched in the block that registers its property.
THEOREM MintsOnRegistration == Spec => MintedOnRegistration
<1> DEFINE Minted ==
      \A d \in Deed :
        launcher[d] # "launched" /\ launcher'[d] = "launched" =>
          \E r \in block.registered : r.property = PropertyOf[d]
<1>1. ASSUME IInv, Next PROVE Minted
  <2>t. launcher \in [Deed -> LauncherState]  BY <1>1 DEF IInv, TypeOK
  <2>1. ASSUME NEW l \in Deed, NEW d \in Deed, Launch(l, d) PROVE Minted
    <3>1. \E r \in block.registered : r.property = PropertyOf[d]
      BY <1>1, <2>1 DEF Launch, IInv, AdmittedByVote, Asserted
    <3>2. \A e \in Deed : launcher'[e] = "launched" => launcher[e] = "launched" \/ e = d
      BY <2>t, <2>1 DEF Launch
    <3> QED  BY <3>1, <3>2
  <2>2. ASSUME NEW d \in Deed, NEW t \in 0 .. MaxTime, Publish(d, t) PROVE Minted
    BY <2>t, <2>2 DEF Publish
  <2>3. CASE launcher' = launcher  BY <2>3
  <2> QED
    BY <1>1, <2>1, <2>2, <2>3
    DEF Next, ProposeAgain, MeetQuorum, Expire, Register, Execute, Approve, Cancel,
        ExecuteProposal, Transition, NextBlock
<1>2. IInv /\ [Next]_vars => [Minted]_vars  BY <1>1
<1> QED  BY <1>2, Invariance, PTL DEF Spec, MintedOnRegistration
=============================================================================
