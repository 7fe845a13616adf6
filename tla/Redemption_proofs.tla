------------------------- MODULE Redemption_proofs -------------------------
(***************************************************************************)
(* Proofs about Redemption: types, that the offers of a funding add up and *)
(* pay for a deed once, and that deeds move as their owners signed.        *)
(***************************************************************************)
EXTENDS Redemption, TLAPS

----------------------------------------------------------------------------
(* What a message holds, and what the parts of a vault spend do.           *)

\* The fields that a message of each spend case has.
LEMMA MessageFields ==
  ASSUME NEW m \in Message
  PROVE  /\ m.op = "m" => m.to \in Vault
         /\ m.op = "k" => m.owner \in Key /\ m.auth \in Auth /\ m.members \in SUBSET Key
         /\ m.op = "d" => m.deed \in Deed /\ m.plan \in Plan
         /\ m.op = "s" => m.deeds \in SUBSET Deed
BY DEF Message

\* A vault spend makes the next coin of one vault.
LEMMA RecreateType ==
  ASSUME VaultTypeOK, NEW v \in Vault, NEW state \in VaultState,
         state.auth = AuthOf[state.owner], Recreate(v, state)
  PROVE  /\ vault' \in [Vault -> VaultState]
         /\ \A w \in Vault : vault'[w].auth = AuthOf[vault'[w].owner]
         /\ vault'[v].coin = vault[v].coin + 1
         /\ signed' = signed
<1> DEFINE next == [state EXCEPT !.coin = vault[v].coin + 1]
<1>1. vault[v].coin + 1 \in 0 .. MaxCoin
  BY VaultAssumption DEF VaultTypeOK, VaultState, Recreate
<1>2. next = [coin |-> vault[v].coin + 1, owner |-> state.owner, auth |-> state.auth,
              members |-> state.members, identity |-> state.identity]
  BY DEF VaultState
<1>3. next \in VaultState /\ next.auth = AuthOf[next.owner] /\ next.coin = vault[v].coin + 1
  BY <1>1, <1>2 DEF VaultState
<1>4. vault' = [vault EXCEPT ![v] = next] /\ signed' = signed  BY DEF Recreate
<1> HIDE DEF next
<1> QED  BY <1>3, <1>4 DEF VaultTypeOK

\* Every place where a spend may put a deed is a place.
LEMMA Places == \A v \in Vault :
  {In(v), At("pool"), At("settlement"), At("sink"), At("stuck")} \subseteq Place
BY DEF Place

\* Deeds that go somewhere go to a place; the others stay.
LEMMA GoesType ==
  ASSUME place \in [Deed -> Place], NEW p \in Place, NEW deeds, Goes(deeds, p)
  PROVE  /\ place' \in [Deed -> Place]
         /\ \A d \in Deed : place'[d] = IF d \in deeds THEN p ELSE place[d]
BY DEF Goes

\* A held deed is not at the sink, and is held by one vault.
LEMMA HeldApart ==
  ASSUME NEW v \in Vault, NEW w \in Vault
  PROVE  /\ In(v) # At("sink") /\ In(v) # At("settlement") /\ In(v) # At("pool")
         /\ In(v) = In(w) => v = w
BY DEF In, At

----------------------------------------------------------------------------
(* One vault spend.                                                        *)

\* Deeds that follow an announcement were held, go to one place, and leave the rest.
LEMMA FollowType ==
  ASSUME place \in [Deed -> Place], NEW v \in Vault, NEW p \in Place, Follow(v, p)
  PROVE  /\ place' \in [Deed -> Place]
         /\ \A d \in Deed : place'[d] # place[d] => place[d] = In(v) /\ place'[d] = p
<1>1. PICK deeds \in SUBSET Held(v) : Goes(deeds, p)  BY DEF Follow
<1> QED  BY <1>1, GoesType DEF Held

\* A spend of a vault keeps the types, uses a signature for its coin, and moves deeds of
\* that vault, as the message sends them, or takes one of the pool's.
LEMMA SpendEffect ==
  ASSUME VaultTypeOK, NEW v \in Vault, NEW m \in Message, VaultSpend(v, m)
  PROVE  /\ VaultTypeOK'
         /\ Authorized(v, m)
         /\ vault'[v].coin = vault[v].coin + 1
         /\ \A d \in Deed : place'[d] # place[d] =>
              \/ place[d] = In(v) /\ Sends(m, d, place'[d])
              \/ place[d] = At("pool")
<1>0. vault[v] \in VaultState /\ vault[v].auth = AuthOf[vault[v].owner]
      /\ place \in [Deed -> Place]
  BY DEF VaultTypeOK
<1>1. CASE DepositToPool(v, m)
  <2>1. Recreate(v, vault[v]) /\ place' = place /\ Authorized(v, m)  BY <1>1 DEF DepositToPool
  <2> QED  BY <1>0, <2>1, RecreateType DEF VaultTypeOK
<1>2. CASE ReceiveFromPool(v, m)
  <2>1. /\ Recreate(v, vault[v]) /\ Authorized(v, m) /\ m.op = "i"
        /\ Follow(v, At("stuck"))
    BY <1>2 DEF ReceiveFromPool, Follow
  <2>2. /\ place' \in [Deed -> Place]
        /\ \A d \in Deed : place'[d] # place[d] => place[d] = In(v) /\ place'[d] = At("stuck")
    BY <1>0, <2>1, FollowType, Places
  <2> QED  BY <1>0, <2>1, <2>2, RecreateType DEF VaultTypeOK, Sends, Announced, Names, At, In
<1>3. CASE AuthorizeSGTLock(v, m)
  <2>1. /\ Recreate(v, vault[v]) /\ Authorized(v, m) /\ m.op = "v"
        /\ Follow(v, At("stuck"))
    BY <1>3 DEF AuthorizeSGTLock
  <2>2. /\ place' \in [Deed -> Place]
        /\ \A d \in Deed : place'[d] # place[d] => place[d] = In(v) /\ place'[d] = At("stuck")
    BY <1>0, <2>1, FollowType, Places
  <2> QED  BY <1>0, <2>1, <2>2, RecreateType DEF VaultTypeOK, Sends, Announced, Names, At, In
<1>4. CASE Migrate(v, m)
  <2>1. /\ Recreate(v, vault[v]) /\ Authorized(v, m) /\ m.op = "m" /\ m.to \in Vault
        /\ Follow(v, In(m.to))
    BY <1>4, MessageFields DEF Migrate
  <2>2. /\ place' \in [Deed -> Place]
        /\ \A d \in Deed : place'[d] # place[d] => place[d] = In(v) /\ place'[d] = In(m.to)
    BY <1>0, <2>1, FollowType, Places
  <2> QED  BY <1>0, <2>1, <2>2, RecreateType DEF VaultTypeOK, Sends, Announced, Names, At, In
<1>5. CASE AuthorizeSolsSwap(v, m)
  <2>1. /\ Recreate(v, vault[v]) /\ Authorized(v, m) /\ m.op = "s" /\ m.deeds \in SUBSET Deed
        /\ \/ m.deeds \subseteq Held(v) /\ Goes(m.deeds, At("pool"))
           \/ \E d \in Deed : place[d] = At("pool") /\ Goes({d}, In(v))
    BY <1>5, MessageFields DEF AuthorizeSolsSwap
  <2>2. CASE m.deeds \subseteq Held(v) /\ Goes(m.deeds, At("pool"))
    <3>1. /\ place' \in [Deed -> Place]
          /\ \A d \in Deed : place'[d] # place[d] =>
               d \in m.deeds /\ place[d] = In(v) /\ place'[d] = At("pool")
      BY <1>0, <2>2, GoesType, Places DEF Held
    <3> QED  BY <1>0, <2>1, <3>1, RecreateType DEF VaultTypeOK, Sends, Announced, Names, At, In
  <2>3. CASE \E d \in Deed : place[d] = At("pool") /\ Goes({d}, In(v))
    <3>1. /\ place' \in [Deed -> Place]
          /\ \A d \in Deed : place'[d] # place[d] => place[d] = At("pool")
      BY <1>0, <2>3, GoesType, Places
    <3> QED  BY <1>0, <2>1, <3>1, RecreateType DEF VaultTypeOK
  <2> QED  BY <2>1, <2>2, <2>3
<1>6. CASE UpdateKeys(v, m)
  <2> DEFINE s == [coin |-> vault[v].coin, owner |-> m.owner, auth |-> m.auth,
                   members |-> m.members, identity |-> vault[v].identity]
  <2>1. /\ Recreate(v, s) /\ Authorized(v, m) /\ place' = place
        /\ m.owner \in Key /\ m.auth \in Auth /\ m.members \in SUBSET Key
        /\ m.auth = AuthOf[m.owner]
    BY <1>6, MessageFields DEF UpdateKeys
  <2>2. s \in VaultState /\ s.owner = m.owner /\ s.auth = m.auth
    BY <1>0, <2>1 DEF VaultState
  <2> HIDE DEF s
  <2> QED  BY <1>0, <2>1, <2>2, RecreateType DEF VaultTypeOK
<1>7. CASE UpdateIdentity(v, m)
  <2> DEFINE s == [vault[v] EXCEPT !.identity = TRUE]
  <2>1. Recreate(v, s) /\ Authorized(v, m) /\ place' = place  BY <1>7 DEF UpdateIdentity
  <2>2. s \in VaultState /\ s.auth = AuthOf[s.owner]  BY <1>0 DEF VaultState
  <2> HIDE DEF s
  <2> QED  BY <1>0, <2>1, <2>2, RecreateType DEF VaultTypeOK
<1> QED  BY <1>1, <1>2, <1>3, <1>4, <1>5, <1>6, <1>7 DEF VaultSpend

\* An accepted redemption keeps the types and moves deeds as the message says.
LEMMA AcceptEffect ==
  ASSUME VaultTypeOK, NEW v \in Vault, NEW m \in Message, AcceptRedemption(v, m)
  PROVE  /\ VaultTypeOK'
         /\ Authorized(v, m)
         /\ vault'[v].coin = vault[v].coin + 1
         /\ \A d \in Deed : place'[d] # place[d] =>
              place[d] = In(v) /\ Sends(m, d, place'[d])
<1>0. vault[v] \in VaultState /\ vault[v].auth = AuthOf[vault[v].owner]
      /\ place \in [Deed -> Place]
  BY DEF VaultTypeOK
<1>1. Recreate(v, vault[v]) /\ Authorized(v, m) /\ m.op = "d" /\ m.deed \in Deed
  BY MessageFields DEF AcceptRedemption
<1>2. CASE Follow(v, At("settlement"))
  <2>1. /\ place' \in [Deed -> Place]
        /\ \A d \in Deed : place'[d] # place[d] => place[d] = In(v) /\ place'[d] = At("settlement")
    BY <1>0, <1>2, FollowType, Places
  <2> QED  BY <1>0, <1>1, <2>1, RecreateType DEF VaultTypeOK, Sends, Announced, Names, At, In
<1>3. CASE ~Follow(v, At("settlement"))
  <2>1. PICK others \in SUBSET (Held(v) \ {m.deed}) :
          /\ m.deed \in Held(v)
          /\ place' = [d \in Deed |-> IF d = m.deed THEN At("sink")
                                      ELSE IF d \in others THEN At("settlement") ELSE place[d]]
    BY <1>3 DEF AcceptRedemption
  <2>2. At("sink") \in Place /\ At("settlement") \in Place  BY Places
  <2>3. place' \in [Deed -> Place]  BY <1>0, <2>1, <2>2
  <2>4. \A d \in Deed : place'[d] # place[d] =>
          /\ place[d] = In(v)
          /\ place'[d] = At("settlement") \/ (d = m.deed /\ place'[d] = At("sink"))
    BY <2>1 DEF Held
  <2> QED  BY <1>0, <1>1, <2>3, <2>4, RecreateType DEF VaultTypeOK, Sends, Announced, Names, At, In
<1> QED  BY <1>2, <1>3

\* Claiming an offer keeps the fundings what they are.
LEMMA ClaimType ==
  ASSUME funded \in Seq(Funding), NEW i \in DOMAIN funded, NEW d \in Deed, Claim(i, d)
  PROVE  /\ funded' \in Seq(Funding) /\ DOMAIN funded' = DOMAIN funded
         /\ \A j \in DOMAIN funded : funded'[j].plan = funded[j].plan
         /\ funded'[i].open = funded[i].open \ {d} /\ d \in funded[i].open
         /\ \A j \in DOMAIN funded \ {i} : funded'[j].open = funded[j].open
<1> DEFINE f == [plan |-> funded[i].plan, open |-> funded[i].open \ {d}]
<1>1. \A j \in DOMAIN funded : funded[j] \in Funding  OBVIOUS
<1>2. f \in Funding  BY <1>1 DEF Funding
<1>3. funded' = [funded EXCEPT ![i] = f]
  <2>1. ASSUME NEW x \in Funding, NEW ds
        PROVE  [x EXCEPT !.open = ds] = [plan |-> x.plan, open |-> ds]
    BY DEF Funding
  <2>2. [funded[i] EXCEPT !.open = funded[i].open \ {d}] = f  BY <1>1, <2>1, Zenon
  <2> HIDE DEF f
  <2> QED  BY <2>2 DEF Claim
<1>4. d \in funded[i].open  BY DEF Claim
<1>5. f.plan = funded[i].plan /\ f.open = funded[i].open \ {d}  OBVIOUS
<1> HIDE DEF f
<1>6. funded' \in Seq(Funding) /\ DOMAIN funded' = DOMAIN funded  BY <1>2, <1>3
<1> QED  BY <1>3, <1>4, <1>5, <1>6

----------------------------------------------------------------------------
(* Type correctness.                                                       *)

\* The fundings are what they should be.
FundedOK ==
  /\ funded \in Seq(Funding)
  /\ \A i \in DOMAIN funded : funded[i].open \subseteq DeedsOf(funded[i].plan)

\* The steps of the tracker and of the treasury keep the types.
LEMMA TrackerType ==
  ASSUME TypeOK,
         \/ \E p \in Plan : Deposit(p) \/ \E deadline \in 0 .. MaxTime : Propose(p, deadline)
         \/ MeetQuorum \/ Fund \/ Expire
         \/ \E t \in 0 .. MaxTime : NextBlock(t)
  PROVE  TypeOK'
<1> USE RedemptionAssumption DEF TypeOK, VaultTypeOK
<1>1. CASE \E p \in Plan : Deposit(p)
  BY <1>1 DEF Deposit, custodyVars, trackerVars
<1>2. CASE \E p \in Plan, deadline \in 0 .. MaxTime : Propose(p, deadline)
  BY <1>2 DEF Propose, custodyVars, B!Begin, B!Vote
<1>3. CASE MeetQuorum
  BY <1>3 DEF MeetQuorum, custodyVars, B!Pass, B!Vote, B!NoVote, B!VoteOpen
<1>4. CASE Expire
  BY <1>4 DEF Expire, custodyVars, B!Close, B!Vote, B!NoVote, B!VoteOpen
<1>5. CASE Fund
  <2>1. vote.bill \in Plan  BY <1>5 DEF Fund, B!Close, B!VoteOpen, B!Vote, B!NoVote
  <2> DEFINE f == [plan |-> vote.bill, open |-> DeedsOf(vote.bill)]
  <2>2. f \in Funding /\ f.open = DeedsOf(f.plan)  BY <2>1 DEF Funding, DeedsOf
  <2>3. /\ UNCHANGED <<vault, place, signed, now>>
        /\ vote' = B!NoVote /\ closed' = closed \cup {vote.bill}
    BY <1>5 DEF Fund, custodyVars, B!Close
  <2>4. CASE UNCHANGED <<treasury, funded>>  BY <2>1, <2>3, <2>4 DEF B!Vote
  <2>5. CASE funded' = Append(funded, f) /\ treasury' \subseteq treasury
    <3> HIDE DEF f
    <3>1. funded' \in Seq(Funding)  BY <2>2, <2>5
    <3>2. \A i \in DOMAIN funded' : funded'[i].open \subseteq DeedsOf(funded'[i].plan)
      BY <2>2, <2>5
    <3> QED  BY <2>1, <2>3, <2>5, <3>1, <3>2 DEF B!Vote
  <2> QED  BY <1>5, <2>4, <2>5 DEF Fund
<1>6. CASE \E t \in 0 .. MaxTime : NextBlock(t)
  BY <1>6 DEF NextBlock, custodyVars, B!BallotNextBlock
<1> QED  BY <1>1, <1>2, <1>3, <1>4, <1>5, <1>6

\* Signing adds a signature.
LEMMA SignType ==
  ASSUME VaultTypeOK, NEW v \in Vault, NEW m \in Message, Sign(v, m)
  PROVE  VaultTypeOK'
<1>1. vault[v] \in VaultState  BY DEF VaultTypeOK
<1>2. [vault |-> v, coin |-> vault[v].coin, key |-> vault[v].owner, message |-> m] \in Signature
  BY <1>1 DEF VaultState, Signature
<1> QED  BY <1>2 DEF Sign, VaultTypeOK

\* Claiming an offer leaves a subset of the plan's deeds open.
LEMMA ClaimOK ==
  ASSUME FundedOK, NEW i \in DOMAIN funded, NEW d \in Deed, Claim(i, d)
  PROVE  FundedOK'
<1>1. funded \in Seq(Funding)  BY DEF FundedOK
<1>2. /\ funded' \in Seq(Funding) /\ DOMAIN funded' = DOMAIN funded
      /\ \A j \in DOMAIN funded :
           funded'[j].plan = funded[j].plan /\ funded'[j].open \subseteq funded[j].open
  BY <1>1, ClaimType
<1> QED  BY <1>2 DEF FundedOK, DeedsOf

\* Every variable keeps its type.
THEOREM TypeCorrect == Spec => []TypeOK
<1>1. Init => TypeOK
  <2> SUFFICES ASSUME Init PROVE TypeOK  OBVIOUS
  <2>1. VaultTypeOK
    <3> DEFINE first(v) ==
          [coin |-> 0, owner |-> FirstKey[v], auth |-> AuthOf[FirstKey[v]],
           members |-> {FirstKey[v]}, identity |-> v \in Attested]
    <3>1. \A v \in Vault : first(v) \in VaultState /\ first(v).auth = AuthOf[first(v).owner]
      BY VaultAssumption DEF VaultState
    <3>2. vault = [v \in Vault |-> first(v)]  BY DEF Init, VaultInit
    <3> HIDE DEF first
    <3>3. vault \in [Vault -> VaultState]  BY <3>1, <3>2
    <3>4. \A v \in Vault : vault[v].auth = AuthOf[vault[v].owner]  BY <3>1, <3>2
    <3>5. place \in [Deed -> Place]  BY VaultAssumption DEF Init, VaultInit, Place
    <3> QED  BY <3>3, <3>4, <3>5 DEF Init, VaultInit, VaultTypeOK
  <2>2. now \in 0 .. MaxTime /\ vote \in B!Vote /\ closed \subseteq Plan
    BY RedemptionAssumption DEF Init, B!BallotInit, B!Vote
  <2>3. funded \in Seq(Funding) /\ DOMAIN funded = {}  BY DEF Init
  <2> QED  BY <2>1, <2>2, <2>3 DEF Init, TypeOK
<1>2. TypeOK /\ [Next]_vars => TypeOK'
  <2> SUFFICES ASSUME TypeOK, [Next]_vars PROVE TypeOK'  OBVIOUS
  <2>0. VaultTypeOK /\ FundedOK  BY DEF TypeOK, FundedOK
  <2>1. CASE UNCHANGED vars  BY <2>1, <2>0 DEF vars, TypeOK, VaultTypeOK
  <2>2. CASE \E a \in Asked : OwnerSigns(a.vault, a.message)
    <3>1. PICK a \in Asked : OwnerSigns(a.vault, a.message)  BY <2>2
    <3>2. a.vault \in Vault /\ a.message \in Message  BY AskedAssumption
    <3>3. VaultTypeOK'  BY <2>0, <3>1, <3>2, SignType DEF OwnerSigns
    <3> QED  BY <3>1, <3>3 DEF OwnerSigns, trackerVars, TypeOK
  <2>3. CASE \E a \in Asked : SpendVault(a.vault, a.message)
    <3>1. PICK a \in Asked : SpendVault(a.vault, a.message)  BY <2>3
    <3>2. a.vault \in Vault /\ a.message \in Message  BY AskedAssumption
    <3>3. VaultTypeOK'  BY <2>0, <3>1, <3>2, SpendEffect DEF SpendVault
    <3> QED  BY <3>1, <3>3 DEF SpendVault, trackerVars, TypeOK
  <2>4. CASE \E a \in Asked : AcceptRedemption(a.vault, a.message)
    <3>1. PICK a \in Asked : AcceptRedemption(a.vault, a.message)  BY <2>4
    <3>2. a.vault \in Vault /\ a.message \in Message  BY AskedAssumption
    <3>3. VaultTypeOK'  BY <2>0, <3>1, <3>2, AcceptEffect
    <3>4. \/ UNCHANGED funded
          \/ \E i \in DOMAIN funded : Claim(i, a.message.deed)
      BY <3>1 DEF AcceptRedemption
    <3>5. a.message.deed \in Deed  BY <3>1, <3>2, MessageFields DEF AcceptRedemption
    <3>6. FundedOK'  BY <2>0, <3>4, <3>5, ClaimOK DEF FundedOK
    <3> QED  BY <3>1, <3>3, <3>6 DEF AcceptRedemption, trackerVars, TypeOK, FundedOK
  <2>5. CASE \E d \in Deed, p \in {In(v) : v \in Vault} \cup {At("sink")} : Take(d, p)
    <3>1. PICK d \in Deed, p \in {In(v) : v \in Vault} \cup {At("sink")} : Take(d, p)  BY <2>5
    <3>2. p \in Place  BY DEF Place
    <3>3. place' \in [Deed -> Place]
      BY <2>0, <3>1, <3>2, GoesType DEF Take, TakeSettled, VaultTypeOK
    <3> QED  BY <3>1, <3>3 DEF Take, TakeSettled, trackerVars, TypeOK, VaultTypeOK
  <2>6. CASE \E d \in Deed, i \in DOMAIN funded : RetireSettled(i, d)
    <3>1. PICK d \in Deed, i \in DOMAIN funded : RetireSettled(i, d)  BY <2>6
    <3>2. place' \in [Deed -> Place]
      BY <2>0, <3>1, GoesType, At("sink") \in Place DEF RetireSettled, TakeSettled, VaultTypeOK, Place
    <3>3. FundedOK'  BY <2>0, <3>1, ClaimOK DEF RetireSettled
    <3> QED  BY <3>1, <3>2, <3>3
             DEF RetireSettled, TakeSettled, trackerVars, TypeOK, VaultTypeOK, FundedOK
  <2> QED  BY <2>1, <2>2, <2>3, <2>4, <2>5, <2>6, TrackerType DEF Next
<1> QED  BY <1>1, <1>2, PTL DEF Spec

----------------------------------------------------------------------------
(* The payouts.  An offer is claimed only as its deed goes to the sink,    *)
(* and from there no deed goes anywhere.                                   *)

\* What a step may do to the fundings: nothing, one more, or one claim of a deed that
\* was elsewhere and is now at the sink.
FundingStep ==
  \/ UNCHANGED funded
  \/ /\ ValidAllocations(vote.bill)
     /\ funded' = Append(funded, [plan |-> vote.bill, open |-> DeedsOf(vote.bill)])
  \/ \E i \in DOMAIN funded, d \in Deed :
       Claim(i, d) /\ place[d] # At("sink") /\ place'[d] = At("sink")

\* The sink is final.
LEMMA StepsFund ==
  ASSUME TypeOK, [Next]_vars
  PROVE  /\ FundingStep
         /\ \A d \in Deed : place[d] = At("sink") => place'[d] = At("sink")
<1>0. VaultTypeOK /\ place \in [Deed -> Place]  BY DEF TypeOK, VaultTypeOK
<1>1. CASE \/ UNCHANGED vars
           \/ \E p \in Plan : Deposit(p) \/ \E deadline \in 0 .. MaxTime : Propose(p, deadline)
           \/ MeetQuorum \/ Fund \/ Expire
           \/ \E t \in 0 .. MaxTime : NextBlock(t)
           \/ \E a \in Asked : OwnerSigns(a.vault, a.message)
  <2>1. UNCHANGED place
    BY <1>1 DEF vars, Deposit, Propose, MeetQuorum, Fund, Expire, NextBlock, OwnerSigns, Sign,
                custodyVars
  <2>2. FundingStep
    BY <1>1 DEF vars, Deposit, Propose, MeetQuorum, Fund, Expire, NextBlock, OwnerSigns,
                FundingStep
  <2> QED  BY <2>1, <2>2
<1>2. CASE \E a \in Asked : SpendVault(a.vault, a.message)
  <2>1. PICK a \in Asked : SpendVault(a.vault, a.message)  BY <1>2
  <2>2. a.vault \in Vault /\ a.message \in Message  BY AskedAssumption
  <2>3. \A d \in Deed : place'[d] # place[d] =>
          place[d] = In(a.vault) \/ place[d] = At("pool")
    BY <1>0, <2>1, <2>2, SpendEffect DEF SpendVault
  <2>4. At("pool") # At("sink")  BY DEF At
  <2> QED  BY <2>1, <2>2, <2>3, <2>4, HeldApart DEF SpendVault, FundingStep
<1>3. CASE \E a \in Asked : AcceptRedemption(a.vault, a.message)
  <2>1. PICK a \in Asked : AcceptRedemption(a.vault, a.message)  BY <1>3
  <2>2. a.vault \in Vault /\ a.message \in Message  BY AskedAssumption
  <2>3. a.message.deed \in Deed  BY <2>1, <2>2, MessageFields DEF AcceptRedemption
  <2>4. \A d \in Deed : place'[d] # place[d] => place[d] = In(a.vault)
    BY <1>0, <2>1, <2>2, AcceptEffect
  <2>5. \/ UNCHANGED funded
        \/ \E i \in DOMAIN funded : Claim(i, a.message.deed)
           /\ a.message.deed \in Held(a.vault) /\ place'[a.message.deed] = At("sink")
    BY <2>1, <2>3 DEF AcceptRedemption
  <2> QED  BY <2>2, <2>3, <2>4, <2>5, HeldApart DEF FundingStep, Held
<1>4. CASE \E d \in Deed, p \in {In(v) : v \in Vault} \cup {At("sink")} : Take(d, p)
  <2>1. PICK d \in Deed, p \in {In(v) : v \in Vault} \cup {At("sink")} : Take(d, p)  BY <1>4
  <2>2. p \in Place /\ At("settlement") # At("sink")  BY DEF Place, At
  <2>3. \A e \in Deed : e # d => place'[e] = place[e]
    BY <1>0, <2>1, <2>2, GoesType DEF Take, TakeSettled
  <2> QED  BY <2>1, <2>2, <2>3 DEF Take, TakeSettled, FundingStep
<1>5. CASE \E d \in Deed, i \in DOMAIN funded : RetireSettled(i, d)
  <2>1. PICK d \in Deed, i \in DOMAIN funded : RetireSettled(i, d)  BY <1>5
  <2>2. At("sink") \in Place /\ At("settlement") # At("sink")  BY DEF Place, At
  <2>3. /\ place[d] = At("settlement") /\ place'[d] = At("sink")
        /\ \A e \in Deed : e # d => place'[e] = place[e]
    BY <1>0, <2>1, <2>2, GoesType DEF RetireSettled, TakeSettled
  <2> QED  BY <2>1, <2>2, <2>3 DEF RetireSettled, FundingStep
<1> QED  BY <1>1, <1>2, <1>3, <1>4, <1>5 DEF Next

\* The offers of each funding add up to the deposit; an offer is paid for a deed that is
\* gone for good, once.
THEOREM PayoutsAreExact == Spec => []PayoutsExact
<1>1. Init => PayoutsExact  BY DEF Init, PayoutsExact
<1>2. TypeOK /\ PayoutsExact /\ [Next]_vars => PayoutsExact'
  <2> SUFFICES ASSUME TypeOK, PayoutsExact, [Next]_vars PROVE PayoutsExact'  OBVIOUS
  <2>0. /\ funded \in Seq(Funding) /\ FundingStep
        /\ \A d \in Deed : place[d] = At("sink") => place'[d] = At("sink")
    BY StepsFund DEF TypeOK
  <2>a. \A i \in DOMAIN funded : Claimed(funded[i]) \subseteq Deed
    <3>1. \A i \in DOMAIN funded : funded[i] \in Funding  BY <2>0
    <3>2. \A f \in Funding : f.plan \in Plan  BY DEF Funding
    <3>3. \A p \in Plan : DOMAIN p.amount \subseteq Deed  BY RedemptionAssumption
    <3> QED  BY <3>1, <3>2, <3>3 DEF Claimed, DeedsOf
  <2>1. CASE UNCHANGED funded  BY <2>0, <2>1, <2>a DEF PayoutsExact
  <2>2. CASE /\ ValidAllocations(vote.bill)
             /\ funded' = Append(funded, [plan |-> vote.bill, open |-> DeedsOf(vote.bill)])
    <3> DEFINE f == [plan |-> vote.bill, open |-> DeedsOf(vote.bill)]
    <3>1. Claimed(f) = {} /\ SumFunction(f.plan.amount) = f.plan.total
      BY <2>2 DEF Claimed, ValidAllocations
    <3>2. funded' = Append(funded, f)  BY <2>2
    <3> HIDE DEF f
    <3>3. /\ DOMAIN funded' = DOMAIN funded \cup {Len(funded) + 1}
          /\ \A i \in DOMAIN funded : funded'[i] = funded[i]
          /\ funded'[Len(funded) + 1] = f
      BY <2>0, <3>2
    <3>4. \A i \in DOMAIN funded' : i \in DOMAIN funded \/ funded'[i] = f  BY <3>3
    <3> QED  BY <2>0, <2>a, <3>1, <3>3, <3>4 DEF PayoutsExact
  <2>3. CASE \E i \in DOMAIN funded, d \in Deed :
               Claim(i, d) /\ place[d] # At("sink") /\ place'[d] = At("sink")
    <3>1. PICK i \in DOMAIN funded, d \in Deed :
            Claim(i, d) /\ place[d] # At("sink") /\ place'[d] = At("sink")
      BY <2>3
    <3>2. /\ DOMAIN funded' = DOMAIN funded
          /\ \A j \in DOMAIN funded : funded'[j].plan = funded[j].plan
          /\ funded'[i].open = funded[i].open \ {d}
          /\ \A j \in DOMAIN funded \ {i} : funded'[j].open = funded[j].open
      BY <2>0, <3>1, ClaimType
    <3>3. \A j \in DOMAIN funded : d \notin Claimed(funded[j])
      BY <3>1 DEF PayoutsExact
    <3>4. /\ Claimed(funded'[i]) \subseteq Claimed(funded[i]) \cup {d}
          /\ \A j \in DOMAIN funded \ {i} : Claimed(funded'[j]) = Claimed(funded[j])
      BY <3>1, <3>2 DEF Claimed
    <3>5. \A j \in DOMAIN funded' :
            SumFunction(funded'[j].plan.amount) = funded'[j].plan.total
      BY <3>2 DEF PayoutsExact
    <3>6. \A j \in DOMAIN funded : \A e \in Claimed(funded'[j]) :
            /\ place'[e] = At("sink")
            /\ \A k \in DOMAIN funded \ {j} : e \notin Claimed(funded'[k])
      BY <2>0, <2>a, <3>1, <3>3, <3>4 DEF PayoutsExact
    <3> QED  BY <3>2, <3>5, <3>6 DEF PayoutsExact
  <2> QED  BY <2>0, <2>1, <2>2, <2>3 DEF FundingStep
<1> QED  BY <1>1, <1>2, TypeCorrect, PTL DEF Spec

\* A deed leaves a vault only by the spend of the coin its present owner signed for, to
\* where that spend announces, and for a payment only if the message names it.
THEOREM DeedsLeaveAsAnnounced == Spec => LeavesAsAnnounced
<1> DEFINE Moves ==
      \A d \in Deed, v \in Vault :
        (place[d] = In(v) /\ place'[d] # In(v)) =>
          /\ vault'[v].coin = vault[v].coin + 1
          /\ \E s \in signed :
               /\ s.vault = v /\ s.coin = vault[v].coin /\ s.key = vault[v].owner
               /\ Sends(s.message, d, place'[d])
<1>1. ASSUME NEW v \in Vault, NEW m, NEW d, NEW p, Authorized(v, m), Sends(m, d, p)
      PROVE  \E s \in signed :
               /\ s.vault = v /\ s.coin = vault[v].coin /\ s.key = vault[v].owner
               /\ Sends(s.message, d, p)
  <2> DEFINE s == [vault |-> v, coin |-> vault[v].coin, key |-> vault[v].owner, message |-> m]
  <2>1. s \in signed  BY <1>1 DEF Authorized
  <2>2. s.vault = v /\ s.coin = vault[v].coin /\ s.key = vault[v].owner /\ s.message = m
    OBVIOUS
  <2> HIDE DEF s
  <2> QED  BY <1>1, <2>1, <2>2
<1>2. TypeOK /\ [Next]_vars => [Moves]_vars
  <2> SUFFICES ASSUME TypeOK, [Next]_vars, NEW d \in Deed, NEW v \in Vault,
                      place[d] = In(v), place'[d] # In(v)
               PROVE  /\ vault'[v].coin = vault[v].coin + 1
                      /\ \E s \in signed :
                           /\ s.vault = v /\ s.coin = vault[v].coin /\ s.key = vault[v].owner
                           /\ Sends(s.message, d, place'[d])
    OBVIOUS
  <2>0. VaultTypeOK /\ place \in [Deed -> Place]  BY DEF TypeOK, VaultTypeOK
  <2>1. CASE \E a \in Asked : SpendVault(a.vault, a.message)
    <3>1. PICK a \in Asked : SpendVault(a.vault, a.message)  BY <2>1
    <3>2. a.vault \in Vault /\ a.message \in Message  BY AskedAssumption
    <3>3. /\ Authorized(a.vault, a.message)
          /\ vault'[a.vault].coin = vault[a.vault].coin + 1
          /\ a.vault = v /\ Sends(a.message, d, place'[d])
      BY <2>0, <3>1, <3>2, SpendEffect, HeldApart DEF SpendVault
    <3> QED  BY <1>1, <3>3
  <2>2. CASE \E a \in Asked : AcceptRedemption(a.vault, a.message)
    <3>1. PICK a \in Asked : AcceptRedemption(a.vault, a.message)  BY <2>2
    <3>2. a.vault \in Vault /\ a.message \in Message  BY AskedAssumption
    <3>3. /\ Authorized(a.vault, a.message)
          /\ vault'[a.vault].coin = vault[a.vault].coin + 1
          /\ a.vault = v /\ Sends(a.message, d, place'[d])
      BY <2>0, <3>1, <3>2, AcceptEffect, HeldApart
    <3> QED  BY <1>1, <3>3
  <2>3. CASE \/ \E e \in Deed, p \in {In(w) : w \in Vault} \cup {At("sink")} : Take(e, p)
             \/ \E e \in Deed, i \in DOMAIN funded : RetireSettled(i, e)
    <3>1. PICK e \in Deed, p \in Place : place[e] = At("settlement") /\ Goes({e}, p)
      BY <2>3 DEF Take, RetireSettled, TakeSettled, Place
    <3>2. d # e  BY <3>1, HeldApart
    <3> QED  BY <2>0, <3>1, <3>2, GoesType
  <2>4. CASE \/ UNCHANGED vars
             \/ \E p \in Plan : Deposit(p) \/ \E deadline \in 0 .. MaxTime : Propose(p, deadline)
             \/ MeetQuorum \/ Fund \/ Expire
             \/ \E t \in 0 .. MaxTime : NextBlock(t)
             \/ \E a \in Asked : OwnerSigns(a.vault, a.message)
    BY <2>4 DEF vars, Deposit, Propose, MeetQuorum, Fund, Expire, NextBlock, OwnerSigns, Sign,
                custodyVars
  <2> QED  BY <2>1, <2>2, <2>3, <2>4 DEF Next
<1> QED  BY <1>2, TypeCorrect, PTL DEF Spec, LeavesAsAnnounced
=============================================================================
