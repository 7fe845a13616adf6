----------------------- MODULE AdminAuthority_proofs -----------------------
(***************************************************************************)
(* Proofs about AdminAuthority for every set of credentials and any delays. *)
(***************************************************************************)
EXTENDS AdminAuthority, FiniteSetTheorems, TLAPS

\* The pending fields describe one change of settled custodies, and when it has
\* been prepared for its delay.
ChangeCommitted ==
  LET p == authority.pending
  IN Pending =>
       /\ p.original = Settled(p.original.cred) /\ p.original.cred \in Credential
       /\ p.replacement = Settled(p.replacement.cred) /\ p.replacement.cred \in Credential
       /\ p.delay = DelayOf(p.kind)
       /\ authority.custody[p.slot] =
            Intermediate(p.original.cred, p.replacement.cred, p.delay)

\* Every slot that is not pending is recorded as settled, and is so.
Quiet ==
  \A s \in Slot :
    ~Pending \/ s # authority.pending.slot =>
      /\ authority.custody[s] = Settled(authority.custody[s].cred)
      /\ identity[s].custody = authority.custody[s]

\* The pending identity either waits in the coin the authority commits to, as
\* old as the authority's, or has finished after the delay.
Waiting ==
  LET p == authority.pending
      i == identity[p.slot]
  IN /\ i.custody = authority.custody[p.slot]
     /\ i.coin = p.coin
     /\ i.since = authority.since

Finished ==
  LET p == authority.pending
  IN /\ identity[p.slot].custody = p.replacement
     /\ now >= authority.since + p.delay

\* The inductive invariant.
Inv ==
  /\ TypeOK
  /\ ChangeCommitted
  /\ Quiet
  /\ Pending => Waiting \/ Finished

----------------------------------------------------------------------------
\* Delays are times, and settled custodies and those on their way are custodies.
LEMMA CustodyTypes ==
  /\ \A c \in Credential : Settled(c) \in Custody
  /\ \A c, n \in Credential, kind \in Kind :
       Intermediate(c, n, DelayOf(kind)) \in Custody
  /\ \A kind \in Kind : DelayOf(kind) \in {RoutineDelay, LostDelay}
                        /\ DelayOf(kind) \in Nat \ {0}
  /\ \A c \in Custody : c.next = NoCredential => c.cred \in Credential
BY DelayAssumption, CredentialAssumption
   DEF Custody, Settled, Intermediate, DelayOf, Kind

\* A pending authority holds the fields of a change.
LEMMA PendingType ==
  ASSUME TypeOK
  PROVE  /\ Pending => authority.pending \in PendingChange
         /\ ~Pending => authority.pending = NoPending
BY DEF TypeOK, Authority, Pending, PendingChange, NoPending, Kind

\* The deployment starts settled and idle.
LEMMA InvInit == Init => Inv
<1> SUFFICES ASSUME Init PROVE Inv
  OBVIOUS
<1>1. \A s \in Slot : Settled(Genesis[s]) \in Custody
  BY CustodyTypes, CredentialAssumption
<1>2. ~Pending
  BY DEF Init, Pending, NoPending
<1>3. authority \in Authority
  BY <1>1, DelayAssumption DEF Init, Authority
<1>4. identity \in [Slot -> Identity]
  BY <1>1, DelayAssumption DEF Init, Identity
<1>5. TypeOK
  BY <1>3, <1>4, DelayAssumption DEF Init, TypeOK, NoPending, Slot
<1>6. Quiet
  BY DEF Init, Quiet, Settled
<1>7. QED BY <1>2, <1>5, <1>6 DEF Inv, ChangeCommitted

\* Spending the coin of a slot again leaves an identity.
LEMMA RespentType ==
  ASSUME TypeOK, NEW s \in Slot, NEW c \in Custody
  PROVE  Respent(s, c) \in Identity
BY DEF TypeOK, Respent, Identity

\* An authority left idle is well typed.
LEMMA IdleType ==
  ASSUME TypeOK, NEW c \in [Slot -> Custody]
  PROVE  Idle(c) \in Authority /\ Idle(c).pending = NoPending /\ Idle(c).custody = c
BY DEF TypeOK, Authority, Idle

\* An operational spend finds nothing pending and both identities addressed.
LEMMA OperationalPair ==
  ASSUME NEW co \in {1, 2}, Operational(co)
  PROVE  ~Pending /\ \A s \in {0, co} : Addressed(s)
BY DEF Operational, build_identity_operational_solution, DailyPath

\* The custodies of an operational spend are those of before.
LEMMA OperationalKeeps ==
  ASSUME NEW co \in {1, 2}, Operational(co)
  PROVE  \A s \in Slot : identity'[s].custody = identity[s].custody
<1> SUFFICES ASSUME NEW s \in Slot PROVE identity'[s].custody = identity[s].custody
  OBVIOUS
<1>1. identity'[s] = IF s \in {0, co} THEN Respent(s, authority.custody[s]) ELSE identity[s]
  BY DEF Operational
<1>2. CASE s \in {0, co}
  BY <1>1, <1>2, OperationalPair DEF Addressed, Respent
<1>3. CASE s \notin {0, co}
  BY <1>1, <1>3
<1>4. QED BY <1>2, <1>3

\* Operational spends renew coins and keep every custody.
LEMMA InvOperational ==
  ASSUME Inv, NEW co \in {1, 2}, Operational(co)
  PROVE  Inv'
<1> USE DEF Inv
<1>1. authority.custody \in [Slot -> Custody] /\ {0, co} \subseteq Slot
  BY DEF TypeOK, Authority, Slot
<1>2. authority' \in Authority /\ authority'.pending = NoPending
      /\ authority'.custody = authority.custody
  BY <1>1, IdleType DEF Operational
<1>3. identity' \in [Slot -> Identity]
  BY <1>1, RespentType DEF Operational, TypeOK
<1>4. TypeOK'
  BY <1>2, <1>3 DEF Operational, TypeOK, NoPending, Slot
<1>5. ~Pending'
  BY <1>2 DEF Pending, NoPending
<1>6. \A s \in Slot : identity'[s].custody = identity[s].custody
  BY OperationalKeeps
<1>7. Quiet'
  <2>1. ~Pending
    BY OperationalPair
  <2>2. ASSUME NEW s \in Slot
        PROVE  /\ authority'.custody[s] = Settled(authority'.custody[s].cred)
               /\ identity'[s].custody = authority'.custody[s]
    <3>1. /\ authority.custody[s] = Settled(authority.custody[s].cred)
          /\ identity[s].custody = authority.custody[s]
      BY <2>1 DEF Quiet
    <3>2. QED BY <3>1, <1>2, <1>6
  <2>3. QED BY <2>2 DEF Quiet, Settled
<1>8. QED BY <1>4, <1>5, <1>7 DEF ChangeCommitted

\* A preparation moves one slot, in both records at once.
LEMMA InvPrepare ==
  ASSUME Inv, NEW kind \in Kind, NEW s \in Slot, NEW new \in Credential,
         NEW R \in SUBSET Slot, Prepare(kind, s, new, R)
  PROVE  Inv'
<1> USE DEF Inv
<1> DEFINE old == authority.custody[s]
           inter == Between(kind, s, new)
<1>1. authority.custody \in [Slot -> Custody] /\ ~Pending
  BY DEF TypeOK, Authority, Prepare, CanChange
<1>2. /\ old = Settled(old.cred) /\ old.cred \in Credential /\ inter \in Custody
      /\ Settled(new) \in Custody /\ old \in Custody
  <2>1. old \in Custody /\ old = Settled(old.cred)
    BY <1>1 DEF Quiet
  <2>2. QED BY <2>1, CustodyTypes DEF Custody, Between
<1> HIDE DEF inter
<1> DEFINE p == [kind |-> kind, slot |-> s, coin |-> identity[s].coin + 1,
                 original |-> old, replacement |-> Settled(new),
                 delay |-> DelayOf(kind)]
<1>3. p \in PendingChange
  BY <1>2, CustodyTypes DEF PendingChange, TypeOK, Identity
<1>4. /\ authority' = [custody |-> [authority.custody EXCEPT ![s] = inter],
                       version |-> authority.version + 1, since |-> now, pending |-> p]
      /\ identity' = [r \in Slot |-> IF r = s THEN Respent(r, inter)
                                     ELSE IF r \in R THEN Respent(r, authority.custody[r])
                                     ELSE identity[r]]
      /\ now' = now
  BY DEF Prepare, Change, inter
<1>5. authority' \in Authority
  BY <1>1, <1>2, <1>3, <1>4 DEF Authority, TypeOK
<1>6. identity' \in [Slot -> Identity]
  BY <1>1, <1>2, <1>4, RespentType DEF TypeOK
<1>7. TypeOK'
  BY <1>4, <1>5, <1>6 DEF TypeOK
<1>8. Pending' /\ authority'.pending = p
  BY <1>4 DEF Pending, Kind
<1>9. ChangeCommitted'
  BY <1>1, <1>2, <1>4, <1>8 DEF ChangeCommitted, inter, Between, Settled
<1>10. Quiet'
  <2> SUFFICES ASSUME NEW r \in Slot, r # s
               PROVE  /\ authority'.custody[r] = Settled(authority'.custody[r].cred)
                      /\ identity'[r].custody = authority'.custody[r]
    BY <1>8 DEF Quiet
  <2>1. authority'.custody[r] = authority.custody[r]
    BY <1>1, <1>4
  <2>2. authority.custody[r] = Settled(authority.custody[r].cred)
        /\ identity[r].custody = authority.custody[r]
    BY <1>1 DEF Quiet
  <2>3. identity'[r].custody = identity[r].custody
    BY <1>4, <2>2 DEF Respent
  <2>4. QED BY <2>1, <2>2, <2>3
<1>11. Waiting'
  BY <1>1, <1>4, <1>8 DEF Waiting, Respent
<1>12. QED BY <1>7, <1>9, <1>10, <1>11

\* What Cancel and Complete share: the pending slot ends settled in both records.
LEMMA InvResolve ==
  ASSUME Inv, Pending, NEW c \in Credential,
         authority' = Idle([authority.custody EXCEPT ![authority.pending.slot] = Settled(c)]),
         identity' = Touched(authority.pending.slot, Settled(c)),
         now' = now
  PROVE  Inv'
<1> USE DEF Inv
<1> DEFINE s == authority.pending.slot
           custody == [authority.custody EXCEPT ![s] = Settled(c)]
<1>1. authority.custody \in [Slot -> Custody] /\ s \in Slot /\ Settled(c) \in Custody
  BY CustodyTypes DEF TypeOK, Authority
<1>2. custody \in [Slot -> Custody]
  BY <1>1
<1>3. authority' \in Authority /\ authority'.pending = NoPending
      /\ authority'.custody = custody
  BY <1>2, IdleType
<1>4. identity' \in [Slot -> Identity]
  BY <1>1, RespentType DEF Touched, TypeOK
<1>5. TypeOK' /\ ~Pending'
  BY <1>3, <1>4 DEF TypeOK, Pending, NoPending, Slot
<1>6. Quiet'
  <2> SUFFICES ASSUME NEW r \in Slot
               PROVE  /\ custody[r] = Settled(custody[r].cred)
                      /\ identity'[r].custody = custody[r]
    BY <1>3 DEF Quiet
  <2>1. CASE r = s
    BY <2>1, <1>1 DEF Touched, Respent, TypeOK, Settled
  <2>2. CASE r # s
    BY <2>2, <1>1 DEF Touched, TypeOK, Quiet
  <2>3. QED BY <2>1, <2>2
<1>7. QED BY <1>5, <1>6 DEF ChangeCommitted

\* A cancelled change leaves the original custody in both records.
LEMMA InvCancel == ASSUME Inv, Cancel PROVE Inv'
<1>1. Pending /\ authority.pending.original = Settled(authority.pending.original.cred)
      /\ authority.pending.original.cred \in Credential
  BY DEF Inv, ChangeCommitted, Cancel
<1>2. QED BY <1>1, InvResolve DEF Cancel

\* A completed change leaves the replacement in both records.
LEMMA InvComplete == ASSUME Inv, Complete PROVE Inv'
<1>1. Pending /\ authority.pending.replacement = Settled(authority.pending.replacement.cred)
      /\ authority.pending.replacement.cred \in Credential
  BY DEF Inv, ChangeCommitted, Complete
<1>2. identity' = Touched(authority.pending.slot, authority.pending.replacement)
  BY DEF Complete, Finish, Announced, completion_message
<1>3. QED BY <1>1, <1>2, InvResolve DEF Complete

\* An identity on its way is the pending one, in the coin the authority expects.
LEMMA OnlyPendingMoves ==
  ASSUME Inv, NEW s \in Slot, Moving(s)
  PROVE  Pending /\ s = authority.pending.slot /\ Waiting
<1> USE DEF Inv
<1>1. Pending /\ s = authority.pending.slot
  <2>1. ASSUME ~Pending \/ s # authority.pending.slot PROVE FALSE
    <3>1. identity[s].custody = authority.custody[s]
          /\ authority.custody[s] = Settled(authority.custody[s].cred)
      BY <2>1 DEF Quiet
    <3>2. identity[s].custody.next = NoCredential
      BY <3>1 DEF Settled
    <3>3. QED BY <3>2 DEF Moving
  <2>2. QED BY <2>1
<1>2. ~Finished
  BY <1>1 DEF Moving, Finished, ChangeCommitted, Settled
<1>3. QED BY <1>1, <1>2

\* Only the pending identity moves, after the delay and to the replacement.
LEMMA FinishEffect ==
  ASSUME Inv, NEW s \in Slot, Finish(s)
  PROVE  /\ Pending /\ s = authority.pending.slot
         /\ Waiting
         /\ Settled(identity[s].custody.next) = authority.pending.replacement
         /\ now >= authority.since + authority.pending.delay
<1> USE DEF Inv
<1>1. Pending /\ s = authority.pending.slot
  BY OnlyPendingMoves DEF Finish
<1>2. Waiting
  BY OnlyPendingMoves DEF Finish
<1>3. identity[s].custody = Intermediate(authority.pending.original.cred,
                              authority.pending.replacement.cred, authority.pending.delay)
  BY <1>1, <1>2 DEF Waiting, ChangeCommitted
<1>4. Settled(identity[s].custody.next) = authority.pending.replacement
  BY <1>1, <1>3 DEF ChangeCommitted, Intermediate
<1>5. now >= authority.since + authority.pending.delay
  BY <1>1, <1>2, <1>3 DEF Finish, Waiting, Intermediate
<1>6. QED BY <1>1, <1>2, <1>4, <1>5

\* An identity that finishes by itself leaves the authority pending on it.
LEMMA InvFinishAlone == ASSUME Inv, NEW s \in Slot, FinishAlone(s) PROVE Inv'
<1> USE DEF Inv
<1> DEFINE p == authority.pending
<1>1. /\ Pending /\ s = p.slot /\ now >= authority.since + p.delay
      /\ identity' = Touched(s, p.replacement)
      /\ authority' = authority /\ now' = now
  BY FinishEffect DEF FinishAlone, Finish
<1>2. p.replacement \in Custody
  BY <1>1, CustodyTypes DEF ChangeCommitted
<1>3. identity' \in [Slot -> Identity]
  BY <1>1, <1>2, RespentType DEF Touched, TypeOK
<1>4. TypeOK'
  BY <1>1, <1>3 DEF TypeOK
<1>5. Quiet'
  BY <1>1 DEF Quiet, Touched, Pending, TypeOK
<1>6. Finished'
  BY <1>1 DEF Finished, Touched, Respent, TypeOK
<1>7. ChangeCommitted'
  BY <1>1 DEF ChangeCommitted, Pending
<1>8. QED BY <1>4, <1>5, <1>6, <1>7

\* Time passes; what has served its delay has still served it.
LEMMA InvTick == ASSUME Inv, NEW t \in 0 .. MaxTime, Tick(t) PROVE Inv'
<1> USE DEF Inv
<1>1. authority' = authority /\ identity' = identity /\ now' = t /\ t >= now
      /\ now \in Nat
  BY DelayAssumption DEF Tick, TypeOK
<1>2. TypeOK'
  BY <1>1 DEF TypeOK
<1>3. ChangeCommitted' /\ Quiet' /\ Pending' = Pending
  BY <1>1 DEF ChangeCommitted, Quiet, Pending
<1>4. ASSUME Pending PROVE Waiting' \/ Finished'
  <2>1. CASE Waiting
    BY <2>1, <1>1 DEF Waiting
  <2>2. CASE Finished
    <3>1. authority.since \in Nat /\ authority.pending.delay \in Nat
      BY <1>4, PendingType, DelayAssumption DEF TypeOK, Authority, PendingChange
    <3>2. QED BY <2>2, <1>1, <3>1 DEF Finished
  <2>3. QED BY <1>4, <2>1, <2>2
<1>5. QED BY <1>2, <1>3, <1>4

\* Every step keeps the inductive invariant.
LEMMA InvNext == Inv /\ [Next]_vars => Inv'
<1> SUFFICES ASSUME Inv, [Next]_vars PROVE Inv'
  OBVIOUS
<1>1. ASSUME NEW co \in {1, 2}, Operational(co) PROVE Inv'
  BY <1>1, InvOperational
<1>2. ASSUME NEW kind \in Kind, NEW s \in Slot, NEW new \in Credential,
             NEW R \in SUBSET Slot, Prepare(kind, s, new, R)
      PROVE  Inv'
  BY <1>2, InvPrepare
<1>3. CASE Cancel
  BY <1>3, InvCancel
<1>4. CASE Complete
  BY <1>4, InvComplete
<1>5. ASSUME NEW s \in Slot, FinishAlone(s) PROVE Inv'
  BY <1>5, InvFinishAlone
<1>6. ASSUME NEW t \in 0 .. MaxTime, Tick(t) PROVE Inv'
  BY <1>6, InvTick
<1>7. CASE UNCHANGED vars
  BY <1>7 DEF vars, Inv, TypeOK, ChangeCommitted, Quiet, Pending, Waiting, Finished
<1>8. QED BY <1>1, <1>2, <1>3, <1>4, <1>5, <1>6, <1>7 DEF Next

\* The two records stay committed to one another in every behaviour.
THEOREM Invariance == Spec => []Inv
BY InvInit, InvNext, PTL DEF Spec

----------------------------------------------------------------------------
\* The state of the authority and the identities is always well typed.
THEOREM TypeCorrect == Spec => []TypeOK
<1>1. Inv => TypeOK
  BY DEF Inv
<1>2. QED BY <1>1, Invariance, PTL

\* The authority's custody record is that of the live identities, whatever the
\* order of preparations, cancellations and finishes.
THEOREM MirrorsIdentities == Spec => []Mirror
<1>1. Inv => Mirror
  BY DEF Inv, Mirror, Quiet, Waiting, Finished
<1>2. QED BY <1>1, Invariance, PTL

\* Until the committed delay is over the old daily key's veto is available.
THEOREM VetoIsOpen == Spec => []VetoOpen
<1>1. ASSUME Inv, Pending, now < authority.since + authority.pending.delay
      PROVE  Waiting
  <2>1. authority.since \in Nat /\ authority.pending.delay \in Nat /\ now \in Nat
    BY <1>1, PendingType, DelayAssumption DEF Inv, TypeOK, Authority, PendingChange
  <2>2. QED BY <1>1, <2>1 DEF Inv, Finished
<1>2. Inv => VetoOpen
  BY <1>1 DEF Inv, VetoOpen, Waiting, Addressed, ChangeCommitted, Intermediate
<1>3. QED BY <1>2, Invariance, PTL

\* While a change is pending no other identity is spent.
THEOREM OthersAreHeld == Spec => OthersHeld
<1>1. Inv /\ [Next]_vars => [HoldOthers]_vars
  <2> SUFFICES ASSUME Inv, [Next]_vars, NEW s \in Slot, Pending,
                      s # authority.pending.slot
               PROVE  identity'[s] = identity[s]
    BY DEF HoldOthers
  <2>1. identity \in [Slot -> Identity] /\ authority.pending.slot \in Slot
    BY DEF Inv, TypeOK
  <2>2. CASE Cancel
    BY <2>1, <2>2 DEF Cancel, Touched
  <2>3. CASE Complete
    BY <2>1, <2>3 DEF Complete, Finish, Touched
  <2>4. ASSUME NEW r \in Slot, FinishAlone(r) PROVE identity'[s] = identity[s]
    BY <2>1, <2>4, FinishEffect DEF FinishAlone, Finish, Touched
  <2>5. ASSUME NEW t \in 0 .. MaxTime, Tick(t) PROVE identity'[s] = identity[s]
    BY <2>5 DEF Tick
  <2>6. ASSUME NEW co \in {1, 2}, Operational(co) PROVE FALSE
    BY <2>6, OperationalPair
  <2>7. QED BY <2>2, <2>3, <2>4, <2>5, <2>6 DEF Next, Prepare, CanChange, vars
<1>2. QED BY <1>1, Invariance, PTL DEF Spec, OthersHeld

\* A credential changes only into the one the authority has been pending on for
\* the whole delay of that kind of change.
ServeDelay ==
  \A s \in Slot :
    identity'[s].custody.cred # identity[s].custody.cred =>
      /\ Pending /\ authority.pending.slot = s
      /\ authority.pending.replacement = Settled(identity'[s].custody.cred)
      /\ now >= authority.since + DelayOf(authority.pending.kind)

DelayServed == [][ServeDelay]_vars

\* Credentials change only after the delay the authority committed to.
THEOREM DelayIsServed == Spec => DelayServed
<1>1. Inv /\ [Next]_vars => [ServeDelay]_vars
  <2> SUFFICES ASSUME Inv, [Next]_vars, NEW s \in Slot,
                      identity'[s].custody.cred # identity[s].custody.cred
               PROVE  /\ Pending /\ authority.pending.slot = s
                      /\ authority.pending.replacement = Settled(identity'[s].custody.cred)
                      /\ now >= authority.since + DelayOf(authority.pending.kind)
    BY DEF ServeDelay
  <2> DEFINE Goal == /\ Pending /\ authority.pending.slot = s
                     /\ authority.pending.replacement = Settled(identity'[s].custody.cred)
                     /\ now >= authority.since + DelayOf(authority.pending.kind)
  <2>1. identity \in [Slot -> Identity] /\ authority.pending.slot \in Slot
    BY DEF Inv, TypeOK
  <2>2. ASSUME NEW r \in Slot, Finish(r) PROVE Goal
    <3>1. /\ Pending /\ r = authority.pending.slot
          /\ identity' = Touched(r, authority.pending.replacement)
          /\ now >= authority.since + authority.pending.delay
      BY <2>2, FinishEffect DEF Finish
    <3>2. r = s
      BY <2>1, <3>1 DEF Touched
    <3>3. identity'[s].custody = authority.pending.replacement
      BY <2>1, <3>1, <3>2 DEF Touched, Respent
    <3>4. QED BY <3>1, <3>2, <3>3 DEF Inv, ChangeCommitted
  <2>3. ASSUME NEW co \in {1, 2}, Operational(co) PROVE FALSE
    BY <2>3, OperationalKeeps
  <2>4. ASSUME NEW kind \in Kind, NEW t \in Slot, NEW new \in Credential,
               NEW R \in SUBSET Slot, Prepare(kind, t, new, R)
        PROVE  FALSE
    BY <2>1, <2>4 DEF Prepare, CanChange, Between, Inv, Quiet, Respent, Intermediate
  <2>5. ASSUME Cancel PROVE FALSE
    <3>1. Pending /\ identity' = Touched(authority.pending.slot, authority.pending.original)
          /\ Addressed(authority.pending.slot)
      BY <2>5 DEF Cancel, build_identity_cancel_solution, DailyPath
    <3>2. identity[authority.pending.slot].custody.cred = authority.pending.original.cred
      BY <3>1 DEF Addressed, Inv, ChangeCommitted, Intermediate
    <3>3. QED BY <2>1, <3>1, <3>2 DEF Touched, Respent
  <2>6. CASE Complete
    BY <2>1, <2>2, <2>6 DEF Complete
  <2>7. ASSUME NEW r \in Slot, FinishAlone(r) PROVE Goal
    BY <2>2, <2>7 DEF FinishAlone
  <2>8. ASSUME NEW t \in 0 .. MaxTime, Tick(t) PROVE FALSE
    BY <2>8 DEF Tick
  <2>9. CASE UNCHANGED vars
    BY <2>9 DEF vars
  <2>10. QED BY <2>3, <2>4, <2>5, <2>6, <2>7, <2>8, <2>9 DEF Next
<1>2. QED BY <1>1, Invariance, PTL DEF Spec, DelayServed

(***************************************************************************)
(* The refinement.  At most one identity is on its way, the pending one,   *)
(* and it has been since the authority's last spend.  A preparation        *)
(* requests, a cancellation vetoes, a finish with or without the authority *)
(* grants; every other spend leaves keys and requests alone.               *)
(***************************************************************************)
\* Two slots are two.
LEMMA PairCounts == ASSUME NEW a, NEW b, a # b PROVE Cardinality({a, b}) = 2
<1>1. IsFiniteSet({}) /\ Cardinality({}) = 0
  BY FS_EmptySet
<1>2. IsFiniteSet({} \cup {a}) /\ Cardinality({} \cup {a}) = 1
  BY <1>1, FS_AddElement
<1>3. Cardinality(({} \cup {a}) \cup {b}) = 2
  <2>1. b \notin {} \cup {a}
    OBVIOUS
  <2>2. Cardinality(({} \cup {a}) \cup {b}) = Cardinality({} \cup {a}) + 1
    BY <1>2, <2>1, FS_AddElement
  <2>3. QED BY <1>2, <2>2
<1>4. ({} \cup {a}) \cup {b} = {a, b}
  OBVIOUS
<1>5. QED BY <1>3, <1>4

\* The pairs the driver can prove are those the authority accepts, when the
\* identities are current: neither is asked for in vain.
LEMMA ApproversAgree ==
  ASSUME NEW kind \in Kind, NEW s \in Slot, CurrentIdentities
  PROVE  build_authority_prepare_mips_spend(kind, s) \subseteq Approvers(kind, s)
<1>1. ASSUME NEW co \in {1, 2} PROVE {0, co} \in SUBSET Slot /\ Cardinality({0, co}) = 2
  <2>1. 0 # co
    OBVIOUS
  <2>2. Cardinality({0, co}) = 2
    BY <2>1, PairCounts
  <2>3. QED BY <2>2 DEF Slot
<1>2. Slot \ {s} \in SUBSET Slot /\ Cardinality(Slot \ {s}) = 2
  <2>1. Slot \ {s} = {1, 2} \/ Slot \ {s} = {0, 2} \/ Slot \ {s} = {0, 1}
    <3>1. Slot = {0, 1, 2} /\ s \in {0, 1, 2}
      BY DEF Slot
    <3>2. QED BY <3>1
  <2>2. 1 # 2 /\ 0 # 2 /\ 0 # 1
    OBVIOUS
  <2>3. Cardinality({1, 2}) = 2 /\ Cardinality({0, 2}) = 2 /\ Cardinality({0, 1}) = 2
    <3>1. Cardinality({1, 2}) = 2
      BY ONLY <2>2, PairCounts
    <3>2. Cardinality({0, 2}) = 2
      BY ONLY <2>2, PairCounts
    <3>3. Cardinality({0, 1}) = 2
      BY ONLY <2>2, PairCounts
    <3>4. QED BY <3>1, <3>2, <3>3
  <2>4. Cardinality(Slot \ {s}) = 2
    BY <2>1, <2>3
  <2>5. QED BY <2>4
<1>3. QED BY <1>1, <1>2
          DEF build_authority_prepare_mips_spend, Approvers, operational_policy, lost_recovery_policy

\* While nothing is pending, no request is under way.
LEMMA NoneOnTheWay == ASSUME Inv, ~Pending PROVE OnTheWay = {}
<1>1. \A s \in Slot : ~Moving(s)
  BY OnlyPendingMoves
<1>2. QED BY <1>1 DEF OnTheWay

\* The one under way is that of the pending identity.
LEMMA OneOnTheWay ==
  ASSUME Inv, NEW s \in Slot, Moving(s)
  PROVE  OnTheWay = {[slot |-> s, key |-> identity[s].custody.next,
                      ready |-> identity[s].since + identity[s].custody.delay]}
<1>1. {r \in Slot : Moving(r)} = {s}
  BY OnlyPendingMoves
<1>2. QED BY <1>1 DEF OnTheWay

\* Custodies that stay keep the keys.
LEMMA SameKeys ==
  ASSUME \A s \in Slot : identity'[s].custody.cred = identity[s].custody.cred
  PROVE  CredentialOf' = CredentialOf
BY DEF CredentialOf

\* With nothing pending after a step, no request is under way after it.
LEMMA NoneAfter == ASSUME Inv', ~Pending' PROVE OnTheWay' = {}
<1>1. ASSUME NEW s \in Slot PROVE ~Moving(s)'
  <2>1. identity'[s].custody = Settled(authority'.custody[s].cred)
    BY DEF Inv, Quiet
  <2>2. identity'[s].custody.next = NoCredential
    BY <2>1 DEF Settled
  <2>3. QED BY <2>2 DEF Moving
<1>2. QED BY <1>1 DEF OnTheWay

\* An operational spend is none of the keys' business.
LEMMA KeysOperational ==
  ASSUME Inv, Inv', NEW co \in {1, 2}, Operational(co)
  PROVE  UNCHANGED <<now, CredentialOf, OnTheWay>>
<1>1. ~Pending /\ ~Pending'
  BY OperationalPair DEF Operational, Idle, NoPending, Pending
<1>2. \A s \in Slot : identity'[s].custody.cred = identity[s].custody.cred
  BY OperationalKeeps
<1>3. OnTheWay = {} /\ OnTheWay' = {}
  BY <1>1, NoneOnTheWay, NoneAfter
<1>4. QED BY <1>2, <1>3, SameKeys DEF Operational

\* A preparation requests, with the wait of its kind.
LEMMA KeysRequested ==
  ASSUME Inv, Inv', NEW kind \in Kind, NEW s \in Slot, NEW new \in Credential,
         NEW R \in SUBSET Slot, Prepare(kind, s, new, R)
  PROVE  KeyChanges!Request(s, new)
<1> DEFINE r == [slot |-> s, key |-> new, ready |-> now + DelayOf(kind)]
<1>1. OnTheWay = {}
  BY NoneOnTheWay DEF Prepare, CanChange
<1>2. authority.custody[s] = identity[s].custody
  BY DEF Prepare, CanChange, Addressed
<1>3. /\ identity'[s] = Respent(s, Between(kind, s, new))
      /\ \A q \in Slot \ {s} : identity'[q] = IF q \in R THEN Respent(q, authority.custody[q])
                                             ELSE identity[q]
      /\ now' = now
  BY DEF Prepare
<1>4. /\ identity'[s].custody.cred = identity[s].custody.cred
      /\ identity'[s].custody.next = new /\ identity'[s].custody.delay = DelayOf(kind)
      /\ identity'[s].since = now
  BY <1>2, <1>3 DEF Respent, Between, Intermediate
<1>5. \A q \in Slot \ {s} : /\ identity'[q].custody = identity[q].custody
                            /\ identity[q].custody.next = NoCredential
  <2> SUFFICES ASSUME NEW q \in Slot \ {s}
               PROVE  /\ identity'[q].custody = identity[q].custody
                      /\ identity[q].custody.next = NoCredential
    OBVIOUS
  <2>1. identity[q].custody = authority.custody[q]
        /\ authority.custody[q] = Settled(authority.custody[q].cred)
    BY DEF Prepare, CanChange, Inv, Quiet
  <2>2. identity'[q].custody = identity[q].custody
    <3>1. CASE q \in R
      <4>1. identity'[q] = Respent(q, authority.custody[q])
        BY <1>3, <3>1
      <4>2. identity'[q].custody = authority.custody[q]
        BY <4>1 DEF Respent
      <4>3. QED BY <4>2, <2>1
    <3>2. CASE q \notin R
      BY <1>3, <3>2
    <3>3. QED BY <3>1, <3>2
  <2>3. identity[q].custody.next = NoCredential
    BY <2>1 DEF Settled
  <2>4. QED BY <2>2, <2>3
<1>6. CredentialOf' = CredentialOf
  BY <1>4, <1>5, SameKeys
<1>7. {q \in Slot : Moving(q)'} = {s}
  BY <1>4, <1>5, CredentialAssumption DEF Moving
<1>8. OnTheWay' = {r}
  BY <1>4, <1>7, <1>3 DEF OnTheWay
<1>9. DelayOf(kind) \in KeyChanges!Waits(CredentialOf[s], new)
  <2>1. Allowed(kind, CredentialOf[s], new)
    BY <1>2 DEF Prepare, CanChange, CredentialOf
  <2>2. QED BY <2>1
            DEF Allowed, Kind, DelayOf, KeyChanges!Waits, KeyChanges!Rotates, KeyChanges!Replaces
<1>10. QED BY <1>1, <1>3, <1>6, <1>8, <1>9 DEF KeyChanges!Request

\* A cancellation vetoes.
LEMMA KeysVetoed == ASSUME Inv, Inv', Cancel PROVE KeyChanges!Veto
<1> DEFINE s == authority.pending.slot
<1>1. /\ identity' = Touched(s, authority.pending.original) /\ now' = now
      /\ Pending /\ Addressed(s)
  BY DEF Cancel, build_identity_cancel_solution, DailyPath
<1>2. identity[s].custody.cred = authority.pending.original.cred
  BY <1>1 DEF Inv, ChangeCommitted, Addressed, Intermediate
<1>3. CredentialOf' = CredentialOf
  BY <1>1, <1>2, SameKeys DEF Touched, Respent, Inv, TypeOK
<1>4. ~Pending'
  BY DEF Cancel, Idle, NoPending, Pending
<1>5. QED BY <1>1, <1>3, <1>4, NoneAfter DEF KeyChanges!Veto

\* A finish grants the request that has waited.
LEMMA KeysGranted ==
  ASSUME Inv, Inv', NEW s \in Slot, Finish(s), now' = now, ~Moving(s)'
  PROVE  \E r \in OnTheWay : KeyChanges!Grant(r)
<1> DEFINE r == [slot |-> s, key |-> identity[s].custody.next,
                 ready |-> identity[s].since + identity[s].custody.delay]
<1>1. r \in OnTheWay /\ now >= r.ready
  BY DEF Finish, OnTheWay
<1>2. identity \in [Slot -> Identity] /\ identity' = Touched(s, Settled(identity[s].custody.next))
  BY DEF Finish, Inv, TypeOK
<1>3. CredentialOf' = [CredentialOf EXCEPT ![s] = identity[s].custody.next]
  BY <1>2 DEF CredentialOf, Touched, Respent, Settled
<1>4. \A q \in Slot : ~Moving(q)'
  <2>1. \A q \in Slot \ {s} : ~Moving(q)
    BY OnlyPendingMoves DEF Finish
  <2>2. \A q \in Slot \ {s} : identity'[q] = identity[q]
    BY <1>2 DEF Touched
  <2>3. QED BY <2>1, <2>2 DEF Moving
<1>5. OnTheWay' = {}
  BY <1>4 DEF OnTheWay
<1>6. KeyChanges!Grant(r)
  BY <1>1, <1>3, <1>5 DEF KeyChanges!Grant
<1>7. QED BY <1>1, <1>6

\* An identity that has finished is settled.
LEMMA FinishSettles == ASSUME Inv, NEW s \in Slot, Finish(s) PROVE ~Moving(s)'
BY DEF Finish, Moving, Touched, Respent, Settled, Inv, TypeOK

\* Every step is a step of the keys or leaves them alone.
LEMMA KeySteps ==
  ASSUME Inv, Inv', [Next]_vars
  PROVE  KeyChanges!Next \/ UNCHANGED <<now, CredentialOf, OnTheWay>>
<1>1. ASSUME NEW kind \in Kind, NEW s \in Slot, NEW new \in Credential,
             NEW R \in SUBSET Slot, Prepare(kind, s, new, R)
      PROVE  KeyChanges!Next
  BY <1>1, KeysRequested DEF KeyChanges!Next
<1>2. CASE Cancel
  BY <1>2, KeysVetoed DEF KeyChanges!Next
<1>3. ASSUME NEW s \in Slot, Finish(s), now' = now PROVE KeyChanges!Next
  BY <1>3, KeysGranted, FinishSettles DEF KeyChanges!Next
<1>4. CASE Complete
  <2>1. authority.pending.slot \in Slot
    BY DEF Inv, TypeOK
  <2>2. QED BY <1>3, <1>4, <2>1 DEF Complete
<1>5. ASSUME NEW t \in 0 .. MaxTime, Tick(t) PROVE KeyChanges!Next
  <2>1. now' >= now /\ UNCHANGED <<CredentialOf, OnTheWay>>
    BY <1>5, DelayAssumption DEF Tick, Inv, TypeOK, CredentialOf, OnTheWay, Moving
  <2>2. QED BY <2>1 DEF KeyChanges!Next, KeyChanges!Tick
<1>6. CASE UNCHANGED vars
  BY <1>6 DEF vars, CredentialOf, OnTheWay, Moving
<1>7. QED BY <1>1, <1>2, <1>3, <1>4, <1>5, <1>6, KeysOperational DEF Next, FinishAlone

\* At deployment each slot has its credential and nothing is on its way.
LEMMA KeysStart == Init => KeyChanges!Init
<1> SUFFICES ASSUME Init PROVE KeyChanges!Init
  OBVIOUS
<1>1. CredentialOf = Genesis
  BY CredentialAssumption DEF Init, CredentialOf, Settled
<1>2. ~Pending
  BY DEF Init, Pending, NoPending
<1>3. OnTheWay = {}
  BY <1>2, InvInit, NoneOnTheWay
<1>4. QED BY <1>1, <1>3 DEF Init, KeyChanges!Init

\* The authority, with its three identities and whoever finishes them, changes
\* keys as KeyChange says, for all credentials and delays.
THEOREM Refinement == Spec => ImplementsKeyChange
<1>1. Inv /\ Inv' /\ [Next]_vars => [KeyChanges!Next]_(KeyChanges!keyVars)
  BY KeySteps DEF KeyChanges!keyVars
<1>2. QED
  BY KeysStart, <1>1, Invariance, PTL DEF Spec, ImplementsKeyChange, KeyChanges!Spec
=============================================================================
