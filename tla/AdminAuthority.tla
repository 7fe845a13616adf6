--------------------------- MODULE AdminAuthority ---------------------------
(***************************************************************************)
(* The administrators' authority (admin_authority_v4_inner.clsp) and the   *)
(* three identity singletons whose keys it governs, with the custody       *)
(* policies admin_authority_v3_driver.py builds for them.                  *)
(*                                                                         *)
(* The authority is spent together with identities: operational spends by  *)
(* slot 0 and one of slots 1 and 2, a key change by the same pair or, when *)
(* the daily key is lost, by the two other slots.  A key change moves one  *)
(* identity to an intermediate custody, from which the old daily key goes  *)
(* back (cancel) and anyone goes on once the delay is over (finish).       *)
(*                                                                         *)
(* Messages pair the spends of one bundle, so a bundle is one step.  The   *)
(* finish spend of an identity neither sends nor receives a message: it is *)
(* valid inside the authority's COMPLETE bundle and by itself.             *)
(* Signatures are given whenever they are asked for, and bundles are those *)
(* the driver builds.                                                      *)
(***************************************************************************)
EXTENDS Integers, FiniteSets

CONSTANTS
  Credential,     \* a daily key and a recovery key
  NoCredential,   \* not a credential
  Genesis,        \* the credential of each slot at deployment
  RoutineDelay,   \* ROUTINE_DELAY_SECONDS
  LostDelay,      \* LOST_KEY_DELAY_SECONDS
  MaxTime,        \* bound: the clock stops here and no delay ends later
  MaxVersion      \* bound on the version at which spends are still begun

Slot == 0 .. 2

Kind == {"routine", "lost", "kit"}

ASSUME CredentialAssumption == NoCredential \notin Credential /\ Genesis \in [Slot -> Credential]

ASSUME DelayAssumption ==
  /\ RoutineDelay \in Nat \ {0} /\ LostDelay \in Nat \ {0}
  /\ MaxTime \in Nat /\ MaxVersion \in Nat

VARIABLES
  now,        \* timestamp the time conditions compare with
  authority,  \* curried state of the authority, and when its coin was made
  identity    \* custody, coin and age of each identity

vars == <<now, authority, identity>>

----------------------------------------------------------------------------
\* A custody root: settled on cred, or on its way from cred to next.
Custody == [cred : Credential, next : Credential \cup {NoCredential}, delay : Nat]

Settled(c) == [cred |-> c, next |-> NoCredential, delay |-> 0]

\* Slip: every intermediate custody is timelocked for the routine delay.
RoutineTimelock(c, n, d) == [cred |-> c, next |-> n, delay |-> RoutineDelay]

\* 1-of-2: the old daily path, or the completion member after the delay.
Intermediate(c, n, d) == [cred |-> c, next |-> n, delay |-> d]

Moving(s) == identity[s].custody.next # NoCredential

NoPending ==
  [kind |-> "none", slot |-> 0, coin |-> 0, original |-> NoCredential,
   replacement |-> NoCredential, delay |-> 0]

DelayOf(kind) == IF kind = "lost" THEN LostDelay ELSE RoutineDelay

PendingChange ==
  {p \in [kind : Kind, slot : Slot, coin : Nat, original : Custody, replacement : Custody,
          delay : Nat] :
     p.delay = DelayOf(p.kind)}

Authority == [custody : [Slot -> Custody], version : Nat, since : 0 .. MaxTime,
              pending : PendingChange \cup {NoPending}]

Identity == [custody : Custody, coin : Nat, since : 0 .. MaxTime]

\* The type invariant: an idle authority's pending fields are a change's zeros.
TypeOK ==
  /\ now \in 0 .. MaxTime
  /\ authority \in Authority
  /\ authority.pending.slot \in Slot
  /\ identity \in [Slot -> Identity]

Pending == authority.pending.kind # "none"

\* What the driver lets a change of each kind replace.
Allowed(kind, old, new) ==
  CASE kind = "routine" -> new.daily # old.daily /\ new.recovery = old.recovery
    [] kind = "kit"     -> new.daily = old.daily /\ new.recovery # old.recovery
    [] kind = "lost"    -> new.daily # old.daily

\* valid-prepare-records: the pairs of slots that may approve a change of slot s.
Approvers(kind, s) ==
  {R \in SUBSET Slot :
     /\ Cardinality(R) = 2
     /\ IF kind = "lost" THEN s \notin R ELSE 0 \in R /\ s \in R}

\* The policies of the authority's four roots: slot 0 with one of the others,
\* and for each lost key the two other slots.
operational_policy == {{0, co} : co \in {1, 2}}

lost_recovery_policy(s) == {Slot \ {s}}

\* The message to an identity is addressed to the custody the authority recorded.
Addressed(s) == identity[s].custody = authority.custody[s]

\* The identities the driver builds a proof from are those of the authority's record.
CurrentIdentities == \A s \in Slot : Addressed(s)

\* The pairs it can prove to the root of an operational spend, and of a change.
build_authority_operational_mips_spend ==
  {R \in operational_policy : ~Pending /\ CurrentIdentities}

build_authority_prepare_mips_spend(kind, s) ==
  {R \in IF kind = "lost" THEN lost_recovery_policy(s)
          ELSE {Q \in operational_policy : s \in Q} : CurrentIdentities}

\* The two ways into an identity's custody: the daily key with the authority's
\* message, which a custody on its way has as well, and the recovery key.
DailyPath(s) == Addressed(s)

RecoveryPath(s) == ~Moving(s)

\* The coin of slot s is spent and made again with this custody.
Respent(s, custody) == [custody |-> custody, coin |-> identity[s].coin + 1, since |-> now]

Touched(s, custody) == [identity EXCEPT ![s] = Respent(s, custody)]

\* An authority spend that leaves nothing pending.
Idle(custody) ==
  [custody |-> custody, version |-> authority.version + 1, since |-> now,
   pending |-> NoPending]

MayBegin == authority.version < MaxVersion

\* An identity approves: the daily path, and the same custody again.
build_identity_approval_solution(s) == DailyPath(s)

\* So it does for an operational spend, which a pending change forbids.
build_identity_operational_solution(s) == ~Pending /\ DailyPath(s)

\* The identity that changes is spent by its daily key, or its lost key's by the
\* recovery key.
build_routine_identity_prepare_solution(kind, s) == kind \in {"routine", "kit"} /\ DailyPath(s)

build_lost_recovery_identity_solution(kind, s) == kind = "lost" /\ RecoveryPath(s)

\* The old daily key vetoes from the coin the authority is pending on.
build_identity_cancel_solution(p) == DailyPath(p.slot) /\ identity[p.slot].coin = p.coin

\* What the finish of a change announces and the authority's COMPLETE asserts.
completion_message(original, replacement, delay) ==
  [original |-> original, replacement |-> replacement, delay |-> delay]

----------------------------------------------------------------------------
Init ==
  /\ now = 0
  /\ authority = [custody |-> [s \in Slot |-> Settled(Genesis[s])], version |-> 1,
                  since |-> 0, pending |-> NoPending]
  /\ identity = [s \in Slot |-> [custody |-> Settled(Genesis[s]), coin |-> 0, since |-> 0]]

\* Slip: a pending change does not freeze the authority.
UnfrozenOperational(co) ==
  /\ MayBegin
  /\ Addressed(0) /\ Addressed(co)
  /\ authority' = [authority EXCEPT !.version = @ + 1, !.since = now]
  /\ identity' = [s \in Slot |-> IF s \in {0, co} THEN Respent(s, authority.custody[s])
                                                  ELSE identity[s]]
  /\ UNCHANGED now

\* OPERATIONAL: slot 0 and co act; their custodies stay.
Operational(co) ==
  /\ MayBegin
  /\ {0, co} \in build_authority_operational_mips_spend
  /\ \A s \in {0, co} : build_identity_operational_solution(s)
  /\ authority' = Idle(authority.custody)
  /\ identity' = [s \in Slot |-> IF s \in {0, co} THEN Respent(s, authority.custody[s])
                                                  ELSE identity[s]]
  /\ UNCHANGED now

\* What the driver asks before it builds a change of slot s to new.
CanChange(kind, s, new) ==
  /\ ~Pending
  /\ Addressed(s) /\ ~Moving(s)
  /\ Allowed(kind, authority.custody[s].cred, new)

\* The custody a change passes through, and the pending fields it commits to.
Between(kind, s, new) == Intermediate(authority.custody[s].cred, new, DelayOf(kind))

Change(kind, s, new) ==
  [kind |-> kind, slot |-> s, coin |-> identity[s].coin + 1,
   original |-> authority.custody[s], replacement |-> Settled(new), delay |-> DelayOf(kind)]

\* PREPARE_ROUTINE, _LOST and _KIT: the slots R approve the change of slot s.
Prepare(kind, s, new, R) ==
  /\ MayBegin
  /\ now + DelayOf(kind) <= MaxTime
  /\ CanChange(kind, s, new)
  /\ R \in Approvers(kind, s) \cap build_authority_prepare_mips_spend(kind, s)
  /\ \A r \in R \ {s} : build_identity_approval_solution(r)
  /\ \/ build_routine_identity_prepare_solution(kind, s)
     \/ build_lost_recovery_identity_solution(kind, s)
  /\ authority' =
       [custody |-> [authority.custody EXCEPT ![s] = Between(kind, s, new)],
        version |-> authority.version + 1, since |-> now, pending |-> Change(kind, s, new)]
  /\ identity' = [r \in Slot |-> IF r = s THEN Respent(r, Between(kind, s, new))
                                 ELSE IF r \in R THEN Respent(r, authority.custody[r])
                                 ELSE identity[r]]
  /\ UNCHANGED now

\* Slip: the authority goes on expecting the intermediate custody.
CancelKeepsMirror ==
  LET p == authority.pending
  IN /\ Pending
     /\ Addressed(p.slot) /\ identity[p.slot].coin = p.coin
     /\ authority' = Idle(authority.custody)
     /\ identity' = Touched(p.slot, p.original)
     /\ UNCHANGED now

\* CANCEL: the old daily key restores the original custody.
Cancel ==
  LET p == authority.pending
  IN /\ Pending
     /\ build_identity_cancel_solution(p)
     /\ authority' = Idle([authority.custody EXCEPT ![p.slot] = p.original])
     /\ identity' = Touched(p.slot, p.original)
     /\ UNCHANGED now

\* Slip: the completion member has no delay.
UndelayedFinish(s) ==
  /\ Moving(s)
  /\ identity' = Touched(s, Settled(identity[s].custody.next))

\* Slip: the identity waits for the authority to have installed the key first.
WaitingFinish(s) ==
  /\ Moving(s)
  /\ now >= identity[s].since + identity[s].custody.delay
  /\ authority.custody[s] = Settled(identity[s].custody.next)
  /\ identity' = Touched(s, Settled(identity[s].custody.next))

\* admin_identity_terminal_action_v1: the identity spend that installs the new key.
Finish(s) ==
  /\ Moving(s)
  /\ now >= identity[s].since + identity[s].custody.delay
  /\ identity' = Touched(s, Settled(identity[s].custody.next))

\* The message curried into the completion member of an identity on its way.
Announced(s) ==
  LET c == identity[s].custody
  IN completion_message(Settled(c.cred), Settled(c.next), c.delay)

\* COMPLETE: together with the finish of the pending coin.
Complete ==
  LET p == authority.pending
  IN /\ Pending
     /\ now >= authority.since + p.delay
     /\ identity[p.slot].coin = p.coin
     /\ Finish(p.slot)
     /\ Announced(p.slot) = completion_message(p.original, p.replacement, p.delay)
     /\ authority' = Idle([authority.custody EXCEPT ![p.slot] = p.replacement])
     /\ UNCHANGED now

\* The finish in a bundle without the authority.
FinishAlone(s) == Finish(s) /\ UNCHANGED <<now, authority>>

\* A later block; at the bound the clock stands still.
Tick(t) ==
  /\ t > now \/ t = MaxTime
  /\ now' = t
  /\ UNCHANGED <<authority, identity>>

Next ==
  \/ \E co \in {1, 2} : Operational(co)
  \/ \E kind \in Kind, s \in Slot, new \in Credential :
       \E R \in SUBSET Slot : Prepare(kind, s, new, R)
  \/ Cancel
  \/ Complete
  \/ \E s \in Slot : FinishAlone(s)
  \/ \E t \in 0 .. MaxTime : Tick(t)

Spec == Init /\ [][Next]_vars

\* Blocks keep coming, and what anyone may spend is not put off for ever.
Fairness ==
  /\ WF_vars(\E t \in 0 .. MaxTime : Tick(t))
  /\ WF_vars(Complete)
  /\ \A s \in Slot : WF_vars(FinishAlone(s))

\* As above, except that no one need finish an identity by itself.
CompletionFairness == WF_vars(\E t \in 0 .. MaxTime : Tick(t)) /\ WF_vars(Complete)

FairSpec == Spec /\ Fairness

CompletionSpec == Spec /\ CompletionFairness

----------------------------------------------------------------------------
\* The authority's record of a custody is that of the live identity coin.  Only
\* the pending slot may differ, and then by having finished ahead of it.
Mirror ==
  \A s \in Slot :
    \/ identity[s].custody = authority.custody[s]
    \/ /\ Pending /\ s = authority.pending.slot
       /\ identity[s].custody = authority.pending.replacement

\* Throughout the committed delay the old daily key can veto: the pending coin
\* is unspent and the authority addresses its custody.
VetoOpen ==
  LET p == authority.pending
  IN Pending /\ now < authority.since + p.delay =>
       /\ identity[p.slot].coin = p.coin
       /\ Addressed(p.slot)
       /\ identity[p.slot].custody.cred = p.original.cred

\* A pending change freezes the administrators: no other identity is spent until
\* it is over.
HoldOthers ==
  \A s \in Slot : Pending /\ s # authority.pending.slot => identity'[s] = identity[s]

OthersHeld == [][HoldOthers]_vars

\* The identities' keys, and the changes that are on their way, promise what
\* KeyChange says: the authority's records say nothing else of them.
CredentialOf == [s \in Slot |-> identity[s].custody.cred]

OnTheWay ==
  {[slot |-> s, key |-> identity[s].custody.next,
    ready |-> identity[s].since + identity[s].custody.delay] : s \in {r \in Slot : Moving(r)}}

KeyChanges == INSTANCE KeyChange WITH keys <- CredentialOf, request <- OnTheWay

\* A key changes only into the one its identity has been on its way to for the
\* whole delay of that kind of change, and one identity at a time is.
ImplementsKeyChange == KeyChanges!Spec

\* An identity in an intermediate custody leaves it.
IdentitySettles == \A s \in Slot : Moving(s) ~> ~Moving(s)

\* The header of admin_authority_v4_inner.clsp: after the committed delay,
\* completion is permissionless.  So a pending change ends.
PendingResolves == Pending ~> ~Pending
=============================================================================
