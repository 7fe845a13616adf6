-------------------------------- MODULE Mint --------------------------------
(***************************************************************************)
(* Minting a deed: the proposal singleton (mint_proposal_inner_v2.clsp),   *)
(* the property registry (property_registry_inner.clsp), the protocol DID  *)
(* (quorum_did_inner.clsp) and the deed's launcher                         *)
(* (singleton_launcher_with_did.clsp), next to the tracker seen as a       *)
(* ballot, with the bundles of mint_publish_driver.py.                     *)
(*                                                                         *)
(* A step is one spend inside the block being built.  EXECUTE and the DID  *)
(* are paired by a message and are one step; registration, launch and the  *)
(* proposal's EXECUTE assert announcements and may be missing or come for  *)
(* reasons of their own.  A deed is also its launcher coin, its full       *)
(* puzzle hash and its proposal.                                           *)
(***************************************************************************)
EXTENDS Integers, Sequences, Functions

CONSTANTS
  Deed,        \* the deeds that are ever published
  Property,    \* canonical property ids
  PropertyOf,  \* the property each deed is a share of
  NoBill, MaxTime

\* registered_ids; the code keeps the newest first, here it is last.
Ids == Seq(Property)

\* A MINT bill: the deed, its property and the registry state that registers it.
MintBill == [deed : Deed, ids : Ids]

ASSUME MintAssumption ==
  /\ PropertyOf \in [Deed -> Property]
  /\ NoBill \notin MintBill /\ MaxTime \in Nat

VARIABLES
  proposal,  \* per deed, the proposal's state and the registry its bill names
  launcher,  \* per deed, its launcher coin
  registry,  \* the registered ids
  block,     \* announcements of this block: registrations, deeds the DID admits,
             \* and launchers that were spent on their own deed
  now, vote, closed

INSTANCE Ballot WITH Bill <- MintBill

vars == <<proposal, launcher, registry, block, now, vote, closed>>

ProposalState == {"none", "draft", "approved", "cancelled", "executed"}

\* A launcher that is spent on another deed's puzzle hash launches nothing.
LauncherState == {"none", "waiting", "launched", "wasted"}

Registration == [ids : Ids, property : Property]

EmptyBlock == [registered |-> {}, admitted |-> {}, launched |-> {}]

\* The type invariant.
TypeOK ==
  /\ proposal \in [Deed -> [state : ProposalState, ids : Ids]]
  /\ launcher \in [Deed -> LauncherState]
  /\ registry \in Ids
  /\ block \in [registered : SUBSET Registration, admitted : SUBSET Deed,
                launched : SUBSET Deed]
  /\ now \in 0 .. MaxTime /\ vote \in Vote /\ closed \subseteq MintBill

Init ==
  /\ BallotInit
  /\ proposal = [d \in Deed |-> [state |-> "none", ids |-> <<>>]]
  /\ launcher = [d \in Deed |-> "none"]
  /\ registry = <<>>
  /\ block = EmptyBlock

BillOf(d) == [deed |-> d, ids |-> proposal[d].ids]

----------------------------------------------------------------------------
\* The publish bundle: the proposal in DRAFT, the deed's launcher coin, and
\* PROPOSE of the bill that names the present registry.
Publish(d, deadline) ==
  /\ proposal[d].state = "none"
  /\ Begin([deed |-> d, ids |-> registry], deadline)
  /\ proposal' = [proposal EXCEPT ![d] = [state |-> "draft", ids |-> registry]]
  /\ launcher' = [launcher EXCEPT ![d] = "waiting"]
  /\ UNCHANGED <<registry, block>>

\* PROPOSE alone: the bill once more, or one for the registry of today.  The
\* proposal goes on naming the bill it was published with.
ProposeAgain(d, ids, deadline) ==
  /\ proposal[d].state # "none"
  /\ ids \in {proposal[d].ids, registry}
  /\ Begin([deed |-> d, ids |-> ids], deadline)
  /\ UNCHANGED <<proposal, launcher, registry, block>>

MeetQuorum == Pass /\ UNCHANGED <<proposal, launcher, registry, block>>

Expire == Close(FALSE) /\ UNCHANGED <<proposal, launcher, registry, block>>

\* Slip: an id that is registered may be registered again.
RegisterAgain(q) ==
  /\ Len(registry) < 4
  /\ registry' = Append(registry, q)
  /\ block' = [block EXCEPT !.registered = @ \cup {[ids |-> registry, property |-> q]}]
  /\ UNCHANGED <<proposal, launcher, now, vote, closed>>

\* A registration, signed by the registry's key, for a mint or without one.
Register(q) ==
  /\ q \notin Range(registry)
  /\ registry' = Append(registry, q)
  /\ block' = [block EXCEPT !.registered = @ \cup {[ids |-> registry, property |-> q]}]
  /\ UNCHANGED <<proposal, launcher, now, vote, closed>>

\* Slip: the property must be registered, in whatever block.
ExecuteRegistered ==
  /\ Close(TRUE)
  /\ PropertyOf[vote.bill.deed] \in Range(registry)
  /\ block' = [block EXCEPT !.admitted = @ \cup {vote.bill.deed}]
  /\ UNCHANGED <<proposal, launcher, registry>>

\* EXECUTE with the DID, which announces the deed; it asserts that the registry
\* named by the bill registers the property in this block.
Execute ==
  /\ Close(TRUE)
  /\ [ids |-> vote.bill.ids, property |-> PropertyOf[vote.bill.deed]] \in block.registered
  /\ block' = [block EXCEPT !.admitted = @ \cup {vote.bill.deed}]
  /\ UNCHANGED <<proposal, launcher, registry>>

\* The launcher asks no key: its spender names a deed the DID has announced.
\* The proposal waits for a launcher's announcement of its own deed.
Launch(l, d) ==
  /\ launcher[l] = "waiting"
  /\ d \in block.admitted
  /\ launcher' = [launcher EXCEPT ![l] = IF l = d THEN "launched" ELSE "wasted"]
  /\ block' = [block EXCEPT !.launched = IF l = d THEN @ \cup {d} ELSE @]
  /\ UNCHANGED <<proposal, registry, now, vote, closed>>

\* All transitions leave DRAFT and there is no way back.
Transition(d, state) ==
  /\ proposal[d].state = "draft"
  /\ proposal' = [proposal EXCEPT ![d].state = state]
  /\ UNCHANGED <<launcher, registry, block, now, vote, closed>>

\* APPROVE, signed by the governance member.
Approve(d) == Transition(d, "approved")

\* CANCEL, signed by the owner.
Cancel(d) == Transition(d, "cancelled")

\* Slip: the tracker's announcement is taken for an execution.
ExecuteUnlaunched(d) ==
  /\ BillOf(d) \in closed
  /\ Transition(d, "executed")

\* EXECUTE: the end of the proposal's bill and the launch of its deed were
\* announced in this block.
ExecuteProposal(d) ==
  /\ BillOf(d) \in closed
  /\ d \in block.launched
  /\ Transition(d, "executed")

NextBlock(t) ==
  /\ BallotNextBlock(t)
  /\ block' = EmptyBlock
  /\ UNCHANGED <<proposal, launcher, registry>>

Next ==
  \/ \E d \in Deed, t \in 0 .. MaxTime :
       \/ Publish(d, t)
       \/ \E ids \in {proposal[d].ids, registry} : ProposeAgain(d, ids, t)
  \/ MeetQuorum
  \/ Expire
  \/ \E q \in Property : Register(q)
  \/ Execute
  \/ \E l, d \in Deed : Launch(l, d)
  \/ \E d \in Deed : Approve(d) \/ Cancel(d) \/ ExecuteProposal(d)
  \/ \E t \in 0 .. MaxTime : NextBlock(t)

Spec == Init /\ [][Next]_vars

----------------------------------------------------------------------------
\* However often a property is published and voted on, the deeds that exist are
\* of registered properties, one of each.
OneDeedPerProperty ==
  \A d \in Deed :
    launcher[d] = "launched" =>
      /\ PropertyOf[d] \in Range(registry)
      /\ \A e \in Deed \ {d} :
           launcher[e] = "launched" => PropertyOf[e] # PropertyOf[d]

\* The registry was in state ids when property q was registered.
Recorded(ids, q) ==
  /\ Len(ids) < Len(registry)
  /\ registry[Len(ids) + 1] = q
  /\ \A i \in 1 .. Len(ids) : registry[i] = ids[i]

\* The tracker announces the end of a bill in the same words whether it passed or
\* not; a proposal is EXECUTED all the same only if the vote on its own bill
\* registered its property and its deed exists.
ExecutedWasVoted ==
  \A d \in Deed :
    proposal[d].state = "executed" =>
      launcher[d] = "launched" /\ Recorded(proposal[d].ids, PropertyOf[d])

\* A deed comes into being in the block that registers its property or never: a
\* bundle that left the launcher out cannot be completed later.
MintedOnRegistration ==
  [][\A d \in Deed :
       launcher[d] # "launched" /\ launcher'[d] = "launched" =>
         \E r \in block.registered : r.property = PropertyOf[d]]_vars
=============================================================================
