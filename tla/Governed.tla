------------------------------ MODULE Governed ------------------------------
(***************************************************************************)
(* The tracker, seen as a ballot, next to the two registries it governs:   *)
(* a statutes update is paired with the execution of its bill, a vault     *)
(* version is published on the approval that the execution announces,      *)
(* while the administrators' fast track publishes versions of its own.     *)
(*                                                                         *)
(* A bill is drafted against the registries of some moment and proposed at *)
(* another: draft is what the administrators last prepared.                *)
(***************************************************************************)
EXTENDS Statutes, VersionRegistry

CONSTANTS
  NoBill, MaxTime,
  Asked,    \* bound: the entries whose evidence is asked for
  Content   \* bound: the registry states that bills and approvals name

\* A code bill carries the registry state to publish; seen, which the message
\* lacks, is the state it was drafted from.
VersionBill == [kind : {"vault_version"}, content : VaultVersion, seen : VaultVersion]

Bills == StatuteBill \cup VersionBill

ASSUME GovernedAssumption ==
  /\ NoBill \notin Bills /\ MaxTime \in Nat
  /\ Content \subseteq VaultVersion
  /\ \A e \in Asked : \/ e.kind = "parameter" /\ e.key \in Parameter
                      \/ e.kind \in RecordKind /\ e.key \in Key

VARIABLES draft, now, vote, closed

INSTANCE Ballot WITH Bill <- Bills

vars == <<statutes, evidence, registry, approved, draft, now, vote, closed>>

TypeOK ==
  /\ StatutesTypeOK /\ RegistryTypeOK
  /\ draft \in Bills \cup {NoBill}
  /\ now \in 0 .. MaxTime /\ vote \in Vote
  /\ closed \subseteq Bills

Init ==
  /\ StatutesInit /\ RegistryInit /\ BallotInit
  /\ draft = NoBill

----------------------------------------------------------------------------
ReadStatutes ==
  /\ \/ \E entry \in Asked : EntryEvidence(entry.kind, entry.key)
     \/ \E key \in Key : SolsEvidence(key)
  /\ UNCHANGED <<registry, approved, draft, now, vote, closed>>

\* build_parameter_mutation, build_record_mutation.
DraftStatute(c) ==
  /\ draft' = Mutation(statutes, c)
  /\ UNCHANGED <<statutes, evidence, registry, approved, now, vote, closed>>

\* bill_vault_version: any positive version, as valid as the next one to the
\* driver and to PROPOSE.
DraftVersion(content) ==
  /\ draft' = [kind |-> "vault_version", seen |-> registry, content |-> content]
  /\ UNCHANGED <<statutes, evidence, registry, approved, now, vote, closed>>

\* valid-statute-bill compares the roots of the one table.
WellFormed(b) ==
  b.kind \in Kind => TableOf(b.from, b.kind) # TableOf(b.to, b.kind)

\* PROPOSE, with the authority's approval of the bill.
Propose(deadline) ==
  /\ draft # NoBill /\ WellFormed(draft)
  /\ Begin(draft, deadline)
  /\ UNCHANGED <<statutes, evidence, registry, approved, draft>>

MeetQuorum == Pass /\ UNCHANGED <<statutes, evidence, registry, approved, draft>>

\* Slip: statute-bill-tag forgets the pause, so that its bill has no dispatch.
DispatchedButPause(b) ==
  \/ b.kind \in Kind \ {"pause"} /\ Update(b) /\ UNCHANGED registryVars
  \/ b.kind \in Kind \ {"pause"} /\ UNCHANGED <<statutesVars, registryVars>>
  \/ b.kind = "vault_version" /\ Approve("RT", b.content) /\ UNCHANGED <<statutesVars, registry>>

\* dispatch_bill: a message that the statutes, or any other coin, may receive, or an
\* announcement for the registry.
Dispatched(b) ==
  \/ b.kind \in Kind /\ Update(b) /\ UNCHANGED registryVars
  \/ b.kind \in Kind /\ UNCHANGED <<statutesVars, registryVars>>
  \/ b.kind = "vault_version" /\ Approve("RT", b.content) /\ UNCHANGED <<statutesVars, registry>>

Execute == Close(TRUE) /\ Dispatched(vote.bill) /\ UNCHANGED draft

Expire == Close(FALSE) /\ UNCHANGED <<statutesVars, registryVars, draft>>

AuthorityApproves ==
  /\ \E content \in Content : AdminApprove(content)
  /\ UNCHANGED <<statutesVars, draft, now, vote, closed>>

PublishParams ==
  /\ \E a \in approved : FastTrack(a.content)
  /\ UNCHANGED <<statutesVars, draft, now, vote, closed>>

PublishCode ==
  /\ \E a \in approved : Routine(a.content)
  /\ UNCHANGED <<statutesVars, draft, now, vote, closed>>

NextBlock(t) ==
  /\ BallotNextBlock(t)
  /\ evidence' = {} /\ approved' = {}
  /\ UNCHANGED <<statutes, registry, draft>>

Next ==
  \/ ReadStatutes
  \/ \E c \in Change : DraftStatute(c)
  \/ \E content \in Content : DraftVersion(content)
  \/ \E deadline \in 0 .. MaxTime : Propose(deadline)
  \/ MeetQuorum \/ Execute \/ Expire
  \/ AuthorityApproves \/ PublishParams \/ PublishCode
  \/ \E t \in 0 .. MaxTime : NextBlock(t)

Spec == Init /\ [][Next]_vars

\* Blocks follow each other, and anyone may end a vote: neither needs a signature.
FairSpec ==
  /\ Spec
  /\ WF_vars(\E t \in 0 .. MaxTime : NextBlock(t))
  /\ WF_vars(Execute) /\ WF_vars(Expire)

----------------------------------------------------------------------------
\* Every table can be opened: no sequence of one-entry updates leaves one that its
\* own witness check refuses, after which the registry could not be spent for it.
TablesValid ==
  /\ ValidTable("parameter", statutes.parameters)
  /\ \A kind \in RecordKind : ValidTable(kind, statutes.records[kind])

\* Evidence of the current version is what the tables hold, whatever updates came
\* between its announcement and now: a version is one state.
EvidenceIsCurrent ==
  \A e \in evidence : e.version = statutes.version =>
    \/ /\ e.case = "SOLV"
       /\ e.parameters = statutes.parameters
       /\ e.key \in DOMAIN statutes.records["collection"]
       /\ e.collection = statutes.records["collection"][e.key]
    \/ /\ e.case = "STEV" /\ e.kind = "parameter"
       /\ e.entry.value = statutes.parameters[e.key]
    \/ /\ e.case = "STEV" /\ e.kind # "parameter"
       /\ e.key \in DOMAIN statutes.records[e.kind]
       /\ e.entry = statutes.records[e.kind][e.key]

\* A code bill drafted for the version after the one it saw can be published only
\* while nothing else was: a fast track that came between makes it void rather than
\* undone by it.  A bill drafted for a later version has no such protection.
VersionNamesState ==
  \A b \in {vote.bill, draft} \cap VersionBill :
    b.content.version \in {b.seen.version + 1} \cap {registry.version + 1} =>
      b.seen = registry

\* An update changes one entry and the fee must equal its shares before and after:
\* no vote changes the fee or its split.
FeesFrozen ==
  [][\A p \in {"exchange_fee_bps", "protocol_fee_bps", "sgt_rewards_fee_bps"} :
       statutes'.parameters[p] = statutes.parameters[p]]_vars

\* The vault code changes only to that of a bill that ended in this block, never by
\* the administrators' approvals, and a bill for the version after the one it was
\* drafted from replaces the very state its drafter saw.
CodeIsRatified ==
  [][registry'.code # registry.code =>
       \E b \in closed \cap VersionBill :
         /\ b.content = registry'
         /\ b.content.version = b.seen.version + 1 => b.seen = registry]_vars

\* Every bill of the statutes or of a vault version is executed or expires, the bill
\* that its registry has overtaken included: no coin has to take its message.
BillsConclude == VoteOpen ~> ~VoteOpen
=============================================================================
