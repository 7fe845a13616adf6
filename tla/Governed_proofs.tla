--------------------------- MODULE Governed_proofs ---------------------------
(***************************************************************************)
(* Proofs about Governed: types, the validity of the tables, what evidence *)
(* and code bills name, and what no vote changes.                          *)
(***************************************************************************)
EXTENDS Governed, TLAPS

----------------------------------------------------------------------------
(* The change of one entry.                                                *)

\* Inserting into a table of records keeps it one.
LEMMA UpsertedRecords ==
  ASSUME NEW t \in UNION {[K -> Record] : K \in SUBSET Key}, NEW key \in Key,
         NEW r \in Record
  PROVE  Upserted(t, key, r) \in UNION {[K -> Record] : K \in SUBSET Key}
<1>1. PICK K \in SUBSET Key : t \in [K -> Record]  OBVIOUS
<1>2. Upserted(t, key, r) \in [K \cup {key} -> Record]  BY <1>1 DEF Upserted
<1>3. K \cup {key} \in SUBSET Key  OBVIOUS
<1> QED  BY <1>2, <1>3

\* Replacing a parameter keeps the table of parameters one.
LEMMA UpsertedParameters ==
  ASSUME NEW p \in [Parameter -> Nat], NEW key \in Parameter, NEW n \in Nat
  PROVE  Upserted(p, key, n) \in [Parameter -> Nat]
<1>1. DOMAIN p \cup {key} = Parameter  OBVIOUS
<1> QED  BY <1>1 DEF Upserted

\* A change of a state is a state of the next version.
LEMMA MutatedType ==
  ASSUME NEW s \in StatutesState, NEW c \in Change
  PROVE  Mutated(s, c) \in StatutesState /\ Mutated(s, c).version = s.version + 1
<1>0. /\ s.parameters \in [Parameter -> Nat]
      /\ s.records \in [RecordKind -> UNION {[K -> Record] : K \in SUBSET Key}]
      /\ s.version \in Nat \ {0}
  BY DEF StatutesState
<1>1. CASE c.kind = "parameter"
  <2>1. c.key \in Parameter /\ c.entry.value \in Nat  BY <1>1, ChangeAssumption
  <2>2. Upserted(s.parameters, c.key, c.entry.value) \in [Parameter -> Nat]
    BY <1>0, <2>1, UpsertedParameters
  <2> DEFINE p == Upserted(s.parameters, c.key, c.entry.value)
  <2>3. Mutated(s, c) = [parameters |-> p, records |-> s.records, version |-> s.version + 1]
    BY <1>1 DEF Mutated, StatutesState
  <2> HIDE DEF p
  <2>4. s.version + 1 \in Nat \ {0}  BY <1>0
  <2> QED  BY <1>0, <2>2, <2>3, <2>4 DEF StatutesState, p
<1>2. CASE c.kind # "parameter"
  <2>1. c.key \in Key /\ c.kind \in RecordKind /\ c.entry \in Record
    BY <1>2, ChangeAssumption DEF Kind, Record
  <2>2. s.records[c.kind] \in UNION {[K -> Record] : K \in SUBSET Key}
    BY <1>0, <2>1
  <2>3. Upserted(s.records[c.kind], c.key, c.entry) \in UNION {[K -> Record] : K \in SUBSET Key}
    BY <2>1, <2>2, UpsertedRecords
  <2> DEFINE u == Upserted(s.records[c.kind], c.key, c.entry)
             rs == [s.records EXCEPT ![c.kind] = u]
  <2>4. Mutated(s, c) = [parameters |-> s.parameters, records |-> rs,
                         version |-> s.version + 1]
    BY <1>2 DEF Mutated, StatutesState
  <2> HIDE DEF u
  <2>5. rs \in [RecordKind -> UNION {[K -> Record] : K \in SUBSET Key}]
    BY <1>0, <2>1, <2>3 DEF u
  <2> HIDE DEF rs
  <2>6. s.version + 1 \in Nat \ {0}  BY <1>0
  <2> QED  BY <1>0, <2>4, <2>5, <2>6 DEF StatutesState
<1> QED  BY <1>1, <1>2

\* A change leaves the tables of the other kinds alone.
LEMMA MutatedOthers ==
  ASSUME NEW s \in StatutesState, NEW c \in Change, NEW kind \in Kind, kind # c.kind
  PROVE  TableOf(Mutated(s, c), kind) = TableOf(s, kind)
<1>1. c.kind \in Kind  BY ChangeAssumption
<1>2. s.records \in [RecordKind -> UNION {[K -> Record] : K \in SUBSET Key}]
  BY DEF StatutesState
<1> QED  BY <1>1, <1>2 DEF Mutated, TableOf, StatutesState, Kind, RecordKind

----------------------------------------------------------------------------
(* Type correctness.                                                       *)

\* The steps that read, draft or approve.
LEMMA DraftsType ==
  ASSUME TypeOK,
         \/ ReadStatutes
         \/ \E c \in Change : DraftStatute(c)
         \/ \E content \in Content : DraftVersion(content)
         \/ AuthorityApproves
  PROVE  TypeOK'
<1> USE DEF TypeOK, StatutesTypeOK, RegistryTypeOK
<1>1. CASE \E e \in Asked : EntryEvidence(e.kind, e.key) /\ UNCHANGED <<registry, approved, draft, now, vote, closed>>
  <2>1. PICK e \in Asked : EntryEvidence(e.kind, e.key)  BY <1>1
  <2>2. CASE e.kind = "parameter"
    <3>1. e.key \in Parameter  BY <2>2, GovernedAssumption DEF RecordKind
    <3>2. statutes.parameters[e.key] \in Nat /\ statutes.version \in Nat
      BY <3>1 DEF StatutesState
    <3> DEFINE e1 == [case |-> "STEV", kind |-> "parameter", key |-> e.key,
                      version |-> statutes.version,
                      entry |-> [value |-> statutes.parameters[e.key]]]
    <3>3. e1 \in Evidence  BY <3>1, <3>2 DEF Evidence
    <3>4. evidence' = evidence \cup {e1} /\ UNCHANGED statutes
      BY <2>1, <2>2 DEF EntryEvidence, Announce, TableOf
    <3> QED  BY <1>1, <3>3, <3>4
  <2>3. CASE e.kind # "parameter"
    <3>1. e.kind \in RecordKind /\ e.key \in Key  BY <2>3, GovernedAssumption
    <3>2. e.key \in DOMAIN statutes.records[e.kind]
      BY <2>1, <2>3 DEF EntryEvidence, TableOf
    <3>3. statutes.records[e.kind][e.key] \in Record /\ statutes.version \in Nat
      BY <3>1, <3>2 DEF StatutesState
    <3> QED  BY <1>1, <2>1, <2>3, <3>1, <3>3 DEF EntryEvidence, Announce, Evidence, TableOf
  <2> QED  BY <2>2, <2>3
<1>2. CASE \E key \in Key : SolsEvidence(key) /\ UNCHANGED <<registry, approved, draft, now, vote, closed>>
  <2>1. PICK key \in Key : SolsEvidence(key)  BY <1>2
  <2> DEFINE pauses == statutes.records["pause"]
             ps == {pauses[k] : k \in {key} \cap DOMAIN pauses}
             col == statutes.records["collection"]
  <2>2. /\ pauses \in UNION {[K -> Record] : K \in SUBSET Key}
        /\ col \in UNION {[K -> Record] : K \in SUBSET Key}
        /\ statutes.parameters \in [Parameter -> Nat] /\ statutes.version \in Nat
    BY DEF StatutesState, RecordKind
  <2>3. ps \subseteq Record  BY <2>2
  <2>4. col[key] \in Record  BY <2>1, <2>2 DEF SolsEvidence
  <2>5. [case |-> "SOLV", key |-> key, parameters |-> statutes.parameters,
         collection |-> col[key], pauses |-> ps, version |-> statutes.version] \in Evidence
    BY <2>2, <2>3, <2>4 DEF Evidence
  <2> QED  BY <1>2, <2>1, <2>5 DEF SolsEvidence, Announce
<1>3. ASSUME NEW c \in Change, DraftStatute(c)
      PROVE  TypeOK'
  <2>1. Mutated(statutes, c) \in StatutesState  BY MutatedType
  <2>2. Mutation(statutes, c) \in StatuteBill
    BY <2>1, ChangeAssumption DEF Mutation, StatuteBill
  <2> QED  BY <1>3, <2>2 DEF DraftStatute, Bills
<1>4. ASSUME NEW content \in Content, DraftVersion(content)
      PROVE  TypeOK'
  <2>1. content \in VaultVersion  BY GovernedAssumption
  <2>2. draft' \in VersionBill
    BY <1>4, <2>1 DEF DraftVersion, VersionBill
  <2> QED  BY <1>4, <2>2 DEF DraftVersion, Bills
<1>5. CASE AuthorityApproves
  <2>1. PICK content \in Content : AdminApprove(content)
    BY <1>5 DEF AuthorityApproves
  <2>2. content \in VaultVersion  BY GovernedAssumption
  <2>3. [path |-> "FT", content |-> content] \in Approval  BY <2>2 DEF Approval
  <2> QED  BY <1>5, <2>1, <2>3 DEF AuthorityApproves, AdminApprove, Approve, statutesVars
<1> QED  BY <1>1, <1>2, <1>3, <1>4, <1>5 DEF ReadStatutes

\* What an executed bill does to the registries.
LEMMA DispatchedType ==
  ASSUME TypeOK, NEW b \in Bills, Dispatched(b)
  PROVE  /\ StatutesTypeOK' /\ RegistryTypeOK'
<1> USE DEF TypeOK, StatutesTypeOK, RegistryTypeOK
<1>1. CASE b.kind \in Kind /\ Update(b) /\ UNCHANGED registryVars
  <2>1. b \in StatuteBill  BY <1>1 DEF Bills, VersionBill, Kind, RecordKind
  <2>2. b.to \in StatutesState  BY <2>1 DEF StatuteBill
  <2> QED  BY <1>1, <2>2 DEF Update, registryVars
<1>2. CASE b.kind = "vault_version" /\ Approve("RT", b.content) /\ UNCHANGED <<statutesVars, registry>>
  <2>1. b \in VersionBill  BY <1>2 DEF Bills, StatuteBill, Kind, RecordKind
  <2>2. [path |-> "RT", content |-> b.content] \in Approval
    BY <2>1 DEF VersionBill, Approval
  <2> QED  BY <1>2, <2>2 DEF Approve, statutesVars
<1>3. CASE UNCHANGED <<statutesVars, registryVars>>
  BY <1>3 DEF statutesVars, registryVars
<1> QED  BY <1>1, <1>2, <1>3 DEF Dispatched

\* The steps of the tracker and of the clock.
LEMMA BallotType ==
  ASSUME TypeOK,
         \/ \E d \in 0 .. MaxTime : Propose(d)
         \/ MeetQuorum \/ Execute \/ Expire
         \/ \E t \in 0 .. MaxTime : NextBlock(t)
  PROVE  TypeOK'
<1> USE DEF TypeOK
<1>0. VoteOpen => vote.bill \in Bills
  BY GovernedAssumption DEF VoteOpen, Vote, NoVote
<1>1. ASSUME NEW d \in 0 .. MaxTime, Propose(d)  PROVE TypeOK'
  BY <1>1 DEF Propose, Begin, Vote, StatutesTypeOK, RegistryTypeOK
<1>2. CASE MeetQuorum
  BY <1>2, <1>0 DEF MeetQuorum, Pass, Vote, VoteOpen, NoVote, StatutesTypeOK, RegistryTypeOK
<1>3. CASE Execute
  <2>1. vote.bill \in Bills  BY <1>0, <1>3 DEF Execute, Close
  <2>2. StatutesTypeOK' /\ RegistryTypeOK'  BY <1>3, <2>1, DispatchedType DEF Execute
  <2> QED  BY <1>3, <2>1, <2>2 DEF Execute, Close, Vote
<1>4. CASE Expire
  <2>1. vote.bill \in Bills  BY <1>0, <1>4 DEF Expire, Close
  <2> QED
    BY <1>4, <2>1 DEF Expire, Close, Vote, StatutesTypeOK, RegistryTypeOK, statutesVars, registryVars
<1>5. ASSUME NEW t \in 0 .. MaxTime, NextBlock(t)  PROVE TypeOK'
  BY <1>5 DEF NextBlock, BallotNextBlock, StatutesTypeOK, RegistryTypeOK
<1> QED  BY <1>1, <1>2, <1>3, <1>4, <1>5

\* A publication installs an approved content.
LEMMA PublishType ==
  ASSUME TypeOK, PublishParams \/ PublishCode
  PROVE  TypeOK'
<1>1. registry' \in VaultVersion /\ UNCHANGED <<approved, statutesVars, draft, now, vote, closed>>
  BY DEF TypeOK, RegistryTypeOK, Approval, PublishParams, PublishCode, FastTrack, Routine, Publish
<1> QED  BY <1>1 DEF TypeOK, StatutesTypeOK, RegistryTypeOK, statutesVars

\* Genesis.
LEMMA InitType ==
  ASSUME Init
  PROVE  TypeOK
<1>1. NoRecords \in [{} -> Record]  BY DEF NoRecords
<1>2. NoRecords \in UNION {[K -> Record] : K \in SUBSET Key}  BY <1>1
<1>3. StatutesTypeOK
  BY <1>2, GenesisAssumption DEF Init, StatutesInit, StatutesTypeOK, StatutesState
<1>4. RegistryTypeOK
  BY VersionAssumption DEF Init, RegistryInit, RegistryTypeOK, VaultVersion
<1> QED  BY <1>3, <1>4, GovernedAssumption DEF TypeOK, Init, BallotInit, Vote

\* The registries, the drafts and the vote keep their types.
THEOREM TypeCorrect == Spec => []TypeOK
<1>1. Init => TypeOK  BY InitType
<1>2. TypeOK /\ [Next]_vars => TypeOK'
  <2> SUFFICES ASSUME TypeOK, [Next]_vars PROVE TypeOK'  OBVIOUS
  <2>1. CASE Next  BY <2>1, DraftsType, BallotType, PublishType DEF Next
  <2>2. CASE UNCHANGED vars
    BY <2>2 DEF vars, TypeOK, StatutesTypeOK, RegistryTypeOK
  <2> QED  BY <2>1, <2>2
<1> QED  BY <1>1, <1>2, PTL DEF Spec

----------------------------------------------------------------------------
(* The invariant of the other theorems: valid tables, evidence no newer    *)
(* than the statutes, and code bills that saw the present registry or one  *)
(* of an earlier version.                                                  *)

\* Evidence is never of a later version.
EvidenceIsPast == \A e \in evidence : e.version <= statutes.version

\* What a code bill saw is an earlier registry or the present one.
BillSound(b) ==
  /\ b.seen.version <= registry.version
  /\ b.seen.version = registry.version => b.seen = registry

CodeBills == ({vote.bill, draft} \cup closed) \cap VersionBill

\* The tracker's approvals of this block are those of bills it ended.
ApprovalsVoted ==
  \A a \in approved : a.path = "RT" =>
    \E b \in closed \cap VersionBill : b.content = a.content

Inv ==
  /\ TypeOK /\ TablesValid
  /\ EvidenceIsPast /\ EvidenceIsCurrent
  /\ \A b \in CodeBills : BillSound(b)
  /\ ApprovalsVoted

\* The tables of the five kinds of records and of the parameters.
LEMMA TablesAll ==
  ASSUME NEW s
  PROVE  (/\ ValidTable("parameter", s.parameters)
          /\ \A kind \in RecordKind : ValidTable(kind, s.records[kind]))
         <=> \A kind \in Kind : ValidTable(kind, TableOf(s, kind))
BY DEF TableOf, Kind, RecordKind

\* An update leaves valid tables, of the next version.
LEMMA UpdateValid ==
  ASSUME Inv, NEW b \in Bills, b.kind \in Kind, Update(b)
  PROVE  TablesValid' /\ statutes'.version = statutes.version + 1
<1>1. b \in StatuteBill /\ b.change \in Change
  BY DEF Bills, VersionBill, Kind, RecordKind, StatuteBill
<1>2. /\ b.kind = b.change.kind /\ b.to = Mutated(statutes, b.change)
      /\ statutes' = b.to /\ ValidTable(b.kind, TableOf(b.to, b.kind))
  BY <1>1 DEF Update, Mutation
<1>3. statutes \in StatutesState  BY DEF Inv, TypeOK, StatutesTypeOK
<1>4. statutes'.version = statutes.version + 1  BY <1>1, <1>2, <1>3, MutatedType
<1>5. \A kind \in Kind : ValidTable(kind, TableOf(statutes, kind))
  BY TablesAll DEF Inv, TablesValid
<1>6. ASSUME NEW kind \in Kind  PROVE ValidTable(kind, TableOf(statutes', kind))
  <2>1. CASE kind = b.kind  BY <1>2, <2>1
  <2>2. CASE kind # b.kind
    <3>1. TableOf(statutes', kind) = TableOf(statutes, kind)
      BY <1>1, <1>2, <1>3, <2>2, MutatedOthers
    <3> QED  BY <1>5, <3>1
  <2> QED  BY <2>1, <2>2
<1> QED  BY <1>4, <1>6, TablesAll DEF TablesValid

\* Evidence that is announced is true of the present tables.
LEMMA EvidenceStep ==
  ASSUME Inv, ReadStatutes
  PROVE  EvidenceIsPast' /\ EvidenceIsCurrent'
<1>0. statutes' = statutes /\ statutes.version \in Nat
  BY DEF ReadStatutes, EntryEvidence, SolsEvidence, Announce, Inv, TypeOK, StatutesTypeOK,
         StatutesState
<1>1. ASSUME NEW e \in Asked, EntryEvidence(e.kind, e.key)
      PROVE  EvidenceIsPast' /\ EvidenceIsCurrent'
  <2> DEFINE t == TableOf(statutes, e.kind)
             new == [case |-> "STEV", kind |-> e.kind, key |-> e.key,
                     version |-> statutes.version,
                     entry |-> IF e.kind = "parameter" THEN [value |-> t[e.key]] ELSE t[e.key]]
  <2>1. evidence' = evidence \cup {new} /\ e.key \in DOMAIN t
    BY <1>1 DEF EntryEvidence, Announce
  <2>2. new.version = statutes.version /\ new.case = "STEV" /\ new.kind = e.kind
        /\ new.key = e.key
    OBVIOUS
  <2>3. CASE e.kind = "parameter"
    <3>1. new.entry.value = statutes.parameters[e.key]  BY <2>3 DEF TableOf
    <3> HIDE DEF new
    <3> QED  BY <1>0, <2>1, <2>2, <2>3, <3>1 DEF Inv, EvidenceIsPast, EvidenceIsCurrent
  <2>4. CASE e.kind # "parameter"
    <3>1. t = statutes.records[e.kind] /\ new.entry = statutes.records[e.kind][e.key]
      BY <2>4 DEF TableOf
    <3> HIDE DEF new, t
    <3> QED  BY <1>0, <2>1, <2>2, <2>4, <3>1 DEF Inv, EvidenceIsPast, EvidenceIsCurrent
  <2> QED  BY <2>3, <2>4
<1>2. ASSUME NEW key \in Key, SolsEvidence(key)
      PROVE  EvidenceIsPast' /\ EvidenceIsCurrent'
  <2> DEFINE pauses == statutes.records["pause"]
             new == [case |-> "SOLV", key |-> key, parameters |-> statutes.parameters,
                     collection |-> statutes.records["collection"][key],
                     pauses |-> {pauses[k] : k \in {key} \cap DOMAIN pauses},
                     version |-> statutes.version]
  <2>1. evidence' = evidence \cup {new} /\ key \in DOMAIN statutes.records["collection"]
    BY <1>2 DEF SolsEvidence, Announce
  <2>2. /\ new.version = statutes.version /\ new.case = "SOLV" /\ new.key = key
        /\ new.parameters = statutes.parameters
        /\ new.collection = statutes.records["collection"][key]
    OBVIOUS
  <2> HIDE DEF new
  <2> QED  BY <1>0, <2>1, <2>2 DEF Inv, EvidenceIsPast, EvidenceIsCurrent
<1> QED  BY <1>1, <1>2 DEF ReadStatutes

\* A step that changes neither the registry, nor the code bills, nor the approvals
\* of the tracker keeps what Inv says of them.
LEMMA BillsKept ==
  ASSUME Inv, registry' = registry, CodeBills' \subseteq CodeBills,
         closed \subseteq closed', approved' = approved
  PROVE  (\A b \in CodeBills : BillSound(b))' /\ ApprovalsVoted'
BY DEF Inv, BillSound, ApprovalsVoted

\* A publication makes its content the latest version.
LEMMA PublishSound ==
  ASSUME Inv, NEW content \in VaultVersion, content.version = registry.version + 1,
         registry' = content, UNCHANGED <<draft, vote, closed>>
  PROVE  (\A b \in CodeBills : BillSound(b))'
<1>1. registry.version \in Nat  BY DEF Inv, TypeOK, RegistryTypeOK, VaultVersion
<1>2. \A b \in CodeBills : b.seen.version \in Nat
  BY DEF CodeBills, VersionBill, VaultVersion
<1>3. CodeBills' = CodeBills  BY DEF CodeBills
<1> QED  BY <1>1, <1>2, <1>3 DEF Inv, BillSound

\* Steps that leave the registries and the evidence alone.
LEMMA StateKept ==
  ASSUME Inv, UNCHANGED <<statutes, evidence>>
  PROVE  TablesValid' /\ EvidenceIsPast' /\ EvidenceIsCurrent'
BY DEF Inv, TablesValid, EvidenceIsPast, EvidenceIsCurrent, ValidTable

\* The steps before a vote.
LEMMA DraftsSound ==
  ASSUME Inv, TypeOK',
         \/ ReadStatutes
         \/ \E c \in Change : DraftStatute(c)
         \/ \E content \in Content : DraftVersion(content)
         \/ AuthorityApproves
  PROVE  Inv'
<1>1. CASE ReadStatutes
  <2>1. UNCHANGED <<statutes, registry, approved, draft, now, vote, closed>>
    BY <1>1 DEF ReadStatutes, EntryEvidence, SolsEvidence, Announce
  <2>2. TablesValid'  BY <2>1 DEF Inv, TablesValid, ValidTable
  <2>3. CodeBills' = CodeBills  BY <2>1 DEF CodeBills
  <2> QED  BY <1>1, <2>1, <2>2, <2>3, EvidenceStep, BillsKept DEF Inv
<1>2. ASSUME NEW c \in Change, DraftStatute(c)  PROVE Inv'
  <2>1. draft' \notin VersionBill
    BY <1>2, ChangeAssumption DEF DraftStatute, Mutation, VersionBill, Kind, RecordKind
  <2>2. CodeBills' \subseteq CodeBills  BY <1>2, <2>1 DEF DraftStatute, CodeBills
  <2> QED  BY <1>2, <2>2, BillsKept, StateKept DEF Inv, DraftStatute
<1>3. ASSUME NEW content \in Content, DraftVersion(content)
      PROVE  Inv'
  <2>1. registry.version \in Nat  BY DEF Inv, TypeOK, RegistryTypeOK, VaultVersion
  <2>2. UNCHANGED <<statutes, evidence, registry, approved, vote, closed>>
    BY <1>3 DEF DraftVersion
  <2>3. draft'.seen = registry' /\ draft'.seen.version <= registry'.version
    BY <1>3, <2>1, <2>2 DEF DraftVersion
  <2>4. \A b \in CodeBills : BillSound(b)'  BY <2>2 DEF Inv, BillSound
  <2>5. CodeBills' \subseteq CodeBills \cup {draft'}  BY <2>2 DEF CodeBills
  <2>6. (\A b \in CodeBills : BillSound(b))'
    <3> SUFFICES ASSUME NEW b \in CodeBills'  PROVE BillSound(b)'  OBVIOUS
    <3>1. CASE b \in CodeBills  BY <2>4, <3>1
    <3>2. CASE b = draft'  BY <2>3, <3>2 DEF BillSound
    <3> QED  BY <2>5, <3>1, <3>2
  <2>7. ApprovalsVoted'  BY <2>2 DEF Inv, ApprovalsVoted
  <2> QED  BY <2>2, <2>6, <2>7, StateKept DEF Inv
<1>4. CASE AuthorityApproves
  <2>1. UNCHANGED <<statutes, evidence, registry, draft, vote, closed>>
    BY <1>4 DEF AuthorityApproves, AdminApprove, statutesVars
  <2>2. PICK content : approved' = approved \cup {[path |-> "FT", content |-> content]}
    BY <1>4 DEF AuthorityApproves, AdminApprove, Approve
  <2>3. ApprovalsVoted'  BY <2>1, <2>2 DEF Inv, ApprovalsVoted
  <2>4. (\A b \in CodeBills : BillSound(b))'
    BY <2>1 DEF Inv, BillSound, CodeBills
  <2> QED  BY <2>1, <2>3, <2>4, StateKept DEF Inv
<1> QED  BY <1>1, <1>2, <1>3, <1>4

\* The steps of the vote and of the clock.
LEMMA VotesSound ==
  ASSUME Inv, TypeOK',
         \/ \E d \in 0 .. MaxTime : Propose(d)
         \/ MeetQuorum \/ Execute \/ Expire
         \/ \E t \in 0 .. MaxTime : NextBlock(t)
  PROVE  Inv'
<1>0. NoVote.bill = NoBill /\ NoBill \notin VersionBill
  BY GovernedAssumption DEF NoVote, Bills
<1>1. ASSUME NEW d \in 0 .. MaxTime, Propose(d)  PROVE Inv'
  <2>1. UNCHANGED <<statutes, evidence, registry, approved, draft, closed>> /\ vote'.bill = draft
    BY <1>1 DEF Propose, Begin
  <2>2. CodeBills' \subseteq CodeBills  BY <2>1 DEF CodeBills
  <2> QED  BY <2>1, <2>2, BillsKept, StateKept DEF Inv
<1>2. CASE MeetQuorum
  <2>1. UNCHANGED <<statutes, evidence, registry, approved, draft, closed>> /\ vote'.bill = vote.bill
    BY <1>2 DEF MeetQuorum, Pass
  <2>2. CodeBills' \subseteq CodeBills  BY <2>1 DEF CodeBills
  <2> QED  BY <2>1, <2>2, BillsKept, StateKept DEF Inv
<1>3. CASE Execute
  <2>1. /\ vote' = NoVote /\ closed' = closed \cup {vote.bill} /\ draft' = draft
        /\ Dispatched(vote.bill) /\ vote.bill # NoBill
    BY <1>3 DEF Execute, Close, VoteOpen
  <2>2. vote.bill \in Bills
    BY <2>1, GovernedAssumption DEF Inv, TypeOK, Vote
  <2>3. CodeBills' \subseteq CodeBills  BY <1>0, <2>1 DEF CodeBills
  <2>4. CASE vote.bill.kind \in Kind /\ Update(vote.bill) /\ UNCHANGED registryVars
    <3>1. UNCHANGED <<evidence, registry, approved>>  BY <2>4 DEF Update, registryVars
    <3>2. TablesValid' /\ statutes'.version = statutes.version + 1
      BY <2>2, <2>4, UpdateValid
    <3>3. statutes.version \in Nat /\ \A e \in evidence : e.version \in Nat
      BY DEF Inv, TypeOK, StatutesTypeOK, StatutesState, Evidence
    <3>4. \A e \in evidence' : e.version <= statutes'.version /\ e.version # statutes'.version
      BY <3>1, <3>2, <3>3 DEF Inv, EvidenceIsPast
    <3>5. EvidenceIsPast' /\ EvidenceIsCurrent'
      BY <3>4 DEF EvidenceIsPast, EvidenceIsCurrent
    <3> QED  BY <2>1, <2>3, <3>1, <3>2, <3>5, BillsKept DEF Inv
  <2>5. CASE /\ vote.bill.kind = "vault_version" /\ Approve("RT", vote.bill.content)
             /\ UNCHANGED <<statutesVars, registry>>
    <3>1. UNCHANGED <<statutes, evidence, registry>>  BY <2>5 DEF statutesVars
    <3>2. vote.bill \in VersionBill
      BY <2>2, <2>5 DEF Bills, StatuteBill, Kind, RecordKind
    <3>3. approved' = approved \cup {[path |-> "RT", content |-> vote.bill.content]}
      BY <2>5 DEF Approve
    <3>4. ApprovalsVoted'  BY <2>1, <3>2, <3>3 DEF Inv, ApprovalsVoted
    <3>5. (\A b \in CodeBills : BillSound(b))'  BY <2>3, <3>1 DEF Inv, BillSound
    <3> QED  BY <3>1, <3>4, <3>5, StateKept DEF Inv
  <2>6. CASE UNCHANGED <<statutesVars, registryVars>>
    <3>1. UNCHANGED <<statutes, evidence, registry, approved>>
      BY <2>6 DEF statutesVars, registryVars
    <3> QED  BY <2>1, <2>3, <3>1, BillsKept, StateKept DEF Inv
  <2> QED  BY <2>1, <2>4, <2>5, <2>6 DEF Dispatched
<1>4. CASE Expire
  <2>1. /\ vote' = NoVote /\ closed' = closed \cup {vote.bill}
        /\ UNCHANGED <<statutes, evidence, registry, approved, draft>>
    BY <1>4 DEF Expire, Close, statutesVars, registryVars
  <2>2. CodeBills' \subseteq CodeBills  BY <1>0, <2>1 DEF CodeBills
  <2> QED  BY <2>1, <2>2, BillsKept, StateKept DEF Inv
<1>5. ASSUME NEW t \in 0 .. MaxTime, NextBlock(t)  PROVE Inv'
  <2>1. /\ UNCHANGED <<statutes, registry, draft, vote>>
        /\ evidence' = {} /\ approved' = {} /\ closed' = {}
    BY <1>5 DEF NextBlock, BallotNextBlock
  <2>2. CodeBills' \subseteq CodeBills  BY <2>1 DEF CodeBills
  <2>3. (\A b \in CodeBills : BillSound(b))'  BY <2>1, <2>2 DEF Inv, BillSound
  <2>4. ApprovalsVoted' /\ EvidenceIsPast' /\ EvidenceIsCurrent'
    BY <2>1 DEF ApprovalsVoted, EvidenceIsPast, EvidenceIsCurrent
  <2>5. TablesValid'  BY <2>1 DEF Inv, TablesValid, ValidTable
  <2> QED  BY <2>3, <2>4, <2>5 DEF Inv
<1> QED  BY <1>1, <1>2, <1>3, <1>4, <1>5

\* The publications.
LEMMA PublishesSound ==
  ASSUME Inv, TypeOK', PublishParams \/ PublishCode
  PROVE  Inv'
<1>1. PICK content \in VaultVersion :
        content.version = registry.version + 1 /\ registry' = content
  BY DEF Inv, TypeOK, RegistryTypeOK, Approval, PublishParams, PublishCode, FastTrack, Routine,
         Publish
<1>2. UNCHANGED <<statutes, evidence, approved, draft, vote, closed>>
  BY DEF PublishParams, PublishCode, FastTrack, Routine, Publish, statutesVars
<1>3. (\A b \in CodeBills : BillSound(b))'  BY <1>1, <1>2, PublishSound
<1>4. ApprovalsVoted'  BY <1>2 DEF Inv, ApprovalsVoted
<1> QED  BY <1>2, <1>3, <1>4, StateKept DEF Inv

\* The invariant holds.
THEOREM Invariant == Spec => []Inv
<1>1. Init => Inv
  <2> SUFFICES ASSUME Init PROVE Inv  OBVIOUS
  <2>1. TypeOK  BY InitType
  <2>2. TablesValid
    BY GenesisAssumption
       DEF Init, StatutesInit, TablesValid, ValidTable, NoRecords, RecordKind
  <2>3. CodeBills = {}
    BY GovernedAssumption DEF Init, BallotInit, NoVote, CodeBills, Bills
  <2>4. EvidenceIsPast /\ EvidenceIsCurrent /\ ApprovalsVoted
    BY DEF Init, StatutesInit, RegistryInit, EvidenceIsPast, EvidenceIsCurrent, ApprovalsVoted
  <2> QED  BY <2>1, <2>2, <2>3, <2>4 DEF Inv
<1>2. Inv /\ TypeOK' /\ [Next]_vars => Inv'
  <2> SUFFICES ASSUME Inv, TypeOK', [Next]_vars PROVE Inv'  OBVIOUS
  <2>1. CASE Next  BY <2>1, DraftsSound, VotesSound, PublishesSound DEF Next
  <2>2. CASE UNCHANGED vars
    <3>1. UNCHANGED <<statutes, evidence, registry, approved, draft, vote, closed>>
      BY <2>2 DEF vars
    <3>2. CodeBills' = CodeBills  BY <3>1 DEF CodeBills
    <3> QED  BY <3>1, <3>2, BillsKept, StateKept DEF Inv
  <2> QED  BY <2>1, <2>2
<1> QED  BY <1>1, <1>2, TypeCorrect, PTL DEF Spec

----------------------------------------------------------------------------
(* What follows from it.                                                   *)

\* No sequence of updates leaves a table its own check refuses.
THEOREM TablesAreValid == Spec => []TablesValid
<1>1. Inv => TablesValid  BY DEF Inv
<1> QED  BY <1>1, Invariant, PTL

\* A version of the statutes is one state.
THEOREM EvidenceNamesState == Spec => []EvidenceIsCurrent
<1>1. Inv => EvidenceIsCurrent  BY DEF Inv
<1> QED  BY <1>1, Invariant, PTL

\* A version of the vault registry is one state, so a code bill for the version after
\* the one it was drafted from is void once another was published.
THEOREM BillsNameState == Spec => []VersionNamesState
<1>1. ASSUME Inv  PROVE VersionNamesState
  <2>1. registry.version \in Nat  BY <1>1 DEF Inv, TypeOK, RegistryTypeOK, VaultVersion
  <2>2. ASSUME NEW b \in {vote.bill, draft} \cap VersionBill,
               b.seen.version + 1 = registry.version + 1
        PROVE  b.seen = registry
    <3>1. BillSound(b) /\ b.seen.version \in Nat
      BY <1>1, <2>2 DEF Inv, CodeBills, VersionBill, VaultVersion
    <3> QED  BY <2>1, <2>2, <3>1 DEF BillSound
  <2> QED  BY <2>2 DEF VersionNamesState
<1> QED  BY <1>1, Invariant, PTL

\* The shares of the fee are the whole fee.
LEMMA FeeAddsUp ==
  ASSUME NEW p, ValidParameters(p)
  PROVE  p["protocol_fee_bps"] + p["sgt_rewards_fee_bps"] = p["exchange_fee_bps"]
BY DEF ValidParameters

\* No vote changes the fee or its shares.
THEOREM FeesAreFrozen == Spec => FeesFrozen
<1> DEFINE Fees == {"exchange_fee_bps", "protocol_fee_bps", "sgt_rewards_fee_bps"}
           Frozen == \A p \in Fees : statutes'.parameters[p] = statutes.parameters[p]
<1>1. ASSUME Inv, Inv', [Next]_vars  PROVE Frozen
  <2>1. CASE UNCHANGED statutes  BY <2>1
  <2>2. CASE Execute
    <3>1. /\ vote.bill \in Bills /\ Dispatched(vote.bill)
      BY <1>1, <2>2, GovernedAssumption DEF Execute, Close, VoteOpen, Inv, TypeOK, Vote
    <3>2. CASE UNCHANGED statutesVars  BY <3>2 DEF statutesVars
    <3>3. CASE vote.bill.kind \in Kind /\ Update(vote.bill)
      <4> DEFINE c == vote.bill.change
                 old == statutes.parameters
                 new == statutes'.parameters
      <4>1. c \in Change /\ statutes' = Mutated(statutes, c)
        BY <3>1, <3>3
           DEF Bills, VersionBill, Kind, RecordKind, StatuteBill, Update, Mutation
      <4>2. ValidParameters(old) /\ ValidParameters(new)
        BY <1>1 DEF Inv, TablesValid, ValidTable
      <4>3. old \in [Parameter -> Nat] /\ new \in [Parameter -> Nat]
        BY <1>1 DEF Inv, TypeOK, StatutesTypeOK, StatutesState
      <4>4. CASE c.kind = "parameter"
        <5>1. c.key \in Parameter  BY <4>1, <4>4, ChangeAssumption
        <5>2. statutes \in StatutesState  BY <1>1 DEF Inv, TypeOK, StatutesTypeOK
        <5>3. new = Upserted(old, c.key, c.entry.value)
          BY <4>1, <4>4, <5>2 DEF Mutated, StatutesState
        <5>4. \A p \in Parameter : p # c.key => new[p] = old[p]
          BY <4>3, <5>3 DEF Upserted
        <5>5. /\ old["protocol_fee_bps"] + old["sgt_rewards_fee_bps"] = old["exchange_fee_bps"]
              /\ new["protocol_fee_bps"] + new["sgt_rewards_fee_bps"] = new["exchange_fee_bps"]
          BY <4>2, FeeAddsUp
        <5>6. \A p \in Fees : p \in Parameter /\ old[p] \in Nat /\ new[p] \in Nat
          BY <4>3 DEF Parameter
        <5> HIDE DEF c, old, new
        <5>7. \A p \in Fees : new[p] = old[p]
          <6>1. CASE c.key = "exchange_fee_bps"  BY <5>4, <5>5, <5>6, <6>1
          <6>2. CASE c.key = "protocol_fee_bps"  BY <5>4, <5>5, <5>6, <6>2
          <6>3. CASE c.key = "sgt_rewards_fee_bps"  BY <5>4, <5>5, <5>6, <6>3
          <6>4. CASE c.key \notin Fees  BY <5>4, <5>6, <6>4
          <6> QED  BY <6>1, <6>2, <6>3, <6>4
        <5> QED  BY <5>7 DEF old, new
      <4>5. CASE c.kind # "parameter"
        <5>1. statutes \in StatutesState  BY <1>1 DEF Inv, TypeOK, StatutesTypeOK
        <5>2. new = old  BY <4>1, <4>5, <5>1 DEF Mutated, StatutesState
        <5> QED  BY <5>2
      <4> QED  BY <4>4, <4>5
    <3> QED  BY <3>1, <3>2, <3>3 DEF Dispatched
  <2>3. CASE UNCHANGED vars  BY <2>1, <2>3 DEF vars
  <2>4. Next => Execute \/ UNCHANGED statutes
    BY DEF Next, ReadStatutes, EntryEvidence, SolsEvidence, Announce, DraftStatute, DraftVersion,
           Propose, MeetQuorum, Expire, AuthorityApproves, AdminApprove, PublishParams, PublishCode,
           NextBlock, statutesVars
  <2> QED  BY <1>1, <2>1, <2>2, <2>3, <2>4
<1>2. Inv /\ Inv' /\ [Next]_vars => [Frozen]_vars  BY <1>1
<1> QED  BY <1>2, Invariant, PTL DEF Spec, FeesFrozen

\* The administrators alone do not change the code of vaults, and a bill for the
\* next version is published on the state it was drafted from.
THEOREM CodeOnlyRatified == Spec => CodeIsRatified
<1> DEFINE Ratified == registry'.code # registry.code =>
             \E b \in closed \cap VersionBill :
               /\ b.content = registry'
               /\ b.content.version = b.seen.version + 1 => b.seen = registry
<1>1. ASSUME Inv, [Next]_vars  PROVE Ratified
  <2>1. CASE UNCHANGED registry  BY <2>1
  <2>2. CASE PublishParams
    BY <2>2 DEF PublishParams, FastTrack, Publish
  <2>3. CASE PublishCode
    <3>1. PICK a \in approved : Routine(a.content)  BY <2>3 DEF PublishCode
    <3>2. /\ [path |-> "RT", content |-> a.content] \in approved
          /\ a.content.version = registry.version + 1 /\ registry' = a.content
      BY <3>1 DEF Routine, Publish
    <3>3. PICK b \in closed \cap VersionBill : b.content = a.content
      BY <1>1, <3>2 DEF Inv, ApprovalsVoted
    <3>4. BillSound(b) /\ b.seen.version \in Nat /\ registry.version \in Nat
      BY <1>1, <3>3 DEF Inv, CodeBills, VersionBill, VaultVersion, TypeOK, RegistryTypeOK
    <3>5. b.content.version = b.seen.version + 1 => b.seen = registry
      BY <3>2, <3>3, <3>4 DEF BillSound
    <3> QED  BY <3>2, <3>3, <3>5
  <2>4. Next => PublishParams \/ PublishCode \/ UNCHANGED registry
    BY DEF Next, ReadStatutes, DraftStatute, DraftVersion, Propose, MeetQuorum, Execute, Dispatched,
           Expire, AuthorityApproves, AdminApprove, NextBlock, registryVars
  <2> QED  BY <1>1, <2>1, <2>2, <2>3, <2>4 DEF vars
<1>2. Inv /\ [Next]_vars => [Ratified]_vars  BY <1>1
<1> QED  BY <1>2, Invariant, PTL DEF Spec, CodeIsRatified
=============================================================================
