------------------------------ MODULE Statutes ------------------------------
(***************************************************************************)
(* The statutes registry (protocol_statutes_inner_v1.clsp with             *)
(* protocol_statutes_v1.py): six typed tables under one version.  A spend  *)
(* announces entries of the tables, or changes one entry of one table when *)
(* the tracker sends the bill for exactly that change.                     *)
(*                                                                         *)
(* A root is the table it commits to.  Records keep the fields that the    *)
(* code compares; the remaining ids and hashes are left out.               *)
(***************************************************************************)
EXTENDS Integers, FiniteSets

CONSTANTS
  Key,          \* ids of collections, assets, routes, venues and scopes
  Change,       \* the changes of one entry that bills may ask for
  SgtSupply,    \* SGT_TOTAL_SUPPLY
  Genesis,      \* the parameters at genesis
  MaxEvidence   \* bound on the evidence spends per block

Parameter ==
  {"voting_window_seconds", "quorum_bps", "min_proposal_stake", "nav_validity_seconds",
   "oracle_max_age_seconds", "exchange_fee_bps", "protocol_fee_bps", "sgt_rewards_fee_bps",
   "reward_epoch_seconds"}

RecordKind == {"collection", "oracle", "route", "pause", "liquidity"}

Kind == RecordKind \cup {"parameter"}

Thirty == 30 * 86400

\* Slip: the fee's shares need only fit into the fee.
ValidParametersLoose(p) ==
  /\ p["voting_window_seconds"] \in 60 .. Thirty
  /\ p["quorum_bps"] \in 1 .. 10000
  /\ p["min_proposal_stake"] \in 1 .. SgtSupply
  /\ p["nav_validity_seconds"] \in 60 .. Thirty
  /\ p["oracle_max_age_seconds"] \in 30 .. 3600
  /\ p["exchange_fee_bps"] <= 100
  /\ p["protocol_fee_bps"] + p["sgt_rewards_fee_bps"] <= p["exchange_fee_bps"]
  /\ p["reward_epoch_seconds"] \in 60 .. Thirty

ValidParameters(p) ==
  /\ p["voting_window_seconds"] \in 60 .. Thirty
  /\ p["quorum_bps"] \in 1 .. 10000
  /\ p["min_proposal_stake"] \in 1 .. SgtSupply
  /\ p["nav_validity_seconds"] \in 60 .. Thirty
  /\ p["oracle_max_age_seconds"] \in 30 .. 3600
  /\ p["exchange_fee_bps"] <= 100
  /\ p["protocol_fee_bps"] + p["sgt_rewards_fee_bps"] = p["exchange_fee_bps"]
  /\ p["reward_epoch_seconds"] \in 60 .. Thirty

ValidCollection(r) ==
  /\ r.nav > 0 /\ r.ceiling >= r.nav /\ r.nav_version > 0
  /\ r.valid_until > r.valid_after
  /\ r.status \in 1 .. 3

\* A stable asset has both bounds, any other asset none.
ValidOracle(r) ==
  /\ r.price > 0 /\ r.valid_until > r.observed_at /\ r.round > 0
  /\ r.source_count >= 2 /\ r.haircut_bps <= 10000
  /\ \/ r.stable_min = 0 /\ r.stable_max = 0
     \/ 1 <= r.stable_min /\ r.stable_min <= r.stable_max /\ r.stable_max <= 20000

ValidRoute(r) == r.decimals <= 18 /\ r.active \in {0, 1}

ValidLiquidity(r) == r.base # r.quote /\ r.active \in {0, 1}

ValidPause(r) == r.paused \in {0, 1} /\ (r.paused = 1 => r.expires > 0)

ValidRecord(kind, r) ==
  \/ kind = "collection" /\ ValidCollection(r)
  \/ kind = "oracle" /\ ValidOracle(r)
  \/ kind = "route" /\ ValidRoute(r)
  \/ kind = "liquidity" /\ ValidLiquidity(r)
  \/ kind = "pause" /\ ValidPause(r)

\* What a table must be to be opened; that keys occur once is its being a function.
ValidTable(kind, t) ==
  IF kind = "parameter" THEN ValidParameters(t)
  ELSE \A key \in DOMAIN t : ValidRecord(kind, t[key])

ASSUME ChangeAssumption ==
  /\ \A c \in Change : c.kind \in Kind
  /\ \A c \in Change :
       c.kind = "parameter" => c.key \in Parameter /\ c.entry \in [value : Nat]
  /\ \A c \in Change : c.kind # "parameter" => c.key \in Key

ASSUME GenesisAssumption ==
  /\ Genesis \in [Parameter -> Nat] /\ ValidParameters(Genesis)
  /\ MaxEvidence \in Nat

VARIABLES
  statutes,  \* the curried state: the six tables and the version
  evidence   \* what the registry announced in this block

statutesVars == <<statutes, evidence>>

Record == {c.entry : c \in {x \in Change : x.kind # "parameter"}}

StatutesState ==
  [parameters : [Parameter -> Nat],
   records : [RecordKind -> UNION {[K -> Record] : K \in SUBSET Key}],
   version : Nat \ {0}]

NoRecords == [key \in {} |-> 0]

TableOf(s, kind) == IF kind = "parameter" THEN s.parameters ELSE s.records[kind]

\* STEV is one entry, SOLV all a pool prices a deed by.  STGV, the parameters
\* alone, is in SGTGovernance; the consumer that SOLV names is left out.
Evidence ==
  [case : {"STEV"}, kind : RecordKind, key : Key, entry : Record, version : Nat]
    \cup [case : {"STEV"}, kind : {"parameter"}, key : Parameter, entry : [value : Nat],
          version : Nat]
    \cup [case : {"SOLV"}, key : Key, parameters : [Parameter -> Nat], collection : Record,
          pauses : SUBSET Record, version : Nat]

StatutesTypeOK ==
  /\ statutes \in StatutesState
  /\ evidence \subseteq Evidence

StatutesInit ==
  /\ statutes = [parameters |-> Genesis, records |-> [k \in RecordKind |-> NoRecords],
                 version |-> 1]
  /\ evidence = {}

----------------------------------------------------------------------------
Announce(e) ==
  /\ Cardinality(evidence) < MaxEvidence
  /\ evidence' = evidence \cup {e}
  /\ UNCHANGED statutes

\* EVIDENCE of one entry.
EntryEvidence(kind, key) ==
  LET t == TableOf(statutes, kind) IN
    /\ ValidTable(kind, t)
    /\ key \in DOMAIN t
    /\ Announce([case |-> "STEV", kind |-> kind, key |-> key, version |-> statutes.version,
                 entry |-> IF kind = "parameter" THEN [value |-> t[key]] ELSE t[key]])

\* SOLS_EVIDENCE: the pause is that of the collection, when it has one.
SolsEvidence(key) ==
  LET pauses == statutes.records["pause"] IN
    /\ \A kind \in {"parameter", "collection", "pause"} : ValidTable(kind, TableOf(statutes, kind))
    /\ key \in DOMAIN statutes.records["collection"]
    /\ Announce([case |-> "SOLV", key |-> key, parameters |-> statutes.parameters,
                 collection |-> statutes.records["collection"][key],
                 pauses |-> {pauses[k] : k \in {key} \cap DOMAIN pauses},
                 version |-> statutes.version])

\* replace-index and upsert-record.
Upserted(t, key, entry) ==
  [k \in DOMAIN t \cup {key} |-> IF k = key THEN entry ELSE t[k]]

\* Slip: the version is left alone.
MutatedSameVersion(s, c) ==
  IF c.kind = "parameter"
  THEN [s EXCEPT !.parameters = Upserted(@, c.key, c.entry.value)]
  ELSE [s EXCEPT !.records[c.kind] = Upserted(@, c.key, c.entry)]

\* The state after the change c of s, as build_parameter_mutation and
\* build_record_mutation compute it and as the puzzle recomputes it.
Mutated(s, c) ==
  IF c.kind = "parameter"
  THEN [s EXCEPT !.parameters = Upserted(@, c.key, c.entry.value), !.version = @ + 1]
  ELSE [s EXCEPT !.records[c.kind] = Upserted(@, c.key, c.entry), !.version = @ + 1]

\* The bill names the change and the whole state before and after it.
Mutation(s, c) == [kind |-> c.kind, change |-> c, from |-> s, to |-> Mutated(s, c)]

StatuteBill == [kind : Kind, change : Change, from : StatutesState, to : StatutesState]

\* Slip: the updated table is not checked again.
UpdateUnchecked(b) ==
  /\ b = Mutation(statutes, b.change)
  /\ ValidTable(b.kind, TableOf(statutes, b.kind))
  /\ statutes' = b.to
  /\ UNCHANGED evidence

\* UPDATE: the message received is that of the one bill the puzzle recomputes.
Update(b) ==
  /\ b = Mutation(statutes, b.change)
  /\ ValidTable(b.kind, TableOf(statutes, b.kind))
  /\ ValidTable(b.kind, TableOf(b.to, b.kind))
  /\ statutes' = b.to
  /\ UNCHANGED evidence
=============================================================================
