--------------------------- MODULE VersionRegistry ---------------------------
(***************************************************************************)
(* The vault version registry (vault_version_registry_inner.clsp with      *)
(* vault_version_registry_driver.py): the code and the parameters that     *)
(* vaults should run, under an exact-incrementing version.  Parameters are *)
(* published on the administrators' approval, code on the tracker's.       *)
(***************************************************************************)
EXTENDS Integers, FiniteSets

CONSTANTS
  Code,         \* vault modules
  Params,       \* canonical vault parameters
  GenesisCode, GenesisParams,
  MaxApproved   \* bound on the administrators' approvals per block

ASSUME VersionAssumption ==
  /\ GenesisCode \in Code /\ GenesisParams \in Params
  /\ MaxApproved \in Nat

VARIABLES
  registry,   \* the curried state that changes
  approved    \* approval messages announced in this block

registryVars == <<registry, approved>>

VaultVersion == [code : Code, params : Params, version : Nat \ {0}]

Approval == [path : {"FT", "RT"}, content : VaultVersion]

RegistryTypeOK == registry \in VaultVersion /\ approved \subseteq Approval

RegistryInit ==
  /\ registry = [code |-> GenesisCode, params |-> GenesisParams, version |-> 1]
  /\ approved = {}

Approve(path, content) == approved' = approved \cup {[path |-> path, content |-> content]}

\* The live authority announces the fast-track approval of any content.
AdminApprove(content) ==
  /\ Cardinality({a \in approved : a.path = "FT"}) < MaxApproved
  /\ Approve("FT", content)
  /\ UNCHANGED registry

\* What both spends share: the approval of exactly the next content.
Publish(path, content) ==
  /\ content.version = registry.version + 1
  /\ [path |-> path, content |-> content] \in approved
  /\ registry' = content
  /\ UNCHANGED approved

\* Slip: the fast track also changes code.
FastTrackAnyCode(content) == Publish("FT", content)

\* Slip: the fast track keeps the version of the parameters it repairs.
FastTrackInPlace(content) ==
  /\ content.code = registry.code
  /\ content.version = registry.version
  /\ [path |-> "FT", content |-> content] \in approved
  /\ registry' = content
  /\ UNCHANGED approved

\* SPEND_PARAMS_FASTTRACK
FastTrack(content) == content.code = registry.code /\ Publish("FT", content)

\* SPEND_CODE_ROUTINE
Routine(content) == Publish("RT", content)
=============================================================================
