------------------------------- MODULE Vault -------------------------------
(***************************************************************************)
(* Customer vaults and the SmartDeeds they hold.  A vault is a singleton:  *)
(* every spend makes its next coin, and what its owner signs names the     *)
(* coin it is for.  A deed in custody is a singleton whose inner puzzle is *)
(* p2_vault of its vault, and goes where that vault announces.             *)
(*                                                                         *)
(* The owner signs at one moment and the bundle that uses the signature is *)
(* made at another, by a wallet, a relayer or the market: signed holds     *)
(* every signature ever given.                                             *)
(***************************************************************************)
EXTENDS Integers, FiniteSets

CONSTANTS
  Vault, Deed, Key,
  AuthOf,      \* the kind of each key: "bls" or "secp"
  FirstKey,    \* the owner a vault is launched with
  FirstHolder, \* the vault each deed was delivered to
  NoVault,
  Plan,        \* what the owner of a deed may be asked to accept
  Attested,    \* the vaults whose identity is recorded already
  Asked,       \* bound: what the owners are asked to sign
  MaxCoin,     \* bound: a vault is spent so many times
  MaxSigned    \* bound: signatures given in all

Auth == {"bls", "secp"}

ASSUME VaultAssumption ==
  /\ AuthOf \in [Key -> Auth]
  /\ FirstKey \in [Vault -> Key] /\ FirstHolder \in [Deed -> Vault]
  /\ NoVault \notin Vault /\ Attested \subseteq Vault
  /\ MaxCoin \in Nat /\ MaxSigned \in Nat

VARIABLES
  vault,   \* the current coin of each vault and what is curried into it
  place,   \* where each deed is
  signed   \* the signatures owners have given

\* The inner puzzle of a deed: p2_vault of a vault, the pool's, the open settlement
\* puzzle, the zero hash, or a puzzle that no spend of a deed satisfies.
At(where) == [at |-> where, of |-> NoVault]
In(v) == [at |-> "vault", of |-> v]
Place == {In(v) : v \in Vault} \cup {At(w) : w \in {"pool", "settlement", "sink", "stuck"}}

\* What an owner signs, by spend case.  The amounts and the recipient of a
\* redemption are those of the plan; a swap names the deed it gives, if any.
Message ==
       [op : {"o", "i"}, deed : Deed]
  \cup [op : {"v", "z"}]
  \cup [op : {"m"}, deed : Deed, to : Vault]
  \cup [op : {"s"}, deeds : {{}} \cup {{d} : d \in Deed}]
  \cup [op : {"d"}, deed : Deed, plan : Plan]
  \cup [op : {"k"}, owner : Key, auth : Auth, members : SUBSET Key]

ASSUME AskedAssumption == Asked \subseteq [vault : Vault, message : Message]

Signature == [vault : Vault, coin : 0 .. MaxCoin, key : Key, message : Message]

VaultState ==
  [coin : 0 .. MaxCoin, owner : Key, auth : Auth, members : SUBSET Key, identity : BOOLEAN]

\* An owner key of another kind than the auth type could sign nothing (LOW-12).
VaultTypeOK ==
  /\ vault \in [Vault -> VaultState]
  /\ \A v \in Vault : vault[v].auth = AuthOf[vault[v].owner]
  /\ place \in [Deed -> Place]
  /\ signed \subseteq Signature

VaultInit ==
  /\ vault = [v \in Vault |->
       [coin |-> 0, owner |-> FirstKey[v], auth |-> AuthOf[FirstKey[v]],
        members |-> {FirstKey[v]}, identity |-> v \in Attested]]
  /\ place = [d \in Deed |-> In(FirstHolder[d])]
  /\ signed = {}

Held(v) == {d \in Deed : place[d] = In(v)}

\* authenticate_spend_bls_only: a passkey or an EVM key signs neither 'k' nor 'm'.
BlsOnly == {"k", "m"}

Sign(v, m) ==
  /\ Cardinality(signed) < MaxSigned
  /\ m.op \in BlsOnly => vault[v].auth = "bls"
  /\ signed' = signed \cup
       {[vault |-> v, coin |-> vault[v].coin, key |-> vault[v].owner, message |-> m]}
  /\ UNCHANGED <<vault, place>>

\* Slip: the message does not name the coin.
AuthorizedAnyCoin(v, m) ==
  \E c \in 0 .. MaxCoin :
    [vault |-> v, coin |-> c, key |-> vault[v].owner, message |-> m] \in signed

Authorized(v, m) ==
  [vault |-> v, coin |-> vault[v].coin, key |-> vault[v].owner, message |-> m] \in signed

\* The vault makes its next coin, with the curried values of state.
Recreate(v, state) ==
  /\ vault[v].coin < MaxCoin
  /\ vault' = [vault EXCEPT ![v] = [state EXCEPT !.coin = vault[v].coin + 1]]
  /\ UNCHANGED signed

Goes(deeds, p) == place' = [d \in Deed |-> IF d \in deeds THEN p ELSE place[d]]

\* p2_vault compares the announcement with a launcher its solution gives, not with
\* that of its own singleton: any deeds of the vault may follow one announcement.
Follow(v, p) == \E deeds \in SUBSET Held(v) : Goes(deeds, p)

----------------------------------------------------------------------------
\* 'o': announces a deposit that no p2_vault waits for.
DepositToPool(v, m) ==
  /\ m.op = "o" /\ Authorized(v, m)
  /\ Recreate(v, vault[v])
  /\ UNCHANGED place

\* 'i': wants an announcement of a coin its solution names; a deed that follows goes to
\* the vault's own inner puzzle, which asserts the vault's puzzle hash and so never runs
\* for a deed.
ReceiveFromPool(v, m) ==
  /\ m.op = "i" /\ Authorized(v, m)
  /\ Recreate(v, vault[v])
  /\ Follow(v, At("stuck"))

\* 'v': its announcement has the form of a release, to the puzzle of a locked SGT coin.
AuthorizeSGTLock(v, m) ==
  /\ m.op = "v" /\ Authorized(v, m)
  /\ Recreate(v, vault[v])
  /\ Follow(v, At("stuck"))

Migrate(v, m) ==
  /\ m.op = "m" /\ Authorized(v, m) /\ vault[v].auth = "bls"
  /\ Recreate(v, vault[v])
  /\ Follow(v, In(m.to))

\* 's': the VSX1 transfer names the coin of the one deed that goes, and that deed must
\* go; the pool, here external, may send one of its own in the same swap.
AuthorizeSolsSwap(v, m) ==
  /\ m.op = "s" /\ Authorized(v, m) /\ vault[v].identity
  /\ Recreate(v, vault[v])
  /\ \/ m.deeds # {} /\ m.deeds \subseteq Held(v) /\ Goes(m.deeds, At("pool"))
     \/ m.deeds = {} /\ \E d \in Deed : place[d] = At("pool") /\ Goes({d}, In(v))

\* 'k': the leaving owner must be a member; nothing asks the new one to be.
UpdateKeys(v, m) ==
  /\ m.op = "k" /\ Authorized(v, m) /\ vault[v].auth = "bls"
  /\ vault[v].owner \in vault[v].members
  /\ m.auth = AuthOf[m.owner]
  /\ Recreate(v, [coin |-> vault[v].coin, owner |-> m.owner, auth |-> m.auth,
                  members |-> m.members, identity |-> vault[v].identity])
  /\ UNCHANGED place

\* 'z': once, with the bridge's announcement of the attestation.
UpdateIdentity(v, m) ==
  /\ m.op = "z" /\ Authorized(v, m) /\ ~vault[v].identity
  /\ Recreate(v, [vault[v] EXCEPT !.identity = TRUE])
  /\ UNCHANGED place

\* The settlement puzzle asks for no signature.
TakeSettled(d, p) ==
  /\ place[d] = At("settlement")
  /\ Goes({d}, p)
  /\ UNCHANGED <<vault, signed>>

VaultSpend(v, m) ==
  \/ DepositToPool(v, m) \/ ReceiveFromPool(v, m) \/ AuthorizeSGTLock(v, m)
  \/ Migrate(v, m) \/ AuthorizeSolsSwap(v, m)
  \/ UpdateKeys(v, m) \/ UpdateIdentity(v, m)
=============================================================================
