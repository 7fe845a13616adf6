------------------------------ MODULE KeyChange ------------------------------
(***************************************************************************)
(* What the administrators' authority promises about the keys of its       *)
(* slots: a key changes only to one that was requested, and only when the  *)
(* request has waited as long as its kind asks; until it is granted it can *)
(* be vetoed, and there is one request at a time.  Who may request or veto *)
(* is not said.                                                            *)
(***************************************************************************)
EXTENDS Integers

CONSTANTS
  Slot,
  Credential,    \* a daily key and a recovery key
  Genesis,       \* the credential each slot starts with
  RoutineDelay,  \* how long a request waits that keeps one of the two keys
  LostDelay,     \* how long any other waits
  MaxTime        \* bound: the clock stops here

VARIABLES
  now,
  keys,     \* the credential of each slot
  request   \* the request under way: a set of one record, or of none

keyVars == <<now, keys, request>>

Init == now = 0 /\ keys = Genesis /\ request = {}

\* One half of the credential changes: the other key can speak for the change.
Rotates(old, new) == (new.daily = old.daily) # (new.recovery = old.recovery)

Replaces(old, new) == new.daily # old.daily

\* How long the change of a credential may be made to wait.
Waits(old, new) ==
  {d \in {RoutineDelay, LostDelay} :
     \/ d = RoutineDelay /\ Rotates(old, new)
     \/ d = LostDelay /\ Replaces(old, new)}

Request(s, new) ==
  /\ request = {}
  /\ \E d \in Waits(keys[s], new) : request' = {[slot |-> s, key |-> new, ready |-> now + d]}
  /\ UNCHANGED <<now, keys>>

Veto == request' = {} /\ UNCHANGED <<now, keys>>

Grant(r) ==
  /\ now >= r.ready
  /\ keys' = [keys EXCEPT ![r.slot] = r.key]
  /\ request' = {}
  /\ UNCHANGED now

Tick == now' >= now /\ UNCHANGED <<keys, request>>

Next ==
  \/ \E s \in Slot, new \in Credential : Request(s, new)
  \/ Veto
  \/ \E r \in request : Grant(r)
  \/ Tick

Spec == Init /\ [][Next]_keyVars
=============================================================================
