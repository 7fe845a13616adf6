----------------------------- MODULE MCGoverned -----------------------------
(***************************************************************************)
(* Small instances of Governed: a fee change, a quorum change, a           *)
(* collection and a pause; two codes and two sets of parameters.           *)
(***************************************************************************)
EXTENDS Governed

CONSTANTS k1, c1, c2, p1, p2

GenesisParameters ==
  [p \in Parameter |->
    CASE p = "quorum_bps" -> 5000
      [] p = "min_proposal_stake" -> 1
      [] p = "exchange_fee_bps" -> 100
      [] p \in {"protocol_fee_bps", "sgt_rewards_fee_bps"} -> 50
      [] OTHER -> 3600]

Collection ==
  [nav |-> 1, ceiling |-> 2, nav_version |-> 1, valid_after |-> 0,
   valid_until |-> 2, status |-> 1]

Changes ==
  {[kind |-> "parameter", key |-> "protocol_fee_bps", entry |-> [value |-> 40]],
   [kind |-> "parameter", key |-> "quorum_bps", entry |-> [value |-> 6000]],
   [kind |-> "collection", key |-> k1, entry |-> Collection],
   [kind |-> "pause", key |-> k1, entry |-> [paused |-> 1, expires |-> 1]]}

\* The fast track's repair of the parameters, the code of a routine bill, and a bill
\* that skips a version; the first names the version at genesis.
Contents ==
  {[code |-> c1, params |-> p2, version |-> 1], [code |-> c1, params |-> p2, version |-> 2],
   [code |-> c2, params |-> p1, version |-> 2], [code |-> c2, params |-> p1, version |-> 3]}

Entries == {[kind |-> "parameter", key |-> "quorum_bps"], [kind |-> "collection", key |-> k1]}
=============================================================================
