-------------------------- MODULE MCSGTGovernance --------------------------
(***************************************************************************)
(* Small instances of SGTGovernance.                                       *)
(***************************************************************************)
EXTENDS SGTGovernance

Majority == [window |-> 2, quorum |-> 5000, stake |-> 1]
Unanimity == [window |-> 2, quorum |-> 10000, stake |-> 1]
MCPolicy == {Majority, Unanimity}

\* Raises the quorum; made for the first version of the statutes only.
RaiseQuorum == [tag |-> "PARAMETER", from |-> {1}, policy |-> Unanimity]
\* Lowers the quorum to half the supply.
LowerQuorum == [tag |-> "PARAMETER", from |-> {1}, policy |-> Majority]
\* Commits to the first state of the property registry.
MintDeed == [tag |-> "MINT", from |-> {1}, policy |-> Majority]

StatuteBills == {RaiseQuorum}
MintBills == {MintDeed}
VoteBills == {LowerQuorum, MintDeed}
=============================================================================
