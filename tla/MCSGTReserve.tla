---------------------------- MODULE MCSGTReserve ----------------------------
(***************************************************************************)
(* Small instances of SGTReserve.                                          *)
(***************************************************************************)
EXTENDS SGTReserve

ChainSale == [kind |-> "sale", amount |-> 1, rail |-> "chain", expires |-> 2]
ExternalSale == [kind |-> "sale", amount |-> 1, rail |-> "external", expires |-> 2]
Grant == [kind |-> "grant", amount |-> 2, rail |-> "chain", expires |-> 0]
Redemption == [kind |-> "redemption", amount |-> 1, rail |-> "chain", expires |-> 0]

ReserveBills == {ChainSale, ExternalSale, Grant, Redemption}
AllocationBills == {Grant, Redemption}
=============================================================================
