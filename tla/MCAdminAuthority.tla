-------------------------- MODULE MCAdminAuthority --------------------------
(***************************************************************************)
(* The three administrators with a spare daily and a spare recovery key.   *)
(***************************************************************************)
EXTENDS AdminAuthority

CONSTANTS k0, k1, k2, spare, r0, r1, r2, kit

Keys(k, r) == [daily |-> k, recovery |-> r]

MCGenesis == [s \in Slot |-> CASE s = 0 -> Keys(k0, r0) [] s = 1 -> Keys(k1, r1)
                                [] OTHER -> Keys(k2, r2)]

\* Routine rotations and kit rotations of slots 0 and 1; a lost key of any slot
\* is replaced by any of them.
MCCredential == {MCGenesis[s] : s \in Slot} \cup
  {Keys(spare, r0), Keys(k0, kit), Keys(spare, r1), Keys(k1, kit)}
=============================================================================
