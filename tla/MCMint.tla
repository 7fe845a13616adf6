------------------------------- MODULE MCMint -------------------------------
(***************************************************************************)
(* A small instance of Mint: two deeds of one property, one of another.    *)
(***************************************************************************)
EXTENDS Mint, TLC

CONSTANTS d1, d2, d3, p, q

Properties == (d1 :> p) @@ (d2 :> p) @@ (d3 :> q)
=============================================================================
