----------------------------- MODULE MCDelivery -----------------------------
(***************************************************************************)
(* Delivery for TLC: one delivery with two changes, and one without an      *)
(* identifier that carries the second of them.                              *)
(***************************************************************************)
EXTENDS Delivery, TLC

CONSTANTS d1, d2, c1, c2

TwoDeliveries == (d1 :> <<c1, c2>>) @@ (d2 :> <<c2>>)
=============================================================================
