---------------------------- MODULE MCWatermark ----------------------------
(***************************************************************************)
(* Watermark for TLC.                                                       *)
(***************************************************************************)
EXTENDS Watermark
=============================================================================
