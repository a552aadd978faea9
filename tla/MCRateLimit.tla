---------------------------- MODULE MCRateLimit ----------------------------
(***************************************************************************)
(* RateLimit for TLC.                                                       *)
(***************************************************************************)
EXTENDS RateLimit
=============================================================================
