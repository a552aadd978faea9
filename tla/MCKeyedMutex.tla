---------------------------- MODULE MCKeyedMutex ----------------------------
(***************************************************************************)
(* KeyedMutex for TLC: three workers on two keys.  A mutex cell is needed   *)
(* per key in the table; a third lets a key get a different mutex than the  *)
(* one it had before.                                                       *)
(***************************************************************************)
EXTENDS KeyedMutex
=============================================================================
