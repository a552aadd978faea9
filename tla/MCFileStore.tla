---------------------------- MODULE MCFileStore ----------------------------
(***************************************************************************)
(* FileStore for TLC.                                                       *)
(***************************************************************************)
EXTENDS FileStore
=============================================================================
