--------------------------- MODULE MCFileHostLog ---------------------------
(***************************************************************************)
(* FileHostLog with the arrays of MCFileHost.                              *)
(***************************************************************************)
EXTENDS MCFileHost, FileHostLog
=============================================================================
