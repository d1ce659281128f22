---------------------------- MODULE MCFtlReader ----------------------------
(* Small instances of FtlReader for TLC. *)
EXTENDS FtlReader

CONSTANTS a1, a2, v0, v1, v2

OneVaries == {<<a1, v1>>, <<a1, v2>>, <<a2, v0>>}
=============================================================================
