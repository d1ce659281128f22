------------------------------- MODULE MCFtl -------------------------------
(* Small instances of FtlLog for TLC. *)
EXTENDS FtlLog, TLC

CONSTANTS a1, a2, a3, v0, v1, v2

AllRequests == {"save", "collect", "clear", "sweep"}

\* Records are only ever copied, so one address with two words to save shows
\* all that stale records can do; the others save one word each.
OneVaries == {<<a1, v1>>, <<a1, v2>>, <<a2, v0>>}
OneWord == Addr \X {v0}
Symmetry == Permutations({a1, a2, a3})
=============================================================================
