----------------------------- MODULE MCUpstream -----------------------------
(* Small instances of Upstream: three callers, two or three members; one unit  *)
(* of time is about two seconds (AttemptMax is the library's read timeout).    *)
EXTENDS Upstream, TLC
CONSTANTS c1, c2, c3
MCSymmetry == Permutations({c1, c2, c3})
=============================================================================
