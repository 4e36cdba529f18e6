----------------------------- MODULE MCPoller -----------------------------
(* Poller for TLC: the constants get their values in the .cfg files.       *)
EXTENDS Poller, TLC

(* Objects that parse are interchangeable, and so are values that decode.  *)
Symmetry == Permutations(Objs \ Malformed) \cup Permutations(Values \ Undecodable)
=============================================================================
