------------------------- MODULE MCObjectTimeline -------------------------
(* ObjectTimeline for TLC.                                                 *)
EXTENDS ObjectTimeline, TLC

(* Nothing tells the objects apart.                                        *)
Symmetry == Permutations(Objs)
=============================================================================
