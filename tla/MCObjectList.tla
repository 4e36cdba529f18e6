---------------------------- MODULE MCObjectList ----------------------------
(* ObjectList for TLC: one object is stored before, the other may be added *)
(* later. No symmetry: LoadingEnds is a liveness property.                 *)
EXTENDS ObjectList, TLC

CONSTANTS o1, o2, t1, t2
MCStored == o1 :> t1 @@ o2 :> None
=============================================================================
