---------------------------- MODULE MCMemoryStore ----------------------------
(* Small instances of MemoryStore: a caller's space and a user's; a run    *)
(* may change both and creates in the user's.                              *)
EXTENDS MemoryStore

CONSTANTS caller, user, f1, f2, w1, w2, w3

MCKind == [w \in Writers |->
             IF w = w1 THEN "admin" ELSE IF w = w2 THEN "reflection" ELSE "model"]
MCScope == [w \in Writers |-> Spaces]
MCTarget == [w \in Writers |-> IF w = w1 THEN Spaces ELSE Spaces \cap {user}]
=============================================================================
