----------------------------- MODULE MCWorkspace -----------------------------
(* Small instances of Workspace: r1 and r2 are runs of one caller.         *)
EXTENDS Workspace

CONSTANTS r1, r2, r3, c1, c2

MCCaller == [r \in Runs |-> IF r = r3 THEN c2 ELSE c1]
=============================================================================
