---------------------------- MODULE MCRunLifecycle ----------------------------
(* Small instances of RunLifecycle: an outer run with sub runs, and a      *)
(* second outer run that wants the session.                                *)
EXTENDS RunLifecycle

CONSTANTS o1, o2, c1, c2

MCParent == [r \in Runs |-> IF r = c1 THEN o1 ELSE IF r = c2 THEN o1 ELSE NoRun]
MCAncestors == [r \in Runs |-> IF Parent[r] = NoRun THEN {} ELSE {Parent[r]}]
=============================================================================
