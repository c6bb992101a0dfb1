----------------------------- MODULE MCAsyncTask -----------------------------
(* Small instances of AsyncTask: t1 and t2 submit one job.                 *)
EXTENDS AsyncTask

CONSTANTS t1, t2, t3, k1, k2, s1, s2

MCKey == [t \in Tasks |-> IF t = t3 THEN k2 ELSE k1]
MCOutcome == [k \in Keys |-> IF k = k2 THEN "failed" ELSE "succeeded"]
=============================================================================
