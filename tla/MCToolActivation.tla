-------------------------- MODULE MCToolActivation --------------------------
(* One server of two owners and the session of a caller bound to it.       *)
EXTENDS ToolActivation, TLC

Symmetry == Permutations(Workers) \cup Permutations(Versions)
OneAtATime == \A v, w \in Workers : h[v] = Idle \/ h[w] = Idle \/ v = w
Owned == Me \in {row.owner, tool[Primary].caller} \cup {h[w].snap.owner : w \in Workers}
\* A session that has no tool to load, has loaded none or is over shows nothing
\* that is not there without it.  It sees of the register the tools alone: not
\* whether a report could be written.  Handlers overlap while there is no
\* session, every caller is on and the caller of the session owns nothing.
Going ==
  /\ (run = 0 /\ off = {} /\ ~Owned) \/ OneAtATime
  /\ run = 0 \/ /\ ~Owned /\ \E i \in ToolIds : tool[i].caller = Me
                /\ ~running => run < MaxRuns /\ saved # NoTools
                /\ off = {} /\ check = "unknown" /\ last \in {"none", "deleted"}
\* A step of the session can wait for the statement that next writes a tool.
InTime ==
  sessionVars' # sessionVars => \A w \in Workers : h[w].pc \in {"idle", "unbind", "sync", "purge"}
=============================================================================
