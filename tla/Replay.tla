------------------------------- MODULE Replay -------------------------------
(***************************************************************************)
(* The history that the user interface asks for: the stored messages of a  *)
(* session, in the order of the timeline, as the events of the live        *)
(* protocol (service/react/history.go).  It may be asked for at any time.  *)
(* The messages of sub-agents, which have runs of their own, are left out  *)
(* (as they are in SessionContext), and with them the rule that a run is   *)
(* not ended by the messages of its children.                              *)
(***************************************************************************)
EXTENDS SessionContext

\* What kind of event, of which run, message and call.
Event(type, r, i, k) == [type |-> type, run |-> r, of |-> i, call |-> k]

\* Mutant of Earlier: the number in the run comes first.
EarlierBySeq(i, j) ==
  stored[i].seq < stored[j].seq \/ (stored[i].seq = stored[j].seq /\ i < j)

\* GetReactMessagesBySessionIDTimeline: created_at, then the order of the runs,
\* then seq, then the key.
Earlier(i, j) ==
  \/ stored[i].at < stored[j].at
  \/ /\ stored[i].at = stored[j].at
     /\ \/ stored[i].run < stored[j].run
        \/ /\ stored[i].run = stored[j].run
           /\ stored[i].seq < stored[j].seq \/ (stored[i].seq = stored[j].seq /\ i < j)

Timeline ==
  [n \in Ids |-> CHOOSE i \in Ids : Cardinality({j \in Ids : Earlier(j, i)}) = n - 1]

\* The row of a run that is over has a state that a terminal event tells.  A
\* run whose process died keeps its state until a recovery expires it: until
\* then its list is this one without that event.
IsOver(r) == r < run \/ pc = "idle"

\* appendMessageEvents: an assistant message is its text and its tool uses, a
\* result message the ends of the calls that it answers.
EventsOf(i) ==
  LET message == stored[i]
      Each(type, calls) == [n \in DOMAIN calls |-> Event(type, message.run, i, calls[n])]
  IN CASE message.type = "user_input"        -> <<Event("run", message.run, i, 0)>>
       [] message.type = "assistant"         -> <<Event("content", message.run, i, 0)>>
                                                  \o Each("tool_use_start", InOrder(1..message.uses))
       [] message.type = "assistant_partial" -> <<Event("content", message.run, i, 0)>>
       [] message.type = "tool_result"       -> Each("tool_use_end", InOrder(message.answers))
       [] message.type = "compact_summary"   -> <<Event("compact_end", message.run, i, 0)>>

\* appendRunTerminal: once per run.
Terminated(b, r) ==
  IF r \in b.closed \/ r = 0 THEN b
  ELSE [b EXCEPT !.closed = @ \cup {r},
                 !.events = IF IsOver(r) THEN Append(@, Event("terminal", r, 0, 0)) ELSE @]

\* Build: the first message of another run ends the one before.
Listed(b, i) ==
  LET r == stored[i].run
      before == IF b.current # r THEN Terminated(b, b.current) ELSE b
  IN [before EXCEPT !.current = r, !.events = @ \o EventsOf(i)]

\* What is built of the first n messages of the timeline.
Built[n \in 0..Len(stored)] ==
  IF n = 0 THEN [events |-> <<>>, closed |-> {}, current |-> 0] ELSE Listed(Built[n - 1], Timeline[n])

Build == LET b == Built[Len(stored)] IN Terminated(b, b.current).events

\* Mutant of Tracked: the last message that a summary covers is not dropped.
TrackedToTheLast ==
  {i \in Ids : /\ stored[i].type # "assistant_partial"
               /\ ~\E s \in Of("compact_summary") :
                     Earlier(i, s) /\ stored[s].covers[stored[i].run] > stored[i].seq}

\* trackContextUsage, dropCoveredContextMessages: of what came before it, a
\* summary drops what it covers.
Tracked ==
  {i \in Ids : /\ stored[i].type # "assistant_partial"
               /\ ~\E s \in Of("compact_summary") :
                     Earlier(i, s) /\ stored[s].covers[stored[i].run] >= stored[i].seq}
-----------------------------------------------------------------------------
(* Properties.                                                             *)

\* Of a run that is over nothing comes after its terminal event, of which there
\* is one; a call ends after it started, once; and each run begins with the
\* input of its user.
ToldAsItHappened(e) ==
  /\ \A r \in 1..run : IsOver(r) =>
       Cardinality({n \in DOMAIN e : e[n].type = "terminal" /\ e[n].run = r}) = 1
  /\ \A m, n \in DOMAIN e : m < n /\ e[m].run = e[n].run =>
       e[m].type # "terminal" /\ e[n].type # "run"
  /\ \A n \in DOMAIN e : e[n].type = "tool_use_end" =>
       /\ \E m \in 1..(n - 1) : /\ e[m].type = "tool_use_start" /\ e[m].call = e[n].call
                                /\ e[m].of = stored[e[n].of].for
       /\ \A m \in 1..(n - 1) : e[m].type = "tool_use_end" /\ e[m].call = e[n].call =>
            stored[e[m].of].for # stored[e[n].of].for

\* The history that Build makes tells a session as it happened.  Asked for
\* while calls run, it shows what a run cut there leaves as well: these states
\* are left to the others.
ReplayIsWhole == pc # "tools" => ToldAsItHappened(Build)

\* The context that the history counts the tokens of is the one the model is
\* sent, in runs that compact it once at most.
TrackedIsContext ==
  pc = "model" /\ compacts <= 1 => Tracked = Range(ctx)
=============================================================================
