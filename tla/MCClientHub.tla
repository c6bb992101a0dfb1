----------------------------- MODULE MCClientHub -----------------------------
(***************************************************************************)
(* Instances of ClientHub: a question, a confirmation and a batch of two   *)
(* client tools, in a run with parallel delegation, and what a client can  *)
(* send for them.  A message name ending in 2 is a second copy of it.      *)
(***************************************************************************)
EXTENDS ClientHub

CONSTANTS ask, ask2, confirm, batch   \* wait calls (model values)

AskMsg == "answer"
AskDup == "answer 2"
Ask2Msg == "second answer"
ConfirmMsg == "confirm"
BatchMsg == "tools"
CancelMsg == "cancel"

MCKind == [w \in Waiters |->
             CASE w \in {ask, ask2} -> "tool_use_answer"
               [] w = confirm -> "tool_confirm_answer"
               [] OTHER -> "client_tool_use_end"]
MCWants == [w \in Waiters |->
              CASE w = ask -> {1} [] w = ask2 -> {2} [] w = confirm -> {3}
                [] OTHER -> {4, 5}]
MCType == [m \in Messages |->
             CASE m = CancelMsg -> "cancel"
               [] m = ConfirmMsg -> "tool_confirm_answer"
               [] m = BatchMsg -> "client_tool_use_end"
               [] OTHER -> "tool_use_answer"]
MCIds == [m \in Messages |->
            CASE m = CancelMsg -> {} [] m = ConfirmMsg -> {3} [] m = BatchMsg -> {4, 5}
              [] m = Ask2Msg -> {2} [] OTHER -> {1}]

(* One answer for each wait, a double click on one of them, and a cancel.  *)
MixedMessages == {AskMsg, AskDup, ConfirmMsg, BatchMsg, CancelMsg}
(* No cancel and no second copy: at most one message for each wait.        *)
SingleMessages == {AskMsg, Ask2Msg, BatchMsg}
CancelMessages == {AskMsg, CancelMsg}
ConfirmMessages == {ConfirmMsg}
EarlyMessages == {AskMsg, Ask2Msg}
=============================================================================
