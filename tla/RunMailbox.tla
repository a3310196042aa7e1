---- MODULE RunMailbox ----
(***************************************************************************)
(* What the run loop promises: each run has a mailbox of its own.  What it *)
(* sends is shown completely and in order until its first err or done,     *)
(* which closes the run; nothing of an earlier run is ever shown, and the  *)
(* user's commands touch the view only while no run is open.               *)
(***************************************************************************)
EXTENDS Transcript

VARIABLES
  view,    \* what the user reads
  open,    \* a run is open
  mailbox  \* messages the open run has sent and the view has not shown

vars == <<view, open, mailbox>>

Init ==
  /\ view = EmptyView
  /\ open = FALSE
  /\ mailbox = <<>>

Open ==
  /\ ~open /\ open'
  /\ \E t \in {view'.turns[Len(view'.turns) - 1]} :
       t.role = "user" /\ view' = BeginAnswer(view, t.text)
  /\ mailbox' = <<>>

Post ==
  /\ open /\ open'
  /\ mailbox' # <<>> /\ Front(mailbox') = mailbox
  /\ view' = view

Read ==
  /\ open /\ mailbox # <<>>
  /\ view' = Show(view, Head(mailbox))
  /\ IF Head(mailbox).kind \in {"err", "done"}
     THEN ~open' /\ mailbox' = <<>>
     ELSE open' /\ mailbox' = Tail(mailbox)

Command ==
  /\ ~open /\ ~open'
  /\ mailbox' = <<>>
  /\ \/ view' = AddTurn(view, NoteTurn("meta"))
     \/ view' = [view EXCEPT !.turns = <<NoteTurn("meta")>>]

Next == Open \/ Post \/ Read \/ Command

Spec == Init /\ [][Next]_vars
====
