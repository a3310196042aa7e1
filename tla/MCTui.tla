---- MODULE MCTui ----
(***************************************************************************)
(* Checks Tui: conversations, starts, prompts and calls, two of each.      *)
(***************************************************************************)
EXTENDS Tui, TLC

(* Output budgets of the prompts.                                          *)
OneThenNone == <<1, 0>>
One         == <<1>>

(* Messages arrive whole: how they arrive matters to the run loop only.    *)
Whole == [p \in 1..MaxRuns |-> {"whole"}]

(* Conversation IDs are interchangeable.                                   *)
ConvSymmetry == Permutations(Convs)

(* Once the screen is closed the goroutines, the channel and the keys play *)
(* no part: they end with the process, whatever their state is.  A         *)
(* goroutine that only has to say that it is over reads nothing else.      *)
Ending(g) ==
  \/ g.pc = "deferred"
  \/ g.pc = "send" /\ g.resume \in {"deferred", "ended"}
ToldApart ==
  [r \in Runs |-> IF Ending(gor[r]) THEN [gor[r] EXCEPT !.owed = NoRun.owed, !.n = 0]
                  ELSE gor[r]]
State ==
  IF proc \in {"quit", "saved"} THEN <<view, procVars, diskVars, asked>>
  ELSE <<view, procVars, diskVars, asked, busy, runID, editing, busVars, ToldApart>>
====
