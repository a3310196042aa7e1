---- MODULE Transcript ----
(***************************************************************************)
(* How the event loop of internal/tui/model.go edits the transcript.  A    *)
(* view is what the user reads: the turns, and the text and reasoning      *)
(* streamed so far and not yet moved into a turn (the code's pending and   *)
(* pendingReasoning builders).  Show(v, m) is the effect of one stream     *)
(* message of the current run on the view.  Blank-only text, which the     *)
(* code's TrimSpace treats as empty, is left out: every chunk is visible.  *)
(***************************************************************************)
EXTENDS Conversation

View(turns, pending, pendingReasoning) ==
  [turns |-> turns, pending |-> pending, pendingReasoning |-> pendingReasoning]

EmptyView == View(<<>>, <<>>, <<>>)

AddTurn(v, t) == [v EXCEPT !.turns = Append(@, t)]

LastTurn(v) == v.turns[Len(v.turns)]

EndsWithAssistant(v) == v.turns # <<>> /\ LastTurn(v).role = "assistant"

ensureStreamingAssistantTurn(v) ==
  IF EndsWithAssistant(v) /\ LastTurn(v).stream THEN v ELSE AddTurn(v, StreamingTurn)

(* Both appends do nothing when the last turn is not an assistant turn.    *)
appendAssistantChunk(v, text) ==
  IF EndsWithAssistant(v)
  THEN [v EXCEPT !.turns[Len(v.turns)] =
                   [LastTurn(v) EXCEPT !.text = @ \o text, !.stream = FALSE]]
  ELSE v

appendAssistantReasoning(v, reasoning) ==
  IF EndsWithAssistant(v)
  THEN [v EXCEPT !.turns[Len(v.turns)].reasoning = @ \o reasoning]
  ELSE v

(* The pending text moves into the last turn and the builders are reset,   *)
(* whether or not the last turn could take it.                             *)
Flush(v) ==
  LET r == IF v.pendingReasoning # <<>>
           THEN appendAssistantReasoning(v, v.pendingReasoning) ELSE v
      t == IF v.pending # <<>> THEN appendAssistantChunk(r, v.pending) ELSE r
  IN  [t EXCEPT !.pending = <<>>, !.pendingReasoning = <<>>]

finalizeAssistantStream(v) ==
  IF EndsWithAssistant(v) THEN [v EXCEPT !.turns[Len(v.turns)].stream = FALSE] ELSE v

stripTrailingEmptyAssistant(v) ==
  IF EndsWithAssistant(v) /\ LastTurn(v).text = <<>> /\ LastTurn(v).reasoning = <<>>
                          /\ v.pending = <<>> /\ v.pendingReasoning = <<>>
  THEN [v EXCEPT !.turns = Front(@)]
  ELSE v

(* startRun: the prompt, and the empty answer that is about to stream.     *)
BeginAnswer(v, prompt) ==
  View(v.turns \o <<UserTurn(prompt), StreamingTurn>>, <<>>, <<>>)

-----------------------------------------------------------------------------
(* The arms of Update for a stream message of the current run.             *)

\* Bug: the error arm forgets the text that was still pending.
ShowErrorUnflushed(v) ==
  AddTurn(stripTrailingEmptyAssistant(finalizeAssistantStream(
            [v EXCEPT !.pending = <<>>, !.pendingReasoning = <<>>])), NoteTurn("error"))

ShowError(v) ==
  AddTurn(stripTrailingEmptyAssistant(finalizeAssistantStream(Flush(v))), NoteTurn("error"))

ShowDone(v, cancelled) ==
  LET f == finalizeAssistantStream(Flush(v))
  IN  IF cancelled THEN AddTurn(f, NoteTurn("meta")) ELSE f

ShowToolCalls(v, calls) ==
  LET f == stripTrailingEmptyAssistant(finalizeAssistantStream(Flush(v)))
  IN  [f EXCEPT !.turns = @ \o [k \in 1..Len(calls) |-> ToolCallTurn(calls[k])]]

(* Nothing is shown of a result without a name and a body.                 *)
ShowToolResult(v, text) ==
  IF text = <<>> THEN v ELSE AddTurn(v, ToolResultTurn(text))

ShowReasoning(v, chunk) ==
  [ensureStreamingAssistantTurn(v) EXCEPT !.pendingReasoning = @ \o chunk]

ShowText(v, chunk) == [ensureStreamingAssistantTurn(v) EXCEPT !.pending = @ \o chunk]

(* finishRun also resets the builders; Flush has done so already.          *)
Show(v, m) ==
  CASE m.kind = "err"       -> ShowError(v)
    [] m.kind = "done"      -> ShowDone(v, m.cancelled)
    [] m.kind = "calls"     -> ShowToolCalls(v, m.body)
    [] m.kind = "result"    -> ShowToolResult(v, m.body)
    [] m.kind = "reasoning" -> ShowReasoning(v, m.body)
    [] m.kind = "text"      -> ShowText(v, m.body)

(* Every chunk, call and result the view holds, shown or pending.          *)
Shown(v) ==
  ToSet(v.pending) \cup ToSet(v.pendingReasoning) \cup
  UNION { ToSet(v.turns[i].text) \cup ToSet(v.turns[i].reasoning) \cup
          (IF v.turns[i].role = "toolcall" THEN {v.turns[i].call} ELSE {}) :
            i \in 1..Len(v.turns) }
====
