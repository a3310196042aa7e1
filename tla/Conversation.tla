---- MODULE Conversation ----
(***************************************************************************)
(* What package internal/business/conversation computes: the turns of a    *)
(* transcript become the chat messages of an archive (and of the history   *)
(* sent with a prompt), and an archive becomes turns again.  Pure          *)
(* operators: the components that keep turns and files EXTEND this module. *)
(***************************************************************************)
EXTENDS Naturals, FiniteSets, Sequences, SequencesExt

(***************************************************************************)
(* A turn is one block of the transcript.  Text and reasoning are          *)
(* sequences of the chunks they were put together from, so that "empty" is *)
(* <<>> and concatenation is \o.  A tool call's name and arguments are     *)
(* abstracted into its identity `call`; a tool result carries no identity  *)
(* (the code drops it), only its text.                                     *)
(***************************************************************************)
NoCall == <<>>

Turn(role, text, reasoning, stream, call) ==
  [role |-> role, text |-> text, reasoning |-> reasoning,
   stream |-> stream, call |-> call]

UserTurn(text)         == Turn("user", text, <<>>, FALSE, NoCall)
StreamingTurn          == Turn("assistant", <<>>, <<>>, TRUE, NoCall)
AssistantTurn(t, r)    == Turn("assistant", t, r, FALSE, NoCall)
ToolCallTurn(call)     == Turn("toolcall", <<>>, <<>>, FALSE, call)
ToolResultTurn(text)   == Turn("toolresult", text, <<>>, FALSE, NoCall)
NoteTurn(role)         == Turn(role, <<>>, <<>>, FALSE, NoCall)

(* A chat message.  `calls` are the tool calls an assistant message makes, *)
(* `answers` the call a tool message answers (its ToolCallID).             *)
Message(role, content, reasoning, calls, answers) ==
  [role |-> role, content |-> content, reasoning |-> reasoning,
   calls |-> calls, answers |-> answers]

UserMessage(t) == Message("user", t.text, <<>>, <<>>, NoCall)
AssistantMessage(t, calls) ==
  Message("assistant", t.text, t.reasoning, calls, NoCall)
ToolMessage(t, call) == Message("tool", t.text, <<>>, <<>>, call)

(***************************************************************************)
(* The loop of TurnsToMessages, as a recursive function of the index i it  *)
(* stands at.  An assistant turn takes the tool calls right behind it, and *)
(* the tool results right behind those, by position and at most one each.  *)
(***************************************************************************)
BlockLength(turns, i, role) ==
  CHOOSE n \in 0..(Len(turns) + 1 - i) :
    /\ \A k \in i..(i + n - 1) : turns[k].role = role
    /\ i + n <= Len(turns) => turns[i + n].role # role

AnswersTaken(n, results) == IF results < n THEN results ELSE n

\* Bug: a result is paired with the call before its own.
PairingOffByOne(calls, k) == calls[IF k = 1 THEN 1 ELSE k - 1]
AnsweredBy(calls, k) == calls[k]

LoopMessages(turns) ==
  LET From[i \in 1..(Len(turns) + 1)] ==
    IF i > Len(turns) THEN <<>>
    ELSE CASE turns[i].role = "user" -> <<UserMessage(turns[i])>> \o From[i + 1]
           [] turns[i].role = "assistant" /\ ~turns[i].stream ->
                LET n     == BlockLength(turns, i + 1, "toolcall")
                    first == i + 1 + n
                    m     == AnswersTaken(n, BlockLength(turns, first, "toolresult"))
                    calls == [k \in 1..n |-> turns[i + k].call]
                IN  <<AssistantMessage(turns[i], calls)>>
                    \o [k \in 1..m |-> ToolMessage(turns[first + k - 1], AnsweredBy(calls, k))]
                    \o From[first + m]
           [] OTHER -> From[i + 1]
  IN From[1]

\* Bug: cuts without looking at what the cut begins with.
CutOnly(msgs, max) ==
  IF max = 0 \/ Len(msgs) <= max THEN msgs
  ELSE SubSeq(msgs, Len(msgs) - max + 1, Len(msgs))

\* Bug: drops one message of the front, tool message or not.
TrimOneTooMany(msgs, max) ==
  IF max = 0 \/ Len(msgs) <= max THEN msgs
  ELSE SubSeq(msgs, Len(msgs) - max + 2, Len(msgs))

(***************************************************************************)
(* The last `max` messages (0: all of them), less the tool messages the    *)
(* cut left at the front.                                                  *)
(***************************************************************************)
trimMessageTail(msgs, max) ==
  IF max = 0 \/ Len(msgs) <= max THEN msgs
  ELSE LET first == Len(msgs) - max + 1
           kept  == { i \in first..Len(msgs) : msgs[i].role # "tool" }
       IN  IF kept = {} THEN <<>>
           ELSE SubSeq(msgs, CHOOSE i \in kept : \A j \in kept : i <= j, Len(msgs))

TurnsToMessages(turns, max) == trimMessageTail(LoopMessages(turns), max)

\* Bug: a restored answer counts as still being streamed.
RestoredAsStreaming(m) ==
  CASE m.role = "user"      -> <<UserTurn(m.content)>>
    [] m.role = "assistant" -> <<[AssistantTurn(m.content, m.reasoning) EXCEPT !.stream = TRUE]>>
    [] m.role = "tool"      -> <<ToolResultTurn(m.content)>>
    [] OTHER                -> <<>>

(***************************************************************************)
(* An archive becomes turns: one per message, and one per tool call of an  *)
(* assistant message.  Messages of other roles are not shown.              *)
(***************************************************************************)
TurnsOfMessage(m) ==
  CASE m.role = "user"      -> <<UserTurn(m.content)>>
    [] m.role = "assistant" -> <<AssistantTurn(m.content, m.reasoning)>>
                               \o [k \in 1..Len(m.calls) |-> ToolCallTurn(m.calls[k])]
    [] m.role = "tool"      -> <<ToolResultTurn(m.content)>>
    [] OTHER                -> <<>>

\* Bug: the calls of an assistant message are not restored.
TurnsWithoutCalls(msgs) ==
  FlattenSeq([i \in 1..Len(msgs) |-> SubSeq(TurnsOfMessage(msgs[i]), 1, 1)])

MessagesToTurns(msgs) ==
  FlattenSeq([i \in 1..Len(msgs) |-> TurnsOfMessage(msgs[i])])

(***************************************************************************)
(* What of a transcript is archived or sent: no notes of the interface, no *)
(* answer still being streamed.                                            *)
(***************************************************************************)
IsPersistable(t) == t.role \notin {"error", "meta"} /\ ~(t.role = "assistant" /\ t.stream)

persistableConvTurns(turns) ==
  FlattenSeq([i \in 1..Len(turns) |-> IF IsPersistable(turns[i]) THEN <<turns[i]>> ELSE <<>>])

\* Bug: leaves out the last turn only.
HistoryWithPrompt(turns) ==
  IF Len(turns) < 2 THEN <<>>
  ELSE persistableConvTurns(SubSeq(turns, 1, Len(turns) - 1))

(* The history of a prompt leaves out the two turns startRun just added:   *)
(* the prompt itself and the empty answer.                                 *)
historyTurnsForRun(turns) ==
  IF Len(turns) < 2 THEN <<>>
  ELSE persistableConvTurns(SubSeq(turns, 1, Len(turns) - 2))

====
