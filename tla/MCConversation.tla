---- MODULE MCConversation ----
(***************************************************************************)
(* Runs the conversions of Conversation over every transcript of at most   *)
(* MaxTurns turns, well formed or not: TurnsToMessages is given whatever   *)
(* the event loop left behind.  The k-th turn says <<k>> and, when it is a *)
(* tool call, is the call <<k>>, so that no two turns look alike.          *)
(***************************************************************************)
EXTENDS Conversation

CONSTANTS
  MaxTurns,   \* longest transcript
  MaxContext  \* largest memory.max_context_messages tried

VARIABLE turns

NextTurns ==
  LET k == <<Len(turns) + 1>> IN
  { UserTurn(k), AssistantTurn(k, k), StreamingTurn, ToolCallTurn(k),
    ToolResultTurn(k), NoteTurn("error"), NoteTurn("meta") }

Init == turns = <<>>

Next == /\ Len(turns) < MaxTurns
        /\ \E t \in NextTurns : turns' = Append(turns, t)

Spec == Init /\ [][Next]_turns

-----------------------------------------------------------------------------
(* The grouping the loop computes, said without a loop.                    *)

IsRun(from, to, role) == \A k \in from..to : turns[k].role = role

IsAnswer(i) == turns[i].role = "assistant" /\ ~turns[i].stream

CallsOf(a) == { k \in (a + 1)..Len(turns) : IsRun(a + 1, k, "toolcall") }

(* Result i answers the j-th call of answer a when it is the j-th turn     *)
(* behind a's calls, only results stand between, and there is such a call. *)
Answers(i, a, j) ==
  /\ IsAnswer(a)
  /\ a + j \in CallsOf(a)
  /\ i = a + Cardinality(CallsOf(a)) + j
  /\ IsRun(a + Cardinality(CallsOf(a)) + 1, i, "toolresult")

MessageAt(i) ==
  CASE turns[i].role = "user" -> <<UserMessage(turns[i])>>
    [] IsAnswer(i) ->
         <<AssistantMessage(turns[i], [k \in 1..Cardinality(CallsOf(i)) |-> turns[i + k].call])>>
    [] turns[i].role = "toolresult" ->
         IF \E a, j \in 1..i : Answers(i, a, j)
         THEN LET p == CHOOSE p \in (1..i) \X (1..i) : Answers(i, p[1], p[2])
              IN  <<ToolMessage(turns[i], turns[p[1] + p[2]].call)>>
         ELSE <<>>
    [] OTHER -> <<>>

Saved == TurnsToMessages(turns, 0)

(* TurnsToMessages takes exactly the prompts, the finished answers with    *)
(* the calls behind them, and the results its positional pairing reaches.  *)
LoopIsTheGrouping ==
  Saved = FlattenSeq([i \in 1..Len(turns) |-> MessageAt(i)])

(* An archive is a fixed point: what a restart loads and saves again is    *)
(* the archive it found.                                                   *)
ReloadKeepsTheArchive ==
  TurnsToMessages(MessagesToTurns(Saved), 0) = Saved

(* A transcript in which every call and result belongs to an answer comes  *)
(* back from the archive block for block ("Turn corresponds one to one to  *)
(* the TUI transcript", turn.go:12).                                       *)
Grouped ==
  \A i \in 1..Len(turns) :
    /\ IsPersistable(turns[i])
    /\ turns[i].role = "toolcall" => \E a \in 1..i : IsAnswer(a) /\ i \in CallsOf(a)
    /\ turns[i].role = "toolresult" => \E a, j \in 1..i : Answers(i, a, j)

GroupedTranscriptComesBack == Grouped => MessagesToTurns(Saved) = turns

(* What a prompt is sent with: the tail of the archive, at most max        *)
(* messages long, never opening with a tool message, and shorter than max  *)
(* only by the tool messages the cut would have opened with.               *)
HistoryIsTheTail ==
  \A max \in 1..MaxContext :
    LET h    == TurnsToMessages(turns, max)
        lost == Len(Saved) - Len(h)
    IN  /\ IsSuffix(h, Saved)
        /\ Len(h) <= max
        /\ h # <<>> /\ lost > 0 => h[1].role # "tool"
        /\ Len(Saved) > max =>
             \A i \in (Len(Saved) - max + 1)..lost : Saved[i].role = "tool"

(* In every history the model is given, a tool message follows the         *)
(* assistant message whose call it answers, with only other answers to     *)
(* that message between, and no call is answered twice.                    *)
HistoryIsWellFormed ==
  \A max \in 0..MaxContext :
    LET h == TurnsToMessages(turns, max) IN
    \A i \in 1..Len(h) :
      h[i].role = "tool" =>
        /\ \E a \in 1..(i - 1) :
             /\ h[a].role = "assistant"
             /\ h[i].answers \in ToSet(h[a].calls)
             /\ \A k \in (a + 1)..i : h[k].role = "tool"
        /\ \A k \in 1..Len(h) : h[k].role = "tool" /\ h[k].answers = h[i].answers => k = i
====
