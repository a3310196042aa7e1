---- MODULE RunLoop ----
(***************************************************************************)
(* The run loop of the terminal interface (internal/tui/model.go).  Three  *)
(* kinds of process work on a prompt:                                      *)
(*                                                                         *)
(*   - the goroutine startRun spawns, one per run: it iterates over the    *)
(*     events of the agent and sends stream messages on the channel ch;    *)
(*   - a pump, the command waitStream returns: it receives one message     *)
(*     from ch, posts it to the event loop and ends;                       *)
(*   - the event loop (Bubble Tea calls Update for one message or key at a *)
(*     time): it shows the message and, unless the run is over, returns    *)
(*     the next pump.                                                      *)
(*                                                                         *)
(* One channel serves every run, so what an ended run still sends reaches  *)
(* the pumps of its successors; Update drops it by its run ID.             *)
(***************************************************************************)
EXTENDS Transcript

CONSTANTS
  MaxRuns,     \* prompts typed (bound)
  Cap,         \* capacity of ch: 128 in the code
  Agents,      \* agents whose events one run interleaves: one, or several
               \* in the parallel mode
  Outputs,     \* chunks and messages the model produces, per prompt (bound)
  MaxCalls,    \* tool calls of one assistant message (bound)
  Forms,       \* how assistant output arrives, "stream" or "whole", per prompt
  Writers,     \* prompts whose agent leaves a session value behind
  MaxNotes     \* notes the user's commands leave in one transcript (bound)

ASSUME ConstantsAssumption ==
  /\ MaxRuns \in Nat
  /\ Cap \in Nat \ {0}
  /\ Agents # {}
  /\ Outputs \in [1..MaxRuns -> Nat]
  /\ MaxCalls \in Nat
  /\ Forms \in [1..MaxRuns -> SUBSET {"stream", "whole"}]
  /\ MaxNotes \in Nat

VARIABLES
  view,     \* Model.turns, pending and pendingReasoning
  busy,     \* Model.busy: a run is shown as going on
  runID,    \* Model.runID, the number of the latest run
  editing,  \* Model.editingConfig: every message goes to the config screen
  ch,       \* Model.ch
  waiting,  \* pumps blocked on ch
  inbox,    \* messages pumps have received and Update has not
  gor,      \* per run ID, the goroutine of that run and its context
  asked     \* prompts typed so far, the identity of a prompt

uiVars  == <<view, busy, runID, editing, asked>>
busVars == <<ch, waiting, inbox>>
vars    == <<view, busy, runID, editing, ch, waiting, inbox, gor, asked>>

-----------------------------------------------------------------------------
(***************************************************************************)
(* A stream message.  `body` holds the chunk of a text or reasoning        *)
(* message, the calls of a calls message, the text of a result (the call   *)
(* it answers); `session` is the snapshot err and done carry.              *)
(***************************************************************************)
StreamMsg(r, kind, body) ==
  [run |-> r, kind |-> kind, body |-> body, cancelled |-> FALSE, session |-> {}]

ErrMsg(r, snap) ==
  [run |-> r, kind |-> "err", body |-> <<>>, cancelled |-> FALSE, session |-> snap]

DoneMsg(r, cancelled, snap) ==
  [run |-> r, kind |-> "done", body |-> <<>>, cancelled |-> cancelled, session |-> snap]

IsTerminal(m) == m.kind \in {"err", "done"}

(***************************************************************************)
(* The goroutine of a run.  pc is where it stands:                         *)
(*   loop, stream   about to look at its context                           *)
(*   next, recv     blocked on the agent's events / on a model stream      *)
(*   send           sending `out` on ch, then going on at `resume`         *)
(*   deferred       about to run the deferred function                     *)
(* `owed` are the calls each agent made and has no result of, `agent` the  *)
(* one whose stream is being read, `n` the outputs so far, `snap` what the *)
(* session callback captured.  A goroutine that is over is forgotten.      *)
(***************************************************************************)
NoRun ==
  [pc |-> "idle", resume |-> "idle", prompt |-> 0, n |-> 0, out |-> <<>>,
   owed |-> [a \in Agents |-> <<>>], agent |-> CHOOSE a \in Agents : TRUE,
   cancelled |-> FALSE, snap |-> {}]

PromptText(p) == << <<p, 0, 0>> >>

Runs == 1..MaxRuns

HasOutput(r) == gor[r].n < Outputs[gor[r].prompt]

(* What the run's next output is called: reasoning 0, text 1, calls 2...   *)
Token(r, part) == <<gor[r].prompt, gor[r].n + 1, part>>

ReasoningMsgs(r) == <<StreamMsg(r, "reasoning", <<Token(r, 0)>>)>>
TextMsgs(r)      == <<StreamMsg(r, "text", <<Token(r, 1)>>)>>
CallTokens(r, c) == [k \in 1..c |-> Token(r, k + 1)]

Init ==
  /\ view = EmptyView
  /\ busy = FALSE
  /\ runID = 0
  /\ editing = FALSE
  /\ ch = <<>>
  /\ waiting = 0
  /\ inbox = <<>>
  /\ gor = [r \in Runs |-> NoRun]
  /\ asked = 0

-----------------------------------------------------------------------------
(* The run's goroutine.                                                    *)

Advance(r, pc) == gor' = [gor EXCEPT ![r].pc = pc]

(* Sends msgs one by one, then goes on at resume; the record g is what     *)
(* else changed in the goroutine.                                          *)
SendThen(r, g, msgs, resume) ==
  gor' = [gor EXCEPT ![r] = [g EXCEPT !.pc = "send", !.out = msgs, !.resume = resume]]

(* The looks at ctx.Err() at the top of both loops.                        *)
CheckContext(r) ==
  /\ gor[r].pc \in {"loop", "stream"}
  /\ Advance(r, IF gor[r].cancelled THEN "deferred"
                ELSE IF gor[r].pc = "loop" THEN "next" ELSE "recv")
  /\ UNCHANGED <<uiVars, busVars>>

(* The iterator is exhausted, or it or a stream reports context.Canceled:  *)
(* the goroutine returns without an error message.                         *)
RunStops(r) ==
  /\ gor[r].pc \in {"next", "recv"}
  /\ Advance(r, "deferred")
  /\ UNCHANGED <<uiVars, busVars>>

\* Bug: the goroutine goes on after it has reported the error.
RunFailsAndGoesOn(r) ==
  /\ gor[r].pc \in {"next", "recv"}
  /\ SendThen(r, gor[r], <<ErrMsg(r, gor[r].snap)>>, "loop")
  /\ UNCHANGED <<uiVars, busVars>>

(* An event carries another error, or a stream breaks.                     *)
RunFails(r) ==
  /\ gor[r].pc \in {"next", "recv"}
  /\ SendThen(r, gor[r], <<ErrMsg(r, gor[r].snap)>>, "deferred")
  /\ UNCHANGED <<uiVars, busVars>>

(* An assistant message that is not streamed: its reasoning, its text and  *)
(* its calls are sent, each if there.                                      *)
WholeMessage(r, a) ==
  /\ gor[r].pc = "next" /\ "whole" \in Forms[gor[r].prompt]
  /\ gor[r].owed[a] = <<>> /\ HasOutput(r)
  /\ \E reasoning, text \in BOOLEAN, c \in 0..MaxCalls :
       /\ reasoning \/ text \/ c > 0
       /\ SendThen(r, [gor[r] EXCEPT !.n = @ + 1, !.owed[a] = CallTokens(r, c)],
                   (IF reasoning THEN ReasoningMsgs(r) ELSE <<>>)
                   \o (IF text THEN TextMsgs(r) ELSE <<>>)
                   \o (IF c > 0 THEN <<StreamMsg(r, "calls", CallTokens(r, c))>> ELSE <<>>),
                   "loop")
  /\ UNCHANGED <<uiVars, busVars>>

(* A streamed assistant message begins.                                    *)
StreamBegins(r, a) ==
  /\ gor[r].pc = "next" /\ "stream" \in Forms[gor[r].prompt]
  /\ gor[r].owed[a] = <<>> /\ HasOutput(r)
  /\ gor' = [gor EXCEPT ![r] = [@ EXCEPT !.pc = "stream", !.agent = a]]
  /\ UNCHANGED <<uiVars, busVars>>

(* One chunk of it, with reasoning, text or both.                          *)
StreamChunk(r) ==
  /\ gor[r].pc = "recv" /\ HasOutput(r)
  /\ \E reasoning, text \in BOOLEAN :
       /\ reasoning \/ text
       /\ SendThen(r, [gor[r] EXCEPT !.n = @ + 1],
                   (IF reasoning THEN ReasoningMsgs(r) ELSE <<>>)
                   \o (IF text THEN TextMsgs(r) ELSE <<>>), "stream")
  /\ UNCHANGED <<uiVars, busVars>>

(* The stream ends; the chunks put together may make tool calls.           *)
StreamEnds(r) ==
  /\ gor[r].pc = "recv"
  /\ \/ Advance(r, "loop")
     \/ \E c \in 1..MaxCalls :
          /\ HasOutput(r)
          /\ SendThen(r, [gor[r] EXCEPT !.n = @ + 1, !.owed[gor[r].agent] = CallTokens(r, c)],
                      <<StreamMsg(r, "calls", CallTokens(r, c))>>, "loop")
  /\ UNCHANGED <<uiVars, busVars>>

(* A tool has answered one of the calls an agent waits for: tools run      *)
(* concurrently (builder.go leaves compose.ToolsNodeConfig{} as it is), so *)
(* results come in any order.  One without a name and a body is sent       *)
(* empty; one whose full message is nil is not sent.                       *)
ToolResult(r, a) ==
  /\ gor[r].pc = "next"
  /\ \E k \in 1..Len(gor[r].owed[a]) :
       LET answered == [gor[r] EXCEPT !.owed[a] = RemoveAt(@, k)]
       IN  \/ \E text \in {<<gor[r].owed[a][k]>>, <<>>} :
                SendThen(r, answered, <<StreamMsg(r, "result", text)>>, "loop")
           \/ gor' = [gor EXCEPT ![r] = [answered EXCEPT !.pc = "loop"]]
  /\ UNCHANGED <<uiVars, busVars>>

(* The OnEnd callback of SessionValuesSyncHandler: an agent of the run has *)
(* ended and its session values are captured.  The goroutine may be        *)
(* anywhere, but only reads the snapshot after it was blocked on the agent:*)
(* capturing while it is blocked gives every snapshot it can read.         *)
CaptureSession(r) ==
  /\ gor[r].pc \in {"next", "recv"}
  /\ gor[r].prompt \in Writers /\ gor[r].snap = {}
  /\ gor' = [gor EXCEPT ![r].snap = {gor[r].prompt}]
  /\ UNCHANGED <<uiVars, busVars>>

(* The deferred function prepares the last message.                        *)
Deferred(r) ==
  /\ gor[r].pc = "deferred"
  /\ SendThen(r, gor[r], <<DoneMsg(r, gor[r].cancelled, gor[r].snap)>>, "ended")
  /\ UNCHANGED <<uiVars, busVars>>

AfterSend(g) ==
  IF Len(g.out) > 1 THEN [g EXCEPT !.out = Tail(@)]
  ELSE IF g.resume = "ended" THEN [NoRun EXCEPT !.pc = "ended"]
  ELSE [g EXCEPT !.out = <<>>, !.pc = g.resume, !.resume = "idle"]

\* Bug: the goroutine does not wait for room and the message is lost.
SendOrDrop(r) ==
  /\ gor[r].pc = "send"
  /\ ch' = IF Len(ch) < Cap THEN Append(ch, Head(gor[r].out)) ELSE ch
  /\ gor' = [gor EXCEPT ![r] = AfterSend(@)]
  /\ UNCHANGED <<uiVars, waiting, inbox>>

Send(r) ==
  /\ gor[r].pc = "send" /\ Len(ch) < Cap
  /\ ch' = Append(ch, Head(gor[r].out))
  /\ gor' = [gor EXCEPT ![r] = AfterSend(@)]
  /\ UNCHANGED <<uiVars, waiting, inbox>>

-----------------------------------------------------------------------------
(* The pump.                                                               *)

Pump ==
  /\ waiting > 0 /\ ch # <<>>
  /\ waiting' = waiting - 1
  /\ inbox' = Append(inbox, Head(ch))
  /\ ch' = Tail(ch)
  /\ UNCHANGED <<uiVars, gor>>

-----------------------------------------------------------------------------
(* The event loop: keys.                                                   *)

StartRun ==
  /\ ~busy /\ ~editing /\ asked < MaxRuns
  /\ asked' = asked + 1 /\ runID' = runID + 1
  /\ view' = BeginAnswer(view, PromptText(asked + 1))
  /\ busy' = TRUE
  /\ waiting' = waiting + 1
  /\ gor' = [gor EXCEPT ![runID + 1] =
               [NoRun EXCEPT !.pc = "loop", !.prompt = asked + 1]]
  /\ UNCHANGED <<editing, ch, inbox>>

(* Esc or ctrl+c while busy cancels the context of the current run.        *)
CancelRun ==
  /\ busy /\ ~editing /\ ~gor[runID].cancelled
  /\ gor' = [gor EXCEPT ![runID].cancelled = TRUE]
  /\ UNCHANGED <<uiVars, busVars>>

Notes(v) == Cardinality({ i \in 1..Len(v.turns) : v.turns[i].role \in {"meta", "error"} })

(* A command that only leaves a note: /help, /agent misused or refused.    *)
(* The code's meta and error turns are treated alike by all that reads     *)
(* them; "meta" stands for both here.                                      *)
LeaveNote ==
  /\ ~busy /\ ~editing /\ Notes(view) < MaxNotes
  /\ view' = AddTurn(view, NoteTurn("meta"))
  /\ UNCHANGED <<busy, runID, editing, asked, busVars, gor>>

\* Bug: /new counts runs anew, so that old goroutines share their numbers.
NewTranscriptFromRunOne ==
  /\ ~busy /\ ~editing
  /\ view' = [view EXCEPT !.turns = <<NoteTurn("meta")>>]
  /\ runID' = 0
  /\ UNCHANGED <<busy, editing, asked, busVars, gor>>

\* Bug: /new does not wait for the run to end.
NewTranscriptWhileBusy ==
  /\ ~editing
  /\ view' = [view EXCEPT !.turns = <<NoteTurn("meta")>>]
  /\ UNCHANGED <<busy, runID, editing, asked, busVars, gor>>

(* /new *)
NewTranscript ==
  /\ ~busy /\ ~editing
  /\ view' = [view EXCEPT !.turns = <<NoteTurn("meta")>>]
  /\ UNCHANGED <<busy, runID, editing, asked, busVars, gor>>

(* /config opens the config screen; openConfigEditor refuses while busy.   *)
OpenEditor ==
  /\ ~busy /\ ~editing
  /\ editing' = TRUE
  /\ UNCHANGED <<view, busy, runID, asked, busVars, gor>>

(* Esc leaves the screen; saving leaves it as well, with a note.           *)
CloseEditor ==
  /\ editing
  /\ editing' = FALSE
  /\ UNCHANGED <<view, busy, runID, asked, busVars, gor>>

CloseEditorNoting ==
  /\ editing /\ Notes(view) < MaxNotes
  /\ editing' = FALSE
  /\ view' = AddTurn(view, NoteTurn("meta"))
  /\ UNCHANGED <<busy, runID, asked, busVars, gor>>

-----------------------------------------------------------------------------
(* The event loop: stream messages.  Update takes the i-th message waiting *)
(* in the inbox (whichever pump posts first).                              *)

\* Bug: no pump is returned after a message of an older run.
DropMessageAndStop(i) ==
  /\ editing \/ inbox[i].run # runID
  /\ inbox' = RemoveAt(inbox, i)
  /\ UNCHANGED <<uiVars, ch, waiting, gor>>

(* The config screen swallows it; otherwise it is of an older run, is      *)
(* dropped, and a new pump is returned.                                    *)
DropMessage(i) ==
  /\ editing \/ inbox[i].run # runID
  /\ inbox' = RemoveAt(inbox, i)
  /\ waiting' = IF editing THEN waiting ELSE waiting + 1
  /\ UNCHANGED <<uiVars, ch, gor>>

\* Bug: messages of older runs are taken for the current run's.
IsAnyRuns(m) == ~editing

IsCurrent(m) == ~editing /\ m.run = runID

ShowMessage(i) ==
  /\ IsCurrent(inbox[i]) /\ ~IsTerminal(inbox[i])
  /\ inbox' = RemoveAt(inbox, i)
  /\ view' = Show(view, inbox[i])
  /\ waiting' = waiting + 1
  /\ UNCHANGED <<busy, runID, editing, asked, ch, gor>>

\* Bug: a pump is returned although the run is over.
EndRunPumping(i) ==
  /\ IsCurrent(inbox[i]) /\ IsTerminal(inbox[i])
  /\ inbox' = RemoveAt(inbox, i)
  /\ view' = Show(view, inbox[i])
  /\ busy' = FALSE
  /\ waiting' = waiting + 1
  /\ UNCHANGED <<runID, editing, asked, ch, gor>>

(* The first err or done of the current run ends it: finishRun, no pump.   *)
EndRun(i) ==
  /\ IsCurrent(inbox[i]) /\ IsTerminal(inbox[i])
  /\ inbox' = RemoveAt(inbox, i)
  /\ view' = Show(view, inbox[i])
  /\ busy' = FALSE
  /\ UNCHANGED <<runID, editing, asked, ch, waiting, gor>>

Deliver == \E i \in 1..Len(inbox) : DropMessage(i) \/ ShowMessage(i) \/ EndRun(i)

-----------------------------------------------------------------------------
AgentStep(r) ==
  \/ RunStops(r)
  \/ RunFails(r)
  \/ StreamChunk(r)
  \/ StreamEnds(r)
  \/ \E a \in Agents : WholeMessage(r, a) \/ StreamBegins(r, a) \/ ToolResult(r, a)

Goroutine(r) == CheckContext(r) \/ Deferred(r) \/ Send(r)

UserStep ==
  \/ StartRun
  \/ CancelRun
  \/ NewTranscript
  \/ OpenEditor
  \/ CloseEditor
  \/ CloseEditorNoting
  \/ LeaveNote

Next ==
  \/ UserStep
  \/ Pump
  \/ Deliver
  \/ \E r \in Runs : Goroutine(r) \/ AgentStep(r) \/ CaptureSession(r)

Spec == Init /\ [][Next]_vars

(***************************************************************************)
(* Scheduling: the Go runtime runs every goroutine that can go on, and     *)
(* Bubble Tea handles every posted message.  Of the agent only this is     *)
(* assumed: once its context is cancelled, it returns from the call it is  *)
(* blocked in.  A run nobody cancels may hang for ever.                    *)
(***************************************************************************)
Fairness ==
  /\ WF_vars(Pump)
  /\ WF_vars(Deliver)
  /\ \A r \in Runs : WF_vars(Goroutine(r))
  /\ \A r \in Runs : WF_vars(gor[r].cancelled /\ AgentStep(r))

FairSpec == Spec /\ Fairness

-----------------------------------------------------------------------------
(* Properties                                                              *)

PCs == {"idle", "loop", "next", "stream", "recv", "send", "deferred", "ended"}

Tokens == Nat \X Nat \X Nat

StreamMsgs ==
  [run : Nat, kind : {"reasoning", "text", "calls", "result", "err", "done"},
   body : Seq(Tokens), cancelled : BOOLEAN, session : SUBSET Nat]

Goroutines ==
  [pc : PCs, resume : PCs, prompt : 0..MaxRuns, n : Nat, out : Seq(StreamMsgs),
   owed : [Agents -> Seq(Tokens)], agent : Agents, cancelled : BOOLEAN,
   snap : SUBSET Nat]

(* Every variable but the view has its type; the runs started in this      *)
(* process are those up to runID, and no other run has a goroutine or a    *)
(* message.                                                                *)
TypeOK ==
  /\ busy \in BOOLEAN /\ editing \in BOOLEAN
  /\ runID \in 0..MaxRuns /\ asked \in 0..MaxRuns /\ runID <= asked
  /\ waiting \in Nat
  /\ ch \in Seq(StreamMsgs) /\ inbox \in Seq(StreamMsgs)
  /\ gor \in [Runs -> Goroutines]
  /\ \A r \in Runs : gor[r].pc = "idle" <=> r > runID

InTransit == ToSet(inbox) \cup ToSet(ch)

(* The pumps never multiply and never run dry.  While a run is shown as    *)
(* going on, exactly one message is awaited or on its way to Update; when  *)
(* none is, no pump is left behind to steal messages from the next run     *)
(* (waitStream is returned on eight paths of Update, and withheld on two). *)
(* The config screen, which would swallow a message, is closed meanwhile.  *)
PumpDiscipline ==
  /\ waiting + Len(inbox) = IF busy THEN 1 ELSE 0
  /\ ~(busy /\ editing)

StillToEnd(r) ==
  \/ gor[r].pc # "ended"
  \/ \E m \in InTransit : m.run = r /\ IsTerminal(m)

(* The interface cannot stay busy for lack of an end: as long as it shows  *)
(* a run, that run's goroutine is at work or its err or done is on the way.*)
BusyHasAnEnd == busy => StillToEnd(runID)

IsCurrentRun(r) == busy /\ r = runID

(* A run the interface no longer shows has nothing more to say than done:  *)
(* its goroutine has left the event loop, and no text, tool message or     *)
(* error of it can be in the channel when the next prompt starts.          *)
PastRunsOnlySayDone ==
  /\ \A r \in 1..runID : ~IsCurrentRun(r) =>
       \/ gor[r].pc \in {"deferred", "ended"}
       \/ gor[r].pc = "send" /\ gor[r].resume = "ended"
  /\ \A m \in InTransit : ~IsCurrentRun(m.run) => m.kind = "done"

(* What the user has seen of an answer stays: no message, error or end of  *)
(* a run removes a chunk or a call from the view.  Only /new clears it.    *)
NothingShownIsLost ==
  [][view'.turns # <<NoteTurn("meta")>> => Shown(view) \subseteq Shown(view')]_vars

Archive(turns) == TurnsToMessages(persistableConvTurns(turns), 0)

(* Tool calls and results without an answer before them exist only in      *)
(* damaged old data (turn.go:86): no finished run leaves a call that the   *)
(* archive drops.                                                          *)
FinishedCallsAreArchived ==
  ~busy =>
    \A i \in 1..Len(view.turns) : view.turns[i].role = "toolcall" =>
      \E k \in 1..Len(Archive(view.turns)) :
        view.turns[i].call \in ToSet(Archive(view.turns)[k].calls)

(* The mailbox of the open run is what its goroutine has sent and Update   *)
(* has not handled, whatever else is in the shared channel.                *)
OfRun(msgs, r) ==
  FlattenSeq([i \in 1..Len(msgs) |-> IF msgs[i].run = r THEN <<msgs[i]>> ELSE <<>>])

Mailbox == INSTANCE RunMailbox WITH
  open    <- busy,
  mailbox <- IF busy THEN OfRun(inbox \o ch, runID) ELSE <<>>

(* Every run is shown from a private mailbox, in order and without loss.   *)
ImplementsMailbox == Mailbox!Spec

(* Esc always gives the prompt back: the cancelled run ends, or a later    *)
(* run has taken its place.                                                *)
CancelledRunEnds ==
  \A r \in Runs : gor[r].cancelled ~> ~IsCurrentRun(r)
====
