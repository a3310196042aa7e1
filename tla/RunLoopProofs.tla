---- MODULE RunLoopProofs ----
(***************************************************************************)
(* For every number of runs, every capacity of the channel, every set of   *)
(* agents and every order of their events: the safety invariants of        *)
(* RunLoop.  They are proved together, as the conjuncts of one inductive   *)
(* invariant.  What it adds to them is the life of a goroutine: it sends   *)
(* err at most once and done last, and once either is in transit it has    *)
(* left the loop over the agent's events.  Behind them, the run loop       *)
(* implements RunMailbox: what the one shared channel does to a run is     *)
(* what a mailbox of its own would do.  Last, for a run of one agent: what *)
(* the view has shown stays in it.                                         *)
(***************************************************************************)
EXTENDS RunLoop, ConversationLemmas

(* The goroutine has left the loop: at most its done is still to come.     *)
IsPast(g) ==
  \/ g.pc \in {"deferred", "ended"}
  \/ g.pc = "send" /\ g.resume = "ended"

(* What a goroutine of run r is about to send fits where it will go on.    *)
SendsWell(r, g) ==
  g.pc = "send" =>
    /\ g.out # <<>>
    /\ \A k \in 1..Len(g.out) : g.out[k].run = r
    /\ g.resume \in {"loop", "stream", "deferred", "ended"}
    /\ g.resume \in {"loop", "stream"} => \A k \in 1..Len(g.out) : ~IsTerminal(g.out[k])
    /\ g.resume = "deferred" => Len(g.out) = 1
    /\ g.resume = "ended" => Len(g.out) = 1 /\ g.out[1].kind = "done"

SendingInv == \A r \in Runs : SendsWell(r, gor[r])

(* Behind an err or done of a run, only its done can follow.               *)
Follows(m, n) == m.run = n.run /\ IsTerminal(m) => n.kind = "done"

TransitInv ==
  /\ \A m \in InTransit : m.run \in Runs /\ m.run <= runID
  /\ \A m \in InTransit : IsTerminal(m) => IsPast(gor[m.run])
  /\ \A i, j \in 1..Len(ch) : i < j => Follows(ch[i], ch[j])
  /\ \A i \in 1..Len(inbox), j \in 1..Len(ch) : Follows(inbox[i], ch[j])

BusyRuns == busy => runID \in Runs

IInv ==
  /\ TypeOK
  /\ SendingInv
  /\ TransitInv
  /\ PumpDiscipline
  /\ BusyRuns
  /\ BusyHasAnEnd
  /\ PastRunsOnlySayDone

-----------------------------------------------------------------------------
(* Sequences                                                               *)

(* Removing an element leaves a sequence of the same kind.                 *)
LEMMA RemoveAtType ==
  ASSUME NEW S, NEW s \in Seq(S), NEW i \in 1..Len(s)
  PROVE  RemoveAt(s, i) \in Seq(S)
  BY DEF RemoveAt

(* Removing the only element leaves nothing.                               *)
LEMMA RemoveAtSingle ==
  ASSUME NEW S, NEW s \in Seq(S), Len(s) = 1
  PROVE  RemoveAt(s, 1) = <<>>
  BY DEF RemoveAt

(* The members of a sequence, by index.                                    *)
LEMMA ToSetMembers ==
  ASSUME NEW S, NEW s \in Seq(S)
  PROVE  /\ \A m \in ToSet(s) : m \in S /\ \E i \in 1..Len(s) : m = s[i]
         /\ \A i \in 1..Len(s) : s[i] \in ToSet(s)
  BY DEF ToSet

(* Appending adds one member.                                              *)
LEMMA ToSetAppend ==
  ASSUME NEW S, NEW s \in Seq(S), NEW m \in S
  PROVE  ToSet(Append(s, m)) = ToSet(s) \cup {m}
  <1>1. /\ Append(s, m) \in Seq(S) /\ Len(Append(s, m)) = Len(s) + 1
        /\ \A i \in 1..Len(s) : Append(s, m)[i] = s[i]
        /\ Append(s, m)[Len(s) + 1] = m
    OBVIOUS
  <1>2. \A x \in ToSet(Append(s, m)) : x \in ToSet(s) \cup {m}
    <2>1. \A t \in Seq(S) : \A x \in ToSet(t) : \E i \in 1..Len(t) : x = t[i]
      BY ToSetMembers
    <2>2. \A x \in ToSet(Append(s, m)) : \E i \in 1..Len(Append(s, m)) : x = Append(s, m)[i]
      BY <1>1, <2>1, Zenon
    <2> SUFFICES ASSUME NEW i \in 1..(Len(s) + 1)
                 PROVE  Append(s, m)[i] \in ToSet(s) \cup {m}
      BY <1>1, <2>2
    <2>3. CASE i = Len(s) + 1
      BY <1>1, <2>3
    <2>4. CASE i \in 1..Len(s)
      BY <1>1, <2>4, ToSetMembers
    <2> QED BY <2>3, <2>4, LenProperties
  <1>3. \A x \in ToSet(s) \cup {m} : x \in ToSet(Append(s, m))
    <2>1. \A i \in 1..(Len(s) + 1) : Append(s, m)[i] \in ToSet(Append(s, m))
      BY <1>1, ToSetMembers
    <2>2. Len(s) + 1 \in 1..(Len(s) + 1) /\ \A i \in 1..Len(s) : i \in 1..(Len(s) + 1)
      BY LenProperties
    <2>3. m \in ToSet(Append(s, m))
      BY <1>1, <2>1, <2>2
    <2>4. \A i \in 1..Len(s) : s[i] \in ToSet(Append(s, m))
      BY <1>1, <2>1, <2>2
    <2> QED BY <2>3, <2>4, ToSetMembers
  <1> QED BY <1>2, <1>3

(* Taking the head leaves the others.                                      *)
LEMMA ToSetTail ==
  ASSUME NEW S, NEW s \in Seq(S), s # <<>>
  PROVE  ToSet(s) = ToSet(Tail(s)) \cup {Head(s)}
  <1>1. /\ Tail(s) \in Seq(S) /\ Len(Tail(s)) = Len(s) - 1 /\ Head(s) = s[1]
        /\ \A i \in 1..Len(Tail(s)) : Tail(s)[i] = s[i + 1]
        /\ Len(s) \in Nat \ {0}
    BY HeadTailProperties, EmptySeq
  <1>2. \A x \in ToSet(s) : x \in ToSet(Tail(s)) \cup {Head(s)}
    <2> SUFFICES ASSUME NEW i \in 1..Len(s), i # 1
                 PROVE  s[i] \in ToSet(Tail(s))
      BY <1>1, ToSetMembers
    <2>1. i - 1 \in 1..Len(Tail(s)) /\ Tail(s)[i - 1] = s[i]
      BY <1>1
    <2> QED BY <1>1, <2>1, ToSetMembers
  <1>3. \A x \in ToSet(Tail(s)) \cup {Head(s)} : x \in ToSet(s)
    <2>1. \A i \in 1..Len(Tail(s)) : i + 1 \in 1..Len(s)
      BY <1>1
    <2>2. \A i \in 1..Len(Tail(s)) : Tail(s)[i] \in ToSet(s)
      BY <1>1, <2>1, ToSetMembers
    <2>3. s[1] \in ToSet(s)
      BY <1>1, ToSetMembers
    <2>4. \A t \in Seq(S) : \A x \in ToSet(t) : \E i \in 1..Len(t) : x = t[i]
      BY ToSetMembers
    <2>5. \A x \in ToSet(Tail(s)) : \E i \in 1..Len(Tail(s)) : x = Tail(s)[i]
      BY <1>1, <2>4, Zenon
    <2> QED BY <1>1, <2>2, <2>3, <2>5
  <1> QED BY <1>2, <1>3

-----------------------------------------------------------------------------
(* Types                                                                   *)

(* A goroutine not started yet is well typed.                              *)
LEMMA NoRunType == NoRun \in Goroutines
  BY ConstantsAssumption DEF NoRun, Goroutines, PCs

(* An error message is well typed and names its run.                       *)
LEMMA ErrType ==
  ASSUME NEW r \in Nat, NEW snap \in SUBSET Nat
  PROVE  /\ <<ErrMsg(r, snap)>> \in Seq(StreamMsgs)
         /\ ErrMsg(r, snap).run = r
  <1>1. ErrMsg(r, snap) \in StreamMsgs
    BY DEF ErrMsg, StreamMsgs
  <1> QED BY <1>1 DEF ErrMsg

(* So does the message of the deferred function.                           *)
LEMMA DoneType ==
  ASSUME NEW r \in Nat, NEW c \in BOOLEAN, NEW snap \in SUBSET Nat
  PROVE  /\ <<DoneMsg(r, c, snap)>> \in Seq(StreamMsgs)
         /\ DoneMsg(r, c, snap).run = r /\ DoneMsg(r, c, snap).kind = "done"
  <1>1. DoneMsg(r, c, snap) \in StreamMsgs
    BY DEF DoneMsg, StreamMsgs
  <1> QED BY <1>1 DEF DoneMsg

-----------------------------------------------------------------------------
(* Most steps of a run touch nothing but its goroutine.  They preserve the *)
(* invariant when the goroutine stays well typed, does not come back from  *)
(* its end, and what it is about to send fits.                             *)
LEMMA LocalStep ==
  ASSUME IInv, NEW r \in Runs, NEW g \in Goroutines,
         gor' = [gor EXCEPT ![r] = g],
         UNCHANGED <<uiVars, busVars>>,
         gor[r].pc # "idle", g.pc # "idle",
         g.pc = "ended" <=> gor[r].pc = "ended",
         IsPast(gor[r]) => IsPast(g),
         SendsWell(r, g)
  PROVE  IInv'
  <1> USE DEF uiVars, busVars
  <1>0. gor \in [Runs -> Goroutines] /\ gor'[r] = g /\ \A q \in Runs \ {r} : gor'[q] = gor[q]
    BY DEF IInv, TypeOK
  <1>1. TypeOK'
    BY <1>0 DEF IInv, TypeOK
  <1>2. SendingInv'
    BY <1>0 DEF IInv, SendingInv
  <1>3. \A q \in Runs : IsPast(gor[q]) => IsPast(gor'[q])
    BY <1>0
  <1>4. InTransit' = InTransit
    BY DEF InTransit
  <1>5. TransitInv'
    BY <1>3, <1>4 DEF IInv, TransitInv
  <1>6. PumpDiscipline' /\ BusyRuns'
    BY DEF IInv, PumpDiscipline, BusyRuns
  <1>7. BusyHasAnEnd'
    BY <1>0, <1>4 DEF IInv, BusyHasAnEnd, BusyRuns, StillToEnd
  <1>8. PastRunsOnlySayDone'
    <2>1. \A q \in 1..runID : q \in Runs
      BY ConstantsAssumption DEF IInv, TypeOK, Runs
    <2> QED BY <1>3, <1>4, <2>1 DEF IInv, PastRunsOnlySayDone, IsCurrentRun, IsPast
  <1> QED BY <1>1, <1>2, <1>5, <1>6, <1>7, <1>8 DEF IInv

(* A step that goes on to send, from where the goroutine was blocked or    *)
(* from its deferred function.                                             *)
LEMMA SendingStep ==
  ASSUME IInv, NEW r \in Runs, NEW g \in Goroutines,
         NEW msgs \in Seq(StreamMsgs), NEW resume \in {"loop", "stream", "deferred", "ended"},
         SendThen(r, g, msgs, resume),
         UNCHANGED <<uiVars, busVars>>,
         gor[r].pc \in {"next", "recv", "deferred"},
         gor[r].pc = "deferred" => resume = "ended",
         msgs # <<>>, \A k \in 1..Len(msgs) : msgs[k].run = r,
         resume \in {"loop", "stream"} => \A k \in 1..Len(msgs) : ~IsTerminal(msgs[k]),
         resume = "deferred" => Len(msgs) = 1,
         resume = "ended" => Len(msgs) = 1 /\ msgs[1].kind = "done"
  PROVE  IInv'
  <1> DEFINE h == [g EXCEPT !.pc = "send", !.out = msgs, !.resume = resume]
  <1>1. h \in Goroutines
    BY DEF Goroutines, PCs
  <1>2. h.pc = "send" /\ h.resume = resume /\ h.out = msgs
    BY DEF Goroutines
  <1>3. SendsWell(r, h)
    BY <1>2 DEF SendsWell
  <1>4. IsPast(gor[r]) => IsPast(h)
    BY <1>2 DEF IsPast
  <1>5. gor' = [gor EXCEPT ![r] = h]
    BY DEF SendThen
  <1> HIDE DEF h
  <1> QED BY <1>1, <1>2, <1>3, <1>4, <1>5, LocalStep

(* Output of run r that does not end it.                                   *)
OutputOf(r) ==
  { s \in Seq(StreamMsgs) : \A k \in 1..Len(s) : s[k].run = r /\ ~IsTerminal(s[k]) }

(* Output after output is output.                                          *)
LEMMA OutputConcat ==
  ASSUME NEW r, NEW s \in OutputOf(r), NEW t \in OutputOf(r)
  PROVE  s \o t \in OutputOf(r)
  <1>1. /\ s \o t \in Seq(StreamMsgs) /\ Len(s \o t) = Len(s) + Len(t)
        /\ \A i \in 1..(Len(s) + Len(t)) :
             (s \o t)[i] = IF i <= Len(s) THEN s[i] ELSE t[i - Len(s)]
    BY ConcatProperties DEF OutputOf
  <1> SUFFICES ASSUME NEW k \in 1..(Len(s) + Len(t))
               PROVE  (s \o t)[k].run = r /\ ~IsTerminal((s \o t)[k])
    BY <1>1 DEF OutputOf
  <1>2. s \in Seq(StreamMsgs) /\ t \in Seq(StreamMsgs)
    BY DEF OutputOf
  <1>3. CASE k <= Len(s)
    BY <1>1, <1>2, <1>3 DEF OutputOf
  <1>4. CASE ~(k <= Len(s))
    <2>1. k - Len(s) \in 1..Len(t)
      BY <1>2, <1>4, LenProperties
    <2> QED BY <1>1, <1>4, <2>1 DEF OutputOf
  <1> QED BY <1>3, <1>4

(* The messages an agent's output becomes.                                 *)
LEMMA OutputTypes ==
  ASSUME IInv, NEW r \in Runs, NEW c \in 0..MaxCalls
  PROVE  /\ CallTokens(r, c) \in Seq(Tokens)
         /\ ReasoningMsgs(r) \in OutputOf(r) /\ ReasoningMsgs(r) # <<>>
         /\ TextMsgs(r) \in OutputOf(r) /\ TextMsgs(r) # <<>>
         /\ <<StreamMsg(r, "calls", CallTokens(r, c))>> \in OutputOf(r)
         /\ <<>> \in OutputOf(r)
  <1>1. gor[r] \in Goroutines /\ r \in Nat /\ c \in Nat
    BY ConstantsAssumption DEF IInv, TypeOK, Runs
  <1>2. \A part \in Nat : Token(r, part) \in Tokens
    BY <1>1, ConstantsAssumption DEF Token, Tokens, Goroutines
  <1>3. CallTokens(r, c) \in Seq(Tokens)
    BY <1>1, <1>2 DEF CallTokens
  <1>4. <<Token(r, 0)>> \in Seq(Tokens) /\ <<Token(r, 1)>> \in Seq(Tokens)
    BY <1>2
  <1>5. \A kind \in {"reasoning", "text", "calls"}, body \in Seq(Tokens) :
          <<StreamMsg(r, kind, body)>> \in OutputOf(r)
    <2> SUFFICES ASSUME NEW kind \in {"reasoning", "text", "calls"}, NEW body \in Seq(Tokens)
                 PROVE  <<StreamMsg(r, kind, body)>> \in OutputOf(r)
      OBVIOUS
    <2>1. /\ StreamMsg(r, kind, body) \in StreamMsgs
          /\ StreamMsg(r, kind, body).run = r
          /\ ~IsTerminal(StreamMsg(r, kind, body))
      BY <1>1 DEF StreamMsg, StreamMsgs, IsTerminal
    <2> QED BY <2>1 DEF OutputOf
  <1>6. <<>> \in OutputOf(r)
    BY DEF OutputOf
  <1> QED BY <1>3, <1>4, <1>5, <1>6 DEF ReasoningMsgs, TextMsgs

-----------------------------------------------------------------------------
(* The goroutine's actions.                                                *)

(* The looks at the context leave a loop or enter a blocking call.         *)
LEMMA CheckContextStep ==
  ASSUME IInv, NEW r \in Runs, CheckContext(r)
  PROVE  IInv'
  <1> DEFINE pc == IF gor[r].cancelled THEN "deferred"
                   ELSE IF gor[r].pc = "loop" THEN "next" ELSE "recv"
             g == [gor[r] EXCEPT !.pc = pc]
  <1>1. gor[r] \in Goroutines
    BY DEF IInv, TypeOK
  <1>2. g \in Goroutines /\ g.pc \in {"deferred", "next", "recv"}
    BY <1>1 DEF Goroutines, PCs
  <1>3. /\ gor[r].pc \in {"loop", "stream"}
        /\ gor' = [gor EXCEPT ![r] = g]
        /\ UNCHANGED <<uiVars, busVars>>
    BY DEF CheckContext, Advance
  <1>4. ~IsPast(gor[r]) /\ SendsWell(r, g)
    BY <1>2, <1>3 DEF IsPast, SendsWell
  <1> HIDE DEF g
  <1> QED BY <1>2, <1>3, <1>4, LocalStep

(* Steps from next or recv that only move the program counter.             *)
LEMMA MoveStep ==
  ASSUME IInv, NEW r \in Runs, NEW pc \in {"loop", "stream", "deferred"}, NEW a \in Agents,
         gor[r].pc \in {"next", "recv"},
         gor' = [gor EXCEPT ![r] = [gor[r] EXCEPT !.pc = pc, !.agent = a]],
         UNCHANGED <<uiVars, busVars>>
  PROVE  IInv'
  <1> DEFINE g == [gor[r] EXCEPT !.pc = pc, !.agent = a]
  <1>1. gor[r] \in Goroutines
    BY DEF IInv, TypeOK
  <1>2. g \in Goroutines /\ g.pc = pc
    BY <1>1 DEF Goroutines, PCs
  <1>3. ~IsPast(gor[r]) /\ SendsWell(r, g)
    BY <1>2 DEF IsPast, SendsWell
  <1> HIDE DEF g
  <1>4. gor' = [gor EXCEPT ![r] = g]
    BY DEF g
  <1> QED BY <1>2, <1>3, <1>4, LocalStep

(* A goroutine that returns silently still has its done to send.           *)
LEMMA RunStopsStep ==
  ASSUME IInv, NEW r \in Runs, RunStops(r)
  PROVE  IInv'
  <1>1. gor[r] \in Goroutines
    BY DEF IInv, TypeOK
  <1>2. [gor[r] EXCEPT !.pc = "deferred"]
          = [gor[r] EXCEPT !.pc = "deferred", !.agent = gor[r].agent]
    BY <1>1 DEF Goroutines
  <1> QED BY <1>1, <1>2, MoveStep DEF RunStops, Advance, Goroutines

(* Beginning a stream only moves the goroutine.                            *)
LEMMA StreamBeginsStep ==
  ASSUME IInv, NEW r \in Runs, NEW a \in Agents, StreamBegins(r, a)
  PROVE  IInv'
  BY MoveStep DEF StreamBegins

(* The one err a goroutine sends is followed by its deferred function.     *)
LEMMA RunFailsStep ==
  ASSUME IInv, NEW r \in Runs, RunFails(r)
  PROVE  IInv'
  <1>1. gor[r] \in Goroutines /\ r \in Nat /\ gor[r].snap \in SUBSET Nat
    BY ConstantsAssumption DEF IInv, TypeOK, Runs, Goroutines
  <1> DEFINE m == ErrMsg(r, gor[r].snap)
  <1>2. <<m>> \in Seq(StreamMsgs) /\ m.run = r
    BY <1>1, ErrType, Zenon
  <1>3. SendThen(r, gor[r], <<m>>, "deferred") /\ gor[r].pc \in {"next", "recv"}
        /\ UNCHANGED <<uiVars, busVars>>
    BY DEF RunFails
  <1> HIDE DEF m
  <1>4. /\ <<m>> # <<>> /\ Len(<<m>>) = 1
        /\ \A k \in 1..Len(<<m>>) : <<m>>[k].run = r
    BY <1>2
  <1> QED BY <1>1, <1>2, <1>3, <1>4, SendingStep

(* The deferred function sends done, and nothing after it.                 *)
LEMMA DeferredStep ==
  ASSUME IInv, NEW r \in Runs, Deferred(r)
  PROVE  IInv'
  <1> DEFINE m == DoneMsg(r, gor[r].cancelled, gor[r].snap)
  <1>0. gor[r] \in Goroutines /\ r \in Nat
    BY ConstantsAssumption DEF IInv, TypeOK, Runs
  <1>1. /\ gor[r] \in Goroutines /\ r \in Nat /\ gor[r].snap \in SUBSET Nat
        /\ gor[r].cancelled \in BOOLEAN
    BY <1>0 DEF Goroutines
  <1>2. <<m>> \in Seq(StreamMsgs) /\ m.run = r /\ m.kind = "done"
    BY <1>1, DoneType, ZenonT(30)
  <1>3. SendThen(r, gor[r], <<m>>, "ended") /\ gor[r].pc = "deferred"
        /\ UNCHANGED <<uiVars, busVars>>
    BY DEF Deferred
  <1> HIDE DEF m
  <1>4. /\ <<m>> # <<>> /\ Len(<<m>>) = 1 /\ <<m>>[1].kind = "done"
        /\ \A k \in 1..Len(<<m>>) : <<m>>[k].run = r
    BY <1>2
  <1> QED BY <1>1, <1>2, <1>3, <1>4, SendingStep

(* A step that goes on to send output of the agent.                        *)
LEMMA OutputStep ==
  ASSUME IInv, NEW r \in Runs, NEW g \in Goroutines,
         NEW msgs \in OutputOf(r), msgs # <<>>, NEW resume \in {"loop", "stream"},
         SendThen(r, g, msgs, resume),
         UNCHANGED <<uiVars, busVars>>,
         gor[r].pc \in {"next", "recv"}
  PROVE  IInv'
  BY SendingStep DEF OutputOf

(* What holds a message still holds one with more behind it.               *)
LEMMA ConcatNotEmpty ==
  ASSUME NEW r, NEW s \in OutputOf(r), NEW t \in OutputOf(r), s # <<>> \/ t # <<>>
  PROVE  s \o t # <<>>
  <1>1. s \in Seq(StreamMsgs) /\ t \in Seq(StreamMsgs)
    BY DEF OutputOf
  <1> QED BY <1>1, ConcatEqualIffEmpty

(* A whole message becomes one to three messages, none of them terminal.   *)
LEMMA WholeMessageStep ==
  ASSUME IInv, NEW r \in Runs, NEW a \in Agents, WholeMessage(r, a)
  PROVE  IInv'
  <1>1. PICK reasoning \in BOOLEAN, text \in BOOLEAN, c \in 0..MaxCalls :
          /\ reasoning \/ text \/ c > 0
          /\ SendThen(r, [gor[r] EXCEPT !.n = @ + 1, !.owed[a] = CallTokens(r, c)],
                      (IF reasoning THEN ReasoningMsgs(r) ELSE <<>>)
                      \o (IF text THEN TextMsgs(r) ELSE <<>>)
                      \o (IF c > 0 THEN <<StreamMsg(r, "calls", CallTokens(r, c))>> ELSE <<>>),
                      "loop")
    BY DEF WholeMessage
  <1> DEFINE g  == [gor[r] EXCEPT !.n = @ + 1, !.owed[a] = CallTokens(r, c)]
             s1 == IF reasoning THEN ReasoningMsgs(r) ELSE <<>>
             s2 == IF text THEN TextMsgs(r) ELSE <<>>
             s3 == IF c > 0 THEN <<StreamMsg(r, "calls", CallTokens(r, c))>> ELSE <<>>
  <1>2. /\ CallTokens(r, c) \in Seq(Tokens)
        /\ ReasoningMsgs(r) \in OutputOf(r) /\ ReasoningMsgs(r) # <<>>
        /\ TextMsgs(r) \in OutputOf(r) /\ TextMsgs(r) # <<>>
        /\ <<StreamMsg(r, "calls", CallTokens(r, c))>> \in OutputOf(r)
        /\ <<>> \in OutputOf(r)
    BY OutputTypes
  <1>3. gor[r] \in Goroutines /\ gor[r].n + 1 \in Nat
    BY DEF IInv, TypeOK, Goroutines
  <1>4. g \in Goroutines
    BY <1>2, <1>3 DEF Goroutines
  <1>5. s1 \in OutputOf(r) /\ s2 \in OutputOf(r) /\ s3 \in OutputOf(r)
    BY <1>2
  <1>6. s1 # <<>> \/ s2 # <<>> \/ s3 # <<>>
    BY <1>1, <1>2
  <1>7. SendThen(r, g, s1 \o s2 \o s3, "loop")
    BY <1>1
  <1> HIDE DEF g, s1, s2, s3
  <1>8. s1 \o s2 \in OutputOf(r) /\ s1 \o s2 \o s3 \in OutputOf(r)
    BY <1>5, OutputConcat
  <1>9. s1 \o s2 \o s3 # <<>>
    BY <1>5, <1>6, <1>8, ConcatNotEmpty
  <1>10. gor[r].pc \in {"next", "recv"} /\ UNCHANGED <<uiVars, busVars>>
    BY DEF WholeMessage
  <1> QED BY <1>4, <1>7, <1>8, <1>9, <1>10, OutputStep

(* A chunk becomes one or two messages, none of them terminal.             *)
LEMMA StreamChunkStep ==
  ASSUME IInv, NEW r \in Runs, StreamChunk(r)
  PROVE  IInv'
  <1>1. PICK reasoning \in BOOLEAN, text \in BOOLEAN :
          /\ reasoning \/ text
          /\ SendThen(r, [gor[r] EXCEPT !.n = @ + 1],
                      (IF reasoning THEN ReasoningMsgs(r) ELSE <<>>)
                      \o (IF text THEN TextMsgs(r) ELSE <<>>), "stream")
    BY DEF StreamChunk
  <1> DEFINE g  == [gor[r] EXCEPT !.n = @ + 1]
             s1 == IF reasoning THEN ReasoningMsgs(r) ELSE <<>>
             s2 == IF text THEN TextMsgs(r) ELSE <<>>
  <1>2. /\ ReasoningMsgs(r) \in OutputOf(r) /\ ReasoningMsgs(r) # <<>>
        /\ TextMsgs(r) \in OutputOf(r) /\ TextMsgs(r) # <<>>
        /\ <<>> \in OutputOf(r)
    <2>1. 0 \in 0..MaxCalls
      BY ConstantsAssumption
    <2> QED BY <2>1, OutputTypes
  <1>3. gor[r] \in Goroutines /\ gor[r].n + 1 \in Nat
    BY DEF IInv, TypeOK, Goroutines
  <1>4. g \in Goroutines
    BY <1>3 DEF Goroutines
  <1>5. s1 \in OutputOf(r) /\ s2 \in OutputOf(r)
    BY <1>2
  <1>6. s1 # <<>> \/ s2 # <<>>
    BY <1>1, <1>2
  <1>7. SendThen(r, g, s1 \o s2, "stream")
    BY <1>1
  <1> HIDE DEF g, s1, s2
  <1>8. s1 \o s2 \in OutputOf(r) /\ s1 \o s2 # <<>>
    BY <1>5, <1>6, OutputConcat, ConcatNotEmpty
  <1>9. gor[r].pc \in {"next", "recv"} /\ UNCHANGED <<uiVars, busVars>>
    BY DEF StreamChunk
  <1> QED BY <1>4, <1>7, <1>8, <1>9, OutputStep

(* The end of a stream sends at most its tool calls.                       *)
LEMMA StreamEndsStep ==
  ASSUME IInv, NEW r \in Runs, StreamEnds(r)
  PROVE  IInv'
  <1>1. gor[r] \in Goroutines /\ gor[r].n + 1 \in Nat /\ gor[r].agent \in Agents
    BY DEF IInv, TypeOK, Goroutines
  <1>2. CASE Advance(r, "loop")
    <2>1. [gor[r] EXCEPT !.pc = "loop"] = [gor[r] EXCEPT !.pc = "loop", !.agent = gor[r].agent]
      BY <1>1 DEF Goroutines
    <2> QED BY <1>1, <1>2, <2>1, MoveStep DEF StreamEnds, Advance, Goroutines
  <1>3. CASE ~Advance(r, "loop")
    <2>1. PICK c \in 1..MaxCalls :
            SendThen(r, [gor[r] EXCEPT !.n = @ + 1, !.owed[gor[r].agent] = CallTokens(r, c)],
                     <<StreamMsg(r, "calls", CallTokens(r, c))>>, "loop")
      BY <1>3 DEF StreamEnds
    <2> DEFINE g    == [gor[r] EXCEPT !.n = @ + 1, !.owed[gor[r].agent] = CallTokens(r, c)]
               msgs == <<StreamMsg(r, "calls", CallTokens(r, c))>>
    <2>2. c \in 0..MaxCalls
      OBVIOUS
    <2>3. CallTokens(r, c) \in Seq(Tokens) /\ msgs \in OutputOf(r) /\ msgs # <<>>
      BY <2>2, OutputTypes
    <2>4. g \in Goroutines
      BY <1>1, <2>3 DEF Goroutines
    <2>5. SendThen(r, g, msgs, "loop")
      BY <2>1
    <2> HIDE DEF g, msgs
    <2>6. gor[r].pc \in {"next", "recv"} /\ UNCHANGED <<uiVars, busVars>>
      BY DEF StreamEnds
    <2> QED BY <2>3, <2>4, <2>5, <2>6, OutputStep
  <1> QED BY <1>2, <1>3

(* A tool that has answered: the call is no longer owed, and the result,   *)
(* if it is sent, names the call or is empty.                              *)
LEMMA ToolResultCases ==
  ASSUME NEW r \in Runs, NEW a \in Agents, gor[r] \in Goroutines, ToolResult(r, a)
  PROVE  \E k \in 1..Len(gor[r].owed[a]) :
           LET g == [gor[r] EXCEPT !.owed[a] = RemoveAt(@, k)]
           IN  /\ g \in Goroutines
               /\ \/ \E text \in {<<gor[r].owed[a][k]>>, <<>>} :
                       /\ text \in Seq(Tokens)
                       /\ SendThen(r, g, <<StreamMsg(r, "result", text)>>, "loop")
                  \/ gor' = [gor EXCEPT ![r] = [g EXCEPT !.pc = "loop"]]
  <1>1. PICK k \in 1..Len(gor[r].owed[a]) :
          LET answered == [gor[r] EXCEPT !.owed[a] = RemoveAt(@, k)]
          IN  \/ \E text \in {<<gor[r].owed[a][k]>>, <<>>} :
                   SendThen(r, answered, <<StreamMsg(r, "result", text)>>, "loop")
              \/ gor' = [gor EXCEPT ![r] = [answered EXCEPT !.pc = "loop"]]
    BY DEF ToolResult
  <1> DEFINE g == [gor[r] EXCEPT !.owed[a] = RemoveAt(@, k)]
  <1>2. gor[r].owed[a] \in Seq(Tokens)
    BY DEF Goroutines
  <1>3. RemoveAt(gor[r].owed[a], k) \in Seq(Tokens) /\ <<gor[r].owed[a][k]>> \in Seq(Tokens)
    BY <1>2, RemoveAtType, ElementOfSeq
  <1>4. g \in Goroutines
    BY <1>2, <1>3 DEF Goroutines
  <1>5. <<>> \in Seq(Tokens)
    OBVIOUS
  <1> QED
    BY <1>1, <1>3, <1>4, <1>5

(* A tool result is output of the run that made the call.                  *)
LEMMA ToolResultStep ==
  ASSUME IInv, NEW r \in Runs, NEW a \in Agents, ToolResult(r, a)
  PROVE  IInv'
  <1>1. gor[r] \in Goroutines /\ r \in Nat
    BY ConstantsAssumption DEF IInv, TypeOK, Runs
  <1>2. PICK k \in 1..Len(gor[r].owed[a]) :
          LET g == [gor[r] EXCEPT !.owed[a] = RemoveAt(@, k)]
          IN  /\ g \in Goroutines
              /\ \/ \E text \in {<<gor[r].owed[a][k]>>, <<>>} :
                      /\ text \in Seq(Tokens)
                      /\ SendThen(r, g, <<StreamMsg(r, "result", text)>>, "loop")
                 \/ gor' = [gor EXCEPT ![r] = [g EXCEPT !.pc = "loop"]]
    BY <1>1, ToolResultCases
  <1> DEFINE g == [gor[r] EXCEPT !.owed[a] = RemoveAt(@, k)]
  <1>3. g \in Goroutines /\ gor[r].pc \in {"next", "recv"} /\ UNCHANGED <<uiVars, busVars>>
    BY <1>2 DEF ToolResult
  <1>4. ASSUME NEW text \in Seq(Tokens),
               SendThen(r, g, <<StreamMsg(r, "result", text)>>, "loop")
        PROVE  IInv'
    <2> DEFINE msgs == <<StreamMsg(r, "result", text)>>
    <2>1. msgs \in OutputOf(r) /\ msgs # <<>>
      BY <1>1 DEF OutputOf, StreamMsg, StreamMsgs, IsTerminal
    <2>2. SendThen(r, g, msgs, "loop")
      BY <1>4
    <2> HIDE DEF g, msgs
    <2> QED BY <1>3, <2>1, <2>2, OutputStep
  <1>5. CASE gor' = [gor EXCEPT ![r] = [g EXCEPT !.pc = "loop"]]
    <2> DEFINE h == [g EXCEPT !.pc = "loop"]
    <2> HIDE DEF g
    <2>1. h \in Goroutines /\ h.pc = "loop"
      BY <1>3 DEF Goroutines, PCs
    <2>2. ~IsPast(gor[r]) /\ SendsWell(r, h)
      BY <1>3, <2>1 DEF IsPast, SendsWell
    <2>3. gor' = [gor EXCEPT ![r] = h]
      BY <1>5
    <2> HIDE DEF h
    <2> QED BY <1>3, <2>1, <2>2, <2>3, LocalStep
  <1> QED BY <1>2, <1>4, <1>5

(* The session callback touches only the snapshot of its run.              *)
LEMMA CaptureSessionStep ==
  ASSUME IInv, NEW r \in Runs, CaptureSession(r)
  PROVE  IInv'
  <1> DEFINE g == [gor[r] EXCEPT !.snap = {gor[r].prompt}]
  <1>1. gor[r] \in Goroutines /\ {gor[r].prompt} \in SUBSET Nat
    BY ConstantsAssumption DEF IInv, TypeOK, Goroutines
  <1>2. g \in Goroutines /\ g.pc = gor[r].pc
    BY <1>1 DEF Goroutines
  <1>3. /\ gor[r].pc \in {"next", "recv"}
        /\ gor' = [gor EXCEPT ![r] = g]
        /\ UNCHANGED <<uiVars, busVars>>
    BY DEF CaptureSession
  <1>4. ~IsPast(gor[r]) /\ SendsWell(r, g)
    BY <1>2, <1>3 DEF IsPast, SendsWell
  <1> HIDE DEF g
  <1> QED BY <1>2, <1>3, <1>4, LocalStep

-----------------------------------------------------------------------------
(* The channel and the pump.                                               *)

(* What a send does to the goroutine and which message it puts in transit. *)
LEMMA SendFacts ==
  ASSUME IInv, NEW r \in Runs, gor[r].pc = "send"
  PROVE  /\ Head(gor[r].out) \in StreamMsgs
         /\ Head(gor[r].out).run = r
         /\ AfterSend(gor[r]) \in Goroutines
         /\ AfterSend(gor[r]).pc # "idle"
         /\ SendsWell(r, AfterSend(gor[r]))
         /\ IsPast(gor[r]) => Head(gor[r].out).kind = "done" /\ IsPast(AfterSend(gor[r]))
         /\ IsTerminal(Head(gor[r].out)) => IsPast(AfterSend(gor[r]))
         /\ AfterSend(gor[r]).pc = "ended" => IsTerminal(Head(gor[r].out))
  <1> DEFINE g == gor[r]
  <1>1. g \in Goroutines /\ g.out \in Seq(StreamMsgs) /\ g.pc = "send" /\ SendsWell(r, g)
    BY DEF IInv, TypeOK, SendingInv, Goroutines
  <1>2. g.out # <<>> /\ Len(g.out) \in Nat \ {0}
    BY <1>1, EmptySeq DEF SendsWell
  <1> HIDE DEF g
  <1>3. Head(g.out) = g.out[1] /\ Head(g.out) \in StreamMsgs /\ Head(g.out).run = r
    BY <1>1, <1>2, ElementOfSeq DEF SendsWell
  <1>4. CASE Len(g.out) > 1
    <2> DEFINE h == [g EXCEPT !.out = Tail(@)]
    <2>1. /\ Tail(g.out) \in Seq(StreamMsgs) /\ Len(Tail(g.out)) = Len(g.out) - 1
          /\ \A k \in 1..Len(Tail(g.out)) : Tail(g.out)[k] = g.out[k + 1]
          /\ \A k \in 1..Len(Tail(g.out)) : k + 1 \in 1..Len(g.out)
      BY <1>1, <1>2, HeadTailProperties
    <2>2. h \in Goroutines /\ h.pc = "send" /\ h.resume = g.resume /\ h.out = Tail(g.out)
      BY <1>1, <2>1 DEF Goroutines
    <2>3. g.resume \in {"loop", "stream"} /\ ~IsTerminal(g.out[1])
      BY <1>1, <1>2, <1>4 DEF SendsWell
    <2>4. Tail(g.out) # <<>>
      <3>1. Len(Tail(g.out)) # 0
        <4>1. Len(Tail(g.out)) = Len(g.out) - 1
          BY <2>1
        <4>2. \A n \in Nat : n > 1 => n - 1 # 0
          OBVIOUS
        <4> QED BY <1>2, <1>4, <4>1, <4>2, Zenon
      <3> QED BY <2>1, <3>1, EmptySeq
    <2>5. SendsWell(r, h)
      BY <1>1, <2>1, <2>2, <2>3, <2>4 DEF SendsWell
    <2>6. AfterSend(g) = h
      BY <1>4 DEF AfterSend
    <2>7. ~IsPast(g)
      BY <1>1, <2>3 DEF IsPast
    <2> QED BY <1>3, <2>2, <2>3, <2>5, <2>6, <2>7 DEF g
  <1>5. CASE Len(g.out) = 1 /\ g.resume = "ended"
    <2>1. AfterSend(g) = [NoRun EXCEPT !.pc = "ended"]
      BY <1>5 DEF AfterSend
    <2>2. AfterSend(g) \in Goroutines /\ AfterSend(g).pc = "ended"
      BY <2>1, NoRunType DEF Goroutines, PCs
    <2>3. g.out[1].kind = "done"
      BY <1>1, <1>5 DEF SendsWell
    <2> QED BY <1>3, <2>2, <2>3 DEF g, IsPast, SendsWell, IsTerminal
  <1>6. CASE Len(g.out) = 1 /\ g.resume # "ended"
    <2> DEFINE h == [g EXCEPT !.out = <<>>, !.pc = g.resume, !.resume = "idle"]
    <2>1. g.resume \in {"loop", "stream", "deferred"}
      BY <1>1, <1>6 DEF SendsWell
    <2>2. h \in Goroutines /\ h.pc = g.resume
      <3>1. g.resume \in PCs /\ "idle" \in PCs /\ <<>> \in Seq(StreamMsgs)
        BY <2>1, EmptySeq DEF PCs
      <3> QED BY <1>1, <3>1 DEF Goroutines
    <2>3. AfterSend(g) = h
      BY <1>6 DEF AfterSend
    <2>4. IsTerminal(g.out[1]) => g.resume = "deferred"
      BY <1>1, <1>6, <2>1 DEF SendsWell
    <2>5. ~IsPast(g)
      BY <1>1, <1>6 DEF IsPast
    <2> QED BY <1>3, <2>1, <2>2, <2>3, <2>4, <2>5 DEF g, IsPast, SendsWell
  <1>7. \/ Len(g.out) > 1
        \/ Len(g.out) = 1 /\ g.resume = "ended"
        \/ Len(g.out) = 1 /\ g.resume # "ended"
    <2>1. \A n \in Nat \ {0} : n > 1 \/ n = 1
      OBVIOUS
    <2> QED BY <1>2, <2>1, Zenon
  <1> QED BY <1>4, <1>5, <1>6, <1>7, Zenon

(* Sending puts the message behind all that is in transit: of a run that   *)
(* has sent err or done, only done is left to send.                        *)
LEMMA SendStep ==
  ASSUME IInv, NEW r \in Runs, Send(r)
  PROVE  IInv'
  <1> DEFINE m == Head(gor[r].out)
             g == AfterSend(gor[r])
  <1>1. /\ m \in StreamMsgs /\ m.run = r /\ g \in Goroutines /\ g.pc # "idle"
        /\ SendsWell(r, g)
        /\ IsPast(gor[r]) => m.kind = "done" /\ IsPast(g)
        /\ IsTerminal(m) => IsPast(g)
        /\ g.pc = "ended" => IsTerminal(m)
    BY SendFacts DEF Send
  <1>2. /\ gor[r].pc = "send" /\ ch' = Append(ch, m)
        /\ gor' = [gor EXCEPT ![r] = g]
        /\ UNCHANGED <<view, busy, runID, editing, asked, waiting, inbox>>
    BY DEF Send, uiVars
  <1> HIDE DEF m, g
  <1>3. gor \in [Runs -> Goroutines] /\ ch \in Seq(StreamMsgs) /\ inbox \in Seq(StreamMsgs)
    BY DEF IInv, TypeOK
  <1>4. gor'[r] = g /\ \A q \in Runs \ {r} : gor'[q] = gor[q]
    BY <1>2, <1>3
  <1>5. r <= runID /\ r \in 1..runID
    BY <1>2, ConstantsAssumption DEF IInv, TypeOK, Runs
  <1>6. InTransit' = InTransit \cup {m}
    BY <1>1, <1>2, <1>3, ToSetAppend DEF InTransit
  <1>7. \A q \in Runs : IsPast(gor[q]) => IsPast(gor'[q])
    BY <1>1, <1>4
  <1>8. TypeOK'
    BY <1>1, <1>2, <1>4 DEF IInv, TypeOK
  <1>9. SendingInv'
    BY <1>1, <1>4 DEF IInv, SendingInv
  <1>10. TransitInv'
    <2>1. \A x \in InTransit' : x.run \in Runs /\ x.run <= runID'
      BY <1>1, <1>2, <1>5, <1>6 DEF IInv, TransitInv
    <2>2. \A x \in InTransit' : IsTerminal(x) => IsPast(gor'[x.run])
      BY <1>1, <1>4, <1>6, <1>7 DEF IInv, TransitInv
    <2>3. \A x \in InTransit : Follows(x, m)
      BY <1>1 DEF IInv, TransitInv, Follows
    <2>4. /\ Len(ch') = Len(ch) + 1 /\ ch'[Len(ch) + 1] = m
          /\ \A i \in 1..Len(ch) : ch'[i] = ch[i]
      BY <1>1, <1>2, <1>3
    <2>5. \A i \in 1..Len(ch) : ch[i] \in InTransit
      BY <1>3, ToSetMembers DEF InTransit
    <2>6. \A i \in 1..Len(inbox) : inbox[i] \in InTransit
      BY <1>3, ToSetMembers DEF InTransit
    <2>7. \A i, j \in 1..Len(ch') : i < j => Follows(ch'[i], ch'[j])
      BY <1>3, <2>3, <2>4, <2>5, LenProperties, SMTT(30) DEF IInv, TransitInv
    <2>8. \A i \in 1..Len(inbox'), j \in 1..Len(ch') : Follows(inbox'[i], ch'[j])
      BY <1>2, <1>3, <2>3, <2>4, <2>6, LenProperties DEF IInv, TransitInv
    <2> QED BY <2>1, <2>2, <2>7, <2>8 DEF TransitInv
  <1>11. PumpDiscipline' /\ BusyRuns'
    BY <1>2 DEF IInv, PumpDiscipline, BusyRuns
  <1>12. BusyHasAnEnd'
    BY <1>1, <1>2, <1>4, <1>6 DEF IInv, BusyHasAnEnd, BusyRuns, StillToEnd
  <1>13. PastRunsOnlySayDone'
    <2>1. \A q \in 1..runID : q \in Runs
      BY ConstantsAssumption DEF IInv, TypeOK, Runs
    <2>2. \A q \in 1..runID : ~IsCurrentRun(q) => IsPast(gor[q])
      BY DEF IInv, PastRunsOnlySayDone, IsPast
    <2>3. \A q \in 1..runID' : ~IsCurrentRun(q)' => IsPast(gor'[q])
      BY <1>2, <1>7, <2>1, <2>2 DEF IsCurrentRun
    <2>4. \A x \in InTransit' : ~IsCurrentRun(x.run)' => x.kind = "done"
      BY <1>1, <1>2, <1>5, <1>6, <2>2 DEF IInv, PastRunsOnlySayDone, IsCurrentRun
    <2> QED BY <2>3, <2>4 DEF PastRunsOnlySayDone, IsPast, IsCurrentRun
  <1> QED BY <1>8, <1>9, <1>10, <1>11, <1>12, <1>13 DEF IInv

(* While messages are in the channel and a pump waits, Update has none.    *)
LEMMA PumpStep ==
  ASSUME IInv, Pump
  PROVE  IInv'
  <1>1. /\ waiting > 0 /\ ch # <<>> /\ waiting' = waiting - 1
        /\ inbox' = Append(inbox, Head(ch)) /\ ch' = Tail(ch)
        /\ UNCHANGED <<view, busy, runID, editing, asked, gor>>
    BY DEF Pump, uiVars
  <1>2. ch \in Seq(StreamMsgs) /\ inbox \in Seq(StreamMsgs) /\ waiting \in Nat
    BY DEF IInv, TypeOK
  <1>3. waiting = 1 /\ Len(inbox) = 0
    BY <1>1, <1>2, LenProperties DEF IInv, PumpDiscipline
  <1>4. inbox = <<>>
    BY <1>2, <1>3, EmptySeq
  <1>5. /\ Head(ch) \in StreamMsgs /\ Head(ch) = ch[1]
        /\ Tail(ch) \in Seq(StreamMsgs) /\ Len(Tail(ch)) = Len(ch) - 1
        /\ \A j \in 1..Len(Tail(ch)) : Tail(ch)[j] = ch[j + 1]
        /\ Len(ch) \in Nat \ {0}
    BY <1>1, <1>2, HeadTailProperties, EmptySeq, ElementOfSeq
  <1>6. inbox' \in Seq(StreamMsgs) /\ Len(inbox') = 1 /\ inbox'[1] = ch[1]
    BY <1>1, <1>4, <1>5
  <1>7. InTransit' = InTransit
    <2>1. ToSet(ch) = ToSet(Tail(ch)) \cup {Head(ch)}
      BY <1>1, <1>2, ToSetTail
    <2>2. ToSet(inbox') = ToSet(inbox) \cup {Head(ch)}
      BY <1>1, <1>2, <1>5, ToSetAppend
    <2> QED BY <1>1, <2>1, <2>2 DEF InTransit
  <1>8. TypeOK'
    BY <1>1, <1>2, <1>5, <1>6 DEF IInv, TypeOK
  <1>9. TransitInv'
    <2>1. \A j \in 1..Len(ch') : j + 1 \in 1..Len(ch) /\ ch'[j] = ch[j + 1]
      BY <1>1, <1>5
    <2>2. \A i, j \in 1..Len(ch') : i < j => Follows(ch'[i], ch'[j])
      BY <2>1 DEF IInv, TransitInv
    <2>3. 1 \in 1..Len(ch) /\ \A j \in 1..Len(ch') : 1 < j + 1
      BY <1>5
    <2>4. \A j \in 1..Len(ch') : Follows(inbox'[1], ch'[j])
      BY <1>6, <2>1, <2>3 DEF IInv, TransitInv
    <2>5. \A i \in 1..Len(inbox'), j \in 1..Len(ch') : Follows(inbox'[i], ch'[j])
      BY <1>6, <2>4
    <2> QED BY <1>1, <1>7, <2>2, <2>5 DEF IInv, TransitInv
  <1>10. PumpDiscipline'
    BY <1>1, <1>3, <1>6 DEF IInv, PumpDiscipline
  <1>11. SendingInv' /\ BusyRuns'
    BY <1>1 DEF IInv, SendingInv, BusyRuns
  <1>12. BusyHasAnEnd'
    BY <1>1, <1>7 DEF IInv, BusyHasAnEnd, StillToEnd
  <1>13. PastRunsOnlySayDone'
    BY <1>1, <1>7 DEF IInv, PastRunsOnlySayDone, IsCurrentRun
  <1> QED BY <1>8, <1>9, <1>10, <1>11, <1>12, <1>13 DEF IInv

-----------------------------------------------------------------------------
(* The event loop.                                                         *)

(* Update only ever has the one message of a run that is going on.         *)
LEMMA Delivered ==
  ASSUME IInv, NEW i \in 1..Len(inbox)
  PROVE  /\ i = 1 /\ Len(inbox) = 1 /\ waiting = 0
         /\ busy /\ ~editing
         /\ inbox[i] \in InTransit
         /\ RemoveAt(inbox, i) = <<>>
  <1>1. inbox \in Seq(StreamMsgs) /\ waiting \in Nat /\ Len(inbox) \in Nat
    BY LenProperties DEF IInv, TypeOK
  <1>2. i = 1 /\ Len(inbox) = 1 /\ waiting = 0 /\ busy /\ ~editing
    <2>1. /\ busy => waiting + Len(inbox) = 1 /\ ~editing
          /\ ~busy => waiting + Len(inbox) = 0
      BY DEF IInv, PumpDiscipline
    <2>2. Len(inbox) >= 1
      BY <1>1
    <2>3. busy
      BY <1>1, <2>1, <2>2
    <2>4. i = 1 /\ Len(inbox) = 1 /\ waiting = 0
      <3>1. \A w, n \in Nat : w + n = 1 /\ n >= 1 => n = 1 /\ w = 0
        OBVIOUS
      <3>2. Len(inbox) = 1 /\ waiting = 0
        BY <1>1, <2>1, <2>2, <2>3, <3>1, Zenon
      <3> QED BY <3>2
    <2> QED BY <2>1, <2>3, <2>4
  <1>3. inbox[i] \in InTransit
    BY <1>1, ToSetMembers DEF InTransit
  <1>4. RemoveAt(inbox, i) = <<>>
    BY <1>1, <1>2, RemoveAtSingle
  <1> QED BY <1>2, <1>3, <1>4

(* Taking that message preserves the invariant if a pump is returned just  *)
(* when the run goes on, which it may unless the message ends it.          *)
LEMMA TakingStep ==
  ASSUME IInv, NEW i \in 1..Len(inbox),
         inbox' = RemoveAt(inbox, i),
         UNCHANGED <<runID, editing, asked, ch, gor>>,
         \/ /\ busy' = busy /\ waiting' = waiting + 1
            /\ ~(IsTerminal(inbox[i]) /\ inbox[i].run = runID)
         \/ /\ busy' = FALSE /\ waiting' = waiting
            /\ IsTerminal(inbox[i]) /\ inbox[i].run = runID
  PROVE  IInv'
  <1>1. /\ i = 1 /\ Len(inbox) = 1 /\ waiting = 0 /\ busy /\ ~editing
        /\ inbox[i] \in InTransit /\ inbox' = <<>>
    BY Delivered
  <1>11. busy' \in BOOLEAN
    BY DEF IInv, TypeOK
  <1>12. busy' => /\ waiting' = 1
                  /\ ~(IsTerminal(inbox[i]) /\ inbox[i].run = runID)
    BY <1>1
  <1>13. ~busy' => /\ waiting' = 0
                   /\ IsTerminal(inbox[i]) /\ inbox[i].run = runID
    BY <1>1
  <1>2. ch \in Seq(StreamMsgs) /\ inbox \in Seq(StreamMsgs) /\ Len(inbox') = 0
    BY <1>1, EmptySeq DEF IInv, TypeOK
  <1>3. ToSet(inbox) = {inbox[i]} /\ ToSet(inbox') = {}
    BY <1>1, <1>2 DEF ToSet
  <1>4. InTransit = InTransit' \cup {inbox[i]}
    BY <1>3 DEF InTransit
  <1>5. TypeOK'
    <2>1. waiting' \in Nat
      BY <1>12, <1>13
    <2>2. inbox' \in Seq(StreamMsgs)
      BY <1>1, EmptySeq
    <2> QED BY <1>1, <1>11, <2>1, <2>2 DEF IInv, TypeOK
  <1>6. SendingInv' /\ BusyRuns'
    BY <1>1 DEF IInv, SendingInv, BusyRuns
  <1>7. TransitInv'
    BY <1>2, <1>4 DEF IInv, TransitInv
  <1>8. PumpDiscipline'
    BY <1>1, <1>2, <1>11, <1>12, <1>13 DEF PumpDiscipline
  <1>9. BusyHasAnEnd'
    BY <1>1, <1>4, <1>12 DEF IInv, BusyHasAnEnd, StillToEnd
  <1>10. PastRunsOnlySayDone'
    <2>1. CASE busy'
      BY <1>1, <1>4, <1>12, <2>1 DEF IInv, PastRunsOnlySayDone, IsCurrentRun
    <2>2. CASE ~busy'
      <3>1. IsTerminal(inbox[i]) /\ inbox[i].run = runID
        BY <1>13, <2>2
      <3>2. IsPast(gor[runID])
        BY <1>1, <3>1 DEF IInv, TransitInv
      <3>3. \A q \in 1..runID : IsPast(gor[q])
        BY <3>2 DEF IInv, PastRunsOnlySayDone, IsCurrentRun, IsPast
      <3>4. \A j \in 1..Len(ch) : ch[j].run = runID => ch[j].kind = "done"
        BY <3>1 DEF IInv, TransitInv, Follows
      <3>5. \A m \in InTransit' : m.kind = "done"
        BY <1>2, <1>3, <3>4, ToSetMembers
           DEF IInv, PastRunsOnlySayDone, IsCurrentRun, InTransit
      <3> QED BY <2>2, <3>3, <3>5 DEF PastRunsOnlySayDone, IsCurrentRun, IsPast
    <2> QED BY <2>1, <2>2
  <1> QED BY <1>5, <1>6, <1>7, <1>8, <1>9, <1>10 DEF IInv

(* The event loop takes a message: one of an older run, one to show, or    *)
(* the one that ends the run.                                              *)
LEMMA DeliverStep ==
  ASSUME IInv, Deliver
  PROVE  IInv'
  <1> PICK i \in 1..Len(inbox) : DropMessage(i) \/ ShowMessage(i) \/ EndRun(i)
    BY DEF Deliver
  <1>1. CASE DropMessage(i)
    <2>1. ~editing
      BY Delivered
    <2> QED BY <1>1, <2>1, TakingStep DEF DropMessage, uiVars
  <1>2. CASE ShowMessage(i)
    BY <1>2, TakingStep DEF ShowMessage
  <1>3. CASE EndRun(i)
    BY <1>3, TakingStep DEF EndRun, IsCurrent
  <1> QED BY <1>1, <1>2, <1>3

-----------------------------------------------------------------------------
(* The event loop: keys.                                                   *)

(* The new run takes a number no goroutine and no message has, and finds   *)
(* no pump and no message of an older run waiting for Update.              *)
LEMMA StartRunStep ==
  ASSUME IInv, StartRun
  PROVE  IInv'
  <1> DEFINE q == runID + 1
             g == [NoRun EXCEPT !.pc = "loop", !.prompt = asked + 1]
  <1>1. /\ ~busy /\ ~editing /\ asked < MaxRuns
        /\ asked' = asked + 1 /\ runID' = q /\ busy' = TRUE /\ waiting' = waiting + 1
        /\ gor' = [gor EXCEPT ![q] = g]
        /\ UNCHANGED <<editing, ch, inbox>>
    BY DEF StartRun
  <1>2. /\ runID \in Nat /\ asked \in Nat /\ MaxRuns \in Nat /\ waiting \in Nat
        /\ runID <= asked /\ gor \in [Runs -> Goroutines]
        /\ inbox \in Seq(StreamMsgs)
    BY ConstantsAssumption DEF IInv, TypeOK
  <1>3. q \in Runs /\ q \in Nat /\ q > runID /\ q <= asked'
    BY <1>1, <1>2 DEF Runs
  <1>4. waiting = 0 /\ Len(inbox) = 0
    <2>1. waiting + Len(inbox) = 0 /\ Len(inbox) \in Nat
      BY <1>1, <1>2, LenProperties DEF IInv, PumpDiscipline
    <2>2. \A w, n \in Nat : w + n = 0 => w = 0 /\ n = 0
      OBVIOUS
    <2> QED BY <1>2, <2>1, <2>2, Zenon
  <1>5. g \in Goroutines /\ g.pc = "loop"
    <2>1. asked + 1 \in 0..MaxRuns
      BY <1>1, <1>2
    <2> QED BY <2>1, NoRunType DEF Goroutines, PCs
  <1> HIDE DEF g
  <1>6. gor'[q] = g /\ \A r \in Runs \ {q} : gor'[r] = gor[r]
    BY <1>1, <1>2, <1>3
  <1>7. TypeOK'
    <2>1. gor' \in [Runs -> Goroutines]
      BY <1>1, <1>2, <1>3, <1>5
    <2>2. runID' \in 0..MaxRuns /\ asked' \in 0..MaxRuns /\ waiting' \in Nat
      BY <1>1, <1>2, <1>3
    <2>3. \A r \in Runs : gor'[r].pc = "idle" <=> r > runID'
      <3> SUFFICES ASSUME NEW r \in Runs, r # q
                   PROVE  r > runID <=> r > q
        BY <1>1, <1>3, <1>5, <1>6 DEF IInv, TypeOK
      <3> QED BY <1>2 DEF Runs
    <2> QED BY <1>1, <1>3, <2>1, <2>2, <2>3 DEF IInv, TypeOK
  <1>8. SendingInv'
    BY <1>3, <1>5, <1>6 DEF IInv, SendingInv, SendsWell
  <1>9. InTransit' = InTransit
    BY <1>1 DEF InTransit
  <1>10. \A m \in InTransit : m.run \in Runs /\ m.run <= runID /\ m.run # q
    BY <1>2 DEF IInv, TransitInv, Runs
  <1>11. TransitInv'
    <2>1. \A m \in InTransit' : m.run \in Runs /\ m.run <= runID'
      BY <1>1, <1>2, <1>3, <1>9, <1>10 DEF Runs
    <2>2. \A m \in InTransit' : IsTerminal(m) => IsPast(gor'[m.run])
      BY <1>6, <1>9, <1>10 DEF IInv, TransitInv
    <2> QED BY <1>1, <2>1, <2>2 DEF IInv, TransitInv
  <1>12. PumpDiscipline'
    BY <1>1, <1>4 DEF PumpDiscipline
  <1>13. BusyRuns' /\ BusyHasAnEnd'
    BY <1>1, <1>3, <1>5, <1>6 DEF BusyRuns, BusyHasAnEnd, StillToEnd
  <1>14. PastRunsOnlySayDone'
    <2>1. \A r \in 1..runID' : r # q => r \in 1..runID /\ r \in Runs
      BY <1>1, <1>2, <1>3 DEF Runs
    <2>2. \A r \in 1..runID' : ~IsCurrentRun(r)' => IsPast(gor'[r])
      BY <1>1, <1>6, <2>1 DEF IInv, PastRunsOnlySayDone, IsCurrentRun, IsPast
    <2>3. \A m \in InTransit' : m.kind = "done"
      BY <1>1, <1>9 DEF IInv, PastRunsOnlySayDone, IsCurrentRun
    <2> QED BY <2>2, <2>3 DEF PastRunsOnlySayDone, IsPast, IsCurrentRun
  <1> QED BY <1>7, <1>8, <1>11, <1>12, <1>13, <1>14 DEF IInv

(* Cancelling only marks the current run's goroutine.                      *)
LEMMA CancelRunStep ==
  ASSUME IInv, CancelRun
  PROVE  IInv'
  <1> DEFINE g == [gor[runID] EXCEPT !.cancelled = TRUE]
  <1>1. /\ runID \in Runs /\ gor[runID] \in Goroutines
        /\ runID \in Nat /\ gor[runID].pc # "idle"
    BY DEF IInv, TypeOK, BusyRuns, CancelRun
  <1>2. /\ g \in Goroutines /\ g.pc = gor[runID].pc
        /\ g.out = gor[runID].out /\ g.resume = gor[runID].resume
    BY <1>1 DEF Goroutines
  <1>3. gor' = [gor EXCEPT ![runID] = g] /\ UNCHANGED <<uiVars, busVars>>
    BY DEF CancelRun
  <1> HIDE DEF g
  <1>4. (IsPast(gor[runID]) => IsPast(g)) /\ SendsWell(runID, g)
    BY <1>1, <1>2 DEF IInv, SendingInv, IsPast, SendsWell
  <1> QED BY <1>1, <1>2, <1>3, <1>4, LocalStep

(* What only changes the view or the config screen, which is closed while  *)
(* a run is going on.                                                      *)
LEMMA ScreenStep ==
  ASSUME IInv, UNCHANGED <<busy, runID, asked, busVars, gor>>,
         editing' \in BOOLEAN, editing' => ~busy
  PROVE  IInv'
  <1> USE DEF busVars
  <1>1. InTransit' = InTransit
    BY DEF InTransit
  <1>2. TypeOK'
    BY DEF IInv, TypeOK
  <1>3. SendingInv' /\ TransitInv' /\ BusyRuns'
    BY <1>1 DEF IInv, SendingInv, TransitInv, BusyRuns
  <1>4. PumpDiscipline'
    BY DEF IInv, PumpDiscipline
  <1>5. BusyHasAnEnd' /\ PastRunsOnlySayDone'
    BY <1>1 DEF IInv, BusyHasAnEnd, StillToEnd, PastRunsOnlySayDone, IsCurrentRun
  <1> QED BY <1>2, <1>3, <1>4, <1>5 DEF IInv

(* Every key and command.                                                  *)
LEMMA UserSteps ==
  ASSUME IInv, UserStep
  PROVE  IInv'
  <1>0. editing \in BOOLEAN
    BY DEF IInv, TypeOK
  <1>1. CASE StartRun
    BY <1>1, StartRunStep
  <1>2. CASE CancelRun
    BY <1>2, CancelRunStep
  <1>3. CASE NewTranscript
    BY <1>0, <1>3, ScreenStep DEF NewTranscript
  <1>4. CASE OpenEditor
    BY <1>4, ScreenStep DEF OpenEditor
  <1>5. CASE CloseEditor
    BY <1>5, ScreenStep DEF CloseEditor
  <1>6. CASE CloseEditorNoting
    BY <1>6, ScreenStep DEF CloseEditorNoting
  <1>7. CASE LeaveNote
    BY <1>0, <1>7, ScreenStep DEF LeaveNote
  <1> QED BY <1>1, <1>2, <1>3, <1>4, <1>5, <1>6, <1>7 DEF UserStep

-----------------------------------------------------------------------------
(* The theorems.                                                           *)

(* Nothing is running and nothing is in transit when the program starts.   *)
LEMMA InitInv == Init => IInv
  <1> SUFFICES ASSUME Init PROVE IInv
    OBVIOUS
  <1>1. InTransit = {} /\ Len(ch) = 0 /\ Len(inbox) = 0
    BY DEF Init, InTransit, ToSet
  <1>2. TypeOK
    <2>1. \A r \in Runs : gor[r] = NoRun
      BY DEF Init
    <2>2. \A r \in Runs : gor[r].pc = "idle" /\ r > 0
      <3>1. NoRun.pc = "idle"
        BY DEF NoRun
      <3>2. \A r \in Runs : r > 0
        BY ConstantsAssumption DEF Runs
      <3> QED BY <2>1, <3>1, <3>2
    <2>3. gor \in [Runs -> Goroutines]
      BY NoRunType DEF Init
    <2>4. ch \in Seq(StreamMsgs) /\ inbox \in Seq(StreamMsgs)
      BY EmptySeq DEF Init
    <2>5. runID = 0 /\ asked = 0 /\ waiting = 0 /\ 0 \in 0..MaxRuns
      BY ConstantsAssumption DEF Init
    <2>6. busy \in BOOLEAN /\ editing \in BOOLEAN
      BY DEF Init
    <2>7. \A r \in Runs : gor[r].pc = "idle" <=> r > runID
      BY <2>2, <2>5
    <2> QED BY <2>3, <2>4, <2>5, <2>6, <2>7 DEF TypeOK
  <1>3. SendingInv
    BY DEF Init, SendingInv, SendsWell, NoRun
  <1>4. TransitInv
    BY <1>1 DEF TransitInv
  <1>5. PumpDiscipline /\ BusyRuns /\ BusyHasAnEnd
    BY <1>1 DEF Init, PumpDiscipline, BusyRuns, BusyHasAnEnd
  <1>6. PastRunsOnlySayDone
    BY <1>1 DEF Init, PastRunsOnlySayDone
  <1> QED BY <1>2, <1>3, <1>4, <1>5, <1>6 DEF IInv

(* Every step of every process keeps the invariant.                        *)
LEMMA NextInv == IInv /\ [Next]_vars => IInv'
  <1> SUFFICES ASSUME IInv, [Next]_vars PROVE IInv'
    OBVIOUS
  <1>1. CASE UserStep
    BY <1>1, UserSteps
  <1>2. CASE Pump
    BY <1>2, PumpStep
  <1>3. CASE Deliver
    BY <1>3, DeliverStep
  <1>4. ASSUME NEW r \in Runs, Goroutine(r)
        PROVE  IInv'
    BY <1>4, CheckContextStep, DeferredStep, SendStep DEF Goroutine
  <1>5. ASSUME NEW r \in Runs, AgentStep(r)
        PROVE  IInv'
    BY <1>5, RunStopsStep, RunFailsStep, StreamChunkStep, StreamEndsStep,
       WholeMessageStep, StreamBeginsStep, ToolResultStep DEF AgentStep
  <1>6. ASSUME NEW r \in Runs, CaptureSession(r)
        PROVE  IInv'
    BY <1>6, CaptureSessionStep
  <1>7. CASE UNCHANGED vars
    <2>1. UNCHANGED <<busy, runID, editing, asked, busVars, gor>>
      BY <1>7 DEF vars, busVars
    <2> QED BY <2>1, ScreenStep DEF IInv, TypeOK, PumpDiscipline
  <1> QED BY <1>1, <1>2, <1>3, <1>4, <1>5, <1>6, <1>7 DEF Next

(* The inductive invariant holds of every behaviour.                       *)
THEOREM Invariance == Spec => []IInv
  BY InitInv, NextInv, PTL DEF Spec

(* Type correctness of the run loop, the channel and its goroutines.       *)
THEOREM TypeCorrect == Spec => []TypeOK
  <1>1. IInv => TypeOK
    BY DEF IInv
  <1> QED BY <1>1, Invariance, PTL

(* However many prompts are typed and however their runs interleave on the *)
(* one channel: while a run is shown exactly one message is awaited or on  *)
(* its way to Update, otherwise no pump is left behind, and the config     *)
(* screen never swallows a message of a run.                               *)
THEOREM PumpsAreDisciplined == Spec => []PumpDiscipline
  <1>1. IInv => PumpDiscipline
    BY DEF IInv
  <1> QED BY <1>1, Invariance, PTL

(* A run the interface shows can always still end: its goroutine is at     *)
(* work or its err or done is in transit, whatever the channel's capacity. *)
THEOREM RunsHaveAnEnd == Spec => []BusyHasAnEnd
  <1>1. IInv => BusyHasAnEnd
    BY DEF IInv
  <1> QED BY <1>1, Invariance, PTL

(* Once the interface has stopped showing a run, all that can still reach  *)
(* the channel from it is its done message, which Update drops.            *)
THEOREM OldRunsAreSilent == Spec => []PastRunsOnlySayDone
  <1>1. IInv => PastRunsOnlySayDone
    BY DEF IInv
  <1> QED BY <1>1, Invariance, PTL


-----------------------------------------------------------------------------
(* What the view may hold.                                                 *)
Turns ==
  [role : {"user", "assistant", "toolcall", "toolresult", "error", "meta"},
   text : Seq(Tokens), reasoning : Seq(Tokens), stream : BOOLEAN,
   call : Tokens \cup {NoCall}]

Views == [turns : Seq(Turns), pending : Seq(Tokens), pendingReasoning : Seq(Tokens)]

ViewOK == view \in Views

(* An edit keeps every turn that is not an assistant's, and all before it: *)
(* only an answer at the very end is ever touched.                         *)
Keeps(s, t) ==
  \A k \in 1..Len(s) : s[k].role # "assistant" =>
    k <= Len(t) /\ \A i \in 1..k : t[i] = s[i]

LEMMA KeepsRefl ==
  ASSUME NEW s \in Seq(Turns)
  PROVE  Keeps(s, s)
<1>1. Len(s) \in Nat
  OBVIOUS
<1> QED
  BY <1>1 DEF Keeps

LEMMA KeepsTrans ==
  ASSUME NEW s \in Seq(Turns), NEW t \in Seq(Turns), NEW u \in Seq(Turns),
         Keeps(s, t), Keeps(t, u)
  PROVE  Keeps(s, u)
<1> SUFFICES ASSUME NEW k \in 1..Len(s), s[k].role # "assistant"
             PROVE  k <= Len(u) /\ \A i \in 1..k : u[i] = s[i]
  BY DEF Keeps
<1>1. k \in 1..Len(t) /\ \A i \in 1..k : t[i] = s[i]
  BY DEF Keeps
<1>2. k \in 1..k
  OBVIOUS
<1>3. t[k].role # "assistant"
  BY <1>1, <1>2
<1>4. k <= Len(u) /\ \A i \in 1..k : u[i] = t[i]
  BY <1>1, <1>3 DEF Keeps
<1> QED
  BY <1>1, <1>4

(* Adding turns keeps all.                                                 *)
LEMMA KeepsConcat ==
  ASSUME NEW s \in Seq(Turns), NEW t \in Seq(Turns)
  PROVE  s \o t \in Seq(Turns) /\ Keeps(s, s \o t)
<1>1. /\ s \o t \in Seq(Turns) /\ Len(s \o t) = Len(s) + Len(t)
      /\ \A i \in 1..(Len(s) + Len(t)) : (s \o t)[i] = IF i <= Len(s) THEN s[i] ELSE t[i - Len(s)]
      /\ Len(s) \in Nat /\ Len(t) \in Nat
  BY ConcatProperties
<1> DEFINE st == s \o t
<1> HIDE DEF st
<1>2. ASSUME NEW k \in 1..Len(s) PROVE k <= Len(st) /\ \A i \in 1..k : st[i] = s[i]
  BY <1>1 DEF st
<1> QED
  BY <1>1, <1>2 DEF Keeps, st

LEMMA KeepsAppend ==
  ASSUME NEW s \in Seq(Turns), NEW t \in Turns
  PROVE  Append(s, t) \in Seq(Turns) /\ Keeps(s, Append(s, t))
<1>1. Append(s, t) = s \o <<t>> /\ <<t>> \in Seq(Turns)
  BY AppendIsConcat
<1> QED
  BY <1>1, KeepsConcat

(* Editing an answer at the end keeps the rest.                            *)
LEMMA KeepsLastEdit ==
  ASSUME NEW s \in Seq(Turns), s # <<>>, s[Len(s)].role = "assistant", NEW t \in Turns
  PROVE  [s EXCEPT ![Len(s)] = t] \in Seq(Turns) /\ Keeps(s, [s EXCEPT ![Len(s)] = t])
<1> DEFINE u == [s EXCEPT ![Len(s)] = t]
<1>1. Len(s) \in Nat /\ Len(s) \in 1..Len(s)
  BY EmptySeq
<1>2. u \in Seq(Turns) /\ Len(u) = Len(s) /\ \A j \in 1..Len(s) : u[j] = IF j = Len(s) THEN t ELSE s[j]
  BY <1>1, ExceptSeq
<1> HIDE DEF u
<1>3. ASSUME NEW k \in 1..Len(s), s[k].role # "assistant"
      PROVE  k <= Len(u) /\ \A i \in 1..k : u[i] = s[i]
  <2>1. k < Len(s)
    BY <1>1, <1>3
  <2> QED
    BY <1>1, <1>2, <2>1
<1> QED
  BY <1>2, <1>3 DEF Keeps, u

LEMMA KeepsLastDrop ==
  ASSUME NEW s \in Seq(Turns), s # <<>>, s[Len(s)].role = "assistant"
  PROVE  Front(s) \in Seq(Turns) /\ Keeps(s, Front(s))
<1>1. Len(s) \in Nat /\ Len(s) \in 1..Len(s)
  BY EmptySeq
<1>2. \A i \in 1..(Len(s) - 1) : s[i] \in Turns
  BY <1>1
<1>3. /\ Front(s) \in Seq(Turns) /\ Len(Front(s)) = Len(s) - 1
      /\ \A i \in 1..(Len(s) - 1) : Front(s)[i] = s[i]
  <2> DEFINE n == Len(s) - 1
  <2>1. n \in Nat /\ \A i \in 1..n : s[i] \in Turns
    BY <1>1, <1>2
  <2> HIDE DEF n
  <2>2. /\ SubSeq(s, 1, n) \in Seq(Turns)
        /\ Len(SubSeq(s, 1, n)) = IF 1 <= n THEN n - 1 + 1 ELSE 0
        /\ \A i \in 1..(n - 1 + 1) : SubSeq(s, 1, n)[i] = s[1 + i - 1]
    BY <2>1, SubSeqProperties
  <2>3. Len(SubSeq(s, 1, n)) = n /\ \A i \in 1..n : SubSeq(s, 1, n)[i] = s[i]
    BY <2>1, <2>2
  <2> QED
    BY <2>2, <2>3 DEF Front, n
<1>4. ASSUME NEW k \in 1..Len(s), s[k].role # "assistant"
      PROVE  k <= Len(Front(s)) /\ \A i \in 1..k : Front(s)[i] = s[i]
  <2>1. k < Len(s)
    BY <1>1, <1>4
  <2> QED
    BY <1>1, <1>3, <2>1
<1> QED
  BY <1>3, <1>4 DEF Keeps

(* What one edit of the view does, as the proofs below need it.            *)
Edits(v, w) == w \in Views /\ Keeps(v.turns, w.turns)

LEMMA EditsTrans ==
  ASSUME NEW v \in Views, NEW w, NEW x, Edits(v, w), Edits(w, x)
  PROVE  Edits(v, x)
<1>1. v.turns \in Seq(Turns) /\ w.turns \in Seq(Turns) /\ x.turns \in Seq(Turns)
  BY DEF Views, Edits
<1> QED
  BY <1>1, KeepsTrans DEF Edits

LEMMA EditsRefl ==
  ASSUME NEW v \in Views
  PROVE  Edits(v, v)
BY KeepsRefl DEF Views, Edits

LEMMA TurnTypes ==
  /\ StreamingTurn \in Turns
  /\ \A s \in Seq(Tokens) : UserTurn(s) \in Turns /\ ToolResultTurn(s) \in Turns
  /\ \A c \in Tokens : ToolCallTurn(c) \in Turns
  /\ \A role \in {"error", "meta"} : NoteTurn(role) \in Turns
BY DEF StreamingTurn, UserTurn, ToolResultTurn, ToolCallTurn, NoteTurn, Turn, Turns, NoCall

LEMMA AddTurnEdits ==
  ASSUME NEW v \in Views, NEW t \in Turns
  PROVE  Edits(v, AddTurn(v, t)) /\ AddTurn(v, t).turns = Append(v.turns, t)
<1>1. v.turns \in Seq(Turns)
  BY DEF Views
<1>2. AddTurn(v, t).turns = Append(v.turns, t)
  BY DEF AddTurn, Views
<1>3. Append(v.turns, t) \in Seq(Turns) /\ Keeps(v.turns, Append(v.turns, t))
  BY <1>1, KeepsAppend
<1>4. AddTurn(v, t) \in Views
  BY <1>3 DEF AddTurn, Views
<1> QED
  BY <1>2, <1>3, <1>4 DEF Edits

LEMMA EnsureEdits ==
  ASSUME NEW v \in Views
  PROVE  /\ Edits(v, ensureStreamingAssistantTurn(v))
         /\ EndsWithAssistant(ensureStreamingAssistantTurn(v))
<1>1. CASE EndsWithAssistant(v) /\ LastTurn(v).stream
  BY <1>1, EditsRefl DEF ensureStreamingAssistantTurn
<1>2. CASE ~ (EndsWithAssistant(v) /\ LastTurn(v).stream)
  <2>1. ensureStreamingAssistantTurn(v) = AddTurn(v, StreamingTurn)
    BY <1>2 DEF ensureStreamingAssistantTurn
  <2> DEFINE w == AddTurn(v, StreamingTurn)
  <2>2. Edits(v, w) /\ w.turns = Append(v.turns, StreamingTurn)
    BY AddTurnEdits, TurnTypes
  <2>3. w.turns # <<>> /\ w.turns[Len(w.turns)] = StreamingTurn
    BY <2>2, AppendProperties, TurnTypes DEF Views
  <2> QED
    BY <2>1, <2>2, <2>3 DEF EndsWithAssistant, LastTurn, StreamingTurn, Turn
<1> QED
  BY <1>1, <1>2

(* The three edits of the last turn.                                       *)
LEMMA LastTurnEdits ==
  ASSUME NEW v \in Views, EndsWithAssistant(v), NEW t \in Turns
  PROVE  Edits(v, [v EXCEPT !.turns = [v.turns EXCEPT ![Len(v.turns)] = t]])
<1>1. v.turns \in Seq(Turns) /\ v.turns # <<>> /\ v.turns[Len(v.turns)].role = "assistant"
  BY DEF Views, EndsWithAssistant, LastTurn
<1> DEFINE u == [v.turns EXCEPT ![Len(v.turns)] = t]
<1>2. u \in Seq(Turns) /\ Keeps(v.turns, u)
  BY <1>1, KeepsLastEdit
<1> HIDE DEF u
<1>3. [v EXCEPT !.turns = u] \in Views /\ [v EXCEPT !.turns = u].turns = u
  BY <1>2 DEF Views
<1> QED
  BY <1>2, <1>3 DEF Edits, u

LEMMA LastTurnType ==
  ASSUME NEW v \in Views, EndsWithAssistant(v)
  PROVE  v.turns[Len(v.turns)] \in Turns
<1>1. Len(v.turns) \in 1..Len(v.turns)
  BY EmptySeq DEF EndsWithAssistant, Views
<1> QED
  BY <1>1 DEF Views

LEMMA ChunkEdits ==
  ASSUME NEW v \in Views, NEW s \in Seq(Tokens)
  PROVE  Edits(v, appendAssistantChunk(v, s))
<1>1. CASE EndsWithAssistant(v)
  <2> DEFINE l == v.turns[Len(v.turns)]
             t == [l EXCEPT !.text = l.text \o s, !.stream = FALSE]
  <2>1. l \in Turns
    BY <1>1, LastTurnType
  <2>2. t \in Turns
    BY <2>1, ConcatProperties DEF Turns
  <2>3. appendAssistantChunk(v, s) = [v EXCEPT !.turns = [v.turns EXCEPT ![Len(v.turns)] = t]]
    <3>1. LastTurn(v) = l
      BY DEF LastTurn
    <3> HIDE DEF l
    <3> QED
      BY <1>1, <3>1 DEF appendAssistantChunk, Views
  <2> QED
    BY <1>1, <2>2, <2>3, LastTurnEdits
<1>2. CASE ~ EndsWithAssistant(v)
  BY <1>2, EditsRefl DEF appendAssistantChunk
<1> QED
  BY <1>1, <1>2

LEMMA ReasoningEdits ==
  ASSUME NEW v \in Views, NEW s \in Seq(Tokens)
  PROVE  Edits(v, appendAssistantReasoning(v, s))
<1>1. CASE EndsWithAssistant(v)
  <2> DEFINE l == v.turns[Len(v.turns)]
             t == [l EXCEPT !.reasoning = l.reasoning \o s]
  <2>1. l \in Turns
    BY <1>1, LastTurnType
  <2>2. t \in Turns
    BY <2>1, ConcatProperties DEF Turns
  <2>3. appendAssistantReasoning(v, s) = [v EXCEPT !.turns = [v.turns EXCEPT ![Len(v.turns)] = t]]
    BY <1>1 DEF appendAssistantReasoning, Views
  <2> QED
    BY <1>1, <2>2, <2>3, LastTurnEdits
<1>2. CASE ~ EndsWithAssistant(v)
  BY <1>2, EditsRefl DEF appendAssistantReasoning
<1> QED
  BY <1>1, <1>2

LEMMA FinalizeEdits ==
  ASSUME NEW v \in Views
  PROVE  Edits(v, finalizeAssistantStream(v))
<1>1. CASE EndsWithAssistant(v)
  <2> DEFINE l == v.turns[Len(v.turns)]
             t == [l EXCEPT !.stream = FALSE]
  <2>1. l \in Turns
    BY <1>1, LastTurnType
  <2>2. t \in Turns
    BY <2>1 DEF Turns
  <2>3. finalizeAssistantStream(v) = [v EXCEPT !.turns = [v.turns EXCEPT ![Len(v.turns)] = t]]
    BY <1>1 DEF finalizeAssistantStream, Views
  <2> QED
    BY <1>1, <2>2, <2>3, LastTurnEdits
<1>2. CASE ~ EndsWithAssistant(v)
  BY <1>2, EditsRefl DEF finalizeAssistantStream
<1> QED
  BY <1>1, <1>2

LEMMA StripEdits ==
  ASSUME NEW v \in Views
  PROVE  Edits(v, stripTrailingEmptyAssistant(v))
<1>1. CASE stripTrailingEmptyAssistant(v) = v
  BY <1>1, EditsRefl
<1>2. CASE stripTrailingEmptyAssistant(v) # v
  <2>1. EndsWithAssistant(v) /\ stripTrailingEmptyAssistant(v) = [v EXCEPT !.turns = Front(v.turns)]
    BY <1>2 DEF stripTrailingEmptyAssistant
  <2>2. Front(v.turns) \in Seq(Turns) /\ Keeps(v.turns, Front(v.turns))
    BY <2>1, KeepsLastDrop DEF Views, EndsWithAssistant, LastTurn
  <2> QED
    BY <2>1, <2>2 DEF Edits, Views
<1> QED
  BY <1>1, <1>2

LEMMA FlushEdits ==
  ASSUME NEW v \in Views
  PROVE  Edits(v, Flush(v)) /\ Flush(v).pending = <<>> /\ Flush(v).pendingReasoning = <<>>
<1> DEFINE r == IF v.pendingReasoning # <<>>
                THEN appendAssistantReasoning(v, v.pendingReasoning) ELSE v
           t == IF v.pending # <<>> THEN appendAssistantChunk(r, v.pending) ELSE r
           f == [t EXCEPT !.pending = <<>>, !.pendingReasoning = <<>>]
<1>0. <<>> \in Seq(Tokens)
  OBVIOUS
<1>1. v.pending \in Seq(Tokens) /\ v.pendingReasoning \in Seq(Tokens)
  BY DEF Views
<1>2. Edits(v, r)
  BY <1>1, ReasoningEdits, EditsRefl
<1>3. r \in Views
  BY <1>2 DEF Edits
<1> HIDE DEF r
<1>4. Edits(r, t)
  BY <1>1, <1>3, ChunkEdits, EditsRefl
<1>5. t \in Views
  BY <1>4 DEF Edits
<1> HIDE DEF t
<1>6. /\ f \in Views /\ f.turns = t.turns
      /\ f.pending = <<>> /\ f.pendingReasoning = <<>>
  BY <1>0, <1>5 DEF Views
<1>7. Edits(t, f)
  BY <1>5, <1>6, KeepsRefl DEF Edits, Views
<1>8. Flush(v) = f
  BY DEF Flush, f, t, r
<1> HIDE DEF f
<1>9. Edits(v, f)
  BY <1>2, <1>3, <1>4, <1>5, <1>7, EditsTrans
<1> QED
  BY <1>6, <1>8, <1>9

LEMMA BeginAnswerEdits ==
  ASSUME NEW v \in Views, NEW prompt \in Seq(Tokens)
  PROVE  /\ Edits(v, BeginAnswer(v, prompt))
         /\ BeginAnswer(v, prompt).turns = v.turns \o <<UserTurn(prompt), StreamingTurn>>
<1> DEFINE a == <<UserTurn(prompt), StreamingTurn>>
           w == BeginAnswer(v, prompt)
<1>1. a \in Seq(Turns) /\ v.turns \in Seq(Turns) /\ <<>> \in Seq(Tokens)
  BY TurnTypes DEF Views
<1>2. w = [turns |-> v.turns \o a, pending |-> <<>>, pendingReasoning |-> <<>>]
  BY DEF BeginAnswer, View
<1> HIDE DEF a, w
<1>3. v.turns \o a \in Seq(Turns) /\ Keeps(v.turns, v.turns \o a)
  BY <1>1, KeepsConcat
<1>4. w.turns = v.turns \o a /\ w \in Views
  BY <1>1, <1>2, <1>3 DEF Views
<1> QED
  BY <1>3, <1>4 DEF Edits, a, w

LEMMA SettledEdits ==
  ASSUME NEW v \in Views
  PROVE  /\ Edits(v, finalizeAssistantStream(Flush(v)))
         /\ Edits(v, stripTrailingEmptyAssistant(finalizeAssistantStream(Flush(v))))
<1> DEFINE f == Flush(v)
           g == finalizeAssistantStream(f)
           h == stripTrailingEmptyAssistant(g)
<1>1. Edits(v, f) /\ f \in Views
  BY FlushEdits DEF Edits
<1> HIDE DEF f
<1>2. Edits(f, g) /\ g \in Views
  BY <1>1, FinalizeEdits DEF Edits
<1> HIDE DEF g
<1>3. Edits(g, h)
  BY <1>2, StripEdits
<1> HIDE DEF h
<1>4. Edits(v, g)
  BY <1>1, <1>2, EditsTrans
<1>5. Edits(v, h)
  BY <1>3, <1>4, EditsTrans
<1> QED
  BY <1>4, <1>5 DEF f, g, h

LEMMA ShowErrorEdits ==
  ASSUME NEW v \in Views
  PROVE  Edits(v, ShowError(v))
<1> DEFINE h == stripTrailingEmptyAssistant(finalizeAssistantStream(Flush(v)))
<1>1. Edits(v, h) /\ h \in Views
  BY SettledEdits DEF Edits
<1>2. ShowError(v) = AddTurn(h, NoteTurn("error"))
  BY DEF ShowError
<1> HIDE DEF h
<1>3. Edits(h, AddTurn(h, NoteTurn("error")))
  BY <1>1, AddTurnEdits, TurnTypes
<1> QED
  BY <1>1, <1>2, <1>3, EditsTrans

LEMMA ShowDoneEdits ==
  ASSUME NEW v \in Views, NEW cancelled \in BOOLEAN
  PROVE  Edits(v, ShowDone(v, cancelled))
<1> DEFINE h == finalizeAssistantStream(Flush(v))
<1>1. Edits(v, h) /\ h \in Views
  BY SettledEdits DEF Edits
<1>2. ShowDone(v, cancelled) = IF cancelled THEN AddTurn(h, NoteTurn("meta")) ELSE h
  BY DEF ShowDone
<1> HIDE DEF h
<1>3. Edits(h, AddTurn(h, NoteTurn("meta")))
  BY <1>1, AddTurnEdits, TurnTypes
<1>4. Edits(v, AddTurn(h, NoteTurn("meta")))
  BY <1>1, <1>3, EditsTrans
<1> QED
  BY <1>1, <1>2, <1>4

LEMMA ShowToolCallsEdits ==
  ASSUME NEW v \in Views, NEW calls \in Seq(Tokens)
  PROVE  Edits(v, ShowToolCalls(v, calls))
<1> DEFINE h == stripTrailingEmptyAssistant(finalizeAssistantStream(Flush(v)))
           a == [k \in 1..Len(calls) |-> ToolCallTurn(calls[k])]
           w == [h EXCEPT !.turns = h.turns \o a]
<1>1. Edits(v, h) /\ h \in Views
  BY SettledEdits DEF Edits
<1>2. a \in Seq(Turns)
  <2>1. \A k \in 1..Len(calls) : ToolCallTurn(calls[k]) \in Turns
    BY TurnTypes
  <2> QED
    BY <2>1
<1>3. ShowToolCalls(v, calls) = w
  BY DEF ShowToolCalls
<1> HIDE DEF h, a
<1>4. h.turns \o a \in Seq(Turns) /\ Keeps(h.turns, h.turns \o a)
  BY <1>1, <1>2, KeepsConcat DEF Views
<1>5. w.turns = h.turns \o a /\ w \in Views
  BY <1>1, <1>4 DEF Views
<1>6. Edits(h, w)
  BY <1>4, <1>5 DEF Edits
<1> QED
  BY <1>1, <1>3, <1>6, EditsTrans

LEMMA ShowReasoningEdits ==
  ASSUME NEW v \in Views, NEW chunk \in Seq(Tokens)
  PROVE  Edits(v, ShowReasoning(v, chunk))
<1> DEFINE h == ensureStreamingAssistantTurn(v)
           w == [h EXCEPT !.pendingReasoning = h.pendingReasoning \o chunk]
<1>1. Edits(v, h) /\ h \in Views
  BY EnsureEdits DEF Edits
<1>2. ShowReasoning(v, chunk) = w
  BY DEF ShowReasoning
<1> HIDE DEF h
<1>3. w.turns = h.turns /\ w \in Views
  BY <1>1, ConcatProperties DEF Views
<1>4. Edits(h, w)
  BY <1>1, <1>3, KeepsRefl DEF Edits, Views
<1> QED
  BY <1>1, <1>2, <1>4, EditsTrans

LEMMA ShowTextEdits ==
  ASSUME NEW v \in Views, NEW chunk \in Seq(Tokens)
  PROVE  Edits(v, ShowText(v, chunk))
<1> DEFINE h == ensureStreamingAssistantTurn(v)
           w == [h EXCEPT !.pending = h.pending \o chunk]
<1>1. Edits(v, h) /\ h \in Views
  BY EnsureEdits DEF Edits
<1>2. ShowText(v, chunk) = w
  BY DEF ShowText
<1> HIDE DEF h
<1>3. w.turns = h.turns /\ w \in Views
  BY <1>1, ConcatProperties DEF Views
<1>4. Edits(h, w)
  BY <1>1, <1>3, KeepsRefl DEF Edits, Views
<1> QED
  BY <1>1, <1>2, <1>4, EditsTrans

(* Every stream message edits the view so.                                 *)
LEMMA ShowEdits ==
  ASSUME NEW v \in Views, NEW m \in StreamMsgs
  PROVE  Edits(v, Show(v, m))
<1>1. /\ m.kind \in {"reasoning", "text", "calls", "result", "err", "done"}
      /\ m.body \in Seq(Tokens) /\ m.cancelled \in BOOLEAN
  BY DEF StreamMsgs
<1>2. CASE m.kind = "err"
  BY <1>2, ShowErrorEdits DEF Show
<1>3. CASE m.kind = "done"
  BY <1>1, <1>3, ShowDoneEdits DEF Show
<1>4. CASE m.kind = "calls"
  BY <1>1, <1>4, ShowToolCallsEdits DEF Show
<1>5. CASE m.kind = "result"
  <2>1. CASE m.body = <<>>
    BY <1>5, <2>1, EditsRefl DEF Show, ShowToolResult
  <2>2. CASE m.body # <<>>
    BY <1>1, <1>5, <2>2, AddTurnEdits, TurnTypes DEF Show, ShowToolResult
  <2> QED
    BY <2>1, <2>2
<1>6. CASE m.kind = "reasoning"
  BY <1>1, <1>6, ShowReasoningEdits DEF Show
<1>7. CASE m.kind = "text"
  BY <1>1, <1>7, ShowTextEdits DEF Show
<1> QED
  BY <1>1, <1>2, <1>3, <1>4, <1>5, <1>6, <1>7

-----------------------------------------------------------------------------
(* The messages of one run among those of all.                             *)
Picking(r) == [m \in StreamMsgs |-> IF m.run = r THEN <<m>> ELSE <<>>]

LEMMA OfRunIsMapped ==
  ASSUME NEW r, NEW s \in Seq(StreamMsgs)
  PROVE  /\ Picking(r) \in [StreamMsgs -> Seq(StreamMsgs)]
         /\ OfRun(s, r) = Mapped(Picking(r), s)
         /\ OfRun(s, r) \in Seq(StreamMsgs)
<1>1. Picking(r) \in [StreamMsgs -> Seq(StreamMsgs)]
  BY DEF Picking
<1>2. \A i \in 1..Len(s) : Picking(r)[s[i]] = IF s[i].run = r THEN <<s[i]>> ELSE <<>>
  BY DEF Picking
<1>3. OfRun(s, r) = Mapped(Picking(r), s)
  BY <1>2 DEF OfRun, Mapped
<1> QED
  BY <1>1, <1>3, MappedType

LEMMA OfRunConcat ==
  ASSUME NEW r, NEW s \in Seq(StreamMsgs), NEW t \in Seq(StreamMsgs)
  PROVE  OfRun(s \o t, r) = OfRun(s, r) \o OfRun(t, r)
<1> DEFINE st == s \o t
           g  == Picking(r)
<1>1. st \in Seq(StreamMsgs)
  BY ConcatProperties
<1>2. /\ g \in [StreamMsgs -> Seq(StreamMsgs)]
      /\ OfRun(s, r) = Mapped(g, s) /\ OfRun(t, r) = Mapped(g, t)
  BY OfRunIsMapped
<1>3. OfRun(st, r) = Mapped(g, st)
  BY <1>1, OfRunIsMapped
<1> HIDE DEF g
<1>4. Mapped(g, st) = Mapped(g, s) \o Mapped(g, t)
  BY <1>2, MappedConcat
<1> QED
  BY <1>2, <1>3, <1>4

LEMMA OfRunOne ==
  ASSUME NEW r, NEW m \in StreamMsgs
  PROVE  OfRun(<<m>>, r) = IF m.run = r THEN <<m>> ELSE <<>>
<1> DEFINE g == Picking(r)
           o == <<m>>
<1>1. o \in Seq(StreamMsgs)
  OBVIOUS
<1>2. Mapped(g, o) = g[m]
  BY OfRunIsMapped, MappedOne, <1>1
<1>3. g[m] = IF m.run = r THEN <<m>> ELSE <<>>
  BY DEF Picking
<1> HIDE DEF o
<1>4. OfRun(o, r) = Mapped(g, o)
  BY <1>1, OfRunIsMapped
<1> QED
  BY <1>2, <1>3, <1>4 DEF o

(* Where no message is the run's, none is picked.                          *)
LEMMA OfRunNothing ==
  ASSUME NEW r, NEW s \in Seq(StreamMsgs), \A i \in 1..Len(s) : s[i].run # r
  PROVE  OfRun(s, r) = <<>>
<1> DEFINE g == Picking(r)
<1>1. g \in [StreamMsgs -> Seq(StreamMsgs)] /\ OfRun(s, r) = Mapped(g, s)
  BY OfRunIsMapped
<1>2. \A i \in 1..Len(s) : g[s[i]] = <<>>
  BY DEF Picking
<1> HIDE DEF g
<1> QED
  BY <1>1, <1>2, MappedNothing

-----------------------------------------------------------------------------
(* The operators of Transcript, as RunMailbox sees them.                   *)
LEMMA SameView ==
  /\ Mailbox!EmptyView = EmptyView
  /\ \A v, t : Mailbox!AddTurn(v, t) = AddTurn(v, t)
  /\ \A v, p : Mailbox!BeginAnswer(v, p) = BeginAnswer(v, p)
  /\ \A role : Mailbox!NoteTurn(role) = NoteTurn(role)
  /\ \A s : Mailbox!Front(s) = Front(s)
BY DEF Mailbox!EmptyView, EmptyView, Mailbox!View, View, Mailbox!AddTurn, AddTurn,
       Mailbox!BeginAnswer, BeginAnswer, Mailbox!NoteTurn, NoteTurn, Mailbox!Turn, Turn,
       Mailbox!UserTurn, UserTurn, Mailbox!StreamingTurn, StreamingTurn,
       Mailbox!NoCall, NoCall, Mailbox!Front, Front

LEMMA SameEdits ==
  /\ \A v : Mailbox!Flush(v) = Flush(v)
  /\ \A v : Mailbox!finalizeAssistantStream(v) = finalizeAssistantStream(v)
  /\ \A v : Mailbox!stripTrailingEmptyAssistant(v) = stripTrailingEmptyAssistant(v)
  /\ \A v : Mailbox!ensureStreamingAssistantTurn(v) = ensureStreamingAssistantTurn(v)
  /\ \A t : Mailbox!ToolResultTurn(t) = ToolResultTurn(t)
  /\ \A c : Mailbox!ToolCallTurn(c) = ToolCallTurn(c)
<1> USE DEF Mailbox!EndsWithAssistant, EndsWithAssistant, Mailbox!LastTurn, LastTurn
<1>1. \A v, s : Mailbox!appendAssistantChunk(v, s) = appendAssistantChunk(v, s)
  BY DEF Mailbox!appendAssistantChunk, appendAssistantChunk
<1>2. \A v, s : Mailbox!appendAssistantReasoning(v, s) = appendAssistantReasoning(v, s)
  BY DEF Mailbox!appendAssistantReasoning, appendAssistantReasoning
<1>3. \A v : Mailbox!Flush(v) = Flush(v)
  BY <1>1, <1>2 DEF Mailbox!Flush, Flush
<1>4. \A v : Mailbox!finalizeAssistantStream(v) = finalizeAssistantStream(v)
  BY DEF Mailbox!finalizeAssistantStream, finalizeAssistantStream
<1>5. \A v : Mailbox!stripTrailingEmptyAssistant(v) = stripTrailingEmptyAssistant(v)
  BY SameView DEF Mailbox!stripTrailingEmptyAssistant, stripTrailingEmptyAssistant
<1>6. Mailbox!StreamingTurn = StreamingTurn
  BY DEF Mailbox!StreamingTurn, StreamingTurn, Mailbox!Turn, Turn, Mailbox!NoCall, NoCall
<1>7. \A v : Mailbox!ensureStreamingAssistantTurn(v) = ensureStreamingAssistantTurn(v)
  BY <1>6, SameView DEF Mailbox!ensureStreamingAssistantTurn, ensureStreamingAssistantTurn
<1>8. /\ \A t : Mailbox!ToolResultTurn(t) = ToolResultTurn(t)
      /\ \A c : Mailbox!ToolCallTurn(c) = ToolCallTurn(c)
  BY DEF Mailbox!ToolResultTurn, ToolResultTurn, Mailbox!ToolCallTurn, ToolCallTurn,
         Mailbox!Turn, Turn, Mailbox!NoCall, NoCall
<1> QED
  BY <1>3, <1>4, <1>5, <1>7, <1>8

LEMMA SameShow ==
  ASSUME NEW v, NEW m \in StreamMsgs
  PROVE  Mailbox!Show(v, m) = Show(v, m)
<1>1. Mailbox!ShowError(v) = ShowError(v)
  BY SameView, SameEdits DEF Mailbox!ShowError, ShowError
<1>2. Mailbox!ShowDone(v, m.cancelled) = ShowDone(v, m.cancelled)
  BY SameView, SameEdits DEF Mailbox!ShowDone, ShowDone
<1>3. Mailbox!ShowToolCalls(v, m.body) = ShowToolCalls(v, m.body)
  BY SameView, SameEdits DEF Mailbox!ShowToolCalls, ShowToolCalls
<1>4. Mailbox!ShowToolResult(v, m.body) = ShowToolResult(v, m.body)
  BY SameView, SameEdits DEF Mailbox!ShowToolResult, ShowToolResult
<1>5. Mailbox!ShowReasoning(v, m.body) = ShowReasoning(v, m.body)
  BY SameEdits DEF Mailbox!ShowReasoning, ShowReasoning
<1>6. Mailbox!ShowText(v, m.body) = ShowText(v, m.body)
  BY SameEdits DEF Mailbox!ShowText, ShowText
<1>7. m.kind \in {"reasoning", "text", "calls", "result", "err", "done"}
  BY DEF StreamMsgs
<1> QED
  BY <1>1, <1>2, <1>3, <1>4, <1>5, <1>6, <1>7 DEF Mailbox!Show, Show

-----------------------------------------------------------------------------
(* The view keeps its shape.                                               *)
LEMMA PromptType == ASSUME NEW p \in Nat PROVE PromptText(p) \in Seq(Tokens)
BY DEF PromptText, Tokens

(* /new                                                                    *)
LEMMA NewTranscriptType ==
  ASSUME NEW v \in Views
  PROVE  [v EXCEPT !.turns = <<NoteTurn("meta")>>] \in Views
<1>1. <<NoteTurn("meta")>> \in Seq(Turns)
  BY TurnTypes
<1> QED
  BY <1>1 DEF Views

LEMMA ViewStep == IInv /\ ViewOK /\ [Next]_vars => ViewOK'
<1> SUFFICES ASSUME IInv, ViewOK, [Next]_vars PROVE ViewOK'
  OBVIOUS
<1>1. view \in Views /\ asked + 1 \in Nat /\ inbox \in Seq(StreamMsgs)
  BY ConstantsAssumption DEF IInv, TypeOK, ViewOK
<1>2. CASE view' = view
  BY <1>1, <1>2 DEF ViewOK
<1>3. CASE StartRun
  BY <1>1, <1>3, PromptType, BeginAnswerEdits DEF StartRun, Edits, ViewOK
<1>4. CASE LeaveNote \/ CloseEditorNoting
  BY <1>1, <1>4, TurnTypes, AddTurnEdits DEF LeaveNote, CloseEditorNoting, Edits, ViewOK
<1>5. CASE NewTranscript
  BY <1>1, <1>5, NewTranscriptType DEF NewTranscript, ViewOK
<1>6. CASE Deliver
  <2> PICK i \in 1..Len(inbox) : DropMessage(i) \/ ShowMessage(i) \/ EndRun(i)
    BY <1>6 DEF Deliver
  <2>1. inbox[i] \in StreamMsgs
    BY <1>1
  <2>2. view' = view \/ view' = Show(view, inbox[i])
    BY DEF DropMessage, ShowMessage, EndRun, uiVars
  <2> QED
    BY <1>1, <1>2, <2>1, <2>2, ShowEdits DEF Edits, ViewOK
<1>7. CASE \E r \in Runs : Goroutine(r) \/ AgentStep(r) \/ CaptureSession(r)
  <2> PICK r \in Runs : Goroutine(r) \/ AgentStep(r) \/ CaptureSession(r)
    BY <1>7
  <2>1. view' = view
    BY DEF Goroutine, AgentStep, CheckContext, Deferred, Send, RunStops, RunFails,
           StreamChunk, StreamEnds, WholeMessage, StreamBegins, ToolResult,
           CaptureSession, uiVars
  <2> QED
    BY <1>2, <2>1
<1>8. CASE Pump \/ CancelRun \/ OpenEditor \/ CloseEditor \/ UNCHANGED vars
  BY <1>2, <1>8 DEF Pump, CancelRun, OpenEditor, CloseEditor, vars, uiVars
<1> QED
  BY <1>3, <1>4, <1>5, <1>6, <1>7, <1>8 DEF Next, UserStep

(* What every reachable state of the run loop satisfies.                   *)
RInv == IInv /\ ViewOK

LEMMA InitRInv == Init => RInv
<1> SUFFICES ASSUME Init PROVE RInv
  OBVIOUS
<1>1. view = [turns |-> <<>>, pending |-> <<>>, pendingReasoning |-> <<>>]
  BY DEF Init, EmptyView, View
<1>2. <<>> \in Seq(Turns) /\ <<>> \in Seq(Tokens)
  OBVIOUS
<1>3. ViewOK
  BY <1>1, <1>2 DEF ViewOK, Views
<1> QED
  BY <1>3, InitInv DEF RInv

LEMMA NextRInv == RInv /\ [Next]_vars => RInv'
BY NextInv, ViewStep DEF RInv

(* Whatever is streamed and however runs interleave, the transcript is a   *)
(* sequence of turns of the known roles and the two builders hold text.    *)
THEOREM ViewCorrect == Spec => []RInv
BY InitRInv, NextRInv, PTL DEF Spec

-----------------------------------------------------------------------------
(* Every step of the run loop is a step of the mailbox, or changes nothing *)
(* of it.                                                                  *)
sent == OfRun(inbox \o ch, runID)

MailboxStep == [Mailbox!Next]_(Mailbox!vars)

LEMMA BusTypes ==
  ASSUME IInv
  PROVE  /\ inbox \in Seq(StreamMsgs) /\ ch \in Seq(StreamMsgs)
         /\ inbox \o ch \in Seq(StreamMsgs)
         /\ sent \in Seq(StreamMsgs)
<1>1. inbox \in Seq(StreamMsgs) /\ ch \in Seq(StreamMsgs)
  BY DEF IInv, TypeOK
<1>2. inbox \o ch \in Seq(StreamMsgs)
  BY <1>1, ConcatProperties
<1> QED
  BY <1>1, <1>2, OfRunIsMapped DEF sent

(* Work of a goroutine, and a change of the screen, are not seen.          *)
LEMMA QuietStep ==
  ASSUME UNCHANGED <<view, busy, runID, ch, inbox>>
  PROVE  MailboxStep
<1>1. (inbox \o ch)' = inbox \o ch
  OBVIOUS
<1>2. OfRun(inbox \o ch, runID)' = OfRun(inbox \o ch, runID)
  OBVIOUS
<1> QED
  BY <1>2 DEF MailboxStep, Mailbox!vars

(* A pump moves the oldest message of the channel behind those received:   *)
(* the order of all messages in transit stays.                             *)
LEMMA PumpKeepsOrder ==
  ASSUME IInv, Pump
  PROVE  sent' = sent
<1>1. /\ ch # <<>> /\ inbox' = Append(inbox, Head(ch)) /\ ch' = Tail(ch)
      /\ runID' = runID
  BY DEF Pump, uiVars
<1> DEFINE h == Head(ch)
           t == Tail(ch)
           o == <<h>>
<1>2. /\ inbox \in Seq(StreamMsgs) /\ ch \in Seq(StreamMsgs)
      /\ h \in StreamMsgs /\ t \in Seq(StreamMsgs) /\ ch = o \o t
  BY <1>1, BusTypes, HeadTailProperties
<1>3. o \in Seq(StreamMsgs) /\ Append(inbox, h) = inbox \o o
  BY <1>2, AppendIsConcat
<1>4. inbox' = inbox \o o /\ ch' = t
  BY <1>1, <1>3
<1> HIDE DEF o, t, h
<1>5. inbox \o (o \o t) = (inbox \o o) \o t
  BY <1>2, <1>3, ConcatAssociative
<1>6. inbox' \o ch' = inbox \o ch
  BY <1>2, <1>4, <1>5
<1> QED
  BY <1>1, <1>6 DEF sent

LEMMA PumpIsQuiet ==
  ASSUME IInv, Pump
  PROVE  MailboxStep
BY PumpKeepsOrder DEF Pump, uiVars, MailboxStep, Mailbox!vars, sent

(* A send puts the message behind what its run has sent.                   *)
LEMMA SendAppends ==
  ASSUME IInv, NEW r \in Runs, Send(r)
  PROVE  /\ Head(gor[r].out) \in StreamMsgs /\ sent \in Seq(StreamMsgs)
         /\ sent' = sent \o (IF r = runID THEN <<Head(gor[r].out)>> ELSE <<>>)
<1> DEFINE m == Head(gor[r].out)
           o == <<m>>
           b == inbox \o ch
<1>1. /\ gor[r].pc = "send" /\ ch' = Append(ch, m)
      /\ UNCHANGED <<runID, inbox>>
  BY DEF Send, uiVars
<1>2. m \in StreamMsgs /\ m.run = r
  BY <1>1, SendFacts
<1>3. /\ inbox \in Seq(StreamMsgs) /\ ch \in Seq(StreamMsgs) /\ b \in Seq(StreamMsgs)
      /\ sent \in Seq(StreamMsgs)
  BY BusTypes
<1>4. o \in Seq(StreamMsgs) /\ ch' = ch \o o
  BY <1>1, <1>2, <1>3, AppendIsConcat
<1>5. OfRun(o, runID) = IF r = runID THEN o ELSE <<>>
  BY <1>2, OfRunOne
<1> HIDE DEF m, o
<1>6. inbox' \o ch' = b \o o
  BY <1>1, <1>3, <1>4, ConcatAssociative, SMTT(30)
<1> HIDE DEF b
<1>7. OfRun(b \o o, runID) = OfRun(b, runID) \o OfRun(o, runID)
  BY <1>3, <1>4, OfRunConcat
<1>8. sent' = sent \o (IF r = runID THEN o ELSE <<>>)
  BY <1>1, <1>5, <1>6, <1>7 DEF sent, b
<1> QED
  BY <1>2, <1>3, <1>8 DEF m, o

(* A send of the shown run is a post to its mailbox, one of another run is *)
(* not seen.                                                               *)
LEMMA SendIsPost ==
  ASSUME IInv, NEW r \in Runs, Send(r)
  PROVE  MailboxStep
<1> DEFINE m == Head(gor[r].out)
           o == <<m>>
<1>1. UNCHANGED <<view, busy, runID>>
  BY DEF Send, uiVars
<1>2. /\ m \in StreamMsgs /\ sent \in Seq(StreamMsgs)
      /\ sent' = sent \o (IF r = runID THEN o ELSE <<>>)
  BY SendAppends
<1> HIDE DEF m, o
<1>4. CASE busy /\ r = runID
  <2>1. sent' = Append(sent, m)
    BY <1>2, <1>4, AppendIsConcat DEF o
  <2>2. sent' # <<>> /\ Front(sent') = sent
    <3>1. Append(sent, m) # <<>>
      BY <1>2, AppendProperties
    <3>2. Front(Append(sent, m)) = sent
      <4> DEFINE s == Append(sent, m)
                 n == Len(sent)
      <4>1. /\ s \in Seq(StreamMsgs) /\ Len(s) = n + 1 /\ n \in Nat
            /\ \A i \in 1..n : s[i] = sent[i]
        BY <1>2, AppendProperties
      <4> HIDE DEF s
      <4>2. \A i \in 1..n : s[i] \in StreamMsgs
        BY <4>1
      <4> HIDE DEF n
      <4>3. /\ SubSeq(s, 1, n) \in Seq(StreamMsgs)
            /\ Len(SubSeq(s, 1, n)) = IF 1 <= n THEN n - 1 + 1 ELSE 0
            /\ \A i \in 1..(n - 1 + 1) : SubSeq(s, 1, n)[i] = s[1 + i - 1]
        BY <4>1, <4>2, SubSeqProperties
      <4>4. /\ Len(SubSeq(s, 1, n)) = n
            /\ \A i \in 1..n : SubSeq(s, 1, n)[i] = sent[i]
        BY <4>1, <4>3
      <4>5. Len(s) - 1 = n
        BY <4>1
      <4>6. SubSeq(s, 1, n) = sent
        BY <1>2, <4>3, <4>4, SeqEqual DEF n
      <4> QED
        BY <4>5, <4>6 DEF Front, s
    <3> QED
      BY <2>1, <3>1, <3>2
  <2>3. Mailbox!Post
    BY <1>1, <1>4, <2>2, SameView DEF Mailbox!Post, sent
  <2> QED
    BY <2>3 DEF MailboxStep, Mailbox!Next
<1>5. CASE busy /\ r # runID
  BY <1>1, <1>2, <1>5, ConcatEmptySeq DEF MailboxStep, Mailbox!vars, sent
<1>6. CASE ~busy
  BY <1>1, <1>6 DEF MailboxStep, Mailbox!vars
<1> QED
  BY <1>4, <1>5, <1>6

(* What Update takes is the oldest message in transit.                     *)
LEMMA TakingOldest ==
  ASSUME IInv, NEW i \in 1..Len(inbox), inbox' = RemoveAt(inbox, i),
         UNCHANGED <<runID, ch>>
  PROVE  /\ inbox[i] \in StreamMsgs /\ busy /\ ~editing
         /\ sent' = OfRun(ch, runID) /\ sent' \in Seq(StreamMsgs)
         /\ sent = (IF inbox[i].run = runID THEN <<inbox[i]>> ELSE <<>>) \o sent'
<1> DEFINE m == inbox[i]
           o == <<m>>
<1>1. i = 1 /\ Len(inbox) = 1 /\ busy /\ ~editing /\ inbox' = <<>>
  BY Delivered
<1>2. inbox \in Seq(StreamMsgs) /\ ch \in Seq(StreamMsgs)
  BY BusTypes
<1>3. m \in StreamMsgs
  BY <1>2
<1>4. o \in Seq(StreamMsgs) /\ inbox = o
  <2>1. o \in Seq(StreamMsgs) /\ Len(o) = 1 /\ o[1] = inbox[1]
    BY <1>1, <1>3
  <2> QED
    BY <1>1, <1>2, <2>1, SeqEqual
<1>5. OfRun(o, runID) = IF m.run = runID THEN o ELSE <<>>
  BY <1>3, OfRunOne
<1>6. sent' = OfRun(ch, runID)
  <2>1. inbox' \o ch' = ch
    BY <1>1, <1>2, ConcatEmptySeq
  <2> QED
    BY <2>1 DEF sent
<1>7. OfRun(ch, runID) \in Seq(StreamMsgs)
  BY <1>2, OfRunIsMapped
<1> HIDE DEF o
<1>8. OfRun(o \o ch, runID) = OfRun(o, runID) \o OfRun(ch, runID)
  BY <1>2, <1>4, OfRunConcat
<1> QED
  BY <1>1, <1>3, <1>4, <1>5, <1>6, <1>7, <1>8 DEF sent, o

LEMMA DeliverIsRead ==
  ASSUME IInv, Deliver
  PROVE  MailboxStep
<1> PICK i \in 1..Len(inbox) : DropMessage(i) \/ ShowMessage(i) \/ EndRun(i)
  BY DEF Deliver
<1> DEFINE m == inbox[i]
           o == <<m>>
<1>1. inbox' = RemoveAt(inbox, i) /\ UNCHANGED <<runID, ch>>
  BY DEF DropMessage, ShowMessage, EndRun, uiVars
<1>2. /\ m \in StreamMsgs /\ busy /\ ~editing
      /\ sent' \in Seq(StreamMsgs)
      /\ sent = (IF m.run = runID THEN o ELSE <<>>) \o sent'
  BY <1>1, TakingOldest
<1>3. CASE DropMessage(i)
  <2>1. m.run # runID /\ UNCHANGED <<view, busy, runID>>
    BY <1>2, <1>3 DEF DropMessage, uiVars
  <2>2. sent = sent'
    BY <1>2, <2>1, ConcatEmptySeq
  <2> QED
    BY <2>1, <2>2 DEF MailboxStep, Mailbox!vars, sent
<1>4. CASE ShowMessage(i) \/ EndRun(i)
  <2>1. m.run = runID /\ view' = Show(view, m) /\ runID' = runID
    BY <1>4 DEF ShowMessage, EndRun, IsCurrent
  <2>2. sent = o \o sent'
    BY <1>2, <2>1
  <2>3. sent # <<>> /\ Head(sent) = m /\ Tail(sent) = sent'
    <3> DEFINE t == sent'
    <3>0. t \in Seq(StreamMsgs) /\ o \in Seq(StreamMsgs)
      BY <1>2
    <3>1. Len(o) = 1 /\ o[1] = m
      OBVIOUS
    <3> HIDE DEF t, o
    <3>2. /\ o \o t \in Seq(StreamMsgs) /\ Len(o \o t) = Len(o) + Len(t)
          /\ \A k \in 1..(Len(o) + Len(t)) :
               (o \o t)[k] = IF k <= Len(o) THEN o[k] ELSE t[k - Len(o)]
          /\ Len(t) \in Nat
      BY <3>0, ConcatProperties
    <3> DEFINE u == o \o t
    <3> HIDE DEF u
    <3>3. /\ u \in Seq(StreamMsgs) /\ Len(u) = Len(t) + 1 /\ u[1] = m
          /\ \A k \in 1..Len(t) : u[k + 1] = t[k]
      BY <3>0, <3>1, <3>2 DEF u
    <3>4. u # <<>> /\ Head(u) = m /\ Tail(u) \in Seq(StreamMsgs) /\ Len(Tail(u)) = Len(t)
          /\ \A k \in 1..Len(t) : Tail(u)[k] = t[k]
      BY <3>2, <3>3, HeadTailProperties
    <3>5. Tail(u) = t
      BY <3>0, <3>4, SeqEqual
    <3> QED
      BY <2>2, <3>4, <3>5 DEF u, t
  <2>4. Mailbox!Show(view, m) = Show(view, m)
    BY <1>2, SameShow
  <2>5. busy' = ~IsTerminal(m)
    BY <1>2, <1>4 DEF ShowMessage, EndRun
  <2>6. Mailbox!Read
    BY <1>2, <2>1, <2>3, <2>4, <2>5 DEF Mailbox!Read, sent, IsTerminal
  <2> QED
    BY <2>6 DEF MailboxStep, Mailbox!Next
<1> QED
  BY <1>3, <1>4

(* A prompt opens an empty mailbox: nothing of the new run is in transit.  *)
LEMMA NothingSentYet ==
  ASSUME IInv, StartRun
  PROVE  sent' = <<>>
<1> DEFINE q == runID + 1
<1>1. runID' = q /\ UNCHANGED <<ch, inbox>>
  BY DEF StartRun
<1>2. /\ runID \in Nat
      /\ inbox \in Seq(StreamMsgs) /\ ch \in Seq(StreamMsgs)
  BY ConstantsAssumption DEF IInv, TypeOK
<1>3. OfRun(inbox, q) = <<>> /\ OfRun(ch, q) = <<>>
  <2>1. \A i \in 1..Len(inbox) : inbox[i] \in InTransit
    BY <1>2, ToSetMembers DEF InTransit
  <2>2. \A i \in 1..Len(ch) : ch[i] \in InTransit
    BY <1>2, ToSetMembers DEF InTransit
  <2>3. \A m \in InTransit : m.run \in Nat /\ m.run <= runID
    BY DEF IInv, TransitInv, Runs
  <2>4. /\ \A i \in 1..Len(inbox) : inbox[i].run # q
        /\ \A i \in 1..Len(ch) : ch[i].run # q
    BY <1>2, <2>1, <2>2, <2>3
  <2> QED
    BY <1>2, <2>4, OfRunNothing
<1>4. OfRun(inbox' \o ch', runID') = <<>>
  <2>0. <<>> \in Seq(StreamMsgs)
    OBVIOUS
  <2>1. OfRun(inbox \o ch, q) = OfRun(inbox, q) \o OfRun(ch, q)
    BY <1>2, OfRunConcat
  <2> QED
    BY <1>1, <1>3, <2>0, <2>1, ConcatEmptySeq
<1> QED
  BY <1>4 DEF sent

LEMMA StartRunIsOpen ==
  ASSUME RInv, StartRun
  PROVE  MailboxStep
<1> DEFINE q == runID + 1
           p == PromptText(asked + 1)
<1>1. /\ ~busy /\ busy' = TRUE /\ runID' = q
      /\ view' = BeginAnswer(view, p)
  BY DEF StartRun
<1>2. view \in Views /\ p \in Seq(Tokens)
  BY ConstantsAssumption, PromptType DEF RInv, ViewOK, IInv, TypeOK
<1>3. OfRun(inbox' \o ch', runID') = <<>>
  BY NothingSentYet DEF sent, RInv
<1>4. /\ view'.turns = view.turns \o <<UserTurn(p), StreamingTurn>>
      /\ view'.turns[Len(view'.turns) - 1] = UserTurn(p)
  <2> DEFINE a == <<UserTurn(p), StreamingTurn>>
             s == view.turns
  <2>1. view'.turns = s \o a
    BY <1>1, <1>2, BeginAnswerEdits
  <2>2. a \in Seq(Turns) /\ s \in Seq(Turns) /\ Len(a) = 2 /\ a[1] = UserTurn(p)
    BY <1>2, TurnTypes DEF Views
  <2> HIDE DEF a, s
  <2>3. /\ Len(s \o a) = Len(s) + Len(a) /\ Len(s) \in Nat
        /\ \A k \in 1..(Len(s) + Len(a)) :
             (s \o a)[k] = IF k <= Len(s) THEN s[k] ELSE a[k - Len(s)]
    <3>1. s \in Seq(Turns) /\ a \in Seq(Turns)
      BY <2>2
    <3> QED
      BY <3>1, ConcatProperties
  <2>4. Len(s \o a) - 1 = Len(s) + 1 /\ (s \o a)[Len(s) + 1] = a[1]
    BY <2>2, <2>3
  <2> QED
    BY <2>1, <2>2, <2>4 DEF a, s
<1>5. UserTurn(p).role = "user" /\ UserTurn(p).text = p
  BY DEF UserTurn, Turn
<1> HIDE DEF p
<1>6. Mailbox!Open
  <2> DEFINE t == view'.turns[Len(view'.turns) - 1]
  <2>1. t.role = "user" /\ t.text = p
    BY <1>4, <1>5
  <2>2. view' = Mailbox!BeginAnswer(view, t.text)
    BY <1>1, <2>1, SameView
  <2> QED
    BY <1>1, <1>3, <2>1, <2>2 DEF Mailbox!Open
<1> QED
  BY <1>6 DEF MailboxStep, Mailbox!Next

(* The commands that touch the view are refused while a run is open.       *)
LEMMA CommandsAreCommands ==
  ASSUME IInv, LeaveNote \/ NewTranscript \/ CloseEditorNoting
  PROVE  MailboxStep
<1>1. ~busy /\ ~busy'
  BY DEF IInv, PumpDiscipline, LeaveNote, NewTranscript, CloseEditorNoting
<1>2. \/ view' = Mailbox!AddTurn(view, Mailbox!NoteTurn("meta"))
      \/ view' = [view EXCEPT !.turns = <<Mailbox!NoteTurn("meta")>>]
  BY SameView DEF LeaveNote, NewTranscript, CloseEditorNoting
<1>3. Mailbox!Command
  BY <1>1, <1>2 DEF Mailbox!Command
<1> QED
  BY <1>3 DEF MailboxStep, Mailbox!Next

LEMMA NextIsMailboxStep == RInv /\ [Next]_vars => MailboxStep
<1> SUFFICES ASSUME RInv, [Next]_vars PROVE MailboxStep
  OBVIOUS
<1>0. IInv
  BY DEF RInv
<1>1. CASE StartRun
  BY <1>1, StartRunIsOpen
<1>2. CASE LeaveNote \/ NewTranscript \/ CloseEditorNoting
  BY <1>0, <1>2, CommandsAreCommands
<1>3. CASE CancelRun \/ OpenEditor \/ CloseEditor \/ UNCHANGED vars
  BY <1>3, QuietStep DEF CancelRun, OpenEditor, CloseEditor, vars, uiVars, busVars
<1>4. CASE Pump
  BY <1>0, <1>4, PumpIsQuiet
<1>5. CASE Deliver
  BY <1>0, <1>5, DeliverIsRead
<1>6. CASE \E r \in Runs : Goroutine(r) \/ AgentStep(r) \/ CaptureSession(r)
  <2> PICK r \in Runs : Goroutine(r) \/ AgentStep(r) \/ CaptureSession(r)
    BY <1>6
  <2>1. CASE Send(r)
    BY <1>0, <2>1, SendIsPost
  <2>2. CASE CheckContext(r) \/ Deferred(r) \/ AgentStep(r) \/ CaptureSession(r)
    <3>1. UNCHANGED <<view, busy, runID, ch, inbox>>
      BY <2>2 DEF AgentStep, CheckContext, Deferred, RunStops, RunFails,
             StreamChunk, StreamEnds, WholeMessage, StreamBegins, ToolResult,
             CaptureSession, uiVars, busVars
    <3> QED
      BY <3>1, QuietStep
  <2> QED
    BY <2>1, <2>2 DEF Goroutine
<1> QED
  BY <1>1, <1>2, <1>3, <1>4, <1>5, <1>6 DEF Next, UserStep

(* Initially no run is open.                                               *)
LEMMA InitIsMailboxInit == Init => Mailbox!Init
BY SameView DEF Init, Mailbox!Init

(* The run loop implements a mailbox per run: with any number of runs on   *)
(* one channel of any capacity, what a run sends is shown completely, in   *)
(* order and up to its first err or done, and nothing of another run is.   *)
THEOREM RunsHaveMailboxes == Spec => ImplementsMailbox
<1>1. RInv /\ [Next]_vars => [Mailbox!Next]_(Mailbox!vars)
  BY NextIsMailboxStep DEF MailboxStep
<1> QED
  BY <1>1, InitIsMailboxInit, ViewCorrect, PTL DEF Spec, ImplementsMailbox, Mailbox!Spec


-----------------------------------------------------------------------------
(* What the user has seen of an answer.  A turn shows its text, reasoning  *)
(* and call; text that is pending is shown behind the last turn.           *)
TurnShows(t) ==
  ToSet(t.text) \cup ToSet(t.reasoning) \cup (IF t.role = "toolcall" THEN {t.call} ELSE {})

TurnsShow(s) == UNION { TurnShows(s[i]) : i \in 1..Len(s) }

IsPending(v) == v.pending # <<>> \/ v.pendingReasoning # <<>>

(* Text that is pending has an answer it can be moved into.                *)
Attached(v) == IsPending(v) => EndsWithAssistant(v)

LEMMA ShownIs ==
  \A v : Shown(v) = ToSet(v.pending) \cup ToSet(v.pendingReasoning) \cup TurnsShow(v.turns)
BY Zenon DEF Shown, TurnsShow, TurnShows

LEMMA ToSetNothing == ToSet(<<>>) = {}
BY DEF ToSet

LEMMA ToSetConcat ==
  ASSUME NEW S, NEW a \in Seq(S), NEW b \in Seq(S)
  PROVE  ToSet(a) \cup ToSet(b) \subseteq ToSet(a \o b)
<1>1. /\ a \o b \in Seq(S) /\ Len(a \o b) = Len(a) + Len(b)
      /\ \A i \in 1..(Len(a) + Len(b)) : (a \o b)[i] = IF i <= Len(a) THEN a[i] ELSE b[i - Len(a)]
      /\ Len(a) \in Nat /\ Len(b) \in Nat
  BY ConcatProperties
<1> DEFINE u == a \o b
<1> HIDE DEF u
<1>2. \A i \in 1..Len(u) : u[i] \in ToSet(u)
  BY <1>1, ToSetMembers DEF u
<1>3. ASSUME NEW i \in 1..Len(a) PROVE a[i] \in ToSet(u)
  <2>1. i \in 1..Len(u) /\ u[i] = a[i]
    BY <1>1 DEF u
  <2> QED
    BY <1>2, <2>1
<1>4. ASSUME NEW i \in 1..Len(b) PROVE b[i] \in ToSet(u)
  <2> DEFINE k == Len(a) + i
  <2>1. k \in 1..Len(u) /\ ~(k <= Len(a)) /\ k - Len(a) = i /\ k \in 1..(Len(a) + Len(b))
    BY <1>1 DEF u
  <2> HIDE DEF k
  <2>2. u[k] = b[i]
    BY <1>1, <2>1 DEF u
  <2> QED
    BY <1>2, <2>1, <2>2
<1>5. /\ \A x \in ToSet(a) : \E i \in 1..Len(a) : x = a[i]
      /\ \A x \in ToSet(b) : \E i \in 1..Len(b) : x = b[i]
  BY ToSetMembers
<1> QED
  BY <1>3, <1>4, <1>5 DEF u

(* Turn by turn.                                                           *)
LEMMA TurnsShowMore ==
  ASSUME NEW s \in Seq(Turns), NEW t \in Seq(Turns),
         \A i \in 1..Len(s) :
           TurnShows(s[i]) = {} \/ (i \in 1..Len(t) /\ TurnShows(s[i]) \subseteq TurnShows(t[i]))
  PROVE  TurnsShow(s) \subseteq TurnsShow(t)
BY DEF TurnsShow

LEMMA ConcatShows ==
  ASSUME NEW s \in Seq(Turns), NEW t \in Seq(Turns)
  PROVE  s \o t \in Seq(Turns) /\ TurnsShow(s) \subseteq TurnsShow(s \o t)
<1>1. /\ s \o t \in Seq(Turns) /\ Len(s \o t) = Len(s) + Len(t)
      /\ \A i \in 1..(Len(s) + Len(t)) : (s \o t)[i] = IF i <= Len(s) THEN s[i] ELSE t[i - Len(s)]
      /\ Len(s) \in Nat /\ Len(t) \in Nat
  BY ConcatProperties
<1> DEFINE u == s \o t
<1> HIDE DEF u
<1>2. \A i \in 1..Len(s) : i \in 1..Len(u) /\ u[i] = s[i]
  BY <1>1 DEF u
<1> QED
  BY <1>1, <1>2, TurnsShowMore DEF u

LEMMA AddTurnShows ==
  ASSUME NEW v \in Views, NEW t \in Turns
  PROVE  /\ AddTurn(v, t) \in Views
         /\ Shown(v) \subseteq Shown(AddTurn(v, t))
         /\ TurnsShow(v.turns) \subseteq TurnsShow(AddTurn(v, t).turns)
         /\ AddTurn(v, t).pending = v.pending
         /\ AddTurn(v, t).pendingReasoning = v.pendingReasoning
<1>1. AddTurn(v, t) \in Views /\ AddTurn(v, t).turns = Append(v.turns, t)
  BY AddTurnEdits DEF Edits
<1>2. v.turns \in Seq(Turns) /\ <<t>> \in Seq(Turns)
  BY DEF Views
<1>3. Append(v.turns, t) = v.turns \o <<t>>
  BY <1>2, AppendIsConcat
<1>4. TurnsShow(v.turns) \subseteq TurnsShow(AddTurn(v, t).turns)
  BY <1>1, <1>2, <1>3, ConcatShows
<1>5. AddTurn(v, t).pending = v.pending /\ AddTurn(v, t).pendingReasoning = v.pendingReasoning
  BY DEF AddTurn, Views
<1> QED
  BY <1>1, <1>4, <1>5, ShownIs

(* An edit of the answer at the end that shows at least what it did.       *)
LEMMA LastTurnShows ==
  ASSUME NEW v \in Views, EndsWithAssistant(v), NEW t \in Turns, t.role = "assistant",
         TurnShows(v.turns[Len(v.turns)]) \subseteq TurnShows(t),
         NEW w, w = [v EXCEPT !.turns = [v.turns EXCEPT ![Len(v.turns)] = t]]
  PROVE  /\ w \in Views /\ EndsWithAssistant(w)
         /\ w.pending = v.pending /\ w.pendingReasoning = v.pendingReasoning
         /\ TurnsShow(v.turns) \cup TurnShows(t) \subseteq TurnsShow(w.turns)
<1> DEFINE s == v.turns
           u == [s EXCEPT ![Len(s)] = t]
<1>1. s \in Seq(Turns) /\ s # <<>> /\ s[Len(s)].role = "assistant"
  BY DEF Views, EndsWithAssistant, LastTurn
<1>2. Len(s) \in Nat /\ Len(s) \in 1..Len(s)
  BY <1>1, EmptySeq
<1>3. u \in Seq(Turns) /\ Len(u) = Len(s) /\ \A j \in 1..Len(s) : u[j] = IF j = Len(s) THEN t ELSE s[j]
  BY <1>1, <1>2, ExceptSeq
<1>4. w = [v EXCEPT !.turns = u]
  OBVIOUS
<1> HIDE DEF u
<1>5. w \in Views /\ w.turns = u /\ w.pending = v.pending /\ w.pendingReasoning = v.pendingReasoning
  BY <1>3, <1>4 DEF Views
<1>6. EndsWithAssistant(w)
  <2>1. u # <<>> /\ u[Len(u)] = t
    BY <1>2, <1>3, EmptySeq
  <2> QED
    BY <1>5, <2>1 DEF EndsWithAssistant, LastTurn
<1>7. TurnsShow(s) \subseteq TurnsShow(u)
  <2>1. ASSUME NEW i \in 1..Len(s)
        PROVE  i \in 1..Len(u) /\ TurnShows(s[i]) \subseteq TurnShows(u[i])
    BY <1>3
  <2> QED
    BY <1>1, <1>3, <2>1, TurnsShowMore
<1>8. TurnShows(t) \subseteq TurnsShow(u)
  <2>1. Len(s) \in 1..Len(u) /\ u[Len(s)] = t
    BY <1>2, <1>3
  <2> QED
    BY <2>1 DEF TurnsShow
<1> QED
  BY <1>5, <1>6, <1>7, <1>8

LEMMA ChunkShows ==
  ASSUME NEW v \in Views, EndsWithAssistant(v), NEW s \in Seq(Tokens),
         NEW w, w = appendAssistantChunk(v, s)
  PROVE  /\ w \in Views /\ EndsWithAssistant(w)
         /\ w.pending = v.pending /\ w.pendingReasoning = v.pendingReasoning
         /\ TurnsShow(v.turns) \cup ToSet(s) \subseteq TurnsShow(w.turns)
<1> DEFINE l == v.turns[Len(v.turns)]
           t == [l EXCEPT !.text = l.text \o s, !.stream = FALSE]
<1>1. l \in Turns /\ l.role = "assistant"
  BY LastTurnType DEF EndsWithAssistant, LastTurn
<1>2. t \in Turns /\ t.role = "assistant" /\ t.text = l.text \o s /\ t.reasoning = l.reasoning
  BY <1>1, ConcatProperties DEF Turns
<1>3. ToSet(l.text) \cup ToSet(s) \subseteq ToSet(l.text \o s)
  BY <1>1, ToSetConcat DEF Turns
<1>4. w = [v EXCEPT !.turns = [v.turns EXCEPT ![Len(v.turns)] = t]]
  <2>1. LastTurn(v) = l
    BY DEF LastTurn
  <2> HIDE DEF l
  <2> QED
    BY <2>1 DEF appendAssistantChunk, Views
<1> HIDE DEF t
<1>5. TurnShows(l) \cup ToSet(s) \subseteq TurnShows(t)
  BY <1>1, <1>2, <1>3 DEF TurnShows
<1> QED
  BY <1>2, <1>4, <1>5, LastTurnShows, ZenonT(30)

LEMMA ReasoningShows ==
  ASSUME NEW v \in Views, EndsWithAssistant(v), NEW s \in Seq(Tokens),
         NEW w, w = appendAssistantReasoning(v, s)
  PROVE  /\ w \in Views /\ EndsWithAssistant(w)
         /\ w.pending = v.pending /\ w.pendingReasoning = v.pendingReasoning
         /\ TurnsShow(v.turns) \cup ToSet(s) \subseteq TurnsShow(w.turns)
<1> DEFINE l == v.turns[Len(v.turns)]
           t == [l EXCEPT !.reasoning = l.reasoning \o s]
<1>1. l \in Turns /\ l.role = "assistant"
  BY LastTurnType DEF EndsWithAssistant, LastTurn
<1>2. t \in Turns /\ t.role = "assistant" /\ t.reasoning = l.reasoning \o s /\ t.text = l.text
  BY <1>1, ConcatProperties DEF Turns
<1>3. ToSet(l.reasoning) \cup ToSet(s) \subseteq ToSet(l.reasoning \o s)
  BY <1>1, ToSetConcat DEF Turns
<1>4. w = [v EXCEPT !.turns = [v.turns EXCEPT ![Len(v.turns)] = t]]
  BY DEF appendAssistantReasoning, Views
<1> HIDE DEF t
<1>5. TurnShows(l) \cup ToSet(s) \subseteq TurnShows(t)
  BY <1>1, <1>2, <1>3 DEF TurnShows
<1> QED
  BY <1>2, <1>4, <1>5, LastTurnShows, ZenonT(30)

(* Nothing is lost when pending text has an answer to go into.             *)
LEMMA FlushShows ==
  ASSUME NEW v \in Views, Attached(v)
  PROVE  Flush(v) \in Views /\ ~IsPending(Flush(v)) /\ Shown(v) \subseteq TurnsShow(Flush(v).turns)
<1> DEFINE p == v.pending
           q == v.pendingReasoning
           r == IF q # <<>> THEN appendAssistantReasoning(v, q) ELSE v
           t == IF p # <<>> THEN appendAssistantChunk(r, p) ELSE r
           f == [t EXCEPT !.pending = <<>>, !.pendingReasoning = <<>>]
<1>1. p \in Seq(Tokens) /\ q \in Seq(Tokens) /\ <<>> \in Seq(Tokens)
  BY DEF Views
<1>2. Flush(v) = f
  BY DEF Flush
<1>3. (p = <<>> /\ q = <<>>) \/ EndsWithAssistant(v)
  BY DEF Attached, IsPending
<1> HIDE DEF p, q
<1>4. /\ r \in Views /\ (p = <<>> \/ EndsWithAssistant(r))
      /\ TurnsShow(v.turns) \cup ToSet(q) \subseteq TurnsShow(r.turns)
  <2>1. CASE q = <<>>
    BY <1>3, <2>1, ToSetNothing
  <2>2. CASE q # <<>>
    BY <1>1, <1>3, <2>2, ReasoningShows
  <2> QED
    BY <2>1, <2>2
<1> HIDE DEF r
<1>5. /\ t \in Views
      /\ TurnsShow(r.turns) \cup ToSet(p) \subseteq TurnsShow(t.turns)
  <2>1. CASE p = <<>>
    BY <1>4, <2>1, ToSetNothing
  <2>2. CASE p # <<>>
    BY <1>1, <1>4, <2>2, ChunkShows
  <2> QED
    BY <2>1, <2>2
<1> HIDE DEF t
<1>6. f \in Views /\ f.turns = t.turns /\ f.pending = <<>> /\ f.pendingReasoning = <<>>
  BY <1>1, <1>5 DEF Views
<1> HIDE DEF f
<1>7. Shown(v) = TurnsShow(v.turns) \cup ToSet(p) \cup ToSet(q)
  BY ShownIs DEF p, q
<1> QED
  BY <1>2, <1>4, <1>5, <1>6, <1>7 DEF IsPending

LEMMA FinalizeShows ==
  ASSUME NEW v \in Views, NEW w, w = finalizeAssistantStream(v)
  PROVE  /\ w \in Views
         /\ w.pending = v.pending /\ w.pendingReasoning = v.pendingReasoning
         /\ TurnsShow(v.turns) \subseteq TurnsShow(w.turns)
<1>1. CASE EndsWithAssistant(v)
  <2> DEFINE l == v.turns[Len(v.turns)]
             t == [l EXCEPT !.stream = FALSE]
  <2>1. l \in Turns /\ l.role = "assistant"
    BY <1>1, LastTurnType DEF EndsWithAssistant, LastTurn
  <2>2. t \in Turns /\ t.role = "assistant" /\ t.text = l.text /\ t.reasoning = l.reasoning
    BY <2>1 DEF Turns
  <2>3. w = [v EXCEPT !.turns = [v.turns EXCEPT ![Len(v.turns)] = t]]
    BY <1>1 DEF finalizeAssistantStream, Views
  <2> HIDE DEF t
  <2>4. TurnShows(l) \subseteq TurnShows(t)
    BY <2>1, <2>2 DEF TurnShows
  <2> QED
    BY <1>1, <2>2, <2>3, <2>4, LastTurnShows, ZenonT(30)
<1>2. CASE ~EndsWithAssistant(v)
  BY <1>2 DEF finalizeAssistantStream
<1> QED
  BY <1>1, <1>2

(* What is stripped shows nothing.                                         *)
LEMMA StripShows ==
  ASSUME NEW v \in Views, NEW w, w = stripTrailingEmptyAssistant(v)
  PROVE  /\ w \in Views
         /\ w.pending = v.pending /\ w.pendingReasoning = v.pendingReasoning
         /\ TurnsShow(v.turns) \subseteq TurnsShow(w.turns)
<1> DEFINE s == v.turns
           n == Len(s) - 1
<1>1. CASE w = v
  BY <1>1
<1>2. CASE w # v
  <2>1. /\ EndsWithAssistant(v) /\ w = [v EXCEPT !.turns = Front(s)]
        /\ LastTurn(v).text = <<>> /\ LastTurn(v).reasoning = <<>>
    BY <1>2 DEF stripTrailingEmptyAssistant
  <2>2. s \in Seq(Turns) /\ s # <<>> /\ s[Len(s)].role = "assistant"
    BY <2>1 DEF Views, EndsWithAssistant, LastTurn
  <2>3. TurnShows(s[Len(s)]) = {}
    BY <2>1, <2>2, ToSetNothing DEF TurnShows, LastTurn
  <2>4. Len(s) \in Nat /\ Len(s) \in 1..Len(s) /\ n \in Nat
    BY <2>2, EmptySeq
  <2>5. Front(s) = SubSeq(s, 1, n)
    BY DEF Front
  <2> DEFINE u == SubSeq(s, 1, n)
  <2>6. u \in Seq(Turns) /\ Len(u) = n /\ \A i \in 1..n : u[i] = s[i]
    <3>1. \A i \in 1..n : s[i] \in Turns
      BY <2>2, <2>4
    <3> HIDE DEF n
    <3>2. /\ SubSeq(s, 1, n) \in Seq(Turns)
          /\ Len(SubSeq(s, 1, n)) = IF 1 <= n THEN n - 1 + 1 ELSE 0
          /\ \A i \in 1..(n - 1 + 1) : SubSeq(s, 1, n)[i] = s[1 + i - 1]
      BY <2>4, <3>1, SubSeqProperties
    <3>3. Len(SubSeq(s, 1, n)) = n /\ \A i \in 1..n : SubSeq(s, 1, n)[i] = s[i]
      BY <2>4, <3>2
    <3> QED
      BY <3>2, <3>3
  <2> HIDE DEF u
  <2>7. ASSUME NEW i \in 1..Len(s)
        PROVE  TurnShows(s[i]) = {} \/ (i \in 1..Len(u) /\ TurnShows(s[i]) \subseteq TurnShows(u[i]))
    <3>1. CASE i = Len(s)
      BY <2>3, <3>1
    <3>2. CASE i # Len(s)
      <4>1. i \in 1..n
        BY <2>4, <3>2
      <4> QED
        BY <2>6, <4>1
    <3> QED
      BY <3>1, <3>2
  <2>8. TurnsShow(s) \subseteq TurnsShow(u)
    BY <2>2, <2>6, <2>7, TurnsShowMore
  <2>9. w \in Views /\ w.turns = u /\ w.pending = v.pending /\ w.pendingReasoning = v.pendingReasoning
    BY <2>1, <2>5, <2>6 DEF Views, u
  <2> QED
    BY <2>8, <2>9
<1> QED
  BY <1>1, <1>2


-----------------------------------------------------------------------------
(* The messages, as to what they do to pending text.                       *)
Adds(m) == m.kind \in {"text", "reasoning"}

Flushes(m) == m.kind \in {"calls", "err", "done"}

LEMMA KindsOfMessages ==
  ASSUME NEW m \in StreamMsgs
  PROVE  /\ m.body \in Seq(Tokens) /\ m.cancelled \in BOOLEAN
         /\ Adds(m) \/ Flushes(m) \/ m.kind = "result"
         /\ m.kind = "result" => ~Adds(m) /\ ~Flushes(m)
         /\ Adds(m) => ~Flushes(m)
         /\ IsTerminal(m) => Flushes(m)
BY DEF StreamMsgs, Adds, Flushes, IsTerminal

LEMMA SettledShows ==
  ASSUME NEW v \in Views, Attached(v),
         NEW g, g = finalizeAssistantStream(Flush(v)),
         NEW h, h = stripTrailingEmptyAssistant(g)
  PROVE  /\ g \in Views /\ ~IsPending(g) /\ Shown(v) \subseteq TurnsShow(g.turns)
         /\ h \in Views /\ ~IsPending(h) /\ Shown(v) \subseteq TurnsShow(h.turns)
<1> DEFINE f == Flush(v)
<1>1. f \in Views /\ ~IsPending(f) /\ Shown(v) \subseteq TurnsShow(f.turns)
  BY FlushShows
<1>2. /\ g \in Views /\ g.pending = f.pending /\ g.pendingReasoning = f.pendingReasoning
      /\ TurnsShow(f.turns) \subseteq TurnsShow(g.turns)
  BY <1>1, FinalizeShows
<1>3. /\ h \in Views /\ h.pending = g.pending /\ h.pendingReasoning = g.pendingReasoning
      /\ TurnsShow(g.turns) \subseteq TurnsShow(h.turns)
  BY <1>2, StripShows
<1> HIDE DEF f
<1> QED
  BY <1>1, <1>2, <1>3 DEF IsPending

(* Calls, errors and the end move what is pending into the transcript.     *)
LEMMA FlushingShows ==
  ASSUME NEW v \in Views, Attached(v), NEW m \in StreamMsgs, Flushes(m)
  PROVE  /\ Shown(v) \subseteq Shown(Show(v, m))
         /\ ~IsPending(Show(v, m))
<1> DEFINE g == finalizeAssistantStream(Flush(v))
           h == stripTrailingEmptyAssistant(g)
           w == Show(v, m)
<1>1. /\ g \in Views /\ ~IsPending(g) /\ Shown(v) \subseteq TurnsShow(g.turns)
      /\ h \in Views /\ ~IsPending(h) /\ Shown(v) \subseteq TurnsShow(h.turns)
  BY SettledShows
<1>2. m.body \in Seq(Tokens) /\ m.cancelled \in BOOLEAN
  BY KindsOfMessages
<1>3. CASE m.kind = "err"
  <2>1. w = AddTurn(h, NoteTurn("error"))
    BY <1>3 DEF Show, ShowError
  <2> HIDE DEF g, h, w
  <2> QED
    BY <1>1, <2>1, AddTurnShows, TurnTypes, ShownIs, SMTT(30) DEF IsPending, w
<1>4. CASE m.kind = "done"
  <2>1. w = IF m.cancelled THEN AddTurn(g, NoteTurn("meta")) ELSE g
    BY <1>4 DEF Show, ShowDone
  <2> HIDE DEF g, h, w
  <2>2. CASE m.cancelled
    BY <1>1, <2>1, <2>2, AddTurnShows, TurnTypes, ShownIs, SMTT(30) DEF IsPending, w
  <2>3. CASE ~m.cancelled
    BY <1>1, <2>1, <2>3, ShownIs DEF w
  <2> QED
    BY <2>2, <2>3
<1>5. CASE m.kind = "calls"
  <2> DEFINE a == [k \in 1..Len(m.body) |-> ToolCallTurn(m.body[k])]
  <2>1. w = [h EXCEPT !.turns = h.turns \o a]
    BY <1>5 DEF Show, ShowToolCalls
  <2>2. a \in Seq(Turns)
    <3>1. \A k \in 1..Len(m.body) : ToolCallTurn(m.body[k]) \in Turns
      BY <1>2, TurnTypes
    <3> QED
      BY <1>2, <3>1
  <2> HIDE DEF g, h, w, a
  <2>3. h.turns \in Seq(Turns)
    BY <1>1 DEF Views
  <2>4. TurnsShow(h.turns) \subseteq TurnsShow(h.turns \o a)
    BY <2>2, <2>3, ConcatShows
  <2>5. w.turns = h.turns \o a /\ w.pending = h.pending /\ w.pendingReasoning = h.pendingReasoning
    BY <1>1, <2>1 DEF Views
  <2> QED
    BY <1>1, <2>4, <2>5, ShownIs DEF IsPending, w
<1> QED
  BY <1>3, <1>4, <1>5 DEF Flushes

(* Text and reasoning join what is pending, behind an answer.              *)
LEMMA AddingShows ==
  ASSUME NEW v \in Views, NEW m \in StreamMsgs, Adds(m)
  PROVE  /\ Shown(v) \subseteq Shown(Show(v, m))
         /\ EndsWithAssistant(Show(v, m))
<1> DEFINE h == ensureStreamingAssistantTurn(v)
           w == Show(v, m)
<1>1. /\ h \in Views /\ EndsWithAssistant(h)
      /\ h.pending = v.pending /\ h.pendingReasoning = v.pendingReasoning
      /\ TurnsShow(v.turns) \subseteq TurnsShow(h.turns)
  <2>1. CASE EndsWithAssistant(v) /\ LastTurn(v).stream
    BY <2>1 DEF ensureStreamingAssistantTurn
  <2>2. CASE ~(EndsWithAssistant(v) /\ LastTurn(v).stream)
    BY <2>2, AddTurnShows, EnsureEdits, TurnTypes DEF ensureStreamingAssistantTurn
  <2> QED
    BY <2>1, <2>2
<1>2. m.body \in Seq(Tokens) /\ v.pending \in Seq(Tokens) /\ v.pendingReasoning \in Seq(Tokens)
  BY KindsOfMessages DEF Views
<1>3. CASE m.kind = "text"
  <2>1. w = [h EXCEPT !.pending = h.pending \o m.body]
    BY <1>3 DEF Show, ShowText
  <2> HIDE DEF h, w
  <2>2. /\ w.turns = h.turns /\ w.pending = v.pending \o m.body
        /\ w.pendingReasoning = v.pendingReasoning
    BY <1>1, <2>1 DEF Views
  <2>3. ToSet(v.pending) \subseteq ToSet(w.pending)
    BY <1>2, <2>2, ToSetConcat
  <2>4. EndsWithAssistant(w)
    BY <1>1, <2>2 DEF EndsWithAssistant, LastTurn
  <2> QED
    BY <1>1, <2>2, <2>3, <2>4, ShownIs DEF w
<1>4. CASE m.kind = "reasoning"
  <2>1. w = [h EXCEPT !.pendingReasoning = h.pendingReasoning \o m.body]
    BY <1>4 DEF Show, ShowReasoning
  <2> HIDE DEF h, w
  <2>2. /\ w.turns = h.turns /\ w.pendingReasoning = v.pendingReasoning \o m.body
        /\ w.pending = v.pending
    BY <1>1, <2>1 DEF Views
  <2>3. ToSet(v.pendingReasoning) \subseteq ToSet(w.pendingReasoning)
    BY <1>2, <2>2, ToSetConcat
  <2>4. EndsWithAssistant(w)
    BY <1>1, <2>2 DEF EndsWithAssistant, LastTurn
  <2> QED
    BY <1>1, <2>2, <2>3, <2>4, ShownIs DEF w
<1> QED
  BY <1>3, <1>4 DEF Adds

(* A result leaves what is pending where it is.                            *)
LEMMA ResultShows ==
  ASSUME NEW v \in Views, NEW m \in StreamMsgs, m.kind = "result"
  PROVE  /\ Shown(v) \subseteq Shown(Show(v, m))
         /\ IsPending(Show(v, m)) <=> IsPending(v)
<1>1. CASE m.body = <<>>
  BY <1>1 DEF Show, ShowToolResult
<1>2. CASE m.body # <<>>
  <2>1. Show(v, m) = AddTurn(v, ToolResultTurn(m.body))
    BY <1>2 DEF Show, ShowToolResult
  <2>2. ToolResultTurn(m.body) \in Turns
    BY KindsOfMessages, TurnTypes
  <2> QED
    BY <2>1, <2>2, AddTurnShows DEF IsPending
<1> QED
  BY <1>1, <1>2

-----------------------------------------------------------------------------
(* Which results may be shown.  p: text is pending before the messages s.  *)

(* All text before the k-th message has been moved into the transcript     *)
(* when it is shown.                                                       *)
Flushed(s, p, k) ==
  /\ p => \E j \in 1..(k - 1) : Flushes(s[j])
  /\ \A i \in 1..(k - 1) : Adds(s[i]) => \E j \in (i + 1)..(k - 1) : Flushes(s[j])

ResultsFit(s, p) == \A k \in 1..Len(s) : s[k].kind = "result" => Flushed(s, p, k)

AllFlushed(s, p) == Flushed(s, p, Len(s) + 1)

(* What is sent behind s leaves what was said of it.                       *)
LEMMA FlushedBefore ==
  ASSUME NEW s \in Seq(StreamMsgs), NEW t \in Seq(StreamMsgs), NEW p \in BOOLEAN,
         NEW k \in 1..(Len(s) + 1), \A i \in 1..(k - 1) : t[i] = s[i],
         Flushed(s, p, k)
  PROVE  Flushed(t, p, k)
<1>1. Len(s) \in Nat /\ k \in Nat /\ k - 1 \in Nat
  OBVIOUS
<1>2. p => \E j \in 1..(k - 1) : Flushes(t[j])
  BY DEF Flushed
<1>3. ASSUME NEW i \in 1..(k - 1), Adds(t[i])
      PROVE  \E j \in (i + 1)..(k - 1) : Flushes(t[j])
  <2>1. Adds(s[i])
    BY <1>3
  <2>2. PICK j \in (i + 1)..(k - 1) : Flushes(s[j])
    BY <2>1 DEF Flushed
  <2>3. j \in 1..(k - 1)
    BY <1>1
  <2> QED
    BY <2>2, <2>3
<1> QED
  BY <1>2, <1>3 DEF Flushed

LEMMA SendingFits ==
  ASSUME NEW s \in Seq(StreamMsgs), NEW o \in Seq(StreamMsgs), NEW p \in BOOLEAN, ResultsFit(s, p)
  PROVE  /\ (\A k \in 1..Len(o) : o[k].kind # "result") => ResultsFit(s \o o, p)
         /\ o # <<>> /\ Flushes(o[Len(o)]) => AllFlushed(s \o o, p)
         /\ Len(o) = 1 /\ o[1].kind = "result" /\ AllFlushed(s, p) =>
              ResultsFit(s \o o, p) /\ AllFlushed(s \o o, p)
<1> DEFINE u == s \o o
           n == Len(s)
<1>1. /\ u \in Seq(StreamMsgs) /\ Len(u) = n + Len(o)
      /\ \A i \in 1..(n + Len(o)) : u[i] = IF i <= n THEN s[i] ELSE o[i - n]
      /\ n \in Nat /\ Len(o) \in Nat
  BY ConcatProperties
<1> HIDE DEF u, n
<1>2. \A i \in 1..n : i \in 1..Len(u) /\ u[i] = s[i]
  BY <1>1
<1>3. \A k \in 1..(n + 1) : Flushed(s, p, k) => Flushed(u, p, k)
  <2>1. ASSUME NEW k \in 1..(n + 1), Flushed(s, p, k) PROVE Flushed(u, p, k)
    <3>1. \A i \in 1..(k - 1) : i \in 1..n
      BY <1>1
    <3>2. \A i \in 1..(k - 1) : u[i] = s[i]
      BY <1>2, <3>1
    <3> QED
      BY <1>1, <2>1, <3>2, FlushedBefore DEF n
  <2> QED
    BY <2>1
<1>4. ASSUME NEW k \in 1..Len(u), k <= n, u[k].kind = "result"
      PROVE  Flushed(u, p, k)
  <2>1. k \in 1..n /\ k \in 1..(n + 1)
    BY <1>1, <1>4
  <2> QED
    BY <1>2, <1>3, <1>4, <2>1 DEF ResultsFit, n
<1>5. ASSUME NEW k \in 1..Len(u), ~(k <= n)
      PROVE  k - n \in 1..Len(o) /\ u[k] = o[k - n]
  BY <1>1, <1>5
<1>6. ASSUME \A k \in 1..Len(o) : o[k].kind # "result"
      PROVE  ResultsFit(u, p)
  BY <1>4, <1>5, <1>6 DEF ResultsFit
<1>7. ASSUME o # <<>>, Flushes(o[Len(o)])
      PROVE  AllFlushed(u, p)
  <2> DEFINE l == Len(u)
  <2>1. l \in 1..Len(u) /\ ~(l <= n) /\ l - n = Len(o) /\ l \in Nat
    <3>1. Len(o) # 0
      BY <1>1, <1>7, EmptySeq
    <3> QED
      BY <1>1, <3>1
  <2>2. Flushes(u[l])
    BY <1>5, <1>7, <2>1
  <2> HIDE DEF l
  <2>3. ASSUME NEW i \in 1..l, Adds(u[i]) PROVE l \in (i + 1)..l
    <3>1. i # l
      BY <2>2, <2>3 DEF Adds, Flushes
    <3> QED
      BY <2>1, <3>1
  <2>4. l \in 1..l /\ Len(u) + 1 - 1 = l
    BY <2>1 DEF l
  <2> QED
    BY <2>2, <2>3, <2>4 DEF AllFlushed, Flushed
<1>8. ASSUME Len(o) = 1, o[1].kind = "result", AllFlushed(s, p)
      PROVE  ResultsFit(u, p) /\ AllFlushed(u, p)
  <2>1. n + 1 \in 1..(n + 1) /\ Len(u) = n + 1 /\ u[n + 1] = o[1]
    BY <1>1, <1>8
  <2>2. Flushed(u, p, n + 1)
    BY <1>3, <1>8, <2>1 DEF AllFlushed, n
  <2>3. ResultsFit(u, p)
    <3>1. ASSUME NEW k \in 1..Len(u), ~(k <= n) PROVE k = n + 1
      BY <1>1, <2>1, <3>1
    <3> QED
      BY <1>4, <2>2, <3>1 DEF ResultsFit
  <2>4. ~Adds(u[n + 1])
    BY <1>8, <2>1 DEF Adds
  <2>5. Flushed(u, p, n + 2)
    <3>1. p => \E j \in 1..(n + 2 - 1) : Flushes(u[j])
      <4>1. p => \E j \in 1..(n + 1 - 1) : Flushes(u[j])
        BY <1>1, <2>2 DEF Flushed
      <4>2. \A j \in 1..(n + 1 - 1) : j \in 1..(n + 2 - 1)
        BY <1>1
      <4> QED
        BY <4>1, <4>2
    <3>2. ASSUME NEW i \in 1..(n + 2 - 1), Adds(u[i])
          PROVE  \E j \in (i + 1)..(n + 2 - 1) : Flushes(u[j])
      <4>1. i \in 1..(n + 1 - 1)
        <5>1. i # n + 1
          BY <2>4, <3>2
        <5> QED
          BY <1>1, <5>1
      <4>2. PICK j \in (i + 1)..(n + 1 - 1) : Flushes(u[j])
        BY <1>1, <2>2, <3>2, <4>1 DEF Flushed
      <4>3. j \in (i + 1)..(n + 2 - 1)
        BY <1>1
      <4> QED
        BY <4>2, <4>3
    <3> QED
      BY <1>1, <3>1, <3>2 DEF Flushed
  <2>6. Len(u) + 1 = n + 2
    BY <1>1, <2>1
  <2> QED
    BY <2>3, <2>5, <2>6 DEF AllFlushed
<1> QED
  BY <1>6, <1>7, <1>8 DEF u

(* Showing the first message: q says whether text is pending then.         *)
LEMMA ShowingFits ==
  ASSUME NEW m \in StreamMsgs, NEW t \in Seq(StreamMsgs), NEW p \in BOOLEAN, NEW q \in BOOLEAN,
         q => Adds(m) \/ (p /\ ~Flushes(m))
  PROVE  /\ ResultsFit(<<m>> \o t, p) => ResultsFit(t, q) /\ (m.kind = "result" => ~p)
         /\ AllFlushed(<<m>> \o t, p) => AllFlushed(t, q)
<1> DEFINE o == <<m>>
           s == o \o t
           n == Len(t)
<1>0. o \in Seq(StreamMsgs)
  OBVIOUS
<1>1. Len(o) = 1 /\ o[1] = m
  OBVIOUS
<1> HIDE DEF o
<1>2. /\ s \in Seq(StreamMsgs) /\ Len(s) = Len(o) + n
      /\ \A i \in 1..(Len(o) + n) : s[i] = IF i <= Len(o) THEN o[i] ELSE t[i - Len(o)]
      /\ n \in Nat
  BY <1>0, ConcatProperties
<1> HIDE DEF s
<1>3. Len(s) = n + 1 /\ s[1] = m /\ \A i \in 1..n : s[i + 1] = t[i]
  BY <1>1, <1>2
<1> HIDE DEF n
<1>4. ASSUME NEW k \in 1..(n + 1), Flushed(s, p, k + 1)
      PROVE  Flushed(t, q, k)
  <2>1. k \in Nat /\ n \in Nat /\ k - 1 \in Nat
    BY <1>2
  <2>2. ASSUME NEW j \in 2..k, Flushes(s[j]) PROVE j - 1 \in 1..(k - 1) /\ Flushes(t[j - 1])
    <3>1. j - 1 \in 1..n /\ j - 1 \in 1..(k - 1) /\ (j - 1) + 1 = j
      BY <2>1
    <3> QED
      BY <1>3, <2>2, <3>1
  <2>3. q => \E j \in 1..(k - 1) : Flushes(t[j])
    <3>1. ASSUME q PROVE \E j \in 2..k : Flushes(s[j])
      <4>1. CASE Adds(m)
        <5>1. 1 \in 1..(k + 1 - 1)
          BY <2>1
        <5>2. PICK j \in (1 + 1)..(k + 1 - 1) : Flushes(s[j])
          BY <1>3, <1>4, <4>1, <5>1 DEF Flushed
        <5>3. j \in 2..k
          BY <2>1
        <5> QED
          BY <5>2, <5>3
      <4>2. CASE p /\ ~Flushes(m)
        <5>1. PICK j \in 1..(k + 1 - 1) : Flushes(s[j])
          BY <1>4, <4>2 DEF Flushed
        <5>2. j # 1
          BY <1>3, <4>2, <5>1
        <5>3. j \in 2..k
          BY <2>1, <5>2
        <5> QED
          BY <5>1, <5>3
      <4> QED
        BY <3>1, <4>1, <4>2
    <3> QED
      BY <2>2, <3>1
  <2>4. ASSUME NEW i \in 1..(k - 1), Adds(t[i])
        PROVE  \E j \in (i + 1)..(k - 1) : Flushes(t[j])
    <3>1. i \in 1..n /\ i + 1 \in 1..(k + 1 - 1)
      BY <2>1
    <3>2. Adds(s[i + 1])
      BY <1>3, <2>4, <3>1
    <3>3. PICK j \in (i + 1 + 1)..(k + 1 - 1) : Flushes(s[j])
      BY <1>4, <3>1, <3>2 DEF Flushed
    <3>4. j \in 2..k /\ j - 1 \in (i + 1)..(k - 1)
      BY <2>1
    <3> QED
      BY <2>2, <3>3, <3>4
  <2> QED
    BY <2>3, <2>4 DEF Flushed
<1>5. ASSUME ResultsFit(s, p) PROVE ResultsFit(t, q)
  <2>1. ASSUME NEW k \in 1..n, t[k].kind = "result" PROVE Flushed(t, q, k)
    <3>1. k + 1 \in 1..Len(s) /\ s[k + 1] = t[k] /\ k \in 1..(n + 1)
      BY <1>2, <1>3
    <3> QED
      BY <1>4, <1>5, <2>1, <3>1 DEF ResultsFit
  <2> QED
    BY <2>1 DEF ResultsFit, n
<1>6. ASSUME ResultsFit(s, p), m.kind = "result" PROVE ~p
  <2>1. 1 \in 1..Len(s)
    BY <1>2, <1>3
  <2>2. Flushed(s, p, 1)
    BY <1>3, <1>6, <2>1 DEF ResultsFit
  <2>3. ~(\E j \in 1..(1 - 1) : Flushes(s[j]))
    OBVIOUS
  <2> QED
    BY <2>2, <2>3 DEF Flushed
<1>7. ASSUME AllFlushed(s, p) PROVE AllFlushed(t, q)
  <2>1. n + 1 \in 1..(n + 1) /\ Len(s) + 1 = (n + 1) + 1
    BY <1>2, <1>3
  <2> QED
    BY <1>4, <1>7, <2>1 DEF AllFlushed, n
<1> QED
  BY <1>5, <1>6, <1>7 DEF s, o

-----------------------------------------------------------------------------
(* With one agent, the invariant behind what stays shown.                  *)

(* What the shown run has sent and is about to send, in order.             *)
Unsent(g) == IF g.pc = "send" THEN g.out ELSE <<>>

coming == sent \o Unsent(gor[runID])

Owing(g) == \E a \in Agents : g.owed[a] # <<>>

InStream(g) == g.pc \in {"stream", "recv"} \/ (g.pc = "send" /\ g.resume = "stream")

(* Pending text has an answer to move into.  A result is shown when none   *)
(* is pending: while results are owed, what is on its way flushes it.      *)
ShownRunFits(s, g) ==
  /\ Attached(view)
  /\ ResultsFit(s, IsPending(view))
  /\ Owing(g) => AllFlushed(s, IsPending(view))

StreamsOweNothing == \A r \in Runs : InStream(gor[r]) => ~Owing(gor[r])

LossInv ==
  /\ ~busy => ~IsPending(view)
  /\ busy => ShownRunFits(coming, gor[runID])
  /\ StreamsOweNothing

OneAgent == \A a, b \in Agents : a = b

LEMMA UnsentType ==
  ASSUME NEW g \in Goroutines
  PROVE  Unsent(g) \in Seq(StreamMsgs)
BY DEF Unsent, Goroutines

LEMMA PendingType == \A v : IsPending(v) \in BOOLEAN
BY DEF IsPending

LEMMA NoRunOwes ==
  ASSUME NEW g, g.owed = NoRun.owed
  PROVE  ~Owing(g)
BY DEF Owing, NoRun

(* What a goroutine that goes on to send o may do: send anything but a     *)
(* result and flush what it owes results for, or answer a call.            *)
SendingFitsRun(g, h, o) ==
  \/ /\ \A k \in 1..Len(o) : o[k].kind # "result"
     /\ Owing(h) => o # <<>> /\ Flushes(o[Len(o)])
  \/ Owing(g) /\ Len(o) = 1 /\ o[1].kind = "result"

(* A step of a goroutine that leaves the channel and the view alone.       *)
LEMMA LocalFits ==
  ASSUME RInv, LossInv, NEW r \in Runs, NEW g \in Goroutines,
         gor' = [gor EXCEPT ![r] = g],
         UNCHANGED <<uiVars, busVars>>,
         InStream(g) => ~Owing(g),
         \/ Unsent(g) = Unsent(gor[r]) /\ (Owing(g) => Owing(gor[r]))
         \/ gor[r].pc # "send" /\ SendingFitsRun(gor[r], g, Unsent(g))
  PROVE  LossInv'
<1>1. /\ gor \in [Runs -> Goroutines] /\ gor'[r] = g /\ \A q \in Runs \ {r} : gor'[q] = gor[q]
      /\ UNCHANGED <<view, busy, runID, ch, inbox>>
  BY DEF RInv, IInv, TypeOK, uiVars, busVars
<1>2. StreamsOweNothing'
  BY <1>1 DEF LossInv, StreamsOweNothing
<1>3. ~busy' => ~IsPending(view')
  BY <1>1 DEF LossInv
<1>4. sent' = sent /\ sent \in Seq(StreamMsgs)
  BY <1>1, BusTypes DEF sent, RInv
<1>5. ASSUME busy PROVE ShownRunFits(coming', gor'[runID])
  <2>1. runID \in Runs /\ ShownRunFits(coming, gor[runID])
    BY <1>5 DEF LossInv, RInv, IInv, BusyRuns
  <2>2. CASE r # runID
    <3>1. gor'[runID] = gor[runID]
      BY <1>1, <2>1, <2>2
    <3>2. coming' = coming
      BY <1>1, <1>4, <3>1 DEF coming
    <3> QED
      BY <2>1, <3>1, <3>2
  <2>3. CASE r = runID
    <3> DEFINE p == IsPending(view)
               u == Unsent(g)
    <3>1. p \in BOOLEAN /\ u \in Seq(StreamMsgs)
      BY UnsentType, PendingType
    <3>2. coming' = sent \o u /\ gor'[runID] = g /\ coming = sent \o Unsent(gor[r])
      BY <1>1, <1>4, <2>3 DEF coming
    <3>3. /\ Attached(view) /\ ResultsFit(coming, p)
          /\ Owing(gor[r]) => AllFlushed(coming, p)
      BY <2>1, <2>3 DEF ShownRunFits
    <3> HIDE DEF p, u
    <3>4. CASE u = Unsent(gor[r]) /\ (Owing(g) => Owing(gor[r]))
      BY <3>2, <3>3, <3>4 DEF ShownRunFits, p
    <3>5. CASE gor[r].pc # "send" /\ SendingFitsRun(gor[r], g, u)
      <4>1. coming = sent
        BY <1>4, <3>2, <3>5, ConcatEmptySeq DEF Unsent
      <4>2. ResultsFit(sent, p) /\ (Owing(gor[r]) => AllFlushed(sent, p))
        BY <3>3, <4>1
      <4>3. ResultsFit(sent \o u, p) /\ (Owing(g) => AllFlushed(sent \o u, p))
        BY <1>4, <3>1, <3>5, <4>2, SendingFits DEF SendingFitsRun
      <4> QED
        BY <3>2, <3>3, <4>3 DEF ShownRunFits, p
    <3> QED
      BY <3>4, <3>5 DEF u
  <2> QED
    BY <2>2, <2>3
<1> QED
  BY <1>1, <1>2, <1>3, <1>5 DEF LossInv, ShownRunFits

(* The steps that send nothing.                                            *)
LEMMA MovingFits ==
  ASSUME RInv, LossInv, NEW r \in Runs, NEW g \in Goroutines,
         gor' = [gor EXCEPT ![r] = g], UNCHANGED <<uiVars, busVars>>,
         gor[r].pc # "send", g.pc # "send", g.owed = gor[r].owed,
         InStream(g) => InStream(gor[r]) \/ ~Owing(gor[r])
  PROVE  LossInv'
<1>1. Unsent(g) = <<>> /\ Unsent(gor[r]) = <<>>
  BY DEF Unsent
<1>2. Owing(g) <=> Owing(gor[r])
  BY DEF Owing
<1>3. InStream(g) => ~Owing(g)
  BY <1>2 DEF LossInv, StreamsOweNothing
<1> QED
  BY <1>1, <1>2, <1>3, LocalFits

LEMMA CheckContextFits ==
  ASSUME RInv, LossInv, NEW r \in Runs, CheckContext(r)
  PROVE  LossInv'
<1> DEFINE pc == IF gor[r].cancelled THEN "deferred"
                 ELSE IF gor[r].pc = "loop" THEN "next" ELSE "recv"
           g == [gor[r] EXCEPT !.pc = pc]
<1>1. gor[r] \in Goroutines
  BY DEF RInv, IInv, TypeOK
<1>2. /\ g \in Goroutines /\ g.pc = pc /\ g.owed = gor[r].owed
      /\ pc \in {"deferred", "next", "recv"}
  BY <1>1 DEF Goroutines, PCs
<1>3. /\ gor[r].pc \in {"loop", "stream"} /\ gor' = [gor EXCEPT ![r] = g]
      /\ UNCHANGED <<uiVars, busVars>>
  BY DEF CheckContext, Advance
<1>4. InStream(g) => InStream(gor[r])
  BY <1>2, <1>3 DEF InStream
<1> HIDE DEF g, pc
<1> QED
  BY <1>2, <1>3, <1>4, MovingFits

LEMMA RunStopsFits ==
  ASSUME RInv, LossInv, NEW r \in Runs, RunStops(r)
  PROVE  LossInv'
<1> DEFINE g == [gor[r] EXCEPT !.pc = "deferred"]
<1>1. gor[r] \in Goroutines
  BY DEF RInv, IInv, TypeOK
<1>2. g \in Goroutines /\ g.pc = "deferred" /\ g.owed = gor[r].owed
  BY <1>1 DEF Goroutines, PCs
<1>3. /\ gor[r].pc \in {"next", "recv"} /\ gor' = [gor EXCEPT ![r] = g]
      /\ UNCHANGED <<uiVars, busVars>>
  BY DEF RunStops, Advance
<1>4. ~InStream(g)
  BY <1>2 DEF InStream
<1> HIDE DEF g
<1> QED
  BY <1>2, <1>3, <1>4, MovingFits

LEMMA CaptureSessionFits ==
  ASSUME RInv, LossInv, NEW r \in Runs, CaptureSession(r)
  PROVE  LossInv'
<1> DEFINE g == [gor[r] EXCEPT !.snap = {gor[r].prompt}]
<1>1. gor[r] \in Goroutines /\ {gor[r].prompt} \in SUBSET Nat
  BY ConstantsAssumption DEF RInv, IInv, TypeOK, Goroutines
<1>2. g \in Goroutines /\ g.pc = gor[r].pc /\ g.owed = gor[r].owed
  BY <1>1 DEF Goroutines
<1>3. /\ gor[r].pc \in {"next", "recv"} /\ gor' = [gor EXCEPT ![r] = g]
      /\ UNCHANGED <<uiVars, busVars>>
  BY DEF CaptureSession
<1>4. InStream(g) => InStream(gor[r])
  BY <1>2, <1>3 DEF InStream
<1> HIDE DEF g
<1> QED
  BY <1>2, <1>3, <1>4, MovingFits

(* One agent alone that owes nothing: its run owes nothing.                *)
LEMMA AloneOwesNothing ==
  ASSUME OneAgent, NEW g, NEW a \in Agents, g.owed[a] = <<>>
  PROVE  ~Owing(g)
BY DEF OneAgent, Owing

LEMMA StreamBeginsFits ==
  ASSUME OneAgent, RInv, LossInv, NEW r \in Runs, NEW a \in Agents, StreamBegins(r, a)
  PROVE  LossInv'
<1> DEFINE g == [gor[r] EXCEPT !.pc = "stream", !.agent = a]
<1>1. gor[r] \in Goroutines
  BY DEF RInv, IInv, TypeOK
<1>2. g \in Goroutines /\ g.pc = "stream" /\ g.owed = gor[r].owed
  BY <1>1 DEF Goroutines, PCs
<1>3. /\ gor[r].pc = "next" /\ gor[r].owed[a] = <<>> /\ gor' = [gor EXCEPT ![r] = g]
      /\ UNCHANGED <<uiVars, busVars>>
  BY DEF StreamBegins
<1>4. ~Owing(gor[r])
  BY <1>3, AloneOwesNothing
<1> HIDE DEF g
<1> QED
  BY <1>2, <1>3, <1>4, MovingFits

(* The steps that go on to send.                                           *)
LEMMA SendThenFits ==
  ASSUME RInv, LossInv, NEW r \in Runs, NEW g \in Goroutines,
         NEW o \in Seq(StreamMsgs), NEW resume \in {"loop", "stream", "deferred", "ended"},
         SendThen(r, g, o, resume), UNCHANGED <<uiVars, busVars>>,
         gor[r].pc # "send", resume = "stream" => ~Owing(g),
         SendingFitsRun(gor[r], g, o)
  PROVE  LossInv'
<1> DEFINE h == [g EXCEPT !.pc = "send", !.out = o, !.resume = resume]
<1>1. /\ h \in Goroutines /\ h.pc = "send" /\ h.out = o /\ h.resume = resume
      /\ h.owed = g.owed
  BY DEF Goroutines, PCs
<1>2. gor' = [gor EXCEPT ![r] = h]
  BY DEF SendThen
<1> HIDE DEF h
<1>3. Unsent(h) = o /\ (Owing(h) <=> Owing(g))
  BY <1>1 DEF Unsent, Owing
<1>4. InStream(h) => ~Owing(h)
  BY <1>1, <1>3 DEF InStream
<1>5. SendingFitsRun(gor[r], h, Unsent(h))
  BY <1>3 DEF SendingFitsRun
<1> QED
  BY <1>1, <1>2, <1>4, <1>5, LocalFits

LEMMA RunFailsFits ==
  ASSUME RInv, LossInv, NEW r \in Runs, RunFails(r)
  PROVE  LossInv'
<1> DEFINE m == ErrMsg(r, gor[r].snap)
           o == <<m>>
<1>1. gor[r] \in Goroutines /\ r \in Nat /\ gor[r].snap \in SUBSET Nat
  <2>1. gor[r] \in Goroutines
    BY DEF RInv, IInv, TypeOK
  <2>2. r \in Nat
    BY ConstantsAssumption DEF Runs
  <2> QED
    BY <2>1, <2>2 DEF Goroutines
<1>2. o \in Seq(StreamMsgs) /\ m.kind = "err"
  BY <1>1, ErrType DEF ErrMsg
<1>3. SendThen(r, gor[r], o, "deferred") /\ gor[r].pc # "send" /\ UNCHANGED <<uiVars, busVars>>
  BY DEF RunFails
<1>4. Len(o) = 1 /\ o[1] = m /\ o # <<>>
  OBVIOUS
<1> HIDE DEF m, o
<1>5. SendingFitsRun(gor[r], gor[r], o)
  BY <1>2, <1>4 DEF SendingFitsRun, Flushes
<1> QED
  BY <1>1, <1>2, <1>3, <1>5, SendThenFits

LEMMA DeferredFits ==
  ASSUME RInv, LossInv, NEW r \in Runs, Deferred(r)
  PROVE  LossInv'
<1> DEFINE m == DoneMsg(r, gor[r].cancelled, gor[r].snap)
           o == <<m>>
<1>1. /\ gor[r] \in Goroutines /\ r \in Nat /\ gor[r].snap \in SUBSET Nat
      /\ gor[r].cancelled \in BOOLEAN
  <2>1. gor[r] \in Goroutines
    BY DEF RInv, IInv, TypeOK
  <2>2. r \in Nat
    BY ConstantsAssumption DEF Runs
  <2> QED
    BY <2>1, <2>2 DEF Goroutines
<1>2. o \in Seq(StreamMsgs) /\ m.kind = "done"
  BY <1>1, DoneType
<1>3. SendThen(r, gor[r], o, "ended") /\ gor[r].pc # "send" /\ UNCHANGED <<uiVars, busVars>>
  BY DEF Deferred
<1>4. Len(o) = 1 /\ o[1] = m /\ o # <<>>
  OBVIOUS
<1> HIDE DEF m, o
<1>5. SendingFitsRun(gor[r], gor[r], o)
  BY <1>2, <1>4 DEF SendingFitsRun, Flushes
<1> QED
  BY <1>1, <1>2, <1>3, <1>5, SendThenFits

LEMMA ToolResultFits ==
  ASSUME RInv, LossInv, NEW r \in Runs, NEW a \in Agents, ToolResult(r, a)
  PROVE  LossInv'
<1>1. gor[r] \in Goroutines /\ gor[r].owed \in [Agents -> Seq(Tokens)] /\ r \in Nat
  <2>1. gor[r] \in Goroutines
    BY DEF RInv, IInv, TypeOK
  <2>2. gor[r].owed \in [Agents -> Seq(Tokens)]
    BY <2>1 DEF Goroutines
  <2>3. r \in Nat
    BY ConstantsAssumption DEF Runs
  <2> QED
    BY <2>1, <2>2, <2>3
<1>2. PICK k \in 1..Len(gor[r].owed[a]) :
        LET g == [gor[r] EXCEPT !.owed[a] = RemoveAt(@, k)]
        IN  /\ g \in Goroutines
            /\ \/ \E text \in {<<gor[r].owed[a][k]>>, <<>>} :
                    /\ text \in Seq(Tokens)
                    /\ SendThen(r, g, <<StreamMsg(r, "result", text)>>, "loop")
               \/ gor' = [gor EXCEPT ![r] = [g EXCEPT !.pc = "loop"]]
  BY <1>1, ToolResultCases
<1> DEFINE g == [gor[r] EXCEPT !.owed[a] = RemoveAt(@, k)]
<1>3. g \in Goroutines /\ gor[r].pc = "next" /\ UNCHANGED <<uiVars, busVars>>
  BY <1>2 DEF ToolResult
<1>4. Owing(gor[r])
  <2>1. gor[r].owed[a] # <<>>
    BY <1>1, EmptySeq
  <2> QED
    BY <2>1 DEF Owing
<1>5. ASSUME NEW text \in Seq(Tokens),
             SendThen(r, g, <<StreamMsg(r, "result", text)>>, "loop")
      PROVE  LossInv'
  <2> DEFINE m == StreamMsg(r, "result", text)
             o == <<m>>
  <2>1. o \in Seq(StreamMsgs) /\ m.kind = "result"
    BY <1>1 DEF StreamMsg, StreamMsgs
  <2>2. SendThen(r, g, o, "loop")
    BY <1>5
  <2>3. Len(o) = 1 /\ o[1] = m
    OBVIOUS
  <2> HIDE DEF g, m, o
  <2>4. SendingFitsRun(gor[r], g, o)
    BY <1>4, <2>1, <2>3 DEF SendingFitsRun
  <2> QED
    BY <1>3, <2>1, <2>2, <2>4, SendThenFits
<1>6. CASE gor' = [gor EXCEPT ![r] = [g EXCEPT !.pc = "loop"]]
  <2> DEFINE h == [g EXCEPT !.pc = "loop"]
  <2> HIDE DEF g
  <2>1. h \in Goroutines /\ h.pc = "loop"
    BY <1>3 DEF Goroutines, PCs
  <2>2. gor' = [gor EXCEPT ![r] = h]
    BY <1>6
  <2> HIDE DEF h
  <2>3. Unsent(h) = Unsent(gor[r]) /\ ~InStream(h)
    BY <1>3, <2>1 DEF Unsent, InStream
  <2> QED
    BY <1>3, <1>4, <2>1, <2>2, <2>3, LocalFits
<1> QED
  BY <1>2, <1>5, <1>6

(* Messages none of which is a result.                                     *)
NoResults == { s \in Seq(StreamMsgs) : \A k \in 1..Len(s) : s[k].kind # "result" }

LEMMA NoResultsConcat ==
  ASSUME NEW s \in NoResults, NEW t \in NoResults
  PROVE  s \o t \in NoResults
<1>1. /\ s \o t \in Seq(StreamMsgs) /\ Len(s \o t) = Len(s) + Len(t)
      /\ \A i \in 1..(Len(s) + Len(t)) :
           (s \o t)[i] = IF i <= Len(s) THEN s[i] ELSE t[i - Len(s)]
      /\ Len(s) \in Nat /\ Len(t) \in Nat
  BY ConcatProperties DEF NoResults
<1> SUFFICES ASSUME NEW k \in 1..(Len(s) + Len(t))
             PROVE  (s \o t)[k].kind # "result"
  BY <1>1 DEF NoResults
<1>2. CASE k <= Len(s)
  <2>1. k \in 1..Len(s)
    BY <1>1, <1>2
  <2> QED
    BY <1>1, <1>2, <2>1 DEF NoResults
<1>3. CASE ~(k <= Len(s))
  <2>1. k - Len(s) \in 1..Len(t)
    BY <1>1, <1>3
  <2> QED
    BY <1>1, <1>3, <2>1 DEF NoResults
<1> QED
  BY <1>2, <1>3

LEMMA OutputHasNoResults ==
  ASSUME IInv, NEW r \in Runs, NEW c \in 0..MaxCalls
  PROVE  /\ CallTokens(r, c) \in Seq(Tokens)
         /\ ReasoningMsgs(r) \in NoResults /\ TextMsgs(r) \in NoResults
         /\ StreamMsg(r, "calls", CallTokens(r, c)) \in StreamMsgs
         /\ <<StreamMsg(r, "calls", CallTokens(r, c))>> \in NoResults
         /\ <<>> \in NoResults
<1>1. /\ CallTokens(r, c) \in Seq(Tokens)
      /\ ReasoningMsgs(r) \in Seq(StreamMsgs) /\ TextMsgs(r) \in Seq(StreamMsgs)
      /\ <<StreamMsg(r, "calls", CallTokens(r, c))>> \in Seq(StreamMsgs)
  BY OutputTypes DEF OutputOf
<1>2. \A kind, body : StreamMsg(r, kind, body).kind = kind
  BY DEF StreamMsg
<1>3. StreamMsg(r, "calls", CallTokens(r, c)) \in StreamMsgs
  BY <1>1
<1> QED
  BY <1>1, <1>2, <1>3 DEF ReasoningMsgs, TextMsgs, NoResults

LEMMA StreamChunkFits ==
  ASSUME RInv, LossInv, NEW r \in Runs, StreamChunk(r)
  PROVE  LossInv'
<1>1. PICK reasoning \in BOOLEAN, text \in BOOLEAN :
        SendThen(r, [gor[r] EXCEPT !.n = @ + 1],
                 (IF reasoning THEN ReasoningMsgs(r) ELSE <<>>)
                 \o (IF text THEN TextMsgs(r) ELSE <<>>), "stream")
  BY DEF StreamChunk
<1> DEFINE g == [gor[r] EXCEPT !.n = @ + 1]
           s == IF reasoning THEN ReasoningMsgs(r) ELSE <<>>
           t == IF text THEN TextMsgs(r) ELSE <<>>
           o == s \o t
<1>2. s \in NoResults /\ t \in NoResults
  <2>1. 0 \in 0..MaxCalls
    BY ConstantsAssumption
  <2> QED
    BY <2>1, OutputHasNoResults DEF RInv
<1>3. gor[r] \in Goroutines /\ gor[r].n + 1 \in Nat
  BY DEF RInv, IInv, TypeOK, Goroutines
<1>4. g \in Goroutines /\ g.owed = gor[r].owed
  BY <1>3 DEF Goroutines
<1>5. SendThen(r, g, o, "stream") /\ gor[r].pc = "recv" /\ UNCHANGED <<uiVars, busVars>>
  BY <1>1 DEF StreamChunk
<1> HIDE DEF g, s, t
<1>6. o \in NoResults
  BY <1>2, NoResultsConcat
<1>7. ~Owing(gor[r])
  BY <1>5 DEF LossInv, StreamsOweNothing, InStream
<1>8. ~Owing(g)
  BY <1>4, <1>7 DEF Owing
<1> HIDE DEF o
<1>9. SendingFitsRun(gor[r], g, o) /\ o \in Seq(StreamMsgs)
  BY <1>6, <1>8 DEF SendingFitsRun, NoResults
<1> QED
  BY <1>4, <1>5, <1>8, <1>9, SendThenFits

LEMMA StreamEndsFits ==
  ASSUME RInv, LossInv, NEW r \in Runs, StreamEnds(r)
  PROVE  LossInv'
<1>1. gor[r] \in Goroutines /\ gor[r].n + 1 \in Nat /\ gor[r].agent \in Agents
  BY DEF RInv, IInv, TypeOK, Goroutines
<1>2. gor[r].pc = "recv" /\ UNCHANGED <<uiVars, busVars>>
  BY DEF StreamEnds
<1>3. CASE Advance(r, "loop")
  <2> DEFINE g == [gor[r] EXCEPT !.pc = "loop"]
  <2>1. g \in Goroutines /\ g.pc = "loop" /\ g.owed = gor[r].owed
    BY <1>1 DEF Goroutines, PCs
  <2>2. ~InStream(g) /\ gor' = [gor EXCEPT ![r] = g]
    BY <1>3, <2>1 DEF InStream, Advance
  <2> HIDE DEF g
  <2> QED
    BY <1>2, <2>1, <2>2, MovingFits
<1>4. CASE ~Advance(r, "loop")
  <2>1. PICK c \in 1..MaxCalls :
          SendThen(r, [gor[r] EXCEPT !.n = @ + 1, !.owed[gor[r].agent] = CallTokens(r, c)],
                   <<StreamMsg(r, "calls", CallTokens(r, c))>>, "loop")
    BY <1>4 DEF StreamEnds
  <2> DEFINE g == [gor[r] EXCEPT !.n = @ + 1, !.owed[gor[r].agent] = CallTokens(r, c)]
             m == StreamMsg(r, "calls", CallTokens(r, c))
             o == <<m>>
  <2>2. c \in 0..MaxCalls
    OBVIOUS
  <2>3. CallTokens(r, c) \in Seq(Tokens) /\ m \in StreamMsgs /\ o \in NoResults
    BY <2>2, OutputHasNoResults DEF RInv
  <2>4. g \in Goroutines
    BY <1>1, <2>3 DEF Goroutines
  <2>5. SendThen(r, g, o, "loop")
    BY <2>1
  <2>6. Flushes(m)
    BY DEF Flushes, StreamMsg
  <2>7. Len(o) = 1 /\ o[1] = m /\ o # <<>>
    OBVIOUS
  <2> HIDE DEF g, m, o
  <2>8. SendingFitsRun(gor[r], g, o) /\ o \in Seq(StreamMsgs)
    BY <2>3, <2>6, <2>7 DEF SendingFitsRun, NoResults
  <2> QED
    BY <1>2, <2>4, <2>5, <2>8, SendThenFits
<1> QED
  BY <1>3, <1>4

(* An answer without calls leaves nothing owed; one with calls ends in the *)
(* message that flushes its text.                                          *)
LEMMA WholeMessageFits ==
  ASSUME OneAgent, RInv, LossInv, NEW r \in Runs, NEW a \in Agents, WholeMessage(r, a)
  PROVE  LossInv'
<1>1. PICK reasoning \in BOOLEAN, text \in BOOLEAN, c \in 0..MaxCalls :
        SendThen(r, [gor[r] EXCEPT !.n = @ + 1, !.owed[a] = CallTokens(r, c)],
                 (IF reasoning THEN ReasoningMsgs(r) ELSE <<>>)
                 \o (IF text THEN TextMsgs(r) ELSE <<>>)
                 \o (IF c > 0 THEN <<StreamMsg(r, "calls", CallTokens(r, c))>> ELSE <<>>),
                 "loop")
  BY DEF WholeMessage
<1> DEFINE g  == [gor[r] EXCEPT !.n = @ + 1, !.owed[a] = CallTokens(r, c)]
           m  == StreamMsg(r, "calls", CallTokens(r, c))
           s1 == IF reasoning THEN ReasoningMsgs(r) ELSE <<>>
           s2 == IF text THEN TextMsgs(r) ELSE <<>>
           s3 == IF c > 0 THEN <<m>> ELSE <<>>
           b  == s1 \o s2
           o  == b \o s3
<1>2. CallTokens(r, c) \in Seq(Tokens) /\ m \in StreamMsgs
  BY OutputHasNoResults DEF RInv
<1>3. s1 \in NoResults /\ s2 \in NoResults /\ s3 \in NoResults
  BY OutputHasNoResults DEF RInv
<1>4. gor[r] \in Goroutines /\ gor[r].n + 1 \in Nat
  BY DEF RInv, IInv, TypeOK, Goroutines
<1>5. g \in Goroutines /\ g.owed[a] = CallTokens(r, c)
  BY <1>2, <1>4 DEF Goroutines
<1>6. SendThen(r, g, o, "loop") /\ gor[r].pc # "send" /\ UNCHANGED <<uiVars, busVars>>
  BY <1>1 DEF WholeMessage
<1>7. Flushes(m)
  BY DEF Flushes, StreamMsg
<1> HIDE DEF g, s1, s2, m
<1>8. b \in NoResults
  BY <1>3, NoResultsConcat
<1> HIDE DEF b
<1>9. o \in NoResults
  BY <1>3, <1>8, NoResultsConcat
<1>10. ASSUME Owing(g) PROVE o # <<>> /\ Flushes(o[Len(o)])
  <2>1. c > 0
    <3>1. c = 0 => CallTokens(r, c) = <<>>
      BY <1>2, EmptySeq DEF CallTokens
    <3>2. g.owed[a] # <<>>
      BY <1>10, AloneOwesNothing DEF WholeMessage, OneAgent, Owing
    <3> QED
      BY <1>5, <3>1, <3>2, ConstantsAssumption
  <2>2. o = b \o <<m>>
    BY <2>1
  <2>3. b \in Seq(StreamMsgs)
    BY <1>8 DEF NoResults
  <2> HIDE DEF o
  <2>4. o = Append(b, m)
    BY <1>2, <2>2, <2>3, AppendIsConcat
  <2>5. o # <<>> /\ o[Len(o)] = m
    BY <1>2, <2>3, <2>4, AppendProperties
  <2> QED
    BY <1>7, <2>5
<1> HIDE DEF o
<1>11. SendingFitsRun(gor[r], g, o) /\ o \in Seq(StreamMsgs)
  BY <1>9, <1>10 DEF SendingFitsRun, NoResults
<1> QED
  BY <1>5, <1>6, <1>11, SendThenFits

(* Sending moves a message from what is about to be sent to what is sent.  *)
LEMMA AfterSendLeaves ==
  ASSUME IInv, NEW r \in Runs, gor[r].pc = "send"
  PROVE  /\ AfterSend(gor[r]) \in Goroutines
         /\ Head(gor[r].out) \in StreamMsgs
         /\ Unsent(gor[r]) = <<Head(gor[r].out)>> \o Unsent(AfterSend(gor[r]))
         /\ Owing(AfterSend(gor[r])) => Owing(gor[r])
         /\ InStream(AfterSend(gor[r])) => InStream(gor[r])
<1> DEFINE g == gor[r]
           h == AfterSend(g)
           m == Head(g.out)
<1>1. /\ g \in Goroutines /\ g.out \in Seq(StreamMsgs) /\ g.pc = "send" /\ SendsWell(r, g)
      /\ h \in Goroutines /\ m \in StreamMsgs
  BY SendFacts DEF IInv, TypeOK, SendingInv, Goroutines
<1>2. g.out # <<>> /\ Len(g.out) \in Nat \ {0} /\ Unsent(g) = g.out
  BY <1>1, EmptySeq DEF SendsWell, Unsent
<1> HIDE DEF g
<1>3. /\ Tail(g.out) \in Seq(StreamMsgs) /\ g.out = <<m>> \o Tail(g.out)
      /\ Len(Tail(g.out)) = Len(g.out) - 1
  BY <1>1, <1>2, HeadTailProperties
<1>4. CASE Len(g.out) > 1
  <2>1. h = [g EXCEPT !.out = Tail(g.out)]
    BY <1>4 DEF AfterSend
  <2>2. h.out = Tail(g.out) /\ h.pc = "send" /\ h.owed = g.owed /\ h.resume = g.resume
    BY <1>1, <2>1 DEF Goroutines
  <2> HIDE DEF h, m
  <2> QED
    BY <1>1, <1>2, <1>3, <2>2 DEF Unsent, Owing, InStream, g, h, m
<1>5. CASE ~(Len(g.out) > 1)
  <2>1. Len(g.out) = 1
    <3>1. \A n \in Nat \ {0} : n > 1 \/ n = 1
      OBVIOUS
    <3> QED
      BY <1>2, <1>5, <3>1, Zenon
  <2>2. Tail(g.out) = <<>>
    BY <1>3, <2>1, EmptySeq
  <2>3. CASE g.resume = "ended"
    <3>1. h = [NoRun EXCEPT !.pc = "ended"]
      BY <1>5, <2>3 DEF AfterSend
    <3>2. h.pc = "ended" /\ h.owed = NoRun.owed
      BY <3>1 DEF NoRun
    <3> HIDE DEF h, m
    <3>3. Unsent(h) = <<>> /\ ~Owing(h) /\ ~InStream(h)
      BY <3>2, NoRunOwes DEF Unsent, InStream
    <3> QED
      BY <1>1, <1>2, <1>3, <2>2, <3>3 DEF g, h, m
  <2>4. CASE g.resume # "ended"
    <3>1. h = [g EXCEPT !.out = <<>>, !.pc = g.resume, !.resume = "idle"]
      BY <1>5, <2>4 DEF AfterSend
    <3>2. h.pc = g.resume /\ h.owed = g.owed
      BY <1>1, <3>1 DEF Goroutines
    <3>3. g.resume \in {"loop", "stream", "deferred"}
      BY <1>1, <2>4 DEF SendsWell
    <3> HIDE DEF h, m
    <3>4. Unsent(h) = <<>> /\ (Owing(h) => Owing(g)) /\ (InStream(h) => InStream(g))
      BY <1>1, <3>2, <3>3 DEF Unsent, Owing, InStream
    <3> QED
      BY <1>1, <1>2, <1>3, <2>2, <3>4 DEF g, h, m
  <2> QED
    BY <2>3, <2>4
<1> QED
  BY <1>4, <1>5

LEMMA SendFits ==
  ASSUME RInv, LossInv, NEW r \in Runs, Send(r)
  PROVE  LossInv'
<1> DEFINE g == gor[r]
           h == AfterSend(g)
           m == Head(g.out)
           o == <<m>>
<1>0. IInv
  BY DEF RInv
<1>1. /\ g.pc = "send" /\ gor' = [gor EXCEPT ![r] = h]
      /\ UNCHANGED <<view, busy, runID>>
  BY DEF Send, uiVars
<1>2. /\ h \in Goroutines /\ g \in Goroutines /\ m \in StreamMsgs
      /\ Unsent(g) = o \o Unsent(h)
      /\ Owing(h) => Owing(g)
      /\ InStream(h) => InStream(g)
  BY <1>0, <1>1, AfterSendLeaves DEF IInv, TypeOK
<1>3. gor'[r] = h /\ \A q \in Runs \ {r} : gor'[q] = gor[q]
  BY <1>1 DEF RInv, IInv, TypeOK
<1>4. sent \in Seq(StreamMsgs) /\ sent' = sent \o (IF r = runID THEN o ELSE <<>>)
  BY <1>0, SendAppends
<1>5. o \in Seq(StreamMsgs) /\ Unsent(h) \in Seq(StreamMsgs)
  BY <1>2, UnsentType
<1> HIDE DEF h, m, o
<1>6. StreamsOweNothing'
  BY <1>2, <1>3 DEF LossInv, StreamsOweNothing
<1>7. ASSUME busy PROVE ShownRunFits(coming', gor'[runID])
  <2>1. runID \in Runs /\ ShownRunFits(coming, gor[runID])
    BY <1>7 DEF LossInv, RInv, IInv, BusyRuns
  <2>2. CASE r # runID
    <3>1. gor'[runID] = gor[runID]
      BY <1>3, <2>1, <2>2
    <3>2. coming' = coming
      BY <1>1, <1>4, <2>2, <3>1, ConcatEmptySeq DEF coming
    <3> QED
      BY <2>1, <3>1, <3>2
  <2>3. CASE r = runID
    <3>1. sent' = sent \o o /\ gor'[runID] = h /\ coming = sent \o (o \o Unsent(h))
      BY <1>2, <1>3, <1>4, <2>3 DEF coming
    <3>2. coming' = (sent \o o) \o Unsent(h)
      BY <1>1, <3>1 DEF coming
    <3>3. coming' = coming
      BY <1>4, <1>5, <3>1, <3>2, ConcatAssociative
    <3> QED
      BY <1>2, <2>1, <2>3, <3>1, <3>3 DEF ShownRunFits
  <2> QED
    BY <2>2, <2>3
<1> QED
  BY <1>1, <1>6, <1>7 DEF LossInv, ShownRunFits

LEMMA PumpFits ==
  ASSUME RInv, LossInv, Pump
  PROVE  LossInv'
<1>1. sent' = sent /\ UNCHANGED <<view, busy, runID, gor>>
  BY PumpKeepsOrder DEF RInv, Pump, uiVars
<1>2. coming' = coming
  BY <1>1 DEF coming
<1> QED
  BY <1>1, <1>2 DEF LossInv, ShownRunFits, StreamsOweNothing

(* What one message does to the shown run.                                 *)
LEMMA ShowingOne ==
  ASSUME view \in Views, NEW m \in StreamMsgs, NEW t \in Seq(StreamMsgs), NEW g,
         NEW s, s = <<m>> \o t,
         ShownRunFits(s, g), view' = Show(view, m)
  PROVE  /\ Shown(view) \subseteq Shown(view')
         /\ Flushes(m) => ~IsPending(view')
         /\ Attached(view') /\ ResultsFit(t, IsPending(view'))
         /\ Owing(g) => AllFlushed(t, IsPending(view'))
<1> DEFINE w == Show(view, m)
           p == IsPending(view)
           q == IsPending(w)
<1>1. /\ Attached(view) /\ ResultsFit(s, p) /\ (Owing(g) => AllFlushed(s, p))
  BY DEF ShownRunFits
<1>3. /\ Adds(m) => Shown(view) \subseteq Shown(w) /\ EndsWithAssistant(w)
      /\ Flushes(m) => Shown(view) \subseteq Shown(w) /\ ~q
      /\ m.kind = "result" => Shown(view) \subseteq Shown(w) /\ (q <=> p)
  BY <1>1, AddingShows, FlushingShows, ResultShows
<1>4. /\ Adds(m) \/ Flushes(m) \/ m.kind = "result"
      /\ m.kind = "result" => ~Adds(m) /\ ~Flushes(m)
      /\ Adds(m) => ~Flushes(m)
  BY KindsOfMessages
<1>5. p \in BOOLEAN /\ q \in BOOLEAN
  BY PendingType
<1> HIDE DEF p, q, w
<1>6. q => Adds(m) \/ (p /\ ~Flushes(m))
  BY <1>3, <1>4
<1>7. /\ ResultsFit(t, q) /\ (m.kind = "result" => ~p)
      /\ Owing(g) => AllFlushed(t, q)
  BY <1>1, <1>5, <1>6, ShowingFits
<1>8. Attached(w)
  BY <1>3, <1>4, <1>7 DEF Attached, q
<1>9. Shown(view) \subseteq Shown(w) /\ (Flushes(m) => ~q)
  BY <1>3, <1>4
<1> QED
  BY <1>7, <1>8, <1>9 DEF w, q

LEMMA DeliverFits ==
  ASSUME RInv, LossInv, Deliver
  PROVE  LossInv' /\ Shown(view) \subseteq Shown(view')
<1> PICK i \in 1..Len(inbox) : DropMessage(i) \/ ShowMessage(i) \/ EndRun(i)
  BY DEF Deliver
<1> DEFINE m == inbox[i]
           o == <<m>>
           g == gor[runID]
           u == Unsent(g)
           t == sent' \o u
<1>1. inbox' = RemoveAt(inbox, i) /\ UNCHANGED <<runID, ch, gor>>
  BY DEF DropMessage, ShowMessage, EndRun, uiVars
<1>2. /\ m \in StreamMsgs /\ busy /\ ~editing /\ sent' \in Seq(StreamMsgs)
      /\ sent = (IF m.run = runID THEN o ELSE <<>>) \o sent'
  BY <1>1, TakingOldest DEF RInv
<1>3. runID \in Runs /\ g \in Goroutines /\ view \in Views
  BY <1>2 DEF RInv, IInv, BusyRuns, TypeOK, ViewOK
<1>4. u \in Seq(StreamMsgs) /\ o \in Seq(StreamMsgs)
  BY <1>2, <1>3, UnsentType
<1>5. coming = sent \o u /\ coming' = t
  BY <1>1 DEF coming
<1>6. StreamsOweNothing'
  BY <1>1 DEF LossInv, StreamsOweNothing
<1>7. ShownRunFits(coming, g)
  BY <1>2 DEF LossInv
<1>8. t \in Seq(StreamMsgs)
  BY <1>2, <1>4, ConcatProperties
<1>9. CASE DropMessage(i)
  <2>1. m.run # runID /\ UNCHANGED <<view, busy, runID>>
    BY <1>2, <1>9 DEF DropMessage, uiVars
  <2>2. coming' = coming
    BY <1>2, <1>5, <2>1, ConcatEmptySeq
  <2>3. gor'[runID'] = g
    BY <1>1
  <2> QED
    BY <1>2, <1>6, <1>7, <2>1, <2>2, <2>3 DEF LossInv, ShownRunFits
<1>10. CASE ShowMessage(i) \/ EndRun(i)
  <2>1. /\ m.run = runID /\ view' = Show(view, m)
        /\ busy' = ~IsTerminal(m)
    BY <1>2, <1>10 DEF ShowMessage, EndRun, IsCurrent
  <2>2. coming = o \o t
    <3>1. coming = (o \o sent') \o u
      BY <1>2, <1>5, <2>1
    <3> HIDE DEF o, u
    <3> QED
      BY <1>2, <1>4, <3>1, ConcatAssociative, SMTT(30)
  <2> HIDE DEF t
  <2>3. /\ Shown(view) \subseteq Shown(view')
        /\ Flushes(m) => ~IsPending(view')
        /\ Attached(view') /\ ResultsFit(t, IsPending(view'))
        /\ Owing(g) => AllFlushed(t, IsPending(view'))
    BY <1>2, <1>3, <1>7, <1>8, <2>1, <2>2, ShowingOne
  <2>4. IsTerminal(m) => Flushes(m)
    BY <1>2, KindsOfMessages
  <2>5. ~busy' => ~IsPending(view')
    BY <2>1, <2>3, <2>4
  <2>6. gor'[runID'] = g
    BY <1>1
  <2>7. ShownRunFits(coming, gor[runID])'
    BY <1>5, <2>3, <2>6 DEF ShownRunFits
  <2> QED
    BY <1>6, <2>3, <2>5, <2>7 DEF LossInv
<1> QED
  BY <1>9, <1>10

(* A prompt begins with nothing pending and nothing on its way.            *)
LEMMA StartRunFits ==
  ASSUME RInv, LossInv, StartRun
  PROVE  LossInv' /\ Shown(view) \subseteq Shown(view')
<1> DEFINE q == runID + 1
           h == [NoRun EXCEPT !.pc = "loop", !.prompt = asked + 1]
           p == PromptText(asked + 1)
           a == <<UserTurn(p), StreamingTurn>>
<1>1. /\ ~busy /\ busy' = TRUE /\ runID' = q /\ gor' = [gor EXCEPT ![q] = h]
      /\ view' = BeginAnswer(view, p)
  BY DEF StartRun
<1>2. /\ view \in Views /\ p \in Seq(Tokens) /\ runID \in Nat /\ asked \in Nat
      /\ gor \in [Runs -> Goroutines]
  BY ConstantsAssumption, PromptType DEF RInv, ViewOK, IInv, TypeOK
<1>3. q \in Runs
  BY ConstantsAssumption DEF RInv, IInv, TypeOK, StartRun, Runs
<1>4. h.pc = "loop" /\ h.owed = NoRun.owed
  BY DEF NoRun
<1> HIDE DEF h
<1>5. ~Owing(h) /\ ~InStream(h) /\ Unsent(h) = <<>>
  BY <1>4, NoRunOwes DEF InStream, Unsent
<1>6. gor'[q] = h /\ \A r \in Runs \ {q} : gor'[r] = gor[r]
  BY <1>1, <1>2, <1>3
<1>7. StreamsOweNothing'
  BY <1>5, <1>6 DEF LossInv, StreamsOweNothing
<1>8. coming' = <<>>
  <2>1. sent' = <<>> /\ <<>> \in Seq(StreamMsgs)
    BY NothingSentYet DEF RInv
  <2>2. coming' = sent' \o Unsent(h)
    BY <1>1, <1>6 DEF coming
  <2> QED
    BY <1>5, <2>1, <2>2, ConcatEmptySeq
<1>9. ~IsPending(view) /\ view.pending = <<>> /\ view.pendingReasoning = <<>>
  BY <1>1 DEF LossInv, IsPending
<1>10. /\ view'.turns = view.turns \o a
       /\ view'.pending = <<>> /\ view'.pendingReasoning = <<>>
  BY <1>1 DEF BeginAnswer, View
<1>11. ~IsPending(view')
  BY <1>10 DEF IsPending
<1>12. ShownRunFits(coming, gor[runID])'
  <2>1. ResultsFit(<<>>, IsPending(view'))
    BY DEF ResultsFit
  <2> QED
    BY <1>1, <1>5, <1>6, <1>8, <1>11, <2>1 DEF ShownRunFits, Attached
<1>13. Shown(view) \subseteq Shown(view')
  <2>1. view.turns \in Seq(Turns) /\ a \in Seq(Turns)
    BY <1>2, TurnTypes DEF Views
  <2> HIDE DEF a
  <2>2. TurnsShow(view.turns) \subseteq TurnsShow(view.turns \o a)
    BY <2>1, ConcatShows
  <2> QED
    BY <1>9, <1>10, <2>2, ShownIs
<1> QED
  BY <1>1, <1>7, <1>12, <1>13 DEF LossInv

(* The commands find nothing pending and leave nothing pending.            *)
LEMMA CommandFits ==
  ASSUME RInv, LossInv, LeaveNote \/ NewTranscript \/ CloseEditorNoting
  PROVE  /\ LossInv'
         /\ view'.turns # <<NoteTurn("meta")>> => Shown(view) \subseteq Shown(view')
<1>1. ~busy /\ UNCHANGED <<busy, runID, gor>>
  BY DEF RInv, IInv, PumpDiscipline, LeaveNote, NewTranscript, CloseEditorNoting
<1>2. view \in Views
  BY DEF RInv, ViewOK
<1>3. /\ view'.pending = view.pending /\ view'.pendingReasoning = view.pendingReasoning
      /\ view'.turns # <<NoteTurn("meta")>> => Shown(view) \subseteq Shown(view')
  <2>1. CASE view' = AddTurn(view, NoteTurn("meta"))
    BY <1>2, <2>1, AddTurnShows, TurnTypes
  <2>2. CASE view' = [view EXCEPT !.turns = <<NoteTurn("meta")>>]
    BY <1>2, <2>2 DEF Views
  <2> QED
    BY <2>1, <2>2 DEF LeaveNote, NewTranscript, CloseEditorNoting
<1>4. LossInv'
  BY <1>1, <1>3 DEF LossInv, IsPending, StreamsOweNothing
<1> QED
  BY <1>3, <1>4

LEMMA CancelRunFits ==
  ASSUME RInv, LossInv, CancelRun
  PROVE  LossInv'
<1> DEFINE g == [gor[runID] EXCEPT !.cancelled = TRUE]
<1>1. runID \in Runs /\ gor[runID] \in Goroutines
  BY DEF RInv, IInv, TypeOK, BusyRuns, CancelRun
<1>2. /\ g \in Goroutines /\ g.pc = gor[runID].pc /\ g.out = gor[runID].out
      /\ g.resume = gor[runID].resume /\ g.owed = gor[runID].owed
  BY <1>1 DEF Goroutines
<1>3. gor' = [gor EXCEPT ![runID] = g] /\ UNCHANGED <<uiVars, busVars>>
  BY DEF CancelRun
<1> HIDE DEF g
<1>4. /\ Unsent(g) = Unsent(gor[runID])
      /\ Owing(g) <=> Owing(gor[runID])
      /\ InStream(g) <=> InStream(gor[runID])
  BY <1>2 DEF Unsent, Owing, InStream
<1>5. InStream(g) => ~Owing(g)
  BY <1>1, <1>4 DEF LossInv, StreamsOweNothing
<1> QED
  BY <1>1, <1>2, <1>3, <1>4, <1>5, LocalFits

(* A step that changes neither the transcript nor what is on its way.      *)
LEMMA IdleFits ==
  ASSUME LossInv, UNCHANGED <<view, busy, runID, ch, inbox, gor>>
  PROVE  LossInv'
<1>1. coming' = coming
  BY DEF coming, sent
<1> QED
  BY <1>1 DEF LossInv, ShownRunFits, StreamsOweNothing

LEMMA NextFits ==
  ASSUME OneAgent, RInv, LossInv, [Next]_vars
  PROVE  /\ LossInv'
         /\ view'.turns # <<NoteTurn("meta")>> => Shown(view) \subseteq Shown(view')
<1>1. CASE StartRun
  BY <1>1, StartRunFits
<1>2. CASE LeaveNote \/ NewTranscript \/ CloseEditorNoting
  BY <1>2, CommandFits
<1>3. CASE Deliver
  BY <1>3, DeliverFits
<1>4. CASE CancelRun
  BY <1>4, CancelRunFits DEF CancelRun, uiVars
<1>5. CASE Pump
  BY <1>5, PumpFits DEF Pump, uiVars
<1>6. CASE OpenEditor \/ CloseEditor \/ UNCHANGED vars
  BY <1>6, IdleFits DEF OpenEditor, CloseEditor, busVars, vars
<1>7. CASE \E r \in Runs : Goroutine(r) \/ AgentStep(r) \/ CaptureSession(r)
  <2> PICK r \in Runs : Goroutine(r) \/ AgentStep(r) \/ CaptureSession(r)
    BY <1>7
  <2>1. LossInv'
    BY CheckContextFits, DeferredFits, SendFits, RunStopsFits, RunFailsFits,
       StreamChunkFits, StreamEndsFits, WholeMessageFits, StreamBeginsFits,
       ToolResultFits, CaptureSessionFits DEF Goroutine, AgentStep
  <2>2. view' = view
    BY DEF Goroutine, AgentStep, CheckContext, Deferred, Send, RunStops, RunFails,
           StreamChunk, StreamEnds, WholeMessage, StreamBegins, ToolResult,
           CaptureSession, uiVars
  <2> QED
    BY <2>1, <2>2
<1> QED
  BY <1>1, <1>2, <1>3, <1>4, <1>5, <1>6, <1>7 DEF Next, UserStep

LEMMA InitFits == Init => LossInv
<1> SUFFICES ASSUME Init PROVE LossInv
  OBVIOUS
<1>1. \A r \in Runs : gor[r].pc = "idle"
  BY DEF Init, NoRun
<1>2. ~IsPending(view)
  BY DEF Init, EmptyView, View, IsPending
<1>3. ~busy
  BY DEF Init
<1> QED
  BY <1>1, <1>2, <1>3 DEF LossInv, StreamsOweNothing, InStream

(* With one agent, and whatever it streams, calls or fails at, however the *)
(* run ends and however runs share the channel: no chunk and no call the   *)
(* user has seen leaves the view.  Two agents may break it: the result one *)
(* waits for can be shown behind text of the other that is still pending.  *)
THEOREM NothingIsLost == OneAgent => (Spec => NothingShownIsLost)
<1> SUFFICES ASSUME OneAgent PROVE Spec => NothingShownIsLost
  OBVIOUS
<1>1. Init => RInv /\ LossInv
  BY InitRInv, InitFits
<1>2. RInv /\ LossInv /\ [Next]_vars => RInv' /\ LossInv'
  BY NextRInv, NextFits
<1>3. RInv /\ LossInv /\ [Next]_vars =>
        [view'.turns # <<NoteTurn("meta")>> => Shown(view) \subseteq Shown(view')]_vars
  BY NextFits
<1> QED
  BY <1>1, <1>2, <1>3, PTL DEF Spec, NothingShownIsLost
====
