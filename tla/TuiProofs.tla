---- MODULE TuiProofs ----
(***************************************************************************)
(* The files of the process, for any number of conversations, prompts and  *)
(* starts, whatever is streamed and whatever fails: the archive between    *)
(* runs is what is on the screen, no save takes anything away from it, and *)
(* the session file only grows.  The conjuncts of TInv do the work, each   *)
(* an invariant of TuiSpec next to the run loop's own (RInv).  ScreenApart *)
(* and FilesApart add that the runs do not mix in the archives.            *)
(***************************************************************************)
EXTENDS Tui, RunLoopProofs

(* The process, but for the prompts and the archives.                      *)
ProcInv ==
  /\ proc \in {"down", "up", "quit", "saved"}
  /\ boots \in 0..MaxBoots
  /\ convID \in Convs \cup {NoConv} /\ (convID = NoConv <=> proc = "down")
  /\ saveFailed \in BOOLEAN
  /\ DOMAIN convFile \subseteq Convs
  /\ proc = "down" => ~busy

(* What a run says: it is named after the run's prompt.                    *)
TokensOf(p) == { t \in Tokens : t[1] = p }

BodiesOf(p) == Seq(TokensOf(p))

(* The prompts of earlier processes: run r of this one has prompt r more.  *)
Before == asked - runID

(* Every message is of its run, and what is in the session comes from      *)
(* prompts, on whatever way.                                               *)
SafeMsgs(d) == { m \in StreamMsgs : m.session \subseteq Prompts /\ m.body \in BodiesOf(m.run + d) }

GorPrompts(g, r, d) ==
  /\ g.pc \notin {"idle", "ended"} => g.prompt \in Prompts /\ g.prompt = r + d
  /\ g.owed \in [Agents -> BodiesOf(r + d)]
  /\ g.snap \subseteq Prompts
  /\ g.out \in Seq(SafeMsgs(d))

BusPrompts ==
  /\ \A r \in Runs : GorPrompts(gor[r], r, Before)
  /\ ch \in Seq(SafeMsgs(Before)) /\ inbox \in Seq(SafeMsgs(Before))

PromptInv == BusPrompts /\ session \subseteq Prompts /\ sessFile \subseteq Prompts

(* A process never forgets a value it found in the file.                   *)
FileInv == proc # "down" => sessFile \subseteq session

(* Between runs the archive is what is shown, after a save that worked.    *)
CurrentInv ==
  proc # "down" /\ ~busy /\ ~saveFailed /\ ~LoadFailed =>
    ArchiveOf(convID) = Archive(view.turns)

(* Whatever failed, the archive is the beginning of what will be archived: *)
(* during a run, of what was shown before one of the prompts.              *)
GrowInv ==
  proc \in {"up", "quit"} /\ ~LoadFailed =>
    /\ ~busy => IsPrefix(ArchiveOf(convID), Archive(view.turns))
    /\ busy => \E k \in 1..Len(view.turns) :
                 /\ view.turns[k].role = "user"
                 /\ IsPrefix(ArchiveOf(convID), Archive(SubSeq(view.turns, 1, k - 1)))

-----------------------------------------------------------------------------
(* Every step of the process is one of the run loop, or starts or ends it. *)
Dead ==
  /\ view = EmptyView /\ busy = FALSE /\ runID = 0 /\ editing = FALSE
  /\ ch = <<>> /\ waiting = 0 /\ inbox = <<>>
  /\ gor = [r \in Runs |-> NoRun]
  /\ asked \in 0..MaxRuns

LEMMA DeadIsFine == Dead => RInv
<1> SUFFICES ASSUME Dead PROVE RInv
  OBVIOUS
<1>1. InTransit = {} /\ Len(ch) = 0 /\ Len(inbox) = 0
  BY DEF Dead, InTransit, ToSet
<1>2. TypeOK
  <2>1. \A r \in Runs : gor[r] = NoRun
    BY DEF Dead
  <2>2. \A r \in Runs : gor[r].pc = "idle" /\ r > 0
    <3>1. NoRun.pc = "idle"
      BY DEF NoRun
    <3>2. \A r \in Runs : r > 0
      BY ConstantsAssumption DEF Runs
    <3> QED
      BY <2>1, <3>1, <3>2
  <2>3. gor \in [Runs -> Goroutines]
    BY NoRunType DEF Dead
  <2>4. ch \in Seq(StreamMsgs) /\ inbox \in Seq(StreamMsgs)
    BY EmptySeq DEF Dead
  <2>5. /\ runID = 0 /\ waiting = 0 /\ 0 \in 0..MaxRuns /\ asked \in 0..MaxRuns /\ runID <= asked
    BY ConstantsAssumption DEF Dead
  <2>7. busy \in BOOLEAN /\ editing \in BOOLEAN
    BY DEF Dead
  <2>6. \A r \in Runs : gor[r].pc = "idle" <=> r > runID
    BY <2>2, <2>5
  <2> QED
    BY <2>3, <2>4, <2>5, <2>6, <2>7 DEF TypeOK
<1>3. SendingInv
  BY DEF Dead, SendingInv, SendsWell, NoRun
<1>4. TransitInv
  BY <1>1 DEF TransitInv
<1>5. PumpDiscipline /\ BusyRuns /\ BusyHasAnEnd
  BY <1>1 DEF Dead, PumpDiscipline, BusyRuns, BusyHasAnEnd
<1>6. PastRunsOnlySayDone
  BY <1>1 DEF Dead, PastRunsOnlySayDone
<1>7. ViewOK
  <2>1. view = [turns |-> <<>>, pending |-> <<>>, pendingReasoning |-> <<>>]
    BY DEF Dead, EmptyView, View
  <2>2. <<>> \in Seq(Turns) /\ <<>> \in Seq(Tokens)
    OBVIOUS
  <2> QED
    BY <2>1, <2>2 DEF ViewOK, Views
<1> QED
  BY <1>2, <1>3, <1>4, <1>5, <1>6, <1>7 DEF RInv, IInv

(* A view that is put up between runs.                                     *)
LEMMA NewViewIsFine ==
  ASSUME RInv, ViewOK', UNCHANGED <<busy, runID, editing, asked, busVars, gor>>
  PROVE  RInv'
<1>1. IInv'
  BY ScreenStep DEF RInv, IInv, TypeOK, PumpDiscipline
<1> QED
  BY <1>1 DEF RInv

(* The kinds of steps.                                                     *)
Starts == \E c \in Convs : Boot(c)

Dies == Crash \/ (ExitSavesConversation /\ Die) \/ ExitSavesSession

Rests ==
  /\ UNCHANGED vars
  /\ Quit \/ ExitSavesConversation \/ UNCHANGED tuiVars

Commands == (\E c \in Convs : StartNewConversation(c)) \/ Reload

Ends == \E i \in 1..Len(inbox) : EndRunAndSave(i)

Goes == proc = "up" /\ RunLoopStep /\ UNCHANGED <<procVars, diskVars>>

LEMMA TuiSteps == [TuiNext]_tuiVars => Starts \/ Dies \/ Rests \/ Commands \/ Ends \/ Goes
<1> SUFFICES ASSUME [TuiNext]_tuiVars
             PROVE  Starts \/ Dies \/ Rests \/ Commands \/ Ends \/ Goes
  OBVIOUS
<1>1. CASE UNCHANGED tuiVars
  BY <1>1 DEF Rests, tuiVars
<1>2. CASE Quit
  BY <1>2 DEF Rests, Quit
<1>3. CASE ExitSavesConversation
  BY <1>3 DEF Rests, Dies, ExitSavesConversation
<1>4. CASE \E c \in Convs : Boot(c) \/ StartNewConversation(c)
  BY <1>4 DEF Starts, Commands
<1>5. CASE \E i \in 1..Len(inbox) : EndRunAndSave(i)
  BY <1>5 DEF Ends
<1>6. CASE Goes
  BY <1>6
<1> QED
  BY <1>1, <1>2, <1>3, <1>4, <1>5, <1>6 DEF TuiNext, Dies, Commands, Goes

(* In the run loop they are steps of Next.                                 *)
LEMMA CommandsAreNext == Commands => [Next]_vars
BY DEF Commands, StartNewConversation, Reload, Next, UserStep

LEMMA EndsAreNext == Ends => [Next]_vars
BY DEF Ends, EndRunAndSave, Next, Deliver

LEMMA GoesAreNext == Goes => [Next]_vars
<1> SUFFICES ASSUME Goes PROVE Next
  OBVIOUS
<1>1. CASE \/ StartRun \/ CancelRun \/ LeaveNote
           \/ OpenEditor \/ CloseEditor \/ CloseEditorNoting
  BY <1>1 DEF Next, UserStep
<1>2. CASE Pump
  BY <1>2 DEF Next
<1>3. CASE \E i \in 1..Len(inbox) : DropMessage(i) \/ ShowMessage(i)
  BY <1>3 DEF Next, Deliver
<1>4. CASE \E r \in Runs : Goroutine(r) \/ AgentStep(r) \/ CaptureSession(r)
  BY <1>4 DEF Next
<1> QED
  BY <1>1, <1>2, <1>3, <1>4 DEF Goes, RunLoopStep

-----------------------------------------------------------------------------
(* Archives are made of turns.                                             *)
IsArchive(m) == \E t \in Seq(Turns) : m = LoopMessages(t)

ArchiveInv == \A c \in DOMAIN convFile : IsArchive(convFile[c])

LEMMA TurnsAreOver ==
  Turns = TurnsOver(Seq(Tokens), Tokens \cup {NoCall}) /\ <<>> \in Seq(Tokens) /\ NoCall \in Tokens \cup {NoCall}
BY DEF Turns, TurnsOver

LEMMA ArchiveIsLoop ==
  ASSUME NEW t \in Seq(Turns)
  PROVE  /\ persistableConvTurns(t) \in Seq(Turns)
         /\ Archive(t) = LoopMessages(persistableConvTurns(t))
         /\ IsArchive(Archive(t))
<1> DEFINE X == Seq(Tokens)
           C == Tokens \cup {NoCall}
           p == persistableConvTurns(t)
<1>1. Turns = TurnsOver(X, C)
  BY TurnsAreOver
<1>2. \A s \in Seq(TurnsOver(X, C)) : persistableConvTurns(s) \in Seq(KeptTurns(X, C))
  BY PersistableKept
<1>3. \A s \in Seq(KeptTurns(X, C)) : s \in Seq(TurnsOver(X, C))
  BY PersistableKept
<1> HIDE DEF X, C
<1>4. p \in Seq(Turns)
  BY <1>1, <1>2, <1>3
<1>5. Archive(t) = LoopMessages(p)
  BY DEF Archive, TurnsToMessages, trimMessageTail
<1> HIDE DEF p
<1>6. IsArchive(Archive(t))
  BY <1>4, <1>5 DEF IsArchive
<1> QED
  BY <1>4, <1>5, <1>6 DEF p

LEMMA EmptyArchive == IsArchive(<<>>)
<1>1. <<>> \in Seq(Turns)
  OBVIOUS
<1> QED
  BY <1>1, LoopEmpty DEF IsArchive

LEMMA ArchiveOfIsArchive ==
  ASSUME ArchiveInv, NEW c
  PROVE  IsArchive(ArchiveOf(c))
BY EmptyArchive DEF ArchiveInv, ArchiveOf

(* A process that starts with an archive archives what it was given.       *)
LEMMA ArchiveComesBack ==
  ASSUME NEW m, IsArchive(m)
  PROVE  MessagesToTurns(m) \in Seq(Turns) /\ Archive(MessagesToTurns(m)) = m
<1> DEFINE X == Seq(Tokens)
           C == Tokens \cup {NoCall}
<1>1. PICK t \in Seq(Turns) : m = LoopMessages(t)
  BY DEF IsArchive
<1>2. t \in Seq(TurnsOver(X, C)) /\ <<>> \in X /\ NoCall \in C
  BY TurnsAreOver
<1> HIDE DEF X, C
<1>3. Reloaded(t) \in Seq(TurnsOver(X, C)) /\ persistableConvTurns(Reloaded(t)) = Reloaded(t)
  BY <1>2, ReloadedIsPersistable
<1>4. ReloadIsFixed(t)
  BY <1>2, ReloadFixed
<1>5. Reloaded(t) \in Seq(Turns)
  BY <1>3, TurnsAreOver DEF X, C
<1>6. Archive(Reloaded(t)) = LoopMessages(Reloaded(t))
  BY <1>3, <1>5, ArchiveIsLoop
<1> QED
  BY <1>1, <1>4, <1>5, <1>6 DEF ReloadIsFixed, Reloaded

-----------------------------------------------------------------------------
(* The run loop's invariant is kept by every step of the process.          *)
LEMMA DiesAreDead == RInv /\ Dies => Dead' /\ proc' = "down"
<1> SUFFICES ASSUME RInv, Dies PROVE Dead' /\ proc' = "down"
  OBVIOUS
<1>1. asked \in 0..MaxRuns
  BY DEF RInv, IInv, TypeOK
<1>2. Die
  BY DEF Dies, Crash, ExitSavesSession
<1> QED
  BY <1>1, <1>2 DEF Die, Dead

(* What a started process shows.                                           *)
LEMMA BootedView ==
  ASSUME ArchiveInv, NEW c \in Convs, Boot(c)
  PROVE  /\ ViewOK'
         /\ \/ view'.turns = MessagesToTurns(ArchiveOf(c))
            \/ view'.turns = <<NoteTurn("error")>>
<1> DEFINE m == ArchiveOf(c)
           t == MessagesToTurns(m)
           n == <<NoteTurn("error")>>
<1>1. t \in Seq(Turns)
  BY ArchiveOfIsArchive, ArchiveComesBack
<1>2. n \in Seq(Turns)
  BY TurnTypes
<1>3. view' = [turns |-> t, pending |-> <<>>, pendingReasoning |-> <<>>]
        \/ view' = [turns |-> n, pending |-> <<>>, pendingReasoning |-> <<>>]
  BY DEF Boot, LoadedView, UnloadedView, EmptyView, View
<1>4. <<>> \in Seq(Tokens)
  OBVIOUS
<1> HIDE DEF t, n
<1>5. ASSUME NEW u \in Seq(Turns)
      PROVE  [turns |-> u, pending |-> <<>>, pendingReasoning |-> <<>>] \in Views
  BY <1>4 DEF Views
<1>7. view' \in Views
  BY <1>1, <1>2, <1>3, <1>5
<1>6. view'.turns = t \/ view'.turns = n
  BY <1>3
<1> QED
  BY <1>6, <1>7 DEF ViewOK, t, n, m

LEMMA RunLoopKept == RInv /\ ArchiveInv /\ [TuiNext]_tuiVars => RInv'
<1> SUFFICES ASSUME RInv, ArchiveInv, [TuiNext]_tuiVars PROVE RInv'
  OBVIOUS
<1>1. CASE Starts
  <2> PICK c \in Convs : Boot(c)
    BY <1>1 DEF Starts
  <2>1. ViewOK'
    BY BootedView
  <2>2. UNCHANGED <<busy, runID, editing, asked, busVars, gor>>
    BY DEF Boot
  <2> QED
    BY <2>1, <2>2, NewViewIsFine
<1>2. CASE Dies
  <2>1. Dead'
    BY <1>2, DiesAreDead
  <2>2. Dead' => RInv'
    BY DeadIsFine, PTL
  <2> QED
    BY <2>1, <2>2
<1>3. CASE Rests \/ Commands \/ Ends \/ Goes
  <2>1. [Next]_vars
    BY <1>3, CommandsAreNext, EndsAreNext, GoesAreNext DEF Rests
  <2> QED
    BY <2>1, NextRInv
<1> QED
  BY <1>1, <1>2, <1>3, TuiSteps

(* The process, its conversation and the names of the archives.            *)
LEMMA SaveNames ==
  ASSUME ProcInv, NEW t, Save(t), proc # "down"
  PROVE  DOMAIN convFile' \subseteq Convs /\ DOMAIN convFile' = DOMAIN convFile \cup {convID}
BY DEF ProcInv, Save

LEMMA ProcKept == ProcInv /\ PumpDiscipline /\ [TuiNext]_tuiVars => ProcInv'
<1> SUFFICES ASSUME ProcInv, PumpDiscipline, [TuiNext]_tuiVars PROVE ProcInv'
  OBVIOUS
<1>1. CASE Starts
  <2> PICK c \in Convs : Boot(c)
    BY <1>1 DEF Starts
  <2>1. boots' \in 0..MaxBoots
    BY TuiAssumption DEF Boot, ProcInv
  <2>2. convID' = c /\ c # NoConv /\ proc' = "up" /\ saveFailed' = FALSE /\ convFile' = convFile
    BY TuiAssumption DEF Boot, diskVars
  <2> QED
    BY <2>1, <2>2 DEF ProcInv
<1>2. CASE Dies
  <2>1. Die
    BY <1>2 DEF Dies, Crash, ExitSavesSession
  <2>2. boots' = boots /\ convID' = NoConv /\ saveFailed' = FALSE /\ proc' = "down" /\ busy' = FALSE
    BY <2>1 DEF Die
  <2>3. DOMAIN convFile' \subseteq Convs
    <3>1. CASE convFile' = convFile
      BY <3>1 DEF ProcInv
    <3>2. CASE ExitSavesConversation
      BY <3>1, <3>2, SaveNames DEF ExitSavesConversation, SaveFails
    <3> QED
      BY <1>2, <3>1, <3>2 DEF Dies, Crash, ExitSavesSession, diskVars
  <2> QED
    BY <2>2, <2>3 DEF ProcInv
<1>3. CASE Rests
  <2>1. CASE Quit
    BY <2>1 DEF Quit, ProcInv, vars, diskVars
  <2>2. CASE ExitSavesConversation
    <3>1. CASE Save(view.turns) /\ proc' = "saved"
                /\ UNCHANGED <<vars, boots, convID, saveFailed, session, sessFile>>
      <4>1. DOMAIN convFile' \subseteq Convs
        BY <2>2, <3>1, SaveNames DEF ExitSavesConversation
      <4> QED
        BY <2>2, <3>1, <4>1 DEF ExitSavesConversation, ProcInv, vars
    <3>2. CASE SaveFails /\ Die
      BY <3>2 DEF SaveFails, Die, ProcInv
    <3> QED
      BY <2>2, <3>1, <3>2 DEF ExitSavesConversation
  <2>3. CASE UNCHANGED tuiVars
    BY <2>3 DEF ProcInv, tuiVars, procVars, diskVars, vars
  <2> QED
    BY <1>3, <2>1, <2>2, <2>3 DEF Rests
<1>4. CASE Commands
  <2>1. CASE Reload
    BY <2>1 DEF Reload, ProcInv, diskVars
  <2>2. ASSUME NEW c \in Convs, StartNewConversation(c) PROVE ProcInv'
    BY <2>2, TuiAssumption DEF StartNewConversation, ProcInv, diskVars
  <2> QED
    BY <1>4, <2>1, <2>2 DEF Commands
<1>5. CASE Ends
  <2> PICK i \in 1..Len(inbox) : EndRunAndSave(i)
    BY <1>5 DEF Ends
  <2>1. /\ proc = "up" /\ UNCHANGED <<proc, boots, convID>> /\ saveFailed' \in BOOLEAN
        /\ Save(view'.turns) \/ UNCHANGED convFile
    BY DEF EndRunAndSave, SaveFails
  <2>2. DOMAIN convFile' \subseteq Convs
    <3>1. CASE Save(view'.turns)
      BY <2>1, <3>1, SaveNames
    <3>2. CASE UNCHANGED convFile
      BY <3>2 DEF ProcInv
    <3> QED
      BY <2>1, <3>1, <3>2
  <2> QED
    BY <2>1, <2>2 DEF ProcInv
<1>6. CASE Goes
  BY <1>6 DEF Goes, ProcInv, procVars, diskVars
<1> QED
  BY <1>1, <1>2, <1>3, <1>4, <1>5, <1>6, TuiSteps

(* The session file.                                                       *)
LEMMA FileKept == FileInv /\ [TuiNext]_tuiVars => FileInv'
<1> SUFFICES ASSUME FileInv, [TuiNext]_tuiVars PROVE FileInv'
  OBVIOUS
<1>1. CASE Starts
  BY <1>1 DEF Starts, Boot, LoadedSession, FileInv, diskVars
<1>2. CASE Dies
  BY <1>2 DEF Dies, Die, Crash, ExitSavesSession, FileInv
<1>3. CASE Rests
  <2>1. CASE Quit \/ UNCHANGED tuiVars
    BY <2>1 DEF Quit, FileInv, tuiVars, procVars, diskVars
  <2>2. CASE ExitSavesConversation
    BY <2>2 DEF ExitSavesConversation, FileInv, Die
  <2> QED
    BY <1>3, <2>1, <2>2 DEF Rests
<1>4. CASE Commands
  BY <1>4 DEF Commands, Reload, StartNewConversation, FileInv, diskVars
<1>5. CASE Ends
  BY <1>5 DEF Ends, EndRunAndSave, FileInv
<1>6. CASE Goes
  BY <1>6 DEF Goes, FileInv, procVars, diskVars
<1> QED
  BY <1>1, <1>2, <1>3, <1>4, <1>5, <1>6, TuiSteps

(* Only a process that exits writes the file, and it adds to it.           *)
LEMMA FileGrows == FileInv /\ [TuiNext]_tuiVars => [sessFile \subseteq sessFile']_sessFile
<1> SUFFICES ASSUME FileInv, [TuiNext]_tuiVars PROVE [sessFile \subseteq sessFile']_sessFile
  OBVIOUS
<1>1. CASE ExitSavesSession
  <2>1. proc = "saved" /\ (sessFile' = session \/ sessFile' = sessFile)
    BY <1>1 DEF ExitSavesSession
  <2> QED
    BY <2>1 DEF FileInv
<1>2. CASE ~ExitSavesSession
  <2>1. sessFile' = sessFile
    <3>1. CASE Starts
      BY <3>1 DEF Starts, Boot, diskVars
    <3>2. CASE Dies
      BY <1>2, <3>2 DEF Dies, Crash, ExitSavesConversation, diskVars
    <3>3. CASE Rests
      BY <3>3 DEF Rests, Quit, ExitSavesConversation, tuiVars, diskVars
    <3>4. CASE Commands \/ Ends \/ Goes
      BY <3>4 DEF Commands, Reload, StartNewConversation, Ends, EndRunAndSave, Goes, diskVars
    <3> QED
      BY <3>1, <3>2, <3>3, <3>4, TuiSteps
  <2> QED
    BY <2>1
<1> QED
  BY <1>1, <1>2

-----------------------------------------------------------------------------
(* The values in the session are those of prompts.                         *)
LEMMA SafeConcat ==
  ASSUME NEW d, NEW s \in Seq(SafeMsgs(d)), NEW t \in Seq(SafeMsgs(d))
  PROVE  s \o t \in Seq(SafeMsgs(d))
BY ConcatProperties

LEMMA NoRunPrompts ==
  ASSUME NEW r, NEW d
  PROVE  /\ NoRun.owed \in [Agents -> BodiesOf(r + d)]
         /\ GorPrompts(NoRun, r, d)
         /\ GorPrompts([NoRun EXCEPT !.pc = "ended"], r, d)
<1>1. <<>> \in BodiesOf(r + d)
  BY DEF BodiesOf
<1>2. NoRun.owed \in [Agents -> BodiesOf(r + d)]
  BY <1>1 DEF NoRun
<1>3. <<>> \in Seq(SafeMsgs(d)) /\ {} \subseteq Prompts
  OBVIOUS
<1>4. NoRun.pc = "idle" /\ NoRun.snap = {} /\ NoRun.out = <<>>
  BY DEF NoRun
<1> DEFINE e == [NoRun EXCEPT !.pc = "ended"]
<1>5. e.pc = "ended" /\ e.snap = {} /\ e.out = <<>> /\ e.owed = NoRun.owed
  BY DEF NoRun
<1> HIDE DEF e
<1>6. GorPrompts(NoRun, r, d)
  BY <1>2, <1>3, <1>4 DEF GorPrompts
<1>7. GorPrompts(e, r, d)
  BY <1>2, <1>3, <1>5 DEF GorPrompts
<1> QED
  BY <1>2, <1>6, <1>7 DEF e

(* The steps of one goroutine.                                             *)
LEMMA GorStep ==
  ASSUME IInv, BusPrompts, NEW r \in Runs, NEW g, gor' = [gor EXCEPT ![r] = g], GorPrompts(g, r, Before),
         UNCHANGED busVars, Before' = Before
  PROVE  BusPrompts'
<1>1. gor'[r] = g /\ \A q \in Runs \ {r} : gor'[q] = gor[q]
  BY DEF IInv, TypeOK
<1> QED
  BY <1>1 DEF BusPrompts, busVars

LEMMA GorSends ==
  ASSUME IInv, BusPrompts, NEW r \in Runs, NEW g, g \in Goroutines,
         g.prompt = gor[r].prompt, g.snap = gor[r].snap,
         g.owed \in [Agents -> BodiesOf(r + Before)],
         gor[r].pc \notin {"idle", "ended"}, Before' = Before,
         NEW msgs \in Seq(SafeMsgs(Before)), NEW resume, SendThen(r, g, msgs, resume), UNCHANGED busVars
  PROVE  BusPrompts'
<1> DEFINE h == [g EXCEPT !.pc = "send", !.out = msgs, !.resume = resume]
<1>1. /\ h.prompt = gor[r].prompt /\ h.snap = gor[r].snap /\ h.out = msgs /\ h.owed = g.owed
  BY DEF Goroutines
<1>2. GorPrompts(gor[r], r, Before)
  BY DEF BusPrompts
<1>3. gor' = [gor EXCEPT ![r] = h]
  BY DEF SendThen
<1> HIDE DEF h
<1>4. GorPrompts(h, r, Before)
  BY <1>1, <1>2 DEF GorPrompts
<1> QED
  BY <1>3, <1>4, GorStep

LEMMA MessageIsSafe ==
  ASSUME NEW r \in Nat, NEW d, NEW kind \in {"reasoning", "text", "calls", "result"},
         NEW body \in BodiesOf(r + d)
  PROVE  StreamMsg(r, kind, body) \in SafeMsgs(d)
<1>1. body \in Seq(Tokens)
  BY DEF BodiesOf, TokensOf
<1> QED
  BY <1>1 DEF StreamMsg, StreamMsgs, SafeMsgs

LEMMA EndIsSafe ==
  ASSUME NEW r \in Nat, NEW d, NEW snap \in SUBSET Nat, snap \subseteq Prompts
  PROVE  /\ ErrMsg(r, snap) \in SafeMsgs(d)
         /\ \A cancelled \in BOOLEAN : DoneMsg(r, cancelled, snap) \in SafeMsgs(d)
<1>1. <<>> \in Seq(Tokens) /\ <<>> \in BodiesOf(r + d)
  BY DEF BodiesOf
<1> QED
  BY <1>1 DEF ErrMsg, DoneMsg, StreamMsgs, SafeMsgs

(* Output of the agent is of its run and carries no session.               *)
LEMMA OutputIsSafe ==
  ASSUME IInv, BusPrompts, NEW r \in Runs, gor[r].pc \notin {"idle", "ended"},
         NEW c \in 0..MaxCalls
  PROVE  /\ ReasoningMsgs(r) \in Seq(SafeMsgs(Before)) /\ TextMsgs(r) \in Seq(SafeMsgs(Before))
         /\ CallTokens(r, c) \in BodiesOf(r + Before)
         /\ <<StreamMsg(r, "calls", CallTokens(r, c))>> \in Seq(SafeMsgs(Before))
<1>1. gor[r] \in Goroutines /\ r \in Nat /\ c \in Nat
  BY ConstantsAssumption DEF IInv, TypeOK, Runs
<1>2. \A part \in Nat : Token(r, part) \in TokensOf(r + Before)
  <2>1. gor[r].prompt = r + Before /\ gor[r].prompt \in Nat /\ gor[r].n + 1 \in Nat
    BY <1>1, ConstantsAssumption DEF BusPrompts, GorPrompts, Goroutines
  <2> QED
    BY <2>1 DEF Token, Tokens, TokensOf
<1>3. CallTokens(r, c) \in BodiesOf(r + Before)
  <2>1. \A k \in 1..c : k + 1 \in Nat
    BY <1>1
  <2> QED
    BY <1>1, <1>2, <2>1 DEF CallTokens, BodiesOf
<1>4. <<Token(r, 0)>> \in BodiesOf(r + Before) /\ <<Token(r, 1)>> \in BodiesOf(r + Before)
  BY <1>2 DEF BodiesOf
<1>5. \A kind \in {"reasoning", "text", "calls", "result"}, body \in BodiesOf(r + Before) :
        StreamMsg(r, kind, body) \in SafeMsgs(Before)
  BY <1>1, MessageIsSafe
<1> QED
  BY <1>3, <1>4, <1>5 DEF ReasoningMsgs, TextMsgs

LEMMA AgentKeepsPrompts ==
  ASSUME IInv, BusPrompts, NEW r \in Runs, AgentStep(r)
  PROVE  BusPrompts'
<1>0. /\ gor[r] \in Goroutines /\ gor[r].n + 1 \in Nat /\ gor[r].agent \in Agents
      /\ GorPrompts(gor[r], r, Before) /\ gor[r].owed \in [Agents -> BodiesOf(r + Before)]
      /\ r \in Nat
  <2>1. gor[r] \in Goroutines /\ GorPrompts(gor[r], r, Before) /\ r \in Nat
    BY ConstantsAssumption DEF IInv, TypeOK, BusPrompts, Runs
  <2> QED
    BY <2>1 DEF Goroutines, GorPrompts
<1>1. UNCHANGED busVars /\ Before' = Before
  BY DEF AgentStep, RunStops, RunFails, StreamChunk, StreamEnds, WholeMessage, StreamBegins,
         ToolResult, uiVars, Before
<1>2. gor[r].pc \in {"next", "recv"}
  BY DEF AgentStep, RunStops, RunFails, StreamChunk, StreamEnds, WholeMessage, StreamBegins,
         ToolResult
<1>3. \A pc \in PCs, a \in Agents : GorPrompts([gor[r] EXCEPT !.pc = pc, !.agent = a], r, Before)
  BY <1>0, <1>2 DEF GorPrompts, Goroutines
<1>4. \A pc \in PCs : Advance(r, pc) => BusPrompts'
  <2> SUFFICES ASSUME NEW pc \in PCs, Advance(r, pc) PROVE BusPrompts'
    OBVIOUS
  <2> DEFINE g == [gor[r] EXCEPT !.pc = pc]
  <2>1. GorPrompts(g, r, Before)
    BY <1>0, <1>2 DEF GorPrompts, Goroutines
  <2>2. gor' = [gor EXCEPT ![r] = g]
    BY DEF Advance
  <2> HIDE DEF g
  <2> QED
    BY <1>1, <2>1, <2>2, GorStep
<1>5. CASE RunStops(r)
  BY <1>4, <1>5 DEF RunStops, PCs
<1>6. CASE RunFails(r)
  <2> DEFINE m == ErrMsg(r, gor[r].snap)
             msgs == <<m>>
             g == gor[r]
  <2>1. m \in SafeMsgs(Before)
    <3>1. gor[r].snap \subseteq Prompts /\ gor[r].snap \in SUBSET Nat
      BY <1>0 DEF GorPrompts, Goroutines
    <3> QED
      BY <1>0, <3>1, EndIsSafe
  <2>2. SendThen(r, g, msgs, "deferred")
    BY <1>6 DEF RunFails
  <2> HIDE DEF m
  <2>3. msgs \in Seq(SafeMsgs(Before))
    BY <2>1
  <2> HIDE DEF msgs
  <2>4. /\ g \in Goroutines /\ g.prompt = gor[r].prompt /\ g.snap = gor[r].snap
        /\ g.owed \in [Agents -> BodiesOf(r + Before)]
    BY <1>0
  <2> QED
    BY <1>1, <1>2, <2>2, <2>3, <2>4, GorSends
<1>7. CASE StreamChunk(r)
  <2>1. PICK reasoning \in BOOLEAN, text \in BOOLEAN :
          SendThen(r, [gor[r] EXCEPT !.n = @ + 1],
                   (IF reasoning THEN ReasoningMsgs(r) ELSE <<>>)
                   \o (IF text THEN TextMsgs(r) ELSE <<>>), "stream")
    BY <1>7 DEF StreamChunk
  <2> DEFINE g  == [gor[r] EXCEPT !.n = @ + 1]
             s1 == IF reasoning THEN ReasoningMsgs(r) ELSE <<>>
             s2 == IF text THEN TextMsgs(r) ELSE <<>>
  <2>2. /\ g \in Goroutines /\ g.prompt = gor[r].prompt /\ g.snap = gor[r].snap
        /\ g.owed \in [Agents -> BodiesOf(r + Before)]
    BY <1>0 DEF Goroutines
  <2>3. s1 \in Seq(SafeMsgs(Before)) /\ s2 \in Seq(SafeMsgs(Before))
    <3>1. 0 \in 0..MaxCalls /\ <<>> \in Seq(SafeMsgs(Before))
      BY ConstantsAssumption
    <3> QED
      BY <1>2, <3>1, OutputIsSafe
  <2>4. SendThen(r, g, s1 \o s2, "stream")
    BY <2>1
  <2> HIDE DEF g, s1, s2
  <2>5. s1 \o s2 \in Seq(SafeMsgs(Before))
    BY <2>3, SafeConcat
  <2> QED
    BY <1>1, <1>2, <2>2, <2>4, <2>5, GorSends
<1>8. CASE StreamEnds(r)
  <2>1. CASE Advance(r, "loop")
    BY <1>4, <2>1 DEF PCs
  <2>2. CASE ~Advance(r, "loop")
    <3>1. PICK c \in 1..MaxCalls :
            SendThen(r, [gor[r] EXCEPT !.n = @ + 1, !.owed[gor[r].agent] = CallTokens(r, c)],
                     <<StreamMsg(r, "calls", CallTokens(r, c))>>, "loop")
      BY <1>8, <2>2 DEF StreamEnds
    <3> DEFINE g    == [gor[r] EXCEPT !.n = @ + 1, !.owed[gor[r].agent] = CallTokens(r, c)]
               msgs == <<StreamMsg(r, "calls", CallTokens(r, c))>>
    <3>2. c \in 0..MaxCalls
      OBVIOUS
    <3>3. /\ msgs \in Seq(SafeMsgs(Before)) /\ CallTokens(r, c) \in Seq(Tokens)
          /\ CallTokens(r, c) \in BodiesOf(r + Before)
      BY <1>2, <3>2, OutputIsSafe, OutputTypes
    <3>4. /\ g \in Goroutines /\ g.prompt = gor[r].prompt /\ g.snap = gor[r].snap
          /\ g.owed \in [Agents -> BodiesOf(r + Before)]
      BY <1>0, <3>3 DEF Goroutines
    <3>5. SendThen(r, g, msgs, "loop")
      BY <3>1
    <3> HIDE DEF g, msgs
    <3> QED
      BY <1>1, <1>2, <3>3, <3>4, <3>5, GorSends
  <2> QED
    BY <2>1, <2>2
<1>9. ASSUME NEW a \in Agents, WholeMessage(r, a) PROVE BusPrompts'
  <2>1. PICK reasoning \in BOOLEAN, text \in BOOLEAN, c \in 0..MaxCalls :
          SendThen(r, [gor[r] EXCEPT !.n = @ + 1, !.owed[a] = CallTokens(r, c)],
                      (IF reasoning THEN ReasoningMsgs(r) ELSE <<>>)
                      \o (IF text THEN TextMsgs(r) ELSE <<>>)
                      \o (IF c > 0 THEN <<StreamMsg(r, "calls", CallTokens(r, c))>> ELSE <<>>),
                      "loop")
    BY <1>9 DEF WholeMessage
  <2> DEFINE g  == [gor[r] EXCEPT !.n = @ + 1, !.owed[a] = CallTokens(r, c)]
             s1 == IF reasoning THEN ReasoningMsgs(r) ELSE <<>>
             s2 == IF text THEN TextMsgs(r) ELSE <<>>
             s3 == IF c > 0 THEN <<StreamMsg(r, "calls", CallTokens(r, c))>> ELSE <<>>
  <2>2. /\ g \in Goroutines /\ g.prompt = gor[r].prompt /\ g.snap = gor[r].snap
        /\ g.owed \in [Agents -> BodiesOf(r + Before)]
    <3>1. CallTokens(r, c) \in Seq(Tokens) /\ CallTokens(r, c) \in BodiesOf(r + Before)
      BY <1>2, OutputTypes, OutputIsSafe
    <3> QED
      BY <1>0, <3>1 DEF Goroutines
  <2>3. s1 \in Seq(SafeMsgs(Before)) /\ s2 \in Seq(SafeMsgs(Before)) /\ s3 \in Seq(SafeMsgs(Before))
    <3>1. <<>> \in Seq(SafeMsgs(Before))
      OBVIOUS
    <3> QED
      BY <1>2, <3>1, OutputIsSafe
  <2>4. SendThen(r, g, s1 \o s2 \o s3, "loop")
    BY <2>1
  <2> HIDE DEF g, s1, s2, s3
  <2>5. s1 \o s2 \in Seq(SafeMsgs(Before))
    BY <2>3, SafeConcat
  <2>6. s1 \o s2 \o s3 \in Seq(SafeMsgs(Before))
    BY <2>3, <2>5, SafeConcat
  <2> QED
    BY <1>1, <1>2, <2>2, <2>4, <2>6, GorSends
<1>10. ASSUME NEW a \in Agents, StreamBegins(r, a) PROVE BusPrompts'
  <2> DEFINE g == [gor[r] EXCEPT !.pc = "stream", !.agent = a]
  <2>1. GorPrompts(g, r, Before)
    BY <1>3 DEF PCs
  <2>2. gor' = [gor EXCEPT ![r] = g]
    BY <1>10 DEF StreamBegins
  <2> HIDE DEF g
  <2> QED
    BY <1>1, <2>1, <2>2, GorStep
<1>11. ASSUME NEW a \in Agents, ToolResult(r, a) PROVE BusPrompts'
  <2>1. PICK k \in 1..Len(gor[r].owed[a]) :
          LET g == [gor[r] EXCEPT !.owed[a] = RemoveAt(@, k)]
          IN  /\ g \in Goroutines
              /\ \/ \E text \in {<<gor[r].owed[a][k]>>, <<>>} :
                      /\ text \in Seq(Tokens)
                      /\ SendThen(r, g, <<StreamMsg(r, "result", text)>>, "loop")
                 \/ gor' = [gor EXCEPT ![r] = [g EXCEPT !.pc = "loop"]]
    BY <1>0, <1>11, ToolResultCases
  <2> DEFINE T == TokensOf(r + Before)
             q == gor[r].owed[a]
             g == [gor[r] EXCEPT !.owed[a] = RemoveAt(@, k)]
  <2>2. q \in Seq(T) /\ k \in 1..Len(q)
    BY <1>0 DEF BodiesOf
  <2>3. RemoveAt(q, k) \in Seq(T) /\ <<q[k]>> \in Seq(T) /\ <<>> \in Seq(T)
    <3> HIDE DEF q, T
    <3> QED
      BY <2>2, RemoveAtType, ElementOfSeq
  <2>4. /\ g \in Goroutines /\ g.prompt = gor[r].prompt /\ g.snap = gor[r].snap
        /\ g.out = gor[r].out /\ g.owed \in [Agents -> BodiesOf(r + Before)]
    BY <1>0, <2>1, <2>3 DEF Goroutines, BodiesOf
  <2>5. ASSUME NEW text \in Seq(T), SendThen(r, g, <<StreamMsg(r, "result", text)>>, "loop")
        PROVE  BusPrompts'
    <3> DEFINE m == StreamMsg(r, "result", text)
               msgs == <<m>>
    <3>1. m \in SafeMsgs(Before)
      BY <1>0, MessageIsSafe DEF BodiesOf
    <3>2. SendThen(r, g, msgs, "loop")
      BY <2>5
    <3> HIDE DEF g, m, T, q
    <3>3. msgs \in Seq(SafeMsgs(Before))
      BY <3>1
    <3> HIDE DEF msgs
    <3> QED
      BY <1>1, <1>2, <2>4, <3>2, <3>3, GorSends
  <2>6. CASE gor' = [gor EXCEPT ![r] = [g EXCEPT !.pc = "loop"]]
    <3> DEFINE h == [g EXCEPT !.pc = "loop"]
    <3>1. gor' = [gor EXCEPT ![r] = h]
      BY <2>6
    <3> HIDE DEF g
    <3>2. /\ h.prompt = gor[r].prompt /\ h.snap = gor[r].snap /\ h.out = gor[r].out
          /\ h.owed \in [Agents -> BodiesOf(r + Before)]
      BY <2>4 DEF Goroutines
    <3> HIDE DEF h
    <3>3. GorPrompts(h, r, Before)
      BY <1>0, <1>2, <3>2 DEF GorPrompts
    <3> QED
      BY <1>1, <3>1, <3>3, GorStep
  <2>7. \/ \E text \in Seq(T) : SendThen(r, g, <<StreamMsg(r, "result", text)>>, "loop")
        \/ gor' = [gor EXCEPT ![r] = [g EXCEPT !.pc = "loop"]]
    BY <2>1, <2>3
  <2> QED
    BY <2>5, <2>6, <2>7
<1> QED
  BY <1>5, <1>6, <1>7, <1>8, <1>9, <1>10, <1>11 DEF AgentStep

LEMMA GoroutineKeepsPrompts ==
  ASSUME IInv, BusPrompts, NEW r \in Runs, Goroutine(r) \/ CaptureSession(r)
  PROVE  BusPrompts'
<1>0. /\ gor[r] \in Goroutines /\ GorPrompts(gor[r], r, Before) /\ r \in Nat
      /\ gor[r].owed \in [Agents -> BodiesOf(r + Before)]
  BY ConstantsAssumption DEF IInv, TypeOK, BusPrompts, Runs, GorPrompts
<1>9. Before' = Before
  BY DEF Goroutine, CheckContext, Deferred, Send, CaptureSession, uiVars, Before
<1>1. CASE CheckContext(r)
  <2> DEFINE pc == IF gor[r].cancelled THEN "deferred"
                   ELSE IF gor[r].pc = "loop" THEN "next" ELSE "recv"
             g == [gor[r] EXCEPT !.pc = pc]
  <2>1. gor[r].pc \in {"loop", "stream"} /\ gor' = [gor EXCEPT ![r] = g] /\ UNCHANGED busVars
    BY <1>1 DEF CheckContext, Advance
  <2>2. GorPrompts(g, r, Before)
    BY <1>0, <2>1 DEF GorPrompts, Goroutines
  <2> HIDE DEF g
  <2> QED
    BY <1>9, <2>1, <2>2, GorStep
<1>2. CASE Deferred(r)
  <2> DEFINE m == DoneMsg(r, gor[r].cancelled, gor[r].snap)
             msgs == <<m>>
             g == gor[r]
  <2>1. m \in SafeMsgs(Before)
    <3>1. gor[r].snap \subseteq Prompts /\ gor[r].snap \in SUBSET Nat /\ gor[r].cancelled \in BOOLEAN
      BY <1>0 DEF GorPrompts, Goroutines
    <3> QED
      BY <1>0, <3>1, EndIsSafe
  <2>2. SendThen(r, g, msgs, "ended") /\ gor[r].pc \notin {"idle", "ended"} /\ UNCHANGED busVars
    BY <1>2 DEF Deferred
  <2> HIDE DEF m
  <2>3. msgs \in Seq(SafeMsgs(Before))
    BY <2>1
  <2> HIDE DEF msgs
  <2>4. /\ g \in Goroutines /\ g.prompt = gor[r].prompt /\ g.snap = gor[r].snap
        /\ g.owed \in [Agents -> BodiesOf(r + Before)]
    BY <1>0
  <2> QED
    BY <1>9, <2>2, <2>3, <2>4, GorSends
<1>3. CASE Send(r)
  <2> DEFINE g == gor[r]
             h == AfterSend(g)
  <2>1. g.pc = "send" /\ g.out \in Seq(SafeMsgs(Before)) /\ g.out # <<>>
    BY <1>0, <1>3 DEF Send, GorPrompts, IInv, SendingInv, SendsWell
  <2>2. Head(g.out) \in SafeMsgs(Before) /\ Tail(g.out) \in Seq(SafeMsgs(Before))
    <3> HIDE DEF g
    <3> QED
      BY <2>1, HeadTailProperties
  <2>3. GorPrompts(h, r, Before)
    <3>1. CASE Len(g.out) > 1
      <4>1. h = [g EXCEPT !.out = Tail(g.out)]
        BY <3>1 DEF AfterSend
      <4> QED
        BY <1>0, <2>1, <2>2, <4>1 DEF GorPrompts, Goroutines
    <3>2. CASE ~(Len(g.out) > 1) /\ g.resume = "ended"
      <4>1. h = [NoRun EXCEPT !.pc = "ended"]
        BY <3>2 DEF AfterSend
      <4> HIDE DEF h
      <4> QED
        BY <4>1, NoRunPrompts
    <3>3. CASE ~(Len(g.out) > 1) /\ g.resume # "ended"
      <4>1. h = [g EXCEPT !.out = <<>>, !.pc = g.resume, !.resume = "idle"]
        BY <3>3 DEF AfterSend
      <4>2. h.prompt = g.prompt /\ h.snap = g.snap /\ h.out = <<>> /\ h.owed = g.owed
        BY <1>0, <4>1 DEF Goroutines
      <4> HIDE DEF h
      <4>3. <<>> \in Seq(SafeMsgs(Before))
        OBVIOUS
      <4> QED
        BY <1>0, <2>1, <4>2, <4>3 DEF GorPrompts
    <3> QED
      BY <3>1, <3>2, <3>3
  <2>4. ch' = Append(ch, Head(g.out)) /\ inbox' = inbox /\ gor' = [gor EXCEPT ![r] = h]
    BY <1>3 DEF Send
  <2> HIDE DEF h, g
  <2>5. ch' \in Seq(SafeMsgs(Before)) /\ inbox' \in Seq(SafeMsgs(Before))
    BY <2>2, <2>4, AppendProperties DEF BusPrompts
  <2>6. gor'[r] = h /\ \A q \in Runs \ {r} : gor'[q] = gor[q]
    BY <2>4 DEF IInv, TypeOK
  <2> QED
    BY <1>9, <2>3, <2>5, <2>6 DEF BusPrompts
<1>4. CASE CaptureSession(r)
  <2> DEFINE g == [gor[r] EXCEPT !.snap = {gor[r].prompt}]
  <2>1. gor[r].pc \in {"next", "recv"} /\ gor' = [gor EXCEPT ![r] = g] /\ UNCHANGED busVars
    BY <1>4 DEF CaptureSession
  <2>2. GorPrompts(g, r, Before)
    BY <1>0, <2>1 DEF GorPrompts, Goroutines
  <2> HIDE DEF g
  <2> QED
    BY <1>9, <2>1, <2>2, GorStep
<1> QED
  BY <1>1, <1>2, <1>3, <1>4 DEF Goroutine

(* The steps of the event loop and the pump.                               *)
LEMMA LoopKeepsPrompts ==
  ASSUME IInv, BusPrompts,
         UserStep \/ Pump \/ Deliver \/ UNCHANGED vars
  PROVE  BusPrompts'
<1>0. gor \in [Runs -> Goroutines] /\ ch \in Seq(SafeMsgs(Before)) /\ inbox \in Seq(SafeMsgs(Before))
      /\ \A r \in Runs : GorPrompts(gor[r], r, Before)
  BY DEF IInv, TypeOK, BusPrompts
<1>9. Before' = Before
  <2>1. CASE StartRun
    <3>1. asked' = asked + 1 /\ runID' = runID + 1
      BY <2>1 DEF StartRun
    <3>2. asked \in Nat /\ runID \in Nat
      BY ConstantsAssumption DEF IInv, TypeOK
    <3> QED
      BY <3>1, <3>2 DEF Before
  <2>2. CASE CancelRun \/ NewTranscript \/ OpenEditor \/ CloseEditor \/ CloseEditorNoting \/ LeaveNote
    BY <2>2 DEF CancelRun, NewTranscript, OpenEditor, CloseEditor, CloseEditorNoting, LeaveNote, uiVars, Before
  <2>3. CASE Pump \/ Deliver \/ UNCHANGED vars
    BY <2>3 DEF Pump, Deliver, DropMessage, ShowMessage, EndRun, vars, uiVars, Before
  <2> QED
    BY <2>1, <2>2, <2>3 DEF UserStep
<1>1. CASE StartRun
  <2> DEFINE r == runID + 1
             g == [NoRun EXCEPT !.pc = "loop", !.prompt = asked + 1]
  <2>1. gor' = [gor EXCEPT ![r] = g] /\ UNCHANGED <<ch, inbox>> /\ asked < MaxRuns
    BY <1>1 DEF StartRun
  <2>2. asked + 1 \in Prompts /\ asked + 1 = r + Before
    BY <2>1, ConstantsAssumption DEF IInv, TypeOK, Prompts, Before
  <2>3. g.prompt = asked + 1 /\ g.snap = {} /\ g.out = <<>> /\ g.owed = NoRun.owed
    BY DEF NoRun
  <2>7. NoRun.owed \in [Agents -> BodiesOf(r + Before)]
    BY NoRunPrompts
  <2>4. <<>> \in Seq(SafeMsgs(Before))
    OBVIOUS
  <2> HIDE DEF g, r
  <2>5. GorPrompts(g, r, Before)
    BY <2>2, <2>3, <2>4, <2>7 DEF GorPrompts
  <2>6. \A q \in Runs : gor'[q] = (IF q = r THEN g ELSE gor[q])
    BY <1>0, <2>1
  <2> QED
    BY <1>0, <1>9, <2>1, <2>5, <2>6 DEF BusPrompts
<1>2. CASE CancelRun
  <2>1. gor' = [gor EXCEPT ![runID].cancelled = TRUE] /\ UNCHANGED busVars /\ busy
    BY <1>2 DEF CancelRun
  <2>2. runID \in Runs
    BY <2>1 DEF IInv, BusyRuns
  <2> DEFINE g == [gor[runID] EXCEPT !.cancelled = TRUE]
  <2>3. gor' = [gor EXCEPT ![runID] = g]
    BY <2>1
  <2>4. GorPrompts(g, runID, Before)
    BY <1>0, <2>2 DEF GorPrompts, Goroutines
  <2> HIDE DEF g
  <2> QED
    BY <1>9, <2>1, <2>2, <2>3, <2>4, GorStep
<1>3. CASE Pump
  <2>1. ch # <<>> /\ inbox' = Append(inbox, Head(ch)) /\ ch' = Tail(ch) /\ gor' = gor
    BY <1>3 DEF Pump
  <2>2. Head(ch) \in SafeMsgs(Before) /\ Tail(ch) \in Seq(SafeMsgs(Before))
    BY <1>0, <2>1, HeadTailProperties
  <2>3. inbox' \in Seq(SafeMsgs(Before))
    BY <1>0, <2>1, <2>2, AppendProperties
  <2> QED
    BY <1>0, <1>9, <2>1, <2>2, <2>3 DEF BusPrompts
<1>4. CASE Deliver
  <2> PICK i \in 1..Len(inbox) : DropMessage(i) \/ ShowMessage(i) \/ EndRun(i)
    BY <1>4 DEF Deliver
  <2>1. inbox' = RemoveAt(inbox, i) /\ UNCHANGED <<ch, gor>>
    BY DEF DropMessage, ShowMessage, EndRun
  <2>2. inbox' \in Seq(SafeMsgs(Before))
    BY <1>0, <2>1, RemoveAtType
  <2> QED
    BY <1>0, <1>9, <2>1, <2>2 DEF BusPrompts
<1>5. CASE LeaveNote \/ NewTranscript \/ OpenEditor \/ CloseEditor \/ CloseEditorNoting
           \/ UNCHANGED vars
  <2>1. UNCHANGED <<ch, inbox, gor>>
    BY <1>5 DEF LeaveNote, NewTranscript, OpenEditor, CloseEditor, CloseEditorNoting, busVars, vars
  <2> QED
    BY <1>0, <1>9, <2>1 DEF BusPrompts
<1> QED
  BY <1>1, <1>2, <1>3, <1>4, <1>5 DEF UserStep

LEMMA NextKeepsPrompts ==
  ASSUME IInv, BusPrompts, [Next]_vars
  PROVE  BusPrompts'
BY AgentKeepsPrompts, GoroutineKeepsPrompts, LoopKeepsPrompts DEF Next

LEMMA PromptKept == IInv /\ PromptInv /\ [TuiNext]_tuiVars => PromptInv'
<1> SUFFICES ASSUME IInv, PromptInv, [TuiNext]_tuiVars PROVE PromptInv'
  OBVIOUS
<1>0. BusPrompts /\ session \subseteq Prompts /\ sessFile \subseteq Prompts
  BY DEF PromptInv
<1>1. CASE Starts
  <2>1. UNCHANGED <<ch, inbox, gor>> /\ Before' = Before
    BY <1>1 DEF Starts, Boot, busVars, Before
  <2>2. session' = sessFile /\ sessFile' = sessFile
    BY <1>1 DEF Starts, Boot, LoadedSession, diskVars
  <2> QED
    BY <1>0, <2>1, <2>2 DEF PromptInv, BusPrompts
<1>2. CASE Dies
  <2>1. Die
    BY <1>2 DEF Dies, Crash, ExitSavesSession
  <2>2. ch' = <<>> /\ inbox' = <<>> /\ gor' = [r \in Runs |-> NoRun] /\ session' = {}
    BY <2>1 DEF Die
  <2>3. \A r \in Runs : GorPrompts(gor'[r], r, Before')
    BY <2>2, NoRunPrompts
  <2>4. <<>> \in Seq(SafeMsgs(Before'))
    OBVIOUS
  <2>5. BusPrompts'
    BY <2>2, <2>3, <2>4 DEF BusPrompts
  <2>6. sessFile' = sessFile \/ sessFile' = session
    BY <1>2 DEF Dies, Crash, ExitSavesConversation, ExitSavesSession, diskVars
  <2> QED
    BY <1>0, <2>2, <2>5, <2>6 DEF PromptInv
<1>3. CASE Rests \/ Commands \/ Goes
  <2>1. [Next]_vars
    BY <1>3, CommandsAreNext, GoesAreNext DEF Rests
  <2>2. BusPrompts'
    BY <1>0, <2>1, NextKeepsPrompts
  <2>3. (session' = session \/ session' = sessFile \/ session' = {}) /\ sessFile' = sessFile
    BY <1>3 DEF Rests, Quit, ExitSavesConversation, Die, Commands, Reload, StartNewConversation, Goes,
                tuiVars, procVars, diskVars
  <2> QED
    BY <1>0, <2>2, <2>3 DEF PromptInv
<1>4. CASE Ends
  <2>1. BusPrompts'
    BY <1>0, <1>4, EndsAreNext, NextKeepsPrompts
  <2> PICK i \in 1..Len(inbox) : EndRunAndSave(i)
    BY <1>4 DEF Ends
  <2>2. session' = session \cup inbox[i].session /\ sessFile' = sessFile
    BY DEF EndRunAndSave
  <2>3. inbox[i] \in SafeMsgs(Before)
    BY <1>0, ElementOfSeq DEF BusPrompts
  <2> QED
    BY <1>0, <2>1, <2>2, <2>3 DEF PromptInv, SafeMsgs
<1> QED
  BY <1>1, <1>2, <1>3, <1>4, TuiSteps

-----------------------------------------------------------------------------
(* The archive of a transcript that grows.                                 *)
Messages == MessagesOver(Seq(Tokens), Tokens \cup {NoCall})

LEMMA ArchiveType ==
  ASSUME NEW m, IsArchive(m)
  PROVE  m \in Seq(Messages)
<1>1. PICK t \in Seq(Turns) : m = LoopMessages(t)
  BY DEF IsArchive
<1> DEFINE X == Seq(Tokens)
           C == Tokens \cup {NoCall}
<1>2. t \in Seq(TurnsOver(X, C)) /\ <<>> \in X /\ NoCall \in C
  BY TurnsAreOver
<1> HIDE DEF X, C
<1>3. LoopMessages(t) \in Seq(MessagesOver(X, C))
  BY <1>2, LoopType
<1> QED
  BY <1>1, <1>3 DEF X, C, Messages

(* No note is archived.                                                    *)
LEMMA NoNoteIsArchived ==
  ASSUME NEW role \in {"meta", "error"}
  PROVE  /\ \A s \in Seq(Turns) : Archive(Append(s, NoteTurn(role))) = Archive(s)
         /\ Archive(<<NoteTurn(role)>>) = <<>>
<1> DEFINE n == NoteTurn(role)
           o == <<n>>
<1>1. n \in Turns /\ o \in Seq(Turns)
  BY TurnTypes
<1>2. ~IsPersistable(n)
  BY DEF NoteTurn, Turn, IsPersistable
<1>3. persistableConvTurns(o) = <<>>
  BY <1>2, PersistableOne
<1> HIDE DEF n, o
<1>4. ASSUME NEW s \in Seq(Turns) PROVE Archive(s \o o) = Archive(s)
  <2>1. persistableConvTurns(s \o o) = persistableConvTurns(s) \o persistableConvTurns(o)
    BY <1>1, PersistableConcat
  <2>2. s \o o \in Seq(Turns)
    BY <1>1, ConcatProperties
  <2>3. persistableConvTurns(s) \in Seq(Turns)
    BY ArchiveIsLoop
  <2>4. persistableConvTurns(s) \o <<>> = persistableConvTurns(s)
    BY <2>3, ConcatEmptySeq
  <2>5. persistableConvTurns(s \o o) = persistableConvTurns(s)
    BY <1>3, <2>1, <2>4
  <2>6. Archive(s \o o) = LoopMessages(persistableConvTurns(s \o o))
    BY <2>2, ArchiveIsLoop
  <2>7. Archive(s) = LoopMessages(persistableConvTurns(s))
    BY ArchiveIsLoop
  <2> QED
    BY <2>5, <2>6, <2>7
<1>5. \A s \in Seq(Turns) : Append(s, n) = s \o o
  BY <1>1, AppendIsConcat DEF o
<1>6. Archive(o) = <<>>
  <2>1. Archive(o) = LoopMessages(persistableConvTurns(o))
    BY <1>1, ArchiveIsLoop
  <2> QED
    BY <1>3, <2>1, LoopEmpty
<1>7. \A s \in Seq(Turns) : Archive(Append(s, n)) = Archive(s)
  BY <1>4, <1>5
<1> QED
  BY <1>6, <1>7 DEF n, o

LEMMA NotesAreNotArchived ==
  /\ \A s \in Seq(Turns) : Archive(Append(s, NoteTurn("meta"))) = Archive(s)
  /\ Archive(<<NoteTurn("meta")>>) = <<>>
BY NoNoteIsArchived

LEMMA SubSeqBefore ==
  ASSUME NEW T, NEW s \in Seq(T), NEW k \in 1..Len(s)
  PROVE  SubSeq(s, 1, k - 1) \in Seq(T)
<1> DEFINE n == k - 1
<1>1. n \in Int /\ 1 \in Int /\ \A j \in 1..n : s[j] \in T
  OBVIOUS
<1> HIDE DEF n
<1>2. SubSeq(s, 1, n) \in Seq(T)
  BY <1>1, SubSeqProperties
<1> QED
  BY <1>2 DEF n

(* A transcript is archived in two parts, before a prompt and from there.  *)
ArchivedAt(s, k) ==
  /\ SubSeq(s, 1, k - 1) \in Seq(Turns) /\ SubSeq(s, k, Len(s)) \in Seq(Turns)
  /\ Archive(SubSeq(s, 1, k - 1)) \in Seq(Messages)
  /\ Archive(SubSeq(s, k, Len(s))) \in Seq(Messages)
  /\ Archive(s) = Joined(Archive(SubSeq(s, 1, k - 1)), Archive(SubSeq(s, k, Len(s))))
  /\ SubSeq(s, k, Len(s)) = <<s[k]>> \o SubSeq(s, k + 1, Len(s))

LEMMA ArchiveAtPrompt ==
  ASSUME NEW s \in Seq(Turns), NEW k \in 1..Len(s), s[k].role = "user"
  PROVE  ArchivedAt(s, k)
<1> DEFINE X == Seq(Tokens)
           C == Tokens \cup {NoCall}
           t == s[k]
           o == <<t>>
           a == SubSeq(s, 1, k - 1)
           c == SubSeq(s, k + 1, Len(s))
           b == o \o c
           p(x) == persistableConvTurns(x)
<1>0. Len(s) \in Nat /\ \A i \in 1..Len(s) : s[i] \in Turns
  OBVIOUS
<1>1. t \in Turns /\ o \in Seq(Turns)
  BY <1>0
<1>2. a \in Seq(Turns)
  BY SubSeqBefore
<1>3. c \in Seq(Turns)
  <2> DEFINE m == k + 1
             n == Len(s)
  <2>1. m \in Int /\ n \in Int /\ \A i \in m..n : s[i] \in Turns
    BY <1>0
  <2> HIDE DEF n, m
  <2>2. SubSeq(s, m, n) \in Seq(Turns)
    BY <2>1, SubSeqProperties
  <2> QED
    BY <2>2 DEF n, m
<1>16. SubSeq(s, k, Len(s)) = b
  BY <1>0, SubSeqRecursiveFirst
<1>4. s = a \o b
  <2>1. SubSeq(s, k, Len(s)) = b
    BY <1>16
  <2>2. SubSeq(s, 1, k - 1) \o SubSeq(s, (k - 1) + 1, Len(s)) = SubSeq(s, 1, Len(s))
    <3> DEFINE j == k - 1
    <3>1. 1 \in 1..(Len(s) + 1) /\ j \in (1 - 1)..Len(s) /\ Len(s) \in j..Len(s)
      BY <1>0
    <3> HIDE DEF j
    <3>2. SubSeq(s, 1, j) \o SubSeq(s, j + 1, Len(s)) = SubSeq(s, 1, Len(s))
      BY <3>1, ConcatAdjacentSubSeq
    <3> QED
      BY <3>2 DEF j
  <2>3. (k - 1) + 1 = k
    BY <1>0
  <2>4. SubSeq(s, 1, Len(s)) = s
    BY SubSeqFull
  <2> HIDE DEF b
  <2> QED
    BY <2>1, <2>2, <2>3, <2>4
<1>5. p(o) = o
  <2>1. IsPersistable(t)
    BY DEF IsPersistable
  <2> QED
    BY <2>1, PersistableOne
<1>6. Turns = TurnsOver(X, C) /\ <<>> \in X /\ NoCall \in C
  BY TurnsAreOver
<1> HIDE DEF X, C, t, o, a, c, p
<1>7. b \in Seq(Turns)
  BY <1>1, <1>3, ConcatProperties
<1>8. p(b) = o \o p(c)
  <2>1. b = o \o c /\ o \in Seq(Turns) /\ c \in Seq(Turns)
    BY <1>1, <1>3
  <2>2. p(o \o c) = p(o) \o p(c)
    BY <2>1, PersistableConcat DEF p
  <2> QED
    BY <1>5, <2>1, <2>2
<1>9. p(a) \in Seq(Turns) /\ p(b) \in Seq(Turns) /\ p(c) \in Seq(Turns)
  BY <1>2, <1>3, <1>7, ArchiveIsLoop DEF p
<1>10. Begins(p(b))
  <2>1. (<<t>> \o p(c))[1] = t
    BY <1>1, <1>9, FirstTurn
  <2>2. t.role = "user"
    BY DEF t
  <2> HIDE DEF p
  <2>3. p(b)[1] = t
    BY <1>8, <2>1 DEF o
  <2> QED
    BY <2>2, <2>3 DEF Begins
<1> HIDE DEF b
<1>11. p(a \o b) = p(a) \o p(b)
  BY <1>2, <1>7, PersistableConcat DEF p
<1>12. LoopMessages(p(a) \o p(b)) = Joined(LoopMessages(p(a)), LoopMessages(p(b)))
  BY <1>6, <1>9, <1>10, LoopConcat
<1>13. /\ Archive(s) = LoopMessages(p(s)) /\ Archive(a) = LoopMessages(p(a))
       /\ Archive(b) = LoopMessages(p(b))
  BY <1>2, <1>7, ArchiveIsLoop DEF p
<1>14. Archive(a) \in Seq(Messages) /\ Archive(b) \in Seq(Messages)
  BY <1>2, <1>7, ArchiveIsLoop, ArchiveType
<1>15. Archive(s) = Joined(Archive(a), Archive(b))
  BY <1>4, <1>11, <1>12, <1>13
<1>17. b = <<s[k]>> \o SubSeq(s, k + 1, Len(s))
  BY DEF b, o, c, t
<1>18. SubSeq(s, k, Len(s)) = b /\ SubSeq(s, 1, k - 1) = a
  BY <1>16 DEF a
<1> QED
  BY <1>2, <1>7, <1>14, <1>15, <1>17, <1>18 DEF ArchivedAt

(* What was archived before a prompt is the beginning of what is archived. *)
LEMMA ArchiveBeforePrompt ==
  ASSUME NEW s \in Seq(Turns), NEW k \in 1..Len(s), s[k].role = "user"
  PROVE  IsPrefix(Archive(SubSeq(s, 1, k - 1)), Archive(s))
<1>1. ArchivedAt(s, k)
  BY ArchiveAtPrompt
<1> QED
  BY <1>1, PrefixConcat DEF ArchivedAt

-----------------------------------------------------------------------------
(* The archives, step by step.                                             *)
LEMMA EditsLoadFailed ==
  ASSUME NEW v \in Views, NEW w, Edits(v, w), v.turns # <<>>, v.turns[1].role = "error"
  PROVE  w.turns # <<>> /\ w.turns[1].role = "error"
<1>1. v.turns \in Seq(Turns) /\ w.turns \in Seq(Turns) /\ Keeps(v.turns, w.turns)
  BY DEF Edits, Views
<1>2. 1 \in 1..Len(v.turns)
  BY <1>1, EmptySeq
<1>3. 1 <= Len(w.turns) /\ \A i \in 1..1 : w.turns[i] = v.turns[i]
  BY <1>1, <1>2 DEF Keeps
<1> QED
  BY <1>1, <1>3, EmptySeq

LEMMA EditsPrompt ==
  ASSUME NEW v \in Views, NEW w, Edits(v, w), NEW k \in 1..Len(v.turns), v.turns[k].role = "user"
  PROVE  /\ k \in 1..Len(w.turns) /\ w.turns[k].role = "user"
         /\ SubSeq(w.turns, 1, k - 1) = SubSeq(v.turns, 1, k - 1)
<1> DEFINE s == v.turns
           t == w.turns
           n == k - 1
<1>1. s \in Seq(Turns) /\ t \in Seq(Turns) /\ Keeps(s, t)
  BY DEF Edits, Views
<1>2. k <= Len(t) /\ \A i \in 1..k : t[i] = s[i]
  BY <1>1 DEF Keeps
<1>3. Len(s) \in Nat /\ Len(t) \in Nat
  BY <1>1
<1> HIDE DEF s, t
<1>4. /\ n \in Int /\ 1 \in Int /\ n \in Nat
      /\ \A i \in 1..n : s[i] \in Turns /\ t[i] \in Turns /\ t[i] = s[i]
  <2>1. n \in Nat /\ \A i \in 1..n : i \in 1..k /\ i \in 1..Len(s) /\ i \in 1..Len(t)
    BY <1>2, <1>3 DEF s
  <2> HIDE DEF n
  <2> QED
    BY <1>1, <1>2, <2>1
<1> HIDE DEF n
<1>5. /\ SubSeq(s, 1, n) \in Seq(Turns)
      /\ Len(SubSeq(s, 1, n)) = IF 1 <= n THEN n - 1 + 1 ELSE 0
      /\ \A i \in 1..(n - 1 + 1) : SubSeq(s, 1, n)[i] = s[1 + i - 1]
  BY <1>4, SubSeqProperties
<1>6. /\ SubSeq(t, 1, n) \in Seq(Turns)
      /\ Len(SubSeq(t, 1, n)) = IF 1 <= n THEN n - 1 + 1 ELSE 0
      /\ \A i \in 1..(n - 1 + 1) : SubSeq(t, 1, n)[i] = t[1 + i - 1]
  BY <1>4, SubSeqProperties
<1> DEFINE x == SubSeq(s, 1, n)
           y == SubSeq(t, 1, n)
<1>7. x \in Seq(Turns) /\ y \in Seq(Turns) /\ Len(x) = n /\ Len(y) = n /\ \A i \in 1..n : x[i] = y[i]
  BY <1>4, <1>5, <1>6
<1> HIDE DEF x, y
<1>8. x = y
  <2>1. \A i \in 1..Len(x) : x[i] = y[i]
    BY <1>7
  <2> QED
    BY <1>7, <2>1, SeqEqual
<1>9. k \in 1..Len(t) /\ t[k] = s[k]
  BY <1>2, <1>3
<1> QED
  BY <1>8, <1>9 DEF x, y, n, s, t

(* Neither the view nor the files change.                                  *)
LEMMA NothingChanges ==
  ASSUME ArchiveInv, CurrentInv, GrowInv, proc' # "down" => proc # "down",
         proc' \in {"up", "quit"} => proc \in {"up", "quit"},
         UNCHANGED <<view, busy, convID, saveFailed, convFile>>
  PROVE  ArchiveInv' /\ CurrentInv' /\ GrowInv'
<1>1. ArchiveInv'
  BY DEF ArchiveInv
<1>2. CurrentInv'
  BY DEF CurrentInv, LoadFailed, ArchiveOf
<1>3. GrowInv'
  BY DEF GrowInv, LoadFailed, ArchiveOf
<1> QED
  BY <1>1, <1>2, <1>3

(* A note is left.                                                         *)
LEMMA NoteIsLeft ==
  ASSUME RInv, ArchiveInv, CurrentInv, GrowInv, proc = "up",
         ~busy, ~busy', view' = AddTurn(view, NoteTurn("meta")),
         UNCHANGED <<convID, saveFailed, convFile>>
  PROVE  ArchiveInv' /\ CurrentInv' /\ GrowInv'
<1>1. view \in Views /\ view.turns \in Seq(Turns) /\ NoteTurn("meta") \in Turns
  BY TurnTypes DEF RInv, ViewOK, Views
<1>2. view'.turns = Append(view.turns, NoteTurn("meta")) /\ Edits(view, view')
  BY <1>1, AddTurnEdits
<1>3. Archive(view'.turns) = Archive(view.turns)
  BY <1>1, <1>2, NotesAreNotArchived
<1>4. LoadFailed => LoadFailed'
  BY <1>1, <1>2, EditsLoadFailed DEF LoadFailed
<1>5. ArchiveInv'
  BY DEF ArchiveInv
<1>6. ArchiveOf(convID') = ArchiveOf(convID) /\ \A c : ArchiveOf(c)' = ArchiveOf(c)
  BY DEF ArchiveOf
<1>7. CurrentInv'
  BY <1>3, <1>4, <1>6 DEF CurrentInv, ArchiveOf
<1>8. GrowInv'
  BY <1>3, <1>4, <1>6 DEF GrowInv, ArchiveOf
<1> QED
  BY <1>5, <1>7, <1>8

(* A prompt and the empty answer put behind the turns s.                   *)
LEMMA PromptSplits ==
  ASSUME NEW s \in Seq(Turns), NEW x \in Seq(Tokens)
  PROVE  LET t == s \o <<UserTurn(x), StreamingTurn>>
             k == Len(s) + 1
         IN  /\ t \in Seq(Turns) /\ k \in 1..Len(t) /\ t[k] = UserTurn(x)
             /\ SubSeq(t, 1, k - 1) = s
<1> DEFINE u == UserTurn(x)
           a == <<u, StreamingTurn>>
           k == Len(s) + 1
           t == s \o a
           n == k - 1
<1>1. a \in Seq(Turns) /\ Len(a) = 2 /\ a[1] = u /\ Len(s) \in Nat
  BY TurnTypes
<1> HIDE DEF u, a
<1>2. /\ t \in Seq(Turns) /\ Len(t) = Len(s) + Len(a)
      /\ \A i \in 1..(Len(s) + Len(a)) : t[i] = IF i <= Len(s) THEN s[i] ELSE a[i - Len(s)]
  BY <1>1, ConcatProperties
<1> HIDE DEF t
<1>3. k \in 1..Len(t) /\ t[k] = u
  <2>1. k \in 1..(Len(s) + Len(a)) /\ ~(k <= Len(s)) /\ k - Len(s) = 1
    BY <1>1
  <2> QED
    BY <1>1, <1>2, <2>1
<1>4. n = Len(s) /\ n \in Int /\ 1 \in Int /\ n \in Nat /\ \A i \in 1..n : t[i] = s[i] /\ t[i] \in Turns
  BY <1>1, <1>2
<1> HIDE DEF n, k
<1>5. /\ SubSeq(t, 1, n) \in Seq(Turns)
      /\ Len(SubSeq(t, 1, n)) = IF 1 <= n THEN n - 1 + 1 ELSE 0
      /\ \A i \in 1..(n - 1 + 1) : SubSeq(t, 1, n)[i] = t[1 + i - 1]
  BY <1>4, SubSeqProperties
<1> DEFINE y == SubSeq(t, 1, n)
<1>6. y \in Seq(Turns) /\ Len(y) = n /\ \A i \in 1..Len(y) : y[i] = s[i]
  BY <1>4, <1>5
<1> HIDE DEF y
<1>7. y = s
  BY <1>4, <1>6, SeqEqual
<1> QED
  BY <1>2, <1>3, <1>7 DEF y, n, t, k, a, u

(* A prompt is sent: all that is archived stands before it.                *)
LEMMA PromptIsSent ==
  ASSUME RInv, ArchiveInv, GrowInv, proc = "up", StartRun, UNCHANGED <<convID, convFile>>
  PROVE  ArchiveInv' /\ CurrentInv' /\ GrowInv'
<1> DEFINE p == PromptText(asked + 1)
           u == UserTurn(p)
           a == <<u, StreamingTurn>>
           s == view.turns
           k == Len(s) + 1
<1>1. ~busy /\ busy' = TRUE /\ view' = BeginAnswer(view, p)
  BY DEF StartRun
<1>2. view \in Views /\ p \in Seq(Tokens) /\ s \in Seq(Turns) /\ Len(s) \in Nat
  <2>1. asked + 1 \in Nat
    BY ConstantsAssumption DEF RInv, IInv, TypeOK
  <2>2. p \in Seq(Tokens)
    BY <2>1, PromptType
  <2> HIDE DEF p
  <2>3. view \in Views
    BY DEF RInv, ViewOK
  <2>4. view.turns \in Seq(Turns)
    BY <2>3 DEF Views
  <2> QED
    BY <2>2, <2>3, <2>4
<1> HIDE DEF p
<1>3. view'.turns = s \o a /\ Edits(view, view')
  BY <1>1, <1>2, BeginAnswerEdits
<1>4. u.role = "user"
  BY DEF UserTurn, Turn
<1> DEFINE t == s \o a
<1>5. t \in Seq(Turns) /\ k \in 1..Len(t) /\ t[k] = u /\ SubSeq(t, 1, k - 1) = s
  BY <1>2, PromptSplits
<1> HIDE DEF a, u, s, t
<1>6. t[k].role = "user" /\ k - 1 = Len(s) /\ SubSeq(t, 1, Len(s)) = s
  BY <1>2, <1>4, <1>5
<1>8. LoadFailed => LoadFailed'
  BY <1>2, <1>3, EditsLoadFailed DEF LoadFailed
<1>9. ArchiveInv'
  BY DEF ArchiveInv
<1>10. CurrentInv'
  BY <1>1 DEF CurrentInv
<1>11. ASSUME ~LoadFailed
       PROVE  IsPrefix(ArchiveOf(convID), Archive(SubSeq(t, 1, k - 1)))
  <2>1. IsPrefix(ArchiveOf(convID), Archive(s))
    BY <1>1, <1>11 DEF GrowInv, s
  <2> HIDE DEF k
  <2> QED
    BY <1>5, <2>1
<1> HIDE DEF k
<1>12. view'.turns = t
  BY <1>3 DEF t
<1>13. GrowInv'
  BY <1>1, <1>5, <1>6, <1>8, <1>11, <1>12 DEF GrowInv, ArchiveOf
<1> QED
  BY <1>9, <1>10, <1>13

(* A message is shown, the run goes on.                                    *)
LEMMA MessageIsShown ==
  ASSUME RInv, ArchiveInv, GrowInv, proc = "up", busy, busy', Edits(view, view'),
         UNCHANGED <<convID, convFile>>
  PROVE  ArchiveInv' /\ CurrentInv' /\ GrowInv'
<1>1. view \in Views
  BY DEF RInv, ViewOK
<1>2. LoadFailed => LoadFailed'
  BY <1>1, EditsLoadFailed DEF LoadFailed
<1>3. ArchiveInv' /\ CurrentInv'
  BY DEF ArchiveInv, CurrentInv
<1>4. ASSUME ~LoadFailed'
      PROVE  \E k \in 1..Len(view'.turns) :
               /\ view'.turns[k].role = "user"
               /\ IsPrefix(ArchiveOf(convID), Archive(SubSeq(view'.turns, 1, k - 1)))
  <2>1. PICK k \in 1..Len(view.turns) :
               /\ view.turns[k].role = "user"
               /\ IsPrefix(ArchiveOf(convID), Archive(SubSeq(view.turns, 1, k - 1)))
    BY <1>2, <1>4 DEF GrowInv
  <2>2. /\ k \in 1..Len(view'.turns) /\ view'.turns[k].role = "user"
        /\ SubSeq(view'.turns, 1, k - 1) = SubSeq(view.turns, 1, k - 1)
    BY <1>1, <2>1, EditsPrompt
  <2>3. IsPrefix(ArchiveOf(convID), Archive(SubSeq(view'.turns, 1, k - 1)))
    BY <2>1, <2>2
  <2> QED
    BY <2>2, <2>3
<1>5. GrowInv'
  BY <1>4 DEF GrowInv, ArchiveOf
<1> QED
  BY <1>3, <1>5

(* What one step does to the archives.                                     *)
SavesGrow ==
  \A c \in DOMAIN convFile :
    c \in DOMAIN convFile' /\ (LoadFailed \/ IsPrefix(convFile[c], convFile'[c]))

LEMMA NoSaveGrows ==
  ASSUME ArchiveInv, UNCHANGED convFile
  PROVE  SavesGrow
<1> SUFFICES ASSUME NEW c \in DOMAIN convFile
             PROVE  c \in DOMAIN convFile' /\ IsPrefix(convFile[c], convFile'[c])
  BY DEF SavesGrow
<1>1. convFile[c] \in Seq(Messages)
  BY ArchiveType DEF ArchiveInv
<1>2. IsPrefix(convFile[c], convFile[c])
  BY <1>1, PrefixRefl
<1> QED
  BY <1>2

LEMMA SaveStep ==
  ASSUME ArchiveInv, NEW t \in Seq(Turns), Save(t)
  PROVE  /\ ArchiveInv'
         /\ convID \in DOMAIN convFile' /\ convFile'[convID] = Archive(t)
         /\ LoadFailed \/ IsPrefix(ArchiveOf(convID), Archive(t)) => SavesGrow
<1>1. /\ DOMAIN convFile' = DOMAIN convFile \cup {convID}
      /\ convFile'[convID] = Archive(t)
      /\ \A c \in DOMAIN convFile : c # convID => convFile'[c] = convFile[c]
  BY DEF Save
<1>2. IsArchive(Archive(t))
  BY ArchiveIsLoop
<1>3. ArchiveInv'
  BY <1>1, <1>2 DEF ArchiveInv
<1>4. ASSUME LoadFailed \/ IsPrefix(ArchiveOf(convID), Archive(t)), NEW c \in DOMAIN convFile
      PROVE  c \in DOMAIN convFile' /\ (LoadFailed \/ IsPrefix(convFile[c], convFile'[c]))
  <2>1. CASE c = convID
    BY <1>1, <1>4, <2>1 DEF ArchiveOf
  <2>2. CASE c # convID
    <3>1. convFile'[c] = convFile[c] /\ c \in DOMAIN convFile'
      BY <1>1, <2>2
    <3>2. convFile[c] \in Seq(Messages)
      BY ArchiveType DEF ArchiveInv
    <3>3. IsPrefix(convFile[c], convFile[c])
      BY <3>2, PrefixRefl
    <3> QED
      BY <3>1, <3>3
  <2> QED
    BY <2>1, <2>2
<1> QED
  BY <1>1, <1>3, <1>4 DEF SavesGrow

(* Saving what stands behind a prompt takes nothing from the archive.      *)
LEMMA PromptGrows ==
  ASSUME ArchiveInv, NEW t \in Seq(Turns), NEW k \in 1..Len(t), t[k].role = "user",
         IsPrefix(ArchiveOf(convID), Archive(SubSeq(t, 1, k - 1)))
  PROVE  IsPrefix(ArchiveOf(convID), Archive(t))
<1> DEFINE b == SubSeq(t, 1, k - 1)
<1>1. IsPrefix(ArchiveOf(convID), Archive(b))
  OBVIOUS
<1>2. b \in Seq(Turns)
  BY SubSeqBefore
<1>3. IsPrefix(Archive(b), Archive(t))
  BY ArchiveBeforePrompt
<1> HIDE DEF b
<1>4. Archive(b) \in Seq(Messages) /\ Archive(t) \in Seq(Messages)
  BY <1>2, ArchiveIsLoop, ArchiveType
<1>5. ArchiveOf(convID) \in Seq(Messages)
  BY ArchiveOfIsArchive, ArchiveType
<1> QED
  BY <1>1, <1>3, <1>4, <1>5, PrefixTrans

(* The end of a run, saved or not.                                         *)
LEMMA RunIsSaved ==
  ASSUME RInv, ArchiveInv, GrowInv, Ends
  PROVE  ArchiveInv' /\ CurrentInv' /\ GrowInv' /\ SavesGrow
<1> PICK i \in 1..Len(inbox) : EndRunAndSave(i)
  BY DEF Ends
<1>1. /\ proc = "up" /\ proc' = "up" /\ convID' = convID /\ ~busy'
      /\ view' = Show(view, inbox[i])
  BY DEF EndRunAndSave, EndRun
<1>2. busy
  <2>1. Len(inbox) \in Nat /\ waiting \in Nat
    BY DEF RInv, IInv, TypeOK
  <2> QED
    BY <2>1 DEF RInv, IInv, PumpDiscipline
<1>3. view \in Views /\ inbox[i] \in StreamMsgs
  <2>1. inbox \in Seq(StreamMsgs)
    BY DEF RInv, IInv, TypeOK
  <2> QED
    BY <2>1, ElementOfSeq DEF RInv, ViewOK
<1>4. Edits(view, view')
  BY <1>1, <1>3, ShowEdits
<1>5. view'.turns \in Seq(Turns)
  BY <1>4 DEF Edits, Views
<1>6. LoadFailed => LoadFailed'
  BY <1>3, <1>4, EditsLoadFailed DEF LoadFailed
<1>7. ASSUME ~LoadFailed
      PROVE  IsPrefix(ArchiveOf(convID), Archive(view'.turns))
  <2>1. PICK k \in 1..Len(view.turns) :
               /\ view.turns[k].role = "user"
               /\ IsPrefix(ArchiveOf(convID), Archive(SubSeq(view.turns, 1, k - 1)))
    BY <1>1, <1>2, <1>7 DEF GrowInv
  <2>2. /\ k \in 1..Len(view'.turns) /\ view'.turns[k].role = "user"
        /\ SubSeq(view'.turns, 1, k - 1) = SubSeq(view.turns, 1, k - 1)
    BY <1>3, <1>4, <2>1, EditsPrompt
  <2> DEFINE t == view'.turns
  <2>3. /\ t \in Seq(Turns) /\ k \in 1..Len(t) /\ t[k].role = "user"
        /\ IsPrefix(ArchiveOf(convID), Archive(SubSeq(t, 1, k - 1)))
    BY <1>5, <2>1, <2>2
  <2> HIDE DEF t
  <2>4. IsPrefix(ArchiveOf(convID), Archive(t))
    BY <2>3, PromptGrows
  <2> QED
    BY <2>4 DEF t
<1>8. CASE Save(view'.turns)
  <2> DEFINE t == view'.turns
  <2>1. /\ ArchiveInv'
        /\ convID \in DOMAIN convFile' /\ convFile'[convID] = Archive(t)
        /\ LoadFailed \/ IsPrefix(ArchiveOf(convID), Archive(t)) => SavesGrow
    <3>1. t \in Seq(Turns) /\ Save(t)
      BY <1>5, <1>8
    <3> HIDE DEF t
    <3> QED
      BY <3>1, SaveStep
  <2>2. SavesGrow
    BY <1>7, <2>1
  <2>3. ArchiveOf(convID)' = Archive(t)
    BY <1>1, <2>1 DEF ArchiveOf
  <2>4. Archive(t) \in Seq(Messages)
    BY <1>5, ArchiveIsLoop, ArchiveType
  <2>5. IsPrefix(Archive(t), Archive(t))
    <3> DEFINE a == Archive(t)
    <3>1. a \in Seq(Messages)
      BY <2>4
    <3> HIDE DEF a
    <3>2. IsPrefix(a, a)
      BY <3>1, PrefixRefl
    <3> QED
      BY <3>2 DEF a
  <2>6. CurrentInv'
    BY <2>3 DEF CurrentInv
  <2>7. GrowInv'
    BY <1>1, <2>3, <2>5 DEF GrowInv
  <2> QED
    BY <2>1, <2>2, <2>6, <2>7
<1>9. CASE SaveFails /\ saveFailed' = TRUE
  <2>1. UNCHANGED convFile
    BY <1>9 DEF SaveFails
  <2>2. SavesGrow
    BY <2>1, NoSaveGrows
  <2>3. ArchiveInv'
    BY <2>1 DEF ArchiveInv
  <2>4. CurrentInv'
    BY <1>9 DEF CurrentInv
  <2>5. ArchiveOf(convID)' = ArchiveOf(convID)
    BY <1>1, <2>1 DEF ArchiveOf
  <2>6. GrowInv'
    BY <1>1, <1>6, <1>7, <2>5 DEF GrowInv
  <2> QED
    BY <2>2, <2>3, <2>4, <2>6
<1> QED
  BY <1>8, <1>9 DEF EndRunAndSave

(* A process starts: it shows the archive or the error that kept it from   *)
(* reading it.                                                             *)
LEMMA ProcessStarts ==
  ASSUME RInv, ProcInv, ArchiveInv, Starts
  PROVE  ArchiveInv' /\ CurrentInv' /\ GrowInv' /\ SavesGrow
<1> PICK c \in Convs : Boot(c)
  BY DEF Starts
<1>1. proc = "down" /\ convID' = c /\ busy' = busy /\ convFile' = convFile
  BY DEF Boot, diskVars
<1>2. ~busy'
  BY <1>1 DEF ProcInv
<1>3. ArchiveInv' /\ SavesGrow
  BY <1>1, NoSaveGrows DEF ArchiveInv
<1>4. IsArchive(ArchiveOf(c)) /\ ArchiveOf(convID)' = ArchiveOf(c)
  BY <1>1, ArchiveOfIsArchive DEF ArchiveOf
<1>5. CASE view'.turns = MessagesToTurns(ArchiveOf(c))
  <2> DEFINE m == ArchiveOf(c)
  <2>1. IsArchive(m)
    BY <1>4
  <2> HIDE DEF m
  <2>2. Archive(MessagesToTurns(m)) = m
    BY <2>1, ArchiveComesBack
  <2>3. IsPrefix(m, m)
    <3>1. m \in Seq(Messages)
      BY <2>1, ArchiveType
    <3> QED
      BY <3>1, PrefixRefl
  <2>4. ArchiveOf(convID)' = m /\ Archive(view'.turns) = m
    BY <1>4, <1>5, <2>2 DEF m
  <2>5. CurrentInv'
    BY <2>4 DEF CurrentInv
  <2>6. GrowInv'
    BY <1>2, <2>3, <2>4 DEF GrowInv
  <2> QED
    BY <1>3, <2>5, <2>6
<1>6. CASE view'.turns = <<NoteTurn("error")>>
  <2>1. LoadFailed'
    BY <1>6 DEF LoadFailed, NoteTurn, Turn
  <2> QED
    BY <1>3, <2>1 DEF CurrentInv, GrowInv
<1> QED
  BY <1>5, <1>6, BootedView

(* It ends, with or without what it wanted to save.                        *)
LEMMA ProcessDies ==
  ASSUME RInv, ArchiveInv, Dies
  PROVE  ArchiveInv' /\ CurrentInv' /\ GrowInv' /\ SavesGrow
<1>1. proc' = "down"
  BY DiesAreDead
<1>2. convFile' = convFile
  BY <1>1 DEF Dies, Crash, ExitSavesConversation, ExitSavesSession, SaveFails, diskVars
<1>3. ArchiveInv' /\ SavesGrow
  BY <1>2, NoSaveGrows DEF ArchiveInv
<1> QED
  BY <1>1, <1>3 DEF CurrentInv, GrowInv

(* It quits, and main saves the conversation.                              *)
LEMMA ProcessRests ==
  ASSUME RInv, ProcInv, ArchiveInv, CurrentInv, GrowInv, Rests
  PROVE  ArchiveInv' /\ CurrentInv' /\ GrowInv' /\ SavesGrow
<1>1. UNCHANGED <<view, busy>>
  BY DEF Rests, vars
<1>2. CASE Quit \/ UNCHANGED tuiVars
  <2>1. /\ proc' # "down" => proc # "down"
        /\ proc' \in {"up", "quit"} => proc \in {"up", "quit"}
        /\ UNCHANGED <<view, busy, convID, saveFailed, convFile>>
    BY <1>1, <1>2 DEF Quit, tuiVars, procVars, diskVars
  <2>2. ArchiveInv' /\ CurrentInv' /\ GrowInv'
    BY <2>1, NothingChanges
  <2> QED
    BY <2>1, <2>2, NoSaveGrows
<1>3. CASE ExitSavesConversation /\ Die
  BY <1>3, ProcessDies DEF Dies
<1>4. CASE ExitSavesConversation /\ ~Die
  <2>1. /\ proc = "quit" /\ proc' = "saved" /\ convID' = convID
        /\ Save(view.turns)
    BY <1>4 DEF ExitSavesConversation
  <2> DEFINE t == view.turns
  <2>2. t \in Seq(Turns) /\ Save(t)
    BY <2>1 DEF RInv, ViewOK, Views
  <2>3. LoadFailed \/ IsPrefix(ArchiveOf(convID), Archive(t))
    <3>1. CASE busy /\ ~LoadFailed
      <4>1. PICK k \in 1..Len(t) :
              /\ t[k].role = "user"
              /\ IsPrefix(ArchiveOf(convID), Archive(SubSeq(t, 1, k - 1)))
        BY <2>1, <3>1 DEF GrowInv
      <4> HIDE DEF t
      <4> QED
        BY <2>2, <4>1, PromptGrows
    <3>2. CASE ~busy
      BY <2>1, <3>2 DEF GrowInv
    <3> QED
      BY <3>1, <3>2
  <2>4. view'.turns = t
    BY <1>1
  <2> HIDE DEF t
  <2>5. ArchiveInv' /\ convID \in DOMAIN convFile' /\ convFile'[convID] = Archive(t) /\ SavesGrow
    BY <2>2, <2>3, SaveStep
  <2>6. ArchiveOf(convID)' = Archive(t)
    BY <2>1, <2>5 DEF ArchiveOf
  <2>7. CurrentInv'
    BY <2>4, <2>6 DEF CurrentInv
  <2>8. GrowInv'
    BY <2>1 DEF GrowInv
  <2> QED
    BY <2>5, <2>7, <2>8
<1> QED
  BY <1>2, <1>3, <1>4 DEF Rests, ExitSavesConversation

(* /new and a reload.                                                      *)
LEMMA CommandIsRun ==
  ASSUME RInv, ArchiveInv, CurrentInv, GrowInv, Commands
  PROVE  ArchiveInv' /\ CurrentInv' /\ GrowInv' /\ SavesGrow
<1>1. UNCHANGED convFile /\ proc = "up" /\ proc' = "up"
  BY DEF Commands, StartNewConversation, Reload, diskVars
<1>2. SavesGrow
  BY <1>1, NoSaveGrows
<1>3. CASE Reload
  <2>1. /\ ~busy /\ busy' = busy /\ view' = AddTurn(view, NoteTurn("meta"))
        /\ UNCHANGED <<convID, saveFailed, convFile>>
    BY <1>3 DEF Reload, LeaveNote, CloseEditorNoting, diskVars, RInv, IInv, PumpDiscipline
  <2> QED
    BY <1>1, <1>2, <2>1, NoteIsLeft
<1>4. ASSUME NEW c \in Convs, StartNewConversation(c)
      PROVE  ArchiveInv' /\ CurrentInv' /\ GrowInv'
  <2>1. c \notin DOMAIN convFile /\ convID' = c /\ ~busy'
    BY <1>4 DEF StartNewConversation, Fresh, NewTranscript
  <2>2. view'.turns = <<NoteTurn("meta")>>
    <3>1. view' = [view EXCEPT !.turns = <<NoteTurn("meta")>>]
      BY <1>4 DEF StartNewConversation, NewTranscript
    <3> QED
      BY <3>1 DEF RInv, ViewOK, Views
  <2>3. Archive(view'.turns) = <<>>
    BY <2>2, NotesAreNotArchived
  <2>4. ArchiveOf(convID)' = <<>>
    BY <1>1, <2>1 DEF ArchiveOf
  <2>5. IsPrefix(ArchiveOf(convID)', Archive(view'.turns))
    <3> DEFINE e == <<>>
    <3>1. e \in Seq(Messages)
      OBVIOUS
    <3>2. ArchiveOf(convID)' = e /\ Archive(view'.turns) = e
      BY <2>3, <2>4
    <3> HIDE DEF e
    <3>3. IsPrefix(e, e)
      BY <3>1, PrefixRefl
    <3> QED
      BY <3>2, <3>3
  <2>6. ArchiveInv'
    BY <1>1 DEF ArchiveInv
  <2>7. CurrentInv'
    BY <2>3, <2>4 DEF CurrentInv
  <2>8. GrowInv'
    BY <2>1, <2>5 DEF GrowInv
  <2> QED
    BY <2>6, <2>7, <2>8
<1> QED
  BY <1>2, <1>3, <1>4 DEF Commands

(* The run loop goes on: of its steps only a prompt, a message shown and a *)
(* note touch the view, and none touches a file.                           *)
LEMMA RunLoopGoesOn ==
  ASSUME RInv, ArchiveInv, CurrentInv, GrowInv, Goes
  PROVE  ArchiveInv' /\ CurrentInv' /\ GrowInv' /\ SavesGrow
<1>1. proc = "up" /\ UNCHANGED <<proc, convID, saveFailed, convFile>>
  BY DEF Goes, procVars, diskVars
<1>2. SavesGrow
  BY <1>1, NoSaveGrows
<1>3. CASE StartRun
  BY <1>1, <1>2, <1>3, PromptIsSent
<1>4. CASE LeaveNote \/ CloseEditorNoting
  <2>1. /\ ~busy /\ busy' = busy /\ view' = AddTurn(view, NoteTurn("meta"))
    BY <1>4 DEF LeaveNote, CloseEditorNoting, RInv, IInv, PumpDiscipline
  <2> QED
    BY <1>1, <1>2, <2>1, NoteIsLeft
<1>5. CASE \E i \in 1..Len(inbox) : ShowMessage(i)
  <2> PICK i \in 1..Len(inbox) : ShowMessage(i)
    BY <1>5
  <2>1. view' = Show(view, inbox[i]) /\ busy' = busy
    BY DEF ShowMessage
  <2>2. busy
    <3>1. Len(inbox) \in Nat /\ waiting \in Nat
      BY DEF RInv, IInv, TypeOK
    <3> QED
      BY <3>1 DEF RInv, IInv, PumpDiscipline
  <2>3. view \in Views /\ inbox[i] \in StreamMsgs
    <3>1. inbox \in Seq(StreamMsgs)
      BY DEF RInv, IInv, TypeOK
    <3> QED
      BY <3>1, ElementOfSeq DEF RInv, ViewOK
  <2>4. Edits(view, view')
    BY <2>1, <2>3, ShowEdits
  <2>5. busy'
    BY <2>1, <2>2
  <2> QED
    BY <1>1, <1>2, <2>2, <2>4, <2>5, MessageIsShown
<1>6. CASE \/ CancelRun \/ OpenEditor \/ CloseEditor \/ Pump
           \/ \E i \in 1..Len(inbox) : DropMessage(i)
           \/ \E r \in Runs : Goroutine(r) \/ AgentStep(r) \/ CaptureSession(r)
  <2>1. UNCHANGED <<view, busy>>
    BY <1>6, ZenonT(30) DEF CancelRun, OpenEditor, CloseEditor, Pump, DropMessage, Goroutine, AgentStep,
                CheckContext, Deferred, Send, RunStops, RunFails, StreamChunk, StreamEnds,
                WholeMessage, StreamBegins, ToolResult, CaptureSession, uiVars
  <2>2. ArchiveInv' /\ CurrentInv' /\ GrowInv'
    BY <1>1, <2>1, NothingChanges
  <2> QED
    BY <1>2, <2>2
<1> QED
  BY <1>3, <1>4, <1>5, <1>6 DEF Goes, RunLoopStep

-----------------------------------------------------------------------------
(* The invariant of the process.                                           *)
TInv ==
  RInv /\ ProcInv /\ PromptInv /\ FileInv /\ ArchiveInv /\ CurrentInv /\ GrowInv

LEMMA InitTInv == TuiInit => TInv
<1> SUFFICES ASSUME TuiInit PROVE TInv
  OBVIOUS
<1>1. RInv
  BY InitRInv DEF TuiInit
<1>2. ProcInv
  <2>1. /\ proc = "down" /\ boots = 0 /\ convID = NoConv /\ saveFailed = FALSE
        /\ convFile = <<>> /\ busy = FALSE
    BY DEF TuiInit, Init
  <2>2. DOMAIN convFile = {}
    BY <2>1
  <2>3. boots \in 0..MaxBoots
    BY <2>1, TuiAssumption
  <2> QED
    BY <2>1, <2>2, <2>3 DEF ProcInv
<1>3. PromptInv
  <2>2. <<>> \in Seq(SafeMsgs(Before))
    OBVIOUS
  <2>3. ch = <<>> /\ inbox = <<>> /\ \A r \in Runs : gor[r] = NoRun
    BY DEF TuiInit, Init
  <2> QED
    BY <2>2, <2>3, NoRunPrompts DEF TuiInit, PromptInv, BusPrompts
<1>4. FileInv /\ ArchiveInv /\ CurrentInv /\ GrowInv
  BY DEF TuiInit, FileInv, ArchiveInv, CurrentInv, GrowInv
<1> QED
  BY <1>1, <1>2, <1>3, <1>4 DEF TInv

LEMMA ArchivesKept ==
  TInv /\ [TuiNext]_tuiVars => ArchiveInv' /\ CurrentInv' /\ GrowInv' /\ SavesGrow
BY TuiSteps, ProcessStarts, ProcessDies, ProcessRests, CommandIsRun, RunIsSaved, RunLoopGoesOn
   DEF TInv

LEMMA NextTInv == TInv /\ [TuiNext]_tuiVars => TInv'
<1> SUFFICES ASSUME TInv, [TuiNext]_tuiVars PROVE TInv'
  OBVIOUS
<1>1. RInv /\ ProcInv /\ PromptInv /\ FileInv /\ ArchiveInv /\ IInv /\ PumpDiscipline
  BY DEF TInv, RInv, IInv
<1>2. RInv'
  BY <1>1, RunLoopKept
<1>3. ProcInv'
  BY <1>1, ProcKept
<1>4. PromptInv'
  BY <1>1, PromptKept
<1>5. FileInv'
  BY <1>1, FileKept
<1> QED
  BY <1>2, <1>3, <1>4, <1>5, ArchivesKept DEF TInv

(* The process keeps its invariant through every run, save, failed save,   *)
(* reload, /new, exit, crash and restart.                                  *)
THEOREM TuiInvariance == TuiSpec => []TInv
BY InitTInv, NextTInv, PTL DEF TuiSpec

(* The process's variables have their types, whatever fails.               *)
THEOREM TuiTypeCorrect == TuiSpec => []TuiTypeOK
<1>1. TInv => TuiTypeOK
  BY DEF TInv, RInv, IInv, ProcInv, PromptInv, TuiTypeOK
<1> QED
  BY <1>1, TuiInvariance, PTL

(* Between runs the archive on disk is the archive of what is shown, unless*)
(* the last save or the load failed: after answers, errors, cancelled runs,*)
(* notes, /new, reloads and restarts.                                      *)
THEOREM ArchivesAreCurrent == TuiSpec => []ArchiveIsCurrent
<1>1. TInv => ArchiveIsCurrent
  BY DEF TInv, CurrentInv, ArchiveIsCurrent
<1> QED
  BY <1>1, TuiInvariance, PTL

(* What startRun sends with a prompt is the history of the turns before it.*)
LEMMA HistoryOfPrompt ==
  ASSUME NEW v \in Views, NEW p \in Seq(Tokens)
  PROVE  historyTurnsForRun(BeginAnswer(v, p).turns) = persistableConvTurns(v.turns)
<1> DEFINE s == v.turns
           a == <<UserTurn(p), StreamingTurn>>
           t == s \o a
           n == Len(s)
<1>1. s \in Seq(Turns) /\ a \in Seq(Turns) /\ Len(a) = 2
  BY TurnTypes DEF Views
<1>2. BeginAnswer(v, p).turns = t
  BY BeginAnswerEdits
<1> HIDE DEF s, a
<1>3. /\ t \in Seq(Turns) /\ Len(t) = Len(s) + Len(a)
      /\ \A i \in 1..(Len(s) + Len(a)) : t[i] = IF i <= Len(s) THEN s[i] ELSE a[i - Len(s)]
  BY <1>1, ConcatProperties
<1>4. Len(s) \in Nat
  BY <1>1
<1> HIDE DEF t
<1>5. n \in Nat /\ Len(t) - 2 = n /\ ~(Len(t) < 2)
  BY <1>1, <1>3, <1>4
<1>6. SubSeq(t, 1, n) = s
  <2>1. n \in Int /\ 1 \in Int /\ n \in Nat /\ \A i \in 1..n : t[i] = s[i] /\ t[i] \in Turns
    BY <1>1, <1>3, <1>4
  <2> HIDE DEF n
  <2>2. /\ SubSeq(t, 1, n) \in Seq(Turns)
        /\ Len(SubSeq(t, 1, n)) = IF 1 <= n THEN n - 1 + 1 ELSE 0
        /\ \A i \in 1..(n - 1 + 1) : SubSeq(t, 1, n)[i] = t[1 + i - 1]
    BY <2>1, SubSeqProperties
  <2> DEFINE x == SubSeq(t, 1, n)
  <2>3. x \in Seq(Turns) /\ Len(x) = n /\ \A i \in 1..Len(x) : x[i] = s[i]
    BY <2>1, <2>2
  <2> HIDE DEF x
  <2>4. x = s
    BY <1>1, <2>3, SeqEqual DEF n
  <2> QED
    BY <2>4 DEF x
<1> HIDE DEF n
<1>7. historyTurnsForRun(t) = persistableConvTurns(SubSeq(t, 1, n))
  BY <1>5 DEF historyTurnsForRun
<1> QED
  BY <1>2, <1>6, <1>7 DEF s

(* The next prompt is sent with the tail of what is on disk before it, and *)
(* without itself.                                                         *)
THEOREM PromptsContinueTheArchive == TuiSpec => []PromptContinuesTheArchive
<1>1. TInv => PromptContinuesTheArchive
  <2> SUFFICES ASSUME TInv, proc = "up", ~busy, ~saveFailed, ~LoadFailed
               PROVE  TurnsToMessages(historyTurnsForRun(BeginAnswer(view, PromptText(0)).turns), MaxContext)
                        = trimMessageTail(ArchiveOf(convID), MaxContext)
    BY DEF PromptContinuesTheArchive
  <2> DEFINE h == persistableConvTurns(view.turns)
             p == PromptText(0)
  <2>1. view \in Views /\ view.turns \in Seq(Turns)
    BY DEF TInv, RInv, ViewOK, Views
  <2>2. p \in Seq(Tokens)
    BY PromptType
  <2>3. ArchiveOf(convID) = Archive(view.turns)
    BY DEF TInv, CurrentInv
  <2> HIDE DEF p
  <2>4. historyTurnsForRun(BeginAnswer(view, p).turns) = h
    BY <2>1, <2>2, HistoryOfPrompt
  <2>5. Archive(view.turns) = LoopMessages(h)
    BY <2>1, ArchiveIsLoop
  <2> HIDE DEF h
  <2> QED
    BY <2>3, <2>4, <2>5 DEF TurnsToMessages, p
<1> QED
  BY <1>1, TuiInvariance, PTL

(* No save takes a message away from an archive, whatever failed before    *)
(* it, unless the archive could not be read when the process started.      *)
THEOREM SavesOnlyAdd == TuiSpec => ArchivesOnlyGrow
<1>1. TInv /\ [TuiNext]_tuiVars =>
        [\A c \in DOMAIN convFile :
           c \in DOMAIN convFile' /\ (LoadFailed \/ IsPrefix(convFile[c], convFile'[c]))]_tuiVars
  BY ArchivesKept DEF SavesGrow
<1> QED
  BY <1>1, TuiInvariance, PTL DEF TuiSpec, ArchivesOnlyGrow

(* A value that reached the session file stays there, through every later  *)
(* process that loads, adds to and writes it.                              *)
THEOREM SessionFileKeepsItsValues == TuiSpec => SessionFileOnlyGrows
<1>1. TInv /\ [TuiNext]_tuiVars => [sessFile \subseteq sessFile']_sessFile
  BY FileGrows DEF TInv
<1> QED
  BY <1>1, TuiInvariance, PTL DEF TuiSpec, SessionFileOnlyGrows

(* Only a reload takes a value out of the session of a running process: no *)
(* run, /new, failed save or message of an older run does.                 *)
THEOREM SessionKeptWithoutReloads == ~Reloads => (TuiSpec => SessionIsKept)
<1> SUFFICES ASSUME ~Reloads PROVE TuiSpec => SessionIsKept
  OBVIOUS
<1>1. ASSUME [TuiNext]_tuiVars, proc = "up", proc' = "up"
      PROVE  session \subseteq session'
  <2>1. CASE Starts
    BY <1>1, <2>1 DEF Starts, Boot
  <2>2. CASE Dies
    BY <1>1, <2>2 DEF Dies, Crash, ExitSavesSession, Die
  <2>3. CASE Rests
    BY <1>1, <2>3 DEF Rests, Quit, ExitSavesConversation, Die, tuiVars, procVars
  <2>4. CASE Commands
    BY <2>4 DEF Commands, Reload, StartNewConversation
  <2>5. CASE Ends
    BY <2>5 DEF Ends, EndRunAndSave
  <2>6. CASE Goes
    BY <2>6 DEF Goes, procVars
  <2> QED
    BY <1>1, <2>1, <2>2, <2>3, <2>4, <2>5, <2>6, TuiSteps
<1>2. [TuiNext]_tuiVars =>
        [proc = "up" /\ proc' = "up" => session \subseteq session']_tuiVars
  BY <1>1
<1> QED
  BY <1>2, PTL DEF TuiSpec, SessionIsKept

-----------------------------------------------------------------------------
(* Messages that stand behind the prompt of their run.                     *)
TurnsOf(p) == TurnsOver(BodiesOf(p), TokensOf(p) \cup {NoCall})

ApartAt(m, i) ==
  \E p \in Prompts, k \in 1..i :
    /\ m[k].role = "user" /\ m[k].content = PromptText(p)
    /\ \A j \in k..i : IsOfRun(m[j], p)

Apart(m) == \A i \in 1..Len(m) : ApartAt(m, i)

(* A prompt and what its run says.                                         *)
IsRun(m, p) ==
  /\ m[1].role = "user" /\ m[1].content = PromptText(p)
  /\ \A j \in 1..Len(m) : IsOfRun(m[j], p)

LEMMA NothingIsApart == Apart(<<>>)
BY DEF Apart

LEMMA RunTypes ==
  ASSUME NEW p
  PROVE  /\ TokensOf(p) \subseteq Tokens /\ BodiesOf(p) \subseteq Seq(Tokens)
         /\ TurnsOf(p) \subseteq Turns
         /\ <<>> \in BodiesOf(p) /\ NoCall \in TokensOf(p) \cup {NoCall}
<1>1. TokensOf(p) \subseteq Tokens
  BY DEF TokensOf
<1>2. BodiesOf(p) \subseteq Seq(Tokens) /\ <<>> \in BodiesOf(p)
  BY <1>1 DEF BodiesOf
<1>3. TokensOf(p) \cup {NoCall} \subseteq Tokens \cup {NoCall}
  BY <1>1
<1> DEFINE X == BodiesOf(p)
           Y == Seq(Tokens)
           C == TokensOf(p) \cup {NoCall}
           D == Tokens \cup {NoCall}
<1>4. X \subseteq Y /\ C \subseteq D
  BY <1>2, <1>3
<1>5. TurnsOf(p) = TurnsOver(X, C) /\ Turns = TurnsOver(Y, D)
  BY TurnsAreOver DEF TurnsOf
<1> HIDE DEF X, Y, C, D
<1>6. TurnsOver(X, C) \subseteq TurnsOver(Y, D)
  BY <1>4 DEF TurnsOver
<1> QED
  BY <1>1, <1>2, <1>5, <1>6

LEMMA ApartJoined ==
  ASSUME NEW a, NEW b, NEW r, IsJoined(a, b, r), Apart(a), NEW p \in Prompts, IsRun(b, p)
  PROVE  Apart(r)
<1> SUFFICES ASSUME NEW i \in 1..Len(r) PROVE ApartAt(r, i)
  BY DEF Apart
<1>1. /\ Len(a) \in Nat /\ Len(b) \in Nat /\ Len(r) = Len(a) + Len(b)
      /\ \A j \in 1..Len(a) : r[j] = a[j]
      /\ \A j \in 1..Len(b) : r[Len(a) + j] = b[j]
  BY DEF IsJoined
<1>2. CASE i \in 1..Len(a)
  <2>1. ApartAt(a, i)
    BY <1>2 DEF Apart
  <2>2. PICK q \in Prompts, k \in 1..i :
          /\ a[k].role = "user" /\ a[k].content = PromptText(q)
          /\ \A j \in k..i : IsOfRun(a[j], q)
    BY <2>1 DEF ApartAt
  <2>3. \A j \in k..i : r[j] = a[j]
    BY <1>1, <1>2
  <2>4. r[k] = a[k]
    BY <1>1, <1>2
  <2> QED
    BY <2>2, <2>3, <2>4 DEF ApartAt
<1>3. CASE i > Len(a)
  <2> DEFINE k == Len(a) + 1
  <2>1. k \in 1..i /\ 1 \in 1..Len(b)
    BY <1>1, <1>3
  <2>2. r[k] = b[1]
    BY <1>1, <2>1
  <2>3. ASSUME NEW j \in k..i PROVE IsOfRun(r[j], p)
    <3> DEFINE l == j - Len(a)
    <3>1. l \in 1..Len(b) /\ j = Len(a) + l
      BY <1>1, <1>3
    <3> HIDE DEF l
    <3>2. r[j] = b[l]
      BY <1>1, <3>1
    <3> QED
      BY <3>1, <3>2 DEF IsRun
  <2>4. r[k].role = "user" /\ r[k].content = PromptText(p)
    BY <2>2 DEF IsRun
  <2> HIDE DEF k
  <2> QED
    BY <2>1, <2>3, <2>4 DEF ApartAt
<1> QED
  BY <1>1, <1>2, <1>3

(* What the turns of a run become.                                         *)
LEMMA OverIsOfRun ==
  ASSUME NEW p, NEW m \in MessagesOver(BodiesOf(p), TokensOf(p) \cup {NoCall})
  PROVE  IsOfRun(m, p)
<1> DEFINE C == TokensOf(p) \cup {NoCall}
<1>1. \A x \in C : x # NoCall => x[1] = p
  BY DEF TokensOf
<1>2. /\ m.content \in Seq(TokensOf(p)) /\ m.reasoning \in Seq(TokensOf(p))
      /\ m.calls \in Seq(C) /\ m.answers \in C
  BY DEF MessagesOver, BodiesOf
<1>3. TokensOf(p) \subseteq C
  OBVIOUS
<1> HIDE DEF C
<1>4. /\ ToSet(m.content) \subseteq C /\ ToSet(m.reasoning) \subseteq C /\ ToSet(m.calls) \subseteq C
  BY <1>2, <1>3 DEF ToSet
<1>5. \A x \in ToSet(m.content) \cup ToSet(m.reasoning) \cup ToSet(m.calls) \cup {m.answers} : x \in C
  BY <1>2, <1>4
<1> QED
  BY <1>1, <1>5 DEF IsOfRun

LEMMA RunIsApart ==
  ASSUME NEW p \in Prompts, NEW s \in Seq(Turns), NEW k \in 1..Len(s),
         s[k] = UserTurn(PromptText(p)), \A j \in k..Len(s) : s[j] \in TurnsOf(p),
         Apart(Archive(SubSeq(s, 1, k - 1)))
  PROVE  Apart(Archive(s))
<1> DEFINE X == BodiesOf(p)
           C == TokensOf(p) \cup {NoCall}
           T == TurnsOf(p)
           t == s[k]
           o == <<t>>
           b == SubSeq(s, k, Len(s))
           c == SubSeq(s, k + 1, Len(s))
           P(x) == persistableConvTurns(x)
<1>0. Len(s) \in Nat
  OBVIOUS
<1>1. t.role = "user" /\ t.text = PromptText(p) /\ t \in T /\ o \in Seq(T)
  BY <1>0 DEF UserTurn, Turn
<1>2. ArchivedAt(s, k)
  BY <1>1, ArchiveAtPrompt
<1>3. c \in Seq(T)
  <2> DEFINE m == k + 1
             n == Len(s)
  <2>1. m \in Int /\ n \in Int /\ \A i \in m..n : s[i] \in T
    BY <1>0
  <2> HIDE DEF n, m, T
  <2>2. SubSeq(s, m, n) \in Seq(T)
    BY <2>1, SubSeqProperties
  <2> QED
    BY <2>2 DEF n, m
<1>4. /\ b = o \o c /\ b \in Seq(Turns)
      /\ Archive(SubSeq(s, 1, k - 1)) \in Seq(Messages) /\ Archive(b) \in Seq(Messages)
      /\ Archive(s) = Joined(Archive(SubSeq(s, 1, k - 1)), Archive(b))
  BY <1>2 DEF ArchivedAt
<1>5. T = TurnsOver(X, C) /\ <<>> \in X /\ NoCall \in C
  BY RunTypes DEF TurnsOf
<1>6. P(o) = o
  BY <1>1, PersistableOne DEF IsPersistable
<1> HIDE DEF X, C, T, t, o, b, c, P
<1>7. P(c) \in Seq(T) /\ P(o \o c) = P(o) \o P(c)
  BY <1>1, <1>3, PersistableConcat DEF P
<1>8. Archive(b) = LoopMessages(P(b))
  BY <1>4, ArchiveIsLoop DEF P
<1> DEFINE d == LoopMessages(P(c))
           u == UserMessage(t)
<1>9. LoopMessages(<<t>> \o P(c)) = Joined(UserOut(t), d)
  BY <1>1, <1>5, <1>7, LoopUser
<1>10. d \in Seq(MessagesOver(X, C)) /\ LoopMessages(o \o P(c)) \in Seq(MessagesOver(X, C))
  <2>1. o \o P(c) \in Seq(T)
    BY <1>1, <1>7, ConcatProperties
  <2> QED
    BY <1>5, <1>7, <2>1, LoopType
<1>11. u \in MessagesOver(X, C) /\ u.role = "user" /\ u.content = PromptText(p)
  BY <1>1, <1>5 DEF UserMessage, Message, MessagesOver, TurnsOver
<1> HIDE DEF d, u
<1>12. Archive(b) = <<u>> \o d
  BY <1>4, <1>6, <1>7, <1>8, <1>9 DEF o, u, Joined, UserOut
<1>13. Archive(b)[1] = u
  <2>1. (<<u>> \o d)[1] = u
    BY <1>10, <1>11, FirstTurn
  <2> QED
    BY <1>12, <2>1
<1>14. Archive(b) \in Seq(MessagesOver(X, C))
  BY <1>4, <1>6, <1>7, <1>8, <1>10
<1>15. \A j \in 1..Len(Archive(b)) : IsOfRun(Archive(b)[j], p)
  <2>1. \A j \in 1..Len(Archive(b)) : Archive(b)[j] \in MessagesOver(X, C)
    BY <1>14
  <2> QED
    BY <2>1, OverIsOfRun DEF X, C
<1>16. IsRun(Archive(b), p)
  BY <1>11, <1>13, <1>15 DEF IsRun
<1>17. IsJoined(Archive(SubSeq(s, 1, k - 1)), Archive(b), Archive(s))
  BY <1>4, JoinedIndex
<1> QED
  BY <1>16, <1>17, ApartJoined

-----------------------------------------------------------------------------
(* The last turn of a transcript.                                          *)
LEMMA LastSplit ==
  ASSUME NEW T, NEW s \in Seq(T), s # <<>>
  PROVE  /\ Front(s) \in Seq(T) /\ Len(Front(s)) = Len(s) - 1
         /\ \A i \in 1..(Len(s) - 1) : Front(s)[i] = s[i]
<1> DEFINE n == Len(s)
           m == n - 1
<1>1. n \in Nat \ {0} /\ \A i \in 1..n : s[i] \in T
  BY EmptySeq
<1>2. m \in Nat /\ 1 \in Int /\ m \in Int /\ \A i \in 1..m : s[i] \in T
  BY <1>1
<1>3. Front(s) = SubSeq(s, 1, m)
  BY DEF Front
<1> HIDE DEF m
<1>4. /\ SubSeq(s, 1, m) \in Seq(T)
      /\ Len(SubSeq(s, 1, m)) = IF 1 <= m THEN m - 1 + 1 ELSE 0
      /\ \A i \in 1..(m - 1 + 1) : SubSeq(s, 1, m)[i] = s[1 + i - 1]
  BY <1>2, SubSeqProperties
<1>5. Len(SubSeq(s, 1, m)) = m /\ \A i \in 1..m : SubSeq(s, 1, m)[i] = s[i]
  BY <1>2, <1>4
<1> QED
  BY <1>3, <1>4, <1>5 DEF m, n

(* From its k-th on, the turns s are of the run of prompt p.               *)
OursFrom(s, p, k) == \A j \in 1..Len(s) : j >= k => s[j] \in TurnsOf(p)

LEMMA OursConcat ==
  ASSUME NEW p, NEW k \in Nat, NEW s \in Seq(Turns), OursFrom(s, p, k), NEW u \in Seq(TurnsOf(p))
  PROVE  OursFrom(s \o u, p, k)
<1>1. /\ Len(s) \in Nat /\ Len(u) \in Nat /\ Len(s \o u) = Len(s) + Len(u)
      /\ \A i \in 1..(Len(s) + Len(u)) : (s \o u)[i] = IF i <= Len(s) THEN s[i] ELSE u[i - Len(s)]
  <2>1. u \in Seq(Turns)
    BY RunTypes
  <2> QED
    BY <2>1, ConcatProperties
<1> DEFINE r == s \o u
<1> HIDE DEF r
<1>2. ASSUME NEW j \in 1..Len(r), j >= k PROVE r[j] \in TurnsOf(p)
  <2>1. CASE j <= Len(s)
    <3>1. j \in 1..Len(s) /\ r[j] = s[j]
      BY <1>1, <2>1 DEF r
    <3> QED
      BY <1>2, <3>1 DEF OursFrom
  <2>2. CASE j > Len(s)
    <3> DEFINE l == j - Len(s)
    <3>1. l \in 1..Len(u) /\ r[j] = u[l]
      BY <1>1, <2>2 DEF r
    <3> HIDE DEF l
    <3> QED
      BY <3>1
  <2> QED
    BY <1>1, <2>1, <2>2 DEF r
<1> QED
  BY <1>2 DEF OursFrom, r

LEMMA OursAppend ==
  ASSUME NEW p, NEW k \in Nat, NEW s \in Seq(Turns), OursFrom(s, p, k), NEW t \in TurnsOf(p)
  PROVE  OursFrom(Append(s, t), p, k)
<1>1. t \in Turns /\ <<t>> \in Seq(TurnsOf(p))
  BY RunTypes
<1>2. Append(s, t) = s \o <<t>>
  BY <1>1, AppendIsConcat
<1> QED
  BY <1>1, <1>2, OursConcat

LEMMA OursLast ==
  ASSUME NEW p, NEW k \in Nat, NEW s \in Seq(Turns), s # <<>>, OursFrom(s, p, k), NEW t \in Turns,
         s[Len(s)] \in TurnsOf(p) => t \in TurnsOf(p)
  PROVE  OursFrom([s EXCEPT ![Len(s)] = t], p, k)
<1> DEFINE u == [s EXCEPT ![Len(s)] = t]
<1>1. Len(s) \in Nat /\ Len(s) \in 1..Len(s)
  BY EmptySeq
<1>2. Len(u) = Len(s) /\ \A j \in 1..Len(s) : u[j] = IF j = Len(s) THEN t ELSE s[j]
  BY <1>1, ExceptSeq
<1> HIDE DEF u
<1>3. ASSUME NEW j \in 1..Len(u), j >= k PROVE u[j] \in TurnsOf(p)
  <2>1. j \in 1..Len(s) /\ s[j] \in TurnsOf(p)
    BY <1>2, <1>3 DEF OursFrom
  <2> QED
    BY <1>2, <2>1
<1> QED
  BY <1>3 DEF OursFrom, u

LEMMA OursFront ==
  ASSUME NEW p, NEW k \in Nat, NEW s \in Seq(Turns), s # <<>>, OursFrom(s, p, k)
  PROVE  OursFrom(Front(s), p, k)
<1>1. /\ Len(s) \in Nat /\ Len(Front(s)) = Len(s) - 1
      /\ \A i \in 1..(Len(s) - 1) : Front(s)[i] = s[i]
  BY LastSplit
<1> DEFINE f == Front(s)
<1>2. \A j \in 1..Len(f) : j \in 1..Len(s) /\ f[j] = s[j]
  BY <1>1
<1> HIDE DEF f
<1> QED
  BY <1>2 DEF OursFrom, f

-----------------------------------------------------------------------------
(* The edits of the view.                                                  *)
Ours(v, p, k) ==
  /\ v \in Views /\ OursFrom(v.turns, p, k)
  /\ v.pending \in BodiesOf(p) /\ v.pendingReasoning \in BodiesOf(p)

LEMMA RunTurnTypes ==
  ASSUME NEW p
  PROVE  /\ StreamingTurn \in TurnsOf(p)
         /\ \A s \in BodiesOf(p) : UserTurn(s) \in TurnsOf(p) /\ ToolResultTurn(s) \in TurnsOf(p)
         /\ \A c \in TokensOf(p) : ToolCallTurn(c) \in TurnsOf(p)
         /\ \A role \in {"error", "meta"} : NoteTurn(role) \in TurnsOf(p)
<1> DEFINE X == BodiesOf(p)
           C == TokensOf(p) \cup {NoCall}
<1>1. <<>> \in X /\ NoCall \in C /\ TokensOf(p) \subseteq C /\ TurnsOf(p) = TurnsOver(X, C)
  BY RunTypes DEF TurnsOf
<1> HIDE DEF X, C
<1>2. /\ StreamingTurn \in TurnsOver(X, C)
      /\ \A s \in X : UserTurn(s) \in TurnsOver(X, C) /\ ToolResultTurn(s) \in TurnsOver(X, C)
      /\ \A c \in TokensOf(p) : ToolCallTurn(c) \in TurnsOver(X, C)
      /\ \A role \in {"error", "meta"} : NoteTurn(role) \in TurnsOver(X, C)
  BY <1>1 DEF StreamingTurn, UserTurn, ToolResultTurn, ToolCallTurn, NoteTurn, Turn, TurnsOver
<1> QED
  BY <1>1, <1>2 DEF X

LEMMA AddTurnOurs ==
  ASSUME NEW p, NEW k \in Nat, NEW v, Ours(v, p, k), NEW t \in TurnsOf(p)
  PROVE  Ours(AddTurn(v, t), p, k)
<1>1. v \in Views /\ v.turns \in Seq(Turns) /\ t \in Turns
  BY RunTypes DEF Ours, Views
<1>2. AddTurn(v, t) \in Views /\ AddTurn(v, t).turns = Append(v.turns, t)
  BY <1>1, AddTurnEdits DEF Edits
<1>3. OursFrom(Append(v.turns, t), p, k)
  BY <1>1, OursAppend DEF Ours
<1>4. AddTurn(v, t).pending = v.pending /\ AddTurn(v, t).pendingReasoning = v.pendingReasoning
  BY <1>1 DEF AddTurn, Views
<1> QED
  BY <1>2, <1>3, <1>4 DEF Ours

LEMMA LastTurnOurs ==
  ASSUME NEW p, NEW k \in Nat, NEW v, Ours(v, p, k), EndsWithAssistant(v), NEW t \in Turns,
         v.turns[Len(v.turns)] \in TurnsOf(p) => t \in TurnsOf(p),
         NEW w, w = [v EXCEPT !.turns = [v.turns EXCEPT ![Len(v.turns)] = t]]
  PROVE  Ours(w, p, k)
<1> DEFINE u == [v.turns EXCEPT ![Len(v.turns)] = t]
<1>1. v \in Views /\ v.turns \in Seq(Turns) /\ v.turns # <<>>
  BY DEF Ours, Views, EndsWithAssistant
<1>2. w \in Views
  BY <1>1, LastTurnEdits DEF Edits
<1>3. OursFrom(u, p, k)
  BY <1>1, OursLast DEF Ours
<1> HIDE DEF u
<1>4. w.turns = u /\ w.pending = v.pending /\ w.pendingReasoning = v.pendingReasoning
  BY <1>1 DEF Views, u
<1> QED
  BY <1>2, <1>3, <1>4 DEF Ours

LEMMA ChunkOurs ==
  ASSUME NEW p, NEW k \in Nat, NEW v, Ours(v, p, k), NEW s \in BodiesOf(p)
  PROVE  Ours(appendAssistantChunk(v, s), p, k)
<1>0. v \in Views /\ s \in Seq(Tokens)
  BY RunTypes DEF Ours
<1>1. CASE EndsWithAssistant(v)
  <2> DEFINE l == v.turns[Len(v.turns)]
             t == [l EXCEPT !.text = l.text \o s, !.stream = FALSE]
  <2>1. l \in Turns
    BY <1>0, <1>1, LastTurnType
  <2>2. t \in Turns
    BY <1>0, <2>1, ConcatProperties DEF Turns
  <2>3. l \in TurnsOf(p) => t \in TurnsOf(p)
    BY ConcatProperties DEF TurnsOf, TurnsOver, BodiesOf
  <2>4. appendAssistantChunk(v, s) = [v EXCEPT !.turns = [v.turns EXCEPT ![Len(v.turns)] = t]]
    <3>1. LastTurn(v) = l
      BY DEF LastTurn
    <3> HIDE DEF l
    <3> QED
      BY <1>0, <1>1, <3>1 DEF appendAssistantChunk, Views
  <2> HIDE DEF t
  <2> QED
    BY <1>1, <2>2, <2>3, <2>4, LastTurnOurs
<1>2. CASE ~ EndsWithAssistant(v)
  BY <1>2 DEF appendAssistantChunk
<1> QED
  BY <1>1, <1>2

LEMMA ReasoningOurs ==
  ASSUME NEW p, NEW k \in Nat, NEW v, Ours(v, p, k), NEW s \in BodiesOf(p)
  PROVE  Ours(appendAssistantReasoning(v, s), p, k)
<1>0. v \in Views /\ s \in Seq(Tokens)
  BY RunTypes DEF Ours
<1>1. CASE EndsWithAssistant(v)
  <2> DEFINE l == v.turns[Len(v.turns)]
             t == [l EXCEPT !.reasoning = l.reasoning \o s]
  <2>1. l \in Turns
    BY <1>0, <1>1, LastTurnType
  <2>2. t \in Turns
    BY <1>0, <2>1, ConcatProperties DEF Turns
  <2>3. l \in TurnsOf(p) => t \in TurnsOf(p)
    BY ConcatProperties DEF TurnsOf, TurnsOver, BodiesOf
  <2>4. appendAssistantReasoning(v, s) = [v EXCEPT !.turns = [v.turns EXCEPT ![Len(v.turns)] = t]]
    BY <1>0, <1>1 DEF appendAssistantReasoning, Views
  <2> HIDE DEF t
  <2> QED
    BY <1>1, <2>2, <2>3, <2>4, LastTurnOurs
<1>2. CASE ~ EndsWithAssistant(v)
  BY <1>2 DEF appendAssistantReasoning
<1> QED
  BY <1>1, <1>2

LEMMA FinalizeOurs ==
  ASSUME NEW p, NEW k \in Nat, NEW v, Ours(v, p, k)
  PROVE  Ours(finalizeAssistantStream(v), p, k)
<1>0. v \in Views
  BY DEF Ours
<1>1. CASE EndsWithAssistant(v)
  <2> DEFINE l == v.turns[Len(v.turns)]
             t == [l EXCEPT !.stream = FALSE]
  <2>1. l \in Turns
    BY <1>0, <1>1, LastTurnType
  <2>2. t \in Turns
    BY <2>1 DEF Turns
  <2>3. l \in TurnsOf(p) => t \in TurnsOf(p)
    BY DEF TurnsOf, TurnsOver
  <2>4. finalizeAssistantStream(v) = [v EXCEPT !.turns = [v.turns EXCEPT ![Len(v.turns)] = t]]
    BY <1>0, <1>1 DEF finalizeAssistantStream, Views
  <2> HIDE DEF t
  <2> QED
    BY <1>1, <2>2, <2>3, <2>4, LastTurnOurs
<1>2. CASE ~ EndsWithAssistant(v)
  BY <1>2 DEF finalizeAssistantStream
<1> QED
  BY <1>1, <1>2

LEMMA StripOurs ==
  ASSUME NEW p, NEW k \in Nat, NEW v, Ours(v, p, k)
  PROVE  Ours(stripTrailingEmptyAssistant(v), p, k)
<1> DEFINE w == stripTrailingEmptyAssistant(v)
<1>0. v \in Views /\ w \in Views /\ v.turns \in Seq(Turns)
  BY StripEdits DEF Ours, Edits, Views
<1>1. CASE w = v
  BY <1>1
<1>2. CASE w # v
  <2>1. EndsWithAssistant(v) /\ w = [v EXCEPT !.turns = Front(v.turns)]
    BY <1>2 DEF stripTrailingEmptyAssistant
  <2>2. OursFrom(Front(v.turns), p, k)
    BY <1>0, <2>1, OursFront DEF Ours, EndsWithAssistant
  <2> HIDE DEF w
  <2>3. w.turns = Front(v.turns) /\ w.pending = v.pending /\ w.pendingReasoning = v.pendingReasoning
    BY <1>0, <2>1 DEF Views
  <2> QED
    BY <1>0, <2>2, <2>3 DEF Ours, w
<1> QED
  BY <1>1, <1>2

LEMMA FlushOurs ==
  ASSUME NEW p, NEW k \in Nat, NEW v, Ours(v, p, k)
  PROVE  Ours(Flush(v), p, k)
<1> DEFINE r == IF v.pendingReasoning # <<>>
                THEN appendAssistantReasoning(v, v.pendingReasoning) ELSE v
           t == IF v.pending # <<>> THEN appendAssistantChunk(r, v.pending) ELSE r
           f == [t EXCEPT !.pending = <<>>, !.pendingReasoning = <<>>]
<1>1. v \in Views /\ v.pending \in BodiesOf(p) /\ v.pendingReasoning \in BodiesOf(p)
  BY DEF Ours
<1>2. Ours(r, p, k)
  BY <1>1, ReasoningOurs
<1> HIDE DEF r
<1>3. Ours(t, p, k)
  BY <1>1, <1>2, ChunkOurs
<1>4. Flush(v) = f
  BY DEF Flush, f, t, r
<1>5. Flush(v) \in Views /\ Flush(v).pending = <<>> /\ Flush(v).pendingReasoning = <<>>
  BY <1>1, FlushEdits DEF Edits
<1> HIDE DEF t
<1>6. f.turns = t.turns
  BY <1>3 DEF Ours, Views
<1> HIDE DEF f
<1>7. <<>> \in BodiesOf(p)
  BY RunTypes
<1> QED
  BY <1>3, <1>4, <1>5, <1>6, <1>7 DEF Ours

LEMMA EnsureOurs ==
  ASSUME NEW p, NEW k \in Nat, NEW v, Ours(v, p, k)
  PROVE  Ours(ensureStreamingAssistantTurn(v), p, k)
BY AddTurnOurs, RunTurnTypes DEF ensureStreamingAssistantTurn

LEMMA SettledOurs ==
  ASSUME NEW p, NEW k \in Nat, NEW v, Ours(v, p, k)
  PROVE  /\ Ours(finalizeAssistantStream(Flush(v)), p, k)
         /\ Ours(stripTrailingEmptyAssistant(finalizeAssistantStream(Flush(v))), p, k)
<1> DEFINE f == Flush(v)
           g == finalizeAssistantStream(f)
<1>1. Ours(f, p, k)
  BY FlushOurs
<1> HIDE DEF f
<1>2. Ours(g, p, k)
  BY <1>1, FinalizeOurs
<1> HIDE DEF g
<1>3. Ours(stripTrailingEmptyAssistant(g), p, k)
  BY <1>2, StripOurs
<1> QED
  BY <1>2, <1>3 DEF f, g

(* Every message of the run keeps to it.                                   *)
LEMMA ShowOurs ==
  ASSUME NEW p, NEW k \in Nat, NEW v, Ours(v, p, k), NEW m \in StreamMsgs, m.body \in BodiesOf(p)
  PROVE  Ours(Show(v, m), p, k)
<1> DEFINE e == ensureStreamingAssistantTurn(v)
           f == finalizeAssistantStream(Flush(v))
           h == stripTrailingEmptyAssistant(f)
           calls == [i \in 1..Len(m.body) |-> ToolCallTurn(m.body[i])]
<1>0. v \in Views /\ Show(v, m) \in Views
  BY ShowEdits DEF Ours, Edits
<1>1. Ours(e, p, k) /\ Ours(f, p, k) /\ Ours(h, p, k)
  BY EnsureOurs, SettledOurs
<1>2. e \in Views /\ h \in Views
  BY <1>1 DEF Ours
<1>3. CASE m.kind = "err"
  <2>1. Show(v, m) = AddTurn(h, NoteTurn("error"))
    BY <1>3 DEF Show, ShowError
  <2> HIDE DEF h
  <2> QED
    BY <1>1, <2>1, AddTurnOurs, RunTurnTypes
<1>4. CASE m.kind = "done"
  <2>1. Show(v, m) = AddTurn(f, NoteTurn("meta")) \/ Show(v, m) = f
    BY <1>4 DEF Show, ShowDone
  <2> HIDE DEF f
  <2> QED
    BY <1>1, <2>1, AddTurnOurs, RunTurnTypes
<1>5. CASE m.kind = "calls"
  <2>1. Show(v, m) = [h EXCEPT !.turns = h.turns \o calls]
    BY <1>5 DEF Show, ShowToolCalls
  <2>2. calls \in Seq(TurnsOf(p))
    <3>1. \A i \in 1..Len(m.body) : m.body[i] \in TokensOf(p)
      BY DEF BodiesOf
    <3>2. \A i \in 1..Len(m.body) : ToolCallTurn(m.body[i]) \in TurnsOf(p)
      BY <3>1, RunTurnTypes
    <3>3. Len(m.body) \in Nat
      BY DEF BodiesOf
    <3> QED
      BY <3>2, <3>3
  <2> HIDE DEF h, calls
  <2>3. OursFrom(h.turns \o calls, p, k)
    BY <1>1, <1>2, <2>2, OursConcat DEF Ours, Views
  <2> DEFINE u == h.turns \o calls
             w == Show(v, m)
  <2>4. w = [h EXCEPT !.turns = u] /\ OursFrom(u, p, k) /\ w \in Views
    BY <1>0, <2>1, <2>3
  <2> HIDE DEF u, w
  <2>5. w.turns = u /\ w.pending = h.pending /\ w.pendingReasoning = h.pendingReasoning
    BY <1>2, <2>4 DEF Views
  <2>6. Ours(w, p, k)
    BY <1>1, <2>4, <2>5 DEF Ours
  <2> QED
    BY <2>6 DEF w
<1>6. CASE m.kind = "result"
  <2>1. Show(v, m) = v \/ Show(v, m) = AddTurn(v, ToolResultTurn(m.body))
    BY <1>6 DEF Show, ShowToolResult
  <2> QED
    BY <2>1, AddTurnOurs, RunTurnTypes
<1>7. CASE m.kind = "reasoning"
  <2> DEFINE w == Show(v, m)
  <2>1. w = [e EXCEPT !.pendingReasoning = e.pendingReasoning \o m.body]
    BY <1>7 DEF Show, ShowReasoning
  <2> HIDE DEF e, w
  <2>2. /\ w.turns = e.turns /\ w.pending = e.pending
        /\ w.pendingReasoning = e.pendingReasoning \o m.body
    BY <1>2, <2>1 DEF Views
  <2>3. e.pendingReasoning \o m.body \in BodiesOf(p)
    BY <1>1, ConcatProperties DEF Ours, BodiesOf
  <2> QED
    BY <1>0, <1>1, <2>2, <2>3 DEF Ours, w
<1>8. CASE m.kind = "text"
  <2> DEFINE w == Show(v, m)
  <2>1. w = [e EXCEPT !.pending = e.pending \o m.body]
    BY <1>8 DEF Show, ShowText
  <2> HIDE DEF e, w
  <2>2. /\ w.turns = e.turns /\ w.pending = e.pending \o m.body
        /\ w.pendingReasoning = e.pendingReasoning
    BY <1>2, <2>1 DEF Views
  <2>3. e.pending \o m.body \in BodiesOf(p)
    BY <1>1, ConcatProperties DEF Ours, BodiesOf
  <2> QED
    BY <1>0, <1>1, <2>2, <2>3 DEF Ours, w
<1> QED
  BY <1>3, <1>4, <1>5, <1>6, <1>7, <1>8 DEF StreamMsgs

-----------------------------------------------------------------------------
(* The run on the screen: it stands behind its prompt, the k-th turn, and  *)
(* what stands before keeps the runs apart.                                *)
HoldsRun(v, p, k) ==
  /\ Ours(v, p, k)
  /\ k \in 1..Len(v.turns) /\ v.turns[k] = UserTurn(PromptText(p))
  /\ Apart(Archive(SubSeq(v.turns, 1, k - 1)))

LEMMA RunOnScreen ==
  ASSUME NEW p \in Prompts, NEW v, NEW k, HoldsRun(v, p, k)
  PROVE  Apart(Archive(v.turns))
<1> DEFINE s == v.turns
<1>1. s \in Seq(Turns) /\ k \in 1..Len(s) /\ Len(s) \in Nat
  BY DEF HoldsRun, Ours, Views
<1>2. \A j \in 1..Len(s) : j >= k => s[j] \in TurnsOf(p)
  BY DEF HoldsRun, Ours, OursFrom
<1>3. s[k] = UserTurn(PromptText(p)) /\ Apart(Archive(SubSeq(s, 1, k - 1)))
  BY DEF HoldsRun
<1> HIDE DEF s
<1>4. \A j \in k..Len(s) : s[j] \in TurnsOf(p)
  BY <1>1, <1>2
<1>5. Apart(Archive(s))
  BY <1>1, <1>3, <1>4, RunIsApart
<1> QED
  BY <1>5 DEF s

LEMMA ShowHolds ==
  ASSUME NEW p \in Prompts, NEW v, NEW k, HoldsRun(v, p, k),
         NEW m \in StreamMsgs, m.body \in BodiesOf(p)
  PROVE  HoldsRun(Show(v, m), p, k)
<1> DEFINE w == Show(v, m)
<1>1. v \in Views /\ k \in 1..Len(v.turns) /\ v.turns[k] = UserTurn(PromptText(p)) /\ k \in Nat
  BY DEF HoldsRun, Ours
<1>2. v.turns[k].role = "user"
  BY <1>1 DEF UserTurn, Turn
<1>3. Ours(w, p, k)
  BY <1>1, ShowOurs DEF HoldsRun
<1>4. Edits(v, w)
  BY <1>1, ShowEdits
<1> HIDE DEF w
<1>5. k \in 1..Len(w.turns) /\ SubSeq(w.turns, 1, k - 1) = SubSeq(v.turns, 1, k - 1)
  BY <1>1, <1>2, <1>4, EditsPrompt
<1>6. w.turns[k] = v.turns[k]
  <2>1. \A i \in 1..k : w.turns[i] = v.turns[i]
    BY <1>1, <1>2, <1>4 DEF Edits, Keeps
  <2> QED
    BY <1>1, <2>1
<1> QED
  BY <1>1, <1>3, <1>5, <1>6 DEF HoldsRun, w

LEMMA PromptHolds ==
  ASSUME NEW p \in Prompts, NEW v \in Views, Apart(Archive(v.turns))
  PROVE  HoldsRun(BeginAnswer(v, PromptText(p)), p, Len(v.turns) + 1)
<1> DEFINE x == PromptText(p)
           u == UserTurn(x)
           s == v.turns
           a == <<u, StreamingTurn>>
           t == s \o a
           k == Len(s) + 1
           w == BeginAnswer(v, x)
<1>1. p \in Nat /\ x \in BodiesOf(p)
  <2>1. p \in Nat
    BY ConstantsAssumption DEF Prompts
  <2>2. <<p, 0, 0>> \in TokensOf(p)
    BY <2>1 DEF TokensOf, Tokens
  <2> QED
    BY <2>1, <2>2 DEF PromptText, BodiesOf
<1>2. x \in Seq(Tokens) /\ s \in Seq(Turns) /\ Len(s) \in Nat
  BY <1>1, RunTypes DEF Views
<1>3. u \in TurnsOf(p) /\ StreamingTurn \in TurnsOf(p)
  BY <1>1, RunTurnTypes
<1> HIDE DEF x
<1>4. w.turns = t /\ w \in Views
  BY <1>2, BeginAnswerEdits DEF Edits
<1>5. w.pending = <<>> /\ w.pendingReasoning = <<>> /\ <<>> \in BodiesOf(p)
  BY RunTypes DEF BeginAnswer, View
<1>6. a \in Seq(TurnsOf(p))
  BY <1>3
<1>7. k \in 1..Len(t) /\ t[k] = u /\ SubSeq(t, 1, k - 1) = s
  BY <1>2, PromptSplits
<1>8. OursFrom(t, p, k)
  <2>1. OursFrom(s, p, k)
    BY <1>2 DEF OursFrom
  <2>2. k \in Nat
    BY <1>2
  <2> HIDE DEF a, s, k
  <2> QED
    BY <1>2, <1>6, <2>1, <2>2, OursConcat
<1> HIDE DEF w, t, k
<1>9. Ours(w, p, k)
  BY <1>4, <1>5, <1>8 DEF Ours
<1>10. HoldsRun(w, p, k)
  BY <1>4, <1>7, <1>9 DEF HoldsRun, x
<1> QED
  BY <1>10 DEF w, k, x

-----------------------------------------------------------------------------
(* The runs stay apart on the screen and in the archives.                  *)
ScreenApart ==
  /\ busy => \E k \in 1..Len(view.turns) : HoldsRun(view, asked, k)
  /\ ~busy => Apart(Archive(view.turns))

FilesApart == \A c \in DOMAIN convFile : Apart(convFile[c])

LEMMA AskedIsPrompt == IInv /\ busy => asked \in Prompts
BY ConstantsAssumption DEF IInv, TypeOK, BusyRuns, Runs, Prompts

(* What is shown can be archived, in the middle of a run too.              *)
LEMMA ScreenIsApart ==
  ASSUME IInv, ScreenApart
  PROVE  Apart(Archive(view.turns))
<1>1. CASE busy
  <2>1. PICK k \in 1..Len(view.turns) : HoldsRun(view, asked, k)
    BY <1>1 DEF ScreenApart
  <2> QED
    BY <1>1, <2>1, AskedIsPrompt, RunOnScreen
<1> QED
  BY <1>1 DEF ScreenApart

LEMMA FilesKept ==
  ASSUME FilesApart, UNCHANGED convFile
  PROVE  FilesApart'
BY DEF FilesApart

LEMMA SaveApart ==
  ASSUME FilesApart, NEW t, Save(t), Apart(Archive(t))
  PROVE  FilesApart'
BY DEF FilesApart, Save

LEMMA NoteApart ==
  ASSUME RInv, ScreenApart, ~busy, ~busy',
         \/ view' = AddTurn(view, NoteTurn("meta"))
         \/ view' = [view EXCEPT !.turns = <<NoteTurn("meta")>>]
  PROVE  ScreenApart'
<1>1. view \in Views /\ view.turns \in Seq(Turns) /\ NoteTurn("meta") \in Turns
  BY TurnTypes DEF RInv, ViewOK, Views
<1>2. Apart(Archive(view'.turns))
  <2>1. CASE view' = AddTurn(view, NoteTurn("meta"))
    <3>1. view'.turns = Append(view.turns, NoteTurn("meta"))
      BY <1>1, <2>1, AddTurnEdits
    <3> QED
      BY <1>1, <3>1, NoNoteIsArchived DEF ScreenApart
  <2>2. CASE view' = [view EXCEPT !.turns = <<NoteTurn("meta")>>]
    <3>1. view'.turns = <<NoteTurn("meta")>>
      BY <1>1, <2>2 DEF Views
    <3> QED
      BY <3>1, NoNoteIsArchived, NothingIsApart
  <2> QED
    BY <2>1, <2>2
<1> QED
  BY <1>2 DEF ScreenApart

LEMMA PromptApart ==
  ASSUME RInv, ScreenApart, StartRun
  PROVE  ScreenApart'
<1> DEFINE p == asked + 1
           k == Len(view.turns) + 1
           w == BeginAnswer(view, PromptText(p))
<1>1. ~busy /\ busy' = TRUE /\ asked' = p /\ view' = w /\ asked < MaxRuns
  BY DEF StartRun
<1>2. p \in Prompts
  BY <1>1, ConstantsAssumption DEF RInv, IInv, TypeOK, Prompts
<1>3. view \in Views /\ Apart(Archive(view.turns))
  BY <1>1 DEF RInv, ViewOK, ScreenApart
<1>4. HoldsRun(w, p, k)
  BY <1>2, <1>3, PromptHolds
<1>5. k \in 1..Len(w.turns)
  BY <1>4 DEF HoldsRun
<1> HIDE DEF p, k, w
<1> QED
  BY <1>1, <1>4, <1>5 DEF ScreenApart

(* Messages of the run on the screen are of its prompt; the others are     *)
(* dropped.                                                                *)
LEMMA DeliverApart ==
  ASSUME RInv, BusPrompts, ScreenApart, Deliver
  PROVE  ScreenApart'
<1> PICK i \in 1..Len(inbox) : DropMessage(i) \/ ShowMessage(i) \/ EndRun(i)
  BY DEF Deliver
<1> DEFINE m == inbox[i]
<1>1. inbox' = RemoveAt(inbox, i) /\ UNCHANGED <<runID, ch, asked>>
  BY DEF DropMessage, ShowMessage, EndRun, uiVars
<1>2. m \in StreamMsgs /\ busy /\ ~editing /\ IInv
  BY <1>1, TakingOldest DEF RInv
<1>3. CASE DropMessage(i)
  BY <1>3 DEF DropMessage, uiVars, ScreenApart
<1>4. CASE ShowMessage(i) \/ EndRun(i)
  <2>1. m.run = runID /\ view' = Show(view, m)
    BY <1>4 DEF ShowMessage, EndRun, IsCurrent
  <2>2. asked \in Prompts
    BY <1>2, AskedIsPrompt
  <2>3. m.body \in BodiesOf(asked)
    <3>1. m \in SafeMsgs(Before)
      BY ElementOfSeq DEF BusPrompts
    <3>2. runID + Before = asked
      BY <1>2, ConstantsAssumption DEF IInv, TypeOK, Before
    <3> QED
      BY <2>1, <3>1, <3>2 DEF SafeMsgs
  <2>4. PICK k \in 1..Len(view.turns) : HoldsRun(view, asked, k)
    BY <1>2 DEF ScreenApart
  <2> HIDE DEF m
  <2> DEFINE w == Show(view, m)
  <2>5. HoldsRun(w, asked, k)
    BY <1>2, <2>2, <2>3, <2>4, ShowHolds
  <2>6. k \in 1..Len(w.turns)
    BY <2>5 DEF HoldsRun
  <2>7. Apart(Archive(w.turns))
    BY <2>2, <2>5, RunOnScreen
  <2> HIDE DEF w
  <2>8. view' = w /\ asked' = asked
    BY <1>1, <2>1 DEF w
  <2> QED
    BY <2>5, <2>6, <2>7, <2>8 DEF ScreenApart
<1> QED
  BY <1>3, <1>4

LEMMA NextApart ==
  ASSUME RInv, BusPrompts, ScreenApart, [Next]_vars
  PROVE  ScreenApart'
<1>1. CASE StartRun
  BY <1>1, PromptApart
<1>2. CASE LeaveNote \/ NewTranscript \/ CloseEditorNoting
  <2>1. /\ ~busy /\ ~busy'
        /\ \/ view' = AddTurn(view, NoteTurn("meta"))
           \/ view' = [view EXCEPT !.turns = <<NoteTurn("meta")>>]
    BY <1>2 DEF RInv, IInv, PumpDiscipline, LeaveNote, NewTranscript, CloseEditorNoting
  <2> QED
    BY <2>1, NoteApart
<1>3. CASE Deliver
  BY <1>3, DeliverApart
<1>4. CASE CancelRun \/ Pump \/ OpenEditor \/ CloseEditor \/ UNCHANGED vars
  BY <1>4 DEF CancelRun, Pump, OpenEditor, CloseEditor, uiVars, vars, ScreenApart
<1>5. CASE \E r \in Runs : Goroutine(r) \/ AgentStep(r) \/ CaptureSession(r)
  <2> PICK r \in Runs : Goroutine(r) \/ AgentStep(r) \/ CaptureSession(r)
    BY <1>5
  <2>1. UNCHANGED uiVars
    <3>1. CASE Goroutine(r) \/ CaptureSession(r)
      BY <3>1 DEF Goroutine, CheckContext, Deferred, Send, CaptureSession
    <3>2. CASE RunStops(r) \/ RunFails(r) \/ StreamChunk(r) \/ StreamEnds(r)
      BY <3>2 DEF RunStops, RunFails, StreamChunk, StreamEnds
    <3>3. ASSUME NEW a \in Agents, WholeMessage(r, a) \/ StreamBegins(r, a) \/ ToolResult(r, a)
          PROVE  UNCHANGED uiVars
      BY <3>3 DEF WholeMessage, StreamBegins, ToolResult
    <3> QED
      BY <3>1, <3>2, <3>3 DEF AgentStep
  <2> QED
    BY <2>1 DEF uiVars, ScreenApart
<1> QED
  BY <1>1, <1>2, <1>3, <1>4, <1>5 DEF Next, UserStep

(* A process that starts shows what is in the file, or an error.           *)
LEMMA StartApart ==
  ASSUME RInv, ProcInv, ArchiveInv, FilesApart, Starts
  PROVE  ScreenApart' /\ FilesApart'
<1> PICK c \in Convs : Boot(c)
  BY DEF Starts
<1>1. ~busy' /\ convFile' = convFile
  BY DEF Boot, ProcInv, diskVars
<1>2. CASE view'.turns = MessagesToTurns(ArchiveOf(c))
  <2> DEFINE m == ArchiveOf(c)
  <2>1. IsArchive(m) /\ Apart(m)
    BY ArchiveOfIsArchive, NothingIsApart DEF ArchiveOf, FilesApart
  <2>2. view'.turns = MessagesToTurns(m)
    BY <1>2
  <2> HIDE DEF m
  <2>3. Archive(MessagesToTurns(m)) = m
    BY <2>1, ArchiveComesBack
  <2> QED
    BY <1>1, <2>1, <2>2, <2>3, FilesKept DEF ScreenApart
<1>3. CASE view'.turns = <<NoteTurn("error")>>
  <2>1. Archive(view'.turns) = <<>>
    BY <1>3, NoNoteIsArchived
  <2> QED
    BY <1>1, <2>1, NothingIsApart, FilesKept DEF ScreenApart
<1> QED
  BY <1>2, <1>3, BootedView

LEMMA DeadApart == Dead => ScreenApart
<1> SUFFICES ASSUME Dead PROVE ScreenApart
  OBVIOUS
<1>1. ~busy /\ view.turns = <<>>
  BY DEF Dead, EmptyView, View
<1>2. Archive(<<>>) = <<>>
  <2> DEFINE e == <<>>
             n == NoteTurn("meta")
  <2>1. e \in Seq(Turns) /\ Append(e, n) = <<n>>
    OBVIOUS
  <2>2. Archive(Append(e, n)) = Archive(e) /\ Archive(<<n>>) = <<>>
    BY <2>1, NoNoteIsArchived
  <2> HIDE DEF n
  <2> QED
    BY <2>1, <2>2
<1> QED
  BY <1>1, <1>2, NothingIsApart DEF ScreenApart

LEMMA DieApart ==
  ASSUME RInv, FilesApart, Dies
  PROVE  ScreenApart' /\ FilesApart'
<1>1. Dead' /\ proc' = "down"
  BY DiesAreDead
<1>2. convFile' = convFile
  BY <1>1 DEF Dies, Crash, ExitSavesConversation, ExitSavesSession, SaveFails, diskVars
<1>3. Dead' => ScreenApart'
  BY DeadApart, PTL
<1> QED
  BY <1>1, <1>2, <1>3, FilesKept

LEMMA ApartKept == TInv /\ ScreenApart /\ FilesApart /\ [TuiNext]_tuiVars => ScreenApart' /\ FilesApart'
<1> SUFFICES ASSUME TInv, ScreenApart, FilesApart, [TuiNext]_tuiVars
             PROVE  ScreenApart' /\ FilesApart'
  OBVIOUS
<1>0. RInv /\ IInv /\ ProcInv /\ ArchiveInv /\ BusPrompts
  BY DEF TInv, RInv, PromptInv
<1>1. CASE Starts
  BY <1>0, <1>1, StartApart
<1>2. CASE Dies
  BY <1>0, <1>2, DieApart
<1>3. CASE Rests \/ Commands \/ Ends \/ Goes
  <2>1. [Next]_vars
    BY <1>3, CommandsAreNext, EndsAreNext, GoesAreNext DEF Rests
  <2>2. ScreenApart'
    BY <1>0, <2>1, NextApart
  <2>3. CASE Rests
    <3>1. convFile' = convFile \/ Save(view.turns)
      BY <2>3 DEF Rests, Quit, ExitSavesConversation, SaveFails, tuiVars, diskVars
    <3> QED
      BY <1>0, <2>2, <3>1, ScreenIsApart, SaveApart, FilesKept
  <2>4. CASE Ends
    <3> PICK i \in 1..Len(inbox) : EndRunAndSave(i)
      BY <2>4 DEF Ends
    <3>1. Apart(Archive(view'.turns))
      BY <2>2 DEF ScreenApart, EndRunAndSave, EndRun
    <3>2. convFile' = convFile \/ Save(view'.turns)
      BY DEF EndRunAndSave, SaveFails
    <3> QED
      BY <2>2, <3>1, <3>2, SaveApart, FilesKept
  <2>5. CASE Commands \/ Goes
    <3>1. UNCHANGED convFile
      BY <2>5 DEF Commands, StartNewConversation, Reload, Goes, diskVars
    <3> QED
      BY <2>2, <3>1, FilesKept
  <2> QED
    BY <1>3, <2>3, <2>4, <2>5
<1> QED
  BY <1>1, <1>2, <1>3, TuiSteps

(* Runs do not mix in the archives: with any number of agents, their tools *)
(* answering in any order, all that stands behind a prompt in an archive   *)
(* is of its run, and nothing stands before the first prompt.  So what a   *)
(* cancelled, failed or forgotten run still sends never reaches a later    *)
(* one, whatever is saved, reloaded, crashed or started again.             *)
THEOREM RunsStayApart == TuiSpec => []ArchivedRunsStayApart
<1>1. TuiInit => TInv /\ ScreenApart /\ FilesApart
  <2>1. TuiInit => Dead /\ FilesApart
    BY ConstantsAssumption DEF TuiInit, Init, Dead, FilesApart
  <2> QED
    BY <2>1, InitTInv, DeadApart
<1>2. TInv /\ ScreenApart /\ FilesApart /\ [TuiNext]_tuiVars => TInv' /\ ScreenApart' /\ FilesApart'
  BY NextTInv, ApartKept
<1>3. FilesApart => ArchivedRunsStayApart
  BY DEF FilesApart, Apart, ApartAt, ArchivedRunsStayApart
<1> QED
  BY <1>1, <1>2, <1>3, PTL DEF TuiSpec
====
