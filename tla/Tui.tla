---- MODULE Tui ----
(***************************************************************************)
(* The brook-tui process around its run loop: the conversation archives    *)
(* and the session file on disk, /new, the reloads that replace the        *)
(* runtime, quitting, crashing and starting again (internal/tui/model.go,  *)
(* cmd/brook-tui/main.go, with internal/business and internal/launcher).   *)
(* The conversation index and the current_conversation file are written    *)
(* behind every archive, their errors ignored, and read back by nothing    *)
(* here: -conversation may name any conversation.  They are left out.      *)
(*                                                                         *)
(* File writes end in one of the states the disk can be left in.  A crash  *)
(* in the middle of saving is a save that got as far as it did, followed   *)
(* by Crash.                                                               *)
(***************************************************************************)
EXTENDS RunLoop

CONSTANTS
  Convs,       \* conversation IDs (UUIDs)
  NoConv,      \* no process, no conversation
  Faults,      \* what may fail: saving the "archive" or the "session",
               \* reading the archive ("load")
  Reloads,     \* the user reloads the configuration
  MaxContext,  \* memory.max_context_messages; 0: no limit
  MaxBoots     \* times the process is started (bound)

ASSUME TuiAssumption ==
  /\ NoConv \notin Convs
  /\ Faults \subseteq {"archive", "session", "load"}
  /\ Reloads \in BOOLEAN
  /\ MaxContext \in Nat
  /\ MaxBoots \in Nat

VARIABLES
  proc,        \* the process: "down", "up", "quit" (the screen is closed),
               \* "saved" (the conversation is saved, the session is not)
  boots,       \* times it was started
  convID,      \* Model.convID
  saveFailed,  \* the error the last saveConversation returned to Update,
               \* which ignores it
  session,     \* Runtime.Session: the prompts whose values it holds
  convFile,    \* archives: the messages of each conversation saved
  sessFile     \* the session file

procVars == <<proc, boots, convID, saveFailed, session>>
diskVars == <<convFile, sessFile>>
tuiVars  == <<vars, procVars, diskVars>>

TuiInit ==
  /\ Init
  /\ proc = "down" /\ boots = 0
  /\ convID = NoConv /\ saveFailed = FALSE /\ session = {}
  /\ convFile = <<>> /\ sessFile = {}

-----------------------------------------------------------------------------
(* uuid.New: an ID nothing refers to.                                      *)
Fresh(c) == c \notin {convID} \cup DOMAIN convFile

ArchiveOf(c) == IF c \in DOMAIN convFile THEN convFile[c] ELSE <<>>

\* Bug: a transcript with nothing but prompts in it is not saved.
SaveAnswered(turns) ==
  convFile' = [c \in DOMAIN convFile \cup {convID} |->
                 IF c = convID /\ \E i \in 1..Len(turns) : turns[i].role = "assistant"
                 THEN Archive(turns) ELSE ArchiveOf(c)]

\* Bug: what is saved is what would be sent, cut to the context limit.
SaveTrimmed(turns) ==
  convFile' = [c \in DOMAIN convFile \cup {convID} |->
                 IF c = convID THEN trimMessageTail(Archive(turns), MaxContext)
                 ELSE convFile[c]]

(* saveConversation with the given turns: the archive is replaced as a     *)
(* whole (temporary file, rename).                                         *)
Save(turns) ==
  convFile' = [c \in DOMAIN convFile \cup {convID} |->
                 IF c = convID THEN Archive(turns) ELSE convFile[c]]

SaveFails == "archive" \in Faults /\ UNCHANGED convFile

-----------------------------------------------------------------------------
(* The process starts: Load reads the session file, the conversation is    *)
(* resolved, New loads its archive into a fresh model.                     *)
LoadedView(c) == [EmptyView EXCEPT !.turns = MessagesToTurns(ArchiveOf(c))]

UnloadedView == [EmptyView EXCEPT !.turns = <<NoteTurn("error")>>]

\* Bug: the process starts with an empty session.
NoSession == {}
LoadedSession == sessFile

\* Bug: where there is no current conversation, none is begun.
BootWithoutConv(c) ==
  /\ proc = "down" /\ boots < MaxBoots
  /\ proc' = "up" /\ boots' = boots + 1
  /\ convID' = IF c \in DOMAIN convFile THEN c ELSE NoConv
  /\ saveFailed' = FALSE
  /\ session' = LoadedSession
  /\ view' = LoadedView(c)
  /\ UNCHANGED <<busy, runID, editing, asked, busVars, gor, diskVars>>

(* resolveConversationID: the one -conversation names, the current one, or *)
(* a new one.                                                              *)
Boot(c) ==
  /\ proc = "down" /\ boots < MaxBoots
  /\ proc' = "up" /\ boots' = boots + 1
  /\ convID' = c /\ saveFailed' = FALSE
  /\ session' = LoadedSession
  /\ \/ view' = LoadedView(c)
     \/ "load" \in Faults /\ c \in DOMAIN convFile /\ view' = UnloadedView
  /\ UNCHANGED <<busy, runID, editing, asked, busVars, gor, diskVars>>

(* What dies with the process.                                             *)
Die ==
  /\ proc' = "down"
  /\ view' = EmptyView /\ busy' = FALSE /\ runID' = 0 /\ editing' = FALSE
  /\ ch' = <<>> /\ waiting' = 0 /\ inbox' = <<>>
  /\ gor' = [r \in Runs |-> NoRun]
  /\ convID' = NoConv /\ saveFailed' = FALSE /\ session' = {}
  /\ UNCHANGED <<boots, asked>>

Crash == proc # "down" /\ Die /\ UNCHANGED diskVars

(* Esc at an idle prompt, ctrl+q in the config screen, or SIGTERM at any   *)
(* time, in the middle of a run too: Bubble Tea ends in order, and main    *)
(* goes on with the model as it is.                                        *)
Quit ==
  /\ proc = "up"
  /\ proc' = "quit"
  /\ UNCHANGED <<vars, boots, convID, saveFailed, session, diskVars>>

(* main then saves the conversation and, if that worked, the session.      *)
ExitSavesConversation ==
  /\ proc = "quit"
  /\ \/ /\ Save(view.turns) /\ proc' = "saved"
        /\ UNCHANGED <<vars, boots, convID, saveFailed, session, sessFile>>
     \/ SaveFails /\ Die /\ UNCHANGED sessFile

ExitSavesSession ==
  /\ proc = "saved"
  /\ sessFile' \in {session} \cup IF "session" \in Faults THEN {sessFile} ELSE {}
  /\ Die
  /\ UNCHANGED convFile

-----------------------------------------------------------------------------
(* Running.                                                                *)

(* The end of a run merges the session values it carries and saves.        *)
EndRunAndSave(i) ==
  /\ proc = "up"
  /\ EndRun(i)
  /\ session' = session \cup inbox[i].session
  /\ \/ Save(view'.turns) /\ saveFailed' = FALSE
     \/ SaveFails /\ saveFailed' = TRUE
  /\ UNCHANGED <<proc, boots, convID, sessFile>>

(* /new does not save: every run has been saved when it ended.             *)
StartNewConversation(c) ==
  /\ proc = "up" /\ c \in Convs /\ Fresh(c)
  /\ NewTranscript
  /\ convID' = c /\ saveFailed' = FALSE
  /\ UNCHANGED <<proc, boots, session, diskVars>>

(* A configuration that loads, from /agent mode or the config screen,      *)
(* brings a new runtime, with the session of the file.                     *)
Reload ==
  /\ proc = "up" /\ Reloads
  /\ LeaveNote \/ CloseEditorNoting
  /\ session' = sessFile
  /\ UNCHANGED <<proc, boots, convID, saveFailed, diskVars>>

RunLoopStep ==
  \/ StartRun \/ CancelRun \/ LeaveNote
  \/ OpenEditor \/ CloseEditor \/ CloseEditorNoting
  \/ Pump
  \/ \E i \in 1..Len(inbox) : DropMessage(i) \/ ShowMessage(i)
  \/ \E r \in Runs : Goroutine(r) \/ AgentStep(r) \/ CaptureSession(r)

TuiNext ==
  \/ \E c \in Convs : Boot(c) \/ StartNewConversation(c)
  \/ \E i \in 1..Len(inbox) : EndRunAndSave(i)
  \/ proc = "up" /\ RunLoopStep /\ UNCHANGED <<procVars, diskVars>>
  \/ Reload
  \/ Quit \/ ExitSavesConversation \/ ExitSavesSession
  \/ Crash

TuiSpec == TuiInit /\ [][TuiNext]_tuiVars

-----------------------------------------------------------------------------
(* Properties                                                              *)

Prompts == 1..MaxRuns

(* The process's variables have their types; archives are of known         *)
(* conversations and only a process that is up has a conversation.         *)
TuiTypeOK ==
  /\ TypeOK
  /\ proc \in {"down", "up", "quit", "saved"}
  /\ boots \in 0..MaxBoots
  /\ convID \in Convs \cup {NoConv} /\ (convID = NoConv <=> proc = "down")
  /\ saveFailed \in BOOLEAN
  /\ session \subseteq Prompts /\ sessFile \subseteq Prompts
  /\ DOMAIN convFile \subseteq Convs

(* New put an error where the archive could not be read, and goes on with  *)
(* an empty transcript.                                                    *)
LoadFailed == view.turns # <<>> /\ view.turns[1].role = "error"

(* Between runs the archive is what the user sees: whichever way the last  *)
(* run ended (done, error, cancelled), whatever notes lie between, and     *)
(* right after a restart too.                                              *)
ArchiveIsCurrent ==
  proc = "up" /\ ~busy /\ ~saveFailed /\ ~LoadFailed =>
    ArchiveOf(convID) = Archive(view.turns)

(* The next prompt continues the archive: its history is the tail of what  *)
(* is on disk, and does not hold the prompt itself.                        *)
PromptContinuesTheArchive ==
  proc = "up" /\ ~busy /\ ~saveFailed /\ ~LoadFailed =>
    TurnsToMessages(historyTurnsForRun(BeginAnswer(view, PromptText(0)).turns), MaxContext)
      = trimMessageTail(ArchiveOf(convID), MaxContext)

(* No save takes a message away from an archive: not after failed saves,   *)
(* crashes, restarts, cancelled runs or /new.  The one exception is a      *)
(* process whose load failed: it saves its own transcript over the archive.*)
ArchivesOnlyGrow ==
  [][\A c \in DOMAIN convFile :
       c \in DOMAIN convFile' /\ (LoadFailed \/ IsPrefix(convFile[c], convFile'[c]))]_tuiVars

(* All a message says, calls and answers, is of the run of prompt p.       *)
IsOfRun(m, p) ==
  \A x \in ToSet(m.content) \cup ToSet(m.reasoning) \cup ToSet(m.calls) \cup {m.answers} :
    x # NoCall => x[1] = p

(* Runs do not mix in an archive: what it holds stands behind the prompt   *)
(* of its run, with nothing of another run between.  So no answer is filed *)
(* under a call, or behind a prompt, of another run, in whatever order     *)
(* tools answer, whatever a cancelled, failed or forgotten run still sends,*)
(* also after /new, crashes and restarts.  (Within its run an answer may   *)
(* be filed under another call: the archive gives the k-th answer to the   *)
(* k-th call, and tools answer in any order.)                              *)
ArchivedRunsStayApart ==
  \A c \in DOMAIN convFile : \A i \in 1..Len(convFile[c]) :
    \E p \in Prompts, k \in 1..i :
      /\ convFile[c][k].role = "user" /\ convFile[c][k].content = PromptText(p)
      /\ \A j \in k..i : IsOfRun(convFile[c][j], p)

(* Session values on disk survive later processes: what one process wrote, *)
(* the next loads, adds to and writes again.                               *)
SessionFileOnlyGrows == [][sessFile \subseteq sessFile']_sessFile

(* Values a run left in the session stay there until the process exits and *)
(* saves them (session_sync.go: without the callback "the persistence      *)
(* layer saves the empty or old data of the start").                       *)
SessionIsKept ==
  [][proc = "up" /\ proc' = "up" => session \subseteq session']_tuiVars
====
