---- MODULE Home ----
(***************************************************************************)
(* The files under ~/.brook that processes share: conversation archives,   *)
(* their index, current_conversation, the session file and a checkpoint.   *)
(* Processes are brook-tui, which keeps a conversation and writes several  *)
(* files one after the other, and brook, which runs one query; any of them *)
(* may fail to read or write, crash between two system calls, and start    *)
(* again.                                                                  *)
(*                                                                         *)
(* A save writes <path>.tmp and renames it to <path>, which is atomic as   *)
(* long as nobody else saves the same path: two savers share the temporary *)
(* file, and a writer goes on writing the file another has renamed.        *)
(***************************************************************************)
EXTENDS Naturals, FiniteSets, Sequences, SequencesExt

CONSTANTS
  Tuis, Clis,      \* processes of brook-tui and of brook
  Convs, NoConv,   \* conversation IDs
  MaxIndex,        \* maxIndexEntries: 64 in the code
  MaxRuns,         \* runs (bound); their numbers stand for what they leave
  MaxStarts,       \* times a process is started (bound)
  Absent,          \* no such file
  Empty, Torn      \* files that cannot be read: truncated and not written
                   \* yet; cut short, or of two writers

Procs == Tuis \cup Clis

ASSUME HomeAssumption ==
  /\ Tuis \cap Clis = {}
  /\ NoConv \notin Convs
  /\ MaxIndex \in Nat \ {0} /\ MaxRuns \in Nat /\ MaxStarts \in Nat
  /\ Absent \notin {Empty, Torn}
  /\ \A x \in {Absent, Empty, Torn} :
       /\ x \notin Convs \cup 1..MaxRuns
       /\ \A runs \in SUBSET (1..MaxRuns) : x # runs
       /\ \A n \in 0..MaxIndex : \A index \in [1..n -> Convs] : x # index

(***************************************************************************)
(* Paths.  An archive and the session hold sets of runs (turns, values),   *)
(* the checkpoint the run to resume, the index a sequence of IDs, newest  *)
(* first, current_conversation an ID.                                      *)
(***************************************************************************)
Archive(c) == <<"archive", c>>
Index      == <<"index", NoConv>>
Current    == <<"current", NoConv>>
Session    == <<"session", NoConv>>
Checkpoint == <<"checkpoint", NoConv>>

Paths == {Archive(c) : c \in Convs} \cup {Index, Current, Session, Checkpoint}

(* Written in place, every other path by way of its temporary file.        *)
InPlace == {Current}

Unreadable == {Empty, Torn}

VARIABLES
  file,    \* contents per path
  tmp,     \* contents of the temporary file per path
  proc,    \* the processes, see Off
  asked,   \* runs so far
  starts,  \* starts so far
  spoilt,  \* auxiliary: paths two processes have had in use at once
  missed,  \* auxiliary: paths that could not be read when they were last
           \* read, and have not been written since
  unkept   \* auxiliary: runs no archive need hold, those of brook, those
           \* whose conversation could not be saved when they ended and
           \* those written over by one who could not read them

vars == <<file, tmp, proc, asked, starts, spoilt, missed, unkept>>

(***************************************************************************)
(* A process: pc "off", "loaded" (the session is read), "up", or what it   *)
(* is about to do for the first of the jobs in `todo`: "read" the index,   *)
(* "create" a file, "write" it, "rename" it.  `fd` tells what the file it  *)
(* has created is called by now: "tmp", "file" or nothing ("gone").        *)
(***************************************************************************)
Off == [pc |-> "off", todo |-> <<>>, conv |-> NoConv, turns |-> {}, sess |-> {},
        run |-> 0, read |-> <<>>, fd |-> "gone"]

Job(p) == Head(proc[p].todo)

Path(p) ==
  CASE Job(p) = "archive"    -> Archive(proc[p].conv)
    [] Job(p) = "index"      -> Index
    [] Job(p) = "current"    -> Current
    [] Job(p) = "session"    -> Session
    [] Job(p) = "checkpoint" -> Checkpoint

Stages == {"create", "write", "rename"}

Saving(p) == proc[p].pc \in Stages

\* Bug: an entry the conversation has already stays.
ListedAgain(c, index) ==
  SubSeq(<<c>> \o index, 1, IF Len(index) < MaxIndex THEN Len(index) + 1 ELSE MaxIndex)

(* UpdateIndex: the conversation is now the newest, the oldest are dropped.*)
Listed(c, index) ==
  LET found  == { i \in 1..Len(index) : index[i] = c }
      others == IF found = {} THEN index ELSE RemoveAt(index, CHOOSE i \in found : TRUE)
      all    == <<c>> \o others
  IN  SubSeq(all, 1, IF Len(all) < MaxIndex THEN Len(all) ELSE MaxIndex)

Contents(p) ==
  CASE Job(p) = "archive"    -> proc[p].turns
    [] Job(p) = "index"      -> Listed(proc[p].conv, proc[p].read)
    [] Job(p) = "current"    -> proc[p].conv
    [] Job(p) = "session"    -> proc[p].sess
    [] Job(p) = "checkpoint" -> proc[p].run

(* The set in a file that can be read, or is not there.                    *)
Entries(f) == IF f = Absent THEN {} ELSE f

Readable(x) == file[x] \notin Unreadable \cup {Absent}

(* A reader who goes on with `none` when it cannot read x, for whatever    *)
(* reason, finds this.                                                     *)
Reads(x, none, found) ==
  \/ found = file[x] /\ Readable(x) /\ missed' = missed \ {x}
  \/ found = none /\ missed' = IF file[x] = Absent THEN missed \ {x} ELSE missed \cup {x}

Init ==
  /\ file = [x \in Paths |-> Absent] /\ tmp = [x \in Paths |-> Absent]
  /\ proc = [p \in Procs |-> Off]
  /\ asked = 0 /\ starts = 0
  /\ spoilt = {} /\ missed = {} /\ unkept = {}

(***************************************************************************)
(* Paths in use: the conversation of a brook-tui, the session of everybody *)
(* (read at the start, written at the end), the others while they are      *)
(* saved.  What p comes to share is spoilt.                                *)
(***************************************************************************)
InUse(g) ==
  (IF g.conv # NoConv THEN {Archive(g.conv)} ELSE {})
  \cup (IF g.pc # "off" THEN {Session} ELSE {})
  \cup (IF g.todo # <<>> /\ Head(g.todo) = "index" THEN {Index} ELSE {})
  \cup (IF g.todo # <<>> /\ Head(g.todo) = "checkpoint" THEN {Checkpoint} ELSE {})

Spoils(p) ==
  spoilt' = spoilt \cup
              UNION { InUse(proc'[p]) \cap InUse(proc'[q]) : q \in Procs \ {p} }

-----------------------------------------------------------------------------
(* Jobs.                                                                   *)

(* The process g goes on with the given jobs; "exit" ends it.              *)
GoOn(g, todo) ==
  IF todo = <<"exit">> THEN Off
  ELSE [g EXCEPT !.pc = IF todo = <<>> THEN "up"
                        ELSE IF Head(todo) = "index" THEN "read" ELSE "create",
                 !.todo = todo, !.read = <<>>]

\* Bug: the index is written before the archive.
SaveIndexFirst == <<"index", "archive", "current">>

(* saveConversation                                                        *)
SaveConversation == <<"archive", "current", "index">>

(* What is left to do when the first job fails: errors of the index and of *)
(* current_conversation are ignored; a failed archive ends the save, which *)
(* Update ignores and main does not; a failed session ends main.           *)
AfterFailure(todo) ==
  CASE Head(todo) \in {"index", "current", "checkpoint"} -> Tail(todo)
    [] OTHER -> IF Last(todo) = "exit" THEN <<"exit">> ELSE <<>>

(* An index that cannot be read or parsed is taken for an empty one.       *)
ReadIndex(p) ==
  /\ proc[p].pc = "read"
  /\ \E index \in {<<>>, file[Index]} :
       /\ Reads(Index, <<>>, index)
       /\ proc' = [proc EXCEPT ![p].pc = "create", ![p].read = index]
  /\ Spoils(p)
  /\ UNCHANGED <<file, tmp, asked, starts, unkept>>

\* Bug: files are truncated and written where they are.
CreateInPlace(p) ==
  /\ proc[p].pc = "create"
  /\ file' = [file EXCEPT ![Path(p)] = Empty]
  /\ proc' = [proc EXCEPT ![p].pc = "write", ![p].fd = "file"]
  /\ Spoils(p)
  /\ UNCHANGED <<tmp, asked, starts, unkept, missed>>

(* os.WriteFile opens the file, creating or truncating it...               *)
Create(p) ==
  /\ proc[p].pc = "create"
  /\ IF Path(p) \in InPlace
     THEN file' = [file EXCEPT ![Path(p)] = Empty] /\ UNCHANGED tmp
     ELSE tmp' = [tmp EXCEPT ![Path(p)] = Empty] /\ UNCHANGED file
  /\ proc' = [proc EXCEPT ![p].pc = "write",
                          ![p].fd = IF Path(p) \in InPlace THEN "file" ELSE "tmp"]
  /\ Spoils(p)
  /\ UNCHANGED <<asked, starts, unkept, missed>>

Put(p, data) ==
  /\ tmp'  = IF proc[p].fd = "tmp" THEN [tmp EXCEPT ![Path(p)] = data] ELSE tmp
  /\ file' = IF proc[p].fd = "file" THEN [file EXCEPT ![Path(p)] = data] ELSE file

(* What another has written into it since.                                 *)
Found(p) ==
  CASE proc[p].fd = "tmp"  -> tmp[Path(p)]
    [] proc[p].fd = "file" -> file[Path(p)]
    [] OTHER               -> Empty

(* ... and writes it from the start: over longer contents of another, the  *)
(* two mix.  IDs are of one length.                                        *)
Write(p) ==
  /\ proc[p].pc = "write"
  /\ \/ Put(p, Contents(p))
     \/ Found(p) # Empty /\ Path(p) \notin InPlace /\ Put(p, Torn)
  /\ proc' = [proc EXCEPT ![p] =
                IF Path(p) \in InPlace THEN GoOn([@ EXCEPT !.fd = "gone"], Tail(@.todo))
                ELSE [@ EXCEPT !.pc = "rename", !.fd = "gone"]]
  /\ Spoils(p)
  /\ UNCHANGED <<asked, starts, unkept, missed>>

(* The temporary file gets the path; those who write it go on writing it.  *)
Rename(p) ==
  /\ proc[p].pc = "rename" /\ tmp[Path(p)] # Absent
  /\ file' = [file EXCEPT ![Path(p)] = tmp[Path(p)]]
  /\ tmp'  = [tmp EXCEPT ![Path(p)] = Absent]
  /\ LET Moved(q) ==
           IF Saving(q) /\ Path(q) = Path(p)
           THEN [proc[q] EXCEPT !.fd = IF @ = "tmp" THEN "file" ELSE "gone"]
           ELSE proc[q]
     IN  proc' = [q \in Procs |-> IF q = p THEN GoOn(proc[p], Tail(proc[p].todo))
                                  ELSE Moved(q)]
  /\ Spoils(p)
  /\ missed' = missed \ {Path(p)}
  /\ unkept' = IF Job(p) = "archive" /\ Path(p) \in missed /\ Readable(Path(p))
               THEN unkept \cup file[Path(p)] ELSE unkept
  /\ UNCHANGED <<asked, starts>>

(* A call fails; a write may have got as far as it did.                    *)
Fail(p) ==
  /\ Saving(p)
  /\ \/ UNCHANGED <<file, tmp>>
     \/ proc[p].pc = "write" /\ Put(p, Torn)
  /\ proc' = [proc EXCEPT ![p] = GoOn([@ EXCEPT !.fd = "gone"], AfterFailure(@.todo))]
  /\ unkept' = IF Job(p) = "archive" /\ Last(proc[p].todo) # "exit"
               THEN unkept \cup proc[p].turns ELSE unkept
  /\ Spoils(p)
  /\ UNCHANGED <<asked, starts, missed>>

-----------------------------------------------------------------------------
(* brook-tui and brook.                                                    *)

(* launcher.Load; a session file that cannot be read ends the process.     *)
Load(p) ==
  /\ proc[p].pc = "off" /\ starts < MaxStarts
  /\ file[Session] \notin Unreadable
  /\ starts' = starts + 1
  /\ proc' = [proc EXCEPT ![p] = [Off EXCEPT !.pc = "loaded",
                                             !.sess = Entries(file[Session])]]
  /\ Spoils(p)
  /\ UNCHANGED <<file, tmp, asked, unkept, missed>>

(* A UUID nobody has.                                                      *)
IsFresh(c) ==
  /\ \A p \in Procs : proc[p].conv # c
  /\ file[Archive(c)] = Absent /\ file[Current] # c

(* resolveConversationID: -conversation, or current_conversation, or, if   *)
(* -new is given or the file does not hold an ID, a new one.               *)
Resolves(c) == c = file[Current] \/ file[Archive(c)] # Absent \/ IsFresh(c)

\* Bug: the archive is not loaded.
OpenEmpty(p, c) ==
  /\ proc[p].pc = "loaded" /\ p \in Tuis /\ Resolves(c)
  /\ proc' = [proc EXCEPT ![p].pc = "up", ![p].conv = c]
  /\ Spoils(p)
  /\ UNCHANGED <<file, tmp, asked, starts, unkept, missed>>

(* New: an archive that cannot be read or parsed, or is another's, leaves  *)
(* an empty transcript.                                                    *)
Open(p, c) ==
  /\ proc[p].pc = "loaded" /\ p \in Tuis /\ Resolves(c)
  /\ \E turns \in {{}, file[Archive(c)]} :
       /\ Reads(Archive(c), {}, turns)
       /\ proc' = [proc EXCEPT ![p].pc = "up", ![p].conv = c, ![p].turns = turns]
  /\ Spoils(p)
  /\ UNCHANGED <<file, tmp, asked, starts, unkept>>

\* Bug: a conversation is saved at the exit only.
EndRunUnsaved(p) ==
  /\ proc[p].pc = "up" /\ asked < MaxRuns
  /\ asked' = asked + 1
  /\ proc' = [proc EXCEPT ![p].turns = @ \cup {asked + 1}, ![p].sess = @ \cup {asked + 1}]
  /\ Spoils(p)
  /\ UNCHANGED <<file, tmp, starts, unkept, missed>>

(* A run ends: its turns are shown, its values in the session, and the     *)
(* conversation is saved.                                                  *)
EndRun(p) ==
  /\ proc[p].pc = "up" /\ asked < MaxRuns
  /\ asked' = asked + 1
  /\ proc' = [proc EXCEPT ![p] = GoOn([proc[p] EXCEPT !.turns = @ \cup {asked + 1},
                                                     !.sess = @ \cup {asked + 1}],
                                     SaveConversation)]
  /\ Spoils(p)
  /\ UNCHANGED <<file, tmp, starts, unkept, missed>>

(* /new; the conversation left behind is not saved again.                  *)
StartNewConversation(p, c) ==
  /\ proc[p].pc = "up" /\ IsFresh(c)
  /\ proc' = [proc EXCEPT ![p] = GoOn([@ EXCEPT !.conv = c, !.turns = {}], <<"current">>)]
  /\ Spoils(p)
  /\ UNCHANGED <<file, tmp, asked, starts, unkept, missed>>

(* ctrl+q: main saves the conversation, then the session.                  *)
Quit(p) ==
  /\ proc[p].pc = "up"
  /\ proc' = [proc EXCEPT ![p] = GoOn(@, SaveConversation \o <<"session", "exit">>)]
  /\ Spoils(p)
  /\ UNCHANGED <<file, tmp, asked, starts, unkept, missed>>

(* brook runs its query, or resumes the run of a checkpoint, and saves the *)
(* session; a run that is interrupted leaves a checkpoint behind before.   *)
Query(p) ==
  /\ proc[p].pc = "loaded" /\ p \in Clis
  /\ \E r \in {file[Checkpoint], asked + 1}, interrupted \in BOOLEAN :
       /\ r \in 1..MaxRuns
       /\ asked' = IF r = asked + 1 THEN r ELSE asked
       /\ unkept' = unkept \cup {r}
       /\ proc' = [proc EXCEPT ![p] =
                     GoOn([proc[p] EXCEPT !.sess = @ \cup {r}, !.run = r],
                          IF interrupted THEN <<"checkpoint", "session", "exit">>
                          ELSE <<"session", "exit">>)]
  /\ Spoils(p)
  /\ UNCHANGED <<file, tmp, starts, missed>>

(* The process is killed, or brook can no longer write its output and ends *)
(* without saving.                                                         *)
Crash(p) ==
  /\ proc[p].pc # "off"
  /\ proc' = [proc EXCEPT ![p] = Off]
  /\ Spoils(p)
  /\ UNCHANGED <<file, tmp, asked, starts, unkept, missed>>

-----------------------------------------------------------------------------
Next ==
  \E p \in Procs :
    \/ ReadIndex(p) \/ Create(p) \/ Write(p) \/ Rename(p) \/ Fail(p)
    \/ Load(p) \/ EndRun(p) \/ Quit(p) \/ Query(p) \/ Crash(p)
    \/ \E c \in Convs : Open(p, c) \/ StartNewConversation(p, c)

Spec == Init /\ [][Next]_vars

-----------------------------------------------------------------------------
(* Properties                                                              *)

Runs == SUBSET (1..MaxRuns)

(* Every path holds what belongs there or cannot be read, temporary files  *)
(* too; nothing in place has one; who has a conversation is a brook-tui,   *)
(* and the index never outgrows its limit or lists a conversation twice.   *)
TypeOK ==
  /\ DOMAIN file = Paths /\ DOMAIN tmp = Paths
  /\ \A f \in {file, tmp} :
       /\ \A c \in Convs : f[Archive(c)] \in Runs \cup Unreadable \cup {Absent}
       /\ f[Session] \in Runs \cup Unreadable \cup {Absent}
       /\ f[Checkpoint] \in 1..MaxRuns \cup Unreadable \cup {Absent}
       /\ f[Current] \in Convs \cup Unreadable \cup {Absent}
       /\ f[Index] \in Unreadable \cup {Absent} \/ IsInjective(f[Index])
  /\ Readable(Index) => Len(file[Index]) \in 1..MaxIndex
  /\ \A x \in InPlace : tmp[x] = Absent
  /\ \A p \in Procs :
       /\ proc[p].pc \in {"off", "loaded", "up", "read"} \cup Stages
       /\ proc[p].turns \in Runs /\ proc[p].sess \in Runs
       /\ proc[p].conv # NoConv => p \in Tuis
  /\ asked \in 0..MaxRuns /\ starts \in 0..MaxStarts
  /\ spoilt \subseteq Paths /\ missed \subseteq Paths /\ unkept \in Runs

(* "Save writes the conversation file atomically" (file.go:44): whatever   *)
(* crashes or fails, a file that was never saved by two at once is whole.  *)
FilesStayWhole ==
  \A x \in Paths \ (InPlace \cup spoilt) : file[x] \notin Unreadable

(* No save, failed save, crash or restart loses what a file holds: the     *)
(* turns of a conversation, values of the session, entries of the index    *)
(* within its limit; unless two processes had the file in use at once, or  *)
(* it is the first save after a failed read: that one replaces an archive  *)
(* (model.go:151) or the index (index.go:34) by what came since.           *)
NothingSavedIsLost ==
  [][/\ \A x \in {Archive(c) : c \in Convs} \cup {Session} :
          Readable(x) /\ x \notin spoilt' \cup missed => file[x] \subseteq file'[x]
     /\ Readable(Index) /\ Index \notin spoilt' \cup missed =>
          \/ ToSet(file[Index]) \subseteq ToSet(file'[Index])
          \/ Len(file'[Index]) = MaxIndex]_vars

(* Every conversation the index lists has an archive, however the saves of *)
(* several processes interleave, fail and end half way.                    *)
IndexPointsToArchives ==
  Readable(Index) => \A c \in ToSet(file[Index]) : file[Archive(c)] # Absent

(* Update saves the conversation at the end of every run (model.go:339,    *)
(* :357), main the session at the exit: the values a later process finds   *)
(* there belong to turns it finds in an archive, whatever crashed; unless  *)
(* the save at the end of the run failed, which Update ignores, a process  *)
(* that could not read the archive has written it anew, or two have had an *)
(* archive in use.                                                         *)
SessionIsBackedByArchives ==
  LET archives == {Archive(c) : c \in Convs}
  IN  Readable(Session) /\ archives \cap spoilt = {} =>
        \A r \in file[Session] \ unkept :
          \E x \in archives : Readable(x) /\ r \in file[x]
====
