---- MODULE HomeProofs ----
(***************************************************************************)
(* For any number of processes, conversations, runs, starts and crashes:   *)
(* the safety properties of Home.  First what each action does to its      *)
(* process (Moves) and to the files (Touches), then each part of the       *)
(* invariant, and at the end the theorems.                                 *)
(***************************************************************************)
EXTENDS Home, SequenceTheorems, TLAPS

-----------------------------------------------------------------------------
(* The invariant                                                           *)

(* Lists of conversations an index may hold.                               *)
Lists == { s \in Seq(Convs) : Len(s) \in 0..MaxIndex /\ IsInjective(s) }

Archives == {Archive(c) : c \in Convs}

(* What belongs in a file.                                                 *)
Holds(x) ==
  CASE x = Index      -> Lists \ {<<>>}
    [] x = Current    -> Convs
    [] x = Checkpoint -> 1..MaxRuns
    [] OTHER          -> Runs

Missing == Unreadable \cup {Absent}

Contained == Runs \cup Lists \cup Convs \cup 1..MaxRuns \cup Missing

(* The jobs a process may have before it, each with those that follow.     *)
Save      == <<"archive", "current", "index">>
LastSave  == <<"archive", "current", "index", "session", "exit">>
Saves     == {Save, LastSave}
SavedOnes == {<<"current", "index">>, <<"current", "index", "session", "exit">>}
Indexings == {<<"index">>, <<"index", "session", "exit">>}
Renaming  == <<"current">>
Ending    == <<"session", "exit">>
Interrupt == <<"checkpoint", "session", "exit">>
Exit      == <<"exit">>

Jobs  == Saves \cup SavedOnes \cup Indexings \cup {Renaming, Ending, Interrupt}
Todos == Jobs \cup {<<>>}

Processes ==
  [pc : {"off", "loaded", "up", "read"} \cup Stages, todo : Todos,
   conv : Convs \cup {NoConv}, turns : Runs, sess : Runs, run : 0..MaxRuns,
   read : Lists, fd : {"tmp", "file", "gone"}]

(* A process is where its jobs say.                                        *)
ProcOK(g, p) ==
  /\ g.todo = <<>> <=> g.pc \in {"off", "loaded", "up"}
  /\ g.pc = "off" => g = Off
  /\ g.pc = "up" => g.conv \in Convs
  /\ g.todo \in Saves \cup SavedOnes \cup Indexings \cup {Renaming} => g.conv \in Convs
  /\ g.pc = "read" => g.todo \in Indexings
  /\ g.todo = Interrupt => g.run \in 1..MaxRuns
  /\ g.conv # NoConv => p \in Tuis
  /\ g.todo \in SavedOnes \cup {Renaming} => g.pc # "rename" /\ (g.pc = "write" => g.fd = "file")

TypeInv ==
  /\ file \in [Paths -> Contained] /\ tmp \in [Paths -> Contained]
  /\ \A x \in Paths : file[x] \in Holds(x) \cup Missing /\ tmp[x] \in Holds(x) \cup Missing
  /\ tmp[Current] = Absent
  /\ proc \in [Procs -> Processes]
  /\ \A p \in Procs : ProcOK(proc[p], p)
  /\ asked \in 0..MaxRuns /\ starts \in 0..MaxStarts
  /\ spoilt \in SUBSET Paths /\ missed \in SUBSET (Archives \cup {Index}) /\ unkept \in Runs

(* What two processes use is spoilt.                                       *)
SharedIsSpoilt ==
  \A p, q \in Procs : p # q => InUse(proc[p]) \cap InUse(proc[q]) \subseteq spoilt

(* The temporary file of a path nobody else uses is the saver's own.       *)
OwnFile(p) ==
  Saving(p) /\ Path(p) \notin spoilt \cup InPlace =>
    /\ proc[p].pc = "write" => proc[p].fd = "tmp" /\ tmp[Path(p)] = Empty
    /\ proc[p].pc = "rename" => tmp[Path(p)] = Contents(p)

WholeInv == FilesStayWhole /\ \A p \in Procs : OwnFile(p)

Archived(c) == file[Archive(c)] # Absent

(* Whatever index is read, kept or written, its conversations are archived.*)
IndexInv ==
  /\ \A f \in {file[Index], tmp[Index]} : f \notin Missing => \A c \in ToSet(f) : Archived(c)
  /\ \A p \in Procs :
       /\ \A c \in ToSet(proc[p].read) : Archived(c)
       /\ proc[p].todo \in SavedOnes \cup Indexings => Archived(proc[p].conv)

(* What a process holds includes what is in the files only it uses, those  *)
(* it could not read until it has saved them.                              *)
Keeps(p) ==
  /\ proc[p].conv \in Convs /\ Archive(proc[p].conv) \notin spoilt \cup missed =>
       Entries(file[Archive(proc[p].conv)]) \subseteq proc[p].turns
  /\ proc[p].pc # "off" /\ Session \notin spoilt => Entries(file[Session]) \subseteq proc[p].sess
  /\ proc[p].todo \in Indexings /\ proc[p].pc \in Stages /\ Index \notin spoilt \cup missed =>
       proc[p].read = IF file[Index] \in Missing THEN <<>> ELSE file[Index]

KeepInv == \A p \in Procs : Keeps(p)

Backed(r) == r \in unkept \/ \E x \in Archives : Readable(x) /\ r \in file[x]

(* Session values have their turns in an archive, or are about to.         *)
BackInv ==
  Archives \cap spoilt = {} =>
    /\ \A f \in {file[Session], tmp[Session]} : f \notin Missing => \A r \in f : Backed(r)
    /\ \A p \in Procs : \A r \in proc[p].sess :
         Backed(r) \/ (proc[p].todo \in Saves /\ r \in proc[p].turns)

IInv == TypeInv /\ SharedIsSpoilt /\ WholeInv /\ IndexInv /\ KeepInv /\ BackInv

-----------------------------------------------------------------------------
(* Jobs                                                                    *)

(* The lists of jobs are all different.                                    *)
LEMMA JobsDiffer ==
  /\ <<>> \notin Jobs \cup {Exit} /\ Exit \notin Jobs
  /\ Saves \cap (SavedOnes \cup Indexings \cup {Renaming, Ending, Interrupt}) = {}
  /\ SavedOnes \cap (Indexings \cup {Renaming, Ending, Interrupt}) = {}
  /\ Indexings \cap {Renaming, Ending, Interrupt} = {}
  /\ Renaming # Ending /\ Renaming # Interrupt /\ Ending # Interrupt
  BY DEF Jobs, Saves, Save, LastSave, SavedOnes, Indexings, Renaming, Ending, Interrupt, Exit

(* The first of the jobs, and those left when it is done.                  *)
LEMMA JobsGoOn ==
  ASSUME NEW t \in Jobs
  PROVE  /\ t \in Saves => Head(t) = "archive" /\ Tail(t) \in SavedOnes
         /\ t \in SavedOnes => Head(t) = "current" /\ Tail(t) \in Indexings
         /\ t \in Indexings => Head(t) = "index" /\ Tail(t) \in {<<>>, Ending}
         /\ t = Renaming => Head(t) = "current" /\ Tail(t) = <<>>
         /\ t = Ending => Head(t) = "session" /\ Tail(t) = Exit
         /\ t = Interrupt => Head(t) = "checkpoint" /\ Tail(t) = Ending
<1>1. /\ Head(Save) = "archive" /\ Tail(Save) = <<"current", "index">>
      /\ Head(LastSave) = "archive" /\ Tail(LastSave) = <<"current", "index", "session", "exit">>
  BY DEF Save, LastSave
<1>2. /\ Head(<<"current", "index">>) = "current" /\ Tail(<<"current", "index">>) = <<"index">>
      /\ Head(<<"current", "index", "session", "exit">>) = "current"
      /\ Tail(<<"current", "index", "session", "exit">>) = <<"index", "session", "exit">>
  OBVIOUS
<1>3. /\ Head(<<"index">>) = "index" /\ Tail(<<"index">>) = <<>>
      /\ Head(<<"index", "session", "exit">>) = "index"
      /\ Tail(<<"index", "session", "exit">>) = Ending
  BY DEF Ending
<1>4. /\ Head(Renaming) = "current" /\ Tail(Renaming) = <<>>
      /\ Head(Ending) = "session" /\ Tail(Ending) = Exit
      /\ Head(Interrupt) = "checkpoint" /\ Tail(Interrupt) = Ending
  BY DEF Renaming, Ending, Interrupt, Exit
<1>5. t \in Saves => Head(t) = "archive" /\ Tail(t) \in SavedOnes
  BY <1>1, Zenon DEF Saves, SavedOnes
<1>6. t \in SavedOnes => Head(t) = "current" /\ Tail(t) \in Indexings
  BY <1>2, Zenon DEF SavedOnes, Indexings
<1>7. t \in Indexings => Head(t) = "index" /\ Tail(t) \in {<<>>, Ending}
  BY <1>3, Zenon DEF Indexings
<1>. QED
  BY <1>4, <1>5, <1>6, <1>7

(* The jobs left when the first one fails.                                 *)
LEMMA JobsFail ==
  ASSUME NEW t \in Jobs
  PROVE  /\ t = Save => AfterFailure(t) = <<>> /\ Last(t) # "exit"
         /\ t = LastSave => AfterFailure(t) = Exit /\ Last(t) = "exit"
         /\ t \in SavedOnes => AfterFailure(t) \in Indexings
         /\ t \in Indexings => AfterFailure(t) \in {<<>>, Ending}
         /\ t = Renaming => AfterFailure(t) = <<>>
         /\ t = Ending => AfterFailure(t) = Exit
         /\ t = Interrupt => AfterFailure(t) = Ending
<1>0. /\ Save # LastSave /\ Save \in Saves /\ LastSave \in Saves
      /\ Saves \cap (SavedOnes \cup Indexings \cup {Renaming, Ending, Interrupt}) = {}
  BY JobsDiffer DEF Save, LastSave, Saves
<1>1. CASE t = Save
  <2>1. Head(Save) = "archive" /\ Save[Len(Save)] = "index"
    BY DEF Save
  <2>2. AfterFailure(t) = <<>> /\ Last(t) # "exit"
    BY <1>1, <2>1 DEF AfterFailure, Last
  <2>. QED
    BY <1>1, <2>2, <1>0
<1>2. CASE t = LastSave
  <2>1. Head(LastSave) = "archive" /\ LastSave[Len(LastSave)] = "exit"
    BY DEF LastSave
  <2>2. AfterFailure(t) = Exit /\ Last(t) = "exit"
    BY <1>2, <2>1 DEF AfterFailure, Last, Exit
  <2>. QED
    BY <1>2, <2>2, <1>0
<1>3. CASE t \in SavedOnes \cup Indexings \cup {Renaming, Interrupt}
  <2>1. AfterFailure(t) = Tail(t)
    BY <1>3, JobsGoOn DEF AfterFailure
  <2>. QED
    BY <1>3, <2>1, JobsGoOn, JobsDiffer DEF Saves
<1>4. CASE t = Ending
  BY <1>4, JobsDiffer DEF Ending, AfterFailure, Last, Exit, Saves
<1>. QED
  BY <1>1, <1>2, <1>3, <1>4, JobsDiffer DEF Jobs, Saves

(* What EndRun and Quit give a process to do.                              *)
LEMMA LastSaveIsSaves ==
  /\ SaveConversation = Save
  /\ SaveConversation \o <<"session", "exit">> = LastSave
<1>. DEFINE S == {"archive", "current", "index", "session", "exit"}
<1>1. /\ Save \in Seq(S) /\ Len(Save) = 3
      /\ Save[1] = "archive" /\ Save[2] = "current" /\ Save[3] = "index"
  BY DEF Save
<1>2. Ending \in Seq(S) /\ Len(Ending) = 2 /\ Ending[1] = "session" /\ Ending[2] = "exit"
  BY DEF Ending
<1>3. /\ LastSave \in Seq(S) /\ Len(LastSave) = 5
      /\ LastSave[1] = "archive" /\ LastSave[2] = "current" /\ LastSave[3] = "index"
      /\ LastSave[4] = "session" /\ LastSave[5] = "exit"
  BY DEF LastSave
<1>. HIDE DEF S
<1>4. /\ Save \o Ending \in Seq(S) /\ Len(Save \o Ending) = 5
      /\ \A i \in 1..5 : (Save \o Ending)[i] = IF i <= 3 THEN Save[i] ELSE Ending[i - 3]
  <2>1. /\ Save \o Ending \in Seq(S)
        /\ Len(Save \o Ending) = Len(Save) + Len(Ending)
        /\ \A i \in 1..(Len(Save) + Len(Ending)) :
             (Save \o Ending)[i] = IF i <= Len(Save) THEN Save[i] ELSE Ending[i - Len(Save)]
    BY <1>1, <1>2, ConcatProperties, Zenon
  <2>. QED
    BY <1>1, <1>2, <2>1
<1>5. \A i \in 1..5 : (Save \o Ending)[i] = LastSave[i]
  BY <1>1, <1>2, <1>3, <1>4
<1>6. Save \o Ending = LastSave
  BY <1>3, <1>4, <1>5, SeqEqual
<1>. QED
  BY <1>6 DEF SaveConversation, Save, Ending

-----------------------------------------------------------------------------
(* Paths                                                                   *)

LEMMA PathsDiffer ==
  /\ \A c, d \in Convs : Archive(c) = Archive(d) => c = d
  /\ Archives \cap {Index, Current, Session, Checkpoint} = {}
  /\ Index # Current /\ Index # Session /\ Index # Checkpoint
  /\ Current # Session /\ Current # Checkpoint /\ Session # Checkpoint
  /\ Paths = Archives \cup {Index, Current, Session, Checkpoint}
  BY DEF Paths, Archives, Archive, Index, Current, Session, Checkpoint

LEMMA HoldsWhat ==
  /\ \A x \in Archives \cup {Session} : Holds(x) = Runs
  /\ Holds(Index) = Lists \ {<<>>} /\ Holds(Current) = Convs /\ Holds(Checkpoint) = 1..MaxRuns
  BY PathsDiffer DEF Holds

(* What belongs in a file can be read.                                     *)
LEMMA HoldsReadable ==
  ASSUME NEW x \in Paths
  PROVE  Holds(x) \cap Missing = {} /\ Holds(x) \subseteq Contained
<1>1. \A s \in Lists : s \notin Missing
  <2>. SUFFICES ASSUME NEW s \in Lists PROVE s \notin Missing
    OBVIOUS
  <2>1. Len(s) \in 0..MaxIndex /\ s \in [1..Len(s) -> Convs]
    BY DEF Lists
  <2>. QED
    BY <2>1, HomeAssumption DEF Missing, Unreadable
<1>. QED
  BY <1>1, HoldsWhat, PathsDiffer, HomeAssumption DEF Runs, Missing, Unreadable, Contained

-----------------------------------------------------------------------------
(* Processes                                                               *)

(* A process that is off is one of the processes.                          *)
LEMMA OffRecord == Off \in Processes /\ \A p \in Procs : ProcOK(Off, p)
<1>1. <<>> \in Lists
  BY HomeAssumption DEF Lists, IsInjective
<1>2. <<>> \in Todos /\ 0 \in 0..MaxRuns
  BY HomeAssumption DEF Todos
<1>3. Off \in Processes
  BY <1>1, <1>2 DEF Off, Processes, Runs
<1>4. \A p \in Procs : ProcOK(Off, p)
  BY JobsDiffer, HomeAssumption DEF ProcOK, Off, Jobs
<1>. QED
  BY <1>3, <1>4

(* Where a process with these jobs goes on.                                *)
Place(t) == IF t = <<>> THEN "up" ELSE IF t \in Indexings THEN "read" ELSE "create"

(* r holds what old held.                                                  *)
Same(r, old) ==
  r.conv = old.conv /\ r.turns = old.turns /\ r.sess = old.sess /\ r.run = old.run

LEMMA GoOnRecord ==
  ASSUME NEW g \in Processes, NEW t \in Todos
  PROVE  /\ GoOn(g, t) \in Processes
         /\ GoOn(g, t).todo = t /\ GoOn(g, t).pc = Place(t)
         /\ Same(GoOn(g, t), g) /\ GoOn(g, t).read = <<>> /\ GoOn(g, t).fd = g.fd
<1>1. t # Exit /\ (t # <<>> => t \in Jobs)
  BY JobsDiffer DEF Todos
<1>2. t # <<>> => (Head(t) = "index" <=> t \in Indexings)
  BY <1>1, JobsGoOn, JobsDiffer DEF Jobs
<1>3. GoOn(g, t) = [g EXCEPT !.pc = Place(t), !.todo = t, !.read = <<>>]
  BY <1>1, <1>2 DEF GoOn, Place, Exit
<1>4. <<>> \in Lists
  BY HomeAssumption DEF Lists, IsInjective
<1>5. Place(t) \in {"off", "loaded", "up", "read"} \cup Stages
  BY DEF Place, Stages
<1>. QED
  BY <1>3, <1>4, <1>5 DEF Processes, Same

LEMMA GoOnExit == ASSUME NEW g PROVE GoOn(g, Exit) = Off
  BY DEF GoOn, Exit

(* A process goes on with jobs it may have.                                *)
LEMMA GoOnOK ==
  ASSUME NEW p \in Procs, NEW g \in Processes, NEW t \in Todos,
         g.conv # NoConv => p \in Tuis,
         t \in Saves \cup SavedOnes \cup Indexings \cup {Renaming, <<>>} => g.conv \in Convs,
         t = Interrupt => g.run \in 1..MaxRuns
  PROVE  ProcOK(GoOn(g, t), p)
<1>1. Place(t) \notin {"off", "loaded", "write", "rename"}
  BY DEF Place
<1>2. Place(t) = "up" <=> t = <<>>
  BY DEF Place
<1>3. Place(t) = "read" => t \in Indexings
  BY DEF Place
<1>. QED
  BY <1>1, <1>2, <1>3, GoOnRecord DEF ProcOK, Same

(* r is as old but for the name of the file it writes.                     *)
Alike(r, old) ==
  /\ r \in Processes /\ Same(r, old)
  /\ r.pc = old.pc /\ r.todo = old.todo /\ r.read = old.read
  /\ old.todo \in SavedOnes \cup {Renaming} => r.fd = old.fd
  /\ old.pc = "off" => r = old

(* In a step of p it becomes g, the others stay as they are.               *)
Moves(p, g) ==
  /\ proc' \in [Procs -> Processes] /\ proc'[p] = g /\ ProcOK(g, p)
  /\ \A q \in Procs \ {p} :
       /\ Alike(proc'[q], proc[q])
       /\ proc'[q] = proc[q] \/ (Saving(p) /\ Saving(q) /\ Path(q) = Path(p))

(* A step that assigns to proc[p] only.                                    *)
LEMMA MovesAlone ==
  ASSUME TypeInv, NEW p \in Procs, NEW g \in Processes, ProcOK(g, p),
         proc' = [proc EXCEPT ![p] = g]
  PROVE  Moves(p, g) /\ \A q \in Procs \ {p} : proc'[q] = proc[q]
  BY DEF TypeInv, Moves, Alike, Same

LEMMA MovesOK ==
  ASSUME TypeInv, NEW p \in Procs, NEW g, Moves(p, g)
  PROVE  \A q \in Procs : ProcOK(proc'[q], q)
<1>. SUFFICES ASSUME NEW q \in Procs PROVE ProcOK(proc'[q], q)
  OBVIOUS
<1>1. CASE q = p
  BY <1>1 DEF Moves
<1>2. CASE q # p
  BY <1>2 DEF Moves, Alike, Same, TypeInv, ProcOK
<1>. QED
  BY <1>1, <1>2

-----------------------------------------------------------------------------
(* Sharing                                                                 *)

(* What a process uses, told from its jobs.                                *)
LEMMA UsedPaths ==
  ASSUME NEW g \in Processes
  PROVE  /\ InUse(g) \subseteq Paths
         /\ \A x \in Paths : x \in InUse(g) <=>
              \/ g.conv # NoConv /\ x = Archive(g.conv)
              \/ g.pc # "off" /\ x = Session
              \/ g.todo \in Indexings /\ x = Index
              \/ g.todo = Interrupt /\ x = Checkpoint
<1>1. g.todo \in Jobs \cup {<<>>} /\ g.conv \in Convs \cup {NoConv}
  BY DEF Processes, Todos
<1>2. g.todo # <<>> /\ Head(g.todo) = "index" <=> g.todo \in Indexings
  BY <1>1, JobsGoOn, JobsDiffer DEF Jobs
<1>3. g.todo # <<>> /\ Head(g.todo) = "checkpoint" <=> g.todo = Interrupt
  BY <1>1, JobsGoOn, JobsDiffer DEF Jobs
<1>4. g.conv # NoConv => Archive(g.conv) \in Paths
  BY <1>1 DEF Paths
<1>5. Session \in Paths /\ Index \in Paths /\ Checkpoint \in Paths
  BY DEF Paths
<1>. QED
  BY <1>2, <1>3, <1>4, <1>5 DEF InUse

(* What p comes to share in its step is spoilt.                            *)
LEMMA SharedStep ==
  ASSUME TypeInv, SharedIsSpoilt, NEW p \in Procs, NEW g, Moves(p, g), Spoils(p)
  PROVE  SharedIsSpoilt' /\ spoilt \subseteq spoilt' /\ spoilt' \in SUBSET Paths
<1>1. \A q \in Procs : proc'[q] \in Processes
  BY DEF Moves
<1>2. spoilt' = spoilt \cup UNION { InUse(proc'[p]) \cap InUse(proc'[q]) : q \in Procs \ {p} }
  BY DEF Spoils
<1>3. \A q \in Procs \ {p} : InUse(proc'[q]) = InUse(proc[q])
  BY DEF Moves, Alike, Same, InUse
<1>4. ASSUME NEW q \in Procs, NEW r \in Procs, q # r
      PROVE  InUse(proc'[q]) \cap InUse(proc'[r]) \subseteq spoilt'
  <2>1. CASE q = p
    BY <1>2, <1>4, <2>1
  <2>2. CASE r = p
    BY <1>2, <1>4, <2>2
  <2>3. CASE q # p /\ r # p
    BY <1>2, <1>3, <1>4, <2>3 DEF SharedIsSpoilt
  <2>. QED
    BY <2>1, <2>2, <2>3
<1>5. spoilt' \subseteq Paths
  BY <1>1, <1>2, UsedPaths DEF TypeInv
<1>. QED
  BY <1>2, <1>4, <1>5 DEF SharedIsSpoilt

-----------------------------------------------------------------------------
(* The index                                                               *)

LEMMA ListElements ==
  ASSUME NEW s \in Lists
  PROVE  ToSet(s) = { s[i] : i \in 1..Len(s) } /\ s \in Seq(Convs) /\ ToSet(s) \subseteq Convs
  BY DEF Lists, ToSet

LEMMA RemoveAtElements ==
  ASSUME NEW S, NEW s \in Seq(S), NEW k \in 1..Len(s)
  PROVE  /\ RemoveAt(s, k) \in Seq(S) /\ Len(RemoveAt(s, k)) = Len(s) - 1
         /\ \A j \in 1..(Len(s) - 1) : RemoveAt(s, k)[j] = IF j < k THEN s[j] ELSE s[j + 1]
<1>. DEFINE front == SubSeq(s, 1, k - 1)
            back  == SubSeq(s, k + 1, Len(s))
<1>0. Len(s) \in Nat /\ k \in Int
  OBVIOUS
<1>1. /\ front \in Seq(S) /\ Len(front) = k - 1
      /\ \A j \in 1..(k - 1) : front[j] = s[j]
  OBVIOUS
<1>2. /\ back \in Seq(S) /\ Len(back) = Len(s) - k
      /\ \A j \in 1..(Len(s) - k) : back[j] = s[k + j]
  OBVIOUS
<1>. HIDE DEF front, back
<1>3. /\ front \o back \in Seq(S)
      /\ Len(front \o back) = Len(front) + Len(back)
      /\ \A j \in 1..(Len(front) + Len(back)) :
           (front \o back)[j] = IF j <= Len(front) THEN front[j] ELSE back[j - Len(front)]
  BY <1>1, <1>2, ConcatProperties, Zenon
<1>4. RemoveAt(s, k) = front \o back
  BY DEF RemoveAt, front, back
<1>5. Len(front) + Len(back) = Len(s) - 1
  BY <1>0, <1>1, <1>2
<1>6. ASSUME NEW j \in 1..(Len(s) - 1)
      PROVE  RemoveAt(s, k)[j] = IF j < k THEN s[j] ELSE s[j + 1]
  <2>1. CASE j < k
    <3>1. j \in 1..(k - 1) /\ j <= Len(front)
      BY <1>0, <1>1, <2>1
    <3>. QED
      BY <1>1, <1>3, <1>4, <1>5, <2>1, <3>1
  <2>2. CASE ~(j < k)
    <3>1. j - (k - 1) \in 1..(Len(s) - k) /\ ~(j <= Len(front)) /\ k + (j - (k - 1)) = j + 1
      BY <1>0, <1>1, <2>2
    <3>2. (front \o back)[j] = back[j - (k - 1)]
      BY <1>1, <1>3, <1>5, <3>1
    <3>3. back[j - (k - 1)] = s[j + 1]
      BY <1>2, <3>1
    <3>. QED
      BY <1>4, <2>2, <3>2, <3>3
  <2>. QED
    BY <2>1, <2>2
<1>. QED
  BY <1>3, <1>4, <1>5, <1>6

(* UpdateIndex makes a list of a list: the conversation is on it, all      *)
(* others were, and nothing is dropped but at the limit.                   *)
LEMMA ListedIsList ==
  ASSUME NEW c \in Convs, NEW index \in Lists
  PROVE  /\ Listed(c, index) \in Lists \ {<<>>}
         /\ ToSet(Listed(c, index)) \subseteq {c} \cup ToSet(index)
         /\ ToSet(index) \subseteq ToSet(Listed(c, index)) \/ Len(Listed(c, index)) = MaxIndex
<1>. DEFINE found  == { i \in 1..Len(index) : index[i] = c }
            others == IF found = {} THEN index ELSE RemoveAt(index, CHOOSE i \in found : TRUE)
            all    == <<c>> \o others
            n      == IF Len(all) < MaxIndex THEN Len(all) ELSE MaxIndex
<1>1. /\ index \in Seq(Convs) /\ Len(index) \in 0..MaxIndex
      /\ \A i, j \in 1..Len(index) : index[i] = index[j] => i = j
  BY DEF Lists, IsInjective
<1>2. /\ others \in Seq(Convs)
      /\ \A j \in 1..Len(others) : others[j] # c /\ \E i \in 1..Len(index) : others[j] = index[i]
      /\ \A i, j \in 1..Len(others) : others[i] = others[j] => i = j
      /\ \A i \in 1..Len(index) : index[i] = c \/ \E j \in 1..Len(others) : others[j] = index[i]
  <2>1. CASE found = {}
    BY <1>1, <2>1
  <2>2. CASE found # {}
    <3>1. PICK k \in 1..Len(index) : k = (CHOOSE i \in found : TRUE) /\ index[k] = c
      BY <2>2
    <3>2. others = RemoveAt(index, k)
      BY <2>2, <3>1
    <3>. HIDE DEF others, found
    <3>3. /\ others \in Seq(Convs) /\ Len(others) = Len(index) - 1
          /\ \A j \in 1..(Len(index) - 1) : others[j] = IF j < k THEN index[j] ELSE index[j + 1]
      BY <1>1, <3>2, RemoveAtElements
    <3>4. ASSUME NEW j \in 1..Len(others)
          PROVE  \E i \in 1..Len(index) : i # k /\ others[j] = index[i] /\ (i = j \/ i = j + 1)
                                          /\ (j < k => i = j) /\ (j >= k => i = j + 1)
      <4>1. CASE j < k
        <5>1. j \in 1..Len(index) /\ others[j] = index[j] /\ j # k
          BY <1>1, <3>3, <4>1
        <5>. QED
          BY <4>1, <5>1
      <4>2. CASE j >= k
        <5>1. j + 1 \in 1..Len(index) /\ others[j] = index[j + 1] /\ j + 1 # k
          BY <1>1, <3>3, <4>2
        <5>. QED
          BY <4>2, <5>1
      <4>. QED
        BY <1>1, <3>1, <4>1, <4>2
    <3>5. ASSUME NEW j \in 1..Len(others)
          PROVE  others[j] # c /\ \E i \in 1..Len(index) : others[j] = index[i]
      BY <1>1, <3>1, <3>4
    <3>6. ASSUME NEW i \in 1..Len(others), NEW j \in 1..Len(others), others[i] = others[j]
          PROVE  i = j
      <4>1. PICK a \in 1..Len(index) : others[i] = index[a] /\ (i < k => a = i) /\ (i >= k => a = i + 1)
        BY <3>4
      <4>2. PICK b \in 1..Len(index) : others[j] = index[b] /\ (j < k => b = j) /\ (j >= k => b = j + 1)
        BY <3>4
      <4>3. a = b
        BY <1>1, <3>6, <4>1, <4>2
      <4>. QED
        BY <3>1, <3>3, <4>1, <4>2, <4>3
    <3>7. ASSUME NEW i \in 1..Len(index), i # k
          PROVE  \E j \in 1..Len(others) : others[j] = index[i]
      <4>1. CASE i < k
        <5>1. i \in 1..Len(others) /\ others[i] = index[i]
          BY <1>1, <3>1, <3>3, <4>1
        <5>. QED
          BY <5>1
      <4>2. CASE i > k
        <5>1. i - 1 \in 1..(Len(index) - 1) /\ ~(i - 1 < k) /\ (i - 1) + 1 = i
          BY <1>1, <3>1, <4>2
        <5>2. i - 1 \in 1..Len(others) /\ others[i - 1] = index[i]
          BY <3>3, <5>1
        <5>. QED
          BY <5>2
      <4>. QED
        BY <3>1, <3>7, <4>1, <4>2
    <3>. QED
      BY <3>1, <3>3, <3>5, <3>6, <3>7
  <2>. QED
    BY <2>1, <2>2
<1>. HIDE DEF found, others
<1>3. /\ all \in Seq(Convs) /\ Len(all) = Len(others) + 1
      /\ \A j \in 1..(Len(others) + 1) : all[j] = IF j = 1 THEN c ELSE others[j - 1]
  BY <1>2
<1>4. Listed(c, index) = SubSeq(all, 1, n)
  BY DEF Listed, others, found
<1>. HIDE DEF all
<1>5. n \in 1..MaxIndex /\ n <= Len(all) /\ (n = Len(all) \/ n = MaxIndex)
  BY <1>2, <1>3, HomeAssumption
<1>. HIDE DEF n
<1>6. /\ Listed(c, index) \in Seq(Convs) /\ Len(Listed(c, index)) = n
      /\ \A j \in 1..n : Listed(c, index)[j] = all[j]
  BY <1>3, <1>4, <1>5
<1>7. IsInjective(Listed(c, index))
  <2>1. ASSUME NEW i \in 1..n, NEW j \in 1..n, all[i] = all[j] PROVE i = j
    <3>0. \A m \in 1..n : m # 1 => m - 1 \in 1..Len(others) /\ all[m] = others[m - 1]
      BY <1>2, <1>3, <1>5
    <3>1. CASE i = 1 \/ j = 1
      <4>1. all[1] = c
        BY <1>2, <1>3
      <4>2. \A k \in 1..Len(others) : others[k] # c
        BY <1>2
      <4>3. \A m \in 1..n : m # 1 => all[m] # c
        BY <3>0, <4>2, Zenon
      <4>. QED
        BY <2>1, <3>1, <4>1, <4>3
    <3>2. CASE i # 1 /\ j # 1
      <4>1. /\ i - 1 \in 1..Len(others) /\ j - 1 \in 1..Len(others)
            /\ others[i - 1] = others[j - 1]
        BY <2>1, <3>0, <3>2
      <4>. QED
        BY <1>2, <4>1
    <3>. QED
      BY <3>1, <3>2
  <2>. QED
    BY <1>5, <1>6, <2>1 DEF IsInjective
<1>8. Listed(c, index) \in Lists \ {<<>>}
  BY <1>5, <1>6, <1>7 DEF Lists
<1>9. ToSet(Listed(c, index)) = { all[j] : j \in 1..n }
  BY <1>6, <1>8, ListElements
<1>10. ToSet(index) = { index[i] : i \in 1..Len(index) }
  BY ListElements
<1>11. ToSet(Listed(c, index)) \subseteq {c} \cup ToSet(index)
  <2>1. ASSUME NEW j \in 1..n PROVE all[j] = c \/ \E i \in 1..Len(index) : all[j] = index[i]
    <3>1. CASE j = 1
      BY <1>2, <1>3, <3>1
    <3>2. CASE j # 1
      <4>1. j - 1 \in 1..Len(others) /\ all[j] = others[j - 1]
        BY <1>2, <1>3, <1>5, <3>2
      <4>. QED
        BY <1>2, <4>1
    <3>. QED
      BY <3>1, <3>2
  <2>. QED
    BY <1>9, <1>10, <2>1
<1>12. CASE n = Len(all)
  <2>1. ASSUME NEW i \in 1..Len(index) PROVE \E j \in 1..n : all[j] = index[i]
    <3>1. CASE index[i] = c
      BY <1>2, <1>3, <1>5, <3>1
    <3>2. CASE index[i] # c
      <4>1. PICK j \in 1..Len(others) : others[j] = index[i]
        BY <1>2, <3>2
      <4>2. j + 1 \in 1..n /\ all[j + 1] = index[i]
        BY <1>2, <1>3, <1>12, <4>1
      <4>. QED
        BY <4>2
    <3>. QED
      BY <3>1, <3>2
  <2>. QED
    BY <1>8, <1>9, <1>10, <1>11, <2>1
<1>. QED
  BY <1>5, <1>6, <1>8, <1>11, <1>12

-----------------------------------------------------------------------------
(* Saving                                                                  *)

(* What a saving process saves, and where.                                 *)
LEMMA SavingJob ==
  ASSUME TypeInv, NEW p \in Procs, Saving(p)
  PROVE  /\ proc[p] \in Processes /\ proc[p].todo \in Jobs
         /\ proc[p].todo \in Saves =>
              Job(p) = "archive" /\ Path(p) = Archive(proc[p].conv) /\ Contents(p) = proc[p].turns
         /\ proc[p].todo \in SavedOnes \cup {Renaming} =>
              Job(p) = "current" /\ Path(p) = Current /\ Contents(p) = proc[p].conv
         /\ proc[p].todo \in Indexings =>
              Job(p) = "index" /\ Path(p) = Index /\ Contents(p) = Listed(proc[p].conv, proc[p].read)
         /\ proc[p].todo = Ending =>
              Job(p) = "session" /\ Path(p) = Session /\ Contents(p) = proc[p].sess
         /\ proc[p].todo = Interrupt =>
              Job(p) = "checkpoint" /\ Path(p) = Checkpoint /\ Contents(p) = proc[p].run
         /\ Path(p) \in Paths /\ Contents(p) \in Holds(Path(p))
         /\ Path(p) \notin InPlace => Path(p) \in InUse(proc[p])
<1>1. proc[p] \in Processes /\ ProcOK(proc[p], p) /\ proc[p].pc \in Stages
  BY DEF TypeInv, Saving
<1>2. proc[p].todo \in Jobs
  BY <1>1 DEF ProcOK, Stages, Processes, Todos
<1>3. /\ proc[p].todo \in Saves => Job(p) = "archive"
      /\ proc[p].todo \in SavedOnes \cup {Renaming} => Job(p) = "current"
      /\ proc[p].todo \in Indexings => Job(p) = "index"
      /\ proc[p].todo = Ending => Job(p) = "session"
      /\ proc[p].todo = Interrupt => Job(p) = "checkpoint"
  BY <1>2, JobsGoOn DEF Job
<1>4. /\ proc[p].todo \in Saves => Path(p) = Archive(proc[p].conv) /\ Contents(p) = proc[p].turns
      /\ proc[p].todo \in SavedOnes \cup {Renaming} => Path(p) = Current /\ Contents(p) = proc[p].conv
      /\ proc[p].todo \in Indexings => Path(p) = Index /\ Contents(p) = Listed(proc[p].conv, proc[p].read)
      /\ proc[p].todo = Ending => Path(p) = Session /\ Contents(p) = proc[p].sess
      /\ proc[p].todo = Interrupt => Path(p) = Checkpoint /\ Contents(p) = proc[p].run
  BY <1>3 DEF Path, Contents
<1>5. /\ proc[p].turns \in Runs /\ proc[p].sess \in Runs /\ proc[p].read \in Lists
      /\ proc[p].todo \in Saves \cup SavedOnes \cup Indexings \cup {Renaming} => proc[p].conv \in Convs
      /\ proc[p].todo = Interrupt => proc[p].run \in 1..MaxRuns
  BY <1>1 DEF Processes, ProcOK
<1>6. proc[p].todo \in Saves => Archive(proc[p].conv) \in Archives
  BY <1>5 DEF Archives
<1>7. Path(p) \in Paths /\ Contents(p) \in Holds(Path(p))
  <2>1. CASE proc[p].todo \in Saves
    BY <1>4, <1>5, <1>6, <2>1, HoldsWhat, PathsDiffer
  <2>2. CASE proc[p].todo \in Indexings
    BY <1>4, <1>5, <2>2, ListedIsList, HoldsWhat, PathsDiffer
  <2>3. CASE proc[p].todo \in SavedOnes \cup {Renaming}
    BY <1>4, <1>5, <2>3, HoldsWhat, PathsDiffer
  <2>4. CASE proc[p].todo = Ending
    BY <1>4, <1>5, <2>4, HoldsWhat, PathsDiffer
  <2>5. CASE proc[p].todo = Interrupt
    BY <1>4, <1>5, <2>5, HoldsWhat, PathsDiffer
  <2>. QED
    BY <1>2, <2>1, <2>2, <2>3, <2>4, <2>5 DEF Jobs
<1>8. Path(p) \notin InPlace => Path(p) \in InUse(proc[p])
  BY <1>1, <1>2, <1>4, <1>5, <1>7, UsedPaths, HomeAssumption DEF Jobs, InPlace, Stages
<1>. QED
  BY <1>1, <1>2, <1>3, <1>4, <1>7, <1>8

-----------------------------------------------------------------------------
(* Steps of a process: how each action moves its process on.               *)

(* p has done its first job, or failed to, and goes on with t.             *)
Follows(p, t) ==
  \/ t = Exit /\ proc'[p] = Off
  \/ /\ t \in Todos
     /\ proc'[p].todo = t /\ proc'[p].pc = Place(t)
     /\ Same(proc'[p], proc[p]) /\ proc'[p].read = <<>>

(* A save that is done or fails leaves its process one of the jobs after it.*)
LEMMA SavingFollows ==
  ASSUME TypeInv, NEW p \in Procs, Saving(p), NEW g \in Processes, Same(g, proc[p]),
         NEW t \in {Tail(proc[p].todo), AfterFailure(proc[p].todo)}, proc'[p] = GoOn(g, t)
  PROVE  Follows(p, t) /\ proc'[p] \in Processes /\ ProcOK(proc'[p], p)
<1>1. proc[p].todo \in Jobs /\ ProcOK(proc[p], p)
  BY SavingJob DEF TypeInv
<1>2. \/ t = Exit
      \/ t \in SavedOnes \cup Indexings /\ proc[p].conv \in Convs
      \/ t = <<>> /\ proc[p].conv \in Convs
      \/ t = Ending
  <2>1. CASE proc[p].todo \in Saves \cup SavedOnes \cup Indexings \cup {Renaming}
    <3>1. proc[p].conv \in Convs
      BY <1>1, <2>1 DEF ProcOK
    <3>2. t \in {Exit, <<>>, Ending} \cup SavedOnes \cup Indexings
      BY <1>1, <2>1, JobsGoOn, JobsFail DEF Saves
    <3>. QED
      BY <3>1, <3>2
  <2>2. CASE proc[p].todo \in {Ending, Interrupt}
    BY <1>1, <2>2, JobsGoOn, JobsFail
  <2>. QED
    BY <1>1, <2>1, <2>2 DEF Jobs
<1>3. CASE t = Exit
  BY <1>3, GoOnExit, OffRecord DEF Follows
<1>4. CASE t # Exit
  <2>1. t \in Todos /\ t # Interrupt
    BY <1>2, <1>4, JobsDiffer DEF Todos, Jobs
  <2>2. t \in Saves \cup SavedOnes \cup Indexings \cup {Renaming, <<>>} => g.conv \in Convs
    BY <1>2, <1>4, JobsDiffer DEF Same, Jobs
  <2>3. g.conv # NoConv => p \in Tuis
    BY <1>1 DEF ProcOK, Same
  <2>4. ProcOK(proc'[p], p)
    BY <2>1, <2>2, <2>3, GoOnOK
  <2>. QED
    BY <2>1, <2>4, GoOnRecord DEF Follows, Same
<1>. QED
  BY <1>3, <1>4

LEMMA ReadIndexMoves ==
  ASSUME TypeInv, NEW p \in Procs, ReadIndex(p)
  PROVE  /\ Moves(p, proc'[p]) /\ Same(proc'[p], proc[p])
         /\ proc'[p].pc = "create" /\ proc'[p].todo = proc[p].todo /\ proc[p].todo \in Indexings
         /\ proc'[p].read = <<>> \/ (proc'[p].read = file[Index] /\ file[Index] \notin Missing)
         /\ Index \notin missed' =>
              proc'[p].read = IF file[Index] \in Missing THEN <<>> ELSE file[Index]
         /\ proc[p].pc = "read"
         /\ missed' \in {missed \cup {Index}, missed \ {Index}}
<1>1. PICK r \in {<<>>, file[Index]} :
        Reads(Index, <<>>, r) /\ proc' = [proc EXCEPT ![p].pc = "create", ![p].read = r]
  BY DEF ReadIndex
<1>. DEFINE g == [proc[p] EXCEPT !.pc = "create", !.read = r]
<1>2. proc[p] \in Processes /\ ProcOK(proc[p], p) /\ proc[p].pc = "read"
  BY DEF TypeInv, ReadIndex
<1>3. /\ r = <<>> \/ (r = file[Index] /\ file[Index] \notin Missing)
      /\ Index \notin missed' => r = IF file[Index] \in Missing THEN <<>> ELSE file[Index]
      /\ missed' \in {missed \cup {Index}, missed \ {Index}}
  BY <1>1 DEF Reads, Readable, Missing
<1>4. Index \in Paths /\ <<>> \in Lists
  BY PathsDiffer, OffRecord DEF Off, Processes
<1>5. r \in Lists
  BY <1>3, <1>4, HoldsWhat DEF TypeInv
<1>6. g \in Processes /\ Same(g, proc[p]) /\ g.pc = "create" /\ g.todo = proc[p].todo /\ g.read = r
  BY <1>2, <1>5 DEF Processes, Stages, Same
<1>7. proc[p].todo \in Indexings
  BY <1>2 DEF ProcOK
<1>8. ProcOK(g, p)
  BY <1>2, <1>6, <1>7, JobsDiffer DEF ProcOK, Same, Jobs
<1>9. proc' = [proc EXCEPT ![p] = g]
  BY <1>1
<1>10. Moves(p, g) /\ proc'[p] = g
  BY <1>6, <1>8, <1>9, MovesAlone DEF TypeInv
<1>. QED
  BY <1>2, <1>3, <1>6, <1>7, <1>10

LEMMA CreateMoves ==
  ASSUME TypeInv, NEW p \in Procs, Create(p)
  PROVE  /\ Moves(p, proc'[p]) /\ Same(proc'[p], proc[p]) /\ Saving(p)
         /\ proc'[p].pc = "write" /\ proc'[p].todo = proc[p].todo /\ proc'[p].read = proc[p].read
         /\ proc'[p].fd = (IF Path(p) \in InPlace THEN "file" ELSE "tmp")
<1>. DEFINE f == IF Path(p) \in InPlace THEN "file" ELSE "tmp"
            g == [proc[p] EXCEPT !.pc = "write", !.fd = f]
<1>1. proc[p] \in Processes /\ ProcOK(proc[p], p) /\ proc[p].pc = "create" /\ Saving(p)
  BY DEF TypeInv, Create, Saving, Stages
<1>2. proc[p].todo \in SavedOnes \cup {Renaming} => f = "file"
  BY <1>1, SavingJob DEF InPlace
<1>3. /\ g \in Processes /\ Same(g, proc[p]) /\ g.pc = "write" /\ g.todo = proc[p].todo
      /\ g.read = proc[p].read /\ g.fd = f
  BY <1>1 DEF Processes, Stages, Same
<1>. HIDE DEF f
<1>4. ProcOK(g, p)
  BY <1>1, <1>2, <1>3 DEF ProcOK, Same
<1>5. proc' = [proc EXCEPT ![p] = g]
  BY DEF Create, f
<1>6. Moves(p, g) /\ proc'[p] = g
  BY <1>3, <1>4, <1>5, MovesAlone DEF TypeInv
<1>. QED
  BY <1>1, <1>3, <1>6 DEF f

LEMMA WriteMoves ==
  ASSUME TypeInv, NEW p \in Procs, Write(p)
  PROVE  /\ Moves(p, proc'[p]) /\ Saving(p)
         /\ Path(p) \in InPlace => Follows(p, Tail(proc[p].todo))
         /\ Path(p) \notin InPlace =>
              /\ Same(proc'[p], proc[p]) /\ proc'[p].pc = "rename"
              /\ proc'[p].todo = proc[p].todo /\ proc'[p].read = proc[p].read
<1>1. proc[p] \in Processes /\ ProcOK(proc[p], p) /\ proc[p].pc = "write" /\ Saving(p)
  BY DEF TypeInv, Write, Saving, Stages
<1>2. CASE Path(p) \in InPlace
  <2>. DEFINE h == [proc[p] EXCEPT !.fd = "gone"]
              g == GoOn(h, Tail(proc[p].todo))
  <2>1. h \in Processes /\ Same(h, proc[p])
    BY <1>1 DEF Processes, Same
  <2>2. h.todo = proc[p].todo
    BY <1>1 DEF Processes
  <2>3. proc' = [proc EXCEPT ![p] = g]
    BY <1>2, <2>2 DEF Write
  <2>4. proc'[p] = g
    BY <2>3 DEF TypeInv
  <2>. HIDE DEF h
  <2>5. Follows(p, Tail(proc[p].todo)) /\ g \in Processes /\ ProcOK(g, p)
    BY <1>1, <2>1, <2>4, SavingFollows
  <2>. QED
    BY <1>1, <1>2, <2>3, <2>4, <2>5, MovesAlone
<1>3. CASE Path(p) \notin InPlace
  <2>. DEFINE g == [proc[p] EXCEPT !.pc = "rename", !.fd = "gone"]
  <2>1. /\ g \in Processes /\ Same(g, proc[p]) /\ g.pc = "rename" /\ g.todo = proc[p].todo
        /\ g.read = proc[p].read
    BY <1>1 DEF Processes, Same, Stages
  <2>2. proc' = [proc EXCEPT ![p] = g]
    BY <1>3 DEF Write
  <2>3. proc[p].todo \notin SavedOnes \cup {Renaming}
    BY <1>1, <1>3, SavingJob DEF InPlace
  <2>4. ProcOK(g, p)
    BY <1>1, <2>1, <2>3 DEF ProcOK, Same
  <2>5. proc'[p] = g
    BY <2>2 DEF TypeInv
  <2>. QED
    BY <1>1, <1>3, <2>1, <2>2, <2>4, <2>5, MovesAlone
<1>. QED
  BY <1>2, <1>3

LEMMA FailMoves ==
  ASSUME TypeInv, NEW p \in Procs, Fail(p)
  PROVE  Moves(p, proc'[p]) /\ Saving(p) /\ Follows(p, AfterFailure(proc[p].todo))
<1>. DEFINE h == [proc[p] EXCEPT !.fd = "gone"]
            g == GoOn(h, AfterFailure(proc[p].todo))
<1>1. proc[p] \in Processes /\ Saving(p)
  BY DEF TypeInv, Fail
<1>2. h \in Processes /\ Same(h, proc[p])
  BY <1>1 DEF Processes, Same
<1>3. h.todo = proc[p].todo
  BY <1>1 DEF Processes
<1>4. proc' = [proc EXCEPT ![p] = g]
  BY <1>3 DEF Fail
<1>5. proc'[p] = g
  BY <1>4 DEF TypeInv
<1>. HIDE DEF h
<1>6. Follows(p, AfterFailure(proc[p].todo)) /\ g \in Processes /\ ProcOK(g, p)
  BY <1>1, <1>2, <1>5, SavingFollows
<1>. QED
  BY <1>1, <1>4, <1>5, <1>6, MovesAlone

LEMMA RenameMoves ==
  ASSUME TypeInv, NEW p \in Procs, Rename(p)
  PROVE  /\ Moves(p, proc'[p]) /\ Saving(p) /\ Path(p) \notin InPlace
         /\ Follows(p, Tail(proc[p].todo))
<1>. DEFINE g == GoOn(proc[p], Tail(proc[p].todo))
            Passed(q) ==
              IF Saving(q) /\ Path(q) = Path(p)
              THEN [proc[q] EXCEPT !.fd = IF @ = "tmp" THEN "file" ELSE "gone"]
              ELSE proc[q]
<1>1. proc[p] \in Processes /\ ProcOK(proc[p], p) /\ proc[p].pc = "rename" /\ Saving(p)
  BY DEF TypeInv, Rename, Saving, Stages
<1>2. Path(p) \notin InPlace
  <2>1. proc[p].todo \notin SavedOnes \cup {Renaming}
    BY <1>1 DEF ProcOK
  <2>2. /\ proc[p].todo \in Jobs
        /\ proc[p].todo \in Saves => Path(p) = Archive(proc[p].conv) /\ proc[p].conv \in Convs
        /\ proc[p].todo \in Indexings => Path(p) = Index
        /\ proc[p].todo = Ending => Path(p) = Session
        /\ proc[p].todo = Interrupt => Path(p) = Checkpoint
    BY <1>1, SavingJob DEF ProcOK
  <2>. QED
    BY <2>1, <2>2, PathsDiffer DEF InPlace, Archives, Jobs
<1>3. proc' = [q \in Procs |-> IF q = p THEN g ELSE Passed(q)]
  BY DEF Rename
<1>4. proc'[p] = g /\ Same(proc[p], proc[p])
  BY <1>3 DEF Same
<1>5. Follows(p, Tail(proc[p].todo)) /\ g \in Processes /\ ProcOK(g, p)
  BY <1>1, <1>4, SavingFollows
<1>. HIDE DEF g
<1>6. ASSUME NEW q \in Procs \ {p}
      PROVE  /\ Alike(proc'[q], proc[q])
             /\ proc'[q] = proc[q] \/ (Saving(q) /\ Path(q) = Path(p))
  <2>1. proc[q] \in Processes /\ proc'[q] = Passed(q)
    BY <1>3 DEF TypeInv
  <2>2. CASE Saving(q) /\ Path(q) = Path(p)
    <3>1. proc[q].todo \notin SavedOnes \cup {Renaming} /\ proc[q].pc # "off"
      BY <1>2, <2>2, SavingJob DEF InPlace, Saving, Stages
    <3>. QED
      BY <2>1, <2>2, <3>1 DEF Alike, Processes, Same
  <2>3. CASE ~(Saving(q) /\ Path(q) = Path(p))
    BY <2>1, <2>3 DEF Alike, Same
  <2>. QED
    BY <2>2, <2>3
<1>7. proc' \in [Procs -> Processes]
  <2>1. \A q \in Procs : proc'[q] \in Processes
    BY <1>4, <1>5, <1>6 DEF Alike
  <2>. QED
    BY <1>3, <2>1
<1>. QED
  BY <1>1, <1>2, <1>4, <1>5, <1>6, <1>7 DEF Moves

(* What can be read of a file with runs is a set of runs.                  *)
LEMMA EntriesType ==
  ASSUME TypeInv, NEW x \in Archives \cup {Session}, file[x] \notin Unreadable
  PROVE  Entries(file[x]) \in Runs
  BY HoldsWhat, PathsDiffer DEF TypeInv, Entries, Missing, Runs

LEMMA LoadMoves ==
  ASSUME TypeInv, NEW p \in Procs, Load(p)
  PROVE  /\ Moves(p, proc'[p])
         /\ proc'[p].pc = "loaded" /\ proc'[p].todo = <<>> /\ proc'[p].conv = NoConv
         /\ proc'[p].read = <<>> /\ proc'[p].sess = Entries(file[Session])
         /\ file[Session] \notin Unreadable
<1>. DEFINE g == [Off EXCEPT !.pc = "loaded", !.sess = Entries(file[Session])]
<1>1. file[Session] \notin Unreadable /\ Entries(file[Session]) \in Runs
  BY EntriesType DEF Load
<1>2. /\ g \in Processes /\ g.pc = "loaded" /\ g.todo = <<>> /\ g.conv = NoConv
      /\ g.read = <<>> /\ g.sess = Entries(file[Session])
  BY <1>1, OffRecord DEF Off, Processes
<1>3. ProcOK(g, p)
  BY <1>2, JobsDiffer DEF ProcOK, Jobs
<1>4. proc' = [proc EXCEPT ![p] = g]
  BY DEF Load
<1>5. proc'[p] = g
  BY <1>4 DEF TypeInv
<1>. QED
  BY <1>1, <1>2, <1>3, <1>4, <1>5, MovesAlone

LEMMA OpenMoves ==
  ASSUME TypeInv, NEW p \in Procs, NEW c \in Convs, Open(p, c)
  PROVE  /\ Moves(p, proc'[p]) /\ proc[p].pc = "loaded"
         /\ proc'[p].pc = "up" /\ proc'[p].todo = <<>> /\ proc'[p].conv = c
         /\ proc'[p].read = proc[p].read /\ proc'[p].sess = proc[p].sess
         /\ Archive(c) \notin missed' => proc'[p].turns = Entries(file[Archive(c)])
         /\ missed' \in {missed \cup {Archive(c)}, missed \ {Archive(c)}}
<1>1. PICK t \in {{}, file[Archive(c)]} :
        /\ Reads(Archive(c), {}, t)
        /\ proc' = [proc EXCEPT ![p].pc = "up", ![p].conv = c, ![p].turns = t]
  BY DEF Open
<1>. DEFINE g == [proc[p] EXCEPT !.pc = "up", !.conv = c, !.turns = t]
<1>2. proc[p] \in Processes /\ ProcOK(proc[p], p) /\ proc[p].pc = "loaded" /\ p \in Tuis
  BY DEF TypeInv, Open
<1>3. /\ t = {} \/ (t = file[Archive(c)] /\ file[Archive(c)] \notin Missing)
      /\ Archive(c) \notin missed' => t = Entries(file[Archive(c)])
      /\ missed' \in {missed \cup {Archive(c)}, missed \ {Archive(c)}}
  BY <1>1 DEF Reads, Readable, Missing, Entries
<1>4. Archive(c) \in Paths /\ Holds(Archive(c)) = Runs
  BY HoldsWhat, PathsDiffer DEF Archives
<1>5. t \in Runs
  BY <1>3, <1>4 DEF TypeInv, Runs
<1>6. /\ g \in Processes /\ g.pc = "up" /\ g.todo = <<>> /\ g.conv = c /\ g.turns = t
      /\ g.read = proc[p].read /\ g.sess = proc[p].sess
  BY <1>2, <1>5 DEF ProcOK, Processes
<1>7. ProcOK(g, p)
  BY <1>2, <1>6, JobsDiffer DEF ProcOK, Jobs
<1>8. proc' = [proc EXCEPT ![p] = g]
  BY <1>1
<1>9. proc'[p] = g
  BY <1>8 DEF TypeInv
<1>. QED
  BY <1>2, <1>3, <1>6, <1>7, <1>8, <1>9, MovesAlone

LEMMA EndRunMoves ==
  ASSUME TypeInv, NEW p \in Procs, EndRun(p)
  PROVE  /\ Moves(p, proc'[p]) /\ proc[p].pc = "up" /\ asked + 1 \in 1..MaxRuns
         /\ proc'[p].pc = "create" /\ proc'[p].todo = Save /\ proc'[p].conv = proc[p].conv
         /\ proc'[p].read = <<>>
         /\ proc'[p].sess = proc[p].sess \cup {asked + 1}
         /\ proc'[p].turns = proc[p].turns \cup {asked + 1}
<1>. DEFINE h == [proc[p] EXCEPT !.turns = @ \cup {asked + 1}, !.sess = @ \cup {asked + 1}]
            g == GoOn(h, SaveConversation)
<1>1. proc[p] \in Processes /\ ProcOK(proc[p], p) /\ proc[p].pc = "up"
  BY DEF TypeInv, EndRun
<1>2. asked + 1 \in 1..MaxRuns
  BY HomeAssumption DEF TypeInv, EndRun
<1>3. /\ h \in Processes /\ h.conv = proc[p].conv
      /\ h.sess = proc[p].sess \cup {asked + 1} /\ h.turns = proc[p].turns \cup {asked + 1}
  BY <1>1, <1>2 DEF Processes, Runs
<1>. HIDE DEF h
<1>4. Save \in Todos /\ Place(Save) = "create" /\ Save # Interrupt
  BY JobsDiffer DEF Todos, Jobs, Saves, Place
<1>5. g = GoOn(h, Save)
  BY LastSaveIsSaves
<1>6. ProcOK(g, p)
  BY <1>1, <1>3, <1>4, <1>5, GoOnOK DEF ProcOK
<1>7. proc' = [proc EXCEPT ![p] = g]
  BY DEF EndRun, h
<1>8. proc'[p] = g
  BY <1>7 DEF TypeInv
<1>9. g \in Processes
  BY <1>3, <1>4, <1>5, GoOnRecord
<1>10. /\ g.pc = "create" /\ g.todo = Save /\ Same(g, h) /\ g.read = <<>>
  BY <1>3, <1>4, <1>5, GoOnRecord
<1>11. Moves(p, proc'[p])
  BY <1>6, <1>7, <1>8, <1>9, MovesAlone
<1>. HIDE DEF g
<1>. QED
  BY <1>1, <1>2, <1>3, <1>8, <1>10, <1>11 DEF Same

LEMMA QuitMoves ==
  ASSUME TypeInv, NEW p \in Procs, Quit(p)
  PROVE  /\ Moves(p, proc'[p]) /\ proc[p].pc = "up" /\ Same(proc'[p], proc[p])
         /\ proc'[p].pc = "create" /\ proc'[p].todo = LastSave /\ proc'[p].read = <<>>
<1>1. proc[p] \in Processes /\ ProcOK(proc[p], p) /\ proc[p].pc = "up"
  BY DEF TypeInv, Quit
<1>2. LastSave \in Todos /\ Place(LastSave) = "create" /\ LastSave # Interrupt
  BY JobsDiffer DEF Todos, Jobs, Saves, Place
<1>3. proc' = [proc EXCEPT ![p] = GoOn(proc[p], LastSave)]
  BY LastSaveIsSaves DEF Quit
<1>4. proc'[p] = GoOn(proc[p], LastSave)
  BY <1>3 DEF TypeInv
<1>5. ProcOK(GoOn(proc[p], LastSave), p)
  BY <1>1, <1>2, GoOnOK DEF ProcOK
<1>6. /\ GoOn(proc[p], LastSave) \in Processes /\ GoOn(proc[p], LastSave).pc = "create"
      /\ GoOn(proc[p], LastSave).todo = LastSave
      /\ Same(GoOn(proc[p], LastSave), proc[p]) /\ GoOn(proc[p], LastSave).read = <<>>
  BY <1>1, <1>2, GoOnRecord
<1>7. Moves(p, proc'[p])
  BY <1>3, <1>4, <1>5, <1>6, MovesAlone
<1>. QED
  BY <1>1, <1>4, <1>6, <1>7

LEMMA QueryMoves ==
  ASSUME TypeInv, NEW p \in Procs, Query(p)
  PROVE  /\ Moves(p, proc'[p]) /\ proc[p].pc = "loaded" /\ proc'[p].conv = proc[p].conv
         /\ proc'[p].turns = proc[p].turns
         /\ proc'[p].pc = "create" /\ proc'[p].todo \in {Interrupt, Ending} /\ proc'[p].read = <<>>
         /\ asked' \in 0..MaxRuns
         /\ \E r \in 1..MaxRuns : proc'[p].sess = proc[p].sess \cup {r} /\ unkept' = unkept \cup {r}
<1>1. proc[p] \in Processes /\ ProcOK(proc[p], p) /\ proc[p].pc = "loaded"
  BY DEF TypeInv, Query
<1>2. PICK r \in 1..MaxRuns, t \in {Interrupt, Ending} :
        /\ asked' = (IF r = asked + 1 THEN r ELSE asked)
        /\ unkept' = unkept \cup {r}
        /\ proc' = [proc EXCEPT ![p] = GoOn([proc[p] EXCEPT !.sess = @ \cup {r}, !.run = r], t)]
  BY DEF Query, Interrupt, Ending
<1>. DEFINE h == [proc[p] EXCEPT !.sess = @ \cup {r}, !.run = r]
<1>3. /\ h \in Processes /\ h.conv = proc[p].conv /\ h.turns = proc[p].turns
      /\ h.sess = proc[p].sess \cup {r} /\ h.run = r
  <2>1. r \in 0..MaxRuns /\ proc[p].sess \cup {r} \in Runs
    BY <1>1, HomeAssumption DEF Processes, Runs
  <2>. QED
    BY <1>1, <2>1 DEF Processes
<1>4. proc' = [proc EXCEPT ![p] = GoOn(h, t)]
  BY <1>2
<1>. HIDE DEF h
<1>5. t \in Todos /\ Place(t) = "create"
      /\ t \notin Saves \cup SavedOnes \cup Indexings \cup {Renaming, <<>>}
  BY JobsDiffer DEF Todos, Jobs, Place
<1>6. ProcOK(GoOn(h, t), p)
  BY <1>1, <1>3, <1>5, GoOnOK DEF ProcOK
<1>7. proc'[p] = GoOn(h, t)
  BY <1>4 DEF TypeInv
<1>8. /\ GoOn(h, t) \in Processes /\ GoOn(h, t).pc = "create" /\ GoOn(h, t).todo = t
      /\ Same(GoOn(h, t), h) /\ GoOn(h, t).read = <<>>
  BY <1>3, <1>5, GoOnRecord
<1>9. asked' \in 0..MaxRuns
  BY <1>2 DEF TypeInv
<1>10. Moves(p, proc'[p])
  BY <1>4, <1>6, <1>7, <1>8, MovesAlone
<1>. QED
  BY <1>1, <1>2, <1>3, <1>7, <1>8, <1>9, <1>10 DEF Same

LEMMA CrashMoves ==
  ASSUME TypeInv, NEW p \in Procs, Crash(p)
  PROVE  Moves(p, proc'[p]) /\ proc'[p] = Off
<1>1. proc' = [proc EXCEPT ![p] = Off] /\ proc'[p] = Off
  BY DEF TypeInv, Crash
<1>. QED
  BY <1>1, OffRecord, MovesAlone

LEMMA StartNewMoves ==
  ASSUME TypeInv, NEW p \in Procs, NEW c \in Convs, StartNewConversation(p, c)
  PROVE  /\ Moves(p, proc'[p]) /\ proc[p].pc = "up" /\ IsFresh(c)
         /\ proc'[p].pc = "create" /\ proc'[p].todo = Renaming /\ proc'[p].conv = c
         /\ proc'[p].read = <<>> /\ proc'[p].sess = proc[p].sess /\ proc'[p].turns = {}
<1>. DEFINE h == [proc[p] EXCEPT !.conv = c, !.turns = {}]
<1>1. proc[p] \in Processes /\ ProcOK(proc[p], p) /\ proc[p].pc = "up" /\ IsFresh(c)
  BY DEF TypeInv, StartNewConversation
<1>2. p \in Tuis
  BY <1>1, HomeAssumption DEF ProcOK
<1>3. h \in Processes /\ h.conv = c /\ h.turns = {} /\ h.sess = proc[p].sess
  BY <1>1 DEF Processes, Runs
<1>4. proc' = [proc EXCEPT ![p] = GoOn(h, Renaming)]
  BY DEF StartNewConversation, Renaming
<1>. HIDE DEF h
<1>5. Renaming \in Todos /\ Place(Renaming) = "create" /\ Renaming # Interrupt
  BY JobsDiffer DEF Todos, Jobs, Place
<1>6. ProcOK(GoOn(h, Renaming), p)
  BY <1>2, <1>3, <1>5, GoOnOK
<1>7. /\ GoOn(h, Renaming) \in Processes /\ GoOn(h, Renaming).pc = "create"
      /\ GoOn(h, Renaming).todo = Renaming
      /\ Same(GoOn(h, Renaming), h) /\ GoOn(h, Renaming).read = <<>>
  BY <1>3, <1>5, GoOnRecord
<1>8. proc'[p] = GoOn(h, Renaming)
  BY <1>4 DEF TypeInv
<1>9. Moves(p, proc'[p])
  BY <1>4, <1>6, <1>7, <1>8, MovesAlone
<1>. QED
  BY <1>1, <1>3, <1>7, <1>8, <1>9 DEF Same

-----------------------------------------------------------------------------
(* Steps on the files                                                      *)

FilesOK(f) ==
  f \in [Paths -> Contained] /\ \A x \in Paths : f[x] \in Holds(x) \cup Missing

(* A file may be given what belongs there, or be cut short.                *)
LEMMA FilesPut ==
  ASSUME NEW f, FilesOK(f), NEW x \in Paths, NEW v \in Holds(x) \cup Missing,
         NEW g, g = [f EXCEPT ![x] = v]
  PROVE  FilesOK(g) /\ g[x] = v /\ \A y \in Paths \ {x} : g[y] = f[y]
<1>1. v \in Contained
  BY HoldsReadable DEF Contained
<1>. QED
  BY <1>1 DEF FilesOK

SavesStep(p) == Create(p) \/ Write(p) \/ Rename(p) \/ Fail(p)

(* What a step of a save does to the files: it only touches its path, and  *)
(* a file that is there stays.                                             *)
Touches(p) ==
  /\ FilesOK(file') /\ FilesOK(tmp') /\ tmp'[Current] = Absent
  /\ \A x \in Paths :
       /\ x # Path(p) => file'[x] = file[x] /\ tmp'[x] = tmp[x]
       /\ file'[x] \in {file[x], tmp[x], Contents(p)} \cup Unreadable
       /\ file[x] # Absent => file'[x] # Absent
       /\ tmp'[x] \in {tmp[x], Contents(p)} \cup Missing

(* A write puts in what is saved or part of it, in one file at its path.   *)
LEMMA PutTouches ==
  ASSUME TypeInv, NEW p \in Procs, Saving(p), proc[p].pc = "write",
         NEW data \in {Contents(p), Torn}, Put(p, data)
  PROVE  Touches(p)
<1>1. /\ FilesOK(file) /\ FilesOK(tmp) /\ tmp[Current] = Absent
      /\ ProcOK(proc[p], p) /\ proc[p].fd \in {"tmp", "file", "gone"}
  BY DEF TypeInv, FilesOK, Processes
<1>2. /\ Path(p) \in Paths /\ data \in Holds(Path(p)) \cup Missing /\ data # Absent
      /\ Torn \in Unreadable
  BY SavingJob, HoldsReadable, HomeAssumption DEF Missing, Unreadable
<1>3. Path(p) = Current => proc[p].fd = "file"
  <2>1. Path(p) = Current => proc[p].todo \in SavedOnes \cup {Renaming}
    <3>1. proc[p].todo \in Saves => Path(p) \in Archives
      BY <1>1, SavingJob DEF ProcOK, Archives
    <3>. QED
      BY <3>1, SavingJob, PathsDiffer DEF Jobs
  <2>. QED
    BY <1>1, <2>1 DEF ProcOK
<1>4. CASE proc[p].fd = "tmp"
  <2>1. tmp' = [tmp EXCEPT ![Path(p)] = data] /\ file' = file
    BY <1>4 DEF Put
  <2>2. /\ FilesOK(tmp') /\ tmp'[Path(p)] = data
        /\ \A y \in Paths \ {Path(p)} : tmp'[y] = tmp[y]
    BY <1>1, <1>2, <2>1, FilesPut DEF FilesOK
  <2>3. tmp'[Current] = Absent
    BY <1>1, <1>3, <1>4, <2>2, PathsDiffer
  <2>. QED
    BY <1>1, <1>2, <2>1, <2>2, <2>3 DEF Touches, Missing
<1>5. CASE proc[p].fd = "file"
  <2>1. file' = [file EXCEPT ![Path(p)] = data] /\ tmp' = tmp
    BY <1>5 DEF Put
  <2>2. /\ FilesOK(file') /\ file'[Path(p)] = data
        /\ \A y \in Paths \ {Path(p)} : file'[y] = file[y]
    BY <1>1, <1>2, <2>1, FilesPut DEF FilesOK
  <2>. QED
    BY <1>1, <1>2, <2>1, <2>2 DEF Touches
<1>6. CASE proc[p].fd = "gone"
  BY <1>1, <1>6 DEF Touches, Put
<1>. QED
  BY <1>1, <1>4, <1>5, <1>6

LEMMA SavesTouch ==
  ASSUME TypeInv, NEW p \in Procs, SavesStep(p)
  PROVE  Touches(p) /\ Saving(p)
<1>0. Saving(p)
  BY CreateMoves, WriteMoves, RenameMoves, FailMoves DEF SavesStep
<1>1. FilesOK(file) /\ FilesOK(tmp) /\ tmp[Current] = Absent
  BY DEF TypeInv, FilesOK
<1>2. Path(p) \in Paths /\ Empty \in Unreadable /\ Empty # Absent /\ Absent \in Missing
  BY <1>0, SavingJob, HomeAssumption DEF Unreadable, Missing
<1>3. CASE Create(p)
  <2>1. CASE Path(p) \in InPlace
    <3>1. file' = [file EXCEPT ![Path(p)] = Empty] /\ tmp' = tmp
      BY <1>3, <2>1 DEF Create
    <3>2. /\ FilesOK(file') /\ file'[Path(p)] = Empty
          /\ \A y \in Paths \ {Path(p)} : file'[y] = file[y]
      BY <1>1, <1>2, <3>1, FilesPut DEF FilesOK, Missing
    <3>. QED
      BY <1>0, <1>1, <1>2, <3>1, <3>2 DEF Touches
  <2>2. CASE Path(p) \notin InPlace
    <3>1. tmp' = [tmp EXCEPT ![Path(p)] = Empty] /\ file' = file
      BY <1>3, <2>2 DEF Create
    <3>2. /\ FilesOK(tmp') /\ tmp'[Path(p)] = Empty
          /\ \A y \in Paths \ {Path(p)} : tmp'[y] = tmp[y]
      BY <1>1, <1>2, <3>1, FilesPut DEF FilesOK, Missing
    <3>3. tmp'[Current] = Absent
      BY <1>1, <2>2, <3>2, PathsDiffer DEF InPlace
    <3>. QED
      BY <1>0, <1>1, <1>2, <3>1, <3>2, <3>3 DEF Touches, Missing
  <2>. QED
    BY <2>1, <2>2
<1>4. CASE Write(p)
  BY <1>0, <1>4, PutTouches DEF Write
<1>5. CASE Rename(p)
  <2>1. /\ file' = [file EXCEPT ![Path(p)] = tmp[Path(p)]]
        /\ tmp' = [tmp EXCEPT ![Path(p)] = Absent] /\ tmp[Path(p)] # Absent
    BY <1>5 DEF Rename
  <2>2. tmp[Path(p)] \in Holds(Path(p)) \cup Missing
    BY <1>1, <1>2 DEF FilesOK
  <2>3. /\ FilesOK(file') /\ file'[Path(p)] = tmp[Path(p)]
        /\ \A y \in Paths \ {Path(p)} : file'[y] = file[y]
    BY <1>1, <1>2, <2>1, <2>2, FilesPut DEF FilesOK
  <2>4. /\ FilesOK(tmp') /\ tmp'[Path(p)] = Absent
        /\ \A y \in Paths \ {Path(p)} : tmp'[y] = tmp[y]
    BY <1>1, <1>2, <2>1, FilesPut DEF FilesOK
  <2>5. tmp'[Current] = Absent
    BY <1>1, <2>4, PathsDiffer
  <2>. QED
    BY <1>1, <1>2, <2>1, <2>3, <2>4, <2>5, <1>0 DEF Touches
<1>6. CASE Fail(p)
  <2>1. CASE file' = file /\ tmp' = tmp
    BY <1>0, <1>1, <2>1 DEF Touches
  <2>2. CASE proc[p].pc = "write" /\ Put(p, Torn)
    BY <1>0, <2>2, PutTouches
  <2>. QED
    BY <1>6, <2>1, <2>2 DEF Fail
<1>. QED
  BY <1>0, <1>3, <1>4, <1>5, <1>6 DEF SavesStep

(* A file nobody else uses is whole until it is renamed, and then holds    *)
(* what the process held.                                                  *)
LEMMA SavesWhole ==
  ASSUME TypeInv, WholeInv, NEW p \in Procs, SavesStep(p), Path(p) \notin spoilt \cup InPlace
  PROVE  /\ ~Rename(p) => file' = file
         /\ Rename(p) => file'[Path(p)] = Contents(p)
         /\ Create(p) => tmp'[Path(p)] = Empty
         /\ Write(p) => tmp'[Path(p)] = Contents(p)
<1>1. Saving(p) /\ OwnFile(p) /\ Path(p) \in Paths
  BY SavesTouch, SavingJob DEF WholeInv
<1>2. /\ proc[p].pc = "write" => proc[p].fd = "tmp" /\ tmp[Path(p)] = Empty
      /\ proc[p].pc = "rename" => tmp[Path(p)] = Contents(p)
  BY <1>1 DEF OwnFile
<1>3. CASE Create(p)
  <2>1. file' = file /\ tmp' = [tmp EXCEPT ![Path(p)] = Empty] /\ proc[p].pc = "create"
    BY <1>3 DEF Create
  <2>. QED
    BY <1>1, <2>1 DEF TypeInv, Rename, Write
<1>4. CASE Write(p)
  <2>1. proc[p].pc = "write" /\ Put(p, Contents(p))
    BY <1>2, <1>4 DEF Write, Found
  <2>2. file' = file /\ tmp' = [tmp EXCEPT ![Path(p)] = Contents(p)]
    BY <1>2, <2>1 DEF Put
  <2>. QED
    BY <1>1, <2>1, <2>2 DEF TypeInv, Rename, Create
<1>5. CASE Rename(p)
  <2>1. file' = [file EXCEPT ![Path(p)] = tmp[Path(p)]] /\ proc[p].pc = "rename"
    BY <1>5 DEF Rename
  <2>. QED
    BY <1>1, <1>2, <1>5, <2>1 DEF TypeInv, Create, Write
<1>6. CASE Fail(p) /\ ~Create(p) /\ ~Write(p) /\ ~Rename(p)
  BY <1>2, <1>6 DEF Fail, Put
<1>. QED
  BY <1>3, <1>4, <1>5, <1>6 DEF SavesStep

-----------------------------------------------------------------------------
(* Steps                                                                   *)

OtherStep(p) ==
  \/ ReadIndex(p) \/ Load(p) \/ EndRun(p) \/ Quit(p) \/ Query(p) \/ Crash(p)
  \/ \E c \in Convs : Open(p, c) \/ StartNewConversation(p, c)

Step(p) == SavesStep(p) \/ OtherStep(p)

LEMMA OtherStepFiles ==
  ASSUME NEW p \in Procs, OtherStep(p)
  PROVE  file' = file /\ tmp' = tmp
  BY DEF OtherStep, ReadIndex, Load, EndRun, Quit, Query, Crash, Open, StartNewConversation

LEMMA StepMoves ==
  ASSUME TypeInv, NEW p \in Procs, Step(p)
  PROVE  Moves(p, proc'[p]) /\ Spoils(p)
<1>1. CASE SavesStep(p)
  <2>1. Spoils(p)
    BY <1>1 DEF SavesStep, Create, Write, Rename, Fail
  <2>. QED
    BY <1>1, <2>1, CreateMoves, WriteMoves, RenameMoves, FailMoves DEF SavesStep
<1>2. CASE OtherStep(p)
  <2>1. Spoils(p)
    BY <1>2 DEF OtherStep, ReadIndex, Load, EndRun, Quit, Query, Crash, Open, StartNewConversation
  <2>. QED
    BY <1>2, <2>1, ReadIndexMoves, LoadMoves, EndRunMoves, QuitMoves, QueryMoves, CrashMoves,
       OpenMoves, StartNewMoves DEF OtherStep
<1>. QED
  BY <1>1, <1>2 DEF Step

LEMMA StepCounts ==
  ASSUME TypeInv, NEW p \in Procs, Step(p)
  PROVE  /\ asked' \in 0..MaxRuns /\ starts' \in 0..MaxStarts
         /\ unkept' \in Runs /\ unkept \subseteq unkept'
         /\ missed' \in SUBSET (Archives \cup {Index})
<1>0. /\ asked \in 0..MaxRuns /\ starts \in 0..MaxStarts /\ unkept \in Runs
      /\ proc[p] \in Processes /\ missed \in SUBSET (Archives \cup {Index})
  BY DEF TypeInv
<1>1. CASE SavesStep(p)
  <2>1. asked' = asked /\ starts' = starts /\ missed' \subseteq missed
    BY <1>1 DEF SavesStep, Create, Write, Rename, Fail
  <2>2. \/ unkept' \in {unkept, unkept \cup proc[p].turns}
        \/ unkept' = unkept \cup file[Path(p)] /\ Path(p) \in missed \ {Index} /\ Readable(Path(p))
    <3>1. Rename(p) /\ Job(p) = "archive" => Path(p) # Index
      BY DEF Path, Archive, Index
    <3>. QED
      BY <1>1, <3>1 DEF SavesStep, Create, Write, Rename, Fail
  <2>3. Path(p) \in missed \ {Index} /\ Readable(Path(p)) => file[Path(p)] \in Runs
    BY <1>0, HoldsWhat, PathsDiffer DEF TypeInv, Readable, Missing
  <2>. QED
    BY <1>0, <2>1, <2>2, <2>3 DEF Processes, Runs
<1>2. CASE EndRun(p)
  <2>1. asked' = asked + 1 /\ starts' = starts /\ unkept' = unkept /\ missed' = missed
    BY <1>2 DEF EndRun
  <2>2. asked + 1 \in 1..MaxRuns
    BY <1>2, EndRunMoves
  <2>. QED
    BY <1>0, <2>1, <2>2
<1>3. CASE Load(p)
  <2>1. asked' = asked /\ starts' = starts + 1 /\ starts < MaxStarts /\ unkept' = unkept /\ missed' = missed
    BY <1>3 DEF Load
  <2>. QED
    BY <1>0, <2>1, HomeAssumption
<1>4. CASE Query(p)
  <2>1. starts' = starts /\ missed' = missed
    BY <1>4 DEF Query
  <2>2. asked' \in 0..MaxRuns /\ \E r \in 1..MaxRuns : unkept' = unkept \cup {r}
    BY <1>4, QueryMoves
  <2>. QED
    BY <1>0, <2>1, <2>2 DEF Runs
<1>5. CASE ReadIndex(p) \/ Quit(p) \/ Crash(p) \/ \E c \in Convs : Open(p, c) \/ StartNewConversation(p, c)
  <2>1. asked' = asked /\ starts' = starts /\ unkept' = unkept
    BY <1>5 DEF ReadIndex, Quit, Crash, Open, StartNewConversation
  <2>2. CASE ReadIndex(p)
    BY <1>0, <2>1, <2>2, ReadIndexMoves
  <2>3. CASE \E c \in Convs : Open(p, c)
    BY <1>0, <2>1, <2>3, OpenMoves DEF Archives
  <2>4. CASE Quit(p) \/ Crash(p) \/ \E c \in Convs : StartNewConversation(p, c)
    BY <1>0, <2>1, <2>4 DEF Quit, Crash, StartNewConversation
  <2>. QED
    BY <1>5, <2>2, <2>3, <2>4
<1>. QED
  BY <1>1, <1>2, <1>3, <1>4, <1>5 DEF Step, OtherStep

LEMMA StepFiles ==
  ASSUME TypeInv, NEW p \in Procs, Step(p)
  PROVE  FilesOK(file') /\ FilesOK(tmp') /\ tmp'[Current] = Absent
<1>1. CASE SavesStep(p)
  BY <1>1, SavesTouch DEF Touches
<1>2. CASE OtherStep(p)
  <2>1. file' = file /\ tmp' = tmp
    BY <1>2, OtherStepFiles
  <2>. QED
    BY <2>1 DEF FilesOK, TypeInv
<1>. QED
  BY <1>1, <1>2 DEF Step

LEMMA TypeStep ==
  ASSUME TypeInv, SharedIsSpoilt, NEW p \in Procs, Step(p)
  PROVE  TypeInv' /\ SharedIsSpoilt' /\ spoilt \subseteq spoilt'
<1>1. Moves(p, proc'[p]) /\ Spoils(p)
  BY StepMoves
<1>2. SharedIsSpoilt' /\ spoilt \subseteq spoilt' /\ spoilt' \in SUBSET Paths
  BY <1>1, SharedStep
<1>3. proc' \in [Procs -> Processes] /\ \A q \in Procs : ProcOK(proc'[q], q)
  BY <1>1, MovesOK DEF Moves
<1>4. /\ file' \in [Paths -> Contained] /\ tmp' \in [Paths -> Contained]
      /\ \A x \in Paths : file'[x] \in Holds(x) \cup Missing /\ tmp'[x] \in Holds(x) \cup Missing
      /\ tmp'[Current] = Absent
  BY StepFiles DEF FilesOK
<1>5. /\ asked' \in 0..MaxRuns /\ starts' \in 0..MaxStarts /\ unkept' \in Runs
      /\ missed' \in SUBSET (Archives \cup {Index})
  BY StepCounts
<1>. QED
  BY <1>2, <1>3, <1>4, <1>5 DEF TypeInv

(* The other processes save what they saved, where they saved it.          *)
LEMMA OthersSaves ==
  ASSUME NEW p \in Procs, NEW g, Moves(p, g), NEW q \in Procs \ {p}
  PROVE  Saving(q)' = Saving(q) /\ Path(q)' = Path(q) /\ Contents(q)' = Contents(q)
<1>1. Alike(proc'[q], proc[q])
  BY DEF Moves
<1>2. /\ proc'[q].pc = proc[q].pc /\ proc'[q].todo = proc[q].todo /\ proc'[q].conv = proc[q].conv
      /\ proc'[q].turns = proc[q].turns /\ proc'[q].sess = proc[q].sess
      /\ proc'[q].run = proc[q].run /\ proc'[q].read = proc[q].read
  BY <1>1 DEF Alike, Same
<1>3. Job(q)' = Job(q)
  BY <1>2 DEF Job
<1>. QED
  BY <1>2, <1>3 DEF Saving, Path, Contents

(* No step changes a file that only another process uses.                  *)
LEMMA OthersFiles ==
  ASSUME TypeInv, SharedIsSpoilt, NEW p \in Procs, Step(p), NEW q \in Procs \ {p},
         NEW x \in InUse(proc[q]), x \notin spoilt \cup InPlace
  PROVE  /\ file'[x] = file[x] /\ tmp'[x] = tmp[x]
         /\ ~(SavesStep(p) /\ Path(p) = x)
<1>1. CASE SavesStep(p)
  <2>1. Touches(p) /\ Saving(p)
    BY <1>1, SavesTouch
  <2>2. Path(p) # x
    <3>1. Path(p) = x => x \in InUse(proc[p])
      BY <2>1, SavingJob
    <3>. QED
      BY <3>1 DEF SharedIsSpoilt
  <2>3. x \in Paths
    BY UsedPaths DEF TypeInv
  <2>. QED
    BY <2>1, <2>2, <2>3 DEF Touches
<1>2. CASE OtherStep(p) /\ ~SavesStep(p)
  BY <1>2, OtherStepFiles
<1>. QED
  BY <1>1, <1>2 DEF Step

-----------------------------------------------------------------------------
(* Whole files                                                             *)

(* A file comes from a temporary file that its saver has filled.           *)
LEMMA FilesStayWholeStep ==
  ASSUME TypeInv, SharedIsSpoilt, WholeInv, NEW p \in Procs, Step(p)
  PROVE  FilesStayWhole'
<1>1. spoilt \subseteq spoilt'
  BY TypeStep
<1>. SUFFICES ASSUME NEW x \in Paths, x \notin InPlace \cup spoilt PROVE file'[x] \notin Unreadable
  BY <1>1 DEF FilesStayWhole
<1>2. file[x] \notin Unreadable
  BY DEF WholeInv, FilesStayWhole
<1>3. CASE SavesStep(p)
  <2>1. Touches(p) /\ Saving(p)
    BY <1>3, SavesTouch
  <2>2. CASE Path(p) = x
    <3>1. Contents(p) \notin Unreadable
      BY <2>1, <2>2, SavingJob, HoldsReadable DEF Missing
    <3>. QED
      BY <1>2, <1>3, <2>2, <3>1, SavesWhole
  <2>3. CASE Path(p) # x
    BY <1>2, <2>1, <2>3 DEF Touches
  <2>. QED
    BY <2>2, <2>3
<1>4. CASE OtherStep(p)
  BY <1>2, <1>4, OtherStepFiles
<1>. QED
  BY <1>3, <1>4 DEF Step

(* p itself writes nothing after a step unless it goes on with its save.   *)
LEMMA OwnFileMoves ==
  ASSUME TypeInv, NEW p \in Procs, Step(p), proc'[p].pc \in {"write", "rename"}
  PROVE  /\ Create(p) \/ (Write(p) /\ Path(p) \notin InPlace)
         /\ Same(proc'[p], proc[p])
         /\ proc'[p].todo = proc[p].todo /\ proc'[p].read = proc[p].read
<1>1. \A t : Place(t) \notin {"write", "rename"}
  BY DEF Place
<1>2. \A t : Follows(p, t) => FALSE
  BY <1>1 DEF Follows, Off
<1>3. ~OtherStep(p)
  BY ReadIndexMoves, LoadMoves, EndRunMoves, QuitMoves, QueryMoves, CrashMoves, OpenMoves,
     StartNewMoves DEF OtherStep, Off
<1>4. ~Fail(p) /\ ~Rename(p)
  BY <1>2, RenameMoves, FailMoves
<1>5. CASE Create(p)
  BY <1>5, CreateMoves DEF Same
<1>6. CASE Write(p)
  <2>1. Path(p) \notin InPlace
    BY <1>2, <1>6, WriteMoves
  <2>. QED
    BY <1>6, <2>1, WriteMoves
<1>. QED
  BY <1>3, <1>4, <1>5, <1>6 DEF Step, SavesStep

LEMMA WholeStep ==
  ASSUME TypeInv, SharedIsSpoilt, WholeInv, NEW p \in Procs, Step(p)
  PROVE  WholeInv'
<1>1. Moves(p, proc'[p]) /\ spoilt \subseteq spoilt'
  BY StepMoves, TypeStep
<1>2. ASSUME NEW q \in Procs \ {p} PROVE OwnFile(q)'
  <2>1. Saving(q)' = Saving(q) /\ Path(q)' = Path(q) /\ Contents(q)' = Contents(q)
    BY <1>1, OthersSaves
  <2>. SUFFICES ASSUME Saving(q), Path(q) \notin spoilt \cup InPlace
                PROVE  /\ proc'[q].pc = "write" => proc'[q].fd = "tmp" /\ tmp'[Path(q)] = Empty
                       /\ proc'[q].pc = "rename" => tmp'[Path(q)] = Contents(q)
    BY <1>1, <2>1 DEF OwnFile
  <2>2. Path(q) \in InUse(proc[q])
    BY SavingJob
  <2>3. tmp'[Path(q)] = tmp[Path(q)] /\ ~(Saving(p) /\ Path(q) = Path(p))
    <3>1. Saving(p) /\ Path(q) = Path(p) => Path(q) \in InUse(proc[p])
      BY SavingJob
    <3>. QED
      BY <2>2, <3>1, OthersFiles DEF SharedIsSpoilt
  <2>4. proc'[q] = proc[q]
    BY <1>1, <2>3 DEF Moves
  <2>. QED
    BY <2>3, <2>4 DEF WholeInv, OwnFile
<1>3. OwnFile(p)'
  <2>. SUFFICES ASSUME proc'[p].pc \in {"write", "rename"}, Path(p)' \notin spoilt \cup InPlace
                PROVE  /\ proc'[p].pc = "write" => proc'[p].fd = "tmp" /\ tmp'[Path(p)'] = Empty
                       /\ proc'[p].pc = "rename" => tmp'[Path(p)'] = Contents(p)'
    BY <1>1 DEF OwnFile, Saving
  <2>1. /\ Create(p) \/ (Write(p) /\ Path(p) \notin InPlace)
        /\ Same(proc'[p], proc[p])
        /\ proc'[p].todo = proc[p].todo /\ proc'[p].read = proc[p].read
    BY OwnFileMoves
  <2>2. Path(p)' = Path(p) /\ Contents(p)' = Contents(p)
    BY <2>1 DEF Path, Contents, Job, Same
  <2>3. CASE Create(p)
    BY <2>2, <2>3, CreateMoves, SavesWhole DEF SavesStep
  <2>4. CASE Write(p) /\ Path(p) \notin InPlace
    BY <2>2, <2>4, WriteMoves, SavesWhole DEF SavesStep
  <2>. QED
    BY <2>1, <2>3, <2>4
<1>. QED
  BY <1>2, <1>3, FilesStayWholeStep DEF WholeInv

-----------------------------------------------------------------------------
(* The index                                                               *)

(* Nobody removes an archive.                                              *)
LEMMA ArchivedStays ==
  ASSUME TypeInv, NEW p \in Procs, Step(p), NEW c \in Convs, Archived(c)
  PROVE  Archived(c)'
<1>1. Archive(c) \in Paths
  BY DEF Paths
<1>2. CASE SavesStep(p)
  BY <1>1, <1>2, SavesTouch DEF Touches, Archived
<1>3. CASE OtherStep(p)
  BY <1>3, OtherStepFiles DEF Archived
<1>. QED
  BY <1>2, <1>3 DEF Step

(* What p is about to write into the index is archived.                    *)
LEMMA IndexFilesStep ==
  ASSUME TypeInv, IndexInv, NEW p \in Procs, Step(p),
         NEW f \in {file'[Index], tmp'[Index]}, f \notin Missing
  PROVE  \A c \in ToSet(f) : Archived(c)'
<1>1. Index \in Paths
  BY PathsDiffer
<1>2. \/ f \in {file[Index], tmp[Index]}
      \/ Saving(p) /\ Path(p) = Index /\ f = Contents(p)
  <2>1. CASE SavesStep(p)
    <3>1. /\ Saving(p)
          /\ Path(p) # Index => file'[Index] = file[Index] /\ tmp'[Index] = tmp[Index]
          /\ file'[Index] \in {file[Index], tmp[Index], Contents(p)} \cup Unreadable
          /\ tmp'[Index] \in {tmp[Index], Contents(p)} \cup Missing
      BY <1>1, <2>1, SavesTouch DEF Touches
    <3>. QED
      BY <3>1 DEF Missing
  <2>2. CASE OtherStep(p)
    BY <2>2, OtherStepFiles
  <2>. QED
    BY <2>1, <2>2 DEF Step
<1>3. CASE f \in {file[Index], tmp[Index]}
  <2>1. f \in Lists
    BY <1>1, <1>3, HoldsWhat DEF TypeInv
  <2>2. ToSet(f) \subseteq Convs
    BY <2>1, ListElements
  <2>3. \A c \in ToSet(f) : Archived(c)
    BY <1>3 DEF IndexInv
  <2>. QED
    BY <2>2, <2>3, ArchivedStays
<1>4. CASE Saving(p) /\ Path(p) = Index /\ f = Contents(p)
  <2>1. proc[p].todo \in Indexings /\ proc[p].conv \in Convs /\ proc[p].read \in Lists
    <3>1. proc[p].todo \in Saves => proc[p].conv \in Convs
      BY DEF TypeInv, ProcOK
    <3>2. proc[p].todo \in Indexings
      BY <1>4, <3>1, SavingJob, PathsDiffer DEF Jobs, Archives
    <3>. QED
      BY <3>2 DEF TypeInv, ProcOK, Processes
  <2>2. ToSet(f) \subseteq {proc[p].conv} \cup ToSet(proc[p].read)
    BY <1>4, <2>1, SavingJob, ListedIsList
  <2>3. ToSet(proc[p].read) \subseteq Convs
    BY <2>1, ListElements
  <2>4. Archived(proc[p].conv) /\ \A c \in ToSet(proc[p].read) : Archived(c)
    BY <2>1 DEF IndexInv
  <2>. QED
    BY <2>1, <2>2, <2>3, <2>4, ArchivedStays
<1>. QED
  BY <1>2, <1>3, <1>4

LEMMA NoElements == ToSet(<<>>) = {}
  BY DEF ToSet

(* What p has read of the index is archived.                               *)
LEMMA IndexReadStep ==
  ASSUME TypeInv, IndexInv, NEW p \in Procs, Step(p)
  PROVE  \A c \in ToSet(proc'[p].read) : Archived(c)'
<1>1. ASSUME NEW c \in ToSet(proc[p].read) PROVE Archived(c)'
  <2>1. c \in Convs
    BY ListElements DEF TypeInv, Processes
  <2>. QED
    BY <2>1, ArchivedStays DEF IndexInv
<1>2. CASE proc'[p].read = <<>>
  BY <1>2, NoElements
<1>3. CASE proc'[p].read = proc[p].read
  BY <1>1, <1>3
<1>4. CASE ReadIndex(p)
  <2>1. proc'[p].read = <<>> \/ (proc'[p].read = file[Index] /\ file[Index] \notin Missing)
    BY <1>4, ReadIndexMoves
  <2>2. file'[Index] = file[Index]
    BY <1>4 DEF ReadIndex
  <2>3. file[Index] \notin Missing => \A c \in ToSet(file'[Index]) : Archived(c)'
    BY <2>2, IndexFilesStep
  <2>. QED
    BY <2>1, <2>2, <2>3, NoElements
<1>5. CASE SavesStep(p)
  <2>1. \A t : Follows(p, t) => proc'[p].read = <<>>
    BY DEF Follows, Off
  <2>. QED
    BY <1>2, <1>3, <1>5, <2>1, CreateMoves, WriteMoves, RenameMoves, FailMoves DEF SavesStep
<1>6. CASE OtherStep(p) /\ ~ReadIndex(p)
  <2>1. proc[p].pc \in {"up", "loaded"} => proc[p].todo = <<>>
    BY DEF TypeInv, ProcOK
  <2>2. proc'[p].read \in {<<>>, proc[p].read}
    BY <1>6, LoadMoves, EndRunMoves, QuitMoves, QueryMoves, CrashMoves, OpenMoves, StartNewMoves
       DEF OtherStep, Off
  <2>. QED
    BY <1>2, <1>3, <2>2
<1>. QED
  BY <1>4, <1>5, <1>6 DEF Step

(* The index follows the archive.                                          *)
LEMMA IndexJobStep ==
  ASSUME TypeInv, IndexInv, NEW p \in Procs, Step(p), proc'[p].todo \in SavedOnes \cup Indexings
  PROVE  Archived(proc[p].conv)'
<1>1. proc[p] \in Processes /\ ProcOK(proc[p], p)
  BY DEF TypeInv
<1>2. ASSUME proc[p].todo \in SavedOnes \cup Indexings, proc'[p].conv = proc[p].conv
      PROVE  Archived(proc[p].conv)'
  <2>1. proc[p].conv \in Convs /\ Archived(proc[p].conv)
    BY <1>1, <1>2 DEF ProcOK, IndexInv
  <2>2. file'[Archive(proc[p].conv)] # Absent
    BY <2>1, ArchivedStays DEF Archived
  <2>. QED
    BY <1>2, <2>2 DEF Archived
<1>3. <<>> \notin SavedOnes \cup Indexings /\ Exit \notin SavedOnes \cup Indexings
  BY JobsDiffer DEF Jobs
<1>4. CASE SavesStep(p)
  <2>1. Saving(p) /\ proc[p].todo \in Jobs
    BY <1>4, SavesTouch, SavingJob
  <2>2. ASSUME NEW t, Follows(p, t)
        PROVE  proc'[p].todo = t /\ proc'[p].conv = proc[p].conv
    BY <1>3, <2>2 DEF Follows, Off, Same
  <2>3. CASE Create(p) \/ (Write(p) /\ Path(p) \notin InPlace)
    BY <1>2, <2>3, CreateMoves, WriteMoves DEF Same
  <2>4. CASE Write(p) /\ Path(p) \in InPlace
    <3>1. proc[p].todo \in SavedOnes \cup {Renaming}
      <4>1. proc[p].todo \in Saves => Path(p) \in Archives
        BY <1>1, <2>1, SavingJob DEF ProcOK, Archives
      <4>. QED
        BY <2>1, <2>4, <4>1, SavingJob, PathsDiffer DEF Jobs, InPlace
    <3>2. proc'[p].todo = Tail(proc[p].todo) /\ proc'[p].conv = proc[p].conv
      BY <2>2, <2>4, WriteMoves
    <3>3. proc[p].todo # Renaming
      BY <1>3, <2>1, <3>2, JobsGoOn
    <3>. QED
      BY <1>2, <3>1, <3>2, <3>3
  <2>5. CASE Rename(p)
    <3>1. proc'[p].todo = Tail(proc[p].todo) /\ proc'[p].conv = proc[p].conv
      BY <2>2, <2>5, RenameMoves
    <3>2. proc[p].todo \in Saves \cup SavedOnes
      <4>1. Ending \notin SavedOnes \cup Indexings
        BY JobsDiffer
      <4>. QED
        BY <1>3, <2>1, <3>1, <4>1, JobsGoOn DEF Jobs
    <3>3. CASE proc[p].todo \in Saves
      <4>1. Path(p) = Archive(proc[p].conv) /\ Path(p) \in Paths
        BY <2>1, <3>3, SavingJob
      <4>2. file'[Path(p)] = tmp[Path(p)] /\ tmp[Path(p)] # Absent
        BY <2>5, <4>1 DEF Rename, TypeInv
      <4>. QED
        BY <3>1, <4>1, <4>2 DEF Archived
    <3>. QED
      BY <1>2, <3>1, <3>2, <3>3
  <2>6. CASE Fail(p)
    <3>1. proc'[p].todo = AfterFailure(proc[p].todo) /\ proc'[p].conv = proc[p].conv
      BY <2>2, <2>6, FailMoves
    <3>2. proc[p].todo \in SavedOnes
      <4>1. Ending \notin SavedOnes \cup Indexings
        BY JobsDiffer
      <4>. QED
        BY <1>3, <2>1, <3>1, <4>1, JobsFail DEF Jobs, Saves
    <3>. QED
      BY <1>2, <3>1, <3>2
  <2>. QED
    BY <1>4, <2>3, <2>4, <2>5, <2>6 DEF SavesStep
<1>5. CASE OtherStep(p)
  <2>1. /\ Save \notin SavedOnes \cup Indexings /\ LastSave \notin SavedOnes \cup Indexings
        /\ {Renaming, Ending, Interrupt} \cap (SavedOnes \cup Indexings) = {}
    BY JobsDiffer DEF Saves
  <2>2. ReadIndex(p)
    BY <1>3, <1>5, <2>1, LoadMoves, EndRunMoves, QuitMoves, QueryMoves, CrashMoves, OpenMoves,
       StartNewMoves DEF OtherStep, Off
  <2>. QED
    BY <1>2, <2>2, ReadIndexMoves DEF Same
<1>. QED
  BY <1>4, <1>5 DEF Step

LEMMA IndexStep ==
  ASSUME TypeInv, IndexInv, NEW p \in Procs, Step(p)
  PROVE  IndexInv'
<1>1. Moves(p, proc'[p])
  BY StepMoves
<1>2. ASSUME NEW q \in Procs
      PROVE  /\ \A c \in ToSet(proc'[q].read) : Archived(c)'
             /\ proc'[q].todo \in SavedOnes \cup Indexings => Archived(proc[q].conv)'
  <2>1. CASE q = p
    BY <2>1, IndexReadStep, IndexJobStep
  <2>2. CASE q # p
    <3>1. /\ proc'[q].read = proc[q].read /\ proc'[q].todo = proc[q].todo
          /\ proc'[q].conv = proc[q].conv
      BY <1>1, <2>2 DEF Moves, Alike, Same
    <3>2. ToSet(proc[q].read) \subseteq Convs
      BY ListElements DEF TypeInv, Processes
    <3>3. proc[q].todo \in SavedOnes \cup Indexings => proc[q].conv \in Convs
      BY DEF TypeInv, ProcOK
    <3>4. /\ \A c \in ToSet(proc[q].read) : Archived(c)
          /\ proc[q].todo \in SavedOnes \cup Indexings => Archived(proc[q].conv)
      BY DEF IndexInv
    <3>5. \A c \in ToSet(proc[q].read) : Archived(c)'
      BY <3>2, <3>4, ArchivedStays
    <3>6. proc[q].todo \in SavedOnes \cup Indexings => file'[Archive(proc[q].conv)] # Absent
      BY <3>3, <3>4, ArchivedStays DEF Archived
    <3>. QED
      BY <3>1, <3>5, <3>6 DEF Archived
  <2>. QED
    BY <2>1, <2>2
<1>3. \A f \in {file'[Index], tmp'[Index]} : f \notin Missing => \A c \in ToSet(f) : Archived(c)'
  BY IndexFilesStep
<1>. QED
  BY <1>2, <1>3 DEF IndexInv

-----------------------------------------------------------------------------
(* What is saved is kept                                                   *)

(* What may no longer be missed after a step.                              *)
LEMMA MissedStep ==
  ASSUME TypeInv, NEW p \in Procs, Step(p), NEW x \in missed
  PROVE  \/ x \in missed'
         \/ Rename(p) /\ x = Path(p) /\ Saving(p) /\ x \in InUse(proc[p])
         \/ ReadIndex(p) /\ x = Index /\ x \in InUse(proc[p])
         \/ \E c \in Convs : Open(p, c) /\ x = Archive(c) /\ x \in InUse(proc'[p])
<1>1. CASE Rename(p)
  <2>1. missed' = missed \ {Path(p)}
    BY <1>1 DEF Rename
  <2>2. Saving(p) /\ Path(p) \in InUse(proc[p])
    BY <1>1, RenameMoves, SavingJob
  <2>. QED
    BY <1>1, <2>1, <2>2
<1>2. CASE ReadIndex(p)
  <2>1. Index \in InUse(proc[p])
    BY <1>2, ReadIndexMoves, UsedPaths, PathsDiffer DEF TypeInv
  <2>. QED
    BY <1>2, <2>1, ReadIndexMoves
<1>3. ASSUME NEW c \in Convs, Open(p, c) PROVE x \in missed' \/ (x = Archive(c) /\ x \in InUse(proc'[p]))
  <2>1. Archive(c) \in InUse(proc'[p])
    BY <1>3, OpenMoves, HomeAssumption DEF InUse
  <2>. QED
    BY <1>3, <2>1, OpenMoves
<1>4. CASE ~Rename(p) /\ ~ReadIndex(p) /\ ~\E c \in Convs : Open(p, c)
  <2>1. missed' = missed
    BY <1>4 DEF Step, SavesStep, OtherStep, Create, Write, Fail, Load, EndRun, Quit, Query, Crash,
                StartNewConversation
  <2>. QED
    BY <2>1
<1>. QED
  BY <1>1, <1>2, <1>3, <1>4

(* What another process uses alone is not read or saved.                   *)
LEMMA OthersMissed ==
  ASSUME TypeInv, SharedIsSpoilt, NEW p \in Procs, Step(p), NEW q \in Procs \ {p},
         NEW x \in InUse(proc[q]), x \notin spoilt', x \in missed
  PROVE  x \in missed'
<1>1. Moves(p, proc'[p]) /\ SharedIsSpoilt' /\ spoilt \subseteq spoilt'
  BY StepMoves, TypeStep
<1>2. InUse(proc'[q]) = InUse(proc[q])
  BY <1>1 DEF Moves, Alike, Same, InUse
<1>3. x \notin InUse(proc[p])
  BY <1>1 DEF SharedIsSpoilt
<1>4. x \notin InUse(proc'[p])
  BY <1>1, <1>2 DEF SharedIsSpoilt
<1>. QED
  BY <1>3, <1>4, MissedStep

(* Others hold what they held, and the files they use are as they were.    *)
LEMMA KeepsOthers ==
  ASSUME TypeInv, SharedIsSpoilt, NEW p \in Procs, Step(p), NEW q \in Procs \ {p}, Keeps(q)
  PROVE  Keeps(q)'
<1>1. Moves(p, proc'[p]) /\ spoilt \subseteq spoilt'
  BY StepMoves, TypeStep
<1>2. /\ proc'[q].conv = proc[q].conv /\ proc'[q].turns = proc[q].turns
      /\ proc'[q].sess = proc[q].sess /\ proc'[q].pc = proc[q].pc
      /\ proc'[q].todo = proc[q].todo /\ proc'[q].read = proc[q].read
  BY <1>1 DEF Moves, Alike, Same
<1>3. proc[q] \in Processes
  BY DEF TypeInv
<1>4. ASSUME proc[q].conv \in Convs, Archive(proc[q].conv) \notin spoilt
      PROVE  file'[Archive(proc[q].conv)] = file[Archive(proc[q].conv)]
  <2>1. /\ Archive(proc[q].conv) \in InUse(proc[q])
        /\ Archive(proc[q].conv) \notin InPlace
    BY <1>3, <1>4, UsedPaths, PathsDiffer, HomeAssumption DEF Archives, InPlace
  <2>. QED
    BY <1>4, <2>1, OthersFiles
<1>5. ASSUME proc[q].pc # "off", Session \notin spoilt
      PROVE  file'[Session] = file[Session]
  <2>1. Session \in InUse(proc[q]) /\ Session \notin InPlace
    BY <1>3, <1>5, UsedPaths, PathsDiffer DEF InPlace
  <2>. QED
    BY <1>5, <2>1, OthersFiles
<1>6. ASSUME proc[q].todo \in Indexings, Index \notin spoilt
      PROVE  file'[Index] = file[Index]
  <2>1. Index \in InUse(proc[q]) /\ Index \notin InPlace
    BY <1>3, <1>6, UsedPaths, PathsDiffer DEF InPlace
  <2>. QED
    BY <1>6, <2>1, OthersFiles
<1>7. ASSUME proc[q].conv \in Convs, Archive(proc[q].conv) \notin spoilt' \cup missed'
      PROVE  Archive(proc[q].conv) \notin spoilt \cup missed
  <2>1. Archive(proc[q].conv) \in InUse(proc[q])
    BY <1>7, HomeAssumption DEF InUse
  <2>. QED
    BY <1>1, <1>7, <2>1, OthersMissed
<1>8. ASSUME proc[q].todo \in Indexings, Index \notin spoilt' \cup missed'
      PROVE  Index \notin spoilt \cup missed
  <2>1. Index \in InUse(proc[q])
    BY <1>3, <1>8, UsedPaths, PathsDiffer
  <2>. QED
    BY <1>1, <1>8, <2>1, OthersMissed
<1>. QED
  BY <1>1, <1>2, <1>4, <1>5, <1>6, <1>7, <1>8 DEF Keeps

(* A save leaves an unspoilt file with what the process holds, or as it    *)
(* was.                                                                    *)
LEMMA SavesKeep ==
  ASSUME TypeInv, WholeInv, NEW p \in Procs, SavesStep(p),
         NEW x \in Paths \ (spoilt \cup InPlace)
  PROVE  \/ file'[x] = file[x] /\ (x \in missed => x \in missed')
         \/ Path(p) = x /\ Rename(p) /\ file'[x] = Contents(p)
<1>1. Touches(p)
  BY SavesTouch
<1>2. CASE Path(p) = x /\ Rename(p)
  BY <1>2, SavesWhole
<1>3. CASE Path(p) = x /\ ~Rename(p)
  <2>1. missed' = missed
    BY <1>3 DEF SavesStep, Create, Write, Fail
  <2>. QED
    BY <1>3, <2>1, SavesWhole
<1>4. CASE Path(p) # x
  <2>1. missed' \in {missed, missed \ {Path(p)}}
    BY DEF SavesStep, Create, Write, Rename, Fail
  <2>. QED
    BY <1>1, <1>4, <2>1 DEF Touches
<1>. QED
  BY <1>2, <1>3, <1>4

(* Which jobs save a file.                                                 *)
LEMMA PathJobs ==
  ASSUME TypeInv, NEW p \in Procs, Saving(p)
  PROVE  /\ Path(p) \in Archives => proc[p].todo \in Saves
         /\ Path(p) = Session => proc[p].todo = Ending
         /\ Path(p) = Index => proc[p].todo \in Indexings
<1>1. proc[p].todo \in Saves => Path(p) \in Archives
  BY SavingJob DEF TypeInv, ProcOK, Archives
<1>. QED
  BY <1>1, SavingJob, PathsDiffer DEF Jobs

(* A conversation is opened with its archive, or is fresh and has none.    *)
LEMMA KeepsArchive ==
  ASSUME TypeInv, SharedIsSpoilt, WholeInv, NEW p \in Procs, Keeps(p), Step(p),
         proc'[p].conv \in Convs, Archive(proc'[p].conv) \notin spoilt \cup missed'
  PROVE  Entries(file'[Archive(proc'[p].conv)]) \subseteq proc'[p].turns
<1>. DEFINE c == proc'[p].conv
<1>1. Archive(c) \in Paths \ (spoilt \cup InPlace) /\ Archive(c) \in Archives
  BY PathsDiffer DEF Archives, InPlace
<1>. HIDE DEF c
<1>2. file[Archive(c)] \notin Unreadable
  BY <1>1 DEF WholeInv, FilesStayWhole
<1>3. NoConv \notin Convs
  BY HomeAssumption
<1>4. CASE SavesStep(p)
  <2>1. proc'[p].conv = proc[p].conv /\ proc'[p].turns = proc[p].turns
    <3>1. ASSUME NEW t, Follows(p, t) PROVE proc'[p].conv = proc[p].conv /\ proc'[p].turns = proc[p].turns
      BY <1>3, <3>1 DEF Follows, Off, Same
    <3>. QED
      BY <1>4, <3>1, CreateMoves, WriteMoves, RenameMoves, FailMoves DEF SavesStep, Same
  <2>2. CASE file'[Archive(c)] = file[Archive(c)] /\ Archive(c) \notin missed
    BY <2>1, <2>2 DEF Keeps, c
  <2>3. CASE Path(p) = Archive(c) /\ file'[Archive(c)] = Contents(p)
    <3>1. Contents(p) = proc[p].turns /\ Contents(p) # Absent
      <4>1. Saving(p) /\ proc[p].todo \in Saves
        BY <1>1, <1>4, <2>3, SavesTouch, PathJobs
      <4>. QED
        BY <1>1, <2>3, <4>1, SavingJob, HoldsReadable DEF Missing
    <3>. QED
      BY <2>1, <2>3, <3>1 DEF Entries, c
  <2>4. Archive(c) \notin missed'
    BY DEF c
  <2>. QED
    BY <1>1, <1>4, <2>2, <2>3, <2>4, SavesKeep
<1>5. CASE OtherStep(p)
  <2>1. file'[Archive(c)] = file[Archive(c)]
    BY <1>5, OtherStepFiles
  <2>2. CASE /\ proc'[p].conv = proc[p].conv /\ proc[p].turns \subseteq proc'[p].turns
             /\ Archive(c) \notin missed
    BY <2>1, <2>2 DEF Keeps, c
  <2>3. CASE \E d \in Convs : Open(p, d)
    BY <1>2, <2>1, <2>3, OpenMoves DEF c
  <2>4. CASE \E d \in Convs : StartNewConversation(p, d)
    <3>1. IsFresh(c)
      BY <2>4, StartNewMoves DEF c
    <3>. QED
      BY <2>1, <3>1 DEF IsFresh, Entries, c
  <2>5. CASE Load(p) \/ Crash(p)
    BY <1>3, <2>5, LoadMoves, CrashMoves DEF Off
  <2>6. CASE ReadIndex(p) \/ EndRun(p) \/ Quit(p) \/ Query(p)
    <3>1. Archive(c) \notin missed
      <4>1. missed' = missed \/ (ReadIndex(p) /\ missed \ {Index} \subseteq missed')
        BY <2>6, ReadIndexMoves DEF EndRun, Quit, Query
      <4>. QED
        BY <1>1, <4>1, PathsDiffer DEF c
    <3>. QED
      BY <2>2, <2>6, <3>1, ReadIndexMoves, EndRunMoves, QuitMoves, QueryMoves DEF Same
  <2>. QED
    BY <1>5, <2>3, <2>4, <2>5, <2>6 DEF OtherStep
<1>. QED
  BY <1>4, <1>5 DEF Step, c

(* The session is loaded when the process starts, and added to.            *)
LEMMA KeepsSession ==
  ASSUME TypeInv, SharedIsSpoilt, WholeInv, NEW p \in Procs, Keeps(p), Step(p),
         proc'[p].pc # "off", Session \notin spoilt
  PROVE  Entries(file'[Session]) \subseteq proc'[p].sess
<1>1. Session \in Paths \ (spoilt \cup InPlace)
  BY PathsDiffer DEF InPlace
<1>2. CASE SavesStep(p)
  <2>1. proc'[p].sess = proc[p].sess
    <3>1. ASSUME NEW t, Follows(p, t) PROVE proc'[p].sess = proc[p].sess
      BY <3>1 DEF Follows, Off, Same
    <3>. QED
      BY <1>2, <3>1, CreateMoves, WriteMoves, RenameMoves, FailMoves DEF SavesStep, Same
  <2>2. Saving(p) /\ proc[p].pc # "off"
    BY <1>2, SavesTouch DEF Saving, Stages
  <2>3. CASE file'[Session] = file[Session]
    BY <2>1, <2>2, <2>3 DEF Keeps
  <2>4. CASE Path(p) = Session /\ file'[Session] = Contents(p)
    <3>1. Contents(p) = proc[p].sess /\ Contents(p) # Absent
      <4>1. proc[p].todo = Ending
        BY <2>2, <2>4, PathJobs
      <4>. QED
        BY <1>1, <2>2, <2>4, <4>1, SavingJob, HoldsReadable DEF Missing
    <3>. QED
      BY <2>1, <2>4, <3>1 DEF Entries
  <2>. QED
    BY <1>1, <1>2, <2>3, <2>4, SavesKeep
<1>3. CASE OtherStep(p)
  <2>1. file'[Session] = file[Session]
    BY <1>3, OtherStepFiles
  <2>2. CASE proc[p].pc # "off" /\ proc[p].sess \subseteq proc'[p].sess
    BY <2>1, <2>2 DEF Keeps
  <2>3. CASE Load(p)
    BY <2>1, <2>3, LoadMoves
  <2>4. ~Crash(p)
    BY CrashMoves DEF Off
  <2>5. CASE \E c \in Convs : Open(p, c) \/ StartNewConversation(p, c)
    BY <2>2, <2>5, OpenMoves, StartNewMoves
  <2>6. CASE ReadIndex(p) \/ EndRun(p) \/ Quit(p) \/ Query(p)
    BY <2>2, <2>6, ReadIndexMoves, EndRunMoves, QuitMoves, QueryMoves DEF Same
  <2>. QED
    BY <1>3, <2>3, <2>4, <2>5, <2>6 DEF OtherStep
<1>. QED
  BY <1>2, <1>3 DEF Step

(* UpdateIndex writes an index it has just read.                           *)
LEMMA KeepsIndex ==
  ASSUME TypeInv, SharedIsSpoilt, WholeInv, NEW p \in Procs, Keeps(p), Step(p),
         proc'[p].todo \in Indexings, proc'[p].pc \in Stages, Index \notin spoilt \cup missed'
  PROVE  proc'[p].read = IF file'[Index] \in Missing THEN <<>> ELSE file'[Index]
<1>1. Index \in Paths \ (spoilt \cup InPlace)
  BY PathsDiffer DEF InPlace
<1>2. /\ <<>> \notin Indexings /\ Exit \notin Indexings
      /\ {Save, LastSave, Renaming, Ending, Interrupt} \cap Indexings = {}
  BY JobsDiffer DEF Jobs, Saves
<1>3. CASE SavesStep(p)
  <2>1. \A t \in Indexings : Place(t) \notin Stages
    BY <1>2 DEF Place, Stages
  <2>2. ASSUME NEW t, Follows(p, t) PROVE FALSE
    BY <1>2, <2>1, <2>2 DEF Follows, Off
  <2>3. CASE Create(p) \/ (Write(p) /\ Path(p) \notin InPlace)
    <3>1. proc'[p].todo = proc[p].todo /\ proc'[p].read = proc[p].read /\ Saving(p)
      BY <2>3, CreateMoves, WriteMoves
    <3>2. ~Rename(p)
      BY <2>2, RenameMoves
    <3>3. file'[Index] = file[Index] /\ Index \notin missed
      BY <1>1, <1>3, <3>2, SavesKeep
    <3>. QED
      BY <3>1, <3>3 DEF Keeps, Saving
  <2>. QED
    BY <1>3, <2>2, <2>3, WriteMoves, RenameMoves, FailMoves DEF SavesStep
<1>4. CASE OtherStep(p)
  <2>1. ReadIndex(p)
    BY <1>2, <1>4, LoadMoves, EndRunMoves, QuitMoves, QueryMoves, CrashMoves, OpenMoves,
       StartNewMoves DEF OtherStep, Off
  <2>2. file' = file
    BY <1>4, OtherStepFiles
  <2>. QED
    BY <2>1, <2>2, ReadIndexMoves
<1>. QED
  BY <1>3, <1>4 DEF Step

LEMMA KeepStep ==
  ASSUME TypeInv, SharedIsSpoilt, WholeInv, KeepInv, NEW p \in Procs, Step(p)
  PROVE  KeepInv'
<1>1. spoilt \subseteq spoilt'
  BY TypeStep
<1>2. Keeps(p)'
  <2>1. Keeps(p)
    BY DEF KeepInv
  <2>. QED
    BY <1>1, <2>1, KeepsArchive, KeepsSession, KeepsIndex DEF Keeps
<1>3. \A q \in Procs \ {p} : Keeps(q)'
  BY KeepsOthers DEF KeepInv
<1>. QED
  BY <1>2, <1>3 DEF KeepInv

(* Files with runs only grow.                                              *)
LEMMA RunsGrow ==
  ASSUME TypeInv, SharedIsSpoilt, WholeInv, KeepInv, NEW p \in Procs, Step(p),
         NEW x \in Archives \cup {Session}, x \notin spoilt \cup missed, Readable(x)
  PROVE  file'[x] \notin Missing /\ file[x] \subseteq file'[x]
<1>1. x \in Paths \ (spoilt \cup InPlace)
  BY PathsDiffer DEF InPlace
<1>2. file[x] \notin Missing /\ Entries(file[x]) = file[x]
  BY DEF Readable, Missing, Entries
<1>3. CASE file'[x] = file[x]
  BY <1>2, <1>3
<1>4. CASE SavesStep(p) /\ Path(p) = x /\ file'[x] = Contents(p)
  <2>1. /\ Saving(p) /\ Keeps(p) /\ proc[p] \in Processes /\ ProcOK(proc[p], p)
        /\ proc[p].pc # "off"
    BY <1>4, SavesTouch DEF KeepInv, TypeInv, Saving, Stages
  <2>2. Contents(p) \notin Missing
    BY <1>1, <1>4, <2>1, SavingJob, HoldsReadable
  <2>3. CASE x \in Archives
    <3>1. proc[p].todo \in Saves
      BY <1>4, <2>1, <2>3, PathJobs
    <3>2. x = Archive(proc[p].conv) /\ Contents(p) = proc[p].turns /\ proc[p].conv \in Convs
      BY <1>4, <2>1, <3>1, SavingJob DEF ProcOK
    <3>. QED
      BY <1>2, <1>4, <2>1, <2>2, <3>2 DEF Keeps
  <2>4. CASE x = Session
    <3>1. Contents(p) = proc[p].sess
      BY <1>4, <2>1, <2>4, PathJobs, SavingJob
    <3>. QED
      BY <1>2, <1>4, <2>1, <2>2, <2>4, <3>1 DEF Keeps
  <2>. QED
    BY <2>3, <2>4
<1>5. CASE SavesStep(p)
  BY <1>1, <1>3, <1>4, <1>5, SavesKeep
<1>6. CASE OtherStep(p)
  BY <1>3, <1>6, OtherStepFiles
<1>. QED
  BY <1>5, <1>6 DEF Step

-----------------------------------------------------------------------------
(* The session and the archives                                            *)

(* As archives only grow, a turn that is in one stays there, unless it is  *)
(* written over by a process that could not read it.                       *)
LEMMA BackedStays ==
  ASSUME TypeInv, SharedIsSpoilt, WholeInv, KeepInv, NEW p \in Procs, Step(p),
         Archives \cap spoilt = {}, NEW r, Backed(r)
  PROVE  Backed(r)'
<1>1. CASE r \in unkept
  BY <1>1, StepCounts DEF Backed
<1>2. CASE \E x \in Archives : Readable(x) /\ r \in file[x]
  <2>1. PICK x \in Archives : Readable(x) /\ r \in file[x]
    BY <1>2
  <2>2. CASE file'[x] \notin Missing /\ r \in file'[x]
    BY <2>2 DEF Backed, Readable, Missing
  <2>3. CASE x \notin missed
    BY <2>1, <2>2, <2>3, RunsGrow
  <2>4. CASE file'[x] = file[x]
    BY <2>1, <2>2, <2>4 DEF Readable, Missing
  <2>5. CASE x \in missed /\ Path(p) = x /\ Rename(p)
    <3>1. Saving(p) /\ proc[p].todo \in Saves
      BY <2>5, RenameMoves, PathJobs
    <3>2. Job(p) = "archive"
      BY <3>1, SavingJob
    <3>3. unkept' = unkept \cup file[x]
      BY <2>1, <2>5, <3>2 DEF Rename
    <3>. QED
      BY <2>1, <3>3 DEF Backed
  <2>6. x \in Paths \ (spoilt \cup InPlace)
    BY PathsDiffer DEF InPlace
  <2>. QED
    BY <2>3, <2>4, <2>5, <2>6, SavesKeep, OtherStepFiles DEF Step
<1>. QED
  BY <1>1, <1>2 DEF Backed

(* The session is saved after the conversation.                            *)
LEMMA SessionFilesBacked ==
  ASSUME TypeInv, SharedIsSpoilt, WholeInv, KeepInv, BackInv, NEW p \in Procs, Step(p),
         Archives \cap spoilt = {}, NEW f \in {file'[Session], tmp'[Session]}, f \notin Missing
  PROVE  \A r \in f : Backed(r)'
<1>1. Session \in Paths
  BY PathsDiffer
<1>2. \/ f \in {file[Session], tmp[Session]}
      \/ Saving(p) /\ Path(p) = Session /\ f = Contents(p)
  <2>1. CASE SavesStep(p)
    <3>1. /\ Saving(p)
          /\ Path(p) # Session => file'[Session] = file[Session] /\ tmp'[Session] = tmp[Session]
          /\ file'[Session] \in {file[Session], tmp[Session], Contents(p)} \cup Unreadable
          /\ tmp'[Session] \in {tmp[Session], Contents(p)} \cup Missing
      BY <1>1, <2>1, SavesTouch DEF Touches
    <3>. QED
      BY <3>1 DEF Missing
  <2>2. CASE OtherStep(p)
    BY <2>2, OtherStepFiles
  <2>. QED
    BY <2>1, <2>2 DEF Step
<1>3. CASE f \in {file[Session], tmp[Session]}
  <2>1. \A r \in f : Backed(r)
    BY <1>3 DEF BackInv
  <2>. QED
    BY <2>1, BackedStays
<1>4. CASE Saving(p) /\ Path(p) = Session /\ f = Contents(p)
  <2>1. proc[p].todo = Ending /\ f = proc[p].sess /\ Ending \notin Saves
    BY <1>4, PathJobs, SavingJob, JobsDiffer
  <2>2. \A r \in f : Backed(r)
    BY <2>1 DEF BackInv
  <2>. QED
    BY <2>2, BackedStays
<1>. QED
  BY <1>2, <1>3, <1>4

(* A save of an archive that ends has saved the turns, or left them to the *)
(* unkept ones, or ended the process.                                      *)
LEMMA ArchiveSaved ==
  ASSUME TypeInv, WholeInv, Archives \cap spoilt = {}, NEW p \in Procs, SavesStep(p),
         proc[p].todo \in Saves, proc'[p].todo # proc[p].todo, proc'[p] # Off,
         NEW r \in proc[p].turns
  PROVE  Backed(r)'
<1>1. /\ Saving(p) /\ Path(p) = Archive(proc[p].conv) /\ Contents(p) = proc[p].turns
      /\ Job(p) = "archive" /\ proc[p].conv \in Convs
      /\ Path(p) \in Archives /\ Path(p) \notin spoilt \cup InPlace /\ Path(p) \in Paths
  <2>1. /\ Saving(p) /\ Path(p) = Archive(proc[p].conv) /\ Contents(p) = proc[p].turns
        /\ Job(p) = "archive" /\ proc[p].conv \in Convs
    BY SavesTouch, SavingJob DEF TypeInv, ProcOK
  <2>2. Path(p) \in Archives
    BY <2>1 DEF Archives
  <2>. QED
    BY <2>1, <2>2, PathsDiffer DEF InPlace
<1>2. ~Create(p) /\ ~Write(p)
  BY <1>1, CreateMoves, WriteMoves
<1>3. CASE Rename(p)
  <2>1. file'[Path(p)] = proc[p].turns
    BY <1>1, <1>3, SavesWhole
  <2>2. proc[p].turns \notin Missing
    BY <1>1, SavingJob, HoldsReadable
  <2>. QED
    BY <1>1, <2>1, <2>2 DEF Backed, Readable, Missing
<1>4. CASE Fail(p)
  <2>1. proc[p].todo # LastSave
    <3>1. proc[p].todo = LastSave => Follows(p, Exit)
      BY <1>1, <1>4, FailMoves, JobsFail, SavingJob
    <3>2. Follows(p, Exit) => proc'[p] = Off
      BY JobsDiffer DEF Follows, Todos
    <3>. QED
      BY <3>1, <3>2
  <2>2. proc[p].todo = Save
    BY <2>1 DEF Saves
  <2>3. Last(proc[p].todo) # "exit"
    BY <1>1, <2>2, JobsFail, SavingJob
  <2>4. unkept' = unkept \cup proc[p].turns
    BY <1>1, <1>4, <2>3 DEF Fail
  <2>. QED
    BY <2>4 DEF Backed
<1>. QED
  BY <1>2, <1>3, <1>4 DEF SavesStep

(* Values are added with their turns, at the end of a run.                 *)
LEMMA SessionValuesBacked ==
  ASSUME TypeInv, SharedIsSpoilt, WholeInv, KeepInv, BackInv, NEW p \in Procs, Step(p),
         Archives \cap spoilt = {}, NEW r \in proc'[p].sess
  PROVE  Backed(r)' \/ (proc'[p].todo \in Saves /\ r \in proc'[p].turns)
<1>1. proc[p] \in Processes /\ ProcOK(proc[p], p)
  BY DEF TypeInv
<1>2. <<>> \notin Saves
  BY JobsDiffer DEF Jobs
<1>3. ASSUME r \in proc[p].sess
      PROVE  Backed(r)' \/ (proc[p].todo \in Saves /\ r \in proc[p].turns)
  <2>1. Backed(r) \/ (proc[p].todo \in Saves /\ r \in proc[p].turns)
    BY <1>3 DEF BackInv
  <2>. QED
    BY <2>1, BackedStays
<1>4. CASE proc'[p].todo = proc[p].todo /\ Same(proc'[p], proc[p])
  BY <1>3, <1>4 DEF Same
<1>5. CASE SavesStep(p)
  <2>1. \/ Same(proc'[p], proc[p])
        \/ proc'[p] = Off
    <3>1. ASSUME NEW t, Follows(p, t) PROVE Same(proc'[p], proc[p]) \/ proc'[p] = Off
      BY <3>1 DEF Follows
    <3>. QED
      BY <1>5, <3>1, CreateMoves, WriteMoves, RenameMoves, FailMoves DEF SavesStep
  <2>2. CASE proc'[p] = Off
    BY <2>2 DEF Off
  <2>3. CASE Same(proc'[p], proc[p]) /\ proc'[p].todo # proc[p].todo /\ proc'[p] # Off
    <3>1. r \in proc[p].sess
      BY <2>3 DEF Same
    <3>2. CASE Backed(r)'
      BY <3>2
    <3>3. CASE proc[p].todo \in Saves /\ r \in proc[p].turns
      BY <1>5, <2>3, <3>3, ArchiveSaved
    <3>. QED
      BY <1>3, <3>1, <3>2, <3>3
  <2>. QED
    BY <1>4, <2>1, <2>2, <2>3
<1>6. CASE proc[p].todo = <<>> /\ proc'[p].sess = proc[p].sess
  BY <1>2, <1>3, <1>6
<1>7. CASE OtherStep(p)
  <2>0. proc[p].pc \in {"up", "loaded"} => proc[p].todo = <<>>
    BY <1>1 DEF ProcOK
  <2>1. CASE ReadIndex(p)
    BY <1>4, <2>1, ReadIndexMoves
  <2>2. CASE Load(p)
    <3>1. /\ r \in Entries(file[Session]) /\ file'[Session] = file[Session]
          /\ file[Session] \notin Unreadable
      BY <2>2, LoadMoves DEF Load
    <3>2. file[Session] \notin Missing /\ r \in file'[Session]
      BY <3>1 DEF Entries, Missing
    <3>. QED
      BY <3>1, <3>2, SessionFilesBacked
  <2>3. CASE EndRun(p)
    <3>1. /\ proc'[p].sess = proc[p].sess \cup {asked + 1} /\ proc'[p].todo = Save
          /\ proc'[p].turns = proc[p].turns \cup {asked + 1} /\ proc[p].todo = <<>>
      BY <2>0, <2>3, EndRunMoves
    <3>. QED
      BY <1>2, <1>3, <3>1 DEF Saves
  <2>4. CASE Query(p)
    <3>1. /\ proc[p].todo = <<>>
          /\ \E k \in 1..MaxRuns : proc'[p].sess = proc[p].sess \cup {k} /\ unkept' = unkept \cup {k}
      BY <2>0, <2>4, QueryMoves
    <3>2. r \in proc[p].sess \/ r \in unkept'
      BY <3>1
    <3>. QED
      BY <1>2, <1>3, <3>1, <3>2 DEF Backed
  <2>5. CASE Crash(p)
    BY <2>5, CrashMoves DEF Off
  <2>6. CASE Quit(p) \/ \E c \in Convs : Open(p, c) \/ StartNewConversation(p, c)
    BY <1>6, <2>0, <2>6, QuitMoves, OpenMoves, StartNewMoves DEF Same
  <2>. QED
    BY <1>7, <2>1, <2>2, <2>3, <2>4, <2>5, <2>6 DEF OtherStep
<1>. QED
  BY <1>5, <1>7 DEF Step

LEMMA BackStep ==
  ASSUME TypeInv, SharedIsSpoilt, WholeInv, KeepInv, BackInv, NEW p \in Procs, Step(p)
  PROVE  BackInv'
<1>1. Moves(p, proc'[p]) /\ spoilt \subseteq spoilt'
  BY StepMoves, TypeStep
<1>. SUFFICES ASSUME Archives \cap spoilt' = {}
              PROVE  /\ \A f \in {file'[Session], tmp'[Session]} :
                          f \notin Missing => \A r \in f : Backed(r)'
                     /\ \A q \in Procs : \A r \in proc'[q].sess :
                          Backed(r)' \/ (proc'[q].todo \in Saves /\ r \in proc'[q].turns)
  BY DEF BackInv
<1>2. Archives \cap spoilt = {}
  BY <1>1
<1>3. ASSUME NEW q \in Procs \ {p}, NEW r \in proc'[q].sess
      PROVE  Backed(r)' \/ (proc'[q].todo \in Saves /\ r \in proc'[q].turns)
  <2>1. /\ proc'[q].sess = proc[q].sess /\ proc'[q].todo = proc[q].todo
        /\ proc'[q].turns = proc[q].turns
    BY <1>1 DEF Moves, Alike, Same
  <2>2. Backed(r) \/ (proc[q].todo \in Saves /\ r \in proc[q].turns)
    BY <1>2, <1>3, <2>1 DEF BackInv
  <2>. QED
    BY <1>2, <2>1, <2>2, BackedStays
<1>4. \A r \in proc'[p].sess : Backed(r)' \/ (proc'[p].todo \in Saves /\ r \in proc'[p].turns)
  BY <1>2, SessionValuesBacked
<1>. QED
  BY <1>2, <1>3, <1>4, SessionFilesBacked

-----------------------------------------------------------------------------
(* The invariant holds                                                     *)

(* The invariant holds at the start and is kept by every step.             *)
LEMMA IInvInit == Init => IInv
<1>. SUFFICES ASSUME Init PROVE IInv
  OBVIOUS
<1>1. /\ \A x \in Paths : file[x] = Absent /\ tmp[x] = Absent
      /\ file \in [Paths -> Contained] /\ tmp \in [Paths -> Contained]
      /\ Absent \in Missing /\ Absent \notin Unreadable
  BY HomeAssumption DEF Init, Contained, Missing, Unreadable
<1>2. \A p \in Procs : proc[p] = Off
  BY DEF Init
<1>3. TypeInv
  <2>1. proc \in [Procs -> Processes] /\ \A p \in Procs : ProcOK(proc[p], p)
    BY <1>2, OffRecord DEF Init
  <2>2. asked \in 0..MaxRuns /\ starts \in 0..MaxStarts /\ spoilt \in SUBSET Paths
        /\ missed \in SUBSET (Archives \cup {Index}) /\ unkept \in Runs
    BY HomeAssumption DEF Init, Runs
  <2>3. tmp[Current] = Absent
    BY <1>1, PathsDiffer
  <2>. QED
    BY <1>1, <2>1, <2>2, <2>3 DEF TypeInv
<1>4. SharedIsSpoilt
  <2>1. InUse(Off) = {}
    BY DEF InUse, Off
  <2>. QED
    BY <1>2, <2>1 DEF SharedIsSpoilt
<1>5. WholeInv
  BY <1>1, <1>2 DEF WholeInv, FilesStayWhole, OwnFile, Saving, Stages, Off
<1>6. file[Index] = Absent /\ tmp[Index] = Absent /\ file[Session] = Absent /\ tmp[Session] = Absent
  BY <1>1, PathsDiffer
<1>7. IndexInv
  <2>1. \A p \in Procs : proc[p].read = <<>> /\ proc[p].todo \notin SavedOnes \cup Indexings
    BY <1>2, JobsDiffer DEF Off, Jobs
  <2>. QED
    BY <1>1, <1>6, <2>1, NoElements DEF IndexInv
<1>8. KeepInv
  BY <1>2, JobsDiffer, HomeAssumption DEF KeepInv, Keeps, Off, Jobs
<1>9. BackInv
  <2>1. \A p \in Procs : proc[p].sess = {}
    BY <1>2 DEF Off
  <2>. QED
    BY <1>1, <1>6, <2>1 DEF BackInv
<1>. QED
  BY <1>3, <1>4, <1>5, <1>7, <1>8, <1>9 DEF IInv

LEMMA NextSteps == Next => \E p \in Procs : Step(p)
  BY DEF Next, Step, SavesStep, OtherStep

LEMMA IInvStep == IInv /\ [Next]_vars => IInv'
<1>. SUFFICES ASSUME IInv, [Next]_vars PROVE IInv'
  OBVIOUS
<1>1. CASE Next
  <2>1. PICK p \in Procs : Step(p)
    BY <1>1, NextSteps
  <2>2. TypeInv' /\ SharedIsSpoilt'
    BY <2>1, TypeStep DEF IInv
  <2>3. WholeInv'
    BY <2>1, WholeStep DEF IInv
  <2>4. IndexInv'
    BY <2>1, IndexStep DEF IInv
  <2>5. KeepInv'
    BY <2>1, KeepStep DEF IInv
  <2>6. BackInv'
    BY <2>1, BackStep DEF IInv
  <2>. QED
    BY <2>2, <2>3, <2>4, <2>5, <2>6 DEF IInv
<1>2. CASE UNCHANGED vars
  <2>1. file' = file /\ tmp' = tmp /\ proc' = proc /\ asked' = asked /\ starts' = starts
        /\ spoilt' = spoilt /\ missed' = missed /\ unkept' = unkept
    BY <1>2 DEF vars
  <2>2. TypeInv' /\ SharedIsSpoilt'
    BY <2>1 DEF IInv, TypeInv, SharedIsSpoilt
  <2>3. WholeInv'
    BY <2>1 DEF IInv, WholeInv, FilesStayWhole, OwnFile, Saving, Path, Contents, Job
  <2>4. IndexInv' /\ KeepInv'
    BY <2>1 DEF IInv, IndexInv, Archived, KeepInv, Keeps
  <2>5. BackInv'
    BY <2>1 DEF IInv, BackInv, Backed, Readable
  <2>. QED
    BY <2>2, <2>3, <2>4, <2>5 DEF IInv
<1>. QED
  BY <1>1, <1>2

LEMMA Invariance == Spec => []IInv
<1>1. Init => IInv
  BY IInvInit
<1>2. IInv /\ [Next]_vars => IInv'
  BY IInvStep
<1>. QED
  BY <1>1, <1>2, PTL DEF Spec

-----------------------------------------------------------------------------
(* The properties                                                          *)

LEMMA TypeImplied == IInv => TypeOK
<1>. SUFFICES ASSUME IInv PROVE TypeOK
  OBVIOUS
<1>1. TypeInv
  BY DEF IInv
<1>2. ASSUME NEW f \in {file, tmp}
      PROVE  /\ \A c \in Convs : f[Archive(c)] \in Runs \cup Missing
             /\ f[Session] \in Runs \cup Missing
             /\ f[Checkpoint] \in 1..MaxRuns \cup Missing
             /\ f[Current] \in Convs \cup Missing
             /\ f[Index] \in Missing \/ f[Index] \in Lists \ {<<>>}
  <2>1. \A x \in Paths : f[x] \in Holds(x) \cup Missing
    BY <1>1 DEF TypeInv
  <2>2. \A c \in Convs : Archive(c) \in Archives
    BY DEF Archives
  <2>. QED
    BY <2>1, <2>2, HoldsWhat, PathsDiffer
<1>3. \A s \in Lists \ {<<>>} : IsInjective(s) /\ Len(s) \in 1..MaxIndex
  BY HomeAssumption DEF Lists
<1>4. \A p \in Procs :
        /\ proc[p].pc \in {"off", "loaded", "up", "read"} \cup Stages
        /\ proc[p].turns \in Runs /\ proc[p].sess \in Runs
        /\ proc[p].conv # NoConv => p \in Tuis
  <2>. SUFFICES ASSUME NEW p \in Procs
                PROVE  /\ proc[p].pc \in {"off", "loaded", "up", "read"} \cup Stages
                       /\ proc[p].turns \in Runs /\ proc[p].sess \in Runs
                       /\ proc[p].conv # NoConv => p \in Tuis
    OBVIOUS
  <2>1. proc[p] \in Processes /\ ProcOK(proc[p], p)
    BY <1>1 DEF TypeInv
  <2>. QED
    BY <2>1 DEF Processes, ProcOK
<1>5. Readable(Index) => Len(file[Index]) \in 1..MaxIndex
  BY <1>2, <1>3 DEF Readable, Missing
<1>6. \A x \in InPlace : tmp[x] = Absent
  BY <1>1 DEF TypeInv, InPlace
<1>7. \A f \in {file, tmp} :
       /\ \A c \in Convs : f[Archive(c)] \in Runs \cup Unreadable \cup {Absent}
       /\ f[Session] \in Runs \cup Unreadable \cup {Absent}
       /\ f[Checkpoint] \in 1..MaxRuns \cup Unreadable \cup {Absent}
       /\ f[Current] \in Convs \cup Unreadable \cup {Absent}
       /\ f[Index] \in Unreadable \cup {Absent} \/ IsInjective(f[Index])
  BY <1>2, <1>3 DEF Missing
<1>8. /\ DOMAIN file = Paths /\ DOMAIN tmp = Paths
      /\ asked \in 0..MaxRuns /\ starts \in 0..MaxStarts
      /\ spoilt \subseteq Paths /\ missed \subseteq Paths /\ unkept \in Runs
  BY <1>1, PathsDiffer DEF TypeInv
<1>. QED
  BY <1>4, <1>5, <1>6, <1>7, <1>8 DEF TypeOK

(* Every file and temporary file under ~/.brook holds what belongs there   *)
(* or cannot be read, no conversation is listed twice and the index stays  *)
(* within maxIndexEntries (index.go).                                      *)
THEOREM TypeCorrect == Spec => []TypeOK
<1>1. IInv => TypeOK
  BY TypeImplied
<1>. QED
  BY <1>1, Invariance, PTL

(* Whatever crashes or fails while it saves, a file that was never saved   *)
(* by two processes at once is whole: temporary file and rename (file.go). *)
THEOREM FilesWhole == Spec => []FilesStayWhole
<1>1. IInv => FilesStayWhole
  BY DEF IInv, WholeInv
<1>. QED
  BY <1>1, Invariance, PTL

(* Every conversation in the index has an archive, however the saves of    *)
(* any number of processes interleave: saveConversation writes the archive *)
(* first, and an index that is read, kept or written lists no other.       *)
THEOREM IndexIsBacked == Spec => []IndexPointsToArchives
<1>1. IInv => IndexPointsToArchives
  BY DEF IInv, IndexInv, IndexPointsToArchives, Archived, Readable, Missing
<1>. QED
  BY <1>1, Invariance, PTL

(* A session value that a later process can load belongs to a turn in an   *)
(* archive: the conversation is saved at the end of the run, the session   *)
(* at the exit of the process.  Excepted are the runs of brook, those      *)
(* whose save failed, and the turns of an archive that a process which     *)
(* could not read it has written anew (unkept).                            *)
THEOREM SessionIsBacked == Spec => []SessionIsBackedByArchives
<1>1. IInv => SessionIsBackedByArchives
  BY DEF IInv, BackInv, Backed, SessionIsBackedByArchives, Archives, Readable, Missing
<1>. QED
  BY <1>1, Invariance, PTL

(* Nothing that a file of one process holds is lost by a save of it, if    *)
(* the process has read it.                                                *)
LostNothing ==
  /\ \A x \in {Archive(c) : c \in Convs} \cup {Session} :
       Readable(x) /\ x \notin spoilt' \cup missed => file[x] \subseteq file'[x]
  /\ Readable(Index) /\ Index \notin spoilt' \cup missed =>
       \/ ToSet(file[Index]) \subseteq ToSet(file'[Index])
       \/ Len(file'[Index]) = MaxIndex

(* Archives and session grow, the index is Listed with what it held.       *)
LEMMA LostNothingStep == IInv /\ [Next]_vars => [LostNothing]_vars
<1>. SUFFICES ASSUME IInv, Next PROVE LostNothing
  OBVIOUS
<1>1. PICK p \in Procs : Step(p)
  BY NextSteps
<1>2. spoilt \subseteq spoilt'
  BY <1>1, TypeStep DEF IInv
<1>3. ASSUME NEW x \in Archives \cup {Session}, Readable(x), x \notin spoilt' \cup missed
      PROVE  file[x] \subseteq file'[x]
  BY <1>1, <1>2, <1>3, RunsGrow DEF IInv
<1>4. ASSUME Readable(Index), Index \notin spoilt' \cup missed
      PROVE  ToSet(file[Index]) \subseteq ToSet(file'[Index]) \/ Len(file'[Index]) = MaxIndex
  <2>1. Index \in Paths \ (spoilt \cup InPlace) /\ Index \notin spoilt
    BY <1>2, <1>4, PathsDiffer DEF InPlace
  <2>2. CASE file'[Index] = file[Index]
    BY <2>2
  <2>3. CASE Path(p) = Index /\ Rename(p) /\ file'[Index] = Contents(p)
    <3>1. /\ Saving(p) /\ Keeps(p) /\ proc[p] \in Processes /\ ProcOK(proc[p], p)
      BY <2>3, RenameMoves DEF IInv, KeepInv, TypeInv
    <3>2. proc[p].todo \in Indexings
      BY <2>3, <3>1, PathJobs DEF IInv
    <3>3. proc[p].conv \in Convs /\ proc[p].read \in Lists /\ proc[p].pc \in Stages
      BY <3>1, <3>2 DEF ProcOK, Processes, Saving
    <3>4. proc[p].read = file[Index]
      BY <1>4, <2>1, <3>1, <3>2, <3>3 DEF Keeps, Readable, Missing
    <3>5. file'[Index] = Listed(proc[p].conv, file[Index])
      BY <2>3, <3>1, <3>2, <3>4, SavingJob DEF IInv
    <3>. QED
      BY <3>3, <3>4, <3>5, ListedIsList
  <2>. QED
    BY <1>1, <2>1, <2>2, <2>3, SavesKeep, OtherStepFiles DEF IInv, Step
<1>. QED
  BY <1>3, <1>4 DEF LostNothing, Archives

(* No save, failed save, crash or restart loses turns of an archive,       *)
(* values of the session or, within its limit, entries of the index, as    *)
(* long as no two processes have had the file in use at once and it is not *)
(* the first save after a failed read: UpdateIndex and saveConversation    *)
(* write at least what they have read.                                     *)
THEOREM NothingLost == Spec => NothingSavedIsLost
<1>1. IInv /\ [Next]_vars => [LostNothing]_vars
  BY LostNothingStep
<1>. QED
  BY <1>1, Invariance, PTL DEF Spec, NothingSavedIsLost, LostNothing
====
