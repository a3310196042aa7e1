# Verification of brook

TLA+ models of brook, a Go program that runs LLM agents (built with the eino
ADK) behind a terminal interface and an HTTP gateway. The models are written
from the sources under `src/`; TLC checks them on small instances, and TLAPS
proves the safety properties of the run loop, of the terminal process, of the
archive's conversions, of the gateway with its limiter, of the files in a home
and of the configuration file for every size. Paths below are relative to `src/`.

`PROJECT.json` maps every definition to its source lines, and lists runs, the
hazards they look at, findings, theorems, and for every checked property a
mutation of the model (definitions commented `Bug:`) that violates it.

## 1. The system

| Component | State | Operations | Module | How far |
|---|---|---|---|---|
| TUI run loop `internal/tui/model.go` | transcript and pending text, `busy`, `runID`, `editingConfig`, the channel `ch`, one goroutine and context per run | `Update` (stream messages, keys), `startRun`, `waitStream`, Esc, `/new`, config screen | `RunLoop`, `Transcript`, `RunMailbox` | modelled |
| TUI process `model.go`, `cmd/brook-tui/main.go` | process state, `convID`, `Runtime.Session`, archive files, session file | start, save at run end, `/new`, reload, quit, save at exit, crash | `Tui`, `Home` | modelled |
| Conversation archive `internal/business/conversation/` | a JSON array of messages per conversation, the index of recent ones | `TurnsToMessages`, `MessagesToTurns`, trimming, `Load`, `Save`, `UpdateIndex` | `Conversation`, `Tui`, `Home` | modelled, without titles and times |
| Session file `internal/business/store/session.go` | a JSON map | `Load`, `Save` | steps of `Tui` and `Gateway`, system calls in `Home` | modelled |
| Directory layout `internal/brookdir/` | `current_conversation` | `Ensure`, read and write of the current ID | `Home`, `ConfigFile` | without paths |
| CLI `cmd/brook/main.go` | one run, the session | query, resume, save of the session | `Home` | without flags and output |
| Checkpoint store `internal/business/store/checkpoint.go` | a file per checkpoint | `Set`, `Get` | `Home` | at most one `Set` per run |
| Launcher `internal/launcher/` | `Runtime`: root, runner, session | `Load`, `SaveSession`, `SessionValuesSyncHandler`, merge | `Tui`, `Gateway`, `RunLoop` | what it does to sessions |
| Configuration `pkg/agentconfig/`, `internal/core/agent/builder.go` | `agent.yaml`, `Runtime.Root` | `Validate`, mode switch, patch, save and reload, build | `ConfigFile` | `agent.mode` and `mode_config` |
| Gateway `internal/gateway/{server,handler,session,collect}.go` | the handler's mutex, session stores, requests in flight | a chat request from arrival to answer, panic, disconnect, shutdown | `Gateway`, `SessionService` | modelled, without what a reply says |
| Rate limiter `internal/gateway/limit.go` | buckets of admission times, call counter | `allow` | `RateLimit` | modelled |
| Authentication `internal/gateway/auth.go` | none | check of a header | a refusal in `Gateway` | not modelled |
| Observability, A2UI emitter, presentation (`slash_complete.go`, `plain.go`, styles, clipboard) | - | - | - | not modelled, see section 5 |

How they interact:

- **Prompt.** `submitInput` calls `startRun`, which takes the history of the
  archive's conversion, starts a goroutine and returns a pump (`waitStream`).
  The goroutine sends stream messages on `ch`; each pump receives one message
  and posts it to `Update`, which shows it and returns the next pump, or ends
  the run. One channel serves every run; messages carry the run's number.
- **Session.** A callback captures the agent's session values when it ends.
  The snapshot travels in the last message of a run, `Update` merges it into
  `Runtime.Session`, and the process writes it to disk when it exits. The
  gateway does all of that within one request.
- **Archive.** At the end of a run `Update` saves the transcript, its error
  ignored, and `main` saves once more at exit, before the session.
- **Configuration.** The config screen and `/agent mode` write `agent.yaml`
  and call `launcher.Load`, which replaces `Runtime` with its session.
- **Files.** Processes of `brook-tui` and `brook` share `~/.brook` without any
  lock: archives, their index, `current_conversation`, the session, checkpoints.
- **Gateway.** Every request has a goroutine; a mutex of the process
  serialises load, query, merge and save.

What is hard here:

- *Interleaving.* A run that has ended still sends; a pump too many or too few
  is invisible until two runs meet; a config screen swallows messages.
- *Ordering.* Results come in the order in which tools end, and are matched to
  their calls by position; clock readings enter the limiter out of order; the
  two files are saved one after the other.
- *Failure.* Ignored errors of saves, archives that cannot be read, which the
  next save then replaces, a configuration that validates but does not load,
  crashes between two saves or between two system calls of one save, temporary
  files with shared names.
- *Time.* A cancelled run that must end although the agent hangs; requests
  that wait for a mutex while their deadline runs.

## 2. Modules

```
Conversation ── Transcript ── RunLoop ── Tui          (terminal interface)
      │              └─ RunMailbox (abstract)
      ├─ MCConversation, ConversationLemmas ── ConversationProofs
      └─ ... RunLoop ── RunLoopProofs ── TuiProofs (with ConversationLemmas)
SessionService (abstract) ── Gateway ── GatewayProofs  (gateway)
Home ── HomeProofs                                     (files of all processes)
ConfigFile ── ConfigFileProofs                         (configuration)
RateLimit ── RateLimitProofs                           (on its own)
MC<module>: the instances TLC checks
```

**Conversation** - turns, messages and the conversions between them as
operators: `TurnsToMessages` with its positional pairing of calls and results,
`MessagesToTurns`, `trimMessageTail`, `persistableConvTurns`,
`historyTurnsForRun`. Loops of the code are folds and recursive functions over
positions. A text is a sequence of tokens, so losing or repeating a piece
shows. A text of only blanks is not distinguished from other text.

**Transcript** - what `Update` does to `turns`, `pending` and
`pendingReasoning` for each kind of stream message, one operator per kind, the
flushes and the stripping of empty answers included.

**RunLoop** - the event loop, the channel, the pumps, and one goroutine per
run. A goroutine is a record with the place `pc` it has reached, the messages
it has yet to send and where it resumes then, the calls whose results it owes,
its context and the session snapshot; every send on `ch` is a step of its own
that blocks on a full channel. The messages a pump has received and Bubble Tea
has not handled are `inbox`. What the agent produces (`AgentStep`: chunks,
whole messages, tool calls, results, errors, the end) is chosen freely within
`Outputs` and `MaxCalls`; it may also produce nothing and hang. The calls of a
message are answered in any order, since the builder leaves the tools
concurrent (`builder.go:83`); a result may be empty, and one without a message
is not sent (`ToolResult`).
User steps are prompts, Esc, `/new`, commands that leave a note, the config
screen. A meta turn and an error turn of a command are the same kind of note.

**RunMailbox** - what the run loop promises, abstractly: each run has a
private mailbox, shown completely and in order until its first err or done.
`RunLoop!ImplementsMailbox` is the refinement: the mailbox of the open run is
the part of `inbox \o ch` that carries its number.

**Tui** - the process around `RunLoop`: `Boot`, `EndRunAndSave`,
`StartNewConversation`, `Reload`, `Quit`, the two saves of `main` in their
order, and `Crash` anywhere. Saves and loads may fail (`Faults`). A failed
`LoadedView` leaves an error turn and an empty transcript; a file that names
another conversation is one of the load failures. `Quit` may happen at any
time, in the middle of a run too: Bubble Tea ends in order on SIGTERM, and
`main` then saves what is shown. The goroutines do not step between the closing
of the screen and the end of the process.

**Gateway** - a request is a record whose `pc` goes from `new` through
`waiting`, `loading`, `querying`, `saving`, `writing` to `done`, or `lost`
with its process. Deferred functions are part of the steps that return
(`Unlock`), panics included. Time is a counter of ticks with a deadline per
request. Processes shut down, crash and start again; `file` stores are shared
by all instances, `memory` stores are not. IDs are sequences of lines, as many
as a JSON string may hold; the key puts both together with a line break between
(`SessionKey`), so it does not always tell where the first ends. That it is
hashed is left out.

**SessionService** - what the gateway promises of sessions: an open request may
leave a value; when it is stored, exactly this value joins the session of its
key, in one step; a refused, failed or lost request adds nothing; no other step
touches a session. `Gateway!ImplementsSessionService` is the refinement: a
request is `open` until its session is saved or it has failed, and has left a
value once its agent's snapshot is captured. It says that the
read-work-write-back of whole sessions over minutes is atomic in effect.

**Home** - the files under `~/.brook` and the processes that share them, one
system call per action. A save is a list of jobs (`SaveConversation ==
<<"archive", "current", "index">>`); a job reads the index if it has to,
creates the temporary file, writes it and renames it, or writes in place
(`current_conversation`). Temporary names are shared by all savers of a path,
so a writer may go on in a file another has renamed (`fd`), and two may mix
their contents (`Torn`). `AfterFailure` says which errors are ignored, end the
save, or end the process. `Load`, `Open`, `EndRun`, `StartNewConversation`,
`Quit` and `Query` are the programs; `Crash` kills any process anywhere. Run
numbers stand for what a run leaves: turns in an archive, values in the
session. Whoever reads an archive or the index may fail to, whatever it holds,
and goes on with none (`Reads`); a session that cannot be read ends the
process. Three auxiliary variables say what the code promises nothing for:
`spoilt` collects the paths two processes have had in use at once, `missed`
those a reader could not read, until they are written anew, `unkept` the runs
no archive need hold: those of brook, those whose save failed, and those of an
archive that was written anew by a process that could not read it.

**RateLimit** - `allow` in the two halves that matter: reading the clock, and
the rest under the mutex (window, limit, eviction every 100th call). A bucket
is the set of the requests whose times it holds: `allow` only filters and
counts them, so their order does not matter.

**ConfigFile** - `agent.yaml` against the configuration in force. A
configuration is its mode, which parts of `mode_config` are named, and one
value for all the rest: two that work, one that does not validate, one that
validates but does not build. Actions are start and exit, the config screen's
save with its refusals and its in-place write (`SaveCutShort`), `/agent mode`,
and edits by other programs.

## 3. Runs

| Run | Bounds | What it shows |
|---|---|---|
| `conversation` | every transcript of at most 6 turns, histories of up to 4 messages | `LoopIsTheGrouping`: the loop computes the declarative grouping. `ReloadKeepsTheArchive`, `GroupedTranscriptComesBack`: an archive is a fixed point, and a well formed transcript survives a restart. `HistoryIsTheTail`, `HistoryIsWellFormed`: trimming drops no more than it must and never separates a tool message from its call. |
| `run_loop` | 2 runs (the first answered whole, the second streamed), channel of 2, one tool call per message, one note, fair | `PumpDiscipline`, `BusyHasAnEnd`, `PastRunsOnlySayDone`, `NothingShownIsLost`, the refinement `ImplementsMailbox`, and `CancelledRunEnds`: Esc gives the prompt back although the agent may hang until it is cancelled. |
| `tui` | 2 conversations, 2 starts, 2 prompts of which the first is answered (1 message, 2 tool calls answered in any order), all faults, reloads, 1 note | `ArchiveIsCurrent`, `PromptContinuesTheArchive`, `ArchivesOnlyGrow`, `SessionFileOnlyGrows`, and `ArchivedRunsStayApart`: whatever is sent in whatever order, also after a cancel or `/new`, no archive files anything under another run's prompt. |
| `gateway` | 3 requests, 3 users, 2 conversations, IDs of one line and of two, both stores, one exit and restart | `HoldersHoldTheMutex`, `LikeUsersAreIsolated`: a session mixes no conversations of users with equally many lines in their IDs, one as a rule. `SessionsOnlyGrow`, `OkMeansSaved`, and the refinement `ImplementsSessionService`. |
| `home` | 2 brook-tui, 1 brook, 2 starts, 2 runs, 2 conversations | `FilesStayWhole`: no crash or failed write tears a file saved by one process at a time. `NothingSavedIsLost`: nor does any sequence of saves, crashes and restarts lose what a file holds, but for the save of a process that could not read it (`model.go:151`, `index.go:34`). `IndexPointsToArchives`, in every interleaving of savers. `SessionIsBackedByArchives`: session values belong to turns some archive holds, with the same exception. |
| `answers` | 3 requests for one mutex, fair | `EveryRequestIsAnswered` whatever fails, hangs or panics. |
| `rate_limit` | 5 requests, 2 addresses, limit 2, window of 3 ticks, readings one tick late | `WindowsAreLimited`, `RejectedAtTheLimit`. |
| `config` | 6 combinations of mode settings, 7 modes, 4 values of the rest | `LoadedMeansInForce`, `WrittenFilesValidate`, `ModesCanBeSwitchedTo`, `NextStartWorks`. |

Every run also checks the type invariant of its module, where it has one.

Why these bounds. *Conversation*: a call, its result, a second call and result,
a prompt and an answer fit into six turns, so every pair of neighbours and
every misplaced turn occurs. *RunLoop*: stale messages need two runs; a full
channel needs one message more than its capacity, hence the capacity 1 or 2
for the 128 of the code; the proofs below do not depend on it. *Tui*: two
starts and two conversations are what it takes to load what another process
saved and to leave a conversation for another; that only the first prompt is
answered leaves the second one to meet what the first still sends. Several
agents in one run are left to the theorems. *Gateway*: one request that holds
the mutex and two that wait, of which two may share a key; IDs of two lines are
what it takes for two pairs to have one key. *RateLimit*: the limit of two and five requests reach the limit, fall below it again and
reach it anew within the time; a bucket can be evicted because `MaxKeys` is 1.
*Home*: two starts are two processes at once or one
after the other, so every interleaving of two savers and every crash with a
restart occurs; two runs can be of one conversation or of two. The two
conversations fit into the index: dropping its oldest entry is not reached by
the run; the theorems cover it.
Temporary files nobody will read again are not told apart (`VIEW`), since
creating truncates them, nor are `missed` paths nobody has in use, since they
are read again before they are written. In `tui` the `VIEW` leaves out what
dies unread: the goroutines and the channel once the screen is closed, and what
a goroutine that is about to end was owed. *ConfigFile* has no bound but the texts; the modes left out have the settings
of one that is tried, and the settings of `plan_execute` are not combined with
those of other modes, which no check looks at together.
Symmetry is used for requests, addresses, processes and the conversation IDs of
`Tui` and `Home`, only in runs without liveness properties.

`CHECK_DEADLOCK FALSE` stands where the program may stop: when all prompts are
typed and the process has exited, all requests are answered, the longest
transcript is reached.

### Fairness

`RunLoop!Fairness`: the Go runtime runs every goroutine that can go on (pumps,
run goroutines) and Bubble Tea handles every posted message. Of the agent one
thing is assumed: it returns from the call it is blocked in once its context is
cancelled. A run nobody cancels may hang for ever, and the user need not do
anything.

`Gateway!Fairness`: handlers that can go on do, and time passes. `Lock` is
strongly fair since a Go mutex in starvation mode hands itself to the waiter
that has waited longest. The agent returns once the context of its request is
done (deadline, client gone). Writing the reply is a step that ends: the
server's write timeout (`server.go:60-63`).

### Findings

Four runs expect a violation; each checks what the repository says of itself.

- `orphan_calls` (`model.go:372`): an answer that streams nothing but tool
  calls is stripped as empty before the calls are appended, so they stand
  behind the prompt, and archive and history drop them with their results.
  `turn.go:86` takes such calls for damaged old data.
- `reload` (`model.go:618` and `:503`): session values of runs since the start
  are lost when the configuration is reloaded, since the new runtime reads the
  file of the last exit; `model.go:260` and `session_sync.go:13` say that the
  session survives to be saved.
- `timeout` (`handler.go:99`): the deadline starts before the wait for the
  mutex, whereas `types.go:47` calls it the limit of a single agent run.
- `instances` (`handler.go:102`): the guide recommends several instances on a
  shared disk (`doc/agent-configuration-guide.md:133`), but the mutex is of one
  process, and one instance overwrites what another has saved.

Three more weaknesses show in the models as choices the code leaves open. The
properties say what holds in spite of them, and no run expects a violation:

- Swapped answers. A result loses the ID of its call on the way to the
  transcript (`model.go:778`), and the archive gives the k-th result the ID of
  the k-th call (`turn.go:76`). Tools of one message run concurrently
  (`builder.go:83`), so the archive, and the history of the next prompt, may
  file the answers of two calls under each other. `ArchivedRunsStayApart` is
  what holds: answers stay with their run and its prompt.
- Shared keys. User and conversation are joined by a line break
  (`session.go:106`), which either may hold, as they are only trimmed
  (`handler.go:83`, `:92`). So user `a` in conversation `b<line break>c` and user
  `a<line break>b` in conversation `c` share a session, although
  `doc/agent-configuration-guide.md:130` says that sessions are kept apart by
  both. `LikeUsersAreIsolated` is what holds.
- Interleaved agents. `NothingShownIsLost` is checked and proved for one agent at
  a time. With several interleaved in one run it does not hold: text that is
  pending when another agent's result is shown has no answer to move into and
  is dropped (`model.go:849`). Whether the ADK interleaves them so, `src/` does
  not show.

## 4. Proofs

Each theorem holds for every value of the constants that satisfies the
module's one named assumption (`ConstantsAssumption`, `TuiAssumption`,
`GatewayAssumption`, ...), which says what the constants are and no more; what
else a theorem assumes is said beside it.

### Run loop

`RunLoopProofs` proves, for any number of runs, any set of agents, any outputs
and any capacity of the channel, from `ConstantsAssumption` alone:

| Theorem | Property |
|---|---|
| `TypeCorrect` | `TypeOK` |
| `PumpsAreDisciplined` | `PumpDiscipline`: while a run is shown one message is awaited or under way, otherwise none |
| `RunsHaveAnEnd` | `BusyHasAnEnd`: a shown run's goroutine is at work or its end is in transit |
| `OldRunsAreSilent` | `PastRunsOnlySayDone`: nothing but done comes from a run that is no longer shown |
| `RunsHaveMailboxes` | `ImplementsMailbox`: the refinement of `RunMailbox` |
| `NothingIsLost` | `NothingShownIsLost`, for one agent (`OneAgent`) |

The first four follow from one inductive invariant, `Invariance == Spec => []IInv`. The
properties alone are not inductive, for two reasons:

- `PastRunsOnlySayDone` and `BusyHasAnEnd` depend on what a goroutine is about
  to send. `SendingInv` says what its queue of unsent messages may hold where:
  an err is the last message before the deferred done, done is the last of all,
  everything else is sent from within the loop.
- They also depend on how far a goroutine has got when its message is seen.
  `TransitInv` says that once its err or done is in transit a goroutine has
  left the loop, that after an err only done follows, and that messages carry
  the number of a run that was started. `BusyRuns` ties `busy` to a run number.

`IInv` is the conjunction of these with the four properties. The proof has a
lemma per action. The actions of a goroutine that touch nothing but its own
record share `LocalStep`; the lemmas `...Step` of the agent's actions establish
its premises. `SendStep`, `PumpStep` and `DeliverStep` move messages from the
goroutine to `ch`, to `inbox` and to `Update`; `Delivered` and `TakingStep`
show that they lose and invent none. `UserSteps` covers prompts, Esc, `/new`
and the config screen.

The refinement needs besides `IInv` that the transcript is made of turns
(`ViewCorrect == Spec => []RInv`, with `RInv == IInv /\ ViewOK`). The mailbox is
`sent == OfRun(inbox \o ch, runID)`. A send of the open run is `Post`
(`SendAppends`), of any other run a stutter, since `OfRun` leaves it out; a pump
moves a message from `ch` to `inbox`, and `sent` stays as it is
(`PumpKeepsOrder`); a delivery is `Read`: it takes the first message of the open
run, which is the first of the mailbox because both queues keep their order
(`TakingOldest`), or one of another run and nothing happens. A new run finds an
empty mailbox, since messages carry the numbers of runs that were started before
(`NothingSentYet`). `OfRun` flattens a sequence of sequences of one message or
none; what that makes of a concatenation is proved once, by induction on lengths
(`Mapped...` and `Flatten...` in `ConversationLemmas`).

`NothingIsLost` is about text that is pending. `Update` moves it into the last
turn if that is an answer, and resets it in any case, so it is lost when a
result has been shown behind it. `LossInv` says why this does not happen:

- while a run is shown, pending text has an answer at the end of the transcript
  (`Attached`), and no text is pending while none is shown;
- before any result that is on its way (`coming`: in `inbox`, in `ch` or not
  yet sent), there is a message that flushes all text before it (`ResultsFit`);
- while the agent owes results, all text on its way is flushed (`AllFlushed`), so
  that the next message may be a result; and an agent that streams owes none.

The last point needs `OneAgent`: an agent begins its answer when it has all its
results, but not when another agent has them. `SendingFits` adds a message behind
those on their way and `ShowingFits` takes the first; the lemmas `...Shows`
follow what is shown through every edit of the transcript.

### Terminal process

`TuiProofs` proves, for any number of starts, prompts, conversations and runs
and any faults, from `TuiAssumption` and `ConstantsAssumption`:

| Theorem | Property | Also assumes |
|---|---|---|
| `TuiTypeCorrect` | `TuiTypeOK` | |
| `ArchivesAreCurrent` | `ArchiveIsCurrent` | |
| `PromptsContinueTheArchive` | `PromptContinuesTheArchive` | |
| `SavesOnlyAdd` | `ArchivesOnlyGrow` | |
| `SessionFileKeepsItsValues` | `SessionFileOnlyGrows` | |
| `RunsStayApart` | `ArchivedRunsStayApart` | |
| `SessionKeptWithoutReloads` | `SessionIsKept` | `~Reloads` |

The last one is the other side of the finding `reload`: nothing but a reload
takes a value out of the session of a running process.

The inductive invariant is `TInv`, the run loop's `RInv` with

- `ProcInv`: types, and that no run is shown while no process is up;
- `PromptInv`: what is in the session, in a snapshot or in a message on its
  way comes from prompts, and what run r says, in a goroutine or a message, is of
  the r-th prompt since the process started (`Before` counts those of earlier
  ones). Values pass from the goroutine through `ch`, `inbox` and `Update` into
  the session, so the invariant follows them there;
- `FileInv`: a process has all the values of the file in its session. This is
  why rewriting the file loses none, and is what `Reload` must keep up although
  it drops the values since the start;
- `ArchiveInv`: every archive on disk is what the loop makes of some
  transcript, so that loading one and archiving it gives it back;
- `CurrentInv`: `ArchiveIsCurrent`, also after the screen was closed;
- `GrowInv`: whatever saves have failed, the archive is the beginning of what
  would be archived now, or, while a run is shown, of what stood before one of
  the prompts. `ArchivesOnlyGrow` is not inductive without it: a failed save
  leaves an archive several turns behind. Within a run the statement has to be
  about a prompt since the turns of an unfinished answer may still be
  stripped, which may change what an archive of them would be, but not what
  comes before the prompt.

Every action of `Tui` is one of the run loop's, or one that leaves its goroutines
dead (`Goes`). What connects the files with the transcript are facts about
`TurnsToMessages` and `MessagesToTurns`, below: cutting a transcript before a
prompt cuts its archive, adding behind it adds, and notes make no difference.

`RunsStayApart` needs more, beside `TInv`, as one channel and one transcript
serve all runs:

- `ScreenApart`: while a run is shown, its prompt is in the transcript, all from
  there on, pending text included, is of this run, and what stands before, if it
  were archived, keeps the runs apart (`HoldsRun`). Between runs this is so of
  the whole transcript. A quit in the middle of a run saves the former
  (`ScreenIsApart`);
- `FilesApart`: the property, of every archive. A start puts what it says into
  the transcript.

`PromptInv` supplies what `Update` shows: it takes messages of the current run
only, and those say what its prompt's run may say. The lemmas `...Ours` follow
every edit of the transcript; note that stripping an empty answer cannot reach
behind the prompt. No assumption on the number of agents or the order of
results is needed, since nothing is said about which call an answer is filed
under: within a run that may be the wrong one.

### Conversions

`ConversationProofs` proves what the run `conversation` tries for short
transcripts, for those of any length and for any context limit, without an
assumption:

| Theorem | Property |
|---|---|
| `LoopsGroup` | `LoopIsTheGrouping` |
| `RestartsKeepTheArchive` | `ReloadKeepsTheArchive` |
| `GroupedTranscriptsComeBack` | `GroupedTranscriptComesBack` |
| `HistoriesAreTails` | `HistoryIsTheTail` |
| `HistoriesAreWellFormed` | `HistoryIsWellFormed` |

The invariant (`CInv`, `Numbered`) only says what transcripts there are; the
work is in the operators. The library's induction theorems cannot be used with
an operator, so induction is over a set of numbers: `NatSetInduction` (in
`ConversationLemmas`) says that a set of naturals with 0 and every successor is
`Nat`, `SeqLengthInduction` and, in `ConversationProofs`, `DownInduction` are
its forms for lengths and for counting down. With them:

- Folds and recursive functions get their defining equations
  (`FlattenSeq` of an append and of a concatenation, the loop's step at each
  kind of turn).
- `LoopsGroup`: the loop jumps over the group of an answer, its calls and
  results; the proof counts down from the end of the transcript, and shows that
  the loop's remainder from a position is the concatenation of `MessageAt` from
  there on. Both must find the same ends of a group, hence the lemmas about
  `CallsOf` being an interval and about `Answers` having one solution.
- `RestartsKeepTheArchive`: the turns of a group's messages are a group again,
  and its messages are the same ones.
- `GroupedTranscriptsComeBack`: `Reach` says where in a grouped transcript the
  loop can stand: behind every answer it has come to, its calls and results.
  `ReachNext` moves it over one group, so it never stands at an orphan call.
- `HistoriesAreWellFormed`: a tool message at the cut would have lost its call,
  and `trimMessageTail` drops it; one behind the cut has its whole group, in
  which results are paired with calls by position.

### Gateway

`GatewayProofs` proves, for any number of requests, users, conversations,
instances, any deadline and any number of exits and restarts, from
`GatewayAssumption`:

| Theorem | Property | Also assumes |
|---|---|---|
| `TypeCorrect` | `TypeOK` | |
| `MutexIsHeld` | `HoldersHoldTheMutex` | |
| `LikeUsersIsolated` | `LikeUsersAreIsolated` | |
| `NoUpdateIsLost` | `SessionsOnlyGrow` | `OneWriter` |
| `OkIsStored` | `OkMeansSaved` | `OneWriter` |
| `ServiceIsImplemented` | `ImplementsSessionService` | `OneWriter` |

`OneWriter` says that with session files there is one instance. The code does
not enforce it and the guide advises against it: the run `instances` is the
counterexample without it, so the assumption cannot be dropped. Stores in
memory need no such assumption.

The first three follow from `IInv == TypeOK /\ HoldersHoldTheMutex /\ KeysInv`,
which is inductive: `KeysInv` says that what a request has loaded or captured
is of its own key. Two IDs put together give one key only if they are the same
or are cut at different places, which `LikeUsersIsolated` rules out. The others need `TurnInv`: while a request is between load
and save, what it has loaded is what its store still holds for its key, and
what it is about to save is that and its own value. It is
inductive only beside `IInv`: two requests in such a turn would share a mutex,
hence be one (`TurnAfterSave` is where the argument is used). The refinement
`ServiceStep` has a step per action: saving is `Store`, capturing is `Leave`,
failures are `Refuse`, answers and panics are `End`, an exit is `Stop`, the
rest stutters. `Moved` and `Goes` describe how a request moves, so that the
lemmas `...Goes` and `...Record` translate each action once.

`RateLimitProofs` proves every property of `RateLimit`, for any number of
requests and addresses, any limit, window, delay and eviction, from
`RateLimitAssumption`: `TypeCorrect` (`TypeOK`), `WindowsStayLimited`
(`WindowsAreLimited`) and `RejectionsAreAtTheLimit` (`RejectedAtTheLimit`).
`WindowsAreLimited` is about the times at which requests were admitted, which
the code does not record; its buckets hold readings that may be late. `IInv`
ties them: a reading is at most `MaxDelay` old when it is used
(`ReadingsAreRecent`), a bucket holds only requests of its own address
(`BucketsAreOwn`), and all the admitted ones whose reading is within the window
(`RecentAreKept`), since a later call drops no more than those, whatever
reading it uses. The window that ends now is then a subset of a bucket, and the
bucket is below the limit when a request is admitted. Eviction forgets the
admissions it drops.

### Files

`ConfigFileProofs` proves every invariant of `ConfigFile`, for any set of modes
and any choice of texts that are entered, from `ConfigAssumption`: `TypeCorrect`
(`TypeOK`), `LoadedIsInForce` (`LoadedMeansInForce`), `FilesValidate`
(`WrittenFilesValidate`), `SwitchesAreOpen` (`ModesCanBeSwitchedTo`) and
`StartsWork` (`NextStartWorks`). The run tries one of the modes that have the
same settings, and leaves out texts that combine settings of several modes; the
theorems do not. `IInv` is the conjunction of the first three; the other two
follow from it. The step that needs an argument is `SwitchMode`: the check is
of the running configuration and the patch of the file, so the proof shows that
the placeholders of a mode that passes on one configuration validate on every
other one (`PlaceholdersValidate`, `SwitchedModes`).

`HomeProofs` proves every property of `Home`, for any number of processes,
conversations, runs and starts and any limit of the index, from
`HomeAssumption` (besides the types: the constants for files that are absent,
empty or torn are no contents):

| Theorem | Property |
|---|---|
| `TypeCorrect` | `TypeOK` |
| `FilesWhole` | `FilesStayWhole` |
| `IndexIsBacked` | `IndexPointsToArchives` |
| `NothingLost` | `NothingSavedIsLost` |
| `SessionIsBacked` | `SessionIsBackedByArchives` |

The invariant `IInv` has a part for each of them, and two they all need:

- `SharedIsSpoilt`: a path two processes use is spoilt. So a file that is not
  spoilt has one user, and no step of another touches it (`OthersFiles`).
- `WholeInv`: the temporary file of such a path is the saver's own, empty when
  it is written and complete when it is renamed (`OwnFile`). Without this
  nothing is known of what a rename puts in place.
- `KeepInv`: what a process holds includes what is in the files that only it
  uses and could read, since it has loaded them and adds to what it has. A save
  then loses nothing (`RunsGrow`; for the index `ListedIsList`, on what UpdateIndex makes
  of a list).
- `IndexInv`: an archive stays once it is there, also a spoilt one, and what a
  process has read of the index, or is about to put there, has one. This part
  does not use `spoilt`: the order of the jobs alone is enough.
- `BackInv`: a process's session values are in an archive, or among the turns
  it is about to save; session files come after that save. When a save replaces an
  archive its process could not read, the turns it drops become `unkept`.
- `TypeInv`: with the jobs a process may have before it, and where it then is.

The lemmas `...Moves` say what each action makes of its process, `SavesTouch`
and `SavesWhole` what a system call does to the files; each part of the
invariant then has a lemma for a step of any process.

### Only checked by TLC

- `CancelledRunEnds` and `EveryRequestIsAnswered`: liveness under fairness,
  which the prover does not support.

## 5. Not modelled

- Power loss: the code does not call fsync, so a renamed file may still be
  lost or empty after it. `Home` crashes processes, not the machine.
- Titles, previews and times of the index's entries.
- Failures of `brookdir` (no home directory), after which the TUI runs without
  an archive file.
- The order of several checkpoints within a run, and `Get`: only the ADK calls
  them.
- The atomic writes of `agent.yaml` by `/agent mode`, which are made like those
  in `Home`, are single steps in `ConfigFile`.
- Authentication: a comparison with a bearer token, or an HMAC with the
  skew of its timestamp, without state; a refusal in `Gateway`. Reply bodies and
  `clientIP` headers.
- The A2UI emitter and the printing of the CLI: text, no state that outlives a
  line. That the output cannot be written is one of the crashes of `Home`.
- The tool error middleware (`toolerr_middleware.go`): turns an error of a tool
  into a result, before the events the models begin with.
- Settings other than the mode: models, tools, file system, observability,
  `@file` references. What the built agents do is the environment.
- Observability: writes logs. Layout, scrolling, completion of commands,
  clipboard: functions of what is shown.

## 6. Plan

Done: `Conversation`, `Transcript`, `RunLoop` with `RunMailbox`, `Tui`,
`Gateway` with `SessionService`, `Home`, `RateLimit`, `ConfigFile`; proofs about
all of them.

Every invariant and action property of a passing run has its theorem. Next:
`Home` with three conversations, so that the index drops one in the run too.
