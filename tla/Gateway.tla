---- MODULE Gateway ----
(***************************************************************************)
(* brook-gateway (internal/gateway): HTTP requests, each handled by a      *)
(* goroutine of its own, take turns at one agent.  Under a mutex of the    *)
(* process a request loads the session values of its user and              *)
(* conversation, runs the agent on them, merges what the run left in the   *)
(* session and saves.  Its deadline is set when it arrives.                *)
(*                                                                         *)
(* A session is the set of requests whose values it holds.  A save         *)
(* replaces the stored session as a whole; one cut short by the end of the *)
(* process has not happened.                                               *)
(***************************************************************************)
EXTENDS Naturals, FiniteSets, Sequences

CONSTANTS
  Requests,      \* chat requests
  NoRequest,     \* nobody holds the mutex
  Lines,         \* lines of text
  Users, Convs,  \* user_id and conversation_id, trimmed: sequences of lines
  Instances,     \* gateway processes behind one balancer
  Backends,      \* values of session.store: "memory", "file"
  QueryTimeout,  \* query_timeout_seconds, in ticks
  MaxTime,       \* ticks (bound); requests arrive early enough to time out
  MaxExits       \* times a process ends (bound)

ASSUME GatewayAssumption ==
  /\ NoRequest \notin Requests
  /\ Users \subseteq Seq(Lines) \ {<<>>} /\ Convs \subseteq Seq(Lines) \ {<<>>}
  /\ Backends \subseteq {"memory", "file"}
  /\ "disk" \notin Instances
  /\ QueryTimeout \in Nat \ {0}
  /\ MaxTime \in Nat /\ MaxExits \in Nat

VARIABLES
  backend,   \* where sessions are kept, the same everywhere
  sessions,  \* per store and key, the session
  state,     \* per process: "up", "draining" (shutting down), "down"
  mu,        \* per process, who holds the mutex of its chat handler
  req,       \* the requests
  now,
  exits      \* times a process has ended

vars == <<backend, sessions, state, mu, req, now, exits>>

\* Bug: the conversation is left out, and users share the default one.
SessionKeyOfConversation(u, c) == c

(* The derived key: the hash of both parts put together, a line break      *)
(* between them.  The hash tells texts apart, not where the first part of  *)
(* one ends.                                                               *)
SessionKey(u, c) == u \o c

Keys == { SessionKey(u, c) : u \in Users, c \in Convs }

(* A memory store lives in its process; files are shared.                  *)
Stores == Instances \cup {"disk"}
StoreOf(i) == IF backend = "file" THEN "disk" ELSE i

(***************************************************************************)
(* A request: pc is how far its handler is.                                *)
(*   new, waiting          not sent; waiting for the mutex                 *)
(*   loading ... writing   holding the mutex                               *)
(*   done, lost            answered; its process ended before that         *)
(* kv is the session it works on, snap the last snapshot of the session    *)
(* callback, began when its turn began,  gone that its client hung up,     *)
(* answer what it will be answered (refusals are not told apart).          *)
(***************************************************************************)
NewRequest(u, c, i) ==
  [pc |-> "new", at |-> i, user |-> u, conv |-> c, deadline |-> 0, began |-> 0,
   kv |-> {}, snap |-> {}, gone |-> FALSE, answer |-> "none"]

Holding == {"loading", "querying", "saving", "writing"}

Key(q) == SessionKey(req[q].user, req[q].conv)

(* What is left of a request when it is over.                              *)
Over(q, pc) == [NewRequest(req[q].user, req[q].conv, req[q].at) EXCEPT !.pc = pc]

Init ==
  /\ backend \in Backends
  /\ sessions = [s \in Stores |-> [k \in Keys |-> {}]]
  /\ state = [i \in Instances |-> "up"]
  /\ mu = [i \in Instances |-> NoRequest]
  /\ req \in [Requests -> { NewRequest(u, c, i) : u \in Users, c \in Convs, i \in Instances }]
  /\ now = 0 /\ exits = 0

-----------------------------------------------------------------------------
(* The handler.                                                            *)

(* Turned away before the mutex: the rate limit, authentication, the       *)
(* method, the size or form of the body, a missing user or text.           *)
Refuse(q) ==
  /\ req[q].pc = "new" /\ state[req[q].at] = "up"
  /\ req' = [req EXCEPT ![q] = Over(q, "done")]
  /\ UNCHANGED <<backend, sessions, state, mu, now, exits>>

Arrive(q) ==
  /\ req[q].pc = "new" /\ state[req[q].at] = "up"
  /\ now + QueryTimeout <= MaxTime
  /\ req' = [req EXCEPT ![q].pc = "waiting", ![q].deadline = now + QueryTimeout]
  /\ UNCHANGED <<backend, sessions, state, mu, now, exits>>

\* Bug: the mutex is taken per key, not per process.
LockKey(q) ==
  /\ req[q].pc = "waiting"
  /\ mu[req[q].at] \notin { p \in Requests : Key(p) = Key(q) }
  /\ mu' = [mu EXCEPT ![req[q].at] = q]
  /\ req' = [req EXCEPT ![q].pc = "loading", ![q].began = now]
  /\ UNCHANGED <<backend, sessions, state, now, exits>>

Lock(q) ==
  /\ req[q].pc = "waiting" /\ mu[req[q].at] = NoRequest
  /\ mu' = [mu EXCEPT ![req[q].at] = q]
  /\ req' = [req EXCEPT ![q].pc = "loading", ![q].began = now]
  /\ UNCHANGED <<backend, sessions, state, now, exits>>

LoadSession(q) ==
  /\ req[q].pc = "loading"
  /\ req' = [req EXCEPT ![q].pc = "querying",
                        ![q].kv = sessions[StoreOf(req[q].at)][Key(q)]]
  /\ UNCHANGED <<backend, sessions, state, mu, now, exits>>

\* Bug: the handler goes on after it has answered the failed load.
LoadFailsAndGoesOn(q) ==
  /\ req[q].pc = "loading" /\ backend = "file"
  /\ req' = [req EXCEPT ![q].pc = "querying", ![q].answer = "failed"]
  /\ UNCHANGED <<backend, sessions, state, mu, now, exits>>

(* The file cannot be read or parsed; a memory store cannot fail.          *)
LoadFails(q) ==
  /\ req[q].pc = "loading" /\ backend = "file"
  /\ req' = [req EXCEPT ![q].pc = "writing", ![q].answer = "failed"]
  /\ UNCHANGED <<backend, sessions, state, mu, now, exits>>

(* An agent of the run ends; the callback captures its session values: the *)
(* ones given to the run and what it wrote.                                *)
AgentEnds(q) ==
  /\ req[q].pc = "querying" /\ req[q].snap = {}
  /\ req' = [req EXCEPT ![q].snap = req[q].kv \cup {q}]
  /\ UNCHANGED <<backend, sessions, state, mu, now, exits>>

Expired(q) == now >= req[q].deadline

(* What a query that returned an error is answered with: 504 if its        *)
(* deadline has passed, or if the error says so or that something was      *)
(* cancelled (its context, or a call with a deadline of its own), else 400.*)
ErrorAnswers(q) == IF Expired(q) THEN {"timeout"} ELSE {"failed", "timeout"}

\* Bug: the snapshot replaces the session, also when there is none.
QueryReturnsUnmerged(q) ==
  /\ req[q].pc = "querying"
  /\ \E a \in {"ok"} \cup ErrorAnswers(q) :
       req' = [req EXCEPT ![q].pc = "saving", ![q].answer = a, ![q].kv = req[q].snap]
  /\ UNCHANGED <<backend, sessions, state, mu, now, exits>>

(* The agent's events are exhausted or one carries an error; either way    *)
(* the snapshot is merged.                                                 *)
QueryReturns(q) ==
  /\ req[q].pc = "querying"
  /\ \E a \in {"ok"} \cup ErrorAnswers(q) :
       req' = [req EXCEPT ![q].pc = "saving", ![q].answer = a,
                          ![q].kv = @ \cup req[q].snap]
  /\ UNCHANGED <<backend, sessions, state, mu, now, exits>>

SaveSession(q) ==
  /\ req[q].pc = "saving"
  /\ sessions' = [sessions EXCEPT ![StoreOf(req[q].at)][Key(q)] = req[q].kv]
  /\ req' = [req EXCEPT ![q].pc = "writing"]
  /\ UNCHANGED <<backend, state, mu, now, exits>>

\* Bug: the failed save is only logged.
SaveFailsQuietly(q) ==
  /\ req[q].pc = "saving" /\ backend = "file"
  /\ req' = [req EXCEPT ![q].pc = "writing"]
  /\ UNCHANGED <<backend, sessions, state, mu, now, exits>>

SaveFails(q) ==
  /\ req[q].pc = "saving" /\ backend = "file"
  /\ req' = [req EXCEPT ![q].pc = "writing", ![q].answer = "failed"]
  /\ UNCHANGED <<backend, sessions, state, mu, now, exits>>

Unlock(i) == mu' = [mu EXCEPT ![i] = NoRequest]

(* The answer is written, then the deferred unlock runs.                   *)
Respond(q) ==
  /\ req[q].pc = "writing"
  /\ req' = [req EXCEPT ![q] = Over(q, "done")]
  /\ Unlock(req[q].at)
  /\ UNCHANGED <<backend, sessions, state, now, exits>>

\* Bug: the unlock is not deferred.
PanicLocked(q) ==
  /\ req[q].pc \in {"loading", "querying", "saving"}
  /\ req' = [req EXCEPT ![q] = Over(q, "done")]
  /\ UNCHANGED <<backend, sessions, state, mu, now, exits>>

\* Bug: the save is deferred like the unlock.
PanicSaving(q) ==
  /\ req[q].pc \in {"querying", "saving"}
  /\ sessions' = [sessions EXCEPT ![StoreOf(req[q].at)][Key(q)] = req[q].kv \cup req[q].snap]
  /\ req' = [req EXCEPT ![q] = Over(q, "done")]
  /\ mu' = [mu EXCEPT ![req[q].at] = NoRequest]
  /\ UNCHANGED <<backend, state, now, exits>>

(* A panic unwinds through the deferred unlock to recoverMiddleware.       *)
Panic(q) ==
  /\ req[q].pc \in {"loading", "querying", "saving"}
  /\ req' = [req EXCEPT ![q] = Over(q, "done")]
  /\ Unlock(req[q].at)
  /\ UNCHANGED <<backend, sessions, state, now, exits>>

(* The client hangs up: the request's context is cancelled.                *)
Disconnect(q) ==
  /\ req[q].pc \in {"waiting"} \cup Holding /\ ~req[q].gone
  /\ req' = [req EXCEPT ![q].gone = TRUE]
  /\ UNCHANGED <<backend, sessions, state, mu, now, exits>>

-----------------------------------------------------------------------------
(* The process and the clock.                                              *)

(* A signal: no new request is accepted, those on their way go on.         *)
Shutdown(i) ==
  /\ state[i] = "up" /\ exits < MaxExits
  /\ state' = [state EXCEPT ![i] = "draining"]
  /\ UNCHANGED <<backend, sessions, mu, req, now, exits>>

(* The process ends: all is answered, the shutdown timeout has passed (it  *)
(* is shorter than a query may take) or it crashes.                        *)
Exit(i) ==
  /\ state[i] # "down" /\ exits < MaxExits
  /\ state' = [state EXCEPT ![i] = "down"]
  /\ exits' = exits + 1
  /\ mu' = [mu EXCEPT ![i] = NoRequest]
  /\ req' = [q \in Requests |->
               IF req[q].at = i /\ req[q].pc \notin {"new", "done"}
               THEN Over(q, "lost") ELSE req[q]]
  /\ sessions' = [sessions EXCEPT ![i] = [k \in Keys |-> {}]]
  /\ UNCHANGED <<backend, now>>

Start(i) ==
  /\ state[i] = "down"
  /\ state' = [state EXCEPT ![i] = "up"]
  /\ UNCHANGED <<backend, sessions, mu, req, now, exits>>

Tick ==
  /\ now < MaxTime
  /\ now' = now + 1
  /\ UNCHANGED <<backend, sessions, state, mu, req, exits>>

-----------------------------------------------------------------------------
Handler(q) ==
  \/ LoadSession(q) \/ LoadFails(q)
  \/ SaveSession(q) \/ SaveFails(q)
  \/ Respond(q)

Next ==
  \/ \E q \in Requests :
       \/ Arrive(q) \/ Refuse(q) \/ Disconnect(q)
       \/ Lock(q) \/ Handler(q) \/ Panic(q)
       \/ AgentEnds(q) \/ QueryReturns(q)
  \/ \E i \in Instances : Shutdown(i) \/ Exit(i) \/ Start(i)
  \/ Tick

Spec == Init /\ [][Next]_vars

(***************************************************************************)
(* Goroutines that can go on do, and time passes.  A Go mutex is handed to *)
(* a waiter that keeps losing it.  The agent returns once its context is   *)
(* done; before, it may hang.                                              *)
(***************************************************************************)
Fairness ==
  /\ WF_vars(Tick)
  /\ \A q \in Requests :
       /\ WF_vars(Handler(q))
       /\ SF_vars(Lock(q))
       /\ WF_vars((Expired(q) \/ req[q].gone) /\ QueryReturns(q))

FairSpec == Spec /\ Fairness

-----------------------------------------------------------------------------
(* Properties                                                              *)

RequestType ==
  [pc : {"new", "waiting", "done", "lost"} \cup Holding,
   at : Instances, user : Users, conv : Convs,
   deadline : 0..MaxTime, began : 0..MaxTime,
   kv : SUBSET Requests, snap : SUBSET Requests, gone : BOOLEAN,
   answer : {"none", "failed", "timeout", "ok"}]

(* Every variable has its type; no process that is down handles a request, *)
(* and a request has an answer from the end of its query, or what went     *)
(* wrong before, until it is written.                                      *)
TypeOK ==
  /\ backend \in Backends
  /\ sessions \in [Stores -> [Keys -> SUBSET Requests]]
  /\ state \in [Instances -> {"up", "draining", "down"}]
  /\ mu \in [Instances -> Requests \cup {NoRequest}]
  /\ req \in [Requests -> RequestType]
  /\ now \in 0..MaxTime /\ exits \in 0..MaxExits
  /\ \A q \in Requests :
       /\ req[q].pc \in {"waiting"} \cup Holding => state[req[q].at] # "down"
       /\ req[q].answer # "none" <=> req[q].pc \in {"saving", "writing"}

(* Queries of a process are serialised (agent-configuration-guide.md:133): *)
(* whoever is past the mutex holds it, on every path to an answer, and     *)
(* who holds it is past it.                                                *)
HoldersHoldTheMutex ==
  /\ \A q \in Requests : req[q].pc \in Holding => mu[req[q].at] = q
  /\ \A i \in Instances : mu[i] # NoRequest => req[mu[i]].at = i /\ req[mu[i]].pc \in Holding

SameConversation(p, q) == req[p].user = req[q].user /\ req[p].conv = req[q].conv

(* Sessions are kept apart by user_id and conversation_id                  *)
(* (agent-configuration-guide.md:130), as far as user_ids have equally     *)
(* many lines, one as a rule: no value crosses over between two such users,*)
(* whatever their conversation_ids, nor between two conversations of one   *)
(* user.  Of <<a>> in <<b, c>> and <<a, b>> in <<c>> it would: they have   *)
(* one key.                                                                *)
LikeUsersAreIsolated ==
  \A s \in Stores, k \in Keys : \A p, q \in sessions[s][k] :
    Len(req[p].user) = Len(req[q].user) => SameConversation(p, q)

(* A stored session never loses a value, however requests, timeouts,       *)
(* panics and restarts interleave; a memory store ends with its process.   *)
SessionsOnlyGrow ==
  [][\A s \in Stores, k \in Keys :
       (s \in Instances => state'[s] # "down") =>
         sessions[s][k] \subseteq sessions'[s][k]]_vars

(* Who is told ok has his values stored: the next request of the           *)
(* conversation finds them.                                                *)
OkMeansSaved ==
  [][\A q \in Requests :
       req[q].pc = "writing" /\ req'[q].pc = "done" /\ req[q].answer = "ok" =>
         req[q].snap \subseteq sessions[StoreOf(req[q].at)][Key(q)]]_vars

(* Everybody who waits is answered, even if every query hangs, unless the  *)
(* process ends.                                                           *)
EveryRequestIsAnswered ==
  \A q \in Requests : req[q].pc = "waiting" ~> req[q].pc \in {"done", "lost"}

(* QueryTimeoutSeconds is "the upper limit of a single agent run"          *)
(* (types.go:47): a client who is told "query timeout" has had a run of    *)
(* that length, unless he hung up or a deadline within the run has passed. *)
TimeoutsAreOfRuns ==
  [][\A q \in Requests :
       /\ req[q].pc = "querying" /\ req'[q].pc = "saving"
       /\ req'[q].answer = "timeout" /\ Expired(q) /\ ~req[q].gone
       => now - req[q].began >= QueryTimeout]_vars

-----------------------------------------------------------------------------
(* A request is stored, in the eyes of SessionService, when it has saved   *)
(* its session.                                                            *)
Status(q) ==
  CASE req[q].pc \in {"new", "waiting", "loading", "querying", "saving"} -> "open"
    [] req[q].pc = "writing" -> IF req[q].answer = "ok" THEN "ok" ELSE "error"
    [] req[q].pc \in {"done", "lost"} -> "over"

Service == INSTANCE SessionService WITH
  Durable <- {"disk"},
  key     <- [q \in Requests |-> Key(q)],
  at      <- [q \in Requests |-> StoreOf(req[q].at)],
  status  <- [q \in Requests |-> Status(q)],
  left    <- {q \in Requests : req[q].snap # {}}

(* Requests that load, work on and write back whole sessions leave the     *)
(* sessions they would leave if each added its value in one step: the      *)
(* mutex of chatHandler (handler.go:102) makes load and save one, as long  *)
(* as no two processes share a store.                                      *)
ImplementsSessionService == Service!Spec
====
