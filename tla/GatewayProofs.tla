---- MODULE GatewayProofs ----
(***************************************************************************)
(* For any number of requests, users, conversations and processes, on both *)
(* stores, with any clock and any number of restarts: the safety           *)
(* properties of Gateway, and that it implements SessionService as long as *)
(* no two processes share a store.                                         *)
(*                                                                         *)
(* IInv holds of any number of processes; TurnInv, which says that the     *)
(* session a request works on is the one that is stored, needs one writer  *)
(* per store.                                                              *)
(***************************************************************************)
EXTENDS Gateway, SequenceTheorems, TLAPS

(* The session stored for the conversation of a request.                   *)
Stored(q) == sessions[StoreOf(req[q].at)][Key(q)]

(* A request sees values of its own conversation only, and so does a       *)
(* session.                                                                *)
KeysInv ==
  /\ \A s \in Stores, k \in Keys : \A q \in sessions[s][k] : Key(q) = k
  /\ \A q \in Requests : \A p \in req[q].kv \cup req[q].snap : Key(p) = Key(q)

IInv ==
  /\ TypeOK
  /\ HoldersHoldTheMutex
  /\ KeysInv

(* While a request has its turn nobody else changes the session it loaded. *)
Turn(q) ==
  /\ req[q].pc \in {"querying", "saving"} => req[q].snap \in {{}, Stored(q) \cup {q}}
  /\ req[q].pc = "querying" => req[q].kv = Stored(q)
  /\ req[q].pc = "saving" => req[q].kv = Stored(q) \cup req[q].snap
  /\ req[q].pc = "writing" /\ req[q].answer = "ok" => req[q].snap \subseteq Stored(q)
  /\ req[q].pc \notin {"querying", "saving", "writing"} => req[q].snap = {}

TurnInv == \A q \in Requests : Turn(q)

(* Each process keeps sessions of its own, or there is but one.            *)
OneWriter == "file" \in Backends => \A i, j \in Instances : i = j

-----------------------------------------------------------------------------
(* Requests on their way                                                   *)

(* r is the request old of the same place, with these fields.              *)
Moved(r, old, pc, kv, snap, answer) ==
  /\ r \in RequestType
  /\ r.at = old.at /\ r.user = old.user /\ r.conv = old.conv
  /\ r.pc = pc /\ r.kv = kv /\ r.snap = snap /\ r.answer = answer

SamePlaces ==
  \A q \in Requests :
    req'[q].at = req[q].at /\ req'[q].user = req[q].user /\ req'[q].conv = req[q].conv

(* A step moves q on like that, and no other request.                      *)
Goes(q, pc, kv, snap, answer) ==
  /\ req' \in [Requests -> RequestType]
  /\ SamePlaces
  /\ \A p \in Requests \ {q} : req'[p] = req[p]
  /\ req'[q].pc = pc /\ req'[q].kv = kv /\ req'[q].snap = snap /\ req'[q].answer = answer

(* A request replaced by one of the same place.                            *)
LEMMA MovedGoes ==
  ASSUME TypeOK, NEW q \in Requests, NEW pc, NEW kv, NEW snap, NEW answer, NEW r,
         Moved(r, req[q], pc, kv, snap, answer), req' = [req EXCEPT ![q] = r]
  PROVE  Goes(q, pc, kv, snap, answer)
<1>1. r \in RequestType /\ req \in [Requests -> RequestType]
  BY DEF TypeOK, Moved
<1>2. req' \in [Requests -> RequestType] /\ req'[q] = r
  BY <1>1
<1>3. \A p \in Requests \ {q} : req'[p] = req[p]
  BY <1>1
<1>. QED
  BY <1>2, <1>3 DEF Moved, Goes, SamePlaces

(* Where a request keeps its session is a place of the stores.             *)
LEMMA PlaceType ==
  ASSUME TypeOK, NEW q \in Requests
  PROVE  Key(q) \in Keys /\ StoreOf(req[q].at) \in Stores /\ Stored(q) \in SUBSET Requests
<1>1. req[q] \in RequestType
  BY DEF TypeOK
<1>2. req[q].user \in Users /\ req[q].conv \in Convs /\ req[q].at \in Instances
  BY <1>1 DEF RequestType
<1>3. Key(q) \in Keys
  BY <1>2 DEF Key, Keys
<1>4. StoreOf(req[q].at) \in Stores
  BY <1>2 DEF StoreOf, Stores
<1>. QED
  BY <1>3, <1>4 DEF TypeOK, Stored

(* Each action that moves a request in two lemmas: ...Record, what it makes *)
(* of the request's record, and ...Goes, how the request goes on.          *)
LEMMA ArriveRecord ==
  ASSUME NEW r \in RequestType, NEW t \in 0..MaxTime
  PROVE  Moved([r EXCEPT !.pc = "waiting", !.deadline = t], r, "waiting", r.kv, r.snap, r.answer)
  BY DEF RequestType, Moved, Holding

LEMMA ArriveGoes ==
  ASSUME TypeOK, NEW q \in Requests, Arrive(q)
  PROVE  Goes(q, "waiting", req[q].kv, req[q].snap, req[q].answer)
<1>. DEFINE r == [req[q] EXCEPT !.pc = "waiting", !.deadline = now + QueryTimeout]
<1>1. req[q] \in RequestType /\ now + QueryTimeout \in 0..MaxTime
  BY GatewayAssumption DEF Arrive, TypeOK
<1>2. Moved(r, req[q], "waiting", req[q].kv, req[q].snap, req[q].answer)
  BY <1>1, ArriveRecord, Zenon
<1>3. req' = [req EXCEPT ![q] = r]
  BY DEF Arrive
<1>. QED
  BY <1>2, <1>3, MovedGoes

LEMMA LockRecord ==
  ASSUME NEW r \in RequestType, NEW t \in 0..MaxTime
  PROVE  Moved([r EXCEPT !.pc = "loading", !.began = t], r, "loading", r.kv, r.snap, r.answer)
  BY DEF RequestType, Moved, Holding

LEMMA LockGoes ==
  ASSUME TypeOK, NEW q \in Requests, Lock(q)
  PROVE  Goes(q, "loading", req[q].kv, req[q].snap, req[q].answer)
<1>. DEFINE r == [req[q] EXCEPT !.pc = "loading", !.began = now]
<1>1. req[q] \in RequestType /\ now \in 0..MaxTime
  BY DEF Lock, TypeOK
<1>2. Moved(r, req[q], "loading", req[q].kv, req[q].snap, req[q].answer)
  BY <1>1, LockRecord, Zenon
<1>3. req' = [req EXCEPT ![q] = r]
  BY DEF Lock
<1>. QED
  BY <1>2, <1>3, MovedGoes

LEMMA LoadSessionRecord ==
  ASSUME NEW r \in RequestType, NEW v \in SUBSET Requests
  PROVE  Moved([r EXCEPT !.pc = "querying", !.kv = v], r, "querying", v, r.snap, r.answer)
  BY DEF RequestType, Moved, Holding

LEMMA LoadSessionGoes ==
  ASSUME TypeOK, NEW q \in Requests, LoadSession(q)
  PROVE  Goes(q, "querying", Stored(q), req[q].snap, req[q].answer)
<1>. DEFINE r == [req[q] EXCEPT !.pc = "querying", !.kv = Stored(q)]
<1>1. req[q] \in RequestType /\ Stored(q) \in SUBSET Requests
  BY PlaceType DEF LoadSession, TypeOK
<1>2. Moved(r, req[q], "querying", Stored(q), req[q].snap, req[q].answer)
  BY <1>1, LoadSessionRecord, Zenon
<1>3. req' = [req EXCEPT ![q] = r]
  BY DEF LoadSession, Stored
<1>. QED
  BY <1>2, <1>3, MovedGoes

LEMMA LoadFailsRecord ==
  ASSUME NEW r \in RequestType
  PROVE  Moved([r EXCEPT !.pc = "writing", !.answer = "failed"], r, "writing", r.kv, r.snap, "failed")
  BY DEF RequestType, Moved, Holding

LEMMA LoadFailsGoes ==
  ASSUME TypeOK, NEW q \in Requests, LoadFails(q)
  PROVE  Goes(q, "writing", req[q].kv, req[q].snap, "failed")
<1>. DEFINE r == [req[q] EXCEPT !.pc = "writing", !.answer = "failed"]
<1>1. req[q] \in RequestType
  BY DEF LoadFails, TypeOK
<1>2. Moved(r, req[q], "writing", req[q].kv, req[q].snap, "failed")
  BY <1>1, LoadFailsRecord, Zenon
<1>3. req' = [req EXCEPT ![q] = r]
  BY DEF LoadFails
<1>. QED
  BY <1>2, <1>3, MovedGoes

LEMMA AgentEndsRecord ==
  ASSUME NEW r \in RequestType, NEW v \in SUBSET Requests, r.pc = "querying"
  PROVE  Moved([r EXCEPT !.snap = v], r, "querying", r.kv, v, r.answer)
  BY DEF RequestType, Moved, Holding

LEMMA AgentEndsGoes ==
  ASSUME TypeOK, NEW q \in Requests, AgentEnds(q)
  PROVE  Goes(q, "querying", req[q].kv, req[q].kv \cup {q}, req[q].answer)
<1>. DEFINE r == [req[q] EXCEPT !.snap = req[q].kv \cup {q}]
<1>1. req[q] \in RequestType /\ req[q].pc = "querying" /\ req[q].kv \cup {q} \in SUBSET Requests
  BY DEF AgentEnds, TypeOK, RequestType
<1>2. Moved(r, req[q], "querying", req[q].kv, req[q].kv \cup {q}, req[q].answer)
  BY <1>1, AgentEndsRecord, Zenon
<1>3. req' = [req EXCEPT ![q] = r]
  BY DEF AgentEnds
<1>. QED
  BY <1>2, <1>3, MovedGoes

LEMMA SaveSessionRecord ==
  ASSUME NEW r \in RequestType
  PROVE  Moved([r EXCEPT !.pc = "writing"], r, "writing", r.kv, r.snap, r.answer)
  BY DEF RequestType, Moved, Holding

LEMMA SaveSessionGoes ==
  ASSUME TypeOK, NEW q \in Requests, SaveSession(q)
  PROVE  Goes(q, "writing", req[q].kv, req[q].snap, req[q].answer)
<1>. DEFINE r == [req[q] EXCEPT !.pc = "writing"]
<1>1. req[q] \in RequestType
  BY DEF SaveSession, TypeOK
<1>2. Moved(r, req[q], "writing", req[q].kv, req[q].snap, req[q].answer)
  BY <1>1, SaveSessionRecord, Zenon
<1>3. req' = [req EXCEPT ![q] = r]
  BY DEF SaveSession
<1>. QED
  BY <1>2, <1>3, MovedGoes

LEMMA SaveFailsRecord ==
  ASSUME NEW r \in RequestType
  PROVE  Moved([r EXCEPT !.pc = "writing", !.answer = "failed"], r, "writing", r.kv, r.snap, "failed")
  BY DEF RequestType, Moved, Holding

LEMMA SaveFailsGoes ==
  ASSUME TypeOK, NEW q \in Requests, SaveFails(q)
  PROVE  Goes(q, "writing", req[q].kv, req[q].snap, "failed")
<1>. DEFINE r == [req[q] EXCEPT !.pc = "writing", !.answer = "failed"]
<1>1. req[q] \in RequestType
  BY DEF SaveFails, TypeOK
<1>2. Moved(r, req[q], "writing", req[q].kv, req[q].snap, "failed")
  BY <1>1, SaveFailsRecord, Zenon
<1>3. req' = [req EXCEPT ![q] = r]
  BY DEF SaveFails
<1>. QED
  BY <1>2, <1>3, MovedGoes

LEMMA DisconnectRecord ==
  ASSUME NEW r \in RequestType
  PROVE  Moved([r EXCEPT !.gone = TRUE], r, r.pc, r.kv, r.snap, r.answer)
  BY DEF RequestType, Moved, Holding

LEMMA DisconnectGoes ==
  ASSUME TypeOK, NEW q \in Requests, Disconnect(q)
  PROVE  Goes(q, req[q].pc, req[q].kv, req[q].snap, req[q].answer)
<1>. DEFINE r == [req[q] EXCEPT !.gone = TRUE]
<1>1. req[q] \in RequestType
  BY DEF Disconnect, TypeOK
<1>2. Moved(r, req[q], req[q].pc, req[q].kv, req[q].snap, req[q].answer)
  BY <1>1, DisconnectRecord, Zenon
<1>3. req' = [req EXCEPT ![q] = r]
  BY DEF Disconnect
<1>. QED
  BY <1>2, <1>3, MovedGoes

LEMMA QueryReturnsRecord ==
  ASSUME NEW r \in RequestType, NEW v \in SUBSET Requests, NEW a \in {"ok", "timeout", "failed"}
  PROVE  Moved([r EXCEPT !.pc = "saving", !.answer = a, !.kv = v], r, "saving", v, r.snap, a)
  BY DEF RequestType, Moved, Holding

LEMMA QueryReturnsGoes ==
  ASSUME TypeOK, NEW q \in Requests, QueryReturns(q)
  PROVE  \E a \in {"ok", "timeout", "failed"} : Goes(q, "saving", req[q].kv \cup req[q].snap, req[q].snap, a)
<1>1. PICK a \in {"ok", "timeout", "failed"} :
        req' = [req EXCEPT ![q].pc = "saving", ![q].answer = a, ![q].kv = @ \cup req[q].snap]
  BY DEF QueryReturns, ErrorAnswers
<1>. DEFINE v == req[q].kv \cup req[q].snap
            r == [req[q] EXCEPT !.pc = "saving", !.answer = a, !.kv = v]
<1>2. req[q] \in RequestType
  BY DEF TypeOK
<1>3. v \in SUBSET Requests
  BY <1>2 DEF RequestType
<1>4. Moved(r, req[q], "saving", v, req[q].snap, a)
  BY <1>2, <1>3, QueryReturnsRecord, Zenon
<1>5. req' = [req EXCEPT ![q] = r]
  BY <1>1
<1>. QED
  BY <1>4, <1>5, MovedGoes

(* What is left of a request that is over.                                 *)
LEMMA OverMoved ==
  ASSUME TypeOK, NEW q \in Requests, NEW pc \in {"done", "lost"}
  PROVE  Moved(Over(q, pc), req[q], pc, {}, {}, "none")
<1>. DEFINE n == NewRequest(req[q].user, req[q].conv, req[q].at)
<1>1. \A u \in Users, c \in Convs, i \in Instances : NewRequest(u, c, i) \in RequestType
  BY GatewayAssumption DEF RequestType, NewRequest
<1>2. req[q] \in RequestType
  BY DEF TypeOK
<1>3. req[q].user \in Users /\ req[q].conv \in Convs /\ req[q].at \in Instances
  BY <1>2 DEF RequestType
<1>4. /\ n.at = req[q].at /\ n.user = req[q].user /\ n.conv = req[q].conv
      /\ n.kv = {} /\ n.snap = {} /\ n.answer = "none"
  BY DEF NewRequest
<1>5. n \in RequestType
  BY <1>1, <1>3
<1>. HIDE DEF n
<1>6. Moved([n EXCEPT !.pc = pc], req[q], pc, {}, {}, "none")
  BY <1>4, <1>5 DEF RequestType, Moved
<1>. QED
  BY <1>6 DEF Over, n

LEMMA OverGoes ==
  ASSUME TypeOK, NEW q \in Requests, Refuse(q) \/ Respond(q) \/ Panic(q)
  PROVE  Goes(q, "done", {}, {}, "none")
<1>1. req' = [req EXCEPT ![q] = Over(q, "done")]
  BY DEF Refuse, Respond, Panic
<1>. QED
  BY <1>1, OverMoved, MovedGoes

(* The end of a process moves its requests on its own.                     *)
Loses(i) == {q \in Requests : req[q].at = i /\ req[q].pc \notin {"new", "done"}}

LEMMA ExitMoves ==
  ASSUME TypeOK, NEW i \in Instances, Exit(i)
  PROVE  /\ req' \in [Requests -> RequestType]
         /\ SamePlaces
         /\ \A q \in Loses(i) : Moved(req'[q], req[q], "lost", {}, {}, "none")
         /\ \A q \in Requests \ Loses(i) : req'[q] = req[q]
<1>1. \A q \in Loses(i) : req'[q] = Over(q, "lost")
  BY DEF Exit, Loses
<1>2. \A q \in Loses(i) : Moved(req'[q], req[q], "lost", {}, {}, "none")
  BY <1>1, OverMoved DEF Loses
<1>3. \A q \in Requests \ Loses(i) : req'[q] = req[q]
  BY DEF Exit, Loses
<1>4. \A q \in Requests : req[q] \in RequestType
  BY DEF TypeOK
<1>5. \A q \in Requests : req'[q] \in RequestType
  BY <1>2, <1>3, <1>4 DEF Moved
<1>6. req' = [q \in Requests |-> req'[q]]
  BY DEF Exit
<1>7. SamePlaces
  BY <1>2, <1>3 DEF Moved, SamePlaces
<1>. QED
  BY <1>2, <1>3, <1>5, <1>6, <1>7

-----------------------------------------------------------------------------
(* The inductive invariant                                                 *)

Moving == {"waiting"} \cup Holding

(* Places do not move, so neither do keys.                                 *)
LEMMA SameKeys ==
  ASSUME SamePlaces
  PROVE  \A q \in Requests : Key(q)' = Key(q)
  BY DEF SamePlaces, Key, SessionKey

(* A step of one request keeps the types.                                  *)
LEMMA TypeAfter ==
  ASSUME TypeOK, NEW q \in Requests, NEW pc, NEW kv, NEW snap, NEW answer,
         Goes(q, pc, kv, snap, answer), UNCHANGED <<backend, state, now, exits>>,
         pc \in Moving => req[q].pc \in Moving \/ state[req[q].at] = "up",
         answer # "none" <=> pc \in {"saving", "writing"},
         sessions' \in [Stores -> [Keys -> SUBSET Requests]],
         mu' \in [Instances -> Requests \cup {NoRequest}]
  PROVE  TypeOK'
<1>1. \A p \in Requests : req'[p].pc \in Moving => state'[req'[p].at] # "down"
  <2>. SUFFICES ASSUME NEW p \in Requests, req'[p].pc \in Moving
                PROVE  state[req[p].at] # "down"
    BY DEF Goes, SamePlaces
  <2>1. CASE p = q
    BY <2>1 DEF Goes, TypeOK, Moving
  <2>2. CASE p # q
    BY <2>2 DEF Goes, TypeOK, Moving
  <2>. QED
    BY <2>1, <2>2
<1>2. \A p \in Requests : req'[p].answer # "none" <=> req'[p].pc \in {"saving", "writing"}
  BY DEF Goes, TypeOK
<1>. QED
  BY <1>1, <1>2 DEF TypeOK, Goes, Moving

(* A request that neither gets nor gives up the mutex.                     *)
LEMMA HoldersAfter ==
  ASSUME TypeOK, HoldersHoldTheMutex, NEW q \in Requests, NEW pc, NEW kv, NEW snap, NEW answer,
         Goes(q, pc, kv, snap, answer), mu' = mu,
         pc \in Holding <=> req[q].pc \in Holding
  PROVE  HoldersHoldTheMutex'
<1>1. \A p \in Requests : /\ req'[p].at = req[p].at
                          /\ req'[p].pc \in Holding <=> req[p].pc \in Holding
  BY DEF Goes, SamePlaces
<1>2. \A i \in Instances : mu[i] # NoRequest => mu[i] \in Requests
  BY DEF TypeOK
<1>. QED
  BY <1>1, <1>2 DEF HoldersHoldTheMutex

(* A request that gives it up.                                             *)
LEMMA HoldersAfterUnlock ==
  ASSUME TypeOK, HoldersHoldTheMutex, NEW q \in Requests, NEW kv, NEW snap, NEW answer,
         Goes(q, "done", kv, snap, answer), req[q].pc \in Holding, Unlock(req[q].at)
  PROVE  HoldersHoldTheMutex'
<1>1. /\ req[q].at \in Instances /\ mu[req[q].at] = q
      /\ \A p \in Requests : req[p].at \in Instances
  <2>1. \A p \in Requests : req[p] \in RequestType
    BY DEF TypeOK
  <2>. QED
    BY <2>1 DEF HoldersHoldTheMutex, RequestType
<1>2. \A i \in Instances : mu'[i] = IF i = req[q].at THEN NoRequest ELSE mu[i]
  BY <1>1 DEF Unlock, TypeOK
<1>3. \A p \in Requests \ {q} : req'[p] = req[p]
  BY DEF Goes
<1>4. req'[q].pc = "done" /\ "done" \notin Holding
  BY DEF Goes, Holding
<1>5. \A p \in Requests : req'[p].pc \in Holding => mu'[req'[p].at] = p
  BY <1>1, <1>2, <1>3, <1>4 DEF HoldersHoldTheMutex
<1>6. \A i \in Instances : mu[i] # NoRequest => mu[i] \in Requests
  BY DEF TypeOK
<1>7. \A i \in Instances : mu'[i] # NoRequest =>
        req'[mu'[i]].at = i /\ req'[mu'[i]].pc \in Holding
  BY <1>1, <1>2, <1>3, <1>6 DEF HoldersHoldTheMutex
<1>. QED
  BY <1>5, <1>7 DEF HoldersHoldTheMutex

(* Values of one conversation only, where no session is written.           *)
LEMMA KeysAfter ==
  ASSUME TypeOK, KeysInv, NEW q \in Requests, NEW pc, NEW kv \in SUBSET Requests,
         NEW snap \in SUBSET Requests, NEW answer,
         Goes(q, pc, kv, snap, answer), sessions' = sessions,
         \A p \in kv \cup snap : Key(p) = Key(q)
  PROVE  KeysInv'
<1>1. \A p \in Requests : Key(p)' = Key(p)
  BY SameKeys DEF Goes
<1>2. \A s \in Stores, k \in Keys : \A p \in sessions[s][k] : p \in Requests
  BY DEF TypeOK
<1>3. \A s \in Stores, k \in Keys : \A p \in sessions'[s][k] : Key(p)' = k
  BY <1>1, <1>2 DEF KeysInv
<1>4. \A p \in Requests : req[p].kv \cup req[p].snap \in SUBSET Requests
  BY DEF TypeOK, RequestType
<1>5. \A r \in Requests : \A p \in req'[r].kv \cup req'[r].snap : Key(p)' = Key(r)'
  BY <1>1, <1>4 DEF KeysInv, Goes
<1>. QED
  BY <1>3, <1>5 DEF KeysInv

(* The start of a turn.                                                    *)
LEMMA HoldersAfterLock ==
  ASSUME TypeOK, HoldersHoldTheMutex, NEW q \in Requests, Lock(q)
  PROVE  HoldersHoldTheMutex'
<1>1. Goes(q, "loading", req[q].kv, req[q].snap, req[q].answer)
  BY LockGoes
<1>2. \A p \in Requests : req[p].at \in Instances
  BY DEF TypeOK, RequestType
<1>3. \A i \in Instances : mu'[i] = IF i = req[q].at THEN q ELSE mu[i]
  BY <1>2 DEF Lock, TypeOK
<1>4. \A p \in Requests \ {q} : req'[p] = req[p] /\ mu[req[q].at] # p
  BY <1>1, GatewayAssumption DEF Goes, Lock
<1>5. req'[q].pc \in Holding /\ req'[q].at = req[q].at
  BY <1>1 DEF Goes, SamePlaces, Holding
<1>6. \A p \in Requests : req'[p].pc \in Holding => mu'[req'[p].at] = p
  BY <1>2, <1>3, <1>4, <1>5 DEF HoldersHoldTheMutex
<1>7. \A i \in Instances : mu[i] # NoRequest => mu[i] \in Requests
  BY DEF TypeOK
<1>8. req[q].pc \notin Holding
  BY DEF Lock, Holding
<1>9. \A i \in Instances : mu'[i] # NoRequest =>
        req'[mu'[i]].at = i /\ req'[mu'[i]].pc \in Holding
  BY <1>3, <1>4, <1>5, <1>7, <1>8 DEF HoldersHoldTheMutex
<1>. QED
  BY <1>6, <1>9 DEF HoldersHoldTheMutex

(* A save puts values of one conversation in its place.                    *)
LEMMA KeysAfterSave ==
  ASSUME TypeOK, KeysInv, NEW q \in Requests, SaveSession(q)
  PROVE  KeysInv'
<1>1. Goes(q, "writing", req[q].kv, req[q].snap, req[q].answer)
  BY SaveSessionGoes
<1>2. \A p \in Requests : Key(p)' = Key(p)
  BY <1>1, SameKeys DEF Goes
<1>3. \A p \in Requests : req[p].kv \cup req[p].snap \in SUBSET Requests
  BY DEF TypeOK, RequestType
<1>4. \A s \in Stores, k \in Keys :
        sessions'[s][k] = IF s = StoreOf(req[q].at) /\ k = Key(q) THEN req[q].kv ELSE sessions[s][k]
  BY PlaceType DEF SaveSession, TypeOK
<1>5. \A s \in Stores, k \in Keys : \A p \in sessions[s][k] : p \in Requests
  BY DEF TypeOK
<1>6. \A s \in Stores, k \in Keys : \A p \in sessions'[s][k] : Key(p)' = k
  BY <1>2, <1>3, <1>4, <1>5 DEF KeysInv
<1>7. \A r \in Requests : \A p \in req'[r].kv \cup req'[r].snap : Key(p)' = Key(r)'
  BY <1>1, <1>2, <1>3 DEF KeysInv, Goes
<1>. QED
  BY <1>6, <1>7 DEF KeysInv

(* The end of a process: its mutex is free and its requests are over.      *)
LEMMA ExitKeeps ==
  ASSUME IInv, NEW i \in Instances, Exit(i)
  PROVE  IInv'
<1>. USE DEF IInv
<1>1. /\ req' \in [Requests -> RequestType]
      /\ SamePlaces
      /\ \A q \in Loses(i) : Moved(req'[q], req[q], "lost", {}, {}, "none")
      /\ \A q \in Requests \ Loses(i) : req'[q] = req[q]
  BY ExitMoves
<1>2. \A q \in Requests : req[q] \in RequestType /\ req[q].at \in Instances
  BY DEF TypeOK, RequestType
<1>3. \A q \in Requests : req'[q].pc \in Moving => req'[q] = req[q] /\ req[q].at # i
  <2>1. \A q \in Loses(i) : req'[q].pc \notin Moving
    BY <1>1 DEF Moved, Moving, Holding
  <2>2. \A q \in Requests \ Loses(i) : req[q].pc \in Moving => req[q].at # i
    BY DEF Loses, Moving, Holding
  <2>. QED
    BY <1>1, <2>1, <2>2
<1>4. \A j \in Instances : /\ state'[j] = IF j = i THEN "down" ELSE state[j]
                           /\ mu'[j] = IF j = i THEN NoRequest ELSE mu[j]
  BY DEF Exit, TypeOK
<1>5. TypeOK'
  <2>1. /\ state' \in [Instances -> {"up", "draining", "down"}]
        /\ mu' \in [Instances -> Requests \cup {NoRequest}]
        /\ backend' \in Backends /\ now' \in 0..MaxTime
    BY DEF Exit, TypeOK
  <2>2. sessions' \in [Stores -> [Keys -> SUBSET Requests]]
    BY DEF Exit, TypeOK
  <2>3. exits' \in 0..MaxExits
    BY GatewayAssumption DEF Exit, TypeOK
  <2>4. \A q \in Requests : req'[q].pc \in Moving => state'[req'[q].at] # "down"
    BY <1>2, <1>3, <1>4 DEF TypeOK, Moving
  <2>5. \A q \in Loses(i) : req'[q].answer = "none" /\ req'[q].pc = "lost"
    BY <1>1 DEF Moved
  <2>6. \A q \in Requests : req'[q].answer # "none" <=> req'[q].pc \in {"saving", "writing"}
    BY <1>1, <2>5 DEF TypeOK
  <2>. QED
    BY <1>1, <2>1, <2>2, <2>3, <2>4, <2>6 DEF TypeOK, Moving
<1>6. HoldersHoldTheMutex'
  <2>1. \A q \in Requests : req'[q].pc \in Holding => mu'[req'[q].at] = q
    BY <1>2, <1>3, <1>4 DEF HoldersHoldTheMutex, Moving
  <2>2. \A j \in Instances : mu[j] # NoRequest => mu[j] \in Requests
    BY DEF TypeOK
  <2>3. ASSUME NEW j \in Instances, mu'[j] # NoRequest
        PROVE  req'[mu'[j]].at = j /\ req'[mu'[j]].pc \in Holding
    <3>1. j # i /\ mu'[j] = mu[j]
      BY <2>3, <1>4
    <3>2. mu[j] \notin Loses(i)
      BY <2>3, <3>1 DEF Loses, HoldersHoldTheMutex
    <3>. QED
      BY <1>1, <2>2, <2>3, <3>1, <3>2 DEF HoldersHoldTheMutex
  <2>. QED
    BY <2>1, <2>3 DEF HoldersHoldTheMutex
<1>7. KeysInv'
  <2>1. \A q \in Requests : Key(q)' = Key(q)
    BY <1>1, SameKeys
  <2>2. \A s \in Stores, k \in Keys : sessions'[s][k] \in {sessions[s][k], {}}
    BY DEF Exit, TypeOK
  <2>3. \A s \in Stores, k \in Keys : \A p \in sessions[s][k] : p \in Requests
    BY DEF TypeOK
  <2>4. \A s \in Stores, k \in Keys : \A p \in sessions'[s][k] : Key(p)' = k
    BY <2>1, <2>2, <2>3 DEF KeysInv
  <2>5. \A q \in Requests : /\ req'[q].kv \cup req'[q].snap \subseteq req[q].kv \cup req[q].snap
                            /\ req[q].kv \cup req[q].snap \in SUBSET Requests
    BY <1>1, <1>2 DEF Moved, RequestType
  <2>6. \A q \in Requests : \A p \in req'[q].kv \cup req'[q].snap : Key(p)' = Key(q)'
    BY <2>1, <2>5 DEF KeysInv
  <2>. QED
    BY <2>4, <2>6 DEF KeysInv
<1>. QED
  BY <1>5, <1>6, <1>7

LEMMA IInvInit == Init => IInv
<1>. SUFFICES ASSUME Init PROVE IInv
  OBVIOUS
<1>1. PICK u \in [Requests -> Users], c \in [Requests -> Convs], i \in [Requests -> Instances] :
        req = [q \in Requests |-> NewRequest(u[q], c[q], i[q])]
  <2>. DEFINE new == { NewRequest(u, c, i) : u \in Users, c \in Convs, i \in Instances }
  <2>1. \A q \in Requests : req[q] \in new
    BY DEF Init
  <2>2. \A n \in new : n.user \in Users /\ n.conv \in Convs /\ n.at \in Instances
                       /\ n = NewRequest(n.user, n.conv, n.at)
    BY DEF NewRequest
  <2>. DEFINE u == [q \in Requests |-> req[q].user]
              c == [q \in Requests |-> req[q].conv]
              i == [q \in Requests |-> req[q].at]
  <2>3. u \in [Requests -> Users] /\ c \in [Requests -> Convs] /\ i \in [Requests -> Instances]
    BY <2>1, <2>2
  <2>4. req = [q \in Requests |-> NewRequest(u[q], c[q], i[q])]
    BY <2>1, <2>2 DEF Init
  <2>. QED
    BY <2>3, <2>4
<1>2. \A q \in Requests : /\ req[q] \in RequestType
                          /\ req[q].pc = "new" /\ req[q].kv = {} /\ req[q].snap = {}
                          /\ req[q].answer = "none"
  BY <1>1, GatewayAssumption DEF NewRequest, RequestType
<1>3. TypeOK
  BY <1>1, <1>2, GatewayAssumption DEF Init, TypeOK, Holding
<1>4. HoldersHoldTheMutex
  BY <1>2 DEF Init, HoldersHoldTheMutex, Holding
<1>5. KeysInv
  BY <1>2 DEF Init, KeysInv
<1>. QED
  BY <1>3, <1>4, <1>5 DEF IInv

(* One step for each action, and under it one for each conjunct.           *)
LEMMA IInvStep == IInv /\ [Next]_vars => IInv'
<1>. SUFFICES ASSUME IInv, [Next]_vars PROVE IInv'
  OBVIOUS
<1>. USE DEF IInv
<1>0. \A q \in Requests : /\ req[q].kv \in SUBSET Requests /\ req[q].snap \in SUBSET Requests
                          /\ \A p \in req[q].kv \cup req[q].snap : Key(p) = Key(q)
                          /\ req[q].at \in Instances
  BY DEF TypeOK, RequestType, KeysInv
<1>1. ASSUME NEW q \in Requests, Arrive(q) PROVE IInv'
  <2>1. Goes(q, "waiting", req[q].kv, req[q].snap, req[q].answer)
    BY <1>1, ArriveGoes
  <2>2. TypeOK'
    BY <1>1, <2>1, TypeAfter DEF Arrive, TypeOK, Moving, Holding
  <2>3. HoldersHoldTheMutex'
    BY <1>1, <2>1, HoldersAfter DEF Arrive, Holding
  <2>4. KeysInv'
    BY <1>0, <1>1, <2>1, KeysAfter DEF Arrive
  <2>. QED
    BY <2>2, <2>3, <2>4
<1>2. ASSUME NEW q \in Requests, Refuse(q) PROVE IInv'
  <2>1. Goes(q, "done", {}, {}, "none")
    BY <1>2, OverGoes
  <2>2. TypeOK'
    BY <1>2, <2>1, TypeAfter DEF Refuse, TypeOK, Moving, Holding
  <2>3. HoldersHoldTheMutex'
    BY <1>2, <2>1, HoldersAfter DEF Refuse, Holding
  <2>4. KeysInv'
    BY <1>0, <1>2, <2>1, KeysAfter DEF Refuse
  <2>. QED
    BY <2>2, <2>3, <2>4
<1>3. ASSUME NEW q \in Requests, Disconnect(q) PROVE IInv'
  <2>1. Goes(q, req[q].pc, req[q].kv, req[q].snap, req[q].answer)
    BY <1>3, DisconnectGoes
  <2>2. TypeOK'
    BY <1>3, <2>1, TypeAfter DEF Disconnect, TypeOK, Moving, Holding
  <2>3. HoldersHoldTheMutex'
    BY <1>3, <2>1, HoldersAfter DEF Disconnect, Holding
  <2>4. KeysInv'
    BY <1>0, <1>3, <2>1, KeysAfter DEF Disconnect
  <2>. QED
    BY <2>2, <2>3, <2>4
<1>4. ASSUME NEW q \in Requests, Lock(q) PROVE IInv'
  <2>1. Goes(q, "loading", req[q].kv, req[q].snap, req[q].answer)
    BY <1>4, LockGoes
  <2>2. TypeOK'
    BY <1>4, <2>1, TypeAfter, <1>0 DEF Lock, TypeOK, Moving, Holding
  <2>3. HoldersHoldTheMutex'
    BY <1>4, HoldersAfterLock
  <2>4. KeysInv'
    BY <1>0, <1>4, <2>1, KeysAfter DEF Lock
  <2>. QED
    BY <2>2, <2>3, <2>4
<1>5. ASSUME NEW q \in Requests, LoadSession(q) PROVE IInv'
  <2>1. Goes(q, "querying", Stored(q), req[q].snap, req[q].answer)
    BY <1>5, LoadSessionGoes
  <2>2. TypeOK'
    BY <1>5, <2>1, TypeAfter DEF LoadSession, TypeOK, Moving, Holding
  <2>3. HoldersHoldTheMutex'
    BY <1>5, <2>1, HoldersAfter DEF LoadSession, Holding
  <2>4. Stored(q) \in SUBSET Requests /\ \A p \in Stored(q) : Key(p) = Key(q)
    BY PlaceType DEF Stored, KeysInv
  <2>5. KeysInv'
    BY <1>0, <1>5, <2>1, <2>4, KeysAfter DEF LoadSession
  <2>. QED
    BY <2>2, <2>3, <2>5
<1>6. ASSUME NEW q \in Requests, LoadFails(q) PROVE IInv'
  <2>1. Goes(q, "writing", req[q].kv, req[q].snap, "failed")
    BY <1>6, LoadFailsGoes
  <2>2. TypeOK'
    BY <1>6, <2>1, TypeAfter DEF LoadFails, TypeOK, Moving, Holding
  <2>3. HoldersHoldTheMutex'
    BY <1>6, <2>1, HoldersAfter DEF LoadFails, Holding
  <2>4. KeysInv'
    BY <1>0, <1>6, <2>1, KeysAfter DEF LoadFails
  <2>. QED
    BY <2>2, <2>3, <2>4
<1>7. ASSUME NEW q \in Requests, SaveSession(q) PROVE IInv'
  <2>1. Goes(q, "writing", req[q].kv, req[q].snap, req[q].answer)
    BY <1>7, SaveSessionGoes
  <2>2. TypeOK'
    BY <1>7, <2>1, TypeAfter, PlaceType, <1>0 DEF SaveSession, TypeOK, Moving, Holding
  <2>3. HoldersHoldTheMutex'
    BY <1>7, <2>1, HoldersAfter DEF SaveSession, Holding
  <2>4. KeysInv'
    BY <1>7, KeysAfterSave
  <2>. QED
    BY <2>2, <2>3, <2>4
<1>8. ASSUME NEW q \in Requests, SaveFails(q) PROVE IInv'
  <2>1. Goes(q, "writing", req[q].kv, req[q].snap, "failed")
    BY <1>8, SaveFailsGoes
  <2>2. TypeOK'
    BY <1>8, <2>1, TypeAfter DEF SaveFails, TypeOK, Moving, Holding
  <2>3. HoldersHoldTheMutex'
    BY <1>8, <2>1, HoldersAfter DEF SaveFails, Holding
  <2>4. KeysInv'
    BY <1>0, <1>8, <2>1, KeysAfter DEF SaveFails
  <2>. QED
    BY <2>2, <2>3, <2>4
<1>9. ASSUME NEW q \in Requests, Respond(q) PROVE IInv'
  <2>1. Goes(q, "done", {}, {}, "none")
    BY <1>9, OverGoes
  <2>2. TypeOK'
    BY <1>9, <2>1, TypeAfter, <1>0 DEF Respond, TypeOK, Moving, Holding, Unlock
  <2>3. HoldersHoldTheMutex'
    BY <1>9, <2>1, HoldersAfterUnlock DEF Respond, Holding
  <2>4. KeysInv'
    BY <1>0, <1>9, <2>1, KeysAfter DEF Respond
  <2>. QED
    BY <2>2, <2>3, <2>4
<1>10. ASSUME NEW q \in Requests, Panic(q) PROVE IInv'
  <2>1. Goes(q, "done", {}, {}, "none")
    BY <1>10, OverGoes
  <2>2. TypeOK'
    BY <1>10, <2>1, TypeAfter, <1>0 DEF Panic, TypeOK, Moving, Holding, Unlock
  <2>3. HoldersHoldTheMutex'
    BY <1>10, <2>1, HoldersAfterUnlock DEF Panic, Holding
  <2>4. KeysInv'
    BY <1>0, <1>10, <2>1, KeysAfter DEF Panic
  <2>. QED
    BY <2>2, <2>3, <2>4
<1>11. ASSUME NEW q \in Requests, AgentEnds(q) PROVE IInv'
  <2>1. Goes(q, "querying", req[q].kv, req[q].kv \cup {q}, req[q].answer)
    BY <1>11, AgentEndsGoes
  <2>2. TypeOK'
    BY <1>11, <2>1, TypeAfter DEF AgentEnds, TypeOK, Moving, Holding
  <2>3. HoldersHoldTheMutex'
    BY <1>11, <2>1, HoldersAfter DEF AgentEnds, Holding
  <2>4. KeysInv'
    BY <1>0, <1>11, <2>1, KeysAfter DEF AgentEnds
  <2>. QED
    BY <2>2, <2>3, <2>4
<1>12. ASSUME NEW q \in Requests, QueryReturns(q) PROVE IInv'
  <2>1. PICK a \in {"ok", "timeout", "failed"} :
               Goes(q, "saving", req[q].kv \cup req[q].snap, req[q].snap, a)
    BY <1>12, QueryReturnsGoes
  <2>2. TypeOK'
    <3>1. a # "none" /\ req[q].pc \in Moving
      BY <1>12, <2>1 DEF QueryReturns, Moving, Holding
    <3>2. /\ UNCHANGED <<backend, state, now, exits>>
          /\ sessions' \in [Stores -> [Keys -> SUBSET Requests]]
          /\ mu' \in [Instances -> Requests \cup {NoRequest}]
      BY <1>12 DEF QueryReturns, TypeOK
    <3>. QED
      BY <2>1, <3>1, <3>2, TypeAfter
  <2>3. HoldersHoldTheMutex'
    BY <1>12, <2>1, HoldersAfter DEF QueryReturns, Holding
  <2>4. KeysInv'
    BY <1>0, <1>12, <2>1, KeysAfter DEF QueryReturns
  <2>. QED
    BY <2>2, <2>3, <2>4
<1>13. ASSUME NEW i \in Instances, Exit(i) PROVE IInv'
  BY <1>13, ExitKeeps
<1>14. ASSUME NEW i \in Instances, Shutdown(i) \/ Start(i) PROVE IInv'
  <2>1. TypeOK'
    BY <1>14, <1>0 DEF Shutdown, Start, TypeOK
  <2>2. HoldersHoldTheMutex' /\ KeysInv'
    BY <1>14 DEF Shutdown, Start, HoldersHoldTheMutex, KeysInv, Key
  <2>. QED
    BY <2>1, <2>2
<1>15. CASE Tick
  <2>1. TypeOK'
    BY <1>15, GatewayAssumption DEF Tick, TypeOK
  <2>2. HoldersHoldTheMutex' /\ KeysInv'
    BY <1>15 DEF Tick, HoldersHoldTheMutex, KeysInv, Key
  <2>. QED
    BY <2>1, <2>2
<1>16. CASE UNCHANGED vars
  BY <1>16 DEF vars, TypeOK, HoldersHoldTheMutex, KeysInv, Key
<1>. QED
  BY <1>1, <1>2, <1>3, <1>4, <1>5, <1>6, <1>7, <1>8, <1>9, <1>10, <1>11, <1>12, <1>13, <1>14, <1>15, <1>16 DEF Next, Handler

-----------------------------------------------------------------------------
(* The invariants of any number of processes                               *)

LEMMA IInvHolds == Spec => []IInv
  BY IInvInit, IInvStep, PTL DEF Spec

(* The types of every variable, and a request is under way only in a       *)
(* process that is not down.                                               *)
THEOREM TypeCorrect == Spec => []TypeOK
<1>1. IInv => TypeOK
  BY DEF IInv
<1>. QED
  BY <1>1, IInvHolds, PTL

(* chatHandler serialises the queries of its process, on every path.       *)
THEOREM MutexIsHeld == Spec => []HoldersHoldTheMutex
<1>1. IInv => HoldersHoldTheMutex
  BY DEF IInv
<1>. QED
  BY <1>1, IInvHolds, PTL

(* Where the first part of a sequence ends its length tells.               *)
LEMMA PartsOfEqualLength ==
  ASSUME NEW S, NEW u \in Seq(S), NEW c \in Seq(S), NEW v \in Seq(S), NEW d \in Seq(S),
         u \o c = v \o d, Len(u) = Len(v)
  PROVE  u = v /\ c = d
<1>1. /\ Len(u \o c) = Len(u) + Len(c)
      /\ \A k \in 1..Len(u) + Len(c) :
           (u \o c)[k] = IF k <= Len(u) THEN u[k] ELSE c[k - Len(u)]
  BY ConcatProperties
<1>2. /\ Len(v \o d) = Len(v) + Len(d)
      /\ \A k \in 1..Len(v) + Len(d) :
           (v \o d)[k] = IF k <= Len(v) THEN v[k] ELSE d[k - Len(v)]
  BY ConcatProperties
<1>3. Len(u) \in Nat /\ Len(c) \in Nat /\ Len(c) = Len(d)
  <2>1. Len(u) \in Nat /\ Len(c) \in Nat /\ Len(d) \in Nat
    OBVIOUS
  <2>. QED
    BY <1>1, <1>2, <2>1
<1>4. u = v
  <2>1. \A k \in 1..Len(u) : u[k] = v[k]
    BY <1>1, <1>2, <1>3
  <2>. QED
    BY <2>1
<1>5. c = d
  <2>1. ASSUME NEW k \in 1..Len(c) PROVE c[k] = d[k]
    <3>1. Len(u) + k \in 1..Len(u) + Len(c) /\ ~(Len(u) + k <= Len(u)) /\ (Len(u) + k) - Len(u) = k
      BY <1>3
    <3>. QED
      BY <1>1, <1>2, <1>3, <3>1
  <2>. QED
    BY <1>3, <2>1
<1>. QED
  BY <1>4, <1>5

(* No value crosses over to another conversation, nor to another user      *)
(* whose user_id has as many lines, however many processes share the store *)
(* and whatever the conversation_ids are.                                  *)
THEOREM LikeUsersIsolated == Spec => []LikeUsersAreIsolated
<1>1. IInv => LikeUsersAreIsolated
  <2>. SUFFICES ASSUME IInv, NEW s \in Stores, NEW k \in Keys,
                       NEW p \in sessions[s][k], NEW q \in sessions[s][k],
                       Len(req[p].user) = Len(req[q].user)
                PROVE  req[p].user = req[q].user /\ req[p].conv = req[q].conv
    BY DEF LikeUsersAreIsolated, SameConversation
  <2>1. req[p].user \o req[p].conv = req[q].user \o req[q].conv
    BY DEF IInv, KeysInv, Key, SessionKey
  <2>2. req[p] \in RequestType /\ req[q] \in RequestType
    BY DEF IInv, TypeOK
  <2>3. /\ req[p].user \in Seq(Lines) /\ req[p].conv \in Seq(Lines)
        /\ req[q].user \in Seq(Lines) /\ req[q].conv \in Seq(Lines)
    BY <2>2, GatewayAssumption DEF RequestType
  <2>. QED
    BY <2>1, <2>3, PartsOfEqualLength
<1>. QED
  BY <1>1, IInvHolds, PTL

-----------------------------------------------------------------------------
(* One writer per store                                                    *)

(* Who has its turn at a store has it alone.                               *)
LEMMA TurnsAreAlone ==
  ASSUME OneWriter, IInv, NEW p \in Requests, NEW q \in Requests,
         req[p].pc \in Holding, req[q].pc \in Holding,
         StoreOf(req[p].at) = StoreOf(req[q].at)
  PROVE  p = q
<1>1. req[p].at \in Instances /\ req[q].at \in Instances /\ backend \in Backends
  BY DEF IInv, TypeOK, RequestType
<1>2. req[p].at = req[q].at
  BY <1>1 DEF OneWriter, StoreOf
<1>. QED
  BY <1>2 DEF IInv, HoldersHoldTheMutex

(* A step of one request that writes no session.                           *)
LEMMA TurnAfter ==
  ASSUME IInv, TurnInv, NEW q \in Requests, NEW pc, NEW kv, NEW snap, NEW answer,
         Goes(q, pc, kv, snap, answer), UNCHANGED <<backend, sessions>>,
         pc \in {"querying", "saving"} => snap \in {{}, Stored(q) \cup {q}},
         pc = "querying" => kv = Stored(q),
         pc = "saving" => kv = Stored(q) \cup snap,
         pc = "writing" /\ answer = "ok" => snap \subseteq Stored(q),
         pc \notin {"querying", "saving", "writing"} => snap = {}
  PROVE  TurnInv'
<1>1. \A p \in Requests : Stored(p)' = Stored(p)
  <2>1. \A p \in Requests : Key(p)' = Key(p)
    BY SameKeys DEF Goes
  <2>. QED
    BY <2>1 DEF Goes, SamePlaces, Stored, StoreOf
<1>2. ASSUME NEW p \in Requests PROVE Turn(p)'
  <2>1. CASE p = q
    BY <1>1, <2>1 DEF Turn, Goes
  <2>2. CASE p # q
    BY <1>1, <2>2 DEF TurnInv, Turn, Goes
  <2>. QED
    BY <2>1, <2>2
<1>. QED
  BY <1>2 DEF TurnInv

(* What a save writes is what was stored and what the run has left.        *)
LEMMA SaveAdds ==
  ASSUME IInv, TurnInv, NEW q \in Requests, SaveSession(q)
  PROVE  /\ \A s \in Stores, k \in Keys :
              sessions'[s][k] = IF s = StoreOf(req[q].at) /\ k = Key(q)
                                THEN Stored(q) \cup req[q].snap ELSE sessions[s][k]
         /\ req[q].snap \in {{}, Stored(q) \cup {q}}
<1>1. req[q].kv = Stored(q) \cup req[q].snap /\ req[q].snap \in {{}, Stored(q) \cup {q}}
  BY DEF SaveSession, TurnInv, Turn
<1>. QED
  BY <1>1, PlaceType DEF IInv, SaveSession, TypeOK

LEMMA TurnAfterSave ==
  ASSUME OneWriter, IInv, TurnInv, NEW q \in Requests, SaveSession(q)
  PROVE  TurnInv'
<1>1. Goes(q, "writing", req[q].kv, req[q].snap, req[q].answer)
  BY SaveSessionGoes DEF IInv
<1>2. \A p \in Requests : Key(p)' = Key(p) /\ StoreOf(req[p].at)' = StoreOf(req[p].at)
  <2>1. \A p \in Requests : Key(p)' = Key(p)
    BY <1>1, SameKeys DEF Goes
  <2>. QED
    BY <1>1, <2>1 DEF Goes, SamePlaces, StoreOf, SaveSession
<1>3. \A p \in Requests : Key(p) \in Keys /\ StoreOf(req[p].at) \in Stores
  BY PlaceType DEF IInv
<1>4. \A s \in Stores, k \in Keys : s # StoreOf(req[q].at) => sessions'[s][k] = sessions[s][k]
  BY PlaceType DEF IInv, SaveSession, TypeOK
<1>5. ASSUME NEW p \in Requests PROVE Turn(p)'
  <2>1. CASE p = q
    <3>1. Stored(q)' = Stored(q) \cup req[q].snap
      BY <1>2, <1>3, SaveAdds, ZenonT(30) DEF Stored
    <3>. QED
      BY <1>1, <2>1, <3>1 DEF Turn, Goes
  <2>2. CASE p # q /\ req[p].pc \in Holding
    <3>1. StoreOf(req[p].at) # StoreOf(req[q].at)
      BY <2>2, TurnsAreAlone DEF SaveSession, Holding
    <3>2. sessions'[StoreOf(req[p].at)][Key(p)] = sessions[StoreOf(req[p].at)][Key(p)]
      BY <1>3, <1>4, <3>1
    <3>3. Stored(p)' = Stored(p)
      BY <1>2, <3>2 DEF Stored
    <3>. QED
      BY <1>1, <2>2, <3>3 DEF TurnInv, Turn, Goes
  <2>3. CASE p # q /\ req[p].pc \notin Holding
    BY <1>1, <2>3 DEF TurnInv, Turn, Goes, Holding
  <2>. QED
    BY <2>1, <2>2, <2>3
<1>. QED
  BY <1>5 DEF TurnInv

LEMMA TurnAfterExit ==
  ASSUME IInv, TurnInv, NEW i \in Instances, Exit(i)
  PROVE  TurnInv'
<1>1. /\ SamePlaces
      /\ \A q \in Loses(i) : Moved(req'[q], req[q], "lost", {}, {}, "none")
      /\ \A q \in Requests \ Loses(i) : req'[q] = req[q]
  BY ExitMoves DEF IInv
<1>2. \A q \in Requests : Key(q)' = Key(q) /\ StoreOf(req[q].at)' = StoreOf(req[q].at)
  <2>1. \A q \in Requests : Key(q)' = Key(q)
    BY <1>1, SameKeys
  <2>. QED
    BY <1>1, <2>1 DEF SamePlaces, StoreOf, Exit
<1>3. ASSUME NEW q \in Requests PROVE Turn(q)'
  <2>1. CASE q \in Loses(i)
    BY <1>1, <2>1 DEF Moved, Turn
  <2>2. CASE q \notin Loses(i) /\ req[q].pc \in {"new", "done"}
    BY <1>1, <2>2 DEF TurnInv, Turn
  <2>3. CASE q \notin Loses(i) /\ req[q].pc \notin {"new", "done"}
    <3>1. req[q].at # i
      BY <2>3 DEF Loses
    <3>2. StoreOf(req[q].at) # i /\ StoreOf(req[q].at) \in Stores
      BY <3>1, GatewayAssumption, PlaceType DEF IInv, StoreOf
    <3>3. Stored(q)' = Stored(q)
      BY <1>2, <3>2 DEF Stored, Exit, IInv, TypeOK
    <3>. QED
      BY <1>1, <2>3, <3>3 DEF TurnInv, Turn
  <2>. QED
    BY <2>1, <2>2, <2>3
<1>. QED
  BY <1>3 DEF TurnInv

LEMMA TurnInit == Init => TurnInv
<1>1. ASSUME Init, NEW q \in Requests PROVE req[q].pc = "new" /\ req[q].snap = {}
  BY <1>1 DEF Init, NewRequest
<1>. QED
  BY <1>1 DEF TurnInv, Turn

LEMMA TurnStep == OneWriter /\ IInv /\ TurnInv /\ [Next]_vars => TurnInv'
<1>. SUFFICES ASSUME OneWriter, IInv, TurnInv, [Next]_vars PROVE TurnInv'
  OBVIOUS
<1>0. TypeOK /\ \A q \in Requests : Turn(q)
  BY DEF IInv, TurnInv
<1>1. ASSUME NEW q \in Requests, Arrive(q) PROVE TurnInv'
  <2>1. Goes(q, "waiting", req[q].kv, req[q].snap, req[q].answer)
    BY <1>0, <1>1, ArriveGoes
  <2>. QED
    BY <1>0, <1>1, <2>1, TurnAfter DEF Arrive, Turn
<1>2. ASSUME NEW q \in Requests, Refuse(q) PROVE TurnInv'
  <2>1. Goes(q, "done", {}, {}, "none")
    BY <1>0, <1>2, OverGoes
  <2>. QED
    BY <1>0, <1>2, <2>1, TurnAfter DEF Refuse, Turn
<1>3. ASSUME NEW q \in Requests, Disconnect(q) PROVE TurnInv'
  <2>1. Goes(q, req[q].pc, req[q].kv, req[q].snap, req[q].answer)
    BY <1>0, <1>3, DisconnectGoes
  <2>. QED
    BY <1>0, <1>3, <2>1, TurnAfter DEF Disconnect, Turn
<1>4. ASSUME NEW q \in Requests, Lock(q) PROVE TurnInv'
  <2>1. Goes(q, "loading", req[q].kv, req[q].snap, req[q].answer)
    BY <1>0, <1>4, LockGoes
  <2>. QED
    BY <1>0, <1>4, <2>1, TurnAfter DEF Lock, Turn
<1>5. ASSUME NEW q \in Requests, LoadSession(q) PROVE TurnInv'
  <2>1. Goes(q, "querying", Stored(q), req[q].snap, req[q].answer)
    BY <1>0, <1>5, LoadSessionGoes
  <2>. QED
    BY <1>0, <1>5, <2>1, TurnAfter DEF LoadSession, Turn
<1>6. ASSUME NEW q \in Requests, LoadFails(q) PROVE TurnInv'
  <2>1. Goes(q, "writing", req[q].kv, req[q].snap, "failed")
    BY <1>0, <1>6, LoadFailsGoes
  <2>. QED
    BY <1>0, <1>6, <2>1, TurnAfter DEF LoadFails, Turn
<1>7. ASSUME NEW q \in Requests, SaveFails(q) PROVE TurnInv'
  <2>1. Goes(q, "writing", req[q].kv, req[q].snap, "failed")
    BY <1>0, <1>7, SaveFailsGoes
  <2>. QED
    BY <1>0, <1>7, <2>1, TurnAfter DEF SaveFails, Turn
<1>8. ASSUME NEW q \in Requests, Respond(q) PROVE TurnInv'
  <2>1. Goes(q, "done", {}, {}, "none")
    BY <1>0, <1>8, OverGoes
  <2>. QED
    BY <1>0, <1>8, <2>1, TurnAfter DEF Respond, Turn, Unlock
<1>9. ASSUME NEW q \in Requests, Panic(q) PROVE TurnInv'
  <2>1. Goes(q, "done", {}, {}, "none")
    BY <1>0, <1>9, OverGoes
  <2>. QED
    BY <1>0, <1>9, <2>1, TurnAfter DEF Panic, Turn, Unlock
<1>10. ASSUME NEW q \in Requests, AgentEnds(q) PROVE TurnInv'
  <2>1. Goes(q, "querying", req[q].kv, req[q].kv \cup {q}, req[q].answer)
    BY <1>0, <1>10, AgentEndsGoes
  <2>. QED
    BY <1>0, <1>10, <2>1, TurnAfter DEF AgentEnds, Turn
<1>11. ASSUME NEW q \in Requests, QueryReturns(q) PROVE TurnInv'
  <2>1. PICK a : Goes(q, "saving", req[q].kv \cup req[q].snap, req[q].snap, a)
    BY <1>0, <1>11, QueryReturnsGoes
  <2>. QED
    BY <1>0, <1>11, <2>1, TurnAfter DEF QueryReturns, Turn
<1>12. ASSUME NEW q \in Requests, SaveSession(q) PROVE TurnInv'
  BY <1>12, TurnAfterSave
<1>13. ASSUME NEW i \in Instances, Exit(i) PROVE TurnInv'
  BY <1>13, TurnAfterExit
<1>14. CASE UNCHANGED <<backend, sessions, req>>
  BY <1>14 DEF TurnInv, Turn, Stored, StoreOf, Key
<1>. QED
  BY <1>1, <1>2, <1>3, <1>4, <1>5, <1>6, <1>7, <1>8, <1>9, <1>10, <1>11, <1>12, <1>13, <1>14 DEF Next, Handler, Shutdown, Start, Tick, vars

LEMMA TurnInvHolds ==
  ASSUME OneWriter
  PROVE  Spec => [](IInv /\ TurnInv)
<1>1. Init => IInv /\ TurnInv
  BY IInvInit, TurnInit
<1>2. IInv /\ TurnInv /\ [Next]_vars => (IInv /\ TurnInv)'
  BY IInvStep, TurnStep
<1>. QED
  BY <1>1, <1>2, PTL DEF Spec

(* A stored session never loses a value, as long as no two processes share *)
(* a store.                                                                *)
THEOREM NoUpdateIsLost ==
  ASSUME OneWriter
  PROVE  Spec => SessionsOnlyGrow
<1>1. IInv /\ TurnInv /\ [Next]_vars =>
        [\A s \in Stores, k \in Keys :
           (s \in Instances => state'[s] # "down") =>
             sessions[s][k] \subseteq sessions'[s][k]]_vars
  <2>. DEFINE Grow == \A s \in Stores, k \in Keys :
                        (s \in Instances => state'[s] # "down") =>
                          sessions[s][k] \subseteq sessions'[s][k]
  <2>. SUFFICES ASSUME IInv, TurnInv, [Next]_vars PROVE Grow
    OBVIOUS
  <2>1. CASE sessions' = sessions
    BY <2>1
  <2>2. ASSUME NEW q \in Requests, SaveSession(q) PROVE Grow
    <3>1. \A s \in Stores, k \in Keys :
            sessions'[s][k] = IF s = StoreOf(req[q].at) /\ k = Key(q)
                              THEN Stored(q) \cup req[q].snap ELSE sessions[s][k]
      BY <2>2, SaveAdds
    <3>. QED
      BY <3>1 DEF Stored
  <2>3. ASSUME NEW i \in Instances, Exit(i) PROVE Grow
    <3>1. state'[i] = "down" /\ \A s \in Stores \ {i} : sessions'[s] = sessions[s]
      BY <2>3 DEF Exit, IInv, TypeOK
    <3>. QED
      BY <3>1
  <2>. QED
    BY <2>1, <2>2, <2>3
       DEF Next, Handler, Arrive, Refuse, Disconnect, Lock, LoadSession, LoadFails, SaveFails,
           Respond, Panic, AgentEnds, QueryReturns, Shutdown, Start, Tick, vars
<1>. QED
  BY <1>1, TurnInvHolds, PTL DEF Spec, SessionsOnlyGrow

(* Who is told ok has his values stored.                                   *)
THEOREM OkIsStored ==
  ASSUME OneWriter
  PROVE  Spec => OkMeansSaved
<1>1. TurnInv => [\A q \in Requests :
                    req[q].pc = "writing" /\ req'[q].pc = "done" /\ req[q].answer = "ok" =>
                      req[q].snap \subseteq sessions[StoreOf(req[q].at)][Key(q)]]_vars
  BY DEF TurnInv, Turn, Stored
<1>. QED
  BY <1>1, TurnInvHolds, PTL DEF OkMeansSaved

-----------------------------------------------------------------------------
(* The refinement                                                          *)

Left == {q \in Requests : req[q].snap # {}}

(* A step of one request, as the service sees it.                          *)
LEMMA ViewAfter ==
  ASSUME TypeOK, NEW q \in Requests, NEW pc, NEW kv, NEW snap, NEW answer,
         Goes(q, pc, kv, snap, answer), backend' = backend
  PROVE  /\ [p \in Requests |-> Key(p)]' = [p \in Requests |-> Key(p)]
         /\ [p \in Requests |-> StoreOf(req[p].at)]' = [p \in Requests |-> StoreOf(req[p].at)]
         /\ [p \in Requests |-> Status(p)]' = [[p \in Requests |-> Status(p)] EXCEPT ![q] = Status(q)']
         /\ Left' = (Left \ {q}) \cup (IF snap # {} THEN {q} ELSE {})
<1>1. \A p \in Requests : Key(p)' = Key(p)
  BY SameKeys DEF Goes
<1>2. \A p \in Requests : StoreOf(req[p].at)' = StoreOf(req[p].at)
  BY DEF Goes, SamePlaces, StoreOf
<1>3. \A p \in Requests \ {q} : Status(p)' = Status(p)
  BY DEF Goes, Status
<1>4. \A p \in Requests : p \in Left' <=> IF p = q THEN snap # {} ELSE p \in Left
  BY DEF Goes, Left
<1>. QED
  BY <1>1, <1>2, <1>3, <1>4 DEF Left

(* A step that leaves the status of its request, or what it has left.      *)
LEMMA ViewSame ==
  ASSUME TypeOK, NEW q \in Requests, NEW pc, NEW kv, NEW snap, NEW answer,
         Goes(q, pc, kv, snap, answer), backend' = backend
  PROVE  /\ Status(q)' = Status(q) =>
              [p \in Requests |-> Status(p)]' = [p \in Requests |-> Status(p)]
         /\ snap = req[q].snap => Left' = Left
<1>1. \A p \in Requests \ {q} : Status(p)' = Status(p)
  BY DEF Goes, Status
<1>. QED
  BY <1>1 DEF Goes, Left

LEMMA ServiceInit == Init => Service!Init
<1>. SUFFICES ASSUME Init PROVE Service!Init
  OBVIOUS
<1>1. TypeOK
  BY IInvInit DEF IInv
<1>2. \A q \in Requests : req[q].pc = "new" /\ req[q].snap = {}
  BY DEF Init, NewRequest
<1>3. [q \in Requests |-> Status(q)] = [q \in Requests |-> "open"]
  BY <1>2 DEF Status
<1>4. \A q \in Requests : Key(q) \in Keys /\ StoreOf(req[q].at) \in Stores
  BY <1>1, PlaceType
<1>. QED
  BY <1>2, <1>3, <1>4 DEF Init, Service!Init

(* Every step of the gateway is a step of the service, or none.            *)
LEMMA ServiceStep ==
  OneWriter /\ IInv /\ TurnInv /\ [Next]_vars => [Service!Next]_(Service!vars)
<1>. SUFFICES ASSUME OneWriter, IInv, TurnInv, [Next]_vars
              PROVE  [Service!Next]_(Service!vars)
  OBVIOUS
<1>. DEFINE key    == [p \in Requests |-> Key(p)]
            at     == [p \in Requests |-> StoreOf(req[p].at)]
            status == [p \in Requests |-> Status(p)]
<1>0. TypeOK /\ (\A q \in Requests : Turn(q)) /\ \A q \in Requests : Key(q) \in Keys /\ StoreOf(req[q].at) \in Stores
  BY PlaceType DEF IInv, TurnInv
<1>1. ASSUME NEW q \in Requests, Arrive(q) \/ Lock(q) \/ LoadSession(q) \/ QueryReturns(q) \/ Disconnect(q)
      PROVE  UNCHANGED Service!vars
  <2>1. PICK pc, kv, answer : Goes(q, pc, kv, req[q].snap, answer)
    BY <1>0, <1>1, ArriveGoes, LockGoes, LoadSessionGoes, QueryReturnsGoes, DisconnectGoes
  <2>2. Status(q)' = Status(q)
    BY <1>0, <1>1, ArriveGoes, LockGoes, LoadSessionGoes, QueryReturnsGoes, DisconnectGoes
       DEF Goes, Status, Arrive, Lock, LoadSession, QueryReturns
  <2>3. UNCHANGED <<backend, sessions>>
    BY <1>1 DEF Arrive, Lock, LoadSession, QueryReturns, Disconnect
  <2>4. key' = key /\ at' = at
    BY <1>0, <2>1, <2>3, ViewAfter
  <2>5. status' = status /\ Left' = Left
    BY <1>0, <2>1, <2>2, <2>3, ViewSame
  <2>. QED
    BY <2>3, <2>4, <2>5 DEF Service!vars, Left
<1>2. ASSUME NEW q \in Requests, AgentEnds(q) PROVE Service!Leave(q)
  <2>1. Goes(q, "querying", req[q].kv, req[q].kv \cup {q}, req[q].answer)
    BY <1>0, <1>2, AgentEndsGoes
  <2>2. Status(q) = "open" /\ Status(q)' = "open"
    BY <1>2, <2>1 DEF AgentEnds, Goes, Status
  <2>3. UNCHANGED <<backend, sessions>>
    BY <1>2 DEF AgentEnds
  <2>4. key' = key /\ at' = at /\ Left' = Left \cup {q}
    BY <1>0, <2>1, <2>3, ViewAfter, ZenonT(30)
  <2>5. status' = status
    BY <1>0, <2>1, <2>2, <2>3, ViewSame
  <2>. QED
    BY <2>2, <2>3, <2>4, <2>5 DEF Left, Service!Leave
<1>3. ASSUME NEW q \in Requests, LoadFails(q) \/ SaveFails(q) PROVE Service!Refuse(q)
  <2>1. Goes(q, "writing", req[q].kv, req[q].snap, "failed")
    BY <1>0, <1>3, LoadFailsGoes, SaveFailsGoes
  <2>2. Status(q) = "open" /\ Status(q)' = "error"
    BY <1>3, <2>1 DEF LoadFails, SaveFails, Goes, Status
  <2>. QED
    BY <1>0, <1>3, <2>1, <2>2, ViewAfter DEF LoadFails, SaveFails, Left, Service!Refuse
<1>4. ASSUME NEW q \in Requests, SaveSession(q) PROVE Service!Store(q)
  <2>1. Goes(q, "writing", req[q].kv, req[q].snap, req[q].answer)
    BY <1>0, <1>4, SaveSessionGoes
  <2>2. Status(q) = "open" /\ Status(q)' \in {"ok", "error"}
    BY <1>4, <2>1 DEF SaveSession, Goes, Status
  <2>3. req[q].kv = Stored(q) \cup ({q} \cap Left)
    BY <1>0, <1>4 DEF SaveSession, Turn, Left
  <2>4. sessions' = [sessions EXCEPT ![at[q]][key[q]] = @ \cup ({q} \cap Left)]
    BY <1>0, <1>4, <2>3 DEF SaveSession, Stored, TypeOK
  <2>5. backend' = backend
    BY <1>4 DEF SaveSession
  <2>6. key' = key /\ at' = at /\ status' = [status EXCEPT ![q] = Status(q)']
    BY <1>0, <2>1, <2>5, ViewAfter
  <2>7. Left' = Left
    BY <1>0, <2>1, <2>5, ViewSame
  <2>8. \E result \in {"ok", "error"} : status' = [status EXCEPT ![q] = result]
    BY <2>2, <2>6
  <2>. QED
    BY <2>2, <2>4, <2>6, <2>7, <2>8 DEF Left, Service!Store
<1>5. ASSUME NEW q \in Requests, Refuse(q) \/ Respond(q) \/ Panic(q) PROVE Service!End(q)
  <2>1. Goes(q, "done", {}, {}, "none")
    BY <1>0, <1>5, OverGoes
  <2>2. Status(q) # "over" /\ Status(q)' = "over"
    BY <1>5, <2>1 DEF Refuse, Respond, Panic, Goes, Status
  <2>. QED
    BY <1>0, <1>5, <2>1, <2>2, ViewAfter DEF Refuse, Respond, Panic, Left, Service!End
<1>6. ASSUME NEW i \in Instances, Exit(i), NEW lost \in SUBSET Requests, lost = Loses(i)
      PROVE  Service!Stop(i, lost)
  <2>1. /\ SamePlaces
        /\ \A q \in Loses(i) : Moved(req'[q], req[q], "lost", {}, {}, "none")
        /\ \A q \in Requests \ Loses(i) : req'[q] = req[q]
    BY <1>0, <1>6, ExitMoves
  <2>2. \A q \in Requests : Key(q)' = Key(q)
    BY <2>1, SameKeys
  <2>3. key' = key /\ at' = at
    BY <1>6, <2>1, <2>2 DEF SamePlaces, StoreOf, Exit
  <2>4. \A q \in Requests : Status(q)' = IF q \in Loses(i) THEN "over" ELSE Status(q)
    <3>1. \A q \in Loses(i) : req'[q].pc = "lost"
      BY <2>1 DEF Moved
    <3>2. \A q \in Loses(i) : Status(q)' = "over"
      BY <3>1 DEF Status
    <3>3. \A q \in Requests \ Loses(i) : Status(q)' = Status(q)
      BY <2>1 DEF Status
    <3>. QED
      BY <3>2, <3>3
  <2>5. \A q \in Requests : req'[q].snap = IF q \in Loses(i) THEN {} ELSE req[q].snap
    BY <2>1 DEF Moved
  <2>6. Left' = Left \ Loses(i)
    BY <2>5 DEF Left
  <2>7. i \notin {"disk"} /\ sessions' = [sessions EXCEPT ![i] = [k \in Keys |-> {}]]
    BY <1>6, GatewayAssumption DEF Exit
  <2>. QED
    BY <1>6, <2>3, <2>4, <2>6, <2>7 DEF Left, Service!Stop
<1>7. CASE UNCHANGED <<backend, sessions, req>>
  BY <1>7 DEF Service!vars, Key, StoreOf, Status
<1>8. ASSUME NEW i \in Instances, Exit(i) PROVE Service!Next
  <2>1. i \in Stores /\ Loses(i) \in SUBSET Requests
    BY DEF Stores, Loses
  <2>2. PICK lost \in SUBSET Requests : lost = Loses(i)
    BY <2>1
  <2>3. Service!Stop(i, lost)
    BY <1>6, <1>8, <2>2
  <2>. QED
    BY <2>1, <2>3 DEF Service!Next
<1>9. ASSUME NEW q \in Requests,
             Service!Leave(q) \/ Service!Store(q) \/ Service!Refuse(q) \/ Service!End(q)
      PROVE  Service!Next
  BY <1>9 DEF Service!Next
<1>10. CASE Next
  BY <1>1, <1>2, <1>3, <1>4, <1>5, <1>7, <1>8, <1>9, <1>10
     DEF Next, Handler, Shutdown, Start, Tick
<1>11. CASE UNCHANGED vars
  BY <1>7, <1>11 DEF vars
<1>. QED
  BY <1>10, <1>11

(* Requests that load, work on and write back whole sessions are as good   *)
(* as ones that add their value in one step, as long as no two processes   *)
(* share a store.                                                          *)
THEOREM ServiceIsImplemented ==
  ASSUME OneWriter
  PROVE  Spec => ImplementsSessionService
<1>1. IInv /\ TurnInv /\ [Next]_vars => [Service!Next]_(Service!vars)
  BY ServiceStep
<1>. QED
  BY <1>1, ServiceInit, TurnInvHolds, PTL DEF Spec, ImplementsSessionService, Service!Spec
====
