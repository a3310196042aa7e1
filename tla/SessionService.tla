---- MODULE SessionService ----
(***************************************************************************)
(* What brook-gateway promises of the sessions it keeps: a request, while  *)
(* it is open, may leave a value; when it is stored, in one step, exactly  *)
(* that value joins the session of its key, and only then is it told ok.   *)
(* A request that is refused or lost adds nothing.  Whatever runs at the   *)
(* same time, no other step touches a session, but for stores that end     *)
(* with their process.                                                     *)
(***************************************************************************)
EXTENDS FiniteSets

CONSTANTS Requests, Stores, Keys,
          Durable  \* the stores that outlive their process

VARIABLES
  sessions,  \* per store and key, the requests whose value it holds
  key, at,   \* key and store of a request
  status,    \* of a request: "open", "ok" or "error" (stored or refused, not
             \* answered yet), "over"
  left       \* requests that are not over and have left a value

vars == <<sessions, key, at, status, left>>

Init ==
  /\ sessions = [s \in Stores |-> [k \in Keys |-> {}]]
  /\ key \in [Requests -> Keys] /\ at \in [Requests -> Stores]
  /\ status = [q \in Requests |-> "open"]
  /\ left = {}

Leave(q) ==
  /\ status[q] = "open"
  /\ left' = left \cup {q}
  /\ UNCHANGED <<sessions, key, at, status>>

Store(q) ==
  /\ status[q] = "open"
  /\ sessions' = [sessions EXCEPT ![at[q]][key[q]] = @ \cup ({q} \cap left)]
  /\ \E result \in {"ok", "error"} : status' = [status EXCEPT ![q] = result]
  /\ UNCHANGED <<key, at, left>>

Refuse(q) ==
  /\ status[q] = "open"
  /\ status' = [status EXCEPT ![q] = "error"]
  /\ UNCHANGED <<sessions, key, at, left>>

(* Answered, or lost, at any time.                                         *)
End(q) ==
  /\ status[q] # "over"
  /\ status' = [status EXCEPT ![q] = "over"]
  /\ left' = left \ {q}
  /\ UNCHANGED <<sessions, key, at>>

(* A process ends with some of its requests and, if it keeps sessions      *)
(* itself, with these.                                                     *)
Stop(s, lost) ==
  /\ status' = [q \in Requests |-> IF q \in lost THEN "over" ELSE status[q]]
  /\ left' = left \ lost
  /\ sessions' = IF s \in Durable THEN sessions
                 ELSE [sessions EXCEPT ![s] = [k \in Keys |-> {}]]
  /\ UNCHANGED <<key, at>>

Next ==
  \/ \E q \in Requests : Leave(q) \/ Store(q) \/ Refuse(q) \/ End(q)
  \/ \E s \in Stores, lost \in SUBSET Requests : Stop(s, lost)

Spec == Init /\ [][Next]_vars
====
