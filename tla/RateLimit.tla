---- MODULE RateLimit ----
(***************************************************************************)
(* The rate limiter of brook-gateway (internal/gateway/limit.go): a        *)
(* sliding window of admission times per client address.  allow reads the  *)
(* clock before it takes the limiter's mutex, so requests enter with       *)
(* readings that are late and out of order; what follows under the mutex   *)
(* is one step.  MaxDelay bounds how late.                                 *)
(***************************************************************************)
EXTENDS Integers, FiniteSets

CONSTANTS
  Requests,
  Addrs,       \* client addresses
  Rpm, Burst,  \* rate_limit.requests_per_minute and burst
  Window,      \* a minute, in ticks
  MaxKeys,     \* 10000 in the code
  EvictEvery,  \* 100 in the code
  MaxDelay,    \* ticks between reading the clock and holding the mutex
  MaxTime      \* ticks (bound)

ASSUME RateLimitAssumption ==
  /\ Rpm \in Int /\ Burst \in Int
  /\ Window \in Nat \ {0} /\ MaxKeys \in Nat /\ EvictEvery \in Nat \ {0}
  /\ MaxDelay \in 0..(Window - 1) /\ MaxTime \in Nat

VARIABLES
  now,
  n,        \* calls, modulo EvictEvery, which is all that matters of them
  buckets,  \* per address, the requests whose times are kept
  req       \* the requests: see NewRequest

vars == <<now, n, buckets, req>>

(* newIPLimiter: what a window admits.                                     *)
Limit ==
  LET rpm == IF Rpm <= 0 THEN 120 ELSE Rpm
  IN  rpm + IF Burst <= 0 THEN 0 ELSE Burst

(***************************************************************************)
(* pc is "new", "read" (the clock is read), "admitted" or "rejected";      *)
(* "forgotten" is an admission whose bucket was evicted.  t is the time    *)
(* read, at the time of the decision.                                      *)
(***************************************************************************)
NewRequest(a) == [pc |-> "new", addr |-> a, t |-> 0, at |-> 0]

Init ==
  /\ now = 0 /\ n = 0
  /\ buckets = <<>>
  /\ req \in [Requests -> { NewRequest(a) : a \in Addrs }]

ReadClock(q) ==
  /\ req[q].pc = "new"
  /\ req' = [req EXCEPT ![q].pc = "read", ![q].t = now]
  /\ UNCHANGED <<now, n, buckets>>

(* The slice of times of an address: allow filters it and counts it, so    *)
(* that of its order and its values nothing is left but the requests they  *)
(* are of.  The map grows with the addresses seen; Evicted thins it.       *)
Bucket(b, a) == IF a \in DOMAIN b THEN b[a] ELSE {}

\* Bug: times at the edge are kept for another tick.
KeptAtTheEdge(bucket, t) == { p \in bucket : req[p].t >= t - Window }

\* Bug: the window is cut short by one tick.
KeptTooShort(bucket, t) == { p \in bucket : req[p].t > t - Window + 1 }

Kept(bucket, t) == { p \in bucket : req[p].t > t - Window }

\* Bug: one more than the limit is admitted.
HasRoomForOneMore(bucket) == Cardinality(bucket) <= Limit

HasRoom(bucket) == Cardinality(bucket) < Limit

(* Every EvictEvery-th call drops one bucket, any, if there are too many.  *)
Evicted ==
  IF (n + 1) % EvictEvery = 0 /\ Cardinality(DOMAIN buckets) > MaxKeys
  THEN { {k} : k \in DOMAIN buckets } ELSE { {} }

(* allow, under the mutex.                                                 *)
Decide(q) ==
  /\ req[q].pc = "read"
  /\ n' = (n + 1) % EvictEvery
  /\ \E gone \in Evicted :
       LET a    == req[q].addr
           left == [k \in DOMAIN buckets \ gone |-> buckets[k]]
           kept == Kept(Bucket(left, a), req[q].t)
           ok   == HasRoom(kept)
       IN  /\ buckets' = [k \in DOMAIN left \cup {a} |->
                            IF k # a THEN left[k]
                            ELSE IF ok THEN kept \cup {q} ELSE kept]
           /\ req' = [p \in Requests |->
                        IF p = q THEN [req[q] EXCEPT !.pc = IF ok THEN "admitted" ELSE "rejected",
                                                     !.at = now]
                        ELSE IF req[p].pc = "admitted" /\ req[p].addr \in gone
                             THEN [req[p] EXCEPT !.pc = "forgotten"]
                        ELSE req[p]]
  /\ UNCHANGED now

Tick ==
  /\ now < MaxTime
  /\ \A q \in Requests : req[q].pc = "read" => now - req[q].t < MaxDelay
  /\ now' = now + 1
  /\ UNCHANGED <<n, buckets, req>>

Next == Tick \/ \E q \in Requests : ReadClock(q) \/ Decide(q)

Spec == Init /\ [][Next]_vars

-----------------------------------------------------------------------------
(* Properties                                                              *)

(* A bucket holds times that were admitted, never more than a window does. *)
TypeOK ==
  /\ now \in 0..MaxTime /\ n \in 0..(EvictEvery - 1)
  /\ DOMAIN buckets \subseteq Addrs
  /\ \A a \in DOMAIN buckets :
       /\ buckets[a] \subseteq { q \in Requests : req[q].pc = "admitted" }
       /\ Cardinality(buckets[a]) <= Limit
  /\ req \in [Requests ->
       [pc : {"new", "read", "admitted", "rejected", "forgotten"},
        addr : Addrs, t : 0..now, at : 0..now]]

AdmittedIn(a, first, last) ==
  { q \in Requests : req[q].pc = "admitted" /\ req[q].addr = a
                       /\ req[q].at > first /\ req[q].at <= last }

(* However late and out of order the clock readings come in: as long as    *)
(* its bucket is not evicted, an address is never admitted more than Limit *)
(* times in a window that is shorter by the delay.                         *)
WindowsAreLimited ==
  \A a \in Addrs, t \in 0..now :
    Cardinality(AdmittedIn(a, t - (Window - MaxDelay), t)) <= Limit

(* Nobody is turned away below the limit: it was reached within a window   *)
(* and the delay.                                                          *)
RejectedAtTheLimit ==
  [][\A q \in Requests : req[q].pc = "read" /\ req'[q].pc = "rejected" =>
       Cardinality(AdmittedIn(req[q].addr, now - (Window + MaxDelay), now)) >= Limit]_vars
====
