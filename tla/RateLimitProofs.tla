---- MODULE RateLimitProofs ----
(***************************************************************************)
(* Proofs about RateLimit, for every number of requests and addresses and  *)
(* every setting of the limiter.                                           *)
(***************************************************************************)
EXTENDS RateLimit, FiniteSetTheorems, TLAPS

Admitted == { q \in Requests : req[q].pc = "admitted" }

(* A reading that waits for the mutex is at most MaxDelay old, and one     *)
(* that was admitted was so when it was.                                   *)
ReadingsAreRecent ==
  \A q \in Requests :
    /\ req[q].pc = "read" => now - req[q].t <= MaxDelay
    /\ req[q].pc = "admitted" =>
         req[q].t <= req[q].at /\ req[q].at - req[q].t <= MaxDelay

(* A bucket holds admissions of its address only.                          *)
BucketsAreOwn == \A a \in DOMAIN buckets : \A q \in buckets[a] : req[q].addr = a

(* What a reading taken now could still count is in its bucket: a late     *)
(* reading drops less, never more.                                         *)
RecentAreKept ==
  \A q \in Requests :
    req[q].pc = "admitted" /\ req[q].t > now - Window => q \in Bucket(buckets, req[q].addr)

FiniteInv ==
  /\ IsFiniteSet(Admitted)
  /\ \A a \in DOMAIN buckets : IsFiniteSet(buckets[a])

(* The inductive invariant.  WindowsAreLimited is not inductive by itself: *)
(* that the window which ends now is limited is what the buckets know.     *)
IInv ==
  /\ TypeOK
  /\ FiniteInv
  /\ ReadingsAreRecent
  /\ BucketsAreOwn
  /\ RecentAreKept
  /\ WindowsAreLimited

-----------------------------------------------------------------------------
LEMMA LimitType == Limit \in Nat
BY RateLimitAssumption DEF Limit

LEMMA InitIInv == Init => IInv
<1> SUFFICES ASSUME Init PROVE IInv
  OBVIOUS
<1>1. /\ req \in [Requests -> [pc : {"new", "read", "admitted", "rejected", "forgotten"},
                               addr : Addrs, t : 0..now, at : 0..now]]
      /\ \A q \in Requests : req[q].pc = "new"
  BY DEF Init, NewRequest
<1>2. DOMAIN buckets = {}
  BY DEF Init
<1>3. TypeOK
  BY <1>1, <1>2, RateLimitAssumption DEF Init, TypeOK
<1>4. Admitted = {}
  BY <1>1 DEF Admitted
<1>5. \A a \in Addrs, t \in 0..now : AdmittedIn(a, t - (Window - MaxDelay), t) = {}
  BY <1>1 DEF AdmittedIn
<1>6. FiniteInv /\ WindowsAreLimited
  BY <1>2, <1>4, <1>5, LimitType, FS_EmptySet DEF FiniteInv, WindowsAreLimited
<1> QED
  BY <1>1, <1>2, <1>3, <1>6 DEF IInv, ReadingsAreRecent, BucketsAreOwn, RecentAreKept

(* The window that ends now: its admissions are in the bucket.             *)
ThisWindowIsLimited ==
  \A a \in Addrs : Cardinality(AdmittedIn(a, now - (Window - MaxDelay), now)) <= Limit

LEMMA WindowEndingNow ==
  TypeOK /\ FiniteInv /\ ReadingsAreRecent /\ RecentAreKept => ThisWindowIsLimited
<1> SUFFICES ASSUME TypeOK, FiniteInv, ReadingsAreRecent, RecentAreKept, NEW a \in Addrs
             PROVE  Cardinality(AdmittedIn(a, now - (Window - MaxDelay), now)) <= Limit
  BY DEF ThisWindowIsLimited
<1> DEFINE W == AdmittedIn(a, now - (Window - MaxDelay), now)
           B == Bucket(buckets, a)
<1>1. IsFiniteSet(B) /\ Cardinality(B) <= Limit
  BY FS_EmptySet, LimitType DEF Bucket, TypeOK, FiniteInv
<1>2. ASSUME NEW q \in W PROVE q \in B
  <2>1. /\ q \in Requests /\ req[q].pc = "admitted" /\ req[q].addr = a
        /\ req[q].at > now - (Window - MaxDelay)
    BY <1>2 DEF AdmittedIn
  <2>2. req[q].t \in Nat /\ req[q].at \in Nat /\ now \in Nat
    BY <2>1 DEF TypeOK
  <2>3. req[q].t > now - Window
    BY <2>1, <2>2, RateLimitAssumption DEF ReadingsAreRecent
  <2> QED
    BY <2>1, <2>3 DEF RecentAreKept
<1>3. W \in SUBSET B
  BY <1>2
<1>4. Cardinality(W) <= Cardinality(B)
  BY <1>1, <1>3, FS_Subset
<1>5. Cardinality(W) \in Nat /\ Cardinality(B) \in Nat
  BY <1>1, <1>3, FS_Subset, FS_CardinalityType
<1> QED
  BY <1>1, <1>4, <1>5, LimitType

LEMMA WindowEndingNext ==
  TypeOK' /\ FiniteInv' /\ ReadingsAreRecent' /\ RecentAreKept' => ThisWindowIsLimited'
BY WindowEndingNow, PTL

(* The windows that ended before: a step only takes admissions from them.  *)
LEMMA WindowsOnlyShrink ==
  ASSUME IInv, TypeOK', FiniteInv', ReadingsAreRecent', RecentAreKept',
         now' \in {now, now + 1},
         \A q \in Requests :
           /\ req'[q].addr = req[q].addr
           /\ req'[q].pc = "admitted" =>
                \/ req[q].pc = "admitted" /\ req'[q].at = req[q].at
                \/ req'[q].at = now'
  PROVE  WindowsAreLimited'
<1> SUFFICES ASSUME NEW a \in Addrs, NEW t \in (0..now)'
             PROVE  Cardinality(AdmittedIn(a, t - (Window - MaxDelay), t)') <= Limit
  BY DEF WindowsAreLimited
<1>1. CASE t = now'
  <2>1. Cardinality(AdmittedIn(a, now - (Window - MaxDelay), now)') <= Limit
    BY WindowEndingNext DEF ThisWindowIsLimited
  <2> QED
    BY <1>1, <2>1
<1>2. CASE t # now'
  <2> DEFINE Old == AdmittedIn(a, t - (Window - MaxDelay), t)
             New == AdmittedIn(a, t - (Window - MaxDelay), t)'
  <2>1. now \in Nat /\ now' \in Nat /\ t \in Nat /\ t < now' /\ t \in 0..now
    BY <1>2 DEF IInv, TypeOK
  <2>2. New \in SUBSET Old
    BY <2>1 DEF AdmittedIn
  <2>3. IsFiniteSet(Old)
    <3>1. Old \in SUBSET Admitted
      BY DEF AdmittedIn, Admitted
    <3> QED
      BY <3>1, FS_Subset DEF IInv, FiniteInv
  <2>4. Cardinality(Old) <= Limit
    BY <2>1 DEF IInv, WindowsAreLimited
  <2>5. /\ Cardinality(New) <= Cardinality(Old)
        /\ Cardinality(New) \in Nat /\ Cardinality(Old) \in Nat
    BY <2>2, <2>3, FS_Subset, FS_CardinalityType
  <2> QED
    BY <2>4, <2>5, LimitType
<1> QED
  BY <1>1, <1>2

-----------------------------------------------------------------------------
LEMMA ReadClockKeeps ==
  ASSUME IInv, NEW q \in Requests, ReadClock(q)
  PROVE  IInv'
<1> USE DEF IInv
<1>1. req' = [req EXCEPT ![q].pc = "read", ![q].t = now]
  BY DEF ReadClock
<1>2. now' = now /\ n' = n /\ buckets' = buckets /\ req[q].pc = "new"
  BY DEF ReadClock
<1>3. req'[q] = [req[q] EXCEPT !.pc = "read", !.t = now]
  BY <1>1 DEF TypeOK
<1>4. \A p \in Requests : p # q => req'[p] = req[p]
  BY <1>1 DEF TypeOK
<1>5. now \in Nat
  BY DEF TypeOK
<1>6. /\ req'[q].pc = "read" /\ req'[q].t = now
      /\ req'[q].addr = req[q].addr /\ req'[q].at = req[q].at
  BY <1>3 DEF TypeOK
<1>7. req' \in [Requests -> [pc : {"new", "read", "admitted", "rejected", "forgotten"},
                             addr : Addrs, t : 0..now, at : 0..now]]
  <2>1. req'[q] \in [pc : {"new", "read", "admitted", "rejected", "forgotten"},
                     addr : Addrs, t : 0..now, at : 0..now]
    <3>1. /\ req[q] = [pc |-> req[q].pc, addr |-> req[q].addr, t |-> req[q].t, at |-> req[q].at]
          /\ req[q].addr \in Addrs /\ req[q].at \in 0..now
      BY DEF TypeOK
    <3>2. req'[q] = [pc |-> "read", addr |-> req[q].addr, t |-> now, at |-> req[q].at]
      BY <1>3, <3>1
    <3>3. now \in 0..now
      BY <1>5
    <3> QED
      BY <3>1, <3>2, <3>3
  <2> QED
    BY <1>1, <1>4, <2>1 DEF TypeOK
<1>8. Admitted' = Admitted
  BY <1>2, <1>4, <1>6 DEF Admitted
<1>9. TypeOK'
  BY <1>2, <1>7, <1>8 DEF TypeOK, Admitted
<1>10. FiniteInv'
  BY <1>2, <1>8 DEF FiniteInv
<1>11. ReadingsAreRecent'
  BY <1>2, <1>4, <1>5, <1>6, RateLimitAssumption DEF ReadingsAreRecent
<1>12. BucketsAreOwn'
  BY <1>2, <1>4, <1>6 DEF BucketsAreOwn, TypeOK
<1>13. RecentAreKept'
  BY <1>2, <1>4, <1>6 DEF RecentAreKept
<1>14. WindowsAreLimited'
  BY <1>2, <1>4, <1>6, <1>9, <1>10, <1>11, <1>13, WindowsOnlyShrink
<1> QED
  BY <1>9, <1>10, <1>11, <1>12, <1>13, <1>14

LEMMA TickKeeps ==
  ASSUME IInv, Tick
  PROVE  IInv'
<1> USE DEF IInv
<1>1. now' = now + 1 /\ n' = n /\ buckets' = buckets /\ req' = req /\ now < MaxTime
  BY DEF Tick
<1>2. now \in Nat
  BY DEF TypeOK
<1>3. req' \in [Requests -> [pc : {"new", "read", "admitted", "rejected", "forgotten"},
                             addr : Addrs, t : 0..now', at : 0..now']]
  <2>1. 0..now \subseteq 0..now'
    BY <1>1, <1>2
  <2> QED
    BY <1>1, <2>1 DEF TypeOK
<1>4. TypeOK'
  BY <1>1, <1>2, <1>3, RateLimitAssumption DEF TypeOK
<1>5. FiniteInv'
  BY <1>1 DEF FiniteInv, Admitted
<1>6. \A q \in Requests : req[q].t \in Nat /\ req[q].at \in Nat
  BY DEF TypeOK
<1>7. ReadingsAreRecent'
  BY <1>1, <1>2, <1>6, RateLimitAssumption DEF ReadingsAreRecent, Tick
<1>8. BucketsAreOwn'
  BY <1>1 DEF BucketsAreOwn
<1>9. RecentAreKept'
  BY <1>1, <1>2, <1>6, RateLimitAssumption DEF RecentAreKept
<1>10. WindowsAreLimited'
  BY <1>1, <1>4, <1>5, <1>7, <1>9, WindowsOnlyShrink
<1> QED
  BY <1>4, <1>5, <1>7, <1>8, <1>9, <1>10

-----------------------------------------------------------------------------
(* What allow does under the mutex, with the bucket it drops, the readings *)
(* it keeps and the answer it gives.                                       *)
Decided(q, gone, kept, ok) ==
  /\ buckets' = [k \in (DOMAIN buckets \ gone) \cup {req[q].addr} |->
                   IF k # req[q].addr THEN buckets[k]
                   ELSE IF ok THEN kept \cup {q} ELSE kept]
  /\ req' = [p \in Requests |->
               IF p = q THEN [req[q] EXCEPT !.pc = IF ok THEN "admitted" ELSE "rejected",
                                            !.at = now]
               ELSE IF req[p].pc = "admitted" /\ req[p].addr \in gone
                    THEN [req[p] EXCEPT !.pc = "forgotten"]
               ELSE req[p]]

LEMMA DecideIsDecided ==
  ASSUME IInv, NEW q \in Requests, Decide(q)
  PROVE  /\ req[q].pc = "read" /\ now' = now /\ n' = (n + 1) % EvictEvery
         /\ \E gone \in Evicted :
              LET a    == req[q].addr
                  kept == Kept(IF a \in DOMAIN buckets \ gone THEN buckets[a] ELSE {}, req[q].t)
              IN  Decided(q, gone, kept, HasRoom(kept))
<1>1. PICK gone \in Evicted :
       LET a    == req[q].addr
           left == [k \in DOMAIN buckets \ gone |-> buckets[k]]
           kept == Kept(Bucket(left, a), req[q].t)
           ok   == HasRoom(kept)
       IN  /\ buckets' = [k \in DOMAIN left \cup {a} |->
                            IF k # a THEN left[k]
                            ELSE IF ok THEN kept \cup {q} ELSE kept]
           /\ req' = [p \in Requests |->
                        IF p = q THEN [req[q] EXCEPT !.pc = IF ok THEN "admitted" ELSE "rejected",
                                                     !.at = now]
                        ELSE IF req[p].pc = "admitted" /\ req[p].addr \in gone
                             THEN [req[p] EXCEPT !.pc = "forgotten"]
                        ELSE req[p]]
  BY DEF Decide
<1> DEFINE a    == req[q].addr
           left == [k \in DOMAIN buckets \ gone |-> buckets[k]]
           kept == Kept(IF a \in DOMAIN buckets \ gone THEN buckets[a] ELSE {}, req[q].t)
<1>2. Bucket(left, a) = IF a \in DOMAIN buckets \ gone THEN buckets[a] ELSE {}
  BY DEF Bucket
<1>3. DOMAIN left = DOMAIN buckets \ gone /\ \A k \in DOMAIN left : left[k] = buckets[k]
  OBVIOUS
<1>4. buckets' = [k \in DOMAIN left \cup {a} |->
                   IF k # a THEN left[k] ELSE IF HasRoom(kept) THEN kept \cup {q} ELSE kept]
  BY <1>1, <1>2
<1> HIDE DEF left, kept
<1>5. buckets' = [k \in (DOMAIN buckets \ gone) \cup {a} |->
                   IF k # a THEN buckets[k] ELSE IF HasRoom(kept) THEN kept \cup {q} ELSE kept]
  BY <1>3, <1>4
<1>6. Decided(q, gone, kept, HasRoom(kept))
  BY <1>1, <1>2, <1>5 DEF Decided, left, kept
<1> QED
  BY <1>6 DEF kept, Decide

LEMMA DecideKeeps ==
  ASSUME IInv, NEW q \in Requests, Decide(q)
  PROVE  IInv'
<1> USE DEF IInv
<1>1. req[q].pc = "read" /\ now' = now /\ n' = (n + 1) % EvictEvery
  BY DecideIsDecided
<1> DEFINE a == req[q].addr
           kept(gone) == Kept(IF a \in DOMAIN buckets \ gone THEN buckets[a] ELSE {}, req[q].t)
<1>2. PICK gone \in Evicted : Decided(q, gone, kept(gone), HasRoom(kept(gone)))
  BY DecideIsDecided
<1> DEFINE K == kept(gone)
           ok == HasRoom(K)
<1>3. K \subseteq { p \in Requests : req[p].pc = "admitted" /\ req[p].addr = a }
  BY DEF Kept, TypeOK, BucketsAreOwn
<1>4. IsFiniteSet(K) /\ Cardinality(K) \in Nat /\ Cardinality(K) <= Limit
  <2>1. CASE a \in DOMAIN buckets \ gone
    <3>1. K \in SUBSET buckets[a]
      BY <2>1 DEF Kept
    <3>2. IsFiniteSet(buckets[a]) /\ Cardinality(buckets[a]) <= Limit
      BY <2>1 DEF FiniteInv, TypeOK
    <3>3. IsFiniteSet(K) /\ Cardinality(K) <= Cardinality(buckets[a])
      BY <3>1, <3>2, FS_Subset
    <3>4. Cardinality(K) \in Nat /\ Cardinality(buckets[a]) \in Nat
      BY <3>2, <3>3, FS_CardinalityType
    <3> QED
      BY <3>2, <3>3, <3>4, LimitType
  <2>2. CASE a \notin DOMAIN buckets \ gone
    <3>1. K = {}
      BY <2>2 DEF Kept
    <3> QED
      BY <3>1, FS_EmptySet, LimitType
  <2> QED
    BY <2>1, <2>2
<1>5. \A p \in Requests : a \notin gone /\ req[p].pc = "admitted" /\ req[p].addr = a
                           /\ req[p].t > now - Window => p \in K
  <2> SUFFICES ASSUME NEW p \in Requests, a \notin gone, req[p].pc = "admitted",
                      req[p].addr = a, req[p].t > now - Window
               PROVE  p \in K
    OBVIOUS
  <2>1. p \in Bucket(buckets, a)
    BY DEF RecentAreKept
  <2>2. a \in DOMAIN buckets \ gone /\ p \in buckets[a]
    BY <2>1 DEF Bucket
  <2>3. req[q].t <= now /\ req[q].t \in Nat /\ req[p].t \in Nat /\ now \in Nat
    BY DEF TypeOK
  <2>4. req[p].t > req[q].t - Window
    BY <2>3, RateLimitAssumption
  <2> QED
    BY <2>2, <2>4 DEF Kept
<1> HIDE DEF K
<1>6. buckets' = [k \in (DOMAIN buckets \ gone) \cup {a} |->
                   IF k # a THEN buckets[k] ELSE IF ok THEN K \cup {q} ELSE K]
  BY <1>2 DEF Decided, K
<1>7. req'[q] = [req[q] EXCEPT !.pc = IF ok THEN "admitted" ELSE "rejected", !.at = now]
  BY <1>2 DEF Decided, K
<1>8. \A p \in Requests : p # q =>
        req'[p] = IF req[p].pc = "admitted" /\ req[p].addr \in gone
                  THEN [req[p] EXCEPT !.pc = "forgotten"] ELSE req[p]
  BY <1>2 DEF Decided
<1>9. DOMAIN req' = Requests /\ req' = [p \in Requests |-> req'[p]]
  BY <1>2 DEF Decided
<1> DEFINE R == [pc : {"new", "read", "admitted", "rejected", "forgotten"},
                 addr : Addrs, t : 0..now, at : 0..now]
<1>10. req \in [Requests -> R] /\ now \in Nat /\ now \in 0..MaxTime
  BY DEF TypeOK
<1>11. /\ req'[q] \in R /\ req'[q].addr = a /\ req'[q].t = req[q].t /\ req'[q].at = now
       /\ req'[q].pc = IF ok THEN "admitted" ELSE "rejected"
  <2>1. /\ req[q] = [pc |-> req[q].pc, addr |-> req[q].addr, t |-> req[q].t, at |-> req[q].at]
        /\ req[q].addr \in Addrs /\ req[q].t \in 0..now
    BY <1>10
  <2>2. req'[q] = [pc |-> IF ok THEN "admitted" ELSE "rejected", addr |-> req[q].addr,
                   t |-> req[q].t, at |-> now]
    BY <1>7, <2>1
  <2>3. now \in 0..now
    BY <1>10
  <2> QED
    BY <2>1, <2>2, <2>3
<1>12. \A p \in Requests : p # q =>
         /\ req'[p] \in R /\ req'[p].addr = req[p].addr
         /\ req'[p].t = req[p].t /\ req'[p].at = req[p].at
         /\ req'[p].pc = IF req[p].pc = "admitted" /\ req[p].addr \in gone
                         THEN "forgotten" ELSE req[p].pc
  BY <1>8, <1>10, ZenonT(30)
<1> HIDE DEF ok
<1>13. req' \in [Requests -> R]
  BY <1>9, <1>11, <1>12
<1>14. \A p \in Requests : req'[p].pc = "admitted" =>
         \/ (p = q /\ ok)
         \/ (p # q /\ req[p].pc = "admitted" /\ req[p].addr \notin gone)
  BY <1>11, <1>12
<1>15. a \in gone => K = {}
  BY DEF K, Kept
<1>16. \A k \in DOMAIN buckets' : buckets'[k] \subseteq Admitted'
  <2> SUFFICES ASSUME NEW k \in DOMAIN buckets', NEW p \in buckets'[k] PROVE p \in Admitted'
    OBVIOUS
  <2>1. CASE p = q
    <3>1. k # a => q \in Admitted
      BY <1>6, <2>1 DEF TypeOK, Admitted
    <3>2. ok
      BY <1>1, <1>3, <1>6, <2>1, <3>1 DEF Admitted
    <3> QED
      BY <1>11, <2>1, <3>2 DEF Admitted
  <2>2. CASE p # q
    <3>1. p \in Requests /\ req[p].pc = "admitted" /\ req[p].addr = k
      BY <1>3, <1>6, <2>2 DEF TypeOK, BucketsAreOwn
    <3>2. k \notin gone
      BY <1>6, <1>15, <2>2
    <3> QED
      BY <1>12, <2>2, <3>1, <3>2 DEF Admitted
  <2> QED
    BY <2>1, <2>2
<1>17. /\ IsFiniteSet(IF ok THEN K \cup {q} ELSE K)
       /\ Cardinality(IF ok THEN K \cup {q} ELSE K) <= Limit
  <2>1. q \notin K
    BY <1>1, <1>3
  <2>2. IsFiniteSet(K \cup {q}) /\ Cardinality(K \cup {q}) = Cardinality(K) + 1
    BY <1>4, <2>1, FS_AddElement
  <2>3. ok => Cardinality(K) < Limit
    BY DEF ok, HasRoom
  <2> QED
    BY <1>4, <2>2, <2>3, LimitType
<1>18. \A k \in DOMAIN buckets' : IsFiniteSet(buckets'[k]) /\ Cardinality(buckets'[k]) <= Limit
  BY <1>6, <1>17 DEF TypeOK, FiniteInv
<1>19. TypeOK'
  <2>1. n' \in 0..(EvictEvery - 1)
    BY <1>1, RateLimitAssumption DEF TypeOK
  <2>2. DOMAIN buckets' \subseteq Addrs
    BY <1>6, <1>10 DEF TypeOK
  <2> QED
    BY <1>1, <1>10, <1>13, <1>16, <1>18, <2>1, <2>2 DEF TypeOK, Admitted
<1>20. FiniteInv'
  <2>1. Admitted' \in SUBSET (Admitted \cup {q})
    BY <1>14 DEF Admitted
  <2>2. IsFiniteSet(Admitted \cup {q})
    BY FS_AddElement DEF FiniteInv
  <2>3. IsFiniteSet(Admitted')
    BY <2>1, <2>2, FS_Subset
  <2> QED
    BY <1>18, <2>3 DEF FiniteInv
<1>21. ReadingsAreRecent'
  <2> SUFFICES ASSUME NEW p \in Requests
               PROVE  /\ req'[p].pc = "read" => now - req'[p].t <= MaxDelay
                      /\ req'[p].pc = "admitted" =>
                           req'[p].t <= req'[p].at /\ req'[p].at - req'[p].t <= MaxDelay
    BY <1>1 DEF ReadingsAreRecent
  <2>1. CASE p = q
    BY <1>1, <1>10, <1>11, <2>1 DEF ReadingsAreRecent
  <2>2. CASE p # q
    BY <1>12, <2>2 DEF ReadingsAreRecent
  <2> QED
    BY <2>1, <2>2
<1>22. BucketsAreOwn'
  BY <1>3, <1>6, <1>11, <1>12 DEF BucketsAreOwn, TypeOK
<1>23. RecentAreKept'
  <2> SUFFICES ASSUME NEW p \in Requests, req'[p].pc = "admitted", req'[p].t > now - Window
               PROVE  p \in Bucket(buckets', req'[p].addr)
    BY <1>1 DEF RecentAreKept
  <2>1. CASE p = q
    <3>1. ok
      BY <1>14, <2>1
    <3> QED
      BY <1>6, <1>11, <2>1, <3>1 DEF Bucket
  <2>2. CASE p # q
    <3>1. /\ req[p].pc = "admitted" /\ req[p].addr \notin gone
          /\ req'[p].addr = req[p].addr /\ req'[p].t = req[p].t
      BY <1>12, <1>14, <2>2
    <3>2. CASE req[p].addr = a
      BY <1>5, <1>6, <3>1, <3>2 DEF Bucket
    <3>3. CASE req[p].addr # a
      <4>1. p \in Bucket(buckets, req[p].addr)
        BY <3>1 DEF RecentAreKept
      <4>2. req[p].addr \in DOMAIN buckets \ gone /\ p \in buckets[req[p].addr]
        BY <3>1, <4>1 DEF Bucket
      <4> QED
        BY <1>6, <3>1, <3>3, <4>2 DEF Bucket
    <3> QED
      BY <3>2, <3>3
  <2> QED
    BY <2>1, <2>2
<1>24. WindowsAreLimited'
  BY <1>1, <1>11, <1>12, <1>14, <1>19, <1>20, <1>21, <1>23, WindowsOnlyShrink
<1> QED
  BY <1>19, <1>20, <1>21, <1>22, <1>23, <1>24

LEMMA NextIInv == IInv /\ [Next]_vars => IInv'
<1> SUFFICES ASSUME IInv, [Next]_vars PROVE IInv'
  OBVIOUS
<1>1. CASE Tick
  BY <1>1, TickKeeps
<1>2. CASE \E q \in Requests : ReadClock(q)
  BY <1>2, ReadClockKeeps
<1>3. CASE \E q \in Requests : Decide(q)
  BY <1>3, DecideKeeps
<1>4. CASE UNCHANGED vars
  BY <1>4 DEF vars, IInv, TypeOK, FiniteInv, Admitted, ReadingsAreRecent, BucketsAreOwn,
              RecentAreKept, Bucket, WindowsAreLimited, AdmittedIn
<1> QED
  BY <1>1, <1>2, <1>3, <1>4 DEF Next

-----------------------------------------------------------------------------
(* The inductive invariant holds of every state.                           *)
THEOREM Invariance == Spec => []IInv
BY InitIInv, NextIInv, PTL DEF Spec

(* The buckets of allow hold admissions, and never more than the limit.    *)
THEOREM TypeCorrect == Spec => []TypeOK
<1>1. IInv => TypeOK
  BY DEF IInv
<1> QED
  BY Invariance, <1>1, PTL

(* However late and out of order allow's clock readings come in, and while *)
(* its bucket is not evicted, no address is admitted more than the limit   *)
(* within a window that is shorter by the delay.                           *)
THEOREM WindowsStayLimited == Spec => []WindowsAreLimited
<1>1. IInv => WindowsAreLimited
  BY DEF IInv
<1> QED
  BY Invariance, <1>1, PTL

(* What a decision counts was admitted to the address within a window and  *)
(* the delay: the step behind RejectedAtTheLimit.                          *)
LEMMA RejectionCounts ==
  ASSUME IInv, NEW q \in Requests, Decide(q), req'[q].pc = "rejected"
  PROVE  Cardinality(AdmittedIn(req[q].addr, now - (Window + MaxDelay), now)) >= Limit
<1> USE DEF IInv
<1> DEFINE a == req[q].addr
           kept(gone) == Kept(IF a \in DOMAIN buckets \ gone THEN buckets[a] ELSE {}, req[q].t)
           W == AdmittedIn(a, now - (Window + MaxDelay), now)
<1>1. PICK gone \in Evicted : Decided(q, gone, kept(gone), HasRoom(kept(gone)))
  BY DecideIsDecided
<1>2. req[q].pc = "read" /\ req \in [Requests ->
         [pc : {"new", "read", "admitted", "rejected", "forgotten"},
          addr : Addrs, t : 0..now, at : 0..now]]
  BY DecideIsDecided DEF TypeOK
<1>3. ~ HasRoom(kept(gone))
  <2> HIDE DEF kept
  <2>1. req'[q].pc = IF HasRoom(kept(gone)) THEN "admitted" ELSE "rejected"
    BY <1>1, <1>2 DEF Decided
  <2> QED
    BY <2>1
<1>4. ASSUME NEW p \in kept(gone) PROVE p \in W
  <2>1. /\ p \in Requests /\ req[p].pc = "admitted" /\ req[p].addr = a
        /\ req[p].t > req[q].t - Window
    BY <1>4 DEF Kept, TypeOK, BucketsAreOwn
  <2>2. /\ now \in Nat /\ req[p].t \in Nat /\ req[p].at \in Nat /\ req[q].t \in Nat
        /\ req[p].at <= now
    BY <2>1 DEF TypeOK
  <2>3. req[p].t <= req[p].at /\ now - req[q].t <= MaxDelay
    BY <1>2, <2>1 DEF ReadingsAreRecent
  <2>4. req[p].at > now - (Window + MaxDelay)
    BY <2>1, <2>2, <2>3, RateLimitAssumption
  <2> QED
    BY <2>1, <2>2, <2>4 DEF AdmittedIn
<1>5. IsFiniteSet(W)
  <2>1. W \in SUBSET Admitted
    BY DEF AdmittedIn, Admitted
  <2> QED
    BY <2>1, FS_Subset DEF FiniteInv
<1>6. kept(gone) \in SUBSET W
  BY <1>4
<1> HIDE DEF kept, W
<1>7. /\ Cardinality(kept(gone)) <= Cardinality(W)
      /\ Cardinality(kept(gone)) \in Nat /\ Cardinality(W) \in Nat
  BY <1>5, <1>6, FS_Subset, FS_CardinalityType
<1>8. Cardinality(W) >= Limit
  BY <1>3, <1>7, LimitType DEF HasRoom
<1> QED
  BY <1>8 DEF W

(* allow turns nobody away below the limit: as many as it allows were      *)
(* admitted to the address within a window and the delay.                  *)
THEOREM RejectionsAreAtTheLimit == Spec => RejectedAtTheLimit
<1>1. IInv /\ [Next]_vars =>
        [\A q \in Requests : req[q].pc = "read" /\ req'[q].pc = "rejected" =>
           Cardinality(AdmittedIn(req[q].addr, now - (Window + MaxDelay), now)) >= Limit]_vars
  <2> SUFFICES ASSUME IInv, Next, NEW q \in Requests,
                      req[q].pc = "read", req'[q].pc = "rejected"
               PROVE  Cardinality(AdmittedIn(req[q].addr, now - (Window + MaxDelay), now)) >= Limit
    OBVIOUS
  <2>1. ~ Tick
    BY DEF Tick
  <2>2. ASSUME NEW p \in Requests, ReadClock(p) PROVE FALSE
    BY <2>2 DEF ReadClock, IInv, TypeOK
  <2>3. ASSUME NEW p \in Requests, Decide(p), p # q PROVE FALSE
    <3>1. PICK gone, kept, ok : Decided(p, gone, kept, ok)
      BY <2>3, DecideIsDecided
    <3> QED
      BY <2>3, <3>1 DEF Decided
  <2>4. Decide(q)
    BY <2>1, <2>2, <2>3 DEF Next
  <2> QED
    BY <2>4, RejectionCounts
<1> QED
  BY Invariance, <1>1, PTL DEF Spec, RejectedAtTheLimit
====
