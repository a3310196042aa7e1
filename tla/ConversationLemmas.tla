---- MODULE ConversationLemmas ----
(***************************************************************************)
(* What the operators of Conversation return, for transcripts of any       *)
(* length: the messages of a transcript are those of its groups, one       *)
(* behind the other, and an archive that is loaded and saved again is the  *)
(* archive it was.                                                         *)
(***************************************************************************)
EXTENDS Conversation, Integers, SequenceTheorems, WellFoundedInduction, TLAPS

(* Every set of natural numbers that is not empty has a least member.      *)
LEMMA LeastNat ==
  ASSUME NEW T, T \subseteq Nat, T # {}
  PROVE  \E x \in T : \A y \in T : ~ (y < x)
<1> DEFINE R == OpToRel(<, Nat)
<1>1. IsWellFoundedOn(R, Nat)
  BY NatLessThanWellFounded
<1> HIDE DEF R
<1>2. \E x \in T : \A y \in T : ~ (<<y, x>> \in R)
  BY <1>1, WFMin
<1>3. \A x \in Nat, y \in Nat : y < x => <<y, x>> \in R
  BY DEF R, OpToRel
<1> QED
  BY <1>2, <1>3

(* Induction over the natural numbers, for a set instead of a predicate.   *)
LEMMA NatSetInduction ==
  ASSUME NEW S, 0 \in S, \A n \in Nat : n \in S => n + 1 \in S
  PROVE  Nat \subseteq S
<1> DEFINE T == Nat \ S
<1> SUFFICES ASSUME T # {} PROVE FALSE
  OBVIOUS
<1>1. PICK x \in T : \A y \in T : ~ (y < x)
  BY LeastNat
<1>2. x # 0
  OBVIOUS
<1>3. x - 1 \in Nat /\ x - 1 < x
  BY <1>2
<1>4. x - 1 \in S
  BY <1>1, <1>3
<1>5. x \in S
  BY <1>3, <1>4
<1> QED
  BY <1>5

(* A function that is defined from its value one index lower exists.       *)
IsRecursive(f, n, a, G) ==
  \A k \in 1..n : f[k] = IF k = 1 THEN a ELSE G[<<f[k - 1], k>>]

LEMMA Recursion ==
  ASSUME NEW A, NEW n \in Nat, NEW a \in A, NEW G \in [A \X (2..n) -> A]
  PROVE  \E f \in [1..n -> A] : IsRecursive(f, n, a, G)
<1> DEFINE Def(f, m) == \A k \in 1..m : f[k] = IF k = 1 THEN a ELSE G[<<f[k - 1], k>>]
           S == { m \in Nat : m <= n => \E f \in [1..m -> A] : Def(f, m) }
<1>1. 0 \in S
  <2>1. [k \in 1..0 |-> a] \in [1..0 -> A] /\ Def([k \in 1..0 |-> a], 0)
    OBVIOUS
  <2> QED
    BY <2>1
<1>2. ASSUME NEW m \in Nat, m \in S PROVE m + 1 \in S
  <2> SUFFICES ASSUME m + 1 <= n PROVE \E f \in [1..(m + 1) -> A] : Def(f, m + 1)
    OBVIOUS
  <2>1. PICK f \in [1..m -> A] : Def(f, m)
    BY <1>2
  <2> DEFINE v == IF m = 0 THEN a ELSE G[<<f[m], m + 1>>]
             g == [k \in 1..(m + 1) |-> IF k = m + 1 THEN v ELSE f[k]]
  <2>2. v \in A
    OBVIOUS
  <2>3. g \in [1..(m + 1) -> A]
    BY <2>2
  <2>4. ASSUME NEW k \in 1..(m + 1) PROVE g[k] = IF k = 1 THEN a ELSE G[<<g[k - 1], k>>]
    <3>1. CASE k = m + 1
      <4>1. g[k] = v
        BY <3>1
      <4>2. m # 0 => g[k - 1] = f[m]
        BY <3>1
      <4>3. m = 0 => k = 1
        BY <3>1
      <4>4. m # 0 => k # 1
        BY <3>1
      <4> HIDE DEF g
      <4> QED
        BY <3>1, <4>1, <4>2, <4>3, <4>4
    <3>2. CASE k # m + 1
      <4>1. k \in 1..m /\ g[k] = f[k] /\ (k # 1 => g[k - 1] = f[k - 1])
        BY <3>2
      <4> QED
        BY <2>1, <4>1
    <3> QED
      BY <3>1, <3>2
  <2> HIDE DEF g
  <2> QED
    BY <2>3, <2>4
<1> HIDE DEF S
<1>3. n \in S
  BY <1>1, <1>2, NatSetInduction
<1> QED
  BY <1>3 DEF S, IsRecursive

(* What FlattenSeq computes: the sequences up to the i-th put together.    *)
IsFlattening(f, ss) ==
  f = [i \in 1..Len(ss) |-> IF i = 1 THEN ss[i] ELSE f[i - 1] \o ss[i]]

LEMMA FlatteningAt ==
  ASSUME NEW ss, NEW f, IsFlattening(f, ss), NEW i \in 1..Len(ss)
  PROVE  f[i] = IF i = 1 THEN ss[i] ELSE f[i - 1] \o ss[i]
<1>1. f[i] = [k \in 1..Len(ss) |-> IF k = 1 THEN ss[k] ELSE f[k - 1] \o ss[k]][i]
  BY DEF IsFlattening
<1> QED
  BY <1>1

LEMMA FlattenExists ==
  ASSUME NEW T, NEW ss \in Seq(Seq(T)), ss # <<>>
  PROVE  \E f \in [1..Len(ss) -> Seq(T)] : IsFlattening(f, ss)
<1> DEFINE n == Len(ss)
           G == [p \in Seq(T) \X (2..n) |-> p[1] \o ss[p[2]]]
           a == ss[1]
<1>1. n \in Nat /\ n # 0 /\ \A i \in 1..n : ss[i] \in Seq(T)
  BY EmptySeq
<1>2. G \in [Seq(T) \X (2..n) -> Seq(T)]
  <2>1. \A p \in Seq(T) \X (2..n) : p[1] \in Seq(T) /\ ss[p[2]] \in Seq(T)
    BY <1>1
  <2> QED
    BY <2>1
<1>3. \A s \in Seq(T), k \in 2..n : G[<<s, k>>] = s \o ss[k]
  OBVIOUS
<1>4. a \in Seq(T)
  BY <1>1
<1> DEFINE A == Seq(T)
<1> HIDE DEF n, G, a, A
<1>5. PICK f \in [1..n -> Seq(T)] :
        \A k \in 1..n : f[k] = IF k = 1 THEN a ELSE G[<<f[k - 1], k>>]
  <2>0. n \in Nat
    BY <1>1
  <2>1. G \in [A \X (2..n) -> A] /\ a \in A
    BY <1>2, <1>4 DEF A
  <2>2. \E f \in [1..n -> A] : IsRecursive(f, n, a, G)
    BY <2>0, <2>1, Recursion
  <2> QED
    BY <2>2 DEF A, IsRecursive
<1>6. ASSUME NEW k \in 1..n PROVE f[k] = IF k = 1 THEN ss[k] ELSE f[k - 1] \o ss[k]
  <2>1. CASE k = 1
    BY <1>5, <2>1 DEF a
  <2>2. CASE k # 1
    <3>1. k \in 2..n /\ k - 1 \in 1..n
      BY <1>1, <2>2
    <3>2. f[k] = G[<<f[k - 1], k>>] /\ f[k - 1] \in Seq(T)
      BY <1>5, <2>2, <3>1
    <3> QED
      BY <1>3, <2>2, <3>1, <3>2
  <2> QED
    BY <2>1, <2>2
<1>7. IsFlattening(f, ss)
  BY <1>6 DEF IsFlattening, n
<1> QED
  BY <1>7 DEF n

LEMMA FlattenUnique ==
  ASSUME NEW ss, Len(ss) \in Nat, NEW f, IsFlattening(f, ss), NEW g, IsFlattening(g, ss)
  PROVE  f = g
<1> DEFINE n == Len(ss)
           S == { m \in Nat : m \in 1..n => f[m] = g[m] }
<1>1. 0 \in S
  OBVIOUS
<1>2. \A m \in 1..n :
        /\ f[m] = IF m = 1 THEN ss[m] ELSE f[m - 1] \o ss[m]
        /\ g[m] = IF m = 1 THEN ss[m] ELSE g[m - 1] \o ss[m]
  BY FlatteningAt
<1>3. ASSUME NEW m \in Nat, m \in S PROVE m + 1 \in S
  <2> SUFFICES ASSUME m + 1 \in 1..n PROVE f[m + 1] = g[m + 1]
    OBVIOUS
  <2>1. m # 0 => f[m] = g[m]
    BY <1>3
  <2>2. m + 1 - 1 = m /\ (m + 1 = 1 <=> m = 0)
    OBVIOUS
  <2>3. /\ f[m + 1] = IF m = 0 THEN ss[m + 1] ELSE f[m] \o ss[m + 1]
        /\ g[m + 1] = IF m = 0 THEN ss[m + 1] ELSE g[m] \o ss[m + 1]
    BY <1>2, <2>2
  <2> QED
    BY <2>1, <2>3
<1> HIDE DEF S
<1>4. \A m \in 1..n : f[m] = g[m]
  <2>1. Nat \subseteq S
    BY <1>1, <1>3, NatSetInduction
  <2> QED
    BY <2>1 DEF S
<1>5. /\ f = [i \in 1..n |-> f[i]]
      /\ g = [i \in 1..n |-> g[i]]
  BY DEF IsFlattening
<1> QED
  BY <1>4, <1>5

(* FlattenSeq, unfolded.                                                   *)
LEMMA FlattenFunction ==
  ASSUME NEW T, NEW ss \in Seq(Seq(T)), ss # <<>>
  PROVE  \E f \in [1..Len(ss) -> Seq(T)] : IsFlattening(f, ss) /\ FlattenSeq(ss) = f[Len(ss)]
<1>1. Len(ss) \in Nat /\ Len(ss) # 0
  BY EmptySeq
<1>2. PICK f \in [1..Len(ss) -> Seq(T)] : IsFlattening(f, ss)
  BY FlattenExists
<1> DEFINE h == CHOOSE g : IsFlattening(g, ss)
<1>3. IsFlattening(h, ss)
  BY <1>2
<1>4. FlattenSeq(ss) = h[Len(ss)]
  BY <1>1 DEF FlattenSeq, IsFlattening
<1> HIDE DEF h
<1>5. h = f
  BY <1>1, <1>2, <1>3, FlattenUnique
<1> QED
  BY <1>2, <1>4, <1>5

LEMMA FlattenType ==
  ASSUME NEW T, NEW ss \in Seq(Seq(T))
  PROVE  FlattenSeq(ss) \in Seq(T)
<1>1. CASE ss = <<>>
  BY <1>1 DEF FlattenSeq
<1>2. CASE ss # <<>>
  <2>1. Len(ss) \in 1..Len(ss)
    BY <1>2, EmptySeq
  <2>2. PICK f \in [1..Len(ss) -> Seq(T)] : FlattenSeq(ss) = f[Len(ss)]
    BY <1>2, FlattenFunction
  <2> QED
    BY <2>1, <2>2
<1> QED
  BY <1>1, <1>2

LEMMA FlattenOne ==
  ASSUME NEW T, NEW s \in Seq(T)
  PROVE  FlattenSeq(<<s>>) = s
<1> DEFINE ss == <<s>>
<1>1. ss \in Seq(Seq(T)) /\ Len(ss) = 1 /\ ss # <<>> /\ ss[1] = s
  OBVIOUS
<1> HIDE DEF ss
<1>2. PICK f : IsFlattening(f, ss) /\ FlattenSeq(ss) = f[1]
  BY <1>1, FlattenFunction
<1>3. f[1] = ss[1]
  BY <1>1, <1>2, FlatteningAt
<1> QED
  BY <1>1, <1>2, <1>3 DEF ss

LEMMA FlattenAppend ==
  ASSUME NEW T, NEW ss \in Seq(Seq(T)), NEW s \in Seq(T)
  PROVE  FlattenSeq(Append(ss, s)) = FlattenSeq(ss) \o s
<1>1. CASE ss = <<>>
  <2>1. Append(ss, s) = <<s>> /\ FlattenSeq(ss) = <<>>
    BY <1>1 DEF FlattenSeq
  <2> QED
    BY <2>1, FlattenOne, ConcatEmptySeq
<1>2. CASE ss # <<>>
  <2> DEFINE n == Len(ss)
             tt == Append(ss, s)
  <2>1. /\ n \in Nat /\ n # 0 /\ tt \in Seq(Seq(T)) /\ tt # <<>> /\ Len(tt) = n + 1
        /\ \A i \in 1..n : tt[i] = ss[i]
        /\ tt[n + 1] = s
    BY <1>2, EmptySeq, AppendProperties
  <2> HIDE DEF n, tt
  <2>2. PICK f : IsFlattening(f, tt) /\ FlattenSeq(tt) = f[n + 1]
    BY <2>1, FlattenFunction
  <2> DEFINE g == [i \in 1..n |-> f[i]]
  <2>3. ASSUME NEW i \in 1..n PROVE g[i] = IF i = 1 THEN ss[i] ELSE g[i - 1] \o ss[i]
    <3>0. i \in 1..Len(tt)
      BY <2>1
    <3>1. f[i] = IF i = 1 THEN tt[i] ELSE f[i - 1] \o tt[i]
      BY <2>2, <3>0, FlatteningAt
    <3>2. i # 1 => g[i - 1] = f[i - 1]
      BY <2>1
    <3>3. g[i] = f[i] /\ tt[i] = ss[i]
      BY <2>1
    <3> HIDE DEF g
    <3> QED
      BY <3>1, <3>2, <3>3
  <2>4. g = [i \in 1..n |-> g[i]]
    OBVIOUS
  <2>5. g[n] = f[n]
    BY <2>1
  <2> HIDE DEF g
  <2>6. IsFlattening(g, ss)
    BY <2>3, <2>4 DEF IsFlattening, n
  <2>7. PICK h : IsFlattening(h, ss) /\ FlattenSeq(ss) = h[n]
    BY <1>2, FlattenFunction DEF n
  <2>8. g = h
    BY <2>1, <2>6, <2>7, FlattenUnique DEF n
  <2>9. f[n + 1] = f[n] \o s
    <3>1. ASSUME NEW i \in 1..Len(tt), i # 1, NEW k, k = i - 1 PROVE f[i] = f[k] \o tt[i]
      BY <2>2, <3>1, FlatteningAt
    <3>2. n + 1 \in 1..Len(tt) /\ n + 1 # 1 /\ n = (n + 1) - 1
      BY <2>1
    <3> DEFINE i == n + 1
    <3>3. i \in 1..Len(tt) /\ i # 1 /\ n = i - 1
      BY <3>2
    <3> HIDE DEF i
    <3>4. f[i] = f[n] \o tt[i]
      BY <3>1, <3>3
    <3>5. f[n + 1] = f[n] \o tt[n + 1]
      BY <3>4 DEF i
    <3> QED
      BY <2>1, <3>5
  <2> QED
    BY <2>2, <2>5, <2>7, <2>8, <2>9 DEF tt
<1> QED
  BY <1>1, <1>2

(* Induction over sequences, for a set instead of a predicate.             *)
LEMMA SeqSetInduction ==
  ASSUME NEW T, NEW S, <<>> \in S,
         \A s \in Seq(T), e \in T : s \in S => Append(s, e) \in S
  PROVE  Seq(T) \subseteq S
<1> DEFINE N == { n \in Nat : \A s \in Seq(T) : Len(s) = n => s \in S }
<1>1. 0 \in N
  <2>1. \A s \in Seq(T) : Len(s) = 0 => s = <<>>
    BY EmptySeq
  <2> QED
    BY <2>1
<1>2. ASSUME NEW n \in Nat, n \in N PROVE n + 1 \in N
  <2> SUFFICES ASSUME NEW s \in Seq(T), Len(s) = n + 1 PROVE s \in S
    OBVIOUS
  <2>1. s # <<>>
    BY EmptySeq
  <2>2. PICK t \in Seq(T), e \in T : s = Append(t, e)
    BY <2>1, SequenceEmptyOrAppend
  <2>3. Len(t) = n
    BY <2>2
  <2> QED
    BY <1>2, <2>2, <2>3
<1> HIDE DEF N
<1>3. Nat \subseteq N
  BY <1>1, <1>2, NatSetInduction
<1> QED
  BY <1>3 DEF N

LEMMA AppendConcat ==
  ASSUME NEW T, NEW s \in Seq(T), NEW t \in Seq(T), NEW e \in T
  PROVE  s \o Append(t, e) = Append(s \o t, e)
<1>1. Append(t, e) = t \o <<e>> /\ <<e>> \in Seq(T) /\ s \o t \in Seq(T)
  BY AppendIsConcat
<1>2. Append(s \o t, e) = (s \o t) \o <<e>>
  BY <1>1, AppendIsConcat
<1> QED
  BY <1>1, <1>2, ConcatAssociative

LEMMA FlattenConcat ==
  ASSUME NEW T, NEW ss \in Seq(Seq(T)), NEW tt \in Seq(Seq(T))
  PROVE  FlattenSeq(ss \o tt) = FlattenSeq(ss) \o FlattenSeq(tt)
<1> DEFINE Q == Seq(T)
           S == { u \in Seq(Q) : FlattenSeq(ss \o u) = FlattenSeq(ss) \o FlattenSeq(u) }
<1>0. ss \in Seq(Q) /\ tt \in Seq(Q) /\ FlattenSeq(ss) \in Seq(T)
  BY FlattenType
<1>1. <<>> \in S
  <2>1. FlattenSeq(<<>>) = <<>>
    BY DEF FlattenSeq
  <2>2. ss \o <<>> = ss /\ FlattenSeq(ss) \o <<>> = FlattenSeq(ss)
    BY <1>0, ConcatEmptySeq
  <2>3. <<>> \in Seq(Q)
    OBVIOUS
  <2> HIDE DEF Q
  <2> QED
    BY <2>1, <2>2, <2>3
<1>2. ASSUME NEW u \in Seq(Q), NEW s \in Q, u \in S PROVE Append(u, s) \in S
  <2>1. ss \o Append(u, s) = Append(ss \o u, s) /\ ss \o u \in Seq(Q) /\ Append(u, s) \in Seq(Q)
    BY <1>0, AppendConcat
  <2>2. /\ FlattenSeq(Append(ss \o u, s)) = FlattenSeq(ss \o u) \o s
        /\ FlattenSeq(Append(u, s)) = FlattenSeq(u) \o s
    BY <2>1, FlattenAppend
  <2>3. FlattenSeq(u) \in Seq(T)
    BY FlattenType
  <2>4. (FlattenSeq(ss) \o FlattenSeq(u)) \o s = FlattenSeq(ss) \o (FlattenSeq(u) \o s)
    BY <1>0, <2>3, ConcatAssociative, SMTT(30)
  <2> QED
    BY <1>2, <2>1, <2>2, <2>4
<1> HIDE DEF S, Q
<1>3. Seq(Q) \subseteq S
  BY <1>1, <1>2, SeqSetInduction
<1> QED
  BY <1>0, <1>3 DEF S

-----------------------------------------------------------------------------
(* Mapping the members of a sequence to sequences and putting those        *)
(* together, which is what reading a transcript or an archive amounts to.  *)
Mapped(g, s) == FlattenSeq([i \in 1..Len(s) |-> g[s[i]]])

LEMMA MappedType ==
  ASSUME NEW T, NEW U, NEW g \in [T -> Seq(U)], NEW s \in Seq(T)
  PROVE  /\ [i \in 1..Len(s) |-> g[s[i]]] \in Seq(Seq(U))
         /\ Mapped(g, s) \in Seq(U)
<1>1. [i \in 1..Len(s) |-> g[s[i]]] \in Seq(Seq(U))
  OBVIOUS
<1> QED
  BY <1>1, FlattenType DEF Mapped

LEMMA MappedEmpty ==
  ASSUME NEW g
  PROVE  Mapped(g, <<>>) = <<>>
<1>1. [i \in 1..Len(<<>>) |-> g[<<>>[i]]] = <<>>
  OBVIOUS
<1>2. FlattenSeq(<<>>) = <<>>
  BY DEF FlattenSeq
<1> QED
  BY <1>1, <1>2 DEF Mapped

LEMMA MappedOne ==
  ASSUME NEW T, NEW U, NEW g \in [T -> Seq(U)], NEW e \in T
  PROVE  Mapped(g, <<e>>) = g[e]
<1>1. [i \in 1..Len(<<e>>) |-> g[<<e>>[i]]] = <<g[e]>> /\ g[e] \in Seq(U)
  OBVIOUS
<1> QED
  BY <1>1, FlattenOne DEF Mapped

LEMMA MappedConcat ==
  ASSUME NEW T, NEW U, NEW g \in [T -> Seq(U)], NEW s \in Seq(T), NEW t \in Seq(T)
  PROVE  Mapped(g, s \o t) = Mapped(g, s) \o Mapped(g, t)
<1> DEFINE Q == Seq(U)
           st == s \o t
           a  == [i \in 1..Len(s) |-> g[s[i]]]
           b  == [i \in 1..Len(t) |-> g[t[i]]]
           ab == [i \in 1..Len(st) |-> g[st[i]]]
<1>1. /\ st \in Seq(T) /\ Len(st) = Len(s) + Len(t)
      /\ \A i \in 1..(Len(s) + Len(t)) : st[i] = IF i <= Len(s) THEN s[i] ELSE t[i - Len(s)]
      /\ Len(s) \in Nat /\ Len(t) \in Nat
  BY ConcatProperties
<1> HIDE DEF st
<1>2. /\ a \in Seq(Q) /\ Len(a) = Len(s) /\ \A i \in 1..Len(s) : a[i] = g[s[i]]
      /\ b \in Seq(Q) /\ Len(b) = Len(t) /\ \A i \in 1..Len(t) : b[i] = g[t[i]]
      /\ ab \in Seq(Q) /\ Len(ab) = Len(st) /\ \A i \in 1..Len(st) : ab[i] = g[st[i]]
  BY <1>1
<1>3. /\ Mapped(g, s) = FlattenSeq(a) /\ Mapped(g, t) = FlattenSeq(b)
      /\ Mapped(g, st) = FlattenSeq(ab)
  BY DEF Mapped
<1> HIDE DEF a, b, ab, Q
<1>4. /\ a \o b \in Seq(Q) /\ Len(a \o b) = Len(s) + Len(t)
      /\ \A i \in 1..(Len(s) + Len(t)) :
           (a \o b)[i] = IF i <= Len(s) THEN a[i] ELSE b[i - Len(s)]
  <2>1. a \in Seq(Q) /\ b \in Seq(Q)
    BY <1>2
  <2>2. /\ a \o b \in Seq(Q) /\ Len(a \o b) = Len(a) + Len(b)
        /\ \A i \in 1..(Len(a) + Len(b)) : (a \o b)[i] = IF i <= Len(a) THEN a[i] ELSE b[i - Len(a)]
    BY <2>1, ConcatProperties
  <2> QED
    BY <1>2, <2>2
<1>5. ASSUME NEW i \in 1..Len(ab) PROVE ab[i] = (a \o b)[i]
  <2>0. i \in 1..(Len(s) + Len(t)) /\ ab[i] = g[st[i]]
    BY <1>1, <1>2
  <2>1. CASE i <= Len(s)
    <3>1. i \in 1..Len(s)
      BY <2>0, <2>1
    <3> QED
      BY <1>1, <1>2, <1>4, <2>0, <2>1, <3>1
  <2>2. CASE ~ (i <= Len(s))
    <3>1. i - Len(s) \in 1..Len(t)
      BY <1>1, <2>0, <2>2
    <3> QED
      BY <1>1, <1>2, <1>4, <2>0, <2>2, <3>1
  <2> QED
    BY <2>1, <2>2
<1>6. ab = a \o b
  BY <1>1, <1>2, <1>4, <1>5, SeqEqual
<1>7. FlattenSeq(a \o b) = FlattenSeq(a) \o FlattenSeq(b)
  BY <1>2, FlattenConcat DEF Q
<1> QED
  BY <1>3, <1>6, <1>7 DEF st

LEMMA MappedAppend ==
  ASSUME NEW T, NEW U, NEW g \in [T -> Seq(U)], NEW s \in Seq(T), NEW e \in T
  PROVE  Mapped(g, Append(s, e)) = Mapped(g, s) \o g[e]
<1>1. Append(s, e) = s \o <<e>> /\ <<e>> \in Seq(T)
  BY AppendIsConcat
<1> DEFINE o == <<e>>
<1>2. o \in Seq(T)
  BY <1>1
<1> HIDE DEF o
<1>0. g \in [T -> Seq(U)] /\ s \in Seq(T)
  OBVIOUS
<1>3. Mapped(g, s \o o) = Mapped(g, s) \o Mapped(g, o)
  BY <1>0, <1>2, MappedConcat, SMTT(30)
<1>4. Mapped(g, <<e>>) = g[e]
  BY MappedOne
<1> QED
  BY <1>1, <1>3, <1>4 DEF o

(* A mapping that keeps nothing.                                           *)
LEMMA MappedNothing ==
  ASSUME NEW T, NEW U, NEW g \in [T -> Seq(U)], NEW s \in Seq(T),
         \A i \in 1..Len(s) : g[s[i]] = <<>>
  PROVE  Mapped(g, s) = <<>>
<1> DEFINE S == { t \in Seq(T) : (\A i \in 1..Len(t) : g[t[i]] = <<>>) => Mapped(g, t) = <<>> }
<1>1. <<>> \in S
  BY MappedEmpty
<1>2. ASSUME NEW t \in Seq(T), NEW e \in T, t \in S PROVE Append(t, e) \in S
  <2> SUFFICES ASSUME \A i \in 1..Len(Append(t, e)) : g[Append(t, e)[i]] = <<>>
               PROVE  Mapped(g, Append(t, e)) = <<>>
    BY AppendProperties
  <2>1. /\ Len(Append(t, e)) = Len(t) + 1 /\ Len(t) \in Nat
        /\ \A i \in 1..Len(t) : Append(t, e)[i] = t[i]
        /\ Append(t, e)[Len(t) + 1] = e
    BY AppendProperties
  <2>2. \A i \in 1..Len(t) : g[t[i]] = <<>>
    BY <2>1
  <2>3. g[e] = <<>>
    BY <2>1
  <2>4. Mapped(g, t) = <<>>
    BY <1>2, <2>2
  <2> QED
    BY <2>3, <2>4, MappedAppend
<1> HIDE DEF S
<1>3. Seq(T) \subseteq S
  BY <1>1, <1>2, SeqSetInduction
<1> QED
  BY <1>3 DEF S

-----------------------------------------------------------------------------
(* persistableConvTurns, member by member.                                 *)
KeptTurn(T) == [t \in T |-> IF IsPersistable(t) THEN <<t>> ELSE <<>>]

LEMMA PersistableIsMapped ==
  ASSUME NEW T, NEW turns \in Seq(T)
  PROVE  /\ KeptTurn(T) \in [T -> Seq(T)]
         /\ persistableConvTurns(turns) = Mapped(KeptTurn(T), turns)
<1>1. KeptTurn(T) \in [T -> Seq(T)]
  BY DEF KeptTurn
<1>2. \A i \in 1..Len(turns) :
        KeptTurn(T)[turns[i]] = IF IsPersistable(turns[i]) THEN <<turns[i]>> ELSE <<>>
  BY DEF KeptTurn
<1> QED
  BY <1>1, <1>2 DEF persistableConvTurns, Mapped

LEMMA PersistableConcat ==
  ASSUME NEW T, NEW s \in Seq(T), NEW t \in Seq(T)
  PROVE  /\ persistableConvTurns(s) \in Seq(T)
         /\ persistableConvTurns(s \o t) = persistableConvTurns(s) \o persistableConvTurns(t)
<1> DEFINE k == KeptTurn(T)
           st == s \o t
<1>1. st \in Seq(T)
  BY ConcatProperties
<1> HIDE DEF k, st
<1>2. /\ k \in [T -> Seq(T)]
      /\ persistableConvTurns(s) = Mapped(k, s) /\ persistableConvTurns(t) = Mapped(k, t)
      /\ persistableConvTurns(st) = Mapped(k, st)
  BY <1>1, PersistableIsMapped DEF k
<1>3. Mapped(k, st) = Mapped(k, s) \o Mapped(k, t) /\ Mapped(k, s) \in Seq(T)
  <2>1. Mapped(k, s \o t) = Mapped(k, s) \o Mapped(k, t)
    BY <1>2, MappedConcat
  <2>2. Mapped(k, s) \in Seq(T)
    BY <1>2, MappedType
  <2> QED
    BY <2>1, <2>2 DEF st
<1> QED
  BY <1>2, <1>3 DEF st

LEMMA PersistableOne ==
  ASSUME NEW e
  PROVE  persistableConvTurns(<<e>>) = IF IsPersistable(e) THEN <<e>> ELSE <<>>
<1> DEFINE T == {e}
<1>1. <<e>> \in Seq(T) /\ e \in T
  OBVIOUS
<1>2. persistableConvTurns(<<e>>) = KeptTurn(T)[e]
  BY <1>1, PersistableIsMapped, MappedOne
<1> QED
  BY <1>2 DEF KeptTurn
-----------------------------------------------------------------------------
(* The loop of TurnsToMessages.  Turns and messages hold texts of any set  *)
(* X and calls of any set C.                                               *)
TurnsOver(X, C) ==
  [role : {"user", "assistant", "toolcall", "toolresult", "error", "meta"},
   text : X, reasoning : X, stream : BOOLEAN, call : C]

MessagesOver(X, C) ==
  [role : {"user", "assistant", "tool"}, content : X, reasoning : X,
   calls : Seq(C), answers : C]

IsAnswerTurn(t) == t.role = "assistant" /\ ~t.stream

(* What BlockLength chooses.                                               *)
IsBlock(s, i, role, n) ==
  /\ \A k \in i..(i + n - 1) : s[k].role = role
  /\ i + n <= Len(s) => s[i + n].role # role

LEMMA BlockIsUnique ==
  ASSUME NEW s, Len(s) \in Nat, NEW i \in 1..(Len(s) + 1), NEW role,
         NEW m \in 0..(Len(s) + 1 - i), IsBlock(s, i, role, m),
         NEW n \in 0..(Len(s) + 1 - i), IsBlock(s, i, role, n)
  PROVE  m = n
<1>1. ASSUME NEW x \in 0..(Len(s) + 1 - i), IsBlock(s, i, role, x),
             NEW y \in 0..(Len(s) + 1 - i), IsBlock(s, i, role, y), x < y
      PROVE  FALSE
  <2>1. i + x \in i..(i + y - 1) /\ i + x <= Len(s)
    BY <1>1
  <2> QED
    BY <1>1, <2>1 DEF IsBlock
<1> QED
  BY <1>1

LEMMA BlockLengthIsBlock ==
  ASSUME NEW s, Len(s) \in Nat, NEW i \in 1..(Len(s) + 1), NEW role
  PROVE  /\ BlockLength(s, i, role) \in 0..(Len(s) + 1 - i)
         /\ IsBlock(s, i, role, BlockLength(s, i, role))
<1> DEFINE L == Len(s)
           T == { n \in Nat : i + n > L \/ s[i + n].role # role }
<1>1. L + 1 - i \in T
  OBVIOUS
<1>2. PICK n \in T : \A y \in T : ~ (y < n)
  BY <1>1, LeastNat
<1>3. n \in 0..(L + 1 - i)
  <2>1. n \in Nat /\ L + 1 - i \in Nat
    OBVIOUS
  <2>2. ~ (L + 1 - i < n)
    BY <1>1, <1>2
  <2> QED
    BY <2>1, <2>2
<1>4. ASSUME NEW k \in i..(i + n - 1) PROVE s[k].role = role
  <2>1. k - i \in Nat /\ k - i < n /\ i + (k - i) = k /\ k <= L
    BY <1>3
  <2> QED
    BY <1>2, <2>1
<1>5. IsBlock(s, i, role, n)
  BY <1>2, <1>3, <1>4 DEF IsBlock
<1>6. BlockLength(s, i, role) = CHOOSE x \in 0..(L + 1 - i) : IsBlock(s, i, role, x)
  BY DEF BlockLength, IsBlock
<1> HIDE DEF L, T
<1> QED
  BY <1>3, <1>5, <1>6 DEF L

LEMMA BlockLengthIs ==
  ASSUME NEW s, Len(s) \in Nat, NEW i \in 1..(Len(s) + 1), NEW role,
         NEW n \in 0..(Len(s) + 1 - i), IsBlock(s, i, role, n)
  PROVE  BlockLength(s, i, role) = n
BY BlockLengthIsBlock, BlockIsUnique

(* The calls and results an answer at i takes, what is put out at i, and   *)
(* where the loop goes on.                                                 *)
CallsTaken(s, i) == BlockLength(s, i + 1, "toolcall")

ResultsTaken(s, i) ==
  AnswersTaken(CallsTaken(s, i), BlockLength(s, i + 1 + CallsTaken(s, i), "toolresult"))

AnswerOut(s, i) ==
  LET n     == CallsTaken(s, i)
      calls == [k \in 1..n |-> s[i + k].call]
  IN  <<AssistantMessage(s[i], calls)>>
      \o [k \in 1..ResultsTaken(s, i) |-> ToolMessage(s[i + 1 + n + k - 1], AnsweredBy(calls, k))]

NextAt(s, i) ==
  IF IsAnswerTurn(s[i]) THEN i + 1 + CallsTaken(s, i) + ResultsTaken(s, i) ELSE i + 1

LEMMA TakenBounds ==
  ASSUME NEW s, Len(s) \in Nat, NEW i \in 1..Len(s)
  PROVE  /\ CallsTaken(s, i) \in 0..(Len(s) - i)
         /\ ResultsTaken(s, i) \in 0..CallsTaken(s, i)
         /\ i + CallsTaken(s, i) + ResultsTaken(s, i) <= Len(s)
         /\ NextAt(s, i) \in (i + 1)..(Len(s) + 1)
<1> DEFINE n == CallsTaken(s, i)
           j == i + 1 + n
           b == BlockLength(s, j, "toolresult")
<1>1. n \in 0..(Len(s) - i)
  BY BlockLengthIsBlock DEF CallsTaken
<1>2. j \in 1..(Len(s) + 1)
  BY <1>1
<1> HIDE DEF n, j
<1>3. b \in 0..(Len(s) + 1 - j)
  BY <1>2, BlockLengthIsBlock
<1>4. ResultsTaken(s, i) = IF b < n THEN b ELSE n
  BY DEF ResultsTaken, AnswersTaken, n, j
<1> HIDE DEF b
<1> QED
  BY <1>1, <1>3, <1>4 DEF NextAt, n, j

LEMMA AnswerOutType ==
  ASSUME NEW X, NEW C, <<>> \in X, NoCall \in C, NEW s \in Seq(TurnsOver(X, C)),
         NEW i \in 1..Len(s)
  PROVE  AnswerOut(s, i) \in Seq(MessagesOver(X, C))
<1> DEFINE n == CallsTaken(s, i)
           m == ResultsTaken(s, i)
           calls == [k \in 1..n |-> s[i + k].call]
           tools == [k \in 1..m |-> ToolMessage(s[i + 1 + n + k - 1], AnsweredBy(calls, k))]
           a == AssistantMessage(s[i], calls)
           M == MessagesOver(X, C)
<1>1. n \in 0..(Len(s) - i) /\ m \in 0..n /\ i + n + m <= Len(s)
  BY TakenBounds
<1>2. \A k \in 1..Len(s) : s[k].call \in C /\ s[k].text \in X /\ s[k].reasoning \in X
  <2>1. \A k \in 1..Len(s) : s[k] \in TurnsOver(X, C)
    OBVIOUS
  <2> QED
    BY <2>1 DEF TurnsOver
<1>0. AnswerOut(s, i) = <<a>> \o tools
  BY DEF AnswerOut
<1> HIDE DEF n, m
<1>3. calls \in Seq(C) /\ \A k \in 1..n : calls[k] = s[i + k].call
  <2>1. \A k \in 1..n : s[i + k].call \in C
    BY <1>1, <1>2, SMTT(30)
  <2> QED
    BY <1>1, <2>1
<1> HIDE DEF calls
<1>4. a \in M
  BY <1>2, <1>3 DEF AssistantMessage, Message, MessagesOver
<1>5. tools \in Seq(M)
  <2>1. ASSUME NEW k \in 1..m PROVE ToolMessage(s[i + 1 + n + k - 1], AnsweredBy(calls, k)) \in M
    <3>1. i + 1 + n + k - 1 \in 1..Len(s) /\ k \in 1..n /\ i + k \in 1..Len(s)
      BY <1>1
    <3>2. calls[k] \in C /\ s[i + 1 + n + k - 1].text \in X
      BY <1>2, <1>3, <3>1
    <3>3. <<>> \in Seq(C)
      OBVIOUS
    <3> QED
      BY <3>2, <3>3 DEF ToolMessage, Message, MessagesOver, AnsweredBy
  <2> QED
    BY <1>1, <2>1
<1>6. <<a>> \in Seq(M)
  BY <1>4
<1> HIDE DEF a, tools, M
<1>7. <<a>> \o tools \in Seq(M)
  BY <1>5, <1>6, ConcatProperties
<1> QED
  BY <1>0, <1>7 DEF M

(* One round of the loop, given the results f of the rounds behind it.     *)
Round(s, f, i) ==
  IF i > Len(s) THEN <<>>
  ELSE CASE s[i].role = "user" -> <<UserMessage(s[i])>> \o f[i + 1]
         [] s[i].role = "assistant" /\ ~s[i].stream ->
              LET n     == BlockLength(s, i + 1, "toolcall")
                  first == i + 1 + n
                  m     == AnswersTaken(n, BlockLength(s, first, "toolresult"))
                  calls == [k \in 1..n |-> s[i + k].call]
              IN  <<AssistantMessage(s[i], calls)>>
                  \o [k \in 1..m |-> ToolMessage(s[first + k - 1], AnsweredBy(calls, k))]
                  \o f[first + m]
         [] OTHER -> f[i + 1]

IsLoop(f, s) == f = [i \in 1..(Len(s) + 1) |-> Round(s, f, i)]

LEMMA LoopMessagesIsLoop ==
  ASSUME NEW s
  PROVE  LoopMessages(s) = (CHOOSE f : IsLoop(f, s))[1]
BY DEF LoopMessages, IsLoop, Round

LEMMA RoundEnd ==
  \A s, f, i : i > Len(s) => Round(s, f, i) = <<>>
BY DEF Round

LEMMA RoundUser ==
  \A s, f, i : ~(i > Len(s)) /\ s[i].role = "user" =>
                 Round(s, f, i) = <<UserMessage(s[i])>> \o f[i + 1]
BY DEF Round

LEMMA RoundAnswer ==
  \A s, f, i : ~(i > Len(s)) /\ IsAnswerTurn(s[i]) =>
                 Round(s, f, i) = AnswerOut(s, i) \o f[NextAt(s, i)]
<1> SUFFICES ASSUME NEW s, NEW f, NEW i, ~(i > Len(s)), IsAnswerTurn(s[i])
             PROVE  Round(s, f, i) = AnswerOut(s, i) \o f[NextAt(s, i)]
  OBVIOUS
<1> QED
  BY DEF Round, IsAnswerTurn, AnswerOut, NextAt, CallsTaken, ResultsTaken

LEMMA RoundOther ==
  \A s, f, i : ~(i > Len(s)) /\ s[i].role # "user" /\ ~IsAnswerTurn(s[i]) =>
                 Round(s, f, i) = f[i + 1]
BY DEF Round, IsAnswerTurn

LEMMA UserMessageType ==
  ASSUME NEW X, NEW C, <<>> \in X, NoCall \in C, NEW t \in TurnsOver(X, C)
  PROVE  <<UserMessage(t)>> \in Seq(MessagesOver(X, C))
<1>1. t.text \in X /\ <<>> \in Seq(C)
  BY DEF TurnsOver
<1>2. UserMessage(t) \in MessagesOver(X, C)
  BY <1>1 DEF UserMessage, Message, MessagesOver
<1> QED
  BY <1>2

LEMMA RoundType ==
  ASSUME NEW X, NEW C, <<>> \in X, NoCall \in C, NEW s \in Seq(TurnsOver(X, C)),
         NEW f \in [1..(Len(s) + 1) -> Seq(MessagesOver(X, C))], NEW i \in 1..(Len(s) + 1)
  PROVE  Round(s, f, i) \in Seq(MessagesOver(X, C))
<1> DEFINE M == MessagesOver(X, C)
           u == <<UserMessage(s[i])>>
           a == AnswerOut(s, i)
<1>0. f \in [1..(Len(s) + 1) -> Seq(M)] /\ Len(s) \in Nat /\ i \in Nat
  OBVIOUS
<1>1. CASE i > Len(s)
  <2>1. <<>> \in Seq(M)
    OBVIOUS
  <2>2. Round(s, f, i) = <<>>
    BY <1>1, RoundEnd
  <2> HIDE DEF M
  <2> QED
    BY <2>1, <2>2 DEF M
<1>2. CASE ~(i > Len(s)) /\ s[i].role = "user"
  <2>1. i \in 1..Len(s) /\ i + 1 \in 1..(Len(s) + 1)
    BY <1>0, <1>2
  <2>2. s[i] \in TurnsOver(X, C)
    BY <2>1
  <2>3. u \in Seq(M)
    BY <2>2, UserMessageType
  <2>4. Round(s, f, i) = u \o f[i + 1]
    BY <1>2, RoundUser
  <2> HIDE DEF M, u
  <2>5. f[i + 1] \in Seq(M)
    BY <1>0, <2>1
  <2>6. u \o f[i + 1] \in Seq(M)
    BY <2>3, <2>5, ConcatProperties
  <2> QED
    BY <2>4, <2>6 DEF M
<1>3. CASE ~(i > Len(s)) /\ IsAnswerTurn(s[i])
  <2>1. i \in 1..Len(s)
    BY <1>0, <1>3
  <2>2. NextAt(s, i) \in 1..(Len(s) + 1)
    BY <1>0, <2>1, TakenBounds
  <2>3. a \in Seq(M)
    BY <2>1, AnswerOutType
  <2>4. Round(s, f, i) = a \o f[NextAt(s, i)]
    BY <1>3, RoundAnswer
  <2> HIDE DEF M, a
  <2>5. f[NextAt(s, i)] \in Seq(M)
    BY <1>0, <2>2
  <2>6. a \o f[NextAt(s, i)] \in Seq(M)
    BY <2>3, <2>5, ConcatProperties
  <2> QED
    BY <2>4, <2>6 DEF M
<1>4. CASE ~(i > Len(s)) /\ s[i].role # "user" /\ ~IsAnswerTurn(s[i])
  <2>1. i + 1 \in 1..(Len(s) + 1)
    BY <1>0, <1>4
  <2> QED
    BY <1>0, <1>4, <2>1, RoundOther
<1> QED
  BY <1>1, <1>2, <1>3, <1>4

(* A round looks only at the results of the rounds behind it.              *)
LEMMA RoundSame ==
  ASSUME NEW s, Len(s) \in Nat, NEW i \in 1..(Len(s) + 1), NEW f, NEW g,
         \A k \in (i + 1)..(Len(s) + 1) : f[k] = g[k]
  PROVE  Round(s, f, i) = Round(s, g, i)
<1>1. CASE i > Len(s)
  BY <1>1, RoundEnd
<1>2. CASE ~(i > Len(s)) /\ IsAnswerTurn(s[i])
  <2>1. NextAt(s, i) \in (i + 1)..(Len(s) + 1)
    BY <1>2, TakenBounds
  <2> QED
    BY <1>2, <2>1, RoundAnswer
<1>3. CASE ~(i > Len(s)) /\ ~IsAnswerTurn(s[i])
  <2>1. f[i + 1] = g[i + 1]
    BY <1>3
  <2>2. CASE s[i].role = "user"
    <3>1. \A h : Round(s, h, i) = <<UserMessage(s[i])>> \o h[i + 1]
      BY <1>3, <2>2, RoundUser
    <3>2. /\ Round(s, f, i) = <<UserMessage(s[i])>> \o f[i + 1]
          /\ Round(s, g, i) = <<UserMessage(s[i])>> \o g[i + 1]
      BY <3>1
    <3> QED
      BY <2>1, <3>2
  <2>3. CASE s[i].role # "user"
    BY <1>3, <2>1, <2>3, RoundOther
  <2> QED
    BY <2>2, <2>3
<1> QED
  BY <1>1, <1>2, <1>3

LEMMA LoopExists ==
  ASSUME NEW X, NEW C, <<>> \in X, NoCall \in C, NEW s \in Seq(TurnsOver(X, C))
  PROVE  \E f \in [1..(Len(s) + 1) -> Seq(MessagesOver(X, C))] :
            \A k \in 1..(Len(s) + 1) : f[k] = Round(s, f, k)
<1> DEFINE L == Len(s)
           Q == Seq(MessagesOver(X, C))
           From(n) == \E f \in [1..(L + 1) -> Q] :
                         \A k \in (L + 1 - n)..(L + 1) : k >= 1 => f[k] = Round(s, f, k)
<1>1. L \in Nat
  OBVIOUS
<1>2. \A f \in [1..(L + 1) -> Q], k \in 1..(L + 1) : Round(s, f, k) \in Q
  BY RoundType
<1>3. \A k \in 1..(L + 1) : \A f, g :
        (\A j \in (k + 1)..(L + 1) : f[j] = g[j]) => Round(s, f, k) = Round(s, g, k)
  BY <1>1, RoundSame
<1>4. <<>> \in Q
  OBVIOUS
<1> HIDE DEF L, Q
<1>5. From(0)
  <2> DEFINE f == [k \in 1..(L + 1) |-> <<>>]
  <2>1. f \in [1..(L + 1) -> Q]
    BY <1>4
  <2>2. \A k \in (L + 1 - 0)..(L + 1) : k >= 1 => f[k] = Round(s, f, k)
    BY <1>1, RoundEnd DEF L
  <2> QED
    BY <2>1, <2>2
<1>6. ASSUME NEW n \in Nat, From(n) PROVE From(n + 1)
  <2>1. PICK f \in [1..(L + 1) -> Q] :
               \A k \in (L + 1 - n)..(L + 1) : k >= 1 => f[k] = Round(s, f, k)
    BY <1>6
  <2> DEFINE i == L - n
             g == [f EXCEPT ![i] = Round(s, f, i)]
  <2>2. CASE i >= 1
    <3>1. i \in 1..(L + 1) /\ i = L + 1 - (n + 1)
      BY <1>1, <2>2
    <3>2. g \in [1..(L + 1) -> Q]
      BY <1>2, <3>1
    <3>3. ASSUME NEW k \in (L + 1 - (n + 1))..(L + 1), k >= 1
          PROVE  g[k] = Round(s, g, k)
      <4>1. k \in 1..(L + 1) /\ (k = i \/ k \in (L + 1 - n)..(L + 1))
        BY <1>1, <3>3
      <4>2. \A j \in (k + 1)..(L + 1) : f[j] = g[j]
        BY <1>1, <3>1, <3>3
      <4>3. Round(s, f, k) = Round(s, g, k)
        BY <1>3, <4>1, <4>2
      <4>4. g[k] = Round(s, f, k)
        <5>1. CASE k = i
          BY <3>1, <5>1
        <5>2. CASE k # i
          BY <2>1, <3>1, <3>3, <4>1, <5>2
        <5> QED
          BY <5>1, <5>2
      <4> QED
        BY <4>3, <4>4
    <3> HIDE DEF g
    <3> QED
      BY <3>2, <3>3
  <2>3. CASE ~(i >= 1)
    <3>1. \A k \in (L + 1 - (n + 1))..(L + 1) : k >= 1 => k \in (L + 1 - n)..(L + 1)
      BY <1>1, <2>3
    <3>2. \A k \in (L + 1 - (n + 1))..(L + 1) : k >= 1 => f[k] = Round(s, f, k)
      BY <2>1, <3>1
    <3> QED
      BY <3>2
  <2> QED
    BY <2>2, <2>3
<1>7. From(L)
  <2> DEFINE S == { n \in Nat : From(n) }
  <2> HIDE DEF From
  <2>1. 0 \in S
    BY <1>5
  <2>2. ASSUME NEW n \in Nat, n \in S PROVE n + 1 \in S
    BY <1>6, <2>2
  <2> HIDE DEF S
  <2>3. L \in S
    BY <1>1, <2>1, <2>2, NatSetInduction
  <2> QED
    BY <2>3 DEF S
<1>8. PICK f \in [1..(L + 1) -> Q] :
             \A k \in (L + 1 - L)..(L + 1) : k >= 1 => f[k] = Round(s, f, k)
  BY <1>7
<1>9. \A k \in 1..(L + 1) : f[k] = Round(s, f, k)
  BY <1>1, <1>8
<1> QED
  BY <1>9 DEF L, Q

LEMMA LoopIsUnique ==
  ASSUME NEW s, Len(s) \in Nat,
         NEW f, \A k \in 1..(Len(s) + 1) : f[k] = Round(s, f, k),
         NEW g, \A k \in 1..(Len(s) + 1) : g[k] = Round(s, g, k)
  PROVE  \A k \in 1..(Len(s) + 1) : f[k] = g[k]
<1> DEFINE L == Len(s)
           S == { n \in Nat : \A k \in (L + 1 - n)..(L + 1) : k >= 1 => f[k] = g[k] }
<1>1. L \in Nat /\ \A k \in 1..(L + 1) : f[k] = Round(s, f, k) /\ g[k] = Round(s, g, k)
  OBVIOUS
<1>2. \A k \in 1..(L + 1) :
        (\A j \in (k + 1)..(L + 1) : f[j] = g[j]) => Round(s, f, k) = Round(s, g, k)
  BY <1>1, RoundSame
<1>3. \A k : k > L => Round(s, f, k) = Round(s, g, k)
  BY RoundEnd DEF L
<1> HIDE DEF L
<1>4. 0 \in S
  BY <1>1, <1>3
<1>5. ASSUME NEW n \in Nat, n \in S PROVE n + 1 \in S
  <2>1. ASSUME NEW k \in (L + 1 - (n + 1))..(L + 1), k >= 1 PROVE f[k] = g[k]
    <3>1. k \in 1..(L + 1)
      BY <1>1, <2>1
    <3>2. \A j \in (k + 1)..(L + 1) : j \in (L + 1 - n)..(L + 1) /\ j >= 1
      BY <1>1, <2>1
    <3>3. \A j \in (k + 1)..(L + 1) : f[j] = g[j]
      BY <1>5, <3>2
    <3> QED
      BY <1>1, <1>2, <3>1, <3>3
  <2> QED
    BY <2>1
<1> HIDE DEF S
<1>6. L \in S
  BY <1>1, <1>4, <1>5, NatSetInduction
<1>7. \A k \in 1..(L + 1) : k \in (L + 1 - L)..(L + 1) /\ k >= 1
  BY <1>1
<1> QED
  BY <1>6, <1>7 DEF S, L

(* The rounds of the loop over s.                                          *)
IsRounds(f, s) ==
  /\ f[Len(s) + 1] = <<>>
  /\ \A i \in 1..Len(s) :
       /\ s[i].role = "user" => f[i] = <<UserMessage(s[i])>> \o f[i + 1]
       /\ IsAnswerTurn(s[i]) => f[i] = AnswerOut(s, i) \o f[NextAt(s, i)]
       /\ s[i].role # "user" /\ ~IsAnswerTurn(s[i]) => f[i] = f[i + 1]

LEMMA LoopRounds ==
  ASSUME NEW X, NEW C, <<>> \in X, NoCall \in C, NEW s \in Seq(TurnsOver(X, C))
  PROVE  \E f \in [1..(Len(s) + 1) -> Seq(MessagesOver(X, C))] :
           IsRounds(f, s) /\ LoopMessages(s) = f[1]
<1>0. Len(s) \in Nat
  OBVIOUS
<1>1. PICK f \in [1..(Len(s) + 1) -> Seq(MessagesOver(X, C))] :
             \A k \in 1..(Len(s) + 1) : f[k] = Round(s, f, k)
  BY LoopExists
<1>2. f = [i \in 1..(Len(s) + 1) |-> f[i]]
  OBVIOUS
<1>3. IsLoop(f, s)
  BY <1>1, <1>2 DEF IsLoop
<1> DEFINE h == CHOOSE g : IsLoop(g, s)
<1>4. IsLoop(h, s)
  BY <1>3
<1> HIDE DEF h
<1>5. \A k \in 1..(Len(s) + 1) : h[k] = Round(s, h, k)
  <2> SUFFICES ASSUME NEW k \in 1..(Len(s) + 1) PROVE h[k] = Round(s, h, k)
    OBVIOUS
  <2>1. h[k] = [i \in 1..(Len(s) + 1) |-> Round(s, h, i)][k]
    BY <1>4 DEF IsLoop
  <2> QED
    BY <2>1
<1>6. 1 \in 1..(Len(s) + 1)
  BY <1>0
<1>7. h[1] = f[1]
  <2>1. \A k \in 1..(Len(s) + 1) : h[k] = f[k]
    BY <1>0, <1>1, <1>5, LoopIsUnique
  <2> QED
    BY <1>6, <2>1
<1>8. LoopMessages(s) = f[1]
  BY <1>7, LoopMessagesIsLoop DEF h
<1>9. IsRounds(f, s)
  <2>1. Len(s) + 1 \in 1..(Len(s) + 1) /\ Len(s) + 1 > Len(s)
    BY <1>0
  <2>2. \A i \in 1..Len(s) : i \in 1..(Len(s) + 1) /\ ~(i > Len(s))
    BY <1>0
  <2>3. f[Len(s) + 1] = <<>>
    BY <1>1, <2>1, RoundEnd
  <2>4. ASSUME NEW i \in 1..Len(s)
        PROVE  /\ s[i].role = "user" => f[i] = <<UserMessage(s[i])>> \o f[i + 1]
               /\ IsAnswerTurn(s[i]) => f[i] = AnswerOut(s, i) \o f[NextAt(s, i)]
               /\ s[i].role # "user" /\ ~IsAnswerTurn(s[i]) => f[i] = f[i + 1]
    <3>1. f[i] = Round(s, f, i) /\ ~(i > Len(s))
      BY <1>1, <2>2
    <3>2. s[i].role = "user" => f[i] = <<UserMessage(s[i])>> \o f[i + 1]
      BY <3>1, RoundUser
    <3>3. IsAnswerTurn(s[i]) => f[i] = AnswerOut(s, i) \o f[NextAt(s, i)]
      BY <3>1, RoundAnswer
    <3>4. s[i].role # "user" /\ ~IsAnswerTurn(s[i]) => f[i] = f[i + 1]
      BY <3>1, RoundOther
    <3> QED
      BY <3>2, <3>3, <3>4
  <2> QED
    BY <2>3, <2>4 DEF IsRounds
<1> QED
  BY <1>8, <1>9

-----------------------------------------------------------------------------
(* The loop over a suffix is the rest of the loop.                         *)
LEMMA BlockShift ==
  ASSUME NEW T, NEW p \in Seq(T), NEW u \in Seq(T), NEW i \in 1..(Len(u) + 1), NEW role
  PROVE  BlockLength(p \o u, Len(p) + i, role) = BlockLength(u, i, role)
<1> DEFINE s == p \o u
           P == Len(p)
           n == BlockLength(u, i, role)
<1>1. /\ Len(s) = Len(p) + Len(u) /\ Len(p) \in Nat /\ Len(u) \in Nat
      /\ \A k \in 1..(Len(p) + Len(u)) : s[k] = IF k <= Len(p) THEN p[k] ELSE u[k - Len(p)]
  BY ConcatProperties
<1>2. n \in 0..(Len(u) + 1 - i) /\ IsBlock(u, i, role, n)
  BY BlockLengthIsBlock
<1> HIDE DEF s, P, n
<1>3. /\ P + i \in 1..(Len(s) + 1) /\ Len(s) \in Nat
      /\ n \in 0..(Len(s) + 1 - (P + i))
  BY <1>1, <1>2 DEF P
<1>4. \A k \in i..(i + n) : k <= Len(u) => s[P + k] = u[k]
  BY <1>1, <1>2 DEF P
<1>5. \A k \in (P + i)..((P + i) + n - 1) : s[k].role = role
  <2> TAKE k \in (P + i)..((P + i) + n - 1)
  <2>1. k - P \in i..(i + n - 1) /\ k - P \in i..(i + n) /\ k - P <= Len(u) /\ P + (k - P) = k
    BY <1>1, <1>2 DEF P
  <2>2. u[k - P].role = role
    BY <1>2, <2>1 DEF IsBlock
  <2> QED
    BY <1>4, <2>1, <2>2
<1>6. (P + i) + n <= Len(s) => s[(P + i) + n].role # role
  <2> SUFFICES ASSUME (P + i) + n <= Len(s) PROVE s[(P + i) + n].role # role
    OBVIOUS
  <2>1. i + n <= Len(u) /\ i + n \in i..(i + n) /\ (P + i) + n = P + (i + n)
    BY <1>1, <1>2 DEF P
  <2>2. u[i + n].role # role
    BY <1>2, <2>1 DEF IsBlock
  <2> QED
    BY <1>4, <2>1, <2>2
<1>7. IsBlock(s, P + i, role, n)
  BY <1>5, <1>6 DEF IsBlock
<1>8. BlockLength(s, P + i, role) = n
  BY <1>3, <1>7, BlockLengthIs
<1> QED
  BY <1>8 DEF s, P, n

LEMMA AnswerShift ==
  ASSUME NEW T, NEW p \in Seq(T), NEW u \in Seq(T), NEW i \in 1..Len(u)
  PROVE  /\ (p \o u)[Len(p) + i] = u[i]
         /\ AnswerOut(p \o u, Len(p) + i) = AnswerOut(u, i)
         /\ NextAt(p \o u, Len(p) + i) = Len(p) + NextAt(u, i)
<1> DEFINE s == p \o u
           P == Len(p)
           n == CallsTaken(u, i)
           m == ResultsTaken(u, i)
           j == i + 1 + n
<1>1. /\ Len(s) = Len(p) + Len(u) /\ Len(p) \in Nat /\ Len(u) \in Nat
      /\ \A k \in 1..(Len(p) + Len(u)) : s[k] = IF k <= Len(p) THEN p[k] ELSE u[k - Len(p)]
  BY ConcatProperties
<1>2. n \in 0..(Len(u) - i) /\ m \in 0..n /\ i + n + m <= Len(u)
  BY TakenBounds
<1>3. \A q \in 1..(Len(u) + 1) : \A role : BlockLength(s, P + q, role) = BlockLength(u, q, role)
  BY BlockShift
<1>4. n = BlockLength(u, i + 1, "toolcall") /\ m = AnswersTaken(n, BlockLength(u, j, "toolresult"))
  BY DEF CallsTaken, ResultsTaken
<1> HIDE DEF s, P, n, m
<1>5. \A k \in 1..Len(u) : s[P + k] = u[k]
  BY <1>1 DEF P
<1>6. CallsTaken(s, P + i) = n
  <2>1. i + 1 \in 1..(Len(u) + 1) /\ P + i + 1 = P + (i + 1)
    BY <1>1 DEF P
  <2> QED
    BY <1>3, <1>4, <2>1 DEF CallsTaken
<1>7. ResultsTaken(s, P + i) = m
  <2>1. j \in 1..(Len(u) + 1) /\ P + i + 1 + n = P + j
    BY <1>1, <1>2 DEF P
  <2> QED
    BY <1>3, <1>4, <1>6, <2>1 DEF ResultsTaken
<1>8. AnswerOut(s, P + i) = AnswerOut(u, i)
  <2> DEFINE calls == [k \in 1..n |-> u[i + k].call]
             tools == [k \in 1..m |-> ToolMessage(u[i + 1 + n + k - 1], AnsweredBy(calls, k))]
             c2 == [k \in 1..n |-> s[P + i + k].call]
             t2 == [k \in 1..m |-> ToolMessage(s[P + i + 1 + n + k - 1], AnsweredBy(c2, k))]
  <2>1. \A k \in 1..n : i + k \in 1..Len(u) /\ P + i + k = P + (i + k)
    BY <1>1, <1>2 DEF P
  <2>2. c2 = calls
    BY <1>5, <2>1
  <2>3. \A k \in 1..m : /\ i + 1 + n + k - 1 \in 1..Len(u)
                        /\ P + i + 1 + n + k - 1 = P + (i + 1 + n + k - 1)
    BY <1>1, <1>2 DEF P
  <2> HIDE DEF calls, c2
  <2>4. t2 = tools
    BY <1>5, <2>2, <2>3
  <2>5. s[P + i] = u[i]
    BY <1>5
  <2>6. AnswerOut(u, i) = <<AssistantMessage(u[i], calls)>> \o tools
    BY DEF AnswerOut, n, m, calls
  <2>7. AnswerOut(s, P + i) = <<AssistantMessage(s[P + i], c2)>> \o t2
    BY <1>6, <1>7 DEF AnswerOut, c2
  <2> HIDE DEF tools, t2
  <2> QED
    BY <2>2, <2>4, <2>5, <2>6, <2>7
<1>9. NextAt(s, P + i) = P + NextAt(u, i)
  <2>1. s[P + i] = u[i]
    BY <1>5
  <2>2. NextAt(s, P + i) = IF IsAnswerTurn(u[i]) THEN P + i + 1 + n + m ELSE P + i + 1
    BY <1>6, <1>7, <2>1 DEF NextAt
  <2>3. NextAt(u, i) = IF IsAnswerTurn(u[i]) THEN i + 1 + n + m ELSE i + 1
    BY DEF NextAt, n, m
  <2> QED
    BY <1>1, <1>2, <2>2, <2>3 DEF P
<1> QED
  BY <1>5, <1>8, <1>9 DEF s, P

LEMMA LoopSuffix ==
  ASSUME NEW X, NEW C, <<>> \in X, NoCall \in C,
         NEW p \in Seq(TurnsOver(X, C)), NEW u \in Seq(TurnsOver(X, C)),
         NEW f, IsRounds(f, p \o u)
  PROVE  f[Len(p) + 1] = LoopMessages(u)
<1> DEFINE T == TurnsOver(X, C)
           s == p \o u
           P == Len(p)
           L == Len(u)
<1>1. PICK g \in [1..(L + 1) -> Seq(MessagesOver(X, C))] : IsRounds(g, u) /\ LoopMessages(u) = g[1]
  BY LoopRounds
<1>2. Len(s) = P + L /\ P \in Nat /\ L \in Nat
  BY ConcatProperties
<1>3. \A i \in 1..L : /\ s[P + i] = u[i]
                      /\ AnswerOut(s, P + i) = AnswerOut(u, i)
                      /\ NextAt(s, P + i) = P + NextAt(u, i)
                      /\ NextAt(u, i) \in (i + 1)..(L + 1)
  BY <1>2, AnswerShift, TakenBounds
<1>4. f[P + L + 1] = <<>> /\ g[L + 1] = <<>>
  BY <1>1, <1>2 DEF IsRounds
<1>5. ASSUME NEW i \in 1..L, \A j \in (i + 1)..(L + 1) : f[P + j] = g[j]
      PROVE  f[P + i] = g[i]
  <2>1. P + i \in 1..Len(s) /\ P + i + 1 = P + (i + 1) /\ i + 1 \in (i + 1)..(L + 1)
    BY <1>2
  <2>2. f[P + i + 1] = g[i + 1]
    BY <1>5, <2>1
  <2>3. s[P + i] = u[i]
    BY <1>3
  <2>4. CASE u[i].role = "user"
    <3>1. f[P + i] = <<UserMessage(s[P + i])>> \o f[P + i + 1]
      BY <2>1, <2>3, <2>4 DEF IsRounds
    <3>2. g[i] = <<UserMessage(u[i])>> \o g[i + 1]
      BY <1>1, <2>4 DEF IsRounds
    <3> QED
      BY <2>2, <2>3, <3>1, <3>2
  <2>5. CASE IsAnswerTurn(u[i])
    <3>1. f[P + i] = AnswerOut(s, P + i) \o f[NextAt(s, P + i)]
      BY <2>1, <2>3, <2>5 DEF IsRounds
    <3>2. g[i] = AnswerOut(u, i) \o g[NextAt(u, i)]
      BY <1>1, <2>5 DEF IsRounds
    <3>3. f[P + NextAt(u, i)] = g[NextAt(u, i)]
      BY <1>3, <1>5
    <3> QED
      BY <1>3, <3>1, <3>2, <3>3
  <2>6. CASE u[i].role # "user" /\ ~IsAnswerTurn(u[i])
    <3>1. f[P + i] = f[P + i + 1]
      BY <2>1, <2>3, <2>6 DEF IsRounds
    <3>2. g[i] = g[i + 1]
      BY <1>1, <2>6 DEF IsRounds
    <3> QED
      BY <2>2, <3>1, <3>2
  <2> QED
    BY <2>4, <2>5, <2>6
<1> HIDE DEF s, P, L
<1> DEFINE Same(n) == \A j \in (L + 1 - n)..(L + 1) : j >= 1 => f[P + j] = g[j]
<1>6. Same(0)
  <2> SUFFICES ASSUME NEW j \in (L + 1 - 0)..(L + 1) PROVE f[P + j] = g[j]
    OBVIOUS
  <2>1. j = L + 1 /\ P + j = P + L + 1
    BY <1>2
  <2> QED
    BY <1>4, <2>1
<1>7. ASSUME NEW n \in Nat, Same(n) PROVE Same(n + 1)
  <2> SUFFICES ASSUME NEW j \in (L + 1 - (n + 1))..(L + 1), j >= 1 PROVE f[P + j] = g[j]
    OBVIOUS
  <2>1. CASE j \in (L + 1 - n)..(L + 1)
    BY <1>7, <2>1
  <2>2. CASE ~(j \in (L + 1 - n)..(L + 1))
    <3>1. j \in 1..L /\ \A k \in (j + 1)..(L + 1) : k \in (L + 1 - n)..(L + 1) /\ k >= 1
      BY <1>2, <2>2
    <3>2. \A k \in (j + 1)..(L + 1) : f[P + k] = g[k]
      BY <1>7, <3>1
    <3> QED
      BY <1>5, <3>1, <3>2
  <2> QED
    BY <2>1, <2>2
<1>8. Same(L)
  <2> DEFINE S == { n \in Nat : Same(n) }
  <2> HIDE DEF Same
  <2>1. 0 \in S
    BY <1>6
  <2>2. ASSUME NEW n \in Nat, n \in S PROVE n + 1 \in S
    BY <1>7, <2>2
  <2> HIDE DEF S
  <2>3. L \in S
    BY <1>2, <2>1, <2>2, NatSetInduction
  <2> QED
    BY <2>3 DEF S
<1>9. f[P + 1] = g[1]
  <2>1. 1 \in (L + 1 - L)..(L + 1) /\ 1 >= 1
    BY <1>2
  <2> QED
    BY <1>8, <2>1
<1> QED
  BY <1>1, <1>9 DEF P

-----------------------------------------------------------------------------
(* The loop, block by block.                                               *)
LEMMA LoopType ==
  ASSUME NEW X, NEW C, <<>> \in X, NoCall \in C, NEW s \in Seq(TurnsOver(X, C))
  PROVE  LoopMessages(s) \in Seq(MessagesOver(X, C))
<1> PICK f \in [1..(Len(s) + 1) -> Seq(MessagesOver(X, C))] : LoopMessages(s) = f[1]
  BY LoopRounds
<1>1. 1 \in 1..(Len(s) + 1)
  OBVIOUS
<1> QED
  BY <1>1

LEMMA LoopEmpty == LoopMessages(<<>>) = <<>>
<1> DEFINE X == {<<>>}
           s == <<>>
<1>0. s \in Seq(TurnsOver(X, X)) /\ <<>> \in X /\ NoCall \in X
  BY DEF NoCall
<1>1. Len(s) + 1 = 1
  OBVIOUS
<1> HIDE DEF X, s
<1>2. PICK f \in [1..(Len(s) + 1) -> Seq(MessagesOver(X, X))] :
             IsRounds(f, s) /\ LoopMessages(s) = f[1]
  BY <1>0, LoopRounds
<1>3. LoopMessages(s) = <<>>
  BY <1>1, <1>2 DEF IsRounds
<1> QED
  BY <1>3 DEF s

(* The first turn of t and what is behind it.                              *)
LEMMA FirstTurn ==
  ASSUME NEW T, NEW t \in T, NEW u \in Seq(T)
  PROVE  /\ <<t>> \in Seq(T) /\ <<t>> \o u \in Seq(T) /\ (<<t>> \o u)[1] = t
         /\ Len(<<t>> \o u) = Len(u) + 1 /\ Len(<<t>>) = 1
         /\ \A i \in 1..Len(u) : (<<t>> \o u)[i + 1] = u[i]
         /\ 1 \in 1..Len(<<t>> \o u)
<1> DEFINE o == <<t>>
<1>1. o \in Seq(T)
  OBVIOUS
<1>2. Len(o) = 1 /\ o[1] = t
  OBVIOUS
<1> HIDE DEF o
<1>3. /\ o \o u \in Seq(T) /\ Len(o \o u) = Len(o) + Len(u) /\ Len(u) \in Nat
      /\ \A i \in 1..(Len(o) + Len(u)) : (o \o u)[i] = IF i <= Len(o) THEN o[i] ELSE u[i - Len(o)]
  BY <1>1, ConcatProperties
<1> DEFINE s == o \o u
<1> HIDE DEF s
<1>4. /\ Len(s) = Len(u) + 1 /\ s[1] = t /\ Len(u) \in Nat
      /\ \A i \in 1..Len(u) : s[i + 1] = u[i]
  BY <1>2, <1>3 DEF s
<1> QED
  BY <1>1, <1>2, <1>3, <1>4 DEF o, s

(* Concatenation of messages, for the provers a word of its own.           *)
Joined(a, b) == a \o b

LEMMA JoinedAssociative ==
  ASSUME NEW M, NEW a \in Seq(M), NEW b \in Seq(M), NEW c \in Seq(M)
  PROVE  Joined(a, Joined(b, c)) = Joined(Joined(a, b), c)
BY ConcatAssociative DEF Joined

LEMMA JoinedEmpty ==
  ASSUME NEW M, NEW a \in Seq(M)
  PROVE  Joined(<<>>, a) = a /\ Joined(a, <<>>) = a
BY ConcatEmptySeq DEF Joined

UserOut(t) == <<UserMessage(t)>>

LEMMA LoopUser ==
  ASSUME NEW X, NEW C, <<>> \in X, NoCall \in C,
         NEW t \in TurnsOver(X, C), t.role = "user", NEW u \in Seq(TurnsOver(X, C))
  PROVE  LoopMessages(<<t>> \o u) = Joined(UserOut(t), LoopMessages(u))
<1> DEFINE o == <<t>>
           s == o \o u
<1>1. o \in Seq(TurnsOver(X, C)) /\ s \in Seq(TurnsOver(X, C)) /\ s[1] = t /\ Len(o) = 1 /\ 1 \in 1..Len(s)
  BY FirstTurn
<1> HIDE DEF o
<1>0. s \in Seq(TurnsOver(X, C)) /\ o \in Seq(TurnsOver(X, C))
  BY <1>1
<1>2. PICK f \in [1..(Len(s) + 1) -> Seq(MessagesOver(X, C))] :
             IsRounds(f, s) /\ LoopMessages(s) = f[1]
  BY <1>0, LoopRounds
<1>3. f[1] = <<UserMessage(t)>> \o f[1 + 1]
  BY <1>1, <1>2 DEF IsRounds
<1>4. f[Len(o) + 1] = LoopMessages(u)
  BY <1>0, <1>2, LoopSuffix
<1> QED
  BY <1>1, <1>2, <1>3, <1>4 DEF o, UserOut, Joined

LEMMA LoopOther ==
  ASSUME NEW X, NEW C, <<>> \in X, NoCall \in C,
         NEW t \in TurnsOver(X, C), t.role # "user", ~IsAnswerTurn(t),
         NEW u \in Seq(TurnsOver(X, C))
  PROVE  LoopMessages(<<t>> \o u) = LoopMessages(u)
<1> DEFINE o == <<t>>
           s == o \o u
<1>1. o \in Seq(TurnsOver(X, C)) /\ s \in Seq(TurnsOver(X, C)) /\ s[1] = t /\ Len(o) = 1 /\ 1 \in 1..Len(s)
  BY FirstTurn
<1> HIDE DEF o
<1>0. s \in Seq(TurnsOver(X, C)) /\ o \in Seq(TurnsOver(X, C))
  BY <1>1
<1>2. PICK f \in [1..(Len(s) + 1) -> Seq(MessagesOver(X, C))] :
             IsRounds(f, s) /\ LoopMessages(s) = f[1]
  BY <1>0, LoopRounds
<1>3. f[1] = f[1 + 1]
  BY <1>1, <1>2 DEF IsRounds
<1>4. f[Len(o) + 1] = LoopMessages(u)
  BY <1>0, <1>2, LoopSuffix
<1> QED
  BY <1>1, <1>2, <1>3, <1>4 DEF o

(* An answer with its calls cs and the results rs it takes, before u.      *)
IsGroup(cs, rs, u) ==
  /\ \A k \in 1..Len(cs) : cs[k].role = "toolcall"
  /\ \A k \in 1..Len(rs) : rs[k].role = "toolresult"
  /\ Len(rs) <= Len(cs)
  /\ rs = <<>> /\ u # <<>> => u[1].role # "toolcall"
  /\ Len(rs) < Len(cs) /\ u # <<>> => u[1].role # "toolresult"

Group(t, cs, rs, u) == <<t>> \o cs \o rs \o u

Calls(cs) == [k \in 1..Len(cs) |-> cs[k].call]

Tools(cs, rs) == [k \in 1..Len(rs) |-> ToolMessage(rs[k], cs[k].call)]

IsGroupOf(s, p, t, cs, rs, u, T) ==
  /\ s \in Seq(T) /\ Len(s) = 1 + Len(cs) + Len(rs) + Len(u) /\ s[1] = t
  /\ p \in Seq(T) /\ Len(p) = 1 + Len(cs) + Len(rs) /\ s = p \o u
  /\ \A k \in 1..Len(cs) : s[1 + k] = cs[k]
  /\ \A k \in 1..Len(rs) : s[1 + Len(cs) + k] = rs[k]
  /\ \A k \in 1..Len(u) : s[1 + Len(cs) + Len(rs) + k] = u[k]
  /\ Len(cs) \in Nat /\ Len(rs) \in Nat /\ Len(u) \in Nat

LEMMA GroupIndex ==
  ASSUME NEW T, NEW t \in T, NEW cs \in Seq(T), NEW rs \in Seq(T), NEW u \in Seq(T)
  PROVE  IsGroupOf(Group(t, cs, rs, u), <<t>> \o cs \o rs, t, cs, rs, u, T)
<1> DEFINE s == Group(t, cs, rs, u)
           p == <<t>> \o cs \o rs
           a == <<t>> \o cs
<1>1. /\ a \in Seq(T) /\ Len(a) = Len(cs) + 1 /\ a[1] = t
      /\ \A k \in 1..Len(cs) : a[k + 1] = cs[k]
  BY FirstTurn
<1>0. p = a \o rs /\ s = p \o u
  BY DEF Group
<1> HIDE DEF a, p, s
<1>2. a \in Seq(T)
  BY <1>1
<1>3. /\ a \o rs \in Seq(T) /\ Len(a \o rs) = Len(a) + Len(rs)
      /\ \A k \in 1..(Len(a) + Len(rs)) : (a \o rs)[k] = IF k <= Len(a) THEN a[k] ELSE rs[k - Len(a)]
  BY <1>2, ConcatProperties
<1>4. /\ p \in Seq(T) /\ Len(p) = Len(a) + Len(rs)
      /\ \A k \in 1..(Len(a) + Len(rs)) : p[k] = IF k <= Len(a) THEN a[k] ELSE rs[k - Len(a)]
  BY <1>0, <1>3
<1>5. Len(cs) \in Nat /\ Len(rs) \in Nat /\ Len(u) \in Nat
  OBVIOUS
<1>6. /\ Len(p) = 1 + Len(cs) + Len(rs) /\ p[1] = t
      /\ \A k \in 1..Len(cs) : p[1 + k] = cs[k]
      /\ \A k \in 1..Len(rs) : p[1 + Len(cs) + k] = rs[k]
  BY <1>1, <1>4, <1>5
<1>7. /\ p \o u \in Seq(T) /\ Len(p \o u) = Len(p) + Len(u)
      /\ \A k \in 1..(Len(p) + Len(u)) : (p \o u)[k] = IF k <= Len(p) THEN p[k] ELSE u[k - Len(p)]
  <2>1. p \in Seq(T)
    BY <1>4
  <2> QED
    BY <2>1, ConcatProperties
<1>8. /\ s \in Seq(T) /\ Len(s) = Len(p) + Len(u)
      /\ \A k \in 1..(Len(p) + Len(u)) : s[k] = IF k <= Len(p) THEN p[k] ELSE u[k - Len(p)]
  BY <1>0, <1>7
<1>9. Len(s) = 1 + Len(cs) + Len(rs) + Len(u) /\ s[1] = t
  BY <1>5, <1>6, <1>8
<1>10. \A k \in 1..Len(cs) : s[1 + k] = cs[k]
  <2> TAKE k \in 1..Len(cs)
  <2>1. 1 + k \in 1..(Len(p) + Len(u)) /\ 1 + k <= Len(p)
    BY <1>5, <1>6
  <2> QED
    BY <1>6, <1>8, <2>1
<1>11. \A k \in 1..Len(rs) : s[1 + Len(cs) + k] = rs[k]
  <2> TAKE k \in 1..Len(rs)
  <2>1. 1 + Len(cs) + k \in 1..(Len(p) + Len(u)) /\ 1 + Len(cs) + k <= Len(p)
    BY <1>5, <1>6
  <2> QED
    BY <1>6, <1>8, <2>1
<1>12. \A k \in 1..Len(u) : s[1 + Len(cs) + Len(rs) + k] = u[k]
  <2> TAKE k \in 1..Len(u)
  <2> DEFINE q == 1 + Len(cs) + Len(rs) + k
  <2>1. q \in 1..(Len(p) + Len(u)) /\ ~(q <= Len(p)) /\ q - Len(p) = k
    BY <1>5, <1>6
  <2> HIDE DEF q
  <2>2. s[q] = u[q - Len(p)]
    BY <1>8, <2>1
  <2> QED
    BY <2>1, <2>2 DEF q
<1> QED
  BY <1>0, <1>4, <1>5, <1>6, <1>8, <1>9, <1>10, <1>11, <1>12 DEF IsGroupOf, s, p

LEMMA GroupTaken ==
  ASSUME NEW T, NEW t \in T, NEW cs \in Seq(T), NEW rs \in Seq(T), NEW u \in Seq(T),
         IsGroup(cs, rs, u)
  PROVE  /\ CallsTaken(Group(t, cs, rs, u), 1) = Len(cs)
         /\ ResultsTaken(Group(t, cs, rs, u), 1) = Len(rs)
<1> DEFINE s == Group(t, cs, rs, u)
           n == Len(cs)
           m == Len(rs)
           L == Len(u)
           b == BlockLength(s, 2 + n, "toolresult")
<1>1. /\ s \in Seq(T) /\ Len(s) = 1 + n + m + L
      /\ \A k \in 1..n : s[1 + k] = cs[k]
      /\ \A k \in 1..m : s[1 + n + k] = rs[k]
      /\ \A k \in 1..L : s[1 + n + m + k] = u[k]
      /\ n \in Nat /\ m \in Nat /\ L \in Nat
  <2>1. IsGroupOf(s, <<t>> \o cs \o rs, t, cs, rs, u, T)
    BY GroupIndex
  <2> QED
    BY <2>1 DEF IsGroupOf
<1>2. /\ \A k \in 1..n : cs[k].role = "toolcall"
      /\ \A k \in 1..m : rs[k].role = "toolresult"
      /\ m <= n
      /\ m = 0 /\ L > 0 => u[1].role # "toolcall"
      /\ m < n /\ L > 0 => u[1].role # "toolresult"
  <2>1. m = 0 => rs = <<>>
    BY EmptySeq
  <2>2. L > 0 => u # <<>>
    BY EmptySeq
  <2> QED
    BY <2>1, <2>2 DEF IsGroup
<1> HIDE DEF s, n, m, L
<1>3. IsBlock(s, 2, "toolcall", n)
  <2>1. ASSUME NEW k \in 2..(2 + n - 1) PROVE s[k].role = "toolcall"
    <3>1. k - 1 \in 1..n /\ 1 + (k - 1) = k
      BY <1>1
    <3>2. s[1 + (k - 1)] = cs[k - 1] /\ cs[k - 1].role = "toolcall"
      BY <1>1, <1>2, <3>1
    <3> QED
      BY <3>1, <3>2
  <2>2. ASSUME 2 + n <= Len(s) PROVE s[2 + n].role # "toolcall"
    <3>1. CASE m = 0
      <4>1. 1 \in 1..L /\ 1 + n + m + 1 = 2 + n /\ L > 0
        BY <1>1, <2>2, <3>1
      <4> QED
        BY <1>1, <1>2, <3>1, <4>1
    <3>2. CASE m # 0
      <4>1. 1 \in 1..m /\ 1 + n + 1 = 2 + n
        BY <1>1, <3>2
      <4> QED
        BY <1>1, <1>2, <4>1, ZenonT(30)
    <3> QED
      BY <3>1, <3>2
  <2> QED
    BY <2>1, <2>2 DEF IsBlock
<1>4. CallsTaken(s, 1) = n
  <2>1. 2 \in 1..(Len(s) + 1) /\ n \in 0..(Len(s) + 1 - 2) /\ Len(s) \in Nat
    BY <1>1
  <2>2. BlockLength(s, 2, "toolcall") = n
    BY <1>3, <2>1, BlockLengthIs
  <2> QED
    BY <2>2 DEF CallsTaken
<1>5. 2 + n \in 1..(Len(s) + 1) /\ Len(s) \in Nat
  BY <1>1
<1>6. CASE m < n
  <2>1. ASSUME NEW k \in (2 + n)..(2 + n + m - 1) PROVE s[k].role = "toolresult"
    <3>1. k - 1 - n \in 1..m /\ 1 + n + (k - 1 - n) = k
      BY <1>1
    <3>2. s[1 + n + (k - 1 - n)] = rs[k - 1 - n] /\ rs[k - 1 - n].role = "toolresult"
      BY <1>1, <1>2, <3>1
    <3> QED
      BY <3>1, <3>2
  <2>2. ASSUME 2 + n + m <= Len(s) PROVE s[2 + n + m].role # "toolresult"
    <3>1. 1 \in 1..L /\ 1 + n + m + 1 = 2 + n + m /\ L > 0
      BY <1>1, <2>2
    <3> QED
      BY <1>1, <1>2, <1>6, <3>1
  <2>3. IsBlock(s, 2 + n, "toolresult", m)
    BY <2>1, <2>2 DEF IsBlock
  <2>4. m \in 0..(Len(s) + 1 - (2 + n))
    BY <1>1
  <2>5. b = m
    BY <1>5, <2>3, <2>4, BlockLengthIs
  <2> HIDE DEF b
  <2>6. AnswersTaken(n, b) = m
    BY <1>6, <2>5 DEF AnswersTaken
  <2> QED
    BY <1>4, <2>6 DEF ResultsTaken, b, s, n, m
<1>7. CASE m = n
  <2>1. b \in 0..(Len(s) + 1 - (2 + n)) /\ IsBlock(s, 2 + n, "toolresult", b)
    BY <1>5, BlockLengthIsBlock
  <2> HIDE DEF b
  <2>2. ASSUME b < n PROVE FALSE
    <3>1. b + 1 \in 1..m /\ 1 + n + (b + 1) = 2 + n + b /\ 2 + n + b <= Len(s)
      BY <1>1, <1>7, <2>1, <2>2
    <3>2. s[1 + n + (b + 1)] = rs[b + 1] /\ rs[b + 1].role = "toolresult"
      BY <1>1, <1>2, <3>1
    <3> QED
      BY <2>1, <3>1, <3>2 DEF IsBlock
  <2>3. AnswersTaken(n, b) = m
    BY <1>7, <2>2 DEF AnswersTaken
  <2> QED
    BY <1>4, <2>3 DEF ResultsTaken, b, s, n, m
<1>8. m < n \/ m = n
  BY <1>1, <1>2
<1> QED
  BY <1>4, <1>6, <1>7, <1>8 DEF s, n, m

AnswerBlock(t, cs, rs) == <<AssistantMessage(t, Calls(cs))>> \o Tools(cs, rs)

LEMMA LoopAnswer ==
  ASSUME NEW X, NEW C, <<>> \in X, NoCall \in C,
         NEW t \in TurnsOver(X, C), IsAnswerTurn(t),
         NEW cs \in Seq(TurnsOver(X, C)), NEW rs \in Seq(TurnsOver(X, C)),
         NEW u \in Seq(TurnsOver(X, C)), IsGroup(cs, rs, u)
  PROVE  LoopMessages(Group(t, cs, rs, u))
           = Joined(AnswerBlock(t, cs, rs), LoopMessages(u))
<1> DEFINE T == TurnsOver(X, C)
           s == Group(t, cs, rs, u)
           p == <<t>> \o cs \o rs
           n == Len(cs)
           m == Len(rs)
<1>1. /\ s \in Seq(T) /\ Len(s) = 1 + n + m + Len(u) /\ s[1] = t
      /\ p \in Seq(T) /\ Len(p) = 1 + n + m /\ s = p \o u
      /\ \A k \in 1..n : s[1 + k] = cs[k]
      /\ \A k \in 1..m : s[1 + n + k] = rs[k]
      /\ n \in Nat /\ m \in Nat /\ Len(u) \in Nat
  <2>1. IsGroupOf(s, <<t>> \o cs \o rs, t, cs, rs, u, T)
    BY GroupIndex
  <2> QED
    BY <2>1 DEF IsGroupOf
<1>2. CallsTaken(s, 1) = n /\ ResultsTaken(s, 1) = m /\ m <= n
  BY GroupTaken DEF IsGroup
<1> HIDE DEF s, p, n, m
<1>0. s \in Seq(TurnsOver(X, C)) /\ p \in Seq(TurnsOver(X, C)) /\ s = p \o u
  BY <1>1
<1>3. PICK f \in [1..(Len(s) + 1) -> Seq(MessagesOver(X, C))] :
             IsRounds(f, s) /\ LoopMessages(s) = f[1]
  BY <1>0, LoopRounds
<1>4. f[1] = AnswerOut(s, 1) \o f[NextAt(s, 1)]
  <2>1. 1 \in 1..Len(s) /\ IsAnswerTurn(s[1])
    BY <1>1
  <2> QED
    BY <1>3, <2>1 DEF IsRounds
<1>5. NextAt(s, 1) = Len(p) + 1
  BY <1>1, <1>2 DEF NextAt
<1>6. f[Len(p) + 1] = LoopMessages(u)
  BY <1>0, <1>3, LoopSuffix
<1>7. AnswerOut(s, 1) = <<AssistantMessage(t, Calls(cs))>> \o Tools(cs, rs)
  <2> DEFINE c2 == [k \in 1..n |-> s[1 + k].call]
             t2 == [k \in 1..m |-> ToolMessage(s[1 + 1 + n + k - 1], AnsweredBy(c2, k))]
  <2>1. c2 = Calls(cs)
    BY <1>1 DEF Calls, n
  <2>2. t2 = Tools(cs, rs)
    <3>1. \A k \in 1..m : 1 + 1 + n + k - 1 = 1 + n + k /\ k \in 1..n
      BY <1>1, <1>2
    <3>2. \A k \in 1..m : ToolMessage(s[1 + 1 + n + k - 1], AnsweredBy(c2, k)) = ToolMessage(rs[k], cs[k].call)
      BY <1>1, <3>1 DEF AnsweredBy
    <3> HIDE DEF c2
    <3> QED
      BY <3>2 DEF Tools, m
  <2>3. AnswerOut(s, 1) = <<AssistantMessage(s[1], c2)>> \o t2
    BY <1>2 DEF AnswerOut
  <2> HIDE DEF c2, t2
  <2> QED
    BY <1>1, <2>1, <2>2, <2>3
<1> QED
  BY <1>3, <1>4, <1>5, <1>6, <1>7 DEF s, AnswerBlock, Joined

(* Every transcript that begins with an answer begins with a group.        *)
LEMMA GroupExists ==
  ASSUME NEW T, NEW t \in T, NEW v \in Seq(T)
  PROVE  \E cs \in Seq(T), rs \in Seq(T), u \in Seq(T) :
           /\ <<t>> \o v = Group(t, cs, rs, u)
           /\ IsGroup(cs, rs, u)
           /\ Len(u) <= Len(v)
<1> DEFINE s == <<t>> \o v
           n == CallsTaken(s, 1)
           m == ResultsTaken(s, 1)
           l == Len(v) - n - m
           cs == [k \in 1..n |-> s[1 + k]]
           rs == [k \in 1..m |-> s[1 + n + k]]
           u  == [k \in 1..l |-> s[1 + n + m + k]]
           j == 2 + n
           b == BlockLength(s, j, "toolresult")
<1>1. s \in Seq(T) /\ s[1] = t /\ Len(s) = Len(v) + 1 /\ 1 \in 1..Len(s) /\ Len(v) \in Nat
  BY FirstTurn
<1> HIDE DEF s
<1>2. n \in 0..(Len(s) - 1) /\ m \in 0..n /\ 1 + n + m <= Len(s)
  BY <1>1, TakenBounds
<1>3. IsBlock(s, 2, "toolcall", n)
  <2>1. 2 \in 1..(Len(s) + 1) /\ Len(s) \in Nat
    BY <1>1
  <2> QED
    BY <2>1, BlockLengthIsBlock DEF CallsTaken
<1>4. m = IF b < n THEN b ELSE n
  BY DEF ResultsTaken, AnswersTaken
<1> HIDE DEF n, m
<1>5. b \in 0..(Len(s) + 1 - j) /\ IsBlock(s, j, "toolresult", b)
  <2>1. j \in 1..(Len(s) + 1) /\ Len(s) \in Nat
    BY <1>1, <1>2
  <2> HIDE DEF j
  <2> QED
    BY <2>1, BlockLengthIsBlock
<1> HIDE DEF b
<1>6. /\ l \in Nat /\ Len(s) = 1 + n + m + l /\ n \in Nat /\ m \in Nat
  BY <1>1, <1>2
<1> HIDE DEF l
<1>7. /\ cs \in Seq(T) /\ Len(cs) = n /\ \A k \in 1..n : cs[k] = s[1 + k]
  <2>1. \A k \in 1..n : s[1 + k] \in T
    BY <1>1, <1>6
  <2> QED
    BY <1>6, <2>1
<1>8. /\ rs \in Seq(T) /\ Len(rs) = m /\ \A k \in 1..m : rs[k] = s[1 + n + k]
  <2>1. \A k \in 1..m : s[1 + n + k] \in T
    BY <1>1, <1>6
  <2> QED
    BY <1>6, <2>1
<1>9. /\ u \in Seq(T) /\ Len(u) = l /\ \A k \in 1..l : u[k] = s[1 + n + m + k]
  <2>1. \A k \in 1..l : s[1 + n + m + k] \in T
    BY <1>1, <1>6
  <2> QED
    BY <1>6, <2>1
<1> HIDE DEF cs, rs, u
<1> DEFINE g == Group(t, cs, rs, u)
<1>10. s = g
  <2>1. /\ g \in Seq(T) /\ Len(g) = 1 + Len(cs) + Len(rs) + Len(u) /\ g[1] = t
        /\ \A k \in 1..Len(cs) : g[1 + k] = cs[k]
        /\ \A k \in 1..Len(rs) : g[1 + Len(cs) + k] = rs[k]
        /\ \A k \in 1..Len(u) : g[1 + Len(cs) + Len(rs) + k] = u[k]
    <3>1. IsGroupOf(g, <<t>> \o cs \o rs, t, cs, rs, u, T)
      BY <1>7, <1>8, <1>9, GroupIndex
    <3> QED
      BY <3>1 DEF IsGroupOf
  <2> HIDE DEF g
  <2>2. ASSUME NEW i \in 1..Len(s) PROVE s[i] = g[i]
    <3>1. CASE i = 1
      BY <1>1, <2>1, <3>1
    <3>2. CASE i \in 2..(1 + n)
      <4>1. i - 1 \in 1..n /\ 1 + (i - 1) = i
        BY <1>6, <3>2
      <4> QED
        BY <1>7, <2>1, <4>1
    <3>3. CASE i \in (2 + n)..(1 + n + m)
      <4> DEFINE k == i - 1 - n
      <4>1. k \in 1..m /\ 1 + n + k = i
        BY <1>6, <3>3
      <4> HIDE DEF k
      <4>2. g[1 + n + k] = rs[k] /\ rs[k] = s[1 + n + k]
        BY <1>7, <1>8, <2>1, <4>1
      <4> QED
        BY <4>1, <4>2
    <3>4. CASE i \in (2 + n + m)..(1 + n + m + l)
      <4> DEFINE k == i - 1 - n - m
      <4>1. k \in 1..l /\ 1 + n + m + k = i
        BY <1>6, <3>4
      <4> HIDE DEF k
      <4>2. g[1 + n + m + k] = u[k] /\ u[k] = s[1 + n + m + k]
        BY <1>7, <1>8, <1>9, <2>1, <4>1
      <4> QED
        BY <4>1, <4>2
    <3> QED
      BY <1>6, <3>1, <3>2, <3>3, <3>4
  <2>3. Len(s) = Len(g)
    BY <1>6, <1>7, <1>8, <1>9, <2>1
  <2> QED
    BY <1>1, <2>1, <2>2, <2>3, SeqEqual
<1>11. IsGroup(cs, rs, u)
  <2>1. ASSUME NEW k \in 1..Len(cs) PROVE cs[k].role = "toolcall"
    <3>1. 1 + k \in 2..(2 + n - 1)
      BY <1>6, <1>7
    <3> QED
      BY <1>3, <1>7, <3>1 DEF IsBlock
  <2>2. ASSUME NEW k \in 1..Len(rs) PROVE rs[k].role = "toolresult"
    <3>1. 1 + n + k \in j..(j + b - 1)
      BY <1>4, <1>5, <1>6, <1>8
    <3> QED
      BY <1>5, <1>8, <3>1 DEF IsBlock
  <2>3. Len(rs) <= Len(cs)
    BY <1>2, <1>7, <1>8
  <2>4. ASSUME rs = <<>>, u # <<>> PROVE u[1].role # "toolcall"
    <3>1. m = 0
      BY <1>8, <2>4
    <3>2. l # 0
      BY <1>9, <2>4, EmptySeq
    <3>3. 1 \in 1..l /\ 1 + n + m + 1 = 2 + n /\ 2 + n <= Len(s)
      BY <1>6, <3>1, <3>2
    <3> QED
      BY <1>3, <1>9, <3>3 DEF IsBlock
  <2>5. ASSUME Len(rs) < Len(cs), u # <<>> PROVE u[1].role # "toolresult"
    <3>1. m < n /\ b = m
      BY <1>2, <1>4, <1>5, <1>7, <1>8, <2>5
    <3>2. l # 0
      BY <1>9, <2>5, EmptySeq
    <3>3. 1 \in 1..l /\ 1 + n + m + 1 = j + b /\ j + b <= Len(s)
      BY <1>6, <3>1, <3>2
    <3> QED
      BY <1>5, <1>9, <3>3 DEF IsBlock
  <2> QED
    BY <2>1, <2>2, <2>3, <2>4, <2>5 DEF IsGroup
<1>12. Len(u) <= Len(v)
  BY <1>1, <1>6, <1>9
<1> QED
  BY <1>7, <1>8, <1>9, <1>10, <1>11, <1>12 DEF s

-----------------------------------------------------------------------------
(* The loop over two transcripts, one behind the other.                    *)

(* Induction over the length of a sequence.                                *)
LEMMA SeqLengthInduction ==
  ASSUME NEW T, NEW S,
         \A s \in Seq(T) : (\A u \in Seq(T) : Len(u) < Len(s) => u \in S) => s \in S
  PROVE  Seq(T) \subseteq S
<1> DEFINE N == { Len(s) : s \in Seq(T) \ S }
<1> SUFFICES ASSUME Seq(T) \ S # {} PROVE FALSE
  OBVIOUS
<1>1. N \subseteq Nat /\ N # {}
  <2>1. \A s \in Seq(T) : Len(s) \in Nat
    OBVIOUS
  <2>2. N \subseteq Nat
    BY <2>1
  <2>3. PICK s : s \in Seq(T) \ S
    OBVIOUS
  <2>4. Len(s) \in N
    BY <2>3
  <2> QED
    BY <2>2, <2>4
<1>2. PICK n \in N : \A y \in N : ~ (y < n)
  BY <1>1, LeastNat
<1>3. PICK s \in Seq(T) \ S : n = Len(s)
  OBVIOUS
<1>4. \A u \in Seq(T) : Len(u) < Len(s) => u \in S
  <2> SUFFICES ASSUME NEW u \in Seq(T), Len(u) < Len(s), u \notin S
               PROVE  FALSE
    OBVIOUS
  <2>1. Len(u) \in N
    OBVIOUS
  <2> HIDE DEF N
  <2> QED
    BY <1>2, <1>3, <2>1
<1> QED
  BY <1>3, <1>4

LEMMA HeadAndTail ==
  ASSUME NEW T, NEW s \in Seq(T), s # <<>>
  PROVE  \E t \in T, v \in Seq(T) : s = <<t>> \o v /\ Len(v) < Len(s)
<1>1. Head(s) \in T /\ Tail(s) \in Seq(T) /\ s = <<Head(s)>> \o Tail(s)
  BY HeadTailProperties
<1>2. Len(Tail(s)) < Len(s)
  BY HeadTailProperties, EmptySeq
<1> QED
  BY <1>1, <1>2

(* s does not begin in the middle of a group.                              *)
Begins(s) == s # <<>> => s[1].role \notin {"toolcall", "toolresult"}

LEMMA GroupConcat ==
  ASSUME NEW T, NEW t \in T, NEW cs \in Seq(T), NEW rs \in Seq(T), NEW u \in Seq(T),
         NEW b \in Seq(T), IsGroup(cs, rs, u), Begins(b)
  PROVE  /\ Group(t, cs, rs, u) \o b = Group(t, cs, rs, u \o b)
         /\ IsGroup(cs, rs, u \o b)
<1> DEFINE p == <<t>> \o cs \o rs
           w == u \o b
<1>1. p \in Seq(T)
  <2>1. IsGroupOf(Group(t, cs, rs, u), p, t, cs, rs, u, T)
    BY GroupIndex
  <2> QED
    BY <2>1 DEF IsGroupOf
<1>2. (p \o u) \o b = p \o (u \o b)
  BY <1>1, ConcatAssociative, SMTT(30)
<1>3. CASE u = <<>>
  <2>1. w = b
    BY <1>3, ConcatEmptySeq
  <2> HIDE DEF w
  <2>2. IsGroup(cs, rs, w)
    BY <2>1 DEF IsGroup, Begins
  <2> QED
    BY <1>2, <2>2 DEF Group, w
<1>4. CASE u # <<>>
  <2>1. /\ w \in Seq(T) /\ Len(w) = Len(u) + Len(b)
        /\ \A i \in 1..(Len(u) + Len(b)) : w[i] = IF i <= Len(u) THEN u[i] ELSE b[i - Len(u)]
    BY ConcatProperties
  <2>2. Len(u) \in Nat /\ Len(u) # 0 /\ Len(b) \in Nat
    BY <1>4, EmptySeq
  <2> HIDE DEF w
  <2>3. w[1] = u[1]
    BY <2>1, <2>2
  <2>4. IsGroup(cs, rs, w)
    BY <1>4, <2>3 DEF IsGroup
  <2> QED
    BY <1>2, <2>4 DEF Group, w
<1> QED
  BY <1>3, <1>4

LEMMA BlockType ==
  ASSUME NEW X, NEW C, <<>> \in X, NoCall \in C, NEW t \in TurnsOver(X, C),
         NEW cs \in Seq(TurnsOver(X, C)), NEW rs \in Seq(TurnsOver(X, C)), Len(rs) <= Len(cs)
  PROVE  /\ Calls(cs) \in Seq(C)
         /\ AssistantMessage(t, Calls(cs)) \in MessagesOver(X, C)
         /\ Tools(cs, rs) \in Seq(MessagesOver(X, C))
         /\ <<AssistantMessage(t, Calls(cs))>> \in Seq(MessagesOver(X, C))
         /\ AnswerBlock(t, cs, rs) \in Seq(MessagesOver(X, C))
<1> DEFINE M == MessagesOver(X, C)
           T == TurnsOver(X, C)
<1>0. \A x \in T : x.call \in C /\ x.text \in X /\ x.reasoning \in X
  BY DEF TurnsOver
<1>1. /\ \A k \in 1..Len(cs) : cs[k].call \in C
      /\ \A k \in 1..Len(rs) : rs[k].text \in X
      /\ Len(cs) \in Nat /\ Len(rs) \in Nat
  <2> HIDE DEF T
  <2>1. cs \in Seq(T) /\ rs \in Seq(T)
    BY DEF T
  <2> QED
    BY <1>0, <2>1
<1>2. Calls(cs) \in Seq(C)
  BY <1>1 DEF Calls
<1>3. AssistantMessage(t, Calls(cs)) \in M
  BY <1>0, <1>2 DEF AssistantMessage, Message, MessagesOver
<1>4. Tools(cs, rs) \in Seq(M)
  <2>1. ASSUME NEW k \in 1..Len(rs) PROVE ToolMessage(rs[k], cs[k].call) \in M
    <3>1. cs[k].call \in C /\ rs[k].text \in X /\ <<>> \in Seq(C)
      BY <1>1
    <3> QED
      BY <3>1 DEF ToolMessage, Message, MessagesOver
  <2> HIDE DEF M
  <2> QED
    BY <1>1, <2>1 DEF Tools
<1> DEFINE a == AssistantMessage(t, Calls(cs))
           o == <<a>>
<1>5. o \in Seq(M)
  BY <1>3
<1> HIDE DEF M, o
<1>6. o \o Tools(cs, rs) \in Seq(M)
  BY <1>4, <1>5, ConcatProperties
<1> QED
  BY <1>2, <1>3, <1>4, <1>5, <1>6 DEF M, o, AnswerBlock

LEMMA LoopConcat ==
  ASSUME NEW X, NEW C, <<>> \in X, NoCall \in C,
         NEW a \in Seq(TurnsOver(X, C)), NEW b \in Seq(TurnsOver(X, C)), Begins(b)
  PROVE  LoopMessages(a \o b) = Joined(LoopMessages(a), LoopMessages(b))
<1> DEFINE T == TurnsOver(X, C)
           Q == Seq(MessagesOver(X, C))
           S == { s \in Seq(T) : LoopMessages(s \o b) = Joined(LoopMessages(s), LoopMessages(b)) }
<1>0. /\ LoopMessages(b) \in Q /\ \A s \in Seq(T) : LoopMessages(s) \in Q
  BY LoopType
<1>1. ASSUME NEW s \in Seq(T), \A u \in Seq(T) : Len(u) < Len(s) => u \in S
      PROVE  s \in S
  <2>1. CASE s = <<>>
    <3>1. s \o b = b
      BY <2>1, ConcatEmptySeq
    <3>2. LoopMessages(s) = <<>>
      BY <2>1, LoopEmpty
    <3>3. Joined(<<>>, LoopMessages(b)) = LoopMessages(b)
      BY <1>0, JoinedEmpty
    <3> QED
      BY <3>1, <3>2, <3>3
  <2>2. CASE s # <<>>
    <3>1. PICK t \in T, v \in Seq(T) : s = <<t>> \o v /\ Len(v) < Len(s)
      BY <2>2, HeadAndTail
    <3> DEFINE o == <<t>>
               w == v \o b
    <3>2. o \in Seq(T)
      OBVIOUS
    <3> HIDE DEF o
    <3>3. s \o b = o \o w /\ w \in Seq(T)
      BY <3>1, <3>2, ConcatAssociative, ConcatProperties DEF o
    <3>4. LoopMessages(w) = Joined(LoopMessages(v), LoopMessages(b))
      BY <1>1, <3>1
    <3>5. LoopMessages(v) \in Q
      BY <1>0
    <3> HIDE DEF w
    <3>6. CASE t.role = "user"
      <4>1. UserOut(t) \in Q
        BY UserMessageType DEF UserOut
      <4>2. \A x \in Seq(T) : LoopMessages(<<t>> \o x) = Joined(UserOut(t), LoopMessages(x))
        BY <3>6, LoopUser
      <4>3. LoopMessages(o \o w) = Joined(UserOut(t), LoopMessages(w))
        BY <3>3, <4>2 DEF o
      <4>4. LoopMessages(s) = Joined(UserOut(t), LoopMessages(v))
        BY <3>1, <4>2
      <4>5. Joined(UserOut(t), Joined(LoopMessages(v), LoopMessages(b)))
              = Joined(Joined(UserOut(t), LoopMessages(v)), LoopMessages(b))
        BY <1>0, <3>5, <4>1, JoinedAssociative
      <4> QED
        BY <3>3, <3>4, <4>3, <4>4, <4>5
    <3>7. CASE t.role # "user" /\ ~IsAnswerTurn(t)
      <4>1. LoopMessages(o \o w) = LoopMessages(w)
        BY <3>3, <3>7, LoopOther DEF o
      <4>2. LoopMessages(s) = LoopMessages(v)
        BY <3>1, <3>7, LoopOther DEF o
      <4> QED
        BY <3>3, <3>4, <4>1, <4>2
    <3>8. CASE IsAnswerTurn(t)
      <4>1. PICK cs \in Seq(T), rs \in Seq(T), u \in Seq(T) :
                 <<t>> \o v = Group(t, cs, rs, u) /\ IsGroup(cs, rs, u) /\ Len(u) <= Len(v)
        BY GroupExists
      <4> DEFINE x == u \o b
                 m == AnswerBlock(t, cs, rs)
      <4>2. x \in Seq(T) /\ Len(u) < Len(s)
        BY <3>1, <4>1, ConcatProperties
      <4>3. Group(t, cs, rs, u) \o b = Group(t, cs, rs, x) /\ IsGroup(cs, rs, x)
        BY <4>1, GroupConcat
      <4>4. LoopMessages(x) = Joined(LoopMessages(u), LoopMessages(b))
        BY <1>1, <4>2
      <4> HIDE DEF x
      <4>5. LoopMessages(Group(t, cs, rs, x)) = Joined(m, LoopMessages(x))
        BY <3>8, <4>2, <4>3, LoopAnswer
      <4>6. LoopMessages(Group(t, cs, rs, u)) = Joined(m, LoopMessages(u))
        BY <3>8, <4>1, LoopAnswer
      <4>7. m \in Q
        BY <4>1, BlockType DEF IsGroup
      <4>8. LoopMessages(u) \in Q
        BY <1>0
      <4> HIDE DEF m
      <4>9. Joined(m, Joined(LoopMessages(u), LoopMessages(b))) = Joined(Joined(m, LoopMessages(u)), LoopMessages(b))
        BY <1>0, <4>7, <4>8, JoinedAssociative
      <4> QED
        BY <3>1, <4>1, <4>3, <4>4, <4>5, <4>6, <4>9
    <3> QED
      BY <3>6, <3>7, <3>8
  <2> QED
    BY <2>1, <2>2
<1> HIDE DEF S
<1>2. Seq(T) \subseteq S
  BY <1>1, SeqLengthInduction
<1> QED
  BY <1>2 DEF S

-----------------------------------------------------------------------------
(* An archive that is loaded and saved again.                              *)

Singled(h, s) == [i \in 1..Len(s) |-> h[s[i]]]

IsSingled(T, U, g, h, s) ==
  /\ g \in [T -> Seq(U)] /\ h \in [T -> U] /\ s \in Seq(T)
  /\ \A i \in 1..Len(s) : g[s[i]] = <<h[s[i]]>>

(* Mapping each element to one.                                            *)
LEMMA MappedSingles ==
  ASSUME NEW T, NEW U, NEW g, NEW h, NEW s, IsSingled(T, U, g, h, s)
  PROVE  Mapped(g, s) = Singled(h, s)
<1>0. g \in [T -> Seq(U)] /\ h \in [T -> U] /\ s \in Seq(T)
  BY DEF IsSingled
<1> DEFINE Image(t) == [i \in 1..Len(t) |-> h[t[i]]]
           Single(t) == \A i \in 1..Len(t) : g[t[i]] = <<h[t[i]]>>
           S == { t \in Seq(T) : Single(t) => Mapped(g, t) = Image(t) }
<1>1. <<>> \in S
  <2>1. Mapped(g, <<>>) = <<>> /\ Image(<<>>) = <<>> /\ <<>> \in Seq(T)
    BY <1>0, MappedEmpty
  <2> HIDE DEF Image, Single
  <2> QED
    BY <2>1
<1>2. ASSUME NEW t \in Seq(T), NEW e \in T, t \in S PROVE Append(t, e) \in S
  <2> DEFINE a == Append(t, e)
             n == Len(t)
             v == h[e]
             w == Image(t)
  <2>1. /\ a \in Seq(T) /\ Len(a) = n + 1 /\ n \in Nat
        /\ \A i \in 1..n : a[i] = t[i]
        /\ a[n + 1] = e
    BY AppendProperties
  <2> HIDE DEF a
  <2>2. ASSUME Single(a) PROVE Mapped(g, a) = Image(a)
    <3>1. Single(t) /\ g[e] = <<h[e]>>
      <4>1. \A i \in 1..n : i \in 1..Len(a)
        BY <2>1
      <4>2. n + 1 \in 1..Len(a)
        BY <2>1
      <4> QED
        BY <2>1, <2>2, <4>1, <4>2
    <3>2. Mapped(g, t) = w
      BY <1>2, <3>1
    <3>3. Mapped(g, a) = Mapped(g, t) \o g[e]
      BY <1>0, MappedAppend DEF a
    <3>4. v \in U /\ w \in Seq(U) /\ Len(w) = n /\ \A i \in 1..n : w[i] = h[t[i]]
      BY <1>0
    <3> HIDE DEF w, v
    <3>5. Append(w, v) = w \o <<v>>
      BY <3>4, AppendIsConcat
    <3>6. /\ Append(w, v) \in Seq(U) /\ Len(Append(w, v)) = n + 1
          /\ \A i \in 1..n : Append(w, v)[i] = w[i]
          /\ Append(w, v)[n + 1] = v
      BY <3>4, AppendProperties
    <3> DEFINE x == Append(w, v)
               y == Image(a)
    <3>7. y \in Seq(U) /\ Len(y) = n + 1 /\ \A i \in 1..(n + 1) : y[i] = h[a[i]]
      <4>1. \A i \in 1..(n + 1) : a[i] \in T
        BY <2>1
      <4> QED
        BY <1>0, <2>1, <4>1
    <3> HIDE DEF x, y
    <3>8. \A i \in 1..(n + 1) : x[i] = y[i]
      BY <2>1, <3>4, <3>6, <3>7 DEF x, v
    <3>9. x = y
      BY <3>6, <3>7, <3>8, SeqEqual DEF x
    <3> QED
      BY <3>1, <3>2, <3>3, <3>5, <3>9 DEF x, y, v
  <2> HIDE DEF Image, Single
  <2> QED
    BY <2>1, <2>2 DEF a
<1> HIDE DEF S
<1>3. s \in S
  BY <1>0, <1>1, <1>2, SeqSetInduction
<1> QED
  BY <1>3 DEF S, Singled, IsSingled

KeptTurns(X, C) == { t \in TurnsOver(X, C) : IsPersistable(t) }

(* The turns of a kept transcript are all kept.                            *)
LEMMA PersistableKept ==
  ASSUME NEW X, NEW C
  PROVE  /\ \A s \in Seq(TurnsOver(X, C)) : persistableConvTurns(s) \in Seq(KeptTurns(X, C))
         /\ \A s \in Seq(KeptTurns(X, C)) : s \in Seq(TurnsOver(X, C)) /\ persistableConvTurns(s) = s
<1> DEFINE T == TurnsOver(X, C)
           K == KeptTurns(X, C)
<1>1. K \subseteq T /\ \A t \in K : IsPersistable(t)
  BY DEF KeptTurns
<1>2. ASSUME NEW s \in Seq(T) PROVE persistableConvTurns(s) \in Seq(K)
  <2> DEFINE g == KeptTurn(T)
  <2>1. persistableConvTurns(s) = Mapped(g, s)
    BY PersistableIsMapped
  <2>2. g \in [T -> Seq(K)]
    <3>1. \A t \in T : (IF IsPersistable(t) THEN <<t>> ELSE <<>>) \in Seq(K)
      <4> TAKE t \in T
      <4>1. CASE IsPersistable(t)
        <5>1. t \in K
          BY <4>1 DEF KeptTurns
        <5> HIDE DEF K
        <5> QED
          BY <4>1, <5>1
      <4>2. CASE ~IsPersistable(t)
        <5> HIDE DEF K
        <5>1. <<>> \in Seq(K)
          OBVIOUS
        <5> QED
          BY <4>2, <5>1
      <4> QED
        BY <4>1, <4>2
    <3> HIDE DEF K, T
    <3> QED
      BY <3>1 DEF KeptTurn
  <2> HIDE DEF g, K, T
  <2>3. s \in Seq(T)
    BY <1>2
  <2>4. Mapped(g, s) \in Seq(K)
    BY <2>2, <2>3, MappedType
  <2> QED
    BY <2>1, <2>4
<1>3. ASSUME NEW s \in Seq(K) PROVE s \in Seq(T) /\ persistableConvTurns(s) = s
  <2> DEFINE g == KeptTurn(K)
             h == [t \in K |-> t]
  <2>0. s \in Seq(T)
    BY <1>1
  <2>1. g \in [K -> Seq(K)] /\ persistableConvTurns(s) = Mapped(g, s)
    BY PersistableIsMapped
  <2>2. h \in [K -> K]
    OBVIOUS
  <2>3. IsSingled(K, K, g, h, s)
    <3> HIDE DEF K
    <3>1. \A i \in 1..Len(s) : s[i] \in K
      BY <1>3
    <3>2. \A i \in 1..Len(s) : g[s[i]] = <<h[s[i]]>>
      BY <1>1, <3>1 DEF KeptTurn
    <3> HIDE DEF g, h
    <3> QED
      BY <1>3, <2>1, <2>2, <3>2 DEF IsSingled
  <2>4. Singled(h, s) = s
    <3> HIDE DEF K
    <3> QED
      BY <1>3 DEF Singled
  <2> HIDE DEF g, h, K
  <2>5. Mapped(g, s) = Singled(h, s)
    BY <2>3, MappedSingles
  <2> QED
    BY <2>0, <2>1, <2>4, <2>5
<1> QED
  BY <1>2, <1>3

(* What an archive becomes when it is loaded.                              *)
Reloading(X, C) == [m \in MessagesOver(X, C) |-> TurnsOfMessage(m)]

LEMMA TurnsOfMessageType ==
  ASSUME NEW X, NEW C, <<>> \in X, NoCall \in C, NEW m \in MessagesOver(X, C)
  PROVE  TurnsOfMessage(m) \in Seq(KeptTurns(X, C))
<1> DEFINE K == KeptTurns(X, C)
<1>1. /\ m.role \in {"user", "assistant", "tool"} /\ m.content \in X /\ m.reasoning \in X
      /\ m.calls \in Seq(C)
  BY DEF MessagesOver
<1>2. /\ UserTurn(m.content) \in K /\ ToolResultTurn(m.content) \in K
      /\ AssistantTurn(m.content, m.reasoning) \in K
      /\ \A c \in C : ToolCallTurn(c) \in K
  BY <1>1 DEF UserTurn, ToolResultTurn, AssistantTurn, ToolCallTurn, Turn, KeptTurns, TurnsOver,
              IsPersistable
<1> DEFINE c == [k \in 1..Len(m.calls) |-> ToolCallTurn(m.calls[k])]
           a == AssistantTurn(m.content, m.reasoning)
           o == <<a>>
<1>3. c \in Seq(K)
  BY <1>1, <1>2
<1>4. o \in Seq(K)
  BY <1>2
<1>5. m.role = "assistant" => TurnsOfMessage(m) = o \o c
  BY DEF TurnsOfMessage
<1>6. m.role = "user" => TurnsOfMessage(m) = <<UserTurn(m.content)>>
  BY DEF TurnsOfMessage
<1>7. m.role = "tool" => TurnsOfMessage(m) = <<ToolResultTurn(m.content)>>
  BY DEF TurnsOfMessage
<1> HIDE DEF K, c, o
<1>8. o \o c \in Seq(K)
  BY <1>3, <1>4, ConcatProperties
<1>9. <<UserTurn(m.content)>> \in Seq(K) /\ <<ToolResultTurn(m.content)>> \in Seq(K)
  BY <1>2
<1> QED
  BY <1>1, <1>5, <1>6, <1>7, <1>8, <1>9 DEF K

LEMMA ReloadedIsMapped ==
  ASSUME NEW X, NEW C, <<>> \in X, NoCall \in C, NEW s \in Seq(MessagesOver(X, C))
  PROVE  /\ Reloading(X, C) \in [MessagesOver(X, C) -> Seq(KeptTurns(X, C))]
         /\ MessagesToTurns(s) = Mapped(Reloading(X, C), s)
         /\ MessagesToTurns(s) \in Seq(KeptTurns(X, C))
         /\ MessagesToTurns(s) \in Seq(TurnsOver(X, C))
<1> DEFINE M == MessagesOver(X, C)
           K == KeptTurns(X, C)
           g == Reloading(X, C)
<1>1. g \in [M -> Seq(K)]
  BY TurnsOfMessageType DEF Reloading
<1>2. \A i \in 1..Len(s) : g[s[i]] = TurnsOfMessage(s[i])
  <2>1. \A m \in M : g[m] = TurnsOfMessage(m)
    BY DEF Reloading
  <2> HIDE DEF M, g
  <2> QED
    BY <2>1 DEF M
<1>3. MessagesToTurns(s) = Mapped(g, s)
  BY <1>2 DEF MessagesToTurns, Mapped
<1> HIDE DEF M, K, g
<1>4. s \in Seq(M)
  BY DEF M
<1>5. Mapped(g, s) \in Seq(K)
  BY <1>1, <1>4, MappedType
<1> QED
  BY <1>1, <1>3, <1>5, PersistableKept DEF M, K, g

LEMMA ReloadedConcat ==
  ASSUME NEW X, NEW C, <<>> \in X, NoCall \in C,
         NEW s \in Seq(MessagesOver(X, C)), NEW t \in Seq(MessagesOver(X, C))
  PROVE  MessagesToTurns(Joined(s, t)) = MessagesToTurns(s) \o MessagesToTurns(t)
<1> DEFINE M == MessagesOver(X, C)
           K == KeptTurns(X, C)
           g == Reloading(X, C)
           st == s \o t
<1>1. g \in [M -> Seq(K)] /\ MessagesToTurns(s) = Mapped(g, s) /\ MessagesToTurns(t) = Mapped(g, t)
  BY ReloadedIsMapped
<1>2. st \in Seq(M)
  BY ConcatProperties
<1> HIDE DEF st
<1>3. MessagesToTurns(st) = Mapped(g, st)
  BY <1>2, ReloadedIsMapped
<1>4. s \in Seq(M) /\ t \in Seq(M)
  OBVIOUS
<1> HIDE DEF M, K, g
<1>5. Mapped(g, s \o t) = Mapped(g, s) \o Mapped(g, t)
  BY <1>1, <1>4, MappedConcat, SMTT(30)
<1> QED
  BY <1>1, <1>3, <1>5 DEF st, Joined

LEMMA ReloadedOne ==
  ASSUME NEW X, NEW C, <<>> \in X, NoCall \in C, NEW m \in MessagesOver(X, C)
  PROVE  MessagesToTurns(<<m>>) = TurnsOfMessage(m)
<1> DEFINE M == MessagesOver(X, C)
           K == KeptTurns(X, C)
           g == Reloading(X, C)
           o == <<m>>
<1>1. o \in Seq(M)
  OBVIOUS
<1>2. g \in [M -> Seq(K)] /\ MessagesToTurns(o) = Mapped(g, o)
  BY <1>1, ReloadedIsMapped
<1>3. g[m] = TurnsOfMessage(m)
  BY DEF Reloading
<1>4. m \in M
  OBVIOUS
<1> HIDE DEF M, K, g
<1>5. Mapped(g, <<m>>) = g[m]
  BY <1>2, <1>4, MappedOne
<1> QED
  BY <1>2, <1>3, <1>5

CallsBack(cs)   == [k \in 1..Len(cs) |-> ToolCallTurn(cs[k].call)]
ResultsBack(rs) == [k \in 1..Len(rs) |-> ToolResultTurn(rs[k].text)]
AnswerBack(t)   == AssistantTurn(t.text, t.reasoning)

(* An archived answer comes back as an answer, its calls and its results.  *)
LEMMA ReloadedAnswer ==
  ASSUME NEW X, NEW C, <<>> \in X, NoCall \in C, NEW t \in TurnsOver(X, C),
         NEW cs \in Seq(TurnsOver(X, C)), NEW rs \in Seq(TurnsOver(X, C)), Len(rs) <= Len(cs)
  PROVE  MessagesToTurns(AnswerBlock(t, cs, rs))
           = <<AnswerBack(t)>> \o CallsBack(cs) \o ResultsBack(rs)
<1> DEFINE M == MessagesOver(X, C)
           K == KeptTurns(X, C)
           a == AssistantMessage(t, Calls(cs))
           o == <<a>>
           w == Tools(cs, rs)
           g == Reloading(X, C)
           h == [m \in M |-> ToolResultTurn(m.content)]
<1>1. a \in M /\ o \in Seq(M) /\ w \in Seq(M)
  BY BlockType
<1>2. MessagesToTurns(Joined(o, w)) = MessagesToTurns(o) \o MessagesToTurns(w)
  <2> HIDE DEF o, w
  <2> QED
    BY <1>1, ReloadedConcat
<1>3. MessagesToTurns(o) = <<AnswerBack(t)>> \o CallsBack(cs)
  <2>1. MessagesToTurns(o) = TurnsOfMessage(a)
    BY <1>1, ReloadedOne
  <2>2. /\ a.role = "assistant" /\ a.content = t.text /\ a.reasoning = t.reasoning
        /\ a.calls = Calls(cs)
    BY DEF AssistantMessage, Message
  <2>3. [k \in 1..Len(Calls(cs)) |-> ToolCallTurn(Calls(cs)[k])] = CallsBack(cs)
    BY DEF Calls, CallsBack
  <2> HIDE DEF a, o
  <2>4. TurnsOfMessage(a) = <<AssistantTurn(a.content, a.reasoning)>>
                              \o [k \in 1..Len(a.calls) |-> ToolCallTurn(a.calls[k])]
    BY <2>2 DEF TurnsOfMessage
  <2> QED
    BY <2>1, <2>2, <2>3, <2>4 DEF AnswerBack
<1>4. MessagesToTurns(w) = ResultsBack(rs)
  <2>1. g \in [M -> Seq(K)] /\ MessagesToTurns(w) = Mapped(g, w)
    BY <1>1, ReloadedIsMapped
  <2>2. h \in [M -> K]
    <3>1. \A m \in M : ToolResultTurn(m.content) \in K
      BY DEF MessagesOver, ToolResultTurn, Turn, KeptTurns, TurnsOver, IsPersistable
    <3> HIDE DEF M, K
    <3> QED
      BY <3>1
  <2>3. /\ Len(w) = Len(rs) /\ Len(rs) \in Nat
        /\ \A k \in 1..Len(rs) : w[k] = ToolMessage(rs[k], cs[k].call)
    BY DEF Tools
  <2>4. ASSUME NEW k \in 1..Len(rs)
        PROVE  w[k] \in M /\ w[k].role = "tool" /\ w[k].content = rs[k].text
    <3>1. w[k] \in M
      <4> HIDE DEF w, M
      <4> QED
        BY <1>1, <2>3
    <3>2. \A x, y : ToolMessage(x, y).role = "tool" /\ ToolMessage(x, y).content = x.text
      BY DEF ToolMessage, Message
    <3>3. w[k] = ToolMessage(rs[k], cs[k].call)
      BY <2>3
    <3> HIDE DEF w, M
    <3> QED
      BY <3>1, <3>2, <3>3
  <2>5. ASSUME NEW k \in 1..Len(rs)
        PROVE  g[w[k]] = <<h[w[k]]>> /\ h[w[k]] = ToolResultTurn(rs[k].text)
    <3>1. g[w[k]] = TurnsOfMessage(w[k])
      BY <2>4 DEF Reloading
    <3>2. TurnsOfMessage(w[k]) = <<ToolResultTurn(w[k].content)>>
      BY <2>4 DEF TurnsOfMessage
    <3>3. h[w[k]] = ToolResultTurn(w[k].content)
      BY <2>4
    <3> HIDE DEF g, h, w, M
    <3> QED
      BY <2>4, <3>1, <3>2, <3>3
  <2> HIDE DEF g, h, w, M, K
  <2>6. IsSingled(M, K, g, h, w)
    BY <1>1, <2>1, <2>2, <2>3, <2>5 DEF IsSingled
  <2>7. Mapped(g, w) = Singled(h, w)
    BY <2>6, MappedSingles
  <2>8. Singled(h, w) = ResultsBack(rs)
    BY <2>3, <2>5 DEF Singled, ResultsBack
  <2> QED
    BY <2>1, <2>7, <2>8
<1> QED
  BY <1>2, <1>3, <1>4 DEF AnswerBlock, Joined

(* It is a group again, and archived as it was.                            *)
LEMMA AnswerBackIsGroup ==
  ASSUME NEW X, NEW C, <<>> \in X, NoCall \in C, NEW t \in TurnsOver(X, C),
         NEW cs \in Seq(TurnsOver(X, C)), NEW rs \in Seq(TurnsOver(X, C)), Len(rs) <= Len(cs)
  PROVE  /\ AnswerBack(t) \in TurnsOver(X, C) /\ IsAnswerTurn(AnswerBack(t))
         /\ CallsBack(cs) \in Seq(TurnsOver(X, C)) /\ ResultsBack(rs) \in Seq(TurnsOver(X, C))
         /\ AnswerBlock(AnswerBack(t), CallsBack(cs), ResultsBack(rs)) = AnswerBlock(t, cs, rs)
         /\ \A u : Begins(u) => IsGroup(CallsBack(cs), ResultsBack(rs), u)
<1> DEFINE T == TurnsOver(X, C)
           c == CallsBack(cs)
           r == ResultsBack(rs)
           a == AnswerBack(t)
<1>0. \A x \in T : x.call \in C /\ x.text \in X /\ x.reasoning \in X
  BY DEF TurnsOver
<1>1. a \in T /\ IsAnswerTurn(a)
  BY <1>0 DEF AnswerBack, AssistantTurn, Turn, TurnsOver, IsAnswerTurn
<1>2. \A x \in T : ToolCallTurn(x.call) \in T /\ ToolResultTurn(x.text) \in T
  BY <1>0 DEF ToolCallTurn, ToolResultTurn, Turn, TurnsOver
<1>3. /\ Len(cs) \in Nat /\ Len(rs) \in Nat
      /\ \A k \in 1..Len(cs) : cs[k] \in T
      /\ \A k \in 1..Len(rs) : rs[k] \in T
  <2> HIDE DEF T
  <2>1. cs \in Seq(T) /\ rs \in Seq(T)
    BY DEF T
  <2> QED
    BY <2>1
<1>4. /\ c \in Seq(T) /\ Len(c) = Len(cs)
      /\ \A k \in 1..Len(cs) : c[k] = ToolCallTurn(cs[k].call)
  <2> HIDE DEF T
  <2> QED
    BY <1>2, <1>3 DEF CallsBack
<1>5. /\ r \in Seq(T) /\ Len(r) = Len(rs)
      /\ \A k \in 1..Len(rs) : r[k] = ToolResultTurn(rs[k].text)
  <2> HIDE DEF T
  <2> QED
    BY <1>2, <1>3 DEF ResultsBack
<1> HIDE DEF c, r, a, T
<1>6. /\ \A k \in 1..Len(cs) : c[k].role = "toolcall" /\ c[k].call = cs[k].call
      /\ \A k \in 1..Len(rs) : r[k].role = "toolresult" /\ r[k].text = rs[k].text
  <2>1. \A x : /\ ToolCallTurn(x).role = "toolcall" /\ ToolCallTurn(x).call = x
               /\ ToolResultTurn(x).role = "toolresult" /\ ToolResultTurn(x).text = x
    BY DEF ToolCallTurn, ToolResultTurn, Turn
  <2> QED
    BY <1>4, <1>5, <2>1
<1>7. Calls(c) = Calls(cs)
  BY <1>4, <1>6 DEF Calls
<1>8. Tools(c, r) = Tools(cs, rs)
  <2>1. \A k \in 1..Len(rs) : k \in 1..Len(cs)
    BY <1>3
  <2>2. \A k \in 1..Len(rs) : ToolMessage(r[k], c[k].call) = ToolMessage(rs[k], cs[k].call)
    BY <1>6, <2>1 DEF ToolMessage
  <2> QED
    BY <1>5, <2>2 DEF Tools
<1>9. AssistantMessage(a, Calls(c)) = AssistantMessage(t, Calls(cs))
  BY <1>7 DEF a, AnswerBack, AssistantTurn, Turn, AssistantMessage
<1>10. AnswerBlock(a, c, r) = AnswerBlock(t, cs, rs)
  BY <1>8, <1>9 DEF AnswerBlock
<1>11. ASSUME NEW u, Begins(u) PROVE IsGroup(c, r, u)
  BY <1>4, <1>5, <1>6, <1>11 DEF IsGroup, Begins
<1> QED
  BY <1>1, <1>4, <1>5, <1>10, <1>11 DEF T, c, r, a

LEMMA ReloadedUser ==
  ASSUME NEW X, NEW C, <<>> \in X, NoCall \in C, NEW t \in TurnsOver(X, C)
  PROVE  /\ UserTurn(t.text) \in TurnsOver(X, C) /\ UserTurn(t.text).role = "user"
         /\ UserOut(t) \in Seq(MessagesOver(X, C))
         /\ MessagesToTurns(UserOut(t)) = <<UserTurn(t.text)>>
         /\ UserOut(UserTurn(t.text)) = UserOut(t)
<1>1. t.text \in X
  BY DEF TurnsOver
<1>2. UserTurn(t.text) \in TurnsOver(X, C) /\ UserTurn(t.text).role = "user"
  BY <1>1 DEF UserTurn, Turn, TurnsOver
<1>3. UserMessage(UserTurn(t.text)) = UserMessage(t)
  BY DEF UserMessage, UserTurn, Turn
<1> DEFINE m == UserMessage(t)
           o == <<m>>
<1>4. m \in MessagesOver(X, C)
  BY UserMessageType
<1>5. TurnsOfMessage(m) = <<UserTurn(t.text)>>
  BY DEF TurnsOfMessage, UserMessage, Message
<1>6. o \in Seq(MessagesOver(X, C))
  BY <1>4
<1> HIDE DEF m
<1>7. MessagesToTurns(<<m>>) = TurnsOfMessage(m)
  BY <1>4, ReloadedOne
<1> QED
  BY <1>2, <1>3, <1>5, <1>6, <1>7 DEF m, UserOut

(* What a restart makes of the archive of s.                               *)
Reloaded(s) == MessagesToTurns(LoopMessages(s))

ReloadIsFixed(s) == LoopMessages(Reloaded(s)) = LoopMessages(s) /\ Begins(Reloaded(s))

LEMMA ReloadFixed ==
  ASSUME NEW X, NEW C, <<>> \in X, NoCall \in C, NEW s \in Seq(TurnsOver(X, C))
  PROVE  ReloadIsFixed(s)
<1> DEFINE T == TurnsOver(X, C)
           Q == Seq(MessagesOver(X, C))
           S == { x \in Seq(T) : ReloadIsFixed(x) }
<1>0. \A x \in Seq(T) : LoopMessages(x) \in Q /\ Reloaded(x) \in Seq(T)
  BY LoopType, ReloadedIsMapped DEF Reloaded
<1>1. ASSUME NEW x \in Seq(T), \A u \in Seq(T) : Len(u) < Len(x) => u \in S
      PROVE  x \in S
  <2>1. CASE x = <<>>
    <3>1. LoopMessages(x) = <<>>
      BY <2>1, LoopEmpty
    <3>2. <<>> \in Q /\ Len(<<>>) = 0
      OBVIOUS
    <3>3. MessagesToTurns(<<>>) = Mapped(Reloading(X, C), <<>>)
      BY <3>2, ReloadedIsMapped
    <3>4. Reloaded(x) = <<>>
      BY <3>1, <3>3, MappedEmpty DEF Reloaded
    <3>5. ReloadIsFixed(x)
      BY <3>1, <3>4, LoopEmpty DEF ReloadIsFixed, Begins
    <3> QED
      BY <3>5
  <2>2. CASE x # <<>>
    <3>1. PICK t \in T, v \in Seq(T) : x = <<t>> \o v /\ Len(v) < Len(x)
      BY <2>2, HeadAndTail
    <3>2. ReloadIsFixed(v)
      BY <1>1, <3>1
    <3>3. LoopMessages(v) \in Q /\ Reloaded(v) \in Seq(T)
      BY <1>0
    <3>4. CASE t.role = "user"
      <4> DEFINE a == UserTurn(t.text)
                 o == UserOut(t)
                 r == Reloaded(v)
      <4>1. /\ a \in T /\ a.role = "user" /\ o \in Q /\ MessagesToTurns(o) = <<a>> /\ UserOut(a) = o
        BY ReloadedUser
      <4>2. LoopMessages(x) = Joined(o, LoopMessages(v))
        BY <3>1, <3>4, LoopUser
      <4> HIDE DEF o, a, r
      <4>3. MessagesToTurns(Joined(o, LoopMessages(v))) = MessagesToTurns(o) \o MessagesToTurns(LoopMessages(v))
        <5>1. o \in Q /\ LoopMessages(v) \in Q
          BY <3>3, <4>1
        <5> QED
          BY <5>1, ReloadedConcat
      <4>4. Reloaded(x) = <<a>> \o r
        BY <4>1, <4>2, <4>3 DEF Reloaded, r
      <4>5. LoopMessages(<<a>> \o r) = Joined(UserOut(a), LoopMessages(r))
        BY <3>3, <4>1, LoopUser DEF r
      <4>6. LoopMessages(r) = LoopMessages(v)
        BY <3>2 DEF ReloadIsFixed, r
      <4>7. (<<a>> \o r)[1] = a
        BY <3>3, <4>1, FirstTurn DEF r
      <4>8. Begins(<<a>> \o r)
        BY <4>1, <4>7 DEF Begins
      <4>9. ReloadIsFixed(x)
        BY <4>1, <4>2, <4>4, <4>5, <4>6, <4>8 DEF ReloadIsFixed
      <4> QED
        BY <4>9
    <3>5. CASE t.role # "user" /\ ~IsAnswerTurn(t)
      <4>1. LoopMessages(x) = LoopMessages(v)
        BY <3>1, <3>5, LoopOther
      <4>2. ReloadIsFixed(x)
        BY <3>2, <4>1 DEF ReloadIsFixed, Reloaded
      <4> QED
        BY <4>2
    <3>6. CASE IsAnswerTurn(t)
      <4>1. PICK cs \in Seq(T), rs \in Seq(T), u \in Seq(T) :
                 <<t>> \o v = Group(t, cs, rs, u) /\ IsGroup(cs, rs, u) /\ Len(u) <= Len(v)
        BY GroupExists
      <4> DEFINE m == AnswerBlock(t, cs, rs)
                 r == Reloaded(u)
                 a == AnswerBack(t)
                 c == CallsBack(cs)
                 d == ResultsBack(rs)
                 g == Group(a, c, d, r)
      <4>2. Len(u) < Len(x)
        BY <3>1, <4>1
      <4>3. ReloadIsFixed(u)
        BY <1>1, <4>2
      <4>4. LoopMessages(u) \in Q /\ r \in Seq(T)
        BY <1>0
      <4>5. LoopMessages(x) = Joined(m, LoopMessages(u))
        <5>1. LoopMessages(Group(t, cs, rs, u)) = Joined(m, LoopMessages(u))
          BY <3>6, <4>1, LoopAnswer
        <5> HIDE DEF m
        <5> QED
          BY <3>1, <4>1, <5>1
      <4>6. Len(rs) <= Len(cs)
        BY <4>1 DEF IsGroup
      <4>7. m \in Q
        BY <4>6, BlockType
      <4>8. MessagesToTurns(m) = <<a>> \o c \o d
        BY <4>6, ReloadedAnswer
      <4>9. /\ a \in T /\ IsAnswerTurn(a) /\ c \in Seq(T) /\ d \in Seq(T) /\ AnswerBlock(a, c, d) = m
            /\ \A y : Begins(y) => IsGroup(c, d, y)
        <5>1. /\ AnswerBack(t) \in T /\ IsAnswerTurn(AnswerBack(t))
              /\ CallsBack(cs) \in Seq(T) /\ ResultsBack(rs) \in Seq(T)
              /\ AnswerBlock(AnswerBack(t), CallsBack(cs), ResultsBack(rs)) = AnswerBlock(t, cs, rs)
          BY <4>6, AnswerBackIsGroup
        <5>2. \A y : Begins(y) => IsGroup(CallsBack(cs), ResultsBack(rs), y)
          BY <4>6, AnswerBackIsGroup
        <5> QED
          BY <5>1, <5>2
      <4> HIDE DEF m, r, a, c, d
      <4>10. MessagesToTurns(Joined(m, LoopMessages(u))) = MessagesToTurns(m) \o MessagesToTurns(LoopMessages(u))
        BY <4>4, <4>7, ReloadedConcat
      <4>11. Reloaded(x) = g
        BY <4>5, <4>8, <4>10 DEF Reloaded, Group, r
      <4>12. IsGroup(c, d, r) /\ LoopMessages(r) = LoopMessages(u)
        BY <4>3, <4>9 DEF ReloadIsFixed, r
      <4>13. LoopMessages(g) = Joined(AnswerBlock(a, c, d), LoopMessages(r))
        BY <4>4, <4>9, <4>12, LoopAnswer
      <4>14. g[1] = a
        <5>1. IsGroupOf(g, <<a>> \o c \o d, a, c, d, r, T)
          BY <4>4, <4>9, GroupIndex
        <5> QED
          BY <5>1 DEF IsGroupOf
      <4> HIDE DEF g
      <4>15. Begins(g)
        BY <4>9, <4>14 DEF Begins, IsAnswerTurn
      <4>16. ReloadIsFixed(x)
        BY <4>5, <4>9, <4>11, <4>12, <4>13, <4>15 DEF ReloadIsFixed
      <4> QED
        BY <4>16
    <3> QED
      BY <3>4, <3>5, <3>6
  <2> QED
    BY <2>1, <2>2
<1> HIDE DEF S
<1>2. Seq(T) \subseteq S
  BY <1>1, SeqLengthInduction
<1> QED
  BY <1>2 DEF S

(* Nothing that comes back is left out of the next archive.                *)
LEMMA ReloadedIsPersistable ==
  ASSUME NEW X, NEW C, <<>> \in X, NoCall \in C, NEW s \in Seq(TurnsOver(X, C))
  PROVE  /\ Reloaded(s) \in Seq(TurnsOver(X, C))
         /\ persistableConvTurns(Reloaded(s)) = Reloaded(s)
<1>1. LoopMessages(s) \in Seq(MessagesOver(X, C))
  BY LoopType
<1>2. Reloaded(s) \in Seq(KeptTurns(X, C))
  BY <1>1, ReloadedIsMapped DEF Reloaded
<1> QED
  BY <1>2, PersistableKept

-----------------------------------------------------------------------------
(* Prefixes.                                                               *)
LEMMA PrefixIs ==
  ASSUME NEW M, NEW s \in Seq(M), NEW t \in Seq(M)
  PROVE  IsPrefix(s, t) <=> Len(s) <= Len(t) /\ \A i \in 1..Len(s) : s[i] = t[i]
<1>1. Len(s) \in Nat /\ Len(t) \in Nat
  OBVIOUS
<1>2. SubSeq(s, 1, Len(s)) = s
  BY SubSeqFull
<1>3. ASSUME Len(s) <= Len(t)
      PROVE  (SubSeq(t, 1, Len(s)) = s) <=> \A i \in 1..Len(s) : s[i] = t[i]
  <2> DEFINE u == SubSeq(t, 1, Len(s))
             n == Len(s)
  <2>1. u \in Seq(M) /\ Len(u) = n /\ \A i \in 1..n : u[i] = t[i]
    <3>1. n \in Int /\ 1 \in Int /\ \A i \in 1..n : t[i] \in M
      BY <1>1, <1>3
    <3>2. /\ SubSeq(t, 1, n) \in Seq(M)
          /\ Len(SubSeq(t, 1, n)) = IF 1 <= n THEN n - 1 + 1 ELSE 0
          /\ \A i \in 1..(n - 1 + 1) : SubSeq(t, 1, n)[i] = t[1 + i - 1]
      <4> HIDE DEF n
      <4> QED
        BY <3>1, SubSeqProperties
    <3> QED
      BY <1>1, <3>2
  <2> HIDE DEF u
  <2>2. ASSUME \A i \in 1..n : s[i] = t[i] PROVE u = s
    <3>1. \A i \in 1..Len(u) : u[i] = s[i]
      BY <2>1, <2>2
    <3> QED
      BY <2>1, <3>1, SeqEqual
  <2> QED
    BY <2>1, <2>2 DEF u
<1> QED
  BY <1>2, <1>3 DEF IsPrefix

LEMMA PrefixRefl ==
  ASSUME NEW M, NEW s \in Seq(M)
  PROVE  IsPrefix(s, s) /\ IsPrefix(<<>>, s)
<1> DEFINE e == <<>>
<1>1. e \in Seq(M) /\ Len(e) = 0 /\ Len(s) \in Nat
  OBVIOUS
<1> HIDE DEF e
<1>2. IsPrefix(s, s)
  <2>1. Len(s) <= Len(s) /\ \A i \in 1..Len(s) : s[i] = s[i]
    BY <1>1
  <2> QED
    BY <2>1, PrefixIs
<1>3. IsPrefix(e, s)
  <2>1. Len(e) <= Len(s) /\ \A i \in 1..Len(e) : e[i] = s[i]
    BY <1>1
  <2>2. e \in Seq(M)
    BY <1>1
  <2> QED
    BY <2>1, <2>2, PrefixIs
<1> QED
  BY <1>2, <1>3 DEF e

LEMMA PrefixTrans ==
  ASSUME NEW M, NEW s \in Seq(M), NEW t \in Seq(M), NEW u \in Seq(M),
         IsPrefix(s, t), IsPrefix(t, u)
  PROVE  IsPrefix(s, u)
<1>1. Len(s) <= Len(t) /\ \A i \in 1..Len(s) : s[i] = t[i]
  BY PrefixIs
<1>2. Len(t) <= Len(u) /\ \A i \in 1..Len(t) : t[i] = u[i]
  BY PrefixIs
<1>3. Len(s) \in Nat /\ Len(t) \in Nat /\ Len(u) \in Nat
  OBVIOUS
<1>4. Len(s) <= Len(u) /\ \A i \in 1..Len(s) : s[i] = u[i]
  BY <1>1, <1>2, <1>3
<1> QED
  BY <1>4, PrefixIs

LEMMA PrefixConcat ==
  ASSUME NEW M, NEW s \in Seq(M), NEW t \in Seq(M)
  PROVE  IsPrefix(s, Joined(s, t))
<1> DEFINE u == s \o t
<1>1. /\ u \in Seq(M) /\ Len(u) = Len(s) + Len(t)
      /\ \A i \in 1..(Len(s) + Len(t)) : u[i] = IF i <= Len(s) THEN s[i] ELSE t[i - Len(s)]
      /\ Len(s) \in Nat /\ Len(t) \in Nat
  BY ConcatProperties
<1> HIDE DEF u
<1>2. Len(s) <= Len(u) /\ \A i \in 1..Len(s) : s[i] = u[i]
  BY <1>1
<1>3. IsPrefix(s, u)
  BY <1>1, <1>2, PrefixIs
<1> QED
  BY <1>3 DEF u, Joined

-----------------------------------------------------------------------------
(* Answers stand behind the message that makes the call, in the order of   *)
(* its calls.                                                              *)
StandsAt(m, i, a) ==
  /\ m[a].role = "assistant"
  /\ i - a \in 1..Len(m[a].calls) /\ m[i].answers = m[a].calls[i - a]
  /\ \A k \in (a + 1)..i : m[k].role = "tool"

AnswersStand(m) ==
  \A i \in 1..Len(m) : m[i].role = "tool" => \E a \in 1..(i - 1) : StandsAt(m, i, a)

(* No call is made twice.                                                  *)
CallsApart(m) ==
  \A a, b \in 1..Len(m) : \A x \in 1..Len(m[a].calls), y \in 1..Len(m[b].calls) :
    m[a].calls[x] = m[b].calls[y] => a = b /\ x = y

Makes(m, c) == \E a \in 1..Len(m) : \E x \in 1..Len(m[a].calls) : m[a].calls[x] = c

(* The same of turns.                                                      *)
TurnCallsApart(s) ==
  \A i, j \in 1..Len(s) :
    s[i].role = "toolcall" /\ s[j].role = "toolcall" /\ s[i].call = s[j].call => i = j

MakesTurn(s, c) == \E i \in 1..Len(s) : s[i].role = "toolcall" /\ s[i].call = c

IsJoined(p, q, r) ==
  /\ Len(p) \in Nat /\ Len(q) \in Nat /\ Len(r) = Len(p) + Len(q)
  /\ \A i \in 1..Len(p) : r[i] = p[i]
  /\ \A i \in 1..Len(q) : r[Len(p) + i] = q[i]

LEMMA JoinedIndex ==
  ASSUME NEW M, NEW p \in Seq(M), NEW q \in Seq(M)
  PROVE  IsJoined(p, q, Joined(p, q))
<1> DEFINE r == p \o q
<1>1. /\ Len(r) = Len(p) + Len(q) /\ Len(p) \in Nat /\ Len(q) \in Nat
      /\ \A i \in 1..(Len(p) + Len(q)) : r[i] = IF i <= Len(p) THEN p[i] ELSE q[i - Len(p)]
  BY ConcatProperties
<1> HIDE DEF r
<1>2. \A i \in 1..Len(p) : r[i] = p[i]
  BY <1>1
<1>3. ASSUME NEW i \in 1..Len(q) PROVE r[Len(p) + i] = q[i]
  <2> DEFINE j == Len(p) + i
  <2>1. j \in 1..(Len(p) + Len(q)) /\ ~(j <= Len(p)) /\ j - Len(p) = i
    BY <1>1
  <2> HIDE DEF j
  <2>2. r[j] = q[j - Len(p)]
    BY <1>1, <2>1
  <2> QED
    BY <2>1, <2>2 DEF j
<1> QED
  BY <1>1, <1>2, <1>3 DEF IsJoined, Joined, r

(* Where an index of two sequences joined lies.                            *)
LEMMA JoinedAt ==
  ASSUME NEW p, NEW q, NEW r, IsJoined(p, q, r), NEW i \in 1..Len(r)
  PROVE  \/ i \in 1..Len(p) /\ r[i] = p[i]
         \/ \E j \in 1..Len(q) : i = Len(p) + j /\ r[i] = q[j]
<1>1. CASE i <= Len(p)
  BY <1>1 DEF IsJoined
<1>2. CASE ~(i <= Len(p))
  <2> DEFINE j == i - Len(p)
  <2>1. j \in 1..Len(q) /\ i = Len(p) + j
    BY <1>2 DEF IsJoined
  <2> HIDE DEF j
  <2> QED
    BY <2>1 DEF IsJoined
<1> QED
  BY <1>1, <1>2

LEMMA JoinedStands ==
  ASSUME NEW p, NEW q, NEW r, IsJoined(p, q, r), AnswersStand(p), AnswersStand(q)
  PROVE  AnswersStand(r)
<1> SUFFICES ASSUME NEW i \in 1..Len(r), r[i].role = "tool"
             PROVE  \E a \in 1..(i - 1) : StandsAt(r, i, a)
  BY DEF AnswersStand
<1>1. CASE i \in 1..Len(p) /\ r[i] = p[i]
  <2>1. PICK a \in 1..(i - 1) : StandsAt(p, i, a)
    BY <1>1 DEF AnswersStand
  <2>2. \A k \in a..i : k \in 1..Len(p) /\ r[k] = p[k]
    BY <1>1, <2>1 DEF IsJoined
  <2>3. a \in a..i /\ \A k \in (a + 1)..i : k \in a..i
    BY <1>1, <2>1
  <2>4. r[a] = p[a] /\ \A k \in (a + 1)..i : r[k] = p[k]
    BY <2>2, <2>3
  <2>5. StandsAt(r, i, a)
    BY <1>1, <2>1, <2>4 DEF StandsAt
  <2> QED
    BY <2>1, <2>5
<1>2. CASE \E j \in 1..Len(q) : i = Len(p) + j /\ r[i] = q[j]
  <2>1. PICK j \in 1..Len(q) : i = Len(p) + j /\ r[i] = q[j]
    BY <1>2
  <2>2. PICK a \in 1..(j - 1) : StandsAt(q, j, a)
    BY <2>1 DEF AnswersStand
  <2> DEFINE b == Len(p) + a
  <2>3. Len(p) \in Nat /\ a \in 1..Len(q) /\ b \in 1..(i - 1) /\ i - b = j - a
    BY <2>1, <2>2 DEF IsJoined
  <2>4. r[b] = q[a]
    BY <2>3 DEF IsJoined
  <2>5. ASSUME NEW k \in (b + 1)..i PROVE r[k].role = "tool"
    <3> DEFINE l == k - Len(p)
    <3>1. l \in (a + 1)..j /\ k = Len(p) + l /\ l \in 1..Len(q)
      BY <2>1, <2>2, <2>3
    <3> HIDE DEF l
    <3>2. r[k] = q[l]
      BY <3>1 DEF IsJoined
    <3> QED
      BY <2>2, <3>1, <3>2 DEF StandsAt
  <2> HIDE DEF b
  <2>6. StandsAt(r, i, b)
    BY <2>1, <2>2, <2>3, <2>4, <2>5 DEF StandsAt
  <2> QED
    BY <2>3, <2>6
<1> QED
  BY <1>1, <1>2, JoinedAt

LEMMA JoinedMakes ==
  ASSUME NEW p, NEW q, NEW r, IsJoined(p, q, r), NEW c, Makes(r, c)
  PROVE  Makes(p, c) \/ Makes(q, c)
<1>1. PICK a \in 1..Len(r) : \E x \in 1..Len(r[a].calls) : r[a].calls[x] = c
  BY DEF Makes
<1>2. \/ a \in 1..Len(p) /\ r[a] = p[a]
      \/ \E j \in 1..Len(q) : a = Len(p) + j /\ r[a] = q[j]
  BY JoinedAt, SMTT(30)
<1> QED
  BY <1>1, <1>2 DEF Makes

LEMMA JoinedApart ==
  ASSUME NEW p, NEW q, NEW r, IsJoined(p, q, r), CallsApart(p), CallsApart(q),
         \A c : ~(Makes(p, c) /\ Makes(q, c))
  PROVE  CallsApart(r)
<1> SUFFICES ASSUME NEW a \in 1..Len(r), NEW b \in 1..Len(r),
                    NEW x \in 1..Len(r[a].calls), NEW y \in 1..Len(r[b].calls),
                    r[a].calls[x] = r[b].calls[y]
             PROVE  a = b /\ x = y
  BY DEF CallsApart
<1> DEFINE c == r[a].calls[x]
<1>1. CASE a \in 1..Len(p) /\ r[a] = p[a] /\ b \in 1..Len(p) /\ r[b] = p[b]
  BY <1>1 DEF CallsApart
<1>2. CASE /\ a \in 1..Len(p) /\ r[a] = p[a]
           /\ \E j \in 1..Len(q) : b = Len(p) + j /\ r[b] = q[j]
  <2>1. Makes(p, c) /\ Makes(q, c)
    BY <1>2 DEF Makes
  <2> QED
    BY <2>1
<1>3. CASE /\ b \in 1..Len(p) /\ r[b] = p[b]
           /\ \E j \in 1..Len(q) : a = Len(p) + j /\ r[a] = q[j]
  <2>1. Makes(p, c) /\ Makes(q, c)
    BY <1>3 DEF Makes
  <2> QED
    BY <2>1
<1>4. CASE /\ \E j \in 1..Len(q) : a = Len(p) + j /\ r[a] = q[j]
           /\ \E j \in 1..Len(q) : b = Len(p) + j /\ r[b] = q[j]
  <2>1. PICK j \in 1..Len(q) : a = Len(p) + j /\ r[a] = q[j]
    BY <1>4
  <2>2. PICK k \in 1..Len(q) : b = Len(p) + k /\ r[b] = q[k]
    BY <1>4
  <2>3. j = k /\ x = y
    BY <2>1, <2>2 DEF CallsApart
  <2> QED
    BY <2>1, <2>2, <2>3
<1>5. \/ a \in 1..Len(p) /\ r[a] = p[a]
      \/ \E j \in 1..Len(q) : a = Len(p) + j /\ r[a] = q[j]
  BY JoinedAt, SMTT(30)
<1>6. \/ b \in 1..Len(p) /\ r[b] = p[b]
      \/ \E j \in 1..Len(q) : b = Len(p) + j /\ r[b] = q[j]
  BY JoinedAt
<1> QED
  BY <1>1, <1>2, <1>3, <1>4, <1>5, <1>6

(* The messages of one answer.                                             *)
LEMMA BlockStands ==
  ASSUME NEW T, NEW t, NEW cs \in Seq(T), NEW rs \in Seq(T), Len(rs) <= Len(cs)
  PROVE  /\ AnswersStand(AnswerBlock(t, cs, rs))
         /\ \A c : Makes(AnswerBlock(t, cs, rs), c) => \E k \in 1..Len(cs) : cs[k].call = c
         /\ (\A k, l \in 1..Len(cs) : cs[k].call = cs[l].call => k = l)
              => CallsApart(AnswerBlock(t, cs, rs))
<1> DEFINE a == AssistantMessage(t, Calls(cs))
           o == <<a>>
           w == Tools(cs, rs)
           m == AnswerBlock(t, cs, rs)
<1>0. Len(cs) \in Nat /\ Len(rs) \in Nat
  OBVIOUS
<1>1. /\ a.role = "assistant" /\ a.calls = Calls(cs)
      /\ Len(Calls(cs)) = Len(cs) /\ \A k \in 1..Len(cs) : Calls(cs)[k] = cs[k].call
  BY <1>0 DEF AssistantMessage, Message, Calls
<1>2. Len(w) = Len(rs) /\ \A k \in 1..Len(rs) : w[k] = ToolMessage(rs[k], cs[k].call)
  BY <1>0 DEF Tools
<1>3. ASSUME NEW k \in 1..Len(rs)
      PROVE  w[k].role = "tool" /\ w[k].answers = cs[k].call /\ w[k].calls = <<>>
  <2>1. w[k] = ToolMessage(rs[k], cs[k].call)
    BY <1>2
  <2>2. \A u, c : /\ ToolMessage(u, c).role = "tool" /\ ToolMessage(u, c).answers = c
                 /\ ToolMessage(u, c).calls = <<>>
    BY DEF ToolMessage, Message
  <2> HIDE DEF w
  <2> QED
    BY <2>1, <2>2
<1>4. IsJoined(o, w, m) /\ Len(o) = 1 /\ o[1] = a
  <2> DEFINE M == {a} \cup { w[k] : k \in 1..Len(rs) }
  <2>1. w \in Seq(M)
    <3>1. w = [k \in 1..Len(rs) |-> ToolMessage(rs[k], cs[k].call)]
      BY DEF Tools
    <3> HIDE DEF w, M
    <3>2. \A k \in 1..Len(rs) : w[k] \in M
      BY DEF M
    <3> QED
      BY <1>0, <1>2, <3>1, <3>2
  <2>2. o \in Seq(M)
    OBVIOUS
  <2>3. m = Joined(o, w)
    BY DEF AnswerBlock, Joined
  <2> HIDE DEF M, o, w, m
  <2>4. IsJoined(o, w, m)
    BY <2>1, <2>2, <2>3, JoinedIndex
  <2> QED
    BY <2>4 DEF o
<1> HIDE DEF a, o, w, m
<1>5. Len(m) = 1 + Len(rs) /\ m[1] = a /\ \A k \in 1..Len(rs) : m[1 + k] = w[k]
  BY <1>2, <1>4 DEF IsJoined
<1>6. ASSUME NEW i \in 1..Len(m)
      PROVE  i = 1 \/ (i - 1 \in 1..Len(rs) /\ m[i] = w[i - 1])
  <2> DEFINE k == i - 1
  <2>1. i = 1 \/ (k \in 1..Len(rs) /\ i = 1 + k)
    BY <1>0, <1>5
  <2> HIDE DEF k
  <2>2. k \in 1..Len(rs) /\ i = 1 + k => m[i] = w[k]
    BY <1>5
  <2> QED
    BY <2>1, <2>2 DEF k
<1>7. ASSUME NEW i \in 1..Len(m), m[i].role = "tool"
      PROVE  \E b \in 1..(i - 1) : StandsAt(m, i, b)
  <2>1. i # 1
    BY <1>1, <1>5, <1>7
  <2>2. i - 1 \in 1..Len(rs) /\ m[i] = w[i - 1] /\ i - 1 \in 1..Len(cs) /\ 1 \in 1..(i - 1)
    BY <1>0, <1>6, <2>1
  <2>3. ASSUME NEW k \in 2..i PROVE m[k].role = "tool"
    <3>1. k \in 1..Len(m) /\ k # 1
      OBVIOUS
    <3>2. k - 1 \in 1..Len(rs) /\ m[k] = w[k - 1]
      BY <1>6, <3>1
    <3> QED
      BY <1>3, <3>2
  <2>4. m[i].answers = cs[i - 1].call
    BY <1>3, <2>2
  <2>5. StandsAt(m, i, 1)
    BY <1>1, <1>5, <2>2, <2>3, <2>4, SMTT(30) DEF StandsAt
  <2> QED
    BY <2>2, <2>5
<1>8. ASSUME NEW i \in 1..Len(m), NEW x \in 1..Len(m[i].calls)
      PROVE  i = 1 /\ x \in 1..Len(cs) /\ m[i].calls[x] = cs[x].call
  <2>1. i = 1
    <3> SUFFICES ASSUME i # 1 PROVE FALSE
      OBVIOUS
    <3>1. m[i].calls = <<>>
      BY <1>3, <1>6
    <3>2. Len(m[i].calls) = 0
      BY <3>1
    <3> QED
      BY <3>2
  <2> QED
    BY <1>1, <1>5, <2>1
<1>9. AnswersStand(m)
  BY <1>7 DEF AnswersStand
<1>10. ASSUME NEW c, Makes(m, c) PROVE \E k \in 1..Len(cs) : cs[k].call = c
  BY <1>8, <1>10 DEF Makes
<1>11. ASSUME \A k, l \in 1..Len(cs) : cs[k].call = cs[l].call => k = l
       PROVE  CallsApart(m)
  <2> SUFFICES ASSUME NEW i \in 1..Len(m), NEW j \in 1..Len(m),
                      NEW x \in 1..Len(m[i].calls), NEW y \in 1..Len(m[j].calls),
                      m[i].calls[x] = m[j].calls[y]
               PROVE  i = j /\ x = y
    BY DEF CallsApart
  <2>1. i = 1 /\ x \in 1..Len(cs) /\ m[i].calls[x] = cs[x].call
    BY <1>8
  <2>2. j = 1 /\ y \in 1..Len(cs) /\ m[j].calls[y] = cs[y].call
    BY <1>8
  <2> QED
    BY <1>11, <2>1, <2>2
<1> QED
  BY <1>9, <1>10, <1>11 DEF m

(* The messages of a transcript.                                           *)
ArchiveStands(s) ==
  /\ AnswersStand(LoopMessages(s))
  /\ \A c : Makes(LoopMessages(s), c) => MakesTurn(s, c)
  /\ TurnCallsApart(s) => CallsApart(LoopMessages(s))

LEMMA UserStands ==
  ASSUME NEW t
  PROVE  AnswersStand(UserOut(t)) /\ CallsApart(UserOut(t)) /\ \A c : ~Makes(UserOut(t), c)
<1>1. Len(UserOut(t)) = 1 /\ UserOut(t)[1].role = "user" /\ UserOut(t)[1].calls = <<>>
  BY DEF UserOut, UserMessage, Message
<1>2. \A i \in 1..Len(UserOut(t)) : UserOut(t)[i].role # "tool" /\ Len(UserOut(t)[i].calls) = 0
  BY <1>1
<1> QED
  BY <1>2 DEF AnswersStand, CallsApart, Makes

(* What is behind the first turns has no calls but its own.                *)
LEMMA BehindApart ==
  ASSUME NEW T, NEW s \in Seq(T), NEW u \in Seq(T), NEW d \in Nat, Len(s) = d + Len(u),
         \A k \in 1..Len(u) : s[d + k] = u[k]
  PROVE  /\ \A c : MakesTurn(u, c) => MakesTurn(s, c)
         /\ TurnCallsApart(s) => TurnCallsApart(u)
<1>0. Len(u) \in Nat /\ \A k \in 1..Len(u) : d + k \in 1..Len(s)
  OBVIOUS
<1>1. ASSUME NEW c, MakesTurn(u, c) PROVE MakesTurn(s, c)
  BY <1>0, <1>1 DEF MakesTurn
<1>2. ASSUME TurnCallsApart(s), NEW i \in 1..Len(u), NEW j \in 1..Len(u),
             u[i].role = "toolcall", u[j].role = "toolcall", u[i].call = u[j].call
      PROVE  i = j
  <2>1. d + i = d + j
    BY <1>0, <1>2 DEF TurnCallsApart
  <2> QED
    BY <2>1
<1> QED
  BY <1>1, <1>2 DEF TurnCallsApart

LEMMA LoopStands ==
  ASSUME NEW X, NEW C, <<>> \in X, NoCall \in C, NEW s \in Seq(TurnsOver(X, C))
  PROVE  ArchiveStands(s)
<1> DEFINE T == TurnsOver(X, C)
           Q == Seq(MessagesOver(X, C))
           S == { x \in Seq(T) : ArchiveStands(x) }
<1>0. \A x \in Seq(T) : LoopMessages(x) \in Q
  BY LoopType
<1>1. ASSUME NEW x \in Seq(T), \A u \in Seq(T) : Len(u) < Len(x) => u \in S
      PROVE  ArchiveStands(x)
  <2>1. CASE x = <<>>
    <3>1. LoopMessages(x) = <<>> /\ Len(<<>>) = 0
      BY <2>1, LoopEmpty
    <3> QED
      BY <3>1 DEF ArchiveStands, AnswersStand, CallsApart, Makes
  <2>2. CASE x # <<>>
    <3>1. PICK t \in T, v \in Seq(T) : x = <<t>> \o v /\ Len(v) < Len(x)
      BY <2>2, HeadAndTail
    <3>2. ArchiveStands(v)
      BY <1>1, <3>1
    <3>3. LoopMessages(v) \in Q
      BY <1>0
    <3>4. /\ \A c : MakesTurn(v, c) => MakesTurn(x, c)
          /\ TurnCallsApart(x) => TurnCallsApart(v)
      <4>1. /\ <<t>> \o v \in Seq(T) /\ Len(<<t>> \o v) = Len(v) + 1 /\ Len(v) \in Nat
            /\ \A i \in 1..Len(v) : (<<t>> \o v)[i + 1] = v[i]
        BY FirstTurn
      <4>2. Len(x) = 1 + Len(v) /\ \A i \in 1..Len(v) : x[1 + i] = v[i]
        <5>1. \A i \in 1..Len(v) : i + 1 = 1 + i
          OBVIOUS
        <5> QED
          BY <3>1, <4>1, <5>1
      <4> HIDE DEF T
      <4> QED
        BY <4>2, BehindApart
    <3>5. CASE t.role = "user"
      <4> DEFINE p == UserOut(t)
                 q == LoopMessages(v)
                 r == LoopMessages(x)
      <4>1. p \in Q
        BY UserMessageType DEF UserOut
      <4>2. r = Joined(p, q)
        BY <3>1, <3>5, LoopUser
      <4>3. AnswersStand(p) /\ CallsApart(p) /\ \A c : ~Makes(p, c)
        BY UserStands
      <4>4. AnswersStand(q) /\ (TurnCallsApart(v) => CallsApart(q))
            /\ \A c : Makes(q, c) => MakesTurn(v, c)
        BY <3>2 DEF ArchiveStands
      <4> HIDE DEF p, q
      <4>5. IsJoined(p, q, r)
        BY <3>3, <4>1, <4>2, JoinedIndex DEF q
      <4> HIDE DEF r
      <4>6. AnswersStand(r)
        BY <4>3, <4>4, <4>5, JoinedStands
      <4>7. TurnCallsApart(x) => CallsApart(r)
        BY <3>4, <4>3, <4>4, <4>5, JoinedApart
      <4>8. \A c : Makes(r, c) => MakesTurn(x, c)
        BY <3>4, <4>3, <4>4, <4>5, JoinedMakes
      <4> QED
        BY <4>6, <4>7, <4>8 DEF ArchiveStands, r
    <3>6. CASE t.role # "user" /\ ~IsAnswerTurn(t)
      <4>1. LoopMessages(x) = LoopMessages(v)
        BY <3>1, <3>6, LoopOther
      <4> QED
        BY <3>2, <3>4, <4>1 DEF ArchiveStands
    <3>7. CASE IsAnswerTurn(t)
      <4>1. PICK cs \in Seq(T), rs \in Seq(T), u \in Seq(T) :
                 <<t>> \o v = Group(t, cs, rs, u) /\ IsGroup(cs, rs, u) /\ Len(u) <= Len(v)
        BY GroupExists
      <4> DEFINE p == AnswerBlock(t, cs, rs)
                 q == LoopMessages(u)
                 r == LoopMessages(x)
                 n == Len(cs)
                 d == 1 + Len(cs) + Len(rs)
      <4>2. u \in Seq(T) /\ Len(u) < Len(x) /\ Len(rs) <= Len(cs)
        BY <3>1, <4>1 DEF IsGroup
      <4>3. ArchiveStands(u) /\ q \in Q
        BY <1>0, <1>1, <4>2
      <4>4. IsGroupOf(x, <<t>> \o cs \o rs, t, cs, rs, u, T)
        BY <3>1, <4>1, GroupIndex
      <4>5. r = Joined(p, q)
        <5>1. LoopMessages(Group(t, cs, rs, u)) = Joined(p, q)
          BY <3>7, <4>1, LoopAnswer
        <5> HIDE DEF p, q
        <5> QED
          BY <3>1, <4>1, <5>1
      <4>6. p \in Q
        BY <4>2, BlockType
      <4>7. /\ n \in Nat /\ d \in Nat /\ Len(x) = d + Len(u) /\ n < d /\ Len(u) \in Nat
            /\ \A k \in 1..n : x[1 + k] = cs[k] /\ cs[k].role = "toolcall"
            /\ \A k \in 1..Len(u) : x[d + k] = u[k]
        BY <4>1, <4>4 DEF IsGroupOf, IsGroup
      <4>8. /\ AnswersStand(p)
            /\ \A c : Makes(p, c) => \E k \in 1..n : cs[k].call = c
            /\ (\A k, l \in 1..n : cs[k].call = cs[l].call => k = l) => CallsApart(p)
        BY <4>2, BlockStands
      <4> HIDE DEF p, q, n, d
      <4>9. IsJoined(p, q, r)
        BY <4>3, <4>5, <4>6, JoinedIndex
      <4> HIDE DEF r
      <4>10. /\ \A c : MakesTurn(u, c) => MakesTurn(x, c)
             /\ TurnCallsApart(x) => TurnCallsApart(u)
        <5> HIDE DEF T
        <5> QED
          BY <4>7, BehindApart
      <4>11. /\ AnswersStand(q) /\ (TurnCallsApart(u) => CallsApart(q))
             /\ \A c : Makes(q, c) => MakesTurn(u, c)
        BY <4>3 DEF ArchiveStands, q
      <4>12. ASSUME NEW k \in 1..n
             PROVE  1 + k \in 1..Len(x) /\ x[1 + k].call = cs[k].call /\ x[1 + k].role = "toolcall"
        <5>1. x[1 + k] = cs[k] /\ cs[k].role = "toolcall"
          BY <4>7
        <5>2. 1 + k \in 1..Len(x)
          BY <4>7
        <5> QED
          BY <5>1, <5>2
      <4>13. ASSUME NEW c, Makes(p, c) PROVE MakesTurn(x, c)
        <5>1. PICK k \in 1..n : cs[k].call = c
          BY <4>8, <4>13
        <5> QED
          BY <4>12, <5>1 DEF MakesTurn
      <4>14. ASSUME TurnCallsApart(x)
             PROVE  CallsApart(p) /\ \A c : ~(Makes(p, c) /\ Makes(q, c))
        <5>1. ASSUME NEW k \in 1..n, NEW l \in 1..n, cs[k].call = cs[l].call PROVE k = l
          <6>1. /\ 1 + k \in 1..Len(x) /\ x[1 + k].call = cs[k].call /\ x[1 + k].role = "toolcall"
                /\ 1 + l \in 1..Len(x) /\ x[1 + l].call = cs[l].call /\ x[1 + l].role = "toolcall"
            BY <4>12
          <6>2. 1 + k = 1 + l
            BY <4>14, <5>1, <6>1 DEF TurnCallsApart
          <6> QED
            BY <6>2
        <5>2. ASSUME NEW c, Makes(p, c), Makes(q, c) PROVE FALSE
          <6>1. PICK k \in 1..n : cs[k].call = c
            BY <4>8, <5>2
          <6>2. PICK j \in 1..Len(u) : u[j].role = "toolcall" /\ u[j].call = c
            BY <4>11, <5>2 DEF MakesTurn
          <6>3. d + j \in 1..Len(x) /\ x[d + j] = u[j]
            BY <4>7
          <6>5. 1 + k \in 1..Len(x) /\ x[1 + k].call = c /\ x[1 + k].role = "toolcall"
            BY <4>12, <6>1
          <6>4. 1 + k = d + j
            BY <4>14, <6>2, <6>3, <6>5 DEF TurnCallsApart
          <6> QED
            BY <4>7, <6>4
        <5> QED
          BY <4>8, <5>1, <5>2
      <4>15. AnswersStand(r)
        BY <4>8, <4>9, <4>11, JoinedStands
      <4>16. TurnCallsApart(x) => CallsApart(r)
        BY <4>9, <4>10, <4>11, <4>14, JoinedApart
      <4>17. \A c : Makes(r, c) => MakesTurn(x, c)
        BY <4>9, <4>10, <4>11, <4>13, JoinedMakes
      <4> QED
        BY <4>15, <4>16, <4>17 DEF ArchiveStands, r
    <3> QED
      BY <3>5, <3>6, <3>7
  <2> QED
    BY <2>1, <2>2
<1>2. Seq(T) \subseteq S
  <2>1. \A x \in Seq(T) : (\A u \in Seq(T) : Len(u) < Len(x) => u \in S) => x \in S
    BY <1>1
  <2> HIDE DEF S, T
  <2> QED
    BY <2>1, SeqLengthInduction
<1> QED
  BY <1>2 DEF S

-----------------------------------------------------------------------------
(* FlattenSeq over a part of a sequence, from i to j.                      *)
Part(ss, i, j) == FlattenSeq(SubSeq(ss, i, j))

LEMMA PartType ==
  ASSUME NEW T, NEW ss \in Seq(Seq(T)), NEW i \in 1..(Len(ss) + 1), NEW j \in (i - 1)..Len(ss)
  PROVE  /\ SubSeq(ss, i, j) \in Seq(Seq(T))
         /\ Part(ss, i, j) \in Seq(T)
<1> DEFINE Q == Seq(T)
<1>1. i \in Int /\ j \in Int /\ \A k \in i..j : ss[k] \in Q
  <2>1. ss \in Seq(Q) /\ Len(ss) \in Nat
    OBVIOUS
  <2>2. \A k \in i..j : k \in 1..Len(ss)
    BY <2>1
  <2> HIDE DEF Q
  <2> QED
    BY <2>1, <2>2
<1> HIDE DEF Q
<1>2. SubSeq(ss, i, j) \in Seq(Q)
  BY <1>1, SubSeqProperties
<1> QED
  BY <1>2, FlattenType DEF Part, Q

LEMMA PartSplit ==
  ASSUME NEW T, NEW ss \in Seq(Seq(T)), NEW i \in 1..(Len(ss) + 1),
         NEW k \in (i - 1)..Len(ss), NEW j \in k..Len(ss)
  PROVE  Part(ss, i, j) = Part(ss, i, k) \o Part(ss, k + 1, j)
<1> DEFINE Q == Seq(T)
           a == SubSeq(ss, i, k)
           b == SubSeq(ss, k + 1, j)
<1>1. Len(ss) \in Nat /\ j \in (i - 1)..Len(ss) /\ k + 1 \in 1..(Len(ss) + 1)
      /\ j \in ((k + 1) - 1)..Len(ss)
  OBVIOUS
<1>2. a \in Seq(Seq(T))
  BY PartType
<1>3. b \in Seq(Seq(T))
  BY <1>1, PartType
<1>4. a \o b = SubSeq(ss, i, j)
  <2>1. ss \in Seq(Q)
    OBVIOUS
  <2> HIDE DEF Q
  <2> QED
    BY <2>1, ConcatAdjacentSubSeq
<1> HIDE DEF a, b
<1>5. FlattenSeq(a \o b) = FlattenSeq(a) \o FlattenSeq(b)
  BY <1>2, <1>3, FlattenConcat
<1> QED
  BY <1>4, <1>5 DEF Part, a, b

LEMMA PartNothing ==
  ASSUME NEW T, NEW ss \in Seq(Seq(T)), NEW i \in 1..(Len(ss) + 1), NEW j \in (i - 1)..Len(ss),
         \A k \in i..j : ss[k] = <<>>
  PROVE  Part(ss, i, j) = <<>>
<1> DEFINE Q == Seq(T)
           u == SubSeq(ss, i, j)
           g == [x \in Q |-> x]
           w == [k \in 1..Len(u) |-> g[u[k]]]
<1>1. u \in Seq(Q)
  BY PartType
<1>2. /\ Len(u) = IF i <= j THEN j - i + 1 ELSE 0
      /\ \A k \in 1..(j - i + 1) : u[k] = ss[i + k - 1]
  <2>1. i \in Int /\ j \in Int /\ \A k \in i..j : ss[k] \in {<<>>}
    OBVIOUS
  <2> QED
    BY <2>1, SubSeqProperties
<1>3. \A k \in 1..Len(u) : u[k] = <<>>
  BY <1>2
<1>4. g \in [Q -> Seq(T)] /\ <<>> \in Q /\ g[<<>>] = <<>>
  OBVIOUS
<1> HIDE DEF g, u, Q
<1>5. \A k \in 1..Len(u) : g[u[k]] = <<>>
  BY <1>3, <1>4
<1>6. Mapped(g, u) = <<>>
  BY <1>1, <1>4, <1>5, MappedNothing
<1>7. w = u
  BY <1>1, <1>3, <1>5
<1> QED
  BY <1>6, <1>7 DEF Mapped, Part, u

LEMMA FlattenSingles ==
  ASSUME NEW T, NEW w \in Seq(T)
  PROVE  FlattenSeq([k \in 1..Len(w) |-> <<w[k]>>]) = w
<1> DEFINE g == [x \in T |-> <<x>>]
           h == [x \in T |-> x]
<1>1. IsSingled(T, T, g, h, w)
  BY DEF IsSingled
<1>2. /\ \A k \in 1..Len(w) : g[w[k]] = <<w[k]>>
      /\ \A k \in 1..Len(w) : h[w[k]] = w[k]
  OBVIOUS
<1> HIDE DEF g, h
<1>3. Mapped(g, w) = Singled(h, w)
  BY <1>1, MappedSingles
<1>4. Singled(h, w) = w
  BY <1>2 DEF Singled
<1>5. Mapped(g, w) = FlattenSeq([k \in 1..Len(w) |-> <<w[k]>>])
  BY <1>2 DEF Mapped
<1> QED
  BY <1>3, <1>4, <1>5

(* A part in which every member is one element.                            *)
LEMMA PartSingles ==
  ASSUME NEW T, NEW ss \in Seq(Seq(T)), NEW i \in 1..(Len(ss) + 1), NEW j \in (i - 1)..Len(ss),
         NEW w \in Seq(T), Len(w) = j - i + 1,
         \A k \in 1..Len(w) : ss[i + k - 1] = <<w[k]>>
  PROVE  Part(ss, i, j) = w
<1> DEFINE Q == Seq(T)
           u == SubSeq(ss, i, j)
           v == [k \in 1..Len(w) |-> <<w[k]>>]
<1>1. u \in Seq(Q)
  BY PartType
<1>2. /\ Len(u) = IF i <= j THEN j - i + 1 ELSE 0
      /\ \A k \in 1..(j - i + 1) : u[k] = ss[i + k - 1]
  <2>0. ss \in Seq(Q) /\ Len(ss) \in Nat
    OBVIOUS
  <2>1. i \in Int /\ j \in Int /\ \A k \in i..j : k \in 1..Len(ss)
    BY <2>0
  <2> HIDE DEF Q
  <2>2. \A k \in i..j : ss[k] \in Q
    BY <2>0, <2>1
  <2> QED
    BY <2>1, <2>2, SubSeqProperties
<1>3. v \in Seq(Q) /\ Len(v) = Len(w) /\ \A k \in 1..Len(w) : v[k] = <<w[k]>>
  OBVIOUS
<1>4. Len(u) = Len(v) /\ \A k \in 1..Len(u) : u[k] = v[k]
  <2> HIDE DEF u, v
  <2>1. Len(u) = Len(w)
    BY <1>2
  <2> QED
    BY <1>2, <1>3, <2>1
<1> HIDE DEF u, v, Q
<1>5. u = v
  BY <1>1, <1>3, <1>4, SeqEqual
<1>6. FlattenSeq(v) = w
  BY FlattenSingles DEF v
<1> QED
  BY <1>5, <1>6 DEF Part, u

====
