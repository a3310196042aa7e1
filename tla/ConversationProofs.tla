---- MODULE ConversationProofs ----
(***************************************************************************)
(* The conversions of Conversation, for transcripts of any length and any  *)
(* context limit.  A transcript of MCConversation numbers its turns; that  *)
(* is the invariant, and the rest is about operators.                      *)
(***************************************************************************)
EXTENDS MCConversation, ConversationLemmas, FiniteSetTheorems

Texts == {<<>>} \cup { <<n>> : n \in Nat }

(* The turn at i.                                                          *)
TurnsAt(i) ==
  { UserTurn(<<i>>), AssistantTurn(<<i>>, <<i>>), StreamingTurn, ToolCallTurn(<<i>>),
    ToolResultTurn(<<i>>), NoteTurn("error"), NoteTurn("meta") }

CInv ==
  /\ turns \in Seq(TurnsOver(Texts, Texts))
  /\ \A i \in 1..Len(turns) : turns[i] \in TurnsAt(i)

LEMMA TurnsAtType == ASSUME NEW i \in Nat PROVE TurnsAt(i) \subseteq TurnsOver(Texts, Texts)
BY DEF TurnsAt, TurnsOver, Texts, UserTurn, AssistantTurn, StreamingTurn, ToolCallTurn,
       ToolResultTurn, NoteTurn, Turn, NoCall

(* Every transcript numbers its turns.                                     *)
THEOREM Numbered == Spec => []CInv
<1>1. Init => CInv
  <2> SUFFICES ASSUME Init PROVE CInv
    OBVIOUS
  <2>1. turns = <<>> /\ <<>> \in Seq(TurnsOver(Texts, Texts))
    BY DEF Init
  <2> QED
    BY <2>1 DEF CInv
<1>2. CInv /\ [Next]_turns => CInv'
  <2> SUFFICES ASSUME CInv, Next PROVE CInv'
    BY DEF CInv
  <2> DEFINE n == Len(turns) + 1
             T == TurnsOver(Texts, Texts)
  <2>1. PICK t \in TurnsAt(n) : turns' = Append(turns, t)
    BY DEF Next, NextTurns, TurnsAt
  <2>2. turns \in Seq(T) /\ n \in Nat
    BY DEF CInv
  <2> HIDE DEF T
  <2>3. t \in T
    BY <2>1, <2>2, TurnsAtType DEF T
  <2>4. /\ turns' \in Seq(T) /\ Len(turns') = n /\ turns'[n] = t
        /\ \A i \in 1..Len(turns) : turns'[i] = turns[i]
    BY <2>1, <2>2, <2>3, AppendProperties
  <2>5. ASSUME NEW i \in 1..n PROVE turns'[i] \in TurnsAt(i)
    <3>1. CASE i = n
      BY <2>1, <2>4, <3>1
    <3>2. CASE i # n
      <4>1. i \in 1..Len(turns)
        BY <2>2, <3>2
      <4> QED
        BY <2>4, <4>1 DEF CInv
    <3> QED
      BY <3>1, <3>2
  <2> HIDE DEF n
  <2> QED
    BY <2>4, <2>5 DEF CInv, T
<1> QED
  BY <1>1, <1>2, PTL DEF Spec

LEMMA TextsHaveNone == <<>> \in Texts /\ NoCall \in Texts
BY DEF Texts, NoCall

LEMMA SavedIsLoop == Saved = LoopMessages(turns)
BY DEF Saved, TurnsToMessages, trimMessageTail

(* The archive of an archive is that archive, for every transcript.        *)
THEOREM RestartsKeepTheArchive == Spec => []ReloadKeepsTheArchive
<1>1. CInv => ReloadKeepsTheArchive
  <2> SUFFICES ASSUME CInv PROVE ReloadKeepsTheArchive
    OBVIOUS
  <2>1. turns \in Seq(TurnsOver(Texts, Texts))
    BY DEF CInv
  <2>2. ReloadIsFixed(turns)
    BY <2>1, TextsHaveNone, ReloadFixed
  <2>3. \A s : TurnsToMessages(s, 0) = LoopMessages(s)
    BY DEF TurnsToMessages, trimMessageTail
  <2> QED
    BY <2>2, <2>3, SavedIsLoop DEF ReloadKeepsTheArchive, ReloadIsFixed, Reloaded
<1> QED
  BY <1>1, Numbered, PTL

-----------------------------------------------------------------------------
(* What trimMessageTail leaves: h is msgs from f on.                       *)
IsCut(h, msgs, f) ==
  /\ f \in 1..(Len(msgs) + 1)
  /\ Len(h) = Len(msgs) + 1 - f
  /\ \A i \in 1..Len(h) : h[i] = msgs[f - 1 + i]
  /\ f # 1 /\ f <= Len(msgs) => msgs[f].role # "tool"

LEMMA TrimIsCut ==
  ASSUME NEW M, NEW msgs \in Seq(M), NEW max \in Nat
  PROVE  /\ trimMessageTail(msgs, max) \in Seq(M)
         /\ \E f \in 1..(Len(msgs) + 1) :
              /\ IsCut(trimMessageTail(msgs, max), msgs, f)
              /\ max # 0 => Len(trimMessageTail(msgs, max)) <= max
              /\ f # 1 => max # 0 /\ Len(msgs) > max
              /\ max # 0 /\ Len(msgs) > max =>
                   /\ f # 1
                   /\ \A i \in (Len(msgs) - max + 1)..(f - 1) : msgs[i].role = "tool"
<1> DEFINE L     == Len(msgs)
           h     == trimMessageTail(msgs, max)
           first == L - max + 1
           kept  == { i \in first..L : msgs[i].role # "tool" }
<1>0. L \in Nat /\ \A i \in 1..L : msgs[i] \in M
  OBVIOUS
<1>1. CASE max = 0 \/ L <= max
  <2>1. h = msgs
    BY <1>1 DEF trimMessageTail
  <2> HIDE DEF h
  <2>2. 1 \in 1..(L + 1) /\ IsCut(h, msgs, 1)
    BY <1>0, <2>1 DEF IsCut
  <2> QED
    BY <1>0, <1>1, <2>1, <2>2 DEF h
<1>2. CASE max # 0 /\ L > max /\ kept = {}
  <2>1. h = <<>>
    BY <1>2 DEF trimMessageTail
  <2>2. <<>> \in Seq(M) /\ Len(<<>>) = 0
    OBVIOUS
  <2>3. \A i \in first..L : msgs[i].role = "tool"
    BY <1>2
  <2> DEFINE f == L + 1
  <2>4. f \in 1..(L + 1) /\ f - 1 = L /\ f # 1 /\ L + 1 - f = 0
    BY <1>0, <1>2
  <2> HIDE DEF h, f
  <2>5. IsCut(h, msgs, f)
    BY <1>0, <2>1, <2>2, <2>4 DEF IsCut
  <2> QED
    BY <1>2, <2>1, <2>2, <2>3, <2>4, <2>5 DEF h
<1>3. CASE max # 0 /\ L > max /\ kept # {}
  <2>1. kept \subseteq Nat /\ first \in 1..L
    BY <1>0, <1>3
  <2>2. PICK f \in kept : \A j \in kept : ~(j < f)
    <3> HIDE DEF kept
    <3> QED
      BY <1>3, <2>1, LeastNat
  <2>3. \A j \in kept : f <= j
    BY <2>1, <2>2
  <2>4. \A i \in kept : (\A j \in kept : i <= j) => i = f
    BY <2>1, <2>2, <2>3
  <2>5. (CHOOSE i \in kept : \A j \in kept : i <= j) = f
    <3> HIDE DEF kept
    <3> QED
      BY <2>3, <2>4
  <2>6. h = SubSeq(msgs, f, L)
    <3>1. h = IF max = 0 \/ L <= max THEN msgs
              ELSE IF kept = {} THEN <<>>
              ELSE SubSeq(msgs, CHOOSE i \in kept : \A j \in kept : i <= j, L)
      BY Zenon DEF trimMessageTail
    <3> DEFINE g == CHOOSE i \in kept : \A j \in kept : i <= j
    <3>2. g = f
      BY <2>5
    <3>3. ~(max = 0 \/ L <= max) /\ kept # {}
      BY <1>0, <1>3
    <3> HIDE DEF kept, h, g
    <3>4. h = SubSeq(msgs, g, L)
      BY <3>1, <3>3 DEF g
    <3> QED
      BY <3>2, <3>4
  <2>7. f \in first..L /\ f \in 1..L /\ msgs[f].role # "tool"
    BY <2>1, <2>2
  <2>8. \A i \in first..(f - 1) : msgs[i].role = "tool"
    <3> SUFFICES ASSUME NEW i \in first..(f - 1), msgs[i].role # "tool" PROVE FALSE
      OBVIOUS
    <3>1. i \in kept /\ i < f
      BY <2>7, <1>0
    <3> QED
      BY <2>2, <3>1
  <2>9. f # 1 /\ L + 1 - f <= max
    BY <1>0, <1>3, <2>7
  <2> HIDE DEF kept, h, first
  <2>10. /\ h \in Seq(M) /\ Len(h) = L + 1 - f
         /\ \A i \in 1..Len(h) : h[i] = msgs[f - 1 + i]
    <3>1. f \in Int /\ L \in Int /\ \A i \in f..L : msgs[i] \in M
      BY <1>0, <2>7
    <3>2. /\ SubSeq(msgs, f, L) \in Seq(M)
          /\ Len(SubSeq(msgs, f, L)) = IF f <= L THEN L - f + 1 ELSE 0
          /\ \A i \in 1..(L - f + 1) : SubSeq(msgs, f, L)[i] = msgs[f + i - 1]
      <4> HIDE DEF L
      <4> QED
        BY <3>1, SubSeqProperties
    <3>3. Len(h) = L + 1 - f
      BY <1>0, <2>6, <2>7, <3>2
    <3>4. \A i \in 1..Len(h) : h[i] = msgs[f - 1 + i]
      <4> SUFFICES ASSUME NEW i \in 1..Len(h) PROVE h[i] = msgs[f - 1 + i]
        OBVIOUS
      <4>1. i \in 1..(L - f + 1) /\ f + i - 1 = f - 1 + i
        BY <1>0, <2>7, <3>3
      <4> QED
        BY <2>6, <3>2, <4>1
    <3> QED
      BY <2>6, <3>2, <3>3, <3>4
  <2>11. f \in 1..(L + 1)
    BY <1>0, <2>7
  <2>12. IsCut(h, msgs, f)
    BY <2>7, <2>10, <2>11 DEF IsCut
  <2> QED
    BY <1>3, <2>7, <2>8, <2>9, <2>10, <2>11, <2>12 DEF h, first
<1> QED
  BY <1>0, <1>1, <1>2, <1>3

LEMMA CutIsSuffix ==
  ASSUME NEW M, NEW h \in Seq(M), NEW s \in Seq(M), NEW f, IsCut(h, s, f)
  PROVE  IsSuffix(h, s)
<1> DEFINE a == Reverse(h)
           b == Reverse(s)
<1>1. /\ a = [i \in 1..Len(h) |-> h[Len(h) - i + 1]]
      /\ b = [i \in 1..Len(s) |-> s[Len(s) - i + 1]]
  BY DEF Reverse
<1>2. /\ Len(h) \in Nat /\ Len(s) \in Nat /\ f \in 1..(Len(s) + 1) /\ Len(h) = Len(s) + 1 - f
      /\ \A i \in 1..Len(h) : h[i] = s[f - 1 + i]
  BY DEF IsCut
<1>3. a \in Seq(M) /\ Len(a) = Len(h)
  <2>1. \A i \in 1..Len(h) : h[Len(h) - i + 1] \in M
    BY <1>2
  <2> QED
    BY <1>1, <1>2, <2>1
<1>4. b \in Seq(M) /\ Len(b) = Len(s)
  <2>1. \A i \in 1..Len(s) : s[Len(s) - i + 1] \in M
    BY <1>2
  <2> QED
    BY <1>1, <1>2, <2>1
<1>5. ASSUME NEW i \in 1..Len(h) PROVE a[i] = b[i]
  <2> DEFINE j == Len(h) - i + 1
  <2>1. j \in 1..Len(h) /\ f - 1 + j = Len(s) - i + 1 /\ i \in 1..Len(s)
    BY <1>2
  <2>2. a[i] = h[j] /\ b[i] = s[Len(s) - i + 1]
    BY <1>1, <2>1
  <2> HIDE DEF j, a, b
  <2> QED
    BY <1>2, <2>1, <2>2
<1> HIDE DEF a, b
<1>6. Len(a) <= Len(b) /\ \A i \in 1..Len(a) : a[i] = b[i]
  BY <1>2, <1>3, <1>4, <1>5
<1>7. IsPrefix(a, b)
  BY <1>3, <1>4, <1>6, PrefixIs
<1> QED
  BY <1>7 DEF IsSuffix, a, b

(* What is sent with a prompt is the tail of the archive, as long as the   *)
(* limit and the tool messages at the cut allow.                           *)
THEOREM HistoriesAreTails == Spec => []HistoryIsTheTail
<1>1. CInv => HistoryIsTheTail
  <2> SUFFICES ASSUME CInv, NEW max \in 1..MaxContext
               PROVE  LET h    == TurnsToMessages(turns, max)
                          lost == Len(Saved) - Len(h)
                      IN  /\ IsSuffix(h, Saved)
                          /\ Len(h) <= max
                          /\ h # <<>> /\ lost > 0 => h[1].role # "tool"
                          /\ Len(Saved) > max =>
                               \A i \in (Len(Saved) - max + 1)..lost : Saved[i].role = "tool"
    BY DEF HistoryIsTheTail
  <2> DEFINE M    == MessagesOver(Texts, Texts)
             s    == Saved
             h    == trimMessageTail(s, max)
  <2>1. s \in Seq(M)
    BY SavedIsLoop, TextsHaveNone, LoopType DEF CInv
  <2>2. TurnsToMessages(turns, max) = h
    BY SavedIsLoop DEF TurnsToMessages
  <2>3. max \in Nat /\ max # 0
    OBVIOUS
  <2> HIDE DEF M, s
  <2>4. h \in Seq(M)
    BY <2>1, <2>3, TrimIsCut
  <2>5. PICK f \in 1..(Len(s) + 1) :
              /\ IsCut(h, s, f)
              /\ max # 0 => Len(h) <= max
              /\ f # 1 => max # 0 /\ Len(s) > max
              /\ max # 0 /\ Len(s) > max =>
                   /\ f # 1
                   /\ \A i \in (Len(s) - max + 1)..(f - 1) : s[i].role = "tool"
    BY <2>1, <2>3, TrimIsCut
  <2> HIDE DEF h
  <2>6. IsSuffix(h, s)
    BY <2>1, <2>4, <2>5, CutIsSuffix
  <2>7. /\ Len(s) \in Nat /\ Len(h) \in Nat /\ Len(h) = Len(s) + 1 - f
        /\ Len(s) - Len(h) = f - 1
    BY <2>1, <2>4, <2>5 DEF IsCut
  <2>8. ASSUME h # <<>>, Len(s) - Len(h) > 0 PROVE h[1].role # "tool"
    <3>1. 1 \in 1..Len(h) /\ f # 1 /\ f <= Len(s)
      BY <2>4, <2>7, <2>8, EmptySeq
    <3>2. h[1] = s[f - 1 + 1] /\ f - 1 + 1 = f
      BY <2>5, <3>1 DEF IsCut
    <3> QED
      BY <2>5, <3>1, <3>2 DEF IsCut
  <2>9. Len(s) > max => \A i \in (Len(s) - max + 1)..(Len(s) - Len(h)) : s[i].role = "tool"
    BY <2>3, <2>5, <2>7
  <2> QED
    BY <2>2, <2>3, <2>5, <2>6, <2>8, <2>9 DEF s
<1> QED
  BY <1>1, Numbered, PTL

-----------------------------------------------------------------------------
(* What a cut leaves of messages whose answers stand.                      *)
CutStandsAt(h, s, f, i) ==
  /\ f - 1 + i \in 1..Len(s) /\ h[i] = s[f - 1 + i]
  /\ \E a \in 1..(i - 1) :
       /\ f - 1 + a \in 1..Len(s) /\ h[a] = s[f - 1 + a]
       /\ StandsAt(s, f - 1 + i, f - 1 + a)
       /\ \A k \in (a + 1)..i : h[k].role = "tool"

LEMMA CutStands ==
  ASSUME NEW h, NEW s, NEW f, Len(s) \in Nat, IsCut(h, s, f), AnswersStand(s),
         NEW i \in 1..Len(h), h[i].role = "tool"
  PROVE  CutStandsAt(h, s, f, i)
<1> DEFINE j == f - 1 + i
<1>1. /\ f \in 1..(Len(s) + 1) /\ Len(h) = Len(s) + 1 - f
      /\ \A k \in 1..Len(h) : h[k] = s[f - 1 + k]
  BY DEF IsCut
<1>2. j \in 1..Len(s) /\ h[i] = s[j] /\ f <= Len(s) /\ f <= j
  BY <1>1
<1> HIDE DEF j
<1>3. PICK b \in 1..(j - 1) : StandsAt(s, j, b)
  BY <1>2 DEF AnswersStand
<1>4. \A k \in (b + 1)..j : s[k].role = "tool"
  BY <1>3 DEF StandsAt
<1>5. f <= b
  <2> SUFFICES ASSUME b < f PROVE FALSE
    BY <1>1
  <2>1. f # 1 /\ f \in (b + 1)..j
    BY <1>1, <1>2
  <2>2. s[f].role # "tool"
    BY <1>2, <2>1 DEF IsCut
  <2> QED
    BY <1>4, <2>1, <2>2
<1> DEFINE a == b - f + 1
<1>6. a \in 1..(i - 1) /\ f - 1 + a = b /\ b \in 1..Len(s) /\ a \in 1..Len(h)
  BY <1>1, <1>2, <1>5 DEF j
<1> HIDE DEF a
<1>7. h[a] = s[b]
  BY <1>1, <1>6
<1>8. ASSUME NEW k \in (a + 1)..i PROVE h[k].role = "tool"
  <2>1. k \in 1..Len(h) /\ f - 1 + k \in (b + 1)..j
    BY <1>1, <1>2, <1>6 DEF j
  <2>2. h[k] = s[f - 1 + k]
    BY <1>1, <2>1
  <2> QED
    BY <1>4, <2>1, <2>2
<1>9. a \in 1..(i - 1) /\ f - 1 + a \in 1..Len(s) /\ h[a] = s[f - 1 + a] /\ StandsAt(s, j, f - 1 + a)
  BY <1>3, <1>6, <1>7
<1> QED
  BY <1>2, <1>8, <1>9 DEF j, CutStandsAt

AreSameCall(s, y, z, q, w) ==
  /\ y \in 1..Len(s) /\ z \in 1..Len(s[y].calls)
  /\ q \in 1..Len(s) /\ w \in 1..Len(s[q].calls)
  /\ s[y].calls[z] = s[q].calls[w]

LEMMA SameCall ==
  ASSUME NEW s, CallsApart(s), NEW y, NEW z, NEW q, NEW w, AreSameCall(s, y, z, q, w)
  PROVE  y = q /\ z = w
BY DEF CallsApart, AreSameCall

LEMMA NumberedApart == CInv => TurnCallsApart(turns)
<1> SUFFICES ASSUME CInv, NEW i \in 1..Len(turns), NEW j \in 1..Len(turns),
                    turns[i].role = "toolcall", turns[j].role = "toolcall",
                    turns[i].call = turns[j].call
             PROVE  i = j
  BY DEF TurnCallsApart
<1>1. ASSUME NEW k, NEW t \in TurnsAt(k), t.role = "toolcall" PROVE t.call = <<k>>
  BY <1>1 DEF TurnsAt, UserTurn, AssistantTurn, StreamingTurn, ToolCallTurn, ToolResultTurn,
              NoteTurn, Turn
<1>2. turns[i] \in TurnsAt(i) /\ turns[j] \in TurnsAt(j)
  BY DEF CInv
<1>3. turns[i].call = <<i>> /\ turns[j].call = <<j>>
  BY <1>1, <1>2
<1>4. <<i>> = <<j>> /\ <<i>>[1] = i /\ <<j>>[1] = j
  BY <1>3
<1> QED
  BY <1>4

(* Whatever transcript a history is made of and however short it is cut,   *)
(* every tool message in it answers one call of the assistant message it   *)
(* stands behind, and no call is answered twice.                           *)
THEOREM HistoriesAreWellFormed == Spec => []HistoryIsWellFormed
<1>1. CInv => HistoryIsWellFormed
  <2> SUFFICES ASSUME CInv, NEW max \in 0..MaxContext,
                      NEW i \in 1..Len(TurnsToMessages(turns, max)),
                      TurnsToMessages(turns, max)[i].role = "tool"
               PROVE  LET h == TurnsToMessages(turns, max) IN
                      /\ \E a \in 1..(i - 1) :
                           /\ h[a].role = "assistant"
                           /\ h[i].answers \in ToSet(h[a].calls)
                           /\ \A k \in (a + 1)..i : h[k].role = "tool"
                      /\ \A k \in 1..Len(h) :
                           h[k].role = "tool" /\ h[k].answers = h[i].answers => k = i
    BY DEF HistoryIsWellFormed
  <2> DEFINE M == MessagesOver(Texts, Texts)
             s == LoopMessages(turns)
             h == TurnsToMessages(turns, max)
  <2>1. s \in Seq(M)
    BY TextsHaveNone, LoopType DEF CInv
  <2>2. AnswersStand(s) /\ CallsApart(s)
    <3>1. ArchiveStands(turns)
      BY TextsHaveNone, LoopStands DEF CInv
    <3> QED
      BY <3>1, NumberedApart DEF ArchiveStands
  <2>3. h = trimMessageTail(s, max) /\ max \in Nat
    BY DEF TurnsToMessages
  <2>4. i \in 1..Len(h) /\ h[i].role = "tool"
    OBVIOUS
  <2> HIDE DEF M, s, h
  <2>5. PICK f \in 1..(Len(s) + 1) : IsCut(h, s, f)
    BY <2>1, <2>3, TrimIsCut
  <2>6. Len(s) \in Nat /\ Len(h) \in Nat
    BY <2>1, <2>5 DEF IsCut
  <2>7. ASSUME NEW k \in 1..Len(h), h[k].role = "tool"
        PROVE  CutStandsAt(h, s, f, k)
    <3>1. k \in 1..Len(h) /\ h[k].role = "tool"
      BY <2>7
    <3> QED
      BY <2>2, <2>5, <2>6, <3>1, CutStands
  <2>8. PICK a \in 1..(i - 1) :
              /\ f - 1 + a \in 1..Len(s) /\ h[a] = s[f - 1 + a]
              /\ StandsAt(s, f - 1 + i, f - 1 + a)
              /\ \A l \in (a + 1)..i : h[l].role = "tool"
    BY <2>4, <2>7 DEF CutStandsAt
  <2> DEFINE p == f - 1 + i
             q == f - 1 + a
  <2>9. /\ p \in 1..Len(s) /\ q \in 1..Len(s) /\ h[i] = s[p] /\ h[a] = s[q]
        /\ s[q].role = "assistant"
        /\ p - q \in 1..Len(s[q].calls) /\ s[p].answers = s[q].calls[p - q]
    BY <2>4, <2>7, <2>8 DEF StandsAt, CutStandsAt
  <2>10. h[i].answers \in ToSet(h[a].calls)
    <3>1. \A c : \A x \in 1..Len(c) : c[x] \in ToSet(c)
      BY DEF ToSet
    <3> QED
      BY <2>9, <3>1
  <2>11. ASSUME NEW k \in 1..Len(h), h[k].role = "tool", h[k].answers = h[i].answers
         PROVE  k = i
    <3>1. PICK b \in 1..(k - 1) :
                /\ f - 1 + b \in 1..Len(s) /\ h[b] = s[f - 1 + b]
                /\ StandsAt(s, f - 1 + k, f - 1 + b)
                /\ \A l \in (b + 1)..k : h[l].role = "tool"
      BY <2>7, <2>11 DEF CutStandsAt
    <3> DEFINE x == f - 1 + k
               y == f - 1 + b
    <3>2. /\ x \in 1..Len(s) /\ y \in 1..Len(s) /\ h[k] = s[x]
          /\ x - y \in 1..Len(s[y].calls) /\ s[x].answers = s[y].calls[x - y]
      BY <2>7, <2>11, <3>1 DEF StandsAt, CutStandsAt
    <3> HIDE DEF p, q, x, y
    <3>3. s[y].calls[x - y] = s[q].calls[p - q]
      BY <2>9, <2>11, <3>2
    <3>4. y = q /\ x - y = p - q
      <4> DEFINE z == x - y
                 w == p - q
      <4>1. AreSameCall(s, y, z, q, w)
        BY <2>9, <3>2, <3>3 DEF AreSameCall
      <4> HIDE DEF z, w
      <4>2. y = q /\ z = w
        BY <2>2, <4>1, SameCall
      <4> QED
        BY <4>2 DEF z, w
    <3> QED
      BY <2>5, <2>9, <3>2, <3>4 DEF p, q, x, y
  <2>12. \E b \in 1..(i - 1) :
           /\ h[b].role = "assistant"
           /\ h[i].answers \in ToSet(h[b].calls)
           /\ \A k \in (b + 1)..i : h[k].role = "tool"
    BY <2>8, <2>9, <2>10
  <2> QED
    BY <2>11, <2>12 DEF h
<1> QED
  BY <1>1, Numbered, PTL

-----------------------------------------------------------------------------
(* The grouping, at the positions the loop computes: n calls and m results *)
(* of the answer at a.                                                     *)
LEMMA TurnsAreTyped ==
  CInv => /\ turns \in Seq(TurnsOver(Texts, Texts)) /\ Len(turns) \in Nat
          /\ \A i \in 1..Len(turns) : turns[i] \in TurnsOver(Texts, Texts)
BY DEF CInv

LEMMA AnswerIsTurn == \A i : IsAnswer(i) <=> IsAnswerTurn(turns[i])
BY DEF IsAnswer, IsAnswerTurn

LEMMA CallsAre ==
  ASSUME CInv, NEW a \in 1..Len(turns)
  PROVE  /\ CallsOf(a) = (a + 1)..(a + CallsTaken(turns, a))
         /\ Cardinality(CallsOf(a)) = CallsTaken(turns, a)
<1> DEFINE n == CallsTaken(turns, a)
<1>1. Len(turns) \in Nat
  BY TurnsAreTyped
<1>2. n \in 0..(Len(turns) - a)
  BY <1>1, TakenBounds
<1>3. IsBlock(turns, a + 1, "toolcall", n)
  <2>1. a + 1 \in 1..(Len(turns) + 1)
    BY <1>1
  <2> QED
    BY <1>1, <2>1, BlockLengthIsBlock DEF CallsTaken
<1> HIDE DEF n
<1>4. /\ \A k \in (a + 1)..(a + n) : turns[k].role = "toolcall"
      /\ a + 1 + n <= Len(turns) => turns[a + 1 + n].role # "toolcall"
  <2>1. a + 1 + n - 1 = a + n
    BY <1>2
  <2> QED
    BY <1>3, <2>1 DEF IsBlock
<1>5. ASSUME NEW k \in (a + 1)..Len(turns), IsRun(a + 1, k, "toolcall")
      PROVE  k \in (a + 1)..(a + n)
  <2> SUFFICES ASSUME k > a + n PROVE FALSE
    BY <1>2
  <2>1. a + 1 + n \in (a + 1)..k /\ a + 1 + n <= Len(turns)
    BY <1>2
  <2> QED
    BY <1>4, <1>5, <2>1 DEF IsRun
<1>6. ASSUME NEW k \in (a + 1)..(a + n)
      PROVE  k \in (a + 1)..Len(turns) /\ IsRun(a + 1, k, "toolcall")
  <2>1. k \in (a + 1)..Len(turns) /\ \A l \in (a + 1)..k : l \in (a + 1)..(a + n)
    BY <1>1, <1>2
  <2> QED
    BY <1>4, <2>1 DEF IsRun
<1>7. CallsOf(a) = (a + 1)..(a + n)
  BY <1>5, <1>6 DEF CallsOf
<1>8. Cardinality((a + 1)..(a + n)) = n
  <2> DEFINE x == a + 1
             y == a + n
  <2>1. x \in Int /\ y \in Int /\ n = IF x > y THEN 0 ELSE y - x + 1
    BY <1>2
  <2> HIDE DEF x, y
  <2>2. Cardinality(x..y) = IF x > y THEN 0 ELSE y - x + 1
    BY <2>1, FS_Interval
  <2> QED
    BY <2>1, <2>2 DEF x, y
<1> QED
  BY <1>7, <1>8 DEF n

(* The results an answer takes stand behind its calls.                     *)
ResultsStand(a, n, m) ==
  /\ \A k \in (a + n + 1)..(a + n + m) : turns[k].role = "toolresult"
  /\ \A j \in Nat : j \in 1..m <=>
       j \in 1..n /\ a + n + j <= Len(turns) /\ IsRun(a + n + 1, a + n + j, "toolresult")

LEMMA ResultsAre ==
  ASSUME CInv, NEW a \in 1..Len(turns)
  PROVE  ResultsStand(a, CallsTaken(turns, a), ResultsTaken(turns, a))
<1> DEFINE L == Len(turns)
           n == CallsTaken(turns, a)
           m == ResultsTaken(turns, a)
           b == BlockLength(turns, a + 1 + n, "toolresult")
<1>1. L \in Nat
  BY TurnsAreTyped
<1>2. n \in 0..(L - a) /\ m \in 0..n /\ a + n + m <= L
  BY <1>1, TakenBounds
<1>3. m = IF b < n THEN b ELSE n
  BY DEF ResultsTaken, AnswersTaken
<1>4. b \in 0..(L + 1 - (a + 1 + n)) /\ IsBlock(turns, a + 1 + n, "toolresult", b)
  <2> HIDE DEF n
  <2>1. a + 1 + n \in 1..(L + 1)
    BY <1>1, <1>2
  <2> QED
    BY <1>1, <2>1, BlockLengthIsBlock
<1> HIDE DEF n, m, b
<1>5. /\ \A k \in (a + n + 1)..(a + n + b) : turns[k].role = "toolresult"
      /\ a + n + b + 1 <= L => turns[a + n + b + 1].role # "toolresult"
  <2>1. a + 1 + n = a + n + 1 /\ a + 1 + n + b - 1 = a + n + b /\ a + 1 + n + b = a + n + b + 1
    BY <1>2, <1>4
  <2> QED
    BY <1>4, <2>1 DEF IsBlock
<1>6. ASSUME NEW k \in (a + n + 1)..(a + n + m) PROVE turns[k].role = "toolresult"
  <2>1. k \in (a + n + 1)..(a + n + b)
    BY <1>2, <1>3, <1>4
  <2> QED
    BY <1>5, <2>1
<1>7. ASSUME NEW j \in Nat, j \in 1..m
      PROVE  j \in 1..n /\ a + n + j <= L /\ IsRun(a + n + 1, a + n + j, "toolresult")
  <2>1. j \in 1..n /\ a + n + j <= L /\ \A k \in (a + n + 1)..(a + n + j) : k \in (a + n + 1)..(a + n + m)
    BY <1>1, <1>2, <1>7
  <2> QED
    BY <1>6, <2>1 DEF IsRun
<1>8. ASSUME NEW j \in Nat, j \in 1..n, a + n + j <= L, IsRun(a + n + 1, a + n + j, "toolresult")
      PROVE  j \in 1..m
  <2>1. j <= b
    <3> SUFFICES ASSUME b < j PROVE FALSE
      BY <1>2, <1>4
    <3>1. a + n + b + 1 \in (a + n + 1)..(a + n + j) /\ a + n + b + 1 <= L
      BY <1>1, <1>2, <1>4, <1>8
    <3> QED
      BY <1>5, <1>8, <3>1 DEF IsRun
  <2> QED
    BY <1>2, <1>3, <1>8, <2>1
<1> QED
  BY <1>6, <1>7, <1>8 DEF ResultsStand, n, m

LEMMA AnswersAre ==
  ASSUME CInv, NEW a \in 1..Len(turns), NEW i \in 1..Len(turns), NEW j \in Nat, j # 0
  PROVE  Answers(i, a, j) <=> /\ IsAnswer(a)
                              /\ j \in 1..ResultsTaken(turns, a)
                              /\ i = a + CallsTaken(turns, a) + j
<1> DEFINE n == CallsTaken(turns, a)
           m == ResultsTaken(turns, a)
<1>1. Len(turns) \in Nat /\ n \in 0..(Len(turns) - a)
  BY TurnsAreTyped, TakenBounds
<1>2. CallsOf(a) = (a + 1)..(a + n) /\ Cardinality(CallsOf(a)) = n
  BY CallsAre
<1>3. ResultsStand(a, n, m)
  BY ResultsAre
<1>4. Answers(i, a, j) <=> /\ IsAnswer(a)
                           /\ a + j \in (a + 1)..(a + n)
                           /\ i = a + n + j
                           /\ IsRun(a + n + 1, i, "toolresult")
  BY <1>2 DEF Answers
<1> HIDE DEF n, m
<1>5. a + j \in (a + 1)..(a + n) <=> j \in 1..n
  BY <1>1
<1> QED
  BY <1>3, <1>4, <1>5 DEF ResultsStand, n, m

(* Between an answer and the turn the loop goes on with, nothing is an     *)
(* answer or a prompt.                                                     *)
LEMMA TakenAre ==
  ASSUME CInv, NEW a \in 1..Len(turns), NEW k,
         k \in (a + 1)..(a + CallsTaken(turns, a) + ResultsTaken(turns, a))
  PROVE  /\ k \in 1..Len(turns)
         /\ k <= a + CallsTaken(turns, a) => turns[k].role = "toolcall"
         /\ k > a + CallsTaken(turns, a) => turns[k].role = "toolresult"
<1> DEFINE n == CallsTaken(turns, a)
           m == ResultsTaken(turns, a)
<1>1. Len(turns) \in Nat /\ n \in 0..(Len(turns) - a) /\ m \in 0..n /\ a + n + m <= Len(turns)
  BY TurnsAreTyped, TakenBounds
<1>2. CallsOf(a) = (a + 1)..(a + n)
  BY CallsAre
<1>3. ResultsStand(a, n, m)
  BY ResultsAre
<1> HIDE DEF n, m
<1>4. k \in (a + 1)..(a + n + m)
  BY DEF n, m
<1>5. ASSUME k <= a + n PROVE turns[k].role = "toolcall"
  <2>1. k \in (a + 1)..(a + n) /\ k \in (a + 1)..k
    BY <1>1, <1>4, <1>5
  <2>2. k \in CallsOf(a)
    BY <1>2, <2>1
  <2> QED
    BY <2>1, <2>2 DEF CallsOf, IsRun
<1>6. ASSUME k > a + n PROVE turns[k].role = "toolresult"
  <2>1. k \in (a + n + 1)..(a + n + m)
    BY <1>1, <1>4, <1>6
  <2> QED
    BY <1>3, <2>1 DEF ResultsStand
<1>7. k \in 1..Len(turns)
  BY <1>1, <1>4
<1> QED
  BY <1>5, <1>6, <1>7 DEF n

(* A result answers one call of one answer.                                *)
LEMMA AnswersOne ==
  ASSUME CInv, NEW i \in 1..Len(turns), NEW a \in 1..Len(turns), NEW j \in Nat, j # 0,
         NEW b \in 1..Len(turns), NEW l \in Nat, l # 0, Answers(i, a, j), Answers(i, b, l)
  PROVE  a = b /\ j = l
<1>1. /\ IsAnswer(a) /\ j \in 1..ResultsTaken(turns, a) /\ i = a + CallsTaken(turns, a) + j
      /\ IsAnswer(b) /\ l \in 1..ResultsTaken(turns, b) /\ i = b + CallsTaken(turns, b) + l
  BY AnswersAre
<1>2. /\ CallsTaken(turns, a) \in Nat /\ CallsTaken(turns, b) \in Nat
      /\ ResultsTaken(turns, a) \in Nat /\ ResultsTaken(turns, b) \in Nat
  BY TurnsAreTyped, TakenBounds
<1>3. ~(a < b)
  <2> SUFFICES ASSUME a < b PROVE FALSE
    OBVIOUS
  <2>1. b \in (a + 1)..(a + CallsTaken(turns, a) + ResultsTaken(turns, a))
    BY <1>1, <1>2
  <2>2. /\ b <= a + CallsTaken(turns, a) => turns[b].role = "toolcall"
        /\ b > a + CallsTaken(turns, a) => turns[b].role = "toolresult"
    BY <2>1, TakenAre
  <2>3. turns[b].role \in {"toolcall", "toolresult"}
    BY <1>2, <2>2
  <2> QED
    BY <1>1, <2>3 DEF IsAnswer
<1>4. ~(b < a)
  <2> SUFFICES ASSUME b < a PROVE FALSE
    OBVIOUS
  <2>1. a \in (b + 1)..(b + CallsTaken(turns, b) + ResultsTaken(turns, b))
    BY <1>1, <1>2
  <2>2. /\ a <= b + CallsTaken(turns, b) => turns[a].role = "toolcall"
        /\ a > b + CallsTaken(turns, b) => turns[a].role = "toolresult"
    BY <2>1, TakenAre
  <2>3. turns[a].role \in {"toolcall", "toolresult"}
    BY <1>2, <2>2
  <2> QED
    BY <1>1, <2>3 DEF IsAnswer
<1>5. a = b
  BY <1>3, <1>4
<1> QED
  BY <1>1, <1>2, <1>5


-----------------------------------------------------------------------------
(* What MessageAt puts out at each kind of turn.                           *)
Messages0 == MessagesOver(Texts, Texts)

AnswerMessage(i) ==
  AssistantMessage(turns[i], [k \in 1..CallsTaken(turns, i) |-> turns[i + k].call])

ResultMessage(i, a, j) == ToolMessage(turns[i], turns[a + j].call)

NoAnswers(i) == \A a \in 1..i, j \in 1..i : ~Answers(i, a, j)

LEMMA AtUser ==
  \A i : turns[i].role = "user" => MessageAt(i) = <<UserMessage(turns[i])>>
BY DEF MessageAt, IsAnswer

LEMMA AtAnswer ==
  ASSUME CInv, NEW i \in 1..Len(turns), IsAnswer(i)
  PROVE  MessageAt(i) = <<AnswerMessage(i)>>
<1>1. turns[i].role = "assistant"
  BY DEF IsAnswer
<1>2. MessageAt(i)
        = <<AssistantMessage(turns[i], [k \in 1..Cardinality(CallsOf(i)) |-> turns[i + k].call])>>
  BY <1>1 DEF MessageAt
<1>3. Cardinality(CallsOf(i)) = CallsTaken(turns, i)
  BY CallsAre
<1> QED
  BY <1>2, <1>3 DEF AnswerMessage

LEMMA AtOther ==
  \A i : turns[i].role # "user" /\ ~IsAnswer(i) /\ turns[i].role # "toolresult" => MessageAt(i) = <<>>
BY DEF MessageAt

LEMMA AtNoResult ==
  \A i : turns[i].role = "toolresult" /\ NoAnswers(i) => MessageAt(i) = <<>>
BY DEF MessageAt, NoAnswers, IsAnswer

LEMMA AtResult ==
  ASSUME CInv, NEW i \in 1..Len(turns), NEW a \in 1..i, NEW j \in 1..i, Answers(i, a, j)
  PROVE  /\ turns[i].role = "toolresult" /\ a + j \in 1..Len(turns)
         /\ MessageAt(i) = <<ResultMessage(i, a, j)>>
<1>0. Len(turns) \in Nat /\ a \in 1..Len(turns) /\ j \in Nat /\ j # 0
  BY TurnsAreTyped
<1>1. CallsTaken(turns, a) \in 0..(Len(turns) - a) /\ ResultsTaken(turns, a) \in 0..CallsTaken(turns, a)
  BY <1>0, TakenBounds
<1>2. IsAnswer(a) /\ j \in 1..ResultsTaken(turns, a) /\ i = a + CallsTaken(turns, a) + j
  BY <1>0, AnswersAre
<1>3. i \in (a + 1)..(a + CallsTaken(turns, a) + ResultsTaken(turns, a)) /\ i > a + CallsTaken(turns, a)
  BY <1>0, <1>1, <1>2
<1>4. turns[i].role = "toolresult"
  <2>1. i > a + CallsTaken(turns, a) => turns[i].role = "toolresult"
    BY <1>0, <1>3, TakenAre
  <2> QED
    BY <1>3, <2>1
<1>5. \A p \in (1..i) \X (1..i) : Answers(i, p[1], p[2]) => p = <<a, j>>
  <2> SUFFICES ASSUME NEW b \in 1..i, NEW l \in 1..i, Answers(i, b, l) PROVE b = a /\ l = j
    OBVIOUS
  <2>1. b \in 1..Len(turns) /\ l \in Nat /\ l # 0
    BY <1>0
  <2> QED
    BY <1>0, <2>1, AnswersOne
<1> DEFINE q == CHOOSE p \in (1..i) \X (1..i) : Answers(i, p[1], p[2])
<1>6. q = <<a, j>>
  <2>1. <<a, j>> \in (1..i) \X (1..i) /\ <<a, j>>[1] = a /\ <<a, j>>[2] = j
    OBVIOUS
  <2>2. \E p \in (1..i) \X (1..i) : Answers(i, p[1], p[2])
    BY <2>1
  <2> QED
    BY <1>5, <2>2
<1>7. MessageAt(i) = <<ToolMessage(turns[i], turns[q[1] + q[2]].call)>>
  <2>1. \E b, l \in 1..i : Answers(i, b, l)
    OBVIOUS
  <2>2. turns[i].role # "user" /\ ~IsAnswer(i)
    BY <1>4 DEF IsAnswer
  <2>3. MessageAt(i)
          = IF \E b, l \in 1..i : Answers(i, b, l)
            THEN LET p == CHOOSE p \in (1..i) \X (1..i) : Answers(i, p[1], p[2])
                 IN  <<ToolMessage(turns[i], turns[p[1] + p[2]].call)>>
            ELSE <<>>
    BY <1>4, <2>2 DEF MessageAt
  <2> QED
    BY <2>1, <2>3
<1> HIDE DEF q
<1>8. a + j \in 1..Len(turns)
  BY <1>0, <1>1, <1>2
<1> QED
  BY <1>4, <1>6, <1>7, <1>8 DEF ResultMessage

LEMMA AtType ==
  ASSUME CInv, NEW i \in 1..Len(turns)
  PROVE  MessageAt(i) \in Seq(Messages0)
<1>0. \A k \in 1..Len(turns) : turns[k].text \in Texts /\ turns[k].reasoning \in Texts /\ turns[k].call \in Texts
  BY TurnsAreTyped DEF TurnsOver
<1>1. <<>> \in Seq(Messages0) /\ <<>> \in Seq(Texts)
  OBVIOUS
<1>2. CASE turns[i].role = "user"
  <2>1. turns[i] \in TurnsOver(Texts, Texts)
    BY TurnsAreTyped
  <2>2. <<UserMessage(turns[i])>> \in Seq(Messages0)
    BY <2>1, TextsHaveNone, UserMessageType DEF Messages0
  <2> QED
    BY <1>2, <2>2, AtUser
<1>3. CASE IsAnswer(i)
  <2> DEFINE n == CallsTaken(turns, i)
             c == [k \in 1..n |-> turns[i + k].call]
  <2>1. n \in 0..(Len(turns) - i)
    BY TurnsAreTyped, TakenBounds
  <2>2. c \in Seq(Texts)
    <3>1. \A k \in 1..n : i + k \in 1..Len(turns)
      BY <2>1, TurnsAreTyped
    <3> HIDE DEF n
    <3> QED
      BY <1>0, <2>1, <3>1
  <2>3. AnswerMessage(i) = AssistantMessage(turns[i], c)
    BY DEF AnswerMessage
  <2> HIDE DEF c
  <2>4. AnswerMessage(i) \in Messages0
    BY <1>0, <2>2, <2>3, TextsHaveNone DEF AssistantMessage, Message, Messages0, MessagesOver
  <2>5. MessageAt(i) = <<AnswerMessage(i)>>
    BY <1>3, AtAnswer
  <2> DEFINE v == AnswerMessage(i)
  <2>6. v \in Messages0 /\ MessageAt(i) = <<v>>
    BY <2>4, <2>5
  <2> HIDE DEF v
  <2> QED
    BY <2>6
<1>4. CASE turns[i].role = "toolresult" /\ NoAnswers(i)
  BY <1>1, <1>4, AtNoResult
<1>5. CASE turns[i].role = "toolresult" /\ ~NoAnswers(i)
  <2>1. PICK a \in 1..i, j \in 1..i : Answers(i, a, j)
    BY <1>5 DEF NoAnswers
  <2>2. a + j \in 1..Len(turns) /\ MessageAt(i) = <<ResultMessage(i, a, j)>>
    BY <2>1, AtResult
  <2>3. ResultMessage(i, a, j) \in Messages0
    BY <1>0, <1>1, <2>2, TextsHaveNone DEF ResultMessage, ToolMessage, Message, Messages0, MessagesOver
  <2> QED
    BY <2>2, <2>3
<1>6. CASE turns[i].role # "user" /\ ~IsAnswer(i) /\ turns[i].role # "toolresult"
  BY <1>1, <1>6, AtOther
<1> QED
  BY <1>2, <1>3, <1>4, <1>5, <1>6

(* The messages of the grouping, turn by turn.                             *)
Grouping == [i \in 1..Len(turns) |-> MessageAt(i)]

LEMMA GroupingType ==
  CInv => /\ Grouping \in Seq(Seq(Messages0)) /\ Len(Grouping) = Len(turns)
          /\ \A i \in 1..Len(turns) : Grouping[i] = MessageAt(i)
<1> SUFFICES ASSUME CInv
             PROVE  /\ Grouping \in Seq(Seq(Messages0)) /\ Len(Grouping) = Len(turns)
                    /\ \A i \in 1..Len(turns) : Grouping[i] = MessageAt(i)
  OBVIOUS
<1>1. \A i \in 1..Len(turns) : MessageAt(i) \in Seq(Messages0)
  BY AtType
<1> QED
  BY <1>1, TurnsAreTyped DEF Grouping

(* An answer, its calls and its results give what the loop puts out there. *)
LEMMA AnswerPart ==
  ASSUME CInv, NEW a \in 1..Len(turns), IsAnswer(a)
  PROVE  Part(Grouping, a, NextAt(turns, a) - 1) = AnswerOut(turns, a)
<1> DEFINE n == CallsTaken(turns, a)
           m == ResultsTaken(turns, a)
           L == Len(turns)
           calls == [k \in 1..n |-> turns[a + k].call]
           tools == [k \in 1..m |-> ToolMessage(turns[a + 1 + n + k - 1], AnsweredBy(calls, k))]
           o == <<AnswerMessage(a)>>
           e == <<>>
<1>1. L \in Nat /\ n \in 0..(L - a) /\ m \in 0..n /\ a + n + m <= L
  BY TurnsAreTyped, TakenBounds
<1>2. NextAt(turns, a) - 1 = a + n + m
  BY <1>1, AnswerIsTurn DEF NextAt
<1>3. AnswerOut(turns, a) = o \o tools
  BY DEF AnswerOut, AnswerMessage
<1>4. AnswerOut(turns, a) \in Seq(Messages0)
  BY TextsHaveNone, TurnsAreTyped, AnswerOutType DEF Messages0
<1>5. /\ Grouping \in Seq(Seq(Messages0)) /\ Len(Grouping) = L
      /\ \A i \in 1..L : Grouping[i] = MessageAt(i)
  BY GroupingType
<1>6. MessageAt(a) = o
  BY AtAnswer
<1>7. ASSUME NEW k \in 1..m
      PROVE  /\ a + n + k \in 1..L
             /\ MessageAt(a + n + k) = <<tools[k]>>
  <2> DEFINE i == a + n + k
  <2>1. i \in 1..L /\ a \in 1..i /\ k \in 1..i /\ k \in Nat /\ k # 0 /\ k \in 1..n
    BY <1>1
  <2>2. a + 1 + n + k - 1 = i
    BY <1>1
  <2>3. tools[k] = ToolMessage(turns[i], turns[a + k].call)
    BY <2>1, <2>2 DEF AnsweredBy
  <2> HIDE DEF n, m, i, tools
  <2>4. Answers(i, a, k)
    BY <2>1, AnswersAre DEF i, n, m
  <2>5. MessageAt(i) = <<ResultMessage(i, a, k)>>
    BY <2>1, <2>4, AtResult
  <2> QED
    BY <2>1, <2>3, <2>5 DEF ResultMessage, i
<1>8. ASSUME NEW k \in (a + 1)..(a + n) PROVE MessageAt(k) = <<>> /\ k \in 1..L
  <2>1. k \in (a + 1)..(a + n + m) /\ k <= a + n
    BY <1>1
  <2>2. k \in 1..L /\ (k <= a + n => turns[k].role = "toolcall")
    BY <2>1, TakenAre
  <2>3. turns[k].role # "user" /\ ~IsAnswer(k) /\ turns[k].role # "toolresult"
    BY <2>1, <2>2 DEF IsAnswer
  <2> QED
    BY <2>2, <2>3, AtOther
<1>9. o \in Seq(Messages0) /\ tools \in Seq(Messages0) /\ Len(tools) = m /\ Len(o) = 1
  <2>1. o \in Seq(Messages0)
    BY <1>6, AtType
  <2>2. ASSUME NEW k \in 1..m PROVE tools[k] \in Messages0
    <3>1. <<tools[k]>> \in Seq(Messages0)
      BY <1>7, AtType
    <3>2. <<tools[k]>>[1] = tools[k] /\ 1 \in 1..Len(<<tools[k]>>)
      OBVIOUS
    <3> HIDE DEF tools
    <3> QED
      BY <3>1, <3>2
  <2>3. tools \in Seq(Messages0) /\ Len(tools) = m
    <3>1. m \in Nat
      BY <1>1
    <3> HIDE DEF m, n, calls
    <3> QED
      BY <2>2, <3>1
  <2> QED
    BY <2>1, <2>3
<1> HIDE DEF n, m, calls, tools, L
<1>10. /\ a \in 1..(Len(Grouping) + 1) /\ a \in (a - 1)..Len(Grouping)
       /\ a + n + m \in a..Len(Grouping)
       /\ a + 1 \in 1..(Len(Grouping) + 1) /\ a + n \in ((a + 1) - 1)..Len(Grouping)
       /\ a + n + m \in (a + n)..Len(Grouping)
       /\ a + n + 1 \in 1..(Len(Grouping) + 1) /\ a + n + m \in ((a + n + 1) - 1)..Len(Grouping)
  BY <1>1, <1>5
<1> DEFINE x == a + n
           y == a + n + m
           i1 == a + 1
           i2 == a + n + 1
<1>11. x + 1 = i2 /\ a + 1 = i1 /\ a - a + 1 = 1 /\ y - i2 + 1 = m
  BY <1>1
<1> HIDE DEF x, y, i1, i2, o
<1>12. Part(Grouping, a, y) = Part(Grouping, a, a) \o Part(Grouping, i1, y)
  <2>1. Part(Grouping, a, y) = Part(Grouping, a, a) \o Part(Grouping, a + 1, y)
    BY <1>5, <1>10, PartSplit DEF y
  <2> QED
    BY <1>11, <2>1
<1>13. Part(Grouping, i1, y) = Part(Grouping, i1, x) \o Part(Grouping, i2, y)
  <2>1. i1 \in 1..(Len(Grouping) + 1) /\ x \in (i1 - 1)..Len(Grouping) /\ y \in x..Len(Grouping)
    BY <1>10 DEF i1, x, y
  <2>2. Part(Grouping, i1, y) = Part(Grouping, i1, x) \o Part(Grouping, x + 1, y)
    BY <1>5, <2>1, PartSplit
  <2> QED
    BY <1>11, <2>2
<1>14. Part(Grouping, a, a) = o
  <2>1. o[1] = AnswerMessage(a) /\ o = <<AnswerMessage(a)>>
    BY DEF o
  <2>2. ASSUME NEW k \in 1..Len(o) PROVE Grouping[a + k - 1] = <<o[k]>>
    <3>1. k = 1 /\ a + k - 1 = a
      BY <1>9, <1>1
    <3>2. Grouping[a] = o
      BY <1>1, <1>5, <1>6
    <3> DEFINE v == AnswerMessage(a)
    <3>3. o[1] = v /\ o = <<v>>
      BY <2>1
    <3> HIDE DEF v
    <3> QED
      BY <3>1, <3>2, <3>3
  <2>3. Len(o) = a - a + 1
    BY <1>9, <1>11
  <2> QED
    BY <1>5, <1>9, <1>10, <2>2, <2>3, PartSingles
<1>15. Part(Grouping, i1, x) = <<>>
  <2>1. i1 \in 1..(Len(Grouping) + 1) /\ x \in (i1 - 1)..Len(Grouping)
    BY <1>10 DEF i1, x
  <2>2. ASSUME NEW k \in i1..x PROVE Grouping[k] = <<>>
    <3>1. k \in (a + 1)..(a + n)
      BY DEF i1, x
    <3> QED
      BY <1>5, <1>8, <3>1
  <2> QED
    BY <1>5, <2>1, <2>2, PartNothing
<1>16. Part(Grouping, i2, y) = tools
  <2>1. i2 \in 1..(Len(Grouping) + 1) /\ y \in (i2 - 1)..Len(Grouping)
    BY <1>10 DEF i2, y
  <2>2. ASSUME NEW k \in 1..Len(tools) PROVE Grouping[i2 + k - 1] = <<tools[k]>>
    <3>1. k \in 1..m /\ i2 + k - 1 = a + n + k
      BY <1>1, <1>9 DEF i2
    <3> QED
      BY <1>5, <1>7, <3>1
  <2>3. Len(tools) = y - i2 + 1
    BY <1>9, <1>11
  <2> QED
    BY <1>5, <1>9, <2>1, <2>2, <2>3, PartSingles
<1>17. <<>> \o tools = tools
  BY <1>9, ConcatEmptySeq
<1>18. Part(Grouping, a, y) = o \o tools
  BY <1>12, <1>13, <1>14, <1>15, <1>16, <1>17
<1> QED
  BY <1>2, <1>3, <1>18 DEF y


-----------------------------------------------------------------------------
(* Where the loop can stand: behind every answer it has come to, its calls *)
(* and the results it takes.                                               *)
Reach(i) ==
  \A a \in 1..Len(turns) : a < i /\ IsAnswer(a) => NextAt(turns, a) <= i

LEMMA ReachNext ==
  ASSUME CInv, NEW i \in 1..Len(turns), Reach(i)
  PROVE  /\ NextAt(turns, i) \in (i + 1)..(Len(turns) + 1)
         /\ ~IsAnswer(i) => NextAt(turns, i) = i + 1
         /\ Reach(NextAt(turns, i))
<1>1. Len(turns) \in Nat /\ NextAt(turns, i) \in (i + 1)..(Len(turns) + 1)
  BY TurnsAreTyped, TakenBounds
<1>2. ~IsAnswer(i) => NextAt(turns, i) = i + 1
  BY AnswerIsTurn DEF NextAt
<1>3. ASSUME NEW a \in 1..Len(turns), a < NextAt(turns, i), IsAnswer(a)
      PROVE  NextAt(turns, a) <= NextAt(turns, i)
  <2>1. CASE a < i
    <3>1. NextAt(turns, a) <= i
      BY <1>3, <2>1 DEF Reach
    <3>2. NextAt(turns, a) \in (a + 1)..(Len(turns) + 1)
      BY <1>1, TakenBounds
    <3> QED
      BY <1>1, <3>1, <3>2
  <2>2. CASE a = i
    BY <1>1, <2>2
  <2>3. CASE a > i
    <3>1. IsAnswer(i)
      BY <1>1, <1>2, <1>3, <2>3
    <3>2. /\ CallsTaken(turns, i) \in Nat /\ ResultsTaken(turns, i) \in Nat
          /\ NextAt(turns, i) = i + 1 + CallsTaken(turns, i) + ResultsTaken(turns, i)
      <4>1. IsAnswerTurn(turns[i])
        BY <3>1, AnswerIsTurn
      <4>2. CallsTaken(turns, i) \in Nat /\ ResultsTaken(turns, i) \in Nat
        BY <1>1, TakenBounds
      <4> QED
        BY <4>1, <4>2 DEF NextAt
    <3>3. a \in (i + 1)..(i + CallsTaken(turns, i) + ResultsTaken(turns, i))
      BY <1>3, <2>3, <3>2
    <3>4. /\ a <= i + CallsTaken(turns, i) => turns[a].role = "toolcall"
          /\ a > i + CallsTaken(turns, i) => turns[a].role = "toolresult"
      BY <3>3, TakenAre
    <3>5. turns[a].role \in {"toolcall", "toolresult"}
      BY <3>2, <3>4
    <3> QED
      BY <1>3, <3>5 DEF IsAnswer
  <2> QED
    BY <2>1, <2>2, <2>3
<1> QED
  BY <1>1, <1>2, <1>3 DEF Reach

(* No result the loop stands at answers a call.                            *)
LEMMA ReachHasNoAnswers ==
  ASSUME CInv, NEW i \in 1..Len(turns), Reach(i)
  PROVE  NoAnswers(i)
<1> SUFFICES ASSUME NEW a \in 1..i, NEW j \in 1..i, Answers(i, a, j) PROVE FALSE
  BY DEF NoAnswers
<1>1. Len(turns) \in Nat /\ a \in 1..Len(turns) /\ j \in Nat /\ j # 0
  BY TurnsAreTyped
<1>2. IsAnswer(a) /\ j \in 1..ResultsTaken(turns, a) /\ i = a + CallsTaken(turns, a) + j
  BY <1>1, AnswersAre
<1>3. CallsTaken(turns, a) \in Nat /\ ResultsTaken(turns, a) \in Nat
  BY <1>1, TakenBounds
<1>4. NextAt(turns, a) = a + 1 + CallsTaken(turns, a) + ResultsTaken(turns, a)
  BY <1>2, AnswerIsTurn DEF NextAt
<1>5. a < i
  BY <1>1, <1>2, <1>3
<1>6. NextAt(turns, a) <= i
  BY <1>1, <1>2, <1>5 DEF Reach
<1> QED
  BY <1>1, <1>2, <1>3, <1>4, <1>6

(* Going down from the end of the transcript.                              *)
LEMMA DownInduction ==
  ASSUME NEW L \in Nat, NEW S, L + 1 \in S,
         \A i \in 1..L : (\A k \in (i + 1)..(L + 1) : k \in S) => i \in S
  PROVE  1 \in S
<1> DEFINE D == { n \in Nat : \A j \in (L + 1 - n)..(L + 1) : j >= 1 => j \in S }
<1>1. 0 \in D
  OBVIOUS
<1>2. ASSUME NEW n \in Nat, n \in D PROVE n + 1 \in D
  <2> SUFFICES ASSUME NEW j \in (L + 1 - (n + 1))..(L + 1), j >= 1 PROVE j \in S
    OBVIOUS
  <2>1. CASE j \in (L + 1 - n)..(L + 1)
    BY <1>2, <2>1
  <2>2. CASE ~(j \in (L + 1 - n)..(L + 1))
    <3>1. j \in 1..L /\ \A k \in (j + 1)..(L + 1) : k \in (L + 1 - n)..(L + 1) /\ k >= 1
      BY <2>2
    <3> QED
      BY <1>2, <3>1
  <2> QED
    BY <2>1, <2>2
<1> HIDE DEF D
<1>3. L \in D
  BY <1>1, <1>2, NatSetInduction
<1>4. 1 \in (L + 1 - L)..(L + 1)
  OBVIOUS
<1> QED
  BY <1>3, <1>4 DEF D

LEMMA LoopGroups == CInv => LoopIsTheGrouping
<1> SUFFICES ASSUME CInv PROVE LoopIsTheGrouping
  OBVIOUS
<1> DEFINE L == Len(turns)
           mm == Grouping
<1>1. turns \in Seq(TurnsOver(Texts, Texts)) /\ L \in Nat
  BY TurnsAreTyped
<1>2. PICK f \in [1..(L + 1) -> Seq(Messages0)] : IsRounds(f, turns) /\ LoopMessages(turns) = f[1]
  BY <1>1, TextsHaveNone, LoopRounds DEF Messages0
<1>3. mm \in Seq(Seq(Messages0)) /\ Len(mm) = L /\ \A i \in 1..L : mm[i] = MessageAt(i)
  BY GroupingType
<1> DEFINE S == { i \in 1..(L + 1) : Reach(i) => f[i] = Part(mm, i, L) }
<1>4. L + 1 \in S
  <2>1. f[L + 1] = <<>>
    BY <1>2 DEF IsRounds
  <2>2. Part(mm, L + 1, L) = <<>>
    <3>1. SubSeq(mm, L + 1, L) = <<>>
      BY <1>1, SubSeqEmpty
    <3>2. FlattenSeq(<<>>) = <<>>
      BY DEF FlattenSeq
    <3> QED
      BY <3>1, <3>2 DEF Part
  <2> QED
    BY <1>1, <2>1, <2>2
<1>5. ASSUME NEW i \in 1..L, \A k \in (i + 1)..(L + 1) : k \in S PROVE i \in S
  <2> SUFFICES ASSUME Reach(i) PROVE f[i] = Part(mm, i, L)
    BY <1>1
  <2> DEFINE k == NextAt(turns, i)
             p == k - 1
  <2>1. k \in (i + 1)..(L + 1) /\ Reach(k) /\ (~IsAnswer(i) => k = i + 1)
    BY ReachNext
  <2>2. f[k] = Part(mm, k, L)
    BY <1>5, <2>1
  <2>3. Part(mm, i, L) = Part(mm, i, p) \o Part(mm, k, L)
    <3>1. /\ i \in 1..(Len(mm) + 1) /\ p \in (i - 1)..Len(mm) /\ L \in p..Len(mm) /\ p + 1 = k
          /\ Len(mm) = L
      BY <1>1, <1>3, <2>1
    <3> HIDE DEF L, p, k, mm
    <3>2. Part(mm, i, L) = Part(mm, i, p) \o Part(mm, p + 1, L)
      BY <1>3, <3>1, PartSplit
    <3> QED
      BY <3>1, <3>2
  <2>4. i \in 1..(Len(mm) + 1) /\ i \in (i - 1)..Len(mm) /\ p \in (i - 1)..Len(mm)
    BY <1>1, <1>3, <2>1
  <2>5. mm[i] = MessageAt(i) /\ MessageAt(i) \in Seq(Messages0)
    BY <1>3, AtType
  <2>6. Part(mm, k, L) \in Seq(Messages0)
    BY <1>1, <2>1, <2>2
  <2>7. CASE turns[i].role = "user"
    <3> DEFINE o == <<UserMessage(turns[i])>>
    <3>1. ~IsAnswer(i)
      BY <2>7 DEF IsAnswer
    <3>2. k = i + 1 /\ p = i
      BY <2>1, <3>1
    <3>3. f[i] = o \o f[i + 1]
      BY <1>2, <2>7 DEF IsRounds
    <3>4. MessageAt(i) = o
      BY <2>7, AtUser
    <3>5. o \in Seq(Messages0) /\ Len(o) = 1 /\ o = <<o[1]>>
      BY <2>5, <3>4
    <3> HIDE DEF o, mm, k, p
    <3>6. Part(mm, i, i) = o
      <4>1. ASSUME NEW l \in 1..Len(o) PROVE mm[i + l - 1] = <<o[l]>>
        <5>1. l = 1 /\ i + l - 1 = i
          BY <3>5
        <5> QED
          BY <2>5, <3>4, <3>5, <5>1
      <4>2. Len(o) = i - i + 1
        BY <3>5
      <4> QED
        BY <1>3, <2>4, <3>5, <4>1, <4>2, PartSingles, ZenonT(30)
    <3> QED
      BY <2>2, <2>3, <3>2, <3>3, <3>6
  <2>8. CASE IsAnswer(i)
    <3>1. f[i] = AnswerOut(turns, i) \o f[k]
      BY <1>2, <2>8, AnswerIsTurn DEF IsRounds
    <3>2. Part(mm, i, p) = AnswerOut(turns, i)
      BY <2>8, AnswerPart
    <3> HIDE DEF mm, k, p
    <3> QED
      BY <2>2, <2>3, <3>1, <3>2
  <2>9. CASE turns[i].role # "user" /\ ~IsAnswer(i)
    <3>1. f[i] = f[i + 1]
      BY <1>2, <2>9, AnswerIsTurn DEF IsRounds
    <3>2. k = i + 1 /\ p = i
      BY <2>1, <2>9
    <3>3. NoAnswers(i)
      BY ReachHasNoAnswers
    <3>4. MessageAt(i) = <<>>
      BY <2>9, <3>3, AtOther, AtNoResult
    <3> HIDE DEF mm, k, p
    <3>5. Part(mm, i, i) = <<>>
      <4>1. \A l \in i..i : mm[l] = <<>>
        <5>1. \A l \in i..i : l = i
          OBVIOUS
        <5> QED
          BY <2>5, <3>4, <5>1
      <4> QED
        BY <1>3, <2>4, <4>1, PartNothing
    <3>6. <<>> \o Part(mm, k, L) = Part(mm, k, L)
      BY <2>6, ConcatEmptySeq
    <3> QED
      BY <2>2, <2>3, <3>1, <3>2, <3>5, <3>6
  <2> QED
    BY <2>7, <2>8, <2>9
<1>6. 1 \in S
  <2> HIDE DEF S, L
  <2> QED
    BY <1>1, <1>4, <1>5, DownInduction
<1>7. Reach(1)
  BY <1>1 DEF Reach
<1>8. Part(mm, 1, L) = FlattenSeq(mm)
  <2> DEFINE Q == Seq(Messages0)
  <2>1. mm \in Seq(Q)
    BY <1>3
  <2> HIDE DEF Q, mm
  <2>2. SubSeq(mm, 1, Len(mm)) = mm
    BY <2>1, SubSeqFull
  <2> QED
    BY <1>3, <2>2 DEF Part
<1>9. LoopMessages(turns) = FlattenSeq(mm)
  BY <1>2, <1>6, <1>7, <1>8
<1> QED
  BY <1>9, SavedIsLoop DEF LoopIsTheGrouping, Grouping

(* The loop of TurnsToMessages takes exactly the prompts, the finished     *)
(* answers with the calls behind them and the results that its pairing by  *)
(* position reaches, whatever the transcript.                              *)
THEOREM LoopsGroup == Spec => []LoopIsTheGrouping
BY LoopGroups, Numbered, PTL


-----------------------------------------------------------------------------
(* The turns an answer takes, as two sequences.                            *)
Taken(i, n) == [k \in 1..n |-> turns[i + k]]

IsTaken(i, n) ==
  /\ Taken(i, n) \in Seq(TurnsOver(Texts, Texts)) /\ Len(Taken(i, n)) = n
  /\ \A k \in 1..n : Taken(i, n)[k] = turns[i + k]
  /\ Taken(i, n) = SubSeq(turns, i + 1, i + n)

LEMMA TakenIsSubSeq ==
  ASSUME CInv, NEW i \in Nat, NEW n \in Nat, i + n <= Len(turns)
  PROVE  IsTaken(i, n)
<1> DEFINE T == TurnsOver(Texts, Texts)
           u == SubSeq(turns, i + 1, i + n)
           t == Taken(i, n)
<1>1. Len(turns) \in Nat /\ \A k \in 1..Len(turns) : turns[k] \in T
  BY TurnsAreTyped
<1> HIDE DEF T
<1>2. \A k \in 1..n : turns[i + k] \in T
  BY <1>1
<1>3. t \in Seq(T) /\ Len(t) = n /\ \A k \in 1..n : t[k] = turns[i + k]
  BY <1>2 DEF Taken
<1>4. u \in Seq(T) /\ Len(u) = n /\ \A k \in 1..n : u[k] = turns[i + k]
  <2> DEFINE x == i + 1
             y == i + n
  <2>1. x \in Int /\ y \in Int /\ y - x + 1 = n /\ \A k \in x..y : turns[k] \in T
    BY <1>1
  <2>2. (IF x <= y THEN y - x + 1 ELSE 0) = n
    OBVIOUS
  <2>3. \A k \in 1..n : x + k - 1 = i + k
    OBVIOUS
  <2> HIDE DEF x, y
  <2>4. /\ SubSeq(turns, x, y) \in Seq(T)
        /\ Len(SubSeq(turns, x, y)) = IF x <= y THEN y - x + 1 ELSE 0
        /\ \A k \in 1..(y - x + 1) : SubSeq(turns, x, y)[k] = turns[x + k - 1]
    BY <2>1, SubSeqProperties
  <2> QED
    BY <2>1, <2>2, <2>3, <2>4 DEF x, y
<1> HIDE DEF t, u
<1>5. t = u
  BY <1>3, <1>4, SeqEqual
<1> QED
  BY <1>3, <1>5 DEF IsTaken, t, u, T

(* What the loop puts out for an answer is the block of its turns.         *)
LEMMA OutIsBlock ==
  ASSUME CInv, NEW i \in 1..Len(turns)
  PROVE  AnswerOut(turns, i)
           = AnswerBlock(turns[i], Taken(i, CallsTaken(turns, i)),
                         Taken(i + CallsTaken(turns, i), ResultsTaken(turns, i)))
<1> DEFINE n == CallsTaken(turns, i)
           m == ResultsTaken(turns, i)
           cs == Taken(i, n)
           rs == Taken(i + n, m)
           calls == [k \in 1..n |-> turns[i + k].call]
           tools == [k \in 1..m |-> ToolMessage(turns[i + 1 + n + k - 1], AnsweredBy(calls, k))]
<1>1. Len(turns) \in Nat /\ n \in 0..(Len(turns) - i) /\ m \in 0..n /\ i + n + m <= Len(turns)
  BY TurnsAreTyped, TakenBounds
<1>2. AnswerOut(turns, i) = <<AssistantMessage(turns[i], calls)>> \o tools
  BY DEF AnswerOut
<1> HIDE DEF n, m
<1>3. IsTaken(i, n) /\ IsTaken(i + n, m)
  <2>1. i \in Nat /\ n \in Nat /\ i + n <= Len(turns) /\ i + n \in Nat /\ m \in Nat
    BY <1>1
  <2> QED
    BY <1>1, <2>1, TakenIsSubSeq
<1>4. /\ Len(cs) = n /\ \A k \in 1..n : cs[k] = turns[i + k]
      /\ Len(rs) = m /\ \A k \in 1..m : rs[k] = turns[i + n + k]
  BY <1>3 DEF IsTaken
<1> HIDE DEF cs, rs
<1>5. Calls(cs) = calls
  BY <1>4 DEF Calls
<1>6. Tools(cs, rs) = tools
  <2>1. ASSUME NEW k \in 1..m
        PROVE  ToolMessage(rs[k], cs[k].call) = ToolMessage(turns[i + 1 + n + k - 1], AnsweredBy(calls, k))
    <3>1. k \in 1..n /\ i + 1 + n + k - 1 = i + n + k
      BY <1>1
    <3>2. AnsweredBy(calls, k) = turns[i + k].call
      BY <3>1 DEF AnsweredBy
    <3> QED
      BY <1>4, <3>1, <3>2
  <2> QED
    BY <1>4, <2>1 DEF Tools
<1> HIDE DEF calls, tools
<1>7. AnswerOut(turns, i) = AnswerBlock(turns[i], cs, rs)
  BY <1>2, <1>5, <1>6 DEF AnswerBlock
<1> QED
  BY <1>7 DEF cs, rs, n, m

(* A transcript of the loop's own turns: each is what its kind makes it.   *)
LEMMA TurnsAreCanonical ==
  ASSUME CInv, NEW i \in 1..Len(turns)
  PROVE  /\ turns[i].role = "user" => turns[i] = UserTurn(turns[i].text)
         /\ IsAnswer(i) => turns[i] = AnswerBack(turns[i])
         /\ turns[i].role = "toolcall" => turns[i] = ToolCallTurn(turns[i].call)
         /\ turns[i].role = "toolresult" => turns[i] = ToolResultTurn(turns[i].text)
<1>1. turns[i] \in TurnsAt(i)
  BY DEF CInv
<1>2. \A t : t = UserTurn(<<i>>) => t.role = "user" /\ t = UserTurn(t.text)
  BY DEF UserTurn, Turn
<1>3. \A t : t = AssistantTurn(<<i>>, <<i>>) => t.role = "assistant" /\ t = AnswerBack(t)
  BY DEF AssistantTurn, AnswerBack, Turn
<1>4. \A t : t = StreamingTurn => t.role = "assistant" /\ t.stream
  BY DEF StreamingTurn, Turn
<1>5. \A t : t = ToolCallTurn(<<i>>) => t.role = "toolcall" /\ t = ToolCallTurn(t.call)
  BY DEF ToolCallTurn, Turn
<1>6. \A t : t = ToolResultTurn(<<i>>) => t.role = "toolresult" /\ t = ToolResultTurn(t.text)
  BY DEF ToolResultTurn, Turn
<1>7. \A t : t \in {NoteTurn("error"), NoteTurn("meta")} => t.role \in {"error", "meta"}
  BY DEF NoteTurn, Turn
<1>8. turns[i] \in {UserTurn(<<i>>), AssistantTurn(<<i>>, <<i>>), StreamingTurn, ToolCallTurn(<<i>>),
                    ToolResultTurn(<<i>>), NoteTurn("error"), NoteTurn("meta")}
  BY <1>1 DEF TurnsAt
<1> QED
  BY <1>2, <1>3, <1>4, <1>5, <1>6, <1>7, <1>8 DEF IsAnswer

(* The block of an answer comes back as the turns it was made of.          *)
LEMMA AnswerComesBack ==
  ASSUME CInv, NEW i \in 1..Len(turns), IsAnswer(i)
  PROVE  /\ AnswerOut(turns, i) \in Seq(Messages0)
         /\ MessagesToTurns(AnswerOut(turns, i)) = SubSeq(turns, i, NextAt(turns, i) - 1)
<1> DEFINE T == TurnsOver(Texts, Texts)
           n == CallsTaken(turns, i)
           m == ResultsTaken(turns, i)
           cs == Taken(i, n)
           rs == Taken(i + n, m)
           t == turns[i]
<1>1. /\ turns \in Seq(T) /\ Len(turns) \in Nat
      /\ n \in 0..(Len(turns) - i) /\ m \in 0..n /\ i + n + m <= Len(turns)
  BY TurnsAreTyped, TakenBounds
<1>2. AnswerOut(turns, i) = AnswerBlock(t, cs, rs)
  BY OutIsBlock
<1>3. AnswerOut(turns, i) \in Seq(Messages0)
  BY <1>1, TextsHaveNone, AnswerOutType DEF Messages0
<1>4. NextAt(turns, i) - 1 = i + n + m
  BY <1>1, AnswerIsTurn DEF NextAt
<1>5. \A k \in (i + 1)..(i + n + m) :
        /\ k \in 1..Len(turns)
        /\ k <= i + n => turns[k].role = "toolcall"
        /\ k > i + n => turns[k].role = "toolresult"
  BY TakenAre
<1>6. t \in T
  BY TurnsAreTyped
<1> HIDE DEF n, m, T
<1>7. IsTaken(i, n) /\ IsTaken(i + n, m)
  <2>1. i \in Nat /\ n \in Nat /\ i + n <= Len(turns) /\ i + n \in Nat /\ m \in Nat
    BY <1>1
  <2> QED
    BY <1>1, <2>1, TakenIsSubSeq
<1>8. /\ cs \in Seq(T) /\ Len(cs) = n /\ \A k \in 1..n : cs[k] = turns[i + k]
      /\ cs = SubSeq(turns, i + 1, i + n)
      /\ rs \in Seq(T) /\ Len(rs) = m /\ \A k \in 1..m : rs[k] = turns[i + n + k]
      /\ rs = SubSeq(turns, i + n + 1, i + n + m)
  BY <1>7 DEF IsTaken, T
<1> HIDE DEF cs, rs
<1>9. CallsBack(cs) = cs
  <2>1. ASSUME NEW k \in 1..n PROVE ToolCallTurn(cs[k].call) = cs[k]
    <3>1. i + k \in (i + 1)..(i + n + m) /\ i + k <= i + n
      BY <1>1
    <3>2. i + k \in 1..Len(turns) /\ turns[i + k].role = "toolcall"
      BY <1>5, <3>1
    <3> QED
      BY <1>8, <3>2, TurnsAreCanonical
  <2>2. cs = [k \in 1..n |-> cs[k]]
    <3>1. cs \in Seq(T) /\ Len(cs) = n
      BY <1>8
    <3> QED
      BY <3>1
  <2> QED
    BY <1>8, <2>1, <2>2 DEF CallsBack
<1>10. ResultsBack(rs) = rs
  <2>1. ASSUME NEW k \in 1..m PROVE ToolResultTurn(rs[k].text) = rs[k]
    <3>1. i + n + k \in (i + 1)..(i + n + m) /\ i + n + k > i + n
      BY <1>1
    <3>2. i + n + k \in 1..Len(turns) /\ turns[i + n + k].role = "toolresult"
      BY <1>5, <3>1
    <3> QED
      BY <1>8, <3>2, TurnsAreCanonical
  <2>2. rs = [k \in 1..m |-> rs[k]]
    <3>1. rs \in Seq(T) /\ Len(rs) = m
      BY <1>8
    <3> QED
      BY <3>1
  <2> QED
    BY <1>8, <2>1, <2>2 DEF ResultsBack
<1>11. AnswerBack(t) = t
  BY TurnsAreCanonical
<1>12. MessagesToTurns(AnswerBlock(t, cs, rs)) = <<AnswerBack(t)>> \o CallsBack(cs) \o ResultsBack(rs)
  <2>1. Len(rs) <= Len(cs)
    BY <1>1, <1>8
  <2>2. /\ t \in TurnsOver(Texts, Texts) /\ cs \in Seq(TurnsOver(Texts, Texts))
        /\ rs \in Seq(TurnsOver(Texts, Texts))
    BY <1>6, <1>8 DEF T
  <2> HIDE DEF t
  <2> QED
    BY <2>1, <2>2, TextsHaveNone, ReloadedAnswer
<1> HIDE DEF t
<1>13. SubSeq(turns, i, i + n) = <<t>> \o cs
  <2> DEFINE j == i + n
  <2>1. j \in i..Len(turns)
    BY <1>1
  <2> HIDE DEF j
  <2>2. SubSeq(turns, i, j) = <<turns[i]>> \o SubSeq(turns, i + 1, j)
    BY <1>1, <2>1, SubSeqRecursiveFirst
  <2> QED
    BY <1>8, <2>2 DEF j, t
<1>14. SubSeq(turns, i, i + n + m) = SubSeq(turns, i, i + n) \o rs
  <2> DEFINE j == i + n
             l == i + n + m
  <2>1. i \in 1..(Len(turns) + 1) /\ j \in (i - 1)..Len(turns) /\ l \in j..Len(turns)
    BY <1>1
  <2> HIDE DEF j, l
  <2>2. SubSeq(turns, i, j) \o SubSeq(turns, j + 1, l) = SubSeq(turns, i, l)
    BY <1>1, <2>1, ConcatAdjacentSubSeq
  <2> QED
    BY <1>8, <2>2 DEF j, l
<1> QED
  BY <1>2, <1>3, <1>4, <1>9, <1>10, <1>11, <1>12, <1>13, <1>14

LEMMA GroupsComeBack == CInv => GroupedTranscriptComesBack
<1> SUFFICES ASSUME CInv, Grouped PROVE MessagesToTurns(Saved) = turns
  BY DEF GroupedTranscriptComesBack
<1> DEFINE L == Len(turns)
           T == TurnsOver(Texts, Texts)
<1>1. turns \in Seq(T) /\ L \in Nat
  BY TurnsAreTyped
<1>2. PICK f \in [1..(L + 1) -> Seq(Messages0)] : IsRounds(f, turns) /\ LoopMessages(turns) = f[1]
  BY <1>1, TextsHaveNone, LoopRounds DEF Messages0
<1> HIDE DEF T
<1> DEFINE S == { i \in 1..(L + 1) : Reach(i) => MessagesToTurns(f[i]) = SubSeq(turns, i, L) }
<1>4. L + 1 \in S
  <2>1. f[L + 1] = <<>>
    BY <1>2 DEF IsRounds
  <2>2. SubSeq(turns, L + 1, L) = <<>>
    BY <1>1, SubSeqEmpty
  <2>3. MessagesToTurns(<<>>) = <<>>
    <3>1. <<>> \in Seq(Messages0)
      OBVIOUS
    <3>2. MessagesToTurns(<<>>) = Mapped(Reloading(Texts, Texts), <<>>)
      BY <3>1, TextsHaveNone, ReloadedIsMapped DEF Messages0
    <3> QED
      BY <3>2, MappedEmpty
  <2> QED
    BY <1>1, <2>1, <2>2, <2>3
<1>5. ASSUME NEW i \in 1..L, \A k \in (i + 1)..(L + 1) : k \in S PROVE i \in S
  <2> SUFFICES ASSUME Reach(i) PROVE MessagesToTurns(f[i]) = SubSeq(turns, i, L)
    BY <1>1
  <2> DEFINE k == NextAt(turns, i)
  <2>1. k \in (i + 1)..(L + 1) /\ Reach(k) /\ (~IsAnswer(i) => k = i + 1)
    BY ReachNext
  <2>2. MessagesToTurns(f[k]) = SubSeq(turns, k, L)
    BY <1>5, <2>1
  <2>3. f[k] \in Seq(Messages0)
    BY <1>1, <1>2, <2>1
  <2>4. CASE turns[i].role = "user"
    <3> DEFINE o == UserOut(turns[i])
    <3>1. ~IsAnswer(i)
      BY <2>4 DEF IsAnswer
    <3>2. k = i + 1
      BY <2>1, <3>1
    <3>3. f[i] = o \o f[k]
      BY <1>2, <2>4, <3>2 DEF IsRounds, UserOut
    <3>4. turns[i] \in TurnsOver(Texts, Texts)
      BY TurnsAreTyped
    <3>5. o \in Seq(Messages0) /\ MessagesToTurns(o) = <<UserTurn(turns[i].text)>>
      BY <3>4, TextsHaveNone, ReloadedUser DEF Messages0
    <3>6. UserTurn(turns[i].text) = turns[i]
      BY <2>4, TurnsAreCanonical
    <3> HIDE DEF o, k
    <3>7. MessagesToTurns(Joined(o, f[k])) = MessagesToTurns(o) \o MessagesToTurns(f[k])
      <4> DEFINE v == f[k]
      <4>1. o \in Seq(MessagesOver(Texts, Texts)) /\ v \in Seq(MessagesOver(Texts, Texts))
        BY <2>3, <3>5 DEF Messages0
      <4> HIDE DEF v
      <4>2. MessagesToTurns(Joined(o, v)) = MessagesToTurns(o) \o MessagesToTurns(v)
        BY <4>1, TextsHaveNone, ReloadedConcat
      <4> QED
        BY <4>2 DEF v
    <3>8. SubSeq(turns, i, L) = <<turns[i]>> \o SubSeq(turns, i + 1, L)
      <4>1. L \in i..L
        BY <1>1
      <4> QED
        BY <1>1, <4>1, SubSeqRecursiveFirst
    <3> HIDE DEF L
    <3>9. MessagesToTurns(o) = <<turns[i]>>
      BY <3>5, <3>6
    <3>10. Joined(o, f[k]) = f[i]
      BY <3>3 DEF Joined
    <3> QED
      BY <2>2, <3>2, <3>7, <3>8, <3>9, <3>10
  <2>5. CASE IsAnswer(i)
    <3> DEFINE o == AnswerOut(turns, i)
               p == k - 1
    <3>1. f[i] = o \o f[k]
      BY <1>2, <2>5, AnswerIsTurn DEF IsRounds
    <3>2. o \in Seq(Messages0) /\ MessagesToTurns(o) = SubSeq(turns, i, p)
      BY <2>5, AnswerComesBack
    <3>3. i \in 1..(L + 1) /\ p \in (i - 1)..L /\ L \in p..L /\ p + 1 = k
      BY <1>1, <2>1
    <3> HIDE DEF o, k, p
    <3>4. MessagesToTurns(Joined(o, f[k])) = MessagesToTurns(o) \o MessagesToTurns(f[k])
      <4> DEFINE v == f[k]
      <4>1. o \in Seq(MessagesOver(Texts, Texts)) /\ v \in Seq(MessagesOver(Texts, Texts))
        BY <2>3, <3>2 DEF Messages0
      <4> HIDE DEF v
      <4>2. MessagesToTurns(Joined(o, v)) = MessagesToTurns(o) \o MessagesToTurns(v)
        BY <4>1, TextsHaveNone, ReloadedConcat
      <4> QED
        BY <4>2 DEF v
    <3>5. SubSeq(turns, i, p) \o SubSeq(turns, p + 1, L) = SubSeq(turns, i, L)
      BY <1>1, <3>3, ConcatAdjacentSubSeq
    <3>6. Joined(o, f[k]) = f[i]
      BY <3>1 DEF Joined
    <3> HIDE DEF L
    <3> QED
      BY <2>2, <3>2, <3>3, <3>4, <3>5, <3>6
  <2>6. CASE turns[i].role # "user" /\ ~IsAnswer(i)
    <3>1. IsPersistable(turns[i])
      BY DEF Grouped
    <3>2. turns[i].role \in {"toolcall", "toolresult"}
      <4>1. turns[i] \in TurnsOver(Texts, Texts)
        BY TurnsAreTyped
      <4>2. turns[i].role \in {"user", "assistant", "toolcall", "toolresult", "error", "meta"}
        BY <4>1 DEF TurnsOver
      <4> QED
        BY <2>6, <3>1, <4>2 DEF IsPersistable, IsAnswer
    <3>3. turns[i].role # "toolresult"
      <4>1. NoAnswers(i)
        BY ReachHasNoAnswers
      <4> QED
        BY <4>1 DEF Grouped, NoAnswers
    <3>4. PICK a \in 1..i : IsAnswer(a) /\ i \in CallsOf(a)
      BY <3>2, <3>3 DEF Grouped
    <3>5. a \in 1..L
      BY <1>1
    <3>6. CallsOf(a) = (a + 1)..(a + CallsTaken(turns, a))
      BY <3>5, CallsAre
    <3>7. CallsTaken(turns, a) \in Nat /\ ResultsTaken(turns, a) \in Nat
      BY <1>1, <3>5, TakenBounds
    <3>8. NextAt(turns, a) = a + 1 + CallsTaken(turns, a) + ResultsTaken(turns, a)
      BY <3>4, AnswerIsTurn DEF NextAt
    <3>9. a < i
      BY <3>4, <3>6, <3>7
    <3>10. NextAt(turns, a) <= i
      BY <3>4, <3>5, <3>9 DEF Reach
    <3> QED
      BY <3>4, <3>6, <3>7, <3>8, <3>10
  <2> QED
    BY <2>4, <2>5, <2>6
<1>6. 1 \in S
  <2> HIDE DEF S, L
  <2> QED
    BY <1>1, <1>4, <1>5, DownInduction
<1>7. Reach(1)
  BY <1>1 DEF Reach
<1>8. SubSeq(turns, 1, L) = turns
  BY <1>1, SubSeqFull
<1> QED
  BY <1>2, <1>6, <1>7, <1>8, SavedIsLoop

(* A transcript in which every call and every result belongs to an answer  *)
(* comes back from its archive turn for turn.                              *)
THEOREM GroupedTranscriptsComeBack == Spec => []GroupedTranscriptComesBack
BY GroupsComeBack, Numbered, PTL

====
