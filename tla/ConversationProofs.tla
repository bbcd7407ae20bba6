------------------------- MODULE ConversationProofs -------------------------
EXTENDS Conversation, FiniteSetTheorems, SequenceTheorems, WellFoundedInduction, TLAPS

(***************************************************************************)
(* Proofs about module Conversation, for every set of call ids, of         *)
(* snapshots, of plans and every bound.  The repair is a fold; the proofs  *)
(* go through the window it carries after each message (Windows, Shape):   *)
(*   - what a window has put out is a legal history, the message that      *)
(*     opened it and answers to some of its calls, so closing it gives a   *)
(*     legal request (RequestsLegal);                                      *)
(*   - over a legal history the windows copy it (RepairExact);             *)
(*   - the windows of a history that grows grow with it, which gives the   *)
(*     cache contract (CachePrefix); a result is in the windows unless its *)
(*     batch was blocked before it (OnlyBlocks);                           *)
(*   - what a plan removes is neither pinned nor below the floor, and the  *)
(*     repair drops neither (ProtectionHolds).                             *)
(***************************************************************************)

-----------------------------------------------------------------------------
(* Induction over the naturals, for a property that is a set, and the       *)
(* recursive functions the algorithms are written with.                     *)

\* < as a relation, for the library's least-element theorem.
LessThan == {p \in Nat \X Nat : p[1] < p[2]}

\* The order of the naturals is well founded.
LEMMA LessThanWellFounded == IsWellFoundedOn(LessThan, Nat)
<1>1. LessThan = OpToRel(<, Nat)
  BY Zenon DEF LessThan, OpToRel
<1> QED BY <1>1, NatLessThanWellFounded, Zenon

\* Induction up to a bound: a set with 0 and with the successor of each of
\* its numbers below L has every number up to L.
LEMMA UpTo ==
    ASSUME NEW L \in Nat, NEW T, 0 \in T, \A n \in 0..(L - 1) : n \in T => n + 1 \in T
    PROVE  0..L \subseteq T
<1> DEFINE B == (0..L) \ T
<1> SUFFICES ASSUME B # {} PROVE FALSE
  OBVIOUS
<1>1. B \subseteq Nat
  OBVIOUS
<1>2. \A k \in B : k \in 0..L /\ k \notin T
  OBVIOUS
<1>3. \A k \in 0..L : k \notin B => k \in T
  OBVIOUS
<1> HIDE DEF B
<1>4. PICK m \in B : \A k \in B : ~(<<k, m>> \in LessThan)
  BY <1>1, LessThanWellFounded, WFMin
<1>5. m \in 0..L /\ m # 0 /\ m \notin T
  BY <1>2
<1>6. m - 1 \in 0..(L - 1) /\ m - 1 \in 0..L /\ (m - 1) + 1 = m
  BY <1>5
<1>7. m - 1 \notin B
  <2>1. \A k \in B : ~(k < m)
    BY <1>1, <1>4 DEF LessThan
  <2>2. m - 1 < m
    BY <1>5
  <2> QED BY <2>1, <2>2
<1>8. m - 1 \in T
  BY <1>3, <1>6, <1>7
<1> QED BY <1>5, <1>6, <1>8

\* f is the fold of step over n elements from base, in S.
Folds(f, S, base, step, n) ==
    /\ f \in [0..n -> S] /\ f[0] = base
    /\ \A k \in 1..n : f[k] = step[k][f[k - 1]]

\* A recursive function over 0..L exists, for a step that stays in a set.
LEMMA FoldExists ==
    ASSUME NEW S, NEW base \in S, NEW L \in Nat, NEW step \in [1..L -> [S -> S]]
    PROVE  \E f : Folds(f, S, base, step, L)
<1> DEFINE T == {n \in 0..L : \E f : Folds(f, S, base, step, n)}
<1>1. \E f : Folds(f, S, base, step, 0)
  <2> DEFINE f == [i \in 0..0 |-> base]
  <2>1. f \in [0..0 -> S] /\ f[0] = base
    OBVIOUS
  <2> HIDE DEF f
  <2>2. \A k \in 1..0 : FALSE
    OBVIOUS
  <2> QED BY <2>1, <2>2 DEF Folds
<1>2. ASSUME NEW n \in 0..(L - 1), NEW g, Folds(g, S, base, step, n)
      PROVE  \E f : Folds(f, S, base, step, n + 1)
  <2> DEFINE last == step[n + 1][g[n]]
             f == [i \in 0..(n + 1) |-> IF i = n + 1 THEN last ELSE g[i]]
  <2>1. g \in [0..n -> S] /\ n \in Nat /\ n + 1 \in 1..L /\ n \in 0..n
    BY <1>2 DEF Folds
  <2>2. last \in S
    BY <2>1
  <2> HIDE DEF last
  <2>3. f \in [0..(n + 1) -> S]
    BY <2>1, <2>2
  <2>4. f[n + 1] = last /\ \A i \in 0..n : f[i] = g[i]
    BY <2>1
  <2> HIDE DEF f
  <2>5. f[0] = base
    BY <1>2, <2>1, <2>4 DEF Folds
  <2>6. ASSUME NEW k \in 1..(n + 1) PROVE f[k] = step[k][f[k - 1]]
    <3>1. CASE k = n + 1
      <4>1. k - 1 = n /\ f[n] = g[n]
        BY <2>1, <2>4, <3>1
      <4> QED BY <2>4, <3>1, <4>1 DEF last
    <3>2. CASE k # n + 1
      <4>1. k \in 1..n /\ k \in 0..n /\ k - 1 \in 0..n
        BY <2>1, <3>2
      <4> QED BY <1>2, <2>4, <4>1 DEF Folds
    <3> QED BY <3>1, <3>2
  <2> QED BY <2>3, <2>5, <2>6 DEF Folds
<1>3. 0 \in T
  BY <1>1
<1>4. \A n \in 0..(L - 1) : n \in T => n + 1 \in T
  BY <1>2
<1>5. 0..L \subseteq T
  <2> HIDE DEF T
  <2> QED BY <1>3, <1>4, UpTo
<1> QED BY <1>5

-----------------------------------------------------------------------------
(* Unique and Only.                                                        *)

\* s has the element x; no element of s repeats.
In(s, x) == \E i \in DOMAIN s : s[i] = x
Distinct(s) == \A i, j \in DOMAIN s : s[i] = s[j] => i = j

\* Append, in these terms.
LEMMA InAppend ==
    ASSUME NEW S, NEW s \in Seq(S), NEW x \in S
    PROVE  /\ Append(s, x) \in Seq(S)
           /\ \A y : In(Append(s, x), y) <=> (In(s, y) \/ x = y)
           /\ (Distinct(s) /\ ~In(s, x)) => Distinct(Append(s, x))
<1> DEFINE r == Append(s, x)
<1>1. /\ r \in Seq(S) /\ Len(s) \in Nat /\ DOMAIN s = 1..Len(s) /\ DOMAIN r = 1..(Len(s) + 1)
      /\ r[Len(s) + 1] = x /\ \A k \in 1..Len(s) : r[k] = s[k]
  OBVIOUS
<1>2. \A k \in DOMAIN r : k \in DOMAIN s \/ k = Len(s) + 1
  BY <1>1
<1>3. Len(s) + 1 \in DOMAIN r /\ DOMAIN s \subseteq DOMAIN r
  BY <1>1
<1> HIDE DEF r
<1>4. \A y : In(r, y) <=> (In(s, y) \/ x = y)
  BY <1>1, <1>2, <1>3 DEF In
<1>5. (Distinct(s) /\ ~In(s, x)) => Distinct(r)
  BY <1>1, <1>2, <1>3 DEF In, Distinct
<1> QED BY <1>1, <1>4, <1>5 DEF r

\* What Unique and Only compute after n elements.
Uniq(S, u, s, n) ==
    /\ u \in Seq(S) /\ Distinct(u)
    /\ \A x : In(u, x) <=> \E i \in 1..n : s[i] = x
KeptOf(S, r, s, A, n) ==
    /\ r \in Seq(S)
    /\ \A x : In(r, x) <=> x \in A /\ \E i \in 1..n : s[i] = x
    /\ Distinct(s) => Distinct(r)

\* Unique: the same ids, each once.
LEMMA UniqueFacts ==
    ASSUME NEW S, NEW s \in Seq(S)
    PROVE  Uniq(S, Unique(s), s, Len(s))
<1> DEFINE L == Len(s)
           Def(f) == [n \in 0..L |-> IF n = 0 THEN <<>>
                                     ELSE IF Contains(f[n - 1], s[n]) THEN f[n - 1]
                                     ELSE Append(f[n - 1], s[n])]
           seen == CHOOSE f : f = Def(f)
           step == [n \in 1..L |-> [u \in Seq(S) |-> IF Contains(u, s[n]) THEN u
                                                     ELSE Append(u, s[n])]]
<1>1. L \in Nat /\ DOMAIN s = 1..L /\ (\A n \in 1..L : s[n] \in S) /\ <<>> \in Seq(S)
  OBVIOUS
<1>2. step \in [1..L -> [Seq(S) -> Seq(S)]]
  BY <1>1
<1>3. PICK g : Folds(g, Seq(S), <<>>, step, L)
  <2> HIDE DEF step, L
  <2> QED BY <1>1, <1>2, FoldExists
<1>4. g = Def(g)
  <2>1. g \in [0..L -> Seq(S)]
    BY <1>3 DEF Folds
  <2>2. ASSUME NEW n \in 1..L PROVE g[n] = Def(g)[n]
    <3>1. n \in 0..L /\ n # 0 /\ n - 1 \in 0..L /\ g[n - 1] \in Seq(S)
      BY <1>1, <2>1
    <3>2. g[n] = step[n][g[n - 1]]
      BY <1>3 DEF Folds
    <3> QED BY <3>1, <3>2
  <2>3. g[0] = Def(g)[0]
    BY <1>1, <1>3 DEF Folds
  <2>4. \A n \in 0..L : n = 0 \/ n \in 1..L
    BY <1>1
  <2> QED BY <2>1, <2>2, <2>3, <2>4
<1>5. seen = Def(seen)
  BY <1>4
<1>6. Unique(s) = seen[L]
  BY DEF Unique
<1> HIDE DEF seen
<1>7. seen[0] = <<>> /\ \A n \in 1..L : seen[n] = IF Contains(seen[n - 1], s[n]) THEN seen[n - 1]
                                                  ELSE Append(seen[n - 1], s[n])
  <2>1. 0 \in 0..L /\ \A n \in 1..L : n \in 0..L /\ n # 0
    BY <1>1
  <2> QED BY <1>5, <2>1
<1> DEFINE T == {n \in 0..L : Uniq(S, seen[n], s, n)}
<1>8. 0 \in T
  <2>1. DOMAIN <<>> = {} /\ \A i \in 1..0 : FALSE
    OBVIOUS
  <2>2. Uniq(S, seen[0], s, 0)
    BY <1>1, <1>7, <2>1 DEF Uniq, In, Distinct
  <2>3. 0 \in 0..L
    BY <1>1
  <2> QED BY <2>2, <2>3
<1>9. ASSUME NEW n \in 0..(L - 1), n \in T PROVE n + 1 \in T
  <2> DEFINE u == seen[n]
             x == s[n + 1]
  <2>1. n + 1 \in 1..L /\ n + 1 \in 0..L /\ (n + 1) - 1 = n /\ n \in Nat
    BY <1>1
  <2>2. x \in S /\ Uniq(S, u, s, n)
    BY <1>1, <1>9, <2>1
  <2>3. seen[n + 1] = IF Contains(u, x) THEN u ELSE Append(u, x)
    BY <1>7, <2>1
  <2>4. Contains(u, x) <=> In(u, x)
    BY <2>2 DEF Contains, In, Uniq
  <2>5. \A y : (\E i \in 1..(n + 1) : s[i] = y) <=> ((\E i \in 1..n : s[i] = y) \/ x = y)
    <3>1. \A i \in 1..(n + 1) : i \in 1..n \/ i = n + 1
      BY <2>1
    <3>2. 1..n \subseteq 1..(n + 1) /\ n + 1 \in 1..(n + 1)
      BY <2>1
    <3> QED BY <3>1, <3>2
  <2> HIDE DEF u, x
  <2>6. CASE In(u, x)
    BY <2>1, <2>2, <2>3, <2>4, <2>5, <2>6 DEF Uniq
  <2>7. CASE ~In(u, x)
    <3>1. seen[n + 1] = Append(u, x) /\ u \in Seq(S)
      BY <2>2, <2>3, <2>4, <2>7 DEF Uniq
    <3>2. /\ Append(u, x) \in Seq(S) /\ Distinct(Append(u, x))
          /\ \A y : In(Append(u, x), y) <=> (In(u, y) \/ x = y)
      BY <2>2, <2>7, <3>1, InAppend DEF Uniq
    <3> QED BY <2>1, <2>2, <2>5, <3>1, <3>2 DEF Uniq
  <2> QED BY <2>6, <2>7
<1>10. 0..L \subseteq T
  <2> HIDE DEF T, L
  <2> QED BY <1>1, <1>8, <1>9, UpTo
<1> QED BY <1>1, <1>6, <1>10

\* Only: the elements of a set, once each if they were.
LEMMA OnlyFacts ==
    ASSUME NEW S, NEW s \in Seq(S), NEW A
    PROVE  KeptOf(S, Only(s, A), s, A, Len(s))
<1> DEFINE L == Len(s)
           Def(f) == [n \in 0..L |-> IF n = 0 THEN <<>>
                                     ELSE IF s[n] \in A THEN Append(f[n - 1], s[n])
                                     ELSE f[n - 1]]
           kept == CHOOSE f : f = Def(f)
           step == [n \in 1..L |-> [u \in Seq(S) |-> IF s[n] \in A THEN Append(u, s[n]) ELSE u]]
<1>1. L \in Nat /\ DOMAIN s = 1..L /\ (\A n \in 1..L : s[n] \in S) /\ <<>> \in Seq(S)
  OBVIOUS
<1>2. step \in [1..L -> [Seq(S) -> Seq(S)]]
  BY <1>1
<1>3. PICK g : Folds(g, Seq(S), <<>>, step, L)
  <2> HIDE DEF step, L
  <2> QED BY <1>1, <1>2, FoldExists
<1>4. g = Def(g)
  <2>1. g \in [0..L -> Seq(S)]
    BY <1>3 DEF Folds
  <2>2. ASSUME NEW n \in 1..L PROVE g[n] = Def(g)[n]
    <3>1. n \in 0..L /\ n # 0 /\ n - 1 \in 0..L /\ g[n - 1] \in Seq(S)
      BY <1>1, <2>1
    <3>2. g[n] = step[n][g[n - 1]]
      BY <1>3 DEF Folds
    <3> QED BY <3>1, <3>2
  <2>3. g[0] = Def(g)[0]
    BY <1>1, <1>3 DEF Folds
  <2>4. \A n \in 0..L : n = 0 \/ n \in 1..L
    BY <1>1
  <2> QED BY <2>1, <2>2, <2>3, <2>4
<1>5. kept = Def(kept)
  BY <1>4
<1>6. Only(s, A) = kept[L]
  BY DEF Only
<1> HIDE DEF kept
<1>7. kept[0] = <<>> /\ \A n \in 1..L : kept[n] = IF s[n] \in A THEN Append(kept[n - 1], s[n])
                                                  ELSE kept[n - 1]
  <2>1. 0 \in 0..L /\ \A n \in 1..L : n \in 0..L /\ n # 0
    BY <1>1
  <2> QED BY <1>5, <2>1
<1> DEFINE T == {n \in 0..L : KeptOf(S, kept[n], s, A, n)}
<1>8. 0 \in T
  <2>1. DOMAIN <<>> = {} /\ \A i \in 1..0 : FALSE
    OBVIOUS
  <2>2. KeptOf(S, kept[0], s, A, 0)
    BY <1>1, <1>7, <2>1 DEF KeptOf, In, Distinct
  <2>3. 0 \in 0..L
    BY <1>1
  <2> QED BY <2>2, <2>3
<1>9. ASSUME NEW n \in 0..(L - 1), n \in T PROVE n + 1 \in T
  <2> DEFINE u == kept[n]
             x == s[n + 1]
  <2>1. n + 1 \in 1..L /\ n + 1 \in 0..L /\ (n + 1) - 1 = n /\ n \in Nat
    BY <1>1
  <2>2. x \in S /\ KeptOf(S, u, s, A, n)
    BY <1>1, <1>9, <2>1
  <2>3. kept[n + 1] = IF x \in A THEN Append(u, x) ELSE u
    BY <1>7, <2>1
  <2>4. \A y : (\E i \in 1..(n + 1) : s[i] = y) <=> ((\E i \in 1..n : s[i] = y) \/ x = y)
    <3>1. \A i \in 1..(n + 1) : i \in 1..n \/ i = n + 1
      BY <2>1
    <3>2. 1..n \subseteq 1..(n + 1) /\ n + 1 \in 1..(n + 1)
      BY <2>1
    <3> QED BY <3>1, <3>2
  <2>5. Distinct(s) => ~(\E i \in 1..n : s[i] = x)
    <3>1. 1..n \subseteq DOMAIN s /\ n + 1 \in DOMAIN s /\ n + 1 \notin 1..n
      BY <1>1, <2>1
    <3> QED BY <3>1 DEF Distinct
  <2> HIDE DEF u, x
  <2>6. CASE x \notin A
    BY <2>1, <2>2, <2>3, <2>4, <2>6 DEF KeptOf
  <2>7. CASE x \in A
    <3>1. kept[n + 1] = Append(u, x) /\ u \in Seq(S)
      BY <2>2, <2>3, <2>7 DEF KeptOf
    <3>2. /\ Append(u, x) \in Seq(S)
          /\ \A y : In(Append(u, x), y) <=> (In(u, y) \/ x = y)
          /\ (Distinct(u) /\ ~In(u, x)) => Distinct(Append(u, x))
      BY <2>2, <3>1, InAppend
    <3>3. Distinct(s) => Distinct(u) /\ ~In(u, x)
      BY <2>2, <2>5 DEF KeptOf
    <3>4. \A y : In(Append(u, x), y) <=> y \in A /\ \E i \in 1..(n + 1) : s[i] = y
      BY <2>2, <2>4, <2>7, <3>2 DEF KeptOf
    <3> QED BY <2>1, <3>1, <3>2, <3>3, <3>4 DEF KeptOf
  <2> QED BY <2>6, <2>7
<1>10. 0..L \subseteq T
  <2> HIDE DEF T, L
  <2> QED BY <1>1, <1>8, <1>9, UpTo
<1> QED BY <1>1, <1>6, <1>10

-----------------------------------------------------------------------------
(* Result windows.                                                         *)

\* What a message is.
LEMMA MessageFacts ==
    /\ \A m \in Message : /\ m.calls \in Seq(Ids)
                          /\ m.role = "tool" => m.id \in Ids /\ m.calls = <<>>
                          /\ m.real \/ m.pin => m.role # "tool"
    /\ \A i \in Ids : /\ Placeholder(i) \in Message
                      /\ Placeholder(i).role = "tool" /\ Placeholder(i).id = i
<1>1. \A m \in Message : /\ m \in Fields /\ (m.role = "tool" <=> m.id # 0)
                         /\ m.calls # <<>> => m.role = "assistant"
                         /\ m.real \/ m.pin => m.role = "user"
  BY DEF Message
<1>2. \A m \in Fields : m.calls \in Seq(Ids) /\ m.id \in Ids \cup {0}
  BY DEF Fields
<1>3. ASSUME NEW i \in Ids
      PROVE  /\ Placeholder(i) \in Message
             /\ Placeholder(i).role = "tool" /\ Placeholder(i).id = i
  <2>1. /\ Placeholder(i).role = "tool" /\ Placeholder(i).id = i /\ i # 0
        /\ Placeholder(i).calls = <<>> /\ ~Placeholder(i).real /\ ~Placeholder(i).pin
    BY ConversationAssumption DEF Placeholder, Msg
  <2>2. Placeholder(i) \in Fields
    BY ConversationAssumption DEF Placeholder, Msg, Fields, Roles
  <2> QED BY <2>1, <2>2 DEF Message
<1> QED BY <1>1, <1>2, <1>3

\* The ids of a call list, in the terms of Paired.
LEMMA CallIds ==
    ASSUME NEW S, NEW c \in Seq(S)
    PROVE  \A i : (Contains(c, i) <=> In(c, i)) /\ (i \in ToSet(c) <=> In(c, i))
BY DEF Contains, ToSet, In

\* The results rs answer the ids in A, each once.
Answers(rs, A) ==
    /\ rs \in Seq(Message)
    /\ \A k \in DOMAIN rs : rs[k].role = "tool"
    /\ \A j, k \in DOMAIN rs : rs[j].id = rs[k].id => j = k
    /\ \A i : (\E k \in DOMAIN rs : rs[k].id = i) <=> i \in A

\* A legal history stays legal when a message and a result for each of its
\* calls are added.
LEMMA WindowPaired ==
    ASSUME NEW q \in Seq(Message), Paired(q), NEW h \in Message, h.role # "tool",
           NEW rs, Answers(rs, ToSet(h.calls))
    PROVE  Append(q, h) \o rs \in Seq(Message) /\ Paired(Append(q, h) \o rs)
<1> DEFINE r == Append(q, h) \o rs
           L == Len(q)
           N == Len(rs)
<1>1. rs \in Seq(Message)
  BY DEF Answers
<1>2. /\ r \in Seq(Message) /\ L \in Nat /\ N \in Nat
      /\ DOMAIN q = 1..L /\ DOMAIN rs = 1..N /\ DOMAIN r = 1..(L + 1 + N)
  BY <1>1
<1>3. /\ \A k \in 1..L : r[k] = q[k]
      /\ r[L + 1] = h
      /\ \A k \in (L + 2)..(L + 1 + N) : k - (L + 1) \in 1..N /\ r[k] = rs[k - (L + 1)]
  BY <1>1
<1>4. \A k \in 1..N : k + (L + 1) \in (L + 2)..(L + 1 + N) /\ (k + (L + 1)) - (L + 1) = k
  BY <1>2
<1>5. \A k \in DOMAIN r : k \in 1..L \/ k = L + 1 \/ k \in (L + 2)..(L + 1 + N)
  BY <1>2
<1>6. \A k : (k \in 1..L \/ k = L + 1 \/ k \in (L + 2)..(L + 1 + N)) => k \in DOMAIN r
  BY <1>2
<1> HIDE DEF r
<1>7. \A a, k \in 1..L : InWindow(r, a, k) <=> InWindow(q, a, k)
  <2> SUFFICES ASSUME NEW a \in 1..L, NEW k \in 1..L
               PROVE  InWindow(r, a, k) <=> InWindow(q, a, k)
    OBVIOUS
  <2>1. \A j \in (a + 1)..k : j \in 1..L
    BY <1>2
  <2>2. \A j \in (a + 1)..k : r[j] = q[j]
    BY <1>3, <2>1
  <2> QED BY <2>2 DEF InWindow
<1>8. \A a \in 1..L : \A k \in DOMAIN r : k \notin 1..L => ~InWindow(r, a, k)
  <2> SUFFICES ASSUME NEW a \in 1..L, NEW k \in DOMAIN r, k \notin 1..L
               PROVE  ~InWindow(r, a, k)
    OBVIOUS
  <2>1. L + 1 \in (a + 1)..k
    BY <1>2
  <2> QED BY <1>3, <2>1 DEF InWindow
<1>9. \A k \in (L + 2)..(L + 1 + N) : r[k].role = "tool" /\ InWindow(r, L + 1, k)
  <2>1. \A k \in (L + 2)..(L + 1 + N) : r[k].role = "tool"
    BY <1>2, <1>3 DEF Answers
  <2> SUFFICES ASSUME NEW k \in (L + 2)..(L + 1 + N) PROVE InWindow(r, L + 1, k)
    BY <2>1
  <2>2. L + 1 < k /\ \A j \in ((L + 1) + 1)..k : j \in (L + 2)..(L + 1 + N)
    BY <1>2
  <2> QED BY <2>1, <2>2 DEF InWindow
<1>10. \A m \in Message : m.calls \in Seq(Ids)
  BY MessageFacts
<1>11. ASSUME NEW k \in DOMAIN r, r[k].role = "tool"
       PROVE  \E a \in DOMAIN r : InWindow(r, a, k) /\ Contains(r[a].calls, r[k].id)
  <2>1. CASE k \in 1..L
    <3>1. PICK a \in DOMAIN q : InWindow(q, a, k) /\ Contains(q[a].calls, q[k].id)
      BY <1>2, <1>3, <1>11, <2>1 DEF Paired
    <3> QED BY <1>2, <1>3, <1>6, <1>7, <2>1, <3>1
  <2>2. CASE k = L + 1
    BY <1>3, <1>11, <2>2
  <2>3. CASE k \in (L + 2)..(L + 1 + N)
    <3>1. r[k].id \in ToSet(h.calls)
      <4> DEFINE n == k - (L + 1)
      <4>1. n \in DOMAIN rs /\ r[k] = rs[n]
        BY <1>2, <1>3, <2>3
      <4> HIDE DEF n
      <4>2. \A i : (\E j \in DOMAIN rs : rs[j].id = i) => i \in ToSet(h.calls)
        BY DEF Answers
      <4> QED BY <4>1, <4>2
    <3>2. Contains(h.calls, r[k].id)
      BY <1>10, <3>1, CallIds
    <3> QED BY <1>3, <1>6, <1>9, <2>3, <3>2
  <2> QED BY <1>5, <2>1, <2>2, <2>3
<1>12. ASSUME NEW a \in DOMAIN r, NEW i \in ToSet(r[a].calls)
       PROVE  Cardinality({k \in DOMAIN r : InWindow(r, a, k) /\ r[k].id = i}) = 1
  <2>1. CASE a \in 1..L
    <3>1. {k \in DOMAIN r : InWindow(r, a, k) /\ r[k].id = i}
            = {k \in DOMAIN q : InWindow(q, a, k) /\ q[k].id = i}
      <4>1. \A k \in DOMAIN r : InWindow(r, a, k) => k \in 1..L
        BY <1>8, <2>1
      <4>2. \A k \in 1..L : k \in DOMAIN r /\ r[k] = q[k] /\ (InWindow(r, a, k) <=> InWindow(q, a, k))
        BY <1>3, <1>6, <1>7, <2>1
      <4> QED BY <1>2, <4>1, <4>2
    <3>2. i \in ToSet(q[a].calls) /\ a \in DOMAIN q
      BY <1>2, <1>3, <1>12, <2>1
    <3> QED BY <3>1, <3>2 DEF Paired
  <2>2. CASE a = L + 1
    <3>1. PICK n \in 1..N : rs[n].id = i
      BY <1>2, <1>3, <1>12, <2>2 DEF Answers
    <3> DEFINE p == n + (L + 1)
    <3>2. p \in (L + 2)..(L + 1 + N) /\ p \in DOMAIN r /\ r[p].id = i /\ InWindow(r, a, p)
      BY <1>3, <1>4, <1>6, <1>9, <2>2, <3>1
    <3>3. ASSUME NEW k \in DOMAIN r, InWindow(r, a, k), r[k].id = i PROVE k = p
      <4>1. k > L + 1
        BY <2>2, <3>3 DEF InWindow
      <4>2. k \in (L + 2)..(L + 1 + N)
        BY <1>2, <1>5, <4>1
      <4>3. k - (L + 1) = n
        <5> DEFINE d == k - (L + 1)
        <5>1. d \in DOMAIN rs /\ n \in DOMAIN rs /\ r[k] = rs[d]
          BY <1>2, <1>3, <4>2
        <5>2. \A j, l \in DOMAIN rs : rs[j].id = rs[l].id => j = l
          BY DEF Answers
        <5> HIDE DEF d
        <5>3. d = n
          BY <3>1, <3>3, <5>1, <5>2
        <5> QED BY <5>3 DEF d
      <4>4. k \in Nat /\ L \in Nat /\ n \in Nat
        BY <1>2, <4>2
      <4> HIDE DEF L
      <4> QED BY <4>3, <4>4
    <3> HIDE DEF p
    <3>4. {k \in DOMAIN r : InWindow(r, a, k) /\ r[k].id = i} = {p}
      BY <3>2, <3>3
    <3> QED BY <3>4, FS_Singleton
  <2>3. CASE a \in (L + 2)..(L + 1 + N)
    <3>1. r[a] \in Message
      BY <1>2
    <3>2. r[a].calls = <<>>
      BY <1>9, <2>3, <3>1, MessageFacts
    <3>3. ToSet(<<>>) = {}
      BY DEF ToSet
    <3> QED BY <1>12, <3>2, <3>3
  <2> QED BY <1>5, <2>1, <2>2, <2>3
<1> QED BY <1>2, <1>11, <1>12 DEF Paired, r

\* The state of the repair after some messages.
Window == [out : Seq(Message), pending : Seq(Ids), resolved : SUBSET Ids]

\* A window of the repair: nothing yet, or a legal history, the message that
\* opened the window, and a result for each id that is resolved.
Shape(w) ==
    \/ w.out = <<>> /\ w.pending = <<>> /\ w.resolved = {}
    \/ \E q \in Seq(Message), h \in Message, rs \in Seq(Message) :
          /\ w.out = Append(q, h) \o rs
          /\ Paired(q) /\ h.role # "tool"
          /\ Answers(rs, w.resolved)
          /\ Distinct(w.pending)
          /\ \A i : In(w.pending, i) <=> In(h.calls, i)
          /\ \A i \in w.resolved : In(w.pending, i)

\* The placeholders of a list of distinct ids answer these ids.
LEMMA PlaceholdersAnswer ==
    ASSUME NEW open \in Seq(Ids), Distinct(open)
    PROVE  Answers([k \in DOMAIN open |-> Placeholder(open[k])], {i \in Ids : In(open, i)})
<1> DEFINE ph == [k \in DOMAIN open |-> Placeholder(open[k])]
<1>1. /\ Len(open) \in Nat /\ DOMAIN open = 1..Len(open) /\ DOMAIN ph = DOMAIN open
      /\ \A k \in DOMAIN open : open[k] \in Ids
  OBVIOUS
<1>2. \A k \in DOMAIN ph : ph[k] = Placeholder(open[k])
  OBVIOUS
<1>3. \A k \in DOMAIN ph : ph[k] \in Message /\ ph[k].role = "tool" /\ ph[k].id = open[k]
  BY <1>1, <1>2, MessageFacts
<1>4. ph = [k \in 1..Len(open) |-> ph[k]]
  BY <1>1
<1> HIDE DEF ph
<1>5. ph \in Seq(Message)
  <2>1. \A k \in 1..Len(open) : ph[k] \in Message
    BY <1>1, <1>3
  <2> QED BY <1>1, <1>4, <2>1, IsASeq
<1>6. \A j, k \in DOMAIN ph : ph[j].id = ph[k].id => j = k
  BY <1>1, <1>3 DEF Distinct
<1>7. \A i : (\E k \in DOMAIN ph : ph[k].id = i) <=> i \in {x \in Ids : In(open, x)}
  BY <1>1, <1>3 DEF In
<1> QED BY <1>3, <1>5, <1>6, <1>7 DEF Answers, ph

\* Results that answer disjoint sets of ids answer their union.
LEMMA AnswersConcat ==
    ASSUME NEW A, NEW B, NEW rs, NEW ss, Answers(rs, A), Answers(ss, B),
           \A i \in A : i \notin B
    PROVE  Answers(rs \o ss, A \cup B)
<1> DEFINE r == rs \o ss
           N == Len(rs)
           M == Len(ss)
<1>1. rs \in Seq(Message) /\ ss \in Seq(Message)
  BY DEF Answers
<1>2. /\ r \in Seq(Message) /\ N \in Nat /\ M \in Nat
      /\ DOMAIN rs = 1..N /\ DOMAIN ss = 1..M /\ DOMAIN r = 1..(N + M)
  BY <1>1
<1>3. /\ \A k \in DOMAIN rs : k \in DOMAIN r /\ r[k] = rs[k]
      /\ \A k \in DOMAIN ss : k + N \in DOMAIN r /\ r[k + N] = ss[k]
  BY <1>1
<1>4. \A k \in DOMAIN r : k \in DOMAIN rs \/ (k - N \in DOMAIN ss /\ r[k] = ss[k - N])
  BY <1>1
<1>5. /\ \A j, k \in DOMAIN rs : rs[j].id = rs[k].id => j = k
      /\ \A j, k \in DOMAIN ss : ss[j].id = ss[k].id => j = k
      /\ \A i : (\E k \in DOMAIN rs : rs[k].id = i) <=> i \in A
      /\ \A i : (\E k \in DOMAIN ss : ss[k].id = i) <=> i \in B
      /\ \A k \in DOMAIN rs : rs[k].role = "tool"
      /\ \A k \in DOMAIN ss : ss[k].role = "tool"
  BY DEF Answers
<1>6. \A j, k \in DOMAIN r : j - N = k - N => j = k
  BY <1>2
<1> HIDE DEF r, N, M
<1>7. \A k \in DOMAIN r : r[k].role = "tool"
  BY <1>3, <1>4, <1>5
<1>8. \A i : (\E k \in DOMAIN r : r[k].id = i) <=> i \in A \cup B
  BY <1>3, <1>4, <1>5
<1>9. ASSUME NEW j \in DOMAIN r, NEW k \in DOMAIN r, r[j].id = r[k].id PROVE j = k
  <2>1. \A l \in DOMAIN rs : rs[l].id \in A /\ rs[l].id \notin B
    BY <1>5
  <2>2. \A l \in DOMAIN ss : ss[l].id \in B
    BY <1>5
  <2>3. CASE j \in DOMAIN rs /\ k \in DOMAIN rs
    BY <1>3, <1>5, <1>9, <2>3
  <2>4. CASE j \in DOMAIN rs /\ k \notin DOMAIN rs
    BY <1>3, <1>4, <1>9, <2>1, <2>2, <2>4
  <2>5. CASE j \notin DOMAIN rs /\ k \in DOMAIN rs
    BY <1>3, <1>4, <1>9, <2>1, <2>2, <2>5
  <2>6. CASE j \notin DOMAIN rs /\ k \notin DOMAIN rs
    BY <1>4, <1>5, <1>6, <1>9, <2>6
  <2> QED BY <2>3, <2>4, <2>5, <2>6
<1> QED BY <1>2, <1>7, <1>8, <1>9 DEF Answers, r

\* Closing a window makes a legal history.
LEMMA CloseShape ==
    ASSUME NEW w \in Window, Shape(w)
    PROVE  Close(w) \in Seq(Message) /\ Paired(Close(w))
<1> DEFINE open == Only(w.pending, Ids \ w.resolved)
           ph == [k \in DOMAIN open |-> Placeholder(open[k])]
<1>1. Close(w) = w.out \o ph
  BY DEF Close
<1>2. w.out \in Seq(Message) /\ w.pending \in Seq(Ids) /\ w.resolved \subseteq Ids
  BY DEF Window
<1>3. /\ open \in Seq(Ids) /\ (Distinct(w.pending) => Distinct(open))
      /\ \A x : In(open, x) <=> x \in Ids \ w.resolved /\ In(w.pending, x)
  <2>1. KeptOf(Ids, open, w.pending, Ids \ w.resolved, Len(w.pending))
    BY <1>2, OnlyFacts
  <2>2. DOMAIN w.pending = 1..Len(w.pending)
    BY <1>2
  <2> HIDE DEF open
  <2> QED BY <2>1, <2>2 DEF KeptOf, In
<1> HIDE DEF open
<1>4. CASE w.out = <<>> /\ w.pending = <<>>
  <2>1. DOMAIN open = {}
    <3>1. \A x : ~In(open, x)
      BY <1>3, <1>4 DEF In
    <3> QED BY <3>1 DEF In
  <2>2. ph = <<>>
    BY <2>1
  <2>3. Close(w) = <<>>
    BY <1>1, <1>4, <2>2
  <2>4. DOMAIN <<>> = {} /\ <<>> \in Seq(Message)
    OBVIOUS
  <2> QED BY <2>3, <2>4 DEF Paired
<1>5. ASSUME NEW q \in Seq(Message), NEW h \in Message, NEW rs \in Seq(Message),
             w.out = Append(q, h) \o rs, Paired(q), h.role # "tool",
             Answers(rs, w.resolved), Distinct(w.pending),
             \A i : In(w.pending, i) <=> In(h.calls, i),
             \A i \in w.resolved : In(w.pending, i)
      PROVE  Close(w) \in Seq(Message) /\ Paired(Close(w))
  <2> DEFINE B == {i \in Ids : In(open, i)}
  <2>1. Answers(ph, B)
    <3>1. open \in Seq(Ids) /\ Distinct(open)
      BY <1>3, <1>5
    <3> QED BY <3>1, PlaceholdersAnswer, Zenon
  <2>2. \A i \in w.resolved : i \notin B
    BY <1>3
  <2> HIDE DEF ph
  <2>3. Answers(rs \o ph, w.resolved \cup B)
    <3> HIDE DEF B
    <3> QED BY <1>5, <2>1, <2>2, AnswersConcat
  <2>4. w.resolved \cup B = ToSet(h.calls)
    <3>1. h.calls \in Seq(Ids)
      BY MessageFacts
    <3>2. \A i : i \in ToSet(h.calls) <=> In(h.calls, i)
      BY <3>1, CallIds
    <3>3. \A i : In(h.calls, i) => i \in Ids
      BY <3>1 DEF In
    <3>4. \A i : i \in B <=> i \in Ids /\ i \notin w.resolved /\ In(w.pending, i)
      BY <1>3
    <3> HIDE DEF B
    <3> QED BY <1>2, <1>5, <3>2, <3>3, <3>4
  <2>5. ph \in Seq(Message)
    BY <2>1 DEF Answers
  <2>6. Close(w) = Append(q, h) \o (rs \o ph)
    BY <1>1, <1>5, <2>5
  <2> HIDE DEF B
  <2>7. Answers(rs \o ph, ToSet(h.calls))
    BY <2>3, <2>4
  <2> QED BY <1>5, <2>6, <2>7, WindowPaired
<1> QED BY <1>4, <1>5 DEF Shape

\* One message leaves a window of the repair.
LEMMA StepShape ==
    ASSUME NEW w \in Window, Shape(w), NEW m \in Message
    PROVE  RepairStep(w, m) \in Window /\ Shape(RepairStep(w, m))
<1> DEFINE v == RepairStep(w, m)
<1>1. /\ w = [out |-> w.out, pending |-> w.pending, resolved |-> w.resolved]
      /\ w.out \in Seq(Message) /\ w.pending \in Seq(Ids) /\ w.resolved \subseteq Ids
  BY DEF Window
<1>2. m.calls \in Seq(Ids) /\ (m.role = "tool" => m.id \in Ids)
  BY MessageFacts
<1>3. CASE m.role # "tool"
  <2> DEFINE q == Close(w)
             u == Unique(m.calls)
  <2>1. v = [out |-> Append(q, m), pending |-> u, resolved |-> {}]
    BY <1>3 DEF RepairStep
  <2>2. q \in Seq(Message) /\ Paired(q)
    BY CloseShape
  <2>3. u \in Seq(Ids) /\ Distinct(u) /\ \A i : In(u, i) <=> In(m.calls, i)
    <3>1. Uniq(Ids, u, m.calls, Len(m.calls)) /\ DOMAIN m.calls = 1..Len(m.calls)
      BY <1>2, UniqueFacts
    <3> HIDE DEF u
    <3> QED BY <3>1 DEF Uniq, In
  <2> HIDE DEF q, u, v
  <2>4. /\ v.out = Append(q, m) /\ v.pending = u /\ v.resolved = {}
        /\ Append(q, m) \in Seq(Message)
    BY <2>1, <2>2
  <2>5. v \in Window
    BY <2>1, <2>3, <2>4 DEF Window
  <2> DEFINE rs == <<>>
  <2>6. rs \in Seq(Message) /\ v.out = Append(q, m) \o rs
    BY <2>2, <2>4
  <2>7. Answers(rs, v.resolved)
    BY <2>4, <2>6 DEF Answers
  <2>8. \A i \in v.resolved : In(v.pending, i)
    BY <2>4
  <2> HIDE DEF rs
  <2> QED BY <1>3, <2>2, <2>3, <2>4, <2>5, <2>6, <2>7, <2>8 DEF Shape, v
<1>4. CASE m.role = "tool" /\ Contains(w.pending, m.id) /\ m.id \notin w.resolved
  <2>1. v = [out |-> Append(w.out, m), pending |-> w.pending,
             resolved |-> w.resolved \cup {m.id}]
    BY <1>1, <1>4 DEF RepairStep
  <2> HIDE DEF v
  <2>2. /\ v.out = Append(w.out, m) /\ v.pending = w.pending
        /\ v.resolved = w.resolved \cup {m.id}
        /\ Append(w.out, m) \in Seq(Message) /\ w.resolved \cup {m.id} \subseteq Ids
    BY <1>1, <1>2, <1>4, <2>1
  <2>3. v \in Window
    BY <1>1, <2>1, <2>2 DEF Window
  <2>4. In(w.pending, m.id)
    BY <1>1, <1>4, CallIds
  <2>5. w.pending # <<>>
    BY <2>4 DEF In
  <2>6. PICK q \in Seq(Message), h \in Message, rs \in Seq(Message) :
          /\ w.out = Append(q, h) \o rs
          /\ Paired(q) /\ h.role # "tool"
          /\ Answers(rs, w.resolved)
          /\ Distinct(w.pending)
          /\ \A i : In(w.pending, i) <=> In(h.calls, i)
          /\ \A i \in w.resolved : In(w.pending, i)
    BY <2>5 DEF Shape
  <2> DEFINE ss == rs \o <<m>>
  <2>7. Answers(<<m>>, {m.id})
    <3>1. <<m>> \in Seq(Message) /\ DOMAIN <<m>> = {1} /\ <<m>>[1] = m
      OBVIOUS
    <3> QED BY <1>4, <3>1 DEF Answers
  <2>8. Answers(ss, v.resolved)
    <3>1. \A i \in w.resolved : i \notin {m.id}
      BY <1>4
    <3>2. Answers(rs, w.resolved)
      BY <2>6
    <3>3. Answers(ss, w.resolved \cup {m.id})
      BY <2>7, <3>1, <3>2, AnswersConcat, Zenon
    <3> QED BY <2>2, <3>3
  <2>9. ss \in Seq(Message) /\ v.out = Append(q, h) \o ss
    <3>1. Append(q, h) \in Seq(Message) /\ <<m>> \in Seq(Message) /\ ss \in Seq(Message)
      OBVIOUS
    <3>2. v.out = (Append(q, h) \o rs) \o <<m>>
      <4>1. Append(w.out, m) = w.out \o <<m>>
        BY <1>1, AppendIsConcat
      <4> QED BY <2>2, <2>6, <4>1
    <3>3. (Append(q, h) \o rs) \o <<m>> = Append(q, h) \o (rs \o <<m>>)
      BY <3>1, ConcatAssociative
    <3> QED BY <3>1, <3>2, <3>3
  <2> HIDE DEF ss
  <2>10. \A i \in v.resolved : In(v.pending, i)
    BY <2>2, <2>4, <2>6
  <2>11. Distinct(v.pending) /\ \A i : In(v.pending, i) <=> In(h.calls, i)
    BY <2>2, <2>6
  <2> QED BY <2>3, <2>6, <2>8, <2>9, <2>10, <2>11 DEF Shape, v
<1>5. CASE m.role = "tool" /\ ~(Contains(w.pending, m.id) /\ m.id \notin w.resolved)
  BY <1>5 DEF RepairStep
<1> QED BY <1>3, <1>4, <1>5

\* The state before the first message.
Start == [out |-> <<>>, pending |-> <<>>, resolved |-> {}]

\* The windows of the repair of ms: f[n] is the window after n messages.
Windows(ms, f) ==
    /\ f \in [0..Len(ms) -> Window] /\ f[0] = Start
    /\ \A n \in 1..Len(ms) : f[n] = RepairStep(f[n - 1], ms[n])
    /\ \A n \in 0..Len(ms) : Shape(f[n])
    /\ repair_pairing(ms) = Close(f[Len(ms)])

\* The repair goes through windows.
LEMMA RepairWindows ==
    ASSUME NEW ms \in Seq(Message)
    PROVE  \E f : Windows(ms, f)
<1> DEFINE L == Len(ms)
           G == {w \in Window : Shape(w)}
           Def(f) == [n \in 0..L |-> IF n = 0 THEN [out |-> <<>>, pending |-> <<>>, resolved |-> {}]
                                     ELSE RepairStep(f[n - 1], ms[n])]
           window == CHOOSE f : f = Def(f)
           step == [n \in 1..L |-> [w \in G |-> RepairStep(w, ms[n])]]
<1>1. L \in Nat /\ DOMAIN ms = 1..L /\ \A n \in 1..L : ms[n] \in Message
  OBVIOUS
<1>2. Start \in G
  <2>1. Start \in Window
    BY DEF Start, Window
  <2>2. Shape(Start)
    BY DEF Start, Shape
  <2> QED BY <2>1, <2>2
<1>3. \A n \in 1..L : \A w \in G : RepairStep(w, ms[n]) \in G
  BY <1>1, StepShape
<1>4. \A w \in G : w \in Window /\ Shape(w)
  OBVIOUS
<1> HIDE DEF G
<1>5. step \in [1..L -> [G -> G]]
  BY <1>3
<1>6. \A n \in 1..L : \A w \in G : step[n][w] = RepairStep(w, ms[n])
  OBVIOUS
<1>7. PICK g : Folds(g, G, Start, step, L)
  <2> HIDE DEF step, L
  <2> QED BY <1>1, <1>2, <1>5, FoldExists
<1> HIDE DEF step
<1>8. g \in [0..L -> G] /\ g[0] = Start
  BY <1>7 DEF Folds
<1>9. g = Def(g)
  <2>2. ASSUME NEW n \in 1..L PROVE g[n] = Def(g)[n]
    <3>1. n \in 0..L /\ n # 0 /\ n - 1 \in 0..L /\ g[n - 1] \in G
      BY <1>1, <1>8
    <3>2. g[n] = step[n][g[n - 1]]
      BY <1>7 DEF Folds
    <3> QED BY <1>6, <3>1, <3>2
  <2>3. g[0] = Def(g)[0]
    BY <1>1, <1>8 DEF Start
  <2>4. \A n \in 0..L : n = 0 \/ n \in 1..L
    BY <1>1
  <2> QED BY <1>8, <2>2, <2>3, <2>4
<1>10. window = Def(window)
  BY <1>9
<1>11. repair_pairing(ms) = Close(window[L])
  BY DEF repair_pairing
<1> HIDE DEF window
<1>12. window[0] = Start /\ \A n \in 1..L : window[n] = RepairStep(window[n - 1], ms[n])
  <2>1. 0 \in 0..L /\ \A n \in 1..L : n \in 0..L /\ n # 0
    BY <1>1
  <2> QED BY <1>10, <2>1 DEF Start
<1> DEFINE T == {n \in 0..L : window[n] \in G}
<1>13. 0 \in T
  BY <1>1, <1>2, <1>12
<1>14. ASSUME NEW n \in 0..(L - 1), n \in T PROVE n + 1 \in T
  <2>1. n + 1 \in 1..L /\ n + 1 \in 0..L /\ (n + 1) - 1 = n
    BY <1>1
  <2> QED BY <1>3, <1>12, <1>14, <2>1
<1>15. 0..L \subseteq T
  <2> HIDE DEF T, L
  <2> QED BY <1>1, <1>13, <1>14, UpTo
<1>16. \A n \in 0..L : window[n] \in G
  BY <1>15
<1>17. window \in [0..L -> Window] /\ \A n \in 0..L : Shape(window[n])
  <2>1. DOMAIN window = 0..L /\ window = [n \in 0..L |-> window[n]]
    BY <1>10
  <2> QED BY <1>4, <1>16, <2>1
<1> QED BY <1>11, <1>12, <1>17 DEF Windows

\* The repair makes a legal history of any history.
LEMMA RepairPaired ==
    ASSUME NEW ms \in Seq(Message)
    PROVE  repair_pairing(ms) \in Seq(Message) /\ Paired(repair_pairing(ms))
<1>1. PICK f : Windows(ms, f)
  BY RepairWindows
<1> DEFINE w == f[Len(ms)]
<1>2. Len(ms) \in 0..Len(ms)
  OBVIOUS
<1>3. w \in Window /\ Shape(w) /\ repair_pairing(ms) = Close(w)
  BY <1>1, <1>2 DEF Windows
<1> QED BY <1>3, CloseShape

-----------------------------------------------------------------------------
(* A legal history is its own repair.                                      *)

\* After n messages message a is the one that opened the window, and its
\* results so far are the resolved ids.
Opened(ms, w, n, a) ==
    /\ ms[a].role # "tool"
    /\ \A j \in (a + 1)..n : ms[j].role = "tool"
    /\ \A i : In(w.pending, i) <=> In(ms[a].calls, i)
    /\ \A i : i \in w.resolved <=> \E k \in (a + 1)..n : ms[k].id = i

\* After n messages of a legal history nothing was dropped or made up.
Copied(ms, w, n) ==
    /\ Len(w.out) = n /\ \A k \in 1..n : w.out[k] = ms[k]
    /\ \/ n = 0 /\ w = Start
       \/ \E a \in 1..n : Opened(ms, w, n, a)

\* A window that ends in a legal history has no call open.
LEMMA NothingOpen ==
    ASSUME NEW ms \in Seq(Message), Paired(ms), NEW w \in Window,
           NEW n \in 0..Len(ms), Copied(ms, w, n),
           n = Len(ms) \/ ms[n + 1].role # "tool"
    PROVE  Close(w) = w.out /\ \A x : In(w.pending, x) => x \in w.resolved
<1> DEFINE open == Only(w.pending, Ids \ w.resolved)
           ph == [k \in DOMAIN open |-> Placeholder(open[k])]
<1>1. Close(w) = w.out \o ph
  BY DEF Close
<1>2. w.out \in Seq(Message) /\ w.pending \in Seq(Ids)
  BY DEF Window
<1>3. \A x : In(open, x) <=> x \in Ids \ w.resolved /\ In(w.pending, x)
  <2>1. KeptOf(Ids, open, w.pending, Ids \ w.resolved, Len(w.pending))
    BY <1>2, OnlyFacts
  <2>2. DOMAIN w.pending = 1..Len(w.pending)
    BY <1>2
  <2> HIDE DEF open
  <2> QED BY <2>1, <2>2 DEF KeptOf, In
<1> HIDE DEF open
<1>4. ASSUME NEW x, In(w.pending, x) PROVE x \in w.resolved
  <2>1. w # Start
    <3>1. In(w.pending, x) => w.pending # <<>>
      BY DEF In
    <3> QED BY <1>4, <3>1 DEF Start
  <2>2. PICK a \in 1..n : Opened(ms, w, n, a)
    BY <2>1 DEF Copied
  <2>3. a \in DOMAIN ms /\ ms[a] \in Message /\ Len(ms) \in Nat /\ DOMAIN ms = 1..Len(ms)
    OBVIOUS
  <2>4. x \in ToSet(ms[a].calls)
    <3>1. ms[a].calls \in Seq(Ids) /\ In(ms[a].calls, x)
      BY <1>4, <2>2, <2>3, MessageFacts DEF Opened
    <3> QED BY <3>1, CallIds
  <2> DEFINE K == {k \in DOMAIN ms : InWindow(ms, a, k) /\ ms[k].id = x}
  <2>5. Cardinality(K) = 1
    BY <2>3, <2>4 DEF Paired
  <2>6. K # {}
    <3> SUFFICES ASSUME K = {} PROVE FALSE
      OBVIOUS
    <3> HIDE DEF K
    <3>1. Cardinality(K) = 0
      BY FS_EmptySet, Zenon
    <3> QED BY <2>5, <3>1
  <2>7. PICK k \in DOMAIN ms : InWindow(ms, a, k) /\ ms[k].id = x
    BY <2>6
  <2>8. k \in Nat /\ n \in Nat /\ a \in Nat /\ a <= n /\ k <= Len(ms) /\ a < k
    <3>1. k \in 1..Len(ms)
      BY <2>3
    <3>2. a < k
      BY <2>7 DEF InWindow
    <3>3. Len(ms) \in Nat
      BY <2>3
    <3>4. n \in Nat
      BY <3>3
    <3>5. a \in Nat /\ a <= n
      BY <3>4
    <3> QED BY <3>1, <3>2, <3>3, <3>4, <3>5
  <2>9. ~(k > n)
    <3> SUFFICES ASSUME k > n PROVE FALSE
      OBVIOUS
    <3>1. n # Len(ms)
      BY <2>8
    <3>2. n + 1 \in (a + 1)..k
      BY <2>8
    <3> QED BY <2>7, <3>1, <3>2 DEF InWindow
  <2>10. k \in (a + 1)..n
    BY <2>8, <2>9
  <2> QED BY <2>2, <2>7, <2>10 DEF Opened
<1>5. DOMAIN open = {}
  <2>1. \A x : ~In(open, x)
    BY <1>3, <1>4
  <2> QED BY <2>1 DEF In
<1>6. ph = <<>>
  BY <1>5
<1>7. Close(w) = w.out
  BY <1>1, <1>2, <1>6
<1> QED BY <1>4, <1>7

\* One message of a legal history is copied.
LEMMA CopyStep ==
    ASSUME NEW ms \in Seq(Message), Paired(ms), NEW w \in Window,
           NEW n \in 0..(Len(ms) - 1), Copied(ms, w, n)
    PROVE  Copied(ms, RepairStep(w, ms[n + 1]), n + 1)
<1> DEFINE m == ms[n + 1]
           v == RepairStep(w, m)
           L == Len(ms)
<1>1. /\ L \in Nat /\ DOMAIN ms = 1..L /\ n \in Nat /\ n \in 0..L
      /\ n + 1 \in 1..L /\ m \in Message /\ (n + 1) + 1 = n + 2
  OBVIOUS
<1>2. /\ w = [out |-> w.out, pending |-> w.pending, resolved |-> w.resolved]
      /\ w.out \in Seq(Message) /\ w.pending \in Seq(Ids) /\ w.resolved \subseteq Ids
  BY DEF Window
<1>3. Len(w.out) = n /\ \A k \in 1..n : w.out[k] = ms[k]
  BY DEF Copied
<1>4. /\ Len(Append(w.out, m)) = n + 1
      /\ \A k \in 1..(n + 1) : Append(w.out, m)[k] = ms[k]
  <2>1. /\ Len(Append(w.out, m)) = n + 1 /\ Append(w.out, m)[n + 1] = m
        /\ \A k \in 1..n : Append(w.out, m)[k] = w.out[k]
    BY <1>1, <1>2, <1>3
  <2>2. \A k \in 1..(n + 1) : k \in 1..n \/ k = n + 1
    BY <1>1
  <2> QED BY <1>3, <2>1, <2>2
<1>5. CASE m.role # "tool"
  <2> DEFINE u == Unique(m.calls)
  <2>1. Close(w) = w.out
    BY <1>1, <1>5, NothingOpen
  <2>2. v = [out |-> Append(w.out, m), pending |-> u, resolved |-> {}]
    BY <1>5, <2>1 DEF RepairStep
  <2>3. \A i : In(u, i) <=> In(m.calls, i)
    <3>1. m.calls \in Seq(Ids)
      BY <1>1, MessageFacts
    <3>2. Uniq(Ids, u, m.calls, Len(m.calls)) /\ DOMAIN m.calls = 1..Len(m.calls)
      BY <3>1, UniqueFacts
    <3> HIDE DEF u
    <3> QED BY <3>2 DEF Uniq, In
  <2> HIDE DEF u, v
  <2>4. v.out = Append(w.out, m) /\ v.pending = u /\ v.resolved = {}
    BY <2>2
  <2>5. n + 1 \in 1..(n + 1) /\ (\A j \in ((n + 1) + 1)..(n + 1) : FALSE)
    BY <1>1
  <2>6. /\ ms[n + 1].role # "tool"
        /\ \A j \in ((n + 1) + 1)..(n + 1) : ms[j].role = "tool"
        /\ \A i : In(v.pending, i) <=> In(ms[n + 1].calls, i)
        /\ \A i : i \in v.resolved <=> \E k \in ((n + 1) + 1)..(n + 1) : ms[k].id = i
    BY <1>5, <2>3, <2>4, <2>5
  <2>7. Opened(ms, v, n + 1, n + 1)
    BY <2>6 DEF Opened
  <2>8. Len(v.out) = n + 1 /\ \A k \in 1..(n + 1) : v.out[k] = ms[k]
    BY <1>4, <2>4
  <2>9. Copied(ms, v, n + 1)
    BY <2>5, <2>7, <2>8 DEF Copied
  <2> QED BY <2>9 DEF v
<1>6. CASE m.role = "tool"
  <2>1. PICK b \in DOMAIN ms : InWindow(ms, b, n + 1) /\ Contains(ms[b].calls, m.id)
    BY <1>1, <1>6 DEF Paired
  <2>2. b \in 1..n /\ \A j \in (b + 1)..(n + 1) : ms[j].role = "tool"
    BY <1>1, <2>1 DEF InWindow
  <2>3. ms[b] \in Message /\ ms[b].calls \in Seq(Ids) /\ In(ms[b].calls, m.id)
    <3>1. ms[b] \in Message
      BY <2>1
    <3>2. ms[b].calls \in Seq(Ids)
      BY <3>1, MessageFacts
    <3> QED BY <2>1, <3>1, <3>2, CallIds
  <2>4. ms[b].role # "tool"
    <3>1. ms[b].calls # <<>>
      BY <2>3 DEF In
    <3> QED BY <2>3, <3>1, MessageFacts
  <2>5. n # 0
    BY <2>2
  <2>6. PICK a \in 1..n :
             /\ Opened(ms, w, n, a)
             /\ ms[a].role # "tool"
             /\ \A j \in (a + 1)..n : ms[j].role = "tool"
             /\ \A i : In(w.pending, i) <=> In(ms[a].calls, i)
             /\ \A i : i \in w.resolved <=> \E k \in (a + 1)..n : ms[k].id = i
    BY <2>5 DEF Copied, Opened
  <2>7. a = b
    <3>1. ~(a < b)
      <4> SUFFICES ASSUME a < b PROVE FALSE
        OBVIOUS
      <4>1. b \in (a + 1)..n
        BY <2>2
      <4> QED BY <2>4, <2>6, <4>1
    <3>2. ~(b < a)
      <4> SUFFICES ASSUME b < a PROVE FALSE
        OBVIOUS
      <4>1. a \in (b + 1)..(n + 1)
        BY <2>2, <2>6
      <4> QED BY <2>2, <2>6, <4>1
    <3> QED BY <2>2, <2>6, <3>1, <3>2
  <2>8. Contains(w.pending, m.id)
    BY <1>2, <2>3, <2>6, <2>7, CallIds
  <2>9. m.id \notin w.resolved
    <3> SUFFICES ASSUME m.id \in w.resolved PROVE FALSE
      OBVIOUS
    <3>1. PICK k \in (a + 1)..n : ms[k].id = m.id
      BY <2>6
    <3> DEFINE K == {j \in DOMAIN ms : InWindow(ms, a, j) /\ ms[j].id = m.id}
    <3>2. Cardinality(K) = 1
      <4>1. m.id \in ToSet(ms[a].calls)
        BY <2>3, <2>7, CallIds
      <4> QED BY <2>1, <2>7, <4>1 DEF Paired
    <3>3. n + 1 \in K
      BY <1>1, <2>1, <2>7
    <3>4. k \in K
      <4>1. k \in DOMAIN ms /\ a < k /\ \A j \in (a + 1)..k : j \in (a + 1)..n
        BY <1>1, <2>6
      <4>2. InWindow(ms, a, k)
        BY <2>6, <4>1 DEF InWindow
      <4> QED BY <3>1, <4>1, <4>2
    <3>5. K \subseteq 1..L
      BY <1>1
    <3>6. k # n + 1
      BY <1>1, <3>1
    <3>7. IsFiniteSet(1..L)
      BY <1>1, FS_Interval
    <3> HIDE DEF K
    <3>8. IsFiniteSet(K)
      BY <3>5, <3>7, FS_Subset
    <3>9. PICK x : K = {x}
      BY <3>2, <3>8, FS_Singleton
    <3> QED BY <3>3, <3>4, <3>6, <3>9
  <2>10. v = [out |-> Append(w.out, m), pending |-> w.pending,
              resolved |-> w.resolved \cup {m.id}]
    BY <1>2, <1>6, <2>8, <2>9 DEF RepairStep
  <2> HIDE DEF v
  <2>11. /\ v.out = Append(w.out, m) /\ v.pending = w.pending
         /\ v.resolved = w.resolved \cup {m.id}
    BY <2>10
  <2>12. /\ a \in 1..(n + 1) /\ n + 1 \in (a + 1)..(n + 1)
         /\ \A j \in (a + 1)..(n + 1) : j \in (a + 1)..n \/ j = n + 1
         /\ (a + 1)..n \subseteq (a + 1)..(n + 1)
    BY <1>1
  <2>13. \A i : i \in v.resolved <=> \E k \in (a + 1)..(n + 1) : ms[k].id = i
    BY <2>6, <2>11, <2>12
  <2>14. \A j \in (a + 1)..(n + 1) : ms[j].role = "tool"
    BY <1>6, <2>6, <2>12
  <2>15. Opened(ms, v, n + 1, a)
    BY <2>6, <2>11, <2>13, <2>14 DEF Opened
  <2>16. Len(v.out) = n + 1 /\ \A k \in 1..(n + 1) : v.out[k] = ms[k]
    BY <1>4, <2>11
  <2>17. Copied(ms, v, n + 1)
    BY <2>12, <2>15, <2>16 DEF Copied
  <2> QED BY <2>17 DEF v
<1> QED BY <1>5, <1>6

\* Every window of a legal history is a copy.
LEMMA AllCopied ==
    ASSUME NEW ms \in Seq(Message), Paired(ms), NEW f, Windows(ms, f)
    PROVE  \A n \in 0..Len(ms) : f[n] \in Window /\ Copied(ms, f[n], n)
<1> DEFINE L == Len(ms)
<1>1. /\ L \in Nat /\ 0 \in 0..L
      /\ (\A n \in 0..L : f[n] \in Window) /\ f[0] = Start
      /\ \A n \in 1..L : f[n] = RepairStep(f[n - 1], ms[n])
  BY DEF Windows
<1> DEFINE T == {n \in 0..L : Copied(ms, f[n], n)}
<1>2. Copied(ms, f[0], 0)
  <2>1. Start.out = <<>> /\ Len(<<>>) = 0 /\ \A k \in 1..0 : FALSE
    BY DEF Start
  <2> QED BY <1>1, <2>1 DEF Copied
<1>3. 0 \in T
  BY <1>1, <1>2
<1>4. ASSUME NEW n \in 0..(L - 1), n \in T PROVE n + 1 \in T
  <2>1. n + 1 \in 1..L /\ n + 1 \in 0..L /\ (n + 1) - 1 = n /\ n \in 0..L
    BY <1>1
  <2>2. f[n + 1] = RepairStep(f[n], ms[n + 1])
    BY <1>1, <2>1
  <2>3. f[n] \in Window /\ Copied(ms, f[n], n)
    BY <1>1, <1>4, <2>1
  <2>4. Copied(ms, f[n + 1], n + 1)
    BY <2>2, <2>3, CopyStep
  <2> QED BY <2>1, <2>4
<1>5. 0..L \subseteq T
  <2> HIDE DEF T, L
  <2> QED BY <1>1, <1>3, <1>4, UpTo
<1> QED BY <1>1, <1>5

\* The repair leaves a legal history alone.
LEMMA RepairExactLemma ==
    ASSUME NEW ms \in Seq(Message), Paired(ms)
    PROVE  repair_pairing(ms) = ms
<1> DEFINE L == Len(ms)
<1>1. PICK f : Windows(ms, f)
  BY RepairWindows
<1>2. L \in 0..L /\ repair_pairing(ms) = Close(f[L])
  BY <1>1 DEF Windows
<1>3. f[L] \in Window /\ Copied(ms, f[L], L)
  BY <1>1, <1>2, AllCopied
<1>4. Close(f[L]) = f[L].out
  BY <1>2, <1>3, NothingOpen
<1>5. f[L].out \in Seq(Message) /\ Len(f[L].out) = L /\ \A k \in 1..L : f[L].out[k] = ms[k]
  BY <1>3 DEF Window, Copied
<1>6. f[L].out = ms
  BY <1>5, SeqEqual
<1> QED BY <1>2, <1>4, <1>6

-----------------------------------------------------------------------------
(* What is stored.                                                         *)

\* What the turns push are messages.
LEMMA Pushed ==
    ASSUME NEW t \in 0..MaxTags
    PROVE  /\ User(t) \in Message /\ Synthetic(t) \in Message
           /\ \A c \in Seq(Ids) : Assistant(c, t) \in Message
           /\ \A i \in Ids : Result(i, t) \in Message
<1>1. <<>> \in Seq(Ids) /\ Roles = {"system", "user", "assistant", "tool"}
  BY DEF Roles
<1>2. ASSUME NEW role \in Roles, NEW c \in Seq(Ids), NEW i \in Ids \cup {0},
             NEW real \in BOOLEAN, NEW size \in Nat,
             (role = "tool") <=> (i # 0), c # <<>> => role = "assistant",
             real => role = "user"
      PROVE  Msg(role, c, i, real, FALSE, size, t) \in Message
  <2> DEFINE m == Msg(role, c, i, real, FALSE, size, t)
  <2>1. m.role = role /\ m.calls = c /\ m.id = i /\ m.real = real /\ ~m.pin
    BY DEF Msg
  <2>2. m \in Fields
    BY DEF Msg, Fields
  <2> HIDE DEF m
  <2> QED BY <1>2, <2>1, <2>2 DEF Message, m
<1>3. User(t) \in Message
  BY <1>1, ConversationAssumption DEF User, Message, Msg, Fields
<1>4. Synthetic(t) \in Message
  BY <1>1, ConversationAssumption DEF Synthetic, Message, Msg, Fields
<1>5. ASSUME NEW c \in Seq(Ids) PROVE Assistant(c, t) \in Message
  BY <1>1, <1>2 DEF Assistant
<1>6. ASSUME NEW i \in Ids PROVE Result(i, t) \in Message
  <2>1. i # 0
    BY ConversationAssumption
  <2> QED BY <1>1, <1>2, <2>1 DEF Result
<1> QED BY <1>3, <1>4, <1>5, <1>6

\* A backfilled history has only messages, and the new ones are made up.
LEMMA BackfillType ==
    ASSUME NEW ms \in Seq(Message)
    PROVE  /\ Backfill(ms) \in Seq(Message)
           /\ \E ph \in Seq(Message) : /\ Backfill(ms) = ms \o ph
                                       /\ \A k \in DOMAIN ph : ph[k].tag = 0
<1> DEFINE L == Len(ms)
           Def(f) == [n \in 0..L |-> IF n = 0 THEN <<>> ELSE f[n - 1] \o ms[n].calls]
           calls == CHOOSE f : f = Def(f)
           step == [n \in 1..L |-> [c \in Seq(Ids) |-> c \o ms[n].calls]]
<1>1. L \in Nat /\ (\A n \in 1..L : ms[n] \in Message) /\ <<>> \in Seq(Ids)
  OBVIOUS
<1>2. \A n \in 1..L : ms[n].calls \in Seq(Ids)
  BY <1>1, MessageFacts
<1>3. step \in [1..L -> [Seq(Ids) -> Seq(Ids)]]
  BY <1>2
<1>4. \A n \in 1..L : \A c \in Seq(Ids) : step[n][c] = c \o ms[n].calls
  OBVIOUS
<1> HIDE DEF step
<1>5. PICK g : Folds(g, Seq(Ids), <<>>, step, L)
  <2> HIDE DEF L
  <2> QED BY <1>1, <1>3, FoldExists
<1>6. g \in [0..L -> Seq(Ids)] /\ g[0] = <<>>
  BY <1>5 DEF Folds
<1>7. g = Def(g)
  <2>1. ASSUME NEW n \in 1..L PROVE g[n] = Def(g)[n]
    <3>0. n \in 0..L /\ n # 0 /\ n - 1 \in 0..L
      BY <1>1
    <3>1. g[n - 1] \in Seq(Ids)
      BY <1>6, <3>0
    <3>2. g[n] = step[n][g[n - 1]]
      BY <1>5 DEF Folds
    <3> QED BY <1>4, <3>0, <3>1, <3>2
  <2>2. g[0] = Def(g)[0]
    BY <1>1, <1>6
  <2>3. \A n \in 0..L : n = 0 \/ n \in 1..L
    BY <1>1
  <2> QED BY <1>6, <2>1, <2>2, <2>3
<1>8. calls = Def(calls)
  BY <1>7
<1> DEFINE missing == Only(Unique(calls[L]), Ids \ ResultIds(ms))
           ph == [k \in DOMAIN missing |-> Placeholder(missing[k])]
<1>9. Backfill(ms) = ms \o ph
  BY DEF Backfill, Missing
<1> HIDE DEF calls
<1>10. calls[0] = <<>> /\ \A n \in 1..L : calls[n] = calls[n - 1] \o ms[n].calls
  <2>1. 0 \in 0..L /\ \A n \in 1..L : n \in 0..L /\ n # 0
    BY <1>1
  <2> QED BY <1>8, <2>1
<1> DEFINE T == {n \in 0..L : calls[n] \in Seq(Ids)}
<1>11. 0 \in T
  <2>1. 0 \in 0..L /\ calls[0] \in Seq(Ids)
    BY <1>1, <1>10
  <2> QED BY <2>1
<1>12. ASSUME NEW n \in 0..(L - 1), n \in T PROVE n + 1 \in T
  <2>1. n + 1 \in 1..L /\ n + 1 \in 0..L /\ (n + 1) - 1 = n
    BY <1>1
  <2>2. calls[n] \in Seq(Ids) /\ ms[n + 1].calls \in Seq(Ids)
    BY <1>2, <1>12, <2>1
  <2>3. calls[n + 1] = calls[n] \o ms[n + 1].calls
    BY <1>10, <2>1
  <2>4. calls[n + 1] \in Seq(Ids)
    BY <2>2, <2>3
  <2> QED BY <2>1, <2>4
<1>13. 0..L \subseteq T
  <2> HIDE DEF T, L
  <2> QED BY <1>1, <1>11, <1>12, UpTo
<1>14. calls[L] \in Seq(Ids)
  BY <1>1, <1>13
<1>15. Unique(calls[L]) \in Seq(Ids)
  BY <1>14, UniqueFacts DEF Uniq
<1>16. missing \in Seq(Ids)
  BY <1>15, OnlyFacts DEF KeptOf
<1> HIDE DEF missing
<1>17. ph \in Seq(Message)
  <2>1. /\ Len(missing) \in Nat /\ DOMAIN missing = 1..Len(missing)
        /\ \A k \in 1..Len(missing) : missing[k] \in Ids
    BY <1>16
  <2>2. ph = [k \in 1..Len(missing) |-> Placeholder(missing[k])]
    BY <2>1
  <2>3. \A k \in 1..Len(missing) : Placeholder(missing[k]) \in Message
    BY <2>1, MessageFacts
  <2> HIDE DEF ph
  <2> QED BY <2>1, <2>2, <2>3, IsASeq
<1>18. \A k \in DOMAIN ph : ph[k].tag = 0
  BY DEF Placeholder, Msg
<1> HIDE DEF ph
<1> QED BY <1>9, <1>17, <1>18

\* A part of a sequence.
LEMMA Part ==
    ASSUME NEW S, NEW s \in Seq(S), NEW a \in Nat, NEW b \in 0..Len(s)
    PROVE  /\ SubSeq(s, a + 1, b) \in Seq(S)
           /\ Len(SubSeq(s, a + 1, b)) = IF a < b THEN b - a ELSE 0
           /\ \A k \in 1..(b - a) : SubSeq(s, a + 1, b)[k] = s[a + k]
<1>1. Len(s) \in Nat /\ (a + 1) \in Int /\ b \in Int /\ b \in Nat
  OBVIOUS
<1>2. \A i \in (a + 1)..b : s[i] \in S
  BY <1>1
<1>3. /\ SubSeq(s, a + 1, b) \in Seq(S)
      /\ Len(SubSeq(s, a + 1, b)) = IF a + 1 <= b THEN b - (a + 1) + 1 ELSE 0
      /\ \A i \in 1 .. b - (a + 1) + 1 : SubSeq(s, a + 1, b)[i] = s[(a + 1) + i - 1]
  BY <1>1, <1>2, SubSeqProperties
<1>4. \A k \in 1..(b - a) : k \in 1 .. b - (a + 1) + 1 /\ (a + 1) + k - 1 = a + k
  BY <1>1
<1>5. (IF a + 1 <= b THEN b - (a + 1) + 1 ELSE 0) = IF a < b THEN b - a ELSE 0
  BY <1>1
<1> QED BY <1>3, <1>4, <1>5

\* The protected prefix ends at the first prompt, or has at most one message.
LEMMA FloorType ==
    ASSUME NEW ms \in Seq(Message)
    PROVE  /\ sacred_floor(ms) \in Nat
           /\ \A k \in DOMAIN ms : ms[k].real =>
                 /\ sacred_floor(ms) \in DOMAIN ms /\ ms[sacred_floor(ms)].real
                 /\ sacred_floor(ms) <= k
<1> DEFINE real == {k \in DOMAIN ms : ms[k].real}
<1>1. DOMAIN ms \subseteq Nat
  OBVIOUS
<1>2. real \subseteq Nat
  BY <1>1
<1>3. ASSUME real # {}
      PROVE  sacred_floor(ms) \in real /\ \A j \in real : sacred_floor(ms) <= j
  <2>0. sacred_floor(ms) = CHOOSE k \in real : \A j \in real : k <= j
    BY <1>3 DEF sacred_floor
  <2> HIDE DEF real
  <2>1. PICK m \in real : \A k \in real : ~(<<k, m>> \in LessThan)
    BY <1>2, <1>3, LessThanWellFounded, WFMin
  <2>2. \A k \in real : m <= k
    <3>1. \A k \in real : k \in Nat /\ m \in Nat
      BY <1>2
    <3>2. \A k \in real : ~(k < m)
      BY <2>1, <3>1 DEF LessThan
    <3> QED BY <3>1, <3>2
  <2> QED BY <2>0, <2>2
<1>4. ASSUME real = {} PROVE sacred_floor(ms) \in Nat
  BY <1>4 DEF sacred_floor
<1>5. sacred_floor(ms) \in Nat
  BY <1>2, <1>3, <1>4
<1>6. ASSUME NEW k \in DOMAIN ms, ms[k].real
      PROVE  /\ sacred_floor(ms) \in DOMAIN ms /\ ms[sacred_floor(ms)].real
             /\ sacred_floor(ms) <= k
  <2>1. k \in real
    BY <1>6
  <2>2. sacred_floor(ms) \in real /\ \A j \in real : sacred_floor(ms) <= j
    BY <1>3, <2>1
  <2> QED BY <2>1, <2>2
<1> QED BY <1>5, <1>6

\* The drained range.
LEMMA DrainType ==
    ASSUME NEW ms \in Seq(Message), NEW plan \in Plans(Len(ms)), NEW floor \in Nat
    PROVE  LET d == Drain(ms, plan, floor) IN
           /\ d.from \in 0..Len(ms) /\ d.to \in 0..Len(ms) /\ d.from <= d.to
           /\ floor <= Len(ms) => floor <= d.from
<1>1. plan.from \in 0..Len(ms) /\ plan.to \in 0..Len(ms) /\ Len(ms) \in Nat
  BY DEF Plans
<1> DEFINE n == Len(ms)
           from == Min2(Max2(plan.from, Min2(floor, n)), n)
           to == Min2(plan.to, n)
<1>2. from \in 0..n /\ to \in 0..n /\ (floor <= n => floor <= from)
  BY <1>1 DEF Min2, Max2
<1>3. Drain(ms, plan, floor) = [from |-> from, to |-> IF from >= to THEN from ELSE to]
  BY DEF Drain
<1> HIDE DEF from, to
<1>4. /\ Drain(ms, plan, floor).from = from
      /\ Drain(ms, plan, floor).to = IF from >= to THEN from ELSE to
  BY <1>3
<1> QED BY <1>1, <1>2, <1>4

\* The candidate of a plan has only messages, and is legal.
LEMMA CandidateType ==
    ASSUME NEW ms \in Seq(Message), NEW plan \in Plans(Len(ms)), NEW floor \in Nat
    PROVE  Candidate(ms, plan, floor) \in Seq(Message) /\ Paired(Candidate(ms, plan, floor))
<1> DEFINE d == Drain(ms, plan, floor)
           drained == SubSeq(ms, d.from + 1, d.to)
           one == <<Synthetic(0)>>
           note == IF plan.note THEN one ELSE <<>>
           sum == IF plan.summary THEN one ELSE <<>>
           head == SubSeq(ms, 1, d.from)
           tail == SubSeq(ms, d.to + 1, Len(ms))
           kept == head \o sum \o Retained(ms, d) \o tail
           rewritten == IF Rewritable(ms, plan, d, floor)
                        THEN Stub(kept, Target(ms, plan, d) + 1) ELSE kept
<1>1. Candidate(ms, plan, floor) = repair_pairing(rewritten \o note)
  BY DEF Candidate
<1>2. d.from \in 0..Len(ms) /\ d.to \in 0..Len(ms) /\ Len(ms) \in Nat
  BY DrainType
<1> HIDE DEF d
<1>3. head \in Seq(Message) /\ drained \in Seq(Message) /\ tail \in Seq(Message)
  <2>1. d.from \in Nat /\ d.to \in Nat /\ Len(ms) \in 0..Len(ms) /\ 0 \in Nat /\ 0 + 1 = 1
    BY <1>2
  <2> QED BY <1>2, <2>1, Part
<1>4. Synthetic(0) \in Message
  BY Pushed, ConversationAssumption
<1>5. one \in Seq(Message) /\ <<>> \in Seq(Message)
  BY <1>4
<1> HIDE DEF one
<1>6. note \in Seq(Message) /\ sum \in Seq(Message)
  BY <1>5
<1>7. Retained(ms, d) \in Seq(Message)
  BY <1>3, OnlyFacts DEF Retained, KeptOf
<1> HIDE DEF note, sum, head, tail
<1>8. kept \in Seq(Message)
  BY <1>3, <1>6, <1>7
<1> HIDE DEF kept
<1>9. ASSUME NEW k PROVE Stub(kept, k) \in Seq(Message)
  <2>1. CASE k \notin DOMAIN kept
    BY <1>8, <2>1 DEF Stub
  <2>2. CASE k \in DOMAIN kept
    <3> DEFINE m == [kept[k] EXCEPT !.size = 0]
               s == [kept EXCEPT ![k] = m]
    <3>1. Stub(kept, k) = s
      BY <2>2 DEF Stub
    <3>2. kept[k] \in Message
      BY <1>8, <2>2
    <3>3. /\ m \in Fields /\ m.role = kept[k].role /\ m.id = kept[k].id /\ m.calls = kept[k].calls
          /\ m.real = kept[k].real /\ m.pin = kept[k].pin
      BY <3>2 DEF Message, Fields
    <3>4. m \in Message
      <4> HIDE DEF m
      <4> QED BY <3>2, <3>3 DEF Message
    <3> HIDE DEF m
    <3>5. s \in Seq(Message)
      BY <1>8, <2>2, <3>4
    <3> QED BY <3>1, <3>5
  <2> QED BY <2>1, <2>2
<1>10. rewritten \in Seq(Message)
  BY <1>8, <1>9
<1> HIDE DEF rewritten
<1>11. rewritten \o note \in Seq(Message)
  BY <1>6, <1>10
<1> QED BY <1>1, <1>11, RepairPaired

-----------------------------------------------------------------------------
(* The theorems.                                                           *)

\* The inductive invariant.  Legality needs no history of its own: the request
\* is the repair of the stored messages, which is legal for messages in any
\* order, so the types of what is stored are all that must be carried along.
IInv == TypeOK /\ WireLegal

\* Initially no request was sent and the snapshot is repaired.
LEMMA InitInv == Init => IInv
<1> SUFFICES ASSUME Init PROVE IInv
  OBVIOUS
<1>1. PICK s \in Snapshots : msgs = repair_pairing(s.msgs) /\ epoch = s.epoch /\ tags = s.tags
  BY DEF Init
<1>2. s.msgs \in Seq(Message) /\ s.epoch \in 0..MaxEpoch /\ s.tags \in 0..MaxTags
  BY ConversationAssumption
<1>3. msgs \in Seq(Message)
  BY <1>1, <1>2, RepairPaired
<1>4. <<>> \in Seq(Message) /\ <<>> \in Seq(Ids)
  OBVIOUS
<1> QED BY <1>1, <1>2, <1>3, <1>4 DEF Init, IInv, TypeOK, WireLegal

\* Pushing messages.
LEMMA PushType ==
    ASSUME TypeOK, NEW ms \in Seq(Message), Push(ms)
    PROVE  msgs' \in Seq(Message) /\ tags' \in 0..MaxTags
<1>1. msgs \in Seq(Message) /\ tags \in Nat /\ MaxTags \in Nat /\ Len(ms) \in Nat
  BY ConversationAssumption DEF TypeOK
<1> QED BY <1>1 DEF Push

\* Every step keeps the types and the legality of what was sent.
LEMMA NextInv == IInv /\ [Next]_vars => IInv'
<1> SUFFICES ASSUME IInv, [Next]_vars PROVE IInv'
  OBVIOUS
<1> USE DEF IInv
<1>1. /\ msgs \in Seq(Message) /\ wire \in Seq(Message) /\ todo \in Seq(Ids)
      /\ epoch \in 0..MaxEpoch /\ tags \in 0..MaxTags /\ rollback \in Nat
      /\ phase \in {"idle", "running", "sent", "batch", "answered"}
      /\ (todo # <<>>) <=> (phase = "batch")
  BY DEF TypeOK
<1>2. MaxTags \in Nat /\ MaxEpoch \in Nat /\ tags \in Nat /\ epoch \in Nat
  BY <1>1, ConversationAssumption
<1>3. Len(msgs) \in Nat /\ <<>> \in Seq(Message) /\ <<>> \in Seq(Ids)
  BY <1>1
<1>4. ASSUME NEW t \in Nat, t <= MaxTags
      PROVE  /\ t \in 0..MaxTags /\ User(t) \in Message /\ Synthetic(t) \in Message
             /\ \A c \in Seq(Ids) : Assistant(c, t) \in Message
             /\ \A i \in Ids : Result(i, t) \in Message
  <2>1. t \in 0..MaxTags
    BY <1>2, <1>4
  <2> QED BY <2>1, Pushed
<1>5. ASSUME NEW real \in BOOLEAN, NEW context \in BOOLEAN, Submit(real, context)
      PROVE  IInv'
  <2> DEFINE ctx == IF context THEN <<Synthetic(tags + 1)>> ELSE <<>>
             t == tags + Len(ctx) + 1
             m == IF real THEN User(t) ELSE Synthetic(t)
             ms == Append(ctx, m)
  <2>1. /\ phase = "idle" /\ rollback' = Len(msgs) /\ Push(ms) /\ phase' = "running"
        /\ UNCHANGED <<epoch, todo, wire>>
    BY <1>5 DEF Submit
  <2>2. /\ Len(ctx) = IF context THEN 1 ELSE 0
        /\ Len(ms) = Len(ctx) + 1
    OBVIOUS
  <2>3. t \in Nat /\ t <= MaxTags /\ (context => tags + 1 \in Nat /\ tags + 1 <= MaxTags)
    BY <1>2, <2>1, <2>2 DEF Push
  <2>4. m \in Message
    BY <1>4, <2>3
  <2>5. ctx \in Seq(Message)
    BY <1>3, <1>4, <2>3
  <2>6. ms \in Seq(Message)
    BY <2>4, <2>5
  <2> HIDE DEF ms
  <2>7. msgs' \in Seq(Message) /\ tags' \in 0..MaxTags
    BY <2>1, <2>6, PushType
  <2> QED BY <1>1, <1>3, <2>1, <2>7 DEF TypeOK, WireLegal
<1>6. CASE Send
  <2>1. wire' \in Seq(Message) /\ Paired(wire')
    BY <1>1, <1>6, RepairPaired DEF Send
  <2> QED BY <1>1, <1>6, <2>1 DEF Send, TypeOK, WireLegal
<1>7. CASE Retry
  BY <1>1, <1>7 DEF Retry, TypeOK, WireLegal
<1>8. CASE Finish
  BY <1>1, <1>8 DEF Finish, TypeOK, WireLegal
<1>9. ASSUME NEW c \in Responses, Respond(c) PROVE IInv'
  <2> DEFINE m == Assistant(c, tags + 1)
  <2>1. c \in Seq(Ids)
    BY ConversationAssumption
  <2>2. /\ phase = "sent" /\ Push(<<m>>) /\ todo' = Unique(c)
        /\ phase' = IF c = <<>> THEN "answered" ELSE "batch"
        /\ UNCHANGED <<epoch, rollback, wire>>
    BY <1>9 DEF Respond
  <2>3. tags + 1 \in Nat /\ tags + 1 <= MaxTags
    BY <1>2, <2>2 DEF Push
  <2>4. m \in Message
    BY <1>4, <2>1, <2>3
  <2> HIDE DEF m
  <2>5. msgs' \in Seq(Message) /\ tags' \in 0..MaxTags
    <3>1. <<m>> \in Seq(Message)
      BY <2>4
    <3> QED BY <2>2, <3>1, PushType
  <2>6. Unique(c) \in Seq(Ids) /\ (Unique(c) # <<>> <=> c # <<>>)
    <3> DEFINE u == Unique(c)
    <3>1. Uniq(Ids, u, c, Len(c)) /\ DOMAIN c = 1..Len(c)
      BY <2>1, UniqueFacts
    <3> HIDE DEF u
    <3>2. u \in Seq(Ids) /\ \A x : In(u, x) <=> In(c, x)
      BY <3>1 DEF Uniq, In
    <3>3. ASSUME NEW s \in Seq(Ids) PROVE s # <<>> <=> \E x : In(s, x)
      <4>1. s # <<>> => 1 \in DOMAIN s
        OBVIOUS
      <4>2. s = <<>> => DOMAIN s = {}
        OBVIOUS
      <4> QED BY <4>1, <4>2 DEF In
    <3>4. u # <<>> <=> c # <<>>
      BY <2>1, <3>2, <3>3
    <3> QED BY <3>2, <3>4 DEF u
  <2>7. todo' \in Seq(Ids) /\ (todo' # <<>> <=> phase' = "batch")
    BY <2>2, <2>6
  <2>8. phase' \in {"answered", "batch"}
    BY <2>2
  <2> QED BY <1>1, <2>2, <2>5, <2>7, <2>8 DEF TypeOK, WireLegal
<1>10. ASSUME NEW c \in Responses, NEW on \in BOOLEAN, Partial(c, on) PROVE IInv'
  <2> DEFINE m == Assistant(Unique(c), tags + 1)
             kept == Backfill(Append(msgs, m))
             n == Synthetic(tags + 2)
  <2>1. Unique(c) \in Seq(Ids)
    <3>1. c \in Seq(Ids)
      BY ConversationAssumption
    <3> QED BY <3>1, UniqueFacts DEF Uniq
  <2>2. /\ phase = "sent" /\ tags + 2 <= MaxTags /\ tags' = tags + 2
        /\ msgs' = IF on THEN Append(kept, n) ELSE kept
        /\ phase' = IF on THEN "running" ELSE "idle"
        /\ UNCHANGED <<epoch, todo, rollback, wire>>
    BY <1>10 DEF Partial
  <2>3. /\ tags + 1 \in Nat /\ tags + 1 <= MaxTags
        /\ tags + 2 \in Nat /\ tags + 2 \in 0..MaxTags
    BY <1>2, <2>2
  <2>4. m \in Message /\ n \in Message
    BY <1>4, <2>1, <2>2, <2>3
  <2> HIDE DEF m, n
  <2>5. Append(msgs, m) \in Seq(Message)
    BY <1>1, <2>4
  <2>6. kept \in Seq(Message)
    BY <2>5, BackfillType
  <2> HIDE DEF kept
  <2>7. msgs' \in Seq(Message)
    BY <2>2, <2>4, <2>6
  <2>8. phase' \in {"running", "idle"}
    BY <2>2
  <2> QED BY <1>1, <2>2, <2>3, <2>7, <2>8 DEF TypeOK, WireLegal
<1>11. ASSUME NEW block \in BOOLEAN, ApplyResult(block) PROVE IInv'
  <2> DEFINE m == Result(Head(todo), tags + 1)
             n == Synthetic(tags + 2)
             tail == IF block THEN <<n>> ELSE <<>>
             ms == <<m>> \o tail
  <2>1. /\ phase = "batch" /\ Push(ms) /\ todo' = Tail(todo)
        /\ phase' = IF Len(todo) = 1 THEN "running" ELSE "batch"
        /\ UNCHANGED <<epoch, rollback, wire>>
    BY <1>11 DEF ApplyResult
  <2>2. Head(todo) \in Ids /\ Tail(todo) \in Seq(Ids) /\ (Tail(todo) = <<>> <=> Len(todo) = 1)
    <3>1. todo # <<>>
      BY <1>1, <2>1
    <3>2. Len(todo) \in Nat /\ Len(todo) # 0 /\ Len(Tail(todo)) = Len(todo) - 1
      BY <1>1, <3>1
    <3>3. Head(todo) \in Ids /\ Tail(todo) \in Seq(Ids)
      BY <1>1, <3>1
    <3>4. Tail(todo) = <<>> <=> Len(Tail(todo)) = 0
      <4>1. \A s \in Seq(Ids) : s = <<>> <=> Len(s) = 0
        OBVIOUS
      <4> QED BY <3>3, <4>1, Zenon
    <3> QED BY <3>2, <3>3, <3>4
  <2>3. Len(ms) = IF block THEN 2 ELSE 1
    OBVIOUS
  <2>4. /\ tags + 1 \in Nat /\ tags + 1 <= MaxTags
        /\ tags + 2 \in Nat /\ (block => tags + 2 <= MaxTags)
    BY <1>2, <2>1, <2>3 DEF Push
  <2>5. m \in Message /\ (block => n \in Message)
    BY <1>4, <2>2, <2>4
  <2> HIDE DEF m, n
  <2>6. ms \in Seq(Message)
    BY <2>5
  <2> HIDE DEF ms
  <2>7. msgs' \in Seq(Message) /\ tags' \in 0..MaxTags
    BY <2>1, <2>6, PushType
  <2>8. todo' \in Seq(Ids) /\ (todo' # <<>> <=> phase' = "batch")
    BY <2>1, <2>2
  <2>9. phase' \in {"running", "batch"}
    BY <2>1
  <2> QED BY <1>1, <2>1, <2>7, <2>8, <2>9 DEF TypeOK, WireLegal
<1>12. ASSUME NEW real \in BOOLEAN, Note(real) PROVE IInv'
  <2> DEFINE m == IF real THEN User(tags + 1) ELSE Synthetic(tags + 1)
  <2>1. /\ phase \in {"running", "answered"} /\ Push(<<m>>) /\ phase' = "running"
        /\ UNCHANGED <<epoch, todo, rollback, wire>>
    BY <1>12 DEF Note
  <2>2. tags + 1 \in Nat /\ tags + 1 <= MaxTags
    BY <1>2, <2>1 DEF Push
  <2>3. m \in Message
    BY <1>4, <2>2
  <2> HIDE DEF m
  <2>4. <<m>> \in Seq(Message)
    BY <2>3
  <2>5. msgs' \in Seq(Message) /\ tags' \in 0..MaxTags
    BY <2>1, <2>4, PushType
  <2> QED BY <1>1, <2>1, <2>5 DEF TypeOK, WireLegal
<1>13. ASSUME NEW internal \in BOOLEAN, finish_cancelled(internal) PROVE IInv'
  <2>1. Kept \in Seq(Message)
    <3>1. Backfill(msgs) \in Seq(Message)
      BY <1>1, BackfillType
    <3> DEFINE n == Min2(rollback, Len(msgs))
    <3>2. n \in 0..Len(msgs)
      BY <1>1, <1>3 DEF Min2
    <3> HIDE DEF n
    <3>3. SubSeq(msgs, 1, n) \in Seq(Message)
      <4>1. 0 \in Nat /\ 0 + 1 = 1
        OBVIOUS
      <4> QED BY <1>1, <3>2, <4>1, Part
    <3> QED BY <3>1, <3>3 DEF Kept, n
  <2> DEFINE m == Synthetic(tags + 1)
  <2>2. /\ tags < MaxTags /\ tags' = tags + 1
        /\ msgs' = IF internal THEN Kept ELSE Append(Kept, m)
        /\ wire' = IF IsPrefix(msgs, Kept) THEN wire ELSE repair_pairing(Kept)
        /\ phase' = "idle" /\ todo' = <<>> /\ UNCHANGED <<epoch, rollback>>
    BY <1>13 DEF finish_cancelled
  <2>3. tags + 1 \in Nat /\ tags + 1 <= MaxTags
    BY <1>2, <2>2
  <2>4. m \in Message /\ tags + 1 \in 0..MaxTags
    BY <1>4, <2>3
  <2> HIDE DEF m
  <2>5. repair_pairing(Kept) \in Seq(Message)
    BY <2>1, RepairPaired
  <2>6. msgs' \in Seq(Message) /\ wire' \in Seq(Message)
    BY <1>1, <2>1, <2>2, <2>4, <2>5
  <2> QED BY <1>1, <1>3, <2>2, <2>4, <2>6 DEF TypeOK, WireLegal
<1>14. ASSUME NEW plan \in Plans(Len(msgs)), Compact(plan) PROVE IInv'
  <2>1. sacred_floor(msgs) \in Nat
    BY <1>1, FloorType
  <2>2. Candidate(msgs, plan, sacred_floor(msgs)) \in Seq(Message)
    BY <1>1, <2>1, CandidateType
  <2>3. /\ phase \in {"idle", "running"} /\ epoch < MaxEpoch /\ epoch' = epoch + 1
        /\ msgs' = Candidate(msgs, plan, sacred_floor(msgs)) /\ wire' = <<>>
        /\ UNCHANGED <<phase, todo, rollback, tags>>
    BY <1>14 DEF Compact
  <2>4. epoch' \in 0..MaxEpoch
    BY <1>2, <2>3
  <2> QED BY <1>1, <1>3, <2>2, <2>3, <2>4 DEF TypeOK, WireLegal
<1>15. CASE UNCHANGED vars
  BY <1>1, <1>15 DEF vars, TypeOK, WireLegal
<1> QED BY <1>5, <1>6, <1>7, <1>8, <1>9, <1>10, <1>11, <1>12, <1>13, <1>14, <1>15 DEF Next

\* Every reachable state has the types and, after a send, a legal request.
THEOREM Invariant == Spec => []IInv
BY InitInv, NextInv, PTL DEF Spec

\* What the history, the last request and the open batch are, in every state:
\* only results have a tool_call_id and only assistants tool_calls.
THEOREM TypeCorrect == Spec => []TypeOK
<1>1. IInv => TypeOK
  BY DEF IInv
<1> QED BY <1>1, Invariant, PTL

\* Every request is legal: repair_pairing answers every call right after the
\* message that made it, once, and leaves no result without its call, whatever
\* snapshots, reused ids, cancels, blocked results and compactions stored.
THEOREM RequestsLegal == Spec => []WireLegal
<1>1. IInv => WireLegal
  BY DEF IInv
<1> QED BY <1>1, Invariant, PTL

\* repair_pairing leaves a legal history as it is, and repairing a request again
\* changes nothing.
THEOREM RepairExact == Spec => []RepairIsExact
<1>1. IInv => RepairIsExact
  <2> SUFFICES ASSUME IInv PROVE RepairIsExact
    OBVIOUS
  <2>1. msgs \in Seq(Message) /\ wire \in Seq(Message)
    BY DEF IInv, TypeOK
  <2>2. phase = "sent" => Paired(wire)
    BY DEF IInv, WireLegal
  <2> QED BY <2>1, <2>2, RepairExactLemma DEF RepairIsExact
<1> QED BY <1>1, Invariant, PTL

-----------------------------------------------------------------------------
(* How the windows of a history change when the history grows.             *)

\* The windows of ms, the last of them, and: s is a prefix of t.
W(ms) == CHOOSE f : Windows(ms, f)
LastW(ms) == W(ms)[Len(ms)]
Pre(s, t) == Len(s) <= Len(t) /\ \A k \in 1..Len(s) : s[k] = t[k]

\* W is the windows of a history.
LEMMA WIsWindows ==
    ASSUME NEW ms \in Seq(Message)
    PROVE  /\ Windows(ms, W(ms)) /\ LastW(ms) \in Window /\ Shape(LastW(ms))
           /\ repair_pairing(ms) = Close(LastW(ms))
<1>1. Windows(ms, W(ms))
  BY RepairWindows, Zenon DEF W
<1>2. Len(ms) \in 0..Len(ms)
  OBVIOUS
<1> QED BY <1>1, <1>2 DEF Windows, LastW

\* IsPrefix, element by element.
LEMMA PrefixIsPre ==
    ASSUME NEW S, NEW s \in Seq(S), NEW t \in Seq(S)
    PROVE  IsPrefix(s, t) <=> Pre(s, t)
<1> DEFINE n == Len(s)
           a == SubSeq(s, 1, n)
           b == SubSeq(t, 1, n)
<1>1. IsPrefix(s, t) <=> n <= Len(t) /\ a = b
  BY DEF IsPrefix
<1>2. n \in Nat /\ Len(t) \in Nat
  OBVIOUS
<1>3. ASSUME n <= Len(t) PROVE (a = b) <=> \A k \in 1..n : s[k] = t[k]
  <2>1. n \in 0..Len(s) /\ n \in 0..Len(t) /\ 0 \in Nat /\ 0 + 1 = 1 /\ n - 0 = n
    BY <1>2, <1>3
  <2>2. /\ a \in Seq(S) /\ Len(a) = n /\ \A k \in 1..n : a[k] = s[0 + k]
        /\ b \in Seq(S) /\ Len(b) = n /\ \A k \in 1..n : b[k] = t[0 + k]
    <3>1. /\ SubSeq(s, 0 + 1, n) \in Seq(S)
          /\ Len(SubSeq(s, 0 + 1, n)) = IF 0 < n THEN n - 0 ELSE 0
          /\ \A k \in 1..(n - 0) : SubSeq(s, 0 + 1, n)[k] = s[0 + k]
      BY <2>1, Part
    <3>2. /\ SubSeq(t, 0 + 1, n) \in Seq(S)
          /\ Len(SubSeq(t, 0 + 1, n)) = IF 0 < n THEN n - 0 ELSE 0
          /\ \A k \in 1..(n - 0) : SubSeq(t, 0 + 1, n)[k] = t[0 + k]
      BY <2>1, Part
    <3>3. (IF 0 < n THEN n - 0 ELSE 0) = n
      BY <1>2
    <3> HIDE DEF n
    <3> QED BY <2>1, <3>1, <3>2, <3>3 DEF a, b
  <2>3. \A k \in 1..n : 0 + k = k
    OBVIOUS
  <2> HIDE DEF a, b, n
  <2>4. (\A k \in 1..n : a[k] = b[k]) => a = b
    BY <2>2, SeqEqual
  <2> QED BY <2>2, <2>3, <2>4
<1> QED BY <1>1, <1>3 DEF Pre

\* A prefix of a prefix.
LEMMA PreTrans ==
    ASSUME NEW S, NEW s \in Seq(S), NEW t \in Seq(S), NEW u \in Seq(S), Pre(s, t), Pre(t, u)
    PROVE  Pre(s, u)
<1>1. Len(s) \in Nat /\ Len(t) \in Nat /\ Len(u) \in Nat
  OBVIOUS
<1>2. Len(s) <= Len(t) /\ Len(t) <= Len(u)
  BY DEF Pre
<1>3. \A k \in 1..Len(s) : k \in 1..Len(t)
  BY <1>1, <1>2
<1>4. Len(s) <= Len(u)
  BY <1>1, <1>2
<1> QED BY <1>3, <1>4 DEF Pre

\* What was kept stays kept.
LEMMA PreIn ==
    ASSUME NEW S, NEW s \in Seq(S), NEW t \in Seq(S), Pre(s, t)
    PROVE  \A x : In(s, x) => In(t, x)
<1>1. DOMAIN s = 1..Len(s) /\ DOMAIN t = 1..Len(t) /\ Len(s) \in Nat /\ Len(t) \in Nat
  OBVIOUS
<1>2. \A k \in DOMAIN s : k \in DOMAIN t /\ s[k] = t[k]
  BY <1>1 DEF Pre
<1> QED BY <1>2 DEF In

\* A sequence is a prefix of what it is extended to.
LEMMA PreConcat ==
    ASSUME NEW S, NEW s \in Seq(S), NEW e \in Seq(S)
    PROVE  s \o e \in Seq(S) /\ Pre(s, s \o e) /\ Pre(s, s)
<1>1. Len(s) \in Nat /\ Len(e) \in Nat /\ Len(s \o e) = Len(s) + Len(e)
  OBVIOUS
<1>2. \A k \in 1..Len(s) : (s \o e)[k] = s[k]
  OBVIOUS
<1> QED BY <1>1, <1>2 DEF Pre

\* A window only grows: closing it, and every message, extend its output.
LEMMA OutGrows ==
    ASSUME NEW w \in Window, Shape(w), NEW m \in Message
    PROVE  /\ Pre(w.out, Close(w))
           /\ Pre(w.out, RepairStep(w, m).out)
           /\ m.role # "tool" => Pre(Close(w), RepairStep(w, m).out)
<1>1. w.out \in Seq(Message) /\ w.pending \in Seq(Ids)
  BY DEF Window
<1>2. Close(w) \in Seq(Message)
  BY CloseShape
<1>3. Pre(w.out, Close(w))
  <2> DEFINE open == Only(w.pending, Ids \ w.resolved)
             ph == [k \in DOMAIN open |-> Placeholder(open[k])]
  <2>1. open \in Seq(Ids)
    BY <1>1, OnlyFacts DEF KeptOf
  <2> HIDE DEF open
  <2>2. ph \in Seq(Message)
    <3>1. /\ Len(open) \in Nat /\ DOMAIN open = 1..Len(open)
          /\ \A k \in 1..Len(open) : open[k] \in Ids
      BY <2>1
    <3>2. ph = [k \in 1..Len(open) |-> Placeholder(open[k])]
      BY <3>1
    <3>3. \A k \in 1..Len(open) : Placeholder(open[k]) \in Message
      BY <3>1, MessageFacts
    <3> HIDE DEF ph
    <3> QED BY <3>1, <3>2, <3>3, IsASeq
  <2>3. Close(w) = w.out \o ph
    BY DEF Close, open
  <2> HIDE DEF ph
  <2> QED BY <1>1, <2>2, <2>3, PreConcat
<1>4. ASSUME NEW s \in Seq(Message) PROVE Append(s, m) \in Seq(Message) /\ Pre(s, Append(s, m))
  <2>1. Append(s, m) = s \o <<m>> /\ <<m>> \in Seq(Message)
    BY AppendIsConcat
  <2> QED BY <2>1, PreConcat
<1>5. m.role # "tool" => RepairStep(w, m).out = Append(Close(w), m)
  BY DEF RepairStep
<1>6. CASE m.role # "tool"
  <2>1. Append(Close(w), m) \in Seq(Message) /\ Pre(Close(w), Append(Close(w), m))
    BY <1>2, <1>4
  <2> QED BY <1>1, <1>2, <1>3, <1>5, <1>6, <2>1, PreTrans
<1>7. CASE m.role = "tool"
  <2>1. RepairStep(w, m).out \in {w.out, Append(w.out, m)}
    BY <1>7 DEF RepairStep, Window
  <2>2. Pre(w.out, w.out)
    BY <1>1, PreConcat
  <2> QED BY <1>1, <1>3, <1>4, <1>7, <2>1, <2>2
<1> QED BY <1>6, <1>7

\* The windows of a prefix are windows of the history.
LEMMA SameWindows ==
    ASSUME NEW ms \in Seq(Message), NEW ns \in Seq(Message), Pre(ms, ns)
    PROVE  \A k \in 0..Len(ms) : W(ns)[k] = W(ms)[k]
<1> DEFINE f == W(ms)
           g == W(ns)
           L == Len(ms)
           T == {k \in 0..L : g[k] = f[k]}
<1>1. Windows(ms, f) /\ Windows(ns, g)
  BY WIsWindows
<1>2. L \in Nat /\ Len(ns) \in Nat /\ L <= Len(ns) /\ \A k \in 1..L : ms[k] = ns[k]
  BY DEF Pre
<1> HIDE DEF f, g
<1>3. /\ f[0] = g[0]
      /\ \A n \in 1..L : f[n] = RepairStep(f[n - 1], ms[n])
      /\ \A n \in 1..Len(ns) : g[n] = RepairStep(g[n - 1], ns[n])
  BY <1>1 DEF Windows
<1>4. 0 \in T
  BY <1>2, <1>3
<1>5. ASSUME NEW n \in 0..(L - 1), n \in T PROVE n + 1 \in T
  <2>1. n + 1 \in 1..L /\ n + 1 \in 0..L /\ n + 1 \in 1..Len(ns) /\ (n + 1) - 1 = n
    BY <1>2
  <2>2. f[n + 1] = RepairStep(f[n], ms[n + 1]) /\ g[n + 1] = RepairStep(g[n], ns[n + 1])
    BY <1>3, <2>1
  <2>3. g[n] = f[n] /\ ms[n + 1] = ns[n + 1]
    BY <1>2, <1>5, <2>1
  <2>4. g[n + 1] = f[n + 1]
    BY <2>2, <2>3
  <2> QED BY <2>1, <2>4
<1>6. 0..L \subseteq T
  <2> HIDE DEF T, L
  <2> QED BY <1>2, <1>4, <1>5, UpTo
<1> QED BY <1>6 DEF f, g

\* What a window has put out, the later windows keep.
LEMMA WindowsGrow ==
    ASSUME NEW ms \in Seq(Message), NEW a \in 0..Len(ms)
    PROVE  Pre(W(ms)[a].out, LastW(ms).out)
<1> DEFINE f == W(ms)
           L == Len(ms) - a
           T == {k \in 0..L : Pre(f[a].out, f[a + k].out)}
<1>1. Windows(ms, f)
  BY WIsWindows
<1> HIDE DEF f
<1>2. Len(ms) \in Nat /\ a \in Nat /\ L \in Nat /\ a + L = Len(ms)
  OBVIOUS
<1>3. \A k \in 0..L : a + k \in 0..Len(ms)
  BY <1>2
<1>4. \A k \in 0..Len(ms) : f[k] \in Window /\ Shape(f[k]) /\ f[k].out \in Seq(Message)
  BY <1>1 DEF Windows, Window
<1>5. 0 \in T
  <2>1. a + 0 = a /\ 0 \in 0..L
    BY <1>2
  <2>2. Pre(f[a].out, f[a].out)
    BY <1>4, PreConcat
  <2> QED BY <2>1, <2>2
<1>6. ASSUME NEW k \in 0..(L - 1), k \in T PROVE k + 1 \in T
  <2>1. /\ k + 1 \in 0..L /\ k \in 0..L /\ a + (k + 1) = (a + k) + 1
        /\ (a + k) + 1 \in 1..Len(ms) /\ ((a + k) + 1) - 1 = a + k
    BY <1>2
  <2> DEFINE n == a + k
  <2>2. n \in 0..Len(ms) /\ n + 1 \in 0..Len(ms) /\ ms[n + 1] \in Message
    BY <1>2, <1>3, <2>1
  <2>3. f[n + 1] = RepairStep(f[n], ms[n + 1])
    BY <1>1, <2>1 DEF Windows
  <2>4. Pre(f[a].out, f[n].out)
    BY <1>6
  <2> HIDE DEF n
  <2>5. Pre(f[n].out, f[n + 1].out)
    BY <1>4, <2>2, <2>3, OutGrows
  <2>6. Pre(f[a].out, f[n + 1].out)
    BY <1>4, <2>2, <2>4, <2>5, PreTrans
  <2>7. Pre(f[a].out, f[a + (k + 1)].out)
    BY <2>1, <2>6 DEF n
  <2> QED BY <2>1, <2>7
<1>7. 0..L \subseteq T
  <2> HIDE DEF T, L
  <2> QED BY <1>2, <1>5, <1>6, UpTo
<1>8. L \in 0..L
  BY <1>2
<1>9. Pre(f[a].out, f[a + L].out)
  BY <1>7, <1>8
<1> QED BY <1>2, <1>9 DEF f, LastW

\* The last window of a longer history extends that of a prefix.
LEMMA LastGrows ==
    ASSUME NEW ms \in Seq(Message), NEW ns \in Seq(Message), Pre(ms, ns)
    PROVE  Pre(LastW(ms).out, LastW(ns).out)
<1>1. Len(ms) \in 0..Len(ns) /\ Len(ms) \in 0..Len(ms)
  BY DEF Pre
<1>2. W(ns)[Len(ms)] = LastW(ms)
  BY <1>1, SameWindows DEF LastW
<1> QED BY <1>1, <1>2, WindowsGrow

\* One more message is one more step of the repair.
LEMMA LastAppend ==
    ASSUME NEW ms \in Seq(Message), NEW m \in Message
    PROVE  /\ Append(ms, m) \in Seq(Message) /\ Pre(ms, Append(ms, m))
           /\ LastW(Append(ms, m)) = RepairStep(LastW(ms), m)
<1> DEFINE ns == Append(ms, m)
           n == Len(ms)
<1>1. ns \in Seq(Message) /\ Len(ns) = n + 1 /\ n \in Nat /\ ns[n + 1] = m
  OBVIOUS
<1>2. \A k \in 1..n : ms[k] = ns[k]
  OBVIOUS
<1> HIDE DEF ns
<1>3. Pre(ms, ns)
  BY <1>1, <1>2 DEF Pre
<1>4. n \in 0..n /\ n + 1 \in 1..Len(ns) /\ (n + 1) - 1 = n
  BY <1>1
<1>5. W(ns)[n] = W(ms)[n]
  BY <1>1, <1>3, <1>4, SameWindows
<1>6. W(ns)[n + 1] = RepairStep(W(ns)[n], ns[n + 1])
  <2>1. Windows(ns, W(ns))
    BY <1>1, WIsWindows
  <2> QED BY <1>4, <2>1 DEF Windows
<1> QED BY <1>1, <1>3, <1>5, <1>6 DEF LastW, ns

-----------------------------------------------------------------------------
(* What a window still waits for, and the results the repair keeps.        *)

\* every call of the window has its result, or is in s
Settles(w, s) == \A i : In(w.pending, i) => i \in w.resolved \/ In(s, i)

\* every result a turn has stored is kept as soon as the repair meets it, or a
\* Block of its batch ended its window
Stored(ms) ==
    \A k \in DOMAIN ms : ms[k].role = "tool" /\ ms[k].tag # 0 =>
        In(W(ms)[k].out, ms[k]) \/ Blocked(ms, k)

\* A window without open calls is closed as it is.
LEMMA SettledClose ==
    ASSUME NEW w \in Window, Settles(w, <<>>)
    PROVE  Close(w) = w.out
<1> DEFINE open == Only(w.pending, Ids \ w.resolved)
           ph == [k \in DOMAIN open |-> Placeholder(open[k])]
<1>1. Close(w) = w.out \o ph
  BY DEF Close
<1>2. w.out \in Seq(Message) /\ w.pending \in Seq(Ids)
  BY DEF Window
<1>3. \A x : In(open, x) <=> x \in Ids \ w.resolved /\ In(w.pending, x)
  <2>1. KeptOf(Ids, open, w.pending, Ids \ w.resolved, Len(w.pending))
    BY <1>2, OnlyFacts
  <2>2. DOMAIN w.pending = 1..Len(w.pending)
    BY <1>2
  <2> HIDE DEF open
  <2> QED BY <2>1, <2>2 DEF KeptOf, In
<1> HIDE DEF open
<1>4. \A x : ~In(<<>>, x)
  BY DEF In
<1>5. \A x : ~In(open, x)
  BY <1>3, <1>4 DEF Settles
<1>6. DOMAIN open = {}
  BY <1>5 DEF In
<1>7. ph = <<>>
  BY <1>6
<1> QED BY <1>1, <1>2, <1>7

\* A message that is no result opens its own window.
LEMMA Opens ==
    ASSUME NEW ms \in Seq(Message), NEW m \in Message, m.role # "tool"
    PROVE  LET w == LastW(Append(ms, m)) IN
           /\ Pre(repair_pairing(ms), w.out)
           /\ w.pending = Unique(m.calls) /\ w.resolved = {}
           /\ \A i : In(w.pending, i) <=> In(m.calls, i)
<1> DEFINE v == LastW(ms)
           w == LastW(Append(ms, m))
<1>1. w = RepairStep(v, m)
  BY LastAppend
<1>2. v \in Window /\ Shape(v) /\ repair_pairing(ms) = Close(v)
  BY WIsWindows
<1>3. Pre(repair_pairing(ms), w.out)
  BY <1>1, <1>2, OutGrows
<1>4. w.pending = Unique(m.calls) /\ w.resolved = {}
  BY <1>1 DEF RepairStep
<1>5. \A i : In(Unique(m.calls), i) <=> In(m.calls, i)
  <2> DEFINE u == Unique(m.calls)
  <2>1. m.calls \in Seq(Ids)
    BY MessageFacts
  <2>2. Uniq(Ids, u, m.calls, Len(m.calls)) /\ DOMAIN m.calls = 1..Len(m.calls)
    BY <2>1, UniqueFacts
  <2> HIDE DEF u
  <2>3. \A i : In(u, i) <=> In(m.calls, i)
    BY <2>2 DEF Uniq, In
  <2> QED BY <2>3 DEF u
<1> QED BY <1>3, <1>4, <1>5

\* A result takes its id off what the window waits for.
LEMMA Takes ==
    ASSUME NEW ms \in Seq(Message), NEW m \in Message, m.role = "tool"
    PROVE  LET v == LastW(ms)
               w == LastW(Append(ms, m)) IN
           /\ w.pending = v.pending
           /\ w.resolved = IF In(v.pending, m.id) THEN v.resolved \cup {m.id} ELSE v.resolved
           /\ In(v.pending, m.id) /\ m.id \notin v.resolved => In(w.out, m)
<1> DEFINE v == LastW(ms)
           w == LastW(Append(ms, m))
<1>1. w = RepairStep(v, m)
  BY LastAppend
<1>2. v \in Window
  BY WIsWindows
<1>3. /\ v = [out |-> v.out, pending |-> v.pending, resolved |-> v.resolved]
      /\ v.out \in Seq(Message) /\ v.pending \in Seq(Ids)
  BY <1>2 DEF Window
<1>4. Contains(v.pending, m.id) <=> In(v.pending, m.id)
  BY <1>3, CallIds
<1> HIDE DEF v, w
<1>5. CASE In(v.pending, m.id) /\ m.id \notin v.resolved
  <2>1. w = [out |-> Append(v.out, m), pending |-> v.pending, resolved |-> v.resolved \cup {m.id}]
    BY <1>1, <1>3, <1>4, <1>5 DEF RepairStep
  <2>2. w.out = Append(v.out, m) /\ w.pending = v.pending /\ w.resolved = v.resolved \cup {m.id}
    BY <2>1
  <2>3. In(w.out, m)
    BY <1>3, <2>2, InAppend
  <2> QED BY <1>5, <2>2, <2>3 DEF v, w
<1>6. CASE ~(In(v.pending, m.id) /\ m.id \notin v.resolved)
  <2>1. w = v
    BY <1>1, <1>4, <1>6 DEF RepairStep
  <2>2. In(v.pending, m.id) => v.resolved \cup {m.id} = v.resolved
    BY <1>6
  <2> QED BY <1>6, <2>1, <2>2 DEF v, w
<1> QED BY <1>5, <1>6

\* A Block is seen from the messages before the result alone.
LEMMA BlockedSame ==
    ASSUME NEW ms \in Seq(Message), NEW ns \in Seq(Message), Pre(ms, ns), NEW k \in DOMAIN ms
    PROVE  Blocked(ms, k) <=> Blocked(ns, k)
<1>1. k \in 1..Len(ms) /\ Len(ms) \in Nat /\ ms[k] = ns[k]
  BY DEF Pre
<1>2. \A j \in 1..(k - 1) : ms[j] = ns[j]
  <2>1. \A j \in 1..(k - 1) : j \in 1..Len(ms)
    BY <1>1
  <2> QED BY <2>1 DEF Pre
<1>3. \A a, n \in 1..(k - 1) : a + 1 < n => n - 1 \in 1..(k - 1)
  BY <1>1
<1>4. \A a \in 1..(k - 1) : \A j \in (a + 1)..(k - 1) : j \in 1..(k - 1)
  BY <1>1
<1>5. ASSUME NEW a \in 1..(k - 1), NEW n \in 1..(k - 1), a + 1 < n
      PROVE  /\ ms[a] = ns[a] /\ ms[n] = ns[n] /\ ms[n - 1] = ns[n - 1]
             /\ \A j \in (a + 1)..(k - 1) : ms[j] = ns[j]
  BY <1>2, <1>3, <1>4, <1>5
<1> DEFINE After(x, a, n) ==
               /\ a + 1 < n /\ Contains(x[a].calls, x[k].id)
               /\ IsNote(x[n]) /\ x[n - 1].role = "tool"
               /\ \A j \in (a + 1)..(k - 1) : x[j].role = "tool" \/ IsNote(x[j])
<1>6. ASSUME NEW a \in 1..(k - 1), NEW n \in 1..(k - 1)
      PROVE  After(ms, a, n) <=> After(ns, a, n)
  <2>1. CASE a + 1 < n
    <3>1. /\ ms[a] = ns[a] /\ ms[n] = ns[n] /\ ms[n - 1] = ns[n - 1]
          /\ \A j \in (a + 1)..(k - 1) : ms[j] = ns[j]
      BY <1>5, <2>1
    <3> QED BY <1>1, <3>1, Zenon
  <2>2. CASE ~(a + 1 < n)
    BY <2>2
  <2> QED BY <2>1, <2>2
<1>7. \A x : Blocked(x, k) <=> \E a, n \in 1..(k - 1) : After(x, a, n)
  BY Zenon DEF Blocked
<1> HIDE DEF After
<1> QED BY <1>6, <1>7

\* Stored results stay stored when no other result is pushed.
LEMMA StoredGrows ==
    ASSUME NEW ms \in Seq(Message), NEW ns \in Seq(Message), Pre(ms, ns), Stored(ms),
           \A k \in DOMAIN ns : k \notin DOMAIN ms => ns[k].role # "tool" \/ ns[k].tag = 0
    PROVE  Stored(ns)
<1> SUFFICES ASSUME NEW k \in DOMAIN ns, ns[k].role = "tool", ns[k].tag # 0
             PROVE  In(W(ns)[k].out, ns[k]) \/ Blocked(ns, k)
  BY DEF Stored
<1>1. k \in DOMAIN ms
  OBVIOUS
<1>2. DOMAIN ms = 1..Len(ms) /\ Len(ms) \in Nat
  OBVIOUS
<1>3. k \in 1..Len(ms) /\ k \in 0..Len(ms)
  BY <1>1, <1>2
<1>4. ns[k] = ms[k]
  BY <1>3 DEF Pre
<1>5. W(ns)[k] = W(ms)[k]
  BY <1>3, SameWindows
<1>6. Blocked(ms, k) <=> Blocked(ns, k)
  BY <1>1, BlockedSame
<1> QED BY <1>1, <1>4, <1>5, <1>6 DEF Stored

\* A part of the history keeps what it has stored.
LEMMA StoredCut ==
    ASSUME NEW ms \in Seq(Message), NEW ns \in Seq(Message), Pre(ns, ms), Stored(ms)
    PROVE  Stored(ns)
<1> SUFFICES ASSUME NEW k \in DOMAIN ns, ns[k].role = "tool", ns[k].tag # 0
             PROVE  In(W(ns)[k].out, ns[k]) \/ Blocked(ns, k)
  BY DEF Stored
<1>1. /\ DOMAIN ms = 1..Len(ms) /\ Len(ms) \in Nat
      /\ DOMAIN ns = 1..Len(ns) /\ Len(ns) \in Nat /\ Len(ns) <= Len(ms)
  BY DEF Pre
<1>2. k \in DOMAIN ms /\ k \in 1..Len(ns) /\ k \in 0..Len(ns)
  BY <1>1
<1>3. ns[k] = ms[k]
  BY <1>2 DEF Pre
<1>4. W(ms)[k] = W(ns)[k]
  BY <1>2, SameWindows
<1>5. Blocked(ns, k) <=> Blocked(ms, k)
  BY BlockedSame
<1> QED BY <1>2, <1>3, <1>4, <1>5 DEF Stored

\* One more message, which is taken into its window or comes after a Block.
LEMMA StoredAppend ==
    ASSUME NEW ms \in Seq(Message), NEW m \in Message, Stored(ms),
           In(LastW(Append(ms, m)).out, m) \/ Blocked(Append(ms, m), Len(ms) + 1)
    PROVE  Stored(Append(ms, m))
<1> DEFINE ns == Append(ms, m)
           n == Len(ms)
<1>1. ns \in Seq(Message) /\ Pre(ms, ns)
  BY LastAppend
<1>2. In(LastW(ns).out, m) \/ Blocked(ns, n + 1)
  OBVIOUS
<1>3. /\ Len(ns) = n + 1 /\ n \in Nat /\ ns[n + 1] = m /\ DOMAIN ms = 1..n
      /\ DOMAIN ns = 1..(n + 1)
  OBVIOUS
<1> HIDE DEF ns
<1> SUFFICES ASSUME NEW k \in DOMAIN ns, ns[k].role = "tool", ns[k].tag # 0
             PROVE  In(W(ns)[k].out, ns[k]) \/ Blocked(ns, k)
  BY DEF Stored, ns
<1>4. CASE k = n + 1
  BY <1>2, <1>3, <1>4 DEF LastW
<1>5. CASE k # n + 1
  <2>1. k \in 1..Len(ms) /\ k \in 0..Len(ms) /\ k \in DOMAIN ms
    BY <1>3, <1>5
  <2>2. ns[k] = ms[k]
    BY <1>1, <2>1 DEF Pre
  <2>3. W(ns)[k] = W(ms)[k]
    BY <1>1, <2>1, SameWindows
  <2>4. Blocked(ms, k) <=> Blocked(ns, k)
    BY <1>1, <2>1, BlockedSame
  <2> QED BY <2>1, <2>2, <2>3, <2>4 DEF Stored
<1> QED BY <1>4, <1>5

\* A legal history has everything stored, and its last window is settled.
LEMMA PairedStored ==
    ASSUME NEW ms \in Seq(Message), Paired(ms)
    PROVE  Stored(ms) /\ Settles(LastW(ms), <<>>)
<1> DEFINE L == Len(ms)
<1>1. Windows(ms, W(ms)) /\ L \in Nat /\ L \in 0..L /\ DOMAIN ms = 1..L
  BY WIsWindows
<1>2. \A n \in 0..L : W(ms)[n] \in Window /\ Copied(ms, W(ms)[n], n)
  BY <1>1, AllCopied
<1>3. Settles(LastW(ms), <<>>)
  <2>1. LastW(ms) \in Window /\ Copied(ms, LastW(ms), L)
    BY <1>1, <1>2 DEF LastW
  <2>2. \A x : In(LastW(ms).pending, x) => x \in LastW(ms).resolved
    BY <1>1, <2>1, NothingOpen
  <2> QED BY <2>2 DEF Settles
<1>4. ASSUME NEW k \in DOMAIN ms PROVE In(W(ms)[k].out, ms[k])
  <2>1. k \in 0..L /\ k \in 1..k
    BY <1>1
  <2> DEFINE o == W(ms)[k].out
  <2>2. o \in Seq(Message) /\ Len(o) = k /\ o[k] = ms[k]
    BY <1>2, <2>1 DEF Copied, Window
  <2>3. k \in DOMAIN o
    BY <2>1, <2>2
  <2> QED BY <2>2, <2>3 DEF In
<1> QED BY <1>3, <1>4 DEF Stored

\* A message of the user, after anything: what was sent stays a prefix, no call
\* is open, and nothing stored is lost.
LEMMA PushUser ==
    ASSUME NEW ms \in Seq(Message), NEW m \in Message, m.role # "tool", m.calls = <<>>,
           NEW wr \in Seq(Message), Pre(wr, repair_pairing(ms))
    PROVE  /\ Append(ms, m) \in Seq(Message)
           /\ Pre(wr, LastW(Append(ms, m)).out) /\ Pre(wr, repair_pairing(Append(ms, m)))
           /\ \A s : Settles(LastW(Append(ms, m)), s)
           /\ Stored(ms) => Stored(Append(ms, m))
<1> DEFINE ns == Append(ms, m)
           w == LastW(ns)
<1>1. ns \in Seq(Message) /\ Pre(ms, ns)
  BY LastAppend
<1>2. /\ Pre(repair_pairing(ms), w.out)
      /\ \A i : In(w.pending, i) <=> In(m.calls, i)
  BY Opens
<1>3. \A i : ~In(<<>>, i)
  BY DEF In
<1>4. \A s : Settles(w, s)
  BY <1>2, <1>3 DEF Settles
<1>5. w \in Window /\ Shape(w) /\ repair_pairing(ns) = Close(w)
  BY <1>1, WIsWindows
<1>6. repair_pairing(ms) \in Seq(Message) /\ w.out \in Seq(Message) /\ Close(w) \in Seq(Message)
  BY <1>5, RepairPaired, CloseShape DEF Window
<1>7. Pre(wr, w.out)
  BY <1>2, <1>6, PreTrans
<1>8. Pre(wr, repair_pairing(ns))
  <2>1. Pre(w.out, Close(w))
    BY <1>5, OutGrows
  <2> QED BY <1>5, <1>6, <1>7, <2>1, PreTrans
<1>9. Stored(ms) => Stored(ns)
  <2>1. \A k \in DOMAIN ns : k \notin DOMAIN ms => ns[k] = m
    OBVIOUS
  <2> HIDE DEF ns
  <2> QED BY <1>1, <2>1, StoredGrows
<1> QED BY <1>1, <1>4, <1>7, <1>8, <1>9

-----------------------------------------------------------------------------
(* What is sent: the cache contract, and the results the model sees.       *)

\* What was sent last is a prefix of what the repair makes of the history, and
\* in a turn of what it has put out for good.
Extends == /\ Pre(wire, repair_pairing(msgs))
           /\ phase # "idle" => Pre(wire, LastW(msgs).out)

\* A batch fills the last window.
Waits == phase \in {"running", "sent", "batch"} => Settles(LastW(msgs), todo)

\* The rest of a batch, s, and what was stored of it so far: a made the calls,
\* results and notes follow; its window waits for every call of s, or a Block
\* has ended it.
InBatch(ms, a, s) ==
    /\ \A i : In(s, i) => Contains(ms[a].calls, i)
    /\ \A j \in (a + 1)..Len(ms) : ms[j].role = "tool" \/ IsNote(ms[j])
Awaits(w, s) == \A i : In(s, i) => In(w.pending, i) /\ i \notin w.resolved
Ended(ms, a) == \E n \in (a + 2)..Len(ms) : IsNote(ms[n]) /\ ms[n - 1].role = "tool"
Batch(ms, s) ==
    /\ Distinct(s)
    /\ \E a \in DOMAIN ms : InBatch(ms, a, s) /\ (Awaits(LastW(ms), s) \/ Ended(ms, a))
BatchOpen == phase = "batch" => Batch(msgs, todo)

\* The inductive invariant of what is sent.  PrefixStable compares two requests
\* of which only the last is kept: Extends relates it to the history at every
\* step between them, and Waits says why the steps of a batch only fill the
\* window the last request left open.  BatchOpen says of the results still to
\* come what Stored will say of them: that they are taken, or after a Block.
WInv == /\ phase = "sent" => wire = repair_pairing(msgs)
        /\ Extends /\ Waits /\ BatchOpen
        /\ Stored(msgs)

\* Initially nothing was sent.
LEMMA InitWindows == Init => WInv
<1> SUFFICES ASSUME Init PROVE WInv
  OBVIOUS
<1>1. PICK s \in Snapshots : msgs = repair_pairing(s.msgs)
  BY DEF Init
<1>2. s.msgs \in Seq(Message)
  BY ConversationAssumption
<1>3. msgs \in Seq(Message) /\ Paired(msgs)
  BY <1>1, <1>2, RepairPaired
<1>4. repair_pairing(msgs) \in Seq(Message)
  BY <1>3, RepairPaired
<1>5. Pre(<<>>, repair_pairing(msgs))
  BY <1>4 DEF Pre
<1>6. Stored(msgs)
  BY <1>3, PairedStored
<1> QED BY <1>5, <1>6 DEF Init, WInv, Extends, Waits, BatchOpen

\* A prefix of a history.
LEMMA CutPre ==
    ASSUME NEW ms \in Seq(Message), NEW n \in 0..Len(ms)
    PROVE  SubSeq(ms, 1, n) \in Seq(Message) /\ Pre(SubSeq(ms, 1, n), ms)
<1> DEFINE s == SubSeq(ms, 0 + 1, n)
<1>1. 0 \in Nat /\ 0 + 1 = 1 /\ n - 0 = n /\ Len(ms) \in Nat /\ n \in Nat /\ n <= Len(ms)
  OBVIOUS
<1>2. /\ s \in Seq(Message) /\ Len(s) = IF 0 < n THEN n - 0 ELSE 0
      /\ \A k \in 1..(n - 0) : s[k] = ms[0 + k]
  BY <1>1, Part
<1> HIDE DEF s
<1>3. Len(s) = n
  BY <1>1, <1>2
<1>4. \A k \in 1..n : s[k] = ms[k]
  BY <1>1, <1>2
<1>5. Pre(s, ms)
  BY <1>1, <1>3, <1>4 DEF Pre
<1> QED BY <1>1, <1>2, <1>5 DEF s

\* A batch goes on with a result or a note.
LEMMA BatchGrows ==
    ASSUME NEW ms \in Seq(Message), NEW m \in Message, m.role = "tool" \/ IsNote(m),
           NEW a \in DOMAIN ms, NEW s, NEW t, InBatch(ms, a, s), \A i : In(t, i) => In(s, i)
    PROVE  /\ a \in DOMAIN Append(ms, m) /\ InBatch(Append(ms, m), a, t)
           /\ Ended(ms, a) => Ended(Append(ms, m), a)
<1> DEFINE ns == Append(ms, m)
<1>1. /\ ns \in Seq(Message) /\ Len(ns) = Len(ms) + 1 /\ Len(ms) \in Nat
      /\ ns[Len(ms) + 1] = m /\ \A j \in 1..Len(ms) : ns[j] = ms[j]
      /\ DOMAIN ms = 1..Len(ms) /\ DOMAIN ns = 1..(Len(ms) + 1)
  OBVIOUS
<1> HIDE DEF ns
<1>2. a \in DOMAIN ns /\ a \in 1..Len(ms) /\ ns[a] = ms[a]
  BY <1>1
<1>3. ASSUME NEW j \in (a + 1)..Len(ns) PROVE ns[j].role = "tool" \/ IsNote(ns[j])
  <2>1. CASE j = Len(ms) + 1
    BY <1>1, <2>1
  <2>2. CASE j # Len(ms) + 1
    <3>1. j \in 1..Len(ms) /\ j \in (a + 1)..Len(ms)
      BY <1>1, <1>2, <2>2
    <3> QED BY <1>1, <3>1 DEF InBatch
  <2> QED BY <2>1, <2>2
<1>4. ASSUME NEW n \in (a + 2)..Len(ms)
      PROVE  n \in (a + 2)..Len(ns) /\ ns[n] = ms[n] /\ ns[n - 1] = ms[n - 1]
  <2>1. n \in (a + 2)..Len(ns) /\ n \in 1..Len(ms) /\ n - 1 \in 1..Len(ms)
    BY <1>1, <1>2
  <2> QED BY <1>1, <2>1
<1>5. Ended(ms, a) => Ended(ns, a)
  BY <1>4 DEF Ended
<1> QED BY <1>2, <1>3, <1>5 DEF InBatch, ns

\* A note after a result ends the window of the batch.
LEMMA NoteEnds ==
    ASSUME NEW ms \in Seq(Message), NEW m \in Message, m.role = "tool",
           NEW n \in Message, IsNote(n), NEW a \in DOMAIN ms
    PROVE  Ended(Append(Append(ms, m), n), a)
<1> DEFINE ns == Append(Append(ms, m), n)
           k == Len(ms) + 2
<1>1. /\ Len(ns) = k /\ ns[k] = n /\ ns[k - 1] = m /\ Len(ms) \in Nat
      /\ a \in 1..Len(ms)
  OBVIOUS
<1> HIDE DEF ns
<1>2. k \in (a + 2)..Len(ns)
  BY <1>1
<1> QED BY <1>1, <1>2 DEF Ended, ns

\* A result of an ended batch comes after a Block.
LEMMA AfterBlock ==
    ASSUME NEW ms \in Seq(Message), NEW m \in Message, m.role = "tool",
           NEW a \in DOMAIN ms, NEW s, InBatch(ms, a, s), In(s, m.id), Ended(ms, a)
    PROVE  Blocked(Append(ms, m), Len(ms) + 1)
<1> DEFINE ns == Append(ms, m)
           k == Len(ms) + 1
<1>1. /\ Len(ms) \in Nat /\ ns[k] = m /\ \A j \in 1..Len(ms) : ns[j] = ms[j]
      /\ a \in 1..Len(ms) /\ k - 1 = Len(ms)
  OBVIOUS
<1> HIDE DEF ns
<1>2. PICK n \in (a + 2)..Len(ms) : IsNote(ms[n]) /\ ms[n - 1].role = "tool"
  BY DEF Ended
<1>3. n \in 1..Len(ms) /\ n - 1 \in 1..Len(ms) /\ a + 1 < n
  BY <1>1, <1>2
<1>4. IsNote(ns[n]) /\ ns[n - 1].role = "tool" /\ Contains(ns[a].calls, ns[k].id)
  BY <1>1, <1>2, <1>3 DEF InBatch
<1>5. \A j \in (a + 1)..Len(ms) : ns[j].role = "tool" \/ IsNote(ns[j])
  <2>1. \A j \in (a + 1)..Len(ms) : j \in 1..Len(ms)
    BY <1>1
  <2> QED BY <1>1, <2>1 DEF InBatch
<1>6. a \in 1..(k - 1) /\ n \in 1..(k - 1)
  BY <1>1, <1>3
<1>7. \A j \in (a + 1)..(k - 1) : ns[j].role = "tool" \/ IsNote(ns[j])
  BY <1>1, <1>5
<1> HIDE DEF k
<1>8. Blocked(ns, k)
  BY <1>3, <1>4, <1>6, <1>7 DEF Blocked
<1> QED BY <1>8 DEF ns, k

\* One result and, if it was blocked, a note.
LEMMA BatchStep ==
    ASSUME IInv, WInv, NEW block \in BOOLEAN, ApplyResult(block)
    PROVE  WInv'
<1> DEFINE h == Head(todo)
           m == Result(h, tags + 1)
           n == Synthetic(tags + 2)
           tail == IF block THEN <<n>> ELSE <<>>
           ms == <<m>> \o tail
           as == Append(msgs, m)
<1>1. /\ phase = "batch" /\ Push(ms) /\ todo' = Tail(todo)
      /\ phase' = IF Len(todo) = 1 THEN "running" ELSE "batch"
      /\ UNCHANGED <<epoch, rollback, wire>>
  BY DEF ApplyResult
<1>2. /\ msgs \in Seq(Message) /\ wire \in Seq(Message) /\ todo \in Seq(Ids) /\ todo # <<>>
      /\ tags \in Nat /\ MaxTags \in Nat
  BY <1>1, ConversationAssumption DEF IInv, TypeOK
<1>3. h \in Ids /\ Tail(todo) \in Seq(Ids)
  BY <1>2
<1>4. Len(ms) = IF block THEN 2 ELSE 1
  OBVIOUS
<1>5. tags + Len(ms) <= MaxTags /\ msgs' = msgs \o ms
  BY <1>1 DEF Push
<1>6. tags + 1 \in 0..MaxTags /\ (block => tags + 2 \in 0..MaxTags)
  BY <1>2, <1>4, <1>5
<1>7. m \in Message /\ m.role = "tool" /\ m.id = h
  BY <1>3, <1>6, Pushed DEF Result, Msg
<1>8. block => n \in Message /\ n.role # "tool" /\ n.calls = <<>> /\ IsNote(n)
  <2>1. block => n \in Message
    BY <1>6, Pushed
  <2>2. n.role # "tool" /\ n.calls = <<>> /\ IsNote(n)
    BY DEF Synthetic, Msg, IsNote
  <2> QED BY <2>1, <2>2
<1> HIDE DEF m, n
<1>9. msgs' = IF block THEN Append(as, n) ELSE as
  <2>1. CASE block
    <3>1. msgs' = msgs \o (<<m>> \o <<n>>)
      BY <1>5, <2>1
    <3>2. msgs \o (<<m>> \o <<n>>) = (msgs \o <<m>>) \o <<n>>
      BY <1>2, <1>7, <1>8, <2>1, ConcatAssociative
    <3>3. (msgs \o <<m>>) \o <<n>> = Append(as, n)
      BY <1>2, <1>7, <1>8, <2>1, AppendIsConcat
    <3> QED BY <2>1, <3>1, <3>2, <3>3
  <2>2. CASE ~block
    BY <1>2, <1>5, <1>7, <2>2
  <2> QED BY <2>1, <2>2
<1> HIDE DEF ms
<1> DEFINE v == LastW(msgs)
           w == LastW(as)
<1>10. as \in Seq(Message) /\ Pre(msgs, as)
  BY <1>2, <1>7, LastAppend
<1>11. /\ w.pending = v.pending
       /\ w.resolved = IF In(v.pending, h) THEN v.resolved \cup {h} ELSE v.resolved
  BY <1>2, <1>7, Takes
<1> HIDE DEF as
<1>12. Pre(wire, w.out)
  <2>1. Pre(wire, v.out)
    BY <1>1 DEF WInv, Extends
  <2>2. Pre(v.out, w.out)
    BY <1>2, <1>10, LastGrows
  <2>3. v \in Window /\ w \in Window
    BY <1>2, <1>10, WIsWindows
  <2>4. v.out \in Seq(Message) /\ w.out \in Seq(Message)
    BY <2>3 DEF Window
  <2> QED BY <1>2, <2>1, <2>2, <2>4, PreTrans
<1>13. Pre(wire, repair_pairing(as))
  <2>1. w \in Window /\ Shape(w) /\ repair_pairing(as) = Close(w)
    BY <1>10, WIsWindows
  <2>2. Pre(w.out, Close(w)) /\ w.out \in Seq(Message) /\ Close(w) \in Seq(Message)
    BY <1>7, <2>1, OutGrows, CloseShape DEF Window
  <2> QED BY <1>2, <1>12, <2>1, <2>2, PreTrans
<1>14. \A i : In(todo, i) <=> i = h \/ In(Tail(todo), i)
  <2> DEFINE t == Tail(todo)
  <2>1. /\ DOMAIN todo = 1..Len(todo) /\ Len(todo) \in Nat /\ todo[1] = h
        /\ DOMAIN t = 1..(Len(todo) - 1) /\ \A k \in 1..(Len(todo) - 1) : t[k] = todo[k + 1]
    BY <1>2
  <2>2. 1 \in DOMAIN todo
    BY <1>2, <2>1
  <2>3. \A k \in DOMAIN t : k + 1 \in DOMAIN todo /\ t[k] = todo[k + 1]
    BY <2>1
  <2>4. \A k \in DOMAIN todo : k = 1 \/ (k - 1 \in DOMAIN t /\ t[k - 1] = todo[k])
    BY <2>1
  <2> HIDE DEF t, h
  <2>5. \A i : In(todo, i) <=> i = h \/ In(t, i)
    BY <2>1, <2>2, <2>3, <2>4 DEF In
  <2> QED BY <2>5 DEF t
<1>15. Settles(w, Tail(todo))
  <2>1. Settles(v, todo)
    BY <1>1 DEF WInv, Waits
  <2> HIDE DEF h
  <2> QED BY <1>11, <1>14, <2>1 DEF Settles
<1>16. phase' \in {"running", "batch"}
  BY <1>1
<1>17. PICK a \in DOMAIN msgs : InBatch(msgs, a, todo) /\ (Awaits(v, todo) \/ Ended(msgs, a))
  BY <1>1 DEF WInv, BatchOpen, Batch
<1>18. Stored(as)
  <2>1. CASE Awaits(v, todo)
    <3>1. In(v.pending, h) /\ h \notin v.resolved
      BY <1>14, <2>1 DEF Awaits
    <3>2. In(w.out, m)
      BY <1>2, <1>7, <3>1, Takes DEF as
    <3> QED BY <1>2, <1>7, <3>2, StoredAppend DEF WInv, as
  <2>2. CASE Ended(msgs, a)
    <3>1. Blocked(as, Len(msgs) + 1)
      BY <1>2, <1>7, <1>14, <1>17, <2>2, AfterBlock DEF as
    <3> QED BY <1>2, <1>7, <3>1, StoredAppend DEF WInv, as
  <2> QED BY <1>17, <2>1, <2>2
<1>19. Distinct(Tail(todo)) /\ ~In(Tail(todo), h)
  <2> DEFINE t == Tail(todo)
  <2>1. Distinct(todo)
    BY <1>1 DEF WInv, BatchOpen, Batch
  <2>2. /\ DOMAIN todo = 1..Len(todo) /\ Len(todo) \in Nat /\ todo[1] = h
        /\ DOMAIN t = 1..(Len(todo) - 1) /\ \A k \in 1..(Len(todo) - 1) : t[k] = todo[k + 1]
    BY <1>2
  <2>3. \A k \in DOMAIN t : k + 1 \in DOMAIN todo /\ t[k] = todo[k + 1] /\ k + 1 # 1
    BY <2>2
  <2>4. 1 \in DOMAIN todo
    BY <1>2, <2>2
  <2>5. \A j, k \in DOMAIN t : j + 1 = k + 1 => j = k
    BY <2>2
  <2> HIDE DEF t, h
  <2>6. Distinct(t)
    BY <2>1, <2>3, <2>5 DEF Distinct
  <2>7. ~In(t, h)
    BY <2>1, <2>2, <2>3, <2>4 DEF In, Distinct
  <2> QED BY <2>6, <2>7 DEF t
<1>20. \A i : In(Tail(todo), i) => In(todo, i)
  BY <1>14
<1>21. /\ a \in DOMAIN as /\ InBatch(as, a, Tail(todo))
       /\ Ended(msgs, a) => Ended(as, a)
  BY <1>2, <1>7, <1>17, <1>20, BatchGrows DEF as
<1>22. CASE block
  <2> DEFINE ns == Append(as, n)
  <2>1. /\ Pre(wire, LastW(ns).out) /\ Pre(wire, repair_pairing(ns))
        /\ \A s : Settles(LastW(ns), s)
        /\ Stored(as) => Stored(ns)
    BY <1>2, <1>8, <1>10, <1>13, <1>22, PushUser
  <2>2. msgs' = ns /\ wire' = wire
    BY <1>1, <1>9, <1>22
  <2>3. a \in DOMAIN ns /\ InBatch(ns, a, Tail(todo))
    BY <1>8, <1>10, <1>21, <1>22, BatchGrows
  <2>4. Ended(ns, a)
    BY <1>2, <1>7, <1>8, <1>22, NoteEnds DEF as
  <2> HIDE DEF ns
  <2>5. Batch(ns, Tail(todo))
    BY <1>19, <2>3, <2>4 DEF Batch
  <2>6. BatchOpen'
    BY <1>1, <2>2, <2>5 DEF BatchOpen
  <2> QED BY <1>16, <1>18, <2>1, <2>2, <2>6 DEF WInv, Extends, Waits
<1>23. CASE ~block
  <2>1. msgs' = as /\ wire' = wire
    BY <1>1, <1>9, <1>23
  <2>2. Awaits(v, todo) => Awaits(w, Tail(todo))
    <3> HIDE DEF h
    <3> QED BY <1>11, <1>14, <1>19 DEF Awaits
  <2>3. Batch(as, Tail(todo))
    BY <1>17, <1>19, <1>21, <2>2 DEF Batch
  <2>4. BatchOpen'
    BY <1>1, <2>1, <2>3 DEF BatchOpen
  <2>5. Extends'
    BY <1>12, <1>13, <2>1 DEF Extends
  <2>6. Waits'
    BY <1>1, <1>15, <2>1 DEF Waits
  <2>7. phase' # "sent"
    BY <1>16
  <2> QED BY <1>18, <2>1, <2>4, <2>5, <2>6, <2>7 DEF WInv
<1> QED BY <1>22, <1>23

\* The results a backfill makes up lose nothing that is stored.
LEMMA BackfillStored ==
    ASSUME NEW ms \in Seq(Message)
    PROVE  /\ Backfill(ms) \in Seq(Message) /\ Pre(ms, Backfill(ms))
           /\ Stored(ms) => Stored(Backfill(ms))
<1>1. PICK ph \in Seq(Message) : Backfill(ms) = ms \o ph /\ \A k \in DOMAIN ph : ph[k].tag = 0
  BY BackfillType
<1> DEFINE ns == ms \o ph
<1>2. ns \in Seq(Message) /\ Pre(ms, ns)
  BY PreConcat
<1>3. \A k \in DOMAIN ns : k \notin DOMAIN ms =>
         k - Len(ms) \in DOMAIN ph /\ ns[k] = ph[k - Len(ms)]
  OBVIOUS
<1> HIDE DEF ns
<1>4. Stored(ms) => Stored(ns)
  BY <1>1, <1>2, <1>3, StoredGrows
<1> QED BY <1>1, <1>2, <1>4 DEF ns

\* A cancelled turn: the work is kept and paired, or the turn is undone.
LEMMA CancelStep ==
    ASSUME IInv, WInv, NEW internal \in BOOLEAN, finish_cancelled(internal)
    PROVE  WInv'
<1> DEFINE m == Synthetic(tags + 1)
<1>1. /\ msgs \in Seq(Message) /\ wire \in Seq(Message) /\ tags \in Nat /\ MaxTags \in Nat
      /\ rollback \in Nat
  BY ConversationAssumption DEF IInv, TypeOK
<1>2. /\ phase # "idle" /\ tags < MaxTags
      /\ msgs' = IF internal THEN Kept ELSE Append(Kept, m)
      /\ wire' = IF IsPrefix(msgs, Kept) THEN wire ELSE repair_pairing(Kept)
      /\ phase' = "idle"
  BY DEF finish_cancelled
<1>3. m \in Message /\ m.role # "tool" /\ m.calls = <<>>
  <2>1. tags + 1 \in 0..MaxTags
    BY <1>1, <1>2
  <2>2. m \in Message
    BY <2>1, Pushed
  <2>3. m.role # "tool" /\ m.calls = <<>>
    BY DEF Synthetic, Msg
  <2> QED BY <2>2, <2>3
<1> HIDE DEF m
<1>4. /\ Kept \in Seq(Message)
      /\ Pre(msgs, Kept) \/ Pre(Kept, msgs)
      /\ Stored(msgs) => Stored(Kept)
  <2>1. CASE Keep /\ DidWork
    <3>1. Kept = Backfill(msgs)
      BY <2>1 DEF Kept
    <3> QED BY <1>1, <3>1, BackfillStored
  <2>2. CASE ~(Keep /\ DidWork)
    <3> DEFINE n == Min2(rollback, Len(msgs))
    <3>1. Kept = SubSeq(msgs, 1, n)
      BY <2>2 DEF Kept
    <3>2. n \in 0..Len(msgs)
      BY <1>1 DEF Min2
    <3> HIDE DEF n
    <3>3. SubSeq(msgs, 1, n) \in Seq(Message) /\ Pre(SubSeq(msgs, 1, n), msgs)
      BY <1>1, <3>2, CutPre
    <3> QED BY <1>1, <3>1, <3>3, StoredCut
  <2> QED BY <2>1, <2>2
<1>5. repair_pairing(Kept) \in Seq(Message)
  BY <1>4, RepairPaired
<1>6. wire' \in Seq(Message) /\ Pre(wire', repair_pairing(Kept))
  <2>1. CASE IsPrefix(msgs, Kept)
    <3>1. Pre(msgs, Kept)
      BY <1>1, <1>4, <2>1, PrefixIsPre
    <3> DEFINE v == LastW(msgs)
               w == LastW(Kept)
    <3>2. Pre(v.out, w.out)
      BY <1>1, <1>4, <3>1, LastGrows
    <3>3. /\ v \in Window /\ w \in Window /\ Shape(w)
          /\ repair_pairing(Kept) = Close(w)
      BY <1>1, <1>4, WIsWindows
    <3>4. v.out \in Seq(Message) /\ w.out \in Seq(Message)
      BY <3>3 DEF Window
    <3>5. Pre(wire, v.out)
      BY <1>2 DEF WInv, Extends
    <3>6. Pre(w.out, Close(w))
      BY <1>3, <3>3, OutGrows
    <3>7. Pre(wire, w.out)
      BY <1>1, <3>2, <3>4, <3>5, PreTrans
    <3>8. Pre(wire, Close(w))
      BY <1>1, <1>5, <3>3, <3>4, <3>6, <3>7, PreTrans
    <3> QED BY <1>1, <1>2, <2>1, <3>3, <3>8
  <2>2. CASE ~IsPrefix(msgs, Kept)
    <3>1. Pre(repair_pairing(Kept), repair_pairing(Kept))
      BY <1>5, PreConcat
    <3> QED BY <1>2, <1>5, <2>2, <3>1
  <2> QED BY <2>1, <2>2
<1>7. Pre(wire', repair_pairing(msgs')) /\ (Stored(msgs) => Stored(msgs'))
  <2>1. CASE internal
    BY <1>2, <1>4, <1>6, <2>1
  <2>2. CASE ~internal
    <3>1. /\ Pre(wire', repair_pairing(Append(Kept, m)))
          /\ Stored(Kept) => Stored(Append(Kept, m))
      BY <1>3, <1>4, <1>6, PushUser
    <3> QED BY <1>2, <1>4, <2>2, <3>1
  <2> QED BY <2>1, <2>2
<1> QED BY <1>2, <1>7 DEF WInv, Extends, Waits, BatchOpen

\* Messages of the user: pushed alone or after the context of a controller.
LEMMA UserStep ==
    ASSUME IInv, WInv, NEW m \in Message, m.role # "tool", m.calls = <<>>,
           NEW ms \in Seq(Message), Pre(wire, repair_pairing(ms)), Stored(msgs) => Stored(ms),
           msgs' = Append(ms, m), wire' = wire, phase' = "running"
    PROVE  WInv'
<1>1. wire \in Seq(Message)
  BY DEF IInv, TypeOK
<1> DEFINE ns == Append(ms, m)
<1>2. /\ Pre(wire, LastW(ns).out) /\ Pre(wire, repair_pairing(ns))
      /\ \A s : Settles(LastW(ns), s)
      /\ Stored(ms) => Stored(ns)
  BY <1>1, PushUser
<1>3. msgs' = ns
  OBVIOUS
<1> HIDE DEF ns
<1> QED BY <1>2, <1>3 DEF WInv, Extends, Waits, BatchOpen

\* Every step keeps what was sent a prefix of the history.
LEMMA NextWindows == IInv /\ IInv' /\ WInv /\ [Next]_vars => WInv'
<1> SUFFICES ASSUME IInv, IInv', WInv, [Next]_vars PROVE WInv'
  OBVIOUS
<1>1. /\ msgs \in Seq(Message) /\ wire \in Seq(Message) /\ todo \in Seq(Ids)
      /\ tags \in Nat /\ MaxTags \in Nat
      /\ (todo # <<>> <=> phase = "batch")
      /\ Pre(wire, repair_pairing(msgs))
  BY ConversationAssumption DEF IInv, TypeOK, WInv, Extends
<1>2. msgs' \in Seq(Message) /\ wire' \in Seq(Message)
  BY DEF IInv, TypeOK
<1>3. \A t : /\ User(t).role # "tool" /\ User(t).calls = <<>>
             /\ Synthetic(t).role # "tool" /\ Synthetic(t).calls = <<>>
  BY DEF User, Synthetic, Msg
<1>4. ASSUME NEW t \in Nat, t <= MaxTags
      PROVE  /\ User(t) \in Message /\ Synthetic(t) \in Message
             /\ \A c \in Seq(Ids) : Assistant(c, t) \in Message
  <2>1. t \in 0..MaxTags
    BY <1>1, <1>4
  <2> QED BY <2>1, Pushed
<1>5. ASSUME NEW real \in BOOLEAN, NEW context \in BOOLEAN, Submit(real, context)
      PROVE  WInv'
  <2> DEFINE ctx == IF context THEN <<Synthetic(tags + 1)>> ELSE <<>>
             t == tags + Len(ctx) + 1
             m == IF real THEN User(t) ELSE Synthetic(t)
             ms == msgs \o ctx
  <2>1. Push(Append(ctx, m)) /\ phase' = "running" /\ wire' = wire
    BY <1>5 DEF Submit
  <2>2. Len(ctx) = IF context THEN 1 ELSE 0
    OBVIOUS
  <2>3. Len(Append(ctx, m)) = Len(ctx) + 1
    OBVIOUS
  <2>4. t \in Nat /\ t <= MaxTags /\ (context => tags + 1 \in Nat /\ tags + 1 <= MaxTags)
    BY <1>1, <2>1, <2>2, <2>3 DEF Push
  <2>5. m \in Message /\ m.role # "tool" /\ m.calls = <<>>
    BY <1>3, <1>4, <2>4
  <2> HIDE DEF m
  <2>6. ctx \in Seq(Message)
    BY <1>4, <2>4
  <2>7. msgs' = Append(ms, m) /\ ms \in Seq(Message)
    <3> HIDE DEF ctx
    <3>1. msgs' = msgs \o Append(ctx, m)
      BY <2>1 DEF Push
    <3>2. msgs \o Append(ctx, m) = Append(msgs \o ctx, m)
      BY <1>1, <2>5, <2>6
    <3> QED BY <1>1, <2>6, <3>1, <3>2
  <2>8. Pre(wire, repair_pairing(ms)) /\ (Stored(msgs) => Stored(ms))
    <3>1. CASE context
      <4> DEFINE c == Synthetic(tags + 1)
      <4>1. c \in Message /\ c.role # "tool" /\ c.calls = <<>>
        BY <1>3, <1>4, <2>4, <3>1
      <4>2. ms = msgs \o <<c>>
        BY <3>1
      <4> HIDE DEF c, ms
      <4>3. ms = Append(msgs, c)
        BY <1>1, <4>1, <4>2, AppendIsConcat
      <4> QED BY <1>1, <4>1, <4>3, PushUser
    <3>2. CASE ~context
      <4>1. ms = msgs
        BY <1>1, <3>2
      <4> QED BY <1>1, <4>1
    <3> QED BY <3>1, <3>2
  <2> HIDE DEF ms
  <2> QED BY <2>1, <2>5, <2>7, <2>8, UserStep
<1>6. CASE Send
  <2> DEFINE w == LastW(msgs)
  <2>1. /\ phase = "running" /\ phase' = "sent" /\ wire' = repair_pairing(msgs)
        /\ UNCHANGED <<msgs, todo>>
    BY <1>6 DEF Send
  <2>2. w \in Window /\ repair_pairing(msgs) = Close(w)
    BY <1>1, WIsWindows
  <2>3. todo = <<>>
    BY <1>1, <2>1
  <2>4. Settles(w, <<>>)
    BY <2>1, <2>3 DEF WInv, Waits
  <2>5. repair_pairing(msgs) = w.out
    BY <2>2, <2>4, SettledClose
  <2>6. Pre(wire', wire')
    BY <1>2, PreConcat
  <2>7. Extends'
    BY <2>1, <2>5, <2>6 DEF Extends
  <2>8. Waits'
    BY <2>1, <2>3, <2>4 DEF Waits
  <2> QED BY <2>1, <2>7, <2>8 DEF WInv, BatchOpen
<1>7. CASE Retry
  BY <1>7 DEF Retry, WInv, Extends, Waits, BatchOpen
<1>8. CASE Finish
  BY <1>8 DEF Finish, WInv, Extends, Waits, BatchOpen
<1>9. ASSUME NEW c \in Responses, Respond(c) PROVE WInv'
  <2> DEFINE m == Assistant(c, tags + 1)
             ns == Append(msgs, m)
             w == LastW(ns)
  <2>1. /\ phase = "sent" /\ Push(<<m>>) /\ todo' = Unique(c) /\ wire' = wire
        /\ phase' = IF c = <<>> THEN "answered" ELSE "batch"
    BY <1>9 DEF Respond
  <2>2. c \in Seq(Ids)
    BY ConversationAssumption
  <2>3. tags + 1 \in Nat /\ tags + 1 <= MaxTags
    BY <1>1, <2>1 DEF Push
  <2>4. m \in Message /\ m.role # "tool" /\ m.calls = c
    <3>1. m \in Message
      BY <1>4, <2>2, <2>3
    <3>2. m.role # "tool" /\ m.calls = c
      BY DEF Assistant, Msg
    <3> QED BY <3>1, <3>2
  <2> HIDE DEF m
  <2>5. msgs' = ns /\ ns \in Seq(Message) /\ Pre(msgs, ns)
    <3>1. msgs' = msgs \o <<m>>
      BY <2>1 DEF Push
    <3>2. msgs \o <<m>> = ns
      BY <1>1, <2>4, AppendIsConcat
    <3> QED BY <1>1, <2>4, <3>1, <3>2, LastAppend
  <2>6. /\ Pre(repair_pairing(msgs), w.out)
        /\ w.pending = Unique(c) /\ w.resolved = {}
    BY <1>1, <2>4, Opens
  <2>7. w \in Window /\ Shape(w) /\ repair_pairing(ns) = Close(w)
    BY <2>5, WIsWindows
  <2>8. /\ repair_pairing(msgs) \in Seq(Message) /\ w.out \in Seq(Message)
        /\ Close(w) \in Seq(Message)
    BY <1>1, <2>7, RepairPaired, CloseShape DEF Window
  <2>9. Pre(wire, w.out)
    BY <1>1, <2>6, <2>8, PreTrans
  <2>10. Pre(wire, Close(w))
    <3>1. Pre(w.out, Close(w))
      BY <2>4, <2>7, OutGrows
    <3> QED BY <1>1, <2>8, <2>9, <3>1, PreTrans
  <2>11. Stored(msgs) => Stored(ns)
    <3>1. \A k \in DOMAIN ns : k \notin DOMAIN msgs => ns[k] = m
      BY <1>1, <2>4
    <3> HIDE DEF ns
    <3> QED BY <1>1, <2>4, <2>5, <3>1, StoredGrows
  <2>12. Distinct(Unique(c))
    BY <2>2, UniqueFacts DEF Uniq
  <2> HIDE DEF ns
  <2>13. Extends'
    BY <2>1, <2>5, <2>7, <2>9, <2>10 DEF Extends
  <2>14. Waits'
    BY <2>1, <2>5, <2>6 DEF Waits, Settles
  <2>15. BatchOpen'
    <3> DEFINE a == Len(msgs) + 1
               u == Unique(c)
    <3>1. ns[a] = m /\ Len(ns) = a /\ a \in DOMAIN ns
      BY <1>1, <2>4 DEF ns
    <3>2. \A i : In(u, i) => In(c, i)
      <4>1. \A i : In(w.pending, i) <=> In(m.calls, i)
        BY <1>1, <2>4, Opens DEF ns
      <4> QED BY <2>4, <2>6, <4>1
    <3>3. InBatch(ns, a, u)
      <4>1. \A i : In(u, i) => Contains(ns[a].calls, i)
        BY <2>2, <2>4, <3>1, <3>2, CallIds
      <4>2. (a + 1)..Len(ns) = {}
        BY <1>1, <3>1
      <4> QED BY <4>1, <4>2 DEF InBatch
    <3>4. Awaits(w, u)
      BY <2>6 DEF Awaits
    <3> HIDE DEF a, u
    <3>5. Batch(ns, u)
      BY <2>12, <3>1, <3>3, <3>4 DEF Batch, u
    <3> QED BY <2>1, <2>5, <3>5 DEF BatchOpen, u
  <2>16. phase' # "sent"
    BY <2>1
  <2> QED BY <2>5, <2>11, <2>13, <2>14, <2>15, <2>16 DEF WInv
<1>10. ASSUME NEW c \in Responses, NEW on \in BOOLEAN, Partial(c, on) PROVE WInv'
  <2> DEFINE m == Assistant(Unique(c), tags + 1)
             as == Append(msgs, m)
             kept == Backfill(as)
             n == Synthetic(tags + 2)
  <2>1. /\ phase = "sent" /\ tags + 2 <= MaxTags /\ wire' = wire
        /\ msgs' = IF on THEN Append(kept, n) ELSE kept
        /\ phase' = IF on THEN "running" ELSE "idle"
    BY <1>10 DEF Partial
  <2>2. Unique(c) \in Seq(Ids)
    <3>1. c \in Seq(Ids)
      BY ConversationAssumption
    <3> QED BY <3>1, UniqueFacts DEF Uniq
  <2>3. /\ tags + 1 \in Nat /\ tags + 1 <= MaxTags /\ tags + 2 \in Nat
    BY <1>1, <2>1
  <2>4. m \in Message /\ n \in Message
    BY <1>4, <2>1, <2>2, <2>3
  <2>5. m.role # "tool" /\ n.role # "tool" /\ n.calls = <<>>
    BY <1>3 DEF Assistant, Msg
  <2> HIDE DEF m, n
  <2>6. as \in Seq(Message) /\ Pre(msgs, as) /\ Pre(repair_pairing(msgs), LastW(as).out)
    BY <1>1, <2>4, <2>5, LastAppend, Opens
  <2>7. \A k \in DOMAIN as : k \notin DOMAIN msgs => as[k].role # "tool"
    BY <1>1, <2>4, <2>5
  <2> HIDE DEF as
  <2>9. kept \in Seq(Message) /\ Pre(as, kept) /\ (Stored(as) => Stored(kept))
    BY <2>6, BackfillStored
  <2> HIDE DEF kept
  <2>11. Stored(msgs) => Stored(kept)
    <3>1. Stored(msgs) => Stored(as)
      BY <1>1, <2>6, <2>7, StoredGrows
    <3> QED BY <2>9, <3>1
  <2>12. Pre(wire, repair_pairing(kept))
    <3> DEFINE v == LastW(as)
               w == LastW(kept)
    <3>1. /\ v \in Window /\ w \in Window /\ Shape(w) /\ repair_pairing(kept) = Close(w)
      BY <2>6, <2>9, WIsWindows
    <3>2. /\ v.out \in Seq(Message) /\ w.out \in Seq(Message) /\ Close(w) \in Seq(Message)
          /\ repair_pairing(msgs) \in Seq(Message)
      BY <1>1, <3>1, RepairPaired, CloseShape DEF Window
    <3>3. Pre(v.out, w.out)
      BY <2>6, <2>9, LastGrows
    <3>4. Pre(w.out, Close(w))
      BY <2>4, <3>1, OutGrows
    <3>5. Pre(wire, v.out)
      BY <1>1, <2>6, <3>2, PreTrans
    <3>6. Pre(wire, w.out)
      BY <1>1, <3>2, <3>3, <3>5, PreTrans
    <3>7. Pre(wire, Close(w))
      BY <1>1, <3>2, <3>4, <3>6, PreTrans
    <3> QED BY <3>1, <3>7
  <2>13. CASE on
    <3>1. msgs' = Append(kept, n) /\ phase' = "running"
      BY <2>1, <2>13
    <3> QED BY <2>1, <2>4, <2>5, <2>9, <2>11, <2>12, <3>1, UserStep
  <2>14. CASE ~on
    <3>1. msgs' = kept /\ phase' = "idle"
      BY <2>1, <2>14
    <3> QED BY <2>1, <2>11, <2>12, <3>1 DEF WInv, Extends, Waits, BatchOpen
  <2> QED BY <2>13, <2>14
<1>11. ASSUME NEW b \in BOOLEAN, ApplyResult(b) PROVE WInv'
  BY <1>11, BatchStep
<1>12. ASSUME NEW real \in BOOLEAN, Note(real) PROVE WInv'
  <2> DEFINE m == IF real THEN User(tags + 1) ELSE Synthetic(tags + 1)
  <2>1. Push(<<m>>) /\ phase' = "running" /\ wire' = wire
    BY <1>12 DEF Note
  <2>2. tags + 1 \in Nat /\ tags + 1 <= MaxTags
    BY <1>1, <2>1 DEF Push
  <2>3. m \in Message /\ m.role # "tool" /\ m.calls = <<>>
    BY <1>3, <1>4, <2>2
  <2> HIDE DEF m
  <2>4. msgs' = Append(msgs, m)
    <3>1. msgs' = msgs \o <<m>>
      BY <2>1 DEF Push
    <3> QED BY <1>1, <2>3, <3>1, AppendIsConcat
  <2> QED BY <1>1, <2>1, <2>3, <2>4, UserStep
<1>13. ASSUME NEW b \in BOOLEAN, finish_cancelled(b) PROVE WInv'
  BY <1>13, CancelStep
<1>14. ASSUME NEW plan \in Plans(Len(msgs)), Compact(plan) PROVE WInv'
  <2>1. sacred_floor(msgs) \in Nat
    BY <1>1, FloorType
  <2>2. /\ phase \in {"idle", "running"} /\ wire' = <<>> /\ UNCHANGED <<phase, todo>>
        /\ msgs' = Candidate(msgs, plan, sacred_floor(msgs))
    BY <1>14 DEF Compact
  <2>3. Paired(msgs')
    BY <1>1, <2>1, <2>2, CandidateType
  <2>4. Stored(msgs') /\ Settles(LastW(msgs'), <<>>)
    BY <1>2, <2>3, PairedStored
  <2>5. todo' = <<>>
    BY <1>1, <2>2
  <2>6. \A s \in Seq(Message) : Pre(<<>>, s)
    BY DEF Pre
  <2>7. repair_pairing(msgs') \in Seq(Message) /\ LastW(msgs').out \in Seq(Message)
    <3>1. LastW(msgs') \in Window
      BY <1>2, WIsWindows
    <3> QED BY <1>2, <3>1, RepairPaired DEF Window
  <2>8. Extends'
    BY <2>2, <2>6, <2>7 DEF Extends
  <2>9. Waits'
    BY <2>4, <2>5 DEF Waits
  <2> QED BY <2>2, <2>4, <2>8, <2>9 DEF WInv, BatchOpen
<1>15. CASE UNCHANGED vars
  BY <1>15 DEF vars, WInv, Extends, Waits, BatchOpen
<1> QED BY <1>5, <1>6, <1>7, <1>8, <1>9, <1>10, <1>11, <1>12, <1>13, <1>14, <1>15 DEF Next

\* What was sent is a prefix of what will be sent next.
LEMMA PrefixStep == IInv /\ WInv /\ [Next]_vars =>
                    [phase = "running" /\ phase' = "sent" => IsPrefix(wire, wire')]_vars
<1> SUFFICES ASSUME IInv, WInv, Next, phase = "running", phase' = "sent"
             PROVE  IsPrefix(wire, wire')
  BY DEF vars
<1>1. Send
  BY DEF Next, Submit, Retry, Finish, Respond, Partial, ApplyResult, Note,
         finish_cancelled, Compact
<1>2. wire' = repair_pairing(msgs) /\ Pre(wire, repair_pairing(msgs))
  BY <1>1 DEF Send, WInv, Extends
<1>3. msgs \in Seq(Message) /\ wire \in Seq(Message)
  BY DEF IInv, TypeOK
<1> QED BY <1>2, <1>3, RepairPaired, PrefixIsPre

\* The last request stays a prefix of what the repair makes of the history.
THEOREM WindowInvariant == Spec => []WInv
BY InitWindows, NextWindows, Invariant, PTL DEF Spec

\* The cache contract: between two commits of a compaction each request extends
\* the one before it, through results, notes, partial answers and cancels.
THEOREM CachePrefix == Spec => PrefixStable
BY Invariant, WindowInvariant, PrefixStep, PTL DEF Spec, PrefixStable

\* Every tool result a turn has stored reaches the model in the next request,
\* unless an after-middleware blocked an earlier result of the same batch: the
\* reason of the Block is pushed between the results and ends their window, and
\* repair_pairing drops the later ones.
THEOREM OnlyBlocks == Spec => []OnlyBlockWithholds
<1>1. IInv /\ WInv => OnlyBlockWithholds
  <2> SUFFICES ASSUME IInv, WInv, phase = "sent", NEW k \in DOMAIN msgs,
                      msgs[k].role = "tool", msgs[k].tag # 0, ~Blocked(msgs, k)
               PROVE  Contains(wire, msgs[k])
    BY DEF OnlyBlockWithholds, StoredResults
  <2>1. msgs \in Seq(Message) /\ wire \in Seq(Message) /\ wire = repair_pairing(msgs)
    BY DEF IInv, TypeOK, WInv
  <2>2. In(W(msgs)[k].out, msgs[k])
    BY DEF WInv, Stored
  <2> DEFINE a == W(msgs)[k].out
             w == LastW(msgs)
  <2>3. k \in 0..Len(msgs)
    BY <2>1
  <2>4. Pre(a, w.out)
    BY <2>1, <2>3, WindowsGrow
  <2>5. /\ W(msgs)[k] \in Window /\ w \in Window /\ Shape(w)
        /\ wire = Close(w) /\ msgs[k] \in Message
    BY <2>1, <2>3, WIsWindows DEF Windows
  <2>6. a \in Seq(Message) /\ w.out \in Seq(Message) /\ Pre(w.out, wire)
    BY <2>5, OutGrows DEF Window
  <2>7. In(wire, msgs[k])
    BY <2>1, <2>2, <2>4, <2>6, PreIn
  <2> QED BY <2>1, <2>7, CallIds
<1> QED BY <1>1, Invariant, WindowInvariant, PTL

-----------------------------------------------------------------------------
(* What a compaction protects.                                             *)

\* No message of s is a prompt of the user.
NoReal(s) == \A j \in DOMAIN s : ~s[j].real

\* The made-up results of a window are no prompts.
LEMMA CloseNoReal ==
    ASSUME NEW w \in Window, NoReal(w.out)
    PROVE  NoReal(Close(w))
<1> DEFINE open == Only(w.pending, Ids \ w.resolved)
           ph == [k \in DOMAIN open |-> Placeholder(open[k])]
<1>1. w.out \in Seq(Message) /\ w.pending \in Seq(Ids)
  BY DEF Window
<1>2. open \in Seq(Ids)
  BY <1>1, OnlyFacts DEF KeptOf
<1>3. Close(w) = w.out \o ph
  BY DEF Close
<1> HIDE DEF open
<1>4. DOMAIN ph = 1..Len(open) /\ Len(open) \in Nat /\ \A k \in DOMAIN ph : ~ph[k].real
  BY <1>2 DEF Placeholder, Msg
<1>5. ph \in Seq({ph[k] : k \in DOMAIN ph})
  <2>1. \A k \in 1..Len(open) : ph[k] \in {ph[j] : j \in DOMAIN ph}
    BY <1>4
  <2>2. ph = [k \in 1..Len(open) |-> ph[k]]
    BY <1>4
  <2> HIDE DEF ph
  <2> QED BY <1>4, <2>1, <2>2, IsASeq
<1> HIDE DEF ph
<1> DEFINE c == w.out \o ph
<1>6. /\ DOMAIN c = 1..(Len(w.out) + Len(ph)) /\ Len(w.out) \in Nat /\ Len(ph) \in Nat
      /\ \A k \in 1..Len(w.out) : c[k] = w.out[k]
      /\ \A k \in (Len(w.out) + 1)..(Len(w.out) + Len(ph)) :
            k - Len(w.out) \in DOMAIN ph /\ c[k] = ph[k - Len(w.out)]
  BY <1>1, <1>5
<1>7. DOMAIN w.out = 1..Len(w.out)
  BY <1>1
<1>8. \A k \in DOMAIN c : k \in DOMAIN w.out \/ k \in (Len(w.out) + 1)..(Len(w.out) + Len(ph))
  BY <1>6, <1>7
<1> HIDE DEF c
<1>9. NoReal(c)
  BY <1>4, <1>6, <1>7, <1>8 DEF NoReal
<1> QED BY <1>3, <1>9 DEF c

\* A message at the end.
LEMMA AppendNoReal ==
    ASSUME NEW s \in Seq(Message), NEW m \in Message, NoReal(s)
    PROVE  /\ ~m.real => NoReal(Append(s, m))
           /\ m.real => FirstReal(Append(s, m), Len(s) + 1)
           /\ Len(s) + 1 \in DOMAIN Append(s, m) /\ Append(s, m)[Len(s) + 1] = m
<1> DEFINE r == Append(s, m)
           n == Len(s)
<1>1. /\ n \in Nat /\ DOMAIN s = 1..n /\ DOMAIN r = 1..(n + 1) /\ r[n + 1] = m
      /\ \A k \in 1..n : r[k] = s[k]
  OBVIOUS
<1>2. (\A k \in DOMAIN r : k \in 1..n \/ k = n + 1) /\ n + 1 \in DOMAIN r /\ (n + 1) - 1 = n
  BY <1>1
<1> HIDE DEF r
<1>3. ~m.real => NoReal(r)
  BY <1>1, <1>2 DEF NoReal
<1>4. m.real => FirstReal(r, n + 1)
  BY <1>1, <1>2 DEF NoReal, FirstReal
<1> QED BY <1>1, <1>2, <1>3, <1>4 DEF r

\* Before the first prompt the repair puts out no prompt.
LEMMA RepairNoReal ==
    ASSUME NEW ms \in Seq(Message), NEW k \in 1..Len(ms), \A j \in 1..(k - 1) : ~ms[j].real
    PROVE  NoReal(W(ms)[k - 1].out)
<1> DEFINE f == W(ms)
           L == k - 1
           T == {n \in 0..L : NoReal(f[n].out)}
<1>1. Windows(ms, f)
  BY WIsWindows
<1> HIDE DEF f
<1>2. Len(ms) \in Nat /\ L \in Nat /\ L <= Len(ms)
  OBVIOUS
<1>3. /\ \A n \in 0..Len(ms) : f[n] \in Window /\ Shape(f[n])
      /\ f[0] = Start /\ \A n \in 1..Len(ms) : f[n] = RepairStep(f[n - 1], ms[n])
  BY <1>1 DEF Windows
<1>4. NoReal(f[0].out)
  <2>1. f[0].out = <<>>
    BY <1>3 DEF Start
  <2> QED BY <2>1 DEF NoReal
<1>5. 0 \in T
  BY <1>2, <1>4
<1>6. ASSUME NEW n \in 0..(L - 1), n \in T PROVE n + 1 \in T
  <2> DEFINE w == f[n]
             m == ms[n + 1]
  <2>1. /\ n + 1 \in 1..Len(ms) /\ n + 1 \in 0..L /\ (n + 1) - 1 = n
        /\ n \in 0..Len(ms) /\ n + 1 \in 1..(k - 1)
    BY <1>2
  <2>2. f[n + 1] = RepairStep(w, m)
    BY <1>3, <2>1
  <2>3. w \in Window /\ Shape(w) /\ NoReal(w.out)
    BY <1>3, <1>6, <2>1
  <2>4. m \in Message /\ ~m.real
    BY <2>1
  <2>5. w.out \in Seq(Message) /\ Close(w) \in Seq(Message) /\ NoReal(Close(w))
    BY <2>3, CloseShape, CloseNoReal DEF Window
  <2> HIDE DEF w, m
  <2>6. RepairStep(w, m).out \in {w.out, Append(w.out, m), Append(Close(w), m)}
    BY <2>3 DEF RepairStep, Window
  <2>7. NoReal(Append(w.out, m)) /\ NoReal(Append(Close(w), m))
    BY <2>3, <2>4, <2>5, AppendNoReal
  <2>8. NoReal(f[n + 1].out)
    BY <2>2, <2>3, <2>6, <2>7
  <2> QED BY <2>1, <2>8
<1>7. 0..L \subseteq T
  <2> HIDE DEF T, L
  <2> QED BY <1>2, <1>5, <1>6, UpTo
<1>8. NoReal(f[L].out)
  BY <1>2, <1>7
<1> QED BY <1>8 DEF f

\* The repair keeps every message that is no result, and the first prompt
\* stays the first one.
LEMMA RepairKeeps ==
    ASSUME NEW ms \in Seq(Message), NEW k \in DOMAIN ms, ms[k].role # "tool"
    PROVE  /\ In(repair_pairing(ms), ms[k])
           /\ FirstReal(ms, k) =>
                 \E j \in DOMAIN repair_pairing(ms) :
                    FirstReal(repair_pairing(ms), j) /\ repair_pairing(ms)[j] = ms[k]
<1> DEFINE v == W(ms)[k - 1]
           o == W(ms)[k].out
           r == repair_pairing(ms)
           m == ms[k]
           s == Close(v)
           n == Len(s) + 1
<1>1. Windows(ms, W(ms)) /\ Len(ms) \in Nat /\ DOMAIN ms = 1..Len(ms)
  BY WIsWindows
<1>2. k \in 1..Len(ms) /\ k \in 0..Len(ms) /\ k - 1 \in 0..Len(ms)
  BY <1>1
<1>3. /\ v \in Window /\ Shape(v) /\ W(ms)[k] \in Window /\ m \in Message
      /\ W(ms)[k] = RepairStep(v, m)
  BY <1>1, <1>2 DEF Windows
<1>4. o \in Seq(Message) /\ s \in Seq(Message)
  BY <1>3, CloseShape DEF Window
<1>5. o = Append(s, m)
  BY <1>3 DEF RepairStep
<1>6. r \in Seq(Message) /\ Pre(o, r)
  <2> DEFINE w == LastW(ms)
  <2>1. w \in Window /\ Shape(w) /\ r = Close(w)
    BY WIsWindows
  <2>2. Pre(o, w.out)
    BY <1>2, WindowsGrow
  <2>3. Pre(w.out, r) /\ w.out \in Seq(Message) /\ r \in Seq(Message)
    BY <1>3, <2>1, OutGrows, CloseShape DEF Window
  <2> QED BY <1>4, <2>2, <2>3, PreTrans
<1>7. n \in DOMAIN o /\ o[n] = m /\ n \in Nat /\ DOMAIN o = 1..Len(o) /\ Len(o) \in Nat
  BY <1>3, <1>4, <1>5
<1>8. DOMAIN r = 1..Len(r) /\ Len(r) \in Nat /\ Len(o) <= Len(r)
  BY <1>6 DEF Pre
<1> HIDE DEF o, s, v, m, r, n
<1>9. \A j \in 1..n : j \in 1..Len(o)
  BY <1>7
<1>10. \A j \in 1..n : j \in DOMAIN r /\ r[j] = o[j]
  <2>1. \A j \in 1..n : j \in 1..Len(r)
    BY <1>7, <1>8, <1>9
  <2> QED BY <1>6, <1>8, <1>9, <2>1 DEF Pre
<1>11. n \in 1..n /\ \A j \in 1..(n - 1) : j \in 1..n
  BY <1>7
<1>12. In(r, m)
  BY <1>7, <1>10, <1>11 DEF In
<1>13. ASSUME FirstReal(ms, k) PROVE FirstReal(r, n) /\ r[n] = m /\ n \in DOMAIN r
  <2>1. m.real /\ \A j \in 1..(k - 1) : ~ms[j].real
    BY <1>13 DEF FirstReal, m
  <2>2. NoReal(v.out)
    BY <1>2, <2>1, RepairNoReal DEF v
  <2>3. NoReal(s)
    BY <1>3, <2>2, CloseNoReal DEF s
  <2>4. FirstReal(o, n)
    BY <1>3, <1>4, <1>5, <2>1, <2>3, AppendNoReal DEF n
  <2>5. FirstReal(r, n)
    BY <1>10, <1>11, <2>4 DEF FirstReal
  <2> QED BY <1>7, <1>10, <1>11, <2>5
<1> QED BY <1>12, <1>13 DEF r, m

\* The elements of the second of two sequences.
LEMMA SecondPart ==
    ASSUME NEW S, NEW a \in Seq(S), NEW b \in Seq(S)
    PROVE  \A i \in 1..Len(b) : (a \o b)[Len(a) + i] = b[i]
<1> SUFFICES ASSUME NEW i \in 1..Len(b) PROVE (a \o b)[Len(a) + i] = b[i]
  OBVIOUS
<1> DEFINE k == Len(a) + i
<1>1. Len(a) \in Nat /\ Len(b) \in Nat /\ k \in 1..(Len(a) + Len(b)) /\ k > Len(a) /\ k - Len(a) = i
  OBVIOUS
<1> HIDE DEF k
<1>2. (a \o b)[k] = b[k - Len(a)]
  BY <1>1
<1> QED BY <1>1, <1>2 DEF k

\* The elements of four sequences in a row.
LEMMA FourParts ==
    ASSUME NEW S, NEW a \in Seq(S), NEW b \in Seq(S), NEW c \in Seq(S), NEW d \in Seq(S),
           NEW s, NEW n, NEW p,
           s = a \o b \o c \o d, n = Len(a) + Len(b), p = n + Len(c)
    PROVE  /\ s \in Seq(S) /\ Len(s) = p + Len(d)
           /\ \A i \in 1..Len(a) : s[i] = a[i]
           /\ \A i \in 1..Len(c) : s[n + i] = c[i]
           /\ \A i \in 1..Len(d) : s[p + i] = d[i]
<1> DEFINE x == a \o b
           y == x \o c
<1>0. s = y \o d
  OBVIOUS
<1>1. /\ Len(a) \in Nat /\ Len(b) \in Nat /\ Len(c) \in Nat /\ Len(d) \in Nat
      /\ n \in Nat /\ p \in Nat
  OBVIOUS
<1>2. x \in Seq(S) /\ Len(x) = n /\ \A i \in 1..Len(a) : x[i] = a[i] /\ i \in 1..n
  OBVIOUS
<1> HIDE DEF x
<1>3. /\ y \in Seq(S) /\ Len(y) = p /\ \A i \in 1..n : y[i] = x[i] /\ i \in 1..p
      /\ \A i \in 1..Len(c) : y[n + i] = c[i] /\ n + i \in 1..p
  <2>1. y \in Seq(S) /\ Len(y) = p
    <3>1. x \in Seq(S)
      BY <1>2
    <3>2. y \in Seq(S) /\ Len(y) = Len(x) + Len(c)
      BY <3>1
    <3> HIDE DEF y
    <3> QED BY <1>2, <3>2
  <2>2. \A i \in 1..n : i \in 1..p
    BY <1>1
  <2>3. \A i \in 1..Len(c) : n + i \in 1..p
    BY <1>1
  <2>4. \A i \in 1..Len(x) : y[i] = x[i]
    BY <1>2
  <2>5. \A i \in 1..Len(c) : y[Len(x) + i] = c[i]
    BY <1>2, SecondPart
  <2> QED BY <1>2, <2>1, <2>2, <2>3, <2>4, <2>5
<1> HIDE DEF y
<1>4. /\ s \in Seq(S) /\ Len(s) = p + Len(d) /\ \A i \in 1..p : s[i] = y[i]
      /\ \A i \in 1..Len(d) : s[p + i] = d[i]
  <2>0. y \in Seq(S) /\ Len(y) = p
    BY <1>3
  <2>1. s \in Seq(S) /\ Len(s) = Len(y) + Len(d) /\ \A i \in 1..Len(y) : s[i] = y[i]
    <3>1. y \in Seq(S)
      BY <2>0
    <3> QED BY <1>0, <3>1
  <2>2. \A i \in 1..Len(d) : s[Len(y) + i] = d[i]
    BY <1>0, <1>3, SecondPart
  <2> QED BY <2>0, <2>1, <2>2
<1>5. \A i \in 1..Len(a) : s[i] = a[i]
  BY <1>2, <1>3, <1>4
<1>6. \A i \in 1..Len(c) : s[n + i] = c[i]
  BY <1>3, <1>4
<1> QED BY <1>4, <1>5, <1>6

\* What a plan makes of the history, before the repair, has every pinned
\* message and the protected prefix.
LEMMA CandidateKeeps ==
    ASSUME NEW ms \in Seq(Message), NEW plan \in Plans(Len(ms)), NEW floor \in Nat
    PROVE  \E c \in Seq(Message) :
              /\ Candidate(ms, plan, floor) = repair_pairing(c)
              /\ \A k \in DOMAIN ms : ms[k].pin => In(c, ms[k])
              /\ floor <= Len(ms) => floor <= Len(c) /\ \A j \in 1..floor : c[j] = ms[j]
<1> DEFINE d == Drain(ms, plan, floor)
           drained == SubSeq(ms, d.from + 1, d.to)
           one == <<Synthetic(0)>>
           note == IF plan.note THEN one ELSE <<>>
           sum == IF plan.summary THEN one ELSE <<>>
           head == SubSeq(ms, 1, d.from)
           ret == Retained(ms, d)
           tail == SubSeq(ms, d.to + 1, Len(ms))
           kept == head \o sum \o ret \o tail
           t == Target(ms, plan, d)
           rewritten == IF Rewritable(ms, plan, d, floor) THEN Stub(kept, t + 1) ELSE kept
           c == rewritten \o note
           L == Len(ms)
           F == d.from
           G == d.to
<1>1. Candidate(ms, plan, floor) = repair_pairing(c)
  BY DEF Candidate
<1>2. /\ F \in 0..L /\ G \in 0..L /\ F <= G /\ L \in Nat
      /\ floor <= L => floor <= F
  BY DrainType
<1>3. Synthetic(0) \in Message
  BY Pushed, ConversationAssumption
<1>4. one \in Seq(Message) /\ Len(one) = 1 /\ <<>> \in Seq(Message) /\ Len(<<>>) = 0
  BY <1>3
<1> HIDE DEF one
<1>5. /\ note \in Seq(Message) /\ sum \in Seq(Message)
      /\ Len(sum) = IF plan.summary THEN 1 ELSE 0
  <2>1. note \in Seq(Message) /\ sum \in Seq(Message)
    BY <1>4
  <2>2. CASE plan.summary
    BY <1>4, <2>1, <2>2
  <2>3. CASE ~plan.summary
    BY <1>4, <2>1, <2>3
  <2> QED BY <2>1, <2>2, <2>3
<1>6. plan.rw \in Nat
  BY DEF Plans
<1>7. /\ t = IF plan.rw < F THEN plan.rw ELSE F + Len(sum) + Len(ret) + (plan.rw - G)
      /\ Rewritable(ms, plan, d, floor) =>
            /\ plan.rw >= floor /\ plan.rw < L /\ ~ms[plan.rw + 1].pin
            /\ ~(plan.rw >= F /\ plan.rw < G)
  BY <1>5 DEF Target, Rewritable
<1>8. /\ head \in Seq(Message) /\ Len(head) = F /\ \A k \in 1..F : head[k] = ms[k]
      /\ drained \in Seq(Message) /\ \A k \in 1..(G - F) : drained[k] = ms[F + k]
      /\ Len(drained) = G - F
      /\ tail \in Seq(Message) /\ Len(tail) = L - G /\ \A k \in 1..(L - G) : tail[k] = ms[G + k]
  <2> HIDE DEF d
  <2>1. F \in Nat /\ G \in Nat /\ L \in 0..L /\ 0 \in Nat /\ 0 + 1 = 1 /\ F - 0 = F
    BY <1>2
  <2>2. /\ SubSeq(ms, 0 + 1, F) \in Seq(Message)
        /\ Len(SubSeq(ms, 0 + 1, F)) = IF 0 < F THEN F - 0 ELSE 0
        /\ \A k \in 1..(F - 0) : SubSeq(ms, 0 + 1, F)[k] = ms[0 + k]
    BY <1>2, <2>1, Part
  <2>3. /\ drained \in Seq(Message) /\ Len(drained) = IF F < G THEN G - F ELSE 0
        /\ \A k \in 1..(G - F) : drained[k] = ms[F + k]
    BY <1>2, <2>1, Part
  <2>4. /\ tail \in Seq(Message) /\ Len(tail) = IF G < L THEN L - G ELSE 0
        /\ \A k \in 1..(L - G) : tail[k] = ms[G + k]
    BY <1>2, <2>1, Part
  <2>5. (IF 0 < F THEN F - 0 ELSE 0) = F /\ (IF F < G THEN G - F ELSE 0) = G - F
        /\ (IF G < L THEN L - G ELSE 0) = L - G
    BY <1>2, <2>1
  <2>6. \A k \in 1..F : 0 + k = k /\ k \in 1..(F - 0)
    BY <2>1
  <2>7. head = SubSeq(ms, 0 + 1, F)
    BY <2>1
  <2> HIDE DEF head, drained, tail
  <2> QED BY <2>2, <2>3, <2>4, <2>5, <2>6, <2>7
<1>9. /\ ret \in Seq(Message) /\ Len(ret) \in Nat
      /\ \A x \in Message : x.pin /\ In(drained, x) => In(ret, x)
  <2> DEFINE A == {m \in ToSet(drained) : m.pin}
  <2>1. ret = Only(drained, A)
    BY DEF Retained
  <2>2. KeptOf(Message, ret, drained, A, Len(drained))
    <3>1. drained \in Seq(Message)
      BY <1>8
    <3> HIDE DEF drained, A, ret
    <3>2. KeptOf(Message, Only(drained, A), drained, A, Len(drained))
      BY <3>1, OnlyFacts
    <3> QED BY <2>1, <3>2
  <2>3. DOMAIN drained = 1..Len(drained)
    BY <1>8
  <2>4. \A x : In(drained, x) => x \in ToSet(drained)
    BY <1>8, CallIds
  <2>5. \A x : x.pin /\ In(drained, x) => x \in A
    BY <2>4
  <2> HIDE DEF drained, ret, A
  <2>6. ret \in Seq(Message) /\ \A x : In(ret, x) <=> x \in A /\ In(drained, x)
    BY <2>2, <2>3 DEF KeptOf, In
  <2> QED BY <2>5, <2>6
<1> HIDE DEF head, sum, ret, tail, note, drained
<1> DEFINE n == F + Len(sum)
           p == n + Len(ret)
<1>10. /\ kept \in Seq(Message) /\ Len(kept) = p + (L - G)
       /\ \A i \in 1..F : kept[i] = head[i]
       /\ \A i \in 1..Len(ret) : kept[n + i] = ret[i]
       /\ \A i \in 1..(L - G) : kept[p + i] = tail[i]
  <2> HIDE DEF d
  <2>1. /\ head \in Seq(Message) /\ sum \in Seq(Message) /\ ret \in Seq(Message)
        /\ tail \in Seq(Message)
    BY <1>5, <1>8, <1>9
  <2>2. Len(head) = F /\ Len(tail) = L - G
    BY <1>8
  <2>3. /\ kept = head \o sum \o ret \o tail
        /\ n = Len(head) + Len(sum) /\ p = n + Len(ret)
    BY <2>2
  <2> HIDE DEF kept, n, p, F, G, L
  <2>4. /\ kept \in Seq(Message) /\ Len(kept) = p + Len(tail)
        /\ \A i \in 1..Len(head) : kept[i] = head[i]
        /\ \A i \in 1..Len(ret) : kept[n + i] = ret[i]
        /\ \A i \in 1..Len(tail) : kept[p + i] = tail[i]
    BY <2>1, <2>3, FourParts
  <2> QED BY <2>2, <2>4
<1>11. /\ n \in Nat /\ p \in Nat /\ F \in Nat /\ G \in Nat /\ F <= n /\ n <= p /\ Len(ret) \in Nat
       /\ DOMAIN kept = 1..(p + (L - G)) /\ Len(sum) \in Nat
  <2>1. Len(sum) \in Nat
    BY <1>5
  <2>2. F \in Nat /\ G \in Nat
    BY <1>2
  <2>3. n \in Nat /\ F <= n
    BY <2>1, <2>2
  <2> HIDE DEF n
  <2>4. p \in Nat /\ n <= p
    BY <1>9, <2>3
  <2>5. DOMAIN kept = 1..Len(kept)
    BY <1>10
  <2> QED BY <1>9, <1>10, <2>1, <2>2, <2>3, <2>4, <2>5
<1>12. t = IF plan.rw < F THEN plan.rw ELSE p + (plan.rw - G)
  BY <1>2, <1>6, <1>7, <1>11
<1> HIDE DEF d, kept, t, n, p, F, G, L
<1>13. /\ \A k \in 1..F : k \in DOMAIN kept /\ kept[k] = ms[k]
       /\ \A k \in (G + 1)..L : p + (k - G) \in DOMAIN kept /\ kept[p + (k - G)] = ms[k]
  <2>1. \A k \in 1..F : k \in 1..(p + (L - G))
    BY <1>2, <1>11
  <2>2. \A k \in (G + 1)..L : /\ k - G \in 1..(L - G) /\ G + (k - G) = k
                              /\ p + (k - G) \in 1..(p + (L - G))
    BY <1>2, <1>11
  <2>3. \A k \in 1..F : k \in DOMAIN kept /\ kept[k] = ms[k]
    BY <1>8, <1>10, <1>11, <2>1
  <2>4. ASSUME NEW k \in (G + 1)..L
        PROVE  p + (k - G) \in DOMAIN kept /\ kept[p + (k - G)] = ms[k]
    <3>1. kept[p + (k - G)] = tail[k - G] /\ tail[k - G] = ms[G + (k - G)]
      BY <1>8, <1>10, <2>2
    <3> QED BY <1>11, <2>2, <3>1
  <2> QED BY <2>3, <2>4
<1>14. ASSUME NEW k \in DOMAIN ms, ms[k].pin
       PROVE  \E i \in DOMAIN kept : kept[i] = ms[k]
  <2>1. DOMAIN ms = 1..L
    BY DEF L
  <2>2. k \in 1..F \/ k \in (F + 1)..G \/ k \in (G + 1)..L
    BY <1>2, <1>11, <2>1
  <2>3. CASE k \in (F + 1)..G
    <3>1. k - F \in 1..(G - F) /\ F + (k - F) = k
      BY <1>11, <2>3
    <3>2. drained[k - F] = ms[k] /\ DOMAIN drained = 1..(G - F)
      BY <1>8, <3>1
    <3>3. In(drained, ms[k])
      BY <3>1, <3>2 DEF In
    <3>4. In(ret, ms[k])
      BY <1>9, <1>14, <3>3
    <3>5. PICK i \in 1..Len(ret) : ret[i] = ms[k]
      BY <1>9, <3>4 DEF In
    <3>6. n + i \in DOMAIN kept
      <4>1. n + i \in 1..(p + (L - G))
        BY <1>2, <1>11 DEF p
      <4> QED BY <1>11, <4>1
    <3> QED BY <1>10, <3>5, <3>6
  <2> QED BY <1>13, <2>2, <2>3
<1>15. Rewritable(ms, plan, d, floor) =>
          /\ t + 1 \in DOMAIN kept /\ ~kept[t + 1].pin
          /\ floor <= L => t + 1 > floor
  <2> SUFFICES ASSUME Rewritable(ms, plan, d, floor)
               PROVE  /\ t + 1 \in DOMAIN kept /\ ~kept[t + 1].pin
                      /\ floor <= L => t + 1 > floor
    OBVIOUS
  <2>1. /\ plan.rw >= floor /\ plan.rw < L /\ ~ms[plan.rw + 1].pin
        /\ ~(plan.rw >= F /\ plan.rw < G)
    BY <1>7
  <2>2. CASE plan.rw < F
    <3>1. t = plan.rw /\ plan.rw + 1 \in 1..F /\ plan.rw + 1 > floor
      BY <1>6, <1>11, <1>12, <2>1, <2>2
    <3> QED BY <1>13, <2>1, <3>1
  <2>3. CASE ~(plan.rw < F)
    <3>1. plan.rw + 1 \in (G + 1)..L
      BY <1>2, <1>6, <1>11, <2>1, <2>3
    <3>2. t + 1 = p + ((plan.rw + 1) - G)
      BY <1>6, <1>11, <1>12, <2>3
    <3>3. floor <= L => p + ((plan.rw + 1) - G) > floor
      BY <1>2, <1>6, <1>11, <3>1
    <3> QED BY <1>13, <2>1, <3>1, <3>2, <3>3
  <2> QED BY <2>2, <2>3
<1>16. /\ rewritten \in Seq(Message) /\ Len(rewritten) = Len(kept)
       /\ \A i \in DOMAIN kept : i # t + 1 => rewritten[i] = kept[i]
       /\ \A i \in DOMAIN kept : kept[i].pin => rewritten[i] = kept[i]
       /\ floor <= L => \A i \in 1..floor : rewritten[i] = kept[i]
  <2>1. CASE ~Rewritable(ms, plan, d, floor)
    BY <1>10, <2>1
  <2>2. CASE Rewritable(ms, plan, d, floor)
    <3> DEFINE m == [kept[t + 1] EXCEPT !.size = 0]
    <3>1. rewritten = [kept EXCEPT ![t + 1] = m]
      BY <1>15, <2>2 DEF Stub
    <3>2. kept[t + 1] \in Message
      BY <1>10, <1>15, <2>2
    <3>3. /\ m \in Fields /\ m.role = kept[t + 1].role /\ m.id = kept[t + 1].id
          /\ m.calls = kept[t + 1].calls
          /\ m.real = kept[t + 1].real /\ m.pin = kept[t + 1].pin
      BY <3>2 DEF Message, Fields
    <3>4. m \in Message
      <4> HIDE DEF m
      <4> QED BY <3>2, <3>3 DEF Message
    <3> HIDE DEF m, rewritten
    <3>5. rewritten \in Seq(Message) /\ Len(rewritten) = Len(kept)
      BY <1>10, <1>15, <2>2, <3>1, <3>4
    <3>6. \A i \in DOMAIN kept : i # t + 1 => rewritten[i] = kept[i]
      BY <3>1
    <3>7. \A i \in DOMAIN kept : kept[i].pin => rewritten[i] = kept[i]
      BY <1>15, <2>2, <3>6
    <3>8. floor <= L => \A i \in 1..floor : i # t + 1 /\ i \in 1..F
      BY <1>2, <1>11, <1>15, <2>2
    <3>9. floor <= L => \A i \in 1..floor : rewritten[i] = kept[i]
      BY <1>13, <3>6, <3>8
    <3> QED BY <3>5, <3>6, <3>7, <3>9
  <2> QED BY <2>1, <2>2
<1> HIDE DEF rewritten
<1>17. /\ c \in Seq(Message) /\ Len(rewritten) <= Len(c)
       /\ \A i \in 1..Len(rewritten) : i \in DOMAIN c /\ c[i] = rewritten[i]
  <2>0. rewritten \in Seq(Message) /\ note \in Seq(Message)
    BY <1>5, <1>16
  <2>1. Len(rewritten) \in Nat /\ Len(note) \in Nat /\ c \in Seq(Message)
        /\ Len(c) = Len(rewritten) + Len(note) /\ DOMAIN c = 1..Len(c)
    BY <2>0
  <2>2. \A i \in 1..Len(rewritten) : c[i] = rewritten[i]
    BY <2>0
  <2> HIDE DEF c
  <2> QED BY <2>1, <2>2
<1> HIDE DEF c
<1>18. DOMAIN kept = 1..Len(rewritten)
  BY <1>10, <1>16
<1>19. \A k \in DOMAIN ms : ms[k].pin => In(c, ms[k])
  BY <1>14, <1>16, <1>17, <1>18 DEF In
<1>20. floor <= L => floor <= Len(c) /\ \A j \in 1..floor : c[j] = ms[j]
  <2> SUFFICES ASSUME floor <= L
               PROVE  floor <= Len(c) /\ \A j \in 1..floor : c[j] = ms[j]
    OBVIOUS
  <2>1. \A j \in 1..floor : j \in 1..F
    BY <1>2, <1>11
  <2>2. \A j \in 1..floor : j \in DOMAIN kept /\ kept[j] = ms[j] /\ rewritten[j] = kept[j]
    BY <1>13, <1>16, <2>1
  <2>3. floor <= Len(c)
    <3>1. floor <= F /\ Len(kept) = p + (L - G) /\ F <= p
      BY <1>2, <1>10, <1>11
    <3>2. Len(c) \in Nat
      BY <1>17
    <3> QED BY <1>2, <1>11, <1>16, <1>17, <3>1, <3>2
  <2> QED BY <1>17, <1>18, <2>2, <2>3
<1> QED BY <1>1, <1>17, <1>19, <1>20 DEF L

\* What the user has said first or pinned survives every compaction unchanged.
THEOREM ProtectionHolds == Spec => ProtectedKept
<1> DEFINE Kept1 == \A k \in DOMAIN msgs : msgs[k].pin => Contains(msgs', msgs[k])
           Kept2 == \A k \in DOMAIN msgs : FirstReal(msgs, k) =>
                       \E j \in DOMAIN msgs' : FirstReal(msgs', j) /\ msgs'[j] = msgs[k]
<1>1. IInv /\ [Next]_vars => [epoch' # epoch => Kept1 /\ Kept2]_vars
  <2> SUFFICES ASSUME IInv, Next, epoch' # epoch PROVE Kept1 /\ Kept2
    BY DEF vars
  <2>1. PICK plan \in Plans(Len(msgs)) : Compact(plan)
    BY DEF Next, Submit, Send, Retry, Finish, Respond, Partial, ApplyResult, Note,
           finish_cancelled
  <2> DEFINE floor == sacred_floor(msgs)
  <2>2. msgs \in Seq(Message)
    BY DEF IInv, TypeOK
  <2>3. floor \in Nat
    BY <2>2, FloorType
  <2>4. msgs' = Candidate(msgs, plan, floor)
    BY <2>1 DEF Compact
  <2> HIDE DEF floor
  <2>5. PICK c \in Seq(Message) :
              /\ Candidate(msgs, plan, floor) = repair_pairing(c)
              /\ \A k \in DOMAIN msgs : msgs[k].pin => In(c, msgs[k])
              /\ floor <= Len(msgs) => floor <= Len(c) /\ \A j \in 1..floor : c[j] = msgs[j]
    BY <2>2, <2>3, CandidateKeeps
  <2>6. msgs' = repair_pairing(c) /\ msgs' \in Seq(Message)
    BY <2>4, <2>5, RepairPaired
  <2>7. ASSUME NEW k \in DOMAIN msgs, msgs[k].pin PROVE Contains(msgs', msgs[k])
    <3>1. PICK i \in DOMAIN c : c[i] = msgs[k]
      BY <2>5, <2>7 DEF In
    <3>2. c[i].role # "tool"
      BY <2>2, <2>7, <3>1, MessageFacts
    <3>3. In(msgs', c[i])
      BY <2>6, <3>2, RepairKeeps
    <3> QED BY <2>6, <3>1, <3>3, CallIds
  <2>8. ASSUME NEW k \in DOMAIN msgs, FirstReal(msgs, k)
        PROVE  \E j \in DOMAIN msgs' : FirstReal(msgs', j) /\ msgs'[j] = msgs[k]
    <3>1. msgs[k].real /\ \A j \in 1..(k - 1) : ~msgs[j].real
      BY <2>8 DEF FirstReal
    <3>2. floor \in DOMAIN msgs /\ msgs[floor].real /\ floor <= k
      BY <2>2, <3>1, FloorType DEF floor
    <3>3. DOMAIN msgs = 1..Len(msgs) /\ Len(msgs) \in Nat
      BY <2>2
    <3>4. floor = k
      BY <3>1, <3>2, <3>3
    <3>5. k <= Len(msgs) /\ k \in Nat /\ k \in 1..k /\ \A j \in 1..(k - 1) : j \in 1..k
      BY <3>3
    <3>6. k <= Len(c) /\ \A j \in 1..k : c[j] = msgs[j]
      BY <2>5, <3>4, <3>5
    <3>7. k \in DOMAIN c
      BY <3>3, <3>6
    <3>8. FirstReal(c, k) /\ c[k] = msgs[k]
      BY <3>1, <3>5, <3>6 DEF FirstReal
    <3>9. c[k].role # "tool"
      <4>1. c[k] \in Message /\ c[k].real
        BY <3>1, <3>7, <3>8
      <4> QED BY <4>1, MessageFacts
    <3> QED BY <2>6, <3>7, <3>8, <3>9, RepairKeeps
  <2> QED BY <2>7, <2>8
<1> QED BY <1>1, Invariant, PTL DEF Spec, ProtectedKept
=============================================================================
