---------------------- MODULE RewindTransactionProofs ----------------------
(***************************************************************************)
(* Proofs about RewindTransaction, for any files and scopes and for any    *)
(* number of turns, faults and crashes.  The inductive invariant is the    *)
(* type part with the ownership of the receipt, the journal and the task   *)
(* (Base), and, as long as no turn has begun since the rewind did and at   *)
(* most one operation failed, where the transaction stands (Stage), or     *)
(* that the one failure was recovery's read of a conversation that had     *)
(* crossed (Torn).  The part of Stage that a crash leaves is Durable: from *)
(* the journal and the three stores alone the next opening knows which     *)
(* side to finish, and the tree it may need is pinned.                     *)
(***************************************************************************)
EXTENDS RewindTransaction, FiniteSetTheorems, WellFoundedInduction, TLAPS

-----------------------------------------------------------------------------
(* The invariant.                                                          *)

\* A receipt, whose conversation differs from the target where the rewind takes
\* the conversation back.
IsReceipt(r) ==
    /\ r.scope \in {"code", "conversation", "both"} /\ r.turn \in Turns
    /\ r.disk \in Seq(Turns) /\ r.prev \in Seq(Turns) /\ r.kept \in Seq(Turns)
    /\ r.orig \in Seq(Turns) /\ r.target \in Seq(Turns)
    /\ r.recovery \in Tree /\ r.restored \subseteq Files
    /\ r.scope = "conversation" => r.restored = {}
    /\ TakesBack(r) <=> r.target # r.orig
    /\ r.next \in Nat

Phases == {"Ready", "Reconfiguring", "InTurn", "Failed", "Broken", "Down", "Opening"}
Kinds == {"none", "begin", "undo", "commit", "compensate", "reopen"}
Places == {"none", "journal", "files", "back", "undo", "rebuild", "start", "unpin", "clear"}
Jobs == [kind : Kinds, at : Places, todo : SUBSET Files, bad : BOOLEAN]
Controls == {"apply", "commit", "compensate", "recover"}
Holders == {"none", "begin", "held", "apply", "ok", "err", "finish"}

\* The journal is of the rewind and not committed, or committed.
Open(r) == journal = {[tx |-> r, committed |-> FALSE]}
Closed(r) == journal = {[tx |-> r, committed |-> TRUE]}

\* The rewind, its journal and its task belong together, in every state.
StoreTypes ==
    /\ conv \in Seq(Turns) /\ ledger \in Seq(Turns) /\ points \in Seq(Turns)
    /\ files \in Tree
    /\ shots \in [Turns -> [before : Tree, after : Tree]]
    /\ refs \subseteq Turns /\ pin \in {"none", "pinned", "loose", "gone"}
    /\ active \in 0..MaxTurns /\ nextTurn \in Nat /\ nextTurn >= 1
ControlTypes ==
    /\ phase \in Phases /\ unavailable \in BOOLEAN
    /\ job \in Jobs
    /\ queue \in Seq(Controls) /\ holder \in Holders
    /\ faults \in Seq({"untouched", "replaced", "unread"})
    /\ crashes \in Nat
OneReceipt == \A r \in tx : tx = {r} /\ IsReceipt(r) /\ r.next <= nextTurn
ItsJournal == journal = {} \/ \E r \in tx : Open(r) \/ Closed(r)
ItsTask ==
    /\ job.kind = "none" => job = NoJob
    /\ tx = {} => job.kind = "none" /\ queue = <<>> /\ holder = "none"
    /\ job.kind = "reopen" => journal # {}
    /\ phase = "Down" => job.kind = "none" /\ queue = <<>> /\ holder = "none"
Sole == OneReceipt /\ ItsJournal /\ ItsTask
Base == StoreTypes /\ ControlTypes /\ Sole

\* The worktree the rewind makes; all stores as they were, or all taken back.
Cut(r) == [f \in Files |-> IF f \in r.restored THEN shots[r.turn].before[f]
                           ELSE r.recovery[f]]
Ledgers(r) == ledger \in {r.disk, r.prev, r.kept}
Old(r) == conv = r.orig /\ files = r.recovery /\ Ledgers(r)
New(r) == conv = r.target /\ files = Cut(r) /\ ledger = r.kept
Outside(r) == \A f \in Files \ r.restored : files[f] = r.recovery[f]

\* The way back is open as long as it may be needed.
Pinned(r) == files # r.recovery => pin = "pinned"

\* What the durable state says by itself: whoever opens the session next can
\* finish the rewind.
Durable(r) ==
    /\ journal = {} => Old(r) \/ New(r)
    /\ Closed(r) => New(r)
    /\ (Open(r) /\ Crossed(r)) => New(r)
    /\ (Open(r) /\ ~Crossed(r)) => conv = r.orig /\ Ledgers(r) /\ Pinned(r)
    /\ journal # {} => Outside(r)

\* Files outside todo are as they were before the rewind.
Back(r) == job.todo \subseteq r.restored /\ \A f \in Files \ job.todo : files[f] = r.recovery[f]

Idle == holder = "none" /\ queue = <<>>

\* Between begin and finish: where the driver's call and the queue stand, and
\* which side the conversation is on.
Waiting(r) ==
    /\ Open(r) /\ files = Cut(r) /\ ledger = r.kept /\ Pinned(r)
    /\ \/ holder = "held" /\ queue = <<>> /\ conv = r.orig
       \/ holder = "apply" /\ queue = <<"apply">> /\ conv = r.orig
       \/ holder = "none" /\ queue = <<"apply", "recover">> /\ conv = r.orig
       \/ holder = "none" /\ queue = <<"recover">>
       \/ holder = "ok" /\ queue = <<>> /\ conv = r.target
       \/ holder = "finish" /\ queue = <<"commit">> /\ conv = r.target
       \/ holder = "err" /\ queue = <<>> /\ (phase = "Broken" \/ conv = r.orig)
       \/ holder = "finish" /\ queue = <<"compensate">> /\ (phase = "Broken" \/ conv = r.orig)

Beginning(r) ==
    /\ queue = <<>> /\ holder \in {"begin", "none"} /\ conv = r.orig /\ ~job.bad
    /\ \/ /\ job.at = "journal" /\ journal = {} /\ Old(r)
          /\ r.scope # "conversation" => pin = "pinned"
       \/ /\ job.at = "files" /\ Open(r)
          /\ r.scope # "conversation" => pin = "pinned"
          /\ job.todo \subseteq r.restored
          /\ \A f \in Files \ job.todo : files[f] = Cut(r)[f]
       \/ job.at \in {"back", "undo"} /\ Open(r) /\ Back(r) /\ Len(faults) >= 1

Undoing(r) ==
    /\ Open(r) /\ New(r) /\ Pinned(r)
    /\ \/ holder = "apply" /\ queue = <<>>
       \/ holder = "none" /\ queue = <<"recover">>

Committing(r) ==
    /\ queue = <<>> /\ holder \in {"finish", "none"} /\ New(r)
    /\ \/ job.at = "start" /\ Open(r)
       \/ job.at \in {"unpin", "clear"} /\ Closed(r)

Compensating(r) ==
    /\ queue = <<>> /\ holder \in {"finish", "none"} /\ Open(r) /\ conv = r.orig
    /\ \/ job.at = "start"
       \/ job.at = "files" /\ Back(r)
       \/ job.at = "clear" /\ files = r.recovery

Reopening(r) ==
    /\ Idle /\ journal # {}
    /\ job.bad => ~Crossed(r)
    /\ \/ job.at = "start"
       \/ job.at = "files" /\ IF Closed(r) \/ Crossed(r) THEN job.todo = {} ELSE Back(r)
       \/ job.at = "clear" /\ (Closed(r) \/ Crossed(r) \/ files = r.recovery)

Stage(r) ==
    /\ active = 0 /\ Durable(r)
    /\ \/ job.kind = "none" /\ (Idle \/ Waiting(r))
       \/ job.kind = "begin" /\ Beginning(r)
       \/ job.kind = "undo" /\ Undoing(r)
       \/ job.kind = "commit" /\ Committing(r)
       \/ job.kind = "compensate" /\ Compensating(r)
       \/ job.kind = "reopen" /\ Reopening(r)

\* No turn has begun since the rewind did, and at most one operation failed.
Quiet(r) == nextTurn = r.next /\ Len(faults) <= 1

\* The one failure was the read that asks whether the conversation crossed,
\* and it had: whatever recovery does with the files, the conversation stays.
Torn(r) ==
    /\ active = 0 /\ job.kind # "undo"
    /\ Crossed(r) /\ "unread" \in Range(faults)

IInv == Base /\ \A r \in tx : Quiet(r) => Stage(r) \/ Torn(r)
-----------------------------------------------------------------------------
(* What a plan puts in its receipt.                                        *)

\* < as a relation, for the library's least-element theorem.
LessThan == {p \in Nat \X Nat : p[1] < p[2]}

\* The order of the naturals is well founded.
LEMMA LessThanWellFounded == IsWellFoundedOn(LessThan, Nat)
<1>1. LessThan = OpToRel(<, Nat)
  BY Zenon DEF LessThan, OpToRel
<1> QED BY <1>1, NatLessThanWellFounded, Zenon

\* Induction up to a bound: a set with 0 and with the successor of each of
\* its numbers below L has every number up to L.
LEMMA UpTo ==
    ASSUME NEW L \in Nat, NEW T, 0 \in T, \A n \in 0..(L - 1) : n \in T => n + 1 \in T
    PROVE  0..L \subseteq T
<1> DEFINE B == (0..L) \ T
<1> SUFFICES ASSUME B # {} PROVE FALSE
  OBVIOUS
<1>1. B \subseteq Nat
  OBVIOUS
<1>2. \A k \in B : k \in 0..L /\ k \notin T
  OBVIOUS
<1>3. \A k \in 0..L : k \notin B => k \in T
  OBVIOUS
<1> HIDE DEF B
<1>4. PICK m \in B : \A k \in B : ~(<<k, m>> \in LessThan)
  BY <1>1, LessThanWellFounded, WFMin
<1>5. m \in 0..L /\ m # 0 /\ m \notin T
  BY <1>2
<1>6. m - 1 \in 0..(L - 1) /\ m - 1 \in 0..L /\ (m - 1) + 1 = m
  BY <1>5
<1>7. m - 1 \notin B
  <2>1. \A k \in B : ~(k < m)
    BY <1>1, <1>4 DEF LessThan
  <2>2. m - 1 < m
    BY <1>5
  <2> QED BY <2>1, <2>2
<1>8. m - 1 \in T
  BY <1>3, <1>6, <1>7
<1> QED BY <1>5, <1>6, <1>8

\* f is the fold of step over n elements from base, in S.
Folds(f, S, base, step, n) ==
    /\ f \in [0..n -> S] /\ f[0] = base
    /\ \A k \in 1..n : f[k] = step[k][f[k - 1]]

\* A recursive function over 0..L exists, for a step that stays in a set.
LEMMA FoldExists ==
    ASSUME NEW S, NEW base \in S, NEW L \in Nat, NEW step \in [1..L -> [S -> S]]
    PROVE  \E f : Folds(f, S, base, step, L)
<1> DEFINE T == {n \in 0..L : \E f : Folds(f, S, base, step, n)}
<1>1. \E f : Folds(f, S, base, step, 0)
  <2> DEFINE f == [i \in 0..0 |-> base]
  <2>1. f \in [0..0 -> S] /\ f[0] = base
    OBVIOUS
  <2> HIDE DEF f
  <2>2. \A k \in 1..0 : FALSE
    OBVIOUS
  <2> QED BY <2>1, <2>2 DEF Folds
<1>2. ASSUME NEW n \in 0..(L - 1), NEW g, Folds(g, S, base, step, n)
      PROVE  \E f : Folds(f, S, base, step, n + 1)
  <2> DEFINE last == step[n + 1][g[n]]
             f == [i \in 0..(n + 1) |-> IF i = n + 1 THEN last ELSE g[i]]
  <2>1. g \in [0..n -> S] /\ n \in Nat /\ n + 1 \in 1..L /\ n \in 0..n
    BY <1>2 DEF Folds
  <2>2. last \in S
    BY <2>1
  <2> HIDE DEF last
  <2>3. f \in [0..(n + 1) -> S]
    BY <2>1, <2>2
  <2>4. f[n + 1] = last /\ \A i \in 0..n : f[i] = g[i]
    BY <2>1
  <2> HIDE DEF f
  <2>5. f[0] = base
    BY <1>2, <2>1, <2>4 DEF Folds
  <2>6. ASSUME NEW k \in 1..(n + 1) PROVE f[k] = step[k][f[k - 1]]
    <3>1. CASE k = n + 1
      <4>1. k - 1 = n /\ f[n] = g[n]
        BY <2>1, <2>4, <3>1
      <4> QED BY <2>4, <3>1, <4>1 DEF last
    <3>2. CASE k # n + 1
      <4>1. k \in 1..n /\ k \in 0..n /\ k - 1 \in 0..n
        BY <2>1, <3>2
      <4> QED BY <1>2, <2>4, <4>1 DEF Folds
    <3> QED BY <3>1, <3>2
  <2> QED BY <2>3, <2>5, <2>6 DEF Folds
<1>3. 0 \in T
  BY <1>1
<1>4. \A n \in 0..(L - 1) : n \in T => n + 1 \in T
  BY <1>2
<1>5. 0..L \subseteq T
  <2> HIDE DEF T
  <2> QED BY <1>3, <1>4, UpTo
<1> QED BY <1>5

\* The points retained are points.
LEMMA OlderType ==
    ASSUME NEW S, NEW s \in Seq(S), NEW t
    PROVE  Older(s, t) \in Seq(S)
<1> DEFINE L == Len(s)
           Def(f) == [n \in 0..L |-> IF n = 0 THEN <<>>
                                     ELSE IF s[n] < t THEN Append(f[n - 1], s[n])
                                     ELSE f[n - 1]]
           kept == CHOOSE f : f = Def(f)
           step == [n \in 1..L |-> [u \in Seq(S) |-> IF s[n] < t THEN Append(u, s[n]) ELSE u]]
<1>1. L \in Nat /\ DOMAIN s = 1..L /\ (\A n \in 1..L : s[n] \in S) /\ <<>> \in Seq(S)
  OBVIOUS
<1>2. step \in [1..L -> [Seq(S) -> Seq(S)]]
  BY <1>1
<1>3. PICK g : Folds(g, Seq(S), <<>>, step, L)
  <2> HIDE DEF step, L
  <2> QED BY <1>1, <1>2, FoldExists
<1>4. g = Def(g)
  <2>1. g \in [0..L -> Seq(S)]
    BY <1>3 DEF Folds
  <2>2. ASSUME NEW n \in 1..L PROVE g[n] = Def(g)[n]
    <3>1. n \in 0..L /\ n # 0 /\ n - 1 \in 0..L /\ g[n - 1] \in Seq(S)
      BY <1>1, <2>1
    <3>2. g[n] = step[n][g[n - 1]]
      BY <1>3 DEF Folds
    <3> QED BY <3>1, <3>2
  <2>3. g[0] = Def(g)[0]
    BY <1>1, <1>3 DEF Folds
  <2>4. \A n \in 0..L : n = 0 \/ n \in 1..L
    BY <1>1
  <2> QED BY <2>1, <2>2, <2>3, <2>4
<1>5. kept = Def(kept)
  BY <1>4
<1>6. Older(s, t) = kept[L]
  BY DEF Older
<1> HIDE DEF kept
<1>7. kept[0] = <<>> /\ \A n \in 1..L : kept[n] = IF s[n] < t THEN Append(kept[n - 1], s[n])
                                                  ELSE kept[n - 1]
  <2>1. 0 \in 0..L /\ \A n \in 1..L : n \in 0..L /\ n # 0
    BY <1>1
  <2> QED BY <1>5, <2>1
<1> DEFINE T == {n \in 0..L : kept[n] \in Seq(S)}
<1>8. 0 \in T
  <2>1. 0 \in 0..L
    BY <1>1
  <2>2. kept[0] \in Seq(S)
    BY <1>1, <1>7
  <2> QED BY <2>1, <2>2
<1>9. ASSUME NEW n \in 0..(L - 1), n \in T PROVE n + 1 \in T
  <2>1. n + 1 \in 1..L /\ n + 1 \in 0..L /\ (n + 1) - 1 = n /\ kept[n] \in Seq(S)
    BY <1>1, <1>9
  <2>2. kept[n + 1] = IF s[n + 1] < t THEN Append(kept[n], s[n + 1]) ELSE kept[n]
    BY <1>7, <2>1
  <2>3. s[n + 1] \in S
    BY <1>1, <2>1
  <2>4. kept[n + 1] \in Seq(S)
    BY <2>1, <2>2, <2>3
  <2> QED BY <2>1, <2>4
<1>10. 0..L \subseteq T
  <2> HIDE DEF T
  <2> QED BY <1>1, <1>8, <1>9, UpTo
<1> QED BY <1>1, <1>6, <1>10

\* The conversation before one of its turns is shorter.
LEMMA BeforeType ==
    ASSUME conv \in Seq(Turns), NEW t \in Range(conv)
    PROVE  Before(t) \in Seq(Turns) /\ Before(t) # conv
<1> DEFINE k == CHOOSE i \in DOMAIN conv : conv[i] = t
           L == Len(conv)
<1>1. \E i \in DOMAIN conv : conv[i] = t
  BY DEF Range
<1>2. k \in 1..L /\ L \in Nat
  BY <1>1
<1>3. Before(t) = SubSeq(conv, 1, k - 1)
  BY DEF Before
<1> HIDE DEF k
<1>4. SubSeq(conv, 1, k - 1) \in Seq(Turns) /\ Len(SubSeq(conv, 1, k - 1)) = k - 1
  <2>1. k - 1 \in 0..L
    BY <1>2
  <2>2. SubSeq(conv, 1, k - 1) \in Seq(Turns)
    BY <2>1
  <2> QED BY <2>1, <2>2
<1> QED BY <1>2, <1>3, <1>4

\* There is one receipt, and one entry in the journal.
LEMMA TheReceipt ==
    ASSUME NEW r, tx = {r}
    PROVE  Receipt = r
BY DEF Receipt

\* The one entry says whether the rewind is committed.
LEMMA TheEntry ==
    ASSUME NEW r
    PROVE  /\ Open(r) => Entry = [tx |-> r, committed |-> FALSE]
           /\ Closed(r) => Entry = [tx |-> r, committed |-> TRUE]
BY DEF Entry, Open, Closed

-----------------------------------------------------------------------------
(* The types, and whose journal and task there are.                        *)

\* The receipt is the rewind's, and the journal is of it.
LEMMA Handles ==
    ASSUME Sole
    PROVE  /\ tx # {} => tx = {Receipt} /\ IsReceipt(Receipt) /\ Receipt.next <= nextTurn
           /\ journal # {} => /\ tx # {} /\ Entry.tx = Receipt
                              /\ \/ Open(Receipt) /\ ~Entry.committed
                                 \/ Closed(Receipt) /\ Entry.committed
           /\ tx # {} => Doing = Receipt
<1>1. ASSUME tx # {}
      PROVE  tx = {Receipt} /\ IsReceipt(Receipt) /\ Receipt.next <= nextTurn
  <2>1. PICK r : r \in tx
    BY <1>1
  <2>2. tx = {r} /\ IsReceipt(r) /\ r.next <= nextTurn
    BY <2>1 DEF Sole, OneReceipt, ItsJournal, ItsTask
  <2> QED BY <2>2, TheReceipt
<1>2. ASSUME journal # {}
      PROVE  /\ tx # {} /\ Entry.tx = Receipt
             /\ \/ Open(Receipt) /\ ~Entry.committed
                \/ Closed(Receipt) /\ Entry.committed
  <2>1. PICK r \in tx : Open(r) \/ Closed(r)
    BY <1>2 DEF Sole, OneReceipt, ItsJournal, ItsTask
  <2>2. r = Receipt
    BY <1>1, <2>1
  <2>3. CASE Open(r)
    BY <2>1, <2>2, <2>3, TheEntry
  <2>4. CASE Closed(r)
    BY <2>1, <2>2, <2>4, TheEntry
  <2> QED BY <2>1, <2>3, <2>4
<1>3. ASSUME tx # {} PROVE Doing = Receipt
  BY <1>2 DEF Doing, Sole, ItsTask
<1> QED BY <1>1, <1>2, <1>3

\* A failing operation is counted.
LEMMA FaultCount ==
    ASSUME faults \in Seq({"untouched", "replaced", "unread"})
    PROVE  /\ Len(faults) \in Nat
           /\ \A k \in {"untouched", "replaced", "unread"} : Fails(k) =>
                 faults' \in Seq({"untouched", "replaced", "unread"}) /\ Len(faults') = Len(faults) + 1
           /\ \A x, y, z : WriteFails(x, y, z) =>
                 /\ y \in {x, z}
                 /\ faults' \in Seq({"untouched", "replaced", "unread"}) /\ Len(faults') = Len(faults) + 1
           /\ Fails("unread") => "unread" \in Range(faults')
<1> DEFINE S == {"untouched", "replaced", "unread"}
<1>1. "untouched" \in S /\ "replaced" \in S /\ "unread" \in S
  OBVIOUS
<1> HIDE DEF S
<1>2. ASSUME NEW k \in S, Fails(k)
      PROVE  faults' \in Seq(S) /\ Len(faults') = Len(faults) + 1
  <2>1. faults' = Append(faults, k) /\ faults \in Seq(S)
    BY <1>2 DEF Fails, S
  <2> QED BY <2>1
<1>3. ASSUME NEW x, NEW y, NEW z, WriteFails(x, y, z)
      PROVE  y \in {x, z} /\ faults' \in Seq(S) /\ Len(faults') = Len(faults) + 1
  BY <1>1, <1>2, <1>3 DEF WriteFails
<1>4. Len(faults) \in Nat
  OBVIOUS
<1>5. Fails("unread") => "unread" \in Range(faults')
  <2> SUFFICES ASSUME Fails("unread") PROVE "unread" \in Range(faults')
    OBVIOUS
  <2>1. faults' = Append(faults, "unread") /\ faults \in Seq(S)
    BY DEF Fails, S
  <2>2. Len(faults) + 1 \in DOMAIN faults' /\ faults'[Len(faults) + 1] = "unread"
    BY <1>1, <2>1
  <2> QED BY <2>2 DEF Range
<1> QED BY <1>2, <1>3, <1>4, <1>5 DEF S

\* One more file put back is a worktree.
LEMMA RestoreType ==
    ASSUME files \in Tree, job.todo \subseteq Files, NEW tree \in Tree, RestoreOne(tree)
    PROVE  files' \in Tree
BY DEF RestoreOne, Tree

\* A ledger saved, or not.
LEMMA LedgerType ==
    ASSUME StoreTypes, faults \in Seq({"untouched", "replaced", "unread"}),
           NEW next \in Seq(Turns), LedgerSaved(next) \/ LedgerFails(next)
    PROVE  /\ ledger' \in Seq(Turns) /\ points' \in Seq(Turns) /\ refs' \subseteq Turns
           /\ pin' \in {"none", "pinned", "loose", "gone"}
BY FaultCount DEF StoreTypes, LedgerSaved, LedgerFails, RetainedPin, Collected

\* Every step keeps the types of the stores.
LEMMA StoreStep ==
    ASSUME Base, [Next]_vars
    PROVE  StoreTypes'
<1> USE DEF Base, StoreTypes
<1>r. /\ tx # {} => IsReceipt(Receipt)
      /\ job.kind # "none" => tx # {} /\ Doing = Receipt
      /\ job.kind = "reopen" => Entry.tx = Receipt
      /\ queue # <<>> => tx # {}
  BY Handles DEF Sole, OneReceipt, ItsJournal, ItsTask
<1>t. job.kind # "none" => shots[Receipt.turn].before \in Tree /\ Receipt.recovery \in Tree
  BY <1>r DEF IsReceipt
<1>o. job.todo \subseteq Files /\ faults \in Seq({"untouched", "replaced", "unread"})
  BY DEF ControlTypes, Jobs
<1>f. ASSUME files' \in Tree,
             UNCHANGED <<conv, ledger, points, shots, refs, active, nextTurn>>,
             pin' \in {pin, Unpinned}
      PROVE  StoreTypes'
  BY <1>f DEF Unpinned
<1>l. ASSUME NEW next \in Seq(Turns), LedgerSaved(next) \/ LedgerFails(next),
             UNCHANGED <<conv, files, shots, active, nextTurn>>
      PROVE  StoreTypes'
  BY <1>l, <1>o, LedgerType
<1>p. tx # {} => /\ Receipt.kept \in Seq(Turns) /\ Receipt.prev \in Seq(Turns)
                 /\ Receipt.orig \in Seq(Turns) /\ Receipt.target \in Seq(Turns)
  BY <1>r DEF IsReceipt
<1>1. CASE Submit
  <2>1. nextTurn \in Turns /\ nextTurn \in 0..MaxTurns /\ nextTurn + 1 \in Nat /\ nextTurn + 1 >= 1
    BY <1>1, BoundsAssumption DEF Submit, Turns
  <2>2. conv' \in Seq(Turns)
    BY <1>1, <2>1 DEF Submit
  <2>3. shots' \in [Turns -> [before : Tree, after : Tree]]
    BY <1>1, <2>1 DEF Submit
  <2> QED BY <1>1, <2>1, <2>2, <2>3 DEF Submit, Collected
<1>2. ASSUME NEW f \in Files, TurnWrites(f) PROVE StoreTypes'
  <2>1. files' \in Tree
    BY <1>2 DEF TurnWrites, Tree
  <2>2. UNCHANGED <<conv, ledger, points, shots, refs, active, nextTurn>> /\ pin' \in {pin, Unpinned}
    BY <1>2 DEF TurnWrites, process
  <2> QED BY <1>f, <2>1, <2>2
<1>3. CASE TurnEnds
  <2> DEFINE next == Append(points, active)
  <2>1. active \in Turns /\ 0 \in 0..MaxTurns
    BY <1>3, BoundsAssumption DEF TurnEnds, Turns
  <2>2. next \in Seq(Turns)
    BY <2>1
  <2>3. shots' \in [Turns -> [before : Tree, after : Tree]]
    BY <1>3, <2>1 DEF TurnEnds
  <2> HIDE DEF next
  <2>4. /\ ledger' \in {ledger, next} /\ points' \in {points, next}
        /\ refs' \subseteq refs \cup {active} /\ pin' \in {pin, Collected}
    BY <1>3, <1>o, FaultCount DEF TurnEnds, RetainedPin, next
  <2>5. UNCHANGED <<conv, files, nextTurn>> /\ active' = 0
    BY <1>3 DEF TurnEnds
  <2> QED BY <2>1, <2>2, <2>3, <2>4, <2>5 DEF Collected
<1>4. ASSUME NEW t \in Turns, NEW s \in Scopes, Begin(t, s) PROVE StoreTypes'
  BY <1>4 DEF Begin, Plan
<1>5. ASSUME NEW t \in Turns, NEW s \in Scopes, BeginRefused(t, s) PROVE StoreTypes'
  BY <1>5 DEF BeginRefused, process
<1>6. CASE BeginJournal
  BY <1>6 DEF BeginJournal, UnchangedByJob
<1>7. CASE BeginFiles
  <2>1. files' \in Tree
    BY <1>7, <1>t, <1>o, RestoreType DEF BeginFiles, At
  <2>2. UNCHANGED <<conv, ledger, points, shots, refs, active, nextTurn>> /\ pin' \in {pin, Unpinned}
    BY <1>7 DEF BeginFiles, UnchangedByJob
  <2> QED BY <1>f, <2>1, <2>2
<1>8. CASE BeginFilesFail
  BY <1>8 DEF BeginFilesFail, UnchangedByJob
<1>9. CASE BeginBack
  <2>1. files' \in Tree
    BY <1>9, <1>t, <1>o, RestoreType DEF BeginBack, At
  <2>2. UNCHANGED <<conv, ledger, points, shots, refs, active, nextTurn>> /\ pin' \in {pin, Unpinned}
    BY <1>9 DEF BeginBack, UnchangedByJob
  <2> QED BY <1>f, <2>1, <2>2
<1>10. CASE BeginBackClear
  BY <1>10 DEF BeginBackClear, Unpinned, UnchangedByJob
<1>11. CASE BeginLedger
  <2>1. Receipt.kept \in Seq(Turns)
    BY <1>11, <1>r, <1>p DEF BeginLedger, At
  <2>2. UNCHANGED <<conv, files, shots, active, nextTurn>>
    BY <1>11 DEF BeginLedger, UnchangedByJob
  <2>3. LedgerSaved(Receipt.kept) \/ LedgerFails(Receipt.kept)
    BY <1>11 DEF BeginLedger
  <2> QED BY <1>l, <2>1, <2>2, <2>3
<1>12. CASE BeginUndo
  <2>1. files' \in Tree
    BY <1>12, <1>t, <1>o, RestoreType DEF BeginUndo, At
  <2>2. UNCHANGED <<conv, ledger, points, shots, refs, active, nextTurn>> /\ pin' \in {pin, Unpinned}
    BY <1>12 DEF BeginUndo, UnchangedByJob
  <2> QED BY <1>f, <2>1, <2>2
<1>13. CASE BeginUndoClear
  BY <1>13 DEF BeginUndoClear, Unpinned, UnchangedByJob
<1>14. CASE Rebuild
  <2>1. conv' \in Seq(Turns)
    BY <1>14, <1>r, <1>p DEF Rebuild
  <2> QED BY <1>14, <2>1 DEF Rebuild, UnchangedByUndo
<1>15. CASE CommitMark
  BY <1>15 DEF CommitMark, UnchangedByJob
<1>16. CASE CommitUnpin
  BY <1>16 DEF CommitUnpin, Unpinned, UnchangedByJob
<1>17. CASE CompensateLedger
  <2>1. Receipt.prev \in Seq(Turns)
    BY <1>17, <1>r, <1>p DEF CompensateLedger, At
  <2>2. UNCHANGED <<conv, files, shots, active, nextTurn>>
    BY <1>17 DEF CompensateLedger, UnchangedByJob
  <2>3. LedgerSaved(Receipt.prev) \/ LedgerFails(Receipt.prev)
    BY <1>17 DEF CompensateLedger
  <2> QED BY <1>l, <2>1, <2>2, <2>3
<1>18. CASE CompensateFiles
  <2>1. files' \in Tree
    BY <1>18, <1>t, <1>o, RestoreType DEF CompensateFiles, At, RestoreFails
  <2>2. UNCHANGED <<conv, ledger, points, shots, refs, active, nextTurn>> /\ pin' \in {pin, Unpinned}
    BY <1>18 DEF CompensateFiles, UnchangedByJob
  <2> QED BY <1>f, <2>1, <2>2
<1>19. CASE CompensateUnpin
  BY <1>19 DEF CompensateUnpin, Unpinned, UnchangedByJob
<1>20. CASE FinishClear
  BY <1>20 DEF FinishClear, UnchangedByJob
<1>21. CASE ReopenLedger
  <2> DEFINE next == IF Forward THEN Entry.tx.kept ELSE Entry.tx.prev
  <2>1. next \in Seq(Turns)
    BY <1>21, <1>r, <1>p DEF ReopenLedger, At
  <2>2. UNCHANGED <<conv, files, shots, active, nextTurn>>
    BY <1>21 DEF ReopenLedger, UnchangedByJob
  <2>3. LedgerSaved(next) \/ LedgerFails(next)
    BY <1>21 DEF ReopenLedger
  <2> QED BY <1>l, <2>1, <2>2, <2>3
<1>22. CASE ReopenFiles
  <2>1. files' \in Tree
    BY <1>22, <1>r, <1>t, <1>o, RestoreType DEF ReopenFiles, At, RestoreFails
  <2>2. UNCHANGED <<conv, ledger, points, shots, refs, active, nextTurn>> /\ pin' \in {pin, Unpinned}
    BY <1>22 DEF ReopenFiles, UnchangedByJob
  <2> QED BY <1>f, <2>1, <2>2
<1>23. CASE ReopenUnpin
  BY <1>23 DEF ReopenUnpin, Unpinned, UnchangedByJob
<1>24. CASE ReopenClear
  BY <1>24 DEF ReopenClear, GiveUp, UnchangedByJob
<1>25. CASE Apply
  <2>1. conv' \in Seq(Turns)
    BY <1>25, <1>r, <1>p DEF Apply, Reads
  <2> QED BY <1>25, <2>1 DEF Apply, UnchangedByUndo
<1>26. CASE ApplyBusy
  BY <1>26 DEF ApplyBusy, UnchangedByUndo
<1>27. CASE ApplyFails
  <2>1. conv' \in Seq(Turns)
    BY <1>27, <1>r, <1>p DEF ApplyFails, Reads
  <2> QED BY <1>27, <2>1 DEF ApplyFails, UnchangedByUndo
<1>28. CASE Finish
  BY <1>28 DEF Finish, durable
<1>29. CASE Reject
  BY <1>29 DEF Reject, durable
<1>30. CASE AskUndo
  BY <1>30 DEF AskUndo, HolderStep, durable
<1>31. CASE AskCommit
  BY <1>31 DEF AskCommit, HolderStep, durable
<1>32. CASE AskCompensate
  BY <1>32 DEF AskCompensate, HolderStep, durable
<1>33. CASE Drop
  BY <1>33 DEF Drop, HolderStep, durable
<1>34. CASE Crash
  <2>1. 0 \in 0..MaxTurns /\ <<>> \in Seq(Turns)
    BY BoundsAssumption
  <2> QED BY <1>34, <2>1 DEF Crash, durable
<1>35. CASE Reopen
  <2>1. points' \in Seq(Turns)
    <3>1. <<>> \in Seq(Turns)
      OBVIOUS
    <3> QED BY <1>35, <3>1 DEF Reopen
  <2> QED BY <1>35, <2>1 DEF Reopen, UnchangedByReopen, durable
<1>36. CASE UNCHANGED vars
  BY <1>36 DEF vars, durable, process
<1>37. CASE ReopenBlind
  BY <1>37 DEF ReopenBlind, UnchangedByReopen, durable
<1> QED BY <1>1, <1>2, <1>3, <1>4, <1>5, <1>6, <1>7, <1>8, <1>9, <1>10, <1>11, <1>12,
  <1>13, <1>14, <1>15, <1>16, <1>17, <1>18, <1>19, <1>20, <1>21, <1>22, <1>23, <1>24,
  <1>25, <1>26, <1>27, <1>28, <1>29, <1>30, <1>31, <1>32, <1>33, <1>34, <1>35, <1>36, <1>37 DEF
  Next, Begins, Task, Control, Driver

\* What the helpers of the steps do to the process.
LEMMA ControlHelpers ==
    ASSUME ControlTypes
    PROVE  /\ NoJob \in Jobs
           /\ \A k \in Kinds, p \in Places : [NoJob EXCEPT !.kind = k, !.at = p] \in Jobs
           /\ \A p \in Places, td \in SUBSET Files : Move(p, td) => job' \in Jobs
           /\ \A ph \in Phases : Done(ph) => job' \in Jobs /\ phase' \in Phases
           /\ \A h \in Holders : Answer(h) => holder' \in Holders
           /\ \A tree : RestoreOne(tree) => job' \in Jobs
           /\ \A m \in Controls : Send(m) => queue' \in Seq(Controls)
           /\ \A m : Reads(m) => queue' \in Seq(Controls)
<1> USE DEF ControlTypes
<1>1. NoJob \in Jobs
  BY DEF NoJob, Jobs, Kinds, Places
<1>8. \A k \in Kinds, p \in Places : [NoJob EXCEPT !.kind = k, !.at = p] \in Jobs
  BY DEF NoJob, Jobs
<1>2. \A p \in Places, td \in SUBSET Files : Move(p, td) => job' \in Jobs
  BY DEF Move, Jobs
<1>3. \A ph \in Phases : Done(ph) => job' \in Jobs /\ phase' \in Phases
  BY <1>1 DEF Done
<1>4. \A h \in Holders : Answer(h) => holder' \in Holders
  BY DEF Answer, Holders
<1>5. \A tree : RestoreOne(tree) => job' \in Jobs
  BY DEF RestoreOne, Jobs
<1>6. \A m \in Controls : Send(m) => queue' \in Seq(Controls)
  BY DEF Send
<1>7. \A m : Reads(m) => queue' \in Seq(Controls)
  BY DEF Reads
<1> QED BY <1>1, <1>2, <1>3, <1>4, <1>5, <1>6, <1>7, <1>8

\* Every step keeps the types of the process.
LEMMA ControlStep ==
    ASSUME Base, [Next]_vars
    PROVE  ControlTypes'
<1> USE DEF Base, ControlTypes
<1>r. /\ tx # {} => Receipt.restored \in SUBSET Files
      /\ job.kind = "reopen" => Entry.tx.restored \in SUBSET Files
      /\ {} \in SUBSET Files
  BY Handles DEF Sole, ItsTask, IsReceipt
<1>k. job.kind # "none" => tx # {}
  BY DEF Sole, OneReceipt, ItsJournal, ItsTask
<1>n. /\ {"journal", "files", "back", "undo", "rebuild", "start", "unpin", "clear"} \subseteq Places
      /\ {"Ready", "Reconfiguring", "InTurn", "Failed", "Broken", "Down", "Opening"} \subseteq Phases
      /\ {"none", "begin", "held", "apply", "ok", "err", "finish"} \subseteq Holders
      /\ {"apply", "commit", "compensate", "recover"} \subseteq Controls
      /\ {"begin", "undo", "commit", "compensate", "reopen"} \subseteq Kinds
  BY DEF Places, Phases, Holders, Controls, Kinds
<1>1. CASE Submit
  BY <1>1, <1>n DEF Submit
<1>2. ASSUME NEW f \in Files, TurnWrites(f) PROVE ControlTypes'
  BY <1>2 DEF TurnWrites, process
<1>3. CASE TurnEnds
  BY <1>3, <1>n, FaultCount DEF TurnEnds
<1>4. ASSUME NEW t \in Turns, NEW s \in Scopes, Begin(t, s) PROVE ControlTypes'
  <2>1. job' \in Jobs
    BY <1>4, <1>n, ControlHelpers DEF Begin
  <2> QED BY <1>4, <1>n, <2>1 DEF Begin
<1>5. ASSUME NEW t \in Turns, NEW s \in Scopes, BeginRefused(t, s) PROVE ControlTypes'
  BY <1>5 DEF BeginRefused, process
<1>6. CASE BeginJournal
  BY <1>6, <1>r, <1>k, <1>n, ControlHelpers, FaultCount DEF BeginJournal, At, UnchangedByJob
<1>7. CASE BeginFiles
  BY <1>7, ControlHelpers DEF BeginFiles, UnchangedByJob
<1>8. CASE BeginFilesFail
  BY <1>8, <1>r, <1>k, <1>n, ControlHelpers, FaultCount DEF BeginFilesFail, At, UnchangedByJob
<1>9. CASE BeginBack
  <2>1. job' \in Jobs
    <3>1. [job EXCEPT !.todo = {}, !.bad = TRUE] \in Jobs
      BY DEF Jobs
    <3> QED BY <1>9, <3>1, ControlHelpers DEF BeginBack
  <2> QED BY <1>9, <2>1, FaultCount DEF BeginBack, UnchangedByJob
<1>10. CASE BeginBackClear
  BY <1>10, <1>n, ControlHelpers, FaultCount DEF BeginBackClear, UnchangedByJob
<1>11. CASE BeginLedger
  <2>1. job' \in Jobs
    BY <1>11, <1>r, <1>k, <1>n, ControlHelpers DEF BeginLedger, At
  <2>2. phase' \in Phases /\ holder' \in Holders
    BY <1>11, <1>n, ControlHelpers DEF BeginLedger
  <2>3. queue' \in Seq(Controls)
    BY <1>11, <1>n DEF BeginLedger
  <2>4. faults' \in Seq({"untouched", "replaced", "unread"})
    BY <1>11, FaultCount DEF BeginLedger, LedgerSaved, LedgerFails
  <2>5. unavailable' \in BOOLEAN /\ crashes' \in Nat
    BY <1>11 DEF BeginLedger, UnchangedByJob
  <2> QED BY <2>1, <2>2, <2>3, <2>4, <2>5
<1>12. CASE BeginUndo
  BY <1>12, <1>n, ControlHelpers, FaultCount DEF BeginUndo, UnchangedByJob
<1>13. CASE BeginUndoClear
  BY <1>13, <1>n, ControlHelpers, FaultCount DEF BeginUndoClear, UnchangedByJob
<1>14. CASE Rebuild
  BY <1>14, <1>n, ControlHelpers, FaultCount DEF Rebuild, UnchangedByUndo
<1>15. CASE CommitMark
  BY <1>15, <1>n, ControlHelpers, FaultCount DEF CommitMark, UnchangedByJob
<1>16. CASE CommitUnpin
  BY <1>16, <1>n, ControlHelpers DEF CommitUnpin, UnchangedByJob
<1>17. CASE CompensateLedger
  BY <1>17, <1>r, <1>k, <1>n, ControlHelpers, FaultCount
     DEF CompensateLedger, LedgerSaved, LedgerFails, At, UnchangedByJob
<1>18. CASE CompensateFiles
  BY <1>18, <1>n, ControlHelpers, FaultCount DEF CompensateFiles, RestoreFails, UnchangedByJob
<1>19. CASE CompensateUnpin
  BY <1>19, <1>n, ControlHelpers DEF CompensateUnpin, UnchangedByJob
<1>20. CASE FinishClear
  BY <1>20, <1>n, ControlHelpers, FaultCount DEF FinishClear, ReadyAgain, UnchangedByJob
<1>21. CASE ReopenLedger
  <2>1. job' \in Jobs
    BY <1>21, <1>r, <1>n, ControlHelpers DEF ReopenLedger, GiveUp, At
  <2>2. phase' \in Phases /\ holder' \in Holders
    BY <1>21, <1>n, ControlHelpers DEF ReopenLedger, GiveUp
  <2>3. queue' \in Seq(Controls)
    BY <1>21 DEF ReopenLedger, GiveUp
  <2>4. faults' \in Seq({"untouched", "replaced", "unread"})
    BY <1>21, FaultCount DEF ReopenLedger, LedgerSaved, LedgerFails, GiveUp
  <2>5. unavailable' \in BOOLEAN /\ crashes' \in Nat
    BY <1>21 DEF ReopenLedger, GiveUp, UnchangedByJob
  <2> QED BY <2>1, <2>2, <2>3, <2>4, <2>5
<1>22. CASE ReopenFiles
  BY <1>22, <1>n, ControlHelpers, FaultCount DEF ReopenFiles, RestoreFails, GiveUp, UnchangedByJob
<1>23. CASE ReopenUnpin
  BY <1>23, <1>n, ControlHelpers DEF ReopenUnpin, UnchangedByJob
<1>24. CASE ReopenClear
  BY <1>24, <1>n, ControlHelpers, FaultCount DEF ReopenClear, GiveUp, UnchangedByJob
<1>25. CASE Apply
  <2>1. job' \in Jobs
    <3>1. [NoJob EXCEPT !.kind = "undo", !.at = "rebuild"] \in Jobs
      BY <1>n, ControlHelpers
    <3> QED BY <1>25, <3>1 DEF Apply
  <2> QED BY <1>25, <1>n, <2>1, ControlHelpers DEF Apply, UnchangedByUndo
<1>26. CASE ApplyBusy
  BY <1>26, <1>n, ControlHelpers DEF ApplyBusy, UnchangedByUndo
<1>27. CASE ApplyFails
  BY <1>27, <1>n, ControlHelpers, FaultCount DEF ApplyFails, UnchangedByUndo
<1>28. CASE Finish
  <2>1. job' \in Jobs
    <3>1. PICK m \in {"commit", "compensate", "recover"}, read \in BOOLEAN :
              job' = [kind |-> FinishKind(m, read), at |-> "start", todo |-> {}, bad |-> FALSE]
      BY <1>28 DEF Finish
    <3>2. FinishKind(m, read) \in Kinds
      BY <1>n DEF FinishKind
    <3> QED BY <1>n, <3>1, <3>2 DEF Jobs
  <2>2. faults' \in Seq({"untouched", "replaced", "unread"})
    BY <1>28, FaultCount DEF Finish, ReadBack
  <2>3. queue' \in Seq(Controls)
    BY <1>28, ControlHelpers DEF Finish
  <2>4. UNCHANGED <<phase, unavailable, holder, crashes>>
    BY <1>28 DEF Finish
  <2> QED BY <2>1, <2>2, <2>3, <2>4
<1>29. CASE Reject
  <2>1. job' \in Jobs
    BY <1>29 DEF Reject, durable
  <2>2. phase' \in Phases /\ holder' \in Holders
    BY <1>29, <1>n, ControlHelpers DEF Reject, durable
  <2>3. queue' \in Seq(Controls)
    BY <1>29 DEF Reject, durable
  <2>4. faults' \in Seq({"untouched", "replaced", "unread"})
    BY <1>29 DEF Reject, durable
  <2>5. unavailable' \in BOOLEAN /\ crashes' \in Nat
    BY <1>29 DEF Reject, durable
  <2> QED BY <2>1, <2>2, <2>3, <2>4, <2>5
<1>30. CASE AskUndo
  BY <1>30, <1>n, ControlHelpers DEF AskUndo, HolderStep, durable
<1>31. CASE AskCommit
  BY <1>31, <1>n, ControlHelpers DEF AskCommit, HolderStep, durable
<1>32. CASE AskCompensate
  BY <1>32, <1>n, ControlHelpers DEF AskCompensate, HolderStep, durable
<1>33. CASE Drop
  BY <1>33, <1>n, ControlHelpers DEF Drop, HolderStep, durable
<1>34. CASE Crash
  <2>1. unavailable' \in BOOLEAN
    BY <1>34, Zenon DEF Crash
  <2>2. crashes' \in Nat
    BY <1>34 DEF Crash
  <2>3. queue' = <<>>
    BY <1>34 DEF Crash
  <2>4. <<>> \in Seq(Controls)
    OBVIOUS
  <2> QED BY <1>34, <1>n, <2>1, <2>2, <2>3, <2>4, ControlHelpers DEF Crash
<1>35. CASE Reopen
  <2>1. unavailable' \in BOOLEAN
    BY <1>35, Zenon DEF Reopen
  <2>2. job' \in Jobs /\ phase' \in Phases
    <3>1. \A b \in BOOLEAN :
             [NoJob EXCEPT !.kind = "reopen", !.at = "start", !.bad = b] \in Jobs
      BY <1>n DEF NoJob, Jobs, Kinds, Places
    <3>2. CASE journal = {}
      BY <1>35, <1>n, <3>2, ControlHelpers DEF Reopen
    <3>3. CASE journal # {}
      BY <1>35, <1>n, <3>1, <3>3 DEF Reopen
    <3> QED BY <3>2, <3>3
  <2>3. faults' \in Seq({"untouched", "replaced", "unread"})
    BY <1>35, FaultCount DEF Reopen, ReadBack
  <2> QED BY <1>35, <2>1, <2>2, <2>3 DEF Reopen, UnchangedByReopen
<1>36. CASE UNCHANGED vars
  BY <1>36 DEF vars, durable, process
<1>37. CASE ReopenBlind
  BY <1>37, <1>n, ControlHelpers, FaultCount DEF ReopenBlind, GiveUp, UnchangedByReopen
<1> QED BY <1>1, <1>2, <1>3, <1>4, <1>5, <1>6, <1>7, <1>8, <1>9, <1>10, <1>11, <1>12,
  <1>13, <1>14, <1>15, <1>16, <1>17, <1>18, <1>19, <1>20, <1>21, <1>22, <1>23, <1>24,
  <1>25, <1>26, <1>27, <1>28, <1>29, <1>30, <1>31, <1>32, <1>33, <1>34, <1>35, <1>36, <1>37 DEF
  Next, Begins, Task, Control, Driver

\* Every step keeps the receipt, its journal and its task together.
LEMMA SoleStep ==
    ASSUME Base, [Next]_vars
    PROVE  Sole'
<1> USE DEF Base, Sole
<1>a. ASSUME tx' = tx, nextTurn' \in {nextTurn, nextTurn + 1} PROVE OneReceipt'
  <2>1. ASSUME NEW r \in tx
        PROVE  tx = {r} /\ IsReceipt(r) /\ r.next <= nextTurn /\ r.next \in Nat
    BY <2>1 DEF OneReceipt, IsReceipt
  <2>2. ASSUME NEW r \in tx PROVE r.next <= nextTurn'
    BY <1>a, <2>1 DEF StoreTypes
  <2> QED BY <1>a, <2>1, <2>2 DEF OneReceipt
<1>b. ASSUME tx' = tx, journal' \in {journal, {}} PROVE ItsJournal'
  BY <1>b DEF ItsJournal, Open, Closed
<1>c. ASSUME tx' = tx, tx # {},
             journal' \in {journal, {[tx |-> Receipt, committed |-> FALSE]},
                                    {[tx |-> Receipt, committed |-> TRUE]}}
      PROVE  ItsJournal'
  BY <1>c, Handles DEF ItsJournal, Open, Closed
<1>j. /\ \A p, td : Move(p, td) => job'.kind = job.kind
      /\ \A tree : RestoreOne(tree) => job'.kind = job.kind
      /\ \A ph : Done(ph) => job' = NoJob /\ phase' = ph
  BY DEF ControlTypes, Jobs, Move, RestoreOne, Done
<1>k. job.kind # "none" => tx # {} /\ phase # "Down"
  BY DEF ItsTask
<1>t. ASSUME job.kind # "none", tx' = tx, phase' # "Down", job' = NoJob \/ job'.kind = job.kind,
             job'.kind = "reopen" => journal' = journal
      PROVE  ItsTask'
  BY <1>t DEF ItsTask, NoJob
<1>1. CASE Submit
  <2>1. tx' = tx /\ nextTurn' \in {nextTurn, nextTurn + 1}
    BY <1>1 DEF Submit
  <2>2. OneReceipt' /\ ItsJournal'
    BY <1>1, <1>a, <1>b, <2>1 DEF Submit
  <2>3. ItsTask'
    BY <1>1 DEF Submit, ItsTask
  <2> QED BY <2>2, <2>3
<1>2. ASSUME NEW f \in Files, TurnWrites(f) PROVE Sole'
  <2>1. tx' = tx /\ nextTurn' \in {nextTurn, nextTurn + 1}
    BY <1>2 DEF TurnWrites, process
  <2>2. OneReceipt' /\ ItsJournal'
    BY <1>2, <1>a, <1>b, <2>1 DEF TurnWrites, process
  <2>3. ItsTask'
    BY <1>2 DEF TurnWrites, process, ItsTask
  <2> QED BY <2>2, <2>3
<1>3. CASE TurnEnds
  <2>1. tx' = tx /\ nextTurn' \in {nextTurn, nextTurn + 1}
    BY <1>3 DEF TurnEnds
  <2>2. OneReceipt' /\ ItsJournal'
    BY <1>3, <1>a, <1>b, <2>1 DEF TurnEnds
  <2>3. ItsTask'
    BY <1>3 DEF TurnEnds, ItsTask
  <2> QED BY <2>2, <2>3
<1>4. ASSUME NEW t \in Turns, NEW s \in Scopes, Begin(t, s) PROVE Sole'
  <2> DEFINE r == Plan(t, s)
  <2>1. tx' = {r} /\ nextTurn' = nextTurn /\ journal' = journal /\ tx = {}
    BY <1>4 DEF Begin
  <2>2. /\ r.scope = s /\ r.turn = t /\ r.disk = ledger /\ r.prev = points
        /\ r.kept = Older(points, t) /\ r.recovery = files
        /\ r.restored = IF s = "conversation" THEN {} ELSE Changed(t)
        /\ r.orig = conv /\ r.target = IF s = "code" THEN conv ELSE Before(t)
        /\ r.next = nextTurn
    BY DEF Plan
  <2> HIDE DEF r
  <2>3. r.kept \in Seq(Turns) /\ Changed(t) \subseteq Files
    BY <2>2, OlderType DEF StoreTypes, Changed
  <2>4. s # "code" => Before(t) \in Seq(Turns) /\ Before(t) # conv
    BY <1>4, BeforeType DEF Begin, Offered, StoreTypes
  <2>5. s \in {"code", "conversation", "both"}
    BY BoundsAssumption
  <2>6. IsReceipt(r)
    BY <2>2, <2>3, <2>4, <2>5 DEF IsReceipt, TakesBack, StoreTypes
  <2>7. OneReceipt'
    BY <2>1, <2>2, <2>6 DEF OneReceipt, StoreTypes
  <2>8. journal = {}
    BY <2>1, Handles
  <2>9. ItsJournal'
    BY <2>1, <2>8 DEF ItsJournal
  <2>10. job'.kind = "begin" /\ phase' = "Reconfiguring"
    BY <1>4 DEF Begin
  <2>11. ItsTask'
    BY <2>1, <2>10 DEF ItsTask
  <2> QED BY <2>7, <2>9, <2>11
<1>5. ASSUME NEW t \in Turns, NEW s \in Scopes, BeginRefused(t, s) PROVE Sole'
  <2>1. tx' = tx /\ nextTurn' \in {nextTurn, nextTurn + 1}
    BY <1>5 DEF BeginRefused, process
  <2>2. OneReceipt' /\ ItsJournal'
    BY <1>5, <1>a, <1>b, <2>1 DEF BeginRefused, process
  <2>3. ItsTask'
    BY <1>5 DEF BeginRefused, process, ItsTask
  <2> QED BY <2>2, <2>3
<1>6. CASE BeginJournal
  <2>1. job.kind # "none" /\ tx' = tx /\ nextTurn' = nextTurn
    BY <1>6 DEF BeginJournal, At, UnchangedByJob
  <2>2. OneReceipt' /\ ItsJournal'
    <3>1. journal' \in {journal, {[tx |-> Receipt, committed |-> FALSE]}}
      BY <1>6 DEF BeginJournal, WriteFails
    <3> QED BY <1>a, <1>k, <1>c, <2>1, <3>1
  <2>3. /\ phase' # "Down" /\ (job' = NoJob \/ job'.kind = job.kind)
        /\ job'.kind = "reopen" => journal' = journal
    BY <1>6, <1>j, <1>k DEF BeginJournal, At, NoJob
  <2> QED BY <1>t, <2>1, <2>2, <2>3
<1>7. CASE BeginFiles
  <2>1. job.kind # "none" /\ tx' = tx /\ nextTurn' = nextTurn
    BY <1>7 DEF BeginFiles, At, UnchangedByJob
  <2>2. OneReceipt' /\ ItsJournal'
    BY <1>7, <1>a, <1>b, <2>1 DEF BeginFiles
  <2>3. /\ phase' # "Down" /\ (job' = NoJob \/ job'.kind = job.kind)
        /\ job'.kind = "reopen" => journal' = journal
    BY <1>7, <1>j, <1>k DEF BeginFiles, At
  <2> QED BY <1>t, <2>1, <2>2, <2>3
<1>8. CASE BeginFilesFail
  <2>1. job.kind # "none" /\ tx' = tx /\ nextTurn' = nextTurn
    BY <1>8 DEF BeginFilesFail, At, UnchangedByJob
  <2>2. OneReceipt' /\ ItsJournal'
    BY <1>8, <1>a, <1>b, <2>1 DEF BeginFilesFail
  <2>3. /\ phase' # "Down" /\ (job' = NoJob \/ job'.kind = job.kind)
        /\ job'.kind = "reopen" => journal' = journal
    BY <1>8, <1>j, <1>k DEF BeginFilesFail, At
  <2> QED BY <1>t, <2>1, <2>2, <2>3
<1>9. CASE BeginBack
  <2>1. job.kind # "none" /\ tx' = tx /\ nextTurn' = nextTurn
    BY <1>9 DEF BeginBack, At, UnchangedByJob
  <2>2. OneReceipt' /\ ItsJournal'
    BY <1>9, <1>a, <1>b, <2>1 DEF BeginBack
  <2>3. /\ phase' # "Down" /\ (job' = NoJob \/ job'.kind = job.kind)
        /\ job'.kind = "reopen" => journal' = journal
    <3>1. [job EXCEPT !.todo = {}, !.bad = TRUE].kind = job.kind
      BY DEF ControlTypes, Jobs
    <3>2. job'.kind = job.kind
      BY <1>9, <1>j, <3>1 DEF BeginBack
    <3> QED BY <1>9, <1>k, <2>1, <3>2 DEF BeginBack, UnchangedByJob
  <2> QED BY <1>t, <2>1, <2>2, <2>3
<1>10. CASE BeginBackClear
  <2>1. job.kind # "none" /\ tx' = tx /\ nextTurn' = nextTurn
    BY <1>10 DEF BeginBackClear, At, UnchangedByJob
  <2>2. OneReceipt' /\ ItsJournal'
    BY <1>10, <1>a, <1>b, <2>1 DEF BeginBackClear
  <2>3. /\ phase' # "Down" /\ (job' = NoJob \/ job'.kind = job.kind)
        /\ job'.kind = "reopen" => journal' = journal
    BY <1>10, <1>j DEF BeginBackClear, NoJob
  <2> QED BY <1>t, <2>1, <2>2, <2>3
<1>11. CASE BeginLedger
  <2>1. job.kind # "none" /\ tx' = tx /\ nextTurn' = nextTurn
    BY <1>11 DEF BeginLedger, At, UnchangedByJob
  <2>2. OneReceipt' /\ ItsJournal'
    BY <1>11, <1>a, <1>b, <2>1 DEF BeginLedger
  <2>3. /\ phase' # "Down" /\ (job' = NoJob \/ job'.kind = job.kind)
        /\ job'.kind = "reopen" => journal' = journal
    BY <1>11, <1>j, <1>k DEF BeginLedger, At
  <2> QED BY <1>t, <2>1, <2>2, <2>3
<1>12. CASE BeginUndo
  <2>1. job.kind # "none" /\ tx' = tx /\ nextTurn' = nextTurn
    BY <1>12 DEF BeginUndo, At, UnchangedByJob
  <2>2. OneReceipt' /\ ItsJournal'
    BY <1>12, <1>a, <1>b, <2>1 DEF BeginUndo
  <2>3. /\ phase' # "Down" /\ (job' = NoJob \/ job'.kind = job.kind)
        /\ job'.kind = "reopen" => journal' = journal
    BY <1>12, <1>j, <1>k DEF BeginUndo, At
  <2> QED BY <1>t, <2>1, <2>2, <2>3
<1>13. CASE BeginUndoClear
  <2>1. job.kind # "none" /\ tx' = tx /\ nextTurn' = nextTurn
    BY <1>13 DEF BeginUndoClear, At, UnchangedByJob
  <2>2. OneReceipt' /\ ItsJournal'
    BY <1>13, <1>a, <1>b, <2>1 DEF BeginUndoClear
  <2>3. /\ phase' # "Down" /\ (job' = NoJob \/ job'.kind = job.kind)
        /\ job'.kind = "reopen" => journal' = journal
    BY <1>13, <1>j DEF BeginUndoClear, NoJob
  <2> QED BY <1>t, <2>1, <2>2, <2>3
<1>14. CASE Rebuild
  <2>1. job.kind # "none" /\ tx' = tx /\ nextTurn' = nextTurn
    BY <1>14 DEF Rebuild, UnchangedByUndo
  <2>2. OneReceipt' /\ ItsJournal'
    BY <1>14, <1>a, <1>b, <2>1 DEF Rebuild, UnchangedByUndo
  <2>3. /\ phase' # "Down" /\ (job' = NoJob \/ job'.kind = job.kind)
        /\ job'.kind = "reopen" => journal' = journal
    BY <1>14, <1>j DEF Rebuild, UnchangedByUndo
  <2> QED BY <1>t, <2>1, <2>2, <2>3
<1>15. CASE CommitMark
  <2>1. job.kind # "none" /\ tx' = tx /\ nextTurn' = nextTurn
    BY <1>15 DEF CommitMark, At, UnchangedByJob
  <2>2. OneReceipt' /\ ItsJournal'
    <3>1. journal' \in {journal, {[tx |-> Receipt, committed |-> TRUE]}}
      BY <1>15 DEF CommitMark, WriteFails
    <3> QED BY <1>a, <1>k, <1>c, <2>1, <3>1
  <2>3. /\ phase' # "Down" /\ (job' = NoJob \/ job'.kind = job.kind)
        /\ job'.kind = "reopen" => journal' = journal
    BY <1>15, <1>j, <1>k DEF CommitMark, At, NoJob
  <2> QED BY <1>t, <2>1, <2>2, <2>3
<1>16. CASE CommitUnpin
  <2>1. job.kind # "none" /\ tx' = tx /\ nextTurn' = nextTurn
    BY <1>16 DEF CommitUnpin, At, UnchangedByJob
  <2>2. OneReceipt' /\ ItsJournal'
    BY <1>16, <1>a, <1>b, <2>1 DEF CommitUnpin
  <2>3. /\ phase' # "Down" /\ (job' = NoJob \/ job'.kind = job.kind)
        /\ job'.kind = "reopen" => journal' = journal
    BY <1>16, <1>j, <1>k DEF CommitUnpin, At
  <2> QED BY <1>t, <2>1, <2>2, <2>3
<1>17. CASE CompensateLedger
  <2>1. job.kind # "none" /\ tx' = tx /\ nextTurn' = nextTurn
    BY <1>17 DEF CompensateLedger, At, UnchangedByJob
  <2>2. OneReceipt' /\ ItsJournal'
    BY <1>17, <1>a, <1>b, <2>1 DEF CompensateLedger
  <2>3. /\ phase' # "Down" /\ (job' = NoJob \/ job'.kind = job.kind)
        /\ job'.kind = "reopen" => journal' = journal
    BY <1>17, <1>j, <1>k DEF CompensateLedger, At
  <2> QED BY <1>t, <2>1, <2>2, <2>3
<1>18. CASE CompensateFiles
  <2>1. job.kind # "none" /\ tx' = tx /\ nextTurn' = nextTurn
    BY <1>18 DEF CompensateFiles, At, UnchangedByJob
  <2>2. OneReceipt' /\ ItsJournal'
    BY <1>18, <1>a, <1>b, <2>1 DEF CompensateFiles
  <2>3. /\ phase' # "Down" /\ (job' = NoJob \/ job'.kind = job.kind)
        /\ job'.kind = "reopen" => journal' = journal
    BY <1>18, <1>j, <1>k DEF CompensateFiles, At
  <2> QED BY <1>t, <2>1, <2>2, <2>3
<1>19. CASE CompensateUnpin
  <2>1. job.kind # "none" /\ tx' = tx /\ nextTurn' = nextTurn
    BY <1>19 DEF CompensateUnpin, At, UnchangedByJob
  <2>2. OneReceipt' /\ ItsJournal'
    BY <1>19, <1>a, <1>b, <2>1 DEF CompensateUnpin
  <2>3. /\ phase' # "Down" /\ (job' = NoJob \/ job'.kind = job.kind)
        /\ job'.kind = "reopen" => journal' = journal
    BY <1>19, <1>j, <1>k DEF CompensateUnpin, At
  <2> QED BY <1>t, <2>1, <2>2, <2>3
<1>20. CASE FinishClear
  <2>1. job.kind # "none" /\ tx' = tx /\ nextTurn' = nextTurn
    BY <1>20 DEF FinishClear, UnchangedByJob
  <2>2. OneReceipt' /\ ItsJournal'
    BY <1>20, <1>a, <1>b, <2>1 DEF FinishClear
  <2>3. /\ phase' # "Down" /\ (job' = NoJob \/ job'.kind = job.kind)
        /\ job'.kind = "reopen" => journal' = journal
    BY <1>20, <1>j, <1>k DEF FinishClear, ReadyAgain, NoJob, ReadyAgain
  <2> QED BY <1>t, <2>1, <2>2, <2>3
<1>21. CASE ReopenLedger
  <2>1. job.kind # "none" /\ tx' = tx /\ nextTurn' = nextTurn
    BY <1>21 DEF ReopenLedger, GiveUp, At, UnchangedByJob
  <2>2. OneReceipt' /\ ItsJournal'
    BY <1>21, <1>a, <1>b, <2>1 DEF ReopenLedger, GiveUp
  <2>3. /\ phase' # "Down" /\ (job' = NoJob \/ job'.kind = job.kind)
        /\ job'.kind = "reopen" => journal' = journal
    BY <1>21, <1>j, <1>k DEF ReopenLedger, GiveUp, At
  <2> QED BY <1>t, <2>1, <2>2, <2>3
<1>22. CASE ReopenFiles
  <2>1. job.kind # "none" /\ tx' = tx /\ nextTurn' = nextTurn
    BY <1>22 DEF ReopenFiles, GiveUp, At, UnchangedByJob
  <2>2. OneReceipt' /\ ItsJournal'
    BY <1>22, <1>a, <1>b, <2>1 DEF ReopenFiles, GiveUp
  <2>3. /\ phase' # "Down" /\ (job' = NoJob \/ job'.kind = job.kind)
        /\ job'.kind = "reopen" => journal' = journal
    BY <1>22, <1>j, <1>k DEF ReopenFiles, GiveUp, At
  <2> QED BY <1>t, <2>1, <2>2, <2>3
<1>23. CASE ReopenUnpin
  <2>1. job.kind # "none" /\ tx' = tx /\ nextTurn' = nextTurn
    BY <1>23 DEF ReopenUnpin, At, UnchangedByJob
  <2>2. OneReceipt' /\ ItsJournal'
    BY <1>23, <1>a, <1>b, <2>1 DEF ReopenUnpin
  <2>3. /\ phase' # "Down" /\ (job' = NoJob \/ job'.kind = job.kind)
        /\ job'.kind = "reopen" => journal' = journal
    BY <1>23, <1>j, <1>k DEF ReopenUnpin, At
  <2> QED BY <1>t, <2>1, <2>2, <2>3
<1>24. CASE ReopenClear
  <2>1. job.kind # "none" /\ tx' = tx /\ nextTurn' = nextTurn
    BY <1>24 DEF ReopenClear, GiveUp, At, UnchangedByJob
  <2>2. OneReceipt' /\ ItsJournal'
    BY <1>24, <1>a, <1>b, <2>1 DEF ReopenClear, GiveUp
  <2>3. /\ phase' # "Down" /\ (job' = NoJob \/ job'.kind = job.kind)
        /\ job'.kind = "reopen" => journal' = journal
    BY <1>24, <1>j DEF ReopenClear, GiveUp, NoJob
  <2> QED BY <1>t, <2>1, <2>2, <2>3
<1>25. CASE Apply
  <2>1. tx' = tx /\ nextTurn' \in {nextTurn, nextTurn + 1}
    BY <1>25 DEF Apply, UnchangedByUndo
  <2>2. OneReceipt' /\ ItsJournal'
    BY <1>25, <1>a, <1>b, <2>1 DEF Apply, UnchangedByUndo
  <2>3. ItsTask'
    BY <1>25 DEF Apply, Reads, UnchangedByUndo, ItsTask, NoJob
  <2> QED BY <2>2, <2>3
<1>26. CASE ApplyBusy
  <2>1. tx' = tx /\ nextTurn' \in {nextTurn, nextTurn + 1}
    BY <1>26 DEF ApplyBusy, UnchangedByUndo
  <2>2. OneReceipt' /\ ItsJournal'
    BY <1>26, <1>a, <1>b, <2>1 DEF ApplyBusy, UnchangedByUndo
  <2>3. ItsTask'
    BY <1>26 DEF ApplyBusy, Reads, UnchangedByUndo, ItsTask
  <2> QED BY <2>2, <2>3
<1>27. CASE ApplyFails
  <2>1. tx' = tx /\ nextTurn' \in {nextTurn, nextTurn + 1}
    BY <1>27 DEF ApplyFails, UnchangedByUndo
  <2>2. OneReceipt' /\ ItsJournal'
    BY <1>27, <1>a, <1>b, <2>1 DEF ApplyFails, UnchangedByUndo
  <2>3. ItsTask'
    BY <1>27 DEF ApplyFails, Reads, UnchangedByUndo, ItsTask
  <2> QED BY <2>2, <2>3
<1>28. CASE Finish
  <2>1. tx' = tx /\ nextTurn' \in {nextTurn, nextTurn + 1}
    BY <1>28 DEF Finish, durable
  <2>2. OneReceipt' /\ ItsJournal'
    BY <1>28, <1>a, <1>b, <2>1 DEF Finish, durable
  <2>3. ItsTask'
    BY <1>28 DEF Finish, Reads, FinishKind, durable, ItsTask
  <2> QED BY <2>2, <2>3
<1>29. CASE Reject
  <2>1. tx' = tx /\ nextTurn' \in {nextTurn, nextTurn + 1}
    BY <1>29 DEF Reject, durable
  <2>2. OneReceipt' /\ ItsJournal'
    BY <1>29, <1>a, <1>b, <2>1 DEF Reject, durable
  <2>3. ItsTask'
    BY <1>29 DEF Reject, durable, ItsTask
  <2> QED BY <2>2, <2>3
<1>30. CASE AskUndo
  <2>1. tx' = tx /\ nextTurn' \in {nextTurn, nextTurn + 1}
    BY <1>30 DEF AskUndo, HolderStep, durable
  <2>2. OneReceipt' /\ ItsJournal'
    BY <1>30, <1>a, <1>b, <2>1 DEF AskUndo, HolderStep, durable
  <2>3. ItsTask'
    BY <1>30 DEF AskUndo, HolderStep, durable, ItsTask
  <2> QED BY <2>2, <2>3
<1>31. CASE AskCommit
  <2>1. tx' = tx /\ nextTurn' \in {nextTurn, nextTurn + 1}
    BY <1>31 DEF AskCommit, HolderStep, durable
  <2>2. OneReceipt' /\ ItsJournal'
    BY <1>31, <1>a, <1>b, <2>1 DEF AskCommit, HolderStep, durable
  <2>3. ItsTask'
    BY <1>31 DEF AskCommit, HolderStep, durable, ItsTask
  <2> QED BY <2>2, <2>3
<1>32. CASE AskCompensate
  <2>1. tx' = tx /\ nextTurn' \in {nextTurn, nextTurn + 1}
    BY <1>32 DEF AskCompensate, HolderStep, durable
  <2>2. OneReceipt' /\ ItsJournal'
    BY <1>32, <1>a, <1>b, <2>1 DEF AskCompensate, HolderStep, durable
  <2>3. ItsTask'
    BY <1>32 DEF AskCompensate, HolderStep, durable, ItsTask
  <2> QED BY <2>2, <2>3
<1>33. CASE Drop
  <2>1. tx' = tx /\ nextTurn' \in {nextTurn, nextTurn + 1}
    BY <1>33 DEF Drop, HolderStep, durable
  <2>2. OneReceipt' /\ ItsJournal'
    BY <1>33, <1>a, <1>b, <2>1 DEF Drop, HolderStep, durable
  <2>3. ItsTask'
    BY <1>33 DEF Drop, HolderStep, durable, ItsTask
  <2> QED BY <2>2, <2>3
<1>34. CASE Crash
  <2>1. tx' = tx /\ nextTurn' \in {nextTurn, nextTurn + 1}
    BY <1>34 DEF Crash, durable
  <2>2. OneReceipt' /\ ItsJournal'
    BY <1>34, <1>a, <1>b, <2>1 DEF Crash, durable
  <2>3. ItsTask'
    BY <1>34 DEF Crash, durable, ItsTask, NoJob
  <2> QED BY <2>2, <2>3
<1>35. CASE Reopen
  <2>1. tx' = tx /\ nextTurn' = nextTurn /\ journal' = journal
    BY <1>35 DEF Reopen, UnchangedByReopen, durable
  <2>2. OneReceipt' /\ ItsJournal'
    BY <1>a, <1>b, <2>1
  <2>3. queue' = <<>> /\ holder' = "none"
    BY <1>35 DEF Reopen, UnchangedByReopen, ItsTask
  <2>4. CASE journal = {}
    <3>1. job' = NoJob /\ phase' = "Ready"
      BY <1>35, <2>4 DEF Reopen, Done
    <3> QED BY <2>2, <2>3, <3>1 DEF ItsTask, NoJob
  <2>5. CASE journal # {}
    <3>1. job'.kind = "reopen" /\ phase' = "Opening" /\ tx # {}
      BY <1>35, <2>5, Handles DEF Reopen, NoJob
    <3> QED BY <2>1, <2>2, <2>3, <2>5, <3>1 DEF ItsTask
  <2> QED BY <2>4, <2>5
<1>36. CASE UNCHANGED vars
  BY <1>36 DEF vars, durable, process, OneReceipt, ItsJournal, ItsTask, Open, Closed
<1>37. CASE ReopenBlind
  <2>1. tx' = tx /\ nextTurn' = nextTurn /\ journal' = journal
    BY <1>37 DEF ReopenBlind, UnchangedByReopen, durable
  <2>2. OneReceipt' /\ ItsJournal'
    BY <1>a, <1>b, <2>1
  <2>3. queue' = <<>> /\ holder' = "none" /\ job' = NoJob /\ phase' = "Ready"
    BY <1>37 DEF ReopenBlind, UnchangedByReopen, GiveUp, Done, ItsTask
  <2> QED BY <2>2, <2>3 DEF ItsTask, NoJob
<1> QED BY <1>1, <1>2, <1>3, <1>4, <1>5, <1>6, <1>7, <1>8, <1>9, <1>10, <1>11, <1>12,
  <1>13, <1>14, <1>15, <1>16, <1>17, <1>18, <1>19, <1>20, <1>21, <1>22, <1>23, <1>24,
  <1>25, <1>26, <1>27, <1>28, <1>29, <1>30, <1>31, <1>32, <1>33, <1>34, <1>35, <1>36, <1>37 DEF
  Next, Begins, Task, Control, Driver

\* The types and the ownership hold at the start, and every step keeps them.
LEMMA BaseInit == Init => Base
<1> SUFFICES ASSUME Init PROVE Base
  OBVIOUS
<1> USE DEF Init
<1>1. files \in Tree
  BY BoundsAssumption DEF Tree
<1>2. shots \in [Turns -> [before : Tree, after : Tree]]
  BY <1>1
<1>3. <<>> \in Seq(Turns)
  OBVIOUS
<1>4. 0 \in 0..MaxTurns
  BY BoundsAssumption
<1>5. StoreTypes
  BY <1>1, <1>2, <1>3, <1>4 DEF StoreTypes
<1>6. job \in Jobs
  BY DEF Jobs, NoJob, Kinds, Places
<1>7. phase \in Phases /\ holder \in Holders
  BY DEF Phases, Holders
<1>8. unavailable \in BOOLEAN
  BY Zenon
<1>9. queue \in Seq(Controls) /\ faults \in Seq({"untouched", "replaced", "unread"}) /\ crashes \in Nat
  OBVIOUS
<1>10. Sole
  BY DEF Sole, OneReceipt, ItsJournal, ItsTask, NoJob
<1> QED BY <1>5, <1>6, <1>7, <1>8, <1>9, <1>10 DEF Base, ControlTypes

\* Every step keeps the types and the ownership.
LEMMA BaseStep ==
    ASSUME Base, [Next]_vars
    PROVE  Base'
BY StoreStep, ControlStep, SoleStep DEF Base

-----------------------------------------------------------------------------
(* What a quiet moment of the rewind gives the step from it.               *)

\* The rewind r is under way or over, and nothing has disturbed it.
Moment(r) == Base /\ tx = {r} /\ Quiet(r) /\ Stage(r)

\* A journal is open, or committed, or there is none.
LEMMA OneEntry ==
    ASSUME NEW r
    PROVE  /\ {[tx |-> r, committed |-> FALSE]} # {[tx |-> r, committed |-> TRUE]}
           /\ {[tx |-> r, committed |-> FALSE]} # {} /\ {[tx |-> r, committed |-> TRUE]} # {}
<1> DEFINE a == [tx |-> r, committed |-> FALSE]
           b == [tx |-> r, committed |-> TRUE]
<1>1. a.committed = FALSE /\ b.committed = TRUE
  OBVIOUS
<1>2. a # b
  BY <1>1
<1> HIDE DEF a, b
<1>3. {a} # {b} /\ {a} # {} /\ {b} # {}
  BY <1>2
<1> QED BY <1>3 DEF a, b

\* The receipt, the journal's entry and the faults there may still be.
LEMMA MomentFacts ==
    ASSUME NEW r, Moment(r)
    PROVE  /\ Receipt = r /\ Doing = r /\ IsReceipt(r) /\ Durable(r) /\ active = 0
           /\ journal = {} \/ Open(r) \/ Closed(r)
           /\ Open(r) => Entry.tx = r /\ ~Entry.committed
           /\ Closed(r) => Entry.tx = r /\ Entry.committed
           /\ ~(Open(r) /\ Closed(r)) /\ (journal = {} => ~Open(r) /\ ~Closed(r))
           /\ conv = r.orig => ~Crossed(r)
           /\ Open(r) => conv \in {r.orig, r.target}
           /\ job.kind = "none" <=> job = NoJob
           /\ job.kind # "none" => phase # "Down"
<1>1. tx # {} /\ Sole /\ Stage(r)
  BY DEF Moment, Base
<1>2. Receipt = r /\ IsReceipt(r) /\ Doing = r
  BY <1>1, Handles, TheReceipt DEF Moment
<1>3. Durable(r) /\ active = 0
  BY <1>1 DEF Stage
<1>4. journal = {} \/ Open(r) \/ Closed(r)
  BY <1>1 DEF Moment, Sole, ItsJournal
<1>5. /\ Open(r) => Entry.tx = r /\ ~Entry.committed
      /\ Closed(r) => Entry.tx = r /\ Entry.committed
  BY TheEntry
<1>6. ~(Open(r) /\ Closed(r)) /\ (journal = {} => ~Open(r) /\ ~Closed(r))
  BY OneEntry DEF Open, Closed
<1>7. conv = r.orig => ~Crossed(r)
  BY <1>2 DEF Crossed, IsReceipt
<1>8. Open(r) => conv \in {r.orig, r.target}
  BY <1>3 DEF Durable, New
<1>9. (job.kind = "none" <=> job = NoJob) /\ (job.kind # "none" => phase # "Down")
  BY <1>1 DEF Sole, ItsTask, NoJob
<1> QED BY <1>2, <1>3, <1>4, <1>5, <1>6, <1>7, <1>8, <1>9

\* A second operation does not fail, and no turn begins, in a quiet step.
LEMMA QuietStep ==
    ASSUME NEW r, Moment(r), Quiet(r)'
    PROVE  /\ \A k \in {"untouched", "replaced", "unread"} : Fails(k) => Len(faults) = 0 /\ Len(faults') = 1
           /\ \A x, y, z : WriteFails(x, y, z) =>
                 y \in {x, z} /\ Len(faults) = 0 /\ Len(faults') = 1
           /\ nextTurn' = nextTurn
<1>1. faults \in Seq({"untouched", "replaced", "unread"})
  BY DEF Moment, Base, ControlTypes
<1>2. Len(faults') <= 1 /\ nextTurn' = nextTurn
  BY DEF Moment, Quiet
<1>3. Len(faults) \in Nat
  BY <1>1
<1>4. ASSUME Len(faults') = Len(faults) + 1 PROVE Len(faults) = 0 /\ Len(faults') = 1
  BY <1>2, <1>3, <1>4
<1> QED BY <1>1, <1>2, <1>4, FaultCount

\* What the durable state says after a step that leaves the stores alone, ...
LEMMA DurableSame ==
    ASSUME NEW r, Durable(r), UNCHANGED <<conv, files, ledger, journal, shots>>,
           pin' \in {pin, "pinned"}
    PROVE  Durable(r)'
BY DEF Durable, Old, New, Open, Closed, Crossed, Ledgers, Pinned, Outside, Cut

\* ... in a state with everything as it was, ...
LEMMA DurableOld ==
    ASSUME NEW r, IsReceipt(r), Old(r)', ~Closed(r)'
    PROVE  Durable(r)'
BY DEF IsReceipt, Durable, Old, Crossed, Pinned, Outside

\* ... with everything taken back, ...
LEMMA DurableNew ==
    ASSUME NEW r, IsReceipt(r), New(r)', (Open(r)' /\ ~Crossed(r)') => Pinned(r)'
    PROVE  Durable(r)'
<1>1. Outside(r)'
  <2>1. Cut(r)' = [f \in Files |-> IF f \in r.restored THEN shots'[r.turn].before[f]
                                   ELSE r.recovery[f]]
    BY DEF Cut
  <2> QED BY <2>1 DEF New, Outside
<1>2. ~Crossed(r)' => conv' = r.orig
  BY DEF IsReceipt, New, Crossed
<1>3. Ledgers(r)'
  BY DEF New, Ledgers
<1> QED BY <1>1, <1>2, <1>3 DEF Durable

\* ... and on the way, with the journal open and the conversation as it was.
LEMMA DurableOpen ==
    ASSUME NEW r, IsReceipt(r), Open(r)', conv' = r.orig, Ledgers(r)', Pinned(r)', Outside(r)'
    PROVE  Durable(r)'
<1>1. journal' # {} /\ ~Closed(r)'
  BY OneEntry DEF Open, Closed
<1>2. ~Crossed(r)'
  BY DEF Crossed, IsReceipt
<1> QED BY <1>1, <1>2 DEF Durable

\* What the task does to its own record.
LEMMA JobMoves ==
    ASSUME ControlTypes
    PROVE  /\ \A p, td : Move(p, td) =>
                 /\ job'.at = p /\ job'.todo = td
                 /\ job'.kind = job.kind /\ job'.bad = job.bad
           /\ \A ph : Done(ph) => job' = NoJob /\ job'.kind = "none" /\ phase' = ph
           /\ \A tree : RestoreOne(tree) => \E f \in job.todo :
                 /\ files' = [files EXCEPT ![f] = tree[f]]
                 /\ job'.todo = job.todo \ {f} /\ job'.at = job.at
                 /\ job'.kind = job.kind /\ job'.bad = job.bad
<1>1. job \in [kind : Kinds, at : Places, todo : SUBSET Files, bad : BOOLEAN]
  BY DEF ControlTypes, Jobs
<1>2. ASSUME NEW p, NEW td, Move(p, td)
      PROVE  job'.at = p /\ job'.todo = td /\ job'.kind = job.kind /\ job'.bad = job.bad
  BY <1>1, <1>2 DEF Move
<1>3. ASSUME NEW ph, Done(ph)
      PROVE  job' = NoJob /\ job'.kind = "none" /\ phase' = ph
  BY <1>3 DEF Done, NoJob
<1>4. ASSUME NEW tree, RestoreOne(tree)
      PROVE  \E f \in job.todo :
                 /\ files' = [files EXCEPT ![f] = tree[f]]
                 /\ job'.todo = job.todo \ {f} /\ job'.at = job.at
                 /\ job'.kind = job.kind /\ job'.bad = job.bad
  <2>1. PICK f \in job.todo : /\ files' = [files EXCEPT ![f] = tree[f]]
                              /\ job' = [job EXCEPT !.todo = @ \ {f}]
    BY <1>4 DEF RestoreOne
  <2>2. /\ job'.todo = job.todo \ {f} /\ job'.at = job.at
        /\ job'.kind = job.kind /\ job'.bad = job.bad
    BY <1>1, <2>1
  <2> QED BY <2>1, <2>2
<1> QED BY <1>2, <1>3, <1>4

\* Putting back one more file.
LEMMA RestoreBack ==
    ASSUME NEW r, Moment(r), Back(r), RestoreOne(r.recovery)
    PROVE  /\ Back(r)' /\ Outside(r)' /\ (files' # r.recovery => files # r.recovery)
           /\ job'.kind = job.kind /\ job'.at = job.at /\ job'.bad = job.bad
<1>1. files \in [Files -> 0..MaxTurns] /\ job.todo \subseteq Files /\ ControlTypes
  BY DEF Moment, Base, StoreTypes, ControlTypes, Tree, Jobs
<1>2. PICK f \in job.todo :
                 /\ files' = [files EXCEPT ![f] = r.recovery[f]]
                 /\ job'.todo = job.todo \ {f} /\ job'.at = job.at
                 /\ job'.kind = job.kind /\ job'.bad = job.bad
  BY <1>1, JobMoves
<1>3. r.restored \subseteq Files /\ job.todo \subseteq r.restored
  BY MomentFacts DEF IsReceipt, Back
<1>4. Back(r)'
  BY <1>1, <1>2, <1>3 DEF Back
<1>5. Outside(r)'
  BY <1>3, <1>4 DEF Back, Outside
<1>6. ASSUME files = r.recovery PROVE files' = r.recovery
  BY <1>1, <1>2, <1>6
<1> QED BY <1>2, <1>4, <1>5, <1>6

\* A tree that is pinned stays pinned when the refs are retained.
LEMMA PinKept ==
    ASSUME pin = "pinned"
    PROVE  Collected = "pinned" /\ \A kept : RetainedPin(kept) = "pinned"
BY DEF Collected, RetainedPin

\* A ledger written, or not.
LEMMA LedgerWritten ==
    ASSUME NEW r, Moment(r), Quiet(r)', NEW next
    PROVE  /\ LedgerSaved(next) => /\ ledger' = next /\ faults' = faults
                                   /\ (pin = "pinned" => pin' = "pinned")
           /\ LedgerFails(next) => /\ ledger' \in {ledger, next} /\ Len(faults') = 1
                                   /\ (pin = "pinned" => pin' = "pinned")
<1>1. ASSUME LedgerSaved(next)
      PROVE  ledger' = next /\ faults' = faults /\ (pin = "pinned" => pin' = "pinned")
  BY <1>1, PinKept DEF LedgerSaved
<1>2. ASSUME LedgerFails(next)
      PROVE  /\ ledger' \in {ledger, next} /\ Len(faults') = 1
             /\ (pin = "pinned" => pin' = "pinned")
  BY <1>2, PinKept, QuietStep DEF LedgerFails
<1> QED BY <1>1, <1>2

-----------------------------------------------------------------------------
(* The steps of begin_rewind.                                              *)

\* The idle runtime, after a step that ends with the task over.
LEMMA Rests ==
    ASSUME NEW r, active' = 0, Durable(r)', job' = NoJob, holder' = "none", queue' = <<>>
    PROVE  Stage(r)'
BY DEF Stage, Idle, NoJob

\* The driver learns that the rewind failed, and nobody waits any more.
LEMMA NobodyWaits ==
    ASSUME Answer("none")
    PROVE  holder' = "none"
BY DEF Answer

\* Where the task of begin_rewind stands.
LEMMA BeginStands ==
    ASSUME NEW r, Moment(r), job.kind = "begin"
    PROVE  Beginning(r)
BY DEF Moment, Stage

\* Save the journal.
LEMMA StageBeginJournal ==
    ASSUME NEW r, Moment(r), Quiet(r)', BeginJournal
    PROVE  Stage(r)'
<1> USE MomentFacts
<1>1. /\ queue = <<>> /\ holder \in {"begin", "none"} /\ ~job.bad /\ Old(r)
      /\ r.scope # "conversation" => pin = "pinned"
      /\ job.kind = "begin" /\ journal = {}
  BY BeginStands DEF BeginJournal, At, Beginning
<1>2. /\ UNCHANGED <<conv, shots, active, files, ledger, pin, queue>> /\ active' = 0
      /\ journal' \in {{}, {[tx |-> r, committed |-> FALSE]}}
  BY <1>1, QuietStep DEF BeginJournal, UnchangedByJob
<1>3. Old(r)' /\ ~Closed(r)'
  BY <1>1, <1>2, OneEntry DEF Old, Ledgers, Closed
<1>4. Durable(r)'
  BY <1>3, DurableOld
<1>5. CASE Done("Ready") /\ Answer("none")
  BY <1>1, <1>2, <1>4, <1>5, Rests, NobodyWaits DEF Done
<1>6. CASE /\ journal' = {[tx |-> r, committed |-> FALSE]} /\ UNCHANGED <<phase, holder>>
           /\ Move("files", r.restored)
  <2>1. job'.at = "files" /\ job'.todo = r.restored /\ job'.kind = "begin" /\ ~job'.bad
    BY <1>1, <1>6, JobMoves DEF Moment, Base
  <2>2. Open(r)'
    BY <1>6 DEF Open
  <2>3. \A f \in Files \ r.restored : files'[f] = Cut(r)'[f]
    BY <1>3 DEF Old, Cut
  <2>4. conv' = r.orig
    BY <1>3 DEF Old
  <2>5. Beginning(r)'
    BY <1>1, <1>2, <1>6, <2>1, <2>2, <2>3, <2>4 DEF Beginning
  <2> QED BY <1>2, <1>4, <2>1, <2>5 DEF Stage
<1> QED BY <1>5, <1>6 DEF BeginJournal

\* Restore one file, or fail to.
LEMMA StageBeginFiles ==
    ASSUME NEW r, Moment(r), Quiet(r)', BeginFiles
    PROVE  Stage(r)'
<1> USE MomentFacts
<1>1. /\ queue = <<>> /\ holder \in {"begin", "none"} /\ conv = r.orig /\ ~job.bad
      /\ Open(r) /\ job.todo \subseteq r.restored
      /\ r.scope # "conversation" => pin = "pinned"
      /\ \A f \in Files \ job.todo : files[f] = Cut(r)[f]
      /\ job.kind = "begin" /\ job.at = "files"
  BY BeginStands DEF BeginFiles, At, Beginning
<1>2. UNCHANGED <<conv, shots, active, ledger, journal, pin, queue, holder>> /\ active' = 0
  BY DEF BeginFiles, UnchangedByJob
<1>3. PICK f \in job.todo :
                 /\ files' = [files EXCEPT ![f] = shots[r.turn].before[f]]
                 /\ job'.todo = job.todo \ {f} /\ job'.at = job.at
                 /\ job'.kind = job.kind /\ job'.bad = job.bad
  BY JobMoves DEF BeginFiles, Moment, Base
<1>4. files \in [Files -> 0..MaxTurns] /\ r.restored \subseteq Files
  BY DEF Moment, Base, StoreTypes, IsReceipt, Tree
<1>5. /\ Cut(r)' = Cut(r) /\ Cut(r)[f] = shots[r.turn].before[f]
  BY <1>1, <1>2, <1>4 DEF Cut
<1>6. \A g \in Files \ job'.todo : files'[g] = Cut(r)'[g]
  BY <1>1, <1>3, <1>4, <1>5
<1>7. Open(r)' /\ conv' = r.orig /\ Ledgers(r)'
  BY <1>1, <1>2 DEF Open, Durable, Ledgers
<1>8. pin' = "pinned" /\ (r.scope # "conversation" => pin' = "pinned")
  BY <1>1, <1>2 DEF IsReceipt
<1>9. Outside(r)'
  <2>1. Outside(r)
    BY <1>1 DEF Durable
  <2> QED BY <1>1, <1>3, <1>4, <2>1 DEF Outside
<1>10. Durable(r)'
  BY <1>7, <1>8, <1>9, DurableOpen DEF Pinned
<1>11. Beginning(r)'
  BY <1>1, <1>2, <1>3, <1>6, <1>7, <1>8 DEF Beginning
<1> QED BY <1>1, <1>2, <1>3, <1>10, <1>11 DEF Stage

\* A file that cannot be restored sends the task back over all of them.
LEMMA StageBeginFilesFail ==
    ASSUME NEW r, Moment(r), Quiet(r)', BeginFilesFail
    PROVE  Stage(r)'
<1> USE MomentFacts
<1>1. /\ queue = <<>> /\ holder \in {"begin", "none"} /\ conv = r.orig /\ ~job.bad
      /\ Open(r) /\ job.kind = "begin"
  BY BeginStands DEF BeginFilesFail, At, Beginning
<1>2. /\ UNCHANGED <<conv, shots, active, files, ledger, journal, pin, queue, holder>>
      /\ active' = 0 /\ Len(faults') >= 1
  BY QuietStep DEF BeginFilesFail, UnchangedByJob
<1>3. job'.at = "back" /\ job'.todo = r.restored /\ job'.kind = "begin" /\ ~job'.bad
  BY <1>1, JobMoves DEF BeginFilesFail, Moment, Base
<1>4. Durable(r)'
  BY <1>2, DurableSame
<1>5. Open(r)' /\ Back(r)'
  BY <1>1, <1>2, <1>3 DEF Open, Back, Durable, Outside
<1>6. Beginning(r)'
  BY <1>1, <1>2, <1>3, <1>5 DEF Beginning
<1> QED BY <1>2, <1>3, <1>4, <1>6 DEF Stage

\* Put the files back before the failure is reported.
LEMMA StageBeginBack ==
    ASSUME NEW r, Moment(r), Quiet(r)', BeginBack
    PROVE  Stage(r)'
<1> USE MomentFacts
<1>1. /\ queue = <<>> /\ holder \in {"begin", "none"} /\ conv = r.orig /\ ~job.bad
      /\ Open(r) /\ Back(r) /\ Len(faults) >= 1 /\ job.kind = "begin" /\ job.at = "back"
  BY BeginStands DEF BeginBack, At, Beginning
<1>2. UNCHANGED <<conv, shots, active, ledger, journal, pin, queue, holder>> /\ active' = 0
  BY DEF BeginBack, UnchangedByJob
<1>3. RestoreOne(r.recovery) /\ faults' = faults
  BY <1>1, QuietStep DEF BeginBack
<1>4. /\ Back(r)' /\ Outside(r)' /\ (files' # r.recovery => files # r.recovery)
      /\ job'.kind = "begin" /\ job'.at = "back" /\ ~job'.bad
  BY <1>1, <1>3, RestoreBack
<1>5. Open(r)' /\ conv' = r.orig /\ Ledgers(r)' /\ Pinned(r)'
  BY <1>1, <1>2, <1>4 DEF Open, Durable, Ledgers, Pinned
<1>6. Durable(r)'
  BY <1>4, <1>5, DurableOpen
<1>7. Beginning(r)'
  BY <1>1, <1>2, <1>3, <1>4, <1>5 DEF Beginning
<1> QED BY <1>2, <1>4, <1>6, <1>7 DEF Stage

\* Every file is back.
LEMMA AllBack ==
    ASSUME NEW r, Moment(r), Back(r), job.todo = {}
    PROVE  files = r.recovery
<1>1. files \in [Files -> 0..MaxTurns] /\ r.recovery \in [Files -> 0..MaxTurns]
  BY MomentFacts DEF Moment, Base, StoreTypes, Tree, IsReceipt
<1>2. \A f \in Files : files[f] = r.recovery[f]
  BY DEF Back
<1> QED BY <1>1, <1>2

\* The journal is cleared with everything as it was, and the failure answered.
LEMMA GivenUp ==
    ASSUME NEW r, Moment(r), conv = r.orig, files = r.recovery, Open(r), queue = <<>>,
           UNCHANGED <<conv, files, ledger, active, queue>>,
           journal' = {}, job' = NoJob, holder' = "none"
    PROVE  Stage(r)'
<1>1. Old(r)'
  BY MomentFacts DEF Old, Ledgers, Durable
<1>2. ~Closed(r)'
  BY OneEntry DEF Closed
<1> QED BY <1>1, <1>2, MomentFacts, DurableOld, Rests

\* With every file back, the failed rewind leaves no journal.
LEMMA StageBeginBackClear ==
    ASSUME NEW r, Moment(r), Quiet(r)', BeginBackClear
    PROVE  Stage(r)'
<1> USE MomentFacts
<1>1. /\ queue = <<>> /\ conv = r.orig /\ Open(r) /\ Back(r) /\ Len(faults) >= 1
      /\ job.todo = {}
  BY BeginStands DEF BeginBackClear, At, Beginning
<1>2. files = r.recovery
  BY <1>1, AllBack
<1>3. /\ UNCHANGED <<conv, files, ledger, active, queue>> /\ journal' = {} /\ job' = NoJob
  BY <1>1, QuietStep DEF BeginBackClear, UnchangedByJob, Done
<1>4. holder' = "none"
  BY NobodyWaits DEF BeginBackClear
<1> QED BY <1>1, <1>2, <1>3, <1>4, GivenUp

\* The ledger could not be cut: put one more file back.
LEMMA StageBeginUndo ==
    ASSUME NEW r, Moment(r), Quiet(r)', BeginUndo
    PROVE  Stage(r)'
<1> USE MomentFacts
<1>1. /\ queue = <<>> /\ holder \in {"begin", "none"} /\ conv = r.orig /\ ~job.bad
      /\ Open(r) /\ Back(r) /\ Len(faults) >= 1 /\ job.kind = "begin" /\ job.at = "undo"
  BY BeginStands DEF BeginUndo, At, Beginning
<1>2. RestoreOne(r.recovery) /\ UNCHANGED <<faults, pin, holder>>
  BY <1>1, QuietStep DEF BeginUndo
<1>3. UNCHANGED <<conv, shots, active, ledger, journal, queue>> /\ active' = 0
  BY DEF BeginUndo, UnchangedByJob
<1>4. /\ Back(r)' /\ Outside(r)' /\ (files' # r.recovery => files # r.recovery)
      /\ job'.kind = "begin" /\ job'.at = "undo" /\ ~job'.bad
  BY <1>1, <1>2, RestoreBack
<1>5. Open(r)' /\ conv' = r.orig /\ Ledgers(r)' /\ Pinned(r)'
  BY <1>1, <1>2, <1>3, <1>4 DEF Open, Durable, Ledgers, Pinned
<1>6. Durable(r)'
  BY <1>4, <1>5, DurableOpen
<1>7. Beginning(r)'
  BY <1>1, <1>2, <1>3, <1>4, <1>5 DEF Beginning
<1> QED BY <1>3, <1>4, <1>6, <1>7 DEF Stage

\* With every file back, the rewind given up leaves no journal.
LEMMA StageBeginUndoClear ==
    ASSUME NEW r, Moment(r), Quiet(r)', BeginUndoClear
    PROVE  Stage(r)'
<1> USE MomentFacts
<1>1. /\ queue = <<>> /\ conv = r.orig /\ Open(r) /\ Back(r) /\ Len(faults) >= 1
      /\ job.todo = {}
  BY BeginStands DEF BeginUndoClear, At, Beginning
<1>2. files = r.recovery
  BY <1>1, AllBack
<1>3. /\ UNCHANGED <<conv, files, ledger, active, queue>> /\ journal' = {} /\ job' = NoJob
  BY <1>1, QuietStep DEF BeginUndoClear, UnchangedByJob, Done
<1>4. holder' = "none"
  BY NobodyWaits DEF BeginUndoClear
<1> QED BY <1>1, <1>2, <1>3, <1>4, GivenUp

\* The ledger is cut, and the driver, or its dropped guard, has the receipt.
LEMMA StageBeginLedger ==
    ASSUME NEW r, Moment(r), Quiet(r)', BeginLedger
    PROVE  Stage(r)'
<1> USE MomentFacts
<1>1. /\ queue = <<>> /\ holder \in {"begin", "none"} /\ conv = r.orig /\ ~job.bad
      /\ Open(r) /\ job.kind = "begin" /\ job.todo = {}
      /\ \A f \in Files : files[f] = Cut(r)[f]
  BY BeginStands DEF BeginLedger, At, Beginning
<1>2. files = Cut(r)
  <2>1. files \in [Files -> 0..MaxTurns]
    BY DEF Moment, Base, StoreTypes, Tree
  <2> QED BY <1>1, <2>1 DEF Cut
<1>3. UNCHANGED <<conv, shots, active, files, journal>> /\ active' = 0
  BY DEF BeginLedger, UnchangedByJob
<1>4. ledger' \in {ledger, r.kept} /\ (pin = "pinned" => pin' = "pinned")
  BY LedgerWritten DEF BeginLedger
<1>5. /\ Open(r)' /\ conv' = r.orig /\ Ledgers(r)' /\ Pinned(r)' /\ Outside(r)'
      /\ files' = Cut(r)'
  BY <1>1, <1>2, <1>3, <1>4 DEF Open, Durable, Ledgers, Pinned, Outside, Cut
<1>6. Durable(r)'
  BY <1>5, DurableOpen
<1>7. CASE /\ LedgerSaved(r.kept) /\ job' = NoJob /\ Answer("held")
           /\ queue' = IF holder = "none" THEN Append(queue, "recover") ELSE queue
  <2>1. ledger' = r.kept
    BY <1>7, LedgerWritten
  <2>2. \/ holder' = "held" /\ queue' = <<>>
        \/ holder' = "none" /\ queue' = <<"recover">>
    BY <1>1, <1>7 DEF Answer
  <2>3. Waiting(r)'
    BY <1>5, <2>1, <2>2 DEF Waiting
  <2> QED BY <1>3, <1>6, <1>7, <2>3 DEF Stage, NoJob
<1>8. CASE LedgerFails(r.kept) /\ Move("undo", r.restored) /\ UNCHANGED <<queue, holder>>
  <2>1. Len(faults') >= 1
    BY <1>8, LedgerWritten
  <2>2. job'.at = "undo" /\ job'.todo = r.restored /\ job'.kind = "begin" /\ ~job'.bad
    BY <1>1, <1>8, JobMoves DEF Moment, Base
  <2>3. Back(r)'
    BY <1>5, <2>2 DEF Back, Outside
  <2>4. Beginning(r)'
    BY <1>1, <1>5, <1>8, <2>1, <2>2, <2>3 DEF Beginning
  <2> QED BY <1>3, <1>6, <2>2, <2>4 DEF Stage
<1> QED BY <1>7, <1>8 DEF BeginLedger

-----------------------------------------------------------------------------
(* The steps of the undo, of the commit and of the compensation.           *)

\* Between begin and finish, after a step that leaves the stores alone but for
\* the conversation, which is on one of the two sides.
LEMMA Undone ==
    ASSUME NEW r, Moment(r), Open(r), files = Cut(r), ledger = r.kept, Pinned(r),
           UNCHANGED <<files, ledger, journal, shots, pin, active>>,
           conv' \in {r.orig, r.target}
    PROVE  /\ Durable(r)' /\ Open(r)' /\ files' = Cut(r)' /\ ledger' = r.kept /\ Pinned(r)'
           /\ active' = 0
<1>1. /\ Open(r)' /\ files' = Cut(r)' /\ ledger' = r.kept /\ Pinned(r)' /\ Ledgers(r)'
      /\ active' = 0
  BY MomentFacts DEF Open, Cut, Pinned, Ledgers
<1>2. Outside(r)'
  <2>1. Outside(r)
    BY MomentFacts DEF Durable
  <2> QED BY <2>1 DEF Outside
<1>3. CASE conv' = r.orig
  BY <1>1, <1>2, <1>3, MomentFacts, DurableOpen
<1>4. CASE conv' = r.target
  BY <1>1, <1>4, MomentFacts, DurableNew DEF New
<1> QED BY <1>1, <1>3, <1>4

\* What is left of a short queue, and what it becomes.
LEMMA ShortQueues ==
    ASSUME NEW a, NEW b
    PROVE  /\ Tail(<<a>>) = <<>> /\ Tail(<<a, b>>) = <<b>>
           /\ Append(<<>>, a) = <<a>> /\ Append(<<a>>, b) = <<a, b>>
<1>1. Tail(<<a>>) = <<>>
  OBVIOUS
<1>2. Tail(<<a, b>>) = <<b>>
  OBVIOUS
<1>3. Append(<<>>, a) = <<a>>
  OBVIOUS
<1>4. Append(<<a>>, b) = <<a, b>>
  <2> DEFINE s == Append(<<a>>, b)
             u == <<a, b>>
  <2>1. s \in Seq({a, b}) /\ Len(s) = 2 /\ s[1] = a /\ s[2] = b
    OBVIOUS
  <2>2. u \in Seq({a, b}) /\ Len(u) = 2 /\ u[1] = a /\ u[2] = b
    OBVIOUS
  <2> HIDE DEF s, u
  <2>3. s \in [1..2 -> {a, b}] /\ u \in [1..2 -> {a, b}]
    BY <2>1, <2>2
  <2>4. \A i \in 1..2 : s[i] = u[i]
    BY <2>1, <2>2
  <2>5. s = u
    BY <2>3, <2>4
  <2> QED BY <2>5 DEF s, u
<1> QED BY <1>1, <1>2, <1>3, <1>4

\* Where the session waits when a control is in the queue.
LEMMA QueueStands ==
    ASSUME NEW r, Moment(r), job = NoJob, queue # <<>>
    PROVE  /\ Waiting(r) /\ conv \in {r.orig, r.target}
           /\ \/ holder = "apply" /\ queue = <<"apply">> /\ conv = r.orig
              \/ holder = "none" /\ queue = <<"apply", "recover">> /\ conv = r.orig
              \/ holder = "none" /\ queue = <<"recover">>
              \/ holder = "finish" /\ queue = <<"commit">> /\ conv = r.target
              \/ holder = "finish" /\ queue = <<"compensate">> /\ (phase = "Broken" \/ conv = r.orig)
<1>1. Waiting(r)
  BY DEF Moment, Stage, Idle, NoJob
<1>2. conv \in {r.orig, r.target}
  BY <1>1, MomentFacts DEF Waiting
<1>3. \/ holder = "apply" /\ queue = <<"apply">> /\ conv = r.orig
      \/ holder = "none" /\ queue = <<"apply", "recover">> /\ conv = r.orig
      \/ holder = "none" /\ queue = <<"recover">>
      \/ holder = "finish" /\ queue = <<"commit">> /\ conv = r.target
      \/ holder = "finish" /\ queue = <<"compensate">> /\ (phase = "Broken" \/ conv = r.orig)
  BY <1>1 DEF Waiting
<1> QED BY <1>1, <1>2, <1>3

\* What is left when the undo has been read.
LEMMA ApplyStands ==
    ASSUME NEW r, Moment(r), Reads("apply")
    PROVE  /\ Open(r) /\ files = Cut(r) /\ ledger = r.kept /\ Pinned(r) /\ conv = r.orig
           /\ \/ holder = "apply" /\ queue' = <<>>
              \/ holder = "none" /\ queue' = <<"recover">>
<1>1. job = NoJob /\ queue # <<>> /\ Head(queue) = "apply" /\ queue' = Tail(queue)
  BY DEF Reads
<1>2. \/ holder = "apply" /\ queue = <<"apply">> /\ conv = r.orig
      \/ holder = "none" /\ queue = <<"apply", "recover">> /\ conv = r.orig
      \/ queue = <<"recover">> \/ queue = <<"commit">> \/ queue = <<"compensate">>
  BY <1>1, QueueStands
<1>3. \/ holder = "apply" /\ queue = <<"apply">> /\ conv = r.orig
      \/ holder = "none" /\ queue = <<"apply", "recover">> /\ conv = r.orig
  BY <1>1, <1>2
<1>4. \/ holder = "apply" /\ queue' = <<>>
      \/ holder = "none" /\ queue' = <<"recover">>
  BY <1>1, <1>3, ShortQueues
<1> QED BY <1>1, <1>3, <1>4, QueueStands DEF Waiting

\* The conversation goes back, in the live agent or for a rebuilt one.
LEMMA StageApply ==
    ASSUME NEW r, Moment(r), Quiet(r)', Apply
    PROVE  Stage(r)'
<1>1. /\ Open(r) /\ files = Cut(r) /\ ledger = r.kept /\ Pinned(r) /\ conv = r.orig
      /\ \/ holder = "apply" /\ queue' = <<>>
         \/ holder = "none" /\ queue' = <<"recover">>
  BY ApplyStands DEF Apply
<1>2. /\ UNCHANGED <<files, ledger, journal, shots, pin, active>> /\ conv' = r.target
      /\ job = NoJob
  BY MomentFacts DEF Apply, UnchangedByUndo, Reads
<1>3. /\ Durable(r)' /\ Open(r)' /\ files' = Cut(r)' /\ ledger' = r.kept /\ Pinned(r)'
      /\ active' = 0
  BY <1>1, <1>2, Undone
<1>4. CASE Answer("ok") /\ UNCHANGED job
  <2>1. \/ holder' = "ok" /\ queue' = <<>>
        \/ holder' = "none" /\ queue' = <<"recover">>
    BY <1>1, <1>4 DEF Answer
  <2>2. Waiting(r)'
    BY <1>2, <1>3, <2>1 DEF Waiting
  <2> QED BY <1>2, <1>3, <1>4, <2>2 DEF Stage, NoJob
<1>5. CASE job' = [NoJob EXCEPT !.kind = "undo", !.at = "rebuild"] /\ UNCHANGED holder
  <2>1. job'.kind = "undo"
    BY <1>5 DEF NoJob
  <2>2. Undoing(r)'
    BY <1>1, <1>2, <1>3, <1>5 DEF Undoing, New
  <2> QED BY <1>3, <2>1, <2>2 DEF Stage
<1> QED BY <1>4, <1>5 DEF Apply

\* No turn ran since, so the undo is not refused.
LEMMA StageApplyBusy ==
    ASSUME NEW r, Moment(r), ApplyBusy
    PROVE  FALSE
BY ApplyStands, MomentFacts DEF ApplyBusy

\* An undo that failed, or may have, is answered as an error.
LEMMA StageApplyFails ==
    ASSUME NEW r, Moment(r), Quiet(r)', ApplyFails
    PROVE  Stage(r)'
<1>1. /\ Open(r) /\ files = Cut(r) /\ ledger = r.kept /\ Pinned(r) /\ conv = r.orig
      /\ \/ holder = "apply" /\ queue' = <<>>
         \/ holder = "none" /\ queue' = <<"recover">>
  BY ApplyStands DEF ApplyFails
<1>2. /\ UNCHANGED <<files, ledger, journal, shots, pin, active, job>> /\ job = NoJob
      /\ conv' \in {r.orig, r.target} /\ (phase' = "Broken" \/ conv' = r.orig)
  BY <1>1, MomentFacts DEF ApplyFails, UnchangedByUndo, Reads
<1>3. /\ Durable(r)' /\ Open(r)' /\ files' = Cut(r)' /\ ledger' = r.kept /\ Pinned(r)'
      /\ active' = 0
  BY <1>1, <1>2, Undone
<1>4. \/ holder' = "err" /\ queue' = <<>>
      \/ holder' = "none" /\ queue' = <<"recover">>
  BY <1>1 DEF ApplyFails, Answer
<1>5. Waiting(r)'
  BY <1>2, <1>3, <1>4 DEF Waiting
<1> QED BY <1>2, <1>3, <1>5 DEF Stage, NoJob

\* The rebuilt agent is up, or the conversation is put back.
LEMMA StageRebuild ==
    ASSUME NEW r, Moment(r), Quiet(r)', Rebuild
    PROVE  Stage(r)'
<1>1. /\ Open(r) /\ files = Cut(r) /\ ledger = r.kept /\ Pinned(r) /\ conv = r.target
      /\ \/ holder = "apply" /\ queue = <<>>
         \/ holder = "none" /\ queue = <<"recover">>
  BY DEF Moment, Stage, Rebuild, Undoing, New
<1>2. UNCHANGED <<files, ledger, journal, shots, pin, active, queue>> /\ job' = NoJob
  BY DEF Rebuild, UnchangedByUndo, Done
<1>3. \/ Answer("ok") /\ conv' = r.target
      \/ Answer("err") /\ ((phase' = "Broken" /\ conv' = r.target) \/ conv' = r.orig)
  BY <1>1, MomentFacts DEF Rebuild, Done
<1>4. /\ Durable(r)' /\ Open(r)' /\ files' = Cut(r)' /\ ledger' = r.kept /\ Pinned(r)'
      /\ active' = 0
  BY <1>1, <1>2, <1>3, Undone
<1>5. \/ holder' = "ok" /\ queue' = <<>> /\ conv' = r.target
      \/ holder' = "none" /\ queue' = <<"recover">>
      \/ holder' = "err" /\ queue' = <<>> /\ (phase' = "Broken" \/ conv' = r.orig)
  BY <1>1, <1>2, <1>3 DEF Answer
<1>6. Waiting(r)'
  BY <1>4, <1>5 DEF Waiting
<1> QED BY <1>2, <1>4, <1>6 DEF Stage, NoJob

\* FinishRewind is read: the side the conversation is on is the side taken.
LEMMA StageFinish ==
    ASSUME NEW r, Moment(r), Quiet(r)', Finish
    PROVE  Stage(r)' \/ Torn(r)'
<1> USE MomentFacts
<1>1. PICK m \in {"commit", "compensate", "recover"}, read \in BOOLEAN :
          /\ Reads(m)
          /\ IF m = "recover" THEN ReadBack(r, read) ELSE read /\ UNCHANGED faults
          /\ job' = [kind |-> FinishKind(m, read), at |-> "start", todo |-> {}, bad |-> FALSE]
  BY DEF Finish
<1>2. /\ UNCHANGED <<conv, files, ledger, journal, shots, pin, active, holder>> /\ active' = 0
      /\ phase # "Broken"
  BY DEF Finish, durable
<1>3. job = NoJob /\ queue # <<>> /\ Head(queue) = m /\ queue' = Tail(queue)
  BY <1>1 DEF Reads
<1>4. \/ holder = "none" /\ queue = <<"recover">>
      \/ holder = "finish" /\ queue = <<"commit">> /\ conv = r.target
      \/ holder = "finish" /\ queue = <<"compensate">> /\ conv = r.orig
  <2>1. \/ queue = <<"apply">> \/ queue = <<"apply", "recover">>
        \/ holder = "none" /\ queue = <<"recover">>
        \/ holder = "finish" /\ queue = <<"commit">> /\ conv = r.target
        \/ holder = "finish" /\ queue = <<"compensate">> /\ conv = r.orig
    BY <1>2, <1>3, QueueStands
  <2>2. Head(queue) # "apply"
    BY <1>3
  <2> QED BY <2>1, <2>2
<1>5. queue' = <<>> /\ holder' \in {"finish", "none"}
  BY <1>2, <1>3, <1>4
<1>6. /\ m = "commit" => conv = r.target
      /\ m = "compensate" => conv = r.orig
  BY <1>3, <1>4
<1>7. Waiting(r)
  BY <1>3, QueueStands
<1>8. ASSUME read \/ ~Crossed(r)
      PROVE  \/ job'.kind = "commit" /\ conv = r.target
             \/ job'.kind = "compensate" /\ conv = r.orig
  <2>1. CASE m = "commit"
    BY <1>1, <1>6, <2>1 DEF FinishKind
  <2>2. CASE m = "compensate"
    BY <1>1, <1>6, <2>2 DEF FinishKind
  <2>3. CASE m = "recover" /\ Crossed(r)
    BY <1>1, <1>8, <2>3 DEF FinishKind, Crossed
  <2>4. CASE m = "recover" /\ ~Crossed(r)
    BY <1>1, <1>7, <2>4 DEF FinishKind, Waiting, Durable
  <2> QED BY <2>1, <2>2, <2>3, <2>4
<1>9. Durable(r)'
  BY <1>2, DurableSame
<1>10. Open(r)' /\ files' = Cut(r)' /\ ledger' = r.kept /\ conv' = conv /\ job'.at = "start"
  BY <1>1, <1>2, <1>7 DEF Waiting, Open, Cut
<1>11. CASE job'.kind = "commit" /\ conv = r.target
  <2>1. Committing(r)'
    BY <1>5, <1>10, <1>11 DEF Committing, New
  <2> QED BY <1>2, <1>9, <1>11, <2>1 DEF Stage
<1>12. CASE job'.kind = "compensate" /\ conv = r.orig
  <2>1. Compensating(r)'
    BY <1>5, <1>10, <1>12 DEF Compensating
  <2> QED BY <1>2, <1>9, <1>12, <2>1 DEF Stage
<1>13. CASE ~read /\ Crossed(r)
  <2>1. m = "recover" /\ Fails("unread")
    BY <1>1, <1>13 DEF ReadBack
  <2>2. job'.kind = "compensate"
    BY <1>1, <1>13, <2>1 DEF FinishKind
  <2>3. "unread" \in Range(faults')
    BY <2>1, FaultCount DEF Moment, Base, ControlTypes
  <2>4. Crossed(r)'
    BY <1>2, <1>13 DEF Crossed
  <2> QED BY <1>2, <2>2, <2>3, <2>4 DEF Torn
<1> QED BY <1>8, <1>11, <1>12, <1>13

\* A runtime that stopped rejects what is left in the queue.
LEMMA StageReject ==
    ASSUME NEW r, Moment(r), Quiet(r)', Reject
    PROVE  Stage(r)'
<1> USE MomentFacts
<1>1. /\ job = NoJob /\ queue # <<>> /\ queue' = Tail(queue) /\ holder' = "none"
      /\ UNCHANGED <<conv, files, ledger, journal, shots, pin, active, job>> /\ active' = 0
  BY NobodyWaits DEF Reject, durable
<1>2. Durable(r)'
  BY <1>1, DurableSame
<1>3. \/ queue = <<"apply">> \/ queue = <<"apply", "recover">>
      \/ queue = <<"recover">> \/ queue = <<"commit">> \/ queue = <<"compensate">>
  BY <1>1, QueueStands
<1>4. queue' = <<>> \/ queue' = <<"recover">>
  BY <1>1, <1>3, ShortQueues
<1>5. CASE queue' = <<>>
  BY <1>1, <1>2, <1>5, Rests
<1>6. CASE queue' = <<"recover">>
  <2>1. Waiting(r)
    BY <1>1, QueueStands
  <2>2. Waiting(r)'
    BY <1>1, <1>6, <2>1 DEF Waiting, Open, Cut, Pinned
  <2> QED BY <1>1, <1>2, <2>2 DEF Stage, NoJob
<1> QED BY <1>4, <1>5, <1>6

\* The journal says committed.
LEMMA StageCommitMark ==
    ASSUME NEW r, Moment(r), Quiet(r)', CommitMark
    PROVE  Stage(r)'
<1> USE MomentFacts
<1>1. queue = <<>> /\ holder \in {"finish", "none"} /\ New(r) /\ Open(r) /\ job.kind = "commit"
  BY DEF CommitMark, At, Moment, Stage, Committing
<1>2. /\ UNCHANGED <<conv, shots, active, files, ledger, pin, queue>> /\ active' = 0
      /\ journal' \in {journal, {[tx |-> r, committed |-> TRUE]}}
  BY QuietStep DEF CommitMark, UnchangedByJob
<1>3. New(r)'
  BY <1>1, <1>2 DEF New, Cut
<1>4. ~Crossed(r)' => Pinned(r)'
  <2>1. ~Crossed(r) => Pinned(r)
    BY <1>1 DEF Durable
  <2> QED BY <1>2, <2>1 DEF Pinned, Crossed
<1>5. Durable(r)'
  BY <1>3, <1>4, DurableNew
<1>6. CASE Done("Failed") /\ Answer("none")
  BY <1>1, <1>2, <1>5, <1>6, Rests, NobodyWaits DEF Done
<1>7. CASE journal' = {[tx |-> r, committed |-> TRUE]} /\ UNCHANGED holder /\ Move("unpin", {})
  <2>1. job'.at = "unpin" /\ job'.kind = "commit"
    BY <1>1, <1>7, JobMoves DEF Moment, Base
  <2>2. Committing(r)'
    BY <1>1, <1>2, <1>3, <1>7, <2>1 DEF Committing, Closed
  <2> QED BY <1>2, <1>5, <2>1, <2>2 DEF Stage
<1> QED BY <1>6, <1>7 DEF CommitMark

\* The way back is given up only when the journal says committed.
LEMMA StageCommitUnpin ==
    ASSUME NEW r, Moment(r), Quiet(r)', CommitUnpin
    PROVE  Stage(r)'
<1> USE MomentFacts
<1>1. queue = <<>> /\ holder \in {"finish", "none"} /\ New(r) /\ Closed(r) /\ job.kind = "commit"
  BY DEF CommitUnpin, At, Moment, Stage, Committing
<1>2. UNCHANGED <<conv, shots, active, files, ledger, journal, queue, holder>> /\ active' = 0
  BY DEF CommitUnpin, UnchangedByJob
<1>3. New(r)' /\ Closed(r)' /\ ~Open(r)'
  BY <1>1, <1>2, OneEntry DEF New, Cut, Closed, Open
<1>4. Durable(r)'
  BY <1>3, DurableNew
<1>5. job'.at = "clear" /\ job'.kind = "commit"
  BY <1>1, JobMoves DEF CommitUnpin, Moment, Base
<1>6. Committing(r)'
  BY <1>1, <1>2, <1>3, <1>5 DEF Committing
<1> QED BY <1>2, <1>4, <1>5, <1>6 DEF Stage

\* Where the compensation stands: the conversation is as it was.
LEMMA CompensateStands ==
    ASSUME NEW r, Moment(r), job.kind = "compensate"
    PROVE  Compensating(r) /\ Ledgers(r) /\ Pinned(r) /\ Outside(r)
<1>1. Compensating(r)
  BY DEF Moment, Stage
<1>2. Open(r) /\ ~Crossed(r) /\ journal # {}
  BY <1>1, MomentFacts DEF Compensating
<1> QED BY <1>1, <1>2, MomentFacts DEF Durable

\* The ledger first, ...
LEMMA StageCompensateLedger ==
    ASSUME NEW r, Moment(r), Quiet(r)', CompensateLedger
    PROVE  Stage(r)'
<1> USE MomentFacts
<1>1. /\ queue = <<>> /\ holder \in {"finish", "none"} /\ Open(r) /\ conv = r.orig
      /\ Ledgers(r) /\ Pinned(r) /\ Outside(r) /\ job.kind = "compensate"
  BY CompensateStands DEF CompensateLedger, At, Compensating
<1>2. UNCHANGED <<conv, shots, active, files, journal, queue>> /\ active' = 0
  BY DEF CompensateLedger, UnchangedByJob
<1>3. ledger' \in {ledger, r.prev} /\ (pin = "pinned" => pin' = "pinned")
  BY LedgerWritten DEF CompensateLedger
<1>4. Open(r)' /\ conv' = r.orig /\ Ledgers(r)' /\ Pinned(r)' /\ Outside(r)'
  BY <1>1, <1>2, <1>3 DEF Open, Ledgers, Pinned, Outside
<1>5. Durable(r)'
  BY <1>4, DurableOpen
<1>6. CASE Done("Failed") /\ Answer("none")
  BY <1>1, <1>2, <1>5, <1>6, Rests, NobodyWaits DEF Done
<1>7. CASE Move("files", r.restored) /\ UNCHANGED holder
  <2>1. job'.at = "files" /\ job'.todo = r.restored /\ job'.kind = "compensate"
    BY <1>1, <1>7, JobMoves DEF Moment, Base
  <2>2. Back(r)'
    BY <1>4, <2>1 DEF Back, Outside
  <2>3. Compensating(r)'
    BY <1>1, <1>2, <1>4, <1>7, <2>1, <2>2 DEF Compensating
  <2> QED BY <1>2, <1>5, <2>1, <2>3 DEF Stage
<1> QED BY <1>6, <1>7 DEF CompensateLedger

\* ... then the files, ...
LEMMA StageCompensateFiles ==
    ASSUME NEW r, Moment(r), Quiet(r)', CompensateFiles
    PROVE  Stage(r)'
<1> USE MomentFacts
<1>1. /\ queue = <<>> /\ holder \in {"finish", "none"} /\ Open(r) /\ conv = r.orig
      /\ Ledgers(r) /\ Pinned(r) /\ Back(r) /\ job.kind = "compensate" /\ job.at = "files"
  BY CompensateStands DEF CompensateFiles, At, Compensating
<1>2. UNCHANGED <<conv, shots, active, ledger, journal, pin, queue>> /\ active' = 0
  BY DEF CompensateFiles, UnchangedByJob
<1>3. CASE files' = files /\ Done("Failed") /\ Answer("none")
  <2>1. Durable(r)'
    BY <1>2, <1>3, DurableSame
  <2> QED BY <1>1, <1>2, <1>3, <2>1, Rests, NobodyWaits DEF Done
<1>4. CASE RestoreOne(r.recovery) /\ UNCHANGED holder
  <2>1. /\ Back(r)' /\ Outside(r)' /\ (files' # r.recovery => files # r.recovery)
        /\ job'.kind = "compensate" /\ job'.at = "files"
    BY <1>1, <1>4, RestoreBack
  <2>2. Open(r)' /\ conv' = r.orig /\ Ledgers(r)' /\ Pinned(r)'
    BY <1>1, <1>2, <2>1 DEF Open, Ledgers, Pinned
  <2>3. Durable(r)'
    BY <2>1, <2>2, DurableOpen
  <2>4. Compensating(r)'
    BY <1>1, <1>2, <1>4, <2>1, <2>2 DEF Compensating
  <2> QED BY <1>2, <2>1, <2>3, <2>4 DEF Stage
<1> QED BY <1>3, <1>4 DEF CompensateFiles, RestoreFails

\* ... then the pin.
LEMMA StageCompensateUnpin ==
    ASSUME NEW r, Moment(r), Quiet(r)', CompensateUnpin
    PROVE  Stage(r)'
<1> USE MomentFacts
<1>1. /\ queue = <<>> /\ holder \in {"finish", "none"} /\ Open(r) /\ conv = r.orig
      /\ Ledgers(r) /\ Back(r) /\ job.kind = "compensate" /\ job.todo = {}
  BY CompensateStands DEF CompensateUnpin, At, Compensating
<1>2. UNCHANGED <<conv, shots, active, files, ledger, journal, queue, holder>> /\ active' = 0
  BY DEF CompensateUnpin, UnchangedByJob
<1>3. files' = r.recovery
  BY <1>1, <1>2, AllBack
<1>4. Old(r)' /\ Open(r)' /\ ~Closed(r)'
  BY <1>1, <1>2, <1>3, OneEntry DEF Old, Ledgers, Open, Closed
<1>5. Durable(r)'
  BY <1>4, DurableOld
<1>6. job'.at = "clear" /\ job'.kind = "compensate"
  BY <1>1, JobMoves DEF CompensateUnpin, Moment, Base
<1>7. Compensating(r)'
  BY <1>1, <1>2, <1>3, <1>4, <1>6 DEF Compensating
<1> QED BY <1>2, <1>5, <1>6, <1>7 DEF Stage

\* The journal is cleared: both ways are finished.
LEMMA StageFinishClear ==
    ASSUME NEW r, Moment(r), Quiet(r)', FinishClear
    PROVE  Stage(r)'
<1> USE MomentFacts
<1>1. UNCHANGED <<conv, shots, active, files, ledger, pin, queue>> /\ active' = 0
  BY DEF FinishClear, UnchangedByJob
<1>2. job' = NoJob /\ holder' = "none"
  BY NobodyWaits DEF FinishClear, Done
<1>3. journal' \in {journal, {}}
  BY DEF FinishClear
<1>4. CASE job.kind = "commit"
  <2>1. queue = <<>> /\ New(r)
    BY <1>4 DEF Moment, Stage, Committing
  <2>2. New(r)'
    BY <1>1, <2>1 DEF New, Cut
  <2>3. (Open(r)' /\ ~Crossed(r)') => Pinned(r)'
    <3>1. ASSUME Open(r)', ~Crossed(r)' PROVE Pinned(r)'
      <4>1. Open(r)
        BY <1>3, <3>1, OneEntry DEF Open
      <4> QED BY <1>1, <3>1, <4>1 DEF Durable, Pinned, Crossed
    <3> QED BY <3>1
  <2>4. Durable(r)'
    BY <2>2, <2>3, DurableNew
  <2> QED BY <1>1, <1>2, <2>1, <2>4, Rests
<1>5. CASE job.kind = "compensate"
  <2>1. queue = <<>> /\ Open(r) /\ conv = r.orig /\ files = r.recovery /\ Ledgers(r)
    BY <1>5, CompensateStands DEF Compensating, FinishClear
  <2>2. Old(r)' /\ ~Closed(r)'
    BY <1>1, <1>3, <2>1, OneEntry DEF Old, Ledgers, Open, Closed
  <2>3. Durable(r)'
    BY <2>2, DurableOld
  <2> QED BY <1>1, <1>2, <2>1, <2>3, Rests
<1> QED BY <1>4, <1>5 DEF FinishClear

-----------------------------------------------------------------------------
(* The steps of recover_pending_rewind: the durable state decides.         *)

\* The side the journal and the conversation tell the opening to finish.
LEMMA ForwardIs ==
    ASSUME NEW r, Moment(r), job.kind = "reopen"
    PROVE  /\ Entry.tx = r /\ (Forward <=> Closed(r) \/ Crossed(r)) /\ journal # {}
           /\ Reopening(r) /\ Outside(r) /\ (Open(r) \/ Closed(r))
           /\ conv' = conv => (job.bad => ~Crossed(r)')
           /\ Forward => New(r)
           /\ ~Forward => Open(r) /\ ~Crossed(r) /\ conv = r.orig /\ Ledgers(r) /\ Pinned(r)
<1>1. Reopening(r) /\ journal # {}
  BY DEF Moment, Stage, Reopening
<1>2. Open(r) \/ Closed(r)
  BY <1>1, MomentFacts
<1>3. Entry.tx = r /\ (Forward <=> Closed(r) \/ Crossed(r))
  BY <1>1, <1>2, MomentFacts DEF Forward, Reopening
<1>4. Outside(r) /\ (Forward => New(r))
  BY <1>1, <1>2, <1>3, MomentFacts DEF Durable
<1>5. ~Forward => Open(r) /\ ~Crossed(r) /\ conv = r.orig /\ Ledgers(r) /\ Pinned(r)
  BY <1>2, <1>3, MomentFacts DEF Durable
<1>6. conv' = conv => (job.bad => ~Crossed(r)')
  BY <1>1 DEF Reopening, Crossed
<1> QED BY <1>1, <1>2, <1>3, <1>4, <1>5, <1>6

\* A recovery forward keeps everything taken back, ...
LEMMA ForwardKept ==
    ASSUME NEW r, Moment(r), job.kind = "reopen", Forward,
           UNCHANGED <<conv, files, shots, journal>>, ledger' = ledger
    PROVE  Durable(r)' /\ journal' # {} /\ (Closed(r)' \/ Crossed(r)')
<1>1. (Closed(r) \/ Crossed(r)) /\ New(r) /\ journal # {}
  BY ForwardIs
<1>2. (Closed(r)' \/ Crossed(r)') /\ New(r)' /\ journal' # {}
  BY <1>1 DEF Closed, Crossed, New, Cut
<1>3. ~(Open(r)' /\ Closed(r)')
  BY OneEntry DEF Open, Closed
<1> QED BY <1>2, <1>3, MomentFacts, DurableNew

\* ... and one backward the way back.
LEMMA BackwardKept ==
    ASSUME NEW r, Moment(r), job.kind = "reopen", ~Forward,
           UNCHANGED <<conv, journal>>, ledger' \in {ledger, r.prev},
           files' # r.recovery => pin' = "pinned", Outside(r)'
    PROVE  Durable(r)' /\ journal' # {} /\ ~(Closed(r)' \/ Crossed(r)')
<1>1. Open(r) /\ conv = r.orig /\ Ledgers(r)
  BY ForwardIs
<1>2. Open(r)' /\ conv' = r.orig /\ Ledgers(r)' /\ Pinned(r)'
  BY <1>1 DEF Open, Ledgers, Pinned
<1>3. Durable(r)'
  BY <1>2, MomentFacts, DurableOpen
<1>4. journal' # {} /\ ~Closed(r)'
  BY <1>2, OneEntry DEF Open, Closed
<1>5. ~Crossed(r)'
  BY <1>2, MomentFacts DEF Crossed, IsReceipt
<1> QED BY <1>3, <1>4, <1>5

\* The recovery that failed is left to the next opening.
LEMMA LeftForLater ==
    ASSUME NEW r, Moment(r), job.kind = "reopen", Durable(r)', active' = 0, GiveUp,
           UNCHANGED <<queue, holder>>
    PROVE  Stage(r)'
BY ForwardIs, Rests DEF GiveUp, Done, Reopening, Idle

\* The opening writes the ledger of the side it finishes, ...
LEMMA StageReopenLedger ==
    ASSUME NEW r, Moment(r), Quiet(r)', ReopenLedger
    PROVE  Stage(r)'
<1>1. job.kind = "reopen" /\ UNCHANGED <<conv, shots, active, files, journal, queue, holder>>
  BY DEF ReopenLedger, At, UnchangedByJob
<1>2. active' = 0 /\ queue' = <<>> /\ holder' = "none"
  BY <1>1, ForwardIs, MomentFacts DEF Reopening, Idle
<1>3. CASE Forward
  <2>1. ledger = r.kept
    BY <1>1, <1>3, ForwardIs DEF New
  <2>2. \/ LedgerSaved(r.kept) /\ Move("files", {})
        \/ LedgerFails(r.kept) /\ GiveUp
    BY <1>1, <1>3, ForwardIs DEF ReopenLedger
  <2>3. ledger' = ledger
    BY <2>1, <2>2, LedgerWritten
  <2>4. Durable(r)' /\ journal' # {} /\ (Closed(r)' \/ Crossed(r)')
    BY <1>1, <1>3, <2>3, ForwardKept
  <2>5. CASE GiveUp
    BY <1>1, <1>2, <2>4, <2>5, LeftForLater
  <2>6. CASE Move("files", {})
    <3>1. /\ job'.at = "files" /\ job'.todo = {}/\ job'.kind = "reopen"
          /\ (job'.bad => ~Crossed(r)')
      BY <1>1, <2>6, JobMoves, ForwardIs DEF Moment, Base
    <3>2. Reopening(r)'
      BY <1>2, <2>4, <3>1 DEF Reopening, Idle
    <3> QED BY <1>2, <2>4, <3>1, <3>2 DEF Stage
  <2> QED BY <2>2, <2>5, <2>6
<1>4. CASE ~Forward
  <2>1. \/ LedgerSaved(r.prev) /\ Move("files", r.restored)
        \/ LedgerFails(r.prev) /\ GiveUp
    BY <1>1, <1>4, ForwardIs DEF ReopenLedger
  <2>2. ledger' \in {ledger, r.prev} /\ (pin = "pinned" => pin' = "pinned")
    BY <2>1, LedgerWritten
  <2>3. Pinned(r) /\ Outside(r)
    BY <1>1, <1>4, ForwardIs
  <2>4. (files' # r.recovery => pin' = "pinned") /\ Outside(r)'
    BY <1>1, <2>2, <2>3 DEF Pinned, Outside
  <2>5. Durable(r)' /\ journal' # {} /\ ~(Closed(r)' \/ Crossed(r)')
    BY <1>1, <1>4, <2>2, <2>4, BackwardKept
  <2>6. CASE GiveUp
    BY <1>1, <1>2, <2>5, <2>6, LeftForLater
  <2>7. CASE Move("files", r.restored)
    <3>1. /\ job'.at = "files" /\ job'.todo = r.restored/\ job'.kind = "reopen"
          /\ (job'.bad => ~Crossed(r)')
      BY <1>1, <2>7, JobMoves, ForwardIs DEF Moment, Base
    <3>2. Back(r)'
      BY <2>4, <3>1 DEF Back, Outside
    <3>3. Reopening(r)'
      BY <1>2, <2>5, <3>1, <3>2 DEF Reopening, Idle
    <3> QED BY <1>2, <2>5, <3>1, <3>3 DEF Stage
  <2> QED BY <2>1, <2>6, <2>7
<1> QED BY <1>3, <1>4

\* ... puts the files back when that is the old side, ...
LEMMA StageReopenFiles ==
    ASSUME NEW r, Moment(r), Quiet(r)', ReopenFiles
    PROVE  Stage(r)'
<1>1. /\ job.kind = "reopen" /\ job.at = "files"
      /\ UNCHANGED <<conv, shots, active, ledger, journal, pin, queue, holder>>
  BY DEF ReopenFiles, At, UnchangedByJob
<1>2. active' = 0 /\ queue' = <<>> /\ holder' = "none"
  BY <1>1, ForwardIs, MomentFacts DEF Reopening, Idle
<1>3. \/ RestoreOne(r.recovery)
      \/ files' = files /\ GiveUp
  BY <1>1, ForwardIs DEF ReopenFiles, RestoreFails
<1>4. CASE files' = files /\ GiveUp
  <2>1. Durable(r)'
    BY <1>1, <1>4, MomentFacts, DurableSame
  <2> QED BY <1>1, <1>2, <1>4, <2>1, LeftForLater
<1>5. CASE RestoreOne(r.recovery)
  <2>1. job.todo # {}
    BY <1>5 DEF RestoreOne
  <2>2. ~Forward
    BY <1>1, <2>1, ForwardIs DEF Reopening
  <2>3. Back(r) /\ Pinned(r)
    BY <1>1, <2>2, ForwardIs DEF Reopening
  <2>4. /\ Back(r)' /\ Outside(r)' /\ (files' # r.recovery => files # r.recovery)
        /\ job'.kind = "reopen" /\ job'.at = "files"
        /\ (job'.bad => ~Crossed(r)')
    BY <1>1, <1>5, <2>3, RestoreBack, ForwardIs
  <2>5. files' # r.recovery => pin' = "pinned"
    BY <1>1, <2>3, <2>4 DEF Pinned
  <2>6. Durable(r)' /\ journal' # {} /\ ~(Closed(r)' \/ Crossed(r)')
    BY <1>1, <2>2, <2>4, <2>5, BackwardKept
  <2>7. Reopening(r)'
    BY <1>2, <2>4, <2>6 DEF Reopening, Idle
  <2> QED BY <1>2, <2>4, <2>6, <2>7 DEF Stage
<1> QED BY <1>3, <1>4, <1>5

\* ... lets go of the recovery tree, ...
LEMMA StageReopenUnpin ==
    ASSUME NEW r, Moment(r), Quiet(r)', ReopenUnpin
    PROVE  Stage(r)'
<1>1. /\ job.kind = "reopen" /\ job.at = "files" /\ job.todo = {}
      /\ UNCHANGED <<conv, shots, active, files, ledger, journal, queue, holder>>
  BY DEF ReopenUnpin, At, UnchangedByJob
<1>2. active' = 0 /\ queue' = <<>> /\ holder' = "none"
  BY <1>1, ForwardIs, MomentFacts DEF Reopening, Idle
<1>3. job'.at = "clear" /\ job'.kind = "reopen" /\ (job'.bad => ~Crossed(r)')
  BY <1>1, JobMoves, ForwardIs DEF ReopenUnpin, Moment, Base
<1>4. CASE Forward
  <2>1. Durable(r)' /\ journal' # {} /\ (Closed(r)' \/ Crossed(r)')
    BY <1>1, <1>4, ForwardKept
  <2>2. Reopening(r)'
    BY <1>2, <1>3, <2>1 DEF Reopening, Idle
  <2> QED BY <1>2, <1>3, <2>1, <2>2 DEF Stage
<1>5. CASE ~Forward
  <2>1. Back(r) /\ Outside(r)
    BY <1>1, <1>5, ForwardIs DEF Reopening
  <2>2. files' = r.recovery
    BY <1>1, <2>1, AllBack
  <2>3. Outside(r)'
    BY <1>1, <2>1 DEF Outside
  <2>4. Durable(r)' /\ journal' # {}
    BY <1>1, <1>5, <2>2, <2>3, BackwardKept
  <2>5. Reopening(r)'
    BY <1>2, <1>3, <2>2, <2>4 DEF Reopening, Idle
  <2> QED BY <1>2, <1>3, <2>4, <2>5 DEF Stage
<1> QED BY <1>4, <1>5

\* ... and clears the journal.
LEMMA StageReopenClear ==
    ASSUME NEW r, Moment(r), Quiet(r)', ReopenClear
    PROVE  Stage(r)'
<1>1. /\ job.kind = "reopen" /\ job.at = "clear"
      /\ UNCHANGED <<conv, shots, active, files, ledger, pin, queue, holder>>
  BY DEF ReopenClear, At, UnchangedByJob
<1>2. active' = 0 /\ queue' = <<>> /\ holder' = "none"
  BY <1>1, ForwardIs, MomentFacts DEF Reopening, Idle
<1>3. CASE GiveUp /\ UNCHANGED journal
  <2>1. Durable(r)'
    BY <1>1, <1>3, MomentFacts, DurableSame
  <2> QED BY <1>1, <1>2, <1>3, <2>1, LeftForLater
<1>4. CASE journal' = {} /\ Done("Ready")
  <2>1. ~Open(r)' /\ ~Closed(r)'
    BY <1>4, OneEntry DEF Open, Closed
  <2>2. CASE Forward
    <3>1. New(r)
      BY <1>1, <2>2, ForwardIs
    <3>2. New(r)'
      BY <1>1, <3>1 DEF New, Cut
    <3>3. Durable(r)'
      BY <2>1, <3>2, MomentFacts, DurableNew
    <3> QED BY <1>2, <1>4, <3>3, Rests DEF Done
  <2>3. CASE ~Forward
    <3>1. conv = r.orig /\ Ledgers(r) /\ files = r.recovery
      BY <1>1, <2>3, ForwardIs DEF Reopening
    <3>2. Old(r)'
      BY <1>1, <3>1 DEF Old, Ledgers
    <3>3. Durable(r)'
      BY <2>1, <3>2, MomentFacts, DurableOld
    <3> QED BY <1>2, <1>4, <3>3, Rests DEF Done
  <2> QED BY <2>2, <2>3
<1> QED BY <1>3, <1>4 DEF ReopenClear

-----------------------------------------------------------------------------
(* The driver's steps, the crash, the opening, and the beginning.          *)

\* A rewind that conflicts is refused: one more tree is pinned.
LEMMA StageBeginRefused ==
    ASSUME NEW r, Moment(r), NEW t, NEW s, BeginRefused(t, s)
    PROVE  Stage(r)'
<1>1. job' = NoJob /\ holder' = "none" /\ queue' = <<>> /\ active' = 0
  BY DEF BeginRefused, Offered, process
<1>2. Durable(r)'
  BY MomentFacts, DurableSame DEF BeginRefused, process
<1> QED BY <1>1, <1>2, Rests

\* The driver sends its next control.
LEMMA StageHolderStep ==
    ASSUME NEW r, Moment(r), NEW from, NEW m, NEW to, HolderStep(from, m, to)
    PROVE  /\ UNCHANGED <<conv, files, ledger, journal, shots, pin, active, job, phase>>
           /\ active' = 0 /\ Durable(r)' /\ holder = from /\ holder' = to
           /\ queue' = Append(queue, m)
           /\ \/ holder \in {"begin", "none", "finish"}
              \/ job.kind = "none" /\ Waiting(r)
              \/ job.kind = "undo" /\ Undoing(r)
<1>1. /\ UNCHANGED <<conv, files, ledger, journal, shots, pin, active, job, phase>>
      /\ holder = from /\ holder' = to /\ queue' = Append(queue, m)
  BY DEF HolderStep, Send, durable
<1>2. active' = 0 /\ Durable(r)'
  BY <1>1, MomentFacts, DurableSame
<1>3. \/ holder \in {"begin", "none", "finish"}
      \/ job.kind = "none" /\ Waiting(r)
      \/ job.kind = "undo" /\ Undoing(r)
  BY DEF Moment, Stage, Idle, Beginning, Committing, Compensating, Reopening
<1> QED BY <1>1, <1>2, <1>3

\* The session still waits, with one control more.
LEMMA StillWaiting ==
    ASSUME NEW r, Waiting(r), Durable(r)', active' = 0, job.kind = "none",
           UNCHANGED <<conv, files, ledger, journal, shots, pin, job, phase>>,
           \/ holder' = "apply" /\ queue' = <<"apply">> /\ conv = r.orig
           \/ holder' = "none" /\ queue' = <<"apply", "recover">> /\ conv = r.orig
           \/ holder' = "none" /\ queue' = <<"recover">>
           \/ holder' = "finish" /\ queue' = <<"commit">> /\ conv = r.target
           \/ holder' = "finish" /\ queue' = <<"compensate">> /\ (phase = "Broken" \/ conv = r.orig)
    PROVE  Stage(r)'
<1>1. Open(r)' /\ files' = Cut(r)' /\ ledger' = r.kept /\ Pinned(r)'
  BY DEF Waiting, Open, Cut, Pinned
<1>2. Waiting(r)'
  BY <1>1 DEF Waiting
<1> QED BY <1>2 DEF Stage

\* The driver asks for the undo while the conversation is as it was, ...
LEMMA StageAskUndo ==
    ASSUME NEW r, Moment(r), AskUndo
    PROVE  Stage(r)'
<1>1. HolderStep("held", "apply", "apply")
  BY DEF AskUndo
<1>2. job.kind = "none" /\ Waiting(r) /\ holder = "held"
  BY <1>1, StageHolderStep DEF Undoing
<1>3. queue = <<>> /\ conv = r.orig
  BY <1>2 DEF Waiting
<1>4. queue' = <<"apply">> /\ holder' = "apply"
  BY <1>1, <1>3, StageHolderStep
<1> QED BY <1>1, <1>2, <1>3, <1>4, StageHolderStep, StillWaiting

\* ... commits once it is taken back or need not be, ...
LEMMA StageAskCommit ==
    ASSUME NEW r, Moment(r), AskCommit
    PROVE  Stage(r)'
<1>1. CASE HolderStep("held", "commit", "finish") /\ ~TakesBack(Receipt)
  <2>1. job.kind = "none" /\ Waiting(r) /\ holder = "held"
    BY <1>1, StageHolderStep DEF Undoing
  <2>2. queue = <<>> /\ conv = r.orig
    BY <2>1 DEF Waiting
  <2>3. conv = r.target
    BY <1>1, <2>2, MomentFacts DEF IsReceipt
  <2>4. queue' = <<"commit">> /\ holder' = "finish"
    BY <1>1, <2>2, StageHolderStep
  <2> QED BY <1>1, <2>1, <2>3, <2>4, StageHolderStep, StillWaiting
<1>2. CASE HolderStep("ok", "commit", "finish")
  <2>1. job.kind = "none" /\ Waiting(r) /\ holder = "ok"
    BY <1>2, StageHolderStep DEF Undoing
  <2>2. queue = <<>> /\ conv = r.target
    BY <2>1 DEF Waiting
  <2>3. queue' = <<"commit">> /\ holder' = "finish"
    BY <1>2, <2>2, StageHolderStep
  <2> QED BY <1>2, <2>1, <2>2, <2>3, StageHolderStep, StillWaiting
<1> QED BY <1>1, <1>2 DEF AskCommit

\* ... and compensates when the undo was answered as an error.
LEMMA StageAskCompensate ==
    ASSUME NEW r, Moment(r), AskCompensate
    PROVE  Stage(r)'
<1>1. HolderStep("err", "compensate", "finish")
  BY DEF AskCompensate
<1>2. job.kind = "none" /\ Waiting(r) /\ holder = "err"
  BY <1>1, StageHolderStep DEF Undoing
<1>3. queue = <<>> /\ (phase = "Broken" \/ conv = r.orig)
  BY <1>2 DEF Waiting
<1>4. queue' = <<"compensate">> /\ holder' = "finish"
  BY <1>1, <1>3, StageHolderStep
<1> QED BY <1>1, <1>2, <1>3, <1>4, StageHolderStep, StillWaiting

\* The driver's call is dropped where it stands.
LEMMA StageDrop ==
    ASSUME NEW r, Moment(r), Drop
    PROVE  Stage(r)'
<1>1. ASSUME NEW at \in {"held", "apply", "ok", "err"}, HolderStep(at, "recover", "none")
      PROVE  Stage(r)'
  <2>1. holder = at /\ holder' = "none" /\ queue' = Append(queue, "recover")
    BY <1>1, StageHolderStep
  <2>2. CASE job.kind = "none" /\ Waiting(r)
    <3>1. \/ queue = <<>>
          \/ queue = <<"apply">> /\ conv = r.orig
      BY <1>1, <2>1, <2>2 DEF Waiting
    <3>2. \/ queue' = <<"recover">>
          \/ queue' = <<"apply", "recover">> /\ conv = r.orig
      BY <2>1, <3>1, ShortQueues
    <3> QED BY <1>1, <2>1, <2>2, <3>2, StageHolderStep, StillWaiting
  <2>3. CASE job.kind = "undo" /\ Undoing(r)
    <3>1. queue = <<>>
      BY <1>1, <2>1, <2>3 DEF Undoing
    <3>2. queue' = <<"recover">>
      BY <2>1, <3>1
    <3>3. UNCHANGED <<conv, files, ledger, journal, shots, pin, job>>
      BY <1>1, StageHolderStep
    <3>4. Undoing(r)'
      BY <2>1, <2>3, <3>2, <3>3 DEF Undoing, Open, New, Cut, Pinned
    <3> QED BY <1>1, <2>3, <3>3, <3>4, StageHolderStep DEF Stage
  <2> QED BY <1>1, <2>1, <2>2, <2>3, StageHolderStep
<1>2. CASE /\ holder = "begin" /\ holder' = "none"
           /\ UNCHANGED <<durable, phase, points, unavailable, active, job, queue, tx,
                          nextTurn, faults, crashes>>
  <2>1. job.kind = "begin" /\ Beginning(r)
    BY <1>2 DEF Moment, Stage, Idle, Waiting, Undoing, Committing, Compensating, Reopening
  <2>2. /\ UNCHANGED <<conv, files, ledger, journal, shots, pin, job, queue, faults>>
        /\ active' = 0
    BY <1>2, MomentFacts DEF durable
  <2>3. Durable(r)'
    BY <2>2, MomentFacts, DurableSame
  <2>4. Beginning(r)'
    BY <1>2, <2>1, <2>2 DEF Beginning, Old, Open, Ledgers, Cut, Back
  <2> QED BY <2>1, <2>2, <2>3, <2>4 DEF Stage
<1> QED BY <1>1, <1>2 DEF Drop

\* A crash leaves what is durable, ...
LEMMA StageCrash ==
    ASSUME NEW r, Moment(r), Crash
    PROVE  Stage(r)'
<1>1. /\ UNCHANGED <<conv, files, ledger, journal, shots, pin>>
      /\ active' = 0 /\ job' = NoJob /\ queue' = <<>> /\ holder' = "none"
  BY DEF Crash, durable
<1> QED BY <1>1, MomentFacts, DurableSame, Rests

\* ... and the opening starts from it, unless it misreads a conversation that
\* has crossed.
LEMMA StageReopen ==
    ASSUME NEW r, Moment(r), Reopen \/ ReopenBlind
    PROVE  Stage(r)' \/ Torn(r)'
<1>1. /\ UNCHANGED <<conv, files, ledger, journal, shots, pin, queue, holder>>
      /\ active' = 0 /\ phase = "Down"
  BY MomentFacts DEF Reopen, ReopenBlind, UnchangedByReopen, durable
<1>2. queue' = <<>> /\ holder' = "none"
  BY <1>1 DEF Moment, Base, Sole, ItsTask
<1>3. Durable(r)'
  BY <1>1, MomentFacts, DurableSame
<1>4. CASE job' = NoJob
  BY <1>1, <1>2, <1>3, <1>4, Rests
<1>5. CASE Reopen /\ journal # {}
  <2>1. PICK read \in BOOLEAN :
            /\ job' = [NoJob EXCEPT !.kind = "reopen", !.at = "start", !.bad = ~read]
            /\ ReadBack(Entry.tx, read) \/ read
    BY <1>5 DEF Reopen
  <2>2. job'.kind = "reopen" /\ job'.at = "start" /\ job'.bad = ~read /\ journal' # {}
    BY <1>1, <1>5, <2>1 DEF NoJob
  <2>3. CASE read \/ ~Crossed(r)
    <3>1. job'.bad => ~Crossed(r)'
      BY <1>1, <2>2, <2>3 DEF Crossed
    <3>2. Reopening(r)'
      BY <1>2, <2>2, <3>1 DEF Reopening, Idle
    <3> QED BY <1>1, <1>3, <2>2, <3>2 DEF Stage
  <2>4. CASE ~read /\ Crossed(r)
    <3>1. Fails("unread")
      BY <2>1, <2>4 DEF ReadBack
    <3>2. "unread" \in Range(faults')
      BY <3>1, FaultCount DEF Moment, Base, ControlTypes
    <3>3. Crossed(r)'
      BY <1>1, <2>4 DEF Crossed
    <3> QED BY <1>1, <2>2, <3>2, <3>3 DEF Torn
  <2> QED BY <2>3, <2>4
<1>6. job' = NoJob \/ (Reopen /\ journal # {})
  BY DEF Reopen, ReopenBlind, GiveUp, Done
<1> QED BY <1>4, <1>5, <1>6

\* A step that changes nothing.
LEMMA StageStutter ==
    ASSUME NEW r, Moment(r), UNCHANGED vars
    PROVE  Stage(r)'
<1>1. Stage(r)
  BY DEF Moment
<1> QED BY <1>1 DEF vars, durable, process, Stage, Durable, Old, New, Open, Closed, Crossed,
                    Ledgers, Pinned, Outside, Cut, Idle, Waiting, Beginning, Undoing,
                    Committing, Compensating, Reopening, Back

\* The rewind begins with nothing changed and the way back pinned.
LEMMA StageBegin ==
    ASSUME Base, NEW t, NEW s, Begin(t, s), NEW r \in tx'
    PROVE  Stage(r)'
<1>1. r = Plan(t, s) /\ tx = {} /\ queue = <<>> /\ active = 0
  BY DEF Begin, Offered
<1>2. /\ r.scope = s /\ r.recovery = files /\ r.orig = conv /\ r.disk = ledger
  BY <1>1 DEF Plan
<1>3. journal = {}
  BY <1>1, Handles DEF Base
<1>4. /\ UNCHANGED <<conv, files, ledger, journal, shots, queue>> /\ active' = 0
      /\ holder' = "begin" /\ (s # "conversation" => pin' = "pinned")
  BY <1>1 DEF Begin
<1>5. job'.kind = "begin" /\ job'.at = "journal" /\ job'.bad = FALSE
  BY DEF Begin, NoJob
<1>6. Old(r)' /\ journal' = {} /\ conv' = r.orig
  BY <1>2, <1>3, <1>4 DEF Old, Ledgers
<1>7. Durable(r)'
  <2>1. ~Open(r)' /\ ~Closed(r)'
    BY <1>6, OneEntry DEF Open, Closed
  <2> QED BY <1>6, <2>1 DEF Durable
<1>8. Beginning(r)'
  BY <1>1, <1>2, <1>4, <1>5, <1>6 DEF Beginning
<1> QED BY <1>4, <1>5, <1>7, <1>8 DEF Stage

-----------------------------------------------------------------------------
(* The invariant is inductive.                                             *)

\* Turns and faults are only ever counted up, and there is one rewind.
LEMMA Counts ==
    ASSUME Base, [Next]_vars
    PROVE  /\ nextTurn' \in {nextTurn, nextTurn + 1}
           /\ faults' = faults \/ Len(faults') = Len(faults) + 1
           /\ tx' = tx \/ \E t \in Turns, s \in Scopes : Begin(t, s)
<1> DEFINE Counted == /\ nextTurn' \in {nextTurn, nextTurn + 1}
                      /\ faults' = faults \/ Len(faults') = Len(faults) + 1
                      /\ tx' = tx \/ \E t \in Turns, s \in Scopes : Begin(t, s)
<1>0. faults \in Seq({"untouched", "replaced", "unread"})
  BY DEF Base, ControlTypes
<1>1. CASE Submit
  BY <1>0, <1>1, FaultCount DEF Submit
<1>2. ASSUME NEW f \in Files, TurnWrites(f) PROVE Counted
  BY <1>0, <1>2, FaultCount DEF TurnWrites, process
<1>3. CASE TurnEnds
  BY <1>0, <1>3, FaultCount DEF TurnEnds
<1>4. ASSUME NEW t \in Turns, NEW s \in Scopes, Begin(t, s) PROVE Counted
  BY <1>0, <1>4, FaultCount DEF Begin
<1>5. ASSUME NEW t \in Turns, NEW s \in Scopes, BeginRefused(t, s) PROVE Counted
  BY <1>0, <1>5, FaultCount DEF BeginRefused, process
<1>6. CASE BeginJournal
  BY <1>0, <1>6, FaultCount DEF BeginJournal, UnchangedByJob
<1>7. CASE BeginFiles
  BY <1>0, <1>7, FaultCount DEF BeginFiles, UnchangedByJob
<1>8. CASE BeginFilesFail
  BY <1>0, <1>8, FaultCount DEF BeginFilesFail, UnchangedByJob
<1>9. CASE BeginBack
  BY <1>0, <1>9, FaultCount DEF BeginBack, UnchangedByJob
<1>10. CASE BeginBackClear
  BY <1>0, <1>10, FaultCount DEF BeginBackClear, UnchangedByJob
<1>11. CASE BeginLedger
  BY <1>0, <1>11, FaultCount DEF BeginLedger, LedgerSaved, LedgerFails, UnchangedByJob
<1>12. CASE BeginUndo
  BY <1>0, <1>12, FaultCount DEF BeginUndo, UnchangedByJob
<1>13. CASE BeginUndoClear
  BY <1>0, <1>13, FaultCount DEF BeginUndoClear, UnchangedByJob
<1>14. CASE Rebuild
  BY <1>0, <1>14, FaultCount DEF Rebuild, UnchangedByUndo
<1>15. CASE CommitMark
  BY <1>0, <1>15, FaultCount DEF CommitMark, UnchangedByJob
<1>16. CASE CommitUnpin
  BY <1>0, <1>16, FaultCount DEF CommitUnpin, UnchangedByJob
<1>17. CASE CompensateLedger
  BY <1>0, <1>17, FaultCount DEF CompensateLedger, LedgerSaved, LedgerFails, UnchangedByJob
<1>18. CASE CompensateFiles
  BY <1>0, <1>18, FaultCount DEF CompensateFiles, RestoreFails, UnchangedByJob
<1>19. CASE CompensateUnpin
  BY <1>0, <1>19, FaultCount DEF CompensateUnpin, UnchangedByJob
<1>20. CASE FinishClear
  BY <1>0, <1>20, FaultCount DEF FinishClear, UnchangedByJob
<1>21. CASE ReopenLedger
  BY <1>0, <1>21, FaultCount DEF ReopenLedger, LedgerSaved, LedgerFails, GiveUp, UnchangedByJob
<1>22. CASE ReopenFiles
  BY <1>0, <1>22, FaultCount DEF ReopenFiles, RestoreFails, GiveUp, UnchangedByJob
<1>23. CASE ReopenUnpin
  BY <1>0, <1>23, FaultCount DEF ReopenUnpin, UnchangedByJob
<1>24. CASE ReopenClear
  BY <1>0, <1>24, FaultCount DEF ReopenClear, GiveUp, UnchangedByJob
<1>25. CASE Apply
  BY <1>0, <1>25, FaultCount DEF Apply, UnchangedByUndo
<1>26. CASE ApplyBusy
  BY <1>0, <1>26, FaultCount DEF ApplyBusy, UnchangedByUndo
<1>27. CASE ApplyFails
  BY <1>0, <1>27, FaultCount DEF ApplyFails, UnchangedByUndo
<1>28. CASE Finish
  BY <1>0, <1>28, FaultCount DEF Finish, ReadBack, durable
<1>29. CASE Reject
  BY <1>0, <1>29, FaultCount DEF Reject, durable
<1>30. CASE AskUndo
  BY <1>0, <1>30, FaultCount DEF AskUndo, HolderStep, durable
<1>31. CASE AskCommit
  BY <1>0, <1>31, FaultCount DEF AskCommit, HolderStep, durable
<1>32. CASE AskCompensate
  BY <1>0, <1>32, FaultCount DEF AskCompensate, HolderStep, durable
<1>33. CASE Drop
  BY <1>0, <1>33, FaultCount DEF Drop, HolderStep, durable
<1>34. CASE Crash
  BY <1>0, <1>34, FaultCount DEF Crash, durable
<1>35. CASE Reopen
  BY <1>0, <1>35, FaultCount DEF Reopen, ReadBack, UnchangedByReopen, durable
<1>36. CASE UNCHANGED vars
  BY <1>36 DEF vars
<1>37. CASE ReopenBlind
  BY <1>0, <1>37, FaultCount DEF ReopenBlind, UnchangedByReopen, durable
<1> QED BY <1>1, <1>2, <1>3, <1>4, <1>5, <1>6, <1>7, <1>8, <1>9, <1>10, <1>11, <1>12,
  <1>13, <1>14, <1>15, <1>16, <1>17, <1>18, <1>19, <1>20, <1>21, <1>22, <1>23, <1>24,
  <1>25, <1>26, <1>27, <1>28, <1>29, <1>30, <1>31, <1>32, <1>33, <1>34, <1>35, <1>36, <1>37 DEF
  Next, Begins, Task, Control, Driver

\* What a quiet step does to the conversation and to the rebuilding task.
LEMMA QuietConv ==
    ASSUME NEW r, Base, tx = {r}, Quiet(r), Quiet(r)', active = 0, job.kind # "undo", Crossed(r),
           [Next]_vars
    PROVE  conv' = conv /\ active' = 0 /\ job'.kind # "undo"
<1>1. Receipt = r /\ IsReceipt(r) /\ r.target # r.orig /\ conv = r.target
  BY Handles, TheReceipt DEF Base, IsReceipt, Crossed
<1>2. conv # Receipt.orig
  BY <1>1
<1>3. nextTurn' = nextTurn /\ nextTurn \in Nat
  BY DEF Quiet, Base, StoreTypes
<1>j. /\ \A p, td : Move(p, td) => job'.kind = job.kind
      /\ \A tree : RestoreOne(tree) => job'.kind = job.kind
      /\ \A ph : Done(ph) => job'.kind = "none"
      /\ \A td, b : [job EXCEPT !.todo = td, !.bad = b].kind = job.kind
      /\ NoJob.kind = "none"
  BY JobMoves DEF Base, ControlTypes, Jobs, NoJob
<1>4. ~Submit /\ ~TurnEnds /\ ~(\E f \in Files : TurnWrites(f)) /\ ~Apply /\ ~ApplyFails /\ ~Rebuild
  BY <1>2, <1>3 DEF Submit, TurnEnds, TurnWrites, Apply, ApplyFails, Rebuild
<1>5. ASSUME NEW t \in Turns, NEW s \in Scopes, Begin(t, s) \/ BeginRefused(t, s)
      PROVE  conv' = conv /\ active' = 0 /\ job'.kind # "undo"
  BY <1>5 DEF Begin, BeginRefused, process
<1>6. CASE \/ BeginJournal \/ BeginFiles \/ BeginFilesFail \/ BeginBack \/ BeginBackClear
           \/ BeginLedger \/ BeginUndo \/ BeginUndoClear
  <2>1. UNCHANGED <<conv, active>>
    BY <1>6 DEF BeginJournal, BeginFiles, BeginFilesFail, BeginBack, BeginBackClear,
       BeginLedger, BeginUndo, BeginUndoClear, UnchangedByJob
  <2>2. CASE BeginJournal \/ BeginLedger
    BY <2>1, <2>2, <1>j DEF BeginJournal, BeginLedger, NoJob
  <2>3. CASE BeginFiles \/ BeginFilesFail
    BY <2>1, <2>3, <1>j DEF BeginFiles, BeginFilesFail
  <2>4. CASE BeginBack \/ BeginBackClear
    <3>1. job.kind = "begin" /\ job \in Jobs
      BY <2>4 DEF BeginBack, BeginBackClear, At, Base, ControlTypes
    <3>2. CASE BeginBack
      BY <2>1, <3>1, <3>2, <1>j DEF BeginBack, Jobs
    <3>3. CASE BeginBackClear
      BY <2>1, <3>3, <1>j DEF BeginBackClear
    <3> QED BY <2>4, <3>2, <3>3
  <2>5. CASE BeginUndo \/ BeginUndoClear
    BY <2>1, <2>5, <1>j DEF BeginUndo, BeginUndoClear
  <2> QED BY <1>6, <2>2, <2>3, <2>4, <2>5
<1>7. CASE \/ CommitMark \/ CommitUnpin \/ FinishClear
           \/ CompensateLedger \/ CompensateFiles \/ CompensateUnpin
  BY <1>7, <1>j DEF CommitMark, CommitUnpin, FinishClear, CompensateLedger, CompensateFiles,
     CompensateUnpin, UnchangedByJob
<1>8. CASE ReopenLedger \/ ReopenFiles \/ ReopenUnpin \/ ReopenClear
  BY <1>8, <1>j DEF ReopenLedger, ReopenFiles, ReopenUnpin, ReopenClear, GiveUp, UnchangedByJob
<1>9. CASE ApplyBusy \/ Reject
  BY <1>9 DEF ApplyBusy, UnchangedByUndo, Reject, durable
<1>10. CASE Finish
  <2>1. UNCHANGED <<conv, active>>
    BY <1>10 DEF Finish, durable
  <2>2. job'.kind \in {"commit", "compensate"}
    BY <1>10 DEF Finish, FinishKind
  <2> QED BY <2>1, <2>2
<1>11. CASE AskUndo \/ AskCommit \/ AskCompensate \/ Drop
  BY <1>11 DEF AskUndo, AskCommit, AskCompensate, Drop, HolderStep, durable
<1>12. CASE Crash
  BY <1>12, <1>j DEF Crash, durable
<1>13. CASE Reopen \/ ReopenBlind
  <2>1. UNCHANGED <<conv, active>>
    BY <1>13 DEF Reopen, ReopenBlind, UnchangedByReopen, durable
  <2>2. job'.kind \in {"none", "reopen"}
    BY <1>13, <1>j DEF Reopen, ReopenBlind, GiveUp, NoJob
  <2> QED BY <2>1, <2>2
<1>14. CASE UNCHANGED vars
  BY <1>14 DEF vars, durable, process
<1> QED BY <1>4, <1>5, <1>6, <1>7, <1>8, <1>9, <1>10, <1>11, <1>12, <1>13, <1>14
        DEF Next, Begins, Task, Control, Driver

\* A conversation that was misread stays where it is, and the read is the one
\* failure there is.
LEMMA TornStep ==
    ASSUME NEW r, Base, tx = {r}, Quiet(r), Quiet(r)', Torn(r), [Next]_vars
    PROVE  Torn(r)'
<1>1. conv' = conv /\ active' = 0 /\ job'.kind # "undo"
  BY QuietConv DEF Torn
<1>2. faults' = faults
  <2>1. faults \in Seq({"untouched", "replaced", "unread"}) /\ "unread" \in Range(faults)
    BY DEF Base, ControlTypes, Torn
  <2>2. Len(faults) \in Nat /\ Len(faults) >= 1
    BY <2>1 DEF Range
  <2>3. Len(faults') <= 1
    BY DEF Quiet
  <2> QED BY <2>2, <2>3, Counts
<1> QED BY <1>1, <1>2 DEF Torn, Crossed

\* A quiet step takes a quiet moment of the rewind to another.
LEMMA StageStep ==
    ASSUME NEW r, Moment(r), Quiet(r)', [Next]_vars
    PROVE  Stage(r)' \/ Torn(r)'
<1>0. tx # {} /\ active = 0 /\ nextTurn' = nextTurn /\ nextTurn \in Nat
  BY MomentFacts, QuietStep DEF Moment, Base, StoreTypes
<1>1. CASE Submit
  BY <1>0, <1>1 DEF Submit
<1>2. ASSUME NEW f \in Files, TurnWrites(f) PROVE Stage(r)'
  BY <1>0, <1>2 DEF TurnWrites
<1>3. CASE TurnEnds
  BY <1>0, <1>3 DEF TurnEnds
<1>4. ASSUME NEW t \in Turns, NEW s \in Scopes, Begin(t, s) PROVE Stage(r)'
  BY <1>0, <1>4 DEF Begin
<1>5. ASSUME NEW t \in Turns, NEW s \in Scopes, BeginRefused(t, s) PROVE Stage(r)'
  BY <1>5, StageBeginRefused
<1>6. CASE BeginJournal
  BY <1>6, StageBeginJournal
<1>7. CASE BeginFiles
  BY <1>7, StageBeginFiles
<1>8. CASE BeginFilesFail
  BY <1>8, StageBeginFilesFail
<1>9. CASE BeginBack
  BY <1>9, StageBeginBack
<1>10. CASE BeginBackClear
  BY <1>10, StageBeginBackClear
<1>11. CASE BeginLedger
  BY <1>11, StageBeginLedger
<1>12. CASE BeginUndo
  BY <1>12, StageBeginUndo
<1>13. CASE BeginUndoClear
  BY <1>13, StageBeginUndoClear
<1>14. CASE Rebuild
  BY <1>14, StageRebuild
<1>15. CASE CommitMark
  BY <1>15, StageCommitMark
<1>16. CASE CommitUnpin
  BY <1>16, StageCommitUnpin
<1>17. CASE CompensateLedger
  BY <1>17, StageCompensateLedger
<1>18. CASE CompensateFiles
  BY <1>18, StageCompensateFiles
<1>19. CASE CompensateUnpin
  BY <1>19, StageCompensateUnpin
<1>20. CASE FinishClear
  BY <1>20, StageFinishClear
<1>21. CASE ReopenLedger
  BY <1>21, StageReopenLedger
<1>22. CASE ReopenFiles
  BY <1>22, StageReopenFiles
<1>23. CASE ReopenUnpin
  BY <1>23, StageReopenUnpin
<1>24. CASE ReopenClear
  BY <1>24, StageReopenClear
<1>25. CASE Apply
  BY <1>25, StageApply
<1>26. CASE ApplyBusy
  BY <1>26, StageApplyBusy
<1>27. CASE ApplyFails
  BY <1>27, StageApplyFails
<1>28. CASE Finish
  BY <1>28, StageFinish
<1>29. CASE Reject
  BY <1>29, StageReject
<1>30. CASE AskUndo
  BY <1>30, StageAskUndo
<1>31. CASE AskCommit
  BY <1>31, StageAskCommit
<1>32. CASE AskCompensate
  BY <1>32, StageAskCompensate
<1>33. CASE Drop
  BY <1>33, StageDrop
<1>34. CASE Crash
  BY <1>34, StageCrash
<1>35. CASE Reopen
  BY <1>35, StageReopen
<1>36. CASE UNCHANGED vars
  BY <1>36, StageStutter
<1>37. CASE ReopenBlind
  BY <1>37, StageReopen
<1> QED BY <1>1, <1>2, <1>3, <1>4, <1>5, <1>6, <1>7, <1>8, <1>9, <1>10, <1>11, <1>12,
  <1>13, <1>14, <1>15, <1>16, <1>17, <1>18, <1>19, <1>20, <1>21, <1>22, <1>23, <1>24,
  <1>25, <1>26, <1>27, <1>28, <1>29, <1>30, <1>31, <1>32, <1>33, <1>34, <1>35, <1>36, <1>37 DEF
  Next, Begins, Task, Control, Driver

\* The invariant holds at the start, ...
LEMMA InitIInv == Init => IInv
BY BaseInit DEF Init, IInv

\* ... and every step keeps it.
LEMMA NextIInv == IInv /\ [Next]_vars => IInv'
<1> SUFFICES ASSUME IInv, [Next]_vars PROVE IInv'
  OBVIOUS
<1>1. Base /\ Base'
  BY BaseStep DEF IInv
<1>2. ASSUME NEW r \in tx', Quiet(r)' PROVE Stage(r)' \/ Torn(r)'
  <2>1. CASE tx = {}
    <3>1. PICK t \in Turns, s \in Scopes : Begin(t, s)
      BY <1>1, <1>2, <2>1, Counts
    <3> QED BY <1>1, <1>2, <3>1, StageBegin
  <2>2. CASE tx # {}
    <3>1. tx' = tx
      BY <1>1, <2>2, Counts DEF Begin
    <3>2. tx = {r} /\ IsReceipt(r) /\ r.next <= nextTurn
      BY <1>1, <1>2, <3>1 DEF Base, Sole, OneReceipt
    <3>3. nextTurn \in Nat /\ r.next \in Nat /\ Len(faults) \in Nat
      BY <1>1, <3>2 DEF Base, StoreTypes, ControlTypes, IsReceipt
    <3>4. nextTurn' \in {nextTurn, nextTurn + 1} /\ Len(faults') \in {Len(faults), Len(faults) + 1}
      BY <1>1, <3>3, Counts
    <3>5. nextTurn = r.next
      BY <1>2, <3>2, <3>3, <3>4 DEF Quiet
    <3>6. Len(faults) <= 1
      BY <1>2, <3>3, <3>4 DEF Quiet
    <3>7. Quiet(r)
      BY <3>5, <3>6 DEF Quiet
    <3>8. CASE Stage(r)
      <4>1. Moment(r)
        BY <1>1, <3>2, <3>7, <3>8 DEF Moment
      <4> QED BY <1>2, <4>1, StageStep
    <3>9. CASE Torn(r)
      BY <1>1, <1>2, <3>2, <3>7, <3>9, TornStep
    <3> QED BY <3>2, <3>7, <3>8, <3>9 DEF IInv
  <2> QED BY <2>1, <2>2
<1> QED BY <1>1, <1>2 DEF IInv

-----------------------------------------------------------------------------
(* The theorems.                                                           *)

\* The inductive invariant holds of every behaviour.
THEOREM Invariant == Spec => []IInv
<1>1. Init => IInv
  BY InitIInv
<1>2. IInv /\ [Next]_vars => IInv'
  BY NextIInv
<1> QED BY <1>1, <1>2, PTL DEF Spec

\* Every variable has its type, and there are never two receipts or two
\* journal entries.
THEOREM TypeCorrect == Spec => []TypeOK
<1>1. ASSUME IInv PROVE TypeOK
  <2>0. Cardinality({}) <= 1 /\ \A r : Cardinality({r}) <= 1
    <3>1. Cardinality({}) = 0 /\ \A r : Cardinality({r}) = 1
      BY FS_EmptySet, FS_Singleton
    <3>2. \A c : c \in {0, 1} => c <= 1
      OBVIOUS
    <3>3. Cardinality({}) \in {0, 1} /\ \A r : Cardinality({r}) \in {0, 1}
      BY <3>1
    <3> QED BY <3>2, <3>3, Zenon
  <2>1. Base
    BY <1>1 DEF IInv
  <2>2. Cardinality(tx) <= 1
    <3>1. tx = {} \/ \E r : tx = {r}
      BY <2>1 DEF Base, Sole, OneReceipt
    <3> QED BY <2>0, <3>1
  <2>3. Cardinality(journal) <= 1
    <3>1. journal = {} \/ \E r : journal = {r}
      BY <2>1 DEF Base, Sole, ItsJournal, Open, Closed
    <3> QED BY <2>0, <3>1
  <2>4. {conv, ledger, points} \subseteq Seq(Turns)
    BY <2>1 DEF Base, StoreTypes
  <2>5. phase \in {"Ready", "Reconfiguring", "InTurn", "Failed", "Broken", "Down", "Opening"}
    BY <2>1 DEF Base, ControlTypes, Phases
  <2>6. unavailable \in BOOLEAN
    BY <2>1 DEF Base, ControlTypes
  <2>7. /\ files \in Tree /\ shots \in [Turns -> [before : Tree, after : Tree]]
        /\ refs \subseteq Turns /\ pin \in {"none", "pinned", "loose", "gone"}
        /\ active \in 0..MaxTurns
    BY <2>1 DEF Base, StoreTypes
  <2> QED BY <2>2, <2>3, <2>4, <2>5, <2>6, <2>7 DEF TypeOK
<1> QED BY <1>1, Invariant, PTL

\* Whatever crashed, failed once or was abandoned on the way, a rewind is
\* settled with the three stores taken back, or with the conversation and the
\* worktree as they were and the points of the old or the cut ledger; but when
\* the one failure was recovery's read of a conversation that had crossed, all
\* that is known is that the conversation is taken back.
THEOREM RewindAtomic == Spec => []AllOrNothing
<1>1. ASSUME IInv, Settled, Len(faults) <= 1
      PROVE  Old(Receipt) \/ New(Receipt) \/ (Crossed(Receipt) /\ "unread" \in Range(faults))
  <2>1. tx = {Receipt}
    BY <1>1, Handles DEF IInv, Base, Settled
  <2>2. Quiet(Receipt) /\ journal = {}
    BY <1>1 DEF Settled, Quiet
  <2>3. Stage(Receipt) \/ Torn(Receipt)
    BY <1>1, <2>1, <2>2 DEF IInv
  <2> QED BY <2>2, <2>3 DEF Stage, Durable, Torn
<1>2. IInv => AllOrNothing
  BY <1>1 DEF AllOrNothing, Old, New, Ledgers, Cut, Crossed
<1> QED BY <1>2, Invariant, PTL

\* While the journal may still ask for the way back, and a file is not as it
\* was before the rewind, the recovery tree has not been collected.
THEOREM RecoveryTreeKept == Spec => []RecoveryKept
<1>1. ASSUME IInv, NEW j \in journal, ~j.committed, ~Crossed(j.tx), Len(faults) <= 1,
             nextTurn = j.tx.next, NEW f \in j.tx.restored, files[f] # j.tx.recovery[f]
      PROVE  pin # "gone"
  <2>1. PICK r \in tx : Open(r) \/ Closed(r)
    BY <1>1 DEF IInv, Base, Sole, ItsJournal
  <2>2. j.tx = r /\ Open(r)
    BY <1>1, <2>1 DEF Open, Closed
  <2>3. Quiet(r)
    BY <1>1, <2>2 DEF Quiet
  <2>4. Durable(r)
    BY <1>1, <2>1, <2>2, <2>3 DEF IInv, Stage, Torn
  <2>5. Pinned(r)
    BY <1>1, <2>2, <2>4 DEF Durable
  <2> QED BY <1>1, <2>2, <2>5 DEF Pinned
<1>2. IInv => RecoveryKept
  BY <1>1 DEF RecoveryKept
<1> QED BY <1>2, Invariant, PTL
=============================================================================
