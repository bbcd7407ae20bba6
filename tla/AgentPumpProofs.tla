-------------------------- MODULE AgentPumpProofs --------------------------
(***************************************************************************)
(* Proofs about AgentPump: what a stop does to the turn it is for and what *)
(* becomes of every message, for every number of messages, rounds and      *)
(* commands.                                                               *)
(*                                                                         *)
(* The inductive invariant has two halves.  Control follows a stop through *)
(* the accesses that the pump and the turn make to the same flags: which   *)
(* task may run beside the pump's handling of a Cancel (OneTask), what the *)
(* agent's status tells about the turn (StatusInv), and where the stop is  *)
(* kept from the moment it is read until the turn is over: in the flag     *)
(* cancel_ahead while the turn has not opened, in the fired token after    *)
(* (Held, Fired).  Accounts follows the messages: no queue holds one twice *)
(* (Sole), and a message is in the driver's channel, the inbox or the      *)
(* turn's claim, in one of them alone, exactly while it is open (Placed).  *)
(* Beside it, for the types, Bounds counts what the driver asked for and   *)
(* the requests a turn puts to the model.                                  *)
(***************************************************************************)
EXTENDS AgentPump, FiniteSetTheorems, FunctionTheorems, SequenceTheorems,
        WellFoundedInduction, TLAPS

\* Turns that have not looked for a stop held for them, and turns that have
\* and can still put a request to the model.
Early == {"spawned", "token", "status", "ahead"}
Running == {"opened", "claim", "keep", "request", "exec", "asking", "insert",
            "waiting", "yield"}
\* Where the agent is idle, and where its turn has minted its token.
AtRest == {"none", "spawned", "token", "status", "done"}

\* The pump is past the point at which interrupt_started holds the stop.
PastAhead == {"mark", "look", "move", "fire", "sweep"}

\* The types the argument needs; turn and compaction are records.
ControlTypes ==
    /\ status \in {"Idle", "Working", "Stopping"}
    /\ pump \in [pc : PumpPcs, down : BOOLEAN]
    /\ DOMAIN turn = DOMAIN NoTurn /\ turn.pc \in TurnPcs /\ turn.step \in Nat
    /\ DOMAIN compaction = {"pc", "stop"} /\ compaction.pc \in {"none", "running", "ended"}

\* The pump runs a turn or a compaction, never both.
OneTask == turn.pc = "none" \/ compaction.pc = "none"

\* Only a shutdown takes the pump out of its loop for good.
DownInv == /\ pump.pc \in {"drain", "ended"} => pump.down
           /\ pump.down => pump.pc \in {"look", "move", "fire", "sweep", "drain", "ended"}
           /\ turn.pc = "aborted" => pump.pc = "ended"

\* The agent is idle exactly when its turn has not opened, or is over.
StatusInv == turn.pc # "aborted" => (status = "Idle" <=> turn.pc \in AtRest)

\* A stop is for a turn the pump has a handle of, and a token is only fired
\* for a turn whose stop was read or by a shutdown.
StopInv == /\ stopping => turn.pc # "none"
           /\ stopped => stopping
           /\ ahead => stopping
           /\ pump.pc = "ahead" => stopping
           /\ pump.pc \in PastAhead => stopping \/ pump.down \/ turn.pc = "none"
           /\ pump.pc \in {"move", "fire"} =>
                turn.pc \notin {"none", "spawned", "token", "status"}
           /\ cancelled => \/ stopping \/ pump.down
                           \/ turn.pc \in {"none", "spawned", "token", "done"}
           /\ (stopping /\ pump.pc = "loop") => stopped

\* The stop is held for a turn that has not opened ...
Held == (turn.pc \in Early /\ (stopped \/ (stopping /\ pump.pc \in PastAhead))) => ahead

\* ... and has fired the token of one that has.
Fired == (turn.pc \in Running /\ (stopped \/ (stopping /\ pump.pc = "sweep"))) => cancelled

\* A turn holds what it claimed between the claim and the commit alone, and
\* holds no context without a message.
ClaimInv == /\ turn.pc # "keep" => turn.msg = None
            /\ turn.msg = None => turn.inj = {}

Control == /\ ControlTypes /\ OneTask /\ DownInv /\ StatusInv /\ StopInv
           /\ Held /\ Fired /\ ClaimInv

-----------------------------------------------------------------------------
(* Induction over the naturals, by a set: the least number principle.      *)

LessThan == {p \in Nat \X Nat : p[1] < p[2]}

\* The order of the naturals is well founded.
LEMMA LessThanWellFounded == IsWellFoundedOn(LessThan, Nat)
<1>1. LessThan = OpToRel(<, Nat)
  BY Zenon DEF LessThan, OpToRel
<1> QED BY <1>1, NatLessThanWellFounded, Zenon

\* A set of naturals that is not empty has a least element.
LEMMA Least ==
    ASSUME NEW T, T \subseteq Nat, T # {}
    PROVE  \E m \in T : \A k \in T : m <= k
<1>1. PICK m \in T : \A k \in T : ~(<<k, m>> \in LessThan)
  BY LessThanWellFounded, WFMin
<1>2. \A k \in T : ~(k < m)
  BY <1>1 DEF LessThan
<1>3. \A k \in T : m <= k
  BY <1>2
<1> QED BY <1>3

\* Induction, for a property that is a set.
LEMMA Induction ==
    ASSUME NEW T, 0 \in T, \A n \in Nat : n \in T => n + 1 \in T
    PROVE  Nat \subseteq T
<1> DEFINE B == Nat \ T
<1> SUFFICES ASSUME B # {} PROVE FALSE
  OBVIOUS
<1>1. B \subseteq Nat
  OBVIOUS
<1> HIDE DEF B
<1>2. PICK m \in B : \A k \in B : m <= k
  BY <1>1, Least
<1>3. m \in Nat /\ m \notin T
  BY DEF B
<1>4. m - 1 \in Nat /\ m - 1 \notin B
  BY <1>2, <1>3
<1>5. m - 1 \in T
  BY <1>4 DEF B
<1> QED BY <1>3, <1>4, <1>5

\* Inbox::claim finds the first message of an inbox that has one.
LEMMA FirstMessageFound ==
    ASSUME NEW S, inbox \in Seq(S), HasWakingInput
    PROVE  /\ FirstMessage \in DOMAIN inbox /\ IsMessage(inbox[FirstMessage])
           /\ \A k \in 1..(FirstMessage - 1) : ~IsMessage(inbox[k])
<1> DEFINE T == {i \in DOMAIN inbox : IsMessage(inbox[i])}
<1>1. DOMAIN inbox = 1..Len(inbox) /\ Len(inbox) \in Nat
  OBVIOUS
<1>2. T \subseteq Nat /\ T # {}
  BY <1>1 DEF HasWakingInput
<1>3. PICK i \in T : \A k \in T : i <= k
  <2> HIDE DEF T
  <2> QED BY <1>2, Least
<1>4. \A k \in 1..(i - 1) : k \in DOMAIN inbox /\ ~(i <= k)
  BY <1>1, <1>3
<1>5. i \in DOMAIN inbox /\ IsMessage(inbox[i]) /\ \A k \in 1..(i - 1) : ~IsMessage(inbox[k])
  BY <1>3, <1>4
<1> HIDE DEF T
<1> QED BY <1>5 DEF FirstMessage

-----------------------------------------------------------------------------
(* The queues: which messages they hold, each once.                        *)

Everyone == Msgs \cup Peers
Item == {Message(m) : m \in Everyone} \cup {Context(m) : m \in Peers}

Has(q, m) == \E i \in DOMAIN q : q[i].id = m
Distinct(q) == \A i, j \in DOMAIN q : q[i].id = q[j].id => i = j

SentIn(q, m) == \E i \in DOMAIN q : q[i].type = "Send" /\ q[i].msg = m
SentOnce(q) == \A i, j \in DOMAIN q :
                  (q[i].type = "Send" /\ q[j].type = "Send" /\ q[i].msg = q[j].msg) => i = j

\* What an item of the inbox is.
LEMMA ItemFacts ==
    /\ \A x \in Item : /\ x.id \in Everyone /\ x.id # None
                       /\ x.kind \in {"message", "context"}
                       /\ x.kind = "context" => x.id \in Peers
    /\ \A m \in Everyone : Message(m) \in Item /\ Message(m).id = m
    /\ \A m \in Peers : Context(m) \in Item /\ Context(m).id = m
<1>1. \A m : Message(m).id = m /\ Message(m).kind = "message"
  BY DEF Message
<1>2. \A m : Context(m).id = m /\ Context(m).kind = "context"
  BY DEF Context
<1>3. \A x \in Item : \/ \E m \in Everyone : x = Message(m)
                      \/ \E m \in Peers : x = Context(m)
  BY DEF Item
<1>4. Peers \subseteq Everyone /\ None \notin Everyone
  BY PumpAssumption DEF Everyone
<1>5. /\ \A m \in Everyone : Message(m) \in Item
      /\ \A m \in Peers : Context(m) \in Item
  BY DEF Item
<1> QED BY <1>1, <1>2, <1>3, <1>4, <1>5

\* What a command is.
LEMMA CommandFacts ==
    /\ \A c \in Commands : c.type = "Send" => c.msg \in Msgs
    /\ \A m \in Msgs : Send(m) \in Commands /\ Send(m).type = "Send" /\ Send(m).msg = m
    /\ \A c \in Requests : c \in Commands /\ c.type # "Send"
<1>1. \A m \in Msgs : Send(m) \in Commands /\ Send(m).type = "Send" /\ Send(m).msg = m
  BY DEF Commands, Send
<1>2. ASSUME NEW c \in Requests PROVE c \in Commands /\ c.type # "Send"
  <2>1. PICK t \in {"Cancel", "Snapshot", "Compact", "Respond", "Shutdown"} : c = Plain(t)
    BY DEF Requests
  <2>2. c.type = t
    BY <2>1 DEF Plain
  <2> QED BY <2>2 DEF Commands
<1>3. ASSUME NEW c \in Commands, c.type = "Send" PROVE c.msg \in Msgs
  <2>1. c \notin Requests
    BY <1>2, <1>3
  <2>2. PICK m \in Msgs : c = Send(m)
    BY <2>1 DEF Commands
  <2> QED BY <1>1, <2>2
<1> QED BY <1>1, <1>2, <1>3

\* push_back
LEMMA HasAppend ==
    ASSUME NEW S, NEW q \in Seq(S), NEW x \in S
    PROVE  /\ Append(q, x) \in Seq(S)
           /\ \A m : Has(Append(q, x), m) <=> (Has(q, m) \/ x.id = m)
           /\ (Distinct(q) /\ ~Has(q, x.id)) => Distinct(Append(q, x))
<1> DEFINE r == Append(q, x)
<1>1. /\ r \in Seq(S) /\ Len(q) \in Nat /\ DOMAIN q = 1..Len(q) /\ DOMAIN r = 1..(Len(q) + 1)
      /\ r[Len(q) + 1] = x /\ \A k \in 1..Len(q) : r[k] = q[k]
  OBVIOUS
<1>2. \A k \in DOMAIN r : k \in DOMAIN q \/ k = Len(q) + 1
  BY <1>1
<1>3. Len(q) + 1 \in DOMAIN r /\ DOMAIN q \subseteq DOMAIN r
  BY <1>1
<1> HIDE DEF r
<1>4. \A m : Has(r, m) <=> (Has(q, m) \/ x.id = m)
  BY <1>1, <1>2, <1>3 DEF Has
<1>5. (Distinct(q) /\ ~Has(q, x.id)) => Distinct(r)
  BY <1>1, <1>2, <1>3 DEF Has, Distinct
<1> QED BY <1>1, <1>4, <1>5 DEF r

\* The driver's channel: send ...
LEMMA SentAppend ==
    ASSUME NEW S, NEW q \in Seq(S), NEW c \in S
    PROVE  /\ Append(q, c) \in Seq(S)
           /\ \A m : SentIn(Append(q, c), m) <=> (SentIn(q, m) \/ (c.type = "Send" /\ c.msg = m))
           /\ (SentOnce(q) /\ (c.type = "Send" => ~SentIn(q, c.msg))) => SentOnce(Append(q, c))
<1> DEFINE r == Append(q, c)
<1>1. /\ r \in Seq(S) /\ Len(q) \in Nat /\ DOMAIN q = 1..Len(q) /\ DOMAIN r = 1..(Len(q) + 1)
      /\ r[Len(q) + 1] = c /\ \A k \in 1..Len(q) : r[k] = q[k]
  OBVIOUS
<1>2. \A k \in DOMAIN r : k \in DOMAIN q \/ k = Len(q) + 1
  BY <1>1
<1>3. Len(q) + 1 \in DOMAIN r /\ DOMAIN q \subseteq DOMAIN r
  BY <1>1
<1> HIDE DEF r
<1>4. \A m : SentIn(r, m) <=> (SentIn(q, m) \/ (c.type = "Send" /\ c.msg = m))
  BY <1>1, <1>2, <1>3 DEF SentIn
<1>5. (SentOnce(q) /\ (c.type = "Send" => ~SentIn(q, c.msg))) => SentOnce(r)
  BY <1>1, <1>2, <1>3 DEF SentIn, SentOnce
<1> QED BY <1>1, <1>4, <1>5 DEF r

\* ... and recv.
LEMMA SentTail ==
    ASSUME NEW S, NEW q \in Seq(S), q # <<>>
    PROVE  /\ Head(q) \in S /\ Tail(q) \in Seq(S)
           /\ \A m : SentIn(q, m) <=> \/ SentIn(Tail(q), m)
                                      \/ Head(q).type = "Send" /\ Head(q).msg = m
           /\ SentOnce(q) => /\ SentOnce(Tail(q))
                             /\ Head(q).type = "Send" => ~SentIn(Tail(q), Head(q).msg)
<1> DEFINE r == Tail(q)
<1>1. /\ Len(q) \in Nat /\ Len(q) > 0 /\ DOMAIN q = 1..Len(q) /\ DOMAIN r = 1..(Len(q) - 1)
      /\ Head(q) = q[1] /\ \A k \in 1..(Len(q) - 1) : r[k] = q[k + 1]
  OBVIOUS
<1>2. Head(q) \in S /\ r \in Seq(S)
  BY <1>1
<1>3. \A k \in DOMAIN r : k + 1 \in DOMAIN q /\ r[k] = q[k + 1] /\ k + 1 # 1
  BY <1>1
<1>4. \A k \in DOMAIN q : k = 1 \/ (k - 1 \in DOMAIN r /\ r[k - 1] = q[k])
  BY <1>1
<1>5. 1 \in DOMAIN q /\ \A k, l \in DOMAIN r : k + 1 = l + 1 => k = l
  BY <1>1
<1>6. Head(q) = q[1]
  BY <1>1
<1> HIDE DEF r
<1>7. \A m : SentIn(q, m) <=> (SentIn(r, m) \/ (q[1].type = "Send" /\ q[1].msg = m))
  BY <1>3, <1>4, <1>5 DEF SentIn
<1>8. SentOnce(q) => SentOnce(r) /\ (q[1].type = "Send" => ~SentIn(r, q[1].msg))
  BY <1>3, <1>5 DEF SentOnce, SentIn
<1> QED BY <1>2, <1>6, <1>7, <1>8 DEF r

\* Notes queued behind what is kept.
LEMMA HasConcat ==
    ASSUME NEW S, NEW q \in Seq(S), NEW s \in Seq(S)
    PROVE  /\ q \o s \in Seq(S)
           /\ \A m : Has(q \o s, m) <=> (Has(q, m) \/ Has(s, m))
           /\ (Distinct(q) /\ Distinct(s) /\ \A m : ~(Has(q, m) /\ Has(s, m))) => Distinct(q \o s)
<1> DEFINE r == q \o s
<1>1. /\ Len(q) \in Nat /\ DOMAIN q = 1..Len(q) /\ Len(s) \in Nat /\ DOMAIN s = 1..Len(s)
      /\ DOMAIN r = 1..(Len(q) + Len(s)) /\ r \in Seq(S)
      /\ \A k \in DOMAIN r : r[k] = IF k <= Len(q) THEN q[k] ELSE s[k - Len(q)]
  OBVIOUS
<1>2. \A k \in DOMAIN r : \/ k \in DOMAIN q /\ r[k] = q[k]
                          \/ k \notin DOMAIN q /\ k - Len(q) \in DOMAIN s /\ r[k] = s[k - Len(q)]
  BY <1>1
<1>3. \A k \in DOMAIN q : k \in DOMAIN r /\ r[k] = q[k]
  BY <1>1
<1>4. \A k \in DOMAIN s : k + Len(q) \in DOMAIN r /\ r[k + Len(q)] = s[k]
  BY <1>1
<1>5. \A k, l \in DOMAIN r : k - Len(q) = l - Len(q) => k = l
  BY <1>1
<1> HIDE DEF r
<1>6. \A m : Has(r, m) <=> (Has(q, m) \/ Has(s, m))
  BY <1>2, <1>3, <1>4 DEF Has
<1>7. (Distinct(q) /\ Distinct(s) /\ \A m : ~(Has(q, m) /\ Has(s, m))) => Distinct(r)
  <2> SUFFICES ASSUME Distinct(q), Distinct(s), \A m : ~(Has(q, m) /\ Has(s, m)),
                      NEW k \in DOMAIN r, NEW l \in DOMAIN r, r[k].id = r[l].id
               PROVE  k = l
    BY DEF Distinct
  <2>1. CASE k \in DOMAIN q /\ l \in DOMAIN q
    BY <1>3, <2>1 DEF Distinct
  <2>2. CASE k \notin DOMAIN q /\ l \notin DOMAIN q
    BY <1>2, <1>5, <2>2 DEF Distinct
  <2>3. CASE k \in DOMAIN q /\ l \notin DOMAIN q
    <3>1. Has(q, r[k].id) /\ Has(s, r[k].id)
      BY <1>2, <2>3 DEF Has
    <3> QED BY <3>1
  <2>4. CASE k \notin DOMAIN q /\ l \in DOMAIN q
    <3>1. Has(q, r[k].id) /\ Has(s, r[k].id)
      BY <1>2, <2>4 DEF Has
    <3> QED BY <3>1
  <2> QED BY <2>1, <2>2, <2>3, <2>4
<1> QED BY <1>1, <1>6, <1>7 DEF r

\* A function that computes the filter of OfKind on the first n items.
Filters(f, q, kind, n) ==
    /\ f[0] = <<>>
    /\ \A i \in 1..n : f[i] = IF q[i].kind = kind THEN Append(f[i - 1], q[i]) ELSE f[i - 1]
Filtered(S, q, kind, n) == \E f \in [0..n -> Seq(S)] : Filters(f, q, kind, n)

\* There is one, by induction on n.
LEMMA FilterExists ==
    ASSUME NEW S, NEW q \in Seq(S), NEW kind
    PROVE  Filtered(S, q, kind, Len(q))
<1> DEFINE T == {n \in Nat : n <= Len(q) => Filtered(S, q, kind, n)}
<1>1. Len(q) \in Nat /\ DOMAIN q = 1..Len(q) /\ \A i \in 1..Len(q) : q[i] \in S
  OBVIOUS
<1>2. Filtered(S, q, kind, 0)
  <2> DEFINE f == [i \in 0..0 |-> <<>>]
  <2>1. f \in [0..0 -> Seq(S)] /\ f[0] = <<>>
    OBVIOUS
  <2> HIDE DEF f
  <2>2. \A i \in 1..0 : FALSE
    OBVIOUS
  <2> QED BY <2>1, <2>2 DEF Filtered, Filters
<1>3. ASSUME NEW n \in Nat, n + 1 <= Len(q), Filtered(S, q, kind, n)
      PROVE  Filtered(S, q, kind, n + 1)
  <2>1. PICK g \in [0..n -> Seq(S)] : Filters(g, q, kind, n)
    BY <1>3 DEF Filtered
  <2> DEFINE last == IF q[n + 1].kind = kind THEN Append(g[n], q[n + 1]) ELSE g[n]
             f == [i \in 0..(n + 1) |-> IF i = n + 1 THEN last ELSE g[i]]
  <2>2. g[n] \in Seq(S) /\ q[n + 1] \in S
    BY <1>1, <1>3
  <2>3. last \in Seq(S)
    BY <2>2
  <2> HIDE DEF last
  <2>4. f \in [0..(n + 1) -> Seq(S)]
    BY <2>3
  <2>5. f[n + 1] = last /\ \A i \in 0..n : f[i] = g[i]
    OBVIOUS
  <2> HIDE DEF f
  <2>6. f[0] = <<>>
    BY <2>1, <2>5 DEF Filters
  <2>7. ASSUME NEW i \in 1..(n + 1)
        PROVE  f[i] = IF q[i].kind = kind THEN Append(f[i - 1], q[i]) ELSE f[i - 1]
    <3>1. CASE i = n + 1
      <4>1. i - 1 = n /\ f[n] = g[n]
        BY <2>5, <3>1
      <4> QED BY <2>5, <3>1, <4>1 DEF last
    <3>2. CASE i # n + 1
      <4>1. i \in 1..n /\ i \in 0..n /\ i - 1 \in 0..n
        BY <3>2
      <4>2. g[i] = IF q[i].kind = kind THEN Append(g[i - 1], q[i]) ELSE g[i - 1]
        BY <2>1, <4>1 DEF Filters
      <4>3. f[i] = g[i] /\ f[i - 1] = g[i - 1]
        BY <2>5, <4>1
      <4> QED BY <4>2, <4>3
    <3> QED BY <3>1, <3>2
  <2> QED BY <2>4, <2>6, <2>7 DEF Filtered, Filters
<1>4. 0 \in T
  BY <1>2
<1>5. \A n \in Nat : n \in T => n + 1 \in T
  BY <1>1, <1>3
<1>6. Nat \subseteq T
  <2> HIDE DEF T
  <2> QED BY <1>4, <1>5, Induction
<1> QED BY <1>1, <1>6

\* OfKind is the last value of such a function.
LEMMA OfKindFilters ==
    ASSUME NEW S, NEW q \in Seq(S), NEW kind
    PROVE  \E f : Filters(f, q, kind, Len(q)) /\ f[Len(q)] = OfKind(q, kind)
<1> DEFINE Def(f) == [n \in 0..Len(q) |->
                        IF n = 0 THEN <<>>
                        ELSE IF q[n].kind = kind THEN Append(f[n - 1], q[n])
                        ELSE f[n - 1]]
           kept == CHOOSE f : f = Def(f)
<1>1. Len(q) \in Nat
  OBVIOUS
<1>2. PICK g \in [0..Len(q) -> Seq(S)] : Filters(g, q, kind, Len(q))
  BY FilterExists DEF Filtered
<1>3. g = Def(g)
  <2>1. \A n \in 0..Len(q) : n = 0 \/ n \in 1..Len(q)
    BY <1>1
  <2>2. \A n \in 0..Len(q) : g[n] = Def(g)[n]
    BY <1>2, <2>1 DEF Filters
  <2> QED BY <1>2, <2>2
<1>4. kept = Def(kept)
  BY <1>3
<1>5. OfKind(q, kind) = kept[Len(q)]
  BY DEF OfKind
<1> HIDE DEF kept
<1>6. Filters(kept, q, kind, Len(q))
  <2>1. \A n \in 0..Len(q) : kept[n] = IF n = 0 THEN <<>>
                                       ELSE IF q[n].kind = kind THEN Append(kept[n - 1], q[n])
                                       ELSE kept[n - 1]
    BY <1>4
  <2>2. 0 \in 0..Len(q) /\ \A n \in 1..Len(q) : n \in 0..Len(q) /\ n # 0
    BY <1>1
  <2> QED BY <2>1, <2>2 DEF Filters
<1> QED BY <1>5, <1>6

\* What such a function keeps of the first n items.
Keeps(S, r, q, kind, n) ==
    /\ r \in Seq(S)
    /\ \A m : Has(r, m) <=> \E i \in 1..n : q[i].kind = kind /\ q[i].id = m
    /\ Distinct(q) => Distinct(r)

\* Inbox::claim_injections and Inbox::withdraw_messages: what is left is
\* exactly what is of the other kind.
LEMMA OfKindFacts ==
    ASSUME NEW S, NEW q \in Seq(S), NEW kind
    PROVE  Keeps(S, OfKind(q, kind), q, kind, Len(q))
<1>1. PICK f : Filters(f, q, kind, Len(q)) /\ f[Len(q)] = OfKind(q, kind)
  BY OfKindFilters
<1> DEFINE T == {n \in Nat : n <= Len(q) => Keeps(S, f[n], q, kind, n)}
<1>2. Len(q) \in Nat /\ DOMAIN q = 1..Len(q) /\ \A i \in 1..Len(q) : q[i] \in S
  OBVIOUS
<1>3. Keeps(S, f[0], q, kind, 0)
  <2>1. f[0] = <<>>
    BY <1>1 DEF Filters
  <2>2. \A i \in 1..0 : FALSE
    OBVIOUS
  <2>3. <<>> \in Seq(S) /\ DOMAIN <<>> = {}
    OBVIOUS
  <2> QED BY <2>1, <2>2, <2>3 DEF Keeps, Has, Distinct
<1>4. ASSUME NEW n \in Nat, n + 1 <= Len(q), Keeps(S, f[n], q, kind, n)
      PROVE  Keeps(S, f[n + 1], q, kind, n + 1)
  <2> DEFINE x == q[n + 1]
  <2>1. n + 1 \in 1..Len(q) /\ x \in S /\ n = (n + 1) - 1
    BY <1>2, <1>4
  <2>2. f[n + 1] = IF x.kind = kind THEN Append(f[n], x) ELSE f[n]
    BY <1>1, <2>1 DEF Filters
  <2>3. \A i \in 1..(n + 1) : i \in 1..n \/ i = n + 1
    OBVIOUS
  <2>4. 1..n \subseteq 1..(n + 1) /\ n + 1 \in 1..(n + 1) /\ n + 1 \notin 1..n
    OBVIOUS
  <2>5. CASE x.kind = kind
    <3>1. f[n] \in Seq(S) /\ f[n + 1] = Append(f[n], x)
      BY <1>4, <2>2, <2>5 DEF Keeps
    <3>2. \A m : Has(f[n + 1], m) <=> (Has(f[n], m) \/ x.id = m)
      BY <2>1, <3>1, HasAppend
    <3>3. \A m : Has(f[n + 1], m) <=> \E i \in 1..(n + 1) : q[i].kind = kind /\ q[i].id = m
      BY <1>4, <2>3, <2>4, <2>5, <3>2 DEF Keeps
    <3>4. Distinct(q) => ~Has(f[n], x.id)
      <4>1. 1..n \subseteq DOMAIN q /\ n + 1 \in DOMAIN q
        BY <1>2, <1>4
      <4> QED BY <1>4, <2>4, <4>1 DEF Keeps, Distinct
    <3>5. Distinct(q) => Distinct(f[n + 1])
      BY <1>4, <2>1, <3>1, <3>4, HasAppend DEF Keeps
    <3>6. f[n + 1] \in Seq(S)
      BY <2>1, <3>1
    <3> QED BY <3>3, <3>5, <3>6 DEF Keeps
  <2>6. CASE x.kind # kind
    <3>1. f[n + 1] = f[n]
      BY <2>2, <2>6
    <3> QED BY <1>4, <2>3, <2>4, <2>6, <3>1 DEF Keeps
  <2> QED BY <2>5, <2>6
<1>5. 0 \in T
  BY <1>3
<1>6. \A n \in Nat : n \in T => n + 1 \in T
  BY <1>2, <1>4
<1>7. Nat \subseteq T
  <2> HIDE DEF T
  <2> QED BY <1>5, <1>6, Induction
<1> QED BY <1>1, <1>2, <1>7

\* Agent::note: reports become context, each once.
LEMMA InjectionFacts ==
    ASSUME NEW ps, ps \subseteq Peers
    PROVE  /\ AsInjections(ps) \in Seq(Item)
           /\ \A m : Has(AsInjections(ps), m) <=> m \in ps
           /\ Distinct(AsInjections(ps))
<1> DEFINE C == {Context(p) : p \in ps}
           n == Cardinality(C)
           r == AsInjections(ps)
<1>1. IsFiniteSet(C)
  <2> DEFINE g == [p \in ps |-> Context(p)]
  <2>1. IsFiniteSet(ps)
    BY PumpAssumption, FS_Subset
  <2>2. g \in Surjection(ps, C)
    BY DEF Surjection
  <2> HIDE DEF g, C
  <2> QED BY <2>1, <2>2, FS_Surjection
<1>2. n \in Nat /\ ExistsBijection(1..n, C)
  <2> HIDE DEF C
  <2> QED BY <1>1, FS_CardinalityType
<1>3. \E f \in [1..n -> C] : IsInjective(f)
  <2> HIDE DEF C, n
  <2> QED BY <1>2 DEF ExistsBijection, Bijection, Injection, IsInjective
<1>4. r = SetToSeq(C)
  BY DEF AsInjections
<1> HIDE DEF C, r
<1>5. r \in [1..n -> C] /\ IsInjective(r)
  BY <1>3, <1>4 DEF SetToSeq
<1> HIDE DEF n
<1>6. r \in Injection(1..n, C)
  BY <1>5 DEF Injection, IsInjective
<1>7. r \in Surjection(1..n, C)
  <2>1. Cardinality(1..n) = n
    BY <1>2, FS_Interval
  <2> QED BY <1>1, <1>6, <2>1, FS_Injection DEF n
<1>8. /\ DOMAIN r = 1..n /\ \A i \in 1..n : r[i] \in C
      /\ \A c \in C : \E i \in 1..n : r[i] = c
      /\ \A i, j \in 1..n : r[i] = r[j] => i = j
  BY <1>5, <1>7 DEF Surjection, IsInjective
<1>9. /\ C \subseteq Item
      /\ \A c \in C : c.id \in ps /\ c = Context(c.id)
      /\ \A p \in ps : Context(p) \in C /\ Context(p).id = p
  BY ItemFacts DEF C
<1>10. r \in Seq(Item)
  BY <1>2, <1>5, <1>9
<1>11. \A m : Has(r, m) <=> m \in ps
  BY <1>8, <1>9 DEF Has
<1>12. Distinct(r)
  BY <1>8, <1>9 DEF Distinct
<1> QED BY <1>10, <1>11, <1>12 DEF r

-----------------------------------------------------------------------------
(* The steps.                                                              *)

\* What the invariant reads.
control == <<status, cancelled, ahead, pump, turn, compaction, stopping, stopped>>

\* A step that changes none of it.
LEMMA QuietKeeps == ASSUME Control, UNCHANGED control PROVE Control'
BY DEF Control, control, ControlTypes, OneTask, DownInv, StatusInv, StopInv, Held, Fired, ClaimInv

\* What the pump starts: a turn when no task runs, or when one has ended.
LEMMA SpawnKeeps ==
    ASSUME Control, pump.pc = "loop", turn.pc \in {"none", "done"}, stopping' = FALSE,
           stopped' = FALSE, ahead' = FALSE, UNCHANGED <<status, cancelled, pump>>,
           \/ Spawn /\ compaction'.pc = "none"
           \/ turn' = NoTurn,
           DOMAIN compaction' = {"pc", "stop"},
           compaction'.pc \in {"none", "running", "ended"}
    PROVE  Control'
<1>1. turn'.pc \in {"none", "spawned"} /\ (turn'.pc = "spawned" => compaction'.pc = "none")
  BY DEF Spawn, NoTurn
<1>2. DOMAIN turn' = DOMAIN NoTurn /\ turn'.step = 0 /\ turn'.msg = None /\ turn'.inj = {}
  BY DEF Spawn, NoTurn
<1>3. ControlTypes' /\ OneTask' /\ ClaimInv'
  BY <1>1, <1>2 DEF Control, ControlTypes, OneTask, ClaimInv, TurnPcs
<1>4. status = "Idle" /\ ~pump.down
  BY DEF Control, StatusInv, AtRest, DownInv
<1>5. DownInv' /\ StatusInv' /\ StopInv' /\ Held' /\ Fired'
  BY <1>1, <1>4 DEF DownInv, StatusInv, AtRest, StopInv, Held, Fired, Early, Running,
                          PastAhead
<1> QED BY <1>3, <1>5 DEF Control

\* With no task of the pump's there is no stop of a turn's either.
LEMMA NoStop == ASSUME Control, turn.pc = "none"
                PROVE  stopping = FALSE /\ stopped = FALSE /\ ahead = FALSE
BY DEF Control, StopInv

\* A turn that runs on: it stays in its stage or is on its way out.
LEMMA TurnRunsOn ==
    ASSUME Control, turn.pc \in Running \cup {"finish", "renew"},
           UNCHANGED <<status, cancelled, ahead, pump, compaction, stopping, stopped>>,
           DOMAIN turn' = DOMAIN turn, turn'.step \in Nat,
           ClaimInv',
           \/ turn.pc \in Running /\ turn'.pc \in Running
           \/ turn'.pc \in {"finish", "renew"}
    PROVE  Control'
<1>1. turn'.pc \in Running \cup {"finish", "renew"}
  OBVIOUS
<1>2. ControlTypes' /\ OneTask' /\ ClaimInv'
  BY <1>1 DEF Control, ControlTypes, OneTask, ClaimInv, Running, TurnPcs
<1>3. DownInv' /\ StatusInv'
  BY <1>1 DEF Control, DownInv, StatusInv, AtRest, Running
<1>4. StopInv'
  BY <1>1 DEF Control, StopInv, Running
<1>5. Held' /\ Fired'
  BY <1>1 DEF Control, Held, Fired, Early, Running
<1> QED BY <1>2, <1>3, <1>4, <1>5 DEF Control

\* A step of the pump's Cancel or Shutdown leaves the turn alone.
LEMMA PumpMovesKeep ==
    ASSUME Control, PumpAhead \/ PumpMark \/ PumpLook \/ PumpMove \/ PumpFire \/ PumpSweep
    PROVE  Control'
<1>1. turn' = turn /\ compaction' = compaction /\ stopping' = stopping
  BY DEF PumpAhead, PumpMark, PumpLook, PumpMove, PumpFire, PumpSweep, hist
<1>2. ControlTypes
  BY DEF Control
<1>3. CASE PumpAhead
  <2>1. /\ pump.pc = "ahead" /\ ahead' = TRUE /\ pump'.pc = "mark" /\ pump'.down = pump.down
        /\ pump' \in [pc : PumpPcs, down : BOOLEAN]
        /\ UNCHANGED <<status, cancelled, stopped>>
    BY <1>2, <1>3 DEF PumpAhead, ControlTypes, PumpPcs, hist
  <2> QED BY <1>1, <2>1 DEF Control, ControlTypes, OneTask, DownInv, StatusInv, StopInv, Held,
                            Fired, ClaimInv
<1>4. CASE PumpMark
  <2>1. /\ pump.pc = "mark" /\ pump'.pc = "look" /\ pump'.down = pump.down
        /\ pump' \in [pc : PumpPcs, down : BOOLEAN]
        /\ UNCHANGED <<status, cancelled, ahead, stopped>>
    BY <1>2, <1>4 DEF PumpMark, ControlTypes, PumpPcs, hist
  <2> QED BY <1>1, <2>1 DEF Control, ControlTypes, OneTask, DownInv, StatusInv, StopInv, Held,
                            Fired, ClaimInv, PastAhead
<1>5. CASE PumpLook
  <2>1. /\ pump.pc = "look" /\ pump'.down = pump.down
        /\ pump'.pc = (IF status = "Idle" THEN "sweep" ELSE "move")
        /\ pump' \in [pc : PumpPcs, down : BOOLEAN]
        /\ UNCHANGED <<status, cancelled, ahead, stopped>>
    BY <1>2, <1>5 DEF PumpLook, ControlTypes, PumpPcs, agent, hist
  <2>2. turn.pc # "aborted"
    BY <2>1 DEF Control, DownInv
  <2>3. status = "Idle" <=> turn.pc \in AtRest
    BY <2>2 DEF Control, StatusInv
  <2>4. ControlTypes' /\ OneTask' /\ ClaimInv' /\ StatusInv' /\ DownInv'
    BY <1>1, <2>1 DEF Control, ControlTypes, OneTask, DownInv, StatusInv, ClaimInv
  <2>5. Held' /\ Fired'
    BY <1>1, <2>1, <2>3 DEF Control, Held, Fired, PastAhead, AtRest, Running
  <2>6. StopInv'
    <3>1. status # "Idle" => stopping \/ pump.down
      BY <2>1, <2>3 DEF Control, StopInv, AtRest, PastAhead
    <3> QED BY <1>1, <2>1, <2>3, <3>1 DEF Control, StopInv, AtRest, PastAhead
  <2> QED BY <2>4, <2>5, <2>6 DEF Control
<1>6. CASE PumpMove
  <2>1. /\ pump.pc = "move" /\ pump'.down = pump.down /\ pump'.pc = "fire"
        /\ pump' \in [pc : PumpPcs, down : BOOLEAN]
        /\ status' = (IF status = "Working" THEN "Stopping" ELSE status)
        /\ UNCHANGED <<cancelled, ahead, stopped>>
    BY <1>2, <1>6 DEF PumpMove, ControlTypes, PumpPcs, hist
  <2> QED BY <1>1, <2>1 DEF Control, ControlTypes, OneTask, DownInv, StatusInv, StopInv, Held,
                            Fired, ClaimInv, PastAhead
<1>7. CASE PumpFire
  <2>1. /\ pump.pc = "fire" /\ pump'.down = pump.down /\ pump'.pc = "sweep"
        /\ pump' \in [pc : PumpPcs, down : BOOLEAN]
        /\ cancelled' = TRUE
        /\ UNCHANGED <<status, ahead, stopped>>
    BY <1>2, <1>7 DEF PumpFire, ControlTypes, PumpPcs, hist
  <2> QED BY <1>1, <2>1 DEF Control, ControlTypes, OneTask, DownInv, StatusInv, StopInv, Held,
                            Fired, ClaimInv, PastAhead
<1>8. CASE PumpSweep
  <2>1. /\ pump.pc = "sweep" /\ pump'.down = pump.down
        /\ pump'.pc = (IF pump.down THEN "drain" ELSE "loop")
        /\ pump' \in [pc : PumpPcs, down : BOOLEAN]
        /\ stopped' = (stopped \/ stopping)
        /\ UNCHANGED <<status, cancelled, ahead>>
    BY <1>2, <1>8 DEF PumpSweep, ControlTypes, PumpPcs, agent
  <2>2. turn.pc # "aborted"
    BY <2>1 DEF Control, DownInv
  <2> QED BY <1>1, <2>1, <2>2
          DEF Control, ControlTypes, OneTask, DownInv, StatusInv, StopInv, Held,
              Fired, ClaimInv, PastAhead
<1> QED BY <1>3, <1>4, <1>5, <1>6, <1>7, <1>8

\* A command or the inbox starts a task when none runs.
LEMMA PumpStartsKeep ==
    ASSUME Control, PumpSend \/ PumpWakes \/ PumpCompact
    PROVE  Control'
<1>1. UNCHANGED <<status, cancelled, ahead, pump, stopping, stopped>> /\ pump.pc = "loop"
  BY DEF PumpSend, PumpWakes, PumpCompact, Reads, agent, hist
<1>2. \/ Resting /\ Spawn /\ compaction' = compaction
      \/ Resting /\ SpawnCompaction /\ turn' = turn
      \/ UNCHANGED <<turn, compaction>>
  BY DEF PumpSend, PumpWakes, PumpCompact
<1>3. CASE Resting /\ Spawn /\ compaction' = compaction
  <2>1. turn.pc = "none" /\ compaction'.pc = "none" /\ DOMAIN compaction' = {"pc", "stop"}
    BY <1>3 DEF Resting, Control, ControlTypes
  <2>2. stopping' = FALSE /\ stopped' = FALSE /\ ahead' = FALSE
    BY <1>1, <2>1, NoStop
  <2> QED BY <1>1, <1>3, <2>1, <2>2, SpawnKeeps
<1>4. CASE Resting /\ SpawnCompaction /\ turn' = turn
  <2>1. turn.pc = "none" /\ compaction'.pc = "running" /\ DOMAIN compaction' = {"pc", "stop"}
    BY <1>4 DEF Resting, SpawnCompaction
  <2> QED BY <1>1, <1>4, <2>1 DEF Control, ControlTypes, OneTask, DownInv, StatusInv, StopInv,
                                  Held, Fired, ClaimInv
<1>5. CASE UNCHANGED <<turn, compaction>>
  BY <1>1, <1>5, QuietKeeps DEF control
<1> QED BY <1>2, <1>3, <1>4, <1>5

\* The end of a task hands over to what waited behind it; the stop held for
\* the turn that ended goes with it.
LEMMA PumpDoneKeeps ==
    ASSUME Control, PumpTurnDone \/ PumpCompactionDone
    PROVE  Control'
<1>1. UNCHANGED <<status, cancelled, pump>> /\ pump.pc = "loop" /\ NextWork
  BY DEF PumpTurnDone, PumpCompactionDone, agent
<1>2. /\ \/ Spawn /\ compaction'.pc = "none"
         \/ turn' = NoTurn
      /\ DOMAIN compaction' = {"pc", "stop"} /\ compaction'.pc \in {"none", "running", "ended"}
  BY <1>1 DEF NextWork, SpawnCompaction, NoCompaction
<1>3. turn.pc \in {"none", "done"} /\ stopping' = FALSE /\ stopped' = FALSE /\ ahead' = FALSE
  <2>1. CASE PumpTurnDone
    BY <2>1 DEF PumpTurnDone
  <2>2. CASE PumpCompactionDone
    <3>1. turn.pc = "none"
      BY <2>2 DEF PumpCompactionDone, Control, OneTask
    <3>2. UNCHANGED <<ahead, stopping, stopped>>
      BY <2>2 DEF PumpCompactionDone, agent
    <3> QED BY <3>1, <3>2, NoStop
  <2> QED BY <2>1, <2>2
<1> QED BY <1>1, <1>2, <1>3, SpawnKeeps

\* A Cancel is read: for the turn the pump has a handle of, or for none.
LEMMA PumpCancelKeeps == ASSUME Control, PumpCancel PROVE Control'
<1>1. /\ pump.pc = "loop" /\ stopping' = (turn.pc # "none")
      /\ UNCHANGED <<status, cancelled, ahead, turn, stopped>>
  BY DEF PumpCancel, Reads, agent
<1>2. /\ pump' \in [pc : PumpPcs, down : BOOLEAN] /\ pump'.down = pump.down
      /\ pump'.pc = IF turn.pc = "none" THEN "mark" ELSE "ahead"
  BY DEF PumpCancel, Control, ControlTypes, PumpPcs
<1>3. compaction'.pc = compaction.pc /\ DOMAIN compaction' = DOMAIN compaction
  BY DEF PumpCancel, Control, ControlTypes
<1>4. ~pump.down
  BY <1>1 DEF Control, DownInv
<1>5. turn.pc = "none" => ~stopped /\ ~ahead
  BY NoStop
<1>6. ControlTypes' /\ OneTask' /\ ClaimInv' /\ StatusInv' /\ DownInv'
  BY <1>1, <1>2, <1>3, <1>4 DEF Control, ControlTypes, OneTask, DownInv, StatusInv, ClaimInv
<1>7. StopInv'
  BY <1>1, <1>2, <1>4, <1>5 DEF Control, StopInv, PastAhead
<1>8. Held' /\ Fired'
  BY <1>1, <1>2, <1>5 DEF Control, Held, Fired, PastAhead, Early, Running
<1> QED BY <1>6, <1>7, <1>8 DEF Control

\* A Shutdown is read, and the last turn is aborted if it has not ended.
LEMMA PumpShutdownKeeps ==
    ASSUME Control, PumpShutdown \/ PumpDrain
    PROVE  Control'
<1>1. CASE PumpShutdown
  <2>1. /\ pump.pc = "loop" /\ pump'.pc = "look" /\ pump'.down = TRUE
        /\ pump' \in [pc : PumpPcs, down : BOOLEAN]
        /\ UNCHANGED <<status, cancelled, ahead, turn, stopping, stopped>>
    BY <1>1 DEF PumpShutdown, Reads, agent, hist, PumpPcs
  <2>2. compaction'.pc = compaction.pc /\ DOMAIN compaction' = DOMAIN compaction
    BY <1>1 DEF PumpShutdown, Control, ControlTypes
  <2>3. turn.pc # "aborted"
    BY <2>1 DEF Control, DownInv
  <2>4. ControlTypes' /\ OneTask' /\ ClaimInv' /\ StatusInv' /\ DownInv'
    BY <2>1, <2>2, <2>3 DEF Control, ControlTypes, OneTask, DownInv, StatusInv, ClaimInv
  <2>5. StopInv' /\ Held' /\ Fired'
    BY <2>1 DEF Control, StopInv, Held, Fired, PastAhead
  <2> QED BY <2>4, <2>5 DEF Control
<1>2. CASE PumpDrain
  <2>1. /\ pump.pc = "drain" /\ pump'.pc = "ended" /\ pump'.down = pump.down
        /\ pump' \in [pc : PumpPcs, down : BOOLEAN]
        /\ UNCHANGED <<status, cancelled, ahead, compaction, stopping, stopped>>
    BY <1>2 DEF PumpDrain, agent, Control, ControlTypes, PumpPcs
  <2>2. \/ turn' = turn
        \/ /\ turn.pc # "none" /\ turn'.pc = "aborted" /\ turn'.msg = None /\ turn'.inj = {}
           /\ turn'.step = turn.step /\ DOMAIN turn' = DOMAIN turn
    BY <1>2 DEF PumpDrain, Control, ControlTypes, NoTurn
  <2>3. pump.down
    BY <2>1 DEF Control, DownInv
  <2>4. ControlTypes' /\ OneTask' /\ ClaimInv' /\ StatusInv' /\ DownInv'
    BY <2>1, <2>2, <2>3 DEF Control, ControlTypes, OneTask, DownInv, StatusInv, ClaimInv, TurnPcs
  <2>5. StopInv' /\ Held' /\ Fired'
    BY <2>1, <2>2, <2>3 DEF Control, StopInv, Held, Fired, PastAhead, Early, Running
  <2> QED BY <2>4, <2>5 DEF Control
<1> QED BY <1>1, <1>2

\* The opening of a turn: it looks at the inbox, mints its token, becomes
\* Working and takes the stop that was held for it.
LEMMA TurnOpensKeeps ==
    ASSUME Control, TurnLook \/ TurnToken \/ TurnWorking \/ TurnAhead
    PROVE  Control'
<1>0. ControlTypes
  BY DEF Control
<1>1. UNCHANGED <<pump, compaction, stopping, stopped>>
  BY DEF TurnLook, TurnToken, TurnWorking, TurnAhead, TurnRest
<1>2. /\ turn'.msg = turn.msg /\ turn'.inj = turn.inj /\ turn'.step = turn.step
      /\ DOMAIN turn' = DOMAIN turn
  BY <1>0 DEF TurnLook, TurnToken, TurnWorking, TurnAhead, Go, ControlTypes, NoTurn
<1>3. CASE TurnLook
  <2>1. /\ turn.pc = "spawned" /\ turn'.pc \in {"token", "done"}
        /\ UNCHANGED <<status, cancelled, ahead>>
    BY <1>0, <1>3 DEF TurnLook, At, Go, agent, ControlTypes, NoTurn
  <2>2. ControlTypes' /\ OneTask' /\ ClaimInv' /\ StatusInv' /\ DownInv'
    BY <1>1, <1>2, <2>1 DEF Control, ControlTypes, OneTask, DownInv, StatusInv, ClaimInv,
                            TurnPcs, AtRest
  <2>3. StopInv' /\ Held' /\ Fired'
    BY <1>1, <2>1 DEF Control, StopInv, Held, Fired, Early, Running
  <2> QED BY <2>2, <2>3 DEF Control
<1>4. CASE TurnToken
  <2>1. /\ turn.pc = "token" /\ turn'.pc = "status" /\ cancelled' = FALSE
        /\ UNCHANGED <<status, ahead>>
    BY <1>0, <1>4 DEF TurnToken, At, Go, ControlTypes, NoTurn
  <2>2. ControlTypes' /\ OneTask' /\ ClaimInv' /\ StatusInv' /\ DownInv'
    BY <1>1, <1>2, <2>1 DEF Control, ControlTypes, OneTask, DownInv, StatusInv, ClaimInv,
                            TurnPcs, AtRest
  <2>3. StopInv' /\ Held' /\ Fired'
    BY <1>1, <2>1 DEF Control, StopInv, Held, Fired, Early, Running
  <2> QED BY <2>2, <2>3 DEF Control
<1>5. CASE TurnWorking
  <2>1. /\ turn.pc = "status" /\ turn'.pc = "ahead" /\ status' = "Working"
        /\ UNCHANGED <<cancelled, ahead>>
    BY <1>0, <1>5 DEF TurnWorking, At, Go, ControlTypes, NoTurn
  <2>2. ControlTypes' /\ OneTask' /\ ClaimInv' /\ StatusInv' /\ DownInv'
    BY <1>1, <1>2, <2>1 DEF Control, ControlTypes, OneTask, DownInv, StatusInv, ClaimInv,
                            TurnPcs, AtRest
  <2>3. StopInv' /\ Held' /\ Fired'
    BY <1>1, <2>1 DEF Control, StopInv, Held, Fired, Early, Running
  <2> QED BY <2>2, <2>3 DEF Control
<1>6. CASE TurnAhead
  <2>1. /\ turn.pc = "ahead" /\ turn'.pc = "opened"
        /\ status' = (IF ahead THEN "Stopping" ELSE status)
        /\ ahead' = FALSE /\ cancelled' = (cancelled \/ ahead)
    BY <1>0, <1>6 DEF TurnAhead, At, Go, ControlTypes, NoTurn
  <2>2. status # "Idle"
    BY <2>1 DEF Control, StatusInv, AtRest
  <2>3. ControlTypes' /\ OneTask' /\ ClaimInv' /\ StatusInv' /\ DownInv'
    BY <1>1, <1>2, <2>1, <2>2 DEF Control, ControlTypes, OneTask, DownInv, StatusInv, ClaimInv,
                                  TurnPcs, AtRest
  <2>4. StopInv' /\ Held' /\ Fired'
    BY <1>1, <2>1 DEF Control, StopInv, Held, Fired, Early, Running, PastAhead
  <2> QED BY <2>3, <2>4 DEF Control
<1> QED BY <1>3, <1>4, <1>5, <1>6

\* The rounds of a turn.
LEMMA TurnRoundsKeep ==
    ASSUME Control,
           \/ TurnOpened \/ TurnClaim \/ TurnWithdraws \/ TurnRefuses \/ TurnKeeps
           \/ TurnRequestStopped \/ TurnAnswered \/ TurnExecutes \/ TurnAsks
           \/ TurnInserts \/ TurnWaits \/ TurnYields \/ TurnFinishes \/ QuestionTimesOut,
           NEW S, inbox \in Seq(S), \A i \in DOMAIN inbox : inbox[i].id # None
    PROVE  Control'
<1>0. /\ DOMAIN turn = DOMAIN NoTurn /\ turn.step \in Nat
      /\ turn.pc # "keep" => turn.msg = None
      /\ turn.msg = None => turn.inj = {}
  BY DEF Control, ControlTypes, ClaimInv
<1>1. UNCHANGED <<status, cancelled, ahead, pump, compaction, stopping, stopped>>
  BY DEF TurnOpened, TurnClaim, TurnWithdraws, TurnRefuses, TurnKeeps, TurnRequestStopped,
         TurnAnswered, TurnExecutes, TurnAsks, TurnInserts, TurnWaits, TurnYields, TurnFinishes,
         QuestionTimesOut, TurnRest, agent
<1>2. ASSUME TurnClaim
      PROVE  /\ turn.pc = "claim" /\ turn'.pc = "keep" /\ turn'.step = turn.step
             /\ DOMAIN turn' = DOMAIN turn /\ (turn'.msg = None => turn'.inj = {})
  <2>1. CASE HasWakingInput /\ ~turn.closing
    <3>2. FirstMessage \in DOMAIN inbox
      BY <2>1, FirstMessageFound
    <3>3. inbox[FirstMessage].id # None
      BY <3>2
    <3> QED BY <1>0, <1>2, <2>1, <3>3 DEF TurnClaim, At, NoTurn
  <2>2. CASE ~(HasWakingInput /\ ~turn.closing)
    BY <1>0, <1>2, <2>2 DEF TurnClaim, At, Go, NoTurn
  <2> QED BY <2>1, <2>2
<1>3. CASE TurnClaim
  <2>1. turn.pc \in Running /\ turn'.pc \in Running
    BY <1>2, <1>3 DEF Running
  <2>2. ClaimInv'
    BY <1>2, <1>3 DEF ClaimInv
  <2> QED BY <1>0, <1>1, <1>2, <1>3, <2>1, <2>2, TurnRunsOn
<1>4. CASE TurnWithdraws \/ TurnRefuses \/ TurnKeeps
  <2>1. /\ turn.pc = "keep" /\ turn'.pc \in {"finish", "request"} /\ DOMAIN turn' = DOMAIN turn
        /\ turn'.step \in Nat /\ turn'.msg = None /\ turn'.inj = {}
    <3>1. /\ turn.pc = "keep"
          /\ \/ turn' = [turn EXCEPT !.pc = "request", !.step = @ + 1, !.msg = None, !.inj = {}]
             \/ \E stop : Ends(stop)
      BY <1>4 DEF TurnWithdraws, TurnRefuses, TurnKeeps, At
    <3>2. CASE \E stop : Ends(stop)
      BY <1>0, <3>1, <3>2 DEF Ends, NoTurn
    <3>3. CASE turn' = [turn EXCEPT !.pc = "request", !.step = @ + 1, !.msg = None, !.inj = {}]
      BY <1>0, <3>1, <3>3 DEF NoTurn
    <3> QED BY <3>1, <3>2, <3>3
  <2>2. turn.pc \in Running /\ turn'.pc \in Running \cup {"finish"} /\ ClaimInv'
    BY <2>1 DEF Running, ClaimInv
  <2> QED BY <1>1, <2>1, <2>2, TurnRunsOn
<1>5. ASSUME \/ TurnOpened \/ TurnRequestStopped \/ TurnAnswered \/ TurnExecutes \/ TurnAsks
             \/ TurnInserts \/ TurnWaits \/ TurnYields \/ TurnFinishes \/ QuestionTimesOut
      PROVE  Control'
  <2>1. /\ turn.pc \in Running \cup {"finish"} /\ turn.pc # "keep"
        /\ DOMAIN turn' = DOMAIN turn /\ turn'.step = turn.step
        /\ turn'.msg = None /\ turn'.inj = {}
        /\ \/ turn.pc \in Running /\ turn'.pc \in Running
           \/ turn'.pc \in {"finish", "renew"}
    BY <1>0, <1>5
       DEF TurnOpened, TurnRequestStopped, TurnAnswered, TurnExecutes, TurnAsks, TurnInserts,
           TurnWaits, TurnYields, TurnFinishes, QuestionTimesOut, At, Go, Ends, Running, NoTurn
  <2>2. ClaimInv'
    BY <2>1 DEF ClaimInv
  <2> QED BY <1>0, <1>1, <2>1, <2>2, TurnRunsOn
<1> QED BY <1>3, <1>4, <1>5

\* The end of a turn: a fresh token, then Idle.
LEMMA TurnEndsKeep == ASSUME Control, TurnRenews \/ TurnIdles PROVE Control'
<1>0. ControlTypes
  BY DEF Control
<1>1. UNCHANGED <<pump, compaction, stopping, stopped, ahead>>
  BY DEF TurnRenews, TurnIdles, TurnRest
<1>2. /\ turn'.msg = turn.msg /\ turn'.inj = turn.inj /\ turn'.step = turn.step
      /\ DOMAIN turn' = DOMAIN turn
  BY <1>0 DEF TurnRenews, TurnIdles, Go, ControlTypes, NoTurn
<1>3. \/ turn.pc = "renew" /\ turn'.pc = "idle" /\ cancelled' = FALSE /\ status' = status
      \/ turn.pc = "idle" /\ turn'.pc = "done" /\ cancelled' = cancelled /\ status' = "Idle"
  BY <1>0 DEF TurnRenews, TurnIdles, At, Go, ControlTypes, NoTurn
<1>4. ControlTypes' /\ OneTask' /\ ClaimInv' /\ StatusInv' /\ DownInv'
  BY <1>1, <1>2, <1>3 DEF Control, ControlTypes, OneTask, DownInv, StatusInv, ClaimInv,
                          TurnPcs, AtRest
<1>5. StopInv' /\ Held' /\ Fired'
  BY <1>1, <1>3 DEF Control, StopInv, Held, Fired, Early, Running
<1> QED BY <1>4, <1>5 DEF Control

\* Every step keeps the control invariant.
LEMMA ControlNext ==
    ASSUME Control, [Next]_vars,
           NEW S, inbox \in Seq(S), \A i \in DOMAIN inbox : inbox[i].id # None
    PROVE  Control'
<1>1. ASSUME \/ \E m \in Msgs : DriverSends(Send(m))
             \/ \E c \in Requests : DriverSends(c)
             \/ \E p \in Peers : PeerSends(p)
             \/ PumpRespond \/ PumpSnapshot \/ UNCHANGED vars
      PROVE  Control'
  <2>1. UNCHANGED control
    BY <1>1 DEF DriverSends, PeerSends, PumpRespond, PumpSnapshot, vars, agent, hist, control
  <2> QED BY <2>1, QuietKeeps
<1>2. CASE CompactionEnds
  <2>1. /\ compaction.pc # "none" /\ compaction'.pc = "ended"
        /\ DOMAIN compaction' = DOMAIN compaction
        /\ UNCHANGED <<status, cancelled, ahead, pump, turn, stopping, stopped>>
    BY <1>2 DEF CompactionEnds, agent, hist, Control, ControlTypes
  <2> QED BY <2>1 DEF Control, ControlTypes, OneTask, DownInv, StatusInv, StopInv, Held,
                      Fired, ClaimInv
<1>3. CASE PumpStep
  BY <1>1, <1>3, PumpStartsKeep, PumpDoneKeeps, PumpCancelKeeps, PumpMovesKeep,
     PumpShutdownKeeps DEF PumpStep
<1>4. CASE TurnStep \/ QuestionTimesOut
  BY <1>4, TurnOpensKeeps, TurnRoundsKeep, TurnEndsKeep DEF TurnStep
<1> QED BY <1>1, <1>2, <1>3, <1>4 DEF Next

-----------------------------------------------------------------------------
(* The messages.                                                           *)

QueueTypes == /\ cmds \in Seq(Commands)
              /\ inbox \in Seq(Item)
              /\ turn.msg \in Everyone \cup {None} /\ turn.inj \subseteq Peers
              /\ fate \in [Everyone -> Fates]
              /\ receipts \in [Msgs -> Nat]

\* No queue holds a message twice.
Sole == SentOnce(cmds) /\ Distinct(inbox)

\* A message is in a place exactly while it is open, and in one place alone.
Placed ==
    \A m \in Everyone :
        /\ fate[m] = "open" <=> (SentIn(cmds, m) \/ Has(inbox, m) \/ m \in Claim)
        /\ ~(SentIn(cmds, m) /\ Has(inbox, m))
        /\ ~(SentIn(cmds, m) /\ m \in Claim)
        /\ ~(Has(inbox, m) /\ m \in Claim)

\* The driver has heard of its messages when they were settled.
Receipted ==
    \A m \in Msgs : Listening => receipts[m] = IF fate[m] \in {"unsent", "open"} THEN 0 ELSE 1

PeersKept == \A p \in Peers : fate[p] # "withdrawn"

Accounts == QueueTypes /\ Sole /\ Placed /\ Receipted /\ PeersKept

IInv == Control /\ Accounts

\* A step that moves and settles no message.
LEMMA AccountsKept ==
    ASSUME Accounts, UNCHANGED <<cmds, inbox, fate, receipts>>,
           turn'.msg = turn.msg, turn'.inj = turn.inj, Listening' => Listening
    PROVE  Accounts'
<1>1. Claim' = Claim
  BY DEF Claim
<1> QED BY <1>1 DEF Accounts, QueueTypes, Sole, Placed, Receipted, PeersKept

\* The driver sends a message or a request.
LEMMA DriverKeeps ==
    ASSUME Accounts, NEW c \in Commands, DriverSends(c)
    PROVE  Accounts'
<1>1. /\ cmds' = Append(cmds, c) /\ UNCHANGED <<inbox, turn, pump, receipts>>
      /\ cmds \in Seq(Commands) /\ SentOnce(cmds) /\ fate \in [Everyone -> Fates]
  BY DEF DriverSends, Accounts, QueueTypes, Sole
<1>2. Claim' = Claim /\ (Listening' <=> Listening)
  BY <1>1 DEF Claim, Listening
<1>3. \A m : SentIn(cmds', m) <=> (SentIn(cmds, m) \/ (c.type = "Send" /\ c.msg = m))
  BY <1>1, SentAppend
<1>4. cmds' \in Seq(Commands)
  BY <1>1
<1>5. CASE c.type = "Send"
  <2>1. c.msg \in Msgs /\ c.msg \in Everyone /\ fate[c.msg] = "unsent"
    BY <1>5, CommandFacts DEF DriverSends, Everyone
  <2>2. fate' = Settle({c.msg}, "open")
    BY <1>5 DEF DriverSends
  <2>3. /\ fate' \in [Everyone -> Fates] /\ fate'[c.msg] = "open"
        /\ \A m \in Everyone : m # c.msg => fate'[m] = fate[m]
    BY <1>1, <2>1, <2>2 DEF Settle, Fates
  <2>4. ~SentIn(cmds, c.msg) /\ ~Has(inbox, c.msg) /\ c.msg \notin Claim
    BY <2>1 DEF Accounts, Placed
  <2>5. SentOnce(cmds')
    BY <1>1, <2>4, SentAppend
  <2>6. Placed'
    BY <1>1, <1>2, <1>3, <1>5, <2>3, <2>4 DEF Accounts, Placed
  <2>7. Receipted' /\ PeersKept'
    BY <1>1, <1>2, <2>1, <2>3 DEF Accounts, Receipted, PeersKept, Everyone
  <2> QED BY <1>1, <1>4, <2>3, <2>5, <2>6, <2>7 DEF Accounts, QueueTypes, Sole
<1>6. CASE c.type # "Send"
  <2>1. fate' = fate
    BY <1>6 DEF DriverSends
  <2>2. SentOnce(cmds')
    BY <1>1, <1>6, SentAppend
  <2> QED BY <1>1, <1>2, <1>3, <1>4, <1>6, <2>1, <2>2
          DEF Accounts, QueueTypes, Sole, Placed, Receipted, PeersKept
<1> QED BY <1>5, <1>6

\* Another agent reports.
LEMMA PeerKeeps ==
    ASSUME Accounts, NEW p \in Peers, PeerSends(p)
    PROVE  Accounts'
<1>1. /\ inbox' = Append(inbox, Message(p)) /\ UNCHANGED <<cmds, turn, pump, receipts>>
      /\ inbox \in Seq(Item) /\ Distinct(inbox) /\ fate \in [Everyone -> Fates]
      /\ fate[p] = "unsent" /\ fate' = Settle({p}, "open")
  BY DEF PeerSends, Accounts, QueueTypes, Sole
<1>2. Claim' = Claim /\ (Listening' <=> Listening)
  BY <1>1 DEF Claim, Listening
<1>3. p \in Everyone /\ p \notin Msgs /\ Message(p) \in Item /\ Message(p).id = p
  BY ItemFacts, PumpAssumption DEF Everyone
<1>4. inbox' \in Seq(Item) /\ \A m : Has(inbox', m) <=> (Has(inbox, m) \/ p = m)
  BY <1>1, <1>3, HasAppend
<1>5. /\ fate' \in [Everyone -> Fates] /\ fate'[p] = "open"
      /\ \A m \in Everyone : m # p => fate'[m] = fate[m]
  BY <1>1, <1>3 DEF Settle, Fates
<1>6. ~SentIn(cmds, p) /\ ~Has(inbox, p) /\ p \notin Claim
  BY <1>1, <1>3 DEF Accounts, Placed
<1>7. Distinct(inbox')
  BY <1>1, <1>3, <1>6, HasAppend
<1>8. Placed'
  BY <1>1, <1>2, <1>4, <1>5, <1>6 DEF Accounts, Placed
<1>9. Receipted' /\ PeersKept'
  BY <1>1, <1>2, <1>3, <1>5 DEF Accounts, Receipted, PeersKept, Everyone
<1> QED BY <1>1, <1>4, <1>5, <1>7, <1>8, <1>9 DEF Accounts, QueueTypes, Sole

\* The pump reads a request: no message moves.
LEMMA ReadRequestKeeps ==
    ASSUME Accounts, NEW t, Reads(t), t # "Send",
           UNCHANGED <<inbox, fate, receipts>>,
           turn'.msg = turn.msg, turn'.inj = turn.inj, Listening' => Listening
    PROVE  Accounts'
<1>1. /\ cmds \in Seq(Commands) /\ cmds # <<>> /\ cmds' = Tail(cmds) /\ SentOnce(cmds)
      /\ Head(cmds).type # "Send"
  BY DEF Reads, Accounts, QueueTypes, Sole
<1>2. cmds' \in Seq(Commands) /\ SentOnce(cmds') /\ \A m : SentIn(cmds', m) <=> SentIn(cmds, m)
  BY <1>1, SentTail
<1>3. Claim' = Claim
  BY DEF Claim
<1> QED BY <1>2, <1>3 DEF Accounts, QueueTypes, Sole, Placed, Receipted, PeersKept

\* The pump moves a message into the inbox.
LEMMA PumpSendKeeps ==
    ASSUME Accounts, PumpSend, turn'.msg = turn.msg, turn'.inj = turn.inj
    PROVE  Accounts'
<1> DEFINE m == Head(cmds).msg
<1>1. /\ cmds \in Seq(Commands) /\ cmds # <<>> /\ cmds' = Tail(cmds) /\ SentOnce(cmds)
      /\ Head(cmds).type = "Send" /\ inbox' = Append(inbox, Message(m))
      /\ inbox \in Seq(Item) /\ Distinct(inbox)
  BY DEF PumpSend, Reads, Accounts, QueueTypes, Sole
<1>2. UNCHANGED <<fate, receipts, pump>>
  BY DEF PumpSend, hist
<1>3. Head(cmds) \in Commands /\ cmds' \in Seq(Commands)
  BY <1>1, SentTail
<1>4. m \in Everyone
  BY <1>1, <1>3, CommandFacts DEF Everyone
<1>5. Message(m) \in Item /\ Message(m).id = m
  BY <1>4, ItemFacts
<1>6. /\ \A n : SentIn(cmds, n) <=> (SentIn(cmds', n) \/ m = n)
      /\ SentOnce(cmds') /\ ~SentIn(cmds', m)
  BY <1>1, SentTail
<1> HIDE DEF m
<1>7. ~Has(inbox, m) /\ m \notin Claim
  BY <1>4, <1>6 DEF Accounts, Placed
<1>8. inbox' \in Seq(Item) /\ Distinct(inbox') /\ \A n : Has(inbox', n) <=> (Has(inbox, n) \/ m = n)
  BY <1>1, <1>5, <1>7, HasAppend
<1>9. Claim' = Claim /\ (Listening' <=> Listening)
  BY <1>2 DEF Claim, Listening
<1>10. Placed'
  BY <1>2, <1>6, <1>7, <1>8, <1>9 DEF Accounts, Placed
<1> QED BY <1>2, <1>3, <1>6, <1>8, <1>9, <1>10
        DEF Accounts, QueueTypes, Sole, Receipted, PeersKept

\* The waiting messages and the rest of the inbox.
LEMMA InboxSplit ==
    ASSUME Accounts
    PROVE  LET kept == OfKind(inbox, "context") IN
           /\ WaitingMessages \subseteq Everyone
           /\ kept \in Seq(Item) /\ Distinct(kept)
           /\ \A m : Has(inbox, m) <=> (m \in WaitingMessages \/ Has(kept, m))
           /\ \A m : ~(m \in WaitingMessages /\ Has(kept, m))
<1> DEFINE kept == OfKind(inbox, "context")
<1>1. inbox \in Seq(Item) /\ Distinct(inbox)
  BY DEF Accounts, QueueTypes, Sole
<1>2. Keeps(Item, kept, inbox, "context", Len(inbox))
  BY <1>1, OfKindFacts
<1> HIDE DEF kept
<1>3. DOMAIN inbox = 1..Len(inbox) /\ \A i \in DOMAIN inbox : inbox[i] \in Item
  BY <1>1
<1>4. \A i \in DOMAIN inbox : /\ inbox[i].id \in Everyone
                              /\ inbox[i].kind = "message" \/ inbox[i].kind = "context"
  BY <1>3, ItemFacts
<1>5. /\ kept \in Seq(Item) /\ Distinct(kept)
      /\ \A m : Has(kept, m) <=> \E i \in DOMAIN inbox : inbox[i].kind = "context" /\ inbox[i].id = m
  BY <1>1, <1>2, <1>3 DEF Keeps
<1>6. \A m : m \in WaitingMessages <=>
                \E i \in DOMAIN inbox : inbox[i].kind = "message" /\ inbox[i].id = m
  BY DEF WaitingMessages, IsMessage
<1>7. WaitingMessages \subseteq Everyone
  BY <1>4, <1>6
<1>8. \A m : Has(inbox, m) <=> (m \in WaitingMessages \/ Has(kept, m))
  BY <1>4, <1>5, <1>6 DEF Has
<1>9. \A m : ~(m \in WaitingMessages /\ Has(kept, m))
  BY <1>1, <1>5, <1>6 DEF Distinct
<1> QED BY <1>5, <1>7, <1>8, <1>9 DEF kept

\* A stop withdraws the driver's waiting messages and keeps the peers'.
LEMMA PumpCancelAccounts == ASSUME Control, Accounts, PumpCancel PROVE Accounts'
<1> DEFINE kept == OfKind(inbox, "context")
           mine == WaitingMessages \ Peers
           noted == WaitingMessages \cap Peers
<1>1. /\ cmds \in Seq(Commands) /\ cmds # <<>> /\ cmds' = Tail(cmds) /\ SentOnce(cmds)
      /\ Head(cmds).type # "Send"
  BY DEF PumpCancel, Reads, Accounts, QueueTypes, Sole
<1>2. cmds' \in Seq(Commands) /\ SentOnce(cmds') /\ \A m : SentIn(cmds', m) <=> SentIn(cmds, m)
  BY <1>1, SentTail
<1>3. turn' = turn /\ Listening /\ Listening'
  <2>1. pump.pc = "loop" /\ turn' = turn
        /\ pump' = [pump EXCEPT !.pc = IF turn.pc = "none" THEN "mark" ELSE "ahead"]
    BY DEF PumpCancel, Reads
  <2>2. pump'.pc \in {"mark", "ahead"}
    BY <2>1 DEF Control, ControlTypes
  <2> QED BY <2>1, <2>2 DEF Listening
<1>4. /\ WaitingMessages \subseteq Everyone
      /\ kept \in Seq(Item) /\ Distinct(kept)
      /\ \A m : Has(inbox, m) <=> (m \in WaitingMessages \/ Has(kept, m))
      /\ \A m : ~(m \in WaitingMessages /\ Has(kept, m))
  BY InboxSplit
<1>5. /\ \A m : m \in WaitingMessages <=> (m \in mine \/ m \in noted)
      /\ mine \subseteq Msgs /\ mine \subseteq Everyone /\ mine \cap Peers = {}
      /\ noted \subseteq Peers /\ noted \cap Msgs = {}
  BY <1>4, PumpAssumption DEF Everyone
<1>6. /\ receipts' = Receipt(mine)
      /\ \/ /\ status = "Idle" /\ inbox' = kept
            /\ fate' = [m \in DOMAIN fate |-> CASE m \in mine -> "withdrawn"
                                                [] m \in noted -> "logged"
                                                [] OTHER -> fate[m]]
         \/ /\ inbox' = kept \o AsInjections(noted)
            /\ fate' = Settle(mine, "withdrawn")
  BY DEF PumpCancel, StandDown
<1>7. fate \in [Everyone -> Fates] /\ receipts \in [Msgs -> Nat]
  BY DEF Accounts, QueueTypes
<1>8. \A m \in mine \cup noted : fate[m] = "open"
  BY <1>4, <1>5 DEF Accounts, Placed, Everyone
<1> HIDE DEF kept, mine, noted
<1>9. /\ receipts' \in [Msgs -> Nat]
      /\ \A m \in Msgs : receipts'[m] = IF m \in mine THEN receipts[m] + 1 ELSE receipts[m]
  BY <1>3, <1>6, <1>7 DEF Receipt
<1>10. \E out : /\ mine \subseteq out /\ out \subseteq mine \cup noted
                /\ fate' \in [Everyone -> Fates]
                /\ \A m \in Everyone : IF m \in mine THEN fate'[m] = "withdrawn"
                                       ELSE IF m \in out THEN fate'[m] = "logged"
                                       ELSE fate'[m] = fate[m]
                /\ inbox' \in Seq(Item) /\ Distinct(inbox')
                /\ \A m : Has(inbox', m) <=> (Has(kept, m) \/ (m \in noted /\ m \notin out))
  <2>1. CASE /\ inbox' = kept
             /\ fate' = [m \in DOMAIN fate |-> CASE m \in mine -> "withdrawn"
                                                 [] m \in noted -> "logged"
                                                 [] OTHER -> fate[m]]
    <3>1. /\ fate' \in [Everyone -> Fates]
          /\ \A m \in Everyone : IF m \in mine THEN fate'[m] = "withdrawn"
                                 ELSE IF m \in noted THEN fate'[m] = "logged"
                                 ELSE fate'[m] = fate[m]
      <4>1. \A m : ~(m \in mine /\ m \in noted)
        BY <1>5
      <4>2. \A m \in Everyone :
               fate'[m] = IF m \in mine THEN "withdrawn"
                          ELSE IF m \in noted THEN "logged" ELSE fate[m]
        BY <1>7, <2>1, <4>1
      <4>3. DOMAIN fate' = Everyone /\ fate' = [m \in Everyone |-> fate'[m]]
        BY <1>7, <2>1
      <4>4. \A m \in Everyone : fate'[m] \in Fates
        BY <1>7, <4>2 DEF Fates
      <4> QED BY <4>2, <4>3, <4>4
    <3>2. mine \subseteq mine \cup noted
      OBVIOUS
    <3> QED BY <1>4, <2>1, <3>1, <3>2
  <2>2. CASE inbox' = kept \o AsInjections(noted) /\ fate' = Settle(mine, "withdrawn")
    <3>1. /\ fate' \in [Everyone -> Fates]
          /\ \A m \in Everyone : IF m \in mine THEN fate'[m] = "withdrawn"
                                 ELSE fate'[m] = fate[m]
      BY <1>7, <2>2 DEF Fates, Settle
    <3>2. /\ AsInjections(noted) \in Seq(Item) /\ Distinct(AsInjections(noted))
          /\ \A m : Has(AsInjections(noted), m) <=> m \in noted
      BY <1>5, InjectionFacts
    <3>3. \A m : ~(Has(kept, m) /\ Has(AsInjections(noted), m))
      BY <1>4, <1>5, <3>2
    <3>4. /\ inbox' \in Seq(Item) /\ Distinct(inbox')
          /\ \A m : Has(inbox', m) <=> (Has(kept, m) \/ m \in noted)
      BY <1>4, <2>2, <3>2, <3>3, HasConcat
    <3>5. \A m \in noted : m \notin mine
      BY <1>5
    <3> QED BY <3>1, <3>4, <3>5
  <2> QED BY <1>6, <2>1, <2>2
<1>11. PICK out : /\ mine \subseteq out /\ out \subseteq mine \cup noted
                  /\ fate' \in [Everyone -> Fates]
                  /\ \A m \in Everyone : IF m \in mine THEN fate'[m] = "withdrawn"
                                         ELSE IF m \in out THEN fate'[m] = "logged"
                                         ELSE fate'[m] = fate[m]
                  /\ inbox' \in Seq(Item) /\ Distinct(inbox')
                  /\ \A m : Has(inbox', m) <=> (Has(kept, m) \/ (m \in noted /\ m \notin out))
  BY <1>10
<1>12. Claim' = Claim
  BY <1>3 DEF Claim
<1>13. Placed'
  <2> SUFFICES ASSUME NEW m \in Everyone
               PROVE  /\ fate'[m] = "open" <=> (SentIn(cmds', m) \/ Has(inbox', m) \/ m \in Claim)
                      /\ ~(SentIn(cmds', m) /\ Has(inbox', m))
                      /\ ~(SentIn(cmds', m) /\ m \in Claim)
                      /\ ~(Has(inbox', m) /\ m \in Claim)
    BY <1>12 DEF Placed
  <2>1. /\ fate[m] = "open" <=> (SentIn(cmds, m) \/ Has(inbox, m) \/ m \in Claim)
        /\ ~(SentIn(cmds, m) /\ Has(inbox, m))
        /\ ~(SentIn(cmds, m) /\ m \in Claim)
        /\ ~(Has(inbox, m) /\ m \in Claim)
    BY DEF Accounts, Placed
  <2>2. CASE m \in mine \cup noted
    BY <1>2, <1>4, <1>5, <1>8, <1>11, <2>1, <2>2
  <2>3. CASE m \notin mine \cup noted
    BY <1>2, <1>4, <1>5, <1>11, <2>1, <2>3
  <2> QED BY <2>2, <2>3
<1>14. Receipted'
  <2> SUFFICES ASSUME NEW m \in Msgs
               PROVE  receipts'[m] = IF fate'[m] \in {"unsent", "open"} THEN 0 ELSE 1
    BY DEF Receipted
  <2>1. receipts[m] = IF fate[m] \in {"unsent", "open"} THEN 0 ELSE 1
    BY <1>3 DEF Accounts, Receipted
  <2>2. m \in Everyone /\ m \notin noted /\ (m \in out <=> m \in mine)
    BY <1>5, <1>11 DEF Everyone
  <2>3. CASE m \in mine
    <3>1. fate[m] = "open" /\ fate'[m] = "withdrawn"
      BY <1>8, <1>11, <2>2, <2>3
    <3> QED BY <1>9, <2>1, <2>3, <3>1
  <2>4. CASE m \notin mine
    <3>1. fate'[m] = fate[m]
      BY <1>11, <2>2, <2>4
    <3> QED BY <1>9, <2>1, <2>4, <3>1
  <2> QED BY <2>3, <2>4
<1>15. PeersKept'
  BY <1>5, <1>11 DEF Accounts, PeersKept, Everyone
<1> QED BY <1>2, <1>3, <1>9, <1>11, <1>13, <1>14, <1>15 DEF Accounts, QueueTypes, Sole

\* The turn takes the inbox up to its first message.
LEMMA TurnClaimAccounts == ASSUME Control, Accounts, TurnClaim PROVE Accounts'
<1>1. UNCHANGED <<cmds, pump, fate, receipts>>
  BY DEF TurnClaim, TurnRest
<1>2. DOMAIN turn = DOMAIN NoTurn /\ turn.msg = None /\ turn.inj = {}
  BY DEF Control, ControlTypes, ClaimInv, TurnClaim, At
<1>3. inbox \in Seq(Item) /\ Distinct(inbox)
  BY DEF Accounts, QueueTypes, Sole
<1>4. CASE ~(HasWakingInput /\ ~turn.closing)
  <2>1. inbox' = inbox /\ turn'.msg = turn.msg /\ turn'.inj = turn.inj
    BY <1>2, <1>4 DEF TurnClaim, Go, NoTurn
  <2>2. Listening' <=> Listening
    BY <1>1 DEF Listening
  <2> QED BY <1>1, <2>1, <2>2, AccountsKept
<1>5. CASE HasWakingInput /\ ~turn.closing
  <2> DEFINE F == FirstMessage
  <2>1. /\ F \in DOMAIN inbox /\ IsMessage(inbox[F])
        /\ \A k \in 1..(F - 1) : ~IsMessage(inbox[k])
    BY <1>3, <1>5, FirstMessageFound
  <2>2. /\ turn'.msg = inbox[F].id /\ turn'.inj = {inbox[i].id : i \in 1..(F - 1)}
        /\ inbox' = SubSeq(inbox, F + 1, Len(inbox))
    BY <1>2, <1>5 DEF TurnClaim, NoTurn
  <2> HIDE DEF F
  <2>3. /\ DOMAIN inbox = 1..Len(inbox) /\ Len(inbox) \in Nat /\ F \in Nat
        /\ \A i \in 1..Len(inbox) : inbox[i] \in Item
    BY <1>3, <2>1
  <2>4. /\ inbox' \in Seq(Item) /\ Len(inbox') = Len(inbox) - F
        /\ \A i \in 1..(Len(inbox) - F) : inbox'[i] = inbox[F + i]
    <3>1. F + 1 \in Int /\ Len(inbox) \in Int /\ \A i \in (F + 1)..Len(inbox) : inbox[i] \in Item
      BY <2>3
    <3>2. /\ inbox' \in Seq(Item)
          /\ Len(inbox') = IF F + 1 <= Len(inbox) THEN Len(inbox) - (F + 1) + 1 ELSE 0
          /\ \A i \in 1..(Len(inbox) - (F + 1) + 1) : inbox'[i] = inbox[F + 1 + i - 1]
      BY <2>2, <3>1, SubSeqProperties
    <3>3. F <= Len(inbox) /\ Len(inbox) - (F + 1) + 1 = Len(inbox) - F
      BY <2>1, <2>3
    <3>4. \A i \in 1..(Len(inbox) - F) : F + 1 + i - 1 = F + i
      BY <2>3
    <3> QED BY <2>3, <3>2, <3>3, <3>4
  <2>5. /\ DOMAIN inbox' = 1..(Len(inbox) - F)
        /\ \A i \in DOMAIN inbox' : F + i \in DOMAIN inbox /\ inbox'[i] = inbox[F + i] /\ F + i > F
        /\ \A i, j \in DOMAIN inbox' : F + i = F + j => i = j
        /\ \A i \in DOMAIN inbox : \/ i \in 1..(F - 1) \/ i = F
                                   \/ i - F \in DOMAIN inbox' /\ inbox'[i - F] = inbox[i]
        /\ \A i \in 1..(F - 1) : i \in DOMAIN inbox /\ i < F
    <3> DEFINE L == Len(inbox)
    <3>0. L \in Nat /\ F \in 1..L /\ DOMAIN inbox = 1..L
      BY <2>1, <2>3
    <3>1. DOMAIN inbox' = 1..(L - F) /\ \A i \in 1..(L - F) : inbox'[i] = inbox[F + i]
      BY <2>4
    <3> HIDE DEF L
    <3>2. \A i \in 1..(L - F) : F + i \in 1..L /\ F + i > F
      BY <3>0
    <3>3. \A i, j \in 1..(L - F) : F + i = F + j => i = j
      BY <3>0
    <3>4. ASSUME NEW i \in 1..L, i \notin 1..(F - 1), i # F
          PROVE  i - F \in 1..(L - F) /\ inbox'[i - F] = inbox[i]
      <4>1. i - F \in 1..(L - F) /\ F + (i - F) = i
        BY <3>0, <3>4
      <4> QED BY <3>1, <4>1
    <3>5. \A i \in 1..(F - 1) : i \in 1..L /\ i < F
      BY <3>0
    <3> QED BY <3>0, <3>1, <3>2, <3>3, <3>4, <3>5 DEF L
  <2>6. \A i \in DOMAIN inbox : inbox[i].id \in Everyone /\ inbox[i].id # None
    BY <2>3, ItemFacts
  <2>7. turn'.msg \in Everyone /\ turn'.inj \subseteq Peers
    <3>1. \A i \in 1..(F - 1) : inbox[i].id \in Peers
      BY <2>1, <2>3, <2>5, ItemFacts DEF IsMessage
    <3> QED BY <2>1, <2>2, <2>6, <3>1
  <2>8. /\ Claim = {}
        /\ \A m : m \in Claim' <=> \/ m = inbox[F].id
                                   \/ \E i \in 1..(F - 1) : inbox[i].id = m
    <3>1. Claim = {}
      BY <1>2 DEF Claim
    <3>2. Claim' = ({inbox[F].id} \cup {inbox[i].id : i \in 1..(F - 1)}) \ {None}
      BY <2>2 DEF Claim
    <3>3. inbox[F].id # None /\ \A i \in 1..(F - 1) : inbox[i].id # None
      BY <2>1, <2>5, <2>6
    <3> QED BY <3>1, <3>2, <3>3
  <2>9. \A m : Has(inbox, m) <=> (Has(inbox', m) \/ m \in Claim')
    BY <2>1, <2>5, <2>8 DEF Has
  <2>10. \A m : ~(Has(inbox', m) /\ m \in Claim')
    <3> SUFFICES ASSUME NEW i \in DOMAIN inbox', inbox'[i].id \in Claim' PROVE FALSE
      BY DEF Has
    <3>1. \E k \in DOMAIN inbox : (k = F \/ k < F) /\ inbox[F + i].id = inbox[k].id
      <4>1. inbox[F + i].id \in Claim'
        BY <2>5
      <4> QED BY <2>1, <2>5, <2>8, <4>1
    <3>2. PICK k \in DOMAIN inbox : (k = F \/ k < F) /\ inbox[F + i].id = inbox[k].id
      BY <3>1
    <3>3. F + i = k
      BY <1>3, <2>5, <3>2 DEF Distinct
    <3>4. F + i > F
      BY <2>5
    <3> QED BY <2>3, <3>2, <3>3, <3>4
  <2>11. Distinct(inbox')
    BY <1>3, <2>5 DEF Distinct
  <2>12. Listening' <=> Listening
    BY <1>1 DEF Listening
  <2>13. Placed'
    BY <1>1, <2>8, <2>9, <2>10 DEF Accounts, Placed
  <2> QED BY <1>1, <2>4, <2>7, <2>11, <2>12, <2>13
          DEF Accounts, QueueTypes, Sole, Receipted, PeersKept
<1> QED BY <1>4, <1>5

\* A step that ends the claim: what leaves the inbox and the claim for good
\* is settled, and the driver hears of its own.
LEMMA SettleKeeps ==
    ASSUME Accounts, NEW out, out \subseteq Everyone,
           NEW as \in {"logged", "withdrawn", "refused", "lost"},
           as = "withdrawn" => out \cap Peers = {},
           cmds' = cmds, fate' = Settle(out, as),
           inbox' \in Seq(Item), Distinct(inbox'),
           turn'.msg = None, turn'.inj = {},
           \A m : (Has(inbox, m) \/ m \in Claim) <=> (m \in out \/ Has(inbox', m)),
           \A m : ~(m \in out /\ Has(inbox', m)),
           Listening' => Listening,
           receipts' \in [Msgs -> Nat],
           \A m \in Msgs : Listening' =>
                receipts'[m] = IF m \in out THEN receipts[m] + 1 ELSE receipts[m]
    PROVE  Accounts'
<1>1. fate \in [Everyone -> Fates] /\ cmds \in Seq(Commands) /\ SentOnce(cmds)
  BY DEF Accounts, QueueTypes, Sole
<1>2. /\ fate' \in [Everyone -> Fates]
      /\ \A m \in Everyone : fate'[m] = IF m \in out THEN as ELSE fate[m]
  BY <1>1 DEF Settle, Fates
<1>3. Claim' = {}
  BY DEF Claim
<1>4. Placed'
  <2> SUFFICES ASSUME NEW m \in Everyone
               PROVE  /\ fate'[m] = "open" <=> (SentIn(cmds, m) \/ Has(inbox', m))
                      /\ ~(SentIn(cmds, m) /\ Has(inbox', m))
    BY <1>3 DEF Placed
  <2>1. /\ fate[m] = "open" <=> (SentIn(cmds, m) \/ Has(inbox, m) \/ m \in Claim)
        /\ ~(SentIn(cmds, m) /\ Has(inbox, m))
        /\ ~(SentIn(cmds, m) /\ m \in Claim)
    BY DEF Accounts, Placed
  <2>2. (Has(inbox, m) \/ m \in Claim) <=> (m \in out \/ Has(inbox', m))
    OBVIOUS
  <2>3. ~(m \in out /\ Has(inbox', m))
    OBVIOUS
  <2>4. CASE m \in out
    BY <1>2, <2>1, <2>2, <2>3, <2>4
  <2>5. CASE m \notin out
    BY <1>2, <2>1, <2>2, <2>5
  <2> QED BY <2>4, <2>5
<1>5. Receipted'
  <2> SUFFICES ASSUME NEW m \in Msgs, Listening'
               PROVE  receipts'[m] = IF fate'[m] \in {"unsent", "open"} THEN 0 ELSE 1
    BY DEF Receipted
  <2>1. receipts[m] = IF fate[m] \in {"unsent", "open"} THEN 0 ELSE 1
    BY DEF Accounts, Receipted
  <2>2. m \in Everyone
    BY DEF Everyone
  <2>3. CASE m \in out
    <3>1. fate[m] = "open"
      <4>1. Has(inbox, m) \/ m \in Claim
        BY <2>3
      <4> QED BY <2>2, <4>1 DEF Accounts, Placed
    <3>2. fate'[m] = as /\ receipts'[m] = receipts[m] + 1
      BY <1>2, <2>2, <2>3
    <3>3. as \notin {"unsent", "open"}
      OBVIOUS
    <3>4. receipts[m] = 0
      BY <2>1, <3>1
    <3> QED BY <3>2, <3>3, <3>4
  <2>4. CASE m \notin out
    BY <1>2, <2>1, <2>2, <2>4
  <2> QED BY <2>3, <2>4
<1>6. PeersKept'
  BY <1>2 DEF Accounts, PeersKept, Everyone
<1> QED BY <1>1, <1>2, <1>4, <1>5, <1>6 DEF Accounts, QueueTypes, Sole

\* What the turn has claimed, by where it came from.
LEMMA ClaimFacts ==
    ASSUME Control, Accounts
    PROVE  /\ Claim \subseteq Everyone
           /\ \A m \in Claim : ~Has(inbox, m)
           /\ \A m \in Msgs : m \in Claim <=> m = turn.msg
           /\ \A m : m \in Claim /\ m \notin Peers => m \in Msgs
<1>1. turn.msg \in Everyone \cup {None} /\ turn.inj \subseteq Peers
  BY DEF Accounts, QueueTypes
<1>2. Msgs \cap Peers = {} /\ None \notin Everyone /\ Everyone = Msgs \cup Peers
  BY PumpAssumption DEF Everyone
<1>3. \A m : m \in Claim <=> (m = turn.msg \/ m \in turn.inj) /\ m # None
  BY DEF Claim
<1>4. Claim \subseteq Everyone
  BY <1>1, <1>2, <1>3
<1>5. \A m \in Claim : ~Has(inbox, m)
  BY <1>4 DEF Accounts, Placed
<1>6. \A m \in Msgs : m \in Claim <=> m = turn.msg
  BY <1>1, <1>2, <1>3
<1> QED BY <1>2, <1>4, <1>5, <1>6

\* A fold the stop overtook: the driver's message is withdrawn, the rest of
\* the claim goes back into the inbox as context.
LEMMA TurnWithdrawsAccounts == ASSUME Control, Accounts, TurnWithdraws PROVE Accounts'
<1> DEFINE noted == Claim \cap Peers
           mine == Claim \ Peers
<1>1. /\ inbox' = inbox \o AsInjections(noted) /\ fate' = Settle(mine, "withdrawn")
      /\ receipts' = Receipt(mine) /\ UNCHANGED <<cmds, pump>>
  BY DEF TurnWithdraws, TurnRest
<1>2. turn'.msg = None /\ turn'.inj = {}
  <2>1. DOMAIN turn = DOMAIN NoTurn /\ Ends(TRUE)
    BY DEF Control, ControlTypes, TurnWithdraws
  <2> QED BY <2>1 DEF Ends, NoTurn
<1>3. inbox \in Seq(Item) /\ Distinct(inbox) /\ receipts \in [Msgs -> Nat]
  BY DEF Accounts, QueueTypes, Sole
<1>4. /\ noted \subseteq Peers /\ mine \subseteq Everyone /\ mine \cap Peers = {}
      /\ \A m : m \in Claim <=> (m \in mine \/ m \in noted)
      /\ \A m : ~(m \in mine /\ m \in noted)
      /\ \A m \in Claim : ~Has(inbox, m)
  BY ClaimFacts
<1> HIDE DEF noted, mine
<1>5. /\ AsInjections(noted) \in Seq(Item) /\ Distinct(AsInjections(noted))
      /\ \A m : Has(AsInjections(noted), m) <=> m \in noted
  BY <1>4, InjectionFacts
<1>6. \A m : ~(Has(inbox, m) /\ Has(AsInjections(noted), m))
  BY <1>4, <1>5
<1>7. /\ inbox' \in Seq(Item) /\ Distinct(inbox')
      /\ \A m : Has(inbox', m) <=> (Has(inbox, m) \/ m \in noted)
  BY <1>1, <1>3, <1>5, <1>6, HasConcat
<1>8. Listening' <=> Listening
  BY <1>1 DEF Listening
<1>9. /\ receipts' \in [Msgs -> Nat]
      /\ \A m \in Msgs : Listening =>
           receipts'[m] = IF m \in mine THEN receipts[m] + 1 ELSE receipts[m]
  BY <1>1, <1>3 DEF Receipt
<1>10. /\ \A m : (Has(inbox, m) \/ m \in Claim) <=> (m \in mine \/ Has(inbox', m))
       /\ \A m : ~(m \in mine /\ Has(inbox', m))
  BY <1>4, <1>7
<1> QED BY <1>1, <1>2, <1>4, <1>7, <1>8, <1>9, <1>10, SettleKeeps

\* A receipt for the claimed message is one for the driver's part of the claim.
LEMMA ClaimReceipt ==
    ASSUME Control, Accounts, receipts' = Receipt({turn.msg}),
           NEW out, \A m \in Msgs : m \in out <=> m \in Claim
    PROVE  /\ receipts' \in [Msgs -> Nat]
           /\ \A m \in Msgs : Listening =>
                receipts'[m] = IF m \in out THEN receipts[m] + 1 ELSE receipts[m]
<1>1. receipts \in [Msgs -> Nat]
  BY DEF Accounts, QueueTypes
<1>2. \A m \in Msgs : m \in out <=> m \in {turn.msg}
  BY ClaimFacts
<1>3. /\ receipts' \in [Msgs -> Nat]
      /\ \A m \in Msgs : Listening =>
           receipts'[m] = IF m \in {turn.msg} THEN receipts[m] + 1 ELSE receipts[m]
  BY <1>1 DEF Receipt
<1> QED BY <1>2, <1>3

\* A hook refuses the claim.
LEMMA TurnRefusesAccounts == ASSUME Control, Accounts, TurnRefuses PROVE Accounts'
<1>1. /\ fate' = Settle(Claim, "refused") /\ receipts' = Receipt({turn.msg})
      /\ UNCHANGED <<cmds, pump, inbox>>
  BY DEF TurnRefuses, TurnRest
<1>2. turn'.msg = None /\ turn'.inj = {}
  <2>1. DOMAIN turn = DOMAIN NoTurn /\ Ends(FALSE)
    BY DEF Control, ControlTypes, TurnRefuses
  <2> QED BY <2>1 DEF Ends, NoTurn
<1>3. inbox' \in Seq(Item) /\ Distinct(inbox') /\ \A m : Has(inbox', m) <=> Has(inbox, m)
  BY <1>1 DEF Accounts, QueueTypes, Sole
<1>4. Claim \subseteq Everyone /\ \A m \in Claim : ~Has(inbox, m)
  BY ClaimFacts
<1>5. Listening' <=> Listening
  BY <1>1 DEF Listening
<1>6. /\ receipts' \in [Msgs -> Nat]
      /\ \A m \in Msgs : Listening =>
           receipts'[m] = IF m \in Claim THEN receipts[m] + 1 ELSE receipts[m]
  BY <1>1, ClaimReceipt
<1> QED BY <1>1, <1>2, <1>3, <1>4, <1>5, <1>6, SettleKeeps

\* The context in the inbox and the messages that stay behind it.
LEMMA ContextSplit ==
    ASSUME Accounts
    PROVE  LET kept == OfKind(inbox, "message") IN
           /\ QueuedInjections \subseteq Peers
           /\ kept \in Seq(Item) /\ Distinct(kept)
           /\ \A m : Has(inbox, m) <=> (m \in QueuedInjections \/ Has(kept, m))
           /\ \A m : ~(m \in QueuedInjections /\ Has(kept, m))
<1> DEFINE kept == OfKind(inbox, "message")
<1>1. inbox \in Seq(Item) /\ Distinct(inbox)
  BY DEF Accounts, QueueTypes, Sole
<1>2. Keeps(Item, kept, inbox, "message", Len(inbox))
  BY <1>1, OfKindFacts
<1> HIDE DEF kept
<1>3. DOMAIN inbox = 1..Len(inbox) /\ \A i \in DOMAIN inbox : inbox[i] \in Item
  BY <1>1
<1>4. \A i \in DOMAIN inbox : inbox[i].kind # "message" => inbox[i].id \in Peers
  BY <1>3, ItemFacts
<1>5. /\ kept \in Seq(Item) /\ Distinct(kept)
      /\ \A m : Has(kept, m) <=> \E i \in DOMAIN inbox : inbox[i].kind = "message" /\ inbox[i].id = m
  BY <1>1, <1>2, <1>3 DEF Keeps
<1>6. \A m : m \in QueuedInjections <=>
                \E i \in DOMAIN inbox : inbox[i].kind # "message" /\ inbox[i].id = m
  BY DEF QueuedInjections, IsContext, IsMessage
<1>7. QueuedInjections \subseteq Peers
  BY <1>4, <1>6
<1>8. \A m : Has(inbox, m) <=> (m \in QueuedInjections \/ Has(kept, m))
  BY <1>5, <1>6 DEF Has
<1>9. \A m : ~(m \in QueuedInjections /\ Has(kept, m))
  BY <1>1, <1>5, <1>6 DEF Distinct
<1> QED BY <1>5, <1>7, <1>8, <1>9 DEF kept

\* The claim is committed, with the context queued meanwhile on the first.
LEMMA TurnKeepsAccounts == ASSUME Control, Accounts, TurnKeeps PROVE Accounts'
<1>1. receipts' = Receipt({turn.msg}) /\ UNCHANGED <<cmds, pump>>
  BY DEF TurnKeeps, TurnRest
<1>2. turn'.msg = None /\ turn'.inj = {}
  <2>1. /\ DOMAIN turn = DOMAIN NoTurn
        /\ turn' = [turn EXCEPT !.pc = "request", !.step = @ + 1, !.msg = None, !.inj = {}]
    BY DEF Control, ControlTypes, TurnKeeps
  <2> QED BY <2>1 DEF NoTurn
<1>3. inbox \in Seq(Item) /\ Distinct(inbox)
  BY DEF Accounts, QueueTypes, Sole
<1>4. Claim \subseteq Everyone /\ \A m \in Claim : ~Has(inbox, m)
  BY ClaimFacts
<1> DEFINE late == IF turn.step = 0 THEN QueuedInjections ELSE {}
<1>5. fate' = Settle(Claim \cup late, "logged")
  BY DEF TurnKeeps
<1>6. /\ late \subseteq Peers
      /\ inbox' \in Seq(Item) /\ Distinct(inbox')
      /\ \A m : Has(inbox, m) <=> (m \in late \/ Has(inbox', m))
      /\ \A m : ~(m \in late /\ Has(inbox', m))
  <2>1. CASE turn.step = 0
    <3>1. inbox' = OfKind(inbox, "message") /\ late = QueuedInjections
      BY <2>1 DEF TurnKeeps
    <3> QED BY <3>1, ContextSplit
  <2>2. CASE turn.step # 0
    <3>1. inbox' = inbox /\ late = {}
      BY <2>2 DEF TurnKeeps
    <3> HIDE DEF late
    <3> QED BY <1>3, <3>1
  <2> QED BY <2>1, <2>2
<1> HIDE DEF late
<1> DEFINE out == Claim \cup late
<1>7. /\ out \subseteq Everyone /\ \A m \in Msgs : m \in out <=> m \in Claim
      /\ \A m : (Has(inbox, m) \/ m \in Claim) <=> (m \in out \/ Has(inbox', m))
      /\ \A m : ~(m \in out /\ Has(inbox', m))
  BY <1>4, <1>6, PumpAssumption DEF Everyone
<1>8. fate' = Settle(out, "logged")
  BY <1>5
<1> HIDE DEF out
<1>9. Listening' <=> Listening
  BY <1>1 DEF Listening
<1>10. /\ receipts' \in [Msgs -> Nat]
       /\ \A m \in Msgs : Listening =>
            receipts'[m] = IF m \in out THEN receipts[m] + 1 ELSE receipts[m]
  BY <1>1, <1>7, ClaimReceipt
<1> QED BY <1>1, <1>2, <1>6, <1>7, <1>8, <1>9, <1>10, SettleKeeps

\* The turn is aborted with what it holds; its listeners are gone.
LEMMA PumpDrainAccounts == ASSUME Control, Accounts, PumpDrain PROVE Accounts'
<1>1. /\ UNCHANGED <<cmds, inbox, receipts>> /\ pump.pc = "drain"
      /\ pump' = [pump EXCEPT !.pc = "ended"]
  BY DEF PumpDrain
<1>2. ~Listening'
  <2>1. pump'.pc = "ended"
    BY <1>1 DEF Control, ControlTypes
  <2> QED BY <2>1 DEF Listening
<1>3. CASE turn.pc \in {"none", "done"}
  <2>1. UNCHANGED <<turn, fate>>
    BY <1>3 DEF PumpDrain
  <2> QED BY <1>1, <1>2, <2>1, AccountsKept
<1>4. CASE turn.pc \notin {"none", "done"}
  <2>1. turn'.msg = None /\ turn'.inj = {} /\ fate' = Settle(Claim, "lost")
    BY <1>4 DEF PumpDrain, Control, ControlTypes, NoTurn
  <2>2. /\ inbox' \in Seq(Item) /\ Distinct(inbox') /\ receipts' \in [Msgs -> Nat]
        /\ \A m : Has(inbox', m) <=> Has(inbox, m)
    BY <1>1 DEF Accounts, QueueTypes, Sole
  <2>3. Claim \subseteq Everyone /\ \A m \in Claim : ~Has(inbox, m)
    BY ClaimFacts
  <2> QED BY <1>1, <1>2, <2>1, <2>2, <2>3, SettleKeeps
<1> QED BY <1>3, <1>4

\* A step that ends or starts a turn where nothing is claimed.
LEMMA SpawnAccounts ==
    ASSUME Control, turn.pc # "keep", Spawn \/ turn' = NoTurn \/ turn' = turn
    PROVE  turn'.msg = turn.msg /\ turn'.inj = turn.inj
<1>1. turn.msg = None /\ turn.inj = {}
  BY DEF Control, ClaimInv
<1> QED BY <1>1 DEF Spawn, NoTurn

\* The pump's steps that move no message.
LEMMA PumpQuietAccounts ==
    ASSUME Control, Accounts,
           \/ PumpWakes \/ PumpTurnDone \/ PumpCompactionDone
           \/ PumpAhead \/ PumpMark \/ PumpLook \/ PumpMove \/ PumpFire \/ PumpSweep
    PROVE  Accounts'
<1>1. UNCHANGED <<cmds, inbox, fate, receipts>>
  BY DEF PumpWakes, PumpTurnDone, PumpCompactionDone, PumpAhead, PumpMark, PumpLook, PumpMove,
         PumpFire, PumpSweep, hist
<1>2. turn'.msg = turn.msg /\ turn'.inj = turn.inj
  <2>1. CASE PumpWakes
    <3>1. turn' = turn \/ (turn.pc = "none" /\ Spawn)
      BY <2>1 DEF PumpWakes, Resting
    <3> QED BY <3>1, SpawnAccounts
  <2>2. CASE PumpTurnDone
    <3>1. turn.pc = "done" /\ (Spawn \/ turn' = NoTurn)
      BY <2>2 DEF PumpTurnDone, NextWork
    <3> QED BY <3>1, SpawnAccounts
  <2>3. CASE PumpCompactionDone
    <3>1. compaction.pc = "ended" /\ (Spawn \/ turn' = NoTurn)
      BY <2>3 DEF PumpCompactionDone, NextWork
    <3>2. turn.pc = "none"
      BY <3>1 DEF Control, OneTask
    <3> QED BY <3>1, <3>2, SpawnAccounts
  <2>4. CASE PumpAhead \/ PumpMark \/ PumpLook \/ PumpMove \/ PumpFire \/ PumpSweep
    BY <2>4 DEF PumpAhead, PumpMark, PumpLook, PumpMove, PumpFire, PumpSweep
  <2> QED BY <2>1, <2>2, <2>3, <2>4
<1>3. Listening' => Listening
  <2>1. pump.pc \in {"loop", "ahead", "mark", "look", "move", "fire", "sweep"}
    BY DEF PumpWakes, PumpTurnDone, PumpCompactionDone, PumpAhead, PumpMark, PumpLook, PumpMove,
           PumpFire, PumpSweep
  <2> QED BY <2>1 DEF Listening
<1> QED BY <1>1, <1>2, <1>3, AccountsKept

\* The requests the pump reads, and a message it puts into the inbox.
LEMMA PumpReadsAccounts ==
    ASSUME Control, Accounts,
           PumpSend \/ PumpRespond \/ PumpSnapshot \/ PumpCompact \/ PumpShutdown
    PROVE  Accounts'
<1>1. CASE PumpSend
  <2>1. turn' = turn \/ (turn.pc = "none" /\ Spawn)
    BY <1>1 DEF PumpSend, Resting
  <2>2. turn'.msg = turn.msg /\ turn'.inj = turn.inj
    BY <2>1, SpawnAccounts
  <2> QED BY <1>1, <2>2, PumpSendKeeps
<1>2. CASE PumpRespond \/ PumpSnapshot \/ PumpCompact \/ PumpShutdown
  <2>1. \E t : Reads(t) /\ t # "Send"
    <3>1. \/ Reads("Respond") \/ Reads("Snapshot") \/ Reads("Compact") \/ Reads("Shutdown")
      BY <1>2 DEF PumpRespond, PumpSnapshot, PumpCompact, PumpShutdown
    <3> QED BY <3>1
  <2>2. UNCHANGED <<inbox, fate, receipts, turn>>
    BY <1>2 DEF PumpRespond, PumpSnapshot, PumpCompact, PumpShutdown, hist
  <2>3. Listening
    BY <2>1 DEF Reads, Listening
  <2> QED BY <2>1, <2>2, <2>3, ReadRequestKeeps
<1> QED BY <1>1, <1>2

\* The turn's steps that move no message.
LEMMA TurnQuietAccounts ==
    ASSUME Control, Accounts,
           \/ TurnLook \/ TurnToken \/ TurnWorking \/ TurnAhead \/ TurnOpened
           \/ TurnRequestStopped \/ TurnAnswered \/ TurnExecutes \/ TurnAsks
           \/ TurnInserts \/ TurnWaits \/ QuestionTimesOut \/ TurnYields \/ TurnFinishes
           \/ TurnRenews \/ TurnIdles
    PROVE  Accounts'
<1>1. UNCHANGED <<cmds, inbox, fate, receipts, pump>>
  BY DEF TurnLook, TurnToken, TurnWorking, TurnAhead, TurnOpened, TurnRequestStopped,
         TurnAnswered, TurnExecutes, TurnAsks, TurnInserts, TurnWaits, QuestionTimesOut,
         TurnYields, TurnFinishes, TurnRenews, TurnIdles, TurnRest
<1>2. turn.pc # "keep"
  BY DEF TurnLook, TurnToken, TurnWorking, TurnAhead, TurnOpened, TurnRequestStopped,
         TurnAnswered, TurnExecutes, TurnAsks, TurnInserts, TurnWaits, QuestionTimesOut,
         TurnYields, TurnFinishes, TurnRenews, TurnIdles, At
<1>3. DOMAIN turn = DOMAIN NoTurn /\ turn.msg = None /\ turn.inj = {}
  BY <1>2 DEF Control, ControlTypes, ClaimInv
<1>4. turn'.msg = None /\ turn'.inj = {}
  <2>1. \/ \E pc : Go(pc)
        \/ \E stop : Ends(stop)
        \/ \E owes : turn' = [turn EXCEPT !.pc = "yield", !.owes = owes]
        \/ turn' = [turn EXCEPT !.pc = "exec", !.owes = TRUE]
        \/ turn' = [turn EXCEPT !.pc = "claim", !.closing = TRUE]
    <3>1. CASE \/ TurnLook \/ TurnToken \/ TurnWorking \/ TurnAhead \/ TurnOpened
               \/ TurnExecutes \/ TurnAsks \/ TurnWaits \/ QuestionTimesOut
               \/ TurnFinishes \/ TurnRenews \/ TurnIdles
      <4>1. \E pc : Go(pc)
        BY <3>1, Zenon DEF TurnLook, TurnToken, TurnWorking, TurnAhead, TurnOpened, TurnExecutes,
               TurnAsks, TurnWaits, QuestionTimesOut, TurnFinishes, TurnRenews, TurnIdles
      <4> QED BY <4>1
    <3>2. CASE TurnInserts
      <4>1. Go("waiting") \/ Go("yield")
        BY <3>2 DEF TurnInserts
      <4> QED BY <4>1
    <3>3. CASE TurnRequestStopped
      BY <3>3 DEF TurnRequestStopped
    <3>4. CASE TurnAnswered
      BY <3>4 DEF TurnAnswered
    <3>5. CASE TurnYields
      <4>1. \/ Ends(TRUE) \/ Ends(FALSE) \/ Go("claim")
            \/ turn' = [turn EXCEPT !.pc = "claim", !.closing = TRUE]
        BY <3>5 DEF TurnYields
      <4> QED BY <4>1
    <3> QED BY <3>1, <3>2, <3>3, <3>4, <3>5
  <2> QED BY <1>3, <2>1 DEF Go, Ends, NoTurn
<1>5. Listening' <=> Listening
  BY <1>1 DEF Listening
<1> QED BY <1>1, <1>3, <1>4, <1>5, AccountsKept

\* Every step keeps the messages accounted for.
LEMMA AccountsNext == ASSUME IInv, [Next]_vars PROVE Accounts'
<1>1. Control /\ Accounts
  BY DEF IInv
<1>2. CASE \E m \in Msgs : DriverSends(Send(m))
  BY <1>1, <1>2, DriverKeeps, CommandFacts
<1>3. CASE \E c \in Requests : DriverSends(c)
  BY <1>1, <1>3, DriverKeeps, CommandFacts
<1>4. CASE \E p \in Peers : PeerSends(p)
  BY <1>1, <1>4, PeerKeeps
<1>5. CASE PumpStep
  BY <1>1, <1>5, PumpReadsAccounts, PumpQuietAccounts, PumpCancelAccounts, PumpDrainAccounts
     DEF PumpStep
<1>6. CASE TurnStep \/ QuestionTimesOut
  BY <1>1, <1>6, TurnQuietAccounts, TurnClaimAccounts, TurnWithdrawsAccounts,
     TurnRefusesAccounts, TurnKeepsAccounts DEF TurnStep
<1>7. CASE CompactionEnds \/ UNCHANGED vars
  <2>1. UNCHANGED <<cmds, inbox, fate, receipts, turn, pump>>
    BY <1>7 DEF CompactionEnds, vars, hist
  <2>2. Listening' <=> Listening
    BY <2>1 DEF Listening
  <2> QED BY <1>1, <2>1, <2>2, AccountsKept
<1> QED BY <1>2, <1>3, <1>4, <1>5, <1>6, <1>7 DEF Next

\* Nothing is sent, nothing runs.
LEMMA InitIInv == Init => IInv
<1> SUFFICES ASSUME Init PROVE IInv
  OBVIOUS
<1>1. /\ turn.pc = "none" /\ turn.step = 0 /\ turn.msg = None /\ turn.inj = {}
      /\ DOMAIN turn = DOMAIN NoTurn /\ pump.pc = "loop" /\ pump.down = FALSE
      /\ compaction.pc = "none" /\ DOMAIN compaction = {"pc", "stop"}
      /\ pump \in [pc : PumpPcs, down : BOOLEAN]
  BY DEF Init, NoTurn, PumpPcs
<1>2. ControlTypes /\ OneTask /\ DownInv /\ ClaimInv
  BY <1>1 DEF Init, ControlTypes, TurnPcs, OneTask, DownInv, ClaimInv
<1>3. StatusInv /\ StopInv /\ Held /\ Fired
  BY <1>1 DEF Init, StatusInv, AtRest, StopInv, Held, Fired, PastAhead, Early, Running
<1>4. /\ cmds = <<>> /\ inbox = <<>> /\ DOMAIN cmds = {} /\ DOMAIN inbox = {}
      /\ cmds \in Seq(Commands) /\ inbox \in Seq(Item)
  BY DEF Init
<1>5. Claim = {}
  BY <1>1 DEF Claim
<1>6. /\ fate \in [Everyone -> Fates] /\ receipts \in [Msgs -> Nat]
      /\ \A m \in Everyone : fate[m] = "unsent"
      /\ \A m \in Msgs : receipts[m] = 0 /\ m \in Everyone
      /\ Peers \subseteq Everyone
  BY DEF Init, Everyone, Fates
<1>7. (\A m : ~SentIn(cmds, m) /\ ~Has(inbox, m)) /\ Sole
  BY <1>4 DEF SentIn, Has, Sole, SentOnce, Distinct
<1>8. QueueTypes /\ Placed
  BY <1>1, <1>4, <1>5, <1>6, <1>7 DEF QueueTypes, Placed
<1>9. Receipted /\ PeersKept
  BY <1>6 DEF Receipted, PeersKept
<1> QED BY <1>2, <1>3, <1>7, <1>8, <1>9 DEF IInv, Control, Accounts

\* The inductive invariant holds in every state the harness reaches.
THEOREM Invariant == Spec => []IInv
<1>1. IInv /\ [Next]_vars => IInv'
  <2> SUFFICES ASSUME IInv, [Next]_vars PROVE IInv'
    OBVIOUS
  <2>1. Control /\ inbox \in Seq(Item)
    BY DEF IInv, Accounts, QueueTypes
  <2>2. \A i \in DOMAIN inbox : inbox[i].id # None
    BY <2>1, ItemFacts
  <2>3. Control'
    BY <2>1, <2>2, ControlNext
  <2>4. Accounts'
    BY AccountsNext
  <2> QED BY <2>3, <2>4 DEF IInv
<1> QED BY <1>1, InitIInv, PTL DEF Spec

-----------------------------------------------------------------------------
(* What follows.                                                           *)

\* A token is only fired for a turn whose own stop was asked for: a Cancel
\* that lands as one turn ends does not stop the next (settle_cancel).
THEOREM StrayStopsNone == Spec => []NoStrayStop
<1>1. IInv => NoStrayStop
  <2> SUFFICES ASSUME Control, cancelled, status # "Idle" PROVE stopping \/ pump.down
    BY DEF IInv, NoStrayStop
  <2>1. CASE turn.pc = "aborted"
    BY <2>1 DEF Control, DownInv
  <2>2. CASE turn.pc # "aborted"
    BY <2>2 DEF Control, StatusInv, AtRest, StopInv
  <2> QED BY <2>1, <2>2
<1> QED BY <1>1, Invariant, PTL

\* Only an answer takes a turn from its request to its tools or its yield.
LEMMA RequestLeaves ==
    ASSUME Control, [Next]_vars, At("request"), turn'.pc \in {"exec", "yield"}
    PROVE  TurnAnswered
<1>0. turn.pc = "request" /\ DOMAIN turn = DOMAIN NoTurn
  BY DEF At, Control, ControlTypes
<1>1. CASE \/ \E m \in Msgs : DriverSends(Send(m))
           \/ \E c \in Requests : DriverSends(c)
           \/ \E p \in Peers : PeerSends(p)
           \/ CompactionEnds \/ UNCHANGED vars
  <2>1. turn' = turn
    BY <1>1 DEF DriverSends, PeerSends, CompactionEnds, vars
  <2> QED BY <1>0, <2>1
<1>2. CASE PumpStep
  <2>1. ASSUME PumpSend \/ PumpWakes \/ PumpTurnDone \/ PumpCompactionDone PROVE FALSE
    <3>1. turn' = turn \/ Spawn \/ turn' = NoTurn
      BY <2>1 DEF PumpSend, PumpWakes, PumpTurnDone, PumpCompactionDone, NextWork
    <3> QED BY <1>0, <3>1 DEF Spawn, NoTurn
  <2>2. ASSUME PumpDrain PROVE FALSE
    <3>1. \/ turn' = turn
          \/ turn' = [turn EXCEPT !.pc = "aborted", !.msg = None, !.inj = {}]
      BY <2>2 DEF PumpDrain
    <3> QED BY <1>0, <3>1 DEF NoTurn
  <2>3. ASSUME \/ PumpRespond \/ PumpSnapshot \/ PumpCompact \/ PumpCancel \/ PumpAhead
               \/ PumpMark \/ PumpLook \/ PumpMove \/ PumpFire \/ PumpSweep \/ PumpShutdown
        PROVE  FALSE
    <3>1. turn' = turn
      BY <2>3 DEF PumpRespond, PumpSnapshot, PumpCompact, PumpCancel, PumpAhead, PumpMark,
                  PumpLook, PumpMove, PumpFire, PumpSweep, PumpShutdown
    <3> QED BY <1>0, <3>1
  <2> QED BY <1>2, <2>1, <2>2, <2>3 DEF PumpStep
<1>3. CASE TurnStep \/ QuestionTimesOut
  <2>1. TurnRequestStopped \/ TurnAnswered
    BY <1>0, <1>3 DEF TurnStep, QuestionTimesOut, TurnLook, TurnToken, TurnWorking, TurnAhead,
                      TurnOpened, TurnClaim, TurnWithdraws, TurnRefuses, TurnKeeps, TurnExecutes,
                      TurnAsks, TurnInserts, TurnWaits, TurnYields, TurnFinishes, TurnRenews,
                      TurnIdles, At
  <2>2. ASSUME TurnRequestStopped PROVE FALSE
    <3>1. turn'.pc = "finish"
      BY <1>0, <2>2 DEF TurnRequestStopped, Ends, NoTurn
    <3> QED BY <3>1
  <2> QED BY <2>1, <2>2
<1> QED BY <1>1, <1>2, <1>3 DEF Next

\* Once a Cancel has been handled, the turn it was for takes no further
\* answer of the model, wherever in the turn the Cancel came
\* (interrupt_started, and the biased race of the request).
THEOREM StopsHold == Spec => StopHolds
<1>1. IInv /\ [Next]_vars => [stopped => ~(At("request") /\ turn'.pc \in {"exec", "yield"})]_vars
  <2> SUFFICES ASSUME IInv, [Next]_vars, stopped, At("request"), turn'.pc \in {"exec", "yield"}
               PROVE  FALSE
    OBVIOUS
  <2>1. Control
    BY DEF IInv
  <2>2. cancelled
    BY <2>1 DEF Control, Fired, Running, At
  <2>3. TurnAnswered
    BY <2>1, RequestLeaves
  <2> QED BY <2>2, <2>3 DEF TurnAnswered
<1> QED BY <1>1, Invariant, PTL DEF Spec, StopHolds

\* Who writes "logged" while a claim is held.
LEMMA KeepLogs ==
    ASSUME IInv, [Next]_vars, At("keep"), NEW m \in Everyone, fate'[m] = "logged",
           fate[m] # "logged"
    PROVE  TurnKeeps
<1>0. /\ turn.pc = "keep" /\ fate \in [Everyone -> Fates] /\ status # "Idle" /\ Control
      /\ Accounts
  BY DEF At, IInv, Accounts, QueueTypes, Control, StatusInv, AtRest
<1>1. \A out, as : as # "logged" => Settle(out, as)[m] # "logged"
  BY <1>0 DEF Settle
<1>2. CASE \/ \E n \in Msgs : DriverSends(Send(n))
           \/ \E c \in Requests : DriverSends(c)
           \/ \E p \in Peers : PeerSends(p)
  <2>1. fate' = fate \/ \E out : fate' = Settle(out, "open")
    BY <1>2 DEF DriverSends, PeerSends
  <2> QED BY <1>1, <2>1
<1>3. CASE CompactionEnds \/ UNCHANGED vars
  <2>1. fate' = fate
    BY <1>3 DEF CompactionEnds, vars, hist
  <2> QED BY <2>1
<1>4. CASE PumpStep
  <2>1. ASSUME PumpCancel PROVE FALSE
    <3>1. \E out : fate' = Settle(out, "withdrawn")
      BY <1>0, <2>1 DEF PumpCancel, StandDown
    <3> QED BY <1>1, <3>1
  <2>2. ASSUME PumpDrain PROVE FALSE
    <3>1. fate' = fate \/ fate' = Settle(Claim, "lost")
      BY <2>2 DEF PumpDrain
    <3> QED BY <1>1, <3>1
  <2>3. ASSUME \/ PumpSend \/ PumpWakes \/ PumpRespond \/ PumpSnapshot \/ PumpCompact
               \/ PumpTurnDone \/ PumpCompactionDone \/ PumpAhead \/ PumpMark \/ PumpLook
               \/ PumpMove \/ PumpFire \/ PumpSweep \/ PumpShutdown
        PROVE  FALSE
    <3>1. fate' = fate
      BY <2>3 DEF PumpSend, PumpWakes, PumpRespond, PumpSnapshot, PumpCompact, PumpTurnDone,
                  PumpCompactionDone, PumpAhead, PumpMark, PumpLook, PumpMove, PumpFire,
                  PumpSweep, PumpShutdown, hist
    <3> QED BY <3>1
  <2> QED BY <1>4, <2>1, <2>2, <2>3 DEF PumpStep
<1>5. CASE TurnStep \/ QuestionTimesOut
  <2>1. TurnWithdraws \/ TurnRefuses \/ TurnKeeps
    BY <1>0, <1>5 DEF TurnStep, QuestionTimesOut, TurnLook, TurnToken, TurnWorking, TurnAhead,
                      TurnOpened, TurnClaim, TurnRequestStopped, TurnAnswered, TurnExecutes,
                      TurnAsks, TurnInserts, TurnWaits, TurnYields, TurnFinishes, TurnRenews,
                      TurnIdles, At
  <2>2. ASSUME TurnWithdraws \/ TurnRefuses PROVE FALSE
    <3>1. fate' = Settle(Claim \ Peers, "withdrawn") \/ fate' = Settle(Claim, "refused")
      BY <2>2 DEF TurnWithdraws, TurnRefuses
    <3> QED BY <1>1, <3>1
  <2> QED BY <2>1, <2>2
<1> QED BY <1>2, <1>3, <1>4, <1>5 DEF Next

\* A fold that reaches a turn after its stop does not enter the
\* conversation (drive_as, the check between the claim and the commit).
THEOREM FoldsStop == Spec => NoFoldAfterStop
<1>1. IInv /\ [Next]_vars =>
        [(stopped /\ At("keep") /\ turn.step > 0) =>
           \A m \in Msgs \cup Peers : fate'[m] = "logged" => fate[m] = "logged"]_vars
  <2> SUFFICES ASSUME IInv, [Next]_vars, stopped, At("keep"), turn.step > 0,
                      NEW m \in Msgs \cup Peers, fate'[m] = "logged", fate[m] # "logged"
               PROVE  FALSE
    OBVIOUS
  <2>1. m \in Everyone /\ Control /\ Accounts
    BY DEF Everyone, IInv
  <2>2. TurnKeeps
    BY <2>1, KeepLogs
  <2>3. cancelled /\ turn.step \in Nat
    BY <2>1 DEF Control, Fired, Running, At, ControlTypes
  <2>4. turn.msg = None /\ turn.inj = {}
    BY <2>1, <2>2, <2>3 DEF TurnKeeps, Overtaken, Control, ClaimInv
  <2>5. Claim = {} /\ turn.step # 0
    BY <2>3, <2>4 DEF Claim
  <2>6. fate' = Settle({}, "logged")
    BY <2>2, <2>5 DEF TurnKeeps
  <2>7. fate'[m] = fate[m]
    BY <2>1, <2>6 DEF Settle, Accounts, QueueTypes
  <2> QED BY <2>7
<1> QED BY <1>1, Invariant, PTL DEF Spec, NoFoldAfterStop

\* A set of at most one element has as many as it has.
LEMMA CountOnce ==
    ASSUME NEW A, \A k, l \in A : k = l
    PROVE  Cardinality(A) = IF A = {} THEN 0 ELSE 1
<1>1. CASE A # {}
  <2>1. PICK k \in A : TRUE
    BY <1>1
  <2>2. A = {k}
    BY <2>1
  <2> QED BY <1>1, <2>2, FS_Singleton
<1>2. CASE A = {}
  BY <1>2, FS_EmptySet
<1> QED BY <1>1, <1>2

\* Every message is in exactly one place until it is settled and in none
\* after, the driver hears of each of its own once, and a stop never
\* withdraws a peer's report (Agent::stand_down, drive_as, the pump).
THEOREM Accounted == Spec => []MessagesAccounted
<1>1. IInv => MessagesAccounted
  <2> SUFFICES ASSUME Accounts PROVE MessagesAccounted
    BY DEF IInv
  <2>1. ASSUME NEW m \in Msgs \cup Peers
        PROVE  InCommands(m) + InInbox(m) + InClaim(m) = (IF fate[m] = "open" THEN 1 ELSE 0)
    <3> DEFINE A == {i \in DOMAIN cmds : cmds[i].type = "Send" /\ cmds[i].msg = m}
               B == {i \in DOMAIN inbox : inbox[i].id = m}
    <3>1. (\A k, l \in A : k = l) /\ (A = {} <=> ~SentIn(cmds, m))
      BY DEF Accounts, Sole, SentOnce, SentIn
    <3>2. (\A k, l \in B : k = l) /\ (B = {} <=> ~Has(inbox, m))
      BY DEF Accounts, Sole, Distinct, Has
    <3>3. InCommands(m) = Cardinality(A) /\ InInbox(m) = Cardinality(B)
      BY DEF InCommands, InInbox
    <3> HIDE DEF A, B
    <3>4. InCommands(m) = (IF A = {} THEN 0 ELSE 1) /\ InInbox(m) = (IF B = {} THEN 0 ELSE 1)
      BY <3>1, <3>2, <3>3, CountOnce
    <3>5. /\ fate[m] = "open" <=> (SentIn(cmds, m) \/ Has(inbox, m) \/ m \in Claim)
          /\ ~(SentIn(cmds, m) /\ Has(inbox, m))
          /\ ~(SentIn(cmds, m) /\ m \in Claim)
          /\ ~(Has(inbox, m) /\ m \in Claim)
      BY DEF Accounts, Placed, Everyone
    <3>6. InClaim(m) = (IF m \in Claim THEN 1 ELSE 0)
      BY DEF InClaim
    <3> QED BY <3>1, <3>2, <3>4, <3>5, <3>6
  <2>2. \A m \in Msgs : Listening => receipts[m] = (IF fate[m] \in {"unsent", "open"} THEN 0 ELSE 1)
    BY DEF Accounts, Receipted
  <2>3. \A p \in Peers : fate[p] # "withdrawn"
    BY DEF Accounts, PeersKept
  <2> QED BY <2>1, <2>2, <2>3 DEF MessagesAccounted
<1> QED BY <1>1, Invariant, PTL

-----------------------------------------------------------------------------
(* The bounds of the counters.                                             *)

Flags == /\ wake \in BOOLEAN /\ cancelled \in BOOLEAN /\ interrupted \in BOOLEAN
         /\ ahead \in BOOLEAN /\ stopping \in BOOLEAN /\ stopped \in BOOLEAN
Turns == [pc : TurnPcs, step : Nat, msg : Everyone \cup {None}, inj : SUBSET Peers,
          owes : BOOLEAN, closing : BOOLEAN, stop : BOOLEAN]
Compactions == [pc : {"none", "running", "ended"}, stop : BOOLEAN]

\* The closing round is the only one past the fuse, and the next request is
\* not put before the fuse was looked at.
Rounds == /\ turn.pc \in Early \cup {"none", "opened"} => turn.step = 0 /\ turn.closing = FALSE
          /\ turn.pc \in {"claim", "keep"} =>
               turn.step < IF turn.closing THEN MaxRounds + 1 ELSE MaxRounds
          /\ turn.step <= IF turn.closing THEN MaxRounds + 1 ELSE MaxRounds

\* A request the driver sent is in the channel, waits or was served.
Requested(q) == {i \in DOMAIN q : q[i].type # "Send"}
Served == /\ others \in 0..MaxCmds
          /\ snaps \in Nat /\ snapsWaiting \in Nat /\ compactsWaiting \in Nat
          /\ Cardinality(Requested(cmds)) + snapsWaiting + compactsWaiting + snaps <= others

Bounds == /\ Flags /\ turn \in Turns /\ compaction \in Compactions
          /\ question \in {"none", "pending", "resolved"}
          /\ Rounds /\ Served /\ receipts \in [Msgs -> 0..2]

\* The requests in the channel can be counted.
LEMMA RequestedFinite ==
    ASSUME NEW q \in Seq(Commands)
    PROVE  IsFiniteSet(Requested(q)) /\ Cardinality(Requested(q)) \in Nat
<1>1. Len(q) \in Nat /\ DOMAIN q = 1..Len(q)
  OBVIOUS
<1>2. Requested(q) \subseteq 1..Len(q)
  BY <1>1 DEF Requested
<1>3. 0 \in Int /\ 1 \in Int /\ Len(q) \in Int
  BY <1>1
<1>4. IsFiniteSet(1..Len(q))
  BY <1>3, FS_Interval
<1>5. IsFiniteSet(Requested(q))
  BY <1>2, <1>4, FS_Subset
<1> QED BY <1>5, FS_CardinalityType

\* The channel grows by one command ...
LEMMA RequestedAppend ==
    ASSUME NEW q \in Seq(Commands), NEW c \in Commands
    PROVE  Cardinality(Requested(Append(q, c))) =
             Cardinality(Requested(q)) + IF c.type = "Send" THEN 0 ELSE 1
<1> DEFINE r == Append(q, c)
<1>1. /\ Len(q) \in Nat /\ DOMAIN q = 1..Len(q) /\ DOMAIN r = 1..(Len(q) + 1)
      /\ r[Len(q) + 1] = c /\ \A k \in 1..Len(q) : r[k] = q[k]
  OBVIOUS
<1> HIDE DEF r
<1>2. IsFiniteSet(Requested(q)) /\ Len(q) + 1 \notin Requested(q)
  BY <1>1, RequestedFinite DEF Requested
<1>3. CASE c.type = "Send"
  <2>1. Requested(r) = Requested(q)
    BY <1>1, <1>3 DEF Requested
  <2> QED BY <1>2, <1>3, <2>1, FS_CardinalityType DEF r
<1>4. CASE c.type # "Send"
  <2>1. Requested(r) = Requested(q) \cup {Len(q) + 1}
    BY <1>1, <1>4 DEF Requested
  <2> QED BY <1>2, <1>4, <2>1, FS_AddElement DEF r
<1> QED BY <1>3, <1>4

\* ... and shrinks by one command.
LEMMA RequestedTail ==
    ASSUME NEW q \in Seq(Commands), q # <<>>
    PROVE  /\ IsFiniteSet(Requested(q)) /\ IsFiniteSet(Requested(Tail(q)))
           /\ Cardinality(Requested(Tail(q))) + (IF Head(q).type = "Send" THEN 0 ELSE 1)
                <= Cardinality(Requested(q))
<1> DEFINE t == Tail(q)
           f == [i \in Requested(t) |-> i + 1]
<1>1. /\ Len(q) \in Nat /\ Len(q) >= 1 /\ DOMAIN q = 1..Len(q)
      /\ t \in Seq(Commands) /\ Len(t) = Len(q) - 1 /\ DOMAIN t = 1..Len(t)
      /\ Head(q) = q[1] /\ \A k \in 1..Len(t) : t[k] = q[k + 1]
  OBVIOUS
<1> HIDE DEF t
<1>2. IsFiniteSet(Requested(q)) /\ IsFiniteSet(Requested(t))
  BY <1>1, RequestedFinite
<1>3. \A i \in Requested(t) : i \in Nat /\ i # 0 /\ i + 1 \in Requested(q)
  BY <1>1 DEF Requested
<1>4. IsFiniteSet(Requested(q) \ {1})
  BY <1>2, FS_Subset
<1>5. f \in Injection(Requested(t), Requested(q) \ {1})
  <2>1. f \in [Requested(t) -> Requested(q) \ {1}]
    BY <1>3
  <2>2. \A a, b \in Requested(t) : f[a] = f[b] => a = b
    BY <1>3
  <2> HIDE DEF f
  <2> QED BY <2>1, <2>2 DEF Injection, IsInjective
<1>6. Cardinality(Requested(t)) <= Cardinality(Requested(q) \ {1})
  <2> HIDE DEF f
  <2> QED BY <1>4, <1>5, FS_Injection
<1>7. Head(q).type # "Send" => 1 \in Requested(q)
  BY <1>1 DEF Requested
<1>8. Cardinality(Requested(q) \ {1}) =
        IF 1 \in Requested(q) THEN Cardinality(Requested(q)) - 1 ELSE Cardinality(Requested(q))
  BY <1>2, FS_RemoveElement
<1>9. /\ Cardinality(Requested(q)) \in Nat /\ Cardinality(Requested(t)) \in Nat
      /\ Cardinality(Requested(q) \ {1}) \in Nat
  BY <1>2, <1>4, FS_CardinalityType
<1>10. Cardinality(Requested(t)) + (IF Head(q).type = "Send" THEN 0 ELSE 1)
         <= Cardinality(Requested(q))
  BY <1>6, <1>7, <1>8, <1>9
<1> QED BY <1>2, <1>10 DEF t

\* The flags are Booleans.
LEMMA FlagsNext == ASSUME Flags, [Next]_vars PROVE Flags'
<1>1. CASE \/ \E m \in Msgs : DriverSends(Send(m))
           \/ \E c \in Requests : DriverSends(c)
           \/ \E p \in Peers : PeerSends(p)
  BY <1>1 DEF DriverSends, PeerSends, agent, Flags
<1>2. CASE CompactionEnds \/ UNCHANGED vars
  BY <1>2 DEF CompactionEnds, vars, agent, hist, Flags
<1>3. CASE PumpStep
  <2>1. CASE PumpCancel
    BY <2>1 DEF PumpCancel, StandDown, agent, Flags
  <2>2. CASE \/ PumpSend \/ PumpWakes \/ PumpRespond \/ PumpSnapshot \/ PumpCompact
             \/ PumpTurnDone \/ PumpCompactionDone
    BY <2>2 DEF PumpSend, PumpWakes, PumpRespond, PumpSnapshot, PumpCompact, PumpTurnDone,
                PumpCompactionDone, agent, hist, Flags
  <2>3. CASE \/ PumpAhead \/ PumpMark \/ PumpLook \/ PumpMove \/ PumpFire \/ PumpSweep
             \/ PumpShutdown \/ PumpDrain
    BY <2>3 DEF PumpAhead, PumpMark, PumpLook, PumpMove, PumpFire, PumpSweep, PumpShutdown,
                PumpDrain, agent, hist, Flags
  <2> QED BY <1>3, <2>1, <2>2, <2>3 DEF PumpStep
<1>4. CASE TurnStep \/ QuestionTimesOut
  BY <1>4 DEF TurnStep, QuestionTimesOut, TurnLook, TurnToken, TurnWorking, TurnAhead,
              TurnOpened, TurnClaim, TurnWithdraws, TurnRefuses, TurnKeeps, TurnRequestStopped,
              TurnAnswered, TurnExecutes, TurnAsks, TurnInserts, TurnWaits, TurnYields,
              TurnFinishes, TurnRenews, TurnIdles, TurnRest, agent, Flags
<1> QED BY <1>1, <1>2, <1>3, <1>4 DEF Next

\* A step of the turn gives it one of these.
LEMMA TurnMoves ==
    ASSUME turn \in Turns, Accounts, TurnStep \/ QuestionTimesOut
    PROVE  /\ turn' \in Turns
           /\ Rounds => Rounds'
<1>0. \A pc \in TurnPcs :
        LET u == [turn EXCEPT !.pc = pc]
        IN  u \in Turns /\ u.pc = pc /\ u.step = turn.step /\ u.closing = turn.closing
  BY DEF Turns
<1>1. \A stop \in BOOLEAN :
        [turn EXCEPT !.pc = "finish", !.msg = None, !.inj = {}, !.stop = stop] \in Turns
  BY DEF Turns, TurnPcs
<1>2. CASE TurnLook \/ TurnToken \/ TurnWorking \/ TurnAhead \/ TurnOpened
  <2>1. PICK pc \in {"token", "done", "status", "ahead", "opened", "renew", "claim"} :
          Go(pc) /\ turn.pc \in Early \cup {"opened"}
    BY <1>2 DEF TurnLook, TurnToken, TurnWorking, TurnAhead, TurnOpened, At, Early
  <2>2. /\ turn' \in Turns /\ turn'.pc = pc /\ turn'.step = turn.step
        /\ turn'.closing = turn.closing
    BY <1>0, <2>1 DEF Go, TurnPcs
  <2> QED BY <2>1, <2>2, PumpAssumption DEF Rounds, Early, Turns
<1>3. CASE TurnClaim
  <2>1. turn' \in Turns /\ turn'.pc = "keep" /\ turn'.step = turn.step
        /\ turn'.closing = turn.closing /\ turn.pc = "claim"
    <3>1. CASE HasWakingInput /\ ~turn.closing
      <4>1. inbox \in Seq(Item)
        BY DEF Accounts, QueueTypes
      <4>2. /\ FirstMessage \in DOMAIN inbox
            /\ \A k \in 1..(FirstMessage - 1) : ~IsMessage(inbox[k])
        BY <3>1, <4>1, FirstMessageFound
      <4>3. inbox[FirstMessage].id \in Everyone
        BY <4>1, <4>2, ItemFacts
      <4>4. {inbox[i].id : i \in 1..(FirstMessage - 1)} \subseteq Peers
        <5> SUFFICES ASSUME NEW i \in 1..(FirstMessage - 1) PROVE inbox[i].id \in Peers
          OBVIOUS
        <5>1. i \in DOMAIN inbox
          BY <4>1, <4>2
        <5>2. inbox[i] \in Item /\ inbox[i].kind # "message"
          BY <4>1, <4>2, <5>1 DEF IsMessage
        <5> QED BY <5>2, ItemFacts
      <4>5. turn' = [turn EXCEPT !.pc = "keep", !.msg = inbox[FirstMessage].id,
                                 !.inj = {inbox[i].id : i \in 1..(FirstMessage - 1)}]
        BY <1>3, <3>1 DEF TurnClaim
      <4> DEFINE m == inbox[FirstMessage].id
                 ms == {inbox[i].id : i \in 1..(FirstMessage - 1)}
      <4>6. \A n \in Everyone : \A ns \in SUBSET Peers :
              LET u == [turn EXCEPT !.pc = "keep", !.msg = n, !.inj = ns]
              IN  u \in Turns /\ u.pc = "keep" /\ u.step = turn.step /\ u.closing = turn.closing
        BY DEF Turns, TurnPcs
      <4>7. m \in Everyone /\ ms \in SUBSET Peers
        BY <4>3, <4>4
      <4>8. turn' = [turn EXCEPT !.pc = "keep", !.msg = m, !.inj = ms]
        BY <4>5
      <4>9. turn.pc = "claim"
        BY <1>3 DEF TurnClaim, At
      <4> HIDE DEF m, ms
      <4> QED BY <4>6, <4>7, <4>8, <4>9
    <3>2. CASE ~(HasWakingInput /\ ~turn.closing)
      <4>1. turn' = [turn EXCEPT !.pc = "keep"] /\ turn.pc = "claim" /\ "keep" \in TurnPcs
        BY <1>3, <3>2 DEF TurnClaim, Go, At, TurnPcs
      <4> QED BY <1>0, <4>1
    <3> QED BY <3>1, <3>2
  <2> QED BY <2>1 DEF Rounds, Early
<1>4. CASE TurnKeeps
  <2>1. /\ turn' = [turn EXCEPT !.pc = "request", !.step = @ + 1, !.msg = None, !.inj = {}]
        /\ turn.pc = "keep"
    BY <1>4 DEF TurnKeeps, At
  <2>2. turn.step \in Nat
    BY DEF Turns
  <2>3. turn' \in Turns
    <3>1. \A k \in Nat :
            [turn EXCEPT !.pc = "request", !.step = k, !.msg = None, !.inj = {}] \in Turns
      BY DEF Turns, TurnPcs
    <3> DEFINE k == turn.step + 1
    <3>2. turn' = [turn EXCEPT !.pc = "request", !.step = k, !.msg = None, !.inj = {}]
      BY <2>1
    <3>3. k \in Nat
      BY <2>2
    <3> HIDE DEF k
    <3> QED BY <3>1, <3>2, <3>3
  <2>4. turn'.pc = "request" /\ turn'.step = turn.step + 1 /\ turn'.closing = turn.closing
    BY <2>1 DEF Turns
  <2> QED BY <2>1, <2>2, <2>3, <2>4, PumpAssumption DEF Rounds, Early
<1>5. ASSUME NEW stop \in BOOLEAN, Ends(stop) PROVE turn' \in Turns /\ (Rounds => Rounds')
  <2>1. /\ turn' \in Turns /\ turn'.pc = "finish" /\ turn'.step = turn.step
        /\ turn'.closing = turn.closing
    BY <1>1, <1>5 DEF Ends, Turns
  <2> QED BY <2>1 DEF Rounds, Early
<1>6. ASSUME NEW pc \in {"exec", "yield", "asking", "insert", "waiting", "renew", "idle", "done"},
             Go(pc)
      PROVE  turn' \in Turns /\ (Rounds => Rounds')
  <2>1. /\ turn' \in Turns /\ turn'.pc = pc /\ turn'.step = turn.step
        /\ turn'.closing = turn.closing
    BY <1>0, <1>6 DEF Go, TurnPcs
  <2> QED BY <2>1 DEF Rounds, Early
<1>7. CASE TurnAnswered
  <2>1. ASSUME NEW pc \in {"exec", "yield"}, NEW owes \in BOOLEAN,
               turn' = [turn EXCEPT !.pc = pc, !.owes = owes]
        PROVE  turn' \in Turns /\ (Rounds => Rounds')
    <3>1. /\ turn' \in Turns /\ turn'.pc = pc /\ turn'.step = turn.step
          /\ turn'.closing = turn.closing
      BY <2>1 DEF Turns, TurnPcs
    <3> QED BY <3>1 DEF Rounds, Early
  <2> QED BY <1>5, <1>7, <2>1 DEF TurnAnswered
<1>8. CASE TurnYields
  <2>1. CASE turn' = [turn EXCEPT !.pc = "claim", !.closing = TRUE] /\ turn.closing = FALSE
    <3>1. /\ turn' \in Turns /\ turn'.pc = "claim" /\ turn'.step = turn.step
          /\ turn'.closing = TRUE /\ turn.step \in Nat
      BY <2>1 DEF Turns, TurnPcs
    <3> QED BY <2>1, <3>1, PumpAssumption DEF Rounds, Early
  <2>2. CASE Go("claim") /\ turn.closing = FALSE /\ turn.step < MaxRounds
    <3>1. /\ turn' \in Turns /\ turn'.pc = "claim" /\ turn'.step = turn.step
          /\ turn'.closing = FALSE
      BY <1>0, <2>2 DEF Go, TurnPcs
    <3> QED BY <2>2, <3>1 DEF Rounds, Early
  <2>3. turn.closing \in BOOLEAN
    BY DEF Turns
  <2> QED BY <1>5, <1>8, <2>1, <2>2, <2>3 DEF TurnYields
<1>9. CASE TurnWithdraws \/ TurnRefuses \/ TurnRequestStopped
  BY <1>5, <1>9 DEF TurnWithdraws, TurnRefuses, TurnRequestStopped
<1>10. CASE \/ TurnExecutes \/ TurnAsks \/ TurnInserts \/ TurnWaits \/ QuestionTimesOut
            \/ TurnFinishes \/ TurnRenews \/ TurnIdles
  BY <1>6, <1>10 DEF TurnExecutes, TurnAsks, TurnInserts, TurnWaits, QuestionTimesOut,
                     TurnFinishes, TurnRenews, TurnIdles
<1> QED BY <1>2, <1>3, <1>4, <1>7, <1>8, <1>9, <1>10 DEF TurnStep

\* A turn the pump starts is a new one, and one it aborts goes no further.
LEMMA TurnPumped ==
    ASSUME turn \in Turns, Rounds, Spawn \/ turn' = NoTurn \/ PumpDrain
    PROVE  turn' \in Turns /\ Rounds'
<1>1. CASE Spawn \/ turn' = NoTurn
  <2>1. NoTurn \in Turns /\ [NoTurn EXCEPT !.pc = "spawned"] \in Turns
    BY DEF NoTurn, Turns, TurnPcs
  <2>2. turn' \in Turns
    BY <1>1, <2>1 DEF Spawn
  <2>3. turn'.pc \in {"none", "spawned"} /\ turn'.step = 0 /\ turn'.closing = FALSE
    BY <1>1 DEF Spawn, NoTurn
  <2> QED BY <2>2, <2>3, PumpAssumption DEF Rounds
<1>2. CASE PumpDrain
  <2>1. \/ turn' = turn
        \/ turn' = [turn EXCEPT !.pc = "aborted", !.msg = None, !.inj = {}]
    BY <1>2 DEF PumpDrain
  <2>2. LET u == [turn EXCEPT !.pc = "aborted", !.msg = None, !.inj = {}]
        IN  /\ u \in Turns /\ u.pc = "aborted" /\ u.step = turn.step
            /\ u.closing = turn.closing
    BY DEF Turns, TurnPcs
  <2> QED BY <2>1, <2>2 DEF Rounds, Early
<1> QED BY <1>1, <1>2

\* Every step keeps the turn a turn, within the fuse.
LEMMA TurnNext ==
    ASSUME turn \in Turns, Rounds, Accounts, [Next]_vars
    PROVE  turn' \in Turns /\ Rounds'
<1>1. CASE turn' = turn
  BY <1>1 DEF Rounds
<1>2. CASE TurnStep \/ QuestionTimesOut
  BY <1>2, TurnMoves
<1>3. CASE PumpStep
  <2>1. turn' = turn \/ Spawn \/ turn' = NoTurn \/ PumpDrain
    BY <1>3 DEF PumpStep, PumpSend, PumpWakes, PumpRespond, PumpSnapshot, PumpCompact,
                PumpTurnDone, PumpCompactionDone, NextWork, PumpCancel, PumpAhead, PumpMark,
                PumpLook, PumpMove, PumpFire, PumpSweep, PumpShutdown
  <2> QED BY <1>1, <2>1, TurnPumped
<1>4. ASSUME \/ \E m \in Msgs : DriverSends(Send(m))
             \/ \E c \in Requests : DriverSends(c)
             \/ \E p \in Peers : PeerSends(p)
             \/ CompactionEnds \/ UNCHANGED vars
      PROVE  turn' = turn
  BY <1>4 DEF DriverSends, PeerSends, CompactionEnds, vars
<1> QED BY <1>1, <1>2, <1>3, <1>4 DEF Next

\* The compaction task and the question.
LEMMA TasksNext ==
    ASSUME compaction \in Compactions, question \in {"none", "pending", "resolved"}, [Next]_vars
    PROVE  compaction' \in Compactions /\ question' \in {"none", "pending", "resolved"}
<1>0. /\ [compaction EXCEPT !.stop = TRUE] \in Compactions
      /\ [compaction EXCEPT !.pc = "ended"] \in Compactions
      /\ [pc |-> "running", stop |-> FALSE] \in Compactions
      /\ [pc |-> "none", stop |-> FALSE] \in Compactions
  BY DEF Compactions
<1>1. CASE \/ \E m \in Msgs : DriverSends(Send(m))
           \/ \E c \in Requests : DriverSends(c)
           \/ \E p \in Peers : PeerSends(p)
           \/ CompactionEnds \/ UNCHANGED vars
  BY <1>0, <1>1 DEF DriverSends, PeerSends, CompactionEnds, vars
<1>2. CASE PumpStep
  BY <1>0, <1>2 DEF PumpStep, PumpSend, PumpWakes, PumpRespond, PumpSnapshot, PumpCompact,
              PumpTurnDone, PumpCompactionDone, NextWork, SpawnCompaction, NoCompaction,
              PumpCancel, PumpAhead, PumpMark, PumpLook, PumpMove, PumpFire, PumpSweep,
              PumpShutdown, PumpDrain, Resolve
<1>3. CASE TurnStep \/ QuestionTimesOut
  BY <1>3 DEF TurnStep, QuestionTimesOut, TurnLook, TurnToken, TurnWorking, TurnAhead,
              TurnOpened, TurnClaim, TurnWithdraws, TurnRefuses, TurnKeeps, TurnRequestStopped,
              TurnAnswered, TurnExecutes, TurnAsks, TurnInserts, TurnWaits, TurnYields,
              TurnFinishes, TurnRenews, TurnIdles, TurnRest
<1> QED BY <1>1, <1>2, <1>3 DEF Next

\* A request is counted once, in the channel, among the waiting or as served.
LEMMA ServedNext == ASSUME Accounts, Served, [Next]_vars PROVE Served'
<1> DEFINE n == Cardinality(Requested(cmds))
           Fits(k) == /\ others' \in 0..MaxCmds
                      /\ snaps' \in Nat /\ snapsWaiting' \in Nat /\ compactsWaiting' \in Nat
                      /\ k + snapsWaiting' + compactsWaiting' + snaps' <= others'
<1>0. cmds \in Seq(Commands) /\ n \in Nat
  BY RequestedFinite DEF Accounts, QueueTypes
<1>s. /\ others \in 0..MaxCmds /\ MaxCmds \in Nat
      /\ snaps \in Nat /\ snapsWaiting \in Nat /\ compactsWaiting \in Nat
      /\ n + snapsWaiting + compactsWaiting + snaps <= others
  BY PumpAssumption DEF Served
<1>f. Fits(Cardinality(Requested(cmds'))) => Served'
  BY DEF Served
<1>1. ASSUME UNCHANGED <<cmds, others, snapsWaiting, compactsWaiting, snaps>> PROVE Served'
  BY <1>1 DEF Served
<1>2. ASSUME NEW c \in Commands, DriverSends(c) PROVE Served'
  <2>1. /\ cmds' = Append(cmds, c) /\ UNCHANGED <<snapsWaiting, compactsWaiting, snaps>>
        /\ \/ c.type = "Send" /\ others' = others
           \/ c.type # "Send" /\ others < MaxCmds /\ others' = others + 1
    BY <1>2 DEF DriverSends, queues
  <2>2. Cardinality(Requested(cmds')) = n + IF c.type = "Send" THEN 0 ELSE 1
    BY <1>0, <2>1, RequestedAppend
  <2> HIDE DEF n
  <2>3. Fits(Cardinality(Requested(cmds')))
    BY <1>0, <1>s, <2>1, <2>2
  <2> QED BY <1>f, <2>3
<1>3. ASSUME NEW type, Reads(type)
      PROVE  /\ Cardinality(Requested(cmds')) \in Nat /\ others' = others
             /\ Cardinality(Requested(cmds')) + (IF type = "Send" THEN 0 ELSE 1) <= n
  <2>1. cmds # <<>> /\ Head(cmds).type = type /\ cmds' = Tail(cmds) /\ others' = others
    BY <1>3 DEF Reads
  <2> QED BY <1>0, <2>1, RequestedTail, FS_CardinalityType
<1>4. CASE PumpSend \/ PumpRespond \/ PumpShutdown \/ PumpCancel
  <2>1. /\ UNCHANGED <<snapsWaiting, snaps>> /\ \E type : Reads(type)
        /\ compactsWaiting' \in {compactsWaiting, 0}
    BY <1>4 DEF PumpSend, PumpRespond, PumpShutdown, PumpCancel, queues, hist
  <2>2. /\ Cardinality(Requested(cmds')) \in Nat /\ others' = others
        /\ Cardinality(Requested(cmds')) <= n
    BY <1>0, <1>3, <2>1
  <2> HIDE DEF n
  <2>3. Fits(Cardinality(Requested(cmds')))
    BY <1>0, <1>s, <2>1, <2>2
  <2> QED BY <1>f, <2>3
<1>5. CASE PumpSnapshot \/ PumpCompact
  <2>1. /\ Reads("Snapshot") \/ Reads("Compact")
        /\ \/ snaps' = snaps + 1 /\ UNCHANGED <<snapsWaiting, compactsWaiting>>
           \/ snapsWaiting' = snapsWaiting + 1 /\ UNCHANGED <<snaps, compactsWaiting>>
           \/ compactsWaiting' = compactsWaiting + 1 /\ UNCHANGED <<snaps, snapsWaiting>>
           \/ UNCHANGED <<snaps, snapsWaiting, compactsWaiting>>
    BY <1>5 DEF PumpSnapshot, PumpCompact, hist
  <2>2. /\ Cardinality(Requested(cmds')) \in Nat /\ others' = others
        /\ Cardinality(Requested(cmds')) + 1 <= n
    BY <1>3, <2>1
  <2> HIDE DEF n
  <2>3. Fits(Cardinality(Requested(cmds')))
    BY <1>0, <1>s, <2>1, <2>2
  <2> QED BY <1>f, <2>3
<1>6. CASE PumpTurnDone \/ PumpCompactionDone
  <2>1. /\ UNCHANGED <<cmds, others>>
        /\ \/ /\ compactsWaiting > 0 /\ compactsWaiting' = compactsWaiting - 1
              /\ UNCHANGED <<snapsWaiting, snaps>>
           \/ /\ snaps' = snaps + snapsWaiting /\ snapsWaiting' = 0
              /\ UNCHANGED compactsWaiting
    BY <1>6 DEF PumpTurnDone, PumpCompactionDone, NextWork
  <2>2. Cardinality(Requested(cmds')) = n
    BY <2>1
  <2> HIDE DEF n
  <2>3. Fits(Cardinality(Requested(cmds')))
    BY <1>0, <1>s, <2>1, <2>2
  <2> QED BY <1>f, <2>3
<1>7. CASE \/ PumpWakes \/ PumpAhead \/ PumpMark \/ PumpLook \/ PumpMove \/ PumpFire
           \/ PumpSweep \/ PumpDrain \/ CompactionEnds \/ UNCHANGED vars
           \/ \E p \in Peers : PeerSends(p)
  BY <1>1, <1>7 DEF PumpWakes, PumpAhead, PumpMark, PumpLook, PumpMove, PumpFire, PumpSweep,
                    PumpDrain, CompactionEnds, PeerSends, vars, queues, hist
<1>8. CASE TurnStep \/ QuestionTimesOut
  <2>1. UNCHANGED TurnRest
    BY <1>8 DEF TurnStep, QuestionTimesOut, TurnLook, TurnToken, TurnWorking, TurnAhead,
              TurnOpened, TurnClaim, TurnWithdraws, TurnRefuses, TurnKeeps, TurnRequestStopped,
              TurnAnswered, TurnExecutes, TurnAsks, TurnInserts, TurnWaits, TurnYields,
              TurnFinishes, TurnRenews, TurnIdles
  <2> QED BY <1>1, <2>1 DEF TurnRest, queues
<1>9. /\ \A m \in Msgs : Send(m) \in Commands
      /\ \A c \in Requests : c \in Commands
  BY CommandFacts
<1> QED BY <1>2, <1>4, <1>5, <1>6, <1>7, <1>8, <1>9 DEF Next, PumpStep

\* Nobody gets a second receipt, after the listeners went either.
LEMMA ReceiptsNext ==
    ASSUME receipts \in [Msgs -> 0..2], ControlTypes, Accounts', [Next]_vars
    PROVE  receipts' \in [Msgs -> 0..2]
<1>1. CASE Listening'
  <2>1. receipts' \in [Msgs -> Nat] /\ \A m \in Msgs : receipts'[m] \in {0, 1}
    BY <1>1 DEF Accounts, QueueTypes, Receipted
  <2> QED BY <2>1
<1>2. CASE ~Listening'
  <2>1. receipts' = receipts \/ (~Listening /\ \E ms : receipts' = Receipt(ms))
    <3>0. ASSUME PumpCancel PROVE FALSE
      <4>1. pump'.pc \in {"mark", "ahead"}
        BY <3>0 DEF PumpCancel, ControlTypes
      <4> QED BY <1>2, <4>1 DEF Listening
    <3>1. CASE PumpStep
      BY <3>0, <3>1 DEF PumpStep, PumpSend, PumpWakes, PumpRespond, PumpSnapshot, PumpCompact,
                PumpTurnDone, PumpCompactionDone, PumpAhead, PumpMark, PumpLook, PumpMove, PumpFire,
                PumpSweep, PumpShutdown, PumpDrain, hist
    <3>2. CASE TurnStep \/ QuestionTimesOut
      <4>1. pump' = pump /\ (receipts' = receipts \/ \E ms : receipts' = Receipt(ms))
        BY <3>2 DEF TurnStep, QuestionTimesOut, TurnLook, TurnToken, TurnWorking, TurnAhead,
              TurnOpened, TurnClaim, TurnWithdraws, TurnRefuses, TurnKeeps, TurnRequestStopped,
              TurnAnswered, TurnExecutes, TurnAsks, TurnInserts, TurnWaits, TurnYields,
              TurnFinishes, TurnRenews, TurnIdles, TurnRest
      <4> QED BY <1>2, <4>1 DEF Listening
    <3>3. CASE \/ \E m \in Msgs : DriverSends(Send(m))
               \/ \E c \in Requests : DriverSends(c)
               \/ \E p \in Peers : PeerSends(p)
               \/ CompactionEnds \/ UNCHANGED vars
      BY <3>3 DEF DriverSends, PeerSends, CompactionEnds, vars, hist
    <3> QED BY <3>1, <3>2, <3>3 DEF Next
  <2>2. ASSUME ~Listening, NEW ms, receipts' = Receipt(ms) PROVE receipts' = receipts
    BY <2>2 DEF Receipt
  <2> QED BY <2>1, <2>2
<1> QED BY <1>1, <1>2

\* Every variable has its type: a turn puts at most one request more than the
\* fuse allows, its closing round, and no request of the driver is served
\* twice (drive_as, the pump).
THEOREM TypeCorrect == Spec => []TypeOK
<1>1. Init => Bounds
  <2> SUFFICES ASSUME Init PROVE Bounds
    OBVIOUS
  <2>1. Flags /\ question \in {"none", "pending", "resolved"}
    BY DEF Init, Flags
  <2>2. turn \in Turns /\ compaction \in Compactions
    BY DEF Init, NoTurn, Turns, Compactions, TurnPcs
  <2>3. Rounds
    BY PumpAssumption DEF Init, Rounds, NoTurn
  <2>4. Served
    <3>1. Requested(cmds) = {}
      BY DEF Init, Requested
    <3>2. Cardinality(Requested(cmds)) = 0
      BY <3>1, FS_EmptySet
    <3>3. others = 0 /\ snaps = 0 /\ snapsWaiting = 0 /\ compactsWaiting = 0
      BY DEF Init
    <3> QED BY <3>2, <3>3, PumpAssumption DEF Served
  <2>5. receipts \in [Msgs -> 0..2]
    BY DEF Init
  <2> QED BY <2>1, <2>2, <2>3, <2>4, <2>5 DEF Bounds
<1>2. IInv /\ IInv' /\ Bounds /\ [Next]_vars => Bounds'
  BY FlagsNext, TurnNext, TasksNext, ServedNext, ReceiptsNext DEF IInv, Bounds, Control
<1>3. IInv /\ Bounds => TypeOK
  <2> SUFFICES ASSUME IInv, Bounds PROVE TypeOK
    OBVIOUS
  <2>1. /\ {wake, cancelled, interrupted, ahead, stopping, stopped} \subseteq BOOLEAN
        /\ question \in {"none", "pending", "resolved"}
        /\ compaction \in [pc : {"none", "running", "ended"}, stop : BOOLEAN]
        /\ receipts \in [Msgs -> 0..2]
    BY DEF Bounds, Flags, Compactions
  <2>2. /\ cmds \in Seq(Commands) /\ fate \in [Msgs \cup Peers -> Fates]
        /\ inbox \in Seq({Message(m) : m \in Msgs \cup Peers} \cup {Context(m) : m \in Peers})
    BY DEF IInv, Accounts, QueueTypes, Everyone, Item
  <2>3. status \in {"Idle", "Working", "Stopping"} /\ pump \in [pc : PumpPcs, down : BOOLEAN]
    BY DEF IInv, Control, ControlTypes
  <2>4. turn \in [pc : TurnPcs, step : 0..MaxRounds + 1,
                  msg : Msgs \cup Peers \cup {None}, inj : SUBSET Peers,
                  owes : BOOLEAN, closing : BOOLEAN, stop : BOOLEAN]
    <3>1. turn.step \in 0..MaxRounds + 1
      BY PumpAssumption DEF Bounds, Rounds, Turns
    <3> QED BY <3>1 DEF Bounds, Turns, Everyone
  <2>5. others \in 0..MaxCmds /\ snapsWaiting \in 0..MaxCmds /\ compactsWaiting \in 0..MaxCmds
        /\ snaps \in 0..MaxCmds
    <3>1. Cardinality(Requested(cmds)) \in Nat
      BY <2>2, RequestedFinite
    <3> QED BY <3>1, PumpAssumption DEF Bounds, Served
  <2> QED BY <2>1, <2>2, <2>3, <2>4, <2>5 DEF TypeOK
<1> QED BY <1>1, <1>2, <1>3, Invariant, PTL DEF Spec
=============================================================================
