------------------------- MODULE SessionLoopProofs -------------------------
(***************************************************************************)
(* Proofs about SessionLoop, for every number of commands, rounds and      *)
(* calls, and for every driver.                                            *)
(*                                                                         *)
(* NothingLost counts with Cardinality.  The inductive invariant says the  *)
(* same by membership: every number sent is in exactly one place           *)
(* (PlacedOnce), no place holds a number twice (NoRepeats), and the        *)
(* channel is in the order of sending (CmdsInv), which is what makes a     *)
(* stop newer than the steer messages it clears.                           *)
(***************************************************************************)
EXTENDS SessionLoop, FiniteSetTheorems, SequenceTheorems, TLAPS

\* What the channel, the queue and the steer buffer hold.
AnyCommand == [kind : AllKinds \cup {"Respond"}, n : Nat]
QueuedCommand == [kind : AllKinds, n : 1..MaxSent]
SteerMessage == [kind : {"Send"}, n : 1..MaxSent]
StopCommand == [kind : {"Cancel", "Shutdown"}, n : 1..MaxSent]

\* A queue holds command n (answers are not counted), and holds it once.
In(q, n) == \E k \in DOMAIN q : q[k].kind # "Respond" /\ q[k].n = n
Once(q) == \A k, l \in DOMAIN q :
              (q[k].kind # "Respond" /\ q[l].kind # "Respond" /\ q[k].n = q[l].n) => k = l

\* The same for the list of the commands carried out.
Listed(s, n) == \E k \in DOMAIN s : s[k] = n
ListedOnce(s) == \A k, l \in DOMAIN s : s[k] = s[l] => k = l

Stopped(n) == \E c \in stops : c.n = n

\* A queue is in the order of sending.
Sorted(q) == \A k, l \in DOMAIN q :
                (k < l /\ q[k].kind # "Respond" /\ q[l].kind # "Respond") => q[k].n < q[l].n

PlacedOnce ==
    \A n \in Nat : Here(In(cmds, n)) + Here(In(pending, n)) + Here(In(steer, n))
                     + Here(Listed(served, n)) + Here(n \in dropped) + Here(Stopped(n))
                     = Here(n \in 1..sent)

NoRepeats == Once(pending) /\ Once(steer) /\ ListedOnce(served)

CmdsInv == /\ Sorted(cmds)
           /\ \A m, n \in Nat : In(steer, m) /\ In(cmds, n) => m < n
           /\ \A n \in dropped : \E c \in stops : c.n > n

\* TypeOK, of the places a command can be in, and of everything else.
PlaceTypes == /\ cmds \in Seq(AnyCommand)
              /\ pending \in Seq(QueuedCommand)
              /\ steer \in Seq(SteerMessage)
              /\ served \in Seq(1..MaxSent)
              /\ dropped \subseteq 1..MaxSent
              /\ stops \subseteq StopCommand
              /\ sent \in 0..MaxSent

ControlTypes == /\ closed \in BOOLEAN /\ shutdown \in BOOLEAN /\ token \in BOOLEAN
                /\ loop \in {"idle", "turn", "drain", "ended"}
                /\ turn \in TurnStates
                /\ rounds \in 0..MaxRounds
                /\ calls \in 0..MaxCalls
                /\ asked \in Nat /\ reqs \in Nat
                /\ started \in Nat /\ completed \in Nat

\* Where the turn and the loop are: between turns the steer buffer is empty,
\* and a batch that is classified has calls left.
TurnInv == /\ turn = "none" => steer = <<>>
           /\ turn \in {"classify", "parked"} => calls > 0

Control == ControlTypes /\ TurnInv /\ OneTerminalPerTurn
Placement == PlaceTypes /\ PlacedOnce /\ NoRepeats /\ CmdsInv

IInv == Control /\ Placement

-----------------------------------------------------------------------------
(* Membership in the queues.                                               *)

\* push_back
LEMMA InAppend ==
    ASSUME NEW S, NEW q \in Seq(S), NEW c \in S
    PROVE  /\ \A n : In(Append(q, c), n) <=> (In(q, n) \/ (c.kind # "Respond" /\ c.n = n))
           /\ (Once(q) /\ (c.kind # "Respond" => ~In(q, c.n))) => Once(Append(q, c))
<1> DEFINE r == Append(q, c)
<1>1. /\ Len(q) \in Nat /\ DOMAIN q = 1..Len(q) /\ DOMAIN r = 1..(Len(q) + 1)
      /\ r[Len(q) + 1] = c /\ \A k \in 1..Len(q) : r[k] = q[k]
  OBVIOUS
<1>2. \A k \in DOMAIN r : k \in DOMAIN q \/ k = Len(q) + 1
  BY <1>1
<1>3. Len(q) + 1 \in DOMAIN r /\ DOMAIN q \subseteq DOMAIN r
  BY <1>1
<1> HIDE DEF r
<1>4. \A n : In(r, n) <=> (In(q, n) \/ (c.kind # "Respond" /\ c.n = n))
  BY <1>1, <1>2, <1>3 DEF In
<1>5. (Once(q) /\ (c.kind # "Respond" => ~In(q, c.n))) => Once(r)
  BY <1>1, <1>2, <1>3 DEF In, Once
<1> QED BY <1>4, <1>5 DEF r

\* pop_front, recv
LEMMA InTail ==
    ASSUME NEW S, NEW q \in Seq(S), q # <<>>
    PROVE  /\ Head(q) \in S /\ Tail(q) \in Seq(S)
           /\ \A n : In(q, n) <=> (In(Tail(q), n) \/ (Head(q).kind # "Respond" /\ Head(q).n = n))
           /\ Once(q) => /\ Once(Tail(q))
                         /\ Head(q).kind # "Respond" => ~In(Tail(q), Head(q).n)
           /\ Sorted(q) => /\ Sorted(Tail(q))
                           /\ Head(q).kind # "Respond" => \A n : In(Tail(q), n) => Head(q).n < n
<1> DEFINE r == Tail(q)
<1>1. /\ Len(q) \in Nat /\ Len(q) > 0 /\ DOMAIN q = 1..Len(q) /\ DOMAIN r = 1..(Len(q) - 1)
      /\ Head(q) = q[1] /\ \A k \in 1..(Len(q) - 1) : r[k] = q[k + 1]
  OBVIOUS
<1>2. Head(q) \in S /\ r \in Seq(S)
  BY <1>1
<1>3. \A k \in DOMAIN r : k + 1 \in DOMAIN q /\ r[k] = q[k + 1] /\ 1 < k + 1
  BY <1>1
<1>4. \A k \in DOMAIN q : k = 1 \/ (k - 1 \in DOMAIN r /\ r[k - 1] = q[k])
  BY <1>1
<1>5. 1 \in DOMAIN q
  BY <1>1
<1>6. \A k, l \in DOMAIN r : /\ k < l => k + 1 < l + 1
                             /\ k + 1 = l + 1 => k = l
  BY <1>1
<1>7. Head(q) = q[1]
  BY <1>1
<1> HIDE DEF r
<1>8. \A n : In(q, n) <=> (In(r, n) \/ (q[1].kind # "Respond" /\ q[1].n = n))
  BY <1>3, <1>4, <1>5 DEF In
<1>9. Once(q) => Once(r) /\ (q[1].kind # "Respond" => ~In(r, q[1].n))
  <2> SUFFICES ASSUME Once(q) PROVE Once(r) /\ (q[1].kind # "Respond" => ~In(r, q[1].n))
    OBVIOUS
  <2>1. Once(r)
    BY <1>3, <1>6 DEF Once
  <2>2. \A k \in DOMAIN r : k + 1 # 1
    BY <1>1 DEF r
  <2> QED BY <1>3, <1>5, <2>1, <2>2 DEF Once, In
<1>10. Sorted(q) => Sorted(r) /\ (q[1].kind # "Respond" => \A n : In(r, n) => q[1].n < n)
  BY <1>3, <1>5, <1>6 DEF Sorted, In
<1> QED BY <1>2, <1>7, <1>8, <1>9, <1>10 DEF r

\* The driver's next command keeps the channel sorted.
LEMMA SortedAppend ==
    ASSUME NEW S, NEW q \in Seq(S), NEW c \in S, Sorted(q),
           c.kind # "Respond" => \A n : In(q, n) => n < c.n
    PROVE  Sorted(Append(q, c))
<1> DEFINE r == Append(q, c)
<1>1. /\ Len(q) \in Nat /\ DOMAIN q = 1..Len(q) /\ DOMAIN r = 1..(Len(q) + 1)
      /\ r[Len(q) + 1] = c /\ \A k \in 1..Len(q) : r[k] = q[k]
  OBVIOUS
<1>2. \A k, l \in DOMAIN r : k < l => k \in DOMAIN q /\ (l \in DOMAIN q \/ l = Len(q) + 1)
  BY <1>1
<1> HIDE DEF r
<1>3. Sorted(r)
  BY <1>1, <1>2 DEF Sorted, In
<1> QED BY <1>3 DEF r

\* The steer buffer falls back to the queue.
LEMMA InConcat ==
    ASSUME NEW S, NEW q \in Seq(S), NEW s \in Seq(S)
    PROVE  /\ \A n : In(q \o s, n) <=> (In(q, n) \/ In(s, n))
           /\ (Once(q) /\ Once(s) /\ \A n : ~(In(q, n) /\ In(s, n))) => Once(q \o s)
<1> DEFINE r == q \o s
<1>1. /\ Len(q) \in Nat /\ DOMAIN q = 1..Len(q) /\ Len(s) \in Nat /\ DOMAIN s = 1..Len(s)
      /\ DOMAIN r = 1..(Len(q) + Len(s))
      /\ \A k \in DOMAIN r : r[k] = IF k <= Len(q) THEN q[k] ELSE s[k - Len(q)]
  OBVIOUS
<1>2. \A k \in DOMAIN r : \/ k \in DOMAIN q /\ r[k] = q[k]
                          \/ k \notin DOMAIN q /\ k - Len(q) \in DOMAIN s /\ r[k] = s[k - Len(q)]
  BY <1>1
<1>3. \A k \in DOMAIN q : k \in DOMAIN r /\ r[k] = q[k]
  BY <1>1
<1>4. \A k \in DOMAIN s : k + Len(q) \in DOMAIN r /\ r[k + Len(q)] = s[k]
  BY <1>1
<1>5. \A k, l \in DOMAIN r : k - Len(q) = l - Len(q) => k = l
  BY <1>1
<1> HIDE DEF r
<1>6. \A n : In(r, n) <=> (In(q, n) \/ In(s, n))
  BY <1>2, <1>3, <1>4 DEF In
<1>7. (Once(q) /\ Once(s) /\ \A n : ~(In(q, n) /\ In(s, n))) => Once(r)
  <2> SUFFICES ASSUME Once(q), Once(s), \A n : ~(In(q, n) /\ In(s, n)),
                      NEW k \in DOMAIN r, NEW l \in DOMAIN r,
                      r[k].kind # "Respond", r[l].kind # "Respond", r[k].n = r[l].n
               PROVE  k = l
    BY DEF Once
  <2>1. CASE k \in DOMAIN q /\ l \in DOMAIN q
    BY <1>3, <2>1 DEF Once
  <2>2. CASE k \notin DOMAIN q /\ l \notin DOMAIN q
    BY <1>2, <1>5, <2>2 DEF Once
  <2>3. CASE k \in DOMAIN q /\ l \notin DOMAIN q
    <3>1. In(q, r[k].n) /\ In(s, r[k].n)
      BY <1>2, <2>3 DEF In
    <3> QED BY <3>1
  <2>4. CASE k \notin DOMAIN q /\ l \in DOMAIN q
    <3>1. In(q, r[k].n) /\ In(s, r[k].n)
      BY <1>2, <2>4 DEF In
    <3> QED BY <3>1
  <2> QED BY <2>1, <2>2, <2>3, <2>4
<1> QED BY <1>6, <1>7 DEF r

\* A command is carried out.
LEMMA ListedAppend ==
    ASSUME NEW S, NEW s \in Seq(S), NEW m \in S
    PROVE  /\ \A n : Listed(Append(s, m), n) <=> (Listed(s, n) \/ n = m)
           /\ (ListedOnce(s) /\ ~Listed(s, m)) => ListedOnce(Append(s, m))
<1> DEFINE r == Append(s, m)
<1>1. /\ Len(s) \in Nat /\ DOMAIN s = 1..Len(s) /\ DOMAIN r = 1..(Len(s) + 1)
      /\ r[Len(s) + 1] = m /\ \A k \in 1..Len(s) : r[k] = s[k]
  OBVIOUS
<1>2. \A k \in DOMAIN r : k \in DOMAIN s \/ k = Len(s) + 1
  BY <1>1
<1>3. Len(s) + 1 \in DOMAIN r /\ DOMAIN s \subseteq DOMAIN r
  BY <1>1
<1> HIDE DEF r
<1>4. \A n : Listed(r, n) <=> (Listed(s, n) \/ n = m)
  BY <1>1, <1>2, <1>3 DEF Listed
<1>5. (ListedOnce(s) /\ ~Listed(s, m)) => ListedOnce(r)
  BY <1>1, <1>2, <1>3 DEF Listed, ListedOnce
<1> QED BY <1>4, <1>5 DEF r

\* The steer buffer is folded into the turn.
LEMMA ListedFold ==
    ASSUME NEW S, NEW s \in Seq(S), NEW C, NEW q \in Seq(C),
           \A c \in C : c.kind # "Respond" /\ c.n \in S
    PROVE  /\ s \o NumbersOf(q) \in Seq(S)
           /\ \A n : Listed(s \o NumbersOf(q), n) <=> (Listed(s, n) \/ In(q, n))
           /\ (ListedOnce(s) /\ Once(q) /\ \A n : ~(Listed(s, n) /\ In(q, n)))
                 => ListedOnce(s \o NumbersOf(q))
<1> DEFINE t == NumbersOf(q)
           r == s \o t
<1>0. \A k \in DOMAIN q : q[k] \in C
  OBVIOUS
<1>1. \A k \in DOMAIN q : q[k].kind # "Respond" /\ q[k].n \in S
  BY <1>0
<1>2. /\ Len(q) \in Nat /\ DOMAIN q = 1..Len(q)
      /\ t = [k \in 1..Len(q) |-> q[k].n]
  BY DEF NumbersOf
<1>3. t \in Seq(S) /\ Len(t) = Len(q) /\ \A k \in DOMAIN q : t[k] = q[k].n
  BY <1>1, <1>2
<1> HIDE DEF t
<1>4. /\ r \in Seq(S)
      /\ Len(s) \in Nat /\ DOMAIN s = 1..Len(s)
      /\ DOMAIN r = 1..(Len(s) + Len(q))
      /\ \A k \in DOMAIN r : r[k] = IF k <= Len(s) THEN s[k] ELSE t[k - Len(s)]
  <2>1. t \in Seq(S) /\ Len(t) = Len(q)
    BY <1>3
  <2>2. /\ r \in Seq(S) /\ Len(r) = Len(s) + Len(t)
        /\ \A k \in 1..(Len(s) + Len(t)) : r[k] = IF k <= Len(s) THEN s[k] ELSE t[k - Len(s)]
    BY <2>1, ConcatProperties
  <2>3. DOMAIN r = 1..Len(r) /\ DOMAIN s = 1..Len(s) /\ Len(s) \in Nat
    BY <2>2
  <2> QED BY <2>1, <2>2, <2>3
<1>5. \A k \in DOMAIN r : \/ k \in DOMAIN s /\ r[k] = s[k]
                          \/ k \notin DOMAIN s /\ k - Len(s) \in DOMAIN q /\ r[k] = q[k - Len(s)].n
  BY <1>2, <1>3, <1>4
<1>6. \A k \in DOMAIN s : k \in DOMAIN r /\ r[k] = s[k]
  BY <1>2, <1>4
<1>7. \A k \in DOMAIN q : k + Len(s) \in DOMAIN r /\ r[k + Len(s)] = q[k].n
  BY <1>2, <1>3, <1>4
<1>8. \A k, l \in DOMAIN r : k - Len(s) = l - Len(s) => k = l
  BY <1>2, <1>4
<1>9. r \in Seq(S)
  BY <1>4
<1> HIDE DEF r
<1>10. \A n : Listed(r, n) <=> (Listed(s, n) \/ In(q, n))
  BY <1>1, <1>5, <1>6, <1>7 DEF In, Listed
<1>11. (ListedOnce(s) /\ Once(q) /\ \A n : ~(Listed(s, n) /\ In(q, n))) => ListedOnce(r)
  <2> SUFFICES ASSUME ListedOnce(s), Once(q), \A n : ~(Listed(s, n) /\ In(q, n)),
                      NEW k \in DOMAIN r, NEW l \in DOMAIN r, r[k] = r[l]
               PROVE  k = l
    BY DEF ListedOnce
  <2>1. CASE k \in DOMAIN s /\ l \in DOMAIN s
    BY <1>6, <2>1 DEF ListedOnce
  <2>2. CASE k \notin DOMAIN s /\ l \notin DOMAIN s
    BY <1>1, <1>5, <1>8, <2>2 DEF Once
  <2>3. CASE k \in DOMAIN s /\ l \notin DOMAIN s
    <3>1. Listed(s, r[k]) /\ In(q, r[k])
      BY <1>1, <1>5, <2>3 DEF In, Listed
    <3> QED BY <3>1
  <2>4. CASE k \notin DOMAIN s /\ l \in DOMAIN s
    <3>1. Listed(s, r[k]) /\ In(q, r[k])
      BY <1>1, <1>5, <2>4 DEF In, Listed
    <3> QED BY <3>1
  <2> QED BY <2>1, <2>2, <2>3, <2>4
<1> QED BY <1>9, <1>10, <1>11 DEF r, t

\* An empty queue holds nothing.
LEMMA InEmpty == Once(<<>>) /\ \A n : ~In(<<>>, n)
BY DEF In, Once

\* What is queued or in the steer buffer is not an answer.
LEMMA NoAnswers ==
    /\ \A c \in QueuedCommand : c.kind # "Respond" /\ c.n \in 1..MaxSent
    /\ \A c \in SteerMessage : c.kind # "Respond" /\ c.n \in 1..MaxSent /\ c \in QueuedCommand
BY DEF QueuedCommand, SteerMessage, AllKinds, Prompts

-----------------------------------------------------------------------------
(* Control: the loop and the turn.                                         *)

\* Every step keeps the turn's part of the invariant.
LEMMA ControlNext == ASSUME IInv, [Next]_vars PROVE Control'
<1> USE SessionAssumption DEF driver, turnvars, history, Control, ControlTypes, TurnInv,
        OneTerminalPerTurn, Here, TurnStates, IInv
<1>1. CASE \E k \in Kinds : Send(k)
  BY <1>1 DEF Send
<1>2. CASE Answer \/ Close
  BY <1>2 DEF Answer, Close
<1>3. ASSUME NEW c, Submit(c), loop \in {"idle", "drain"}, closed' = closed PROVE Control'
  <2>1. CASE Reject(c)
    BY <1>3, <2>1 DEF Reject
  <2>2. CASE Begin(c)
    <3>1. /\ loop' = "turn" /\ turn' = "round" /\ rounds' = 0 /\ calls' = 0
          /\ started' = started + 1
          /\ UNCHANGED <<asked, reqs, completed>>
      BY <2>2 DEF Begin
    <3>2. token' \in BOOLEAN /\ shutdown' \in BOOLEAN /\ closed' \in BOOLEAN
      BY <1>3, <2>2 DEF Begin
    <3>3. turn = "none" /\ started = completed
      BY <1>3
    <3> QED BY <3>1, <3>2, <3>3
  <2> QED BY <1>3, <2>1, <2>2 DEF Submit
<1>4. ASSUME NEW c, Carry(c), loop \in {"idle", "drain"}, closed' = closed PROVE Control'
  BY <1>4 DEF Carry
<1>5. CASE ReadIdle
  <2>1. CASE Head(cmds).kind \in {"Snapshot", "Compact"} \cup Prompts
    BY <1>3, <1>4, <1>5, <2>1 DEF ReadIdle, Prompts
  <2>2. CASE Head(cmds).kind \in {"Shutdown", "Cancel"}
    BY <1>5, <2>2 DEF ReadIdle, Prompts
  <2>3. CASE Head(cmds).kind = "Respond"
    BY <1>5, <2>3 DEF ReadIdle, Prompts
  <2> QED BY <1>5, <2>1, <2>2, <2>3 DEF ReadIdle
<1>6. CASE Drain
  BY <1>3, <1>4, <1>6 DEF Drain
<1>7. CASE ReadClosed \/ Drained
  BY <1>7 DEF ReadClosed, Drained
<1>8. CASE ReadMidTurn
  <2>1. /\ turn # "none" /\ token' \in BOOLEAN /\ shutdown' \in BOOLEAN
        /\ UNCHANGED <<closed, loop, turn, rounds, calls, reqs, started, completed>>
    BY <1>8 DEF ReadMidTurn, ReadShutdown, StopTurn, Queue
  <2>2. asked' = asked \/ asked' = 0
    BY <1>8 DEF ReadMidTurn, ReadShutdown, StopTurn, Queue
  <2> QED BY <2>1, <2>2
<1>9. CASE CloseMidTurn
  BY <1>9 DEF CloseMidTurn, LeaveTurn
<1>10. CASE Finish
  BY <1>10 DEF Finish, LeaveTurn
<1>11. CASE RoundStart
  BY <1>11 DEF RoundStart
<1>12. CASE StreamCancelled \/ StreamFails \/ StreamDone
  BY <1>12 DEF StreamCancelled, StreamFails, StreamDone, Step
<1>13. CASE RespondNoCalls \/ RespondContinues \/ RespondCalls
  BY <1>13 DEF RespondNoCalls, RespondContinues, RespondCalls, Step
<1>14. CASE Classify \/ ClassifyAsk \/ Unpark
  BY <1>14 DEF Classify, ClassifyAsk, Unpark, Step
<1>15. CASE ExecuteCancelled \/ ExecuteStops \/ ExecuteDone
  BY <1>15 DEF ExecuteCancelled, ExecuteStops, ExecuteDone, Step
<1>16. CASE UNCHANGED vars
  BY <1>16 DEF vars
<1> QED BY <1>1, <1>2, <1>5, <1>6, <1>7, <1>8, <1>9, <1>10, <1>11, <1>12, <1>13, <1>14,
           <1>15, <1>16 DEF Next, Engine, TurnStep

-----------------------------------------------------------------------------
(* Placement: the commands.                                                *)

\* A step that moves no command.
LEMMA PlacementKept ==
    ASSUME Placement, UNCHANGED <<cmds, pending, steer, served, dropped, stops, sent>>
    PROVE  Placement'
<1>1. \A n : Stopped(n)' <=> Stopped(n)
  BY DEF Stopped
<1> QED BY <1>1 DEF Placement, PlaceTypes, PlacedOnce, NoRepeats, CmdsInv

\* The command at the head of the channel is newer than everything read, in
\* no other place, and older than what is left in the channel.
LEMMA HeadFacts ==
    ASSUME Placement, cmds # <<>>
    PROVE  LET c == Head(cmds)
               rest == Tail(cmds)
           IN  /\ c \in AnyCommand /\ rest \in Seq(AnyCommand) /\ Sorted(rest)
               /\ \A n : In(cmds, n) <=> (In(rest, n) \/ (c.kind # "Respond" /\ c.n = n))
               /\ c.kind # "Respond" =>
                     /\ c.n \in 1..MaxSent /\ c.n \in Nat
                     /\ ~In(rest, c.n) /\ \A n : In(rest, n) => c.n < n
                     /\ ~In(pending, c.n) /\ ~In(steer, c.n) /\ ~Listed(served, c.n)
                     /\ c.n \notin dropped /\ ~Stopped(c.n)
                     /\ \A m \in Nat : In(steer, m) => m < c.n
<1> DEFINE c == Head(cmds)
           rest == Tail(cmds)
<1>1. cmds \in Seq(AnyCommand) /\ Sorted(cmds) /\ sent \in 0..MaxSent
  BY DEF Placement, PlaceTypes, CmdsInv
<1>2. /\ c \in AnyCommand /\ rest \in Seq(AnyCommand) /\ Sorted(rest)
      /\ \A n : In(cmds, n) <=> (In(rest, n) \/ (c.kind # "Respond" /\ c.n = n))
      /\ c.kind # "Respond" => \A n : In(rest, n) => c.n < n
  BY <1>1, InTail
<1>3. c.n \in Nat
  BY <1>2 DEF AnyCommand
<1> HIDE DEF c, rest
<1>4. ASSUME c.kind # "Respond"
      PROVE  /\ c.n \in 1..MaxSent
             /\ ~In(rest, c.n)
             /\ ~In(pending, c.n) /\ ~In(steer, c.n) /\ ~Listed(served, c.n)
             /\ c.n \notin dropped /\ ~Stopped(c.n)
             /\ \A m \in Nat : In(steer, m) => m < c.n
  <2>1. In(cmds, c.n)
    BY <1>2, <1>4
  <2>2. Here(In(cmds, c.n)) + Here(In(pending, c.n)) + Here(In(steer, c.n))
          + Here(Listed(served, c.n)) + Here(c.n \in dropped) + Here(Stopped(c.n))
          = Here(c.n \in 1..sent)
    BY <1>3 DEF Placement, PlacedOnce
  <2>3. /\ c.n \in 1..sent /\ ~In(pending, c.n) /\ ~In(steer, c.n) /\ ~Listed(served, c.n)
        /\ c.n \notin dropped /\ ~Stopped(c.n)
    BY <2>1, <2>2 DEF Here
  <2>4. c.n \in 1..MaxSent
    BY <1>1, <2>3, SessionAssumption
  <2>5. ~In(rest, c.n)
    BY <1>2, <1>3, <1>4
  <2>6. \A m \in Nat : In(steer, m) => m < c.n
    BY <1>3, <2>1 DEF Placement, CmdsInv
  <2> QED BY <2>3, <2>4, <2>5, <2>6
<1> QED BY <1>2, <1>3, <1>4 DEF c, rest

\* The driver sends a command: a number no place holds yet.
LEMMA SendKeeps == ASSUME Placement, NEW k \in Kinds, Send(k) PROVE Placement'
<1> DEFINE c == Command(k, sent + 1)
<1>1. /\ cmds \in Seq(AnyCommand) /\ Sorted(cmds) /\ sent \in Nat /\ sent + 1 \in 0..MaxSent
      /\ cmds' = Append(cmds, c) /\ sent' = sent + 1
      /\ UNCHANGED <<pending, steer, served, dropped, stops>>
  BY SessionAssumption DEF Placement, PlaceTypes, CmdsInv, Send, history
<1>2. c \in AnyCommand /\ c.kind # "Respond" /\ c.n = sent + 1
  BY <1>1, SessionAssumption DEF Command, AnyCommand, AllKinds, Prompts
<1> HIDE DEF c
<1>3. \A n : In(cmds', n) <=> (In(cmds, n) \/ n = sent + 1)
  BY <1>1, <1>2, InAppend
<1>4. \A n \in Nat : \/ n \in 1..sent
                     \/ /\ ~In(cmds, n) /\ ~In(pending, n) /\ ~In(steer, n)
                        /\ ~Listed(served, n) /\ n \notin dropped /\ ~Stopped(n)
  BY DEF Placement, PlacedOnce, Here
<1>5. \A n : In(cmds, n) => n \in Nat
  <2> SUFFICES ASSUME NEW j \in DOMAIN cmds PROVE cmds[j].n \in Nat
    BY DEF In
  <2>1. cmds[j] \in AnyCommand
    BY <1>1
  <2> QED BY <2>1 DEF AnyCommand
<1>6. \A n : In(cmds, n) => n < sent + 1
  BY <1>1, <1>4, <1>5
<1>7. Sorted(cmds')
  BY <1>1, <1>2, <1>6, SortedAppend
<1>8. PlaceTypes'
  <2>1. cmds' \in Seq(AnyCommand)
    BY <1>1, <1>2
  <2> QED BY <1>1, <2>1 DEF Placement, PlaceTypes
<1>9. \A n : Stopped(n)' <=> Stopped(n)
  BY <1>1 DEF Stopped
<1>10. PlacedOnce'
  <2> SUFFICES ASSUME NEW n \in Nat
               PROVE  Here(In(cmds', n)) + Here(In(pending, n)) + Here(In(steer, n))
                       + Here(Listed(served, n)) + Here(n \in dropped) + Here(Stopped(n))
                       = Here(n \in 1..(sent + 1))
    BY <1>1, <1>9 DEF PlacedOnce
  <2>1. CASE n = sent + 1
    <3>1. n \notin 1..sent /\ n \in 1..(sent + 1)
      BY <1>1, <2>1
    <3> QED BY <1>3, <1>4, <2>1, <3>1 DEF Here
  <2>2. CASE n # sent + 1
    <3>1. n \in 1..sent <=> n \in 1..(sent + 1)
      BY <1>1, <2>2
    <3>2. In(cmds', n) <=> In(cmds, n)
      BY <1>3, <2>2
    <3> QED BY <3>1, <3>2 DEF Placement, PlacedOnce, Here
  <2> QED BY <2>1, <2>2
<1>11. CmdsInv'
  <2>1. \A m, n \in Nat : In(steer, m) /\ In(cmds', n) => m < n
    <3> SUFFICES ASSUME NEW m \in Nat, NEW n \in Nat, In(steer, m), In(cmds', n) PROVE m < n
      OBVIOUS
    <3>1. CASE In(cmds, n)
      BY <3>1 DEF Placement, CmdsInv
    <3>2. CASE n = sent + 1
      <4>1. m \in 1..sent
        BY <1>4
      <4> QED BY <1>1, <3>2, <4>1
    <3> QED BY <1>3, <3>1, <3>2
  <2> QED BY <1>1, <1>7, <2>1 DEF Placement, CmdsInv
<1>12. NoRepeats'
  BY <1>1 DEF Placement, NoRepeats
<1> QED BY <1>8, <1>10, <1>11, <1>12 DEF Placement

\* Answers are not counted.
LEMMA AnswerKeeps == ASSUME Placement, Control, Answer PROVE Placement'
<1> DEFINE c == Command("Respond", asked)
<1>1. /\ cmds \in Seq(AnyCommand) /\ Sorted(cmds) /\ cmds' = Append(cmds, c)
      /\ UNCHANGED <<sent, pending, steer, served, dropped, stops>>
  BY DEF Placement, PlaceTypes, CmdsInv, Answer, history
<1>2. c \in AnyCommand /\ c.kind = "Respond"
  BY DEF Command, AnyCommand, Control, ControlTypes
<1> HIDE DEF c
<1>3. \A n : In(cmds', n) <=> In(cmds, n)
  BY <1>1, <1>2, InAppend
<1>4. Sorted(cmds')
  BY <1>1, <1>2, SortedAppend
<1>5. cmds' \in Seq(AnyCommand)
  BY <1>1, <1>2
<1>6. \A n : Stopped(n)' <=> Stopped(n)
  BY <1>1 DEF Stopped
<1> QED BY <1>1, <1>3, <1>4, <1>5, <1>6
        DEF Placement, PlaceTypes, PlacedOnce, NoRepeats, CmdsInv, Here

\* An answer is read.
LEMMA ReadAnswer ==
    ASSUME Placement, cmds # <<>>, cmds' = Tail(cmds), Head(cmds).kind = "Respond",
           UNCHANGED <<sent, pending, steer, served, dropped, stops>>
    PROVE  Placement'
<1> DEFINE c == Head(cmds)
           rest == Tail(cmds)
<1>0. PlaceTypes /\ PlacedOnce /\ NoRepeats /\ CmdsInv
  BY DEF Placement
<1>1. /\ c \in AnyCommand /\ rest \in Seq(AnyCommand) /\ Sorted(rest)
      /\ \A n : In(cmds, n) <=> (In(rest, n) \/ (c.kind # "Respond" /\ c.n = n))
      /\ c.kind # "Respond" =>
            /\ c.n \in 1..MaxSent /\ c.n \in Nat
            /\ ~In(rest, c.n) /\ \A n : In(rest, n) => c.n < n
            /\ ~In(pending, c.n) /\ ~In(steer, c.n) /\ ~Listed(served, c.n)
            /\ c.n \notin dropped /\ ~Stopped(c.n)
            /\ \A m \in Nat : In(steer, m) => m < c.n
  BY HeadFacts
<1> HIDE DEF c, rest
<1>2. cmds' = rest /\ c.kind = "Respond"
  BY DEF c, rest
<1>3. \A n : (In(cmds', n) <=> In(cmds, n)) /\ (Stopped(n)' <=> Stopped(n))
  BY <1>1, <1>2 DEF Stopped
<1> QED BY <1>0, <1>1, <1>2, <1>3 DEF Placement, PlaceTypes, PlacedOnce, NoRepeats, CmdsInv, Here

\* A command is read and carried out.
LEMMA ReadCarried ==
    ASSUME Placement, cmds # <<>>, cmds' = Tail(cmds), Head(cmds).kind # "Respond",
           served' = Append(served, Head(cmds).n),
           UNCHANGED <<sent, pending, steer, dropped, stops>>
    PROVE  Placement'
<1> DEFINE c == Head(cmds)
           rest == Tail(cmds)
<1>0. PlaceTypes /\ PlacedOnce /\ NoRepeats /\ CmdsInv
  BY DEF Placement
<1>1. /\ c \in AnyCommand /\ rest \in Seq(AnyCommand) /\ Sorted(rest)
      /\ \A n : In(cmds, n) <=> (In(rest, n) \/ (c.kind # "Respond" /\ c.n = n))
      /\ c.kind # "Respond" =>
            /\ c.n \in 1..MaxSent /\ c.n \in Nat
            /\ ~In(rest, c.n) /\ \A n : In(rest, n) => c.n < n
            /\ ~In(pending, c.n) /\ ~In(steer, c.n) /\ ~Listed(served, c.n)
            /\ c.n \notin dropped /\ ~Stopped(c.n)
            /\ \A m \in Nat : In(steer, m) => m < c.n
  BY HeadFacts
<1> HIDE DEF c, rest
<1>2. cmds' = rest /\ c.kind # "Respond" /\ served' = Append(served, c.n)
  BY DEF c, rest
<1>3. served \in Seq(1..MaxSent) /\ c.n \in 1..MaxSent
  BY <1>0, <1>1, <1>2 DEF PlaceTypes
<1>4. /\ \A n : Listed(served', n) <=> (Listed(served, n) \/ n = c.n)
      /\ ListedOnce(served')
  <2> DEFINE S == 1..MaxSent
  <2>1. served \in Seq(S) /\ c.n \in S
    BY <1>3
  <2>2. ListedOnce(served) /\ ~Listed(served, c.n) /\ served' = Append(served, c.n)
    BY <1>0, <1>1, <1>2 DEF NoRepeats
  <2> HIDE DEF S
  <2>3. \A n : Listed(Append(served, c.n), n) <=> (Listed(served, n) \/ n = c.n)
    BY <2>1, ListedAppend
  <2>4. ListedOnce(Append(served, c.n))
    BY <2>1, <2>2, ListedAppend
  <2> QED BY <2>2, <2>3, <2>4
<1>5. \A n : Stopped(n)' <=> Stopped(n)
  BY DEF Stopped
<1>6. served' \in Seq(1..MaxSent)
  BY <1>2, <1>3
<1>7. PlaceTypes'
  BY <1>0, <1>1, <1>2, <1>6 DEF PlaceTypes
<1>8. PlacedOnce'
  <2> SUFFICES ASSUME NEW n \in Nat
               PROVE  Here(In(cmds', n)) + Here(In(pending, n)) + Here(In(steer, n))
                       + Here(Listed(served', n)) + Here(n \in dropped) + Here(Stopped(n))
                       = Here(n \in 1..sent)
    BY <1>5 DEF PlacedOnce
  <2>1. Here(In(cmds, n)) + Here(In(pending, n)) + Here(In(steer, n))
          + Here(Listed(served, n)) + Here(n \in dropped) + Here(Stopped(n))
          = Here(n \in 1..sent)
    BY <1>0 DEF PlacedOnce
  <2>2. CASE n = c.n
    <3>1. In(cmds, n) /\ ~In(cmds', n) /\ ~Listed(served, n) /\ Listed(served', n)
      BY <1>1, <1>2, <1>4, <2>2
    <3> QED BY <2>1, <3>1 DEF Here
  <2>3. CASE n # c.n
    <3>1. (In(cmds', n) <=> In(cmds, n)) /\ (Listed(served', n) <=> Listed(served, n))
      BY <1>1, <1>2, <1>4, <2>3
    <3> QED BY <2>1, <3>1 DEF Here
  <2> QED BY <2>2, <2>3
<1>9. NoRepeats' /\ CmdsInv'
  BY <1>0, <1>1, <1>2, <1>4 DEF NoRepeats, CmdsInv
<1> QED BY <1>7, <1>8, <1>9 DEF Placement

\* A command is read and queued until the turn is over.
LEMMA ReadQueued ==
    ASSUME Placement, cmds # <<>>, cmds' = Tail(cmds), Head(cmds).kind # "Respond",
           pending' = Append(pending, Head(cmds)),
           UNCHANGED <<sent, served, steer, dropped, stops>>
    PROVE  Placement'
<1> DEFINE c == Head(cmds)
           rest == Tail(cmds)
<1>0. PlaceTypes /\ PlacedOnce /\ NoRepeats /\ CmdsInv
  BY DEF Placement
<1>1. /\ c \in AnyCommand /\ rest \in Seq(AnyCommand) /\ Sorted(rest)
      /\ \A n : In(cmds, n) <=> (In(rest, n) \/ (c.kind # "Respond" /\ c.n = n))
      /\ c.kind # "Respond" =>
            /\ c.n \in 1..MaxSent /\ c.n \in Nat
            /\ ~In(rest, c.n) /\ \A n : In(rest, n) => c.n < n
            /\ ~In(pending, c.n) /\ ~In(steer, c.n) /\ ~Listed(served, c.n)
            /\ c.n \notin dropped /\ ~Stopped(c.n)
            /\ \A m \in Nat : In(steer, m) => m < c.n
  BY HeadFacts
<1> HIDE DEF c, rest
<1>2. cmds' = rest /\ c.kind # "Respond" /\ pending' = Append(pending, c)
  BY DEF c, rest
<1>3. pending \in Seq(QueuedCommand) /\ c \in QueuedCommand
  BY <1>0, <1>1, <1>2 DEF PlaceTypes, AnyCommand, QueuedCommand
<1>4. /\ \A n : In(pending', n) <=> (In(pending, n) \/ n = c.n)
      /\ Once(pending')
  BY <1>0, <1>1, <1>2, <1>3, InAppend DEF NoRepeats
<1>5. \A n : Stopped(n)' <=> Stopped(n)
  BY DEF Stopped
<1>6. pending' \in Seq(QueuedCommand)
  BY <1>2, <1>3
<1>7. PlaceTypes'
  BY <1>0, <1>1, <1>2, <1>6 DEF PlaceTypes
<1>8. PlacedOnce'
  <2> SUFFICES ASSUME NEW n \in Nat
               PROVE  Here(In(cmds', n)) + Here(In(pending', n)) + Here(In(steer, n))
                       + Here(Listed(served, n)) + Here(n \in dropped) + Here(Stopped(n))
                       = Here(n \in 1..sent)
    BY <1>5 DEF PlacedOnce
  <2>1. Here(In(cmds, n)) + Here(In(pending, n)) + Here(In(steer, n))
          + Here(Listed(served, n)) + Here(n \in dropped) + Here(Stopped(n))
          = Here(n \in 1..sent)
    BY <1>0 DEF PlacedOnce
  <2>2. CASE n = c.n
    <3>1. In(cmds, n) /\ ~In(cmds', n) /\ ~In(pending, n) /\ In(pending', n)
      BY <1>1, <1>2, <1>4, <2>2
    <3> QED BY <2>1, <3>1 DEF Here
  <2>3. CASE n # c.n
    <3>1. (In(cmds', n) <=> In(cmds, n)) /\ (In(pending', n) <=> In(pending, n))
      BY <1>1, <1>2, <1>4, <2>3
    <3> QED BY <2>1, <3>1 DEF Here
  <2> QED BY <2>2, <2>3
<1>9. NoRepeats' /\ CmdsInv'
  BY <1>0, <1>1, <1>2, <1>4 DEF NoRepeats, CmdsInv
<1> QED BY <1>7, <1>8, <1>9 DEF Placement

\* A message is read into the steer buffer: it is older than the channel.
LEMMA ReadSteered ==
    ASSUME Placement, cmds # <<>>, cmds' = Tail(cmds), Head(cmds).kind = "Send",
           steer' = Append(steer, Head(cmds)),
           UNCHANGED <<sent, served, pending, dropped, stops>>
    PROVE  Placement'
<1> DEFINE c == Head(cmds)
           rest == Tail(cmds)
<1>0. PlaceTypes /\ PlacedOnce /\ NoRepeats /\ CmdsInv
  BY DEF Placement
<1>1. /\ c \in AnyCommand /\ rest \in Seq(AnyCommand) /\ Sorted(rest)
      /\ \A n : In(cmds, n) <=> (In(rest, n) \/ (c.kind # "Respond" /\ c.n = n))
      /\ c.kind # "Respond" =>
            /\ c.n \in 1..MaxSent /\ c.n \in Nat
            /\ ~In(rest, c.n) /\ \A n : In(rest, n) => c.n < n
            /\ ~In(pending, c.n) /\ ~In(steer, c.n) /\ ~Listed(served, c.n)
            /\ c.n \notin dropped /\ ~Stopped(c.n)
            /\ \A m \in Nat : In(steer, m) => m < c.n
  BY HeadFacts
<1> HIDE DEF c, rest
<1>2. cmds' = rest /\ c.kind = "Send" /\ c.kind # "Respond" /\ steer' = Append(steer, c)
  BY DEF c, rest
<1>3. steer \in Seq(SteerMessage) /\ c \in SteerMessage
  BY <1>0, <1>1, <1>2 DEF PlaceTypes, AnyCommand, SteerMessage
<1>4. /\ \A n : In(steer', n) <=> (In(steer, n) \/ n = c.n)
      /\ Once(steer')
  BY <1>0, <1>1, <1>2, <1>3, InAppend DEF NoRepeats
<1>5. \A n : Stopped(n)' <=> Stopped(n)
  BY DEF Stopped
<1>6. steer' \in Seq(SteerMessage)
  BY <1>2, <1>3
<1>7. PlaceTypes'
  BY <1>0, <1>1, <1>2, <1>6 DEF PlaceTypes
<1>8. PlacedOnce'
  <2> SUFFICES ASSUME NEW n \in Nat
               PROVE  Here(In(cmds', n)) + Here(In(pending, n)) + Here(In(steer', n))
                       + Here(Listed(served, n)) + Here(n \in dropped) + Here(Stopped(n))
                       = Here(n \in 1..sent)
    BY <1>5 DEF PlacedOnce
  <2>1. Here(In(cmds, n)) + Here(In(pending, n)) + Here(In(steer, n))
          + Here(Listed(served, n)) + Here(n \in dropped) + Here(Stopped(n))
          = Here(n \in 1..sent)
    BY <1>0 DEF PlacedOnce
  <2>2. CASE n = c.n
    <3>1. In(cmds, n) /\ ~In(cmds', n) /\ ~In(steer, n) /\ In(steer', n)
      BY <1>1, <1>2, <1>4, <2>2
    <3> QED BY <2>1, <3>1 DEF Here
  <2>3. CASE n # c.n
    <3>1. (In(cmds', n) <=> In(cmds, n)) /\ (In(steer', n) <=> In(steer, n))
      BY <1>1, <1>2, <1>4, <2>3
    <3> QED BY <2>1, <3>1 DEF Here
  <2> QED BY <2>2, <2>3
<1>9. NoRepeats' /\ CmdsInv'
  BY <1>0, <1>1, <1>2, <1>4 DEF NoRepeats, CmdsInv
<1> QED BY <1>7, <1>8, <1>9 DEF Placement

\* A stop is read; it is newer than the steer messages it clears.
LEMMA ReadStop ==
    ASSUME Placement, cmds # <<>>, cmds' = Tail(cmds),
           Head(cmds).kind \in {"Cancel", "Shutdown"},
           stops' = stops \cup {Head(cmds)},
           \/ steer' = steer /\ dropped' = dropped
           \/ steer' = <<>> /\ dropped' = dropped \cup Numbers(steer),
           UNCHANGED <<sent, served, pending>>
    PROVE  Placement'
<1> DEFINE c == Head(cmds)
           rest == Tail(cmds)
<1>0. PlaceTypes /\ PlacedOnce /\ NoRepeats /\ CmdsInv
  BY DEF Placement
<1>1. /\ c \in AnyCommand /\ rest \in Seq(AnyCommand) /\ Sorted(rest)
      /\ \A n : In(cmds, n) <=> (In(rest, n) \/ (c.kind # "Respond" /\ c.n = n))
      /\ c.kind # "Respond" =>
            /\ c.n \in 1..MaxSent /\ c.n \in Nat
            /\ ~In(rest, c.n) /\ \A n : In(rest, n) => c.n < n
            /\ ~In(pending, c.n) /\ ~In(steer, c.n) /\ ~Listed(served, c.n)
            /\ c.n \notin dropped /\ ~Stopped(c.n)
            /\ \A m \in Nat : In(steer, m) => m < c.n
  BY HeadFacts
<1> HIDE DEF c, rest
<1>2. /\ cmds' = rest /\ c.kind \in {"Cancel", "Shutdown"} /\ c.kind # "Respond"
      /\ stops' = stops \cup {c}
  BY DEF c, rest
<1>3. c \in StopCommand
  BY <1>1, <1>2 DEF AnyCommand, StopCommand
<1>4. \A n : Stopped(n)' <=> (Stopped(n) \/ n = c.n)
  BY <1>2 DEF Stopped
<1>5. /\ steer' \in Seq(SteerMessage) /\ dropped' \subseteq 1..MaxSent /\ Once(steer')
      /\ \A n : In(steer', n) => In(steer, n)
      /\ \A n : n \in dropped' <=> (n \in dropped \/ (In(steer, n) /\ ~In(steer', n)))
  <2>1. steer \in Seq(SteerMessage) /\ dropped \subseteq 1..MaxSent /\ Once(steer)
    BY <1>0 DEF PlaceTypes, NoRepeats
  <2>2. CASE steer' = steer /\ dropped' = dropped
    BY <2>1, <2>2
  <2>3. CASE steer' = <<>> /\ dropped' = dropped \cup Numbers(steer)
    <3>1. \A k \in DOMAIN steer : steer[k] \in SteerMessage
      BY <2>1
    <3>2. \A k \in DOMAIN steer : steer[k].kind # "Respond" /\ steer[k].n \in 1..MaxSent
      BY <3>1, NoAnswers
    <3>3. \A n : n \in Numbers(steer) <=> In(steer, n)
      BY <3>2 DEF Numbers, In
    <3>4. Numbers(steer) \subseteq 1..MaxSent
      BY <3>2 DEF Numbers
    <3>5. <<>> \in Seq(SteerMessage)
      OBVIOUS
    <3> QED BY <2>1, <2>3, <3>3, <3>4, <3>5, InEmpty
  <2> QED BY <2>2, <2>3
<1>6. PlaceTypes'
  BY <1>0, <1>1, <1>2, <1>3, <1>5 DEF PlaceTypes
<1>7. PlacedOnce'
  <2> SUFFICES ASSUME NEW n \in Nat
               PROVE  Here(In(cmds', n)) + Here(In(pending, n)) + Here(In(steer', n))
                       + Here(Listed(served, n)) + Here(n \in dropped') + Here(Stopped(n)')
                       = Here(n \in 1..sent)
    BY <1>4 DEF PlacedOnce
  <2>1. Here(In(cmds, n)) + Here(In(pending, n)) + Here(In(steer, n))
          + Here(Listed(served, n)) + Here(n \in dropped) + Here(Stopped(n))
          = Here(n \in 1..sent)
    BY <1>0 DEF PlacedOnce
  <2>2. CASE n = c.n
    <3>1. In(cmds, n) /\ ~In(cmds', n) /\ ~Stopped(n) /\ Stopped(n)'
      BY <1>1, <1>2, <1>4, <1>5, <2>2
    <3>2. (n \in dropped' <=> n \in dropped) /\ (In(steer', n) <=> In(steer, n))
      BY <1>1, <1>2, <1>4, <1>5, <2>2
    <3> QED BY <2>1, <3>1, <3>2 DEF Here
  <2>3. CASE n # c.n
    <3>1. (In(cmds', n) <=> In(cmds, n)) /\ (Stopped(n)' <=> Stopped(n))
      BY <1>1, <1>2, <1>4, <1>5, <2>3
    <3>2. /\ In(steer', n) => In(steer, n)
          /\ n \in dropped' <=> (n \in dropped \/ (In(steer, n) /\ ~In(steer', n)))
      BY <1>5
    <3> QED BY <2>1, <3>1, <3>2 DEF Here
  <2> QED BY <2>2, <2>3
<1>8. NoRepeats'
  BY <1>0, <1>5 DEF NoRepeats
<1>9. CmdsInv'
  <2>1. ASSUME NEW n \in dropped' PROVE \E d \in stops' : d.n > n
    <3>1. CASE n \in dropped
      BY <1>0, <1>2, <3>1 DEF CmdsInv
    <3>2. CASE In(steer, n)
      <4>1. n \in Nat /\ n < c.n
        BY <1>1, <1>2, <1>5, <3>2
      <4> QED BY <1>1, <1>2, <4>1
    <3> QED BY <1>5, <3>1, <3>2
  <2>2. \A m, n \in Nat : In(steer', m) /\ In(cmds', n) => m < n
    BY <1>0, <1>1, <1>2, <1>5 DEF CmdsInv
  <2> QED BY <1>1, <1>2, <2>1, <2>2 DEF CmdsInv
<1> QED BY <1>6, <1>7, <1>8, <1>9 DEF Placement

\* A queued command is carried out.
LEMMA DrainCarried ==
    ASSUME Placement, pending # <<>>, pending' = Tail(pending),
           served' = Append(served, Head(pending).n),
           UNCHANGED <<sent, cmds, steer, dropped, stops>>
    PROVE  Placement'
<1> DEFINE c == Head(pending)
           rest == Tail(pending)
<1>0. PlaceTypes /\ PlacedOnce /\ NoRepeats /\ CmdsInv
  BY DEF Placement
<1>1. pending \in Seq(QueuedCommand) /\ Once(pending)
  BY <1>0 DEF PlaceTypes, NoRepeats
<1>2. /\ c \in QueuedCommand /\ rest \in Seq(QueuedCommand) /\ Once(rest)
      /\ \A n : In(pending, n) <=> (In(rest, n) \/ (c.kind # "Respond" /\ c.n = n))
      /\ c.kind # "Respond" => ~In(rest, c.n)
  BY <1>1, InTail
<1>3. c.kind # "Respond" /\ c.n \in 1..MaxSent /\ c.n \in Nat
  BY <1>2, NoAnswers
<1>4. pending' = rest /\ served' = Append(served, c.n)
  OBVIOUS
<1> HIDE DEF c, rest
<1>5. /\ ~In(cmds, c.n) /\ ~In(steer, c.n) /\ ~Listed(served, c.n)
      /\ c.n \notin dropped /\ ~Stopped(c.n)
  BY <1>0, <1>2, <1>3 DEF PlacedOnce, Here
<1>6. served \in Seq(1..MaxSent)
  BY <1>0 DEF PlaceTypes
<1>7. served' \in Seq(1..MaxSent)
  BY <1>3, <1>4, <1>6
<1>8. /\ \A n : Listed(served', n) <=> (Listed(served, n) \/ n = c.n)
      /\ ListedOnce(served')
  <2> DEFINE S == 1..MaxSent
  <2>1. served \in Seq(S) /\ c.n \in S
    BY <1>3, <1>6
  <2>2. ListedOnce(served) /\ ~Listed(served, c.n) /\ served' = Append(served, c.n)
    BY <1>0, <1>4, <1>5 DEF NoRepeats
  <2> HIDE DEF S
  <2>3. \A n : Listed(Append(served, c.n), n) <=> (Listed(served, n) \/ n = c.n)
    BY <2>1, ListedAppend
  <2>4. ListedOnce(Append(served, c.n))
    BY <2>1, <2>2, ListedAppend
  <2> QED BY <2>2, <2>3, <2>4
<1>9. \A n : Stopped(n)' <=> Stopped(n)
  BY DEF Stopped
<1>10. PlaceTypes'
  BY <1>0, <1>2, <1>4, <1>7 DEF PlaceTypes
<1>11. PlacedOnce'
  <2> SUFFICES ASSUME NEW n \in Nat
               PROVE  Here(In(cmds, n)) + Here(In(pending', n)) + Here(In(steer, n))
                       + Here(Listed(served', n)) + Here(n \in dropped) + Here(Stopped(n))
                       = Here(n \in 1..sent)
    BY <1>9 DEF PlacedOnce
  <2>1. Here(In(cmds, n)) + Here(In(pending, n)) + Here(In(steer, n))
          + Here(Listed(served, n)) + Here(n \in dropped) + Here(Stopped(n))
          = Here(n \in 1..sent)
    BY <1>0 DEF PlacedOnce
  <2>2. CASE n = c.n
    <3>1. In(pending, n) /\ ~In(pending', n) /\ ~Listed(served, n) /\ Listed(served', n)
      BY <1>2, <1>3, <1>4, <1>5, <1>8, <2>2
    <3> QED BY <2>1, <3>1 DEF Here
  <2>3. CASE n # c.n
    <3>1. (In(pending', n) <=> In(pending, n)) /\ (Listed(served', n) <=> Listed(served, n))
      BY <1>2, <1>3, <1>4, <1>5, <1>8, <2>3
    <3> QED BY <2>1, <3>1 DEF Here
  <2> QED BY <2>2, <2>3
<1>12. NoRepeats' /\ CmdsInv'
  BY <1>0, <1>2, <1>4, <1>8 DEF NoRepeats, CmdsInv
<1> QED BY <1>10, <1>11, <1>12 DEF Placement

\* The turn is over: what it left in the steer buffer falls back to the queue.
LEMMA LeaveKeeps ==
    ASSUME Placement, LeaveTurn, UNCHANGED <<sent, cmds, served, dropped, stops>>
    PROVE  Placement'
<1>0. PlaceTypes /\ PlacedOnce /\ NoRepeats /\ CmdsInv
  BY DEF Placement
<1>1. steer' = <<>> /\ pending' = pending \o steer
  BY DEF LeaveTurn
<1>2. pending \in Seq(QueuedCommand) /\ steer \in Seq(QueuedCommand)
  <2>1. pending \in Seq(QueuedCommand) /\ steer \in Seq(SteerMessage)
    BY <1>0 DEF PlaceTypes
  <2>2. SteerMessage \subseteq QueuedCommand
    BY NoAnswers
  <2> QED BY <2>1, <2>2
<1>3. \A n : In(steer, n) => n \in Nat
  <2> SUFFICES ASSUME NEW k \in DOMAIN steer PROVE steer[k].n \in Nat
    BY DEF In
  <2>1. steer[k] \in QueuedCommand
    BY <1>2
  <2> QED BY <2>1, NoAnswers
<1>4. \A n : ~(In(pending, n) /\ In(steer, n))
  BY <1>0, <1>3 DEF PlacedOnce, Here
<1>5. pending' \in Seq(QueuedCommand)
  BY <1>1, <1>2
<1>6. /\ \A n : In(pending', n) <=> (In(pending, n) \/ In(steer, n))
      /\ Once(pending')
  BY <1>0, <1>1, <1>2, <1>4, InConcat DEF NoRepeats
<1>7. Once(steer') /\ (\A n : ~In(steer', n)) /\ steer' \in Seq(SteerMessage)
  BY <1>1, InEmpty
<1>8. \A n : Stopped(n)' <=> Stopped(n)
  BY DEF Stopped
<1>9. PlaceTypes'
  BY <1>0, <1>5, <1>7 DEF PlaceTypes
<1>10. PlacedOnce'
  BY <1>0, <1>4, <1>6, <1>7, <1>8 DEF PlacedOnce, Here
<1>11. NoRepeats' /\ CmdsInv'
  BY <1>0, <1>6, <1>7 DEF NoRepeats, CmdsInv
<1> QED BY <1>9, <1>10, <1>11 DEF Placement

\* The top of a round folds the steer buffer into the turn.
LEMMA FoldKeeps ==
    ASSUME Placement, served' = served \o NumbersOf(steer), steer' = <<>>,
           UNCHANGED <<sent, cmds, pending, dropped, stops>>
    PROVE  Placement'
<1>0. PlaceTypes /\ PlacedOnce /\ NoRepeats /\ CmdsInv
  BY DEF Placement
<1>1. served \in Seq(1..MaxSent) /\ steer \in Seq(SteerMessage)
  BY <1>0 DEF PlaceTypes
<1>2. \A n : In(steer, n) => n \in Nat
  <2> SUFFICES ASSUME NEW k \in DOMAIN steer PROVE steer[k].n \in Nat
    BY DEF In
  <2>1. steer[k] \in SteerMessage
    BY <1>1
  <2> QED BY <2>1, NoAnswers
<1>3. \A n : ~(Listed(served, n) /\ In(steer, n))
  BY <1>0, <1>2 DEF PlacedOnce, Here
<1>4. /\ served' \in Seq(1..MaxSent)
      /\ \A n : Listed(served', n) <=> (Listed(served, n) \/ In(steer, n))
      /\ ListedOnce(served')
  <2>1. \A c \in SteerMessage : c.kind # "Respond" /\ c.n \in 1..MaxSent
    BY NoAnswers
  <2> QED BY <1>0, <1>1, <1>3, <2>1, ListedFold DEF NoRepeats
<1>5. Once(steer') /\ (\A n : ~In(steer', n)) /\ steer' \in Seq(SteerMessage)
  BY InEmpty
<1>6. \A n : Stopped(n)' <=> Stopped(n)
  BY DEF Stopped
<1>7. PlaceTypes'
  BY <1>0, <1>4, <1>5 DEF PlaceTypes
<1>8. PlacedOnce'
  BY <1>0, <1>3, <1>4, <1>5, <1>6 DEF PlacedOnce, Here
<1>9. NoRepeats' /\ CmdsInv'
  BY <1>0, <1>4, <1>5 DEF NoRepeats, CmdsInv
<1> QED BY <1>7, <1>8, <1>9 DEF Placement

\* A command that the idle loop or drain_pending carries out lands in served;
\* a turn that starts gets an empty steer buffer, which it already was.
LEMMA CarriedStep ==
    ASSUME IInv, loop # "turn", NEW c, Carry(c) \/ Submit(c)
    PROVE  served' = Append(served, c.n) /\ UNCHANGED <<steer, dropped, stops>>
<1>1. steer = <<>>
  BY DEF IInv, Control, TurnInv, OneTerminalPerTurn
<1>2. CASE Carry(c)
  BY <1>2 DEF Carry
<1>3. CASE Reject(c)
  BY <1>3 DEF Reject
<1>4. CASE Begin(c)
  BY <1>1, <1>4 DEF Begin
<1> QED BY <1>2, <1>3, <1>4 DEF Submit

\* The idle loop reads a command.
LEMMA ReadIdleKeeps == ASSUME IInv, ReadIdle PROVE Placement'
<1> DEFINE c == Head(cmds)
<1>1. Placement /\ loop # "turn" /\ cmds # <<>> /\ cmds' = Tail(cmds)
  BY DEF IInv, ReadIdle
<1>2. UNCHANGED <<sent, pending>>
  BY DEF ReadIdle
<1>3. \/ /\ c.kind \in {"Shutdown", "Cancel"} /\ stops' = stops \cup {c}
         /\ UNCHANGED <<steer, served, dropped>>
      \/ c.kind = "Respond" /\ UNCHANGED <<steer, served, dropped, stops>>
      \/ c.kind \in {"Snapshot", "Compact"} /\ Carry(c)
      \/ c.kind \in Prompts /\ Submit(c)
  BY DEF ReadIdle, history
<1>4. CASE c.kind \in {"Shutdown", "Cancel"} /\ stops' = stops \cup {c}
             /\ UNCHANGED <<steer, served, dropped>>
  BY <1>1, <1>2, <1>4, ReadStop
<1>5. CASE c.kind = "Respond" /\ UNCHANGED <<steer, served, dropped, stops>>
  BY <1>1, <1>2, <1>5, ReadAnswer
<1>6. CASE \/ c.kind \in {"Snapshot", "Compact"} /\ Carry(c)
           \/ c.kind \in Prompts /\ Submit(c)
  <2>1. c.kind # "Respond"
    BY <1>6 DEF Prompts
  <2>2. served' = Append(served, c.n) /\ UNCHANGED <<steer, dropped, stops>>
    BY <1>1, <1>6, CarriedStep
  <2> QED BY <1>1, <1>2, <2>1, <2>2, ReadCarried
<1> QED BY <1>3, <1>4, <1>5, <1>6

\* A command is read while a turn runs.
LEMMA ReadMidTurnKeeps == ASSUME IInv, ReadMidTurn PROVE Placement'
<1> DEFINE c == Head(cmds)
<1>1. Placement /\ cmds # <<>> /\ cmds' = Tail(cmds) /\ UNCHANGED <<sent, served>>
  BY DEF IInv, ReadMidTurn
<1>2. \/ c.kind \in {"Cancel", "Shutdown"} /\ StopTurn(c)
      \/ c.kind = "Respond" /\ UNCHANGED <<pending, steer, dropped, stops>>
      \/ c.kind \in {"Snapshot", "Compact", "Synthetic", "SendWithContext"} /\ Queue(c)
      \/ c.kind = "Send" /\ steer' = Append(steer, c) /\ UNCHANGED <<pending, dropped, stops>>
  BY DEF ReadMidTurn, ReadShutdown
<1>3. CASE c.kind \in {"Cancel", "Shutdown"} /\ StopTurn(c)
  <2>1. /\ stops' = stops \cup {c} /\ UNCHANGED pending
        /\ steer' = <<>> /\ dropped' = dropped \cup Numbers(steer)
    BY <1>3 DEF StopTurn
  <2> QED BY <1>1, <1>3, <2>1, ReadStop
<1>4. CASE c.kind = "Respond" /\ UNCHANGED <<pending, steer, dropped, stops>>
  BY <1>1, <1>4, ReadAnswer
<1>5. CASE c.kind \in {"Snapshot", "Compact", "Synthetic", "SendWithContext"} /\ Queue(c)
  <2>1. pending' = Append(pending, c) /\ UNCHANGED <<steer, dropped, stops>>
    BY <1>5 DEF Queue
  <2>2. c.kind # "Respond"
    BY <1>5
  <2> QED BY <1>1, <2>1, <2>2, ReadQueued
<1>6. CASE c.kind = "Send" /\ steer' = Append(steer, c) /\ UNCHANGED <<pending, dropped, stops>>
  BY <1>1, <1>6, ReadSteered
<1> QED BY <1>2, <1>3, <1>4, <1>5, <1>6

\* Every step keeps each command in exactly one place.
LEMMA PlacementNext == ASSUME IInv, [Next]_vars PROVE Placement'
<1>0. Placement /\ Control
  BY DEF IInv
<1>1. CASE \E k \in Kinds : Send(k)
  BY <1>0, <1>1, SendKeeps
<1>2. CASE Answer
  BY <1>0, <1>2, AnswerKeeps
<1>3. CASE ReadIdle
  BY <1>3, ReadIdleKeeps
<1>4. CASE Drain
  <2>1. /\ loop # "turn" /\ pending # <<>> /\ pending' = Tail(pending)
        /\ UNCHANGED <<cmds, sent>>
    BY <1>4 DEF Drain, driver
  <2>2. Carry(Head(pending)) \/ Submit(Head(pending))
    BY <1>4 DEF Drain
  <2>3. served' = Append(served, Head(pending).n) /\ UNCHANGED <<steer, dropped, stops>>
    BY <2>1, <2>2, CarriedStep
  <2> QED BY <1>0, <2>1, <2>3, DrainCarried
<1>5. CASE ReadMidTurn
  BY <1>5, ReadMidTurnKeeps
<1>6. CASE CloseMidTurn \/ Finish
  <2>1. LeaveTurn /\ UNCHANGED <<sent, cmds, served, dropped, stops>>
    BY <1>6 DEF CloseMidTurn, Finish, driver, history
  <2> QED BY <1>0, <2>1, LeaveKeeps
<1>7. CASE RoundStart
  <2>1. UNCHANGED <<sent, cmds, pending, dropped, stops>>
    BY <1>7 DEF RoundStart, driver
  <2>2. \/ UNCHANGED <<steer, served>>
        \/ served' = served \o NumbersOf(steer) /\ steer' = <<>>
    BY <1>7 DEF RoundStart
  <2> QED BY <1>0, <2>1, <2>2, FoldKeeps, PlacementKept
<1>8. ASSUME \/ Close \/ ReadClosed \/ Drained
             \/ StreamCancelled \/ StreamFails \/ StreamDone
             \/ RespondNoCalls \/ RespondContinues \/ RespondCalls
             \/ Classify \/ ClassifyAsk \/ Unpark
             \/ ExecuteCancelled \/ ExecuteStops \/ ExecuteDone
             \/ UNCHANGED vars
      PROVE  Placement'
  <2>1. UNCHANGED <<cmds, pending, steer, served, dropped, stops, sent>>
    BY <1>8 DEF Close, ReadClosed, Drained, StreamCancelled, StreamFails, StreamDone,
                RespondNoCalls, RespondContinues, RespondCalls, Classify, ClassifyAsk,
                Unpark, ExecuteCancelled, ExecuteStops, ExecuteDone, vars, driver, history
  <2> QED BY <1>0, <2>1, PlacementKept
<1> QED BY <1>1, <1>2, <1>3, <1>4, <1>5, <1>6, <1>7, <1>8 DEF Next, Engine, TurnStep

-----------------------------------------------------------------------------
(* The theorems.                                                           *)

\* A fresh session: nothing sent, nothing anywhere.
LEMMA InitIInv == Init => IInv
<1> SUFFICES ASSUME Init PROVE IInv
  OBVIOUS
<1>1. ControlTypes /\ TurnInv /\ OneTerminalPerTurn
  <2>1. closed \in BOOLEAN /\ shutdown \in BOOLEAN /\ token \in BOOLEAN
    BY DEF Init
  <2>2. rounds \in 0..MaxRounds /\ calls \in 0..MaxCalls
    BY SessionAssumption DEF Init
  <2>3. turn \in TurnStates /\ loop \in {"idle", "turn", "drain", "ended"}
    BY DEF Init, TurnStates
  <2>4. asked \in Nat /\ reqs \in Nat /\ started \in Nat /\ completed \in Nat
    BY DEF Init
  <2>5. TurnInv
    BY DEF Init, TurnInv
  <2>6. OneTerminalPerTurn
    <3>1. loop = "idle" /\ turn = "none" /\ started = 0 /\ completed = 0
      BY DEF Init
    <3> QED BY <3>1 DEF OneTerminalPerTurn, Here
  <2> QED BY <2>1, <2>2, <2>3, <2>4, <2>5, <2>6 DEF ControlTypes
<1>2. /\ \A n : ~In(cmds, n) /\ ~In(pending, n) /\ ~In(steer, n)
      /\ Once(pending) /\ Once(steer)
  BY InEmpty DEF Init
<1>3. /\ \A n : ~Listed(served, n) /\ ~Stopped(n) /\ n \notin dropped
      /\ ListedOnce(served) /\ Sorted(cmds)
  BY DEF Init, Listed, ListedOnce, Stopped, Sorted
<1>4. \A n \in Nat : n \notin 1..sent
  BY DEF Init
<1>5. PlacedOnce
  BY <1>2, <1>3, <1>4 DEF PlacedOnce, Here
<1>6. PlaceTypes
  BY SessionAssumption DEF Init, PlaceTypes
<1> QED BY <1>1, <1>2, <1>3, <1>5, <1>6 DEF IInv, Control, Placement, NoRepeats, CmdsInv

\* The inductive invariant holds in every state of the session loop.
THEOREM Invariant == Spec => []IInv
<1>1. IInv /\ [Next]_vars => IInv'
  BY ControlNext, PlacementNext DEF IInv
<1> QED BY <1>1, InitIInv, PTL DEF Spec

\* The session's state has its type: TypeOK is an invariant.
THEOREM TypeCorrect == Spec => []TypeOK
<1>1. IInv => TypeOK
  <2> SUFFICES ASSUME IInv PROVE TypeOK
    OBVIOUS
  <2>1. PlaceTypes /\ ControlTypes
    BY DEF IInv, Control, Placement
  <2> QED BY <2>1, Zenon DEF PlaceTypes, ControlTypes, TypeOK, AnyCommand,
                             QueuedCommand, SteerMessage, StopCommand
<1> QED BY <1>1, Invariant, PTL

\* process_send_message: turns run one at a time and each ends with exactly
\* one TurnComplete, however stops, answers and the driver's hanging up
\* interleave with it; only a turn dropped with the driver goes without.
THEOREM TerminalOnce == Spec => []OneTerminalPerTurn
<1>1. IInv => OneTerminalPerTurn
  BY DEF IInv, Control
<1> QED BY <1>1, Invariant, PTL

\* Counting a set of places that holds at most one.
LEMMA CountOnce ==
    ASSUME NEW A, \A k, l \in A : k = l
    PROVE  Cardinality(A) = Here(A # {})
<1>1. CASE A # {}
  <2>1. PICK k \in A : TRUE
    BY <1>1
  <2>2. A = {k}
    BY <2>1
  <2> QED BY <1>1, <2>2, FS_Singleton DEF Here
<1>2. CASE A = {}
  BY <1>2, FS_EmptySet DEF Here
<1> QED BY <1>1, <1>2

\* Occurrences counts what In and Once describe.
LEMMA OccurrencesOnce ==
    ASSUME NEW q, NEW n, Once(q)
    PROVE  Occurrences(q, n) = Here(In(q, n))
<1> DEFINE A == {k \in DOMAIN q : q[k].kind # "Respond" /\ q[k].n = n}
<1>1. \A k, l \in A : k = l
  BY DEF Once
<1>2. A # {} <=> In(q, n)
  BY DEF In
<1>3. Cardinality(A) = Here(A # {})
  <2> HIDE DEF A
  <2> QED BY <1>1, CountOnce
<1> QED BY <1>2, <1>3 DEF Occurrences, Here

\* The engine's two queues, the channel and the turn neither lose a command
\* nor carry one out twice, and what a stop clears was sent before it.
THEOREM NothingIsLost == Spec => []NothingLost
<1>1. ASSUME IInv PROVE NothingLost
  <2>0. PlaceTypes /\ PlacedOnce /\ NoRepeats /\ CmdsInv
    BY <1>1 DEF IInv, Placement
  <2>1. Once(cmds)
    <3> SUFFICES ASSUME NEW k \in DOMAIN cmds, NEW l \in DOMAIN cmds,
                        cmds[k].kind # "Respond", cmds[l].kind # "Respond",
                        cmds[k].n = cmds[l].n, k # l
                 PROVE  FALSE
      BY DEF Once
    <3>1. cmds[k] \in AnyCommand /\ k \in Nat /\ l \in Nat
      BY <2>0 DEF PlaceTypes
    <3>2. cmds[k].n \in Nat
      BY <3>1 DEF AnyCommand
    <3>3. k < l \/ l < k
      BY <3>1
    <3>4. cmds[k].n < cmds[l].n \/ cmds[l].n < cmds[k].n
      BY <2>0, <3>3 DEF CmdsInv, Sorted
    <3> QED BY <3>2, <3>4
  <2>2. ASSUME NEW n \in 1..sent
        PROVE  Occurrences(cmds, n) + Occurrences(pending, n) + Occurrences(steer, n)
                 + Cardinality({k \in DOMAIN served : served[k] = n})
                 + Here(n \in dropped) + Here(\E c \in stops : c.n = n) = 1
    <3>1. /\ Occurrences(cmds, n) = Here(In(cmds, n))
          /\ Occurrences(pending, n) = Here(In(pending, n))
          /\ Occurrences(steer, n) = Here(In(steer, n))
      BY <2>0, <2>1, OccurrencesOnce DEF NoRepeats
    <3>2. Cardinality({k \in DOMAIN served : served[k] = n}) = Here(Listed(served, n))
      <4> DEFINE A == {k \in DOMAIN served : served[k] = n}
      <4>1. \A k, l \in A : k = l
        BY <2>0 DEF NoRepeats, ListedOnce
      <4>2. A # {} <=> Listed(served, n)
        BY DEF Listed
      <4>3. Cardinality(A) = Here(A # {})
        <5> HIDE DEF A
        <5> QED BY <4>1, CountOnce
      <4> QED BY <4>2, <4>3 DEF Here
    <3>3. n \in Nat
      BY <2>0 DEF PlaceTypes
    <3>4. Here(In(cmds, n)) + Here(In(pending, n)) + Here(In(steer, n))
            + Here(Listed(served, n)) + Here(n \in dropped) + Here(Stopped(n))
            = Here(n \in 1..sent)
      BY <2>0, <3>3 DEF PlacedOnce
    <3>5. Here(n \in 1..sent) = 1 /\ (Stopped(n) <=> \E c \in stops : c.n = n)
      BY DEF Here, Stopped
    <3> QED BY <3>1, <3>2, <3>4, <3>5 DEF Stopped
  <2> QED BY <2>0, <2>2 DEF NothingLost, CmdsInv
<1> QED BY <1>1, Invariant, PTL
=============================================================================
