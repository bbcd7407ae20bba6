--------------------------- MODULE RunTurnProofs ---------------------------
(***************************************************************************)
(* Proofs about the two models of run_turn: the guards against a model     *)
(* that repeats itself (LoopGuards), for all thresholds                    *)
(* ToolLoopPolicy::new accepts, and the round loop (TurnEngine), for every *)
(* value of its budgets.                                                   *)
(***************************************************************************)
EXTENDS LoopGuards, TurnEngine, TLAPS

----------------------------------------------------------------------------
(* The guards.                                                             *)

\* Both guards start with nothing counted.
LEMMA InitIInv == GuardsInit => IInv
<1> SUFFICES ASSUME GuardsInit PROVE IInv
    OBVIOUS
<1>1. /\ exact \in BOOLEAN /\ spoken \in BOOLEAN /\ nudged \in BOOLEAN
      /\ warned \in BOOLEAN /\ corrected \in BOOLEAN /\ ~nudged
  BY Zenon DEF GuardsInit
<1> QED
  BY <1>1, GuardAssumption DEF GuardsInit, IInv, GuardsTypeOK, Counting, FuseHeld, SilentRun,
     RunawayBounded, StopNeedsEvidence, StopIsWarned

\* A saturating counter stays a counter, and moves by one below the cap.
LEMMA UpFacts ==
    ASSUME NEW n \in 0..Cap
    PROVE  /\ Up(n) \in 0..Cap
           /\ n < Cap => Up(n) = n + 1
           /\ Up(n) >= n /\ Up(n) <= n + 1
           /\ Up(n) >= 1
  BY GuardAssumption DEF Up

\* Every step that is not the end of a batch preserves the invariant: counters
\* are kept or reset together.
LEMMA OtherSteps ==
    ASSUME IInv, UNCHANGED exact,
           \/ \E b \in BOOLEAN : Start(b) \/ Reply(b)
           \/ Speak \/ RoundTop \/ Replay \/ EndTurn
    PROVE  IInv'
<1> USE GuardAssumption DEF IInv, GuardsTypeOK, Counting, FuseHeld, SilentRun,
        RunawayBounded, StopNeedsEvidence, StopIsWarned, exactvars, coarsevars
<1>r. ASSUME ResetExact PROVE consecutive' = 0 /\ last' = None /\ warned' \in BOOLEAN
  BY <1>r, Zenon DEF ResetExact
<1>c. ASSUME ResetCoarse
      PROVE  /\ sig' = None /\ repeats' = 0 /\ same' = 0
             /\ nudged' \in BOOLEAN /\ corrected' \in BOOLEAN /\ ~nudged'
  BY <1>c, Zenon DEF ResetCoarse
<1>1. ASSUME NEW b \in BOOLEAN, Start(b) PROVE IInv'
  <2>1. CASE b
    <3>1. ResetExact /\ ResetCoarse
      BY <1>1, <2>1 DEF Start
    <3> QED BY <1>1, <2>1, <3>1, <1>r, <1>c DEF Start
  <2>2. CASE ~b
    <3>1. ResetCoarse /\ UNCHANGED exactvars
      BY <1>1, <2>2 DEF Start
    <3> QED BY <1>1, <2>2, <3>1, <1>c DEF Start
  <2> QED BY <2>1, <2>2
<1>2. ASSUME NEW b \in BOOLEAN, Reply(b) PROVE IInv'
  <2>1. ResetExact /\ ResetCoarse
    BY <1>2 DEF Reply
  <2>2. phase' \in {"top", "idle"} /\ endedBy' \in {"none", "Stopped"}
        /\ (phase' = "top" => endedBy' = "none")
    BY <1>2 DEF Reply
  <2> QED BY <1>2, <2>1, <2>2, <1>r, <1>c DEF Reply
<1>3. CASE Speak
  <2>1. spoken' \in BOOLEAN
    BY <1>3, Zenon DEF Speak
  <2> QED BY <1>3, <2>1 DEF Speak
<1>4. CASE RoundTop
  <2>0. spoken' \in BOOLEAN
    BY <1>4, Zenon DEF RoundTop
  <2>1. CASE spoken
    <3>1. ResetExact /\ ResetCoarse
      BY <1>4, <2>1 DEF RoundTop
    <3> QED BY <1>4, <2>0, <2>1, <3>1, <1>r, <1>c DEF RoundTop
  <2>2. CASE ~spoken
    BY <1>4, <2>0, <2>2 DEF RoundTop
  <2> QED BY <2>1, <2>2
<1>5. CASE EndTurn
  <2>1. spoken' \in BOOLEAN
    BY <1>5, Zenon DEF EndTurn
  <2> QED BY <1>5, <2>1 DEF EndTurn
<1>6. CASE Replay
  BY <1>6 DEF Replay
<1> QED
  BY <1>1, <1>2, <1>3, <1>4, <1>5, <1>6

\* What the exact guard counts after a batch: one more of the same, one, or
\* nothing.
LEMMA ExactCount ==
    ASSUME IInv, NEW f \in Prints \cup {None}, ObserveExact(f), exact' = exact,
           since' = Up(since)
    PROVE  /\ consecutive' \in 0..Cap /\ since' \in 0..Cap /\ last' \in Prints \cup {None}
           /\ warned' \in BOOLEAN
           /\ consecutive' <= since'
           /\ ~exact' => consecutive' = 0
           /\ consecutive' >= Warn => warned'
           /\ Observed(f) => consecutive' = Count(f)
           /\ ~Observed(f) => consecutive' = 0
           /\ Streak(f) => exact /\ (consecutive < Cap => consecutive' = consecutive + 1)
           /\ ~Streak(f) => consecutive' <= 1
           /\ Streak(f) => consecutive' >= 2
<1> USE GuardAssumption DEF IInv, GuardsTypeOK, Counting
<1>0. /\ Up(consecutive) \in 0..Cap /\ Up(consecutive) <= Up(since)
      /\ consecutive < Cap => Up(consecutive) = consecutive + 1
      /\ Up(consecutive) <= consecutive + 1
      /\ Up(since) \in 0..Cap /\ Up(since) >= 1
  BY DEF Up
<1>1. CASE Observed(f)
  <2>1. consecutive' = Count(f) /\ last' = f /\ exact
    BY <1>1 DEF ObserveExact, Observed
  <2>2. CASE f = last
    <3>1. Count(f) = Up(consecutive)
      BY <2>2 DEF Count
    <3>2. warned' \in BOOLEAN /\ (Count(f) >= Warn => warned')
      <4>1. warned' = (Count(f) = Warn \/ (Count(f) > 1 /\ warned))
        BY <1>1 DEF ObserveExact
      <4>2. Count(f) >= Warn => Count(f) = Warn \/ (Count(f) > 1 /\ warned)
        BY <1>0, <3>1
      <4> QED BY <4>1, <4>2
    <3> QED BY <1>0, <1>1, <2>1, <3>1, <3>2 DEF Streak
  <2>3. CASE f # last
    <3>1. Count(f) = 1
      BY <2>3 DEF Count
    <3>2. warned' = (Count(f) = Warn \/ (Count(f) > 1 /\ warned))
      BY <1>1 DEF ObserveExact
    <3>3. warned' \in BOOLEAN
      BY <3>2
    <3> QED BY <1>0, <1>1, <2>1, <3>1, <3>3 DEF Streak
  <2> QED BY <2>2, <2>3
<1>2. CASE ~Observed(f)
  <2>1. consecutive' = 0 /\ last' = None /\ warned' \in BOOLEAN
    BY <1>2, Zenon DEF ObserveExact, ResetExact
  <2> QED BY <1>0, <1>2, <2>1 DEF Streak
<1> QED BY <1>1, <1>2

\* Past MaxRepeat the streak pays for every further round.
LEMMA StreakPays ==
    ASSUME NEW r \in Nat, NEW c \in Nat, r < MaxRepeat \/ c >= r - MaxRepeat + 2
    PROVE  /\ c < Stop => r <= MaxRepeat + Stop - 2
           /\ c = 0 => r <= MaxRepeat
<1>1. CASE r < MaxRepeat
  BY <1>1, GuardAssumption
<1>2. CASE c >= r - MaxRepeat + 2
  BY <1>2, GuardAssumption
<1> QED BY <1>1, <1>2

\* The end of a batch preserves the invariant.
LEMMA BatchStep ==
    ASSUME IInv, exact' = exact,
           NEW s \in Sigs, NEW f \in Prints \cup {None}, BatchDone(s, f)
    PROVE  IInv'
<1> USE GuardAssumption
<1>1. /\ consecutive' \in 0..Cap /\ since' \in 0..Cap /\ last' \in Prints \cup {None}
      /\ warned' \in BOOLEAN
      /\ consecutive' <= since'
      /\ ~exact' => consecutive' = 0
      /\ consecutive' >= Warn => warned'
      /\ Observed(f) => consecutive' = Count(f)
      /\ ~Observed(f) => consecutive' = 0
      /\ Streak(f) => exact /\ (consecutive < Cap => consecutive' = consecutive + 1)
      /\ ~Streak(f) => consecutive' <= 1
      /\ Streak(f) => consecutive' >= 2
  <2>1. ObserveExact(f) /\ since' = Up(since)
    BY DEF BatchDone
  <2> QED BY <2>1, ExactCount
<1>2. /\ phase = "round" /\ endedBy = "none" /\ same = repeats /\ spoken' = spoken
      /\ since' = Up(since)
  BY DEF BatchDone, IInv, Counting
<1>3. CASE Loops(f)
  <2>1. /\ phase' = "idle" /\ endedBy' = "ToolLoopDetected"
        /\ same' = IF s = sig THEN same + 1 ELSE 1
        /\ UNCHANGED <<sig, repeats, nudged, corrected>>
    BY <1>3 DEF BatchDone
  <2>2. consecutive' >= Stop /\ exact
    BY <1>1, <1>3 DEF Loops, Observed
  <2>3. same' \in Nat /\ same' <= MaxRepeat + Stop - 2
    BY <1>2, <2>1 DEF IInv, GuardsTypeOK, FuseHeld
  <2> QED
    BY <1>1, <1>2, <2>1, <2>2, <2>3 DEF IInv, GuardsTypeOK, Counting, FuseHeld, SilentRun,
       RunawayBounded, StopNeedsEvidence, StopIsWarned
<1>4. CASE ~Loops(f) /\ spoken
  <2>1. phase' = "top" /\ endedBy' = "none" /\ ResetCoarse /\ ~Observed(f)
    BY <1>4 DEF BatchDone, Observed
  <2>2. /\ sig' = None /\ repeats' = 0 /\ same' = 0
        /\ nudged' \in BOOLEAN /\ corrected' \in BOOLEAN /\ ~nudged'
    BY <2>1, Zenon DEF ResetCoarse
  <2> QED
    BY <1>1, <1>2, <2>1, <2>2 DEF IInv, GuardsTypeOK, Counting, FuseHeld, SilentRun,
       RunawayBounded, StopNeedsEvidence, StopIsWarned
<1>5. CASE ~Loops(f) /\ ~spoken
  <2>1. /\ sig' = s /\ repeats' = Rounds(s, f)
        /\ same' = IF s = sig THEN same + 1 ELSE 1
    BY <1>5 DEF BatchDone
  <2>2. consecutive' < Stop
    BY <1>1, <1>5 DEF Loops, Observed
  <2>3. /\ repeats' \in 1..Cap /\ same' = repeats' /\ repeats' <= since'
        /\ s = sig => repeats' = repeats + 1
        /\ s # sig => repeats' = 1
    <3>1. CASE s = sig
      <4>1. repeats < Cap
        BY <1>2 DEF IInv, GuardsTypeOK, FuseHeld
      <4>2. repeats' = repeats + 1 /\ since' >= repeats + 1 /\ repeats + 1 <= Cap
        BY <2>1, <3>1, <4>1, <1>2 DEF Rounds, Up, IInv, GuardsTypeOK, Counting
      <4> QED BY <1>2, <2>1, <3>1, <4>2 DEF IInv, GuardsTypeOK
    <3>2. CASE s # sig
      BY <1>2, <2>1, <3>2, UpFacts DEF Rounds, IInv, GuardsTypeOK
    <3> QED BY <3>1, <3>2
  <2>4. CASE Fuse(s, f)
    <3>1. /\ phase' = "idle" /\ endedBy' = "RepeatLoop"
          /\ nudged' = (s = sig /\ nudged)
          /\ corrected' = (s = sig /\ corrected)
      BY <1>5, <2>4 DEF BatchDone
    <3>2. nudged' \in BOOLEAN /\ corrected' \in BOOLEAN /\ (nudged' => corrected')
      BY <3>1 DEF IInv, Counting
    <3>3. consecutive' <= 1 /\ repeats' >= MaxRepeat /\ s = sig /\ repeats' = repeats + 1
      BY <1>1, <2>1, <2>3, <2>4 DEF Fuse
    <3>4. repeats' <= IF exact THEN MaxRepeat + Stop - 2 ELSE MaxRepeat
      BY <1>2, <2>3, <3>3 DEF IInv, GuardsTypeOK, FuseHeld, Counting
    <3>5. Shipped => corrected
      BY <1>2, <3>3 DEF IInv, GuardsTypeOK, FuseHeld, SilentRun, Shipped
    <3>6. Shipped => corrected'
      BY <3>1, <3>3, <3>5
    <3> QED
      BY <1>1, <1>2, <2>1, <2>3, <3>1, <3>2, <3>3, <3>4, <3>6
         DEF IInv, GuardsTypeOK, Counting, FuseHeld, SilentRun,
         RunawayBounded, StopNeedsEvidence, StopIsWarned, Shipped
  <2>5. CASE ~Fuse(s, f)
    <3>1. /\ phase' = "top" /\ endedBy' = "none"
          /\ nudged' = (Nudges(s, f) \/ (s = sig /\ nudged))
          /\ corrected' = (Warns(f) \/ Nudges(s, f) \/ (s = sig /\ corrected))
      BY <1>5, <2>5 DEF BatchDone
    <3>2. nudged' \in BOOLEAN /\ corrected' \in BOOLEAN /\ (nudged' => corrected')
      BY <3>1 DEF IInv, Counting
    <3>3. FuseHeld'
      <4>1. Streak(f) \/ repeats' < MaxRepeat
        BY <2>1, <2>3, <2>5 DEF Fuse
      <4>2. repeats' < MaxRepeat \/ consecutive' >= repeats' - MaxRepeat + 2
        <5>1. CASE s # sig
          BY <2>3, <5>1
        <5>2. CASE s = sig /\ Streak(f)
          BY <1>1, <1>2, <2>3, <5>2 DEF IInv, GuardsTypeOK, FuseHeld
        <5> QED BY <4>1, <5>1, <5>2
      <4> QED BY <2>2, <4>2 DEF FuseHeld
    <3>4. SilentRun'
      <4> SUFFICES ASSUME ~corrected'
                   PROVE  /\ consecutive' < Warn \/ consecutive' >= Warn + repeats'
                          /\ repeats' >= NudgeAt => consecutive' >= repeats' - NudgeAt + 2
        BY DEF SilentRun
      <4>1. ~Warns(f) /\ ~Nudges(s, f) /\ ~(s = sig /\ corrected)
        BY <3>1
      <4>2. consecutive' # Warn
        BY <1>1, <4>1 DEF Warns
      <4>3. CASE s # sig
        BY <1>1, <2>3, <4>2, <4>3
      <4>4. CASE s = sig /\ ~Streak(f)
        <5>1. ~nudged
          BY <4>1, <4>4 DEF IInv, Counting, GuardsTypeOK
        <5>2. repeats' < NudgeAt
          BY <2>1, <2>3, <4>1, <4>4, <5>1 DEF Nudges
        <5> QED BY <1>1, <2>3, <4>4, <5>2
      <4>5. CASE s = sig /\ Streak(f)
        BY <1>1, <1>2, <2>3, <4>1, <4>2, <4>5 DEF IInv, GuardsTypeOK, FuseHeld, SilentRun
      <4> QED BY <4>3, <4>4, <4>5
    <3>5. repeats' <= IF exact THEN MaxRepeat + Stop - 2 ELSE MaxRepeat
      <4>0. repeats' \in Nat /\ consecutive' \in Nat
        BY <1>1, <2>3
      <4>1. repeats' < MaxRepeat \/ consecutive' >= repeats' - MaxRepeat + 2
        BY <3>1, <3>3 DEF FuseHeld
      <4>2. repeats' <= MaxRepeat + Stop - 2
        BY <2>2, <4>0, <4>1, StreakPays
      <4>3. ASSUME ~exact PROVE repeats' <= MaxRepeat
        <5>1. consecutive' = 0
          BY <1>1, <4>3
        <5> QED BY <4>0, <4>1, <5>1, StreakPays
      <4> QED BY <4>2, <4>3
    <3> QED
      BY <1>1, <1>2, <2>1, <2>3, <3>1, <3>2, <3>3, <3>4, <3>5
         DEF IInv, GuardsTypeOK, Counting,
         RunawayBounded, StopNeedsEvidence, StopIsWarned
  <2> QED BY <2>4, <2>5
<1> QED BY <1>3, <1>4, <1>5

\* Every step of the guards preserves the invariant.
LEMMA NextIInv == IInv /\ [GuardsNext]_guardVars => IInv'
<1> SUFFICES ASSUME IInv, [GuardsNext]_guardVars PROVE IInv'
  OBVIOUS
<1>1. CASE GuardsNext
  <2>1. exact' = exact
    BY <1>1 DEF GuardsNext
  <2> QED BY <1>1, <2>1, OtherSteps, BatchStep DEF GuardsNext
<1>2. CASE UNCHANGED guardVars
  BY <1>2 DEF guardVars, IInv, GuardsTypeOK, Counting, FuseHeld, SilentRun, RunawayBounded,
     StopNeedsEvidence, StopIsWarned, Shipped
<1> QED BY <1>1, <1>2

\* The inductive invariant holds in every reachable state.
LEMMA Invariant == GuardsSpec => []IInv
  BY InitIInv, NextIInv, PTL DEF GuardsSpec

\* The counters of both guards stay within u32.
THEOREM TypeCorrect == GuardsSpec => []GuardsTypeOK
<1>1. IInv => GuardsTypeOK
  BY DEF IInv
<1> QED BY <1>1, Invariant, PTL

\* Whatever thresholds a product chooses, a turn cannot run the same calls more
\* than MaxRepeat + Stop - 2 times in a row, although the coarse fuse stands
\* back for the exact guard.
THEOREM RunawayStopped == GuardsSpec => []RunawayBounded
<1>1. IInv => RunawayBounded
  BY DEF IInv
<1> QED BY <1>1, Invariant, PTL

\* A guard never stops a turn on rounds the model ran before the user's last
\* message was taken up.
THEOREM EvidenceIsCurrent == GuardsSpec => []StopNeedsEvidence
<1>1. IInv => StopNeedsEvidence
  BY DEF IInv
<1> QED BY <1>1, Invariant, PTL

\* The exact guard always warns before it stops; the coarse fuse does when the
\* thresholds are as close together as the shipped ones.
THEOREM WarningComesFirst == GuardsSpec => []StopIsWarned
<1>1. IInv => StopIsWarned
  BY DEF IInv
<1> QED BY <1>1, Invariant, PTL

----------------------------------------------------------------------------
(* The round loop.  The inductive invariant adds to the properties what    *)
(* they leave open while a request is on its way: a round being requested  *)
(* is within the cap, a stream has shown at most one answer more than is   *)
(* stored and displayed at most one part of a call more than was accounted *)
(* for, and the rate-limit counter passes its bound only in the step that ends  *)
(* the turn.                                                               *)

Busy == {"open", "sleep", "stream", "settle"}
Stored == {"top", "batch", "answered", "offer", "truncCheckpoint"}

\* the counters whose bound depends on where the loop is
Reached == /\ pc # "done" => stop = "none" /\ rateWaits <= MaxRateWaits
           /\ pc \in Busy => round <= cap
           /\ pc = "roundCheckpoint" => round = cap + 1

\* what the streams have shown, with the stream that is not stored yet
Kept == responses + saved
Accounted ==
    /\ pc \in Stored \cup {"open", "sleep", "roundCheckpoint"} =>
          /\ shown <= Kept
          /\ hinted <= Kept + emptyRetries
    /\ pc \in {"stream", "settle"} =>
          /\ got \cap Solid = {} => shown <= Kept
          /\ shown <= Kept + 1
          /\ "fragment" \notin got => hinted <= Kept + emptyRetries
          /\ hinted <= Kept + emptyRetries + 1

TurnIInv == TypeOK /\ RoundsCountAnswers /\ CapHolds /\ Reached /\ Accounted

(* The invariant holds when the turn begins.                               *)
LEMMA TurnInit == Init => TurnIInv
<1> SUFFICES ASSUME Init PROVE TurnIInv
    OBVIOUS
<1> USE EngineAssumption DEF Init
<1>1. TypeOK
  <2>1. /\ got \subseteq Kinds
        /\ cancel \in BOOLEAN /\ steer \in BOOLEAN /\ loopRetried \in BOOLEAN
        /\ lastConfirmed \in BOOLEAN /\ truncated \in BOOLEAN
    BY Zenon
  <2> QED BY <2>1 DEF TypeOK, Stops
<1>2. RoundsCountAnswers /\ CapHolds
  BY DEF RoundsCountAnswers, CapHolds, Requesting
<1>3. Reached /\ Accounted
  BY DEF Reached, Accounted, Kept, Busy, Stored
<1> QED BY <1>1, <1>2, <1>3 DEF TurnIInv

(* Every step of the loop, of the provider and of the driver keeps it.     *)
LEMMA TurnNext == TurnIInv /\ [Next]_vars => TurnIInv'
<1> SUFFICES ASSUME TurnIInv, [Next]_vars
             PROVE  TurnIInv'
    OBVIOUS
<1> USE EngineAssumption DEF TurnIInv, TypeOK, RoundsCountAnswers,
        CapHolds, Reached, Accounted, Requesting, Busy, Stored, Kinds,
        Stops, Solid, ToolKinds, Kept, Finish, budgets,
        limits, input, stream, history
<1>1. CASE Top
  <2>1. CASE round' <= cap /\ Proceed /\ UNCHANGED stop
    <3>1. lastConfirmed' \in BOOLEAN /\ steer' \in BOOLEAN /\ pc' = "open"
      BY <2>1, Zenon DEF Proceed
    <3> QED BY <1>1, <2>1, <3>1 DEF Top
  <2>2. CASE round' > cap /\ Checkpoint /\ pc' = "roundCheckpoint"
             /\ UNCHANGED <<stop, steer, lastConfirmed>>
    BY <1>1, <2>2 DEF Top
  <2>3. CASE round' > cap /\ ~Checkpoint /\ Finish("MaxRounds")
             /\ UNCHANGED <<steer, lastConfirmed>>
    BY <1>1, <2>3 DEF Top
  <2> QED BY <1>1, <2>1, <2>2, <2>3, Zenon DEF Top
<1>2. CASE RoundGranted
  <2>1. lastConfirmed' \in BOOLEAN /\ steer' \in BOOLEAN /\ pc' = "open"
    BY <1>2, Zenon DEF RoundGranted, Proceed
  <2> QED BY <1>2, <2>1 DEF RoundGranted
<1>3. CASE RoundRefused
  BY <1>3 DEF RoundRefused
<1>4. CASE Cancelled
  BY <1>4 DEF Cancelled
<1>5. CASE Opened
  <2>1. got' \subseteq Kinds /\ truncated' \in BOOLEAN
    BY <1>5, Zenon DEF Opened
  <2> QED BY <1>5, <2>1 DEF Opened
<1>6. CASE OpenOverflow
  BY <1>6 DEF OpenOverflow
<1>7. CASE OpenRateLimited
  <2>1. CASE RateLimitWait
    <3>1. CASE rateWaits' > MaxRateWaits
      BY <1>7, <2>1, <3>1 DEF OpenRateLimited, RateLimitWait
    <3>2. CASE ~(rateWaits' > MaxRateWaits)
      BY <1>7, <2>1, <3>2 DEF OpenRateLimited, RateLimitWait
    <3> QED BY <3>1, <3>2
  <2>2. CASE RateLimitPause
    BY <1>7, <2>2 DEF OpenRateLimited, RateLimitPause
  <2> QED BY <1>7, <2>1, <2>2, Zenon DEF OpenRateLimited
<1>8. CASE OpenTransient
  BY <1>8 DEF OpenTransient
<1>9. CASE OpenFails
  BY <1>9 DEF OpenFails
<1>10. CASE Wake
  BY <1>10 DEF Wake
<1>11. ASSUME NEW k \in Kinds, Event(k)
       PROVE  TurnIInv'
  BY <1>11 DEF Event, Streaming
<1>12. CASE IdleReconnect
  BY <1>12 DEF IdleReconnect, Streaming
<1>13. CASE IdleContinue
  BY <1>13 DEF IdleContinue, Streaming, Continue, Storable
<1>14. CASE IdleFails
  BY <1>14 DEF IdleFails, Streaming
<1>15. CASE ReasoningLoop
  BY <1>15 DEF ReasoningLoop, Streaming
<1>16. CASE StreamRateLimited
  <2>1. CASE got = {} /\ RateLimitWait
    <3>1. CASE rateWaits' > MaxRateWaits
      BY <1>16, <2>1, <3>1 DEF StreamRateLimited, RateLimitWait, Streaming
    <3>2. CASE ~(rateWaits' > MaxRateWaits)
      BY <1>16, <2>1, <3>2 DEF StreamRateLimited, RateLimitWait, Streaming
    <3> QED BY <3>1, <3>2
  <2>2. CASE RateLimitPause
    BY <1>16, <2>2 DEF StreamRateLimited, RateLimitPause, Streaming
  <2> QED BY <1>16, <2>1, <2>2, Zenon DEF StreamRateLimited
<1>17. CASE StreamCut
  BY <1>17 DEF StreamCut, Streaming, Continue, Storable
<1>18. ASSUME NEW r \in {"Timeout", "ProviderError"}, StreamFails(r)
       PROVE  TurnIInv'
  BY <1>18 DEF StreamFails, Streaming
<1>19. ASSUME NEW t \in BOOLEAN, Ended(t)
       PROVE  TurnIInv'
  BY <1>19 DEF Ended, Streaming
<1>20. CASE EmptyRetry
  BY <1>20 DEF EmptyRetry, MayBeEmpty
<1>21. ASSUME NEW c \in BOOLEAN, Respond(c)
       PROVE  TurnIInv'
  BY <1>21 DEF Respond
<1>22. CASE BatchGoesOn
  BY <1>22 DEF BatchGoesOn
<1>23. ASSUME NEW r \in {"Cancelled", "PolicyDenied", "ToolLoopDetected", "RepeatLoop"},
              BatchEnds(r)
       PROVE  TurnIInv'
  BY <1>23 DEF BatchEnds
<1>24. CASE AnswerSteered
  BY <1>24 DEF AnswerSteered
<1>25. ASSUME NEW d \in BOOLEAN, AnswerTruncated(d)
       PROVE  TurnIInv'
  BY <1>25 DEF AnswerTruncated
<1>26. CASE AnswerWhole
  BY <1>26 DEF AnswerWhole
<1>27. CASE Offered
  BY <1>27 DEF Offered
<1>28. CASE NotOffered
  BY <1>28 DEF NotOffered
<1>29. CASE TruncGranted
  BY <1>29 DEF TruncGranted
<1>30. CASE TruncRefused
  BY <1>30 DEF TruncRefused
<1>31. CASE Cancel
  BY <1>31 DEF Cancel
<1>32. CASE Steer
  BY <1>32 DEF Steer
<1>33. CASE UNCHANGED vars
  BY <1>33 DEF vars
<1> QED
  BY <1>1, <1>2, <1>3, <1>4, <1>5, <1>6, <1>7, <1>8, <1>9, <1>10, <1>11, <1>12, <1>13,
     <1>14, <1>15, <1>16, <1>17, <1>18, <1>19, <1>20, <1>21, <1>22, <1>23, <1>24, <1>25,
     <1>26, <1>27, <1>28, <1>29, <1>30, <1>31, <1>32, <1>33 DEF Next, Engine

(* The invariant holds throughout the turn.                                *)
THEOREM TurnInvariant == Spec => []TurnIInv
<1>1. Init => TurnIInv
  BY TurnInit
<1>2. TurnIInv /\ [Next]_vars => TurnIInv'
  BY TurnNext
<1> QED BY <1>1, <1>2, PTL DEF Spec

(* Every retry counter of run_turn stays within its budget.                *)
THEOREM BudgetsKept == Spec => []TypeOK
<1>1. TurnIInv => TypeOK
  BY DEF TurnIInv
<1> QED BY TurnInvariant, <1>1, PTL

(* A replayed request takes no round; a response and a continued partial   *)
(* response take one each, whatever the budgets are.                       *)
THEOREM RoundAccounting == Spec => []RoundsCountAnswers
<1>1. TurnIInv => RoundsCountAnswers
  BY DEF TurnIInv
<1> QED BY TurnInvariant, <1>1, PTL

(* The round cap is never passed, and a turn that ends for its rounds has  *)
(* had all of them.                                                        *)
THEOREM CapExact == Spec => []CapHolds
<1>1. TurnIInv => CapHolds
  BY DEF TurnIInv
<1> QED BY TurnInvariant, <1>1, PTL

(* A request whose stream has shown text or carried a complete call is     *)
(* never replayed, and those that have displayed a part of one no more     *)
(* often than empty completions are retried.                               *)
THEOREM NothingReplayed == Spec => []ShownIsKept
<1>1. TurnIInv => ShownIsKept
  BY DEF TurnIInv, Accounted, Kept, ShownIsKept, Stored
<1> QED BY TurnInvariant, <1>1, PTL
============================================================================
