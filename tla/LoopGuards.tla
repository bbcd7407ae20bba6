----------------------------- MODULE LoopGuards -----------------------------
(***************************************************************************)
(* The two guards against a model that repeats itself (run_turn of         *)
(* crates/atomcode-kernel/src/agent/engine.rs).  The exact guard           *)
(* (ToolLoopState) counts consecutive executions with the same calls and   *)
(* the same results; it belongs to the session and survives synthetic      *)
(* turns.  The coarse fuse counts consecutive rounds of one turn with the  *)
(* same calls, whatever they return, and stands back while the exact guard *)
(* has a streak.                                                           *)
(*                                                                         *)
(* A round is its signature (the calls as emitted) and its fingerprint     *)
(* (calls after the middlewares, with their results), None for a batch the *)
(* exact guard does not judge.  Neither determines the other: a middleware *)
(* may rewrite arguments, and the fingerprint ignores their layout.        *)
(***************************************************************************)
EXTENDS Integers

CONSTANTS
    Sigs,           \* round_tool_signature of a batch
    Prints,         \* ToolLoopFingerprint of a batch
    None,           \* no signature, no fingerprint
    Warn,           \* warning_threshold of the policy
    Stop,           \* stop_threshold of the policy
    NudgeAt,        \* REPEAT_NUDGE_AT
    MaxRepeat,      \* MAX_REPEAT_ROUNDS
    Cap             \* u32::MAX, where the counters saturate

\* ToolLoopPolicy::new refuses any other thresholds
ASSUME GuardAssumption ==
    /\ None \notin Sigs /\ None \notin Prints
    /\ Warn \in Nat /\ Stop \in Nat /\ NudgeAt \in Nat /\ MaxRepeat \in Nat /\ Cap \in Nat
    /\ 2 <= Warn /\ Warn < Stop
    /\ 1 < NudgeAt /\ NudgeAt < MaxRepeat
    /\ MaxRepeat + Stop <= Cap

VARIABLES
    exact,          \* TRUE iff the runtime configured a ToolLoopPolicy
    phase,          \* "idle" | "top" of a round | "round"
    spoken,         \* TRUE iff a message of the user waits in the steer buffer
    last,           \* ToolLoopState::last
    consecutive,    \* ToolLoopState::consecutive
    sig,            \* last_round_sig
    repeats,        \* repeat_rounds
    nudged,         \* repeat_nudged
    endedBy,        \* why the last turn ended, "none" while one runs
    (* history *)
    warned,         \* the model was corrected during this streak
    corrected,      \* the model was corrected since this signature began
    same,           \* rounds of this turn with the current signature, in a row
    since           \* rounds since a message of the user was last taken up

exactvars == <<last, consecutive, warned>>
coarsevars == <<sig, repeats, nudged, corrected, same>>
guardVars == <<exact, phase, spoken, last, consecutive, sig, repeats, nudged, endedBy,
               warned, corrected, same, since>>

\* saturating_add(1)
Up(n) == IF n = Cap THEN Cap ELSE n + 1

GuardsInit == /\ exact \in BOOLEAN
              /\ phase = "idle" /\ spoken = FALSE /\ endedBy = "none"
              /\ last = None /\ consecutive = 0 /\ warned = FALSE
              /\ sig = None /\ repeats = 0 /\ nudged = FALSE /\ corrected = FALSE /\ same = 0
              /\ since = 0

\* ToolLoopState::reset
ResetExact == last' = None /\ consecutive' = 0 /\ warned' = FALSE

ResetCoarse == sig' = None /\ repeats' = 0 /\ nudged' = FALSE /\ corrected' = FALSE /\ same' = 0

\* mutant: a prompt of the user keeps the streak of the old intent
StartKeeps(real) == /\ phase = "idle"
                    /\ phase' = "top" /\ endedBy' = "none"
                    /\ since' = IF real THEN 0 ELSE since
                    /\ ResetCoarse
                    /\ UNCHANGED <<exactvars, spoken>>

\* a prompt of the user opens a new intent, a synthetic one continues the old
Start(real) == /\ phase = "idle"
               /\ phase' = "top" /\ endedBy' = "none"
               /\ since' = IF real THEN 0 ELSE since
               /\ IF real THEN ResetExact ELSE UNCHANGED exactvars
               /\ ResetCoarse
               /\ UNCHANGED spoken

\* the user speaks while the turn runs
Speak == /\ phase # "idle"
         /\ spoken' = TRUE
         /\ UNCHANGED <<phase, exactvars, coarsevars, endedBy, since>>

\* top of a round: a message in the buffer voids what was counted before it
RoundTop == /\ phase = "top"
            /\ phase' = "round"
            /\ IF spoken THEN ResetExact /\ ResetCoarse ELSE UNCHANGED <<exactvars, coarsevars>>
            /\ spoken' = FALSE
            /\ since' = IF spoken THEN 0 ELSE since
            /\ UNCHANGED endedBy

\* a response without calls breaks both sequences; the turn goes on or ends
Reply(on) == /\ phase = "round"
             /\ spoken => on
             /\ ResetExact /\ ResetCoarse
             /\ phase' = IF on THEN "top" ELSE "idle"
             /\ endedBy' = IF on THEN "none" ELSE "Stopped"
             /\ UNCHANGED <<spoken, since>>

\* a request that is opened again, or continued from a partial answer, leaves
\* both counts alone
Replay == /\ phase = "round"
          /\ phase' = "top"
          /\ UNCHANGED <<spoken, exactvars, coarsevars, endedBy, since>>

\* cancel, cap, failure, policy: the session keeps the streak, and a waiting
\* message is cleared or queued as a prompt
EndTurn == /\ phase # "idle"
           /\ phase' = "idle" /\ endedBy' = "Other" /\ spoken' = FALSE
           /\ UNCHANGED <<exactvars, coarsevars, since>>

\* ToolLoopState::observe
Count(f) == IF f = last THEN Up(consecutive) ELSE 1

Observed(f) == exact /\ ~spoken /\ f # None

\* the exact guard on the batch of a round; a correction is pushed at Warn
ObserveExact(f) ==
    IF Observed(f)
    THEN /\ last' = f
         /\ consecutive' = Count(f)
         /\ warned' = (Count(f) = Warn \/ (Count(f) > 1 /\ warned))
    ELSE ResetExact

Loops(f) == Observed(f) /\ Count(f) >= Stop
Streak(f) == Observed(f) /\ Count(f) > 1
Warns(f) == Observed(f) /\ Count(f) = Warn

\* mutant: the fuse counts only while the exact guard has no streak
RoundsStandingBack(s, f) == IF s = sig THEN (IF Streak(f) THEN repeats ELSE Up(repeats)) ELSE 1

\* the coarse fuse counts every round with the same signature
Rounds(s, f) == IF s = sig THEN Up(repeats) ELSE 1

Fuse(s, f) == ~Streak(f) /\ Rounds(s, f) >= MaxRepeat

\* mutant: the fuse nudges in the round in which it stops
NudgesLate(s, f) == /\ ~Streak(f) /\ Rounds(s, f) >= MaxRepeat
                    /\ ~(s = sig /\ nudged)

Nudges(s, f) == /\ ~Streak(f) /\ Rounds(s, f) >= NudgeAt
                /\ ~(s = sig /\ nudged)

\* the batch of a round is over: exact guard, pending message, coarse fuse
BatchDone(s, f) ==
    /\ phase = "round"
    /\ ObserveExact(f)
    /\ since' = Up(since)
    /\ IF Loops(f)
       THEN /\ phase' = "idle" /\ endedBy' = "ToolLoopDetected"
            /\ same' = IF s = sig THEN same + 1 ELSE 1
            /\ UNCHANGED <<sig, repeats, nudged, corrected>>
       ELSE IF spoken
       THEN /\ phase' = "top" /\ endedBy' = "none"
            /\ ResetCoarse
       ELSE /\ sig' = s
            /\ repeats' = Rounds(s, f)
            /\ same' = IF s = sig THEN same + 1 ELSE 1
            /\ IF Fuse(s, f)
               THEN /\ phase' = "idle" /\ endedBy' = "RepeatLoop"
                    /\ nudged' = (s = sig /\ nudged)
                    /\ corrected' = (s = sig /\ corrected)
               ELSE /\ phase' = "top" /\ endedBy' = "none"
                    /\ nudged' = (Nudges(s, f) \/ (s = sig /\ nudged))
                    /\ corrected' = (Warns(f) \/ Nudges(s, f) \/ (s = sig /\ corrected))
    /\ UNCHANGED spoken

GuardsNext == /\ UNCHANGED exact
              /\ \/ \E b \in BOOLEAN : Start(b) \/ Reply(b)
                 \/ Speak \/ RoundTop \/ Replay \/ EndTurn
                 \/ \E s \in Sigs, f \in Prints \cup {None} : BatchDone(s, f)

GuardsSpec == GuardsInit /\ [][GuardsNext]_guardVars

-----------------------------------------------------------------------------
(* Properties.                                                             *)

\* The type of the guards' state.
GuardsTypeOK ==
    /\ exact \in BOOLEAN /\ spoken \in BOOLEAN /\ nudged \in BOOLEAN
    /\ warned \in BOOLEAN /\ corrected \in BOOLEAN
    /\ phase \in {"idle", "top", "round"}
    /\ last \in Prints \cup {None} /\ sig \in Sigs \cup {None}
    /\ consecutive \in 0..Cap /\ repeats \in 0..Cap /\ since \in 0..Cap
    /\ same \in Nat
    /\ endedBy \in {"none", "Stopped", "Other", "ToolLoopDetected", "RepeatLoop"}

\* Two guards that stand back for each other still stop a runaway: without a
\* word of the user, a turn runs the same calls in a row at most
\* MaxRepeat + Stop - 2 times, however the results alternate, and at most
\* MaxRepeat times when there is no exact guard.
RunawayBounded == same <= IF exact THEN MaxRepeat + Stop - 2 ELSE MaxRepeat

\* A stop rests on evidence of the current intent only: since a message
\* of the user was last taken up there were enough rounds to justify it.
StopNeedsEvidence ==
    /\ endedBy = "ToolLoopDetected" => since >= Stop
    /\ endedBy = "RepeatLoop" => since >= MaxRepeat

\* The thresholds that leave the model a correction before either stop; the
\* shipped ones (3, 5, 3, 6) do, a policy of 10 and 12 does not.
Shipped == Warn + NudgeAt <= MaxRepeat + 1 /\ Stop <= Warn + MaxRepeat - 1

\* No stop out of the blue: before a guard ends a turn it has told the model,
\* in an earlier round of the same streak or signature, to change course.
StopIsWarned ==
    /\ endedBy = "ToolLoopDetected" => warned
    /\ endedBy = "RepeatLoop" /\ Shipped => corrected

(* The inductive invariant: how the counters are tied to each other while a *)
(* turn runs.                                                               *)
Counting ==
    /\ phase # "idle" => endedBy = "none" /\ same = repeats
    /\ consecutive <= since
    /\ phase # "idle" => repeats <= since
    /\ ~exact => consecutive = 0
    /\ nudged => corrected
    /\ consecutive >= Warn => warned

\* past MaxRepeat only a streak of the exact guard keeps the turn going
FuseHeld ==
    phase # "idle" =>
        /\ repeats < MaxRepeat \/ consecutive >= repeats - MaxRepeat + 2
        /\ repeats >= 1 => consecutive < Stop

\* a signature that was never corrected is covered by a streak that has not
\* reached Warn yet or had passed it before the signature began
SilentRun ==
    phase # "idle" /\ repeats >= 1 /\ ~corrected =>
        /\ consecutive < Warn \/ consecutive >= Warn + repeats
        /\ repeats >= NudgeAt => consecutive >= repeats - NudgeAt + 2

IInv == GuardsTypeOK /\ Counting /\ FuseHeld /\ SilentRun
          /\ RunawayBounded /\ StopNeedsEvidence /\ StopIsWarned
=============================================================================
