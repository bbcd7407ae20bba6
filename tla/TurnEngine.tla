----------------------------- MODULE TurnEngine -----------------------------
(***************************************************************************)
(* The round loop of one turn (run_turn of                                 *)
(* crates/atomcode-kernel/src/agent/engine.rs): opening a request,         *)
(* consuming its stream, the retries and their budgets, the partial-stream *)
(* recovery, the continuations and the fuses.  The tool batch at the end   *)
(* of a round is ToolBatch; here it only goes on or ends the turn.         *)
(*                                                                         *)
(* What a stream has carried so far is the set of the kinds of its events. *)
(* An event of a suppressed internal continuation, an empty delta and      *)
(* filler are all "blank": they count as content and leave nothing to keep.*)
(* "space" is white space alone, which is kept and says nothing; "fragment"*)
(* is a part of a tool call, which the driver displays and nobody keeps.   *)
(***************************************************************************)
EXTENDS Naturals

CONSTANTS
    MaxRounds,          \* max_rounds (an unlimited turn: a cap it never meets)
    Checkpoint,         \* round_cap_checkpoint
    MaxOverflow,        \* MAX_OVERFLOW_ATTEMPTS
    MaxProviderRetries, \* max_provider_retries
    MaxStreamRetries,   \* MAX_STREAM_RETRIES
    MaxPartial,         \* MAX_PARTIAL_STREAM_RECOVERIES
    MaxRateWaits,       \* MAX_RATE_LIMIT_WAITS
    MaxEmpty,           \* EMPTY_RESPONSE_MAX_RETRIES
    MaxTruncated,       \* MAX_TRUNCATION_CONTINUATIONS
    MaxContinuations,   \* max_continuations
    MaxGrants,          \* bound: checkpoints the driver answers with "continue"
    MaxSteers           \* bound: messages the user sends during the turn

\* what an agent may be configured with
ASSUME EngineAssumption ==
    /\ MaxRounds \in Nat \ {0}
    /\ Checkpoint \in BOOLEAN
    /\ MaxOverflow \in Nat /\ MaxProviderRetries \in Nat /\ MaxStreamRetries \in Nat
    /\ MaxPartial \in Nat /\ MaxRateWaits \in Nat /\ MaxEmpty \in Nat
    /\ MaxTruncated \in Nat /\ MaxContinuations \in Nat
    /\ MaxGrants \in Nat /\ MaxSteers \in Nat

VARIABLES
    pc,             \* where run_turn is
    stop,           \* the StopReason, "none" before
    cancel,         \* the turn's cancel token
    steer,          \* the steer buffer is not empty
    steers,         \* messages the user sent
    round, cap,     \* round, round_cap
    grants,         \* checkpoints answered with "continue"
    overflow,       \* overflow_attempt
    providerRetry,  \* provider_retry
    streamRetry,    \* stream_retry
    partials,       \* partial_stream_recoveries
    rateWaits,      \* rate_limit_waits
    emptyRetries,   \* empty_retries
    truncConts,     \* truncation_continuations
    conts,          \* continuations
    loopRetried,    \* reasoning_loop_retried
    lastConfirmed,  \* last_batch_confirmed
    got,            \* kinds of the events of the current stream
    truncated,      \* the stream ended at the output limit
    (* history *)
    responses,      \* completed assistant messages pushed
    saved,          \* partial assistant messages kept and continued from
    shown,          \* streams that showed text or carried a complete call
    hinted          \* streams that showed a part of a tool call

budgets == <<overflow, providerRetry, streamRetry, partials, rateWaits, emptyRetries,
             truncConts, conts, loopRetried>>
limits == <<cap, grants>>
input == <<cancel, steer, steers>>
stream == <<got, truncated>>
vars == <<pc, stop, cancel, steer, steers, round, cap, grants, overflow, providerRetry,
          streamRetry, partials, rateWaits, emptyRetries, truncConts, conts, loopRetried,
          lastConfirmed, got, truncated, responses, saved, shown, hinted>>
history == <<responses, saved, shown, hinted>>

Kinds == {"blank", "space", "reason", "text", "fragment", "call"}
ToolKinds == {"fragment", "call"}
Solid == {"text", "call"}
Stops == {"Cancelled", "MaxRounds", "RateLimited", "ProviderError", "Timeout",
          "MaxContinuations", "Stopped", "PolicyDenied", "ToolLoopDetected", "RepeatLoop"}

Init == /\ pc = "top" /\ stop = "none"
        /\ cancel = FALSE /\ steer = FALSE /\ steers = 0
        /\ round = 0 /\ cap = MaxRounds /\ grants = 0
        /\ overflow = 0 /\ providerRetry = 0 /\ streamRetry = 0 /\ partials = 0
        /\ rateWaits = 0 /\ emptyRetries = 0 /\ truncConts = 0 /\ conts = 0
        /\ loopRetried = FALSE /\ lastConfirmed = FALSE
        /\ got = {} /\ truncated = FALSE
        /\ responses = 0 /\ saved = 0 /\ shown = 0 /\ hinted = 0

\* finish_turn and finish_cancelled: the only ways out of the loop
Finish(reason) == pc' = "done" /\ stop' = reason

-----------------------------------------------------------------------------
(* The top of a round: the cap, the checkpoint, the steer drain.           *)

\* fold the steer buffer in: a new intent voids the confirmed batch
Proceed == /\ pc' = "open"
           /\ steer' = FALSE
           /\ lastConfirmed' = (lastConfirmed /\ ~steer)

Top == /\ pc = "top"
       /\ round' = round + 1
       /\ \/ round' <= cap /\ Proceed /\ UNCHANGED stop
          \/ round' > cap /\ Checkpoint /\ pc' = "roundCheckpoint"
             /\ UNCHANGED <<stop, steer, lastConfirmed>>
          \/ round' > cap /\ ~Checkpoint /\ Finish("MaxRounds")
             /\ UNCHANGED <<steer, lastConfirmed>>
       /\ UNCHANGED <<cancel, steers, limits, budgets, stream, history>>

\* the driver lets the turn run on for another max_rounds
RoundGranted == /\ pc = "roundCheckpoint"
                /\ grants < MaxGrants
                /\ grants' = grants + 1
                /\ cap' = cap + MaxRounds
                /\ Proceed
                /\ UNCHANGED <<stop, cancel, steers, round, budgets, stream, history>>

\* stop, no answer, or a request flushed by Cancel
RoundRefused == /\ pc = "roundCheckpoint"
                /\ Finish(IF cancel THEN "Cancelled" ELSE "MaxRounds")
                /\ UNCHANGED <<input, round, limits, budgets, lastConfirmed, stream,
                               history>>

-----------------------------------------------------------------------------
(* Opening the request.  The open, the waits and the stream are raced      *)
(* against the cancel token, which is polled first.                        *)

Cancelled == /\ pc \in {"open", "sleep", "stream"}
             /\ cancel
             /\ Finish("Cancelled")
             /\ UNCHANGED <<input, round, limits, budgets, lastConfirmed, stream,
                            history>>

\* mutant: a successful open also refills the reconnect budget
OpenedRefills == /\ pc = "open" /\ ~cancel
                 /\ pc' = "stream"
                 /\ overflow' = 0 /\ providerRetry' = 0 /\ streamRetry' = 0
                 /\ got' = {} /\ truncated' = FALSE
                 /\ UNCHANGED <<stop, input, round, limits, partials, rateWaits,
                                emptyRetries, truncConts, conts, loopRetried, lastConfirmed,
                                history>>

Opened == /\ pc = "open" /\ ~cancel
          /\ pc' = "stream"
          /\ overflow' = 0 /\ providerRetry' = 0
          /\ got' = {} /\ truncated' = FALSE
          /\ UNCHANGED <<stop, input, round, limits, streamRetry, partials, rateWaits,
                         emptyRetries, truncConts, conts, loopRetried, lastConfirmed,
                         history>>

\* the prompt is over the window: compact and replay the round, unslept
OpenOverflow == /\ pc = "open" /\ ~cancel
                /\ overflow < MaxOverflow
                /\ overflow' = overflow + 1
                /\ round' = round - 1
                /\ pc' = "top"
                /\ UNCHANGED <<stop, input, limits, providerRetry, streamRetry, partials,
                               rateWaits, emptyRetries, truncConts, conts, loopRetried,
                               lastConfirmed, stream, history>>

\* WaitAndRetry of a 429, at the open or as the first event of a stream
RateLimitWait ==
    /\ rateWaits' = rateWaits + 1
    /\ IF rateWaits' > MaxRateWaits
       THEN Finish("RateLimited") /\ UNCHANGED providerRetry
       ELSE pc' = "sleep" /\ providerRetry' = 0 /\ UNCHANGED stop
    /\ UNCHANGED <<input, round, limits, overflow, streamRetry, partials, emptyRetries,
                   truncConts, conts, loopRetried, lastConfirmed, stream, history>>

\* Pause of a 429
RateLimitPause == /\ Finish("RateLimited")
                  /\ UNCHANGED <<input, round, limits, budgets, lastConfirmed, stream,
                                 history>>

OpenRateLimited == /\ pc = "open" /\ ~cancel
                   /\ RateLimitWait \/ RateLimitPause

OpenTransient == /\ pc = "open" /\ ~cancel
                 /\ providerRetry < MaxProviderRetries
                 /\ providerRetry' = providerRetry + 1
                 /\ pc' = "sleep"
                 /\ UNCHANGED <<stop, input, round, limits, overflow, streamRetry, partials,
                                rateWaits, emptyRetries, truncConts, conts, loopRetried,
                                lastConfirmed, stream, history>>

OpenFails == /\ pc = "open" /\ ~cancel
             /\ Finish("ProviderError")
             /\ UNCHANGED <<input, round, limits, budgets, lastConfirmed, stream,
                            history>>

\* mutant: the replay is counted as a new round
WakeCounts == /\ pc = "sleep" /\ ~cancel
              /\ pc' = "top"
              /\ UNCHANGED <<stop, input, round, limits, budgets, lastConfirmed, stream,
                             history>>

\* after the wait the same round is replayed
Wake == /\ pc = "sleep" /\ ~cancel
        /\ round' = round - 1
        /\ pc' = "top"
        /\ UNCHANGED <<stop, input, limits, budgets, lastConfirmed, stream, history>>

-----------------------------------------------------------------------------
(* Consuming the stream.                                                   *)

Streaming == pc = "stream" /\ ~cancel

\* text, reasoning, a display-only tool fragment or a complete call
Event(k) == /\ Streaming
            /\ k \notin got
            /\ got' = got \cup {k}
            /\ shown' = IF k \in Solid /\ got \cap Solid = {} THEN shown + 1 ELSE shown
            /\ hinted' = IF k = "fragment" THEN hinted + 1 ELSE hinted
            /\ UNCHANGED <<pc, stop, input, round, limits, budgets, lastConfirmed, truncated,
                           responses, saved>>

\* what persist_partial_assistant finds worth a message
Storable == got \cap {"space", "reason", "text", "call"} # {}

\* continue from the saved progress in a NEW round
Continue == /\ partials' = partials + 1
            /\ streamRetry' = 0
            /\ saved' = IF Storable THEN saved + 1 ELSE saved
            /\ pc' = "top"
            /\ UNCHANGED <<stop, input, round, limits, overflow, providerRetry, rateWaits,
                           emptyRetries, truncConts, conts, loopRetried, lastConfirmed,
                           stream, responses, shown, hinted>>

\* mutant: a stalled stream is replayed whatever it has shown
IdleReconnectAlways ==
    /\ Streaming
    /\ streamRetry < MaxStreamRetries
    /\ streamRetry' = streamRetry + 1
    /\ pc' = "sleep"
    /\ UNCHANGED <<stop, input, round, limits, overflow, providerRetry, partials, rateWaits,
                   emptyRetries, truncConts, conts, loopRetried, lastConfirmed, stream,
                   history>>

\* idle timeout before any content: replay
IdleReconnect ==
    /\ Streaming
    /\ got = {}
    /\ streamRetry < MaxStreamRetries
    /\ streamRetry' = streamRetry + 1
    /\ pc' = "sleep"
    /\ UNCHANGED <<stop, input, round, limits, overflow, providerRetry, partials, rateWaits,
                   emptyRetries, truncConts, conts, loopRetried, lastConfirmed, stream,
                   history>>

\* idle timeout after content: keep what came and continue, once
IdleContinue == Streaming /\ Storable /\ partials < MaxPartial /\ Continue

IdleFails == /\ Streaming
             /\ got = {} => streamRetry = MaxStreamRetries
             /\ ~(Storable /\ partials < MaxPartial)
             /\ Finish("Timeout")
             /\ UNCHANGED <<input, round, limits, budgets, lastConfirmed, stream,
                            history>>

\* The reasoning repeats itself: one replay if the recovery budget allows.
\* The guard is disarmed by text (by white space too, which this leaves open),
\* tool fragments and signatures.
ReasoningLoop ==
    /\ Streaming
    /\ got # {} /\ got \cap ({"text"} \cup ToolKinds) = {}
    /\ loopRetried' = TRUE
    /\ \/ ~loopRetried /\ pc' = "top" /\ round' = round - 1 /\ UNCHANGED stop
       \/ Finish("ProviderError") /\ UNCHANGED round
    /\ UNCHANGED <<input, limits, overflow, providerRetry, streamRetry, partials, rateWaits,
                   emptyRetries, truncConts, conts, lastConfirmed, stream, history>>

StreamRateLimited == /\ Streaming
                     /\ IF got = {} THEN RateLimitWait \/ RateLimitPause ELSE RateLimitPause

\* the transport broke: continue unless a tool call was being streamed
StreamCut == /\ Streaming
             /\ "text" \in got \/ lastConfirmed
             /\ got \cap ToolKinds = {}
             /\ partials < MaxPartial
             /\ Continue

StreamFails(reason) == /\ Streaming
                       /\ Finish(reason)
                       /\ UNCHANGED <<input, round, limits, budgets, lastConfirmed, stream,
                                      history>>

\* Done, or the end of the stream; a natural end refills two budgets
Ended(t) == /\ Streaming
            /\ truncated' = t
            /\ rateWaits' = 0 /\ streamRetry' = 0
            /\ pc' = "settle"
            /\ UNCHANGED <<stop, input, round, limits, overflow, providerRetry, partials,
                           emptyRetries, truncConts, conts, loopRetried, lastConfirmed, got,
                           history>>

-----------------------------------------------------------------------------
(* A completed stream.                                                     *)

\* Not cut at the output limit, and no content, or filler beside which there
\* is no text, no reasoning and no complete call: parts of a tool call that
\* were displayed are not asked for.
MayBeEmpty == /\ ~truncated
              /\ \/ got = {}
                 \/ "blank" \in got /\ got \subseteq {"blank", "space", "fragment"}
MustBeEmpty == got = {} /\ ~truncated

EmptyRetry ==
    /\ pc = "settle" /\ MayBeEmpty
    /\ IF emptyRetries < MaxEmpty
       THEN pc' = "sleep" /\ emptyRetries' = emptyRetries + 1 /\ UNCHANGED stop
       ELSE Finish("ProviderError") /\ UNCHANGED emptyRetries
    /\ UNCHANGED <<input, round, limits, overflow, providerRetry, streamRetry, partials,
                   rateWaits, truncConts, conts, loopRetried, lastConfirmed, stream,
                   history>>

\* the assistant message is pushed; on_model_response may drop its calls
Respond(calls) == /\ pc = "settle" /\ ~MustBeEmpty
                  /\ calls => "call" \in got
                  /\ responses' = responses + 1
                  /\ pc' = IF calls THEN "batch" ELSE "answered"
                  /\ UNCHANGED <<stop, input, round, limits, budgets, lastConfirmed, stream,
                                 saved, shown, hinted>>

\* the batch of ToolBatch, then the loop guards
BatchGoesOn == /\ pc = "batch" /\ ~cancel
               /\ lastConfirmed' \in BOOLEAN
               /\ pc' = "top"
               /\ UNCHANGED <<stop, input, round, limits, budgets, stream, history>>

BatchEnds(reason) == /\ pc = "batch"
                     /\ (reason = "Cancelled") <=> cancel
                     /\ Finish(reason)
                     /\ UNCHANGED <<input, round, limits, budgets, lastConfirmed, stream,
                                    history>>

\* A response without calls.  First a message of the user goes in.
AnswerSteered == /\ pc = "answered" /\ steer
                 /\ pc' = "top"
                 /\ UNCHANGED <<stop, input, round, limits, budgets, lastConfirmed, stream,
                                history>>

\* cut at the output limit: resume, unless the model only repeats itself
AnswerTruncated(redump) ==
    /\ pc = "answered" /\ ~steer
    /\ truncated
    /\ IF ~redump /\ truncConts < MaxTruncated
       THEN pc' = "top" /\ truncConts' = truncConts + 1
       ELSE pc' = "offer" /\ UNCHANGED truncConts
    /\ UNCHANGED <<stop, input, round, limits, overflow, providerRetry, streamRetry,
                   partials, rateWaits, emptyRetries, conts, loopRetried, lastConfirmed,
                   stream, history>>

AnswerWhole == /\ pc = "answered" /\ ~steer /\ ~truncated
               /\ pc' = "offer"
               /\ UNCHANGED <<stop, input, round, limits, budgets, lastConfirmed, stream,
                              history>>

\* a hook offers a continuation
Offered == /\ pc = "offer"
           /\ IF conts >= MaxContinuations
              THEN Finish("MaxContinuations") /\ UNCHANGED conts
              ELSE pc' = "top" /\ conts' = conts + 1 /\ UNCHANGED stop
           /\ UNCHANGED <<input, round, limits, overflow, providerRetry, streamRetry,
                          partials, rateWaits, emptyRetries, truncConts, loopRetried,
                          lastConfirmed, stream, history>>

\* none offered: a truncated answer asks the driver, any other ends the turn
NotOffered == /\ pc = "offer"
              /\ IF truncated /\ Checkpoint
                 THEN pc' = "truncCheckpoint" /\ UNCHANGED stop
                 ELSE Finish("Stopped")
              /\ UNCHANGED <<input, round, limits, budgets, lastConfirmed, stream,
                             history>>

TruncGranted == /\ pc = "truncCheckpoint"
                /\ grants < MaxGrants
                /\ grants' = grants + 1
                /\ pc' = "top"
                /\ UNCHANGED <<stop, input, round, cap, budgets, lastConfirmed, stream,
                               history>>

TruncRefused == /\ pc = "truncCheckpoint"
                /\ Finish(IF cancel THEN "Cancelled" ELSE "Stopped")
                /\ UNCHANGED <<input, round, limits, budgets, lastConfirmed, stream,
                               history>>

-----------------------------------------------------------------------------
(* The driver.                                                             *)

\* Cancel drops what waits in the steer buffer
Cancel == /\ pc # "done" /\ ~cancel
          /\ cancel' = TRUE /\ steer' = FALSE
          /\ UNCHANGED <<pc, stop, steers, round, limits, budgets, lastConfirmed, stream,
                         history>>

Steer == /\ pc # "done"
         /\ steers < MaxSteers
         /\ steers' = steers + 1
         /\ steer' = TRUE
         /\ UNCHANGED <<pc, stop, cancel, round, limits, budgets, lastConfirmed, stream,
                        history>>

-----------------------------------------------------------------------------
Engine == \/ Top \/ RoundGranted \/ RoundRefused
          \/ Cancelled \/ Opened \/ OpenOverflow \/ OpenRateLimited \/ OpenTransient
          \/ OpenFails \/ Wake
          \/ (\E k \in Kinds : Event(k)) \/ IdleReconnect \/ IdleContinue \/ IdleFails
          \/ ReasoningLoop \/ StreamRateLimited \/ StreamCut
          \/ (\E r \in {"Timeout", "ProviderError"} : StreamFails(r))
          \/ (\E t \in BOOLEAN : Ended(t)) \/ EmptyRetry
          \/ (\E c \in BOOLEAN : Respond(c)) \/ BatchGoesOn
          \/ (\E r \in {"Cancelled", "PolicyDenied", "ToolLoopDetected", "RepeatLoop"} :
                  BatchEnds(r))
          \/ AnswerSteered \/ (\E d \in BOOLEAN : AnswerTruncated(d)) \/ AnswerWhole
          \/ Offered \/ NotOffered \/ TruncGranted \/ TruncRefused

Next == Engine \/ Cancel \/ Steer

(* The task of the turn is polled: an open returns, a silent stream times  *)
(* out (stream_timeout), a tool batch ends, a checkpoint is answered.      *)
Spec == Init /\ [][Next]_vars /\ WF_vars(Engine)

-----------------------------------------------------------------------------
(* Properties.                                                             *)

\* The type of the loop's state, every counter within its budget.
TypeOK ==
    /\ pc \in {"top", "roundCheckpoint", "open", "sleep", "stream", "settle", "batch",
               "answered", "offer", "truncCheckpoint", "done"}
    /\ stop \in Stops \cup {"none"}
    /\ cancel \in BOOLEAN /\ steer \in BOOLEAN /\ steers \in 0..MaxSteers
    /\ round \in Nat /\ cap \in Nat /\ grants \in 0..MaxGrants
    /\ overflow \in 0..MaxOverflow /\ providerRetry \in 0..MaxProviderRetries
    /\ streamRetry \in 0..MaxStreamRetries /\ partials \in 0..MaxPartial
    /\ rateWaits \in 0..(MaxRateWaits + 1) /\ emptyRetries \in 0..MaxEmpty
    /\ truncConts \in 0..MaxTruncated /\ conts \in 0..MaxContinuations
    /\ loopRetried \in BOOLEAN /\ lastConfirmed \in BOOLEAN
    /\ got \subseteq Kinds /\ truncated \in BOOLEAN
    /\ responses \in Nat /\ saved \in Nat /\ shown \in Nat /\ hinted \in Nat

Requesting == {"open", "sleep", "stream", "settle"}

\* The round number counts what the model has answered: a completed response
\* or a partial one that is continued takes a round, a replay of a request
\* (overflow, rate limit, transient failure, reconnect, empty completion,
\* reasoning loop) takes none.
RoundsCountAnswers ==
    /\ pc \in {"top", "batch", "answered", "offer", "truncCheckpoint"}
          => round = responses + partials
    /\ pc \in Requesting \cup {"roundCheckpoint"} => round = responses + partials + 1

\* The cap is exact: the model never answers more often than the configured
\* rounds and the extensions the driver granted, and a turn that ends for its
\* rounds has had all of them, however many requests were replayed.
CapHolds == /\ responses + partials <= cap
            /\ stop = "MaxRounds" => responses + partials = cap

\* No request is sent again once its stream has shown text or carried a
\* complete call: when the next request opens, everything shown belongs to a
\* completed response or to a partial one that was kept.  A request that has
\* displayed a part of a tool call and no more is sent again by one path only,
\* the retry of a completion that held nothing but filler beside it, and no
\* more often than that retry's budget for the turn.
ShownIsKept ==
    pc \in {"top", "open", "sleep", "roundCheckpoint"} =>
        /\ shown <= responses + saved
        /\ hinted <= responses + saved + emptyRetries

\* Every turn ends: no two budgets refill each other for ever.
TurnEnds == <>(pc = "done")
=============================================================================
