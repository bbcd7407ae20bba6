----------------------------- MODULE ToolBatch -----------------------------
(***************************************************************************)
(* The tool calls of one model response (run_turn of                       *)
(* crates/atomcode-kernel/src/agent/engine.rs, from the cancel checkpoint  *)
(* before classification to the end of the batch), and the receipts that   *)
(* protect confirmed mutations when a later stream has to be recovered.    *)
(*                                                                         *)
(* Three phases: CLASSIFY turns the calls into plans in order, EXECUTE     *)
(* runs the Execute plans concurrently behind a semaphore and a reader/    *)
(* writer gate, APPLY pushes the results into the history in order.        *)
(*                                                                         *)
(* A call is an id and a key, the (name, canonical arguments) pair the     *)
(* model emitted.  Middlewares that rewrite arguments and the working      *)
(* directory a receipt is tied to are left out: a key stands for both.     *)
(***************************************************************************)
EXTENDS Naturals, Sequences, FiniteSets

CONSTANTS
    Keys,           \* (name, arguments) pairs a model can emit
    Known,          \* those whose tool is mounted
    Safe,           \* those whose tool is parallel_safe for these arguments
    Batches,        \* the batches the first response of the turn can carry
    LaterBatches,   \* those of its later responses
    MaxBatches,     \* bound on the batches of one turn
    MaxParallel,    \* max_parallel_tools, clamped to at least 1
    MaxReceipts,    \* MAX_RECOVERY_TOOL_RECEIPTS
    Denials,        \* which refusals the before-middlewares may give
    Outcomes,       \* how an execution may end
    MayBlock        \* TRUE iff an after-middleware may return Block

\* 0 is no id: hist uses it for a user message
CallType == [id : Nat \ {0}, key : Keys]
BeforeOutcomes == {"Deny", "DenyTurn"}
ExecOutcomes == {"ok", "err", "image", "intervened"}

ASSUME BatchAssumption ==
    /\ Known \subseteq Keys /\ Safe \subseteq Keys
    /\ Batches \subseteq Seq(CallType) /\ LaterBatches \subseteq Seq(CallType)
    /\ MaxBatches \in Nat \ {0} /\ MaxParallel \in Nat \ {0} /\ MaxReceipts \in Nat
    /\ Denials \subseteq BeforeOutcomes
    /\ Outcomes \subseteq ExecOutcomes
    /\ MayBlock \in BOOLEAN

VARIABLES
    (* the turn *)
    phase,          \* "pick" | "classify" | "execute" | "apply" | "between" | "done"
    stop,           \* why the turn ended, "none" before
    cancel,         \* the turn's cancel token
    nbatches,       \* batches begun
    (* the receipts of confirmed results *)
    receipts,       \* confirmed_tools: the keys, in order
    lastConfirmed,  \* last_batch_confirmed
    protect,        \* protect_recovered_tools
    recoveries,     \* partial_stream_recoveries
    (* CLASSIFY *)
    batch,          \* pending_calls
    truncated,      \* the response was cut at the output limit
    plan,           \* plans built so far
    (* EXECUTE *)
    slot,           \* per call: where it is, then its result
    lockQ,          \* calls with a permit, waiting for the gate, in order
    policyStop,     \* the policy_stop token
    (* APPLY *)
    applied,        \* calls applied
    evidence,       \* batch_evidence: the keys, in order
    confirmed,      \* batch_confirmed
    denied,         \* policy_denied
    hist,           \* what this batch pushed: a result's id, or 0 for a user message
    (* history *)
    ran,            \* calls of this batch that began to execute, in order
    trusted,        \* writes confirmed since the last user message
    owed            \* writes a recovery promised not to run again

turnvars == <<phase, stop, cancel, nbatches>>
recovery == <<receipts, lastConfirmed, protect, recoveries>>
classvars == <<batch, truncated, plan>>
execvars == <<slot, lockQ, policyStop>>
applyvars == <<applied, evidence, confirmed, denied, hist>>
vars == <<phase, stop, cancel, nbatches, receipts, lastConfirmed, protect,
          recoveries, batch, truncated, plan, slot, lockQ, policyStop,
          applied, evidence, confirmed, denied, hist, ran, trusted, owed>>

history == <<ran, trusted, owed>>

Calls == DOMAIN batch
Ids == {batch[i].id : i \in Calls}
Key(i) == batch[i].key
User == 0

Running == {i \in Calls : slot[i] = "running"}
Holding == {i \in Calls : slot[i] \in {"queued", "running"}}
Executes == {i \in DOMAIN plan : plan[i] = "Execute"}
Unsettled == {i \in Executes : slot[i] \in {"empty", "queued", "running"}}

Init == /\ phase = "pick" /\ stop = "none" /\ cancel = FALSE /\ nbatches = 0
        /\ receipts = <<>> /\ lastConfirmed = FALSE /\ protect = FALSE /\ recoveries = 0
        /\ batch = <<>> /\ truncated = FALSE /\ plan = <<>>
        /\ slot = <<>> /\ lockQ = <<>> /\ policyStop = FALSE
        /\ applied = 0 /\ evidence = <<>> /\ confirmed = TRUE /\ denied = FALSE
        /\ hist = <<>>
        /\ ran = <<>> /\ trusted = {} /\ owed = {}

\* A model response with tool calls; the cancel checkpoint before CLASSIFY.
Pick == /\ phase = "pick"
        /\ ~cancel
        /\ \E b \in (IF nbatches = 0 THEN Batches ELSE LaterBatches), t \in BOOLEAN :
              /\ batch' = b
              /\ truncated' = t
              /\ slot' = [i \in DOMAIN b |-> "empty"]
        /\ nbatches' = nbatches + 1
        /\ phase' = "classify"
        /\ plan' = <<>> /\ lockQ' = <<>> /\ policyStop' = FALSE
        /\ applied' = 0 /\ evidence' = <<>> /\ confirmed' = TRUE /\ denied' = FALSE
        /\ hist' = <<>>
        /\ ran' = <<>>
        /\ UNCHANGED <<stop, cancel, recovery, trusted, owed>>

\* Cancel (or Shutdown) may come while the batch is worked on.
CancelTurn == /\ phase \in {"pick", "classify", "execute", "apply"}
              /\ ~cancel
              /\ cancel' = TRUE
              /\ UNCHANGED <<phase, stop, nbatches, recovery, classvars, execvars,
                             applyvars, history>>

PickCancelled == /\ phase = "pick"
                 /\ cancel
                 /\ phase' = "done" /\ stop' = "Cancelled"
                 /\ UNCHANGED <<cancel, nbatches, recovery, classvars, execvars,
                                applyvars, history>>

-----------------------------------------------------------------------------
(* Phase 1: CLASSIFY.  The dedup sets are what the plans so far record.    *)

Pos == Len(plan) + 1

\* mutant: only executed calls record their id
resultIdsOfExecuted == {batch[i].id : i \in {j \in DOMAIN plan : plan[j] = "Execute"}}

\* call ids that have a result (or will have one) in this batch
resultIds == {batch[i].id : i \in DOMAIN plan}

\* mutant: the key of an executed call is not recorded
seenCallsNone == {}

\* keys that execute in this batch
seenCalls == {Key(i) : i \in {j \in DOMAIN plan : plan[j] \in {"Execute", "Revoked"}}}
denialSeen == \E i \in DOMAIN plan : plan[i] = "DenyTurn"

AddPlan(p) == /\ plan' = Append(plan, p)
              /\ UNCHANGED <<turnvars, recovery, batch, truncated, execvars,
                             applyvars, history>>

\* the id already has a result in this batch: no execute, no push, no event
Skip == batch[Pos].id \in resultIds /\ AddPlan("Skip")

Fresh == batch[Pos].id \notin resultIds

\* cut off at the output limit: coach the model, run nothing
Truncated == Fresh /\ truncated /\ AddPlan("Error")

\* an earlier call of this batch terminated the turn by policy
AfterDenial == Fresh /\ ~truncated /\ denialSeen /\ AddPlan("Error")

\* the same (name, arguments) under a new id: a stub result
Duplicate == Fresh /\ ~truncated /\ ~denialSeen /\ Key(Pos) \in seenCalls /\ AddPlan("Stub")

Reviewed == Fresh /\ ~truncated /\ ~denialSeen /\ Key(Pos) \notin seenCalls

Unknown == Reviewed /\ Key(Pos) \notin Known /\ AddPlan("Error")

\* the before-chain lets the call through (Proceed, Ask, Allow) or refuses it
Admit == Reviewed /\ Key(Pos) \in Known /\ AddPlan("Execute")
Deny == Reviewed /\ Key(Pos) \in Known /\ "Deny" \in Denials /\ AddPlan("Error")

\* DenyTurn also turns every Execute plan before it into a blocked result
DenyTurn ==
    /\ Reviewed /\ Key(Pos) \in Known /\ "DenyTurn" \in Denials
    /\ plan' = Append([i \in DOMAIN plan |->
                          IF plan[i] = "Execute" THEN "Revoked" ELSE plan[i]], "DenyTurn")
    /\ UNCHANGED <<turnvars, recovery, batch, truncated, execvars, applyvars, history>>

Classify == /\ phase = "classify"
            /\ Pos <= Len(batch)
            /\ \/ Skip \/ Truncated \/ AfterDenial \/ Duplicate
               \/ Unknown \/ Admit \/ Deny \/ DenyTurn

\* the ready results move into their slots
Classified == /\ phase = "classify"
              /\ Pos > Len(batch)
              /\ phase' = "execute"
              /\ slot' = [i \in Calls |->
                            CASE plan[i] = "Skip" -> "none"
                              [] plan[i] = "Stub" -> "stub"
                              [] plan[i] = "Execute" -> "empty"
                              [] OTHER -> "blocked"]
              /\ UNCHANGED <<stop, cancel, nbatches, recovery, classvars, lockQ,
                             policyStop, applyvars, history>>

-----------------------------------------------------------------------------
(* Phase 2: EXECUTE.                                                       *)

\* sem.acquire(): permits are granted in the order of the first polls, and a
\* granted future queues on the gate
Permit(i) ==
    /\ phase = "execute"
    /\ i \in Executes /\ slot[i] = "empty"
    /\ \A j \in Executes : j < i => slot[j] # "empty"
    /\ Cardinality(Holding) < MaxParallel
    /\ slot' = [slot EXCEPT ![i] = "queued"]
    /\ lockQ' = Append(lockQ, i)
    /\ UNCHANGED <<turnvars, recovery, classvars, policyStop, applyvars, history>>

\* mutant: every call takes the gate as a reader
GateOpenShared(i) == lockQ # <<>> /\ i = Head(lockQ) /\ \A j \in Running : Key(j) \in Safe

\* mutant: a writer waits until nobody else holds a permit
GateOpenAlone(i) == /\ lockQ # <<>> /\ i = Head(lockQ)
                    /\ IF Key(i) \in Safe THEN \A j \in Running : Key(j) \in Safe
                                          ELSE Holding = {i}

\* gate.read() or gate.write(), granted first come first served
GateOpen(i) == /\ lockQ # <<>> /\ i = Head(lockQ)
               /\ IF Key(i) \in Safe THEN \A j \in Running : Key(j) \in Safe
                                     ELSE Running = {}

Receipted(i) == protect /\ Key(i) \notin Safe /\ \E k \in DOMAIN receipts : receipts[k] = Key(i)

\* mutant: the policy stop is only looked at before the gate
EnterNoStop(i) == IF cancel THEN "none"
                  ELSE IF Receipted(i) THEN "reused"
                  ELSE "running"

\* what a future does first once it holds the gate
Enter(i) == IF cancel THEN "none"
            ELSE IF policyStop THEN "blocked"
            ELSE IF Receipted(i) THEN "reused"
            ELSE "running"

Gate(i) == /\ phase = "execute"
           /\ GateOpen(i)
           /\ slot' = [slot EXCEPT ![i] = Enter(i)]
           /\ lockQ' = Tail(lockQ)
           /\ ran' = IF Enter(i) = "running"
                     THEN Append(ran, i) ELSE ran
           /\ UNCHANGED <<turnvars, recovery, classvars, policyStop, applyvars,
                          trusted, owed>>

\* the tool returns; a policy intervention stops the siblings still waiting
Return(i, o) == /\ phase = "execute"
                /\ slot[i] = "running"
                /\ slot' = [slot EXCEPT ![i] = o]
                /\ policyStop' = (policyStop \/ o = "intervened")
                /\ UNCHANGED <<turnvars, recovery, classvars, lockQ, applyvars, history>>

\* a tool still pending when the token fires is dropped: side effects unknown
Kill(i) == /\ phase = "execute"
           /\ slot[i] = "running"
           /\ cancel
           /\ slot' = [slot EXCEPT ![i] = "killed"]
           /\ UNCHANGED <<turnvars, recovery, classvars, lockQ, policyStop, applyvars, history>>

Executed == /\ phase = "execute"
            /\ Unsettled = {}
            /\ phase' = "apply"
            /\ UNCHANGED <<stop, cancel, nbatches, recovery, classvars, execvars,
                           applyvars, history>>

-----------------------------------------------------------------------------
(* Phase 3: APPLY, in the order of the calls.                              *)

\* Skip and cancelled slots have nothing to apply
ApplyNone == /\ phase = "apply"
             /\ applied < Len(batch)
             /\ slot[applied + 1] = "none"
             /\ applied' = applied + 1
             /\ confirmed' = FALSE
             /\ UNCHANGED <<turnvars, recovery, classvars, execvars, evidence,
                            denied, hist, history>>

\* after-chain (skipped for a reused result), evidence, push, post-block note
ApplyResult(block) ==
    LET i == applied + 1
        deniedNow == denied \/ slot[i] = "intervened"
        fresh == slot[i] = "ok" /\ ~block /\ ~deniedNow
    IN
    /\ phase = "apply"
    /\ applied < Len(batch)
    /\ slot[i] # "none"
    /\ block => MayBlock /\ slot[i] # "reused"
    /\ applied' = i
    /\ evidence' = IF fresh THEN Append(evidence, Key(i)) ELSE evidence
    /\ confirmed' = (confirmed /\ fresh)
    /\ denied' = (deniedNow \/ plan[i] = "DenyTurn")
    /\ hist' = hist \o <<batch[i].id>> \o (IF block THEN <<User>> ELSE <<>>)
    /\ UNCHANGED <<turnvars, recovery, classvars, execvars, history>>

\* last_batch_confirmed: every call fresh, within the bound on receipts
BatchConfirmed == /\ confirmed /\ evidence # <<>> /\ ~denied /\ ~cancel
                  /\ Len(receipts) + Len(evidence) <= MaxReceipts

Writes == {Key(i) : i \in {j \in Calls : Key(j) \notin Safe}}
Trust == trusted' = IF BatchConfirmed THEN trusted \cup Writes ELSE trusted

\* mutant: receipts survive only until the next batch
PublishReplaces == /\ Trust /\ lastConfirmed' = BatchConfirmed
                   /\ receipts' = IF BatchConfirmed THEN evidence ELSE receipts

Publish == /\ Trust /\ lastConfirmed' = BatchConfirmed
           /\ receipts' = IF BatchConfirmed THEN receipts \o evidence ELSE receipts

\* cancel wins over a policy denial of the same batch
Terminal == IF cancel THEN "Cancelled" ELSE IF denied THEN "PolicyDenied" ELSE "none"

\* the images of the batch go into one user message after all results
BatchEnd == /\ phase = "apply"
            /\ applied = Len(batch)
            /\ Publish
            /\ stop' = Terminal
            /\ phase' = IF Terminal = "none" THEN "between" ELSE "done"
            /\ hist' = IF Terminal = "none" /\ \E i \in Calls : slot[i] = "image"
                       THEN Append(hist, User) ELSE hist
            /\ UNCHANGED <<cancel, nbatches, protect, recoveries, classvars, execvars,
                           applied, evidence, confirmed, denied, ran, owed>>

-----------------------------------------------------------------------------
(* Between two batches: the next request streams.                          *)

\* the next response carries calls again, or none and the turn stops
NextResponse == /\ phase = "between"
                /\ \/ nbatches < MaxBatches /\ phase' = "pick" /\ UNCHANGED stop
                   \/ phase' = "done" /\ stop' = "Stopped"
                /\ UNCHANGED <<cancel, nbatches, recovery, classvars, execvars,
                               applyvars, history>>

\* mutant: a new user message keeps the receipts of the old intent
SteerKeeps == /\ phase = "between"
              /\ trusted' = {} /\ owed' = {}
              /\ UNCHANGED <<turnvars, recovery, classvars, execvars, applyvars, ran>>

\* a steer message at the top of the round is a new intent: forget receipts
Steer == /\ phase = "between"
         /\ receipts' = <<>> /\ lastConfirmed' = FALSE /\ protect' = FALSE
         /\ trusted' = {} /\ owed' = {}
         /\ UNCHANGED <<turnvars, recoveries, classvars, execvars, applyvars, ran>>

\* the stream is interrupted and continued from saved progress, once a turn
Recover == /\ phase = "between"
           /\ recoveries < 1
           /\ recoveries' = recoveries + 1
           /\ protect' = lastConfirmed
           /\ owed' = IF lastConfirmed THEN trusted ELSE {}
           /\ UNCHANGED <<turnvars, receipts, lastConfirmed, classvars, execvars,
                          applyvars, ran, trusted>>

-----------------------------------------------------------------------------
Work == \/ Pick \/ PickCancelled \/ Classify \/ Classified
        \/ \E i \in Calls : Permit(i) \/ Gate(i) \/ Kill(i)
        \/ \E i \in Calls, o \in Outcomes : Return(i, o)
        \/ Executed \/ ApplyNone \/ (\E b \in BOOLEAN : ApplyResult(b)) \/ BatchEnd
        \/ NextResponse

Next == Work \/ CancelTurn \/ Steer \/ Recover

(* The executor polls the batch and every tool returns or is killed.       *)
Spec == Init /\ [][Next]_vars /\ WF_vars(Work)

-----------------------------------------------------------------------------
(* Properties.                                                             *)

Settled == {"none", "stub", "blocked", "reused", "killed"} \cup ExecOutcomes

\* The type of the batch's state.
TypeOK ==
    /\ phase \in {"pick", "classify", "execute", "apply", "between", "done"}
    /\ stop \in {"none", "Cancelled", "PolicyDenied", "Stopped"}
    /\ cancel \in BOOLEAN /\ lastConfirmed \in BOOLEAN /\ protect \in BOOLEAN
    /\ truncated \in BOOLEAN /\ policyStop \in BOOLEAN
    /\ confirmed \in BOOLEAN /\ denied \in BOOLEAN
    /\ nbatches \in 0..MaxBatches /\ recoveries \in 0..1
    /\ batch \in Seq(CallType)
    /\ plan \in Seq({"Skip", "Error", "Stub", "DenyTurn", "Revoked", "Execute"})
    /\ slot \in [Calls -> {"empty", "queued", "running"} \cup Settled]
    /\ lockQ \in Seq(Calls)
    /\ applied \in 0..Len(batch)
    /\ receipts \in Seq(Keys) /\ evidence \in Seq(Keys)
    /\ hist \in Seq(Nat)
    /\ ran \in Seq(Calls)
    /\ trusted \subseteq Keys /\ owed \subseteq Keys

ResultsFor(id) == Cardinality({k \in DOMAIN hist : hist[k] = id})

\* One result per call id: a batch never pushes two results for one id, also
\* when the model repeats ids, and every id has its result when the turn goes
\* on or ends by policy (a cancelled batch is rolled back or backfilled).
OneResultPerId ==
    /\ \A id \in Ids : ResultsFor(id) <= 1
    /\ phase = "between" \/ stop = "PolicyDenied" => \A id \in Ids : ResultsFor(id) = 1

\* Write barrier: while a call that is not parallel_safe runs, every earlier
\* call of the batch is over and no later one has begun, so side effects happen
\* in the order the model emitted them and no read sees a mutation half done.
WriteBarrier ==
    phase = "execute" =>
      \A i \in Running : Key(i) \notin Safe =>
          \A j \in Executes : /\ j < i => slot[j] \in Settled
                              /\ j > i => slot[j] \in {"empty", "queued"}

\* A duplicate (same name and arguments under another id) has no effect twice.
NoDuplicateEffect ==
    \A j, k \in DOMAIN ran : j # k => Key(ran[j]) # Key(ran[k])

\* After a cancel, or after a tool reported a policy intervention, no further
\* call of the batch begins, even one that already waited for the gate.
StopHolds == [][(cancel \/ policyStop) /\ nbatches' = nbatches => ran' = ran]_vars

\* A write confirmed before the stream broke is not run again by the recovered
\* turn until the user speaks again.
ConfirmedNotRerun == \A i \in Running : Key(i) \notin owed

\* A result is only reused for a write confirmed since the last user message.
ReuseIsTrusted ==
    phase \in {"execute", "apply"} =>
        \A i \in Calls : slot[i] = "reused" => Key(i) \in trusted

\* Every batch ends: permits and the gate cannot block each other.
BatchEnds == phase = "classify" ~> phase \in {"between", "done"}
=============================================================================
