-------------------------- MODULE ToolBatchProofs --------------------------
(***************************************************************************)
(* Proofs about ToolBatch, for every batch a model can emit, every number  *)
(* of permits and receipts, and every choice of safe and mounted tools.    *)
(*                                                                         *)
(* The inductive invariant follows the three phases: what CLASSIFY has     *)
(* planned (PlanInv), where EXECUTE has every call and in which order they *)
(* wait for the gate (SlotInv, QueueInv, RanInv), what APPLY has pushed    *)
(* (HistInv), and what the receipts say of the writes that were confirmed  *)
(* (ReceiptInv).                                                           *)
(***************************************************************************)
EXTENDS ToolBatch, SequenceTheorems, FiniteSetTheorems, TLAPS

\* CLASSIFY: ids have one plan that gives a result, keys one that executes.
PlanInv ==
    /\ Len(plan) <= Len(batch)
    /\ phase # "classify" => Len(plan) = Len(batch)
    /\ \A i \in DOMAIN plan : plan[i] = "Skip" =>
          \E j \in DOMAIN plan : plan[j] # "Skip" /\ batch[j].id = batch[i].id
    /\ \A i, j \in DOMAIN plan :
          (i # j /\ plan[i] # "Skip" /\ plan[j] # "Skip") => batch[i].id # batch[j].id
    /\ \A i, j \in DOMAIN plan :
          (i # j /\ {plan[i], plan[j]} \subseteq {"Execute", "Revoked"}) => Key(i) # Key(j)

\* The slots: nothing begins before EXECUTE, everything is over after it, and
\* only a cancel leaves a call that was to give a result without one.
SlotInv ==
    /\ phase = "classify" => \A i \in Calls : slot[i] = "empty"
    /\ phase \notin {"classify", "execute"} => \A i \in Calls : slot[i] \in Settled
    /\ phase # "classify" =>
          \A i \in Calls : /\ plan[i] # "Execute" => slot[i] \in {"none", "stub", "blocked"}
                           /\ plan[i] = "Skip" => slot[i] = "none"
                           /\ slot[i] = "none" => plan[i] = "Skip" \/ cancel

\* The gate's queue: the calls that wait, in the order of the batch; no call
\* overtakes one that waits for a permit or for the gate.
QueueInv ==
    /\ phase = "classify" => lockQ = <<>>
    /\ phase = "execute" =>
          /\ \A k \in DOMAIN lockQ : slot[lockQ[k]] = "queued"
          /\ \A k, l \in DOMAIN lockQ : k < l => lockQ[k] < lockQ[l]
          /\ \A i \in Calls : slot[i] = "queued" => \E k \in DOMAIN lockQ : lockQ[k] = i
          /\ \A i, j \in Executes : j < i =>
                /\ slot[j] = "empty" => slot[i] = "empty"
                /\ slot[j] = "queued" => slot[i] \in {"empty", "queued"}

\* What ran was planned to, left the queue, and is in the list once.
RanInv ==
    /\ phase = "classify" => ran = <<>>
    /\ \A k \in DOMAIN ran : /\ ran[k] \in Executes
                             /\ slot[ran[k]] \notin {"empty", "queued"}
    /\ \A k, l \in DOMAIN ran : k # l => ran[k] # ran[l]

\* Receipts and the writes confirmed since the last user message.
ReceiptInv ==
    /\ \A k \in DOMAIN receipts : receipts[k] \in Safe \/ receipts[k] \in trusted
    /\ \A w \in trusted : w \notin Safe /\ \E k \in DOMAIN receipts : receipts[k] = w
    /\ owed \subseteq trusted
    /\ ~protect => owed = {}
    /\ \A k \in DOMAIN evidence : \E i \in Calls : evidence[k] = Key(i)
    /\ confirmed => \A i \in 1..applied : \E k \in DOMAIN evidence : evidence[k] = Key(i)

\* APPLY: the results pushed are those of the calls applied, each id once.
HistInv ==
    /\ phase \in {"classify", "execute"} => applied = 0
    /\ phase \in {"between", "pick"} => applied = Len(batch)
    /\ \A k, l \in DOMAIN hist : (hist[k] = hist[l] /\ hist[k] # User) => k = l
    /\ \A k \in DOMAIN hist : hist[k] # User =>
          \E i \in 1..applied : slot[i] # "none" /\ hist[k] = batch[i].id
    /\ \A i \in 1..applied : slot[i] # "none" => \E k \in DOMAIN hist : hist[k] = batch[i].id

\* How a turn goes on or ends.
TurnInv ==
    /\ phase = "pick" => nbatches < MaxBatches
    /\ phase # "done" => stop = "none"
    /\ phase = "between" => ~cancel
    /\ stop = "PolicyDenied" => ~cancel /\ applied = Len(batch)

IInv == /\ TypeOK /\ PlanInv /\ SlotInv /\ QueueInv /\ RanInv /\ WriteBarrier
        /\ ReceiptInv /\ ConfirmedNotRerun /\ ReuseIsTrusted /\ HistInv /\ TurnInv

-----------------------------------------------------------------------------
(* The turn before and between batches.                                    *)

\* The invariant holds when a turn begins.
LEMMA InitIInv == Init => IInv
<1> SUFFICES ASSUME Init PROVE IInv
  OBVIOUS
<1> USE BatchAssumption DEF Init
<1>1. TypeOK
  <2>1. Calls = {} /\ batch \in Seq(CallType) /\ slot \in [{} -> {}] /\ Len(batch) = 0
    BY DEF Calls
  <2>2. /\ plan \in Seq({"Skip", "Error", "Stub", "DenyTurn", "Revoked", "Execute"})
        /\ lockQ \in Seq(Calls) /\ ran \in Seq(Calls) /\ hist \in Seq(Nat)
        /\ receipts \in Seq(Keys) /\ evidence \in Seq(Keys)
    OBVIOUS
  <2>3. slot \in [Calls -> {"empty", "queued", "running"} \cup Settled] /\ applied \in 0..Len(batch)
    BY <2>1
  <2>4. /\ phase = "pick" /\ stop = "none"
        /\ cancel \in BOOLEAN /\ lastConfirmed \in BOOLEAN /\ protect \in BOOLEAN
        /\ truncated \in BOOLEAN /\ policyStop \in BOOLEAN
        /\ confirmed \in BOOLEAN /\ denied \in BOOLEAN
        /\ trusted \subseteq Keys /\ owed \subseteq Keys
    BY Zenon
  <2>5. nbatches \in 0..MaxBatches /\ recoveries \in 0..1
    OBVIOUS
  <2> HIDE DEF Init
  <2> QED BY <2>1, <2>2, <2>3, <2>4, <2>5 DEF TypeOK
<1>2. PlanInv /\ SlotInv /\ QueueInv /\ RanInv
  BY DEF PlanInv, SlotInv, QueueInv, RanInv, Calls
<1>3. WriteBarrier /\ ConfirmedNotRerun /\ ReuseIsTrusted
  BY DEF WriteBarrier, ConfirmedNotRerun, ReuseIsTrusted, Running, Calls
<1>4. ReceiptInv /\ HistInv /\ TurnInv
  BY DEF ReceiptInv, HistInv, TurnInv
<1> QED BY <1>1, <1>2, <1>3, <1>4 DEF IInv

\* A new batch starts with nothing planned, run or applied.
LEMMA PickKeeps == ASSUME IInv, Pick PROVE IInv'
<1> USE BatchAssumption DEF recovery
<1>1. PICK b \in Seq(CallType) : /\ batch' = b
                                 /\ slot' = [i \in DOMAIN b |-> "empty"]
  BY DEF Pick
<1>2. TypeOK'
  <2>1. /\ plan' \in Seq({"Skip", "Error", "Stub", "DenyTurn", "Revoked", "Execute"})
        /\ lockQ' \in Seq(Calls') /\ ran' \in Seq(Calls') /\ hist' \in Seq(Nat)
        /\ evidence' \in Seq(Keys)
    BY DEF Pick
  <2>2. batch' \in Seq(CallType) /\ slot' \in [Calls' -> {"empty"}] /\ applied' \in 0..Len(batch')
    BY <1>1 DEF Pick, Calls
  <2>3. nbatches' \in 0..MaxBatches
    BY DEF Pick, IInv, TypeOK, TurnInv
  <2> QED BY <2>1, <2>2, <2>3 DEF IInv, TypeOK, Pick
<1>3. PlanInv' /\ SlotInv' /\ QueueInv' /\ RanInv'
  BY <1>1 DEF Pick, PlanInv, SlotInv, QueueInv, RanInv, Calls
<1>4. WriteBarrier' /\ ConfirmedNotRerun' /\ ReuseIsTrusted'
  BY <1>1 DEF Pick, WriteBarrier, ConfirmedNotRerun, ReuseIsTrusted, Running, Calls
<1>5. ReceiptInv' /\ HistInv' /\ TurnInv'
  BY <1>1 DEF Pick, IInv, ReceiptInv, HistInv, TurnInv
<1> QED BY <1>2, <1>3, <1>4, <1>5 DEF IInv

\* A cancel, and the checkpoint that sees it before the next batch.
LEMMA CancelKeeps == ASSUME IInv, CancelTurn \/ PickCancelled PROVE IInv'
<1> USE DEF recovery, classvars, execvars, applyvars, history
<1>1. TypeOK'
  <2>1. /\ UNCHANGED <<nbatches, receipts, lastConfirmed, protect, recoveries, batch, truncated,
                      plan, slot, lockQ, policyStop, applied, evidence, confirmed, denied,
                      hist, ran, trusted, owed>>
        /\ Calls' = Calls
    BY DEF CancelTurn, PickCancelled, Calls
  <2>2. phase' \in {"pick", "classify", "execute", "apply", "between", "done"}
    BY DEF IInv, TypeOK, CancelTurn, PickCancelled
  <2>3. stop' \in {"none", "Cancelled", "PolicyDenied", "Stopped"}
    BY DEF IInv, TypeOK, CancelTurn, PickCancelled
  <2>4. cancel' \in BOOLEAN
    BY DEF IInv, TypeOK, CancelTurn, PickCancelled
  <2> QED BY <2>1, <2>2, <2>3, <2>4 DEF IInv, TypeOK
<1>2. PlanInv' /\ RanInv'
  BY DEF CancelTurn, PickCancelled, IInv, PlanInv, RanInv, Calls, Executes, Key
<1>3. SlotInv'
  BY DEF CancelTurn, PickCancelled, IInv, SlotInv, Calls
<1>4. QueueInv'
  BY DEF CancelTurn, PickCancelled, IInv, QueueInv, Calls, Executes
<1>5. WriteBarrier' /\ ConfirmedNotRerun' /\ ReuseIsTrusted'
  BY DEF CancelTurn, PickCancelled, IInv, WriteBarrier, ConfirmedNotRerun, ReuseIsTrusted,
         Running, Calls, Executes, Key
<1>6. ReceiptInv' /\ HistInv' /\ TurnInv'
  BY DEF CancelTurn, PickCancelled, IInv, ReceiptInv, HistInv, TurnInv, Calls, Key
<1> QED BY <1>1, <1>2, <1>3, <1>4, <1>5, <1>6 DEF IInv

\* The next response, a steer message, a recovered stream.
LEMMA BetweenKeeps == ASSUME IInv, NextResponse \/ Steer \/ Recover PROVE IInv'
<1> USE DEF turnvars, recovery, classvars, execvars, applyvars, history
<1>0. phase = "between" /\ Running = {}
  BY DEF NextResponse, Steer, Recover, IInv, SlotInv, Running, Settled, ExecOutcomes
<1>1. TypeOK'
  <2>1. receipts' = receipts \/ receipts' = <<>>
    BY DEF NextResponse, Steer, Recover
  <2>2. receipts' \in Seq(Keys)
    <3>1. receipts \in Seq(Keys) /\ <<>> \in Seq(Keys)
      BY DEF IInv, TypeOK
    <3> QED BY <2>1, <3>1
  <2>3. recoveries' \in 0..1
    BY DEF IInv, TypeOK, NextResponse, Steer, Recover
  <2>4. CASE NextResponse
    BY <2>4 DEF IInv, TypeOK, NextResponse, Calls
  <2>5. CASE Steer
    BY <2>2, <2>5 DEF IInv, TypeOK, Steer, Calls
  <2>6. CASE Recover
    BY <2>3, <2>6 DEF IInv, TypeOK, Recover, Calls
  <2> QED BY <2>4, <2>5, <2>6
<1>2. PlanInv' /\ RanInv'
  BY <1>0 DEF NextResponse, Steer, Recover, IInv, PlanInv, RanInv, Calls, Executes, Key
<1>3. SlotInv'
  BY <1>0 DEF NextResponse, Steer, Recover, IInv, SlotInv, Calls
<1>4. QueueInv' /\ WriteBarrier' /\ ReuseIsTrusted'
  BY <1>0 DEF NextResponse, Steer, Recover, QueueInv, WriteBarrier, ReuseIsTrusted
<1>5. ConfirmedNotRerun'
  BY <1>0 DEF NextResponse, Steer, Recover, ConfirmedNotRerun, Running, Calls
<1>6. ReceiptInv'
  BY DEF NextResponse, Steer, Recover, IInv, ReceiptInv, Calls, Key
<1>7. HistInv' /\ TurnInv'
  BY DEF NextResponse, Steer, Recover, IInv, HistInv, TurnInv
<1> QED BY <1>1, <1>2, <1>3, <1>4, <1>5, <1>6, <1>7 DEF IInv

-----------------------------------------------------------------------------
(* Phase 1: CLASSIFY.                                                      *)

\* A plan added at Pos, after plans that gave results keep giving one and
\* plans that execute keep their keys.
LEMMA PlanAppended ==
    ASSUME IInv, phase = "classify", Pos <= Len(batch),
           NEW q \in Seq({"Skip", "Error", "Stub", "DenyTurn", "Revoked", "Execute"}),
           Len(q) = Len(plan),
           \A i \in DOMAIN plan : q[i] = plan[i] \/ (plan[i] = "Execute" /\ q[i] = "Revoked"),
           NEW p \in {"Skip", "Error", "Stub", "DenyTurn", "Execute"},
           plan' = Append(q, p),
           p = "Skip" => batch[Pos].id \in resultIds,
           p # "Skip" => batch[Pos].id \notin resultIds,
           p = "Execute" => Key(Pos) \notin seenCalls,
           UNCHANGED <<turnvars, recovery, batch, truncated, execvars, applyvars, history>>
    PROVE  IInv'
<1> USE DEF turnvars, recovery, execvars, applyvars, history
<1>0. /\ plan \in Seq({"Skip", "Error", "Stub", "DenyTurn", "Revoked", "Execute"})
      /\ batch \in Seq(CallType)
      /\ DOMAIN plan = 1..Len(plan) /\ DOMAIN q = 1..Len(plan) /\ Len(plan) \in Nat
  BY DEF IInv, TypeOK
<1>1. /\ DOMAIN plan' = 1..Pos /\ Len(plan') = Pos /\ Pos = Len(plan) + 1
      /\ plan'[Pos] = p
      /\ \A i \in 1..Len(plan) : plan'[i] = q[i]
  BY <1>0 DEF Pos
<1>2. TypeOK'
  BY <1>0 DEF IInv, TypeOK, Calls
<1>3. PlanInv'
  <2>1. Len(plan') <= Len(batch') /\ (phase' # "classify" => Len(plan') = Len(batch'))
    BY <1>1
  <2>2. ASSUME NEW i \in DOMAIN plan', plan'[i] = "Skip"
        PROVE  \E j \in DOMAIN plan' : plan'[j] # "Skip" /\ batch[j].id = batch[i].id
    <3>1. CASE i = Pos
      <4>1. PICK k \in DOMAIN plan : batch[k].id = batch[Pos].id
        BY <1>1, <2>2, <3>1 DEF resultIds
      <4>2. PICK j \in DOMAIN plan : plan[j] # "Skip" /\ batch[j].id = batch[k].id
        BY DEF IInv, PlanInv
      <4> QED BY <1>0, <1>1, <3>1, <4>1, <4>2
    <3>2. CASE i # Pos
      <4>1. i \in DOMAIN plan /\ plan[i] = "Skip"
        BY <1>0, <1>1, <2>2, <3>2
      <4>2. PICK j \in DOMAIN plan : plan[j] # "Skip" /\ batch[j].id = batch[i].id
        BY <4>1 DEF IInv, PlanInv
      <4> QED BY <1>0, <1>1, <4>2
    <3> QED BY <3>1, <3>2
  <2>3. ASSUME NEW i \in DOMAIN plan', NEW j \in DOMAIN plan', i < j,
               plan'[i] # "Skip", plan'[j] # "Skip"
        PROVE  batch[i].id # batch[j].id
    <3>1. i \in DOMAIN plan /\ plan[i] # "Skip"
      BY <1>0, <1>1, <2>3
    <3>2. CASE j = Pos
      BY <1>1, <2>3, <3>1, <3>2 DEF resultIds
    <3>3. CASE j # Pos
      <4>1. j \in DOMAIN plan /\ plan[j] # "Skip"
        BY <1>0, <1>1, <2>3, <3>3
      <4> QED BY <2>3, <3>1, <4>1, <1>0 DEF IInv, PlanInv
    <3> QED BY <3>2, <3>3
  <2>4. ASSUME NEW i \in DOMAIN plan', NEW j \in DOMAIN plan', i < j,
               {plan'[i], plan'[j]} \subseteq {"Execute", "Revoked"}
        PROVE  Key(i) # Key(j)
    <3>1. i \in DOMAIN plan /\ plan[i] \in {"Execute", "Revoked"}
      BY <1>0, <1>1, <2>4
    <3>2. CASE j = Pos
      BY <1>1, <2>4, <3>1, <3>2 DEF seenCalls
    <3>3. CASE j # Pos
      <4>1. j \in DOMAIN plan /\ plan[j] \in {"Execute", "Revoked"}
        BY <1>0, <1>1, <2>4, <3>3
      <4> QED BY <2>4, <3>1, <4>1, <1>0 DEF IInv, PlanInv
    <3> QED BY <3>2, <3>3
  <2>5. DOMAIN plan' \subseteq Nat
    BY <1>1
  <2>6. \A i, j \in DOMAIN plan' :
           (i # j /\ plan'[i] # "Skip" /\ plan'[j] # "Skip") => batch[i].id # batch[j].id
    BY <2>3, <2>5
  <2>7. \A i, j \in DOMAIN plan' :
           (i # j /\ {plan'[i], plan'[j]} \subseteq {"Execute", "Revoked"}) => Key(i) # Key(j)
    BY <2>4, <2>5
  <2> QED BY <2>1, <2>2, <2>6, <2>7 DEF PlanInv, Key
<1>4. SlotInv' /\ QueueInv' /\ RanInv'
  BY DEF IInv, SlotInv, QueueInv, RanInv, Calls
<1>5. WriteBarrier' /\ ConfirmedNotRerun' /\ ReuseIsTrusted'
  BY DEF IInv, WriteBarrier, ConfirmedNotRerun, ReuseIsTrusted, Running, Calls, Key
<1>6. ReceiptInv' /\ HistInv' /\ TurnInv'
  BY DEF IInv, ReceiptInv, HistInv, TurnInv, Calls, Key
<1> QED BY <1>2, <1>3, <1>4, <1>5, <1>6 DEF IInv

\* Every way to classify the next call.
LEMMA ClassifyKeeps == ASSUME IInv, Classify PROVE IInv'
<1>0. plan \in Seq({"Skip", "Error", "Stub", "DenyTurn", "Revoked", "Execute"})
  BY DEF IInv, TypeOK
<1>1. CASE ~DenyTurn
  <2>1. \E p \in {"Skip", "Error", "Stub", "DenyTurn", "Execute"} :
           /\ AddPlan(p)
           /\ p = "Skip" => batch[Pos].id \in resultIds
           /\ p # "Skip" => batch[Pos].id \notin resultIds
           /\ p = "Execute" => Key(Pos) \notin seenCalls
    BY <1>1 DEF Classify, Skip, Truncated, AfterDenial, Duplicate, Unknown, Admit, Deny,
                Reviewed, Fresh
  <2> QED BY <1>0, <2>1, PlanAppended DEF AddPlan, Classify
<1>2. CASE DenyTurn
  <2> DEFINE q == [i \in DOMAIN plan |-> IF plan[i] = "Execute" THEN "Revoked" ELSE plan[i]]
  <2>1. /\ q \in Seq({"Skip", "Error", "Stub", "DenyTurn", "Revoked", "Execute"})
        /\ Len(q) = Len(plan)
        /\ \A i \in DOMAIN plan : q[i] = plan[i] \/ (plan[i] = "Execute" /\ q[i] = "Revoked")
    BY <1>0
  <2>2. plan' = Append(q, "DenyTurn") /\ batch[Pos].id \notin resultIds
    BY <1>2 DEF DenyTurn, Reviewed, Fresh
  <2>3. UNCHANGED <<turnvars, recovery, batch, truncated, execvars, applyvars, history>>
    BY <1>2 DEF DenyTurn
  <2> HIDE DEF q
  <2> QED BY <2>1, <2>2, <2>3, PlanAppended DEF Classify
<1> QED BY <1>1, <1>2

\* The ready results move into their slots; nothing waits or runs yet.
LEMMA ClassifiedKeeps == ASSUME IInv, Classified PROVE IInv'
<1> USE DEF recovery, classvars, applyvars, history
<1>0. /\ batch \in Seq(CallType) /\ Len(plan) = Len(batch)
      /\ DOMAIN plan = 1..Len(batch) /\ Calls = 1..Len(batch)
      /\ lockQ = <<>> /\ ran = <<>> /\ phase = "classify"
  BY DEF IInv, TypeOK, PlanInv, QueueInv, RanInv, Classified, Pos, Calls
<1>1. \A i \in Calls : /\ plan[i] = "Skip" => slot'[i] = "none"
                       /\ plan[i] = "Execute" => slot'[i] = "empty"
                       /\ slot'[i] \in {"none", "stub", "empty", "blocked"}
                       /\ slot'[i] = "none" => plan[i] = "Skip"
                       /\ plan[i] # "Execute" => slot'[i] \in {"none", "stub", "blocked"}
  BY DEF Classified
<1>2. slot' \in [Calls -> {"none", "stub", "empty", "blocked"}]
  BY <1>1 DEF Classified
<1>3. TypeOK'
  BY <1>2 DEF IInv, TypeOK, Classified, Calls, Settled
<1>4. PlanInv'
  BY <1>0 DEF IInv, PlanInv, Classified, Key
<1>5. SlotInv'
  BY <1>1 DEF Classified, SlotInv, Calls
<1>6. QueueInv' /\ RanInv'
  BY <1>0, <1>1 DEF Classified, QueueInv, RanInv, Calls, Executes
<1>7. WriteBarrier' /\ ConfirmedNotRerun' /\ ReuseIsTrusted'
  BY <1>1 DEF Classified, WriteBarrier, ConfirmedNotRerun, ReuseIsTrusted, Running, Calls
<1>8. ReceiptInv' /\ TurnInv'
  BY DEF IInv, ReceiptInv, TurnInv, Classified, Calls, Key
<1>9. HistInv'
  <2>1. applied = 0 /\ applied' = 0
    BY <1>0 DEF IInv, HistInv, Classified
  <2> QED BY <1>0, <2>1 DEF IInv, HistInv, Classified
<1> QED BY <1>3, <1>4, <1>5, <1>6, <1>7, <1>8, <1>9 DEF IInv

-----------------------------------------------------------------------------
(* Phase 2: EXECUTE.                                                       *)

\* A call that waits or runs is one that was admitted.
LEMMA ExecuteFacts ==
    ASSUME IInv, phase = "execute"
    PROVE  /\ Calls = 1..Len(batch) /\ DOMAIN plan = Calls /\ Len(batch) \in Nat
           /\ slot \in [Calls -> {"empty", "queued", "running"} \cup Settled]
           /\ Executes \subseteq Calls
           /\ \A i \in Calls : slot[i] \notin Settled => i \in Executes
           /\ lockQ \in Seq(Calls) /\ DOMAIN lockQ = 1..Len(lockQ) /\ Len(lockQ) \in Nat
           /\ ran \in Seq(Calls)
           /\ applied = 0
<1>1. batch \in Seq(CallType) /\ Len(plan) = Len(batch)
  BY DEF IInv, TypeOK, PlanInv
<1>2. plan \in Seq({"Skip", "Error", "Stub", "DenyTurn", "Revoked", "Execute"})
  BY DEF IInv, TypeOK
<1>3. Calls = 1..Len(batch) /\ DOMAIN plan = Calls /\ Len(batch) \in Nat /\ Executes \subseteq Calls
  BY <1>1, <1>2 DEF Calls, Executes
<1>4. \A i \in Calls : slot[i] \notin Settled => i \in Executes
  BY <1>3 DEF IInv, SlotInv, Executes, Settled
<1>5. /\ slot \in [Calls -> {"empty", "queued", "running"} \cup Settled]
      /\ lockQ \in Seq(Calls) /\ ran \in Seq(Calls)
  BY DEF IInv, TypeOK
<1>6. applied = 0
  BY DEF IInv, HistInv
<1> QED BY <1>3, <1>4, <1>5, <1>6

\* A permit: the call queues on the gate behind every call before it.
LEMMA PermitKeeps == ASSUME IInv, NEW i \in Calls, Permit(i) PROVE IInv'
<1> USE DEF turnvars, recovery, classvars, applyvars, history
<1>0. phase = "execute" /\ phase' = "execute" /\ Calls' = Calls /\ Executes' = Executes
      /\ \A j : Key(j)' = Key(j)
  BY DEF Permit, Calls, Executes, Key
<1>1. /\ Calls = 1..Len(batch) /\ DOMAIN plan = Calls /\ Len(batch) \in Nat
      /\ slot \in [Calls -> {"empty", "queued", "running"} \cup Settled]
      /\ Executes \subseteq Calls
      /\ \A j \in Calls : slot[j] \notin Settled => j \in Executes
      /\ lockQ \in Seq(Calls) /\ DOMAIN lockQ = 1..Len(lockQ) /\ Len(lockQ) \in Nat
      /\ ran \in Seq(Calls) /\ applied = 0
  BY <1>0, ExecuteFacts
<1>2. /\ i \in Executes /\ slot[i] = "empty" /\ slot'[i] = "queued"
      /\ \A j \in Calls \ {i} : slot'[j] = slot[j]
      /\ \A j \in Executes : j < i => slot[j] # "empty"
      /\ slot' \in [Calls -> {"empty", "queued", "running"} \cup Settled]
  BY <1>1 DEF Permit
<1>3. /\ lockQ' \in Seq(Calls) /\ DOMAIN lockQ' = 1..(Len(lockQ) + 1)
      /\ lockQ'[Len(lockQ) + 1] = i
      /\ \A k \in 1..Len(lockQ) : lockQ'[k] = lockQ[k] /\ lockQ[k] \in Calls
  BY <1>1 DEF Permit
<1>4. TypeOK'
  BY <1>0, <1>2, <1>3 DEF IInv, TypeOK, Permit
<1>5. PlanInv'
  BY DEF IInv, PlanInv, Permit, Key
<1>6. SlotInv'
  BY <1>0, <1>1, <1>2 DEF IInv, SlotInv, Permit, Executes
<1>7. QueueInv'
  <2>1. /\ \A k \in 1..Len(lockQ) : slot[lockQ[k]] = "queued"
        /\ \A k, l \in 1..Len(lockQ) : k < l => lockQ[k] < lockQ[l]
        /\ \A j \in Calls : slot[j] = "queued" => \E k \in 1..Len(lockQ) : lockQ[k] = j
        /\ \A h, j \in Executes : j < h =>
                /\ slot[j] = "empty" => slot[h] = "empty"
                /\ slot[j] = "queued" => slot[h] \in {"empty", "queued"}
    BY <1>0, <1>1 DEF IInv, QueueInv
  <2>2. \A k \in DOMAIN lockQ' : slot'[lockQ'[k]] = "queued"
    BY <1>2, <1>3, <2>1
  <2>3. \A k \in 1..Len(lockQ) : lockQ[k] < i
    <3> TAKE k \in 1..Len(lockQ)
    <3>1. lockQ[k] \in Calls /\ slot[lockQ[k]] = "queued"
      BY <1>3, <2>1
    <3>2. lockQ[k] \in Executes
      BY <1>1, <3>1 DEF Settled, ExecOutcomes
    <3>3. lockQ[k] \in Nat /\ i \in Nat
      BY <1>1, <3>1
    <3>4. ~(i < lockQ[k]) /\ i # lockQ[k]
      BY <1>2, <2>1, <3>1, <3>2
    <3> QED BY <3>3, <3>4
  <2>4. ASSUME NEW k \in DOMAIN lockQ', NEW l \in DOMAIN lockQ', k < l
        PROVE  lockQ'[k] < lockQ'[l]
    <3>1. k \in 1..Len(lockQ) /\ (l \in 1..Len(lockQ) \/ l = Len(lockQ) + 1)
      BY <1>1, <1>3, <2>4
    <3>2. CASE l \in 1..Len(lockQ)
      BY <1>3, <2>1, <2>4, <3>1, <3>2
    <3>3. CASE l = Len(lockQ) + 1
      BY <1>3, <2>3, <3>1, <3>3
    <3> QED BY <3>1, <3>2, <3>3
  <2>5. ASSUME NEW j \in Calls, slot'[j] = "queued"
        PROVE  \E k \in DOMAIN lockQ' : lockQ'[k] = j
    <3>1. CASE j = i
      <4>1. Len(lockQ) + 1 \in DOMAIN lockQ'
        BY <1>1, <1>3
      <4> QED BY <1>3, <3>1, <4>1
    <3>2. CASE j # i
      <4>1. PICK k \in 1..Len(lockQ) : lockQ[k] = j
        BY <1>2, <2>1, <2>5, <3>2
      <4>2. k \in DOMAIN lockQ' /\ lockQ'[k] = j
        BY <1>1, <1>3, <4>1
      <4> QED BY <4>2
    <3> QED BY <3>1, <3>2
  <2>6. ASSUME NEW h \in Executes, NEW j \in Executes, j < h
        PROVE  /\ slot'[j] = "empty" => slot'[h] = "empty"
               /\ slot'[j] = "queued" => slot'[h] \in {"empty", "queued"}
    <3>1. h \in Calls /\ j \in Calls /\ h # j
      BY <1>1, <2>6
    <3>2. CASE j = i
      BY <1>2, <2>1, <2>6, <3>1, <3>2
    <3>3. CASE h = i
      BY <1>2, <2>1, <2>6, <3>1, <3>3
    <3>4. CASE j # i /\ h # i
      BY <1>2, <2>1, <2>6, <3>1, <3>4
    <3> QED BY <3>2, <3>3, <3>4
  <2> QED BY <1>0, <2>2, <2>4, <2>5, <2>6 DEF QueueInv
<1>8. RanInv'
  BY <1>0, <1>1, <1>2 DEF IInv, RanInv, Permit
<1>9. WriteBarrier' /\ ConfirmedNotRerun' /\ ReuseIsTrusted'
  <2>1. Running' = Running
    BY <1>0, <1>1, <1>2 DEF Running
  <2>2. Running \subseteq Calls \ {i}
    BY <1>2 DEF Running
  <2>3. WriteBarrier'
    <3> SUFFICES ASSUME NEW r \in Running, Key(r) \notin Safe, NEW j \in Executes
                 PROVE  /\ j < r => slot'[j] \in Settled
                        /\ j > r => slot'[j] \in {"empty", "queued"}
      BY <1>0, <2>1 DEF WriteBarrier
    <3>1. /\ j < r => slot[j] \in Settled
          /\ j > r => slot[j] \in {"empty", "queued"}
      BY <1>0 DEF IInv, WriteBarrier
    <3> QED BY <1>1, <1>2, <3>1 DEF Settled, ExecOutcomes
  <2>4. ConfirmedNotRerun' /\ ReuseIsTrusted'
    BY <1>0, <1>1, <1>2, <2>1 DEF IInv, ConfirmedNotRerun, ReuseIsTrusted, Permit
  <2> QED BY <2>3, <2>4
<1>10. ReceiptInv' /\ TurnInv'
  BY <1>0 DEF IInv, ReceiptInv, TurnInv, Permit
<1>11. HistInv'
  BY <1>0, <1>1 DEF IInv, HistInv, Permit
<1> QED BY <1>4, <1>5, <1>6, <1>7, <1>8, <1>9, <1>10, <1>11 DEF IInv

\* The gate opens for the head of its queue.  A write enters when nothing
\* runs: what comes before it in the batch is over, since it neither waits
\* for a permit nor for the gate; what comes after it has not passed.
LEMMA GateKeeps == ASSUME IInv, NEW i \in Calls, Gate(i) PROVE IInv'
<1> USE DEF turnvars, recovery, classvars, applyvars
<1>0. phase = "execute" /\ phase' = "execute" /\ Calls' = Calls /\ Executes' = Executes
      /\ \A j : Key(j)' = Key(j)
  BY DEF Gate, Calls, Executes, Key
<1>1. /\ Calls = 1..Len(batch) /\ DOMAIN plan = Calls /\ Len(batch) \in Nat
      /\ slot \in [Calls -> {"empty", "queued", "running"} \cup Settled]
      /\ Executes \subseteq Calls
      /\ \A j \in Calls : slot[j] \notin Settled => j \in Executes
      /\ lockQ \in Seq(Calls) /\ DOMAIN lockQ = 1..Len(lockQ) /\ Len(lockQ) \in Nat
      /\ ran \in Seq(Calls) /\ applied = 0
  BY <1>0, ExecuteFacts
<1>2. /\ Enter(i) \in {"none", "blocked", "reused", "running"}
      /\ slot'[i] = Enter(i) /\ \A j \in Calls \ {i} : slot'[j] = slot[j]
      /\ slot' \in [Calls -> {"empty", "queued", "running"} \cup Settled]
  BY <1>1 DEF Gate, Enter, Settled
<1>3. /\ Len(lockQ) > 0 /\ lockQ[1] = i /\ lockQ' = Tail(lockQ)
      /\ lockQ' \in Seq(Calls) /\ DOMAIN lockQ' = 1..(Len(lockQ) - 1)
      /\ \A k \in 1..(Len(lockQ) - 1) : lockQ'[k] = lockQ[k + 1] /\ k + 1 \in 1..Len(lockQ)
  BY <1>1 DEF Gate, GateOpen
<1>4. /\ \A k \in 1..Len(lockQ) : slot[lockQ[k]] = "queued"
      /\ \A k, l \in 1..Len(lockQ) : k < l => lockQ[k] < lockQ[l]
      /\ \A j \in Calls : slot[j] = "queued" => \E k \in 1..Len(lockQ) : lockQ[k] = j
      /\ \A h, j \in Executes : j < h =>
              /\ slot[j] = "empty" => slot[h] = "empty"
              /\ slot[j] = "queued" => slot[h] \in {"empty", "queued"}
  BY <1>0, <1>1 DEF IInv, QueueInv
<1>5. slot[i] = "queued" /\ i \in Executes
  <2>1. 1 \in 1..Len(lockQ)
    BY <1>1, <1>3
  <2>2. slot[i] = "queued"
    BY <1>3, <1>4, <2>1
  <2> QED BY <1>1, <2>2 DEF Settled, ExecOutcomes
\* the head of the queue is the first call that waits
<1>6. \A j \in Calls : (slot[j] = "queued" /\ j # i) => i < j
  <2> TAKE j \in Calls
  <2> HAVE slot[j] = "queued" /\ j # i
  <2>1. PICK k \in 1..Len(lockQ) : lockQ[k] = j
    BY <1>4
  <2>2. k > 1 /\ 1 \in 1..Len(lockQ)
    BY <1>1, <1>3, <2>1
  <2> QED BY <1>3, <1>4, <2>1, <2>2
<1>7. TypeOK'
  <2>1. ran' = ran \/ ran' = Append(ran, i)
    BY DEF Gate
  <2>2. ran' \in Seq(Calls)
    <3>1. ran \in Seq(Calls)
      BY <1>1
    <3>2. Append(ran, i) \in Seq(Calls)
      BY <3>1
    <3> QED BY <2>1, <3>1, <3>2
  <2>3. UNCHANGED <<stop, cancel, nbatches, receipts, lastConfirmed, protect, recoveries,
                    batch, truncated, plan, policyStop, applied, evidence, confirmed,
                    denied, hist, trusted, owed>>
    BY DEF Gate
  <2> QED BY <1>0, <1>2, <1>3, <2>2, <2>3 DEF IInv, TypeOK
<1>8. PlanInv'
  BY DEF IInv, PlanInv, Gate, Key
<1>9. SlotInv'
  <2>1. Enter(i) = "none" => cancel
    BY DEF Enter
  <2>2. plan[i] = "Execute" /\ cancel' = cancel /\ plan' = plan
    BY <1>5 DEF Executes, Gate
  <2> QED BY <1>0, <1>2, <2>1, <2>2 DEF IInv, SlotInv
<1>10. QueueInv'
  <2>1. ASSUME NEW k \in DOMAIN lockQ'
        PROVE  slot'[lockQ'[k]] = "queued"
    <3>1. k + 1 \in 1..Len(lockQ) /\ lockQ'[k] = lockQ[k + 1] /\ 1 \in 1..Len(lockQ) /\ 1 < k + 1
      BY <1>1, <1>3
    <3>2. lockQ[k + 1] \in Calls /\ lockQ[1] \in Calls
      BY <1>1, <3>1
    <3>3. lockQ[1] < lockQ[k + 1] /\ slot[lockQ[k + 1]] = "queued"
      BY <1>4, <3>1
    <3>4. lockQ[k + 1] # i
      BY <1>1, <1>3, <3>2, <3>3
    <3> QED BY <1>2, <3>1, <3>2, <3>3, <3>4
  <2>2. ASSUME NEW k \in DOMAIN lockQ', NEW l \in DOMAIN lockQ', k < l
        PROVE  lockQ'[k] < lockQ'[l]
    <3>1. k + 1 \in 1..Len(lockQ) /\ l + 1 \in 1..Len(lockQ) /\ k + 1 < l + 1
      BY <1>1, <1>3, <2>2
    <3> QED BY <1>3, <1>4, <3>1
  <2>3. ASSUME NEW j \in Calls, slot'[j] = "queued"
        PROVE  \E k \in DOMAIN lockQ' : lockQ'[k] = j
    <3>1. j # i /\ slot[j] = "queued"
      BY <1>2, <2>3
    <3>2. PICK k \in 1..Len(lockQ) : lockQ[k] = j
      BY <1>4, <3>1
    <3>3. k - 1 \in DOMAIN lockQ' /\ (k - 1) + 1 = k
      BY <1>1, <1>3, <3>1, <3>2
    <3> QED BY <1>3, <3>2, <3>3
  <2>4. ASSUME NEW h \in Executes, NEW j \in Executes, j < h
        PROVE  /\ slot'[j] = "empty" => slot'[h] = "empty"
               /\ slot'[j] = "queued" => slot'[h] \in {"empty", "queued"}
    <3>1. h \in Calls /\ j \in Calls /\ h \in Nat /\ j \in Nat /\ i \in Nat
      BY <1>1
    <3>2. CASE j = i
      BY <1>2, <3>2
    <3>3. CASE h = i
      BY <1>2, <1>4, <1>5, <1>6, <2>4, <3>1, <3>3
    <3>4. CASE j # i /\ h # i
      BY <1>2, <1>4, <2>4, <3>1, <3>4
    <3> QED BY <3>2, <3>3, <3>4
  <2> QED BY <1>0, <2>1, <2>2, <2>3, <2>4 DEF QueueInv
<1>11. RanInv'
  <2>1. /\ \A k \in DOMAIN ran : /\ ran[k] \in Executes
                                 /\ slot[ran[k]] \notin {"empty", "queued"}
        /\ \A k, l \in DOMAIN ran : k # l => ran[k] # ran[l]
    BY DEF IInv, RanInv
  <2>2. \A k \in DOMAIN ran : ran[k] # i /\ ran[k] \in Calls
    BY <1>1, <1>5, <2>1
  <2>3. CASE ran' = ran
    BY <1>0, <1>2, <2>1, <2>2, <2>3 DEF RanInv
  <2>4. CASE Enter(i) = "running" /\ ran' = Append(ran, i)
    <3>1. /\ DOMAIN ran = 1..Len(ran) /\ Len(ran) \in Nat
          /\ DOMAIN ran' = 1..(Len(ran) + 1) /\ ran'[Len(ran) + 1] = i
          /\ \A k \in 1..Len(ran) : ran'[k] = ran[k]
      BY <1>1, <2>4
    <3>2. \A k \in DOMAIN ran' : k \in DOMAIN ran \/ (k = Len(ran) + 1 /\ k \notin DOMAIN ran)
      BY <3>1
    <3>3. \A k \in DOMAIN ran' : /\ ran'[k] \in Executes
                                 /\ slot'[ran'[k]] \notin {"empty", "queued"}
      BY <1>2, <1>5, <2>1, <2>2, <2>4, <3>1, <3>2
    <3>4. \A k, l \in DOMAIN ran' : k # l => ran'[k] # ran'[l]
      BY <2>1, <2>2, <3>1, <3>2
    <3> QED BY <1>0, <3>3, <3>4 DEF RanInv
  <2> QED BY <2>3, <2>4 DEF Gate
<1>12. WriteBarrier'
  <2> SUFFICES ASSUME NEW r \in Running', Key(r) \notin Safe, NEW j \in Executes
               PROVE  /\ j < r => slot'[j] \in Settled
                      /\ j > r => slot'[j] \in {"empty", "queued"}
    BY <1>0 DEF WriteBarrier
  <2>1. r \in Calls /\ slot'[r] = "running" /\ j \in Calls /\ j \in Nat /\ r \in Nat /\ i \in Nat
    BY <1>0, <1>1 DEF Running
  <2>2. CASE r = i
    <3>1. Running = {}
      BY <2>2 DEF Gate, GateOpen
    <3>2. j < i => slot[j] \in Settled
      <4> HAVE j < i
      <4>1. slot[j] # "empty" /\ slot[j] # "queued"
        BY <1>4, <1>5, <1>6, <2>1
      <4> QED BY <1>1, <2>1, <3>1, <4>1 DEF Running
    <3>3. j > i => slot[j] \in {"empty", "queued"}
      BY <1>4, <1>5, <2>1
    <3> QED BY <1>2, <2>1, <2>2, <3>2, <3>3
  <2>3. CASE r # i
    <3>1. r \in Running /\ slot[r] = "running"
      BY <1>2, <2>1, <2>3 DEF Running
    \* nobody passes the gate while a write runs
    <3>2. FALSE
      BY <3>1 DEF Gate, GateOpen
    <3> QED BY <3>2
  <2> QED BY <2>2, <2>3
<1>13. ConfirmedNotRerun'
  <2> SUFFICES ASSUME NEW r \in Running' PROVE Key(r) \notin owed
    BY <1>0 DEF ConfirmedNotRerun, Gate
  <2>1. r \in Calls /\ slot'[r] = "running"
    BY <1>0 DEF Running
  <2>2. CASE r = i
    <3>1. ~Receipted(i)
      BY <1>2, <2>1, <2>2 DEF Enter
    <3>2. Key(i) \in owed => Receipted(i)
      BY DEF IInv, ReceiptInv, Receipted
    <3> QED BY <2>2, <3>1, <3>2
  <2>3. CASE r # i
    BY <1>2, <2>1, <2>3 DEF IInv, ConfirmedNotRerun, Running
  <2> QED BY <2>2, <2>3
<1>14. ReuseIsTrusted'
  <2> SUFFICES ASSUME NEW r \in Calls, slot'[r] = "reused" PROVE Key(r) \in trusted
    BY <1>0 DEF ReuseIsTrusted, Gate
  <2>1. CASE r = i
    <3>1. Receipted(i)
      BY <1>2, <2>1 DEF Enter
    <3> QED BY <2>1, <3>1 DEF IInv, ReceiptInv, Receipted
  <2>2. CASE r # i
    BY <1>0, <1>2, <2>2 DEF IInv, ReuseIsTrusted
  <2> QED BY <2>1, <2>2
<1>15. ReceiptInv' /\ TurnInv'
  BY <1>0 DEF IInv, ReceiptInv, TurnInv, Gate
<1>16. HistInv'
  BY <1>0, <1>1 DEF IInv, HistInv, Gate
<1> QED BY <1>7, <1>8, <1>9, <1>10, <1>11, <1>12, <1>13, <1>14, <1>15, <1>16 DEF IInv

\* A tool returns or is killed: the call is over.
LEMMA OutcomeKeeps ==
    ASSUME IInv, NEW i \in Calls, Kill(i) \/ \E o \in Outcomes : Return(i, o)
    PROVE  IInv'
<1> USE DEF turnvars, recovery, classvars, applyvars, history
<1>0. phase = "execute" /\ phase' = "execute" /\ Calls' = Calls /\ Executes' = Executes
      /\ \A j : Key(j)' = Key(j)
  BY DEF Kill, Return, Calls, Executes, Key
<1>1. /\ Calls = 1..Len(batch) /\ DOMAIN plan = Calls /\ Len(batch) \in Nat
      /\ slot \in [Calls -> {"empty", "queued", "running"} \cup Settled]
      /\ Executes \subseteq Calls
      /\ \A j \in Calls : slot[j] \notin Settled => j \in Executes
      /\ lockQ \in Seq(Calls) /\ DOMAIN lockQ = 1..Len(lockQ) /\ Len(lockQ) \in Nat
      /\ ran \in Seq(Calls) /\ applied = 0
  BY <1>0, ExecuteFacts
<1>2. PICK o \in {"killed"} \cup ExecOutcomes : slot' = [slot EXCEPT ![i] = o]
  BY BatchAssumption DEF Kill, Return
<1>3. /\ slot[i] = "running" /\ slot'[i] = o /\ \A j \in Calls \ {i} : slot'[j] = slot[j]
      /\ slot' \in [Calls -> {"empty", "queued", "running"} \cup Settled]
      /\ o \in Settled /\ o \notin {"none", "reused", "empty", "queued", "running"}
  BY <1>1, <1>2 DEF Kill, Return, Settled, ExecOutcomes
<1>4. i \in Executes
  BY <1>1, <1>3 DEF Settled, ExecOutcomes
<1>5. TypeOK'
  <2>1. UNCHANGED <<stop, cancel, nbatches, receipts, lastConfirmed, protect, recoveries,
                    batch, truncated, plan, lockQ, applied, evidence, confirmed,
                    denied, hist, ran, trusted, owed>>
    BY DEF Kill, Return
  <2>2. policyStop' \in BOOLEAN
    <3>1. policyStop \in BOOLEAN
      BY DEF IInv, TypeOK
    <3> QED BY <3>1 DEF Kill, Return
  <2> QED BY <1>0, <1>3, <2>1, <2>2 DEF IInv, TypeOK
<1>6. PlanInv'
  BY DEF IInv, PlanInv, Kill, Return, Key
<1>7. SlotInv'
  <2>1. plan[i] = "Execute" /\ plan' = plan /\ cancel' = cancel
    BY <1>4 DEF Executes, Kill, Return
  <2> QED BY <1>0, <1>3, <2>1 DEF IInv, SlotInv
<1>8. QueueInv'
  <2>1. /\ \A k \in 1..Len(lockQ) : slot[lockQ[k]] = "queued"
        /\ \A k, l \in 1..Len(lockQ) : k < l => lockQ[k] < lockQ[l]
        /\ \A j \in Calls : slot[j] = "queued" => \E k \in 1..Len(lockQ) : lockQ[k] = j
        /\ \A h, j \in Executes : j < h =>
                /\ slot[j] = "empty" => slot[h] = "empty"
                /\ slot[j] = "queued" => slot[h] \in {"empty", "queued"}
    BY <1>0, <1>1 DEF IInv, QueueInv
  <2>2. lockQ' = lockQ
    BY DEF Kill, Return
  <2>3. \A k \in DOMAIN lockQ : slot'[lockQ[k]] = "queued"
    <3>1. \A k \in DOMAIN lockQ : lockQ[k] \in Calls
      BY <1>1
    <3> QED BY <1>1, <1>3, <2>1, <3>1
  <2>4. \A j \in Calls : slot'[j] = "queued" => \E k \in DOMAIN lockQ : lockQ[k] = j
    BY <1>1, <1>3, <2>1
  <2>5. ASSUME NEW h \in Executes, NEW j \in Executes, j < h
        PROVE  /\ slot'[j] = "empty" => slot'[h] = "empty"
               /\ slot'[j] = "queued" => slot'[h] \in {"empty", "queued"}
    <3>1. h \in Calls /\ j \in Calls
      BY <1>1
    <3>2. CASE j = i
      BY <1>3, <3>2
    <3>3. CASE h = i
      BY <1>3, <2>1, <2>5, <3>1, <3>3
    <3>4. CASE j # i /\ h # i
      BY <1>3, <2>1, <2>5, <3>1, <3>4
    <3> QED BY <3>2, <3>3, <3>4
  <2> QED BY <1>0, <1>1, <2>1, <2>2, <2>3, <2>4, <2>5 DEF QueueInv
<1>9. RanInv'
  <2>1. ran' = ran /\ \A k \in DOMAIN ran : ran[k] \in Calls
    <3>1. ran \in Seq(Calls) /\ ran' = ran
      BY <1>1 DEF Kill, Return
    <3> QED BY <3>1
  <2> QED BY <1>0, <1>3, <2>1 DEF IInv, RanInv
<1>10. Running' = Running \ {i}
  BY <1>0, <1>1, <1>3 DEF Running
<1>11. WriteBarrier'
  <2> SUFFICES ASSUME NEW r \in Running, r # i, Key(r) \notin Safe, NEW j \in Executes
               PROVE  /\ j < r => slot'[j] \in Settled
                      /\ j > r => slot'[j] \in {"empty", "queued"}
    BY <1>0, <1>10 DEF WriteBarrier
  <2>1. /\ j < r => slot[j] \in Settled
        /\ j > r => slot[j] \in {"empty", "queued"}
    BY <1>0 DEF IInv, WriteBarrier
  <2>2. j \in Calls
    BY <1>1
  <2> QED BY <1>3, <2>1, <2>2
<1>12. ConfirmedNotRerun' /\ ReuseIsTrusted'
  BY <1>0, <1>1, <1>3, <1>10 DEF IInv, ConfirmedNotRerun, ReuseIsTrusted, Kill, Return
<1>13. ReceiptInv' /\ TurnInv'
  BY <1>0 DEF IInv, ReceiptInv, TurnInv, Kill, Return
<1>14. HistInv'
  BY <1>0, <1>1 DEF IInv, HistInv, Kill, Return
<1> QED BY <1>5, <1>6, <1>7, <1>8, <1>9, <1>11, <1>12, <1>13, <1>14 DEF IInv

\* All futures are joined: every slot is settled.
LEMMA ExecutedKeeps == ASSUME IInv, Executed PROVE IInv'
<1> USE DEF recovery, classvars, execvars, applyvars, history
<1>0. phase = "execute" /\ phase' = "apply" /\ Unsettled = {}
  BY DEF Executed
<1>1. \A i \in Calls : slot[i] \in Settled
  <2> TAKE i \in Calls
  <2>1. slot[i] \in {"empty", "queued", "running"} \cup Settled /\ (slot[i] \notin Settled => i \in Executes)
    BY <1>0, ExecuteFacts
  <2> QED BY <1>0, <2>1 DEF Unsettled
<1>2. Calls' = Calls /\ Executes' = Executes /\ \A j : Key(j)' = Key(j)
  BY DEF Executed, Calls, Executes, Key
<1>3. TypeOK'
  BY DEF IInv, TypeOK, Executed, Calls
<1>4. PlanInv' /\ RanInv'
  BY <1>0, <1>2 DEF IInv, PlanInv, RanInv, Executed
<1>5. SlotInv' /\ QueueInv'
  BY <1>0, <1>1, <1>2 DEF IInv, SlotInv, QueueInv, Executed
<1>6. WriteBarrier' /\ ConfirmedNotRerun' /\ ReuseIsTrusted'
  BY <1>0, <1>2 DEF IInv, WriteBarrier, ConfirmedNotRerun, ReuseIsTrusted, Running, Executed
<1>7. ReceiptInv' /\ HistInv' /\ TurnInv'
  BY <1>0, <1>2 DEF IInv, ReceiptInv, HistInv, TurnInv, Executed
<1> QED BY <1>3, <1>4, <1>5, <1>6, <1>7 DEF IInv

-----------------------------------------------------------------------------
(* Phase 3: APPLY.                                                         *)

\* The calls in APPLY: all planned, all settled.
LEMMA ApplyFacts ==
    ASSUME IInv, phase = "apply"
    PROVE  /\ batch \in Seq(CallType) /\ Calls = 1..Len(batch) /\ Len(batch) \in Nat
           /\ DOMAIN plan = Calls
           /\ \A i \in Calls : slot[i] \in Settled
           /\ hist \in Seq(Nat) /\ evidence \in Seq(Keys) /\ receipts \in Seq(Keys)
           /\ applied \in Nat
<1>1. /\ batch \in Seq(CallType) /\ Len(plan) = Len(batch)
      /\ plan \in Seq({"Skip", "Error", "Stub", "DenyTurn", "Revoked", "Execute"})
  BY DEF IInv, TypeOK, PlanInv
<1>2. Calls = 1..Len(batch) /\ Len(batch) \in Nat /\ DOMAIN plan = Calls
  BY <1>1 DEF Calls
<1>3. hist \in Seq(Nat) /\ evidence \in Seq(Keys) /\ receipts \in Seq(Keys)
  BY DEF IInv, TypeOK
<1>4. applied \in Nat
  BY <1>2 DEF IInv, TypeOK
<1>5. \A i \in Calls : slot[i] \in Settled
  BY DEF IInv, SlotInv
<1> QED BY <1>1, <1>2, <1>3, <1>4, <1>5

\* A call without a result: only the count of applied calls moves.
LEMMA ApplyNoneKeeps == ASSUME IInv, ApplyNone PROVE IInv'
<1> USE DEF turnvars, recovery, classvars, execvars, history
<1>0. phase = "apply" /\ phase' = "apply" /\ Calls' = Calls /\ Executes' = Executes
      /\ \A j : Key(j)' = Key(j)
  BY DEF ApplyNone, Calls, Executes, Key
<1>1. Calls = 1..Len(batch) /\ Len(batch) \in Nat /\ applied \in Nat
  BY <1>0, ApplyFacts
<1>2. applied' = applied + 1 /\ applied' \in 1..Len(batch) /\ slot[applied'] = "none"
  BY <1>1 DEF ApplyNone
<1>3. TypeOK'
  <2>0. confirmed' \in BOOLEAN
    BY DEF ApplyNone
  <2>1. applied' \in 0..Len(batch)
    BY <1>1, <1>2
  <2>2. UNCHANGED <<phase, stop, cancel, nbatches, receipts, lastConfirmed, protect,
                    recoveries, batch, truncated, plan, slot, lockQ, policyStop,
                    evidence, denied, hist, ran, trusted, owed>>
    BY DEF ApplyNone
  <2> QED BY <1>0, <2>0, <2>1, <2>2 DEF IInv, TypeOK
<1>4. PlanInv' /\ RanInv' /\ SlotInv' /\ QueueInv'
  BY <1>0 DEF IInv, PlanInv, RanInv, SlotInv, QueueInv, ApplyNone
<1>5. WriteBarrier' /\ ConfirmedNotRerun' /\ ReuseIsTrusted'
  BY <1>0 DEF IInv, WriteBarrier, ConfirmedNotRerun, ReuseIsTrusted, Running, ApplyNone
<1>6. ReceiptInv'
  BY <1>0 DEF IInv, ReceiptInv, ApplyNone
<1>7. HistInv'
  <2>1. \A i \in 1..applied' : i \in 1..applied \/ slot[i] = "none"
    BY <1>1, <1>2
  <2>2. 1..applied \subseteq 1..applied'
    BY <1>1, <1>2
  <2> QED BY <1>0, <2>1, <2>2 DEF IInv, HistInv, ApplyNone
<1>8. TurnInv'
  BY <1>0 DEF IInv, TurnInv, ApplyNone
<1> QED BY <1>3, <1>4, <1>5, <1>6, <1>7, <1>8 DEF IInv

\* A result is pushed: the id has no result yet, since of the calls with this
\* id only one has a plan that gives a result.
LEMMA ApplyResultKeeps == ASSUME IInv, NEW b \in BOOLEAN, ApplyResult(b) PROVE IInv'
<1> USE DEF turnvars, recovery, classvars, execvars, history
<1> DEFINE i == applied + 1
           id == batch[i].id
           n == Len(hist)
<1>0. phase = "apply" /\ phase' = "apply" /\ Calls' = Calls /\ Executes' = Executes
      /\ \A j : Key(j)' = Key(j)
  BY DEF ApplyResult, Calls, Executes, Key
<1>1. /\ batch \in Seq(CallType) /\ Calls = 1..Len(batch) /\ Len(batch) \in Nat
      /\ DOMAIN plan = Calls
      /\ \A j \in Calls : slot[j] \in Settled
      /\ hist \in Seq(Nat) /\ evidence \in Seq(Keys) /\ receipts \in Seq(Keys)
      /\ applied \in Nat
  BY <1>0, ApplyFacts
<1>2. /\ applied' = i /\ i \in Calls /\ slot[i] # "none"
      /\ \A j \in 1..applied' : j \in 1..applied \/ j = i
      /\ 1..applied \subseteq Calls /\ 1..applied \subseteq 1..applied'
  BY <1>1 DEF ApplyResult
<1>3. id \in Nat /\ id # User /\ Key(i) \in Keys
  <2>1. batch[i] \in CallType
    BY <1>1, <1>2
  <2> QED BY <2>1 DEF CallType, User, Key
<1>4. /\ UNCHANGED <<phase, stop, cancel, nbatches, receipts, lastConfirmed, protect,
                     recoveries, batch, truncated, plan, slot, lockQ, policyStop,
                     ran, trusted, owed>>
      /\ \/ evidence' = evidence /\ ~confirmed'
         \/ evidence' = Append(evidence, Key(i)) /\ (confirmed' <=> confirmed)
      /\ confirmed' \in BOOLEAN /\ denied' \in BOOLEAN
  <2>1. confirmed \in BOOLEAN /\ denied \in BOOLEAN
    BY DEF IInv, TypeOK
  <2> QED BY <2>1 DEF ApplyResult
<1>5. /\ n \in Nat /\ DOMAIN hist = 1..n
      /\ hist' \in Seq(Nat) /\ DOMAIN hist' \subseteq 1..(n + 2) /\ 1..(n + 1) \subseteq DOMAIN hist'
      /\ \A k \in 1..n : hist'[k] = hist[k]
      /\ hist'[n + 1] = id
      /\ n + 2 \in DOMAIN hist' => hist'[n + 2] = User
  <2>1. hist' = hist \o <<id>> \o (IF b THEN <<User>> ELSE <<>>)
    BY DEF ApplyResult
  <2>2. hist \o <<id>> = Append(hist, id)
    BY <1>1, <1>3
  <2>3. CASE b
    BY <1>1, <1>3, <2>1, <2>2, <2>3 DEF User
  <2>4. CASE ~b
    BY <1>1, <1>3, <2>1, <2>2, <2>4
  <2> QED BY <2>3, <2>4
<1>6. TypeOK'
  <2>1. evidence' \in Seq(Keys)
    <3>1. evidence \in Seq(Keys) /\ Append(evidence, Key(i)) \in Seq(Keys)
      BY <1>1, <1>3
    <3> QED BY <1>4, <3>1
  <2>2. applied' \in 0..Len(batch)
    BY <1>1, <1>2
  <2> QED BY <1>0, <1>4, <1>5, <2>1, <2>2 DEF IInv, TypeOK
<1>7. PlanInv' /\ RanInv' /\ SlotInv' /\ QueueInv'
  BY <1>0, <1>4 DEF IInv, PlanInv, RanInv, SlotInv, QueueInv
<1>8. WriteBarrier' /\ ConfirmedNotRerun' /\ ReuseIsTrusted'
  BY <1>0, <1>4 DEF IInv, WriteBarrier, ConfirmedNotRerun, ReuseIsTrusted, Running
<1>9. ReceiptInv'
  <2>1. CASE evidence' = evidence /\ ~confirmed'
    BY <1>0, <1>4, <2>1 DEF IInv, ReceiptInv
  <2>2. CASE evidence' = Append(evidence, Key(i)) /\ (confirmed' <=> confirmed)
    <3>1. /\ DOMAIN evidence' = 1..(Len(evidence) + 1) /\ DOMAIN evidence = 1..Len(evidence)
          /\ Len(evidence) \in Nat
          /\ evidence'[Len(evidence) + 1] = Key(i)
          /\ \A k \in DOMAIN evidence : evidence'[k] = evidence[k]
      BY <1>1, <1>3, <2>2
    <3>2. \A k \in DOMAIN evidence' : k \in DOMAIN evidence \/ k = Len(evidence) + 1
      BY <3>1
    <3>3. \A k \in DOMAIN evidence' : \E j \in Calls : evidence'[k] = Key(j)
      BY <1>2, <3>1, <3>2 DEF IInv, ReceiptInv
    <3>4. confirmed' => \A j \in 1..applied' : \E k \in DOMAIN evidence' : evidence'[k] = Key(j)
      <4> SUFFICES ASSUME confirmed, NEW j \in 1..applied'
                   PROVE  \E k \in DOMAIN evidence' : evidence'[k] = Key(j)
        BY <2>2
      <4>1. CASE j = i
        <5>1. Len(evidence) + 1 \in DOMAIN evidence'
          BY <3>1
        <5> QED BY <3>1, <4>1, <5>1
      <4>2. CASE j \in 1..applied
        <5>1. PICK k \in DOMAIN evidence : evidence[k] = Key(j)
          BY <4>2 DEF IInv, ReceiptInv
        <5>2. k \in DOMAIN evidence'
          BY <3>1
        <5> QED BY <3>1, <5>1, <5>2
      <4> QED BY <1>2, <4>1, <4>2
    <3> QED BY <1>0, <1>4, <3>3, <3>4 DEF IInv, ReceiptInv
  <2> QED BY <1>4, <2>1, <2>2
<1>10. HistInv'
  <2>1. /\ \A k, l \in DOMAIN hist : (hist[k] = hist[l] /\ hist[k] # User) => k = l
        /\ \A k \in DOMAIN hist : hist[k] # User =>
              \E j \in 1..applied : slot[j] # "none" /\ hist[k] = batch[j].id
        /\ \A j \in 1..applied : slot[j] # "none" => \E k \in DOMAIN hist : hist[k] = batch[j].id
    BY DEF IInv, HistInv
  <2>2. \A k \in DOMAIN hist' : k \in 1..n \/ k = n + 1 \/ (k = n + 2 /\ hist'[k] = User)
    BY <1>5
  \* no result of this id yet
  <2>3. ASSUME NEW j \in 1..applied, slot[j] # "none"
        PROVE  batch[j].id # id
    <3>1. j \in Calls /\ j # i
      BY <1>1, <1>2
    <3>2. plan[i] # "Skip" /\ plan[j] # "Skip"
      BY <1>0, <1>2, <2>3, <3>1 DEF IInv, SlotInv
    <3> QED BY <1>1, <1>2, <3>1, <3>2 DEF IInv, PlanInv
  <2>4. \A k \in 1..n : hist[k] # id
    BY <1>3, <1>5, <2>1, <2>3
  <2>5. \A k, l \in DOMAIN hist' : (hist'[k] = hist'[l] /\ hist'[k] # User) => k = l
    BY <1>5, <2>1, <2>2, <2>4
  <2>6. \A k \in DOMAIN hist' : hist'[k] # User =>
           \E j \in 1..applied' : slot[j] # "none" /\ hist'[k] = batch[j].id
    <3> SUFFICES ASSUME NEW k \in DOMAIN hist', hist'[k] # User
                 PROVE  \E j \in 1..applied' : slot[j] # "none" /\ hist'[k] = batch[j].id
      OBVIOUS
    <3>1. CASE k \in 1..n
      <4>1. PICK j \in 1..applied : slot[j] # "none" /\ hist[k] = batch[j].id
        BY <1>5, <2>1, <3>1
      <4> QED BY <1>2, <1>5, <3>1, <4>1
    <3>2. CASE k = n + 1
      <4>1. i \in 1..applied'
        BY <1>1, <1>2
      <4> QED BY <1>2, <1>5, <3>2, <4>1
    <3> QED BY <2>2, <3>1, <3>2
  <2>7. \A j \in 1..applied' : slot[j] # "none" => \E k \in DOMAIN hist' : hist'[k] = batch[j].id
    <3> SUFFICES ASSUME NEW j \in 1..applied', slot[j] # "none"
                 PROVE  \E k \in DOMAIN hist' : hist'[k] = batch[j].id
      OBVIOUS
    <3>1. CASE j = i
      <4>1. n + 1 \in DOMAIN hist'
        BY <1>5
      <4> QED BY <1>5, <3>1, <4>1
    <3>2. CASE j \in 1..applied
      <4>1. PICK k \in DOMAIN hist : hist[k] = batch[j].id
        BY <2>1, <3>2
      <4>2. k \in DOMAIN hist'
        BY <1>5
      <4> QED BY <1>5, <4>1, <4>2
    <3> QED BY <1>2, <3>1, <3>2
  <2> QED BY <1>0, <1>4, <2>5, <2>6, <2>7 DEF HistInv
<1>11. TurnInv'
  BY <1>0, <1>4 DEF IInv, TurnInv
<1> QED BY <1>6, <1>7, <1>8, <1>9, <1>10, <1>11 DEF IInv

\* The batch ends: a confirmed batch becomes receipts, and a receipt of a
\* write is a write of a confirmed batch.
LEMMA BatchEndKeeps == ASSUME IInv, BatchEnd PROVE IInv'
<1> USE DEF classvars, execvars
<1>0. phase = "apply" /\ Calls' = Calls /\ Executes' = Executes
      /\ \A j : Key(j)' = Key(j)
  BY DEF BatchEnd, Calls, Executes, Key
<1>1. /\ batch \in Seq(CallType) /\ Calls = 1..Len(batch) /\ Len(batch) \in Nat
      /\ DOMAIN plan = Calls
      /\ \A j \in Calls : slot[j] \in Settled
      /\ hist \in Seq(Nat) /\ evidence \in Seq(Keys) /\ receipts \in Seq(Keys)
      /\ applied \in Nat
  BY <1>0, ApplyFacts
<1>2. /\ UNCHANGED <<cancel, nbatches, protect, recoveries, batch, truncated, plan, slot,
                     lockQ, policyStop, applied, evidence, confirmed, denied, ran, owed>>
      /\ applied = Len(batch)
      /\ stop' = Terminal
      /\ phase' = IF Terminal = "none" THEN "between" ELSE "done"
  BY DEF BatchEnd
<1>3. /\ Terminal \in {"none", "Cancelled", "PolicyDenied"}
      /\ Terminal \in {"none", "PolicyDenied"} => ~cancel
      /\ phase' \in {"between", "done"}
  BY <1>2 DEF Terminal
<1>4. \A j \in Calls : Key(j) \in Keys
  <2> TAKE j \in Calls
  <2>1. batch[j] \in CallType
    BY <1>1
  <2> QED BY <2>1 DEF CallType, Key
<1>5. /\ receipts' \in Seq(Keys) /\ trusted' \subseteq Keys /\ trusted \subseteq trusted'
      /\ \A k \in DOMAIN receipts' : receipts'[k] \in Safe \/ receipts'[k] \in trusted'
      /\ \A w \in trusted' : w \notin Safe /\ \E k \in DOMAIN receipts' : receipts'[k] = w
  <2>1. /\ \A k \in DOMAIN receipts : receipts[k] \in Safe \/ receipts[k] \in trusted
        /\ \A w \in trusted : w \notin Safe /\ \E k \in DOMAIN receipts : receipts[k] = w
        /\ \A k \in DOMAIN evidence : \E j \in Calls : evidence[k] = Key(j)
        /\ confirmed => \A j \in Calls : \E k \in DOMAIN evidence : evidence[k] = Key(j)
        /\ trusted \subseteq Keys
    BY <1>1, <1>2 DEF IInv, ReceiptInv, TypeOK
  <2>2. CASE ~BatchConfirmed
    <3>1. receipts' = receipts /\ trusted' = trusted
      BY <2>2 DEF BatchEnd, Publish, Trust
    <3> QED BY <1>1, <2>1, <3>1
  <2>3. CASE BatchConfirmed
    <3>1. receipts' = receipts \o evidence /\ trusted' = trusted \cup Writes /\ confirmed
      BY <2>3 DEF BatchEnd, Publish, Trust, BatchConfirmed
    <3>2. Writes \subseteq Keys /\ Writes \cap Safe = {}
      BY <1>4 DEF Writes
    <3>3. /\ receipts' \in Seq(Keys)
          /\ Len(receipts) \in Nat /\ Len(evidence) \in Nat
          /\ DOMAIN receipts = 1..Len(receipts) /\ DOMAIN evidence = 1..Len(evidence)
          /\ DOMAIN receipts' = 1..(Len(receipts) + Len(evidence))
          /\ \A k \in DOMAIN receipts' :
                receipts'[k] = IF k <= Len(receipts) THEN receipts[k]
                                                     ELSE evidence[k - Len(receipts)]
      BY <1>1, <3>1
    <3>4. ASSUME NEW k \in DOMAIN receipts'
          PROVE  receipts'[k] \in Safe \/ receipts'[k] \in trusted'
      <4>1. CASE k <= Len(receipts)
        <5>1. k \in DOMAIN receipts
          BY <3>3, <4>1
        <5> QED BY <2>1, <3>1, <3>3, <4>1, <5>1
      <4>2. CASE k > Len(receipts)
        <5>1. k - Len(receipts) \in DOMAIN evidence
          BY <3>3, <4>2
        <5>2. PICK j \in Calls : evidence[k - Len(receipts)] = Key(j)
          BY <2>1, <5>1
        <5>3. receipts'[k] = Key(j)
          BY <3>3, <4>2, <5>2
        <5> QED BY <3>1, <5>3 DEF Writes
      <4> QED BY <3>3, <4>1, <4>2
    <3>5. ASSUME NEW w \in trusted'
          PROVE  \E k \in DOMAIN receipts' : receipts'[k] = w
      <4>1. CASE w \in trusted
        <5>1. PICK k \in DOMAIN receipts : receipts[k] = w
          BY <2>1, <4>1
        <5>2. k \in DOMAIN receipts' /\ k <= Len(receipts)
          BY <3>3
        <5> QED BY <3>3, <5>1, <5>2
      <4>2. CASE w \in Writes
        <5>1. PICK j \in Calls : w = Key(j)
          BY <4>2 DEF Writes
        <5>2. PICK k \in DOMAIN evidence : evidence[k] = w
          BY <2>1, <3>1, <5>1
        <5>3. /\ Len(receipts) + k \in DOMAIN receipts' /\ ~(Len(receipts) + k <= Len(receipts))
              /\ (Len(receipts) + k) - Len(receipts) = k
          BY <3>3
        <5> QED BY <3>3, <5>2, <5>3
      <4> QED BY <3>1, <4>1, <4>2
    <3> QED BY <2>1, <3>1, <3>2, <3>3, <3>4, <3>5
  <2> QED BY <2>2, <2>3
<1>6. /\ hist' \in Seq(Nat) /\ DOMAIN hist \subseteq DOMAIN hist'
      /\ \A k \in DOMAIN hist : hist'[k] = hist[k]
      /\ \A k \in DOMAIN hist' : k \in DOMAIN hist \/ hist'[k] = User
  <2>1. CASE hist' = hist
    BY <1>1, <2>1
  <2>2. CASE hist' = Append(hist, User)
    BY <1>1, <2>2 DEF User
  <2> QED BY <2>1, <2>2 DEF BatchEnd
<1>7. TypeOK'
  <2>1. lastConfirmed' \in BOOLEAN
    BY DEF BatchEnd, Publish, BatchConfirmed
  <2> QED BY <1>0, <1>2, <1>3, <1>5, <1>6, <2>1 DEF IInv, TypeOK
<1>8. PlanInv' /\ RanInv' /\ SlotInv' /\ QueueInv'
  BY <1>0, <1>2, <1>3 DEF IInv, PlanInv, RanInv, SlotInv, QueueInv
<1>9. WriteBarrier' /\ ConfirmedNotRerun' /\ ReuseIsTrusted'
  BY <1>0, <1>2, <1>3 DEF IInv, WriteBarrier, ConfirmedNotRerun, ReuseIsTrusted, Running
<1>10. ReceiptInv'
  BY <1>0, <1>2, <1>5 DEF IInv, ReceiptInv
<1>11. HistInv'
  BY <1>0, <1>2, <1>3, <1>6 DEF IInv, HistInv
<1>12. TurnInv'
  BY <1>2, <1>3 DEF TurnInv
<1> QED BY <1>7, <1>8, <1>9, <1>10, <1>11, <1>12 DEF IInv

-----------------------------------------------------------------------------
\* Every step keeps the invariant.
LEMMA NextIInv == IInv /\ [Next]_vars => IInv'
<1> SUFFICES ASSUME IInv, [Next]_vars PROVE IInv'
  OBVIOUS
<1>1. CASE Work
  BY <1>1, PickKeeps, CancelKeeps, ClassifyKeeps, ClassifiedKeeps, PermitKeeps, GateKeeps,
     OutcomeKeeps, ExecutedKeeps, ApplyNoneKeeps, ApplyResultKeeps, BatchEndKeeps, BetweenKeeps
     DEF Work
<1>2. CASE CancelTurn \/ Steer \/ Recover
  BY <1>2, CancelKeeps, BetweenKeeps
<1>3. CASE UNCHANGED vars
  <2>1. /\ Calls' = Calls /\ Executes' = Executes /\ Running' = Running
        /\ \A j : Key(j)' = Key(j)
    BY <1>3 DEF vars, Calls, Executes, Running, Key
  <2>2. TypeOK'
    BY <1>3, <2>1 DEF vars, IInv, TypeOK
  <2>3. PlanInv' /\ SlotInv' /\ QueueInv' /\ RanInv'
    BY <1>3, <2>1 DEF vars, IInv, PlanInv, SlotInv, QueueInv, RanInv
  <2>4. WriteBarrier' /\ ConfirmedNotRerun' /\ ReuseIsTrusted'
    BY <1>3, <2>1 DEF vars, IInv, WriteBarrier, ConfirmedNotRerun, ReuseIsTrusted
  <2>5. ReceiptInv' /\ HistInv' /\ TurnInv'
    BY <1>3, <2>1 DEF vars, IInv, ReceiptInv, HistInv, TurnInv
  <2> QED BY <2>2, <2>3, <2>4, <2>5 DEF IInv
<1> QED BY <1>1, <1>2, <1>3 DEF Next

\* The inductive invariant holds of every reachable state.
THEOREM Invariant == Spec => []IInv
BY InitIInv, NextIInv, PTL DEF Spec

\* The write barrier, for every batch and every number of permits: permits are
\* granted and the gate is passed in the order of the calls.
THEOREM Barrier == Spec => []WriteBarrier
<1>1. IInv => WriteBarrier
  BY DEF IInv
<1> QED BY Invariant, <1>1, PTL

\* The same name and arguments never take effect twice in a batch.
THEOREM EffectsOnce == Spec => []NoDuplicateEffect
<1>1. IInv => NoDuplicateEffect
  <2> SUFFICES ASSUME IInv, NEW j \in DOMAIN ran, NEW k \in DOMAIN ran, j # k
               PROVE  Key(ran[j]) # Key(ran[k])
    BY DEF NoDuplicateEffect
  <2>1. ran[j] \in Executes /\ ran[k] \in Executes /\ ran[j] # ran[k]
    BY DEF IInv, RanInv
  <2> QED BY <2>1 DEF IInv, PlanInv, Executes
<1> QED BY Invariant, <1>1, PTL

\* A write confirmed before the stream broke does not run again.
THEOREM RecoveredWritesSafe == Spec => []ConfirmedNotRerun
<1>1. IInv => ConfirmedNotRerun
  BY DEF IInv
<1> QED BY Invariant, <1>1, PTL

\* Only a write confirmed since the user last spoke is answered from a receipt.
THEOREM ReuseTrusted == Spec => []ReuseIsTrusted
<1>1. IInv => ReuseIsTrusted
  BY DEF IInv
<1> QED BY Invariant, <1>1, PTL

\* Once the turn is cancelled or a tool intervened, no call of the batch begins.
THEOREM StopsHold == Spec => StopHolds
<1>1. IInv /\ [Next]_vars =>
        [(cancel \/ policyStop) /\ nbatches' = nbatches => ran' = ran]_vars
  <2> SUFFICES ASSUME IInv, Next, cancel \/ policyStop, nbatches' = nbatches
               PROVE  ran' = ran
    BY DEF vars
  <2> USE DEF turnvars, recovery, classvars, execvars, applyvars, history
  <2>1. ~Pick
    BY DEF IInv, TypeOK, Pick
  <2>2. ASSUME NEW i \in Calls, Gate(i)
        PROVE  ran' = ran
    BY <2>2 DEF Gate, Enter
  <2>3. CASE Classify
    BY <2>3 DEF Classify, Skip, Truncated, AfterDenial, Duplicate, Unknown, Admit, Deny,
                DenyTurn, AddPlan
  <2>4. CASE CancelTurn \/ Steer \/ Recover
    BY <2>4 DEF CancelTurn, Steer, Recover
  <2>5. CASE \E i \in Calls : Permit(i) \/ Kill(i) \/ \E o \in Outcomes : Return(i, o)
    BY <2>5 DEF Permit, Kill, Return
  <2>6. CASE \/ PickCancelled \/ Classified \/ Executed \/ ApplyNone
             \/ (\E b \in BOOLEAN : ApplyResult(b)) \/ BatchEnd \/ NextResponse
    BY <2>6 DEF PickCancelled, Classified, Executed, ApplyNone, ApplyResult, BatchEnd, NextResponse
  <2> QED BY <2>1, <2>2, <2>3, <2>4, <2>5, <2>6 DEF Next, Work
<1> QED BY Invariant, <1>1, PTL DEF Spec, StopHolds

\* A batch pushes at most one result for an id, and exactly one when the turn
\* goes on or ends by policy, however the model repeats ids.
THEOREM ResultsOnce == Spec => []OneResultPerId
<1>1. IInv => OneResultPerId
  <2> SUFFICES ASSUME IInv PROVE OneResultPerId
    OBVIOUS
  <2>1. ASSUME NEW id \in Ids
        PROVE  /\ ResultsFor(id) <= 1
               /\ (\E k \in DOMAIN hist : hist[k] = id) => ResultsFor(id) = 1
    <3> DEFINE R == {k \in DOMAIN hist : hist[k] = id}
    <3>1. id # User
      <4>1. PICK i \in Calls : id = batch[i].id
        BY DEF Ids
      <4>2. batch[i] \in CallType
        BY DEF IInv, TypeOK, Calls
      <4> QED BY <4>1, <4>2 DEF CallType, User
    <3>2. \A k, l \in R : k = l
      BY <3>1 DEF IInv, HistInv
    <3>3. CASE R = {}
      BY <3>3, FS_EmptySet DEF ResultsFor
    <3>4. CASE R # {}
      <4>1. PICK k \in R : TRUE
        BY <3>4
      <4>2. R = {k}
        BY <3>2, <4>1
      <4> QED BY <4>2, FS_Singleton DEF ResultsFor
    <3> QED BY <3>3, <3>4
  <2>2. ASSUME phase = "between" \/ stop = "PolicyDenied", NEW id \in Ids
        PROVE  \E k \in DOMAIN hist : hist[k] = id
    <3>1. PICK i \in Calls : id = batch[i].id
      BY DEF Ids
    <3>2. /\ phase # "classify" /\ ~cancel /\ applied = Len(batch) /\ Len(plan) = Len(batch)
      BY <2>2 DEF IInv, TurnInv, HistInv, PlanInv, TypeOK
    <3>3. Calls = 1..applied /\ DOMAIN plan = Calls
      BY <3>2 DEF IInv, TypeOK, Calls
    <3>4. PICK j \in Calls : plan[j] # "Skip" /\ batch[j].id = id
      BY <3>1, <3>3 DEF IInv, PlanInv
    <3>5. slot[j] # "none"
      BY <3>2, <3>4 DEF IInv, SlotInv
    <3> QED BY <3>3, <3>4, <3>5 DEF IInv, HistInv
  <2> QED BY <2>1, <2>2 DEF OneResultPerId
<1> QED BY Invariant, <1>1, PTL
=============================================================================
