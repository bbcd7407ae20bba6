---------------------------- MODULE Conversation ----------------------------
(***************************************************************************)
(* The stored history of a session (Conversation of                        *)
(* crates/atomcode-kernel/src/message.rs) and everything run_turn does to  *)
(* it: what a turn pushes, the pairing repair of the projection it sends,  *)
(* compaction, the partial message of a broken stream and the two ways to  *)
(* cancel (crates/atomcode-kernel/src/agent/engine.rs).                    *)
(*                                                                         *)
(* A message keeps its role, its call ids, whether it is a prompt of the   *)
(* user, whether it is pinned, and the size of its text.  The tag is the   *)
(* message's identity; 0 marks one that no turn pushed: from the snapshot, *)
(* a summary, or a result made up for a call that has none.                *)
(***************************************************************************)
EXTENDS Naturals, Sequences, SequencesExt, FiniteSets

CONSTANTS
    Ids,            \* tool call ids a model uses, again in later responses
    Responses,      \* the call ids a response can carry
    Snapshots,      \* what a session can be resumed from: a history, its epoch, and
                    \* how many of the MaxTags messages were pushed before
    Keep,           \* keep_interrupted_context
    MidTurn,        \* TRUE iff the history is compacted during a turn too
    MaxEpoch,       \* bound on the compactions
    MaxTags         \* bound on the messages pushed

Roles == {"system", "user", "assistant", "tool"}

\* A message: results alone have a tool_call_id, assistants alone tool_calls,
\* and only what the user wrote is real or pinned
Fields == [role : Roles, calls : Seq(Ids), id : Ids \cup {0}, real : BOOLEAN,
           pin : BOOLEAN, size : Nat, tag : 0..MaxTags]
Message == {m \in Fields : /\ (m.role = "tool") <=> (m.id # 0)
                           /\ m.calls # <<>> => m.role = "assistant"
                           /\ m.real \/ m.pin => m.role = "user"}

ASSUME ConversationAssumption ==
    /\ Ids \subseteq Nat \ {0}
    /\ Responses \subseteq Seq(Ids)
    /\ Snapshots \subseteq [msgs : Seq(Message), epoch : 0..MaxEpoch, tags : 0..MaxTags]
    /\ Keep \in BOOLEAN /\ MidTurn \in BOOLEAN
    /\ MaxEpoch \in Nat /\ MaxTags \in Nat

VARIABLES
    msgs,           \* Conversation::messages
    epoch,          \* Conversation::cache_epoch
    phase,          \* "idle" | "running" | "sent" | "batch" | "answered"
    todo,           \* ids of the current batch that have no result yet, in order
    rollback,       \* rollback_len of the running turn
    wire,           \* the last projection sent, or what replaced its history
    tags            \* messages pushed so far

vars == <<msgs, epoch, phase, todo, rollback, wire, tags>>

Msg(role, calls, id, real, pin, size, tag) ==
    [role |-> role, calls |-> calls, id |-> id, real |-> real, pin |-> pin,
     size |-> size, tag |-> tag]
User(t) == Msg("user", <<>>, 0, TRUE, FALSE, 2, t)
Pinned(t) == Msg("user", <<>>, 0, TRUE, TRUE, 2, t)
Synthetic(t) == Msg("user", <<>>, 0, FALSE, FALSE, 1, t)
Assistant(c, t) == Msg("assistant", c, 0, FALSE, FALSE, 1, t)
Result(i, t) == Msg("tool", <<>>, i, FALSE, FALSE, 3, t)
Placeholder(i) == Msg("tool", <<>>, i, FALSE, FALSE, 1, 0)

-----------------------------------------------------------------------------
(* The algorithms of message.rs.                                           *)

\* the ids of s, each at its first place
Unique(s) ==
    LET seen[n \in 0..Len(s)] ==
            IF n = 0 THEN <<>>
            ELSE IF Contains(seen[n - 1], s[n]) THEN seen[n - 1]
            ELSE Append(seen[n - 1], s[n])
    IN  seen[Len(s)]

\* the elements of s that are in S, in their order
Only(s, S) ==
    LET kept[n \in 0..Len(s)] ==
            IF n = 0 THEN <<>>
            ELSE IF s[n] \in S THEN Append(kept[n - 1], s[n])
            ELSE kept[n - 1]
    IN  kept[Len(s)]

\* the results made up when a window closes
Close(w) == LET open == Only(w.pending, Ids \ w.resolved)
            IN  w.out \o [k \in DOMAIN open |-> Placeholder(open[k])]

\* mutant: a call id repeated in one message is paired twice
RepairStepTwice(w, m) ==
    IF m.role # "tool"
    THEN [out |-> Append(Close(w), m), pending |-> m.calls, resolved |-> {}]
    ELSE IF Contains(w.pending, m.id) /\ m.id \notin w.resolved
         THEN [w EXCEPT !.out = Append(@, m), !.resolved = @ \cup {m.id}]
         ELSE w

\* mutant: an id answered in an earlier window counts as answered
RepairStepCarry(w, m) ==
    IF m.role # "tool"
    THEN [out |-> Append(Close(w), m), pending |-> Unique(m.calls), resolved |-> w.resolved]
    ELSE IF Contains(w.pending, m.id) /\ m.id \notin w.resolved
         THEN [w EXCEPT !.out = Append(@, m), !.resolved = @ \cup {m.id}]
         ELSE w

\* one message of the repair: a result is kept if it answers a call of the open
\* window, once; any other message closes the window and opens its own
RepairStep(w, m) ==
    IF m.role # "tool"
    THEN [out |-> Append(Close(w), m), pending |-> Unique(m.calls), resolved |-> {}]
    ELSE IF Contains(w.pending, m.id) /\ m.id \notin w.resolved
         THEN [w EXCEPT !.out = Append(@, m), !.resolved = @ \cup {m.id}]
         ELSE w

ResultIds(ms) == {ms[k].id : k \in {j \in DOMAIN ms : ms[j].role = "tool"}}

\* ids of calls without a result anywhere, in order
Missing(ms) ==
    LET calls[n \in 0..Len(ms)] == IF n = 0 THEN <<>> ELSE calls[n - 1] \o ms[n].calls
    IN  Only(Unique(calls[Len(ms)]), Ids \ ResultIds(ms))

\* backfill_missing_tool_results: append one placeholder per missing id
Backfill(ms) == LET missing == Missing(ms)
                IN  ms \o [k \in DOMAIN missing |-> Placeholder(missing[k])]

\* mutant: the projection is repaired like a cancelled turn, at the end
RepairAtEnd(ms) == Backfill(ms)

\* repair_pairing: one result window per assistant message with calls
repair_pairing(ms) ==
    LET window[n \in 0..Len(ms)] ==
            IF n = 0 THEN [out |-> <<>>, pending |-> <<>>, resolved |-> {}]
            ELSE RepairStep(window[n - 1], ms[n])
    IN  Close(window[Len(ms)])

\* the protected prefix ends with the first prompt of the user
sacred_floor(ms) ==
    LET real == {k \in DOMAIN ms : ms[k].real}
    IN  IF real # {} THEN CHOOSE k \in real : \A j \in real : k <= j
        ELSE IF ms # <<>> /\ Head(ms).role = "system" THEN 1 ELSE 0

Size(m) == m.size + Len(m.calls) + (IF m.id # 0 THEN 1 ELSE 0)
Bytes(ms) == FoldLeft(LAMBDA n, m : n + Size(m), 0, ms)

Min2(a, b) == IF a < b THEN a ELSE b
Max2(a, b) == IF a > b THEN a ELSE b

\* A strategy's plan: drain [from, to), insert a summary there, rewrite
\* message rw (an index of the old history, counted from 0; Len is none), add a
\* resume note.
Plans(n) == [from : 0..n, to : 0..n, summary : BOOLEAN, rw : 0..n, note : BOOLEAN]

Drain(ms, plan, floor) ==
    LET n == Len(ms)
        from == Min2(Max2(plan.from, Min2(floor, n)), n)
        to == Min2(plan.to, n)
    IN  [from |-> from, to |-> IF from >= to THEN from ELSE to]

\* mutant: a drained range is gone as a whole
RetainedNone(ms, d) == <<>>

\* the pinned messages of the drained range (is_retained)
Retained(ms, d) == LET drained == SubSeq(ms, d.from + 1, d.to)
                   IN  Only(drained, {m \in ToSet(drained) : m.pin})

\* where message rw of the old history is in the candidate
Target(ms, plan, d) ==
    IF plan.rw < d.from THEN plan.rw
    ELSE d.from + (IF plan.summary THEN 1 ELSE 0) + Len(Retained(ms, d)) + (plan.rw - d.to)

Rewritable(ms, plan, d, floor) ==
    /\ plan.rw >= floor /\ plan.rw < Len(ms)
    /\ ~ms[plan.rw + 1].pin
    /\ ~(plan.rw >= d.from /\ plan.rw < d.to)

Stub(ms, k) == IF k \in DOMAIN ms THEN [ms EXCEPT ![k].size = 0] ELSE ms

\* the candidate of prepare_plan, made valid before it is measured
Candidate(ms, plan, floor) ==
    LET d == Drain(ms, plan, floor)
        kept == SubSeq(ms, 1, d.from)
                  \o (IF plan.summary THEN <<Synthetic(0)>> ELSE <<>>)
                  \o Retained(ms, d)
                  \o SubSeq(ms, d.to + 1, Len(ms))
        rewritten == IF Rewritable(ms, plan, d, floor)
                     THEN Stub(kept, Target(ms, plan, d) + 1) ELSE kept
    IN  repair_pairing(rewritten \o (IF plan.note THEN <<Synthetic(0)>> ELSE <<>>))

-----------------------------------------------------------------------------
(* What a turn does to the history.                                        *)

Init == /\ \E s \in Snapshots :
              msgs = repair_pairing(s.msgs) /\ epoch = s.epoch /\ tags = s.tags
        /\ phase = "idle" /\ todo = <<>> /\ rollback = 0
        /\ wire = <<>>

\* push new messages; MaxTags bounds a behaviour
Push(ms) == /\ tags + Len(ms) <= MaxTags
            /\ msgs' = msgs \o ms
            /\ tags' = tags + Len(ms)

\* mutant: the context goes to the front of the history
SubmitFront(real, context) ==
    LET ctx == IF context THEN <<Synthetic(tags + 1)>> ELSE <<>>
        t == tags + Len(ctx) + 1
    IN
    /\ phase = "idle"
    /\ rollback' = Len(msgs)
    /\ t <= MaxTags
    /\ msgs' = Append(ctx \o msgs, IF real THEN User(t) ELSE Synthetic(t))
    /\ tags' = t
    /\ phase' = "running"
    /\ UNCHANGED <<epoch, todo, wire>>

\* process_send_message: rollback_len, then the context a controller adds, if
\* any, and the prompt
Submit(real, context) ==
    LET ctx == IF context THEN <<Synthetic(tags + 1)>> ELSE <<>>
        t == tags + Len(ctx) + 1
    IN
    /\ phase = "idle"
    /\ rollback' = Len(msgs)
    /\ Push(Append(ctx, IF real THEN User(t) ELSE Synthetic(t)))
    /\ phase' = "running"
    /\ UNCHANGED <<epoch, todo, wire>>

\* the request of the next round
Send == /\ phase = "running"
        /\ wire' = repair_pairing(msgs)
        /\ phase' = "sent"
        /\ UNCHANGED <<msgs, epoch, todo, rollback, tags>>

\* the request failed before anything was stored: it is opened again
Retry == /\ phase = "sent"
         /\ phase' = "running"
         /\ UNCHANGED <<msgs, epoch, todo, rollback, wire, tags>>

\* a completed response; duplicates of an id stay in the message, but the
\* batch produces one result per id
Respond(c) == /\ phase = "sent"
              /\ Push(<<Assistant(c, tags + 1)>>)
              /\ todo' = Unique(c)
              /\ phase' = IF c = <<>> THEN "answered" ELSE "batch"
              /\ UNCHANGED <<epoch, rollback, wire>>

\* the next result of the batch, and the note of an after-middleware
ApplyResult(block) ==
    /\ phase = "batch"
    /\ Push(<<Result(Head(todo), tags + 1)>>
              \o (IF block THEN <<Synthetic(tags + 2)>> ELSE <<>>))
    /\ todo' = Tail(todo)
    /\ phase' = IF Len(todo) = 1 THEN "running" ELSE "batch"
    /\ UNCHANGED <<epoch, rollback, wire>>

\* a steer message, or the synthetic nudge of a continuation
Note(real) == /\ phase \in {"running", "answered"}
              /\ Push(<<IF real THEN User(tags + 1) ELSE Synthetic(tags + 1)>>)
              /\ phase' = "running"
              /\ UNCHANGED <<epoch, todo, rollback, wire>>

\* a broken stream: keep the partial message, pair its calls, then continue
\* with a nudge or end the turn
Partial(c, on) ==
    /\ phase = "sent"
    /\ tags + 2 <= MaxTags
    /\ LET kept == Backfill(Append(msgs, Assistant(Unique(c), tags + 1)))
       IN  msgs' = IF on THEN Append(kept, Synthetic(tags + 2)) ELSE kept
    /\ tags' = tags + 2
    /\ phase' = IF on THEN "running" ELSE "idle"
    /\ UNCHANGED <<epoch, todo, rollback, wire>>

\* run_compaction between turns, before a send, or after an overflow; a plan
\* that does not shrink the history is refused
Compact(plan) ==
    LET floor == sacred_floor(msgs)
        candidate == Candidate(msgs, plan, floor)
    IN
    /\ phase = "idle" \/ (MidTurn /\ phase = "running")
    /\ epoch < MaxEpoch
    /\ Bytes(candidate) < Bytes(msgs)
    /\ msgs' = candidate
    /\ epoch' = epoch + 1
    /\ wire' = <<>>
    /\ UNCHANGED <<phase, todo, rollback, tags>>

DidWork == \E k \in DOMAIN msgs : k > rollback /\ msgs[k].role \in {"assistant", "tool"}

\* finish_cancelled: keep the work and pair it, or undo the turn; then the
\* interruption boundary unless the cancel is internal
Kept == IF Keep /\ DidWork THEN Backfill(msgs) ELSE SubSeq(msgs, 1, Min2(rollback, Len(msgs)))

finish_cancelled(internal) ==
    /\ phase # "idle"
    /\ tags < MaxTags
    /\ msgs' = IF internal THEN Kept ELSE Append(Kept, Synthetic(tags + 1))
    /\ tags' = tags + 1
    /\ wire' = IF IsPrefix(msgs, Kept) THEN wire ELSE repair_pairing(Kept)
    /\ phase' = "idle" /\ todo' = <<>>
    /\ UNCHANGED <<epoch, rollback>>

\* finish_turn without a cancel
Finish == /\ phase \in {"running", "sent", "answered"}
          /\ phase' = "idle"
          /\ UNCHANGED <<msgs, epoch, todo, rollback, wire, tags>>

Next == \/ \E real, context \in BOOLEAN : Submit(real, context)
        \/ Send \/ Retry \/ Finish
        \/ \E c \in Responses : Respond(c) \/ (\E on \in BOOLEAN : Partial(c, on))
        \/ \E b \in BOOLEAN : ApplyResult(b) \/ Note(b) \/ finish_cancelled(b)
        \/ \E plan \in Plans(Len(msgs)) : Compact(plan)

Spec == Init /\ [][Next]_vars

-----------------------------------------------------------------------------
(* Properties.                                                             *)

\* The type of the history.
TypeOK ==
    /\ msgs \in Seq(Message) /\ wire \in Seq(Message)
    /\ phase \in {"idle", "running", "sent", "batch", "answered"}
    /\ todo \in Seq(Ids) /\ (todo # <<>> <=> phase = "batch")
    /\ epoch \in 0..MaxEpoch /\ tags \in 0..MaxTags /\ rollback \in Nat

\* k is in the result window of message a: only results lie between
InWindow(ms, a, k) == a < k /\ \A j \in (a + 1)..k : ms[j].role = "tool"

\* What a provider accepts, stated without the algorithm: every result belongs
\* to a call of the assistant message whose window it is in, and every call
\* has exactly one result there.
Paired(ms) ==
    /\ \A k \in DOMAIN ms : ms[k].role = "tool" =>
          \E a \in DOMAIN ms : InWindow(ms, a, k) /\ Contains(ms[a].calls, ms[k].id)
    /\ \A a \in DOMAIN ms : \A i \in ToSet(ms[a].calls) :
          Cardinality({k \in DOMAIN ms : InWindow(ms, a, k) /\ ms[k].id = i}) = 1

\* Every request is legal, whatever snapshot the session resumed from, however
\* ids are reused, streams break, turns are cancelled and plans cut pairs apart.
WireLegal == phase = "sent" => Paired(wire)

\* The repair only repairs: a legal history is sent as it is stored, and a
\* repaired one needs no further repair.
RepairIsExact ==
    /\ Paired(msgs) => repair_pairing(msgs) = msgs
    /\ phase = "sent" => repair_pairing(wire) = wire

StoredResults(ms) == {k \in DOMAIN ms : ms[k].role = "tool" /\ ms[k].tag # 0}

\* What the comments in run_turn say of a batch: its results are stored side by
\* side, so that every result the turns stored and no compaction removed
\* reaches the model in the next request.
ResultsReachModel ==
    phase = "sent" => \A k \in StoredResults(msgs) : Contains(wire, msgs[k])

IsNote(m) == m.role = "user" /\ ~m.real

\* Between the message that made the call and its result k lie results and
\* notes alone, and one of the notes, n, follows a result: a Block of the batch.
Blocked(ms, k) ==
    \E a, n \in 1..(k - 1) :
        /\ a + 1 < n /\ Contains(ms[a].calls, ms[k].id)
        /\ IsNote(ms[n]) /\ ms[n - 1].role = "tool"
        /\ \A j \in (a + 1)..(k - 1) : ms[j].role = "tool" \/ IsNote(ms[j])

\* Nothing else withholds what a tool returned: a stored result that no
\* compaction removed is in the next request, however ids are reused and turns
\* broken off, unless an after-middleware blocked an earlier result of the same
\* batch; results of other batches are never lost to a Block.
OnlyBlockWithholds ==
    phase = "sent" =>
        \A k \in StoredResults(msgs) : Contains(wire, msgs[k]) \/ Blocked(msgs, k)

\* The cache contract: within an epoch each request extends the one before it
\* (or, after an undone turn, what the undo left of it); only a committed
\* compaction breaks the prefix.
PrefixStable == [][phase = "running" /\ phase' = "sent" => IsPrefix(wire, wire')]_vars

FirstReal(ms, k) == ms[k].real /\ \A j \in 1..(k - 1) : ~ms[j].real

\* What the user has said first or pinned survives every compaction unchanged,
\* and the first prompt stays the first one, whatever range a plan names.
ProtectedKept ==
    [][epoch' # epoch =>
          /\ \A k \in DOMAIN msgs : msgs[k].pin => Contains(msgs', msgs[k])
          /\ \A k \in DOMAIN msgs : FirstReal(msgs, k) =>
                \E j \in DOMAIN msgs' : FirstReal(msgs', j) /\ msgs'[j] = msgs[k]]_vars
=============================================================================
