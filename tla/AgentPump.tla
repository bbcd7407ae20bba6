----------------------------- MODULE AgentPump -----------------------------
(***************************************************************************)
(* The plugin harness driving one agent: the pump that translates a        *)
(* driver's commands (crates/atomcode-harness/src/plugins/handle.rs, pump),*)
(* the agent's inbox and its stop (agent.rs), the turn task                *)
(* (plugins/agent_loop.rs, drive_as), the question a tool of the turn asks *)
(* through the Asker, and the compaction task.                             *)
(*                                                                         *)
(* The three tasks run on a multi-threaded runtime and meet in the inbox   *)
(* (one mutex), the agent's status, its cancellation token and two atomic  *)
(* flags, so a stop, the opening of a turn and its end are given one step  *)
(* per shared access.                                                      *)
(***************************************************************************)
EXTENDS Naturals, Sequences, FiniteSets, SequencesExt

CONSTANTS
    Msgs,           \* messages the driver sends, each with a receipt
    Peers,          \* messages of other agents, without one
    None,           \* no message
    MaxRounds,      \* max_rounds, the runaway fuse of a turn
    MaxCmds         \* bound: commands a driver sends besides Msgs

ASSUME PumpAssumption ==
    /\ MaxRounds \in Nat \ {0}
    /\ MaxCmds \in Nat
    /\ Msgs \cap Peers = {}
    /\ None \notin Msgs \cup Peers
    /\ IsFiniteSet(Peers)

VARIABLES
    cmds,           \* the driver's channel: commands sent and not read
    others,         \* bound: commands sent besides Msgs
    \* the agent
    inbox,          \* Inbox::queue
    wake,           \* the pump has InboxInserted events to read
    status,         \* AgentStatus
    cancelled,      \* the agent's current CancellationToken has fired
    interrupted,    \* Agent::interrupted
    ahead,          \* Agent::cancel_ahead
    \* the pump
    pump,           \* "loop", or where it is in a Cancel or a Shutdown
    snapsWaiting,   \* snapshots_waiting
    compactsWaiting, \* compactions_waiting
    \* the tasks
    turn,           \* the turn task; pc is "none" when the pump has no handle
    compaction,     \* the compaction task
    question,       \* the turn's question in Asker::pending
    \* history
    fate,           \* message -> what became of it
    receipts,       \* message -> receipts sent for it
    snaps,          \* snapshots sent
    stopping,       \* a Cancel was read since this turn was spawned
    stopped         \* ... and has been handled to the end

agent == <<status, cancelled, interrupted, ahead>>
queues == <<snapsWaiting, compactsWaiting>>
hist == <<fate, receipts, snaps, stopping, stopped>>
vars == <<cmds, others, inbox, wake, agent, pump, queues, turn, compaction,
          question, hist>>

Message(m) == [kind |-> "message", id |-> m]
Context(m) == [kind |-> "context", id |-> m]
Send(m) == [type |-> "Send", msg |-> m]
Plain(t) == [type |-> t]
Requests == {Plain(t) : t \in {"Cancel", "Snapshot", "Compact", "Respond", "Shutdown"}}
Commands == {Send(m) : m \in Msgs} \cup Requests
NoTurn == [pc |-> "none", step |-> 0, msg |-> None, inj |-> {}, owes |-> FALSE,
           closing |-> FALSE, stop |-> FALSE]
TurnPcs == {"none", "spawned", "token", "status", "ahead", "opened", "claim",
            "keep", "request", "exec", "asking", "insert", "waiting", "yield",
            "finish", "renew", "idle", "done", "aborted"}
PumpPcs == {"loop", "ahead", "mark", "look", "move", "fire", "sweep", "drain", "ended"}
Fates == {"unsent", "open", "logged", "withdrawn", "refused", "lost"}

\* Every variable has its type.
TypeOK == /\ cmds \in Seq(Commands)
          /\ others \in 0..MaxCmds
          /\ inbox \in Seq({Message(m) : m \in Msgs \cup Peers}
                             \cup {Context(m) : m \in Peers})
          /\ status \in {"Idle", "Working", "Stopping"}
          /\ {wake, cancelled, interrupted, ahead, stopping, stopped} \subseteq BOOLEAN
          /\ pump \in [pc : PumpPcs, down : BOOLEAN]
          /\ snapsWaiting \in 0..MaxCmds
          /\ compactsWaiting \in 0..MaxCmds
          /\ turn \in [pc : TurnPcs, step : 0..MaxRounds + 1,
                       msg : Msgs \cup Peers \cup {None}, inj : SUBSET Peers,
                       owes : BOOLEAN, closing : BOOLEAN, stop : BOOLEAN]
          /\ compaction \in [pc : {"none", "running", "ended"}, stop : BOOLEAN]
          /\ question \in {"none", "pending", "resolved"}
          /\ fate \in [Msgs \cup Peers -> Fates]
          /\ receipts \in [Msgs -> 0..2]
          /\ snaps \in 0..MaxCmds

Init == /\ cmds = <<>>
        /\ others = 0
        /\ inbox = <<>>
        /\ wake = FALSE
        /\ status = "Idle"
        /\ cancelled = FALSE
        /\ interrupted = FALSE
        /\ ahead = FALSE
        /\ pump = [pc |-> "loop", down |-> FALSE]
        /\ snapsWaiting = 0
        /\ compactsWaiting = 0
        /\ turn = NoTurn
        /\ compaction = [pc |-> "none", stop |-> FALSE]
        /\ question = "none"
        /\ fate = [m \in Msgs \cup Peers |-> "unsent"]
        /\ receipts = [m \in Msgs |-> 0]
        /\ snaps = 0
        /\ stopping = FALSE
        /\ stopped = FALSE

-----------------------------------------------------------------------------
(* The inbox.                                                              *)

IsMessage(item) == item.kind = "message"
HasWakingInput == \E i \in DOMAIN inbox : IsMessage(inbox[i])
WaitingMessages == {inbox[i].id : i \in {k \in DOMAIN inbox : IsMessage(inbox[k])}}

\* Inbox::claim takes the queue up to and including its first message
FirstMessage == CHOOSE i \in DOMAIN inbox :
                    /\ IsMessage(inbox[i])
                    /\ \A k \in 1..(i - 1) : ~IsMessage(inbox[k])

IsContext(item) == ~IsMessage(item)
QueuedInjections == {inbox[i].id : i \in {k \in DOMAIN inbox : IsContext(inbox[k])}}

\* The items of one kind, in the order of the queue
OfKind(q, kind) ==
    LET kept[n \in 0..Len(q)] ==
            IF n = 0 THEN <<>>
            ELSE IF q[n].kind = kind THEN Append(kept[n - 1], q[n])
            ELSE kept[n - 1]
    IN kept[Len(q)]

AsInjections(ps) == SetToSeq({Context(p) : p \in ps})

\* What becomes of the messages ms, and the receipts the driver gets: one
\* for each of its own, while the pump's listeners are there to send it.
Settle(ms, as) == [m \in DOMAIN fate |-> IF m \in ms THEN as ELSE fate[m]]
Listening == pump.pc \notin {"drain", "ended"}
Receipt(ms) == [m \in Msgs |-> IF Listening /\ m \in ms THEN receipts[m] + 1 ELSE receipts[m]]

-----------------------------------------------------------------------------
(* Outside: the driver sends, another agent reports.                       *)

DriverSends(c) ==
    /\ pump.pc # "ended"
    /\ cmds' = Append(cmds, c)
    /\ \/ /\ c.type = "Send"
          /\ fate[c.msg] = "unsent"
          /\ fate' = Settle({c.msg}, "open")
          /\ UNCHANGED others
       \/ /\ c.type # "Send"
          /\ others < MaxCmds
          /\ c.type = "Respond" => question = "pending"
          /\ others' = others + 1
          /\ UNCHANGED fate
    /\ UNCHANGED <<inbox, wake, agent, pump, queues, turn, compaction, question,
                   receipts, snaps, stopping, stopped>>

PeerSends(p) ==
    /\ fate[p] = "unsent"
    /\ fate' = Settle({p}, "open")
    /\ inbox' = Append(inbox, Message(p))
    /\ wake' = TRUE
    /\ UNCHANGED <<cmds, others, agent, pump, queues, turn, compaction, question,
                   receipts, snaps, stopping, stopped>>

-----------------------------------------------------------------------------
(* The pump.                                                               *)

Spawn == turn' = [NoTurn EXCEPT !.pc = "spawned"]
\* turn.is_none() and compacting.is_none(): both tasks are over and joined
Resting == turn.pc = "none" /\ compaction.pc = "none"
Reads(type) == /\ pump.pc = "loop"
               /\ cmds # <<>> /\ Head(cmds).type = type
               /\ cmds' = Tail(cmds)
               /\ UNCHANGED others

\* AgentCommand::SendMessage: into the inbox, and a turn unless one runs
PumpSend ==
    /\ Reads("Send")
    /\ inbox' = Append(inbox, Message(Head(cmds).msg))
    /\ wake' = TRUE
    /\ IF Resting THEN Spawn ELSE UNCHANGED turn
    /\ UNCHANGED <<agent, pump, queues, compaction, question, hist>>

\* Woke::Inbox
PumpWakes ==
    /\ pump.pc = "loop"
    /\ wake
    /\ wake' = FALSE
    /\ IF Resting /\ HasWakingInput THEN Spawn ELSE UNCHANGED turn
    /\ UNCHANGED <<cmds, others, inbox, agent, pump, queues, compaction, question, hist>>

\* refuse_asked_by, and Asker::answer: the entry leaves pending either way
Resolve == question' = IF question = "pending" THEN "resolved" ELSE question

\* AgentCommand::Respond
PumpRespond ==
    /\ Reads("Respond")
    /\ Resolve
    /\ UNCHANGED <<inbox, wake, agent, pump, queues, turn, compaction, hist>>

\* AgentCommand::Snapshot: behind whatever is writing the conversation
PumpSnapshot ==
    /\ Reads("Snapshot")
    /\ IF Resting THEN snaps' = snaps + 1 /\ UNCHANGED snapsWaiting
       ELSE snapsWaiting' = snapsWaiting + 1 /\ UNCHANGED snaps
    /\ UNCHANGED <<inbox, wake, agent, pump, compactsWaiting, turn, compaction,
                   question, fate, receipts, stopping, stopped>>

SpawnCompaction == compaction' = [pc |-> "running", stop |-> FALSE]
NoCompaction == compaction' = [pc |-> "none", stop |-> FALSE]

\* AgentCommand::Compact
PumpCompact ==
    /\ Reads("Compact")
    /\ IF Resting THEN SpawnCompaction /\ UNCHANGED compactsWaiting
       ELSE compactsWaiting' = compactsWaiting + 1 /\ UNCHANGED compaction
    /\ UNCHANGED <<inbox, wake, agent, pump, snapsWaiting, turn, question, hist>>

\* mutant: a message that came after the turn's last look waits for another
NextWorkNoLook ==
    \/ /\ compactsWaiting > 0
       /\ compactsWaiting' = compactsWaiting - 1
       /\ SpawnCompaction
       /\ turn' = NoTurn
       /\ UNCHANGED <<snapsWaiting, snaps>>
    \/ /\ compactsWaiting = 0
       /\ snaps' = snaps + snapsWaiting
       /\ snapsWaiting' = 0
       /\ NoCompaction
       /\ turn' = NoTurn
       /\ UNCHANGED compactsWaiting

\* What waited behind a task that ended: a compaction first, else the
\* snapshots and then a turn for what is in the inbox.
NextWork ==
    \/ /\ compactsWaiting > 0
       /\ compactsWaiting' = compactsWaiting - 1
       /\ SpawnCompaction
       /\ turn' = NoTurn
       /\ UNCHANGED <<snapsWaiting, snaps>>
    \/ /\ compactsWaiting = 0
       /\ snaps' = snaps + snapsWaiting
       /\ snapsWaiting' = 0
       /\ NoCompaction
       /\ IF HasWakingInput THEN Spawn ELSE turn' = NoTurn
       /\ UNCHANGED compactsWaiting

\* mutant: a stop held for the turn that ended is kept for the next
PumpTurnDoneKeeps ==
    /\ pump.pc = "loop"
    /\ turn.pc = "done"
    /\ NextWork
    /\ stopping' = FALSE
    /\ stopped' = FALSE
    /\ UNCHANGED <<cmds, others, inbox, wake, agent, pump, question, fate, receipts>>

\* Woke::TurnDone, with settle_cancel
PumpTurnDone ==
    /\ pump.pc = "loop"
    /\ turn.pc = "done"
    /\ ahead' = FALSE
    /\ NextWork
    /\ stopping' = FALSE
    /\ stopped' = FALSE
    /\ UNCHANGED <<cmds, others, inbox, wake, status, cancelled, interrupted, pump,
                   question, fate, receipts>>

\* Woke::CompactionDone
PumpCompactionDone ==
    /\ pump.pc = "loop"
    /\ compaction.pc = "ended"
    /\ NextWork
    /\ UNCHANGED <<cmds, others, inbox, wake, agent, pump, question, fate, receipts,
                   stopping, stopped>>

-----------------------------------------------------------------------------
(* AgentCommand::Cancel, one step per access to what the turn also reads.  *)

\* mutant: a stop drops a peer's report with the person's messages
StandDownAll ==
    /\ fate' = Settle(WaitingMessages, "withdrawn")
    /\ receipts' = Receipt(WaitingMessages)
    /\ inbox' = OfKind(inbox, "context")
    /\ UNCHANGED wake

\* Agent::stand_down: the driver's messages are withdrawn, a peer's is noted
\* (Agent::note: in the log of an idle agent, else queued as context).  The
\* withdrawal and each note take the agent's locks one after the other; here
\* they are one step.
StandDown ==
    LET noted == WaitingMessages \cap Peers
        mine == WaitingMessages \ Peers
        kept == OfKind(inbox, "context")
    IN /\ receipts' = Receipt(mine)
       /\ IF status = "Idle"
          THEN /\ fate' = [m \in DOMAIN fate |->
                             CASE m \in mine -> "withdrawn"
                               [] m \in noted -> "logged"
                               [] OTHER -> fate[m]]
               /\ inbox' = kept
               /\ UNCHANGED wake
          ELSE /\ fate' = Settle(mine, "withdrawn")
               /\ inbox' = kept \o AsInjections(noted)
               /\ wake' = (wake \/ noted # {})

\* A compaction is stopped too, and those waiting behind it are failed;
\* interrupt_started for a turn that was started, interrupt otherwise.
PumpCancel ==
    /\ Reads("Cancel")
    /\ StandDown
    /\ compaction' = IF compaction.pc = "running" THEN [compaction EXCEPT !.stop = TRUE]
                     ELSE compaction
    /\ compactsWaiting' = 0
    /\ pump' = [pump EXCEPT !.pc = IF turn.pc = "none" THEN "mark" ELSE "ahead"]
    /\ stopping' = (turn.pc # "none")
    /\ UNCHANGED <<agent, snapsWaiting, turn, question, snaps, stopped>>

\* interrupt_started: the stop is held for a turn that has not opened
PumpAhead ==
    /\ pump.pc = "ahead"
    /\ ahead' = TRUE
    /\ pump' = [pump EXCEPT !.pc = "mark"]
    /\ UNCHANGED <<cmds, others, inbox, wake, status, cancelled, interrupted, queues,
                   turn, compaction, question, hist>>

\* interrupt: a person's stop is recorded as theirs
PumpMark ==
    /\ pump.pc = "mark"
    /\ interrupted' = (interrupted \/ status = "Working")
    /\ pump' = [pump EXCEPT !.pc = "look"]
    /\ UNCHANGED <<cmds, others, inbox, wake, status, cancelled, ahead, queues, turn,
                   compaction, question, hist>>

\* cancel: nothing to stop when idle
PumpLook ==
    /\ pump.pc = "look"
    /\ pump' = [pump EXCEPT !.pc = IF status = "Idle" THEN "sweep" ELSE "move"]
    /\ UNCHANGED <<cmds, others, inbox, wake, agent, queues, turn, compaction, question,
                   hist>>

\* ... Working becomes Stopping, whose listener refuses the agent's questions
PumpMove ==
    /\ pump.pc = "move"
    /\ IF status = "Working" THEN status' = "Stopping" /\ Resolve
       ELSE UNCHANGED <<status, question>>
    /\ pump' = [pump EXCEPT !.pc = "fire"]
    /\ UNCHANGED <<cmds, others, inbox, wake, cancelled, interrupted, ahead, queues,
                   turn, compaction, hist>>

\* ... and the agent's token of this moment fires
PumpFire ==
    /\ pump.pc = "fire"
    /\ cancelled' = TRUE
    /\ pump' = [pump EXCEPT !.pc = "sweep"]
    /\ UNCHANGED <<cmds, others, inbox, wake, status, interrupted, ahead, queues, turn,
                   compaction, question, hist>>

\* asker.refuse_asked_by, after a Cancel; asker.close, after a Shutdown
PumpSweep ==
    /\ pump.pc = "sweep"
    /\ Resolve
    /\ pump' = [pump EXCEPT !.pc = IF pump.down THEN "drain" ELSE "loop"]
    /\ stopped' = (stopped \/ stopping)
    /\ UNCHANGED <<cmds, others, inbox, wake, agent, queues, turn, compaction, fate,
                   receipts, snaps, stopping>>

\* AgentCommand::Shutdown leaves the loop: cancel, stop a compaction, sweep
PumpShutdown ==
    /\ Reads("Shutdown")
    /\ pump' = [pc |-> "look", down |-> TRUE]
    /\ compaction' = IF compaction.pc = "running" THEN [compaction EXCEPT !.stop = TRUE]
                     ELSE compaction
    /\ UNCHANGED <<inbox, wake, agent, queues, turn, question, hist>>

Claim == ({turn.msg} \cup turn.inj) \ {None}

\* TURN_STOP_GRACE: the turn ends itself, or is aborted with what it holds
PumpDrain ==
    /\ pump.pc = "drain"
    /\ pump' = [pump EXCEPT !.pc = "ended"]
    /\ IF turn.pc \in {"none", "done"} THEN UNCHANGED <<turn, fate>>
       ELSE /\ turn' = [turn EXCEPT !.pc = "aborted", !.msg = None, !.inj = {}]
            /\ fate' = Settle(Claim, "lost")
    /\ UNCHANGED <<cmds, others, inbox, wake, agent, queues, compaction, question,
                   receipts, snaps, stopping, stopped>>

PumpStep == \/ PumpSend \/ PumpWakes \/ PumpRespond \/ PumpSnapshot \/ PumpCompact
            \/ PumpTurnDone \/ PumpCompactionDone
            \/ PumpCancel \/ PumpAhead \/ PumpMark \/ PumpLook \/ PumpMove
            \/ PumpFire \/ PumpSweep \/ PumpShutdown \/ PumpDrain

-----------------------------------------------------------------------------
(* The turn task, drive_as.                                                *)

At(pc) == turn.pc = pc
Go(pc) == turn' = [turn EXCEPT !.pc = pc]
TurnRest == <<cmds, others, pump, queues, compaction, snaps, stopping, stopped>>

\* Nothing waking in the inbox: no turn
TurnLook ==
    /\ At("spawned")
    /\ Go(IF HasWakingInput THEN "token" ELSE "done")
    /\ UNCHANGED <<TurnRest, inbox, wake, agent, question, fate, receipts>>

\* begin_turn: the mark is cleared and the token minted. Nothing of the
\* pump touches either while the agent is idle, so they are one step.
TurnToken ==
    /\ At("token")
    /\ interrupted' = FALSE
    /\ cancelled' = FALSE
    /\ Go("status")
    /\ UNCHANGED <<TurnRest, inbox, wake, status, ahead, question, fate, receipts>>

TurnWorking ==
    /\ At("status")
    /\ status' = "Working"
    /\ Go("ahead")
    /\ UNCHANGED <<TurnRest, inbox, wake, cancelled, interrupted, ahead, question,
                   fate, receipts>>

\* mutant: a stop that came before the turn opened is not held for it
TurnAheadForgets ==
    /\ At("ahead")
    /\ ahead' = FALSE
    /\ Go("opened")
    /\ UNCHANGED <<TurnRest, inbox, wake, status, cancelled, interrupted, question,
                   fate, receipts>>

\* ... a stop held for it: the turn interrupts itself
TurnAhead ==
    /\ At("ahead")
    /\ ahead' = FALSE
    /\ interrupted' = (interrupted \/ (ahead /\ status = "Working"))
    /\ status' = IF ahead THEN "Stopping" ELSE status
    /\ cancelled' = (cancelled \/ ahead)
    /\ Go("opened")
    /\ UNCHANGED <<TurnRest, inbox, wake, question, fate, receipts>>

\* Stopped before it opened, and nothing left to answer: no turn to log
TurnOpened ==
    /\ At("opened")
    /\ Go(IF cancelled /\ ~HasWakingInput THEN "renew" ELSE "claim")
    /\ UNCHANGED <<TurnRest, inbox, wake, agent, question, fate, receipts>>

\* Inbox::claim, empty on the closing round; PreStep is awaited after it
TurnClaim ==
    /\ At("claim")
    /\ IF HasWakingInput /\ ~turn.closing
       THEN /\ turn' = [turn EXCEPT
                !.pc = "keep",
                !.msg = inbox[FirstMessage].id,
                !.inj = {inbox[i].id : i \in 1..(FirstMessage - 1)}]
            /\ inbox' = SubSeq(inbox, FirstMessage + 1, Len(inbox))
       ELSE Go("keep") /\ UNCHANGED inbox
    /\ UNCHANGED <<TurnRest, wake, agent, question, fate, receipts>>

\* mutant: a fold is kept without a look at the stop that overtook it
NotOvertaken == FALSE

\* A fold is a message claimed after the first request of the turn
Overtaken == turn.msg # None /\ turn.step > 0 /\ cancelled
Ends(stop) == turn' = [turn EXCEPT !.pc = "finish", !.msg = None, !.inj = {}, !.stop = stop]

\* A fold the stop overtook is withdrawn like what was still in the inbox:
\* a peer's report and the context are kept, as notes (the agent is not idle).
TurnWithdraws ==
    /\ At("keep")
    /\ Overtaken
    /\ LET noted == Claim \cap Peers
       IN /\ inbox' = inbox \o AsInjections(noted)
          /\ wake' = (wake \/ noted # {})
          /\ fate' = Settle(Claim \ Peers, "withdrawn")
          /\ receipts' = Receipt(Claim \ Peers)
    /\ Ends(TRUE)
    /\ UNCHANGED <<TurnRest, agent, question>>

\* A PreStep hook rejected the message, or rewrote the first claim to
\* nothing: accepted, and the turn ends without it.
TurnRefuses ==
    /\ At("keep")
    /\ ~Overtaken
    /\ turn.msg # None \/ turn.step = 0
    /\ fate' = Settle(Claim, "refused")
    /\ receipts' = Receipt({turn.msg})
    /\ Ends(FALSE)
    /\ UNCHANGED <<TurnRest, inbox, wake, agent, question>>

\* Committed to the log, with the context queued meanwhile when it is the
\* first; then the request goes out.
TurnKeeps ==
    /\ At("keep")
    /\ ~Overtaken
    /\ turn.msg # None \/ turn.step > 0
    /\ LET late == IF turn.step = 0 THEN QueuedInjections ELSE {}
       IN /\ inbox' = IF turn.step = 0 THEN OfKind(inbox, "message") ELSE inbox
          /\ fate' = Settle(Claim \cup late, "logged")
    /\ receipts' = Receipt({turn.msg})
    /\ turn' = [turn EXCEPT !.pc = "request", !.step = @ + 1, !.msg = None, !.inj = {}]
    /\ UNCHANGED <<TurnRest, wake, agent, question>>

\* The request raced against the stop, biased to the stop
TurnRequestStopped ==
    /\ At("request")
    /\ cancelled
    /\ Ends(TRUE)
    /\ UNCHANGED <<TurnRest, inbox, wake, agent, question, fate, receipts>>

\* The answer: calls to run, or none (and possibly cut off); the closing
\* round runs no tool. An error or a rate limit ends the turn.
TurnAnswered ==
    /\ At("request")
    /\ ~cancelled
    /\ \/ \E owes \in BOOLEAN : turn' = [turn EXCEPT !.pc = "yield", !.owes = owes]
       \/ ~turn.closing /\ turn' = [turn EXCEPT !.pc = "exec", !.owes = TRUE]
       \/ Ends(FALSE)
    /\ UNCHANGED <<TurnRest, inbox, wake, agent, question, fate, receipts>>

\* execute_batch: a tool finishes, or asks the person first
TurnExecutes ==
    /\ At("exec")
    /\ \E pc \in {"yield", "asking"} : Go(pc)
    /\ UNCHANGED <<TurnRest, inbox, wake, agent, question, fate, receipts>>

\* Asker::request: a turn being stopped does not get to ask
TurnAsks ==
    /\ At("asking")
    /\ Go(IF cancelled THEN "yield" ELSE "insert")
    /\ UNCHANGED <<TurnRest, inbox, wake, agent, question, fate, receipts>>

\* ... the question is pending; a closed asker refuses it at once
TurnInserts ==
    /\ At("insert")
    /\ IF Listening THEN question' = "pending" /\ Go("waiting")
       ELSE UNCHANGED question /\ Go("yield")
    /\ UNCHANGED <<TurnRest, inbox, wake, agent, fate, receipts>>

\* mutant: the wait ends with an answer or a sweep alone
TurnWaitsDeaf ==
    /\ At("waiting")
    /\ question = "resolved"
    /\ question' = "none"
    /\ Go("yield")
    /\ UNCHANGED <<TurnRest, inbox, wake, agent, fate, receipts>>

\* ... until an answer or a sweep, or the token fires
TurnWaits ==
    /\ At("waiting")
    /\ question = "resolved" \/ cancelled
    /\ question' = "none"
    /\ Go("yield")
    /\ UNCHANGED <<TurnRest, inbox, wake, agent, fate, receipts>>

\* ask_timeout_secs, when it is set
QuestionTimesOut ==
    /\ At("waiting")
    /\ question' = "none"
    /\ Go("yield")
    /\ UNCHANGED <<TurnRest, inbox, wake, agent, fate, receipts>>

\* After the round: the stop, the closing round, a TurnStopping hook, then
\* whether anything is owed and the fuse.
TurnYields ==
    /\ At("yield")
    /\ \/ cancelled /\ Ends(TRUE)
       \/ ~cancelled /\ turn.closing /\ Ends(FALSE)
       \/ /\ ~cancelled /\ ~turn.closing
          /\ \/ Ends(FALSE)                                  \* the hook stops it
             \/ turn.owes /\ turn' = [turn EXCEPT !.pc = "claim", !.closing = TRUE]
             \/ IF (turn.owes \/ HasWakingInput) /\ turn.step < MaxRounds
                THEN Go("claim") ELSE Ends(FALSE)
    /\ UNCHANGED <<TurnRest, inbox, wake, agent, question, fate, receipts>>

\* take_interrupted when cancelled, TurnFinishing, TurnEnd
TurnFinishes ==
    /\ At("finish")
    /\ interrupted' = (interrupted /\ ~turn.stop)
    /\ Go("renew")
    /\ UNCHANGED <<TurnRest, inbox, wake, status, cancelled, ahead, question, fate,
                   receipts>>

\* end_turn: a fresh token, then Idle
TurnRenews ==
    /\ At("renew")
    /\ cancelled' = FALSE
    /\ Go("idle")
    /\ UNCHANGED <<TurnRest, inbox, wake, status, interrupted, ahead, question, fate,
                   receipts>>
TurnIdles ==
    /\ At("idle")
    /\ status' = "Idle"
    /\ Go("done")
    /\ UNCHANGED <<TurnRest, inbox, wake, cancelled, interrupted, ahead, question, fate,
                   receipts>>

TurnStep == \/ TurnLook \/ TurnToken \/ TurnWorking \/ TurnAhead \/ TurnOpened
            \/ TurnClaim \/ TurnWithdraws \/ TurnRefuses \/ TurnKeeps
            \/ TurnRequestStopped \/ TurnAnswered \/ TurnExecutes \/ TurnAsks
            \/ TurnInserts \/ TurnWaits \/ TurnYields \/ TurnFinishes
            \/ TurnRenews \/ TurnIdles

\* The compaction task: stopped, or decided and (perhaps) applied
CompactionEnds ==
    /\ compaction.pc = "running"
    /\ compaction' = [compaction EXCEPT !.pc = "ended"]
    /\ UNCHANGED <<cmds, others, inbox, wake, agent, pump, queues, turn, question, hist>>

Next == \/ \E m \in Msgs : DriverSends(Send(m))
        \/ \E c \in Requests : DriverSends(c)
        \/ \E p \in Peers : PeerSends(p)
        \/ PumpStep \/ TurnStep \/ QuestionTimesOut \/ CompactionEnds

\* The tasks are scheduled; a driver owes no command, a person no answer
Fairness == WF_vars(PumpStep) /\ WF_vars(TurnStep) /\ WF_vars(CompactionEnds)
Spec == Init /\ [][Next]_vars /\ Fairness

-----------------------------------------------------------------------------
(* Properties.                                                             *)

InCommands(m) == Cardinality({i \in DOMAIN cmds : cmds[i].type = "Send" /\ cmds[i].msg = m})
InInbox(m) == Cardinality({i \in DOMAIN inbox : inbox[i].id = m})
InClaim(m) == IF m \in Claim THEN 1 ELSE 0
\* Whatever a stop, a fold, a hook or the end of a turn does to a message,
\* it is in exactly one place until it is settled and in none after; the
\* driver hears of each of its messages once, when it is settled (handle.rs,
\* claimed and withdrawn); and a peer's report is never withdrawn by a stop
\* (stand_down: "A peer's report is kept").
MessagesAccounted ==
    /\ \A m \in Msgs \cup Peers :
         InCommands(m) + InInbox(m) + InClaim(m) = (IF fate[m] = "open" THEN 1 ELSE 0)
    /\ \A m \in Msgs :
         Listening => receipts[m] = (IF fate[m] \in {"unsent", "open"} THEN 0 ELSE 1)
    /\ \A p \in Peers : fate[p] # "withdrawn"

\* Once the pump has handled a Cancel for a turn it started, that turn takes
\* no further answer of the model, whether the Cancel came before the turn
\* opened, between two of its steps or during a request (interrupt_started:
\* "the stop holds for that turn even if it has not opened yet").
StopHolds == [][stopped => ~(At("request") /\ turn'.pc \in {"exec", "yield"})]_vars

\* A fold that reaches a turn after its stop does not enter the conversation
\* (drive_as: "in the conversation, never answered, never handed back").
NoFoldAfterStop ==
    [][(stopped /\ At("keep") /\ turn.step > 0) =>
         \A m \in Msgs \cup Peers : fate'[m] = "logged" => fate[m] = "logged"]_vars

\* A turn runs under a fired token only when its own stop was asked for: a
\* Cancel that lands as one turn ends is not the next one's (settle_cancel:
\* "A stop held for the turn that just ended is not the next one's").
NoStrayStop == cancelled /\ status # "Idle" => stopping \/ pump.down

\* A stop ends its turn with nobody answering, a question asked while the
\* stop was sweeping included (Asker::request: "including one that fired
\* between the sweep and this question's arrival").
StopEndsTurn == stopped ~> turn.pc \in {"none", "spawned", "done", "aborted"}

\* What was sent is settled, while the person keeps answering: a message
\* that comes after the turn's last look at the inbox, or while a compaction
\* runs, starts a turn of its own (pump, Woke::TurnDone).
MessagesSettled ==
    []<>(~At("waiting")) =>
        \A m \in Msgs : (fate[m] = "open") ~> (fate[m] # "open" \/ pump.down)

=============================================================================
