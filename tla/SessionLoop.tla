---------------------------- MODULE SessionLoop ----------------------------
(***************************************************************************)
(* The command loop of one agent session (session_loop,                    *)
(* process_send_message and drain_pending of                               *)
(* crates/atomcode-kernel/src/agent/engine.rs).                            *)
(*                                                                         *)
(* The driver writes commands into an unbounded channel.  The loop reads   *)
(* them when idle, and also while it polls the turn it is running: there   *)
(* Cancel and Shutdown stop the turn, Respond answers the request a        *)
(* middleware is parked on, SendMessage goes to the turn's steer buffer    *)
(* and everything else to the queue `pending`, which is drained after the  *)
(* turn.                                                                   *)
(*                                                                         *)
(* run_turn appears here by the points at which it can be cancelled, asks  *)
(* the driver, or takes the steer buffer.  What a round does in between is *)
(* in TurnEngine and ToolBatch; the table of pending requests is in        *)
(* RequestBroker, here at most one request of the turn is out.             *)
(***************************************************************************)
EXTENDS Naturals, Sequences, FiniteSets

CONSTANTS
    Kinds,          \* the kinds of command this driver sends
    MaxSent,        \* bound on the commands sent (answers not counted)
    MaxRounds,      \* max_rounds of a turn
    MaxCalls,       \* tool calls in one model response
    NeedsApproval   \* TRUE iff a before-middleware may ask the driver

Prompts == {"Send", "SendWithContext", "Synthetic"}
AllKinds == Prompts \cup {"Snapshot", "Compact", "Cancel", "Shutdown"}

ASSUME SessionAssumption ==
    /\ Kinds \subseteq AllKinds
    /\ MaxSent \in Nat
    /\ MaxRounds \in Nat \ {0}
    /\ MaxCalls \in Nat
    /\ NeedsApproval \in BOOLEAN

VARIABLES
    (* the driver *)
    cmds,           \* cmd_rx: commands sent and not read
    sent,           \* how many commands the driver has sent: their numbers
    closed,         \* the driver dropped its end of the channel
    (* the session loop *)
    loop,           \* "idle" | "turn" | "drain" | "ended"
    pending,        \* the FIFO of commands that arrived during a turn
    steer,          \* the turn's steer buffer
    shutdown,       \* the local of process_send_message
    (* the turn *)
    turn,           \* "none" or where run_turn is
    token,          \* turn_token is cancelled
    rounds,         \* rounds begun by this turn
    calls,          \* tool calls not classified yet
    asked,          \* the id this turn's request has in the table, 0 if none
    reqs,           \* requests issued so far
    (* history *)
    served,         \* numbers of commands carried out, in order
    dropped,        \* numbers of steer messages cleared by Cancel or Shutdown
    stops,          \* the Cancel and Shutdown commands read so far
    started,        \* turns started
    completed       \* TurnComplete events of turns that ran

driver == <<cmds, sent, closed>>
turnvars == <<turn, token, rounds, calls, asked, reqs>>
history == <<served, dropped, stops, started, completed>>
vars == <<cmds, sent, closed, loop, pending, steer, shutdown, turn, token,
          rounds, calls, asked, reqs, served, dropped, stops, started, completed>>

Command(k, n) == [kind |-> k, n |-> n]
Numbers(q) == {q[k].n : k \in DOMAIN q}
NumbersOf(q) == [k \in DOMAIN q |-> q[k].n]

Init == /\ cmds = <<>> /\ sent = 0 /\ closed = FALSE
        /\ loop = "idle" /\ pending = <<>> /\ steer = <<>> /\ shutdown = FALSE
        /\ turn = "none" /\ token = FALSE /\ rounds = 0 /\ calls = 0
        /\ asked = 0 /\ reqs = 0
        /\ served = <<>> /\ dropped = {} /\ stops = {}
        /\ started = 0 /\ completed = 0

-----------------------------------------------------------------------------
(* The driver.                                                             *)

Send(k) == /\ ~closed
           /\ sent < MaxSent
           /\ sent' = sent + 1
           /\ cmds' = Append(cmds, Command(k, sent + 1))
           /\ UNCHANGED <<closed, loop, pending, steer, shutdown, turnvars, history>>

\* the driver answers the request it was sent (once)
Answer == /\ ~closed
          /\ asked # 0
          /\ \A k \in DOMAIN cmds : cmds[k] # Command("Respond", asked)
          /\ cmds' = Append(cmds, Command("Respond", asked))
          /\ UNCHANGED <<sent, closed, loop, pending, steer, shutdown, turnvars, history>>

Close == /\ ~closed
         /\ closed' = TRUE
         /\ UNCHANGED <<cmds, sent, loop, pending, steer, shutdown, turnvars, history>>

-----------------------------------------------------------------------------
(* process_send_message up to the first poll of the turn.                  *)

\* The user_prompt_submit hook refuses the prompt: Error and a bare
\* TurnComplete(PromptRejected), no turn.  Both callers go on to drain.
Reject(c) == /\ served' = Append(served, c.n)
             /\ loop' = "drain"
             /\ UNCHANGED <<steer, shutdown, turnvars, dropped, stops, started, completed>>

\* The prompt enters history and a turn starts with its own token and buffer.
Begin(c) == /\ served' = Append(served, c.n)
            /\ loop' = "turn"
            /\ turn' = "round" /\ token' = FALSE /\ rounds' = 0 /\ calls' = 0
            /\ steer' = <<>> /\ shutdown' = FALSE
            /\ started' = started + 1
            /\ UNCHANGED <<asked, reqs, dropped, stops, completed>>

Submit(c) == Reject(c) \/ Begin(c)

\* Snapshot replies, Compact runs the strategy: done when it returns.
Carry(c) == /\ served' = Append(served, c.n)
            /\ UNCHANGED <<loop, steer, shutdown, turnvars, dropped, stops, started, completed>>

-----------------------------------------------------------------------------
(* session_loop, no turn running.                                          *)

ReadIdle ==
    /\ loop = "idle"
    /\ cmds # <<>>
    /\ cmds' = Tail(cmds)
    /\ UNCHANGED <<sent, closed, pending>>
    /\ LET c == Head(cmds) IN
       \/ /\ c.kind = "Shutdown"
          /\ loop' = "ended"
          /\ stops' = stops \cup {c}
          /\ UNCHANGED <<steer, shutdown, turnvars, served, dropped, started, completed>>
       \/ /\ c.kind = "Cancel"
          /\ asked' = 0
          /\ stops' = stops \cup {c}
          /\ UNCHANGED <<loop, steer, shutdown, turn, token, rounds, calls, reqs,
                         served, dropped, started, completed>>
       \/ /\ c.kind = "Respond"
          /\ asked' = IF asked = c.n THEN 0 ELSE asked
          /\ UNCHANGED <<loop, steer, shutdown, turn, token, rounds, calls, reqs, history>>
       \/ /\ c.kind \in {"Snapshot", "Compact"}
          /\ Carry(c)
       \/ /\ c.kind \in Prompts
          /\ Submit(c)

\* recv() returned None
ReadClosed == /\ loop = "idle"
              /\ closed /\ cmds = <<>>
              /\ loop' = "ended"
              /\ UNCHANGED <<driver, pending, steer, shutdown, turnvars, history>>

\* drain_pending
Drain == /\ loop = "drain"
         /\ pending # <<>>
         /\ pending' = Tail(pending)
         /\ UNCHANGED driver
         /\ \/ Head(pending).kind \in {"Snapshot", "Compact"} /\ Carry(Head(pending))
            \/ Head(pending).kind \in Prompts /\ Submit(Head(pending))

Drained == /\ loop = "drain"
           /\ pending = <<>>
           /\ loop' = "idle"
           /\ UNCHANGED <<driver, pending, steer, shutdown, turnvars, history>>

-----------------------------------------------------------------------------
(* process_send_message while the turn runs: the select! loop.             *)

\* mutant: a Snapshot that arrives during a turn is not queued
QueueNoSnapshot(c) == /\ pending' = IF c.kind = "Snapshot" THEN pending
                                                        ELSE Append(pending, c)
                      /\ UNCHANGED <<steer, shutdown, turnvars, dropped, stops>>

\* everything that must wait for the end of the turn
Queue(c) == /\ pending' = Append(pending, c)
            /\ UNCHANGED <<steer, shutdown, turnvars, dropped, stops>>

\* turn_token.cancel(), cancel_pending(), steer.clear()
StopTurn(c) == /\ token' = TRUE
               /\ asked' = 0
               /\ dropped' = dropped \cup Numbers(steer)
               /\ steer' = <<>>
               /\ stops' = stops \cup {c}
               /\ UNCHANGED <<pending, turn, rounds, calls, reqs>>

\* mutant: Shutdown during a turn only cancels the turn
ReadShutdownAsCancel(c) == c.kind = "Shutdown" /\ shutdown' = shutdown /\ StopTurn(c)

ReadShutdown(c) == c.kind = "Shutdown" /\ shutdown' = TRUE /\ StopTurn(c)

ReadMidTurn ==
    /\ loop = "turn"
    /\ turn # "none"
    /\ cmds # <<>>
    /\ cmds' = Tail(cmds)
    /\ LET c == Head(cmds) IN
       \/ ReadShutdown(c)
       \/ c.kind = "Cancel" /\ UNCHANGED shutdown /\ StopTurn(c)
       \/ /\ c.kind = "Respond"
          /\ asked' = IF asked = c.n THEN 0 ELSE asked
          /\ UNCHANGED <<pending, steer, shutdown, turn, token, rounds, calls, reqs,
                         dropped, stops>>
       \/ /\ c.kind \in {"Snapshot", "Compact", "Synthetic", "SendWithContext"}
          /\ Queue(c)
       \/ /\ c.kind = "Send"
          /\ steer' = Append(steer, c)
          /\ UNCHANGED <<pending, shutdown, turnvars, dropped, stops>>
    /\ UNCHANGED <<sent, closed, loop, served, started, completed>>

\* mutant: what is left in the steer buffer dies with the turn
LeaveTurnForgets == /\ pending' = pending
                    /\ steer' = <<>>
                    /\ loop' = IF shutdown' THEN "ended" ELSE "drain"

\* After the turn: late steer messages fall back to the queue; a shutdown
\* emits the final Snapshot and tells the callers to stop without draining.
LeaveTurn == /\ pending' = pending \o steer
             /\ steer' = <<>>
             /\ loop' = IF shutdown' THEN "ended" ELSE "drain"

\* recv() returned None during a turn: the turn's future is dropped
CloseMidTurn == /\ loop = "turn"
                /\ turn # "none"
                /\ closed /\ cmds = <<>>
                /\ shutdown' = TRUE
                /\ turn' = "none"
                /\ LeaveTurn
                /\ UNCHANGED <<driver, token, rounds, calls, asked, reqs, history>>

-----------------------------------------------------------------------------
(* run_turn, by its await points.                                          *)

Step(from, to) == turn = from /\ turn' = to

\* top of a round: the cap, then the steer buffer is folded into the turn
RoundStart ==
    /\ turn = "round"
    /\ IF rounds = MaxRounds
       THEN /\ turn' = "finish"
            /\ UNCHANGED <<rounds, steer, served>>
       ELSE /\ turn' = "stream"
            /\ rounds' = rounds + 1
            /\ served' = served \o NumbersOf(steer)
            /\ steer' = <<>>
    /\ UNCHANGED <<driver, loop, pending, shutdown, token, calls, asked, reqs,
                   dropped, stops, started, completed>>

\* mutant: a cancelled stream returns without the terminal funnel
StreamCancelledBare == /\ token /\ Step("stream", "none")
                       /\ UNCHANGED <<driver, loop, pending, steer, shutdown, token,
                                      rounds, calls, asked, reqs, history>>

\* opening and streaming: a biased select takes the cancel token first
StreamCancelled == /\ token /\ Step("stream", "finish")
                   /\ UNCHANGED <<driver, loop, pending, steer, shutdown, token,
                                  rounds, calls, asked, reqs, history>>
StreamFails == /\ ~token /\ Step("stream", "finish")
               /\ UNCHANGED <<driver, loop, pending, steer, shutdown, token,
                              rounds, calls, asked, reqs, history>>
StreamDone == /\ ~token /\ Step("stream", "respond")
              /\ \E k \in 0..MaxCalls : calls' = k
              /\ UNCHANGED <<driver, loop, pending, steer, shutdown, token,
                             rounds, asked, reqs, history>>

\* a response without tool calls: go on if a steer message came, else stop
RespondNoCalls == /\ calls = 0
                  /\ Step("respond", IF steer # <<>> THEN "round" ELSE "finish")
                  /\ UNCHANGED <<driver, loop, pending, steer, shutdown, token,
                                 rounds, calls, asked, reqs, history>>

\* an internal continuation: a truncated answer is resumed, or a hook offers
\* another round
RespondContinues == /\ calls = 0 /\ steer = <<>>
                    /\ Step("respond", "round")
                    /\ UNCHANGED <<driver, loop, pending, steer, shutdown, token,
                                   rounds, calls, asked, reqs, history>>

\* the one cancel check before the classification of a batch
RespondCalls == /\ calls > 0
                /\ Step("respond", IF token THEN "finish" ELSE "classify")
                /\ UNCHANGED <<driver, loop, pending, steer, shutdown, token,
                               rounds, calls, asked, reqs, history>>

\* the before-middlewares decide on the next call without asking
Classify == /\ Step("classify", IF calls = 1 THEN "execute" ELSE "classify")
            /\ calls' = calls - 1
            /\ UNCHANGED <<driver, loop, pending, steer, shutdown, token, rounds,
                           asked, reqs, history>>

\* a before-middleware asks the driver and parks the turn
ClassifyAsk == /\ NeedsApproval
               /\ Step("classify", "parked")
               /\ reqs' = reqs + 1
               /\ asked' = reqs + 1
               /\ UNCHANGED <<driver, loop, pending, steer, shutdown, token,
                              rounds, calls, history>>

\* the answer came, or Null from cancel_pending
Unpark == /\ asked = 0
          /\ Step("parked", IF calls = 1 THEN "execute" ELSE "classify")
          /\ calls' = calls - 1
          /\ UNCHANGED <<driver, loop, pending, steer, shutdown, token, rounds,
                         asked, reqs, history>>

\* the batch ran: cancelled, stopped by policy or a loop guard, or next round
ExecuteCancelled == /\ token /\ Step("execute", "finish")
                    /\ UNCHANGED <<driver, loop, pending, steer, shutdown, token,
                                   rounds, calls, asked, reqs, history>>
ExecuteStops == /\ ~token /\ Step("execute", "finish")
                /\ UNCHANGED <<driver, loop, pending, steer, shutdown, token,
                               rounds, calls, asked, reqs, history>>
ExecuteDone == /\ ~token /\ Step("execute", "round")
               /\ UNCHANGED <<driver, loop, pending, steer, shutdown, token,
                              rounds, calls, asked, reqs, history>>

\* finish_turn: turn_complete hook, TurnComplete event, run_turn returns and
\* the select! loop breaks
Finish == /\ turn = "finish"
          /\ turn' = "none"
          /\ completed' = completed + 1
          /\ shutdown' = shutdown
          /\ LeaveTurn
          /\ UNCHANGED <<driver, token, rounds, calls, asked, reqs, served,
                         dropped, stops, started>>

TurnStep == \/ RoundStart \/ StreamCancelled \/ StreamFails \/ StreamDone
            \/ RespondNoCalls \/ RespondContinues \/ RespondCalls
            \/ Classify \/ ClassifyAsk
            \/ Unpark \/ ExecuteCancelled \/ ExecuteStops \/ ExecuteDone \/ Finish

Engine == ReadIdle \/ ReadClosed \/ Drain \/ Drained \/ ReadMidTurn \/ CloseMidTurn
            \/ TurnStep

Next == \/ \E k \in Kinds : Send(k)
        \/ Answer
        \/ Close
        \/ Engine

(* The executor keeps polling the session task: the loop reads its channel *)
(* (select! is not biased) and a turn that is not parked advances.         *)
Fairness == /\ WF_vars(ReadIdle \/ ReadClosed \/ Drain \/ Drained)
            /\ WF_vars(ReadMidTurn \/ CloseMidTurn)
            /\ WF_vars(TurnStep)

Spec == Init /\ [][Next]_vars /\ Fairness

(* The same, for a driver that answers every request it is asked.          *)
AnsweringSpec == Spec /\ WF_vars(Answer)

-----------------------------------------------------------------------------
(* Properties.                                                             *)

TurnStates == {"none", "round", "stream", "respond", "classify", "parked",
               "execute", "finish"}

\* The type of the session loop's state.
TypeOK ==
    /\ cmds \in Seq([kind : AllKinds \cup {"Respond"}, n : Nat])
    /\ sent \in 0..MaxSent
    /\ closed \in BOOLEAN /\ shutdown \in BOOLEAN /\ token \in BOOLEAN
    /\ loop \in {"idle", "turn", "drain", "ended"}
    /\ pending \in Seq([kind : AllKinds, n : 1..MaxSent])
    /\ steer \in Seq([kind : {"Send"}, n : 1..MaxSent])
    /\ turn \in TurnStates
    /\ rounds \in 0..MaxRounds
    /\ calls \in 0..MaxCalls
    /\ asked \in Nat /\ reqs \in Nat
    /\ served \in Seq(1..MaxSent)
    /\ dropped \subseteq 1..MaxSent
    /\ stops \subseteq [kind : {"Cancel", "Shutdown"}, n : 1..MaxSent]
    /\ started \in Nat /\ completed \in Nat

Occurrences(q, n) == Cardinality({k \in DOMAIN q : q[k].kind # "Respond" /\ q[k].n = n})
Here(b) == IF b THEN 1 ELSE 0

\* Nothing is lost or done twice: every command the driver sent is in exactly
\* one place (still in the channel, queued, in the steer buffer, carried out,
\* a stop that was read, or cleared from the steer buffer), and only a Cancel
\* or Shutdown sent after a message can clear it.
NothingLost ==
    /\ \A n \in 1..sent :
         Occurrences(cmds, n) + Occurrences(pending, n) + Occurrences(steer, n)
           + Cardinality({k \in DOMAIN served : served[k] = n})
           + Here(n \in dropped) + Here(\E c \in stops : c.n = n) = 1
    /\ \A n \in dropped : \E c \in stops : c.n > n

\* One terminal per turn: turns run one at a time, each emits one TurnComplete,
\* and the only turn without one is a turn dropped because the driver hung up.
OneTerminalPerTurn ==
    /\ (loop = "turn") <=> (turn # "none")
    /\ \/ started = completed + Here(turn # "none")
       \/ closed /\ loop = "ended" /\ started = completed + 1

\* Every command is dealt with: a driver that answers what it is asked sees each
\* Snapshot, Compact and prompt carried out or cleared, unless the session ends.
EveryCommandServed ==
    \A n \in 1..MaxSent :
        (\E k \in DOMAIN cmds : cmds[k].kind \notin {"Respond", "Cancel", "Shutdown"}
                                  /\ cmds[k].n = n)
            ~> (loop = "ended" \/ n \in dropped \/ \E k \in DOMAIN served : served[k] = n)

\* Shutdown ends the session, also from the middle of a turn.
ShutdownEnds == (\E k \in DOMAIN cmds : cmds[k].kind = "Shutdown") ~> loop = "ended"

=============================================================================
