--------------------------- MODULE BackgroundJobs ---------------------------
(***************************************************************************)
(* bash_start / bash_poll / bash_kill                                      *)
(* (crates/atomcode-capabilities/src/tools/bash/background.rs) and the     *)
(* runtime's observation of completions                                    *)
(* (crates/atomcode-coding/src/background_jobs.rs).                        *)
(*                                                                         *)
(* Each job has a reader task, which owns the process and answers kills,   *)
(* and a pump task, which appends what the process writes.  Both run       *)
(* beside the tool calls that start, poll and kill jobs, from several      *)
(* agents at once.  The global store of jobs is one mutex, held from the   *)
(* first to the last step of a poll; output, status and left_running are   *)
(* read and written one by one, under locks of their own.                  *)
(***************************************************************************)
EXTENDS Naturals, FiniteSets

CONSTANTS
    Jobs,           \* the ids bash_start hands out, one per call
    Pollers,        \* agents that call bash_poll
    Watchers,       \* runtimes that observe completions
    None,           \* nobody holds the store's lock
    MaxJobs,        \* MAX_BACKGROUND_JOBS
    MaxChunks,      \* bound: chunks a job ever writes
    MaxKills        \* bound: bash_kill calls per job

ASSUME JobsAssumption ==
    /\ MaxJobs \in Nat \ {0}
    /\ {MaxChunks, MaxKills} \subseteq Nat
    /\ None \notin Pollers
    /\ Pollers \cap Watchers = {}

Callers == Pollers \cup Watchers

VARIABLES
    \* the store and the calls to start()
    start,          \* job -> where its start() call is
    store,          \* STORE: the jobs registered
    lock,           \* the poll that holds the store, or None
    \* Shared and Job
    status,         \* Status
    leftRunning,    \* left_running
    finished,       \* finished
    total,          \* Buf::total, in chunks; the bounded tail is left out
    delivered,      \* Job::delivered
    kills,          \* messages in the kill channel
    \* the tasks and the process
    reader,         \* where reader_task is
    killed,         \* its local flag
    pump,           \* the pump task: "on", "aborting" or "off"
    tree,           \* what keeps the output pipe open
    \* who waits on Shared::changed
    call,           \* caller -> its bash_poll call, or completion future
    woken,          \* enabled waiters notified since they were enabled
    \* history
    aborted         \* jobs whose pump was aborted

shared == <<status, leftRunning, finished>>
output == <<total, delivered>>
tasks == <<reader, killed, pump, aborted>>
vars == <<start, store, lock, shared, output, kills, tasks, tree, call, woken>>

Statuses == {"Running", "Exited", "Killed"}
Trees == {"none", "shell", "left", "escaped", "gone"}
Readers == {"none", "wait", "grace", "flag", "report", "left", "killgrace",
            "close", "clear", "finish", "notify", "done"}

\* a bash_poll call that waits, one that polls, and a completion future
Idle == [pc |-> "idle"]
WaitCalls == [pc : {"read", "decide", "parked"}, job : Jobs,
              until : {"exit", "output"}, base : 0..MaxChunks,
              status0 : Statuses, left0 : BOOLEAN,
              out : BOOLEAN, status : Statuses]
PollCalls == [pc : {"poll", "status", "reap"}, job : Jobs, status : Statuses]
ObserveCalls == [pc : {"enable", "check", "asleep", "told"}, job : Jobs, report : Statuses]

\* Every variable has its type.
TypeOK == /\ start \in [Jobs -> {"idle", "spawning", "inserting", "started", "refused"}]
          /\ store \subseteq Jobs
          /\ lock \in Pollers \cup {None}
          /\ status \in [Jobs -> Statuses]
          /\ leftRunning \in [Jobs -> BOOLEAN]
          /\ finished \in [Jobs -> BOOLEAN]
          /\ total \in [Jobs -> 0..MaxChunks]
          /\ delivered \in [Jobs -> 0..MaxChunks]
          /\ kills \in [Jobs -> 0..MaxKills]
          /\ reader \in [Jobs -> Readers]
          /\ killed \in [Jobs -> BOOLEAN]
          /\ pump \in [Jobs -> {"off", "on", "aborting"}]
          /\ tree \in [Jobs -> Trees]
          /\ call \in [Callers -> {Idle} \cup WaitCalls \cup PollCalls \cup ObserveCalls]
          /\ \A c \in Pollers : call[c] \notin ObserveCalls
          /\ \A c \in Watchers : call[c] \in {Idle} \cup ObserveCalls
          /\ woken \subseteq Callers
          /\ aborted \subseteq Jobs

Init == /\ start = [j \in Jobs |-> "idle"]
        /\ store = {}
        /\ lock = None
        /\ status = [j \in Jobs |-> "Running"]
        /\ leftRunning = [j \in Jobs |-> FALSE]
        /\ finished = [j \in Jobs |-> FALSE]
        /\ total = [j \in Jobs |-> 0]
        /\ delivered = [j \in Jobs |-> 0]
        /\ kills = [j \in Jobs |-> 0]
        /\ reader = [j \in Jobs |-> "none"]
        /\ killed = [j \in Jobs |-> FALSE]
        /\ pump = [j \in Jobs |-> "off"]
        /\ tree = [j \in Jobs |-> "none"]
        /\ call = [c \in Callers |-> Idle]
        /\ woken = {}
        /\ aborted = {}

\* mutant: a future counts only once it is awaited, after the state was read
EnabledLate(j) ==
    {c \in Callers : /\ call[c].pc \in {"parked", "asleep"}
                     /\ call[c].job = j}

\* changed.notify_waiters(): wakes whoever has enabled its Notified future
Enabled(j) ==
    {c \in Callers : /\ call[c].pc \in {"read", "decide", "parked", "check", "asleep"}
                     /\ call[c].job = j}
NotifyWaiters(j) == woken' = woken \cup Enabled(j)

-----------------------------------------------------------------------------
(* start(): the limit is read under the lock, the spawn is awaited without *)
(* it, and the entry is inserted after the reader was spawned.             *)

\* others: the entries of jobs that are not followed here
StartCheck(j, others) ==
    /\ start[j] = "idle"
    /\ lock = None
    /\ start' = [start EXCEPT ![j] = IF Cardinality(store) + others >= MaxJobs
                                     THEN "refused" ELSE "spawning"]
    /\ UNCHANGED <<store, lock, shared, output, kills, tasks, tree, call, woken>>

\* world.spawn failed: nothing was registered
SpawnFails(j) ==
    /\ start[j] = "spawning"
    /\ start' = [start EXCEPT ![j] = "refused"]
    /\ UNCHANGED <<store, lock, shared, output, kills, tasks, tree, call, woken>>

Spawned(j) ==
    /\ start[j] = "spawning"
    /\ start' = [start EXCEPT ![j] = "inserting"]
    /\ reader' = [reader EXCEPT ![j] = "wait"]
    /\ pump' = [pump EXCEPT ![j] = "on"]
    /\ tree' = [tree EXCEPT ![j] = "shell"]
    /\ UNCHANGED <<store, lock, shared, output, kills, killed, aborted, call, woken>>

StartInsert(j) ==
    /\ start[j] = "inserting"
    /\ lock = None
    /\ store' = store \cup {j}
    /\ start' = [start EXCEPT ![j] = "started"]
    /\ UNCHANGED <<lock, shared, output, kills, tasks, tree, call, woken>>

-----------------------------------------------------------------------------
(* The world: the shell exits by itself, leaving behind nothing, a process *)
(* of its tree that holds the pipe, or one that left the tree; what was    *)
(* left ends in its own time, or never.                                    *)

ShellExits(j) ==
    /\ tree[j] = "shell"
    /\ \E t \in {"left", "escaped", "gone"} : tree' = [tree EXCEPT ![j] = t]
    /\ UNCHANGED <<start, store, lock, shared, output, kills, tasks, call, woken>>

HolderEnds(j) ==
    /\ tree[j] \in {"left", "escaped"}
    /\ tree' = [tree EXCEPT ![j] = "gone"]
    /\ UNCHANGED <<start, store, lock, shared, output, kills, tasks, call, woken>>

\* process.kill().await takes the whole tree down; a holder may have escaped
KillTree(j) ==
    \E t \in {"escaped", "gone"} :
        tree' = [tree EXCEPT ![j] = IF @ \in {"shell", "left"} THEN t ELSE @]

\* pump: one chunk read from an open pipe; an aborted pump may still be
\* between two awaits and append the chunk it has
PumpAppends(j) ==
    /\ \/ pump[j] = "on" /\ tree[j] # "gone"
       \/ pump[j] = "aborting"
    /\ total[j] < MaxChunks
    /\ total' = [total EXCEPT ![j] = @ + 1]
    /\ pump' = [pump EXCEPT ![j] = IF @ = "aborting" THEN "off" ELSE @]
    /\ NotifyWaiters(j)
    /\ UNCHANGED <<start, store, lock, shared, delivered, kills,
                   reader, killed, aborted, tree, call>>

\* next_chunk returned None, or the abort took effect
PumpEnds(j) ==
    /\ \/ pump[j] = "on" /\ tree[j] = "gone"
       \/ pump[j] = "aborting"
    /\ pump' = [pump EXCEPT ![j] = "off"]
    /\ UNCHANGED <<start, store, lock, shared, output, kills, reader, killed,
                   aborted, tree, call, woken>>

-----------------------------------------------------------------------------
(* reader_task                                                             *)

Go(j, pc) == reader' = [reader EXCEPT ![j] = pc]

\* first loop, biased: a kill is taken before the exit is looked at
ReaderTakesKill(j) ==
    /\ reader[j] = "wait"
    /\ kills[j] > 0
    /\ ~killed[j]
    /\ kills' = [kills EXCEPT ![j] = @ - 1]
    /\ killed' = [killed EXCEPT ![j] = TRUE]
    /\ KillTree(j)
    /\ UNCHANGED <<start, store, lock, shared, output, reader, pump, aborted,
                   call, woken>>

ReaderSeesExit(j) ==
    /\ reader[j] = "wait"
    /\ killed[j] \/ kills[j] = 0
    /\ tree[j] # "shell"
    /\ Go(j, "grace")
    /\ UNCHANGED <<start, store, lock, shared, output, kills, killed, pump,
                   aborted, tree, call, woken>>

\* the pump ended, within a grace or while something was left running
ReaderJoinsPump(j) ==
    /\ reader[j] \in {"grace", "left", "killgrace"}
    /\ pump[j] = "off"
    /\ Go(j, "close")
    /\ UNCHANGED <<start, store, lock, shared, output, kills, killed, pump,
                   aborted, tree, call, woken>>

\* POST_EXIT_DRAIN_GRACE elapsed with the pipe open: after a kill the pump
\* is aborted, otherwise the job has left something running
GraceElapses(j) ==
    /\ reader[j] \in {"grace", "killgrace"}
    /\ pump[j] = "on"
    /\ IF killed[j]
       THEN /\ pump' = [pump EXCEPT ![j] = "aborting"]
            /\ aborted' = aborted \cup {j}
            /\ Go(j, "close")
       ELSE /\ Go(j, "flag")
            /\ UNCHANGED <<pump, aborted>>
    /\ UNCHANGED <<start, store, lock, shared, output, kills, killed, tree,
                   call, woken>>

\* mutant: the exit is published before what it left is announced
ReaderFlagsReversed(j) ==
    \/ /\ reader[j] = "flag"
       /\ status' = [status EXCEPT ![j] = "Exited"]
       /\ Go(j, "report")
       /\ NotifyWaiters(j)
       /\ UNCHANGED <<start, store, lock, leftRunning, finished, output, kills,
                      killed, pump, aborted, tree, call>>
    \/ /\ reader[j] = "report"
       /\ leftRunning' = [leftRunning EXCEPT ![j] = TRUE]
       /\ Go(j, "left")
       /\ UNCHANGED <<start, store, lock, status, finished, output, kills,
                      killed, pump, aborted, tree, call, woken>>

\* left_running.store(true), then set_status(Exited)
ReaderFlags(j) ==
    \/ /\ reader[j] = "flag"
       /\ leftRunning' = [leftRunning EXCEPT ![j] = TRUE]
       /\ Go(j, "report")
       /\ UNCHANGED <<start, store, lock, status, finished, output, kills,
                      killed, pump, aborted, tree, call, woken>>
    \/ /\ reader[j] = "report"
       /\ status' = [status EXCEPT ![j] = "Exited"]
       /\ Go(j, "left")
       /\ NotifyWaiters(j)
       /\ UNCHANGED <<start, store, lock, leftRunning, finished, output, kills,
                      killed, pump, aborted, tree, call>>

\* mutant: a kill that comes after the exit is left in the channel
LeftIgnoresKill(j) == FALSE /\ UNCHANGED vars

\* second select: a kill reaches what the shell left running
LeftTakesKill(j) ==
    /\ reader[j] = "left"
    /\ kills[j] > 0
    /\ kills' = [kills EXCEPT ![j] = @ - 1]
    /\ killed' = [killed EXCEPT ![j] = TRUE]
    /\ KillTree(j)
    /\ Go(j, "killgrace")
    /\ UNCHANGED <<start, store, lock, shared, output, pump, aborted, call, woken>>

\* mutant: the job is marked finished before its last status is set
ReaderClosesEarly(j) ==
    \/ /\ reader[j] = "close"
       /\ finished' = [finished EXCEPT ![j] = TRUE]
       /\ Go(j, "clear")
       /\ NotifyWaiters(j)
       /\ UNCHANGED <<start, store, lock, status, leftRunning, output, kills,
                      killed, pump, aborted, tree, call>>
    \/ /\ reader[j] = "clear"
       /\ status' = [status EXCEPT ![j] = IF killed[j] THEN "Killed" ELSE "Exited"]
       /\ leftRunning' = [leftRunning EXCEPT ![j] = FALSE]
       /\ Go(j, "done")
       /\ NotifyWaiters(j)
       /\ UNCHANGED <<start, store, lock, finished, output, kills, killed,
                      pump, aborted, tree, call>>

\* set_status, left_running.store(false), finished.store(true), and the last
\* notification; then the receiving end of the kill channel is dropped
ReaderCloses(j) ==
    \/ /\ reader[j] = "close"
       /\ status' = [status EXCEPT ![j] = IF killed[j] THEN "Killed" ELSE "Exited"]
       /\ Go(j, "clear")
       /\ NotifyWaiters(j)
       /\ UNCHANGED <<start, store, lock, leftRunning, finished, output, kills,
                      killed, pump, aborted, tree, call>>
    \/ /\ reader[j] = "clear"
       /\ leftRunning' = [leftRunning EXCEPT ![j] = FALSE]
       /\ Go(j, "finish")
       /\ UNCHANGED <<start, store, lock, status, finished, output, kills,
                      killed, pump, aborted, tree, call, woken>>
    \/ /\ reader[j] = "finish"
       /\ finished' = [finished EXCEPT ![j] = TRUE]
       /\ Go(j, "notify")
       /\ UNCHANGED <<start, store, lock, status, leftRunning, output, kills,
                      killed, pump, aborted, tree, call, woken>>
    \/ /\ reader[j] = "notify"
       /\ Go(j, "done")
       /\ NotifyWaiters(j)
       /\ UNCHANGED <<start, store, lock, shared, output, kills, killed, pump,
                      aborted, tree, call>>

ReaderStep(j) == \/ ReaderTakesKill(j) \/ ReaderSeesExit(j) \/ ReaderJoinsPump(j)
                 \/ GraceElapses(j) \/ ReaderFlags(j) \/ LeftTakesKill(j)
                 \/ ReaderCloses(j)

-----------------------------------------------------------------------------
(* bash_poll: wait_for_poll, then poll.                                    *)

Poll(j, pc, st) == [pc |-> pc, job |-> j, status |-> st]

\* wait_for_poll: the job is looked up under the store's lock; then come
\* initial_status, initial_left_running and the first enable()
PollBegins(c, j, u) ==
    /\ call[c] = Idle
    /\ lock = None
    /\ j \in store
    /\ call' = [call EXCEPT ![c] =
           [pc |-> "read", job |-> j, until |-> u, base |-> delivered[j],
            status0 |-> status[j], left0 |-> leftRunning[j],
            out |-> FALSE, status |-> "Running"]]
    /\ UNCHANGED <<start, store, lock, shared, output, kills, tasks, tree, woken>>

\* has_output and status are read, then left_running
WaitReads(c) ==
    /\ call[c].pc = "read"
    /\ LET j == call[c].job IN
       call' = [call EXCEPT ![c].pc = "decide", ![c].out = total[j] > call[c].base,
                            ![c].status = status[j]]
    /\ UNCHANGED <<start, store, lock, shared, output, kills, tasks, tree, woken>>

\* the condition that ends the wait, on the values read
WaitIsOver(w, left) == \/ w.out /\ w.until = "output"
                       \/ w.status # "Running" /\ ~left
                       \/ w.status # w.status0
                       \/ left # w.left0

WaitDecides(c) ==
    /\ call[c].pc = "decide"
    /\ LET j == call[c].job IN
       call' = [call EXCEPT ![c] =
                  IF WaitIsOver(@, leftRunning[j]) THEN Poll(j, "poll", "Running")
                  ELSE [@ EXCEPT !.pc = "parked", !.out = FALSE, !.status = "Running"]]
    /\ woken' = IF call'[c].pc = "parked" THEN woken ELSE woken \ {c}
    /\ UNCHANGED <<start, store, lock, shared, output, kills, tasks, tree>>

\* changed: back to the top of the loop, where a fresh future is enabled
WaitWakes(c) ==
    /\ call[c].pc = "parked"
    /\ c \in woken
    /\ call' = [call EXCEPT ![c].pc = "read"]
    /\ woken' = woken \ {c}
    /\ UNCHANGED <<start, store, lock, shared, output, kills, tasks, tree>>

\* the turn was cancelled: an error, and the job is left alone
WaitCancelled(c) ==
    /\ call[c].pc \in {"read", "parked"}
    /\ call' = [call EXCEPT ![c] = Idle]
    /\ woken' = woken \ {c}
    /\ UNCHANGED <<start, store, lock, shared, output, kills, tasks, tree>>

\* the deadline passed while parked
WaitExpires(c) ==
    /\ call[c].pc = "parked"
    /\ call' = [call EXCEPT ![c] = Poll(call[c].job, "poll", "Running")]
    /\ woken' = woken \ {c}
    /\ UNCHANGED <<start, store, lock, shared, output, kills, tasks, tree>>

\* Buf::since(delivered): everything appended so far is handed out
Since(j) == /\ delivered' = [delivered EXCEPT ![j] = total[j]]
            /\ UNCHANGED total

\* poll takes the store's lock and the output
PollOutput(c) ==
    /\ call[c].pc = "poll"
    /\ lock = None
    /\ LET j == call[c].job IN
       IF j \in store
       THEN /\ Since(j)
            /\ lock' = c
            /\ call' = [call EXCEPT ![c] = Poll(j, "status", "Running")]
       ELSE /\ call' = [call EXCEPT ![c] = Idle]
            /\ UNCHANGED <<lock, output>>
    /\ UNCHANGED <<start, store, shared, kills, tasks, tree, woken>>

\* ... then the status
PollStatus(c) ==
    /\ call[c].pc = "status"
    /\ LET j == call[c].job IN
       call' = [call EXCEPT ![c] = Poll(j, "reap", status[j])]
    /\ UNCHANGED <<start, store, lock, shared, output, kills, tasks, tree, woken>>

\* ... then left_running: a job that ended with nothing left is dropped
PollReaps(c) ==
    /\ call[c].pc = "reap"
    /\ LET j == call[c].job IN
       store' = IF call[c].status # "Running" /\ ~leftRunning[j]
                THEN store \ {j} ELSE store
    /\ lock' = None
    /\ call' = [call EXCEPT ![c] = Idle]
    /\ UNCHANGED <<start, shared, output, kills, tasks, tree, woken>>

\* bash_kill: a message while the reader still holds the receiving end
Kill(j) ==
    /\ lock = None
    /\ j \in store
    /\ reader[j] # "done"
    /\ kills[j] < MaxKills
    /\ kills' = [kills EXCEPT ![j] = @ + 1]
    /\ UNCHANGED <<start, store, lock, shared, output, tasks, tree, call, woken>>

-----------------------------------------------------------------------------
(* The runtime's observation of a job: BackgroundJobs::result subscribes,  *)
(* next() awaits the future, a new generation drops it.                    *)

Observe(j, pc, r) == [pc |-> pc, job |-> j, report |-> r]

Subscribe(c, j) ==
    /\ call[c] = Idle
    /\ lock = None
    /\ j \in store
    /\ call' = [call EXCEPT ![c] = Observe(j, "enable", "Running")]
    /\ UNCHANGED <<start, store, lock, shared, output, kills, tasks, tree, woken>>

ObserverEnables(c) ==
    /\ call[c].pc = "enable"
    /\ call' = [call EXCEPT ![c].pc = "check"]
    /\ woken' = woken \ {c}
    /\ UNCHANGED <<start, store, lock, shared, output, kills, tasks, tree>>

\* finished is read, then the status it made final
ObserverChecks(c) ==
    /\ call[c].pc = "check"
    /\ LET j == call[c].job IN
       IF finished[j] THEN /\ call' = [call EXCEPT ![c] = Observe(j, "told", status[j])]
                           /\ woken' = woken \ {c}
                      ELSE /\ call' = [call EXCEPT ![c].pc = "asleep"]
                           /\ UNCHANGED woken
    /\ UNCHANGED <<start, store, lock, shared, output, kills, tasks, tree>>

ObserverWakes(c) ==
    /\ call[c].pc = "asleep"
    /\ c \in woken
    /\ call' = [call EXCEPT ![c].pc = "enable"]
    /\ UNCHANGED <<start, store, lock, shared, output, kills, tasks, tree, woken>>

\* reset(generation): the outstanding waits are dropped, the jobs are not
ObserverReset(c) ==
    /\ call[c].pc \in {"enable", "check", "asleep"}
    /\ call' = [call EXCEPT ![c] = Idle]
    /\ woken' = woken \ {c}
    /\ UNCHANGED <<start, store, lock, shared, output, kills, tasks, tree>>

-----------------------------------------------------------------------------
StartStep(j) == \/ \E others \in 0..MaxJobs : StartCheck(j, others)
                \/ SpawnFails(j) \/ Spawned(j) \/ StartInsert(j)
CallStep(c) == \/ WaitReads(c) \/ WaitDecides(c) \/ WaitWakes(c)
               \/ PollOutput(c) \/ PollStatus(c) \/ PollReaps(c)
ObserverStep(c) == ObserverEnables(c) \/ ObserverChecks(c) \/ ObserverWakes(c)

Next == \/ \E j \in Jobs : \/ StartStep(j) \/ ShellExits(j) \/ HolderEnds(j)
                           \/ PumpAppends(j) \/ PumpEnds(j) \/ ReaderStep(j)
                           \/ Kill(j)
        \/ \E c \in Pollers : \/ CallStep(c) \/ WaitCancelled(c) \/ WaitExpires(c)
                              \/ \E j \in Jobs, u \in {"exit", "output"} :
                                    PollBegins(c, j, u)
        \/ \E c \in Watchers : \/ ObserverStep(c) \/ ObserverReset(c)
                               \/ \E j \in Jobs : Subscribe(c, j)

(* The tasks run and the drain grace is a timer.  Nothing says that a      *)
(* process ever writes, exits or closes its output, that anybody polls or  *)
(* kills, or that a spawn returns.                                         *)
Fairness == \A j \in Jobs : WF_vars(ReaderStep(j))

Spec == Init /\ [][Next]_vars /\ Fairness

-----------------------------------------------------------------------------
\* A wait never sleeps through the change it waits for: whoever is parked
\* while its condition holds has been notified, or the reader is about to
\* (wait_for_poll and observe_completion enable before they look).
NoMissedWakeup ==
    /\ \A c \in Pollers :
          LET w == call[c] IN
          (/\ w.pc = "parked"
           /\ reader[w.job] \notin {"report", "finish", "notify"}
           /\ WaitIsOver([w EXCEPT !.out = total[w.job] > w.base, !.status = status[w.job]],
                         leftRunning[w.job]))
             => c \in woken
    /\ \A c \in Watchers :
          (call[c].pc = "asleep" /\ reader[call[c].job] = "done") => c \in woken

\* As long as the tree of a started job holds its output open, the job is in
\* the store, where bash_kill reaches it: no poll drops what the shell left
\* running ("The job stays in the store ... until it is gone").
LeftStaysKillable ==
    \A j \in Jobs : (start[j] = "started" /\ tree[j] \in {"shell", "left"}) => j \in store

\* What the runtime is told of a completion is the job's last word: the
\* status is terminal, never changes afterwards, nothing of the tree still
\* writes, and left_running is down.
CompletionIsFinal ==
    \A c \in Watchers : call[c].pc = "told" =>
        LET j == call[c].job IN
        /\ call[c].report = status[j]
        /\ status[j] # "Running"
        /\ ~leftRunning[j]
        /\ tree[j] \in {"escaped", "gone"}

\* A kill that was sent while something of the job was alive takes the tree
\* down, also when the shell exits or the grace runs out in the meantime.
KillReaches ==
    \A j \in Jobs : (kills[j] > 0 /\ tree[j] \in {"shell", "left"})
                       ~> tree[j] \in {"escaped", "gone"}

\* poll: "everything is delivered by the `since` above - safe to drop the
\* entry now": a job that was dropped has no output nobody was given.
DroppedIsDelivered ==
    \A j \in Jobs : (start[j] = "started" /\ j \notin store /\ j \notin aborted)
                       => delivered[j] = total[j]
=============================================================================
