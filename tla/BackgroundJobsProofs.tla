------------------------ MODULE BackgroundJobsProofs ------------------------
(***************************************************************************)
(* Proofs about BackgroundJobs, for every number of jobs, pollers,         *)
(* observers, chunks and kills.                                            *)
(*                                                                         *)
(* The inductive invariant has a part about each job's tasks (JobInv: what *)
(* the reader has published at each of its steps and what that says of the *)
(* process tree) and a part about each call (CallInv: what a poll or an    *)
(* observer has read is still so, or it has been woken).                   *)
(***************************************************************************)
EXTENDS BackgroundJobs, TLAPS

\* the reader before and after the pump was joined or aborted
Draining == {"wait", "grace", "flag", "report", "left", "killgrace"}
Closing == {"close", "clear", "finish", "notify", "done"}

\* the steps of the reader between a change and the notification that follows it
AboutToNotify == {"report", "finish", "notify"}

\* What the reader, the pump, the published fields and the tree say of each other.
JobInv(j) ==
    /\ reader[j] = "none" <=> start[j] \notin {"inserting", "started"}
    /\ reader[j] = "none" <=> tree[j] = "none"
    /\ tree[j] = "shell" => reader[j] = "wait"
    /\ killed[j] => tree[j] \in {"escaped", "gone"}
    /\ reader[j] = "killgrace" => killed[j]
    /\ reader[j] \in Draining => pump[j] # "aborting" /\ (pump[j] = "off" => tree[j] = "gone")
    /\ reader[j] \in Closing => tree[j] \in {"escaped", "gone"}
    /\ finished[j] <=> reader[j] \in {"notify", "done"}
    /\ status[j] # "Running" => reader[j] \in {"left", "killgrace"} \cup Closing
    /\ reader[j] \in {"clear", "finish", "notify", "done"} => status[j] # "Running"
    /\ reader[j] \in {"report", "left", "killgrace"} => leftRunning[j]
    /\ reader[j] \in {"finish", "notify", "done"} => ~leftRunning[j]

\* What a poll has read of its job and not acted on yet is still so, or the
\* poll was woken since; a status that was terminal stays terminal.
ReadInv(c) ==
    /\ (call[c].pc = "decide" /\ c \notin woken) =>
          /\ total[call[c].job] > call[c].base => call[c].out
          /\ status[call[c].job] = call[c].status
    /\ (call[c].pc = "reap" /\ call[c].status # "Running") => status[call[c].job] # "Running"

\* NoMissedWakeup, of one poll and of one observer.
ParkedInv(c) ==
    (/\ call[c].pc = "parked"
     /\ reader[call[c].job] \notin AboutToNotify
     /\ WaitIsOver([call[c] EXCEPT !.out = total[call[c].job] > call[c].base,
                                   !.status = status[call[c].job]],
                   leftRunning[call[c].job]))
       => c \in woken
AsleepInv(c) ==
    (call[c].pc = "asleep" /\ reader[call[c].job] = "done") => c \in woken

\* What an observer was told.
ToldInv(c) ==
    call[c].pc = "told" => finished[call[c].job] /\ call[c].report = status[call[c].job]

CallInv(c) == /\ c \in Pollers => ReadInv(c) /\ ParkedInv(c)
              /\ c \in Watchers => ToldInv(c) /\ AsleepInv(c)

IInv == /\ TypeOK
        /\ \A j \in Jobs : JobInv(j)
        /\ LeftStaysKillable
        /\ \A c \in Callers : CallInv(c)

-----------------------------------------------------------------------------
(* What the kind of a call says of its fields.                             *)

\* A poll that waits has all the fields wait_for_poll keeps.
LEMMA WaitKind ==
    ASSUME TypeOK, NEW c \in Callers, call[c].pc \in {"read", "decide", "parked"}
    PROVE  call[c] \in WaitCalls /\ c \in Pollers
<1>1. call[c] \in {Idle} \cup WaitCalls \cup PollCalls \cup ObserveCalls
  BY DEF TypeOK
<1>2. call[c] \in WaitCalls
  BY <1>1 DEF Idle, PollCalls, ObserveCalls
<1>3. call[c] \notin {Idle} \cup ObserveCalls
  BY DEF Idle, ObserveCalls
<1> QED BY <1>2, <1>3 DEF TypeOK, Callers

\* A poll that reads the store has a job and the status it read.
LEMMA PollKind ==
    ASSUME TypeOK, NEW c \in Callers, call[c].pc \in {"poll", "status", "reap"}
    PROVE  call[c] \in PollCalls /\ c \in Pollers
<1>1. call[c] \in {Idle} \cup WaitCalls \cup PollCalls \cup ObserveCalls
  BY DEF TypeOK
<1>2. call[c] \in PollCalls
  BY <1>1 DEF Idle, WaitCalls, ObserveCalls
<1>3. call[c] \notin {Idle} \cup ObserveCalls
  BY DEF Idle, ObserveCalls
<1> QED BY <1>2, <1>3 DEF TypeOK, Callers

\* A completion future has a job and the status it reported.
LEMMA ObserveKind ==
    ASSUME TypeOK, NEW c \in Callers, call[c].pc \in {"enable", "check", "asleep", "told"}
    PROVE  call[c] \in ObserveCalls /\ c \in Watchers
<1>1. call[c] \in {Idle} \cup WaitCalls \cup PollCalls \cup ObserveCalls
  BY DEF TypeOK
<1>2. call[c] \in ObserveCalls
  BY <1>1 DEF Idle, WaitCalls, PollCalls
<1> QED BY <1>2 DEF TypeOK, Callers

\* Whoever waits for a job, or was told of one, names a job.
LEMMA CallJob ==
    ASSUME TypeOK, NEW c \in Callers, call[c].pc # "idle"
    PROVE  call[c].job \in Jobs
<1>1. call[c] \in {Idle} \cup WaitCalls \cup PollCalls \cup ObserveCalls
  BY DEF TypeOK
<1> QED BY <1>1 DEF Idle, WaitCalls, PollCalls, ObserveCalls

-----------------------------------------------------------------------------
(* What a step of a job's tasks leaves of the calls' part: one lemma for   *)
(* the steps that notify, one for those that do not.                       *)

\* A step of job j that ends in notify_waiters keeps every call's part.
LEMMA NotifyKeepsCalls ==
    ASSUME IInv, NEW j \in Jobs, call' = call, NotifyWaiters(j),
           \A k \in Jobs \ {j} : /\ total'[k] = total[k]
                                 /\ status'[k] = status[k]
                                 /\ leftRunning'[k] = leftRunning[k]
                                 /\ finished'[k] = finished[k]
                                 /\ reader'[k] = reader[k],
           status[j] # "Running" => status'[j] # "Running",
           finished[j] => finished'[j] /\ status'[j] = status[j]
    PROVE  \A c \in Callers : CallInv(c)'
<1> TAKE c \in Callers
<1>1. TypeOK /\ CallInv(c)
  BY DEF IInv
<1>2. call[c].pc # "idle" => call[c].job \in Jobs
  BY <1>1, CallJob
<1>3. CASE c \in woken'
  BY <1>1, <1>2, <1>3 DEF CallInv, ReadInv, ParkedInv, AsleepInv, ToldInv
<1>4. CASE c \notin woken'
  <2>1. c \notin woken /\ c \notin Enabled(j)
    BY <1>4 DEF NotifyWaiters
  <2>2. call[c].pc \in {"decide", "parked", "asleep"} => call[c].job \in Jobs \ {j}
    BY <1>2, <2>1 DEF Enabled
  <2>3. c \in Pollers => ReadInv(c)'
    BY <1>1, <1>2, <2>1, <2>2 DEF CallInv, ReadInv
  <2>4. c \in Pollers => ParkedInv(c)'
    BY <1>1, <2>1, <2>2 DEF CallInv, ParkedInv
  <2>5. c \in Watchers => ToldInv(c)'
    BY <1>1, <1>2 DEF CallInv, ToldInv
  <2>6. c \in Watchers => AsleepInv(c)'
    BY <1>1, <2>1, <2>2 DEF CallInv, AsleepInv
  <2> QED BY <2>3, <2>4, <2>5, <2>6 DEF CallInv
<1> QED BY <1>3, <1>4

\* A step of job j that notifies nobody keeps every call's part, when it
\* changes nothing that is waited for or the reader is about to notify.
LEMMA QuietKeepsCalls ==
    ASSUME IInv, call' = call, woken' = woken, total' = total, status' = status,
           \A k \in Jobs : /\ finished[k] => finished'[k]
                           /\ reader'[k] = "done" => reader[k] = "done"
                           /\ \/ reader'[k] \in AboutToNotify
                              \/ /\ leftRunning'[k] = leftRunning[k]
                                 /\ reader[k] \notin AboutToNotify
    PROVE  \A c \in Callers : CallInv(c)'
<1> TAKE c \in Callers
<1>1. TypeOK /\ CallInv(c)
  BY DEF IInv
<1>2. call[c].pc # "idle" => call[c].job \in Jobs
  BY <1>1, CallJob
<1>3. c \in Pollers => ReadInv(c)'
  BY <1>1 DEF CallInv, ReadInv
<1>4. c \in Pollers => ParkedInv(c)'
  BY <1>1, <1>2 DEF CallInv, ParkedInv
<1>5. c \in Watchers => ToldInv(c)'
  BY <1>1, <1>2 DEF CallInv, ToldInv
<1>6. c \in Watchers => AsleepInv(c)'
  BY <1>1, <1>2 DEF CallInv, AsleepInv
<1> QED BY <1>3, <1>4, <1>5, <1>6 DEF CallInv

\* A step of caller c keeps the part of every other call.
LEMMA OthersKeepCalls ==
    ASSUME IInv, NEW c \in Callers,
           UNCHANGED <<total, status, leftRunning, finished, reader>>,
           \A d \in Callers \ {c} : call'[d] = call[d] /\ (d \in woken => d \in woken')
    PROVE  \A d \in Callers \ {c} : CallInv(d)'
<1> TAKE d \in Callers \ {c}
<1>1. CallInv(d) /\ call'[d] = call[d] /\ (d \in woken => d \in woken')
  BY DEF IInv
<1>2. d \in Pollers => ReadInv(d)'
  BY <1>1 DEF CallInv, ReadInv
<1>3. d \in Pollers => ParkedInv(d)'
  BY <1>1 DEF CallInv, ParkedInv
<1>4. d \in Watchers => ToldInv(d)' /\ AsleepInv(d)'
  BY <1>1 DEF CallInv, ToldInv, AsleepInv
<1> QED BY <1>2, <1>3, <1>4 DEF CallInv
-----------------------------------------------------------------------------
(* One lemma per group of actions: each keeps IInv.                     *)


\* The steps of a call to start().
LEMMA StartKeeps ==
    ASSUME IInv, NEW j \in Jobs,
           \/ (\E others \in 0..MaxJobs : StartCheck(j, others))
           \/ SpawnFails(j)
           \/ Spawned(j)
           \/ StartInsert(j)
    PROVE  IInv'
<1> USE JobsAssumption DEF shared, output, tasks
<1>0. TypeOK /\ (\A k \in Jobs : JobInv(k)) /\ LeftStaysKillable
  BY DEF IInv
<1>1. CASE (\E others \in 0..MaxJobs : StartCheck(j, others))
  <2>1. TypeOK'
    BY <1>0, <1>1 DEF TypeOK, StartCheck
  <2>2. \A k \in Jobs : JobInv(k)'
    BY <1>0, <1>1 DEF TypeOK, JobInv, Draining, Closing, Readers, Trees, Statuses, StartCheck
  <2>3. LeftStaysKillable'
    BY <1>0, <1>1 DEF TypeOK, LeftStaysKillable, JobInv, StartCheck
  <2>4. \A c \in Callers : CallInv(c)'
    BY <1>0, <1>1, QuietKeepsCalls DEF TypeOK, JobInv, AboutToNotify, StartCheck
  <2> QED BY <2>1, <2>2, <2>3, <2>4 DEF IInv
<1>2. CASE SpawnFails(j)
  <2>1. TypeOK'
    BY <1>0, <1>2 DEF TypeOK, SpawnFails
  <2>2. \A k \in Jobs : JobInv(k)'
    BY <1>0, <1>2 DEF TypeOK, JobInv, Draining, Closing, Readers, Trees, Statuses, SpawnFails
  <2>3. LeftStaysKillable'
    BY <1>0, <1>2 DEF TypeOK, LeftStaysKillable, JobInv, SpawnFails
  <2>4. \A c \in Callers : CallInv(c)'
    BY <1>0, <1>2, QuietKeepsCalls DEF TypeOK, JobInv, AboutToNotify, SpawnFails
  <2> QED BY <2>1, <2>2, <2>3, <2>4 DEF IInv
<1>3. CASE Spawned(j)
  <2>1. TypeOK'
    BY <1>0, <1>3 DEF TypeOK, Spawned, Readers, Trees
  <2>2. \A k \in Jobs : JobInv(k)'
    BY <1>0, <1>3 DEF TypeOK, JobInv, Draining, Closing, Readers, Trees, Statuses, Spawned
  <2>3. LeftStaysKillable'
    BY <1>0, <1>3 DEF TypeOK, LeftStaysKillable, JobInv, Spawned, Readers, Trees
  <2>4. \A c \in Callers : CallInv(c)'
    BY <1>0, <1>3, QuietKeepsCalls DEF TypeOK, JobInv, AboutToNotify, Spawned, Readers, Trees
  <2> QED BY <2>1, <2>2, <2>3, <2>4 DEF IInv
<1>4. CASE StartInsert(j)
  <2>1. TypeOK'
    BY <1>0, <1>4 DEF TypeOK, StartInsert
  <2>2. \A k \in Jobs : JobInv(k)'
    BY <1>0, <1>4 DEF TypeOK, JobInv, Draining, Closing, Readers, Trees, Statuses, StartInsert
  <2>3. LeftStaysKillable'
    BY <1>0, <1>4 DEF TypeOK, LeftStaysKillable, JobInv, StartInsert
  <2>4. \A c \in Callers : CallInv(c)'
    BY <1>0, <1>4, QuietKeepsCalls DEF TypeOK, JobInv, AboutToNotify, StartInsert
  <2> QED BY <2>1, <2>2, <2>3, <2>4 DEF IInv
<1> QED BY <1>1, <1>2, <1>3, <1>4

\* The process tree, the pump, and bash_kill.
LEMMA WorldKeeps ==
    ASSUME IInv, NEW j \in Jobs,
           \/ ShellExits(j)
           \/ HolderEnds(j)
           \/ PumpAppends(j)
           \/ PumpEnds(j)
           \/ Kill(j)
    PROVE  IInv'
<1> USE JobsAssumption DEF shared, output, tasks
<1>0. TypeOK /\ (\A k \in Jobs : JobInv(k)) /\ LeftStaysKillable
  BY DEF IInv
<1>1. CASE ShellExits(j)
  <2>1. TypeOK'
    BY <1>0, <1>1 DEF TypeOK, ShellExits, Trees
  <2>2. \A k \in Jobs : JobInv(k)'
    BY <1>0, <1>1 DEF TypeOK, JobInv, Draining, Closing, Readers, Trees, Statuses, ShellExits
  <2>3. LeftStaysKillable'
    BY <1>0, <1>1 DEF TypeOK, LeftStaysKillable, JobInv, ShellExits, Trees
  <2>4. \A c \in Callers : CallInv(c)'
    BY <1>0, <1>1, QuietKeepsCalls DEF TypeOK, JobInv, AboutToNotify, ShellExits, Trees
  <2> QED BY <2>1, <2>2, <2>3, <2>4 DEF IInv
<1>2. CASE HolderEnds(j)
  <2>1. TypeOK'
    BY <1>0, <1>2 DEF TypeOK, HolderEnds, Trees
  <2>2. \A k \in Jobs : JobInv(k)'
    BY <1>0, <1>2 DEF TypeOK, JobInv, Draining, Closing, Readers, Trees, Statuses, HolderEnds
  <2>3. LeftStaysKillable'
    BY <1>0, <1>2 DEF TypeOK, LeftStaysKillable, JobInv, HolderEnds, Trees
  <2>4. \A c \in Callers : CallInv(c)'
    BY <1>0, <1>2, QuietKeepsCalls DEF TypeOK, JobInv, AboutToNotify, HolderEnds, Trees
  <2> QED BY <2>1, <2>2, <2>3, <2>4 DEF IInv
<1>3. CASE PumpAppends(j)
  <2>1. TypeOK'
    BY <1>0, <1>3 DEF TypeOK, PumpAppends, NotifyWaiters, Enabled
  <2>2. \A k \in Jobs : JobInv(k)'
    BY <1>0, <1>3 DEF TypeOK, JobInv, Draining, Closing, Readers, Trees, Statuses, PumpAppends, NotifyWaiters, Enabled
  <2>3. LeftStaysKillable'
    BY <1>0, <1>3 DEF TypeOK, LeftStaysKillable, JobInv, PumpAppends, NotifyWaiters, Enabled
  <2>4. \A c \in Callers : CallInv(c)'
    BY <1>0, <1>3, NotifyKeepsCalls DEF TypeOK, JobInv, AboutToNotify, PumpAppends, NotifyWaiters, Enabled
  <2> QED BY <2>1, <2>2, <2>3, <2>4 DEF IInv
<1>4. CASE PumpEnds(j)
  <2>1. TypeOK'
    BY <1>0, <1>4 DEF TypeOK, PumpEnds
  <2>2. \A k \in Jobs : JobInv(k)'
    BY <1>0, <1>4 DEF TypeOK, JobInv, Draining, Closing, Readers, Trees, Statuses, PumpEnds
  <2>3. LeftStaysKillable'
    BY <1>0, <1>4 DEF TypeOK, LeftStaysKillable, JobInv, PumpEnds
  <2>4. \A c \in Callers : CallInv(c)'
    BY <1>0, <1>4, QuietKeepsCalls DEF TypeOK, JobInv, AboutToNotify, PumpEnds
  <2> QED BY <2>1, <2>2, <2>3, <2>4 DEF IInv
<1>5. CASE Kill(j)
  <2>1. TypeOK'
    BY <1>0, <1>5 DEF TypeOK, Kill
  <2>2. \A k \in Jobs : JobInv(k)'
    BY <1>0, <1>5 DEF TypeOK, JobInv, Draining, Closing, Readers, Trees, Statuses, Kill
  <2>3. LeftStaysKillable'
    BY <1>0, <1>5 DEF TypeOK, LeftStaysKillable, JobInv, Kill
  <2>4. \A c \in Callers : CallInv(c)'
    BY <1>0, <1>5, QuietKeepsCalls DEF TypeOK, JobInv, AboutToNotify, Kill
  <2> QED BY <2>1, <2>2, <2>3, <2>4 DEF IInv
<1> QED BY <1>1, <1>2, <1>3, <1>4, <1>5

\* reader_task up to the end of a grace.
LEMMA ReaderWaitsKeeps ==
    ASSUME IInv, NEW j \in Jobs,
           \/ ReaderTakesKill(j)
           \/ ReaderSeesExit(j)
           \/ ReaderJoinsPump(j)
           \/ GraceElapses(j)
           \/ LeftTakesKill(j)
    PROVE  IInv'
<1> USE JobsAssumption DEF shared, output, tasks
<1>0. TypeOK /\ (\A k \in Jobs : JobInv(k)) /\ LeftStaysKillable
  BY DEF IInv
<1>1. CASE ReaderTakesKill(j)
  <2>1. TypeOK'
    BY <1>0, <1>1 DEF TypeOK, ReaderTakesKill, KillTree, Trees
  <2>2. \A k \in Jobs : JobInv(k)'
    BY <1>0, <1>1 DEF TypeOK, JobInv, Draining, Closing, Readers, Trees, Statuses, ReaderTakesKill, KillTree
  <2>3. LeftStaysKillable'
    BY <1>0, <1>1 DEF TypeOK, LeftStaysKillable, JobInv, ReaderTakesKill, KillTree, Trees
  <2>4. \A c \in Callers : CallInv(c)'
    BY <1>0, <1>1, QuietKeepsCalls DEF TypeOK, JobInv, AboutToNotify, ReaderTakesKill, KillTree, Trees
  <2> QED BY <2>1, <2>2, <2>3, <2>4 DEF IInv
<1>2. CASE ReaderSeesExit(j)
  <2>1. TypeOK'
    BY <1>0, <1>2 DEF TypeOK, ReaderSeesExit, Go, Readers
  <2>2. \A k \in Jobs : JobInv(k)'
    BY <1>0, <1>2 DEF TypeOK, JobInv, Draining, Closing, Readers, Trees, Statuses, ReaderSeesExit, Go
  <2>3. LeftStaysKillable'
    BY <1>0, <1>2 DEF TypeOK, LeftStaysKillable, JobInv, ReaderSeesExit, Go, Readers
  <2>4. \A c \in Callers : CallInv(c)'
    BY <1>0, <1>2, QuietKeepsCalls DEF TypeOK, JobInv, AboutToNotify, ReaderSeesExit, Go, Readers
  <2> QED BY <2>1, <2>2, <2>3, <2>4 DEF IInv
<1>3. CASE ReaderJoinsPump(j)
  <2>1. TypeOK'
    BY <1>0, <1>3 DEF TypeOK, ReaderJoinsPump, Go, Readers
  <2>2. \A k \in Jobs : JobInv(k)'
    BY <1>0, <1>3 DEF TypeOK, JobInv, Draining, Closing, Readers, Trees, Statuses, ReaderJoinsPump, Go
  <2>3. LeftStaysKillable'
    BY <1>0, <1>3 DEF TypeOK, LeftStaysKillable, JobInv, ReaderJoinsPump, Go, Readers
  <2>4. \A c \in Callers : CallInv(c)'
    BY <1>0, <1>3, QuietKeepsCalls DEF TypeOK, JobInv, AboutToNotify, ReaderJoinsPump, Go, Readers
  <2> QED BY <2>1, <2>2, <2>3, <2>4 DEF IInv
<1>4. CASE GraceElapses(j)
  <2>1. TypeOK'
    BY <1>0, <1>4 DEF TypeOK, GraceElapses, Go, Readers
  <2>2. \A k \in Jobs : JobInv(k)'
    BY <1>0, <1>4 DEF TypeOK, JobInv, Draining, Closing, Readers, Trees, Statuses, GraceElapses, Go
  <2>3. LeftStaysKillable'
    BY <1>0, <1>4 DEF TypeOK, LeftStaysKillable, JobInv, GraceElapses, Go, Readers
  <2>4. \A c \in Callers : CallInv(c)'
    BY <1>0, <1>4, QuietKeepsCalls DEF TypeOK, JobInv, AboutToNotify, GraceElapses, Go, Readers
  <2> QED BY <2>1, <2>2, <2>3, <2>4 DEF IInv
<1>5. CASE LeftTakesKill(j)
  <2>1. TypeOK'
    BY <1>0, <1>5 DEF TypeOK, LeftTakesKill, KillTree, Trees, Go, Readers
  <2>2. \A k \in Jobs : JobInv(k)'
    BY <1>0, <1>5 DEF TypeOK, JobInv, Draining, Closing, Readers, Trees, Statuses, LeftTakesKill, KillTree, Go
  <2>3. LeftStaysKillable'
    BY <1>0, <1>5 DEF TypeOK, LeftStaysKillable, JobInv, LeftTakesKill, KillTree, Trees, Go, Readers
  <2>4. \A c \in Callers : CallInv(c)'
    BY <1>0, <1>5, QuietKeepsCalls DEF TypeOK, JobInv, AboutToNotify, LeftTakesKill, KillTree, Trees, Go, Readers
  <2> QED BY <2>1, <2>2, <2>3, <2>4 DEF IInv
<1> QED BY <1>1, <1>2, <1>3, <1>4, <1>5

\* reader_task: left_running is raised, then the status is set.
LEMMA ReaderFlagsKeeps ==
    ASSUME IInv, NEW j \in Jobs, ReaderFlags(j)
    PROVE  IInv'
<1> USE DEF shared, output, tasks
<1>0. TypeOK /\ (\A k \in Jobs : JobInv(k)) /\ LeftStaysKillable
  BY DEF IInv
<1>1. TypeOK'
  BY <1>0 DEF TypeOK, ReaderFlags, Go, NotifyWaiters, Enabled, Readers, Statuses
<1>2. \A k \in Jobs : JobInv(k)'
  BY <1>0 DEF TypeOK, JobInv, Draining, Closing, ReaderFlags, Go
<1>3. LeftStaysKillable'
  BY <1>0 DEF LeftStaysKillable, ReaderFlags
<1>4. ASSUME reader[j] = "flag"
      PROVE  \A c \in Callers : CallInv(c)'
  BY <1>0, <1>4, QuietKeepsCalls DEF TypeOK, AboutToNotify, ReaderFlags, Go
<1>5. ASSUME reader[j] = "report"
      PROVE  \A c \in Callers : CallInv(c)'
  <2>1. status'[j] = "Exited" /\ ~finished[j] /\ call' = call /\ NotifyWaiters(j)
    BY <1>0, <1>5 DEF TypeOK, JobInv, ReaderFlags
  <2>2. \A k \in Jobs \ {j} : /\ total'[k] = total[k]
                              /\ status'[k] = status[k]
                              /\ leftRunning'[k] = leftRunning[k]
                              /\ finished'[k] = finished[k]
                              /\ reader'[k] = reader[k]
    BY <1>0, <1>5 DEF TypeOK, ReaderFlags, Go
  <2> QED BY <2>1, <2>2, NotifyKeepsCalls
<1> QED BY <1>1, <1>2, <1>3, <1>4, <1>5 DEF IInv, ReaderFlags

\* reader_task: the last status, left_running, finished, the last notification.
LEMMA ReaderClosesKeeps ==
    ASSUME IInv, NEW j \in Jobs, ReaderCloses(j)
    PROVE  IInv'
<1> USE DEF shared, output, tasks
<1>0. TypeOK /\ (\A k \in Jobs : JobInv(k)) /\ LeftStaysKillable
  BY DEF IInv
<1>1. TypeOK'
  BY <1>0 DEF TypeOK, ReaderCloses, Go, NotifyWaiters, Enabled, Readers, Statuses
<1>2. \A k \in Jobs : JobInv(k)'
  BY <1>0 DEF TypeOK, JobInv, Draining, Closing, ReaderCloses, Go
<1>3. LeftStaysKillable'
  BY <1>0 DEF LeftStaysKillable, ReaderCloses
<1>4. ASSUME reader[j] \in {"clear", "finish"}
      PROVE  \A c \in Callers : CallInv(c)'
  BY <1>0, <1>4, QuietKeepsCalls DEF TypeOK, AboutToNotify, ReaderCloses, Go
<1>5. ASSUME reader[j] \in {"close", "notify"}
      PROVE  \A c \in Callers : CallInv(c)'
  <2>1. /\ status[j] # "Running" => status'[j] # "Running"
        /\ finished[j] => finished'[j] /\ status'[j] = status[j]
        /\ call' = call /\ NotifyWaiters(j)
    BY <1>0, <1>5 DEF TypeOK, JobInv, ReaderCloses
  <2>2. \A k \in Jobs \ {j} : /\ total'[k] = total[k]
                              /\ status'[k] = status[k]
                              /\ leftRunning'[k] = leftRunning[k]
                              /\ finished'[k] = finished[k]
                              /\ reader'[k] = reader[k]
    BY <1>0, <1>5 DEF TypeOK, ReaderCloses, Go
  <2> QED BY <2>1, <2>2, NotifyKeepsCalls
<1> QED BY <1>1, <1>2, <1>3, <1>4, <1>5 DEF IInv, ReaderCloses


-----------------------------------------------------------------------------
(* The calls: they leave the jobs' part alone, and each the other calls.   *)

\* A step of a call keeps what the jobs' part says.
LEMMA CallsKeepJobs ==
    ASSUME IInv, UNCHANGED <<start, shared, reader, killed, pump, tree>>
    PROVE  /\ \A j \in Jobs : JobInv(j)'
           /\ UNCHANGED store => LeftStaysKillable'
BY DEF IInv, JobInv, LeftStaysKillable, shared

\* wait_for_poll: the steps of a poll that waits.
LEMMA WaitKeeps ==
    ASSUME IInv, NEW c \in Pollers,
           \/ \E j \in Jobs, u \in {"exit", "output"} : PollBegins(c, j, u)
           \/ WaitReads(c)
           \/ WaitDecides(c)
           \/ WaitWakes(c)
           \/ WaitCancelled(c)
           \/ WaitExpires(c)
    PROVE  IInv'
<1> USE JobsAssumption DEF shared, output, tasks
<1>0. TypeOK /\ c \in Callers /\ c \notin Watchers /\ CallInv(c)
  BY DEF IInv, Callers
<1>1. (\A j \in Jobs : JobInv(j)') /\ LeftStaysKillable'
  BY CallsKeepJobs DEF PollBegins, WaitReads, WaitDecides, WaitWakes, WaitCancelled, WaitExpires
<1>2. \A d \in Callers \ {c} : CallInv(d)'
  BY <1>0, OthersKeepCalls
     DEF TypeOK, PollBegins, WaitReads, WaitDecides, WaitWakes, WaitCancelled, WaitExpires
<1> SUFFICES TypeOK' /\ CallInv(c)'
  BY <1>1, <1>2 DEF IInv
<1>3. CASE \E j \in Jobs, u \in {"exit", "output"} : PollBegins(c, j, u)
  <2> PICK j \in Jobs, u \in {"exit", "output"} : PollBegins(c, j, u)
    BY <1>3
  <2> DEFINE w == [pc |-> "read", job |-> j, until |-> u, base |-> delivered[j],
                   status0 |-> status[j], left0 |-> leftRunning[j],
                   out |-> FALSE, status |-> "Running"]
  <2>1. w \in WaitCalls
    BY <1>0 DEF TypeOK, WaitCalls, Statuses
  <2>2. call'[c] = w /\ w.pc = "read"
    BY <1>0 DEF TypeOK, PollBegins
  <2>3. TypeOK'
    BY <1>0, <2>1 DEF TypeOK, PollBegins, WaitCalls, ObserveCalls
  <2>4. CallInv(c)'
    BY <1>0, <2>2 DEF CallInv, ReadInv, ParkedInv
  <2> QED BY <2>3, <2>4
<1>4. CASE WaitReads(c)
  <2> DEFINE j == call[c].job
             more == total[j] > call[c].base
  <2>1. call[c] \in WaitCalls /\ j \in Jobs
    BY <1>0, <1>4, WaitKind DEF WaitReads, WaitCalls
  <2>2. more \in BOOLEAN
    OBVIOUS
  <2>3. PICK w : w = [call[c] EXCEPT !.pc = "decide", !.out = more, !.status = status[j]]
    OBVIOUS
  <2> HIDE DEF more
  <2>4. w \in WaitCalls
    BY <1>0, <2>1, <2>2, <2>3 DEF WaitCalls, TypeOK
  <2>5. call' = [call EXCEPT ![c] = w]
    BY <1>4, <1>0, <2>3 DEF WaitReads, TypeOK, more
  <2>6. TypeOK'
    <3>1. UNCHANGED <<start, store, lock, shared, output, kills, tasks, tree, woken>>
      BY <1>4 DEF WaitReads
    <3>2. w \notin ObserveCalls
      BY <2>4 DEF WaitCalls, ObserveCalls
    <3> QED BY <1>0, <2>4, <2>5, <3>1, <3>2 DEF TypeOK
  <2>7. /\ call'[c].pc = "decide" /\ call'[c].job = j /\ call'[c].base = call[c].base
        /\ call'[c].out = more /\ call'[c].status = status[j]
    BY <1>0, <2>1, <2>3, <2>5 DEF TypeOK, WaitCalls
  <2>8. CallInv(c)'
    BY <1>0, <1>4, <2>7 DEF CallInv, ReadInv, ParkedInv, WaitReads, more
  <2> QED BY <2>6, <2>8
<1>5. CASE WaitDecides(c)
  <2> DEFINE j == call[c].job
             w == [call[c] EXCEPT !.pc = "parked", !.out = FALSE, !.status = "Running"]
  <2>1. call[c] \in WaitCalls /\ j \in Jobs
    BY <1>0, <1>5, WaitKind DEF WaitDecides, WaitCalls
  <2>2. w \in WaitCalls /\ Poll(j, "poll", "Running") \in PollCalls
    BY <2>1 DEF WaitCalls, PollCalls, Poll, Statuses
  <2>3. CASE WaitIsOver(call[c], leftRunning[j])
    <3>1. call' = [call EXCEPT ![c] = Poll(j, "poll", "Running")]
      BY <1>5, <1>0, <2>3 DEF WaitDecides, TypeOK
    <3>2. TypeOK'
      BY <1>0, <1>5, <2>2, <3>1 DEF TypeOK, WaitDecides, PollCalls, ObserveCalls
    <3>3. call'[c].pc = "poll"
      BY <1>0, <3>1 DEF TypeOK, Poll
    <3> QED BY <1>0, <3>2, <3>3 DEF CallInv, ReadInv, ParkedInv
  <2>4. CASE ~WaitIsOver(call[c], leftRunning[j])
    <3>1. call' = [call EXCEPT ![c] = w]
      BY <1>5, <1>0, <2>4 DEF WaitDecides, TypeOK
    <3>2. TypeOK'
      BY <1>0, <1>5, <2>2, <3>1 DEF TypeOK, WaitDecides, WaitCalls, ObserveCalls
    <3>3. /\ call'[c].pc = "parked" /\ call'[c].job = j
          /\ \A f \in {"until", "base", "status0", "left0"} : call'[c][f] = call[c][f]
      BY <1>0, <2>1, <3>1 DEF TypeOK, WaitCalls
    <3>4. UNCHANGED <<woken, total, status, leftRunning>>
      BY <1>5, <3>3 DEF WaitDecides
    <3>5. ASSUME c \notin woken,
                 WaitIsOver([call'[c] EXCEPT !.out = total[j] > call[c].base, !.status = status[j]],
                            leftRunning[j])
          PROVE  FALSE
      BY <1>0, <1>5, <2>1, <2>2, <2>4, <3>1, <3>3, <3>5
         DEF TypeOK, CallInv, ReadInv, WaitIsOver, WaitDecides, WaitCalls
    <3>6. CallInv(c)'
      BY <1>0, <3>3, <3>4, <3>5 DEF CallInv, ReadInv, ParkedInv
    <3> QED BY <3>2, <3>6
  <2> QED BY <2>3, <2>4
<1>6. CASE WaitWakes(c)
  <2>1. call[c] \in WaitCalls
    BY <1>0, <1>6, WaitKind DEF WaitWakes
  <2>2. [call[c] EXCEPT !.pc = "read"] \in WaitCalls /\ call'[c] = [call[c] EXCEPT !.pc = "read"]
    BY <1>0, <1>6, <2>1 DEF TypeOK, WaitCalls, WaitWakes
  <2>3. TypeOK'
    BY <1>0, <1>6, <2>2 DEF TypeOK, WaitWakes, WaitCalls, ObserveCalls
  <2>4. call'[c].pc = "read"
    BY <2>1, <2>2 DEF WaitCalls
  <2> QED BY <1>0, <2>3, <2>4 DEF CallInv, ReadInv, ParkedInv
<1>7. CASE WaitCancelled(c)
  <2>1. TypeOK'
    BY <1>0, <1>7 DEF TypeOK, WaitCancelled, Idle, ObserveCalls
  <2>2. call'[c].pc = "idle"
    BY <1>0, <1>7 DEF TypeOK, WaitCancelled, Idle
  <2> QED BY <1>0, <2>1, <2>2 DEF CallInv, ReadInv, ParkedInv
<1>8. CASE WaitExpires(c)
  <2>1. call[c].job \in Jobs
    BY <1>0, <1>8, CallJob DEF WaitExpires
  <2>2. Poll(call[c].job, "poll", "Running") \in PollCalls
    BY <2>1 DEF PollCalls, Poll, Statuses
  <2>3. TypeOK'
    BY <1>0, <1>8, <2>2 DEF TypeOK, WaitExpires, PollCalls, ObserveCalls
  <2>4. call'[c].pc = "poll"
    BY <1>0, <1>8 DEF TypeOK, WaitExpires, Poll
  <2> QED BY <1>0, <2>3, <2>4 DEF CallInv, ReadInv, ParkedInv
<1> QED BY <1>3, <1>4, <1>5, <1>6, <1>7, <1>8

\* poll: output, status and left_running are read, and the entry dropped.
LEMMA PollKeeps ==
    ASSUME IInv, NEW c \in Pollers, PollOutput(c) \/ PollStatus(c) \/ PollReaps(c)
    PROVE  IInv'
<1> USE JobsAssumption DEF shared, output, tasks
<1>0. TypeOK /\ c \in Callers /\ c \notin Watchers /\ CallInv(c)
  BY DEF IInv, Callers
<1>1. \A j \in Jobs : JobInv(j)'
  BY CallsKeepJobs DEF PollOutput, PollStatus, PollReaps
<1>2. \A d \in Callers \ {c} : CallInv(d)'
  BY <1>0, OthersKeepCalls DEF TypeOK, PollOutput, PollStatus, PollReaps, Since
<1>3. call[c] \in PollCalls /\ call[c].job \in Jobs
  BY <1>0, PollKind DEF PollOutput, PollStatus, PollReaps, PollCalls
<1> SUFFICES TypeOK' /\ CallInv(c)' /\ LeftStaysKillable'
  BY <1>1, <1>2 DEF IInv
<1>4. CASE PollOutput(c)
  <2>1. Poll(call[c].job, "status", "Running") \in PollCalls
    BY <1>3 DEF PollCalls, Poll, Statuses
  <2>2. TypeOK'
    <3>1. Poll(call[c].job, "status", "Running") \notin ObserveCalls /\ Idle \notin ObserveCalls
      BY DEF Poll, Idle, ObserveCalls
    <3>2. UNCHANGED <<start, store, shared, kills, tasks, tree, woken, total>>
      BY <1>4 DEF PollOutput, Since
    <3>3. /\ lock' \in Pollers \cup {None}
          /\ delivered' \in [Jobs -> 0..MaxChunks]
      BY <1>0, <1>3, <1>4 DEF TypeOK, PollOutput, Since
    <3>4. \/ call' = [call EXCEPT ![c] = Poll(call[c].job, "status", "Running")]
          \/ call' = [call EXCEPT ![c] = Idle]
      BY <1>4 DEF PollOutput
    <3>5. PICK w \in {Idle} \cup PollCalls : w \notin ObserveCalls /\ call' = [call EXCEPT ![c] = w]
      BY <2>1, <3>1, <3>4
    <3> QED BY <1>0, <3>2, <3>3, <3>5 DEF TypeOK
  <2>3. call'[c].pc \in {"status", "idle"}
    BY <1>0, <1>4 DEF TypeOK, PollOutput, Poll, Idle
  <2>4. LeftStaysKillable'
    BY <1>4, CallsKeepJobs DEF PollOutput
  <2> QED BY <1>0, <2>2, <2>3, <2>4 DEF CallInv, ReadInv, ParkedInv
<1>5. CASE PollStatus(c)
  <2>1. Poll(call[c].job, "reap", status[call[c].job]) \in PollCalls
    BY <1>0, <1>3 DEF PollCalls, Poll, TypeOK
  <2>2. TypeOK'
    BY <1>0, <1>5, <2>1 DEF TypeOK, PollStatus, PollCalls, ObserveCalls
  <2>3. /\ call'[c].pc = "reap" /\ call'[c].job = call[c].job
        /\ call'[c].status = status[call[c].job]
    BY <1>0, <1>5 DEF TypeOK, PollStatus, Poll
  <2>4. CallInv(c)'
    BY <1>0, <1>5, <2>3 DEF CallInv, ReadInv, ParkedInv, PollStatus
  <2>5. LeftStaysKillable'
    BY <1>5, CallsKeepJobs DEF PollStatus
  <2> QED BY <2>2, <2>4, <2>5
<1>6. CASE PollReaps(c)
  <2>1. TypeOK'
    BY <1>0, <1>6 DEF TypeOK, PollReaps, Idle, ObserveCalls
  <2>2. call'[c].pc = "idle"
    BY <1>0, <1>6 DEF TypeOK, PollReaps, Idle
  <2>3. CallInv(c)'
    BY <1>0, <2>2 DEF CallInv, ReadInv, ParkedInv
  \* a job that is dropped has a terminal status and nothing left running,
  \* which its reader publishes only when the tree is gone or has escaped
  <2>4. ASSUME call[c].status # "Running", ~leftRunning[call[c].job]
        PROVE  tree[call[c].job] \in {"escaped", "gone"}
    <3>1. JobInv(call[c].job)
      BY <1>3 DEF IInv
    <3>2. status[call[c].job] # "Running"
      BY <1>0, <1>6, <2>4 DEF CallInv, ReadInv, PollReaps
    <3> QED BY <2>4, <3>1, <3>2 DEF JobInv
  <2>5. LeftStaysKillable'
    BY <1>6, <2>4 DEF IInv, LeftStaysKillable, PollReaps
  <2> QED BY <2>1, <2>3, <2>5
<1> QED BY <1>4, <1>5, <1>6

\* The completion future: subscribe, enable, check, sleep, and the reset.
LEMMA ObserverKeeps ==
    ASSUME IInv, NEW c \in Watchers,
           \/ \E j \in Jobs : Subscribe(c, j)
           \/ ObserverEnables(c)
           \/ ObserverChecks(c)
           \/ ObserverWakes(c)
           \/ ObserverReset(c)
    PROVE  IInv'
<1> USE JobsAssumption DEF shared, output, tasks
<1>0. TypeOK /\ c \in Callers /\ c \notin Pollers /\ CallInv(c)
  BY DEF IInv, Callers
<1>1. (\A j \in Jobs : JobInv(j)') /\ LeftStaysKillable'
  BY CallsKeepJobs DEF Subscribe, ObserverEnables, ObserverChecks, ObserverWakes, ObserverReset
<1>2. \A d \in Callers \ {c} : CallInv(d)'
  BY <1>0, OthersKeepCalls
     DEF TypeOK, Subscribe, ObserverEnables, ObserverChecks, ObserverWakes, ObserverReset
<1> SUFFICES TypeOK' /\ CallInv(c)'
  BY <1>1, <1>2 DEF IInv
<1>3. CASE \E j \in Jobs : Subscribe(c, j)
  <2> PICK j \in Jobs : Subscribe(c, j)
    BY <1>3
  <2>1. Observe(j, "enable", "Running") \in ObserveCalls
    BY DEF Observe, ObserveCalls, Statuses
  <2>2. TypeOK'
    BY <1>0, <2>1 DEF TypeOK, Subscribe
  <2>3. call'[c].pc = "enable"
    BY <1>0 DEF TypeOK, Subscribe, Observe
  <2> QED BY <1>0, <2>2, <2>3 DEF CallInv, ToldInv, AsleepInv
<1>4. CASE ObserverEnables(c)
  <2>1. call[c] \in ObserveCalls
    BY <1>0, <1>4, ObserveKind DEF ObserverEnables
  <2>2. /\ [call[c] EXCEPT !.pc = "check"] \in ObserveCalls
        /\ call' = [call EXCEPT ![c] = [call[c] EXCEPT !.pc = "check"]]
    BY <1>0, <1>4, <2>1 DEF TypeOK, ObserverEnables, ObserveCalls
  <2>3. TypeOK'
    BY <1>0, <1>4, <2>2 DEF TypeOK, ObserverEnables
  <2>4. call'[c].pc = "check"
    BY <1>0, <2>1, <2>2 DEF TypeOK, ObserveCalls
  <2> QED BY <1>0, <2>3, <2>4 DEF CallInv, ToldInv, AsleepInv
<1>5. CASE ObserverChecks(c)
  <2> DEFINE j == call[c].job
  <2>1. call[c] \in ObserveCalls /\ j \in Jobs /\ JobInv(j)
    BY <1>0, <1>5, ObserveKind DEF ObserverChecks, ObserveCalls, IInv
  <2>2. CASE finished[j]
    <3>1. Observe(j, "told", status[j]) \in ObserveCalls
      BY <1>0, <2>1 DEF TypeOK, Observe, ObserveCalls
    <3>2. TypeOK'
      <4>1. /\ call' = [call EXCEPT ![c] = Observe(j, "told", status[j])]
            /\ woken' = woken \ {c}
            /\ UNCHANGED <<start, store, lock, shared, output, kills, tasks, tree>>
        BY <1>5, <2>2 DEF ObserverChecks
      <4> QED BY <1>0, <3>1, <4>1 DEF TypeOK
    <3>3. call'[c].pc = "told" /\ call'[c].job = j /\ call'[c].report = status[j]
      BY <1>0, <1>5, <2>2 DEF TypeOK, ObserverChecks, Observe
    <3> QED BY <1>0, <1>5, <2>2, <3>2, <3>3 DEF CallInv, ToldInv, AsleepInv, ObserverChecks
  <2>3. CASE ~finished[j]
    <3>1. /\ [call[c] EXCEPT !.pc = "asleep"] \in ObserveCalls
          /\ call' = [call EXCEPT ![c] = [call[c] EXCEPT !.pc = "asleep"]]
      BY <1>0, <1>5, <2>1, <2>3 DEF TypeOK, ObserverChecks, ObserveCalls
    <3>2. TypeOK'
      BY <1>0, <1>5, <2>3, <3>1 DEF TypeOK, ObserverChecks
    <3>3. call'[c].pc = "asleep" /\ call'[c].job = j
      BY <1>0, <2>1, <3>1 DEF TypeOK, ObserveCalls
    <3>4. reader'[j] # "done"
      BY <1>5, <2>1, <2>3 DEF JobInv, ObserverChecks
    <3> QED BY <1>0, <3>2, <3>3, <3>4 DEF CallInv, ToldInv, AsleepInv
  <2> QED BY <2>2, <2>3
<1>6. CASE ObserverWakes(c)
  <2>1. call[c] \in ObserveCalls
    BY <1>0, <1>6, ObserveKind DEF ObserverWakes
  <2>2. /\ [call[c] EXCEPT !.pc = "enable"] \in ObserveCalls
        /\ call' = [call EXCEPT ![c] = [call[c] EXCEPT !.pc = "enable"]]
    BY <1>0, <1>6, <2>1 DEF TypeOK, ObserverWakes, ObserveCalls
  <2>3. TypeOK'
    BY <1>0, <1>6, <2>2 DEF TypeOK, ObserverWakes
  <2>4. call'[c].pc = "enable"
    BY <1>0, <2>1, <2>2 DEF TypeOK, ObserveCalls
  <2> QED BY <1>0, <2>3, <2>4 DEF CallInv, ToldInv, AsleepInv
<1>7. CASE ObserverReset(c)
  <2>1. TypeOK'
    BY <1>0, <1>7 DEF TypeOK, ObserverReset, Idle
  <2>2. call'[c].pc = "idle"
    BY <1>0, <1>7 DEF TypeOK, ObserverReset, Idle
  <2> QED BY <1>0, <2>1, <2>2 DEF CallInv, ToldInv, AsleepInv
<1> QED BY <1>3, <1>4, <1>5, <1>6, <1>7

-----------------------------------------------------------------------------
\* The invariant holds before any job is started.
LEMMA InitIInv == Init => IInv
<1> SUFFICES ASSUME Init PROVE IInv
  OBVIOUS
<1> USE JobsAssumption
<1>1. TypeOK
  BY DEF Init, TypeOK, Statuses, Readers, Trees, Callers, Idle, ObserveCalls
<1>2. \A j \in Jobs : JobInv(j)
  BY DEF Init, JobInv, Draining, Closing
<1>3. LeftStaysKillable
  BY DEF Init, LeftStaysKillable
<1>4. \A c \in Callers : CallInv(c)
  BY DEF Init, CallInv, ReadInv, ParkedInv, ToldInv, AsleepInv, Idle
<1> QED BY <1>1, <1>2, <1>3, <1>4 DEF IInv

\* Every step keeps the invariant.
LEMMA NextIInv == IInv /\ [Next]_vars => IInv'
<1> SUFFICES ASSUME IInv, [Next]_vars PROVE IInv'
  OBVIOUS
<1>1. ASSUME NEW j \in Jobs,
             \/ StartStep(j) \/ ShellExits(j) \/ HolderEnds(j)
             \/ PumpAppends(j) \/ PumpEnds(j) \/ ReaderStep(j) \/ Kill(j)
      PROVE  IInv'
  BY <1>1, StartKeeps, WorldKeeps, ReaderWaitsKeeps, ReaderFlagsKeeps, ReaderClosesKeeps
     DEF StartStep, ReaderStep
<1>2. ASSUME NEW c \in Pollers,
             \/ CallStep(c) \/ WaitCancelled(c) \/ WaitExpires(c)
             \/ \E j \in Jobs, u \in {"exit", "output"} : PollBegins(c, j, u)
      PROVE  IInv'
  BY <1>2, WaitKeeps, PollKeeps DEF CallStep
<1>3. ASSUME NEW c \in Watchers,
             \/ ObserverStep(c) \/ ObserverReset(c)
             \/ \E j \in Jobs : Subscribe(c, j)
      PROVE  IInv'
  BY <1>3, ObserverKeeps DEF ObserverStep
<1>4. CASE UNCHANGED vars
  <2>1. TypeOK'
    BY <1>4 DEF IInv, TypeOK, vars, shared, output, tasks
  <2>2. (\A j \in Jobs : JobInv(j)') /\ LeftStaysKillable'
    BY <1>4, CallsKeepJobs DEF vars, shared, tasks
  <2>3. \A c \in Callers : CallInv(c)'
    BY <1>4 DEF IInv, CallInv, ReadInv, ParkedInv, ToldInv, AsleepInv, vars, shared, output, tasks
  <2> QED BY <2>1, <2>2, <2>3 DEF IInv
<1> QED BY <1>1, <1>2, <1>3, <1>4 DEF Next

\* The inductive invariant holds of every reachable state.
THEOREM Invariant == Spec => []IInv
BY InitIInv, NextIInv, PTL DEF Spec

\* Every variable keeps its type; a watcher's future is never a poll and a
\* poll's wait never a completion future.
THEOREM TypeCorrect == Spec => []TypeOK
<1>1. IInv => TypeOK
  BY DEF IInv
<1> QED BY Invariant, <1>1, PTL

\* No wait sleeps through the change it waits for, whatever the number of
\* jobs and callers: wait_for_poll and observe_completion enable their
\* Notified before they look at the job.
THEOREM WakeupsSafe == Spec => []NoMissedWakeup
<1>1. IInv => NoMissedWakeup
  BY DEF IInv, NoMissedWakeup, CallInv, ParkedInv, AsleepInv, AboutToNotify, Callers
<1> QED BY Invariant, <1>1, PTL

\* As long as the tree of a started job holds its output open, bash_kill
\* finds the job: poll drops it only when the reader published its end.
THEOREM LeftKillable == Spec => []LeftStaysKillable
<1>1. IInv => LeftStaysKillable
  BY DEF IInv
<1> QED BY Invariant, <1>1, PTL

\* What observe_completion reports is the job's last word.
THEOREM CompletionFinal == Spec => []CompletionIsFinal
<1>1. IInv => CompletionIsFinal
  <2> SUFFICES ASSUME IInv, NEW c \in Watchers, call[c].pc = "told"
               PROVE  LET j == call[c].job IN
                      /\ call[c].report = status[j]
                      /\ status[j] # "Running"
                      /\ ~leftRunning[j]
                      /\ tree[j] \in {"escaped", "gone"}
    BY DEF CompletionIsFinal
  <2>1. c \in Callers /\ TypeOK /\ ToldInv(c)
    BY DEF IInv, CallInv, Callers
  <2>2. call[c].job \in Jobs
    BY <2>1, CallJob
  <2>3. JobInv(call[c].job)
    BY <2>2 DEF IInv
  <2> QED BY <2>1, <2>3 DEF ToldInv, JobInv, Closing
<1> QED BY Invariant, <1>1, PTL
=============================================================================
