------------------------- MODULE RewindTransaction -------------------------
(***************************************************************************)
(* The durable rewind transaction: a session goes back to an earlier turn  *)
(* in its conversation, in its worktree, or in both.  Three stores change  *)
(* that no single write can change together (the conversation's log, the   *)
(* files, the ledger of rewind points), so a journal is written first and  *)
(* an interrupted rewind is resolved from it when the session is next      *)
(* opened.                                                                 *)
(*                                                                         *)
(*   atomcode-capabilities session/snapshot.rs   begin / commit /          *)
(*                    compensate / recover_rewind, recover_pending_rewind  *)
(*   atomcode-capabilities session/rewind.rs     restore, refs, collection *)
(*   atomcode-coding runtime.rs   the control loop's BeginRewind,          *)
(*                    ApplyUndo, FinishRewind and Submit, the handle's     *)
(*                    rewind_from_catalog and its transaction guard        *)
(*                                                                         *)
(* The process may crash between any two durable writes, a write may fail  *)
(* before or after its rename, a read that recovery decides by may fail,   *)
(* and the driver that asked may go away.                                  *)
(* A conversation and a ledger are sequences of turn numbers; a file's     *)
(* content is the number of the turn that last wrote it.                   *)
(***************************************************************************)
EXTENDS Integers, Sequences, FiniteSets, SequencesExt

CONSTANTS
    Files,          \* files of the worktree the shadow store captures
    Scopes,         \* the scopes a driver asks for: "code", "conversation", "both"
    MaxTurns,       \* bound: turns ever started
    MaxFaults,      \* bound: reads, writes and file operations that fail
    MaxCrashes      \* bound: process crashes

ASSUME BoundsAssumption ==
    /\ Scopes \subseteq {"code", "conversation", "both"}
    /\ {MaxTurns, MaxFaults, MaxCrashes} \subseteq Nat

VARIABLES
    \* durable
    conv,           \* the canonical conversation: its turns, oldest first
    files,          \* the worktree
    ledger,         \* the rewind ledger on disk
    journal,        \* the transaction journal: {} or one entry
    shots,          \* turn -> the trees captured before and after it
    refs,           \* turns whose trees the shadow store has, each kept by a ref
    pin,            \* the recovery tree: none, pinned, loose (unpinned) or gone
    \* of the running process
    phase,          \* the runtime's phase; "Broken" after an uncertain commit
    points,         \* the hook's copy of the ledger
    unavailable,    \* transaction_unavailable is set
    active,         \* the running turn, 0 if none
    job,            \* the blocking task the control loop awaits
    queue,          \* controls sent and not yet read
    holder,         \* where the driver's rewind_from_catalog call stands
    \* bookkeeping
    tx,             \* receipt of the rewind: {} before it, then one record
    nextTurn, faults, crashes

durable == <<conv, files, ledger, journal, shots, refs, pin>>
process == <<phase, points, unavailable, active, job, queue, holder>>
vars == <<durable, process, tx, nextTurn, faults, crashes>>

Turns == 1..MaxTurns
Tree == [Files -> 0..MaxTurns]
NoJob == [kind |-> "none", at |-> "none", todo |-> {}, bad |-> FALSE]
Receipt == CHOOSE r \in tx : TRUE
Entry == CHOOSE j \in journal : TRUE

(* The journal decides after a reopening, the receipt in the same process. *)
Doing == IF job.kind = "reopen" THEN Entry.tx ELSE Receipt

TakesBack(r) == r.scope # "code"

(* One more operation of the file system or of git fails. *)
Fails(kind) ==
    /\ Len(faults) < MaxFaults
    /\ faults' = Append(faults, kind)

(* An atomic write that fails leaves the target as it was, or, when only   *)
(* the directory's sync failed, replaced.                                  *)
WriteFails(file, file1, new) ==
    \/ Fails("untouched") /\ file1 = file
    \/ Fails("replaced") /\ file1 = new

(* What retaining the refs of a set of turns does: deleting a ref runs a   *)
(* collection, which takes a recovery tree that is not pinned.             *)
Collected == IF pin = "loose" THEN "gone" ELSE pin
RetainedPin(kept) == IF refs \subseteq kept THEN pin ELSE Collected

Unpinned == IF pin = "pinned" THEN "loose" ELSE pin

Init ==
    /\ conv = <<>> /\ ledger = <<>> /\ points = <<>>
    /\ files = [f \in Files |-> 0]
    /\ journal = {} /\ tx = {}
    /\ shots = [t \in Turns |-> [before |-> files, after |-> files]]
    /\ refs = {} /\ pin = "none"
    /\ phase = "Ready" /\ unavailable = FALSE /\ active = 0
    /\ job = NoJob /\ queue = <<>> /\ holder = "none"
    /\ nextTurn = 1 /\ faults = <<>> /\ crashes = 0

----------------------------------------------------------------------------
(* Turns.                                                                  *)

(* Submit opens a turn.  Any driver that holds a handle may send one at    *)
(* any time, a job reporting back too, and the handler asks whether the    *)
(* agent is there, never whether the runtime is Reconfiguring.  The tree   *)
(* captured first may be what makes the store collect.                     *)
Submit ==
    /\ job = NoJob /\ active = 0
    /\ phase \in {"Ready", "Reconfiguring"}
    /\ nextTurn <= MaxTurns
    /\ active' = nextTurn
    /\ nextTurn' = nextTurn + 1
    /\ conv' = Append(conv, nextTurn)
    /\ shots' = [shots EXCEPT ![nextTurn].before = files]
    /\ phase' = "InTurn"
    /\ pin' \in {pin, Collected}
    /\ UNCHANGED <<files, ledger, journal, refs, points, unavailable,
                   job, queue, holder, tx, faults, crashes>>

(* A tool of the running turn writes a file.                               *)
TurnWrites(f) ==
    /\ active # 0 /\ files[f] # active
    /\ files' = [files EXCEPT ![f] = active]
    /\ UNCHANGED <<conv, ledger, journal, shots, refs, pin, process, tx,
                   nextTurn, faults, crashes>>

(* turn_complete: the point is pushed, the refs of the old and the new     *)
(* ledger are kept, the ledger is saved, then the old refs go.  A ledger   *)
(* that cannot be saved costs the point.  The hook's rewind lock makes it  *)
(* wait for a transaction's blocking task, the commit's excepted.          *)
TurnEnds ==
    /\ active # 0 /\ job.kind \in {"none", "commit", "undo"}
    /\ shots' = [shots EXCEPT ![active].after = files]
    /\ active' = 0
    /\ phase' = IF phase = "InTurn" THEN "Ready" ELSE phase
    /\ LET next == Append(points, active)
       IN \/ /\ points' = next /\ ledger' = next
             /\ refs' = (refs \cup {active}) \cap Range(next)
             /\ pin' = RetainedPin(Range(next))
             /\ UNCHANGED faults
          \/ /\ WriteFails(ledger, ledger', next)
             /\ refs' = refs \cap Range(points) /\ pin' = Collected
             /\ UNCHANGED points
    /\ UNCHANGED <<conv, files, journal, unavailable, job, queue, holder, tx,
                   nextTurn, crashes>>

----------------------------------------------------------------------------
(* begin_rewind.                                                           *)

(* The conversation up to a turn, which it holds once. *)
Before(t) == SubSeq(conv, 1, (CHOOSE k \in DOMAIN conv : conv[k] = t) - 1)

(* The points of the turns before t. *)
Older(s, t) ==
    LET kept[n \in 0..Len(s)] ==
            IF n = 0 THEN <<>>
            ELSE IF s[n] < t THEN Append(kept[n - 1], s[n])
            ELSE kept[n - 1]
    IN  kept[Len(s)]

(* The files the plan restores: those that differ between the tree before  *)
(* the turn and the tree after the latest one.                             *)
Changed(t) == {f \in Files : shots[t].before[f] # shots[Last(points)].after[f]}

Plan(t, scope) ==
    [scope |-> scope, turn |-> t, next |-> nextTurn,
     disk |-> ledger, prev |-> points, kept |-> Older(points, t),
     recovery |-> files, restored |-> IF scope = "conversation" THEN {} ELSE Changed(t),
     orig |-> conv, target |-> IF scope = "code" THEN conv ELSE Before(t)]

Offered(t, scope) ==
    /\ job = NoJob /\ holder = "none" /\ queue = <<>>
    /\ active = 0 /\ phase = "Ready" /\ ~unavailable
    /\ t \in Range(points)
    /\ scope # "code" => t \in Range(conv)
    /\ scope # "conversation" => {t, Last(points)} \subseteq refs

(* A file that is not as the latest point left it: prepare_restore has     *)
(* pinned the tree it captured and refuses.                                *)
Conflicts(t, scope) ==
    scope # "conversation" /\ \E f \in Changed(t) : files[f] # shots[Last(points)].after[f]

BeginRefused(t, scope) ==
    /\ Offered(t, scope) /\ Conflicts(t, scope)
    /\ pin' = "pinned"
    /\ UNCHANGED <<conv, files, ledger, journal, shots, refs, process, tx,
                   nextTurn, faults, crashes>>

(* BeginRewind with its checks and prepare_restore: nothing is changed yet *)
(* but the pin that keeps the tree captured for the way back.              *)
Begin(t, scope) ==
    /\ Offered(t, scope) /\ ~Conflicts(t, scope)
    /\ tx = {}                      \* bound: one rewind per behaviour
    /\ tx' = {Plan(t, scope)}
    /\ pin' = IF scope = "conversation" THEN pin ELSE "pinned"
    /\ job' = [NoJob EXCEPT !.kind = "begin", !.at = "journal"]
    /\ holder' = "begin" /\ phase' = "Reconfiguring"
    /\ UNCHANGED <<conv, files, ledger, journal, shots, refs, points, unavailable,
                   active, queue, nextTurn, faults, crashes>>

At(kind, place) == job.kind = kind /\ job.at = place
Move(place, todo) == job' = [job EXCEPT !.at = place, !.todo = todo]

(* The blocking task ends and the loop publishes the phase it leaves.      *)
Done(ph) == job' = NoJob /\ phase' = ph

(* The answer reaches the driver, unless it has gone.                      *)
Answer(to) == holder' = IF holder = "none" THEN "none" ELSE to

(* A phase another control has set since is left as it is.                 *)
ReadyAgain == IF phase = "Reconfiguring" THEN "Ready" ELSE phase

UnchangedByJob == UNCHANGED <<conv, shots, active, tx, nextTurn, crashes>>

(* The journal is saved before anything else is touched.  A save that      *)
(* fails is reported and the runtime is Ready again, even when the journal *)
(* is in place.                                                            *)
BeginJournal ==
    /\ At("begin", "journal")
    /\ LET entry == {[tx |-> Receipt, committed |-> FALSE]}
       IN \/ /\ journal' = entry /\ UNCHANGED <<faults, phase, holder>>
             /\ Move("files", Receipt.restored)
          \/ /\ WriteFails(journal, journal', entry)
             /\ Done("Ready") /\ Answer("none")
    /\ UNCHANGED <<files, ledger, refs, pin, points, unavailable, queue>>
    /\ UnchangedByJob

(* Restore one file, removing it or checking it out of a tree that must    *)
(* still be there.                                                         *)
RestoreOne(tree) ==
    \E f \in job.todo :
        /\ files' = [files EXCEPT ![f] = tree[f]]
        /\ job' = [job EXCEPT !.todo = @ \ {f}]

BeginFiles ==
    /\ At("begin", "files") /\ RestoreOne(shots[Receipt.turn].before)
    /\ UNCHANGED <<ledger, journal, refs, pin, phase, points, unavailable, queue,
                   holder, faults>>
    /\ UnchangedByJob

(* apply_prepared_restore puts back what it restored, and begin_rewind     *)
(* then clears the journal, whether putting back worked or not.            *)
BeginFilesFail ==
    /\ At("begin", "files") /\ job.todo # {} /\ Fails("untouched")
    /\ Move("back", Receipt.restored)
    /\ UNCHANGED <<files, ledger, journal, refs, pin, phase, points, unavailable,
                   queue, holder>>
    /\ UnchangedByJob

BeginBack ==
    /\ At("begin", "back")
    /\ \/ RestoreOne(Receipt.recovery) /\ UNCHANGED faults
       \/ /\ job.todo # {} /\ Fails("untouched")
          /\ job' = [job EXCEPT !.todo = {}, !.bad = TRUE]
          /\ UNCHANGED files
    /\ UNCHANGED <<ledger, journal, refs, pin, phase, points, unavailable, queue,
                   holder>>
    /\ UnchangedByJob

BeginBackClear ==
    /\ At("begin", "back") /\ job.todo = {}
    /\ \/ /\ journal' = {} /\ pin' = Unpinned /\ UNCHANGED faults
          /\ Done(IF job.bad THEN "Failed" ELSE "Ready")
       \/ /\ Fails("untouched") /\ Done("Failed")
          /\ UNCHANGED <<journal, pin>>
    /\ Answer("none")
    /\ UNCHANGED <<files, ledger, refs, points, unavailable, queue>>
    /\ UnchangedByJob

(* replace_rewind_points_locked: the refs of both ledgers are kept until   *)
(* the new one is saved; a ledger that could not be saved keeps the old    *)
(* refs only.                                                              *)
LedgerSaved(next) ==
    LET both == Range(points) \cup Range(next)
    IN /\ ledger' = next /\ points' = next
       /\ refs' = refs \cap both /\ pin' = RetainedPin(both)
       /\ UNCHANGED faults

LedgerFails(next) ==
    /\ WriteFails(ledger, ledger', next)
    /\ refs' = refs \cap Range(points)
    /\ pin' = RetainedPin(Range(points))
    /\ UNCHANGED points

(* The ledger is cut and the receipt crosses to the driver; if the driver  *)
(* has gone, dropping the guard queues a Recover.                          *)
BeginLedger ==
    /\ At("begin", "files") /\ job.todo = {}
    /\ \/ /\ LedgerSaved(Receipt.kept)
          /\ job' = NoJob /\ Answer("held")
          /\ queue' = IF holder = "none" THEN Append(queue, "recover") ELSE queue
       \/ /\ LedgerFails(Receipt.kept)
          /\ Move("undo", Receipt.restored)
          /\ UNCHANGED <<queue, holder>>
    /\ UNCHANGED <<files, journal, phase, unavailable>>
    /\ UnchangedByJob

BeginUndo ==
    /\ At("begin", "undo")
    /\ \/ RestoreOne(Receipt.recovery) /\ UNCHANGED <<faults, pin, phase, holder>>
       \/ /\ job.todo # {} /\ Fails("untouched")
          /\ pin' = Unpinned /\ Done("Failed") /\ Answer("none")
          /\ UNCHANGED files
    /\ UNCHANGED <<ledger, journal, refs, points, unavailable, queue>>
    /\ UnchangedByJob

BeginUndoClear ==
    /\ At("begin", "undo") /\ job.todo = {}
    /\ \/ journal' = {} /\ Done("Ready") /\ UNCHANGED faults
       \/ Fails("untouched") /\ Done("Failed") /\ UNCHANGED journal
    /\ pin' = Unpinned /\ Answer("none")
    /\ UNCHANGED <<files, ledger, refs, points, unavailable, queue>>
    /\ UnchangedByJob

----------------------------------------------------------------------------
(* ApplyUndo: the conversation's own commit, between begin and finish.     *)

Send(m) == queue' = Append(queue, m)
Reads(m) == job = NoJob /\ queue # <<>> /\ Head(queue) = m /\ queue' = Tail(queue)

UnchangedByUndo == UNCHANGED <<files, ledger, journal, shots, refs, pin, points,
                               unavailable, active, tx, nextTurn, crashes>>

(* A turn opened or completed since: Busy.  (A new generation and a running *)
(* compaction are answered the same way; neither is modelled.)             *)
ApplyBusy ==
    /\ Reads("apply") /\ phase # "Broken"
    /\ active # 0 \/ conv # Receipt.orig
    /\ Answer("err")
    /\ UNCHANGED <<conv, phase, job, faults>>
    /\ UnchangedByUndo

(* The facts that take the conversation back are committed, into the live  *)
(* agent's log or, when the log cannot say them, for a rebuilt agent.      *)
Apply ==
    /\ Reads("apply") /\ phase # "Broken"
    /\ active = 0 /\ conv = Receipt.orig
    /\ conv' = Receipt.target
    /\ \/ phase' = "Ready" /\ Answer("ok") /\ UNCHANGED job
       \/ /\ job' = [NoJob EXCEPT !.kind = "undo", !.at = "rebuild"]
          /\ phase' = "Reconfiguring" /\ UNCHANGED holder
    /\ UNCHANGED faults
    /\ UnchangedByUndo

(* A commit that certainly failed leaves the conversation and is answered  *)
(* as an error; one that is uncertain stops the runtime, which from then   *)
(* on refuses every control.                                               *)
ApplyFails ==
    /\ Reads("apply") /\ phase # "Broken"
    /\ active = 0 /\ conv = Receipt.orig
    /\ \/ Fails("untouched") /\ UNCHANGED <<conv, phase>>
       \/ Fails("replaced") /\ conv' \in {conv, Receipt.target} /\ phase' = "Broken"
    /\ Answer("err")
    /\ UNCHANGED job
    /\ UnchangedByUndo

(* The rebuilt agent is up; or it is not, and the conversation is put back *)
(* before the error is answered.                                           *)
Rebuild ==
    /\ job.kind = "undo"
    /\ \/ Done("Ready") /\ Answer("ok") /\ UNCHANGED <<conv, faults>>
       \/ /\ conv' = Receipt.orig
          /\ Done("Ready") \/ Done("Failed")
          /\ Answer("err") /\ UNCHANGED faults
       \/ Fails("untouched") /\ Done("Broken") /\ Answer("err") /\ UNCHANGED conv
    /\ UNCHANGED queue
    /\ UnchangedByUndo

----------------------------------------------------------------------------
(* FinishRewind.                                                           *)

(* A conversation equal to the target has crossed the commit point.        *)
Crossed(r) == TakesBack(r) /\ conv = r.target

(* Recovery reads the conversation back to ask; a read that fails gives no *)
(* answer (read = FALSE), and none counts as not crossed.                  *)
ReadBack(r, read) ==
    \/ read /\ UNCHANGED faults
    \/ ~read /\ TakesBack(r) /\ Fails("unread")

(* mutant: an abandoned rewind is always taken back. *)
FinishKindCompensates(m, read) == IF m = "recover" THEN "compensate" ELSE m

FinishKind(m, read) ==
    CASE m = "recover" -> IF read /\ Crossed(Receipt) THEN "commit" ELSE "compensate"
      [] OTHER -> m

(* The generation and the resources are asked for first; both answers lose *)
(* the receipt, and come only after another reconfiguration than a rewind. *)
Finish ==
    /\ \E m \in {"commit", "compensate", "recover"}, read \in BOOLEAN :
          /\ Reads(m)
          /\ IF m = "recover" THEN ReadBack(Receipt, read) ELSE read /\ UNCHANGED faults
          /\ job' = [kind |-> FinishKind(m, read), at |-> "start", todo |-> {}, bad |-> FALSE]
    /\ phase # "Broken"
    /\ UNCHANGED <<durable, phase, points, unavailable, active, holder, tx,
                   nextTurn, crashes>>

(* After an uncertain commit nothing but a shutdown is served.             *)
Reject ==
    /\ phase = "Broken" /\ job = NoJob /\ queue # <<>>
    /\ queue' = Tail(queue) /\ Answer("none")
    /\ UNCHANGED <<durable, phase, points, unavailable, active, job, tx,
                   nextTurn, faults, crashes>>

(* commit_rewind: mark the journal, drop the pin, collect the refs of the  *)
(* ledger that is gone, clear the journal.                                 *)
(* mutant: the pin goes before the journal says committed. *)
CommitMarkSkipped ==
    /\ At("commit", "start") /\ Move("unpin", {})
    /\ UNCHANGED <<files, ledger, journal, refs, pin, phase, points, unavailable,
                   queue, holder, faults>>
    /\ UnchangedByJob

CommitMark ==
    /\ At("commit", "start")
    /\ LET entry == {[tx |-> Receipt, committed |-> TRUE]}
       IN \/ /\ journal' = entry /\ UNCHANGED <<faults, phase, holder>>
             /\ Move("unpin", {})
          \/ /\ WriteFails(journal, journal', entry)
             /\ Done("Failed") /\ Answer("none")
    /\ UNCHANGED <<files, ledger, refs, pin, points, unavailable, queue>>
    /\ UnchangedByJob

CommitUnpin ==
    /\ At("commit", "unpin")
    /\ refs' = refs \cap Range(points)
    /\ pin' = IF pin \in {"pinned", "loose"} /\ ~(refs \subseteq Range(points))
              THEN "gone" ELSE Unpinned
    /\ Move("clear", {})
    /\ UNCHANGED <<files, ledger, journal, phase, points, unavailable, queue,
                   holder, faults>>
    /\ UnchangedByJob

FinishClear ==
    /\ job.kind \in {"commit", "compensate"} /\ job.at = "clear"
    /\ \/ journal' = {} /\ Done(ReadyAgain) /\ UNCHANGED faults
       \/ Fails("untouched") /\ Done("Failed") /\ UNCHANGED journal
    /\ Answer("none")
    /\ UNCHANGED <<files, ledger, refs, pin, points, unavailable, queue>>
    /\ UnchangedByJob

(* compensate_rewind: the ledger, then the files, then the pin.            *)
CompensateLedger ==
    /\ At("compensate", "start")
    /\ \/ /\ LedgerSaved(Receipt.prev)
          /\ Move("files", Receipt.restored)
          /\ UNCHANGED <<phase, holder>>
       \/ LedgerFails(Receipt.prev) /\ Done("Failed") /\ Answer("none")
    /\ UNCHANGED <<files, journal, unavailable, queue>>
    /\ UnchangedByJob

(* The recovery tree was collected, or git or the file system fails.       *)
RestoreFails ==
    /\ job.at = "files" /\ UNCHANGED files
    /\ \/ Doing.scope # "conversation" /\ pin = "gone" /\ UNCHANGED faults
       \/ job.todo # {} /\ Fails("untouched")

CompensateFiles ==
    /\ At("compensate", "files")
    /\ \/ RestoreOne(Receipt.recovery) /\ pin # "gone" /\ UNCHANGED <<faults, phase, holder>>
       \/ RestoreFails /\ Done("Failed") /\ Answer("none")
    /\ UNCHANGED <<ledger, journal, refs, pin, points, unavailable, queue>>
    /\ UnchangedByJob

CompensateUnpin ==
    /\ At("compensate", "files") /\ job.todo = {}
    /\ Receipt.scope # "conversation" => pin # "gone"
    /\ pin' = IF Receipt.scope = "conversation" THEN pin ELSE Unpinned
    /\ Move("clear", {})
    /\ UNCHANGED <<files, ledger, journal, refs, phase, points, unavailable, queue,
                   holder, faults>>
    /\ UnchangedByJob

----------------------------------------------------------------------------
(* recover_pending_rewind, when the session is opened again.               *)

(* Recovery goes forward if the journal says committed, or the conversation *)
(* was read (the task is not bad) and has crossed.                         *)
Forward == Entry.committed \/ (~job.bad /\ Crossed(Entry.tx))

(* A recovery that fails leaves the journal for the next opening and only  *)
(* forbids another rewind.                                                 *)
GiveUp == Done("Ready") /\ unavailable' = TRUE

UnchangedByReopen == UNCHANGED <<durable, active, queue, holder, tx, nextTurn, crashes>>

(* The ledger is read, an unreadable one as empty; then the journal and,   *)
(* if there is one, the conversation.                                      *)
Reopen ==
    /\ phase = "Down"
    /\ unavailable' = FALSE
    /\ \/ /\ journal = {} /\ Done("Ready")
          /\ \/ points' = ledger /\ UNCHANGED faults
             \/ points' = <<>> /\ Fails("unread")
       \/ /\ journal # {} /\ phase' = "Opening"
          /\ \E read \in BOOLEAN :
                /\ job' = [NoJob EXCEPT !.kind = "reopen", !.at = "start", !.bad = ~read]
                /\ \/ points' = ledger /\ ReadBack(Entry.tx, read)
                   \/ points' = <<>> /\ read /\ Fails("unread")
    /\ UnchangedByReopen

(* The journal cannot be read. *)
ReopenBlind ==
    /\ phase = "Down"
    /\ points' = ledger /\ GiveUp /\ Fails("unread")
    /\ UnchangedByReopen

ReopenLedger ==
    /\ At("reopen", "start")
    /\ LET next == IF Forward THEN Entry.tx.kept ELSE Entry.tx.prev
       IN \/ /\ LedgerSaved(next)
             /\ Move("files", IF Forward THEN {} ELSE Entry.tx.restored)
             /\ UNCHANGED <<phase, unavailable>>
          \/ LedgerFails(next) /\ GiveUp
    /\ UNCHANGED <<files, journal, queue, holder>>
    /\ UnchangedByJob

ReopenFiles ==
    /\ At("reopen", "files")
    /\ \/ RestoreOne(Entry.tx.recovery) /\ pin # "gone" /\ UNCHANGED <<faults, phase, unavailable>>
       \/ ~Forward /\ RestoreFails /\ GiveUp
    /\ UNCHANGED <<ledger, journal, refs, pin, points, queue, holder>>
    /\ UnchangedByJob

ReopenUnpin ==
    /\ At("reopen", "files") /\ job.todo = {}
    /\ ~Forward /\ Entry.tx.scope # "conversation" => pin # "gone"
    /\ pin' = IF ~Forward /\ Entry.tx.scope = "conversation" THEN pin ELSE Unpinned
    /\ Move("clear", {})
    /\ UNCHANGED <<files, ledger, journal, refs, phase, points, unavailable, queue,
                   holder, faults>>
    /\ UnchangedByJob

ReopenClear ==
    /\ At("reopen", "clear")
    /\ \/ journal' = {} /\ Done("Ready") /\ UNCHANGED <<faults, unavailable>>
       \/ Fails("untouched") /\ GiveUp /\ UNCHANGED journal
    /\ UNCHANGED <<files, ledger, refs, pin, points, queue, holder>>
    /\ UnchangedByJob

(* The process dies: its memory and the controls in flight are lost.       *)
Crash ==
    /\ phase # "Down" /\ crashes < MaxCrashes
    /\ crashes' = crashes + 1
    /\ phase' = "Down" /\ points' = <<>> /\ unavailable' = FALSE /\ active' = 0
    /\ job' = NoJob /\ queue' = <<>> /\ holder' = "none"
    /\ UNCHANGED <<durable, tx, nextTurn, faults>>

----------------------------------------------------------------------------
(* The driver's call, rewind_from_catalog.                                 *)

HolderStep(from, m, to) ==
    /\ holder = from /\ holder' = to /\ Send(m)
    /\ UNCHANGED <<durable, phase, points, unavailable, active, job, tx,
                   nextTurn, faults, crashes>>

AskUndo == HolderStep("held", "apply", "apply") /\ TakesBack(Receipt)

AskCommit ==
    \/ HolderStep("held", "commit", "finish") /\ ~TakesBack(Receipt)
    \/ HolderStep("ok", "commit", "finish")

AskCompensate == HolderStep("err", "compensate", "finish")

(* The call's future is dropped: a guard that still owns the receipt sends *)
(* it back for recovery.                                                   *)
(* mutant: the guard is dropped without a word. *)
DropSilent ==
    /\ holder \in {"begin", "held", "apply", "ok", "err"} /\ holder' = "none"
    /\ UNCHANGED <<durable, phase, points, unavailable, active, job, queue, tx,
                   nextTurn, faults, crashes>>

Drop ==
    \/ \E at \in {"held", "apply", "ok", "err"} : HolderStep(at, "recover", "none")
    \/ /\ holder = "begin" /\ holder' = "none"
       /\ UNCHANGED <<durable, phase, points, unavailable, active, job, queue, tx,
                      nextTurn, faults, crashes>>

----------------------------------------------------------------------------
Begins == \E t \in Turns, scope \in Scopes : Begin(t, scope) \/ BeginRefused(t, scope)
Task ==
    \/ BeginJournal \/ BeginFiles \/ BeginFilesFail \/ BeginBack \/ BeginBackClear
    \/ BeginLedger \/ BeginUndo \/ BeginUndoClear
    \/ Rebuild
    \/ CommitMark \/ CommitUnpin
    \/ CompensateLedger \/ CompensateFiles \/ CompensateUnpin
    \/ FinishClear
    \/ ReopenLedger \/ ReopenFiles \/ ReopenUnpin \/ ReopenClear
Control == Apply \/ ApplyBusy \/ ApplyFails \/ Finish \/ Reject
Driver == AskUndo \/ AskCommit \/ AskCompensate

Next ==
    \/ Submit \/ (\E f \in Files : TurnWrites(f)) \/ TurnEnds
    \/ Begins \/ Task \/ Control \/ Driver \/ Drop
    \/ Crash \/ Reopen \/ ReopenBlind

(* The blocking task runs on, the loop reads its controls, the driver's    *)
(* call goes on, and a session that was closed is opened again.            *)
Spec == Init /\ [][Next]_vars /\ WF_vars(Task \/ Control \/ Driver \/ Reopen)

----------------------------------------------------------------------------
(* Every variable has its type.                                            *)
TypeOK ==
    /\ {conv, ledger, points} \subseteq Seq(Turns)
    /\ files \in Tree
    /\ shots \in [Turns -> [before : Tree, after : Tree]]
    /\ refs \subseteq Turns /\ pin \in {"none", "pinned", "loose", "gone"}
    /\ phase \in {"Ready", "Reconfiguring", "InTurn", "Failed", "Broken", "Down", "Opening"}
    /\ active \in 0..MaxTurns /\ unavailable \in BOOLEAN
    /\ Cardinality(tx) <= 1 /\ Cardinality(journal) <= 1

(* The rewind is over: nothing runs, nothing is queued, no journal is left *)
(* and no turn has started since it began.                                 *)
Settled ==
    /\ tx # {} /\ nextTurn = Receipt.next
    /\ journal = {} /\ job = NoJob /\ queue = <<>> /\ holder = "none"

(* Whatever crashed, failed once or was abandoned on the way, a rewind is  *)
(* settled with the conversation, the worktree and the ledger all taken    *)
(* back, or with the conversation and the worktree as they were: a rewind  *)
(* given up may cost the points it had cut from the ledger.  One failure   *)
(* alone can leave the stores on different sides: recovery could not read  *)
(* the conversation, took that for an answer, and put the files back under *)
(* a conversation that had already been taken back.                        *)
AllOrNothing ==
    (Settled /\ Len(faults) <= 1) =>
        LET r == Receipt
            cut == [f \in Files |-> IF f \in r.restored THEN shots[r.turn].before[f]
                                    ELSE r.recovery[f]]
        IN \/ conv = r.orig /\ files = r.recovery /\ ledger \in {r.disk, r.prev, r.kept}
           \/ conv = r.target /\ files = cut /\ ledger = r.kept
           \/ conv = r.target /\ TakesBack(r) /\ "unread" \in Range(faults)

(* While the journal may still ask for the way back, and a file is not as  *)
(* it was before the rewind, the recovery tree has not been collected,     *)
(* unless two operations failed or a turn ran in between.                  *)
RecoveryKept ==
    \A j \in journal :
        (/\ ~j.committed /\ ~Crossed(j.tx)
         /\ Len(faults) <= 1 /\ nextTurn = j.tx.next
         /\ \E f \in j.tx.restored : files[f] # j.tx.recovery[f])
        => pin # "gone"

(* Nothing has failed, and no turn has run since the rewind began.         *)
Undisturbed == faults = <<>> /\ \A r \in tx : nextTurn = r.next

(* Undisturbed, a journal is cleared in the end, whoever is left to clear  *)
(* it: the driver, its dropped guard, or the next opening.                 *)
JournalResolved == journal # {} ~> (journal = {} \/ ~Undisturbed)

(* Without a failed write, no step of a rewind, of its compensation or of  *)
(* the recovery at the next opening overwrites what a turn wrote after the *)
(* rewind began.                                                           *)
LaterWorkKept ==
    [][(faults = <<>> /\ job # NoJob) =>
          \A f \in Files :
             (files'[f] # files[f] /\ files'[f] # active) => files[f] < Doing.next]_vars
============================================================================
