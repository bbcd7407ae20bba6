--------------------------- MODULE RequestBroker ---------------------------
(***************************************************************************)
(* RequestCtx (crates/atomcode-kernel/src/request.rs): the table of        *)
(* pending round-trips between the middlewares and tools of a turn, which  *)
(* await the driver's answer, and the session loop, which routes Respond   *)
(* commands to them by id and flushes the whole table on Cancel.           *)
(*                                                                         *)
(* A requester is one task that calls request(): a middleware of the turn, *)
(* or a tool holding a Requester, possibly on another thread, so the       *)
(* atomic fetch_add, the locked insert and the event send of request() are *)
(* separate steps.  resolve, cancel_pending and the removal after an       *)
(* expired timeout each run under the lock of the table.                   *)
(***************************************************************************)
EXTENDS Naturals, Sequences, FiniteSets

CONSTANTS
    Requesters,     \* tasks that may be inside request()
    Answers,        \* the values a driver can answer with
    Null,           \* Value::Null
    NoReturn,       \* no value: an empty oneshot, a request not returned
    MaxRequests,    \* bound on the ids handed out
    MaxCommands     \* bound on commands in the driver's channel

ASSUME BrokerAssumption ==
    /\ MaxRequests \in Nat
    /\ MaxCommands \in Nat
    /\ Null \notin Answers
    /\ NoReturn \notin Answers \cup {Null}

VARIABLES
    bounded,        \* TRUE iff request_timeout is Some(d), fixed by the builder
    nextId,         \* RequestCtx::next_id
    pending,        \* ids that own a Sender in RequestCtx::pending
    oneshot,        \* id -> the value sent into its oneshot, or NoReturn
    cmds,           \* commands from the driver the session loop has not read
    pc,             \* requester -> where it is inside request()
    rid,            \* requester -> the id of its current (or last) request
    given,          \* history: id -> answers the driver sent for it
    returned        \* history: id -> what request() returned for it

broker == <<nextId, pending, oneshot>>
vars == <<bounded, nextId, pending, oneshot, cmds, pc, rid, given, returned>>

Ids == 1..MaxRequests
Values == Answers \cup {Null}

Respond(i, v) == [type |-> "Respond", id |-> i, value |-> v]
Cancel == [type |-> "Cancel"]
Commands == {Respond(i, v) : i \in Ids, v \in Answers} \cup {Cancel}

Init == /\ bounded \in BOOLEAN
        /\ nextId = 1
        /\ pending = {}
        /\ oneshot = [i \in Ids |-> NoReturn]
        /\ cmds = <<>>
        /\ pc = [r \in Requesters |-> "idle"]
        /\ rid = [r \in Requesters |-> 0]
        /\ given = [i \in Ids |-> {}]
        /\ returned = [i \in Ids |-> NoReturn]

-----------------------------------------------------------------------------
(* request(): the steps of one requester.                                  *)

\* let id = self.next_id.fetch_add(1, Relaxed)
TakeId(r) == /\ pc[r] = "idle"
             /\ nextId <= MaxRequests
             /\ rid' = [rid EXCEPT ![r] = nextId]
             /\ nextId' = nextId + 1
             /\ pc' = [pc EXCEPT ![r] = "insert"]
             /\ UNCHANGED <<pending, oneshot, cmds, given, returned>>

\* the oneshot channel is created and its sender stored under the id
Insert(r) == /\ pc[r] = "insert"
             /\ pending' = pending \cup {rid[r]}
             /\ pc' = [pc EXCEPT ![r] = "await"]
             /\ UNCHANGED <<nextId, oneshot, cmds, rid, given, returned>>

\* the awaited oneshot holds a value: request() returns it
Receive(r) == /\ pc[r] = "await"
              /\ oneshot[rid[r]] # NoReturn
              /\ returned' = [returned EXCEPT ![rid[r]] = oneshot[rid[r]]]
              /\ pc' = [pc EXCEPT ![r] = "idle"]
              /\ UNCHANGED <<nextId, pending, oneshot, cmds, rid, given>>

\* tokio::time::timeout polls the oneshot first, so it elapses on an empty one
Expire(r) == /\ bounded
             /\ pc[r] = "await"
             /\ oneshot[rid[r]] = NoReturn
             /\ pc' = [pc EXCEPT ![r] = "expired"]
             /\ UNCHANGED <<broker, cmds, rid, given, returned>>

\* mutant: the timeout returns Null and forgets the entry
RemoveLeaves(r) == /\ pc[r] = "expired"
                   /\ returned' = [returned EXCEPT ![rid[r]] = Null]
                   /\ pc' = [pc EXCEPT ![r] = "idle"]
                   /\ UNCHANGED <<nextId, pending, oneshot, cmds, rid, given>>

\* mutant: an expired wait takes its Sender out of the table, holds on to it
\* and waits once more
RemoveWaits(r) == /\ pc[r] = "expired"
                  /\ pending' = pending \ {rid[r]}
                  /\ pc' = [pc EXCEPT ![r] = "await"]
                  /\ UNCHANGED <<nextId, oneshot, cmds, rid, given, returned>>

\* Err(_) arm: the entry is removed under the lock and Null returned, also
\* when a Respond slipped in between the two
Remove(r) == /\ pc[r] = "expired"
             /\ pending' = pending \ {rid[r]}
             /\ returned' = [returned EXCEPT ![rid[r]] = Null]
             /\ pc' = [pc EXCEPT ![r] = "idle"]
             /\ UNCHANGED <<nextId, oneshot, cmds, rid, given>>

\* the future of request() is dropped while it waits (the tool's select!
\* lost to the cancel token, or the whole turn was dropped): its Sender
\* stays in the table
DropFuture(r) == /\ pc[r] = "await"
                 /\ pc' = [pc EXCEPT ![r] = "dropped"]
                 /\ UNCHANGED <<broker, cmds, rid, given, returned>>

\* the task that lost its future is free to ask again
Reuse(r) == /\ pc[r] = "dropped"
            /\ pc' = [pc EXCEPT ![r] = "idle"]
            /\ UNCHANGED <<broker, cmds, rid, given, returned>>

-----------------------------------------------------------------------------
(* The driver and the session loop.                                        *)

\* A driver may answer any id: twice, late, or one that is not out yet.
SendRespond(i, v) == /\ Len(cmds) < MaxCommands
                     /\ cmds' = Append(cmds, Respond(i, v))
                     /\ given' = [given EXCEPT ![i] = @ \cup {v}]
                     /\ UNCHANGED <<broker, pc, rid, returned>>

SendCancel == /\ Len(cmds) < MaxCommands
              /\ cmds' = Append(cmds, Cancel)
              /\ UNCHANGED <<broker, pc, rid, given, returned>>

\* mutant: an answer goes to whichever request is pending
ResolveAny == /\ cmds # <<>>
              /\ Head(cmds).type = "Respond"
              /\ IF pending # {}
                 THEN \E i \in pending :
                         /\ pending' = pending \ {i}
                         /\ oneshot' = [oneshot EXCEPT ![i] = Head(cmds).value]
                 ELSE UNCHANGED <<pending, oneshot>>
              /\ cmds' = Tail(cmds)
              /\ UNCHANGED <<nextId, pc, rid, given, returned>>

\* resolve: whoever still owns the Sender gets the value; a send into a
\* dropped receiver is lost
Resolve == /\ cmds # <<>>
           /\ Head(cmds).type = "Respond"
           /\ LET i == Head(cmds).id IN
                 IF i \in pending
                 THEN /\ pending' = pending \ {i}
                      /\ oneshot' = [oneshot EXCEPT ![i] = Head(cmds).value]
                 ELSE UNCHANGED <<pending, oneshot>>
           /\ cmds' = Tail(cmds)
           /\ UNCHANGED <<nextId, pc, rid, given, returned>>

\* mutant: the drained Senders are put aside, to be dropped with the session,
\* and nobody is told
CancelForgets == /\ cmds # <<>>
                 /\ Head(cmds).type = "Cancel"
                 /\ pending' = {}
                 /\ cmds' = Tail(cmds)
                 /\ UNCHANGED <<nextId, oneshot, pc, rid, given, returned>>

\* mutant: Cancel is read and the table left alone
CancelIgnored == /\ cmds # <<>>
                 /\ Head(cmds).type = "Cancel"
                 /\ cmds' = Tail(cmds)
                 /\ UNCHANGED <<broker, pc, rid, given, returned>>

\* cancel_pending: drain the table, sending Null into every oneshot
CancelPending == /\ cmds # <<>>
                 /\ Head(cmds).type = "Cancel"
                 /\ oneshot' = [i \in Ids |-> IF i \in pending THEN Null
                                                                ELSE oneshot[i]]
                 /\ pending' = {}
                 /\ cmds' = Tail(cmds)
                 /\ UNCHANGED <<nextId, pc, rid, given, returned>>

Next == /\ UNCHANGED bounded
        /\ \/ \E r \in Requesters : TakeId(r) \/ Insert(r) \/ Receive(r)
                                     \/ Expire(r) \/ Remove(r)
                                     \/ DropFuture(r) \/ Reuse(r)
           \/ \E i \in Ids, v \in Answers : SendRespond(i, v)
           \/ SendCancel
           \/ Resolve
           \/ CancelPending

(* The executor polls every runnable requester and the session loop keeps  *)
(* reading its channel; nothing makes the driver answer or cancel.         *)
Keeps(A) == A /\ UNCHANGED bounded

Fairness == /\ \A r \in Requesters : /\ WF_vars(Keeps(Insert(r)))
                                      /\ WF_vars(Keeps(Receive(r)))
                                      /\ WF_vars(Keeps(Expire(r)))
                                      /\ WF_vars(Keeps(Remove(r)))
            /\ WF_vars(Keeps(Resolve))
            /\ WF_vars(Keeps(CancelPending))

Spec == Init /\ [][Next]_vars /\ Fairness

-----------------------------------------------------------------------------
(* Properties.                                                             *)

\* The type of the state of the broker (request.rs).
TypeOK ==
    /\ bounded \in BOOLEAN
    /\ nextId \in 1..(MaxRequests + 1)
    /\ pending \subseteq Ids
    /\ oneshot \in [Ids -> Values \cup {NoReturn}]
    /\ cmds \in Seq(Commands)
    /\ pc \in [Requesters -> {"idle", "insert", "await", "expired", "dropped"}]
    /\ rid \in [Requesters -> 0..MaxRequests]
    /\ given \in [Ids -> SUBSET Answers]
    /\ returned \in [Ids -> Values \cup {NoReturn}]

\* No lost wake-up: whoever waits inside request() either still owns an entry
\* that Respond or Cancel can reach, or already has its value in the oneshot.
WaiterReachable ==
    \A r \in Requesters : pc[r] = "await" =>
        rid[r] \in pending \/ oneshot[rid[r]] # NoReturn

\* No leak: a request that returned (answered, cancelled or timed out) has left
\* no Sender behind in the pending table.
NoLeak == \A i \in Ids : returned[i] # NoReturn => i \notin pending

\* Ids in use by a request that has not returned.
Busy(r) == pc[r] # "idle"

\* The inductive invariant behind the three properties: an id belongs to one
\* request, an entry of the table has an empty oneshot, and every value in a
\* oneshot or on the wire is an answer the driver gave for that id.
Ownership ==
    /\ \A r \in Requesters : rid[r] < nextId
    /\ \A r \in Requesters : Busy(r) => rid[r] # 0 /\ returned[rid[r]] = NoReturn
    /\ \A r, q \in Requesters : Busy(r) /\ Busy(q) /\ rid[r] = rid[q] => r = q
    /\ \A r \in Requesters : pc[r] = "insert" =>
           rid[r] \notin pending /\ oneshot[rid[r]] = NoReturn
Freshness ==
    /\ \A i \in pending : i < nextId /\ oneshot[i] = NoReturn
    /\ \A i \in Ids : i >= nextId => oneshot[i] = NoReturn /\ returned[i] = NoReturn
Provenance ==
    /\ \A i \in Ids : oneshot[i] \in given[i] \cup {Null, NoReturn}
    /\ \A k \in 1..Len(cmds) :
           cmds[k].type = "Respond" => cmds[k].value \in given[cmds[k].id]
IInv == TypeOK /\ Ownership /\ Freshness /\ Provenance
          /\ WaiterReachable /\ NoLeak

\* The broker implements the one-shot promise: a request returns once, with
\* Null or with an answer the driver gave for this id and no other.
Promise == INSTANCE OneShotRequests WITH issued <- nextId - 1
ImplementsPromise == Promise!Init /\ [][Promise!Next]_(Promise!vars)

\* Cancel unblocks: a request waiting while a Cancel is in the channel does not
\* wait for ever, even with no request_timeout and a silent driver.
CancelUnblocks ==
    \A r \in Requesters, i \in Ids :
        (~bounded /\ pc[r] = "await" /\ rid[r] = i /\ \E k \in 1..Len(cmds) : cmds[k] = Cancel)
            ~> ~(pc[r] = "await" /\ rid[r] = i)

\* With a request_timeout every request ends, whatever the driver does.
TimeoutUnblocks ==
    \A r \in Requesters, i \in Ids :
        (bounded /\ pc[r] = "await" /\ rid[r] = i) ~> ~(pc[r] \in {"await", "expired"} /\ rid[r] = i)
=============================================================================
