------------------------ MODULE RequestBrokerProofs ------------------------
(* Proofs about RequestBroker for every set of requesters and answers, any  *)
(* bound on ids and on the channel, with and without a request_timeout.     *)
EXTENDS RequestBroker, TLAPS

\* The initial state of the broker satisfies the inductive invariant.
LEMMA InitIInv == Init => IInv
  BY BrokerAssumption DEF Init, IInv, TypeOK, Ownership, Freshness, Provenance,
     WaiterReachable, NoLeak, Busy, Ids, Values, Commands

\* A Respond command carries an id of the table and an answer.
LEMMA RespondShape ==
    ASSUME NEW c \in Commands, c.type = "Respond"
    PROVE  c.id \in Ids /\ c.value \in Answers
  BY DEF Commands, Respond, Cancel

\* Every step of a requester, of the driver and of the session loop preserves
\* the inductive invariant.
LEMMA NextIInv == IInv /\ [Next]_vars => IInv'
<1> SUFFICES ASSUME IInv, [Next]_vars PROVE IInv'
  OBVIOUS
<1> USE BrokerAssumption DEF IInv, TypeOK, Ownership, Freshness, Provenance,
        WaiterReachable, NoLeak, Busy, Ids, Values, broker
<1>0. bounded' = bounded /\ bounded' \in BOOLEAN
  BY DEF Next, vars
<1> USE <1>0
<1>1. ASSUME NEW r \in Requesters, TakeId(r) PROVE IInv'
  <2>1. TypeOK'
    BY <1>1 DEF TakeId
  <2>2. Ownership'
    BY <1>1 DEF TakeId
  <2>3. Freshness' /\ Provenance' /\ WaiterReachable' /\ NoLeak'
    BY <1>1 DEF TakeId
  <2>4. QED
    BY <2>1, <2>2, <2>3
<1>2. ASSUME NEW r \in Requesters, Insert(r) PROVE IInv'
  <2>1. rid[r] \in Ids
    BY <1>2 DEF Insert
  <2>2. TypeOK'
    BY <1>2, <2>1 DEF Insert
  <2>3. Ownership'
    BY <1>2, <2>1 DEF Insert
  <2>4. Freshness' /\ Provenance' /\ WaiterReachable' /\ NoLeak'
    BY <1>2, <2>1 DEF Insert
  <2>5. QED
    BY <2>2, <2>3, <2>4
<1>3. ASSUME NEW r \in Requesters, Receive(r) PROVE IInv'
  <2>1. TypeOK'
    BY <1>3 DEF Receive
  <2>2. Ownership'
    BY <1>3 DEF Receive
  <2>3. Freshness' /\ Provenance' /\ WaiterReachable' /\ NoLeak'
    BY <1>3 DEF Receive
  <2>4. QED
    BY <2>1, <2>2, <2>3
<1>4. ASSUME NEW r \in Requesters, Expire(r) PROVE IInv'
  BY <1>4 DEF Expire
<1>5. ASSUME NEW r \in Requesters, Remove(r) PROVE IInv'
  <2>1. rid[r] \in Ids
    BY <1>5 DEF Remove
  <2>2. TypeOK'
    BY <1>5, <2>1 DEF Remove
  <2>3. Ownership'
    BY <1>5, <2>1 DEF Remove
  <2>4. Freshness' /\ Provenance'
    BY <1>5, <2>1 DEF Remove
  <2>5. WaiterReachable'
    <3>1. ASSUME NEW q \in Requesters, pc'[q] = "await"
          PROVE  rid'[q] \in pending' \/ oneshot'[rid'[q]] # NoReturn
      <4>1. q # r /\ pc[q] = "await" /\ rid[q] # rid[r]
        BY <1>5, <3>1 DEF Remove
      <4>2. QED
        BY <1>5, <4>1 DEF Remove
    <3>2. QED
      BY <3>1
  <2>6. NoLeak'
    BY <1>5, <2>1 DEF Remove
  <2>7. QED
    BY <2>2, <2>3, <2>4, <2>5, <2>6
<1>6. ASSUME NEW r \in Requesters, DropFuture(r) PROVE IInv'
  BY <1>6 DEF DropFuture
<1>7. ASSUME NEW r \in Requesters, Reuse(r) PROVE IInv'
  BY <1>7 DEF Reuse
<1>8. ASSUME NEW i \in Ids, NEW v \in Answers, SendRespond(i, v) PROVE IInv'
  <2>1. Respond(i, v) \in Commands
    BY DEF Commands
  <2>2. cmds' \in Seq(Commands) /\ TypeOK'
    BY <1>8, <2>1 DEF SendRespond
  <2>3. Provenance'
    <3>1. \A j \in Ids : oneshot'[j] \in given'[j] \cup {Null, NoReturn}
      BY <1>8 DEF SendRespond
    <3>2. ASSUME NEW k \in 1..Len(cmds'), cmds'[k].type = "Respond"
          PROVE  cmds'[k].value \in given'[cmds'[k].id]
      <4>1. CASE k = Len(cmds) + 1
        BY <1>8, <2>1, <4>1 DEF SendRespond, Respond
      <4>2. CASE k \in 1..Len(cmds)
        <5>1. cmds'[k] = cmds[k] /\ cmds[k] \in Commands
          BY <1>8, <2>1, <4>2 DEF SendRespond
        <5>2. cmds[k].id \in Ids /\ cmds[k].value \in given[cmds[k].id]
          BY <5>1, <3>2, <4>2, RespondShape
        <5>3. QED
          BY <1>8, <5>1, <5>2 DEF SendRespond
      <4>3. QED
        BY <1>8, <2>1, <4>1, <4>2 DEF SendRespond
    <3>3. QED
      BY <3>1, <3>2
  <2>4. QED
    BY <1>8, <2>2, <2>3 DEF SendRespond
<1>9. CASE SendCancel
  BY <1>9 DEF SendCancel, Commands, Respond, Cancel
<1>10. CASE Resolve
  <2> DEFINE c == Head(cmds)
  <2>1. c \in Commands /\ c.type = "Respond" /\ cmds' = Tail(cmds)
        /\ cmds' \in Seq(Commands) /\ c.value \in given[c.id]
    <3>1. cmds \in Seq(Commands) /\ cmds # <<>> /\ cmds' = Tail(cmds)
          /\ c.type = "Respond"
      BY <1>10 DEF Resolve
    <3>2. Len(cmds) \in Nat /\ 1 \in 1..Len(cmds) /\ c = cmds[1]
      BY <3>1
    <3>3. c \in Commands /\ Tail(cmds) \in Seq(Commands)
      BY <3>1, <3>2
    <3>4. c.value \in given[c.id]
      BY <3>1, <3>2
    <3>5. QED
      BY <3>1, <3>3, <3>4
  <2>2. c.id \in Ids /\ c.value \in Answers
    BY <2>1, RespondShape
  <2>3. \A k \in 1..Len(cmds') : cmds'[k] = cmds[k + 1] /\ k + 1 \in 1..Len(cmds)
    BY <1>10, <2>1 DEF Resolve
  <2>4. CASE c.id \in pending
    <3>1. /\ pending' = pending \ {c.id}
          /\ oneshot' = [oneshot EXCEPT ![c.id] = c.value]
          /\ UNCHANGED <<nextId, pc, rid, given, returned>>
      BY <1>10, <2>4 DEF Resolve
    <3> HIDE DEF c
    <3>2. TypeOK'
      BY <2>1, <2>2, <3>1
    <3>3. Ownership' /\ Freshness' /\ WaiterReachable' /\ NoLeak'
      BY <2>1, <2>2, <2>4, <3>1
    <3>4. Provenance'
      BY <2>1, <2>2, <2>3, <3>1
    <3>5. QED
      BY <3>2, <3>3, <3>4
  <2>5. CASE c.id \notin pending
    <3>1. UNCHANGED <<nextId, pending, oneshot, pc, rid, given, returned>>
      BY <1>10, <2>5 DEF Resolve
    <3>2. QED
      BY <2>1, <2>3, <3>1
  <2>6. QED
    BY <2>4, <2>5
<1>11. CASE CancelPending
  BY <1>11 DEF CancelPending, Commands, Respond, Cancel
<1>12. CASE UNCHANGED vars
  BY <1>12 DEF vars
<1>13. QED
  BY <1>1, <1>2, <1>3, <1>4, <1>5, <1>6, <1>7, <1>8, <1>9, <1>10, <1>11, <1>12
     DEF Next

\* The table of request.rs is typed in every reachable state.
THEOREM TypeCorrect == Spec => []TypeOK
<1>1. Spec => []IInv
  BY InitIInv, NextIInv, PTL DEF Spec
<1>2. IInv => TypeOK
  BY DEF IInv
<1>3. QED
  BY <1>1, <1>2, PTL

\* No wake-up is lost: whoever awaits in request() can be reached by Respond or
\* Cancel, or its answer is already in its oneshot.
THEOREM NoLostWaiter == Spec => []WaiterReachable
<1>1. Spec => []IInv
  BY InitIInv, NextIInv, PTL DEF Spec
<1>2. IInv => WaiterReachable
  BY DEF IInv
<1>3. QED
  BY <1>1, <1>2, PTL

\* A request that returned left no Sender in the table, whichever of Respond,
\* Cancel and the timeout came first.
THEOREM NothingLeaks == Spec => []NoLeak
<1>1. Spec => []IInv
  BY InitIInv, NextIInv, PTL DEF Spec
<1>2. IInv => NoLeak
  BY DEF IInv
<1>3. QED
  BY <1>1, <1>2, PTL

\* Every step of the broker is a step of the one-shot promise or a stutter.
LEMMA StepPromise == IInv /\ [Next]_vars => [Promise!Next]_(Promise!vars)
<1> SUFFICES ASSUME IInv, [Next]_vars PROVE [Promise!Next]_(Promise!vars)
  OBVIOUS
<1> USE BrokerAssumption DEF IInv, TypeOK, Ownership, Freshness, Provenance,
        Busy, Ids, Values, broker, Promise!vars, Promise!Ids
<1>1. ASSUME NEW r \in Requesters, TakeId(r) PROVE Promise!Next
  BY <1>1 DEF TakeId, Promise!Next, Promise!Issue
<1>2. ASSUME NEW r \in Requesters,
             Insert(r) \/ Expire(r) \/ DropFuture(r) \/ Reuse(r)
      PROVE  UNCHANGED Promise!vars
  BY <1>2 DEF Insert, Expire, DropFuture, Reuse
<1>3. ASSUME NEW r \in Requesters, Receive(r) PROVE Promise!Next
  <2>1. rid[r] \in Ids /\ rid[r] <= nextId - 1 /\ returned[rid[r]] = NoReturn
    BY <1>3 DEF Receive
  <2>2. oneshot[rid[r]] \in given[rid[r]] \cup {Null}
    BY <1>3, <2>1 DEF Receive
  <2>3. Promise!Return(rid[r])
    BY <1>3, <2>1, <2>2 DEF Receive, Promise!Return
  <2>4. QED
    BY <2>1, <2>3 DEF Promise!Next
<1>4. ASSUME NEW r \in Requesters, Remove(r) PROVE Promise!Next
  <2>1. rid[r] \in Ids /\ rid[r] <= nextId - 1 /\ returned[rid[r]] = NoReturn
    BY <1>4 DEF Remove
  <2>2. Promise!Return(rid[r])
    BY <1>4, <2>1 DEF Remove, Promise!Return
  <2>3. QED
    BY <2>1, <2>2 DEF Promise!Next
<1>5. ASSUME NEW i \in Ids, NEW v \in Answers, SendRespond(i, v)
      PROVE  Promise!Next
  BY <1>5 DEF SendRespond, Promise!Next, Promise!Answer
<1>6. CASE SendCancel \/ Resolve \/ CancelPending
  BY <1>6 DEF SendCancel, Resolve, CancelPending
<1>7. CASE UNCHANGED vars
  BY <1>7 DEF vars
<1>8. QED
  BY <1>1, <1>2, <1>3, <1>4, <1>5, <1>6, <1>7 DEF Next

\* RequestCtx implements the one-shot promise: request() returns at most once,
\* with Null or an answer the driver gave for this very id.
THEOREM BrokerRefines == Spec => ImplementsPromise
<1>1. Init => Promise!Init
  BY DEF Init, Promise!Init, Ids, Promise!Ids
<1>2. Spec => []IInv
  BY InitIInv, NextIInv, PTL DEF Spec
<1>3. QED
  BY <1>1, <1>2, StepPromise, PTL DEF Spec, ImplementsPromise
=============================================================================
