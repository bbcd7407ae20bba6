-------------------------- MODULE OneShotRequests --------------------------
(***************************************************************************)
(* What the round-trip broker of the kernel promises a middleware or a     *)
(* tool that asks the driver a question: requests are numbered in order,   *)
(* every request returns at most once, and what it returns is either the   *)
(* degraded value Null or an answer the driver gave for that very number.  *)
(* RequestBroker is shown to implement this specification.                 *)
(***************************************************************************)
EXTENDS Naturals

CONSTANTS
    Answers,        \* the values a driver can answer with
    Null,           \* Value::Null, the degraded answer
    NoReturn,       \* the request has not returned
    MaxRequests     \* bound on the requests ever issued

VARIABLES
    issued,         \* the number of requests issued so far
    given,          \* request -> the answers the driver gave for it
    returned        \* request -> what it returned

vars == <<issued, given, returned>>

Ids == 1..MaxRequests

Init == /\ issued = 0
        /\ given = [i \in Ids |-> {}]
        /\ returned = [i \in Ids |-> NoReturn]

Issue == /\ issued < MaxRequests
         /\ issued' = issued + 1
         /\ UNCHANGED <<given, returned>>

Answer(i, v) == /\ given' = [given EXCEPT ![i] = @ \cup {v}]
                /\ UNCHANGED <<issued, returned>>

Return(i) == /\ i <= issued
             /\ returned[i] = NoReturn
             /\ \E v \in given[i] \cup {Null} :
                   returned' = [returned EXCEPT ![i] = v]
             /\ UNCHANGED <<issued, given>>

Next == \/ Issue
        \/ \E i \in Ids, v \in Answers : Answer(i, v)
        \/ \E i \in Ids : Return(i)

Spec == Init /\ [][Next]_vars
=============================================================================
