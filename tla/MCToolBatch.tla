---------------------------- MODULE MCToolBatch ----------------------------
(* ToolBatch for TLC: which batches a model emits.  Reads r1, r2, r3 are      *)
(* parallel_safe, writes w1, w2 are not, x names a tool that is not mounted.  *)
EXTENDS ToolBatch

CONSTANTS MaxCalls, MaxLater

\* an id is the place of its first use: ids are only compared for equality
EmittedIds(n) ==
    {f \in [1..n -> 1..n] : \A i \in 1..n : f[i] = i \/ \E j \in 1..(i - 1) : f[i] = f[j]}

\* in the first batch reads are interchangeable, and so are writes: r2 is used
\* after r1, and so on
Before == [r2 |-> "r1", r3 |-> "r2", w2 |-> "w1"]
EmittedKeys(n) == {g \in [1..n -> Keys] :
    \A i \in 1..n : g[i] \in DOMAIN Before => \E j \in 1..(i - 1) : g[j] = Before[g[i]]}

\* all batches of at most MaxCalls calls, ids repeated or not
MCBatches ==
    UNION {{[i \in 1..n |-> [id |-> f[i], key |-> g[i]]] :
              f \in EmittedIds(n), g \in EmittedKeys(n)} : n \in 1..MaxCalls}

\* later responses repeat what the first one did, or go on
MCLaterBatches ==
    UNION {{[i \in 1..n |-> [id |-> i, key |-> g[i]]] :
              g \in [1..n -> {"r1", "w1", "w2"}]} : n \in 1..MaxLater}
=============================================================================
