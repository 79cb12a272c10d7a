------------------------------- MODULE MCBatch -------------------------------
(* Model values for Batch: four keys, an initial tree with a duplicate, *)
(* batches of two, two query threads.                                     *)
EXTENDS Batch, Functions, SequencesExt

MCKeys == {1, 2, 3, 4}
MCInitElems == <<4, 1, 3, 1>>
\* aes_hash::hash gives distinct keys distinct priorities, in any order.
MCPriorities == Bijection(MCKeys, 1..4)
MCQueryThreads == {"q1", "q2"}
MCOneQueryThread == {"q1"}

Ins(k) == [type |-> "insert", arg0 |-> k, arg1 |-> 1]
Del(k) == [type |-> "delete", arg0 |-> k, arg1 |-> 1]
Rng == [type |-> "query", arg0 |-> 1, arg1 |-> 4]
Point(k) == [type |-> "query", arg0 |-> k, arg1 |-> k]

Updates == {Ins(1), Ins(2), Del(3)}

\* Every sequence of three updates, with a range query in any position.
MCWorkloads == {InsertAt(u, i, Rng) : u \in TupleOf(Updates, 3), i \in 1..4}

\* Key 1 is in the initial tree twice; one delete, then a read of key 1.
MCDeleteCountWorkloads == {<<Del(1), Point(1)>>}

\* Key 4 is in the initial tree; a read lands between the two inserts of
\* one batch, the second of which hits that existing key.
MCMidBatchWorkloads == {<<Ins(3), Point(4), Ins(4)>>, <<Ins(3), Rng, Ins(4)>>}
====
