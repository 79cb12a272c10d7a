---------------------------- MODULE MCScheduler -----------------------------
(* Model values for Scheduler: three keys, a two-key initial tree, and    *)
(* workloads of three transactions mixing inserts, deletes and queries.   *)
EXTENDS Scheduler, Functions, SequencesExt

MCKeys == {1, 2, 3}
MCInitElems == <<1, 3>>
\* Distinct priorities: every order of the three keys.
MCPriorities == Bijection(MCKeys, 1..3)

Ins(k) == [type |-> "insert", arg0 |-> k, arg1 |-> 1]
Del(k) == [type |-> "delete", arg0 |-> k, arg1 |-> 1]
Qry == [type |-> "query", arg0 |-> 1, arg1 |-> 3]

\* Three-transaction workloads ending in a query.
MCWorkloads == {<<a, b, Qry>> : a, b \in {Ins(2), Del(1), Del(2)}}

\* The two-worker runs: inserting 2 and deleting it again unlinks a node
\* with two subtrees over several levels; deleting 1 and then inserting 2
\* makes the insert's deploy depend on the delete's nodes.
MCW2Workloads == {<<Ins(2), Del(2), Qry>>, <<Del(1), Ins(2), Qry>>}
====
