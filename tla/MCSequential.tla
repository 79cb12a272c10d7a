---------------------------- MODULE MCSequential ----------------------------
(* Model values for Sequential: three keys, the initial tree built from a *)
(* sequence with a duplicate, every workload of three transactions.       *)
EXTENDS Sequential, Functions, SequencesExt

MCKeys == {1, 2, 3}
MCInitElems == <<3, 1, 3>>
\* aes_hash::hash is a permutation of 128-bit blocks: distinct keys get
\* distinct priorities, in any order.
MCPriorities == Bijection(MCKeys, 1..3)
\* Truncated to 64 bits it may collide: priorities with ties.
MCTiedPriorities == [MCKeys -> 1..2]

Updates == [type : {"insert", "delete"}, arg0 : MCKeys, arg1 : {1}]
RangeQueries == {[type |-> "query", arg0 |-> 1, arg1 |-> 3], [type |-> "query", arg0 |-> 2, arg1 |-> 3]}
PointQueries == {[type |-> "query", arg0 |-> 2, arg1 |-> 2]}

MCWorkloads == TupleOf(Updates \cup RangeQueries, 3)
\* Two transactions with a point query, or three deletes emptying the tree.
MCPointWorkloads ==
    TupleOf(Updates \cup PointQueries, 2)
      \cup {<<[type |-> "delete", arg0 |-> 3, arg1 |-> 1],
             [type |-> "delete", arg0 |-> 3, arg1 |-> 1],
             [type |-> "delete", arg0 |-> 1, arg1 |-> 1]>>}
MCShortWorkloads == TupleOf(Updates, 2)
====
