---------------------------- MODULE MCContreap ------------------------------
(* Model values for Contreap: those of MCScheduler, with workloads whose  *)
(* query sits in the middle or at the end, and one query thread.  *)
EXTENDS Contreap, MCScheduler

MCQueryThreads == {"q1"}

\* Key 2 above, between or below the initial keys; the initial tree's
\* shape fixed by one order of keys 1 and 3 (the scheduler's runs take
\* both).
MCContreapPriorities == {p \in MCPriorities : p[1] < p[3]}

\* Two updates and a range query: the query second, or last after two
\* different updates.
MCContreapWorkloads ==
    {<<a, Qry, b>> : a, b \in {Ins(2), Del(1)}}
      \cup {<<a, b, Qry>> : <<a, b>> \in {<<a, b>> \in {Ins(2), Del(1), Del(2)} \X {Ins(2), Del(1), Del(2)} : a # b}}
====
