--------------------------- MODULE QueryProcessor ---------------------------
(***************************************************************************)
(* DB::QueryProcessor (src/db/include/query_processor.hpp), shared by the *)
(* Sequential and Contreap engines.  The driver pushes a query [ver, idx, *)
(* l, r] under the single producer token, so the moodycamel queue is one  *)
(* FIFO popped from its head.  Each query thread runs process_: while     *)
(* working_, it drains the queue; for each query it calls do_process_,    *)
(* the engine's processor_function_, and appends the result to its        *)
(* results_ vector.  Stop clears working_ and joins the threads.           *)
(*                                                                         *)
(* A query thread's pc is "check" (the outer loop's test of working_),    *)
(* "deq" (try_dequeue_from_producer), "proc" (in do_process_, whose steps *)
(* the engine defines and which ends with Return) and "done".             *)
(***************************************************************************)
EXTENDS Naturals, Sequences

CONSTANT QueryThreads   \* the query threads (-clients)

VARIABLES
    queue,          \* queries_: pushed [ver, idx, l, r], oldest first
    numQueries,     \* num_queries_
    working,        \* working_
    qpc,            \* per query thread: "check", "deq", "proc", ..., "done"
    job,            \* per query thread: the query it holds
    answers         \* results_ of every thread: [idx, ver, l, r, ret]

qpVars == <<queue, numQueries, working, qpc, job, answers>>

NoJob == [none |-> TRUE]

\* The constructor (num_queries_ = 0, working_ = false) followed by Start:
\* working_ = true, then every query thread is started.
QPInit ==
    /\ queue = <<>>
    /\ numQueries = 0
    /\ working = TRUE
    /\ qpc = [th \in QueryThreads |-> "check"]
    /\ job = [th \in QueryThreads |-> NoJob]
    /\ answers = {}

\* Mutant of Push: the query is enqueued with num_queries_ read before its
\* increment.
PushIndexBefore(ver, l, r) ==
    /\ numQueries' = numQueries + 1
    /\ queue' = Append(queue, [ver |-> ver, idx |-> numQueries, l |-> l, r |-> r])

\* Push(ver, l, r): num_queries_++, then enqueue under the producer token
\* with that index.
Push(ver, l, r) ==
    /\ numQueries' = numQueries + 1
    /\ queue' = Append(queue, [ver |-> ver, idx |-> numQueries + 1, l |-> l, r |-> r])

\* Stop, its first half: working_ = false.  The join is the engine's step
\* guarded by Joined.
Stop ==
    /\ working' = FALSE
    /\ UNCHANGED <<queue, numQueries, qpc, job, answers>>

\* Every query thread has left process_.
Joined == \A th \in QueryThreads : qpc[th] = "done"

\* Mutant of CheckWorking: working_ read once and kept, as a plain bool
\* the compiler may hoist out of the loop.
CheckWorkingCached(th) ==
    /\ qpc[th] = "check"
    /\ qpc' = [qpc EXCEPT ![th] = "deq"]
    /\ UNCHANGED <<queue, numQueries, working, job, answers>>

\* process_, the outer loop's test of working_.
CheckWorking(th) ==
    /\ qpc[th] = "check"
    /\ qpc' = [qpc EXCEPT ![th] = IF working THEN "deq" ELSE "done"]
    /\ UNCHANGED <<queue, numQueries, working, job, answers>>

\* try_dequeue_from_producer: take the oldest query, or go back to the
\* outer loop when the queue is empty.
Dequeue(th) ==
    /\ qpc[th] = "deq"
    /\ \/ /\ queue # <<>>
          /\ job' = [job EXCEPT ![th] = Head(queue)]
          /\ queue' = Tail(queue)
          /\ qpc' = [qpc EXCEPT ![th] = "proc"]
       \/ /\ queue = <<>>
          /\ qpc' = [qpc EXCEPT ![th] = "check"]
          /\ UNCHANGED <<job, queue>>
    /\ UNCHANGED <<numQueries, working, answers>>

\* do_process_ returned ret: results_[id-1].push_back({q.idx, ret}), back
\* to the inner loop.
Return(th, ret) ==
    /\ LET q == job[th]
       IN answers' = answers \cup {[idx |-> q.idx, ver |-> q.ver, l |-> q.l, r |-> q.r, ret |-> ret]}
    /\ job' = [job EXCEPT ![th] = NoJob]
    /\ qpc' = [qpc EXCEPT ![th] = "deq"]
    /\ UNCHANGED <<queue, numQueries, working>>

\* The queue holds queries of versions Vers over keys Ks, indexed below
\* num_queries_.
QPTypeOK(Vers, Ks, PCs) ==
    /\ queue \in Seq([ver : Vers, idx : 1..numQueries, l : Ks, r : Ks])
    /\ numQueries \in Nat
    /\ working \in BOOLEAN
    /\ qpc \in [QueryThreads -> {"check", "deq", "proc", "done"} \cup PCs]
====
