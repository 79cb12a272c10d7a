----------------------------- MODULE Sequential -----------------------------
(***************************************************************************)
(* DB::Sequential (src/db/sequential.hpp): the reference engine.  The     *)
(* driver thread applies every operation as one path-copy, producing      *)
(* version ver = num_versions_ + 1 whose root is roots_[ver], and augments *)
(* the new tree before it returns.  A query creates a version equal to the *)
(* one before and is pushed to the QueryProcessor, whose query threads    *)
(* resolve it with processor_function_ on roots_[ver] while the driver    *)
(* goes on path-copying and augmenting later versions.  Close stops the   *)
(* query threads, then, when log_debug is compiled in, logs               *)
(* roots_[num_versions_]->aug.                                             *)
(*                                                                         *)
(* The driver's steps are atomic here: a query thread reads only roots_[v] *)
(* of a pushed version v, written before the push, and nodes of that      *)
(* version, which augment (which stops at initialised aug) never writes.  *)
(***************************************************************************)
EXTENDS Treap, QueryProcessor

CONSTANTS
    Keys,           \* the keys of the workload
    InitElems,      \* the keys of the initial tree, in file order
    Priorities,     \* the priority functions aes_hash::hash may be
    Workloads,      \* the transaction sequences main.cpp may load
    LogDebug        \* log_debug evaluates its arguments in this build

VARIABLES
    txs,            \* the workload of this run (main.cpp txs), never changed
    pry,            \* the priority function of this run (keyed at start)
    mem,            \* the node heap
    roots,          \* roots_: version -> root pointer, for the versions written
    numVersions,    \* num_versions_
    dpc,            \* the driver's pc within an operation (FetchAdd)
    master          \* the driver: "run", "stop" (in Stop), "log", "closed",
                    \* or "nullderef" when the log dereferenced nullptr

seqVars == <<txs, pry, mem, roots, numVersions, dpc, master>>
vars == <<seqVars, qpVars>>

\* What find(t, l)->val yields when find returns nullptr: a dereference of
\* nullptr, kept apart from every counter value.
NullDeref == -1

\* The constructor (num_versions_ = 0), then Sequential::Init:
\* roots_[0] = build_parallel(n, elems) and QueryProcessor::Start.
Init ==
    /\ txs \in Workloads
    /\ pry \in Priorities
    /\ LET b == BuildParallel(InitElems, pry)
       IN /\ mem = b.mem
          /\ roots = [v \in {0} |-> b.ptr]
    /\ numVersions = 0
    /\ dpc = "fetch"
    /\ master = "run"
    /\ QPInit

\* The driver's pc within Insert, Delete and Query: "fetch" before
\* ver = 1 + num_versions_.fetch_add(1), "write" before roots_[ver] is
\* written, "push" before a query's Push.
FetchAdd ==
    /\ dpc = "fetch"
    /\ numVersions < Len(txs)
    /\ numVersions' = numVersions + 1
    /\ dpc' = "write"
    /\ UNCHANGED <<txs, pry, mem, roots, master, qpVars>>

\* roots_[ver] = r, ver = num_versions_ as fetched.
NewVersion(r) ==
    roots' = [v \in 0..numVersions |-> IF v < numVersions THEN roots[v] ELSE r]

\* Mutant of Insert: the new version is published without augment.
InsertNoAugment(k) ==
    LET s == SearchInsert(mem, numVersions, roots[numVersions - 1], pry[k], k)
    IN /\ dpc = "write"
       /\ NewVersion(s.ptr)
       /\ mem' = s.mem
       /\ dpc' = "fetch"
       /\ UNCHANGED <<txs, pry, numVersions, master, qpVars>>

\* Sequential::Insert, after the fetch_add: path-copying insert into
\* roots_[ver], then augment the new tree.
Insert(k) ==
    LET s == SearchInsert(mem, numVersions, roots[numVersions - 1], pry[k], k)
    IN /\ dpc = "write"
       /\ NewVersion(s.ptr)
       /\ mem' = Augmented(s.mem, s.ptr)
       /\ dpc' = "fetch"
       /\ UNCHANGED <<txs, pry, numVersions, master, qpVars>>

\* Sequential::Delete, after the fetch_add.
Delete(k) ==
    LET s == SearchDelete(mem, numVersions, roots[numVersions - 1], pry[k], k)
    IN /\ dpc = "write"
       /\ NewVersion(s.ptr)
       /\ mem' = Augmented(s.mem, s.ptr)
       /\ dpc' = "fetch"
       /\ UNCHANGED <<txs, pry, numVersions, master, qpVars>>

\* Mutant of Query: the query is pushed with the value fetch_add returned,
\* without the 1+.
QueryStaleVersion(l, r) ==
    \/ /\ dpc = "write"
       /\ NewVersion(roots[numVersions - 1])
       /\ dpc' = "push"
       /\ UNCHANGED <<txs, pry, mem, numVersions, master, qpVars>>
    \/ /\ dpc = "push"
       /\ Push(numVersions - 1, l, r)
       /\ dpc' = "fetch"
       /\ UNCHANGED <<txs, pry, mem, roots, numVersions, master, working, qpc, job, answers>>

\* Mutant of Query: the push comes before the write of roots_[ver].
QueryPushFirst(l, r) ==
    \/ /\ dpc = "write"
       /\ Push(numVersions, l, r)
       /\ dpc' = "push"
       /\ UNCHANGED <<txs, pry, mem, roots, numVersions, master, working, qpc, job, answers>>
    \/ /\ dpc = "push"
       /\ NewVersion(roots[numVersions - 1])
       /\ dpc' = "fetch"
       /\ UNCHANGED <<txs, pry, mem, numVersions, master, qpVars>>

\* Sequential::Query, after the fetch_add: roots_[ver] = roots_[ver-1],
\* then the query is pushed with ver.
Query(l, r) ==
    \/ /\ dpc = "write"
       /\ NewVersion(roots[numVersions - 1])
       /\ dpc' = "push"
       /\ UNCHANGED <<txs, pry, mem, numVersions, master, qpVars>>
    \/ /\ dpc = "push"
       /\ Push(numVersions, l, r)
       /\ dpc' = "fetch"
       /\ UNCHANGED <<txs, pry, mem, roots, numVersions, master, working, qpc, job, answers>>

\* The newest version whose root has been written.
LastWritten == IF numVersions \in DOMAIN roots THEN numVersions ELSE numVersions - 1

\* Mutant of ProcessorFunction: the query reads the newest root, not the
\* root of its version.
ProcessorFunctionLatest(ver, l, r) ==
    IF l = r
    THEN LET n == FindNode(mem, roots[LastWritten], l) IN IF n = Nil THEN NullDeref ELSE mem[n].val
    ELSE RangeEstimate(mem, roots[LastWritten], l, r, OpenOpen)

\* processor_function_, after its spin: find(roots_[ver], l)->val when
\* l = r, range_estimate otherwise.
ProcessorFunction(ver, l, r) ==
    IF l = r
    THEN LET n == FindNode(mem, roots[ver], l) IN IF n = Nil THEN NullDeref ELSE mem[n].val
    ELSE RangeEstimate(mem, roots[ver], l, r, OpenOpen)

\* A read of roots_[ver] before the driver wrote it: roots_ is allocated
\* by new[] without initialisation, so the root is an indeterminate
\* pointer; kept apart from every counter value.
Uninit == -2

\* A query thread in do_process_: processor_function_ spins until
\* num_versions_ reaches the query's version, then answers on roots_[ver],
\* whether or not the driver has written it yet.
Process(th) ==
    /\ qpc[th] = "proc"
    /\ numVersions >= job[th].ver
    /\ Return(th, IF job[th].ver \in DOMAIN roots
                  THEN ProcessorFunction(job[th].ver, job[th].l, job[th].r)
                  ELSE Uninit)
    /\ UNCHANGED seqVars

\* main.cpp's loop: the driver calls the operation of the next
\* transaction, whose fetch_add is the first step.
Dispatch ==
    \/ FetchAdd
    \/ /\ dpc \in {"write", "push"}
       /\ LET tx == txs[numVersions] IN
          CASE tx.type = "insert" -> Insert(tx.arg0)
            [] tx.type = "delete" -> Delete(tx.arg0)
            [] tx.type = "query"  -> Query(tx.arg0, tx.arg1)

\* Sequential::Close after the loop: QueryProcessor::Stop clears working_ ...
Close ==
    /\ master = "run"
    /\ numVersions = Len(txs)
    /\ dpc = "fetch"
    /\ Stop
    /\ master' = "stop"
    /\ UNCHANGED <<txs, pry, mem, roots, numVersions, dpc>>

\* ... and joins the query threads.
StopJoin ==
    /\ master = "stop"
    /\ Joined
    /\ master' = IF LogDebug THEN "log" ELSE "closed"
    /\ UNCHANGED <<txs, pry, mem, roots, numVersions, dpc, qpVars>>

\* log_debug("final result: %lu", roots_[num_versions_]->aug).
LogFinal ==
    /\ master = "log"
    /\ master' = IF roots[numVersions] = Nil THEN "nullderef" ELSE "closed"
    /\ UNCHANGED <<txs, pry, mem, roots, numVersions, dpc, qpVars>>

QueryThread(th) ==
    \/ (CheckWorking(th) \/ Dequeue(th)) /\ UNCHANGED seqVars
    \/ Process(th)

\* Close has returned, or the process died in its log.
Closed ==
    /\ master \in {"closed", "nullderef"}
    /\ UNCHANGED vars

Next ==
    \/ Dispatch
    \/ Close
    \/ StopJoin
    \/ LogFinal
    \/ \E th \in QueryThreads : QueryThread(th)
    \/ Closed

\* The driver and every query thread are std::threads that keep being
\* scheduled.  The driver's fairness is taken from Close on: the
\* properties are stated from the end of the workload.
Fairness ==
    /\ WF_vars(Close \/ StopJoin \/ LogFinal)
    /\ \A th \in QueryThreads : WF_vars(QueryThread(th))

Spec == Init /\ [][Next]_vars /\ Fairness

(***************************************************************************)
(* Properties                                                              *)
(***************************************************************************)

InitCount == [k \in Keys |-> Cardinality({i \in DOMAIN InitElems : InitElems[i] = k})]

\* The counters of every version, read off the trees.
Hist == [v \in DOMAIN roots |-> Content(mem, roots[v], Keys)]

VIndex == INSTANCE VersionedIndex WITH hist <- Hist, InitContent <- InitCount

TypeOK ==
    /\ txs \in Workloads
    /\ pry \in Priorities
    /\ mem \in Seq([ver : 0..Len(txs), pry : Nat, key : Keys, val : Nat \ {0},
                    aug : Nat, lch : Nat, rch : Nat])
    /\ numVersions \in 0..Len(txs)
    /\ dpc \in {"fetch", "write", "push"}
    /\ DOMAIN roots = 0..LastWritten
    /\ roots \in [DOMAIN roots -> 0..Len(mem)]
    /\ QPTypeOK(1..numVersions, Keys, {})
    /\ master \in {"run", "stop", "log", "closed", "nullderef"}
    /\ \A a \in answers : a.ret \in Nat \cup {NullDeref, Uninit}

\* The engine implements the versioned index: each Insert, Delete and Query
\* appends the version its transaction defines, and no path copy ever
\* changes a version published before (persistence, spec.md 8).
Refinement == VIndex!Spec

\* Every published snapshot is a treap whose every node carries the sum of
\* its subtree, so that range_estimate may take a cached aggregate.
SnapshotsQueryReady ==
    \A v \in DOMAIN roots :
        /\ IsTreap(mem, roots[v])
        /\ \A n \in Reach(mem, roots[v]) : mem[n].aug = SubtreeSum(mem, n)

\* A resolved query answers what its version holds: the counter of the key,
\* or the sum over the range computed by the four-state range_estimate.
\* Its root was written before it was read: num_versions_, on which
\* processor_function_ spins, is published by the fetch_add before
\* roots_[ver] is written, so only the push coming after the write keeps
\* a query thread from reading an unwritten root.
AnswersCorrect ==
    \A a \in answers :
        a.ret # NullDeref =>
            /\ a.ver \in DOMAIN Hist
            /\ a.ret = VIndex!Answer(Hist[a.ver], a.l, a.r)

\* Once the last operation has returned, Close returns (or dies in its
\* log): every spin of processor_function_ on num_versions_ ends, and
\* every query thread sees working_ cleared and leaves process_, so Stop's
\* join returns.
CloseReturns ==
    (numVersions = Len(txs) /\ dpc = "fetch") ~> master \in {"closed", "nullderef"}

\* No thread dereferences nullptr.  spec.md 4.1: a point lookup of a key
\* never present returns 0, but processor_function_ resolves it by
\* find(t, l)->val; and Close logs roots_[num_versions_]->aug, nullptr once
\* every element has been deleted.
NoNullDeref ==
    /\ \A a \in answers : a.ret # NullDeref
    /\ master # "nullderef"

====
