------------------------------ MODULE Contreap ------------------------------
(***************************************************************************)
(* DB::Contreap (src/db/contreap.hpp): the pipelined scheduler of          *)
(* Scheduler composed with the QueryProcessor's query threads and the      *)
(* driver's Close.                                                         *)
(*                                                                         *)
(* The driver (main thread) is the scheduler's master: Insert and Delete   *)
(* issue a task (init_context_); Query issues an OP_NONE task with nop()  *)
(* and pushes the version it returns.  Each query thread runs process_   *)
(* (QueryProcessor):                                                       *)
(* while working_, it drains the queue, and for each query calls          *)
(* processor_function_, which spins in get_snapshot until the block of    *)
(* the version is estimated and then runs find or range_estimate on the   *)
(* root it returned.  Close joins the scheduler's threads (process), then *)
(* the query threads (Stop), then, when log_debug is compiled in, calls   *)
(* get_snapshot(last_version()).                                           *)
(***************************************************************************)
EXTENDS Scheduler, QueryProcessor

CONSTANT LogDebug   \* log_debug evaluates its arguments in this build

VARIABLE master     \* the driver: "run", "stop" (in Stop), "log", "closed"

qVars == <<qpVars, master>>
allVars == <<vars, qVars>>

\* processor_function_ on root t: find(t, l)->val (nullptr when l is
\* absent) for a point, range_estimate otherwise.
NullDeref == -1
ProcessorFunction(t, l, r) ==
    IF l = r
    THEN LET n == FindNode(mem, t, l) IN IF n = Nil THEN NullDeref ELSE mem[n].val
    ELSE RangeEstimate(mem, t, l, r, OpenOpen)

\* Contreap::Init: the scheduler constructed over the built tree, then
\* QueryProcessor::Start (working_ = true, every query thread started).
CInit ==
    /\ Init
    /\ QPInit
    /\ master = "run"

\* Contreap::Insert / Delete / Query: the task is issued by the master
\* (init_context_); a query pushes the version nop() returned.
MasterIssue ==
    /\ master = "run"
    /\ IssueTask
    /\ LET i == issued + 1
       IN IF Op(i) = "OP_NONE"
          THEN Push(i, txs[i].arg0, txs[i].arg1)
          ELSE UNCHANGED <<numQueries, queue>>
    /\ UNCHANGED <<working, qpc, job, answers, master>>

\* Contreap::Close: process() returns once every pipe, the boarder, every
\* worker and the collector have left their loops; then Stop clears
\* working_ and joins the query threads.
Close ==
    /\ master = "run"
    /\ issued = N
    /\ \A k \in Pipes : pipe[k].pc = "end"
    /\ submitted = N
    /\ \A w \in Workers : wk[w].pc = "end"
    /\ committed = N
    /\ Stop
    /\ master' = "stop"
    /\ UNCHANGED vars

StopJoin ==
    /\ master = "stop"
    /\ Joined
    /\ master' = IF LogDebug THEN "log" ELSE "closed"
    /\ UNCHANGED <<vars, queue, numQueries, working, qpc, job, answers>>

\* log_debug("final result", get_snapshot(last_version())->aug).
LogSnapshot ==
    /\ master = "log"
    /\ SnapshotReturns(issued)
    /\ master' = "closed"
    /\ UNCHANGED <<vars, queue, numQueries, working, qpc, job, answers>>

(***************************************************************************)
(* Query threads: QueryProcessor::process_ with processor_function_.      *)
(***************************************************************************)

\* Mutant of GetSnapshot: the spin on num_estimated_ is left out.
GetSnapshotNoWait(th) ==
    /\ qpc[th] = "proc"
    /\ LET q == job[th] IN
       \E seen \in q.ver..issued :
          /\ job' = [job EXCEPT ![th] = [ver |-> q.ver, idx |-> q.idx, l |-> q.l, r |-> q.r,
                                         t |-> IF q.ver > seen THEN Nil ELSE ctx[q.ver].root]]
    /\ qpc' = [qpc EXCEPT ![th] = "ans"]
    /\ UNCHANGED <<vars, queue, numQueries, working, answers, master>>

\* get_snapshot(ver): num_issued_ is a plain size_t the master writes, read
\* here without synchronisation; the read sees a value the master wrote no
\* earlier than the nop() that pushed this query (the queue orders the two),
\* so any of ver..num_issued_.  Then it spins until the block of ver is
\* estimated and returns ctxs_[ver].root.
GetSnapshot(th) ==
    /\ qpc[th] = "proc"
    /\ LET q == job[th] IN
       \E seen \in q.ver..issued :
          /\ q.ver > seen \/ SnapshotReturns(q.ver)
          /\ job' = [job EXCEPT ![th] = [ver |-> q.ver, idx |-> q.idx, l |-> q.l, r |-> q.r,
                                         t |-> IF q.ver > seen THEN Nil ELSE ctx[q.ver].root]]
    /\ qpc' = [qpc EXCEPT ![th] = "ans"]
    /\ UNCHANGED <<vars, queue, numQueries, working, answers, master>>

\* The rest of processor_function_ on the root got, and its return.
Answer(th) ==
    /\ qpc[th] = "ans"
    /\ Return(th, ProcessorFunction(job[th].t, job[th].l, job[th].r))
    /\ UNCHANGED <<vars, master>>

QueryThread(th) ==
    \/ (CheckWorking(th) \/ Dequeue(th)) /\ UNCHANGED <<vars, master>>
    \/ GetSnapshot(th)
    \/ Answer(th)

\* A step of one of the scheduler's own threads.
SchedulerStep ==
    /\ \/ \E k \in Pipes : Pipe(k)
       \/ BoarderSubmit
       \/ \E w \in Workers : Worker(w)
       \/ Commit
    /\ UNCHANGED qVars

\* Close has returned.
Closed ==
    /\ master = "closed"
    /\ UNCHANGED allVars

CNext ==
    \/ MasterIssue
    \/ SchedulerStep
    \/ Close
    \/ StopJoin
    \/ LogSnapshot
    \/ \E th \in QueryThreads : QueryThread(th)
    \/ Closed

\* Every thread is a std::thread that keeps being scheduled: the driver,
\* each scheduler thread and each query thread.
CFairness ==
    /\ WF_allVars(MasterIssue \/ Close \/ StopJoin \/ LogSnapshot)
    /\ \A k \in Pipes : WF_allVars(Pipe(k) /\ UNCHANGED qVars)
    /\ WF_allVars(BoarderSubmit /\ UNCHANGED qVars)
    /\ \A w \in Workers : WF_allVars(Worker(w) /\ UNCHANGED qVars)
    /\ WF_allVars(Commit /\ UNCHANGED qVars)
    /\ \A th \in QueryThreads : WF_allVars(QueryThread(th))

CSpec == CInit /\ [][CNext]_allVars /\ CFairness

(***************************************************************************)
(* Properties                                                              *)
(***************************************************************************)

CTypeOK ==
    /\ TypeOK
    /\ QPTypeOK(1..N, Keys, {"ans"})
    /\ numQueries <= N
    /\ master \in {"run", "stop", "log", "closed"}

\* spec.md 8: a query answers what the transactions before it define.  The
\* answer is computed by a query thread on the root get_snapshot returned,
\* while the pipes and workers go on copying paths and augmenting later
\* versions' nodes, so it checks the whole pipeline end to end: the
\* snapshot is complete, augmented, and never changed after it is served.
AnswersCorrect ==
    \A a \in answers : a.ret = VIndex!Answer(Expected(a.ver), a.l, a.r)

\* Close returns: the scheduler's threads all finish, every query thread
\* leaves its loop once working_ is cleared, and the final get_snapshot's
\* spin ends.
CloseReturns == <>(master = "closed")


\* spec.md 5: the driver waits for full drain; when Close returns, every
\* query pushed before it has been answered by some query thread.
Drained == master = "closed" => {a.idx : a \in answers} = 1..numQueries
====
