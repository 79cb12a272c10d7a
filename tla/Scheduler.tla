----------------------------- MODULE Scheduler ------------------------------
(***************************************************************************)
(* treap::scheduler (src/lib/treap/scheduler.hpp) behind DB::Contreap     *)
(* (src/db/contreap.hpp): the pipelined concurrent engine.                 *)
(*                                                                         *)
(* Task i (version i) is one insert, delete or query of the workload.     *)
(* The master thread creates its context and runs the first level of its  *)
(* path copy (init_context_), then hands it to pipe 1 with a token.  Pipe *)
(* k runs level k of every task in version order, passing a token to pipe *)
(* k+1; the boarder publishes the tokens leaving the last pipe as          *)
(* num_submitted_.  Workers fetch submitted tasks and finish them, one    *)
(* level per stage while the version a level reads from is not committed, *)
(* to completion once it is.  The collector commits the longest prefix of *)
(* finished tasks.  A worker that reaches the end of its block of tasks   *)
(* augments the roots of the block and publishes num_estimated_, on which *)
(* get_snapshot spins.                                                      *)
(*                                                                         *)
(* Every loop iteration of a thread is one action; a spin-wait is the      *)
(* guard of the action that follows it.  A step of update_ that spins on  *)
(* num_committed_ half-way is one action guarded by that wait: the writes *)
(* it makes before the wait are to nodes no other thread reads until the  *)
(* step is over, except the estimating workers (see AugCacheSound).        *)
(***************************************************************************)
EXTENDS Treap

CONSTANTS
    Keys,           \* the keys of the workload
    InitElems,      \* the keys of the initial tree
    Priorities,     \* the priority functions aes_hash::hash may be
    Workloads,      \* the transaction sequences the master may issue
    NumThreads,     \* num_threads given to the scheduler (below 16)
    BlockSize       \* block_size_

VARIABLES
    txs,            \* the workload (num_tasks_ = Len(txs)), never changed
    pry,            \* the priority function of this run
    mem,            \* the node heap
    ctx,            \* ctxs_[0..num_tasks_]
    issued,         \* num_issued_
    tokens,         \* tokens_[0..num_pipes_]
    pipe,           \* per pipe thread: next task pos and pc
    submitted,      \* num_submitted_
    fetched,        \* num_fetched_
    committed,      \* num_committed_
    wk,             \* per worker thread: pc, task_id, stage, block_count, block_start, block_end
    estimated       \* num_estimated_[1..num_workers_]

vars == <<txs, pry, mem, ctx, issued, tokens, pipe, submitted, fetched,
          committed, wk, estimated>>

N == Len(txs)

\* decide_num_pipes_ and decide_num_workers_, for num_threads < 16.
NumPipes == NumThreads \div 2
NumWorkers == IF NumThreads - NumPipes > 0 THEN NumThreads - NumPipes ELSE 1

Pipes == 1..NumPipes
Workers == 1..NumWorkers

\* STAGE_DONE = ~size_t{0}: above every stage a task reaches.
StageDone == 1000

\* The operation, key and priority init_context_ gives task i.
Op(i) == CASE txs[i].type = "insert" -> "OP_INSERT"
           [] txs[i].type = "delete" -> "OP_DELETE"
           [] txs[i].type = "query"  -> "OP_NONE"
Key(i) == txs[i].arg0
Pry(i) == pry[Key(i)]

\* context's default member initialisers.
NewContext ==
    [st |-> "ST_RUNNING", fn |-> "FN_SEARCH", dir |-> "DIR_NONE", t_cur |-> Nil,
     t_past |-> Nil, t_l |-> Nil, t_r |-> Nil, stage |-> 0, root |-> Nil]

\* context::done(): st = ST_DONE, stage = STAGE_DONE (release).
Done(c) == [c EXCEPT !.st = "ST_DONE", !.stage = StageDone]

\* concat_(tp, ctx): one level of process_concat on t_l and t_r; the
\* result p is what it stores into *tp.
Concat(m, c, i) ==
    CASE c.t_l = Nil -> [mem |-> m, c |-> Done(c), p |-> c.t_r]
      [] c.t_r = Nil -> [mem |-> m, c |-> Done(c), p |-> c.t_l]
      [] m[c.t_l].pry > m[c.t_r].pry ->
            [mem |-> WeakCopy(m, c.t_l, i), c |-> [c EXCEPT !.dir = "DIR_RIGHT"], p |-> Len(m) + 1]
      [] OTHER ->
            [mem |-> WeakCopy(m, c.t_r, i), c |-> [c EXCEPT !.dir = "DIR_LEFT"], p |-> Len(m) + 1]

\* Mutant of UpdateWait: a delete unlinks its node without waiting for the
\* version that made it to be committed.
UpdateWaitDeployOnly(m, c, i) ==
    LET t == c.t_past IN
    IF t # Nil /\ ~(m[t].pry > Pry(i)) /\ m[t].key # Key(i) /\ Op(i) = "OP_INSERT"
    THEN m[t].ver ELSE 0

\* The version update_ spins on (num_committed_ >= vdep) before it goes on:
\* unlinking the last occurrence of the key, or deploying a new node, reads
\* the whole subtree of t_past.  0 when it does not spin.
UpdateWait(m, c, i) ==
    LET t == c.t_past IN
    IF /\ t # Nil
       /\ ~(m[t].pry > Pry(i))
       /\ \/ m[t].key = Key(i) /\ Op(i) = "OP_DELETE" /\ m[t].val = 1
          \/ m[t].key # Key(i) /\ Op(i) = "OP_INSERT"
    THEN m[t].ver ELSE 0

\* update_(tp, ctx): one level of search_insert / search_delete against
\* t_past; p is what it stores into *tp.
Update(m, c, i) ==
    LET t == c.t_past
        nw == Len(m) + 1
    IN
    CASE t = Nil /\ Op(i) = "OP_INSERT" ->
            [mem |-> MakeNode(m, i, Pry(i), Key(i)), c |-> Done(c), p |-> nw]
      [] t = Nil -> [mem |-> m, c |-> Done(c), p |-> Nil]
      [] m[t].pry > Pry(i) ->
            [mem |-> WeakCopy(m, t, i),
             c |-> [c EXCEPT !.dir = IF Key(i) < m[t].key THEN "DIR_LEFT" ELSE "DIR_RIGHT"],
             p |-> nw]
      [] m[t].key = Key(i) /\ Op(i) = "OP_INSERT" ->
            [mem |-> [WeakCopy(m, t, i) EXCEPT ![nw].val = @ + 1],
             c |-> [c EXCEPT !.fn = "FN_SETREF"], p |-> nw]
      [] m[t].key = Key(i) /\ m[t].val = 1 ->
            Concat(m, [c EXCEPT !.t_l = m[t].lch, !.t_r = m[t].rch, !.fn = "FN_CONCAT"], i)
      [] m[t].key = Key(i) ->
            [mem |-> [WeakCopy(m, t, i) EXCEPT ![nw].val = @ - 1],
             c |-> [c EXCEPT !.fn = "FN_SETREF"], p |-> nw]
      [] Op(i) = "OP_INSERT" ->
            LET d == ProcessDeploy(m, i, t, Pry(i), Key(i)) IN [mem |-> d.mem, c |-> Done(c), p |-> d.ptr]
      [] OTHER -> [mem |-> m, c |-> Done(c), p |-> t]

\* The child of n on side d, and n with that child set to x.
Child(m, n, d) == IF d = "DIR_LEFT" THEN m[n].lch ELSE m[n].rch
Other(d) == IF d = "DIR_LEFT" THEN "DIR_RIGHT" ELSE "DIR_LEFT"
SetChild(m, n, d, x) == IF d = "DIR_LEFT" THEN SetL(m, n, x) ELSE SetR(m, n, x)

\* The node whose side dir a FN_SEARCH / FN_CONCAT level descends into:
\* t_past, or t_r when going left and t_l when going right in a concat.
Source(c) == CASE c.fn = "FN_SEARCH" -> c.t_past
               [] c.dir = "DIR_LEFT" -> c.t_r
               [] OTHER -> c.t_l

\* The context after moving its source one level down on side dir.
Descend(m, c) ==
    CASE c.fn = "FN_SEARCH" -> [c EXCEPT !.t_past = Child(m, c.t_past, c.dir)]
      [] c.dir = "DIR_LEFT" -> [c EXCEPT !.t_r = Child(m, c.t_r, "DIR_LEFT")]
      [] OTHER -> [c EXCEPT !.t_l = Child(m, c.t_l, "DIR_RIGHT")]

\* The version execute_one_step_ spins on inside update_.
StepWait(m, c, i) == IF c.fn = "FN_SEARCH" THEN UpdateWait(m, Descend(m, c), i) ELSE 0

\* execute_one_step_(ctx) on heap m: one more level of task i.
ExecuteOneStep(m, c, i) ==
    IF c.fn = "FN_SETREF"
    THEN [mem |-> SetR(SetL(m, c.t_cur, m[c.t_past].lch), c.t_cur, m[c.t_past].rch), c |-> Done(c)]
    ELSE LET m1 == SetChild(m, c.t_cur, Other(c.dir), Child(m, Source(c), Other(c.dir)))
             c1 == Descend(m, c)
             u  == IF c.fn = "FN_SEARCH" THEN Update(m1, c1, i) ELSE Concat(m1, c1, i)
         IN [mem |-> SetChild(u.mem, c.t_cur, c.dir, u.p), c |-> [u.c EXCEPT !.t_cur = u.p]]

\* execute_to_complete_(ctx): the rest of task i by the recursive algorithms.
ExecuteToComplete(m, c, i) ==
    IF c.fn = "FN_SETREF"
    THEN [mem |-> SetR(SetL(m, c.t_cur, m[c.t_past].lch), c.t_cur, m[c.t_past].rch), c |-> Done(c)]
    ELSE LET m1 == SetChild(m, c.t_cur, Other(c.dir), Child(m, Source(c), Other(c.dir)))
             c1 == Descend(m, c)
             r  == CASE c.fn = "FN_CONCAT" -> ProcessConcat(m1, i, c1.t_l, c1.t_r)
                     [] Op(i) = "OP_INSERT" -> SearchInsert(m1, i, c1.t_past, Pry(i), Key(i))
                     [] OTHER -> SearchDelete(m1, i, c1.t_past, Pry(i), Key(i))
         IN [mem |-> SetChild(r.mem, c.t_cur, c.dir, r.ptr), c |-> Done(c1)]

RECURSIVE AugmentRoots(_, _, _, _)

\* Mutant of AugmentRoots: the loop stops before start (task_id > start).
AugmentRootsSkipStart(m, c, start, end) ==
    IF start >= end THEN m
    ELSE AugmentRoots(Augmented(m, c[end].root), c, start, end - 1)

\* work_estimate_(start, end): augment the roots of tasks end down to start.
AugmentRoots(m, c, start, end) ==
    IF start > end THEN m
    ELSE AugmentRoots(Augmented(m, c[end].root), c, start, end - 1)

\* block_end for a block starting at start.
BlockEnd(start) == Min({start + BlockSize - 1, N})

(***************************************************************************)
(* Threads                                                                 *)
(***************************************************************************)

\* Contreap::Init: build the initial tree, construct the scheduler with
\* ctxs_[0] done and holding it, and start every thread.
Init ==
    /\ txs \in Workloads
    /\ pry \in Priorities
    /\ LET b == BuildParallel(InitElems, pry)
       IN /\ mem = b.mem
          /\ ctx = [i \in 0..Len(txs) |->
                      IF i = 0 THEN [Done(NewContext) EXCEPT !.root = b.ptr] ELSE NewContext]
    /\ issued = 0
    /\ tokens = [k \in 0..NumPipes |-> 0]
    /\ pipe = [k \in Pipes |-> [pos |-> 1, pc |-> IF Len(txs) = 0 THEN "end" ELSE "take"]]
    /\ submitted = 0
    /\ fetched = 0
    /\ committed = 0
    /\ wk = [w \in Workers |->
               [pc |-> "fetch", task |-> 0, stage |-> 0, count |-> 0,
                start |-> (w - 1) * BlockSize + 1,
                end |-> BlockEnd((w - 1) * BlockSize + 1)]]
    /\ estimated = [w \in Workers |-> 0]

\* init_context_: the master issues the next transaction.  An insert or
\* delete runs its first level against the previous root (possibly spinning
\* on num_committed_ inside update_); a query shares the previous root.
\* Either way one token is passed to pipe 1.
IssueTask ==
    /\ issued < N
    /\ LET i == issued + 1
           c0 == [ctx[i] EXCEPT !.t_past = ctx[i - 1].root]
           u == Update(mem, c0, i)
       IN \/ /\ Op(i) = "OP_NONE"
             /\ ctx' = [ctx EXCEPT ![i] = Done([@ EXCEPT !.root = ctx[i - 1].root])]
             /\ UNCHANGED mem
          \/ /\ Op(i) # "OP_NONE"
             /\ committed >= UpdateWait(mem, c0, i)
             /\ mem' = u.mem
             /\ ctx' = [ctx EXCEPT ![i] = [u.c EXCEPT !.root = u.p, !.t_cur = u.p]]
    /\ issued' = issued + 1
    /\ tokens' = [tokens EXCEPT ![0] = @ + 1]
    /\ UNCHANGED <<txs, pry, pipe, submitted, fetched, committed, wk, estimated>>

\* pipe_thread_(k), taking a token: fetch_sub on tokens_[k-1]; a pipe that
\* took the last one atomic_waits while the counter is ~0.
PipeTake(k) ==
    /\ pipe[k].pc = "take"
    /\ tokens' = [tokens EXCEPT ![k - 1] = @ - 1]
    /\ pipe' = [pipe EXCEPT ![k].pc = IF tokens[k - 1] = 0 THEN "wait" ELSE "run"]
    /\ UNCHANGED <<txs, pry, mem, ctx, issued, submitted, fetched, committed, wk, estimated>>

PipeWake(k) ==
    /\ pipe[k].pc = "wait"
    /\ tokens[k - 1] # -1
    /\ pipe' = [pipe EXCEPT ![k].pc = "run"]
    /\ UNCHANGED <<txs, pry, mem, ctx, issued, tokens, submitted, fetched, committed, wk, estimated>>

\* pipe_thread_(k), running task pos: one level unless the task is done,
\* then a token to pipe k+1 (or to the boarder).
PipeRun(k) ==
    /\ pipe[k].pc = "run"
    /\ LET i == pipe[k].pos
           r == ExecuteOneStep(mem, ctx[i], i)
       IN \/ /\ ctx[i].st = "ST_DONE"
             /\ UNCHANGED <<mem, ctx>>
          \/ /\ ctx[i].st # "ST_DONE"
             /\ committed >= StepWait(mem, ctx[i], i)
             /\ mem' = r.mem
             /\ ctx' = [ctx EXCEPT ![i] = r.c]
    /\ tokens' = [tokens EXCEPT ![k] = @ + 1]
    /\ pipe' = [pipe EXCEPT ![k] = [pos |-> @.pos + 1, pc |-> IF @.pos + 1 > N THEN "end" ELSE "take"]]
    /\ UNCHANGED <<txs, pry, issued, submitted, fetched, committed, wk, estimated>>

\* Mutant of BoarderSubmit: the tokens are read with load, not exchange.
BoarderSubmitNoReset ==
    /\ submitted < N
    /\ tokens[NumPipes] > 0
    /\ submitted' = submitted + tokens[NumPipes]
    /\ UNCHANGED <<txs, pry, mem, ctx, issued, tokens, pipe, fetched, committed, wk, estimated>>

\* boarder_thread_: take every token leaving the last pipe and publish
\* the new count as num_submitted_.
BoarderSubmit ==
    /\ submitted < N
    /\ tokens[NumPipes] > 0
    /\ submitted' = submitted + tokens[NumPipes]
    /\ tokens' = [tokens EXCEPT ![NumPipes] = 0]
    /\ UNCHANGED <<txs, pry, mem, ctx, issued, pipe, fetched, committed, wk, estimated>>

\* Mutant of WorkerFetch: the worker leaves its loop as soon as no task is
\* left, skipping the estimate that follows.
WorkerFetchExitEarly(w) ==
    /\ wk[w].pc = "fetch"
    /\ fetched' = fetched + 1
    /\ wk' = [wk EXCEPT ![w].task = fetched + 1,
                        ![w].pc = IF fetched + 1 > N THEN "end" ELSE "submit"]
    /\ UNCHANGED <<txs, pry, mem, ctx, issued, tokens, pipe, submitted, committed, estimated>>

\* work_update_, first line: fetch the next task id.
WorkerFetch(w) ==
    /\ wk[w].pc = "fetch"
    /\ fetched' = fetched + 1
    /\ wk' = [wk EXCEPT ![w].task = fetched + 1,
                        ![w].pc = IF fetched + 1 > N THEN "est" ELSE "submit"]
    /\ UNCHANGED <<txs, pry, mem, ctx, issued, tokens, pipe, submitted, committed, estimated>>

\* work_update_: spin until the task is submitted, then enter stage 1.
WorkerAwaitSubmit(w) ==
    /\ wk[w].pc = "submit"
    /\ wk[w].task <= submitted
    /\ wk' = [wk EXCEPT ![w].pc = "stage", ![w].stage = 1]
    /\ UNCHANGED <<txs, pry, mem, ctx, issued, tokens, pipe, submitted, fetched, committed, estimated>>

\* work_update_'s stage loop, at its head: leave when the task is done;
\* otherwise store the stage and, when the version t_past was made by is
\* committed, run the task to completion, else go and wait for that task to
\* pass this stage.
WorkerStage(w) ==
    /\ wk[w].pc = "stage"
    /\ LET i == wk[w].task
           c == [ctx[i] EXCEPT !.stage = wk[w].stage]
           vdep == mem[c.t_past].ver
           r == ExecuteToComplete(mem, c, i)
       IN \/ /\ ctx[i].st = "ST_DONE"
             /\ wk' = [wk EXCEPT ![w].pc = "est"]
             /\ UNCHANGED <<mem, ctx>>
          \/ /\ ctx[i].st # "ST_DONE"
             /\ committed >= vdep
             /\ mem' = r.mem
             /\ ctx' = [ctx EXCEPT ![i] = r.c]
             /\ wk' = [wk EXCEPT ![w].pc = "est"]
          \/ /\ ctx[i].st # "ST_DONE"
             /\ committed < vdep
             /\ ctx' = [ctx EXCEPT ![i] = c]
             /\ wk' = [wk EXCEPT ![w].pc = "dep"]
             /\ UNCHANGED mem
    /\ UNCHANGED <<txs, pry, issued, tokens, pipe, submitted, fetched, committed, estimated>>

\* work_update_: once task vdep is past this stage, one more level.
WorkerStep(w) ==
    /\ wk[w].pc = "dep"
    /\ LET i == wk[w].task
           vdep == mem[ctx[i].t_past].ver
           r == ExecuteOneStep(mem, ctx[i], i)
       IN /\ ctx[vdep].stage > wk[w].stage
          /\ committed >= StepWait(mem, ctx[i], i)
          /\ mem' = r.mem
          /\ ctx' = [ctx EXCEPT ![i] = r.c]
    /\ wk' = [wk EXCEPT ![w].pc = "stage", ![w].stage = @ + 1]
    /\ UNCHANGED <<txs, pry, issued, tokens, pipe, submitted, fetched, committed, estimated>>

\* worker_thread_, after work_update_: when the fetched task id reached the
\* end of the worker's block, augment the block's roots, move to its next
\* block and publish the count; then loop while task_id <= num_tasks_.
WorkerEstimate(w) ==
    /\ wk[w].pc = "est"
    /\ LET x == wk[w]
           next == x.start + NumWorkers * BlockSize
       IN \/ /\ x.task >= x.end
             /\ mem' = AugmentRoots(mem, ctx, x.start, x.end)
             /\ estimated' = [estimated EXCEPT ![w] = x.count + 1]
             /\ wk' = [wk EXCEPT ![w] = [x EXCEPT !.count = @ + 1, !.start = next,
                                             !.end = BlockEnd(next),
                                             !.pc = IF x.task <= N THEN "fetch" ELSE "end"]]
          \/ /\ x.task < x.end
             /\ wk' = [wk EXCEPT ![w].pc = IF x.task <= N THEN "fetch" ELSE "end"]
             /\ UNCHANGED <<mem, estimated>>
    /\ UNCHANGED <<txs, pry, ctx, issued, tokens, pipe, submitted, fetched, committed>>

\* Mutant of DonePrefix: the scan tests ctxs_[next_committable] instead of
\* ctxs_[next_committable+1], so it runs one task past the done ones.
DonePrefixUnshifted == CHOOSE j \in 0..N : /\ \A i \in 1..j - 1 : ctx[i].stage = StageDone
                                           /\ (j = N \/ ctx[j].stage # StageDone)

\* The longest prefix of tasks 1..j that are all done.
DonePrefix == CHOOSE j \in 0..N : /\ \A i \in 1..j : ctx[i].stage = StageDone
                                  /\ (j = N \/ ctx[j + 1].stage # StageDone)

\* collector_thread_: scan the done tasks after local_committed and store
\* the new count; the scan races the workers, so it may stop anywhere up to
\* the current done prefix.
Commit ==
    /\ committed < N
    /\ \E j \in committed + 1..DonePrefix : committed' = j
    /\ UNCHANGED <<txs, pry, mem, ctx, issued, tokens, pipe, submitted, fetched, wk, estimated>>

\* get_snapshot(ver) returns once num_estimated_ of block_worker exceeds
\* block_pos, with block_id = ver / block_size_.
SnapshotReturns(ver) ==
    LET block_id == ver \div BlockSize
    IN estimated[(block_id % NumWorkers) + 1] > block_id \div NumWorkers

\* process() has joined every thread and every task is committed.
Terminated ==
    /\ issued = N
    /\ committed = N
    /\ \A k \in Pipes : pipe[k].pc = "end"
    /\ \A w \in Workers : wk[w].pc = "end"
    /\ UNCHANGED vars

Pipe(k) == PipeTake(k) \/ PipeWake(k) \/ PipeRun(k)
Worker(w) == WorkerFetch(w) \/ WorkerAwaitSubmit(w) \/ WorkerStage(w) \/ WorkerStep(w) \/ WorkerEstimate(w)

Next ==
    \/ IssueTask
    \/ \E k \in Pipes : Pipe(k)
    \/ BoarderSubmit
    \/ \E w \in Workers : Worker(w)
    \/ Commit
    \/ Terminated

\* Every thread is a std::thread spinning without yielding; the OS keeps
\* scheduling each of them, so each one that stays enabled moves.
Fairness ==
    /\ WF_vars(IssueTask)
    /\ \A k \in Pipes : WF_vars(Pipe(k))
    /\ WF_vars(BoarderSubmit)
    /\ \A w \in Workers : WF_vars(Worker(w))
    /\ WF_vars(Commit)

Spec == Init /\ [][Next]_vars /\ Fairness

(***************************************************************************)
(* Properties                                                              *)
(***************************************************************************)

InitCount == [k \in Keys |-> Cardinality({j \in DOMAIN InitElems : InitElems[j] = k})]

\* The committed versions, read off their trees.
Hist == [v \in 0..committed |-> Content(mem, ctx[v].root, Keys)]

VIndex == INSTANCE VersionedIndex WITH hist <- Hist, InitContent <- InitCount

\* The counters version v must hold.
RECURSIVE Expected(_)
Expected(v) == IF v = 0 THEN InitCount ELSE VIndex!Apply(Expected(v - 1), txs[v])

Stages == 0..N + 2 \cup {StageDone}

TypeOK ==
    /\ txs \in Workloads
    /\ pry \in Priorities
    /\ mem \in Seq([ver : 0..N, pry : Nat, key : Keys, val : Nat \ {0}, aug : Nat,
                    lch : Nat, rch : Nat])
    /\ ctx \in [0..N -> [st : {"ST_RUNNING", "ST_DONE"},
                         fn : {"FN_SEARCH", "FN_SETREF", "FN_CONCAT"},
                         dir : {"DIR_NONE", "DIR_LEFT", "DIR_RIGHT"},
                         t_cur : Nat, t_past : Nat, t_l : Nat, t_r : Nat,
                         stage : Stages, root : Nat]]
    /\ issued \in 0..N
    /\ tokens \in [0..NumPipes -> -1..N]
    /\ pipe \in [Pipes -> [pos : 1..N + 1, pc : {"take", "wait", "run", "end"}]]
    /\ submitted \in 0..N /\ fetched \in 0..N + NumWorkers /\ committed \in 0..N
    /\ wk \in [Workers -> [pc : {"fetch", "submit", "stage", "dep", "est", "end"},
                           task : 0..N + NumWorkers, stage : Stages, count : Nat,
                           start : Nat, end : 0..N]]
    /\ estimated \in [Workers -> Nat]

\* The pipeline implements the versioned index: num_committed_ only grows,
\* each newly committed version holds its transaction applied to the one
\* before, and no later task's path copy, run level by level by the master,
\* the pipes and the workers at once, ever changes a committed version.
Refinement == VIndex!Spec

\* A cached aug is the sum of its subtree: augment fills a node's aug once
\* and never again, so a node augmented before its subtree is final keeps a
\* wrong sum for good.
AugCacheSound ==
    \A n \in DOMAIN mem : mem[n].aug # AugUninitialized => mem[n].aug = SubtreeSum(mem, n)

\* Once get_snapshot(ver) of a query returns, the tree of that version is
\* complete (it holds the counters of version ver) and every node of it is
\* augmented with the sum of its subtree, as range_estimate assumes.
SnapshotQueryReady ==
    \A v \in 1..issued :
        (txs[v].type = "query" /\ SnapshotReturns(v)) =>
            /\ Content(mem, ctx[v].root, Keys) = Expected(v)
            /\ \A n \in Reach(mem, ctx[v].root) : mem[n].aug = SubtreeSum(mem, n)

\* Every task is eventually committed and every query's get_snapshot
\* eventually returns: no thread of the pipeline waits forever on another.
Progress ==
    <>(/\ committed = N
       /\ \A v \in 1..N : txs[v].type = "query" => SnapshotReturns(v))

====
