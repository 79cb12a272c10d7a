# TLA+ models of Contreap

This directory holds TLA+ models of the Contreap benchmark in `src/`: a
versioned, persistent treap of key counters, kept by three interchangeable
engines. Each transaction of a workload makes one version. Queries read a
given version. The models are checked with TLC. `PROJECT.json` lists the
components, runs, mutants, findings and hazards in machine-readable form, and
its `map` ties every modelled definition to the source lines it translates.

## The system

| Part | Source | State | Operations |
|---|---|---|---|
| Treap core | `lib/treap/*.hpp` | node heap: `ver, pry, key, val, aug, lch, rch` | `make_node`, `make_weak_copy`, `search_insert` (`split_copy`, `process_deploy`), `search_delete` (`process_concat`), `augment`, `find`, `range_estimate`, `build` (`split`, `merge`), `build_parallel` |
| Sequential engine | `db/sequential.hpp` | `roots_[]`, `num_versions_` | `Insert`, `Delete`, `Query`, `processor_function_`, `Close` |
| Contreap scheduler | `lib/treap/scheduler.hpp`, `db/contreap.hpp` | `ctxs_[]`, `tokens_[]`, `num_issued_`, `num_submitted_`, `num_fetched_`, `num_committed_`, `num_estimated_[]` | master `init_context_`; pipe, boarder, worker and collector threads; `get_snapshot` |
| Batch engine | `db/batch.hpp` | operation buffer, `root_list` chain, `num_versions_` | `update_enbuffer_`, `do_update_`, `process_range_query_` |
| PAM versioned tree | `lib/pam/*.hpp` | nodes with a `(val, ver)` history and a `vstat` watermark | `build`, `build_versioned`, `copy_merge`, `copy_subtract`, `augment`, `find`, `range_estimate` |
| QueryProcessor | `db/include/query_processor.hpp` | queue, `num_queries_`, `working_`, per-thread results | `Start`, `Push`, `Stop`, the query threads' `process_` |
| Driver | `main.cpp` | the transaction array | the loop over transactions, then `Close` |
| `aes_hash` | `lib/aes_hash.hpp` | AES keys | key → priority |

How the parts interact:
- The driver runs one modifier thread. It calls `Insert`, `Delete` and `Query` on an engine, then `Close`.
- Each engine pushes its queries into a QueryProcessor. The query threads answer them with the engine's `processor_function_` against the snapshot of the query's version.
- In the Contreap engine, `Insert`/`Delete`/`Query` hand a task to the scheduler. A task's path copy is split into levels:
  - the master runs level 1;
  - pipe k runs level k+1 of every task, in version order;
  - a worker finishes the task, level by level while the version its current node came from is not committed, and to completion once it is.
- Threads pass tasks along as tokens. A worker waits for the older task it depends on to pass the same stage. The collector commits the longest prefix of finished tasks.
- Workers augment the roots of their blocks of `block_size_` tasks. `get_snapshot` spins until the block holding the version has been augmented.

### What is hard

- **Scheduler.** Several threads build different versions of one persistent tree at the same time. Correctness depends on four waits:
  - stage alignment (`work_update_`);
  - the commit waits inside `update_` before a concat or a deploy;
  - the contiguous-prefix commit;
  - the estimate counters `get_snapshot` spins on.

  None of these orders shows up in a unit test.
- **Aggregate cache.** `augment` fills `aug` once and never recomputes it. A node augmented before its subtree is final keeps a wrong sum for good.
- **Priorities.** They are 64-bit truncations of an AES state. Ties are possible, and the algorithms treat a tie like "lower".
- **QueryProcessor shutdown.** `Stop` races the query threads' last test of `working_`.
- **Batch engine.** Several versions are committed at once as one batch. Each node keeps a `(val, ver)` history, and the cached `aug` is valid only at versions at or above the subtree's `vstat`. Query threads walk the `root_list` chain with thread-local cursors while the modifier appends entries to it.

## Modules

| Module | Models | How state and actions correspond |
|---|---|---|
| `Treap` | treap core | The heap `m` is a sequence of node records. A pointer is an index and `Nil = 0`. Each algorithm is a pure operator returning the new heap and its result (`[mem, ptr]`). The recursion follows the C++ recursion. `Reach`, `Content`, `SubtreeSum` and `IsTreap` are the reference definitions the properties use. |
| `VersionedIndex` | abstract spec of every engine | `hist` maps each published version `0..n` to its key counters. `Publish` appends one or more versions, each being its transaction (`txs[v]`) applied to the version before, and never changes older ones. |
| `QueryProcessor` | `DB::QueryProcessor` | `queue` (one FIFO, since every push uses the one producer token), `numQueries`, `working`, and per query thread a pc `qpc` and the query it holds. `QPInit` is the constructor plus `Start`, `Push` is `Push`, `Stop` clears `working_` and `Joined` is what `Stop`'s joins wait for. `CheckWorking` and `Dequeue` are `process_`'s two loops. An engine supplies the steps of `do_process_` from pc `"proc"`, ending with `Return` (the push to `results_`). |
| `Sequential` | `DB::Sequential` plus the driver loop | Extends `Treap` and `QueryProcessor`. `Dispatch` runs the next transaction in the driver's steps (`dpc`): `FetchAdd` is `ver = 1 + num_versions_.fetch_add(1)`; then `Insert`/`Delete` write `roots_[ver]` by a path copy and augment it, and `Query` writes `roots_[ver] = roots_[ver-1]` and, as a further step, `Push`es. `roots` holds only the versions written so far. A query thread's `Process` is `processor_function_`: its spin on `num_versions_` is the guard, then `find` or `range_estimate` on `roots_[ver]`, or `Uninit` if that root has not been written. `Close` is `Stop`, `StopJoin` the joins, and `LogFinal` the `log_debug` of `roots_[num_versions_]->aug`, which ends in `"nullderef"` when that root is nullptr. `Hist` maps the trees to `VersionedIndex`. |
| `Scheduler` | `treap::scheduler` under `DB::Contreap` | The variables are the scheduler's fields plus a pc per pipe and per worker. Actions by thread: `IssueTask` (master, `init_context_`); `PipeTake`/`PipeWake`/`PipeRun` (`pipe_thread_`); `BoarderSubmit`; `WorkerFetch`/`WorkerAwaitSubmit`/`WorkerStage`/`WorkerStep`/`WorkerEstimate` (`work_update_`, `worker_thread_`); `Commit` (collector). `Update`, `Concat`, `ExecuteOneStep` and `ExecuteToComplete` translate `update_`, `concat_`, `execute_one_step_` and `execute_to_complete_`. `SnapshotReturns(v)` is the condition `get_snapshot(v)` spins on. |
| `Contreap` | `DB::Contreap`: `Scheduler` plus `DB::QueryProcessor`'s query threads and `Close` | Extends `Scheduler` and `QueryProcessor`. `MasterIssue` is `Insert`/`Delete`/`Query`: `IssueTask`, plus `Push` (`QueryProcessor::Push`) of the version `nop()` returned for a query. The query threads run `process_`'s loops (`CheckWorking`, `Dequeue`), then `GetSnapshot` (the racy read of `num_issued_` and the spin on `num_estimated_`) and `Answer` (`find` or `range_estimate` on the root returned). `Close` is `process()` joining the scheduler's threads then `Stop` clearing `working_`. `StopJoin` joins the query threads, and `LogSnapshot` is the final `get_snapshot(last_version())`. The scheduler's own threads take `SchedulerStep`s. |
| `Pam` | `pam::` versioned tree | The same heap-of-records style as `Treap`, but a node's `vals` is a sequence of `[val, ver]` and it has a `vstat`. `MergeWith` is `merge` and `merge_versioned` (a flag picks `AddFirstVal` or `MergeValues`). `CopyMerge`, `CopySplit`, `CopySubtract`, `CopyConcat` and `MakeCopyIfNeed` translate the copying operations. `Augment` sets `aug` and `vstat` bottom-up. `FindValue`, `Find` and `RangeEstimate` are the versioned queries. `Inserted`/`Deleted` are `interface::inserted`/`deleted`. `RangeByFind` is the reference that range sums are checked against. |
| `Batch` | `DB::Batch<pam::interface>` plus the driver loop | Extends `Pam` and `QueryProcessor`. The modifier's fields are variables. `Dispatch` runs the next transaction: `UpdateEnbuffer` for an insert or delete (flushing on a type switch and on a full buffer, through `DoUpdate`), or `Push` of `version_submitted_` for a query. `Close` flushes a partial buffer and calls `Stop` (`working_ = false`); `StopJoin` is `Stop`'s join, enabled once every query thread has left `process_`. The query threads run `process_`'s loops (`CheckWorking`, `Dequeue`) and then `process_range_query_`: each thread's `cursor` is its thread-local `cur_vid`/`last_vid`, `StepBack` is the walk-back loop, `Advance` and `Reload` are the two forward loops, and `Answer` runs `find` or `range_estimate` on the entry reached and `Return`s the result. |
| `MCSequential`, `MCScheduler`, `MCBatch`, `MCContreap` | model values | Keys, initial tree, priority functions and workloads. |

Modelling choices:
- **Spin-waits.** Each spin-wait is the guard of the action that follows it.
- **A step of `update_` that spins half-way on `num_committed_`** is one action guarded by that wait. The writes it makes before the wait go to a node of its own task, which no other task reads until the step ends.
- **Memory orders.** All atomics use acquire/release around these waits, so the model's interleaving of whole steps is the behaviour they allow.
- **Priorities.** `aes_hash` is abstracted to a priority function `pry` chosen at start. `Bijection(Keys, 1..3)` gives distinct priorities; `[Keys -> 1..2]` allows ties.
- **The data race on `num_issued_`.** `get_snapshot` reads it unsynchronised. `GetSnapshot` lets the read return any value from the query's version up to the current one. The query was pushed after its `nop()`, and the queue's release/acquire orders the push before the read, so no older value is possible. The `nullptr` branch is therefore never taken.
- **The Sequential driver's steps.** `Query`, `Insert` and `Delete` publish `num_versions_` before they write `roots_[ver]`, and `processor_function_` waits only on `num_versions_`. The fetch_add, the write (with its path copy and `augment`) and a query's push are therefore separate steps, and a query thread may run between them. A read of an unwritten `roots_[ver]` (an uninitialised `new[]` element) answers `Uninit`. The path copy and `augment` stay in one step: they write only nodes of the new version, which no query thread reads before a later push.
- **Parallel sub-steps.** The `par_do` branches of `build`, `merge` and `augment_parallel` work on disjoint subtrees, so they run one after the other.

## Runs

| Run | Config | Expect | What it shows |
|---|---|---|---|
| `seq_engine` | `MCSequential.cfg` | pass | The sequential engine refines `VersionedIndex`. Every snapshot is a treap whose every `aug` is its subtree sum (`SnapshotsQueryReady`). Every answer a query thread computes, while the driver goes on copying and augmenting later versions, was computed on a written root and equals the abstract answer for its version (`AnswersCorrect`, which covers all four cover states of `range_estimate`, and, through the mutant that pushes before writing, the publication order of `num_versions_` and `roots_[ver]`). Once the workload is done, `Close` returns (`CloseReturns`). |
| `seq_point_absent` | `MCSequentialPoint.cfg` | violation | A point query of an absent key dereferences `find`'s nullptr (`NoNullDeref`). |
| `seq_tied_priorities` | `MCSequentialTies.cfg` | violation | With tied priorities, a delete of a present key is ignored (`Refinement`). |
| `sched_pipeline` | `MCScheduler.cfg` | pass | 1 pipe and 1 worker (`num_threads = 2`, block 1). The committed versions refine `VersionedIndex`, no cached `aug` is ever wrong, a snapshot `get_snapshot` returns is complete and augmented, and every task commits and every snapshot wait returns (`Progress`). |
| `sched_two_workers` | `MCSchedulerW2.cfg` | pass | 1 pipe and 2 workers (`num_threads = 3`, block 2). With two workers, stage alignment and the commit waits still give exactly the sequential versions (`Refinement`). |
| `sched_estimate_race` | `MCSchedulerAugCacheSound.cfg` | violation | 2 workers. A worker augments its block while a task the block shares nodes with is still being built by the other worker (`AugCacheSound`). |
| `batch_engine` | `MCBatch.cfg` | pass | Every root in the chain is a treap whose `range_estimate` equals the sum of `find`s at every version it covers (`SnapshotsConsistent`). No step changes a published root (`Persistence`). Once `Close` has called `Stop`, it returns (`CloseReturns`): its flush commits the last partial batch, so a thread spinning in `process_range_query_` on one of its versions reaches it, returns to `process_` and sees `working_` cleared. Without the flush (mutant `CloseNoFlush`) the thread spins forever and the join hangs. |
| `batch_delete_count` | `MCBatchDeleteCount.cfg` | violation | A delete of a key held twice makes it absent (`AnswersCorrect`). |
| `batch_mid_read` | `MCBatchMidBatch.cfg` | violation | A read between two inserts of one batch, the second of an existing key, misses that key's old count (`AnswersCorrect`). |
| `contreap_queries` | `MCContreap.cfg` | pass | 1 pipe, 1 worker, 1 query thread. Every answer a query thread computes on the root `get_snapshot` returned equals what its version holds, while the pipeline goes on copying and augmenting later versions (`AnswersCorrect`). `Close` returns, including the final `get_snapshot` of `log_debug` (`CloseReturns`). |
| `contreap_snapshot_block` | `MCContreapSnapshotBlock.cfg` | violation | 2 workers. `get_snapshot(3)` waits on the wrong worker's counter (`ver / block_size_`), and returns once worker 2 has augmented block [2,2]. Worker 2 made that estimate early (`scheduler.hpp:256`), while task 3 was still unbuilt: the root of version 3 is augmented, but key 2's SETREF copy in it still lacks the child task 3 links in later, so its cached sum is short. A range query at version 3 answers 3 where the counters sum to 4 (`AnswersCorrect`). |
| `contreap_drain` | `MCContreapDrain.cfg` | violation | The query thread fails a dequeue, the driver pushes a query and closes, and the thread then sees `working_` cleared and leaves. The query is never answered (`Drained`). |

Every property of a passing run has a mutant in `PROJECT.json`: a plausible slip in the mapped definition, such as a dropped wait, an off-by-one, a missing reset, or a missing clamp. TLC finds the property violated under the run's own cfg.

### Bounds

- **Sequential.**
  - Keys `{1,2,3}`, initial multiset `<<3,1,3>>` (key 3 counted twice, so deletes both decrement and unlink).
  - All 6 distinct priority orders.
  - All workloads of 3 transactions drawn from inserts and deletes of every key and two range queries. This covers deploys at every depth, concats of two subtrees, every cover state of `range_estimate`, and the three deletes that empty the tree before `Close`'s log.
  - One query thread, which races the driver; a second one only reorders the answers, at three times the states. `LogDebug = TRUE`, as for Contreap.
  - `seq_point_absent` takes every two-transaction workload with a point query of key 2, plus the three deletes.
- **Scheduler.**
  - Keys `{1,2,3}`, initial tree `{1,3}`, all 6 priority orders.
  - Workloads `<<a, b, query>>` with `a, b` in {insert 2, delete 1, delete 2}:
    - inserting 2 deploys at the root or below it, depending on priorities;
    - deleting 2 after inserting it concats two non-empty subtrees over several pipelined levels;
    - deleting an absent 2 takes the no-op path;
    - the trailing query is a task whose snapshot `get_snapshot` must serve.
  - The two-worker pass run uses two of these workloads: insert 2 then delete 2 (a concat over two subtrees), and delete 1 then insert 2 (a deploy over the delete's nodes).
  - Three tasks are enough for a task to depend on an unfinished task with a third task behind it in the pipeline.
  - `num_threads = 2` gives one pipe and one worker; `num_threads = 3` gives one pipe and two workers (`decide_num_pipes_`).
  - Block sizes 1 and 2 reach the estimate-now and estimate-later branches of `worker_thread_`.
- **Batch.**
  - Keys `{1,2,3,4}`, initial multiset `<<4,1,3,1>>`, all 24 priority orders. Four keys are needed for `range_estimate` to take the cached-`aug` shortcut on a subtree with children: with three, only leaves are ever fully covered, so `vstat`'s dependence on the children is never read.
  - `BatchSize = 2`, one query thread, workloads of three updates from {insert 1, insert 2, delete 3} with a range query `[1,4]` at any position. Two updates of one kind fill a batch and make two versions share a root. A delete next to an insert flushes on a type switch, and a leading delete flushes an empty buffer.
  - Every workload holds one query, so a second query thread only adds interleavings of the idle thread's `working_` tests (four times the states, beyond a practical liveness check), and the walk-back loop never runs (see below). The violation runs use the one or two workloads that exhibit each finding.
- **Contreap.** The scheduler's keys and initial tree, and the three priority orders with key 1 below key 3 (key 2 deploys at the root, between or below; the scheduler's runs take all six). Workloads are two updates from {insert 2, delete 1} with the range query second, or two different updates from {insert 2, delete 1, delete 2} with it last: a query waits both on a version other tasks are still building and on the last one. The violation runs take all six orders. One query thread is enough to race the pipeline. Two threads add interleavings of an atomic queue pop at several times the states. `LogDebug = TRUE` keeps `Close`'s final `get_snapshot`; `utils/log.h` is not in the repository, so whether it is compiled in is a parameter.

### Fairness

- **Scheduler.** Every thread is a `std::thread` spinning without yielding, so the OS keeps scheduling each one. `Spec` assumes weak fairness of each thread's actions: the master, each pipe, the boarder, each worker and the collector.
- **Batch.** Weak fairness of each query thread and of `StopJoin`: the threads are `std::thread`s that spin without blocking, and the join returns once they have. `CloseReturns` is stated from `Close`'s call of `Stop` (`master = "stop" ~> ...`), so the modifier's progress need not be assumed; assuming it makes TLC's liveness check on `DoUpdate` impractically slow.
- **Sequential.** Weak fairness of each query thread and of the driver's `Close`, `StopJoin` and `LogFinal`. `CloseReturns` is stated from the return of the last operation on (`numVersions = Len(txs) /\ dpc = "fetch" ~> ...`): fairness of `Dispatch` makes TLC's liveness check impractically slow, as for Batch.
- **Contreap.** Weak fairness of the driver, of each scheduler thread and of each query thread: all are `std::thread`s that spin without blocking.
- **Termination.** `Terminated` (scheduler), `Closed` (Contreap, Sequential, Batch) are stutter steps once every thread has returned. Deadlock is checked everywhere.

## Findings

1. `scheduler.hpp:256`: a worker estimates its block once its own fetched task id reaches `block_end`, while other workers may still be building tasks the block's trees share. `augment` then caches wrong sums.
2. `scheduler.hpp:356`: `get_snapshot` uses `ver / block_size_` where the blocks are numbered `(ver-1) / block_size_`. With two workers it waits on the estimate of the next block's worker. Together with finding 1's early estimate, the snapshot it returns can hold a node whose cached sum misses a child a later-linked task adds, and a range query on it answers a wrong sum (`contreap_snapshot_block`). The off-by-one alone returns an augmented root; the wrong answer needs both.
3. `sequential.hpp:35` and `contreap.hpp:37`: a point lookup of an absent key dereferences nullptr. `spec.md` says it returns zero. `NoNullDeref` also covers `sequential.hpp:55`: `Close` logs `roots_[num_versions_]->aug`, a nullptr once every element is deleted. TLC reports the shorter point-query trace first; with the three deletes alone, the invariant fails at `Close`.
4. `search_delete.hpp:44` and `scheduler.hpp:133`: with tied priorities, a delete of a present key is ignored. The hash is called perfect, but its 64-bit truncation is not injective.
5. `query_processor.hpp:38`: `Stop` can strand queued queries (`contreap_drain`).
6. `copy_subtract.hpp:43`: the Batch engine's delete removes a key whatever its counter. The treap engines, and `spec.md`, decrement it.
7. `copy_merge.hpp:59`: when a batch inserts a key already present, the new node's history starts at the batch's version (`update_values` only raises the values), so a read at an earlier version inside the same batch gets 0 for that key.

Observed while modelling, without a run of its own:
- The walk-back loop of `process_range_query_` (`batch.hpp:89`) never runs. There is one producer and a FIFO queue, so each thread sees its queries in version order.
- `update_enbuffer_` flushes an empty buffer on a type switch (`batch.hpp:75`), appending an entry with the same version as the one before. The forward loop stops on the first entry whose version reaches the query's, so it steps over the duplicate.
- `Stop` can strand queued queries in the Batch engine as in Contreap (finding 5); `CloseReturns` holds all the same, since a stranded query is never taken.

## Plan

Done:
- the treap core;
- the abstract `VersionedIndex`;
- the Sequential engine, refined to `VersionedIndex`;
- the pipelined scheduler, with refinement, cache, snapshot and progress properties;
- the QueryProcessor, a module of its own composed with Sequential, Contreap and Batch;
- the Sequential engine with its real query threads, `Close` and its final log;
- the PAM versioned tree and the Batch engine, with snapshot, persistence and Close-returns properties, and two findings;
- the Contreap engine: the scheduler composed with query threads, `get_snapshot` and `Close`, with answers checked end to end.

Next:
1. **Batch refinement.** Check that `Batch` refines `VersionedIndex` with the two findings' fixes as parameters (a counted delete, and an old value kept on merge).
2. **Larger scheduler runs.** `num_threads = 4` (two pipes, two workers), with the fixes for findings 1 and 2 as parameters of the model.
3. **Batch with two queries per workload.** Several queries per thread would make the walk-back loop and the thread-local cursor's reuse reachable, at the price of a safety-only run.

## Not modelled

- `aes_hash`: the AES rounds are abstracted to a priority function.
- File loading, argument parsing and timing in `main.cpp`: I/O.
- `ycsbc/db/export.hpp`: it writes workloads to a file.
- `test/`: benchmark programs.
- The moodycamel queue and the parlay scheduler: external libraries, taken as an atomic FIFO and as fork-join. An enqueue that fails for want of memory (`Push` returning `~0`, ignored by `main.cpp`) is outside the model.
- The `num_threads >= 16` branch of `decide_num_pipes_`: beyond TLC's reach at these bounds.
- `release_node` and `release_tree` in `pam::`: freed nodes are unreachable from every root, so the model keeps them in the heap.
- `log_debug` and `log_fatal`: logging only, except where `log_debug`'s argument dereferences a pointer or waits. Sequential's `Close` (`sequential.hpp:55`) and the wait in Contreap's `Close` (`contreap.hpp:58`) are modelled under `LogDebug`. The `->aug` dereferences at `batch.hpp:67` (`do_update_`), `batch.hpp:125` (`Init`) and `contreap.hpp:58` (the final snapshot) are not: they crash once the tree is empty, as `sequential.hpp:55` does, but the Batch and Contreap bounds never delete every key (each initial tree keeps a key no workload deletes), so no run could reach them. The unreachable `default:` of `do_update_` is left out.
