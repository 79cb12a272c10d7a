------------------------------- MODULE Batch -------------------------------
(***************************************************************************)
(* DB::Batch<pam::interface> (src/db/batch.hpp) and main.cpp's driver.    *)
(*                                                                         *)
(* The modifier thread buffers inserts or deletes (update_enbuffer_) and  *)
(* folds a full buffer, or a buffer of the other kind, into the tree as   *)
(* one version-stamped batch (do_update_), appending the new root to the  *)
(* root_list chain and then bumping num_versions_.  A query is pushed     *)
(* with version_submitted_, the number of updates submitted so far.       *)
(*                                                                         *)
(* Each query thread runs process_range_query_ with its own thread_local  *)
(* cursor (cur_vid, last_vid) on the chain: it walks back to the entry    *)
(* covering the version, then forward, reloading num_versions_ whenever   *)
(* it reaches the last entry it knows of.  The query threads' loop, the  *)
(* queue and Stop are QueryProcessor's; Close flushes the last buffer     *)
(* and then stops the query processor.                                     *)
(***************************************************************************)
EXTENDS Pam, QueryProcessor

CONSTANTS
    Keys,           \* the keys of the workload
    InitElems,      \* the keys of the initial tree, in file order
    Priorities,     \* the priority functions aes_hash::hash may be
    Workloads,      \* the transaction sequences main.cpp may load
    BatchSize       \* batch_size_ (-batchsize)

VARIABLES
    txs,                \* the workload of this run, never changed
    pry,                \* the priority function of this run
    pos,                \* transactions the driver has run
    master,             \* the driver: "run", "stop" (in Stop's join), "closed"
    mem,                \* the node heap
    bufferType,         \* buffer_type_
    buffer,             \* buffer_[0 .. buffer_count_-1]
    versionSubmitted,   \* version_submitted_
    versionCommitted,   \* version_committed_
    rootList,           \* the root_list chain: entry i is [ver, t]; num_versions_ = Len - 1
    cursor              \* per query thread: its thread_local [vid |-> cur_vid, last |-> last_vid]

modVars == <<mem, bufferType, buffer, versionSubmitted, versionCommitted, rootList>>

batchVars == <<txs, pry, pos, master, modVars, cursor>>

vars == <<batchVars, qpVars>>

\* num_versions_: the entries after root0_.
NumVersions == Len(rootList) - 1

\* The chain entry a cursor at cur_vid stands on.
Entry(vid) == rootList[vid + 1]

\* Batch::Init: root0_ = build(n, elems), then query_processor_->Start().
Init ==
    /\ txs \in Workloads
    /\ pry \in Priorities
    /\ pos = 0
    /\ master = "run"
    /\ LET b == BuildTree(InitElems, pry)
       IN /\ mem = b.mem
          /\ rootList = <<[ver |-> 0, t |-> b.ptr]>>
    /\ bufferType = "INSERT"
    /\ buffer = <<>>
    /\ versionSubmitted = 0
    /\ versionCommitted = 0
    /\ cursor = [th \in QueryThreads |-> [vid |-> 0, last |-> 0]]
    /\ QPInit

(***************************************************************************)
(* The modifier thread.  Its state is handled as a record so that          *)
(* update_enbuffer_ can run do_update_ twice in one call.                 *)
(***************************************************************************)

Mod == [mem |-> mem, bufferType |-> bufferType, buffer |-> buffer,
        versionSubmitted |-> versionSubmitted, versionCommitted |-> versionCommitted,
        rootList |-> rootList]

SetMod(s) ==
    /\ mem' = s.mem
    /\ bufferType' = s.bufferType
    /\ buffer' = s.buffer
    /\ versionSubmitted' = s.versionSubmitted
    /\ versionCommitted' = s.versionCommitted
    /\ rootList' = s.rootList

\* do_update_: fold the buffer into the newest tree, its i-th key stamped
\* version_committed_ + i, and append the result to the chain.
DoUpdate(s) ==
    LET root == s.rootList[Len(s.rootList)].t
        vc == s.versionCommitted + 1
        committed == s.versionCommitted + Len(s.buffer)
        Publish(n) == [s EXCEPT !.mem = n.mem, !.versionCommitted = committed, !.buffer = <<>>,
                                !.rootList = Append(@, [ver |-> committed, t |-> n.ptr])]
    IN \* the batch is folded in once and its result n published
       CHOOSE r \in {Publish(n) : n \in {IF s.bufferType = "INSERT" THEN Inserted(s.mem, root, vc, s.buffer, pry)
                                          ELSE Deleted(s.mem, root, vc, s.buffer, pry)}} : TRUE

\* Mutant of UpdateEnbuffer: the buffer is flushed one key past batch_size_.
UpdateEnbufferLateFlush(type, key) ==
    \E s1 \in {IF bufferType # type THEN [DoUpdate(Mod) EXCEPT !.bufferType = type] ELSE Mod} :
    \E s2 \in {[s1 EXCEPT !.buffer = Append(@, key), !.versionSubmitted = @ + 1]} :
        SetMod(IF Len(s2.buffer) = BatchSize + 1 THEN DoUpdate(s2) ELSE s2)

\* update_enbuffer_: a buffer of the other kind is flushed first (even an
\* empty one); a buffer that reaches batch_size_ is flushed after.
UpdateEnbuffer(type, key) ==
    \E s1 \in {IF bufferType # type THEN [DoUpdate(Mod) EXCEPT !.bufferType = type] ELSE Mod} :
    \E s2 \in {[s1 EXCEPT !.buffer = Append(@, key), !.versionSubmitted = @ + 1]} :
    \E s3 \in {IF Len(s2.buffer) = BatchSize THEN DoUpdate(s2) ELSE s2} :
        SetMod(s3)

\* main.cpp's loop: Insert, Delete or Query (a Push of
\* version_submitted_) for the next transaction.
Dispatch ==
    /\ pos < Len(txs)
    /\ pos' = pos + 1
    /\ LET tx == txs[pos + 1] IN
       CASE tx.type = "insert" ->
               UpdateEnbuffer("INSERT", tx.arg0) /\ UNCHANGED <<queue, numQueries>>
         [] tx.type = "delete" ->
               UpdateEnbuffer("DELETE", tx.arg0) /\ UNCHANGED <<queue, numQueries>>
         [] tx.type = "query" ->
               Push(versionSubmitted, tx.arg0, tx.arg1) /\ UNCHANGED modVars
    /\ UNCHANGED <<txs, pry, master, cursor, working, qpc, job, answers>>

\* Mutant of Close: the buffered updates are dropped.
CloseNoFlush ==
    /\ pos = Len(txs)
    /\ master = "run"
    /\ master' = "stop"
    /\ Stop
    /\ UNCHANGED <<modVars, txs, pry, pos, cursor>>

\* Batch::Close: flush a non-empty buffer, delete the scheduler, then
\* query_processor_->Stop(): working_ = false, and the join below.
Close ==
    /\ pos = Len(txs)
    /\ master = "run"
    /\ master' = "stop"
    /\ IF buffer # <<>> THEN \E u \in {DoUpdate(Mod)} : SetMod(u) ELSE UNCHANGED modVars
    /\ Stop
    /\ UNCHANGED <<txs, pry, pos, cursor>>

\* Stop's join: Close returns once every query thread has left process_.
StopJoin ==
    /\ master = "stop"
    /\ Joined
    /\ master' = "closed"
    /\ UNCHANGED <<txs, pry, pos, modVars, cursor, qpVars>>

(***************************************************************************)
(* The query threads: process_range_query_.                               *)
(***************************************************************************)

\* The first loop: step back while the previous entry already holds ver.
RECURSIVE WalkBack(_, _)
WalkBack(vid, ver) ==
    IF vid # 0 /\ ver <= Entry(vid - 1).ver THEN WalkBack(vid - 1, ver) ELSE vid

\* do_process_ of a dequeued query: walk the cursor back.
StepBack(th) ==
    /\ qpc[th] = "proc"
    /\ qpc' = [qpc EXCEPT ![th] = "fwd"]
    /\ cursor' = [cursor EXCEPT ![th].vid = WalkBack(@, job[th].ver)]
    /\ UNCHANGED <<txs, pry, pos, master, modVars, queue, numQueries, working, job, answers>>

\* The inner loop: step forward over entries already known to be published.
Advance(th) ==
    /\ qpc[th] = "fwd"
    /\ job[th].ver > Entry(cursor[th].vid).ver
    /\ cursor[th].vid < cursor[th].last
    /\ cursor' = [cursor EXCEPT ![th].vid = @ + 1]
    /\ UNCHANGED <<txs, pry, pos, master, modVars, qpVars>>

\* At the last known entry and still short of ver: reload num_versions_.
Reload(th) ==
    /\ qpc[th] = "fwd"
    /\ job[th].ver > Entry(cursor[th].vid).ver
    /\ cursor[th].vid >= cursor[th].last
    /\ cursor' = [cursor EXCEPT ![th].last = NumVersions]
    /\ UNCHANGED <<txs, pry, pos, master, modVars, qpVars>>

\* The lookup on the entry reached: find for a point, range_estimate else.
ProcessRangeQuery(t, ver, l, r) ==
    IF l = r THEN Find(mem, t, ver, l) ELSE RangeEstimate(mem, t, ver, l, r, OpenOpen)

\* The entry covers ver: look it up and return the result to process_.
Answer(th) ==
    /\ qpc[th] = "fwd"
    /\ job[th].ver <= Entry(cursor[th].vid).ver
    /\ LET q == job[th]
       IN Return(th, ProcessRangeQuery(Entry(cursor[th].vid).t, q.ver, q.l, q.r))
    /\ UNCHANGED <<txs, pry, pos, master, modVars, cursor>>

QueryThread(th) ==
    \/ (CheckWorking(th) \/ Dequeue(th)) /\ UNCHANGED batchVars
    \/ StepBack(th)
    \/ Advance(th)
    \/ Reload(th)
    \/ Answer(th)

\* Close has returned; the program goes on to print and exit.
Closed ==
    /\ master = "closed"
    /\ UNCHANGED vars

Next ==
    \/ Dispatch
    \/ Close
    \/ StopJoin
    \/ \E th \in QueryThreads : QueryThread(th)
    \/ Closed

\* Every query thread is a real thread that keeps running, and Stop's
\* join returns once it can.  The driver's progress is not assumed: the
\* liveness property starts from Close's call of Stop.
Fairness ==
    /\ WF_vars(StopJoin)
    /\ \A th \in QueryThreads : WF_vars(QueryThread(th))

Spec == Init /\ [][Next]_vars /\ Fairness

(***************************************************************************)
(* Properties                                                              *)
(***************************************************************************)

InitCount == [k \in Keys |-> Cardinality({i \in DOMAIN InitElems : InitElems[i] = k})]

Abs == INSTANCE VersionedIndex WITH hist <- <<>>, InitContent <- InitCount

\* The counters after the first i transactions, as every engine defines them.
RECURSIVE Expected(_)
Expected(i) == IF i = 0 THEN InitCount ELSE Abs!Apply(Expected(i - 1), txs[i])

\* The transaction whose Push gave num_queries_ = idx.
QueryTx(idx) ==
    CHOOSE i \in 1..Len(txs) :
        /\ txs[i].type = "query"
        /\ Cardinality({j \in 1..i : txs[j].type = "query"}) = idx

TypeOK ==
    /\ txs \in Workloads
    /\ pry \in Priorities
    /\ pos \in 0..Len(txs)
    /\ master \in {"run", "stop", "closed"}
    /\ QPTypeOK(0..versionSubmitted, Keys, {"fwd"})
    /\ bufferType \in {"INSERT", "DELETE"}
    /\ buffer \in Seq(Keys) /\ Len(buffer) < BatchSize
    /\ versionCommitted + Len(buffer) = versionSubmitted
    /\ rootList \in Seq([ver : 0..versionCommitted, t : 0..Len(mem)])
    /\ \A th \in QueryThreads :
         /\ cursor[th].vid \in 0..cursor[th].last
         /\ cursor[th].last \in 0..NumVersions
    /\ \A a \in answers : a.ret \in Nat

\* spec.md 8, persistence: inserting or deleting a batch never writes a
\* node of a published version; copy_merge, copy_split and copy_subtract
\* copy those nodes, and copy_concat reuses in place only nodes whose vstat
\* says they were never augmented.
Persistence ==
    [][\A i \in DOMAIN rootList :
          /\ rootList'[i] = rootList[i]
          /\ \A n \in Reach(mem, rootList[i].t) : mem'[n] = mem[n]]_vars

\* Every chain entry is a treap on which range_estimate, with its vstat
\* short-cut to the cached sum, answers every version the entry covers
\* exactly as the sum of the find results of the keys in the range.
SnapshotsConsistent ==
    \A i \in DOMAIN rootList :
        LET e == rootList[i]
            first == IF i = 1 THEN 0 ELSE rootList[i - 1].ver + 1
        IN /\ IsTreap(mem, e.t)
           /\ \A v \in first..e.ver, l, r \in Keys :
                 l < r => RangeEstimate(mem, e.t, v, l, r, OpenOpen) = RangeByFind(mem, e.t, v, l, r, Keys)

\* Once Close has called Stop, Close returns: its flush has committed the
\* versions of the last, partial buffer, so a query thread spinning in
\* process_range_query_ on such a version reaches it, returns to
\* process_, sees working_ cleared and lets Stop's join complete.
CloseReturns ==
    master = "stop" ~> master = "closed"

\* spec.md 8, cross-backend equivalence: a query answers what the
\* transactions before it define, as Sequential does.
AnswersCorrect ==
    \A a \in answers : a.ret = Abs!Answer(Expected(QueryTx(a.idx)), a.l, a.r)

====
