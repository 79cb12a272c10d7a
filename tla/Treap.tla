------------------------------- MODULE Treap -------------------------------
(***************************************************************************)
(* The per-version treap of src/lib/treap: the node type and the          *)
(* sequential algorithms (build, path-copying insert and delete, augment, *)
(* point and range queries), as pure operators over a node heap.          *)
(*                                                                         *)
(* A heap is a sequence of node records; a pointer is an index into it and *)
(* nullptr is Nil.  Nodes are never freed from the heap (release_node is   *)
(* only reached by build's in-place merge, whose loser is unreachable      *)
(* afterwards).  An operator that allocates or writes nodes returns the   *)
(* new heap together with its result: [mem, ptr] or [mem, l, r].          *)
(***************************************************************************)
EXTENDS Integers, Sequences, FiniteSets, FiniteSetsExt

Nil == 0

\* node_t's aug field is 0 while the aggregate is not computed yet.
AugUninitialized == 0

\* The node record of node_t, as make_node creates it: value 1, no children.
NodeRec(ver, pry, key) ==
    [ver |-> ver, pry |-> pry, key |-> key, val |-> 1,
     aug |-> AugUninitialized, lch |-> Nil, rch |-> Nil]

\* make_node(ver, pry, key): the new node is the last one of the heap.
MakeNode(m, ver, pry, key) == Append(m, NodeRec(ver, pry, key))

\* Mutant of WeakCopy: a make_weak_copy that keeps the cached aug of t.
WeakCopyKeepAug(m, t, ver) ==
    Append(m, [m[t] EXCEPT !.ver = ver, !.lch = Nil, !.rch = Nil])

\* make_weak_copy(t, ver): same key, priority and value, stamped with ver,
\* aggregate uninitialised and no children.
WeakCopy(m, t, ver) ==
    Append(m, [m[t] EXCEPT !.ver = ver, !.aug = AugUninitialized,
                           !.lch = Nil, !.rch = Nil])

SetL(m, t, c) == [m EXCEPT ![t].lch = c]
SetR(m, t, c) == [m EXCEPT ![t].rch = c]

(***************************************************************************)
(* search_insert.hpp                                                       *)
(***************************************************************************)

\* split_copy: copies the search path of key, the copies stamped with ver.
RECURSIVE SplitCopy(_, _, _, _)
SplitCopy(m, ver, t, key) ==
    IF t = Nil THEN [mem |-> m, l |-> Nil, r |-> Nil]
    ELSE LET c == Len(m) + 1
         IN IF key < m[t].key
            THEN LET s == SplitCopy(SetR(WeakCopy(m, t, ver), c, m[t].rch), ver, m[t].lch, key)
                 IN [mem |-> SetL(s.mem, c, s.r), l |-> s.l, r |-> c]
            ELSE LET s == SplitCopy(SetL(WeakCopy(m, t, ver), c, m[t].lch), ver, m[t].rch, key)
                 IN [mem |-> SetR(s.mem, c, s.l), l |-> c, r |-> s.r]

\* process_deploy: a new node for key whose children are the split of t_past.
ProcessDeploy(m, ver, t, pry, key) ==
    LET n == Len(m) + 1
        s == SplitCopy(MakeNode(m, ver, pry, key), ver, t, key)
    IN [mem |-> SetR(SetL(s.mem, n, s.l), n, s.r), ptr |-> n]

\* search_insert: path-copy down to where key's priority fits.
RECURSIVE SearchInsert(_, _, _, _, _)
SearchInsert(m, ver, t, pry, key) ==
    LET c == Len(m) + 1 IN
    CASE t = Nil -> [mem |-> MakeNode(m, ver, pry, key), ptr |-> c]
      [] m[t].pry > pry /\ key < m[t].key ->
            LET s == SearchInsert(SetR(WeakCopy(m, t, ver), c, m[t].rch), ver, m[t].lch, pry, key)
            IN [mem |-> SetL(s.mem, c, s.ptr), ptr |-> c]
      [] m[t].pry > pry ->
            LET s == SearchInsert(SetL(WeakCopy(m, t, ver), c, m[t].lch), ver, m[t].rch, pry, key)
            IN [mem |-> SetR(s.mem, c, s.ptr), ptr |-> c]
      [] m[t].key = key ->
            LET m1 == WeakCopy(m, t, ver)
            IN [mem |-> [m1 EXCEPT ![c].val = @ + 1, ![c].lch = m[t].lch, ![c].rch = m[t].rch],
                ptr |-> c]
      [] OTHER -> ProcessDeploy(m, ver, t, pry, key)

(***************************************************************************)
(* search_delete.hpp                                                       *)
(***************************************************************************)

\* process_concat: join two treaps (all keys of t_l below those of t_r),
\* copying the spine it walks down.
RECURSIVE ProcessConcat(_, _, _, _)
ProcessConcat(m, ver, tl, tr) ==
    LET c == Len(m) + 1 IN
    CASE tl = Nil -> [mem |-> m, ptr |-> tr]
      [] tr = Nil -> [mem |-> m, ptr |-> tl]
      [] m[tl].pry > m[tr].pry ->
            LET s == ProcessConcat(SetL(WeakCopy(m, tl, ver), c, m[tl].lch), ver, m[tl].rch, tr)
            IN [mem |-> SetR(s.mem, c, s.ptr), ptr |-> c]
      [] OTHER ->
            LET s == ProcessConcat(SetR(WeakCopy(m, tr, ver), c, m[tr].rch), ver, tl, m[tr].lch)
            IN [mem |-> SetL(s.mem, c, s.ptr), ptr |-> c]

\* Mutant of SearchDelete: unlink the key's node whatever its counter.
RECURSIVE SearchDeleteUnlinkAll(_, _, _, _, _)
SearchDeleteUnlinkAll(m, ver, t, pry, key) ==
    LET c == Len(m) + 1 IN
    CASE t = Nil -> [mem |-> m, ptr |-> Nil]
      [] m[t].pry > pry /\ key < m[t].key ->
            LET s == SearchDeleteUnlinkAll(SetR(WeakCopy(m, t, ver), c, m[t].rch), ver, m[t].lch, pry, key)
            IN [mem |-> SetL(s.mem, c, s.ptr), ptr |-> c]
      [] m[t].pry > pry ->
            LET s == SearchDeleteUnlinkAll(SetL(WeakCopy(m, t, ver), c, m[t].lch), ver, m[t].rch, pry, key)
            IN [mem |-> SetR(s.mem, c, s.ptr), ptr |-> c]
      [] m[t].key = key -> ProcessConcat(m, ver, m[t].lch, m[t].rch)
      [] OTHER -> [mem |-> m, ptr |-> t]

\* search_delete: decrement the counter of key, unlinking its node when the
\* counter was 1; a key that is not found leaves the tree as it is.
RECURSIVE SearchDelete(_, _, _, _, _)
SearchDelete(m, ver, t, pry, key) ==
    LET c == Len(m) + 1 IN
    CASE t = Nil -> [mem |-> m, ptr |-> Nil]
      [] m[t].pry > pry /\ key < m[t].key ->
            LET s == SearchDelete(SetR(WeakCopy(m, t, ver), c, m[t].rch), ver, m[t].lch, pry, key)
            IN [mem |-> SetL(s.mem, c, s.ptr), ptr |-> c]
      [] m[t].pry > pry ->
            LET s == SearchDelete(SetL(WeakCopy(m, t, ver), c, m[t].lch), ver, m[t].rch, pry, key)
            IN [mem |-> SetR(s.mem, c, s.ptr), ptr |-> c]
      [] m[t].key = key /\ m[t].val = 1 -> ProcessConcat(m, ver, m[t].lch, m[t].rch)
      [] m[t].key = key ->
            LET m1 == WeakCopy(m, t, ver)
            IN [mem |-> [m1 EXCEPT ![c].val = @ - 1, ![c].lch = m[t].lch, ![c].rch = m[t].rch],
                ptr |-> c]
      [] OTHER -> [mem |-> m, ptr |-> t]

(***************************************************************************)
(* augment.hpp: the cached subtree sum, computed once per node.           *)
(***************************************************************************)

RECURSIVE Augment(_, _)
Augment(m, t) ==
    CASE t = Nil -> [mem |-> m, aug |-> 0]
      [] m[t].aug # AugUninitialized -> [mem |-> m, aug |-> m[t].aug]
      [] OTHER ->
            LET a == Augment(m, m[t].lch)
                b == Augment(a.mem, m[t].rch)
                s == a.aug + m[t].val + b.aug
            IN [mem |-> [b.mem EXCEPT ![t].aug = s], aug |-> s]

\* The heap after augment(t); its result value is not used by the callers.
Augmented(m, t) == Augment(m, t).mem

(***************************************************************************)
(* query.hpp                                                               *)
(***************************************************************************)

\* find: the node holding key, or Nil.
RECURSIVE FindNode(_, _, _)
FindNode(m, t, key) ==
    CASE t = Nil -> Nil
      [] key = m[t].key -> t
      [] key < m[t].key -> FindNode(m, m[t].lch, key)
      [] OTHER -> FindNode(m, m[t].rch, key)

\* RANGE_COVER: which side of a subtree lies wholly inside [l, r].
OpenOpen == "OPEN_OPEN"
OpenClose == "OPEN_CLOSE"
CloseOpen == "CLOSE_OPEN"
CloseClose == "CLOSE_CLOSE"

\* range_estimate(t, l, r, d): the sum of the counters of keys in [l, r],
\* taking the cached aggregate of a subtree known to lie inside the range.
RECURSIVE RangeEstimate(_, _, _, _, _)
RangeEstimate(m, t, l, r, d) ==
    IF t = Nil THEN 0
    ELSE LET n == m[t] IN
    CASE d = OpenOpen /\ r < n.key -> RangeEstimate(m, n.lch, l, r, d)
      [] d = OpenOpen /\ l > n.key -> RangeEstimate(m, n.rch, l, r, d)
      [] d = OpenOpen ->
            RangeEstimate(m, n.lch, l, r, OpenClose) + n.val + RangeEstimate(m, n.rch, l, r, CloseOpen)
      [] d = OpenClose /\ l > n.key -> RangeEstimate(m, n.rch, l, r, d)
      [] d = OpenClose ->
            RangeEstimate(m, n.lch, l, r, d) + n.val + RangeEstimate(m, n.rch, l, r, CloseClose)
      [] d = CloseOpen /\ r < n.key -> RangeEstimate(m, n.lch, l, r, d)
      [] d = CloseOpen ->
            RangeEstimate(m, n.lch, l, r, CloseClose) + n.val + RangeEstimate(m, n.rch, l, r, d)
      [] d = CloseClose -> n.aug

(***************************************************************************)
(* build.hpp: the initial tree, built by in-place split and merge.        *)
(***************************************************************************)

\* split: in-place partition of t around key.
RECURSIVE Split(_, _, _)
Split(m, t, key) ==
    CASE t = Nil -> [mem |-> m, l |-> Nil, r |-> Nil]
      [] key < m[t].key ->
            LET s == Split(m, m[t].lch, key) IN [mem |-> SetL(s.mem, t, s.r), l |-> s.l, r |-> t]
      [] OTHER ->
            LET s == Split(m, m[t].rch, key) IN [mem |-> SetR(s.mem, t, s.l), l |-> t, r |-> s.r]

\* merge: in-place union of two treaps, adding the counters of equal keys.
RECURSIVE Merge(_, _, _)
Merge(m, t0, t1) ==
    CASE t0 = Nil -> [mem |-> m, ptr |-> t1]
      [] t1 = Nil -> [mem |-> m, ptr |-> t0]
      [] m[t0].key = m[t1].key ->
            LET a == Merge([m EXCEPT ![t1].val = @ + m[t0].val], m[t0].lch, m[t1].lch)
                b == Merge(a.mem, m[t0].rch, m[t1].rch)
            IN [mem |-> SetR(SetL(b.mem, t1, a.ptr), t1, b.ptr), ptr |-> t1]
      [] m[t0].pry > m[t1].pry ->
            LET s == Split(m, t1, m[t0].key)
                a == Merge(s.mem, m[t0].lch, s.l)
                b == Merge(a.mem, m[t0].rch, s.r)
            IN [mem |-> SetR(SetL(b.mem, t0, a.ptr), t0, b.ptr), ptr |-> t0]
      [] OTHER ->
            LET s == Split(m, t0, m[t1].key)
                a == Merge(s.mem, s.l, m[t1].lch)
                b == Merge(a.mem, s.r, m[t1].rch)
            IN [mem |-> SetR(SetL(b.mem, t1, a.ptr), t1, b.ptr), ptr |-> t1]

\* build(n, elems): version-0 nodes, the halves built and then merged;
\* pry is the priority function (aes_hash::hash).
RECURSIVE Build(_, _, _)
Build(m, es, pry) ==
    CASE Len(es) = 0 -> [mem |-> m, ptr |-> Nil]
      [] Len(es) = 1 -> [mem |-> MakeNode(m, 0, pry[es[1]], es[1]), ptr |-> Len(m) + 1]
      [] OTHER ->
            LET h == Len(es) \div 2
                a == Build(m, SubSeq(es, 1, h), pry)
                b == Build(a.mem, SubSeq(es, h + 1, Len(es)), pry)
            IN Merge(b.mem, a.ptr, b.ptr)

\* build_parallel: build, then augment the whole tree.
BuildParallel(es, pry) ==
    LET b == Build(<<>>, es, pry) IN [mem |-> Augmented(b.mem, b.ptr), ptr |-> b.ptr]

(***************************************************************************)
(* Reference definitions the algorithms are checked against.              *)
(***************************************************************************)

\* The nodes reachable from t.
RECURSIVE Reach(_, _)
Reach(m, t) == IF t = Nil THEN {} ELSE {t} \cup Reach(m, m[t].lch) \cup Reach(m, m[t].rch)

\* The counter of key k in the tree t, summed over every node holding k.
RECURSIVE CountIn(_, _, _)
CountIn(m, t, k) ==
    IF t = Nil THEN 0
    ELSE (IF m[t].key = k THEN m[t].val ELSE 0) + CountIn(m, m[t].lch, k) + CountIn(m, m[t].rch, k)

\* The counter of every key of Keys in the tree t (0 when absent).
Content(m, t, Keys) == [k \in Keys |-> CountIn(m, t, k)]

\* The sum of the counters of the tree t.
RECURSIVE SubtreeSum(_, _)
SubtreeSum(m, t) == IF t = Nil THEN 0 ELSE SubtreeSum(m, m[t].lch) + m[t].val + SubtreeSum(m, m[t].rch)

\* Search-tree order on keys and heap order on priorities.
IsTreap(m, t) ==
    \A n \in Reach(m, t) :
        /\ \A x \in Reach(m, m[n].lch) : m[x].key < m[n].key /\ m[x].pry <= m[n].pry
        /\ \A x \in Reach(m, m[n].rch) : m[x].key > m[n].key /\ m[x].pry <= m[n].pry

\* Every computed aggregate below t is the sum of its subtree.
AugSound(m, t) ==
    \A n \in Reach(m, t) : m[n].aug # AugUninitialized => m[n].aug = SubtreeSum(m, n)

====
