-------------------------------- MODULE Pam --------------------------------
(***************************************************************************)
(* The persistent augmented map of src/lib/pam: treap nodes that keep a   *)
(* history of (val, ver) pairs, so that one tree answers every version of *)
(* a batch, and the batched algorithms (build_versioned, copy_merge,      *)
(* copy_subtract) that fold a whole batch into a persistent tree.         *)
(*                                                                         *)
(* As in Treap, a heap is a sequence of node records, a pointer an index  *)
(* and nullptr is Nil; nodes are never freed (release_node only drops     *)
(* nodes of the batch tree that are unreachable afterwards).  An operator *)
(* that writes the heap returns it with its result, [mem, ptr].  The      *)
(* par_do branches work on disjoint subtrees and run one after the other. *)
(***************************************************************************)
EXTENDS Integers, Sequences, FiniteSets, FiniteSetsExt

Nil == 0

\* vstat_uninitialized is ~0, above every version; only that order matters.
VstatUninitialized == 2147483647

AugUninitialized == 0

ValVer(val, ver) == [val |-> val, ver |-> ver]

\* The node make_node(ver, pry, key, val) creates.
NodeRec(ver, pry, key, val) ==
    [vstat |-> VstatUninitialized, pry |-> pry, key |-> key,
     vals |-> <<ValVer(val, ver)>>, aug |-> AugUninitialized, lch |-> Nil, rch |-> Nil]

MakeNode(m, ver, pry, key) == Append(m, NodeRec(ver, pry, key, 1))

\* t->vals[t->nvals-1]: the newest (val, ver) of a node.
LastVal(m, t) == m[t].vals[Len(m[t].vals)]

\* make_weak_copy: a fresh node holding only the newest value of t.
WeakCopy(m, t) == Append(m, NodeRec(LastVal(m, t).ver, m[t].pry, m[t].key, LastVal(m, t).val))

SubtreeVstat(m, t) == IF t = Nil THEN 0 ELSE m[t].vstat

\* t->lch = l; t->rch = r.
Link(m, t, l, r) == [m EXCEPT ![t].lch = l, ![t].rch = r]

(***************************************************************************)
(* build.hpp: in-place split and merge of trees nobody else can see.      *)
(***************************************************************************)

RECURSIVE Split(_, _, _)
Split(m, t, key) ==
    CASE t = Nil -> [mem |-> m, l |-> Nil, r |-> Nil]
      [] key < m[t].key ->
            LET s == Split(m, m[t].lch, key) IN [mem |-> [s.mem EXCEPT ![t].lch = s.r], l |-> s.l, r |-> t]
      [] OTHER ->
            LET s == Split(m, m[t].rch, key) IN [mem |-> [s.mem EXCEPT ![t].rch = s.l], l |-> t, r |-> s.r]

\* merge: equal keys add t1's first counter to t0's.
AddFirstVal(m, t0, t1) == [m EXCEPT ![t0].vals[1].val = @ + m[t1].vals[1].val]

\* merge_values: t1's history appended to t0's, each value on top of t0's
\* newest one.
MergeValues(m, t0, t1) ==
    LET base == LastVal(m, t0).val
        vs == m[t1].vals
    IN [m EXCEPT ![t0].vals = @ \o [i \in DOMAIN vs |-> ValVer(base + vs[i].val, vs[i].ver)]]

JoinRoots(m, t0, t1, versioned) ==
    IF versioned THEN MergeValues(m, t0, t1) ELSE AddFirstVal(m, t0, t1)

\* merge and merge_versioned differ only in how equal keys are joined.
RECURSIVE MergeWith(_, _, _, _)
MergeWith(m, t0, t1, versioned) ==
    CASE t0 = Nil -> [mem |-> m, ptr |-> t1]
      [] t1 = Nil -> [mem |-> m, ptr |-> t0]
      [] m[t0].key = m[t1].key ->
            LET a == MergeWith(JoinRoots(m, t0, t1, versioned), m[t0].lch, m[t1].lch, versioned)
                b == MergeWith(a.mem, m[t0].rch, m[t1].rch, versioned)
            IN [mem |-> Link(b.mem, t0, a.ptr, b.ptr), ptr |-> t0]
      [] m[t0].pry > m[t1].pry ->
            LET s == Split(m, t1, m[t0].key)
                a == MergeWith(s.mem, m[t0].lch, s.l, versioned)
                b == MergeWith(a.mem, m[t0].rch, s.r, versioned)
            IN [mem |-> Link(b.mem, t0, a.ptr, b.ptr), ptr |-> t0]
      [] OTHER ->
            LET s == Split(m, t0, m[t1].key)
                a == MergeWith(s.mem, s.l, m[t1].lch, versioned)
                b == MergeWith(a.mem, s.r, m[t1].rch, versioned)
            IN [mem |-> Link(b.mem, t1, a.ptr, b.ptr), ptr |-> t1]

Merge(m, t0, t1) == MergeWith(m, t0, t1, FALSE)

\* build(n, elems): version-0 nodes, both halves built and then merged.
RECURSIVE Build(_, _, _)
Build(m, es, pry) ==
    CASE Len(es) = 0 -> [mem |-> m, ptr |-> Nil]
      [] Len(es) = 1 -> [mem |-> MakeNode(m, 0, pry[es[1]], es[1]), ptr |-> Len(m) + 1]
      [] OTHER ->
            LET h == Len(es) \div 2
                a == Build(m, SubSeq(es, 1, h), pry)
                b == Build(a.mem, SubSeq(es, h + 1, Len(es)), pry)
            IN Merge(b.mem, a.ptr, b.ptr)

(***************************************************************************)
(* build_versioned.hpp: the batch tree, element i stamped version ver+i.  *)
(***************************************************************************)

MergeVersioned(m, t0, t1) == MergeWith(m, t0, t1, TRUE)

RECURSIVE BuildVersioned(_, _, _, _)
BuildVersioned(m, ver, es, pry) ==
    CASE Len(es) = 0 -> [mem |-> m, ptr |-> Nil]
      [] Len(es) = 1 -> [mem |-> MakeNode(m, ver, pry[es[1]], es[1]), ptr |-> Len(m) + 1]
      [] OTHER ->
            LET h == Len(es) \div 2
                a == BuildVersioned(m, ver, SubSeq(es, 1, h), pry)
                b == BuildVersioned(a.mem, ver + h, SubSeq(es, h + 1, Len(es)), pry)
            IN MergeVersioned(b.mem, a.ptr, b.ptr)

(***************************************************************************)
(* copy_merge.hpp: insert a batch tree into a persistent tree.            *)
(***************************************************************************)

\* update_values: every value of t raised by val_base.
UpdateValues(m, t, base) ==
    [m EXCEPT ![t].vals = [i \in DOMAIN @ |-> ValVer(m[t].vals[i].val + base, m[t].vals[i].ver)]]

\* copy_split: split a persistent tree, copying the nodes of the path.
RECURSIVE CopySplit(_, _, _)
CopySplit(m, t, key) ==
    LET c == Len(m) + 1 IN
    CASE t = Nil -> [mem |-> m, l |-> Nil, r |-> Nil]
      [] key < m[t].key ->
            LET s == CopySplit(WeakCopy(m, t), m[t].lch, key)
            IN [mem |-> Link(s.mem, c, s.r, m[t].rch), l |-> s.l, r |-> c]
      [] OTHER ->
            LET s == CopySplit(WeakCopy(m, t), m[t].rch, key)
            IN [mem |-> Link(s.mem, c, m[t].lch, s.l), l |-> c, r |-> s.r]

\* copy_merge: a node of t_old that outranks t_ins is copied and t_ins split
\* around it; otherwise the root of t_ins is exposed and placed, taking the
\* counter of t_old's node of the same key as its base, or splitting t_old
\* with copying.
RECURSIVE CopyMerge(_, _, _)
CopyMerge(m, told, tins) ==
    LET c == Len(m) + 1 IN
    CASE told = Nil -> [mem |-> m, ptr |-> tins]
      [] tins = Nil -> [mem |-> m, ptr |-> told]
      [] m[told].pry > m[tins].pry ->
            LET s == Split(WeakCopy(m, told), tins, m[told].key)
                a == CopyMerge(s.mem, m[told].lch, s.l)
                b == CopyMerge(a.mem, m[told].rch, s.r)
            IN [mem |-> Link(b.mem, c, a.ptr, b.ptr), ptr |-> c]
      [] m[told].key = m[tins].key ->
            LET e == UpdateValues(Link(m, tins, Nil, Nil), tins, LastVal(m, told).val)
                a == CopyMerge(e, m[told].lch, m[tins].lch)
                b == CopyMerge(a.mem, m[told].rch, m[tins].rch)
            IN [mem |-> Link(b.mem, tins, a.ptr, b.ptr), ptr |-> tins]
      [] OTHER ->
            LET s == CopySplit(Link(m, tins, Nil, Nil), told, m[tins].key)
                a == CopyMerge(s.mem, s.l, m[tins].lch)
                b == CopyMerge(a.mem, s.r, m[tins].rch)
            IN [mem |-> Link(b.mem, tins, a.ptr, b.ptr), ptr |-> tins]

(***************************************************************************)
(* copy_subtract.hpp: remove the keys of a batch tree.                    *)
(***************************************************************************)

\* Mutant of MakeCopyIfNeed: every node is reused in place.
MakeCopyIfNeedInPlace(m, t) == [mem |-> m, ptr |-> t]

\* make_copy_if_need: a node never augmented is a batch node and is reused;
\* an augmented one belongs to a published version and is copied.
MakeCopyIfNeed(m, t) ==
    IF m[t].vstat = VstatUninitialized THEN [mem |-> m, ptr |-> t]
    ELSE [mem |-> WeakCopy(m, t), ptr |-> Len(m) + 1]

\* copy_concat: join two trees, all keys of t_l below those of t_r.
RECURSIVE CopyConcat(_, _, _)
CopyConcat(m, tl, tr) ==
    CASE tl = Nil -> [mem |-> m, ptr |-> tr]
      [] tr = Nil -> [mem |-> m, ptr |-> tl]
      [] m[tl].pry > m[tr].pry ->
            LET n == MakeCopyIfNeed(m, tl)
                s == CopyConcat(n.mem, m[tl].rch, tr)
            IN [mem |-> Link(s.mem, n.ptr, m[tl].lch, s.ptr), ptr |-> n.ptr]
      [] OTHER ->
            LET n == MakeCopyIfNeed(m, tr)
                s == CopyConcat(n.mem, tl, m[tr].lch)
            IN [mem |-> Link(s.mem, n.ptr, s.ptr, m[tr].rch), ptr |-> n.ptr]

\* copy_subtract: a node of t_old whose key is in t_det is dropped and its
\* two reduced subtrees concatenated; a node that outranks t_det's root is
\* copied and t_det split around it; otherwise t_det's root is not in t_old
\* and is discarded.
RECURSIVE CopySubtract(_, _, _)
CopySubtract(m, told, tdet) ==
    LET c == Len(m) + 1 IN
    CASE told = Nil -> [mem |-> m, ptr |-> Nil]
      [] tdet = Nil -> [mem |-> m, ptr |-> told]
      [] m[told].key = m[tdet].key ->
            LET a == CopySubtract(m, m[told].lch, m[tdet].lch)
                b == CopySubtract(a.mem, m[told].rch, m[tdet].rch)
            IN CopyConcat(b.mem, a.ptr, b.ptr)
      [] m[told].pry > m[tdet].pry ->
            LET s == Split(WeakCopy(m, told), tdet, m[told].key)
                a == CopySubtract(s.mem, m[told].lch, s.l)
                b == CopySubtract(a.mem, m[told].rch, s.r)
            IN [mem |-> Link(b.mem, c, a.ptr, b.ptr), ptr |-> c]
      [] OTHER ->
            LET d == CopyConcat(m, m[tdet].lch, m[tdet].rch)
            IN CopySubtract(d.mem, told, d.ptr)

(***************************************************************************)
(* augment.hpp: the cached sum and vstat, the newest version in a subtree. *)
(***************************************************************************)

\* Mutant of Augment: vstat is taken from the node's own newest version only.
RECURSIVE AugmentOwnVstat(_, _)
AugmentOwnVstat(m, t) ==
    CASE t = Nil -> [mem |-> m, aug |-> 0]
      [] m[t].vstat # VstatUninitialized -> [mem |-> m, aug |-> m[t].aug]
      [] OTHER ->
            LET a == AugmentOwnVstat(m, m[t].lch)
                b == AugmentOwnVstat(a.mem, m[t].rch)
                s == a.aug + LastVal(m, t).val + b.aug
            IN [mem |-> [b.mem EXCEPT ![t].aug = s, ![t].vstat = LastVal(m, t).ver], aug |-> s]

RECURSIVE Augment(_, _)
Augment(m, t) ==
    CASE t = Nil -> [mem |-> m, aug |-> 0]
      [] m[t].vstat # VstatUninitialized -> [mem |-> m, aug |-> m[t].aug]
      [] OTHER ->
            LET a == Augment(m, m[t].lch)
                b == Augment(a.mem, m[t].rch)
                s == a.aug + LastVal(m, t).val + b.aug
                vstat == Max({LastVal(m, t).ver, SubtreeVstat(b.mem, m[t].lch), SubtreeVstat(b.mem, m[t].rch)})
            IN [mem |-> [b.mem EXCEPT ![t].aug = s, ![t].vstat = vstat], aug |-> s]

Augmented(m, t) == Augment(m, t).mem

(***************************************************************************)
(* query.hpp                                                               *)
(***************************************************************************)

\* find_value: the value of t at version v, 0 before its first version.
FindValue(m, t, v) ==
    LET vs == m[t].vals
        later == {i \in 1..Len(vs) - 1 : v < vs[i + 1].ver}
    IN CASE v < vs[1].ver -> 0
         [] later # {} -> vs[Min(later)].val
         [] OTHER -> vs[Len(vs)].val

RECURSIVE Find(_, _, _, _)
Find(m, t, v, k) ==
    CASE t = Nil -> 0
      [] k = m[t].key -> FindValue(m, t, v)
      [] k < m[t].key -> Find(m, m[t].lch, v, k)
      [] OTHER -> Find(m, m[t].rch, v, k)

OpenOpen == "OPEN_OPEN"
OpenClose == "OPEN_CLOSE"
CloseOpen == "CLOSE_OPEN"
CloseClose == "CLOSE_CLOSE"

\* range_estimate(t, v, l, r, d): a subtree wholly inside [l, r] answers
\* with its cached sum when nothing in it changed after v (vstat <= v).
RECURSIVE RangeEstimate(_, _, _, _, _, _)
RangeEstimate(m, t, v, l, r, d) ==
    IF t = Nil THEN 0
    ELSE LET n == m[t] IN
    CASE d = OpenOpen /\ r < n.key -> RangeEstimate(m, n.lch, v, l, r, d)
      [] d = OpenOpen /\ l > n.key -> RangeEstimate(m, n.rch, v, l, r, d)
      [] d = OpenOpen ->
            RangeEstimate(m, n.lch, v, l, r, OpenClose) + FindValue(m, t, v) + RangeEstimate(m, n.rch, v, l, r, CloseOpen)
      [] d = OpenClose /\ l > n.key -> RangeEstimate(m, n.rch, v, l, r, d)
      [] d = OpenClose ->
            RangeEstimate(m, n.lch, v, l, r, d) + FindValue(m, t, v) + RangeEstimate(m, n.rch, v, l, r, CloseClose)
      [] d = CloseOpen /\ r < n.key -> RangeEstimate(m, n.lch, v, l, r, d)
      [] d = CloseOpen ->
            RangeEstimate(m, n.lch, v, l, r, CloseClose) + FindValue(m, t, v) + RangeEstimate(m, n.rch, v, l, r, d)
      [] d = CloseClose /\ n.vstat <= v -> n.aug
      [] d = CloseClose ->
            RangeEstimate(m, n.lch, v, l, r, d) + FindValue(m, t, v) + RangeEstimate(m, n.rch, v, l, r, d)

(***************************************************************************)
(* interface.hpp: the operations the Batch engine calls.                  *)
(***************************************************************************)

\* build: build, then augment the whole tree.
BuildTree(es, pry) ==
    LET b == Build(<<>>, es, pry) IN [mem |-> Augmented(b.mem, b.ptr), ptr |-> b.ptr]

\* inserted(t_old, ver, n, elems): merge the batch tree in, then augment.
Inserted(m, told, ver, es, pry) ==
    LET d == BuildVersioned(m, ver, es, pry)
        c == CopyMerge(d.mem, told, d.ptr)
    IN [mem |-> Augmented(c.mem, c.ptr), ptr |-> c.ptr]

\* deleted(t_old, ver, n, elems): subtract the batch tree, then augment.
Deleted(m, told, ver, es, pry) ==
    LET d == BuildVersioned(m, ver, es, pry)
        c == CopySubtract(d.mem, told, d.ptr)
    IN [mem |-> Augmented(c.mem, c.ptr), ptr |-> c.ptr]

(***************************************************************************)
(* Reference definitions.                                                  *)
(***************************************************************************)

RECURSIVE Reach(_, _)
Reach(m, t) == IF t = Nil THEN {} ELSE {t} \cup Reach(m, m[t].lch) \cup Reach(m, m[t].rch)

\* Search-tree order on keys and heap order on priorities.
IsTreap(m, t) ==
    \A n \in Reach(m, t) :
        /\ \A x \in Reach(m, m[n].lch) : m[x].key < m[n].key /\ m[x].pry <= m[n].pry
        /\ \A x \in Reach(m, m[n].rch) : m[x].key > m[n].key /\ m[x].pry <= m[n].pry

\* The sum of the values of the keys of [l, r] at version v, by point lookups.
RangeByFind(m, t, v, l, r, Keys) ==
    MapThenSumSet(LAMBDA k : Find(m, t, v, k), {k \in Keys : l <= k /\ k <= r})

====
