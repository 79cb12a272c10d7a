--------------------------- MODULE VersionedIndex ---------------------------
(***************************************************************************)
(* What every engine of the benchmark promises (spec.md sections 1, 3, 6  *)
(* and 8): running a workload txs, version v is the state after the first *)
(* v transactions, holding a counter for every key.  An insert adds one to *)
(* the key's counter, a delete removes one when the counter is positive    *)
(* and is a no-op otherwise, a query leaves the counters as they were.    *)
(* Versions are published in order, one or several at a time, and a       *)
(* published version never changes again.                                  *)
(*                                                                         *)
(* hist is a function from the versions published so far, 0..n, to the   *)
(* counters of that version.                                               *)
(***************************************************************************)
EXTENDS Integers, Sequences, FiniteSets, FiniteSetsExt

CONSTANTS
    Keys,           \* the key domain (small set of integers)
    InitContent     \* the counters of version 0

VARIABLES
    txs,            \* the workload: a sequence of [type, arg0, arg1]
    hist

\* The transactions of a workload (main.cpp tx_context; type 0, 1, 2).
Tx == [type : {"query", "insert", "delete"}, arg0 : Keys, arg1 : Keys]

\* The counters after one transaction.
Apply(c, tx) ==
    CASE tx.type = "insert" -> [c EXCEPT ![tx.arg0] = @ + 1]
      [] tx.type = "delete" -> [c EXCEPT ![tx.arg0] = IF @ > 0 THEN @ - 1 ELSE 0]
      [] tx.type = "query"  -> c

\* The newest published version.
Top(h) == CHOOSE v \in DOMAIN h : v + 1 \notin DOMAIN h

\* What a query of [l, r] at counters c answers: the counter of l for a
\* point query, the sum of the counters of the keys in [l, r] otherwise.
RangeSum(c, l, r) == MapThenSumSet(LAMBDA k : c[k], {k \in Keys : l <= k /\ k <= r})

Answer(c, l, r) == IF l = r THEN c[l] ELSE RangeSum(c, l, r)

Init ==
    /\ txs \in Seq(Tx)
    /\ hist = [v \in {0} |-> InitContent]

\* Publish one or more versions, each one transaction after the one before.
Publish ==
    /\ DOMAIN hist' = 0..Top(hist')
    /\ Top(hist) < Top(hist')
    /\ Top(hist') <= Len(txs)
    /\ \A v \in DOMAIN hist : hist'[v] = hist[v]
    /\ \A v \in Top(hist) + 1..Top(hist') : hist'[v] = Apply(hist'[v - 1], txs[v])
    /\ txs' = txs

Spec == Init /\ [][Publish]_<<txs, hist>>

====
