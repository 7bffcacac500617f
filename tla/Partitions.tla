----------------------------- MODULE Partitions -----------------------------
(***************************************************************************)
(* get_seqlen_balanced_partitions: rows of given lengths are cut into k    *)
(* parts of about the same number of tokens, by the largest differencing   *)
(* method of Karmarkar and Karp.  A part is a sequence of rows and the sum *)
(* of their lengths; a state is a sequence of k parts, the heaviest first; *)
(* a heap is a set of states, of which no two share a row.                 *)
(***************************************************************************)
EXTENDS Ordering, SequencesExt

\* What some rows sum up to; no row is counted twice.
Tokens(rows, len) == SumFunctionOnSet(len, rows)

NoRows == [items |-> <<>>, sum |-> 0]
OneRow(j, len) == [items |-> <<j>>, sum |-> len[j]]

\* Set.merge.
Joined(p, q) == [items |-> p.items \o q.items, sum |-> p.sum + q.sum]

\* Set.__lt__; parts with rows differ in their first.
Lighter(p, q) ==
  \/ p.sum < q.sum
  \/ /\ p.sum = q.sum
     /\ \/ Len(p.items) < Len(q.items)
        \/ /\ Len(p.items) = Len(q.items)
           /\ p.items # <<>> /\ p.items[1] < q.items[1]

\* sorted(sets, reverse=True), which leaves equals in their order.  (SubSeq is
\* the whole sequence; it has TLC work it out once.)
NoLater(parts) ==
  {x \in (DOMAIN parts) \X (DOMAIN parts) :
     \/ Lighter(parts[x[2]], parts[x[1]])
     \/ x[1] <= x[2] /\ ~ Lighter(parts[x[1]], parts[x[2]])}
HeaviestFirst(parts) ==
  LET order == Arranged(DOMAIN parts, NoLater(parts))
  IN  SubSeq([i \in DOMAIN parts |-> parts[order[i]]], 1, Len(parts))

Spread(state) == state[1].sum - Last(state).sum

\* State.__lt__: what the heap gives out first.
Before(a, b) ==
  \/ Spread(a) > Spread(b)
  \/ Spread(a) = Spread(b) /\ Lighter(b[1], a[1])

\* Mutant: heavy parts meet heavy ones.
BugMerged(a, b) == HeaviestFirst([i \in DOMAIN a |-> Joined(a[i], b[i])])

\* State.merge: heavy parts meet light ones.
Merged(a, b) ==
  HeaviestFirst([i \in DOMAIN a |-> Joined(a[i], b[Len(b) + 1 - i])])

Top(heap) == CHOOSE a \in heap : \A b \in heap \ {a} : Before(a, b)

MergeTwo(heap) ==
  LET a == Top(heap)
      b == Top(heap \ {a})
  IN  (heap \ {a, b}) \union {Merged(a, b)}

\* The rows, the shortest first.
Shortest(len) ==
  Arranged(DOMAIN len,
           {x \in (DOMAIN len) \X (DOMAIN len) :
              len[x[1]] < len[x[2]] \/ (len[x[1]] = len[x[2]] /\ x[1] <= x[2])})

\* For parts of equal size, a state for each k rows of about the same length;
\* otherwise one for each row.
FirstStates(len, k, equalSize) ==
  LET sorted == Shortest(len)
      OfSize(o) == HeaviestFirst([i \in 1 .. k |-> OneRow(sorted[o * k + i], len)])
      Alone(j) == [i \in 1 .. k |-> IF i = 1 THEN OneRow(j, len) ELSE NoRows]
  IN  IF equalSize THEN {OfSize(o) : o \in 0 .. (Len(len) \div k) - 1}
                   ELSE {Alone(j) : j \in DOMAIN len}

\* The rows of the last state that is left, in order.
BalancedPartitions(len, k, equalSize) ==
  LET first == FirstStates(len, k, equalSize)
      heap[j \in 0 .. Cardinality(first) - 1] ==
        IF j = 0 THEN first ELSE MergeTwo(heap[j - 1])
      last == CHOOSE s \in heap[Cardinality(first) - 1] : TRUE
  IN  [i \in 1 .. k |-> Ordered(ToSet(last[i].items))]
=============================================================================
