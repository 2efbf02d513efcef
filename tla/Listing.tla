------------------------------ MODULE Listing ------------------------------
(***************************************************************************)
(* What the code does with lists: comprehensions with a condition,         *)
(* dict.fromkeys, slices, the concatenation of a list of lists, and sorts. *)
(* Each result lists positions of its argument in some order; that order   *)
(* is all there is to reason about, with no recursion over the list.       *)
(***************************************************************************)
EXTENDS Naturals, Sequences, FiniteSets, FiniteSetsExt

\* f[1], ..., f[n] as a sequence (which TLC evaluates once, not at each use).
Listed(f, n) == SubSeq(f, 1, n)

\* The elements of a finite set in the order given as a set of pairs: the k-th has
\* k - 1 elements before it.
InOrder(set, before) ==
    LET rank == [x \in set |-> Cardinality({y \in set : <<y, x>> \in before})]
    IN  Listed([k \in 1..Cardinality(set) |-> CHOOSE x \in set : rank[x] = k - 1],
               Cardinality(set))

\* The elements of a sequence at some of its positions, in their order.
At(seq, positions) ==
    LET order == InOrder(positions, {p \in positions \X positions : p[1] < p[2]})
    IN  Listed([k \in DOMAIN order |-> seq[order[k]]], Len(order))

\* [x for x in seq if x in set]
Only(seq, set) == At(seq, {i \in DOMAIN seq : seq[i] \in set})

\* list(dict.fromkeys(seq)): the first occurrence of each element.
Distinct(seq) == At(seq, {i \in DOMAIN seq : \A j \in DOMAIN seq : j < i => seq[j] # seq[i]})

\* [x for seq in seqs for x in seq]
Flatten(seqs) ==
    LET places == UNION {{a} \X DOMAIN seqs[a] : a \in DOMAIN seqs}
        before == {p \in places \X places :
                      \/ p[1][1] < p[2][1]
                      \/ p[1][1] = p[2][1] /\ p[1][2] < p[2][2]}
        order  == InOrder(places, before)
    IN  Listed([k \in DOMAIN order |-> seqs[order[k][1]][order[k][2]]], Len(order))

\* seq[:n]
FirstOf(seq, n) == SubSeq(seq, 1, Min({n, Len(seq)}))

=============================================================================
