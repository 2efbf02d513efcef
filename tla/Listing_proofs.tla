--------------------------- MODULE Listing_proofs ---------------------------
(***************************************************************************)
(* The operators of Listing and the sort of SharedEnums, for any list: what *)
(* each returns, in terms of its elements and of how many there are. That  *)
(* a set is listed in an order at all is the first of these facts: counting *)
(* the elements before each one numbers them from 1 to the cardinality.    *)
(***************************************************************************)
EXTENDS SharedEnums, FiniteSetTheorems, SequenceTheorems, TLAPS

\* A strict order on a set, of any two elements one before the other.
Orders(before, set) ==
    /\ \A x \in set : <<x, x>> \notin before
    /\ \A x, y \in set : x = y \/ <<x, y>> \in before \/ <<y, x>> \in before
    /\ \A x, y, z \in set : <<x, y>> \in before /\ <<y, z>> \in before => <<x, z>> \in before

\* A sequence of all the elements of a set, each once.
Lists(seq, set) ==
    /\ seq \in Seq(set)
    /\ \A i, j \in 1..Len(seq) : seq[i] = seq[j] => i = j
    /\ \A x \in set : \E i \in 1..Len(seq) : seq[i] = x

\* A function on 1..n is its own list.
LEMMA ListedSeq ==
    ASSUME NEW T, NEW n \in Nat, NEW f \in [1..n -> T]
    PROVE  Listed(f, n) = f /\ f \in Seq(T) /\ Len(f) = n
  <1>1. f \in Seq(T) /\ Len(f) = n
    BY SeqDef, LenProperties
  <1>2. SubSeq(f, 1, n) = f
    BY <1>1, SubSeqFull
  <1> QED
    BY <1>1, <1>2 DEF Listed

\* As many as are listed.
LEMMA ListsCardinality ==
    ASSUME NEW set, NEW seq, Lists(seq, set)
    PROVE  IsFiniteSet(set) /\ Cardinality(set) = Len(seq) /\ Len(seq) \in Nat
  <1>1. seq \in [1..Len(seq) -> set] /\ Len(seq) \in Nat
    BY LenProperties DEF Lists
  <1>2. IsFiniteSet(1..Len(seq)) /\ Cardinality(1..Len(seq)) = Len(seq)
    <2>1. ASSUME NEW n \in Nat
          PROVE  IsFiniteSet(1..n) /\ Cardinality(1..n) = n
      BY FS_Interval
    <2> QED
      BY <1>1, <2>1
  <1>3. seq \in Surjection(1..Len(seq), set) /\ seq \in Injection(1..Len(seq), set)
    BY <1>1 DEF Lists, Surjection, Injection, IsInjective
  <1> QED
    BY <1>1, <1>2, <1>3, FS_Surjection

\* The elements before one that is before another are fewer.
LEMMA FewerBefore ==
    ASSUME NEW set, IsFiniteSet(set), NEW before, Orders(before, set),
           NEW x \in set, NEW y \in set, <<x, y>> \in before
    PROVE  Cardinality({z \in set : <<z, x>> \in before}) <
           Cardinality({z \in set : <<z, y>> \in before})
  <1> DEFINE Below(v) == {z \in set : <<z, v>> \in before}
  <1>1. IsFiniteSet(Below(x)) /\ IsFiniteSet(Below(y))
    BY FS_Subset
  <1>2. Below(x) \subseteq Below(y) /\ x \in Below(y) /\ x \notin Below(x)
    BY DEF Orders
  <1>3. Below(x) \in SUBSET Below(y) /\ Below(x) # Below(y)
    BY <1>2
  <1> HIDE DEF Below
  <1>4. Cardinality(Below(x)) # Cardinality(Below(y)) /\ Cardinality(Below(x)) <= Cardinality(Below(y))
    BY <1>1, <1>3, FS_Subset
  <1> QED
    BY <1>1, <1>4, FS_CardinalityType DEF Below

\* InOrder lists the set, in the order, and each element has its rank.
LEMMA InOrderLists ==
    ASSUME NEW set, IsFiniteSet(set), NEW before, Orders(before, set)
    PROVE  /\ Lists(InOrder(set, before), set)
           /\ Len(InOrder(set, before)) = Cardinality(set)
           /\ \A k \in 1..Cardinality(set) :
                 Cardinality({y \in set : <<y, InOrder(set, before)[k]>> \in before}) = k - 1
           /\ \A i, j \in 1..Cardinality(set) :
                 i < j => <<InOrder(set, before)[i], InOrder(set, before)[j]>> \in before
  <1> DEFINE n       == Cardinality(set)
             Rank(x) == Cardinality({y \in set : <<y, x>> \in before})
             f       == [x \in set |-> Rank(x) + 1]
             t       == InOrder(set, before)
  <1>1. n \in Nat /\ IsFiniteSet(1..n) /\ Cardinality(1..n) = n
    BY FS_CardinalityType, FS_Interval
  <1>2. ASSUME NEW x \in set
        PROVE  Rank(x) \in Nat /\ Rank(x) < n
    <2>1. {y \in set : <<y, x>> \in before} \in SUBSET set
      OBVIOUS
    <2>2. {y \in set : <<y, x>> \in before} # set
      BY DEF Orders
    <2>3. Cardinality({y \in set : <<y, x>> \in before}) \in Nat
      BY <2>1, FS_Subset, FS_CardinalityType
    <2>4. Cardinality({y \in set : <<y, x>> \in before}) <= n
      BY <2>1, FS_Subset
    <2>5. Cardinality({y \in set : <<y, x>> \in before}) # n
      BY <2>1, <2>2, FS_Subset
    <2> HIDE DEF n
    <2> QED
      BY <1>1, <2>3, <2>4, <2>5
  <1>3. ASSUME NEW x \in set, NEW y \in set, Rank(x) = Rank(y)
        PROVE  x = y
    <2>1. /\ <<x, y>> \in before => Rank(x) < Rank(y)
          /\ <<y, x>> \in before => Rank(y) < Rank(x)
      BY FewerBefore
    <2>2. Rank(x) \in Nat
      BY <1>2
    <2> HIDE DEF Rank
    <2>3. <<x, y>> \notin before /\ <<y, x>> \notin before
      BY <1>3, <2>1, <2>2
    <2> QED
      BY <2>3 DEF Orders
  <1>4. f \in Injection(set, 1..n)
    <2>1. f \in [set -> 1..n]
      BY <1>1, <1>2
    <2>2. \A x, y \in set : f[x] = f[y] => x = y
      <3> HIDE DEF Rank
      <3> QED
        BY <1>2, <1>3
    <2> HIDE DEF f
    <2> QED
      BY <2>1, <2>2 DEF Injection, IsInjective
  <1>5. \A k \in 1..n : \E x \in set : Rank(x) = k - 1
    <2>1. f \in Surjection(set, 1..n)
      <3> HIDE DEF f
      <3> QED
        BY <1>1, <1>4, FS_Injection
    <2>2. \A k \in 1..n : \E x \in set : f[x] = k
      BY <2>1 DEF Surjection
    <2> HIDE DEF Rank
    <2> QED
      BY <1>1, <1>2, <2>2
  <1> DEFINE rank   == [x \in set |-> Rank(x)]
             choice == [k \in 1..n |-> CHOOSE x \in set : rank[x] = k - 1]
  <1>6. t = Listed(choice, n)
    BY DEF InOrder
  <1>7. \A k \in 1..n : choice[k] \in set /\ Rank(choice[k]) = k - 1
    <2>1. \A k \in 1..n : \E x \in set : rank[x] = k - 1
      <3> HIDE DEF Rank
      <3> QED
        BY <1>5
    <2>2. \A k \in 1..n : choice[k] \in set /\ rank[choice[k]] = k - 1
      <3> HIDE DEF rank
      <3> QED
        BY <2>1
    <2> HIDE DEF Rank, choice
    <2> QED
      BY <2>2
  <1>8. choice \in [1..n -> set]
    <2> HIDE DEF Rank, rank
    <2> QED
      BY <1>7
  <1>9. t = choice /\ t \in Seq(set) /\ Len(t) = n
    <2> HIDE DEF t, n, choice
    <2> QED
      BY <1>1, <1>6, <1>8, ListedSeq
  <1>10. \A k \in 1..n : t[k] \in set /\ Rank(t[k]) = k - 1
    <2> HIDE DEF t, choice, Rank
    <2> QED
      BY <1>7, <1>9
  <1> HIDE DEF choice, rank
  <1>11. \A i, j \in 1..n : t[i] = t[j] => i = j
    <2> HIDE DEF t, Rank
    <2> QED
      BY <1>1, <1>10
  <1>12. \A x \in set : \E i \in 1..n : t[i] = x
    <2> HIDE DEF t, Rank
    <2> SUFFICES ASSUME NEW x \in set PROVE \E i \in 1..n : t[i] = x
      OBVIOUS
    <2>1. Rank(x) + 1 \in 1..n
      BY <1>1, <1>2
    <2>2. Rank(t[Rank(x) + 1]) = Rank(x)
      BY <1>2, <1>10, <2>1
    <2> QED
      BY <1>3, <1>10, <2>1, <2>2
  <1>13. \A i, j \in 1..n : i < j => <<t[i], t[j]>> \in before
    <2>1. \A u, v \in set : <<u, v>> \in before => Rank(u) < Rank(v)
      BY FewerBefore
    <2> HIDE DEF Rank, t
    <2> SUFFICES ASSUME NEW i \in 1..n, NEW j \in 1..n, i < j
                 PROVE  <<t[i], t[j]>> \in before
      OBVIOUS
    <2>2. t[i] # t[j]
      BY <1>11
    <2>3. ~(Rank(t[j]) < Rank(t[i]))
      BY <1>1, <1>10
    <2> QED
      BY <1>10, <2>1, <2>2, <2>3 DEF Orders
  <1> QED
    BY <1>9, <1>10, <1>11, <1>12, <1>13 DEF Lists

\* An increasing sequence of the positions that At takes its elements from.
PositionsOf(seq, positions, order) ==
    /\ order \in [1..Cardinality(positions) -> positions]
    /\ \A k \in 1..Cardinality(positions) :
          /\ At(seq, positions)[k] = seq[order[k]]
          /\ Cardinality({i \in positions : i < order[k]}) = k - 1
    /\ \A j, k \in 1..Cardinality(positions) : j < k => order[j] < order[k]
    /\ \A i \in positions : \E k \in 1..Cardinality(positions) : order[k] = i

\* At lists the elements at the positions.
LEMMA AtProperties ==
    ASSUME NEW T, NEW seq \in Seq(T), NEW positions \in SUBSET DOMAIN seq
    PROVE  /\ IsFiniteSet(positions)
           /\ At(seq, positions) \in Seq(T)
           /\ Len(At(seq, positions)) = Cardinality(positions)
           /\ \E order : PositionsOf(seq, positions, order)
  <1> DEFINE before == {p \in positions \X positions : p[1] < p[2]}
             order  == InOrder(positions, before)
             n      == Cardinality(positions)
  <1>1. positions \in SUBSET (1..Len(seq)) /\ Len(seq) \in Nat
    BY LenProperties
  <1>2. IsFiniteSet(positions) /\ n \in Nat
    <2>1. IsFiniteSet(1..Len(seq))
      BY <1>1, FS_Interval
    <2> QED
      BY <1>1, <2>1, FS_Subset, FS_CardinalityType
  <1>3. Orders(before, positions)
    BY <1>1 DEF Orders
  <1>4. /\ Lists(order, positions)
        /\ Len(order) = n
        /\ \A k \in 1..n : Cardinality({y \in positions : <<y, order[k]>> \in before}) = k - 1
        /\ \A i, j \in 1..n : i < j => <<order[i], order[j]>> \in before
    <2> HIDE DEF before
    <2> QED
      BY <1>2, <1>3, InOrderLists
  <1>5. order \in [1..n -> positions] /\ \A i \in positions : \E k \in 1..n : order[k] = i
    <2> HIDE DEF order, n
    <2> QED
      BY <1>4, LenProperties DEF Lists
  <1>6. \A k \in 1..n : Cardinality({i \in positions : i < order[k]}) = k - 1
    <2> HIDE DEF order, n
    <2> SUFFICES ASSUME NEW k \in 1..n
                 PROVE  Cardinality({i \in positions : i < order[k]}) = k - 1
      OBVIOUS
    <2>1. {y \in positions : <<y, order[k]>> \in before} = {i \in positions : i < order[k]}
      BY <1>5
    <2> QED
      BY <1>4, <2>1
  <1>7. \A j, k \in 1..n : j < k => order[j] < order[k]
    <2> HIDE DEF order, n
    <2> QED
      BY <1>4
  <1> DEFINE f == [k \in 1..n |-> seq[order[k]]]
  <1>8. At(seq, positions) = Listed(f, n)
    <2>1. DOMAIN order = 1..n
      <3> HIDE DEF order, n
      <3> QED
        BY <1>5
    <2>2. At(seq, positions) = Listed([k \in DOMAIN order |-> seq[order[k]]], Len(order))
      BY DEF At
    <2> HIDE DEF order, n
    <2> QED
      BY <1>4, <2>1, <2>2
  <1>9. f \in [1..n -> T]
    <2> HIDE DEF order, n
    <2> QED
      BY <1>1, <1>5, ElementOfSeq
  <1>10. /\ At(seq, positions) = f
         /\ At(seq, positions) \in Seq(T)
         /\ Len(At(seq, positions)) = n
    <2> HIDE DEF order, n, f
    <2> QED
      BY <1>2, <1>8, <1>9, ListedSeq
  <1>11. \A k \in 1..n : At(seq, positions)[k] = seq[order[k]]
    <2> HIDE DEF order, n
    <2> QED
      BY <1>10
  <1>12. PositionsOf(seq, positions, order)
    <2> HIDE DEF order, before, f
    <2> QED
      BY <1>5, <1>6, <1>7, <1>11 DEF PositionsOf
  <1> HIDE DEF order, before, f
  <1> QED
    BY <1>2, <1>10, <1>12

-----------------------------------------------------------------------------
(* Comprehensions and slices                                               *)

\* Each element of t is one of seq.
DrawnFrom(t, seq) == \A k \in 1..Len(t) : \E i \in 1..Len(seq) : t[k] = seq[i]

\* The elements of t are those of seq that are in a set.
Keeps(t, seq, set) ==
    /\ DrawnFrom(t, seq)
    /\ \A k \in 1..Len(t) : t[k] \in set
    /\ \A i \in 1..Len(seq) : seq[i] \in set => \E k \in 1..Len(t) : t[k] = seq[i]

\* What a comprehension keeps: the elements in the set, as many as there are.
LEMMA OnlyProperties ==
    ASSUME NEW T, NEW seq \in Seq(T), NEW set
    PROVE  /\ Only(seq, set) \in Seq(T)
           /\ Len(Only(seq, set)) = Cardinality({i \in 1..Len(seq) : seq[i] \in set})
           /\ Keeps(Only(seq, set), seq, set)
  <1> DEFINE positions == {i \in DOMAIN seq : seq[i] \in set}
  <1>1. DOMAIN seq = 1..Len(seq) /\ positions \in SUBSET DOMAIN seq
    BY LenProperties
  <1>2. Only(seq, set) = At(seq, positions)
    BY DEF Only
  <1>3. positions = {i \in 1..Len(seq) : seq[i] \in set}
    BY <1>1
  <1>4. \A i \in positions : i \in 1..Len(seq) /\ seq[i] \in set
    BY <1>1
  <1>5. \A i \in 1..Len(seq) : seq[i] \in set => i \in positions
    BY <1>1
  <1> HIDE DEF positions
  <1>6. /\ At(seq, positions) \in Seq(T)
        /\ Len(At(seq, positions)) = Cardinality(positions)
    BY <1>1, AtProperties
  <1>7. PICK order : PositionsOf(seq, positions, order)
    BY <1>1, AtProperties
  <1> HIDE DEF positions
  <1>8. \A k \in 1..Cardinality(positions) :
           order[k] \in positions /\ At(seq, positions)[k] = seq[order[k]]
    BY <1>7 DEF PositionsOf
  <1>9. \A i \in positions : \E k \in 1..Cardinality(positions) : At(seq, positions)[k] = seq[i]
    BY <1>7 DEF PositionsOf
  <1> DEFINE t == Only(seq, set)
             n == Cardinality(positions)
  <1>10. n = Cardinality({i \in 1..Len(seq) : seq[i] \in set})
    BY <1>3
  <1>11. t \in Seq(T) /\ Len(t) = n
    BY <1>2, <1>6
  <1>12. \A k \in 1..n : t[k] \in set /\ \E i \in 1..Len(seq) : t[k] = seq[i]
    BY <1>2, <1>4, <1>8
  <1>13. \A i \in 1..Len(seq) : seq[i] \in set => \E k \in 1..n : t[k] = seq[i]
    BY <1>2, <1>5, <1>9
  <1> HIDE DEF t, n
  <1>14. /\ Len(t) = Cardinality({i \in 1..Len(seq) : seq[i] \in set})
         /\ \A k \in 1..Len(t) : t[k] \in set /\ \E i \in 1..Len(seq) : t[k] = seq[i]
         /\ \A i \in 1..Len(seq) : seq[i] \in set => \E k \in 1..Len(t) : t[k] = seq[i]
    BY <1>10, <1>11, <1>12, <1>13
  <1>15. Keeps(t, seq, set)
    BY <1>14 DEF Keeps, DrawnFrom
  <1> QED
    BY <1>11, <1>14, <1>15 DEF t

\* The place of an element among those that are kept.
NumberOf(i, positions) == Cardinality({j \in positions : j <= i})

\* What a comprehension keeps has the number of its position among the positions kept.
Numbered(t, seq, positions) ==
    /\ \A i \in positions :
          /\ NumberOf(i, positions) \in 1..Len(t)
          /\ t[NumberOf(i, positions)] = seq[i]
    /\ \A k \in 1..Len(t) : \E i \in positions : NumberOf(i, positions) = k

LEMMA AtNumbered ==
    ASSUME NEW T, NEW seq \in Seq(T), NEW positions \in SUBSET DOMAIN seq
    PROVE  Numbered(At(seq, positions), seq, positions)
  <1> DEFINE n == Cardinality(positions)
             t == At(seq, positions)
  <1>1. IsFiniteSet(positions) /\ Len(t) = n
    BY AtProperties
  <1>2. PICK order : PositionsOf(seq, positions, order)
    BY AtProperties
  <1>3. positions \in SUBSET Nat
    BY LenProperties
  <1>4. ASSUME NEW k \in 1..n
        PROVE  NumberOf(order[k], positions) = k
    <2> DEFINE under == {j \in positions : j < order[k]}
    <2>1. order[k] \in positions /\ Cardinality(under) = k - 1
      BY <1>2 DEF PositionsOf
    <2>2. {j \in positions : j <= order[k]} = under \cup {order[k]}
      BY <1>3, <2>1
    <2>3. IsFiniteSet(under) /\ order[k] \notin under
      BY <1>1, <1>3, <2>1, FS_Subset
    <2> HIDE DEF under
    <2>4. Cardinality(under \cup {order[k]}) = (k - 1) + 1
      BY <2>1, <2>3, FS_AddElement
    <2>5. (k - 1) + 1 = k
      OBVIOUS
    <2> QED
      BY <2>2, <2>4, <2>5 DEF NumberOf
  <1>5. ASSUME NEW i \in positions
        PROVE  NumberOf(i, positions) \in 1..n /\ t[NumberOf(i, positions)] = seq[i]
    <2>1. PICK k \in 1..n : order[k] = i
      BY <1>2 DEF PositionsOf
    <2>2. t[k] = seq[order[k]]
      BY <1>2 DEF PositionsOf
    <2> QED
      BY <1>4, <2>1, <2>2
  <1>6. ASSUME NEW k \in 1..n
        PROVE  \E i \in positions : NumberOf(i, positions) = k
    <2>1. order[k] \in positions
      BY <1>2 DEF PositionsOf
    <2> QED
      BY <1>4, <2>1
  <1> HIDE DEF t, n
  <1>7. Numbered(t, seq, positions)
    BY <1>1, <1>5, <1>6 DEF Numbered
  <1> QED
    BY <1>7 DEF t

\* Two conditions of which each element meets one share a list between them.
LEMMA OnlyPartition ==
    ASSUME NEW T, NEW seq \in Seq(T), NEW A, NEW B,
           \A i \in 1..Len(seq) : seq[i] \in A <=> seq[i] \notin B
    PROVE  Len(Only(seq, A)) + Len(Only(seq, B)) = Len(seq)
  <1> DEFINE PA == {i \in 1..Len(seq) : seq[i] \in A}
             PB == {i \in 1..Len(seq) : seq[i] \in B}
  <1>1. Len(seq) \in Nat
    BY LenProperties
  <1>2. IsFiniteSet(1..Len(seq)) /\ Cardinality(1..Len(seq)) = Len(seq)
    <2>1. ASSUME NEW n \in Nat
          PROVE  IsFiniteSet(1..n) /\ Cardinality(1..n) = n
      BY FS_Interval
    <2> QED
      BY <1>1, <2>1
  <1>3. PA \cup PB = 1..Len(seq) /\ PA \cap PB = {} /\ PA \in SUBSET (1..Len(seq))
           /\ PB \in SUBSET (1..Len(seq))
    OBVIOUS
  <1>4. Len(Only(seq, A)) = Cardinality(PA) /\ Len(Only(seq, B)) = Cardinality(PB)
    BY OnlyProperties
  <1> HIDE DEF PA, PB
  <1>5. IsFiniteSet(PA) /\ IsFiniteSet(PB)
    BY <1>2, <1>3, FS_Subset
  <1>6. Cardinality(PA \cup PB) = Cardinality(PA) + Cardinality(PB) - Cardinality({})
    BY <1>3, <1>5, FS_Union
  <1>7. Cardinality(PA) \in Nat /\ Cardinality(PB) \in Nat
    BY <1>5, FS_CardinalityType
  <1>8. Cardinality({}) = 0
    BY FS_EmptySet
  <1>9. Cardinality(PA \cup PB) = Len(seq)
    BY <1>2, <1>3
  <1>10. Cardinality(PA) + Cardinality(PB) = Len(seq)
    BY <1>6, <1>7, <1>8, <1>9
  <1> QED
    BY <1>4, <1>10

\* A comprehension over a list of a set lists what it keeps of the set.
LEMMA OnlyLists ==
    ASSUME NEW S, NEW seq, Lists(seq, S), NEW set
    PROVE  Lists(Only(seq, set), S \cap set)
  <1>1. seq \in Seq(S) /\ DOMAIN seq = 1..Len(seq) /\ Len(seq) \in Nat
    BY LenProperties DEF Lists
  <1> DEFINE positions == {i \in DOMAIN seq : seq[i] \in set}
             n         == Cardinality(positions)
             t         == Only(seq, set)
  <1>2. t = At(seq, positions)
    BY DEF Only
  <1>3. \A i \in 1..Len(seq) : seq[i] \in set <=> i \in positions
    BY <1>1
  <1>4. positions \in SUBSET DOMAIN seq
    OBVIOUS
  <1> HIDE DEF positions
  <1>5. t \in Seq(S) /\ Len(t) = n
    BY <1>1, <1>2, <1>4, AtProperties
  <1>6. PICK order : PositionsOf(seq, positions, order)
    BY <1>1, <1>4, AtProperties
  <1>7. /\ order \in [1..n -> positions]
        /\ \A k \in 1..n : t[k] = seq[order[k]]
        /\ \A j, k \in 1..n : j < k => order[j] < order[k]
        /\ \A i \in positions : \E k \in 1..n : order[k] = i
    BY <1>2, <1>6 DEF PositionsOf
  <1> HIDE DEF t
  <1>8. \A k \in 1..n : order[k] \in 1..Len(seq) /\ t[k] \in S \cap set
    BY <1>1, <1>3, <1>4, <1>7, ElementOfSeq
  <1>9. n \in Nat
    BY <1>5, LenProperties
  <1>10. ASSUME NEW j \in 1..n, NEW k \in 1..n, t[j] = t[k]
         PROVE  j = k
    <2>1. \A a, b \in 1..Len(seq) : seq[a] = seq[b] => a = b
      BY DEF Lists
    <2>2. order[j] = order[k]
      BY <1>7, <1>8, <1>10, <2>1
    <2> QED
      BY <1>7, <1>8, <1>9, <2>2
  <1>11. \A x \in S \cap set : \E k \in 1..n : t[k] = x
    BY <1>3, <1>7 DEF Lists
  <1>12. t \in Seq(S \cap set)
    <2>1. t \in [1..n -> S \cap set]
      BY <1>5, <1>8, LenProperties
    <2> QED
      BY <1>9, <2>1, SeqDef
  <1> QED
    BY <1>5, <1>10, <1>11, <1>12 DEF Lists, t

\* Lists of two sets that share nothing, one after the other.
LEMMA ConcatLists ==
    ASSUME NEW S, NEW s, Lists(s, S), NEW U, NEW u, Lists(u, U), S \cap U = {}
    PROVE  Lists(s \o u, S \cup U) /\ Len(s \o u) = Len(s) + Len(u)
  <1>1. s \in Seq(S \cup U) /\ u \in Seq(S \cup U) /\ Len(s) \in Nat /\ Len(u) \in Nat
    BY LenProperties, SeqDef DEF Lists
  <1>2. /\ s \o u \in Seq(S \cup U)
        /\ Len(s \o u) = Len(s) + Len(u)
        /\ \A i \in 1..(Len(s) + Len(u)) :
              (s \o u)[i] = IF i <= Len(s) THEN s[i] ELSE u[i - Len(s)]
    BY <1>1, ConcatProperties
  <1>3. /\ \A i \in 1..Len(s) : s[i] \in S
        /\ \A i \in 1..Len(u) : u[i] \in U
    BY ElementOfSeq DEF Lists
  <1>4. ASSUME NEW i \in 1..Len(s \o u), NEW j \in 1..Len(s \o u), (s \o u)[i] = (s \o u)[j]
        PROVE  i = j
    <2>1. CASE i <= Len(s) /\ j <= Len(s)
      <3>1. i \in 1..Len(s) /\ j \in 1..Len(s) /\ s[i] = s[j]
        BY <1>1, <1>2, <1>4, <2>1
      <3> QED
        BY <3>1 DEF Lists
    <2>2. CASE ~(i <= Len(s)) /\ ~(j <= Len(s))
      <3>1. i - Len(s) \in 1..Len(u) /\ j - Len(s) \in 1..Len(u)
        BY <1>1, <1>2, <2>2
      <3>2. u[i - Len(s)] = u[j - Len(s)]
        BY <1>1, <1>2, <1>4, <2>2
      <3>3. i - Len(s) = j - Len(s)
        BY <3>1, <3>2 DEF Lists
      <3> QED
        BY <1>1, <1>2, <3>3
    <2>3. CASE i <= Len(s) /\ ~(j <= Len(s))
      <3>1. i \in 1..Len(s) /\ j - Len(s) \in 1..Len(u)
        BY <1>1, <1>2, <2>3
      <3> QED
        BY <1>1, <1>2, <1>3, <1>4, <2>3, <3>1
    <2>4. CASE ~(i <= Len(s)) /\ j <= Len(s)
      <3>1. j \in 1..Len(s) /\ i - Len(s) \in 1..Len(u)
        BY <1>1, <1>2, <2>4
      <3> QED
        BY <1>1, <1>2, <1>3, <1>4, <2>4, <3>1
    <2> QED
      BY <2>1, <2>2, <2>3, <2>4
  <1>5. ASSUME NEW x \in S \cup U
        PROVE  \E i \in 1..Len(s \o u) : (s \o u)[i] = x
    <2>1. CASE x \in S
      <3>1. PICK i \in 1..Len(s) : s[i] = x
        BY <2>1 DEF Lists
      <3> QED
        BY <1>1, <1>2, <3>1
    <2>2. CASE x \in U
      <3>1. PICK i \in 1..Len(u) : u[i] = x
        BY <2>2 DEF Lists
      <3>2. i + Len(s) \in 1..Len(s \o u) /\ (s \o u)[i + Len(s)] = u[i]
        BY <1>1, <1>2
      <3> QED
        BY <3>1, <3>2
    <2> QED
      BY <2>1, <2>2
  <1> QED
    BY <1>2, <1>4, <1>5 DEF Lists

\* The smaller of two numbers.
LEMMA MinOfTwo ==
    ASSUME NEW a \in Int, NEW b \in Int
    PROVE  Min({a, b}) = IF a <= b THEN a ELSE b
  <1>1. CASE a <= b
    <2>1. a \in {a, b} /\ \A y \in {a, b} : a <= y
      BY <1>1
    <2>2. \A x \in {a, b} : (\A y \in {a, b} : x <= y) => x = a
      BY <1>1
    <2> QED
      BY <1>1, <2>1, <2>2 DEF Min
  <1>2. CASE ~(a <= b)
    <2>1. b \in {a, b} /\ \A y \in {a, b} : b <= y
      BY <1>2
    <2>2. \A x \in {a, b} : (\A y \in {a, b} : x <= y) => x = b
      BY <1>2
    <2> QED
      BY <1>2, <2>1, <2>2 DEF Min
  <1> QED
    BY <1>1, <1>2

\* The slice seq[:n] is all of a list, or its first n elements.
LEMMA FirstOfProperties ==
    ASSUME NEW T, NEW seq \in Seq(T), NEW n \in Nat
    PROVE  /\ FirstOf(seq, n) \in Seq(T)
           /\ Len(FirstOf(seq, n)) = IF n <= Len(seq) THEN n ELSE Len(seq)
           /\ \A i \in 1..Len(FirstOf(seq, n)) : FirstOf(seq, n)[i] = seq[i]
  <1>1. Len(seq) \in Nat /\ \A i \in 1..Len(seq) : seq[i] \in T
    BY LenProperties, ElementOfSeq
  <1>2. FirstOf(seq, n) = SubSeq(seq, 1, IF n <= Len(seq) THEN n ELSE Len(seq))
    BY <1>1, MinOfTwo DEF FirstOf
  <1> DEFINE m == IF n <= Len(seq) THEN n ELSE Len(seq)
  <1>3. m \in Nat /\ m <= Len(seq)
    BY <1>1
  <1> HIDE DEF m
  <1>4. \A i \in 1..m : seq[i] \in T
    BY <1>1, <1>3
  <1>5. /\ SubSeq(seq, 1, m) \in Seq(T)
        /\ Len(SubSeq(seq, 1, m)) = m
        /\ \A i \in 1..m : SubSeq(seq, 1, m)[i] = seq[i]
    BY <1>1, <1>3, <1>4, SubSeqProperties
  <1> QED
    BY <1>2, <1>5 DEF m

-----------------------------------------------------------------------------
(* Sorts                                                                   *)

\* No element is followed by a severer one.
Descending(seq) == \A i, j \in 1..Len(seq) : i < j => seq[i].severity >= seq[j].severity

\* A sort lists what it is given, the severest first.
LEMMA SortLists ==
    ASSUME NEW S, NEW seq, Lists(seq, S), \A x \in S : x.severity \in Int
    PROVE  Lists(SortedDescending(seq), S) /\ Descending(SortedDescending(seq))
  <1> DEFINE n      == Len(seq)
             before == {p \in (DOMAIN seq) \X (DOMAIN seq) :
                           \/ seq[p[1]].severity > seq[p[2]].severity
                           \/ seq[p[1]].severity = seq[p[2]].severity /\ p[1] < p[2]}
             order  == InOrder(DOMAIN seq, before)
             t      == SortedDescending(seq)
  <1>1. /\ DOMAIN seq = 1..n
        /\ n \in Nat
        /\ \A i \in 1..n : seq[i] \in S /\ seq[i].severity \in Int
    BY LenProperties, ElementOfSeq DEF Lists
  <1>2. IsFiniteSet(1..n) /\ Cardinality(1..n) = n
    <2>1. ASSUME NEW m \in Nat
          PROVE  IsFiniteSet(1..m) /\ Cardinality(1..m) = m
      BY FS_Interval
    <2> QED
      BY <1>1, <2>1
  <1>3. Orders(before, 1..n)
    <2> HIDE DEF n
    <2>1. \A x, y \in 1..n : <<x, y>> \in before <=>
             \/ seq[x].severity > seq[y].severity
             \/ seq[x].severity = seq[y].severity /\ x < y
      BY <1>1
    <2> HIDE DEF before
    <2>2. \A x \in 1..n : <<x, x>> \notin before
      BY <1>1, <2>1
    <2>3. ASSUME NEW x \in 1..n, NEW y \in 1..n
          PROVE  x = y \/ <<x, y>> \in before \/ <<y, x>> \in before
      <3>1. x \in Int /\ y \in Int /\ seq[x].severity \in Int /\ seq[y].severity \in Int
        BY <1>1
      <3>2. x = y \/ x < y \/ y < x
        BY <3>1
      <3>3. \/ seq[x].severity > seq[y].severity
            \/ seq[x].severity = seq[y].severity
            \/ seq[y].severity > seq[x].severity
        BY <3>1
      <3> QED
        BY <2>1, <3>2, <3>3
    <2>4. \A x, y, z \in 1..n :
             <<x, y>> \in before /\ <<y, z>> \in before => <<x, z>> \in before
      BY <1>1, <2>1
    <2> QED
      BY <2>2, <2>3, <2>4 DEF Orders
  <1>4. /\ Lists(order, 1..n)
        /\ Len(order) = n
        /\ \A i, j \in 1..n : i < j => <<order[i], order[j]>> \in before
    <2>1. order = InOrder(1..n, before)
      BY <1>1
    <2> HIDE DEF before, n, order
    <2> QED
      BY <1>2, <1>3, <2>1, InOrderLists
  <1> DEFINE f == [k \in 1..n |-> seq[order[k]]]
  <1>5. /\ order \in [1..n -> 1..n]
        /\ \A i, j \in 1..n : order[i] = order[j] => i = j
        /\ \A i \in 1..n : \E k \in 1..n : order[k] = i
    <2> HIDE DEF order, n
    <2> QED
      BY <1>4, LenProperties DEF Lists
  <1>6. t = Listed(f, n)
    <2>1. t = Listed([k \in DOMAIN order |-> seq[order[k]]], Len(order))
      BY DEF SortedDescending
    <2> HIDE DEF order, n, t
    <2> QED
      BY <1>4, <1>5, <2>1
  <1>7. t = f /\ t \in Seq(S) /\ Len(t) = n
    <2> HIDE DEF order, n, t
    <2>1. f \in [1..n -> S]
      BY <1>1, <1>5
    <2> HIDE DEF f
    <2> QED
      BY <1>1, <1>6, <2>1, ListedSeq
  <1>8. \A k \in 1..n : t[k] = seq[order[k]]
    <2> HIDE DEF order, n, t
    <2> QED
      BY <1>7
  <1>9. \A i, j \in 1..n : seq[i] = seq[j] => i = j
    BY DEF Lists
  <1>10. \A i, j \in 1..n : t[i] = t[j] => i = j
    <2> HIDE DEF order, n, t, f
    <2> SUFFICES ASSUME NEW i \in 1..n, NEW j \in 1..n, t[i] = t[j]
                 PROVE  i = j
      OBVIOUS
    <2>1. order[i] \in 1..n /\ order[j] \in 1..n /\ seq[order[i]] = seq[order[j]]
      BY <1>5, <1>8
    <2>2. order[i] = order[j]
      BY <1>9, <2>1
    <2> QED
      BY <1>5, <2>2
  <1>11. \A x \in S : \E k \in 1..n : t[k] = x
    <2>1. \A x \in S : \E i \in 1..n : seq[i] = x
      BY DEF Lists
    <2> HIDE DEF order, n, t, f
    <2> QED
      BY <1>5, <1>8, <2>1
  <1>12. \A i, j \in 1..n : i < j => t[i].severity >= t[j].severity
    <2>1. \A x, y \in 1..n : <<x, y>> \in before => seq[x].severity >= seq[y].severity
      BY <1>1
    <2> HIDE DEF order, n, t, f, before
    <2> SUFFICES ASSUME NEW i \in 1..n, NEW j \in 1..n, i < j
                 PROVE  t[i].severity >= t[j].severity
      OBVIOUS
    <2>2. order[i] \in 1..n /\ order[j] \in 1..n /\ <<order[i], order[j]>> \in before
      BY <1>4, <1>5
    <2> QED
      BY <1>8, <2>1, <2>2
  <1> HIDE DEF t
  <1> QED
    BY <1>7, <1>10, <1>11, <1>12 DEF Lists, Descending, t

\* The worst elements of a set, at most n of them: none is twice among them, only the
\* limit leaves one out, and none is left out for a milder one.
WorstOf(t, S, n) ==
    /\ t \in Seq(S)
    /\ Len(t) <= n
    /\ \A i, j \in 1..Len(t) : t[i] = t[j] => i = j
    /\ Descending(t)
    /\ \A x \in S : \/ \E i \in 1..Len(t) : t[i] = x
                    \/ /\ Len(t) = n
                       /\ \A i \in 1..Len(t) : t[i].severity >= x.severity

\* The first elements of a list with the severest first.
LEMMA FirstOfDescending ==
    ASSUME NEW S, NEW seq, Lists(seq, S), Descending(seq), NEW n \in Nat,
           \A x \in S : x.severity \in Int
    PROVE  WorstOf(FirstOf(seq, n), S, n)
  <1> DEFINE t == FirstOf(seq, n)
  <1>1. seq \in Seq(S) /\ Len(seq) \in Nat /\ \A i \in 1..Len(seq) : seq[i] \in S
    BY LenProperties, ElementOfSeq DEF Lists
  <1>2. /\ t \in Seq(S)
        /\ Len(t) = IF n <= Len(seq) THEN n ELSE Len(seq)
        /\ \A i \in 1..Len(t) : t[i] = seq[i]
    BY <1>1, FirstOfProperties
  <1> HIDE DEF t
  <1>3. Len(t) \in Nat /\ Len(t) <= n /\ \A i \in 1..Len(t) : i \in 1..Len(seq)
    BY <1>1, <1>2
  <1>4. \A i, j \in 1..Len(t) : t[i] = t[j] => i = j
    BY <1>2, <1>3 DEF Lists
  <1>5. Descending(t)
    BY <1>2, <1>3 DEF Descending
  <1>6. ASSUME NEW x \in S
        PROVE  \/ \E i \in 1..Len(t) : t[i] = x
               \/ Len(t) = n /\ \A i \in 1..Len(t) : t[i].severity >= x.severity
    <2>1. PICK k \in 1..Len(seq) : seq[k] = x
      BY DEF Lists
    <2>2. CASE k <= Len(t)
      BY <1>1, <1>2, <1>3, <2>1, <2>2
    <2>3. CASE ~(k <= Len(t))
      <3>1. Len(t) = n
        BY <1>1, <1>2, <2>3
      <3>2. \A i \in 1..Len(t) : i < k
        BY <1>1, <1>3, <2>3
      <3>3. \A i \in 1..Len(t) : seq[i].severity >= seq[k].severity
        BY <1>3, <3>2 DEF Descending
      <3> QED
        BY <1>2, <2>1, <3>1, <3>3
    <2> QED
      BY <2>2, <2>3
  <1> QED
    BY <1>2, <1>3, <1>4, <1>5, <1>6 DEF t, WorstOf

-----------------------------------------------------------------------------
(* Lists of lists                                                          *)

\* The elements without repetition are elements.
LEMMA DistinctProperties ==
    ASSUME NEW T, NEW seq \in Seq(T)
    PROVE  /\ Distinct(seq) \in Seq(T)
           /\ DrawnFrom(Distinct(seq), seq)
  <1> DEFINE positions == {i \in DOMAIN seq : \A j \in DOMAIN seq : j < i => seq[j] # seq[i]}
  <1>1. Distinct(seq) = At(seq, positions)
    BY DEF Distinct
  <1>2. positions \in SUBSET DOMAIN seq /\ DOMAIN seq = 1..Len(seq)
    BY LenProperties
  <1> HIDE DEF positions
  <1>3. /\ At(seq, positions) \in Seq(T)
        /\ Len(At(seq, positions)) = Cardinality(positions)
    BY <1>2, AtProperties
  <1>4. PICK order : PositionsOf(seq, positions, order)
    BY <1>2, AtProperties
  <1>5. \A k \in 1..Cardinality(positions) :
           order[k] \in positions /\ At(seq, positions)[k] = seq[order[k]]
    BY <1>4 DEF PositionsOf
  <1> QED
    BY <1>1, <1>2, <1>3, <1>5 DEF DrawnFrom

\* The places of a list of lists.
PlacesOf(seqs) == UNION {{a} \X DOMAIN seqs[a] : a \in DOMAIN seqs}

LEMMA PlacesFinite ==
    ASSUME NEW T, NEW seqs \in Seq(Seq(T))
    PROVE  /\ IsFiniteSet(PlacesOf(seqs))
           /\ \A p \in PlacesOf(seqs) : /\ p = <<p[1], p[2]>>
                                        /\ p[1] \in 1..Len(seqs)
                                        /\ p[2] \in 1..Len(seqs[p[1]])
  <1>1. /\ DOMAIN seqs = 1..Len(seqs)
        /\ Len(seqs) \in Nat
        /\ \A a \in 1..Len(seqs) : seqs[a] \in Seq(T)
    BY LenProperties, ElementOfSeq
  <1>2. \A a \in 1..Len(seqs) : /\ DOMAIN seqs[a] = 1..Len(seqs[a])
                                /\ Len(seqs[a]) \in Nat
    BY <1>1, LenProperties
  <1>3. ASSUME NEW n \in Nat
        PROVE  IsFiniteSet(1..n)
    BY FS_Interval
  <1> DEFINE row   == [a \in 1..Len(seqs) |-> {a} \X (1..Len(seqs[a]))]
             rows  == {row[a] : a \in 1..Len(seqs)}
  <1>4. PlacesOf(seqs) = UNION rows
    BY <1>1, <1>2 DEF PlacesOf
  <1>5. \A a \in 1..Len(seqs) : IsFiniteSet(row[a])
    <2> SUFFICES ASSUME NEW a \in 1..Len(seqs) PROVE IsFiniteSet(row[a])
      OBVIOUS
    <2>1. IsFiniteSet({a}) /\ IsFiniteSet(1..Len(seqs[a]))
      BY <1>2, <1>3, FS_Singleton
    <2>2. IsFiniteSet({a} \X (1..Len(seqs[a])))
      BY <2>1, FS_Product
    <2> QED
      BY <2>2
  <1>6. IsFiniteSet(rows)
    <2>1. row \in Surjection(1..Len(seqs), rows)
      BY DEF Surjection
    <2> HIDE DEF row
    <2> QED
      BY <1>1, <1>3, <2>1, FS_Surjection
  <1>7. IsFiniteSet(UNION rows)
    <2> HIDE DEF row
    <2>1. \A R \in rows : IsFiniteSet(R)
      BY <1>5
    <2> HIDE DEF rows
    <2> QED
      BY <1>6, <2>1, FS_UNION
  <1>8. \A p \in PlacesOf(seqs) : /\ p = <<p[1], p[2]>>
                                  /\ p[1] \in 1..Len(seqs)
                                  /\ p[2] \in 1..Len(seqs[p[1]])
    BY <1>1, <1>2 DEF PlacesOf
  <1> QED
    BY <1>4, <1>7, <1>8

\* Each element of t is in one of the lists.
DrawnFromAny(t, seqs) ==
    \A k \in 1..Len(t) : \E a \in 1..Len(seqs) : \E b \in 1..Len(seqs[a]) : t[k] = seqs[a][b]

\* A list of lists in one: as long as there are places in it, and with the elements there.
LEMMA FlattenProperties ==
    ASSUME NEW T, NEW seqs \in Seq(Seq(T))
    PROVE  /\ Flatten(seqs) \in Seq(T)
           /\ Len(Flatten(seqs)) = Cardinality(PlacesOf(seqs))
           /\ DrawnFromAny(Flatten(seqs), seqs)
  <1> DEFINE places == PlacesOf(seqs)
             before == {p \in places \X places :
                           \/ p[1][1] < p[2][1]
                           \/ p[1][1] = p[2][1] /\ p[1][2] < p[2][2]}
             order  == InOrder(places, before)
             n      == Cardinality(places)
             f      == [k \in 1..n |-> seqs[order[k][1]][order[k][2]]]
  <1>1. /\ IsFiniteSet(places)
        /\ \A p \in places : /\ p = <<p[1], p[2]>>
                             /\ p[1] \in 1..Len(seqs)
                             /\ p[2] \in 1..Len(seqs[p[1]])
    BY PlacesFinite
  <1>2. /\ Len(seqs) \in Nat
        /\ \A a \in 1..Len(seqs) : seqs[a] \in Seq(T) /\ Len(seqs[a]) \in Nat
    BY LenProperties, ElementOfSeq
  <1>3. Orders(before, places)
    <2>1. \A x, y \in places : <<x, y>> \in before <=> \/ x[1] < y[1]
                                                       \/ x[1] = y[1] /\ x[2] < y[2]
      OBVIOUS
    <2>2. \A x \in places : x[1] \in Int /\ x[2] \in Int
      BY <1>1, <1>2
    <2>3. \A x, y \in places : x[1] = y[1] /\ x[2] = y[2] => x = y
      BY <1>1
    <2> HIDE DEF before, places
    <2>4. \A x \in places : <<x, x>> \notin before
      BY <2>1, <2>2
    <2>5. ASSUME NEW x \in places, NEW y \in places
          PROVE  x = y \/ <<x, y>> \in before \/ <<y, x>> \in before
      <3>1. x[1] < y[1] \/ x[1] = y[1] \/ y[1] < x[1]
        BY <2>2
      <3>2. x[2] < y[2] \/ x[2] = y[2] \/ y[2] < x[2]
        BY <2>2
      <3> QED
        BY <2>1, <2>3, <3>1, <3>2
    <2>6. ASSUME NEW x \in places, NEW y \in places, NEW z \in places,
                 <<x, y>> \in before, <<y, z>> \in before
          PROVE  <<x, z>> \in before
      <3>1. /\ x[1] < y[1] \/ (x[1] = y[1] /\ x[2] < y[2])
            /\ y[1] < z[1] \/ (y[1] = z[1] /\ y[2] < z[2])
        BY <2>1, <2>6
      <3>2. x[1] < z[1] \/ (x[1] = z[1] /\ x[2] < z[2])
        BY <2>2, <3>1
      <3> QED
        BY <2>1, <3>2
    <2> QED
      BY <2>4, <2>5, <2>6 DEF Orders
  <1>4. Lists(order, places) /\ Len(order) = n
    <2> HIDE DEF before, places
    <2> QED
      BY <1>1, <1>3, InOrderLists
  <1>5. order \in [1..n -> places] /\ n \in Nat
    <2> HIDE DEF order, places
    <2> QED
      BY <1>4, LenProperties DEF Lists
  <1>6. Flatten(seqs) = Listed(f, n)
    <2>1. Flatten(seqs) = Listed([k \in DOMAIN order |-> seqs[order[k][1]][order[k][2]]],
                                 Len(order))
      BY DEF Flatten, PlacesOf
    <2> HIDE DEF order, n
    <2> QED
      BY <1>4, <1>5, <2>1
  <1>7. \A k \in 1..n : /\ order[k][1] \in 1..Len(seqs)
                        /\ order[k][2] \in 1..Len(seqs[order[k][1]])
    <2> HIDE DEF order, n, places
    <2> QED
      BY <1>1, <1>5
  <1>8. \A k \in 1..n : /\ f[k] = seqs[order[k][1]][order[k][2]]
                        /\ f[k] \in T
    <2> HIDE DEF order, n
    <2> QED
      BY <1>2, <1>7, ElementOfSeq
  <1>9. f \in [1..n -> T]
    <2> HIDE DEF order, n
    <2> QED
      BY <1>8
  <1>10. Flatten(seqs) = f /\ f \in Seq(T) /\ Len(f) = n
    <2> HIDE DEF f, n
    <2> QED
      BY <1>5, <1>6, <1>9, ListedSeq
  <1> HIDE DEF f, order
  <1> QED
    BY <1>7, <1>8, <1>10 DEF DrawnFromAny

=============================================================================
