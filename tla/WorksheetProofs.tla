--------------------------- MODULE WorksheetProofs ---------------------------
(***************************************************************************)
(* Proofs about module Worksheet: for every size of the sheet, every set   *)
(* of areas to merge, of cells to link and of areas to filter.             *)
(***************************************************************************)
EXTENDS Worksheet, NaturalsInduction, WellFoundedInduction, SequenceTheorems, TLAPS

-----------------------------------------------------------------------------
(* Loops.  A loop of the model is a recursive function on 0..n.  What it   *)
(* computes is shown by giving the function (it exists) and by comparing   *)
(* any two such functions (it is the only one).                            *)

\* a set of numbers has a least one
LEMMA LeastNumber ==
  ASSUME NEW S, S \subseteq Nat, S # {}
  PROVE  \E n \in S : \A m \in S : n <= m
  <1> DEFINE R == OpToRel(<, Nat)
  <1>1. IsWellFoundedOn(R, Nat)
    BY NatLessThanWellFounded
  <1>2. \A x, y \in Nat : <<y, x>> \in R <=> y < x
    BY DEF R, OpToRel
  <1> HIDE DEF R
  <1>3. PICK x \in S : \A y \in S : ~ (<<y, x>> \in R)
    BY <1>1, WFMin
  <1>4. \A y \in S : ~(y < x)
    BY <1>2, <1>3, Zenon
  <1> QED
    BY <1>4

GoAlike(f, g, n) == f[0] = g[0] /\ \A i \in 1..n : f[i - 1] = g[i - 1] => f[i] = g[i]

\* two runs that begin alike and go on alike are the same
LEMMA SameRun ==
  ASSUME NEW n \in Nat, NEW f, NEW g, GoAlike(f, g, n)
  PROVE  \A i \in 0..n : f[i] = g[i]
  <1> DEFINE S == {i \in Nat : i <= n /\ f[i] # g[i]}
  <1>1. SUFFICES ASSUME S # {} PROVE FALSE
    OBVIOUS
  <1>2. PICK k \in S : \A j \in S : k <= j
    <2> HIDE DEF S
    <2>1. S \subseteq Nat
      BY DEF S
    <2> QED
      BY <1>1, <2>1, LeastNumber
  <1>3. k \in Nat /\ k <= n /\ f[k] # g[k]
    OBVIOUS
  <1>4. k \in 1..n /\ k - 1 \in Nat /\ ~(k <= k - 1) /\ k - 1 <= n
    BY <1>3 DEF GoAlike
  <1>5. k - 1 \notin S
    BY <1>2, <1>4
  <1> QED
    BY <1>3, <1>4, <1>5 DEF GoAlike

Deleted(arr, len, i) ==
  [j \in 1..Len(arr) |-> IF i <= j /\ j < len THEN arr[j + 1] ELSE arr[j]]

\* deleting from a slice that still has the element
LEMMA DeleteAtIs ==
  ASSUME NEW a, NEW n \in Nat, NEW i \in 1..n, NEW st,
         st = [arr |-> a, len |-> n, gone |-> FALSE, panic |-> FALSE]
  PROVE  DeleteAt(st, i)
         = [arr |-> Deleted(a, n, i), len |-> n - 1, gone |-> FALSE, panic |-> FALSE]
  <1> DEFINE b == Deleted(a, n, i)
             m == n - 1
  <1>1. ~(i > n) /\ st.len = n /\ st.arr = a
    OBVIOUS
  <1>2. DeleteAt(st, i) = [st EXCEPT !.len = m, !.arr = b]
    BY <1>1 DEF DeleteAt, Deleted
  <1> HIDE DEF b, m
  <1>3. DeleteAt(st, i) = [arr |-> b, len |-> m, gone |-> FALSE, panic |-> FALSE]
    BY <1>2
  <1> QED
    BY <1>3 DEF b, m

-----------------------------------------------------------------------------
(* deleteSheetRelationships.                                               *)

UniqueIds(r) == \A i, j \in 1..Len(r) : r[i].id = r[j].id => i = j
RelSet(r) == {r[i] : i \in 1..Len(r)}

\* q holds the relationships of r other than rid
IsWithout(q, r, rid) ==
  /\ q \in Seq(Rel) /\ UniqueIds(q)
  /\ RelSet(q) = {x \in RelSet(r) : x.id # rid}

\* what the loop makes of r, if its function is W
LEMMA RelsRun ==
  ASSUME NEW r \in Seq(Rel), NEW rid, NEW W,
         W = [i \in 0..Len(r) |-> IF i = 0 THEN Ranging(r) ELSE RelStep(W[i - 1], i, rid)]
  PROVE  RelsWithout(r, rid) = W[Len(r)]
  <1> DEFINE n == Len(r)
             f == CHOOSE run : run = [i \in 0..n |-> IF i = 0 THEN Ranging(r)
                                                     ELSE RelStep(run[i - 1], i, rid)]
  <1>1. RelsWithout(r, rid) = f[n]
    BY DEF RelsWithout
  <1>2. \E run : run = [i \in 0..n |-> IF i = 0 THEN Ranging(r)
                                       ELSE RelStep(run[i - 1], i, rid)]
    OBVIOUS
  <1>3. f = [i \in 0..n |-> IF i = 0 THEN Ranging(r) ELSE RelStep(f[i - 1], i, rid)]
    BY <1>2, Zenon
  <1>4. n \in Nat
    OBVIOUS
  <1> HIDE DEF n, f
  <1>5. f[0] = Ranging(r) /\ \A i \in 1..n : f[i] = RelStep(f[i - 1], i, rid)
    BY <1>3, <1>4
  <1>6. W[0] = Ranging(r) /\ \A i \in 1..n : W[i] = RelStep(W[i - 1], i, rid)
    BY <1>4 DEF n
  <1>7. GoAlike(f, W, n)
    BY <1>5, <1>6, Zenon DEF GoAlike
  <1>8. \A i \in 0..n : f[i] = W[i]
    BY <1>4, <1>7, SameRun
  <1> QED
    BY <1>1, <1>4, <1>8 DEF n

\* one round that meets another relationship, and the one that meets it
LEMMA RelStepIs ==
  ASSUME NEW arr, NEW len, NEW i, NEW rid
  PROVE  LET st == [arr |-> arr, len |-> len, gone |-> FALSE, panic |-> FALSE]
         IN  /\ arr[i].id # rid => RelStep(st, i, rid) = st
             /\ arr[i].id = rid => RelStep(st, i, rid) = DeleteAt(st, i)
  BY DEF RelStep

\* deleteSheetRelationships does not panic, since it meets the number once
LEMMA RelsWithoutIs ==
  ASSUME NEW r \in Seq(Rel), UniqueIds(r), NEW rid
  PROVE  /\ ~RelsWithout(r, rid).panic
         /\ IsWithout(Rest(RelsWithout(r, rid)), r, rid)
  <1> DEFINE n == Len(r)
  <1>1. n \in Nat /\ r \in [1..n -> Rel]
    OBVIOUS
  <1>2. Ranging(r) = [arr |-> r, len |-> n, gone |-> FALSE, panic |-> FALSE]
    BY DEF Ranging
  <1>3. CASE \A i \in 1..n : r[i].id # rid
    <2> DEFINE W == [i \in 0..n |-> Ranging(r)]
    <2>1. \A i \in 1..n : RelStep(Ranging(r), i, rid) = Ranging(r)
      BY <1>2, <1>3, RelStepIs, Zenon
    <2>2. W = [i \in 0..n |-> IF i = 0 THEN Ranging(r) ELSE RelStep(W[i - 1], i, rid)]
      BY <1>1, <2>1
    <2>3. W[n] = Ranging(r)
      BY <1>1
    <2> HIDE DEF W
    <2>4. RelsWithout(r, rid) = Ranging(r)
      BY <2>2, <2>3, RelsRun
    <2>5. Rest(Ranging(r)) = r
      BY <1>1, <1>2 DEF Rest
    <2>6. IsWithout(r, r, rid)
      BY <1>3 DEF IsWithout, RelSet
    <2> QED
      BY <1>2, <2>4, <2>5, <2>6
  <1>4. CASE \E i \in 1..n : r[i].id = rid
    <2>1. PICK p \in 1..n : r[p].id = rid
      BY <1>4
    <2> DEFINE arr == [j \in 1..n |-> IF p <= j /\ j < n THEN r[j + 1] ELSE r[j]]
               D == [arr |-> arr, len |-> n - 1, gone |-> FALSE, panic |-> FALSE]
               W == [i \in 0..n |-> IF i < p THEN Ranging(r) ELSE D]
    <2>2. \A i \in 1..n : i # p => r[i].id # rid
      BY <2>1 DEF UniqueIds
    <2>3. DeleteAt(Ranging(r), p) = D
      BY <1>1, <1>2, DeleteAtIs DEF Deleted
    <2>4. \A i \in (p + 1)..n : arr[i].id # rid
      BY <1>1, <2>2
    <2> HIDE DEF arr, D
    <2>5. \A i \in 1..n : W[i] = RelStep(W[i - 1], i, rid)
      <3> TAKE i \in 1..n
      <3>1. CASE i < p
        <4>1. W[i] = Ranging(r) /\ W[i - 1] = Ranging(r) /\ i # p
          BY <1>1, <3>1
        <4> QED
          BY <4>1, <1>2, <2>2, RelStepIs
      <3>2. CASE i = p
        <4>1. W[i] = D /\ W[i - 1] = Ranging(r)
          BY <1>1, <3>2
        <4> QED
          BY <4>1, <1>2, <2>1, <2>3, <3>2, RelStepIs
      <3>3. CASE i > p
        <4>1. W[i] = D /\ W[i - 1] = D /\ i \in (p + 1)..n
          BY <1>1, <3>3
        <4> QED
          BY <4>1, <2>4, RelStepIs DEF D
      <3> QED
        BY <3>1, <3>2, <3>3
    <2>6. W = [i \in 0..n |-> IF i = 0 THEN Ranging(r) ELSE RelStep(W[i - 1], i, rid)]
      <3>1. W[0] = Ranging(r)
        BY <1>1
      <3>2. W = [i \in 0..n |-> W[i]]
        OBVIOUS
      <3> HIDE DEF W
      <3> QED
        BY <1>1, <2>5, <3>1, <3>2
    <2>7. W[n] = D
      BY <1>1
    <2> HIDE DEF W
    <2>8. RelsWithout(r, rid) = D
      BY <2>6, <2>7, RelsRun
    <2> DEFINE q == Rest(D)
    <2>9. q = [j \in 1..(n - 1) |-> arr[j]]
      BY <1>1 DEF Rest, D
    <2>10. q \in Seq(Rel) /\ Len(q) = n - 1
           /\ \A j \in 1..(n - 1) : q[j] = IF p <= j THEN r[j + 1] ELSE r[j]
      BY <1>1, <2>9 DEF arr
    <2> HIDE DEF q
    <2>11. UniqueIds(q)
      BY <1>1, <2>10 DEF UniqueIds
    <2>12. \A x \in RelSet(q) : x \in RelSet(r) /\ x.id # rid
      <3> TAKE x \in RelSet(q)
      <3>1. PICK j \in 1..(n - 1) : x = q[j]
        BY <2>10 DEF RelSet
      <3>2. PICK i \in 1..n : x = r[i] /\ i # p
        BY <1>1, <2>10, <3>1
      <3> QED
        BY <2>2, <3>2 DEF RelSet
    <2>13. \A x \in RelSet(r) : x.id # rid => x \in RelSet(q)
      <3> TAKE x \in RelSet(r)
      <3> HAVE x.id # rid
      <3>1. PICK i \in 1..n : x = r[i]
        BY DEF RelSet
      <3>2. i # p
        BY <2>1, <3>1
      <3>3. PICK j \in 1..(n - 1) : j = IF i < p THEN i ELSE i - 1
        BY <1>1, <3>2
      <3>4. q[j] = r[i]
        BY <1>1, <2>10, <3>2, <3>3
      <3> QED
        BY <2>10, <3>1, <3>4 DEF RelSet
    <2>14. IsWithout(q, r, rid)
      BY <2>10, <2>11, <2>12, <2>13 DEF IsWithout
    <2>15. ~D.panic
      BY DEF D
    <2> QED
      BY <2>8, <2>14, <2>15 DEF q
  <1> QED
    BY <1>3, <1>4

-----------------------------------------------------------------------------
(* adjustMergeCells.                                                       *)

Slice(arr, len) == [arr |-> arr, len |-> len, gone |-> FALSE, panic |-> FALSE]
Dropped(arr, len) == [arr |-> arr, len |-> len, gone |-> TRUE, panic |-> FALSE]
At(st, areas) == [st |-> st, areas |-> areas]

Areas(cells) == [panic |-> FALSE, cells |-> cells]
Picked(areas, rest) == [j \in 1..Len(rest) |-> areas[rest[j]]]
Replaced(areas, id, a) == [areas EXCEPT ![id] = a]

MergeStart(m) == At(Slice([j \in 1..Len(m) |-> j], Len(m)), m)

IsMergeRun(W, m, dir, num, offset) ==
  W = [i \in 0..Len(m) |-> IF i = 0 THEN MergeStart(m)
                           ELSE MergeStep(W[i - 1], i, dir, num, offset)]

\* q holds the areas of m that are still areas once they are adjusted
IsAdjusted(q, m, dir, num, offset) ==
  /\ Len(q) \in Nat /\ q = [j \in 1..Len(q) |-> q[j]]
  /\ \E k \in [1..Len(q) -> 1..Len(m)] :
       /\ \A i, j \in 1..Len(q) : k[i] = k[j] => i = j
       /\ \A j \in 1..Len(q) : /\ q[j] = AdjustMerge(m[k[j]], dir, num, offset)
                               /\ ~Single(q[j])
       /\ \A i \in 1..Len(m) : \/ Single(AdjustMerge(m[i], dir, num, offset))
                               \/ \E j \in 1..Len(q) : k[j] = i

LEMMA MergeRun ==
  ASSUME NEW m \in Seq(Area), NEW dir, NEW num, NEW offset, NEW W,
         IsMergeRun(W, m, dir, num, offset),
         NEW arr, NEW len \in Nat, NEW areas, NEW st, W[Len(m)] = At(st, areas)
  PROVE  /\ st = Slice(arr, len) =>
              AdjustMergeCells(m, dir, num, offset)
              = Areas(Picked(areas, SubSeq(arr, 1, len)))
         /\ st = Dropped(arr, len) =>
              AdjustMergeCells(m, dir, num, offset)
              = Areas(Picked(areas, << >>))
  <1> DEFINE n == Len(m)
             f == CHOOSE run : run = [i \in 0..n |->
                    IF i = 0 THEN [st |-> Ranging([j \in 1..n |-> j]), areas |-> m]
                    ELSE MergeStep(run[i - 1], i, dir, num, offset)]
             end == Rest(f[n].st)
  <1>1. AdjustMergeCells(m, dir, num, offset)
        = [panic |-> f[n].st.panic, cells |-> Picked(f[n].areas, end)]
    BY DEF AdjustMergeCells, Picked
  <1>2. n \in Nat
    OBVIOUS
  <1>3. [st |-> Ranging([j \in 1..n |-> j]), areas |-> m] = MergeStart(m)
    BY <1>2 DEF MergeStart, At, Slice, Ranging
  <1>4. \E run : run = [i \in 0..n |->
                    IF i = 0 THEN [st |-> Ranging([j \in 1..n |-> j]), areas |-> m]
                    ELSE MergeStep(run[i - 1], i, dir, num, offset)]
    BY <1>3 DEF IsMergeRun
  <1>5. f = [i \in 0..n |-> IF i = 0 THEN [st |-> Ranging([j \in 1..n |-> j]), areas |-> m]
                            ELSE MergeStep(f[i - 1], i, dir, num, offset)]
    BY <1>4, Zenon
  <1> HIDE DEF n, f
  <1>6. f = [i \in 0..n |-> IF i = 0 THEN MergeStart(m)
                            ELSE MergeStep(f[i - 1], i, dir, num, offset)]
    BY <1>3, <1>5
  <1>7. f[0] = MergeStart(m) /\ \A i \in 1..n : f[i] = MergeStep(f[i - 1], i, dir, num, offset)
    BY <1>2, <1>6
  <1>8. W[0] = MergeStart(m) /\ \A i \in 1..n : W[i] = MergeStep(W[i - 1], i, dir, num, offset)
    BY <1>2 DEF n, IsMergeRun
  <1>9. GoAlike(f, W, n)
    BY <1>7, <1>8, Zenon DEF GoAlike
  <1>10. \A i \in 0..n : f[i] = W[i]
    BY <1>2, <1>9, SameRun
  <1>11. f[n] = At(st, areas)
    BY <1>2, <1>10 DEF n
  <1>12. f[n].st = st /\ f[n].areas = areas
    BY <1>11 DEF At
  <1>13. ASSUME st = Slice(arr, len) PROVE st.panic = FALSE /\ end = SubSeq(arr, 1, len)
    BY <1>12, <1>13 DEF Slice, Rest
  <1>14. ASSUME st = Dropped(arr, len) PROVE st.panic = FALSE /\ end = << >>
    BY <1>12, <1>14 DEF Dropped, Rest
  <1> HIDE DEF end
  <1> QED
    BY <1>1, <1>12, <1>13, <1>14 DEF Areas

LEMMA MergeStepIs ==
  ASSUME NEW arr, NEW len, NEW areas, NEW i, NEW dir, NEW num, NEW offset,
         NEW st, st = Slice(arr, len),
         NEW id, id = arr[i], NEW a, a = AdjustMerge(areas[id], dir, num, offset)
  PROVE  /\ Single(a) => MergeStep(At(st, areas), i, dir, num, offset)
                         = At(DeleteOrDrop(st, i), Replaced(areas, id, a))
         /\ ~Single(a) => MergeStep(At(st, areas), i, dir, num, offset)
                          = At(st, Replaced(areas, id, a))
  <1>1. /\ At(st, areas).st = st /\ At(st, areas).areas = areas
        /\ st.arr = arr /\ st.panic = FALSE
    BY DEF At, Slice
  <1>2. MergeStep(At(st, areas), i, dir, num, offset)
        = [st |-> IF Single(a) THEN DeleteOrDrop(st, i) ELSE st,
           areas |-> Replaced(areas, id, a)]
    BY <1>1 DEF MergeStep, Replaced
  <1> QED
    BY <1>2 DEF At

\* no area collapses: each is adjusted where it is
LEMMA MergesKept ==
  ASSUME NEW m \in Seq(Area), NEW dir, NEW num, NEW offset,
         \A i \in 1..Len(m) : ~Single(AdjustMerge(m[i], dir, num, offset))
  PROVE  /\ ~AdjustMergeCells(m, dir, num, offset).panic
         /\ IsAdjusted(AdjustMergeCells(m, dir, num, offset).cells, m, dir, num, offset)
  <1> DEFINE n == Len(m)
             adj == [i \in 1..n |-> AdjustMerge(m[i], dir, num, offset)]
             id == [j \in 1..n |-> j]
             part(i) == [j \in 1..n |-> IF j <= i THEN adj[j] ELSE m[j]]
             st == Slice(id, n)
             W == [i \in 0..n |-> At(st, part(i))]
  <1>a. n \in Nat /\ m \in [1..n -> Area]
    OBVIOUS
  <1>b. MergeStart(m) = At(st, m)
    BY DEF MergeStart
  <1>1. \A i \in 1..n : adj[i] = AdjustMerge(m[i], dir, num, offset) /\ ~Single(adj[i])
    OBVIOUS
  <1> HIDE DEF n, adj
  <1>2. W[0] = At(st, m)
    <2>1. part(0) = m
      BY <1>a
    <2> HIDE DEF part, st
    <2> QED
      BY <1>a, <2>1
  <1>3. ASSUME NEW i \in 1..n PROVE W[i] = MergeStep(W[i - 1], i, dir, num, offset)
    <2>1. id[i] = i /\ part(i - 1)[i] = m[i]
      BY <1>a
    <2>2. [part(i - 1) EXCEPT ![i] = adj[i]] = part(i)
      <3> DEFINE p == part(i - 1)
      <3>1. p = [j \in 1..n |-> p[j]] /\ \A j \in 1..n : p[j] = IF j <= i - 1 THEN adj[j] ELSE m[j]
        BY <1>a
      <3>2. \A j \in 1..n : j <= i <=> j = i \/ j <= i - 1
        BY <1>a
      <3> HIDE DEF p
      <3>3. [p EXCEPT ![i] = adj[i]] = [j \in 1..n |-> IF j = i THEN adj[i] ELSE p[j]]
        BY <3>1
      <3>4. \A j \in 1..n : (IF j = i THEN adj[i] ELSE p[j]) = (IF j <= i THEN adj[j] ELSE m[j])
        BY <3>1, <3>2, Zenon
      <3>5. [p EXCEPT ![i] = adj[i]] = part(i)
        BY <3>3, <3>4
      <3> QED
        BY <3>5 DEF p
    <2> HIDE DEF id, part
    <2>3. MergeStep(At(st, part(i - 1)), i, dir, num, offset)
          = At(st, Replaced(part(i - 1), i, adj[i]))
      <3> DEFINE p == part(i - 1)
      <3>1. i = id[i] /\ adj[i] = AdjustMerge(p[i], dir, num, offset) /\ ~Single(adj[i])
            /\ st = Slice(id, n)
        BY <1>1, <2>1
      <3> HIDE DEF p, st
      <3>2. MergeStep(At(st, p), i, dir, num, offset) = At(st, Replaced(p, i, adj[i]))
        BY <3>1, MergeStepIs
      <3> QED
        BY <3>2 DEF p
    <2> HIDE DEF st
    <2>4. W[i] = At(st, part(i)) /\ W[i - 1] = At(st, part(i - 1))
      BY <1>a
    <2> QED
      BY <2>2, <2>3, <2>4 DEF Replaced
  <1>4. W = [i \in 0..n |-> W[i]]
    OBVIOUS
  <1>5. W[n] = At(st, part(n))
    <2> HIDE DEF part, st
    <2> QED
      BY <1>a
  <1> HIDE DEF W
  <1>6. IsMergeRun(W, m, dir, num, offset)
    BY <1>a, <1>b, <1>2, <1>3, <1>4 DEF IsMergeRun, n
  <1>7. SubSeq(id, 1, n) = id /\ Len(id) = n
    BY <1>a
  <1> DEFINE q == [j \in 1..n |-> part(n)[id[j]]]
  <1>8. AdjustMergeCells(m, dir, num, offset) = [panic |-> FALSE, cells |-> q]
    <2> DEFINE p == part(n)
    <2>1. W[Len(m)] = At(st, p)
      BY <1>5 DEF n
    <2>2. st = Slice(id, n)
      OBVIOUS
    <2> HIDE DEF id, p, st
    <2>3. AdjustMergeCells(m, dir, num, offset)
          = Areas(Picked(p, SubSeq(id, 1, n)))
      BY <1>a, <1>6, <2>1, <2>2, MergeRun
    <2>4. Picked(p, id) = [j \in 1..n |-> p[id[j]]]
      BY <1>7 DEF Picked
    <2>5. AdjustMergeCells(m, dir, num, offset) = Areas([j \in 1..n |-> p[id[j]]])
      BY <1>7, <2>3, <2>4
    <2> HIDE DEF part
    <2> QED
      BY <2>5 DEF p, Areas
  <1>9. Len(q) = n /\ \A j \in 1..n : q[j] = adj[j]
    BY <1>a
  <1>10. q = [j \in 1..Len(q) |-> q[j]]
    BY <1>9
  <1>11. id \in [1..n -> 1..n] /\ \A j \in 1..n : id[j] = j
    OBVIOUS
  <1> HIDE DEF q, id
  <1>12. IsAdjusted(q, m, dir, num, offset)
    BY <1>a, <1>1, <1>9, <1>10, <1>11 DEF IsAdjusted, n
  <1> QED
    BY <1>8, <1>12

LEMMA DropIs ==
  ASSUME NEW arr, NEW st, st = Slice(arr, 1)
  PROVE  [st EXCEPT !.gone = TRUE] = Dropped(arr, 1)
  <1> DEFINE yes == TRUE
             no == FALSE
             F == {"arr", "len", "gone", "panic"}
  <1>1. yes = TRUE /\ no = FALSE
    OBVIOUS
  <1> HIDE DEF yes, no
  <1>2. st = [arr |-> arr, len |-> 1, gone |-> no, panic |-> no]
    BY <1>1 DEF Slice
  <1>3. DOMAIN st = F /\ st.arr = arr /\ st.len = 1 /\ st.panic = no
    BY <1>2
  <1>4. [st EXCEPT !.gone = yes] = [x \in F |-> IF x = "gone" THEN yes ELSE st[x]]
    BY <1>3
  <1>5. [x \in F |-> IF x = "gone" THEN yes ELSE st[x]]
        = [arr |-> arr, len |-> 1, gone |-> yes, panic |-> no]
    BY <1>3
  <1> QED
    BY <1>1, <1>4, <1>5 DEF Dropped

\* deleting one of several, and the only one
LEMMA DeleteOrDropIs ==
  ASSUME NEW arr, NEW len \in Nat, NEW i, NEW st, st = Slice(arr, len)
  PROVE  /\ len > 1 /\ i \in 1..len => DeleteOrDrop(st, i) = Slice(Deleted(arr, len, i), len - 1)
         /\ len = 1 => DeleteOrDrop(st, i) = Dropped(arr, 1)
  <1>1. /\ st = [arr |-> arr, len |-> len, gone |-> FALSE, panic |-> FALSE]
        /\ ~st.gone /\ st.len = len
    BY DEF Slice
  <1>2. ASSUME len > 1, i \in 1..len
        PROVE  DeleteOrDrop(st, i) = Slice(Deleted(arr, len, i), len - 1)
    <2>1. DeleteOrDrop(st, i) = DeleteAt(st, i)
      BY <1>1, <1>2 DEF DeleteOrDrop
    <2> QED
      BY <1>1, <1>2, <2>1, DeleteAtIs DEF Slice
  <1>3. ASSUME len = 1 PROVE DeleteOrDrop(st, i) = Dropped(arr, 1)
    <2>1. ~(st.len > 1)
      BY <1>1, <1>3
    <2>2. DeleteOrDrop(st, i) = [st EXCEPT !.gone = TRUE]
      BY <1>1, <2>1, Zenon DEF DeleteOrDrop
    <2> QED
      BY <1>3, <2>2, DropIs
  <1> QED
    BY <1>2, <1>3

LeadsToAdjusted(areas, rest, m, dir, num, offset) ==
  /\ \A i, j \in 1..Len(rest) : rest[i] = rest[j] => i = j
  /\ \A j \in 1..Len(rest) : /\ areas[rest[j]] = AdjustMerge(m[rest[j]], dir, num, offset)
                             /\ ~Single(areas[rest[j]])
  /\ \A i \in 1..Len(m) : \/ Single(AdjustMerge(m[i], dir, num, offset))
                          \/ \E j \in 1..Len(rest) : rest[j] = i

\* the areas that the pointers at the end of the loop lead to
LEMMA PickedAdjusted ==
  ASSUME NEW m \in Seq(Area), NEW dir, NEW num, NEW offset, NEW areas,
         NEW rest \in Seq(1..Len(m)), LeadsToAdjusted(areas, rest, m, dir, num, offset),
         AdjustMergeCells(m, dir, num, offset) = Areas(Picked(areas, rest))
  PROVE  /\ ~AdjustMergeCells(m, dir, num, offset).panic
         /\ IsAdjusted(AdjustMergeCells(m, dir, num, offset).cells, m, dir, num, offset)
  <1> DEFINE q == Picked(areas, rest)
  <1>1. /\ Len(rest) \in Nat /\ Len(q) = Len(rest) /\ q = [j \in 1..Len(rest) |-> q[j]]
        /\ \A j \in 1..Len(rest) : q[j] = areas[rest[j]]
    BY DEF Picked
  <1> HIDE DEF q
  <1>2. rest \in [1..Len(q) -> 1..Len(m)]
    BY <1>1
  <1>3. IsAdjusted(q, m, dir, num, offset)
    <2>1. /\ \A i, j \in 1..Len(q) : rest[i] = rest[j] => i = j
          /\ \A j \in 1..Len(q) : /\ q[j] = AdjustMerge(m[rest[j]], dir, num, offset)
                                  /\ ~Single(q[j])
          /\ \A i \in 1..Len(m) : \/ Single(AdjustMerge(m[i], dir, num, offset))
                                  \/ \E j \in 1..Len(q) : rest[j] = i
      BY <1>1 DEF LeadsToAdjusted
    <2>2. Len(q) \in Nat /\ q = [j \in 1..Len(q) |-> q[j]]
      BY <1>1
    <2> QED
      BY <1>2, <2>1, <2>2, Zenon DEF IsAdjusted
  <1> QED
    BY <1>3 DEF q, Areas

\* a loop of two rounds at most
LEMMA MergesFew ==
  ASSUME NEW m \in Seq(Area), NEW dir, NEW num, NEW offset, Len(m) <= 2
  PROVE  /\ ~AdjustMergeCells(m, dir, num, offset).panic
         /\ IsAdjusted(AdjustMergeCells(m, dir, num, offset).cells, m, dir, num, offset)
  <1> DEFINE n == Len(m)
             Adj(i) == AdjustMerge(m[i], dir, num, offset)
             s == MergeStart(m)
             s1 == MergeStep(s, 1, dir, num, offset)
             s2 == MergeStep(s1, 2, dir, num, offset)
             W == [i \in 0..n |-> IF i = 0 THEN s ELSE IF i = 1 THEN s1 ELSE s2]
  <1>1. n \in 0..2 /\ m \in [1..n -> Area]
    <2>1. Len(m) \in Nat /\ m \in [1..n -> Area]
      OBVIOUS
    <2>2. n \in 0..2
      BY <2>1
    <2> QED
      BY <2>1, <2>2
  <1> HIDE DEF n
  <1>2. IsMergeRun(W, m, dir, num, offset)
    <2>1. \A i \in 0..n : W[i] = IF i = 0 THEN s ELSE MergeStep(W[i - 1], i, dir, num, offset)
      <3> TAKE i \in 0..n
      <3>1. CASE i = 0
        BY <1>1, <3>1
      <3>2. CASE i = 1
        <4>1. W[1] = s1 /\ W[0] = s
          BY <1>1, <3>2
        <4> QED
          BY <3>2, <4>1
      <3>3. CASE i = 2
        <4>1. W[2] = s2 /\ W[1] = s1
          BY <1>1, <3>3
        <4> QED
          BY <3>3, <4>1
      <3> QED
        BY <1>1, <3>1, <3>2, <3>3
    <2>2. W = [i \in 0..n |-> W[i]]
      OBVIOUS
    <2> HIDE DEF W
    <2> QED
      BY <2>1, <2>2 DEF IsMergeRun, n
  <1>3. CASE \A i \in 1..n : ~Single(Adj(i))
    BY <1>3, MergesKept DEF n
  <1>4. CASE n = 1 /\ Single(Adj(1))
    <2> DEFINE id == [j \in 1..1 |-> j]
               st == Slice(id, 1)
               a == Adj(1)
    <2>1. 1 = id[1] /\ s = At(st, m) /\ st = Slice(id, 1) /\ a = AdjustMerge(m[1], dir, num, offset)
      BY <1>4 DEF MergeStart, n
    <2>2. DeleteOrDrop(st, 1) = Dropped(id, 1)
      BY DeleteOrDropIs
    <2> HIDE DEF id, st, a
    <2>3. Single(a)
      BY <1>4 DEF a
    <2>4. s1 = At(Dropped(id, 1), Replaced(m, 1, a))
      BY <2>1, <2>2, <2>3, MergeStepIs
    <2>5. W[n] = s1
      BY <1>4
    <2> HIDE DEF W, s1, Adj
    <2> DEFINE st1 == Dropped(id, 1)
               areas == Replaced(m, 1, a)
    <2>6. st1 = Dropped(id, 1) /\ W[Len(m)] = At(st1, areas) /\ 1 \in Nat
      BY <2>4, <2>5 DEF n
    <2> HIDE DEF st1, areas
    <2> DEFINE rest == << >>
    <2>7. AdjustMergeCells(m, dir, num, offset) = Areas(Picked(areas, rest))
      BY <1>2, <2>6, MergeRun
    <2>8. rest \in Seq(1..Len(m)) /\ Len(rest) = 0
      OBVIOUS
    <2>9. \A i \in 1..Len(m) : Single(AdjustMerge(m[i], dir, num, offset))
      BY <1>4 DEF n, Adj
    <2> HIDE DEF rest
    <2>10. LeadsToAdjusted(areas, rest, m, dir, num, offset)
      BY <2>8, <2>9 DEF LeadsToAdjusted
    <2> QED
      BY <2>7, <2>8, <2>10, PickedAdjusted
  <1>5. CASE n = 2 /\ (Single(Adj(1)) \/ Single(Adj(2)))
    <2> DEFINE id == [j \in 1..2 |-> j]
               st == Slice(id, 2)
               a1 == Adj(1)
               a2 == Adj(2)
               m1 == Replaced(m, 1, a1)
               m2 == Replaced(m1, 2, a2)
    <2>1. 1 = id[1] /\ 2 = id[2] /\ Len(id) = 2
      OBVIOUS
    <2>2. s = At(st, m) /\ st = Slice(id, 2)
      BY <1>5 DEF MergeStart, n
    <2>3. m1[2] = m[2] /\ m2[1] = a1 /\ m2[2] = a2
      <3> HIDE DEF a1, a2, Adj
      <3> QED
        BY <1>1, <1>5 DEF Replaced
    <2>4. /\ a1 = AdjustMerge(m[1], dir, num, offset)
          /\ a2 = AdjustMerge(m[2], dir, num, offset)
          /\ a2 = AdjustMerge(m1[2], dir, num, offset)
      BY <2>3
    <2>5. W[Len(m)] = s2
      BY <1>5 DEF n
    <2>6. Single(a1) \/ Single(a2)
      BY <1>5
    <2>7. Len(m) = 2 /\ \A i \in 1..Len(m) : i = 1 \/ i = 2
      BY <1>5 DEF n
    <2> HIDE DEF id, a1, a2, Adj, m1, m2, W, s
    <2>8. CASE Single(a1)
      <3> DEFINE arr == Deleted(id, 2, 1)
                 t == Slice(arr, 1)
      <3>1. arr[1] = 2 /\ arr[2] = 2 /\ SubSeq(arr, 1, 1) = <<2>>
        <4>1. arr = [j \in 1..2 |-> 2]
          BY <2>1 DEF Deleted
        <4>2. SubSeq(arr, 1, 1) = [j \in 1..1 |-> 2]
          BY <4>1
        <4>3. [j \in 1..1 |-> 2] = <<2>>
          OBVIOUS
        <4>4. arr[1] = 2 /\ arr[2] = 2
          BY <4>1
        <4> QED
          BY <4>2, <4>3, <4>4
      <3>2. DeleteOrDrop(st, 1) = t /\ t = Slice(arr, 1)
        BY <2>2, DeleteOrDropIs
      <3> HIDE DEF arr, t, st
      <3>3. s1 = At(t, m1)
        BY <2>1, <2>2, <2>4, <2>8, <3>2, MergeStepIs DEF m1
      <3> HIDE DEF s1
      <3>4. CASE Single(a2)
        <4> DEFINE u == Dropped(arr, 1)
                   rest == << >>
        <4>1. DeleteOrDrop(t, 2) = u /\ u = Dropped(arr, 1)
          BY <3>2, DeleteOrDropIs
        <4> HIDE DEF u
        <4>2. s2 = At(u, m2)
          BY <2>4, <3>1, <3>2, <3>3, <3>4, <4>1, MergeStepIs DEF m2
        <4> HIDE DEF s2
        <4>3. AdjustMergeCells(m, dir, num, offset) = Areas(Picked(m2, rest))
          BY <1>2, <2>5, <4>1, <4>2, MergeRun
        <4>4. rest \in Seq(1..Len(m)) /\ Len(rest) = 0
          OBVIOUS
        <4> HIDE DEF rest
        <4>5. \A i \in 1..Len(m) : Single(AdjustMerge(m[i], dir, num, offset))
          BY <2>4, <2>7, <2>8, <3>4
        <4>6. LeadsToAdjusted(m2, rest, m, dir, num, offset)
          BY <4>4, <4>5 DEF LeadsToAdjusted
        <4> QED
          BY <4>3, <4>4, <4>6, PickedAdjusted
      <3>5. CASE ~Single(a2)
        <4> DEFINE rest == <<2>>
        <4>1. s2 = At(t, m2)
          BY <2>4, <3>1, <3>2, <3>3, <3>5, MergeStepIs DEF m2
        <4> HIDE DEF s2
        <4>2. AdjustMergeCells(m, dir, num, offset) = Areas(Picked(m2, rest))
          <5>1. 1 \in Nat /\ W[Len(m)] = At(t, m2)
            BY <2>5, <4>1
          <5>2. AdjustMergeCells(m, dir, num, offset) = Areas(Picked(m2, SubSeq(arr, 1, 1)))
            BY <1>2, <3>2, <5>1, MergeRun
          <5> QED
            BY <3>1, <5>2
        <4>3. rest \in Seq(1..Len(m)) /\ Len(rest) = 1 /\ rest[1] = 2
          BY <2>7
        <4> HIDE DEF rest
        <4>4. LeadsToAdjusted(m2, rest, m, dir, num, offset)
          BY <2>3, <2>4, <2>7, <2>8, <3>5, <4>3 DEF LeadsToAdjusted
        <4> QED
          BY <4>2, <4>3, <4>4, PickedAdjusted
      <3> QED
        BY <3>4, <3>5
    <2>9. CASE ~Single(a1)
      <3> DEFINE arr == Deleted(id, 2, 2)
                 t == Slice(arr, 1)
                 rest == <<1>>
      <3>1. SubSeq(arr, 1, 1) = rest
        <4>1. arr = [j \in 1..2 |-> j]
          BY <2>1 DEF Deleted
        <4>2. SubSeq(arr, 1, 1) = [j \in 1..1 |-> 1]
          BY <4>1
        <4>3. [j \in 1..1 |-> 1] = <<1>>
          OBVIOUS
        <4> QED
          BY <4>2, <4>3
      <3>2. DeleteOrDrop(st, 2) = t /\ t = Slice(arr, 1)
        BY <2>2, DeleteOrDropIs
      <3> HIDE DEF arr, t, st
      <3>3. s1 = At(st, m1)
        BY <2>1, <2>2, <2>4, <2>9, MergeStepIs DEF m1
      <3> HIDE DEF s1
      <3>4. s2 = At(t, m2)
        BY <2>1, <2>2, <2>4, <2>6, <2>9, <3>2, <3>3, MergeStepIs DEF m2
      <3> HIDE DEF s2
      <3>5. AdjustMergeCells(m, dir, num, offset) = Areas(Picked(m2, rest))
        <4>1. 1 \in Nat /\ W[Len(m)] = At(t, m2)
          BY <2>5, <3>4
        <4>2. AdjustMergeCells(m, dir, num, offset) = Areas(Picked(m2, SubSeq(arr, 1, 1)))
          BY <1>2, <3>2, <4>1, MergeRun
        <4> QED
          BY <3>1, <4>2
      <3>6. rest \in Seq(1..Len(m)) /\ Len(rest) = 1 /\ rest[1] = 1
        BY <2>7
      <3> HIDE DEF rest
      <3>7. LeadsToAdjusted(m2, rest, m, dir, num, offset)
        BY <2>3, <2>4, <2>6, <2>7, <2>9, <3>6 DEF LeadsToAdjusted
      <3> QED
        BY <3>5, <3>6, <3>7, PickedAdjusted
    <2> QED
      BY <2>8, <2>9
  <1> QED
    BY <1>1, <1>3, <1>4, <1>5

\* the areas with the first i of them adjusted
Begun(m, i, dir, num, offset) ==
  [j \in 1..Len(m) |-> IF j <= i THEN AdjustMerge(m[j], dir, num, offset) ELSE m[j]]

LEMMA BegunStep ==
  ASSUME NEW m \in Seq(Area), NEW dir, NEW num, NEW offset, NEW i \in 1..Len(m)
  PROVE  /\ Begun(m, 0, dir, num, offset) = m
         /\ Begun(m, i - 1, dir, num, offset)[i] = m[i]
         /\ Replaced(Begun(m, i - 1, dir, num, offset), i, AdjustMerge(m[i], dir, num, offset))
            = Begun(m, i, dir, num, offset)
         /\ \A j \in 1..Len(m) : Begun(m, Len(m), dir, num, offset)[j]
                                 = AdjustMerge(m[j], dir, num, offset)
  <1> DEFINE n == Len(m)
             adj == [j \in 1..n |-> AdjustMerge(m[j], dir, num, offset)]
             part(x) == [j \in 1..n |-> IF j <= x THEN adj[j] ELSE m[j]]
             p == part(i - 1)
  <1>1. n \in Nat /\ m \in [1..n -> Area] /\ i \in 1..n
    OBVIOUS
  <1>2. \A x \in Nat : Begun(m, x, dir, num, offset) = part(x)
    BY DEF Begun
  <1>3. \A j \in 1..n : adj[j] = AdjustMerge(m[j], dir, num, offset)
    OBVIOUS
  <1> HIDE DEF n, adj
  <1>4. part(0) = m /\ p[i] = m[i] /\ \A j \in 1..n : part(n)[j] = adj[j]
    BY <1>1
  <1>5. p = [j \in 1..n |-> p[j]] /\ \A j \in 1..n : p[j] = IF j <= i - 1 THEN adj[j] ELSE m[j]
    BY <1>1
  <1>6. \A j \in 1..n : j <= i <=> j = i \/ j <= i - 1
    BY <1>1
  <1>7. part(i) = [j \in 1..n |-> IF j <= i THEN adj[j] ELSE m[j]]
    OBVIOUS
  <1>8. p = Begun(m, i - 1, dir, num, offset) /\ part(i) = Begun(m, i, dir, num, offset)
        /\ part(0) = Begun(m, 0, dir, num, offset) /\ part(n) = Begun(m, n, dir, num, offset)
    <2>1. i - 1 \in Nat /\ i \in Nat /\ 0 \in Nat /\ n \in Nat
      BY <1>1
    <2> HIDE DEF part
    <2> QED
      BY <1>2, <2>1
  <1> HIDE DEF p
  <1>9. [p EXCEPT ![i] = adj[i]] = [j \in 1..n |-> IF j = i THEN adj[i] ELSE p[j]]
    BY <1>5
  <1>10. \A j \in 1..n : (IF j = i THEN adj[i] ELSE p[j]) = (IF j <= i THEN adj[j] ELSE m[j])
    BY <1>5, <1>6, Zenon
  <1>11. [p EXCEPT ![i] = adj[i]] = part(i)
    BY <1>7, <1>9, <1>10
  <1> HIDE DEF part
  <1> QED
    BY <1>1, <1>3, <1>4, <1>8, <1>11 DEF Replaced, n

\* of three or more only the last or the last but one collapses
OneCollapses(m, d, dir, num, offset) ==
  /\ Len(m) > 2 /\ (d = Len(m) - 1 \/ d = Len(m))
  /\ \A i \in 1..Len(m) : Single(AdjustMerge(m[i], dir, num, offset)) <=> i = d

LEMMA MergesOne ==
  ASSUME NEW m \in Seq(Area), NEW dir, NEW num, NEW offset, NEW d,
         OneCollapses(m, d, dir, num, offset)
  PROVE  /\ ~AdjustMergeCells(m, dir, num, offset).panic
         /\ IsAdjusted(AdjustMergeCells(m, dir, num, offset).cells, m, dir, num, offset)
  <1> DEFINE n == Len(m)
             Adj(i) == AdjustMerge(m[i], dir, num, offset)
             id == [j \in 1..n |-> j]
             del == Deleted(id, n, d)
             whole == Slice(id, n)
             short == Slice(del, n - 1)
             S(i) == IF i < d THEN whole ELSE short
             B(i) == Begun(m, i, dir, num, offset)
             W == [i \in 0..n |-> At(S(i), B(i))]
             rest == SubSeq(del, 1, n - 1)
  <1>0. /\ Len(m) > 2 /\ (d = Len(m) - 1 \/ d = Len(m))
        /\ \A i \in 1..Len(m) : Single(AdjustMerge(m[i], dir, num, offset)) <=> i = d
    BY DEF OneCollapses
  <1> USE <1>0
  <1>1. n \in Nat /\ n > 2 /\ d \in 2..n /\ (d = n - 1 \/ d = n) /\ Len(id) = n
        /\ \A j \in 1..n : id[j] = j
    OBVIOUS
  <1>2. MergeStart(m) = At(whole, m)
    BY DEF MergeStart
  <1>3. \A j \in 1..n : del[j] = IF d <= j /\ j < n THEN j + 1 ELSE j
    <2> HIDE DEF n, id
    <2>1. del = [j \in 1..n |-> IF d <= j /\ j < n THEN id[j + 1] ELSE id[j]]
      BY <1>1 DEF Deleted
    <2> HIDE DEF del
    <2> QED
      BY <1>1, <2>1
  <1>4. DOMAIN del = 1..n
    BY <1>1 DEF Deleted
  <1>5. DeleteOrDrop(whole, d) = short
    <2> HIDE DEF n, id
    <2>1. n > 1 /\ d \in 1..n
      BY <1>1
    <2> QED
      BY <1>1, <2>1, DeleteOrDropIs
  <1>6. \A i \in 1..n : Single(Adj(i)) <=> i = d
    OBVIOUS
  <1>7. \A i \in 1..n : /\ B(0) = m /\ B(i - 1)[i] = m[i] /\ Replaced(B(i - 1), i, Adj(i)) = B(i)
                        /\ \A j \in 1..n : B(n)[j] = Adj(j)
    BY BegunStep
  <1>8. whole = Slice(id, n) /\ short = Slice(del, n - 1)
    OBVIOUS
  <1>9. 1 \in 1..n /\ 0 < d /\ ~(n < d)
    <2> HIDE DEF n
    <2> QED
      BY <1>1
  <1>a. \A i \in 1..n : Adj(i) = AdjustMerge(B(i - 1)[i], dir, num, offset)
    BY <1>7
  <1> HIDE DEF n, Adj, id, del, whole, short, B
  <1>10. W[0] = At(whole, m) /\ W[n] = At(short, B(n))
    BY <1>1, <1>7, <1>9
  <1>11. ASSUME NEW i \in 1..n PROVE W[i] = MergeStep(W[i - 1], i, dir, num, offset)
    <2>1. W[i] = At(S(i), B(i)) /\ W[i - 1] = At(S(i - 1), B(i - 1))
      BY <1>1
    <2> DEFINE b == B(i - 1)
               a == Adj(i)
    <2>2. a = AdjustMerge(b[i], dir, num, offset) /\ Replaced(b, i, a) = B(i)
          /\ (Single(a) <=> i = d)
      BY <1>6, <1>7, <1>a
    <2> HIDE DEF b, a
    <2>3. CASE i < d
      <3>1. S(i) = whole /\ S(i - 1) = whole /\ i = id[i] /\ ~Single(a)
        BY <1>1, <2>2, <2>3
      <3>2. MergeStep(At(whole, b), i, dir, num, offset) = At(whole, Replaced(b, i, a))
        BY <1>8, <2>2, <3>1, MergeStepIs
      <3> QED
        BY <2>1, <2>2, <3>1, <3>2 DEF b
    <2>4. CASE i = d
      <3>1. S(i) = short /\ S(i - 1) = whole /\ i = id[i] /\ Single(a)
        BY <1>1, <2>2, <2>4
      <3>2. MergeStep(At(whole, b), i, dir, num, offset)
            = At(DeleteOrDrop(whole, i), Replaced(b, i, a))
        BY <1>8, <2>2, <3>1, MergeStepIs
      <3> QED
        BY <1>5, <2>1, <2>2, <2>4, <3>1, <3>2 DEF b
    <2>5. CASE i > d
      <3>1. i = n /\ S(i) = short /\ S(i - 1) = short /\ i = del[i] /\ ~Single(a)
        BY <1>1, <1>3, <2>2, <2>5
      <3>2. MergeStep(At(short, b), i, dir, num, offset) = At(short, Replaced(b, i, a))
        BY <1>8, <2>2, <3>1, MergeStepIs
      <3> QED
        BY <2>1, <2>2, <3>1, <3>2 DEF b
    <2> QED
      BY <1>1, <2>3, <2>4, <2>5
  <1>12. IsMergeRun(W, m, dir, num, offset)
    <2>1. W = [i \in 0..n |-> W[i]]
      OBVIOUS
    <2> HIDE DEF W
    <2>2. \A i \in 0..n : W[i] = IF i = 0 THEN MergeStart(m)
                                 ELSE MergeStep(W[i - 1], i, dir, num, offset)
      BY <1>1, <1>2, <1>10, <1>11
    <2> QED
      BY <2>1, <2>2 DEF IsMergeRun, n
  <1> HIDE DEF W
  <1> DEFINE q == B(n)
  <1>13. AdjustMergeCells(m, dir, num, offset) = Areas(Picked(q, rest))
    <2>1. W[Len(m)] = At(short, q) /\ n - 1 \in Nat
      BY <1>1, <1>10 DEF n
    <2> HIDE DEF q
    <2> QED
      BY <1>8, <1>12, <2>1, MergeRun
  <1>14. /\ rest \in Seq(1..n) /\ Len(rest) = n - 1
         /\ \A j \in 1..(n - 1) : rest[j] = IF d <= j THEN j + 1 ELSE j
    <2>1. rest = [j \in 1..(n - 1) |-> del[j]]
      <3>1. del \in Seq(1..n) /\ Len(del) = n
        <4>1. \A j \in 1..n : del[j] \in 1..n
          BY <1>1, <1>3
        <4>2. del = [j \in 1..n |-> del[j]]
          BY <1>1 DEF del, Deleted
        <4>3. del \in [1..n -> 1..n] /\ n \in Nat
          BY <1>1, <4>1, <4>2
        <4> QED
          BY ONLY <4>3
      <3> QED
        BY <1>1, <3>1
    <2>2. \A j \in 1..(n - 1) : del[j] = (IF d <= j THEN j + 1 ELSE j) /\ del[j] \in 1..n
      BY <1>1, <1>3
    <2> HIDE DEF rest
    <2> QED
      BY <1>1, <2>1, <2>2
  <1>15. \A j \in 1..n : q[j] = Adj(j)
    BY <1>7, <1>9
  <1> HIDE DEF rest, q
  <1>16. LeadsToAdjusted(q, rest, m, dir, num, offset)
    <2>1. \A i, j \in 1..Len(rest) : rest[i] = rest[j] => i = j
      BY <1>1, <1>14
    <2>2. \A j \in 1..Len(rest) : rest[j] \in 1..n /\ rest[j] # d
      BY <1>1, <1>14
    <2>3. \A i \in 1..n : i = d \/ \E j \in 1..Len(rest) : rest[j] = i
      <3> TAKE i \in 1..n
      <3>1. CASE i < d
        <4>1. i \in 1..Len(rest) /\ rest[i] = i
          BY <1>1, <1>14, <3>1
        <4> QED
          BY <4>1
      <3>2. CASE i > d
        <4>1. i - 1 \in 1..Len(rest) /\ rest[i - 1] = i
          BY <1>1, <1>14, <3>2
        <4> QED
          BY <4>1
      <3> QED
        BY <1>1, <3>1, <3>2
    <2>4. \A j \in 1..Len(rest) : q[rest[j]] = Adj(rest[j]) /\ ~Single(q[rest[j]])
      BY <1>6, <1>15, <2>2
    <2>5. \A i \in 1..n : Single(Adj(i)) \/ \E j \in 1..Len(rest) : rest[j] = i
      BY <1>6, <2>3
    <2> QED
      BY <2>1, <2>4, <2>5 DEF LeadsToAdjusted, n, Adj
  <1>17. rest \in Seq(1..Len(m))
    BY <1>14 DEF n
  <1> QED
    BY <1>13, <1>16, <1>17, PickedAdjusted

-----------------------------------------------------------------------------
(* adjustHyperlinks.                                                       *)

Hit(l, dir, num, offset) == offset < 0 /\ OnLine(l.at, dir, num)
On(st, r) == [st |-> st, rels |-> r]
Links(ls, r) == [panic |-> FALSE, rels |-> r, links |-> ls]
Shifted(rest, dir, num, offset) ==
  [j \in 1..Len(rest) |-> AdjustLink(rest[j], dir, num, offset)]

IsLinkRun(W, ls, rs, dir, num, offset) ==
  W = [i \in 0..Len(ls) |-> IF i = 0 THEN On(Slice(ls, Len(ls)), rs)
                            ELSE LinkStep(W[i - 1], i, dir, num, offset)]

\* rest holds the hyperlinks of ls that are not in the row or column removed
IsSpared(rest, ls, dir, num, offset) ==
  \E k \in [1..Len(rest) -> 1..Len(ls)] :
    /\ \A i, j \in 1..Len(rest) : k[i] = k[j] => i = j
    /\ \A j \in 1..Len(rest) : rest[j] = ls[k[j]] /\ ~Hit(rest[j], dir, num, offset)
    /\ \A i \in 1..Len(ls) : Hit(ls[i], dir, num, offset) \/ \E j \in 1..Len(rest) : k[j] = i

\* r holds the relationships of the others
IsReleased(r, rs, ls, dir, num, offset) ==
  /\ r \in Seq(Rel) /\ UniqueIds(r)
  /\ RelSet(r) = {x \in RelSet(rs) :
                    \A i \in 1..Len(ls) : Hit(ls[i], dir, num, offset) => x.id # ls[i].rid}

\* what adjustHyperlinks makes of the hyperlinks and relationships
IsRelinked(R, ls, rs, dir, num, offset) ==
  \E rest, r :
    /\ rest \in Seq(Link) /\ IsSpared(rest, ls, dir, num, offset)
    /\ IsReleased(r, rs, ls, dir, num, offset)
    /\ R = Links(Shifted(rest, dir, num, offset), r)

LEMMA LinkRun ==
  ASSUME NEW ls \in Seq(Link), NEW rs, NEW dir, NEW num, NEW offset, NEW W,
         IsLinkRun(W, ls, rs, dir, num, offset),
         NEW arr, NEW len \in Nat, NEW r, NEW st, W[Len(ls)] = On(st, r)
  PROVE  /\ st = Slice(arr, len) =>
              AdjustHyperlinks(ls, rs, dir, num, offset)
              = Links(Shifted(SubSeq(arr, 1, len), dir, num, offset), r)
         /\ st = Dropped(arr, len) =>
              AdjustHyperlinks(ls, rs, dir, num, offset)
              = Links(Shifted(<< >>, dir, num, offset), r)
  <1> DEFINE n == Len(ls)
             f == CHOOSE run : run = [i \in 0..n |->
                    IF i = 0 THEN [st |-> Ranging(ls), rels |-> rs]
                    ELSE LinkStep(run[i - 1], i, dir, num, offset)]
             end == Rest(f[n].st)
  <1>1. AdjustHyperlinks(ls, rs, dir, num, offset)
        = [panic |-> f[n].st.panic, rels |-> f[n].rels, links |-> Shifted(end, dir, num, offset)]
    BY DEF AdjustHyperlinks, Shifted
  <1>2. n \in Nat
    OBVIOUS
  <1>3. [st |-> Ranging(ls), rels |-> rs] = On(Slice(ls, n), rs)
    BY DEF On, Slice, Ranging
  <1>4. \E run : run = [i \in 0..n |->
                    IF i = 0 THEN [st |-> Ranging(ls), rels |-> rs]
                    ELSE LinkStep(run[i - 1], i, dir, num, offset)]
    BY <1>3 DEF IsLinkRun
  <1>5. f = [i \in 0..n |-> IF i = 0 THEN [st |-> Ranging(ls), rels |-> rs]
                            ELSE LinkStep(f[i - 1], i, dir, num, offset)]
    BY <1>4, Zenon
  <1> HIDE DEF n, f
  <1>6. f = [i \in 0..n |-> IF i = 0 THEN On(Slice(ls, n), rs)
                            ELSE LinkStep(f[i - 1], i, dir, num, offset)]
    BY <1>3, <1>5
  <1>7. /\ f[0] = On(Slice(ls, n), rs)
        /\ \A i \in 1..n : f[i] = LinkStep(f[i - 1], i, dir, num, offset)
    BY <1>2, <1>6
  <1>8. /\ W[0] = On(Slice(ls, n), rs)
        /\ \A i \in 1..n : W[i] = LinkStep(W[i - 1], i, dir, num, offset)
    BY <1>2 DEF n, IsLinkRun
  <1>9. GoAlike(f, W, n)
    BY <1>7, <1>8, Zenon DEF GoAlike
  <1>10. \A i \in 0..n : f[i] = W[i]
    BY <1>2, <1>9, SameRun
  <1>11. f[n] = On(st, r)
    BY <1>2, <1>10 DEF n
  <1>12. f[n].st = st /\ f[n].rels = r
    BY <1>11 DEF On
  <1>13. ASSUME st = Slice(arr, len) PROVE st.panic = FALSE /\ end = SubSeq(arr, 1, len)
    BY <1>12, <1>13 DEF Slice, Rest
  <1>14. ASSUME st = Dropped(arr, len) PROVE st.panic = FALSE /\ end = << >>
    BY <1>12, <1>14 DEF Dropped, Rest
  <1> HIDE DEF end
  <1> QED
    BY <1>1, <1>12, <1>13, <1>14 DEF Links

LEMMA LinkStepIs ==
  ASSUME NEW arr, NEW len, NEW r \in Seq(Rel), UniqueIds(r), NEW i, NEW dir, NEW num,
         NEW offset \in Int, NEW st, st = Slice(arr, len), NEW l, l = arr[i],
         NEW c, c = Rest(RelsWithout(r, l.rid))
  PROVE  /\ ~Hit(l, dir, num, offset) => LinkStep(On(st, r), i, dir, num, offset) = On(st, r)
         /\ Hit(l, dir, num, offset) => LinkStep(On(st, r), i, dir, num, offset)
                                        = On(DeleteOrDrop(st, i), c)
  <1> DEFINE o == On(st, r)
             d == RelsWithout(r, l.rid)
  <1>1. o.st = st /\ o.rels = r
    BY DEF On
  <1>2. st.arr = arr /\ st.panic = FALSE
    BY DEF Slice
  <1>3. d.panic = FALSE \/ ~d.panic
    BY RelsWithoutIs
  <1> HIDE DEF o, d
  <1>4. ASSUME ~Hit(l, dir, num, offset) PROVE LinkStep(o, i, dir, num, offset) = o
    <2>1. offset >= 0 \/ ~OnLine(l.at, dir, num)
      BY <1>4 DEF Hit
    <2> QED
      BY <1>1, <1>2, <2>1 DEF LinkStep
  <1>5. ASSUME Hit(l, dir, num, offset)
        PROVE  LinkStep(o, i, dir, num, offset) = [st |-> DeleteOrDrop(st, i), rels |-> c]
    <2>1. ~(offset >= 0) /\ OnLine(l.at, dir, num)
      BY <1>5 DEF Hit
    <2> QED
      BY <1>1, <1>2, <1>3, <2>1 DEF LinkStep, d
  <1> QED
    BY <1>4, <1>5 DEF o, On

\* what is left when the loop is over
LEMMA RelinkedBy ==
  ASSUME NEW ls, NEW rs, NEW dir, NEW num, NEW offset, NEW rest \in Seq(Link), NEW r,
         IsSpared(rest, ls, dir, num, offset), IsReleased(r, rs, ls, dir, num, offset),
         AdjustHyperlinks(ls, rs, dir, num, offset) = Links(Shifted(rest, dir, num, offset), r)
  PROVE  IsRelinked(AdjustHyperlinks(ls, rs, dir, num, offset), ls, rs, dir, num, offset)
  BY Zenon DEF IsRelinked

\* no hyperlink is in the row or column
LEMMA LinksKept ==
  ASSUME NEW ls \in Seq(Link), NEW rs \in Seq(Rel), UniqueIds(rs), NEW dir, NEW num,
         NEW offset \in Int, \A i \in 1..Len(ls) : ~Hit(ls[i], dir, num, offset)
  PROVE  IsRelinked(AdjustHyperlinks(ls, rs, dir, num, offset), ls, rs, dir, num, offset)
  <1> DEFINE n == Len(ls)
             st == Slice(ls, n)
             W == [i \in 0..n |-> On(st, rs)]
  <1>1. n \in Nat /\ SubSeq(ls, 1, n) = ls
    OBVIOUS
  <1>2. \A i \in 1..n : LinkStep(On(st, rs), i, dir, num, offset) = On(st, rs)
    <2> TAKE i \in 1..n
    <2> DEFINE l == ls[i]
               c == Rest(RelsWithout(rs, l.rid))
    <2>1. ~Hit(l, dir, num, offset) /\ l = ls[i] /\ c = Rest(RelsWithout(rs, l.rid))
          /\ st = Slice(ls, n)
      OBVIOUS
    <2> HIDE DEF l, c, st
    <2> QED
      BY <2>1, LinkStepIs
  <1>3. IsLinkRun(W, ls, rs, dir, num, offset)
    <2> DEFINE o == On(st, rs)
    <2>1. o = On(Slice(ls, Len(ls)), rs) /\ \A i \in 1..n : LinkStep(o, i, dir, num, offset) = o
      BY <1>2
    <2> HIDE DEF o
    <2>2. W = [i \in 0..n |-> o]
      BY DEF o
    <2>3. \A i \in 0..n : W[i] = IF i = 0 THEN o ELSE LinkStep(W[i - 1], i, dir, num, offset)
      BY <1>1, <2>1, <2>2
    <2>4. W = [i \in 0..n |-> W[i]]
      BY <2>2
    <2> HIDE DEF W
    <2> QED
      BY <2>1, <2>3, <2>4 DEF IsLinkRun
  <1>4. W[Len(ls)] = On(st, rs) /\ st = Slice(ls, n)
    BY <1>1
  <1> HIDE DEF W, st, n
  <1>5. AdjustHyperlinks(ls, rs, dir, num, offset) = Links(Shifted(ls, dir, num, offset), rs)
    <2>1. AdjustHyperlinks(ls, rs, dir, num, offset)
          = Links(Shifted(SubSeq(ls, 1, n), dir, num, offset), rs)
      BY <1>1, <1>3, <1>4, LinkRun
    <2> QED
      BY <1>1, <2>1
  <1>6. IsSpared(ls, ls, dir, num, offset)
    <2> DEFINE k == [j \in 1..Len(ls) |-> j]
    <2>1. k \in [1..Len(ls) -> 1..Len(ls)] /\ \A j \in 1..Len(ls) : k[j] = j
      OBVIOUS
    <2> HIDE DEF k
    <2> QED
      BY <2>1 DEF IsSpared
  <1>7. IsReleased(rs, rs, ls, dir, num, offset)
    BY DEF IsReleased
  <1> QED
    BY <1>5, <1>6, <1>7, RelinkedBy

LEMMA NothingSpared ==
  ASSUME NEW ls \in Seq(Link), NEW dir, NEW num, NEW offset, NEW rest, rest = << >>,
         \A i \in 1..Len(ls) : Hit(ls[i], dir, num, offset)
  PROVE  IsSpared(rest, ls, dir, num, offset)
  <1>1. rest \in [1..Len(rest) -> 1..Len(ls)] /\ \A i \in 1..Len(rest) : FALSE
    OBVIOUS
  <1> QED
    BY <1>1, Zenon DEF IsSpared

\* a loop of two rounds at most
LEMMA LinksFew ==
  ASSUME NEW ls \in Seq(Link), NEW rs \in Seq(Rel), UniqueIds(rs), NEW dir, NEW num,
         NEW offset \in Int, Len(ls) <= 2
  PROVE  IsRelinked(AdjustHyperlinks(ls, rs, dir, num, offset), ls, rs, dir, num, offset)
  <1> DEFINE n == Len(ls)
             s == On(Slice(ls, n), rs)
             s1 == LinkStep(s, 1, dir, num, offset)
             s2 == LinkStep(s1, 2, dir, num, offset)
             W == [i \in 0..n |-> IF i = 0 THEN s ELSE IF i = 1 THEN s1 ELSE s2]
             l1 == ls[1]
             l2 == ls[2]
             r1 == Rest(RelsWithout(rs, l1.rid))
  <1>1. n \in 0..2 /\ ls \in [1..n -> Link] /\ n = Len(ls)
    <2>1. Len(ls) \in Nat /\ ls \in [1..n -> Link]
      OBVIOUS
    <2>2. n \in 0..2
      BY <2>1
    <2> QED
      BY <2>1, <2>2
  <1> HIDE DEF n
  <1>2. IsLinkRun(W, ls, rs, dir, num, offset)
    <2>1. \A i \in 0..n : W[i] = IF i = 0 THEN s ELSE LinkStep(W[i - 1], i, dir, num, offset)
      <3> TAKE i \in 0..n
      <3>1. CASE i = 0
        BY <1>1, <3>1
      <3>2. CASE i = 1
        <4>1. W[1] = s1 /\ W[0] = s
          BY <1>1, <3>2
        <4> QED
          BY <3>2, <4>1
      <3>3. CASE i = 2
        <4>1. W[2] = s2 /\ W[1] = s1
          BY <1>1, <3>3
        <4> QED
          BY <3>3, <4>1
      <3> QED
        BY <1>1, <3>1, <3>2, <3>3
    <2>2. W = [i \in 0..n |-> W[i]]
      OBVIOUS
    <2> HIDE DEF W
    <2> QED
      BY <2>1, <2>2 DEF IsLinkRun, n
  <1>3. CASE \A i \in 1..n : ~Hit(ls[i], dir, num, offset)
    BY <1>3, LinksKept DEF n
  <1>4. /\ ~RelsWithout(rs, l1.rid).panic
        /\ r1 \in Seq(Rel) /\ UniqueIds(r1) /\ RelSet(r1) = {x \in RelSet(rs) : x.id # l1.rid}
    BY RelsWithoutIs DEF IsWithout
  <1>5. CASE n = 1 /\ Hit(l1, dir, num, offset)
    <2> DEFINE st == Slice(ls, 1)
               st1 == Dropped(ls, 1)
               rest == << >>
    <2>1. s = On(st, rs) /\ st = Slice(ls, 1) /\ l1 = ls[1] /\ r1 = Rest(RelsWithout(rs, l1.rid))
      BY <1>5
    <2>2. DeleteOrDrop(st, 1) = st1 /\ st1 = Dropped(ls, 1)
      BY DeleteOrDropIs
    <2> HIDE DEF st, st1, l1, r1
    <2>3. s1 = On(st1, r1)
      BY <1>5, <2>1, <2>2, LinkStepIs
    <2>4. W[Len(ls)] = On(st1, r1) /\ 1 \in Nat
      BY <1>1, <1>5, <2>3
    <2> HIDE DEF W
    <2>5. AdjustHyperlinks(ls, rs, dir, num, offset) = Links(Shifted(rest, dir, num, offset), r1)
      BY <1>2, <2>2, <2>4, LinkRun
    <2>6. rest \in Seq(Link) /\ rest = << >>
      OBVIOUS
    <2> HIDE DEF rest
    <2>7. \A i \in 1..Len(ls) : i = 1
      BY <1>1, <1>5
    <2>8. IsSpared(rest, ls, dir, num, offset)
      <3>1. \A i \in 1..Len(ls) : Hit(ls[i], dir, num, offset)
        BY <1>5, <2>1, <2>7
      <3> QED
        BY <2>6, <3>1, NothingSpared
    <2>9. IsReleased(r1, rs, ls, dir, num, offset)
      BY <1>1, <1>4, <1>5, <2>1, <2>7 DEF IsReleased
    <2> QED
      BY <2>5, <2>6, <2>8, <2>9, RelinkedBy
  <1>6. CASE n = 2 /\ (Hit(l1, dir, num, offset) \/ Hit(l2, dir, num, offset))
    <2> DEFINE st == Slice(ls, 2)
               r2 == Rest(RelsWithout(rs, l2.rid))
    <2>1. /\ s = On(st, rs) /\ st = Slice(ls, 2) /\ l1 = ls[1] /\ l2 = ls[2]
          /\ r1 = Rest(RelsWithout(rs, l1.rid)) /\ r2 = Rest(RelsWithout(rs, l2.rid))
      BY <1>6
    <2>2. r2 \in Seq(Rel) /\ UniqueIds(r2) /\ RelSet(r2) = {x \in RelSet(rs) : x.id # l2.rid}
      BY RelsWithoutIs DEF IsWithout
    <2>3. W[Len(ls)] = s2 /\ Len(ls) = 2 /\ \A i \in 1..Len(ls) : i = 1 \/ i = 2
      BY <1>1, <1>6
    <2>4. l1 \in Link /\ l2 \in Link
      BY <1>1, <1>6
    <2> HIDE DEF l1, l2, r1, r2, W, s
    <2>5. CASE Hit(l1, dir, num, offset)
      <3> DEFINE arr == Deleted(ls, 2, 1)
                 t == Slice(arr, 1)
      <3>1. arr = [j \in 1..2 |-> l2]
        BY <1>1, <2>1, <2>3 DEF Deleted
      <3>2. DeleteOrDrop(st, 1) = t /\ t = Slice(arr, 1)
        BY <2>1, DeleteOrDropIs
      <3> HIDE DEF arr, t, st
      <3>3. l2 = arr[2] /\ SubSeq(arr, 1, 1) = <<l2>>
        <4>1. SubSeq(arr, 1, 1) = [j \in 1..1 |-> l2]
          BY <3>1, <2>4
        <4>2. [j \in 1..1 |-> l2] = <<l2>>
          OBVIOUS
        <4>3. l2 = arr[2]
          BY <3>1
        <4> QED
          BY <4>1, <4>2, <4>3
      <3>4. s1 = On(t, r1)
        BY <2>1, <2>5, <3>2, LinkStepIs
      <3> HIDE DEF s1
      <3>5. CASE Hit(l2, dir, num, offset)
        <4> DEFINE u == Dropped(arr, 1)
                   rest == << >>
                   r12 == Rest(RelsWithout(r1, l2.rid))
        <4>1. DeleteOrDrop(t, 2) = u /\ u = Dropped(arr, 1) /\ 1 \in Nat
          BY <3>2, DeleteOrDropIs
        <4>2. /\ r12 \in Seq(Rel) /\ UniqueIds(r12)
              /\ RelSet(r12) = {x \in RelSet(r1) : x.id # l2.rid}
              /\ r12 = Rest(RelsWithout(r1, l2.rid))
          BY <1>4, RelsWithoutIs DEF IsWithout
        <4> HIDE DEF u, r12
        <4>3. s2 = On(u, r12)
          BY <1>4, <3>2, <3>3, <3>4, <3>5, <4>1, <4>2, LinkStepIs
        <4> HIDE DEF s2
        <4>4. AdjustHyperlinks(ls, rs, dir, num, offset)
              = Links(Shifted(rest, dir, num, offset), r12)
          <5>1. W[Len(ls)] = On(u, r12)
            BY <2>3, <4>3
          <5> QED
            BY <1>2, <4>1, <5>1, LinkRun
        <4>5. rest \in Seq(Link) /\ rest = << >>
          OBVIOUS
        <4> HIDE DEF rest
        <4>6. IsSpared(rest, ls, dir, num, offset)
          <5>1. \A i \in 1..Len(ls) : Hit(ls[i], dir, num, offset)
            BY <2>1, <2>3, <2>5, <3>5
          <5> QED
            BY <4>5, <5>1, NothingSpared
        <4>7. IsReleased(r12, rs, ls, dir, num, offset)
          BY <1>4, <2>1, <2>3, <2>5, <3>5, <4>2 DEF IsReleased
        <4> QED
          BY <4>4, <4>5, <4>6, <4>7, RelinkedBy
      <3>6. CASE ~Hit(l2, dir, num, offset)
        <4> DEFINE rest == <<l2>>
                   c == Rest(RelsWithout(r1, l2.rid))
        <4>1. c = Rest(RelsWithout(r1, l2.rid))
          OBVIOUS
        <4> HIDE DEF c
        <4>2. s2 = On(t, r1)
          BY <1>4, <3>2, <3>3, <3>4, <3>6, <4>1, LinkStepIs
        <4> HIDE DEF s2
        <4>3. AdjustHyperlinks(ls, rs, dir, num, offset)
              = Links(Shifted(rest, dir, num, offset), r1)
          <5>1. 1 \in Nat /\ W[Len(ls)] = On(t, r1)
            BY <2>3, <4>2
          <5>2. AdjustHyperlinks(ls, rs, dir, num, offset)
                = Links(Shifted(SubSeq(arr, 1, 1), dir, num, offset), r1)
            BY <1>2, <3>2, <5>1, LinkRun
          <5> QED
            BY <3>3, <5>2
        <4>4. rest \in Seq(Link) /\ Len(rest) = 1 /\ rest[1] = l2
          BY <2>4
        <4> HIDE DEF rest
        <4>5. IsSpared(rest, ls, dir, num, offset)
          <5> DEFINE k == [j \in 1..Len(rest) |-> 2]
          <5>1. k \in [1..Len(rest) -> 1..Len(ls)] /\ k[1] = 2
            BY <2>3, <4>4
          <5> HIDE DEF k
          <5> QED
            BY <2>1, <2>3, <2>5, <3>6, <4>4, <5>1 DEF IsSpared
        <4>6. IsReleased(r1, rs, ls, dir, num, offset)
          BY <1>4, <2>1, <2>3, <2>5, <3>6 DEF IsReleased
        <4> QED
          BY <4>3, <4>4, <4>5, <4>6, RelinkedBy
      <3> QED
        BY <3>5, <3>6
    <2>6. CASE ~Hit(l1, dir, num, offset)
      <3> DEFINE arr == Deleted(ls, 2, 2)
                 t == Slice(arr, 1)
                 rest == <<l1>>
      <3>1. arr[1] = l1 /\ arr = [j \in 1..2 |-> arr[j]]
        BY <1>1, <2>1, <2>3 DEF Deleted
      <3>2. DeleteOrDrop(st, 2) = t /\ t = Slice(arr, 1)
        BY <2>1, DeleteOrDropIs
      <3> HIDE DEF arr, t, st
      <3>3. SubSeq(arr, 1, 1) = rest
        <4>1. SubSeq(arr, 1, 1) = [j \in 1..1 |-> arr[j]]
          BY <3>1
        <4>2. [j \in 1..1 |-> arr[j]] = <<l1>>
          BY <3>1
        <4> QED
          BY <4>1, <4>2
      <3>4. s1 = On(st, rs)
        BY <2>1, <2>6, LinkStepIs
      <3> HIDE DEF s1
      <3>5. Hit(l2, dir, num, offset)
        BY <1>6, <2>6
      <3>6. s2 = On(t, r2)
        BY <2>1, <3>2, <3>4, <3>5, LinkStepIs
      <3> HIDE DEF s2
      <3>7. AdjustHyperlinks(ls, rs, dir, num, offset)
            = Links(Shifted(rest, dir, num, offset), r2)
        <4>1. 1 \in Nat /\ W[Len(ls)] = On(t, r2)
          BY <2>3, <3>6
        <4>2. AdjustHyperlinks(ls, rs, dir, num, offset)
              = Links(Shifted(SubSeq(arr, 1, 1), dir, num, offset), r2)
          BY <1>2, <3>2, <4>1, LinkRun
        <4> QED
          BY <3>3, <4>2
      <3>8. rest \in Seq(Link) /\ Len(rest) = 1 /\ rest[1] = l1
        BY <2>4
      <3> HIDE DEF rest
      <3>9. IsSpared(rest, ls, dir, num, offset)
        <4> DEFINE k == [j \in 1..Len(rest) |-> 1]
        <4>1. k \in [1..Len(rest) -> 1..Len(ls)] /\ k[1] = 1
          BY <2>3, <3>8
        <4> HIDE DEF k
        <4> QED
          BY <2>1, <2>3, <2>6, <3>5, <3>8, <4>1 DEF IsSpared
      <3>10. IsReleased(r2, rs, ls, dir, num, offset)
        BY <2>1, <2>2, <2>3, <2>6, <3>5 DEF IsReleased
      <3> QED
        BY <3>7, <3>8, <3>9, <3>10, RelinkedBy
    <2> QED
      BY <2>5, <2>6
  <1> QED
    BY <1>1, <1>3, <1>5, <1>6

\* of three or more only the last or the last but one is in the row or column
OneHit(ls, d, dir, num, offset) ==
  /\ Len(ls) > 2 /\ (d = Len(ls) - 1 \/ d = Len(ls))
  /\ \A i \in 1..Len(ls) : Hit(ls[i], dir, num, offset) <=> i = d

LEMMA LinksOne ==
  ASSUME NEW ls \in Seq(Link), NEW rs \in Seq(Rel), UniqueIds(rs), NEW dir, NEW num,
         NEW offset \in Int, NEW d, OneHit(ls, d, dir, num, offset)
  PROVE  IsRelinked(AdjustHyperlinks(ls, rs, dir, num, offset), ls, rs, dir, num, offset)
  <1> DEFINE n == Len(ls)
             r == Rest(RelsWithout(rs, ls[d].rid))
             del == Deleted(ls, n, d)
             whole == Slice(ls, n)
             short == Slice(del, n - 1)
             before == On(whole, rs)
             after == On(short, r)
             W == [i \in 0..n |-> IF i < d THEN before ELSE after]
             rest == SubSeq(del, 1, n - 1)
  <1>0. n \in Nat /\ ls \in [1..n -> Link] /\ n = Len(ls)
    OBVIOUS
  <1>1. \A i \in 1..n : Hit(ls[i], dir, num, offset) <=> i = d
    BY DEF OneHit
  <1>2. n \in Nat /\ n > 2 /\ (d = n - 1 \/ d = n)
    BY DEF OneHit
  <1>b. n \in Nat /\ n > 2 /\ (d = n - 1 \/ d = n) /\ d \in Nat /\ 2 <= d /\ d <= n
    BY ONLY <1>2
  <1> HIDE DEF n
  <1>3. /\ del = [j \in 1..n |-> del[j]]
        /\ \A j \in 1..n : del[j] = IF d <= j /\ j < n THEN ls[j + 1] ELSE ls[j]
    BY <1>0 DEF Deleted
  <1>4. DeleteOrDrop(whole, d) = short
    <2>1. n > 1 /\ d \in 1..n
      BY ONLY <1>b
    <2> HIDE DEF del
    <2>2. DeleteOrDrop(whole, d) = Slice(Deleted(ls, n, d), n - 1)
      BY <1>0, <2>1, DeleteOrDropIs
    <2> QED
      BY <2>2 DEF del
  <1>5. r \in Seq(Rel) /\ UniqueIds(r) /\ RelSet(r) = {x \in RelSet(rs) : x.id # ls[d].rid}
    BY RelsWithoutIs DEF IsWithout
  <1>6. /\ whole = Slice(ls, n) /\ short = Slice(del, n - 1)
        /\ r = Rest(RelsWithout(rs, ls[d].rid))
    OBVIOUS
  <1> HIDE DEF del, whole, short, r
  <1>7. ASSUME NEW i \in 1..n, ~(i = d)
        PROVE  i < d => LinkStep(before, i, dir, num, offset) = before
    <2> HAVE i < d
    <2> DEFINE l == ls[i]
               c == Rest(RelsWithout(rs, l.rid))
    <2>1. l = ls[i] /\ c = Rest(RelsWithout(rs, l.rid)) /\ ~Hit(l, dir, num, offset)
      BY <1>1, <1>7
    <2> HIDE DEF l, c
    <2> QED
      BY <1>6, <2>1, LinkStepIs
  <1>8. LinkStep(before, d, dir, num, offset) = after
    <2> DEFINE l == ls[d]
    <2>0. d \in 1..n
      BY ONLY <1>b
    <2>1. l = ls[d] /\ Hit(l, dir, num, offset) /\ r = Rest(RelsWithout(rs, l.rid))
      BY <1>1, <1>6, <2>0
    <2> HIDE DEF l
    <2>2. LinkStep(before, d, dir, num, offset) = On(DeleteOrDrop(whole, d), r)
      BY <1>6, <2>1, LinkStepIs
    <2> QED
      BY <1>4, <2>2
  <1>9. d < n => LinkStep(after, n, dir, num, offset) = after
    <2> HAVE d < n
    <2> DEFINE l == del[n]
               c == Rest(RelsWithout(r, l.rid))
    <2>1. del[n] = ls[n] /\ n # d /\ n \in 1..n
      BY <1>0, <1>1, <1>b, <1>3
    <2>2. l = del[n] /\ c = Rest(RelsWithout(r, l.rid)) /\ ~Hit(l, dir, num, offset)
      BY <1>1, <2>1
    <2> HIDE DEF l, c
    <2> QED
      BY <1>5, <1>6, <2>2, LinkStepIs
  <1>10. before = On(Slice(ls, Len(ls)), rs) /\ W = [i \in 0..n |-> W[i]]
    BY <1>0, <1>6
  <1>a. after = On(short, r)
    OBVIOUS
  <1> HIDE DEF before, after
  <1>c. \A i \in 0..n : W[i] = IF i < d THEN before ELSE after
    OBVIOUS
  <1> HIDE DEF W
  <1>11. W[0] = before /\ W[n] = after
    BY ONLY <1>b, <1>c
  <1>12. ASSUME NEW i \in 1..n PROVE W[i] = LinkStep(W[i - 1], i, dir, num, offset)
    <2>1. CASE i < d
      <3>1. W[i] = before /\ W[i - 1] = before
        BY ONLY <1>b, <1>c, <2>1, i \in 1..n
      <3>2. ~(i = d)
        BY ONLY <1>b, <2>1
      <3> QED
        BY <1>7, <2>1, <3>1, <3>2
    <2>2. CASE i = d
      <3>1. W[i] = after /\ W[i - 1] = before
        BY ONLY <1>b, <1>c, <2>2, i \in 1..n
      <3> QED
        BY <1>8, <2>2, <3>1
    <2>3. CASE i > d
      <3>1. W[i] = after /\ W[i - 1] = after /\ i = n /\ d < n
        BY ONLY <1>b, <1>c, <2>3, i \in 1..n
      <3> QED
        BY <1>9, <3>1
    <2>4. i < d \/ i = d \/ i > d
      BY ONLY <1>b, i \in 1..n
    <2> QED
      BY <2>1, <2>2, <2>3, <2>4
  <1>13. IsLinkRun(W, ls, rs, dir, num, offset)
    <2>1. \A i \in 0..n : W[i] = IF i = 0 THEN before ELSE LinkStep(W[i - 1], i, dir, num, offset)
      BY <1>0, <1>11, <1>12
    <2> QED
      BY <1>10, <2>1 DEF IsLinkRun, n
  <1>14. AdjustHyperlinks(ls, rs, dir, num, offset) = Links(Shifted(rest, dir, num, offset), r)
    <2>1. n - 1 \in Nat
      BY ONLY <1>b
    <2>2. W[Len(ls)] = On(short, r)
      BY <1>11, <1>a DEF n
    <2> QED
      BY <1>6, <1>13, <2>1, <2>2, LinkRun
  <1>15. \A j \in 1..n : del[j] \in Link
    BY <1>0, <1>b, <1>3
  <1>16. /\ rest \in Seq(Link) /\ Len(rest) = n - 1
         /\ \A j \in 1..(n - 1) : rest[j] = del[j]
    <2>1. del \in [1..n -> Link]
      BY <1>3, <1>15
    <2>2. del \in Seq(Link) /\ Len(del) = n
      BY ONLY <1>0, <2>1
    <2> HIDE DEF del
    <2> QED
      BY ONLY <1>b, <2>2
  <1> HIDE DEF rest
  <1>17. IsSpared(rest, ls, dir, num, offset)
    <2> DEFINE k == [j \in 1..Len(rest) |-> IF d <= j THEN j + 1 ELSE j]
    <2>1. \A j \in 1..Len(rest) : k[j] = IF d <= j THEN j + 1 ELSE j
      OBVIOUS
    <2>2. k \in [1..Len(rest) -> 1..Len(ls)]
      <3>1. \A j \in 1..Len(rest) : (IF d <= j THEN j + 1 ELSE j) \in 1..n
        BY ONLY <1>b, <1>16
      <3> QED
        BY <3>1 DEF n
    <2> HIDE DEF k
    <2>3. \A i, j \in 1..Len(rest) : k[i] = k[j] => i = j
      BY ONLY <1>b, <1>16, <2>1
    <2>4. \A j \in 1..Len(rest) : rest[j] = ls[k[j]] /\ k[j] # d /\ k[j] \in 1..n
      <3> TAKE j \in 1..Len(rest)
      <3>1. j \in 1..(n - 1) /\ j \in 1..n /\ (d <= j <=> d <= j /\ j < n)
        BY ONLY <1>b, <1>16, j \in 1..Len(rest)
      <3>2. rest[j] = del[j] /\ del[j] = (IF d <= j THEN ls[j + 1] ELSE ls[j])
        BY <1>3, <1>16, <3>1
      <3>3. k[j] = (IF d <= j THEN j + 1 ELSE j) /\ k[j] # d /\ k[j] \in 1..n
        BY ONLY <1>b, <2>1, <3>1, j \in 1..Len(rest)
      <3> QED
        BY <3>2, <3>3
    <2>5. \A j \in 1..Len(rest) : rest[j] = ls[k[j]] /\ ~Hit(rest[j], dir, num, offset)
      BY <1>1, <2>4
    <2>6. \A i \in 1..n : i = d \/ \E j \in 1..Len(rest) : k[j] = i
      <3> TAKE i \in 1..n
      <3>1. CASE i < d
        <4>1. i \in 1..Len(rest) /\ k[i] = i
          BY ONLY <1>b, <1>16, <2>1, <3>1
        <4> QED
          BY <4>1
      <3>2. CASE i > d
        <4>1. i - 1 \in 1..Len(rest) /\ k[i - 1] = i
          BY ONLY <1>b, <1>16, <2>1, <3>2
        <4> QED
          BY <4>1
      <3>3. i < d \/ i = d \/ i > d
        BY ONLY <1>b, i \in 1..n
      <3> QED
        BY <3>1, <3>2, <3>3
    <2>7. \A i \in 1..Len(ls) : Hit(ls[i], dir, num, offset) \/ \E j \in 1..Len(rest) : k[j] = i
      BY <1>0, <1>1, <2>6
    <2> QED
      BY <2>2, <2>3, <2>5, <2>7, Zenon DEF IsSpared
  <1>18. IsReleased(r, rs, ls, dir, num, offset)
    <2>1. \A x : (\A i \in 1..Len(ls) : Hit(ls[i], dir, num, offset) => x.id # ls[i].rid)
                 <=> x.id # ls[d].rid
      <3>1. d \in 1..n
        BY ONLY <1>b
      <3> QED
        BY <1>1, <3>1, Zenon DEF n
    <2> QED
      BY <1>5, <2>1 DEF IsReleased
  <1> QED
    BY <1>14, <1>16, <1>17, <1>18, RelinkedBy

-----------------------------------------------------------------------------
(* mergeCellsParser.                                                       *)

Ordered(a) == a.c1 <= a.c2 /\ a.r1 <= a.r2

\* the merged areas of a sheet
IsAreaList(m) ==
  /\ m \in Seq(Area)
  /\ \A i \in 1..Len(m) : Ordered(m[i]) /\ ~Single(m[i])
  /\ \A i, j \in 1..Len(m) : i # j => ~Overlap(m[i], m[j])

IsRedirectRun(W, m, c) ==
  W = [i \in 0..Len(m) |-> IF i = 0 THEN c
                           ELSE IF Inside(W[i - 1], m[i]) THEN TopLeft(m[i]) ELSE W[i - 1]]

LEMMA RedirectRun ==
  ASSUME NEW m \in Seq(Area), NEW c, NEW W, IsRedirectRun(W, m, c)
  PROVE  Redirect(m, c) = W[Len(m)]
  <1> DEFINE n == Len(m)
             f == CHOOSE at : at = [i \in 0..n |-> IF i = 0 THEN c
                    ELSE IF Inside(at[i - 1], m[i]) THEN TopLeft(m[i]) ELSE at[i - 1]]
  <1>1. Redirect(m, c) = f[n]
    BY DEF Redirect
  <1>2. \E at : at = [i \in 0..n |-> IF i = 0 THEN c
                    ELSE IF Inside(at[i - 1], m[i]) THEN TopLeft(m[i]) ELSE at[i - 1]]
    BY DEF IsRedirectRun
  <1>3. f = [i \in 0..n |-> IF i = 0 THEN c
               ELSE IF Inside(f[i - 1], m[i]) THEN TopLeft(m[i]) ELSE f[i - 1]]
    BY <1>2, Zenon
  <1>4. n \in Nat
    OBVIOUS
  <1> HIDE DEF n, f
  <1>5. /\ f[0] = c
        /\ \A i \in 1..n : f[i] = IF Inside(f[i - 1], m[i]) THEN TopLeft(m[i]) ELSE f[i - 1]
    BY <1>3, <1>4
  <1>6. /\ W[0] = c
        /\ \A i \in 1..n : W[i] = IF Inside(W[i - 1], m[i]) THEN TopLeft(m[i]) ELSE W[i - 1]
    BY <1>4 DEF n, IsRedirectRun
  <1>7. GoAlike(f, W, n)
    BY <1>5, <1>6, Zenon DEF GoAlike
  <1>8. \A i \in 0..n : f[i] = W[i]
    BY <1>4, <1>7, SameRun
  <1> QED
    BY <1>1, <1>4, <1>8 DEF n

\* a cell is in one area at most
LEMMA OneArea ==
  ASSUME NEW m, IsAreaList(m), NEW c \in Cols \X Rows, NEW i \in 1..Len(m), NEW j \in 1..Len(m),
         Inside(c, m[i]), Inside(c, m[j])
  PROVE  i = j
  BY DEF IsAreaList, Overlap

LEMMA TopLeftInside ==
  ASSUME NEW a \in Area, Ordered(a)
  PROVE  TopLeft(a) \in Cols \X Rows /\ Inside(TopLeft(a), a)
  <1>1. a.c1 \in Cols /\ a.r1 \in Rows /\ a.c2 \in Cols /\ a.r2 \in Rows
    BY DEF Area
  <1>2. a.c1 \in Int /\ a.r1 \in Int
    BY <1>1, WorksheetAssumption DEF Cols, Rows
  <1> QED
    BY <1>1, <1>2 DEF TopLeft, Inside, Ordered

\* the cell itself, or the top left of the area it is in
LEMMA RedirectIs ==
  ASSUME NEW m, IsAreaList(m), NEW c \in Cols \X Rows
  PROVE  /\ Redirect(m, c) \in Cols \X Rows
         /\ (\A i \in 1..Len(m) : ~Inside(c, m[i])) => Redirect(m, c) = c
         /\ \A i \in 1..Len(m) : Inside(c, m[i]) => Redirect(m, c) = TopLeft(m[i])
  <1> DEFINE n == Len(m)
  <1>1. n \in Nat /\ m \in Seq(Area) /\ \A i \in 1..n : m[i] \in Area /\ Ordered(m[i])
    BY DEF IsAreaList
  <1>2. CASE \A i \in 1..n : ~Inside(c, m[i])
    <2> DEFINE W == [i \in 0..n |-> c]
    <2>1. \A i \in 0..n : W[i] = IF i = 0 THEN c ELSE IF Inside(W[i - 1], m[i]) THEN TopLeft(m[i])
                                 ELSE W[i - 1]
      BY <1>1, <1>2
    <2>2. W[n] = c /\ W = [i \in 0..n |-> W[i]]
      BY <1>1
    <2> HIDE DEF W
    <2>3. IsRedirectRun(W, m, c)
      BY <2>1, <2>2 DEF IsRedirectRun
    <2>4. Redirect(m, c) = c
      BY <1>1, <2>2, <2>3, RedirectRun
    <2> QED
      BY <1>2, <2>4
  <1>3. CASE \E i \in 1..n : Inside(c, m[i])
    <2>1. PICK p \in 1..n : Inside(c, m[p])
      BY <1>3
    <2> DEFINE t == TopLeft(m[p])
               W == [i \in 0..n |-> IF i < p THEN c ELSE t]
    <2>2. t \in Cols \X Rows /\ Inside(t, m[p])
      BY <1>1, TopLeftInside
    <2>3. \A i \in 1..n : i # p => ~Inside(c, m[i]) /\ ~Inside(t, m[i])
      BY <2>1, <2>2, OneArea
    <2> HIDE DEF t
    <2>4. ASSUME NEW i \in 1..n
          PROVE  W[i] = IF Inside(W[i - 1], m[i]) THEN TopLeft(m[i]) ELSE W[i - 1]
      <3>1. CASE i < p
        <4>1. W[i] = c /\ W[i - 1] = c /\ i # p
          BY <1>1, <3>1
        <4> QED
          BY <2>3, <4>1
      <3>2. CASE i = p
        <4>1. W[i] = t /\ W[i - 1] = c
          BY <1>1, <3>2
        <4> QED
          BY <2>1, <3>2, <4>1 DEF t
      <3>3. CASE i > p
        <4>1. W[i] = t /\ W[i - 1] = t /\ i # p
          BY <1>1, <3>3
        <4> QED
          BY <2>3, <4>1
      <3> QED
        BY <1>1, <3>1, <3>2, <3>3
    <2>5. W[0] = c /\ W[n] = t /\ W = [i \in 0..n |-> W[i]]
      BY <1>1
    <2> HIDE DEF W
    <2>6. IsRedirectRun(W, m, c)
      <3>1. \A i \in 0..n : W[i] = IF i = 0 THEN c ELSE IF Inside(W[i - 1], m[i]) THEN TopLeft(m[i])
                                   ELSE W[i - 1]
        <4> TAKE i \in 0..n
        <4>1. i = 0 \/ (i # 0 /\ i \in 1..n)
          BY <1>1
        <4> QED
          BY <2>4, <2>5, <4>1, Zenon
      <3> QED
        BY <2>5, <3>1 DEF IsRedirectRun
    <2>7. Redirect(m, c) = t
      BY <1>1, <2>5, <2>6, RedirectRun
    <2>8. \A i \in 1..n : Inside(c, m[i]) => i = p
      BY <2>3
    <2> QED
      BY <2>1, <2>2, <2>7, <2>8 DEF t
  <1> QED
    BY <1>2, <1>3

-----------------------------------------------------------------------------
(* Moving the areas.                                                       *)

LastLine(dir) == IF dir = "rows" THEN MaxRow ELSE MaxCol

\* where a line goes, and where it came from
Line(v, num, offset) == IF v < num THEN v ELSE IF v + offset < 1 THEN 1 ELSE v + offset
LineBack(x, num, offset) == IF x < num THEN x ELSE x - offset
Back(c, dir, num, offset) ==
  IF dir = "rows" THEN <<c[1], LineBack(c[2], num, offset)>>
                  ELSE <<LineBack(c[1], num, offset), c[2]>>

\* the lines lo..hi can be moved: what Room and NoneBegins say of one area
Fits(lo, hi, num, offset, max) ==
  /\ offset = 1 => (num <= hi => hi < max)
  /\ offset = -1 => (lo = num => num = 1 /\ hi > lo)
Movable(a, dir, num, offset) == Fits(Lo(a, dir), Hi(a, dir), num, offset, LastLine(dir))

\* a range of lines stays one, and what is in it afterwards was in it before
LEMMA LinesMove ==
  ASSUME NEW max \in Nat, NEW num \in 1..max, NEW offset \in {1, -1},
         NEW lo \in 1..max, NEW hi \in 1..max, lo <= hi, Fits(lo, hi, num, offset, max)
  PROVE  LET lo2 == Line(lo, num, offset)
             hi2 == Line(hi, num, offset)
         IN  /\ lo2 \in 1..max /\ hi2 \in 1..max /\ lo2 <= hi2
             /\ \A x \in 1..max : lo2 <= x /\ x <= hi2 =>
                  LET y == LineBack(x, num, offset)
                  IN  y \in 1..max /\ lo <= y /\ y <= hi
             /\ offset = 1 => (lo2 = hi2 <=> lo = hi)
  <1>1. CASE offset = 1
    BY <1>1 DEF Line, LineBack, Fits
  <1>2. CASE offset = -1
    BY <1>2 DEF Line, LineBack, Fits
  <1> QED
    BY <1>1, <1>2

LEMMA AreaFields ==
  ASSUME NEW a \in Area
  PROVE  /\ a = [c1 |-> a.c1, r1 |-> a.r1, c2 |-> a.c2, r2 |-> a.r2]
         /\ a.c1 \in 1..MaxCol /\ a.c2 \in 1..MaxCol /\ a.r1 \in 1..MaxRow /\ a.r2 \in 1..MaxRow
  BY DEF Area, Cols, Rows

LEMMA AdjustMergeIs ==
  ASSUME NEW a \in Area, NEW num, NEW offset
  PROVE  /\ AdjustMerge(a, "rows", num, offset)
            = [c1 |-> a.c1, r1 |-> Line(a.r1, num, offset),
               c2 |-> a.c2, r2 |-> Line(a.r2, num, offset)]
         /\ AdjustMerge(a, "columns", num, offset)
            = [c1 |-> Line(a.c1, num, offset), r1 |-> a.r1,
               c2 |-> Line(a.c2, num, offset), r2 |-> a.r2]
  <1> DEFINE r1 == Line(a.r1, num, offset)
             r2 == Line(a.r2, num, offset)
             c1 == Line(a.c1, num, offset)
             c2 == Line(a.c2, num, offset)
  <1>1. AdjustMerge(a, "rows", num, offset) = [a EXCEPT !.r1 = r1, !.r2 = r2]
    BY DEF AdjustMerge, Line
  <1>2. AdjustMerge(a, "columns", num, offset) = [a EXCEPT !.c1 = c1, !.c2 = c2]
    BY DEF AdjustMerge, Line
  <1> HIDE DEF r1, r2, c1, c2
  <1>3. AdjustMerge(a, "rows", num, offset) = [c1 |-> a.c1, r1 |-> r1, c2 |-> a.c2, r2 |-> r2]
    BY <1>1 DEF Area
  <1>4. AdjustMerge(a, "columns", num, offset) = [c1 |-> c1, r1 |-> a.r1, c2 |-> c2, r2 |-> a.r2]
    BY <1>2 DEF Area
  <1> QED
    BY <1>3, <1>4 DEF r1, r2, c1, c2

\* b is what a becomes
IsMoved(b, a, dir, num, offset) ==
  /\ b \in Area /\ Ordered(b)
  /\ \A c \in Cols \X Rows : Inside(c, b) =>
       Back(c, dir, num, offset) \in Cols \X Rows /\ Inside(Back(c, dir, num, offset), a)
  /\ offset = 1 /\ ~Single(a) => ~Single(b)

LEMMA AreaMoves ==
  ASSUME NEW a \in Area, Ordered(a), NEW dir \in {"rows", "columns"}, NEW num \in 1..LastLine(dir),
         NEW offset \in {1, -1}, Movable(a, dir, num, offset)
  PROVE  IsMoved(AdjustMerge(a, dir, num, offset), a, dir, num, offset)
  <1> DEFINE b == AdjustMerge(a, dir, num, offset)
  <1>1. /\ a.c1 \in 1..MaxCol /\ a.c2 \in 1..MaxCol /\ a.r1 \in 1..MaxRow /\ a.r2 \in 1..MaxRow
        /\ a.c1 <= a.c2 /\ a.r1 <= a.r2 /\ MaxRow \in Nat /\ MaxCol \in Nat
    BY AreaFields, WorksheetAssumption DEF Ordered
  <1>2. CASE dir = "rows"
    <2> DEFINE r1 == Line(a.r1, num, offset)
               r2 == Line(a.r2, num, offset)
    <2>1. b = [c1 |-> a.c1, r1 |-> r1, c2 |-> a.c2, r2 |-> r2]
      BY <1>2, AdjustMergeIs
    <2>2. /\ r1 \in 1..MaxRow /\ r2 \in 1..MaxRow /\ r1 <= r2
          /\ \A x \in 1..MaxRow : r1 <= x /\ x <= r2 =>
               /\ LineBack(x, num, offset) \in 1..MaxRow
               /\ a.r1 <= LineBack(x, num, offset) /\ LineBack(x, num, offset) <= a.r2
          /\ offset = 1 => (r1 = r2 <=> a.r1 = a.r2)
      BY <1>1, <1>2, LinesMove DEF Movable, Lo, Hi, LastLine
    <2> HIDE DEF r1, r2, b
    <2>3. b \in Area /\ Ordered(b)
      BY <1>1, <2>1, <2>2 DEF Area, Ordered, Rows, Cols
    <2>4. ASSUME NEW c \in Cols \X Rows, Inside(c, b)
          PROVE  Back(c, dir, num, offset) \in Cols \X Rows /\ Inside(Back(c, dir, num, offset), a)
      <3>1. c[1] \in 1..MaxCol /\ c[2] \in 1..MaxRow
        BY DEF Cols, Rows
      <3>2. a.c1 <= c[1] /\ c[1] <= a.c2 /\ r1 <= c[2] /\ c[2] <= r2
        BY <2>1, <2>4 DEF Inside
      <3>3. Back(c, dir, num, offset) = <<c[1], LineBack(c[2], num, offset)>>
        BY <1>2 DEF Back
      <3> QED
        BY <2>2, <3>1, <3>2, <3>3 DEF Inside, Cols, Rows
    <2>5. offset = 1 /\ ~Single(a) => ~Single(b)
      BY <2>1, <2>2 DEF Single, TopLeft, BottomRight
    <2> QED
      BY <2>3, <2>4, <2>5 DEF IsMoved, b
  <1>3. CASE dir = "columns"
    <2> DEFINE c1 == Line(a.c1, num, offset)
               c2 == Line(a.c2, num, offset)
    <2>1. b = [c1 |-> c1, r1 |-> a.r1, c2 |-> c2, r2 |-> a.r2]
      BY <1>3, AdjustMergeIs
    <2>2. /\ c1 \in 1..MaxCol /\ c2 \in 1..MaxCol /\ c1 <= c2
          /\ \A x \in 1..MaxCol : c1 <= x /\ x <= c2 =>
               /\ LineBack(x, num, offset) \in 1..MaxCol
               /\ a.c1 <= LineBack(x, num, offset) /\ LineBack(x, num, offset) <= a.c2
          /\ offset = 1 => (c1 = c2 <=> a.c1 = a.c2)
      BY <1>1, <1>3, LinesMove DEF Movable, Lo, Hi, LastLine
    <2> HIDE DEF c1, c2, b
    <2>3. b \in Area /\ Ordered(b)
      BY <1>1, <2>1, <2>2 DEF Area, Ordered, Rows, Cols
    <2>4. ASSUME NEW c \in Cols \X Rows, Inside(c, b)
          PROVE  Back(c, dir, num, offset) \in Cols \X Rows /\ Inside(Back(c, dir, num, offset), a)
      <3>1. c[1] \in 1..MaxCol /\ c[2] \in 1..MaxRow
        BY DEF Cols, Rows
      <3>2. c1 <= c[1] /\ c[1] <= c2 /\ a.r1 <= c[2] /\ c[2] <= a.r2
        BY <2>1, <2>4 DEF Inside
      <3>3. Back(c, dir, num, offset) = <<LineBack(c[1], num, offset), c[2]>>
        BY <1>3 DEF Back
      <3> QED
        BY <2>2, <3>1, <3>2, <3>3 DEF Inside, Cols, Rows
    <2>5. offset = 1 /\ ~Single(a) => ~Single(b)
      BY <2>1, <2>2 DEF Single, TopLeft, BottomRight
    <2> QED
      BY <2>3, <2>4, <2>5 DEF IsMoved, b
  <1> QED
    BY <1>2, <1>3

\* an area can be pushed: what Room says of one
HasRoom(a, dir, num, offset) == offset = 1 => (num <= Hi(a, dir) => Hi(a, dir) < LastLine(dir))

\* what Apart says of the areas m
ApartIn(m, dir, num) ==
  \A i, j \in 1..Len(m) :
    Abreast(m[i], m[j], dir) /\ Hi(m[i], dir) + 1 = Lo(m[j], dir) =>
      num # Lo(m[j], dir) /\ ~(num = 1 /\ Hi(m[i], dir) = 1)

\* two ranges, one after the other, stay so unless they touch
LEMMA LinesApart ==
  ASSUME NEW max \in Nat, NEW num \in 1..max, NEW offset \in {1, -1},
         NEW hi \in 1..max, NEW lo \in 1..max, hi < lo,
         offset = -1 /\ hi + 1 = lo => num # lo /\ ~(num = 1 /\ hi = 1)
  PROVE  Line(hi, num, offset) < Line(lo, num, offset)
  <1>1. CASE offset = 1
    BY <1>1 DEF Line
  <1>2. CASE offset = -1
    BY <1>2 DEF Line
  <1> QED
    BY <1>1, <1>2

\* what a moved area is
LEMMA AreaShifts ==
  ASSUME NEW a \in Area, Ordered(a), NEW dir \in {"rows", "columns"}, NEW num \in 1..LastLine(dir),
         NEW offset \in {1, -1}, HasRoom(a, dir, num, offset), NEW b,
         b = AdjustMerge(a, dir, num, offset)
  PROVE  /\ b \in Area /\ Ordered(b)
         /\ offset = 1 /\ ~Single(a) => ~Single(b)
         /\ Lo(b, dir) = Line(Lo(a, dir), num, offset) /\ Hi(b, dir) = Line(Hi(a, dir), num, offset)
         /\ Lo(b, Other(dir)) = Lo(a, Other(dir)) /\ Hi(b, Other(dir)) = Hi(a, Other(dir))
  <1>1. /\ a.c1 \in 1..MaxCol /\ a.c2 \in 1..MaxCol /\ a.r1 \in 1..MaxRow /\ a.r2 \in 1..MaxRow
        /\ a.c1 <= a.c2 /\ a.r1 <= a.r2 /\ MaxRow \in Nat /\ MaxCol \in Nat
    BY AreaFields, WorksheetAssumption DEF Ordered
  <1>2. CASE dir = "rows"
    <2> DEFINE r1 == Line(a.r1, num, offset)
               r2 == Line(a.r2, num, offset)
    <2>1. b = [c1 |-> a.c1, r1 |-> r1, c2 |-> a.c2, r2 |-> r2]
      BY <1>2, AdjustMergeIs
    <2>2. num \in 1..MaxRow /\ (offset = 1 => (num <= a.r2 => a.r2 < MaxRow))
      BY <1>2 DEF HasRoom, Hi, LastLine
    <2>3. r1 \in 1..MaxRow /\ r2 \in 1..MaxRow /\ r1 <= r2 /\ (offset = 1 => (r1 = r2 <=> a.r1 = a.r2))
      BY ONLY <1>1, <2>2, offset \in {1, -1} DEF Line
    <2>4. r1 = Line(Lo(a, dir), num, offset) /\ r2 = Line(Hi(a, dir), num, offset)
      BY <1>2 DEF Lo, Hi
    <2> HIDE DEF r1, r2
    <2>5. b \in Area /\ Ordered(b)
      BY <1>1, <2>1, <2>3 DEF Area, Ordered, Rows, Cols
    <2>6. offset = 1 /\ ~Single(a) => ~Single(b)
      BY <2>1, <2>3 DEF Single, TopLeft, BottomRight
    <2>7. Lo(b, dir) = r1 /\ Hi(b, dir) = r2
      BY <1>2, <2>1 DEF Lo, Hi
    <2>8. Lo(b, Other(dir)) = Lo(a, Other(dir)) /\ Hi(b, Other(dir)) = Hi(a, Other(dir))
      BY <1>2, <2>1 DEF Lo, Hi, Other
    <2> QED
      BY <2>4, <2>5, <2>6, <2>7, <2>8
  <1>3. CASE dir = "columns"
    <2> DEFINE c1 == Line(a.c1, num, offset)
               c2 == Line(a.c2, num, offset)
    <2>1. b = [c1 |-> c1, r1 |-> a.r1, c2 |-> c2, r2 |-> a.r2]
      BY <1>3, AdjustMergeIs
    <2>2. num \in 1..MaxCol /\ (offset = 1 => (num <= a.c2 => a.c2 < MaxCol))
      BY <1>3 DEF HasRoom, Hi, LastLine
    <2>3. c1 \in 1..MaxCol /\ c2 \in 1..MaxCol /\ c1 <= c2 /\ (offset = 1 => (c1 = c2 <=> a.c1 = a.c2))
      BY ONLY <1>1, <2>2, offset \in {1, -1} DEF Line
    <2>4. c1 = Line(Lo(a, dir), num, offset) /\ c2 = Line(Hi(a, dir), num, offset)
      BY <1>3 DEF Lo, Hi
    <2> HIDE DEF c1, c2
    <2>5. b \in Area /\ Ordered(b)
      BY <1>1, <2>1, <2>3 DEF Area, Ordered, Rows, Cols
    <2>6. offset = 1 /\ ~Single(a) => ~Single(b)
      BY <2>1, <2>3 DEF Single, TopLeft, BottomRight
    <2>7. Lo(b, dir) = c1 /\ Hi(b, dir) = c2
      BY <1>3, <2>1 DEF Lo, Hi
    <2>8. Lo(b, Other(dir)) = Lo(a, Other(dir)) /\ Hi(b, Other(dir)) = Hi(a, Other(dir))
      BY <1>3, <2>1 DEF Lo, Hi, Other
    <2> QED
      BY <2>4, <2>5, <2>6, <2>7, <2>8
  <1> QED
    BY <1>2, <1>3

\* areas overlap that have lines of both directions in common
LEMMA OverlapIs ==
  ASSUME NEW a \in Area, NEW b \in Area, Ordered(a), Ordered(b), NEW dir \in {"rows", "columns"}
  PROVE  Overlap(a, b) <=> /\ Lo(a, dir) <= Hi(b, dir) /\ Lo(b, dir) <= Hi(a, dir)
                           /\ Abreast(a, b, dir)
  <1> DEFINE Meet == a.c1 <= b.c2 /\ b.c1 <= a.c2 /\ a.r1 <= b.r2 /\ b.r1 <= a.r2
  <1>1. /\ a.c1 \in 1..MaxCol /\ a.c2 \in 1..MaxCol /\ a.r1 \in 1..MaxRow /\ a.r2 \in 1..MaxRow
        /\ a.c1 <= a.c2 /\ a.r1 <= a.r2 /\ MaxRow \in Nat /\ MaxCol \in Nat
    BY AreaFields, WorksheetAssumption DEF Ordered
  <1>2. /\ b.c1 \in 1..MaxCol /\ b.c2 \in 1..MaxCol /\ b.r1 \in 1..MaxRow /\ b.r2 \in 1..MaxRow
        /\ b.c1 <= b.c2 /\ b.r1 <= b.r2
    BY AreaFields DEF Ordered
  <1>3. Meet <=> /\ Lo(a, dir) <= Hi(b, dir) /\ Lo(b, dir) <= Hi(a, dir)
                 /\ Abreast(a, b, dir)
    <2>1. CASE dir = "rows"
      BY <2>1 DEF Lo, Hi, Abreast, Other
    <2>2. CASE dir = "columns"
      BY <2>2 DEF Lo, Hi, Abreast, Other
    <2> QED
      BY <2>1, <2>2
  <1>4. ASSUME Overlap(a, b) PROVE Meet
    <2>1. PICK c \in Cols \X Rows : Inside(c, a) /\ Inside(c, b)
      BY <1>4 DEF Overlap
    <2>2. c[1] \in 1..MaxCol /\ c[2] \in 1..MaxRow
      BY DEF Cols, Rows
    <2> QED
      BY <1>1, <1>2, <2>1, <2>2 DEF Inside
  <1>5. ASSUME Meet PROVE Overlap(a, b)
    <2> DEFINE x == IF a.c1 <= b.c1 THEN b.c1 ELSE a.c1
               y == IF a.r1 <= b.r1 THEN b.r1 ELSE a.r1
               c == <<x, y>>
    <2>1. /\ x \in 1..MaxCol /\ a.c1 <= x /\ x <= a.c2 /\ b.c1 <= x /\ x <= b.c2
          /\ y \in 1..MaxRow /\ a.r1 <= y /\ y <= a.r2 /\ b.r1 <= y /\ y <= b.r2
      BY <1>1, <1>2, <1>5
    <2> HIDE DEF x, y
    <2>2. c \in Cols \X Rows /\ c[1] = x /\ c[2] = y
      BY <2>1 DEF Cols, Rows
    <2> HIDE DEF c
    <2>3. Inside(c, a) /\ Inside(c, b)
      BY <2>1, <2>2 DEF Inside
    <2> QED
      BY <2>2, <2>3 DEF Overlap
  <1> QED
    BY <1>3, <1>4, <1>5

\* two areas with a line of the other direction in common, one after the other
LEMMA StayApart ==
  ASSUME NEW a \in Area, NEW b \in Area, Ordered(a), Ordered(b), NEW dir \in {"rows", "columns"},
         NEW num \in 1..LastLine(dir), NEW offset \in {1, -1}, Hi(a, dir) < Lo(b, dir),
         offset = -1 /\ Hi(a, dir) + 1 = Lo(b, dir) =>
           num # Lo(b, dir) /\ ~(num = 1 /\ Hi(a, dir) = 1)
  PROVE  ~(Line(Lo(b, dir), num, offset) <= Line(Hi(a, dir), num, offset))
  <1> DEFINE max == LastLine(dir)
             hi == Hi(a, dir)
             lo == Lo(b, dir)
  <1>1. max \in Nat /\ hi \in 1..max /\ lo \in 1..max
    BY AreaFields, WorksheetAssumption DEF LastLine, Lo, Hi
  <1>2. num \in 1..max /\ hi < lo
        /\ (offset = -1 /\ hi + 1 = lo => num # lo /\ ~(num = 1 /\ hi = 1))
    OBVIOUS
  <1> HIDE DEF max, hi, lo
  <1>3. Line(hi, num, offset) < Line(lo, num, offset)
    BY <1>1, <1>2, LinesApart
  <1>4. Line(hi, num, offset) \in Int /\ Line(lo, num, offset) \in Int
    BY <1>1, <1>2 DEF Line
  <1>5. ~(Line(lo, num, offset) <= Line(hi, num, offset))
    BY <1>3, <1>4
  <1> QED
    BY <1>5 DEF hi, lo

\* areas that do not overlap and do not touch in the line are moved to areas
\* that do not overlap
LEMMA ListMoves ==
  ASSUME NEW m, IsAreaList(m), NEW dir \in {"rows", "columns"}, NEW num \in 1..LastLine(dir),
         NEW offset \in {1, -1}, \A i \in 1..Len(m) : HasRoom(m[i], dir, num, offset),
         offset = -1 => ApartIn(m, dir, num),
         NEW q, IsAdjusted(q, m, dir, num, offset)
  PROVE  IsAreaList(q)
  <1>1. PICK k \in [1..Len(q) -> 1..Len(m)] :
          /\ \A i, j \in 1..Len(q) : k[i] = k[j] => i = j
          /\ \A j \in 1..Len(q) : q[j] = AdjustMerge(m[k[j]], dir, num, offset) /\ ~Single(q[j])
    BY DEF IsAdjusted
  <1>2. Len(q) \in Nat /\ q = [j \in 1..Len(q) |-> q[j]]
    BY DEF IsAdjusted
  <1>3. \A j \in 1..Len(m) : m[j] \in Area /\ Ordered(m[j])
    BY DEF IsAreaList
  <1>4. \A j \in 1..Len(q) : k[j] \in 1..Len(m)
    OBVIOUS
  <1>5. \A j \in 1..Len(q) :
          LET a == m[k[j]]
              b == q[j]
          IN  /\ b \in Area /\ Ordered(b)
              /\ Lo(b, dir) = Line(Lo(a, dir), num, offset)
              /\ Hi(b, dir) = Line(Hi(a, dir), num, offset)
              /\ Lo(b, Other(dir)) = Lo(a, Other(dir)) /\ Hi(b, Other(dir)) = Hi(a, Other(dir))
    <2> TAKE j \in 1..Len(q)
    <2> DEFINE a == m[k[j]]
               b == q[j]
    <2>1. /\ a \in Area /\ Ordered(a) /\ HasRoom(a, dir, num, offset)
          /\ b = AdjustMerge(a, dir, num, offset)
      BY <1>1, <1>3, <1>4
    <2> HIDE DEF a, b
    <2>2. /\ b \in Area /\ Ordered(b)
          /\ Lo(b, dir) = Line(Lo(a, dir), num, offset)
          /\ Hi(b, dir) = Line(Hi(a, dir), num, offset)
          /\ Lo(b, Other(dir)) = Lo(a, Other(dir)) /\ Hi(b, Other(dir)) = Hi(a, Other(dir))
      BY <2>1, AreaShifts
    <2> QED
      BY <2>2 DEF a, b
  <1>6. q \in Seq(Area) /\ \A j \in 1..Len(q) : Ordered(q[j])
    <2>1. \A j \in 1..Len(q) : q[j] \in Area /\ Ordered(q[j])
      BY <1>5, Zenon
    <2>2. q \in [1..Len(q) -> Area]
      BY ONLY <1>2, <2>1
    <2> QED
      BY ONLY <1>2, <2>1, <2>2
  <1>7. ASSUME NEW i \in 1..Len(q), NEW j \in 1..Len(q), i # j, Overlap(q[i], q[j])
        PROVE  FALSE
    <2> DEFINE a == m[k[i]]
               b == m[k[j]]
    <2>1. k[i] \in 1..Len(m) /\ k[j] \in 1..Len(m) /\ k[i] # k[j]
      BY <1>1, <1>4, <1>7
    <2>2. a \in Area /\ b \in Area /\ Ordered(a) /\ Ordered(b) /\ ~Overlap(a, b)
      BY <1>3, <2>1 DEF IsAreaList
    <2>3. /\ Lo(q[i], dir) <= Hi(q[j], dir) /\ Lo(q[j], dir) <= Hi(q[i], dir)
          /\ Abreast(q[i], q[j], dir)
      BY <1>5, <1>7, OverlapIs
    <2>4. /\ Line(Lo(a, dir), num, offset) <= Line(Hi(b, dir), num, offset)
          /\ Line(Lo(b, dir), num, offset) <= Line(Hi(a, dir), num, offset)
          /\ Abreast(a, b, dir) /\ Abreast(b, a, dir)
      BY <1>5, <2>3 DEF Abreast
    <2>5. ~(Lo(a, dir) <= Hi(b, dir) /\ Lo(b, dir) <= Hi(a, dir))
      BY <2>2, <2>4, OverlapIs
    <2>6. /\ offset = -1 /\ Hi(a, dir) + 1 = Lo(b, dir) =>
               num # Lo(b, dir) /\ ~(num = 1 /\ Hi(a, dir) = 1)
          /\ offset = -1 /\ Hi(b, dir) + 1 = Lo(a, dir) =>
               num # Lo(a, dir) /\ ~(num = 1 /\ Hi(b, dir) = 1)
      BY <2>1, <2>4 DEF ApartIn
    <2> HIDE DEF a, b
    <2>7. ~(Hi(a, dir) < Lo(b, dir))
      BY <2>2, <2>4, <2>6, StayApart
    <2>8. ~(Hi(b, dir) < Lo(a, dir))
      BY <2>2, <2>4, <2>6, StayApart
    <2>9. Lo(a, dir) \in Int /\ Hi(a, dir) \in Int /\ Lo(b, dir) \in Int /\ Hi(b, dir) \in Int
      BY <2>2, AreaFields, WorksheetAssumption DEF Lo, Hi
    <2> QED
      BY <2>5, <2>7, <2>8, <2>9
  <1> QED
    BY <1>1, <1>6, <1>7 DEF IsAreaList

-----------------------------------------------------------------------------
(* Moving the hyperlinks.                                                  *)

\* the hyperlinks and relationships of a sheet
IsLinked(ls, rs) ==
  /\ ls \in Seq(Link) /\ rs \in Seq(Rel) /\ UniqueIds(rs)
  /\ \A i \in 1..Len(ls) : ls[i].at \in Cols \X Rows
  /\ \A i, j \in 1..Len(ls) : ls[i].at = ls[j].at => i = j
  /\ \A i, j \in 1..Len(ls) : ls[i].rid = ls[j].rid /\ ls[i].rid # 0 => i = j
  /\ \A i \in 1..Len(ls) : ls[i].rid # 0 => \E p \in 1..Len(rs) : rs[p].id = ls[i].rid
  /\ \A p \in 1..Len(rs) : \E i \in 1..Len(ls) : ls[i].rid = rs[p].id

\* the line of a hyperlink, and that it can be moved
Spot(c, dir) == IF dir = "rows" THEN c[2] ELSE c[1]
Slides(c, dir, num, offset) ==
  /\ offset = 1 => (num <= Spot(c, dir) => Spot(c, dir) < LastLine(dir))
  /\ offset = -1 => Spot(c, dir) # num

\* the cell a hyperlink goes to
Slid(c, dir, num, offset) ==
  IF dir = "rows" THEN <<c[1], Line(c[2], num, offset)>>
                  ELSE <<Line(c[1], num, offset), c[2]>>

LEMMA CellSlides ==
  ASSUME NEW c \in Cols \X Rows, NEW dir \in {"rows", "columns"}, NEW num \in 1..LastLine(dir),
         NEW offset \in {1, -1}, Slides(c, dir, num, offset)
  PROVE  /\ Slid(c, dir, num, offset) \in Cols \X Rows
         /\ Back(Slid(c, dir, num, offset), dir, num, offset) = c
  <1>1. c = <<c[1], c[2]>> /\ c[1] \in 1..MaxCol /\ c[2] \in 1..MaxRow
    BY DEF Cols, Rows
  <1>2. MaxRow \in Nat /\ MaxCol \in Nat
    BY WorksheetAssumption
  <1>3. ASSUME NEW max \in Nat, NEW x \in 1..max, num \in 1..max,
               offset = 1 => (num <= x => x < max), offset = -1 => x # num
        PROVE  /\ Line(x, num, offset) \in 1..max
               /\ LineBack(Line(x, num, offset), num, offset) = x
    <2>1. CASE offset = 1
      BY <1>3, <2>1 DEF Line, LineBack
    <2>2. CASE offset = -1
      BY <1>3, <2>2 DEF Line, LineBack
    <2> QED
      BY <2>1, <2>2
  <1>4. CASE dir = "rows"
    <2>1. /\ Line(c[2], num, offset) \in 1..MaxRow
          /\ LineBack(Line(c[2], num, offset), num, offset) = c[2]
      BY <1>1, <1>2, <1>3, <1>4 DEF Slides, Spot, LastLine
    <2> QED
      BY <1>1, <1>4, <2>1 DEF Slid, Back, Cols, Rows
  <1>5. CASE dir = "columns"
    <2>1. /\ Line(c[1], num, offset) \in 1..MaxCol
          /\ LineBack(Line(c[1], num, offset), num, offset) = c[1]
      BY <1>1, <1>2, <1>3, <1>5 DEF Slides, Spot, LastLine
    <2> QED
      BY <1>1, <1>5, <2>1 DEF Slid, Back, Cols, Rows
  <1> QED
    BY <1>4, <1>5

LEMMA LinkSlides ==
  ASSUME NEW l \in Link, l.at \in Cols \X Rows, NEW dir \in {"rows", "columns"},
         NEW num \in 1..LastLine(dir), NEW offset \in {1, -1}, Slides(l.at, dir, num, offset)
  PROVE  /\ AdjustLink(l, dir, num, offset) \in Link
         /\ AdjustLink(l, dir, num, offset).at = Slid(l.at, dir, num, offset)
         /\ AdjustLink(l, dir, num, offset).rid = l.rid
         /\ AdjustLink(l, dir, num, offset).location = l.location
  <1> DEFINE c == l.at
             at == IF dir = "rows"
                   THEN IF c[2] >= num THEN <<c[1], c[2] + offset>> ELSE c
                   ELSE IF c[1] >= num THEN <<c[1] + offset, c[2]>> ELSE c
  <1>1. AdjustLink(l, dir, num, offset)
        = [l EXCEPT !.at = IF at[1] < 1 \/ at[2] < 1 THEN <<0, 0>> ELSE at]
    BY DEF AdjustLink
  <1>2. c = <<c[1], c[2]>> /\ c[1] \in 1..MaxCol /\ c[2] \in 1..MaxRow
    BY DEF Cols, Rows
  <1>3. MaxRow \in Nat /\ MaxCol \in Nat
    BY WorksheetAssumption
  <1>4. at = Slid(c, dir, num, offset)
    <2>1. num \in Nat /\ num >= 1
      BY <1>3 DEF LastLine
    <2>2. CASE dir = "rows"
      BY <1>2, <1>3, <2>1, <2>2 DEF Slid, Line, Slides, Spot
    <2>3. CASE dir = "columns"
      BY <1>2, <1>3, <2>1, <2>3 DEF Slid, Line, Slides, Spot
    <2> QED
      BY <2>2, <2>3
  <1>5. Slid(c, dir, num, offset) \in Cols \X Rows
    BY CellSlides
  <1> HIDE DEF at
  <1>6. ~(at[1] < 1 \/ at[2] < 1)
    BY <1>4, <1>5, <1>3 DEF Cols, Rows
  <1>7. AdjustLink(l, dir, num, offset) = [l EXCEPT !.at = at]
    BY <1>1, <1>6
  <1> QED
    BY <1>4, <1>5, <1>7 DEF Link

\* no two hyperlinks come to one cell, and each keeps its relationship
LEMMA LinksMove ==
  ASSUME NEW ls, NEW rs, IsLinked(ls, rs), NEW dir \in {"rows", "columns"},
         NEW num \in 1..LastLine(dir), NEW offset \in {1, -1},
         \A i \in 1..Len(ls) : ~Hit(ls[i], dir, num, offset) => Slides(ls[i].at, dir, num, offset),
         NEW R, IsRelinked(R, ls, rs, dir, num, offset)
  PROVE  ~R.panic /\ IsLinked(R.links, R.rels)
  <1>a. \A i, j \in 1..Len(ls) : ls[i].at = ls[j].at => i = j
    BY DEF IsLinked
  <1>b. \A i, j \in 1..Len(ls) : ls[i].rid = ls[j].rid /\ ls[i].rid # 0 => i = j
    BY DEF IsLinked
  <1>c. \A i \in 1..Len(ls) : ls[i].rid # 0 => \E p \in 1..Len(rs) : rs[p].id = ls[i].rid
    BY DEF IsLinked
  <1>d. \A p \in 1..Len(rs) : \E i \in 1..Len(ls) : ls[i].rid = rs[p].id
    BY DEF IsLinked
  <1>1. PICK rest, r :
          /\ rest \in Seq(Link) /\ IsSpared(rest, ls, dir, num, offset)
          /\ IsReleased(r, rs, ls, dir, num, offset)
          /\ R = Links(Shifted(rest, dir, num, offset), r)
    BY Zenon DEF IsRelinked
  <1>2. PICK k \in [1..Len(rest) -> 1..Len(ls)] :
          /\ \A i, j \in 1..Len(rest) : k[i] = k[j] => i = j
          /\ \A j \in 1..Len(rest) : rest[j] = ls[k[j]] /\ ~Hit(rest[j], dir, num, offset)
          /\ \A i \in 1..Len(ls) : \/ Hit(ls[i], dir, num, offset)
                                   \/ \E j \in 1..Len(rest) : k[j] = i
    BY <1>1 DEF IsSpared
  <1> DEFINE q == Shifted(rest, dir, num, offset)
  <1>3. ~R.panic /\ R.links = q /\ R.rels = r
    BY <1>1 DEF Links
  <1>4. \A j \in 1..Len(rest) : k[j] \in 1..Len(ls) /\ rest[j] \in Link /\ rest[j].at \in Cols \X Rows
    <2> TAKE j \in 1..Len(rest)
    <2>1. rest[j] \in Link
      BY ONLY <1>1, j \in 1..Len(rest)
    <2>2. k[j] \in 1..Len(ls) /\ rest[j] = ls[k[j]]
      BY ONLY <1>2, j \in 1..Len(rest)
    <2>3. \A i \in 1..Len(ls) : ls[i].at \in Cols \X Rows
      BY DEF IsLinked
    <2>4. ls[k[j]].at \in Cols \X Rows
      BY ONLY <2>2, <2>3
    <2> QED
      BY <2>1, <2>2, <2>4
  <1>5. \A j \in 1..Len(rest) : Slides(rest[j].at, dir, num, offset)
    BY <1>2, <1>4
  <1>6. \A j \in 1..Len(rest) :
          /\ AdjustLink(rest[j], dir, num, offset) \in Link
          /\ AdjustLink(rest[j], dir, num, offset).at = Slid(rest[j].at, dir, num, offset)
          /\ AdjustLink(rest[j], dir, num, offset).rid = rest[j].rid
    BY <1>4, <1>5, LinkSlides
  <1>7. /\ q \in Seq(Link) /\ Len(q) = Len(rest)
        /\ \A j \in 1..Len(rest) : q[j] = AdjustLink(rest[j], dir, num, offset)
    BY <1>1, <1>6 DEF Shifted
  <1> HIDE DEF q
  <1>8. \A j \in 1..Len(q) : q[j].at = Slid(rest[j].at, dir, num, offset) /\ q[j].rid = ls[k[j]].rid
    BY <1>2, <1>6, <1>7
  <1>9. \A j \in 1..Len(q) : /\ Slid(rest[j].at, dir, num, offset) \in Cols \X Rows
                             /\ Back(Slid(rest[j].at, dir, num, offset), dir, num, offset) = rest[j].at
    BY <1>4, <1>5, <1>7, CellSlides
  <1>10. \A i, j \in 1..Len(q) : q[i].at = q[j].at => i = j
    <2> SUFFICES ASSUME NEW i \in 1..Len(q), NEW j \in 1..Len(q), q[i].at = q[j].at
                 PROVE  i = j
      OBVIOUS
    <2>1. rest[i].at = rest[j].at
      BY <1>8, <1>9
    <2>2. i \in 1..Len(rest) /\ j \in 1..Len(rest)
      BY ONLY <1>7
    <2>3. k[i] \in 1..Len(ls) /\ k[j] \in 1..Len(ls)
      BY ONLY <1>4, <2>2
    <2>4. rest[i] = ls[k[i]] /\ rest[j] = ls[k[j]]
      BY ONLY <1>2, <2>2
    <2>5. ls[k[i]].at = ls[k[j]].at
      BY ONLY <2>1, <2>4
    <2>6. k[i] = k[j]
      BY ONLY <1>a, <2>3, <2>5
    <2> QED
      BY ONLY <1>2, <2>2, <2>6
  <1>11. \A i, j \in 1..Len(q) : q[i].rid = q[j].rid /\ q[i].rid # 0 => i = j
    <2> SUFFICES ASSUME NEW i \in 1..Len(q), NEW j \in 1..Len(q), q[i].rid = q[j].rid, q[i].rid # 0
                 PROVE  i = j
      OBVIOUS
    <2>0. k[i] \in 1..Len(ls) /\ k[j] \in 1..Len(ls)
      BY <1>4, <1>7
    <2>a. ls[k[i]].rid = ls[k[j]].rid /\ ls[k[i]].rid # 0
      BY <1>8
    <2>1. k[i] = k[j]
      BY <1>b, <2>0, <2>a, Zenon
    <2> QED
      BY <1>2, <1>7, <2>1
  <1>12. r \in Seq(Rel) /\ UniqueIds(r)
    BY <1>1 DEF IsReleased
  <1>13. ASSUME NEW j \in 1..Len(q), q[j].rid # 0 PROVE \E p \in 1..Len(r) : r[p].id = q[j].rid
    <2>1. k[j] \in 1..Len(ls) /\ ls[k[j]].rid = q[j].rid /\ ~Hit(ls[k[j]], dir, num, offset)
      BY <1>2, <1>4, <1>7, <1>8
    <2>2. PICK p \in 1..Len(rs) : rs[p].id = q[j].rid
      BY <1>c, <2>1, <1>13
    <2>3. \A i \in 1..Len(ls) : Hit(ls[i], dir, num, offset) => q[j].rid # ls[i].rid
      BY <1>b, <2>1, <1>13
    <2>4. rs[p] \in RelSet(r)
      BY <1>1, <2>2, <2>3 DEF IsReleased, RelSet
    <2> QED
      BY <2>2, <2>4 DEF RelSet
  <1>14. ASSUME NEW p \in 1..Len(r) PROVE r[p].id # 0 /\ \E j \in 1..Len(q) : q[j].rid = r[p].id
    <2>1. r[p].id # 0
      <3>1. r[p] \in Rel
        BY <1>12
      <3> QED
        BY <3>1 DEF Rel
    <2>2. r[p] \in RelSet(rs) /\ \A i \in 1..Len(ls) : Hit(ls[i], dir, num, offset) => r[p].id # ls[i].rid
      BY <1>1 DEF IsReleased, RelSet
    <2>3. PICK i \in 1..Len(ls) : ls[i].rid = r[p].id
      BY <1>d, <2>2 DEF RelSet
    <2>4. PICK j \in 1..Len(rest) : k[j] = i
      BY <1>2, <2>2, <2>3
    <2> QED
      BY <1>7, <1>8, <2>1, <2>3, <2>4
  <1>16. \A i \in 1..Len(q) : q[i].at \in Cols \X Rows
    BY <1>8, <1>9
  <1> QED
    BY <1>3, <1>7, <1>10, <1>11, <1>12, <1>13, <1>14, <1>16, Zenon DEF IsLinked

-----------------------------------------------------------------------------
(* adjustHelper.                                                           *)

IsRowList(h) == h \in Seq(BOOLEAN) /\ Len(h) <= MaxRow
IsFilter(f) == f = None \/ (f \in Area /\ f.r1 <= f.r2)

\* The inductive invariant.  Besides what the properties say: every area has
\* its corners in order and more than one cell, so that one that collapses is
\* the only kind to be deleted; no two hyperlinks share a cell or a
\* relationship, so that each loop over them deletes what it should and once.
WorksheetInv ==
  /\ IsRowList(hidden) /\ IsAreaList(merges) /\ IsLinked(links, rels)
  /\ IsFilter(filter) /\ failed = ""

\* what the session says of the filter, in terms of one line
FilterKeeps(f, dir, num, offset) ==
  f # None => /\ offset = 1 => (num <= Hi(f, dir) => Hi(f, dir) < LastLine(dir))
              /\ offset = -1 /\ dir = "columns" /\ num = 1 => ~(f.c2 = 1 /\ f.c1 > 1)

LEMMA FilterMoves ==
  ASSUME NEW f \in Area, f.r1 <= f.r2, f # None, NEW dir \in {"rows", "columns"},
         NEW num \in 1..LastLine(dir), NEW offset \in {1, -1},
         FilterKeeps(f, dir, num, offset), ~FilterGoes(f, dir, num, offset)
  PROVE  AdjustAutoFilter(f, dir, num, offset) \in Area
         /\ AdjustAutoFilter(f, dir, num, offset).r1 <= AdjustAutoFilter(f, dir, num, offset).r2
  <1> DEFINE adjust(v) == IF v >= num THEN v + offset ELSE v
             b == AdjustAutoFilter(f, dir, num, offset)
  <1>1. /\ f.c1 \in 1..MaxCol /\ f.c2 \in 1..MaxCol /\ f.r1 \in 1..MaxRow /\ f.r2 \in 1..MaxRow
        /\ f.r1 <= f.r2 /\ MaxRow \in Nat /\ MaxCol \in Nat
    BY AreaFields, WorksheetAssumption
  <1>2. CASE dir = "rows"
    <2> DEFINE r1 == adjust(f.r1)
               r2 == adjust(f.r2)
    <2>1. b = [f EXCEPT !.r1 = r1, !.r2 = r2]
      BY <1>2 DEF AdjustAutoFilter
    <2>2. num \in 1..MaxRow /\ (offset = 1 => (num <= f.r2 => f.r2 < MaxRow))
      BY <1>2 DEF FilterKeeps, LastLine, Hi
    <2>3. offset = -1 => f.r1 # num
      BY <1>2 DEF FilterGoes
    <2>4. r1 \in 1..MaxRow /\ r2 \in 1..MaxRow /\ r1 <= r2
      <3>1. CASE offset = 1
        BY <1>1, <2>2, <3>1
      <3>2. CASE offset = -1
        BY <1>1, <2>2, <2>3, <3>2
      <3> QED
        BY <3>1, <3>2
    <2> HIDE DEF r1, r2
    <2>5. b = [c1 |-> f.c1, r1 |-> r1, c2 |-> f.c2, r2 |-> r2]
      BY <2>1 DEF Area
    <2> QED
      BY <1>1, <2>4, <2>5 DEF Area, Cols, Rows
  <1>3. CASE dir = "columns"
    <2> DEFINE c2 == adjust(f.c2)
    <2>1. b = [f EXCEPT !.c2 = c2]
      BY <1>3 DEF AdjustAutoFilter
    <2>2. /\ num \in 1..MaxCol /\ (offset = 1 => (num <= f.c2 => f.c2 < MaxCol))
          /\ offset = -1 /\ num = 1 => ~(f.c2 = 1 /\ f.c1 > 1)
      BY <1>3 DEF FilterKeeps, LastLine, Hi
    <2>3. ~(f.c1 = num /\ f.c2 = num)
      BY <1>3 DEF FilterGoes
    <2>4. c2 \in 1..MaxCol
      <3>1. CASE offset = 1
        BY <1>1, <2>2, <3>1
      <3>2. CASE offset = -1
        BY <1>1, <2>2, <2>3, <3>2
      <3> QED
        BY <3>1, <3>2
    <2> HIDE DEF c2
    <2>5. b = [c1 |-> f.c1, r1 |-> f.r1, c2 |-> c2, r2 |-> f.r2]
      BY <2>1 DEF Area
    <2> QED
      BY <1>1, <2>4, <2>5 DEF Area, Cols, Rows
  <1> QED
    BY <1>2, <1>3

\* the traps the session stays clear of
Clear(dir, num, offset) ==
  /\ \A i \in 1..Len(merges) : HasRoom(merges[i], dir, num, offset)
  /\ offset = -1 => ApartIn(merges, dir, num)
  /\ DeletesRight({i \in 1..Len(merges) : Single(AdjustMerge(merges[i], dir, num, offset))},
                  Len(merges))
  /\ \A i \in 1..Len(links) :
       Hit(links[i], dir, num, offset) \/ Slides(links[i].at, dir, num, offset)
  /\ DeletesRight({i \in 1..Len(links) : Hit(links[i], dir, num, offset)}, Len(links))
  /\ FilterKeeps(filter, dir, num, offset)

\* the ways a loop over n elements deletes what it should
LEMMA DeletesRightIs ==
  ASSUME NEW n \in Nat, NEW gone \in SUBSET (1..n), DeletesRight(gone, n)
  PROVE  \/ n <= 2
         \/ \A i \in 1..n : ~(i \in gone)
         \/ n > 2 /\ \E d : (d = n - 1 \/ d = n) /\ \A i \in 1..n : i \in gone <=> i = d
  BY DEF DeletesRight

LEMMA MergesEnd ==
  ASSUME NEW m \in Seq(Area), NEW dir, NEW num, NEW offset,
         DeletesRight({i \in 1..Len(m) : Single(AdjustMerge(m[i], dir, num, offset))}, Len(m))
  PROVE  /\ ~AdjustMergeCells(m, dir, num, offset).panic
         /\ IsAdjusted(AdjustMergeCells(m, dir, num, offset).cells, m, dir, num, offset)
  <1> DEFINE n == Len(m)
             gone == {i \in 1..n : Single(AdjustMerge(m[i], dir, num, offset))}
  <1>1. n \in Nat /\ gone \in SUBSET (1..n) /\ DeletesRight(gone, n)
    OBVIOUS
  <1>2. \A i \in 1..n : i \in gone <=> Single(AdjustMerge(m[i], dir, num, offset))
    OBVIOUS
  <1> HIDE DEF gone
  <1>3. CASE n <= 2
    BY <1>3, MergesFew
  <1>4. CASE \A i \in 1..n : ~(i \in gone)
    BY <1>2, <1>4, MergesKept
  <1>5. ASSUME NEW d, d = n - 1 \/ d = n, \A i \in 1..n : i \in gone <=> i = d, n > 2
        PROVE  /\ ~AdjustMergeCells(m, dir, num, offset).panic
               /\ IsAdjusted(AdjustMergeCells(m, dir, num, offset).cells, m, dir, num, offset)
    <2>1. OneCollapses(m, d, dir, num, offset)
      BY <1>2, <1>5 DEF OneCollapses
    <2> QED
      BY ONLY <2>1, m \in Seq(Area), MergesOne
  <1>6. \/ n <= 2
        \/ \A i \in 1..n : ~(i \in gone)
        \/ n > 2 /\ \E d : (d = n - 1 \/ d = n) /\ \A i \in 1..n : i \in gone <=> i = d
    <2> HIDE DEF n
    <2> QED
      BY ONLY <1>1, DeletesRightIs
  <1> QED
    BY <1>3, <1>4, <1>5, <1>6

LEMMA LinksEnd ==
  ASSUME NEW ls \in Seq(Link), NEW rs \in Seq(Rel), UniqueIds(rs), NEW dir, NEW num,
         NEW offset \in Int,
         DeletesRight({i \in 1..Len(ls) : Hit(ls[i], dir, num, offset)}, Len(ls))
  PROVE  IsRelinked(AdjustHyperlinks(ls, rs, dir, num, offset), ls, rs, dir, num, offset)
  <1> DEFINE n == Len(ls)
             gone == {i \in 1..n : Hit(ls[i], dir, num, offset)}
  <1>1. n \in Nat /\ gone \in SUBSET (1..n) /\ DeletesRight(gone, n)
    OBVIOUS
  <1>2. \A i \in 1..n : i \in gone <=> Hit(ls[i], dir, num, offset)
    OBVIOUS
  <1> HIDE DEF gone
  <1>3. CASE n <= 2
    BY <1>3, LinksFew
  <1>4. CASE \A i \in 1..n : ~(i \in gone)
    BY <1>2, <1>4, LinksKept
  <1>5. ASSUME NEW d, d = n - 1 \/ d = n, \A i \in 1..n : i \in gone <=> i = d, n > 2
        PROVE  IsRelinked(AdjustHyperlinks(ls, rs, dir, num, offset), ls, rs, dir, num, offset)
    <2>1. OneHit(ls, d, dir, num, offset)
      BY <1>2, <1>5 DEF OneHit
    <2> QED
      BY <2>1, LinksOne
  <1>6. \/ n <= 2
        \/ \A i \in 1..n : ~(i \in gone)
        \/ n > 2 /\ \E d : (d = n - 1 \/ d = n) /\ \A i \in 1..n : i \in gone <=> i = d
    <2> HIDE DEF n
    <2> QED
      BY ONLY <1>1, DeletesRightIs
  <1> QED
    BY <1>3, <1>4, <1>5, <1>6

\* what the loops of adjustHelper come to, clear of the traps
LEMMA LoopsEnd ==
  ASSUME WorksheetInv, NEW dir \in {"rows", "columns"}, NEW num \in 1..LastLine(dir),
         NEW offset \in {1, -1}, Clear(dir, num, offset)
  PROVE  /\ ~AdjustHyperlinks(links, rels, dir, num, offset).panic
         /\ ~AdjustMergeCells(merges, dir, num, offset).panic
         /\ IsRelinked(AdjustHyperlinks(links, rels, dir, num, offset),
                       links, rels, dir, num, offset)
         /\ IsAdjusted(AdjustMergeCells(merges, dir, num, offset).cells,
                       merges, dir, num, offset)
         /\ IsAreaList(AdjustMergeCells(merges, dir, num, offset).cells)
         /\ IsLinked(AdjustHyperlinks(links, rels, dir, num, offset).links,
                     AdjustHyperlinks(links, rels, dir, num, offset).rels)
  <1> DEFINE l == AdjustHyperlinks(links, rels, dir, num, offset)
             m == AdjustMergeCells(merges, dir, num, offset)
  <1>1. IsAreaList(merges) /\ merges \in Seq(Area) /\ IsLinked(links, rels)
        /\ links \in Seq(Link) /\ rels \in Seq(Rel) /\ UniqueIds(rels) /\ offset \in Int
    <2>1. IsAreaList(merges) /\ IsLinked(links, rels)
      BY DEF WorksheetInv
    <2> QED
      BY <2>1 DEF IsAreaList, IsLinked
  <1>2. ~m.panic /\ IsAdjusted(m.cells, merges, dir, num, offset)
    BY <1>1, MergesEnd DEF Clear
  <1>3. IsRelinked(l, links, rels, dir, num, offset)
    BY <1>1, LinksEnd DEF Clear
  <1> HIDE DEF l, m
  <1>4. IsAreaList(m.cells)
    BY <1>1, <1>2, ListMoves DEF Clear
  <1>5. \A i \in 1..Len(links) :
          ~Hit(links[i], dir, num, offset) => Slides(links[i].at, dir, num, offset)
    BY DEF Clear
  <1>6. ~l.panic /\ IsLinked(l.links, l.rels)
    BY <1>1, <1>3, <1>5, LinksMove
  <1> QED
    BY <1>2, <1>3, <1>4, <1>6 DEF l, m

LEMMA AdjustKeeps ==
  ASSUME WorksheetInv, NEW dir \in {"rows", "columns"}, NEW num \in 1..LastLine(dir),
         NEW offset \in {1, -1}, Clear(dir, num, offset),
         NEW h, IsRowList(h), Adjust(h, dir, num, offset)
  PROVE  WorksheetInv'
  <1> DEFINE l == AdjustHyperlinks(links, rels, dir, num, offset)
             m == AdjustMergeCells(merges, dir, num, offset)
             goes == filter # None /\ FilterGoes(filter, dir, num, offset)
             shown == [i \in 1..Len(h) |->
                         IF filter.r1 < i /\ i <= filter.r2 THEN FALSE ELSE h[i]]
  <1>1. ~l.panic /\ ~m.panic /\ IsAreaList(m.cells) /\ IsLinked(l.links, l.rels)
    BY LoopsEnd
  <1>2. filter # None => filter \in Area /\ filter.r1 <= filter.r2 /\ ~(filter.c2 < 1)
    <2> HAVE filter # None
    <2>1. filter \in Area /\ filter.r1 <= filter.r2
      BY DEF WorksheetInv, IsFilter
    <2>2. filter.c2 \in 1..MaxCol
      BY <2>1, AreaFields
    <2> QED
      BY <2>1, <2>2, WorksheetAssumption
  <1>3. IsRowList(shown)
    <2>1. h \in Seq(BOOLEAN) /\ Len(h) \in Nat /\ Len(h) <= MaxRow
      BY DEF IsRowList
    <2>2. \A i \in 1..Len(h) : h[i] \in BOOLEAN
      BY <2>1
    <2>3. shown \in [1..Len(h) -> BOOLEAN]
      <3>1. \A i \in 1..Len(h) :
              (IF filter.r1 < i /\ i <= filter.r2 THEN FALSE ELSE h[i]) \in BOOLEAN
        BY <2>2, Zenon
      <3> QED
        BY <3>1, Zenon
    <2> HIDE DEF shown
    <2>4. shown \in Seq(BOOLEAN) /\ Len(shown) = Len(h)
      BY <2>1, <2>3
    <2> QED
      BY <2>1, <2>4 DEF IsRowList
  <1>4. /\ links' = l.links /\ rels' = l.rels /\ merges' = m.cells
        /\ hidden' = IF goes THEN shown ELSE h
        /\ filter' = IF filter = None \/ goes THEN None
                     ELSE AdjustAutoFilter(filter, dir, num, offset)
        /\ failed' = failed
    BY <1>1, <1>2, Zenon DEF Adjust
  <1> HIDE DEF l, m, shown
  <1>5. IsRowList(hidden')
    BY <1>3, <1>4
  <1>6. IsFilter(filter')
    <2>1. CASE filter = None \/ goes
      BY <1>4, <2>1 DEF IsFilter
    <2>2. CASE ~(filter = None \/ goes)
      <3> DEFINE f == AdjustAutoFilter(filter, dir, num, offset)
      <3>1. f \in Area /\ f.r1 <= f.r2
        BY <1>2, <2>2, FilterMoves DEF Clear
      <3> QED
        BY <1>4, <2>2, <3>1 DEF IsFilter
    <2> QED
      BY <2>1, <2>2
  <1>7. IsAreaList(merges') /\ IsLinked(links', rels') /\ failed' = ""
    BY <1>1, <1>4 DEF WorksheetInv
  <1> QED
    BY <1>5, <1>6, <1>7, Zenon DEF WorksheetInv

-----------------------------------------------------------------------------
(* Inserting into and removing from a sequence.                            *)

\* t is s with e at position i, or without its position i
IsInserted(t, s, i, e) ==
  /\ Len(t) = Len(s) + 1
  /\ \A j \in 1..Len(s) + 1 : t[j] = IF j < i THEN s[j] ELSE IF j = i THEN e ELSE s[j - 1]
IsRemoved(t, s, i) ==
  /\ Len(t) = Len(s) - 1 /\ Len(t) \in Nat
  /\ \A j \in 1..Len(s) - 1 : t[j] = IF j < i THEN s[j] ELSE s[j + 1]

\* where something may go in
IsPlace(i, s) == i \in Nat /\ 1 <= i /\ i <= Len(s) + 1

LEMMA InsertAtIs ==
  ASSUME NEW T, NEW s \in Seq(T), NEW e \in T, NEW i, IsPlace(i, s)
  PROVE  InsertAt(s, i, e) \in Seq(T) /\ IsInserted(InsertAt(s, i, e), s, i, e)
  <1> DEFINE a == SubSeq(s, 1, i - 1)
             b == SubSeq(s, i, Len(s))
             t == InsertAt(s, i, e)
  <1>1. Len(s) \in Nat /\ i \in Nat /\ 1 <= i /\ i <= Len(s) + 1
    BY DEF IsPlace
  <1>2. a \in Seq(T) /\ Len(a) = i - 1 /\ \A j \in 1..i - 1 : a[j] = s[j]
    BY <1>1
  <1>3. b \in Seq(T) /\ Len(b) = Len(s) + 1 - i /\ \A j \in 1..Len(s) + 1 - i : b[j] = s[i + j - 1]
    BY <1>1
  <1>4. t = a \o <<e>> \o b
    BY DEF InsertAt
  <1> HIDE DEF a, b, t
  <1> DEFINE x == a \o <<e>>
  <1>5. x \in Seq(T) /\ Len(x) = i /\ \A j \in 1..i : x[j] = IF j < i THEN a[j] ELSE e
    BY <1>1, <1>2
  <1>6. t = x \o b
    BY <1>4
  <1> HIDE DEF x
  <1>7. t \in Seq(T) /\ Len(t) = Len(s) + 1
    BY <1>1, <1>3, <1>5, <1>6
  <1>8. \A j \in 1..Len(s) + 1 : t[j] = IF j <= i THEN x[j] ELSE b[j - i]
    BY <1>1, <1>3, <1>5, <1>6
  <1>9. ASSUME NEW j \in 1..Len(s) + 1
        PROVE  t[j] = IF j < i THEN s[j] ELSE IF j = i THEN e ELSE s[j - 1]
    <2>1. CASE j < i
      BY <1>1, <1>2, <1>5, <1>8, <2>1
    <2>2. CASE j = i
      BY <1>1, <1>5, <1>8, <2>2
    <2>3. CASE j > i
      <3> DEFINE k == j - i
      <3>1. k \in 1..Len(s) + 1 - i /\ i + k - 1 = j - 1
        BY <1>1, <2>3
      <3>2. t[j] = b[k]
        BY <1>1, <1>8, <2>3
      <3>3. b[k] = s[i + k - 1]
        BY <1>3, <3>1
      <3> QED
        BY <1>1, <2>3, <3>1, <3>2, <3>3
    <2> QED
      BY <1>1, <2>1, <2>2, <2>3
  <1> QED
    BY <1>7, <1>9 DEF t, IsInserted

LEMMA RemoveAtIs ==
  ASSUME NEW T, NEW s \in Seq(T), NEW i \in 1..Len(s)
  PROVE  RemoveAt(s, i) \in Seq(T) /\ IsRemoved(RemoveAt(s, i), s, i)
  <1> DEFINE a == SubSeq(s, 1, i - 1)
             b == SubSeq(s, i + 1, Len(s))
             t == RemoveAt(s, i)
  <1>1. Len(s) \in Nat
    OBVIOUS
  <1>2. a \in Seq(T) /\ Len(a) = i - 1 /\ \A j \in 1..i - 1 : a[j] = s[j]
    BY <1>1
  <1>3. b \in Seq(T) /\ Len(b) = Len(s) - i /\ \A j \in 1..Len(s) - i : b[j] = s[i + j]
    BY <1>1
  <1>4. t = a \o b
    BY DEF RemoveAt
  <1> HIDE DEF a, b, t
  <1>5. t \in Seq(T) /\ Len(t) = Len(s) - 1 /\ Len(t) \in Nat
    <2>1. t \in Seq(T) /\ Len(t) = Len(a) + Len(b)
      BY <1>2, <1>3, <1>4, ConcatProperties
    <2>2. Len(a) + Len(b) = Len(s) - 1
      BY <1>1, <1>2, <1>3
    <2> QED
      BY <1>1, <2>1, <2>2
  <1>6. \A j \in 1..Len(s) - 1 : t[j] = IF j < i THEN a[j] ELSE b[j - (i - 1)]
    <2>1. \A j \in 1..Len(a) + Len(b) : t[j] = IF j <= Len(a) THEN a[j] ELSE b[j - Len(a)]
      BY ONLY <1>2, <1>3, <1>4, ConcatProperties
    <2>2. Len(a) + Len(b) = Len(s) - 1 /\ \A j \in 1..Len(s) - 1 : j <= Len(a) <=> j < i
      BY <1>1, <1>2, <1>3
    <2> QED
      BY ONLY <1>2, <2>1, <2>2
  <1>7. ASSUME NEW j \in 1..Len(s) - 1
        PROVE  t[j] = IF j < i THEN s[j] ELSE s[j + 1]
    <2>1. CASE j < i
      BY <1>1, <1>2, <1>6, <2>1
    <2>2. CASE ~ (j < i)
      <3> DEFINE k == j - (i - 1)
      <3>1. k \in 1..Len(s) - i /\ i + k = j + 1
        BY <1>1, <2>2
      <3>2. t[j] = b[k]
        BY <1>6, <2>2
      <3>3. b[k] = s[i + k]
        BY <1>3, <3>1
      <3> QED
        BY <2>2, <3>1, <3>2, <3>3
    <2> QED
      BY <2>1, <2>2
  <1> QED
    BY <1>5, <1>7 DEF t, IsRemoved

-----------------------------------------------------------------------------
(* The session.                                                            *)

\* what the guards of an insertion and of a removal come to
LEMMA RoomIsClear ==
  ASSUME WorksheetInv, NEW dir \in {"rows", "columns"}, NEW num \in 1..LastLine(dir),
         Room(dir, num)
  PROVE  Clear(dir, num, 1)
  <1>1. IsAreaList(merges)
    BY DEF WorksheetInv
  <1>2. \A i \in 1..Len(merges) : HasRoom(merges[i], dir, num, 1)
    BY DEF Room, HasRoom, Hi, LastLine
  <1>3. \A i \in 1..Len(merges) : ~Single(AdjustMerge(merges[i], dir, num, 1))
    <2> TAKE i \in 1..Len(merges)
    <2>1. merges[i] \in Area /\ Ordered(merges[i]) /\ ~Single(merges[i])
      BY <1>1 DEF IsAreaList
    <2> DEFINE b == AdjustMerge(merges[i], dir, num, 1)
    <2>2. b = AdjustMerge(merges[i], dir, num, 1)
      OBVIOUS
    <2> HIDE DEF b
    <2>3. ~Single(b)
      BY <1>2, <2>1, <2>2, AreaShifts
    <2> QED
      BY <2>2, <2>3
  <1>4. \A i \in 1..Len(links) : ~Hit(links[i], dir, num, 1) /\ Slides(links[i].at, dir, num, 1)
    <2> TAKE i \in 1..Len(links)
    <2>1. ~Hit(links[i], dir, num, 1)
      BY DEF Hit
    <2>2. num <= Spot(links[i].at, dir) => Spot(links[i].at, dir) < LastLine(dir)
      BY DEF Room, Spot, LastLine
    <2> QED
      BY <2>1, <2>2 DEF Slides
  <1>5. FilterKeeps(filter, dir, num, 1)
    BY DEF Room, FilterKeeps, Hi, LastLine
  <1>6. /\ {i \in 1..Len(merges) : Single(AdjustMerge(merges[i], dir, num, 1))} = {}
        /\ {i \in 1..Len(links) : Hit(links[i], dir, num, 1)} = {}
    BY <1>3, <1>4
  <1> QED
    BY <1>2, <1>4, <1>5, <1>6 DEF Clear, DeletesRight

LEMMA RemovalIsClear ==
  ASSUME WorksheetInv, NEW dir \in {"rows", "columns"}, NEW num \in 1..LastLine(dir),
         Removable(dir, num)
  PROVE  Clear(dir, num, -1)
  <1>1. \A i \in 1..Len(merges) : HasRoom(merges[i], dir, num, -1)
    BY DEF HasRoom
  <1>2. \A i \in 1..Len(links) : Hit(links[i], dir, num, -1) <=> OnLine(links[i].at, dir, num)
    BY DEF Hit
  <1>3. \A i \in 1..Len(links) : Hit(links[i], dir, num, -1) \/ Slides(links[i].at, dir, num, -1)
    BY <1>2 DEF OnLine, Slides, Spot
  <1>4. FilterKeeps(filter, dir, num, -1)
    BY DEF FilterKeeps, Removable, FilterKept
  <1>5. ApartIn(merges, dir, num)
    BY DEF Removable, Apart, ApartIn
  <1>6. {i \in 1..Len(links) : Hit(links[i], dir, num, -1)} = LinksOn(dir, num)
    BY <1>2 DEF LinksOn
  <1>7. {i \in 1..Len(merges) : Single(AdjustMerge(merges[i], dir, num, -1))}
        = Collapsing(dir, num)
    BY DEF Collapsing
  <1>8. /\ DeletesRight(Collapsing(dir, num), Len(merges))
        /\ DeletesRight(LinksOn(dir, num), Len(links))
    BY DEF Removable
  <1> QED
    BY <1>1, <1>3, <1>4, <1>5, <1>6, <1>7, <1>8 DEF Clear

LEMMA RowsAre ==
  ASSUME WorksheetInv
  PROVE  hidden \in Seq(BOOLEAN) /\ Len(hidden) \in Nat /\ Len(hidden) <= MaxRow /\ MaxRow \in Nat
  <1>1. IsRowList(hidden)
    BY DEF WorksheetInv
  <1> QED
    BY <1>1, WorksheetAssumption DEF IsRowList

LEMMA GrownIs ==
  ASSUME WorksheetInv, NEW row \in Rows
  PROVE  Grown(row) \in Seq(BOOLEAN) /\ Len(Grown(row)) <= MaxRow /\ row \in 1..Len(Grown(row))
  <1> DEFINE n == IF Len(hidden) < row THEN row ELSE Len(hidden)
  <1>1. hidden \in Seq(BOOLEAN) /\ Len(hidden) \in Nat /\ Len(hidden) <= MaxRow
    BY RowsAre
  <1>2. row \in Nat /\ 1 <= row /\ row <= MaxRow /\ MaxRow \in Nat
    BY WorksheetAssumption DEF Rows
  <1>3. n \in Nat /\ n <= MaxRow /\ row <= n /\ Len(hidden) <= n
    BY <1>1, <1>2
  <1>4. Grown(row) = [i \in 1..n |-> IF i <= Len(hidden) THEN hidden[i] ELSE FALSE]
    BY DEF Grown
  <1>5. \A i \in 1..n : i <= Len(hidden) => hidden[i] \in BOOLEAN
    BY <1>1, <1>3
  <1> HIDE DEF n
  <1>6. Grown(row) \in [1..n -> BOOLEAN]
    <2>1. \A i \in 1..n : (IF i <= Len(hidden) THEN hidden[i] ELSE FALSE) \in BOOLEAN
      BY <1>5, Zenon
    <2> QED
      BY <1>4, <2>1, Zenon
  <1>7. Grown(row) \in Seq(BOOLEAN) /\ Len(Grown(row)) = n
    BY <1>3, <1>6
  <1> QED
    BY <1>2, <1>3, <1>7

LEMMA SetRowVisibleKeeps ==
  ASSUME WorksheetInv, NEW row \in Rows, NEW v \in BOOLEAN, SetRowVisible(row, v)
  PROVE  WorksheetInv'
  <1> DEFINE g == Grown(row)
             b == ~v
  <1>1. g \in Seq(BOOLEAN) /\ Len(g) <= MaxRow /\ row \in 1..Len(g) /\ Len(g) \in Nat
    BY GrownIs
  <1>2. hidden' = [g EXCEPT ![row] = b] /\ UNCHANGED <<merges, links, rels, filter, failed>>
    BY DEF SetRowVisible
  <1>3. b \in BOOLEAN
    OBVIOUS
  <1> HIDE DEF g, b
  <1>4. hidden' \in Seq(BOOLEAN) /\ Len(hidden') = Len(g)
    BY <1>1, <1>2, <1>3
  <1>5. IsRowList(hidden')
    BY <1>1, <1>4 DEF IsRowList
  <1> QED
    BY <1>2, <1>5 DEF WorksheetInv

LEMMA InsertRowKeeps ==
  ASSUME WorksheetInv, NEW row \in Rows, Room("rows", row), InsertRow(row)
  PROVE  WorksheetInv'
  <1> DEFINE no == FALSE
             h == IF row <= Len(hidden) THEN InsertAt(hidden, row, no) ELSE hidden
  <1>1. hidden \in Seq(BOOLEAN) /\ Len(hidden) \in Nat /\ Len(hidden) <= MaxRow /\ MaxRow \in Nat
    BY RowsAre
  <1>2. row \in Nat /\ 1 <= row /\ (row <= Len(hidden) => Len(hidden) < MaxRow)
    BY WorksheetAssumption DEF Rows, Room
  <1>0. no \in BOOLEAN
    OBVIOUS
  <1>4. Adjust(h, "rows", row, 1) /\ row \in 1..LastLine("rows")
    BY DEF InsertRow, LastLine, Rows
  <1> HIDE DEF no
  <1>3. IsRowList(h)
    <2>1. CASE row <= Len(hidden)
      <3>1. IsPlace(row, hidden)
        BY <1>1, <1>2, <2>1 DEF IsPlace
      <3>2. h = InsertAt(hidden, row, no)
        BY <2>1
      <3> HIDE DEF h
      <3>3. h \in Seq(BOOLEAN) /\ Len(h) = Len(hidden) + 1
        BY <1>0, <1>1, <3>1, <3>2, InsertAtIs DEF IsInserted
      <3> QED
        BY <1>1, <1>2, <2>1, <3>3 DEF IsRowList
    <2>2. CASE ~(row <= Len(hidden))
      BY <1>1, <2>2 DEF IsRowList
    <2> QED
      BY <2>1, <2>2
  <1> HIDE DEF h
  <1> QED
    BY <1>3, <1>4, RoomIsClear, AdjustKeeps

LEMMA DuplicateRowToKeeps ==
  ASSUME WorksheetInv, NEW from \in Rows, NEW row \in Rows, Room("rows", row),
         DuplicateRowTo(from, row)
  PROVE  WorksheetInv'
  <1> DEFINE h == InsertAt(hidden, row, hidden[from])
  <1>1. hidden \in Seq(BOOLEAN) /\ Len(hidden) \in Nat /\ Len(hidden) <= MaxRow /\ MaxRow \in Nat
    BY RowsAre
  <1>2. /\ from \in Nat /\ 1 <= from /\ from <= MaxRow /\ row \in Nat /\ 1 <= row /\ row <= MaxRow
        /\ row <= Len(hidden) => Len(hidden) < MaxRow
    BY WorksheetAssumption DEF Rows, Room
  <1>3. from <= Len(hidden) /\ row <= Len(hidden) + 1 /\ Adjust(h, "rows", row, 1)
    BY DEF DuplicateRowTo
  <1>4. IsPlace(row, hidden) /\ hidden[from] \in BOOLEAN
    BY <1>1, <1>2, <1>3 DEF IsPlace
  <1>5. h \in Seq(BOOLEAN) /\ Len(h) = Len(hidden) + 1
    BY <1>1, <1>4, InsertAtIs DEF IsInserted
  <1> HIDE DEF h
  <1>6. IsRowList(h) /\ row \in 1..LastLine("rows")
    BY <1>1, <1>2, <1>3, <1>5 DEF IsRowList, LastLine
  <1> QED
    BY <1>3, <1>6, RoomIsClear, AdjustKeeps

LEMMA RemoveRowKeeps ==
  ASSUME WorksheetInv, NEW row \in Rows, Removable("rows", row), RemoveRow(row)
  PROVE  WorksheetInv'
  <1> DEFINE h == RemoveAt(hidden, row)
  <1>1. hidden \in Seq(BOOLEAN) /\ Len(hidden) \in Nat /\ Len(hidden) <= MaxRow /\ MaxRow \in Nat
    BY RowsAre
  <1>2. row \in 1..Len(hidden) /\ Adjust(h, "rows", row, -1) /\ row \in 1..LastLine("rows")
    BY <1>1 DEF RemoveRow, Rows, LastLine
  <1>3. h \in Seq(BOOLEAN) /\ Len(h) = Len(hidden) - 1
    BY <1>1, <1>2, RemoveAtIs DEF IsRemoved
  <1> HIDE DEF h
  <1>4. IsRowList(h)
    BY <1>1, <1>3 DEF IsRowList
  <1> QED
    BY <1>2, <1>4, RemovalIsClear, AdjustKeeps

LEMMA ColumnsKeep ==
  ASSUME WorksheetInv, NEW col \in Cols
  PROVE  /\ Room("columns", col) /\ InsertCol(col) => WorksheetInv'
         /\ Removable("columns", col) /\ RemoveCol(col) => WorksheetInv'
  <1>1. IsRowList(hidden) /\ col \in 1..LastLine("columns")
    BY DEF WorksheetInv, Cols, LastLine
  <1>2. ASSUME Room("columns", col), InsertCol(col) PROVE WorksheetInv'
    <2>1. Adjust(hidden, "columns", col, 1)
      BY <1>2 DEF InsertCol
    <2> QED
      BY <1>1, <1>2, <2>1, RoomIsClear, AdjustKeeps
  <1>3. ASSUME Removable("columns", col), RemoveCol(col) PROVE WorksheetInv'
    <2>1. Adjust(hidden, "columns", col, -1)
      BY <1>3 DEF RemoveCol
    <2> QED
      BY <1>1, <1>3, <2>1, RemovalIsClear, AdjustKeeps
  <1> QED
    BY <1>2, <1>3

\* what an area that MergeCell adds has in common with the others
LEMMA NewIsDisjoint ==
  ASSUME NEW a, Noticed(a), merges \in Seq(Area), Merged(merges, a) = Append(merges, a)
  PROVE  ~Single(a) /\ Disjoint(a)
  <1> DEFINE Hits(b) == \/ Inside(TopLeft(a), b) \/ Inside(BottomRight(a), b)
                        \/ Inside(TopLeft(b), a) \/ Inside(BottomRight(b), a)
  <1>1. Append(merges, a) # merges
    <2>1. Len(Append(merges, a)) = Len(merges) + 1 /\ Len(merges) \in Nat
      OBVIOUS
    <2> QED
      BY <2>1
  <1>2. Merged(merges, a) = IF Single(a) \/ \E i \in 1..Len(merges) : Hits(merges[i])
                            THEN merges ELSE Append(merges, a)
    BY DEF Merged
  <1>3. ~Single(a) /\ \A i \in 1..Len(merges) : ~Hits(merges[i])
    BY <1>1, <1>2
  <1>4. ASSUME NEW b, ~Hits(b) PROVE Merged(<<b>>, a) # <<b>>
    <2>1. \A i \in 1..Len(<<b>>) : <<b>>[i] = b
      OBVIOUS
    <2>2. Merged(<<b>>, a) = IF Single(a) \/ \E i \in 1..Len(<<b>>) : Hits(<<b>>[i])
                             THEN <<b>> ELSE Append(<<b>>, a)
      BY DEF Merged
    <2> HIDE DEF Hits
    <2>3. Merged(<<b>>, a) = Append(<<b>>, a)
      BY <1>3, <1>4, <2>1, <2>2
    <2>4. Len(Append(<<b>>, a)) = 2 /\ Len(<<b>>) = 1
      OBVIOUS
    <2> QED
      BY <2>3, <2>4
  <1> HIDE DEF Hits
  <1>5. \A i \in 1..Len(merges) : ~Overlap(a, merges[i])
    BY <1>3, <1>4 DEF Noticed
  <1> QED
    BY <1>3, <1>5 DEF Disjoint

LEMMA MergeCellKeeps ==
  ASSUME WorksheetInv, NEW a \in Merges, Noticed(a), MergeCell(a)
  PROVE  WorksheetInv'
  <1> DEFINE q == Append(merges, a)
  <1>1. IsAreaList(merges)
    BY DEF WorksheetInv
  <1>2. a \in Area /\ Ordered(a)
    BY WorksheetAssumption DEF Ordered
  <1>a. merges' = merges \/ (merges' = q /\ Merged(merges, a) = q)
    BY DEF MergeCell, Merged
  <1>3. merges' = merges \/ (merges' = q /\ ~Single(a) /\ Disjoint(a))
    <2>1. merges \in Seq(Area) /\ Noticed(a)
      BY <1>1 DEF IsAreaList
    <2>2. ASSUME merges' = q, Merged(merges, a) = q PROVE ~Single(a) /\ Disjoint(a)
      <3>1. Merged(merges, a) = Append(merges, a)
        BY <2>2
      <3> QED
        BY ONLY <2>1, <3>1, NewIsDisjoint, Zenon
    <2> QED
      BY <1>a, <2>2
  <1>4. ASSUME ~Single(a), Disjoint(a) PROVE IsAreaList(q)
    <2>1. /\ merges \in Seq(Area) /\ Len(merges) \in Nat
          /\ \A i \in 1..Len(merges) : Ordered(merges[i]) /\ ~Single(merges[i])
      BY <1>1 DEF IsAreaList
    <2>2. /\ q \in Seq(Area) /\ Len(q) = Len(merges) + 1 /\ q[Len(merges) + 1] = a
          /\ \A i \in 1..Len(merges) : q[i] = merges[i]
      BY <1>2, <2>1
    <2>3. \A i \in 1..Len(q) : i \in 1..Len(merges) \/ i = Len(merges) + 1
      BY <2>1, <2>2
    <2> HIDE DEF q
    <2>4. \A i \in 1..Len(q) : Ordered(q[i]) /\ ~Single(q[i])
      BY <1>2, <1>4, <2>1, <2>2, <2>3
    <2>5. \A i \in 1..Len(merges) : ~Overlap(merges[i], a)
      BY <1>4 DEF Disjoint, Overlap
    <2>6. \A i, j \in 1..Len(merges) : i # j => ~Overlap(merges[i], merges[j])
      BY <1>1 DEF IsAreaList
    <2>7. \A i, j \in 1..Len(q) : i # j => ~Overlap(q[i], q[j])
      <3> DEFINE n == Len(merges)
      <3>1. \A i \in 1..n : ~Overlap(a, merges[i])
        BY <1>4 DEF Disjoint
      <3> TAKE i, j \in 1..Len(q)
      <3> HAVE i # j
      <3>2. (i \in 1..n \/ i = n + 1) /\ (j \in 1..n \/ j = n + 1)
        BY <2>3
      <3>3. q[n + 1] = a /\ \A x \in 1..n : q[x] = merges[x]
        BY <2>2
      <3> HIDE DEF n
      <3> QED
        BY <2>5, <2>6, <3>1, <3>2, <3>3 DEF n
    <2> QED
      BY <2>2, <2>4, <2>7 DEF IsAreaList
  <1>5. IsAreaList(merges')
    BY <1>1, <1>3, <1>4
  <1> QED
    BY <1>5 DEF WorksheetInv, MergeCell

\* a hyperlink on a cell that has none, with a number that is not taken
LEMMA LinkAdded ==
  ASSUME NEW ls, NEW rs, IsLinked(ls, rs), NEW l \in Link, l.at \in Cols \X Rows,
         \A i \in 1..Len(ls) : ls[i].at # l.at
  PROVE  /\ l.rid = 0 => IsLinked(Append(ls, l), rs)
         /\ \A t \in Targets :
              l.rid # 0 /\ (\A i \in 1..Len(rs) : rs[i].id # l.rid) =>
                IsLinked(Append(ls, l), Append(rs, [id |-> l.rid, target |-> t]))
  <1> DEFINE q == Append(ls, l)
             n == Len(ls) + 1
  <1>1. ls \in Seq(Link) /\ Len(ls) \in Nat /\ rs \in Seq(Rel) /\ Len(rs) \in Nat /\ UniqueIds(rs)
    BY DEF IsLinked
  <1>2. /\ \A i \in 1..Len(ls) : ls[i].at \in Cols \X Rows
        /\ \A i, j \in 1..Len(ls) : ls[i].at = ls[j].at => i = j
    BY DEF IsLinked
  <1>3. \A i, j \in 1..Len(ls) : ls[i].rid = ls[j].rid /\ ls[i].rid # 0 => i = j
    BY DEF IsLinked
  <1>4. \A i \in 1..Len(ls) : ls[i].rid # 0 => \E p \in 1..Len(rs) : rs[p].id = ls[i].rid
    BY DEF IsLinked
  <1>5. \A p \in 1..Len(rs) : \E i \in 1..Len(ls) : ls[i].rid = rs[p].id
    BY DEF IsLinked
  <1>6. /\ q \in Seq(Link) /\ Len(q) = n /\ q[n] = l /\ \A i \in 1..Len(ls) : q[i] = ls[i]
    BY <1>1
  <1>7. (\A i \in 1..Len(q) : i \in 1..Len(ls) \/ i = n) /\ n \in 1..Len(q)
        /\ \A i \in 1..Len(ls) : i \in 1..Len(q)
    BY <1>1, <1>6
  <1> HIDE DEF q, n
  <1>8. /\ \A i \in 1..Len(q) : q[i].at \in Cols \X Rows
        /\ \A i, j \in 1..Len(q) : q[i].at = q[j].at => i = j
    BY <1>2, <1>6, <1>7, Zenon
  <1>9. ASSUME l.rid = 0 PROVE IsLinked(q, rs)
    <2>0. \A i \in 1..Len(q) : q[i].rid # 0 => i \in 1..Len(ls) /\ q[i] = ls[i]
      <3> TAKE i \in 1..Len(q)
      <3>1. CASE i \in 1..Len(ls)
        BY <1>6, <3>1, Zenon
      <3>2. CASE i = n
        BY <1>6, <1>9, <3>2, Zenon
      <3> QED
        BY <1>7, <3>1, <3>2, Zenon
    <2>1. \A i, j \in 1..Len(q) : q[i].rid = q[j].rid /\ q[i].rid # 0 => i = j
      <3> SUFFICES ASSUME NEW i \in 1..Len(q), NEW j \in 1..Len(q), q[i].rid = q[j].rid, q[i].rid # 0
                   PROVE  i = j
        OBVIOUS
      <3>1. i \in 1..Len(ls) /\ q[i] = ls[i] /\ j \in 1..Len(ls) /\ q[j] = ls[j]
        BY <2>0
      <3> QED
        BY <1>3, <3>1
    <2>2. \A i \in 1..Len(q) : q[i].rid # 0 => \E p \in 1..Len(rs) : rs[p].id = q[i].rid
      BY <1>4, <2>0
    <2>3. \A p \in 1..Len(rs) : \E i \in 1..Len(q) : q[i].rid = rs[p].id
      <3> TAKE p \in 1..Len(rs)
      <3>1. PICK i \in 1..Len(ls) : ls[i].rid = rs[p].id
        BY ONLY <1>5, p \in 1..Len(rs)
      <3>2. i \in 1..Len(q) /\ q[i] = ls[i]
        BY ONLY <1>6, <1>7, i \in 1..Len(ls)
      <3> QED
        BY ONLY <3>1, <3>2
    <2> QED
      BY <1>1, <1>6, <1>8, <2>1, <2>2, <2>3, Zenon DEF IsLinked
  <1>10. ASSUME NEW t \in Targets, l.rid # 0, \A i \in 1..Len(rs) : rs[i].id # l.rid
         PROVE  IsLinked(q, Append(rs, [id |-> l.rid, target |-> t]))
    <2> DEFINE x == [id |-> l.rid, target |-> t]
               r == Append(rs, x)
               k == Len(rs) + 1
    <2>1. x \in Rel /\ x.id = l.rid
      BY <1>10 DEF Rel, Link
    <2> HIDE DEF x
    <2>2. r \in Seq(Rel) /\ Len(r) = k /\ r[k] = x /\ \A i \in 1..Len(rs) : r[i] = rs[i]
      BY <1>1, <2>1
    <2>3. (\A i \in 1..Len(r) : i \in 1..Len(rs) \/ i = k) /\ k \in 1..Len(r)
          /\ \A i \in 1..Len(rs) : i \in 1..Len(r)
      BY <1>1, <2>2
    <2> HIDE DEF r, k
    <2>4. \A i, j \in 1..Len(rs) : rs[i].id = rs[j].id => i = j
      BY <1>1 DEF UniqueIds
    <2>5. \A i, j \in 1..Len(r) : r[i].id = r[j].id => i = j
      <3> SUFFICES ASSUME NEW i \in 1..Len(r), NEW j \in 1..Len(r), r[i].id = r[j].id, i # j
                   PROVE  FALSE
        OBVIOUS
      <3>1. CASE i \in 1..Len(rs) /\ j \in 1..Len(rs)
        BY <2>2, <2>4, <3>1
      <3>2. CASE i \in 1..Len(rs) /\ j = k
        BY <1>10, <2>1, <2>2, <3>2
      <3>3. CASE i = k /\ j \in 1..Len(rs)
        BY <1>10, <2>1, <2>2, <3>3
      <3> QED
        BY <2>3, <3>1, <3>2, <3>3
    <2>6. \A i, j \in 1..Len(q) : q[i].rid = q[j].rid /\ q[i].rid # 0 => i = j
      <3>1. \A i \in 1..Len(ls) : ls[i].rid # l.rid
        BY <1>4, <1>10, Zenon
      <3> SUFFICES ASSUME NEW i \in 1..Len(q), NEW j \in 1..Len(q), q[i].rid = q[j].rid, q[i].rid # 0
                   PROVE  i = j
        OBVIOUS
      <3>2. CASE i \in 1..Len(ls) /\ j \in 1..Len(ls)
        BY <1>3, <1>6, <3>2
      <3>3. CASE i = n /\ j \in 1..Len(ls)
        BY <1>6, <3>1, <3>3
      <3>4. CASE i \in 1..Len(ls) /\ j = n
        BY <1>6, <3>1, <3>4
      <3>5. CASE i = n /\ j = n
        BY <3>5
      <3> QED
        BY <1>7, <3>2, <3>3, <3>4, <3>5, Zenon
    <2>7. \A i \in 1..Len(q) : q[i].rid # 0 => \E p \in 1..Len(r) : r[p].id = q[i].rid
      <3> SUFFICES ASSUME NEW i \in 1..Len(q), q[i].rid # 0
                   PROVE  \E p \in 1..Len(r) : r[p].id = q[i].rid
        OBVIOUS
      <3>1. CASE i = n
        BY <1>6, <2>1, <2>2, <2>3, <3>1
      <3>2. CASE i \in 1..Len(ls)
        <4>1. q[i] = ls[i]
          BY <1>6, <3>2
        <4>2. PICK p \in 1..Len(rs) : rs[p].id = ls[i].rid
          BY <1>4, <3>2, <4>1
        <4> QED
          BY <2>2, <2>3, <4>1, <4>2
      <3> QED
        BY <1>7, <3>1, <3>2
    <2>8. \A p \in 1..Len(r) : \E i \in 1..Len(q) : q[i].rid = r[p].id
      <3> TAKE p \in 1..Len(r)
      <3>1. CASE p = k
        BY <1>6, <1>7, <2>1, <2>2, <3>1, Zenon
      <3>2. CASE p \in 1..Len(rs)
        BY <1>5, <1>6, <1>7, <2>2, <3>2
      <3> QED
        BY <2>3, <3>1, <3>2
    <2>9. UniqueIds(r)
      BY <2>5 DEF UniqueIds
    <2>10. IsLinked(q, r)
      BY <1>6, <1>8, <2>2, <2>6, <2>7, <2>8, <2>9, Zenon DEF IsLinked
    <2> QED
      BY <2>10 DEF r, x
  <1> QED
    BY <1>9, <1>10 DEF q

LEMMA SetCellHyperLinkKeeps ==
  ASSUME WorksheetInv, NEW c \in LinkCells, RelsDense, Unlinked(c), NEW t \in Targets,
         NEW external \in BOOLEAN, SetCellHyperLink(c, t, external)
  PROVE  WorksheetInv'
  <1> DEFINE at == Redirect(merges, c)
             id == Len(rels) + 1
             x == [at |-> at, rid |-> id, location |-> None]
             y == [at |-> at, rid |-> 0, location |-> t]
  <1>1. IsAreaList(merges) /\ IsLinked(links, rels) /\ rels \in Seq(Rel) /\ Len(rels) \in Nat
    <2>1. IsAreaList(merges) /\ IsLinked(links, rels)
      BY DEF WorksheetInv
    <2> QED
      BY <2>1 DEF IsLinked
  <1>2. at \in Cols \X Rows
    BY <1>1, RedirectIs, WorksheetAssumption
  <1>3. UNCHANGED <<hidden, merges, filter, failed>>
    BY DEF SetCellHyperLink
  <1>4. \A i \in 1..Len(links) : links[i].at # at
    BY DEF Unlinked
  <1> HIDE DEF at
  <1>5. x \in Link /\ x.at = at /\ x.rid = id /\ id # 0 /\ y \in Link /\ y.at = at /\ y.rid = 0
    BY <1>1, <1>2 DEF Link
  <1>6. \A i \in 1..Len(rels) : rels[i].id # id
    <2> TAKE i \in 1..Len(rels)
    <2>1. rels[i].id <= Len(rels) /\ rels[i] \in Rel
      BY <1>1 DEF RelsDense
    <2>2. rels[i].id \in Nat
      BY <2>1 DEF Rel
    <2> QED
      BY <1>1, <2>1, <2>2
  <1>7. CASE external
    <2>1. links' = Append(links, x) /\ rels' = Append(rels, [id |-> x.rid, target |-> t])
      BY <1>5, <1>7 DEF SetCellHyperLink, at
    <2> HIDE DEF x, id
    <2>2. IsLinked(links', rels')
      BY <1>1, <1>2, <1>4, <1>5, <1>6, <2>1, LinkAdded
    <2> QED
      BY <1>3, <2>2 DEF WorksheetInv
  <1>8. CASE ~external
    <2>1. links' = Append(links, y) /\ rels' = rels
      BY <1>8 DEF SetCellHyperLink, at
    <2> HIDE DEF y
    <2>2. IsLinked(links', rels')
      BY <1>1, <1>2, <1>4, <1>5, <2>1, LinkAdded
    <2> QED
      BY <1>3, <2>2 DEF WorksheetInv
  <1> QED
    BY <1>7, <1>8

LEMMA AutoFilterKeeps ==
  ASSUME WorksheetInv, NEW a \in Filters, AutoFilter(a)
  PROVE  WorksheetInv'
  <1>1. a \in Area /\ a.r1 <= a.r2
    BY WorksheetAssumption
  <1> QED
    BY <1>1 DEF WorksheetInv, AutoFilter, IsFilter

LEMMA WorksheetInit == Init => WorksheetInv
  <1> HAVE Init
  <1>1. filter = None /\ failed = ""
    BY DEF Init
  <1>2. IsRowList(hidden)
    <2>1. hidden = << >>
      BY DEF Init
    <2>2. Len(hidden) = 0 /\ hidden \in Seq(BOOLEAN)
      BY <2>1
    <2> QED
      BY <2>2, WorksheetAssumption DEF IsRowList
  <1>3. IsAreaList(merges)
    <2>1. merges = << >>
      BY DEF Init
    <2>2. merges \in Seq(Area) /\ \A i \in 1..Len(merges) : FALSE
      BY <2>1
    <2> QED
      BY <2>2 DEF IsAreaList
  <1>4. IsLinked(links, rels)
    <2>1. links = << >> /\ rels = << >>
      BY DEF Init
    <2>2. /\ links \in Seq(Link) /\ rels \in Seq(Rel)
          /\ \A i \in 1..Len(links) : FALSE
          /\ \A i \in 1..Len(rels) : FALSE
      BY <2>1
    <2> QED
      BY <2>2, Zenon DEF IsLinked, UniqueIds
  <1> QED
    BY <1>1, <1>2, <1>3, <1>4 DEF WorksheetInv, IsFilter

LEMMA WorksheetNext == WorksheetInv /\ [Next]_vars => WorksheetInv'
  <1> SUFFICES ASSUME WorksheetInv, [Next]_vars PROVE WorksheetInv'
    OBVIOUS
  <1>1. ASSUME NEW row \in Rows, NEW v \in BOOLEAN, SetRowVisible(row, v) PROVE WorksheetInv'
    BY <1>1, SetRowVisibleKeeps
  <1>2. ASSUME NEW row \in Rows, Room("rows", row), InsertRow(row) PROVE WorksheetInv'
    BY <1>2, InsertRowKeeps
  <1>3. ASSUME NEW row \in Rows, Room("rows", row), NEW from \in Rows, DuplicateRowTo(from, row)
        PROVE  WorksheetInv'
    BY <1>3, DuplicateRowToKeeps
  <1>4. ASSUME NEW row \in Rows, Removable("rows", row), RemoveRow(row) PROVE WorksheetInv'
    BY <1>4, RemoveRowKeeps
  <1>5. ASSUME NEW col \in Cols, Room("columns", col), InsertCol(col) PROVE WorksheetInv'
    BY <1>5, ColumnsKeep
  <1>6. ASSUME NEW col \in Cols, Removable("columns", col), RemoveCol(col) PROVE WorksheetInv'
    BY <1>6, ColumnsKeep
  <1>7. ASSUME NEW a \in Merges, Noticed(a), MergeCell(a) PROVE WorksheetInv'
    BY <1>7, MergeCellKeeps
  <1>8. ASSUME NEW c \in LinkCells, RelsDense, Unlinked(c), LinkCall(c) PROVE WorksheetInv'
    BY <1>8, SetCellHyperLinkKeeps DEF LinkCall
  <1>9. ASSUME NEW a \in Filters, AutoFilter(a) PROVE WorksheetInv'
    BY <1>9, AutoFilterKeeps
  <1>10. CASE UNCHANGED vars
    BY <1>10 DEF vars, WorksheetInv
  <1> QED
    BY <1>1, <1>2, <1>3, <1>4, <1>5, <1>6, <1>7, <1>8, <1>9, <1>10, Zenon DEF Next, Calls

-----------------------------------------------------------------------------
(* The theorems.                                                           *)

\* The inductive invariant holds, for every size of the sheet and every
\* bound on areas and hyperlinks.
THEOREM WorksheetInvHolds == Spec => []WorksheetInv
  BY WorksheetInit, WorksheetNext, PTL DEF Spec

\* The lists of rows, areas, hyperlinks and relationships keep their shape
\* under every call of the session: no cell before the first row or column.
THEOREM WorksheetTypeCorrect == Spec => []TypeOK
  <1>1. WorksheetInv => TypeOK
    <2> HAVE WorksheetInv
    <2>1. /\ IsRowList(hidden) /\ IsAreaList(merges) /\ IsLinked(links, rels)
          /\ IsFilter(filter) /\ failed = ""
      BY DEF WorksheetInv
    <2>2. filter \in [c1 : Cols, r1 : Rows, c2 : 0..MaxCol, r2 : Rows] \cup {None}
      <3>1. CASE filter \in Area
        <4>1. filter = [c1 |-> filter.c1, r1 |-> filter.r1, c2 |-> filter.c2, r2 |-> filter.r2]
              /\ filter.c2 \in 0..MaxCol
          BY <3>1, AreaFields, WorksheetAssumption
        <4> QED
          BY <3>1, <4>1 DEF Area
      <3> QED
        BY <2>1, <3>1 DEF IsFilter
    <2> QED
      BY <2>1, <2>2 DEF TypeOK, IsRowList, IsAreaList, IsLinked
  <1> QED
    BY <1>1, WorksheetInvHolds, PTL

\* Where Removable holds of every row and column removed, adjustHelper does not
\* panic in its loops over hyperlinks, relationships and areas, and does not
\* stop before checkSheet: they delete any of one or two elements, and of any
\* number the last or the last but one, without going out of range.  Where
\* they delete more, they may (SpecLoops).
THEOREM AdjustCompletesAlways == Spec => []AdjustCompletes
  <1>1. WorksheetInv => AdjustCompletes
    BY DEF WorksheetInv, AdjustCompletes
  <1> QED
    BY <1>1, WorksheetInvHolds, PTL

\* Merged areas do not come to overlap, however many there are and wherever
\* insertions and removals move them, if none that begins in the line removed
\* follows directly upon another (Apart) and MergeCell notices the areas a new
\* one overlaps (Noticed).  Without the first they do (SpecTouching), and
\* without the second (NewAreaWins).
THEOREM AreasDisjointAlways == Spec => []AreasDisjoint
  <1>1. WorksheetInv => AreasDisjoint
    BY DEF WorksheetInv, AreasDisjoint, IsAreaList
  <1> QED
    BY <1>1, WorksheetInvHolds, PTL

\* The relationships are those of the external hyperlinks, one each, after any
\* removals in which the loop over the hyperlinks deletes what it should: any of
\* one or two, and of more only the last or the last but one (Removable).
THEOREM LinksResolveAlways == Spec => []LinksResolve
  <1>1. WorksheetInv => LinksResolve
    <2> HAVE WorksheetInv
    <2>1. IsLinked(links, rels)
      BY DEF WorksheetInv
    <2>2. rels \in Seq(Rel) /\ UniqueIds(rels)
      BY <2>1 DEF IsLinked
    <2>3. \A i \in 1..Len(links) :
            links[i].rid # 0 => \E p \in 1..Len(rels) : rels[p].id = links[i].rid
      BY <2>1 DEF IsLinked
    <2>4. \A p \in 1..Len(rels) : \E i \in 1..Len(links) : links[i].rid = rels[p].id
      BY <2>1 DEF IsLinked
    <2>5. \A p \in 1..Len(rels) : rels[p].id # 0
      <3> TAKE p \in 1..Len(rels)
      <3>1. rels[p] \in Rel
        BY <2>2
      <3> QED
        BY <3>1 DEF Rel
    <2>6. {links[i].rid : i \in 1..Len(links)} \ {0} = {rels[i].id : i \in 1..Len(rels)}
      BY <2>3, <2>4, <2>5
    <2> QED
      BY <2>2, <2>6 DEF LinksResolve, UniqueIds
  <1> QED
    BY <1>1, WorksheetInvHolds, PTL

-----------------------------------------------------------------------------
(* The session of the overlay: what it adds to that of Spec.               *)

\* what the overlay's session says of the filter
FilterMovable(f, dir, num, offset) ==
  f # None => /\ offset = 1 => (num <= Hi(f, dir) => Hi(f, dir) < LastLine(dir))
              /\ dir = "columns" => f.c1 < num

LEMMA FilterStaysOrdered ==
  ASSUME NEW f \in Area, Ordered(f), f # None, NEW dir \in {"rows", "columns"},
         NEW num \in 1..LastLine(dir), NEW offset \in {1, -1},
         FilterMovable(f, dir, num, offset), ~FilterGoes(f, dir, num, offset)
  PROVE  AdjustAutoFilter(f, dir, num, offset) \in Area
         /\ Ordered(AdjustAutoFilter(f, dir, num, offset))
  <1> DEFINE adjust(v) == IF v >= num THEN v + offset ELSE v
             b == AdjustAutoFilter(f, dir, num, offset)
  <1>1. /\ f.c1 \in 1..MaxCol /\ f.c2 \in 1..MaxCol /\ f.r1 \in 1..MaxRow /\ f.r2 \in 1..MaxRow
        /\ f.c1 <= f.c2 /\ f.r1 <= f.r2 /\ MaxRow \in Nat /\ MaxCol \in Nat
    BY AreaFields, WorksheetAssumption DEF Ordered
  <1>2. CASE dir = "rows"
    <2> DEFINE r1 == adjust(f.r1)
               r2 == adjust(f.r2)
    <2>1. b = [f EXCEPT !.r1 = r1, !.r2 = r2]
      BY <1>2 DEF AdjustAutoFilter
    <2>2. num \in 1..MaxRow /\ (offset = 1 => (num <= f.r2 => f.r2 < MaxRow))
      BY <1>2 DEF FilterMovable, LastLine, Hi
    <2>3. offset = -1 => f.r1 # num
      BY <1>2 DEF FilterGoes
    <2>4. r1 \in 1..MaxRow /\ r2 \in 1..MaxRow /\ r1 <= r2
      <3>1. CASE offset = 1
        BY <1>1, <2>2, <3>1
      <3>2. CASE offset = -1
        BY <1>1, <2>2, <2>3, <3>2
      <3> QED
        BY <3>1, <3>2
    <2> HIDE DEF r1, r2
    <2>5. b = [c1 |-> f.c1, r1 |-> r1, c2 |-> f.c2, r2 |-> r2]
      BY <2>1 DEF Area
    <2> QED
      BY <1>1, <2>4, <2>5 DEF Area, Ordered, Cols, Rows
  <1>3. CASE dir = "columns"
    <2> DEFINE c2 == adjust(f.c2)
    <2>1. b = [f EXCEPT !.c2 = c2]
      BY <1>3 DEF AdjustAutoFilter
    <2>2. num \in 1..MaxCol /\ (offset = 1 => (num <= f.c2 => f.c2 < MaxCol)) /\ f.c1 < num
      BY <1>3 DEF FilterMovable, LastLine, Hi
    <2>3. c2 \in 1..MaxCol /\ f.c1 <= c2
      <3>1. CASE offset = 1
        BY <1>1, <2>2, <3>1
      <3>2. CASE offset = -1
        BY <1>1, <2>2, <3>2
      <3> QED
        BY <3>1, <3>2
    <2> HIDE DEF c2
    <2>4. b = [c1 |-> f.c1, r1 |-> f.r1, c2 |-> c2, r2 |-> f.r2]
      BY <2>1 DEF Area
    <2> QED
      BY <1>1, <2>3, <2>4 DEF Area, Ordered, Cols, Rows
  <1> QED
    BY <1>2, <1>3

FilterOrdered == filter # None => Ordered(filter)

\* every area and the filter move with their cells
Smooth(dir, num, offset) ==
  /\ Clear(dir, num, offset)
  /\ \A i \in 1..Len(merges) : Movable(merges[i], dir, num, offset)
  /\ FilterMovable(filter, dir, num, offset)

LEMMA RoomIsSmooth ==
  ASSUME WorksheetInv, NEW dir \in {"rows", "columns"}, NEW num \in 1..LastLine(dir),
         Room(dir, num), dir = "columns" => RightOfFilter(num)
  PROVE  Smooth(dir, num, 1)
  <1>1. Clear(dir, num, 1)
    BY RoomIsClear
  <1>2. \A i \in 1..Len(merges) : Movable(merges[i], dir, num, 1)
    BY DEF Room, Movable, Fits, Hi, Lo, LastLine
  <1>3. FilterMovable(filter, dir, num, 1)
    BY DEF Room, FilterMovable, Hi, LastLine, RightOfFilter
  <1> QED
    BY <1>1, <1>2, <1>3 DEF Smooth

LEMMA RemovalIsSmooth ==
  ASSUME WorksheetInv, NEW dir \in {"rows", "columns"}, NEW num \in 1..LastLine(dir),
         Removable(dir, num), NoneBegins(dir, num), dir = "columns" => RightOfFilter(num)
  PROVE  Smooth(dir, num, -1)
  <1>1. Clear(dir, num, -1)
    BY RemovalIsClear
  <1>2. \A i \in 1..Len(merges) : Movable(merges[i], dir, num, -1)
    BY DEF NoneBegins, Movable, Fits
  <1>3. FilterMovable(filter, dir, num, -1)
    BY DEF FilterMovable, RightOfFilter
  <1> QED
    BY <1>1, <1>2, <1>3 DEF Smooth

LEMMA FilterKeepsOrder ==
  ASSUME WorksheetInv, FilterOrdered, NEW dir \in {"rows", "columns"},
         NEW num \in 1..LastLine(dir), NEW offset \in {1, -1}, Smooth(dir, num, offset),
         NEW h, Adjust(h, dir, num, offset)
  PROVE  FilterOrdered'
  <1> DEFINE f == AdjustAutoFilter(filter, dir, num, offset)
             goes == filter # None /\ FilterGoes(filter, dir, num, offset)
  <1>1. filter' = filter \/ filter' = None \/ (filter # None /\ ~goes /\ filter' = f)
    BY Zenon DEF Adjust
  <1>2. ASSUME filter # None, ~goes PROVE Ordered(f)
    <2>1. filter \in Area /\ Ordered(filter)
      BY <1>2 DEF WorksheetInv, IsFilter, FilterOrdered
    <2> QED
      BY <1>2, <2>1, FilterStaysOrdered DEF Smooth
  <1> HIDE DEF f
  <1> QED
    BY <1>1, <1>2, Zenon DEF FilterOrdered

-----------------------------------------------------------------------------
(* The overlay a client sees.  Overlay says for each line of the new sheet *)
(* which line of the old one it was; here that is compared with where      *)
(* adjustHelper puts each line.                                            *)

\* the line that line x was
SrcLine(x, num, offset) ==
  IF x < num THEN x ELSE IF offset = 1 THEN (IF x = num THEN 0 ELSE x - 1) ELSE x + 1
Src(lines, num, offset) ==
  IF offset = 1 THEN Abstract!Inserted(lines, num) ELSE Abstract!Removed(lines, num)

LEMMA SrcIs ==
  ASSUME NEW lines, NEW num, NEW offset \in {1, -1}, NEW x \in lines
  PROVE  Src(lines, num, offset)[x] = SrcLine(x, num, offset)
  <1>1. CASE offset = 1
    BY <1>1 DEF Src, SrcLine, Abstract!Inserted
  <1>2. CASE offset = -1
    BY <1>2 DEF Src, SrcLine, Abstract!Removed
  <1> QED
    BY <1>1, <1>2

\* the lines from l to h, when they are the ends of S
LEMMA MinMax ==
  ASSUME NEW S, S \subseteq Int, NEW l \in S, NEW h \in S, \A x \in S : l <= x /\ x <= h
  PROVE  Abstract!Min(S) = l /\ Abstract!Max(S) = h
  <1>1. \A x \in S : (\A y \in S : x <= y) => x = l
    OBVIOUS
  <1>2. \A x \in S : (\A y \in S : x >= y) => x = h
    OBVIOUS
  <1>3. (\A y \in S : l <= y) /\ (\A y \in S : h >= y)
    OBVIOUS
  <1>4. Abstract!Min(S) \in S /\ \A y \in S : Abstract!Min(S) <= y
    BY <1>3 DEF Abstract!Min
  <1>5. Abstract!Max(S) \in S /\ \A y \in S : Abstract!Max(S) >= y
    BY <1>3 DEF Abstract!Max
  <1> QED
    BY <1>1, <1>2, <1>4, <1>5

\* of the lines that come from lo..hi the first is where lo goes, or the line
\* after it where lo is removed, and the last where hi goes
LEMMA LinesFrom ==
  ASSUME NEW max \in Nat, NEW num \in 1..max, NEW offset \in {1, -1},
         NEW lo \in 1..max, NEW hi \in 1..max, lo <= hi, Fits(lo, hi, num, offset, max),
         NEW S, S = Abstract!From(1..max, lo, hi, Src(1..max, num, offset))
  PROVE  /\ S # {} /\ Abstract!Min(S) = Line(lo, num, offset)
         /\ Abstract!Max(S) = Line(hi, num, offset)
  <1>1. S = {x \in 1..max : lo <= SrcLine(x, num, offset) /\ SrcLine(x, num, offset) <= hi}
    <2>1. \A x \in 1..max : Src(1..max, num, offset)[x] = SrcLine(x, num, offset)
      BY SrcIs
    <2>2. S = {x \in 1..max : /\ lo <= Src(1..max, num, offset)[x]
                              /\ Src(1..max, num, offset)[x] <= hi}
      BY DEF Abstract!From
    <2> QED
      BY ONLY <2>1, <2>2
  <1>2. Line(lo, num, offset) \in 1..max /\ Line(hi, num, offset) \in 1..max
    BY LinesMove
  <1>3. ASSUME NEW x \in 1..max, lo <= SrcLine(x, num, offset), SrcLine(x, num, offset) <= hi
        PROVE  Line(lo, num, offset) <= x /\ x <= Line(hi, num, offset)
    <2>1. CASE offset = 1
      BY <1>3, <2>1 DEF SrcLine, Line, Fits
    <2>2. CASE offset = -1
      BY <1>3, <2>2 DEF SrcLine, Line, Fits
    <2> QED
      BY <2>1, <2>2
  <1>4. /\ lo <= SrcLine(Line(lo, num, offset), num, offset)
        /\ SrcLine(Line(lo, num, offset), num, offset) <= hi
        /\ lo <= SrcLine(Line(hi, num, offset), num, offset)
        /\ SrcLine(Line(hi, num, offset), num, offset) <= hi
    <2>1. CASE offset = 1
      BY <2>1 DEF SrcLine, Line, Fits
    <2>2. CASE offset = -1
      BY <2>2 DEF SrcLine, Line, Fits
    <2> QED
      BY <2>1, <2>2
  <1>5. Line(lo, num, offset) \in S /\ Line(hi, num, offset) \in S /\ S \subseteq Int
    BY <1>1, <1>2, <1>4
  <1>6. \A x \in S : Line(lo, num, offset) <= x /\ x <= Line(hi, num, offset)
    BY <1>1, <1>3
  <1> QED
    BY <1>5, <1>6, MinMax

\* lines that stay where they are
LEMMA LinesStay ==
  ASSUME NEW max \in Nat, NEW lo \in 1..max, NEW hi \in 1..max, lo <= hi,
         NEW S, S = Abstract!From(1..max, lo, hi, Abstract!Same(1..max))
  PROVE  S # {} /\ Abstract!Min(S) = lo /\ Abstract!Max(S) = hi
  <1>1. S = {x \in 1..max : lo <= x /\ x <= hi}
    BY DEF Abstract!From, Abstract!Same
  <1>2. lo \in S /\ hi \in S /\ S \subseteq Int /\ \A x \in S : lo <= x /\ x <= hi
    BY <1>1
  <1> QED
    BY <1>2, MinMax

ColSrc(dir, num, offset) == IF dir = "rows" THEN Abstract!Same(Cols) ELSE Src(Cols, num, offset)
RowSrc(dir, num, offset) == IF dir = "rows" THEN Src(Rows, num, offset) ELSE Abstract!Same(Rows)

\* an area goes where its lines go
LEMMA AreaFollows ==
  ASSUME NEW a \in Area, Ordered(a), NEW dir \in {"rows", "columns"}, NEW num \in 1..LastLine(dir),
         NEW offset \in {1, -1}, Movable(a, dir, num, offset),
         NEW cs, cs = ColSrc(dir, num, offset), NEW rs, rs = RowSrc(dir, num, offset)
  PROVE  /\ Abstract!Survives(a, cs, rs)
         /\ Abstract!Moved(a, cs, rs) = AdjustMerge(a, dir, num, offset)
  <1> DEFINE X == Abstract!From(Cols, a.c1, a.c2, cs)
             Y == Abstract!From(Rows, a.r1, a.r2, rs)
  <1>1. /\ a.c1 \in 1..MaxCol /\ a.c2 \in 1..MaxCol /\ a.r1 \in 1..MaxRow /\ a.r2 \in 1..MaxRow
        /\ a.c1 <= a.c2 /\ a.r1 <= a.r2 /\ MaxRow \in Nat /\ MaxCol \in Nat
    BY AreaFields, WorksheetAssumption DEF Ordered
  <1>2. Abstract!Survives(a, cs, rs) <=> X # {} /\ Y # {}
    BY DEF Abstract!Survives, Abstract!Cols, Abstract!Rows, Cols, Rows
  <1>3. Abstract!Moved(a, cs, rs) = [c1 |-> Abstract!Min(X), c2 |-> Abstract!Max(X),
                                     r1 |-> Abstract!Min(Y), r2 |-> Abstract!Max(Y)]
    BY DEF Abstract!Moved, Abstract!Cols, Abstract!Rows, Cols, Rows
  <1> HIDE DEF X, Y
  <1>4. CASE dir = "rows"
    <2>1. X = Abstract!From(1..MaxCol, a.c1, a.c2, Abstract!Same(1..MaxCol))
      BY <1>4 DEF X, ColSrc, Cols
    <2>2. X # {} /\ Abstract!Min(X) = a.c1 /\ Abstract!Max(X) = a.c2
      BY ONLY <1>1, <2>1, LinesStay
    <2>3. Y = Abstract!From(1..MaxRow, a.r1, a.r2, Src(1..MaxRow, num, offset))
      BY <1>4 DEF Y, RowSrc, Rows
    <2>4. num \in 1..MaxRow /\ Fits(a.r1, a.r2, num, offset, MaxRow) /\ offset \in {1, -1}
      BY <1>4 DEF Movable, Lo, Hi, LastLine
    <2>5. /\ Y # {} /\ Abstract!Min(Y) = Line(a.r1, num, offset)
          /\ Abstract!Max(Y) = Line(a.r2, num, offset)
      BY ONLY <1>1, <2>3, <2>4, LinesFrom
    <2>6. AdjustMerge(a, dir, num, offset)
          = [c1 |-> a.c1, r1 |-> Line(a.r1, num, offset), c2 |-> a.c2, r2 |-> Line(a.r2, num, offset)]
      BY <1>4, AdjustMergeIs
    <2> QED
      BY ONLY <1>2, <1>3, <2>2, <2>5, <2>6
  <1>5. CASE dir = "columns"
    <2>1. Y = Abstract!From(1..MaxRow, a.r1, a.r2, Abstract!Same(1..MaxRow))
      BY <1>5 DEF Y, RowSrc, Rows
    <2>2. Y # {} /\ Abstract!Min(Y) = a.r1 /\ Abstract!Max(Y) = a.r2
      BY ONLY <1>1, <2>1, LinesStay
    <2>3. X = Abstract!From(1..MaxCol, a.c1, a.c2, Src(1..MaxCol, num, offset))
      BY <1>5 DEF X, ColSrc, Cols
    <2>4. num \in 1..MaxCol /\ Fits(a.c1, a.c2, num, offset, MaxCol) /\ offset \in {1, -1}
      BY <1>5 DEF Movable, Lo, Hi, LastLine
    <2>5. /\ X # {} /\ Abstract!Min(X) = Line(a.c1, num, offset)
          /\ Abstract!Max(X) = Line(a.c2, num, offset)
      BY ONLY <1>1, <2>3, <2>4, LinesFrom
    <2>6. AdjustMerge(a, dir, num, offset)
          = [c1 |-> Line(a.c1, num, offset), r1 |-> a.r1, c2 |-> Line(a.c2, num, offset), r2 |-> a.r2]
      BY <1>5, AdjustMergeIs
    <2> QED
      BY ONLY <1>2, <1>3, <2>2, <2>5, <2>6
  <1> QED
    BY <1>4, <1>5

\* the set of a list's areas, and of the areas it becomes
AreaSet(m) == {m[i] : i \in 1..Len(m)}
MovedSet(A, cs, rs) ==
  {Abstract!Moved(a, cs, rs) :
     a \in {b \in A : Abstract!Survives(b, cs, rs) /\ ~Abstract!Single(Abstract!Moved(b, cs, rs))}}

LEMMA SingleIs ==
  ASSUME NEW a PROVE Abstract!Single(a) <=> Single(a)
  BY DEF Abstract!Single, Single, TopLeft, BottomRight

LEMMA AreasFollow ==
  ASSUME NEW m, IsAreaList(m), NEW dir \in {"rows", "columns"}, NEW num \in 1..LastLine(dir),
         NEW offset \in {1, -1}, \A i \in 1..Len(m) : Movable(m[i], dir, num, offset),
         NEW q, IsAdjusted(q, m, dir, num, offset),
         NEW cs, cs = ColSrc(dir, num, offset), NEW rs, rs = RowSrc(dir, num, offset)
  PROVE  AreaSet(q) = MovedSet(AreaSet(m), cs, rs)
  <1> DEFINE Adj(a) == AdjustMerge(a, dir, num, offset)
  <1>1. \A i \in 1..Len(m) : /\ Abstract!Survives(m[i], cs, rs)
                             /\ Abstract!Moved(m[i], cs, rs) = Adj(m[i])
    <2> TAKE i \in 1..Len(m)
    <2>1. m[i] \in Area /\ Ordered(m[i]) /\ Movable(m[i], dir, num, offset)
      BY DEF IsAreaList
    <2> QED
      BY <2>1, AreaFollows
  <1>2. PICK k \in [1..Len(q) -> 1..Len(m)] :
          /\ \A j \in 1..Len(q) : q[j] = Adj(m[k[j]]) /\ ~Single(q[j])
          /\ \A i \in 1..Len(m) : Single(Adj(m[i])) \/ \E j \in 1..Len(q) : k[j] = i
    BY Zenon DEF IsAdjusted
  <1> HIDE DEF Adj
  <1>3. ASSUME NEW b \in AreaSet(q) PROVE b \in MovedSet(AreaSet(m), cs, rs)
    <2>1. PICK j \in 1..Len(q) : b = q[j]
      BY DEF AreaSet
    <2>2. k[j] \in 1..Len(m) /\ b = Adj(m[k[j]]) /\ ~Single(b)
      BY <1>2, <2>1
    <2>3. m[k[j]] \in AreaSet(m)
      BY <2>2 DEF AreaSet
    <2>4. /\ Abstract!Survives(m[k[j]], cs, rs) /\ Abstract!Moved(m[k[j]], cs, rs) = b
          /\ ~Abstract!Single(b)
      BY <1>1, <2>2, SingleIs
    <2> QED
      BY ONLY <2>3, <2>4 DEF MovedSet
  <1>4. ASSUME NEW b \in MovedSet(AreaSet(m), cs, rs) PROVE b \in AreaSet(q)
    <2>1. PICK a \in AreaSet(m) : b = Abstract!Moved(a, cs, rs) /\ ~Abstract!Single(b)
      BY DEF MovedSet
    <2>2. PICK i \in 1..Len(m) : a = m[i]
      BY <2>1 DEF AreaSet
    <2>3. b = Adj(m[i]) /\ ~Single(Adj(m[i]))
      BY <1>1, <2>1, <2>2, SingleIs
    <2>4. PICK j \in 1..Len(q) : k[j] = i
      BY <1>2, <2>3
    <2>5. b = q[j]
      BY <1>2, <2>3, <2>4
    <2> QED
      BY <2>5 DEF AreaSet
  <1> QED
    BY <1>3, <1>4

-----------------------------------------------------------------------------
(* What GetCellHyperLink answers.                                          *)

\* the target with the id in a list of relationships, if there is one
IsTarget(rs, id, t) == \E p \in 1..Len(rs) : rs[p].id = id /\ rs[p].target = t

\* what a hyperlink leads to
Answer(rs, l) ==
  LET hit == {i \in 1..Len(rs) : rs[i].id = l.rid}
  IN  IF l.rid = 0 THEN l.location
      ELSE IF hit = {} THEN None
      ELSE rs[CHOOSE i \in hit : \A j \in hit : i <= j].target

\* where no hyperlink is on the cell, and where one is
LEMMA LinkAtIs ==
  ASSUME NEW ls, NEW rs, IsLinked(ls, rs), NEW c
  PROVE  /\ (\A i \in 1..Len(ls) : ls[i].at # c) => LinkAt(ls, rs, c) = None
         /\ \A i \in 1..Len(ls) : ls[i].at = c =>
              /\ ls[i].rid = 0 => LinkAt(ls, rs, c) = ls[i].location
              /\ ls[i].rid # 0 => IsTarget(rs, ls[i].rid, LinkAt(ls, rs, c))
  <1>1. ASSUME \A i \in 1..Len(ls) : ls[i].at # c PROVE LinkAt(ls, rs, c) = None
    BY <1>1 DEF LinkAt
  <1>2. ASSUME NEW i \in 1..Len(ls), ls[i].at = c
        PROVE  /\ ls[i].rid = 0 => LinkAt(ls, rs, c) = ls[i].location
               /\ ls[i].rid # 0 => IsTarget(rs, ls[i].rid, LinkAt(ls, rs, c))
    <2> DEFINE First(n) == ls[n].at = c /\ \A j \in 1..(n - 1) : ls[j].at # c
               n0 == CHOOSE n \in 1..Len(ls) : First(n)
               hit == {p \in 1..Len(rs) : rs[p].id = ls[i].rid}
               p0 == CHOOSE p \in hit : \A j \in hit : p <= j
    <2>1. \A j, k \in 1..Len(ls) : ls[j].at = ls[k].at => j = k
      BY DEF IsLinked
    <2>2. i \in Nat /\ Len(ls) \in Nat /\ i <= Len(ls)
      BY DEF IsLinked
    <2>3. First(i)
      <3>1. \A j \in 1..(i - 1) : j \in 1..Len(ls) /\ j # i
        BY <2>2
      <3> QED
        BY <1>2, <2>1, <3>1
    <2>4. n0 \in 1..Len(ls) /\ First(n0)
      BY <2>3
    <2> HIDE DEF n0
    <2>5. n0 = i
      BY <1>2, <2>1, <2>4
    <2>6. LinkAt(ls, rs, c) = IF ls[i].rid = 0 THEN ls[i].location
                              ELSE IF hit = {} THEN None ELSE rs[p0].target
      <3>1. LinkAt(ls, rs, c) = Answer(rs, ls[n0])
        BY <1>2, Zenon DEF LinkAt, Answer, n0
      <3>2. LinkAt(ls, rs, c) = Answer(rs, ls[i])
        BY ONLY <2>5, <3>1
      <3> QED
        BY <3>2, Zenon DEF Answer
    <2>7. ASSUME ls[i].rid # 0 PROVE IsTarget(rs, ls[i].rid, LinkAt(ls, rs, c))
      <3>1. PICK p \in 1..Len(rs) : rs[p].id = ls[i].rid
        BY <2>7 DEF IsLinked
      <3>2. UniqueIds(rs) /\ rs \in Seq(Rel) /\ Len(rs) \in Nat
        BY DEF IsLinked
      <3>3. p \in hit
        BY <3>1
      <3>4. \A j \in hit : j = p
        BY <3>1, <3>2 DEF UniqueIds
      <3>5. \A j \in hit : p <= j
        <4>1. p \in Nat
          OBVIOUS
        <4> QED
          BY ONLY <3>4, <4>1
      <3> HIDE DEF hit
      <3>6. p0 \in hit
        BY <3>3, <3>5
      <3> HIDE DEF p0
      <3>7. LinkAt(ls, rs, c) = rs[p].target
        BY <2>6, <2>7, <3>3, <3>4, <3>6
      <3> QED
        BY <3>1, <3>7 DEF IsTarget
    <2> QED
      BY <2>6, <2>7
  <1> QED
    BY <1>1, <1>2

LEMMA OneTarget ==
  ASSUME NEW rs, UniqueIds(rs), NEW id, NEW s, NEW t, IsTarget(rs, id, s), IsTarget(rs, id, t)
  PROVE  s = t
  BY DEF IsTarget, UniqueIds

\* where a line that may move goes and where one comes from are inverse
LEMMA LinesInverse ==
  ASSUME NEW max \in Nat, NEW num \in 1..max, NEW offset \in {1, -1}, NEW y \in 1..max
  PROVE  /\ \A x \in 1..max :
              /\ offset = 1 => (num <= x => x < max)
              /\ offset = -1 => x # num
              /\ Line(x, num, offset) = y
              => SrcLine(y, num, offset) = x
         /\ SrcLine(y, num, offset) \in 1..max =>
              /\ Line(SrcLine(y, num, offset), num, offset) = y
              /\ offset = 1 => (num <= SrcLine(y, num, offset) => SrcLine(y, num, offset) < max)
              /\ offset = -1 => SrcLine(y, num, offset) # num
  <1>1. CASE offset = 1
    BY <1>1 DEF SrcLine, Line
  <1>2. CASE offset = -1
    BY <1>2 DEF SrcLine, Line
  <1> QED
    BY <1>1, <1>2

\* the cell that cell c was
SrcCell(c, dir, num, offset) == <<ColSrc(dir, num, offset)[c[1]], RowSrc(dir, num, offset)[c[2]]>>

LEMMA SrcCellIs ==
  ASSUME NEW c \in Cols \X Rows, NEW dir \in {"rows", "columns"}, NEW num, NEW offset \in {1, -1}
  PROVE  /\ dir = "rows" => SrcCell(c, dir, num, offset) = <<c[1], SrcLine(c[2], num, offset)>>
         /\ dir = "columns" => SrcCell(c, dir, num, offset) = <<SrcLine(c[1], num, offset), c[2]>>
  <1>1. c[1] \in Cols /\ c[2] \in Rows
    OBVIOUS
  <1>2. CASE dir = "rows"
    <2>1. ColSrc(dir, num, offset)[c[1]] = c[1]
      BY <1>1, <1>2 DEF ColSrc, Abstract!Same
    <2>2. RowSrc(dir, num, offset)[c[2]] = SrcLine(c[2], num, offset)
      BY <1>1, <1>2, SrcIs DEF RowSrc
    <2> QED
      BY <1>2, <2>1, <2>2 DEF SrcCell
  <1>3. CASE dir = "columns"
    <2>1. RowSrc(dir, num, offset)[c[2]] = c[2]
      BY <1>1, <1>3 DEF RowSrc, Abstract!Same
    <2>2. ColSrc(dir, num, offset)[c[1]] = SrcLine(c[1], num, offset)
      BY <1>1, <1>3, SrcIs DEF ColSrc
    <2> QED
      BY <1>3, <2>1, <2>2 DEF SrcCell
  <1> QED
    BY <1>2, <1>3

LEMMA CellsInverse ==
  ASSUME NEW c \in Cols \X Rows, NEW dir \in {"rows", "columns"}, NEW num \in 1..LastLine(dir),
         NEW offset \in {1, -1}, NEW o, o = SrcCell(c, dir, num, offset)
  PROVE  /\ \A d \in Cols \X Rows :
              Slides(d, dir, num, offset) /\ Slid(d, dir, num, offset) = c => o = d
         /\ o \in Cols \X Rows => /\ Slid(o, dir, num, offset) = c
                                  /\ Slides(o, dir, num, offset)
  <1>1. c = <<c[1], c[2]>> /\ c[1] \in 1..MaxCol /\ c[2] \in 1..MaxRow
    BY DEF Cols, Rows
  <1>2. MaxRow \in Nat /\ MaxCol \in Nat
    BY WorksheetAssumption
  <1>3. CASE dir = "rows"
    <2> DEFINE y == c[2]
               z == SrcLine(y, num, offset)
    <2>1. num \in 1..MaxRow /\ o = <<c[1], z>>
      BY <1>3, SrcCellIs DEF LastLine
    <2>2. /\ \A x \in 1..MaxRow :
               /\ offset = 1 => (num <= x => x < MaxRow)
               /\ offset = -1 => x # num
               /\ Line(x, num, offset) = y
               => z = x
          /\ z \in 1..MaxRow =>
               /\ Line(z, num, offset) = y
               /\ offset = 1 => (num <= z => z < MaxRow)
               /\ offset = -1 => z # num
      BY <1>1, <1>2, <2>1, LinesInverse
    <2> HIDE DEF y, z
    <2>3. ASSUME NEW d \in Cols \X Rows, Slides(d, dir, num, offset), Slid(d, dir, num, offset) = c
          PROVE  o = d
      <3>1. d = <<d[1], d[2]>> /\ d[2] \in 1..MaxRow
        BY DEF Rows
      <3>2. d[1] = c[1] /\ Line(d[2], num, offset) = y
        BY <1>1, <1>3, <2>3 DEF Slid, y
      <3>3. (offset = 1 => (num <= d[2] => d[2] < MaxRow)) /\ (offset = -1 => d[2] # num)
        BY <1>3, <2>3 DEF Slides, Spot, LastLine
      <3>4. z = d[2]
        BY <2>2, <3>1, <3>2, <3>3
      <3> QED
        BY <2>1, <3>1, <3>2, <3>4
    <2>4. ASSUME o \in Cols \X Rows
          PROVE  Slid(o, dir, num, offset) = c /\ Slides(o, dir, num, offset)
      <3>1. o[1] = c[1] /\ o[2] = z /\ z \in 1..MaxRow
        BY <2>1, <2>4 DEF Rows
      <3>2. Slid(o, dir, num, offset) = <<o[1], Line(o[2], num, offset)>>
        BY <1>3 DEF Slid
      <3>3. Slid(o, dir, num, offset) = c
        BY <1>1, <2>2, <3>1, <3>2 DEF y
      <3>4. Slides(o, dir, num, offset)
        BY <1>3, <2>2, <3>1 DEF Slides, Spot, LastLine
      <3> QED
        BY <3>3, <3>4
    <2> QED
      BY <2>3, <2>4
  <1>4. CASE dir = "columns"
    <2> DEFINE y == c[1]
               z == SrcLine(y, num, offset)
    <2>1. num \in 1..MaxCol /\ o = <<z, c[2]>>
      BY <1>4, SrcCellIs DEF LastLine
    <2>2. /\ \A x \in 1..MaxCol :
               /\ offset = 1 => (num <= x => x < MaxCol)
               /\ offset = -1 => x # num
               /\ Line(x, num, offset) = y
               => z = x
          /\ z \in 1..MaxCol =>
               /\ Line(z, num, offset) = y
               /\ offset = 1 => (num <= z => z < MaxCol)
               /\ offset = -1 => z # num
      BY <1>1, <1>2, <2>1, LinesInverse
    <2> HIDE DEF y, z
    <2>3. ASSUME NEW d \in Cols \X Rows, Slides(d, dir, num, offset), Slid(d, dir, num, offset) = c
          PROVE  o = d
      <3>1. d = <<d[1], d[2]>> /\ d[1] \in 1..MaxCol
        BY DEF Cols
      <3>2. d[2] = c[2] /\ Line(d[1], num, offset) = y
        BY <1>1, <1>4, <2>3 DEF Slid, y
      <3>3. (offset = 1 => (num <= d[1] => d[1] < MaxCol)) /\ (offset = -1 => d[1] # num)
        BY <1>4, <2>3 DEF Slides, Spot, LastLine
      <3>4. z = d[1]
        BY <2>2, <3>1, <3>2, <3>3
      <3> QED
        BY <2>1, <3>1, <3>2, <3>4
    <2>4. ASSUME o \in Cols \X Rows
          PROVE  Slid(o, dir, num, offset) = c /\ Slides(o, dir, num, offset)
      <3>1. o[2] = c[2] /\ o[1] = z /\ z \in 1..MaxCol
        BY <2>1, <2>4 DEF Cols
      <3>2. Slid(o, dir, num, offset) = <<Line(o[1], num, offset), o[2]>>
        BY <1>4 DEF Slid
      <3>3. Slid(o, dir, num, offset) = c
        BY <1>1, <2>2, <3>1, <3>2 DEF y
      <3>4. Slides(o, dir, num, offset)
        BY <1>4, <2>2, <3>1 DEF Slides, Spot, LastLine
      <3> QED
        BY <3>3, <3>4
    <2> QED
      BY <2>3, <2>4
  <1> QED
    BY <1>3, <1>4

\* which hyperlink each of the new list was, and which are left
LEMMA RelinkedIs ==
  ASSUME NEW ls, NEW rs, IsLinked(ls, rs), NEW dir \in {"rows", "columns"},
         NEW num \in 1..LastLine(dir), NEW offset \in {1, -1},
         \A i \in 1..Len(ls) : ~Hit(ls[i], dir, num, offset) => Slides(ls[i].at, dir, num, offset),
         NEW R, IsRelinked(R, ls, rs, dir, num, offset)
  PROVE  /\ RelSet(R.rels) \subseteq RelSet(rs)
         /\ \A j \in 1..Len(R.links) : \E i \in 1..Len(ls) :
              /\ Slides(ls[i].at, dir, num, offset)
              /\ R.links[j].at = Slid(ls[i].at, dir, num, offset)
         /\ \A i \in 1..Len(ls) : ~Hit(ls[i], dir, num, offset) =>
              \E j \in 1..Len(R.links) :
                /\ R.links[j].at = Slid(ls[i].at, dir, num, offset)
                /\ R.links[j].rid = ls[i].rid /\ R.links[j].location = ls[i].location
  <1>1. PICK rest, r :
          /\ rest \in Seq(Link) /\ IsSpared(rest, ls, dir, num, offset)
          /\ IsReleased(r, rs, ls, dir, num, offset)
          /\ R = Links(Shifted(rest, dir, num, offset), r)
    BY Zenon DEF IsRelinked
  <1>2. PICK k \in [1..Len(rest) -> 1..Len(ls)] :
          /\ \A j \in 1..Len(rest) : rest[j] = ls[k[j]] /\ ~Hit(rest[j], dir, num, offset)
          /\ \A i \in 1..Len(ls) : \/ Hit(ls[i], dir, num, offset)
                                   \/ \E j \in 1..Len(rest) : k[j] = i
    BY <1>1, Zenon DEF IsSpared
  <1> DEFINE q == Shifted(rest, dir, num, offset)
  <1>3. R.links = q /\ R.rels = r
    BY <1>1 DEF Links
  <1>4. \A i \in 1..Len(ls) : ls[i].at \in Cols \X Rows
    BY DEF IsLinked
  <1>5. \A j \in 1..Len(rest) :
          /\ k[j] \in 1..Len(ls) /\ rest[j] = ls[k[j]] /\ rest[j] \in Link
          /\ rest[j].at \in Cols \X Rows /\ Slides(rest[j].at, dir, num, offset)
    <2> TAKE j \in 1..Len(rest)
    <2>1. rest[j] \in Link
      BY ONLY <1>1, j \in 1..Len(rest)
    <2>2. k[j] \in 1..Len(ls) /\ rest[j] = ls[k[j]] /\ ~Hit(rest[j], dir, num, offset)
      BY ONLY <1>2, j \in 1..Len(rest)
    <2>3. Slides(ls[k[j]].at, dir, num, offset)
      BY <2>2
    <2> QED
      BY ONLY <1>4, <2>1, <2>2, <2>3
  <1>6. \A j \in 1..Len(rest) :
          /\ AdjustLink(rest[j], dir, num, offset) \in Link
          /\ AdjustLink(rest[j], dir, num, offset).at = Slid(rest[j].at, dir, num, offset)
          /\ AdjustLink(rest[j], dir, num, offset).rid = rest[j].rid
          /\ AdjustLink(rest[j], dir, num, offset).location = rest[j].location
    BY <1>5, LinkSlides
  <1>7. /\ Len(q) = Len(rest)
        /\ \A j \in 1..Len(rest) : q[j] = AdjustLink(rest[j], dir, num, offset)
    BY <1>1, <1>6 DEF Shifted
  <1> HIDE DEF q
  <1>8. RelSet(r) \subseteq RelSet(rs)
    BY <1>1, Zenon DEF IsReleased
  <1>9. ASSUME NEW j \in 1..Len(q)
        PROVE  \E i \in 1..Len(ls) : /\ Slides(ls[i].at, dir, num, offset)
                                     /\ q[j].at = Slid(ls[i].at, dir, num, offset)
    <2>1. j \in 1..Len(rest)
      BY ONLY <1>7, j \in 1..Len(q)
    <2>2. k[j] \in 1..Len(ls) /\ rest[j] = ls[k[j]] /\ Slides(rest[j].at, dir, num, offset)
      BY ONLY <1>5, <2>1
    <2>3. q[j].at = Slid(rest[j].at, dir, num, offset)
      BY ONLY <1>6, <1>7, <2>1
    <2> QED
      BY ONLY <2>2, <2>3
  <1>10. ASSUME NEW i \in 1..Len(ls), ~Hit(ls[i], dir, num, offset)
         PROVE  \E j \in 1..Len(q) : /\ q[j].at = Slid(ls[i].at, dir, num, offset)
                                     /\ q[j].rid = ls[i].rid /\ q[j].location = ls[i].location
    <2>1. PICK j \in 1..Len(rest) : k[j] = i
      BY <1>2, <1>10
    <2>2. j \in 1..Len(q) /\ rest[j] = ls[i] /\ q[j] = AdjustLink(rest[j], dir, num, offset)
      BY ONLY <1>5, <1>7, <2>1
    <2>3. /\ q[j].at = Slid(ls[i].at, dir, num, offset)
          /\ q[j].rid = ls[i].rid /\ q[j].location = ls[i].location
      BY ONLY <1>6, <2>1, <2>2
    <2> QED
      BY ONLY <2>2, <2>3
  <1> QED
    BY <1>3, <1>8, <1>9, <1>10

\* every cell answers with the hyperlink of the cell it was
LEMMA LinksFollow ==
  ASSUME NEW ls, NEW rs, IsLinked(ls, rs), NEW dir \in {"rows", "columns"},
         NEW num \in 1..LastLine(dir), NEW offset \in {1, -1},
         \A i \in 1..Len(ls) : ~Hit(ls[i], dir, num, offset) => Slides(ls[i].at, dir, num, offset),
         NEW R, IsRelinked(R, ls, rs, dir, num, offset),
         NEW c \in Cols \X Rows, NEW o, o = SrcCell(c, dir, num, offset)
  PROVE  LinkAt(R.links, R.rels, c) = IF o \in Cols \X Rows THEN LinkAt(ls, rs, o) ELSE None
  <1> DEFINE q == R.links
             r == R.rels
  <1>1. IsLinked(q, r)
    BY LinksMove
  <1>2. /\ RelSet(r) \subseteq RelSet(rs)
        /\ \A j \in 1..Len(q) : \E i \in 1..Len(ls) :
             /\ Slides(ls[i].at, dir, num, offset)
             /\ q[j].at = Slid(ls[i].at, dir, num, offset)
        /\ \A i \in 1..Len(ls) : ~Hit(ls[i], dir, num, offset) =>
             \E j \in 1..Len(q) :
               /\ q[j].at = Slid(ls[i].at, dir, num, offset)
               /\ q[j].rid = ls[i].rid /\ q[j].location = ls[i].location
    BY RelinkedIs
  <1> HIDE DEF q, r
  <1>3. /\ \A d \in Cols \X Rows :
             Slides(d, dir, num, offset) /\ Slid(d, dir, num, offset) = c => o = d
        /\ o \in Cols \X Rows => Slid(o, dir, num, offset) = c /\ Slides(o, dir, num, offset)
    BY CellsInverse
  <1>4. \A i \in 1..Len(ls) : ls[i].at \in Cols \X Rows
    BY DEF IsLinked
  <1>5. CASE \E i \in 1..Len(ls) : ls[i].at = o
    <2>1. PICK i \in 1..Len(ls) : ls[i].at = o
      BY <1>5
    <2>2. o \in Cols \X Rows /\ Slid(o, dir, num, offset) = c /\ Slides(o, dir, num, offset)
      BY <1>3, <1>4, <2>1
    <2>3. ~Hit(ls[i], dir, num, offset)
      BY <2>1, <2>2 DEF Hit, OnLine, Slides, Spot
    <2>4. PICK j \in 1..Len(q) : /\ q[j].at = c /\ q[j].rid = ls[i].rid
                                 /\ q[j].location = ls[i].location
      BY <1>2, <2>1, <2>2, <2>3
    <2>5. /\ ls[i].rid = 0 => LinkAt(ls, rs, o) = ls[i].location
          /\ ls[i].rid # 0 => IsTarget(rs, ls[i].rid, LinkAt(ls, rs, o))
      BY <2>1, LinkAtIs
    <2>6. /\ ls[i].rid = 0 => LinkAt(q, r, c) = ls[i].location
          /\ ls[i].rid # 0 => IsTarget(r, ls[i].rid, LinkAt(q, r, c))
      BY <1>1, <2>4, LinkAtIs
    <2>7. ASSUME ls[i].rid # 0 PROVE LinkAt(q, r, c) = LinkAt(ls, rs, o)
      <3>1. PICK p \in 1..Len(r) : r[p].id = ls[i].rid /\ r[p].target = LinkAt(q, r, c)
        BY <2>6, <2>7 DEF IsTarget
      <3>2. r[p] \in RelSet(rs)
        BY <1>2, <3>1 DEF RelSet
      <3>3. IsTarget(rs, ls[i].rid, LinkAt(q, r, c))
        BY <3>1, <3>2 DEF IsTarget, RelSet
      <3>4. UniqueIds(rs)
        BY DEF IsLinked
      <3> QED
        BY <2>5, <2>7, <3>3, <3>4, OneTarget
    <2> QED
      BY <2>2, <2>5, <2>6, <2>7 DEF q, r
  <1>6. CASE ~\E i \in 1..Len(ls) : ls[i].at = o
    <2>1. LinkAt(ls, rs, o) = None
      BY <1>6, LinkAtIs
    <2>2. \A j \in 1..Len(q) : q[j].at # c
      BY <1>2, <1>3, <1>4, <1>6
    <2>3. LinkAt(q, r, c) = None
      BY <1>1, <2>2, LinkAtIs
    <2> QED
      BY <2>1, <2>3 DEF q, r
  <1> QED
    BY <1>5, <1>6

-----------------------------------------------------------------------------
(* The filter and the hidden rows.                                         *)

\* the row with the headings of the filter is gone
Headless(f, rs) == f # None /\ \A r \in Rows : rs[r] # f.r1

LEMMA RowsPut ==
  ASSUME NEW f \in Area, NEW r1, NEW r2
  PROVE  [f EXCEPT !.r1 = r1, !.r2 = r2] = [c1 |-> f.c1, r1 |-> r1, c2 |-> f.c2, r2 |-> r2]
  <1> DEFINE g == [f EXCEPT !.r1 = r1]
  <1>1. g = [c1 |-> f.c1, r1 |-> r1, c2 |-> f.c2, r2 |-> f.r2]
    BY DEF Area
  <1> HIDE DEF g
  <1>2. [g EXCEPT !.r2 = r2] = [c1 |-> f.c1, r1 |-> r1, c2 |-> f.c2, r2 |-> r2]
    BY ONLY <1>1
  <1> QED
    BY <1>2 DEF g

LEMMA FilterFollows ==
  ASSUME NEW f \in Area, Ordered(f), f # None, NEW dir \in {"rows", "columns"},
         NEW num \in 1..LastLine(dir), NEW offset \in {1, -1}, FilterMovable(f, dir, num, offset),
         NEW cs, cs = ColSrc(dir, num, offset), NEW rs, rs = RowSrc(dir, num, offset)
  PROVE  /\ FilterGoes(f, dir, num, offset) <=> Headless(f, rs)
         /\ ~FilterGoes(f, dir, num, offset) =>
              /\ Abstract!Survives(f, cs, rs)
              /\ Abstract!Moved(f, cs, rs) = AdjustAutoFilter(f, dir, num, offset)
  <1>1. /\ f.c1 \in 1..MaxCol /\ f.c2 \in 1..MaxCol /\ f.r1 \in 1..MaxRow /\ f.r2 \in 1..MaxRow
        /\ f.c1 <= f.c2 /\ f.r1 <= f.r2 /\ MaxRow \in Nat /\ MaxCol \in Nat
    BY AreaFields, WorksheetAssumption DEF Ordered
  <1>a. f = [c1 |-> f.c1, r1 |-> f.r1, c2 |-> f.c2, r2 |-> f.r2]
    BY AreaFields
  <1>2. CASE dir = "rows"
    <2>1. num \in 1..MaxRow /\ (offset = 1 => (num <= f.r2 => f.r2 < MaxRow))
      BY <1>2 DEF LastLine, FilterMovable, Hi
    <2>2. FilterGoes(f, dir, num, offset) <=> f.r1 = num /\ offset = -1
      BY <1>2 DEF FilterGoes
    <2>3. \A r \in Rows : rs[r] = SrcLine(r, num, offset)
      BY <1>2, SrcIs DEF RowSrc
    <2>4. ASSUME f.r1 = num, offset = -1 PROVE Headless(f, rs)
      <3> SUFFICES ASSUME NEW r \in Rows PROVE rs[r] # f.r1
        BY DEF Headless
      <3>1. SrcLine(r, num, offset) # num
        BY <1>1, <2>1, <2>4 DEF SrcLine, Rows
      <3> QED
        BY <2>3, <2>4, <3>1
    <2>5. ASSUME ~(f.r1 = num /\ offset = -1) PROVE ~Headless(f, rs)
      <3>1. Line(f.r1, num, offset) \in 1..MaxRow
        BY <1>1, <2>1, <2>5 DEF Line
      <3>2. SrcLine(Line(f.r1, num, offset), num, offset) = f.r1
        BY <1>1, <2>1, <2>5 DEF Line, SrcLine
      <3> QED
        BY <2>3, <3>1, <3>2 DEF Headless, Rows
    <2>6. ASSUME ~(f.r1 = num /\ offset = -1)
          PROVE  /\ Abstract!Survives(f, cs, rs)
                 /\ Abstract!Moved(f, cs, rs) = AdjustAutoFilter(f, dir, num, offset)
      <3> DEFINE r1 == IF f.r1 >= num THEN f.r1 + offset ELSE f.r1
                 r2 == IF f.r2 >= num THEN f.r2 + offset ELSE f.r2
      <3>1. Movable(f, dir, num, offset)
        BY <1>2, <2>1, <2>6 DEF Movable, Fits, Lo, Hi, LastLine
      <3>2. AdjustMerge(f, dir, num, offset)
            = [c1 |-> f.c1, r1 |-> Line(f.r1, num, offset), c2 |-> f.c2, r2 |-> Line(f.r2, num, offset)]
        BY <1>2, AdjustMergeIs
      <3>3. Line(f.r1, num, offset) = r1 /\ Line(f.r2, num, offset) = r2
        BY <1>1, <2>1, <2>6 DEF Line
      <3>4. AdjustAutoFilter(f, dir, num, offset) = [f EXCEPT !.r1 = r1, !.r2 = r2]
        BY <1>2 DEF AdjustAutoFilter
      <3> HIDE DEF r1, r2
      <3>5. [f EXCEPT !.r1 = r1, !.r2 = r2] = [c1 |-> f.c1, r1 |-> r1, c2 |-> f.c2, r2 |-> r2]
        BY RowsPut
      <3>6. AdjustMerge(f, dir, num, offset) = AdjustAutoFilter(f, dir, num, offset)
        BY ONLY <3>2, <3>3, <3>4, <3>5
      <3> QED
        BY <3>1, <3>6, AreaFollows
    <2> QED
      BY <2>2, <2>4, <2>5, <2>6
  <1>3. CASE dir = "columns"
    <2>1. /\ num \in 1..MaxCol /\ f.c1 < num
          /\ offset = 1 => (num <= f.c2 => f.c2 < MaxCol)
      BY <1>3 DEF LastLine, FilterMovable, Hi
    <2>2. ~FilterGoes(f, dir, num, offset)
      BY <1>1, <1>3, <2>1 DEF FilterGoes
    <2>3. rs[f.r1] = f.r1 /\ f.r1 \in Rows
      BY <1>1, <1>3 DEF RowSrc, Abstract!Same, Rows
    <2>4. ~Headless(f, rs)
      BY <2>3 DEF Headless
    <2> DEFINE c2 == IF f.c2 >= num THEN f.c2 + offset ELSE f.c2
    <2>5. Movable(f, dir, num, offset)
      BY <1>1, <1>3, <2>1 DEF Movable, Fits, Lo, Hi, LastLine
    <2>6. AdjustMerge(f, dir, num, offset)
          = [c1 |-> Line(f.c1, num, offset), r1 |-> f.r1, c2 |-> Line(f.c2, num, offset), r2 |-> f.r2]
      BY <1>3, AdjustMergeIs
    <2>7. Line(f.c1, num, offset) = f.c1 /\ Line(f.c2, num, offset) = c2
      BY <1>1, <2>1 DEF Line
    <2>8. AdjustAutoFilter(f, dir, num, offset) = [f EXCEPT !.c2 = c2]
      BY <1>3 DEF AdjustAutoFilter
    <2> HIDE DEF c2
    <2>9. [f EXCEPT !.c2 = c2] = [c1 |-> f.c1, r1 |-> f.r1, c2 |-> c2, r2 |-> f.r2]
      BY DEF Area
    <2>10. AdjustMerge(f, dir, num, offset) = AdjustAutoFilter(f, dir, num, offset)
      BY ONLY <2>6, <2>7, <2>8, <2>9
    <2> QED
      BY <2>2, <2>4, <2>5, <2>10, AreaFollows
  <1> QED
    BY <1>2, <1>3

HiddenSet(h) == {i \in 1..Len(h) : h[i]}
Targeted(ls, rs) == [c \in Cols \X Rows |-> LinkAt(ls, rs, c)]

\* what a client sees
Overlaid(h, m, ls, rs, f) ==
  [areas |-> AreaSet(m), target |-> Targeted(ls, rs), filter |-> f, hidden |-> HiddenSet(h)]

\* the parts of a sheet that has been moved
TargetFrom(T, cs, rs) ==
  [c \in Cols \X Rows |-> LET old == <<cs[c[1]], rs[c[2]]>>
                          IN  IF old \in Cols \X Rows THEN T[old] ELSE None]
FilterFrom(f, cs, rs) ==
  IF f = None \/ Headless(f, rs) THEN None
  ELSE IF Abstract!Survives(f, cs, rs) THEN Abstract!Moved(f, cs, rs) ELSE None
HiddenFrom(H, f, rs, copied) ==
  {r \in Rows : rs[r] \in H \ (IF Headless(f, rs) THEN (f.r1 + 1)..f.r2 ELSE {})} \cup copied

LEMMA MoveIs ==
  ASSUME NEW A, NEW T, NEW f, NEW H, NEW cs, NEW rs, NEW copied
  PROVE  Abstract!Move([areas |-> A, target |-> T, filter |-> f, hidden |-> H], cs, rs, copied)
         = [areas |-> MovedSet(A, cs, rs), target |-> TargetFrom(T, cs, rs),
            filter |-> FilterFrom(f, cs, rs), hidden |-> HiddenFrom(H, f, rs, copied)]
  BY DEF Abstract!Move, MovedSet, TargetFrom, FilterFrom, HiddenFrom, Headless,
         Abstract!Cols, Abstract!Rows, Cols, Rows

\* Adjust moves what a client sees, if the rows it is given are the ones that
\* Overlay hides
LEMMA AdjustFollows ==
  ASSUME WorksheetInv, FilterOrdered, NEW dir \in {"rows", "columns"},
         NEW num \in 1..LastLine(dir), NEW offset \in {1, -1}, Smooth(dir, num, offset),
         NEW h, IsRowList(h), Adjust(h, dir, num, offset),
         NEW cs, cs = ColSrc(dir, num, offset), NEW rs, rs = RowSrc(dir, num, offset),
         NEW copied, HiddenSet(h) = {r \in Rows : rs[r] \in HiddenSet(hidden)} \cup copied,
         filter # None /\ FilterGoes(filter, dir, num, offset) => HiddenSet(h) = {}
  PROVE  Overlaid(hidden', merges', links', rels', filter')
         = Abstract!Move(Overlaid(hidden, merges, links, rels, filter), cs, rs, copied)
  <1> DEFINE l == AdjustHyperlinks(links, rels, dir, num, offset)
             m == AdjustMergeCells(merges, dir, num, offset)
             goes == filter # None /\ FilterGoes(filter, dir, num, offset)
             shown == [i \in 1..Len(h) |->
                         IF filter.r1 < i /\ i <= filter.r2 THEN FALSE ELSE h[i]]
  <1>1. /\ ~l.panic /\ ~m.panic /\ IsAdjusted(m.cells, merges, dir, num, offset)
        /\ IsRelinked(l, links, rels, dir, num, offset)
    BY LoopsEnd DEF Smooth
  <1>2. filter # None => filter \in Area /\ Ordered(filter) /\ ~(filter.c2 < 1)
    <2> HAVE filter # None
    <2>1. filter \in Area /\ Ordered(filter)
      BY DEF WorksheetInv, IsFilter, FilterOrdered
    <2>2. filter.c2 \in 1..MaxCol
      BY <2>1, AreaFields
    <2> QED
      BY <2>1, <2>2, WorksheetAssumption
  <1>3. /\ links' = l.links /\ rels' = l.rels /\ merges' = m.cells
        /\ hidden' = IF goes THEN shown ELSE h
        /\ filter' = IF filter = None \/ goes THEN None
                     ELSE AdjustAutoFilter(filter, dir, num, offset)
    BY <1>1, <1>2, Zenon DEF Adjust
  <1>4. IsAreaList(merges) /\ IsLinked(links, rels)
    BY DEF WorksheetInv
  <1>5. /\ \A i \in 1..Len(merges) : Movable(merges[i], dir, num, offset)
        /\ \A i \in 1..Len(links) :
             ~Hit(links[i], dir, num, offset) => Slides(links[i].at, dir, num, offset)
        /\ FilterMovable(filter, dir, num, offset)
    BY DEF Clear, Smooth
  <1>b. IsRelinked(l, links, rels, dir, num, offset)
    BY <1>1
  <1>d. IsLinked(links, rels)
    BY <1>4
  <1>e. \A i \in 1..Len(links) :
          ~Hit(links[i], dir, num, offset) => Slides(links[i].at, dir, num, offset)
    BY <1>5
  <1> HIDE DEF l, m
  <1>6. AreaSet(merges') = MovedSet(AreaSet(merges), cs, rs)
    BY <1>1, <1>3, <1>4, <1>5, AreasFollow
  <1>7. Targeted(links', rels') = TargetFrom(Targeted(links, rels), cs, rs)
    <2> DEFINE T == Targeted(links, rels)
    <2>1. ASSUME NEW c \in Cols \X Rows
          PROVE  LinkAt(links', rels', c) = LET old == <<cs[c[1]], rs[c[2]]>>
                                            IN  IF old \in Cols \X Rows THEN T[old] ELSE None
      <3> DEFINE o == SrcCell(c, dir, num, offset)
      <3>a. o = SrcCell(c, dir, num, offset)
        OBVIOUS
      <3> HIDE DEF o
      <3>1. LinkAt(l.links, l.rels, c) = IF o \in Cols \X Rows THEN LinkAt(links, rels, o) ELSE None
        BY ONLY <1>b, <1>d, <1>e, <3>a, dir \in {"rows", "columns"}, num \in 1..LastLine(dir),
                offset \in {1, -1}, c \in Cols \X Rows, LinksFollow
      <3>2. o = <<cs[c[1]], rs[c[2]]>>
        BY <3>a DEF SrcCell
      <3>3. o \in Cols \X Rows => T[o] = LinkAt(links, rels, o)
        BY DEF Targeted
      <3> HIDE DEF T
      <3> QED
        BY ONLY <1>3, <3>1, <3>2, <3>3
    <2> HIDE DEF T
    <2> QED
      BY <2>1, Zenon DEF Targeted, TargetFrom, T
  <1>8. goes <=> Headless(filter, rs)
    <2>1. CASE filter = None
      BY <2>1 DEF Headless
    <2>2. CASE filter # None
      BY <1>2, <1>5, <2>2, FilterFollows
    <2> QED
      BY <2>1, <2>2
  <1>9. filter' = FilterFrom(filter, cs, rs)
    <2>1. CASE filter = None \/ goes
      BY <1>3, <1>8, <2>1 DEF FilterFrom
    <2>2. CASE ~(filter = None \/ goes)
      <3>1. /\ Abstract!Survives(filter, cs, rs)
            /\ Abstract!Moved(filter, cs, rs) = AdjustAutoFilter(filter, dir, num, offset)
        BY <1>2, <1>5, <2>2, FilterFollows
      <3>2. filter' = AdjustAutoFilter(filter, dir, num, offset)
        BY <1>3, <2>2
      <3>3. ~(filter = None \/ Headless(filter, rs))
        BY <1>8, <2>2
      <3> QED
        BY ONLY <3>1, <3>2, <3>3 DEF FilterFrom
    <2> QED
      BY <2>1, <2>2
  <1>10. HiddenSet(hidden') = HiddenFrom(HiddenSet(hidden), filter, rs, copied)
    <2> DEFINE H == HiddenSet(hidden)
    <2>1. HiddenSet(h) = {r \in Rows : rs[r] \in H} \cup copied
      OBVIOUS
    <2>2. Len(h) \in Nat
      BY DEF IsRowList
    <2> HIDE DEF H
    <2>3. CASE goes
      <3>1. HiddenSet(h) = {}
        BY <2>3
      <3>2. hidden' = shown
        BY <1>3, <2>3
      <3>3. \A i \in 1..Len(h) : ~h[i]
        BY <3>1 DEF HiddenSet
      <3>4. DOMAIN shown = 1..Len(h) /\ Len(shown) = Len(h)
        BY <2>2
      <3>5. \A i \in 1..Len(h) : ~shown[i]
        BY <3>3, Zenon
      <3> HIDE DEF shown
      <3>6. HiddenSet(shown) = {}
        BY <3>4, <3>5 DEF HiddenSet
      <3>7. copied = {} /\ \A r \in Rows : rs[r] \notin H
        BY ONLY <2>1, <3>1
      <3>8. HiddenFrom(H, filter, rs, copied) = {}
        BY ONLY <3>7 DEF HiddenFrom
      <3> QED
        BY <3>2, <3>6, <3>8 DEF H
    <2>4. CASE ~goes
      <3>1. hidden' = h
        BY <1>3, <2>4
      <3>2. ~Headless(filter, rs)
        BY <1>8, <2>4
      <3>3. HiddenFrom(H, filter, rs, copied) = {r \in Rows : rs[r] \in H} \cup copied
        BY ONLY <3>2 DEF HiddenFrom
      <3> QED
        BY <2>1, <3>1, <3>3 DEF H
    <2> QED
      BY <2>3, <2>4
  <1> QED
    BY <1>6, <1>7, <1>9, <1>10, MoveIs DEF Overlaid

\* the rows hidden after an insertion, a removal and neither
LEMMA InsertedHides ==
  ASSUME NEW s \in Seq(BOOLEAN), Len(s) < MaxRow, NEW num \in 1..MaxRow, num <= Len(s) + 1,
         NEW e \in BOOLEAN, NEW t, IsInserted(t, s, num, e), NEW rs, rs = Src(Rows, num, 1)
  PROVE  HiddenSet(t) = {r \in Rows : rs[r] \in HiddenSet(s)} \cup (IF e THEN {num} ELSE {})
  <1>1. MaxRow \in Nat /\ Len(s) \in Nat
    BY WorksheetAssumption
  <1>2. \A r \in Rows : rs[r] = SrcLine(r, num, 1)
    BY SrcIs
  <1>3. /\ Len(t) = Len(s) + 1
        /\ \A j \in 1..Len(s) + 1 : t[j] = IF j < num THEN s[j] ELSE IF j = num THEN e ELSE s[j - 1]
    BY DEF IsInserted
  <1>4. ASSUME NEW r \in Rows, r # num
        PROVE  r \in HiddenSet(t) <=> rs[r] \in HiddenSet(s)
    <2>0. r \in 1..MaxRow
      BY DEF Rows
    <2>1. CASE r < num
      <3>1. rs[r] = r /\ r \in 1..Len(s) /\ r \in 1..Len(t) /\ t[r] = s[r]
        BY <1>1, <1>2, <1>3, <2>0, <2>1 DEF SrcLine
      <3> QED
        BY ONLY <3>1 DEF HiddenSet
    <2>2. CASE ~(r < num)
      <3>1. rs[r] = r - 1
        BY <1>2, <1>4, <2>2 DEF SrcLine
      <3>2. r \in 1..Len(t) <=> r - 1 \in 1..Len(s)
        BY <1>1, <1>3, <1>4, <2>0, <2>2
      <3>3. r \in 1..Len(t) => t[r] = s[r - 1]
        BY <1>1, <1>3, <1>4, <2>2
      <3> QED
        BY ONLY <3>1, <3>2, <3>3 DEF HiddenSet
    <2> QED
      BY <2>1, <2>2
  <1>5. num \in 1..Len(t) /\ t[num] = e
    BY <1>1, <1>3
  <1>6. num \in HiddenSet(t) <=> e
    BY ONLY <1>5 DEF HiddenSet
  <1>7. rs[num] \notin HiddenSet(s)
    <2>1. rs[num] = 0
      BY <1>1, <1>2 DEF SrcLine, Rows
    <2> QED
      BY ONLY <2>1, <1>1 DEF HiddenSet
  <1>8. HiddenSet(t) \subseteq Rows /\ num \in Rows
    BY <1>1, <1>3 DEF HiddenSet, Rows
  <1>9. \A r : r \in (IF e THEN {num} ELSE {}) <=> e /\ r = num
    OBVIOUS
  <1> QED
    BY ONLY <1>4, <1>6, <1>7, <1>8, <1>9

LEMMA RemovedHides ==
  ASSUME NEW s \in Seq(BOOLEAN), Len(s) <= MaxRow, NEW num \in 1..Len(s),
         NEW t, IsRemoved(t, s, num), NEW rs, rs = Src(Rows, num, -1)
  PROVE  HiddenSet(t) = {r \in Rows : rs[r] \in HiddenSet(s)} \cup {}
  <1>1. MaxRow \in Nat /\ Len(s) \in Nat
    BY WorksheetAssumption
  <1>2. \A r \in Rows : rs[r] = SrcLine(r, num, -1)
    BY SrcIs
  <1>3. /\ Len(t) = Len(s) - 1
        /\ \A j \in 1..Len(s) - 1 : t[j] = IF j < num THEN s[j] ELSE s[j + 1]
    BY DEF IsRemoved
  <1>4. ASSUME NEW r \in Rows
        PROVE  r \in HiddenSet(t) <=> rs[r] \in HiddenSet(s)
    <2>0. r \in 1..MaxRow
      BY DEF Rows
    <2>1. CASE r < num
      <3>1. rs[r] = r /\ r \in 1..Len(s) /\ r \in 1..Len(t) /\ t[r] = s[r]
        BY <1>1, <1>2, <1>3, <2>0, <2>1 DEF SrcLine
      <3> QED
        BY ONLY <3>1 DEF HiddenSet
    <2>2. CASE ~(r < num)
      <3>1. rs[r] = r + 1
        BY <1>2, <2>2 DEF SrcLine
      <3>2. r \in 1..Len(t) <=> r + 1 \in 1..Len(s)
        BY <1>1, <1>3, <2>0
      <3>3. r \in 1..Len(t) => t[r] = s[r + 1]
        BY <1>1, <1>3, <2>2
      <3> QED
        BY ONLY <3>1, <3>2, <3>3 DEF HiddenSet
    <2> QED
      BY <2>1, <2>2
  <1>5. HiddenSet(t) \subseteq Rows
    BY <1>1, <1>3 DEF HiddenSet, Rows
  <1> QED
    BY ONLY <1>4, <1>5

LEMMA RestHides ==
  ASSUME NEW s \in Seq(BOOLEAN), Len(s) <= MaxRow
  PROVE  /\ HiddenSet(s) = {r \in Rows : Abstract!Same(Rows)[r] \in HiddenSet(s)} \cup {}
         /\ \A num \in Rows : num > Len(s) =>
              HiddenSet(s) = {r \in Rows : Src(Rows, num, 1)[r] \in HiddenSet(s)} \cup {}
  <1>1. MaxRow \in Nat /\ Len(s) \in Nat
    BY WorksheetAssumption
  <1>2. HiddenSet(s) \subseteq Rows /\ \A r \in HiddenSet(s) : r \in 1..Len(s)
    BY <1>1 DEF HiddenSet, Rows
  <1>3. \A r \in Rows : Abstract!Same(Rows)[r] = r
    BY DEF Abstract!Same
  <1>4. ASSUME NEW num \in Rows, num > Len(s)
        PROVE  HiddenSet(s) = {r \in Rows : Src(Rows, num, 1)[r] \in HiddenSet(s)} \cup {}
    <2>1. \A r \in Rows : Src(Rows, num, 1)[r] = SrcLine(r, num, 1)
      BY SrcIs
    <2>2. ASSUME NEW r \in Rows
          PROVE  r \in HiddenSet(s) <=> SrcLine(r, num, 1) \in HiddenSet(s)
      <3>1. r \in 1..MaxRow /\ num \in 1..MaxRow
        BY DEF Rows
      <3>2. CASE r < num
        BY <3>2 DEF SrcLine
      <3>3. CASE ~(r < num)
        <4>1. r \notin 1..Len(s) /\ SrcLine(r, num, 1) \notin 1..Len(s)
          BY <1>1, <1>4, <3>1, <3>3 DEF SrcLine
        <4> QED
          BY <1>2, <4>1
      <3> QED
        BY <3>2, <3>3
    <2> QED
      BY ONLY <1>2, <2>1, <2>2
  <1>5. HiddenSet(s) = {r \in Rows : Abstract!Same(Rows)[r] \in HiddenSet(s)} \cup {}
    BY ONLY <1>2, <1>3
  <1> QED
    BY <1>4, <1>5

-----------------------------------------------------------------------------
(* Every call is a step of Overlay.                                        *)

Seen == Overlaid(hidden, merges, links, rels, filter)

LEMMA SrcsAre ==
  ASSUME NEW num
  PROVE  /\ ColSrc("rows", num, 1) = Abstract!Same(Abstract!Cols)
         /\ ColSrc("rows", num, -1) = Abstract!Same(Abstract!Cols)
         /\ RowSrc("rows", num, 1) = Abstract!Inserted(Abstract!Rows, num)
         /\ RowSrc("rows", num, -1) = Abstract!Removed(Abstract!Rows, num)
         /\ ColSrc("columns", num, 1) = Abstract!Inserted(Abstract!Cols, num)
         /\ ColSrc("columns", num, -1) = Abstract!Removed(Abstract!Cols, num)
         /\ RowSrc("columns", num, 1) = Abstract!Same(Abstract!Rows)
         /\ RowSrc("columns", num, -1) = Abstract!Same(Abstract!Rows)
         /\ RowSrc("rows", num, 1) = Src(Rows, num, 1)
         /\ RowSrc("rows", num, -1) = Src(Rows, num, -1)
         /\ RowSrc("columns", num, 1) = Abstract!Same(Rows)
         /\ RowSrc("columns", num, -1) = Abstract!Same(Rows)
  BY DEF ColSrc, RowSrc, Src, Abstract!Cols, Abstract!Rows, Cols, Rows

LEMMA InsertRowFollows ==
  ASSUME WorksheetInv, FilterOrdered, NEW row \in Rows, Room("rows", row), InsertRow(row)
  PROVE  Seen' = Abstract!InsertRow(Seen, row)
  <1> DEFINE no == FALSE
             h == IF row <= Len(hidden) THEN InsertAt(hidden, row, no) ELSE hidden
             cs == ColSrc("rows", row, 1)
             rs == RowSrc("rows", row, 1)
             none == {}
  <1>1. hidden \in Seq(BOOLEAN) /\ Len(hidden) \in Nat /\ Len(hidden) <= MaxRow /\ MaxRow \in Nat
    BY RowsAre
  <1>2. row \in Nat /\ 1 <= row /\ row <= MaxRow /\ (row <= Len(hidden) => Len(hidden) < MaxRow)
    BY WorksheetAssumption DEF Rows, Room
  <1>0. no \in BOOLEAN /\ ~no
    OBVIOUS
  <1>4. Adjust(h, "rows", row, 1) /\ row \in 1..LastLine("rows") /\ Smooth("rows", row, 1)
    <2>1. Adjust(h, "rows", row, 1) /\ row \in 1..LastLine("rows")
      BY DEF InsertRow, LastLine, Rows
    <2> QED
      BY <2>1, RoomIsSmooth
  <1>5. ~FilterGoes(filter, "rows", row, 1)
    BY DEF FilterGoes
  <1> HIDE DEF no
  <1>3. IsRowList(h) /\ HiddenSet(h) = {r \in Rows : rs[r] \in HiddenSet(hidden)} \cup none
    <2>1. CASE row <= Len(hidden)
      <3>1. IsPlace(row, hidden)
        BY <1>1, <1>2, <2>1 DEF IsPlace
      <3>2. h = InsertAt(hidden, row, no)
        BY <2>1
      <3> HIDE DEF h
      <3>3. h \in Seq(BOOLEAN) /\ IsInserted(h, hidden, row, no)
        BY <1>0, <1>1, <3>1, <3>2, InsertAtIs
      <3>4. IsRowList(h)
        BY <1>1, <1>2, <2>1, <3>3 DEF IsRowList, IsInserted
      <3>5. row \in 1..MaxRow /\ row <= Len(hidden) + 1 /\ Len(hidden) < MaxRow
        BY <1>1, <1>2, <2>1
      <3>6. rs = Src(Rows, row, 1)
        BY SrcsAre
      <3>7. HiddenSet(h) = {r \in Rows : rs[r] \in HiddenSet(hidden)} \cup (IF no THEN {row} ELSE {})
        BY ONLY <1>0, <1>1, <3>3, <3>5, <3>6, InsertedHides
      <3> QED
        BY ONLY <1>0, <3>4, <3>7 DEF none
    <2>2. CASE ~(row <= Len(hidden))
      <3>1. h = hidden /\ row > Len(hidden)
        BY <1>1, <1>2, <2>2
      <3>2. rs = Src(Rows, row, 1)
        BY SrcsAre
      <3>3. HiddenSet(hidden) = {r \in Rows : rs[r] \in HiddenSet(hidden)} \cup {}
        BY <1>1, <3>1, <3>2, RestHides
      <3> QED
        BY <1>1, <3>1, <3>3 DEF IsRowList, none
    <2> QED
      BY <2>1, <2>2
  <1> HIDE DEF h, rs, cs, none
  <1>6. Overlaid(hidden', merges', links', rels', filter')
        = Abstract!Move(Overlaid(hidden, merges, links, rels, filter), cs, rs, none)
    BY <1>3, <1>4, <1>5, AdjustFollows DEF cs, rs
  <1>7. cs = Abstract!Same(Abstract!Cols) /\ rs = Abstract!Inserted(Abstract!Rows, row)
    BY SrcsAre DEF cs, rs
  <1> QED
    BY <1>6, <1>7 DEF Seen, Abstract!InsertRow, none

LEMMA DuplicateRowToFollows ==
  ASSUME WorksheetInv, FilterOrdered, NEW from \in Rows, NEW row \in Rows, Room("rows", row),
         DuplicateRowTo(from, row)
  PROVE  Seen' = Abstract!DuplicateRowTo(Seen, from, row)
  <1> DEFINE e == hidden[from]
             h == InsertAt(hidden, row, e)
             cs == ColSrc("rows", row, 1)
             rs == RowSrc("rows", row, 1)
             copied == IF e THEN {row} ELSE {}
  <1>1. hidden \in Seq(BOOLEAN) /\ Len(hidden) \in Nat /\ Len(hidden) <= MaxRow /\ MaxRow \in Nat
    BY RowsAre
  <1>2. /\ from \in Nat /\ 1 <= from /\ from <= MaxRow /\ row \in Nat /\ 1 <= row /\ row <= MaxRow
        /\ row <= Len(hidden) => Len(hidden) < MaxRow
    BY WorksheetAssumption DEF Rows, Room
  <1>3. from <= Len(hidden) /\ row <= Len(hidden) + 1 /\ Adjust(h, "rows", row, 1)
    BY DEF DuplicateRowTo
  <1>4. IsPlace(row, hidden) /\ e \in BOOLEAN /\ from \in 1..Len(hidden)
    BY <1>1, <1>2, <1>3 DEF IsPlace
  <1>5. h \in Seq(BOOLEAN) /\ IsInserted(h, hidden, row, e)
    BY <1>1, <1>4, InsertAtIs
  <1>a. from \in HiddenSet(hidden) <=> e
    BY <1>4 DEF HiddenSet
  <1> HIDE DEF h, e
  <1>6. IsRowList(h) /\ row \in 1..LastLine("rows") /\ Len(hidden) < MaxRow /\ row \in 1..MaxRow
    BY <1>1, <1>2, <1>3, <1>5 DEF IsRowList, LastLine, IsInserted
  <1>7. rs = Src(Rows, row, 1) /\ cs = Abstract!Same(Abstract!Cols)
        /\ rs = Abstract!Inserted(Abstract!Rows, row)
    BY SrcsAre
  <1> HIDE DEF cs, rs
  <1>8. HiddenSet(h) = {r \in Rows : rs[r] \in HiddenSet(hidden)} \cup copied
    BY ONLY <1>1, <1>3, <1>4, <1>5, <1>6, <1>7, InsertedHides DEF copied
  <1>9. Smooth("rows", row, 1) /\ ~FilterGoes(filter, "rows", row, 1)
    BY <1>6, RoomIsSmooth DEF FilterGoes
  <1>10. copied = IF from \in HiddenSet(hidden) THEN {row} ELSE {}
    BY ONLY <1>a DEF copied
  <1> HIDE DEF copied
  <1>11. Overlaid(hidden', merges', links', rels', filter')
         = Abstract!Move(Overlaid(hidden, merges, links, rels, filter), cs, rs, copied)
    BY <1>3, <1>6, <1>8, <1>9, AdjustFollows DEF cs, rs
  <1>12. Seen.hidden = HiddenSet(hidden)
    BY DEF Seen, Overlaid
  <1>13. Seen' = Abstract!Move(Seen, cs, rs, copied)
    BY <1>11 DEF Seen
  <1>14. Abstract!DuplicateRowTo(Seen, from, row)
         = Abstract!Move(Seen, Abstract!Same(Abstract!Cols), Abstract!Inserted(Abstract!Rows, row),
                         IF from \in Seen.hidden THEN {row} ELSE {})
    BY DEF Abstract!DuplicateRowTo
  <1> QED
    BY ONLY <1>7, <1>10, <1>12, <1>13, <1>14

LEMMA RemoveRowFollows ==
  ASSUME WorksheetInv, FilterOrdered, NEW row \in Rows, Removable("rows", row),
         NoneBegins("rows", row), NoneHidden(row), RemoveRow(row)
  PROVE  Seen' = Abstract!RemoveRow(Seen, row)
  <1> DEFINE h == RemoveAt(hidden, row)
             cs == ColSrc("rows", row, -1)
             rs == RowSrc("rows", row, -1)
             none == {}
  <1>1. hidden \in Seq(BOOLEAN) /\ Len(hidden) \in Nat /\ Len(hidden) <= MaxRow /\ MaxRow \in Nat
    BY RowsAre
  <1>2. row \in 1..Len(hidden) /\ Adjust(h, "rows", row, -1) /\ row \in 1..LastLine("rows")
    BY <1>1 DEF RemoveRow, Rows, LastLine
  <1>3. h \in Seq(BOOLEAN) /\ IsRemoved(h, hidden, row)
    BY <1>1, <1>2, RemoveAtIs
  <1> HIDE DEF h
  <1>4. IsRowList(h)
    BY <1>1, <1>3 DEF IsRowList, IsRemoved
  <1>5. Smooth("rows", row, -1)
    BY <1>2, RemovalIsSmooth
  <1>6. /\ rs = Src(Rows, row, -1) /\ cs = Abstract!Same(Abstract!Cols)
        /\ rs = Abstract!Removed(Abstract!Rows, row)
    BY SrcsAre
  <1> HIDE DEF cs, rs
  <1>7. HiddenSet(h) = {r \in Rows : rs[r] \in HiddenSet(hidden)} \cup none
    BY ONLY <1>1, <1>2, <1>3, <1>6, RemovedHides DEF none
  <1>8. ASSUME filter # None, FilterGoes(filter, "rows", row, -1) PROVE HiddenSet(h) = {}
    <2>1. filter.r1 = row
      BY <1>8 DEF FilterGoes
    <2>2. \A i \in 1..Len(hidden) : ~hidden[i]
      BY <1>8, <2>1 DEF NoneHidden
    <2>3. HiddenSet(hidden) = {}
      BY <2>2 DEF HiddenSet
    <2> QED
      BY ONLY <1>7, <2>3 DEF none
  <1> HIDE DEF none
  <1>9. Overlaid(hidden', merges', links', rels', filter')
        = Abstract!Move(Overlaid(hidden, merges, links, rels, filter), cs, rs, none)
    BY <1>2, <1>4, <1>5, <1>7, <1>8, AdjustFollows DEF cs, rs
  <1> QED
    BY <1>6, <1>9 DEF Seen, Abstract!RemoveRow, none

LEMMA ColumnsFollow ==
  ASSUME WorksheetInv, FilterOrdered, NEW col \in Cols, RightOfFilter(col)
  PROVE  /\ Room("columns", col) /\ InsertCol(col) => Seen' = Abstract!InsertCol(Seen, col)
         /\ Removable("columns", col) /\ NoneBegins("columns", col) /\ RemoveCol(col) =>
               Seen' = Abstract!RemoveCol(Seen, col)
  <1> DEFINE none == {}
  <1>a. IsRowList(hidden)
    BY DEF WorksheetInv
  <1>b. col \in 1..LastLine("columns")
    BY DEF Cols, LastLine
  <1>c. MaxCol \in Nat
    BY WorksheetAssumption
  <1>1. IsRowList(hidden) /\ col \in 1..LastLine("columns") /\ col \in Nat
    BY <1>a, <1>b, <1>c DEF Cols
  <1>2. HiddenSet(hidden) = {r \in Rows : Abstract!Same(Rows)[r] \in HiddenSet(hidden)} \cup none
    BY <1>1, RestHides DEF IsRowList
  <1> HIDE DEF none
  <1>3. \A offset : filter # None => ~FilterGoes(filter, "columns", col, offset)
    <2> SUFFICES ASSUME NEW offset, filter # None PROVE ~FilterGoes(filter, "columns", col, offset)
      OBVIOUS
    <2>1. filter.c1 < col
      BY DEF RightOfFilter
    <2>2. filter.c1 # col
      BY <1>1, <2>1
    <2> QED
      BY <2>2 DEF FilterGoes
  <1>4. ASSUME Room("columns", col), InsertCol(col) PROVE Seen' = Abstract!InsertCol(Seen, col)
    <2> DEFINE cs == ColSrc("columns", col, 1)
               rs == RowSrc("columns", col, 1)
    <2>1. Adjust(hidden, "columns", col, 1)
      BY <1>4 DEF InsertCol
    <2>2. Smooth("columns", col, 1)
      BY <1>1, <1>4, RoomIsSmooth
    <2>3. /\ rs = Abstract!Same(Rows) /\ cs = Abstract!Inserted(Abstract!Cols, col)
          /\ rs = Abstract!Same(Abstract!Rows)
      BY SrcsAre
    <2> HIDE DEF cs, rs
    <2>4. HiddenSet(hidden) = {r \in Rows : rs[r] \in HiddenSet(hidden)} \cup none
      BY ONLY <1>2, <2>3
    <2>5. Overlaid(hidden', merges', links', rels', filter')
          = Abstract!Move(Overlaid(hidden, merges, links, rels, filter), cs, rs, none)
      BY <1>1, <1>3, <2>1, <2>2, <2>4, AdjustFollows DEF cs, rs
    <2> QED
      BY <2>3, <2>5 DEF Seen, Abstract!InsertCol, none
  <1>5. ASSUME Removable("columns", col), NoneBegins("columns", col), RemoveCol(col)
        PROVE  Seen' = Abstract!RemoveCol(Seen, col)
    <2> DEFINE cs == ColSrc("columns", col, -1)
               rs == RowSrc("columns", col, -1)
    <2>1. Adjust(hidden, "columns", col, -1)
      BY <1>5 DEF RemoveCol
    <2>2. Smooth("columns", col, -1)
      BY <1>1, <1>5, RemovalIsSmooth
    <2>3. /\ rs = Abstract!Same(Rows) /\ cs = Abstract!Removed(Abstract!Cols, col)
          /\ rs = Abstract!Same(Abstract!Rows)
      BY SrcsAre
    <2> HIDE DEF cs, rs
    <2>4. HiddenSet(hidden) = {r \in Rows : rs[r] \in HiddenSet(hidden)} \cup none
      BY ONLY <1>2, <2>3
    <2>5. Overlaid(hidden', merges', links', rels', filter')
          = Abstract!Move(Overlaid(hidden, merges, links, rels, filter), cs, rs, none)
      BY <1>1, <1>3, <2>1, <2>2, <2>4, AdjustFollows DEF cs, rs
    <2> QED
      BY <2>3, <2>5 DEF Seen, Abstract!RemoveCol, none
  <1> QED
    BY <1>4, <1>5

\* the calls that move nothing
LEMMA GrownHides ==
  ASSUME WorksheetInv, NEW row \in Rows
  PROVE  HiddenSet(Grown(row)) = HiddenSet(hidden)
  <1> DEFINE n == IF Len(hidden) < row THEN row ELSE Len(hidden)
             g == Grown(row)
  <1>1. Len(hidden) \in Nat /\ row \in Nat
    BY RowsAre DEF Rows
  <1>2. n \in Nat /\ Len(hidden) <= n
    BY <1>1
  <1>3. g = [i \in 1..n |-> IF i <= Len(hidden) THEN hidden[i] ELSE FALSE]
    BY DEF Grown
  <1> HIDE DEF n, g
  <1>4. Len(g) = n
    BY <1>2, <1>3
  <1>5. \A i \in 1..n : i <= Len(hidden) => g[i] = hidden[i]
    BY <1>3, Zenon
  <1>6. \A i \in 1..n : ~(i <= Len(hidden)) => g[i] = FALSE
    BY <1>3, Zenon
  <1>7. /\ \A i \in 1..Len(hidden) : i \in 1..n /\ i <= Len(hidden)
        /\ \A i \in 1..n : i <= Len(hidden) => i \in 1..Len(hidden)
    BY <1>1, <1>2
  <1>8. \A i : i \in 1..n /\ g[i] <=> i \in 1..Len(hidden) /\ hidden[i]
    BY <1>5, <1>6, <1>7, Zenon
  <1>9. \A i : i \in HiddenSet(g) <=> i \in HiddenSet(hidden)
    BY <1>4, <1>8, Zenon DEF HiddenSet
  <1> QED
    BY <1>9, Zenon DEF g

LEMMA SetRowVisibleFollows ==
  ASSUME WorksheetInv, NEW row \in Rows, NEW v \in BOOLEAN, SetRowVisible(row, v)
  PROVE  Seen' = Abstract!SetRowVisible(Seen, row, v)
  <1> DEFINE g == Grown(row)
             b == ~v
             H == HiddenSet(hidden)
             N == IF v THEN H \ {row} ELSE H \cup {row}
  <1>1. g \in Seq(BOOLEAN) /\ row \in 1..Len(g) /\ Len(g) \in Nat
    BY GrownIs
  <1>2. hidden' = [g EXCEPT ![row] = b] /\ UNCHANGED <<merges, links, rels, filter>>
    BY DEF SetRowVisible
  <1>3. b \in BOOLEAN
    OBVIOUS
  <1>4. HiddenSet(g) = H
    BY GrownHides
  <1> HIDE DEF g, b, H
  <1>5. /\ Len(hidden') = Len(g) /\ hidden'[row] = b
        /\ \A i \in 1..Len(g) : i # row => hidden'[i] = g[i]
    BY <1>1, <1>2, <1>3
  <1>6. \A i : i \in H <=> i \in 1..Len(g) /\ g[i]
    BY <1>4 DEF HiddenSet
  <1>7. \A i : i \in HiddenSet(hidden') <=> i \in 1..Len(g) /\ hidden'[i]
    BY <1>5 DEF HiddenSet
  <1>8. \A i : i \in HiddenSet(hidden') <=> IF i = row THEN ~v ELSE i \in H
    BY <1>1, <1>5, <1>6, <1>7, Zenon DEF b
  <1>9. \A i : i \in N <=> IF i = row THEN ~v ELSE i \in H
    BY Zenon
  <1>10. HiddenSet(hidden') = N
    BY <1>8, <1>9, Zenon
  <1>11. Seen' = [areas |-> AreaSet(merges), target |-> Targeted(links, rels), filter |-> filter,
                  hidden |-> N]
    BY <1>2, <1>10 DEF Seen, Overlaid
  <1>12. Seen = [areas |-> AreaSet(merges), target |-> Targeted(links, rels), filter |-> filter,
                 hidden |-> H]
    BY DEF Seen, Overlaid, H
  <1> QED
    BY ONLY <1>11, <1>12 DEF Abstract!SetRowVisible

LEMMA MergeCellFollows ==
  ASSUME WorksheetInv, NEW a \in Merges, Disjoint(a), MergeCell(a)
  PROVE  Seen' = Seen \/ Seen' = Abstract!MergeCell(Seen, a)
  <1> DEFINE q == Append(merges, a)
             A == AreaSet(merges)
             B == {b \in A : ~Abstract!Overlap(a, b)}
  <1>a. IsAreaList(merges)
    BY DEF WorksheetInv
  <1>1. merges \in Seq(Area) /\ Len(merges) \in Nat
    BY <1>a DEF IsAreaList
  <1>2. a \in Area
    BY WorksheetAssumption
  <1>3. merges' = merges \/ merges' = q
    BY DEF MergeCell, Merged
  <1>4. UNCHANGED <<hidden, links, rels, filter>>
    BY DEF MergeCell
  <1>5. ASSUME merges' = merges PROVE Seen' = Seen
    BY <1>4, <1>5 DEF Seen
  <1>6. ASSUME merges' = q PROVE Seen' = Abstract!MergeCell(Seen, a)
    <2>1. /\ Len(q) = Len(merges) + 1 /\ q[Len(merges) + 1] = a
          /\ \A i \in 1..Len(merges) : q[i] = merges[i]
      BY <1>1, <1>2
    <2>2. /\ \A i \in 1..Len(q) : i \in 1..Len(merges) \/ i = Len(merges) + 1
          /\ \A i \in 1..Len(merges) : i \in 1..Len(q)
          /\ Len(merges) + 1 \in 1..Len(q)
      BY <1>1, <2>1
    <2>3. \A b : Abstract!Overlap(a, b) <=> Overlap(a, b)
      BY Zenon DEF Abstract!Overlap, Overlap, Abstract!Inside, Inside, Abstract!Cols, Cols,
                   Abstract!Rows, Rows
    <2>4. \A b \in A : ~Abstract!Overlap(a, b)
      BY <2>3, Zenon DEF AreaSet, Disjoint
    <2>5. B = A
      BY <2>4, Zenon
    <2> HIDE DEF q
    <2>6. AreaSet(q) = A \cup {a}
      BY <2>1, <2>2, Zenon DEF AreaSet
    <2> HIDE DEF A
    <2>7. Seen' = [areas |-> A \cup {a}, target |-> Targeted(links, rels), filter |-> filter,
                   hidden |-> HiddenSet(hidden)]
      BY <1>4, <1>6, <2>6 DEF Seen, Overlaid
    <2>8. Seen = [areas |-> A, target |-> Targeted(links, rels), filter |-> filter,
                  hidden |-> HiddenSet(hidden)]
      BY DEF Seen, Overlaid, A
    <2>9. Abstract!MergeCell(Seen, a) = [Seen EXCEPT !.areas = B \cup {a}]
      BY ONLY <2>8 DEF Abstract!MergeCell
    <2> HIDE DEF B
    <2> QED
      BY ONLY <2>5, <2>7, <2>8, <2>9
  <1> QED
    BY <1>3, <1>5, <1>6

LEMMA HomeIs ==
  ASSUME WorksheetInv, NEW c \in Cols \X Rows
  PROVE  Abstract!Home(Seen, c) = Redirect(merges, c)
  <1> DEFINE A == AreaSet(merges)
             h == CHOOSE a \in A : Abstract!Inside(c, a)
  <1>1. IsAreaList(merges)
    BY DEF WorksheetInv
  <1>2. Seen.areas = A
    BY DEF Seen, Overlaid
  <1>3. \A a : Abstract!Inside(c, a) <=> Inside(c, a)
    BY Zenon DEF Abstract!Inside, Inside
  <1>4. Abstract!Home(Seen, c)
        = IF \E a \in A : Abstract!Inside(c, a) THEN <<h.c1, h.r1>> ELSE c
    BY ONLY <1>2, Zenon DEF Abstract!Home
  <1>5. CASE \E a \in A : Abstract!Inside(c, a)
    <2>1. h \in A /\ Abstract!Inside(c, h)
      BY <1>5, Zenon
    <2> HIDE DEF h
    <2>2. PICK i \in 1..Len(merges) : merges[i] = h
      BY <2>1 DEF AreaSet
    <2>3. Inside(c, merges[i])
      BY <1>3, <2>1, <2>2, Zenon
    <2>4. Redirect(merges, c) = TopLeft(merges[i])
      BY <1>1, <2>3, RedirectIs
    <2> QED
      BY <1>4, <1>5, <2>2, <2>4, Zenon DEF TopLeft
  <1>6. CASE ~\E a \in A : Abstract!Inside(c, a)
    <2>1. \A i \in 1..Len(merges) : ~Inside(c, merges[i])
      BY <1>3, <1>6, Zenon DEF AreaSet
    <2>2. Redirect(merges, c) = c
      BY <1>1, <2>1, RedirectIs
    <2> QED
      BY <1>4, <1>6, <2>2, Zenon
  <1> QED
    BY <1>5, <1>6

\* a hyperlink that is added at a cell without one is the answer there and
\* changes no other answer
LEMMA AnswersStay ==
  ASSUME NEW ls, NEW rs, IsLinked(ls, rs), NEW l \in Link, NEW r, IsLinked(Append(ls, l), r),
         \A id, t : IsTarget(rs, id, t) => IsTarget(r, id, t), NEW d, d # l.at
  PROVE  LinkAt(Append(ls, l), r, d) = LinkAt(ls, rs, d)
  <1> DEFINE q == Append(ls, l)
  <1>1. ls \in Seq(Link) /\ Len(ls) \in Nat /\ UniqueIds(r)
    BY DEF IsLinked
  <1>2. /\ Len(q) = Len(ls) + 1 /\ q[Len(ls) + 1] = l
        /\ \A i \in 1..Len(ls) : q[i] = ls[i]
    BY <1>1
  <1>3. /\ \A i \in 1..Len(q) : i \in 1..Len(ls) \/ i = Len(ls) + 1
        /\ \A i \in 1..Len(ls) : i \in 1..Len(q)
    BY <1>1, <1>2
  <1>q. IsLinked(q, r)
    OBVIOUS
  <1> HIDE DEF q
  <1>4. CASE \A i \in 1..Len(ls) : ls[i].at # d
    <2>1. \A i \in 1..Len(q) : q[i].at # d
      BY <1>2, <1>3, <1>4, Zenon
    <2>2. LinkAt(q, r, d) = None
      BY ONLY <1>q, <2>1, LinkAtIs
    <2>3. LinkAt(ls, rs, d) = None
      BY ONLY IsLinked(ls, rs), <1>4, LinkAtIs
    <2> QED
      BY <2>2, <2>3 DEF q
  <1>5. ASSUME NEW i \in 1..Len(ls), ls[i].at = d PROVE LinkAt(q, r, d) = LinkAt(ls, rs, d)
    <2>1. i \in 1..Len(q) /\ q[i] = ls[i] /\ q[i].at = d
      BY <1>2, <1>3, <1>5, Zenon
    <2>2. CASE ls[i].rid = 0
      <3>1. LinkAt(ls, rs, d) = ls[i].location
        BY ONLY IsLinked(ls, rs), i \in 1..Len(ls), <1>5, <2>2, LinkAtIs
      <3>2. LinkAt(q, r, d) = q[i].location
        BY ONLY <1>q, <2>1, <2>2, LinkAtIs
      <3> QED
        BY <2>1, <3>1, <3>2
    <2>3. CASE ls[i].rid # 0
      <3>1. IsTarget(rs, ls[i].rid, LinkAt(ls, rs, d))
        BY ONLY IsLinked(ls, rs), i \in 1..Len(ls), <1>5, <2>3, LinkAtIs
      <3>2. IsTarget(r, q[i].rid, LinkAt(q, r, d))
        BY ONLY <1>q, <2>1, <2>3, LinkAtIs
      <3>3. IsTarget(r, ls[i].rid, LinkAt(ls, rs, d))
        BY <3>1, Zenon
      <3>4. IsTarget(r, ls[i].rid, LinkAt(q, r, d))
        BY <2>1, <3>2
      <3> QED
        BY <1>1, <3>3, <3>4, OneTarget
    <2> QED
      BY <2>2, <2>3
  <1> QED
    BY <1>4, <1>5 DEF q

LEMMA NewAnswer ==
  ASSUME NEW ls, NEW rs, IsLinked(ls, rs), NEW l \in Link, NEW r, IsLinked(Append(ls, l), r)
  PROVE  /\ l.rid = 0 => LinkAt(Append(ls, l), r, l.at) = l.location
         /\ \A t : l.rid # 0 /\ IsTarget(r, l.rid, t) => LinkAt(Append(ls, l), r, l.at) = t
  <1> DEFINE q == Append(ls, l)
             i == Len(ls) + 1
  <1>1. ls \in Seq(Link) /\ Len(ls) \in Nat /\ UniqueIds(r)
    BY DEF IsLinked
  <1>2. i \in 1..Len(q) /\ q[i] = l
    BY <1>1
  <1>q. IsLinked(q, r)
    OBVIOUS
  <1> HIDE DEF q, i
  <1>3. /\ l.rid = 0 => LinkAt(q, r, l.at) = l.location
        /\ l.rid # 0 => IsTarget(r, l.rid, LinkAt(q, r, l.at))
    BY ONLY <1>q, <1>2, LinkAtIs
  <1> QED
    BY <1>1, <1>3, OneTarget DEF q

\* the answers with the target of one cell replaced
Retargeted(T, c, t) == [T EXCEPT ![c] = t]

LEMMA RetargetedIs ==
  ASSUME NEW ls, NEW rs, NEW q, NEW r, NEW c \in Cols \X Rows, NEW t, LinkAt(q, r, c) = t,
         \A d \in Cols \X Rows : d # c => LinkAt(q, r, d) = LinkAt(ls, rs, d)
  PROVE  Targeted(q, r) = Retargeted(Targeted(ls, rs), c, t)
  BY Zenon DEF Targeted, Retargeted

LEMMA SetCellHyperLinkFollows ==
  ASSUME WorksheetInv, NEW c \in LinkCells, RelsDense, Unlinked(c), NEW t \in Targets,
         NEW external \in BOOLEAN, SetCellHyperLink(c, t, external)
  PROVE  Seen' = Abstract!SetCellHyperLink(Seen, c, t)
  <1> DEFINE at == Redirect(merges, c)
             id == Len(rels) + 1
             x == [at |-> at, rid |-> id, location |-> None]
             y == [at |-> at, rid |-> 0, location |-> t]
             e == [id |-> id, target |-> t]
  <1>1. IsAreaList(merges) /\ IsLinked(links, rels)
    BY DEF WorksheetInv
  <1>2. rels \in Seq(Rel) /\ Len(rels) \in Nat
    BY <1>1 DEF IsLinked
  <1>3. c \in Cols \X Rows
    BY WorksheetAssumption
  <1>4. at \in Cols \X Rows
    BY <1>1, <1>3, RedirectIs
  <1>5. UNCHANGED <<hidden, merges, filter>>
    BY DEF SetCellHyperLink
  <1>6. IsLinked(links', rels')
    BY SetCellHyperLinkKeeps DEF WorksheetInv
  <1>7. Abstract!Home(Seen, c) = at
    BY <1>3, HomeIs
  <1> HIDE DEF at
  <1>8. /\ x \in Link /\ x.at = at /\ x.rid = id /\ id # 0
        /\ y \in Link /\ y.at = at /\ y.rid = 0 /\ y.location = t
        /\ e \in Rel /\ e.id = id /\ e.target = t
    BY <1>2, <1>4 DEF Link, Rel
  <1>9. /\ LinkAt(links', rels', at) = t
        /\ \A d \in Cols \X Rows : d # at => LinkAt(links', rels', d) = LinkAt(links, rels, d)
    <2>1. CASE external
      <3>1. links' = Append(links, x) /\ rels' = Append(rels, e)
        BY <2>1 DEF SetCellHyperLink, at
      <3>2. /\ Len(rels') = Len(rels) + 1 /\ rels'[Len(rels) + 1] = e
            /\ \A i \in 1..Len(rels) : rels'[i] = rels[i]
        BY <1>2, <1>8, <3>1
      <3>3. (\A i \in 1..Len(rels) : i \in 1..Len(rels')) /\ Len(rels) + 1 \in 1..Len(rels')
        BY <1>2, <3>2
      <3> HIDE DEF x, e, id
      <3>4. \A k, s : IsTarget(rels, k, s) => IsTarget(rels', k, s)
        BY <3>2, <3>3, Zenon DEF IsTarget
      <3>5. IsTarget(rels', id, t)
        BY <1>8, <3>2, <3>3, Zenon DEF IsTarget
      <3>6. IsLinked(Append(links, x), rels')
        BY <1>6, <3>1
      <3>7. LinkAt(Append(links, x), rels', at) = t
        BY ONLY <1>1, <1>8, <3>5, <3>6, NewAnswer
      <3>8. ASSUME NEW d, d # at PROVE LinkAt(Append(links, x), rels', d) = LinkAt(links, rels, d)
        BY ONLY <1>1, <1>8, <3>4, <3>6, <3>8, AnswersStay
      <3> QED
        BY <3>1, <3>7, <3>8
    <2>2. CASE ~external
      <3>1. links' = Append(links, y) /\ rels' = rels
        BY <2>2 DEF SetCellHyperLink, at
      <3> HIDE DEF y
      <3>2. IsLinked(Append(links, y), rels)
        BY <1>6, <3>1
      <3>3. LinkAt(Append(links, y), rels, at) = t
        BY ONLY <1>1, <1>8, <3>2, NewAnswer
      <3>4. ASSUME NEW d, d # at PROVE LinkAt(Append(links, y), rels, d) = LinkAt(links, rels, d)
        BY ONLY <1>1, <1>8, <3>2, <3>4, AnswersStay
      <3> QED
        BY <3>1, <3>3, <3>4
    <2> QED
      BY <2>1, <2>2
  <1>10. Targeted(links', rels') = Retargeted(Targeted(links, rels), at, t)
    BY ONLY <1>4, <1>9, RetargetedIs
  <1>11. Seen' = [areas |-> AreaSet(merges), target |-> Targeted(links', rels'),
                  filter |-> filter, hidden |-> HiddenSet(hidden)]
    BY <1>5 DEF Seen, Overlaid
  <1>12. Seen = [areas |-> AreaSet(merges), target |-> Targeted(links, rels),
                 filter |-> filter, hidden |-> HiddenSet(hidden)]
    BY DEF Seen, Overlaid
  <1>13. Abstract!SetCellHyperLink(Seen, c, t) = [Seen EXCEPT !.target = Retargeted(Seen.target, at, t)]
    BY ONLY <1>7, <1>12 DEF Abstract!SetCellHyperLink, Retargeted
  <1> QED
    BY ONLY <1>10, <1>11, <1>12, <1>13

LEMMA AutoFilterFollows ==
  ASSUME WorksheetInv, NEW a \in Filters, AutoFilter(a)
  PROVE  Seen' = Abstract!AutoFilter(Seen, a)
  <1>1. filter' = a /\ UNCHANGED <<hidden, merges, links, rels>>
    BY DEF AutoFilter
  <1>2. Seen' = [areas |-> AreaSet(merges), target |-> Targeted(links, rels),
                 filter |-> a, hidden |-> HiddenSet(hidden)]
    BY <1>1 DEF Seen, Overlaid
  <1>3. Seen = [areas |-> AreaSet(merges), target |-> Targeted(links, rels),
                filter |-> filter, hidden |-> HiddenSet(hidden)]
    BY DEF Seen, Overlaid
  <1> QED
    BY ONLY <1>2, <1>3 DEF Abstract!AutoFilter

LEMMA OverlayStep ==
  ASSUME WorksheetInv, FilterOrdered, [NextOverlay]_vars
  PROVE  Seen' = Seen \/ Abstract!Step(Seen, Seen')
  <1> DEFINE Follows == Seen' = Seen \/ Abstract!Step(Seen, Seen')
  <1>a. Abstract!Cols = Cols /\ Abstract!Rows = Rows
    BY DEF Abstract!Cols, Cols, Abstract!Rows, Rows
  <1>b. ASSUME NEW s, NEW n, NEW row \in Rows
        PROVE  /\ \A v \in BOOLEAN : n = Abstract!SetRowVisible(s, row, v) => Abstract!Step(s, n)
               /\ n = Abstract!InsertRow(s, row) => Abstract!Step(s, n)
               /\ n = Abstract!RemoveRow(s, row) => Abstract!Step(s, n)
               /\ \A to \in Rows : n = Abstract!DuplicateRowTo(s, row, to) => Abstract!Step(s, n)
    BY ONLY <1>a, row \in Rows, Zenon DEF Abstract!Step
  <1>c. ASSUME NEW s, NEW n, NEW col \in Cols
        PROVE  /\ n = Abstract!InsertCol(s, col) => Abstract!Step(s, n)
               /\ n = Abstract!RemoveCol(s, col) => Abstract!Step(s, n)
    BY ONLY <1>a, col \in Cols, Zenon DEF Abstract!Step
  <1>d. ASSUME NEW s, NEW n
        PROVE  /\ \A a \in Merges : n = Abstract!MergeCell(s, a) => Abstract!Step(s, n)
               /\ \A c \in Cols \X Rows : \A t \in Targets :
                    n = Abstract!SetCellHyperLink(s, c, t) => Abstract!Step(s, n)
               /\ \A a \in Filters : n = Abstract!AutoFilter(s, a) => Abstract!Step(s, n)
    BY ONLY <1>a, Zenon DEF Abstract!Step
  <1>1. ASSUME NEW row \in Rows, NEW v \in BOOLEAN, SetRowVisible(row, v) PROVE Follows
    <2>1. Seen' = Abstract!SetRowVisible(Seen, row, v)
      BY <1>1, SetRowVisibleFollows
    <2> QED
      BY <1>b, <2>1
  <1>2. ASSUME NEW row \in Rows, Room("rows", row), InsertRow(row) PROVE Follows
    <2>1. Seen' = Abstract!InsertRow(Seen, row)
      BY <1>2, InsertRowFollows
    <2> QED
      BY <1>b, <2>1
  <1>3. ASSUME NEW row \in Rows, Room("rows", row), NEW from \in Rows, DuplicateRowTo(from, row)
        PROVE  Follows
    <2>1. Seen' = Abstract!DuplicateRowTo(Seen, from, row)
      BY <1>3, DuplicateRowToFollows
    <2> QED
      BY <1>b, <2>1
  <1>4. ASSUME NEW row \in Rows, Removable("rows", row), NoneBegins("rows", row),
               NoneHidden(row), RemoveRow(row)
        PROVE  Follows
    <2>1. Seen' = Abstract!RemoveRow(Seen, row)
      BY <1>4, RemoveRowFollows
    <2> QED
      BY <1>b, <2>1
  <1>5. ASSUME NEW col \in Cols, RightOfFilter(col), Room("columns", col), InsertCol(col)
        PROVE  Follows
    <2>1. Seen' = Abstract!InsertCol(Seen, col)
      BY <1>5, ColumnsFollow
    <2> QED
      BY <1>c, <2>1
  <1>6. ASSUME NEW col \in Cols, RightOfFilter(col), Removable("columns", col),
               NoneBegins("columns", col), RemoveCol(col)
        PROVE  Follows
    <2>1. Seen' = Abstract!RemoveCol(Seen, col)
      BY <1>6, ColumnsFollow
    <2> QED
      BY <1>c, <2>1
  <1>7. ASSUME NEW a \in Merges, Disjoint(a), MergeCell(a) PROVE Follows
    <2>1. Seen' = Seen \/ Seen' = Abstract!MergeCell(Seen, a)
      BY <1>7, MergeCellFollows
    <2> QED
      BY <1>d, <2>1
  <1>8. ASSUME NEW c \in LinkCells, RelsDense, Unlinked(c), LinkCall(c) PROVE Follows
    <2>1. PICK t \in Targets, external \in BOOLEAN : SetCellHyperLink(c, t, external)
      BY <1>8 DEF LinkCall
    <2>2. Seen' = Abstract!SetCellHyperLink(Seen, c, t)
      BY <1>8, <2>1, SetCellHyperLinkFollows
    <2>3. c \in Cols \X Rows
      BY WorksheetAssumption
    <2> QED
      BY <1>d, <2>2, <2>3
  <1>9. ASSUME NEW a \in Filters, AutoFilter(a) PROVE Follows
    <2>1. Seen' = Abstract!AutoFilter(Seen, a)
      BY <1>9, AutoFilterFollows
    <2> QED
      BY <1>d, <2>1
  <1>10. CASE UNCHANGED vars
    BY <1>10 DEF vars, Seen
  <1> HIDE DEF Follows
  <1>11. Follows
    BY <1>1, <1>2, <1>3, <1>4, <1>5, <1>6, <1>7, <1>8, <1>9, <1>10, Zenon DEF NextOverlay, Calls, Follows
  <1> QED
    BY <1>11 DEF Follows

\* a call of the overlay's session is one of the other
LEMMA OverlayIsSession == NextOverlay => Next
  BY Zenon DEF NextOverlay, Next, Calls

LEMMA OrderNext == WorksheetInv /\ FilterOrdered /\ [NextOverlay]_vars => FilterOrdered'
  <1> SUFFICES ASSUME WorksheetInv, FilterOrdered, [NextOverlay]_vars PROVE FilterOrdered'
    OBVIOUS
  <1>a. ASSUME filter' = filter PROVE FilterOrdered'
    BY <1>a DEF FilterOrdered
  <1>b. \A row \in Rows : row \in 1..LastLine("rows")
    BY DEF Rows, LastLine
  <1>c. \A col \in Cols : col \in 1..LastLine("columns")
    BY DEF Cols, LastLine
  <1>1. ASSUME NEW row \in Rows, NEW v \in BOOLEAN, SetRowVisible(row, v) PROVE FilterOrdered'
    BY <1>1, <1>a DEF SetRowVisible
  <1>2. ASSUME NEW row \in Rows, Room("rows", row), InsertRow(row) PROVE FilterOrdered'
    <2>1. PICK h : Adjust(h, "rows", row, 1)
      BY <1>2 DEF InsertRow
    <2>2. Smooth("rows", row, 1)
      BY <1>2, <1>b, RoomIsSmooth
    <2> QED
      BY <1>b, <2>1, <2>2, FilterKeepsOrder
  <1>3. ASSUME NEW row \in Rows, Room("rows", row), NEW from \in Rows, DuplicateRowTo(from, row)
        PROVE  FilterOrdered'
    <2>1. PICK h : Adjust(h, "rows", row, 1)
      BY <1>3 DEF DuplicateRowTo
    <2>2. Smooth("rows", row, 1)
      BY <1>3, <1>b, RoomIsSmooth
    <2> QED
      BY <1>b, <2>1, <2>2, FilterKeepsOrder
  <1>4. ASSUME NEW row \in Rows, Removable("rows", row), NoneBegins("rows", row), RemoveRow(row)
        PROVE  FilterOrdered'
    <2>1. PICK h : Adjust(h, "rows", row, -1)
      BY <1>4 DEF RemoveRow
    <2>2. Smooth("rows", row, -1)
      BY <1>4, <1>b, RemovalIsSmooth
    <2> QED
      BY <1>b, <2>1, <2>2, FilterKeepsOrder
  <1>5. ASSUME NEW col \in Cols, RightOfFilter(col), Room("columns", col), InsertCol(col)
        PROVE  FilterOrdered'
    <2>1. Adjust(hidden, "columns", col, 1) /\ Smooth("columns", col, 1)
      BY <1>5, <1>c, RoomIsSmooth DEF InsertCol
    <2> QED
      BY <1>c, <2>1, FilterKeepsOrder
  <1>6. ASSUME NEW col \in Cols, RightOfFilter(col), Removable("columns", col),
               NoneBegins("columns", col), RemoveCol(col)
        PROVE  FilterOrdered'
    <2>1. Adjust(hidden, "columns", col, -1) /\ Smooth("columns", col, -1)
      BY <1>6, <1>c, RemovalIsSmooth DEF RemoveCol
    <2> QED
      BY <1>c, <2>1, FilterKeepsOrder
  <1>7. ASSUME NEW a \in Merges, MergeCell(a) PROVE FilterOrdered'
    BY <1>7, <1>a DEF MergeCell
  <1>8. ASSUME NEW c \in LinkCells, LinkCall(c) PROVE FilterOrdered'
    BY <1>8, <1>a DEF LinkCall, SetCellHyperLink
  <1>9. ASSUME NEW a \in Filters, AutoFilter(a) PROVE FilterOrdered'
    <2>1. Ordered(a)
      BY WorksheetAssumption DEF Ordered
    <2> QED
      BY <1>9, <2>1 DEF AutoFilter, FilterOrdered
  <1>10. CASE UNCHANGED vars
    BY <1>10, <1>a DEF vars
  <1> HIDE DEF FilterOrdered
  <1> QED
    BY <1>1, <1>2, <1>3, <1>4, <1>5, <1>6, <1>7, <1>8, <1>9, <1>10, Zenon DEF NextOverlay, Calls

\* In the session of SpecOverlay merged areas, hyperlinks, the auto filter and
\* hidden rows move with the cells they lie over, and no call disturbs another
\* kind: what adjustHelper does with its loops and its numbers is what Overlay
\* says of the lines, for every size of the sheet.
THEOREM OverlayImplemented == SpecOverlay => ImplementsOverlay
  <1> DEFINE areas == {merges[i] : i \in 1..Len(merges)}
             target == [c \in Cols \X Rows |-> LinkAt(links, rels, c)]
             rows == {i \in 1..Len(hidden) : hidden[i]}
  <1>1. Init => Abstract!Init
    <2> SUFFICES ASSUME Init PROVE Abstract!Init
      OBVIOUS
    <2>1. hidden = << >> /\ merges = << >> /\ links = << >> /\ filter = None
      BY DEF Init
    <2>2. areas = {} /\ rows = {}
      BY <2>1
    <2>3. \A i \in 1..Len(links) : FALSE
      BY <2>1
    <2>4. \A c : LinkAt(links, rels, c) = None
      BY <2>3, Zenon DEF LinkAt
    <2>5. target = [c \in Abstract!Cols \X Abstract!Rows |-> None]
      BY <2>4, Zenon DEF Abstract!Cols, Cols, Abstract!Rows, Rows
    <2> QED
      BY <2>1, <2>2, <2>5 DEF Abstract!Init
  <1>2. WorksheetInv /\ FilterOrdered /\ [NextOverlay]_vars => [Abstract!Next]_<<areas, target, filter, rows>>
    <2> SUFFICES ASSUME WorksheetInv, FilterOrdered, [NextOverlay]_vars
                 PROVE  [Abstract!Next]_<<areas, target, filter, rows>>
      OBVIOUS
    <2>1. Seen' = Seen \/ Abstract!Step(Seen, Seen')
      BY OverlayStep
    <2>2. Seen = [areas |-> areas, target |-> target, filter |-> filter, hidden |-> rows]
      BY DEF Seen, Overlaid, AreaSet, Targeted, HiddenSet
    <2>3. Seen' = [areas |-> areas', target |-> target', filter |-> filter', hidden |-> rows']
      BY DEF Seen, Overlaid, AreaSet, Targeted, HiddenSet
    <2>4. CASE Seen' = Seen
      <3> HIDE DEF areas, target, rows
      <3>1. areas' = areas /\ target' = target /\ filter' = filter /\ rows' = rows
        BY <2>2, <2>3, <2>4
      <3> QED
        BY <3>1
    <2>5. CASE Abstract!Step(Seen, Seen')
      <3>1. Abstract!Next
        BY <2>2, <2>3, <2>5 DEF Abstract!Next
      <3> QED
        BY <3>1
    <2> QED
      BY <2>1, <2>4, <2>5
  <1>3. Init => FilterOrdered
    BY DEF Init, FilterOrdered
  <1>4. WorksheetInv /\ FilterOrdered /\ [NextOverlay]_vars => WorksheetInv' /\ FilterOrdered'
    <2> SUFFICES ASSUME WorksheetInv, FilterOrdered, [NextOverlay]_vars
                 PROVE  WorksheetInv' /\ FilterOrdered'
      OBVIOUS
    <2>1. [Next]_vars
      BY OverlayIsSession
    <2> QED
      BY <2>1, WorksheetNext, OrderNext
  <1> QED
    BY <1>1, <1>2, <1>3, <1>4, WorksheetInit, PTL
       DEF SpecOverlay, ImplementsOverlay, Abstract!Spec, Abstract!vars
=============================================================================
