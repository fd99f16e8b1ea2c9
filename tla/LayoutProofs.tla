---------------------------- MODULE LayoutProofs ----------------------------
(***************************************************************************)
(* Proofs about module Layout: for every number of columns and rows, every *)
(* set of widths, heights, sizes and offsets, and every list of column     *)
(* ranges to start from.                                                   *)
(***************************************************************************)
EXTENDS Layout, NaturalsInduction, WellFoundedInduction, SequenceTheorems, TLAPS

-----------------------------------------------------------------------------
(* Where a cell begins is a sum of widths or heights, a recursive function *)
(* on 0..n in Left and Top.  It exists, is the same for every n, and grows *)
(* by the width or height of the next cell.                                *)

\* f[k] is the sum of the first k of the sizes W
IsSum(f, n, W) == f = [k \in 0..n |-> IF k = 0 THEN 0 ELSE f[k - 1] + W[k]]

\* a set of numbers has a least one
LEMMA Least ==
  ASSUME NEW S, S \subseteq Nat, S # {}
  PROVE  \E n \in S : \A m \in S : n <= m
  <1> DEFINE R == OpToRel(<, Nat)
  <1>1. IsWellFoundedOn(R, Nat)
    BY NatLessThanWellFounded
  <1>2. \A x, y \in Nat : <<y, x>> \in R <=> y < x
    BY DEF R, OpToRel
  <1> HIDE DEF R
  <1>3. PICK x \in S : \A y \in S : ~ (<<y, x>> \in R)
    BY <1>1, WFMin
  <1>4. \A y \in S : ~(y < x)
    BY <1>2, <1>3, Zenon
  <1> QED
    BY <1>4

LEMMA SumStep ==
  ASSUME NEW W \in [Nat -> Nat], NEW n \in Nat, NEW f, IsSum(f, n, W)
  PROVE  /\ f[0] = 0
         /\ \A k \in 1..n : f[k] = f[k - 1] + W[k]
  <1> DEFINE g == [k \in 0..n |-> IF k = 0 THEN 0 ELSE f[k - 1] + W[k]]
  <1>1. f = g
    BY DEF IsSum
  <1>2. g[0] = 0
    OBVIOUS
  <1>3. \A k \in 1..n : g[k] = f[k - 1] + W[k]
    <2> TAKE k \in 1..n
    <2>1. k \in 0..n /\ k # 0
      OBVIOUS
    <2> QED
      BY <2>1, Zenon
  <1> HIDE DEF g
  <1> QED
    BY <1>1, <1>2, <1>3

\* two such functions agree, and their values are numbers
LEMMA SumUnique ==
  ASSUME NEW W \in [Nat -> Nat], NEW n \in Nat, NEW m \in Nat,
         NEW f, IsSum(f, n, W), NEW g, IsSum(g, m, W)
  PROVE  \A k \in Nat : k <= n /\ k <= m => f[k] = g[k] /\ f[k] \in Nat
  <1> DEFINE S == {k \in Nat : k <= n /\ k <= m /\ ~(f[k] = g[k] /\ f[k] \in Nat)}
  <1>1. /\ f[0] = 0 /\ g[0] = 0
        /\ \A k \in 1..n : f[k] = f[k - 1] + W[k]
        /\ \A k \in 1..m : g[k] = g[k - 1] + W[k]
    BY SumStep
  <1>2. SUFFICES ASSUME S # {} PROVE FALSE
    OBVIOUS
  <1>3. PICK k \in S : \A j \in S : k <= j
    <2> HIDE DEF S
    <2>1. S \subseteq Nat
      BY DEF S
    <2> QED
      BY <1>2, <2>1, Least
  <1>4. k \in Nat /\ k <= n /\ k <= m /\ ~(f[k] = g[k] /\ f[k] \in Nat)
    OBVIOUS
  <1>5. k # 0
    BY <1>1, <1>4
  <1>6. k - 1 \in Nat /\ k - 1 \notin S
    <2>1. k - 1 \in Nat /\ ~(k <= k - 1)
      BY <1>4, <1>5
    <2> QED
      BY <2>1, <1>3
  <1>7. f[k - 1] = g[k - 1] /\ f[k - 1] \in Nat
    BY <1>4, <1>6
  <1>8. f[k] = f[k - 1] + W[k] /\ g[k] = g[k - 1] + W[k] /\ W[k] \in Nat
    BY <1>1, <1>4, <1>5
  <1> QED
    BY <1>4, <1>7, <1>8

LEMMA SumExists ==
  ASSUME NEW W \in [Nat -> Nat]
  PROVE  \A n \in Nat : \E f : IsSum(f, n, W)
  <1> DEFINE S == {n \in Nat : ~ \E f : IsSum(f, n, W)}
  <1>1. SUFFICES ASSUME S # {} PROVE FALSE
    OBVIOUS
  <1>2. PICK n \in S : \A j \in S : n <= j
    <2> HIDE DEF S
    <2>1. S \subseteq Nat
      BY DEF S
    <2> QED
      BY <1>1, <2>1, Least
  <1>3. n \in Nat /\ ~ \E f : IsSum(f, n, W)
    OBVIOUS
  <1>4. n # 0
    <2> DEFINE z == [k \in 0..0 |-> 0]
    <2>1. z = [k \in 0..0 |-> IF k = 0 THEN 0 ELSE z[k - 1] + W[k]]
      OBVIOUS
    <2>2. IsSum(z, 0, W)
      BY <2>1 DEF IsSum
    <2> QED
      BY <1>3, <2>2
  <1>5. PICK f : IsSum(f, n - 1, W)
    <2>1. n - 1 \in Nat /\ ~(n <= n - 1)
      BY <1>3, <1>4
    <2>2. n - 1 \notin S
      BY <2>1, <1>2
    <2> QED
      BY <2>1, <2>2
  <1> DEFINE g == [k \in 0..n |-> IF k = n THEN f[n - 1] + W[n] ELSE f[k]]
  <1>6. f[0] = 0 /\ \A k \in 1..(n - 1) : f[k] = f[k - 1] + W[k]
    BY <1>3, <1>4, <1>5, SumStep
  <1>7. \A k \in 0..n : g[k] = IF k = 0 THEN 0 ELSE g[k - 1] + W[k]
    <2> TAKE k \in 0..n
    <2>1. CASE k = 0
      BY <2>1, <1>3, <1>4, <1>6
    <2>2. CASE k = n
      BY <2>2, <1>3, <1>4
    <2>3. CASE k # 0 /\ k # n
      <3>1. k \in 1..(n - 1) /\ k - 1 \in 0..n /\ k - 1 # n
        BY <2>3, <1>3, <1>4
      <3>2. g[k] = f[k] /\ g[k - 1] = f[k - 1]
        BY <2>3, <3>1
      <3> QED
        BY <2>3, <3>1, <3>2, <1>6
    <2> QED
      BY <2>1, <2>2, <2>3
  <1>8. g = [k \in 0..n |-> g[k]]
    OBVIOUS
  <1> HIDE DEF g
  <1>9. g = [k \in 0..n |-> IF k = 0 THEN 0 ELSE g[k - 1] + W[k]]
    BY <1>7, <1>8
  <1> QED
    BY <1>3, <1>9 DEF IsSum

-----------------------------------------------------------------------------
(* Columns and rows.                                                       *)

\* of the entries that cover a column one is the last
LEMMA LastOne ==
  ASSUME cols \in Seq(ColEntry), NEW c,
         \E i \in 1..Len(cols) : Covers(cols[i], c)
  PROVE  \E i \in 1..Len(cols) :
           Covers(cols[i], c) /\ \A j \in (i + 1)..Len(cols) : ~Covers(cols[j], c)
  <1> DEFINE n == Len(cols)
  <1>1. n \in Nat
    OBVIOUS
  <1>2. PICK i \in 1..n : Covers(cols[i], c)
    OBVIOUS
  <1> HIDE DEF n
  <1> DEFINE S == {k \in Nat : k < n /\ Covers(cols[n - k], c)}
  <1>3. n - i \in Nat /\ n - i < n /\ n - (n - i) = i
    BY <1>1
  <1>4. S \subseteq Nat /\ S # {}
    BY <1>2, <1>3
  <1>5. PICK k \in S : \A m \in S : k <= m
    <2> HIDE DEF S
    <2> QED
      BY <1>4, Least
  <1>6. n - k \in 1..n /\ Covers(cols[n - k], c)
    BY <1>1
  <1>7. ASSUME NEW j \in (n - k + 1)..n PROVE ~Covers(cols[j], c)
    <2>1. n - j \in Nat /\ n - j < n /\ n - (n - j) = j /\ ~(k <= n - j)
      BY <1>1
    <2>2. n - j \notin S
      BY <2>1, <1>5
    <2> QED
      BY <2>1, <2>2
  <1> QED
    BY <1>6, <1>7 DEF n

\* what LastMatch finds is an entry
LEMMA MatchType ==
  ASSUME cols \in Seq(ColEntry), NEW c
  PROVE  /\ LastMatch(c).width \in Widths \cup {0}
         /\ LastMatch(c).hidden \in BOOLEAN
         /\ LastMatch(c).level \in Levels \cup {0}
         /\ LastMatch(c).style \in Styles
         /\ c \in Cols => LastMatch(c) \in ColEntry
         /\ c \in Cols => LastMatch(c) = [f \in {"min", "max", "width", "hidden", "level", "style"}
                                            |-> LastMatch(c)[f]]

  <1> DEFINE F == {"min", "max", "width", "hidden", "level", "style"}
  <1>1. \A e \in ColEntry : e = [f \in F |-> e[f]]
    BY DEF ColEntry
  <1>2. CASE \E i \in 1..Len(cols) : Covers(cols[i], c)
    <2> DEFINE k == CHOOSE i \in 1..Len(cols) :
                      Covers(cols[i], c) /\ \A j \in (i + 1)..Len(cols) : ~Covers(cols[j], c)
    <2>1. LastMatch(c) = cols[k]
      BY <1>2, Zenon DEF LastMatch
    <2>2. k \in 1..Len(cols)
      BY <1>2, LastOne, Zenon
    <2> HIDE DEF k
    <2>3. LastMatch(c) \in ColEntry
      BY <2>1, <2>2
    <2> QED
      BY <2>3, <1>1 DEF ColEntry
  <1>3. CASE ~ \E i \in 1..Len(cols) : Covers(cols[i], c)
    <2>1. LastMatch(c) = NewEntry(c)
      BY <1>3 DEF LastMatch
    <2>2. c \in Cols => NewEntry(c) \in ColEntry
      BY LayoutAssumption DEF NewEntry, ColEntry
    <2> QED
      BY <2>1, <2>2, <1>1, LayoutAssumption DEF NewEntry
  <1> QED
    BY <1>2, <1>3

LEMMA CellSizes ==
  ASSUME cols \in Seq(ColEntry), heights \in [Rows -> Heights \cup {0}]
  PROVE  /\ \A c : GetColWidth(c) \in Nat \ {0}
         /\ \A r : GetRowHeight(r) \in Nat \ {0}
         /\ \A x \in Offsets : \A c : x < GetColWidth(c)
         /\ \A x \in Offsets : \A r : x < GetRowHeight(r)
  <1>1. /\ \A w \in Widths : /\ ConvertColWidthToPixels(w) \in Nat \ {0}
                             /\ \A x \in Offsets : x < ConvertColWidthToPixels(w)
        /\ \A h \in Heights : /\ ConvertRowHeightToPixels(h) \in Nat \ {0}
                              /\ \A x \in Offsets : x < ConvertRowHeightToPixels(h)
    BY LayoutAssumption, PlacesAssumption DEF ConvertColWidthToPixels, ConvertRowHeightToPixels
  <1>2. /\ \A x \in Offsets : x < DefaultColWidthPixels /\ x < DefaultRowHeightPixels
        /\ DefaultColWidthPixels \in Nat \ {0} /\ DefaultRowHeightPixels \in Nat \ {0}
    BY PlacesAssumption DEF DefaultColWidthPixels, DefaultRowHeightPixels
  <1>3. \A c : GetColWidth(c) \in Nat \ {0} /\ \A x \in Offsets : x < GetColWidth(c)
    BY <1>1, <1>2, MatchType DEF GetColWidth
  <1>4. \A r : GetRowHeight(r) \in Nat \ {0} /\ \A x \in Offsets : x < GetRowHeight(r)
    <2> TAKE r
    <2>1. CASE r + 1 \in Rows /\ heights[r + 1] # 0
      BY <2>1, <1>1 DEF GetRowHeight
    <2>2. CASE ~(r + 1 \in Rows /\ heights[r + 1] # 0)
      BY <2>2, <1>2 DEF GetRowHeight
    <2> QED
      BY <2>1, <2>2
  <1> QED
    BY <1>3, <1>4

\* a column begins where the one before it ends
LEMMA LeftStep ==
  ASSUME cols \in Seq(ColEntry), heights \in [Rows -> Heights \cup {0}], NEW n \in Nat
  PROVE  /\ Left(n) \in Nat
         /\ Left(n + 1) = Left(n) + GetColWidth(n + 1)
  <1> DEFINE W == [c \in Nat |-> GetColWidth(c)]
  <1>1. W \in [Nat -> Nat]
    BY CellSizes
  <1>2. \A m \in Nat : \E f : IsSum(f, m, W) /\ Left(m) = f[m]
    <2> TAKE m \in Nat
    <2>1. \A f : IsSum(f, m, W) <=>
                   f = [c \in 0..m |-> IF c = 0 THEN 0 ELSE f[c - 1] + GetColWidth(c)]
      BY DEF IsSum
    <2>2. \E f : IsSum(f, m, W)
      <3> HIDE DEF W
      <3> QED
        BY <1>1, SumExists
    <2>3. \E f : f = [c \in 0..m |-> IF c = 0 THEN 0 ELSE f[c - 1] + GetColWidth(c)]
      BY <2>1, <2>2
    <2> DEFINE h == CHOOSE f : f = [c \in 0..m |-> IF c = 0 THEN 0 ELSE f[c - 1] + GetColWidth(c)]
    <2>4. Left(m) = h[m]
      BY DEF Left
    <2>5. h = [c \in 0..m |-> IF c = 0 THEN 0 ELSE h[c - 1] + GetColWidth(c)]
      BY <2>3, Zenon
    <2> HIDE DEF W, h
    <2>6. IsSum(h, m, W)
      BY <2>1, <2>5
    <2> QED
      BY <2>4, <2>6
  <1>3. W[n + 1] = GetColWidth(n + 1)
    OBVIOUS
  <1> HIDE DEF W
  <1> DEFINE m == n + 1
  <1>4. m \in Nat /\ n <= m /\ n <= n /\ m \in 1..m /\ m - 1 = n
    OBVIOUS
  <1> HIDE DEF m
  <1>5. PICK f : IsSum(f, n, W) /\ Left(n) = f[n]
    BY <1>2
  <1>6. PICK g : IsSum(g, m, W) /\ Left(m) = g[m]
    BY <1>2, <1>4
  <1>7. \A k \in Nat : k <= n /\ k <= m => f[k] = g[k] /\ f[k] \in Nat
    BY <1>1, <1>4, <1>5, <1>6, SumUnique
  <1>8. \A k \in 1..m : g[k] = g[k - 1] + W[k]
    BY <1>1, <1>4, <1>6, SumStep
  <1>9. g[m] = g[n] + W[m] /\ f[n] = g[n] /\ f[n] \in Nat
    BY <1>4, <1>7, <1>8
  <1>10. Left(n) \in Nat /\ Left(m) = Left(n) + W[m]
    BY <1>5, <1>6, <1>9
  <1> QED
    BY <1>3, <1>10 DEF m

\* a row begins where the one before it ends
LEMMA TopStep ==
  ASSUME cols \in Seq(ColEntry), heights \in [Rows -> Heights \cup {0}], NEW n \in Nat
  PROVE  /\ Top(n) \in Nat
         /\ Top(n + 1) = Top(n) + GetRowHeight(n)
  <1> DEFINE W == [r \in Nat |-> GetRowHeight(r - 1)]
  <1>1. W \in [Nat -> Nat]
    BY CellSizes
  <1>2. \A m \in Nat : \E f : IsSum(f, m, W) /\ Top(m) = f[m]
    <2> TAKE m \in Nat
    <2>1. \A f : IsSum(f, m, W) <=>
                   f = [r \in 0..m |-> IF r = 0 THEN 0 ELSE f[r - 1] + GetRowHeight(r - 1)]
      BY DEF IsSum
    <2>2. \E f : IsSum(f, m, W)
      <3> HIDE DEF W
      <3> QED
        BY <1>1, SumExists
    <2>3. \E f : f = [r \in 0..m |-> IF r = 0 THEN 0 ELSE f[r - 1] + GetRowHeight(r - 1)]
      BY <2>1, <2>2
    <2> DEFINE h == CHOOSE f : f = [r \in 0..m |-> IF r = 0 THEN 0 ELSE f[r - 1] + GetRowHeight(r - 1)]
    <2>4. Top(m) = h[m]
      BY DEF Top
    <2>5. h = [r \in 0..m |-> IF r = 0 THEN 0 ELSE h[r - 1] + GetRowHeight(r - 1)]
      BY <2>3, Zenon
    <2> HIDE DEF W, h
    <2>6. IsSum(h, m, W)
      BY <2>1, <2>5
    <2> QED
      BY <2>4, <2>6
  <1>3. W[n + 1] = GetRowHeight(n)
    OBVIOUS
  <1> HIDE DEF W
  <1> DEFINE m == n + 1
  <1>4. m \in Nat /\ n <= m /\ n <= n /\ m \in 1..m /\ m - 1 = n
    OBVIOUS
  <1> HIDE DEF m
  <1>5. PICK f : IsSum(f, n, W) /\ Top(n) = f[n]
    BY <1>2
  <1>6. PICK g : IsSum(g, m, W) /\ Top(m) = g[m]
    BY <1>2, <1>4
  <1>7. \A k \in Nat : k <= n /\ k <= m => f[k] = g[k] /\ f[k] \in Nat
    BY <1>1, <1>4, <1>5, <1>6, SumUnique
  <1>8. \A k \in 1..m : g[k] = g[k - 1] + W[k]
    BY <1>1, <1>4, <1>6, SumStep
  <1>9. g[m] = g[n] + W[m] /\ f[n] = g[n] /\ f[n] \in Nat
    BY <1>4, <1>7, <1>8
  <1>10. Top(n) \in Nat /\ Top(m) = Top(n) + W[m]
    BY <1>5, <1>6, <1>9
  <1> QED
    BY <1>3, <1>10 DEF m

\* cells do not move while columns and rows stay as they are
LEMMA SameCells ==
  ASSUME UNCHANGED <<cols, heights>>
  PROVE  /\ \A n : GetColWidth(n)' = GetColWidth(n)
         /\ \A n : GetRowHeight(n)' = GetRowHeight(n)
         /\ \A n : Left(n)' = Left(n)
         /\ \A n : Top(n)' = Top(n)
  <1>1. \A n : LastMatch(n)' = LastMatch(n)
    BY DEF LastMatch
  <1>2. \A n : GetColWidth(n)' = GetColWidth(n)
    BY <1>1 DEF GetColWidth
  <1>3. \A n : GetRowHeight(n)' = GetRowHeight(n)
    BY DEF GetRowHeight
  <1>4. \A n : Left(n)' = Left(n)
    BY <1>2 DEF Left
  <1>5. \A n : Top(n)' = Top(n)
    BY <1>3 DEF Top
  <1> QED
    BY <1>2, <1>3, <1>4, <1>5

-----------------------------------------------------------------------------
(* The place of an object.                                                 *)

\* the list of columns and the rows, whatever is being placed
SheetInv == /\ cols \in Seq(ColEntry)
            /\ \A i \in 1..Len(cols) : cols[i].min <= cols[i].max
            /\ heights \in [Rows -> Heights \cup {0}]

\* a request that Spec makes
IsAsked(req) == /\ req.col \in 0..(MaxCol - 1) /\ req.row \in 0..(MaxRow - 1)
                /\ req.x \in Offsets /\ req.y \in Offsets
                /\ req.width \in Sizes /\ req.height \in Sizes

\* the loops over the start leave the cell as it is: the offset is within it
StartInv == job.pc # "idle" =>
              /\ IsAsked(job.req)
              /\ job.col = job.req.col /\ job.x1 = job.req.x
              /\ job.row = job.req.row /\ job.y1 = job.req.y

\* from the end column on, what is left of the width begins where the column
\* does, and fits once the loop has ended; there is a pixel for every column
ColInv == job.pc \in {"endCol", "endRow", "placed"} =>
            /\ Left(job.colEnd) + job.width = Left(job.col) + job.x1 + job.req.width
            /\ job.colEnd + job.width <= LastCell
            /\ job.pc # "endCol" => job.width < GetColWidth(job.colEnd + 1)

\* the same of the rows
RowInv == job.pc \in {"endCol", "endRow", "placed"} =>
            /\ Top(job.rowEnd) + job.height = Top(job.row) + job.y1 + job.req.height
            /\ job.rowEnd + job.height <= LastCell
            /\ job.pc = "placed" => job.height < GetRowHeight(job.rowEnd)

LayoutInv == SheetInv /\ job \in Job /\ StartInv /\ ColInv /\ RowInv

\* the constants that are numbers
LEMMA Numbers ==
  /\ MaxCol \in Nat /\ MaxRow \in Nat /\ LastCell \in Nat
  /\ Offsets \subseteq Nat /\ Sizes \subseteq Nat
  BY LayoutAssumption

LEMMA SheetInvImplies ==
  ASSUME SheetInv
  PROVE  /\ \A c : GetColWidth(c) \in Nat \ {0}
         /\ \A r : GetRowHeight(r) \in Nat \ {0}
         /\ \A x \in Offsets : \A c : x < GetColWidth(c)
         /\ \A x \in Offsets : \A r : x < GetRowHeight(r)
         /\ \A n \in Nat : Left(n) \in Nat /\ Left(n + 1) = Left(n) + GetColWidth(n + 1)
         /\ \A n \in Nat : Top(n) \in Nat /\ Top(n + 1) = Top(n) + GetRowHeight(n)
  BY CellSizes, LeftStep, TopStep DEF SheetInv

LEMMA InitKeeps == Init => LayoutInv
  <1> SUFFICES ASSUME Init PROVE LayoutInv
    OBVIOUS
  <1>1. SheetInv
    BY LayoutAssumption DEF Init, SheetInv
  <1>2. job \in Job /\ job.pc = "idle"
    BY DEF Init, Idle, NoRequest, Job, Request
  <1> QED
    BY <1>1, <1>2 DEF LayoutInv, StartInv, ColInv, RowInv

LEMMA AppendKeeps ==
  ASSUME LayoutInv, NEW entry \in ColEntry, entry.min <= entry.max, AppendCol(entry)
  PROVE  LayoutInv'
  <1>1. SheetInv'
    <2>1. /\ cols' \in Seq(ColEntry) /\ Len(cols') = Len(cols) + 1 /\ Len(cols) \in Nat
          /\ \A i \in 1..Len(cols) : cols'[i] = cols[i]
          /\ cols'[Len(cols) + 1] = entry
      BY DEF AppendCol, LayoutInv, SheetInv
    <2>2. \A i \in 1..Len(cols') : i \in 1..Len(cols) \/ i = Len(cols) + 1
      BY <2>1
    <2>3. \A i \in 1..Len(cols') : cols'[i].min <= cols'[i].max
      BY <2>1, <2>2 DEF LayoutInv, SheetInv
    <2> QED
      BY <2>1, <2>3 DEF AppendCol, LayoutInv, SheetInv
  <1>2. job' \in Job /\ job'.pc = "idle"
    BY DEF AppendCol, Idle, NoRequest, Job, Request
  <1> QED
    BY <1>1, <1>2 DEF LayoutInv, StartInv, ColInv, RowInv

LEMMA ColumnsKeep == LayoutInv /\ SetColumns => LayoutInv'
  <1> SUFFICES ASSUME LayoutInv, SetColumns PROVE LayoutInv'
    OBVIOUS
  <1>1. Cols \subseteq Nat
    BY DEF Cols
  <1>2. PICK c \in Cols : \/ \E visible \in BOOLEAN : SetColVisible(c, visible)
                          \/ \E level \in Levels : SetColOutlineLevel(c, level)
                          \/ \E d \in Cols, w \in Widths : SetColWidth(c, d, w)
    BY DEF SetColumns
  <1>3. ColData(c) \in ColEntry
    BY MatchType DEF ColData, LayoutInv, SheetInv
  <1>4. ASSUME NEW visible \in BOOLEAN, SetColVisible(c, visible)
        PROVE  LayoutInv'
    <2> DEFINE e == [ColData(c) EXCEPT !.min = c, !.max = c, !.hidden = ~visible]
    <2>1. e \in ColEntry /\ e.min = c /\ e.max = c
      BY <1>3 DEF ColEntry
    <2>2. AppendCol(e)
      BY <1>4 DEF SetColVisible
    <2> HIDE DEF e
    <2>3. e.min <= e.max
      BY <1>1, <2>1
    <2> QED
      BY <2>1, <2>2, <2>3, AppendKeeps
  <1>5. ASSUME NEW level \in Levels, SetColOutlineLevel(c, level)
        PROVE  LayoutInv'
    <2> DEFINE e == [ColData(c) EXCEPT !.min = c, !.max = c, !.level = level]
    <2>1. e \in ColEntry /\ e.min = c /\ e.max = c
      BY <1>3 DEF ColEntry
    <2>2. AppendCol(e)
      BY <1>5 DEF SetColOutlineLevel
    <2> HIDE DEF e
    <2>3. e.min <= e.max
      BY <1>1, <2>1
    <2> QED
      BY <2>1, <2>2, <2>3, AppendKeeps
  <1>6. ASSUME NEW d \in Cols, NEW w \in Widths, SetColWidth(c, d, w)
        PROVE  LayoutInv'
    <2> DEFINE min == IF c > d THEN d ELSE c
               max == IF c > d THEN c ELSE d
               e   == [NewEntry(min) EXCEPT !.max = max, !.width = w]
    <2>1. min \in Cols /\ max \in Cols /\ min <= max
      BY <1>1
    <2>2. AppendCol(e)
      BY <1>6 DEF SetColWidth
    <2> HIDE DEF min, max
    <2>3. e \in ColEntry /\ e.min <= e.max
      BY <2>1, LayoutAssumption DEF ColEntry, NewEntry
    <2> HIDE DEF e
    <2> QED
      BY <2>2, <2>3, AppendKeeps
  <1> QED
    BY <1>2, <1>4, <1>5, <1>6

LEMMA RowsKeep == LayoutInv /\ SetRows => LayoutInv'
  <1> SUFFICES ASSUME LayoutInv, SetRows PROVE LayoutInv'
    OBVIOUS
  <1>1. SheetInv'
    BY DEF SetRows, SetRowHeight, LayoutInv, SheetInv
  <1>2. job' \in Job /\ job'.pc = "idle"
    BY DEF SetRows, SetRowHeight, Idle, NoRequest, Job, Request
  <1> QED
    BY <1>1, <1>2 DEF LayoutInv, StartInv, ColInv, RowInv

LEMMA PlaceKeeps == LayoutInv /\ Place(Offsets) => LayoutInv'
  <1> SUFFICES ASSUME LayoutInv, Place(Offsets) PROVE LayoutInv'
    OBVIOUS
  <1>1. PICK c \in Cols, r \in Rows, x \in Offsets, y \in Offsets, w \in Sizes, h \in Sizes :
          PositionObjectPixels([col |-> c - 1, row |-> r - 1, x |-> x, y |-> y,
                                width |-> w, height |-> h])
    BY DEF Place
  <1> DEFINE req == [col |-> c - 1, row |-> r - 1, x |-> x, y |-> y, width |-> w, height |-> h]
  <1>2. req \in Request /\ IsAsked(req)
    BY LayoutAssumption DEF Request, IsAsked, Cols, Rows
  <1>3. PositionObjectPixels(req)
    BY <1>1
  <1> HIDE DEF req
  <1>4. SheetInv'
    BY <1>3 DEF PositionObjectPixels, LayoutInv, SheetInv
  <1>5. /\ job' \in Job /\ job'.pc = "startCol" /\ job'.req = req
        /\ job'.col = req.col /\ job'.row = req.row /\ job'.x1 = req.x /\ job'.y1 = req.y
    BY <1>2, <1>3 DEF PositionObjectPixels, Idle, NoRequest, Job, Request, Loops
  <1> QED
    BY <1>2, <1>4, <1>5 DEF LayoutInv, StartInv, ColInv, RowInv

\* The two loops over the start do nothing: Spec's offsets lie within a cell.
LEMMA StartKeeps == LayoutInv /\ (AdjustStartCol \/ AdjustStartRow) => LayoutInv'
  <1> SUFFICES ASSUME LayoutInv, AdjustStartCol \/ AdjustStartRow PROVE LayoutInv'
    OBVIOUS
  <1>1. SheetInv /\ job \in Job /\ StartInv /\ UNCHANGED <<cols, heights>>
    BY DEF LayoutInv, AdjustStartCol, AdjustStartRow, Round
  <1>2. SheetInv'
    BY <1>1 DEF SheetInv
  <1>3. job.pc \in {"startCol", "startRow"} /\ IsAsked(job.req)
    BY <1>1 DEF AdjustStartCol, AdjustStartRow, Round, StartInv
  <1>4. ~(job.x1 >= GetColWidth(job.col)) /\ ~(job.y1 >= GetRowHeight(job.row))
    <2>1. job.x1 \in Offsets /\ job.y1 \in Offsets
      BY <1>1, <1>3 DEF StartInv, IsAsked
    <2>2. /\ \A x \in Offsets : \A c : x < GetColWidth(c)
          /\ \A x \in Offsets : \A r : x < GetRowHeight(r)
          /\ \A c : GetColWidth(c) \in Nat \ {0}
          /\ \A r : GetRowHeight(r) \in Nat \ {0}
      BY <1>1, SheetInvImplies
    <2>3. /\ job.x1 < GetColWidth(job.col) /\ job.y1 < GetRowHeight(job.row)
          /\ GetColWidth(job.col) \in Nat /\ GetRowHeight(job.row) \in Nat
      BY <2>1, <2>2
    <2> QED
      <3>1. job.x1 \in Nat /\ job.y1 \in Nat
        BY <1>1 DEF Job
      <3> QED
        BY <2>3, <3>1
  <1>5. CASE AdjustStartCol
    <2>1. job' = [job EXCEPT !.pc = "startRow"]
      BY <1>4, <1>5 DEF AdjustStartCol, Round
    <2>2. job' \in Job /\ job'.pc = "startRow" /\ job'.req = job.req
          /\ job'.col = job.col /\ job'.row = job.row /\ job'.x1 = job.x1 /\ job'.y1 = job.y1
      BY <1>1, <2>1 DEF Job, Loops
    <2> QED
      BY <1>1, <1>2, <1>3, <2>2 DEF LayoutInv, StartInv, ColInv, RowInv
  <1>6. CASE AdjustStartRow
    <2>1. job' = [job EXCEPT !.pc = "endCol", !.colEnd = job.col, !.rowEnd = job.row,
                             !.width = job.req.width + job.x1,
                             !.height = job.req.height + job.y1]
      BY <1>4, <1>6 DEF AdjustStartRow, Round
    <2> DEFINE w == job.req.width + job.x1
               h == job.req.height + job.y1
    <2>0. w \in Nat /\ h \in Nat
      BY <1>1 DEF Job, Request
    <2> HIDE DEF w, h
    <2>2. /\ job' \in Job /\ job'.pc = "endCol" /\ job'.req = job.req
          /\ job'.col = job.col /\ job'.row = job.row /\ job'.x1 = job.x1 /\ job'.y1 = job.y1
          /\ job'.colEnd = job.col /\ job'.width = w
          /\ job'.rowEnd = job.row /\ job'.height = h
      <3>1. job' = [job EXCEPT !.pc = "endCol", !.colEnd = job.col, !.rowEnd = job.row,
                               !.width = w, !.height = h]
        BY <2>1 DEF w, h
      <3> QED
        BY <1>1, <2>0, <3>1 DEF Job, Loops
    <2>3. StartInv'
      BY <1>1, <1>3, <2>2 DEF StartInv
    <2>4. /\ job.col \in 0..(MaxCol - 1) /\ job.row \in 0..(MaxRow - 1)
          /\ job.x1 \in Offsets /\ job.y1 \in Offsets
          /\ job.req.width \in Sizes /\ job.req.height \in Sizes
      BY <1>1, <1>3 DEF StartInv, IsAsked
    <2>5. /\ Left(job.col) \in Nat /\ Top(job.row) \in Nat
          /\ \A n : Left(n)' = Left(n)
          /\ \A n : Top(n)' = Top(n)
      <3>1. job.col \in Nat /\ job.row \in Nat
        BY <1>1 DEF Job
      <3> QED
        BY <1>1, <3>1, SheetInvImplies, SameCells
    <2>6. /\ job.col \in Nat /\ job.x1 \in Nat /\ job.req.width \in Nat
          /\ job.row \in Nat /\ job.y1 \in Nat /\ job.req.height \in Nat
          /\ job.col + w <= LastCell /\ job.row + h <= LastCell
      <3>1. /\ job.col \in Nat /\ job.x1 \in Nat /\ job.req.width \in Nat
            /\ job.row \in Nat /\ job.y1 \in Nat /\ job.req.height \in Nat
        BY <1>1 DEF Job, Request
      <3>2. /\ MaxCol + job.x1 + job.req.width <= LastCell
            /\ MaxRow + job.y1 + job.req.height <= LastCell
        BY <2>4, PlacesAssumption
      <3>3. job.col < MaxCol /\ job.row < MaxRow
        BY <2>4, LayoutAssumption
      <3> QED
        BY <3>1, <3>2, <3>3, Numbers DEF w, h
    <2>7. ColInv'
      <3>1. Left(job.col) + w = Left(job.col) + job.x1 + job.req.width
        BY <2>5, <2>6 DEF w
      <3> QED
        BY <2>2, <2>5, <2>6, <3>1 DEF ColInv
    <2>8. RowInv'
      <3>1. Top(job.row) + h = Top(job.row) + job.y1 + job.req.height
        BY <2>5, <2>6 DEF h
      <3> QED
        BY <2>2, <2>5, <2>6, <3>1 DEF RowInv
    <2> QED
      BY <1>2, <2>2, <2>3, <2>7, <2>8 DEF LayoutInv
  <1> QED
    BY <1>5, <1>6

\* A round of the loop over the columns moves the width of one column from
\* what is left of the object to where it ends.
LEMMA EndColKeeps == LayoutInv /\ FindEndCol => LayoutInv'
  <1> SUFFICES ASSUME LayoutInv, FindEndCol PROVE LayoutInv'
    OBVIOUS
  <1>1. /\ SheetInv /\ job \in Job /\ StartInv /\ ColInv /\ RowInv
        /\ UNCHANGED <<cols, heights>> /\ job.pc = "endCol"
    BY DEF LayoutInv, FindEndCol, Round
  <1>2. SheetInv'
    BY <1>1 DEF SheetInv
  <1> DEFINE w == GetColWidth(job.colEnd + 1)
  <1>3. /\ w \in Nat /\ w # 0 /\ job.colEnd \in Nat /\ job.width \in Nat
        /\ Left(job.colEnd) \in Nat /\ Left(job.colEnd + 1) = Left(job.colEnd) + w
    <2>1. job.colEnd \in Nat /\ job.width \in Nat
      BY <1>1 DEF Job
    <2> QED
      BY <1>1, <2>1, SheetInvImplies
  <1>4. /\ Left(job.colEnd) + job.width = Left(job.col) + job.x1 + job.req.width
        /\ job.colEnd + job.width <= LastCell
    BY <1>1 DEF ColInv
  <1>5. /\ \A n : GetColWidth(n)' = GetColWidth(n)
        /\ \A n : Left(n)' = Left(n)
        /\ \A n : Top(n)' = Top(n)
    BY <1>1, SameCells
  <1>6. CASE job.width >= w
    <2> DEFINE left == job.width - w
               next == job.colEnd + 1
    <2>1. job' = [job EXCEPT !.width = left, !.colEnd = next]
      <3>1. job.colEnd < LastCell
        BY <1>3, <1>4, <1>6, Numbers
      <3> QED
        BY <1>6, <3>1 DEF FindEndCol, Round, Succ
    <2>2. left \in Nat /\ next \in Nat /\ next + left <= LastCell
      BY <1>3, <1>4, <1>6, Numbers
    <2>3. Left(next) + left = Left(job.col) + job.x1 + job.req.width
      BY <1>3, <1>4, <1>6
    <2> HIDE DEF left, next
    <2>4. /\ job' \in Job /\ job'.pc = "endCol" /\ job'.req = job.req
          /\ job'.col = job.col /\ job'.row = job.row /\ job'.x1 = job.x1 /\ job'.y1 = job.y1
          /\ job'.colEnd = next /\ job'.width = left
          /\ job'.rowEnd = job.rowEnd /\ job'.height = job.height
      BY <1>1, <2>1, <2>2 DEF Job
    <2>5. StartInv'
      BY <1>1, <2>4 DEF StartInv
    <2>6. ColInv'
      BY <1>5, <2>2, <2>3, <2>4 DEF ColInv
    <2>7. RowInv'
      BY <1>1, <1>5, <2>4 DEF RowInv
    <2> QED
      BY <1>2, <2>4, <2>5, <2>6, <2>7 DEF LayoutInv
  <1>7. CASE ~(job.width >= w)
    <2>1. job' = [job EXCEPT !.pc = "endRow"] /\ job.width < w
      BY <1>3, <1>7 DEF FindEndCol, Round
    <2> HIDE DEF w
    <2>2. /\ job' \in Job /\ job'.pc = "endRow" /\ job'.req = job.req
          /\ job'.col = job.col /\ job'.row = job.row /\ job'.x1 = job.x1 /\ job'.y1 = job.y1
          /\ job'.colEnd = job.colEnd /\ job'.width = job.width
          /\ job'.rowEnd = job.rowEnd /\ job'.height = job.height
      BY <1>1, <2>1 DEF Job, Loops
    <2>3. StartInv'
      BY <1>1, <2>2 DEF StartInv
    <2>4. ColInv'
      BY <1>4, <1>5, <2>1, <2>2 DEF ColInv, w
    <2>5. RowInv'
      BY <1>1, <1>5, <2>2 DEF RowInv
    <2> QED
      BY <1>2, <2>2, <2>3, <2>4, <2>5 DEF LayoutInv
  <1> QED
    BY <1>6, <1>7

\* The same of the rows.
LEMMA EndRowKeeps == LayoutInv /\ FindEndRow => LayoutInv'
  <1> SUFFICES ASSUME LayoutInv, FindEndRow PROVE LayoutInv'
    OBVIOUS
  <1>1. /\ SheetInv /\ job \in Job /\ StartInv /\ ColInv /\ RowInv
        /\ UNCHANGED <<cols, heights>> /\ job.pc = "endRow"
    BY DEF LayoutInv, FindEndRow, Round
  <1>2. SheetInv'
    BY <1>1 DEF SheetInv
  <1> DEFINE h == GetRowHeight(job.rowEnd)
  <1>3. /\ h \in Nat /\ h # 0 /\ job.rowEnd \in Nat /\ job.height \in Nat
        /\ Top(job.rowEnd) \in Nat /\ Top(job.rowEnd + 1) = Top(job.rowEnd) + h
    <2>1. job.rowEnd \in Nat /\ job.height \in Nat
      BY <1>1 DEF Job
    <2> QED
      BY <1>1, <2>1, SheetInvImplies
  <1>4. /\ Top(job.rowEnd) + job.height = Top(job.row) + job.y1 + job.req.height
        /\ job.rowEnd + job.height <= LastCell
    BY <1>1 DEF RowInv
  <1>5. /\ \A n : GetColWidth(n)' = GetColWidth(n)
        /\ \A n : GetRowHeight(n)' = GetRowHeight(n)
        /\ \A n : Left(n)' = Left(n)
        /\ \A n : Top(n)' = Top(n)
    BY <1>1, SameCells
  <1>6. CASE job.height >= h
    <2> DEFINE left == job.height - h
               next == job.rowEnd + 1
    <2>1. job' = [job EXCEPT !.height = left, !.rowEnd = next]
      <3>1. job.rowEnd < LastCell
        BY <1>3, <1>4, <1>6, Numbers
      <3> QED
        BY <1>6, <3>1 DEF FindEndRow, Round, Succ
    <2>2. left \in Nat /\ next \in Nat /\ next + left <= LastCell
      BY <1>3, <1>4, <1>6, Numbers
    <2>3. Top(next) + left = Top(job.row) + job.y1 + job.req.height
      BY <1>3, <1>4, <1>6
    <2> HIDE DEF left, next
    <2>4. /\ job' \in Job /\ job'.pc = "endRow" /\ job'.req = job.req
          /\ job'.col = job.col /\ job'.row = job.row /\ job'.x1 = job.x1 /\ job'.y1 = job.y1
          /\ job'.colEnd = job.colEnd /\ job'.width = job.width
          /\ job'.rowEnd = next /\ job'.height = left
      BY <1>1, <2>1, <2>2 DEF Job
    <2>5. StartInv'
      BY <1>1, <2>4 DEF StartInv
    <2>6. ColInv'
      BY <1>1, <1>5, <2>4 DEF ColInv
    <2>7. RowInv'
      BY <1>5, <2>2, <2>3, <2>4 DEF RowInv
    <2> QED
      BY <1>2, <2>4, <2>5, <2>6, <2>7 DEF LayoutInv
  <1>7. CASE ~(job.height >= h)
    <2>1. job' = [job EXCEPT !.pc = "placed"] /\ job.height < h
      BY <1>3, <1>7 DEF FindEndRow, Round
    <2> HIDE DEF h
    <2>2. /\ job' \in Job /\ job'.pc = "placed" /\ job'.req = job.req
          /\ job'.col = job.col /\ job'.row = job.row /\ job'.x1 = job.x1 /\ job'.y1 = job.y1
          /\ job'.colEnd = job.colEnd /\ job'.width = job.width
          /\ job'.rowEnd = job.rowEnd /\ job'.height = job.height
      BY <1>1, <2>1 DEF Job, Loops
    <2>3. StartInv'
      BY <1>1, <2>2 DEF StartInv
    <2>4. ColInv'
      BY <1>1, <1>5, <2>2 DEF ColInv
    <2>5. RowInv'
      BY <1>4, <1>5, <2>1, <2>2 DEF RowInv, h
    <2> QED
      BY <1>2, <2>2, <2>3, <2>4, <2>5 DEF LayoutInv
  <1> QED
    BY <1>6, <1>7

-----------------------------------------------------------------------------
(* The theorems.                                                           *)

LEMMA NextKeeps == LayoutInv /\ [Next]_vars => LayoutInv'
  <1> SUFFICES ASSUME LayoutInv, [Next]_vars PROVE LayoutInv'
    OBVIOUS
  <1>1. CASE UNCHANGED vars
    <2>1. UNCHANGED <<cols, heights>> /\ job' = job
      BY <1>1 DEF vars
    <2>2. /\ \A n : GetColWidth(n)' = GetColWidth(n)
          /\ \A n : GetRowHeight(n)' = GetRowHeight(n)
          /\ \A n : Left(n)' = Left(n)
          /\ \A n : Top(n)' = Top(n)
      BY <2>1, SameCells
    <2> QED
      BY <2>1, <2>2 DEF LayoutInv, SheetInv, StartInv, ColInv, RowInv
  <1>2. CASE Next
    BY <1>2, ColumnsKeep, RowsKeep, PlaceKeeps, StartKeeps, EndColKeeps, EndRowKeeps
    DEF Next, PositionStep
  <1> QED
    BY <1>1, <1>2

\* The invariant of the loops of positionObjectPixels holds whatever columns
\* and rows were set before: what is left of the object lies where the loop is.
THEOREM LayoutInvHolds == Spec => []LayoutInv
  BY InitKeeps, NextKeeps, PTL DEF Spec

\* The list of column ranges stays one of well-formed entries, and what
\* positionObjectPixels has left of an offset or a size is never negative.
THEOREM LayoutTypeCorrect == Spec => []TypeOK
  <1>1. LayoutInv => TypeOK
    BY DEF LayoutInv, SheetInv, TypeOK
  <1> QED
    BY <1>1, LayoutInvHolds, PTL

\* The corners positionObjectPixels answers with lie where the object does,
\* whatever its size, the widths of the columns and the heights of the rows.
THEOREM AnchorExactAlways == Spec => []AnchorExact
  <1>1. LayoutInv => AnchorExact
    <2> SUFFICES ASSUME LayoutInv, job.pc = "placed"
                 PROVE  LET left == Left(job.req.col) + job.req.x
                            top  == Top(job.req.row) + job.req.y
                        IN  /\ Left(From.col) + From.colOff = left
                            /\ Top(From.row) + From.rowOff = top
                            /\ Left(To.col) + To.colOff = left + job.req.width
                            /\ Top(To.row) + To.rowOff = top + job.req.height
                            /\ To.colOff < GetColWidth(To.col + 1)
                            /\ To.rowOff < GetRowHeight(To.row)
      BY DEF AnchorExact
    <2>1. /\ From.col = job.req.col /\ From.colOff = job.req.x
          /\ From.row = job.req.row /\ From.rowOff = job.req.y
      BY DEF LayoutInv, StartInv, From
    <2>2. /\ To.col = job.colEnd /\ To.colOff = job.width
          /\ To.row = job.rowEnd /\ To.rowOff = job.height
      BY DEF To
    <2>3. /\ Left(job.colEnd) + job.width = Left(job.req.col) + job.req.x + job.req.width
          /\ job.width < GetColWidth(job.colEnd + 1)
      BY DEF LayoutInv, StartInv, ColInv
    <2>4. /\ Top(job.rowEnd) + job.height = Top(job.req.row) + job.req.y + job.req.height
          /\ job.height < GetRowHeight(job.rowEnd)
      BY DEF LayoutInv, StartInv, RowInv
    <2> QED
      BY <2>1, <2>2, <2>3, <2>4
  <1> QED
    BY <1>1, LayoutInvHolds, PTL

-----------------------------------------------------------------------------
(* The list of ranges implements a table of columns.                       *)

\* LastMatch of any list
MatchIn(s, c) ==
  IF \E i \in 1..Len(s) : Covers(s[i], c)
  THEN s[CHOOSE i \in 1..Len(s) :
           Covers(s[i], c) /\ \A j \in (i + 1)..Len(s) : ~Covers(s[j], c)]
  ELSE NewEntry(c)

LEMMA MatchUnique ==
  ASSUME NEW s, Len(s) \in Nat, NEW c, NEW k \in 1..Len(s), Covers(s[k], c),
         \A j \in (k + 1)..Len(s) : ~Covers(s[j], c)
  PROVE  MatchIn(s, c) = s[k]
  <1> DEFINE P(i) == Covers(s[i], c) /\ \A j \in (i + 1)..Len(s) : ~Covers(s[j], c)
             i    == CHOOSE i \in 1..Len(s) : P(i)
  <1>1. MatchIn(s, c) = s[i]
    BY Zenon DEF MatchIn
  <1>2. i \in 1..Len(s) /\ P(i)
    BY Zenon
  <1> HIDE DEF i
  <1>3. i = k
    BY <1>2
  <1> QED
    BY <1>1, <1>3

\* a setter counts for the columns its entry covers, and for no other
LEMMA AppendMatch ==
  ASSUME cols \in Seq(ColEntry), NEW entry \in ColEntry, cols' = Append(cols, entry), NEW c
  PROVE  LastMatch(c)' = IF Covers(entry, c) THEN entry ELSE LastMatch(c)
  <1> DEFINE n == Len(cols)
             t == cols'
  <1>1. /\ n \in Nat /\ Len(t) = n + 1 /\ t[n + 1] = entry
        /\ \A i \in 1..n : t[i] = cols[i]
    OBVIOUS
  <1>2. LastMatch(c)' = MatchIn(t, c) /\ LastMatch(c) = MatchIn(cols, c)
    BY DEF LastMatch, MatchIn
  <1> HIDE DEF n, t
  <1>3. CASE Covers(entry, c)
    <2>1. n + 1 \in 1..Len(t) /\ Len(t) \in Nat /\ \A j \in (n + 1 + 1)..Len(t) : FALSE
      BY <1>1
    <2>2. MatchIn(t, c) = t[n + 1]
      <3> DEFINE k == n + 1
      <3>1. k \in 1..Len(t) /\ \A j \in (k + 1)..Len(t) : ~Covers(t[j], c)
        BY <2>1
      <3>2. Covers(t[k], c)
        BY <1>1, <1>3
      <3> HIDE DEF k
      <3>3. MatchIn(t, c) = t[k]
        BY <2>1, <3>1, <3>2, MatchUnique
      <3> QED
        BY <3>3 DEF k
    <2> QED
      BY <1>1, <1>2, <1>3, <2>2
  <1>4. CASE ~Covers(entry, c) /\ \E i \in 1..Len(cols) : Covers(cols[i], c)
    <2>1. PICK k \in 1..Len(cols) :
            Covers(cols[k], c) /\ \A j \in (k + 1)..Len(cols) : ~Covers(cols[j], c)
      BY <1>4, LastOne
    <2>2. MatchIn(cols, c) = cols[k]
      BY <1>1, <2>1, MatchUnique DEF n
    <2>3. /\ k \in 1..Len(t) /\ Len(t) \in Nat /\ t[k] = cols[k]
          /\ \A j \in (k + 1)..Len(t) : ~Covers(t[j], c)
      <3>1. k \in 1..n /\ \A j \in (k + 1)..n : ~Covers(cols[j], c)
        BY <2>1 DEF n
      <3>2. \A j \in (k + 1)..(n + 1) : (j \in (k + 1)..n /\ j \in 1..n) \/ j = n + 1
        BY <1>1, <3>1
      <3> QED
        BY <1>1, <1>4, <3>1, <3>2
    <2>4. MatchIn(t, c) = t[k]
      BY <2>1, <2>3, MatchUnique
    <2> QED
      BY <1>2, <1>4, <2>2, <2>3, <2>4
  <1>5. CASE ~Covers(entry, c) /\ ~ \E i \in 1..Len(cols) : Covers(cols[i], c)
    <2>1. ~ \E i \in 1..Len(t) : Covers(t[i], c)
      <3>1. \A i \in 1..(n + 1) : i \in 1..n \/ i = n + 1
        BY <1>1
      <3> QED
        BY <1>1, <1>5, <3>1 DEF n
    <2> QED
      BY <1>2, <1>5, <2>1 DEF MatchIn
  <1> QED
    BY <1>3, <1>4, <1>5

\* what the getters show of an entry
Shown(e) == [width |-> e.width, hidden |-> ~(~e.hidden), level |-> e.level, style |-> e.style]

\* the table of the refinement
TableOf == [c \in Cols |-> [width  |-> LastMatch(c).width,
                            hidden |-> ~GetColVisible(c),
                            level  |-> GetColOutlineLevel(c),
                            style  |-> LastMatch(c).style]]

LEMMA TableShows ==
  /\ TableOf = [c \in Cols |-> Shown(LastMatch(c))]
  /\ TableOf' = [c \in Cols |-> Shown(LastMatch(c)')]
  BY DEF TableOf, Shown, GetColVisible, GetColOutlineLevel

LEMMA TableAppend ==
  ASSUME LayoutInv, NEW entry \in ColEntry, AppendCol(entry)
  PROVE  TableOf' = [c \in Cols |-> IF Covers(entry, c) THEN Shown(entry) ELSE TableOf[c]]
  <1>1. cols \in Seq(ColEntry) /\ cols' = Append(cols, entry)
    BY DEF LayoutInv, SheetInv, AppendCol
  <1>2. \A c \in Cols : LastMatch(c)' = IF Covers(entry, c) THEN entry ELSE LastMatch(c)
    BY <1>1, AppendMatch
  <1>3. \A c \in Cols : TableOf[c] = Shown(LastMatch(c))
    BY TableShows
  <1>4. TableOf' = [c \in Cols |-> Shown(LastMatch(c)')]
    BY TableShows
  <1>5. \A c \in Cols : Shown(LastMatch(c)') = IF Covers(entry, c) THEN Shown(entry) ELSE TableOf[c]
    BY <1>2, <1>3
  <1> QED
    BY <1>4, <1>5

\* an entry is shown as it is
LEMMA ShownType ==
  ASSUME NEW e, e.width \in Widths \cup {0}, e.hidden \in BOOLEAN,
         e.level \in Levels \cup {0}, e.style \in Styles
  PROVE  /\ Shown(e) = [width |-> e.width, hidden |-> e.hidden, level |-> e.level,
                        style |-> e.style]
         /\ Shown(e) \in Table!Column
  <1>1. ~(~e.hidden) = e.hidden
    <2>1. CASE e.hidden = TRUE
      BY <2>1, Zenon
    <2>2. CASE e.hidden = FALSE
      BY <2>2, Zenon
    <2> QED
      BY <2>1, <2>2
  <1>2. Shown(e) = [width |-> e.width, hidden |-> e.hidden, level |-> e.level, style |-> e.style]
    BY <1>1, Zenon DEF Shown
  <1> QED
    BY <1>2 DEF Table!Column

LEMMA TableColumns ==
  ASSUME cols \in Seq(ColEntry)
  PROVE  /\ TableOf \in [Cols -> Table!Column]
         /\ \A c \in Cols : TableOf[c] = [width |-> LastMatch(c).width, hidden |-> LastMatch(c).hidden,
                                          level |-> LastMatch(c).level, style |-> LastMatch(c).style]
  <1>1. \A c \in Cols : /\ Shown(LastMatch(c)) \in Table!Column
                        /\ Shown(LastMatch(c)) =
                             [width |-> LastMatch(c).width, hidden |-> LastMatch(c).hidden,
                              level |-> LastMatch(c).level, style |-> LastMatch(c).style]
    BY MatchType, ShownType
  <1> QED
    BY <1>1, TableShows

\* the table of the columns the setters name, for a setter of one column
LEMMA OneColumn ==
  ASSUME LayoutInv, NEW c \in Cols, NEW e \in ColEntry, e.min = c, e.max = c, AppendCol(e)
  PROVE  TableOf' = [TableOf EXCEPT ![c] = Shown(e)]
  <1>1. \A k \in Cols : Covers(e, k) <=> k = c
    BY DEF Covers, Cols
  <1>2. TableOf' = [k \in Cols |-> IF Covers(e, k) THEN Shown(e) ELSE TableOf[k]]
    BY TableAppend
  <1>3. TableOf = [k \in Cols |-> TableOf[k]]
    BY DEF TableOf
  <1> QED
    BY <1>1, <1>2, <1>3

LEMMA VisibleRefines ==
  ASSUME LayoutInv, NEW c \in Cols, NEW visible \in BOOLEAN, SetColVisible(c, visible)
  PROVE  TableOf' = [TableOf EXCEPT ![c].hidden = ~visible]
  <1> DEFINE d == LastMatch(c)
             v == ~visible
             e == [d EXCEPT !.min = c, !.max = c, !.hidden = v]
  <1>1. d \in ColEntry /\ v \in BOOLEAN /\ cols \in Seq(ColEntry)
    BY MatchType DEF LayoutInv, SheetInv
  <1>2. AppendCol(e)
    BY DEF SetColVisible, ColData
  <1>3. TableOf[c] = [width |-> d.width, hidden |-> d.hidden, level |-> d.level,
                      style |-> d.style]
    BY <1>1, TableColumns
  <1> HIDE DEF d, v
  <1>4. /\ e \in ColEntry /\ e.min = c /\ e.max = c /\ e.width = d.width /\ e.hidden = v
        /\ e.level = d.level /\ e.style = d.style
    BY <1>1 DEF ColEntry
  <1> HIDE DEF e
  <1>5. Shown(e) = [width |-> d.width, hidden |-> v, level |-> d.level, style |-> d.style]
    BY <1>4, ShownType DEF ColEntry
  <1>6. Shown(e) = [TableOf[c] EXCEPT !.hidden = v]
    BY <1>3, <1>5
  <1>7. TableOf' = [TableOf EXCEPT ![c] = Shown(e)]
    BY <1>2, <1>4, OneColumn
  <1> QED
    BY <1>6, <1>7 DEF v

LEMMA LevelRefines ==
  ASSUME LayoutInv, NEW c \in Cols, NEW level \in Levels, SetColOutlineLevel(c, level)
  PROVE  TableOf' = [TableOf EXCEPT ![c].level = level]
  <1> DEFINE d == LastMatch(c)
             e == [d EXCEPT !.min = c, !.max = c, !.level = level]
  <1>1. d \in ColEntry /\ cols \in Seq(ColEntry)
    BY MatchType DEF LayoutInv, SheetInv
  <1>2. AppendCol(e)
    BY DEF SetColOutlineLevel, ColData
  <1>3. TableOf[c] = [width |-> d.width, hidden |-> d.hidden, level |-> d.level,
                      style |-> d.style]
    BY <1>1, TableColumns
  <1> HIDE DEF d
  <1>4. /\ e \in ColEntry /\ e.min = c /\ e.max = c /\ e.width = d.width /\ e.hidden = d.hidden
        /\ e.level = level /\ e.style = d.style
    BY <1>1 DEF ColEntry
  <1> HIDE DEF e
  <1>5. Shown(e) = [width |-> d.width, hidden |-> d.hidden, level |-> level, style |-> d.style]
    BY <1>4, ShownType DEF ColEntry
  <1>6. Shown(e) = [TableOf[c] EXCEPT !.level = level]
    BY <1>3, <1>5
  <1>7. TableOf' = [TableOf EXCEPT ![c] = Shown(e)]
    BY <1>2, <1>4, OneColumn
  <1> QED
    BY <1>6, <1>7

LEMMA WidthRefines ==
  ASSUME LayoutInv, NEW c \in Cols, NEW d \in Cols, NEW w \in Widths, SetColWidth(c, d, w)
  PROVE  \E from, to \in Cols :
           TableOf' = [k \in Cols |-> IF from <= k /\ k <= to THEN [Table!Plain EXCEPT !.width = w]
                                      ELSE TableOf[k]]
  <1> DEFINE min == IF c > d THEN d ELSE c
             max == IF c > d THEN c ELSE d
             e   == [NewEntry(min) EXCEPT !.max = max, !.width = w]
  <1>1. min \in Cols /\ max \in Cols
    OBVIOUS
  <1>2. AppendCol(e)
    BY DEF SetColWidth
  <1> HIDE DEF min, max
  <1>3. /\ e \in ColEntry /\ e.min = min /\ e.max = max /\ e.width = w /\ e.hidden = FALSE
        /\ e.level = 0 /\ e.style = 0
    BY <1>1, LayoutAssumption DEF ColEntry, NewEntry
  <1> HIDE DEF e
  <1>4. Shown(e) = [width |-> w, hidden |-> FALSE, level |-> 0, style |-> 0]
    BY <1>3, ShownType DEF ColEntry
  <1>5. Shown(e) = [Table!Plain EXCEPT !.width = w]
    <2>1. \A h : [[width |-> 0, hidden |-> h, level |-> 0, style |-> 0] EXCEPT !.width = w] =
                 [width |-> w, hidden |-> h, level |-> 0, style |-> 0]
      OBVIOUS
    <2> QED
      BY <1>4, <2>1, Zenon DEF Table!Plain
  <1>6. TableOf' = [k \in Cols |-> IF Covers(e, k) THEN Shown(e) ELSE TableOf[k]]
    BY <1>2, <1>3, TableAppend
  <1>7. TableOf' = [k \in Cols |-> IF min <= k /\ k <= max THEN Shown(e) ELSE TableOf[k]]
    <2>1. \A k : Covers(e, k) <=> min <= k /\ k <= max
      BY <1>3 DEF Covers
    <2> QED
      BY <1>6, <2>1
  <1> QED
    BY <1>1, <1>5, <1>7

\* Every setter of a column is a step of the abstract table: a column is as
\* its last setter left it and no other column changes, however the ranges of
\* the list overlap.
THEOREM ColumnTableImplemented == Spec => ImplementsColumnTable
  <1> DEFINE table == [c \in Cols |-> [width  |-> LastMatch(c).width,
                                       hidden |-> ~GetColVisible(c),
                                       level  |-> GetColOutlineLevel(c),
                                       style  |-> LastMatch(c).style]]
  <1>1. table = TableOf /\ table' = TableOf'
    BY DEF TableOf
  <1>2. Table!Cols = Cols
    BY DEF Table!Cols, Cols
  <1>3. Init => Table!Init
    <2> SUFFICES ASSUME Init PROVE table \in [Table!Cols -> Table!Column]
      BY DEF Table!Init
    <2>1. cols \in Seq(ColEntry)
      BY LayoutAssumption DEF Init
    <2> QED
      BY <1>1, <1>2, <2>1, TableColumns
  <1>4. LayoutInv /\ [Next]_vars => [Table!Next]_table
    <2> SUFFICES ASSUME LayoutInv, [Next]_vars PROVE Table!Next \/ table' = table
      OBVIOUS
    <2>1. CASE cols' = cols
      <3>1. \A n : LastMatch(n)' = LastMatch(n)
        BY <2>1 DEF LastMatch
      <3> QED
        BY <3>1 DEF GetColVisible, GetColOutlineLevel
    <2>2. CASE SetColumns
      <3> HIDE DEF table
      <3>1. PICK c \in Cols : \/ \E visible \in BOOLEAN : SetColVisible(c, visible)
                              \/ \E level \in Levels : SetColOutlineLevel(c, level)
                              \/ \E d \in Cols, w \in Widths : SetColWidth(c, d, w)
        BY <2>2 DEF SetColumns
      <3>2. ASSUME NEW visible \in BOOLEAN, SetColVisible(c, visible) PROVE Table!Next
        <4>1. Table!SetColVisible(c, visible)
          <5>1. TableOf' = [TableOf EXCEPT ![c].hidden = ~visible]
            BY <3>2, VisibleRefines, Zenon
          <5> QED
            BY <5>1, Zenon DEF Table!SetColVisible, TableOf
        <4> QED
          BY <1>2, <4>1 DEF Table!Next
      <3>3. ASSUME NEW level \in Levels, SetColOutlineLevel(c, level) PROVE Table!Next
        <4>1. Table!SetColOutlineLevel(c, level)
          BY <1>1, <3>3, LevelRefines DEF Table!SetColOutlineLevel, table
        <4> QED
          BY <1>2, <4>1 DEF Table!Next
      <3>4. ASSUME NEW d \in Cols, NEW w \in Widths, SetColWidth(c, d, w) PROVE Table!Next
        <4>1. PICK from \in Cols, to \in Cols :
                TableOf' = [k \in Cols |-> IF from <= k /\ k <= to
                                           THEN [Table!Plain EXCEPT !.width = w] ELSE TableOf[k]]
          BY <3>4, WidthRefines
        <4>2. Table!SetColWidth(from, to, w)
          BY <1>1, <1>2, <4>1 DEF Table!SetColWidth, table
        <4> QED
          BY <1>2, <4>2 DEF Table!Next
      <3> QED
        BY <3>1, <3>2, <3>3, <3>4
    <2>3. cols' = cols \/ SetColumns
      <3>1. Place(Offsets) => cols' = cols
        BY DEF Place, PositionObjectPixels
      <3>2. PositionStep => cols' = cols
        BY DEF PositionStep, AdjustStartCol, AdjustStartRow, FindEndCol, FindEndRow, Round
      <3>3. SetRows => cols' = cols
        BY DEF SetRows, SetRowHeight
      <3> QED
        BY <3>1, <3>2, <3>3 DEF Next, vars
    <2> QED
      BY <2>1, <2>2, <2>3
  <1> QED
    BY <1>3, <1>4, LayoutInvHolds, PTL DEF Spec, ImplementsColumnTable, Table!Spec

=============================================================================
