---------------------------- MODULE StylesProofs ----------------------------
(***************************************************************************)
(* Proofs about module Styles: for every set of requests and lists of      *)
(* conditional rules, every choice of built-in, currency and language      *)
(* formats, and every style sheet to start from whose lists are counted    *)
(* and whose number formats are in order.                                  *)
(***************************************************************************)
EXTENDS Styles, FiniteSetTheorems, NaturalsInduction, WellFoundedInduction,
        SequenceTheorems, TLAPS

-----------------------------------------------------------------------------
(* Lists and registries only grow.                                         *)

IsList(l) == l \in Seq({l[i] : i \in 1..Len(l)})

LEMMA ListAppend ==
  ASSUME NEW l, IsList(l), NEW x
  PROVE  /\ Len(l) \in Nat /\ IsList(Append(l, x)) /\ Len(Append(l, x)) = Len(l) + 1
         /\ \A i \in 1..Len(l) : Append(l, x)[i] = l[i]
         /\ Append(l, x)[Len(l) + 1] = x
  <1> DEFINE S == {l[i] : i \in 1..Len(l)} \cup {x}
             a == Append(l, x)
             n == Len(l)
  <1>1. l \in Seq(S) /\ x \in S
    BY DEF IsList
  <1> HIDE DEF S
  <1>2. /\ a \in Seq(S) /\ Len(a) = n + 1 /\ n \in Nat
        /\ \A i \in 1..n : a[i] = l[i]
        /\ a[n + 1] = x
    BY <1>1, AppendProperties
  <1> HIDE DEF a, n
  <1>3. a \in Seq({a[i] : i \in 1..Len(a)})
    BY <1>2
  <1> QED
    BY <1>2, <1>3 DEF IsList, a, n

LEMMA ListEmpty == IsList(<< >>) /\ Len(<< >>) = 0
  BY DEF IsList

\* the entry Add adds is found where the Count was, and no other moves
LEMMA Added ==
  ASSUME NEW r, IsRegistry(r), NEW x
  PROVE  /\ r.Count \in Nat /\ IsRegistry(Add(r, x)) /\ Add(r, x).Count = r.Count + 1
         /\ Add(r, x).Count - 1 = r.Count
         /\ \A i \in 0..(r.Count - 1) : At(Add(r, x), i) = At(r, i)
         /\ At(Add(r, x), r.Count) = x
  <1>1. IsList(r.list) /\ r.Count = Len(r.list)
    BY DEF IsRegistry, IsList
  <1> DEFINE a == Append(r.list, x)
             n == Len(r.list)
  <1>2. /\ n \in Nat /\ IsList(a) /\ Len(a) = n + 1
        /\ \A i \in 1..n : a[i] = r.list[i]
        /\ a[n + 1] = x
    BY <1>1, ListAppend
  <1>3. Add(r, x).list = a /\ Add(r, x).Count = n + 1
    BY <1>1 DEF Add
  <1> HIDE DEF a, n
  <1>4. IsRegistry(Add(r, x))
    BY <1>2, <1>3 DEF IsRegistry, IsList
  <1>5. \A i \in 0..(n - 1) : At(Add(r, x), i) = At(r, i)
    BY <1>2, <1>3 DEF At
  <1>6. At(Add(r, x), n) = x
    BY <1>2, <1>3 DEF At
  <1> QED
    BY <1>1, <1>2, <1>3, <1>4, <1>5, <1>6 DEF n

\* every entry of the larger list satisfies what the entries before and the
\* new one do
LEMMA AddedAll ==
  ASSUME NEW r, IsRegistry(r), NEW x
  PROVE  /\ Len(Add(r, x).list) = Len(r.list) + 1 /\ Len(r.list) \in Nat
         /\ \A i \in 1..Len(Add(r, x).list) :
              \/ i \in 1..Len(r.list) /\ Add(r, x).list[i] = r.list[i]
              \/ i = Len(r.list) + 1 /\ Add(r, x).list[i] = x
  <1>1. IsList(r.list)
    BY DEF IsRegistry, IsList
  <1>2. Add(r, x).list = Append(r.list, x)
    BY DEF Add
  <1> DEFINE n == Len(r.list)
  <1>3. /\ n \in Nat /\ Len(Append(r.list, x)) = n + 1
        /\ \A i \in 1..n : Append(r.list, x)[i] = r.list[i]
        /\ Append(r.list, x)[n + 1] = x
    BY <1>1, ListAppend
  <1> HIDE DEF n
  <1>4. \A i \in 1..(n + 1) : i \in 1..n \/ i = n + 1
    BY <1>3
  <1> QED
    BY <1>2, <1>3, <1>4 DEF n

LEMMA AddedEach ==
  ASSUME NEW r, IsRegistry(r), NEW x, NEW S, x \in S, \A i \in 1..Len(r.list) : r.list[i] \in S
  PROVE  \A i \in 1..Len(Add(r, x).list) : Add(r, x).list[i] \in S
  BY AddedAll

-----------------------------------------------------------------------------
(* The entries a request is made into.                                     *)

\* a set of numbers has a least one, and a finite one a largest
LEMMA Least ==
  ASSUME NEW S, S \subseteq Nat, S # {}
  PROVE  \E n \in S : \A m \in S : n <= m
  <1> DEFINE R == OpToRel(<, Nat)
  <1>1. IsWellFoundedOn(R, Nat)
    BY NatLessThanWellFounded
  <1>2. \A x, y \in Nat : <<y, x>> \in R <=> y < x
    BY DEF R, OpToRel
  <1> HIDE DEF R
  <1>3. PICK x \in S : \A y \in S : ~ (<<y, x>> \in R)
    BY <1>1, WFMin
  <1>4. \A y \in S : ~(y < x)
    BY <1>2, <1>3, Zenon
  <1> QED
    BY <1>4

LEMMA Largest ==
  ASSUME NEW n \in Nat, NEW S, S \subseteq 1..n, S # {}
  PROVE  \E i \in S : \A j \in S : j <= i
  <1> DEFINE T == {n - i : i \in S}
  <1>1. T \subseteq Nat /\ T # {}
    <2>1. \A i \in S : n - i \in Nat
      OBVIOUS
    <2> QED
      BY <2>1
  <1>2. PICK t \in T : \A u \in T : t <= u
    <2> HIDE DEF T
    <2> QED
      BY <1>1, Least
  <1>3. PICK i \in S : t = n - i
    OBVIOUS
  <1>4. \A j \in S : n - i <= n - j
    BY <1>2, <1>3
  <1> QED
    BY <1>4

LEMMA FontType ==
  ASSUME NEW r \in Requests, r.font # << >>
  PROVE  SetFont(r.font[1]) \in Font
  <1> DEFINE f == r.font[1]
  <1>1. f \in [size : Nat, family : STRING, underline : STRING]
    <2>1. r.font \in Seq([size : Nat, family : STRING, underline : STRING])
      BY RequestsAssumption
    <2> DEFINE R == [size : Nat, family : STRING, underline : STRING]
    <2> HIDE DEF R
    <2>2. r.font \in Seq(R)
      BY <2>1 DEF R
    <2>3. f \in R
      BY <2>2
    <2> QED
      BY <2>3 DEF R
  <1> HIDE DEF f
  <1>2. (IF f.size < 1 THEN 11 ELSE f.size) \in Nat
    BY <1>1
  <1>3. (IF f.underline \in {"single", "double"} THEN f.underline ELSE "") \in Underlines
    BY DEF Underlines
  <1>4. SetFont(f) \in Font
    BY <1>2, <1>3 DEF SetFont, Font
  <1> QED
    BY <1>4 DEF f

LEMMA FillType ==
  ASSUME NEW f, NEW fg \in BOOLEAN
  PROVE  SetFills(f, fg) = << >> \/ (Len(SetFills(f, fg)) = 1 /\ SetFills(f, fg)[1] \in Fill
                                     /\ SetFills(f, fg) = << SetFills(f, fg)[1] >>)
  <1>1. \A y : << y >>[1] = y /\ Len(<< y >>) = 1
    OBVIOUS
  <1>2. TRUE \in BOOLEAN
    OBVIOUS
  <1>3. CASE f.type = "gradient" /\ f.colors = 2
    <2> DEFINE kind == IF f.shading \in 4..5 THEN "path" ELSE "gradient"
               how  == IF f.shading \in 0..5 THEN f.shading ELSE 1
               y    == [kind |-> kind, how |-> how, fg |-> TRUE]
    <2>1. SetFills(f, fg) = << y >>
      BY <1>3 DEF SetFills
    <2>2. kind \in {"gradient", "path", "pattern", "empty"} /\ how \in Nat
      OBVIOUS
    <2> HIDE DEF kind, how
    <2>3. y \in Fill
      BY <1>2, <2>2 DEF Fill
    <2> HIDE DEF y
    <2> QED
      BY <1>1, <2>1, <2>3
  <1>4. CASE ~(f.type = "gradient" /\ f.colors = 2) /\ f.type = "pattern" /\ f.pattern \in 0..18 /\ f.colors >= 1
    <2> DEFINE y == [kind |-> "pattern", how |-> f.pattern, fg |-> fg]
    <2>1. SetFills(f, fg) = << y >>
      BY <1>4 DEF SetFills
    <2>2. y \in Fill
      BY <1>4 DEF Fill
    <2> HIDE DEF y
    <2> QED
      BY <1>1, <2>1, <2>2
  <1>5. CASE /\ ~(f.type = "gradient" /\ f.colors = 2)
             /\ ~(f.type = "pattern" /\ f.pattern \in 0..18 /\ f.colors >= 1)
             /\ f.type \in {"gradient", "pattern"}
    <2> DEFINE y == [kind |-> "empty", how |-> 0, fg |-> TRUE]
    <2>1. SetFills(f, fg) = << y >>
      BY <1>5 DEF SetFills
    <2>2. y \in Fill
      BY <1>2 DEF Fill
    <2> HIDE DEF y
    <2> QED
      BY <1>1, <2>1, <2>2
  <1>6. CASE f.type \notin {"gradient", "pattern"}
    BY <1>6 DEF SetFills
  <1> QED
    BY <1>3, <1>4, <1>5, <1>6

LEMMA BorderType ==
  ASSUME NEW r \in Requests
  PROVE  SetBorders(r.border).lines \in Border
  <1> DEFINE lines == r.border
             n == Len(r.border)
             valid == {i \in 1..n : lines[i].style \in 0..13}
             on(sides) == {i \in valid : lines[i].side \in sides}
             last(sides) == IF on(sides) = {} THEN 0
                            ELSE lines[CHOOSE i \in on(sides) : \A j \in on(sides) : j <= i].style
             names == {"left", "right", "top", "bottom", "diagonal"}
  <1>1. n \in Nat
    BY RequestsAssumption
  <1>2. \A sides : last(sides) \in 0..13
    <2> TAKE sides
    <2>1. CASE on(sides) = {}
      <3>1. last(sides) = 0
        BY <2>1, Zenon
      <3>2. 0 \in 0..13
        OBVIOUS
      <3> QED
        BY <3>1, <3>2, Zenon
    <2>2. CASE on(sides) # {}
      <3> DEFINE o == on(sides)
                 k == CHOOSE i \in o : \A j \in o : j <= i
      <3>1. o \subseteq 1..n /\ o # {} /\ \A i \in o : lines[i].style \in 0..13
        BY <2>2
      <3>2. last(sides) = lines[k].style
        BY <2>2
      <3> HIDE DEF o, last
      <3>3. \E i \in o : \A j \in o : j <= i
        BY <1>1, <3>1, Largest
      <3>4. k \in o
        BY <3>3, Zenon
      <3> QED
        BY <3>1, <3>2, <3>4
    <2> QED
      BY <2>1, <2>2
  <1>3. SetBorders(r.border).lines =
          [s \in names |-> IF s = "diagonal" THEN last({"diagonalUp", "diagonalDown"}) ELSE last({s})]
    BY DEF SetBorders
  <1> HIDE DEF last
  <1> QED
    BY <1>2, <1>3 DEF Border

-----------------------------------------------------------------------------
(* Number formats.                                                         *)

\* the entry for a number, or a built-in number no entry has
HasCode(s, id, code) ==
  \/ \E i \in 1..Len(s.numFmts) : s.numFmts[i].id = id /\ s.numFmts[i].code = code
  \/ id \in BuiltIn /\ code = <<"builtin", id>>

\* numbers in order belong to one entry each, and to no built-in format
LEMMA CodeFound ==
  ASSUME IsSheet(styles), IsUsable(styles), NEW id, NEW code, HasCode(styles, id, code)
  PROVE  Code(id) = code
  <1> DEFINE l == styles.numFmts
             n == Len(l)
             found == {i \in 1..n : l[i].id = id}
  <1>1. /\ l \in Seq({l[i] : i \in 1..n})
        /\ \A i \in 1..n : l[i].id \in Nat /\ l[i].id >= FirstCustom
        /\ \A i, j \in 1..n : i < j => l[i].id < l[j].id
    BY DEF IsUsable, IsSheet
  <1>2. n \in Nat
    BY <1>1
  <1>3. CASE \E i \in 1..n : l[i].id = id /\ l[i].code = code
    <2>1. PICK i \in 1..n : l[i].id = id /\ l[i].code = code
      BY <1>3
    <2> DEFINE k == CHOOSE k \in found : \A j \in found : k <= j
    <2>2. found # {} /\ Code(id) = l[k].code
      BY <2>1 DEF Code
    <2>3. \E m \in found : \A j \in found : m <= j
      <3> HIDE DEF l, n
      <3>1. found \subseteq Nat
        BY <1>2
      <3> HIDE DEF found
      <3> QED
        BY <2>2, <3>1, Least
    <2>4. k \in found
      <3> HIDE DEF found
      <3> QED
        BY <2>3, Zenon
    <2> HIDE DEF k, l, n
    <2>5. k \in 1..n /\ l[k].id = id
      BY <2>4
    <2>6. ~(k < i) /\ ~(i < k)
      <3>1. id \in Nat
        BY <1>1, <2>1
      <3>2. ~(id < id)
        BY <3>1
      <3> QED
        BY <1>1, <2>1, <2>5, <3>2
    <2>7. k = i
      BY <1>2, <2>1, <2>5, <2>6
    <2> QED
      BY <2>1, <2>2, <2>7
  <1>4. CASE id \in BuiltIn /\ code = <<"builtin", id>>
    <2>1. id \in 0..163
      BY <1>4, StylesAssumption DEF FirstCustom
    <2>2. found = {}
      <3> HIDE DEF l, n
      <3>1. \A i \in 1..n : l[i].id >= 164
        BY <1>1 DEF FirstCustom
      <3>2. ~(id >= 164)
        BY <2>1
      <3> QED
        BY <3>1, <3>2
    <2> QED
      BY <1>4, <2>2 DEF Code
  <1> QED
    BY <1>3, <1>4 DEF HasCode

\* A request adds no number format, and the number is a built-in one, or adds
\* one after the last, with a number larger than all others.
LEMMA NumFmtAdded ==
  ASSUME NEW s, IsSheet(s), IsUsable(s), NEW r \in Requests, IsLang(r) => s.numFmts # << >>
  PROVE  \/ /\ NewNumFmt(s, r) = << >> /\ NumFmtID(s, r) \in BuiltIn
            /\ WantedCode(r) = <<"builtin", NumFmtID(s, r)>>
         \/ \E e : /\ NewNumFmt(s, r) = << e >> /\ NumFmtID(s, r) = e.id
                   /\ e.code = WantedCode(r) /\ e.id \in Nat /\ e.id >= FirstCustom
                   /\ \A i \in 1..Len(s.numFmts) : s.numFmts[i].id < e.id
  <1> DEFINE l == s.numFmts
             n == Len(l)
             next == NextNumFmtID(s, FirstCustom)
  <1>1. /\ l \in Seq({l[i] : i \in 1..n}) /\ n \in Nat
        /\ \A i \in 1..n : l[i].id \in Nat /\ l[i].id >= FirstCustom
        /\ \A i, j \in 1..n : i < j => l[i].id < l[j].id
    <2>1. l \in Seq({l[i] : i \in 1..n})
      BY DEF IsUsable
    <2>2. n \in Nat
      BY <2>1
    <2> QED
      BY <2>1, <2>2 DEF IsUsable, IsSheet
  <1>2. l # << >> => n \in 1..n /\ \A first : NextNumFmtID(s, first) = l[n].id + 1
    BY <1>1 DEF NextNumFmtID
  <1>3. next \in Nat /\ next >= FirstCustom /\ \A i \in 1..n : l[i].id < next
    <2>1. CASE l = << >>
      <3>1. next = FirstCustom /\ n = 0
        BY <2>1 DEF NextNumFmtID
      <3> QED
        BY <3>1 DEF FirstCustom
    <2>2. CASE l # << >>
      <3>1. next = l[n].id + 1 /\ n \in 1..n
        BY <1>2, <2>2
      <3> HIDE DEF next, l, n
      <3>2. l[n].id \in Nat /\ l[n].id >= 164
        BY <1>1, <3>1 DEF FirstCustom
      <3>3. next \in Nat /\ next >= 164
        BY <3>1, <3>2
      <3>4. ASSUME NEW i \in 1..n PROVE l[i].id < next
        <4>1. i = n \/ i < n
          BY <1>1
        <4>2. l[i].id \in Nat /\ (l[i].id = l[n].id \/ l[i].id < l[n].id)
          BY <1>1, <3>1, <4>1
        <4> QED
          BY <3>1, <3>2, <4>2
      <3> QED
        BY <3>3, <3>4 DEF FirstCustom
    <2> QED
      BY <2>1, <2>2
  <1>4. \A e : << e >> # << >> /\ << e >>[1] = e
    <2> TAKE e
    <2>1. Len(<< e >>) = 1 /\ Len(<< >>) = 0
      OBVIOUS
    <2> QED
      BY <2>1
  <1> HIDE DEF next, l, n
  <1>5. ASSUME NEW code, NewNumFmt(s, r) = << [id |-> next, code |-> code] >>, code = WantedCode(r)
        PROVE  \E e : /\ NewNumFmt(s, r) = << e >> /\ NumFmtID(s, r) = e.id
                      /\ e.code = WantedCode(r) /\ e.id \in Nat /\ e.id >= FirstCustom
                      /\ \A i \in 1..n : l[i].id < e.id
    <2> DEFINE e == [id |-> next, code |-> code]
    <2>1. e.id = next /\ e.code = code
      OBVIOUS
    <2>2. NewNumFmt(s, r) = << e >>
      BY <1>5
    <2> HIDE DEF e
    <2>3. NumFmtID(s, r) = e.id
      BY <1>4, <2>2 DEF NumFmtID
    <2> QED
      BY <1>3, <1>5, <2>1, <2>2, <2>3
  <1>6. CASE r.custom # None
    <2>1. /\ NewNumFmt(s, r) = << [id |-> next, code |-> <<"custom", r.custom>>] >>
          /\ WantedCode(r) = <<"custom", r.custom>>
      BY <1>6 DEF NewNumFmt, WantedCode, next
    <2> QED
      BY <1>5, <2>1 DEF n, l
  <1>7. CASE r.custom = None /\ r.numFmt \in BuiltIn
    <2>1. NewNumFmt(s, r) = << >> /\ WantedCode(r) = <<"builtin", r.numFmt>>
      BY <1>7 DEF NewNumFmt, WantedCode
    <2>2. NumFmtID(s, r) = r.numFmt
      BY <1>7, <2>1 DEF NumFmtID
    <2> QED
      BY <1>7, <2>1, <2>2
  <1>8. CASE r.custom = None /\ r.numFmt \notin BuiltIn /\ r.numFmt \in Currency
    <2> DEFINE code == <<"currency", r.numFmt, DecimalPlaces(r), r.negRed>>
    <2>1. NewNumFmt(s, r) = << [id |-> next, code |-> code] >> /\ WantedCode(r) = code
      BY <1>8 DEF NewNumFmt, WantedCode, next
    <2> HIDE DEF code
    <2> QED
      BY <1>5, <2>1 DEF n, l
  <1>9. CASE r.custom = None /\ r.numFmt \notin BuiltIn /\ r.numFmt \notin Currency
    <2>1. l # << >>
      BY <1>9 DEF IsLang, l
    <2>2. CASE r.lang \in DOMAIN Languages /\ r.numFmt \in Languages[r.lang]
      <3>1. NextNumFmtID(s, r.numFmt) = next
        BY <1>2, <2>1 DEF next
      <3>2. /\ NewNumFmt(s, r) = << [id |-> NextNumFmtID(s, r.numFmt),
                                     code |-> <<"lang", r.lang, r.numFmt>>] >>
            /\ WantedCode(r) = <<"lang", r.lang, r.numFmt>>
        BY <1>9, <2>2 DEF NewNumFmt, WantedCode
      <3> QED
        BY <1>5, <3>1, <3>2 DEF n, l
    <2>3. CASE ~(r.lang \in DOMAIN Languages /\ r.numFmt \in Languages[r.lang])
      <3>1. NewNumFmt(s, r) = << >> /\ WantedCode(r) = <<"builtin", 0>>
        BY <1>9, <2>3 DEF NewNumFmt, WantedCode
      <3>2. NumFmtID(s, r) = 0 /\ 0 \in BuiltIn
        BY <1>9, <3>1, StylesAssumption DEF NumFmtID
      <3> QED
        BY <3>1, <3>2
    <2> QED
      BY <2>2, <2>3
  <1> QED
    BY <1>6, <1>7, <1>8, <1>9

-----------------------------------------------------------------------------
(* What NewStyle makes of a style sheet.                                   *)

LEMMA WithStyleIs ==
  ASSUME NEW s, IsSheet(s), IsUsable(s), NEW r \in Requests
  PROVE  LET t    == WithStyle(s, r)
             fill == SetFills(r.fill, TRUE)
             font == IF r.font = << >> THEN 0 ELSE s.fonts.Count
             num  == NumFmtID(s, r)
         IN  /\ DOMAIN t = DOMAIN s
             /\ t.numFmts = s.numFmts \o NewNumFmt(s, r)
             /\ t.fonts = IF r.font = << >> THEN s.fonts ELSE Add(s.fonts, SetFont(r.font[1]))
             /\ t.fills = IF fill = << >> THEN s.fills ELSE Add(s.fills, fill[1])
             /\ t.borders = Add(s.borders, SetBorders(r.border))
             /\ t.dxfs = s.dxfs
             /\ t.cellXfs = Add(s.cellXfs,
                  [fontID |-> font, numFmtID |-> num,
                   fillID |-> IF fill = << >> THEN 0 ELSE s.fills.Count,
                   borderID |-> s.borders.Count, applyFont |-> font # 0,
                   applyNumberFormat |-> num # 0, alignment |-> r.alignment,
                   protection |-> r.protection])
  <1> DEFINE K == {"numFmts", "fonts", "fills", "borders", "cellXfs", "dxfs"}
             fill == SetFills(r.fill, TRUE)
             s1 == [s EXCEPT !.numFmts = @ \o NewNumFmt(s, r)]
             a2 == AddedFont(s1, r)
             s3 == [a2[1] EXCEPT !.borders = Add(@, SetBorders(r.border))]
             a4 == AddedFill(s3, r)
             num == NumFmtID(s, r)
             font == IF r.font = << >> THEN 0 ELSE s.fonts.Count
             fid == IF fill = << >> THEN 0 ELSE s.fills.Count
  <1>1. WithStyle(s, r) = SetCellXfs(a4[1], a2[2], num, a4[2], s3.borders.Count - 1, r)
    BY DEF WithStyle
  <1>2. DOMAIN s = K /\ IsRegistry(s.fonts) /\ IsRegistry(s.fills) /\ IsRegistry(s.borders)
    BY DEF IsUsable, IsSheet
  <1>3. /\ DOMAIN s1 = K /\ s1.numFmts = s.numFmts \o NewNumFmt(s, r)
        /\ s1.fonts = s.fonts /\ s1.fills = s.fills /\ s1.borders = s.borders
        /\ s1.cellXfs = s.cellXfs /\ s1.dxfs = s.dxfs
    BY <1>2
  <1> HIDE DEF s1, num
  <1>4. /\ DOMAIN a2[1] = K /\ a2[1].numFmts = s1.numFmts /\ a2[1].fills = s.fills
        /\ a2[1].borders = s.borders /\ a2[1].cellXfs = s.cellXfs /\ a2[1].dxfs = s.dxfs
        /\ a2[1].fonts = (IF r.font = << >> THEN s.fonts ELSE Add(s.fonts, SetFont(r.font[1])))
        /\ a2[2] = font
    <2>1. CASE r.font = << >>
      <3>1. a2 = <<s1, 0>>
        BY <2>1 DEF AddedFont
      <3> HIDE DEF a2
      <3>2. a2[1] = s1 /\ a2[2] = 0
        BY <3>1
      <3> QED
        BY <1>3, <2>1, <3>2
    <2>2. CASE r.font # << >>
      <3> DEFINE x == SetFont(r.font[1])
                 u == [s1 EXCEPT !.fonts = Add(@, x)]
      <3>1. a2 = <<u, u.fonts.Count - 1>>
        BY <2>2 DEF AddedFont
      <3> HIDE DEF a2, x
      <3>2. /\ DOMAIN u = K /\ u.numFmts = s1.numFmts /\ u.fills = s.fills
            /\ u.borders = s.borders /\ u.cellXfs = s.cellXfs /\ u.dxfs = s.dxfs
            /\ u.fonts = Add(s.fonts, x)
        BY <1>3
      <3> HIDE DEF u
      <3>3. u.fonts.Count - 1 = s.fonts.Count
        BY <1>2, <3>2, Added
      <3>4. a2[1] = u /\ a2[2] = s.fonts.Count
        BY <3>1, <3>3
      <3> QED
        BY <2>2, <3>2, <3>4 DEF x
    <2> QED
      BY <2>1, <2>2
  <1> HIDE DEF a2
  <1>5. /\ DOMAIN s3 = K /\ s3.numFmts = s1.numFmts /\ s3.fills = s.fills
        /\ s3.borders = Add(s.borders, SetBorders(r.border)) /\ s3.cellXfs = s.cellXfs
        /\ s3.dxfs = s.dxfs /\ s3.fonts = a2[1].fonts
    BY <1>4
  <1> HIDE DEF s3
  <1>6. s3.borders.Count - 1 = s.borders.Count
    BY <1>2, <1>5, Added
  <1>7. /\ DOMAIN a4[1] = K /\ a4[1].numFmts = s1.numFmts /\ a4[1].fonts = s3.fonts
        /\ a4[1].borders = s3.borders /\ a4[1].cellXfs = s.cellXfs /\ a4[1].dxfs = s.dxfs
        /\ a4[1].fills = (IF fill = << >> THEN s.fills ELSE Add(s.fills, fill[1]))
        /\ a4[2] = fid
    <2>1. CASE fill = << >>
      <3>1. a4 = <<s3, 0>>
        BY <2>1 DEF AddedFill
      <3> HIDE DEF a4
      <3>2. a4[1] = s3 /\ a4[2] = 0
        BY <3>1
      <3> QED
        BY <1>5, <2>1, <3>2
    <2>2. CASE fill # << >>
      <3> DEFINE u == [s3 EXCEPT !.fills = Add(@, fill[1])]
      <3>1. a4 = <<u, u.fills.Count - 1>>
        BY <2>2 DEF AddedFill
      <3> HIDE DEF a4, fill
      <3>2. /\ DOMAIN u = K /\ u.numFmts = s1.numFmts /\ u.fonts = s3.fonts
            /\ u.borders = s3.borders /\ u.cellXfs = s.cellXfs /\ u.dxfs = s.dxfs
            /\ u.fills = Add(s.fills, fill[1])
        BY <1>5
      <3> HIDE DEF u
      <3>3. u.fills.Count - 1 = s.fills.Count
        BY <1>2, <3>2, Added
      <3>4. a4[1] = u /\ a4[2] = s.fills.Count
        BY <3>1, <3>3
      <3> QED
        BY <2>2, <3>2, <3>4
    <2> QED
      BY <2>1, <2>2
  <1> HIDE DEF a4, fill, font, fid
  <1> DEFINE xf == [fontID |-> font, numFmtID |-> num, fillID |-> fid,
                    borderID |-> s.borders.Count, applyFont |-> font # 0,
                    applyNumberFormat |-> num # 0, alignment |-> r.alignment,
                    protection |-> r.protection]
             t == [a4[1] EXCEPT !.cellXfs = Add(@, xf)]
  <1>8. WithStyle(s, r) = t
    BY <1>1, <1>4, <1>6, <1>7 DEF SetCellXfs
  <1> HIDE DEF xf
  <1>9. /\ DOMAIN t = K /\ t.numFmts = s1.numFmts /\ t.fonts = s3.fonts /\ t.borders = s3.borders
        /\ t.dxfs = s.dxfs /\ t.fills = a4[1].fills /\ t.cellXfs = Add(s.cellXfs, xf)
    BY <1>7
  <1> HIDE DEF t
  <1> QED
    BY <1>2, <1>3, <1>4, <1>5, <1>7, <1>8, <1>9 DEF xf, font, fid, num, fill

-----------------------------------------------------------------------------
(* What a style means, and goes on meaning.                                *)

Registries == {"fonts", "fills", "borders", "cellXfs", "dxfs"}

\* a style sheet after calls that only add
Grows(s, t) ==
  /\ \A k \in Registries :
       /\ s[k].Count \in Nat /\ t[k].Count \in Nat /\ s[k].Count <= t[k].Count
       /\ \A i \in 0..(s[k].Count - 1) : At(t[k], i) = At(s[k], i)
  /\ \A i \in 1..Len(s.numFmts) : i \in 1..Len(t.numFmts) /\ t.numFmts[i] = s.numFmts[i]

\* the cell format xf of s is the style r
IsStyle(s, xf, r) ==
  /\ HasCode(s, xf.numFmtID, WantedCode(r))
  /\ xf.numFmtID # 0 => xf.applyNumberFormat
  /\ r.font # << >> => xf.applyFont /\ At(s.fonts, xf.fontID) = SetFont(r.font[1])
  /\ SetFills(r.fill, TRUE) # << >> => <<At(s.fills, xf.fillID)>> = SetFills(r.fill, TRUE)
  /\ At(s.borders, xf.borderID) = SetBorders(r.border)
  /\ xf.alignment = r.alignment /\ xf.protection = r.protection
  /\ xf.fontID \in 0..(s.fonts.Count - 1) /\ xf.fillID \in 0..(s.fills.Count - 1)
  /\ xf.borderID \in 0..(s.borders.Count - 1)

IsMeant(s, m) == /\ m.id \in 0..(s.cellXfs.Count - 1)
                 /\ IsStyle(s, At(s.cellXfs, m.id), m.request)

IsDMeant(s, m) == /\ m.id \in 0..(s.dxfs.Count - 1)
                  /\ At(s.dxfs, m.id) = DxfOf(m.request)

LEMMA StyleStays ==
  ASSUME NEW s, NEW t, Grows(s, t), NEW xf, NEW r, IsStyle(s, xf, r)
  PROVE  IsStyle(t, xf, r)
  <1>1. /\ At(t.fonts, xf.fontID) = At(s.fonts, xf.fontID)
        /\ At(t.fills, xf.fillID) = At(s.fills, xf.fillID)
        /\ At(t.borders, xf.borderID) = At(s.borders, xf.borderID)
    BY DEF Grows, Registries, IsStyle
  <1>2. xf.fontID \in 0..(t.fonts.Count - 1)
    <2>1. s.fonts.Count \in Nat /\ t.fonts.Count \in Nat /\ s.fonts.Count <= t.fonts.Count
      BY DEF Grows, Registries
    <2> QED
      BY <2>1 DEF IsStyle
  <1>3. xf.fillID \in 0..(t.fills.Count - 1)
    <2>1. s.fills.Count \in Nat /\ t.fills.Count \in Nat /\ s.fills.Count <= t.fills.Count
      BY DEF Grows, Registries
    <2> QED
      BY <2>1 DEF IsStyle
  <1>4. xf.borderID \in 0..(t.borders.Count - 1)
    <2>1. s.borders.Count \in Nat /\ t.borders.Count \in Nat /\ s.borders.Count <= t.borders.Count
      BY DEF Grows, Registries
    <2> QED
      BY <2>1 DEF IsStyle
  <1>5. HasCode(t, xf.numFmtID, WantedCode(r))
    BY DEF HasCode, Grows, IsStyle
  <1> QED
    BY <1>1, <1>2, <1>3, <1>4, <1>5 DEF IsStyle

LEMMA MeantStays ==
  ASSUME NEW s, NEW t, Grows(s, t), NEW m, IsMeant(s, m)
  PROVE  IsMeant(t, m)
  <1>1. /\ s.cellXfs.Count \in Nat /\ t.cellXfs.Count \in Nat /\ s.cellXfs.Count <= t.cellXfs.Count
        /\ At(t.cellXfs, m.id) = At(s.cellXfs, m.id)
    BY DEF Grows, Registries, IsMeant
  <1>2. m.id \in 0..(t.cellXfs.Count - 1)
    BY <1>1 DEF IsMeant
  <1>3. IsStyle(t, At(s.cellXfs, m.id), m.request)
    BY StyleStays DEF IsMeant
  <1> QED
    BY <1>1, <1>2, <1>3 DEF IsMeant

LEMMA DMeantStays ==
  ASSUME NEW s, NEW t, Grows(s, t), NEW m, IsDMeant(s, m)
  PROVE  IsDMeant(t, m)
  <1>1. /\ s.dxfs.Count \in Nat /\ t.dxfs.Count \in Nat /\ s.dxfs.Count <= t.dxfs.Count
        /\ At(t.dxfs, m.id) = At(s.dxfs, m.id)
    BY DEF Grows, Registries, IsDMeant
  <1>2. m.id \in 0..(t.dxfs.Count - 1)
    BY <1>1 DEF IsDMeant
  <1> QED
    BY <1>1, <1>2 DEF IsDMeant

\* a registry with or without an entry more
LEMMA MaybeAdded ==
  ASSUME NEW a, NEW b, IsRegistry(a), NEW x, b = a \/ b = Add(a, x)
  PROVE  /\ a.Count \in Nat /\ b.Count \in Nat /\ a.Count <= b.Count /\ IsRegistry(b)
         /\ \A i \in 0..(a.Count - 1) : At(b, i) = At(a, i)
  <1>1. a.Count \in Nat
    BY Added
  <1>2. CASE b = a
    BY <1>1, <1>2
  <1>3. CASE b = Add(a, x)
    BY <1>1, <1>3, Added
  <1> QED
    BY <1>2, <1>3

\* The style sheet after NewStyle is one, has what it had, and the cell format
\* it has more is the style that was asked for.
LEMMA WithStyleMeans ==
  ASSUME NEW s, IsSheet(s), IsUsable(s), NEW r \in Requests, IsLang(r) => s.numFmts # << >>
  PROVE  /\ IsSheet(WithStyle(s, r)) /\ IsUsable(WithStyle(s, r)) /\ Grows(s, WithStyle(s, r))
         /\ IsMeant(WithStyle(s, r), [id |-> WithStyle(s, r).cellXfs.Count - 1, request |-> r])
  <1> DEFINE t == WithStyle(s, r)
             fill == SetFills(r.fill, TRUE)
             font == IF r.font = << >> THEN 0 ELSE s.fonts.Count
             fid == IF fill = << >> THEN 0 ELSE s.fills.Count
             num == NumFmtID(s, r)
             xf == [fontID |-> font, numFmtID |-> num, fillID |-> fid,
                    borderID |-> s.borders.Count, applyFont |-> font # 0,
                    applyNumberFormat |-> num # 0, alignment |-> r.alignment,
                    protection |-> r.protection]
             border == SetBorders(r.border)
  <1>1. /\ DOMAIN t = DOMAIN s
        /\ t.numFmts = s.numFmts \o NewNumFmt(s, r)
        /\ t.fonts = (IF r.font = << >> THEN s.fonts ELSE Add(s.fonts, SetFont(r.font[1])))
        /\ t.fills = (IF fill = << >> THEN s.fills ELSE Add(s.fills, fill[1]))
        /\ t.borders = Add(s.borders, border)
        /\ t.dxfs = s.dxfs
        /\ t.cellXfs = Add(s.cellXfs, xf)
    BY WithStyleIs
  <1>2. /\ xf.fontID = font /\ xf.numFmtID = num /\ xf.fillID = fid
        /\ xf.borderID = s.borders.Count /\ xf.applyFont = (font # 0)
        /\ xf.applyNumberFormat = (num # 0) /\ xf.alignment = r.alignment
        /\ xf.protection = r.protection
    BY Zenon
  <1>3. /\ IsRegistry(s.fonts) /\ IsRegistry(s.fills) /\ IsRegistry(s.borders)
        /\ IsRegistry(s.cellXfs) /\ IsRegistry(s.dxfs)
        /\ s.fonts.Count >= 1 /\ s.fills.Count >= 1
    BY DEF IsSheet, IsUsable
  <1> HIDE DEF t, xf, fill, border
  <1>4. /\ s.fonts.Count \in Nat /\ t.fonts.Count \in Nat /\ s.fonts.Count <= t.fonts.Count
        /\ IsRegistry(t.fonts)
        /\ \A i \in 0..(s.fonts.Count - 1) : At(t.fonts, i) = At(s.fonts, i)
    BY <1>1, <1>3, MaybeAdded
  <1>5. /\ s.fills.Count \in Nat /\ t.fills.Count \in Nat /\ s.fills.Count <= t.fills.Count
        /\ IsRegistry(t.fills)
        /\ \A i \in 0..(s.fills.Count - 1) : At(t.fills, i) = At(s.fills, i)
    BY <1>1, <1>3, MaybeAdded
  <1>6. /\ s.borders.Count \in Nat /\ t.borders.Count = s.borders.Count + 1
        /\ IsRegistry(t.borders) /\ At(t.borders, s.borders.Count) = border
        /\ \A i \in 0..(s.borders.Count - 1) : At(t.borders, i) = At(s.borders, i)
    BY <1>1, <1>3, Added
  <1>7. /\ s.cellXfs.Count \in Nat /\ t.cellXfs.Count = s.cellXfs.Count + 1
        /\ IsRegistry(t.cellXfs) /\ At(t.cellXfs, s.cellXfs.Count) = xf
        /\ \A i \in 0..(s.cellXfs.Count - 1) : At(t.cellXfs, i) = At(s.cellXfs, i)
    BY <1>1, <1>3, Added
  <1>8. /\ s.dxfs.Count \in Nat /\ t.dxfs = s.dxfs
    BY <1>1, <1>3, Added
  <1> DEFINE l == s.numFmts
             n == Len(l)
  <1>9. /\ IsList(l) /\ n \in Nat
        /\ \A i \in 1..n : l[i].id \in Nat /\ l[i].id >= FirstCustom
        /\ \A i, j \in 1..n : i < j => l[i].id < l[j].id
    <2>1. IsList(l)
      BY DEF IsUsable, IsList
    <2>2. n \in Nat
      BY <2>1, ListAppend
    <2> QED
      BY <2>1, <2>2 DEF IsUsable, IsSheet
  <1> HIDE DEF l, n, num
  <1>10. /\ IsList(t.numFmts) /\ \A i \in 1..n : i \in 1..Len(t.numFmts) /\ t.numFmts[i] = l[i]
         /\ \A i \in 1..Len(t.numFmts) : t.numFmts[i].id \in Nat /\ t.numFmts[i].id >= FirstCustom
         /\ \A i, j \in 1..Len(t.numFmts) : i < j => t.numFmts[i].id < t.numFmts[j].id
         /\ HasCode(t, num, WantedCode(r)) /\ num \in Nat
    <2>1. CASE /\ NewNumFmt(s, r) = << >> /\ NumFmtID(s, r) \in BuiltIn
               /\ WantedCode(r) = <<"builtin", NumFmtID(s, r)>>
      <3>1. t.numFmts = l
        <4>1. l \in Seq({l[i] : i \in 1..n})
          BY <1>9 DEF IsList, n
        <4>2. l \o << >> = l
          BY <4>1, ConcatEmptySeq
        <4> QED
          BY <1>1, <2>1, <4>2 DEF l
      <3>2. HasCode(t, num, WantedCode(r))
        BY <2>1 DEF HasCode, num
      <3>3. num \in Nat
        BY <2>1, StylesAssumption DEF num
      <3> QED
        BY <1>9, <3>1, <3>2, <3>3 DEF n
    <2>2. ASSUME NEW e, NewNumFmt(s, r) = << e >>, NumFmtID(s, r) = e.id,
                 e.code = WantedCode(r), e.id \in Nat, e.id >= FirstCustom,
                 \A i \in 1..n : l[i].id < e.id
          PROVE  /\ IsList(t.numFmts) /\ \A i \in 1..n : i \in 1..Len(t.numFmts) /\ t.numFmts[i] = l[i]
                 /\ \A i \in 1..Len(t.numFmts) : t.numFmts[i].id \in Nat /\ t.numFmts[i].id >= FirstCustom
                 /\ \A i, j \in 1..Len(t.numFmts) : i < j => t.numFmts[i].id < t.numFmts[j].id
                 /\ HasCode(t, num, WantedCode(r)) /\ num \in Nat
      <3>1. t.numFmts = Append(l, e)
        <4> DEFINE S == {l[i] : i \in 1..n} \cup {e}
        <4>1. l \in Seq(S) /\ e \in S
          BY <1>9 DEF IsList, n
        <4> HIDE DEF S
        <4>2. Append(l, e) = l \o << e >>
          BY <4>1, AppendIsConcat
        <4> QED
          BY <1>1, <2>2, <4>2 DEF l
      <3> DEFINE m == t.numFmts
      <3> HIDE DEF m
      <3>2. /\ IsList(m) /\ Len(m) = n + 1 /\ m[n + 1] = e
            /\ \A i \in 1..n : m[i] = l[i]
        BY <1>9, <3>1, ListAppend DEF n, m
      <3>3. \A i \in 1..(n + 1) : i \in 1..n \/ i = n + 1
        BY <1>9
      <3>4. \A i \in 1..n : i \in 1..Len(m)
        BY <1>9, <3>2
      <3>5. \A i \in 1..Len(m) : m[i].id \in Nat /\ m[i].id >= FirstCustom
        BY <1>9, <2>2, <3>2, <3>3
      <3>6. ASSUME NEW i \in 1..Len(m), NEW j \in 1..Len(m), i < j PROVE m[i].id < m[j].id
        <4>1. i \in 1..n
          BY <1>9, <3>2, <3>6
        <4>2. CASE j \in 1..n
          BY <1>9, <3>2, <3>6, <4>1, <4>2
        <4>3. CASE j = n + 1
          BY <2>2, <3>2, <4>1, <4>3
        <4> QED
          BY <3>2, <3>3, <4>2, <4>3
      <3>7. HasCode(t, num, WantedCode(r))
        <4>1. n + 1 \in 1..Len(m)
          BY <1>9, <3>2
        <4> QED
          BY <2>2, <3>2, <4>1 DEF HasCode, num, m
      <3> QED
        BY <2>2, <3>2, <3>4, <3>5, <3>6, <3>7 DEF m, num
    <2> QED
      BY <2>1, <2>2, NumFmtAdded DEF l, n
  <1>11. Grows(s, t)
    <2>1. /\ t.borders.Count \in Nat /\ s.borders.Count <= t.borders.Count
          /\ t.cellXfs.Count \in Nat /\ s.cellXfs.Count <= t.cellXfs.Count
          /\ t.dxfs.Count \in Nat /\ s.dxfs.Count <= t.dxfs.Count
          /\ \A i \in 0..(s.dxfs.Count - 1) : At(t.dxfs, i) = At(s.dxfs, i)
      BY <1>6, <1>7, <1>8
    <2>2. \A i \in 1..Len(s.numFmts) : i \in 1..Len(t.numFmts) /\ t.numFmts[i] = s.numFmts[i]
      BY <1>10 DEF l, n
    <2>3. \A k \in Registries :
            /\ s[k].Count \in Nat /\ t[k].Count \in Nat /\ s[k].Count <= t[k].Count
            /\ \A i \in 0..(s[k].Count - 1) : At(t[k], i) = At(s[k], i)
      BY <1>4, <1>5, <1>6, <1>7, <1>8, <2>1, Zenon DEF Registries
    <2> QED
      BY <2>2, <2>3 DEF Grows
  <1>12. IsUsable(t)
    <2>1. DOMAIN t = {"numFmts", "fonts", "fills", "borders", "cellXfs", "dxfs"}
      BY <1>1 DEF IsUsable
    <2>2. t.fonts.Count >= 1 /\ t.fills.Count >= 1
      BY <1>3, <1>4, <1>5
    <2> QED
      BY <1>10, <2>1, <2>2 DEF IsUsable, IsList
  <1>13. /\ font \in 0..(t.fonts.Count - 1)
         /\ r.font # << >> => font # 0 /\ At(t.fonts, font) = SetFont(r.font[1])
    <2>1. CASE r.font = << >>
      BY <1>3, <1>4, <2>1
    <2>2. CASE r.font # << >>
      <3>1. t.fonts = Add(s.fonts, SetFont(r.font[1])) /\ font = s.fonts.Count
        BY <1>1, <2>2
      <3>2. t.fonts.Count = s.fonts.Count + 1 /\ At(t.fonts, s.fonts.Count) = SetFont(r.font[1])
        BY <1>3, <3>1, Added
      <3> HIDE DEF font
      <3> QED
        BY <1>3, <1>4, <3>1, <3>2
    <2> QED
      BY <2>1, <2>2
  <1>14. /\ fid \in 0..(t.fills.Count - 1)
         /\ fill # << >> => << At(t.fills, fid) >> = fill
    <2>1. CASE fill = << >>
      BY <1>3, <1>5, <2>1
    <2>2. CASE fill # << >>
      <3>1. t.fills = Add(s.fills, fill[1]) /\ fid = s.fills.Count
        BY <1>1, <2>2
      <3>2. t.fills.Count = s.fills.Count + 1 /\ At(t.fills, s.fills.Count) = fill[1]
        BY <1>3, <3>1, Added
      <3>3. fill = << fill[1] >>
        BY <2>2, FillType DEF fill
      <3> HIDE DEF fid
      <3> QED
        BY <1>3, <1>5, <3>1, <3>2, <3>3
    <2> QED
      BY <2>1, <2>2
  <1> HIDE DEF font, fid
  <1>15. IsStyle(t, xf, r)
    <2>1. s.borders.Count \in 0..(t.borders.Count - 1)
      BY <1>6
    <2>2. xf.numFmtID # 0 => xf.applyNumberFormat
      BY <1>2, Zenon
    <2>3. r.font # << >> => xf.applyFont /\ At(t.fonts, xf.fontID) = SetFont(r.font[1])
      <3>1. font # 0 => xf.applyFont
        BY <1>2, Zenon
      <3> QED
        BY <1>2, <1>13, <3>1
    <2> QED
      BY <1>2, <1>6, <1>10, <1>13, <1>14, <2>1, <2>2, <2>3 DEF IsStyle, fill, border
  <1>16. IsMeant(t, [id |-> t.cellXfs.Count - 1, request |-> r])
    <2> DEFINE c == s.cellXfs.Count
               m == [id |-> t.cellXfs.Count - 1, request |-> r]
    <2>1. m.id = t.cellXfs.Count - 1 /\ m.request = r
      OBVIOUS
    <2> HIDE DEF m
    <2>2. m.id = c /\ c \in 0..(t.cellXfs.Count - 1)
      BY <1>7, <2>1
    <2>3. IsMeant(t, m)
      BY <1>7, <1>15, <2>1, <2>2 DEF IsMeant
    <2> QED
      BY <2>3 DEF m
  <1>17. /\ \A i \in 1..Len(s.fonts.list) : s.fonts.list[i] \in Font
         /\ \A i \in 1..Len(s.fills.list) : s.fills.list[i] \in Fill
         /\ \A i \in 1..Len(s.borders.list) : s.borders.list[i].lines \in Border
    BY DEF IsSheet
  <1>18. IsSheet(t)
    <2>1. \A k \in {"fonts", "fills", "borders", "cellXfs", "dxfs"} : IsRegistry(t[k])
      BY <1>3, <1>4, <1>5, <1>6, <1>7, <1>8
    <2>2. \A i \in 1..Len(t.fonts.list) : t.fonts.list[i] \in Font
      <3>1. CASE r.font = << >>
        BY <1>1, <3>1 DEF IsSheet
      <3>2. CASE r.font # << >>
        <4> DEFINE x == SetFont(r.font[1])
        <4>1. x \in Font
          BY <3>2, FontType
        <4>2. t.fonts = Add(s.fonts, x)
          BY <1>1, <3>2
        <4> HIDE DEF x
        <4> QED
          BY <1>3, <1>17, <4>1, <4>2, AddedEach
      <3> QED
        BY <3>1, <3>2
    <2>3. \A i \in 1..Len(t.fills.list) : t.fills.list[i] \in Fill
      <3>1. CASE fill = << >>
        BY <1>1, <3>1 DEF IsSheet
      <3>2. CASE fill # << >>
        <4>1. fill[1] \in Fill
          BY <3>2, FillType DEF fill
        <4> DEFINE x == fill[1]
        <4>2. t.fills = Add(s.fills, x)
          BY <1>1, <3>2
        <4> HIDE DEF x
        <4> QED
          BY <1>3, <1>17, <4>1, <4>2, AddedEach DEF x
      <3> QED
        BY <3>1, <3>2
    <2>4. \A i \in 1..Len(t.borders.list) : t.borders.list[i].lines \in Border
      <3>1. border.lines \in Border
        BY BorderType DEF border
      <3>2. t.borders = Add(s.borders, border)
        BY <1>1
      <3>3. \A i \in 1..Len(Add(s.borders, border).list) :
              \/ i \in 1..Len(s.borders.list) /\ Add(s.borders, border).list[i] = s.borders.list[i]
              \/ Add(s.borders, border).list[i] = border
        BY <1>3, AddedAll
      <3> QED
        BY <1>17, <3>1, <3>2, <3>3, Zenon
    <2>5. \A i \in 1..Len(t.cellXfs.list) :
            LET x == t.cellXfs.list[i]
            IN  /\ x.fontID \in 0..t.fonts.Count - 1
                /\ x.fillID \in 0..t.fills.Count - 1
                /\ x.borderID \in 0..t.borders.Count - 1
                /\ x.numFmtID \in Nat /\ Len(x.alignment) <= 1 /\ Len(x.protection) <= 1
      <3> SUFFICES ASSUME NEW i \in 1..Len(t.cellXfs.list)
                   PROVE  LET x == t.cellXfs.list[i]
                          IN  /\ x.fontID \in 0..t.fonts.Count - 1
                              /\ x.fillID \in 0..t.fills.Count - 1
                              /\ x.borderID \in 0..t.borders.Count - 1
                              /\ x.numFmtID \in Nat /\ Len(x.alignment) <= 1
                              /\ Len(x.protection) <= 1
        OBVIOUS
      <3>1. CASE i \in 1..Len(s.cellXfs.list) /\ t.cellXfs.list[i] = s.cellXfs.list[i]
        <4> DEFINE x == s.cellXfs.list[i]
        <4>1. /\ x.fontID \in 0..s.fonts.Count - 1
              /\ x.fillID \in 0..s.fills.Count - 1
              /\ x.borderID \in 0..s.borders.Count - 1
              /\ x.numFmtID \in Nat /\ Len(x.alignment) <= 1 /\ Len(x.protection) <= 1
          BY <3>1 DEF IsSheet
        <4> HIDE DEF x
        <4>2. x.fontID \in 0..t.fonts.Count - 1
          BY <1>4, <4>1
        <4>3. x.fillID \in 0..t.fills.Count - 1
          BY <1>5, <4>1
        <4>4. x.borderID \in 0..t.borders.Count - 1
          BY <1>6, <4>1
        <4> QED
          BY <3>1, <4>1, <4>2, <4>3, <4>4 DEF x
      <3>2. CASE t.cellXfs.list[i] = xf
        <4>1. Len(r.alignment) <= 1 /\ Len(r.protection) <= 1
          BY RequestsAssumption
        <4>2. xf.borderID \in 0..t.borders.Count - 1
          BY <1>2, <1>6
        <4> QED
          BY <1>2, <1>10, <1>13, <1>14, <3>2, <4>1, <4>2
      <3> QED
        BY <1>1, <1>3, <3>1, <3>2, AddedAll
    <2> QED
      BY <1>10, <2>1, <2>2, <2>3, <2>4, <2>5 DEF IsSheet
  <1> QED
    BY <1>11, <1>12, <1>16, <1>18 DEF t

\* The same of NewConditionalStyle: only the differential formats change.
LEMMA WithDxf ==
  ASSUME NEW s, IsSheet(s), IsUsable(s), NEW r
  PROVE  LET t == [s EXCEPT !.dxfs = Add(@, DxfOf(r))]
         IN  /\ IsSheet(t) /\ IsUsable(t) /\ Grows(s, t)
             /\ IsDMeant(t, [id |-> t.dxfs.Count - 1, request |-> r])
  <1> DEFINE x == DxfOf(r)
             t == [s EXCEPT !.dxfs = Add(@, x)]
             m == [id |-> t.dxfs.Count - 1, request |-> r]
  <1>1. DOMAIN s = {"numFmts", "fonts", "fills", "borders", "cellXfs", "dxfs"}
    BY DEF IsUsable
  <1> HIDE DEF x
  <1>2. /\ DOMAIN t = DOMAIN s /\ t.numFmts = s.numFmts /\ t.fonts = s.fonts /\ t.fills = s.fills
        /\ t.borders = s.borders /\ t.cellXfs = s.cellXfs /\ t.dxfs = Add(s.dxfs, x)
    BY <1>1
  <1>3. m.id = t.dxfs.Count - 1 /\ m.request = r
    OBVIOUS
  <1> HIDE DEF t, m
  <1>4. /\ IsRegistry(s.fonts) /\ IsRegistry(s.fills) /\ IsRegistry(s.borders)
        /\ IsRegistry(s.cellXfs) /\ IsRegistry(s.dxfs)
    BY DEF IsSheet
  <1>5. /\ s.dxfs.Count \in Nat /\ t.dxfs.Count = s.dxfs.Count + 1
        /\ IsRegistry(t.dxfs) /\ At(t.dxfs, s.dxfs.Count) = x
        /\ \A i \in 0..(s.dxfs.Count - 1) : At(t.dxfs, i) = At(s.dxfs, i)
    BY <1>2, <1>4, Added
  <1>6. s.fonts.Count \in Nat /\ s.fills.Count \in Nat /\ s.borders.Count \in Nat /\ s.cellXfs.Count \in Nat
    BY <1>4, Added
  <1>7. Grows(s, t)
    <2>1. t.dxfs.Count \in Nat /\ s.dxfs.Count <= t.dxfs.Count
      BY <1>5
    <2>2. \A c \in Nat : c <= c
      OBVIOUS
    <2>3. \A k \in Registries :
            /\ s[k].Count \in Nat /\ t[k].Count \in Nat /\ s[k].Count <= t[k].Count
            /\ \A i \in 0..(s[k].Count - 1) : At(t[k], i) = At(s[k], i)
      BY <1>2, <1>5, <1>6, <2>1, <2>2, Zenon DEF Registries
    <2> QED
      BY <1>2, <2>3 DEF Grows
  <1>8. IsUsable(t)
    BY <1>2 DEF IsUsable
  <1>9. IsSheet(t)
    <2>1. \A k \in {"fonts", "fills", "borders", "cellXfs", "dxfs"} : IsRegistry(t[k])
      BY <1>2, <1>4, <1>5
    <2> QED
      BY <1>2, <2>1 DEF IsSheet
  <1>10. IsDMeant(t, m)
    <2>1. m.id = s.dxfs.Count /\ s.dxfs.Count \in 0..(t.dxfs.Count - 1)
      BY <1>3, <1>5
    <2> QED
      BY <1>3, <1>5, <2>1 DEF IsDMeant, x
  <1> QED
    BY <1>7, <1>8, <1>9, <1>10 DEF t, m, x

-----------------------------------------------------------------------------
(* The rules of a list.                                                    *)

Places(qs) == {p \in 1..Len(qs) : IsDrawn(qs[p])}
UpTo(qs, m) == {x \in Places(qs) : x <= m}

\* Counting up to a place and one further adds one if that place is drawn and
\* none otherwise.
LEMMA CountStep ==
  ASSUME NEW qs, Len(qs) \in Nat, NEW m \in Nat
  PROVE  /\ IsFiniteSet(UpTo(qs, m)) /\ Cardinality(UpTo(qs, m)) \in Nat
         /\ Cardinality(UpTo(qs, m + 1)) =
              Cardinality(UpTo(qs, m)) + (IF m + 1 \in Places(qs) THEN 1 ELSE 0)
         /\ UpTo(qs, 0) = {} /\ UpTo(qs, Len(qs)) = Places(qs)
  <1> DEFINE P == Places(qs)
             n == Len(qs)
             U == UpTo(qs, m)
             k == m + 1
  <1>1. P \subseteq 1..n
    BY DEF Places
  <1>2. IsFiniteSet(P)
    <2>1. IsFiniteSet(1..n)
      BY FS_Interval
    <2> QED
      BY <1>1, <2>1, FS_Subset
  <1>3. U \subseteq P
    BY DEF UpTo
  <1>4. IsFiniteSet(U) /\ Cardinality(U) \in Nat
    BY <1>2, <1>3, FS_Subset, FS_CardinalityType
  <1>5. UpTo(qs, 0) = {} /\ UpTo(qs, n) = P
    BY <1>1 DEF UpTo
  <1>6. k \in Nat /\ k \notin U /\ (\A x \in P : x <= k <=> (x <= m \/ x = k))
    BY <1>1 DEF UpTo
  <1>7. CASE k \in P
    <2>1. UpTo(qs, k) = U \cup {k}
      BY <1>6, <1>7 DEF UpTo
    <2> HIDE DEF k, U
    <2>2. Cardinality(U \cup {k}) = Cardinality(U) + 1
      BY <1>4, <1>6, FS_AddElement
    <2>3. Cardinality(UpTo(qs, k)) = Cardinality(U) + (IF k \in P THEN 1 ELSE 0)
      BY <1>7, <2>1, <2>2
    <2> QED
      BY <1>4, <1>5, <2>3 DEF k, U
  <1>8. CASE k \notin P
    <2>1. UpTo(qs, k) = U
      BY <1>6, <1>8 DEF UpTo
    <2> HIDE DEF k, U
    <2>2. Cardinality(UpTo(qs, k)) = Cardinality(U) + (IF k \in P THEN 1 ELSE 0)
      BY <1>4, <1>8, <2>1
    <2> QED
      BY <1>4, <1>5, <2>2 DEF k, U
  <1> QED
    BY <1>7, <1>8

\* the k-th place that is drawn
LEMMA PlaceExists ==
  ASSUME NEW qs, Len(qs) \in Nat, NEW k \in 1..Cardinality(Places(qs))
  PROVE  \E p \in Places(qs) : Cardinality(UpTo(qs, p)) = k
  <1> DEFINE c(m) == Cardinality(UpTo(qs, m))
             S == {m \in Nat : c(m) >= k}
  <1>1. c(Len(qs)) = Cardinality(Places(qs)) /\ c(0) = 0
    BY CountStep, FS_EmptySet
  <1>2. \A m \in Nat : c(m) \in Nat
    BY CountStep
  <1>3. Len(qs) \in S
    BY <1>1, <1>2
  <1>4. PICK m \in S : \A j \in S : m <= j
    <2>1. S \subseteq Nat /\ S # {}
      BY <1>3
    <2> HIDE DEF S
    <2> QED
      BY <2>1, Least
  <1>5. m # 0
    BY <1>1, <1>4
  <1> DEFINE j == m - 1
  <1>6. j \in Nat /\ m = j + 1 /\ ~(m <= j)
    BY <1>4, <1>5
  <1>7. c(j) < k
    <2>1. j \notin S
      BY <1>4, <1>6
    <2> QED
      BY <1>2, <1>6, <2>1
  <1> HIDE DEF j
  <1>8. c(m) = c(j) + (IF m \in Places(qs) THEN 1 ELSE 0)
    BY <1>6, CountStep
  <1>9. c(m) >= k /\ m \in Nat
    BY <1>4
  <1> HIDE DEF c, S
  <1>10. m \in Places(qs) /\ c(m) = k
    <2>1. c(j) \in Nat /\ k \in Nat
      BY <1>2, <1>6, SMTT(30)
    <2>2. CASE m \in Places(qs)
      BY <1>7, <1>8, <1>9, <2>1, <2>2
    <2>3. CASE m \notin Places(qs)
      BY <1>7, <1>8, <1>9, <2>1, <2>3
    <2> QED
      BY <2>2, <2>3
  <1> QED
    BY <1>10 DEF c

\* The rule that was drawn k-th is that of a place of the request, and the
\* places of the rules ascend.
LEMMA RulesDrawn ==
  ASSUME NEW qs, Len(qs) \in Nat
  PROVE  /\ IsFiniteSet(Places(qs)) /\ Cardinality(Places(qs)) \in Nat
         /\ DOMAIN DrawRules(qs) = 1..Cardinality(Places(qs))
         /\ Len(DrawRules(qs)) = Cardinality(Places(qs))
         /\ \A k \in 1..Cardinality(Places(qs)) :
              /\ DrawRules(qs)[k].priority \in Places(qs)
              /\ DrawRules(qs)[k] = DrawRule(DrawRules(qs)[k].priority, qs[DrawRules(qs)[k].priority])
              /\ k > 1 => DrawRules(qs)[k - 1].priority < DrawRules(qs)[k].priority
  <1> DEFINE P == Places(qs)
             n == Cardinality(P)
             place(k) == CHOOSE p \in P : Cardinality(UpTo(qs, p)) = k
             rules == [k \in 1..n |-> DrawRule(place(k), qs[place(k)])]
  <1>1. DrawRules(qs) = rules
    BY DEF DrawRules, Places, UpTo
  <1>2. IsFiniteSet(P) /\ n \in Nat
    BY CountStep
  <1>3. DOMAIN rules = 1..n /\ Len(rules) = n
    BY <1>2
  <1>4. \A k \in 1..n : place(k) \in P /\ Cardinality(UpTo(qs, place(k))) = k
    BY PlaceExists
  <1>5. \A k \in 1..n : rules[k] = DrawRule(place(k), qs[place(k)])
    OBVIOUS
  <1>6. \A p, q : DrawRule(p, q).priority = p
    BY DEF DrawRule
  <1> HIDE DEF rules, place, n
  <1>7. \A k \in 1..n : rules[k].priority = place(k)
    BY <1>5, <1>6
  <1>8. ASSUME NEW k \in 1..n, k > 1 PROVE place(k - 1) < place(k)
    <2> DEFINE j == k - 1
               a == place(j)
               b == place(k)
    <2>1. j \in 1..n /\ j < k /\ j \in Nat /\ k \in Nat
      BY <1>2, <1>8
    <2> HIDE DEF j
    <2>2. /\ a \in P /\ b \in P /\ Cardinality(UpTo(qs, a)) = j /\ Cardinality(UpTo(qs, b)) = k
      BY <1>4, <2>1
    <2>3. a \in Nat /\ b \in Nat
      BY <2>2 DEF Places
    <2> HIDE DEF a, b
    <2>4. CASE b <= a
      <3>1. UpTo(qs, b) \subseteq UpTo(qs, a)
        BY <2>3, <2>4 DEF UpTo, Places
      <3>2. IsFiniteSet(UpTo(qs, a))
        BY <2>3, CountStep
      <3>3. Cardinality(UpTo(qs, b)) <= Cardinality(UpTo(qs, a))
        BY <3>1, <3>2, FS_Subset
      <3> QED
        BY <2>1, <2>2, <3>3
    <2> QED
      BY <2>3, <2>4 DEF a, b, j
  <1>9. \A k \in 1..n : k > 1 => k - 1 \in 1..n
    BY <1>2
  <1>10. \A k \in 1..n : k > 1 => rules[k - 1].priority < rules[k].priority
    BY <1>7, <1>8, <1>9
  <1> QED
    BY <1>1, <1>2, <1>3, <1>4, <1>5, <1>7, <1>10 DEF n

-----------------------------------------------------------------------------
(* The inductive invariant.                                                *)

\* the rules of a conditional format name the formats of their requests and
\* come in the order of their priorities
Ascend(f) ==
  \A k \in 1..Len(f.rules) :
    /\ f.rules[k].dxf # << >> => f.rules[k].dxf[1] = f.request[f.rules[k].priority].format
    /\ k > 1 => f.rules[k - 1].priority < f.rules[k].priority

\* they refer to formats in the list l of those that were made
Refers(f, l) ==
  \A k \in 1..Len(f.rules) :
    f.rules[k].dxf # << >> => \E j \in 1..Len(l) : l[j].id = f.rules[k].dxf[1]

StylesInv ==
  /\ IsSheet(styles) /\ IsUsable(styles)
  /\ IsList(made) /\ \A i \in 1..Len(made) : IsMeant(styles, made[i])
  /\ IsList(dmade) /\ \A i \in 1..Len(dmade) : IsDMeant(styles, dmade[i])
  /\ IsList(formats)
  /\ \A i \in 1..Len(formats) : Ascend(formats[i]) /\ Refers(formats[i], dmade)

\* the entries of a list and one more
LEMMA AppendAll ==
  ASSUME NEW l, IsList(l), NEW x
  PROVE  \A i \in 1..Len(Append(l, x)) :
           (i \in 1..Len(l) /\ Append(l, x)[i] = l[i]) \/ Append(l, x)[i] = x
  <1> DEFINE n == Len(l)
             a == Append(l, x)
  <1>1. /\ n \in Nat /\ Len(a) = n + 1
        /\ \A i \in 1..n : a[i] = l[i]
        /\ a[n + 1] = x
    BY ListAppend
  <1> HIDE DEF n, a
  <1>2. \A i \in 1..Len(a) : i \in 1..n \/ i = n + 1
    BY <1>1
  <1>3. \A i \in 1..Len(a) : (i \in 1..n /\ a[i] = l[i]) \/ a[i] = x
    BY <1>1, <1>2, Zenon
  <1> QED
    BY <1>3 DEF n, a

LEMMA StylesInvInit == Init => StylesInv
  <1> SUFFICES ASSUME Init PROVE StylesInv
    OBVIOUS
  <1>1. IsSheet(styles) /\ IsUsable(styles)
    BY SheetFilesAssumption DEF Init
  <1>2. /\ IsList(made) /\ IsList(dmade) /\ IsList(formats)
        /\ Len(made) = 0 /\ Len(dmade) = 0 /\ Len(formats) = 0
    BY ListEmpty DEF Init
  <1> QED
    BY <1>1, <1>2 DEF StylesInv

LEMMA NewStyleKeeps ==
  ASSUME StylesInv, NEW r \in Careful, NewStyle(r)
  PROVE  StylesInv'
  <1> DEFINE s == WithStyle(styles, r)
             m == [id |-> s.cellXfs.Count - 1, request |-> r]
  <1>1. IsSheet(s) /\ IsUsable(s) /\ Grows(styles, s) /\ IsMeant(s, m)
    BY WithStyleMeans DEF StylesInv, Careful
  <1>2. styles' = s /\ made' = Append(made, m) /\ dmade' = dmade /\ formats' = formats
    BY DEF NewStyle
  <1> HIDE DEF s, m
  <1>3. /\ IsList(made) /\ \A i \in 1..Len(made) : IsMeant(styles, made[i])
        /\ IsList(dmade) /\ \A i \in 1..Len(dmade) : IsDMeant(styles, dmade[i])
    BY DEF StylesInv
  <1>4. IsList(made')
    BY <1>2, <1>3, ListAppend
  <1>5. \A i \in 1..Len(made') : IsMeant(s, made'[i])
    <2>1. \A i \in 1..Len(made) : IsMeant(s, made[i])
      BY <1>1, <1>3, MeantStays
    <2>2. \A i \in 1..Len(made') : (i \in 1..Len(made) /\ made'[i] = made[i]) \/ made'[i] = m
      BY <1>2, <1>3, AppendAll
    <2> QED
      BY <1>1, <2>1, <2>2, Zenon
  <1>6. \A i \in 1..Len(dmade) : IsDMeant(s, dmade[i])
    BY <1>1, <1>3, DMeantStays
  <1> QED
    BY <1>1, <1>2, <1>3, <1>4, <1>5, <1>6, Zenon DEF StylesInv, IsSheet, IsUsable, IsList

LEMMA NewConditionalStyleKeeps ==
  ASSUME StylesInv, NEW r \in Requests, NewConditionalStyle(r)
  PROVE  StylesInv'
  <1> DEFINE s == [styles EXCEPT !.dxfs = Add(@, DxfOf(r))]
             m == [id |-> s.dxfs.Count - 1, request |-> r]
  <1>1. IsSheet(s) /\ IsUsable(s) /\ Grows(styles, s) /\ IsDMeant(s, m)
    BY WithDxf DEF StylesInv
  <1>2. styles' = s /\ dmade' = Append(dmade, m) /\ made' = made /\ formats' = formats
    BY DEF NewConditionalStyle
  <1> HIDE DEF s, m
  <1>3. /\ IsList(made) /\ \A i \in 1..Len(made) : IsMeant(styles, made[i])
        /\ IsList(dmade) /\ \A i \in 1..Len(dmade) : IsDMeant(styles, dmade[i])
        /\ \A i \in 1..Len(formats) : Refers(formats[i], dmade)
    BY DEF StylesInv
  <1>4. IsList(dmade')
    BY <1>2, <1>3, ListAppend
  <1>5. \A i \in 1..Len(dmade') : IsDMeant(s, dmade'[i])
    <2>1. \A i \in 1..Len(dmade) : IsDMeant(s, dmade[i])
      BY <1>1, <1>3, DMeantStays
    <2>2. \A i \in 1..Len(dmade') : (i \in 1..Len(dmade) /\ dmade'[i] = dmade[i]) \/ dmade'[i] = m
      BY <1>2, <1>3, AppendAll
    <2> QED
      BY <1>1, <2>1, <2>2, Zenon
  <1>6. \A i \in 1..Len(made) : IsMeant(s, made[i])
    BY <1>1, <1>3, MeantStays
  <1>7. \A i \in 1..Len(formats) : Refers(formats[i], dmade')
    <2>1. \A j \in 1..Len(dmade) : j \in 1..Len(dmade') /\ dmade'[j] = dmade[j]
      <3>1. /\ Len(dmade) \in Nat /\ Len(dmade') = Len(dmade) + 1
            /\ \A j \in 1..Len(dmade) : dmade'[j] = dmade[j]
        BY <1>2, <1>3, ListAppend
      <3> QED
        BY <3>1
    <2> QED
      BY <1>3, <2>1, ZenonT(40) DEF Refers
  <1> QED
    BY <1>1, <1>2, <1>3, <1>4, <1>5, <1>6, <1>7, Zenon DEF StylesInv, IsSheet, IsUsable, IsList

\* The rules drawn for a list that refers to formats that were made.
LEMMA RulesWhole ==
  ASSUME StylesInv, NEW qs \in Referring
  PROVE  LET f == [request |-> qs, rules |-> DrawRules(qs)] IN Ascend(f) /\ Refers(f, dmade)
  <1> DEFINE R == [type : STRING, criteria : STRING, format : Nat]
             rules == DrawRules(qs)
             f == [request |-> qs, rules |-> rules]
             n == Cardinality(Places(qs))
  <1>1. Len(qs) \in Nat
    <2>1. qs \in Seq(R)
      BY RequestsAssumption DEF Referring
    <2> HIDE DEF R
    <2> QED
      BY <2>1
  <1>2. /\ n \in Nat /\ Len(rules) = n
        /\ \A k \in 1..n : /\ rules[k].priority \in Places(qs)
                           /\ rules[k] = DrawRule(rules[k].priority, qs[rules[k].priority])
                           /\ k > 1 => rules[k - 1].priority < rules[k].priority
    BY <1>1, RulesDrawn
  <1>3. f.request = qs /\ f.rules = rules
    OBVIOUS
  <1>4. ASSUME NEW p \in Places(qs)
        PROVE  /\ DrawRule(p, qs[p]).dxf # << >> => DrawRule(p, qs[p]).dxf[1] = qs[p].format
               /\ DrawRule(p, qs[p]).dxf # << >> =>
                    \E j \in 1..Len(dmade) : dmade[j].id = DrawRule(p, qs[p]).dxf[1]
    <2> DEFINE q == qs[p]
    <2>1. \E j \in 1..Len(dmade) : dmade[j].id = q.format
      BY DEF Referring, Places
    <2> HIDE DEF q
    <2>2. DrawRule(p, q).dxf = << >> \/ DrawRule(p, q).dxf = << q.format >>
      BY DEF DrawRule
    <2>5. << q.format >>[1] = q.format
      OBVIOUS
    <2>6. DrawRule(p, q).dxf # << >> => DrawRule(p, q).dxf[1] = q.format
      BY <2>2, <2>5, Zenon
    <2>7. DrawRule(p, q).dxf # << >> =>
            \E j \in 1..Len(dmade) : dmade[j].id = DrawRule(p, q).dxf[1]
      BY <2>1, <2>2, <2>5, Zenon
    <2> QED
      BY <2>6, <2>7 DEF q
  <1> HIDE DEF f, rules, n
  <1>5. ASSUME NEW k \in 1..Len(f.rules)
        PROVE  /\ f.rules[k].dxf # << >> =>
                    f.rules[k].dxf[1] = f.request[f.rules[k].priority].format
               /\ k > 1 => f.rules[k - 1].priority < f.rules[k].priority
               /\ f.rules[k].dxf # << >> =>
                    \E j \in 1..Len(dmade) : dmade[j].id = f.rules[k].dxf[1]
    <2> DEFINE p == rules[k].priority
    <2>1. k \in 1..n
      BY <1>2, <1>3
    <2>2. /\ p \in Places(qs) /\ rules[k] = DrawRule(p, qs[p])
          /\ k > 1 => rules[k - 1].priority < p
      BY <1>2, <2>1
    <2>3. f.request[f.rules[k].priority] = qs[p]
      BY <1>3
    <2>4. f.rules[k] = DrawRule(p, qs[p]) /\ f.rules[k].priority = p /\ f.rules[k - 1] = rules[k - 1]
      BY <1>3, <2>2
    <2> HIDE DEF p
    <2> QED
      BY <1>4, <2>2, <2>3, <2>4
  <1>6. Ascend(f) /\ Refers(f, dmade)
    BY <1>5, Zenon DEF Ascend, Refers
  <1> QED
    BY <1>6 DEF f, rules

LEMMA SetConditionalFormatKeeps ==
  ASSUME StylesInv, NEW qs \in Referring, SetConditionalFormat(qs)
  PROVE  StylesInv'
  <1> DEFINE f == [request |-> qs, rules |-> DrawRules(qs)]
  <1>1. Ascend(f) /\ Refers(f, dmade)
    BY RulesWhole
  <1>2. styles' = styles /\ dmade' = dmade /\ made' = made /\ formats' = Append(formats, f)
    BY DEF SetConditionalFormat
  <1> HIDE DEF f
  <1>3. /\ IsList(formats)
        /\ \A i \in 1..Len(formats) : Ascend(formats[i]) /\ Refers(formats[i], dmade)
    BY DEF StylesInv
  <1>4. IsList(formats')
    BY <1>2, <1>3, ListAppend
  <1>5. \A i \in 1..Len(formats') : Ascend(formats'[i]) /\ Refers(formats'[i], dmade)
    <2>1. \A i \in 1..Len(formats') :
            (i \in 1..Len(formats) /\ formats'[i] = formats[i]) \/ formats'[i] = f
      BY <1>2, <1>3, AppendAll
    <2> QED
      BY <1>1, <1>3, <2>1, Zenon
  <1> QED
    BY <1>2, <1>4, <1>5, Zenon DEF StylesInv, IsSheet, IsUsable, IsList

LEMMA StylesInvNext == StylesInv /\ [Next]_vars => StylesInv'
  <1> SUFFICES ASSUME StylesInv, [Next]_vars PROVE StylesInv'
    OBVIOUS
  <1>1. ASSUME NEW r \in Careful, NewStyle(r) PROVE StylesInv'
    BY <1>1, NewStyleKeeps
  <1>2. ASSUME NEW r \in Requests, NewConditionalStyle(r) PROVE StylesInv'
    BY <1>2, NewConditionalStyleKeeps
  <1>3. ASSUME NEW qs \in Referring, SetConditionalFormat(qs) PROVE StylesInv'
    BY <1>3, SetConditionalFormatKeeps
  <1>4. CASE UNCHANGED vars
    BY <1>4, Zenon DEF vars, StylesInv, IsSheet, IsUsable, IsList
  <1> QED
    BY <1>1, <1>2, <1>3, <1>4 DEF Next

-----------------------------------------------------------------------------
(* The theorems.                                                           *)

\* The registries are counted and grow, and every style, differential format
\* and conditional format that was made stands for its request, in every
\* reachable state.
THEOREM StylesInvHolds == Spec => []StylesInv
  <1>1. Init => StylesInv
    BY StylesInvInit
  <1>2. StylesInv /\ [Next]_vars => StylesInv'
    BY StylesInvNext
  <1> QED
    BY <1>1, <1>2, PTL DEF Spec

\* The style sheet keeps its shape: NewStyle and NewConditionalStyle leave
\* every Count the length of its list, and every index of a cell format the
\* index of an entry.
THEOREM StylesTypeCorrect == Spec => []TypeOK
  <1>1. StylesInv => TypeOK
    BY DEF StylesInv, TypeOK
  <1> QED
    BY <1>1, StylesInvHolds, PTL

\* The index NewStyle returned stands for the style that was asked for, at
\* once and after every later call.
THEOREM StyleMeansAlways == Spec => []StyleMeans
  <1>1. StylesInv => StyleMeans
    <2> SUFFICES ASSUME StylesInv, NEW i \in 1..Len(made)
                 PROVE  LET r  == made[i].request
                            xf == At(styles.cellXfs, made[i].id)
                        IN  /\ Code(xf.numFmtID) = WantedCode(r)
                            /\ xf.numFmtID # 0 => xf.applyNumberFormat
                            /\ r.font # << >> =>
                                 xf.applyFont /\ At(styles.fonts, xf.fontID) = SetFont(r.font[1])
                            /\ SetFills(r.fill, TRUE) # << >> =>
                                 <<At(styles.fills, xf.fillID)>> = SetFills(r.fill, TRUE)
                            /\ At(styles.borders, xf.borderID) = SetBorders(r.border)
                            /\ xf.alignment = r.alignment /\ xf.protection = r.protection
      BY DEF StyleMeans
    <2> DEFINE r  == made[i].request
               xf == At(styles.cellXfs, made[i].id)
    <2>1. IsStyle(styles, xf, r)
      BY DEF StylesInv, IsMeant
    <2> HIDE DEF r, xf
    <2>2. Code(xf.numFmtID) = WantedCode(r)
      <3>1. HasCode(styles, xf.numFmtID, WantedCode(r)) /\ IsSheet(styles) /\ IsUsable(styles)
        BY <2>1 DEF IsStyle, StylesInv
      <3> QED
        BY <3>1, CodeFound
    <2> QED
      BY <2>1, <2>2, Zenon DEF IsStyle, r, xf
  <1> QED
    BY <1>1, StylesInvHolds, PTL

\* The rules SetConditionalFormat draws show the differential formats their
\* requests asked for, and come in the order of their priorities.
THEOREM RulesApplyAlways == Spec => []RulesApply
  <1>1. StylesInv => RulesApply
    <2> SUFFICES ASSUME StylesInv, NEW i \in 1..Len(formats), NEW k \in 1..Len(formats[i].rules)
                 PROVE  LET rule == formats[i].rules[k]
                            q    == formats[i].request[rule.priority]
                        IN  /\ rule.dxf # << >> =>
                                 \E j \in 1..Len(dmade) :
                                   /\ dmade[j].id = q.format
                                   /\ At(styles.dxfs, rule.dxf[1]) = DxfOf(dmade[j].request)
                            /\ k > 1 => formats[i].rules[k - 1].priority < rule.priority
      BY DEF RulesApply
    <2> DEFINE rule == formats[i].rules[k]
               q    == formats[i].request[rule.priority]
    <2>1. Ascend(formats[i]) /\ Refers(formats[i], dmade)
      BY DEF StylesInv
    <2>2. rule.dxf # << >> => \E j \in 1..Len(dmade) :
                                /\ dmade[j].id = q.format
                                /\ At(styles.dxfs, rule.dxf[1]) = DxfOf(dmade[j].request)
      <3>1. \A j \in 1..Len(dmade) : At(styles.dxfs, dmade[j].id) = DxfOf(dmade[j].request)
        BY DEF StylesInv, IsDMeant
      <3>2. rule.dxf # << >> => \E j \in 1..Len(dmade) : dmade[j].id = rule.dxf[1]
        BY <2>1 DEF Refers
      <3>3. rule.dxf # << >> => rule.dxf[1] = q.format
        BY <2>1 DEF Ascend
      <3> HIDE DEF rule, q
      <3> QED
        BY <3>1, <3>2, <3>3, Zenon
    <2> QED
      BY <2>1, <2>2, Zenon DEF Ascend
  <1> QED
    BY <1>1, StylesInvHolds, PTL
=============================================================================
