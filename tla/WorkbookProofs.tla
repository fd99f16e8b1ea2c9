--------------------------- MODULE WorkbookProofs ---------------------------
(***************************************************************************)
(* Proofs about module Workbook: for every set of names and every way to   *)
(* trim them, every set of contents, every number of sheets and links, and *)
(* every File to start from whose structures agree.                        *)
(***************************************************************************)
EXTENDS Workbook, FiniteSetTheorems, SequenceTheorems, TLAPS

\* The structures of the File agree, the selected sheet is the active one,
\* and no call has panicked.
WorkbookInv == Agrees(f) /\ IsSelected(f) /\ panicked = FALSE

-----------------------------------------------------------------------------
(* What agreeing structures say, in the form the other proofs need it.     *)

\* the entries of the sheet list and the numbers they are found by
LEMMA Entries ==
  ASSUME NEW b, IsFile(b), IsListed(b)
  PROVE  /\ Len(b.Sheets) \in Nat /\ Len(b.Sheets) >= 1
         /\ Positions(b) = 1..Len(b.Sheets)
         /\ \A k \in Positions(b) :
              /\ b.Sheets[k] \in Sheets
              /\ b.Sheets[k].name \in Names /\ b.Sheets[k].id \in Parts
              /\ b.Sheets[k].rid \in DOMAIN b.rels
              /\ b.rels[b.Sheets[k].rid] = b.Sheets[k].id
              /\ PartOf(b, b.Sheets[k]) = b.Sheets[k].id
         /\ IDs(b) \subseteq Parts /\ 0 \notin IDs(b)
  <1>1. b.Sheets \in Seq(Sheets) /\ b.Sheets # << >>
    BY DEF IsFile
  <1>2. Len(b.Sheets) \in Nat /\ Len(b.Sheets) >= 1 /\ Positions(b) = 1..Len(b.Sheets)
    BY <1>1 DEF Positions
  <1>3. \A k \in Positions(b) : b.Sheets[k] \in Sheets
    BY <1>1, <1>2
  <1>4. \A k \in Positions(b) : b.Sheets[k].name \in Names /\ b.Sheets[k].id \in Parts
    BY <1>3 DEF Sheets
  <1>5. 0 \notin Parts
    BY WorkbookAssumption DEF Parts
  <1>6. \A k \in Positions(b) : PartOf(b, b.Sheets[k]) = b.Sheets[k].id
    BY DEF IsListed
  <1>7. \A k \in Positions(b) : /\ b.Sheets[k].rid \in DOMAIN b.rels
                                /\ b.rels[b.Sheets[k].rid] = b.Sheets[k].id
    BY <1>4, <1>5, <1>6 DEF PartOf
  <1>8. IDs(b) \subseteq Parts /\ 0 \notin IDs(b)
    BY <1>4, <1>5 DEF IDs
  <1> QED BY <1>2, <1>3, <1>4, <1>6, <1>7, <1>8

\* GetSheetMap lists every part, with the name of its sheet
LEMMA SheetMapLists ==
  ASSUME NEW b, IsFile(b), IsListed(b)
  PROVE  /\ DOMAIN GetSheetMap(b) = IDs(b)
         /\ \A k \in Positions(b) : GetSheetMap(b)[b.Sheets[k].id] = b.Sheets[k].name
  <1>1. \A k \in Positions(b) : PartOf(b, b.Sheets[k]) = b.Sheets[k].id
    BY Entries
  <1>2. {PartOf(b, b.Sheets[k]) : k \in Positions(b)} = IDs(b)
    BY <1>1 DEF IDs
  <1>3. {PartOf(b, b.Sheets[k]) : k \in Positions(b)} \ {0} = IDs(b)
    BY <1>2, Entries
  <1>4. ASSUME NEW k \in Positions(b)
        PROVE  (CHOOSE i \in Positions(b) :
                  /\ PartOf(b, b.Sheets[i]) = b.Sheets[k].id
                  /\ \A j \in Positions(b) :
                       PartOf(b, b.Sheets[j]) = b.Sheets[k].id => j <= i) = k
    <2>1. \A i \in Positions(b) : PartOf(b, b.Sheets[i]) = b.Sheets[k].id => i = k
      BY <1>1 DEF IsListed
    <2>2. k <= k
      BY Entries
    <2> QED BY <1>1, <2>1, <2>2
  <1>5. \A k \in Positions(b) : b.Sheets[k].id \in IDs(b)
    BY DEF IDs
  <1> QED BY <1>3, <1>4, <1>5 DEF GetSheetMap

\* the sheet with an identifier
LEMMA EntryOf ==
  ASSUME NEW b, NEW p \in IDs(b)
  PROVE  \E k \in Positions(b) : b.Sheets[k].id = p
  BY DEF IDs

\* what is read of a part that is there is a worksheet, and links are counted
LEMMA ContentType ==
  ASSUME NEW b, IsFile(b)
  PROVE  /\ NewContent \in Content
         /\ \A p : ContentOf(b, p) \in Content /\ RelsOf(b, p) \in Nat
  <1>1. NewContent \in Content
    BY WorkbookAssumption DEF NewContent, Content
  <1>2. \A p \in DOMAIN b.Sheet : b.Sheet[p] \in Content
    BY DEF IsFile, Range
  <1>3. \A p \in DOMAIN b.XLSX : b.XLSX[p] \in Content
    BY DEF IsFile, Range
  <1>4. \A p \in DOMAIN b.SheetRels : b.SheetRels[p] \in Nat
    BY DEF IsFile, IsPartial, Range
  <1>5. \A p \in DOMAIN b.XLSXRels : b.XLSXRels[p] \in Nat
    BY DEF IsFile, IsPartial, Range
  <1> QED BY <1>1, <1>2, <1>3, <1>4, <1>5 DEF ContentOf, RelsOf

\* a title finds its own part
LEMMA TitleReads ==
  ASSUME NEW b, IsFile(b), IsListed(b), IsIndexed(b), NEW k \in Positions(b)
  PROVE  /\ Readable(b, b.Sheets[k].name)
         /\ WorkSheet(b, b.Sheets[k].name) = ContentOf(b, b.Sheets[k].id)
         /\ b.sheetMap[Trim[b.Sheets[k].name]] = b.Sheets[k].id
  <1>1. Trim[b.Sheets[k].name] = b.Sheets[k].name
    BY DEF IsListed
  <1>2. b.Sheets[k].name \in DOMAIN b.sheetMap
    BY DEF IsIndexed, TitlesOf
  <1>3. b.sheetMap[b.Sheets[k].name] = b.Sheets[k].id
    BY DEF IsIndexed
  <1> QED BY <1>1, <1>2, <1>3 DEF Readable, WorkSheet

\* and a name that is read is a title, trimmed
LEMMA ReadsTitle ==
  ASSUME NEW b, IsFile(b), IsListed(b), IsIndexed(b), NEW n \in Names, Readable(b, n)
  PROVE  \E k \in Positions(b) : /\ b.Sheets[k].name = Trim[n]
                                 /\ b.sheetMap[Trim[n]] = b.Sheets[k].id
  <1>1. Trim[n] \in TitlesOf(b)
    BY DEF Readable, IsIndexed
  <1>2. PICK k \in Positions(b) : b.Sheets[k].name = Trim[n]
    BY <1>1 DEF TitlesOf
  <1>3. b.sheetMap[b.Sheets[k].name] = b.Sheets[k].id
    BY DEF IsIndexed
  <1> QED BY <1>2, <1>3

\* SetActiveSheet can read every sheet
LEMMA ActivateReads ==
  ASSUME NEW b, IsFile(b), IsListed(b), IsIndexed(b)
  PROVE  ~ActivatePanics(b)
  <1> SUFFICES ASSUME NEW p \in DOMAIN GetSheetMap(b)
               PROVE  Readable(b, GetSheetMap(b)[p])
    BY DEF ActivatePanics
  <1>1. p \in IDs(b)
    BY SheetMapLists
  <1>2. PICK k \in Positions(b) : b.Sheets[k].id = p
    BY <1>1, EntryOf
  <1>3. GetSheetMap(b)[p] = b.Sheets[k].name
    BY <1>2, SheetMapLists
  <1> QED BY <1>3, TitleReads

-----------------------------------------------------------------------------
(* Changes to the contents of the sheets that are there.                   *)

\* the fields that say which sheets there are
SameSheets(b, c) ==
  /\ c.Sheets = b.Sheets /\ c.rels = b.rels /\ c.ContentTypes = b.ContentTypes
  /\ c.sheetMap = b.sheetMap /\ c.SheetCount = b.SheetCount

\* a File with the same sheets agrees if its contents do
LEMMA SameSheetsAgree ==
  ASSUME NEW b, Agrees(b), NEW c, IsFile(c), SameSheets(b, c),
         DOMAIN c.Sheet \cup DOMAIN c.XLSX = IDs(b),
         \A p \in IDs(b) : ContentOf(c, p).links <= RelsOf(c, p),
         \A id \in c.CalcChain : id \in IDs(b) /\ ContentOf(c, id).formula
  PROVE  Agrees(c) /\ IDs(c) = IDs(b) /\ Positions(c) = Positions(b)
  <1>1. Positions(c) = Positions(b)
    BY DEF SameSheets, Positions
  <1>2. IDs(c) = IDs(b) /\ TitlesOf(c) = TitlesOf(b)
    BY <1>1 DEF SameSheets, IDs, TitlesOf
  <1>3. \A k \in Positions(b) : PartOf(c, c.Sheets[k]) = PartOf(b, b.Sheets[k])
    BY DEF SameSheets, PartOf
  <1>4. IsListed(c)
    BY <1>1, <1>3 DEF Agrees, IsListed, SameSheets
  <1>5. IsIndexed(c)
    BY <1>1, <1>2 DEF Agrees, IsIndexed, SameSheets
  <1>6. IsLinked(c)
    BY <1>2 DEF IsLinked
  <1> QED BY <1>1, <1>2, <1>4, <1>5, <1>6 DEF Agrees

\* other worksheets and another active tab
WithSheet(b, t, S) == [b EXCEPT !.ActiveTab = t, !.Sheet = S]

\* a File after a change of Sheet and ActiveTab is a File
LEMMA FileWithSheet ==
  ASSUME NEW b, IsFile(b), NEW S, Range(S) \subseteq Content, NEW t, t \in Nat
  PROVE  /\ IsFile(WithSheet(b, t, S)) /\ SameSheets(b, WithSheet(b, t, S))
         /\ WithSheet(b, t, S).Sheet = S /\ WithSheet(b, t, S).ActiveTab = t
         /\ WithSheet(b, t, S).XLSX = b.XLSX
         /\ WithSheet(b, t, S).SheetRels = b.SheetRels
         /\ WithSheet(b, t, S).XLSXRels = b.XLSXRels
         /\ WithSheet(b, t, S).CalcChain = b.CalcChain
  <1> DEFINE c == WithSheet(b, t, S)
  <1>1. /\ DOMAIN c = Fields /\ c = [field \in Fields |-> c[field]]
        /\ c.Sheet = S /\ c.ActiveTab = t /\ SameSheets(b, c)
        /\ c.XLSX = b.XLSX /\ c.SheetRels = b.SheetRels /\ c.XLSXRels = b.XLSXRels
        /\ c.CalcChain = b.CalcChain
    BY DEF IsFile, Fields, SameSheets, WithSheet
  <1> HIDE DEF c
  <1>3. IsFile(c)
    BY <1>1 DEF IsFile, SameSheets
  <1> QED BY <1>1, <1>3 DEF c

\* SetActiveSheet: the structures go on agreeing, no sheet but the active one
\* is selected afterwards, whatever was before, and nothing else is changed
LEMMA ActivateKeepsAgreeing ==
  ASSUME NEW b, Agrees(b), NEW i
  PROVE  /\ Agrees(Activate(b, i)) /\ IsSelected(Activate(b, i))
         /\ SameSheets(b, Activate(b, i)) /\ IDs(Activate(b, i)) = IDs(b)
         /\ \A p \in IDs(b) :
              /\ ContentOf(Activate(b, i), p).data = ContentOf(b, p).data
              /\ ContentOf(Activate(b, i), p).formula = ContentOf(b, p).formula
  <1>0. IsFile(b) /\ IsListed(b) /\ IsIndexed(b) /\ IsLinked(b)
    BY DEF Agrees
  <1> DEFINE tabs    == {k \in Positions(b) : b.Sheets[k].id = i}
             listed  == GetSheetMap(b)
             part(p) == b.sheetMap[Trim[listed[p]]]
             loaded  == {part(p) : p \in DOMAIN listed}
             t == IF tabs = {} THEN b.ActiveTab
                  ELSE (CHOOSE k \in tabs : \A j \in tabs : j <= k) - 1
             S == [p \in DOMAIN b.Sheet \cup loaded |->
                      IF p \in loaded
                      THEN [ContentOf(b, p) EXCEPT !.sel =
                              i \in DOMAIN listed /\ part(i) = p]
                      ELSE b.Sheet[p]]
             c == WithSheet(b, t, S)
  <1>1. Activate(b, i) = c
    BY DEF Activate, WithSheet
  <1>2. DOMAIN listed = IDs(b)
    BY <1>0, SheetMapLists
  <1>3. \A p \in IDs(b) : part(p) = p
    <2> SUFFICES ASSUME NEW p \in IDs(b)
                 PROVE  part(p) = p
      OBVIOUS
    <2>1. PICK k \in Positions(b) : b.Sheets[k].id = p
      BY EntryOf
    <2>2. listed[p] = b.Sheets[k].name
      BY <2>1, <1>0, SheetMapLists
    <2> QED BY <1>0, <2>1, <2>2, TitleReads
  <1>4. loaded = IDs(b)
    BY <1>2, <1>3
  <1>5. DOMAIN b.Sheet \subseteq IDs(b) /\ DOMAIN b.Sheet \cup DOMAIN b.XLSX = IDs(b)
    BY <1>0 DEF IsIndexed
  <1>6. DOMAIN S = IDs(b)
    BY <1>4, <1>5
  <1> DEFINE now(p) == i \in DOMAIN listed /\ part(i) = p
  <1>7. \A p \in IDs(b) : S[p] = [ContentOf(b, p) EXCEPT !.sel = now(p)]
    BY <1>4, <1>6
  <1>8. \A p \in IDs(b) : now(p) \in BOOLEAN /\ (now(p) => p = i)
    BY <1>2, <1>3
  <1> HIDE DEF now, S
  <1>9. \A p \in IDs(b) : /\ S[p] \in Content
                          /\ S[p].data = ContentOf(b, p).data
                          /\ S[p].links = ContentOf(b, p).links
                          /\ S[p].formula = ContentOf(b, p).formula
                          /\ S[p].sel = now(p)
    <2> SUFFICES ASSUME NEW p \in IDs(b)
                 PROVE  /\ S[p] \in Content
                        /\ S[p].data = ContentOf(b, p).data
                        /\ S[p].links = ContentOf(b, p).links
                        /\ S[p].formula = ContentOf(b, p).formula
                        /\ S[p].sel = now(p)
      OBVIOUS
    <2>1. ContentOf(b, p) \in Content
      BY <1>0, ContentType
    <2> QED BY <2>1, <1>7, <1>8 DEF Content
  <1>10. t \in Nat /\ \A k \in tabs : t = k - 1
    <2>1. CASE tabs = {}
      BY <2>1, <1>0 DEF IsFile
    <2>2. CASE tabs # {}
      <3>1. PICK k \in tabs : TRUE
        BY <2>2
      <3>2. k \in Nat /\ k >= 1
        BY <1>0, Entries
      <3>3. \A j \in tabs : j = k
        BY <1>0 DEF IsListed
      <3>4. (CHOOSE m \in tabs : \A j \in tabs : j <= m) = k
        BY <3>1, <3>2, <3>3
      <3>5. t = k - 1
        BY <2>2, <3>4
      <3> HIDE DEF t, tabs
      <3>6. t \in Nat
        BY <3>2, <3>5
      <3> QED BY <3>3, <3>5, <3>6
    <2> QED BY <2>1, <2>2
  <1> HIDE DEF t
  <1>11. /\ IsFile(c) /\ SameSheets(b, c) /\ c.Sheet = S /\ c.ActiveTab = t
         /\ c.XLSX = b.XLSX /\ c.SheetRels = b.SheetRels /\ c.XLSXRels = b.XLSXRels
         /\ c.CalcChain = b.CalcChain
    <2>1. Range(S) \subseteq Content
      BY <1>6, <1>9 DEF Range
    <2> QED BY <1>0, <1>10, <2>1, FileWithSheet
  <1> HIDE DEF c
  <1>12. \A p \in IDs(b) : ContentOf(c, p) = S[p]
    BY <1>6, <1>11 DEF ContentOf
  <1>13. \A p : RelsOf(c, p) = RelsOf(b, p)
    BY <1>11 DEF RelsOf
  <1>14. Agrees(c) /\ IDs(c) = IDs(b) /\ Positions(c) = Positions(b)
    <2>1. DOMAIN c.Sheet \cup DOMAIN c.XLSX = IDs(b)
      BY <1>5, <1>6, <1>11
    <2>2. \A p \in IDs(b) : ContentOf(c, p).links <= RelsOf(c, p)
      BY <1>0, <1>9, <1>12, <1>13 DEF IsLinked
    <2>3. \A id \in c.CalcChain : id \in IDs(b) /\ ContentOf(c, id).formula
      BY <1>0, <1>9, <1>11, <1>12 DEF IsLinked
    <2> QED BY <1>11, <2>1, <2>2, <2>3, SameSheetsAgree
  <1>15. IsSelected(c)
    <2> SUFFICES ASSUME NEW k \in Positions(b), ContentOf(c, b.Sheets[k].id).sel
                 PROVE  t = k - 1
      BY <1>11, <1>14 DEF IsSelected, SameSheets
    <2>1. b.Sheets[k].id \in IDs(b)
      BY DEF IDs
    <2>2. now(b.Sheets[k].id)
      BY <2>1, <1>9, <1>12
    <2> QED BY <2>1, <2>2, <1>8, <1>10
  <1> QED BY <1>1, <1>9, <1>11, <1>12, <1>14, <1>15

-----------------------------------------------------------------------------
(* Storing one worksheet.                                                  *)

\* worksheet c in part p, with the relationships R, parsed, and X, stored,
\* and the calculation chain C
Stored(b, p, c, R, X, C) ==
  [b EXCEPT !.Sheet = Put(@, p, c), !.SheetRels = R, !.XLSXRels = X, !.CalcChain = C]

\* R and X have n relationships for p at least and no fewer for the others
RelsReach(b, R, X, p, n) ==
  /\ IsPartial(R, Parts, Nat) /\ IsPartial(X, Parts, Nat)
  /\ \A q \in IDs(b) :
       (IF q = p THEN n ELSE RelsOf(b, q)) <=
         IF q \in DOMAIN R THEN R[q] ELSE IF q \in DOMAIN X THEN X[q] ELSE 0

\* a worksheet may be stored if its hyperlinks have relationships and it has
\* the formula the chain mentions; the selected sheet stays the active one
\* if it is not the new one that is selected
LEMMA StoredKeepsAgreeing ==
  ASSUME NEW b, Agrees(b), NEW p \in IDs(b), NEW c, c \in Content,
         NEW R, NEW X, RelsReach(b, R, X, p, c.links),
         NEW C, C \subseteq b.CalcChain, p \in C => c.formula
  PROVE  /\ Agrees(Stored(b, p, c, R, X, C))
         /\ SameSheets(b, Stored(b, p, c, R, X, C))
         /\ \A q : ContentOf(Stored(b, p, c, R, X, C), q) =
                    IF q = p THEN c ELSE ContentOf(b, q)
         /\ IsSelected(b) /\ (c.sel => ContentOf(b, p).sel)
              => IsSelected(Stored(b, p, c, R, X, C))
  <1>0. IsFile(b) /\ IsListed(b) /\ IsIndexed(b) /\ IsLinked(b)
    BY DEF Agrees
  <1> DEFINE d == Stored(b, p, c, R, X, C)
  <1>1. /\ DOMAIN d = Fields /\ d = [field \in Fields |-> d[field]]
        /\ d.Sheet = Put(b.Sheet, p, c) /\ d.SheetRels = R /\ d.XLSXRels = X
        /\ d.CalcChain = C /\ SameSheets(b, d) /\ d.ActiveTab = b.ActiveTab
        /\ d.XLSX = b.XLSX
    BY <1>0 DEF IsFile, Fields, SameSheets, Stored
  <1> HIDE DEF d
  <1>2. /\ DOMAIN d.Sheet = DOMAIN b.Sheet \cup {p}
        /\ \A q \in DOMAIN d.Sheet : d.Sheet[q] = IF q = p THEN c ELSE b.Sheet[q]
    BY <1>1 DEF Put
  <1>3. \A q \in DOMAIN b.Sheet : b.Sheet[q] \in Content
    BY <1>0 DEF IsFile, Range
  <1>4. Range(d.Sheet) \subseteq Content
    BY <1>2, <1>3 DEF Range
  <1>5. IsFile(d)
    BY <1>0, <1>1, <1>4 DEF IsFile, SameSheets, RelsReach
  <1>6. \A q : ContentOf(d, q) = IF q = p THEN c ELSE ContentOf(b, q)
    BY <1>1, <1>2 DEF ContentOf
  <1>7. DOMAIN d.Sheet \cup DOMAIN d.XLSX = IDs(b)
    BY <1>0, <1>1, <1>2 DEF IsIndexed
  <1>8. \A q \in IDs(b) : ContentOf(d, q).links <= RelsOf(d, q)
    <2> SUFFICES ASSUME NEW q \in IDs(b)
                 PROVE  ContentOf(d, q).links <= RelsOf(d, q)
      OBVIOUS
    <2>1. (IF q = p THEN c.links ELSE RelsOf(b, q)) <= RelsOf(d, q)
      BY <1>1 DEF RelsReach, RelsOf
    <2>2. ContentOf(b, q).links <= RelsOf(b, q)
      BY <1>0 DEF IsLinked
    <2>3. ContentOf(b, q).links \in Nat /\ RelsOf(b, q) \in Nat /\ RelsOf(d, q) \in Nat
      BY <1>0, <1>5, ContentType DEF Content
    <2> QED BY <1>6, <2>1, <2>2, <2>3
  <1>9. \A id \in d.CalcChain : id \in IDs(b) /\ ContentOf(d, id).formula
    BY <1>0, <1>1, <1>6 DEF IsLinked
  <1>10. Agrees(d) /\ Positions(d) = Positions(b)
    BY <1>1, <1>5, <1>7, <1>8, <1>9, SameSheetsAgree
  <1>11. ASSUME IsSelected(b), c.sel => ContentOf(b, p).sel
         PROVE  IsSelected(d)
    <2> SUFFICES ASSUME NEW k \in Positions(b), ContentOf(d, b.Sheets[k].id).sel
                 PROVE  b.ActiveTab = k - 1
      BY <1>1, <1>10 DEF IsSelected, SameSheets
    <2>1. ContentOf(b, b.Sheets[k].id).sel
      BY <1>6, <1>11
    <2> QED BY <2>1, <1>11 DEF IsSelected
  <1> QED BY <1>1, <1>6, <1>10, <1>11 DEF d

\* the relationships as they are will do for as many links as there were
LEMMA RelsUnchanged ==
  ASSUME NEW b, Agrees(b), NEW p \in IDs(b), NEW n, n \in Nat, n <= RelsOf(b, p)
  PROVE  RelsReach(b, b.SheetRels, b.XLSXRels, p, n)
  <1>1. IsPartial(b.SheetRels, Parts, Nat) /\ IsPartial(b.XLSXRels, Parts, Nat)
    BY DEF Agrees, IsFile
  <1>2. \A q : RelsOf(b, q) \in Nat
    BY ContentType DEF Agrees
  <1> QED BY <1>1, <1>2 DEF RelsReach, RelsOf

\* the relationships and the chain are as they were
LEMMA StoredSheet ==
  ASSUME NEW b, IsFile(b), NEW p, NEW c
  PROVE  [b EXCEPT !.Sheet = Put(@, p, c)] =
           Stored(b, p, c, b.SheetRels, b.XLSXRels, b.CalcChain)
  BY DEF Stored, IsFile, Fields

-----------------------------------------------------------------------------
(* The workbook the client sees.                                           *)

\* the tabs that Abstract maps a File to
TabsOf(b) == [k \in Positions(b) |->
                [name |-> b.Sheets[k].name, data |-> DataOf(b, b.Sheets[k].name)]]

\* the contents a client sees are those of the sheet's own part
LEMMA TabsRead ==
  ASSUME NEW b, Agrees(b)
  PROVE  TabsOf(b) = [k \in Positions(b) |->
                        [name |-> b.Sheets[k].name,
                         data |-> Seen(ContentOf(b, b.Sheets[k].id))]]
  <1>1. \A k \in Positions(b) :
          DataOf(b, b.Sheets[k].name) = Seen(ContentOf(b, b.Sheets[k].id))
    BY TitleReads DEF Agrees, DataOf
  <1> QED BY <1>1 DEF TabsOf

\* they are a sequence of tabs, each with a name of its own
LEMMA TabsType ==
  ASSUME NEW b, Agrees(b)
  PROVE  /\ TabsOf(b) \in Seq(Abstract!Tab) /\ TabsOf(b) # << >>
         /\ Len(TabsOf(b)) = Len(b.Sheets)
         /\ Abstract!Places(TabsOf(b)) = Positions(b)
         /\ Abstract!Distinct(TabsOf(b))
  <1>0. IsFile(b) /\ IsListed(b)
    BY DEF Agrees
  <1>1. Len(b.Sheets) \in Nat /\ Len(b.Sheets) >= 1 /\ Positions(b) = 1..Len(b.Sheets)
    BY <1>0, Entries
  <1>2. \A k \in Positions(b) : b.Sheets[k].name \in CleanNames
    BY <1>0, Entries DEF IsListed, CleanNames
  <1>3. \A k \in Positions(b) : Seen(ContentOf(b, b.Sheets[k].id)) \in Data \X BOOLEAN
    <2> SUFFICES ASSUME NEW k \in Positions(b)
                 PROVE  Seen(ContentOf(b, b.Sheets[k].id)) \in Data \X BOOLEAN
      OBVIOUS
    <2>1. ContentOf(b, b.Sheets[k].id) \in Content
      BY <1>0, ContentType
    <2> QED BY <2>1 DEF Seen, Content
  <1>4. \A k \in Positions(b) : TabsOf(b)[k] \in Abstract!Tab
    BY <1>2, <1>3, TabsRead DEF Abstract!Tab
  <1>5. TabsOf(b) = [k \in 1..Len(b.Sheets) |-> TabsOf(b)[k]]
    BY <1>1 DEF TabsOf
  <1>6. TabsOf(b) \in Seq(Abstract!Tab) /\ Len(TabsOf(b)) = Len(b.Sheets)
    BY <1>1, <1>4, <1>5, SMTT(30)
  <1>7. TabsOf(b) # << >>
    BY <1>1, <1>6
  <1>8. Abstract!Places(TabsOf(b)) = Positions(b)
    BY <1>1, <1>6 DEF Abstract!Places
  <1>9. \A k \in Positions(b) : TabsOf(b)[k].name = b.Sheets[k].name
    BY DEF TabsOf
  <1>10. Abstract!Distinct(TabsOf(b))
    BY <1>0, <1>8, <1>9 DEF Abstract!Distinct, IsListed
  <1> QED BY <1>6, <1>7, <1>8, <1>10

\* storing worksheet c under the k-th tab writes what is seen of it there
LEMMA TabsStored ==
  ASSUME NEW b, Agrees(b), NEW k \in Positions(b), NEW c, c \in Content,
         NEW d, Agrees(d), SameSheets(b, d),
         \A q : ContentOf(d, q) = IF q = b.Sheets[k].id THEN c ELSE ContentOf(b, q)
  PROVE  /\ TabsOf(d) = [TabsOf(b) EXCEPT ![k].data = Seen(c)]
         /\ Abstract!Step(TabsOf(b), TabsOf(d))
  <1>0. Positions(d) = Positions(b) /\ d.Sheets = b.Sheets
    BY DEF SameSheets, Positions
  <1> DEFINE S == [j \in Positions(b) |->
                     [name |-> b.Sheets[j].name,
                      data |-> Seen(ContentOf(b, b.Sheets[j].id))]]
  <1>1. TabsOf(b) = S
    BY TabsRead
  <1>2. TabsOf(d) = [j \in Positions(b) |->
                       [name |-> b.Sheets[j].name,
                        data |-> Seen(ContentOf(d, b.Sheets[j].id))]]
    BY <1>0, TabsRead
  <1>3. \A j \in Positions(b) :
          ContentOf(d, b.Sheets[j].id) = IF j = k THEN c ELSE ContentOf(b, b.Sheets[j].id)
    BY DEF Agrees, IsListed
  <1>4. TabsOf(d) = [j \in Positions(b) |->
                       IF j = k THEN [name |-> b.Sheets[j].name, data |-> Seen(c)]
                       ELSE S[j]]
    BY <1>2, <1>3
  <1>5. TabsOf(d) = [S EXCEPT ![k].data = Seen(c)]
    BY <1>4
  <1>6. Seen(c) \in Data \X BOOLEAN
    BY DEF Seen, Content
  <1>7. k \in Abstract!Places(TabsOf(b))
    BY TabsType
  <1>8. Abstract!Step(TabsOf(b), TabsOf(d))
    BY <1>1, <1>5, <1>6, <1>7 DEF Abstract!Step, Abstract!Write
  <1> QED BY <1>1, <1>5, <1>8

-----------------------------------------------------------------------------
(* The calls on one worksheet.                                             *)

\* a call that makes d of the File b keeps the structures agreeing and is a
\* step of the workbook the client sees, or none
Keeps(b, d) ==
  /\ Agrees(d) /\ IsSelected(d)
  /\ TabsOf(d) = TabsOf(b) \/ Abstract!Step(TabsOf(b), TabsOf(d))

\* storing a worksheet that was found by name
LEMMA StoreKeeps ==
  ASSUME NEW b, Agrees(b), IsSelected(b), NEW n \in Names, Readable(b, n),
         NEW c, c \in Content, c.sel => WorkSheet(b, n).sel,
         NEW R, RelsReach(b, R, b.XLSXRels, b.sheetMap[Trim[n]], c.links),
         NEW C, C \subseteq b.CalcChain, b.sheetMap[Trim[n]] \in C => c.formula
  PROVE  Keeps(b, Stored(b, b.sheetMap[Trim[n]], c, R, b.XLSXRels, C))
  <1>0. IsFile(b) /\ IsListed(b) /\ IsIndexed(b)
    BY DEF Agrees
  <1>1. PICK k \in Positions(b) : b.sheetMap[Trim[n]] = b.Sheets[k].id
    BY <1>0, ReadsTitle
  <1> DEFINE p == b.Sheets[k].id
             d == Stored(b, p, c, R, b.XLSXRels, C)
  <1>2. p \in IDs(b)
    BY DEF IDs
  <1>3. WorkSheet(b, n) = ContentOf(b, p)
    BY <1>1 DEF WorkSheet
  <1> HIDE DEF p
  <1>4. /\ Agrees(d) /\ SameSheets(b, d) /\ IsSelected(d)
        /\ \A q : ContentOf(d, q) = IF q = p THEN c ELSE ContentOf(b, q)
    BY <1>1, <1>2, <1>3, StoredKeepsAgreeing DEF p
  <1> HIDE DEF d
  <1>5. Abstract!Step(TabsOf(b), TabsOf(d))
    BY <1>4, TabsStored DEF p
  <1>6. Keeps(b, d)
    BY <1>4, <1>5 DEF Keeps
  <1> QED BY <1>1, <1>6 DEF d, p

\* what a worksheet found by name is, and that its links are counted
LEMMA FoundType ==
  ASSUME NEW b, Agrees(b), NEW n \in Names, Readable(b, n)
  PROVE  /\ b.sheetMap[Trim[n]] \in IDs(b)
         /\ WorkSheet(b, n) \in Content
         /\ WorkSheet(b, n).links \in Nat
         /\ WorkSheet(b, n).links <= RelsOf(b, b.sheetMap[Trim[n]])
         /\ b.sheetMap[Trim[n]] \in b.CalcChain => WorkSheet(b, n).formula
         /\ RelsReach(b, b.SheetRels, b.XLSXRels, b.sheetMap[Trim[n]],
                      WorkSheet(b, n).links)
  <1>0. IsFile(b) /\ IsListed(b) /\ IsIndexed(b) /\ IsLinked(b)
    BY DEF Agrees
  <1>1. b.sheetMap[Trim[n]] \in IDs(b)
    BY <1>0, ReadsTitle DEF IDs
  <1>2. WorkSheet(b, n) \in Content
    BY <1>0, ContentType DEF WorkSheet
  <1>3. WorkSheet(b, n).links \in Nat
    BY <1>2 DEF Content
  <1>4. /\ WorkSheet(b, n).links <= RelsOf(b, b.sheetMap[Trim[n]])
        /\ b.sheetMap[Trim[n]] \in b.CalcChain => WorkSheet(b, n).formula
    BY <1>0, <1>1 DEF IsLinked, WorkSheet
  <1> QED BY <1>1, <1>2, <1>3, <1>4, RelsUnchanged

\* the step of a call that stores a worksheet with the links it had
LEMMA StoreSheetKeeps ==
  ASSUME NEW b, Agrees(b), IsSelected(b), NEW n \in Names, Readable(b, n),
         NEW c, c \in Content, c.sel = WorkSheet(b, n).sel,
         c.links = WorkSheet(b, n).links, WorkSheet(b, n).formula => c.formula
  PROVE  Keeps(b, StoreSheet(b, n, c))
  <1> DEFINE p == b.sheetMap[Trim[n]]
  <1>1. /\ RelsReach(b, b.SheetRels, b.XLSXRels, p, c.links)
        /\ p \in b.CalcChain => c.formula
    BY FoundType
  <1>2. StoreSheet(b, n, c) = Stored(b, p, c, b.SheetRels, b.XLSXRels, b.CalcChain)
    BY StoredSheet DEF StoreSheet, Agrees
  <1> QED BY <1>1, <1>2, StoreKeeps

\* any call that reads a worksheet
LEMMA ReadKeeps ==
  ASSUME WorkbookInv, NEW n \in Names, Read(n)
  PROVE  Keeps(f, f') /\ panicked' = FALSE
  <1>1. Readable(f, n) /\ f' = StoreSheet(f, n, WorkSheet(f, n)) /\ panicked' = FALSE
    BY DEF Read, Becomes, WorkbookInv
  <1>2. WorkSheet(f, n) \in Content
    BY <1>1, FoundType DEF WorkbookInv
  <1> QED BY <1>1, <1>2, StoreSheetKeeps DEF WorkbookInv

\* any call that changes one
LEMMA WriteKeeps ==
  ASSUME WorkbookInv, NEW n \in Names, NEW v \in Data, Write(n, v)
  PROVE  Keeps(f, f') /\ panicked' = FALSE
  <1> DEFINE w == WorkSheet(f, n)
             c == [w EXCEPT !.data = v]
  <1>1. Readable(f, n) /\ f' = StoreSheet(f, n, c) /\ panicked' = FALSE
    BY DEF Write, Becomes, WorkbookInv
  <1>2. w \in Content
    BY <1>1, FoundType DEF WorkbookInv
  <1> HIDE DEF w
  <1>3. c \in Content /\ c.sel = w.sel /\ c.links = w.links /\ c.formula = w.formula
    BY <1>2 DEF Content
  <1> HIDE DEF c
  <1> QED BY <1>1, <1>3, StoreSheetKeeps DEF WorkbookInv, w

\* SetCellHyperLink: the relationship is there before the hyperlink
LEMMA AddLinkKeeps ==
  ASSUME WorkbookInv, NEW n \in Names, AddLink(n)
  PROVE  Keeps(f, f') /\ panicked' = FALSE
  <1> DEFINE p == f.sheetMap[Trim[n]]
             m == RelsOf(f, p) + 1
             w == WorkSheet(f, n)
             c == [w EXCEPT !.links = m]
             R == Put(f.SheetRels, p, m)
  <1>0. Agrees(f) /\ IsFile(f) /\ IsSelected(f) /\ panicked = FALSE
    BY DEF WorkbookInv, Agrees
  <1>1. /\ Readable(f, n) /\ panicked' = FALSE
        /\ f' = [StoreSheet(f, n, c) EXCEPT !.SheetRels = Put(@, p, m)]
    BY <1>0 DEF AddLink, Becomes
  <1>2. f' = Stored(f, p, c, R, f.XLSXRels, f.CalcChain)
    BY <1>0, <1>1 DEF StoreSheet, Stored, IsFile, Fields
  <1>3. p \in IDs(f) /\ w \in Content /\ (p \in f.CalcChain => w.formula)
    BY <1>0, <1>1, FoundType
  <1>4. m \in Nat /\ \A q : RelsOf(f, q) \in Nat
    BY <1>0, ContentType
  <1> HIDE DEF w, m
  <1>5. c \in Content /\ c.sel = w.sel /\ c.links = m /\ c.formula = w.formula
    BY <1>3, <1>4 DEF Content
  <1>6. p \in Parts
    BY <1>0, <1>3, Entries DEF Agrees
  <1> HIDE DEF p
  <1>7. RelsReach(f, R, f.XLSXRels, p, m)
    <2>1. /\ DOMAIN R = DOMAIN f.SheetRels \cup {p} /\ R[p] = m
          /\ \A q \in DOMAIN f.SheetRels : q # p => R[q] = f.SheetRels[q]
      BY DEF Put
    <2>2. IsPartial(R, Parts, Nat) /\ IsPartial(f.XLSXRels, Parts, Nat)
      BY <1>0, <1>4, <1>6, <2>1 DEF IsFile, IsPartial, Range
    <2>3. \A q \in IDs(f) :
            (IF q = p THEN m ELSE RelsOf(f, q)) =
              IF q \in DOMAIN R THEN R[q]
              ELSE IF q \in DOMAIN f.XLSXRels THEN f.XLSXRels[q] ELSE 0
      BY <2>1 DEF RelsOf
    <2> HIDE DEF R
    <2>4. \A q : (IF q = p THEN m ELSE RelsOf(f, q)) \in Nat
      BY <1>4
    <2> QED BY <2>2, <2>3, <2>4 DEF RelsReach
  <1> HIDE DEF c, R
  <1> QED BY <1>0, <1>1, <1>2, <1>3, <1>5, <1>7, StoreKeeps DEF p, w

\* SetCellFormula: the chain forgets the sheet before its formula goes
LEMMA SetCellFormulaKeeps ==
  ASSUME WorkbookInv, NEW n \in CleanNames, NEW v \in BOOLEAN, SetCellFormula(n, v)
  PROVE  Keeps(f, f') /\ panicked' = FALSE
  <1> DEFINE p == f.sheetMap[Trim[n]]
             w == WorkSheet(f, n)
             c == [w EXCEPT !.formula = v]
  <1>0. Agrees(f) /\ IsFile(f) /\ IsListed(f) /\ IsIndexed(f) /\ IsSelected(f) /\ panicked = FALSE
    BY DEF WorkbookInv, Agrees
  <1>1. n \in Names /\ Trim[n] = n
    BY DEF CleanNames
  <1>2. Readable(f, n) /\ panicked' = FALSE
    BY <1>0 DEF SetCellFormula, Becomes
  <1>3. w \in Content /\ RelsReach(f, f.SheetRels, f.XLSXRels, p, w.links)
    BY <1>0, <1>1, <1>2, FoundType
  <1> HIDE DEF w
  <1>4. c \in Content /\ c.sel = w.sel /\ c.links = w.links /\ c.formula = v
    BY <1>3 DEF Content
  <1>5. CASE v
    <2>1. f' = StoreSheet(f, n, c)
      BY <1>5 DEF SetCellFormula, Becomes, w
    <2> HIDE DEF c
    <2> QED BY <1>0, <1>1, <1>2, <1>4, <1>5, <2>1, StoreSheetKeeps DEF w
  <1>6. CASE ~v
    <2> DEFINE C == f.CalcChain \ {p}
    <2>1. GetSheetIndex(f, n) = p
      <3> DEFINE found == {k \in Positions(f) : /\ f.Sheets[k].name = n
                                                /\ f.Sheets[k].rid \in DOMAIN f.rels}
      <3>1. PICK k \in Positions(f) : f.Sheets[k].name = n /\ p = f.Sheets[k].id
        BY <1>0, <1>1, <1>2, ReadsTitle
      <3>2. k \in found /\ k <= k
        BY <1>0, <3>1, Entries
      <3>3. \A j \in found : j = k
        BY <1>0, <3>1 DEF IsListed
      <3>4. (CHOOSE i \in found : \A j \in found : i <= j) = k
        BY <3>2, <3>3
      <3>5. PartOf(f, f.Sheets[k]) = p
        BY <1>0, <3>1, Entries
      <3> QED BY <3>2, <3>4, <3>5 DEF GetSheetIndex
    <2>2. f' = DeleteCalcChain(StoreSheet(f, n, c), p)
      BY <1>6, <2>1 DEF SetCellFormula, Becomes, w
    <2>3. f' = Stored(f, p, c, f.SheetRels, f.XLSXRels, C)
      BY <1>0, <2>2 DEF DeleteCalcChain, StoreSheet, Stored, IsFile, Fields
    <2>4. C \subseteq f.CalcChain /\ p \notin C
      OBVIOUS
    <2> HIDE DEF c, C
    <2> QED BY <1>0, <1>1, <1>2, <1>3, <1>4, <2>3, <2>4, StoreKeeps DEF w
  <1> QED BY <1>5, <1>6

-----------------------------------------------------------------------------
\* CopySheet: the copy has the links the relationships reach, and is in no
\* chain; the sheet copied stays as it is
LEMMA CopySheetKeeps ==
  ASSUME WorkbookInv, NEW from \in Parts, NEW to \in Parts,
         ContentOf(f, from).links = 0, to \notin f.CalcChain, CopySheet(from, to)
  PROVE  Keeps(f, f') /\ panicked' = FALSE
  <1> DEFINE listed == GetSheetMap(f)
             n == listed[from]
             c == ContentOf(f, from)
             e == [c EXCEPT !.sel = FALSE]
             b == Stored(f, from, c, f.SheetRels, f.XLSXRels, f.CalcChain)
             X == IF from \in DOMAIN f.XLSXRels THEN Put(f.XLSXRels, to, f.XLSXRels[from])
                  ELSE f.XLSXRels
  <1>0. /\ Agrees(f) /\ IsFile(f) /\ IsListed(f) /\ IsIndexed(f) /\ IsLinked(f)
        /\ IsSelected(f) /\ panicked = FALSE
    BY DEF WorkbookInv, Agrees
  <1>1. from \in IDs(f) /\ to \in IDs(f) /\ panicked' = FALSE
    BY <1>0, SheetMapLists DEF CopySheet, Becomes
  <1>2. PICK k \in Positions(f) : f.Sheets[k].id = from
    BY <1>1, EntryOf
  <1>3. PICK j \in Positions(f) : f.Sheets[j].id = to
    BY <1>1, EntryOf
  <1>4. n = f.Sheets[k].name
    BY <1>0, <1>2, SheetMapLists
  <1>5. Readable(f, n) /\ WorkSheet(f, n) = c /\ f.sheetMap[Trim[n]] = from
    BY <1>0, <1>2, <1>4, TitleReads
  <1>6. StoreSheet(f, n, c) = b
    BY <1>0, <1>5, StoredSheet DEF StoreSheet
  <1>7. c \in Content /\ c.links = 0
    BY <1>0, ContentType
  <1>8. RelsReach(f, f.SheetRels, f.XLSXRels, from, c.links)
    BY <1>0, <1>1, <1>7, RelsUnchanged, ContentType
  <1>9. f.CalcChain \subseteq f.CalcChain /\ (from \in f.CalcChain => c.formula)
    BY <1>0 DEF IsLinked
  <1>10. f' = [StoreSheet(f, n, c) EXCEPT
                 !.Sheet = Put(@, to, e),
                 !.XLSXRels = IF from \in DOMAIN @ THEN Put(@, to, @[from]) ELSE @]
    BY <1>5 DEF CopySheet, Becomes
  <1> HIDE DEF c, n, listed
  <1>11. /\ Agrees(b) /\ SameSheets(f, b) /\ IsSelected(b)
         /\ \A q : ContentOf(b, q) = IF q = from THEN c ELSE ContentOf(f, q)
    BY <1>0, <1>1, <1>7, <1>8, <1>9, StoredKeepsAgreeing DEF c
  <1>12. \A q : ContentOf(b, q) = ContentOf(f, q)
    BY <1>11 DEF c
  <1>13. /\ b.SheetRels = f.SheetRels /\ b.XLSXRels = f.XLSXRels
         /\ b.CalcChain = f.CalcChain
    BY <1>0 DEF Stored, IsFile, Fields
  <1>14. f' = Stored(b, to, e, b.SheetRels, X, b.CalcChain)
    <2>1. f' = [b EXCEPT !.Sheet = Put(@, to, e), !.XLSXRels = X]
      BY <1>6, <1>10, <1>13
    <2> HIDE DEF b, X, e
    <2>2. IsFile(b)
      BY <1>11 DEF Agrees
    <2> QED BY <2>1, <2>2 DEF Stored, IsFile, Fields
  <1> HIDE DEF b
  <1>15. IDs(b) = IDs(f) /\ Positions(b) = Positions(f) /\ b.Sheets = f.Sheets
    BY <1>11 DEF SameSheets, IDs, Positions
  <1>16. \A q : RelsOf(b, q) = RelsOf(f, q) /\ RelsOf(f, q) \in Nat
    BY <1>0, <1>13, ContentType DEF RelsOf
  <1>17. e \in Content /\ e.links = 0 /\ ~e.sel
    BY <1>7 DEF Content
  <1>18. /\ DOMAIN X \subseteq DOMAIN f.XLSXRels \cup {to}
         /\ DOMAIN f.XLSXRels \subseteq DOMAIN X
         /\ \A q \in DOMAIN X : X[q] \in Nat
         /\ \A q \in DOMAIN X : q # to => X[q] = f.XLSXRels[q]
    <2>1. \A q \in DOMAIN f.XLSXRels : f.XLSXRels[q] \in Nat
      BY <1>0 DEF IsFile, IsPartial, Range
    <2> QED BY <2>1 DEF Put
  <1> HIDE DEF e, X
  <1>19. RelsReach(b, b.SheetRels, X, to, e.links)
    <2>1. IsPartial(b.SheetRels, Parts, Nat) /\ IsPartial(X, Parts, Nat)
      <3>1. IsPartial(f.SheetRels, Parts, Nat) /\ DOMAIN f.XLSXRels \subseteq Parts
        BY <1>0 DEF IsFile, IsPartial
      <3>2. IsPartial(X, Parts, Nat)
        BY <1>18, <3>1 DEF IsPartial, Range
      <3> QED BY <1>13, <3>1, <3>2
    <2>2. ASSUME NEW q \in IDs(b)
          PROVE  (IF q = to THEN e.links ELSE RelsOf(b, q)) <=
                   IF q \in DOMAIN b.SheetRels THEN b.SheetRels[q]
                   ELSE IF q \in DOMAIN X THEN X[q] ELSE 0
      <3>1. q \in DOMAIN f.SheetRels => f.SheetRels[q] \in Nat
        BY <1>0 DEF IsFile, IsPartial, Range
      <3>2. CASE q = to
        BY <1>13, <1>17, <1>18, <3>1, <3>2
      <3>3. CASE q # to
        <4>1. RelsOf(f, q) = IF q \in DOMAIN f.SheetRels THEN f.SheetRels[q]
                             ELSE IF q \in DOMAIN X THEN X[q] ELSE 0
          BY <1>18, <3>3 DEF RelsOf
        <4> QED BY <1>13, <1>16, <3>3, <4>1
      <3> QED BY <3>2, <3>3
    <2> QED BY <2>1, <2>2 DEF RelsReach
  <1>20. /\ Agrees(f') /\ SameSheets(b, f') /\ IsSelected(f')
         /\ \A q : ContentOf(f', q) = IF q = to THEN e ELSE ContentOf(b, q)
    <2>1. b.CalcChain \subseteq b.CalcChain /\ to \notin b.CalcChain
      BY <1>13
    <2>2. to \in IDs(b)
      BY <1>1, <1>15
    <2> QED BY <1>11, <1>14, <1>17, <1>19, <2>1, <2>2, StoredKeepsAgreeing
  <1>21. Abstract!Step(TabsOf(b), TabsOf(f'))
    BY <1>3, <1>11, <1>15, <1>17, <1>20, TabsStored
  <1>22. TabsOf(b) = TabsOf(f)
    BY <1>0, <1>11, <1>12, <1>15, TabsRead
  <1> QED BY <1>1, <1>20, <1>21, <1>22 DEF Keeps

-----------------------------------------------------------------------------
(* Changes to names, flags and caches: the numbers stay as they are.       *)

\* the sheets of d have the numbers and the contents of the sheets of b
SameNumbers(b, d) ==
  /\ Positions(d) = Positions(b)
  /\ \A k \in Positions(b) : /\ d.Sheets[k].id = b.Sheets[k].id
                             /\ d.Sheets[k].rid = b.Sheets[k].rid
  /\ d.rels = b.rels /\ d.ContentTypes = b.ContentTypes
  /\ d.SheetCount = Len(d.Sheets) /\ d.ActiveTab = b.ActiveTab
  /\ d.CalcChain = b.CalcChain
  /\ DOMAIN d.Sheet \cup DOMAIN d.XLSX = IDs(b)
  /\ \A p \in IDs(b) : /\ ContentOf(d, p) = ContentOf(b, p)
                       /\ RelsOf(d, p) = RelsOf(b, p)

\* trimmed names, no two alike, that sheetMap takes to their parts
NamesIndexed(d) ==
  /\ \A j, k \in Positions(d) : j # k => d.Sheets[j].name # d.Sheets[k].name
  /\ \A k \in Positions(d) : /\ Trim[d.Sheets[k].name] = d.Sheets[k].name
                             /\ d.sheetMap[d.Sheets[k].name] = d.Sheets[k].id
  /\ DOMAIN d.sheetMap = TitlesOf(d)

\* such a change keeps the structures agreeing, and the contents of every tab
LEMMA SameNumbersAgree ==
  ASSUME NEW b, Agrees(b), IsSelected(b), NEW d, IsFile(d), SameNumbers(b, d), NamesIndexed(d)
  PROVE  /\ Agrees(d) /\ IsSelected(d)
         /\ TabsOf(d) = [k \in Positions(b) |->
                            [name |-> d.Sheets[k].name,
                             data |-> Seen(ContentOf(b, b.Sheets[k].id))]]
  <1>0. IsFile(b) /\ IsListed(b) /\ IsIndexed(b) /\ IsLinked(b)
    BY DEF Agrees
  <1>1. IDs(d) = IDs(b) /\ Positions(d) = Positions(b)
    BY DEF SameNumbers, IDs
  <1>2. \A k \in Positions(b) : PartOf(d, d.Sheets[k]) = d.Sheets[k].id
    BY <1>0 DEF SameNumbers, PartOf, IsListed
  <1>3. IsListed(d)
    BY <1>0, <1>1, <1>2 DEF IsListed, SameNumbers, NamesIndexed
  <1>4. IsIndexed(d)
    BY <1>0, <1>1 DEF IsIndexed, SameNumbers, NamesIndexed
  <1>5. IsLinked(d)
    BY <1>0, <1>1 DEF IsLinked, SameNumbers
  <1>6. Agrees(d)
    BY <1>3, <1>4, <1>5 DEF Agrees
  <1>7. \A k \in Positions(b) : /\ d.Sheets[k].id = b.Sheets[k].id
                                /\ ContentOf(d, b.Sheets[k].id) = ContentOf(b, b.Sheets[k].id)
    BY DEF SameNumbers, IDs
  <1>8. IsSelected(d)
    BY <1>1, <1>7 DEF IsSelected, SameNumbers
  <1>9. TabsOf(d) = [k \in Positions(b) |->
                       [name |-> d.Sheets[k].name,
                        data |-> Seen(ContentOf(d, d.Sheets[k].id))]]
    BY <1>1, <1>6, TabsRead
  <1>10. TabsOf(d) = [k \in Positions(b) |->
                       [name |-> d.Sheets[k].name,
                        data |-> Seen(ContentOf(b, b.Sheets[k].id))]]
    BY <1>7, <1>9
  <1> QED BY <1>6, <1>8, <1>10

\* with the names as they were nothing happens for the client
LEMMA SameNamesKeep ==
  ASSUME NEW b, Agrees(b), IsSelected(b), NEW d, IsFile(d), SameNumbers(b, d), NamesIndexed(d),
         \A k \in Positions(b) : d.Sheets[k].name = b.Sheets[k].name
  PROVE  Keeps(b, d)
  <1>1. TabsOf(d) = TabsOf(b)
    BY SameNumbersAgree, TabsRead, SMTT(30)
  <1> QED BY <1>1, SameNumbersAgree DEF Keeps

\* the names of agreeing structures are indexed
LEMMA AgreeIndexed ==
  ASSUME NEW b, Agrees(b)
  PROVE  NamesIndexed(b)
  BY DEF Agrees, IsListed, IsIndexed, NamesIndexed

\* Save writes what has been parsed: nothing reads differently
LEMMA SavedReads ==
  ASSUME NEW b, Agrees(b)
  PROVE  /\ IsFile(Saved(b)) /\ SameSheets(b, Saved(b))
         /\ Saved(b).Sheet = b.Sheet /\ Saved(b).SheetRels = b.SheetRels
         /\ Saved(b).ActiveTab = b.ActiveTab /\ Saved(b).CalcChain = b.CalcChain
         /\ DOMAIN Saved(b).XLSX = IDs(b)
         /\ \A p \in IDs(b) : Saved(b).XLSX[p] = ContentOf(b, p)
         /\ DOMAIN Saved(b).XLSXRels = DOMAIN b.XLSXRels \cup DOMAIN b.SheetRels
         /\ \A p \in DOMAIN Saved(b).XLSXRels : Saved(b).XLSXRels[p] = RelsOf(b, p)
  <1> DEFINE d == Saved(b)
             S == [p \in DOMAIN b.XLSX \cup DOMAIN b.Sheet |-> ContentOf(b, p)]
             X == [p \in DOMAIN b.XLSXRels \cup DOMAIN b.SheetRels |-> RelsOf(b, p)]
  <1>0. IsFile(b) /\ DOMAIN b.Sheet \cup DOMAIN b.XLSX = IDs(b)
    BY DEF Agrees, IsIndexed
  <1>1. d = [b EXCEPT !.XLSX = S, !.XLSXRels = X]
    BY DEF Saved
  <1>2. DOMAIN S = IDs(b) /\ \A p \in IDs(b) : S[p] = ContentOf(b, p)
    BY <1>0
  <1>3. /\ DOMAIN X = DOMAIN b.XLSXRels \cup DOMAIN b.SheetRels
        /\ \A p \in DOMAIN X : X[p] = RelsOf(b, p)
    OBVIOUS
  <1> HIDE DEF d, S, X
  <1>4. /\ DOMAIN d = Fields /\ d = [field \in Fields |-> d[field]]
        /\ d.XLSX = S /\ d.XLSXRels = X /\ SameSheets(b, d) /\ d.Sheet = b.Sheet
        /\ d.SheetRels = b.SheetRels /\ d.ActiveTab = b.ActiveTab
        /\ d.CalcChain = b.CalcChain
    BY <1>0, <1>1 DEF IsFile, Fields, SameSheets
  <1>5. Range(S) \subseteq Content
    BY <1>0, <1>2, ContentType DEF Range
  <1>6. IsPartial(X, Parts, Nat)
    <2>1. DOMAIN X \subseteq Parts
      BY <1>0, <1>3 DEF IsFile, IsPartial
    <2>2. Range(X) \subseteq Nat
      BY <1>0, <1>3, ContentType DEF Range
    <2> QED BY <2>1, <2>2 DEF IsPartial
  <1>7. IsFile(d)
    BY <1>0, <1>4, <1>5, <1>6 DEF IsFile, SameSheets
  <1> QED BY <1>2, <1>3, <1>4, <1>7 DEF d

\* Save
LEMMA SaveKeeps ==
  ASSUME WorkbookInv, Save
  PROVE  Keeps(f, f') /\ panicked' = FALSE
  <1>0. /\ Agrees(f) /\ IsSelected(f) /\ f' = Saved(f) /\ panicked' = FALSE
        /\ f.SheetCount = Len(f.Sheets)
    BY DEF WorkbookInv, Save, Becomes, Agrees, IsIndexed
  <1>1. /\ IsFile(f') /\ SameSheets(f, f') /\ f'.Sheet = f.Sheet
        /\ f'.SheetRels = f.SheetRels
        /\ f'.ActiveTab = f.ActiveTab /\ f'.CalcChain = f.CalcChain
        /\ DOMAIN f'.XLSX = IDs(f) /\ \A p \in IDs(f) : f'.XLSX[p] = ContentOf(f, p)
        /\ DOMAIN f'.XLSXRels = DOMAIN f.XLSXRels \cup DOMAIN f.SheetRels
        /\ \A p \in DOMAIN f'.XLSXRels : f'.XLSXRels[p] = RelsOf(f, p)
    BY <1>0, SavedReads
  <1>2. /\ \A p \in IDs(f) : ContentOf(f', p) = ContentOf(f, p)
        /\ \A p : RelsOf(f', p) = RelsOf(f, p)
    BY <1>1 DEF ContentOf, RelsOf
  <1>3. DOMAIN f'.Sheet \cup DOMAIN f'.XLSX = IDs(f)
    BY <1>0, <1>1 DEF Agrees, IsIndexed
  <1>4. Positions(f') = Positions(f) /\ TitlesOf(f') = TitlesOf(f)
    BY <1>1 DEF SameSheets, Positions, TitlesOf
  <1>5. SameNumbers(f, f')
    BY <1>0, <1>1, <1>2, <1>3, <1>4 DEF SameNumbers, SameSheets
  <1>6. NamesIndexed(f')
    BY <1>0, <1>1, <1>4, AgreeIndexed DEF NamesIndexed, SameSheets
  <1> QED BY <1>0, <1>1, <1>5, <1>6, SameNamesKeep DEF SameSheets

\* there are as many identifiers as sheets
LEMMA CountIDs ==
  ASSUME NEW b, Agrees(b)
  PROVE  Cardinality(IDs(b)) = Len(b.Sheets)
  <1>0. IsFile(b) /\ IsListed(b)
    BY DEF Agrees
  <1>1. Len(b.Sheets) \in Nat /\ Positions(b) = 1..Len(b.Sheets)
    BY <1>0, Entries
  <1> DEFINE g == [k \in 1..Len(b.Sheets) |-> b.Sheets[k].id]
  <1>2. g \in Bijection(1..Len(b.Sheets), IDs(b))
    <2>1. g \in [1..Len(b.Sheets) -> IDs(b)]
      BY <1>1 DEF IDs
    <2>2. \A j, k \in 1..Len(b.Sheets) : g[j] = g[k] => j = k
      BY <1>0, <1>1 DEF IsListed
    <2>3. \A p \in IDs(b) : \E k \in 1..Len(b.Sheets) : g[k] = p
      BY <1>1 DEF IDs
    <2> HIDE DEF g
    <2> QED BY <2>1, <2>2, <2>3 DEF Bijection, Injection, IsInjective, Surjection
  <1>3. IsFiniteSet(1..Len(b.Sheets)) /\ Cardinality(1..Len(b.Sheets)) = Len(b.Sheets)
    BY <1>1, FS_Interval
  <1>4. ExistsBijection(1..Len(b.Sheets), IDs(b))
    BY <1>2 DEF ExistsBijection
  <1> QED BY <1>3, <1>4, FS_Bijection

-----------------------------------------------------------------------------
\* Save, then OpenFile: the index is made anew and the parts are counted
LEMMA ReopenKeeps ==
  ASSUME WorkbookInv, Reopen
  PROVE  Keeps(f, f') /\ panicked' = FALSE
  <1> DEFINE b == Saved(f)
             listed == GetSheetMap(b)
             M == [n \in Range(listed) |-> CHOOSE p \in DOMAIN listed : listed[p] = n]
             N == Cardinality(DOMAIN b.XLSX)
  <1>0. Agrees(f) /\ IsSelected(f) /\ panicked = FALSE
    BY DEF WorkbookInv
  <1>1. panicked' = FALSE /\ f' = [b EXCEPT !.Sheet = << >>, !.SheetRels = << >>,
                                     !.sheetMap = M, !.SheetCount = N]
    BY <1>0 DEF Reopen, Becomes
  <1>2. /\ IsFile(b) /\ SameSheets(f, b)
        /\ b.ActiveTab = f.ActiveTab /\ b.CalcChain = f.CalcChain
        /\ DOMAIN b.XLSX = IDs(f) /\ \A p \in IDs(f) : b.XLSX[p] = ContentOf(f, p)
        /\ DOMAIN b.XLSXRels = DOMAIN f.XLSXRels \cup DOMAIN f.SheetRels
        /\ \A p \in DOMAIN b.XLSXRels : b.XLSXRels[p] = RelsOf(f, p)
    BY <1>0, SavedReads
  <1>3. N = Len(f.Sheets)
    BY <1>0, <1>2, CountIDs
  <1> HIDE DEF b
  <1>4. IsListed(b)
    <2>1. Positions(b) = Positions(f)
      BY <1>2 DEF SameSheets, Positions
    <2> QED BY <1>0, <1>2, <2>1 DEF Agrees, IsListed, SameSheets, PartOf
  <1>5. Positions(b) = Positions(f) /\ IDs(b) = IDs(f) /\ TitlesOf(b) = TitlesOf(f)
    BY <1>2 DEF SameSheets, Positions, IDs, TitlesOf
  <1>6. /\ DOMAIN listed = IDs(f)
        /\ \A k \in Positions(f) : listed[f.Sheets[k].id] = f.Sheets[k].name
    BY <1>2, <1>4, <1>5, SheetMapLists DEF SameSheets
  <1> HIDE DEF listed
  <1>7. Range(listed) = TitlesOf(f)
    BY <1>6 DEF Range, IDs, TitlesOf
  <1>8. \A k \in Positions(f) : M[f.Sheets[k].name] = f.Sheets[k].id
    <2> SUFFICES ASSUME NEW k \in Positions(f)
                 PROVE  M[f.Sheets[k].name] = f.Sheets[k].id
      OBVIOUS
    <2>1. f.Sheets[k].name \in Range(listed) /\ f.Sheets[k].id \in DOMAIN listed
      BY <1>6, <1>7 DEF TitlesOf, IDs
    <2>2. ASSUME NEW p \in DOMAIN listed, listed[p] = f.Sheets[k].name
          PROVE  p = f.Sheets[k].id
      <3>1. PICK j \in Positions(f) : f.Sheets[j].id = p
        BY <1>6, <2>2, EntryOf
      <3>2. f.Sheets[j].name = f.Sheets[k].name
        BY <1>6, <2>2, <3>1
      <3>3. j = k
        BY <1>0, <3>2 DEF Agrees, IsListed
      <3> QED BY <3>1, <3>3
    <2>3. (CHOOSE p \in DOMAIN listed : listed[p] = f.Sheets[k].name) = f.Sheets[k].id
      BY <1>6, <2>1, <2>2
    <2> QED BY <2>1, <2>3
  <1>9. DOMAIN M = TitlesOf(f)
    BY <1>7
  <1> HIDE DEF M, N
  <1>10. /\ DOMAIN f' = Fields /\ f' = [field \in Fields |-> f'[field]]
         /\ f'.Sheet = << >> /\ f'.SheetRels = << >> /\ f'.sheetMap = M
         /\ f'.SheetCount = N /\ f'.XLSX = b.XLSX /\ f'.XLSXRels = b.XLSXRels
         /\ f'.Sheets = f.Sheets /\ f'.rels = f.rels
         /\ f'.ContentTypes = f.ContentTypes
         /\ f'.ActiveTab = f.ActiveTab /\ f'.CalcChain = f.CalcChain
    BY <1>1, <1>2 DEF IsFile, Fields, SameSheets
  <1>11. IsPartial(f'.SheetRels, Parts, Nat) /\ Range(f'.Sheet) \subseteq Content
    BY <1>10 DEF IsPartial, Range
  <1>12. IsFile(f')
    BY <1>2, <1>10, <1>11 DEF IsFile, SameSheets
  <1>13. /\ \A p \in IDs(f) : ContentOf(f', p) = ContentOf(f, p)
         /\ \A p : RelsOf(f', p) = RelsOf(f, p)
    BY <1>2, <1>10 DEF ContentOf, RelsOf
  <1>14. Positions(f') = Positions(f) /\ TitlesOf(f') = TitlesOf(f)
    BY <1>10 DEF Positions, TitlesOf
  <1>15. DOMAIN f'.Sheet \cup DOMAIN f'.XLSX = IDs(f)
    BY <1>2, <1>10
  <1>16. SameNumbers(f, f')
    BY <1>3, <1>10, <1>13, <1>14, <1>15 DEF SameNumbers
  <1>17. NamesIndexed(f')
    BY <1>0, <1>8, <1>9, <1>10, <1>14 DEF NamesIndexed, Agrees, IsListed
  <1> QED BY <1>0, <1>1, <1>10, <1>12, <1>16, <1>17, SameNamesKeep

\* SetSheetVisible changes flags; it reads the sheets it passes
LEMMA SetSheetVisibleKeeps ==
  ASSUME WorkbookInv, NEW n \in Names, NEW visible \in BOOLEAN, SetSheetVisible(n, visible)
  PROVE  Keeps(f, f') /\ panicked' = FALSE
  <1> DEFINE listed   == GetSheetMap(f)
             reads(k) == k - 1 \in DOMAIN listed /\ Readable(f, listed[k - 1])
             shown    == {k \in Positions(f) : ~f.Sheets[k].hidden}
             done     == {k \in Positions(f) : \A j \in 1..k : reads(j)}
             hides(k) == /\ k \in done /\ Cardinality(shown) > 1
                         /\ ~WorkSheet(f, listed[k - 1]).sel
             entry(k) == IF f.Sheets[k].name # Trim[n] THEN f.Sheets[k]
                         ELSE [f.Sheets[k] EXCEPT
                                 !.hidden = ~visible /\ (f.Sheets[k].hidden \/ hides(k))]
             T == [k \in Positions(f) |-> entry(k)]
             S == IF visible THEN f.Sheet
                  ELSE [p \in DOMAIN f.Sheet \cup
                                {f.sheetMap[Trim[listed[k - 1]]] : k \in done}
                           |-> ContentOf(f, p)]
  <1>0. /\ Agrees(f) /\ IsFile(f) /\ IsListed(f) /\ IsIndexed(f) /\ IsSelected(f)
        /\ panicked = FALSE
    BY DEF WorkbookInv, Agrees
  <1>1. panicked' = FALSE /\ f' = [f EXCEPT !.Sheets = T, !.Sheet = S]
    BY <1>0 DEF SetSheetVisible, ShowHide, Becomes
  <1>2. done = {}
    <2>1. DOMAIN listed = IDs(f) /\ 0 \notin IDs(f)
      BY <1>0, SheetMapLists, Entries
    <2>2. ~reads(1)
      BY <2>1
    <2>3. \A k \in Positions(f) : 1 \in 1..k
      BY <1>0, Entries
    <2> QED BY <2>2, <2>3
  <1>3. /\ DOMAIN S = DOMAIN f.Sheet
        /\ \A p \in DOMAIN S : S[p] = f.Sheet[p]
    BY <1>2 DEF ContentOf
  <1>4. \A k \in Positions(f) : /\ entry(k) \in Sheets
                                /\ entry(k).name = f.Sheets[k].name
                                /\ entry(k).id = f.Sheets[k].id
                                /\ entry(k).rid = f.Sheets[k].rid
    <2> SUFFICES ASSUME NEW k \in Positions(f)
                 PROVE  /\ entry(k) \in Sheets
                        /\ entry(k).name = f.Sheets[k].name
                        /\ entry(k).id = f.Sheets[k].id
                        /\ entry(k).rid = f.Sheets[k].rid
      OBVIOUS
    <2> DEFINE e == f.Sheets[k]
               h == ~visible /\ (f.Sheets[k].hidden \/ hides(k))
    <2>1. e \in Sheets
      BY <1>0, Entries
    <2>2. h \in BOOLEAN
      OBVIOUS
    <2>3. entry(k) = e \/ entry(k) = [e EXCEPT !.hidden = h]
      OBVIOUS
    <2> HIDE DEF e, h
    <2> QED BY <2>1, <2>2, <2>3 DEF Sheets, e
  <1> HIDE DEF entry, S
  <1>5. /\ T \in Seq(Sheets) /\ T # << >> /\ Len(T) = Len(f.Sheets)
        /\ \A k \in Positions(f) : T[k] = entry(k)
    <2>1. Len(f.Sheets) \in Nat /\ Len(f.Sheets) >= 1 /\ Positions(f) = 1..Len(f.Sheets)
      BY <1>0, Entries
    <2> QED BY <1>4, <2>1
  <1> HIDE DEF T
  <1>6. /\ DOMAIN f' = Fields /\ f' = [field \in Fields |-> f'[field]]
        /\ f'.Sheets = T /\ f'.Sheet = S /\ f'.SheetRels = f.SheetRels
        /\ f'.sheetMap = f.sheetMap /\ f'.SheetCount = f.SheetCount
        /\ f'.XLSX = f.XLSX /\ f'.XLSXRels = f.XLSXRels /\ f'.rels = f.rels
        /\ f'.ContentTypes = f.ContentTypes
        /\ f'.ActiveTab = f.ActiveTab /\ f'.CalcChain = f.CalcChain
    BY <1>0, <1>1 DEF IsFile, Fields
  <1>7. Range(S) \subseteq Content
    BY <1>0, <1>3 DEF IsFile, Range
  <1>8. IsFile(f')
    BY <1>0, <1>5, <1>6, <1>7 DEF IsFile
  <1>9. \A p : ContentOf(f', p) = ContentOf(f, p) /\ RelsOf(f', p) = RelsOf(f, p)
    BY <1>3, <1>6 DEF ContentOf, RelsOf
  <1>10. Positions(f') = Positions(f)
    BY <1>5, <1>6 DEF Positions
  <1>11. TitlesOf(f') = TitlesOf(f)
    BY <1>4, <1>5, <1>6, <1>10 DEF TitlesOf
  <1>12. DOMAIN f'.Sheet \cup DOMAIN f'.XLSX = IDs(f)
    BY <1>0, <1>3, <1>6 DEF IsIndexed
  <1>13. f'.SheetCount = Len(f'.Sheets)
    BY <1>0, <1>5, <1>6 DEF IsIndexed
  <1>14. SameNumbers(f, f')
    BY <1>4, <1>5, <1>6, <1>9, <1>10, <1>12, <1>13 DEF SameNumbers
  <1>15. NamesIndexed(f')
    BY <1>0, <1>4, <1>5, <1>6, <1>10, <1>11 DEF NamesIndexed, IsListed, IsIndexed
  <1>16. \A k \in Positions(f) : f'.Sheets[k].name = f.Sheets[k].name
    BY <1>4, <1>5, <1>6
  <1> QED BY <1>0, <1>1, <1>8, <1>14, <1>15, <1>16, SameNamesKeep

-----------------------------------------------------------------------------
\* SetSheetName: the name goes from the entry and from the index at once
LEMMA SetSheetNameKeeps ==
  ASSUME WorkbookInv, NEW old \in Names, NEW new \in NewNames, SetSheetName(old, new)
  PROVE  Keeps(f, f') /\ panicked' = FALSE
  <1> DEFINE from  == Trim[old]
             to    == Trim[new]
             found == {k \in Positions(f) : f.Sheets[k].name = from}
             moved == Put(f.sheetMap, to,
                          IF from \in DOMAIN f.sheetMap THEN f.sheetMap[from] ELSE 0)
             M == Del(moved, from)
             T == [k \in Positions(f) |->
                     IF k \in found THEN [f.Sheets[k] EXCEPT !.name = to] ELSE f.Sheets[k]]
  <1>0. /\ Agrees(f) /\ IsFile(f) /\ IsListed(f) /\ IsIndexed(f) /\ IsSelected(f)
        /\ panicked = FALSE
    BY DEF WorkbookInv, Agrees
  <1>1. /\ found # {} /\ panicked' = FALSE /\ f' = [f EXCEPT !.Sheets = T, !.sheetMap = M]
    BY <1>0 DEF SetSheetName, Becomes
  <1>2. to \in Names /\ Trim[to] = to /\ to \notin TitlesOf(f)
    BY WorkbookAssumption DEF NewNames, Titles
  <1>3. PICK k \in Positions(f) : f.Sheets[k].name = from
    BY <1>1
  <1>4. \A j \in Positions(f) : f.Sheets[j].name = from <=> j = k
    BY <1>0, <1>3 DEF IsListed
  <1>5. from \in TitlesOf(f) /\ from # to /\ DOMAIN f.sheetMap = TitlesOf(f)
    BY <1>0, <1>2, <1>3 DEF TitlesOf, IsIndexed
  <1>6. DOMAIN M = (TitlesOf(f) \cup {to}) \ {from}
    BY <1>5 DEF Put, Del, Restrict
  <1>7. /\ M[to] = f.Sheets[k].id
        /\ \A t \in TitlesOf(f) \ {from} : M[t] = f.sheetMap[t]
    <2>1. f.sheetMap[from] = f.Sheets[k].id
      BY <1>0, <1>3 DEF IsIndexed
    <2> QED BY <1>2, <1>5, <2>1 DEF Put, Del, Restrict
  <1> HIDE DEF M, moved
  <1>8. \A j \in Positions(f) : /\ T[j] \in Sheets
                                /\ T[j].name = IF j = k THEN to ELSE f.Sheets[j].name
                                /\ T[j].id = f.Sheets[j].id
                                /\ T[j].rid = f.Sheets[j].rid
    <2> SUFFICES ASSUME NEW j \in Positions(f)
                 PROVE  /\ T[j] \in Sheets
                        /\ T[j].name = IF j = k THEN to ELSE f.Sheets[j].name
                        /\ T[j].id = f.Sheets[j].id
                        /\ T[j].rid = f.Sheets[j].rid
      OBVIOUS
    <2> DEFINE e == f.Sheets[j]
    <2>1. e \in Sheets
      BY <1>0, Entries
    <2>2. T[j] = IF j = k THEN [e EXCEPT !.name = to] ELSE e
      BY <1>4
    <2> HIDE DEF e, T, to
    <2> QED BY <1>2, <2>1, <2>2 DEF Sheets, e
  <1>9. T \in Seq(Sheets) /\ T # << >> /\ Len(T) = Len(f.Sheets)
    <2>1. Len(f.Sheets) \in Nat /\ Len(f.Sheets) >= 1 /\ Positions(f) = 1..Len(f.Sheets)
      BY <1>0, Entries
    <2>2. T = [j \in 1..Len(f.Sheets) |-> T[j]]
      BY <2>1
    <2> HIDE DEF T
    <2> QED BY <1>8, <2>1, <2>2
  <1> HIDE DEF T, found, to, from
  <1>10. /\ DOMAIN f' = Fields /\ f' = [field \in Fields |-> f'[field]]
         /\ f'.Sheets = T /\ f'.Sheet = f.Sheet /\ f'.SheetRels = f.SheetRels
         /\ f'.sheetMap = M /\ f'.SheetCount = f.SheetCount
         /\ f'.XLSX = f.XLSX /\ f'.XLSXRels = f.XLSXRels /\ f'.rels = f.rels
         /\ f'.ContentTypes = f.ContentTypes
         /\ f'.ActiveTab = f.ActiveTab /\ f'.CalcChain = f.CalcChain
    BY <1>0, <1>1 DEF IsFile, Fields
  <1>11. IsFile(f')
    BY <1>0, <1>9, <1>10 DEF IsFile
  <1>12. \A p : ContentOf(f', p) = ContentOf(f, p) /\ RelsOf(f', p) = RelsOf(f, p)
    BY <1>10 DEF ContentOf, RelsOf
  <1>13. Positions(f') = Positions(f)
    BY <1>9, <1>10 DEF Positions
  <1>14. TitlesOf(f') = (TitlesOf(f) \cup {to}) \ {from}
    <2>1. TitlesOf(f') = {T[j].name : j \in Positions(f)}
      BY <1>10, <1>13 DEF TitlesOf
    <2>2. \A t : t \in TitlesOf(f) <=> \E j \in Positions(f) : f.Sheets[j].name = t
      BY DEF TitlesOf
    <2> QED BY <1>3, <1>4, <1>5, <1>8, <2>1, <2>2
  <1>15. SameNumbers(f, f')
    BY <1>0, <1>8, <1>9, <1>10, <1>12, <1>13 DEF SameNumbers, IsIndexed
  <1>16. NamesIndexed(f')
    <2>1. \A j \in Positions(f) : f.Sheets[j].name \in TitlesOf(f)
      BY DEF TitlesOf
    <2>2. \A i, j \in Positions(f) : i # j => T[i].name # T[j].name
      BY <1>0, <1>2, <1>8, <2>1 DEF IsListed
    <2>3. \A j \in Positions(f) : Trim[T[j].name] = T[j].name
      BY <1>0, <1>2, <1>8 DEF IsListed
    <2>4. \A j \in Positions(f) : M[T[j].name] = T[j].id
      BY <1>0, <1>4, <1>7, <1>8, <2>1 DEF IsIndexed
    <2>5. DOMAIN M = TitlesOf(f')
      BY <1>6, <1>14
    <2> QED BY <1>10, <1>13, <2>2, <2>3, <2>4, <2>5 DEF NamesIndexed
  <1>17. /\ Agrees(f') /\ IsSelected(f')
         /\ TabsOf(f') = [j \in Positions(f) |->
                            [name |-> f'.Sheets[j].name,
                             data |-> Seen(ContentOf(f, f.Sheets[j].id))]]
    BY <1>0, <1>11, <1>15, <1>16, SameNumbersAgree
  <1>18. Abstract!Step(TabsOf(f), TabsOf(f'))
    <2> DEFINE S == [j \in Positions(f) |->
                       [name |-> f.Sheets[j].name,
                        data |-> Seen(ContentOf(f, f.Sheets[j].id))]]
    <2>1. TabsOf(f) = S
      BY <1>0, TabsRead
    <2>2. TabsOf(f') = [j \in Positions(f) |->
                          IF j = k THEN [name |-> to,
                                         data |-> Seen(ContentOf(f, f.Sheets[j].id))]
                          ELSE S[j]]
      BY <1>8, <1>10, <1>17
    <2>3. TabsOf(f') = [S EXCEPT ![k].name = to]
      BY <2>2
    <2>4. Abstract!Places(TabsOf(f)) = Positions(f)
      BY <1>0, TabsType
    <2>5. \A j \in Positions(f) : TabsOf(f)[j].name # to
      BY <1>2, <2>1 DEF TitlesOf
    <2>6. to \in CleanNames
      BY <1>2 DEF CleanNames
    <2> HIDE DEF S
    <2>7. TabsOf(f') = Abstract!SetSheetName(TabsOf(f), k, to)
      BY <2>1, <2>3 DEF Abstract!SetSheetName
    <2> QED BY <2>4, <2>5, <2>6, <2>7 DEF Abstract!Step
  <1> QED BY <1>1, <1>17, <1>18 DEF Keeps

-----------------------------------------------------------------------------
(* Sheets that come and go.                                                *)

\* a finite set of numbers that is not empty has a largest
LEMMA LargestOf ==
  ASSUME NEW S, IsFiniteSet(S), S \subseteq Nat, S # {}
  PROVE  Largest(S) \in S /\ \A x \in S : x <= Largest(S)
  <1> DEFINE HasMax(T) == \E m \in T : \A x \in T : x <= m
             Bad == {T \in SUBSET S : T # {} /\ ~HasMax(T)}
             R == StrictSubsetOrdering(S)
  <1>1. SUFFICES HasMax(S)
    <2>1. PICK m \in S : \A x \in S : x <= m
      OBVIOUS
    <2>2. Largest(S) = CHOOSE z \in S : \A x \in S : x <= z
      BY DEF Largest
    <2> QED BY <2>1, <2>2
  <1>2. SUFFICES ASSUME Bad # {} PROVE FALSE
    OBVIOUS
  <1> DEFINE F == FiniteSubsetsOf(S)
  <1>3. IsWellFoundedOn(R, F)
    BY FS_StrictSubsetOrderingWellFounded
  <1>4. Bad \subseteq F
    BY FS_FiniteSubsetsOfFinite
  <1> HIDE DEF Bad, R, F
  <1>5. PICK T \in Bad : \A U \in Bad : ~ (<<U, T>> \in R)
    BY <1>2, <1>3, <1>4, WFMin
  <1>6. T \subseteq S /\ T # {} /\ ~HasMax(T)
    BY DEF Bad
  <1>7. PICK x \in T : x \in Nat
    BY <1>6
  <1> DEFINE U == T \ {x}
  <1>8. U \subseteq S /\ U # T /\ U \subseteq T
    BY <1>6
  <1>9. <<U, T>> \in R
    BY <1>6, <1>8 DEF R, StrictSubsetOrdering
  <1>10. U \notin Bad
    BY <1>5, <1>9
  <1>11. U = {} \/ HasMax(U)
    BY <1>8, <1>10 DEF Bad
  <1>12. CASE U = {}
    <2>1. \A y \in T : y <= x
      BY <1>7, <1>12
    <2> QED BY <1>6, <1>7, <2>1
  <1>13. CASE HasMax(U)
    <2>1. PICK m \in U : \A y \in U : y <= m
      BY <1>13
    <2>2. m \in Nat /\ m \in T
      BY <1>6
    <2>3. \A y \in T : y = x \/ y \in U
      OBVIOUS
    <2>4. CASE m <= x
      BY <1>6, <1>7, <2>1, <2>2, <2>3, <2>4
    <2>5. CASE x <= m
      BY <1>6, <1>7, <2>1, <2>2, <2>3, <2>5
    <2> QED BY <1>7, <2>2, <2>4, <2>5
  <1> QED BY <1>11, <1>12, <1>13

\* what is left of a File when the sheet at position k goes
Without(b, k) ==
  [DeleteCalcChain(b, b.Sheets[k].id) EXCEPT
     !.Sheets = [j \in 1..(Len(b.Sheets) - 1) |->
                   IF j < k THEN b.Sheets[j] ELSE b.Sheets[j + 1]],
     !.rels = Del(@, b.Sheets[k].rid),
     !.ContentTypes = @ \ {PartOf(b, b.Sheets[k])},
     !.sheetMap = Del(@, b.Sheets[k].name),
     !.XLSX = Del(@, b.Sheets[k].id),
     !.XLSXRels = Del(@, b.Sheets[k].id),
     !.Sheet = Del(@, b.Sheets[k].id),
     !.SheetCount = @ - 1]

\* the loop of DeleteSheet takes the one sheet of that name
LEMMA DropWithout ==
  ASSUME NEW b, Agrees(b), NEW n \in CleanNames
  PROVE  \/ Drop(b, n) = b
         \/ \E k \in Positions(b) : Len(b.Sheets) > 1 /\ Drop(b, n) = Without(b, k)
  <1> DEFINE found == {k \in Positions(b) : b.Sheets[k].name = Trim[n]}
  <1>1. CASE found = {} \/ Len(b.Sheets) <= 1
    BY <1>1 DEF Drop
  <1>2. CASE ~(found = {} \/ Len(b.Sheets) <= 1)
    <2> DEFINE k == CHOOSE k \in found : TRUE
    <2>1. k \in found
      BY <1>2
    <2>2. Trim[n] = n /\ b.Sheets[k].name = n
      BY <2>1 DEF CleanNames
    <2> DEFINE c == DeleteCalcChain(b, b.Sheets[k].id)
    <2>3. c.Sheets = b.Sheets
      BY DEF Agrees, IsFile, Fields, DeleteCalcChain
    <2> HIDE DEF c
    <2>5. Drop(b, n) = Without(b, k)
      <3> DEFINE W(list, t) ==
                   [c EXCEPT !.Sheets = [j \in 1..(Len(list) - 1) |->
                                           IF j < k THEN list[j] ELSE list[j + 1]],
                             !.rels = Del(@, b.Sheets[k].rid),
                             !.ContentTypes = @ \ {PartOf(b, b.Sheets[k])},
                             !.sheetMap = Del(@, t),
                             !.XLSX = Del(@, b.Sheets[k].id),
                             !.XLSXRels = Del(@, b.Sheets[k].id),
                             !.Sheet = Del(@, b.Sheets[k].id),
                             !.SheetCount = @ - 1]
      <3>1. Drop(b, n) = W(c.Sheets, n)
        BY <1>2, Zenon DEF Drop, c
      <3>2. Without(b, k) = W(b.Sheets, b.Sheets[k].name)
        BY DEF Without, c
      <3> HIDE DEF W
      <3> QED
        BY <2>2, <2>3, <3>1, <3>2
    <2>4. Len(b.Sheets) > 1
      BY <1>2, Entries DEF Agrees
    <2> QED BY <2>1, <2>4, <2>5
  <1> QED BY <1>1, <1>2

\* the File without one of its sheets: its structures agree about the others
LEMMA WithoutAgrees ==
  ASSUME NEW b, Agrees(b), NEW k \in Positions(b), Len(b.Sheets) > 1
  PROVE  /\ Agrees(Without(b, k))
         /\ TabsOf(Without(b, k)) = Abstract!DeleteSheet(TabsOf(b), k)
  <1> DEFINE s == b.Sheets[k]
             n == Len(b.Sheets) - 1
             at(j) == IF j < k THEN j ELSE j + 1
             T == [j \in 1..n |-> IF j < k THEN b.Sheets[j] ELSE b.Sheets[j + 1]]
             d == Without(b, k)
  <1>0. IsFile(b) /\ IsListed(b) /\ IsIndexed(b) /\ IsLinked(b)
    BY DEF Agrees
  <1>1. /\ Len(b.Sheets) \in Nat /\ n \in Nat /\ n >= 1 /\ Positions(b) = 1..Len(b.Sheets)
        /\ k \in Nat /\ k >= 1 /\ k <= Len(b.Sheets)
    BY <1>0, Entries
  <1>2. /\ \A j \in 1..n : at(j) \in Positions(b) /\ at(j) # k
        /\ \A i, j \in 1..n : at(i) = at(j) => i = j
        /\ \A i \in Positions(b) : i # k => \E j \in 1..n : at(j) = i
    <2>1. \A j \in 1..n : at(j) \in Positions(b) /\ at(j) # k
      BY <1>1
    <2>2. \A i, j \in 1..n : at(i) = at(j) => i = j
      BY <1>1
    <2>3. ASSUME NEW i \in Positions(b), i # k
          PROVE  \E j \in 1..n : at(j) = i
      <3>1. CASE i < k
        BY <1>1, <2>3, <3>1
      <3>2. CASE i > k
        <4>1. i - 1 \in 1..n /\ at(i - 1) = i
          BY <1>1, <2>3, <3>2
        <4> QED BY <4>1
      <3> QED BY <1>1, <2>3, <3>1, <3>2
    <2> QED BY <2>1, <2>2, <2>3
  <1>3. /\ Len(T) = n /\ T \in Seq(Sheets) /\ T # << >>
        /\ \A j \in 1..n : T[j] = b.Sheets[at(j)]
    <2>1. \A j \in 1..n : T[j] = b.Sheets[at(j)]
      OBVIOUS
    <2>2. \A j \in 1..n : T[j] \in Sheets
      BY <1>0, <1>2, <2>1, Entries
    <2>3. T = [j \in 1..n |-> T[j]]
      OBVIOUS
    <2> HIDE DEF T, n
    <2> QED BY <1>1, <2>1, <2>2, <2>3
  <1>4. PartOf(b, s) = s.id /\ s.id \in IDs(b) /\ s.name \in TitlesOf(b)
    BY <1>0, Entries DEF IDs, TitlesOf
  <1> HIDE DEF T, at
  <1>5. /\ DOMAIN d = Fields /\ d = [field \in Fields |-> d[field]]
        /\ d.Sheets = T /\ d.rels = Del(b.rels, s.rid)
        /\ d.ContentTypes = b.ContentTypes \ {PartOf(b, s)}
        /\ d.sheetMap = Del(b.sheetMap, s.name)
        /\ d.XLSX = Del(b.XLSX, s.id) /\ d.XLSXRels = Del(b.XLSXRels, s.id)
        /\ d.Sheet = Del(b.Sheet, s.id) /\ d.SheetCount = b.SheetCount - 1
        /\ d.SheetRels = b.SheetRels /\ d.ActiveTab = b.ActiveTab
        /\ d.CalcChain = b.CalcChain \ {s.id}
    <2> DEFINE c == DeleteCalcChain(b, s.id)
    <2>1. /\ DOMAIN c = Fields /\ c = [field \in Fields |-> c[field]]
          /\ c.Sheets = b.Sheets /\ c.rels = b.rels /\ c.ContentTypes = b.ContentTypes
          /\ c.sheetMap = b.sheetMap /\ c.XLSX = b.XLSX /\ c.XLSXRels = b.XLSXRels
          /\ c.Sheet = b.Sheet /\ c.SheetCount = b.SheetCount
          /\ c.SheetRels = b.SheetRels /\ c.ActiveTab = b.ActiveTab
          /\ c.CalcChain = b.CalcChain \ {s.id}
      BY <1>0 DEF IsFile, Fields, DeleteCalcChain
    <2>2. d = [c EXCEPT !.Sheets = T,
                        !.rels = Del(b.rels, s.rid),
                        !.ContentTypes = b.ContentTypes \ {PartOf(b, s)},
                        !.sheetMap = Del(b.sheetMap, s.name),
                        !.XLSX = Del(b.XLSX, s.id),
                        !.XLSXRels = Del(b.XLSXRels, s.id),
                        !.Sheet = Del(b.Sheet, s.id),
                        !.SheetCount = b.SheetCount - 1]
      BY <2>1 DEF Without, T, Fields
    <2> HIDE DEF c, d
    <2> QED BY <2>1, <2>2 DEF Fields
  <1> HIDE DEF d, n
  <1>6. Positions(d) = 1..n /\ \A j \in 1..n : d.Sheets[j] = b.Sheets[at(j)]
    BY <1>3, <1>5 DEF Positions
  <1>7. IDs(d) = IDs(b) \ {s.id} /\ TitlesOf(d) = TitlesOf(b) \ {s.name}
    <2>1. /\ \A p : p \in IDs(b) <=> \E i \in Positions(b) : b.Sheets[i].id = p
          /\ \A t : t \in TitlesOf(b) <=> \E i \in Positions(b) : b.Sheets[i].name = t
      BY DEF IDs, TitlesOf
    <2>2. /\ \A p : p \in IDs(d) <=> \E j \in 1..n : b.Sheets[at(j)].id = p
          /\ \A t : t \in TitlesOf(d) <=> \E j \in 1..n : b.Sheets[at(j)].name = t
      BY <1>6 DEF IDs, TitlesOf
    <2>3. \A i \in Positions(b) : i # k => b.Sheets[i].id # s.id /\ b.Sheets[i].name # s.name
      BY <1>0 DEF IsListed
    <2>4. IDs(d) = IDs(b) \ {s.id}
      BY <1>2, <2>1, <2>2, <2>3
    <2>5. TitlesOf(d) = TitlesOf(b) \ {s.name}
      BY <1>2, <2>1, <2>2, <2>3
    <2> QED BY <2>4, <2>5
  <1>8. /\ DOMAIN d.rels = DOMAIN b.rels \ {s.rid}
        /\ \A r \in DOMAIN d.rels : d.rels[r] = b.rels[r]
        /\ DOMAIN d.sheetMap = TitlesOf(d)
        /\ \A t \in TitlesOf(d) : d.sheetMap[t] = b.sheetMap[t]
    BY <1>0, <1>5, <1>7, ZenonT(40) DEF Del, Restrict, IsIndexed
  <1>9. /\ DOMAIN d.XLSX = DOMAIN b.XLSX \ {s.id}
        /\ \A p \in DOMAIN d.XLSX : d.XLSX[p] = b.XLSX[p]
        /\ DOMAIN d.Sheet = DOMAIN b.Sheet \ {s.id}
        /\ \A p \in DOMAIN d.Sheet : d.Sheet[p] = b.Sheet[p]
        /\ DOMAIN d.XLSXRels = DOMAIN b.XLSXRels \ {s.id}
        /\ \A p \in DOMAIN d.XLSXRels : d.XLSXRels[p] = b.XLSXRels[p]
    BY <1>5 DEF Del, Restrict
  <1>10. IsFile(d)
    <2>1. IsPartial(d.rels, Nat \ {0}, Nat)
      <3>1. /\ DOMAIN b.rels \subseteq Nat \ {0}
            /\ \A r \in DOMAIN b.rels : b.rels[r] \in Nat
        BY <1>0 DEF IsFile, IsPartial, Range
      <3> QED BY <1>8, <3>1 DEF IsPartial, Range
    <2>2. IsFiniteSet(DOMAIN d.rels)
      <3>1. IsFiniteSet(DOMAIN b.rels)
        BY <1>0 DEF IsFile
      <3> QED BY <1>8, <3>1, FS_RemoveElement, ZenonT(40)
    <2>3. Range(d.Sheet) \subseteq Content /\ Range(d.XLSX) \subseteq Content
      <3>1. /\ \A p \in DOMAIN b.Sheet : b.Sheet[p] \in Content
            /\ \A p \in DOMAIN b.XLSX : b.XLSX[p] \in Content
        BY <1>0 DEF IsFile, Range
      <3> QED BY <1>9, <3>1 DEF Range
    <2>4. IsPartial(d.XLSXRels, Parts, Nat)
      <3>1. /\ DOMAIN b.XLSXRels \subseteq Parts
            /\ \A p \in DOMAIN b.XLSXRels : b.XLSXRels[p] \in Nat
        BY <1>0 DEF IsFile, IsPartial, Range
      <3> QED BY <1>9, <3>1 DEF IsPartial, Range
    <2> QED BY <1>0, <1>3, <1>5, <2>1, <2>2, <2>3, <2>4 DEF IsFile
  <1>11. IsListed(d)
    <2>1. \A j \in 1..n : /\ d.Sheets[j] = b.Sheets[at(j)] /\ at(j) \in Positions(b)
                          /\ b.Sheets[at(j)].id # s.id
                          /\ Trim[b.Sheets[at(j)].name] = b.Sheets[at(j)].name
      BY <1>0, <1>2, <1>3, <1>5 DEF IsListed
    <2>2. \A i, j \in 1..n : i # j => /\ d.Sheets[i].name # d.Sheets[j].name
                                      /\ d.Sheets[i].id # d.Sheets[j].id
      <3>1. \A i, j \in Positions(b) : i # j => /\ b.Sheets[i].name # b.Sheets[j].name
                                                /\ b.Sheets[i].id # b.Sheets[j].id
        BY <1>0 DEF IsListed
      <3> QED BY <1>2, <2>1, <3>1
    <2>3. \A i \in Positions(b) : /\ b.Sheets[i].rid \in DOMAIN b.rels
                                  /\ b.rels[b.Sheets[i].rid] = b.Sheets[i].id
      BY <1>0, Entries
    <2>4. \A j \in 1..n : PartOf(d, d.Sheets[j]) = d.Sheets[j].id
      BY <1>8, <2>1, <2>3 DEF PartOf
    <2> QED BY <1>6, <2>1, <2>2, <2>4 DEF IsListed
  <1>12. IsIndexed(d)
    <2>1. \A j \in 1..n : d.sheetMap[d.Sheets[j].name] = d.Sheets[j].id
      <3> SUFFICES ASSUME NEW j \in 1..n
                   PROVE  d.sheetMap[d.Sheets[j].name] = d.Sheets[j].id
        OBVIOUS
      <3>1. d.Sheets[j] = b.Sheets[at(j)] /\ at(j) \in Positions(b)
        BY <1>2, <1>3, <1>5
      <3>2. d.Sheets[j].name \in TitlesOf(d)
        BY <1>6 DEF TitlesOf
      <3> QED BY <1>0, <1>8, <3>1, <3>2 DEF IsIndexed
    <2>2. d.ContentTypes = IDs(d)
      BY <1>0, <1>4, <1>5, <1>7 DEF IsIndexed
    <2>3. DOMAIN d.Sheet \cup DOMAIN d.XLSX = IDs(d)
      BY <1>0, <1>7, <1>9 DEF IsIndexed
    <2>4. d.SheetCount = Len(d.Sheets)
      BY <1>0, <1>3, <1>5 DEF IsIndexed, n
    <2> QED BY <1>6, <1>8, <2>1, <2>2, <2>3, <2>4 DEF IsIndexed
  <1>13. \A p \in IDs(d) : ContentOf(d, p) = ContentOf(b, p) /\ RelsOf(d, p) = RelsOf(b, p)
    BY <1>5, <1>7, <1>9 DEF ContentOf, RelsOf
  <1>14. IsLinked(d)
    BY <1>0, <1>5, <1>7, <1>13 DEF IsLinked
  <1>15. Agrees(d)
    BY <1>10, <1>11, <1>12, <1>14 DEF Agrees
  <1>16. TabsOf(d) = Abstract!DeleteSheet(TabsOf(b), k)
    <2> DEFINE S == [i \in Positions(b) |->
                       [name |-> b.Sheets[i].name,
                        data |-> Seen(ContentOf(b, b.Sheets[i].id))]]
    <2>1. TabsOf(b) = S /\ Len(S) = Len(b.Sheets)
      BY TabsRead, TabsType
    <2>2. TabsOf(d) = [j \in 1..n |->
                         [name |-> d.Sheets[j].name,
                          data |-> Seen(ContentOf(d, d.Sheets[j].id))]]
      BY <1>6, <1>15, TabsRead
    <2>3. \A j \in 1..n : d.Sheets[j].id \in IDs(d)
      BY <1>6 DEF IDs
    <2>4. TabsOf(d) = [j \in 1..n |-> S[at(j)]]
      BY <1>2, <1>6, <1>13, <2>2, <2>3
    <2> HIDE DEF S
    <2>5. TabsOf(d) = [j \in 1..n |-> IF j < k THEN S[j] ELSE S[j + 1]]
      BY <2>4 DEF at
    <2> QED BY <2>1, <2>5 DEF Abstract!DeleteSheet, n
  <1> QED BY <1>15, <1>16 DEF d

\* NewSheet adds a sheet under numbers that nothing has: its structures agree
\* about the new sheet too, and the active tab stays where it is
LEMMA AddAgrees ==
  ASSUME NEW b, Agrees(b), IsSelected(b), NEW n \in Names, Trim[n] \notin TitlesOf(b),
         NextID(b) <= MaxID
  PROVE  /\ Agrees(Add(b, n)) /\ IsSelected(Add(b, n))
         /\ Abstract!Step(TabsOf(b), TabsOf(Add(b, n)))
  <1> DEFINE id  == NextID(b)
             rid == Largest(DOMAIN b.rels) + 1
             t   == Trim[n]
             e   == [name |-> t, id |-> id, rid |-> rid, hidden |-> FALSE]
             m   == Len(b.Sheets)
             d   == Add(b, n)
  <1>0. IsFile(b) /\ IsListed(b) /\ IsIndexed(b) /\ IsLinked(b)
    BY DEF Agrees
  <1>1. m \in Nat /\ m >= 1 /\ Positions(b) = 1..m /\ b.Sheets \in Seq(Sheets)
    BY <1>0, Entries DEF IsFile
  <1>2. id \in Parts /\ id \notin IDs(b)
    <2>1. IDs(b) \subseteq Parts /\ IDs(b) # {}
      BY <1>0, <1>1, Entries, SMTT(30) DEF IDs
    <2>2. IDs(b) \subseteq Nat /\ IsFiniteSet(IDs(b))
      <3>1. IsFiniteSet(Parts) /\ Parts \subseteq Nat
        BY WorkbookAssumption, FS_Interval DEF Parts
      <3>2. IDs(b) \in SUBSET Parts
        BY <2>1
      <3> QED BY <3>1, <3>2, FS_Subset
    <2>3. Largest(IDs(b)) \in IDs(b) /\ \A x \in IDs(b) : x <= Largest(IDs(b))
      BY <2>1, <2>2, LargestOf
    <2>4. id = Largest(IDs(b)) + 1
      BY DEF NextID, IDs
    <2>5. Largest(IDs(b)) \in Nat
      BY <2>2, <2>3
    <2>6. id \in Nat /\ id >= 1 /\ id <= MaxID
      BY <2>4, <2>5
    <2> HIDE DEF id
    <2> QED BY <2>2, <2>3, <2>4, <2>5, <2>6, WorkbookAssumption DEF Parts
  <1>3. rid \in Nat \ {0} /\ rid \notin DOMAIN b.rels
    <2> DEFINE D == DOMAIN b.rels
    <2>1. D \subseteq Nat /\ IsFiniteSet(D)
      BY <1>0 DEF IsFile, IsPartial
    <2>2. D # {}
      BY <1>0, <1>1, Entries
    <2> HIDE DEF D
    <2>3. Largest(D) \in D /\ \A x \in D : x <= Largest(D)
      BY <2>1, <2>2, LargestOf
    <2>4. Largest(D) \in Nat
      BY <2>1, <2>3
    <2>5. Largest(D) + 1 \notin D
      BY <2>3, <2>4
    <2> QED BY <2>4, <2>5 DEF D
  <1>4. t \in Names /\ Trim[t] = t
    BY WorkbookAssumption
  <1> HIDE DEF id, rid, t
  <1>5. e \in Sheets /\ e.name = t /\ e.id = id /\ e.rid = rid
    BY <1>2, <1>3, <1>4 DEF Sheets
  <1>6. /\ DOMAIN d = Fields /\ d = [field \in Fields |-> d[field]]
        /\ d.SheetCount = b.SheetCount + 1 /\ d.ContentTypes = b.ContentTypes \cup {id}
        /\ d.sheetMap = Put(b.sheetMap, t, id) /\ d.Sheet = Put(b.Sheet, id, NewContent)
        /\ d.rels = Put(b.rels, rid, id) /\ d.Sheets = Append(b.Sheets, e)
        /\ d.XLSX = b.XLSX /\ d.XLSXRels = b.XLSXRels /\ d.SheetRels = b.SheetRels
        /\ d.ActiveTab = b.ActiveTab /\ d.CalcChain = b.CalcChain
    BY <1>0 DEF IsFile, Fields, Add, id, rid, t
  <1> HIDE DEF d, e, m
  <1>7. /\ d.Sheets \in Seq(Sheets) /\ Len(d.Sheets) = m + 1 /\ d.Sheets # << >>
        /\ d.Sheets[m + 1] = e /\ \A k \in 1..m : d.Sheets[k] = b.Sheets[k]
    <2>1. /\ Append(b.Sheets, e) \in Seq(Sheets) /\ Append(b.Sheets, e) # << >>
          /\ Len(Append(b.Sheets, e)) = Len(b.Sheets) + 1
          /\ \A k \in 1..Len(b.Sheets) : Append(b.Sheets, e)[k] = b.Sheets[k]
          /\ Append(b.Sheets, e)[Len(b.Sheets) + 1] = e
      BY <1>1, <1>5, AppendProperties
    <2> QED BY <1>6, <2>1 DEF m
  <1>8. Positions(d) = 1..(m + 1) /\ 1..(m + 1) = 1..m \cup {m + 1}
    BY <1>1, <1>7 DEF Positions
  <1>9. IDs(d) = IDs(b) \cup {id} /\ TitlesOf(d) = TitlesOf(b) \cup {t}
    BY <1>1, <1>5, <1>7, <1>8, SMTT(30) DEF IDs, TitlesOf
  <1>10. /\ DOMAIN d.rels = DOMAIN b.rels \cup {rid} /\ d.rels[rid] = id
         /\ \A r \in DOMAIN b.rels : d.rels[r] = b.rels[r]
    BY <1>3, <1>6 DEF Put
  <1>11. /\ DOMAIN d.sheetMap = TitlesOf(d) /\ d.sheetMap[t] = id
         /\ \A x \in TitlesOf(b) : d.sheetMap[x] = b.sheetMap[x]
    BY <1>0, <1>6, <1>9 DEF Put, IsIndexed, t
  <1>12. /\ DOMAIN d.Sheet = DOMAIN b.Sheet \cup {id} /\ d.Sheet[id] = NewContent
         /\ \A p \in DOMAIN b.Sheet : p # id => d.Sheet[p] = b.Sheet[p]
    BY <1>6 DEF Put
  <1>13. IsFile(d)
    <2>1. IsPartial(d.rels, Nat \ {0}, Nat)
      <3>1. /\ DOMAIN b.rels \subseteq Nat \ {0}
            /\ \A r \in DOMAIN b.rels : b.rels[r] \in Nat
        BY <1>0 DEF IsFile, IsPartial, Range
      <3>2. id \in Nat
        BY <1>2, WorkbookAssumption DEF Parts
      <3> QED BY <1>3, <1>10, <3>1, <3>2 DEF IsPartial, Range
    <2>2. IsFiniteSet(DOMAIN d.rels)
      <3>1. IsFiniteSet(DOMAIN b.rels)
        BY <1>0 DEF IsFile
      <3> QED BY <1>10, <3>1, FS_AddElement
    <2>3. Range(d.Sheet) \subseteq Content
      <3>1. \A p \in DOMAIN b.Sheet : b.Sheet[p] \in Content
        BY <1>0 DEF IsFile, Range
      <3>2. NewContent \in Content
        BY <1>0, ContentType
      <3> QED BY <1>12, <3>1, <3>2 DEF Range
    <2> QED BY <1>0, <1>6, <1>7, <2>1, <2>2, <2>3 DEF IsFile
  <1>14. /\ ContentOf(d, id) = NewContent
         /\ \A p \in IDs(b) : ContentOf(d, p) = ContentOf(b, p)
         /\ \A p : RelsOf(d, p) = RelsOf(b, p)
    BY <1>2, <1>6, <1>12 DEF ContentOf, RelsOf
  <1>15. \A k \in 1..m : /\ b.Sheets[k].name \in TitlesOf(b) /\ b.Sheets[k].id \in IDs(b)
                         /\ b.Sheets[k].rid \in DOMAIN b.rels
                         /\ b.rels[b.Sheets[k].rid] = b.Sheets[k].id
                         /\ b.Sheets[k].name # t /\ b.Sheets[k].id # id
    BY <1>0, <1>1, <1>2, Entries DEF TitlesOf, IDs, t
  <1>16. IsListed(d)
    <2>1. \A i, j \in 1..m : i # j => /\ b.Sheets[i].name # b.Sheets[j].name
                                      /\ b.Sheets[i].id # b.Sheets[j].id
      BY <1>0, <1>1 DEF IsListed
    <2>2. \A i, j \in Positions(d) : i # j => /\ d.Sheets[i].name # d.Sheets[j].name
                                              /\ d.Sheets[i].id # d.Sheets[j].id
      BY <1>5, <1>7, <1>8, <1>15, <2>1
    <2>3. \A k \in 1..m : Trim[b.Sheets[k].name] = b.Sheets[k].name
      BY <1>0, <1>1 DEF IsListed
    <2>4. \A k \in Positions(d) : Trim[d.Sheets[k].name] = d.Sheets[k].name
      BY <1>4, <1>5, <1>7, <1>8, <2>3
    <2>5. \A k \in Positions(d) : PartOf(d, d.Sheets[k]) = d.Sheets[k].id
      BY <1>5, <1>7, <1>8, <1>10, <1>15 DEF PartOf
    <2> QED BY <2>2, <2>4, <2>5 DEF IsListed
  <1>17. IsIndexed(d)
    <2>1. \A k \in 1..m : b.sheetMap[b.Sheets[k].name] = b.Sheets[k].id
      BY <1>0, <1>1 DEF IsIndexed
    <2>2. \A k \in Positions(d) : d.sheetMap[d.Sheets[k].name] = d.Sheets[k].id
      BY <1>5, <1>7, <1>8, <1>11, <1>15, <2>1
    <2>3. d.ContentTypes = IDs(d)
      BY <1>0, <1>6, <1>9 DEF IsIndexed
    <2>4. DOMAIN d.Sheet \cup DOMAIN d.XLSX = IDs(d)
      BY <1>0, <1>6, <1>9, <1>12 DEF IsIndexed
    <2>5. d.SheetCount = Len(d.Sheets)
      BY <1>0, <1>6, <1>7 DEF IsIndexed, m
    <2> QED BY <1>11, <2>2, <2>3, <2>4, <2>5 DEF IsIndexed
  <1>18. IsLinked(d)
    <2>1. NewContent.links <= RelsOf(d, id)
      BY <1>13, ContentType DEF NewContent
    <2>2. \A p \in IDs(d) : ContentOf(d, p).links <= RelsOf(d, p)
      BY <1>0, <1>9, <1>14, <2>1 DEF IsLinked
    <2>3. \A p \in d.CalcChain : p \in IDs(d) /\ ContentOf(d, p).formula
      BY <1>0, <1>6, <1>9, <1>14 DEF IsLinked
    <2> QED BY <2>2, <2>3 DEF IsLinked
  <1>19. Agrees(d)
    BY <1>13, <1>16, <1>17, <1>18 DEF Agrees
  <1>20. IsSelected(d)
    <2>1. \A k \in 1..m : ContentOf(b, b.Sheets[k].id).sel => b.ActiveTab = k - 1
      BY <1>1 DEF IsSelected
    <2>2. ~NewContent.sel
      BY DEF NewContent
    <2>3. \A k \in 1..m : ContentOf(d, d.Sheets[k].id).sel => d.ActiveTab = k - 1
      <3>1. \A k \in 1..m : ContentOf(d, d.Sheets[k].id) = ContentOf(b, b.Sheets[k].id)
        BY <1>7, <1>14, <1>15
      <3>2. d.ActiveTab = b.ActiveTab
        BY <1>6
      <3> QED BY <2>1, <3>1, <3>2
    <2>4. ~ContentOf(d, d.Sheets[m + 1].id).sel
      <3>1. d.Sheets[m + 1].id = id
        BY <1>5, <1>7
      <3>2. ContentOf(d, d.Sheets[m + 1].id) = NewContent
        BY <1>14, <3>1
      <3> QED BY <2>2, <3>2
    <2> QED BY <1>8, <2>3, <2>4 DEF IsSelected
  <1>21. Abstract!Step(TabsOf(b), TabsOf(d))
    <2> DEFINE S == [k \in 1..m |->
                       [name |-> b.Sheets[k].name,
                        data |-> Seen(ContentOf(b, b.Sheets[k].id))]]
               new == [name |-> t, data |-> Seen(NewContent)]
    <2>1. TabsOf(b) = S
      BY <1>1, TabsRead
    <2>2. TabsOf(d) = [k \in 1..(m + 1) |->
                         [name |-> d.Sheets[k].name,
                          data |-> Seen(ContentOf(d, d.Sheets[k].id))]]
      BY <1>8, <1>19, TabsRead
    <2>3. \A k \in 1..m : TabsOf(d)[k] = S[k]
      BY <1>1, <1>7, <1>14, <1>15, <2>2
    <2>4. TabsOf(d)[m + 1] = new
      BY <1>1, <1>5, <1>7, <1>14, <2>2
    <2>5. S \in Seq(Abstract!Tab) /\ Len(S) = m /\ Abstract!Places(S) = 1..m
      BY <1>1, <2>1, TabsType DEF m
    <2>6. \A k \in 1..m : S[k].name # t
      BY <1>15
    <2>7. DOMAIN TabsOf(d) = 1..(m + 1) /\ TabsOf(d) = [k \in 1..(m + 1) |-> TabsOf(d)[k]]
      BY <2>2
    <2> HIDE DEF S, new
    <2>8. TabsOf(d) = Append(S, new)
      <3>1. TabsOf(d) \in Seq(Abstract!Tab) /\ Len(TabsOf(d)) = m + 1
        BY <1>7, <1>19, TabsType
      <3>2. new \in Abstract!Tab
        BY <1>1, <2>4, <3>1
      <3>3. /\ Append(S, new) \in Seq(Abstract!Tab) /\ Len(Append(S, new)) = m + 1
            /\ Append(S, new)[m + 1] = new
            /\ \A k \in 1..m : Append(S, new)[k] = S[k]
        BY <2>5, <3>2, AppendProperties
      <3>4. \A k \in 1..(m + 1) : TabsOf(d)[k] = Append(S, new)[k]
        BY <1>8, <2>3, <2>4, <3>3
      <3> QED BY <1>1, <3>1, <3>3, <3>4, SeqEqual
    <2>9. t \in CleanNames
      BY <1>4 DEF CleanNames
    <2>10. TabsOf(d) = Abstract!NewSheet(S, t)
      BY <2>8 DEF Abstract!NewSheet, new
    <2> QED BY <2>1, <2>5, <2>6, <2>9, <2>10 DEF Abstract!Step
  <1> QED BY <1>19, <1>20, <1>21 DEF d

-----------------------------------------------------------------------------
(* The calls that activate a sheet.                                        *)

\* activating a sheet changes nothing the client sees
LEMMA ActivateTabs ==
  ASSUME NEW b, Agrees(b), NEW i
  PROVE  TabsOf(Activate(b, i)) = TabsOf(b)
  <1> DEFINE d == Activate(b, i)
  <1>1. /\ Agrees(d) /\ SameSheets(b, d)
        /\ \A p \in IDs(b) : /\ ContentOf(d, p).data = ContentOf(b, p).data
                             /\ ContentOf(d, p).formula = ContentOf(b, p).formula
    BY ActivateKeepsAgreeing
  <1> HIDE DEF d
  <1>2. Positions(d) = Positions(b) /\ d.Sheets = b.Sheets
    BY <1>1 DEF SameSheets, Positions
  <1>3. \A k \in Positions(b) : b.Sheets[k].id \in IDs(b)
    BY DEF IDs
  <1>4. \A k \in Positions(b) : Seen(ContentOf(d, b.Sheets[k].id)) =
                                  Seen(ContentOf(b, b.Sheets[k].id))
    BY <1>1, <1>3 DEF Seen
  <1>5. TabsOf(d) = [k \in Positions(b) |->
                       [name |-> b.Sheets[k].name,
                        data |-> Seen(ContentOf(d, b.Sheets[k].id))]]
    BY <1>1, <1>2, TabsRead
  <1>6. TabsOf(d) = TabsOf(b)
    BY <1>4, <1>5, TabsRead
  <1> QED BY <1>6 DEF d

\* SetActiveSheet
LEMMA SetActiveSheetKeeps ==
  ASSUME WorkbookInv, NEW index, SetActiveSheet(index)
  PROVE  Keeps(f, f') /\ panicked' = FALSE
  <1>1. Agrees(f) /\ ~ActivatePanics(f) /\ panicked = FALSE
    BY ActivateReads DEF WorkbookInv, Agrees
  <1>2. f' = Activate(f, IF index < 1 THEN 1 ELSE index) /\ panicked' = FALSE
    BY <1>1 DEF SetActiveSheet, Activating, Becomes
  <1> QED BY <1>1, <1>2, ActivateKeepsAgreeing, ActivateTabs DEF Keeps

\* DeleteSheet: the sheet goes from every structure, then another is activated
LEMMA DeleteSheetKeeps ==
  ASSUME WorkbookInv, NEW n \in CleanNames, DeleteSheet(n)
  PROVE  Keeps(f, f') /\ panicked' = FALSE
  <1> DEFINE b == Drop(f, n)
             index == Cardinality(DOMAIN GetSheetMap(b))
             i == IF index < 1 THEN 1 ELSE index
  <1>0. Agrees(f) /\ panicked = FALSE
    BY DEF WorkbookInv
  <1>1. Agrees(b) /\ (TabsOf(b) = TabsOf(f) \/ Abstract!Step(TabsOf(f), TabsOf(b)))
    <2>1. CASE b = f
      BY <1>0, <2>1
    <2>2. CASE b # f
      <3>1. PICK k \in Positions(f) : Len(f.Sheets) > 1 /\ b = Without(f, k)
        BY <1>0, <2>2, DropWithout
      <3>2. Agrees(b) /\ TabsOf(b) = Abstract!DeleteSheet(TabsOf(f), k)
        BY <1>0, <3>1, WithoutAgrees
      <3>3. k \in Abstract!Places(TabsOf(f)) /\ Len(TabsOf(f)) > 1
        BY <1>0, <3>1, TabsType
      <3> QED BY <3>2, <3>3 DEF Abstract!Step
    <2> QED BY <2>1, <2>2
  <1>2. ~ActivatePanics(b)
    BY <1>1, ActivateReads DEF Agrees
  <1>3. f' = Activate(b, i) /\ panicked' = FALSE
    BY <1>0, <1>2 DEF DeleteSheet, Activating, Becomes
  <1> HIDE DEF b, i
  <1>4. Agrees(f') /\ IsSelected(f') /\ TabsOf(f') = TabsOf(b)
    BY <1>1, <1>3, ActivateKeepsAgreeing, ActivateTabs
  <1> QED BY <1>1, <1>3, <1>4 DEF Keeps

\* NewSheet, for a name that no sheet has: DeleteSheet finds none to delete
LEMMA NewSheetKeeps ==
  ASSUME WorkbookInv, NEW n \in NewNames \cup CleanNames, NewSheet(n)
  PROVE  Keeps(f, f') /\ panicked' = FALSE
  <1> DEFINE index == Cardinality(DOMAIN GetSheetMap(f))
             i == IF index < 1 THEN 1 ELSE index
             a == Activate(f, i)
  <1>0. Agrees(f) /\ IsFile(f) /\ IsListed(f) /\ panicked = FALSE
    BY DEF WorkbookInv, Agrees
  <1>1. n \in Names /\ Trim[n] \notin TitlesOf(f)
    <2>1. CASE n \in NewNames
      BY <2>1 DEF NewNames, Titles
    <2>2. CASE n \in CleanNames
      <3> DEFINE found == {k \in Positions(f) : /\ f.Sheets[k].name = n
                                                /\ f.Sheets[k].rid \in DOMAIN f.rels}
      <3>1. n \in Names /\ Trim[n] = n
        BY <2>2 DEF CleanNames
      <3>2. GetSheetIndex(f, n) = 0
        BY DEF NewSheet
      <3>3. SUFFICES ASSUME found # {} PROVE FALSE
        BY <1>0, <3>1, Entries DEF TitlesOf
      <3>4. PICK k \in found : TRUE
        BY <3>3
      <3>5. \A j \in found : j = k
        BY <1>0 DEF IsListed
      <3>6. k \in found /\ k <= k
        BY <1>0, <3>4, Entries
      <3> HIDE DEF found
      <3>7. (CHOOSE x \in found : \A j \in found : x <= j) = k
        BY <3>5, <3>6
      <3>8. GetSheetIndex(f, n) = PartOf(f, f.Sheets[k])
        BY <3>3, <3>7 DEF GetSheetIndex, found
      <3>9. PartOf(f, f.Sheets[k]) \in IDs(f) /\ 0 \notin IDs(f)
        BY <1>0, Entries DEF IDs, found
      <3> QED BY <3>2, <3>8, <3>9
    <2> QED BY <2>1, <2>2
  <1>2. Drop(f, n) = f
    <2>1. {k \in Positions(f) : f.Sheets[k].name = Trim[n]} = {}
      BY <1>1 DEF TitlesOf
    <2> QED BY <2>1 DEF Drop
  <1>3. ~ActivatePanics(f)
    BY <1>0, ActivateReads DEF Agrees
  <1>4. NextID(f) <= MaxID /\ f' = Add(a, n) /\ panicked' = FALSE
    BY <1>0, <1>2, <1>3 DEF NewSheet, Activating, Becomes
  <1> HIDE DEF i
  <1>5. Agrees(a) /\ IsSelected(a) /\ SameSheets(f, a) /\ TabsOf(a) = TabsOf(f)
    BY <1>0, ActivateKeepsAgreeing, ActivateTabs
  <1> HIDE DEF a
  <1>6. NextID(a) = NextID(f) /\ TitlesOf(a) = TitlesOf(f)
    BY <1>5 DEF SameSheets, NextID, TitlesOf, Positions
  <1>7. /\ Agrees(f') /\ IsSelected(f')
        /\ Abstract!Step(TabsOf(a), TabsOf(f'))
    BY <1>1, <1>4, <1>5, <1>6, AddAgrees
  <1> QED BY <1>4, <1>5, <1>7 DEF Keeps

-----------------------------------------------------------------------------
(* The theorems.                                                           *)

\* every call keeps the invariant and is a step of the abstract workbook
LEMMA NextKeeps ==
  ASSUME WorkbookInv, [Next]_vars
  PROVE  /\ WorkbookInv'
         /\ TabsOf(f') = TabsOf(f) \/ Abstract!Step(TabsOf(f), TabsOf(f'))
  <1>1. CASE UNCHANGED vars
    BY <1>1 DEF vars, WorkbookInv
  <1>2. CASE Next
    <2>1. SUFFICES Keeps(f, f') /\ panicked' = FALSE
      BY DEF Keeps, WorkbookInv
    <2>2. ASSUME NEW n \in CleanNames, DeleteSheet(n)
          PROVE  Keeps(f, f') /\ panicked' = FALSE
      BY <2>2, DeleteSheetKeeps
    <2>3. ASSUME NEW n \in CleanNames, NEW v \in FormulaOps, SetCellFormula(n, v)
          PROVE  Keeps(f, f') /\ panicked' = FALSE
      BY <2>3, SetCellFormulaKeeps, WorkbookAssumption
    <2>4. ASSUME NEW n \in NewNames \cup CleanNames, NewSheet(n)
          PROVE  Keeps(f, f') /\ panicked' = FALSE
      BY <2>4, NewSheetKeeps
    <2>5. CASE Exact
      BY <2>2, <2>3, <2>4, <2>5 DEF Exact
    <2>6. ASSUME NEW n \in Names, Read(n)
          PROVE  Keeps(f, f') /\ panicked' = FALSE
      BY <2>6, ReadKeeps
    <2>7. ASSUME NEW n \in Names, AddLink(n)
          PROVE  Keeps(f, f') /\ panicked' = FALSE
      BY <2>7, AddLinkKeeps
    <2>8. ASSUME NEW n \in Names, NEW d \in Data, Write(n, d)
          PROVE  Keeps(f, f') /\ panicked' = FALSE
      BY <2>8, WriteKeeps
    <2>9. ASSUME NEW n \in Names, NEW v \in BOOLEAN, SetSheetVisible(n, v)
          PROVE  Keeps(f, f') /\ panicked' = FALSE
      BY <2>9, SetSheetVisibleKeeps
    <2>10. ASSUME NEW old \in Names, NEW new \in NewNames, SetSheetName(old, new)
           PROVE  Keeps(f, f') /\ panicked' = FALSE
      BY <2>10, SetSheetNameKeeps
    <2>11. ASSUME NEW index \in 0..MaxID, SetActiveSheet(index)
           PROVE  Keeps(f, f') /\ panicked' = FALSE
      BY <2>11, SetActiveSheetKeeps
    <2>12. CASE Save
      BY <2>12, SaveKeeps
    <2>13. CASE Reopen
      BY <2>13, ReopenKeeps
    <2>14. CASE Lenient
      BY <2>6, <2>7, <2>8, <2>9, <2>10, <2>11, <2>12, <2>13, <2>14 DEF Lenient
    <2>15. CASE Careful
      BY <2>15, CopySheetKeeps DEF Careful
    <2> QED BY <1>2, <2>5, <2>14, <2>15 DEF Next
  <1> QED BY <1>1, <1>2

\* The structures of the File agree in every session that starts from a File
\* whose structures do: the invariant from which the others follow.
THEOREM WorkbookInvHolds == Spec => []WorkbookInv
  <1>1. Init => WorkbookInv
    BY NewBooksAssumption DEF Init, WorkbookInv
  <1>2. WorkbookInv /\ [Next]_vars => WorkbookInv'
    BY NextKeeps
  <1> QED BY <1>1, <1>2, PTL DEF Spec

\* what the invariant says of the state, property by property
LEMMA InvImplies ==
  ASSUME WorkbookInv
  PROVE  TypeOK /\ Catalogue /\ ActiveAgrees /\ LinksResolve /\ ChainResolves
  <1>0. /\ Agrees(f) /\ IsFile(f) /\ IsListed(f) /\ IsIndexed(f) /\ IsLinked(f)
        /\ IsSelected(f) /\ panicked = FALSE
    BY DEF WorkbookInv, Agrees
  <1>1. /\ Len(f.Sheets) \in Nat /\ IDs(f) \subseteq Parts /\ 0 \notin IDs(f)
        /\ \A k \in Positions(f) : PartOf(f, f.Sheets[k]) = f.Sheets[k].id
        /\ \A k \in Positions(f) : f.Sheets[k].name \in Names
    BY <1>0, Entries
  <1>2. UsedParts = IDs(f)
    BY <1>1 DEF UsedParts, IDs
  <1>3. TypeOK
    <2>1. IsPartial(f.sheetMap, Names, Parts \cup {0})
      <3>1. DOMAIN f.sheetMap = TitlesOf(f) /\ TitlesOf(f) \subseteq Names
        BY <1>0, <1>1 DEF IsIndexed, TitlesOf
      <3>2. \A t \in TitlesOf(f) : f.sheetMap[t] \in IDs(f)
        BY <1>0 DEF IsIndexed, TitlesOf, IDs
      <3> QED BY <1>1, <3>1, <3>2 DEF IsPartial, Range
    <2>2. DOMAIN f.Sheet \subseteq Parts /\ DOMAIN f.XLSX \subseteq Parts
      BY <1>0, <1>1 DEF IsIndexed
    <2>3. IsPartial(f.Sheet, Parts \cup {0}, Content)
      BY <1>0, <2>2 DEF IsFile, IsPartial
    <2>4. IsPartial(f.XLSX, Parts \cup {0}, Content)
      BY <1>0, <2>2 DEF IsFile, IsPartial
    <2>5. IsPartial(f.SheetRels, Parts \cup {0}, Nat)
      BY <1>0 DEF IsFile, IsPartial
    <2>6. IsPartial(f.XLSXRels, Parts \cup {0}, Nat)
      BY <1>0 DEF IsFile, IsPartial
    <2>7. f.SheetCount \in Int /\ f.ContentTypes \subseteq Parts
      BY <1>0, <1>1 DEF IsIndexed
    <2>8. f.CalcChain \subseteq Parts
      BY <1>0, <1>1 DEF IsLinked
    <2>9. panicked \in BOOLEAN
      BY <1>0 DEF WorkbookInv
    <2> QED BY <1>0, <2>1, <2>3, <2>4, <2>5, <2>6, <2>7, <2>8, <2>9 DEF TypeOK, IsFile
  <1>4. Catalogue
    <2>1. NamesUnique
      BY <1>0 DEF NamesUnique, IsListed
    <2>2. Cardinality(UsedParts) = Len(f.Sheets)
      BY <1>0, <1>2, CountIDs
    <2>3. \A k \in Positions(f) : f.sheetMap[f.Sheets[k].name] = PartOf(f, f.Sheets[k])
      BY <1>0, <1>1 DEF IsIndexed
    <2> QED BY <1>0, <1>1, <1>2, <2>1, <2>2, <2>3 DEF Catalogue, IsIndexed, Titles
  <1>5. ActiveAgrees
    BY <1>0, <1>1 DEF ActiveAgrees, IsSelected
  <1>6. LinksResolve
    BY <1>0, <1>2 DEF LinksResolve, IsLinked
  <1>7. ChainResolves
    BY <1>0, <1>1 DEF ChainResolves, IsLinked, IDs
  <1> QED BY <1>3, <1>4, <1>5, <1>6, <1>7

\* Every field of the File keeps its type.
THEOREM WorkbookTypeCorrect == Spec => []TypeOK
  BY WorkbookInvHolds, InvImplies, PTL

\* However sheets are created, deleted, renamed, copied, saved and loaded, the
\* sheet list, relationships, content types, index and parts agree, and
\* SetActiveSheet never meets a sheet it cannot read.
THEOREM CatalogueAlways == Spec => []Catalogue
  BY WorkbookInvHolds, InvImplies, PTL

\* Only the sheet under the active tab is ever selected.
THEOREM ActiveAgreesAlways == Spec => []ActiveAgrees
  BY WorkbookInvHolds, InvImplies, PTL

\* Every hyperlink has its relationship in every session.
THEOREM LinksResolveAlways == Spec => []LinksResolve
  BY WorkbookInvHolds, InvImplies, PTL

\* The calculation chain never mentions a sheet that is gone or has no formula.
THEOREM ChainResolvesAlways == Spec => []ChainResolves
  BY WorkbookInvHolds, InvImplies, PTL

\* Every session is a session of the abstract workbook: each call changes the
\* tabs it is about and no other.
THEOREM BookImplemented == Spec => ImplementsBook
  <1> DEFINE tabs == [k \in Positions(f) |->
                        [name |-> f.Sheets[k].name,
                         data |-> DataOf(f, f.Sheets[k].name)]]
  <1>1. Init => Abstract!Init
    <2> SUFFICES ASSUME Init PROVE Abstract!Init
      OBVIOUS
    <2>1. Agrees(f)
      BY NewBooksAssumption DEF Init
    <2> QED BY <2>1, TabsType DEF Abstract!Init, TabsOf
  <1>2. WorkbookInv /\ [Next]_vars => [Abstract!Next]_tabs
    <2> SUFFICES ASSUME WorkbookInv, [Next]_vars PROVE [Abstract!Next]_tabs
      OBVIOUS
    <2>1. TabsOf(f') = TabsOf(f) \/ Abstract!Step(TabsOf(f), TabsOf(f'))
      BY NextKeeps
    <2>2. tabs = TabsOf(f) /\ tabs' = TabsOf(f')
      BY DEF TabsOf
    <2>3. CASE TabsOf(f') = TabsOf(f)
      BY <2>2, <2>3
    <2>4. CASE Abstract!Step(TabsOf(f), TabsOf(f'))
      <3>1. Abstract!Next
        BY <2>2, <2>4 DEF Abstract!Next
      <3> QED BY <3>1
    <2> QED BY <2>1, <2>3, <2>4
  <1> QED BY <1>1, <1>2, WorkbookInvHolds, PTL DEF Spec, ImplementsBook, Abstract!Spec

=============================================================================
