------------------------------ MODULE Workbook ------------------------------
(***************************************************************************)
(* The catalogue of worksheets of one File and the structures that must    *)
(* agree about it: the sheet list of xl/workbook.xml, the relationships of *)
(* the workbook, the content types, the private index sheetMap, the cache  *)
(* of parsed worksheets and the parts of the package.                      *)
(*                                                                         *)
(* A worksheet part "xl/worksheets/sheet<n>.xml" is its number n, a        *)
(* relationship "rId<n>" its number; the relationships of the workbook map *)
(* rId to part, 0 for a target that is no worksheet.  A worksheet is what  *)
(* the operations here carry around: its data, its TabSelected flag and    *)
(* the largest relationship its hyperlinks use (0 is none); the            *)
(* relationships of a sheet are counted.  A sheet has at most one formula, *)
(* and the calculation chain, which only other programs write and the      *)
(* library only shortens, is the set of the SheetIDs it mentions; its part *)
(* and its content type are there while it is not empty.                   *)
(*                                                                         *)
(* The code finds a sheet by three different keys: DeleteSheet and the     *)
(* active tab go by SheetID; CopySheet, TabSelected, the getters and the   *)
(* calculation chain of SetCellFormula by part number; everything else by  *)
(* name through sheetMap.  Spec is a session in which the three agree at   *)
(* the start, in SpecReordered they do not.                                *)
(***************************************************************************)
EXTENDS Integers, Sequences, FiniteSets, Functions

CONSTANTS Names,      \* the names a caller may pass
          Trim,       \* trimSheetName: forbidden characters out, 31 at most
          Data,       \* the contents of a worksheet, 0 is a new one's
          MaxID,      \* bound on sheet and part numbers
          MaxLinks,   \* bound on the hyperlinks of a sheet
          FormulaOps, \* which of setting (TRUE) and clearing formulas happen
          NewBooks,   \* the Files to start with, sheet n in part n
          Reordered   \* the Files whose tabs were moved by another program

ASSUME WorkbookAssumption ==
  /\ Trim \in [Names -> Names] /\ \A n \in Names : Trim[Trim[n]] = Trim[n]
  /\ 0 \in Data
  /\ MaxID \in Nat \ {0} /\ MaxLinks \in Nat
  /\ FormulaOps \subseteq BOOLEAN

VARIABLES f,         \* the File
          panicked   \* the process died of a nil pointer

vars == <<f, panicked>>

Parts == 1..MaxID
Content == [data : Data, sel : BOOLEAN, links : Nat, formula : BOOLEAN]
Sheets == [name : Names, id : Parts, rid : Nat \ {0}, hidden : BOOLEAN]

\* a worksheet made by setSheet, or unmarshalled from a part that is missing
NewContent == [data |-> 0, sel |-> FALSE, links |-> 0, formula |-> FALSE]

IsPartial(fn, dom, ran) == DOMAIN fn \subseteq dom /\ Range(fn) \subseteq ran

\* the shape of the state
TypeOK ==
  /\ f.Sheets \in Seq(Sheets)
  /\ IsPartial(f.rels, Nat \ {0}, Nat)
  /\ f.ContentTypes \subseteq Parts
  /\ IsPartial(f.sheetMap, Names, Parts \cup {0})   \* 0 is no part
  /\ IsPartial(f.Sheet, Parts \cup {0}, Content)     \* parsed worksheets
  /\ IsPartial(f.XLSX, Parts \cup {0}, Content)      \* worksheet parts
  /\ IsPartial(f.SheetRels, Parts \cup {0}, Nat)     \* parsed sheet relationships
  /\ IsPartial(f.XLSXRels, Parts \cup {0}, Nat)      \* sheet relationship parts
  /\ f.ActiveTab \in Nat
  /\ f.SheetCount \in Int
  /\ f.CalcChain \subseteq Parts
  /\ panicked \in BOOLEAN

Put(fn, x, y) == [z \in DOMAIN fn \cup {x} |-> IF z = x THEN y ELSE fn[z]]
Del(fn, x) == Restrict(fn, DOMAIN fn \ {x})
Positions(b) == 1..Len(b.Sheets)

-----------------------------------------------------------------------------
(* Looking a sheet up.                                                     *)

PartOf(b, s) == IF s.rid \in DOMAIN b.rels THEN b.rels[s.rid] ELSE 0

\* part number to name: of two sheets with one part the last one counts
GetSheetMap(b) ==
  [p \in {PartOf(b, b.Sheets[k]) : k \in Positions(b)} \ {0} |->
     b.Sheets[CHOOSE k \in Positions(b) :
                /\ PartOf(b, b.Sheets[k]) = p
                /\ \A j \in Positions(b) :
                     PartOf(b, b.Sheets[j]) = p => j <= k].name]

\* the part of the first sheet called exactly name, 0 if there is none
GetSheetIndex(b, name) ==
  LET found == {k \in Positions(b) : /\ b.Sheets[k].name = name
                                     /\ b.Sheets[k].rid \in DOMAIN b.rels}
  IN  IF found = {} THEN 0
      ELSE PartOf(b, b.Sheets[CHOOSE k \in found : \A j \in found : k <= j])

\* readXML and Unmarshal, unless the worksheet has been parsed
ContentOf(b, p) == IF p \in DOMAIN b.Sheet THEN b.Sheet[p]
                   ELSE IF p \in DOMAIN b.XLSX THEN b.XLSX[p] ELSE NewContent

RelsOf(b, p) == IF p \in DOMAIN b.SheetRels THEN b.SheetRels[p]
                ELSE IF p \in DOMAIN b.XLSXRels THEN b.XLSXRels[p] ELSE 0

\* workSheetReader finds the part by the trimmed name, or fails
Readable(b, name) == Trim[name] \in DOMAIN b.sheetMap
WorkSheet(b, name) == ContentOf(b, b.sheetMap[Trim[name]])
StoreSheet(b, name, c) == [b EXCEPT !.Sheet = Put(@, b.sheetMap[Trim[name]], c)]

-----------------------------------------------------------------------------
(* Files whose structures agree.                                           *)

IDs(b) == {b.Sheets[k].id : k \in Positions(b)}
TitlesOf(b) == {b.Sheets[k].name : k \in Positions(b)}

Fields == {"Sheets", "rels", "ContentTypes", "sheetMap", "Sheet", "XLSX", "SheetRels",
           "XLSXRels", "ActiveTab", "SheetCount", "CalcChain"}

\* a File and its fields
IsFile(b) ==
  /\ DOMAIN b = Fields /\ b = [field \in Fields |-> b[field]]
  /\ b.Sheets \in Seq(Sheets) /\ b.Sheets # << >>
  /\ IsPartial(b.rels, Nat \ {0}, Nat) /\ IsFiniteSet(DOMAIN b.rels)
  /\ Range(b.Sheet) \subseteq Content /\ Range(b.XLSX) \subseteq Content
  /\ IsPartial(b.SheetRels, Parts, Nat) /\ IsPartial(b.XLSXRels, Parts, Nat)
  /\ b.ActiveTab \in Nat

\* every sheet has a trimmed name, an identifier and a part of its own, and
\* sheet n is in part n
IsListed(b) ==
  /\ \A j, k \in Positions(b) :
       j # k => b.Sheets[j].name # b.Sheets[k].name /\ b.Sheets[j].id # b.Sheets[k].id
  /\ \A k \in Positions(b) : /\ Trim[b.Sheets[k].name] = b.Sheets[k].name
                            /\ PartOf(b, b.Sheets[k]) = b.Sheets[k].id

\* sheetMap, the content types, the worksheets and SheetCount say the same
IsIndexed(b) ==
  /\ DOMAIN b.sheetMap = TitlesOf(b)
  /\ \A k \in Positions(b) : b.sheetMap[b.Sheets[k].name] = b.Sheets[k].id
  /\ b.ContentTypes = IDs(b)
  /\ DOMAIN b.Sheet \cup DOMAIN b.XLSX = IDs(b)
  /\ b.SheetCount = Len(b.Sheets)

\* hyperlinks have their relationships, the chain the formulas it mentions
IsLinked(b) ==
  /\ \A p \in IDs(b) : ContentOf(b, p).links <= RelsOf(b, p)
  /\ \A id \in b.CalcChain : id \in IDs(b) /\ ContentOf(b, id).formula

\* at most the sheet under the active tab is selected
IsSelected(b) ==
  \A k \in Positions(b) : ContentOf(b, b.Sheets[k].id).sel => b.ActiveTab = k - 1

Agrees(b) == IsFile(b) /\ IsListed(b) /\ IsIndexed(b) /\ IsLinked(b)

ASSUME NewBooksAssumption == \A b \in NewBooks : Agrees(b) /\ IsSelected(b)

-----------------------------------------------------------------------------
(* The operations, on a File b.                                            *)

\* mutant: the tab is counted from zero twice
ActivateTwiceZero(b, index) ==
  LET tabs == {k \in Positions(b) : b.Sheets[k].id = index}
  IN  [b EXCEPT !.ActiveTab = IF tabs = {} THEN @ ELSE (CHOOSE k \in tabs : TRUE) - 2]

\* mutant: the sheet selected before stays selected
ActivateKeeps(b, index) ==
  LET tabs   == {k \in Positions(b) : b.Sheets[k].id = index}
      listed == GetSheetMap(b)
  IN  [b EXCEPT
         !.ActiveTab = IF tabs = {} THEN @ ELSE (CHOOSE k \in tabs : TRUE) - 1,
         !.Sheet = IF index \notin DOMAIN listed THEN @
                   ELSE Put(@, index, [ContentOf(b, index) EXCEPT !.sel = TRUE])]

\* the tab is looked for by SheetID, the sheet to select by part number
Activate(b, index) ==
  LET tabs    == {k \in Positions(b) : b.Sheets[k].id = index}
      listed  == GetSheetMap(b)
      part(p) == b.sheetMap[Trim[listed[p]]]
      loaded  == {part(p) : p \in DOMAIN listed}
  IN  [b EXCEPT
         !.ActiveTab = IF tabs = {} THEN @
                       ELSE (CHOOSE k \in tabs : \A j \in tabs : j <= k) - 1,
         !.Sheet = [p \in DOMAIN @ \cup loaded |->
                      IF p \in loaded
                      THEN [ContentOf(b, p) EXCEPT !.sel =
                              index \in DOMAIN listed /\ part(index) = p]
                      ELSE @[p]]]

\* workSheetReader's error is dropped and its nil worksheet used
ActivatePanics(b) == \E p \in DOMAIN GetSheetMap(b) : ~Readable(b, GetSheetMap(b)[p])

\* mutant: the worksheet part stays in the package
DropKeepsPart(b, name) ==
  LET found == {k \in Positions(b) : b.Sheets[k].name = Trim[name]}
      k     == CHOOSE k \in found : TRUE
      s     == b.Sheets[k]
  IN  IF found = {} \/ Len(b.Sheets) <= 1 THEN b
      ELSE [b EXCEPT
              !.Sheets = [j \in 1..(Len(@) - 1) |-> IF j < k THEN @[j] ELSE @[j + 1]],
              !.rels = Del(@, s.rid),
              !.ContentTypes = @ \ {PartOf(b, s)},
              !.sheetMap = Del(@, name),
              !.Sheet = Del(@, s.id),
              !.SheetCount = @ - 1]

\* mutant: the calculation chain keeps what it says of the sheet
DropKeepsChain(b, name) ==
  LET found == {k \in Positions(b) : b.Sheets[k].name = Trim[name]}
      k     == CHOOSE k \in found : TRUE
      s     == b.Sheets[k]
  IN  IF found = {} \/ Len(b.Sheets) <= 1 THEN b
      ELSE [b EXCEPT
              !.Sheets = [j \in 1..(Len(@) - 1) |-> IF j < k THEN @[j] ELSE @[j + 1]],
              !.rels = Del(@, s.rid),
              !.ContentTypes = @ \ {PartOf(b, s)},
              !.sheetMap = Del(@, name),
              !.XLSX = Del(@, s.id),
              !.XLSXRels = Del(@, s.id),
              !.Sheet = Del(@, s.id),
              !.SheetCount = @ - 1]

\* deleteCalcChain, of a whole sheet or of its formula
DeleteCalcChain(b, index) == [b EXCEPT !.CalcChain = @ \ {index}]

\* the loop of DeleteSheet, which leaves the last sheet alone: the entry goes
\* by name, the relationship and the content type by the entry, the parts and
\* the calculation chain by SheetID, the index by the name as it was passed
Drop(b, name) ==
  LET found == {k \in Positions(b) : b.Sheets[k].name = Trim[name]}
      k     == CHOOSE k \in found : TRUE
      s     == b.Sheets[k]
  IN  IF found = {} \/ Len(b.Sheets) <= 1 THEN b
      ELSE [DeleteCalcChain(b, s.id) EXCEPT
              !.Sheets = [j \in 1..(Len(@) - 1) |-> IF j < k THEN @[j] ELSE @[j + 1]],
              !.rels = Del(@, s.rid),
              !.ContentTypes = @ \ {PartOf(b, s)},
              !.sheetMap = Del(@, name),
              !.XLSX = Del(@, s.id),
              !.XLSXRels = Del(@, s.id),
              !.Sheet = Del(@, s.id),
              !.SheetCount = @ - 1]

Largest(S) == IF S = {} THEN 0 ELSE CHOOSE m \in S : \A x \in S : x <= m

NextID(b) == Largest({b.Sheets[k].id : k \in Positions(b)}) + 1

\* setContentTypes, setSheet, addXlsxWorkbookRels and setWorkbook
Add(b, name) ==
  LET id  == NextID(b)
      rid == Largest(DOMAIN b.rels) + 1
  IN  [b EXCEPT
         !.SheetCount = @ + 1,
         !.ContentTypes = @ \cup {id},
         !.sheetMap = Put(@, Trim[name], id),
         !.Sheet = Put(@, id, NewContent),
         !.rels = Put(@, rid, id),
         !.Sheets = Append(@, [name |-> Trim[name], id |-> id, rid |-> rid,
                               hidden |-> FALSE])]

\* to hide a sheet the loop reads the sheet in part k - 1 for the k-th entry,
\* and gives up at the first that does not exist
ShowHide(b, name, visible) ==
  LET listed   == GetSheetMap(b)
      reads(k) == k - 1 \in DOMAIN listed /\ Readable(b, listed[k - 1])
      shown    == {k \in Positions(b) : ~b.Sheets[k].hidden}
      done     == {k \in Positions(b) : \A j \in 1..k : reads(j)}
      hides(k) == /\ k \in done /\ Cardinality(shown) > 1
                  /\ ~WorkSheet(b, listed[k - 1]).sel
  IN  [b EXCEPT
         !.Sheets = [k \in Positions(b) |->
                       LET s == b.Sheets[k]
                       IN  IF s.name # Trim[name] THEN s
                           ELSE [s EXCEPT !.hidden = ~visible /\ (s.hidden \/ hides(k))]],
         !.Sheet = IF visible THEN @
                   ELSE [p \in DOMAIN @ \cup {b.sheetMap[Trim[listed[k - 1]]] : k \in done}
                           |-> ContentOf(b, p)]]

-----------------------------------------------------------------------------
(* The calls.                                                              *)

Becomes(b) == f' = b /\ UNCHANGED panicked

\* a call that ends, or begins, with SetActiveSheet
Activating(b, index, after(_)) ==
  IF ActivatePanics(b) THEN panicked' = TRUE /\ UNCHANGED f
  ELSE Becomes(after(Activate(b, IF index < 1 THEN 1 ELSE index)))

SetActiveSheet(index) == Activating(f, index, LAMBDA b : b)

DeleteSheet(name) ==
  LET b == Drop(f, name)
  IN  Activating(b, Cardinality(DOMAIN GetSheetMap(b)), LAMBDA c : c)

\* DeleteSheet is called for a name that no sheet has, which still activates
\* the sheet numbered like the count
NewSheet(name) ==
  /\ GetSheetIndex(f, name) = 0
  /\ LET b == Drop(f, name)
     IN  /\ NextID(b) <= MaxID
         /\ Activating(b, Cardinality(DOMAIN GetSheetMap(b)),
                       LAMBDA c : Add(c, name))

SetSheetName(old, new) ==
  LET from  == Trim[old]
      to    == Trim[new]
      found == {k \in Positions(f) : f.Sheets[k].name = from}
      moved == Put(f.sheetMap, to,
                   IF from \in DOMAIN f.sheetMap THEN f.sheetMap[from] ELSE 0)
  IN  /\ found # {}
      /\ Becomes([f EXCEPT
           !.Sheets = [k \in Positions(f) |->
                         IF k \in found THEN [@[k] EXCEPT !.name = to] ELSE @[k]],
           !.sheetMap = Del(moved, from)])

\* the relationships are copied from part to part, past the parsed ones
CopySheet(from, to) ==
  LET listed == GetSheetMap(f)
  IN  /\ from # to /\ {from, to} \subseteq DOMAIN listed
      /\ Readable(f, listed[from])
      /\ LET c == WorkSheet(f, listed[from])
             b == StoreSheet(f, listed[from], c)
         IN  Becomes([b EXCEPT
               !.Sheet = Put(@, to, [c EXCEPT !.sel = FALSE]),
               !.XLSXRels = IF from \in DOMAIN @ THEN Put(@, to, @[from]) ELSE @])

SetSheetVisible(name, visible) == Becomes(ShowHide(f, name, visible))

\* any call that reads a worksheet, and any that changes it
Read(name) == /\ Readable(f, name)
              /\ Becomes(StoreSheet(f, name, WorkSheet(f, name)))

Write(name, d) ==
  /\ Readable(f, name)
  /\ Becomes(StoreSheet(f, name, [WorkSheet(f, name) EXCEPT !.data = d]))

\* SetCellHyperLink to a web site: addSheetRelationships
AddLink(name) ==
  /\ Readable(f, name)
  /\ LET p == f.sheetMap[Trim[name]]
         n == RelsOf(f, p) + 1
     IN  /\ n <= MaxLinks
         /\ Becomes([StoreSheet(f, name, [WorkSheet(f, name) EXCEPT !.links = n])
                     EXCEPT !.SheetRels = Put(@, p, n)])

\* the chain goes by the part of the first sheet called exactly name
SetCellFormula(name, present) ==
  /\ Readable(f, name)
  /\ LET b == StoreSheet(f, name, [WorkSheet(f, name) EXCEPT !.formula = present])
     IN  Becomes(IF present THEN b ELSE DeleteCalcChain(b, GetSheetIndex(f, name)))

\* mutant: workSheetWriter leaves a part alone that is there already
SavedOnce(b) ==
  [b EXCEPT !.XLSX = [p \in DOMAIN @ \cup DOMAIN b.Sheet |->
                        IF p \in DOMAIN @ THEN @[p] ELSE b.Sheet[p]],
            !.XLSXRels = [p \in DOMAIN @ \cup DOMAIN b.SheetRels |-> RelsOf(b, p)]]

\* mutant: workSheetRelsWriter is forgotten
SavedWithoutRels(b) ==
  [b EXCEPT !.XLSX = [p \in DOMAIN @ \cup DOMAIN b.Sheet |-> ContentOf(b, p)]]

\* WriteToBuffer: what has been parsed is written to its part
Saved(b) ==
  [b EXCEPT !.XLSX = [p \in DOMAIN @ \cup DOMAIN b.Sheet |-> ContentOf(b, p)],
            !.XLSXRels = [p \in DOMAIN @ \cup DOMAIN b.SheetRels |-> RelsOf(b, p)]]

Save == Becomes(Saved(f))

\* Save, then OpenFile: sheetMap is made anew and the parts are counted
Reopen ==
  LET b      == Saved(f)
      listed == GetSheetMap(b)
  IN  Becomes([b EXCEPT
        !.Sheet = << >>, !.SheetRels = << >>,
        !.sheetMap = [n \in Range(listed) |-> CHOOSE p \in DOMAIN listed : listed[p] = n],
        !.SheetCount = Cardinality(DOMAIN b.XLSX)])

-----------------------------------------------------------------------------
CleanNames == {n \in Names : Trim[n] = n}
Titles == TitlesOf(f)
NewNames == {n \in Names : Trim[n] \notin Titles}

\* what has to be spelled as it is listed: sheets to delete, whose index
\* entry goes by the name as passed, and sheets that formulas are set in;
\* a name that is trimmed to a title must not be given to NewSheet either,
\* which would delete that sheet
Exact ==
  \/ \E n \in CleanNames : \/ DeleteSheet(n)
                           \/ \E v \in FormulaOps : SetCellFormula(n, v)
  \/ \E n \in NewNames \cup CleanNames : NewSheet(n)

\* any spelling will do
Lenient ==
  \/ \E n \in Names : \/ Read(n) \/ AddLink(n)
                      \/ \E d \in Data : Write(n, d)
                      \/ \E v \in BOOLEAN : SetSheetVisible(n, v)
  \/ \E old \in Names, new \in NewNames : SetSheetName(old, new)
  \/ \E index \in 0..MaxID : SetActiveSheet(index)
  \/ Save \/ Reopen

\* the sheets copied have no hyperlinks, whose parsed relationships would be
\* left behind, and replace none that is in the calculation chain
Careful == \E from, to \in Parts : /\ ContentOf(f, from).links = 0
                                   /\ to \notin f.CalcChain
                                   /\ CopySheet(from, to)

Init == f \in NewBooks /\ panicked = FALSE
Next == ~panicked /\ (Exact \/ Lenient \/ Careful)
Spec == Init /\ [][Next]_vars

\* the tabs of the file are not in the order of its parts
SpecReordered == /\ f \in Reordered /\ panicked = FALSE
                 /\ [][Next]_vars

-----------------------------------------------------------------------------
(* Properties.                                                             *)

NamesUnique == \A j, k \in Positions(f) :
                 f.Sheets[j].name = f.Sheets[k].name => j = k

UsedParts == {PartOf(f, f.Sheets[k]) : k \in Positions(f)}

\* The structures agree after every sequence of creations, deletions,
\* renamings, copies, saves and loads: no name is used twice, every entry of
\* the workbook leads through its relationship to a part of its own, sheetMap
\* takes every name there, and the content types, the worksheets and
\* SheetCount account for these parts and no others; so SetActiveSheet, which
\* every creation and deletion calls, never meets a sheet it cannot read.
Catalogue ==
  /\ ~panicked
  /\ NamesUnique
  /\ 0 \notin UsedParts /\ Cardinality(UsedParts) = Len(f.Sheets)
  /\ DOMAIN f.sheetMap = Titles
  /\ \A k \in Positions(f) : f.sheetMap[f.Sheets[k].name] = PartOf(f, f.Sheets[k])
  /\ f.ContentTypes = UsedParts
  /\ DOMAIN f.Sheet \cup DOMAIN f.XLSX = UsedParts
  /\ f.SheetCount = Len(f.Sheets)

\* Only the sheet under the active tab is selected: SetActiveSheet, which
\* finds the one by SheetID and the other by part number, and everything that
\* deletes, creates and copies sheets keep them in step.
ActiveAgrees ==
  \A k \in Positions(f) :
    ContentOf(f, PartOf(f, f.Sheets[k])).sel => f.ActiveTab = k - 1

\* Every hyperlink of a sheet has its relationship, parsed or in the package.
LinksResolve ==
  \A p \in UsedParts : ContentOf(f, p).links <= RelsOf(f, p)

\* The calculation chain mentions only sheets that exist and have a formula:
\* DeleteSheet and SetCellFormula shorten it, and a sheet created under the
\* number of a deleted one inherits nothing.
ChainResolves ==
  \A id \in f.CalcChain :
    \E k \in Positions(f) : /\ f.Sheets[k].id = id
                            /\ ContentOf(f, PartOf(f, f.Sheets[k])).formula

\* what a caller reads from the sheet called name; << >> is an error
Seen(c) == <<c.data, c.formula>>
DataOf(b, name) == IF Readable(b, name) THEN Seen(WorkSheet(b, name)) ELSE << >>

\* Deleting a sheet leaves what the other sheets hold.
DeleteKeepsOthers ==
  [][\A n \in Titles : DeleteSheet(n) =>
       \A m \in Titles \ {n} : DataOf(f', m) = DataOf(f, m)]_vars

\* A sheet that is neither selected nor the only one shown can be hidden.
CanHide ==
  \A k \in Positions(f) :
    /\ ~ContentOf(f, PartOf(f, f.Sheets[k])).sel
    /\ \E j \in Positions(f) \ {k} : ~f.Sheets[j].hidden
    => ShowHide(f, f.Sheets[k].name, FALSE).Sheets[k].hidden

\* The abstract workbook of module Book: names and contents in tab order.
Abstract == INSTANCE Book
  WITH tabs <- [k \in Positions(f) |->
                  [name |-> f.Sheets[k].name,
                   data |-> DataOf(f, f.Sheets[k].name)]],
       Names <- CleanNames, Data <- Data \X BOOLEAN, Blank <- Seen(NewContent)

\* Every call changes the tabs it is about and no other, whatever has been
\* parsed, saved, deleted or numbered before.
ImplementsBook == Abstract!Spec
=============================================================================
