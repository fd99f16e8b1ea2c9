------------------------------ MODULE Package ------------------------------
(***************************************************************************)
(* The parts of a workbook behind its worksheets: drawings with pictures,  *)
(* charts and shapes, comments with their VML drawings, tables and media,  *)
(* and the relationships and content types that hold them together.        *)
(*                                                                         *)
(* A part is its kind and its number ("xl/drawings/drawing2.xml" is 2 of   *)
(* kind "drawing", the relationships of sheet 2 are 2 of "sheetRels").     *)
(* XLSX holds the parts of the package, Cache the parsed ones (WorkSheet-  *)
(* Rels, Drawings, DrawingRels, Comments, VMLDrawing); charts, media and   *)
(* tables are never parsed.  New parts are numbered by counting.  A        *)
(* relationship "rId<n>" is the n-th of its part, 0 is none: only          *)
(* hyperlinks are ever removed, and they are left to module Worksheet.     *)
(* Pictures, charts, tables and texts of comments are model data.          *)
(***************************************************************************)
EXTENDS Integers, Sequences, FiniteSets, Functions

CONSTANTS Cells,        \* the cells objects are anchored to
          BadCell,      \* a name that is no cell
          Images,       \* what media hold
          Charts, Tables, Texts,
          Linked,       \* whether pictures have a hyperlink: a set of BOOLEANs
          MaxSheet,     \* bound on the number of a sheet
          NewFiles,     \* the Files to start with
          Loaded        \* those whose parts have not been parsed yet

ASSUME PackageAssumption ==
  /\ BadCell \notin Cells
  /\ Linked \subseteq BOOLEAN
  /\ MaxSheet \in Nat \ {0}

VARIABLES f,          \* the File
          panicked    \* GetPicture used a nil relationship

vars == <<f, panicked>>

Parsed == {"sheetRels", "drawing", "drawingRels", "comments", "vml"}
Stored == Parsed \cup {"chart", "media", "table"}

Worksheets == [drawing : Nat, legacyDrawing : Nat, picture : Nat,
               tableParts : Seq(Nat \ {0})]
Rels == [type : {"drawing", "vml", "comments", "table", "image", "chart", "hyperlink"},
         target : Nat \ {0}]
\* raw: the anchor was parsed, and is kept as text
Anchors == [kind : {"pic", "chart", "sp"}, cell : Cells, rid : Nat, raw : BOOLEAN]
Notes == [cell : Cells \cup {BadCell}, text : Texts]

PartType(kind) ==
  CASE kind \in {"sheetRels", "drawingRels"} -> Seq(Rels)
    [] kind = "drawing" -> Seq(Anchors)
    [] kind = "comments" -> Seq(Notes)
    [] kind = "vml" -> Seq(Cells)
    [] kind = "media" -> Images
    [] kind = "chart" -> Charts
    [] kind = "table" -> Tables

IsParts(parts, kind) == /\ DOMAIN parts \subseteq Nat \ {0}
                        /\ Range(parts) \subseteq PartType(kind)

\* the shape of the state
TypeOK ==
  /\ DOMAIN f.Sheet \subseteq 1..MaxSheet /\ Range(f.Sheet) \subseteq Worksheets
  /\ DOMAIN f.XLSX = Stored /\ \A k \in Stored : IsParts(f.XLSX[k], k)
  /\ DOMAIN f.Cache = Parsed /\ \A k \in Parsed : IsParts(f.Cache[k], k)
  /\ IsParts(f.DecodeVMLDrawing, "vml")
  /\ f.Overrides \subseteq {"chart", "comments", "drawing", "table"} \X (Nat \ {0})
  /\ f.Defaults \subseteq {"image", "vml"}
  /\ panicked \in BOOLEAN

NewWorksheet == [drawing |-> 0, legacyDrawing |-> 0, picture |-> 0, tableParts |-> << >>]

\* NewFile: worksheets with nothing on them
IsNew(b) ==
  /\ DOMAIN b.Sheet \subseteq 1..MaxSheet /\ DOMAIN b.Sheet # {}
  /\ b = [Sheet |-> [s \in DOMAIN b.Sheet |-> NewWorksheet],
          XLSX |-> [k \in Stored |-> << >>], Cache |-> [k \in Parsed |-> << >>],
          DecodeVMLDrawing |-> << >>, Overrides |-> {}, Defaults |-> {}]

ASSUME NewFilesAssumption == \A b \in NewFiles : IsNew(b)

Put(fn, x, y) == [z \in DOMAIN fn \cup {x} |-> IF z = x THEN y ELSE fn[z]]
Del(fn, x) == Restrict(fn, DOMAIN fn \ {x})
PutCache(b, kind, n, c) == [b EXCEPT !.Cache = [b.Cache EXCEPT ![kind] = Put(@, n, c)]]
PutPart(b, kind, n, c) == [b EXCEPT !.XLSX = [b.XLSX EXCEPT ![kind] = Put(@, n, c)]]

-----------------------------------------------------------------------------
(* Reading parts.                                                          *)

AsText(c) == [i \in DOMAIN c |-> [c[i] EXCEPT !.raw = TRUE]]
AsXML(kind, c) == IF kind # "drawing" THEN c
                  ELSE [i \in DOMAIN c |-> [c[i] EXCEPT !.raw = FALSE]]

\* parse a part once
Reader(b, kind, n) ==
  IF n \in DOMAIN b.Cache[kind] \/ n \notin DOMAIN b.XLSX[kind] THEN b
  ELSE PutCache(b, kind, n, b.XLSX[kind][n])

WorkSheetRelsReader(b, s) == Reader(b, "sheetRels", s)
DrawingRelsReader(b, n) == Reader(b, "drawingRels", n)

\* drawingParser caches a drawing that is not there, too
DrawingParser(b, n) ==
  IF n \in DOMAIN b.Cache["drawing"] THEN b
  ELSE PutCache(b, "drawing", n, IF n \in DOMAIN b.XLSX["drawing"]
                                 THEN AsText(b.XLSX["drawing"][n]) ELSE << >>)

DecodeVMLDrawingReader(b, n) ==
  IF n \in DOMAIN b.DecodeVMLDrawing \/ n \notin DOMAIN b.XLSX["vml"] THEN b
  ELSE [b EXCEPT !.DecodeVMLDrawing = Put(@, n, b.XLSX["vml"][n])]

\* what a reader returns
Content(b, kind, n) == IF n \in DOMAIN b.Cache[kind] THEN b.Cache[kind][n]
                       ELSE IF n \in DOMAIN b.XLSX[kind] THEN b.XLSX[kind][n]
                       ELSE << >>

\* getDrawingRelationships; 0 is not found
TargetByID(b, kind, n, rid) ==
  LET rels == Content(b, kind, n)
  IN  IF rid \in DOMAIN rels THEN rels[rid].target ELSE 0

GetSheetRelationshipsTargetByID(b, s, rid) == TargetByID(b, "sheetRels", s, rid)
DrawingOf(b, s) == GetSheetRelationshipsTargetByID(b, s, b.Sheet[s].drawing)
LegacyDrawingOf(b, s) == GetSheetRelationshipsTargetByID(b, s, b.Sheet[s].legacyDrawing)

First(S) == CHOOSE i \in S : \A j \in S : i <= j

\* the comments part of a sheet is the first that its relationships mention
GetSheetComments(b, s) ==
  LET rels  == Content(b, "sheetRels", s)
      found == {i \in DOMAIN rels : rels[i].type = "comments"}
  IN  IF found = {} THEN 0
      ELSE rels[First(found)].target

-----------------------------------------------------------------------------
(* Adding parts.                                                           *)

\* countCharts, countMedia, countTables
CountStored(b, kind) == Cardinality(DOMAIN b.XLSX[kind])
CountCharts(b) == CountStored(b, "chart")
CountMedia(b) == CountStored(b, "media")
CountTables(b) == CountStored(b, "table")

\* mutant: only the parts of the package are counted
CountStoredOnly(b, kind) == CountStored(b, kind)

\* the larger of two counts
CountEither(b, kind) ==
  LET c1 == CountStored(b, kind)
      c2 == Cardinality(DOMAIN b.Cache[kind])
  IN  IF c1 < c2 THEN c2 ELSE c1

CountDrawings(b) == CountEither(b, "drawing")
CountComments(b) == CountEither(b, "comments")

AddRelationship(b, kind, n, type, target) ==
  PutCache(b, kind, n, Append(Content(b, kind, n), [type |-> type, target |-> target]))

AddSheetRelationships(b, s, type, target) == AddRelationship(b, "sheetRels", s, type, target)
AddDrawingRelationships(b, n, type, target) == AddRelationship(b, "drawingRels", n, type, target)

LastRID(b, kind, n) == Len(Content(b, kind, n))

\* mutant: a content type is added for the first part of a kind only
AddContentTypeOnce(b, kind, n) ==
  [b EXCEPT !.Overrides = IF \E o \in @ : o[1] = kind THEN @ ELSE @ \cup {<<kind, n>>},
            !.Defaults = @ \cup {"vml", "image"}]

AddContentTypePart(b, kind, n) ==
  [b EXCEPT !.Overrides = @ \cup {<<kind, n>>},
            !.Defaults = @ \cup (CASE kind = "comments" -> {"vml"}
                                   [] kind = "drawing" -> {"image"}
                                   [] OTHER -> {})]

SetContentTypePartImageExtensions(b) == [b EXCEPT !.Defaults = @ \cup {"image"}]

\* the field of a worksheet that refers to a part becomes its last relationship
AddSheetDrawing(b, s) ==
  [b EXCEPT !.Sheet = [b.Sheet EXCEPT ![s].drawing = LastRID(b, "sheetRels", s)]]
AddSheetLegacyDrawing(b, s, rid) == [b EXCEPT !.Sheet = [b.Sheet EXCEPT ![s].legacyDrawing = rid]]
AddSheetPicture(b, s) ==
  [b EXCEPT !.Sheet = [b.Sheet EXCEPT ![s].picture = LastRID(b, "sheetRels", s)]]
AddSheetTable(b, s) ==
  [b EXCEPT !.Sheet = [b.Sheet EXCEPT ![s].tableParts = Append(@, LastRID(b, "sheetRels", s))]]

\* a sheet has one drawing: the one it has, or one with a new number
PrepareDrawing(b, s) ==
  IF b.Sheet[s].drawing # 0 THEN WorkSheetRelsReader(b, s)
  ELSE AddSheetDrawing(AddSheetRelationships(b, s, "drawing", CountDrawings(b) + 1), s)

\* mutant: the pictures there are, are not compared
AddMediaAgain(b, image) == PutPart(b, "media", CountMedia(b), image)

MediaWith(b, image) == {n \in DOMAIN b.XLSX["media"] : b.XLSX["media"][n] = image}

\* duplicate images are stored once
AddMedia(b, image) ==
  IF MediaWith(b, image) # {} THEN b
  ELSE PutPart(b, "media", CountMedia(b) + 1, image)

MediaOf(b, image) == CHOOSE n \in MediaWith(b, image) : TRUE

\* an anchor behind the others of a drawing, and its content type
AddAnchor(b, n, kind, cell, rid) ==
  LET c == DrawingParser(b, n)
  IN  AddContentTypePart(
        PutCache(c, "drawing", n,
                 Append(c.Cache["drawing"][n],
                        [kind |-> kind, cell |-> cell, rid |-> rid, raw |-> FALSE])),
        "drawing", n)

AddDrawingPicture(b, n, cell, rid) == AddAnchor(b, n, "pic", cell, rid)
AddDrawingChart(b, n, cell, rid) == AddAnchor(b, n, "chart", cell, rid)
AddDrawingShape(b, n, cell) == AddAnchor(b, n, "sp", cell, 0)

\* mutant: the shapes of the part that was loaded are left out
AddDrawingVMLAlone(b, n, cell) ==
  PutCache(b, "vml", n,
           Append(IF n \in DOMAIN b.Cache["vml"] THEN b.Cache["vml"][n] ELSE << >>, cell))

\* the shapes that were loaded are added to the ones there are, each time
AddDrawingVML(b, n, cell) ==
  LET c       == DecodeVMLDrawingReader(b, n)
      vml     == IF n \in DOMAIN b.Cache["vml"] THEN b.Cache["vml"][n] ELSE << >>
      decoded == IF n \in DOMAIN c.DecodeVMLDrawing THEN c.DecodeVMLDrawing[n] ELSE << >>
  IN  PutCache(c, "vml", n, Append(vml \o decoded, cell))

-----------------------------------------------------------------------------
(* The calls.  A cell that is none is an error found late: everything done *)
(* before it is left.                                                      *)

Becomes(b) == f' = b /\ UNCHANGED panicked

\* the hyperlink of a picture is a relationship of its own
AddPicture(s, cell, image, link) ==
  LET b == AddMedia(PrepareDrawing(f, s), image)
      n == DrawingOf(b, s)
      c == AddDrawingRelationships(b, n, "image", MediaOf(b, image))
      d == IF link THEN AddDrawingRelationships(c, n, "hyperlink", 1) ELSE c
  IN  Becomes(IF cell = BadCell THEN d
              ELSE AddDrawingPicture(d, n, cell, LastRID(c, "drawingRels", n)))

\* the relationship is made before the chart
AddChart(s, cell, chart) ==
  LET b  == PrepareDrawing(f, s)
      n  == DrawingOf(b, s)
      id == CountCharts(f) + 1
      c  == AddDrawingRelationships(b, n, "chart", id)
  IN  Becomes(IF cell = BadCell THEN c
              ELSE AddContentTypePart(
                     PutPart(AddDrawingChart(c, n, cell, LastRID(c, "drawingRels", n)),
                             "chart", id, chart),
                     "chart", id))

AddShape(s, cell) ==
  LET b == PrepareDrawing(f, s)
  IN  Becomes(IF cell = BadCell THEN b
              ELSE AddDrawingShape(b, DrawingOf(b, s), cell))

\* the first comment of a sheet makes two parts with one number
PrepareComments(b, s) ==
  IF b.Sheet[s].legacyDrawing # 0 THEN WorkSheetRelsReader(b, s)
  ELSE LET id == CountComments(b) + 1
           c  == AddSheetRelationships(b, s, "vml", id)
       IN  AddSheetLegacyDrawing(AddSheetRelationships(c, s, "comments", id), s,
                                 LastRID(c, "sheetRels", s))

\* addComment: the text behind those of the part
AddCommentTo(b, n, cell, text) ==
  PutCache(b, "comments", n, Append(Content(b, "comments", n), [cell |-> cell, text |-> text]))

AddComment(s, cell, text) ==
  LET b == PrepareComments(f, s)
      n == LegacyDrawingOf(b, s)
      c == AddCommentTo(b, n, cell, text)
  IN  Becomes(IF cell = BadCell THEN c
              ELSE AddContentTypePart(AddDrawingVML(c, n, cell), "comments", n))

\* cells are checked first
AddTable(s, table) ==
  LET id == CountTables(f) + 1
      b  == AddSheetTable(AddSheetRelationships(f, s, "table", id), s)
  IN  Becomes(AddContentTypePart(PutPart(b, "table", id, table), "table", id))

SetSheetBackground(s, image) ==
  LET b == AddMedia(f, image)
  IN  Becomes(SetContentTypePartImageExtensions(
                AddSheetPicture(AddSheetRelationships(b, s, "image", MediaOf(b, image)), s)))

PicsAt(c, cell) == {i \in DOMAIN c : c[i].kind = "pic" /\ ~c[i].raw /\ c[i].cell = cell}

\* mutant: a drawing that has been parsed is not looked up in the package
PictureRIDParsed(b, n, cell) ==
  LET anchors == DrawingParser(b, n).Cache["drawing"][n]
      pics    == PicsAt(anchors, cell)
  IN  IF pics # {} THEN anchors[First(pics)].rid ELSE 0

\* the relationship of the picture that GetPicture finds, 0 if none: first
\* among the anchors added since the drawing was parsed, then in the package
PictureRID(b, n, cell) ==
  LET anchors == DrawingParser(b, n).Cache["drawing"][n]
      stored  == IF n \in DOMAIN b.XLSX["drawing"] THEN b.XLSX["drawing"][n] ELSE << >>
      pics    == PicsAt(anchors, cell)
      kept    == PicsAt(stored, cell)
  IN  IF pics # {} THEN anchors[First(pics)].rid
      ELSE IF kept # {} THEN stored[First(kept)].rid ELSE 0

GetPicture(s, cell) ==
  /\ f.Sheet[s].drawing # 0
  /\ LET n   == DrawingOf(f, s)
         b   == DrawingParser(WorkSheetRelsReader(f, s), n)
         rid == PictureRID(f, n, cell)
     IN  IF rid = 0 THEN Becomes(b)
         ELSE /\ f' = DrawingRelsReader(b, n)
              /\ panicked' = (panicked \/ TargetByID(b, "drawingRels", n, rid) = 0)

\* the parsed parts of a kind when every part of S has been read
ReadAll(b, kind, S) == [n \in DOMAIN b.Cache[kind] \cup (S \cap DOMAIN b.XLSX[kind])
                          |-> Content(b, kind, n)]

\* every sheet's relationships and comments are parsed
GetComments ==
  LET parts == {GetSheetComments(f, s) : s \in DOMAIN f.Sheet}
  IN  Becomes([f EXCEPT !.Cache =
                 [f.Cache EXCEPT !["sheetRels"] = ReadAll(f, "sheetRels", DOMAIN f.Sheet),
                                 !["comments"] = ReadAll(f, "comments", parts)]])

-----------------------------------------------------------------------------
(* Sheets, saving and opening.                                             *)

NewSheet ==
  LET n == 1 + CHOOSE m \in DOMAIN f.Sheet : \A x \in DOMAIN f.Sheet : x <= m
  IN  /\ n <= MaxSheet
      /\ Becomes([f EXCEPT !.Sheet = Put(@, n, NewWorksheet)])

\* the parsed relationships stay, and so do the parts of the sheet
DeleteSheet(s) ==
  /\ Cardinality(DOMAIN f.Sheet) > 1
  /\ Becomes([f EXCEPT !.Sheet = Del(@, s),
                       !.XLSX = [f.XLSX EXCEPT !["sheetRels"] = Del(@, s)]])

\* the writers: every parsed part replaces the stored one
Saved(b) ==
  [b EXCEPT !.XLSX = [k \in Stored |->
     IF k \notin Parsed THEN b.XLSX[k]
     ELSE [n \in DOMAIN b.XLSX[k] \cup DOMAIN b.Cache[k] |-> AsXML(k, Content(b, k, n))]]]

Save == Becomes(Saved(f))

Reopen == Becomes([Saved(f) EXCEPT !.Cache = [k \in Parsed |-> << >>],
                                   !.DecodeVMLDrawing = << >>])

-----------------------------------------------------------------------------
\* the larger count accounts for every part: true of a new File, and of one
\* that was loaded as long as the parts added to it are not outnumbered
Counted(kind) == \/ DOMAIN f.XLSX[kind] \subseteq DOMAIN f.Cache[kind]
                 \/ DOMAIN f.Cache[kind] \subseteq DOMAIN f.XLSX[kind]

Adding(cells) ==
  \E s \in DOMAIN f.Sheet :
    \/ /\ f.Sheet[s].drawing # 0 \/ Counted("drawing")
       /\ \E cell \in cells :
            \/ AddShape(s, cell)
            \/ \E x \in Charts : AddChart(s, cell, x)
            \/ \E x \in Images, l \in Linked : AddPicture(s, cell, x, l)
    \/ /\ f.Sheet[s].legacyDrawing # 0 \/ Counted("comments")
       /\ \E cell \in cells, x \in Texts : AddComment(s, cell, x)
    \/ \E x \in Tables : AddTable(s, x)
    \/ \E x \in Images : SetSheetBackground(s, x)

Reading == GetComments \/ \E s \in DOMAIN f.Sheet, cell \in Cells : GetPicture(s, cell)

\* a sheet with comments is not deleted: its relationships would stay parsed
\* and the next sheet of that number would have the comments
Arranging == \/ NewSheet \/ Save \/ Reopen
             \/ \E s \in DOMAIN f.Sheet : f.Sheet[s].legacyDrawing = 0 /\ DeleteSheet(s)

Init == f \in NewFiles /\ panicked = FALSE
Next == Adding(Cells) \/ Reading \/ Arranging
Spec == Init /\ [][Next]_vars

\* objects are added to a File whose parts have not been parsed
AddShapeAnywhere == \E s \in DOMAIN f.Sheet, cell \in Cells : AddShape(s, cell)
SpecLoaded == /\ f \in Loaded /\ panicked = FALSE
              /\ [][AddShapeAnywhere]_vars

-----------------------------------------------------------------------------
(* Properties.                                                             *)

HasPart(kind, n) == \/ n \in DOMAIN f.XLSX[kind]
                    \/ kind \in Parsed /\ n \in DOMAIN f.Cache[kind]

\* the relationship leads to a part of its type that is there and, unless it
\* is known by its extension, has a content type
Leads(rels, rid, type) ==
  /\ rid \in DOMAIN rels /\ rels[rid].type = type
  /\ IF type \in {"image", "vml"}
     THEN type \in f.Defaults /\ HasPart(IF type = "image" THEN "media" ELSE type, rels[rid].target)
     ELSE HasPart(type, rels[rid].target) /\ <<type, rels[rid].target>> \in f.Overrides

\* Every reference leads somewhere: from a sheet to its drawing, its comments,
\* its tables and its background, from an anchor to its picture or chart,
\* through relationships that are parsed or stored, to a part that exists and
\* that [Content_Types].xml describes.
PartsResolve ==
  /\ ~panicked
  /\ \A s \in DOMAIN f.Sheet :
       LET w    == f.Sheet[s]
           rels == Content(f, "sheetRels", s)
       IN  /\ w.drawing # 0 => Leads(rels, w.drawing, "drawing")
           /\ w.legacyDrawing # 0 => Leads(rels, w.legacyDrawing, "vml")
           /\ w.legacyDrawing # 0 => HasPart("comments", GetSheetComments(f, s))
           /\ w.picture # 0 => Leads(rels, w.picture, "image")
           /\ \A i \in DOMAIN w.tableParts : Leads(rels, w.tableParts[i], "table")
  /\ \A n \in DOMAIN f.XLSX["drawing"] \cup DOMAIN f.Cache["drawing"] :
       LET anchors == Content(f, "drawing", n)
       IN  \A i \in DOMAIN anchors :
             anchors[i].kind # "sp" =>
               Leads(Content(f, "drawingRels", n), anchors[i].rid,
                     IF anchors[i].kind = "pic" THEN "image" ELSE "chart")

\* A sheet's comments and the boxes they are shown in agree, whatever was
\* loaded, added and saved: GetComments finds the part that AddComment, which
\* goes by the number of the VML drawing, writes to; the cells with a box are
\* the cells with a text, and the texts of a part have no fewer boxes. There
\* may be more: a comment that is added after a save, or a second one on a
\* loaded sheet, has addDrawingVML repeat the shapes of the stored part
\* (comment.go:202-215).
NotesAgree ==
  \A s \in DOMAIN f.Sheet :
    LET n     == LegacyDrawingOf(f, s)
        notes == Content(f, "comments", n)
        boxes == Content(f, "vml", n)
    IN  n # 0 => /\ GetSheetComments(f, s) = n
                 /\ Range(boxes) = {notes[i].cell : i \in DOMAIN notes}
                 /\ Len(notes) <= Len(boxes)

\* No two sheets share a drawing or a comments part.
OwnParts ==
  \A s, t \in DOMAIN f.Sheet :
    s # t => /\ DrawingOf(f, s) # 0 => DrawingOf(f, s) # DrawingOf(f, t)
             /\ LegacyDrawingOf(f, s) # 0 => LegacyDrawingOf(f, s) # LegacyDrawingOf(f, t)

\* what is seen of an anchor of drawing n
Shown(n, a) ==
  [kind |-> a.kind, cell |-> a.cell,
   what |-> LET t == TargetByID(f, "drawingRels", n, a.rid)
            IN  CASE a.kind = "pic" -> <<f.XLSX["media"][t]>>
                  [] a.kind = "chart" -> <<f.XLSX["chart"][t]>>
                  [] OTHER -> << >>]

Objects(s) ==
  LET n == DrawingOf(f, s)
      c == Content(f, "drawing", n)
  IN  IF f.Sheet[s].drawing = 0 THEN << >> ELSE [i \in DOMAIN c |-> Shown(n, c[i])]

SeenOn(s) ==
  LET w    == f.Sheet[s]
      rels == Content(f, "sheetRels", s)
  IN  [objects |-> Objects(s),
       notes   |-> Content(f, "comments", GetSheetComments(f, s)),
       tables  |-> [i \in DOMAIN w.tableParts |->
                      f.XLSX["table"][rels[w.tableParts[i]].target]],
       back    |-> IF w.picture = 0 THEN << >>
                   ELSE <<f.XLSX["media"][rels[w.picture].target]>>]

\* GetPicture answers with a picture that was put on the cell, and with none
\* only if there is none, whether the drawing is parsed, stored or both.
PicturesRead ==
  \A s \in DOMAIN f.Sheet, cell \in Cells :
    LET n    == DrawingOf(f, s)
        seen == Objects(s)
        pics == {seen[i].what : i \in {j \in DOMAIN seen : /\ seen[j].kind = "pic"
                                                          /\ seen[j].cell = cell}}
        rid  == PictureRID(f, n, cell)
    IN  f.Sheet[s].drawing # 0 =>
          IF rid = 0 THEN pics = {}
          ELSE <<f.XLSX["media"][TargetByID(f, "drawingRels", n, rid)]>> \in pics

\* The abstract gallery: what each sheet shows.
Abstract == INSTANCE Gallery
  WITH sheets <- [s \in DOMAIN f.Sheet |-> SeenOn(s)]

\* Every call adds its object to its own sheet and changes nothing else on any
\* sheet, whatever part numbers and relationships it is given, and neither
\* reading nor saving nor opening changes anything.
ImplementsGallery == Abstract!Spec
=============================================================================
