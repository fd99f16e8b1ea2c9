---------------------------- MODULE PackageProofs ----------------------------
(***************************************************************************)
(* Proofs about module Package: for every set of cells, images, charts,    *)
(* tables and texts and every bound on sheets.                             *)
(*                                                                         *)
(* A call makes relationships before the parts they lead to, so that in    *)
(* the middle of it references lead nowhere.  The invariant therefore      *)
(* takes a set P of parts that are promised; between calls P is empty.     *)
(***************************************************************************)
EXTENDS Package, NaturalsInduction, WellFoundedInduction, FiniteSetTheorems, SequenceTheorems, TLAPS

-----------------------------------------------------------------------------
(* The shape of a File.                                                    *)

Number == Nat \ {0}
Holds(parts, kind) == DOMAIN parts \subseteq Number /\ parts \in [DOMAIN parts -> PartType(kind)]

IsSheets(w) == /\ w \in [DOMAIN w -> Worksheets]
               /\ DOMAIN w \subseteq 1..MaxSheet /\ DOMAIN w # {}
IsStored(x) == x = [k \in Stored |-> x[k]] /\ \A k \in Stored : Holds(x[k], k)
IsParsed(c) == c = [k \in Parsed |-> c[k]] /\ \A k \in Parsed : Holds(c[k], k)

OverrideKinds == {"chart", "comments", "drawing", "table"}

IsFile(b) ==
  /\ b = [Sheet |-> b.Sheet, XLSX |-> b.XLSX, Cache |-> b.Cache,
          DecodeVMLDrawing |-> b.DecodeVMLDrawing,
          Overrides |-> b.Overrides, Defaults |-> b.Defaults]
  /\ IsSheets(b.Sheet) /\ IsStored(b.XLSX) /\ IsParsed(b.Cache)
  /\ Holds(b.DecodeVMLDrawing, "vml")
  /\ b.Overrides \subseteq OverrideKinds \X Number
  /\ b.Defaults \subseteq {"image", "vml"}

PartsOf(b, kind) == IF kind \in Parsed THEN DOMAIN b.XLSX[kind] \cup DOMAIN b.Cache[kind]
                    ELSE DOMAIN b.XLSX[kind]

-----------------------------------------------------------------------------
(* The invariant.                                                          *)

\* the part is promised, or it is there and has a content type
Known(b, P, type, t) ==
  \/ <<type, t>> \in P
  \/ type = "image" /\ "image" \in b.Defaults /\ t \in PartsOf(b, "media")
  \/ type = "vml" /\ "vml" \in b.Defaults /\ t \in PartsOf(b, "vml")
  \/ type \in OverrideKinds /\ <<type, t>> \in b.Overrides /\ t \in PartsOf(b, type)

LeadsTo(b, P, rels, rid, type) ==
  rid \in DOMAIN rels /\ rels[rid].type = type /\ Known(b, P, type, rels[rid].target)

\* the references of one sheet; its comments are the only ones it mentions
SheetOK(b, P, w, rels) ==
  /\ w.drawing # 0 => LeadsTo(b, P, rels, w.drawing, "drawing")
  /\ w.legacyDrawing # 0 =>
       /\ LeadsTo(b, P, rels, w.legacyDrawing, "vml")
       /\ LeadsTo(b, P, rels, w.legacyDrawing + 1, "comments")
       /\ rels[w.legacyDrawing + 1].target = rels[w.legacyDrawing].target
  /\ \A i \in DOMAIN rels : rels[i].type = "comments" =>
       w.legacyDrawing # 0 /\ i = w.legacyDrawing + 1
  /\ w.picture # 0 => LeadsTo(b, P, rels, w.picture, "image")
  /\ \A i \in DOMAIN w.tableParts : LeadsTo(b, P, rels, w.tableParts[i], "table")

SheetsOK(b, P) ==
  \A s \in DOMAIN b.Sheet : SheetOK(b, P, b.Sheet[s], Content(b, "sheetRels", s))

\* relationships left behind by a sheet that was deleted mention no comments
NoNotes(rels) == \A i \in DOMAIN rels : rels[i].type # "comments"
LeftOK(b) == \A s \in Number \ DOMAIN b.Sheet : NoNotes(Content(b, "sheetRels", s))

\* pictures and charts lead to media and chart parts
AnchorOK(b, P, rels, a) ==
  /\ a.kind = "pic" => LeadsTo(b, P, rels, a.rid, "image")
  /\ a.kind = "chart" => LeadsTo(b, P, rels, a.rid, "chart")
DrawingOK(b, P, c, rels) == \A i \in DOMAIN c : AnchorOK(b, P, rels, c[i])
DrawingsOK(b, P) ==
  \A n \in PartsOf(b, "drawing") :
    DrawingOK(b, P, Content(b, "drawing", n), Content(b, "drawingRels", n))

\* the anchors that a parsed drawing keeps as text are those of the package,
\* and what the package has is the beginning of what is parsed
Alike(x, y) == x.kind = y.kind /\ x.cell = y.cell /\ x.rid = y.rid
Begins(x, c) == Len(x) <= Len(c) /\ \A i \in DOMAIN x : Alike(x[i], c[i])
NoText(x) == \A i \in DOMAIN x : ~x[i].raw
TextWithin(c, m) == \A i \in DOMAIN c : c[i].raw => i <= m
KeptOK(x, c) ==
  /\ \A n \in DOMAIN x : NoText(x[n])
  /\ \A n \in DOMAIN c \ DOMAIN x : NoText(c[n])
  /\ \A n \in DOMAIN c \cap DOMAIN x : Begins(x[n], c[n]) /\ TextWithin(c[n], Len(x[n]))

\* every comments part has its VML drawing, with boxes for its cells
Boxes(v, notes) == /\ Range(v) = {notes[i].cell : i \in DOMAIN notes}
                   /\ Len(notes) <= Len(v)
NotesOK(b) ==
  /\ PartsOf(b, "vml") = PartsOf(b, "comments")
  /\ \A n \in PartsOf(b, "comments") : Boxes(Content(b, "vml", n), Content(b, "comments", n))

\* a VML drawing is decoded when its shapes are added to; what is stored (x)
\* and what was decoded (e) has no box that the changed one (c) does not have
BoxesKept(x, c, e) ==
  /\ DOMAIN e \subseteq DOMAIN x /\ DOMAIN e \subseteq DOMAIN c
  /\ \A n \in DOMAIN x \cap DOMAIN c : Range(x[n]) \subseteq Range(c[n])
  /\ \A n \in DOMAIN e : Range(e[n]) \subseteq Range(c[n])
DecodedOK(b) == BoxesKept(b.XLSX["vml"], b.Cache["vml"], b.DecodeVMLDrawing)

\* parts are numbered without a gap
UpTo(S) == \E m \in Nat : S = 1..m
NumberedOK(b) == \A k \in {"chart", "media", "table", "drawing", "comments"} : UpTo(PartsOf(b, k))

\* no two sheets share a drawing or comments
OwnOK(b) ==
  \A s, t \in DOMAIN b.Sheet :
    s # t => /\ DrawingOf(b, s) # 0 => DrawingOf(b, s) # DrawingOf(b, t)
             /\ LegacyDrawingOf(b, s) # 0 => LegacyDrawingOf(b, s) # LegacyDrawingOf(b, t)

FileInv(b, P) ==
  /\ IsFile(b) /\ SheetsOK(b, P) /\ LeftOK(b) /\ DrawingsOK(b, P)
  /\ KeptOK(b.XLSX["drawing"], b.Cache["drawing"])
  /\ NotesOK(b) /\ DecodedOK(b) /\ NumberedOK(b) /\ OwnOK(b)

PackageInv == FileInv(f, {}) /\ panicked = FALSE

-----------------------------------------------------------------------------
(* Writing parts.                                                          *)

\* q is p with x at n
IsPut(q, p, n, x) ==
  /\ DOMAIN q = DOMAIN p \cup {n} /\ q[n] = x
  /\ \A m \in DOMAIN p : m # n => q[m] = p[m]
  /\ q = [m \in DOMAIN q |-> q[m]]

LEMMA PutIs ==
  ASSUME NEW p, NEW n, NEW x
  PROVE  IsPut(Put(p, n, x), p, n, x)
  BY DEF Put, IsPut

LEMMA PutHolds ==
  ASSUME NEW p, NEW kind, Holds(p, kind), NEW n \in Number, NEW x \in PartType(kind)
  PROVE  Holds(Put(p, n, x), kind)
  <1> DEFINE q == Put(p, n, x)
             T == PartType(kind)
  <1>1. /\ DOMAIN q = DOMAIN p \cup {n} /\ q[n] = x /\ \A m \in DOMAIN p : m # n => q[m] = p[m]
        /\ q = [m \in DOMAIN q |-> q[m]]
    <2>1. IsPut(q, p, n, x)
      BY PutIs
    <2> QED
      BY <2>1, Zenon DEF IsPut
  <1>2. DOMAIN p \subseteq Number /\ \A m \in DOMAIN p : p[m] \in T
    BY DEF Holds
  <1> HIDE DEF q, T
  <1>3. \A m \in DOMAIN q : q[m] \in T
    BY <1>1, <1>2 DEF T
  <1>4. q \in [DOMAIN q -> T]
    BY <1>1, <1>3
  <1> QED
    BY <1>1, <1>2, <1>4 DEF Holds, q, T

LEMMA FileFields ==
  ASSUME NEW b, IsFile(b)
  PROVE  /\ IsSheets(b.Sheet) /\ IsStored(b.XLSX) /\ IsParsed(b.Cache)
         /\ Holds(b.DecodeVMLDrawing, "vml")
         /\ b.Overrides \subseteq OverrideKinds \X Number
         /\ b.Defaults \subseteq {"image", "vml"}
         /\ \A k \in Stored : Holds(b.XLSX[k], k)
         /\ \A k \in Parsed : Holds(b.Cache[k], k)
  BY DEF IsFile, IsStored, IsParsed

\* b with other parsed parts
LEMMA CacheSet ==
  ASSUME NEW b, IsFile(b), NEW c, IsParsed(c), NEW d, d = [b EXCEPT !.Cache = c]
  PROVE  /\ IsFile(d) /\ d.Cache = c /\ d.Sheet = b.Sheet /\ d.XLSX = b.XLSX
         /\ d.DecodeVMLDrawing = b.DecodeVMLDrawing
         /\ d.Overrides = b.Overrides /\ d.Defaults = b.Defaults
  <1>1. d = [Sheet |-> b.Sheet, XLSX |-> b.XLSX, Cache |-> c,
             DecodeVMLDrawing |-> b.DecodeVMLDrawing,
             Overrides |-> b.Overrides, Defaults |-> b.Defaults]
    BY DEF IsFile
  <1>2. /\ d.Cache = c /\ d.Sheet = b.Sheet /\ d.XLSX = b.XLSX
        /\ d.DecodeVMLDrawing = b.DecodeVMLDrawing
        /\ d.Overrides = b.Overrides /\ d.Defaults = b.Defaults
    BY <1>1
  <1> QED
    BY <1>1, <1>2, FileFields DEF IsFile

LEMMA XLSXSet ==
  ASSUME NEW b, IsFile(b), NEW x, IsStored(x), NEW d, d = [b EXCEPT !.XLSX = x]
  PROVE  /\ IsFile(d) /\ d.XLSX = x /\ d.Sheet = b.Sheet /\ d.Cache = b.Cache
         /\ d.DecodeVMLDrawing = b.DecodeVMLDrawing
         /\ d.Overrides = b.Overrides /\ d.Defaults = b.Defaults
  <1>1. d = [Sheet |-> b.Sheet, XLSX |-> x, Cache |-> b.Cache,
             DecodeVMLDrawing |-> b.DecodeVMLDrawing,
             Overrides |-> b.Overrides, Defaults |-> b.Defaults]
    BY DEF IsFile
  <1>2. /\ d.XLSX = x /\ d.Sheet = b.Sheet /\ d.Cache = b.Cache
        /\ d.DecodeVMLDrawing = b.DecodeVMLDrawing
        /\ d.Overrides = b.Overrides /\ d.Defaults = b.Defaults
    BY <1>1
  <1> QED
    BY <1>1, <1>2, FileFields DEF IsFile

LEMMA SheetSet ==
  ASSUME NEW b, IsFile(b), NEW w, IsSheets(w), NEW d, d = [b EXCEPT !.Sheet = w]
  PROVE  /\ IsFile(d) /\ d.Sheet = w /\ d.XLSX = b.XLSX /\ d.Cache = b.Cache
         /\ d.DecodeVMLDrawing = b.DecodeVMLDrawing
         /\ d.Overrides = b.Overrides /\ d.Defaults = b.Defaults
  <1>1. d = [Sheet |-> w, XLSX |-> b.XLSX, Cache |-> b.Cache,
             DecodeVMLDrawing |-> b.DecodeVMLDrawing,
             Overrides |-> b.Overrides, Defaults |-> b.Defaults]
    BY DEF IsFile
  <1>2. /\ d.Sheet = w /\ d.XLSX = b.XLSX /\ d.Cache = b.Cache
        /\ d.DecodeVMLDrawing = b.DecodeVMLDrawing
        /\ d.Overrides = b.Overrides /\ d.Defaults = b.Defaults
    BY <1>1
  <1> QED
    BY <1>1, <1>2, FileFields DEF IsFile

\* d is b but for the content x of part n of kind
Replaces(b, d, kind, n, x) ==
  /\ IsFile(d) /\ d.Sheet = b.Sheet /\ d.XLSX = b.XLSX
  /\ d.DecodeVMLDrawing = b.DecodeVMLDrawing
  /\ d.Overrides = b.Overrides /\ d.Defaults = b.Defaults
  /\ d.Cache[kind] = Put(b.Cache[kind], n, x)
  /\ \A k \in Parsed : k # kind => d.Cache[k] = b.Cache[k]

LEMMA PutCacheIs ==
  ASSUME NEW b, IsFile(b), NEW kind \in Parsed, NEW n \in Number, NEW x \in PartType(kind),
         NEW d, d = PutCache(b, kind, n, x)
  PROVE  Replaces(b, d, kind, n, x)
  <1> DEFINE p == Put(b.Cache[kind], n, x)
             c == [b.Cache EXCEPT ![kind] = p]
  <1>1. d = [b EXCEPT !.Cache = c]
    BY DEF PutCache
  <1>2. b.Cache = [k \in Parsed |-> b.Cache[k]] /\ \A k \in Parsed : Holds(b.Cache[k], k)
    BY FileFields DEF IsParsed
  <1>3. Holds(p, kind)
    BY <1>2, PutHolds
  <1> HIDE DEF p
  <1>4. /\ c = [k \in Parsed |-> c[k]] /\ c[kind] = p
        /\ \A k \in Parsed : k # kind => c[k] = b.Cache[k]
    BY <1>2
  <1> HIDE DEF c
  <1>5. IsParsed(c)
    BY <1>2, <1>3, <1>4 DEF IsParsed
  <1>6. /\ IsFile(d) /\ d.Cache = c /\ d.Sheet = b.Sheet /\ d.XLSX = b.XLSX
        /\ d.DecodeVMLDrawing = b.DecodeVMLDrawing
        /\ d.Overrides = b.Overrides /\ d.Defaults = b.Defaults
    BY <1>1, <1>5, CacheSet
  <1> QED
    BY <1>4, <1>6 DEF Replaces, p

\* what is seen of the parts
LEMMA ReplacesContent ==
  ASSUME NEW b, NEW d, NEW kind \in Parsed, NEW n, NEW x, Replaces(b, d, kind, n, x)
  PROVE  /\ Content(d, kind, n) = x
         /\ \A k \in Parsed : \A m : k # kind \/ m # n => Content(d, k, m) = Content(b, k, m)
         /\ PartsOf(d, kind) = PartsOf(b, kind) \cup {n}
         /\ \A k \in Stored : k # kind => PartsOf(d, k) = PartsOf(b, k)
  <1> DEFINE p == b.Cache[kind]
             q == d.Cache[kind]
  <1>1. q = Put(p, n, x) /\ d.XLSX = b.XLSX /\ \A k \in Parsed : k # kind => d.Cache[k] = b.Cache[k]
    BY DEF Replaces
  <1>2. /\ DOMAIN q = DOMAIN p \cup {n} /\ q[n] = x /\ \A m \in DOMAIN p : m # n => q[m] = p[m]
    <2>1. IsPut(q, p, n, x)
      BY <1>1, PutIs
    <2> QED
      BY <2>1 DEF IsPut
  <1>3. Content(d, kind, n) = x
    BY <1>2 DEF Content
  <1>4. ASSUME NEW k \in Parsed, NEW m, k # kind \/ m # n PROVE Content(d, k, m) = Content(b, k, m)
    <2>1. CASE k # kind
      BY <1>1, <2>1 DEF Content
    <2>2. CASE k = kind /\ m # n
      BY <1>1, <1>2, <2>2 DEF Content
    <2> QED
      BY <1>4, <2>1, <2>2
  <1>5. PartsOf(d, kind) = PartsOf(b, kind) \cup {n}
    BY <1>1, <1>2 DEF PartsOf
  <1>6. \A k \in Stored : k # kind => PartsOf(d, k) = PartsOf(b, k)
    BY <1>1 DEF PartsOf
  <1> QED
    BY <1>3, <1>4, <1>5, <1>6

LEMMA ReplacesOne ==
  ASSUME NEW b, NEW d, NEW kind, kind \in Parsed, NEW n, NEW x, Replaces(b, d, kind, n, x)
  PROVE  Content(d, kind, n) = x /\ \A m : m # n => Content(d, kind, m) = Content(b, kind, m)
  <1> DEFINE p == b.Cache[kind]
             q == d.Cache[kind]
  <1>1. q = Put(p, n, x) /\ d.XLSX = b.XLSX
    BY DEF Replaces
  <1>2. IsPut(q, p, n, x)
    BY <1>1, PutIs
  <1> QED
    BY <1>1, <1>2 DEF IsPut, Content

\* d is b with a part of the package
Stores(b, d, kind, n, x) ==
  /\ IsFile(d) /\ d.Sheet = b.Sheet /\ d.Cache = b.Cache
  /\ d.DecodeVMLDrawing = b.DecodeVMLDrawing
  /\ d.Overrides = b.Overrides /\ d.Defaults = b.Defaults
  /\ d.XLSX[kind] = Put(b.XLSX[kind], n, x)
  /\ \A k \in Stored : k # kind => d.XLSX[k] = b.XLSX[k]

LEMMA PutPartIs ==
  ASSUME NEW b, IsFile(b), NEW kind \in Stored, NEW n \in Number, NEW x \in PartType(kind),
         NEW d, d = PutPart(b, kind, n, x)
  PROVE  Stores(b, d, kind, n, x)
  <1> DEFINE p == Put(b.XLSX[kind], n, x)
             c == [b.XLSX EXCEPT ![kind] = p]
  <1>1. d = [b EXCEPT !.XLSX = c]
    BY DEF PutPart
  <1>2. b.XLSX = [k \in Stored |-> b.XLSX[k]] /\ \A k \in Stored : Holds(b.XLSX[k], k)
    BY FileFields DEF IsStored
  <1>3. Holds(p, kind)
    BY <1>2, PutHolds
  <1> HIDE DEF p
  <1>4. /\ c = [k \in Stored |-> c[k]] /\ c[kind] = p
        /\ \A k \in Stored : k # kind => c[k] = b.XLSX[k]
    BY <1>2
  <1> HIDE DEF c
  <1>5. IsStored(c)
    BY <1>2, <1>3, <1>4 DEF IsStored
  <1>6. /\ IsFile(d) /\ d.XLSX = c /\ d.Sheet = b.Sheet /\ d.Cache = b.Cache
        /\ d.DecodeVMLDrawing = b.DecodeVMLDrawing
        /\ d.Overrides = b.Overrides /\ d.Defaults = b.Defaults
    BY <1>1, <1>5, XLSXSet
  <1> QED
    BY <1>4, <1>6 DEF Stores, p

-----------------------------------------------------------------------------
(* Files that grow.                                                        *)

LEMMA PartTypeIs ==
  /\ PartType("sheetRels") = Seq(Rels) /\ PartType("drawingRels") = Seq(Rels)
  /\ PartType("drawing") = Seq(Anchors) /\ PartType("comments") = Seq(Notes)
  /\ PartType("vml") = Seq(Cells) /\ PartType("media") = Images
  /\ PartType("chart") = Charts /\ PartType("table") = Tables
  BY DEF PartType

LEMMA ContentType ==
  ASSUME NEW b, IsFile(b), NEW kind \in Parsed, NEW n
  PROVE  Content(b, kind, n) \in PartType(kind)
  <1>1. Holds(b.Cache[kind], kind) /\ Holds(b.XLSX[kind], kind)
    BY FileFields DEF Parsed, Stored
  <1>2. << >> \in PartType(kind)
    <2>1. /\ << >> \in Seq(Rels) /\ << >> \in Seq(Anchors)
          /\ << >> \in Seq(Notes) /\ << >> \in Seq(Cells)
      OBVIOUS
    <2> QED
      BY <2>1, PartTypeIs DEF Parsed
  <1> QED
    BY <1>1, <1>2 DEF Content, Holds

Grows(b, d) == /\ b.Overrides \subseteq d.Overrides /\ b.Defaults \subseteq d.Defaults
               /\ \A k \in Stored \ {"sheetRels"} : PartsOf(b, k) \subseteq PartsOf(d, k)
Continues(r, q) == DOMAIN r \subseteq DOMAIN q /\ \A i \in DOMAIN r : q[i] = r[i]

LEMMA KnownGrows ==
  ASSUME NEW b, NEW d, Grows(b, d), NEW P, NEW Q, P \subseteq Q, NEW type, NEW t,
         Known(b, P, type, t)
  PROVE  Known(d, Q, type, t)
  <1> DEFINE K == Stored \ {"sheetRels"}
  <1>1. OverrideKinds \subseteq K /\ "media" \in K /\ "vml" \in K
    BY DEF OverrideKinds, Stored, Parsed
  <1> QED
    BY <1>1 DEF Known, Grows

LEMMA LeadsGrows ==
  ASSUME NEW b, NEW d, Grows(b, d), NEW P, NEW Q, P \subseteq Q, NEW r, NEW q, Continues(r, q),
         NEW rid, NEW type, LeadsTo(b, P, r, rid, type)
  PROVE  LeadsTo(d, Q, q, rid, type)
  BY KnownGrows DEF LeadsTo, Continues

\* nothing that follows mentions comments
Quietly(r, q) == \A i \in DOMAIN q \ DOMAIN r : q[i].type # "comments"

LEMMA SheetGrows ==
  ASSUME NEW b, NEW d, Grows(b, d), NEW P, NEW Q, P \subseteq Q, NEW w, NEW r, NEW q,
         Continues(r, q), Quietly(r, q), SheetOK(b, P, w, r)
  PROVE  SheetOK(d, Q, w, q)
  <1>1. \A rid, type : LeadsTo(b, P, r, rid, type) => LeadsTo(d, Q, q, rid, type)
    BY LeadsGrows
  <1>2. ASSUME w.legacyDrawing # 0
        PROVE  q[w.legacyDrawing + 1].target = q[w.legacyDrawing].target
    BY <1>2 DEF SheetOK, LeadsTo, Continues
  <1>3. \A i \in DOMAIN q : q[i].type = "comments" => w.legacyDrawing # 0 /\ i = w.legacyDrawing + 1
    BY DEF SheetOK, Continues, Quietly
  <1> QED
    BY <1>1, <1>2, <1>3, Zenon DEF SheetOK

LEMMA DrawingGrows ==
  ASSUME NEW b, NEW d, Grows(b, d), NEW P, NEW Q, P \subseteq Q, NEW c, NEW r, NEW q,
         Continues(r, q), DrawingOK(b, P, c, r)
  PROVE  DrawingOK(d, Q, c, q)
  <1>1. \A rid, type : LeadsTo(b, P, r, rid, type) => LeadsTo(d, Q, q, rid, type)
    BY LeadsGrows
  <1> QED
    BY <1>1, Zenon DEF DrawingOK, AnchorOK

LEMMA ContinuesSelf ==
  ASSUME NEW r
  PROVE  Continues(r, r) /\ Quietly(r, r)
  BY DEF Continues, Quietly

LEMMA ContinuesAppend ==
  ASSUME NEW r \in Seq(Rels), NEW x \in Rels
  PROVE  /\ Append(r, x) \in Seq(Rels) /\ Len(Append(r, x)) = Len(r) + 1
         /\ Len(r) \in Nat /\ Append(r, x)[Len(r) + 1] = x
         /\ DOMAIN Append(r, x) = DOMAIN r \cup {Len(r) + 1} /\ Len(r) + 1 \notin DOMAIN r
         /\ Continues(r, Append(r, x))
         /\ x.type # "comments" => Quietly(r, Append(r, x))
  <1>1. Append(r, x) \in Seq(Rels) /\ Len(Append(r, x)) = Len(r) + 1 /\ Len(r) \in Nat
    OBVIOUS
  <1>2. DOMAIN Append(r, x) = 1..(Len(r) + 1) /\ DOMAIN r = 1..Len(r)
    BY <1>1
  <1>3. Append(r, x)[Len(r) + 1] = x /\ \A i \in 1..Len(r) : Append(r, x)[i] = r[i]
    OBVIOUS
  <1>4. DOMAIN Append(r, x) = DOMAIN r \cup {Len(r) + 1} /\ Len(r) + 1 \notin DOMAIN r
    BY <1>1, <1>2
  <1> QED
    BY <1>1, <1>2, <1>3, <1>4 DEF Continues, Quietly

\* what a change of one kind of part leaves alone
LEMMA OtherKinds ==
  ASSUME NEW b, NEW P, FileInv(b, P), NEW d, NEW kind \in Parsed, NEW n, NEW x,
         Replaces(b, d, kind, n, x)
  PROVE  /\ Grows(b, d) /\ IsFile(d)
         /\ kind # "sheetRels" => SheetsOK(d, P) /\ LeftOK(d) /\ OwnOK(d)
         /\ kind \notin {"drawing", "drawingRels"} => DrawingsOK(d, P)
         /\ kind # "drawing" => KeptOK(d.XLSX["drawing"], d.Cache["drawing"])
         /\ kind \notin {"vml", "comments"} => NotesOK(d)
         /\ kind # "vml" => DecodedOK(d)
         /\ kind \notin {"drawing", "comments"} => NumberedOK(d)
  <1>1. /\ IsFile(b) /\ SheetsOK(b, P) /\ LeftOK(b) /\ DrawingsOK(b, P) /\ OwnOK(b)
        /\ KeptOK(b.XLSX["drawing"], b.Cache["drawing"])
        /\ NotesOK(b) /\ DecodedOK(b) /\ NumberedOK(b)
    BY DEF FileInv
  <1>2. /\ \A k \in Parsed : \A m : k # kind \/ m # n => Content(d, k, m) = Content(b, k, m)
        /\ PartsOf(d, kind) = PartsOf(b, kind) \cup {n}
        /\ \A k \in Stored : k # kind => PartsOf(d, k) = PartsOf(b, k)
    BY ReplacesContent
  <1>3. /\ IsFile(d) /\ d.Sheet = b.Sheet /\ d.XLSX = b.XLSX
        /\ d.DecodeVMLDrawing = b.DecodeVMLDrawing
        /\ d.Overrides = b.Overrides /\ d.Defaults = b.Defaults
        /\ d.Cache[kind] = Put(b.Cache[kind], n, x)
        /\ \A k \in Parsed : k # kind => d.Cache[k] = b.Cache[k]
    BY DEF Replaces
  <1>4. Grows(b, d)
    BY <1>2, <1>3 DEF Grows
  <1>5. ASSUME kind # "sheetRels" PROVE SheetsOK(d, P) /\ LeftOK(d) /\ OwnOK(d)
    <2>1. \A s : Content(d, "sheetRels", s) = Content(b, "sheetRels", s)
      BY <1>2, <1>5 DEF Parsed
    <2>2. SheetsOK(d, P)
      BY <1>1, <1>3, <1>4, <2>1, SheetGrows, ContinuesSelf DEF SheetsOK
    <2>3. LeftOK(d)
      BY <1>1, <1>3, <2>1 DEF LeftOK
    <2>4. \A s : DrawingOf(d, s) = DrawingOf(b, s) /\ LegacyDrawingOf(d, s) = LegacyDrawingOf(b, s)
      BY <1>3, <2>1 DEF DrawingOf, LegacyDrawingOf, GetSheetRelationshipsTargetByID, TargetByID
    <2>5. OwnOK(d)
      BY <1>1, <1>3, <2>4 DEF OwnOK
    <2> QED
      BY <2>2, <2>3, <2>5
  <1>6. ASSUME kind \notin {"drawing", "drawingRels"} PROVE DrawingsOK(d, P)
    <2>1. \A m : /\ Content(d, "drawing", m) = Content(b, "drawing", m)
                 /\ Content(d, "drawingRels", m) = Content(b, "drawingRels", m)
      BY <1>2, <1>6 DEF Parsed
    <2>2. PartsOf(d, "drawing") = PartsOf(b, "drawing")
      BY <1>2, <1>6 DEF Stored, Parsed
    <2> QED
      BY <1>1, <1>4, <2>1, <2>2, DrawingGrows, ContinuesSelf DEF DrawingsOK
  <1>7. ASSUME kind # "drawing" PROVE KeptOK(d.XLSX["drawing"], d.Cache["drawing"])
    BY <1>1, <1>3, <1>7 DEF Parsed
  <1>8. ASSUME kind \notin {"vml", "comments"} PROVE NotesOK(d)
    <2>1. \A m : /\ Content(d, "vml", m) = Content(b, "vml", m)
                 /\ Content(d, "comments", m) = Content(b, "comments", m)
      BY <1>2, <1>8 DEF Parsed
    <2>2. PartsOf(d, "vml") = PartsOf(b, "vml") /\ PartsOf(d, "comments") = PartsOf(b, "comments")
      BY <1>2, <1>8 DEF Stored, Parsed
    <2> QED
      BY <1>1, <2>1, <2>2 DEF NotesOK
  <1>9. ASSUME kind # "vml" PROVE DecodedOK(d)
    <2>1. d.Cache["vml"] = b.Cache["vml"]
      BY <1>3, <1>9 DEF Parsed
    <2> QED
      BY <1>1, <1>3, <2>1 DEF DecodedOK
  <1>10. ASSUME kind \notin {"drawing", "comments"} PROVE NumberedOK(d)
    <2>1. \A k \in {"chart", "media", "table", "drawing", "comments"} : PartsOf(d, k) = PartsOf(b, k)
      BY <1>2, <1>10 DEF Stored, Parsed
    <2> QED
      BY <1>1, <2>1 DEF NumberedOK
  <1> QED
    BY <1>3, <1>4, <1>5, <1>6, <1>7, <1>8, <1>9, <1>10

-----------------------------------------------------------------------------
(* The relationships and references of a sheet.                            *)

Ref(rels, rid) == IF rid \in DOMAIN rels THEN rels[rid].target ELSE 0

LEMMA RefIs ==
  ASSUME NEW b, NEW s
  PROVE  /\ DrawingOf(b, s) = Ref(Content(b, "sheetRels", s), b.Sheet[s].drawing)
         /\ LegacyDrawingOf(b, s) = Ref(Content(b, "sheetRels", s), b.Sheet[s].legacyDrawing)
  BY DEF DrawingOf, LegacyDrawingOf, GetSheetRelationshipsTargetByID, TargetByID, Ref

\* a reference that leads somewhere, or none, is the same further on
LEMMA RefContinues ==
  ASSUME NEW r \in Seq(Rels), NEW q \in Seq(Rels), Continues(r, q), NEW rid,
         rid = 0 \/ rid \in DOMAIN r
  PROVE  Ref(q, rid) = Ref(r, rid)
  <1>1. 0 \notin DOMAIN r /\ 0 \notin DOMAIN q
    OBVIOUS
  <1> QED
    BY <1>1 DEF Ref, Continues

LEMMA SheetRefs ==
  ASSUME NEW b, NEW P, NEW w, NEW r, SheetOK(b, P, w, r)
  PROVE  /\ w.drawing = 0 \/ w.drawing \in DOMAIN r
         /\ w.legacyDrawing = 0 \/ w.legacyDrawing \in DOMAIN r
  BY DEF SheetOK, LeadsTo

LEMMA SheetRelsType ==
  ASSUME NEW b, IsFile(b), NEW s
  PROVE  Content(b, "sheetRels", s) \in Seq(Rels)
  BY ContentType, PartTypeIs DEF Parsed

RelTypes == {"drawing", "vml", "comments", "table", "image", "chart", "hyperlink"}
RelOf(type, target) == [type |-> type, target |-> target]

\* addSheetRelationships, for anything but comments
LEMMA SheetRelAdded ==
  ASSUME NEW b, NEW P, FileInv(b, P), NEW s \in DOMAIN b.Sheet,
         NEW type \in RelTypes, type # "comments", NEW t \in Number,
         NEW d, d = AddSheetRelationships(b, s, type, t)
  PROVE  /\ FileInv(d, P)
         /\ Replaces(b, d, "sheetRels", s, Append(Content(b, "sheetRels", s), RelOf(type, t)))
  <1> DEFINE r == Content(b, "sheetRels", s)
             x == RelOf(type, t)
             q == Append(r, x)
  <1>1. IsFile(b) /\ SheetsOK(b, P) /\ LeftOK(b) /\ OwnOK(b)
    BY DEF FileInv
  <1>2. r \in Seq(Rels) /\ x \in Rels /\ x.type # "comments"
    BY <1>1, SheetRelsType DEF RelOf, Rels, RelTypes, Number
  <1>3. d = PutCache(b, "sheetRels", s, q)
    BY DEF AddSheetRelationships, AddRelationship, RelOf
  <1>4. s \in Number /\ b.Sheet[s] \in Worksheets
    BY <1>1, FileFields, PackageAssumption DEF IsSheets, Number
  <1> HIDE DEF x
  <1>5. q \in Seq(Rels) /\ Continues(r, q) /\ Quietly(r, q)
    BY <1>2, ContinuesAppend
  <1> HIDE DEF r, q
  <1>6. Replaces(b, d, "sheetRels", s, q)
    BY <1>1, <1>3, <1>4, <1>5, PutCacheIs, PartTypeIs DEF Parsed
  <1>7. /\ Grows(b, d) /\ IsFile(d) /\ DrawingsOK(d, P) /\ NotesOK(d) /\ DecodedOK(d) /\ NumberedOK(d)
        /\ KeptOK(d.XLSX["drawing"], d.Cache["drawing"])
    BY <1>6, OtherKinds DEF Parsed
  <1>8. d.Sheet = b.Sheet /\ Content(d, "sheetRels", s) = q
        /\ \A u : u # s => Content(d, "sheetRels", u) = Content(b, "sheetRels", u)
    <2> DEFINE kind == "sheetRels"
    <2>1. kind \in Parsed /\ Replaces(b, d, kind, s, q)
      BY <1>6 DEF Parsed
    <2> HIDE DEF kind
    <2>3. Content(d, kind, s) = q /\ \A m : m # s => Content(d, kind, m) = Content(b, kind, m)
      BY <2>1, ReplacesOne
    <2>4. d.Sheet = b.Sheet
      BY <1>6 DEF Replaces
    <2> QED
      BY <2>3, <2>4 DEF kind
  <1>9. SheetsOK(d, P)
    <2> SUFFICES ASSUME NEW u \in DOMAIN b.Sheet
                 PROVE  SheetOK(d, P, b.Sheet[u], Content(d, "sheetRels", u))
      BY <1>8 DEF SheetsOK
    <2>1. SheetOK(b, P, b.Sheet[u], Content(b, "sheetRels", u))
      BY <1>1 DEF SheetsOK
    <2>2. CASE u = s
      BY <1>5, <1>7, <1>8, <2>1, <2>2, SheetGrows DEF r
    <2>3. CASE u # s
      BY <1>7, <1>8, <2>1, <2>3, SheetGrows, ContinuesSelf
    <2> QED
      BY <2>2, <2>3
  <1>10. LeftOK(d)
    BY <1>1, <1>8 DEF LeftOK
  <1>11. \A u \in DOMAIN b.Sheet : /\ DrawingOf(d, u) = DrawingOf(b, u)
                                   /\ LegacyDrawingOf(d, u) = LegacyDrawingOf(b, u)
    <2> TAKE u \in DOMAIN b.Sheet
    <2>1. CASE u = s
      <3> DEFINE w == b.Sheet[s]
      <3>1. /\ w.drawing = 0 \/ w.drawing \in DOMAIN r
            /\ w.legacyDrawing = 0 \/ w.legacyDrawing \in DOMAIN r
        BY <1>1, SheetRefs DEF SheetsOK, r
      <3>2. Ref(q, w.drawing) = Ref(r, w.drawing) /\ Ref(q, w.legacyDrawing) = Ref(r, w.legacyDrawing)
        BY <1>2, <1>5, <3>1, RefContinues
      <3> QED
        BY <1>8, <2>1, <3>2, RefIs DEF r
    <2>2. CASE u # s
      BY <1>8, <2>2, RefIs
    <2> QED
      BY <2>1, <2>2
  <1>12. OwnOK(d)
    BY <1>1, <1>8, <1>11 DEF OwnOK
  <1> QED
    BY <1>6, <1>7, <1>9, <1>10, <1>12 DEF FileInv, q, r, x

\* a sheet with other references: d is b with w for sheet s
Edits(b, d, s, w) ==
  /\ d.Sheet = [b.Sheet EXCEPT ![s] = w] /\ IsFile(d) /\ d.XLSX = b.XLSX /\ d.Cache = b.Cache
  /\ d.DecodeVMLDrawing = b.DecodeVMLDrawing
  /\ d.Overrides = b.Overrides /\ d.Defaults = b.Defaults

LEMMA EditIs ==
  ASSUME NEW b, IsFile(b), NEW s \in DOMAIN b.Sheet, NEW w \in Worksheets,
         NEW v, v = [b.Sheet EXCEPT ![s] = w], NEW d, d = [b EXCEPT !.Sheet = v]
  PROVE  /\ Edits(b, d, s, w) /\ DOMAIN d.Sheet = DOMAIN b.Sheet /\ d.Sheet[s] = w
         /\ \A u \in DOMAIN b.Sheet : u # s => d.Sheet[u] = b.Sheet[u]
         /\ \A k, m : Content(d, k, m) = Content(b, k, m)
         /\ \A k : PartsOf(d, k) = PartsOf(b, k)
  <1>1. IsSheets(b.Sheet)
    BY FileFields
  <1>2. /\ DOMAIN v = DOMAIN b.Sheet /\ v[s] = w
        /\ \A u \in DOMAIN b.Sheet : u # s => v[u] = b.Sheet[u]
        /\ v \in [DOMAIN b.Sheet -> Worksheets]
    BY <1>1 DEF IsSheets
  <1>3. IsSheets(v)
    BY <1>1, <1>2 DEF IsSheets
  <1>4. /\ IsFile(d) /\ d.Sheet = v /\ d.XLSX = b.XLSX /\ d.Cache = b.Cache
        /\ d.DecodeVMLDrawing = b.DecodeVMLDrawing
        /\ d.Overrides = b.Overrides /\ d.Defaults = b.Defaults
    BY <1>3, SheetSet
  <1> QED
    BY <1>2, <1>4 DEF Edits, Content, PartsOf

\* the parts that w and its relationships q refer to are no other sheet's
Apart(b, s, w, q) ==
  \A u \in DOMAIN b.Sheet :
    u # s => /\ Ref(q, w.drawing) # 0 => Ref(q, w.drawing) # DrawingOf(b, u)
             /\ Ref(q, w.legacyDrawing) # 0 => Ref(q, w.legacyDrawing) # LegacyDrawingOf(b, u)

\* a call gives a sheet relationships q and then references w to them
LEMMA SheetTurned ==
  ASSUME NEW b, NEW P, FileInv(b, P), NEW s \in DOMAIN b.Sheet, NEW q \in Seq(Rels),
         NEW c, Replaces(b, c, "sheetRels", s, q),
         NEW w \in Worksheets, NEW Q, P \subseteq Q, SheetOK(c, Q, w, q), Apart(b, s, w, q),
         NEW v, v = [c.Sheet EXCEPT ![s] = w], NEW d, d = [c EXCEPT !.Sheet = v]
  PROVE  /\ FileInv(d, Q) /\ Edits(c, d, s, w)
         /\ DrawingOf(d, s) = Ref(q, w.drawing)
         /\ LegacyDrawingOf(d, s) = Ref(q, w.legacyDrawing)
  <1>1. IsFile(b) /\ SheetsOK(b, P) /\ LeftOK(b) /\ OwnOK(b)
    BY DEF FileInv
  <1>2. /\ Grows(b, c) /\ IsFile(c) /\ DrawingsOK(c, P) /\ NotesOK(c) /\ DecodedOK(c) /\ NumberedOK(c)
        /\ KeptOK(c.XLSX["drawing"], c.Cache["drawing"])
    BY OtherKinds DEF Parsed
  <1>3. c.Sheet = b.Sheet
    BY DEF Replaces
  <1>4. /\ Edits(c, d, s, w) /\ DOMAIN d.Sheet = DOMAIN b.Sheet /\ d.Sheet[s] = w
        /\ \A u \in DOMAIN b.Sheet : u # s => d.Sheet[u] = b.Sheet[u]
        /\ \A k, m : Content(d, k, m) = Content(c, k, m)
        /\ \A k : PartsOf(d, k) = PartsOf(c, k)
    BY <1>2, <1>3, EditIs
  <1>5. /\ IsFile(d) /\ d.XLSX = c.XLSX /\ d.Cache = c.Cache
        /\ d.DecodeVMLDrawing = c.DecodeVMLDrawing
        /\ d.Overrides = c.Overrides /\ d.Defaults = c.Defaults
    BY <1>4 DEF Edits
  <1>6. Grows(c, d) /\ Grows(b, d)
    BY <1>2, <1>4, <1>5 DEF Grows
  <1>7. Content(d, "sheetRels", s) = q
        /\ \A u : u # s => Content(d, "sheetRels", u) = Content(b, "sheetRels", u)
    <2> DEFINE kind == "sheetRels"
    <2>1. kind \in Parsed /\ Replaces(b, c, kind, s, q)
      BY DEF Parsed
    <2> HIDE DEF kind
    <2>2. Content(c, kind, s) = q /\ \A m : m # s => Content(c, kind, m) = Content(b, kind, m)
      BY <2>1, ReplacesOne
    <2> QED
      BY <1>4, <2>2 DEF kind
  <1>8. SheetsOK(d, Q)
    <2> SUFFICES ASSUME NEW u \in DOMAIN b.Sheet
                 PROVE  SheetOK(d, Q, d.Sheet[u], Content(d, "sheetRels", u))
      BY <1>4 DEF SheetsOK
    <2>1. CASE u = s
      <3>1. SheetOK(d, Q, w, q)
        BY <1>6, SheetGrows, ContinuesSelf
      <3> QED
        BY <1>4, <1>7, <2>1, <3>1
    <2>2. CASE u # s
      <3>1. SheetOK(b, P, d.Sheet[u], Content(b, "sheetRels", u))
        BY <1>1, <1>4, <2>2 DEF SheetsOK
      <3>2. SheetOK(d, Q, d.Sheet[u], Content(b, "sheetRels", u))
        BY <1>6, <3>1, SheetGrows, ContinuesSelf
      <3> QED
        BY <1>7, <2>2, <3>2
    <2> QED
      BY <2>1, <2>2
  <1>9. LeftOK(d)
    BY <1>1, <1>4, <1>7 DEF LeftOK
  <1>10. DrawingsOK(d, Q)
    BY <1>2, <1>4, <1>6, DrawingGrows, ContinuesSelf DEF DrawingsOK
  <1>11. /\ DrawingOf(d, s) = Ref(q, w.drawing) /\ LegacyDrawingOf(d, s) = Ref(q, w.legacyDrawing)
         /\ \A u \in DOMAIN b.Sheet : u # s => /\ DrawingOf(d, u) = DrawingOf(b, u)
                                              /\ LegacyDrawingOf(d, u) = LegacyDrawingOf(b, u)
    <2>1. /\ Content(d, "sheetRels", s) = q /\ d.Sheet[s] = w
          /\ \A u : u # s => Content(d, "sheetRels", u) = Content(b, "sheetRels", u)
          /\ \A u \in DOMAIN b.Sheet : u # s => d.Sheet[u] = b.Sheet[u]
      BY <1>4, <1>7
    <2> QED
      BY <2>1 DEF DrawingOf, LegacyDrawingOf, GetSheetRelationshipsTargetByID, TargetByID, Ref
  <1>12. OwnOK(d)
    <2>1. \A u \in DOMAIN b.Sheet :
            u # s => /\ DrawingOf(d, s) # 0 => DrawingOf(d, s) # DrawingOf(d, u)
                     /\ LegacyDrawingOf(d, s) # 0 => LegacyDrawingOf(d, s) # LegacyDrawingOf(d, u)
      BY <1>11 DEF Apart
    <2>2. DOMAIN d.Sheet = DOMAIN b.Sheet
      BY <1>4
    <2> SUFFICES \A u, other \in DOMAIN d.Sheet :
                   u # other => /\ DrawingOf(d, u) # 0 => DrawingOf(d, u) # DrawingOf(d, other)
                                /\ LegacyDrawingOf(d, u) # 0 => LegacyDrawingOf(d, u) # LegacyDrawingOf(d, other)
      BY Zenon DEF OwnOK
    <2> TAKE u, other \in DOMAIN d.Sheet
    <2> HAVE u # other
    <2>a. u \in DOMAIN b.Sheet /\ other \in DOMAIN b.Sheet
      BY ONLY u \in DOMAIN d.Sheet, other \in DOMAIN d.Sheet, <2>2
    <2>3. CASE u = s
      BY <2>1, <2>3, <2>a, Zenon
    <2>4. CASE other = s
      BY <2>1, <2>4, <2>a, Zenon
    <2>5. CASE u # s /\ other # s
      <3>1. /\ DrawingOf(b, u) # 0 => DrawingOf(b, u) # DrawingOf(b, other)
            /\ LegacyDrawingOf(b, u) # 0 => LegacyDrawingOf(b, u) # LegacyDrawingOf(b, other)
        BY <1>1, <2>a, Zenon DEF OwnOK
      <3>2. DrawingOf(d, u) = DrawingOf(b, u) /\ LegacyDrawingOf(d, u) = LegacyDrawingOf(b, u)
        BY <1>11, <2>5, <2>a, Zenon
      <3>3. DrawingOf(d, other) = DrawingOf(b, other) /\ LegacyDrawingOf(d, other) = LegacyDrawingOf(b, other)
        BY <1>11, <2>5, <2>a, Zenon
      <3> QED
        BY ONLY <3>1, <3>2, <3>3
    <2> QED
      BY <2>3, <2>4, <2>5, Zenon
  <1>13. NotesOK(d) /\ DecodedOK(d) /\ NumberedOK(d) /\ KeptOK(d.XLSX["drawing"], d.Cache["drawing"])
    BY <1>2, <1>4, <1>5 DEF NotesOK, DecodedOK, NumberedOK
  <1> QED
    BY <1>4, <1>5, <1>8, <1>9, <1>10, <1>11, <1>12, <1>13 DEF FileInv

\* reading parts: d looks like b
SameView(b, d) ==
  /\ IsFile(d) /\ d.Sheet = b.Sheet /\ d.XLSX = b.XLSX
  /\ d.DecodeVMLDrawing = b.DecodeVMLDrawing
  /\ d.Overrides = b.Overrides /\ d.Defaults = b.Defaults
  /\ d.Cache["drawing"] = b.Cache["drawing"] /\ d.Cache["vml"] = b.Cache["vml"]
  /\ \A k \in Parsed : PartsOf(d, k) = PartsOf(b, k)
  /\ \A k \in Parsed : \A m : Content(d, k, m) = Content(b, k, m)

LEMMA SameViewKeeps ==
  ASSUME NEW b, NEW P, FileInv(b, P), NEW d, SameView(b, d)
  PROVE  FileInv(d, P)
  <1>1. /\ IsFile(b) /\ SheetsOK(b, P) /\ LeftOK(b) /\ DrawingsOK(b, P) /\ OwnOK(b)
        /\ KeptOK(b.XLSX["drawing"], b.Cache["drawing"])
        /\ NotesOK(b) /\ DecodedOK(b) /\ NumberedOK(b)
    BY DEF FileInv
  <1>2. /\ IsFile(d) /\ d.Sheet = b.Sheet /\ d.XLSX = b.XLSX
        /\ d.DecodeVMLDrawing = b.DecodeVMLDrawing
        /\ d.Overrides = b.Overrides /\ d.Defaults = b.Defaults
        /\ d.Cache["drawing"] = b.Cache["drawing"] /\ d.Cache["vml"] = b.Cache["vml"]
    BY DEF SameView
  <1>3. \A k \in Stored : PartsOf(d, k) = PartsOf(b, k)
    BY <1>2 DEF SameView, PartsOf, Stored
  <1>4. \A m : /\ Content(d, "sheetRels", m) = Content(b, "sheetRels", m)
               /\ Content(d, "drawing", m) = Content(b, "drawing", m)
               /\ Content(d, "drawingRels", m) = Content(b, "drawingRels", m)
               /\ Content(d, "comments", m) = Content(b, "comments", m)
               /\ Content(d, "vml", m) = Content(b, "vml", m)
    BY DEF SameView, Parsed
  <1>5. Grows(b, d)
    BY <1>2, <1>3 DEF Grows
  <1>6. SheetsOK(d, P)
    BY <1>1, <1>2, <1>4, <1>5, SheetGrows, ContinuesSelf DEF SheetsOK
  <1>7. LeftOK(d)
    BY <1>1, <1>2, <1>4 DEF LeftOK
  <1>8. \A s : DrawingOf(d, s) = DrawingOf(b, s) /\ LegacyDrawingOf(d, s) = LegacyDrawingOf(b, s)
    BY <1>2, <1>4, RefIs
  <1>9. OwnOK(d)
    BY <1>1, <1>2, <1>8 DEF OwnOK
  <1>10. DrawingsOK(d, P)
    <2>1. PartsOf(d, "drawing") = PartsOf(b, "drawing")
      BY <1>3 DEF Stored, Parsed
    <2> QED
      BY <1>1, <1>4, <1>5, <2>1, DrawingGrows, ContinuesSelf DEF DrawingsOK
  <1>11. NotesOK(d)
    <2>1. PartsOf(d, "vml") = PartsOf(b, "vml") /\ PartsOf(d, "comments") = PartsOf(b, "comments")
      BY <1>3 DEF Stored, Parsed
    <2> QED
      BY <1>1, <1>4, <2>1 DEF NotesOK
  <1>12. DecodedOK(d) /\ NumberedOK(d) /\ KeptOK(d.XLSX["drawing"], d.Cache["drawing"])
    BY <1>1, <1>2, <1>3 DEF DecodedOK, NumberedOK, Stored, Parsed
  <1> QED
    BY <1>2, <1>6, <1>7, <1>9, <1>10, <1>11, <1>12 DEF FileInv

LEMMA ReaderIs ==
  ASSUME NEW b, IsFile(b), NEW kind \in {"sheetRels", "drawingRels"}, NEW n,
         NEW d, d = Reader(b, kind, n)
  PROVE  SameView(b, d)
  <1>1. CASE n \in DOMAIN b.Cache[kind] \/ n \notin DOMAIN b.XLSX[kind]
    <2>1. d = b
      BY <1>1 DEF Reader
    <2> QED
      BY <2>1 DEF SameView
  <1>2. CASE ~(n \in DOMAIN b.Cache[kind] \/ n \notin DOMAIN b.XLSX[kind])
    <2> DEFINE x == b.XLSX[kind][n]
    <2>1. d = PutCache(b, kind, n, x)
      BY <1>2 DEF Reader
    <2>2. Holds(b.XLSX[kind], kind) /\ kind \in Parsed
      BY FileFields DEF Stored, Parsed
    <2>3. n \in Number /\ x \in PartType(kind) /\ x = Content(b, kind, n)
      BY <1>2, <2>2 DEF Holds, Content
    <2>4. n \in PartsOf(b, kind)
      BY <1>2, <2>2 DEF PartsOf
    <2> HIDE DEF x
    <2>5. Replaces(b, d, kind, n, x)
      BY <2>1, <2>2, <2>3, PutCacheIs
    <2>6. /\ Content(d, kind, n) = x
          /\ \A k \in Parsed : \A m : k # kind \/ m # n => Content(d, k, m) = Content(b, k, m)
          /\ PartsOf(d, kind) = PartsOf(b, kind) \cup {n}
          /\ \A k \in Stored : k # kind => PartsOf(d, k) = PartsOf(b, k)
      BY <2>2, <2>5, ReplacesContent
    <2>7. \A k \in Parsed : PartsOf(d, k) = PartsOf(b, k)
      BY <2>4, <2>6 DEF Stored
    <2>8. \A k \in Parsed : \A m : Content(d, k, m) = Content(b, k, m)
      BY <2>3, <2>6
    <2> QED
      BY <2>5, <2>7, <2>8 DEF Replaces, SameView, Parsed
  <1> QED
    BY <1>1, <1>2

-----------------------------------------------------------------------------
(* Numbers of new parts.                                                   *)

LEMMA CountStoredIs ==
  ASSUME NEW b, NEW kind, NEW m \in Nat, DOMAIN b.XLSX[kind] = 1..m
  PROVE  CountStored(b, kind) = m
  <1>1. Cardinality(1..m) = m
    BY FS_Interval
  <1> QED
    BY <1>1 DEF CountStored

LEMMA CountEitherIs ==
  ASSUME NEW b, NEW kind \in Parsed, NEW m \in Nat, PartsOf(b, kind) = 1..m,
         \/ DOMAIN b.XLSX[kind] \subseteq DOMAIN b.Cache[kind]
         \/ DOMAIN b.Cache[kind] \subseteq DOMAIN b.XLSX[kind]
  PROVE  CountEither(b, kind) = m
  <1> DEFINE X == DOMAIN b.XLSX[kind]
             C == DOMAIN b.Cache[kind]
  <1>1. X \cup C = 1..m
    BY DEF PartsOf
  <1>2. X \subseteq C \/ C \subseteq X
    OBVIOUS
  <1>3. CountEither(b, kind) = IF Cardinality(X) < Cardinality(C) THEN Cardinality(C)
                               ELSE Cardinality(X)
    BY DEF CountEither, CountStored
  <1> HIDE DEF X, C
  <1>4. IsFiniteSet(1..m) /\ Cardinality(1..m) = m
    BY FS_Interval
  <1>5. X \subseteq 1..m /\ C \subseteq 1..m /\ (X = 1..m \/ C = 1..m)
    BY <1>1, <1>2
  <1>6. IsFiniteSet(X) /\ Cardinality(X) <= m
    <2>1. X \in SUBSET (1..m)
      BY <1>5
    <2>2. IsFiniteSet(X) /\ Cardinality(X) <= Cardinality(1..m)
      BY ONLY <1>4, <2>1, FS_Subset
    <2> QED
      BY ONLY <1>4, <2>2
  <1>7. IsFiniteSet(C) /\ Cardinality(C) <= m
    <2>1. C \in SUBSET (1..m)
      BY <1>5
    <2>2. IsFiniteSet(C) /\ Cardinality(C) <= Cardinality(1..m)
      BY ONLY <1>4, <2>1, FS_Subset
    <2> QED
      BY ONLY <1>4, <2>2
  <1>8. Cardinality(X) \in Nat /\ Cardinality(C) \in Nat
    BY <1>6, <1>7, FS_CardinalityType
  <1>9. Cardinality(X) = m \/ Cardinality(C) = m
    BY <1>4, <1>5
  <1> QED
    BY <1>3, <1>6, <1>7, <1>8, <1>9

LEMMA NextNumber ==
  ASSUME NEW S, NEW m \in Nat, S = 1..m
  PROVE  m + 1 \in Number /\ S \cup {m + 1} = 1..(m + 1) /\ UpTo(S \cup {m + 1}) /\ m + 1 \notin S
  <1>1. m + 1 \in Number /\ S \cup {m + 1} = 1..(m + 1) /\ m + 1 \notin S
    BY DEF Number
  <1> QED
    BY <1>1 DEF UpTo, Number

-----------------------------------------------------------------------------
(* Content types and parts that are never parsed.                          *)

\* d has more content types than b
Relabels(b, d) ==
  /\ IsFile(d) /\ d.Sheet = b.Sheet /\ d.XLSX = b.XLSX /\ d.Cache = b.Cache
  /\ d.DecodeVMLDrawing = b.DecodeVMLDrawing
  /\ b.Overrides \subseteq d.Overrides /\ b.Defaults \subseteq d.Defaults

Labelled(b, o, t) == [b EXCEPT !.Overrides = o, !.Defaults = t]
AreLabels(o, t) == o \subseteq OverrideKinds \X Number /\ t \subseteq {"image", "vml"}

LEMMA LabelsSet ==
  ASSUME NEW b, IsFile(b), NEW o, NEW t, AreLabels(o, t),
         NEW d, d = Labelled(b, o, t)
  PROVE  /\ IsFile(d) /\ d.Overrides = o /\ d.Defaults = t
         /\ d.Sheet = b.Sheet /\ d.XLSX = b.XLSX /\ d.Cache = b.Cache
         /\ d.DecodeVMLDrawing = b.DecodeVMLDrawing
  <1>1. d = [Sheet |-> b.Sheet, XLSX |-> b.XLSX, Cache |-> b.Cache,
             DecodeVMLDrawing |-> b.DecodeVMLDrawing, Overrides |-> o, Defaults |-> t]
    BY DEF IsFile, Labelled
  <1>2. /\ d.Overrides = o /\ d.Defaults = t /\ d.Sheet = b.Sheet /\ d.XLSX = b.XLSX
        /\ d.Cache = b.Cache /\ d.DecodeVMLDrawing = b.DecodeVMLDrawing
    BY <1>1
  <1> QED
    BY <1>1, <1>2, FileFields DEF IsFile, AreLabels

LEMMA ContentTypePartIs ==
  ASSUME NEW b, IsFile(b), NEW kind \in OverrideKinds, NEW n \in Number,
         NEW d, d = AddContentTypePart(b, kind, n)
  PROVE  /\ Relabels(b, d) /\ <<kind, n>> \in d.Overrides
         /\ kind = "comments" => "vml" \in d.Defaults
         /\ kind = "drawing" => "image" \in d.Defaults
  <1> DEFINE o == b.Overrides \cup {<<kind, n>>}
             e == CASE kind = "comments" -> {"vml"}
                    [] kind = "drawing" -> {"image"}
                    [] OTHER -> {}
             t == b.Defaults \cup e
  <1>1. d = Labelled(b, o, t)
    BY DEF AddContentTypePart, Labelled
  <1>2. b.Overrides \subseteq OverrideKinds \X Number /\ b.Defaults \subseteq {"image", "vml"}
    BY FileFields
  <1>3. o \subseteq OverrideKinds \X Number
    BY <1>2
  <1>4. /\ e \subseteq {"image", "vml"} /\ (kind = "comments" => "vml" \in e)
        /\ (kind = "drawing" => "image" \in e)
    OBVIOUS
  <1> HIDE DEF e
  <1>5. /\ t \subseteq {"image", "vml"} /\ b.Defaults \subseteq t
        /\ (kind = "comments" => "vml" \in t) /\ (kind = "drawing" => "image" \in t)
    BY <1>2, <1>4
  <1>6. b.Overrides \subseteq o /\ <<kind, n>> \in o
    OBVIOUS
  <1> HIDE DEF o, t
  <1>7. /\ IsFile(d) /\ d.Overrides = o /\ d.Defaults = t
        /\ d.Sheet = b.Sheet /\ d.XLSX = b.XLSX /\ d.Cache = b.Cache
        /\ d.DecodeVMLDrawing = b.DecodeVMLDrawing
    <2>1. AreLabels(o, t)
      BY <1>3, <1>5 DEF AreLabels
    <2> QED
      BY <1>1, <2>1, LabelsSet
  <1> QED
    BY <1>5, <1>6, <1>7 DEF Relabels

LEMMA ImageExtensionsIs ==
  ASSUME NEW b, IsFile(b), NEW d, d = SetContentTypePartImageExtensions(b)
  PROVE  Relabels(b, d) /\ "image" \in d.Defaults
  <1> DEFINE t == b.Defaults \cup {"image"}
             o == b.Overrides
  <1>1. b.Overrides \subseteq OverrideKinds \X Number /\ b.Defaults \subseteq {"image", "vml"}
    BY FileFields
  <1>2. d = Labelled(b, o, t)
    BY DEF SetContentTypePartImageExtensions, IsFile, Labelled
  <1>3. t \subseteq {"image", "vml"} /\ b.Defaults \subseteq t /\ "image" \in t
    BY <1>1
  <1> HIDE DEF t
  <1>4. /\ IsFile(d) /\ d.Overrides = o /\ d.Defaults = t
        /\ d.Sheet = b.Sheet /\ d.XLSX = b.XLSX /\ d.Cache = b.Cache
        /\ d.DecodeVMLDrawing = b.DecodeVMLDrawing
    <2>1. AreLabels(o, t)
      BY <1>1, <1>3 DEF AreLabels
    <2> HIDE DEF o
    <2> QED
      BY <1>2, <2>1, LabelsSet
  <1> QED
    BY <1>3, <1>4 DEF Relabels

\* more content types, more promises
LEMMA RelabelsKeeps ==
  ASSUME NEW b, NEW P, FileInv(b, P), NEW Q, P \subseteq Q, NEW d, Relabels(b, d)
  PROVE  /\ FileInv(d, Q) /\ \A k, m : Content(d, k, m) = Content(b, k, m)
         /\ \A k : PartsOf(d, k) = PartsOf(b, k)
  <1>1. /\ IsFile(b) /\ SheetsOK(b, P) /\ LeftOK(b) /\ DrawingsOK(b, P) /\ OwnOK(b)
        /\ KeptOK(b.XLSX["drawing"], b.Cache["drawing"])
        /\ NotesOK(b) /\ DecodedOK(b) /\ NumberedOK(b)
    BY DEF FileInv
  <1>2. /\ IsFile(d) /\ d.Sheet = b.Sheet /\ d.XLSX = b.XLSX /\ d.Cache = b.Cache
        /\ d.DecodeVMLDrawing = b.DecodeVMLDrawing
        /\ b.Overrides \subseteq d.Overrides /\ b.Defaults \subseteq d.Defaults
    BY DEF Relabels
  <1>3. \A k, m : Content(d, k, m) = Content(b, k, m)
    BY <1>2 DEF Content
  <1>4. \A k : PartsOf(d, k) = PartsOf(b, k)
    BY <1>2 DEF PartsOf
  <1>5. Grows(b, d)
    BY <1>2, <1>4 DEF Grows
  <1>6. SheetsOK(d, Q)
    BY <1>1, <1>2, <1>3, <1>5, SheetGrows, ContinuesSelf DEF SheetsOK
  <1>7. LeftOK(d)
    BY <1>1, <1>2, <1>3 DEF LeftOK
  <1>8. \A s : DrawingOf(d, s) = DrawingOf(b, s) /\ LegacyDrawingOf(d, s) = LegacyDrawingOf(b, s)
    BY <1>2, <1>3 DEF DrawingOf, LegacyDrawingOf, GetSheetRelationshipsTargetByID, TargetByID
  <1>9. OwnOK(d)
    BY <1>1, <1>2, <1>8 DEF OwnOK
  <1>10. DrawingsOK(d, Q)
    BY <1>1, <1>3, <1>4, <1>5, DrawingGrows, ContinuesSelf DEF DrawingsOK
  <1>11. NotesOK(d) /\ DecodedOK(d) /\ NumberedOK(d) /\ KeptOK(d.XLSX["drawing"], d.Cache["drawing"])
    BY <1>1, <1>2, <1>3, <1>4 DEF NotesOK, DecodedOK, NumberedOK
  <1> QED
    BY <1>2, <1>3, <1>4, <1>6, <1>7, <1>9, <1>10, <1>11 DEF FileInv

LEMMA RelabelsSelf ==
  ASSUME NEW b, IsFile(b)
  PROVE  Relabels(b, b)
  BY DEF Relabels

\* what was promised is there
LEMMA PromiseKept ==
  ASSUME NEW b, NEW P, FileInv(b, P), NEW Q, \A type, t : <<type, t>> \in P => Known(b, Q, type, t)
  PROVE  FileInv(b, Q)
  <1>1. /\ IsFile(b) /\ SheetsOK(b, P) /\ LeftOK(b) /\ DrawingsOK(b, P) /\ OwnOK(b)
        /\ KeptOK(b.XLSX["drawing"], b.Cache["drawing"])
        /\ NotesOK(b) /\ DecodedOK(b) /\ NumberedOK(b)
    BY DEF FileInv
  <1>2. \A type, t : Known(b, P, type, t) => Known(b, Q, type, t)
    BY Zenon DEF Known
  <1>3. \A r, rid, type : LeadsTo(b, P, r, rid, type) => LeadsTo(b, Q, r, rid, type)
    BY <1>2, Zenon DEF LeadsTo
  <1>4. \A w, r : SheetOK(b, P, w, r) => SheetOK(b, Q, w, r)
    <2> SUFFICES ASSUME NEW w, NEW r, SheetOK(b, P, w, r) PROVE SheetOK(b, Q, w, r)
      OBVIOUS
    <2>1. \A rid, type : LeadsTo(b, P, r, rid, type) => LeadsTo(b, Q, r, rid, type)
      BY <1>3, Zenon
    <2>2. w.drawing # 0 => LeadsTo(b, Q, r, w.drawing, "drawing")
      BY <2>1, Zenon DEF SheetOK
    <2>3. w.legacyDrawing # 0 => /\ LeadsTo(b, Q, r, w.legacyDrawing, "vml")
                                 /\ LeadsTo(b, Q, r, w.legacyDrawing + 1, "comments")
                                 /\ r[w.legacyDrawing + 1].target = r[w.legacyDrawing].target
      BY <2>1, Zenon DEF SheetOK
    <2>4. \A i \in DOMAIN r : r[i].type = "comments" => w.legacyDrawing # 0 /\ i = w.legacyDrawing + 1
      BY Zenon DEF SheetOK
    <2>5. w.picture # 0 => LeadsTo(b, Q, r, w.picture, "image")
      BY <2>1, Zenon DEF SheetOK
    <2>6. \A i \in DOMAIN w.tableParts : LeadsTo(b, Q, r, w.tableParts[i], "table")
      BY <2>1, Zenon DEF SheetOK
    <2> QED
      BY <2>2, <2>3, <2>4, <2>5, <2>6, Zenon DEF SheetOK
  <1>5. \A c, r : DrawingOK(b, P, c, r) => DrawingOK(b, Q, c, r)
    BY <1>3, Zenon DEF DrawingOK, AnchorOK
  <1>6. SheetsOK(b, Q) /\ DrawingsOK(b, Q)
    BY <1>1, <1>4, <1>5, Zenon DEF SheetsOK, DrawingsOK
  <1> QED
    BY <1>1, <1>6 DEF FileInv

LEMMA StoresContent ==
  ASSUME NEW b, NEW d, NEW kind \in {"media", "chart", "table"}, NEW n, NEW x, Stores(b, d, kind, n, x)
  PROVE  /\ \A k \in Parsed : \A m : Content(d, k, m) = Content(b, k, m)
         /\ PartsOf(d, kind) = PartsOf(b, kind) \cup {n}
         /\ \A k \in Stored : k # kind => PartsOf(d, k) = PartsOf(b, k)
         /\ d.XLSX[kind][n] = x /\ \A m \in PartsOf(b, kind) : m # n => d.XLSX[kind][m] = b.XLSX[kind][m]
  <1>1. /\ d.Cache = b.Cache /\ d.XLSX[kind] = Put(b.XLSX[kind], n, x)
        /\ \A k \in Stored : k # kind => d.XLSX[k] = b.XLSX[k]
    BY DEF Stores
  <1>2. kind \notin Parsed /\ Parsed \subseteq Stored
    BY DEF Parsed, Stored
  <1>3. \A k \in Parsed : d.XLSX[k] = b.XLSX[k]
    BY <1>1, <1>2
  <1>4. \A k \in Parsed : \A m : Content(d, k, m) = Content(b, k, m)
    BY <1>1, <1>3 DEF Content
  <1>5. IsPut(d.XLSX[kind], b.XLSX[kind], n, x)
    BY <1>1, PutIs
  <1>6. /\ PartsOf(d, kind) = PartsOf(b, kind) \cup {n}
        /\ d.XLSX[kind][n] = x /\ \A m \in PartsOf(b, kind) : m # n => d.XLSX[kind][m] = b.XLSX[kind][m]
    BY <1>2, <1>5 DEF PartsOf, IsPut
  <1>7. \A k \in Stored : k # kind => PartsOf(d, k) = PartsOf(b, k)
    BY <1>1 DEF PartsOf
  <1> QED
    BY <1>4, <1>6, <1>7

LEMMA StoresKeeps ==
  ASSUME NEW b, NEW P, FileInv(b, P), NEW kind \in {"media", "chart", "table"}, NEW n, NEW x,
         NEW d, Stores(b, d, kind, n, x), UpTo(PartsOf(b, kind) \cup {n})
  PROVE  FileInv(d, P) /\ \A s : DrawingOf(d, s) = DrawingOf(b, s)
  <1>1. /\ IsFile(b) /\ SheetsOK(b, P) /\ LeftOK(b) /\ DrawingsOK(b, P) /\ OwnOK(b)
        /\ KeptOK(b.XLSX["drawing"], b.Cache["drawing"])
        /\ NotesOK(b) /\ DecodedOK(b) /\ NumberedOK(b)
    BY DEF FileInv
  <1>2. /\ IsFile(d) /\ d.Sheet = b.Sheet /\ d.Cache = b.Cache
        /\ d.DecodeVMLDrawing = b.DecodeVMLDrawing
        /\ d.Overrides = b.Overrides /\ d.Defaults = b.Defaults
        /\ \A k \in Stored : k # kind => d.XLSX[k] = b.XLSX[k]
    BY DEF Stores
  <1>3. /\ \A k \in Parsed : \A m : Content(d, k, m) = Content(b, k, m)
        /\ PartsOf(d, kind) = PartsOf(b, kind) \cup {n}
        /\ \A k \in Stored : k # kind => PartsOf(d, k) = PartsOf(b, k)
    <2> QED
      BY ONLY StoresContent, kind \in {"media", "chart", "table"}, Stores(b, d, kind, n, x)
  <1>4. \A m : /\ Content(d, "sheetRels", m) = Content(b, "sheetRels", m)
               /\ Content(d, "drawing", m) = Content(b, "drawing", m)
               /\ Content(d, "drawingRels", m) = Content(b, "drawingRels", m)
               /\ Content(d, "comments", m) = Content(b, "comments", m)
               /\ Content(d, "vml", m) = Content(b, "vml", m)
    BY <1>3 DEF Parsed
  <1>5. Grows(b, d)
    BY <1>2, <1>3 DEF Grows
  <1>6. SheetsOK(d, P)
    BY <1>1, <1>2, <1>4, <1>5, SheetGrows, ContinuesSelf DEF SheetsOK
  <1>7. LeftOK(d)
    BY <1>1, <1>2, <1>4 DEF LeftOK
  <1>8. \A s : DrawingOf(d, s) = DrawingOf(b, s) /\ LegacyDrawingOf(d, s) = LegacyDrawingOf(b, s)
    BY <1>2, <1>4 DEF DrawingOf, LegacyDrawingOf, GetSheetRelationshipsTargetByID, TargetByID
  <1>9. OwnOK(d)
    BY <1>1, <1>2, <1>8 DEF OwnOK
  <1>10. /\ PartsOf(d, "drawing") = PartsOf(b, "drawing") /\ PartsOf(d, "vml") = PartsOf(b, "vml")
         /\ PartsOf(d, "comments") = PartsOf(b, "comments")
         /\ d.XLSX["drawing"] = b.XLSX["drawing"] /\ d.XLSX["vml"] = b.XLSX["vml"]
    BY <1>2, <1>3 DEF Stored, Parsed
  <1>11. DrawingsOK(d, P)
    BY <1>1, <1>4, <1>5, <1>10, DrawingGrows, ContinuesSelf DEF DrawingsOK
  <1>12. NotesOK(d)
    BY <1>1, <1>4, <1>10 DEF NotesOK
  <1>13. DecodedOK(d) /\ KeptOK(d.XLSX["drawing"], d.Cache["drawing"])
    BY <1>1, <1>2, <1>10 DEF DecodedOK
  <1>14. NumberedOK(d)
    <2>1. \A k \in {"chart", "media", "table", "drawing", "comments"} :
            PartsOf(d, k) = IF k = kind THEN PartsOf(b, kind) \cup {n} ELSE PartsOf(b, k)
      BY <1>3 DEF Stored, Parsed
    <2> QED
      BY <1>1, <2>1 DEF NumberedOK
  <1> QED
    BY <1>2, <1>6, <1>7, <1>8, <1>9, <1>11, <1>12, <1>13, <1>14 DEF FileInv

-----------------------------------------------------------------------------
(* What is seen of a File.                                                 *)

\* the same anchors, kept as text or not
Akin(x, y) == DOMAIN x = DOMAIN y /\ \A i \in DOMAIN x : Alike(x[i], y[i])

\* but for drawings D and comments N, d shows what b shows
Keeps(b, d, D, N) ==
  /\ \A k \in {"media", "chart", "table"} : Continues(b.XLSX[k], d.XLSX[k])
  /\ \A n : Continues(Content(b, "drawingRels", n), Content(d, "drawingRels", n))
  /\ \A n : n \notin D => Akin(Content(b, "drawing", n), Content(d, "drawing", n))
  /\ \A n : n \notin N => Content(d, "comments", n) = Content(b, "comments", n)

\* and its sheets have their relationships
Follows(b, d, D, N) ==
  /\ Keeps(b, d, D, N)
  /\ \A s : Continues(Content(b, "sheetRels", s), Content(d, "sheetRels", s))

\* the sheets but s are the same
SheetsBut(b, d, s) == DOMAIN d.Sheet = DOMAIN b.Sheet
                      /\ \A u \in DOMAIN b.Sheet : u # s => d.Sheet[u] = b.Sheet[u]

LEMMA ContinuesOn ==
  ASSUME NEW r, NEW q, NEW p, Continues(r, q), Continues(q, p)
  PROVE  Continues(r, p)
  BY DEF Continues

LEMMA AkinOn ==
  ASSUME NEW r, NEW q, NEW p, Akin(r, q), Akin(q, p)
  PROVE  Akin(r, p)
  BY DEF Akin, Alike

LEMMA AkinSelf ==
  ASSUME NEW r
  PROVE  Akin(r, r)
  BY DEF Akin, Alike

LEMMA FollowsOn ==
  ASSUME NEW b, NEW c, NEW d, NEW D, NEW N, NEW E, NEW M, NEW F, NEW L,
         Follows(b, c, D, N), Follows(c, d, E, M), D \cup E \subseteq F, N \cup M \subseteq L
  PROVE  Follows(b, d, F, L)
  <1>1. Keeps(b, c, D, N) /\ Keeps(c, d, E, M)
    BY DEF Follows
  <1>2. \A k \in {"media", "chart", "table"} : Continues(b.XLSX[k], d.XLSX[k])
    BY <1>1, ContinuesOn DEF Keeps
  <1>3. \A n : Continues(Content(b, "drawingRels", n), Content(d, "drawingRels", n))
    BY <1>1, ContinuesOn DEF Keeps
  <1>4. \A n : n \notin F => Akin(Content(b, "drawing", n), Content(d, "drawing", n))
    BY <1>1, AkinOn DEF Keeps
  <1>5. \A n : n \notin L => Content(d, "comments", n) = Content(b, "comments", n)
    BY <1>1 DEF Keeps
  <1>6. \A s : Continues(Content(b, "sheetRels", s), Content(d, "sheetRels", s))
    BY ContinuesOn DEF Follows
  <1> QED
    BY <1>2, <1>3, <1>4, <1>5, <1>6 DEF Follows, Keeps

\* the parts are the same
LEMMA FollowsSame ==
  ASSUME NEW b, NEW d, d.XLSX = b.XLSX, \A k \in Parsed : \A m : Content(d, k, m) = Content(b, k, m)
  PROVE  Follows(b, d, {}, {})
  <1>1. \A m : /\ Content(d, "sheetRels", m) = Content(b, "sheetRels", m)
               /\ Content(d, "drawing", m) = Content(b, "drawing", m)
               /\ Content(d, "drawingRels", m) = Content(b, "drawingRels", m)
               /\ Content(d, "comments", m) = Content(b, "comments", m)
    BY DEF Parsed
  <1> QED
    BY <1>1, ContinuesSelf, AkinSelf DEF Follows, Keeps

LEMMA FollowsKept ==
  ASSUME NEW b, NEW d, d.XLSX = b.XLSX, d.Cache = b.Cache
  PROVE  Follows(b, d, {}, {})
  <1>1. \A k, m : Content(d, k, m) = Content(b, k, m)
    BY DEF Content
  <1> QED
    BY <1>1, FollowsSame

\* relationships are added to
LEMMA FollowsRels ==
  ASSUME NEW b, NEW d, NEW kind \in {"sheetRels", "drawingRels"}, NEW n, NEW q,
         Replaces(b, d, kind, n, q), Continues(Content(b, kind, n), q)
  PROVE  Follows(b, d, {}, {})
  <1>1. kind \in Parsed
    BY DEF Parsed
  <1>2. /\ Content(d, kind, n) = q /\ d.XLSX = b.XLSX
        /\ \A k \in Parsed : \A m : k # kind \/ m # n => Content(d, k, m) = Content(b, k, m)
    <2>1. d.XLSX = b.XLSX
      BY DEF Replaces
    <2>2. /\ Content(d, kind, n) = q
          /\ \A k \in Parsed : \A m : k # kind \/ m # n => Content(d, k, m) = Content(b, k, m)
      BY ONLY <1>1, Replaces(b, d, kind, n, q), ReplacesContent
    <2> QED
      BY <2>1, <2>2, Zenon
  <1>3. \A k \in {"sheetRels", "drawingRels"} : \A m : Continues(Content(b, k, m), Content(d, k, m))
    <2> TAKE k \in {"sheetRels", "drawingRels"}
    <2> TAKE m
    <2>1. CASE k = kind /\ m = n
      BY <1>2, <2>1
    <2>2. CASE k # kind \/ m # n
      <3>1. Content(d, k, m) = Content(b, k, m)
        BY <1>2, <2>2 DEF Parsed
      <3> QED
        BY <3>1, ContinuesSelf
    <2> QED
      BY <2>1, <2>2
  <1>4. \A m : /\ Content(d, "drawing", m) = Content(b, "drawing", m)
               /\ Content(d, "comments", m) = Content(b, "comments", m)
    BY <1>2 DEF Parsed
  <1> QED
    BY <1>2, <1>3, <1>4, ContinuesSelf, AkinSelf DEF Follows, Keeps

\* a drawing is another one
LEMMA FollowsDrawing ==
  ASSUME NEW b, NEW d, NEW n, NEW q, Replaces(b, d, "drawing", n, q)
  PROVE  /\ Follows(b, d, {n}, {})
         /\ Akin(Content(b, "drawing", n), q) => Follows(b, d, {}, {})
         /\ Content(d, "drawing", n) = q
  <1>1. d.XLSX = b.XLSX
    BY DEF Replaces
  <1>2. /\ Content(d, "drawing", n) = q
        /\ \A m : m # n => Content(d, "drawing", m) = Content(b, "drawing", m)
    BY ReplacesOne DEF Parsed
  <1>3. \A m : /\ Content(d, "sheetRels", m) = Content(b, "sheetRels", m)
               /\ Content(d, "drawingRels", m) = Content(b, "drawingRels", m)
               /\ Content(d, "comments", m) = Content(b, "comments", m)
    BY DEF Replaces, Content, Parsed
  <1>4. \A m : m # n => Akin(Content(b, "drawing", m), Content(d, "drawing", m))
    BY <1>2, AkinSelf
  <1>5. Akin(Content(b, "drawing", n), q) =>
          \A m : Akin(Content(b, "drawing", m), Content(d, "drawing", m))
    BY <1>2, <1>4
  <1> QED
    BY <1>1, <1>2, <1>3, <1>4, <1>5, ContinuesSelf DEF Follows, Keeps

\* a part that is never parsed is new
LEMMA FollowsStores ==
  ASSUME NEW b, NEW d, NEW kind \in {"media", "chart", "table"}, NEW n, NEW x,
         Stores(b, d, kind, n, x), n \notin PartsOf(b, kind)
  PROVE  Follows(b, d, {}, {})
  <1>1. \A k \in Parsed : \A m : Content(d, k, m) = Content(b, k, m)
    BY StoresContent
  <1>2. \A m : /\ Content(d, "sheetRels", m) = Content(b, "sheetRels", m)
               /\ Content(d, "drawing", m) = Content(b, "drawing", m)
               /\ Content(d, "drawingRels", m) = Content(b, "drawingRels", m)
               /\ Content(d, "comments", m) = Content(b, "comments", m)
    BY <1>1 DEF Parsed
  <1>3. Continues(b.XLSX[kind], d.XLSX[kind])
    <2>1. IsPut(d.XLSX[kind], b.XLSX[kind], n, x)
      BY PutIs DEF Stores
    <2>2. n \notin DOMAIN b.XLSX[kind]
      BY DEF PartsOf, Parsed
    <2> QED
      BY <2>1, <2>2 DEF IsPut, Continues
  <1>4. \A k \in {"media", "chart", "table"} : Continues(b.XLSX[k], d.XLSX[k])
    <2> TAKE k \in {"media", "chart", "table"}
    <2>1. CASE k # kind
      <3>1. d.XLSX[k] = b.XLSX[k]
        BY <2>1 DEF Stores, Stored
      <3> QED
        BY <3>1, ContinuesSelf
    <2> QED
      BY <1>3, <2>1
  <1> QED
    BY <1>2, <1>4, ContinuesSelf, AkinSelf DEF Follows, Keeps

\* addMedia: the image is stored, once
LEMMA MediaKept ==
  ASSUME NEW b, NEW P, FileInv(b, P), NEW image \in Images, NEW d, d = AddMedia(b, image)
  PROVE  /\ FileInv(d, P) /\ Follows(b, d, {}, {}) /\ d.Sheet = b.Sheet /\ d.Cache = b.Cache
         /\ \A s : DrawingOf(d, s) = DrawingOf(b, s)
         /\ \A k \in Parsed : \A m : Content(d, k, m) = Content(b, k, m)
         /\ \A k \in Parsed : PartsOf(d, k) = PartsOf(b, k)
         /\ MediaOf(d, image) \in PartsOf(d, "media") /\ MediaOf(d, image) \in Number
         /\ d.XLSX["media"][MediaOf(d, image)] = image
  <1> DEFINE t == MediaOf(d, image)
  <1>1. IsFile(b) /\ NumberedOK(b)
    BY DEF FileInv
  <1>2. ASSUME MediaWith(d, image) # {}, IsFile(d)
        PROVE  t \in PartsOf(d, "media") /\ t \in Number /\ d.XLSX["media"][t] = image
    <2>1. t \in MediaWith(d, image)
      BY <1>2 DEF MediaOf
    <2>2. Holds(d.XLSX["media"], "media")
      BY <1>2, FileFields DEF Stored
    <2> QED
      BY <2>1, <2>2 DEF MediaWith, PartsOf, Parsed, Holds
  <1>3. CASE MediaWith(b, image) # {}
    <2>1. d = b
      BY <1>3 DEF AddMedia
    <2>2. Follows(b, d, {}, {})
      BY <2>1, FollowsKept
    <2> QED
      BY <1>1, <1>2, <1>3, <2>1, <2>2
  <1>4. CASE MediaWith(b, image) = {}
    <2>1. PICK m \in Nat : PartsOf(b, "media") = 1..m
      BY <1>1 DEF NumberedOK, UpTo
    <2>2. DOMAIN b.XLSX["media"] = 1..m
      BY <2>1 DEF PartsOf, Parsed
    <2>3. CountMedia(b) = m
      BY <2>2, CountStoredIs DEF CountMedia
    <2>4. d = PutPart(b, "media", m + 1, image)
      BY <1>4, <2>3 DEF AddMedia
    <2>5. /\ m + 1 \in Number /\ UpTo(PartsOf(b, "media") \cup {m + 1})
          /\ m + 1 \notin PartsOf(b, "media")
      BY <2>1, NextNumber
    <2> DEFINE kind == "media"
    <2>6. kind \in {"media", "chart", "table"} /\ kind \in Stored /\ image \in PartType(kind)
      BY PartTypeIs DEF Stored
    <2>7. /\ d = PutPart(b, kind, m + 1, image) /\ UpTo(PartsOf(b, kind) \cup {m + 1})
          /\ m + 1 \notin PartsOf(b, kind)
      BY <2>4, <2>5
    <2> HIDE DEF kind
    <2>8. Stores(b, d, kind, m + 1, image)
      BY <1>1, <2>5, <2>6, <2>7, PutPartIs
    <2>9. FileInv(d, P) /\ \A s : DrawingOf(d, s) = DrawingOf(b, s)
      BY <2>6, <2>7, <2>8, StoresKeeps
    <2>10. /\ \A k \in Parsed : \A i : Content(d, k, i) = Content(b, k, i)
           /\ PartsOf(d, kind) = PartsOf(b, kind) \cup {m + 1}
           /\ \A k \in Stored : k # kind => PartsOf(d, k) = PartsOf(b, k)
           /\ d.XLSX[kind][m + 1] = image
      BY <2>6, <2>8, StoresContent
    <2>11. m + 1 \in MediaWith(d, image)
      BY <2>10 DEF MediaWith, PartsOf, kind, Parsed
    <2>12. IsFile(d) /\ d.Sheet = b.Sheet /\ d.Cache = b.Cache
      BY <2>8 DEF Stores
    <2>13. \A k \in Parsed : PartsOf(d, k) = PartsOf(b, k)
      BY <2>10 DEF kind, Parsed, Stored
    <2>14. Follows(b, d, {}, {})
      BY <2>6, <2>7, <2>8, FollowsStores
    <2> QED
      BY <1>2, <2>9, <2>10, <2>11, <2>12, <2>13, <2>14
  <1> QED
    BY <1>3, <1>4

-----------------------------------------------------------------------------
(* Drawings.                                                               *)

LEMMA DrawingRelsType ==
  ASSUME NEW b, IsFile(b), NEW n
  PROVE  Content(b, "drawingRels", n) \in Seq(Rels)
  BY ContentType, PartTypeIs DEF Parsed

LEMMA DrawingType ==
  ASSUME NEW b, IsFile(b), NEW n
  PROVE  Content(b, "drawing", n) \in Seq(Anchors)
  BY ContentType, PartTypeIs DEF Parsed

\* addDrawingRelationships
LEMMA DrawingRelAdded ==
  ASSUME NEW b, NEW P, FileInv(b, P), NEW n \in Number, NEW type \in RelTypes, NEW t \in Number,
         NEW d, d = AddDrawingRelationships(b, n, type, t)
  PROVE  /\ FileInv(d, P)
         /\ Replaces(b, d, "drawingRels", n, Append(Content(b, "drawingRels", n), RelOf(type, t)))
  <1> DEFINE r == Content(b, "drawingRels", n)
             x == RelOf(type, t)
             q == Append(r, x)
  <1>1. IsFile(b) /\ DrawingsOK(b, P)
    BY DEF FileInv
  <1>2. r \in Seq(Rels) /\ x \in Rels
    BY <1>1, DrawingRelsType DEF RelOf, Rels, RelTypes, Number
  <1>3. d = PutCache(b, "drawingRels", n, q)
    BY DEF AddDrawingRelationships, AddRelationship, RelOf
  <1> HIDE DEF x
  <1>4. q \in Seq(Rels) /\ Continues(r, q)
    BY <1>2, ContinuesAppend
  <1> HIDE DEF r, q
  <1>5. Replaces(b, d, "drawingRels", n, q)
    BY <1>1, <1>3, <1>4, PutCacheIs, PartTypeIs DEF Parsed
  <1>6. /\ Grows(b, d) /\ IsFile(d) /\ SheetsOK(d, P) /\ LeftOK(d) /\ OwnOK(d)
        /\ NotesOK(d) /\ DecodedOK(d) /\ NumberedOK(d)
        /\ KeptOK(d.XLSX["drawing"], d.Cache["drawing"])
    BY <1>5, OtherKinds DEF Parsed
  <1>7. /\ Content(d, "drawingRels", n) = q
        /\ \A u : u # n => Content(d, "drawingRels", u) = Content(b, "drawingRels", u)
    <2> DEFINE kind == "drawingRels"
    <2>1. kind \in Parsed /\ Replaces(b, d, kind, n, q)
      BY <1>5 DEF Parsed
    <2> HIDE DEF kind
    <2>2. Content(d, kind, n) = q /\ \A m : m # n => Content(d, kind, m) = Content(b, kind, m)
      BY <2>1, ReplacesOne
    <2> QED
      BY <2>2 DEF kind
  <1>8. PartsOf(d, "drawing") = PartsOf(b, "drawing") /\ \A u : Content(d, "drawing", u) = Content(b, "drawing", u)
    BY <1>5 DEF Replaces, PartsOf, Content, Parsed
  <1>9. DrawingsOK(d, P)
    <2> SUFFICES ASSUME NEW u \in PartsOf(b, "drawing")
                 PROVE  DrawingOK(d, P, Content(b, "drawing", u), Content(d, "drawingRels", u))
      BY <1>8 DEF DrawingsOK
    <2>1. DrawingOK(b, P, Content(b, "drawing", u), Content(b, "drawingRels", u))
      BY <1>1 DEF DrawingsOK
    <2>2. CASE u = n
      BY <1>4, <1>6, <1>7, <2>1, <2>2, DrawingGrows DEF r
    <2>3. CASE u # n
      BY <1>6, <1>7, <2>1, <2>3, DrawingGrows, ContinuesSelf
    <2> QED
      BY <2>2, <2>3
  <1> QED
    BY <1>5, <1>6, <1>9 DEF FileInv, q, r, x

\* a drawing that keeps what the package has
KeepsText(b, n, q) == /\ n \in DOMAIN b.XLSX["drawing"] =>
                           /\ Begins(b.XLSX["drawing"][n], q)
                           /\ TextWithin(q, Len(b.XLSX["drawing"][n]))
                      /\ n \notin DOMAIN b.XLSX["drawing"] => NoText(q)

LEMMA DrawingTurned ==
  ASSUME NEW b, NEW P, FileInv(b, P), NEW n \in Number, NEW q, NEW d,
         Replaces(b, d, "drawing", n, q), UpTo(PartsOf(b, "drawing") \cup {n}),
         DrawingOK(b, P, q, Content(b, "drawingRels", n)), KeepsText(b, n, q)
  PROVE  FileInv(d, P)
  <1>1. /\ IsFile(b) /\ DrawingsOK(b, P) /\ NumberedOK(b)
        /\ KeptOK(b.XLSX["drawing"], b.Cache["drawing"])
    BY DEF FileInv
  <1>2. /\ Grows(b, d) /\ IsFile(d) /\ SheetsOK(d, P) /\ LeftOK(d) /\ OwnOK(d)
        /\ NotesOK(d) /\ DecodedOK(d)
    BY OtherKinds DEF Parsed
  <1>3. /\ Content(d, "drawing", n) = q
        /\ \A u : u # n => Content(d, "drawing", u) = Content(b, "drawing", u)
    <2> DEFINE kind == "drawing"
    <2>1. kind \in Parsed /\ Replaces(b, d, kind, n, q)
      BY DEF Parsed
    <2> HIDE DEF kind
    <2>2. Content(d, kind, n) = q /\ \A m : m # n => Content(d, kind, m) = Content(b, kind, m)
      BY <2>1, ReplacesOne
    <2> QED
      BY <2>2 DEF kind
  <1>4. /\ d.XLSX = b.XLSX /\ d.Cache["drawing"] = Put(b.Cache["drawing"], n, q)
        /\ \A k \in Parsed : k # "drawing" => d.Cache[k] = b.Cache[k]
    BY DEF Replaces
  <1>5. \A u : Content(d, "drawingRels", u) = Content(b, "drawingRels", u)
    BY <1>4 DEF Content, Parsed
  <1> DEFINE x == b.XLSX["drawing"]
             c == b.Cache["drawing"]
             e == d.Cache["drawing"]
  <1>6. DOMAIN e = DOMAIN c \cup {n} /\ e[n] = q /\ \A m \in DOMAIN c : m # n => e[m] = c[m]
    <2>1. IsPut(e, c, n, q)
      BY <1>4, PutIs
    <2> QED
      BY <2>1 DEF IsPut
  <1>7. PartsOf(d, "drawing") = PartsOf(b, "drawing") \cup {n}
    BY <1>4, <1>6 DEF PartsOf, Parsed
  <1>8. DrawingsOK(d, P)
    <2> SUFFICES ASSUME NEW u \in PartsOf(b, "drawing") \cup {n}
                 PROVE  DrawingOK(d, P, Content(d, "drawing", u), Content(b, "drawingRels", u))
      BY <1>5, <1>7 DEF DrawingsOK
    <2>1. DrawingOK(b, P, Content(d, "drawing", u), Content(b, "drawingRels", u))
      BY <1>1, <1>3 DEF DrawingsOK
    <2> QED
      BY <1>2, <2>1, DrawingGrows, ContinuesSelf
  <1>9. KeptOK(d.XLSX["drawing"], d.Cache["drawing"])
    <2>1. /\ \A m \in DOMAIN x : NoText(x[m])
          /\ \A m \in DOMAIN c \ DOMAIN x : NoText(c[m])
          /\ \A m \in DOMAIN c \cap DOMAIN x : Begins(x[m], c[m]) /\ TextWithin(c[m], Len(x[m]))
      BY <1>1, Zenon DEF KeptOK
    <2>2. /\ n \in DOMAIN x => Begins(x[n], q) /\ TextWithin(q, Len(x[n]))
          /\ n \notin DOMAIN x => NoText(q)
      BY Zenon DEF KeepsText
    <2> HIDE DEF x, c, e
    <2>3. KeptOK(x, e)
      BY <1>6, <2>1, <2>2 DEF KeptOK
    <2> QED
      BY <1>4, <2>3 DEF x, e
  <1>10. NumberedOK(d)
    <2>1. \A k \in {"chart", "media", "table", "comments"} : PartsOf(d, k) = PartsOf(b, k)
      BY <1>4 DEF PartsOf, Parsed
    <2> QED
      BY <1>1, <1>7, <2>1 DEF NumberedOK
  <1> QED
    BY <1>2, <1>8, <1>9, <1>10 DEF FileInv

\* parsed anchors are the stored ones, kept as text
LEMMA TextIs ==
  ASSUME NEW c \in Seq(Anchors)
  PROVE  /\ AsText(c) \in Seq(Anchors) /\ Len(AsText(c)) = Len(c) /\ DOMAIN AsText(c) = DOMAIN c
         /\ \A i \in DOMAIN c : Alike(AsText(c)[i], c[i]) /\ AsText(c)[i].raw = TRUE
  <1> DEFINE a == AsText(c)
             yes == TRUE
  <1>1. yes \in BOOLEAN
    OBVIOUS
  <1>2. a = [i \in DOMAIN c |-> [c[i] EXCEPT !.raw = yes]]
    BY DEF AsText
  <1> HIDE DEF yes, a
  <1>3. ASSUME NEW i \in DOMAIN c
        PROVE  a[i] \in Anchors /\ Alike(a[i], c[i]) /\ a[i].raw = yes
    <2>1. c[i] \in Anchors
      OBVIOUS
    <2>2. a[i] = [c[i] EXCEPT !.raw = yes]
      BY <1>2
    <2> QED
      BY <1>1, <2>1, <2>2 DEF Anchors, Alike
  <1>4. DOMAIN c = 1..Len(c) /\ Len(c) \in Nat /\ DOMAIN a = DOMAIN c
    BY <1>2
  <1>5. a \in Seq(Anchors) /\ Len(a) = Len(c)
    BY <1>2, <1>3, <1>4
  <1> QED
    BY <1>3, <1>4, <1>5 DEF yes, a

LEMMA ReplacesTwice ==
  ASSUME NEW b, NEW c, NEW d, NEW kind, NEW n, NEW x, NEW y,
         Replaces(b, c, kind, n, x), Replaces(c, d, kind, n, y)
  PROVE  Replaces(b, d, kind, n, y)
  <1> DEFINE p == b.Cache[kind]
  <1>1. Put(Put(p, n, x), n, y) = Put(p, n, y)
    BY DEF Put
  <1>2. d.Cache[kind] = Put(p, n, y)
    BY <1>1 DEF Replaces
  <1> QED
    BY <1>2 DEF Replaces

\* what drawingParser returns
ParsedAnchors(b, n) == IF n \in DOMAIN b.Cache["drawing"] THEN b.Cache["drawing"][n]
                       ELSE IF n \in DOMAIN b.XLSX["drawing"] THEN AsText(b.XLSX["drawing"][n])
                       ELSE << >>

LEMMA ParsedAnchorsAre ==
  ASSUME NEW b, NEW P, FileInv(b, P), NEW n \in Number, NEW c, c = ParsedAnchors(b, n)
  PROVE  /\ c \in Seq(Anchors) /\ KeepsText(b, n, c) /\ Akin(Content(b, "drawing", n), c)
         /\ Len(c) = Len(Content(b, "drawing", n))
         /\ \A i \in DOMAIN c : Alike(c[i], Content(b, "drawing", n)[i])
         /\ \A rels : DrawingOK(b, P, Content(b, "drawing", n), rels) => DrawingOK(b, P, c, rels)
  <1> DEFINE x == b.XLSX["drawing"]
             k == b.Cache["drawing"]
             e == Content(b, "drawing", n)
  <1>1. IsFile(b) /\ KeptOK(x, k)
    BY DEF FileInv
  <1>2. Holds(x, "drawing") /\ Holds(k, "drawing")
    BY <1>1, FileFields DEF Stored, Parsed
  <1>3. e = IF n \in DOMAIN k THEN k[n] ELSE IF n \in DOMAIN x THEN x[n] ELSE << >>
    BY DEF Content
  <1>4. c = IF n \in DOMAIN k THEN k[n] ELSE IF n \in DOMAIN x THEN AsText(x[n]) ELSE << >>
    BY DEF ParsedAnchors
  <1>5. /\ \A m \in DOMAIN x : NoText(x[m])
        /\ \A m \in DOMAIN k \ DOMAIN x : NoText(k[m])
        /\ \A m \in DOMAIN k \cap DOMAIN x : Begins(x[m], k[m]) /\ TextWithin(k[m], Len(x[m]))
    BY <1>1, Zenon DEF KeptOK
  <1>6. /\ \A m \in DOMAIN x : x[m] \in Seq(Anchors)
        /\ \A m \in DOMAIN k : k[m] \in Seq(Anchors)
    BY <1>2, PartTypeIs DEF Holds
  <1>7. e \in Seq(Anchors)
    BY <1>1, DrawingType
  <1> HIDE DEF x, k, e
  <1>8. /\ c \in Seq(Anchors) /\ Len(c) = Len(e) /\ \A i \in DOMAIN c : Alike(c[i], e[i])
        /\ n \in DOMAIN x => Begins(x[n], c) /\ TextWithin(c, Len(x[n]))
        /\ n \notin DOMAIN x => NoText(c)
    <2>1. CASE n \in DOMAIN k
      <3>1. c = e /\ c = k[n]
        BY <1>3, <1>4, <2>1
      <3> QED
        BY <1>5, <1>6, <2>1, <3>1 DEF Alike
    <2>2. CASE n \notin DOMAIN k /\ n \in DOMAIN x
      <3>1. c = AsText(x[n]) /\ e = x[n] /\ x[n] \in Seq(Anchors)
        BY <1>3, <1>4, <1>6, <2>2
      <3>2. /\ c \in Seq(Anchors) /\ Len(c) = Len(e) /\ DOMAIN c = DOMAIN e
            /\ \A i \in DOMAIN e : Alike(c[i], e[i])
        BY <3>1, TextIs
      <3>3. Begins(e, c)
        BY <1>7, <3>2 DEF Begins, Alike
      <3>4. TextWithin(c, Len(e))
        BY <3>2 DEF TextWithin
      <3> QED
        BY <2>2, <3>1, <3>2, <3>3, <3>4
    <2>3. CASE n \notin DOMAIN k /\ n \notin DOMAIN x
      <3>1. c = << >> /\ e = << >>
        BY <1>3, <1>4, <2>3
      <3> QED
        BY <2>3, <3>1 DEF NoText
    <2> QED
      BY <2>1, <2>2, <2>3
  <1>9. KeepsText(b, n, c)
    BY <1>8, Zenon DEF KeepsText, x
  <1>10. DOMAIN c = DOMAIN e
    BY <1>7, <1>8
  <1>11. ASSUME NEW rels, DrawingOK(b, P, e, rels) PROVE DrawingOK(b, P, c, rels)
    BY <1>8, <1>10, <1>11 DEF DrawingOK, AnchorOK, Alike
  <1>12. Akin(e, c)
    BY <1>8, <1>10 DEF Akin, Alike
  <1> QED
    BY <1>8, <1>9, <1>11, <1>12 DEF e

LEMMA ParserIs ==
  ASSUME NEW b, NEW P, FileInv(b, P), NEW n \in Number, NEW d, d = DrawingParser(b, n)
  PROVE  /\ IsFile(d) /\ d.Cache["drawing"][n] = ParsedAnchors(b, n)
         /\ d = b \/ Replaces(b, d, "drawing", n, ParsedAnchors(b, n))
  <1> DEFINE c == ParsedAnchors(b, n)
  <1>1. IsFile(b)
    BY DEF FileInv
  <1>2. CASE n \in DOMAIN b.Cache["drawing"]
    BY <1>1, <1>2 DEF DrawingParser, ParsedAnchors
  <1>3. CASE n \notin DOMAIN b.Cache["drawing"]
    <2>1. d = PutCache(b, "drawing", n, c)
      BY <1>3 DEF DrawingParser, ParsedAnchors
    <2>2. c \in Seq(Anchors)
      BY ParsedAnchorsAre
    <2> HIDE DEF c
    <2>3. Replaces(b, d, "drawing", n, c)
      BY <1>1, <2>1, <2>2, PutCacheIs, PartTypeIs DEF Parsed
    <2>4. IsFile(d) /\ IsPut(d.Cache["drawing"], b.Cache["drawing"], n, c)
      BY <2>3, PutIs DEF Replaces
    <2> QED
      BY <2>3, <2>4 DEF IsPut, c
  <1> QED
    BY <1>2, <1>3

\* drawingParser changes how anchors are kept, and not what they are
LEMMA ParserKeeps ==
  ASSUME NEW b, NEW P, FileInv(b, P), NEW n \in PartsOf(b, "drawing"), NEW d, d = DrawingParser(b, n)
  PROVE  /\ FileInv(d, P) /\ Follows(b, d, {}, {}) /\ d.Sheet = b.Sheet
         /\ \A m : Content(d, "drawingRels", m) = Content(b, "drawingRels", m)
  <1> DEFINE c == ParsedAnchors(b, n)
  <1>1. IsFile(b) /\ DrawingsOK(b, P) /\ NumberedOK(b)
    BY DEF FileInv
  <1>2. n \in Number
    <2>1. Holds(b.XLSX["drawing"], "drawing") /\ Holds(b.Cache["drawing"], "drawing")
      BY <1>1, FileFields DEF Stored, Parsed
    <2> QED
      BY <2>1 DEF PartsOf, Parsed, Holds
  <1>3. UpTo(PartsOf(b, "drawing") \cup {n})
    <2>1. PartsOf(b, "drawing") \cup {n} = PartsOf(b, "drawing")
      OBVIOUS
    <2> QED
      BY <1>1, <2>1 DEF NumberedOK
  <1>4. DrawingOK(b, P, Content(b, "drawing", n), Content(b, "drawingRels", n))
    BY <1>1 DEF DrawingsOK
  <1>5. /\ KeepsText(b, n, c) /\ DrawingOK(b, P, c, Content(b, "drawingRels", n))
        /\ Akin(Content(b, "drawing", n), c)
    BY <1>2, <1>4, ParsedAnchorsAre
  <1>6. d = b \/ Replaces(b, d, "drawing", n, c)
    BY <1>2, ParserIs
  <1> HIDE DEF c
  <1>7. CASE d = b
    BY <1>7, FollowsKept
  <1>8. CASE Replaces(b, d, "drawing", n, c)
    <2>1. FileInv(d, P)
      BY <1>2, <1>3, <1>5, <1>8, DrawingTurned
    <2>2. \A m : Content(d, "drawingRels", m) = Content(b, "drawingRels", m)
      BY <1>8 DEF Replaces, Content, Parsed
    <2>3. Follows(b, d, {}, {})
      BY <1>5, <1>8, FollowsDrawing
    <2>4. d.Sheet = b.Sheet
      BY <1>8 DEF Replaces
    <2> QED
      BY <2>1, <2>2, <2>3, <2>4
  <1> QED
    BY <1>6, <1>7, <1>8

AnchorOf(kind, cell, rid) == [kind |-> kind, cell |-> cell, rid |-> rid, raw |-> FALSE]

LEMMA AnchorType ==
  ASSUME NEW kind \in {"pic", "chart", "sp"}, NEW cell \in Cells, NEW rid \in Nat,
         NEW a, a = AnchorOf(kind, cell, rid)
  PROVE  a \in Anchors /\ a.kind = kind /\ a.rid = rid /\ a.cell = cell /\ ~a.raw
  <1> DEFINE no == FALSE
  <1>1. no \in BOOLEAN /\ ~no
    OBVIOUS
  <1>2. a = [kind |-> kind, cell |-> cell, rid |-> rid, raw |-> no]
    BY DEF AnchorOf
  <1> HIDE DEF no
  <1>3. a \in Anchors /\ a.kind = kind /\ a.rid = rid /\ a.cell = cell /\ a.raw = no
    BY <1>1, <1>2 DEF Anchors
  <1> QED
    BY <1>1, <1>3

\* an anchor that was added is not text
LEMMA AppendAnchor ==
  ASSUME NEW b, NEW P, NEW n, NEW c \in Seq(Anchors), NEW a \in Anchors, ~a.raw, KeepsText(b, n, c),
         NEW rels, DrawingOK(b, P, c, rels), AnchorOK(b, P, rels, a),
         n \in DOMAIN b.XLSX["drawing"] => b.XLSX["drawing"][n] \in Seq(Anchors),
         NEW q, q = Append(c, a)
  PROVE  q \in Seq(Anchors) /\ KeepsText(b, n, q) /\ DrawingOK(b, P, q, rels)
  <1>1. /\ q \in Seq(Anchors) /\ DOMAIN q = 1..(Len(c) + 1) /\ DOMAIN c = 1..Len(c) /\ Len(c) \in Nat
        /\ Len(q) = Len(c) + 1
        /\ q[Len(c) + 1] = a /\ \A i \in 1..Len(c) : q[i] = c[i]
    OBVIOUS
  <1>2. \A i \in DOMAIN q : (i \in DOMAIN c /\ q[i] = c[i]) \/ q[i] = a
    BY <1>1
  <1>3. DrawingOK(b, P, q, rels)
    BY <1>2, Zenon DEF DrawingOK
  <1>4. NoText(c) => NoText(q)
    BY <1>2, Zenon DEF NoText
  <1>5. \A m : TextWithin(c, m) => TextWithin(q, m)
    BY <1>2, Zenon DEF TextWithin
  <1>6. ASSUME NEW x \in Seq(Anchors), Begins(x, c) PROVE Begins(x, q)
    <2>1. Len(x) <= Len(c) /\ Len(x) \in Nat /\ DOMAIN x = 1..Len(x) /\ \A i \in DOMAIN x : Alike(x[i], c[i])
      BY <1>6 DEF Begins
    <2>2. Len(x) <= Len(q) /\ \A i \in DOMAIN x : q[i] = c[i]
      BY <1>1, <2>1
    <2> QED
      BY <2>1, <2>2 DEF Begins
  <1> QED
    BY <1>1, <1>3, <1>4, <1>5, <1>6, Zenon DEF KeepsText

\* d has anchor a behind the others of drawing n
Anchored(b, d, n, a) ==
  /\ Follows(b, d, {n}, {}) /\ d.Sheet = b.Sheet /\ a \in Anchors
  /\ \E x \in Seq(Anchors) : /\ Akin(Content(b, "drawing", n), x)
                             /\ Content(d, "drawing", n) = Append(x, a)

\* an anchor and its content type
LEMMA AnchorAdded ==
  ASSUME NEW b, NEW P, FileInv(b, P), NEW n \in Number, UpTo(PartsOf(b, "drawing") \cup {n}),
         NEW kind \in {"pic", "chart", "sp"}, NEW cell \in Cells, NEW rid \in Nat,
         kind = "pic" => LeadsTo(b, P, Content(b, "drawingRels", n), rid, "image"),
         kind = "chart" => LeadsTo(b, P, Content(b, "drawingRels", n), rid, "chart"),
         NEW d, d = AddAnchor(b, n, kind, cell, rid)
  PROVE  /\ FileInv(d, P) /\ d.XLSX = b.XLSX /\ Anchored(b, d, n, AnchorOf(kind, cell, rid))
         /\ <<"drawing", n>> \in d.Overrides /\ "image" \in d.Defaults
         /\ n \in PartsOf(d, "drawing")
         /\ \A k \in Stored : k # "drawing" => PartsOf(d, k) = PartsOf(b, k)
  <1> DEFINE x == ParsedAnchors(b, n)
             c == DrawingParser(b, n)
             a == AnchorOf(kind, cell, rid)
             q == Append(x, a)
             e == PutCache(c, "drawing", n, q)
             rels == Content(b, "drawingRels", n)
  <1>1. IsFile(b) /\ DrawingsOK(b, P)
    BY DEF FileInv
  <1>2. /\ IsFile(c) /\ c.Cache["drawing"][n] = x
        /\ c = b \/ Replaces(b, c, "drawing", n, x)
    BY ParserIs
  <1>3. d = AddContentTypePart(e, "drawing", n)
    BY <1>2, Zenon DEF AddAnchor, AnchorOf
  <1>4. a \in Anchors /\ a.kind = kind /\ a.rid = rid /\ a.cell = cell /\ ~a.raw
    BY AnchorType
  <1>5. /\ x \in Seq(Anchors) /\ KeepsText(b, n, x)
        /\ \A r : DrawingOK(b, P, Content(b, "drawing", n), r) => DrawingOK(b, P, x, r)
        /\ Akin(Content(b, "drawing", n), x)
    BY ParsedAnchorsAre
  <1>6. DrawingOK(b, P, x, rels)
    <2>1. CASE n \in PartsOf(b, "drawing")
      BY <1>1, <1>5, <2>1 DEF DrawingsOK
    <2>2. CASE n \notin PartsOf(b, "drawing")
      <3>1. x = << >>
        BY <2>2 DEF ParsedAnchors, PartsOf, Parsed
      <3> QED
        BY <3>1 DEF DrawingOK
    <2> QED
      BY <2>1, <2>2
  <1>7. AnchorOK(b, P, rels, a)
    BY <1>4 DEF AnchorOK
  <1>8. n \in DOMAIN b.XLSX["drawing"] => b.XLSX["drawing"][n] \in Seq(Anchors)
    <2>1. Holds(b.XLSX["drawing"], "drawing")
      BY <1>1, FileFields DEF Stored, Parsed
    <2> QED
      BY <2>1, PartTypeIs DEF Holds
  <1> HIDE DEF a, x, c, rels
  <1>9. q \in Seq(Anchors) /\ KeepsText(b, n, q) /\ DrawingOK(b, P, q, rels)
    BY <1>4, <1>5, <1>6, <1>7, <1>8, AppendAnchor
  <1> HIDE DEF q
  <1>10. Replaces(c, e, "drawing", n, q)
    BY <1>2, <1>9, PutCacheIs, PartTypeIs DEF Parsed
  <1> HIDE DEF e
  <1>11. Replaces(b, e, "drawing", n, q)
    BY <1>2, <1>10, ReplacesTwice
  <1>12. FileInv(e, P)
    BY <1>9, <1>11, DrawingTurned DEF rels
  <1>13. IsFile(e) /\ e.XLSX = b.XLSX
    BY <1>11 DEF Replaces
  <1>14. /\ n \in PartsOf(e, "drawing")
         /\ \A k \in Stored : k # "drawing" => PartsOf(e, k) = PartsOf(b, k)
    <2>1. /\ e.Cache["drawing"] = Put(b.Cache["drawing"], n, q)
          /\ \A k \in Parsed : k # "drawing" => e.Cache[k] = b.Cache[k]
      BY <1>11 DEF Replaces
    <2>2. IsPut(e.Cache["drawing"], b.Cache["drawing"], n, q)
      BY <2>1, PutIs
    <2> QED
      BY <1>13, <2>1, <2>2 DEF PartsOf, IsPut, Parsed
  <1>15. /\ Relabels(e, d) /\ <<"drawing", n>> \in d.Overrides
         /\ "image" \in d.Defaults
    BY <1>3, <1>13, ContentTypePartIs DEF OverrideKinds
  <1>16. FileInv(d, P) /\ \A k : PartsOf(d, k) = PartsOf(e, k)
    BY <1>12, <1>15, RelabelsKeeps
  <1>17. d.XLSX = b.XLSX /\ d.XLSX = e.XLSX /\ d.Cache = e.Cache /\ d.Sheet = b.Sheet
    BY <1>11, <1>13, <1>15 DEF Relabels, Replaces
  <1>18. Follows(b, e, {n}, {}) /\ Content(e, "drawing", n) = q
    BY <1>11, FollowsDrawing
  <1>19. Follows(e, d, {}, {}) /\ Content(d, "drawing", n) = Content(e, "drawing", n)
    BY <1>17, FollowsKept DEF Content
  <1>20. Follows(b, d, {n}, {})
    BY <1>18, <1>19, FollowsOn
  <1>21. Anchored(b, d, n, a)
    BY <1>4, <1>5, <1>17, <1>18, <1>19, <1>20 DEF Anchored, q
  <1> QED
    BY <1>14, <1>15, <1>16, <1>17, <1>21 DEF a

-----------------------------------------------------------------------------
(* A sheet's drawing.                                                      *)

\* without promises, the parts a sheet refers to are there
LEMMA DrawingHere ==
  ASSUME NEW b, FileInv(b, {}), NEW s \in DOMAIN b.Sheet
  PROVE  /\ b.Sheet[s].drawing # 0 => /\ DrawingOf(b, s) \in PartsOf(b, "drawing")
                                      /\ DrawingOf(b, s) \in Number
                                      /\ <<"drawing", DrawingOf(b, s)>> \in b.Overrides
         /\ b.Sheet[s].drawing = 0 => DrawingOf(b, s) = 0
  <1> DEFINE r == Content(b, "sheetRels", s)
             w == b.Sheet[s]
  <1>1. IsFile(b) /\ SheetOK(b, {}, w, r)
    BY DEF FileInv, SheetsOK
  <1>2. r \in Seq(Rels)
    BY <1>1, SheetRelsType
  <1>3. DrawingOf(b, s) = Ref(r, w.drawing)
    BY RefIs
  <1> HIDE DEF r, w
  <1>4. CASE w.drawing # 0
    <2>1. w.drawing \in DOMAIN r /\ Known(b, {}, "drawing", r[w.drawing].target)
      BY <1>1, <1>4 DEF SheetOK, LeadsTo
    <2>2. Ref(r, w.drawing) = r[w.drawing].target /\ r[w.drawing] \in Rels
      BY <1>2, <2>1 DEF Ref
    <2>3. Ref(r, w.drawing) \in PartsOf(b, "drawing") /\ <<"drawing", Ref(r, w.drawing)>> \in b.Overrides
      BY <2>1, <2>2 DEF Known
    <2>4. Ref(r, w.drawing) \in Number
      BY <2>2 DEF Rels, Number
    <2> QED
      BY <1>3, <1>4, <2>3, <2>4 DEF w
  <1>5. CASE w.drawing = 0
    <2>1. 0 \notin DOMAIN r
      BY <1>2
    <2> QED
      BY <1>3, <1>5, <2>1 DEF Ref, w
  <1> QED
    BY <1>4, <1>5

LEMMA LegacyHere ==
  ASSUME NEW b, FileInv(b, {}), NEW s \in DOMAIN b.Sheet
  PROVE  /\ b.Sheet[s].legacyDrawing # 0 =>
              /\ LegacyDrawingOf(b, s) \in PartsOf(b, "comments")
              /\ LegacyDrawingOf(b, s) \in PartsOf(b, "vml")
              /\ LegacyDrawingOf(b, s) \in Number
         /\ b.Sheet[s].legacyDrawing = 0 => LegacyDrawingOf(b, s) = 0
  <1> DEFINE r == Content(b, "sheetRels", s)
             w == b.Sheet[s]
  <1>1. IsFile(b) /\ SheetOK(b, {}, w, r) /\ PartsOf(b, "vml") = PartsOf(b, "comments")
    BY DEF FileInv, SheetsOK, NotesOK
  <1>2. r \in Seq(Rels)
    BY <1>1, SheetRelsType
  <1>3. LegacyDrawingOf(b, s) = Ref(r, w.legacyDrawing)
    BY RefIs
  <1> HIDE DEF r, w
  <1>4. CASE w.legacyDrawing # 0
    <2>1. w.legacyDrawing \in DOMAIN r /\ Known(b, {}, "vml", r[w.legacyDrawing].target)
      BY <1>1, <1>4 DEF SheetOK, LeadsTo
    <2>2. Ref(r, w.legacyDrawing) = r[w.legacyDrawing].target /\ r[w.legacyDrawing] \in Rels
      BY <1>2, <2>1 DEF Ref
    <2>3. Ref(r, w.legacyDrawing) \in PartsOf(b, "vml")
      BY <2>1, <2>2 DEF Known, OverrideKinds
    <2>4. Ref(r, w.legacyDrawing) \in Number
      BY <2>2 DEF Rels, Number
    <2> QED
      BY <1>1, <1>3, <1>4, <2>3, <2>4 DEF w
  <1>5. CASE w.legacyDrawing = 0
    <2>1. 0 \notin DOMAIN r
      BY <1>2
    <2> QED
      BY <1>3, <1>5, <2>1 DEF Ref, w
  <1> QED
    BY <1>4, <1>5

\* the references of a sheet that keeps its drawings are still its own
LEMMA StillApart ==
  ASSUME NEW b, NEW P, FileInv(b, P), NEW s \in DOMAIN b.Sheet, NEW q \in Seq(Rels),
         Continues(Content(b, "sheetRels", s), q)
  PROVE  /\ Ref(q, b.Sheet[s].drawing) = DrawingOf(b, s)
         /\ Ref(q, b.Sheet[s].legacyDrawing) = LegacyDrawingOf(b, s)
         /\ \A u \in DOMAIN b.Sheet :
              u # s => /\ DrawingOf(b, s) # 0 => DrawingOf(b, s) # DrawingOf(b, u)
                       /\ LegacyDrawingOf(b, s) # 0 => LegacyDrawingOf(b, s) # LegacyDrawingOf(b, u)
  <1> DEFINE r == Content(b, "sheetRels", s)
             w == b.Sheet[s]
  <1>1. IsFile(b) /\ SheetOK(b, P, w, r) /\ OwnOK(b)
    BY DEF FileInv, SheetsOK
  <1>2. r \in Seq(Rels)
    BY <1>1, SheetRelsType
  <1>3. DrawingOf(b, s) = Ref(r, w.drawing) /\ LegacyDrawingOf(b, s) = Ref(r, w.legacyDrawing)
    BY RefIs
  <1>4. /\ w.drawing = 0 \/ w.drawing \in DOMAIN r
        /\ w.legacyDrawing = 0 \/ w.legacyDrawing \in DOMAIN r
    BY <1>1, SheetRefs
  <1>5. Continues(r, q)
    OBVIOUS
  <1> HIDE DEF r
  <1>6. Ref(q, w.drawing) = Ref(r, w.drawing) /\ Ref(q, w.legacyDrawing) = Ref(r, w.legacyDrawing)
    BY <1>2, <1>4, <1>5, RefContinues
  <1> QED
    BY <1>1, <1>3, <1>6 DEF OwnOK

\* a relationship q[Len(q)] that a field of the sheet may refer to
Gives(b, c, s, P, Q, q, type, t) ==
  /\ FileInv(c, P) /\ Replaces(b, c, "sheetRels", s, q) /\ q \in Seq(Rels)
  /\ Continues(Content(b, "sheetRels", s), q)
  /\ LastRID(c, "sheetRels", s) = Len(q) /\ Len(q) \in Number
  /\ LeadsTo(c, Q, q, Len(q), type) /\ Ref(q, Len(q)) = t
  /\ SheetOK(c, Q, b.Sheet[s], q) /\ b.Sheet[s] \in Worksheets /\ c.Sheet = b.Sheet

LEMMA SheetRelGives ==
  ASSUME NEW b, NEW P, FileInv(b, P), NEW s \in DOMAIN b.Sheet,
         NEW type \in RelTypes, type # "comments", NEW t \in Number,
         NEW c, c = AddSheetRelationships(b, s, type, t), NEW Q, P \subseteq Q, <<type, t>> \in Q,
         NEW q, q = Append(Content(b, "sheetRels", s), RelOf(type, t))
  PROVE  Gives(b, c, s, P, Q, q, type, t)
  <1> DEFINE r == Content(b, "sheetRels", s)
             x == RelOf(type, t)
  <1>1. IsFile(b) /\ SheetOK(b, P, b.Sheet[s], r)
    BY DEF FileInv, SheetsOK
  <1>2. /\ r \in Seq(Rels) /\ x \in Rels /\ x.type = type /\ x.target = t
    BY <1>1, SheetRelsType DEF RelOf, Rels, RelTypes, Number
  <1>3. FileInv(c, P) /\ Replaces(b, c, "sheetRels", s, q)
    BY SheetRelAdded
  <1>4. Grows(b, c) /\ c.Sheet = b.Sheet
    <2>1. Grows(b, c)
      BY <1>3, OtherKinds DEF Parsed
    <2> QED
      BY <1>3, <2>1 DEF Replaces
  <1>5. b.Sheet[s] \in Worksheets
    BY <1>1, FileFields DEF IsSheets
  <1> HIDE DEF x
  <1>6. /\ q \in Seq(Rels) /\ Continues(r, q) /\ Quietly(r, q) /\ Len(q) = Len(r) + 1 /\ Len(r) \in Nat
        /\ q[Len(q)] = x /\ Len(q) \in DOMAIN q
    BY <1>2, ContinuesAppend DEF x
  <1>7. Content(c, "sheetRels", s) = q
    <2> DEFINE kind == "sheetRels"
    <2>1. kind \in Parsed /\ Replaces(b, c, kind, s, q)
      BY <1>3 DEF Parsed
    <2> HIDE DEF kind
    <2>2. Content(c, kind, s) = q
      BY ONLY <2>1, ReplacesOne
    <2> QED
      BY <2>2 DEF kind
  <1>8. LastRID(c, "sheetRels", s) = Len(q) /\ Len(q) \in Number
    BY <1>6, <1>7 DEF LastRID, Number
  <1> HIDE DEF r
  <1>9. LeadsTo(c, Q, q, Len(q), type) /\ Ref(q, Len(q)) = t
    BY <1>2, <1>6 DEF LeadsTo, Known, Ref
  <1>10. SheetOK(c, Q, b.Sheet[s], q)
    BY <1>1, <1>4, <1>6, SheetGrows
  <1> QED
    BY <1>3, <1>4, <1>5, <1>6, <1>8, <1>9, <1>10 DEF r, Gives

\* a sheet's relationships are added to, and it refers to them
Attaches(b, d, s, w) ==
  /\ Follows(b, d, {}, {}) /\ SheetsBut(b, d, s) /\ d.Sheet[s] = w

LEMMA AttachesIs ==
  ASSUME NEW b, IsFile(b), NEW s \in DOMAIN b.Sheet, NEW c, NEW q, NEW d, NEW w,
         Replaces(b, c, "sheetRels", s, q), Continues(Content(b, "sheetRels", s), q),
         Edits(c, d, s, w)
  PROVE  Attaches(b, d, s, w)
  <1>1. Follows(b, c, {}, {}) /\ c.Sheet = b.Sheet
    <2> DEFINE kind == "sheetRels"
    <2>1. /\ kind \in {"sheetRels", "drawingRels"} /\ Replaces(b, c, kind, s, q)
          /\ Continues(Content(b, kind, s), q)
      OBVIOUS
    <2> HIDE DEF kind
    <2> QED
      BY <2>1, FollowsRels DEF Replaces
  <1>2. Follows(c, d, {}, {})
    BY FollowsKept DEF Edits
  <1>3. Follows(b, d, {}, {})
    BY <1>1, <1>2, FollowsOn
  <1>4. d.Sheet = [b.Sheet EXCEPT ![s] = w]
    BY <1>1 DEF Edits
  <1>5. SheetsBut(b, d, s) /\ d.Sheet[s] = w
    BY <1>4 DEF SheetsBut
  <1> QED
    BY <1>3, <1>5 DEF Attaches

\* sheet s of d has drawing n: the one it had in b, or a new one
DrawingReady(b, d, s, n) ==
  /\ SheetsBut(b, d, s) /\ d.Sheet[s].drawing # 0
  /\ d.Sheet[s].legacyDrawing = b.Sheet[s].legacyDrawing
  /\ d.Sheet[s].picture = b.Sheet[s].picture /\ d.Sheet[s].tableParts = b.Sheet[s].tableParts
  /\ IF b.Sheet[s].drawing = 0 THEN n \notin PartsOf(b, "drawing") ELSE n = DrawingOf(b, s)

\* the drawing of a sheet is there, or has the next number
LEMMA DrawingPrepared ==
  ASSUME NEW b, FileInv(b, {}), NEW s \in DOMAIN b.Sheet,
         \/ b.Sheet[s].drawing # 0
         \/ DOMAIN b.XLSX["drawing"] \subseteq DOMAIN b.Cache["drawing"]
         \/ DOMAIN b.Cache["drawing"] \subseteq DOMAIN b.XLSX["drawing"],
         NEW d, d = PrepareDrawing(b, s), NEW n, n = DrawingOf(d, s)
  PROVE  /\ FileInv(d, {<<"drawing", n>>}) /\ n \in Number
         /\ UpTo(PartsOf(d, "drawing") \cup {n}) /\ d.XLSX = b.XLSX
         /\ Follows(b, d, {}, {}) /\ DrawingReady(b, d, s, n)
  <1>1. IsFile(b) /\ NumberedOK(b)
    BY DEF FileInv
  <1>2. CASE b.Sheet[s].drawing # 0
    <2>1. d = Reader(b, "sheetRels", s)
      BY <1>2 DEF PrepareDrawing, WorkSheetRelsReader
    <2>2. SameView(b, d)
      BY <1>1, <2>1, ReaderIs
    <2>3. FileInv(d, {}) /\ d.Sheet = b.Sheet /\ d.XLSX = b.XLSX
      BY <2>2, SameViewKeeps DEF SameView
    <2>4. n \in PartsOf(d, "drawing") /\ n \in Number
      BY <1>2, <2>3, DrawingHere
    <2>5. IsFile(d) /\ UpTo(PartsOf(d, "drawing"))
      BY <2>3 DEF FileInv, NumberedOK
    <2>6. PartsOf(d, "drawing") \cup {n} = PartsOf(d, "drawing")
      BY <2>4
    <2>7. FileInv(d, {<<"drawing", n>>})
      BY <2>3, <2>5, RelabelsSelf, RelabelsKeeps
    <2>8. \A k \in Parsed : \A m : Content(d, k, m) = Content(b, k, m)
      BY <2>2 DEF SameView
    <2>9. Follows(b, d, {}, {})
      BY <2>3, <2>8, FollowsSame
    <2>10. n = DrawingOf(b, s)
      BY <2>3, <2>8 DEF DrawingOf, GetSheetRelationshipsTargetByID, TargetByID, Parsed
    <2>11. DrawingReady(b, d, s, n)
      BY <1>2, <2>3, <2>10 DEF DrawingReady, SheetsBut
    <2> QED
      BY <2>3, <2>4, <2>5, <2>6, <2>7, <2>9, <2>11
  <1>3. CASE b.Sheet[s].drawing = 0
    <2>1. PICK m \in Nat : PartsOf(b, "drawing") = 1..m
      BY <1>1 DEF NumberedOK, UpTo
    <2>2. CountDrawings(b) = m
      BY <1>3, <2>1, CountEitherIs DEF CountDrawings, Parsed
    <2>3. m + 1 \in Number /\ UpTo(PartsOf(b, "drawing") \cup {m + 1}) /\ m + 1 \notin PartsOf(b, "drawing")
      BY <2>1, NextNumber
    <2> DEFINE id == m + 1
               type == "drawing"
               c == AddSheetRelationships(b, s, type, id)
               P == {}
               Q == {<<type, id>>}
               q == Append(Content(b, "sheetRels", s), RelOf(type, id))
               w == [b.Sheet[s] EXCEPT !.drawing = Len(q)]
               v == [c.Sheet EXCEPT ![s] = w]
    <2>4. d = AddSheetDrawing(c, s)
      BY <1>3, <2>2 DEF PrepareDrawing
    <2>5. /\ id \in Number /\ type \in RelTypes /\ type # "comments"
          /\ P \subseteq Q /\ <<type, id>> \in Q /\ FileInv(b, P) /\ s \in DOMAIN b.Sheet
      BY <2>3 DEF RelTypes
    <2>c. /\ c = AddSheetRelationships(b, s, type, id)
          /\ q = Append(Content(b, "sheetRels", s), RelOf(type, id))
      OBVIOUS
    <2> HIDE DEF id, type, P, Q, c, q
    <2>6. /\ FileInv(c, P) /\ Replaces(b, c, "sheetRels", s, q) /\ q \in Seq(Rels)
          /\ Continues(Content(b, "sheetRels", s), q)
          /\ LastRID(c, "sheetRels", s) = Len(q) /\ Len(q) \in Number
          /\ LeadsTo(c, Q, q, Len(q), type) /\ Ref(q, Len(q)) = id
          /\ SheetOK(c, Q, b.Sheet[s], q) /\ b.Sheet[s] \in Worksheets /\ c.Sheet = b.Sheet
      <3>1. Gives(b, c, s, P, Q, q, type, id)
        BY ONLY <2>5, <2>c, SheetRelGives
      <3> QED
        BY <3>1 DEF Gives
    <2>7. d = [c EXCEPT !.Sheet = v]
      <3>1. [c.Sheet EXCEPT ![s].drawing = Len(q)] = v
        BY <2>6
      <3> QED
        BY <2>4, <2>6, <3>1 DEF AddSheetDrawing
    <2>8. /\ w \in Worksheets /\ w.drawing = Len(q) /\ w.legacyDrawing = b.Sheet[s].legacyDrawing
          /\ w.picture = b.Sheet[s].picture /\ w.tableParts = b.Sheet[s].tableParts
      BY <2>6 DEF Worksheets, Number
    <2>v. v = [c.Sheet EXCEPT ![s] = w]
      OBVIOUS
    <2> HIDE DEF w, v
    <2>9. SheetOK(c, Q, w, q)
      BY <2>6, <2>8 DEF SheetOK, type
    <2>10. Apart(b, s, w, q)
      <3>1. \A u \in DOMAIN b.Sheet : DrawingOf(b, u) # id
        <4> TAKE u \in DOMAIN b.Sheet
        <4>1. DrawingOf(b, u) \in PartsOf(b, "drawing") \/ DrawingOf(b, u) = 0
          BY DrawingHere
        <4>2. id \notin PartsOf(b, "drawing") /\ id # 0
          BY <2>3, <2>5 DEF id, Number
        <4> QED
          BY <4>1, <4>2
      <3>2. /\ Ref(q, w.drawing) = id
            /\ Ref(q, w.legacyDrawing) = LegacyDrawingOf(b, s)
            /\ \A u \in DOMAIN b.Sheet :
                 u # s => (LegacyDrawingOf(b, s) # 0 => LegacyDrawingOf(b, s) # LegacyDrawingOf(b, u))
        BY <2>6, <2>8, StillApart
      <3> QED
        BY <3>1, <3>2 DEF Apart
    <2>11. FileInv(d, Q) /\ Edits(c, d, s, w) /\ DrawingOf(d, s) = Ref(q, w.drawing)
      BY ONLY <2>5, <2>6, <2>7, <2>8, <2>v, <2>9, <2>10, SheetTurned
    <2>12. n = id
      BY <2>6, <2>8, <2>11
    <2>13. c.XLSX = b.XLSX /\ d.XLSX = c.XLSX /\ d.Cache = c.Cache /\ c.Cache["drawing"] = b.Cache["drawing"]
      BY <2>6, <2>11 DEF Replaces, Edits, Parsed
    <2>14. PartsOf(d, "drawing") = PartsOf(b, "drawing")
      BY <2>13 DEF PartsOf
    <2>15. Attaches(b, d, s, w)
      BY <1>1, <2>6, <2>11, AttachesIs
    <2>16. DrawingReady(b, d, s, n)
      BY <1>3, <2>3, <2>6, <2>8, <2>12, <2>15 DEF DrawingReady, Attaches, Number, id
    <2>17. Follows(b, d, {}, {})
      BY <2>15 DEF Attaches
    <2> QED
      BY <2>3, <2>5, <2>11, <2>12, <2>13, <2>14, <2>16, <2>17 DEF id, Q, type
  <1> QED
    BY <1>2, <1>3

\* a relationship of drawing n that an anchor may refer to
GivesDrawing(b, c, n, P, Q, type, t) ==
  /\ FileInv(c, P) /\ FileInv(c, Q) /\ Grows(b, c) /\ c.XLSX = b.XLSX
  /\ Continues(Content(b, "drawingRels", n), Content(c, "drawingRels", n))
  /\ LastRID(c, "drawingRels", n) \in Number
  /\ LeadsTo(c, Q, Content(c, "drawingRels", n), LastRID(c, "drawingRels", n), type)
  /\ PartsOf(c, "drawing") = PartsOf(b, "drawing")
  /\ Follows(b, c, {}, {}) /\ c.Sheet = b.Sheet

LEMMA DrawingRelGives ==
  ASSUME NEW b, NEW P, FileInv(b, P), NEW n \in Number, NEW type \in RelTypes, NEW t \in Number,
         NEW c, c = AddDrawingRelationships(b, n, type, t), NEW Q, P \subseteq Q, <<type, t>> \in Q
  PROVE  GivesDrawing(b, c, n, P, Q, type, t)
  <1> DEFINE r == Content(b, "drawingRels", n)
             x == RelOf(type, t)
             q == Append(r, x)
  <1>1. IsFile(b)
    BY DEF FileInv
  <1>2. /\ r \in Seq(Rels) /\ x \in Rels /\ x.type = type /\ x.target = t
    BY <1>1, DrawingRelsType DEF RelOf, Rels, RelTypes, Number
  <1>3. FileInv(c, P) /\ Replaces(b, c, "drawingRels", n, q)
    BY DrawingRelAdded
  <1> HIDE DEF x
  <1>4. /\ q \in Seq(Rels) /\ Continues(r, q) /\ Len(q) = Len(r) + 1 /\ Len(r) \in Nat
        /\ q[Len(q)] = x /\ Len(q) \in DOMAIN q
    BY <1>2, ContinuesAppend
  <1> HIDE DEF q, r
  <1>5. Grows(b, c)
    BY <1>3, OtherKinds DEF Parsed
  <1>6. IsFile(c) /\ c.XLSX = b.XLSX /\ c.Cache["drawing"] = b.Cache["drawing"]
    BY <1>3 DEF Replaces, Parsed
  <1>7. Content(c, "drawingRels", n) = q
    <2> DEFINE kind == "drawingRels"
    <2>1. kind \in Parsed /\ Replaces(b, c, kind, n, q)
      BY <1>3 DEF Parsed
    <2> HIDE DEF kind
    <2>2. Content(c, kind, n) = q
      BY ONLY <2>1, ReplacesOne
    <2> QED
      BY <2>2 DEF kind
  <1>8. LastRID(c, "drawingRels", n) = Len(q) /\ Len(q) \in Number
    BY <1>4, <1>7 DEF LastRID, Number
  <1>9. LeadsTo(c, Q, q, Len(q), type)
    BY <1>2, <1>4 DEF LeadsTo, Known
  <1>10. PartsOf(c, "drawing") = PartsOf(b, "drawing")
    BY <1>6 DEF PartsOf
  <1>11. FileInv(c, Q)
    BY ONLY <1>3, <1>6, P \subseteq Q, RelabelsSelf, RelabelsKeeps
  <1>12. Follows(b, c, {}, {})
    <2> DEFINE kind == "drawingRels"
    <2>1. /\ kind \in {"sheetRels", "drawingRels"} /\ Replaces(b, c, kind, n, q)
          /\ Continues(Content(b, kind, n), q)
      BY <1>3, <1>4 DEF r
    <2> HIDE DEF kind
    <2> QED
      BY <2>1, FollowsRels
  <1>13. c.Sheet = b.Sheet
    BY <1>3 DEF Replaces
  <1> QED
    BY <1>3, <1>4, <1>5, <1>6, <1>7, <1>8, <1>9, <1>10, <1>11, <1>12, <1>13 DEF GivesDrawing, r

\* the drawing a sheet has, or may have
Prepared(b, s) ==
  \/ b.Sheet[s].drawing # 0
  \/ DOMAIN b.XLSX["drawing"] \subseteq DOMAIN b.Cache["drawing"]
  \/ DOMAIN b.Cache["drawing"] \subseteq DOMAIN b.XLSX["drawing"]

IsPrepared(b, d, s, n) ==
  /\ FileInv(d, {<<"drawing", n>>}) /\ n \in Number
  /\ UpTo(PartsOf(d, "drawing") \cup {n}) /\ d.XLSX = b.XLSX
  /\ Follows(b, d, {}, {}) /\ DrawingReady(b, d, s, n)

LEMMA PreparedIs ==
  ASSUME NEW b, FileInv(b, {}), NEW s \in DOMAIN b.Sheet, Prepared(b, s),
         NEW d, d = PrepareDrawing(b, s), NEW n, n = DrawingOf(d, s)
  PROVE  IsPrepared(b, d, s, n)
  BY DrawingPrepared DEF Prepared, IsPrepared

\* sheet s has anchor a behind the others of its drawing, and nothing else
Draws(b, d, s, n, a) ==
  /\ Follows(b, d, {n}, {}) /\ DrawingReady(b, d, s, n) /\ DrawingOf(d, s) = n /\ a \in Anchors
  /\ \E x \in Seq(Anchors) : /\ Akin(Content(b, "drawing", n), x)
                             /\ Akin(Append(x, a), Content(d, "drawing", n))

LEMMA DrawsIs ==
  ASSUME NEW b, NEW s, NEW n \in Number, NEW a,
         NEW c, Follows(b, c, {}, {}), DrawingReady(b, c, s, n), DrawingOf(c, s) = n,
         NEW e, Follows(c, e, {}, {}), e.Sheet = c.Sheet,
         NEW g, Anchored(e, g, n, a), NEW d, Follows(g, d, {}, {}), d.Sheet = g.Sheet
  PROVE  Draws(b, d, s, n, a)
  <1>1. /\ Follows(e, g, {n}, {}) /\ g.Sheet = e.Sheet /\ a \in Anchors
        /\ \E x \in Seq(Anchors) : /\ Akin(Content(e, "drawing", n), x)
                                   /\ Content(g, "drawing", n) = Append(x, a)
    BY DEF Anchored
  <1>2. Follows(b, e, {}, {})
    BY FollowsOn
  <1>3. Follows(e, d, {n}, {})
    BY <1>1, FollowsOn
  <1>4. Follows(b, d, {n}, {})
    BY <1>2, <1>3, FollowsOn
  <1>5. DrawingReady(b, d, s, n)
    BY <1>1 DEF DrawingReady, SheetsBut
  <1>6. DrawingOf(d, s) = n
    <2> DEFINE rid == c.Sheet[s].drawing
    <2>1. Follows(c, d, {n}, {})
      BY <1>3, FollowsOn
    <2>2. Continues(Content(c, "sheetRels", s), Content(d, "sheetRels", s))
      BY <2>1 DEF Follows
    <2>3. Ref(Content(c, "sheetRels", s), rid) = n /\ d.Sheet[s].drawing = rid
      BY <1>1, RefIs
    <2>4. Ref(Content(d, "sheetRels", s), rid) = n
      BY <2>2, <2>3 DEF Ref, Continues, Number
    <2> QED
      BY <2>3, <2>4, RefIs
  <1>7. PICK x \in Seq(Anchors) : /\ Akin(Content(e, "drawing", n), x)
                                 /\ Content(g, "drawing", n) = Append(x, a)
    BY <1>1
  <1>8. Akin(Content(b, "drawing", n), Content(e, "drawing", n))
    BY <1>2 DEF Follows, Keeps
  <1>9. Akin(Content(g, "drawing", n), Content(d, "drawing", n))
    BY DEF Follows, Keeps
  <1>10. Akin(Content(b, "drawing", n), x) /\ Akin(Append(x, a), Content(d, "drawing", n))
    <2>1. Akin(Content(b, "drawing", n), x)
      BY ONLY <1>7, <1>8, AkinOn
    <2>2. Akin(Append(x, a), Content(d, "drawing", n))
      BY <1>7, <1>9
    <2> QED
      BY <2>1, <2>2
  <1> QED
    BY <1>1, <1>4, <1>5, <1>6, <1>10 DEF Draws

LEMMA ShapeAdded ==
  ASSUME NEW b, FileInv(b, {}), NEW s \in DOMAIN b.Sheet, Prepared(b, s), NEW cell \in Cells,
         NEW c, c = PrepareDrawing(b, s), NEW n, n = DrawingOf(c, s),
         NEW d, d = AddDrawingShape(c, n, cell)
  PROVE  FileInv(d, {}) /\ \E a : Draws(b, d, s, n, a)
  <1> DEFINE P == {<<"drawing", n>>}
  <1>1. IsPrepared(b, c, s, n)
    BY PreparedIs
  <1>2. /\ FileInv(c, P) /\ n \in Number /\ UpTo(PartsOf(c, "drawing") \cup {n})
        /\ Follows(b, c, {}, {}) /\ DrawingReady(b, c, s, n)
    BY <1>1 DEF IsPrepared
  <1>3. d = AddAnchor(c, n, "sp", cell, 0)
    BY DEF AddDrawingShape
  <1> HIDE DEF P
  <1>4. /\ FileInv(d, P) /\ <<"drawing", n>> \in d.Overrides /\ n \in PartsOf(d, "drawing")
        /\ Anchored(c, d, n, AnchorOf("sp", cell, 0))
    BY <1>2, <1>3, AnchorAdded
  <1>5. \A type, t : <<type, t>> \in P => Known(d, {}, type, t)
    BY <1>4 DEF P, Known, OverrideKinds
  <1>6. Draws(b, d, s, n, AnchorOf("sp", cell, 0))
    <2>1. Follows(c, c, {}, {}) /\ Follows(d, d, {}, {})
      BY FollowsKept
    <2> QED
      BY ONLY <1>2, <1>4, <2>1, n = DrawingOf(c, s), DrawsIs
  <1> QED
    BY <1>4, <1>5, <1>6, PromiseKept

LEMMA ChartAdded ==
  ASSUME NEW b, FileInv(b, {}), NEW s \in DOMAIN b.Sheet, Prepared(b, s), NEW cell \in Cells,
         NEW chart \in Charts,
         NEW c, c = PrepareDrawing(b, s), NEW n, n = DrawingOf(c, s),
         NEW id, id = CountCharts(b) + 1,
         NEW e, e = AddDrawingRelationships(c, n, "chart", id),
         NEW g, g = AddDrawingChart(e, n, cell, LastRID(e, "drawingRels", n)),
         NEW h, h = PutPart(g, "chart", id, chart),
         NEW d, d = AddContentTypePart(h, "chart", id)
  PROVE  FileInv(d, {}) /\ \E a : Draws(b, d, s, n, a)
  <1> DEFINE P == {<<"drawing", n>>}
             Q == {<<"drawing", n>>, <<"chart", id>>}
             type == "chart"
             rid == LastRID(e, "drawingRels", n)
  <1>1. IsPrepared(b, c, s, n)
    BY PreparedIs
  <1>2. /\ FileInv(c, P) /\ n \in Number /\ UpTo(PartsOf(c, "drawing") \cup {n}) /\ c.XLSX = b.XLSX
        /\ Follows(b, c, {}, {}) /\ DrawingReady(b, c, s, n)
    BY <1>1 DEF IsPrepared
  <1>3. PICK m \in Nat : PartsOf(b, "chart") = 1..m
    BY DEF FileInv, NumberedOK, UpTo
  <1>4. DOMAIN b.XLSX["chart"] = 1..m
    BY <1>3 DEF PartsOf, Parsed
  <1>5. id = m + 1
    BY <1>4, CountStoredIs DEF CountCharts
  <1>6. id \in Number /\ UpTo(PartsOf(b, "chart") \cup {id}) /\ id \notin PartsOf(b, "chart")
    BY <1>3, <1>5, NextNumber
  <1>7. /\ type \in RelTypes /\ P \subseteq Q /\ <<type, id>> \in Q
        /\ e = AddDrawingRelationships(c, n, type, id)
    BY DEF RelTypes
  <1> HIDE DEF P, Q, type
  <1>8. GivesDrawing(c, e, n, P, Q, type, id)
    BY ONLY <1>2, <1>6, <1>7, DrawingRelGives
  <1>9. /\ FileInv(e, Q) /\ e.XLSX = c.XLSX /\ rid \in Number
        /\ LeadsTo(e, Q, Content(e, "drawingRels", n), rid, "chart")
        /\ UpTo(PartsOf(e, "drawing") \cup {n})
        /\ Follows(c, e, {}, {}) /\ e.Sheet = c.Sheet
    BY <1>2, <1>8 DEF GivesDrawing, type
  <1>10. g = AddAnchor(e, n, "chart", cell, rid)
    BY DEF AddDrawingChart
  <1> HIDE DEF rid
  <1>11. /\ FileInv(g, Q) /\ g.XLSX = e.XLSX
         /\ <<"drawing", n>> \in g.Overrides /\ n \in PartsOf(g, "drawing")
         /\ Anchored(e, g, n, AnchorOf("chart", cell, rid))
    BY <1>2, <1>9, <1>10, AnchorAdded DEF Number
  <1>12. PartsOf(g, "chart") = PartsOf(b, "chart") /\ IsFile(g)
    BY <1>2, <1>9, <1>11 DEF PartsOf, Parsed, FileInv
  <1>13. Stores(g, h, "chart", id, chart)
    BY <1>6, <1>12, PutPartIs, PartTypeIs DEF Stored
  <1>14. FileInv(h, Q)
    BY <1>6, <1>11, <1>12, <1>13, StoresKeeps
  <1>15. /\ id \in PartsOf(h, "chart") /\ PartsOf(h, "drawing") = PartsOf(g, "drawing")
         /\ h.Overrides = g.Overrides /\ IsFile(h)
    <2>1. IsPut(h.XLSX["chart"], g.XLSX["chart"], id, chart)
      BY <1>13, PutIs DEF Stores
    <2>2. h.XLSX["drawing"] = g.XLSX["drawing"] /\ h.Cache = g.Cache /\ h.Overrides = g.Overrides /\ IsFile(h)
      BY <1>13 DEF Stores, Parsed, Stored
    <2> QED
      BY <2>1, <2>2 DEF IsPut, PartsOf, Parsed
  <1>16. Relabels(h, d) /\ <<"chart", id>> \in d.Overrides
    BY <1>6, <1>15, ContentTypePartIs DEF OverrideKinds
  <1>17. FileInv(d, Q) /\ \A k : PartsOf(d, k) = PartsOf(h, k)
    BY <1>14, <1>16, RelabelsKeeps
  <1>18. <<"drawing", n>> \in d.Overrides
    BY <1>11, <1>15, <1>16 DEF Relabels
  <1>19. \A ty, t : <<ty, t>> \in Q => Known(d, {}, ty, t)
    BY <1>11, <1>15, <1>16, <1>17, <1>18 DEF Q, Known, OverrideKinds
  <1>20. Follows(g, d, {}, {}) /\ d.Sheet = g.Sheet
    <2> DEFINE kind == "chart"
    <2>1. /\ kind \in {"media", "chart", "table"} /\ Stores(g, h, kind, id, chart)
          /\ id \notin PartsOf(g, kind)
      BY <1>6, <1>12, <1>13
    <2> HIDE DEF kind
    <2>2. Follows(g, h, {}, {}) /\ h.Sheet = g.Sheet
      <3>1. Follows(g, h, {}, {})
        BY ONLY <2>1, FollowsStores
      <3> QED
        BY <2>1, <3>1 DEF Stores
    <2>3. Follows(h, d, {}, {}) /\ d.Sheet = h.Sheet
      BY <1>16, FollowsKept DEF Relabels
    <2> QED
      BY <2>2, <2>3, FollowsOn
  <1>21. Draws(b, d, s, n, AnchorOf("chart", cell, rid))
    BY ONLY <1>2, <1>9, <1>11, <1>20, n = DrawingOf(c, s), DrawsIs
  <1> QED
    BY <1>17, <1>19, <1>21, PromiseKept

LEMMA PictureAdded ==
  ASSUME NEW b, FileInv(b, {}), NEW s \in DOMAIN b.Sheet, Prepared(b, s), NEW cell \in Cells,
         NEW image \in Images, NEW link,
         NEW c, c = PrepareDrawing(b, s), NEW m, m = AddMedia(c, image),
         NEW n, n = DrawingOf(m, s),
         NEW e, e = AddDrawingRelationships(m, n, "image", MediaOf(m, image)),
         NEW g, g = IF link THEN AddDrawingRelationships(e, n, "hyperlink", 1) ELSE e,
         NEW d, d = AddDrawingPicture(g, n, cell, LastRID(e, "drawingRels", n))
  PROVE  FileInv(d, {}) /\ \E a : Draws(b, d, s, n, a)
  <1> DEFINE P == {<<"drawing", n>>}
             t == MediaOf(m, image)
             Q == {<<"drawing", n>>, <<"image", t>>}
             type == "image"
             rid == LastRID(e, "drawingRels", n)
  <1>1. IsPrepared(b, c, s, DrawingOf(c, s))
    BY PreparedIs
  <1>2. FileInv(c, {<<"drawing", DrawingOf(c, s)>>})
    BY <1>1 DEF IsPrepared
  <1>3. /\ FileInv(m, {<<"drawing", DrawingOf(c, s)>>}) /\ DrawingOf(m, s) = DrawingOf(c, s)
        /\ \A k \in Parsed : PartsOf(m, k) = PartsOf(c, k)
        /\ t \in PartsOf(m, "media") /\ t \in Number
        /\ Follows(c, m, {}, {}) /\ m.Sheet = c.Sheet
    BY <1>2, MediaKept
  <1>4. /\ FileInv(m, P) /\ n \in Number /\ UpTo(PartsOf(m, "drawing") \cup {n})
        /\ Follows(b, c, {}, {}) /\ DrawingReady(b, c, s, n) /\ DrawingOf(c, s) = n
    BY <1>1, <1>3 DEF IsPrepared, Parsed
  <1>5. /\ type \in RelTypes /\ P \subseteq Q /\ <<type, t>> \in Q
        /\ e = AddDrawingRelationships(m, n, type, t)
    BY DEF RelTypes
  <1> HIDE DEF P, Q, type, t
  <1>6. GivesDrawing(m, e, n, P, Q, type, t)
    BY ONLY <1>3, <1>4, <1>5, DrawingRelGives
  <1>7. /\ FileInv(e, P) /\ FileInv(e, Q) /\ e.XLSX = m.XLSX /\ rid \in Number
        /\ LeadsTo(e, Q, Content(e, "drawingRels", n), rid, "image")
        /\ UpTo(PartsOf(e, "drawing") \cup {n})
        /\ Follows(m, e, {}, {}) /\ e.Sheet = m.Sheet
    BY <1>4, <1>6 DEF GivesDrawing, type
  <1> HIDE DEF rid
  <1>8. /\ FileInv(g, Q) /\ g.XLSX = m.XLSX /\ UpTo(PartsOf(g, "drawing") \cup {n})
        /\ LeadsTo(g, Q, Content(g, "drawingRels", n), rid, "image")
        /\ Follows(e, g, {}, {}) /\ g.Sheet = e.Sheet
    <2>1. CASE ~link
      BY <1>7, <2>1, FollowsKept
    <2>2. CASE link
      <3> DEFINE one == 1
                 hyper == "hyperlink"
                 R == Q \cup {<<hyper, one>>}
      <3>1. /\ g = AddDrawingRelationships(e, n, hyper, one) /\ one \in Number /\ hyper \in RelTypes
            /\ Q \subseteq R /\ <<hyper, one>> \in R
        BY <2>2 DEF Number, RelTypes
      <3> HIDE DEF one, hyper, R
      <3>2. GivesDrawing(e, g, n, Q, R, hyper, one)
        BY ONLY <1>4, <1>7, <3>1, DrawingRelGives
      <3>3. /\ FileInv(g, Q) /\ Grows(e, g) /\ g.XLSX = e.XLSX
            /\ Continues(Content(e, "drawingRels", n), Content(g, "drawingRels", n))
            /\ PartsOf(g, "drawing") = PartsOf(e, "drawing")
            /\ Follows(e, g, {}, {}) /\ g.Sheet = e.Sheet
        BY <3>2 DEF GivesDrawing
      <3>4. LeadsTo(g, Q, Content(g, "drawingRels", n), rid, "image")
        BY <1>7, <3>3, LeadsGrows
      <3> QED
        BY <1>7, <3>3, <3>4
    <2> QED
      BY <2>1, <2>2
  <1>9. d = AddAnchor(g, n, "pic", cell, rid)
    BY DEF AddDrawingPicture, rid
  <1>10. /\ FileInv(d, Q) /\ d.XLSX = g.XLSX /\ "image" \in d.Defaults
         /\ <<"drawing", n>> \in d.Overrides /\ n \in PartsOf(d, "drawing")
         /\ Anchored(g, d, n, AnchorOf("pic", cell, rid))
    BY <1>4, <1>7, <1>8, <1>9, AnchorAdded DEF Number
  <1>11. t \in PartsOf(d, "media")
    BY <1>3, <1>8, <1>10 DEF PartsOf, Parsed
  <1>12. \A ty, x : <<ty, x>> \in Q => Known(d, {}, ty, x)
    BY <1>10, <1>11 DEF Q, Known, OverrideKinds
  <1>13. Follows(c, g, {}, {}) /\ g.Sheet = c.Sheet
    <2>1. Follows(c, e, {}, {})
      BY <1>3, <1>7, FollowsOn
    <2> QED
      BY <1>3, <1>7, <1>8, <2>1, FollowsOn
  <1>14. Follows(d, d, {}, {}) /\ d.Sheet = d.Sheet
    BY FollowsKept
  <1>15. Draws(b, d, s, n, AnchorOf("pic", cell, rid))
    BY ONLY <1>4, <1>10, <1>13, <1>14, DrawsIs
  <1> QED
    BY <1>10, <1>12, <1>15, PromiseKept

-----------------------------------------------------------------------------
(* Tables and backgrounds.                                                 *)

\* sheet s has another table, and nothing else
Tabulates(b, d, s, rid) ==
  /\ Follows(b, d, {}, {}) /\ SheetsBut(b, d, s)
  /\ d.Sheet[s].drawing = b.Sheet[s].drawing
  /\ d.Sheet[s].legacyDrawing = b.Sheet[s].legacyDrawing /\ d.Sheet[s].picture = b.Sheet[s].picture
  /\ d.Sheet[s].tableParts = Append(b.Sheet[s].tableParts, rid) /\ rid \in Number

\* sheet s has another background, and nothing else
Covers(b, d, s) ==
  /\ Follows(b, d, {}, {}) /\ SheetsBut(b, d, s)
  /\ d.Sheet[s].drawing = b.Sheet[s].drawing
  /\ d.Sheet[s].legacyDrawing = b.Sheet[s].legacyDrawing
  /\ d.Sheet[s].tableParts = b.Sheet[s].tableParts /\ d.Sheet[s].picture # 0

LEMMA TableAdded ==
  ASSUME NEW b, FileInv(b, {}), NEW s \in DOMAIN b.Sheet, NEW table \in Tables,
         NEW id, id = CountTables(b) + 1,
         NEW c, c = AddSheetRelationships(b, s, "table", id),
         NEW e, e = AddSheetTable(c, s),
         NEW h, h = PutPart(e, "table", id, table),
         NEW d, d = AddContentTypePart(h, "table", id)
  PROVE  FileInv(d, {}) /\ \E rid : Tabulates(b, d, s, rid)
  <1> DEFINE type == "table"
             P == {}
             Q == {<<type, id>>}
             q == Append(Content(b, "sheetRels", s), RelOf(type, id))
             parts == b.Sheet[s].tableParts
             more == Append(parts, Len(q))
             w == [b.Sheet[s] EXCEPT !.tableParts = more]
             v == [c.Sheet EXCEPT ![s] = w]
  <1>1. PICK m \in Nat : PartsOf(b, "table") = 1..m
    BY DEF FileInv, NumberedOK, UpTo
  <1>2. DOMAIN b.XLSX["table"] = 1..m
    BY <1>1 DEF PartsOf, Parsed
  <1>3. id = m + 1
    BY <1>2, CountStoredIs DEF CountTables
  <1>4. id \in Number /\ UpTo(PartsOf(b, "table") \cup {id}) /\ id \notin PartsOf(b, "table")
    BY <1>1, <1>3, NextNumber
  <1>5. /\ id \in Number /\ type \in RelTypes /\ type # "comments"
        /\ P \subseteq Q /\ <<type, id>> \in Q /\ FileInv(b, P) /\ s \in DOMAIN b.Sheet
    BY <1>4 DEF RelTypes
  <1>6. /\ c = AddSheetRelationships(b, s, type, id)
        /\ q = Append(Content(b, "sheetRels", s), RelOf(type, id))
    OBVIOUS
  <1> HIDE DEF type, P, Q, q
  <1>7. Gives(b, c, s, P, Q, q, type, id)
    BY ONLY <1>5, <1>6, SheetRelGives
  <1>8. /\ FileInv(c, P) /\ Replaces(b, c, "sheetRels", s, q) /\ q \in Seq(Rels)
        /\ Continues(Content(b, "sheetRels", s), q)
        /\ LastRID(c, "sheetRels", s) = Len(q) /\ Len(q) \in Number
        /\ LeadsTo(c, Q, q, Len(q), type)
        /\ SheetOK(c, Q, b.Sheet[s], q) /\ b.Sheet[s] \in Worksheets /\ c.Sheet = b.Sheet
    BY <1>7 DEF Gives
  <1>9. e = [c EXCEPT !.Sheet = v]
    <2>1. [c.Sheet EXCEPT ![s].tableParts = Append(@, Len(q))] = v
      BY <1>8
    <2> QED
      BY <1>8, <2>1 DEF AddSheetTable
  <1>11. parts \in Seq(Number) /\ more \in Seq(Number)
    BY <1>8 DEF Worksheets, Number
  <1> HIDE DEF more
  <1>10. /\ w \in Worksheets /\ w.drawing = b.Sheet[s].drawing
         /\ w.legacyDrawing = b.Sheet[s].legacyDrawing
         /\ w.picture = b.Sheet[s].picture /\ w.tableParts = more
    BY <1>8, <1>11 DEF Worksheets, Number
  <1>12. v = [c.Sheet EXCEPT ![s] = w]
    OBVIOUS
  <1> HIDE DEF w, v, parts
  <1>13. \A i \in DOMAIN w.tableParts :
           (i \in DOMAIN parts /\ w.tableParts[i] = parts[i]) \/ w.tableParts[i] = Len(q)
    BY <1>8, <1>10, <1>11 DEF more
  <1>14. SheetOK(c, Q, w, q)
    <2>1. \A i \in DOMAIN parts : LeadsTo(c, Q, q, parts[i], "table")
      BY <1>8 DEF SheetOK, parts
    <2>2. \A i \in DOMAIN w.tableParts : LeadsTo(c, Q, q, w.tableParts[i], "table")
      BY <1>8, <1>13, <2>1 DEF type
    <2> QED
      BY <1>8, <1>10, <2>2 DEF SheetOK
  <1>15. Apart(b, s, w, q)
    BY <1>5, <1>8, <1>10, StillApart DEF Apart
  <1>16. FileInv(e, Q) /\ Edits(c, e, s, w)
    BY ONLY <1>5, <1>8, <1>9, <1>10, <1>12, <1>14, <1>15, SheetTurned
  <1>17. PartsOf(e, "table") = PartsOf(b, "table") /\ IsFile(e)
    BY <1>8, <1>16 DEF Edits, Replaces, PartsOf, Parsed
  <1>18. Stores(e, h, "table", id, table)
    BY <1>4, <1>17, PutPartIs, PartTypeIs DEF Stored
  <1>19. FileInv(h, Q)
    BY <1>4, <1>16, <1>17, <1>18, StoresKeeps
  <1>20. id \in PartsOf(h, "table") /\ IsFile(h)
    <2>1. IsPut(h.XLSX["table"], e.XLSX["table"], id, table) /\ IsFile(h)
      BY <1>18, PutIs DEF Stores
    <2> QED
      BY <2>1 DEF IsPut, PartsOf, Parsed
  <1>21. Relabels(h, d) /\ <<"table", id>> \in d.Overrides
    BY <1>4, <1>20, ContentTypePartIs DEF OverrideKinds
  <1>22. FileInv(d, Q) /\ \A k : PartsOf(d, k) = PartsOf(h, k)
    BY <1>19, <1>21, RelabelsKeeps
  <1>23. \A ty, t : <<ty, t>> \in Q => Known(d, {}, ty, t)
    BY <1>20, <1>21, <1>22 DEF Q, type, Known, OverrideKinds
  <1>24. Attaches(b, e, s, w)
    BY <1>8, <1>16, AttachesIs DEF FileInv
  <1>25. Follows(e, d, {}, {}) /\ d.Sheet = e.Sheet
    <2> DEFINE kind == "table"
    <2>1. /\ kind \in {"media", "chart", "table"} /\ Stores(e, h, kind, id, table)
          /\ id \notin PartsOf(e, kind)
      BY <1>4, <1>17, <1>18
    <2> HIDE DEF kind
    <2>2. Follows(e, h, {}, {})
      BY ONLY <2>1, FollowsStores
    <2>3. Follows(h, d, {}, {}) /\ d.Sheet = h.Sheet
      BY <1>21, FollowsKept DEF Relabels
    <2>4. h.Sheet = e.Sheet
      BY <1>18 DEF Stores
    <2> QED
      BY <2>2, <2>3, <2>4, FollowsOn
  <1>26. Follows(b, d, {}, {})
    BY <1>24, <1>25, FollowsOn DEF Attaches
  <1>27. SheetsBut(b, d, s) /\ d.Sheet[s] = w
    BY <1>24, <1>25 DEF Attaches, SheetsBut
  <1>28. Tabulates(b, d, s, Len(q))
    BY <1>8, <1>10, <1>26, <1>27 DEF Tabulates, more, parts
  <1> QED
    BY <1>22, <1>23, <1>28, PromiseKept

LEMMA BackgroundSet ==
  ASSUME NEW b, FileInv(b, {}), NEW s \in DOMAIN b.Sheet, NEW image \in Images,
         NEW m, m = AddMedia(b, image),
         NEW c, c = AddSheetRelationships(m, s, "image", MediaOf(m, image)),
         NEW e, e = AddSheetPicture(c, s),
         NEW d, d = SetContentTypePartImageExtensions(e)
  PROVE  FileInv(d, {}) /\ Covers(b, d, s)
  <1> DEFINE type == "image"
             id == MediaOf(m, image)
             P == {}
             Q == {<<type, id>>}
             q == Append(Content(m, "sheetRels", s), RelOf(type, id))
             w == [m.Sheet[s] EXCEPT !.picture = Len(q)]
             v == [c.Sheet EXCEPT ![s] = w]
  <1>1. /\ FileInv(m, {}) /\ m.Sheet = b.Sheet /\ id \in PartsOf(m, "media") /\ id \in Number
        /\ Follows(b, m, {}, {})
    BY MediaKept
  <1>5. /\ id \in Number /\ type \in RelTypes /\ type # "comments"
        /\ P \subseteq Q /\ <<type, id>> \in Q /\ FileInv(m, P) /\ s \in DOMAIN m.Sheet
    BY <1>1 DEF RelTypes
  <1>6. /\ c = AddSheetRelationships(m, s, type, id)
        /\ q = Append(Content(m, "sheetRels", s), RelOf(type, id))
    OBVIOUS
  <1> HIDE DEF type, P, Q, q, id
  <1>7. Gives(m, c, s, P, Q, q, type, id)
    BY ONLY <1>5, <1>6, SheetRelGives
  <1>8. /\ FileInv(c, P) /\ Replaces(m, c, "sheetRels", s, q) /\ q \in Seq(Rels)
        /\ Continues(Content(m, "sheetRels", s), q)
        /\ LastRID(c, "sheetRels", s) = Len(q) /\ Len(q) \in Number
        /\ LeadsTo(c, Q, q, Len(q), type)
        /\ SheetOK(c, Q, m.Sheet[s], q) /\ m.Sheet[s] \in Worksheets /\ c.Sheet = m.Sheet
    BY <1>7 DEF Gives
  <1>9. e = [c EXCEPT !.Sheet = v]
    <2>1. [c.Sheet EXCEPT ![s].picture = Len(q)] = v
      BY <1>8
    <2> QED
      BY <1>8, <2>1 DEF AddSheetPicture
  <1>10. /\ w \in Worksheets /\ w.drawing = m.Sheet[s].drawing
         /\ w.legacyDrawing = m.Sheet[s].legacyDrawing
         /\ w.picture = Len(q) /\ w.tableParts = m.Sheet[s].tableParts
    BY <1>8 DEF Worksheets, Number
  <1>12. v = [c.Sheet EXCEPT ![s] = w]
    OBVIOUS
  <1> HIDE DEF w, v
  <1>14. SheetOK(c, Q, w, q)
    BY <1>8, <1>10 DEF SheetOK, type
  <1>15. Apart(m, s, w, q)
    BY <1>5, <1>8, <1>10, StillApart DEF Apart
  <1>16. FileInv(e, Q) /\ Edits(c, e, s, w)
    BY ONLY <1>5, <1>8, <1>9, <1>10, <1>12, <1>14, <1>15, SheetTurned
  <1>17. PartsOf(e, "media") = PartsOf(m, "media") /\ IsFile(e)
    BY <1>8, <1>16 DEF Edits, Replaces, PartsOf, Parsed
  <1>18. Relabels(e, d) /\ "image" \in d.Defaults
    BY <1>17, ImageExtensionsIs
  <1>19. FileInv(d, Q) /\ \A k : PartsOf(d, k) = PartsOf(e, k)
    BY <1>16, <1>18, RelabelsKeeps
  <1>20. \A ty, t : <<ty, t>> \in Q => Known(d, {}, ty, t)
    BY <1>1, <1>17, <1>18, <1>19 DEF Q, type, Known, id
  <1>21. Attaches(m, e, s, w)
    BY <1>1, <1>8, <1>16, AttachesIs DEF FileInv
  <1>22. Follows(e, d, {}, {}) /\ d.Sheet = e.Sheet
    BY <1>18, FollowsKept DEF Relabels
  <1>23. Follows(m, d, {}, {})
    BY <1>21, <1>22, FollowsOn DEF Attaches
  <1>24. Follows(b, d, {}, {})
    BY <1>1, <1>23, FollowsOn
  <1>25. SheetsBut(b, d, s) /\ d.Sheet[s] = w
    BY <1>1, <1>21, <1>22 DEF Attaches, SheetsBut
  <1>26. Covers(b, d, s)
    BY <1>1, <1>8, <1>10, <1>24, <1>25 DEF Covers, Number
  <1> QED
    BY <1>19, <1>20, <1>26, PromiseKept

-----------------------------------------------------------------------------
(* Comments.                                                               *)

LEMMA DecodeSet ==
  ASSUME NEW b, IsFile(b), NEW p, Holds(p, "vml"), NEW d, d = [b EXCEPT !.DecodeVMLDrawing = p]
  PROVE  /\ IsFile(d) /\ d.DecodeVMLDrawing = p /\ d.Sheet = b.Sheet /\ d.XLSX = b.XLSX
         /\ d.Cache = b.Cache /\ d.Overrides = b.Overrides /\ d.Defaults = b.Defaults
  <1>1. d = [Sheet |-> b.Sheet, XLSX |-> b.XLSX, Cache |-> b.Cache, DecodeVMLDrawing |-> p,
             Overrides |-> b.Overrides, Defaults |-> b.Defaults]
    BY DEF IsFile
  <1>2. /\ d.DecodeVMLDrawing = p /\ d.Sheet = b.Sheet /\ d.XLSX = b.XLSX
        /\ d.Cache = b.Cache /\ d.Overrides = b.Overrides /\ d.Defaults = b.Defaults
    BY <1>1
  <1> QED
    BY <1>1, <1>2, FileFields DEF IsFile

\* h is b with comments x and boxes y in the parts of number n
NotesTurn(b, h, n, x, y) ==
  /\ IsFile(h) /\ h.Sheet = b.Sheet /\ h.XLSX = b.XLSX
  /\ h.Overrides = b.Overrides /\ h.Defaults = b.Defaults
  /\ h.Cache["comments"] = Put(b.Cache["comments"], n, x)
  /\ h.Cache["vml"] = Put(b.Cache["vml"], n, y)
  /\ h.Cache["sheetRels"] = b.Cache["sheetRels"]
  /\ h.Cache["drawing"] = b.Cache["drawing"]
  /\ h.Cache["drawingRels"] = b.Cache["drawingRels"]
  /\ BoxesKept(b.XLSX["vml"], h.Cache["vml"], h.DecodeVMLDrawing)

\* y has the boxes of v and one for the cell, some of them more than once
Widens(v, y, cell) ==
  /\ y \in Seq(Cells) /\ Range(y) = Range(v) \cup {cell} /\ Len(v) + 1 <= Len(y)

\* y has the boxes of v, those of w and one for the cell
Joins(v, w, cell, y) ==
  /\ y \in Seq(Cells) /\ Range(y) = Range(v) \cup Range(w) \cup {cell}
  /\ Len(y) = Len(v) + Len(w) + 1

LEMMA RangeJoined ==
  ASSUME NEW v \in Seq(Cells), NEW w \in Seq(Cells), NEW cell \in Cells
  PROVE  Joins(v, w, cell, Append(v \o w, cell))
  <1> DEFINE u == v \o w
             y == Append(u, cell)
  <1>1. /\ u \in Seq(Cells) /\ Len(u) = Len(v) + Len(w) /\ Len(v) \in Nat /\ Len(w) \in Nat
        /\ DOMAIN v = 1..Len(v) /\ DOMAIN w = 1..Len(w) /\ DOMAIN u = 1..(Len(v) + Len(w))
        /\ \A i \in 1..Len(v) : u[i] = v[i]
        /\ \A i \in 1..Len(w) : u[Len(v) + i] = w[i]
    OBVIOUS
  <1>2. y = Append(u, cell)
    OBVIOUS
  <1> HIDE DEF u, y
  <1>3. /\ y \in Seq(Cells) /\ Len(y) = Len(u) + 1 /\ DOMAIN y = 1..(Len(u) + 1)
        /\ y[Len(u) + 1] = cell /\ \A i \in 1..Len(u) : y[i] = u[i]
    <2>1. u \in Seq(Cells)
      BY <1>1
    <2> QED
      BY ONLY <1>2, <2>1, cell \in Cells
  <1>4. Range(u) = Range(v) \cup Range(w)
    <2>1. \A i \in DOMAIN u : u[i] \in Range(v) \cup Range(w)
      <3> TAKE i \in DOMAIN u
      <3>1. CASE i \in 1..Len(v)
        BY <1>1, <3>1 DEF Range
      <3>2. CASE i \notin 1..Len(v)
        <4>1. i - Len(v) \in 1..Len(w) /\ i = Len(v) + (i - Len(v))
          BY <1>1, <3>2
        <4> QED
          BY <1>1, <4>1 DEF Range
      <3> QED
        BY <3>1, <3>2
    <2>2. \A i \in DOMAIN v : v[i] \in Range(u)
      BY <1>1 DEF Range
    <2>3. \A i \in DOMAIN w : w[i] \in Range(u)
      <3> TAKE i \in DOMAIN w
      <3>1. Len(v) + i \in DOMAIN u /\ u[Len(v) + i] = w[i]
        BY <1>1
      <3> QED
        BY <3>1 DEF Range
    <2>4. Range(u) \subseteq Range(v) \cup Range(w)
      BY ONLY <2>1 DEF Range
    <2>5. Range(v) \subseteq Range(u)
      BY ONLY <2>2 DEF Range
    <2>6. Range(w) \subseteq Range(u)
      BY ONLY <2>3 DEF Range
    <2> QED
      BY <2>4, <2>5, <2>6
  <1>5. Range(y) = Range(u) \cup {cell}
    <2>1. Len(u) \in Nat /\ DOMAIN u = 1..Len(u)
      BY <1>1
    <2>2. \A i \in DOMAIN y : y[i] \in Range(u) \cup {cell}
      BY ONLY <1>3, <2>1 DEF Range
    <2>3. \A i \in DOMAIN u : u[i] \in Range(y)
      BY ONLY <1>3, <2>1 DEF Range
    <2>4. cell \in Range(y)
      BY ONLY <1>3, <2>1 DEF Range
    <2>5. Range(y) \subseteq Range(u) \cup {cell}
      BY ONLY <2>2 DEF Range
    <2>6. Range(u) \subseteq Range(y)
      BY ONLY <2>3 DEF Range
    <2> QED
      BY <2>4, <2>5, <2>6
  <1>6. Joins(v, w, cell, y)
    BY <1>1, <1>3, <1>4, <1>5 DEF Joins
  <1> QED
    BY <1>6 DEF y, u

\* addDrawingVML: the shapes there are, are kept, and the stored ones are
\* added behind the changed ones again
LEMMA BoxAdded ==
  ASSUME NEW b, NEW P, FileInv(b, P), NEW n \in Number, NEW cell \in Cells,
         NEW x, NEW g, Replaces(b, g, "comments", n, x), NEW h, h = AddDrawingVML(g, n, cell)
  PROVE  \E y : NotesTurn(b, h, n, x, y) /\ Widens(Content(b, "vml", n), y, cell)
  <1> DEFINE c == DecodeVMLDrawingReader(g, n)
             X == b.XLSX["vml"]
             C == b.Cache["vml"]
             D == b.DecodeVMLDrawing
             E == c.DecodeVMLDrawing
             vml == IF n \in DOMAIN g.Cache["vml"] THEN g.Cache["vml"][n] ELSE << >>
             decoded == IF n \in DOMAIN E THEN E[n] ELSE << >>
             v == Content(b, "vml", n)
             y == Append(vml \o decoded, cell)
             q == Put(C, n, y)
  <1>1. IsFile(b) /\ BoxesKept(X, C, D)
    BY DEF FileInv, DecodedOK
  <1>2. /\ IsFile(g) /\ g.Sheet = b.Sheet /\ g.XLSX = b.XLSX /\ g.DecodeVMLDrawing = D
        /\ g.Overrides = b.Overrides /\ g.Defaults = b.Defaults
        /\ g.Cache["comments"] = Put(b.Cache["comments"], n, x)
        /\ \A k \in Parsed : k # "comments" => g.Cache[k] = b.Cache[k]
    BY DEF Replaces
  <1>3. g.Cache["vml"] = C
    BY <1>2 DEF Parsed
  <1>4. Holds(X, "vml") /\ Holds(D, "vml") /\ Holds(C, "vml")
    BY <1>1, FileFields DEF Stored, Parsed
  <1>5. v \in Seq(Cells)
    BY <1>1, ContentType, PartTypeIs DEF Parsed
  <1>6. /\ IsFile(c) /\ c.Sheet = b.Sheet /\ c.XLSX = b.XLSX /\ c.Cache = g.Cache
        /\ c.Overrides = b.Overrides /\ c.Defaults = b.Defaults
        /\ DOMAIN E = IF n \in DOMAIN X THEN DOMAIN D \cup {n} ELSE DOMAIN D
        /\ Holds(E, "vml") /\ \A m \in DOMAIN D : E[m] = D[m]
        /\ n \in DOMAIN X /\ n \notin DOMAIN D => E[n] = X[n]
    <2>1. CASE n \in DOMAIN D \/ n \notin DOMAIN X
      <3>1. c = g
        BY <1>2, <2>1 DEF DecodeVMLDrawingReader
      <3> HIDE DEF c
      <3> QED
        BY <1>2, <1>4, <2>1, <3>1
    <2>2. CASE n \in DOMAIN X /\ n \notin DOMAIN D
      <3> DEFINE p == Put(D, n, X[n])
      <3>1. c = [g EXCEPT !.DecodeVMLDrawing = p]
        BY <1>2, <2>2 DEF DecodeVMLDrawingReader
      <3>2. X[n] \in PartType("vml")
        BY <1>4, <2>2 DEF Holds
      <3>3. Holds(p, "vml")
        BY <1>4, <3>2, PutHolds
      <3>4. IsPut(p, D, n, X[n])
        BY PutIs
      <3> HIDE DEF p, c
      <3>5. /\ IsFile(c) /\ c.DecodeVMLDrawing = p /\ c.Sheet = g.Sheet /\ c.XLSX = g.XLSX
            /\ c.Cache = g.Cache /\ c.Overrides = g.Overrides /\ c.Defaults = g.Defaults
        BY <1>2, <3>1, <3>3, DecodeSet
      <3>6. DOMAIN p = DOMAIN D \cup {n} /\ p[n] = X[n] /\ \A m \in DOMAIN D : p[m] = D[m]
        BY <2>2, <3>4 DEF IsPut
      <3> QED
        BY <1>2, <2>2, <3>3, <3>5, <3>6
    <2> QED
      BY <2>1, <2>2
  <1>7. h = PutCache(c, "vml", n, y)
    BY DEF AddDrawingVML
  <1> HIDE DEF c
  <1>8. vml \in Seq(Cells) /\ decoded \in Seq(Cells)
    <2>1. << >> \in Seq(Cells) /\ PartType("vml") = Seq(Cells)
      BY PartTypeIs
    <2>2. vml \in Seq(Cells)
      BY <1>3, <1>4, <2>1 DEF Holds
    <2>3. decoded \in Seq(Cells)
      BY <1>6, <2>1 DEF Holds
    <2> QED
      BY <2>2, <2>3
  <1>9. /\ n \in DOMAIN C => vml = C[n] /\ v = C[n] /\ Range(decoded) \subseteq Range(v)
        /\ n \notin DOMAIN C => vml = << >> /\ decoded = v
    <2>1. CASE n \in DOMAIN C
      <3>1. vml = C[n] /\ v = C[n]
        BY <1>3, <2>1 DEF Content
      <3>2. CASE n \in DOMAIN D
        BY <1>1, <1>6, <3>1, <3>2 DEF BoxesKept
      <3>3. CASE n \notin DOMAIN D /\ n \in DOMAIN X
        BY <1>1, <1>6, <2>1, <3>1, <3>3 DEF BoxesKept
      <3>4. CASE n \notin DOMAIN D /\ n \notin DOMAIN X
        <4>1. decoded = << >>
          BY <1>6, <3>4
        <4> QED
          BY <2>1, <3>1, <4>1 DEF Range
      <3> QED
        BY <2>1, <3>1, <3>2, <3>3, <3>4
    <2>2. CASE n \notin DOMAIN C
      <3>1. vml = << >> /\ n \notin DOMAIN D
        BY <1>1, <1>3, <2>2 DEF BoxesKept
      <3>2. v = IF n \in DOMAIN X THEN X[n] ELSE << >>
        BY <2>2 DEF Content
      <3>3. decoded = IF n \in DOMAIN X THEN X[n] ELSE << >>
        BY <1>6, <3>1
      <3> QED
        BY <2>2, <3>1, <3>2, <3>3
    <2> QED
      BY <2>1, <2>2
  <1> HIDE DEF vml, decoded
  <1>y. Joins(vml, decoded, cell, y)
    BY <1>8, RangeJoined
  <1> HIDE DEF y, v
  <1>10. /\ y \in Seq(Cells) /\ Range(y) = Range(vml) \cup Range(decoded) \cup {cell}
         /\ Len(y) = Len(vml) + Len(decoded) + 1
    BY <1>y DEF Joins
  <1>11. Widens(v, y, cell)
    <2>1. Len(vml) \in Nat /\ Len(decoded) \in Nat
      BY <1>8
    <2>2. CASE n \in DOMAIN C
      BY <1>9, <1>10, <2>1, <2>2 DEF Widens
    <2>3. CASE n \notin DOMAIN C
      <3>1. Range(vml) = {} /\ Len(vml) = 0
        BY <1>9, <2>3 DEF Range
      <3> QED
        BY <1>9, <1>10, <2>1, <2>3, <3>1 DEF Widens
    <2> QED
      BY <2>2, <2>3
  <1>12. IsPut(q, C, n, y)
    BY PutIs
  <1> HIDE DEF q
  <1>13. BoxesKept(X, q, E)
    <2>1. /\ DOMAIN q = DOMAIN C \cup {n} /\ q[n] = y
          /\ \A m \in DOMAIN C : m # n => q[m] = C[m]
      BY <1>12 DEF IsPut
    <2>2. DOMAIN E \subseteq DOMAIN X /\ DOMAIN E \subseteq DOMAIN q
      BY <1>1, <1>6, <2>1 DEF BoxesKept
    <2>3. ASSUME NEW m \in DOMAIN X \cap DOMAIN q PROVE Range(X[m]) \subseteq Range(q[m])
      <3>1. CASE m # n
        BY <1>1, <2>1, <2>3, <3>1 DEF BoxesKept
      <3>2. CASE m = n /\ n \in DOMAIN C
        <4>1. Range(X[n]) \subseteq Range(C[n])
          BY <1>1, <2>3, <3>2 DEF BoxesKept
        <4> QED
          BY <1>9, <1>10, <2>1, <3>2, <4>1
      <3>3. CASE m = n /\ n \notin DOMAIN C
        <4>1. n \notin DOMAIN D /\ n \in DOMAIN X
          BY <1>1, <2>3, <3>3 DEF BoxesKept
        <4>2. decoded = X[n]
          BY <1>6, <4>1 DEF decoded
        <4> QED
          BY <1>10, <2>1, <3>3, <4>2
      <3> QED
        BY <3>1, <3>2, <3>3
    <2>4. ASSUME NEW m \in DOMAIN E PROVE Range(E[m]) \subseteq Range(q[m])
      <3>1. CASE m # n
        <4>1. m \in DOMAIN D /\ m \in DOMAIN C /\ E[m] = D[m]
          BY <1>1, <1>6, <2>4, <3>1 DEF BoxesKept
        <4> QED
          BY <1>1, <2>1, <3>1, <4>1 DEF BoxesKept
      <3>2. CASE m = n
        <4>1. decoded = E[n]
          BY <2>4, <3>2 DEF decoded
        <4> QED
          BY <1>10, <2>1, <3>2, <4>1
      <3> QED
        BY <3>1, <3>2
    <2> HIDE DEF X, E
    <2> QED
      BY <2>2, <2>3, <2>4, Zenon DEF BoxesKept
  <1>14. Replaces(c, h, "vml", n, y)
    BY <1>6, <1>7, <1>10, PutCacheIs, PartTypeIs DEF Parsed
  <1>15. /\ IsFile(h) /\ h.Sheet = c.Sheet /\ h.XLSX = c.XLSX
         /\ h.DecodeVMLDrawing = E
         /\ h.Overrides = c.Overrides /\ h.Defaults = c.Defaults
         /\ h.Cache["vml"] = Put(c.Cache["vml"], n, y)
         /\ \A k \in Parsed : k # "vml" => h.Cache[k] = c.Cache[k]
    BY <1>14 DEF Replaces
  <1>16. /\ h.Cache["comments"] = g.Cache["comments"] /\ h.Cache["sheetRels"] = b.Cache["sheetRels"]
         /\ h.Cache["drawing"] = b.Cache["drawing"] /\ h.Cache["drawingRels"] = b.Cache["drawingRels"]
         /\ h.Cache["vml"] = q
    BY <1>2, <1>3, <1>6, <1>15 DEF Parsed, q
  <1>17. NotesTurn(b, h, n, x, y)
    BY <1>2, <1>6, <1>13, <1>15, <1>16 DEF NotesTurn, q
  <1> QED
    BY <1>11, <1>17 DEF v

LEMMA BoxesAppend ==
  ASSUME NEW v \in Seq(Cells), NEW notes \in Seq(Notes), Boxes(v, notes),
         NEW cell \in Cells, NEW note \in Notes, note.cell = cell,
         NEW y, Widens(v, y, cell), NEW x, x = Append(notes, note)
  PROVE  Boxes(y, x)
  <1>1. /\ DOMAIN notes = 1..Len(notes) /\ Len(notes) \in Nat /\ Len(v) \in Nat
        /\ x \in Seq(Notes) /\ DOMAIN x = 1..(Len(notes) + 1) /\ Len(x) = Len(notes) + 1
        /\ x[Len(notes) + 1] = note /\ \A i \in 1..Len(notes) : x[i] = notes[i]
    OBVIOUS
  <1>2. /\ y \in Seq(Cells) /\ Range(y) = Range(v) \cup {cell} /\ Len(v) + 1 <= Len(y)
        /\ Range(v) = {notes[i].cell : i \in DOMAIN notes} /\ Len(notes) <= Len(v)
    BY DEF Widens, Boxes
  <1>3. {x[i].cell : i \in DOMAIN x} = {notes[i].cell : i \in DOMAIN notes} \cup {cell}
    BY <1>1
  <1>4. Len(x) <= Len(y)
    <2>1. Len(y) \in Nat
      BY <1>2
    <2> QED
      BY <1>1, <1>2, <2>1
  <1> QED
    BY <1>2, <1>3, <1>4 DEF Boxes

LEMMA NotesTurned ==
  ASSUME NEW b, NEW P, FileInv(b, P), NEW n \in Number, NEW h, NEW x, NEW y, NotesTurn(b, h, n, x, y),
         Boxes(y, x), UpTo(PartsOf(b, "comments") \cup {n})
  PROVE  /\ FileInv(h, P) /\ n \in PartsOf(h, "vml") /\ n \in PartsOf(h, "comments")
  <1>1. /\ IsFile(b) /\ SheetsOK(b, P) /\ LeftOK(b) /\ DrawingsOK(b, P) /\ OwnOK(b)
        /\ KeptOK(b.XLSX["drawing"], b.Cache["drawing"])
        /\ NotesOK(b) /\ DecodedOK(b) /\ NumberedOK(b)
    BY DEF FileInv
  <1>2. /\ IsFile(h) /\ h.Sheet = b.Sheet /\ h.XLSX = b.XLSX
        /\ h.Overrides = b.Overrides /\ h.Defaults = b.Defaults
        /\ h.Cache["comments"] = Put(b.Cache["comments"], n, x)
        /\ h.Cache["vml"] = Put(b.Cache["vml"], n, y)
        /\ h.Cache["sheetRels"] = b.Cache["sheetRels"]
        /\ h.Cache["drawing"] = b.Cache["drawing"]
        /\ h.Cache["drawingRels"] = b.Cache["drawingRels"]
        /\ BoxesKept(b.XLSX["vml"], h.Cache["vml"], h.DecodeVMLDrawing)
    BY DEF NotesTurn
  <1>3. /\ IsPut(h.Cache["comments"], b.Cache["comments"], n, x)
        /\ IsPut(h.Cache["vml"], b.Cache["vml"], n, y)
    BY <1>2, PutIs
  <1>4. /\ Content(h, "comments", n) = x /\ Content(h, "vml", n) = y
        /\ PartsOf(h, "comments") = PartsOf(b, "comments") \cup {n}
        /\ PartsOf(h, "vml") = PartsOf(b, "vml") \cup {n}
    BY <1>2, <1>3 DEF Content, PartsOf, Parsed, IsPut
  <1>5. \A m : m # n => /\ Content(h, "comments", m) = Content(b, "comments", m)
                        /\ Content(h, "vml", m) = Content(b, "vml", m)
    BY <1>2, <1>3 DEF Content, IsPut
  <1>6. \A m : /\ Content(h, "sheetRels", m) = Content(b, "sheetRels", m)
               /\ Content(h, "drawing", m) = Content(b, "drawing", m)
               /\ Content(h, "drawingRels", m) = Content(b, "drawingRels", m)
    BY <1>2 DEF Content
  <1>7. /\ PartsOf(h, "sheetRels") = PartsOf(b, "sheetRels")
        /\ PartsOf(h, "drawing") = PartsOf(b, "drawing")
        /\ PartsOf(h, "drawingRels") = PartsOf(b, "drawingRels")
        /\ PartsOf(h, "media") = PartsOf(b, "media")
        /\ PartsOf(h, "chart") = PartsOf(b, "chart")
        /\ PartsOf(h, "table") = PartsOf(b, "table")
    BY <1>2 DEF PartsOf, Parsed
  <1>8. Grows(b, h)
    BY <1>2, <1>4, <1>7 DEF Grows, Stored, Parsed
  <1>9. SheetsOK(h, P)
    BY <1>1, <1>2, <1>6, <1>8, SheetGrows, ContinuesSelf DEF SheetsOK
  <1>10. LeftOK(h)
    BY <1>1, <1>2, <1>6 DEF LeftOK
  <1>11. \A s : DrawingOf(h, s) = DrawingOf(b, s) /\ LegacyDrawingOf(h, s) = LegacyDrawingOf(b, s)
    BY <1>2, <1>6 DEF DrawingOf, LegacyDrawingOf, GetSheetRelationshipsTargetByID, TargetByID
  <1>12. OwnOK(h)
    BY <1>1, <1>2, <1>11 DEF OwnOK
  <1>13. DrawingsOK(h, P)
    BY <1>1, <1>6, <1>7, <1>8, DrawingGrows, ContinuesSelf DEF DrawingsOK
  <1>14. KeptOK(h.XLSX["drawing"], h.Cache["drawing"])
    BY <1>1, <1>2
  <1>15. NotesOK(h)
    <2>1. PartsOf(h, "vml") = PartsOf(h, "comments")
      BY <1>1, <1>4 DEF NotesOK
    <2>2. ASSUME NEW m \in PartsOf(h, "comments")
          PROVE  Boxes(Content(h, "vml", m), Content(h, "comments", m))
      <3>1. CASE m = n
        BY <1>4, <3>1
      <3>2. CASE m # n
        <4>1. m \in PartsOf(b, "comments")
          BY <1>4, <2>2, <3>2
        <4> QED
          BY <1>1, <1>5, <3>2, <4>1 DEF NotesOK
      <3> QED
        BY <3>1, <3>2
    <2> QED
      BY <2>1, <2>2 DEF NotesOK
  <1>16. DecodedOK(h)
    BY <1>2 DEF DecodedOK
  <1>17. NumberedOK(h)
    BY <1>1, <1>4, <1>7 DEF NumberedOK
  <1> QED
    BY <1>2, <1>4, <1>9, <1>10, <1>12, <1>13, <1>14, <1>15, <1>16, <1>17 DEF FileInv

\* the comments of a sheet are there, or have the next number
CommentsPrepared(b, s) ==
  \/ b.Sheet[s].legacyDrawing # 0
  \/ DOMAIN b.XLSX["comments"] \subseteq DOMAIN b.Cache["comments"]
  \/ DOMAIN b.Cache["comments"] \subseteq DOMAIN b.XLSX["comments"]

\* sheet s of d has comments n: the ones it had in b, or new ones
CommentsReady(b, d, s, n) ==
  /\ SheetsBut(b, d, s) /\ d.Sheet[s].legacyDrawing # 0
  /\ d.Sheet[s].drawing = b.Sheet[s].drawing
  /\ d.Sheet[s].picture = b.Sheet[s].picture /\ d.Sheet[s].tableParts = b.Sheet[s].tableParts
  /\ IF b.Sheet[s].legacyDrawing = 0 THEN n \notin PartsOf(b, "comments")
     ELSE n = LegacyDrawingOf(b, s)

IsCommentsPrepared(b, d, s, n) ==
  /\ Follows(b, d, {}, {}) /\ CommentsReady(b, d, s, n)
  /\ FileInv(d, {<<"vml", n>>, <<"comments", n>>}) /\ n \in Number
  /\ UpTo(PartsOf(d, "comments") \cup {n})

LEMMA CommentsPreparedIs ==
  ASSUME NEW b, FileInv(b, {}), NEW s \in DOMAIN b.Sheet, CommentsPrepared(b, s),
         NEW d, d = PrepareComments(b, s), NEW n, n = LegacyDrawingOf(d, s)
  PROVE  IsCommentsPrepared(b, d, s, n)
  <1>1. IsFile(b) /\ NumberedOK(b) /\ NotesOK(b)
    BY DEF FileInv
  <1>2. CASE b.Sheet[s].legacyDrawing # 0
    <2>1. d = Reader(b, "sheetRels", s)
      BY <1>2 DEF PrepareComments, WorkSheetRelsReader
    <2>2. SameView(b, d)
      BY <1>1, <2>1, ReaderIs
    <2>3. /\ FileInv(d, {}) /\ d.Sheet = b.Sheet /\ d.XLSX = b.XLSX
          /\ \A m : Content(d, "sheetRels", m) = Content(b, "sheetRels", m)
      BY <2>2, SameViewKeeps DEF SameView, Parsed
    <2>4. n \in PartsOf(d, "comments") /\ n \in Number
      BY <1>2, <2>3, LegacyHere
    <2>5. IsFile(d) /\ UpTo(PartsOf(d, "comments"))
      BY <2>3 DEF FileInv, NumberedOK
    <2>6. PartsOf(d, "comments") \cup {n} = PartsOf(d, "comments")
      BY <2>4
    <2>7. FileInv(d, {<<"vml", n>>, <<"comments", n>>})
      BY <2>3, <2>5, RelabelsSelf, RelabelsKeeps
    <2>8. n = LegacyDrawingOf(b, s)
      BY <2>3 DEF LegacyDrawingOf, GetSheetRelationshipsTargetByID, TargetByID
    <2>9. Follows(b, d, {}, {})
      BY <2>2, FollowsSame DEF SameView
    <2>10. CommentsReady(b, d, s, n)
      BY <1>2, <2>3, <2>8 DEF CommentsReady, SheetsBut
    <2> QED
      BY <2>3, <2>4, <2>5, <2>6, <2>7, <2>8, <2>9, <2>10 DEF IsCommentsPrepared
  <1>3. CASE b.Sheet[s].legacyDrawing = 0
    <2>1. PICK m \in Nat : PartsOf(b, "comments") = 1..m
      BY <1>1 DEF NumberedOK, UpTo
    <2>2. CountComments(b) = m
      BY <1>3, <2>1, CountEitherIs DEF CommentsPrepared, CountComments, Parsed
    <2>3. /\ m + 1 \in Number /\ UpTo(PartsOf(b, "comments") \cup {m + 1})
          /\ m + 1 \notin PartsOf(b, "comments")
      BY <2>1, NextNumber
    <2> DEFINE id == m + 1
               type == "vml"
               c == AddSheetRelationships(b, s, type, id)
               P == {}
               Q == {<<"vml", id>>, <<"comments", id>>}
               r == Content(b, "sheetRels", s)
               q == Append(r, RelOf(type, id))
               x == RelOf("comments", id)
               p == Append(q, x)
               e == AddSheetRelationships(c, s, "comments", id)
               w == [b.Sheet[s] EXCEPT !.legacyDrawing = Len(q)]
               v == [e.Sheet EXCEPT ![s] = w]
    <2>4. d = AddSheetLegacyDrawing(e, s, LastRID(c, "sheetRels", s))
      BY <1>3, <2>2 DEF PrepareComments
    <2>5. /\ id \in Number /\ type \in RelTypes /\ type # "comments"
          /\ P \subseteq Q /\ <<type, id>> \in Q /\ FileInv(b, P) /\ s \in DOMAIN b.Sheet
      BY <2>3 DEF RelTypes
    <2>6. /\ c = AddSheetRelationships(b, s, type, id)
          /\ q = Append(Content(b, "sheetRels", s), RelOf(type, id))
      OBVIOUS
    <2> HIDE DEF id, type, P, Q, q, c
    <2>7. /\ FileInv(c, P) /\ Replaces(b, c, "sheetRels", s, q) /\ q \in Seq(Rels)
          /\ Continues(r, q)
          /\ LastRID(c, "sheetRels", s) = Len(q) /\ Len(q) \in Number
          /\ LeadsTo(c, Q, q, Len(q), type) /\ Ref(q, Len(q)) = id
          /\ SheetOK(c, Q, b.Sheet[s], q) /\ b.Sheet[s] \in Worksheets /\ c.Sheet = b.Sheet
      <3>1. Gives(b, c, s, P, Q, q, type, id)
        BY ONLY <2>5, <2>6, SheetRelGives
      <3> QED
        BY <3>1 DEF Gives
    <2>8. x \in Rels /\ x.type = "comments" /\ x.target = id
      BY <2>5 DEF RelOf, Rels, Number
    <2>9. /\ Content(c, "sheetRels", s) = q
          /\ \A u : u # s => Content(c, "sheetRels", u) = Content(b, "sheetRels", u)
      <3> DEFINE kind == "sheetRels"
      <3>1. kind \in Parsed /\ Replaces(b, c, kind, s, q)
        BY <2>7 DEF Parsed
      <3> HIDE DEF kind
      <3>2. Content(c, kind, s) = q /\ \A u : u # s => Content(c, kind, u) = Content(b, kind, u)
        BY ONLY <3>1, ReplacesOne
      <3> QED
        BY <3>2 DEF kind
    <2>10. e = PutCache(c, "sheetRels", s, p)
      BY <2>9 DEF AddSheetRelationships, AddRelationship, RelOf
    <2> HIDE DEF x
    <2>11. /\ p \in Seq(Rels) /\ Len(p) = Len(q) + 1 /\ Len(q) \in Nat /\ p[Len(q) + 1] = x
           /\ DOMAIN p = DOMAIN q \cup {Len(q) + 1} /\ Len(q) + 1 \notin DOMAIN q /\ Continues(q, p)
      BY <2>7, <2>8, ContinuesAppend
    <2> HIDE DEF p, e
    <2>12. IsFile(c) /\ s \in Number
      BY <1>1, <2>7, FileFields, PackageAssumption DEF FileInv, IsSheets, Number
    <2>13. Replaces(c, e, "sheetRels", s, p)
      BY <2>10, <2>11, <2>12, PutCacheIs, PartTypeIs DEF Parsed
    <2>14. Grows(c, e) /\ e.Sheet = c.Sheet
      BY <2>7, <2>13, OtherKinds DEF Parsed, Replaces
    <2>15. d = [e EXCEPT !.Sheet = v]
      <3>1. [e.Sheet EXCEPT ![s].legacyDrawing = Len(q)] = v
        BY <2>7, <2>14
      <3> QED
        BY <2>4, <2>7, <3>1 DEF AddSheetLegacyDrawing
    <2>16. /\ w \in Worksheets /\ w.drawing = b.Sheet[s].drawing /\ w.legacyDrawing = Len(q)
           /\ w.picture = b.Sheet[s].picture /\ w.tableParts = b.Sheet[s].tableParts
      BY <2>7 DEF Worksheets, Number
    <2>17. v = [e.Sheet EXCEPT ![s] = w]
      OBVIOUS
    <2> HIDE DEF w, v
    <2>18. SheetOK(e, Q, w, p)
      <3>1. \A rid, ty : LeadsTo(c, Q, q, rid, ty) => LeadsTo(e, Q, p, rid, ty)
        BY <2>11, <2>14, LeadsGrows
      <3>2. LeadsTo(e, Q, p, Len(q), "vml") /\ Len(q) # 0
        BY <2>7, <3>1 DEF type, Number
      <3>3. LeadsTo(e, Q, p, Len(q) + 1, "comments")
        BY <2>8, <2>11 DEF LeadsTo, Known, Q
      <3>4. p[Len(q) + 1].target = p[Len(q)].target
        <4>1. Len(q) \in DOMAIN q
          BY <2>7 DEF LeadsTo
        <4>2. q[Len(q)].target = id
          BY <2>7, <4>1 DEF Ref
        <4> QED
          BY <2>8, <2>11, <4>1, <4>2 DEF Continues
      <3>5. \A i \in DOMAIN q : q[i].type # "comments"
        BY <1>3, <2>7 DEF SheetOK
      <3>6. \A i \in DOMAIN p : p[i].type = "comments" => i = Len(q) + 1
        BY <2>11, <3>5 DEF Continues
      <3>7. /\ w.drawing # 0 => LeadsTo(e, Q, p, w.drawing, "drawing")
            /\ w.picture # 0 => LeadsTo(e, Q, p, w.picture, "image")
            /\ \A i \in DOMAIN w.tableParts : LeadsTo(e, Q, p, w.tableParts[i], "table")
        BY <2>7, <2>16, <3>1 DEF SheetOK
      <3> QED
        BY <2>16, <3>2, <3>3, <3>4, <3>6, <3>7 DEF SheetOK
    <2>19. s \in DOMAIN c.Sheet
      BY <2>7
    <2>20. Ref(p, w.legacyDrawing) = id
      BY <2>7, <2>11, <2>16 DEF Ref, LeadsTo, Continues
    <2>21. Apart(c, s, w, p)
      <3>1. /\ Ref(p, w.drawing) = DrawingOf(c, s)
            /\ \A u \in DOMAIN c.Sheet :
                 u # s => (DrawingOf(c, s) # 0 => DrawingOf(c, s) # DrawingOf(c, u))
        BY <2>7, <2>9, <2>11, <2>16, <2>19, StillApart
      <3>2. \A u \in DOMAIN c.Sheet : u # s => LegacyDrawingOf(c, u) # id
        <4> TAKE u \in DOMAIN c.Sheet
        <4>1. u # s => LegacyDrawingOf(c, u) = LegacyDrawingOf(b, u)
          BY <2>7, <2>9 DEF LegacyDrawingOf, GetSheetRelationshipsTargetByID, TargetByID
        <4>2. LegacyDrawingOf(b, u) \in PartsOf(b, "comments") \/ LegacyDrawingOf(b, u) = 0
          BY <2>7, LegacyHere
        <4>3. id \notin PartsOf(b, "comments") /\ id # 0
          BY <2>3, <2>5 DEF id, Number
        <4> QED
          BY <4>1, <4>2, <4>3
      <3> QED
        BY <2>20, <3>1, <3>2 DEF Apart
    <2>22. FileInv(d, Q) /\ Edits(e, d, s, w) /\ LegacyDrawingOf(d, s) = Ref(p, w.legacyDrawing)
      <3>1. /\ FileInv(c, P) /\ P \subseteq Q /\ p \in Seq(Rels) /\ w \in Worksheets
        BY <2>5, <2>7, <2>11, <2>16
      <3> QED
        BY ONLY <3>1, <2>13, <2>15, <2>17, <2>18, <2>19, <2>21, SheetTurned
    <2>23. n = id
      BY <2>20, <2>22
    <2>24. d.XLSX = b.XLSX /\ d.Cache["comments"] = b.Cache["comments"]
      BY <2>7, <2>13, <2>22 DEF Replaces, Edits, Parsed
    <2>25. PartsOf(d, "comments") = PartsOf(b, "comments")
      BY <2>24 DEF PartsOf
    <2>27. Replaces(b, e, "sheetRels", s, p) /\ Continues(r, p)
      BY <2>7, <2>11, <2>13, ReplacesTwice, ContinuesOn
    <2>28. Attaches(b, d, s, w)
      BY <1>1, <2>22, <2>27, AttachesIs
    <2>29. CommentsReady(b, d, s, n)
      BY <1>3, <2>3, <2>7, <2>16, <2>23, <2>28 DEF CommentsReady, Attaches, Number, id
    <2>30. Follows(b, d, {}, {})
      BY <2>28 DEF Attaches
    <2> QED
      BY <2>3, <2>5, <2>22, <2>23, <2>25, <2>29, <2>30 DEF IsCommentsPrepared, id, Q
  <1> QED
    BY <1>2, <1>3

LEMMA FollowsNotes ==
  ASSUME NEW b, NEW h, NEW n, NEW x, NEW y, NotesTurn(b, h, n, x, y)
  PROVE  Follows(b, h, {}, {n}) /\ Content(h, "comments", n) = x
  <1>1. \A m : /\ Content(h, "sheetRels", m) = Content(b, "sheetRels", m)
               /\ Content(h, "drawingRels", m) = Content(b, "drawingRels", m)
               /\ Content(h, "drawing", m) = Content(b, "drawing", m)
    BY DEF NotesTurn, Content
  <1>2. h.XLSX = b.XLSX
    BY DEF NotesTurn
  <1>3. /\ Content(h, "comments", n) = x
        /\ \A m : m # n => Content(h, "comments", m) = Content(b, "comments", m)
    <2>1. IsPut(h.Cache["comments"], b.Cache["comments"], n, x)
      BY PutIs DEF NotesTurn
    <2> QED
      BY <1>2, <2>1 DEF IsPut, Content
  <1> QED
    BY <1>1, <1>2, <1>3, ContinuesSelf, AkinSelf DEF Follows, Keeps

\* sheet s has a note behind its others, and nothing else
Annotates(b, d, s, n, note) ==
  /\ Follows(b, d, {}, {n}) /\ CommentsReady(b, d, s, n) /\ LegacyDrawingOf(d, s) = n
  /\ note \in [cell : Cells, text : Texts]
  /\ Content(d, "comments", n) = Append(Content(b, "comments", n), note)

LEMMA CommentAdded ==
  ASSUME NEW b, FileInv(b, {}), NEW s \in DOMAIN b.Sheet, CommentsPrepared(b, s),
         NEW cell \in Cells, NEW text \in Texts,
         NEW c, c = PrepareComments(b, s), NEW n, n = LegacyDrawingOf(c, s),
         NEW g, g = AddCommentTo(c, n, cell, text),
         NEW h, h = AddDrawingVML(g, n, cell),
         NEW d, d = AddContentTypePart(h, "comments", n)
  PROVE  FileInv(d, {}) /\ \E note : Annotates(b, d, s, n, note)
  <1> DEFINE P == {<<"vml", n>>, <<"comments", n>>}
             notes == Content(c, "comments", n)
             boxes == Content(c, "vml", n)
             note == [cell |-> cell, text |-> text]
             x == Append(notes, note)
  <1>1. IsCommentsPrepared(b, c, s, n)
    BY CommentsPreparedIs
  <1>2. /\ FileInv(c, P) /\ n \in Number /\ UpTo(PartsOf(c, "comments") \cup {n})
        /\ Follows(b, c, {}, {}) /\ CommentsReady(b, c, s, n)
    BY <1>1 DEF IsCommentsPrepared
  <1> HIDE DEF P
  <1>3. IsFile(c) /\ NotesOK(c)
    BY <1>2 DEF FileInv
  <1>4. notes \in Seq(Notes) /\ boxes \in Seq(Cells)
    BY <1>3, ContentType, PartTypeIs DEF Parsed
  <1>5. note \in Notes /\ note.cell = cell /\ note \in [cell : Cells, text : Texts]
    BY DEF Notes
  <1>6. g = PutCache(c, "comments", n, x)
    BY DEF AddCommentTo
  <1>7. Boxes(boxes, notes)
    <2>1. CASE n \in PartsOf(c, "comments")
      BY <1>3, <2>1 DEF NotesOK
    <2>2. CASE n \notin PartsOf(c, "comments")
      <3>1. n \notin PartsOf(c, "vml")
        BY <1>3, <2>2 DEF NotesOK
      <3>2. notes = << >> /\ boxes = << >>
        BY <2>2, <3>1 DEF Content, PartsOf, Parsed
      <3> QED
        BY <3>2 DEF Boxes, Range
    <2> QED
      BY <2>1, <2>2
  <1> HIDE DEF note, notes
  <1>8. x \in Seq(Notes)
    BY <1>4, <1>5
  <1>9. Replaces(c, g, "comments", n, x)
    BY <1>2, <1>3, <1>6, <1>8, PutCacheIs, PartTypeIs DEF Parsed
  <1>10. PICK y : NotesTurn(c, h, n, x, y) /\ Widens(boxes, y, cell)
    BY <1>2, <1>9, BoxAdded
  <1>11. Boxes(y, x)
    BY <1>4, <1>5, <1>7, <1>10, BoxesAppend
  <1> HIDE DEF x
  <1>12. FileInv(h, P) /\ n \in PartsOf(h, "vml") /\ n \in PartsOf(h, "comments")
    BY <1>2, <1>10, <1>11, NotesTurned
  <1>13. IsFile(h)
    BY <1>12 DEF FileInv
  <1>14. Relabels(h, d) /\ <<"comments", n>> \in d.Overrides /\ "vml" \in d.Defaults
    BY <1>2, <1>13, ContentTypePartIs DEF OverrideKinds
  <1>15. FileInv(d, P) /\ \A k : PartsOf(d, k) = PartsOf(h, k)
    BY <1>12, <1>14, RelabelsKeeps
  <1>16. \A ty, t : <<ty, t>> \in P => Known(d, {}, ty, t)
    BY <1>12, <1>14, <1>15 DEF P, Known, OverrideKinds
  <1>17. /\ h.Sheet = c.Sheet /\ d.Sheet = h.Sheet /\ d.XLSX = h.XLSX /\ d.Cache = h.Cache
         /\ \A m : Content(h, "sheetRels", m) = Content(c, "sheetRels", m)
    BY <1>10, <1>14 DEF NotesTurn, Relabels, Content
  <1>18. Follows(h, d, {}, {}) /\ \A k, m : Content(d, k, m) = Content(h, k, m)
    BY <1>17, FollowsKept DEF Content
  <1>19. Follows(c, h, {}, {n}) /\ Content(h, "comments", n) = x
    BY <1>10, FollowsNotes
  <1>20. Follows(c, d, {}, {n})
    BY <1>18, <1>19, FollowsOn
  <1>21. Follows(b, d, {}, {n})
    BY <1>2, <1>20, FollowsOn
  <1>22. CommentsReady(b, d, s, n)
    BY <1>2, <1>17 DEF CommentsReady, SheetsBut
  <1>23. LegacyDrawingOf(d, s) = n
    BY <1>17, <1>18, RefIs
  <1>24. notes = Content(b, "comments", n)
    BY <1>2 DEF Follows, Keeps, notes
  <1>25. Annotates(b, d, s, n, note)
    BY <1>5, <1>18, <1>19, <1>21, <1>22, <1>23, <1>24 DEF Annotates, x
  <1> QED
    BY <1>15, <1>16, <1>25, PromiseKept

-----------------------------------------------------------------------------
(* Reading.                                                                *)

\* a set of numbers has a least one
LEMMA LeastNumber ==
  ASSUME NEW S, S \subseteq Nat, S # {}
  PROVE  \E n \in S : \A m \in S : n <= m
  <1> DEFINE R == OpToRel(<, Nat)
  <1>1. IsWellFoundedOn(R, Nat)
    BY NatLessThanWellFounded
  <1>2. \A x, y \in Nat : <<y, x>> \in R <=> y < x
    BY DEF R, OpToRel
  <1> HIDE DEF R
  <1>3. PICK x \in S : \A y \in S : ~ (<<y, x>> \in R)
    BY <1>1, WFMin
  <1>4. \A y \in S : ~(y < x)
    BY <1>2, <1>3, Zenon
  <1> QED
    BY <1>4

LEMMA FirstIs ==
  ASSUME NEW S, S \subseteq Nat, S # {}
  PROVE  First(S) \in S
  <1>1. \E n \in S : \A m \in S : n <= m
    BY LeastNumber
  <1> QED
    BY <1>1, Zenon DEF First

\* the parsed parts of a kind, when more of them are read
AreRead(b, kind, S, p) ==
  /\ Holds(p, kind)
  /\ DOMAIN p = DOMAIN b.Cache[kind] \cup (S \cap DOMAIN b.XLSX[kind])
  /\ \A n \in DOMAIN p : p[n] = Content(b, kind, n)

LEMMA ReadAllIs ==
  ASSUME NEW b, IsFile(b), NEW kind \in Parsed, NEW S, NEW p, p = ReadAll(b, kind, S)
  PROVE  AreRead(b, kind, S, p)
  <1>1. p = [n \in DOMAIN b.Cache[kind] \cup (S \cap DOMAIN b.XLSX[kind]) |-> Content(b, kind, n)]
    BY DEF ReadAll
  <1>2. Holds(b.Cache[kind], kind) /\ Holds(b.XLSX[kind], kind)
    BY FileFields DEF Parsed, Stored
  <1>3. \A n : Content(b, kind, n) \in PartType(kind)
    BY ContentType
  <1>4. DOMAIN p \subseteq Number
    BY <1>1, <1>2 DEF Holds
  <1> QED
    BY <1>1, <1>3, <1>4 DEF Holds, AreRead

\* GetComments reads and changes nothing
LEMMA CommentsRead ==
  ASSUME NEW b, IsFile(b), NEW S, NEW T,
         NEW p, p = ReadAll(b, "sheetRels", S), NEW q, q = ReadAll(b, "comments", T),
         NEW c, c = [b.Cache EXCEPT !["sheetRels"] = p, !["comments"] = q],
         NEW d, d = [b EXCEPT !.Cache = c]
  PROVE  SameView(b, d)
  <1>1. /\ Holds(p, "sheetRels")
        /\ DOMAIN p = DOMAIN b.Cache["sheetRels"] \cup (S \cap DOMAIN b.XLSX["sheetRels"])
        /\ \A n \in DOMAIN p : p[n] = Content(b, "sheetRels", n)
    <2>1. AreRead(b, "sheetRels", S, p)
      BY ReadAllIs DEF Parsed
    <2> QED
      BY <2>1 DEF AreRead
  <1>2. /\ Holds(q, "comments")
        /\ DOMAIN q = DOMAIN b.Cache["comments"] \cup (T \cap DOMAIN b.XLSX["comments"])
        /\ \A n \in DOMAIN q : q[n] = Content(b, "comments", n)
    <2>1. AreRead(b, "comments", T, q)
      BY ReadAllIs DEF Parsed
    <2> QED
      BY <2>1 DEF AreRead
  <1>3. b.Cache = [k \in Parsed |-> b.Cache[k]] /\ \A k \in Parsed : Holds(b.Cache[k], k)
    BY FileFields DEF IsParsed
  <1>4. /\ c = [k \in Parsed |-> c[k]] /\ c["sheetRels"] = p /\ c["comments"] = q
        /\ c["drawing"] = b.Cache["drawing"] /\ c["drawingRels"] = b.Cache["drawingRels"]
        /\ c["vml"] = b.Cache["vml"]
    BY <1>3 DEF Parsed
  <1>5. IsParsed(c)
    BY <1>1, <1>2, <1>3, <1>4 DEF IsParsed, Parsed
  <1>6. /\ IsFile(d) /\ d.Cache = c /\ d.Sheet = b.Sheet /\ d.XLSX = b.XLSX
        /\ d.DecodeVMLDrawing = b.DecodeVMLDrawing
        /\ d.Overrides = b.Overrides /\ d.Defaults = b.Defaults
    BY <1>5, CacheSet
  <1>7. ASSUME NEW m
        PROVE  /\ Content(d, "sheetRels", m) = Content(b, "sheetRels", m)
               /\ Content(d, "comments", m) = Content(b, "comments", m)
               /\ Content(d, "drawing", m) = Content(b, "drawing", m)
               /\ Content(d, "drawingRels", m) = Content(b, "drawingRels", m)
               /\ Content(d, "vml", m) = Content(b, "vml", m)
    <2>1. Content(d, "sheetRels", m) = Content(b, "sheetRels", m)
      BY <1>1, <1>4, <1>6 DEF Content
    <2>2. Content(d, "comments", m) = Content(b, "comments", m)
      BY <1>2, <1>4, <1>6 DEF Content
    <2> QED
      BY <1>4, <1>6, <2>1, <2>2 DEF Content
  <1>8. /\ PartsOf(d, "sheetRels") = PartsOf(b, "sheetRels")
        /\ PartsOf(d, "comments") = PartsOf(b, "comments")
        /\ PartsOf(d, "drawing") = PartsOf(b, "drawing")
        /\ PartsOf(d, "drawingRels") = PartsOf(b, "drawingRels")
        /\ PartsOf(d, "vml") = PartsOf(b, "vml")
    BY <1>1, <1>2, <1>4, <1>6 DEF PartsOf, Parsed
  <1> QED
    BY <1>4, <1>6, <1>7, <1>8 DEF SameView, Parsed

\* anchor a is a picture at the cell
IsPicAt(a, cell) == a.kind = "pic" /\ a.cell = cell

\* the relationship GetPicture finds is that of a picture at the cell, and it
\* finds one if there is one
LEMMA PictureFound ==
  ASSUME NEW b, NEW P, FileInv(b, P), NEW n \in Number, NEW cell,
         NEW e, e = Content(b, "drawing", n), NEW rid, rid = PictureRID(b, n, cell)
  PROVE  \/ \E i \in DOMAIN e : IsPicAt(e[i], cell) /\ e[i].rid = rid
         \/ rid = 0 /\ \A i \in DOMAIN e : ~IsPicAt(e[i], cell)
  <1> DEFINE c == ParsedAnchors(b, n)
             x == IF n \in DOMAIN b.XLSX["drawing"] THEN b.XLSX["drawing"][n] ELSE << >>
             pics == PicsAt(c, cell)
             kept == PicsAt(x, cell)
  <1>1. DrawingParser(b, n).Cache["drawing"][n] = c
    BY ParserIs
  <1>2. rid = IF pics # {} THEN c[First(pics)].rid ELSE IF kept # {} THEN x[First(kept)].rid ELSE 0
    BY <1>1, Zenon DEF PictureRID
  <1>3. /\ c \in Seq(Anchors) /\ KeepsText(b, n, c) /\ Len(c) = Len(e)
        /\ \A i \in DOMAIN c : Alike(c[i], e[i])
    BY ParsedAnchorsAre
  <1>4. e \in Seq(Anchors) /\ Holds(b.XLSX["drawing"], "drawing") /\ KeptOK(b.XLSX["drawing"], b.Cache["drawing"])
    BY DrawingType, FileFields DEF FileInv, Stored, Parsed
  <1>5. x \in Seq(Anchors) /\ NoText(x)
    BY <1>4, PartTypeIs DEF Holds, KeptOK, NoText
  <1>6. /\ x # << >> => Begins(x, c)
        /\ TextWithin(c, Len(x))
    <2>1. CASE n \in DOMAIN b.XLSX["drawing"]
      BY <1>3, <2>1 DEF KeepsText
    <2>2. CASE n \notin DOMAIN b.XLSX["drawing"]
      BY <1>3, <2>2 DEF KeepsText, NoText, TextWithin
    <2> QED
      BY <2>1, <2>2
  <1> HIDE DEF c, x
  <1>7. /\ pics \subseteq DOMAIN c /\ kept \subseteq DOMAIN x
        /\ \A i \in DOMAIN c : i \in pics <=> c[i].kind = "pic" /\ ~c[i].raw /\ c[i].cell = cell
        /\ \A i \in DOMAIN x : i \in kept <=> x[i].kind = "pic" /\ ~x[i].raw /\ x[i].cell = cell
    BY DEF PicsAt
  <1>8. pics \subseteq Nat /\ kept \subseteq Nat
    BY <1>3, <1>5, <1>7
  <1>9. DOMAIN c = DOMAIN e /\ DOMAIN c = 1..Len(c) /\ DOMAIN x = 1..Len(x) /\ Len(c) \in Nat /\ Len(x) \in Nat
    BY <1>3, <1>4, <1>5
  <1> HIDE DEF pics, kept
  <1>10. \A i \in DOMAIN x : i \in DOMAIN e /\ Alike(x[i], e[i])
    <2> TAKE i \in DOMAIN x
    <2>1. x # << >>
      BY <1>9
    <2>2. Len(x) <= Len(c) /\ Alike(x[i], c[i])
      BY <1>6, <2>1 DEF Begins
    <2>3. i \in DOMAIN c
      BY <1>9, <2>2
    <2> QED
      BY <1>3, <1>9, <2>2, <2>3 DEF Alike
  <1>11. CASE pics # {}
    <2>1. First(pics) \in pics
      BY <1>8, <1>11, FirstIs
    <2>2. rid = c[First(pics)].rid
      BY <1>2, <1>11
    <2> QED
      BY <1>3, <1>7, <1>9, <2>1, <2>2 DEF Alike, IsPicAt
  <1>12. CASE pics = {} /\ kept # {}
    <2>1. First(kept) \in kept
      BY <1>8, <1>12, FirstIs
    <2>2. rid = x[First(kept)].rid
      BY <1>2, <1>12
    <2> QED
      BY <1>7, <1>10, <2>1, <2>2 DEF Alike, IsPicAt
  <1>13. CASE pics = {} /\ kept = {}
    <2>1. rid = 0
      BY <1>2, <1>13
    <2>2. ASSUME NEW i \in DOMAIN e, IsPicAt(e[i], cell) PROVE FALSE
      <3>1. i \in DOMAIN c /\ c[i].kind = "pic" /\ c[i].cell = cell
        BY <1>3, <1>9, <2>2 DEF Alike, IsPicAt
      <3>2. c[i].raw
        BY <1>7, <1>13, <3>1
      <3>3. i <= Len(x)
        BY <1>6, <3>1, <3>2 DEF TextWithin
      <3>4. i \in DOMAIN x
        BY <1>9, <3>1, <3>3
      <3>5. x[i].kind = "pic" /\ x[i].cell = cell /\ ~x[i].raw
        BY <1>5, <1>10, <2>2, <3>4 DEF Alike, IsPicAt, NoText
      <3> QED
        BY <1>7, <1>13, <3>4, <3>5
    <2> QED
      BY <2>1, <2>2
  <1> QED
    BY <1>11, <1>12, <1>13

\* a picture of a drawing leads to an image
LEMMA PictureLeads ==
  ASSUME NEW b, FileInv(b, {}), NEW n \in PartsOf(b, "drawing"), n \in Number, NEW cell,
         NEW rid, rid = PictureRID(b, n, cell), rid # 0
  PROVE  LeadsTo(b, {}, Content(b, "drawingRels", n), rid, "image")
  <1> DEFINE e == Content(b, "drawing", n)
  <1>1. DrawingOK(b, {}, e, Content(b, "drawingRels", n))
    BY DEF FileInv, DrawingsOK
  <1>2. PICK i \in DOMAIN e : IsPicAt(e[i], cell) /\ e[i].rid = rid
    BY PictureFound
  <1> HIDE DEF e
  <1> QED
    BY <1>1, <1>2 DEF DrawingOK, AnchorOK, IsPicAt

LEMMA PictureGot ==
  ASSUME NEW b, FileInv(b, {}), NEW s \in DOMAIN b.Sheet, b.Sheet[s].drawing # 0, NEW cell,
         NEW n, n = DrawingOf(b, s),
         NEW c, c = WorkSheetRelsReader(b, s), NEW d, d = DrawingParser(c, n),
         NEW g, g = DrawingRelsReader(d, n),
         NEW rid, rid = PictureRID(b, n, cell)
  PROVE  /\ FileInv(d, {}) /\ FileInv(g, {})
         /\ Follows(b, d, {}, {}) /\ d.Sheet = b.Sheet /\ Follows(b, g, {}, {}) /\ g.Sheet = b.Sheet
         /\ rid # 0 => TargetByID(d, "drawingRels", n, rid) # 0
  <1>1. n \in PartsOf(b, "drawing") /\ n \in Number /\ IsFile(b)
    BY DrawingHere DEF FileInv
  <1>2. SameView(b, c)
    BY <1>1, ReaderIs DEF WorkSheetRelsReader
  <1>3. /\ FileInv(c, {}) /\ PartsOf(c, "drawing") = PartsOf(b, "drawing")
        /\ \A m : Content(c, "drawingRels", m) = Content(b, "drawingRels", m)
    BY <1>2, SameViewKeeps DEF SameView, Parsed
  <1>4. /\ FileInv(d, {}) /\ Follows(c, d, {}, {}) /\ d.Sheet = c.Sheet
        /\ \A m : Content(d, "drawingRels", m) = Content(c, "drawingRels", m)
    BY <1>1, <1>3, ParserKeeps
  <1>5. IsFile(d)
    BY <1>4 DEF FileInv
  <1>6. SameView(d, g)
    BY <1>5, ReaderIs DEF DrawingRelsReader
  <1>7. FileInv(g, {})
    BY <1>4, <1>6, SameViewKeeps
  <1>8. ASSUME rid # 0 PROVE TargetByID(d, "drawingRels", n, rid) # 0
    <2> DEFINE r == Content(b, "drawingRels", n)
    <2>1. LeadsTo(b, {}, r, rid, "image")
      BY <1>1, <1>8, PictureLeads
    <2>2. r \in Seq(Rels)
      BY <1>1, DrawingRelsType
    <2>3. Content(d, "drawingRels", n) = r
      BY <1>3, <1>4
    <2> HIDE DEF r
    <2>4. rid \in DOMAIN r
      BY <2>1 DEF LeadsTo
    <2>5. r[rid].target # 0
      <3>1. r[rid] \in Rels
        BY <2>2, <2>4
      <3> QED
        BY <3>1 DEF Rels
    <2> QED
      BY <2>3, <2>4, <2>5 DEF TargetByID
  <1>9. Follows(b, c, {}, {}) /\ c.Sheet = b.Sheet
    BY <1>2, FollowsSame DEF SameView
  <1>10. Follows(d, g, {}, {}) /\ g.Sheet = d.Sheet
    BY <1>6, FollowsSame DEF SameView
  <1>11. Follows(b, d, {}, {})
    BY <1>4, <1>9, FollowsOn
  <1>12. Follows(b, g, {}, {})
    BY <1>10, <1>11, FollowsOn
  <1> QED
    BY <1>4, <1>7, <1>8, <1>9, <1>10, <1>11, <1>12

-----------------------------------------------------------------------------
(* Sheets that come and go.                                                *)

LEMMA SheetAdded ==
  ASSUME NEW b, FileInv(b, {}), NEW n \in 1..MaxSheet, n \notin DOMAIN b.Sheet,
         NEW v, v = Put(b.Sheet, n, NewWorksheet), NEW d, d = [b EXCEPT !.Sheet = v]
  PROVE  FileInv(d, {}) /\ Follows(b, d, {}, {}) /\ d.Sheet = v
  <1>1. /\ IsFile(b) /\ SheetsOK(b, {}) /\ LeftOK(b) /\ DrawingsOK(b, {}) /\ OwnOK(b)
        /\ KeptOK(b.XLSX["drawing"], b.Cache["drawing"])
        /\ NotesOK(b) /\ DecodedOK(b) /\ NumberedOK(b)
    BY DEF FileInv
  <1>2. IsSheets(b.Sheet)
    BY <1>1, FileFields
  <1>3. /\ DOMAIN v = DOMAIN b.Sheet \cup {n} /\ v[n] = NewWorksheet
        /\ \A u \in DOMAIN b.Sheet : u # n => v[u] = b.Sheet[u]
        /\ v = [u \in DOMAIN v |-> v[u]]
    <2>1. IsPut(v, b.Sheet, n, NewWorksheet)
      BY PutIs
    <2> QED
      BY <2>1 DEF IsPut
  <1>4. \A u \in DOMAIN b.Sheet : v[u] = b.Sheet[u]
    BY <1>3
  <1>5. /\ NewWorksheet \in Worksheets /\ NewWorksheet.drawing = 0 /\ NewWorksheet.legacyDrawing = 0
        /\ NewWorksheet.picture = 0 /\ NewWorksheet.tableParts = << >>
    BY DEF NewWorksheet, Worksheets
  <1>6. IsSheets(v)
    BY <1>2, <1>3, <1>4, <1>5 DEF IsSheets
  <1>7. /\ IsFile(d) /\ d.Sheet = v /\ d.XLSX = b.XLSX /\ d.Cache = b.Cache
        /\ d.DecodeVMLDrawing = b.DecodeVMLDrawing
        /\ d.Overrides = b.Overrides /\ d.Defaults = b.Defaults
    BY <1>1, <1>6, SheetSet
  <1>8. (\A k, m : Content(d, k, m) = Content(b, k, m)) /\ (\A k : PartsOf(d, k) = PartsOf(b, k))
    BY <1>7 DEF Content, PartsOf
  <1>9. Grows(b, d)
    BY <1>7, <1>8 DEF Grows
  <1>10. n \in Number /\ NoNotes(Content(b, "sheetRels", n))
    BY <1>1, PackageAssumption DEF LeftOK, Number
  <1>11. SheetsOK(d, {})
    <2> SUFFICES ASSUME NEW u \in DOMAIN v PROVE SheetOK(d, {}, v[u], Content(b, "sheetRels", u))
      BY <1>7, <1>8 DEF SheetsOK
    <2>1. CASE u = n
      BY <1>3, <1>5, <1>10, <2>1 DEF SheetOK, NoNotes
    <2>2. CASE u # n
      <3>1. SheetOK(b, {}, v[u], Content(b, "sheetRels", u))
        BY <1>1, <1>3, <2>2 DEF SheetsOK
      <3> QED
        BY <1>9, <3>1, SheetGrows, ContinuesSelf
    <2> QED
      BY <2>1, <2>2
  <1>12. LeftOK(d)
    BY <1>1, <1>3, <1>7, <1>8 DEF LeftOK
  <1>13. DrawingsOK(d, {})
    BY <1>1, <1>8, <1>9, DrawingGrows, ContinuesSelf DEF DrawingsOK
  <1>14. /\ \A u \in DOMAIN b.Sheet : /\ DrawingOf(d, u) = DrawingOf(b, u)
                                      /\ LegacyDrawingOf(d, u) = LegacyDrawingOf(b, u)
         /\ DrawingOf(d, n) = 0 /\ LegacyDrawingOf(d, n) = 0
    <2>1. Content(b, "sheetRels", n) \in Seq(Rels)
      BY <1>1, SheetRelsType
    <2>2. 0 \notin DOMAIN Content(b, "sheetRels", n)
      BY <2>1
    <2>3. /\ \A u : Content(d, "sheetRels", u) = Content(b, "sheetRels", u)
          /\ \A u \in DOMAIN b.Sheet : d.Sheet[u] = b.Sheet[u]
          /\ d.Sheet[n].drawing = 0 /\ d.Sheet[n].legacyDrawing = 0
      BY <1>3, <1>4, <1>5, <1>7, <1>8
    <2> QED
      BY <2>2, <2>3 DEF DrawingOf, LegacyDrawingOf, GetSheetRelationshipsTargetByID, TargetByID
  <1>15. OwnOK(d)
    BY <1>1, <1>3, <1>7, <1>14 DEF OwnOK
  <1>16. NotesOK(d) /\ DecodedOK(d) /\ NumberedOK(d) /\ KeptOK(d.XLSX["drawing"], d.Cache["drawing"])
    BY <1>1, <1>7, <1>8 DEF NotesOK, DecodedOK, NumberedOK
  <1>17. Follows(b, d, {}, {})
    BY <1>7, FollowsKept
  <1> QED
    BY <1>7, <1>11, <1>12, <1>13, <1>15, <1>16, <1>17 DEF FileInv

IsDel(q, p, n) == /\ DOMAIN q = DOMAIN p \ {n}
                  /\ \A m \in DOMAIN p \ {n} : q[m] = p[m]
                  /\ q = [m \in DOMAIN q |-> q[m]]

LEMMA DelIs ==
  ASSUME NEW p, NEW n
  PROVE  IsDel(Del(p, n), p, n)
  BY DEF Del, Restrict, IsDel

Left(b, v, x) == [b EXCEPT !.Sheet = v, !.XLSX = x]

LEMMA LeftSet ==
  ASSUME NEW b, IsFile(b), NEW v, IsSheets(v), NEW x, IsStored(x), NEW d, d = Left(b, v, x)
  PROVE  /\ IsFile(d) /\ d.Sheet = v /\ d.XLSX = x /\ d.Cache = b.Cache
         /\ d.DecodeVMLDrawing = b.DecodeVMLDrawing
         /\ d.Overrides = b.Overrides /\ d.Defaults = b.Defaults
  <1>1. d = [Sheet |-> v, XLSX |-> x, Cache |-> b.Cache, DecodeVMLDrawing |-> b.DecodeVMLDrawing,
             Overrides |-> b.Overrides, Defaults |-> b.Defaults]
    BY DEF IsFile, Left
  <1>2. /\ d.Sheet = v /\ d.XLSX = x /\ d.Cache = b.Cache
        /\ d.DecodeVMLDrawing = b.DecodeVMLDrawing
        /\ d.Overrides = b.Overrides /\ d.Defaults = b.Defaults
    BY <1>1
  <1> QED
    BY <1>1, <1>2, FileFields DEF IsFile

\* a sheet without comments leaves no comments behind
LEMMA SheetDeleted ==
  ASSUME NEW b, FileInv(b, {}), NEW s \in DOMAIN b.Sheet, Cardinality(DOMAIN b.Sheet) > 1,
         b.Sheet[s].legacyDrawing = 0,
         NEW v, v = Del(b.Sheet, s), NEW p, p = Del(b.XLSX["sheetRels"], s),
         NEW x, x = [b.XLSX EXCEPT !["sheetRels"] = p],
         NEW d, d = Left(b, v, x)
  PROVE  /\ FileInv(d, {}) /\ Keeps(b, d, {}, {}) /\ d.Sheet = v
         /\ \A u : u # s => Content(d, "sheetRels", u) = Content(b, "sheetRels", u)
  <1>1. /\ IsFile(b) /\ SheetsOK(b, {}) /\ LeftOK(b) /\ DrawingsOK(b, {}) /\ OwnOK(b)
        /\ KeptOK(b.XLSX["drawing"], b.Cache["drawing"])
        /\ NotesOK(b) /\ DecodedOK(b) /\ NumberedOK(b)
    BY DEF FileInv
  <1>2. IsSheets(b.Sheet) /\ IsStored(b.XLSX)
    BY <1>1, FileFields
  <1>3. /\ DOMAIN v = DOMAIN b.Sheet \ {s} /\ \A u \in DOMAIN v : v[u] = b.Sheet[u]
        /\ v = [u \in DOMAIN v |-> v[u]]
    <2>1. IsDel(v, b.Sheet, s)
      BY DelIs
    <2> QED
      BY <2>1 DEF IsDel
  <1>4. DOMAIN v # {}
    <2>1. ASSUME DOMAIN b.Sheet = {s} PROVE FALSE
      <3>1. Cardinality({s}) = 1
        BY ONLY FS_Singleton
      <3> QED
        BY ONLY <2>1, <3>1, Cardinality(DOMAIN b.Sheet) > 1
    <2> QED
      BY <1>3, <2>1
  <1>5. IsSheets(v)
    BY <1>2, <1>3, <1>4 DEF IsSheets
  <1>6. /\ DOMAIN p = DOMAIN b.XLSX["sheetRels"] \ {s}
        /\ \A u \in DOMAIN p : p[u] = b.XLSX["sheetRels"][u]
        /\ p = [u \in DOMAIN p |-> p[u]]
    <2>1. IsDel(p, b.XLSX["sheetRels"], s)
      BY DelIs
    <2> QED
      BY <2>1 DEF IsDel
  <1>7. b.XLSX = [k \in Stored |-> b.XLSX[k]] /\ \A k \in Stored : Holds(b.XLSX[k], k)
    BY <1>2 DEF IsStored
  <1>8. Holds(p, "sheetRels")
    <2>1. Holds(b.XLSX["sheetRels"], "sheetRels")
      BY <1>7 DEF Stored, Parsed
    <2> QED
      BY <1>6, <2>1 DEF Holds
  <1>9. /\ x = [k \in Stored |-> x[k]] /\ x["sheetRels"] = p
        /\ \A k \in Stored : k # "sheetRels" => x[k] = b.XLSX[k]
    BY <1>7 DEF Stored, Parsed
  <1>10. IsStored(x)
    BY <1>7, <1>8, <1>9 DEF IsStored
  <1>14. /\ IsFile(d) /\ d.XLSX = x /\ d.Sheet = v /\ d.Cache = b.Cache
         /\ d.DecodeVMLDrawing = b.DecodeVMLDrawing
         /\ d.Overrides = b.Overrides /\ d.Defaults = b.Defaults
    BY <1>1, <1>5, <1>10, LeftSet
  <1>15. \A k \in Parsed : k # "sheetRels" => \A m : Content(d, k, m) = Content(b, k, m)
    BY <1>9, <1>14 DEF Content, Stored
  <1>16. \A k \in Stored : k # "sheetRels" => PartsOf(d, k) = PartsOf(b, k)
    <2> TAKE k \in Stored
    <2> HAVE k # "sheetRels"
    <2>1. d.XLSX[k] = b.XLSX[k] /\ d.Cache = b.Cache
      BY <1>9, <1>14, Zenon
    <2> QED
      BY ONLY <2>1 DEF PartsOf
  <1>17. \A u : u # s => Content(d, "sheetRels", u) = Content(b, "sheetRels", u)
    <2>1. d.XLSX["sheetRels"] = p /\ d.Cache = b.Cache
      BY <1>9, <1>14, Zenon
    <2> QED
      BY ONLY <1>6, <2>1 DEF Content
  <1>18. \/ Content(d, "sheetRels", s) = Content(b, "sheetRels", s)
         \/ Content(d, "sheetRels", s) = << >>
    <2>1. d.XLSX["sheetRels"] = p /\ d.Cache = b.Cache
      BY <1>9, <1>14, Zenon
    <2> QED
      BY ONLY <1>6, <2>1 DEF Content
  <1>19. Grows(b, d)
    BY <1>14, <1>16 DEF Grows
  <1>20. SheetsOK(d, {})
    <2> SUFFICES ASSUME NEW u \in DOMAIN v PROVE SheetOK(d, {}, v[u], Content(d, "sheetRels", u))
      BY <1>14 DEF SheetsOK
    <2>1. SheetOK(b, {}, v[u], Content(b, "sheetRels", u)) /\ u # s
      BY <1>1, <1>3 DEF SheetsOK
    <2>2. SheetOK(d, {}, v[u], Content(b, "sheetRels", u))
      BY <1>19, <2>1, SheetGrows, ContinuesSelf
    <2> QED
      BY <1>17, <2>1, <2>2
  <1>21. LeftOK(d)
    <2>1. NoNotes(Content(b, "sheetRels", s))
      BY <1>1 DEF SheetsOK, SheetOK, NoNotes
    <2>2. NoNotes(Content(d, "sheetRels", s))
      BY <1>18, <2>1 DEF NoNotes
    <2> QED
      BY <1>1, <1>3, <1>14, <1>17, <2>2 DEF LeftOK
  <1>22. \A m : /\ Content(d, "drawing", m) = Content(b, "drawing", m)
                /\ Content(d, "drawingRels", m) = Content(b, "drawingRels", m)
                /\ Content(d, "comments", m) = Content(b, "comments", m)
                /\ Content(d, "vml", m) = Content(b, "vml", m)
    BY <1>15 DEF Parsed
  <1>23. /\ PartsOf(d, "drawing") = PartsOf(b, "drawing") /\ PartsOf(d, "vml") = PartsOf(b, "vml")
         /\ PartsOf(d, "comments") = PartsOf(b, "comments")
         /\ d.XLSX["drawing"] = b.XLSX["drawing"] /\ d.XLSX["vml"] = b.XLSX["vml"]
         /\ \A k \in {"chart", "media", "table", "drawing", "comments"} : PartsOf(d, k) = PartsOf(b, k)
    BY <1>9, <1>14, <1>16 DEF Stored, Parsed
  <1>24. DrawingsOK(d, {})
    BY <1>1, <1>19, <1>22, <1>23, DrawingGrows, ContinuesSelf DEF DrawingsOK
  <1>25. \A u \in DOMAIN v : /\ DrawingOf(d, u) = DrawingOf(b, u)
                             /\ LegacyDrawingOf(d, u) = LegacyDrawingOf(b, u)
    <2>1. \A u \in DOMAIN v : d.Sheet[u] = b.Sheet[u] /\ Content(d, "sheetRels", u) = Content(b, "sheetRels", u)
      BY <1>3, <1>14, <1>17
    <2> QED
      BY <2>1 DEF DrawingOf, LegacyDrawingOf, GetSheetRelationshipsTargetByID, TargetByID
  <1>26. OwnOK(d)
    BY <1>1, <1>3, <1>14, <1>25 DEF OwnOK
  <1>27. NotesOK(d)
    BY <1>1, <1>22, <1>23 DEF NotesOK
  <1>28. DecodedOK(d) /\ NumberedOK(d) /\ KeptOK(d.XLSX["drawing"], d.Cache["drawing"])
    BY <1>1, <1>14, <1>23 DEF DecodedOK, NumberedOK
  <1>29. FileInv(d, {})
    BY <1>14, <1>20, <1>21, <1>24, <1>26, <1>27, <1>28 DEF FileInv
  <1>30. \A k \in {"media", "chart", "table"} : d.XLSX[k] = b.XLSX[k]
    BY <1>9, <1>14 DEF Stored
  <1>31. Keeps(b, d, {}, {})
    BY <1>22, <1>30, ContinuesSelf, AkinSelf DEF Keeps
  <1> QED
    BY <1>14, <1>17, <1>29, <1>31

-----------------------------------------------------------------------------
(* Saving and opening.                                                     *)

\* d has the parts of b, with anchors that are kept otherwise
LooksLike(b, d) ==
  /\ IsFile(d) /\ d.Sheet = b.Sheet /\ d.Overrides = b.Overrides /\ d.Defaults = b.Defaults
  /\ \A k \in Stored : PartsOf(d, k) = PartsOf(b, k)
  /\ \A k \in Stored \ Parsed : d.XLSX[k] = b.XLSX[k]
  /\ \A k \in Parsed \ {"drawing"} : \A m : Content(d, k, m) = Content(b, k, m)
  /\ \A m : /\ DOMAIN Content(d, "drawing", m) = DOMAIN Content(b, "drawing", m)
            /\ \A i \in DOMAIN Content(b, "drawing", m) :
                 Alike(Content(d, "drawing", m)[i], Content(b, "drawing", m)[i])

LEMMA LooksLikeKeeps ==
  ASSUME NEW b, NEW P, FileInv(b, P), NEW d, LooksLike(b, d), DecodedOK(d),
         KeptOK(d.XLSX["drawing"], d.Cache["drawing"])
  PROVE  FileInv(d, P)
  <1>1. /\ IsFile(b) /\ SheetsOK(b, P) /\ LeftOK(b) /\ DrawingsOK(b, P) /\ OwnOK(b)
        /\ NotesOK(b) /\ NumberedOK(b)
    BY DEF FileInv
  <1>2. /\ IsFile(d) /\ d.Sheet = b.Sheet /\ d.Overrides = b.Overrides /\ d.Defaults = b.Defaults
        /\ \A k \in Stored : PartsOf(d, k) = PartsOf(b, k)
    BY DEF LooksLike
  <1>3. \A m : /\ Content(d, "sheetRels", m) = Content(b, "sheetRels", m)
               /\ Content(d, "drawingRels", m) = Content(b, "drawingRels", m)
               /\ Content(d, "comments", m) = Content(b, "comments", m)
               /\ Content(d, "vml", m) = Content(b, "vml", m)
    BY DEF LooksLike, Parsed
  <1>4. \A m : /\ DOMAIN Content(d, "drawing", m) = DOMAIN Content(b, "drawing", m)
               /\ \A i \in DOMAIN Content(b, "drawing", m) :
                    Alike(Content(d, "drawing", m)[i], Content(b, "drawing", m)[i])
    BY Zenon DEF LooksLike
  <1>5. Grows(b, d)
    BY <1>2 DEF Grows
  <1>6. SheetsOK(d, P)
    BY <1>1, <1>2, <1>3, <1>5, SheetGrows, ContinuesSelf DEF SheetsOK
  <1>7. LeftOK(d)
    BY <1>1, <1>2, <1>3 DEF LeftOK
  <1>8. \A s : DrawingOf(d, s) = DrawingOf(b, s) /\ LegacyDrawingOf(d, s) = LegacyDrawingOf(b, s)
    BY <1>2, <1>3 DEF DrawingOf, LegacyDrawingOf, GetSheetRelationshipsTargetByID, TargetByID
  <1>9. OwnOK(d)
    BY <1>1, <1>2, <1>8 DEF OwnOK
  <1>10. /\ PartsOf(d, "drawing") = PartsOf(b, "drawing") /\ PartsOf(d, "vml") = PartsOf(b, "vml")
         /\ PartsOf(d, "comments") = PartsOf(b, "comments")
         /\ \A k \in {"chart", "media", "table", "drawing", "comments"} : PartsOf(d, k) = PartsOf(b, k)
    BY <1>2 DEF Stored, Parsed
  <1>11. DrawingsOK(d, P)
    <2> SUFFICES ASSUME NEW n \in PartsOf(b, "drawing")
                 PROVE  DrawingOK(d, P, Content(d, "drawing", n), Content(b, "drawingRels", n))
      BY <1>3, <1>10 DEF DrawingsOK
    <2> DEFINE c == Content(b, "drawing", n)
               e == Content(d, "drawing", n)
               r == Content(b, "drawingRels", n)
    <2>1. DrawingOK(b, P, c, r)
      BY <1>1 DEF DrawingsOK
    <2>2. DOMAIN e = DOMAIN c /\ \A i \in DOMAIN c : Alike(e[i], c[i])
      BY <1>4
    <2> HIDE DEF c, e, r
    <2>3. DrawingOK(b, P, e, r)
      BY <2>1, <2>2 DEF DrawingOK, AnchorOK, Alike
    <2>4. DrawingOK(d, P, e, r)
      BY <1>5, <2>3, DrawingGrows, ContinuesSelf
    <2> QED
      BY <2>4 DEF e, r
  <1>12. NotesOK(d)
    BY <1>1, <1>3, <1>10 DEF NotesOK
  <1>13. NumberedOK(d)
    BY <1>1, <1>10 DEF NumberedOK
  <1> QED
    BY <1>2, <1>6, <1>7, <1>9, <1>11, <1>12, <1>13 DEF FileInv

LEMMA FollowsLike ==
  ASSUME NEW b, NEW d, LooksLike(b, d)
  PROVE  Follows(b, d, {}, {}) /\ d.Sheet = b.Sheet
  <1>1. /\ d.Sheet = b.Sheet /\ \A k \in Stored \ Parsed : d.XLSX[k] = b.XLSX[k]
        /\ \A k \in Parsed \ {"drawing"} : \A m : Content(d, k, m) = Content(b, k, m)
        /\ \A m : /\ DOMAIN Content(d, "drawing", m) = DOMAIN Content(b, "drawing", m)
                  /\ \A i \in DOMAIN Content(b, "drawing", m) :
                       Alike(Content(d, "drawing", m)[i], Content(b, "drawing", m)[i])
    BY DEF LooksLike
  <1>2. \A m : /\ Content(d, "sheetRels", m) = Content(b, "sheetRels", m)
               /\ Content(d, "drawingRels", m) = Content(b, "drawingRels", m)
               /\ Content(d, "comments", m) = Content(b, "comments", m)
    BY <1>1 DEF Parsed
  <1>3. \A k \in {"media", "chart", "table"} : d.XLSX[k] = b.XLSX[k]
    BY <1>1 DEF Stored, Parsed
  <1>4. \A m : Akin(Content(b, "drawing", m), Content(d, "drawing", m))
    BY <1>1 DEF Akin, Alike
  <1> QED
    BY <1>1, <1>2, <1>3, <1>4, ContinuesSelf DEF Follows, Keeps

LEMMA XMLIs ==
  ASSUME NEW c \in Seq(Anchors), NEW a, a = AsXML("drawing", c)
  PROVE  /\ a \in Seq(Anchors) /\ Len(a) = Len(c) /\ DOMAIN a = DOMAIN c
         /\ (\A i \in DOMAIN c : Alike(a[i], c[i])) /\ NoText(a)
  <1> DEFINE no == FALSE
  <1>1. no \in BOOLEAN
    OBVIOUS
  <1>2. a = [i \in DOMAIN c |-> [c[i] EXCEPT !.raw = no]]
    BY DEF AsXML
  <1> HIDE DEF no
  <1>3. ASSUME NEW i \in DOMAIN c
        PROVE  a[i] \in Anchors /\ Alike(a[i], c[i]) /\ a[i].raw = no
    <2>1. c[i] \in Anchors
      OBVIOUS
    <2>2. a[i] = [c[i] EXCEPT !.raw = no]
      BY <1>2
    <2> QED
      BY <1>1, <2>1, <2>2 DEF Anchors, Alike
  <1>4. DOMAIN c = 1..Len(c) /\ Len(c) \in Nat /\ DOMAIN a = DOMAIN c
    BY <1>2
  <1>5. a \in Seq(Anchors) /\ Len(a) = Len(c)
    BY <1>2, <1>3, <1>4
  <1>6. NoText(a)
    BY <1>3, <1>4 DEF NoText, no
  <1> QED
    BY <1>3, <1>4, <1>5, <1>6

\* the parts of a package that was saved
SavedParts(b) ==
  [k \in Stored |->
     IF k \notin Parsed THEN b.XLSX[k]
     ELSE [n \in DOMAIN b.XLSX[k] \cup DOMAIN b.Cache[k] |-> AsXML(k, Content(b, k, n))]]

AreSaved(b, x) ==
  /\ IsStored(x) /\ \A k \in Stored \ Parsed : x[k] = b.XLSX[k]
  /\ \A k \in Parsed : DOMAIN x[k] = PartsOf(b, k)
  /\ \A k \in Parsed : \A n \in PartsOf(b, k) : x[k][n] = AsXML(k, Content(b, k, n))

LEMMA SavedPartsAre ==
  ASSUME NEW b, IsFile(b), NEW x, x = SavedParts(b)
  PROVE  AreSaved(b, x)
  <1>1. /\ x = [k \in Stored |-> x[k]] /\ \A k \in Stored \ Parsed : x[k] = b.XLSX[k]
        /\ \A k \in Parsed : x[k] = [n \in PartsOf(b, k) |-> AsXML(k, Content(b, k, n))]
    <2>1. Parsed \subseteq Stored
      BY DEF Stored
    <2> QED
      BY <2>1 DEF SavedParts, PartsOf
  <1>2. ASSUME NEW k \in Stored PROVE Holds(x[k], k)
    <2>1. CASE k \notin Parsed
      BY <1>1, <2>1, FileFields
    <2>2. CASE k \in Parsed
      <3>1. x[k] = [n \in PartsOf(b, k) |-> AsXML(k, Content(b, k, n))]
        BY <1>1, <2>2
      <3>2. ASSUME NEW n PROVE AsXML(k, Content(b, k, n)) \in PartType(k)
        <4>1. Content(b, k, n) \in PartType(k)
          BY <2>2, ContentType
        <4>2. CASE k # "drawing"
          BY <4>1, <4>2 DEF AsXML
        <4>3. CASE k = "drawing"
          BY <4>1, <4>3, XMLIs, PartTypeIs
        <4> QED
          BY <4>2, <4>3
      <3>3. Holds(b.XLSX[k], k) /\ Holds(b.Cache[k], k)
        BY <2>2, FileFields
      <3>4. PartsOf(b, k) \subseteq Number
        BY <2>2, <3>3 DEF PartsOf, Holds
      <3> QED
        BY <3>1, <3>2, <3>4 DEF Holds
    <2> QED
      BY <2>1, <2>2
  <1> QED
    BY <1>1, <1>2 DEF AreSaved, IsStored

LEMMA FileSaved ==
  ASSUME NEW b, FileInv(b, {}), NEW d, d = Saved(b)
  PROVE  /\ FileInv(d, {}) /\ AreSaved(b, d.XLSX) /\ d.Cache = b.Cache /\ d.Sheet = b.Sheet
         /\ d.Overrides = b.Overrides /\ d.Defaults = b.Defaults /\ LooksLike(b, d)
  <1> DEFINE x == SavedParts(b)
  <1>1. IsFile(b) /\ DecodedOK(b) /\ KeptOK(b.XLSX["drawing"], b.Cache["drawing"])
    BY DEF FileInv
  <1>2. d = [b EXCEPT !.XLSX = x]
    BY DEF Saved, SavedParts
  <1>3. AreSaved(b, x)
    BY <1>1, SavedPartsAre
  <1> HIDE DEF x
  <1>4. /\ IsStored(x) /\ \A k \in Stored \ Parsed : x[k] = b.XLSX[k]
        /\ \A k \in Parsed : DOMAIN x[k] = PartsOf(b, k)
        /\ \A k \in Parsed : \A n \in PartsOf(b, k) : x[k][n] = AsXML(k, Content(b, k, n))
    BY <1>3 DEF AreSaved
  <1>5. /\ IsFile(d) /\ d.XLSX = x /\ d.Sheet = b.Sheet /\ d.Cache = b.Cache
        /\ d.DecodeVMLDrawing = b.DecodeVMLDrawing
        /\ d.Overrides = b.Overrides /\ d.Defaults = b.Defaults
    BY <1>1, <1>2, <1>4, XLSXSet
  <1>6. \A k \in Stored : PartsOf(d, k) = PartsOf(b, k)
    BY <1>4, <1>5 DEF PartsOf
  <1>7. ASSUME NEW k \in Parsed \ {"drawing"}, NEW m PROVE Content(d, k, m) = Content(b, k, m)
    <2>1. AsXML(k, Content(b, k, m)) = Content(b, k, m)
      BY DEF AsXML
    <2> QED
      BY <1>4, <1>5, <2>1 DEF Content, PartsOf
  <1> DEFINE c == b.Cache["drawing"]
             y == x["drawing"]
  <1>8. /\ DOMAIN y = PartsOf(b, "drawing") /\ DOMAIN c \subseteq DOMAIN y
        /\ \A n \in DOMAIN y : y[n] = AsXML("drawing", Content(b, "drawing", n))
    BY <1>4 DEF Parsed, PartsOf
  <1>9. \A n : Content(b, "drawing", n) \in Seq(Anchors)
    BY <1>1, DrawingType
  <1>10. ASSUME NEW n \in DOMAIN y
         PROVE  /\ y[n] \in Seq(Anchors) /\ Len(y[n]) = Len(Content(b, "drawing", n))
                /\ DOMAIN y[n] = DOMAIN Content(b, "drawing", n)
                /\ \A i \in DOMAIN Content(b, "drawing", n) : Alike(y[n][i], Content(b, "drawing", n)[i])
                /\ NoText(y[n])
    BY <1>8, <1>9, XMLIs
  <1>11. ASSUME NEW m
         PROVE  /\ DOMAIN Content(d, "drawing", m) = DOMAIN Content(b, "drawing", m)
                /\ \A i \in DOMAIN Content(b, "drawing", m) :
                     Alike(Content(d, "drawing", m)[i], Content(b, "drawing", m)[i])
    <2>1. CASE m \in DOMAIN c
      <3>1. Content(d, "drawing", m) = Content(b, "drawing", m)
        BY <1>5, <2>1 DEF Content
      <3> QED
        BY <3>1 DEF Alike
    <2>2. CASE m \notin DOMAIN c /\ m \in DOMAIN y
      <3>1. Content(d, "drawing", m) = y[m]
        BY <1>5, <2>2 DEF Content
      <3> QED
        BY <1>10, <2>2, <3>1
    <2>3. CASE m \notin DOMAIN c /\ m \notin DOMAIN y
      <3>1. Content(d, "drawing", m) = << >> /\ Content(b, "drawing", m) = << >>
        BY <1>5, <1>8, <2>3 DEF Content, PartsOf, Parsed
      <3> QED
        BY <3>1
    <2> QED
      BY <2>1, <2>2, <2>3
  <1>12. LooksLike(b, d)
    BY <1>4, <1>5, <1>6, <1>7, <1>11 DEF LooksLike
  <1>13. DecodedOK(d)
    <2>1. "vml" \in Parsed /\ "vml" \in Parsed \ {"drawing"}
      BY DEF Parsed
    <2>2. DOMAIN x["vml"] = DOMAIN b.XLSX["vml"] \cup DOMAIN b.Cache["vml"]
      BY <1>4, <2>1 DEF PartsOf
    <2>3. \A n \in DOMAIN b.Cache["vml"] : x["vml"][n] = b.Cache["vml"][n]
      BY <1>4, <2>1, <2>2 DEF AsXML, Content, PartsOf
    <2> QED
      BY <1>1, <1>5, <2>2, <2>3 DEF DecodedOK, BoxesKept
  <1>14. KeptOK(y, c)
    <2>1. \A n \in DOMAIN y : NoText(y[n])
      BY <1>10
    <2>2. ASSUME NEW n \in DOMAIN c PROVE Begins(y[n], c[n]) /\ TextWithin(c[n], Len(y[n]))
      <3>1. Content(b, "drawing", n) = c[n]
        BY DEF Content
      <3>2. n \in DOMAIN y /\ c[n] \in Seq(Anchors)
        BY <1>8, <1>9, <3>1
      <3>3. /\ Len(y[n]) = Len(c[n]) /\ DOMAIN y[n] = DOMAIN c[n]
            /\ \A i \in DOMAIN c[n] : Alike(y[n][i], c[n][i])
        BY <1>10, <3>1, <3>2
      <3>4. DOMAIN c[n] = 1..Len(c[n]) /\ Len(c[n]) \in Nat
        BY <3>2
      <3> QED
        BY <3>3, <3>4 DEF Begins, TextWithin
    <2> HIDE DEF y, c
    <2> QED
      BY <1>8, <2>1, <2>2 DEF KeptOK
  <1>15. FileInv(d, {})
    BY <1>5, <1>12, <1>13, <1>14, LooksLikeKeeps
  <1> QED
    BY <1>3, <1>5, <1>12, <1>15

LEMMA NoPartsHold ==
  ASSUME NEW kind
  PROVE  DOMAIN << >> = {} /\ Holds(<< >>, kind)
  <1>1. DOMAIN << >> = {}
    OBVIOUS
  <1>2. << >> \in [1..0 -> PartType(kind)]
    BY EmptySeq
  <1> QED
    BY <1>1, <1>2 DEF Holds

Unparsed(b, p, e) == [b EXCEPT !.Cache = p, !.DecodeVMLDrawing = e]

LEMMA UnparsedSet ==
  ASSUME NEW b, IsFile(b), NEW p, IsParsed(p), NEW e, Holds(e, "vml"), NEW d, d = Unparsed(b, p, e)
  PROVE  /\ IsFile(d) /\ d.Sheet = b.Sheet /\ d.XLSX = b.XLSX /\ d.Cache = p
         /\ d.DecodeVMLDrawing = e
         /\ d.Overrides = b.Overrides /\ d.Defaults = b.Defaults
  <1>1. d = [Sheet |-> b.Sheet, XLSX |-> b.XLSX, Cache |-> p, DecodeVMLDrawing |-> e,
             Overrides |-> b.Overrides, Defaults |-> b.Defaults]
    BY DEF IsFile, Unparsed
  <1>2. /\ d.Sheet = b.Sheet /\ d.XLSX = b.XLSX /\ d.Cache = p
        /\ d.DecodeVMLDrawing = e
        /\ d.Overrides = b.Overrides /\ d.Defaults = b.Defaults
    BY <1>1
  <1> QED
    BY <1>1, <1>2, FileFields DEF IsFile

LEMMA FileReopened ==
  ASSUME NEW b, FileInv(b, {}), NEW c, c = Saved(b), NEW p, p = [k \in Parsed |-> << >>],
         NEW e, e = << >>, NEW d, d = Unparsed(c, p, e)
  PROVE  FileInv(d, {}) /\ LooksLike(c, d)
  <1>1. FileInv(c, {}) /\ AreSaved(b, c.XLSX) /\ c.Cache = b.Cache
    BY FileSaved
  <1>2. IsFile(b) /\ IsFile(c) /\ KeptOK(c.XLSX["drawing"], c.Cache["drawing"])
    BY <1>1 DEF FileInv
  <1>3. DOMAIN e = {} /\ \A k : Holds(e, k)
    BY NoPartsHold
  <1>4. /\ p = [k \in Parsed |-> p[k]] /\ \A k \in Parsed : p[k] = e
    OBVIOUS
  <1>5. IsParsed(p)
    BY <1>3, <1>4 DEF IsParsed
  <1>6. /\ IsFile(d) /\ d.Sheet = c.Sheet /\ d.XLSX = c.XLSX /\ d.Cache = p
        /\ d.DecodeVMLDrawing = e
        /\ d.Overrides = c.Overrides /\ d.Defaults = c.Defaults
    BY <1>2, <1>3, <1>5, UnparsedSet
  <1> DEFINE x == c.XLSX
  <1>7. /\ \A k \in Parsed : DOMAIN x[k] = PartsOf(b, k)
        /\ \A k \in Parsed : \A n \in PartsOf(b, k) : x[k][n] = AsXML(k, Content(b, k, n))
    BY <1>1 DEF AreSaved
  <1>8. \A k \in Parsed : DOMAIN d.Cache[k] = {}
    BY <1>3, <1>4, <1>6
  <1>9. \A k \in Parsed : DOMAIN c.Cache[k] \subseteq DOMAIN x[k]
    BY <1>1, <1>7 DEF PartsOf
  <1>10. \A k \in Stored : PartsOf(d, k) = PartsOf(c, k)
    BY <1>6, <1>8, <1>9 DEF PartsOf
  <1>11. ASSUME NEW k \in Parsed, NEW m
         PROVE  /\ m \in DOMAIN x[k] => /\ Content(d, k, m) = AsXML(k, Content(b, k, m))
                                        /\ Content(c, k, m) = IF m \in DOMAIN c.Cache[k]
                                                              THEN Content(b, k, m)
                                                              ELSE AsXML(k, Content(b, k, m))
                /\ m \notin DOMAIN x[k] => Content(d, k, m) = << >> /\ Content(c, k, m) = << >>
    <2>1. Content(d, k, m) = IF m \in DOMAIN x[k] THEN x[k][m] ELSE << >>
      BY <1>6, <1>8 DEF Content
    <2>2. Content(c, k, m) = IF m \in DOMAIN b.Cache[k] THEN b.Cache[k][m]
                             ELSE IF m \in DOMAIN x[k] THEN x[k][m] ELSE << >>
      BY <1>1 DEF Content
    <2>3. m \in DOMAIN b.Cache[k] => Content(b, k, m) = b.Cache[k][m]
      BY DEF Content
    <2>4. DOMAIN b.Cache[k] \subseteq DOMAIN x[k]
      BY <1>1, <1>9
    <2>5. m \in DOMAIN x[k] => x[k][m] = AsXML(k, Content(b, k, m))
      BY <1>7
    <2> HIDE DEF x
    <2> QED
      BY <1>1, <2>1, <2>2, <2>3, <2>4, <2>5
  <1>12. ASSUME NEW k \in Parsed \ {"drawing"}, NEW m PROVE Content(d, k, m) = Content(c, k, m)
    <2>1. AsXML(k, Content(b, k, m)) = Content(b, k, m)
      BY DEF AsXML
    <2> QED
      BY <1>11, <2>1
  <1>13. ASSUME NEW m
         PROVE  /\ DOMAIN Content(d, "drawing", m) = DOMAIN Content(c, "drawing", m)
                /\ \A i \in DOMAIN Content(c, "drawing", m) :
                     Alike(Content(d, "drawing", m)[i], Content(c, "drawing", m)[i])
    <2> DEFINE k == "drawing"
               a == Content(b, k, m)
    <2>1. k \in Parsed
      BY DEF Parsed
    <2>2. \/ Content(d, k, m) = Content(c, k, m)
          \/ Content(d, k, m) = AsXML(k, a) /\ Content(c, k, m) = a
      BY <1>11, <2>1
    <2>3. a \in Seq(Anchors)
      BY <1>2, DrawingType
    <2> HIDE DEF a
    <2>4. DOMAIN AsXML(k, a) = DOMAIN a /\ \A i \in DOMAIN a : Alike(AsXML(k, a)[i], a[i])
      BY <2>3, XMLIs
    <2> QED
      BY <2>2, <2>4 DEF Alike
  <1>14. LooksLike(c, d)
    BY <1>2, <1>6, <1>10, <1>12, <1>13 DEF LooksLike
  <1>15. DecodedOK(d)
    <2>1. DOMAIN d.DecodeVMLDrawing = {} /\ DOMAIN d.Cache["vml"] = {}
      BY <1>3, <1>6 DEF Parsed
    <2> QED
      BY <2>1 DEF DecodedOK, BoxesKept
  <1>16. KeptOK(d.XLSX["drawing"], d.Cache["drawing"])
    <2>1. DOMAIN d.Cache["drawing"] = {}
      BY <1>8 DEF Parsed
    <2>2. d.XLSX = c.XLSX
      BY <1>6
    <2> QED
      BY <1>2, <2>1, <2>2 DEF KeptOK
  <1> QED
    BY <1>1, <1>14, <1>15, <1>16, LooksLikeKeeps

-----------------------------------------------------------------------------
(* A new file.                                                             *)

LEMMA NewFileOK ==
  ASSUME NEW b, IsNew(b)
  PROVE  FileInv(b, {})
  <1>1. /\ DOMAIN b.Sheet \subseteq 1..MaxSheet /\ DOMAIN b.Sheet # {}
        /\ b = [Sheet |-> [s \in DOMAIN b.Sheet |-> NewWorksheet],
                XLSX |-> [k \in Stored |-> << >>], Cache |-> [k \in Parsed |-> << >>],
                DecodeVMLDrawing |-> << >>, Overrides |-> {}, Defaults |-> {}]
    BY DEF IsNew
  <1>2. /\ b.Sheet = [s \in DOMAIN b.Sheet |-> NewWorksheet]
        /\ b.XLSX = [k \in Stored |-> << >>] /\ b.Cache = [k \in Parsed |-> << >>]
        /\ b.DecodeVMLDrawing = << >> /\ b.Overrides = {} /\ b.Defaults = {}
    BY <1>1
  <1>3. DOMAIN << >> = {} /\ \A k : Holds(<< >>, k)
    BY NoPartsHold
  <1>4. /\ NewWorksheet \in Worksheets /\ NewWorksheet.drawing = 0 /\ NewWorksheet.legacyDrawing = 0
        /\ NewWorksheet.picture = 0 /\ NewWorksheet.tableParts = << >>
    BY DEF NewWorksheet, Worksheets
  <1>5. \A s \in DOMAIN b.Sheet : b.Sheet[s] = NewWorksheet
    BY <1>2
  <1>6. (\A k \in Stored : b.XLSX[k] = << >>) /\ (\A k \in Parsed : b.Cache[k] = << >>)
    BY <1>2
  <1>7. IsSheets(b.Sheet)
    BY <1>1, <1>2, <1>4, <1>5 DEF IsSheets
  <1>8. IsStored(b.XLSX)
    <2>1. b.XLSX = [k \in Stored |-> b.XLSX[k]]
      BY <1>2
    <2> QED
      BY <1>3, <1>6, <2>1 DEF IsStored
  <1>9. IsParsed(b.Cache)
    <2>1. b.Cache = [k \in Parsed |-> b.Cache[k]]
      BY <1>2
    <2> QED
      BY <1>3, <1>6, <2>1 DEF IsParsed
  <1>10. b = [Sheet |-> b.Sheet, XLSX |-> b.XLSX, Cache |-> b.Cache,
              DecodeVMLDrawing |-> b.DecodeVMLDrawing,
              Overrides |-> b.Overrides, Defaults |-> b.Defaults]
    BY <1>1, <1>2, Zenon
  <1>11. IsFile(b)
    BY <1>2, <1>3, <1>7, <1>8, <1>9, <1>10 DEF IsFile
  <1>12. \A k \in Parsed : \A m : Content(b, k, m) = << >>
    <2>1. Parsed \subseteq Stored
      BY DEF Stored
    <2> QED
      BY <1>3, <1>6, <2>1 DEF Content
  <1>13. \A k \in Stored : PartsOf(b, k) = {}
    BY <1>3, <1>6 DEF PartsOf
  <1>14. \A s : Content(b, "sheetRels", s) = << >>
    BY <1>12 DEF Parsed
  <1>15. SheetsOK(b, {})
    BY <1>3, <1>4, <1>5, <1>14 DEF SheetsOK, SheetOK
  <1>16. LeftOK(b)
    BY <1>3, <1>14 DEF LeftOK, NoNotes
  <1>17. DrawingsOK(b, {})
    BY <1>13 DEF DrawingsOK, Stored, Parsed
  <1>18. KeptOK(b.XLSX["drawing"], b.Cache["drawing"])
    BY <1>3, <1>6 DEF KeptOK, Stored, Parsed
  <1>19. NotesOK(b) /\ DecodedOK(b)
    BY <1>2, <1>3, <1>13 DEF NotesOK, DecodedOK, BoxesKept, Stored, Parsed
  <1>20. NumberedOK(b)
    <2>1. UpTo({})
      <3>1. {} = 1..0
        OBVIOUS
      <3> QED
        BY <3>1 DEF UpTo
    <2> QED
      BY <1>13, <2>1 DEF NumberedOK, Stored, Parsed
  <1>21. OwnOK(b)
    BY <1>3, <1>14 DEF OwnOK, DrawingOf, LegacyDrawingOf, GetSheetRelationshipsTargetByID, TargetByID
  <1> QED
    BY <1>11, <1>15, <1>16, <1>17, <1>18, <1>19, <1>20, <1>21 DEF FileInv

-----------------------------------------------------------------------------
(* The invariant holds.                                                    *)

\* nothing is shown differently
Same(b, d) == Follows(b, d, {}, {}) /\ d.Sheet = b.Sheet

\* n is a new sheet, with the next number
AddsSheet(b, d, n) ==
  /\ Follows(b, d, {}, {}) /\ d.Sheet = Put(b.Sheet, n, NewWorksheet)
  /\ n \in 1..MaxSheet /\ \A u \in DOMAIN b.Sheet : u < n

\* s is deleted
LosesSheet(b, d, s) ==
  /\ Keeps(b, d, {}, {}) /\ d.Sheet = Del(b.Sheet, s)
  /\ \A u : u # s => Content(d, "sheetRels", u) = Content(b, "sheetRels", u)

\* what a call does to a File
Turns(b, d) ==
  \/ Same(b, d)
  \/ \E s \in DOMAIN b.Sheet : \/ \E n, a : Draws(b, d, s, n, a)
                              \/ \E n, note : Annotates(b, d, s, n, note)
                              \/ \E rid : Tabulates(b, d, s, rid)
                              \/ Covers(b, d, s)
                              \/ LosesSheet(b, d, s)
  \/ \E n : AddsSheet(b, d, n)

\* Every call keeps the invariant, its intermediate states included, and does
\* one of these things.
LEMMA PackageTurns ==
  ASSUME PackageInv, Next
  PROVE  PackageInv' /\ Turns(f, f')
  <1> DEFINE Goal == PackageInv' /\ Turns(f, f')
  <1> SUFFICES Goal
    OBVIOUS
  <1>1. FileInv(f, {}) /\ panicked = FALSE
    BY DEF PackageInv
  <1>2. ASSUME NEW b, FileInv(b, {}), Turns(f, b), Becomes(b) PROVE Goal
    BY <1>1, <1>2 DEF Becomes, PackageInv
  <1> HIDE DEF Goal
  <1>3. ASSUME NEW s \in DOMAIN f.Sheet, f.Sheet[s].drawing # 0 \/ Counted("drawing"), NEW cell \in Cells
        PROVE  /\ AddShape(s, cell) => Goal
               /\ \A x \in Charts : AddChart(s, cell, x) => Goal
               /\ \A x \in Images, l \in Linked : AddPicture(s, cell, x, l) => Goal
    <2>1. Prepared(f, s)
      BY <1>3 DEF Prepared, Counted
    <2>2. cell # BadCell
      BY PackageAssumption
    <2> DEFINE b == PrepareDrawing(f, s)
    <2>3. ASSUME AddShape(s, cell) PROVE Goal
      <3> DEFINE n == DrawingOf(b, s)
                 d == AddDrawingShape(b, n, cell)
      <3>1. Becomes(d)
        BY <2>2, <2>3 DEF AddShape
      <3>2. FileInv(d, {}) /\ \E a : Draws(f, d, s, n, a)
        BY <1>1, <2>1, ShapeAdded
      <3> HIDE DEF d, n
      <3>3. Turns(f, d)
        BY <3>2, Zenon DEF Turns
      <3> QED
        BY <1>2, <3>1, <3>2, <3>3
    <2>4. ASSUME NEW x \in Charts, AddChart(s, cell, x) PROVE Goal
      <3> DEFINE n == DrawingOf(b, s)
                 id == CountCharts(f) + 1
                 c == AddDrawingRelationships(b, n, "chart", id)
                 g == AddDrawingChart(c, n, cell, LastRID(c, "drawingRels", n))
                 h == PutPart(g, "chart", id, x)
                 d == AddContentTypePart(h, "chart", id)
      <3>1. Becomes(d)
        BY <2>2, <2>4 DEF AddChart
      <3>2. FileInv(d, {}) /\ \E a : Draws(f, d, s, n, a)
        BY <1>1, <2>1, ChartAdded
      <3> HIDE DEF d, n
      <3>3. Turns(f, d)
        BY <3>2, Zenon DEF Turns
      <3> QED
        BY <1>2, <3>1, <3>2, <3>3
    <2>5. ASSUME NEW x \in Images, NEW l \in Linked, AddPicture(s, cell, x, l) PROVE Goal
      <3> DEFINE m == AddMedia(b, x)
                 n == DrawingOf(m, s)
                 c == AddDrawingRelationships(m, n, "image", MediaOf(m, x))
                 g == IF l THEN AddDrawingRelationships(c, n, "hyperlink", 1) ELSE c
                 d == AddDrawingPicture(g, n, cell, LastRID(c, "drawingRels", n))
      <3>1. Becomes(d)
        BY <2>2, <2>5 DEF AddPicture
      <3>2. FileInv(d, {}) /\ \E a : Draws(f, d, s, n, a)
        BY <1>1, <2>1, PictureAdded
      <3> HIDE DEF d, n
      <3>3. Turns(f, d)
        BY <3>2, Zenon DEF Turns
      <3> QED
        BY <1>2, <3>1, <3>2, <3>3
    <2> QED
      BY <2>3, <2>4, <2>5
  <1>4. ASSUME NEW s \in DOMAIN f.Sheet, f.Sheet[s].legacyDrawing # 0 \/ Counted("comments"),
               NEW cell \in Cells, NEW x \in Texts, AddComment(s, cell, x)
        PROVE  Goal
    <2>1. CommentsPrepared(f, s)
      BY <1>4 DEF CommentsPrepared, Counted
    <2>2. cell # BadCell
      BY PackageAssumption
    <2> DEFINE b == PrepareComments(f, s)
               n == LegacyDrawingOf(b, s)
               g == AddCommentTo(b, n, cell, x)
               h == AddDrawingVML(g, n, cell)
               d == AddContentTypePart(h, "comments", n)
    <2>4. Becomes(d)
      BY <1>4, <2>2 DEF AddComment
    <2>5. FileInv(d, {}) /\ \E note : Annotates(f, d, s, n, note)
      BY <1>1, <2>1, CommentAdded
    <2> HIDE DEF d, n
    <2>6. Turns(f, d)
      BY <2>5, Zenon DEF Turns
    <2> QED
      BY <1>2, <2>4, <2>5, <2>6
  <1>5. ASSUME NEW s \in DOMAIN f.Sheet, NEW x \in Tables, AddTable(s, x) PROVE Goal
    <2> DEFINE id == CountTables(f) + 1
               c == AddSheetRelationships(f, s, "table", id)
               e == AddSheetTable(c, s)
               h == PutPart(e, "table", id, x)
               d == AddContentTypePart(h, "table", id)
    <2>1. Becomes(d)
      BY <1>5 DEF AddTable
    <2>2. FileInv(d, {}) /\ \E rid : Tabulates(f, d, s, rid)
      BY <1>1, TableAdded
    <2> HIDE DEF d
    <2>3. Turns(f, d)
      BY <2>2, Zenon DEF Turns
    <2> QED
      BY <1>2, <2>1, <2>2, <2>3
  <1>6. ASSUME NEW s \in DOMAIN f.Sheet, NEW x \in Images, SetSheetBackground(s, x) PROVE Goal
    <2> DEFINE m == AddMedia(f, x)
               c == AddSheetRelationships(m, s, "image", MediaOf(m, x))
               e == AddSheetPicture(c, s)
               d == SetContentTypePartImageExtensions(e)
    <2>1. Becomes(d)
      BY <1>6 DEF SetSheetBackground
    <2>2. FileInv(d, {}) /\ Covers(f, d, s)
      BY <1>1, BackgroundSet
    <2> HIDE DEF d
    <2>3. Turns(f, d)
      BY <2>2, Zenon DEF Turns
    <2> QED
      BY <1>2, <2>1, <2>2, <2>3
  <1>7. ASSUME GetComments PROVE Goal
    <2> DEFINE S == DOMAIN f.Sheet
               T == {GetSheetComments(f, s) : s \in DOMAIN f.Sheet}
               p == ReadAll(f, "sheetRels", S)
               q == ReadAll(f, "comments", T)
               c == [f.Cache EXCEPT !["sheetRels"] = p, !["comments"] = q]
               d == [f EXCEPT !.Cache = c]
    <2>1. Becomes(d)
      BY <1>7 DEF GetComments
    <2>2. SameView(f, d)
      <3>1. IsFile(f)
        BY <1>1 DEF FileInv
      <3> HIDE DEF T
      <3> QED
        BY <3>1, CommentsRead
    <2> HIDE DEF d
    <2>3. FileInv(d, {})
      BY <1>1, <2>2, SameViewKeeps
    <2>4. Turns(f, d)
      <3>1. /\ d.Sheet = f.Sheet /\ d.XLSX = f.XLSX
            /\ \A k \in Parsed : \A m : Content(d, k, m) = Content(f, k, m)
        BY <2>2 DEF SameView
      <3>2. Follows(f, d, {}, {})
        BY ONLY <3>1, FollowsSame
      <3> QED
        BY <3>1, <3>2 DEF Turns, Same
    <2> QED
      BY <1>2, <2>1, <2>3, <2>4
  <1>8. ASSUME NEW s \in DOMAIN f.Sheet, NEW cell \in Cells, GetPicture(s, cell) PROVE Goal
    <2> DEFINE n == DrawingOf(f, s)
               c == WorkSheetRelsReader(f, s)
               d == DrawingParser(c, n)
               g == DrawingRelsReader(d, n)
               rid == PictureRID(f, n, cell)
    <2>1. f.Sheet[s].drawing # 0
      BY <1>8 DEF GetPicture
    <2>2. IF rid = 0 THEN Becomes(d)
          ELSE f' = g /\ panicked' = (panicked \/ TargetByID(d, "drawingRels", n, rid) = 0)
      BY <1>8 DEF GetPicture
    <2>3. /\ FileInv(d, {}) /\ FileInv(g, {})
          /\ Follows(f, d, {}, {}) /\ d.Sheet = f.Sheet /\ Follows(f, g, {}, {}) /\ g.Sheet = f.Sheet
          /\ rid # 0 => TargetByID(d, "drawingRels", n, rid) # 0
      BY <1>1, <2>1, PictureGot
    <2> HIDE DEF d, g, rid, n
    <2>4. Turns(f, d) /\ Turns(f, g)
      BY <2>3, Zenon DEF Turns, Same
    <2>5. CASE rid = 0
      BY <1>2, <2>2, <2>3, <2>4, <2>5
    <2>6. CASE rid # 0
      <3>1. Becomes(g)
        BY <1>1, <2>2, <2>3, <2>6 DEF Becomes
      <3> QED
        BY <1>2, <2>3, <2>4, <3>1
    <2> QED
      BY <2>5, <2>6
  <1>9. ASSUME NewSheet PROVE Goal
    <2> DEFINE S == DOMAIN f.Sheet
               m == CHOOSE k \in S : \A x \in S : x <= k
               n == 1 + m
               v == Put(f.Sheet, n, NewWorksheet)
               d == [f EXCEPT !.Sheet = v]
    <2>1. n <= MaxSheet /\ Becomes(d)
      BY <1>9 DEF NewSheet
    <2>2. S \subseteq 1..MaxSheet /\ S # {}
      BY <1>1, FileFields DEF FileInv, IsSheets
    <2>3. MaxSheet \in Nat
      BY PackageAssumption
    <2>4. \E k \in S : \A x \in S : x <= k
      <3> DEFINE U == {MaxSheet - x : x \in S}
      <3>1. U \subseteq Nat /\ U # {}
        BY <2>2, <2>3
      <3>2. PICK y \in U : \A z \in U : y <= z
        <4> HIDE DEF U
        <4> QED
          BY <3>1, LeastNumber
      <3>3. PICK k \in S : y = MaxSheet - k
        OBVIOUS
      <3>4. \A x \in S : MaxSheet - k <= MaxSheet - x
        BY <3>2, <3>3
      <3> QED
        BY <2>2, <2>3, <3>4
    <2> HIDE DEF S
    <2>5. m \in S /\ \A x \in S : x <= m
      BY <2>4
    <2> HIDE DEF m
    <2>6. n \in 1..MaxSheet /\ n \notin S /\ \A x \in S : x < n
      BY <2>1, <2>2, <2>3, <2>5
    <2> HIDE DEF n
    <2>7. FileInv(d, {}) /\ Follows(f, d, {}, {}) /\ d.Sheet = v
      BY <1>1, <2>6, SheetAdded DEF S
    <2> HIDE DEF d
    <2>8. AddsSheet(f, d, n)
      BY <2>6, <2>7 DEF AddsSheet, S
    <2>9. Turns(f, d)
      BY <2>8, Zenon DEF Turns
    <2> QED
      BY <1>2, <2>1, <2>7, <2>9
  <1>10. ASSUME NEW s \in DOMAIN f.Sheet, f.Sheet[s].legacyDrawing = 0, DeleteSheet(s) PROVE Goal
    <2> DEFINE v == Del(f.Sheet, s)
               p == Del(f.XLSX["sheetRels"], s)
               x == [f.XLSX EXCEPT !["sheetRels"] = p]
               d == Left(f, v, x)
    <2>1. Cardinality(DOMAIN f.Sheet) > 1 /\ Becomes(d)
      BY <1>10 DEF DeleteSheet, Left
    <2>2. /\ FileInv(d, {}) /\ Keeps(f, d, {}, {}) /\ d.Sheet = v
          /\ \A u : u # s => Content(d, "sheetRels", u) = Content(f, "sheetRels", u)
      BY ONLY <1>1, <1>10, <2>1, s \in DOMAIN f.Sheet, SheetDeleted
    <2> HIDE DEF d
    <2>3. LosesSheet(f, d, s)
      BY <2>2, Zenon DEF LosesSheet
    <2>4. Turns(f, d)
      BY <2>3, Zenon DEF Turns
    <2> QED
      BY <1>2, <2>1, <2>2, <2>4
  <1>11. ASSUME Save PROVE Goal
    <2> DEFINE d == Saved(f)
    <2>1. Becomes(d)
      BY <1>11 DEF Save
    <2>2. FileInv(d, {}) /\ LooksLike(f, d)
      BY <1>1, FileSaved
    <2> HIDE DEF d
    <2>3. Turns(f, d)
      BY <2>2, FollowsLike DEF Turns, Same
    <2> QED
      BY <1>2, <2>1, <2>2, <2>3
  <1>12. ASSUME Reopen PROVE Goal
    <2> DEFINE c == Saved(f)
               p == [k \in Parsed |-> << >>]
               d == Unparsed(c, p, << >>)
    <2>1. Becomes(d)
      BY <1>12 DEF Reopen, Unparsed
    <2>2. FileInv(d, {}) /\ LooksLike(c, d)
      BY <1>1, FileReopened
    <2>3. LooksLike(f, c)
      BY <1>1, FileSaved
    <2> HIDE DEF c, d
    <2>4. Follows(f, c, {}, {}) /\ c.Sheet = f.Sheet /\ Follows(c, d, {}, {}) /\ d.Sheet = c.Sheet
      BY <2>2, <2>3, FollowsLike
    <2>5. Follows(f, d, {}, {})
      BY ONLY <2>4, FollowsOn
    <2>6. Turns(f, d)
      BY <2>4, <2>5 DEF Turns, Same
    <2> QED
      BY <1>2, <2>1, <2>2, <2>6
  <1>13. CASE Adding(Cells)
    <2>1. PICK s \in DOMAIN f.Sheet :
            \/ /\ f.Sheet[s].drawing # 0 \/ Counted("drawing")
               /\ \E cell \in Cells :
                    \/ AddShape(s, cell)
                    \/ \E x \in Charts : AddChart(s, cell, x)
                    \/ \E x \in Images, l \in Linked : AddPicture(s, cell, x, l)
            \/ /\ f.Sheet[s].legacyDrawing # 0 \/ Counted("comments")
               /\ \E cell \in Cells, x \in Texts : AddComment(s, cell, x)
            \/ \E x \in Tables : AddTable(s, x)
            \/ \E x \in Images : SetSheetBackground(s, x)
      BY <1>13, Zenon DEF Adding
    <2> QED
      BY <1>3, <1>4, <1>5, <1>6, <2>1, Zenon
  <1>14. CASE Reading
    BY <1>7, <1>8, <1>14, Zenon DEF Reading
  <1>15. CASE Arranging
    BY <1>9, <1>10, <1>11, <1>12, <1>15, Zenon DEF Arranging
  <1> QED
    BY <1>13, <1>14, <1>15 DEF Next

LEMMA PackageStep ==
  PackageInv /\ [Next]_vars => PackageInv'
  <1>1. PackageInv /\ Next => PackageInv'
    BY PackageTurns
  <1>2. PackageInv /\ UNCHANGED vars => PackageInv'
    BY DEF vars, PackageInv
  <1> QED
    BY <1>1, <1>2

\* The inductive invariant holds: in every state between two calls every
\* reference of a sheet and of an anchor leads to a part that is there and has
\* a content type, drawings and comments are no two sheets', parts are
\* numbered without a gap, and every comment has its box.
THEOREM PackageInvHolds == Spec => []PackageInv
  <1>1. Init => PackageInv
    BY NewFileOK, NewFilesAssumption DEF Init, PackageInv
  <1> QED
    BY <1>1, PackageStep, PTL DEF Spec

-----------------------------------------------------------------------------
(* What the invariant gives.                                               *)

LEMMA RangeWithin ==
  ASSUME NEW g, NEW T, g \in [DOMAIN g -> T]
  PROVE  Range(g) \subseteq T
  BY DEF Range

LEMMA HoldsIsParts ==
  ASSUME NEW parts, NEW kind, Holds(parts, kind)
  PROVE  IsParts(parts, kind)
  <1> DEFINE T == PartType(kind)
  <1>1. DOMAIN parts \subseteq Number /\ parts \in [DOMAIN parts -> T]
    BY DEF Holds
  <1> HIDE DEF T
  <1>2. Range(parts) \subseteq T
    BY <1>1, RangeWithin
  <1> QED
    BY <1>1, <1>2 DEF IsParts, Number, T

LEMMA InvTypeOK == PackageInv => TypeOK
  <1> SUFFICES ASSUME PackageInv PROVE TypeOK
    OBVIOUS
  <1>1. IsFile(f)
    BY DEF PackageInv, FileInv
  <1>2. /\ IsSheets(f.Sheet) /\ IsStored(f.XLSX) /\ IsParsed(f.Cache)
        /\ Holds(f.DecodeVMLDrawing, "vml")
        /\ f.Overrides \subseteq OverrideKinds \X Number
        /\ f.Defaults \subseteq {"image", "vml"}
        /\ \A k \in Stored : Holds(f.XLSX[k], k)
        /\ \A k \in Parsed : Holds(f.Cache[k], k)
    BY <1>1, FileFields
  <1>3. DOMAIN f.Sheet \subseteq 1..MaxSheet /\ Range(f.Sheet) \subseteq Worksheets
    BY <1>2, RangeWithin DEF IsSheets
  <1>4. DOMAIN f.XLSX = Stored
    <2>1. f.XLSX = [k \in Stored |-> f.XLSX[k]]
      BY <1>2 DEF IsStored
    <2> QED
      BY <2>1
  <1>5. DOMAIN f.Cache = Parsed
    <2>1. f.Cache = [k \in Parsed |-> f.Cache[k]]
      BY <1>2 DEF IsParsed
    <2> QED
      BY <2>1
  <1>6. /\ \A k \in Stored : IsParts(f.XLSX[k], k)
        /\ \A k \in Parsed : IsParts(f.Cache[k], k)
        /\ IsParts(f.DecodeVMLDrawing, "vml")
    BY <1>2, HoldsIsParts
  <1>7. panicked \in BOOLEAN
    BY DEF PackageInv
  <1>8. f.Overrides \subseteq {"chart", "comments", "drawing", "table"} \X (Nat \ {0})
    BY <1>2 DEF OverrideKinds, Number
  <1> QED
    BY <1>2, <1>3, <1>4, <1>5, <1>6, <1>7, <1>8, Zenon DEF TypeOK

\* Package's state keeps its shape.
THEOREM PackageTypeCorrect == Spec => []TypeOK
  BY PackageInvHolds, InvTypeOK, PTL

LEMMA PartsAre ==
  ASSUME NEW kind, NEW n, n \in PartsOf(f, kind)
  PROVE  HasPart(kind, n)
  BY DEF PartsOf, HasPart

\* the relationship leads where the property says it does
LEMMA LeadsThere ==
  ASSUME NEW rels, NEW rid, NEW type, LeadsTo(f, {}, rels, rid, type)
  PROVE  Leads(rels, rid, type)
  <1> DEFINE t == rels[rid].target
  <1>1. rid \in DOMAIN rels /\ rels[rid].type = type
    BY DEF LeadsTo
  <1>2. \/ type = "image" /\ "image" \in f.Defaults /\ t \in PartsOf(f, "media")
        \/ type = "vml" /\ "vml" \in f.Defaults /\ t \in PartsOf(f, "vml")
        \/ type \in OverrideKinds /\ <<type, t>> \in f.Overrides /\ t \in PartsOf(f, type)
    BY DEF LeadsTo, Known
  <1> HIDE DEF t
  <1>3. \/ type = "image" /\ "image" \in f.Defaults /\ HasPart("media", t)
        \/ type = "vml" /\ "vml" \in f.Defaults /\ HasPart("vml", t)
        \/ type \in OverrideKinds /\ <<type, t>> \in f.Overrides /\ HasPart(type, t)
    BY <1>2, PartsAre
  <1>4. \A x \in OverrideKinds : x \notin {"image", "vml"}
    BY DEF OverrideKinds
  <1> QED
    BY <1>1, <1>3, <1>4 DEF Leads, t

\* GetComments finds the part that belongs to the VML drawing of the sheet
LEMMA CommentsFound ==
  ASSUME NEW b, FileInv(b, {}), NEW s \in DOMAIN b.Sheet, b.Sheet[s].legacyDrawing # 0
  PROVE  /\ GetSheetComments(b, s) = LegacyDrawingOf(b, s)
         /\ LegacyDrawingOf(b, s) \in PartsOf(b, "comments")
  <1> DEFINE r == Content(b, "sheetRels", s)
             w == b.Sheet[s]
             m == w.legacyDrawing
             found == {i \in DOMAIN r : r[i].type = "comments"}
  <1>1. IsFile(b) /\ SheetOK(b, {}, w, r)
    BY DEF FileInv, SheetsOK
  <1>2. r \in Seq(Rels)
    BY <1>1, SheetRelsType
  <1>3. LegacyDrawingOf(b, s) \in PartsOf(b, "comments")
    BY LegacyHere
  <1>4. LegacyDrawingOf(b, s) = IF m \in DOMAIN r THEN r[m].target ELSE 0
    BY DEF LegacyDrawingOf, GetSheetRelationshipsTargetByID, TargetByID
  <1>5. GetSheetComments(b, s) = IF found = {} THEN 0 ELSE r[First(found)].target
    BY Zenon DEF GetSheetComments
  <1>6. /\ m \in DOMAIN r /\ m + 1 \in DOMAIN r /\ r[m + 1].type = "comments"
        /\ r[m + 1].target = r[m].target
        /\ \A i \in DOMAIN r : r[i].type = "comments" => i = m + 1
    BY <1>1 DEF SheetOK, LeadsTo
  <1> HIDE DEF r, w, m
  <1>7. m + 1 \in found /\ (\A i \in found : i = m + 1) /\ found \subseteq Nat
    BY <1>2, <1>6
  <1> HIDE DEF found
  <1>8. First(found) = m + 1
    BY <1>7, FirstIs
  <1> QED
    BY <1>3, <1>4, <1>5, <1>6, <1>7, <1>8

LEMMA InvPartsResolve == PackageInv => PartsResolve
  <1> SUFFICES ASSUME PackageInv PROVE PartsResolve
    OBVIOUS
  <1>1. FileInv(f, {}) /\ panicked = FALSE
    BY DEF PackageInv
  <1>2. IsFile(f) /\ SheetsOK(f, {}) /\ DrawingsOK(f, {})
    BY <1>1 DEF FileInv
  <1>3. ASSUME NEW s \in DOMAIN f.Sheet, NEW w, w = f.Sheet[s],
               NEW rels, rels = Content(f, "sheetRels", s)
        PROVE  /\ w.drawing # 0 => Leads(rels, w.drawing, "drawing")
               /\ w.legacyDrawing # 0 => Leads(rels, w.legacyDrawing, "vml")
               /\ w.legacyDrawing # 0 => HasPart("comments", GetSheetComments(f, s))
               /\ w.picture # 0 => Leads(rels, w.picture, "image")
               /\ \A i \in DOMAIN w.tableParts : Leads(rels, w.tableParts[i], "table")
    <2>1. SheetOK(f, {}, w, rels)
      BY <1>2, <1>3 DEF SheetsOK
    <2>2. /\ w.drawing # 0 => LeadsTo(f, {}, rels, w.drawing, "drawing")
          /\ w.legacyDrawing # 0 => LeadsTo(f, {}, rels, w.legacyDrawing, "vml")
          /\ w.picture # 0 => LeadsTo(f, {}, rels, w.picture, "image")
          /\ \A i \in DOMAIN w.tableParts : LeadsTo(f, {}, rels, w.tableParts[i], "table")
      BY <2>1, Zenon DEF SheetOK
    <2>3. w.legacyDrawing # 0 => HasPart("comments", GetSheetComments(f, s))
      BY <1>1, <1>3, CommentsFound, PartsAre
    <2> QED
      BY ONLY <2>2, <2>3, LeadsThere
  <1>4. ASSUME NEW n \in DOMAIN f.XLSX["drawing"] \cup DOMAIN f.Cache["drawing"],
               NEW anchors, anchors = Content(f, "drawing", n),
               NEW i \in DOMAIN anchors, anchors[i].kind # "sp"
        PROVE  Leads(Content(f, "drawingRels", n), anchors[i].rid,
                     IF anchors[i].kind = "pic" THEN "image" ELSE "chart")
    <2> DEFINE a == anchors[i]
               r == Content(f, "drawingRels", n)
    <2>1. n \in PartsOf(f, "drawing")
      BY <1>4 DEF PartsOf, Parsed
    <2>2. DrawingOK(f, {}, anchors, r)
      BY <1>2, <1>4, <2>1 DEF DrawingsOK
    <2>3. /\ a.kind = "pic" => LeadsTo(f, {}, r, a.rid, "image")
          /\ a.kind = "chart" => LeadsTo(f, {}, r, a.rid, "chart")
      BY <2>2, <1>4, Zenon DEF DrawingOK, AnchorOK
    <2>4. a.kind \in {"pic", "chart", "sp"}
      <3>1. anchors \in Seq(Anchors)
        BY <1>2, <1>4, DrawingType
      <3>2. a \in Anchors
        BY <1>4, <3>1
      <3> QED
        BY <3>2 DEF Anchors
    <2> HIDE DEF r
    <2>5. CASE a.kind = "pic"
      <3>1. Leads(r, a.rid, "image")
        BY ONLY <2>3, <2>5, LeadsThere
      <3> QED
        BY <2>5, <3>1 DEF r
    <2>6. CASE a.kind = "chart"
      <3>1. Leads(r, a.rid, "chart")
        BY ONLY <2>3, <2>6, LeadsThere
      <3> QED
        BY <2>6, <3>1 DEF r
    <2> QED
      BY <1>4, <2>4, <2>5, <2>6
  <1>5. ~panicked
    BY <1>1
  <1> QED
    BY <1>3, <1>4, <1>5, Zenon DEF PartsResolve

\* No call of AddPicture, AddChart, AddShape, AddComment, AddTable or
\* SetSheetBackground, no deleted sheet, no save and no reopening leaves a
\* reference that leads nowhere: from a sheet to its drawing, its comments, its
\* tables and its background, and from an anchor to its picture or chart, every
\* reference leads to a part that exists and has a content type, and GetPicture
\* never uses a relationship that is not there.
THEOREM PartsResolveAlways == Spec => []PartsResolve
  BY PackageInvHolds, InvPartsResolve, PTL

LEMMA InvNotesAgree == PackageInv => NotesAgree
  <1> SUFFICES ASSUME PackageInv, NEW s \in DOMAIN f.Sheet, NEW n, n = LegacyDrawingOf(f, s),
                      NEW notes, notes = Content(f, "comments", n), n # 0
               PROVE  GetSheetComments(f, s) = n /\ Boxes(Content(f, "vml", n), notes)
    BY Zenon DEF NotesAgree, Boxes
  <1>1. FileInv(f, {})
    BY DEF PackageInv
  <1>2. f.Sheet[s].legacyDrawing # 0
    BY <1>1, LegacyHere
  <1>3. GetSheetComments(f, s) = n /\ n \in PartsOf(f, "comments")
    BY <1>1, <1>2, CommentsFound
  <1>4. Boxes(Content(f, "vml", n), notes)
    BY <1>1, <1>3 DEF FileInv, NotesOK
  <1> QED
    BY <1>3, <1>4

\* GetComments reads the part that AddComment writes to, and the VML drawing
\* that shows it has boxes at exactly the cells of its texts and no fewer boxes
\* than texts, whatever was parsed, saved and reopened in between, a second
\* comment on a loaded sheet included.
THEOREM NotesAgreeAlways == Spec => []NotesAgree
  BY PackageInvHolds, InvNotesAgree, PTL

\* No two sheets come to share a drawing or a comments part.
THEOREM OwnPartsAlways == Spec => []OwnParts
  <1>1. PackageInv => OwnParts
    BY DEF PackageInv, FileInv, OwnOK, OwnParts
  <1> QED
    BY <1>1, PackageInvHolds, PTL

LEMMA InvPicturesRead == PackageInv => PicturesRead
  <1> SUFFICES ASSUME PackageInv, NEW s \in DOMAIN f.Sheet, NEW cell \in Cells,
                      f.Sheet[s].drawing # 0
               PROVE  LET n    == DrawingOf(f, s)
                          seen == Objects(s)
                          pics == {seen[i].what : i \in {j \in DOMAIN seen : /\ seen[j].kind = "pic"
                                                                            /\ seen[j].cell = cell}}
                          rid  == PictureRID(f, n, cell)
                      IN  IF rid = 0 THEN pics = {}
                          ELSE <<f.XLSX["media"][TargetByID(f, "drawingRels", n, rid)]>> \in pics
    BY DEF PicturesRead
  <1> DEFINE n == DrawingOf(f, s)
             seen == Objects(s)
             pics == {seen[i].what : i \in {j \in DOMAIN seen : /\ seen[j].kind = "pic"
                                                               /\ seen[j].cell = cell}}
             rid == PictureRID(f, n, cell)
             e == Content(f, "drawing", n)
             r == Content(f, "drawingRels", n)
  <1>1. FileInv(f, {})
    BY DEF PackageInv
  <1>2. n \in PartsOf(f, "drawing") /\ n \in Number
    BY <1>1, DrawingHere
  <1>3. DrawingOK(f, {}, e, r) /\ r \in Seq(Rels)
    BY <1>1, <1>2, DrawingRelsType DEF FileInv, DrawingsOK
  <1>4. \/ \E i \in DOMAIN e : IsPicAt(e[i], cell) /\ e[i].rid = rid
        \/ rid = 0 /\ \A i \in DOMAIN e : ~IsPicAt(e[i], cell)
    BY <1>1, <1>2, PictureFound
  <1>5. seen = [i \in DOMAIN e |-> Shown(n, e[i])]
    BY Zenon DEF Objects
  <1> HIDE DEF e, n, seen, rid
  <1>6. /\ DOMAIN seen = DOMAIN e
        /\ \A i \in DOMAIN e : /\ seen[i].kind = e[i].kind /\ seen[i].cell = e[i].cell
                               /\ seen[i].what = Shown(n, e[i]).what
    <2>1. DOMAIN seen = DOMAIN e /\ \A i \in DOMAIN e : seen[i] = Shown(n, e[i])
      BY <1>5
    <2>2. \A i \in DOMAIN e : Shown(n, e[i]).kind = e[i].kind /\ Shown(n, e[i]).cell = e[i].cell
      BY DEF Shown
    <2> QED
      BY <2>1, <2>2
  <1>7. CASE rid = 0
    <2>1. ASSUME NEW i \in DOMAIN e, IsPicAt(e[i], cell) PROVE FALSE
      <3>1. PICK j \in DOMAIN e : IsPicAt(e[j], cell) /\ e[j].rid = 0
        BY <1>4, <1>7, <2>1
      <3>2. 0 \in DOMAIN r
        BY <1>3, <3>1 DEF DrawingOK, AnchorOK, IsPicAt, LeadsTo
      <3> QED
        BY <1>3, <3>2
    <2>2. pics = {}
      BY <1>6, <2>1 DEF IsPicAt
    <2> QED
      BY <1>7, <2>2 DEF n, seen, rid
  <1>8. CASE rid # 0
    <2> DEFINE m == <<f.XLSX["media"][TargetByID(f, "drawingRels", n, rid)]>>
    <2>1. PICK i \in DOMAIN e : IsPicAt(e[i], cell) /\ e[i].rid = rid
      BY <1>4, <1>8
    <2>2. Shown(n, e[i]).what = m
      BY <2>1 DEF Shown, IsPicAt
    <2> HIDE DEF m
    <2>3. m \in pics
      BY <1>6, <2>1, <2>2 DEF IsPicAt
    <2> QED
      BY <1>8, <2>3 DEF m, n, seen, rid
  <1> QED
    BY <1>7, <1>8

\* GetPicture answers with a picture that was put on the cell, and with none
\* only where there is none, whether the drawing is parsed, stored or both.
THEOREM PicturesReadAlways == Spec => []PicturesRead
  BY PackageInvHolds, InvPicturesRead, PTL

-----------------------------------------------------------------------------
(* What each sheet shows.                                                  *)

\* what is seen of an anchor, a drawing and a sheet of File b
ShownIn(b, n, a) ==
  [kind |-> a.kind, cell |-> a.cell,
   what |-> LET t == TargetByID(b, "drawingRels", n, a.rid)
            IN  CASE a.kind = "pic" -> <<b.XLSX["media"][t]>>
                  [] a.kind = "chart" -> <<b.XLSX["chart"][t]>>
                  [] OTHER -> << >>]
ObjectsAt(b, n) == LET c == Content(b, "drawing", n) IN [i \in DOMAIN c |-> ShownIn(b, n, c[i])]
ObjectsOf(b, s) == IF b.Sheet[s].drawing = 0 THEN << >> ELSE ObjectsAt(b, DrawingOf(b, s))
NotesOf(b, s) == Content(b, "comments", GetSheetComments(b, s))
TableAt(b, s, rid) == b.XLSX["table"][Content(b, "sheetRels", s)[rid].target]
TablesOf(b, s) == LET w == b.Sheet[s].tableParts IN [i \in DOMAIN w |-> TableAt(b, s, w[i])]
ImageAt(b, s, rid) == b.XLSX["media"][Content(b, "sheetRels", s)[rid].target]
BackOf(b, s) == IF b.Sheet[s].picture = 0 THEN << >> ELSE <<ImageAt(b, s, b.Sheet[s].picture)>>
Sight(b, s) == [objects |-> ObjectsOf(b, s), notes |-> NotesOf(b, s),
                tables |-> TablesOf(b, s), back |-> BackOf(b, s)]

\* a relationship leads to what a part of the package holds
LEMMA PointsTo ==
  ASSUME NEW b, IsFile(b), NEW r, NEW rid, NEW type, LeadsTo(b, {}, r, rid, type)
  PROVE  /\ rid \in DOMAIN r
         /\ type = "image" => /\ r[rid].target \in DOMAIN b.XLSX["media"]
                              /\ b.XLSX["media"][r[rid].target] \in Images
         /\ type = "chart" => /\ r[rid].target \in DOMAIN b.XLSX["chart"]
                              /\ b.XLSX["chart"][r[rid].target] \in Charts
         /\ type = "table" => /\ r[rid].target \in DOMAIN b.XLSX["table"]
                              /\ b.XLSX["table"][r[rid].target] \in Tables
  <1> DEFINE t == r[rid].target
  <1>1. rid \in DOMAIN r /\ Known(b, {}, type, t)
    BY DEF LeadsTo
  <1> HIDE DEF t
  <1>2. /\ type = "image" => t \in PartsOf(b, "media")
        /\ type = "chart" => t \in PartsOf(b, "chart")
        /\ type = "table" => t \in PartsOf(b, "table")
    BY <1>1 DEF Known, OverrideKinds
  <1>3. /\ PartsOf(b, "media") = DOMAIN b.XLSX["media"] /\ PartsOf(b, "chart") = DOMAIN b.XLSX["chart"]
        /\ PartsOf(b, "table") = DOMAIN b.XLSX["table"]
    BY DEF PartsOf, Parsed
  <1>4. /\ Holds(b.XLSX["media"], "media") /\ Holds(b.XLSX["chart"], "chart")
        /\ Holds(b.XLSX["table"], "table")
    BY FileFields DEF Stored
  <1>5. /\ b.XLSX["media"] \in [DOMAIN b.XLSX["media"] -> Images]
        /\ b.XLSX["chart"] \in [DOMAIN b.XLSX["chart"] -> Charts]
        /\ b.XLSX["table"] \in [DOMAIN b.XLSX["table"] -> Tables]
    BY <1>4, PartTypeIs DEF Holds
  <1>6. /\ type = "image" => t \in DOMAIN b.XLSX["media"] /\ b.XLSX["media"][t] \in Images
        /\ type = "chart" => t \in DOMAIN b.XLSX["chart"] /\ b.XLSX["chart"][t] \in Charts
        /\ type = "table" => t \in DOMAIN b.XLSX["table"] /\ b.XLSX["table"][t] \in Tables
    BY ONLY <1>2, <1>3, <1>5
  <1> QED
    BY <1>1, <1>6, Zenon DEF t

\* what an anchor shows is something to be shown
LEMMA ShownType ==
  ASSUME NEW b, IsFile(b), NEW n, NEW a \in Anchors,
         AnchorOK(b, {}, Content(b, "drawingRels", n), a)
  PROVE  ShownIn(b, n, a) \in Abstract!Object
  <1> DEFINE r == Content(b, "drawingRels", n)
             t == TargetByID(b, "drawingRels", n, a.rid)
             o == ShownIn(b, n, a)
  <1>1. a.cell \in Cells /\ a.kind \in {"pic", "chart", "sp"}
    BY DEF Anchors
  <1>2. CASE a.kind = "pic"
    <2>1. LeadsTo(b, {}, r, a.rid, "image")
      BY <1>2 DEF AnchorOK
    <2>2. a.rid \in DOMAIN r /\ b.XLSX["media"][r[a.rid].target] \in Images
      BY ONLY <2>1, IsFile(b), PointsTo
    <2>3. t = r[a.rid].target
      BY <2>2 DEF TargetByID
    <2> HIDE DEF r, t
    <2>4. o = [kind |-> "pic", cell |-> a.cell, what |-> <<b.XLSX["media"][t]>>]
      BY <1>2 DEF ShownIn, t
    <2>5. <<b.XLSX["media"][t]>> \in {<<z>> : z \in Images}
      BY <2>2, <2>3
    <2> HIDE DEF o
    <2>6. o \in [kind : {"pic"}, cell : Cells, what : {<<z>> : z \in Images}]
      BY ONLY <1>1, <2>4, <2>5
    <2> QED
      BY <2>6, Zenon DEF Abstract!Object, o
  <1>3. CASE a.kind = "chart"
    <2>1. LeadsTo(b, {}, r, a.rid, "chart")
      BY <1>3 DEF AnchorOK
    <2>2. a.rid \in DOMAIN r /\ b.XLSX["chart"][r[a.rid].target] \in Charts
      BY ONLY <2>1, IsFile(b), PointsTo
    <2>3. t = r[a.rid].target
      BY <2>2 DEF TargetByID
    <2> HIDE DEF r, t
    <2>4. o = [kind |-> "chart", cell |-> a.cell, what |-> <<b.XLSX["chart"][t]>>]
      BY <1>3 DEF ShownIn, t
    <2>5. <<b.XLSX["chart"][t]>> \in {<<z>> : z \in Charts}
      BY <2>2, <2>3
    <2> HIDE DEF o
    <2>6. o \in [kind : {"chart"}, cell : Cells, what : {<<z>> : z \in Charts}]
      BY ONLY <1>1, <2>4, <2>5
    <2> QED
      BY <2>6, Zenon DEF Abstract!Object, o
  <1>4. CASE a.kind = "sp"
    <2>1. o = [kind |-> "sp", cell |-> a.cell, what |-> << >>]
      BY <1>4 DEF ShownIn
    <2> HIDE DEF o
    <2>2. o \in [kind : {"sp"}, cell : Cells, what : {<< >>}]
      BY ONLY <1>1, <2>1
    <2> QED
      BY <2>2, Zenon DEF Abstract!Object, o
  <1> QED
    BY <1>1, <1>2, <1>3, <1>4

\* an anchor shows the same in a File that keeps what it leads to
LEMMA ShownKept ==
  ASSUME NEW b, IsFile(b), NEW d, NEW D, NEW N, Keeps(b, d, D, N), NEW n,
         NEW x \in Anchors, NEW y, Alike(x, y), AnchorOK(b, {}, Content(b, "drawingRels", n), x)
  PROVE  ShownIn(d, n, y) = ShownIn(b, n, x)
  <1> DEFINE r == Content(b, "drawingRels", n)
             q == Content(d, "drawingRels", n)
  <1>1. y.kind = x.kind /\ y.cell = x.cell /\ y.rid = x.rid /\ x.kind \in {"pic", "chart", "sp"}
    BY DEF Alike, Anchors
  <1>2. /\ Continues(r, q) /\ Continues(b.XLSX["media"], d.XLSX["media"])
        /\ Continues(b.XLSX["chart"], d.XLSX["chart"])
    BY DEF Keeps
  <1>3. /\ TargetByID(b, "drawingRels", n, x.rid) = Ref(r, x.rid)
        /\ TargetByID(d, "drawingRels", n, x.rid) = Ref(q, x.rid)
    BY DEF TargetByID, Ref
  <1>4. CASE x.kind = "pic"
    <2>1. LeadsTo(b, {}, r, x.rid, "image")
      BY <1>4 DEF AnchorOK
    <2>2. x.rid \in DOMAIN r /\ r[x.rid].target \in DOMAIN b.XLSX["media"]
      BY ONLY <2>1, IsFile(b), PointsTo
    <2>3. Ref(q, x.rid) = Ref(r, x.rid) /\ Ref(r, x.rid) \in DOMAIN b.XLSX["media"]
      BY <1>2, <2>2 DEF Ref, Continues
    <2>4. d.XLSX["media"][Ref(r, x.rid)] = b.XLSX["media"][Ref(r, x.rid)]
      BY <1>2, <2>3 DEF Continues
    <2> QED
      BY <1>1, <1>3, <1>4, <2>3, <2>4 DEF ShownIn
  <1>5. CASE x.kind = "chart"
    <2>1. LeadsTo(b, {}, r, x.rid, "chart")
      BY <1>5 DEF AnchorOK
    <2>2. x.rid \in DOMAIN r /\ r[x.rid].target \in DOMAIN b.XLSX["chart"]
      BY ONLY <2>1, IsFile(b), PointsTo
    <2>3. Ref(q, x.rid) = Ref(r, x.rid) /\ Ref(r, x.rid) \in DOMAIN b.XLSX["chart"]
      BY <1>2, <2>2 DEF Ref, Continues
    <2>4. d.XLSX["chart"][Ref(r, x.rid)] = b.XLSX["chart"][Ref(r, x.rid)]
      BY <1>2, <2>3 DEF Continues
    <2> QED
      BY <1>1, <1>3, <1>5, <2>3, <2>4 DEF ShownIn
  <1>6. CASE x.kind = "sp"
    BY <1>1, <1>6 DEF ShownIn
  <1> QED
    BY <1>1, <1>4, <1>5, <1>6

LEMMA ObjectsAtKept ==
  ASSUME NEW b, FileInv(b, {}), NEW d, NEW D, NEW N, Keeps(b, d, D, N),
         NEW n \in PartsOf(b, "drawing"), n \notin D
  PROVE  ObjectsAt(d, n) = ObjectsAt(b, n)
  <1> DEFINE x == Content(b, "drawing", n)
             y == Content(d, "drawing", n)
             r == Content(b, "drawingRels", n)
  <1>1. IsFile(b) /\ DrawingOK(b, {}, x, r)
    BY DEF FileInv, DrawingsOK
  <1>2. x \in Seq(Anchors)
    BY <1>1, DrawingType
  <1>3. Akin(x, y)
    BY DEF Keeps
  <1>4. ObjectsAt(b, n) = [i \in DOMAIN x |-> ShownIn(b, n, x[i])]
    BY Zenon DEF ObjectsAt
  <1>5. ObjectsAt(d, n) = [i \in DOMAIN y |-> ShownIn(d, n, y[i])]
    BY Zenon DEF ObjectsAt
  <1> HIDE DEF x, y
  <1>6. ASSUME NEW i \in DOMAIN x PROVE ShownIn(d, n, y[i]) = ShownIn(b, n, x[i])
    <2>1. x[i] \in Anchors /\ Alike(x[i], y[i]) /\ AnchorOK(b, {}, Content(b, "drawingRels", n), x[i])
      BY <1>1, <1>2, <1>3 DEF DrawingOK, Akin
    <2> QED
      BY ONLY <1>1, <2>1, Keeps(b, d, D, N), ShownKept
  <1>7. DOMAIN y = DOMAIN x
    BY <1>3 DEF Akin
  <1> QED
    BY <1>4, <1>5, <1>6, <1>7, Zenon

LEMMA ObjectsKept ==
  ASSUME NEW b, FileInv(b, {}), NEW d, IsFile(d), NEW D, NEW N, Keeps(b, d, D, N),
         NEW s \in DOMAIN b.Sheet,
         Continues(Content(b, "sheetRels", s), Content(d, "sheetRels", s)),
         d.Sheet[s].drawing = b.Sheet[s].drawing,
         b.Sheet[s].drawing = 0 \/ DrawingOf(b, s) \notin D
  PROVE  ObjectsOf(d, s) = ObjectsOf(b, s)
  <1> DEFINE r == Content(b, "sheetRels", s)
             q == Content(d, "sheetRels", s)
             rid == b.Sheet[s].drawing
             n == DrawingOf(b, s)
  <1>1. IsFile(b) /\ SheetOK(b, {}, b.Sheet[s], r)
    BY DEF FileInv, SheetsOK
  <1>2. r \in Seq(Rels) /\ q \in Seq(Rels)
    BY <1>1, SheetRelsType
  <1>3. rid = 0 \/ rid \in DOMAIN r
    BY <1>1, SheetRefs
  <1>4. Continues(r, q)
    OBVIOUS
  <1>5. n = Ref(r, rid) /\ DrawingOf(d, s) = Ref(q, rid)
    BY RefIs
  <1>6. rid # 0 => n \in PartsOf(b, "drawing")
    BY DrawingHere
  <1>7. rid = 0 \/ n \notin D
    OBVIOUS
  <1>8. /\ ObjectsOf(b, s) = IF rid = 0 THEN << >> ELSE ObjectsAt(b, n)
        /\ ObjectsOf(d, s) = IF rid = 0 THEN << >> ELSE ObjectsAt(d, DrawingOf(d, s))
    BY DEF ObjectsOf
  <1> HIDE DEF r, q, n, rid
  <1>9. DrawingOf(d, s) = n
    BY ONLY <1>2, <1>3, <1>4, <1>5, RefContinues
  <1>10. rid # 0 => ObjectsAt(d, n) = ObjectsAt(b, n)
    BY ONLY <1>6, <1>7, FileInv(b, {}), Keeps(b, d, D, N), ObjectsAtKept
  <1> QED
    BY ONLY <1>8, <1>9, <1>10

\* relationships that mention no comments give none
LEMMA NotesNone ==
  ASSUME NEW b, IsFile(b), NEW s, NoNotes(Content(b, "sheetRels", s))
  PROVE  NotesOf(b, s) = << >>
  <1>1. GetSheetComments(b, s) = 0
    BY DEF GetSheetComments, NoNotes
  <1>2. Holds(b.Cache["comments"], "comments") /\ Holds(b.XLSX["comments"], "comments")
    BY FileFields DEF Parsed, Stored
  <1>3. 0 \notin DOMAIN b.Cache["comments"] /\ 0 \notin DOMAIN b.XLSX["comments"]
    BY <1>2 DEF Holds, Number
  <1> QED
    BY <1>1, <1>3 DEF NotesOf, Content

\* the comments of a sheet are those of its part
LEMMA NotesAre ==
  ASSUME NEW b, FileInv(b, {}), NEW s \in DOMAIN b.Sheet
  PROVE  NotesOf(b, s) = IF b.Sheet[s].legacyDrawing = 0 THEN << >>
                         ELSE Content(b, "comments", LegacyDrawingOf(b, s))
  <1>1. CASE b.Sheet[s].legacyDrawing = 0
    <2>1. NoNotes(Content(b, "sheetRels", s)) /\ IsFile(b)
      BY <1>1 DEF FileInv, SheetsOK, SheetOK, NoNotes
    <2> QED
      BY <1>1, <2>1, NotesNone
  <1>2. CASE b.Sheet[s].legacyDrawing # 0
    BY <1>2, CommentsFound DEF NotesOf
  <1> QED
    BY <1>1, <1>2

LEMMA NotesKept ==
  ASSUME NEW b, FileInv(b, {}), NEW d, FileInv(d, {}), NEW D, NEW N, Keeps(b, d, D, N),
         NEW s \in DOMAIN b.Sheet, s \in DOMAIN d.Sheet,
         Continues(Content(b, "sheetRels", s), Content(d, "sheetRels", s)),
         d.Sheet[s].legacyDrawing = b.Sheet[s].legacyDrawing,
         b.Sheet[s].legacyDrawing = 0 \/ LegacyDrawingOf(b, s) \notin N
  PROVE  NotesOf(d, s) = NotesOf(b, s)
  <1> DEFINE r == Content(b, "sheetRels", s)
             q == Content(d, "sheetRels", s)
             rid == b.Sheet[s].legacyDrawing
             n == LegacyDrawingOf(b, s)
  <1>1. IsFile(b) /\ IsFile(d) /\ SheetOK(b, {}, b.Sheet[s], r)
    BY DEF FileInv, SheetsOK
  <1>2. r \in Seq(Rels) /\ q \in Seq(Rels)
    BY <1>1, SheetRelsType
  <1>3. rid = 0 \/ rid \in DOMAIN r
    BY <1>1, SheetRefs
  <1>4. Continues(r, q)
    OBVIOUS
  <1>5. n = Ref(r, rid) /\ LegacyDrawingOf(d, s) = Ref(q, rid)
    BY RefIs
  <1>6. NotesOf(b, s) = IF rid = 0 THEN << >> ELSE Content(b, "comments", n)
    BY ONLY FileInv(b, {}), s \in DOMAIN b.Sheet, NotesAre
  <1>7. NotesOf(d, s) = IF d.Sheet[s].legacyDrawing = 0 THEN << >>
                        ELSE Content(d, "comments", LegacyDrawingOf(d, s))
    BY ONLY FileInv(d, {}), s \in DOMAIN d.Sheet, NotesAre
  <1>8. (rid = 0 \/ n \notin N) /\ d.Sheet[s].legacyDrawing = rid
    OBVIOUS
  <1>9. n \notin N => Content(d, "comments", n) = Content(b, "comments", n)
    BY DEF Keeps
  <1> HIDE DEF r, q, n, rid
  <1>10. LegacyDrawingOf(d, s) = n
    BY ONLY <1>2, <1>3, <1>4, <1>5, RefContinues
  <1> QED
    BY ONLY <1>6, <1>7, <1>8, <1>9, <1>10

LEMMA TableKept ==
  ASSUME NEW b, IsFile(b), NEW d, NEW D, NEW N, Keeps(b, d, D, N), NEW s,
         Continues(Content(b, "sheetRels", s), Content(d, "sheetRels", s)),
         NEW rid, LeadsTo(b, {}, Content(b, "sheetRels", s), rid, "table")
  PROVE  TableAt(d, s, rid) = TableAt(b, s, rid)
  <1> DEFINE r == Content(b, "sheetRels", s)
             q == Content(d, "sheetRels", s)
  <1>1. rid \in DOMAIN r /\ r[rid].target \in DOMAIN b.XLSX["table"]
    BY PointsTo
  <1>2. Continues(b.XLSX["table"], d.XLSX["table"]) /\ Continues(r, q)
    BY DEF Keeps
  <1> QED
    BY <1>1, <1>2 DEF Continues, TableAt

LEMMA ImageKept ==
  ASSUME NEW b, IsFile(b), NEW d, NEW D, NEW N, Keeps(b, d, D, N), NEW s,
         Continues(Content(b, "sheetRels", s), Content(d, "sheetRels", s)),
         NEW rid, LeadsTo(b, {}, Content(b, "sheetRels", s), rid, "image")
  PROVE  ImageAt(d, s, rid) = ImageAt(b, s, rid)
  <1> DEFINE r == Content(b, "sheetRels", s)
             q == Content(d, "sheetRels", s)
  <1>1. rid \in DOMAIN r /\ r[rid].target \in DOMAIN b.XLSX["media"]
    BY PointsTo
  <1>2. Continues(b.XLSX["media"], d.XLSX["media"]) /\ Continues(r, q)
    BY DEF Keeps
  <1> QED
    BY <1>1, <1>2 DEF Continues, ImageAt

LEMMA TablesKept ==
  ASSUME NEW b, FileInv(b, {}), NEW d, NEW D, NEW N, Keeps(b, d, D, N), NEW s \in DOMAIN b.Sheet,
         Continues(Content(b, "sheetRels", s), Content(d, "sheetRels", s)),
         d.Sheet[s].tableParts = b.Sheet[s].tableParts
  PROVE  TablesOf(d, s) = TablesOf(b, s)
  <1> DEFINE w == b.Sheet[s].tableParts
  <1>1. IsFile(b) /\ \A i \in DOMAIN w : LeadsTo(b, {}, Content(b, "sheetRels", s), w[i], "table")
    BY DEF FileInv, SheetsOK, SheetOK
  <1>2. /\ TablesOf(b, s) = [i \in DOMAIN w |-> TableAt(b, s, w[i])]
        /\ TablesOf(d, s) = [i \in DOMAIN w |-> TableAt(d, s, w[i])]
    BY DEF TablesOf
  <1> HIDE DEF w
  <1>3. \A i \in DOMAIN w : TableAt(d, s, w[i]) = TableAt(b, s, w[i])
    BY <1>1, TableKept
  <1> QED
    BY <1>2, <1>3

LEMMA BackKept ==
  ASSUME NEW b, FileInv(b, {}), NEW d, NEW D, NEW N, Keeps(b, d, D, N), NEW s \in DOMAIN b.Sheet,
         Continues(Content(b, "sheetRels", s), Content(d, "sheetRels", s)),
         d.Sheet[s].picture = b.Sheet[s].picture
  PROVE  BackOf(d, s) = BackOf(b, s)
  <1> DEFINE rid == b.Sheet[s].picture
  <1>1. IsFile(b) /\ (rid # 0 => LeadsTo(b, {}, Content(b, "sheetRels", s), rid, "image"))
    BY DEF FileInv, SheetsOK, SheetOK
  <1>2. /\ BackOf(b, s) = IF rid = 0 THEN << >> ELSE <<ImageAt(b, s, rid)>>
        /\ BackOf(d, s) = IF rid = 0 THEN << >> ELSE <<ImageAt(d, s, rid)>>
    BY DEF BackOf
  <1> HIDE DEF rid
  <1>3. rid # 0 => ImageAt(d, s, rid) = ImageAt(b, s, rid)
    BY <1>1, ImageKept
  <1> QED
    BY ONLY <1>2, <1>3

\* a sheet shows the same when nothing of it has changed
LEMMA SightKept ==
  ASSUME NEW b, FileInv(b, {}), NEW d, FileInv(d, {}), NEW D, NEW N, Keeps(b, d, D, N),
         NEW s \in DOMAIN b.Sheet, s \in DOMAIN d.Sheet,
         Continues(Content(b, "sheetRels", s), Content(d, "sheetRels", s)),
         d.Sheet[s] = b.Sheet[s],
         b.Sheet[s].drawing = 0 \/ DrawingOf(b, s) \notin D,
         b.Sheet[s].legacyDrawing = 0 \/ LegacyDrawingOf(b, s) \notin N
  PROVE  Sight(d, s) = Sight(b, s)
  <1>1. IsFile(d)
    BY DEF FileInv
  <1>2. ObjectsOf(d, s) = ObjectsOf(b, s)
    BY <1>1, ObjectsKept
  <1>3. NotesOf(d, s) = NotesOf(b, s)
    BY NotesKept
  <1>4. TablesOf(d, s) = TablesOf(b, s)
    BY TablesKept
  <1>5. BackOf(d, s) = BackOf(b, s)
    BY BackKept
  <1> QED
    BY ONLY <1>2, <1>3, <1>4, <1>5 DEF Sight

\* the parts of a sheet that is not changed are the same
LEMMA RefsKept ==
  ASSUME NEW b, FileInv(b, {}), NEW d, IsFile(d), NEW s \in DOMAIN b.Sheet,
         Continues(Content(b, "sheetRels", s), Content(d, "sheetRels", s)),
         d.Sheet[s] = b.Sheet[s]
  PROVE  DrawingOf(d, s) = DrawingOf(b, s) /\ LegacyDrawingOf(d, s) = LegacyDrawingOf(b, s)
  <1> DEFINE r == Content(b, "sheetRels", s)
             q == Content(d, "sheetRels", s)
             w == b.Sheet[s]
  <1>1. IsFile(b) /\ SheetOK(b, {}, w, r)
    BY DEF FileInv, SheetsOK
  <1>2. r \in Seq(Rels) /\ q \in Seq(Rels) /\ Continues(r, q)
    BY <1>1, SheetRelsType
  <1>3. /\ w.drawing = 0 \/ w.drawing \in DOMAIN r
        /\ w.legacyDrawing = 0 \/ w.legacyDrawing \in DOMAIN r
    BY <1>1, SheetRefs
  <1>4. /\ DrawingOf(b, s) = Ref(r, w.drawing) /\ DrawingOf(d, s) = Ref(q, w.drawing)
        /\ LegacyDrawingOf(b, s) = Ref(r, w.legacyDrawing)
        /\ LegacyDrawingOf(d, s) = Ref(q, w.legacyDrawing)
    BY RefIs
  <1> HIDE DEF r, q, w
  <1> QED
    BY ONLY <1>2, <1>3, <1>4, RefContinues

\* the other sheets show the same, since no part is two sheets'
LEMMA OthersKept ==
  ASSUME NEW b, FileInv(b, {}), NEW d, FileInv(d, {}), NEW s \in DOMAIN b.Sheet, NEW D, NEW N,
         Follows(b, d, D, N), SheetsBut(b, d, s),
         D \subseteq {DrawingOf(d, s)}, N \subseteq {LegacyDrawingOf(d, s)},
         NEW u \in DOMAIN b.Sheet, u # s
  PROVE  Sight(d, u) = Sight(b, u)
  <1>1. /\ IsFile(d) /\ OwnOK(d) /\ Keeps(b, d, D, N)
        /\ Continues(Content(b, "sheetRels", u), Content(d, "sheetRels", u))
        /\ DOMAIN d.Sheet = DOMAIN b.Sheet /\ d.Sheet[u] = b.Sheet[u]
    BY DEF FileInv, Follows, SheetsBut
  <1>2. DrawingOf(d, u) = DrawingOf(b, u) /\ LegacyDrawingOf(d, u) = LegacyDrawingOf(b, u)
    BY ONLY <1>1, FileInv(b, {}), u \in DOMAIN b.Sheet, RefsKept
  <1>3. /\ DrawingOf(d, u) # 0 => DrawingOf(d, u) # DrawingOf(d, s)
        /\ LegacyDrawingOf(d, u) # 0 => LegacyDrawingOf(d, u) # LegacyDrawingOf(d, s)
    BY <1>1 DEF OwnOK
  <1>4. b.Sheet[u].drawing = 0 \/ DrawingOf(b, u) \in Number
    BY DrawingHere
  <1>5. b.Sheet[u].legacyDrawing = 0 \/ LegacyDrawingOf(b, u) \in Number
    BY LegacyHere
  <1>6. b.Sheet[u].drawing = 0 \/ DrawingOf(b, u) \notin D
    BY <1>2, <1>3, <1>4 DEF Number
  <1>7. b.Sheet[u].legacyDrawing = 0 \/ LegacyDrawingOf(b, u) \notin N
    BY <1>2, <1>3, <1>5 DEF Number
  <1> QED
    BY ONLY <1>1, <1>6, <1>7, FileInv(b, {}), FileInv(d, {}), u \in DOMAIN b.Sheet, SightKept

\* a sheet of which one thing is shown differently
LEMMA SightWith ==
  ASSUME NEW b, NEW d, NEW s, NEW x
  PROVE  /\ /\ ObjectsOf(d, s) = x /\ NotesOf(d, s) = NotesOf(b, s)
            /\ TablesOf(d, s) = TablesOf(b, s) /\ BackOf(d, s) = BackOf(b, s)
            => Sight(d, s) = [Sight(b, s) EXCEPT !.objects = x]
         /\ /\ ObjectsOf(d, s) = ObjectsOf(b, s) /\ NotesOf(d, s) = x
            /\ TablesOf(d, s) = TablesOf(b, s) /\ BackOf(d, s) = BackOf(b, s)
            => Sight(d, s) = [Sight(b, s) EXCEPT !.notes = x]
         /\ /\ ObjectsOf(d, s) = ObjectsOf(b, s) /\ NotesOf(d, s) = NotesOf(b, s)
            /\ TablesOf(d, s) = x /\ BackOf(d, s) = BackOf(b, s)
            => Sight(d, s) = [Sight(b, s) EXCEPT !.tables = x]
         /\ /\ ObjectsOf(d, s) = ObjectsOf(b, s) /\ NotesOf(d, s) = NotesOf(b, s)
            /\ TablesOf(d, s) = TablesOf(b, s) /\ BackOf(d, s) = x
            => Sight(d, s) = [Sight(b, s) EXCEPT !.back = x]
  BY DEF Sight

\* a sequence with one more element
LEMMA AppendIs ==
  ASSUME NEW S, NEW q \in Seq(S), NEW e \in S, NEW p, p = [i \in DOMAIN p |-> p[i]],
         DOMAIN p = 1..(Len(q) + 1), \A i \in DOMAIN q : p[i] = q[i], p[Len(q) + 1] = e
  PROVE  p = Append(q, e)
  <1> DEFINE r == Append(q, e)
             m == Len(q) + 1
  <1>1. r \in Seq(S) /\ Len(r) = m /\ r[m] = e /\ \A i \in 1..Len(q) : r[i] = q[i]
    BY AppendProperties
  <1>2. m \in Nat /\ DOMAIN q = 1..Len(q) /\ \A i \in DOMAIN q : q[i] \in S
    OBVIOUS
  <1>3. \A i \in 1..m : p[i] \in S
    BY <1>2
  <1>4. p \in [1..m -> S]
    BY <1>3
  <1> HIDE DEF r, m
  <1>5. p \in Seq(S) /\ Len(p) = m
    BY <1>2, <1>4
  <1>6. \A i \in 1..m : p[i] = r[i]
    BY <1>1, <1>2 DEF m
  <1>7. p = r
    BY ONLY <1>1, <1>5, <1>6, SeqEqual
  <1> QED
    BY <1>7 DEF r

LEMMA DrawingSound ==
  ASSUME NEW b, FileInv(b, {}), NEW n
  PROVE  /\ Content(b, "drawing", n) \in Seq(Anchors)
         /\ DrawingOK(b, {}, Content(b, "drawing", n), Content(b, "drawingRels", n))
         /\ n \notin PartsOf(b, "drawing") => Content(b, "drawing", n) = << >>
  <1>1. IsFile(b) /\ DrawingsOK(b, {})
    BY DEF FileInv
  <1>2. Content(b, "drawing", n) \in Seq(Anchors)
    BY <1>1, DrawingType
  <1>3. n \notin PartsOf(b, "drawing") => Content(b, "drawing", n) = << >>
    BY DEF PartsOf, Content, Parsed
  <1>4. DrawingOK(b, {}, << >>, Content(b, "drawingRels", n))
    BY DEF DrawingOK
  <1> QED
    BY <1>1, <1>2, <1>3, <1>4 DEF DrawingsOK

\* what a drawing shows
LEMMA ObjectsAtIs ==
  ASSUME NEW b, FileInv(b, {}), NEW n, NEW c, c = Content(b, "drawing", n)
  PROVE  /\ ObjectsAt(b, n) \in Seq(Abstract!Object) /\ Len(ObjectsAt(b, n)) = Len(c)
         /\ DOMAIN ObjectsAt(b, n) = DOMAIN c
         /\ \A i \in DOMAIN c : ObjectsAt(b, n)[i] = ShownIn(b, n, c[i])
  <1> DEFINE p == ObjectsAt(b, n)
             O == Abstract!Object
  <1>1. c \in Seq(Anchors) /\ IsFile(b) /\ DrawingOK(b, {}, c, Content(b, "drawingRels", n))
    BY DrawingSound DEF FileInv
  <1>2. p = [i \in DOMAIN c |-> ShownIn(b, n, c[i])]
    BY DEF ObjectsAt
  <1>3. ASSUME NEW i \in DOMAIN c PROVE ShownIn(b, n, c[i]) \in O
    <2>1. c[i] \in Anchors /\ AnchorOK(b, {}, Content(b, "drawingRels", n), c[i])
      BY <1>1 DEF DrawingOK
    <2> QED
      BY ONLY <1>1, <2>1, ShownType
  <1> HIDE DEF O, p
  <1>4. DOMAIN p = 1..Len(c) /\ (\A i \in DOMAIN c : p[i] \in O) /\ DOMAIN c = 1..Len(c) /\ Len(c) \in Nat
    BY <1>1, <1>2, <1>3
  <1>5. p \in [1..Len(c) -> O]
    BY <1>2, <1>4
  <1>6. p \in Seq(O) /\ Len(p) = Len(c)
    BY <1>4, <1>5
  <1> QED
    BY <1>2, <1>4, <1>6 DEF O, p

\* a drawing with one more anchor shows one more object
LEMMA ObjectAdded ==
  ASSUME NEW b, FileInv(b, {}), NEW d, FileInv(d, {}), NEW D, NEW N, Keeps(b, d, D, N), NEW n,
         NEW a \in Anchors, NEW x \in Seq(Anchors), Akin(Content(b, "drawing", n), x),
         Akin(Append(x, a), Content(d, "drawing", n))
  PROVE  \E o \in Abstract!Object : ObjectsAt(d, n) = Append(ObjectsAt(b, n), o)
  <1> DEFINE c == Content(b, "drawing", n)
             y == Content(d, "drawing", n)
             z == Append(x, a)
             q == ObjectsAt(b, n)
             p == ObjectsAt(d, n)
             O == Abstract!Object
             r == Content(b, "drawingRels", n)
             e == p[Len(q) + 1]
  <1>1. c \in Seq(Anchors) /\ DrawingOK(b, {}, c, r) /\ IsFile(b) /\ y \in Seq(Anchors)
    BY DrawingSound DEF FileInv
  <1>2. /\ q \in Seq(O) /\ Len(q) = Len(c) /\ DOMAIN q = DOMAIN c
        /\ \A i \in DOMAIN c : q[i] = ShownIn(b, n, c[i])
    BY ObjectsAtIs
  <1>3. /\ p \in Seq(O) /\ Len(p) = Len(y) /\ DOMAIN p = DOMAIN y
        /\ \A i \in DOMAIN y : p[i] = ShownIn(d, n, y[i])
    BY ObjectsAtIs
  <1>4. z \in Seq(Anchors) /\ Len(z) = Len(x) + 1 /\ \A i \in 1..Len(x) : z[i] = x[i]
    BY AppendProperties
  <1>5. Akin(c, x) /\ Akin(z, y)
    OBVIOUS
  <1>6. \A i \in DOMAIN c : AnchorOK(b, {}, Content(b, "drawingRels", n), c[i])
    BY <1>1 DEF DrawingOK
  <1> HIDE DEF c, y, z, q, p, O, r
  <1>7. Len(x) = Len(c) /\ DOMAIN c = 1..Len(c) /\ Len(c) \in Nat
    BY ONLY <1>1, <1>5, x \in Seq(Anchors) DEF Akin
  <1>8. Len(y) = Len(c) + 1 /\ DOMAIN y = 1..(Len(c) + 1)
    BY ONLY <1>1, <1>4, <1>5, <1>7 DEF Akin
  <1>9. ASSUME NEW i \in DOMAIN c PROVE p[i] = q[i]
    <2>1. c[i] \in Anchors /\ i \in DOMAIN x /\ i \in 1..Len(x) /\ i \in DOMAIN y /\ i \in DOMAIN z
      BY <1>1, <1>4, <1>7, <1>8
    <2>2. Alike(c[i], x[i]) /\ z[i] = x[i] /\ Alike(z[i], y[i])
      BY <1>4, <1>5, <2>1 DEF Akin
    <2>3. Alike(c[i], y[i])
      BY <2>2 DEF Alike
    <2>4. AnchorOK(b, {}, Content(b, "drawingRels", n), c[i])
      BY <1>6
    <2>5. ShownIn(d, n, y[i]) = ShownIn(b, n, c[i])
      BY ONLY <1>1, <2>1, <2>3, <2>4, Keeps(b, d, D, N), ShownKept
    <2> QED
      BY <1>2, <1>3, <2>1, <2>5
  <1>10. e \in O /\ DOMAIN p = 1..(Len(q) + 1) /\ p = [i \in DOMAIN p |-> p[i]]
    BY <1>2, <1>3, <1>7, <1>8
  <1>11. \A i \in DOMAIN q : p[i] = q[i]
    BY <1>2, <1>9
  <1> HIDE DEF e
  <1>12. p[Len(q) + 1] = e
    BY DEF e
  <1>13. p = Append(q, e)
    BY ONLY <1>2, <1>10, <1>11, <1>12, AppendIs
  <1> QED
    BY <1>10, <1>13, Zenon DEF O, p, q

\* AddShape, AddChart and AddPicture: an object behind the others
LEMMA DrawsSeen ==
  ASSUME NEW b, FileInv(b, {}), NEW d, FileInv(d, {}), NEW s \in DOMAIN b.Sheet,
         NEW n, NEW a, Draws(b, d, s, n, a)
  PROVE  /\ Abstract!AddObject(Sight(b, s), Sight(d, s))
         /\ \A u \in DOMAIN b.Sheet : u # s => Sight(d, u) = Sight(b, u)
  <1>1. /\ Follows(b, d, {n}, {}) /\ SheetsBut(b, d, s) /\ DrawingOf(d, s) = n /\ a \in Anchors
        /\ d.Sheet[s].drawing # 0 /\ d.Sheet[s].legacyDrawing = b.Sheet[s].legacyDrawing
        /\ d.Sheet[s].picture = b.Sheet[s].picture /\ d.Sheet[s].tableParts = b.Sheet[s].tableParts
        /\ IF b.Sheet[s].drawing = 0 THEN n \notin PartsOf(b, "drawing") ELSE n = DrawingOf(b, s)
    BY DEF Draws, DrawingReady
  <1>2. PICK x \in Seq(Anchors) : /\ Akin(Content(b, "drawing", n), x)
                                  /\ Akin(Append(x, a), Content(d, "drawing", n))
    BY DEF Draws
  <1>3. /\ Keeps(b, d, {n}, {}) /\ s \in DOMAIN d.Sheet
        /\ Continues(Content(b, "sheetRels", s), Content(d, "sheetRels", s))
    BY <1>1 DEF Follows, SheetsBut
  <1>4. ASSUME NEW u \in DOMAIN b.Sheet, u # s PROVE Sight(d, u) = Sight(b, u)
    <2>1. {n} \subseteq {DrawingOf(d, s)} /\ {} \subseteq {LegacyDrawingOf(d, s)}
      BY <1>1
    <2> QED
      BY ONLY <1>1, <1>4, <2>1, FileInv(b, {}), FileInv(d, {}), s \in DOMAIN b.Sheet, OthersKept
  <1>5. PICK o \in Abstract!Object : ObjectsAt(d, n) = Append(ObjectsAt(b, n), o)
    BY ONLY <1>1, <1>2, <1>3, FileInv(b, {}), FileInv(d, {}), ObjectAdded
  <1>6. ObjectsOf(b, s) = ObjectsAt(b, n)
    <2>1. CASE b.Sheet[s].drawing = 0
      <3>1. Content(b, "drawing", n) = << >>
        BY <1>1, <2>1, DrawingSound
      <3>2. ObjectsAt(b, n) \in Seq(Abstract!Object) /\ Len(ObjectsAt(b, n)) = Len(<< >>)
        BY <3>1, ObjectsAtIs
      <3>3. ObjectsAt(b, n) = << >>
        <4> HIDE DEF Abstract!Object
        <4> QED
          BY ONLY <3>2
      <3> QED
        BY <2>1, <3>3 DEF ObjectsOf
    <2>2. CASE b.Sheet[s].drawing # 0
      BY <1>1, <2>2 DEF ObjectsOf
    <2> QED
      BY <2>1, <2>2
  <1>7. ObjectsOf(d, s) = Append(ObjectsOf(b, s), o)
    BY <1>1, <1>5, <1>6 DEF ObjectsOf
  <1>8. NotesOf(d, s) = NotesOf(b, s)
    BY ONLY <1>1, <1>3, FileInv(b, {}), FileInv(d, {}), s \in DOMAIN b.Sheet, NotesKept
  <1>9. TablesOf(d, s) = TablesOf(b, s)
    BY ONLY <1>1, <1>3, FileInv(b, {}), s \in DOMAIN b.Sheet, TablesKept
  <1>10. BackOf(d, s) = BackOf(b, s)
    BY ONLY <1>1, <1>3, FileInv(b, {}), s \in DOMAIN b.Sheet, BackKept
  <1>11. Sight(d, s) = [Sight(b, s) EXCEPT !.objects = Append(@, o)]
    <2> DEFINE z == Append(Sight(b, s).objects, o)
    <2>1. ObjectsOf(d, s) = z
      BY <1>7 DEF Sight
    <2> HIDE DEF z
    <2>2. Sight(d, s) = [Sight(b, s) EXCEPT !.objects = z]
      BY ONLY <1>8, <1>9, <1>10, <2>1, SightWith
    <2> QED
      BY <2>2 DEF z
  <1>12. Abstract!AddObject(Sight(b, s), Sight(d, s))
    BY <1>11, Zenon DEF Abstract!AddObject
  <1> QED
    BY <1>4, <1>12

\* AddComment: a note behind the others
LEMMA AnnotatesSeen ==
  ASSUME NEW b, FileInv(b, {}), NEW d, FileInv(d, {}), NEW s \in DOMAIN b.Sheet,
         NEW n, NEW note, Annotates(b, d, s, n, note)
  PROVE  /\ Abstract!AddNote(Sight(b, s), Sight(d, s))
         /\ \A u \in DOMAIN b.Sheet : u # s => Sight(d, u) = Sight(b, u)
  <1>1. /\ Follows(b, d, {}, {n}) /\ SheetsBut(b, d, s) /\ LegacyDrawingOf(d, s) = n
        /\ note \in [cell : Cells, text : Texts]
        /\ Content(d, "comments", n) = Append(Content(b, "comments", n), note)
        /\ d.Sheet[s].legacyDrawing # 0 /\ d.Sheet[s].drawing = b.Sheet[s].drawing
        /\ d.Sheet[s].picture = b.Sheet[s].picture /\ d.Sheet[s].tableParts = b.Sheet[s].tableParts
        /\ IF b.Sheet[s].legacyDrawing = 0 THEN n \notin PartsOf(b, "comments")
           ELSE n = LegacyDrawingOf(b, s)
    BY DEF Annotates, CommentsReady
  <1>2. /\ Keeps(b, d, {}, {n}) /\ s \in DOMAIN d.Sheet
        /\ Continues(Content(b, "sheetRels", s), Content(d, "sheetRels", s))
    BY <1>1 DEF Follows, SheetsBut
  <1>3. ASSUME NEW u \in DOMAIN b.Sheet, u # s PROVE Sight(d, u) = Sight(b, u)
    <2>1. {} \subseteq {DrawingOf(d, s)} /\ {n} \subseteq {LegacyDrawingOf(d, s)}
      BY <1>1
    <2> QED
      BY ONLY <1>1, <1>3, <2>1, FileInv(b, {}), FileInv(d, {}), s \in DOMAIN b.Sheet, OthersKept
  <1>4. NotesOf(b, s) = Content(b, "comments", n)
    <2>1. CASE b.Sheet[s].legacyDrawing = 0
      <3>1. Content(b, "comments", n) = << >>
        BY <1>1, <2>1 DEF PartsOf, Content, Parsed
      <3> QED
        BY <2>1, <3>1, NotesAre
    <2>2. CASE b.Sheet[s].legacyDrawing # 0
      BY <1>1, <2>2, NotesAre
    <2> QED
      BY <2>1, <2>2
  <1>5. NotesOf(d, s) = Content(d, "comments", n)
    BY <1>1, <1>2, NotesAre
  <1>6. NotesOf(d, s) = Append(NotesOf(b, s), note)
    BY <1>1, <1>4, <1>5
  <1>7. IsFile(d) /\ (b.Sheet[s].drawing = 0 \/ DrawingOf(b, s) \notin {})
    BY DEF FileInv
  <1>8. ObjectsOf(d, s) = ObjectsOf(b, s)
    BY ONLY <1>1, <1>2, <1>7, FileInv(b, {}), s \in DOMAIN b.Sheet, ObjectsKept
  <1>9. TablesOf(d, s) = TablesOf(b, s)
    BY ONLY <1>1, <1>2, FileInv(b, {}), s \in DOMAIN b.Sheet, TablesKept
  <1>10. BackOf(d, s) = BackOf(b, s)
    BY ONLY <1>1, <1>2, FileInv(b, {}), s \in DOMAIN b.Sheet, BackKept
  <1>11. Sight(d, s) = [Sight(b, s) EXCEPT !.notes = Append(@, note)]
    <2> DEFINE z == Append(Sight(b, s).notes, note)
    <2>1. NotesOf(d, s) = z
      BY <1>6 DEF Sight
    <2> HIDE DEF z
    <2>2. Sight(d, s) = [Sight(b, s) EXCEPT !.notes = z]
      BY ONLY <1>8, <1>9, <1>10, <2>1, SightWith
    <2> QED
      BY <2>2 DEF z
  <1>12. Abstract!AddNote(Sight(b, s), Sight(d, s))
    BY <1>1, <1>11, Zenon DEF Abstract!AddNote, Abstract!Note
  <1> QED
    BY <1>3, <1>12

\* AddTable: a table behind the others
LEMMA TabulatesSeen ==
  ASSUME NEW b, FileInv(b, {}), NEW d, FileInv(d, {}), NEW s \in DOMAIN b.Sheet,
         NEW rid, Tabulates(b, d, s, rid)
  PROVE  /\ Abstract!AddTable(Sight(b, s), Sight(d, s))
         /\ \A u \in DOMAIN b.Sheet : u # s => Sight(d, u) = Sight(b, u)
  <1> DEFINE x == b.Sheet[s].tableParts
             y == d.Sheet[s].tableParts
             q == TablesOf(b, s)
             p == TablesOf(d, s)
             e == TableAt(d, s, rid)
  <1>1. /\ Follows(b, d, {}, {}) /\ SheetsBut(b, d, s) /\ d.Sheet[s].drawing = b.Sheet[s].drawing
        /\ d.Sheet[s].legacyDrawing = b.Sheet[s].legacyDrawing
        /\ d.Sheet[s].picture = b.Sheet[s].picture /\ y = Append(x, rid) /\ rid \in Number
    BY DEF Tabulates
  <1>2. /\ Keeps(b, d, {}, {}) /\ s \in DOMAIN d.Sheet
        /\ Continues(Content(b, "sheetRels", s), Content(d, "sheetRels", s))
    BY <1>1 DEF Follows, SheetsBut
  <1>3. ASSUME NEW u \in DOMAIN b.Sheet, u # s PROVE Sight(d, u) = Sight(b, u)
    <2>1. {} \subseteq {DrawingOf(d, s)} /\ {} \subseteq {LegacyDrawingOf(d, s)}
      OBVIOUS
    <2> QED
      BY ONLY <1>1, <1>3, <2>1, FileInv(b, {}), FileInv(d, {}), s \in DOMAIN b.Sheet, OthersKept
  <1>4. /\ IsFile(b) /\ IsFile(d)
        /\ \A i \in DOMAIN x : LeadsTo(b, {}, Content(b, "sheetRels", s), x[i], "table")
        /\ \A i \in DOMAIN y : LeadsTo(d, {}, Content(d, "sheetRels", s), y[i], "table")
    BY <1>2 DEF FileInv, SheetsOK, SheetOK
  <1>5. x \in Seq(Number)
    <2>1. IsSheets(b.Sheet)
      BY <1>4, FileFields
    <2>2. b.Sheet[s] \in Worksheets
      BY <2>1 DEF IsSheets
    <2> QED
      BY <2>2 DEF Worksheets, Number
  <1>6. /\ q = [i \in DOMAIN x |-> TableAt(b, s, x[i])]
        /\ p = [i \in DOMAIN y |-> TableAt(d, s, y[i])]
    BY DEF TablesOf
  <1> HIDE DEF x, y, q, p
  <1>7. /\ y \in Seq(Number) /\ Len(y) = Len(x) + 1 /\ y[Len(x) + 1] = rid
        /\ \A i \in 1..Len(x) : y[i] = x[i]
    BY ONLY <1>1, <1>5, AppendProperties
  <1>8. DOMAIN x = 1..Len(x) /\ DOMAIN y = 1..(Len(x) + 1) /\ Len(x) \in Nat
    BY ONLY <1>5, <1>7
  <1>9. ASSUME NEW r, NEW i, LeadsTo(b, {}, r, i, "table") \/ LeadsTo(d, {}, r, i, "table")
        PROVE  /\ LeadsTo(b, {}, r, i, "table") => b.XLSX["table"][r[i].target] \in Tables
               /\ LeadsTo(d, {}, r, i, "table") => d.XLSX["table"][r[i].target] \in Tables
    BY ONLY <1>4, PointsTo
  <1>10. \A i \in DOMAIN x : TableAt(b, s, x[i]) \in Tables
    BY <1>4, <1>9 DEF TableAt
  <1>11. \A i \in DOMAIN y : TableAt(d, s, y[i]) \in Tables
    BY <1>4, <1>9 DEF TableAt
  <1>12. q \in Seq(Tables) /\ Len(q) = Len(x) /\ DOMAIN q = DOMAIN x
    <2>1. q \in [1..Len(x) -> Tables]
      BY ONLY <1>6, <1>8, <1>10
    <2> QED
      BY ONLY <1>8, <2>1
  <1>13. ASSUME NEW i \in DOMAIN x PROVE p[i] = q[i]
    <2>1. TableAt(d, s, x[i]) = TableAt(b, s, x[i])
      BY ONLY <1>2, <1>4, i \in DOMAIN x, TableKept
    <2> QED
      BY <1>6, <1>7, <1>8, <2>1
  <1>14. /\ p = [i \in DOMAIN p |-> p[i]] /\ DOMAIN p = 1..(Len(q) + 1)
         /\ p[Len(q) + 1] = e /\ e \in Tables
    BY <1>6, <1>7, <1>8, <1>11, <1>12
  <1>15. \A i \in DOMAIN q : p[i] = q[i]
    BY <1>12, <1>13
  <1> HIDE DEF e
  <1>16. p = Append(q, e)
    BY ONLY <1>12, <1>14, <1>15, AppendIs
  <1>17. /\ b.Sheet[s].drawing = 0 \/ DrawingOf(b, s) \notin {}
         /\ b.Sheet[s].legacyDrawing = 0 \/ LegacyDrawingOf(b, s) \notin {}
    OBVIOUS
  <1>18. ObjectsOf(d, s) = ObjectsOf(b, s)
    BY ONLY <1>1, <1>2, <1>4, <1>17, FileInv(b, {}), s \in DOMAIN b.Sheet, ObjectsKept
  <1>19. NotesOf(d, s) = NotesOf(b, s)
    BY ONLY <1>1, <1>2, <1>17, FileInv(b, {}), FileInv(d, {}), s \in DOMAIN b.Sheet, NotesKept
  <1>20. BackOf(d, s) = BackOf(b, s)
    BY ONLY <1>1, <1>2, FileInv(b, {}), s \in DOMAIN b.Sheet, BackKept
  <1>21. Sight(d, s) = [Sight(b, s) EXCEPT !.tables = Append(@, e)]
    <2> DEFINE z == Append(Sight(b, s).tables, e)
    <2>1. TablesOf(d, s) = z
      BY <1>16 DEF Sight, p, q
    <2> HIDE DEF z
    <2>2. Sight(d, s) = [Sight(b, s) EXCEPT !.tables = z]
      BY ONLY <1>18, <1>19, <1>20, <2>1, SightWith
    <2> QED
      BY <2>2 DEF z
  <1>22. Abstract!AddTable(Sight(b, s), Sight(d, s))
    BY <1>14, <1>21, Zenon DEF Abstract!AddTable
  <1> QED
    BY <1>3, <1>22

\* SetSheetBackground: another background
LEMMA CoversSeen ==
  ASSUME NEW b, FileInv(b, {}), NEW d, FileInv(d, {}), NEW s \in DOMAIN b.Sheet, Covers(b, d, s)
  PROVE  /\ Abstract!SetBackground(Sight(b, s), Sight(d, s))
         /\ \A u \in DOMAIN b.Sheet : u # s => Sight(d, u) = Sight(b, u)
  <1> DEFINE rid == d.Sheet[s].picture
             e == ImageAt(d, s, rid)
  <1>1. /\ Follows(b, d, {}, {}) /\ SheetsBut(b, d, s) /\ d.Sheet[s].drawing = b.Sheet[s].drawing
        /\ d.Sheet[s].legacyDrawing = b.Sheet[s].legacyDrawing
        /\ d.Sheet[s].tableParts = b.Sheet[s].tableParts /\ rid # 0
    BY DEF Covers
  <1>2. /\ Keeps(b, d, {}, {}) /\ s \in DOMAIN d.Sheet
        /\ Continues(Content(b, "sheetRels", s), Content(d, "sheetRels", s))
    BY <1>1 DEF Follows, SheetsBut
  <1>3. ASSUME NEW u \in DOMAIN b.Sheet, u # s PROVE Sight(d, u) = Sight(b, u)
    <2>1. {} \subseteq {DrawingOf(d, s)} /\ {} \subseteq {LegacyDrawingOf(d, s)}
      OBVIOUS
    <2> QED
      BY ONLY <1>1, <1>3, <2>1, FileInv(b, {}), FileInv(d, {}), s \in DOMAIN b.Sheet, OthersKept
  <1>4. IsFile(d) /\ LeadsTo(d, {}, Content(d, "sheetRels", s), rid, "image")
    BY <1>1, <1>2 DEF FileInv, SheetsOK, SheetOK
  <1>5. e \in Images
    <2>1. d.XLSX["media"][Content(d, "sheetRels", s)[rid].target] \in Images
      BY ONLY <1>4, PointsTo
    <2> QED
      BY <2>1 DEF ImageAt
  <1>6. BackOf(d, s) = <<e>>
    BY <1>1 DEF BackOf
  <1> HIDE DEF e
  <1>7. /\ b.Sheet[s].drawing = 0 \/ DrawingOf(b, s) \notin {}
        /\ b.Sheet[s].legacyDrawing = 0 \/ LegacyDrawingOf(b, s) \notin {}
    OBVIOUS
  <1>8. ObjectsOf(d, s) = ObjectsOf(b, s)
    BY ONLY <1>1, <1>2, <1>4, <1>7, FileInv(b, {}), s \in DOMAIN b.Sheet, ObjectsKept
  <1>9. NotesOf(d, s) = NotesOf(b, s)
    BY ONLY <1>1, <1>2, <1>7, FileInv(b, {}), FileInv(d, {}), s \in DOMAIN b.Sheet, NotesKept
  <1>10. TablesOf(d, s) = TablesOf(b, s)
    BY ONLY <1>1, <1>2, FileInv(b, {}), s \in DOMAIN b.Sheet, TablesKept
  <1>11. Sight(d, s) = [Sight(b, s) EXCEPT !.back = <<e>>]
    BY ONLY <1>6, <1>8, <1>9, <1>10, SightWith
  <1>12. Abstract!SetBackground(Sight(b, s), Sight(d, s))
    BY <1>5, <1>11, Zenon DEF Abstract!SetBackground
  <1> QED
    BY <1>3, <1>12

\* what every sheet shows, and the steps of module Gallery
View(b) == [s \in DOMAIN b.Sheet |-> Sight(b, s)]
OneChanged(x, y, s) ==
  /\ \/ Abstract!AddObject(x[s], y[s]) \/ Abstract!AddNote(x[s], y[s])
     \/ Abstract!AddTable(x[s], y[s]) \/ Abstract!SetBackground(x[s], y[s])
  /\ \A u \in DOMAIN x \ {s} : y[u] = x[u]
OneFewer(x, y, s) == DOMAIN x # {s} /\ y = [u \in DOMAIN x \ {s} |-> x[u]]
OneMore(x, y, s) ==
  /\ \A u \in DOMAIN x : u < s
  /\ y = [u \in DOMAIN x \cup {s} |-> IF u = s THEN Abstract!Empty ELSE x[u]]
GalleryStep(x, y) == \/ DOMAIN y = DOMAIN x /\ \E s \in DOMAIN x : OneChanged(x, y, s)
                     \/ \E s \in DOMAIN x : OneFewer(x, y, s)
                     \/ \E s \in 1..MaxSheet : OneMore(x, y, s)

LEMMA ViewIs ==
  ASSUME NEW b
  PROVE  DOMAIN View(b) = DOMAIN b.Sheet /\ \A s \in DOMAIN b.Sheet : View(b)[s] = Sight(b, s)
  BY DEF View

\* a call on one sheet
LEMMA OneSeen ==
  ASSUME NEW b, NEW d, NEW s \in DOMAIN b.Sheet, DOMAIN d.Sheet = DOMAIN b.Sheet,
         \/ Abstract!AddObject(Sight(b, s), Sight(d, s)) \/ Abstract!AddNote(Sight(b, s), Sight(d, s))
         \/ Abstract!AddTable(Sight(b, s), Sight(d, s))
         \/ Abstract!SetBackground(Sight(b, s), Sight(d, s)),
         \A u \in DOMAIN b.Sheet : u # s => Sight(d, u) = Sight(b, u)
  PROVE  GalleryStep(View(b), View(d))
  <1> DEFINE x == View(b)
             y == View(d)
  <1>1. DOMAIN x = DOMAIN b.Sheet /\ \A u \in DOMAIN b.Sheet : x[u] = Sight(b, u)
    BY ViewIs
  <1>2. DOMAIN y = DOMAIN b.Sheet /\ \A u \in DOMAIN b.Sheet : y[u] = Sight(d, u)
    BY ViewIs
  <1> HIDE DEF x, y
  <1>3. OneChanged(x, y, s)
    <2>1. x[s] = Sight(b, s) /\ y[s] = Sight(d, s)
      BY <1>1, <1>2
    <2>2. \A u \in DOMAIN x \ {s} : y[u] = x[u]
      BY <1>1, <1>2
    <2>3. \/ Abstract!AddObject(x[s], y[s]) \/ Abstract!AddNote(x[s], y[s])
          \/ Abstract!AddTable(x[s], y[s]) \/ Abstract!SetBackground(x[s], y[s])
      BY <2>1, Zenon
    <2> QED
      BY <2>2, <2>3, Zenon DEF OneChanged
  <1> QED
    BY <1>1, <1>2, <1>3, Zenon DEF GalleryStep, x, y

\* reading, saving and opening
LEMMA SameSeen ==
  ASSUME NEW b, FileInv(b, {}), NEW d, FileInv(d, {}), Same(b, d)
  PROVE  View(d) = View(b)
  <1>1. Keeps(b, d, {}, {}) /\ d.Sheet = b.Sheet
    BY DEF Same, Follows
  <1>2. \A s : Continues(Content(b, "sheetRels", s), Content(d, "sheetRels", s))
    BY DEF Same, Follows
  <1>3. ASSUME NEW s \in DOMAIN b.Sheet PROVE Sight(d, s) = Sight(b, s)
    <2>1. /\ s \in DOMAIN d.Sheet /\ d.Sheet[s] = b.Sheet[s]
          /\ b.Sheet[s].drawing = 0 \/ DrawingOf(b, s) \notin {}
          /\ b.Sheet[s].legacyDrawing = 0 \/ LegacyDrawingOf(b, s) \notin {}
      BY <1>1
    <2>2. Continues(Content(b, "sheetRels", s), Content(d, "sheetRels", s))
      BY <1>2
    <2> QED
      BY ONLY <1>1, <2>1, <2>2, FileInv(b, {}), FileInv(d, {}), s \in DOMAIN b.Sheet, SightKept
  <1> QED
    BY <1>1, <1>3 DEF View

\* NewSheet: the number may have been another sheet's, nothing of it is shown
LEMMA MoreSeen ==
  ASSUME NEW b, FileInv(b, {}), NEW d, FileInv(d, {}), NEW n, AddsSheet(b, d, n)
  PROVE  GalleryStep(View(b), View(d))
  <1> DEFINE x == View(b)
             y == View(d)
             S == DOMAIN b.Sheet
  <1>1. /\ Keeps(b, d, {}, {}) /\ d.Sheet = Put(b.Sheet, n, NewWorksheet)
        /\ n \in 1..MaxSheet /\ \A u \in S : u < n
    BY DEF AddsSheet, Follows
  <1>2. \A s : Continues(Content(b, "sheetRels", s), Content(d, "sheetRels", s))
    BY DEF AddsSheet, Follows
  <1>3. S \subseteq 1..MaxSheet /\ IsFile(d) /\ MaxSheet \in Nat
    BY FileFields, PackageAssumption DEF FileInv, IsSheets
  <1>4. n \notin S
    BY <1>1, <1>3
  <1>5. /\ DOMAIN d.Sheet = S \cup {n} /\ d.Sheet[n] = NewWorksheet
        /\ \A u \in S : d.Sheet[u] = b.Sheet[u]
    <2>1. IsPut(d.Sheet, b.Sheet, n, NewWorksheet)
      BY <1>1, PutIs
    <2> QED
      BY <1>4, <2>1 DEF IsPut
  <1>6. ASSUME NEW s \in S PROVE Sight(d, s) = Sight(b, s)
    <2>1. /\ s \in DOMAIN d.Sheet /\ d.Sheet[s] = b.Sheet[s]
          /\ b.Sheet[s].drawing = 0 \/ DrawingOf(b, s) \notin {}
          /\ b.Sheet[s].legacyDrawing = 0 \/ LegacyDrawingOf(b, s) \notin {}
      BY <1>5
    <2>2. Continues(Content(b, "sheetRels", s), Content(d, "sheetRels", s))
      BY <1>2
    <2> QED
      BY ONLY <1>1, <2>1, <2>2, FileInv(b, {}), FileInv(d, {}), s \in S, SightKept
  <1>7. Sight(d, n) = Abstract!Empty
    <2>1. /\ d.Sheet[n].drawing = 0 /\ d.Sheet[n].legacyDrawing = 0 /\ d.Sheet[n].picture = 0
          /\ d.Sheet[n].tableParts = << >>
      BY <1>5 DEF NewWorksheet
    <2>2. ObjectsOf(d, n) = << >> /\ BackOf(d, n) = << >>
      BY <2>1 DEF ObjectsOf, BackOf
    <2>3. NotesOf(d, n) = << >>
      BY <1>5, <2>1, NotesAre
    <2>4. TablesOf(d, n) = << >>
      BY <2>1 DEF TablesOf
    <2> QED
      BY ONLY <2>2, <2>3, <2>4 DEF Sight, Abstract!Empty
  <1>8. DOMAIN x = S /\ \A u \in S : x[u] = Sight(b, u)
    BY ViewIs
  <1>9. y = [u \in S \cup {n} |-> Sight(d, u)]
    BY <1>5 DEF View
  <1> HIDE DEF x, y, S
  <1>10. y = [u \in DOMAIN x \cup {n} |-> IF u = n THEN Abstract!Empty ELSE x[u]]
    BY ONLY <1>6, <1>7, <1>8, <1>9
  <1>11. OneMore(x, y, n)
    BY <1>1, <1>8, <1>10, Zenon DEF OneMore
  <1> QED
    BY <1>1, <1>11, Zenon DEF GalleryStep, x, y

LEMMA FewerSeen ==
  ASSUME NEW b, FileInv(b, {}), NEW d, FileInv(d, {}), NEW s \in DOMAIN b.Sheet, LosesSheet(b, d, s)
  PROVE  GalleryStep(View(b), View(d))
  <1> DEFINE x == View(b)
             y == View(d)
             S == DOMAIN b.Sheet
  <1>1. /\ Keeps(b, d, {}, {}) /\ d.Sheet = Del(b.Sheet, s)
        /\ \A u : u # s => Content(d, "sheetRels", u) = Content(b, "sheetRels", u)
    BY DEF LosesSheet
  <1>2. DOMAIN d.Sheet = S \ {s} /\ \A u \in S \ {s} : d.Sheet[u] = b.Sheet[u]
    <2>1. IsDel(d.Sheet, b.Sheet, s)
      BY <1>1, DelIs
    <2> QED
      BY <2>1 DEF IsDel
  <1>3. S # {s}
    <2>1. DOMAIN d.Sheet # {}
      BY FileFields DEF FileInv, IsSheets
    <2> QED
      BY <1>2, <2>1
  <1>4. ASSUME NEW u \in S \ {s} PROVE Sight(d, u) = Sight(b, u)
    <2>1. /\ u \in DOMAIN d.Sheet /\ d.Sheet[u] = b.Sheet[u] /\ u \in DOMAIN b.Sheet
          /\ b.Sheet[u].drawing = 0 \/ DrawingOf(b, u) \notin {}
          /\ b.Sheet[u].legacyDrawing = 0 \/ LegacyDrawingOf(b, u) \notin {}
      BY <1>2
    <2>2. Continues(Content(b, "sheetRels", u), Content(d, "sheetRels", u))
      BY <1>1, ContinuesSelf
    <2> QED
      BY ONLY <1>1, <2>1, <2>2, FileInv(b, {}), FileInv(d, {}), SightKept
  <1>5. DOMAIN x = S /\ \A u \in S : x[u] = Sight(b, u)
    BY ViewIs
  <1>6. y = [u \in S \ {s} |-> Sight(d, u)]
    BY <1>2 DEF View
  <1>7. s \in S
    OBVIOUS
  <1> HIDE DEF x, y, S
  <1>8. y = [u \in DOMAIN x \ {s} |-> x[u]]
    BY ONLY <1>4, <1>5, <1>6
  <1>9. OneFewer(x, y, s)
    BY <1>3, <1>5, <1>8, Zenon DEF OneFewer
  <1> QED
    BY <1>5, <1>7, <1>9, Zenon DEF GalleryStep, x, y

\* Every call is a step of the gallery, or shows nothing differently.
LEMMA TurnsSeen ==
  ASSUME NEW b, FileInv(b, {}), NEW d, FileInv(d, {}), Turns(b, d)
  PROVE  View(d) = View(b) \/ GalleryStep(View(b), View(d))
  <1>1. CASE Same(b, d)
    BY <1>1, SameSeen
  <1>2. ASSUME NEW s \in DOMAIN b.Sheet, NEW n, NEW a, Draws(b, d, s, n, a)
        PROVE  GalleryStep(View(b), View(d))
    <2>1. /\ Abstract!AddObject(Sight(b, s), Sight(d, s))
          /\ \A u \in DOMAIN b.Sheet : u # s => Sight(d, u) = Sight(b, u)
      BY <1>2, DrawsSeen
    <2>2. DOMAIN d.Sheet = DOMAIN b.Sheet
      BY <1>2 DEF Draws, DrawingReady, SheetsBut
    <2> QED
      BY <2>1, <2>2, OneSeen
  <1>3. ASSUME NEW s \in DOMAIN b.Sheet, NEW n, NEW note, Annotates(b, d, s, n, note)
        PROVE  GalleryStep(View(b), View(d))
    <2>1. /\ Abstract!AddNote(Sight(b, s), Sight(d, s))
          /\ \A u \in DOMAIN b.Sheet : u # s => Sight(d, u) = Sight(b, u)
      BY <1>3, AnnotatesSeen
    <2>2. DOMAIN d.Sheet = DOMAIN b.Sheet
      BY <1>3 DEF Annotates, CommentsReady, SheetsBut
    <2> QED
      BY <2>1, <2>2, OneSeen
  <1>4. ASSUME NEW s \in DOMAIN b.Sheet, NEW rid, Tabulates(b, d, s, rid)
        PROVE  GalleryStep(View(b), View(d))
    <2>1. /\ Abstract!AddTable(Sight(b, s), Sight(d, s))
          /\ \A u \in DOMAIN b.Sheet : u # s => Sight(d, u) = Sight(b, u)
      BY <1>4, TabulatesSeen
    <2>2. DOMAIN d.Sheet = DOMAIN b.Sheet
      BY <1>4 DEF Tabulates, SheetsBut
    <2> QED
      BY <2>1, <2>2, OneSeen
  <1>5. ASSUME NEW s \in DOMAIN b.Sheet, Covers(b, d, s)
        PROVE  GalleryStep(View(b), View(d))
    <2>1. /\ Abstract!SetBackground(Sight(b, s), Sight(d, s))
          /\ \A u \in DOMAIN b.Sheet : u # s => Sight(d, u) = Sight(b, u)
      BY <1>5, CoversSeen
    <2>2. DOMAIN d.Sheet = DOMAIN b.Sheet
      BY <1>5 DEF Covers, SheetsBut
    <2> QED
      BY <2>1, <2>2, OneSeen
  <1>6. ASSUME NEW s \in DOMAIN b.Sheet, LosesSheet(b, d, s) PROVE GalleryStep(View(b), View(d))
    BY <1>6, FewerSeen
  <1>7. ASSUME NEW n, AddsSheet(b, d, n) PROVE GalleryStep(View(b), View(d))
    BY <1>7, MoreSeen
  <1> QED
    BY <1>1, <1>2, <1>3, <1>4, <1>5, <1>6, <1>7, Zenon DEF Turns

\* Part numbers, relationships and content types are a way to keep, for every
\* sheet, the objects, comments, tables and background put on it: each call of
\* AddShape, AddChart, AddPicture, AddComment, AddTable and SetSheetBackground
\* adds what it was given to its own sheet and disturbs no other, a new sheet is
\* empty whatever a deleted one of its number left, and reading, saving and
\* opening show nothing differently.
THEOREM GalleryImplemented == Spec => ImplementsGallery
  <1> DEFINE v == [s \in DOMAIN f.Sheet |-> SeenOn(s)]
  <1>1. v = View(f)
    BY DEF SeenOn, Objects, Shown, View, Sight, ObjectsOf, ObjectsAt, ShownIn, NotesOf, TablesOf,
           TableAt, BackOf, ImageAt
  <1>2. v' = View(f')
    BY DEF SeenOn, Objects, Shown, View, Sight, ObjectsOf, ObjectsAt, ShownIn, NotesOf, TablesOf,
           TableAt, BackOf, ImageAt
  <1>3. Init => Abstract!Init
    <2> SUFFICES ASSUME Init PROVE Abstract!Init
      OBVIOUS
    <2>1. IsNew(f) /\ FileInv(f, {})
      BY NewFilesAssumption, NewFileOK DEF Init
    <2>2. /\ DOMAIN f.Sheet \subseteq 1..MaxSheet /\ DOMAIN f.Sheet # {}
          /\ \A s \in DOMAIN f.Sheet : f.Sheet[s] = NewWorksheet
      BY <2>1 DEF IsNew
    <2>3. ASSUME NEW s \in DOMAIN f.Sheet PROVE Sight(f, s) = Abstract!Empty
      <3>1. /\ f.Sheet[s].drawing = 0 /\ f.Sheet[s].legacyDrawing = 0 /\ f.Sheet[s].picture = 0
            /\ f.Sheet[s].tableParts = << >>
        BY <2>2 DEF NewWorksheet
      <3>2. ObjectsOf(f, s) = << >> /\ BackOf(f, s) = << >>
        BY <3>1 DEF ObjectsOf, BackOf
      <3>3. NotesOf(f, s) = << >>
        BY <2>1, <3>1, NotesAre
      <3>4. TablesOf(f, s) = << >>
        BY <3>1 DEF TablesOf
      <3> QED
        BY ONLY <3>2, <3>3, <3>4 DEF Sight, Abstract!Empty
    <2>4. DOMAIN v = DOMAIN f.Sheet /\ \A s \in DOMAIN f.Sheet : v[s] = Abstract!Empty
      <3> HIDE DEF v
      <3> QED
        BY ONLY <1>1, <2>3, ViewIs
    <2>5. /\ DOMAIN v \subseteq 1..MaxSheet /\ DOMAIN v # {}
          /\ \A s \in DOMAIN v : v[s] = Abstract!Empty
      <3> HIDE DEF v
      <3> QED
        BY <2>2, <2>4
    <2> QED
      BY <2>5, Zenon DEF Abstract!Init, Abstract!Numbers
  <1>4. PackageInv /\ [Next]_vars => [Abstract!Next]_v
    <2> SUFFICES ASSUME PackageInv, [Next]_vars PROVE [Abstract!Next]_v
      OBVIOUS
    <2>1. CASE UNCHANGED vars
      <3>1. f' = f
        BY <2>1 DEF vars
      <3>2. v' = v
        <4> HIDE DEF v
        <4> QED
          BY <1>1, <1>2, <3>1
      <3> QED
        BY <3>2
    <2>2. CASE Next
      <3>1. PackageInv' /\ Turns(f, f')
        BY <2>2, PackageTurns
      <3>2. FileInv(f, {}) /\ FileInv(f', {})
        BY <3>1 DEF PackageInv
      <3>3. View(f') = View(f) \/ GalleryStep(View(f), View(f'))
        BY ONLY <3>1, <3>2, TurnsSeen
      <3>4. v' = v \/ GalleryStep(v, v')
        <4> HIDE DEF v
        <4> QED
          BY ONLY <1>1, <1>2, <3>3
      <3>5. GalleryStep(v, v') => Abstract!Next
        BY Zenon DEF GalleryStep, OneChanged, OneFewer, OneMore, Abstract!Next, Abstract!Numbers,
                     Abstract!OneSheet, Abstract!DeleteSheet, Abstract!NewSheet
      <3> QED
        BY <3>4, <3>5
    <2> QED
      BY <2>1, <2>2
  <1> QED
    BY <1>3, <1>4, PackageInvHolds, PTL DEF Spec, ImplementsGallery, Abstract!Spec
=============================================================================
