# A TLA+ model of excelize

excelize is a Go library that reads, changes and writes XLSX workbooks. A `File`
is a handle on one workbook: the parts of the zip package as bytes (`File.XLSX`)
and a set of caches of parsed parts (`File.Sheet`, `WorkBook`, `WorkBookRels`,
`ContentTypes`, `WorkSheetRels`, `Drawings`, ...) that the operations change and
`Save` writes back. The library is sequential: it starts no goroutine and takes no
lock, and a caller must not share a `File` between goroutines. What makes it hard is not
concurrency but long sequences of legal calls over structures that have to agree:
rows found by position and by number, sheets found by three different keys, parts
and relationships numbered by counting, formula objects shared by pointer, slices
deleted from while they are ranged over, and parsed and stored copies of one part.

## Inventory

| Component | State | Operations | What must be right |
|---|---|---|---|
| Cell store (`cell.go`, `rows.go`, `col.go`, `sheet.go`, `adjust.go`) | `SheetData.Row[].C[]`, each with its own number or name | setters, `GetCellStyle`, `SetCellStyle`, row attributes, insert, remove, duplicate | writing by position and reading by name meet in the same cell; nothing is indexed out of range; exactly the documented cells change |
| Row iterator and search (`rows.go`, `sheet.go`) | a decoder over the part | `Rows`, `Next`, `Columns`, `GetRows`, `SearchSheet` | they read what the cells hold |
| Workbook catalogue (`sheet.go`, `file.go`, `excelize.go`) | sheet list, workbook relationships, content types, `sheetMap`, parsed and stored parts | `NewSheet`, `DeleteSheet`, `SetSheetName`, `CopySheet`, `SetActiveSheet`, `SetSheetVisible`, save, open | the structures agree; a call touches its own sheet only; the active tab and the selected sheet agree |
| Calculation chain (`calcchain.go`) | `CalcChain.C` | `deleteCalcChain` | it mentions only sheets that have a formula |
| Overlays (`cell.go`, `adjust.go`, `table.go`, `picture.go`) | merged areas, hyperlinks, sheet relationships, auto filter, hidden rows | `MergeCell`, `SetCellHyperLink`, `AutoFilter`, `SetRowVisible`, and `adjustHelper` | they move with the cells; areas stay disjoint; every link has its relationship; no loop fails |
| Formulas (`cell.go`, `rows.go`, `excelize.go`) | `xlsxF`, shared by pointer, shared formulas found by `si` | `SetCellFormula`, `GetCellFormula`, `UpdateLinkedValue`, row operations | a text per cell; a copy is independent of its original |
| Drawings, pictures, charts, shapes, comments, tables, background (`picture.go`, `drawing.go`, `chart.go`, `shape.go`, `comment.go`, `table.go`, `sheet.go`) | parts numbered by counting, relationships, content types | `AddPicture`, `GetPicture`, `AddChart`, `AddShape`, `AddComment`, `GetComments`, `AddTable`, `SetSheetBackground` | a new part overwrites no old one; every reference leads somewhere |
| Chart contents (`chart.go`, `drawing.go`, `xmlChart.go`) | none | the plot area of each chart type | axes refer to each other; every series is drawn whole |
| Column attributes (`col.go`) | `Cols.Col`, a list of ranges | `SetColWidth`, `SetColVisible`, `SetColOutlineLevel`, getters | the last setting counts, for the columns named |
| Object placement (`col.go`) | none | `positionObjectPixels` | the corners lie where the object does; the loops end |
| Styles and conditional formats (`styles.go`) | registries of fonts, fills, borders, number formats, cell formats, differential formats | `NewStyle`, `NewConditionalStyle`, `SetConditionalFormat` | the index returned goes on meaning the style asked for |
| Properties, views, page layout, panes, header and footer, protection (`sheetpr.go`, `sheetview.go`, `sheet.go`) | structures that exist once something was set | an option each, setter and getter | an option reads back and leaves the others alone |
| Data validation (`datavalidation.go`) | objects the client goes on holding | the methods of `DataValidation`, `AddDataValidation` | what is written is a whole validation of legal length |
| Pure functions (`lib.go`, `date.go`, `table.go`) | none | cell names, dates, password hash, filter expressions | they agree with a reference definition |
| Number formatting, theme colours, merged cell accessors, templates and XML types | none | see "Not modelled" | |

The components interact by calls and through the shared `File`. Every operation on
a worksheet goes through `workSheetReader`, which finds the part by name in
`sheetMap` and parses it once; every insertion or removal of a row or column goes
through `adjustHelper`, which changes rows, hyperlinks (and with them the sheet's
relationships), merged areas and the filter one after another; pictures, charts
and shapes are placed by `positionObjectPixels`, which asks the column list and the
rows; `WriteToBuffer` runs all writers. There are no timeouts, messages or crashes
to recover from: a panic ends the process, and what was not saved is lost. Save
and open, the one place where state leaves the process, are actions of every module
whose state is in a file.

The hazards, each at its line and with the properties that guard it, are listed in
`PROJECT.json`.

## Modules

| Module | Models |
|---|---|
| `SheetData` | the cell store and its readers as constant-level operators, one per helper of the code |
| `Grid` | the operations on cells, rows and columns of one worksheet, save and open |
| `Sheet` | abstract: a rectangle of cells and an attribute per row |
| `Workbook` | the catalogue of worksheets of a `File`, with the calculation chain |
| `Book` | abstract: a sequence of named tabs with contents |
| `Worksheet` | merged areas, hyperlinks, filter and hidden rows under `adjustHelper` |
| `Overlay` | abstract: the same things moving with the cells |
| `Package` | drawings, pictures, charts, shapes, comments, tables, media, their relationships and content types |
| `Gallery` | abstract: what each sheet shows |
| `Formulas` | formula objects behind pointers, shared formulas |
| `FormulaTable` | abstract: a text and a value per cell |
| `Styles` | the style sheet and the conditional formats |
| `Layout` | the column list, row heights, and `positionObjectPixels` round by round |
| `ColumnTable` | abstract: a record of attributes per column |
| `Settings` | properties, views, page, panes, header and footer, protection, data validations |
| `Names`, `Dates`, `Criteria`, `Charts` | pure functions: cell names and password hash, dates, auto filter criteria, contents of a chart |
| `Answers` | asks those functions one question per step and compares with reference definitions |
| `GridProofs`, `WorkbookProofs`, `WorksheetProofs`, `PackageProofs`, `FormulasProofs`, `StylesProofs`, `LayoutProofs`, `SettingsProofs` | theorems about the modules they are named after |
| `MCGrid`, `MCWorkbook`, `MCWorksheet`, `MCPackage`, `MCFormulas`, `MCStyles`, `MCLayout`, `MCSettings`, `MCAnswers` | values of the constants for TLC |

A step of a specification is one whole call of the API, with everything it does:
`InsertRow` includes `checkSheet` and `checkRow`, `NewSheet` includes the
`DeleteSheet` and `SetActiveSheet` inside it. The one exception is
`positionObjectPixels`, whose loops are one step per round so that their end can be
stated.

Each detailed module with an abstract one is shown to implement it under a
refinement mapping (`ImplementsSheet`, `ImplementsBook`, `ImplementsOverlay`,
`ImplementsGallery`, `ImplementsFormulaTable`, `ImplementsColumnTable`).

### SheetData and Grid

A sheet is a sequence of rows, a row a record with its number `R`, an attribute and
a sequence of cells, a cell a record with its coordinates, type, value, style and
whether it has a formula. `PrepareSheetXML`, `FillColumns`, `CheckSheet`,
`CheckRow`, `AdjustRowDimensions`, `TrimCell` are the functions of those names;
`CellAt` is `getCellStringFunc`, which looks a cell up by its name. `GetRows`,
the row iterator and `SearchSheet` read the same rows in their own ways;
`ReadersAgree` compares them with `CellAt`.

`phase` says who holds the rows: `closed` is a file nobody has read, `open` a
handle in use, `saved` a handle that has been written since. `Save` trims the
rows of the handle itself, as `workSheetWriter` does; `Open` is a new handle that
reads the part. `panicked` records an index out of range in `checkRow`.

Abstractions: a cell name is the pair of numbers it spells; a formula is there or
not; the height and the outline level of a row, which are written, moved and read
alike (a row that is not stored has the default), are one attribute, while visibility,
which is not read alike, is `Worksheet`'s; the redirection of a merged cell and the style a column gives
its cells are inputs. The sheet of `Grid` has no merged areas, hyperlinks or
filter of its own, on which `adjustHelper` works between renumbering and
`checkSheet`: those are `Worksheet`'s.

### Workbook

One record `f` with the fields of `File` that matter. A worksheet part is its
number; the relationships of the workbook map `rId` numbers to parts (0 for
anything that is not a worksheet); a worksheet's contents are an opaque datum, the
`TabSelected` flag, the largest relationship its hyperlinks use, and whether it
has a formula. `Sheet` and `XLSX` (and `SheetRels` and `XLSXRels`) are the parsed
and the stored copies: reading fills the first from the second, saving writes the
second from the first, and the code sometimes looks at only one. `panicked`
records the nil worksheet `SetActiveSheet` would use when a sheet cannot be read.

The code finds a sheet by `SheetID` (`DeleteSheet`, active tab, calculation
chain), by part number (`CopySheet`, `TabSelected`, `GetSheetIndex`) or by name
(`sheetMap`). `Spec` starts from workbooks in which `SheetID` and part number
agree, as in all that this library writes; `SpecReordered` starts from one whose
tabs were moved in Excel, where they do not.

### Worksheet

Merged areas, hyperlinks and relationships are sequences in the order of the
slices. `Ranging`, `DeleteAt` and `DeleteOrDrop` model a Go loop that
deletes from the slice it ranges over (`RelStep`, `MergeStep` and `LinkStep` are one
round of the three loops there are): it runs over the old length and reads the
shifted array underneath, so it skips the element after a deleted one, meets the
last one twice, and may slice out of range. Merged areas are pointers, so an
area met twice is adjusted twice; hyperlinks are values. `failed` records a panic,
or `torn`: `adjustHelper` left with an error after renumbering and before
`checkSheet`.

### Package

A part is its kind and its number. `XLSX` has the parts of the package, `Cache` the
parsed ones, per kind; charts, media and tables are only ever stored. A new part is
numbered by counting, in the cache or in the package as the code does for its
kind. A relationship is its place in the list of its part. An anchor of a drawing
remembers whether it was parsed, because `GetPicture` searches the two kinds
differently. `Save` writes the caches and keeps them; `Reopen` forgets them.
Fields of anchors beside cell and relationship, sizes, authors, fonts and colours are
left out, as are the headings that `addTable` writes into empty cells: the module
has no cells.

### Formulas

Cells hold pointers into `heap`. The address of an object is the first cell, from the
top and in each row from the left, that leads to it (`Address`), and `Becomes` gives
all objects their addresses anew after every call: addresses show nowhere, and
so do not multiply the states. `DuplicateRowTo` copies pointers;
`SaveAndOpen` gives every cell an object of its own. A shared formula is looked up
through the first cell, from the top, that holds its text.

### Styles

A registry is a list with a `Count` beside it, as in the file, and the code takes
indices from one or the other. `made` and `dmade` remember what was asked for and
which index was returned; `StyleMeans` follows the indices back after any number
of later calls. A request is a record like `formatStyle`; a colour, a font name or a
format code is a datum.

### Layout

`cols` only grows, by every setter, and the getters let the last match count. Widths
go from characters to pixels and heights from points to pixels as in `convertColWidthToPixels` and
`convertRowHeightToPixels`. `job` holds the arguments and variables
of `positionObjectPixels`, and its `pc` the loop it is in.

### Settings

Every structure may be missing (`None`), some contain others that may be missing;
each getter has the code's default for each level. A call with several options is
the calls with one each. A data validation is an object in `objects`; the sheet
lists objects, and clients go on calling methods on those they added. Formulas of a
validation are the XML elements they consist of and a length.

### Names, Dates, Criteria, Charts and Answers

Cell names are sequences of bytes. Times are in eighths of a day, which binary
fractions represent exactly; the Julian day algorithms and the loops over stretches
of 290 years are the code's. A filter expression is its tokens; its meaning is given
by comparing cell values of an ordered set, and the criteria written by what the file
format says of the elements: a `filter` lists a text, and empty cells are asked for by the
attribute `blank`, which the code never sets. A chart format is type, series and which axes
are reversed; of the chart the module keeps what the properties compare (element and
grouping, series, axes and their crossings, the 3D view).
`Names` and `Charts` are used by TLC only.

## Runs

Passing runs. Deadlock is checked in all but `styles`, where the session ends when
`MaxStyles` styles have been made; elsewhere some call is always possible.

| Run | Checks | States | Shows |
|---|---|---|---|
| `grid` | `TypeOK`, `GridContiguous`, `NoPanic`, `ReadersAgree`, `ImplementsSheet`, `CallsExact` | 7 000 | position and name agree, `checkRow` stays in range, every reader sees the same cells, `Grid` implements `Sheet` and each call is the step of its name and arguments |
| `workbook` | `TypeOK`, `Catalogue`, `ActiveAgrees`, `LinksResolve`, `ChainResolves`, `ImplementsBook` | 89 000 | the structures of the catalogue agree, the calculation chain stays sound, `Workbook` implements `Book` |
| `worksheet` | `TypeOK`, `AdjustCompletes`, `AreasDisjoint`, `LinksResolve` | 112 000 | within the guards below the loops of `adjustHelper` end well, areas stay disjoint and relationships are those of the links |
| `worksheet_overlay` | `ImplementsOverlay` | 16 000 | within narrower guards everything moves with the cells it lies over |
| `package` | `TypeOK`, `PartsResolve`, `NotesAgree`, `PicturesRead`, `ImplementsGallery` | 50 000 | numbering by counting loses nothing, every reference leads to a part, every comment keeps a box, objects stay on their sheets over saving, opening and deleting sheets |
| `formulas` | `SharedResolves`, `ImplementsFormulaTable` | 30 000 | a text per cell, although objects are shared by pointer and texts by `si` |
| `styles` | `TypeOK`, `StyleMeans`, `RulesApply` | 15 000 | an index goes on meaning the style that was asked for; a conditional rule shows its own differential format |
| `layout` | `AnchorExact`, `PlacingEnds`, `ImplementsColumnTable` | 339 000 | the last setting of a column counts, objects are anchored where they lie, placing them ends |
| `settings` | `ValidationsWhole`, `ReadsBack` | 63 000 | options read back and leave others alone; validations have their formulas in order and of legal length |
| `answers` | `ColumnsAgree`, `CellsAgree`, `TimesReadBack`, `NumbersCountDays`, `HashRotates`, `FiltersMean`, `AxesPaired`, `SeriesWhole`, `TablesAgree` | 20 000 | the pure functions agree with reference definitions |

Violation runs: the property states what the documentation promises, TLC finds a
behaviour of the code that breaks it.

| Run | Property | What happens |
|---|---|---|
| `grid_reuse` | `SetIsRead` | write two cells with a gap between them, `Save`, write again on the same handle: the row has been trimmed and another cell is overwritten |
| `workbook_reordered` | `DeleteKeepsOthers` | in a file with reordered tabs `DeleteSheet` deletes the part of another sheet |

Further configurations, to be run by hand, lift one restriction of a session each, or ask
for what a session leaves out, and end in a counterexample:

| Configuration | Property | What happens |
|---|---|---|
| `MCWorksheetLoops.cfg` | `AdjustCompletes` | remove a column in which two of three areas collapse: the loop slices beyond the list it deletes from (`adjust.go:227`) |
| `MCWorksheetTouching.cfg` | `AreasDisjoint` | remove the column in which an area begins, directly after another: it moves over the other (`adjust.go:207`) |
| `MCWorksheetMerge.cfg` | `NewAreaWins` | a new merged area over an old one is dropped, or both are kept (`cell.go:446`), where the comment (`cell.go:401`) has the old ones removed |
| `MCWorksheetLinkAgain.cfg` | `LinkIsSet` | set links, remove a row with one, set another: two relationships have one number (`picture.go:193`) |
| `MCFormulasLosing.cfg` | `SharedResolves` | remove the row that holds the text of a shared formula: the other cells have none (`cell.go:626`) |
| `MCStylesOperands.cfg` | `RulesHaveValues` | a rule with "greater than or equal to", which the comment lists (`styles.go:2450`), is written without a value (`styles.go:2660`) |
| `MCAnswersBlank.cfg` | `BlanksMean` | the filter for `x == Blanks` lists the text "blanks" (`table.go:350`), where the comment (`table.go:237`) has it ask for blank cells |

More restrictions can be lifted in the same way, each in a copy of the
configuration named, with the specification or constant and the one property given here
in the place of its own. Each ends in a counterexample:

| Copy of | With | Property | What happens |
|---|---|---|---|
| `MCWorkbook.cfg` | | `CanHide` | `SetSheetVisible(name, false)` stops at index 0, where there is no sheet (`sheet.go:524`) |
| `MCPackage.cfg` | `SpecLoaded`, `MaxSheet = 3`, `MaxObjects = 4` | `OwnParts` | shapes on sheets without a drawing, in a loaded file that has one: two sheets come to share a drawing part (`picture.go:256`) |
| `MCFormulas.cfg` | `SpecCopies` | `EditsOneCell` | duplicate a row and set a formula in the copy: the original changes (`rows.go:512`) |
| `MCStyles.cfg` | `SpecLang` | `StyleMeans` | a language format first: the next own format takes the number of a built-in one (`styles.go:2063`) |
| `MCLayout.cfg` | `SpecOffset` | `AnchorExact` | an offset wider than the first column is counted twice (`col.go:267`) |
| `MCLayout.cfg` | | `WidthOnly` | `SetColWidth` on a hidden column shows it (`col.go:188`) |
| `MCSettings.cfg` | `SpecFirstHeader` | `HeadersFit` | the header of the first page is never checked for its length (`sheet.go:895`) |
| `MCSettings.cfg` | `SpecSource` | `SourceWritten` | `SetSqrefDropList` writes the source without its element (`datavalidation.go:149`) |
| `MCAnswers.cfg` | `Times <- MCEarly` | `TimesReadBack` | January and February 1900 read back a day early (`date.go:61`) |

### What the sessions stay clear of

The passing runs are about sessions that avoid calls the code is known to get
wrong. The actions contain the behaviour; the guards of the next-state relation
leave it out, each with a comment:

- `Grid`: using a handle after `Save` (lifted by `SpecReuse`); `DuplicateRowTo`
  further than one past the last row (`rows.go:518`: the copy is appended, its
  position is not its number); `RemoveCol` with a column in lower case
  (`col.go:384`: cells are found by spelling, the shift goes by number);
- `Workbook`: workbooks whose `SheetID`s and part numbers differ (lifted by
  `SpecReordered`); `NewSheet` and `DeleteSheet` with a name that is trimmed to an
  existing title (`sheet.go:38`, `sheet.go:418`: the existing sheet is deleted, its
  index entry stays); renaming a sheet to a name in use, its own included
  (`sheet.go:302`); copying a sheet with hyperlinks (`sheet.go:486`: parsed
  relationships are not copied) or onto one that is in the calculation chain;
- `Worksheet`, in `Spec`: with three or more areas, or links, a removal that deletes any
  but the last or the last but one, or more than one (`DeletesRight`; `adjust.go:227`: the
  loop skips the element after a deleted one and meets the last one twice, so that even a
  single deletion further ahead goes wrong; lifted by `SpecLoops`); removing a line in
  which an area begins that follows directly upon another, or line 1 when an area that is
  all in it is followed by another (`Apart`; `adjust.go:207`: the area moves over the one
  before; lifted by `SpecTouching`); removing column 1 when it is the last of a filter that
  begins after it (`FilterKept`; `adjust.go:175`: column 0 has no name, an error); merging
  an area that crosses another without a corner of one in the other (`Noticed`; shown by
  `NewAreaWins`); adding a hyperlink when relationship numbers have a gap (`RelsDense`,
  lifted by `SpecLinkAgain`), or a second one on a cell (`Unlinked`; `cell.go:392`: the
  first one keeps answering);
- `Worksheet`, in `SpecOverlay`, besides: removing any line in which an area begins, other
  than line 1 when more of the area is left (`NoneBegins`); inserting or removing columns up
  to the first column of the filter (`RightOfFilter`; `adjust.go:175`: only the last column
  follows); removing the headings of the filter while rows are hidden (`NoneHidden`;
  `adjust.go:160`: rows are looked up by their old numbers); merging over an area
  (`Disjoint`);
- `Package`: adding to a kind of part of which neither cache holds all (`Counted`);
  deleting a sheet with comments (`sheet.go:407`: its parsed relationships stay for
  the next sheet of that number); names that are no cells (`picture.go:159`:
  relationships and media are made before the name is checked);
- `Formulas`: setting a formula whose object two cells point to (lifted by
  `SpecCopies`), or a shared one; clearing or removing the last cell that holds the text of a
  shared formula (`HeldElsewhere`, lifted by `SpecLosing`);
- `Styles`: a language format as the first own number format (lifted by `SpecLang`);
  files whose own number formats are numbered below 164 or do not ascend (`IsUsable`), or
  that have an empty list of them (`styles.go:2032`: its last entry is indexed); rules for
  differential formats that were never made (`Referring`). `RulesApply` says nothing of the
  values of a rule, which `RulesHaveValues` is about;
- `Layout`: offsets as wide as a column (lifted by `SpecOffset`); widths and heights
  that are not positive, over which a loop would not end;
- `Settings`: a long header of the first page (lifted by `SpecFirstHeader`),
  `SetSqrefDropList` (lifted by `SpecSource`; `ValidationsWhole` is about the other
  methods), `SetPanes` on a sheet without views
  (`sheet.go:646`: it indexes the last view before it asks whether there is one);
- `Answers`: times before March 1900; passwords of more than 23 characters
  (`lib.go:254`: the sum outgrows its 15 bits); charts of more than two series
  (`chart.go:972`: theme colours are counted on past the last); filter values that
  contain "blanks" and the conjunction "OR" in upper case. `FiltersMean` leaves out the
  expressions that ask for empty cells (`AsksBlanks`), `BlanksMean` is about those.

Behaviours the specifications accept as they are: a comment added after a save, or a second
one on a loaded sheet, repeats the boxes of the stored VML drawing (`comment.go:202`), so that
`NotesAgree` asks for a box on every cell with a text and on no other, and not for one each; the
answer of `GetRowVisible` for a row after the last stored one, false until something grows
the rows (`rows.go:361`), is no part of `View` or `Overlay`; the default format
of a date written through a merged cell goes to the cell named and not to the one
that holds the value (`excelize.go:108`); after a deletion `ActiveTab` may point
beyond the last tab (`sheet.go:424`); `RemoveRow` below the last stored row moves
nothing (`rows.go:423`); the width of a column resets its visibility, outline level
and style; a refused filter expression leaves what has been written before it
(`table.go:327`).

Interactions between modules that are not composed, and so not checked: `copySheet`
keeps the legacy drawing and the background of the original without their
relationships (`sheet.go:480`); `autoFilter` replaces the sheet properties
(`table.go:309`); `formattedValue` indexes the cell formats by a style nobody
checked (`cell.go:561`); `AddChart` with a type it does not know calls a nil
function after the relationship is made (`chart.go:660`).

### Bounds

`MaxRow` and `MaxCol` (3, and 3 to 4) are enough for a line before, at and after the
one that is inserted or removed, and for gaps in files: one initial file of `MCGrid`
has its only cell in the second column of the second row. `MaxID` 3 lets a sheet be
deleted from the middle and a number be reused; it is the guard of `NewSheet`. Names are
model values, of which `B` and `C` are interchangeable (`Renamings`): the initial workbooks are as
symmetric, and no definition tells names apart but by `Trim`.
`MaxLinks` bounds hyperlinks (65530 in the code), `MaxAreas` merged areas, `MaxSheet`
the sheets of `Package`, of which two suffice for one to take the other's parts and
one to reuse a deleted number; `MaxRows` the rows of `Formulas`, `MaxEntries` the
column list, `LastCell` the cells an object reaches (no fewer than `MaxCol` or `MaxRow`
plus an offset and a size, a pixel for every column or row), `MaxStyles` and `MaxObjects` what is made in a session.

What may be there at once is bounded in the MC modules: `MaxFilled` and `MaxCells`
(`MCGrid`), `MaxThings` (`MCWorkbook`, where formulas count once and links and hidden sheets
twice, and `MCWorksheet`), `MaxObjects` (`MCPackage`), `MaxValues` and
`MaxFormulas` (`MCFormulas`), `MaxSet` (`MCSettings`). The specifications `SpecFew...`
of these modules take the steps of `Spec` between states within the bound. Two or
three things at once are what the properties relate: a cell and its neighbour, an
object and the one that might overwrite it, an option and the one beside it.

The widths, heights, sizes and offsets of `MCLayout` put objects within a cell, over
several cells, and with an edge exactly on a border (an object 13 pixels
wide in a column of 13). The times of `MCAnswers` lie around the points where the
loops of `date.go` take another round, and the columns around the carries from Z, ZZ
and XFD.

### Fairness

Calls happen when a client makes them, so nothing is fair about them. A call that has
begun runs on, since nothing else happens in its goroutine: `Layout` states weak
fairness of `PositionStep`, one round of the loops of `positionObjectPixels`, and
`PlacingEnds` says that the loops end. All other calls are one step.

## Proofs

Each theorem holds for every value of the constants that satisfies the assumptions of
its module. TLC evaluates the assumptions on every run of the module, and checks
the listed properties on small instances.

| Module | Proved | Inductive invariant |
|---|---|---|
| `GridProofs` | `TypeOK`, `GridContiguous`, `NoPanic`, `ReadersAgree`, `SetIsRead`, `ImplementsSheet`, `CallsExact` | `GridInv`, `SheetInv` |
| `WorkbookProofs` | `TypeOK`, `Catalogue`, `ActiveAgrees`, `LinksResolve`, `ChainResolves`, `ImplementsBook` | `WorkbookInv` |
| `WorksheetProofs` | `TypeOK`, `AdjustCompletes`, `AreasDisjoint`, `LinksResolve`, `ImplementsOverlay` | `WorksheetInv` |
| `PackageProofs` | `TypeOK`, `PartsResolve`, `NotesAgree`, `PicturesRead`, `OwnParts`, `ImplementsGallery` | `PackageInv` |
| `FormulasProofs` | `SharedResolves`, `ImplementsFormulaTable` | `FormulasInv` |
| `StylesProofs` | `TypeOK`, `StyleMeans`, `RulesApply` | `StylesInv` |
| `LayoutProofs` | `TypeOK`, `AnchorExact`, `ImplementsColumnTable` | `LayoutInv` |
| `SettingsProofs` | `TypeOK`, `ValidationsWhole`, `ReadsBack` | `SettingsInv` |

### GridProofs

Every size of the sheet, every set of types, values, styles, row attributes and column
styles, every well-formed initial file. The assumptions are `DefaultsAssumption` (the
default type, value, style and attribute exist) and `GridAssumption` (the inputs are
of their types, and the files a session starts from are `Sparse`, rows and cells in
ascending order, as the format prescribes, and `Within` the sheet that `MaxRow` and
`MaxCol` bound; since those are arbitrary, every file is within some sheet).

`GridContiguous` says nothing of a store that has been saved, and is not inductive:
what `Open` finds there must be a file that `checkSheet` and `checkRow` can put in
order. `GridInv` adds that a store nobody uses is `Sparse`. The argument then has
three parts. Growing and writing keep a store contiguous (`PrepareGood`,
`WriteCellGood`, `WriteStyleGood`). Renumbering a contiguous store, or trimming it,
leaves it ascending (`InsertRowSparse`, `RemoveRowSparse`, `InsertColSparse`,
`RemoveColSparse`, `TrimRowsSparse`; the last needs that the cells `trimCell` keeps
stay in order, `RankSteps` and `RankOnto`). And checking an ascending store makes
it contiguous and cannot index out of range (`CheckGood`, from `CheckSheetPlaces` and
`CheckCellsGood`): in an ascending row the last cell is the rightmost.

`ImplementsSheet` says more: not that the store stays in order but that each call moves
the right cells. Its inductive invariant `SheetInv` adds to `GridInv` that nothing lies
beyond the sheet. The argument goes through two ways of reading. In an ascending store a
name leads to at most one cell (`ReadCell`, `ReadNone`), and in a contiguous one it
leads to the cell at that position (`GoodRead`), so `View`, what a client can read by
name, is what is at each position (`At`, `AttrOf`). A lemma per operation says
which cell of the old store is at each position of the new one (`WriteCellIs`,
`WriteStyleIs`, `InsertRowIs`, `RemoveRowIs`, `InsertColIs`, `RemoveColIs`,
`DuplicateIs`), or that no name changes its cell (`CheckIs` for checking, `TrimIs` for the
trimming in `Save`); a second one per call compares this with the operator of
`Sheet` (`SetCellView` to `DuplicateRowView`). `NextStep` puts them together. A step of
`Sheet` may be any call's, so `ImplementsSheet` alone would accept a call with the effect
of another; `CallsExact` ties each call to the operator of its name and arguments, and follows
from the same lemmas.

`ReadersAgree` follows from `SheetInv`: the iterator, `GetRows` and `SearchSheet` are each
characterised on a contiguous store by `ValueAt` (`ColumnsIs`, `GetRowsIs`,
`SearchSheetIs`), and no row after `LastValued` has a value. `SetIsRead` holds of `Spec`,
whose clients do not go on with a handle they saved; under `SpecReuse` the run
`grid_reuse` refutes it. Its proof needs no more than `GridInv` before and after the step:
`prepareSheetXML` makes a cell at the position, whatever store it is given (`PreparedAny`),
and after the call position and name agree.

### WorkbookProofs

Every set of names with an idempotent `Trim`, every set of data, every bound on part
numbers and links (`WorkbookAssumption`), and every set of initial workbooks whose
structures agree (`NewBooksAssumption`), which is what this library writes.

No property of the runs is inductive alone: `DeleteSheet` and `NewSheet` keep the
catalogue sound only because sheet list, relationships, content types and `sheetMap`
agree before, and the active tab only because at most one sheet is selected.
`WorkbookInv` is all of it at once: `Agrees(f)` (`IsFile`, the fields have their
types; `IsListed`, every entry of the sheet list has an own number and its
relationship leads to the part of that number; `IsIndexed`, `sheetMap` and the content types list
exactly those parts, and each can be read from the cache or the package; `IsLinked`,
hyperlinks and the calculation chain refer to what is there), `IsSelected(f)`, and that nothing
panicked. The proof has a lemma per call, about `Agrees` and about the tabs a client
sees at once, so that `ImplementsBook` follows from the same lemmas. The call that needs most
is `DeleteSheet`, which drops an entry, a relationship and a content type and then
chooses the active tab by position (`WithoutAgrees`, `DropWithout`).

### WorksheetProofs

Every size of the sheet, every set of areas with their corners in order, every bound on
areas and links (`WorksheetAssumption`), within the sessions of `Spec`, and of `SpecOverlay`
for `ImplementsOverlay`. The guards of those sessions, listed above, are hypotheses of the
theorems: where they are lifted, `MCWorksheetLoops.cfg` and `MCWorksheetTouching.cfg` refute
the same properties.

The properties hold together or not at all: that `adjustHelper` comes to its end rests on
how many areas and links one removal can empty, that areas stay disjoint on their being
in order, and that a hyperlink finds its relationship on no two links sharing one.
`WorksheetInv` says that areas are in order, larger than a cell and pairwise disjoint, that
hyperlinks lie on distinct cells and have relationships of their own which are there, that
the rows of the filter are in order, and that nothing failed.

The weight of the proof is in the loops that delete from the slice they range over. In a
session any element of two may go, and of more the last or the last but one; for these cases the loops are
characterised by what they leave: `MergesKept` and `LinksKept` when nothing goes,
`MergesFew` and `LinksFew` for lists of two, `MergesOne` and `LinksOne` for the end of
longer ones, `RelsWithoutIs` for relationships,
where the loop leaves at the first match. A loop is a recursive function of the round;
that it exists, and what is true of every round, is shown by taking the least round for
which it fails. `AreaMoves`, `ListMoves` and `LinksMove` say that lines map to lines
in order and so disjoint areas to disjoint areas; `LoopsEnd` and `AdjustKeeps` put
the pieces of `adjustHelper` together.

`ImplementsOverlay` compares two accounts of a move. `adjustHelper` says where each old
line goes, by adding to its number; `Overlay` says of each new line which old one it was,
and takes an area to the range of the lines that come from it. `LinesFrom` shows the two
to agree on a range of lines, and with it `AreaFollows` on an area, `LinksFollow` on the
answers of `GetCellHyperLink`, `FilterFollows` on the filter and `InsertedHides` and
`RemovedHides` on hidden rows; `AdjustFollows` puts them together for every insertion
and removal. Here the guards of `SpecOverlay` are needed: `NoneBegins` since an area whose
first line goes is moved over the line before it, `RightOfFilter` since the first column of the filter
stays, `NoneHidden` since the rows to show again are looked up by their old numbers.

### PackageProofs

Every number of sheets, every set of cells and of data (`PackageAssumption`), every set of
new files whose worksheets have nothing on them, as `NewFile` makes them
(`NewFilesAssumption`).

A call makes a relationship before the part it leads to, and some make several of each; so
between two parts of a call the file is not consistent. The invariant of a file is
`FileInv(b, P)`: all is well in `b` but for the parts of `P`, which are promised and
not yet there; `P` is empty between calls. It says that relationships lead to parts that
are there or promised; that the parts of a kind are numbered without a gap from one, in
the cache, the package or both together, so that counting yields a number nobody has
(`NextNumber`, `CountEitherIs`); that every comments part has a VML drawing of its
number, with a box on every cell with a comment and on no other (`NotesOK`), which has to be
known of the copy that `decodeVMLDrawingReader` keeps as well, since its shapes are added
again (`DecodedOK`); that a parsed drawing continues the
stored one, so that a picture whose anchor was read from the file is found as well as a new one
(`KeptOK`, `PictureFound`); and that no two worksheets own one part (`OwnOK`).
Each helper that makes a relationship or a part has its lemma, and each call puts
those together, along the order in which the code makes them. `Save` and `Reopen` move
parts between the copies; `DeleteSheet` drops a sheet and leaves its parts, which is
why `OwnOK` speaks of the sheets that are there.

`ImplementsGallery` needs what a call leaves alone as well as what it does. `Keeps(b, d, D, N)`
says that file `d` has the pictures, charts, tables, relationships of drawings, drawings but
those of `D` and comments but those of `N` that `b` has; every helper has it beside
the invariant, and `FollowsOn` chains it along a call. `PackageTurns` then says of each call
which of seven things it does (`Draws`, `Annotates`, `Tabulates`, `Covers`, `AddsSheet`,
`LosesSheet`, or nothing that is seen), and the `...Seen` lemmas that each is a step of
`Gallery`. That the other sheets show the same (`OthersKept`) is where `OwnOK` is needed: a
drawing that is added to is no other sheet's. That a new sheet is empty although it may have
the number, and the relationships, of a deleted one rests on `LeftOK`: what is left mentions no
comments, and nothing else is found without a reference of the worksheet.

### FormulasProofs

Every set of columns that has the first two, every set of texts other than the empty one, every set
of indices and every number of rows (`FormulasAssumption`).

`SharedResolves` is not inductive: a row can be removed only because what it holds is
held elsewhere, and a text stays the same after the first of two holders
has gone only because both say the same. `FormulasInv` says of the sheet (`Good`) that
every cell with a formula has a text, its own or that of a holder of its `si`, and that
holders of one `si` agree; and of the heap (`Addressed`) that its addresses are those
of cells leading to themselves. The central lemma is `Follows`: if every object of a
new sheet is one of the old or a plain formula, and every shared formula still has a holder, then the
new sheet is `Good` and every `si` is found to be the same. `BecomesIs` shows that new
addresses change nothing a client sees. Each call then is one of three kinds: it
changes one cell (`FormulaChanges`), it leaves all formulas where they are
(`TextsStay`), or it moves rows (`RowsKeep`, `RowReads`, with the positions of
`InsertAtIs` and `RemoveAtIs`).

### StylesProofs

Every set of requests as `parseFormatStyleSet` makes them (`RequestsAssumption`), every
style sheet whose counts are the lengths of its lists (`SheetFilesAssumption`), built-in
number formats below the first custom one (`StylesAssumption`).

An index means what was asked for as long as no registry changes an entry, which
`StyleMeans` does not say. `StylesInv` says of each remembered request that the cell
format it was given stands for it now, and `Grows` that a call only adds; meaning is
preserved under `Grows` (`StyleStays`). The number formats must ascend for the number of a new
one to be new (`IsUsable`, `NumFmtAdded`). For the conditional formats, priorities
are positions among the rules that are drawn (`CountStep`, `PlaceExists`, `RulesDrawn`).
`RulesApply` then follows a rule to the differential format made for its request, which no
later call changes. That a rule has its values is not proved, since it is not so
(`RulesHaveValues`).

### LayoutProofs

Every set of widths, heights, sizes and files of column ranges with `min <= max`
(`LayoutAssumption`); offsets smaller than every cell, and sizes that end before
`LastCell` (`PlacesAssumption`).

`AnchorExact` speaks of a finished placement. `LayoutInv` says at every round of the
loops where the object is: what is left of the width begins where the end column does
(`ColInv`, and `RowInv` for the height), and the start is the one that was asked for
(`StartInv`). `Left` and `Top`, the sums of the cells before one, are recursive functions;
that they exist and have the equation they are defined by is shown by taking the least number
for which it fails (`Least`, `SumExists`, `SumUnique`). That setters refine `ColumnTable` rests on the
last match in an appended list (`AppendMatch`, `TableAppend`).

### SettingsProofs

Every set of zooms, texts, sizes, indices and lengths, every list of views in a file
(`SettingsAssumption`; `None` is none of the structures).

`ReadsBack` is about what the getters answer after one more call and follows from the
types of the structures, `None` included, case by case (`PrReadsBack`, `ViewReadsBack`,
`PageReadsBack`). `ValidationsWhole` is about the validations a sheet lists, but clients
go on calling methods on objects they hold, added or not: `SettingsInv` says that every
object is whole (`IsWhole`), those a client made and those read from a file by different
rules, since a file that was read has the elements already in its formulas. The length
of a list is that of its keys, without the tags and the quotes around them (`KeysLen`).

### Only model-checked

- The pure functions of `Answers`: what they compute for every input needs induction over data;
  `Names` also uses `Bitwise`, which no module with a theorem may reach.
- Liveness (`PlacingEnds`), which is out of the prover's reach. `LayoutInv` gives the
  bound on which it rests: every round of the last loops uses up at least a pixel.

## Not modelled

- Number formatting for display (`formatTo...`, `parseTime`) and theme colours: floating
  point arithmetic and text layout, on which no state depends.
- `GetMergeCells` and its accessors: they split a reference and read a cell.
- Templates and XML types: constants and struct tags. What the modelled code keeps of
  them is in the type definitions of the modules.
- Geometry, fonts, margins, legend, labels and bounds of axes of charts and shapes: data
  without control.
- `docProps/app.xml`, a constant that `NewSheet` writes; shared strings and regular
  expressions in the readers; the headings `addTable` writes into empty cells.
- Zip and XML encoding, image decoding: external libraries. A part that was
  written is read back as it was, which is the one thing assumed of them.

## Plan

Left for later:

- Composition: the redirection of merged cells in `Grid` as state of `Worksheet`
  rather than input; `CopySheet` and `DeleteSheet` of `Workbook` over the parts of
  `Package`.
