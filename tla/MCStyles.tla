------------------------------ MODULE MCStyles ------------------------------
(* Small instances of Styles for TLC.                                      *)
EXTENDS Styles

NoFill == [type |-> "", colors |-> 0, pattern |-> 0, shading |-> 0]
Pattern(n) == [type |-> "pattern", colors |-> 1, pattern |-> n, shading |-> 0]

Ask == [font |-> << >>, fill |-> NoFill, border |-> << >>, custom |-> None, numFmt |-> 0,
        lang |-> "", places |-> 2, negRed |-> FALSE, alignment |-> << >>, protection |-> << >>]

\* built-in, custom, currency and language formats; a font without a size; a
\* fill, one out of range; borders whose lines override each other
MCRequests ==
  {[Ask EXCEPT !.numFmt = 37, !.font = <<[size |-> 0, family |-> "", underline |-> "wavy"]>>],
   [Ask EXCEPT !.custom = "x", !.fill = Pattern(1)],
   [Ask EXCEPT !.custom = "y", !.fill = Pattern(19), !.alignment = <<1>>],
   [Ask EXCEPT !.numFmt = 188, !.places = 31,
               !.border = <<[side |-> "left", style |-> 1], [side |-> "left", style |-> 2],
                            [side |-> "left", style |-> 14], [side |-> "diagonalUp", style |-> 3]>>],
   [Ask EXCEPT !.numFmt = 36, !.lang = "zh", !.font = <<[size |-> 12, family |-> "A", underline |-> "single"]>>],
   [Ask EXCEPT !.numFmt = 36, !.lang = "xx", !.protection = <<1>>,
               !.fill = [NoFill EXCEPT !.type = "gradient", !.colors = 2, !.shading = 4]]}

Rule(type, criteria, format) == [type |-> type, criteria |-> criteria, format |-> format]

\* rules that are not drawn before and between rules that are
MCConditions ==
  {<<Rule("text", "equal", 0), Rule("cell", "between", 1), Rule("cell", "greaterThan", 0)>>,
   <<Rule("formula", "=A1", 0), Rule("scale3", "equal", 0), Rule("top", "equal", 1)>>,
   <<Rule("cell", "unknown", 1), Rule("cell", "greaterThanOrEqual", 0),
     Rule("bottom", "today", 0)>>}

MCLanguages == [l \in {"zh"} |-> {27, 36}]

\* templateStyles, and a file with a number format of its own
NewSheet ==
  LET none == [s \in {"left", "right", "top", "bottom", "diagonal"} |-> 0]
  IN  [numFmts |-> << >>,
       fonts |-> [Count |-> 1, list |-> <<[size |-> 11, family |-> "Calibri", underline |-> ""]>>],
       fills |-> [Count |-> 2, list |-> <<[kind |-> "pattern", how |-> 0, fg |-> TRUE],
                                          [kind |-> "pattern", how |-> 17, fg |-> TRUE]>>],
       borders |-> [Count |-> 1, list |-> <<[lines |-> none, up |-> FALSE, down |-> FALSE]>>],
       cellXfs |-> [Count |-> 1,
                    list |-> <<[fontID |-> 0, numFmtID |-> 0, fillID |-> 0, borderID |-> 0,
                                applyFont |-> FALSE, applyNumberFormat |-> FALSE,
                                alignment |-> << >>, protection |-> << >>]>>],
       dxfs |-> [Count |-> 0, list |-> << >>]]

MCFiles == {NewSheet, [NewSheet EXCEPT !.numFmts = <<[id |-> 164, code |-> <<"custom", "z">>]>>]}
=============================================================================
