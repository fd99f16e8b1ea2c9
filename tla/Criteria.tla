------------------------------ MODULE Criteria ------------------------------
(***************************************************************************)
(* The criteria of an auto filter: an expression of three tokens, or of    *)
(* seven for two conditions, turned into filter or customFilter elements   *)
(* (table.go: autoFilter and what it calls).                               *)
(*                                                                         *)
(* The placeholder (first token) is ignored by the code and left out.  An  *)
(* expression is [op1, val1] or [op1, val1, con, op2, val2]; a value is    *)
(* one of Tokens, in lower case where the code lowers it.                  *)
(***************************************************************************)
EXTENDS Integers, Sequences

CONSTANTS Ordered,      \* the plain values, as strings in ascending order
          Patterns      \* the values with a match character

Numbers == {Ordered[i] : i \in 1..Len(Ordered)}

ASSUME TokensApart == Numbers \cap Patterns = {} /\
                      (Numbers \cup Patterns) \cap {"blanks", "nonblanks", " "} = {}

Tokens == Numbers \cup Patterns \cup {"blanks", "nonblanks"}

\* the numbers the operators are turned into
OperatorNumber ==
  [o \in {"==", "=", "=~", "eq", "!=", "!~", "ne", "<>", "<", "<=", ">", ">="} |->
     CASE o \in {"==", "=", "=~", "eq"}  -> 2
       [] o \in {"!=", "!~", "ne", "<>"} -> 5
       [] o = "<"  -> 1
       [] o = "<=" -> 3
       [] o = ">"  -> 4
       [] o = ">=" -> 6]

Refused == << >>

\* an equality with a match character is not a simple one
Wild(operator, token) == IF operator = 2 /\ token \in Patterns THEN 22 ELSE operator

\* the special handling of Blanks and NonBlanks
BlanksToken(operator, token) ==
  IF token = "blanks"
  THEN <<operator, IF operator = 5 THEN " " ELSE token>>
  ELSE IF operator = 5 THEN <<2, "blanks">> ELSE <<5, " ">>

\* <<operator, token>>, or Refused
ParseFilterTokens(op, token) ==
  IF op \notin DOMAIN OperatorNumber THEN Refused
  ELSE LET operator == OperatorNumber[op]
           special  == token \in {"blanks", "nonblanks"}
           parsed   == IF special THEN BlanksToken(operator, token)
                       ELSE <<operator, token>>
       IN  IF special /\ operator \notin {2, 5} THEN Refused
           ELSE <<Wild(parsed[1], parsed[2]), parsed[2]>>

\* the exp and the tokens; 0 is "and", 1 "or": any word but these is "and"
ParseFilterExpression(e) ==
  LET first == ParseFilterTokens(e.op1, e.val1)
      other == ParseFilterTokens(e.op2, e.val2)
  IN  IF "con" \notin DOMAIN e
      THEN IF first = Refused THEN Refused
           ELSE [exp |-> <<first[1]>>, tokens |-> <<first[2]>>]
      ELSE IF first = Refused \/ other = Refused THEN Refused
           ELSE [exp    |-> <<first[1], IF e.con \in {"or", "||"} THEN 1 ELSE 0, other[1]>>,
                 tokens |-> <<first[2], other[2]>>]

-----------------------------------------------------------------------------
(* Writing.  A filter column holds a list of filters or of custom filters. *)

CustomOperator(n) ==
  CASE n = 1 -> "lessThan"    [] n = 2 -> "equal"    [] n = 3 -> "lessThanOrEqual"
    [] n = 4 -> "greaterThan" [] n = 5 -> "notEqual" [] n = 6 -> "greaterThanOrEqual"
    [] n = 22 -> "equal"

\* the attribute that asks for the empty cells is never set
Filters(tokens) == [filters |-> tokens, blank |-> FALSE]

\* writeCustomFilter once per token; the operators are exp[0] and exp[2]
CustomFilters(exp, tokens) ==
  [custom |-> [k \in 1..Len(tokens) |->
                 [operator |-> CustomOperator(exp[2 * k - 1]), val |-> tokens[k]]],
   and    |-> Len(tokens) = 2 /\ exp[2] = 0]

\* mutant: two equalities are listed whatever joins them
WriteAutoFilterListed(exp, tokens) ==
  IF exp = <<2>> \/ (Len(exp) = 3 /\ exp[1] = 2 /\ exp[3] = 2)
  THEN Filters(tokens)
  ELSE CustomFilters(exp, tokens)

WriteAutoFilter(exp, tokens) ==
  IF exp = <<2>> \/ exp = <<2, 1, 2>>
  THEN Filters(tokens)
  ELSE CustomFilters(exp, tokens)

-----------------------------------------------------------------------------
(* AutoFilter: the area is written first, the column next, the criteria    *)
(* last; each refusal leaves what was written before it.                   *)

ColumnOutside(offset, refRange) == offset < 0 \/ offset > refRange

\* column 0 or no expression: only the area is asked for
AutoFilter(hcol, vcol, column, e) ==
  LET first    == IF vcol < hcol THEN vcol ELSE hcol
      last     == IF vcol < hcol THEN hcol ELSE vcol
      area     == [from |-> first, to |-> last, colID |-> -1, criteria |-> Refused]
      offset   == column - first
      parsed   == ParseFilterExpression(e)
  IN  IF column = 0 \/ ColumnOutside(offset, last - first) THEN area
      ELSE IF parsed = Refused THEN [area EXCEPT !.colID = offset]
      ELSE [area EXCEPT !.colID = offset,
                        !.criteria = <<WriteAutoFilter(parsed.exp, parsed.tokens)>>]
============================================================================
