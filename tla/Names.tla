------------------------------- MODULE Names -------------------------------
(***************************************************************************)
(* Cell names, column names and the hash of a sheet password (lib.go).     *)
(*                                                                         *)
(* A string is the sequence of its bytes.  An error is None: the code      *)
(* returns it beside values nobody uses.                                   *)
(***************************************************************************)
EXTENDS Integers, Sequences, SequencesExt, Bitwise

None == << >>

Upper(r) == 65 <= r /\ r <= 90     \* 'A'..'Z'
Lower(r) == 97 <= r /\ r <= 122    \* 'a'..'z'
Digit(r) == 48 <= r /\ r <= 57     \* '0'..'9'
Alpha(r) == Upper(r) \/ Lower(r)

AllOf(P(_), s) == \A i \in 1..Len(s) : P(s[i])

-----------------------------------------------------------------------------
(* Column names.                                                           *)

Letter(r) == IF Upper(r) THEN r - 64 ELSE r - 96

\* from the last letter to the first; multi is 26^(letters seen)
ColumnNameToNumber(name) ==
  IF name = << >> \/ ~ AllOf(Alpha, name)
  THEN None
  ELSE <<FoldLeft(LAMBDA acc, r : [col   |-> acc.col + Letter(r) * acc.multi,
                                  multi |-> acc.multi * 26],
                  [col |-> 0, multi |-> 1], Reverse(name)).col>>

\* mutant: the digits of an ordinary base 26 number
NameOfPlain[num \in Nat] ==
  IF num = 0 THEN << >>
  ELSE Append(NameOfPlain[num \div 26], 65 + (num % 26))

\* the loop: each round puts one letter in front
NameOf[num \in Nat] ==
  IF num = 0 THEN << >>
  ELSE Append(NameOf[(num - 1) \div 26], 65 + ((num - 1) % 26))

\* mutant
ColumnNumberToNamePlain(num) == IF num < 1 THEN None ELSE <<NameOfPlain[num]>>

ColumnNumberToName(num) == IF num < 1 THEN None ELSE <<NameOf[num]>>

-----------------------------------------------------------------------------
(* Cell names.                                                             *)

\* external: strconv.Atoi takes a sign, and any number of leading zeros
Atoi(s) ==
  LET signed == s # << >> /\ Head(s) \in {43, 45}
      digits == IF signed THEN Tail(s) ELSE s
      value  == FoldLeft(LAMBDA n, r : 10 * n + r - 48, 0, digits)
  IN  IF digits = << >> \/ ~ AllOf(Digit, digits) THEN None
      ELSE <<IF signed /\ Head(s) = 45 THEN -value ELSE value>>

\* external: fmt's %d of a positive number
Decimal[n \in Nat] ==
  (IF n < 10 THEN << >> ELSE Decimal[n \div 10]) \o <<48 + (n % 10)>>

\* mutant: row 0 is taken
SplitCellNameZero(cell) ==
  LET i   == SelectLastInSeq(cell, Alpha)
      row == Atoi(SubSeq(cell, i + 1, Len(cell)))
  IN  IF cell # << >> /\ Alpha(cell[1]) /\ i < Len(cell) /\ row # None /\ row[1] >= 0
      THEN <<[col |-> SubSeq(cell, 1, i), row |-> row[1]]>>
      ELSE None

\* the name is cut after its LAST letter
SplitCellName(cell) ==
  LET i   == SelectLastInSeq(cell, Alpha)
      row == Atoi(SubSeq(cell, i + 1, Len(cell)))
  IN  IF cell # << >> /\ Alpha(cell[1]) /\ i < Len(cell) /\ row # None /\ row[1] > 0
      THEN <<[col |-> SubSeq(cell, 1, i), row |-> row[1]]>>
      ELSE None

JoinCellName(col, row) ==
  IF col = << >> \/ ~ AllOf(Alpha, col) \/ row < 1
  THEN None
  ELSE <<[i \in 1..Len(col) |-> IF Lower(col[i]) THEN col[i] - 32 ELSE col[i]]
         \o Decimal[row]>>

CellNameToCoordinates(cell) ==
  LET split == SplitCellName(cell)
      col   == ColumnNameToNumber(split[1].col)
  IN  IF split = None \/ col = None THEN None ELSE <<col[1], split[1].row>>

CoordinatesToCellName(col, row) ==
  IF col < 1 \/ row < 1 THEN None
  ELSE <<ColumnNumberToName(col)[1] \o Decimal[row]>>

-----------------------------------------------------------------------------
(* genSheetPasswd.  The character at position p is shifted left p bits;    *)
(* from p = 15 on all its bits are beyond bit 15, and they are shifted     *)
(* down by 15, not rotated, so the sum below grows with the password.      *)

\* mutant: the bits beyond bit 15 are dropped
RotatedBitsDropped(v, p) == 0

LowBits(v, p)     == IF p >= 15 THEN 0 ELSE (v * 2^p) % 2^15
RotatedBits(v, p) == IF p >= 15 THEN v * 2^(p - 15) ELSE (v * 2^p) \div 2^15

\* the password read from its first character, and its length in bytes
GenSheetPasswd(plaintext) ==
  FoldLeftDomain(LAMBDA hash, p :
      hash ^^ (LowBits(plaintext[p], p) | RotatedBits(plaintext[p], p)),
    0, plaintext) ^^ (Len(plaintext) ^^ 52811)
============================================================================
