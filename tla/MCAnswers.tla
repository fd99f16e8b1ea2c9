----------------------------- MODULE MCAnswers -----------------------------
(***************************************************************************)
(* The questions.  Times: around 1900-03-01, and around the points where   *)
(* the loops of timeToExcelTime (105560 days) and timeFromExcelTime        *)
(* (106750 days) take another round, up to the year 2770.                  *)
(***************************************************************************)
EXTENDS Answers

MCColumns == (1..60) \cup (670..740) \cup (16380..16390) \cup (18270..18290)

MCStrings == UNION {[1..n -> {65, 122, 48, 57, 43}] : n \in 0..5}

MCNear == (60..66) \cup (105555..105565) \cup (106745..106755)
            \cup (211115..211125) \cup (213495..213505) \cup (317000..317010)
MCTimes == {d * Day + e : d \in MCNear, e \in {0, 1, 7}}

\* the days before 1900-03-01, of which TimesReadBack does not hold
MCEarly == {d * Day : d \in 1..59}

MCExcelTimes == {d * Day + e : d \in {-20000, -15020, -15019, -15018, -15017, -693, -1}
                                       \cup (0..64) \cup (1160..1162) \cup MCNear,
                                e \in {0, 1, 4, 7}}

\* characters that change all seven bits, up to the 23rd position
MCPasswords == {[i \in 1..n |-> IF i % 2 = 0 THEN a ELSE b] :
                  n \in 0..23, a \in {48, 126}, b \in {65, 85, 122}}

MCOrdered == <<"1", "2", "3">>
MCPatterns == {"b*"}
MCOps == {"==", "!=", "<", "<=", ">", ">=", "!"}
MCExpressions ==
  [op1 : MCOps, val1 : {"blanks", "nonblanks", "b*", "2"}]
    \cup [op1 : {"==", "!=", ">", "!"}, val1 : {"blanks", "b*", "1", "2"}, con : {"and", "or"},
          op2 : {"==", "<=", "!="}, val2 : {"nonblanks", "b*", "3"}]

\* theme colours reach to six series, to two in a pie
MCSeries(n) == [i \in 1..n |-> [categories |-> 10 + i, values |-> 20 + i]]
MCFormats ==
  {[type |-> t, series |-> MCSeries(n), xReverse |-> x, yReverse |-> y] :
     t \in ChartTypes, n \in {1, 2}, x, y \in BOOLEAN}
============================================================================
