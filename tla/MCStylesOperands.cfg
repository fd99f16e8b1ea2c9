SPECIFICATION Spec
CONSTANTS
  Requests <- MCRequests
  Conditions <- MCConditions
  BuiltIn = {0, 37}
  Currency = {188}
  Languages <- MCLanguages
  MaxStyles = 4
  SheetFiles <- MCFiles
CHECK_DEADLOCK FALSE
INVARIANTS
  RulesHaveValues
