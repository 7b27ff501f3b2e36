SPECIFICATION Spec
CONSTANTS
  base_free_reg = 5
  base_tmp_reg = 7
  last_tmp_reg = 9
  Symbols <- MCSymbols
  InputPins <- MCInputPins
  OutputPins <- MCOutputPins
  Word <- MCWord
  Literals = {1, 2}
  Ticks = {3}
  Alu <- MCAlu
  Less <- MCLess
  MaxSize = 4
  MaxOperands = 3
INVARIANTS VariablesKept EveryUseIsMeant LabelsResolve PinsAreConfigured
CHECK_DEADLOCK FALSE
