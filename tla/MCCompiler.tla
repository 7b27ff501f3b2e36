----------------------------- MODULE MCCompiler -----------------------------
(* Values for TLC: words of two bits.                                      *)
EXTENDS Compiler, Bitwise

MCSymbols == {"x", "y"}
MCInputPins == {"P8_15", "P9_25"}
MCOutputPins == {"P8_11", "P9_25"}
MCWord == 0 .. 3
MCAlu(op, a, b) ==
  CASE op = "+" -> (a + b) % 4 [] op = "-" -> (a - b) % 4
    [] op = "&" -> a & b [] op = "|" -> a | b
MCLess(a, b) == a < b
=============================================================================
