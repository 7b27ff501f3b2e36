---------------------------- MODULE MCPinPirate ----------------------------
(* Two scripts: one with two pins in bounds, one with a pin of a PRU 1     *)
(* header position whose offset lies beyond the mapped registers.          *)
EXTENDS PinPirate
MCScripts == {0, 1}
MCDigit == 0 .. 2
MCLines == [s \in MCScripts |-> IF s = 0 THEN << <<1, 2>>, <<3, 1>> >>
                                         ELSE << <<7, 1>>, <<4, 0>> >>]
=============================================================================
