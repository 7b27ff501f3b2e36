-------------------------------- MODULE MCIde --------------------------------
(* Values for TLC: two programs that compile and one that does not.        *)
EXTENDS Ide

MCSources == {<<"a">>, <<"b", "wrong">>}
MCTexts == {<< >>, <<"a">>}
MCEmpty == << >>
==============================================================================
