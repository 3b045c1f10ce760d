--------------------------- MODULE MCGridManager ---------------------------
(* GridManager for TLC: grids of two, three and four cells, as a column, a *)
(* row and a square; the file 2 is hidden.                                 *)
EXTENDS GridManager

MCSizes     == {<<1, 2>>, <<3, 1>>, <<2, 2>>}
MCShrinking == {<<2, 2>>, <<3, 1>>}
MCOneSize   == {<<1, 2>>}
MCHidden    == {2}
MCNoHidden  == {}

=============================================================================
