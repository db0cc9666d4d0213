----------------------------- MODULE MCCellRun -----------------------------
EXTENDS CellRun
\* Two shapes stand for the five of run-cell.sh: one before and one behind.
TwoShapes == <<"bridge", "macvlan">>
OneShape == <<"bridge">>
=============================================================================
