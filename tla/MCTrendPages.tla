--------------------------- MODULE MCTrendPages ---------------------------
EXTENDS TrendPages

MCOpening == <<1, 2>>
MCChosen == {<<1, 2>>, <<2, 2>>}
=============================================================================
