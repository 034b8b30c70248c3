--------------------------- MODULE MCExitWatcher ---------------------------
(* Model-checking instance of ExitWatcher.  Entry is 100: the prices below *)
(* cover a mild dip, the two sides of the panic and of the -15% test, both *)
(* sides of entry, the profit lock and a doubled price.                    *)
EXTENDS ExitWatcher

MCPrices == {50, 84, 86, 90, 99, 100, 130, 210}
MCTrails == {300, 800, 2000}
=============================================================================
