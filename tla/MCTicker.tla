------------------------------- MODULE MCTicker -------------------------------
(* Ticker with interchangeable tickers: no callback configures a ticker but  *)
(* its own, so every permutation of them is a symmetry.                      *)
EXTENDS Ticker, TLC

TickerSymmetry == Permutations(Tickers)
===============================================================================
