------------------------------ MODULE MCPaperRun ------------------------------
(***************************************************************************)
(* Values for model checking PaperRun, which the cfg files select.         *)
(***************************************************************************)
EXTENDS PaperRun

TwoSymbols == 1..2
ThreeSymbols == 1..3
FourSymbols == 1..4

\* With a notional of 4: one share or two, and a position bought at the
\* lower price doubles past the per-trade cap, at the higher price halves.
TwoPrices == {2, 4}
OnePrice == {4}

LongOnly == {0, 1}
=============================================================================
