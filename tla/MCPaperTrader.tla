---------------------------- MODULE MCPaperTrader ----------------------------
(***************************************************************************)
(* Values for model checking PaperTrader, which the cfg file selects.      *)
(***************************************************************************)
EXTENDS PaperTrader

UpOrDown == {0, 1}
Steep == {NaN} \cup -2..2
AllEngines == {"mean_reversion", "momentum", "agent"}
=============================================================================
