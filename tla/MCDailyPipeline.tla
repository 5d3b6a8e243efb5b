--------------------------- MODULE MCDailyPipeline ---------------------------
(***************************************************************************)
(* Values for model checking DailyPipeline, which the cfg files select.    *)
(***************************************************************************)
EXTENDS DailyPipeline

CONSTANTS s1, s2

NeverHalted == {}
\* One symbol does not trade on a day the other one does.
HaltedOnce == {<<s2, 2>>}
=============================================================================
