--------------------------- MODULE MCTickAndReflect ---------------------------
(***************************************************************************)
(* Values for model checking TickAndReflect.                               *)
(***************************************************************************)
EXTENDS TickAndReflect, TLC

LongOnly == {1}
NoneUnhealable == {}
SymbolPermutations == Permutations(Symbols)
=============================================================================
