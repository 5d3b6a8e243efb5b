--------------------------- MODULE MCForwardRecord ---------------------------
(***************************************************************************)
(* Values for model checking ForwardRecord, which the cfg files select.    *)
(***************************************************************************)
EXTENDS ForwardRecord, TLC

CONSTANTS s1, s2

LongOnly == {1}

NoneUnhealable == {}
\* One name's first bar can never be decided.
FirstBarUnhealable == {<<s1, 1>>}

SymbolPermutations == Permutations(Symbols)
=============================================================================
