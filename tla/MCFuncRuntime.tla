--------------------------- MODULE MCFuncRuntime ----------------------------
(* Instances of FuncRuntime for TLC.                                       *)
EXTENDS FuncRuntime

CONSTANTS c1, l1

OneCall     == {c1}
OneReloader == {l1}
=============================================================================
