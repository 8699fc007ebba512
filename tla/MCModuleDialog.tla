--------------------------- MODULE MCModuleDialog ---------------------------
(* Two modules and two addresses.                                           *)
EXTENDS ModuleDialog
CONSTANTS a, b, x, y
TwoModules == {a, b}
TwoAddrs == {x, y}
=============================================================================
