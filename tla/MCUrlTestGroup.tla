--------------------------- MODULE MCUrlTestGroup ---------------------------
(* An instance of UrlTestGroup for TLC: the first proxy may be so fast     *)
(* that no delay is measured, the second is slower than the first, within  *)
(* the tolerance or beyond it.                                             *)
EXTENDS UrlTestGroup

CONSTANTS a, b

OneList == {<<a, b>>}
DelaysOf == [n \in Names |-> IF n = a THEN {0, 2} ELSE {3, 4}]
=============================================================================
