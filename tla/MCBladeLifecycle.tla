-------------------------- MODULE MCBladeLifecycle --------------------------
(***************************************************************************)
(* Small instances of BladeLifecycle: specifications "a" (one experiment), *)
(* "b" (one experiment) and "d" (two experiments).                         *)
(***************************************************************************)
EXTENDS BladeRefinement

AllSizes == [s \in {"a", "b", "d", "e"} |-> CASE s = "d" -> 2 [] s = "e" -> 0 [] OTHER -> 1]
SizeOf == [s \in Specs |-> AllSizes[s]]

=============================================================================
