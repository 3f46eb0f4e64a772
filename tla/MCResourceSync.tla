---------------------------- MODULE MCResourceSync ----------------------------
(* ResourceSync for TLC.  Two versions whose specs differ, the second with  *)
(* a further field; a resource of the same name may be there already, with  *)
(* the spec of the second, with or without annotations of its own.          *)
EXTENDS ResourceSync, TLC

Symmetry == Permutations(Handlers)

MCKeys   == {"spec", "data"}
MCValues == {"a", "b"}

Having(spec, data) == [k \in MCKeys |-> IF k = "spec" THEN spec ELSE data]

MCContent == <<[fields |-> Having("a", None), annotated |-> FALSE],
               [fields |-> Having("b", "b"), annotated |-> FALSE]>>

MCFound == {[fields |-> Having("b", None), annotation |-> None, annotated |-> x] : x \in BOOLEAN}
===============================================================================
