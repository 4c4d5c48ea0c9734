--------------------------------- MODULE MCProbe ---------------------------------
(* The axiom audit over a proved declaration; `claims required`, whose path      *)
(* `signature` and the gate use too, over that one and one that need not exist; *)
(* the independence audit.                                                   *)
EXTENDS Probe, TLC

CONSTANTS proved, listed, c1, c2

MCTools  == {"axioms", "required", "independence"}
MCKindOf == [t \in MCTools |-> CASE t = "axioms" -> "audit"
                                 [] t = "required" -> "presence"
                                 [] t = "independence" -> "independence"]
MCPathOf == [t \in MCTools |-> CASE t = "axioms" -> ".axioms_probe.lean"
                                 [] t = "required" -> ".required_probe.lean"
                                 [] t = "independence" -> ".independence_probe.lean"]
MCAsksOf == [t \in MCTools |-> IF t = "axioms" THEN {proved} ELSE {proved, listed}]

MCSymmetry == Permutations({c1, c2})

================================================================================
