----------------------------- MODULE MCCoreCoverage -----------------------------
EXTENDS CoreCoverage, TLC

CONSTANTS blockRule, brOpcode, arm, armPair, p1, p2, p3

MCItems    == {blockRule, brOpcode}
MCKindOf   == [i \in MCItems |-> IF i = brOpcode THEN 1 ELSE 2]
MCNames    == {arm, armPair}
MCWithin   == {<<arm, arm>>, <<armPair, armPair>>, <<arm, armPair>>}
MCSymmetry == Permutations(Places)

================================================================================
