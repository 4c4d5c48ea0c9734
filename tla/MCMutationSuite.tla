---------------------------- MODULE MCMutationSuite ----------------------------
(* The kinds of falsifier: 1 like M2 (registry, in a directory of its own),      *)
(* 2 like M7 (any failure to elaborate counts), 3 like M1 (neither control nor  *)
(* directory), 4 like M14 (control on the sources alone, a probe in the root).  *)
EXTENDS MutationSuite

MCControlled == {1, 2, 4}
MCElaborated == {2, 4}
MCControlElaborated == {2}
MCDiagnosed  == {1, 3, 4}
MCInScratch  == {1, 2, 4}
MCInTree     == {4}

================================================================================
