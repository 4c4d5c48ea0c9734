-------------------------- MODULE MutationSuite_proofs --------------------------
(****************************************************************************)
(* Proofs about the mutation suite, for every table of falsifiers and every    *)
(* number of builds and kills.                                               *)
(****************************************************************************)
EXTENDS MutationSuite, TLAPS

(* A run that nothing disturbed has a compiled environment.                    *)
Undisturbed == ~disturbed => ready

(* Past its control, a falsifier's control was accepted.                       *)
ControlPassed == pc \in {"plant", "judge"} /\ current \in Controlled => current \in accepts

(* A run is over exactly when its outcome is known.                           *)
OutcomeIsLast ==
    /\ pc # "done" => exit = "none"
    /\ exit = "pass" => \A f \in Falsifiers : rows[f] = "PASS"

(* The PASS rows of an undisturbed run are earned.                            *)
UndisturbedRows ==
    ~disturbed => \A f \in Falsifiers :
        rows[f] = "PASS" => f \in rejects /\ (f \in Controlled => f \in accepts)

(* What is on disk and was not left there is the current falsifier's.          *)
OnlyTheCurrent ==
    /\ scratch \subseteq keptScratch \cup
           (IF pc \in {"control", "plant", "judge"} THEN Own ELSE {})
    /\ probes \subseteq keptProbes \cup (IF pc = "judge" THEN {current} ELSE {})

SuiteInv ==
    /\ TypeOK
    /\ DiagnosedRowsAreEarned
    /\ Undisturbed
    /\ ControlPassed
    /\ OutcomeIsLast
    /\ UndisturbedRows
    /\ OnlyTheCurrent

--------------------------------------------------------------------------------

(* Dropping the directory of a falsifier, or failing to.                      *)
LEMMA DropKeeps ==
    ASSUME keptScratch \subseteq scratch, scratch \subseteq keptScratch \cup Own,
           NEW row, Drop(row)
    PROVE  scratch' \subseteq scratch /\ keptScratch' = scratch'
BY DEF Drop, Dropped

(* So it is with the probe of a falsifier that was judged.                    *)
LEMMA RemoveKeeps ==
    ASSUME SuiteInv, pc = "judge", RemoveProbe
    PROVE  probes' \subseteq InTree /\ keptProbes' = probes'
BY DEF SuiteInv, TypeOK, OnlyTheCurrent, RemoveProbe, LeaveProbe

(* What a falsifier's return does to its row, the next falsifier and the exit. *)
LEMMA ReturnTypes ==
    ASSUME TypeOK, pc # "done", NEW row \in {"PASS", "FAIL"}, Return(row)
    PROVE  /\ rows' \in [Falsifiers -> {"none", "PASS", "FAIL"}]
           /\ \A f \in Falsifiers : rows'[f] = (IF f = current THEN row ELSE rows[f])
           /\ Drop(row)
           /\ pc' \in {"begin", "done"}
           /\ current' \in Falsifiers
           /\ \/ pc' = "begin" /\ exit' = exit
              \/ /\ pc' = "done"
                 /\ exit' \in {"pass", "fail"}
                 /\ exit' = "pass" => \A f \in Falsifiers : rows'[f] = "PASS"
<1>1. /\ rows \in [Falsifiers -> {"none", "PASS", "FAIL"}]
      /\ current \in Falsifiers
  BY DEF TypeOK
<1>2. rows' = [rows EXCEPT ![current] = row] /\ Drop(row)
  BY DEF Return
<1>3. /\ rows' \in [Falsifiers -> {"none", "PASS", "FAIL"}]
      /\ \A f \in Falsifiers : rows'[f] = (IF f = current THEN row ELSE rows[f])
  BY <1>1, <1>2
<1>4. CASE IsLast
  BY <1>1, <1>2, <1>3, <1>4 DEF Return
<1>5. CASE ~IsLast
  <2>1. current' = current + 1 /\ pc' = "begin" /\ exit' = exit
    BY <1>5 DEF Return
  <2>2. Last \in Nat /\ current \in 1 .. Last /\ current # Last
    BY <1>1, <1>5, MutationSuiteAssumption DEF IsLast, Falsifiers
  <2>3. current + 1 \in 1 .. Last
    BY <2>2
  <2> QED BY <1>2, <1>3, <2>1, <2>3 DEF Falsifiers
<1> QED BY <1>4, <1>5

(* Returning a row that is earned keeps the invariant, when the probe that is   *)
(* there was left.                                                            *)
LEMMA ReturnKeeps ==
    ASSUME SuiteInv, pc # "done", NEW row \in {"PASS", "FAIL"}, Return(row),
           UNCHANGED <<checkers, machine, disturbed>>,
           probes' \subseteq InTree, keptProbes' = probes',
           row = "PASS" => /\ pc = "judge"
                           /\ current \in Diagnosed \/ current \notin Elaborated \/ ready
                                  => current \in rejects
    PROVE  SuiteInv'
<1>0. TypeOK
  BY DEF SuiteInv
<1>1. /\ rows' \in [Falsifiers -> {"none", "PASS", "FAIL"}]
      /\ \A f \in Falsifiers : rows'[f] = (IF f = current THEN row ELSE rows[f])
      /\ Drop(row)
      /\ pc' \in {"begin", "done"}
      /\ current' \in Falsifiers
      /\ \/ pc' = "begin" /\ exit' = exit
         \/ /\ pc' = "done"
            /\ exit' \in {"pass", "fail"}
            /\ exit' = "pass" => \A f \in Falsifiers : rows'[f] = "PASS"
  BY <1>0, ReturnTypes
<1>2. /\ accepts' = accepts /\ rejects' = rejects /\ ready' = ready
      /\ builds' = builds /\ kills' = kills /\ disturbed' = disturbed
  BY DEF checkers, machine
<1>3. scratch' \subseteq scratch /\ keptScratch' = scratch'
  <2>1. keptScratch \subseteq scratch /\ scratch \subseteq keptScratch \cup Own
    BY DEF SuiteInv, TypeOK, OnlyTheCurrent
  <2> QED BY <1>1, <2>1, DropKeeps
<1>4. TypeOK'
  <2>1. current' \in 0 .. Last
    BY <1>1, MutationSuiteAssumption DEF Falsifiers
  <2> QED BY <1>0, <1>1, <1>2, <1>3, <2>1 DEF TypeOK
<1>5. DiagnosedRowsAreEarned'
  BY <1>1, <1>2 DEF SuiteInv, DiagnosedRowsAreEarned
<1>6. Undisturbed' /\ ControlPassed'
  BY <1>1, <1>2 DEF SuiteInv, Undisturbed, ControlPassed
<1>7. OutcomeIsLast'
  BY <1>1 DEF SuiteInv, OutcomeIsLast
<1>8. UndisturbedRows'
  <2> SUFFICES ASSUME ~disturbed', NEW f \in Falsifiers, rows'[f] = "PASS"
               PROVE  f \in rejects /\ (f \in Controlled => f \in accepts)
    BY <1>2 DEF UndisturbedRows
  <2>1. ready
    BY <1>2 DEF SuiteInv, Undisturbed
  <2>2. CASE f = current
    BY <1>1, <2>1, <2>2 DEF SuiteInv, ControlPassed
  <2>3. CASE f # current
    BY <1>1, <1>2, <2>3 DEF SuiteInv, UndisturbedRows
  <2> QED BY <2>2, <2>3
<1>9. OnlyTheCurrent'
  BY <1>3 DEF OnlyTheCurrent
<1> QED BY <1>4, <1>5, <1>6, <1>7, <1>8, <1>9 DEF SuiteInv

LEMMA SuiteInit == Init => SuiteInv
<1> SUFFICES ASSUME Init PROVE SuiteInv
  OBVIOUS
<1>1. 0 \in 0 .. MaxBuilds /\ 0 \in 0 .. MaxKills /\ 0 \in 0 .. Last
  BY MutationSuiteAssumption
<1>2. rows \in [Falsifiers -> {"none", "PASS", "FAIL"}] /\ \A f \in Falsifiers : rows[f] = "none"
  BY DEF Init, NoRows
<1>3. TypeOK
  BY <1>1, <1>2 DEF Init, TypeOK
<1> QED
  BY <1>2, <1>3 DEF Init, SuiteInv, DiagnosedRowsAreEarned, Undisturbed, ControlPassed,
                    OutcomeIsLast, UndisturbedRows, OnlyTheCurrent

LEMMA SuiteStep == SuiteInv /\ [Next]_vars => SuiteInv'
<1> SUFFICES ASSUME SuiteInv, [Next]_vars PROVE SuiteInv'
  OBVIOUS
<1> USE DEF SuiteInv
<1>1. CASE BeginBuild
  <2>1. builds' \in 0 .. MaxBuilds
    <3>1. builds \in 0 .. MaxBuilds /\ MaxBuilds \in Nat
      BY MutationSuiteAssumption DEF TypeOK
    <3> QED BY <1>1, <3>1 DEF BeginBuild
  <2>2. TypeOK'
    BY <1>1, <2>1 DEF BeginBuild, TypeOK, checkers, inTemp, inRoot
  <2> QED
    BY <1>1, <2>2 DEF BeginBuild, checkers, inTemp, inRoot, Own, Run, DiagnosedRowsAreEarned, Undisturbed,
                      ControlPassed, OutcomeIsLast, UndisturbedRows, OnlyTheCurrent
<1>2. CASE EndBuild
  BY <1>2 DEF EndBuild, checkers, inTemp, inRoot, Own, Run, TypeOK, DiagnosedRowsAreEarned, Undisturbed,
              ControlPassed, OutcomeIsLast, UndisturbedRows, OnlyTheCurrent
<1>3. CASE Kill
  <2>1. kills' \in 0 .. MaxKills /\ kills' # 0
    <3>1. kills \in 0 .. MaxKills /\ MaxKills \in Nat
      BY MutationSuiteAssumption DEF TypeOK
    <3> QED BY <1>3, <3>1 DEF Kill
  <2>2. TypeOK'
    BY <1>3, <2>1 DEF Kill, TypeOK, checkers, Own, Run
  <2> QED
    BY <1>3, <2>1, <2>2 DEF Kill, checkers, Own, Run, DiagnosedRowsAreEarned, Undisturbed,
                            ControlPassed, OutcomeIsLast, UndisturbedRows, OnlyTheCurrent
<1>4. CASE Start
  <2>1. 1 \in 0 .. Last /\ 1 \in Falsifiers
    BY MutationSuiteAssumption DEF Falsifiers
  <2>2. rows' \in [Falsifiers -> {"none", "PASS", "FAIL"}] /\ \A f \in Falsifiers : rows'[f] = "none"
    BY <1>4 DEF Start, NoRows
  <2>3. TypeOK'
    BY <1>4, <2>1, <2>2 DEF Start, TypeOK, checkers, machine, inTemp, inRoot
  <2> QED
    BY <1>4, <2>2, <2>3 DEF Start, checkers, machine, inTemp, inRoot, DiagnosedRowsAreEarned, Undisturbed,
                            ControlPassed, OutcomeIsLast, UndisturbedRows, OnlyTheCurrent
<1>5. CASE CreateScratch
  <2>1. /\ pc = "begin" /\ pc' \in {"control", "plant"}
        /\ pc' = "plant" => current \notin Controlled
        /\ current' = current /\ rows' = rows /\ exit' = exit
        /\ accepts' = accepts /\ rejects' = rejects /\ ready' = ready /\ builds' = builds
        /\ kills' = kills /\ probes' = probes /\ disturbed' = disturbed
        /\ keptScratch' = keptScratch /\ keptProbes' = keptProbes
        /\ scratch' = IF current \in InScratch THEN scratch \cup {<<kills, current>>} ELSE scratch
    BY <1>5 DEF CreateScratch, Proceed, checkers, machine, inRoot, Own, Run
  <2>2. TypeOK'
    BY <2>1 DEF TypeOK
  <2>3. OnlyTheCurrent'
    BY <2>1 DEF OnlyTheCurrent, Own, Run
  <2> QED
    BY <2>1, <2>2, <2>3 DEF DiagnosedRowsAreEarned, Undisturbed, ControlPassed,
                            OutcomeIsLast, UndisturbedRows
<1>6. CASE CheckControl
  <2>1. CASE Accepted
    <3>1. /\ pc = "control" /\ pc' = "plant" /\ current \in accepts
          /\ UNCHANGED <<current, rows, exit, scratch, accepts, rejects, ready, builds,
                         kills, probes, keptScratch, keptProbes, disturbed>>
      BY <1>6, <2>1 DEF CheckControl, Accepted, Proceed, checkers, machine, inRoot, inTemp
    <3> QED
      BY <3>1 DEF TypeOK, DiagnosedRowsAreEarned, Undisturbed, ControlPassed,
                  OutcomeIsLast, UndisturbedRows, OnlyTheCurrent, Own, Run
  <2>2. CASE ~Accepted
    <3>1. probes' \subseteq InTree /\ keptProbes' = probes'
      BY <1>6, <2>2 DEF CheckControl, inRoot, TypeOK, OnlyTheCurrent
    <3> QED BY <1>6, <2>2, <3>1, ReturnKeeps DEF CheckControl
  <2> QED BY <2>1, <2>2
<1>7. CASE Plant
  <2>1. /\ pc = "plant" /\ pc' = "judge"
        /\ UNCHANGED <<current, rows, exit, scratch, keptScratch, accepts, rejects, ready,
                       builds, kills, disturbed>>
        /\ IF current \in InTree
           THEN probes' = probes \cup {current} /\ keptProbes' = keptProbes \ {current}
           ELSE UNCHANGED <<probes, keptProbes>>
    BY <1>7 DEF Plant, Proceed, checkers, machine, inTemp, inRoot
  <2>2. TypeOK'
    BY <2>1 DEF TypeOK
  <2>3. OnlyTheCurrent'
    BY <2>1 DEF OnlyTheCurrent, Own, Run
  <2> QED
    BY <2>1, <2>2, <2>3 DEF DiagnosedRowsAreEarned, Undisturbed, ControlPassed,
                            OutcomeIsLast, UndisturbedRows
<1>8. CASE Judge
  <2> DEFINE rejected == \/ current \in rejects /\ (current \in Elaborated => ready)
                         \/ current \in Elaborated \ Diagnosed /\ ~ready
             row == IF rejected THEN "PASS" ELSE "FAIL"
  <2>1. pc = "judge" /\ RemoveProbe /\ Return(row)
        /\ UNCHANGED <<checkers, machine, disturbed>>
    BY <1>8 DEF Judge
  <2>4. probes' \subseteq InTree /\ keptProbes' = probes'
    BY <2>1, RemoveKeeps
  <2>2. row \in {"PASS", "FAIL"} /\ (row = "PASS" => rejected)
    OBVIOUS
  <2>3. rejected => (current \in Diagnosed \/ current \notin Elaborated \/ ready
                        => current \in rejects)
    OBVIOUS
  <2> HIDE DEF rejected, row
  <2> QED BY <2>1, <2>2, <2>3, <2>4, ReturnKeeps
<1>9. CASE Err
  <2>1. CASE pc = "judge" /\ RemoveProbe
    BY <1>9, <2>1, ReturnKeeps, RemoveKeeps DEF Err
  <2>2. CASE pc # "judge" /\ UNCHANGED inRoot
    <3>1. probes' \subseteq InTree /\ keptProbes' = probes'
      BY <2>2 DEF inRoot, TypeOK, OnlyTheCurrent
    <3> QED BY <1>9, <2>2, <3>1, ReturnKeeps DEF Err
  <2>3. CASE WriteFails
    <3>1. probes' \subseteq InTree /\ keptProbes' = probes'
      BY <2>3 DEF WriteFails, TypeOK, OnlyTheCurrent
    <3> QED BY <1>9, <2>3, <3>1, ReturnKeeps DEF Err
  <2> QED BY <1>9, <2>1, <2>2, <2>3 DEF Err
<1>10. CASE UNCHANGED vars
  BY <1>10 DEF vars, checkers, machine, inTemp, inRoot, Own, Run, TypeOK, DiagnosedRowsAreEarned, Undisturbed, ControlPassed,
               OutcomeIsLast, UndisturbedRows, OnlyTheCurrent
<1> QED
  BY <1>1, <1>2, <1>3, <1>4, <1>5, <1>6, <1>7, <1>8, <1>9, <1>10 DEF Next

LEMMA SuiteInvariant == Spec => []SuiteInv
BY SuiteInit, SuiteStep, PTL DEF Spec

--------------------------------------------------------------------------------

(* Every variable of the suite keeps its type.                                *)
THEOREM SuiteTypes == Spec => []TypeOK
<1>1. SuiteInv => TypeOK
  BY DEF SuiteInv
<1> QED BY <1>1, SuiteInvariant, PTL

(* Where the expected text is required, or no elaboration is involved, a PASS   *)
(* row says that the checker rejects the planted fault, whatever is built.     *)
THEOREM DiagnosedRows == Spec => []DiagnosedRowsAreEarned
<1>1. SuiteInv => DiagnosedRowsAreEarned
  BY DEF SuiteInv
<1> QED BY <1>1, SuiteInvariant, PTL

(* The closing line of a run during which nothing was built is true of every    *)
(* falsifier and every control.                                              *)
THEOREM UndisturbedPass == Spec => []UndisturbedPassIsEarned
<1>1. SuiteInv => UndisturbedPassIsEarned
  <2> SUFFICES ASSUME SuiteInv, exit = "pass", ~disturbed
               PROVE  rejects = Falsifiers /\ Controlled \subseteq accepts
    BY DEF UndisturbedPassIsEarned
  <2>1. \A f \in Falsifiers : f \in rejects /\ (f \in Controlled => f \in accepts)
    BY DEF SuiteInv, OutcomeIsLast, UndisturbedRows
  <2>2. rejects \subseteq Falsifiers /\ Controlled \subseteq Falsifiers
    BY MutationSuiteAssumption DEF SuiteInv, TypeOK
  <2> QED BY <2>1, <2>2
<1> QED BY <1>1, SuiteInvariant, PTL

(* Between falsifiers, what is on disk was left by a kill or a system call that *)
(* failed, whichever falsifiers erred.                                       *)
THEOREM SuiteCleansUp == Spec => []NothingIsLeft
<1>1. SuiteInv => NothingIsLeft
  BY DEF SuiteInv, OnlyTheCurrent, NothingIsLeft
<1> QED BY <1>1, SuiteInvariant, PTL

================================================================================
