------------------------------ MODULE MutationSuite ------------------------------
(****************************************************************************)
(* `xtask mutation`: the planted-falsifier suite of SPEC 18.  Each falsifier   *)
(* shows the checker it attacks an unmutated control and then the same input   *)
(* with a fault planted, in a scratch directory that is removed on drop.  Some *)
(* put both to `lean`, whose compiled environment a `lake build` started       *)
(* elsewhere may be rebuilding; the suite may be killed and started again, and *)
(* no falsifier looks at whether its directory and its probe could be removed. *)
(****************************************************************************)
EXTENDS Integers, FiniteSets

CONSTANTS
    Last,          \* the falsifiers are 1 .. Last, in the order of the table
    Controlled,    \* those that check an unmutated control
    Elaborated,    \* those whose mutant `lean` has to elaborate
    ControlElaborated,  \* those of them whose control it has to elaborate too
    Diagnosed,     \* those that require the expected text in the rejection
    InScratch,     \* those that plant in a directory of their own
    InTree,        \* those that also probe at a path in the repository root
    MaxBuilds,     \* bound on the builds
    MaxKills       \* bound on the kills

Falsifiers == 1 .. Last

ASSUME MutationSuiteAssumption ==
    /\ Last \in Nat \ {0}
    /\ Controlled \subseteq Falsifiers
    /\ Elaborated \subseteq Falsifiers
    /\ ControlElaborated \subseteq Controlled \cap Elaborated
    /\ Diagnosed \subseteq Falsifiers
    /\ InScratch \subseteq Falsifiers
    /\ InTree \subseteq Elaborated
    /\ MaxBuilds \in Nat
    /\ MaxKills \in Nat

VARIABLES
    accepts,       \* falsifiers whose control the checker accepts
    rejects,       \* falsifiers whose planted fault the checker rejects
    ready,         \* the compiled environment can be imported
    builds,
    kills,
    pc,            \* the step of the current falsifier, or "done"
    current,       \* the falsifier, 0 before the first run
    rows,          \* what has been printed
    scratch,       \* <<run, falsifier>> of the scratch directories on disk
    probes,        \* falsifiers whose probe is in the repository root
    keptScratch,   \* scratch directories that a kill left, or a failed removal
    keptProbes,    \* and probes, which a failed write leaves too
    disturbed,     \* a build was running at some moment of this run
    exit           \* "none" while the suite is running

checkers == <<accepts, rejects>>
machine  == <<ready, builds, kills>>
inRoot   == <<probes, keptProbes>>
inTemp   == <<scratch, keptScratch>>
vars == <<checkers, machine, pc, current, rows, inTemp, inRoot, disturbed, exit>>

Run == kills       \* a suite is started again only after it ended or was killed

NoRows == [f \in Falsifiers |-> "none"]

Init ==
    /\ accepts \in SUBSET Falsifiers
    /\ rejects \in SUBSET Falsifiers
    /\ ready = TRUE
    /\ builds = 0
    /\ kills = 0
    /\ pc = "done"
    /\ current = 0
    /\ rows = NoRows
    /\ scratch = {}
    /\ probes = {}
    /\ keptScratch = {}
    /\ keptProbes = {}
    /\ disturbed = FALSE
    /\ exit = "none"

--------------------------------------------------------------------------------
(* The rest of the machine. *)

BeginBuild ==
    /\ ready
    /\ builds < MaxBuilds
    /\ builds' = builds + 1
    /\ ready' = FALSE
    /\ disturbed' = TRUE
    /\ UNCHANGED <<checkers, kills, pc, current, rows, inTemp, inRoot, exit>>

EndBuild ==
    /\ ~ready
    /\ ready' = TRUE
    /\ UNCHANGED <<checkers, builds, kills, pc, current, rows, inTemp, inRoot,
                   disturbed, exit>>

Own == {<<Run, current>>}

(* What is the current falsifier's stays where it is.                          *)
Kill ==
    /\ pc # "done"
    /\ kills < MaxKills
    /\ kills' = kills + 1
    /\ pc' = "done"
    /\ exit' = "killed"
    /\ keptScratch' = keptScratch \cup (scratch \cap Own)
    /\ keptProbes' = keptProbes \cup (probes \cap {current})
    /\ UNCHANGED <<checkers, ready, builds, current, rows, scratch, probes, disturbed>>

--------------------------------------------------------------------------------
(* The suite. *)

Start ==
    /\ pc = "done"
    /\ exit = "none" \/ exit = "killed"
    /\ pc' = "begin"
    /\ current' = 1
    /\ rows' = NoRows
    /\ exit' = "none"
    /\ disturbed' = ~ready
    /\ UNCHANGED <<checkers, machine, inTemp, inRoot>>

(* Fault: a falsifier that is not a PASS keeps its directory for inspection.   *)
DroppedOnPass(row) == IF row = "PASS" THEN scratch \ Own ELSE scratch

(* The scratch directories left when the current falsifier drops its own,      *)
(* whatever its row.                                                          *)
Dropped(row) == scratch \ Own

(* Drop removes the directory, or fails to and says nothing.                   *)
Drop(row) ==
    \/ scratch' = Dropped(row) /\ keptScratch' = keptScratch \ Own
    \/ keptScratch' = keptScratch \cup (scratch \cap Own) /\ UNCHANGED scratch

(* So does probe_source with its probe.                                       *)
LeaveProbe == UNCHANGED probes /\ keptProbes' = keptProbes \cup (probes \cap {current})
RemoveProbe ==
    \/ probes' = probes \ {current} /\ keptProbes' = keptProbes \ {current}
    \/ LeaveProbe

(* Fault: one row past the end of the table.                                   *)
IsPastLast == current > Last

IsLast == current = Last

(* The falsifier returns: its directory is dropped, its row is printed, and    *)
(* after the last row the suite passes only if every row is a PASS.            *)
Return(row) ==
    /\ rows' = [rows EXCEPT ![current] = row]
    /\ Drop(row)
    /\ IF IsLast
       THEN /\ pc' = "done"
            /\ exit' = IF \A f \in Falsifiers : rows'[f] = "PASS" THEN "pass" ELSE "fail"
            /\ UNCHANGED current
       ELSE current' = current + 1 /\ pc' = "begin" /\ UNCHANGED exit

Proceed(step) == pc' = step /\ UNCHANGED <<current, rows, exit>>

CreateScratch ==
    /\ pc = "begin"
    /\ scratch' = IF current \in InScratch THEN scratch \cup Own ELSE scratch
    /\ Proceed(IF current \in Controlled THEN "control" ELSE "plant")
    /\ UNCHANGED <<checkers, machine, keptScratch, inRoot, disturbed>>

(* The checker on the unmutated input.  A control that is not accepted is an    *)
(* error or a FAIL row, never a rejection.                                    *)
Accepted == current \in accepts /\ (current \in ControlElaborated => ready)

(* Fault: the verdict on the control is not looked at.                         *)
CheckControlIgnored ==
    /\ pc = "control"
    /\ Proceed("plant")
    /\ UNCHANGED <<checkers, machine, inRoot, disturbed, inTemp>>

CheckControl ==
    /\ pc = "control"
    /\ IF Accepted THEN Proceed("plant") /\ UNCHANGED inTemp ELSE Return("FAIL")
    /\ UNCHANGED <<checkers, machine, inRoot, disturbed>>

(* The fault is planted; an InTree falsifier writes its probe, over one that    *)
(* an earlier run left.                                                       *)
Plant ==
    /\ pc = "plant"
    /\ Proceed("judge")
    /\ IF current \in InTree
       THEN probes' = probes \cup {current} /\ keptProbes' = keptProbes \ {current}
       ELSE UNCHANGED inRoot
    /\ UNCHANGED <<checkers, machine, inTemp, disturbed>>

(* Fault: whatever fails to elaborate counts as rejected.                      *)
JudgeUndiagnosed ==
    /\ pc = "judge"
    /\ RemoveProbe
    /\ Return(IF current \in rejects \/ (current \in Elaborated /\ ~ready)
              THEN "PASS" ELSE "FAIL")
    /\ UNCHANGED <<checkers, machine, disturbed>>

(* The checker on the planted input.  Where no text is required of the         *)
(* rejection, an elaboration that fails for want of its imports is one too.    *)
Judge ==
    /\ pc = "judge"
    /\ RemoveProbe
    /\ Return(IF \/ current \in rejects /\ (current \in Elaborated => ready)
                 \/ current \in Elaborated \ Diagnosed /\ ~ready
              THEN "PASS" ELSE "FAIL")
    /\ UNCHANGED <<checkers, machine, disturbed>>

(* The write of the probe fails, possibly half done, and the error is returned  *)
(* without removing it (lean.rs:257).                                         *)
WriteFails ==
    /\ pc = "plant" /\ current \in InTree
    /\ probes' = probes \cup {current}
    /\ keptProbes' = keptProbes \cup {current}

(* An anchor that is not where the falsifier expects it, a file or a process    *)
(* that cannot be used: the row is red, and a probe that was written is removed *)
(* as after an answer.                                                        *)
Err ==
    /\ pc # "done"
    /\ Return("FAIL")
    /\ \/ pc = "judge" /\ RemoveProbe
       \/ pc # "judge" /\ UNCHANGED inRoot
       \/ WriteFails
    /\ UNCHANGED <<checkers, machine, disturbed>>

Next ==
    \/ BeginBuild \/ EndBuild \/ Kill
    \/ Start \/ CreateScratch \/ CheckControl \/ Plant \/ Judge \/ Err

Spec == Init /\ [][Next]_vars

--------------------------------------------------------------------------------
(* Properties. *)

(* Every variable keeps its type; a probe in the tree and a scratch directory  *)
(* of this run belong to the falsifier that is running.                        *)
TypeOK ==
    /\ accepts \subseteq Falsifiers
    /\ rejects \subseteq Falsifiers
    /\ ready \in BOOLEAN
    /\ builds \in 0 .. MaxBuilds
    /\ kills \in 0 .. MaxKills
    /\ pc \in {"begin", "control", "plant", "judge", "done"}
    /\ current \in 0 .. Last
    /\ pc # "done" => current \in Falsifiers
    /\ rows \in [Falsifiers -> {"none", "PASS", "FAIL"}]
    /\ scratch \subseteq (0 .. MaxKills) \X InScratch
    /\ probes \subseteq InTree
    /\ keptScratch \subseteq scratch
    /\ keptProbes \subseteq probes
    /\ disturbed \in BOOLEAN
    /\ exit \in {"none", "pass", "fail", "killed"}

(* A falsifier whose rejection must carry the expected text, and one that does  *)
(* not depend on the compiled environment, prints PASS only if the checker     *)
(* rejects the fault, whatever is built or killed in between.                  *)
DiagnosedRowsAreEarned ==
    \A f \in Falsifiers :
        rows[f] = "PASS" /\ (f \in Diagnosed \/ f \notin Elaborated) => f \in rejects

(* "every planted fault was rejected" is true of a run during which nothing was *)
(* built: every checker rejects its fault, and accepts the control where there *)
(* is one.                                                                   *)
UndisturbedPassIsEarned ==
    exit = "pass" /\ ~disturbed => rejects = Falsifiers /\ Controlled \subseteq accepts

(* TempDir is "removed on drop" and a probe "whatever happened": whenever no     *)
(* falsifier is running, each scratch directory and each probe that is there   *)
(* was left by a kill or by a system call that failed, whatever the rows were   *)
(* and whichever falsifiers erred.                                           *)
NothingIsLeft == pc = "done" => scratch \subseteq keptScratch /\ probes \subseteq keptProbes

================================================================================
