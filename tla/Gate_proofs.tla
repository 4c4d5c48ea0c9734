------------------------------- MODULE Gate_proofs -------------------------------
(****************************************************************************)
(* Proofs about the release gate, for every set of declarations, registries,   *)
(* import graphs and schema files, and any number of things developers do.     *)
(****************************************************************************)
EXTENDS Gate, FiniteSetTheorems, WellFoundedInduction, TLAPS

(* The rows the gate has decided when it comes to step n.                      *)
RowsBefore(n) == UNION {RowsOf(Steps[i]) : i \in 1 .. n - 1}

(* Nothing is green before it was looked at.                                  *)
GreenWasRead == at # 0 => green \subseteq RowsBefore(at)

(* Nobody has done anything, or whoever did left a clean tree clean.           *)
Settled == quiet \/ (~cleaned /\ ~rebuilt /\ tree = head)

(* The rows shown as PASS would be shown again, and what was read still stands. *)
RowsStillHold ==
    Settled =>
        /\ \A r \in green \ ExternalSteps : Holds(r, tree, env, claims, credited)
        /\ at > 7 => claims = tree.claims
        /\ at > 15 => credited = CreditedIn(tree, env)

GateInv == TypeOK /\ GreenWasRead /\ RowsStillHold

--------------------------------------------------------------------------------
(* Where each step stands.                                                    *)

LEMMA StepsAre ==
    /\ Len(Steps) = 22
    /\ Steps[1] = "authority" /\ Steps[2] = "manifest" /\ Steps[3] = "toolchain"
    /\ Steps[4] = "vendored" /\ Steps[5] = "literals" /\ Steps[6] = "amendments"
    /\ Steps[7] = "registry" /\ Steps[8] = "boundary" /\ Steps[9] = "firewall"
    /\ Steps[10] = "build" /\ Steps[11] = "elaborates" /\ Steps[12] = "scan"
    /\ Steps[13] = "axioms" /\ Steps[14] = "deviations" /\ Steps[15] = "inventory"
    /\ Steps[16] = "signatures" /\ Steps[17] = "presence" /\ Steps[18] = "schema"
    /\ Steps[19] = "artifact" /\ Steps[20] = "mutation" /\ Steps[21] = "root"
    /\ Steps[22] = "git"
<1>1. Len(Steps) = 22
  BY DEF Steps, Identities, Compiling, Auditing, Asking, Closing
<1>2. /\ Steps[1] = "authority" /\ Steps[2] = "manifest" /\ Steps[3] = "toolchain"
      /\ Steps[4] = "vendored" /\ Steps[5] = "literals" /\ Steps[6] = "amendments"
      /\ Steps[7] = "registry" /\ Steps[8] = "boundary" /\ Steps[9] = "firewall"
  BY DEF Steps, Identities, Compiling, Auditing, Asking, Closing
<1>3. /\ Steps[10] = "build" /\ Steps[11] = "elaborates" /\ Steps[12] = "scan"
      /\ Steps[13] = "axioms" /\ Steps[14] = "deviations" /\ Steps[15] = "inventory"
      /\ Steps[16] = "signatures"
  BY DEF Steps, Identities, Compiling, Auditing, Asking, Closing
<1>4. /\ Steps[17] = "presence" /\ Steps[18] = "schema" /\ Steps[19] = "artifact"
      /\ Steps[20] = "mutation" /\ Steps[21] = "root" /\ Steps[22] = "git"
  BY DEF Steps, Identities, Compiling, Auditing, Asking, Closing
<1> QED
  BY <1>1, <1>2, <1>3, <1>4

LEMMA DomainOfSteps == DOMAIN Steps = 1 .. 22
  BY DEF Steps, Identities, Compiling, Auditing, Asking, Closing

LEMMA OneOfTheSteps ==
    ASSUME NEW n \in 1 .. 22
    PROVE  \/ n = 1 \/ n = 2 \/ n = 3 \/ n = 4 \/ n = 5 \/ n = 6 \/ n = 7 \/ n = 8
           \/ n = 9 \/ n = 10 \/ n = 11 \/ n = 12 \/ n = 13 \/ n = 14 \/ n = 15
           \/ n = 16 \/ n = 17 \/ n = 18 \/ n = 19 \/ n = 20 \/ n = 21 \/ n = 22
  OBVIOUS

LEMMA StepIs ==
    ASSUME NEW n \in 1 .. 22
    PROVE  /\ Steps[n] = "registry" => n = 7
           /\ Steps[n] = "build" => n = 10
           /\ Steps[n] = "inventory" => n = 15
           /\ Steps[n] = "git" => n = 22
  BY StepsAre, OneOfTheSteps

(* What each step decides, and that no row is read from what a later step       *)
(* brings.                                                                   *)

LEMMA EarlyRows ==
    /\ RowsBefore(7) \subseteq FileRows
    /\ RowsBefore(10) \subseteq FileRows \cup {"nonempty", "unique", "orphans", "firewall"}
    /\ RowsBefore(15) \subseteq FileRows \cup {"nonempty", "unique", "orphans", "firewall",
                                            "build", "elaborates", "scan", "axioms"}
<1>1. \A i \in 1 .. 6 : RowsOf(Steps[i]) \subseteq FileRows
  BY StepsAre DEF RowsOf, FileRows
<1>2. \A i \in 7 .. 9 : RowsOf(Steps[i]) \subseteq
          FileRows \cup {"nonempty", "unique", "orphans", "firewall"}
  BY StepsAre DEF RowsOf, FileRows
<1>3. \A i \in 10 .. 14 : RowsOf(Steps[i]) \subseteq
          FileRows \cup {"build", "elaborates", "scan", "axioms"}
  BY StepsAre DEF RowsOf, FileRows
<1>4. /\ 1 .. 7 - 1 = 1 .. 6
      /\ 1 .. 10 - 1 = (1 .. 6) \cup (7 .. 9)
      /\ 1 .. 15 - 1 = (1 .. 6) \cup (7 .. 9) \cup (10 .. 14)
  OBVIOUS
<1> QED
  BY <1>1, <1>2, <1>3, <1>4 DEF RowsBefore

LEMMA RowsGrow ==
    ASSUME NEW n \in 1 .. 21
    PROVE  RowsBefore(n) \cup RowsOf(Steps[n]) \subseteq RowsBefore(n + 1)
<1>1. 1 .. (n + 1) - 1 = (1 .. n - 1) \cup {n}
  OBVIOUS
<1> QED
  BY <1>1 DEF RowsBefore

LEMMA NoClosedRow ==
    ASSUME NEW n \in 1 .. 22
    PROVE  RowsOf(Steps[n]) \subseteq AllRows \ ClosedRows
<1>1. RowsOf(Steps[n]) \subseteq AllRows
  BY DomainOfSteps DEF AllRows
<1>2. Steps[n] \notin ClosedRows
  BY StepsAre, OneOfTheSteps DEF ClosedRows
<1>3. RowsOf(Steps[n]) \cap ClosedRows = {}
  BY <1>2 DEF RowsOf, PresenceRows, ClosedRows
<1> QED
  BY <1>1, <1>3

LEMMA HoldsWithoutEnvironment ==
    ASSUME NEW r \in RowsBefore(10), NEW t, NEW e, NEW f, NEW reg, NEW cred,
           Holds(r, t, e, reg, cred)
    PROVE  Holds(r, t, f, reg, cred)
<1>1. r \notin PresenceRows /\ r # "elaborates" /\ r # "axioms"
  BY EarlyRows DEF FileRows, PresenceRows
<1> QED
  BY <1>1 DEF Holds

LEMMA HoldsWithoutRegistry ==
    ASSUME NEW r \in RowsBefore(7), NEW t, NEW e, NEW reg, NEW other, NEW cred,
           Holds(r, t, e, reg, cred)
    PROVE  Holds(r, t, e, other, cred)
<1>1. r # "nonempty" /\ r # "unique" /\ r # "orphans" /\ r # "axioms"
  BY EarlyRows DEF FileRows
<1> QED
  BY <1>1 DEF Holds

LEMMA HoldsWithoutInventory ==
    ASSUME NEW r \in RowsBefore(15), NEW t, NEW e, NEW reg, NEW cred, NEW other,
           Holds(r, t, e, reg, cred)
    PROVE  Holds(r, t, e, reg, other)
<1>1. r # "inventory" /\ r # "signatures"
  BY EarlyRows DEF FileRows
<1> QED
  BY <1>1 DEF Holds

--------------------------------------------------------------------------------
(* Types. *)

(* What a step leaves that shows some of its rows.                            *)
LEMMA ShowsType ==
    ASSUME TypeOK, at # 0, NEW S \in SUBSET RowsOf(Steps[at]), Shows(S)
    PROVE  /\ at' \in 0 .. Len(Steps)
           /\ green' \subseteq AllRows \ ClosedRows
           /\ exit' \in {"none", "fail", "error"}
           /\ at' # 0 => exit' = "none"
<1>1. Len(Steps) = 22 /\ at \in 1 .. 22 /\ exit = "none"
  BY StepsAre DEF TypeOK
<1>2. green' \subseteq AllRows \ ClosedRows
  BY <1>1, NoClosedRow DEF Shows, TypeOK
<1>3. green' # AllRows
  <2>1. "claimSchema" \in AllRows /\ "claimSchema" \in ClosedRows
    BY DEF AllRows, ClosedRows
  <2> QED
    BY <2>1, <1>2
<1>4. CASE at = 22
  BY <1>1, <1>2, <1>3, <1>4 DEF Shows
<1>5. CASE at # 22
  BY <1>1, <1>2, <1>5 DEF Shows
<1> QED
  BY <1>4, <1>5

LEMMA JudgeType ==
    ASSUME TypeOK, Judge
    PROVE  TypeOK'
<1>1. at # 0
  BY DEF Judge, AtStep
<1>2. PICK S \in SUBSET RowsOf(Steps[at]) : Shows(S)
  BY DEF Judge
<1> QED
  BY <1>1, <1>2, ShowsType DEF TypeOK, Judge

LEMMA ReadRegistryType ==
    ASSUME TypeOK, ReadRegistry
    PROVE  TypeOK'
<1>1. at # 0 /\ Steps[at] = "registry"
  BY DEF ReadRegistry, AtStep
<1>2. PICK S \in SUBSET RowsOf(Steps[at]) : Shows(S)
  BY <1>1 DEF ReadRegistry
<1>3. claims' \in Registries
  BY DEF ReadRegistry, Unreadable, TypeOK, Trees
<1> QED
  BY <1>1, <1>2, <1>3, ShowsType DEF TypeOK, ReadRegistry

LEMMA TakeInventoryType ==
    ASSUME TypeOK, TakeInventory
    PROVE  TypeOK'
<1>1. at # 0 /\ Steps[at] = "inventory"
  BY DEF TakeInventory, AtStep
<1>2. PICK S \in SUBSET RowsOf(Steps[at]) : Shows(S)
  <2>1. RowsOf(Steps[at]) = {"inventory"}
    BY <1>1 DEF RowsOf
  <2> QED
    BY <2>1 DEF TakeInventory
<1>3. credited' \subseteq Required
  BY DEF TakeInventory, CreditedIn
<1> QED
  BY <1>1, <1>2, <1>3, ShowsType DEF TypeOK, TakeInventory

LEMMA LakeBuildType ==
    ASSUME TypeOK, LakeBuild
    PROVE  TypeOK'
<1>1. at # 0 /\ Steps[at] = "build"
  BY DEF LakeBuild, AtStep
<1>2. PICK S \in SUBSET RowsOf(Steps[at]) : Shows(S)
  <2>1. RowsOf(Steps[at]) = {"build"}
    BY <1>1 DEF RowsOf
  <2> QED
    BY <2>1 DEF LakeBuild
<1>3. env'.has \in [Decls -> Conditions] /\ env'.loads \in BOOLEAN
  <2>1. tree.src \in [Decls -> Conditions] /\ tree.loads \in BOOLEAN
    BY DEF TypeOK, Trees
  <2>2. PICK stale \in SUBSET Decls, loads \in {tree.loads, env.loads} :
            env' = [has |-> [d \in Decls |-> IF d \in stale THEN env.has[d] ELSE tree.src[d]],
                    loads |-> loads]
    BY DEF LakeBuild
  <2> QED
    BY <2>1, <2>2 DEF TypeOK
<1> QED
  BY <1>1, <1>2, <1>3, ShowsType DEF TypeOK, LakeBuild

LEMMA RunMutationType ==
    ASSUME TypeOK, RunMutation
    PROVE  TypeOK'
<1>1. at # 0 /\ RowsOf(Steps[at]) = {"mutation"}
  BY DEF RunMutation, AtStep, RowsOf
<1>2. PICK S \in SUBSET RowsOf(Steps[at]) : Shows(S)
  BY <1>1 DEF RunMutation
<1> QED
  BY <1>1, <1>2, ShowsType DEF TypeOK, RunMutation

LEMMA AskGitType ==
    ASSUME TypeOK, AskGit
    PROVE  TypeOK'
<1>1. at # 0 /\ RowsOf(Steps[at]) = {"git"}
  BY DEF AskGit, AtStep, RowsOf
<1>2. PICK S \in SUBSET RowsOf(Steps[at]) : Shows(S)
  BY <1>1 DEF AskGit
<1> QED
  BY <1>1, <1>2, ShowsType DEF TypeOK, AskGit

LEMMA DeveloperType ==
    ASSUME TypeOK, Developer
    PROVE  TypeOK'
<1>1. edits' \in 0 .. MaxEdits /\ UNCHANGED gate
  BY GateAssumption DEF TypeOK, Developer, EditFile, EditRegistry, EditSource, EditConformance,
                        Commit, Restore, Rebuild, Changes, Disturb
<1>2. UNCHANGED <<at, green, claims, credited, exit>>
  BY <1>1 DEF gate
<1>3. ASSUME NEW t \in Trees, NEW h \in Trees, Changes(t, h)
      PROVE  TypeOK'
  BY <1>1, <1>2, <1>3 DEF Changes, TypeOK
<1>4. CASE EditFile
  <2>1. PICK f \in Editable : \E c \in Readings(f) :
            Changes([tree EXCEPT !.files[f] = c], head)
    BY <1>4 DEF EditFile
  <2>2. PICK c \in Readings(f) : Changes([tree EXCEPT !.files[f] = c], head)
    BY <2>1
  <2>3. c \in {"good", "bad", "unreadable"}
    BY DEF Readings
  <2>4. [tree EXCEPT !.files[f] = c] \in Trees
    BY <2>3, GateAssumption DEF TypeOK, Trees
  <2> QED
    BY <2>2, <2>4, <1>3 DEF TypeOK
<1>5. CASE EditRegistry
  <2>1. PICK reg \in Registries \cup {Unparsable} : Changes([tree EXCEPT !.claims = reg], head)
    BY <1>5 DEF EditRegistry
  <2>2. [tree EXCEPT !.claims = reg] \in Trees
    BY DEF TypeOK, Trees
  <2> QED
    BY <2>1, <2>2, <1>3 DEF TypeOK
<1>6. CASE EditSource
  <2>1. \A d \in Decls, c \in Conditions : [tree EXCEPT !.src[d] = c] \in Trees
    BY DEF TypeOK, Trees
  <2>2. [tree EXCEPT !.loads = ~@] \in Trees
    BY DEF TypeOK, Trees
  <2>3. \A imports \in ImportEdits : [tree EXCEPT !.imports = imports] \in Trees
    BY GateAssumption DEF TypeOK, Trees
  <2> QED
    BY <1>6, <2>1, <2>2, <2>3, <1>3 DEF EditSource, TypeOK
<1>7. CASE EditConformance
  <2>1. \A d \in Decls, b \in {"none", "other", "exact"} :
            [tree EXCEPT !.bound[d] = b] \in Trees
    BY DEF TypeOK, Trees
  <2>2. \A file \in SchemaEdits : [tree EXCEPT !.schema = file] \in Trees
    BY GateAssumption DEF TypeOK, Trees
  <2> QED
    BY <1>7, <2>1, <2>2, <1>3 DEF EditConformance, TypeOK
<1>8. CASE Commit \/ Restore
  BY <1>8, <1>3 DEF Commit, Restore, TypeOK
<1>9. CASE Rebuild
  <2>1. env' = [has |-> tree.src, loads |-> tree.loads] /\ UNCHANGED <<tree, head>>
    BY <1>9 DEF Rebuild, Built
  <2>2. tree.src \in [Decls -> Conditions] /\ tree.loads \in BOOLEAN
    BY DEF TypeOK, Trees
  <2> QED
    BY <2>1, <2>2, <1>1, <1>2 DEF TypeOK
<1> QED
  BY <1>4, <1>5, <1>6, <1>7, <1>8, <1>9 DEF Developer

LEMMA TypeCorrectInitially == Init => TypeOK
<1> SUFFICES ASSUME Init
             PROVE  TypeOK
  OBVIOUS
<1>1. PICK t \in Trees0 : env = [has |-> t.src, loads |-> t.loads]
  BY DEF Init, Built
<1>2. t.src \in [Decls -> Conditions] /\ t.loads \in BOOLEAN
  BY <1>1, GateAssumption DEF Trees
<1> QED
  BY <1>1, <1>2, StepsAre, GateAssumption DEF Init, TypeOK

LEMMA NextType ==
    ASSUME TypeOK, [Next]_vars
    PROVE  TypeOK'
<1>1. CASE Start
  BY <1>1, StepsAre DEF Start, TypeOK
<1>2. CASE Break
  BY <1>2 DEF Break, Stops, TypeOK
<1>3. CASE UNCHANGED vars
  BY <1>3 DEF vars, gate, TypeOK
<1> QED
  BY <1>1, <1>2, <1>3, JudgeType, ReadRegistryType, TakeInventoryType, LakeBuildType,
     RunMutationType, AskGitType, DeveloperType DEF Next, GateStep

(* The types hold, and a gate that runs has not ended: the exit code is set     *)
(* where the last row is done or where something could not be read            *)
(* (gate.rs:505).                                                            *)
THEOREM TypeCorrect == Spec => []TypeOK
  BY TypeCorrectInitially, NextType, PTL DEF Spec

--------------------------------------------------------------------------------
(* What is green has been read.                                               *)

LEMMA ShowsRead ==
    ASSUME TypeOK, GreenWasRead, at # 0, NEW S \in SUBSET RowsOf(Steps[at]), Shows(S)
    PROVE  GreenWasRead'
<1>1. at \in 1 .. 22 /\ Len(Steps) = 22
  BY StepsAre DEF TypeOK
<1>2. CASE at = 22
  BY <1>1, <1>2 DEF Shows, GreenWasRead
<1>3. CASE at # 22
  <2>1. at' = at + 1 /\ green' = green \cup S
    BY <1>1, <1>3 DEF Shows
  <2>2. green \cup S \subseteq RowsBefore(at + 1)
    BY <1>1, <1>3, RowsGrow DEF GreenWasRead
  <2>3. at' # 0 => green' \subseteq RowsBefore(at')
    BY <2>1, <2>2
  <2> QED
    BY <2>3 DEF GreenWasRead
<1> QED
  BY <1>2, <1>3

LEMMA NextRead ==
    ASSUME TypeOK, GreenWasRead, [Next]_vars
    PROVE  GreenWasRead'
<1>1. CASE Start
  BY <1>1 DEF Start, GreenWasRead
<1>2. CASE Judge
  <2>1. PICK S \in SUBSET RowsOf(Steps[at]) : Shows(S)
    BY <1>2 DEF Judge
  <2> QED
    BY <1>2, <2>1, ShowsRead DEF Judge, AtStep
<1>3. CASE ReadRegistry
  <2>1. at # 0 /\ Steps[at] = "registry"
    BY <1>3 DEF ReadRegistry, AtStep
  <2>2. PICK S \in SUBSET RowsOf(Steps[at]) : Shows(S)
    BY <1>3, <2>1 DEF ReadRegistry
  <2> QED
    BY <2>1, <2>2, ShowsRead
<1>4. ASSUME NEW row \in {"inventory", "build", "mutation", "git"}, AtStep({row}),
             NEW S \in SUBSET {row}, Shows(S)
      PROVE  GreenWasRead'
  <2>1. at # 0 /\ RowsOf(Steps[at]) = {row}
    BY <1>4 DEF AtStep, RowsOf
  <2> QED
    BY <1>4, <2>1, ShowsRead
<1>5. CASE TakeInventory
  BY <1>5, <1>4 DEF TakeInventory
<1>6. CASE LakeBuild
  BY <1>6, <1>4 DEF LakeBuild
<1>7. CASE RunMutation
  BY <1>7, <1>4 DEF RunMutation
<1>8. CASE AskGit
  BY <1>8, <1>4 DEF AskGit
<1>9. CASE Break
  BY <1>9 DEF Break, Stops, GreenWasRead
<1>10. CASE Developer \/ UNCHANGED vars
  <2>1. UNCHANGED <<at, green>>
    BY <1>10 DEF Developer, EditFile, EditRegistry, EditSource, EditConformance,
                 Commit, Restore, Rebuild, Changes, Disturb, gate, vars
  <2>2. (at # 0 => green \subseteq RowsBefore(at)) => (at' # 0 => green' \subseteq RowsBefore(at'))
    BY <2>1
  <2> QED
    BY <2>2 DEF GreenWasRead
<1> QED
  BY <1>1, <1>2, <1>3, <1>5, <1>6, <1>7, <1>8, <1>9, <1>10 DEF Next, GateStep

--------------------------------------------------------------------------------
(* The green rows still hold. *)

(* A row that is decided now joins those that hold, whatever the step reads.   *)
LEMMA ShowsHold ==
    ASSUME TypeOK, RowsStillHold, at # 0, NEW S \in SUBSET RowsOf(Steps[at]), Shows(S),
           UNCHANGED <<tree, head, env, history>>,
           Settled => \A r \in green \ ExternalSteps : Holds(r, tree, env, claims', credited'),
           Settled => \A r \in S \ ExternalSteps : Holds(r, tree, env, claims', credited'),
           Settled /\ at > 6 => claims' = tree.claims,
           Settled /\ at > 14 => credited' = CreditedIn(tree, env)
    PROVE  RowsStillHold'
<1>1. green' = green \cup S /\ (at' = 0 \/ at' = at + 1) /\ at \in Nat
  BY StepsAre DEF Shows, TypeOK
<1>2. Settled' <=> Settled
  BY DEF Settled, history
<1>3. Settled => \A r \in green' \ ExternalSteps : Holds(r, tree', env', claims', credited')
  BY <1>1
<1>4. Settled /\ at' > 7 => claims' = tree'.claims
  BY <1>1
<1>5. Settled /\ at' > 15 => credited' = CreditedIn(tree', env')
  BY <1>1
<1> QED
  BY <1>2, <1>3, <1>4, <1>5 DEF RowsStillHold

LEMMA JudgeHolds ==
    ASSUME TypeOK, RowsStillHold, Judge
    PROVE  RowsStillHold'
<1>1. at \in 1 .. 22 /\ Steps[at] \in ReadingSteps
  BY StepsAre DEF Judge, AtStep, TypeOK
<1>2. at # 7 /\ at # 15
  BY <1>1, StepsAre DEF ReadingSteps, ExternalSteps
<1> DEFINE S == {r \in RowsOf(Steps[at]) : Holds(r, tree, env, claims, credited)}
<1>3. Shows(S) /\ UNCHANGED <<tree, head, env, claims, credited, history>>
  BY DEF Judge
<1>4. /\ Settled => \A r \in green \ ExternalSteps : Holds(r, tree, env, claims', credited')
      /\ Settled /\ at > 6 => claims' = tree.claims
      /\ Settled /\ at > 14 => credited' = CreditedIn(tree, env)
  BY <1>1, <1>2, <1>3 DEF RowsStillHold
<1>5. \A r \in S : Holds(r, tree, env, claims', credited')
  BY <1>3
<1>6. S \in SUBSET RowsOf(Steps[at])
  OBVIOUS
<1> HIDE DEF S
<1> QED
  BY <1>1, <1>3, <1>4, <1>5, <1>6, ShowsHold

(* The registry comes before every row that reads it.                         *)
LEMMA ReadRegistryHolds ==
    ASSUME GateInv, ReadRegistry
    PROVE  RowsStillHold'
<1>1. at = 7 /\ Steps[at] = "registry"
  BY StepsAre, StepIs DEF ReadRegistry, AtStep, GateInv, TypeOK
<1> DEFINE S == {r \in RowsOf(Steps[at]) : Holds(r, tree, env, claims', credited')}
<1>2. /\ Shows(S) /\ claims' = tree.claims
      /\ UNCHANGED <<tree, head, env, credited, history>>
  BY <1>1 DEF ReadRegistry
<1>3. green \subseteq RowsBefore(7)
  BY <1>1 DEF GateInv, GreenWasRead
<1>4. Settled => \A r \in green \ ExternalSteps : Holds(r, tree, env, claims', credited')
  BY <1>2, <1>3, HoldsWithoutRegistry DEF GateInv, RowsStillHold
<1>5. S \in SUBSET RowsOf(Steps[at]) /\ \A r \in S : Holds(r, tree, env, claims', credited')
  OBVIOUS
<1> HIDE DEF S
<1> QED
  BY <1>1, <1>2, <1>4, <1>5, ShowsHold DEF GateInv

(* The inventory comes before every row that reads it.                        *)
LEMMA TakeInventoryHolds ==
    ASSUME GateInv, TakeInventory
    PROVE  RowsStillHold'
<1>1. at = 15 /\ RowsOf(Steps[at]) = {"inventory"}
  BY StepsAre, StepIs DEF TakeInventory, AtStep, GateInv, TypeOK, RowsOf
<1> DEFINE S == {r \in {"inventory"} : HoldsNow(r)}
<1>2. /\ Shows(S) /\ credited' = CreditedIn(tree, env)
      /\ UNCHANGED <<tree, head, env, claims, history>>
  BY DEF TakeInventory
<1>3. green \subseteq RowsBefore(15)
  BY <1>1 DEF GateInv, GreenWasRead
<1>4. Settled => \A r \in green \ ExternalSteps : Holds(r, tree, env, claims', credited')
  BY <1>2, <1>3, HoldsWithoutInventory DEF GateInv, RowsStillHold
<1>5. Settled => claims' = tree.claims
  BY <1>1, <1>2 DEF GateInv, RowsStillHold
<1>6. S \in SUBSET RowsOf(Steps[at])
  BY <1>1
<1>7. Settled => \A r \in S : Holds(r, tree, env, claims', credited')
  BY <1>2, <1>5 DEF HoldsNow
<1> HIDE DEF S
<1> QED
  BY <1>1, <1>2, <1>4, <1>5, <1>6, <1>7, ShowsHold DEF GateInv

(* The build comes before every row that asks the environment.                 *)
LEMMA LakeBuildHolds ==
    ASSUME GateInv, LakeBuild
    PROVE  RowsStillHold'
<1>1. at = 10
  BY StepsAre, StepIs DEF LakeBuild, AtStep, GateInv, TypeOK
<1>2. PICK S \in SUBSET {"build"} : Shows(S)
  BY DEF LakeBuild
<1>3. UNCHANGED <<tree, head, claims, credited, history>>
  BY DEF LakeBuild
<1>4. green \subseteq RowsBefore(10)
  BY <1>1 DEF GateInv, GreenWasRead
<1>5. green' = green \cup S /\ at' = 11
  BY <1>1, <1>2, StepsAre DEF Shows
<1>6. S \ ExternalSteps = {}
  BY DEF ExternalSteps
<1>7. Settled' <=> Settled
  BY <1>3 DEF Settled, history
<1>8. Settled => \A r \in green \ ExternalSteps : Holds(r, tree, env', claims, credited)
  BY <1>4, HoldsWithoutEnvironment DEF GateInv, RowsStillHold
<1>9. Settled => claims = tree.claims
  BY <1>1 DEF GateInv, RowsStillHold
<1>10. Settled => \A r \in green' \ ExternalSteps : Holds(r, tree', env', claims', credited')
  BY <1>3, <1>5, <1>6, <1>8
<1> QED
  BY <1>3, <1>5, <1>7, <1>9, <1>10 DEF RowsStillHold

(* A row whose verdict is another program's.                                  *)
LEMMA ExternalHolds ==
    ASSUME TypeOK, RowsStillHold, NEW row \in {"mutation", "git"}, AtStep({row}),
           NEW S \in SUBSET {row}, Shows(S),
           UNCHANGED <<tree, head, env, claims, credited, history>>
    PROVE  RowsStillHold'
<1>1. at # 0 /\ RowsOf(Steps[at]) = {row} /\ at \in 1 .. 22
  BY StepsAre DEF AtStep, RowsOf, TypeOK
<1>2. at # 7 /\ at # 15
  BY <1>1, StepsAre DEF AtStep
<1>3. S \ ExternalSteps = {}
  BY DEF ExternalSteps
<1>4. /\ Settled => \A r \in green \ ExternalSteps : Holds(r, tree, env, claims', credited')
      /\ Settled /\ at > 6 => claims' = tree.claims
      /\ Settled /\ at > 14 => credited' = CreditedIn(tree, env)
  BY <1>1, <1>2 DEF RowsStillHold
<1> QED
  BY <1>1, <1>3, <1>4, ShowsHold

(* Whoever leaves the tree as clean as it was has not touched it.              *)
LEMMA DeveloperHolds ==
    ASSUME RowsStillHold, Developer
    PROVE  RowsStillHold'
<1>1. quiet' = FALSE /\ UNCHANGED <<at, green, claims, credited>>
  BY DEF Developer, EditFile, EditRegistry, EditSource, EditConformance, Commit, Restore,
         Rebuild, Changes, Disturb, gate
<1>2. ASSUME NEW t, Changes(t, head), Settled'
      PROVE  Settled /\ UNCHANGED <<tree, head, env>>
  <2>1. tree' = t /\ head' = head /\ env' = env /\ rebuilt' = rebuilt
    BY <1>2 DEF Changes
  <2>2. t = head /\ ~cleaned' /\ ~rebuilt'
    BY <1>1, <1>2, <2>1 DEF Settled
  <2>3. cleaned' = (cleaned \/ (tree # head /\ t = head))
    BY <1>2 DEF Changes
  <2>4. ~cleaned /\ tree = head
    BY <2>2, <2>3
  <2> QED
    BY <2>1, <2>2, <2>4 DEF Settled
<1>3. CASE EditFile \/ EditRegistry \/ EditSource \/ EditConformance
  <2>1. PICK t : Changes(t, head)
    BY <1>3 DEF EditFile, EditRegistry, EditSource, EditConformance
  <2>2. Settled' => Settled /\ UNCHANGED <<tree, head, env>>
    BY <2>1, <1>2
  <2> QED
    BY <2>2, <1>1 DEF RowsStillHold
<1>4. CASE Commit \/ Restore
  <2>1. ~Settled'
    BY <1>4, <1>1 DEF Commit, Restore, Changes, Settled
  <2> QED
    BY <2>1 DEF RowsStillHold
<1>5. CASE Rebuild
  <2>1. ~Settled'
    BY <1>5, <1>1 DEF Rebuild, Settled
  <2> QED
    BY <2>1 DEF RowsStillHold
<1> QED
  BY <1>3, <1>4, <1>5 DEF Developer

LEMMA NextHolds ==
    ASSUME GateInv, [Next]_vars
    PROVE  RowsStillHold'
<1>1. CASE Start
  <2>1. green' = {} /\ at' = 1
    BY <1>1 DEF Start
  <2> QED
    BY <2>1 DEF RowsStillHold
<1>2. CASE RunMutation
  BY <1>2, ExternalHolds DEF RunMutation, GateInv
<1>3. CASE AskGit
  BY <1>3, ExternalHolds DEF AskGit, GateInv
<1>4. CASE Break
  <2>1. at' = 0 /\ UNCHANGED <<tree, head, env, green, claims, credited, history>>
    BY <1>4 DEF Break, Stops
  <2>2. (Settled' <=> Settled) /\ ~(at' > 7) /\ ~(at' > 15)
    BY <2>1 DEF Settled, history
  <2> QED
    BY <2>1, <2>2 DEF RowsStillHold, GateInv
<1>5. CASE UNCHANGED vars
  BY <1>5 DEF RowsStillHold, Settled, vars, gate, history, GateInv
<1> QED
  BY <1>1, <1>2, <1>3, <1>4, <1>5, JudgeHolds, ReadRegistryHolds, TakeInventoryHolds,
     LakeBuildHolds, DeveloperHolds DEF Next, GateStep, GateInv

LEMMA InitInv == Init => GateInv
<1> SUFFICES ASSUME Init
             PROVE  GateInv
  OBVIOUS
<1>1. TypeOK
  BY TypeCorrectInitially
<1> QED
  BY <1>1 DEF Init, GateInv, GreenWasRead, RowsStillHold

(* The strengthened invariant: whatever is green was read, and while nothing    *)
(* has come between, it still holds of the tree and the environment.          *)
THEOREM GateInvariant == Spec => []GateInv
<1>1. GateInv /\ [Next]_vars => GateInv'
  BY NextType, NextRead, NextHolds DEF GateInv
<1> QED
  BY InitInv, <1>1, PTL DEF Spec

--------------------------------------------------------------------------------
(* What green rows say. *)

(* A green scan and a green row 9 of an undisturbed gate put the release        *)
(* theorem into the sources without a placeholder, if what is compiled is       *)
(* compiled from them (gate.rs:231, 369, 454).                               *)
THEOREM ReleaseIsProved == Spec => []GreenReleaseIsProved
<1>1. GateInv => GreenReleaseIsProved
  <2> SUFFICES ASSUME GateInv, quiet, env = Built(tree), "scan" \in green, "release" \in green
               PROVE  tree.src[Release] = "clean"
    BY DEF GreenReleaseIsProved
  <2>1. \A r \in green \ ExternalSteps : Holds(r, tree, env, claims, credited)
    BY DEF GateInv, RowsStillHold, Settled
  <2>2. Holds("scan", tree, env, claims, credited) /\ Holds("release", tree, env, claims, credited)
    BY <2>1 DEF ExternalSteps
  <2>3. Release \in Decls /\ tree.src \in [Decls -> Conditions]
    BY GateAssumption DEF GateInv, TypeOK, Trees
  <2>4. tree.src[Release] # "tainted"
    BY <2>2, <2>3 DEF Holds
  <2>5. Release \in Present(env)
    BY <2>2, GateAssumption DEF Holds, PresenceRows
  <2>6. env.has[Release] # "absent" /\ env.has = tree.src
    BY <2>5 DEF Present, Built
  <2> QED
    BY <2>3, <2>4, <2>6 DEF Conditions
<1> QED
  BY <1>1, GateInvariant, PTL

(* A green axiom row of an undisturbed gate covers every claim that a registry  *)
(* with no violation calls proved (gate.rs:258, 267).                         *)
THEOREM ClaimsAreAudited == Spec => []EveryProvedClaimIsAudited
<1>1. GateInv => EveryProvedClaimIsAudited
  <2> SUFFICES ASSUME GateInv, quiet, "axioms" \in green, RegistryClean(claims),
                      NEW i \in Formal(claims)
               PROVE  /\ env.loads /\ claims[i].decl # "none"
                      /\ env.has[claims[i].decl] = "clean"
    BY DEF EveryProvedClaimIsAudited
  <2>1. \A r \in green \ ExternalSteps : Holds(r, tree, env, claims, credited)
    BY DEF GateInv, RowsStillHold, Settled
  <2>2. Holds("axioms", tree, env, claims, credited)
    BY <2>1 DEF ExternalSteps
  <2>3. ClosureClean(env, Proved(claims))
    BY <2>2 DEF Holds
  <2>4. claims[i].decl # "none"
    BY DEF RegistryClean
  <2>5. claims[i].decl \in Proved(claims)
    BY <2>4 DEF Proved
  <2> QED
    BY <2>3, <2>4, <2>5 DEF ClosureClean
<1> QED
  BY <1>1, GateInvariant, PTL

LEMMA GitIsLast == "git" \notin RowsBefore(22)
<1>1. \A i \in 1 .. 21 : Steps[i] # "git"
  BY StepIs
<1>2. \A i \in 1 .. 21 : "git" \notin RowsOf(Steps[i])
  BY <1>1 DEF RowsOf, PresenceRows
<1> QED
  BY <1>2 DEF RowsBefore

(* A gate that ends, and not because something broke, has asked git.            *)
LEMMA EndsWithGit ==
    ASSUME TypeOK, [Next]_vars, at # 0, at' = 0, exit' # "error"
    PROVE  at = 22 /\ AskGit
<1>1. at \in 1 .. 22 /\ Len(Steps) = 22
  BY StepsAre DEF TypeOK
<1>2. ASSUME NEW S, Shows(S)
      PROVE  at = 22 /\ Steps[at] = "git"
  BY <1>1, <1>2, StepsAre DEF Shows
<1>3. ~Start /\ ~Break
  BY DEF Start, Break, Stops
<1>4. ~Judge
  BY <1>2 DEF Judge, AtStep, ReadingSteps, ExternalSteps
<1>5. ~ReadRegistry
  BY <1>2 DEF ReadRegistry, AtStep
<1>6. ~TakeInventory
  BY <1>2 DEF TakeInventory, AtStep
<1>7. ~LakeBuild /\ ~RunMutation
  BY <1>2 DEF LakeBuild, RunMutation, AtStep
<1>8. ~Developer /\ ~UNCHANGED vars
  BY DEF Developer, EditFile, EditRegistry, EditSource, EditConformance, Commit, Restore,
         Rebuild, Changes, Disturb, gate, vars
<1>9. AskGit
  BY <1>3, <1>4, <1>5, <1>6, <1>7, <1>8 DEF Next, GateStep
<1> QED
  BY <1>9, <1>2 DEF AskGit

(* A gate that ends on a clean worktree, while nobody committed, undid or built *)
(* anything, ends with rows that all hold of what it leaves, whatever was      *)
(* edited and taken back on the way (gate.rs:492).                            *)
THEOREM CleanEnd == Spec => CleanEndCoversEveryRow
<1>1. GateInv /\ [Next]_vars =>
          (at # 0 /\ at' = 0 /\ Covered' => (\A r \in green \ ExternalSteps : HoldsNow(r))')
  <2> SUFFICES ASSUME GateInv, [Next]_vars, at # 0, at' = 0, Covered'
               PROVE  (\A r \in green \ ExternalSteps : HoldsNow(r))'
    OBVIOUS
  <2>1. at = 22 /\ AskGit
    BY EndsWithGit DEF GateInv, Covered
  <2>2. /\ UNCHANGED <<tree, head, env, claims, credited, history>>
        /\ green' = green \cup {r \in {"git"} : answered' => tree = head}
    BY <2>1 DEF AskGit, Shows
  <2>3. "git" \notin green
    BY <2>1, GitIsLast DEF GateInv, GreenWasRead
  <2>4. answered' /\ "git" \in green' /\ ~cleaned' /\ ~rebuilt'
    BY DEF Covered
  <2>5. tree = head
    BY <2>2, <2>3, <2>4
  <2>6. Settled
    BY <2>2, <2>4, <2>5 DEF Settled, history
  <2>7. /\ \A r \in green \ ExternalSteps : Holds(r, tree, env, claims, credited)
        /\ claims = tree.claims /\ credited = CreditedIn(tree, env)
    BY <2>1, <2>6 DEF GateInv, RowsStillHold
  <2>8. \A r \in green' \ ExternalSteps : Holds(r, tree, env, tree.claims, CreditedIn(tree, env))
    BY <2>2, <2>7 DEF ExternalSteps
  <2> QED
    BY <2>2, <2>8 DEF HoldsNow
<1> QED
  BY <1>1, GateInvariant, PTL DEF Spec, CleanEndCoversEveryRow

--------------------------------------------------------------------------------
(* The schema bindings, for files of every length. *)

LEMMA EarliestIsLeast ==
    ASSUME NEW T \in SUBSET Nat, T # {}
    PROVE  Earliest(T) \in T /\ \A j \in T : Earliest(T) <= j
<1>. DEFINE Less == OpToRel(<, Nat)
<1>1. IsWellFoundedOn(Less, Nat)
  BY NatLessThanWellFounded
<1>2. \A x, y \in Nat : x < y => <<x, y>> \in Less
  BY DEF OpToRel
<1>. HIDE DEF Less
<1>3. \E x \in T : \A y \in T : ~ (<<y, x>> \in Less)
  BY <1>1, WFMin, Zenon
<1>4. PICK x \in T : \A y \in T : ~ (<<y, x>> \in Less)
  BY <1>3, Zenon
<1>5. \A y \in T : ~ (y < x)
  BY <1>2, <1>4, Zenon
<1>6. \A y \in T : x <= y
  BY <1>5
<1>. QED  BY <1>6 DEF Earliest

(* A block ends on a line of the file.                                        *)
LEMMA BlockEndType ==
    ASSUME NEW file \in Seq(SchemaLines), NEW i \in 1 .. Len(file)
    PROVE  BlockEnd(file, i) \in Nat /\ BlockEnd(file, i) <= Len(file)
<1>. DEFINE blanks == {j \in i .. Len(file) : file[j].is = "blank"}
<1>1. blanks \in SUBSET Nat
  OBVIOUS
<1>2. CASE blanks = {}
  BY <1>2 DEF BlockEnd
<1>3. CASE blanks # {}
  <2>1. Earliest(blanks) \in blanks
    BY <1>1, <1>3, EarliestIsLeast
  <2>2. Earliest(blanks) \in i .. Len(file)
    BY <2>1
  <2>3. BlockEnd(file, i) = Earliest(blanks) - 1
    BY <1>3 DEF BlockEnd
  <2>. QED  BY <2>2, <2>3
<1>. QED  BY <1>2, <1>3

(* The line a marker stands above is in the file, and is no comment.           *)
LEMMA HeadBelowType ==
    ASSUME NEW file \in Seq(SchemaLines), NEW i \in 1 .. Len(file), HeadBelow(file, i) # 0
    PROVE  HeadBelow(file, i) \in 1 .. Len(file) /\ ~ IsComment(file[HeadBelow(file, i)])
<1>. DEFINE below == {j \in i + 1 .. Len(file) : ~IsComment(file[j]) /\ file[j].is # "blank"}
<1>1. below \in SUBSET Nat
  OBVIOUS
<1>2. below # {} /\ HeadBelow(file, i) = Earliest(below)
  BY DEF HeadBelow
<1>3. Earliest(below) \in below
  BY <1>1, <1>2, EarliestIsLeast
<1>. QED  BY <1>2, <1>3

(* A definition without a gap has a binding.                                  *)
LEMMA HasBinding ==
    ASSUME NEW file, NEW d, Accounted(file, d), Of(Gaps(file), d) = {}
    PROVE  Of(Bindings(file), d) # {}
<1>1. Cardinality({}) = 0
  BY FS_EmptySet
<1>. QED  BY <1>1 DEF Accounted

LEMMA NoTheoremStates == NoTheorem.mentions = {}
  BY DEF NoTheorem

LEMMA CodeIsNoComment ==
    \A line : line.is = "code" => ~ IsComment(line)
  BY DEF IsComment

(* What the audit finds of a theorem is what it says, if its statement is plain. *)
LEMMA TheoremStates ==
    ASSUME NEW file \in Seq(SchemaLines), NEW h \in 1 .. Len(file), NEW d,
           file[h].is = "theorem", ~ Commented(file, h),
           \A j \in h + 1 .. BlockEnd(file, h) : file[j].is = "code",
           d \in Theorem(file, h).mentions, Theorem(file, h).definitional
    PROVE  StatedAndProved(file, d)
<1>. DEFINE ends == {j \in h .. BlockEnd(file, h) : file[j].proof # ""}
            last == Earliest(ends)
<1>1. BlockEnd(file, h) \in Nat /\ BlockEnd(file, h) <= Len(file)
  BY BlockEndType
<1>2. ends # {}
  BY DEF Theorem
<1>3. /\ d \in UNION {file[j].mentions : j \in h .. last}
      /\ last = BlockEnd(file, h) /\ file[last].proof = "rfl"
  BY <1>2 DEF Theorem
<1>4. ends \in SUBSET Nat
  <2>1. \A j \in h .. BlockEnd(file, h) : j \in Nat
    BY <1>1
  <2>2. \A j \in ends : j \in h .. BlockEnd(file, h)
    OBVIOUS
  <2>. QED  BY <2>1, <2>2, Zenon
<1>5. last \in ends /\ \A j \in ends : last <= j
  BY <1>2, <1>4, EarliestIsLeast
<1>6. last \in h .. BlockEnd(file, h)
  BY <1>5
<1>. HIDE DEF last
<1>7. last \in 1 .. Len(file) /\ h <= last
  BY <1>1, <1>6
<1>8. \A j \in h .. last - 1 : file[j].proof = ""
  <2>1. \A j \in h .. last - 1 : j \in h .. last /\ ~ (last <= j)
    BY <1>7
  <2>. SUFFICES ASSUME NEW j \in h .. last - 1, file[j].proof # "" PROVE FALSE
    OBVIOUS
  <2>2. j \in ends
    BY <1>3, <2>1, Zenon
  <2>. QED  BY <1>5, <2>1, <2>2, Zenon
<1>9. PICK j \in h .. last : d \in file[j].mentions
  BY <1>3
<1>10. ~ IsComment(file[j])
  <2>1. CASE j = h
    BY <2>1 DEF IsComment
  <2>2. CASE j # h
    <3>1. j \in h + 1 .. BlockEnd(file, h)
      BY <1>3, <1>7, <1>9, <2>2
    <3>. QED  BY <3>1, CodeIsNoComment
  <2>. QED  BY <2>1, <2>2
<1>11. \A m \in h + 1 .. last : file[m].is \in {"code", "comment", "binding", "gap"}
  BY <1>3
<1>12. h \in DOMAIN file /\ last \in DOMAIN file
  BY <1>7
<1>. QED  BY <1>3, <1>7, <1>8, <1>9, <1>10, <1>11, <1>12 DEF StatedAndProved

(* A compiled theorem is the one the audit has read if no two have its name.     *)
LEMMA NotCommentedOut ==
    ASSUME NEW file, NEW h \in DOMAIN file, TheoremNamesDiffer(file),
           file[h].is = "theorem", file[h].name \in Compiled(file)
    PROVE  ~ Commented(file, h)
<1>1. PICK i \in DOMAIN file :
          file[i].is = "theorem" /\ ~ Commented(file, i) /\ file[i].name = file[h].name
  BY DEF Compiled
<1>2. i = h
  BY <1>1 DEF TheoremNamesDiffer
<1>. QED  BY <1>1, <1>2

LEMMA BindingsStateAndProve ==
    ASSUME NEW file \in Seq(SchemaLines),
           SchemaPasses(file), TheoremNamesDiffer(file), PlainStatements(file),
           NEW d \in Critical, Of(Gaps(file), d) = {}
    PROVE  StatedAndProved(file, d)
<1>1. Accounted(file, d)
  BY DEF SchemaPasses, AuditClean
<1>2. PICK b \in Of(Bindings(file), d) : TRUE
  BY <1>1, HasBinding
<1>3. b \in Bindings(file) /\ d \in b.by.mentions /\ b.by.definitional
  BY <1>1, <1>2 DEF Accounted, Of
<1>4. PICK i \in DOMAIN file :
          /\ HeadBelow(file, i) # 0
          /\ b.line = i
          /\ b.by = IF file[HeadBelow(file, i)].is = "theorem"
                    THEN Theorem(file, HeadBelow(file, i)) ELSE NoTheorem
  BY <1>3 DEF Bindings
<1>. DEFINE h == HeadBelow(file, i)
<1>5. h \in 1 .. Len(file)
  BY <1>4, HeadBelowType
<1>6. file[h].is = "theorem" /\ b.by = Theorem(file, h)
  BY <1>3, <1>4, NoTheoremStates
<1>7. file[h].name \in Compiled(file)
  <2>1. Theorem(file, h).theorem = file[h].name
    BY DEF Theorem
  <2>. QED  BY <1>3, <1>6, <2>1 DEF SchemaPasses
<1>8. ~ Commented(file, h)
  BY <1>5, <1>6, <1>7, NotCommentedOut
<1>9. \A j \in h + 1 .. BlockEnd(file, h) : file[j].is = "code"
  BY <1>3, <1>4 DEF PlainStatements
<1>. HIDE DEF h
<1>. QED  BY <1>3, <1>5, <1>6, <1>8, <1>9, TheoremStates

LEMMA SchemaFilesAreSequences ==
    \A n \in Nat : SchemaFilesUpTo(n) \subseteq Seq(SchemaLines)
  BY DEF SchemaFilesUpTo

(* In files of every length, on which `xtask schema` passes, each critical       *)
(* definition has a gap or a compiled theorem that states it and proves it by  *)
(* definition (schema.rs:224, 312).                                          *)
THEOREM BindingsCompiled == Spec => []BoundDefinitionsAreCompiled
<1>1. BoundDefinitionsAreCompiled
  BY BindingsStateAndProve, SchemaFilesAreSequences, SchemaAssumption
     DEF BoundDefinitionsAreCompiled
<1>. QED  BY <1>1, PTL

================================================================================
