------------------------------ MODULE VvPipeline ------------------------------
(****************************************************************************)
(* `just vv` over a working tree that is being edited.  Three actors share    *)
(* the tree: a developer who edits files, a generator started in another      *)
(* terminal, and the sequence of recipes of the Justfile, which stops at the  *)
(* first recipe that exits non-zero.  Nothing locks the tree: every command   *)
(* reads its inputs first and compares or writes its output later.           *)
(****************************************************************************)
EXTENDS ReleaseTree, Sequences

CONSTANTS
    MaxEdits,       \* bound on the developer's edits
    MaxGenerates    \* bound on the generator runs

ASSUME VvPipelineAssumption == MaxEdits \in Nat /\ MaxGenerates \in Nat

VARIABLES
    tree,           \* the working tree
    edits,          \* edits made so far
    generates,      \* generator runs started so far
    genCmd,         \* the generator running in the other terminal, or "idle"
    genExpect,      \* what it has read
    genClean,       \* nothing has changed the tree since it started
    vvStep,         \* position in Recipes, 0 before the first run
    vvExpect,       \* what the current check has read
    vvExit,         \* exit of the last run; "none" while one is running
    vvQuiet         \* nothing has changed the tree since the run started

vars == <<tree, edits, generates, genCmd, genExpect, genClean,
          vvStep, vvExpect, vvExit, vvQuiet>>
genVars == <<generates, genCmd, genExpect>>
vvVars  == <<vvStep, vvExpect, vvExit>>

(* The dependencies of `vv`, in order, then its own command.                 *)
Recipes == <<"tools", "root-check", "firewall", "manifest-check", "releasepath",
             "build", "vendor", "amendment", "core", "required", "signature",
             "schema", "claims", "axioms", "docs-check", "gate">>

(* The recipes whose verdict is a function of ReleaseTree, and the generator  *)
(* whose output each one checks.                                             *)
Checked == [r \in {"root-check", "manifest-check", "core", "docs-check"} |->
               CASE r = "root-check"     -> "root"
                 [] r = "manifest-check" -> "manifest"
                 [] r = "core"           -> "core"
                 [] r = "docs-check"     -> "docs"]

(* The exits of the recipes that decide something else.  The registry must    *)
(* parse for `claims` and `axioms`; `required` runs without --check, so what   *)
(* is outstanding never fails it; the gate has four conditions that are        *)
(* literally `false` (gate.rs lines 203, 440, 465, 480), so it never passes.  *)
Outcomes(r, t) ==
    IF r = "gate" THEN {"fail", "error"}
    ELSE IF r = "required" THEN {"pass", "error"}
    ELSE IF r \in {"claims", "axioms"} /\ t.claims = BadClaims THEN {"error"}
    ELSE {"pass", "fail", "error"}

(* core.rs goes on to elaborate a probe that names every marked declaration;  *)
(* the compiled environment's answer is any of the three.                    *)
CoreOutcome(compared, elaborated) ==
    IF compared = "error" THEN "error"
    ELSE IF elaborated = "error" THEN "error"
    ELSE IF compared = "pass" /\ elaborated = "pass" THEN "pass" ELSE "fail"

CheckOutcomes(r, e, t) ==
    IF e.kind # "text" THEN {e.kind}
    ELSE LET compared == CompareOutput(Checked[r], e.text, t)
         IN  IF r = "core"
             THEN {CoreOutcome(compared, x) : x \in {"pass", "fail", "error"}}
             ELSE {compared}

(* A checkout in which every generator has just been run, in order, and none  *)
(* of them had anything to report.                                           *)
Handwritten ==
    {[mods |-> m, bindings |-> NoFile, claims |-> k, toolchain |-> tc,
      artifact |-> NoFile, root |-> NoFile, conformance |-> NoFile,
      manifest |-> NoFile] : m \in ModuleFiles, k \in Claims, tc \in Toolchains}

Generable(t) == \A g \in Generators : Expect(g, t).kind = "text"

Init ==
    /\ tree \in {Regenerated(t) : t \in {h \in Handwritten : Generable(h)}}
    /\ edits = 0
    /\ generates = 0
    /\ genCmd = "idle"
    /\ genExpect = Unread
    /\ genClean = TRUE
    /\ vvStep = 0
    /\ vvExpect = Unread
    /\ vvExit = "pass"
    /\ vvQuiet = TRUE

--------------------------------------------------------------------------------
(* The developer. *)

Change(t) ==
    /\ t # tree
    /\ tree' = t
    /\ edits < MaxEdits
    /\ edits' = edits + 1
    /\ genClean' = FALSE
    /\ vvQuiet' = FALSE
    /\ UNCHANGED <<genVars, vvVars>>

EditModule ==
    \E m \in Modules, c \in Contents \cup {NoFile} :
        Change([tree EXCEPT !.mods[m] = c])

EditClaims == \E k \in Claims \cup {BadClaims} : Change([tree EXCEPT !.claims = k])

EditToolchain == \E tc \in Toolchains : Change([tree EXCEPT !.toolchain = tc])

EmitArtifact == \E a \in Artifacts \cup {NoFile} : Change([tree EXCEPT !.artifact = a])

DeleteOutput == \E g \in Generators : Change(WriteOutput(g, NoFile, tree))

Edit == EditModule \/ EditClaims \/ EditToolchain \/ EmitArtifact \/ DeleteOutput

--------------------------------------------------------------------------------
(* A generator in another terminal. *)

BeginGenerate(g) ==
    /\ genCmd = "idle"
    /\ generates < MaxGenerates
    /\ generates' = generates + 1
    /\ genCmd' = g
    /\ genExpect' = Unread
    /\ genClean' = TRUE
    /\ UNCHANGED <<tree, edits, vvVars, vvQuiet>>

ReadGenerate ==
    /\ genCmd # "idle"
    /\ genExpect.kind \notin Settled
    /\ genExpect' = ReadNext(genCmd, genExpect, tree)
    /\ UNCHANGED <<tree, edits, generates, genCmd, genClean, vvVars, vvQuiet>>

WriteGenerate ==
    /\ genCmd # "idle"
    /\ genExpect.kind = "text"
    /\ tree' = WriteOutput(genCmd, genExpect.text, tree)
    /\ genCmd' = "idle"
    /\ genExpect' = Unread
    /\ vvQuiet' = FALSE
    /\ UNCHANGED <<edits, generates, genClean, vvVars>>

AbandonGenerate ==
    /\ genCmd # "idle"
    /\ genExpect.kind \in {"fail", "error"}
    /\ genCmd' = "idle"
    /\ genExpect' = Unread
    /\ UNCHANGED <<tree, edits, generates, genClean, vvVars, vvQuiet>>

--------------------------------------------------------------------------------
(* `just vv`. *)

Running == vvExit = "none"
Recipe  == Recipes[vvStep]

StartVv ==
    /\ ~Running
    /\ vvStep' = 1
    /\ vvExpect' = Unread
    /\ vvExit' = "none"
    /\ vvQuiet' = TRUE
    /\ UNCHANGED <<tree, edits, genVars, genClean>>

(* Faults: a recipe whose exit is ignored, and a check that reuses what the    *)
(* one before it has read.                                                   *)
FinishIgnoringExit(outcome) ==
    /\ vvExpect' = Unread
    /\ IF vvStep < Len(Recipes)
       THEN vvStep' = vvStep + 1 /\ UNCHANGED vvExit
       ELSE vvExit' = outcome /\ UNCHANGED vvStep
    /\ UNCHANGED <<tree, edits, genVars, genClean, vvQuiet>>

FinishKeepingReading(outcome) ==
    /\ IF outcome = "pass" /\ vvStep < Len(Recipes)
       THEN vvStep' = vvStep + 1 /\ UNCHANGED vvExit
       ELSE vvExit' = outcome /\ UNCHANGED vvStep
    /\ UNCHANGED <<tree, edits, genVars, genClean, vvExpect, vvQuiet>>

Finish(outcome) ==
    /\ vvExpect' = Unread
    /\ IF outcome = "pass" /\ vvStep < Len(Recipes)
       THEN vvStep' = vvStep + 1 /\ UNCHANGED vvExit
       ELSE vvExit' = outcome /\ UNCHANGED vvStep
    /\ UNCHANGED <<tree, edits, genVars, genClean, vvQuiet>>

RunRecipe ==
    /\ Running
    /\ Recipe \notin DOMAIN Checked
    /\ \E o \in Outcomes(Recipe, tree) : Finish(o)

ReadCheck ==
    /\ Running
    /\ Recipe \in DOMAIN Checked
    /\ vvExpect.kind \notin Settled
    /\ vvExpect' = ReadNext(Checked[Recipe], vvExpect, tree)
    /\ UNCHANGED <<tree, edits, genVars, genClean, vvStep, vvExit, vvQuiet>>

CompareCheck ==
    /\ Running
    /\ Recipe \in DOMAIN Checked
    /\ vvExpect.kind \in Settled
    /\ \E o \in CheckOutcomes(Recipe, vvExpect, tree) : Finish(o)

Next ==
    \/ Edit
    \/ \E g \in Generators : BeginGenerate(g)
    \/ ReadGenerate \/ WriteGenerate \/ AbandonGenerate
    \/ StartVv \/ RunRecipe \/ ReadCheck \/ CompareCheck

Spec == Init /\ [][Next]_vars

--------------------------------------------------------------------------------
(* Properties. *)

(* Every variable keeps its type; the running generator and the running       *)
(* recipe never hold a reading of a command they are not executing.          *)
TypeOK ==
    /\ tree.mods \in ModuleFiles
    /\ tree.claims \in Claims \cup {BadClaims}
    /\ tree.toolchain \in Toolchains
    /\ tree.artifact \in Artifacts \cup {NoFile}
    /\ edits \in 0 .. MaxEdits
    /\ generates \in 0 .. MaxGenerates
    /\ genCmd \in Generators \cup {"idle"}
    /\ vvStep \in 0 .. Len(Recipes)
    /\ vvExit \in {"none", "pass", "fail", "error"}
    /\ Running => vvStep # 0
    /\ {genClean, vvQuiet} \subseteq BOOLEAN
    /\ genExpect.kind # "unread" => genCmd # "idle"
    /\ vvExpect.kind # "unread" => Running /\ Recipe \in DOMAIN Checked

(* What the order of the recipes and the early stop buy: when a run has gone  *)
(* past a checking recipe and nothing has touched the tree since the run      *)
(* began, the output that recipe checks is current in the tree as it is now;  *)
(* in particular a run that reaches the gate certifies all four.             *)
QuietRunIsSound ==
    vvQuiet =>
        \A i \in 1 .. Len(Recipes) :
            i < vvStep /\ Recipes[i] \in DOMAIN Checked
                => Current(Checked[Recipes[i]], tree)

(* The generators have no cyclic dependency: from any tree none of them       *)
(* rejects, one pass in the order core, root, docs, manifest satisfies every  *)
(* check, and a second pass writes the same bytes again.                     *)
OnePassSuffices ==
    Generable(tree) =>
        LET t == Regenerated(tree)
        IN  /\ \A g \in Generators : Current(g, t)
            /\ Regenerated(t) = t

(* The generators implement the abstract contract of Staleness: which outputs *)
(* a generator may disturb is exactly this map.                              *)
Downstream == [g \in Generators |->
                  CASE g = "core"     -> {"root", "docs", "manifest"}
                    [] g = "root"     -> {"manifest"}
                    [] g = "docs"     -> {}
                    [] g = "manifest" -> {}]

Contract == INSTANCE Staleness
                WITH Outputs    <- Generators,
                     Downstream <- Downstream,
                     Idle       <- "idle",
                     stale      <- [g \in Generators |-> ~Current(g, tree)],
                     busy       <- genCmd,
                     disturbed  <- ~genClean

RefinesStaleness == Contract!Spec

================================================================================
