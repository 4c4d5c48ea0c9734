--------------------------- MODULE VvPipeline_proofs ---------------------------
(****************************************************************************)
(* The order of the recipes and the first-failure stop make a quiet `just vv` *)
(* sound, and the four generators keep the contract of Staleness, for every   *)
(* set of modules, contents, claims, toolchains and artifacts and for any     *)
(* number of edits and generator runs.                                       *)
(****************************************************************************)
EXTENDS VvPipeline, TLAPS

(* What a command has read so far is what the tree t holds.                  *)
ReadOfSources(t)     == [kind |-> "core", core |-> SourceCore(t)]
ReadOfEnvironment(t) ==
    [kind |-> "environment", core |-> SourceCore(t),
     gen |-> GeneratedProofInput(SourceCore(t), t),
     pre |-> PreFinalEnvironment(GeneratedProofInput(SourceCore(t), t), t)]

ReadingOf(g, e, t) ==
    \/ e = Unread
    \/ e = Expect(g, t)
    \/ g = "manifest" /\ e = ReadOfSources(t)
    \/ g = "manifest" /\ e = ReadOfEnvironment(t)

(* A tree is a record of these eight fields.                                 *)
IsTree(t) ==
    t = [mods |-> t.mods, bindings |-> t.bindings, claims |-> t.claims,
         toolchain |-> t.toolchain, artifact |-> t.artifact, root |-> t.root,
         conformance |-> t.conformance, manifest |-> t.manifest]

(* The kinds an expectation can have.                                        *)
LEMMA ExpectKinds ==
    ASSUME NEW g \in Generators, NEW t
    PROVE  Expect(g, t).kind \in Settled
  BY DEF Expect, ExpectCore, ExpectRoot, ExpectDocs, ExpectManifest, Settled, Generators

(* A reading that has settled is the command's whole expectation.            *)
LEMMA SettledReading ==
    ASSUME NEW g \in Generators, NEW e, NEW t,
           ReadingOf(g, e, t), e.kind \in Settled
    PROVE  e = Expect(g, t)
  BY DEF ReadingOf, Settled, Unread, ReadOfSources, ReadOfEnvironment

(* One more read of an unchanged tree keeps the reading true of it.          *)
LEMMA ReadNextReading ==
    ASSUME NEW g \in Generators, NEW e, NEW t,
           ReadingOf(g, e, t), e.kind \notin Settled
    PROVE  ReadingOf(g, ReadNext(g, e, t), t)
<1>1. CASE g # "manifest"
  BY <1>1 DEF ReadNext, ReadingOf
<1>2. CASE g = "manifest"
  <2>1. e # Expect(g, t)
    BY ExpectKinds
  <2>2. CASE e = Unread
    BY <1>2, <2>2 DEF ReadNext, ReadManifest, ReadingOf, Unread, ReadOfSources
  <2>3. CASE e = ReadOfSources(t)
    BY <1>2, <2>3 DEF ReadNext, ReadManifest, ReadingOf, ReadOfSources, ReadOfEnvironment
  <2>4. CASE e = ReadOfEnvironment(t)
    BY <1>2, <2>4
       DEF ReadNext, ReadManifest, ReadingOf, ReadOfEnvironment, Expect, ExpectManifest,
           BuildManifest
  <2>5. QED
    BY <1>2, <2>1, <2>2, <2>3, <2>4 DEF ReadingOf
<1>3. QED
  BY <1>1, <1>2

--------------------------------------------------------------------------------
(* What one write does to the four verdicts.                                 *)

(* A generator that writes what it expects of the tree makes its own check    *)
(* pass.                                                                     *)
LEMMA CurrentAfterWrite ==
    ASSUME NEW g \in Generators, NEW t, IsTree(t), Expect(g, t).kind = "text"
    PROVE  Current(g, WriteOutput(g, Expect(g, t).text, t))
<1> DEFINE u == WriteOutput(g, Expect(g, t).text, t)
<1>1. CASE g = "core"
  <2>1. u.mods = t.mods /\ u.bindings = ExpectCore(t).text
    BY <1>1 DEF WriteOutput, IsTree, Expect
  <2>2. ExpectCore(u) = ExpectCore(t)
    BY <2>1 DEF ExpectCore, MarkersOf
  <2>3. u.bindings # NoFile
    BY <1>1, <2>1 DEF ExpectCore, Expect, NoFile
  <2>4. QED
    BY <1>1, <2>1, <2>2, <2>3 DEF Current, CheckVerdict, CompareOutput, Expect
<1>2. CASE g = "root"
  <2>1. u.mods = t.mods /\ u.bindings = t.bindings /\ u.root = ExpectRoot(t).text
    BY <1>2 DEF WriteOutput, IsTree, Expect
  <2>2. ExpectRoot(u) = ExpectRoot(t)
    BY <2>1 DEF ExpectRoot, PresentModules
  <2>3. QED
    BY <1>2, <2>1, <2>2 DEF Current, CheckVerdict, CompareOutput, Expect
<1>3. CASE g = "docs"
  <2>1. /\ u.mods = t.mods /\ u.bindings = t.bindings /\ u.claims = t.claims
        /\ u.conformance = ExpectDocs(t).text
    BY <1>3 DEF WriteOutput, IsTree, Expect
  <2>2. PresentModules(u) = PresentModules(t)
    BY <2>1 DEF PresentModules
  <2>3. ExpectDocs(u) = ExpectDocs(t)
    BY <2>1, <2>2 DEF ExpectDocs, Inventory
  <2>4. QED
    BY <1>3, <2>1, <2>3 DEF Current, CheckVerdict, CompareOutput, Expect
<1>4. CASE g = "manifest"
  <2>1. /\ u.mods = t.mods /\ u.bindings = t.bindings /\ u.claims = t.claims
        /\ u.toolchain = t.toolchain /\ u.root = t.root
        /\ u.manifest = BuildManifest(t)
    BY <1>4 DEF WriteOutput, IsTree, Expect, ExpectManifest
  <2>2. /\ BuildManifest(u).core = BuildManifest(t).core
        /\ BuildManifest(u).gen = BuildManifest(t).gen
        /\ BuildManifest(u).pre = BuildManifest(t).pre
    BY <2>1 DEF BuildManifest, SourceCore, GeneratedProofInput, PreFinalEnvironment
  <2>3. u.manifest # NoFile
    BY <2>1 DEF BuildManifest, NoFile
  <2>4. QED
    BY <1>4, <2>1, <2>2, <2>3
       DEF Current, CheckVerdict, CompareOutput, Expect, ExpectManifest, ManifestVerdict
<1>5. QED
  BY <1>1, <1>2, <1>3, <1>4 DEF Generators

(* The verdicts a write leaves alone, whatever it writes.                     *)
LEMMA OthersAfterWrite ==
    ASSUME NEW g \in Generators, NEW t, IsTree(t), NEW text,
           NEW h \in Generators \ ({g} \cup Downstream[g])
    PROVE  Current(h, WriteOutput(g, text, t)) <=> Current(h, t)
<1> DEFINE u == WriteOutput(g, text, t)
<1>1. g # "core"
  BY DEF Downstream, Generators
<1>2. u.mods = t.mods /\ u.bindings = t.bindings /\ u.claims = t.claims
      /\ u.toolchain = t.toolchain
  BY <1>1 DEF WriteOutput, IsTree, Generators
<1>3. CASE h = "core"
  BY <1>2, <1>3 DEF Current, CheckVerdict, CompareOutput, Expect, ExpectCore, MarkersOf
<1>4. CASE h = "root"
  <2>1. u.root = t.root
    BY <1>1, <1>4 DEF WriteOutput, IsTree, Generators
  <2>2. QED
    BY <1>2, <1>4, <2>1
       DEF Current, CheckVerdict, CompareOutput, Expect, ExpectRoot, PresentModules
<1>5. CASE h = "docs"
  <2>1. u.conformance = t.conformance
    BY <1>1, <1>5 DEF WriteOutput, IsTree, Generators
  <2>2. PresentModules(u) = PresentModules(t)
    BY <1>2 DEF PresentModules
  <2>3. ExpectDocs(u) = ExpectDocs(t)
    BY <1>2, <2>2 DEF ExpectDocs, Inventory
  <2>4. QED
    BY <1>5, <2>1, <2>3 DEF Current, CheckVerdict, CompareOutput, Expect
<1>6. CASE h = "manifest"
  <2>1. u.root = t.root /\ u.manifest = t.manifest
    BY <1>1, <1>6 DEF WriteOutput, IsTree, Generators, Downstream
  <2>2. /\ BuildManifest(u).core = BuildManifest(t).core
        /\ BuildManifest(u).gen = BuildManifest(t).gen
        /\ BuildManifest(u).pre = BuildManifest(t).pre
    BY <1>2, <2>1 DEF BuildManifest, SourceCore, GeneratedProofInput, PreFinalEnvironment
  <2>3. QED
    BY <1>6, <2>1, <2>2
       DEF Current, CheckVerdict, CompareOutput, Expect, ExpectManifest, ManifestVerdict
<1>7. QED
  BY <1>3, <1>4, <1>5, <1>6 DEF Generators

--------------------------------------------------------------------------------
(* Type correctness. *)

(* A write replaces one generated file and nothing handwritten.              *)
LEMMA WriteKeepsSources ==
    ASSUME NEW g \in Generators, NEW t, IsTree(t), NEW text
    PROVE  LET u == WriteOutput(g, text, t)
           IN  /\ IsTree(u)
               /\ u.mods = t.mods /\ u.claims = t.claims
               /\ u.toolchain = t.toolchain /\ u.artifact = t.artifact
  BY DEF WriteOutput, IsTree, Generators

(* So does a whole generator run. *)
LEMMA GenerateKeepsSources ==
    ASSUME NEW g \in Generators, NEW t, IsTree(t)
    PROVE  LET u == Generate(g, t)
           IN  /\ IsTree(u)
               /\ u.mods = t.mods /\ u.claims = t.claims
               /\ u.toolchain = t.toolchain /\ u.artifact = t.artifact
<1>1. Generate(g, t) = t \/ Generate(g, t) = WriteOutput(g, Expect(g, t).text, t)
  BY DEF Generate
<1>2. QED
  BY <1>1, WriteKeepsSources

TypeInv == TypeOK /\ IsTree(tree)

LEMMA TypeInit == Init => TypeInv
<1> SUFFICES ASSUME Init PROVE TypeInv
  OBVIOUS
<1>1. PICK h \in Handwritten : tree = Regenerated(h)
  BY DEF Init
<1>2. /\ IsTree(h) /\ h.mods \in ModuleFiles /\ h.claims \in Claims
      /\ h.toolchain \in Toolchains /\ h.artifact = NoFile
  BY DEF Handwritten, IsTree
<1> DEFINE t1 == Generate("core", h)
           t2 == Generate("root", t1)
           t3 == Generate("docs", t2)
<1>3. IsTree(t1) /\ t1.mods = h.mods /\ t1.claims = h.claims
      /\ t1.toolchain = h.toolchain /\ t1.artifact = h.artifact
  BY <1>2, GenerateKeepsSources DEF Generators
<1>4. IsTree(t2) /\ t2.mods = h.mods /\ t2.claims = h.claims
      /\ t2.toolchain = h.toolchain /\ t2.artifact = h.artifact
  BY <1>3, GenerateKeepsSources DEF Generators
<1>5. IsTree(t3) /\ t3.mods = h.mods /\ t3.claims = h.claims
      /\ t3.toolchain = h.toolchain /\ t3.artifact = h.artifact
  BY <1>4, GenerateKeepsSources DEF Generators
<1>6. tree = Generate("manifest", t3)
  BY <1>1 DEF Regenerated
<1>7. IsTree(tree) /\ tree.mods = h.mods /\ tree.claims = h.claims
      /\ tree.toolchain = h.toolchain /\ tree.artifact = h.artifact
  BY <1>5, <1>6, GenerateKeepsSources DEF Generators
<1>8. 0 \in 0 .. MaxEdits /\ 0 \in 0 .. MaxGenerates /\ 0 \in 0 .. Len(Recipes)
  BY VvPipelineAssumption DEF Recipes
<1>9. QED
  BY <1>2, <1>7, <1>8 DEF Init, TypeInv, TypeOK, Running, Unread

(* The developer's edits replace one file of the tree by something a file of  *)
(* that name can contain.                                                    *)
LEMMA EditKeepsType ==
    ASSUME TypeInv, Edit
    PROVE  TypeInv'
<1> USE DEF TypeInv
<1>1. ASSUME NEW t, Change(t), IsTree(t), t.mods \in ModuleFiles,
             t.claims \in Claims \cup {BadClaims}, t.toolchain \in Toolchains,
             t.artifact \in Artifacts \cup {NoFile}
      PROVE  TypeInv'
  <2>1. edits' \in 0 .. MaxEdits
    BY <1>1, VvPipelineAssumption DEF Change, TypeOK
  <2>2. QED
    BY <1>1, <2>1 DEF Change, TypeOK, genVars, vvVars, Running, Recipe
<1>2. CASE EditModule
  <2>1. PICK m \in Modules, c \in Contents \cup {NoFile} :
            Change([tree EXCEPT !.mods[m] = c])
    BY <1>2 DEF EditModule
  <2>2. [tree EXCEPT !.mods[m] = c] = [tree EXCEPT !.mods = [tree.mods EXCEPT ![m] = c]]
    BY DEF IsTree
  <2>3. [tree.mods EXCEPT ![m] = c] \in ModuleFiles
    BY DEF TypeOK, ModuleFiles
  <2>4. QED
    BY <1>1, <2>1, <2>2, <2>3 DEF TypeOK, IsTree
<1>3. CASE EditClaims
  BY <1>1, <1>3 DEF EditClaims, TypeOK, IsTree
<1>4. CASE EditToolchain
  BY <1>1, <1>4 DEF EditToolchain, TypeOK, IsTree
<1>5. CASE EmitArtifact
  BY <1>1, <1>5 DEF EmitArtifact, TypeOK, IsTree
<1>6. CASE DeleteOutput
  <2>1. PICK g \in Generators : Change(WriteOutput(g, NoFile, tree))
    BY <1>6 DEF DeleteOutput
  <2>2. QED
    BY <1>1, <2>1, WriteKeepsSources DEF TypeOK
<1>7. QED
  BY <1>2, <1>3, <1>4, <1>5, <1>6 DEF Edit

LEMMA RecipesShape == Len(Recipes) = 16
  BY DEF Recipes

(* Finish moves to the next recipe or ends the run.                          *)
LEMMA FinishKeepsType ==
    ASSUME TypeInv, Running, NEW o \in {"pass", "fail", "error"}, Finish(o)
    PROVE  TypeInv'
<1>1. vvStep' \in 0 .. Len(Recipes) /\ vvStep' # 0
  BY RecipesShape DEF Finish, TypeInv, TypeOK
<1>2. vvExit' \in {"none", "pass", "fail", "error"}
  BY DEF Finish, TypeInv, TypeOK, Running
<1>3. QED
  BY <1>1, <1>2 DEF Finish, TypeInv, TypeOK, genVars, Running, Unread

(* The outcomes of a checking recipe are exits.                              *)
LEMMA CheckOutcomesAreExits ==
    ASSUME NEW r \in DOMAIN Checked, NEW e, NEW t, e.kind \in Settled,
           NEW o \in CheckOutcomes(r, e, t)
    PROVE  o \in {"pass", "fail", "error"}
<1>1. CASE e.kind # "text"
  BY <1>1 DEF CheckOutcomes, Settled
<1>2. CASE e.kind = "text"
  <2>1. CompareOutput(Checked[r], e.text, t) \in {"pass", "fail", "error"}
    <3>1. Checked[r] \in Generators
      BY DEF Checked, Generators
    <3>2. QED
      BY <3>1 DEF CompareOutput, ManifestVerdict, Generators
  <2>2. QED
    BY <1>2, <2>1 DEF CheckOutcomes, CoreOutcome
<1>3. QED
  BY <1>1, <1>2

LEMMA TypeNext == TypeInv /\ [Next]_vars => TypeInv'
<1> SUFFICES ASSUME TypeInv, [Next]_vars PROVE TypeInv'
  OBVIOUS
<1>1. CASE Edit
  BY <1>1, EditKeepsType
<1>2. ASSUME NEW g \in Generators, BeginGenerate(g) PROVE TypeInv'
  <2>1. generates' \in 0 .. MaxGenerates
    BY <1>2, VvPipelineAssumption DEF BeginGenerate, TypeInv, TypeOK
  <2>2. QED
    BY <1>2, <2>1 DEF BeginGenerate, TypeInv, TypeOK, vvVars, Unread, Running, Recipe
<1>3. CASE ReadGenerate
  BY <1>3 DEF ReadGenerate, TypeInv, TypeOK, vvVars, Running, Recipe
<1>4. CASE WriteGenerate
  <2>1. genCmd \in Generators
    BY <1>4 DEF WriteGenerate, TypeInv, TypeOK
  <2>2. /\ IsTree(tree') /\ tree'.mods = tree.mods /\ tree'.claims = tree.claims
        /\ tree'.toolchain = tree.toolchain /\ tree'.artifact = tree.artifact
    BY <1>4, <2>1, WriteKeepsSources DEF WriteGenerate, TypeInv
  <2>3. QED
    BY <1>4, <2>2 DEF WriteGenerate, TypeInv, TypeOK, vvVars, Unread, Running, Recipe
<1>5. CASE AbandonGenerate
  BY <1>5 DEF AbandonGenerate, TypeInv, TypeOK, vvVars, Unread, Running, Recipe
<1>6. CASE StartVv
  BY <1>6, RecipesShape DEF StartVv, TypeInv, TypeOK, genVars, Unread, Running
<1>7. CASE RunRecipe
  <2>1. PICK o \in Outcomes(Recipe, tree) : Finish(o)
    BY <1>7 DEF RunRecipe
  <2>2. o \in {"pass", "fail", "error"}
    BY <2>1 DEF Outcomes
  <2>3. QED
    BY <1>7, <2>1, <2>2, FinishKeepsType DEF RunRecipe
<1>8. CASE ReadCheck
  BY <1>8 DEF ReadCheck, TypeInv, TypeOK, genVars, Running, Recipe
<1>9. CASE CompareCheck
  <2>1. PICK o \in CheckOutcomes(Recipe, vvExpect, tree) : Finish(o)
    BY <1>9 DEF CompareCheck
  <2>2. o \in {"pass", "fail", "error"}
    BY <1>9, <2>1, CheckOutcomesAreExits DEF CompareCheck
  <2>3. QED
    BY <1>9, <2>1, <2>2, FinishKeepsType DEF CompareCheck
<1>10. CASE UNCHANGED vars
  BY <1>10 DEF vars, TypeInv, TypeOK, Running, Recipe
<1>11. QED
  BY <1>1, <1>2, <1>3, <1>4, <1>5, <1>6, <1>7, <1>8, <1>9, <1>10 DEF Next

(* Type correctness of the pipeline: every file keeps to what a file of its    *)
(* name can contain, and no command holds a reading it did not make.         *)
THEOREM TypeCorrect == Spec => []TypeOK
<1>1. Init => TypeInv
  BY TypeInit
<1>2. TypeInv /\ [Next]_vars => TypeInv'
  BY TypeNext
<1>3. TypeInv => TypeOK
  BY DEF TypeInv
<1>4. QED
  BY <1>1, <1>2, <1>3, PTL DEF Spec

--------------------------------------------------------------------------------
(* The soundness of a quiet run. *)

(* While nothing touches the tree, what the current check has read stays what  *)
(* the tree holds: the strengthening QuietRunIsSound needs, because a verdict  *)
(* is given on the reading and not on the tree.                              *)
ReadingIsTheTrees ==
    vvQuiet /\ Running /\ Recipe \in DOMAIN Checked
        => ReadingOf(Checked[Recipe], vvExpect, tree)

QuietInv == TypeInv /\ ReadingIsTheTrees /\ QuietRunIsSound

LEMMA CheckedAreGenerators == \A r \in DOMAIN Checked : Checked[r] \in Generators
  BY DEF Checked, Generators

(* A passing outcome on a reading of the tree means the output is current.    *)
LEMMA PassMeansCurrent ==
    ASSUME NEW r \in DOMAIN Checked, NEW e, NEW t,
           ReadingOf(Checked[r], e, t), e.kind \in Settled,
           "pass" \in CheckOutcomes(r, e, t)
    PROVE  Current(Checked[r], t)
<1>1. e = Expect(Checked[r], t)
  BY CheckedAreGenerators, SettledReading
<1>2. e.kind = "text"
  BY DEF CheckOutcomes, Settled
<1>3. CompareOutput(Checked[r], e.text, t) = "pass"
  BY <1>2 DEF CheckOutcomes, CoreOutcome
<1>4. QED
  BY <1>1, <1>2, <1>3 DEF Current, CheckVerdict

(* The steps that leave the run where it is and the tree as it is.            *)
LEMMA QuietUntouched ==
    ASSUME QuietInv, UNCHANGED <<tree, vvVars, vvQuiet>>
    PROVE  ReadingIsTheTrees' /\ QuietRunIsSound'
  BY DEF QuietInv, ReadingIsTheTrees, QuietRunIsSound, vvVars, Running, Recipe

(* Finish keeps every earlier verdict and adds that of the finished recipe.   *)
LEMMA QuietFinish ==
    ASSUME QuietInv, Running, NEW o, Finish(o),
           vvQuiet /\ o = "pass" /\ Recipe \in DOMAIN Checked
               => Current(Checked[Recipe], tree)
    PROVE  ReadingIsTheTrees' /\ QuietRunIsSound'
<1>1. vvExpect' = Unread /\ tree' = tree /\ vvQuiet' = vvQuiet
  BY DEF Finish
<1>2. ReadingIsTheTrees'
  BY <1>1 DEF ReadingIsTheTrees, ReadingOf
<1>3. QuietRunIsSound'
  <2> SUFFICES ASSUME vvQuiet', NEW i \in 1 .. Len(Recipes), i < vvStep',
                      Recipes[i] \in DOMAIN Checked
               PROVE  Current(Checked[Recipes[i]], tree)
    BY <1>1 DEF QuietRunIsSound
  <2>1. vvStep \in 0 .. 16 /\ i \in 1 .. 16
    BY RecipesShape DEF QuietInv, TypeInv, TypeOK
  <2>2. CASE i < vvStep
    BY <1>1, <2>2 DEF QuietInv, QuietRunIsSound
  <2>3. CASE i >= vvStep
    <3>1. vvStep' = vvStep + 1 /\ o = "pass"
      BY <2>1, <2>3 DEF Finish
    <3>2. i = vvStep
      BY <2>1, <2>3, <3>1
    <3>3. QED
      BY <1>1, <3>1, <3>2 DEF Recipe
  <2>4. QED
    BY <2>1, <2>2, <2>3
<1>4. QED
  BY <1>2, <1>3

LEMMA QuietNext == QuietInv /\ [Next]_vars => QuietInv'
<1> SUFFICES ASSUME QuietInv, [Next]_vars PROVE ReadingIsTheTrees' /\ QuietRunIsSound'
  BY TypeNext DEF QuietInv
<1>1. CASE Edit
  <2>1. ~vvQuiet'
    BY <1>1 DEF Edit, EditModule, EditClaims, EditToolchain, EmitArtifact, DeleteOutput,
                Change
  <2>2. QED
    BY <2>1 DEF ReadingIsTheTrees, QuietRunIsSound
<1>2. ASSUME NEW g \in Generators, BeginGenerate(g)
      PROVE  ReadingIsTheTrees' /\ QuietRunIsSound'
  BY <1>2, QuietUntouched DEF BeginGenerate
<1>3. CASE ReadGenerate
  BY <1>3, QuietUntouched DEF ReadGenerate
<1>4. CASE WriteGenerate
  BY <1>4 DEF WriteGenerate, ReadingIsTheTrees, QuietRunIsSound
<1>5. CASE AbandonGenerate
  BY <1>5, QuietUntouched DEF AbandonGenerate
<1>6. CASE StartVv
  <2>1. vvStep' = 1 /\ vvExpect' = Unread
    BY <1>6 DEF StartVv
  <2>2. QED
    BY <2>1, RecipesShape DEF ReadingIsTheTrees, ReadingOf, QuietRunIsSound
<1>7. CASE RunRecipe
  BY <1>7, QuietFinish DEF RunRecipe
<1>8. CASE ReadCheck
  <2>1. QuietRunIsSound'
    BY <1>8 DEF ReadCheck, QuietInv, QuietRunIsSound
  <2>2. ASSUME vvQuiet PROVE ReadingOf(Checked[Recipe], vvExpect', tree)
    BY <1>8, <2>2, ReadNextReading, CheckedAreGenerators
       DEF ReadCheck, QuietInv, ReadingIsTheTrees
  <2>3. QED
    BY <1>8, <2>1, <2>2 DEF ReadCheck, ReadingIsTheTrees, Running, Recipe
<1>9. CASE CompareCheck
  <2>1. PICK o \in CheckOutcomes(Recipe, vvExpect, tree) : Finish(o)
    BY <1>9 DEF CompareCheck
  <2>2. ASSUME vvQuiet, o = "pass" PROVE Current(Checked[Recipe], tree)
    BY <1>9, <2>1, <2>2, PassMeansCurrent DEF CompareCheck, QuietInv, ReadingIsTheTrees
  <2>3. QED
    BY <1>9, <2>1, <2>2, QuietFinish DEF CompareCheck
<1>10. CASE UNCHANGED vars
  BY <1>10, QuietUntouched DEF vars, vvVars
<1>11. QED
  BY <1>1, <1>2, <1>3, <1>4, <1>5, <1>6, <1>7, <1>8, <1>9, <1>10 DEF Next

(* A run of `just vv` that nothing disturbs certifies, at every recipe, every  *)
(* output whose check it has passed.                                         *)
THEOREM QuietSoundness == Spec => []QuietRunIsSound
<1>1. Init => QuietInv
  <2>1. Init => ReadingIsTheTrees /\ QuietRunIsSound
    BY RecipesShape DEF Init, ReadingIsTheTrees, QuietRunIsSound, ReadingOf
  <2>2. QED
    BY <2>1, TypeInit DEF QuietInv
<1>2. QuietInv /\ [Next]_vars => QuietInv'
  BY QuietNext
<1>3. QuietInv => QuietRunIsSound
  BY DEF QuietInv
<1>4. QED
  BY <1>1, <1>2, <1>3, PTL DEF Spec

--------------------------------------------------------------------------------
(* The generators implement Staleness. *)

(* The same strengthening for the generator: undisturbed, it has read what the *)
(* tree holds.                                                               *)
GeneratorReadsTree ==
    genClean /\ genCmd # "idle" => ReadingOf(genCmd, genExpect, tree)

GenInv == TypeInv /\ GeneratorReadsTree

LEMMA GenNext == GenInv /\ [Next]_vars => GenInv'
<1> SUFFICES ASSUME GenInv, [Next]_vars PROVE GeneratorReadsTree'
  BY TypeNext DEF GenInv
<1>1. CASE Edit
  BY <1>1 DEF Edit, EditModule, EditClaims, EditToolchain, EmitArtifact, DeleteOutput,
              Change, GeneratorReadsTree
<1>2. ASSUME NEW g \in Generators, BeginGenerate(g) PROVE GeneratorReadsTree'
  BY <1>2 DEF BeginGenerate, GeneratorReadsTree, ReadingOf
<1>3. CASE ReadGenerate
  <2>1. genCmd \in Generators
    BY <1>3 DEF ReadGenerate, GenInv, TypeInv, TypeOK
  <2>2. QED
    BY <1>3, <2>1, ReadNextReading DEF ReadGenerate, GenInv, GeneratorReadsTree
<1>4. CASE WriteGenerate \/ AbandonGenerate
  BY <1>4 DEF WriteGenerate, AbandonGenerate, GeneratorReadsTree
<1>5. CASE StartVv \/ RunRecipe \/ ReadCheck \/ CompareCheck \/ UNCHANGED vars
  <2>1. UNCHANGED <<tree, genCmd, genExpect, genClean>>
    BY <1>5 DEF StartVv, RunRecipe, ReadCheck, CompareCheck, Finish, vars, genVars
  <2>2. QED
    BY <2>1 DEF GenInv, GeneratorReadsTree
<1>6. QED
  BY <1>1, <1>2, <1>3, <1>4, <1>5 DEF Next

(* The abstract state under the mapping. *)
Stale == [g \in Generators |-> ~Current(g, tree)]

LEMMA StaleType == Stale \in [Generators -> BOOLEAN]
  BY DEF Stale

(* Every step of the pipeline is a step of the contract or stutters.          *)
LEMMA StepRefines == GenInv /\ [Next]_vars => [Contract!Next]_Contract!vars
<1> SUFFICES ASSUME GenInv, [Next]_vars PROVE [Contract!Next]_Contract!vars
  OBVIOUS
<1>0. Stale' \in [Generators -> BOOLEAN]
  BY DEF Stale
<1>1. CASE Edit
  <2>1. ~genClean' /\ genCmd' = genCmd
    BY <1>1 DEF Edit, EditModule, EditClaims, EditToolchain, EmitArtifact, DeleteOutput,
                Change, genVars
  <2>2. Contract!Edit
    BY <1>0, <2>1 DEF Contract!Edit, Stale
  <2>3. QED
    BY <2>2 DEF Contract!Next
<1>2. ASSUME NEW g \in Generators, BeginGenerate(g) PROVE Contract!Next
  <2>1. Contract!Begin(g)
    BY <1>2 DEF BeginGenerate, Contract!Begin
  <2>2. QED
    BY <2>1 DEF Contract!Next
<1>3. CASE ReadGenerate
  BY <1>3 DEF ReadGenerate, Contract!vars
<1>4. CASE WriteGenerate
  <2> DEFINE g == genCmd
  <2>1. g \in Generators /\ IsTree(tree)
    BY <1>4 DEF WriteGenerate, GenInv, TypeInv, TypeOK
  <2>2. genCmd' = "idle" /\ genClean' = genClean
    BY <1>4 DEF WriteGenerate
  <2>3. ASSUME genClean PROVE Current(g, tree')
    <3>1. genExpect = Expect(g, tree) /\ genExpect.kind = "text"
      BY <1>4, <2>1, <2>3, SettledReading
         DEF WriteGenerate, GenInv, GeneratorReadsTree, Settled
    <3>2. QED
      BY <1>4, <2>1, <3>1, CurrentAfterWrite DEF WriteGenerate
  <2>4. ASSUME NEW h \in Generators \ ({g} \cup Downstream[g])
        PROVE  Current(h, tree') <=> Current(h, tree)
    BY <1>4, <2>1, <2>4, OthersAfterWrite DEF WriteGenerate
  <2>5. Contract!Write(g)
    <3>1. ~~genClean => ~Stale'[g]
      BY <2>1, <2>3 DEF Stale
    <3>2. \A h \in Generators \ ({g} \cup Downstream[g]) : Stale'[h] = Stale[h]
      BY <2>4 DEF Stale
    <3>3. UNCHANGED ~genClean
      BY <2>2
    <3>4. QED
      BY <1>0, <2>2, <3>1, <3>2, <3>3 DEF Contract!Write, Stale
  <2>6. QED
    BY <2>1, <2>5 DEF Contract!Next
<1>5. CASE AbandonGenerate
  <2>1. genCmd \in Generators /\ Contract!Abandon(genCmd)
    BY <1>5 DEF AbandonGenerate, Contract!Abandon, GenInv, TypeInv, TypeOK
  <2>2. QED
    BY <2>1 DEF Contract!Next
<1>6. CASE StartVv \/ RunRecipe \/ ReadCheck \/ CompareCheck \/ UNCHANGED vars
  <2>1. UNCHANGED <<tree, genCmd, genClean>>
    BY <1>6 DEF StartVv, RunRecipe, ReadCheck, CompareCheck, Finish, vars, genVars
  <2>2. QED
    BY <2>1 DEF Contract!vars
<1>7. QED
  BY <1>1, <1>2, <1>3, <1>4, <1>5, <1>6 DEF Next

(* The four generators keep the contract: an undisturbed generator leaves its  *)
(* own output current, and none disturbs an output that is not downstream of  *)
(* its own, so the order core, root, docs, manifest needs no second pass.     *)
THEOREM Refinement == Spec => RefinesStaleness
<1>1. Init => GenInv /\ Contract!Init
  <2>1. Init => GenInv
    BY TypeInit DEF Init, GenInv, GeneratorReadsTree
  <2>2. Init => Contract!Init
    BY StaleType DEF Init, Contract!Init, Stale
  <2>3. QED
    BY <2>1, <2>2
<1>2. GenInv /\ [Next]_vars => GenInv'
  BY GenNext
<1>3. GenInv /\ [Next]_vars => [Contract!Next]_Contract!vars
  BY StepRefines
<1>4. QED
  BY <1>1, <1>2, <1>3, PTL DEF Spec, RefinesStaleness, Contract!Spec

--------------------------------------------------------------------------------
(* The generators have a fixpoint, and one pass reaches it. *)

(* Where nothing was rejected, a command that runs first rejects nothing later *)
(* for having run.                                                           *)
LEMMA GenerableAfterGenerate ==
    ASSUME NEW g \in Generators, NEW t, IsTree(t), Generable(t)
    PROVE  Generable(Generate(g, t))
<1> DEFINE u == Generate(g, t)
<1>1. u.mods = t.mods /\ u.claims = t.claims
  BY GenerateKeepsSources
<1>2. ExpectCore(u).kind = ExpectCore(t).kind
  BY <1>1 DEF ExpectCore, MarkersOf
<1>3. ExpectRoot(u).kind = ExpectRoot(t).kind
  BY <1>1 DEF ExpectRoot, PresentModules
<1>4. ExpectDocs(u).kind = ExpectDocs(t).kind
  BY <1>1 DEF ExpectDocs
<1>5. QED
  BY <1>2, <1>3, <1>4 DEF Generable, Expect, ExpectManifest, Generators

(* Running the generator of an output that is already its expected text       *)
(* changes nothing.                                                          *)
LEMMA CurrentIsFixed ==
    ASSUME NEW g \in Generators \ {"manifest"}, NEW t, IsTree(t), Current(g, t)
    PROVE  Generate(g, t) = t
<1>1. Expect(g, t).kind = "text" /\ CompareOutput(g, Expect(g, t).text, t) = "pass"
  BY ExpectKinds DEF Current, CheckVerdict, Settled
<1>2. CASE g = "core"
  <2>1. t.bindings = Expect(g, t).text
    BY <1>1, <1>2 DEF CompareOutput
  <2>2. QED
    BY <1>1, <1>2, <2>1 DEF Generate, WriteOutput, IsTree
<1>3. CASE g = "root"
  <2>1. t.root = Expect(g, t).text
    BY <1>1, <1>3 DEF CompareOutput
  <2>2. QED
    BY <1>1, <1>3, <2>1 DEF Generate, WriteOutput, IsTree
<1>4. CASE g = "docs"
  <2>1. t.conformance = Expect(g, t).text
    BY <1>1, <1>4 DEF CompareOutput
  <2>2. QED
    BY <1>1, <1>4, <2>1 DEF Generate, WriteOutput, IsTree
<1>5. QED
  BY <1>2, <1>3, <1>4 DEF Generators

(* One more step of the pass: the step's own output becomes current, and the  *)
(* outputs that are not downstream of it keep their verdicts.                *)
LEMMA PassStep ==
    ASSUME NEW g \in Generators, NEW t, IsTree(t), Generable(t)
    PROVE  LET u == Generate(g, t)
           IN  /\ IsTree(u) /\ Generable(u) /\ Current(g, u)
               /\ \A h \in Generators \ ({g} \cup Downstream[g]) :
                      Current(h, t) => Current(h, u)
<1>1. Generate(g, t) = WriteOutput(g, Expect(g, t).text, t)
  BY DEF Generate, Generable
<1>2. QED
  BY <1>1, GenerateKeepsSources, GenerableAfterGenerate, CurrentAfterWrite,
     OthersAfterWrite DEF Generable

(* The manifest generator never reports a failure.                           *)
LEMMA GenerateManifest ==
    ASSUME NEW t
    PROVE  Generate("manifest", t) = [t EXCEPT !.manifest = BuildManifest(t)]
<1>1. Expect("manifest", t) = [kind |-> "text", text |-> BuildManifest(t)]
  BY DEF Expect, ExpectManifest
<1>2. Generate("manifest", t) = WriteOutput("manifest", BuildManifest(t), t)
  BY <1>1 DEF Generate
<1>3. QED
  BY <1>2 DEF WriteOutput

LEMMA OnePassFromAnyTree ==
    ASSUME NEW t, IsTree(t), Generable(t)
    PROVE  /\ \A g \in Generators : Current(g, Regenerated(t))
           /\ Regenerated(Regenerated(t)) = Regenerated(t)
<1> DEFINE t1 == Generate("core", t)
           t2 == Generate("root", t1)
           t3 == Generate("docs", t2)
           u  == Generate("manifest", t3)
<1>0. {"core", "root", "docs", "manifest"} = Generators
  BY DEF Generators
<1>1. IsTree(t1) /\ Generable(t1) /\ Current("core", t1)
  BY <1>0, PassStep
<1>2. IsTree(t2) /\ Generable(t2) /\ Current("root", t2) /\ Current("core", t2)
  <2>1. "core" \in Generators \ ({"root"} \cup Downstream["root"])
    BY DEF Downstream, Generators
  <2>2. QED
    BY <1>0, <1>1, <2>1, PassStep
<1>3. IsTree(t3) /\ Generable(t3) /\ Current("docs", t3) /\ Current("root", t3)
      /\ Current("core", t3)
  <2>1. {"core", "root"} \subseteq Generators \ ({"docs"} \cup Downstream["docs"])
    BY DEF Downstream, Generators
  <2>2. QED
    BY <1>0, <1>2, <2>1, PassStep
<1>4. /\ IsTree(u) /\ Current("manifest", u) /\ Current("docs", u)
      /\ Current("root", u) /\ Current("core", u)
  <2>1. {"core", "root", "docs"}
            \subseteq Generators \ ({"manifest"} \cup Downstream["manifest"])
    BY DEF Downstream, Generators
  <2>2. QED
    BY <1>0, <1>3, <2>1, PassStep
<1>5. Regenerated(t) = u
  BY DEF Regenerated
<1>6. Generate("manifest", u) = u
  <2>1. u = [t3 EXCEPT !.manifest = BuildManifest(t3)]
    BY GenerateManifest
  <2>2. BuildManifest(u) = BuildManifest(t3)
    BY <1>3, <2>1 DEF BuildManifest, SourceCore, GeneratedProofInput,
                      PreFinalEnvironment, OutputManifest, IsTree
  <2>3. Generate("manifest", u) = [u EXCEPT !.manifest = BuildManifest(t3)]
    BY <2>2, GenerateManifest
  <2>4. u.manifest = BuildManifest(t3)
    BY <1>3, <2>1 DEF IsTree
  <2>5. QED
    BY <1>4, <2>3, <2>4 DEF IsTree
<1>7. Regenerated(u) = u
  BY <1>0, <1>4, <1>6, CurrentIsFixed DEF Regenerated
<1>8. QED
  BY <1>0, <1>4, <1>5, <1>7

(* From every tree the pipeline reaches, one pass of the generators satisfies  *)
(* every check and a second pass writes the same bytes.                      *)
THEOREM OnePass == Spec => []OnePassSuffices
<1>1. TypeInv => OnePassSuffices
  BY OnePassFromAnyTree DEF TypeInv, OnePassSuffices
<1>2. Init => TypeInv
  BY TypeInit
<1>3. TypeInv /\ [Next]_vars => TypeInv'
  BY TypeNext
<1>4. QED
  BY <1>1, <1>2, <1>3, PTL DEF Spec

================================================================================
