------------------------------ MODULE ReleaseTree ------------------------------
(****************************************************************************)
(* The files of the repository that the generators of `xtask` read and       *)
(* write, and what each generator and its checking mode say about them:      *)
(*                                                                           *)
(*   core      xtask core --generate   WasmGemmGnaf/Wasm/CoreAuthorityBindings *)
(*   root      xtask sources root      WasmGemmGnaf.lean                     *)
(*   docs      xtask docs              CONFORMANCE.md                        *)
(*   manifest  xtask manifest          MANIFEST.json                         *)
(*                                                                           *)
(* The content of a file is a model value.  A SHA-256 identity is modelled by *)
(* the data it hashes: two identities are equal exactly when the hashed       *)
(* bodies are (manifest.rs relies on this when it compares identities).       *)
(****************************************************************************)
EXTENDS Integers, FiniteSets, FiniteSetsExt

CONSTANTS
    Modules,      \* handwritten .lean files under WasmGemmGnaf/
    Owned,        \* those inside one of the ten layer directories
    Marked,       \* those in which a Core coverage marker belongs
    Contents,     \* what a module can contain
    Lines,        \* Lines[c]: how the live inventory counts content c
    Markers,      \* Markers[c]: how often c carries the module's marker
    Claims,       \* contents of model/claims.json that parse
    BadClaims,    \* a claims.json that does not parse, or has no `claims`
    Toolchains,   \* contents of lean-toolchain
    Artifacts     \* contents of artifacts/

(* "The file does not exist": different from every text a generator writes.  *)
NoFile == [absent |-> TRUE]

ASSUME ReleaseTreeAssumption ==
    /\ Owned \subseteq Modules
    /\ Marked \subseteq Owned
    /\ Lines \in [Contents -> Nat]
    /\ Markers \in [Contents -> {"none", "once", "twice"}]
    /\ BadClaims \notin Claims
    /\ NoFile \notin Contents \cup Artifacts

Generators == {"core", "root", "docs", "manifest"}

(* The generated modules.  CoreAuthorityBindings.lean is the only generated  *)
(* file inside WasmGemmGnaf/: root.rs and docs.rs walk it like any module.   *)
ModuleFiles == [Modules -> Contents \cup {NoFile}]
PresentModules(t) == {m \in Modules : t.mods[m] # NoFile}

(* What the report of core.rs says before anything is compared or written:   *)
(* an item without a marker is incomplete coverage (a failure), two markers  *)
(* for one item cannot be rendered (an error).                               *)
MarkersOf(t, m) == IF t.mods[m] = NoFile THEN "none" ELSE Markers[t.mods[m]]

ExpectCore(t) ==
    IF \E m \in Marked : MarkersOf(t, m) = "none"
    THEN [kind |-> "fail"]
    ELSE IF \E m \in Marked : MarkersOf(t, m) = "twice"
    THEN [kind |-> "error"]
    ELSE [kind |-> "text", text |-> [aliases |-> [m \in Marked |-> t.mods[m]]]]

(* The root module imports every owned module by name, layer by layer; a     *)
(* module outside every layer directory stops it.                            *)
ExpectRoot(t) ==
    IF PresentModules(t) \subseteq Owned
    THEN [kind |-> "text",
          text |-> [imports  |-> PresentModules(t),
                    bindings |-> t.bindings # NoFile]]
    ELSE [kind |-> "fail"]

(* CONFORMANCE.md: the claims, and a live count of modules and lines.        *)
Inventory(t) ==
    [modules |-> Cardinality(PresentModules(t))
                   + (IF t.bindings = NoFile THEN 0 ELSE 1),
     lines   |-> MapThenSumSet(LAMBDA m : Lines[t.mods[m]], PresentModules(t))]

ExpectDocs(t) ==
    IF t.claims = BadClaims
    THEN [kind |-> "error"]
    ELSE [kind |-> "text",
          text |-> [inventory |-> Inventory(t), claims |-> t.claims]]

(* Faults of the kind the GENERATED list of manifest.rs guards against: an     *)
(* output counted as source.                                                 *)
SourceCoreWithManifest(t) == [mods |-> t.mods, bindings |-> t.bindings,
                              claims |-> t.claims, toolchain |-> t.toolchain,
                              manifest |-> t.manifest]
SourceCoreWithConformance(t) == [mods |-> t.mods, bindings |-> t.bindings,
                                 claims |-> t.claims, toolchain |-> t.toolchain,
                                 conformance |-> t.conformance]

(* The ordered identity stages of MANIFEST.json.  is_source leaves every     *)
(* generated root file and artifacts/ out of the first stage; the bindings   *)
(* module is inside WasmGemmGnaf/ and so is source.                          *)
SourceCore(t) == [mods |-> t.mods, bindings |-> t.bindings,
                  claims |-> t.claims, toolchain |-> t.toolchain]
GeneratedProofInput(core, t) == [core |-> core, root |-> t.root]
PreFinalEnvironment(gen, t)  == [gen |-> gen, toolchain |-> t.toolchain]
OutputManifest(core, gen, pre, t) ==
    [core |-> core, gen |-> gen, pre |-> pre,
     artifact |-> t.artifact, registry |-> t.claims, docs |-> t.conformance]

BuildManifest(t) ==
    LET core == SourceCore(t)
        gen  == GeneratedProofInput(core, t)
        pre  == PreFinalEnvironment(gen, t)
    IN  [core |-> core, gen |-> gen, pre |-> pre,
         out |-> OutputManifest(core, gen, pre, t)]

ExpectManifest(t) == [kind |-> "text", text |-> BuildManifest(t)]

(* What one command computes from the tree before it looks at its own output: *)
(* a text, a failed check, or a SpecError.                                   *)
Expect(g, t) ==
    CASE g = "core"     -> ExpectCore(t)
      [] g = "root"     -> ExpectRoot(t)
      [] g = "docs"     -> ExpectDocs(t)
      [] g = "manifest" -> ExpectManifest(t)

(* The same computation as the reads it is made of.  manifest::build hashes   *)
(* the source files, then the generated root with the toolchain, then the     *)
(* outputs; the tree may change between two of these reads.  The walks of the *)
(* other three commands are one read each.                                   *)
Unread  == [kind |-> "unread"]
Settled == {"text", "fail", "error"}

ReadManifest(e, t) ==
    CASE e.kind = "unread" -> [kind |-> "core", core |-> SourceCore(t)]
      [] e.kind = "core"   -> LET gen == GeneratedProofInput(e.core, t)
                              IN  [kind |-> "environment", core |-> e.core, gen |-> gen,
                                   pre |-> PreFinalEnvironment(gen, t)]
      [] e.kind = "environment" ->
             [kind |-> "text",
              text |-> [core |-> e.core, gen |-> e.gen, pre |-> e.pre,
                        out |-> OutputManifest(e.core, e.gen, e.pre, t)]]

ReadNext(g, e, t) == IF g = "manifest" THEN ReadManifest(e, t) ELSE Expect(g, t)

(* Writing mode: the whole generated file is replaced.                       *)
WriteOutput(g, text, t) ==
    CASE g = "core"     -> [t EXCEPT !.bindings = text]
      [] g = "root"     -> [t EXCEPT !.root = text]
      [] g = "docs"     -> [t EXCEPT !.conformance = text]
      [] g = "manifest" -> [t EXCEPT !.manifest = text]

(* manifest.rs verdict: the file exists and records the three identities.    *)
ManifestVerdict(built, t) ==
    IF /\ t.manifest # NoFile
       /\ t.manifest.core = built.core
       /\ t.manifest.gen = built.gen
       /\ t.manifest.pre = built.pre
    THEN "pass" ELSE "fail"

(* Checking mode, given the text expected of the output: "pass", "fail", or   *)
(* "error" where core.rs cannot read the bindings it compares with.          *)
CompareOutput(g, text, t) ==
    CASE g = "core"     -> IF t.bindings = NoFile THEN "error"
                           ELSE IF t.bindings = text THEN "pass" ELSE "fail"
      [] g = "root"     -> IF t.root = text THEN "pass" ELSE "fail"
      [] g = "docs"     -> IF t.conformance = text THEN "pass" ELSE "fail"
      [] g = "manifest" -> ManifestVerdict(text, t)

(* The whole check run on one unchanging tree.                               *)
CheckVerdict(g, t) ==
    LET e == Expect(g, t)
    IN  IF e.kind = "text" THEN CompareOutput(g, e.text, t) ELSE e.kind

Current(g, t) == CheckVerdict(g, t) = "pass"

(* The whole generator run on one unchanging tree: what it leaves behind.     *)
Generate(g, t) ==
    LET e == Expect(g, t)
    IN  IF e.kind = "text" THEN WriteOutput(g, e.text, t) ELSE t

(* One pass of the generators, each run on what the one before it left.       *)
Regenerated(t) ==
    Generate("manifest", Generate("docs", Generate("root", Generate("core", t))))

================================================================================
