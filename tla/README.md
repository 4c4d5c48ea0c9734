# A TLA+ model of the WASM-GEMM-GNAF release tooling

The repository is a Lean 4 development together with `xtask`, a Rust binary
that generates, checks and attacks it. The Lean theorems are checked by Lean's
kernel. What no kernel checks is the tooling that decides whether the
repository may claim them: which files are current, which declarations are
credited, which audits were really answered. This project models that tooling
(`src/xtask/src/*.rs` and `src/Justfile`). TLC checks it on small instances and
TLAPS proves the main properties for every value of the constants.

## 1. The system

### 1.1 Parts, their state and how they meet

| Part | Source | State it keeps | Operations |
|---|---|---|---|
| generators and their checks | `core.rs`, `root.rs`, `docs.rs`, `manifest.rs` | `CoreAuthorityBindings.lean`, `WasmGemmGnaf.lean`, `CONFORMANCE.md`, `MANIFEST.json` | generate; `--check` |
| `just vv` | `Justfile` | position in sixteen recipes | run the next recipe, stop at the first failure |
| required-declaration ledger | `required.rs` | a `Report`, refined in place | classify, apply signatures, apply independence, count in-house, render |
| signature bindings | `signature.rs` | parsed bindings | `exact_names`; audit |
| Lean probe | `lean.rs` | one file in the repository root per tool | write, run `lean`, delete, judge |
| axiom and presence audits | `axioms.rs`, `gate.rs` | none | judge a probe |
| independence audit | `independence.rs` | findings | probe, split, search |
| stripper | `lean.rs` | position, nesting depth | blank comments and strings |
| Core coverage | `core.rs` | a `Report` of five kinds | read, map, generate or compare, read again, elaborate, conclude |
| mutation suite | `mutation.rs` | scratch trees, rows | control, plant, judge, clean up |
| gate | `gate.rs` | a count of failed rows, the registry and the inventory it has read | read and show one row after the other, build in between, stop where something cannot be read |
| firewall | `firewall.rs` | none | one pass over imports; a row of the gate |
| schema bindings | `schema.rs` | bindings and gaps parsed from `Schema.lean` | parse, audit, ask the environment |
| vendored authority | `vendor.rs` | what it has read of manifests, files and literals | hash what is listed, enumerate the directory, compare with `Wasm/Revision.lean` |
| authority amendments | `amendment.rs` | the parsed records | compare pins and source, try the text operation, find the amended declaration and count its markers |
| Lean development | `WasmGemmGnaf/` (297 modules) | none at run time | definitions and proofs |

The parts meet in the working tree. A generator's output can be another
generator's input: the bindings module is imported by the root, counted by
`CONFORMANCE.md` and hashed by the manifest. The ledger credits what the
signature bindings say, and only a different command audits these. Every
question to Lean goes through a file at a fixed path. No part locks anything.

### 1.2 What is hard

* **Interleaving.** Commands are separate processes over an unlocked tree; a
  developer, a generator and a build can act between any two of their reads.
* **Reading twice.** `core` compares the bindings with one reading of the tree
  and puts another to Lean.
* **Shared probes.** Two commands of one tool write, elaborate and delete the
  same file; a kill, a failed write or a failed deletion leaves it.
* **Rules in sequence.** The ledger demotes names by three rules that lower one
  counter; the mutation suite has five ways to end a falsifier.
* **Partial failure.** A silent or unrelated answer of Lean can look like a
  verdict: an empty probe is clean, an error message names the label, a mutant
  without its imports "fails to elaborate".
* **Text.** Comments nest, strings escape, blocks are found by the first mention
  of a name, names occur in other names, two readers qualify the same name by
  different rules, and whether an amendment applies is decided by searches.
* **Long runs.** The gate reads its rows minutes apart, with a build in between,
  and says PASS of each as if they were about one tree.

`hazards` in `PROJECT.json` lists each of these at its line with the properties
that cover it.

## 2. Modules and how they correspond to the code

### 2.1 `ReleaseTree`, `Staleness`, `VvPipeline`: generators and `just vv`

`ReleaseTree` is the tree and, for each of the four generators, what it would
write (`Expect*`), how it reads (`ReadNext`: the manifest in three walks, each
stage over a tree that may have moved, the others in one) and what its check
says (`CompareOutput`, `ManifestVerdict`). File contents are model values. A
SHA-256 identity is the data it hashes.

`VvPipeline` has three actors: the developer (`EditModule`, `EditClaims`,
`EditToolchain`, `EmitArtifact`, `DeleteOutput`), a generator in another
terminal (`BeginGenerate`, `ReadGenerate`, `WriteGenerate`, `AbandonGenerate`)
and the recipe sequence (`StartVv`, `RunRecipe`, `ReadCheck`, `CompareCheck`).
Reading and writing are separate steps, as they are separate system calls. A
recipe whose verdict does not depend on this tree may end in any way its code
allows; the gate never passes, because four of its rows are literally `false`.

`Staleness` is the abstract specification: outputs are stale or current, an edit
may stale anything, a generator that nobody disturbs leaves its own output
current and disturbs only those downstream. `VvPipeline!RefinesStaleness` is the
refinement: `stale` is "the check would not pass now", `busy` is the running
generator.

### 2.2 `Ledger`: `claims required` and `signature`

A list of N lines (`required_names`, repeats allowed), an environment that
answers each candidate name, a set of parsed bindings and a set of names that
fail the independence audit. Each action is one read of `report` and applies one
rule to the same `Report`: `ProbeEnvironment`, `ReadBindings`,
`AuditIndependence`, `CountInHouse`, then `Conclude`, or `Abort` at any of the
reads. `Pushed`, `Monus` and the difference between the two demotion rules
(every unsigned name lowers the count, but only the circular names that are
pushed) are kept as they are. `RunSignature` is `xtask signature` on the same inputs.

### 2.3 `Probe`: one file, one question

`Open` and `Write` are the two halves of `fs::write`, `Elaborate` is the `lean`
process, and `Conclude` is the removal followed by the caller's judgement. Each of
them may fail as in the code: `OpenFails` and `WriteFails` return the error by `?`
before anything is removed, the second with part of the bytes written, and
`Conclude` judges whether or not the file could be removed. `Crash` is a kill.
`linked` says whether a command's handle is still the file at the path, so a
write may land in a file that another command has removed. `abandoned` is a
history variable: the file at a path was given up there (`Abandon`), and nobody
has opened or removed it since.

The judgements of the axiom audit, the presence probes and the independence
audit are one operator, `Judge`. The last one takes any mention of a name for the
answer to its question, so an environment that can be imported is enough for it
not to err (`built`), and a declaration that is absent is named in Lean's error.

### 2.4 `Independence`: splitting Lean's answer

Lean's output is a sequence of tokens, each a name or the word that opens a
declaration. `print_block` searches for the text of the label, not for the name:
`Start` is the first token whose text contains it (`Containing`), and `Block`
begins inside that token (`CutAt`: what is left of it from the label on) and goes
to the next line that starts a declaration with one of three keywords. Whether a
label was answered is the same search over all of the output, errors included.
`mentions`, on the other hand, compares whole identifiers. The checks run in the
order of the two nested loops. `EnvNames` are the constants of the environment
and what can be left of them. The specification is called `AuditSpec`, because
`Ledger_proofs` extends this module and `Ledger`, which applies the findings,
together. `IndependenceAssumption` is what the table of `independence.rs`
satisfies: an entry forbids neither of the two names it prints, and the words Lean
prints around names are not names.

### 2.5 `LeanStrip`: `strip`

One action for each branch of the three loops. The reference, `Contexts` and
`IsCode`, is an automaton that reads one character at a time and shares no
operator with the implementation.

### 2.6 `CoreCoverage`: `xtask core`

`ReadPart` is one call of `coverage`, so the developer may act between two kinds
of one report. `FirstReport`, `Judge`, then `Generate` or `Compare`, then
`SecondReport`, `Probe` and `Conclude` follow `run` with every combination of
`--check`, `--source-only` and `--generate`. `Blamed` is the substring search of
`report_elaborated`, with `Within` the relation "the text of a occurs in the
text of b".

### 2.7 `MutationSuite`: `xtask mutation`

The driver loop of `run` and the life of a falsifier: `CreateScratch`,
`CheckControl`, `Plant`, `Judge`, `Err`, each return through `Return`, which is
the drop of `TempDir`, the row and the exit. `Drop` and `RemoveProbe` may fail
without a word, as `remove_dir_all` and `remove_file` do in the code, and
`WriteFails` is a probe that is written in part and not removed; `keptScratch`
and `keptProbes` are history variables for what a kill or one of these has left.
What distinguishes the 38 falsifiers for the properties is given by sets:
whether there is a control, whether Lean elaborates the control and the mutant,
whether the rejection must carry an expected text, whether the falsifier probes
in the repository root. A build elsewhere makes the compiled environment
unavailable for a while, and the suite may be killed and started again.

### 2.8 `PatchText`, `LeanNames`, `Authority`: `vendor` and `amendment`

`Authority` has two commands over one tree and a developer between any two of
their reads. `vendor` is `ReadSums`, `HashListed` once per line of `SHA256SUMS`,
`Enumerate`, `ReadRevision`, `ReadBlobs`, `HashBlob`, `ReadCommit`,
`ReadAnchors` and `ReadLabels`, which gives the verdict; `amendment` is
`ReadRecords` to `CountMarkers`. `saw` is what a command holds; `Breaks` is the
error every reader can end in. The register has the rows that the records ask
for, lacks them, which is a finding, or cannot be read, which is an error. A
digest is the text it is the digest of. The variables `certified` and `bound`
are history: what undisturbed passes have seen.

`PatchText` is `check_patch_text`. The source is a sequence of lines, as
`normalize_spectec` leaves it, so an anchor or a fragment is found at line
boundaries only. `Results` is what the operation could lead to: the tool never
carries it out, and the record does not say where the inserted text goes. One
amendment with one patch is modelled; the checks of two amendments read the same
files and share nothing else.

`LeanNames` has the two readers of names, which differ in four ways, all of
them in the model. `declared_names` (`amendment.rs`) reads what `strip` leaves of
the file, `lean_markers` (`core.rs`) the raw lines (`Reads`, `CommentDepth`); each
knows keywords the other does not, `lemma`, `opaque` and modifiers the first,
`instance` the second (the field `by` of a line); the first ends a name at the
first character that is not ASCII, the second takes Unicode and guillemets
(`NameBy`); and the first also closes a namespace on its last segment, the second
only on the whole name (`Closes`). `PlainDeclaration` is a declaration on which they
can agree: both see its line, and every `namespace` and `end` line above, alike.
`CurrentInductive` keeps the last inductive type for ever, as the code does.

### 2.9 `SchemaBindings`, `Gate`: `gate`, `firewall` and `schema`

`Gate` runs the rows in the order in which the code reads (`Steps`). `Judge` is
a row decided by reading; `ReadRegistry` and `TakeInventory` also keep what
later rows use; `LakeBuild`, `RunMutation` and `AskGit` run another program.
`Holds` is what each row requires, `Unreadable` and `Break` are the `?` of the
code: a gate that cannot read something ends without its remaining rows.
`PartsOf` says which files a step reads, and `Readings` how reading one can end:
a directory of the language boundary, a source under the firewall or the scan, a
schema file or a bindings file that cannot be read stops the gate, while a
missing artifact is a red row. The signatures row accepts a credited name with
any binding of that name, the inventory credits only exact ones (`bound`). Four
rows are written down as failed (`ClosedRows`), so no gate passes today.
`quiet`, `cleaned` and `rebuilt` are history variables about the developers. The
files of a row on which nothing else depends are good, bad or unreadable.

`FirewallClean` is the rule on direct imports. `SchemaBindings` is the parser of
`Schema.lean`: where a binding's theorem begins and ends, which lines count as
its text, what a gap is. `Compiled` (external) is what Lean makes of the same lines,
block comments included; only `xtask schema` asks for it (`SchemaPasses`), the
gate's row stops at `AuditClean`.

### 2.10 Other modules

`MC*.tla` give the constants of the instances. `*_proofs.tla` hold the theorems.
Operators introduced by a comment "Fault:" are plausible bugs of the operator
after them. They are used by no specification; putting one in place of that
operator must break the property it is listed with in `PROJECT.json`.

## 3. What is checked

| Run | Question | Result |
|---|---|---|
| `vv_pipeline` | Is every output current whose recipe an undisturbed run has passed? Is one pass of the generators a fixed point? Do the generators implement `Staleness`? | holds |
| `ledger` | Do the numbers add up, is credit earned, does `signature` back `required`? | holds |
| `probe` | Is every probe that nobody is using one that a kill or a failed call has left, and what is a conclusion drawn alone about? | holds |
| `probe_concurrent_audits` | Has a clean audit seen every claim when two audits run at once? | violated: the second truncates the first one's probe |
| `independence` | Does no dependent theorem escape when nothing printed earlier contains the text of its label, and are exactly those rejected when Lean also answers for every label under a known keyword? | holds |
| `lean_strip` | Is the code kept and everything else blanked? | holds |
| `core` | What does a run that passes certify, and what can fail after `--generate`? | holds |
| `mutation_suite` | Which PASS rows can be believed, and is nothing left but by a kill or a failed call? | holds |
| `authority` | Do the Lean literals stand for one vendored tree and an amendment for one source? Is an amendment refused where it has been applied, and do the two readers of names agree on the declarations both see? | holds |
| `amendment_markers` | Is no coverage marker attached to an amended declaration once `amendment` passes? | violated: one of the kinds is spelled `core-aux:` there and `core-def:` in `core.rs` |
| `gate` | What do green rows say about the release theorem and about the registry's claims, what does a clean end say about rows read earlier, and what does `xtask schema` certify? | holds |
| `gate_release_closure` | Does the release theorem rest on accepted axioms when every row about it is green? | violated: row 9 looks for a name, and no row asks for its axioms |

Some properties need a condition, which is part of what they say. `Accounting`
needs a list without repeats: with a repeat, `discharged` and `missing` count
different things. `NoDependentEscapes` needs that nothing printed before the
block of a label contains its text (`NamedInOrder`): a longer name that does
would be where the block begins. `SeparatedOutputIsJudgedRight` needs in
addition that Lean knows every label and prints it after one of the three
keywords the code looks for, or a block runs on into its neighbour and blames an
entry too many. `UndisturbedPassIsEarned` needs that nothing was being built,
and `QuietRunIsSound` and `QuietPassIsSound` that nobody edited.
`AppliedPatchIsRefused` needs a patch that inserts none of its anchors,
`ReadersAgree` and `PinnedMarkersStayOut` a declaration that both readers see
alike, with `end` lines above it that close what they name, and
`CleanEndCoversEveryRow` that git answered and that nobody built, committed or
took an edit back meanwhile, by git or by hand: between two rows such an edit
can come and go, and `git status` sees only what stays. `GreenReleaseIsProved`
needs that the environment the gate leaves is compiled from the sources: `lake
build` may serve a stale part, and then the row is about something else. Where
the repository claims the unconditional form, the violated runs show why it is
needed.

### 3.1 Bounds, and why they are enough

* `vv_pipeline`: a layer module and a scratch module, three contents (one as long
  as the first but with its marker twice, one longer), a registry that parses and
  one that does not, two toolchains, an artifact, two edits, one generator run.
  Two edits are what it takes to change an input after it was read and change
  it back; one generator is enough to overlap with every recipe.
* `ledger`: two lines, three names of which one is never listed and all share a
  leaf, up to two bindings of eight forms (sound, amended, weaker, not closed,
  not filed, not quoted, unlisted). A repeated line, two demotions of one name
  and two bindings of one name all occur.
* `probe`: two commands over three tools and three paths, one kill, any number of
  failed writes and removals. Two commands suffice for every overlap on one path;
  the third tool is there so that different paths do not interfere.
* `independence`: two entries that share their relation, a lemma whose name
  contains the name of the second theorem in the middle, bodies of up to two
  names. Sharing makes the first mention of a label differ from its own block; the
  lemma makes a block begin inside another name.
* `lean_strip`: all 335,923 sources of up to seven characters over six characters.
  Seven is the least at which a character can follow a comment that closed inside
  another, which is where nesting shows; a mark cut short by the end and an
  escape inside a string are shorter.
* `core`: two kinds with an item each, three places, two names of which one
  occurs in the other, two edits. Three places allow a duplicate beside a
  complete map.
* `mutation_suite`: one falsifier of each kind (like M2, M7, M1 and M14), two
  builds, one kill, any number of failed writes and removals.

* `authority`: three paths, three lines, a source of up to four lines and
  fragments of up to two, Lean files of up to four lines over eighteen (a
  declaration also as `instance`, `private` and with a name that is not ASCII, a
  namespace in guillemets, and block comments among them), two Lean files, two
  edits. Two edits are a change and its taking back between two reads, or a
  change in two files; a fragment of two lines is the least that can be there in
  order without being there in one piece; four lines hold two namespaces, a
  declaration and an `end`.
* `gate`: the release theorem and one lemma, five registries (one claims without a
  declaration and has an orphan, one repeats an id, one is empty), four modules of
  which one is a way round the firewall, files of up to five lines for `xtask
  schema`, two edits. Two edits suffice to change something a row has read and to
  change it back or commit it before git is asked; the build may serve any part
  stale. Five lines hold a block comment around a theorem and its marker.
  `gate_release_closure` needs neither edits nor schema.

`MaxEdits`, `MaxGenerates`, `MaxCrashes`, `MaxBuilds`, `MaxKills` bound the
environment; `MaxBindings`, `MaxLength`, `MaxSource`, `MaxFragment`, `MaxLeanLines` and
`MaxSchemaLines` bound inputs. None of them bounds
anything the code does. `core` and `probe` use symmetry of places and of
commands, and check no liveness. Deadlock checking is off where the system
stops by itself: a ledger run, an audit, a scan and a suite all end.

### 3.2 Fairness

Only `LeanStrip` has a liveness property, `Terminates`, under `WF_vars(Next)`:
`strip` is a sequential loop without blocking calls, so it takes its next step
while one is enabled. No other specification states fairness. A `lean` process
may hang, a developer need not act and `just vv` need not be run again, so
nothing is claimed to happen eventually there.

## 4. What is proved

TLAPS checks the following for every value of the constants that satisfies the
named assumptions (`...Assumption` in each module). The assumptions say what kind
of values the constants are; only `IndependenceAssumption` says more (section 2.4).
Bounds are constants too: a theorem about all texts up to `MaxSource` lines holds
for texts of every length.

| Theorem | Statement | Argument |
|---|---|---|
| `VvPipeline_proofs!TypeCorrect` | `Spec => []TypeOK` | The readings carry the kind of their command; `TypeInv` adds the shape of a reading. |
| `QuietSoundness` | `Spec => []QuietRunIsSound` | `QuietInv`: while the run is undisturbed, what the current check has read is what the tree would give now, and each recipe passed has its output current. Without the first half the second is not inductive. |
| `Refinement` | `Spec => RefinesStaleness` | `GenInv`: an undisturbed generator's reading is that of the tree now. Each step is then a step of `Staleness` or a stutter. |
| `OnePass` | `Spec => []OnePassSuffices` | Each generator makes its own output current and preserves those before it (`CurrentAfterWrite`, `OthersAfterWrite`), and current outputs are fixed points. |
| `Ledger_proofs!LedgerTypes`, `HeadlineAddsUp`, `CreditEarned`, `SignatureBacked` | `TypeOK`, `Accounting`, `CreditIsEarned`, `SignatureBacksLedger` | `LedgerInv` has for each stage what the rules so far have done: the missing, the credited and the demoted positions partition the list, so each demotion lowers the count by the names it pushes. `BackedInv` adds that the verdict of `signature` is about the bindings the report was made from; over an audited file bindings and names correspond one to one (`BindingsCountNames`), so counting either gives the same figure. |
| `Probe_proofs!ProbeTypes`, `ProbesAreRemoved`, `LoneVerdicts` | `TypeOK`, `NoLeftover`, `LoneVerdictIsTrue` | `EveryFileIsHeld`: a file that was not given up is the one a command holds a handle on, with its removal still ahead. `AloneMeansOwn`: a command that is alone finds its own file at its path, whatever was left there before. |
| `Ledger_proofs!AuditTypes`, `SeparatedJudged`, `EscapesNone` | `AuditSpec => []P` for `P` one of `AuditTypeOK`, `SeparatedOutputIsJudgedRight`, `NoDependentEscapes` | They are about `Independence`, where the ledger's second demotion comes from. `AuditInv`: the findings are those of the checks that are done, over the whole output. If nothing earlier contains the text of a label, its block begins at its own name (`AnswerBegins`) and holds all that Lean printed for it (`BlockMentions`), hence `NoneEscapes`; it ends there too if the next head is one the code looks for, hence `JudgedRight`. |
| `LeanStrip_proofs!StripTypes`, `Newlines` | `TypeOK`, `NewlinesSurviveUnlessEscaped` | Every branch writes as many characters as it consumes; a blanked character is a newline only if it was one. |
| `LeanStrip_proofs!CodeKept` | `KeepsTheCode` | `CodeInv` ties the position to the reference automaton: `Contexts(src)[i]` is the state of the loop, and if it has half a mark behind it the next character does not complete it (`InContext`), and every character written so far is the one the reference would leave (`Faithful`). `strip` takes a mark in one step where the automaton takes two, which is why a half mark has to be in the invariant. |
| `CoreCoverage_proofs!CoverageTypes`, `QuietPass`, `AbsentNamesReported`, `SettledFails` | `TypeOK`, `QuietPassIsSound`, `EveryAbsentNameIsReported`, `SettledFailsOnEnvironmentOnly` | `QuietInv`: while nobody edits, the kinds read so far are the tree's; from the judgement on the map is one-to-one, from the comparison on `matches` is about the bindings there are, from the probe on no claimed name is absent unless it is reported (`ProbeReports`). `SettledInv` keeps the generated tree certified until a file changes; on it only the probe can add a fault, and only for an absent name (`ProbeOnlyBlames`). |
| `MutationSuite_proofs!SuiteTypes`, `DiagnosedRows`, `UndisturbedPass`, `SuiteCleansUp` | `TypeOK`, `DiagnosedRowsAreEarned`, `UndisturbedPassIsEarned`, `NothingIsLeft` | `SuiteInv`: an undisturbed run has its environment, a falsifier past its control has had it accepted, and what is on disk and was not left by a kill or a failed call belongs to the current falsifier (`OnlyTheCurrent`). |
| `Gate_proofs!TypeCorrect`, `ReleaseIsProved`, `ClaimsAreAudited`, `CleanEnd` | `TypeOK`, `GreenReleaseIsProved`, `EveryProvedClaimIsAudited`, `CleanEndCoversEveryRow` | `GateInv`: nothing is green that was not read (`GreenWasRead`), and while nobody has done anything, or the tree is as clean as it was and no edit has been taken back or committed and nothing built by others, every green row still holds of the tree, the environment and what the gate keeps (`RowsStillHold`). The build keeps this because no row before it reads the environment (`HoldsWithoutEnvironment`), the two reads that are kept because no row before them uses what they bring. |
| `Gate_proofs!BindingsCompiled` | `BoundDefinitionsAreCompiled` | The property is about all files, so it is a lemma about the two readers of one: if names occur once, the compiled theorem of that name is the one the binding was read from, hence in no block comment (`NotCommentedOut`), and what the audit finds in its text is what it says (`TheoremStates`). |
| `Authority_proofs!TypeCorrect`, `LiteralsPin`, `AmendedSource` | `TypeOK`, `LiteralsPinTheTree`, `AmendedSourceIsPinned` | `AuthorityInv`: what an undisturbed command holds is what is on disk (`ReadingStands`), hence what a clean pass has seen is pinned by the literals or by the record (`PassesPin`). Two trees with the same listing are the same (`PinnedTreesAgree`), and no patch applies to an empty source (`EmptyIsRefused`), which is why its digest need not be compared. |
| `Authority_proofs!ReadersOfNamesAgree`, `MarkersStayOut` | `ReadersAgree`, `PinnedMarkersStayOut` | Above a declaration whose namespace lines both readers see alike they have the same namespaces open at every line (by induction over the lines), so what one attaches a marker to the other finds declared (`AttachedIsDeclared`). Without that premise the theorem is false: section 5 has the cases. `NamesStand` then says of an undisturbed pass that it has found the files that declare the name and no marker it knows in their lines. |
| `Authority_proofs!PatchAppliesOnce` | `AppliedPatchIsRefused` | A region with a fragment put in is a `Splice`. The inserted lines hold no anchor, so the region between the anchors is selected again in the result and is the old one with its change (`RegionOfResult`); the inserted text stands in it (`InsertedStands`), which is what the second search must not find (`NeverTwice`). |

Every invariant that a passing run checks is stated by one of these theorems, and
so are `RefinesStaleness`, a refinement, and `CleanEndCoversEveryRow`. The recursive
functions (`Contexts`, the open namespaces of a file) are reached by induction,
which the provers do not have as a rule with an operator parameter. It is used in
the form of a set: a set of natural numbers that has 0 and the successor of each of
its members is `Nat` (`NatSet`, from the fact that a set of numbers has a least
element), applied to the set of the positions at which the statement holds.

Only model-checked: `Terminates`, which is liveness. Not provable because they are
false are the properties of the three violated runs.

## 5. Disagreements between code and text

The violated runs above are listed under `findings` with the lines they quote.
Other disagreements and surprises were met by reading, and are in the models but
have no run:

* `manifest.rs:127` compares the inputs and leaves the recorded identity of the
  outputs alone, so a manifest that is called current can be wrong about them.
* `independence.rs:263` looks for the text of a label in all that Lean has
  printed. An error message about an unknown label contains it, so the audit can
  pass without an answer although line 206 says that it "cannot pass for want of
  an answer"; and a longer name that contains the label is taken for it, so its
  block may begin too early and end before the label was printed.
* `lean.rs:264` says "Delete the probe whatever happened", but a write that fails
  returns at line 257 before the deletion, and line 266 throws the result of the
  deletion away. `NoLeftover` states what is true.
* `mutation.rs:1398` says of a scratch directory that it is "removed on drop";
  line 1427 throws the result of the removal away, and the probes of M14 and M16
  are left in the root by a failed write. `NothingIsLeft` states what is true.
* `core.rs:915` blames every declaration whose name occurs in a line about
  another.
* `mutation.rs:420` takes any failed elaboration for the rejection of M7, one that
  fails because a build is going on included.
* `gate.rs:492` does not look at the exit status of `git status`; a git that
  fails without a word counts as a clean worktree.
* `gate.rs:403` judges the schema bindings from the lines alone, so its row is
  green for bindings inside a block comment; `schema.rs:224` counts a mention of
  the definition in a comment of the block as a mention.
* `amendment.rs:268` does not compare the digest of an empty source, and
  `amendment.rs:452` accepts removed lines that are there in order though not
  together; the anchors catch the first (`EmptyIsRefused`).
* `amendment.rs` and `core.rs` read Lean names differently. `core.rs:554` attaches a
  marker above a commented-out declaration, an `instance` or a name that is not
  ASCII to a name that `amendment.rs:594` does not find, or finds cut short;
  `amendment.rs:631` knows `private def`, `lemma` and `opaque`, which are nothing to
  `core.rs`; and `end B` after `namespace A.B` closes it for the first
  (`amendment.rs:612`) only. A marker on the amended declaration could go unseen
  for each of these reasons, so `ReadersAgree` and `PinnedMarkersStayOut` are about
  declarations that both see alike.
* `BLOBS` is not compared with `SHA256SUMS`, and lists one file less.
* `lean.rs:66` loses the newline of a backslash at the end of a line in a string,
  though `lean.rs:20` says "every newline survives".
  `NewlinesSurviveUnlessEscaped` states what is true.
* `lean.rs:264` says a leftover probe "would be picked up by the next
  `just root-check`"; `root.rs` walks `WasmGemmGnaf/` only.
* `core.rs:784` says incomplete coverage is "FAILED by `--check`"; `run` fails
  for it at line 958, with or without `--check`.
* `mutation.rs:1405` says nothing is "ever written into the tree under
  verification"; M14 and M16 write probes in its root.
* `required.rs:293` counts bindings where `required.rs:52` speaks of names.
  `SignatureBacksLedger` shows that the two agree once `signature` passes.

## 6. What is not modelled

* SpecTec and marker extraction in `core.rs`: data of `CoreCoverage`; the scoping of
  markers is in `LeanNames` but not composed with it.
* JSON (`json.rs`) and the hashes: a document that parses is its value and one
  that does not is an error; a digest is what it is the digest of.
* The lexer of the Lean literals that `vendor` and `amendment` read, and the
  text of the register rows, which are there, not there or unreadable: values of
  the model. Amendments of several patches.
* What each falsifier of the mutation suite plants: its verdict on the fault is a
  constant of the run.
* The table of `claims list`, `CONFORMANCE.md` as text, rendering and messages.
* Two writers of one file at the same time, apart from probes: a read that meets
  half a write is covered only as far as the properties speak of undisturbed runs.
* The transitive closure of the firewall: the rule is about direct imports, and
  `MCGate` has a graph that goes round it.
* The Lean development: its definitions are checked by Lean. CI, and recipes that
  only call one command. Vendored specification text and pins.

## 7. Plan

Ordered by how much rests on the part. Done: the modules of section 2.

1. `SpecTecInventory`: the pending line of `opcode_productions`, in place of
   `vendored` in `CoreCoverage`, and `LeanNames!Claims` in place of `marks`.
2. The parser of the Lean literals, with a malformed literal that still parses.
3. Lean state machines: `Atlas/Update`, `Delta`, `Rebuild`, `Seal`, `Lifecycle`
   (incremental maintenance against a rebuild, a refinement worth proving), then
   the `Wasm` subset machine and `Cost`.
