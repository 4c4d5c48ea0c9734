----------------------------------- MODULE Gate -----------------------------------
(****************************************************************************)
(* `xtask gate`: one pass over the repository and the compiled environment,    *)
(* row by row, each row judged from what it reads when its turn comes.  The    *)
(* claim registry is read early and used late, the environment is asked three  *)
(* times after `lake build`, and `git status` closes the run.  Developers edit, *)
(* commit, check out and build while it goes on.                             *)
(****************************************************************************)
EXTENDS SchemaBindings, SequencesExt

CONSTANTS
    Decls,        \* Lean declarations
    Required,     \* those SPEC.md section 15 lists
    Release,      \* the release theorem
    AsksOf,       \* the declarations each presence row asks for
    Registries,   \* contents of model/claims.json that parse
    ModuleNames,  \* modules, as sequences of name segments
    Trees0,       \* committed trees
    Editable,     \* files and directories that developers change
    SchemaEdits,  \* schema files they may write
    ImportEdits,  \* import graphs they may write
    MaxEdits      \* bound on what developers do

PresenceRows == {"schemaNames", "semantics", "coverage", "bounds", "release"}

(* Rows that are decided by reading one part of the tree, whatever it holds.    *)
FileRows == {"authority", "manifest", "toolchain", "vendored", "literals", "amendments",
             "boundary", "deviations", "artifact", "root"}

(* The parts of the tree that are files and directories, and how reading one    *)
(* may end; that the artifact does not exist is not an error, and what the      *)
(* sources and Schema.lean hold is kept apart.                               *)
FileParts == FileRows \cup {"signatures", "schema", "sources"}
Readings(f) ==
    IF f = "artifact" THEN {"good", "bad"}
    ELSE IF f \in {"schema", "sources"} THEN {"good", "unreadable"}
    ELSE {"good", "bad", "unreadable"}

Unparsable == <<"unparsable">>

(* What the source of a declaration, or its compiled closure, is like.          *)
Conditions == {"absent", "clean", "tainted"}

Trees ==
    [files : [FileParts -> {"good", "bad", "unreadable"}],
     claims : Registries \cup {Unparsable},
     src : [Decls -> Conditions],
     loads : BOOLEAN,                          \* the modules can be imported together
     bound : [Decls -> {"none", "other", "exact"}],  \* by RequiredSignatures.lean
     imports : [ModuleNames -> SUBSET ModuleNames],
     schema : Seq(SchemaLines)]

ASSUME GateAssumption ==
    /\ Release \in Required /\ Required \subseteq Decls
    /\ AsksOf \in [PresenceRows -> SUBSET Decls] /\ AsksOf["release"] = {Release}
    /\ "none" \notin Decls
    /\ Unparsable \notin Registries
    /\ \A reg \in Registries : \A i \in DOMAIN reg : reg[i].decl \in Decls \cup {"none"}
    /\ Trees0 \subseteq Trees
    /\ Editable \subseteq FileParts
    /\ SchemaEdits \subseteq Seq(SchemaLines)
    /\ ImportEdits \subseteq [ModuleNames -> SUBSET ModuleNames]
    /\ MaxEdits \in Nat

VARIABLES
    tree,       \* the working tree
    head,       \* the commit that is checked out
    env,        \* what is compiled under .lake/build
    edits,
    at,         \* steps of the gate done; 0 before it starts
    green,      \* rows it has shown as PASS
    claims,     \* the registry it has read
    credited,   \* the declarations its inventory has credited
    exit,
    answered,   \* `git status` succeeded
    quiet,      \* no developer has done anything since the gate began
    cleaned,    \* a dirty tree has become clean since then
    rebuilt     \* someone else has built since then

gate    == <<at, green, claims, credited, exit, answered>>
history == <<quiet, cleaned, rebuilt>>
vars    == <<tree, head, env, edits, gate, history>>

Built(t) == [has |-> t.src, loads |-> t.loads]

--------------------------------------------------------------------------------
(* The claim registry. *)

Ids(reg) == {reg[i].id : i \in DOMAIN reg}
IdsUnique(reg) == \A i, j \in DOMAIN reg : reg[i].id = reg[j].id => i = j
NoOrphans(reg) == \A i \in DOMAIN reg : reg[i].needs \subseteq Ids(reg)
Formal(reg) == {i \in DOMAIN reg : reg[i].formal}

(* registry_violations finds nothing.                                        *)
RegistryClean(reg) ==
    /\ reg # <<>> /\ IdsUnique(reg) /\ NoOrphans(reg)
    /\ \A i \in Formal(reg) : reg[i].decl # "none"

(* A formalProof row without a leanDeclaration is passed over.                 *)
Proved(reg) == {reg[i].decl : i \in Formal(reg)} \ {"none"}

(* The dependency firewall: a protected module imports nothing forbidden.  It   *)
(* is not asked what it reaches.                                             *)
ProtectedDirs == {<<"Foundation">>, <<"Wasm">>, <<"Gemm">>, <<"Cost">>}
ProtectedFiles == {<<"Universal", "Competitor">>, <<"Universal", "Correct">>,
                   <<"Universal", "Feasible">>}
Forbidden == {<<"GNAF">>, <<"Atlas">>, <<"Artifact">>, <<"Universal", "LowerBound">>,
              <<"Universal", "Argmin">>, <<"Theorems">>}

IsProtected(m) == m \in ProtectedFiles \/ \E d \in ProtectedDirs : IsStrictPrefix(d, m)
IsForbidden(m) == \E f \in Forbidden : IsPrefix(f, m)

FirewallClean(imports) ==
    \A m \in ModuleNames : IsProtected(m) => \A n \in imports[m] : ~IsForbidden(n)

--------------------------------------------------------------------------------
(* What lean says of the environment (external): nothing, if it does not load.  *)
Present(e) == IF e.loads THEN {d \in Decls : e.has[d] # "absent"} ELSE {}

(* Fault: the exit status of lean is not looked at.                           *)
ClosureCleanIgnoringExit(e, asked) == \A d \in asked : e.loads => e.has[d] # "tainted"

ClosureClean(e, asked) == e.loads /\ \A d \in asked : e.has[d] = "clean"

(* The steps of the gate in the order in which it reads, in five stretches.      *)
Identities == <<"authority", "manifest", "toolchain", "vendored", "literals", "amendments",
                "registry", "boundary", "firewall">>
Compiling == <<"build", "elaborates">>
Auditing == <<"scan", "axioms", "deviations", "inventory", "signatures">>
Asking == <<"presence">>
Closing == <<"schema", "artifact", "mutation", "root">>

(* Faults: a step that comes too early.                                       *)
StepsGitFirst == <<"git">> \o Identities \o Compiling \o Auditing \o Asking \o Closing
StepsAskingFirst == Identities \o Asking \o Compiling \o Auditing \o Closing \o <<"git">>

Steps == Identities \o Compiling \o Auditing \o Asking \o Closing \o <<"git">>

(* The rows a step decides.  Four more are written down as failed.             *)
RowsOf(step) ==
    IF step = "registry" THEN {"nonempty", "unique", "orphans"}
    ELSE IF step = "presence" THEN PresenceRows
    ELSE {step}

(* Steps that run another program, and those whose verdict is that program's.   *)
SpawningSteps == {"build", "elaborates", "axioms", "inventory", "presence", "mutation", "git"}
ExternalSteps == {"build", "mutation", "git"}

ClosedRows == {"claimSchema", "artifactTheorems", "seal", "emissions"}
AllRows == (UNION {RowsOf(Steps[i]) : i \in DOMAIN Steps}) \cup ClosedRows

CreditedIn(t, e) == {d \in Required \cap Present(e) : t.bound[d] = "exact"}

(* What a row requires of the tree and the environment, given the registry and  *)
(* the declarations that the gate holds.                                      *)
Holds(row, t, e, reg, cred) ==
    /\ row \in FileRows     => t.files[row] = "good"
    /\ row = "nonempty"     => reg # <<>>
    /\ row = "unique"       => IdsUnique(reg)
    /\ row = "orphans"      => NoOrphans(reg)
    /\ row = "firewall"     => FirewallClean(t.imports)
    /\ row = "elaborates"   => e.loads
    /\ row = "scan"         => \A d \in Decls : t.src[d] # "tainted"
    /\ row = "axioms"       => ClosureClean(e, Proved(reg))
    /\ row = "inventory"    => cred = Required
    /\ row = "signatures"   => /\ t.files["signatures"] = "good"
                               /\ \A d \in cred : t.bound[d] # "none"
    /\ row \in PresenceRows => AsksOf[row] \subseteq Present(e)
    /\ row = "schema"       => AuditClean(t.schema)

HoldsNow(row) == Holds(row, tree, env, tree.claims, CreditedIn(tree, env))

(* The files a step reads.                                                   *)
PartsOf(step) ==
    IF step \in {"firewall", "scan"} THEN {"sources"}
    ELSE IF step = "inventory" THEN {"signatures"}
    ELSE IF step = "signatures" THEN {"signatures", "deviations"}
    ELSE {step} \cap FileParts

(* What cannot be read, which ends the gate.                                  *)
Unreadable(step) ==
    \/ step = "registry" /\ tree.claims = Unparsable
    \/ \E f \in PartsOf(step) : tree.files[f] = "unreadable"

Init ==
    /\ tree \in Trees0
    /\ head = tree
    /\ \E t \in Trees0 : env = Built(t)
    /\ edits = 0
    /\ at = 0
    /\ green = {}
    /\ claims = <<>>
    /\ credited = {}
    /\ exit = "none"
    /\ answered = FALSE
    /\ quiet = TRUE
    /\ cleaned = FALSE
    /\ rebuilt = FALSE

--------------------------------------------------------------------------------
(* The gate. *)

(* Fault: what the last run said is not forgotten.                            *)
StartAfterExit ==
    /\ at = 0
    /\ at' = 1
    /\ green' = {} /\ claims' = <<>> /\ credited' = {}
    /\ answered' = FALSE
    /\ quiet' = TRUE /\ cleaned' = FALSE /\ rebuilt' = FALSE
    /\ UNCHANGED <<tree, head, env, edits, exit>>

Start ==
    /\ at = 0
    /\ at' = 1
    /\ green' = {} /\ claims' = <<>> /\ credited' = {}
    /\ exit' = "none"
    /\ answered' = FALSE
    /\ quiet' = TRUE /\ cleaned' = FALSE /\ rebuilt' = FALSE
    /\ UNCHANGED <<tree, head, env, edits>>

AtStep(S) == at # 0 /\ Steps[at] \in S

(* The rows shown as PASS; after the last step the gate ends.                  *)
Shows(passing) ==
    /\ green' = green \cup passing
    /\ IF at = Len(Steps)
       THEN /\ at' = 0
            /\ exit' = IF green' = AllRows THEN "pass" ELSE "fail"
       ELSE at' = at + 1 /\ UNCHANGED exit

Stops ==
    /\ at' = 0
    /\ exit' = "error"
    /\ UNCHANGED <<tree, head, env, edits, green, claims, credited, answered, history>>

ReadingSteps == {Steps[i] : i \in DOMAIN Steps} \ (ExternalSteps \cup {"registry", "inventory"})

Judge ==
    /\ AtStep(ReadingSteps)
    /\ ~Unreadable(Steps[at])
    /\ Shows({r \in RowsOf(Steps[at]) : Holds(r, tree, env, claims, credited)})
    /\ UNCHANGED <<tree, head, env, edits, claims, credited, answered, history>>

ReadRegistry ==
    /\ AtStep({"registry"})
    /\ ~Unreadable("registry")
    /\ claims' = tree.claims
    /\ Shows({r \in RowsOf("registry") : Holds(r, tree, env, tree.claims, credited)})
    /\ UNCHANGED <<tree, head, env, edits, credited, answered, history>>

TakeInventory ==
    /\ AtStep({"inventory"})
    /\ ~Unreadable("inventory")
    /\ credited' = CreditedIn(tree, env)
    /\ Shows({r \in {"inventory"} : HoldsNow(r)})
    /\ UNCHANGED <<tree, head, env, edits, claims, answered, history>>

(* `lake build` (external) compiles some of what has changed and may serve the  *)
(* rest stale; what it reports follows from none of it.                       *)
LakeBuild ==
    /\ AtStep({"build"})
    /\ \E stale \in SUBSET Decls : \E loads \in {tree.loads, env.loads} :
           env' = [has |-> [d \in Decls |-> IF d \in stale THEN env.has[d] ELSE tree.src[d]],
                   loads |-> loads]
    /\ \E passing \in SUBSET {"build"} : Shows(passing)
    /\ UNCHANGED <<tree, head, edits, claims, credited, answered, history>>

(* The mutation suite, in a process of its own.                               *)
RunMutation ==
    /\ AtStep({"mutation"})
    /\ \E passing \in SUBSET {"mutation"} : Shows(passing)
    /\ UNCHANGED <<tree, head, env, edits, claims, credited, answered, history>>

(* A git that fails prints nothing on stdout, and nothing is clean.             *)
AskGit ==
    /\ AtStep({"git"})
    /\ answered' \in BOOLEAN
    /\ Shows({r \in {"git"} : answered' => tree = head})
    /\ UNCHANGED <<tree, head, env, edits, claims, credited, history>>

(* A file cannot be read, or a program cannot be run.                         *)
Break ==
    /\ \/ at # 0 /\ Unreadable(Steps[at])
       \/ AtStep(SpawningSteps)
    /\ Stops

GateStep == Start \/ Judge \/ ReadRegistry \/ TakeInventory \/ LakeBuild
                \/ RunMutation \/ AskGit \/ Break

--------------------------------------------------------------------------------
(* Developers. *)

Disturb ==
    /\ edits < MaxEdits
    /\ edits' = edits + 1
    /\ quiet' = FALSE
    /\ UNCHANGED gate

Changes(t, h) ==
    /\ Disturb
    /\ tree' = t /\ head' = h
    /\ cleaned' = (cleaned \/ (tree # head /\ t = h))
    /\ UNCHANGED <<env, rebuilt>>

EditFile ==
    \E f \in Editable : \E c \in Readings(f) :
        Changes([tree EXCEPT !.files[f] = c], head)

EditRegistry ==
    \E reg \in Registries \cup {Unparsable} : Changes([tree EXCEPT !.claims = reg], head)

EditSource ==
    \/ \E d \in Decls : \E c \in Conditions : Changes([tree EXCEPT !.src[d] = c], head)
    \/ Changes([tree EXCEPT !.loads = ~@], head)
    \/ \E imports \in ImportEdits : Changes([tree EXCEPT !.imports = imports], head)

EditConformance ==
    \/ \E d \in Decls : \E b \in {"none", "other", "exact"} :
           Changes([tree EXCEPT !.bound[d] = b], head)
    \/ \E file \in SchemaEdits : Changes([tree EXCEPT !.schema = file], head)

Commit == tree # head /\ Changes(tree, tree)

Restore == tree # head /\ Changes(head, head)

(* A build from another terminal.                                            *)
Rebuild ==
    /\ Disturb
    /\ env' = Built(tree)
    /\ rebuilt' = TRUE
    /\ UNCHANGED <<tree, head, cleaned>>

Developer == EditFile \/ EditRegistry \/ EditSource \/ EditConformance
                 \/ Commit \/ Restore \/ Rebuild

Next == GateStep \/ Developer

Spec == Init /\ [][Next]_vars

--------------------------------------------------------------------------------
(* The types, and that a gate that runs has not ended (gate.rs:80).            *)
TypeOK ==
    /\ tree \in Trees /\ head \in Trees
    /\ env.has \in [Decls -> Conditions] /\ env.loads \in BOOLEAN
    /\ at \in 0 .. Len(Steps)
    /\ green \subseteq AllRows \ ClosedRows
    /\ claims \in Registries \cup {<<>>}
    /\ credited \subseteq Required
    /\ exit \in {"none", "fail", "error"}
    /\ at # 0 => exit = "none"
    /\ edits \in 0 .. MaxEdits

(* If nobody disturbs the gate and the environment it leaves is compiled from   *)
(* the sources, a green source scan and a green row 9 together say that the    *)
(* release theorem is in the sources without a placeholder: the environment is *)
(* asked after it was built (gate.rs:231, 369, 454).                          *)
GreenReleaseIsProved ==
    quiet /\ env = Built(tree) /\ {"scan", "release"} \subseteq green =>
        tree.src[Release] = "clean"

(* What a registry that `claims list` accepts calls proved is in the           *)
(* environment with an accepted closure once the axiom row of an undisturbed   *)
(* gate is green, although the gate itself passes over a claim that names no   *)
(* declaration and had read the registry before the build (gate.rs:258, 267).  *)
EveryProvedClaimIsAudited ==
    quiet /\ "axioms" \in green /\ RegistryClean(claims) =>
        \A i \in Formal(claims) :
            env.loads /\ claims[i].decl # "none" /\ env.has[claims[i].decl] = "clean"

(* The last row catches every edit that stays: a gate that ends on a clean      *)
(* worktree would show each of its green rows again on the tree and the        *)
(* environment it leaves, though it read them at different times and before    *)
(* and after its own build (gate.rs:492), unless someone built in between or a *)
(* dirty tree became clean: an edit that is taken back, by hand or by git, or   *)
(* committed, is one that this row does not see.                              *)
Covered ==
    /\ exit # "error" /\ answered /\ "git" \in green /\ ~cleaned /\ ~rebuilt

CleanEndCoversEveryRow ==
    [][at # 0 /\ at' = 0 /\ Covered' =>
           (\A r \in green \ ExternalSteps : HoldsNow(r))']_vars

(* What SPEC.md:3434 asks of row 9 and gate.rs:15 promises: the release theorem *)
(* rests on accepted axioms when all rows about it are green (gate.rs:454).     *)
ReleaseRestsOnAcceptedAxioms ==
    quiet /\ {"build", "elaborates", "scan", "axioms", "inventory", "signatures",
              "release"} \subseteq green =>
        env.has[Release] = "clean"

Fresh == at = 0 /\ edits = 0 /\ exit = "none" /\ env = Built(tree)

(* A Schema.lean on which `xtask schema` passes has for each critical           *)
(* definition a gap, or a theorem that Lean has compiled and whose own text    *)
(* states the definition up to a definitional proof, although the tool cannot   *)
(* tell a commented theorem from another (schema.rs:224, 312).                 *)
BoundDefinitionsAreCompiled ==
    Fresh => \A file \in SchemaFilesUpTo(MaxSchemaLines) :
        SchemaPasses(file) /\ TheoremNamesDiffer(file) /\ PlainStatements(file) =>
            \A d \in Critical : Of(Gaps(file), d) # {} \/ StatedAndProved(file, d)
================================================================================
