------------------------------ MODULE CoreCoverage ------------------------------
(****************************************************************************)
(* `xtask core`: how much of the pinned Core semantics the Lean tree covers.   *)
(* The obligations are extracted from the vendored SpecTec sources, the claims *)
(* are marker comments in the Lean tree, and the generated bindings module has *)
(* one alias for each.  A run reads the tree twice, kind by kind, and only the *)
(* second reading is put to the compiled environment; a developer may edit or  *)
(* rebuild between any two of its steps.                                     *)
(****************************************************************************)
EXTENDS Integers, FiniteSets

CONSTANTS
    LastKind,    \* the kinds of obligation are 1 .. LastKind, in source order
    Items,       \* what SpecTec sources can define and a marker can name
    KindOf,      \* KindOf[i]: the kind of item i
    Places,      \* lines of the Lean tree on which a marker can stand
    Names,       \* qualified declaration names
    NoDecl,      \* the line below a marker opens no declaration
    NoMark,      \* no marker at this place
    Within,      \* <<a, b>>: the text of name a occurs in the text of name b
    MaxEdits     \* bound on edits and rebuilds

Kinds  == 1 .. LastKind
Marks  == [item : Items, decl : Names \cup {NoDecl}]
Claims == [item : Items, decl : Names, at : Places]

ASSUME CoreCoverageAssumption ==
    /\ LastKind \in Nat \ {0}
    /\ KindOf \in [Items -> Kinds]
    /\ NoDecl \notin Names
    /\ NoMark \notin Marks
    /\ Within \subseteq Names \X Names
    /\ \A n \in Names : <<n, n>> \in Within
    /\ MaxEdits \in Nat

VARIABLES
    vendored,    \* items the vendored sources define
    marks,       \* what stands at each place
    bindings,    \* CoreAuthorityBindings.lean
    env,         \* the compiled environment
    edits,
    pc,          \* where the run is
    opts,        \* its options
    reading,     \* the kind it reads next
    report,      \* the Report, one Coverage per kind
    expected,    \* the text it expects of the bindings
    matches,     \* whether the bindings had it
    exit,        \* how the last run ended; "none" while one is running
    quiet,       \* nobody has changed anything since the run began
    settled      \* `--generate` passed undisturbed and no file has changed since

vars == <<vendored, marks, bindings, env, edits, pc, opts, reading, report,
          expected, matches, exit, quiet, settled>>
files == <<vendored, marks>>
run   == <<pc, opts, reading, report, expected, matches, exit>>

--------------------------------------------------------------------------------
(* The report. *)

Claim(p) == [item |-> marks[p].item, decl |-> marks[p].decl, at |-> p]

Coverage(k) ==
    LET carrying == {p \in Places : marks[p] # NoMark /\ KindOf[marks[p].item] = k}
    IN  [required     |-> {i \in vendored : KindOf[i] = k},
         claimed      |-> {Claim(p) : p \in {q \in carrying : marks[q].decl # NoDecl}},
         unattached   |-> {p \in carrying : marks[p].decl = NoDecl},
         unelaborated |-> {}]

NoCoverage == [required |-> {}, claimed |-> {}, unattached |-> {}, unelaborated |-> {}]

Missing(part) == part.required \ {c.item : c \in part.claimed}
Unknown(part) == {c.item : c \in part.claimed} \ part.required

IsOk(r) == \A k \in Kinds : /\ Unknown(r[k]) = {}
                            /\ r[k].unattached = {}
                            /\ r[k].unelaborated = {}
Complete(r) == \A k \in Kinds : Missing(r[k]) = {}

(* The rows of the generated map; each carries the place of its marker.        *)
Rows(r) == UNION {r[k].claimed : k \in Kinds}

(* Fault: only markers of one item are counted, not who shares a declaration.   *)
AmbiguousItems(r) == \E a, b \in Rows(r) : a # b /\ a.item = b.item

(* generated_bindings wants exactly one declaration for each item and no        *)
(* declaration for two.                                                      *)
Ambiguous(r) == \E a, b \in Rows(r) : a # b /\ (a.item = b.item \/ a.decl = b.decl)

(* Fault: the search for the blamed names stops at the first error.            *)
BlamedFirst(names, has) ==
    LET absent == names \ has
    IN  IF absent = {} THEN {}
        ELSE {n \in names : <<n, CHOOSE x \in absent : TRUE>> \in Within}

(* Each "unknown identifier" line is searched for every name as a substring.   *)
Blamed(names, has) == {n \in names : \E m \in names \ has : <<n, m>> \in Within}

--------------------------------------------------------------------------------
Absent == [exists |-> FALSE, rows |-> {}]
Holding(S) == [exists |-> TRUE, rows |-> S]

Reports      == [required : SUBSET Items, claimed : SUBSET Claims,
                 unattached : SUBSET Places, unelaborated : SUBSET Claims]
Environments == [loads : BOOLEAN, has : SUBSET Names]

(* `core` with none, one or several of --check, --source-only, --generate.     *)
Options == [check : BOOLEAN, sourceOnly : BOOLEAN, generate : BOOLEAN]

(* A committed tree: complete, and its bindings generated.                    *)
Init ==
    /\ vendored = Items
    /\ marks \in [Places -> Marks \cup {NoMark}]
    /\ LET r == [k \in Kinds |-> Coverage(k)]
       IN  /\ IsOk(r) /\ Complete(r) /\ ~Ambiguous(r)
           /\ bindings = Holding(Rows(r))
    /\ env \in Environments
    /\ edits = 0
    /\ pc = "done"
    /\ opts = [check |-> FALSE, sourceOnly |-> FALSE, generate |-> FALSE]
    /\ reading = 1
    /\ report = [k \in Kinds |-> NoCoverage]
    /\ expected = {}
    /\ matches = FALSE
    /\ exit = "pass"
    /\ quiet = FALSE
    /\ settled = FALSE

--------------------------------------------------------------------------------
(* The developer. *)

Disturb == edits < MaxEdits /\ edits' = edits + 1 /\ quiet' = FALSE

EditMark ==
    /\ Disturb
    /\ \E p \in Places, m \in Marks \cup {NoMark} :
           m # marks[p] /\ marks' = [marks EXCEPT ![p] = m]
    /\ settled' = FALSE
    /\ UNCHANGED <<vendored, bindings, env, run>>

ChangePin ==
    /\ Disturb
    /\ \E i \in Items : vendored' = IF i \in vendored THEN vendored \ {i}
                                                      ELSE vendored \cup {i}
    /\ settled' = FALSE
    /\ UNCHANGED <<marks, bindings, env, run>>

EditBindings ==
    /\ Disturb
    /\ bindings' \in {Absent, Holding({})}
    /\ settled' = FALSE
    /\ UNCHANGED <<files, env, run>>

(* `lake build` after edits to declarations: any environment may come of it.   *)
Build ==
    /\ Disturb
    /\ env' \in Environments
    /\ UNCHANGED <<files, bindings, run, settled>>

--------------------------------------------------------------------------------
(* The run. *)

Start(o) ==
    /\ pc = "done"
    /\ pc' = "first"
    /\ opts' = o
    /\ reading' = 1
    /\ report' = [k \in Kinds |-> NoCoverage]
    /\ expected' = {}
    /\ matches' = FALSE
    /\ exit' = "none"
    /\ quiet' = TRUE
    /\ UNCHANGED <<files, bindings, env, edits, settled>>

Stop(outcome) == pc' = "done" /\ exit' = outcome

(* Fault: the last kind is not noticed.                                      *)
ReadPartOn(from, to) ==
    /\ pc = from
    /\ reading' = reading + 1
    /\ report' = IF reading \in Kinds THEN [report EXCEPT ![reading] = Coverage(reading)]
                 ELSE report
    /\ pc' = IF reading = LastKind THEN to ELSE pc
    /\ UNCHANGED <<files, bindings, env, edits, opts, expected, matches, exit, quiet, settled>>

(* coverage for one kind; no obligation of the kind at all is an error.        *)
ReadPart(from, to) ==
    /\ pc = from
    /\ IF Coverage(reading).required = {}
       THEN Stop("error") /\ UNCHANGED <<reading, report>>
       ELSE /\ report' = [report EXCEPT ![reading] = Coverage(reading)]
            /\ reading' = IF reading = LastKind THEN 1 ELSE reading + 1
            /\ pc' = IF reading = LastKind THEN to ELSE from
            /\ UNCHANGED exit
    /\ UNCHANGED <<files, bindings, env, edits, opts, expected, matches, quiet, settled>>

FirstReport == ReadPart("first", "judge")

(* Gaps and faults of the first report end every run, --check or not.          *)
Judge ==
    /\ pc = "judge"
    /\ IF ~IsOk(report) \/ ~Complete(report)
       THEN Stop("fail") /\ UNCHANGED expected
       ELSE IF Ambiguous(report)
       THEN Stop("error") /\ UNCHANGED expected
       ELSE /\ expected' = Rows(report)
            /\ pc' = IF opts.generate THEN "write" ELSE "compare"
            /\ UNCHANGED exit
    /\ UNCHANGED <<files, bindings, env, edits, opts, reading, report, matches, quiet, settled>>

(* Fault: the rows are appended to those the file already has.                 *)
GenerateAppending ==
    /\ pc = "write"
    /\ bindings' = Holding(bindings.rows \cup expected)
    /\ settled' = quiet
    /\ Stop("pass")
    /\ UNCHANGED <<files, env, edits, opts, reading, report, expected, matches, quiet>>

Generate ==
    /\ pc = "write"
    /\ bindings' = Holding(expected)
    /\ settled' = quiet
    /\ Stop("pass")
    /\ UNCHANGED <<files, env, edits, opts, reading, report, expected, matches, quiet>>

Compare ==
    /\ pc = "compare"
    /\ IF ~bindings.exists
       THEN Stop("error") /\ UNCHANGED matches
       ELSE /\ matches' = (bindings.rows = expected)
            /\ pc' = IF opts.sourceOnly THEN "conclude" ELSE "second"
            /\ UNCHANGED exit
    /\ UNCHANGED <<files, bindings, env, edits, opts, reading, report, expected, quiet, settled>>

(* report_elaborated reads the vendored sources and the Lean tree again.       *)
SecondReport == ReadPart("second", "probe")

(* Every declaration of the second report is put to `lean` in one probe.       *)
Probe ==
    /\ pc = "probe"
    /\ LET names == {c.decl : c \in Rows(report)}
           bad   == Blamed(names, env.has)
       IN  IF names # {} /\ ~env.loads
           THEN Stop("error") /\ UNCHANGED report
           ELSE /\ report' = [k \in Kinds |->
                       [report[k] EXCEPT !.unelaborated =
                            {c \in report[k].claimed : c.decl \in bad}]]
                /\ pc' = "conclude"
                /\ UNCHANGED exit
    /\ UNCHANGED <<files, bindings, env, edits, opts, reading, expected, matches, quiet, settled>>

Conclude ==
    /\ pc = "conclude"
    /\ Stop(IF ~IsOk(report) \/ ~matches \/ (opts.check /\ ~Complete(report))
            THEN "fail" ELSE "pass")
    /\ UNCHANGED <<files, bindings, env, edits, opts, reading, report, expected,
                   matches, quiet, settled>>

(* A directory, a source or the bindings cannot be read or written.            *)
Abort ==
    /\ pc \in {"first", "write", "compare", "second", "probe"}
    /\ Stop("error")
    /\ UNCHANGED <<files, bindings, env, edits, opts, reading, report, expected,
                   matches, quiet, settled>>

Next ==
    \/ EditMark \/ ChangePin \/ EditBindings \/ Build
    \/ \E o \in Options : Start(o)
    \/ FirstReport \/ Judge \/ Generate \/ Compare
    \/ SecondReport \/ Probe \/ Conclude \/ Abort

Spec == Init /\ [][Next]_vars

--------------------------------------------------------------------------------
(* Properties. *)

(* Every variable keeps its type; the kind to be read next is a kind.          *)
TypeOK ==
    /\ vendored \subseteq Items
    /\ marks \in [Places -> Marks \cup {NoMark}]
    /\ bindings \in [exists : BOOLEAN, rows : SUBSET Claims]
    /\ env \in Environments
    /\ edits \in 0 .. MaxEdits
    /\ pc \in {"done", "first", "judge", "write", "compare", "second", "probe", "conclude"}
    /\ opts \in Options
    /\ reading \in Kinds
    /\ report \in [Kinds -> Reports]
    /\ expected \subseteq Claims
    /\ {matches, quiet, settled} \subseteq BOOLEAN
    /\ exit \in {"none", "pass", "fail", "error"}
    /\ pc = "done" <=> exit # "none"

(* What a run certifies of the tree: every item has exactly one marker, that   *)
(* marker stands above a declaration, no declaration discharges two items, no  *)
(* marker names what the sources do not define, and the bindings module is the *)
(* map of exactly these.                                                     *)
Marked(i) == {p \in Places : marks[p] # NoMark /\ marks[p].item = i}

OneToOne ==
    /\ \A i \in vendored : \E p \in Places : Marked(i) = {p}
    /\ \A p \in Places : marks[p] # NoMark =>
           /\ marks[p].item \in vendored
           /\ marks[p].decl \in Names
           /\ \A q \in Places \ {p} : marks[q] # NoMark => marks[q].decl # marks[p].decl

BindingsAreTheMap ==
    bindings = Holding({Claim(p) : p \in {q \in Places : marks[q] # NoMark}})

(* A run that passes with nobody editing certifies the map, whatever its       *)
(* options; unless it was told not to, it has found every marked declaration   *)
(* in the compiled environment.  The first and the second reading, the         *)
(* comparison in between and the exits all have to agree for it.              *)
QuietPassIsSound ==
    exit = "pass" /\ quiet =>
        /\ OneToOne
        /\ BindingsAreTheMap
        /\ opts.generate \/ opts.sourceOnly
              \/ \A p \in Places : marks[p] # NoMark => marks[p].decl \in env.has

(* Generating settles the tree: until a file changes, no later run can fail    *)
(* but for a declaration that the compiled environment does not have.          *)
SettledFailsOnEnvironmentOnly ==
    settled /\ quiet /\ exit = "fail" =>
        \E p \in Places : marks[p] # NoMark /\ marks[p].decl \notin env.has

(* The report of a probe that was answered leaves no absent declaration out.   *)
EveryAbsentNameIsReported ==
    pc = "conclude" /\ ~opts.sourceOnly /\ quiet =>
        \A c \in Rows(report) :
            c.decl \notin env.has => c \in report[KindOf[c.item]].unelaborated

================================================================================
