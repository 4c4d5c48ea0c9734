--------------------------------- MODULE Ledger ---------------------------------
(****************************************************************************)
(* `xtask claims required` followed by `xtask signature`: the ledger of the   *)
(* declarations SPEC section 15 lists.  Three rules are applied one after the *)
(* other to the same report: what the compiled environment says of each name, *)
(* which names the binding file binds exactly, and which reflection theorems  *)
(* fail their independence audit.  The list is kept with its positions, so a  *)
(* name may be listed twice, as nothing in the parser forbids.               *)
(****************************************************************************)
EXTENDS Integers, FiniteSets

CONSTANTS
    N,            \* lines of the SPEC 15 list
    Names,        \* what a line can name
    LeafOf,       \* LeafOf[n]: the last component, as Theorems/ re-exports it
    Witnesses,    \* names SPEC 4 requires to be executable witnesses
    Reflected,    \* names the independence table has an entry for
    Fenced,       \* names SPEC.md states in a fenced block
    Forms,        \* the bindings RequiredSignatures.lean can contain
    MaxBindings   \* bound on their number

(* A binding as the parser of signature.rs returns it, with the answer of each *)
(* rule of the audit: a declaration follows the marker; its proof is `@Name`;  *)
(* its statement mentions the name; its deviation is filed; SPEC is quoted.   *)
BindingForm == [name : Names, kind : {"exact", "amended", "weaker"},
                declared : BOOLEAN, closes : BOOLEAN, mentions : BOOLEAN,
                filed : BOOLEAN, quotes : BOOLEAN]

ASSUME LedgerAssumption ==
    /\ N \in Nat \ {0}
    /\ MaxBindings \in Nat
    /\ Witnesses \subseteq Names
    /\ Reflected \subseteq Names
    /\ Fenced \subseteq Names
    /\ Forms \subseteq BindingForm

Positions == 1 .. N
Leaves    == {LeafOf[n] : n \in Names}

(* What the flattened `#print axioms` output holds for one candidate name:    *)
(* nothing, a closure with or without Classical.choice, or text that is no    *)
(* closure at all.                                                           *)
Verdicts     == {"silent", "clean", "choice", "unparsed"}
Environments == [own : [Names -> Verdicts], reexport : [Leaves -> Verdicts]]
BindingFiles == UNION {[1 .. k -> Forms] : k \in 0 .. MaxBindings}

(* `missing`, `credited` and the rest name positions of the list.            *)
Reports == [discharged : 0 .. N, missing : SUBSET Positions,
            tainted : SUBSET Positions, credited : SUBSET Positions,
            unsigned : SUBSET Positions, circular : SUBSET Positions,
            inHouse : 0 .. MaxBindings]

VARIABLES
    pc,         \* the read the report is waiting for, or how it ended
    lines,      \* the list as read from SPEC.md
    env,        \* the compiled environment's answers
    bindings,   \* the bindings as parsed from the source
    rejected,   \* names that fail the independence audit
    report,     \* the Report, refined in place
    exit,       \* exit of `claims required`
    signature   \* verdict of `xtask signature` on the same inputs

vars == <<pc, lines, env, bindings, rejected, report, exit, signature>>

--------------------------------------------------------------------------------
(* The three rules. *)

NamesAt(S, l) == {l[p] : p \in S}

(* The declaration under its own name, else its Theorems/ re-export.          *)
Closure(n, e) == IF e.own[n] # "silent" THEN e.own[n] ELSE e.reexport[LeafOf[n]]

ChoiceTainted(n, e) == n \in Witnesses /\ Closure(n, e) = "choice"

(* Fault: every candidate that answers is counted.                           *)
ClassifyCountingCandidates(l, e) ==
    LET own    == {p \in Positions : e.own[l[p]] # "silent"}
        shared == {p \in Positions : e.reexport[LeafOf[l[p]]] # "silent"}
    IN  [discharged |-> Cardinality(own) + Cardinality(shared),
         missing |-> Positions \ (own \cup shared), tainted |-> {},
         credited |-> own \cup shared, unsigned |-> {}, circular |-> {}, inHouse |-> 0]

(* An answer that is no closure counts as an empty one (unwrap_or_default).   *)
Classify(l, e) ==
    LET absent   == {p \in Positions : Closure(l[p], e) = "silent"}
        tainted  == {p \in Positions : ChoiceTainted(l[p], e)}
        credited == Positions \ (absent \cup tainted)
    IN  [discharged |-> Cardinality(credited), missing |-> absent \cup tainted,
         tainted |-> tainted, credited |-> credited,
         unsigned |-> {}, circular |-> {}, inHouse |-> 0]

(* A run of saturating_sub(1), k times.                                      *)
Monus(n, k) == IF k <= n THEN n - k ELSE 0

(* A name is pushed onto `missing` once, at the first line that brings it.    *)
Pushed(S, r, l) ==
    {p \in S : /\ l[p] \notin NamesAt(r.missing, l)
               /\ \A q \in S : l[q] = l[p] => p <= q}

(* Fault: an amended proposition is taken for SPEC's.                        *)
ExactOrAmendedNames(b) == {b[i].name : i \in {j \in DOMAIN b : b[j].kind # "weaker"}}

ExactNames(b) == {b[i].name : i \in {j \in DOMAIN b : b[j].kind = "exact"}}

(* Every unsigned name lowers the count, whether or not it is pushed.         *)
ApplySignatures(r, l, exact) ==
    LET unsigned == {p \in r.credited : l[p] \notin exact}
    IN  [r EXCEPT !.missing    = @ \cup Pushed(unsigned, r, l),
                  !.discharged = Monus(@, Cardinality(unsigned)),
                  !.unsigned   = unsigned]

(* Fault: the count is lowered for every circular name, as the rule above does. *)
ApplyIndependenceToAll(r, l, rej) ==
    LET circular == {p \in r.credited : l[p] \in rej}
    IN  [r EXCEPT !.missing    = @ \cup Pushed(circular, r, l),
                  !.discharged = Monus(@, Cardinality(circular)),
                  !.circular   = circular]

(* Only the circular names that are pushed lower the count.                  *)
ApplyIndependence(r, l, rej) ==
    LET circular == {p \in r.credited : l[p] \in rej}
        demoted  == Pushed(circular, r, l)
    IN  [r EXCEPT !.missing    = @ \cup demoted,
                  !.discharged = Monus(@, Cardinality(demoted)),
                  !.circular   = circular]

(* The bindings whose name is not missing and that SPEC does not fence.       *)
InHouse(r, l, b) ==
    Cardinality({i \in DOMAIN b : /\ b[i].name \notin NamesAt(r.missing, l)
                                  /\ b[i].name \notin Fenced})

(* The audit of signature.rs, which `claims required` does not run.          *)
BindingSound(b, i, l) ==
    /\ b[i].name \in NamesAt(Positions, l)
    /\ b[i].declared
    /\ b[i].closes
    /\ b[i].mentions
    /\ b[i].kind = "amended" => b[i].filed
    /\ b[i].name \in Fenced => b[i].quotes

(* Fault: the rule "one declaration, one binding" is missing.                *)
AuditAllowingRepeats(b, l) == \A i \in DOMAIN b : BindingSound(b, i, l)

Audit(b, l) ==
    /\ \A i \in DOMAIN b : BindingSound(b, i, l)
    /\ \A i, j \in DOMAIN b : b[i].name = b[j].name => i = j

(* A name the environment credits must be bound, exactly or by disclosure.    *)
SignatureVerdict(l, e, b) ==
    IF /\ Audit(b, l)
       /\ \A p \in Classify(l, e).credited : \E i \in DOMAIN b : b[i].name = l[p]
    THEN "pass" ELSE "fail"

--------------------------------------------------------------------------------
NoReport == [discharged |-> 0, missing |-> {}, tainted |-> {}, credited |-> {},
             unsigned |-> {}, circular |-> {}, inHouse |-> 0]

Init ==
    /\ pc = "spec"
    /\ lines \in [Positions -> Names]
    /\ env = [own |-> [n \in Names |-> "silent"], reexport |-> [k \in Leaves |-> "silent"]]
    /\ bindings = [i \in 1 .. 0 |-> 0]
    /\ rejected = {}
    /\ report = NoReport
    /\ exit = "none"
    /\ signature = "none"

(* environment_report: the list is read, probed and classified.              *)
ProbeEnvironment ==
    /\ pc = "spec"
    /\ env' \in Environments
    /\ report' = Classify(lines, env')
    /\ pc' = "bindings"
    /\ UNCHANGED <<lines, bindings, rejected, exit, signature>>

ReadBindings ==
    /\ pc = "bindings"
    /\ bindings' \in BindingFiles
    /\ report' = ApplySignatures(report, lines, ExactNames(bindings'))
    /\ pc' = "independence"
    /\ UNCHANGED <<lines, env, rejected, exit, signature>>

AuditIndependence ==
    /\ pc = "independence"
    /\ rejected' \in SUBSET Reflected
    /\ report' = ApplyIndependence(report, lines, rejected')
    /\ pc' = "in_house"
    /\ UNCHANGED <<lines, env, bindings, exit, signature>>

CountInHouse ==
    /\ pc = "in_house"
    /\ report' = [report EXCEPT !.inHouse = InHouse(report, lines, bindings)]
    /\ pc' = "rendered"
    /\ UNCHANGED <<lines, env, bindings, rejected, exit, signature>>

(* A read that fails, a probe that cannot run or gives no answer.            *)
Abort ==
    /\ pc \in {"spec", "bindings", "independence", "in_house"}
    /\ pc' = "error"
    /\ exit' = "error"
    /\ UNCHANGED <<lines, env, bindings, rejected, report, signature>>

(* Only --check turns outstanding names into a failure.                      *)
Conclude(check) ==
    /\ pc = "rendered"
    /\ exit' = IF check /\ report.missing # {} THEN "fail" ELSE "pass"
    /\ pc' = "reported"
    /\ UNCHANGED <<lines, env, bindings, rejected, report, signature>>

(* `xtask signature` over inputs nobody has changed since.                   *)
RunSignature ==
    /\ pc = "reported"
    /\ signature = "none"
    /\ signature' \in {SignatureVerdict(lines, env, bindings), "error"}
    /\ UNCHANGED <<pc, lines, env, bindings, rejected, report, exit>>

Next ==
    \/ ProbeEnvironment \/ ReadBindings \/ AuditIndependence \/ CountInHouse
    \/ Abort
    \/ \E check \in BOOLEAN : Conclude(check)
    \/ RunSignature

Spec == Init /\ [][Next]_vars

--------------------------------------------------------------------------------
(* Properties. *)

Rendered == pc \in {"rendered", "reported"}

(* Every variable keeps its type; `discharged` never leaves 0..N, so no       *)
(* saturating subtraction ever hides an underflow.                           *)
TypeOK ==
    /\ pc \in {"spec", "bindings", "independence", "in_house",
               "rendered", "reported", "error"}
    /\ lines \in [Positions -> Names]
    /\ env \in Environments
    /\ rejected \subseteq Reflected
    /\ exit \in {"none", "pass", "fail", "error"}
    /\ signature \in {"none", "pass", "fail", "error"}
    /\ bindings \in BindingFiles
    /\ report \in Reports

(* The list names no declaration twice.                                      *)
Unrepeated == \A p, q \in Positions : lines[p] = lines[q] => p = q

(* The headline numbers add up after every rule: of N listed declarations,    *)
(* `discharged` plus the length of `missing` is N.  A name that fails two of  *)
(* the rules must lower the count once.  It needs a list without repeats.    *)
Accounting ==
    Unrepeated /\ pc \notin {"spec", "error"}
        => report.discharged + Cardinality(report.missing) = N

(* A name `required` does not list as missing is present in the compiled      *)
(* environment, is not a choice-tainted witness, has an exact binding, and is *)
(* not circular, whatever the order in which the three rules demoted names.  *)
CreditIsEarned ==
    Rendered =>
        \A p \in Positions : lines[p] \notin NamesAt(report.missing, lines) =>
            /\ Closure(lines[p], env) # "silent"
            /\ ~ChoiceTainted(lines[p], env)
            /\ \E i \in DOMAIN bindings :
                   bindings[i].name = lines[p] /\ bindings[i].kind = "exact"
            /\ lines[p] \notin rejected

(* When `signature` passes on the inputs `required` reported on, the two       *)
(* commands agree: every name counted discharged is closed definitionally by  *)
(* one exact binding, every unsigned one is disclosed by one binding that is  *)
(* not exact, and the in-house figure counts discharged names and no other.  *)
SignatureBacksLedger ==
    signature = "pass" =>
        /\ \A p \in Positions : lines[p] \notin NamesAt(report.missing, lines) =>
               \E i \in DOMAIN bindings :
                   /\ bindings[i].name = lines[p]
                   /\ bindings[i].kind = "exact" /\ bindings[i].closes
        /\ \A p \in report.unsigned :
               Cardinality({i \in DOMAIN bindings : bindings[i].name = lines[p]}) = 1
        /\ report.inHouse =
               Cardinality(NamesAt(Positions, lines)
                              \ (NamesAt(report.missing, lines) \cup Fenced))

================================================================================
