------------------------------ MODULE Independence ------------------------------
(****************************************************************************)
(* `xtask independence`: report_over asks Lean to `#print` the declarative    *)
(* relation and the reflection theorem of every entry, in one probe, then     *)
(* cuts the combined output into blocks and looks for forbidden executable    *)
(* names in each.  The output is a sequence of tokens: the word that opens a   *)
(* declaration, and the names the text mentions, in the order they are printed. *)
(* A block is found by the TEXT of its label, wherever that text occurs, so a   *)
(* longer name that contains a label counts; a forbidden name is looked for as  *)
(* a whole identifier.  Names differ from those of Ledger, which applies the    *)
(* findings: the proofs are about both.                                      *)
(****************************************************************************)
EXTENDS Integers, Sequences, SequencesExt

CONSTANTS
    EnvNames,     \* constants of the compiled environment
    Entries,      \* sequence of [required, declarative, forbidden]
    Bodies,       \* what a printed body can mention, in order
    Containing,   \* for each name, those whose text contains its text
    CutAt         \* what is left of the second name from the first one's text on

(* The words that Lean prints around names are not names and contain none; a    *)
(* name contains itself, and whole; an entry forbids neither of the two names  *)
(* that it prints.                                                           *)
ASSUME IndependenceAssumption ==
    /\ Entries \in Seq([required : EnvNames, declarative : EnvNames, forbidden : SUBSET EnvNames])
    /\ Bodies \subseteq Seq(EnvNames)
    /\ EnvNames \cap {"head", "other head", "error"} = {}
    /\ Containing \in [EnvNames -> SUBSET EnvNames]
    /\ CutAt \in [EnvNames -> [EnvNames -> EnvNames]]
    /\ \A n \in EnvNames : n \in Containing[n] /\ CutAt[n][n] = n
    /\ \A e \in DOMAIN Entries :
           {Entries[e].required, Entries[e].declarative} \cap Entries[e].forbidden = {}

Kinds  == {"declarative", "required"}
Labels == UNION {{Entries[e].declarative, Entries[e].required} : e \in DOMAIN Entries}

(* The checks in the order of the two nested loops, entry by entry.           *)
Checks == [k \in 1 .. 2 * Len(Entries) |->
              LET entry == Entries[(k + 1) \div 2]
              IN  [entry |-> entry,
                   label |-> IF k % 2 = 1 THEN entry.declarative ELSE entry.required]]

VARIABLES
    known,        \* labels the compiled environment has
    keyword,      \* those printed with `theorem`, `def` or `inductive` first
    body,         \* what the printed definition or proof term mentions
    output,       \* what lean printed
    phase,        \* "probe", "scan", "done" or "error"
    next,         \* the check that is due
    findings      \* required names found dependent

auditVars == <<known, keyword, body, output, phase, next, findings>>
environment == <<known, keyword, body>>

(* Lean (external): a known label is printed after its keyword; any other head *)
(* is not one print_block looks for; an unknown one is named in the error.    *)
Printed(l) ==
    IF l \notin known THEN <<"error", l>>
    ELSE <<IF l \in keyword THEN "head" ELSE "other head", l>> \o body[l]

Output == FlattenSeq([k \in DOMAIN Checks |-> Printed(Checks[k].label)])

Mentions(text, names) == \E i \in DOMAIN text : text[i] \in names

(* Fault: the label is searched from the end of the output.                   *)
LastStart(text, l) == CHOOSE i \in DOMAIN text :
                          /\ text[i] \in Containing[l]
                          /\ \A j \in i + 1 .. Len(text) : text[j] \notin Containing[l]

(* The first place where the text of the label occurs.                        *)
Start(text, l) == CHOOSE i \in DOMAIN text :
                      text[i] \in Containing[l] /\ \A j \in 1 .. i - 1 : text[j] \notin Containing[l]

(* Fault: a block is not closed by the head of the next one.                  *)
UnboundedBlock(text, l) ==
    LET start == Start(text, l)
    IN  <<CutAt[l][text[start]]>> \o SubSeq(text, start + 1, Len(text))

(* print_block: from the first occurrence of the label, inside a name if that   *)
(* comes first, to the next head.                                            *)
Block(text, l) ==
    LET start == Start(text, l)
        heads == {j \in start + 1 .. Len(text) : text[j] = "head"}
        last  == IF heads = {} THEN Len(text)
                 ELSE (CHOOSE j \in heads : \A h \in heads : j <= h) - 1
    IN  <<CutAt[l][text[start]]>> \o SubSeq(text, start + 1, last)

AuditInit ==
    /\ known \in SUBSET Labels
    /\ keyword \in SUBSET Labels
    /\ body \in [Labels -> Bodies]
    /\ output = <<>>
    /\ phase = "probe"
    /\ next = 1
    /\ findings = {}

(* The probe is elaborated; an import that fails prints no label at all.       *)
Elaborate(imported) ==
    /\ phase = "probe"
    /\ output' = IF imported THEN Output ELSE <<"error">>
    /\ phase' = "scan"
    /\ UNCHANGED <<environment, next, findings>>

ProbeFails ==
    /\ phase = "probe"
    /\ phase' = "error"
    /\ UNCHANGED <<environment, output, next, findings>>

(* Fault: the finding names the printed label and not the required theorem.    *)
ScanBlamingLabel ==
    /\ phase = "scan"
    /\ next <= Len(Checks)
    /\ LET c == Checks[next]
       IN  IF Mentions(output, Containing[c.label])
           THEN /\ findings' = IF Mentions(Block(output, c.label), c.entry.forbidden)
                               THEN findings \cup {c.label} ELSE findings
                /\ next' = next + 1
                /\ UNCHANGED phase
           ELSE phase' = "error" /\ UNCHANGED <<next, findings>>
    /\ UNCHANGED <<environment, output>>

(* One label: its text nowhere in the output is an error; a forbidden name in  *)
(* its block is a finding against the entry.                                 *)
Scan ==
    /\ phase = "scan"
    /\ next <= Len(Checks)
    /\ LET c == Checks[next]
       IN  IF Mentions(output, Containing[c.label])
           THEN /\ findings' = IF Mentions(Block(output, c.label), c.entry.forbidden)
                               THEN findings \cup {c.entry.required} ELSE findings
                /\ next' = next + 1
                /\ UNCHANGED phase
           ELSE phase' = "error" /\ UNCHANGED <<next, findings>>
    /\ UNCHANGED <<environment, output>>

ReportFindings ==
    /\ phase = "scan"
    /\ next > Len(Checks)
    /\ phase' = "done"
    /\ UNCHANGED <<environment, output, next, findings>>

AuditNext == (\E imported \in BOOLEAN : Elaborate(imported)) \/ ProbeFails \/ Scan \/ ReportFindings

AuditSpec == AuditInit /\ [][AuditNext]_auditVars

--------------------------------------------------------------------------------
(* Properties. *)

AuditTypeOK ==
    /\ known \subseteq Labels
    /\ keyword \subseteq Labels
    /\ body \in [Labels -> Bodies]
    /\ phase \in {"probe", "scan", "done", "error"}
    /\ next \in 1 .. Len(Checks) + 1
    /\ findings \subseteq {Entries[e].required : e \in DOMAIN Entries}

(* What is true of the compiled environment: the definition or the proof term  *)
(* itself mentions a forbidden name.                                         *)
Dependent(e) ==
    \E l \in {Entries[e].declarative, Entries[e].required} :
        l \in known /\ Mentions(body[l], Entries[e].forbidden)

(* Nothing printed before the block of a label contains the text of that label. *)
NamedInOrder ==
    \A i, k \in DOMAIN Checks :
        i < k /\ (\A j \in 1 .. k - 1 : Checks[j].label # Checks[k].label)
            => ~Mentions(Printed(Checks[i].label), Containing[Checks[k].label])

(* The entries rejected are those that depend on an executable name, neither   *)
(* more nor fewer, provided every label is known, every printed head is one    *)
(* of the three keywords, and nothing printed earlier contains the text of a   *)
(* later label (print_block, independence.rs:262, and `mentions`, :239).       *)
SeparatedOutputIsJudgedRight ==
    phase = "done" /\ known = Labels /\ keyword = Labels /\ NamedInOrder =>
        findings = {Entries[e].required : e \in {x \in DOMAIN Entries : Dependent(x)}}

(* No entry that depends on an executable name is let through, whatever else    *)
(* the environment lacks and however Lean opens a declaration: a head that is   *)
(* none of the three, or a label that is only named in an error, can blame an  *)
(* entry too many and not one too few (independence.rs:194, 269).              *)
NoDependentEscapes ==
    phase = "done" /\ NamedInOrder =>
        \A e \in DOMAIN Entries : Dependent(e) => Entries[e].required \in findings

================================================================================
