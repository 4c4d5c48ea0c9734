------------------------------ MODULE SchemaBindings ------------------------------
(****************************************************************************)
(* schema.rs: Conformance/Schema.lean accounts for every scope-critical        *)
(* definition of the authority, by a marker above a theorem that restates the  *)
(* definition and is proved by `rfl`, or by a marker that admits a gap.  The   *)
(* tool reads the file line by line and does not know which lines Lean skips.  *)
(* `xtask schema` asks the compiled environment for the theorems as well; the  *)
(* release gate judges the lines alone.                                      *)
(****************************************************************************)
EXTENDS Integers, Sequences, FiniteSets

CONSTANTS
    Definitions,      \* names a marker can carry
    Critical,         \* those the authority lists
    SchemaLines,      \* the lines the file can have
    MaxSchemaLines    \* bound on its length

(* `open` and `close` are the delimiters of a block comment.  A theorem or a    *)
(* line below it may end the statement: what follows its `:=` is a definitional *)
(* proof ("rfl") or another one.                                             *)
SchemaLineForms ==
    [is : {"binding", "gap", "comment", "blank", "open", "close", "theorem", "code"},
     name : STRING, mentions : SUBSET Definitions, proof : {"", "rfl", "other"}]

ASSUME SchemaAssumption ==
    /\ Critical \subseteq Definitions
    /\ Critical # {}                    \* definitions_from refuses an empty list
    /\ \A line \in SchemaLines :
           /\ line \in SchemaLineForms
           /\ line.is \in {"binding", "gap"} => line.name \in Definitions
    /\ MaxSchemaLines \in Nat

SchemaFilesUpTo(n) == UNION {[1 .. k -> SchemaLines] : k \in 0 .. n}

--------------------------------------------------------------------------------
Earliest(S) == CHOOSE i \in S : \A j \in S : i <= j
IsComment(line) == line.is \in {"binding", "gap", "comment"}

(* The lines of a block: from i to the next blank line or the end of the file.  *)
BlockEnd(file, i) ==
    LET blanks == {j \in i .. Len(file) : file[j].is = "blank"}
    IN  IF blanks = {} THEN Len(file) ELSE Earliest(blanks) - 1

(* The first line below a marker that is neither blank nor a comment; 0 if the  *)
(* file ends before it.                                                      *)
HeadBelow(file, i) ==
    LET below == {j \in i + 1 .. Len(file) : ~IsComment(file[j]) /\ file[j].is # "blank"}
    IN  IF below = {} THEN 0 ELSE Earliest(below)

(* The statement of the theorem on line i goes on to the first `:=`; the rest   *)
(* of the block is its proof, which is definitional if nothing follows `rfl`.  *)
Theorem(file, i) ==
    LET ends == {j \in i .. BlockEnd(file, i) : file[j].proof # ""}
        last == IF ends = {} THEN BlockEnd(file, i) ELSE Earliest(ends)
    IN  [theorem |-> file[i].name,
         mentions |-> UNION {file[j].mentions : j \in i .. last},
         definitional |-> /\ ends # {} /\ last = BlockEnd(file, i)
                          /\ file[last].proof = "rfl"]

NoTheorem == [theorem |-> "", mentions |-> {}, definitional |-> FALSE]

(* parse: a marker at the end of the file is passed over, one above anything    *)
(* but a theorem binds nothing.                                              *)
Bindings(file) ==
    {[definition |-> file[i].name, line |-> i,
      by |-> IF file[HeadBelow(file, i)].is = "theorem" THEN Theorem(file, HeadBelow(file, i))
             ELSE NoTheorem] :
        i \in {j \in DOMAIN file : file[j].is = "binding" /\ HeadBelow(file, j) # 0}}

Gaps(file) == {[definition |-> file[i].name, line |-> i] :
                   i \in {j \in DOMAIN file : file[j].is = "gap"}}

Of(accounts, d) == {a \in accounts : a.definition = d}

(* Exactly one binding or exactly one gap, and the binding states and proves.   *)
Accounted(file, d) ==
    /\ Cardinality(Of(Bindings(file), d)) + Cardinality(Of(Gaps(file), d)) = 1
    /\ \A b \in Of(Bindings(file), d) : d \in b.by.mentions /\ b.by.definitional

(* audit reports nothing.                                                    *)
AuditClean(file) ==
    /\ \A d \in Critical : Accounted(file, d)
    /\ \A a \in Bindings(file) \cup Gaps(file) : a.definition \in Critical

--------------------------------------------------------------------------------
(* Lean (external): the theorems outside block comments, which nest.           *)
Commented(file, i) ==
    Cardinality({j \in 1 .. i : file[j].is = "open"})
        > Cardinality({j \in 1 .. i : file[j].is = "close"})

Compiled(file) ==
    {file[i].name : i \in {j \in DOMAIN file : file[j].is = "theorem" /\ ~Commented(file, j)}}

(* Fault: the environment is not asked, as in the release gate.                *)
SchemaPassesUnasked(file) == AuditClean(file)

(* `xtask schema`: the audit, and every theorem is in the environment.         *)
SchemaPasses(file) ==
    /\ AuditClean(file)
    /\ \A b \in Bindings(file) : b.by.theorem \in Compiled(file)

--------------------------------------------------------------------------------
TheoremNamesDiffer(file) ==
    \A i, j \in DOMAIN file :
        file[i].is = "theorem" /\ file[j].is = "theorem" /\ file[i].name = file[j].name => i = j

(* What Lean has checked of d: a compiled theorem whose own lines, comments     *)
(* left out, mention d up to a `:=` that `rfl` follows.                       *)
StatedAndProved(file, d) ==
    \E i, k \in DOMAIN file :
        /\ i <= k /\ file[i].is = "theorem" /\ ~Commented(file, i)
        /\ \A j \in i + 1 .. k : file[j].is \in {"code", "comment", "binding", "gap"}
        /\ \A j \in i .. k - 1 : file[j].proof = ""
        /\ file[k].proof = "rfl"
        /\ \E j \in i .. k : d \in file[j].mentions /\ ~IsComment(file[j])

(* A statement is written without a comment or a second theorem inside it.     *)
PlainStatements(file) ==
    \A b \in Bindings(file) :
        LET head == HeadBelow(file, b.line)
        IN  \A j \in head + 1 .. BlockEnd(file, head) : file[j].is = "code"
================================================================================
