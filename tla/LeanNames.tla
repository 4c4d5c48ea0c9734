-------------------------------- MODULE LeanNames --------------------------------
(****************************************************************************)
(* The two readers of names in Lean sources.  declared_names of amendment.rs   *)
(* says which file declares a name; lean_markers of core.rs says which name a  *)
(* coverage marker is attached to.  They do not read alike: the first looks at  *)
(* what lean::strip leaves of the file, knows `lemma`, `opaque` and modifiers  *)
(* and takes names as far as they are ASCII; the second looks at the file      *)
(* itself, knows `instance` and takes Unicode and quoted names.  Each follows  *)
(* `namespace` and `end` in its own way.  A file is the sequence of its lines   *)
(* that either of them looks at.                                             *)
(****************************************************************************)
EXTENDS Integers, Sequences, FiniteSets

CONSTANTS
    LeanLines,     \* the lines a Lean file can have
    MaxLeanLines   \* bound on the length of a file

Readers == {"amendment", "core"}

(* Names are sequences of segments: `name` is core.rs's reading of the line,    *)
(* `ascii` amendment.rs's, and `by` has the readers that know the form of the  *)
(* line at all.  A marker stands on a line of its own (`-- core-rule: x`) or    *)
(* in a doc comment (`/-- core-rule: x -/`); longer comments are opened and     *)
(* closed by lines of their own.                                             *)
LineForms ==
    [is : {"namespace", "end", "decl", "inductive", "constructor", "mark", "open", "close", "other"},
     name : Seq(STRING), ascii : Seq(STRING), by : SUBSET Readers,
     kind : {"", "rule", "def", "aux"}, own : BOOLEAN]

ASSUME LeanNamesAssumption ==
    /\ LeanLines \subseteq LineForms
    /\ MaxLeanLines \in Nat

LeanFilesUpTo(n) == UNION {[1 .. k -> LeanLines] : k \in 0 .. n}

--------------------------------------------------------------------------------
Top(stack) == stack[Len(stack)]
Pop(stack) == SubSeq(stack, 1, Len(stack) - 1)
LastSegment(name) == <<name[Len(name)]>>

Qualified(stack, name) ==
    LET joined[i \in 0 .. Len(stack)] == IF i = 0 THEN <<>> ELSE joined[i - 1] \o stack[i]
    IN  joined[Len(stack)] \o name

(* Fault: `end` pops whatever namespace is open.                             *)
AmendmentClosesAny(stack, name) == stack # <<>>

(* `end B` closes the namespace B and also the namespace A.B.                 *)
AmendmentCloses(stack, name) == stack # <<>> /\ (Top(stack) = name \/ LastSegment(Top(stack)) = name)

(* `end` has to repeat what the `namespace` line says.                        *)
CoreCloses(stack, name) == stack # <<>> /\ Top(stack) = name

Closes(reader, stack, name) ==
    IF reader = "amendment" THEN AmendmentCloses(stack, name) ELSE CoreCloses(stack, name)

(* The block comments that are open at the end of the first n lines; a stray    *)
(* `-/` closes nothing.                                                      *)
CommentDepth(file, n) ==
    LET depth[i \in 0 .. n] ==
            IF i = 0 THEN 0
            ELSE CASE file[i].is = "open" -> depth[i - 1] + 1
                   [] file[i].is = "close" /\ depth[i - 1] > 0 -> depth[i - 1] - 1
                   [] OTHER -> depth[i - 1]
    IN  depth[n]

(* Whether a reader sees line i: strip takes comments from one of them.        *)
Reads(file, i, reader) ==
    /\ reader \in file[i].by
    /\ reader = "amendment" => CommentDepth(file, i - 1) = 0

NameBy(line, reader) == IF reader = "amendment" THEN line.ascii ELSE line.name

(* The namespaces that a reader takes for open at the end of the first n lines. *)
Open(file, n, reader) ==
    LET stack[i \in 0 .. n] ==
            IF i = 0 THEN <<>>
            ELSE CASE ~Reads(file, i, reader) -> stack[i - 1]
                   [] file[i].is = "namespace" -> Append(stack[i - 1], NameBy(file[i], reader))
                   [] file[i].is = "end" /\ Closes(reader, stack[i - 1], NameBy(file[i], reader)) ->
                          Pop(stack[i - 1])
                   [] OTHER -> stack[i - 1]
    IN  stack[n]

(* Whether a reader that sees the line takes it for a declaration.              *)
OpensDeclaration(line, reader) == line.is \in {"decl", "inductive"} /\ reader \in line.by

(* The lines on which declared_names finds the name declared.                  *)
DeclaredAt(file, name) ==
    {i \in DOMAIN file : /\ Reads(file, i, "amendment") /\ OpensDeclaration(file[i], "amendment")
                         /\ Qualified(Open(file, i, "amendment"), file[i].ascii) = name}

--------------------------------------------------------------------------------
CoreKinds == {"rule", "def"}
NeutralKinds == {"rule", "aux"}

(* The line a marker is attached to: the next that does not begin with a        *)
(* comment mark.  The text inside a longer comment is no comment to this reader. *)
NextLine(file, i) ==
    LET after == {j \in i + 1 .. Len(file) : file[j].is \notin {"mark", "open", "close"}}
    IN  IF after = {} THEN 0 ELSE CHOOSE j \in after : \A k \in after : j <= k

(* The inductive type the markers on line i think they are in: the last one    *)
(* that began, however long ago it ended.                                    *)
CurrentInductive(file, i) ==
    LET before == {j \in 1 .. i : file[j].is = "inductive" /\ "core" \in file[j].by}
    IN  IF before = {} THEN <<>> ELSE file[CHOOSE j \in before : \A k \in before : k <= j].name

(* What the marker on line i is attached to; <<>> is nothing.                  *)
AttachedTo(file, i) ==
    LET j == NextLine(file, i)
        stack == Open(file, i, "core")
    IN  CASE j # 0 /\ OpensDeclaration(file[j], "core") -> Qualified(stack, file[j].name)
          [] j # 0 /\ file[j].is = "constructor" /\ CurrentInductive(file, i) # <<>> ->
                 Qualified(stack, CurrentInductive(file, i) \o file[j].name)
          [] OTHER -> <<>>

(* Both readers see line i, and see the same name on it.                      *)
ReadAlike(file, i) == /\ \A reader \in Readers : Reads(file, i, reader)
                      /\ file[i].name = file[i].ascii

(* No `end` on line i closes A.B for one of them and nothing for the other: it  *)
(* names the namespace that is open as it was opened, or a section whose name  *)
(* is not the last segment of one.                                           *)
PlainlyScoped(file, i) ==
    file[i].is = "end" =>
        LET stack == Open(file, i - 1, "core")
        IN  \/ stack = <<>> \/ Top(stack) = file[i].name
            \/ LastSegment(Top(stack)) # file[i].name

(* Line j is a declaration that both readers can be expected to know: they see  *)
(* it alike, and every line above that opens or closes a namespace.            *)
PlainDeclaration(file, j) ==
    /\ j # 0
    /\ OpensDeclaration(file[j], "core")
    /\ \A k \in 1 .. j :
           k = j \/ file[k].is \in {"namespace", "end"} =>
               ReadAlike(file, k) /\ PlainlyScoped(file, k)

(* The claims lean_markers finds, with the form of the marker and whether it    *)
(* stands above a plain declaration.                                         *)
Claims(file) ==
    {[kind |-> file[i].kind, own |-> file[i].own, to |-> AttachedTo(file, i),
      plain |-> PlainDeclaration(file, NextLine(file, i))] :
        i \in {j \in DOMAIN file : /\ file[j].is = "mark" /\ file[j].kind \in CoreKinds
                                   /\ AttachedTo(file, j) # <<>>}}

(* Fault: only the marker right above a declaration is counted.                *)
MarkersRightAbove(file) ==
    Cardinality({i \in DOMAIN file : /\ file[i].is = "mark" /\ file[i].own
                                     /\ file[i].kind \in NeutralKinds
                                     /\ i + 1 \in DOMAIN file
                                     /\ OpensDeclaration(file[i + 1], "core")})

(* coverage_markers: only lines that begin with the comment, in the file as it  *)
(* is, and `core-aux:` where core.rs:89 writes `core-def:`.                    *)
Markers(file) ==
    Cardinality({i \in DOMAIN file : /\ file[i].is = "mark" /\ file[i].own
                                     /\ file[i].kind \in NeutralKinds})

--------------------------------------------------------------------------------
ReadersAgreeUpTo(n) ==
    \A file \in LeanFilesUpTo(n) :
        \A c \in Claims(file) : c.plain => DeclaredAt(file, c.to) # {}
================================================================================
