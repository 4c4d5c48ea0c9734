------------------------------- MODULE LeanStrip -------------------------------
(****************************************************************************)
(* strip of lean.rs, on which the forbidden-construct scan and the release-   *)
(* path check rest: comments and string bodies of a Lean source are blanked.   *)
(* One action is one pass through the body of one of its three loops.  A      *)
(* character is what the loops tell apart: slash, dash, quote, backslash,      *)
(* newline, or any other.                                                    *)
(****************************************************************************)
EXTENDS Integers, Sequences

CONSTANTS
    Other,        \* the characters no rule singles out
    MaxLength     \* bound on the length of a source

ASSUME LeanStripAssumption ==
    /\ MaxLength \in Nat
    /\ Other \cap {"/", "-", "quote", "backslash", "newline", "blank"} = {}

Chars   == Other \cup {"/", "-", "quote", "backslash", "newline"}
Output  == Chars \cup {"blank"}
Sources == UNION {[1 .. n -> Chars] : n \in 0 .. MaxLength}

VARIABLES
    src,          \* the source
    i,            \* characters consumed
    depth,        \* open block comments
    loop,         \* the loop it is in: "code", "line" or "string"
    out           \* what has been written

vars == <<src, i, depth, loop, out>>

More          == i < Len(src)
At(c)         == More /\ src[i + 1] = c
Two(a, b)     == i + 1 < Len(src) /\ src[i + 1] = a /\ src[i + 2] = b

(* Fault: a newline in a comment or a string is blanked like the rest.         *)
BlankAll(c)   == "blank"

Blank(c)      == IF c = "newline" THEN "newline" ELSE "blank"

Init ==
    /\ src \in Sources
    /\ i = 0
    /\ depth = 0
    /\ loop = "code"
    /\ out = <<>>

(* Consume one character and write c for it, or two and write two blanks.      *)
Emit(c) == i' = i + 1 /\ out' = Append(out, c)
EmitTwo == i' = i + 2 /\ out' = Append(Append(out, "blank"), "blank")

OpenComment ==
    /\ loop = "code"
    /\ Two("/", "-")
    /\ depth' = depth + 1
    /\ EmitTwo
    /\ UNCHANGED <<src, loop>>

(* Fault: comments do not nest.                                              *)
CloseEveryComment ==
    /\ loop = "code"
    /\ depth > 0
    /\ Two("-", "/")
    /\ depth' = 0
    /\ EmitTwo
    /\ UNCHANGED <<src, loop>>

CloseComment ==
    /\ loop = "code"
    /\ depth > 0
    /\ Two("-", "/")
    /\ depth' = depth - 1
    /\ EmitTwo
    /\ UNCHANGED <<src, loop>>

InsideComment ==
    /\ loop = "code"
    /\ depth > 0
    /\ More
    /\ ~Two("/", "-") /\ ~Two("-", "/")
    /\ Emit(Blank(src[i + 1]))
    /\ UNCHANGED <<src, depth, loop>>

OpenLine ==
    /\ loop = "code"
    /\ depth = 0
    /\ Two("-", "-")
    /\ loop' = "line"
    /\ UNCHANGED <<src, i, depth, out>>

InsideLine ==
    /\ loop = "line"
    /\ IF More /\ ~At("newline")
       THEN Emit("blank") /\ UNCHANGED loop
       ELSE loop' = "code" /\ UNCHANGED <<i, out>>
    /\ UNCHANGED <<src, depth>>

OpenString ==
    /\ loop = "code"
    /\ depth = 0
    /\ At("quote")
    /\ loop' = "string"
    /\ Emit("blank")
    /\ UNCHANGED <<src, depth>>

(* Fault: the escape consumes two characters at the end of the source too.     *)
InsideStringPastEnd ==
    /\ loop = "string"
    /\ More
    /\ ~At("quote")
    /\ IF At("backslash") THEN EmitTwo ELSE Emit(Blank(src[i + 1]))
    /\ UNCHANGED <<src, depth, loop>>

(* An escape is two blanks, whatever is escaped.                             *)
InsideString ==
    /\ loop = "string"
    /\ More
    /\ ~At("quote")
    /\ IF At("backslash") /\ i + 1 < Len(src)
       THEN EmitTwo
       ELSE Emit(Blank(src[i + 1]))
    /\ UNCHANGED <<src, depth, loop>>

(* Fault: a string the source does not close is never left.                   *)
CloseStringAtQuote ==
    /\ loop = "string"
    /\ At("quote")
    /\ loop' = "code"
    /\ Emit("blank")
    /\ UNCHANGED <<src, depth>>

CloseString ==
    /\ loop = "string"
    /\ ~More \/ At("quote")
    /\ loop' = "code"
    /\ IF More THEN Emit("blank") ELSE UNCHANGED <<i, out>>
    /\ UNCHANGED <<src, depth>>

Keep ==
    /\ loop = "code"
    /\ depth = 0
    /\ More
    /\ ~Two("/", "-") /\ ~Two("-", "-") /\ ~At("quote")
    /\ Emit(src[i + 1])
    /\ UNCHANGED <<src, depth, loop>>

Next ==
    \/ OpenComment \/ CloseComment \/ InsideComment
    \/ OpenLine \/ InsideLine
    \/ OpenString \/ InsideString \/ CloseString
    \/ Keep

Spec == Init /\ [][Next]_vars /\ WF_vars(Next)

Stripped == loop = "code" /\ ~More

--------------------------------------------------------------------------------
(* The reference: what each character is, one character at a time and without  *)
(* looking ahead.  A state of the automaton is the context a character leaves  *)
(* behind; `half` is the first character of a two-character mark.              *)
Code == [in |-> "code", depth |-> 0, half |-> "no"]

After(s, c) ==
    CASE s.in = "line" ->
             IF c = "newline" THEN Code ELSE s
      [] s.in = "string" ->
             IF s.half = "escape" THEN [s EXCEPT !.half = "no"]
             ELSE IF c = "backslash" THEN [s EXCEPT !.half = "escape"]
             ELSE IF c = "quote" THEN Code ELSE s
      [] s.in = "code" /\ s.half = "/" /\ c = "-" ->
             [in |-> "code", depth |-> s.depth + 1, half |-> "no"]
      [] s.in = "code" /\ s.half = "-" /\ c = "/" /\ s.depth > 0 ->
             [in |-> "code", depth |-> s.depth - 1, half |-> "no"]
      [] s.in = "code" /\ s.half = "-" /\ c = "-" /\ s.depth = 0 ->
             [in |-> "line", depth |-> 0, half |-> "no"]
      [] s.in = "code" /\ c = "quote" /\ s.depth = 0 ->
             [in |-> "string", depth |-> 0, half |-> "no"]
      [] OTHER -> [s EXCEPT !.half = IF c \in {"/", "-"} THEN c ELSE "no"]

Contexts(s) ==
    LET context[k \in 0 .. Len(s)] ==
            IF k = 0 THEN Code ELSE After(context[k - 1], s[k])
    IN  context

(* A character is code unless it stands in a comment or a string or is part of *)
(* the mark that opens or closes one.                                        *)
IsCode(s, k) ==
    LET before == Contexts(s)[k - 1]
        after  == Contexts(s)[k]
        Opens(m) == Contexts(s)[m].in # Contexts(s)[m - 1].in
                       \/ Contexts(s)[m].depth # Contexts(s)[m - 1].depth
    IN  /\ before.in = "code" /\ before.depth = 0
        /\ after.in = "code" /\ after.depth = 0
        /\ ~ (/\ k < Len(s) /\ s[k] \in {"/", "-"} /\ s[k + 1] = "-" /\ Opens(k + 1))

--------------------------------------------------------------------------------
(* Properties. *)

(* One character is written for each character consumed, and the position      *)
(* never passes the end of the source, although marks and escapes consume two. *)
TypeOK ==
    /\ src \in Sources
    /\ i \in 0 .. Len(src)
    /\ depth \in Nat
    /\ loop \in {"code", "line", "string"}
    /\ depth > 0 => loop = "code"
    /\ out \in Seq(Output)
    /\ Len(out) = i

(* The text that is left is the code of the source at its own place: every     *)
(* comment and string, however nested or unterminated, is blank and no code    *)
(* is.                                                                       *)
KeepsTheCode ==
    Stripped =>
        \A k \in 1 .. Len(src) :
            out[k] = IF IsCode(src, k) THEN src[k]
                     ELSE IF src[k] = "newline" /\ out[k] = "newline" THEN "newline"
                     ELSE "blank"

(* The one newline that does not survive is the one a backslash escapes in a    *)
(* string; no newline is invented.                                           *)
NewlinesSurviveUnlessEscaped ==
    \A k \in 1 .. i :
        /\ out[k] = "newline" => src[k] = "newline"
        /\ src[k] = "newline" /\ out[k] # "newline" => k > 1 /\ src[k - 1] = "backslash"

(* The loops come to an end on every source.                                 *)
Terminates == <>Stripped

================================================================================
