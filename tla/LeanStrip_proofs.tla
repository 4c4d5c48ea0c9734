----------------------------- MODULE LeanStrip_proofs -----------------------------
(****************************************************************************)
(* strip for sources of every length: one character out for one character in,  *)
(* what happens to a newline, and that what is left is the code, as the        *)
(* automaton sees it that reads one character at a time.                      *)
(****************************************************************************)
EXTENDS LeanStrip, WellFoundedInduction, TLAPS

(* A source is a sequence of characters of bounded length.                   *)
LEMMA SourceIsSequence == ASSUME NEW s \in Sources
                          PROVE  /\ s \in Seq(Chars)
                                 /\ Len(s) \in Nat
                                 /\ \A k \in 1 .. Len(s) : s[k] \in Chars
<1>1. PICK n \in 0 .. MaxLength : s \in [1 .. n -> Chars]
  BY DEF Sources
<1>2. n \in Nat
  BY <1>1, LeanStripAssumption
<1>3. s \in Seq(Chars)
  BY <1>1, <1>2
<1>. QED  BY <1>3

(* What one character, or two, add to the output.                            *)
LEMMA EmitOne == ASSUME TypeOK, More, NEW c \in Output, Emit(c)
                 PROVE  /\ i' \in 0 .. Len(src)
                        /\ out' \in Seq(Output)
                        /\ Len(out') = i'
                        /\ \A k \in 1 .. i : out'[k] = out[k]
                        /\ out'[i + 1] = c
  BY SourceIsSequence DEF TypeOK, More, Emit

LEMMA EmitPair == ASSUME TypeOK, i + 1 < Len(src), EmitTwo
                  PROVE  /\ i' \in 0 .. Len(src)
                         /\ out' \in Seq(Output)
                         /\ Len(out') = i'
                         /\ \A k \in 1 .. i : out'[k] = out[k]
                         /\ out'[i + 1] = "blank"
                         /\ out'[i + 2] = "blank"
<1>1. "blank" \in Output
  BY DEF Output
<1>2. Append(out, "blank") \in Seq(Output) /\ Len(Append(out, "blank")) = i + 1
  BY <1>1 DEF TypeOK
<1>. QED  BY <1>1, <1>2, SourceIsSequence DEF TypeOK, EmitTwo

LEMMA NextCharacter == ASSUME TypeOK, More
                       PROVE  /\ src[i + 1] \in Chars
                              /\ src[i + 1] \in Output
                              /\ Blank(src[i + 1]) \in Output
<1>1. src[i + 1] \in Chars
  BY SourceIsSequence DEF TypeOK, More
<1>. QED  BY <1>1 DEF Output, Blank, Chars

LEMMA NewlineIsItself == "newline" \in Chars /\ "newline" # "blank"
  BY DEF Chars

--------------------------------------------------------------------------------
LEMMA InitTypes == Init => TypeOK
<1>. SUFFICES ASSUME Init PROVE TypeOK
  OBVIOUS
<1>1. Len(src) \in Nat
  BY SourceIsSequence DEF Init
<1>2. <<>> \in Seq(Output) /\ Len(<<>>) = 0
  OBVIOUS
<1>. QED  BY <1>1, <1>2 DEF Init, TypeOK

LEMMA StepTypes == TypeOK /\ [Next]_vars => TypeOK'
<1>. SUFFICES ASSUME TypeOK, [Next]_vars PROVE TypeOK'
  OBVIOUS
<1>0. Len(src) \in Nat /\ "blank" \in Output
  BY SourceIsSequence DEF TypeOK, Output
<1>1. CASE OpenComment
  <2>1. i + 1 < Len(src) /\ EmitTwo /\ src' = src
    BY <1>1 DEF OpenComment, Two
  <2>2. depth' \in Nat /\ loop' = "code"
    BY <1>1 DEF OpenComment, TypeOK
  <2>. QED  BY <2>1, <2>2, EmitPair DEF TypeOK
<1>2. CASE CloseComment
  <2>1. i + 1 < Len(src) /\ EmitTwo /\ src' = src
    BY <1>2 DEF CloseComment, Two
  <2>2. depth' \in Nat /\ loop' = "code"
    BY <1>2 DEF CloseComment, TypeOK
  <2>. QED  BY <2>1, <2>2, EmitPair DEF TypeOK
<1>3. CASE InsideComment
  <2>1. More /\ Emit(Blank(src[i + 1])) /\ UNCHANGED <<src, depth, loop>>
    BY <1>3 DEF InsideComment
  <2>. QED  BY <2>1, EmitOne, NextCharacter DEF TypeOK
<1>4. CASE OpenLine
  BY <1>4 DEF OpenLine, TypeOK
<1>5. CASE InsideLine
  <2>1. CASE More /\ ~At("newline")
    <3>1. Emit("blank") /\ UNCHANGED <<src, depth, loop>>
      BY <1>5, <2>1 DEF InsideLine
    <3>. QED  BY <2>1, <3>1, <1>0, EmitOne DEF TypeOK
  <2>2. CASE ~(More /\ ~At("newline"))
    BY <1>5, <2>2 DEF InsideLine, TypeOK
  <2>. QED  BY <2>1, <2>2
<1>6. CASE OpenString
  <2>1. More /\ Emit("blank") /\ loop' = "string" /\ depth' = 0 /\ src' = src
    BY <1>6 DEF OpenString, At
  <2>. QED  BY <2>1, <1>0, EmitOne DEF TypeOK
<1>7. CASE InsideString
  <2>1. More /\ UNCHANGED <<src, depth, loop>>
    BY <1>7 DEF InsideString
  <2>2. CASE At("backslash") /\ i + 1 < Len(src)
    <3>1. EmitTwo
      BY <1>7, <2>2 DEF InsideString
    <3>. QED  BY <2>1, <2>2, <3>1, EmitPair DEF TypeOK
  <2>3. CASE ~(At("backslash") /\ i + 1 < Len(src))
    <3>1. Emit(Blank(src[i + 1]))
      BY <1>7, <2>3 DEF InsideString
    <3>. QED  BY <2>1, <3>1, EmitOne, NextCharacter DEF TypeOK
  <2>. QED  BY <2>2, <2>3
<1>8. CASE CloseString
  <2>1. CASE More
    <3>1. Emit("blank") /\ UNCHANGED <<src, depth>> /\ loop' = "code"
      BY <1>8, <2>1 DEF CloseString
    <3>. QED  BY <2>1, <3>1, <1>0, EmitOne DEF TypeOK
  <2>2. CASE ~More
    BY <1>8, <2>2 DEF CloseString, TypeOK
  <2>. QED  BY <2>1, <2>2
<1>9. CASE Keep
  <2>1. More /\ Emit(src[i + 1]) /\ UNCHANGED <<src, depth, loop>>
    BY <1>9 DEF Keep
  <2>. QED  BY <2>1, EmitOne, NextCharacter DEF TypeOK
<1>10. CASE UNCHANGED vars
  BY <1>10 DEF vars, TypeOK
<1>. QED  BY <1>1, <1>2, <1>3, <1>4, <1>5, <1>6, <1>7, <1>8, <1>9, <1>10 DEF Next

(* One character is written for each character consumed, and the position      *)
(* never passes the end, for sources of every length: strip never indexes past *)
(* the end although marks and escapes consume two characters.                *)
THEOREM StripTypes == Spec => []TypeOK
<1>. QED  BY InitTypes, StepTypes, PTL DEF Spec

--------------------------------------------------------------------------------
(* What is true of the first i characters stays true when they are not touched. *)
LEMMA OldPositions ==
    ASSUME TypeOK, NewlinesSurviveUnlessEscaped, src' = src, NEW k \in 1 .. i,
           \A m \in 1 .. i : out'[m] = out[m]
    PROVE  /\ out'[k] = "newline" => src'[k] = "newline"
           /\ src'[k] = "newline" /\ out'[k] # "newline"
                  => k > 1 /\ src'[k - 1] = "backslash"
  BY DEF NewlinesSurviveUnlessEscaped

(* One character of which a newline stays a newline and nothing becomes one.    *)
LEMMA OneHonest ==
    ASSUME TypeOK, NewlinesSurviveUnlessEscaped, More, src' = src,
           NEW c \in Output, Emit(c), c = "newline" <=> src[i + 1] = "newline"
    PROVE  NewlinesSurviveUnlessEscaped'
<1>0. i \in Nat
  BY DEF TypeOK
<1>1. i' = i + 1 /\ out'[i + 1] = c /\ \A m \in 1 .. i : out'[m] = out[m]
  BY EmitOne DEF Emit
<1>2. ASSUME NEW k \in 1 .. i'
      PROVE  /\ out'[k] = "newline" => src'[k] = "newline"
             /\ src'[k] = "newline" /\ out'[k] # "newline"
                    => k > 1 /\ src'[k - 1] = "backslash"
  <2>1. CASE k \in 1 .. i
    BY <1>1, <2>1, OldPositions
  <2>2. CASE k = i + 1
    BY <1>1, <2>2
  <2>. QED  BY <1>0, <1>1, <2>1, <2>2
<1>. QED  BY <1>2 DEF NewlinesSurviveUnlessEscaped

(* Two characters, the first no newline, the second escaped if it is one.      *)
LEMMA TwoHonest ==
    ASSUME TypeOK, NewlinesSurviveUnlessEscaped, i + 1 < Len(src), src' = src,
           EmitTwo, src[i + 1] # "newline",
           src[i + 2] = "newline" => src[i + 1] = "backslash"
    PROVE  NewlinesSurviveUnlessEscaped'
<1>0. i \in Nat
  BY DEF TypeOK
<1>1. /\ i' = i + 2 /\ out'[i + 1] = "blank" /\ out'[i + 2] = "blank"
      /\ \A m \in 1 .. i : out'[m] = out[m]
  BY EmitPair DEF EmitTwo
<1>2. ASSUME NEW k \in 1 .. i'
      PROVE  /\ out'[k] = "newline" => src'[k] = "newline"
             /\ src'[k] = "newline" /\ out'[k] # "newline"
                    => k > 1 /\ src'[k - 1] = "backslash"
  <2>1. CASE k \in 1 .. i
    BY <1>1, <2>1, OldPositions
  <2>2. CASE k = i + 1
    BY <1>1, <2>2, NewlineIsItself
  <2>3. CASE k = i + 2
    <3>1. k > 1 /\ k - 1 = i + 1
      BY <1>0, <2>3
    <3>. QED  BY <1>1, <2>3, <3>1, NewlineIsItself
  <2>. QED  BY <1>0, <1>1, <2>1, <2>2, <2>3
<1>. QED  BY <1>2 DEF NewlinesSurviveUnlessEscaped

LEMMA NothingWritten ==
    ASSUME NewlinesSurviveUnlessEscaped, src' = src, i' = i, out' = out
    PROVE  NewlinesSurviveUnlessEscaped'
  BY DEF NewlinesSurviveUnlessEscaped

LEMMA BlankIsHonest == ASSUME NEW c PROVE Blank(c) = "newline" <=> c = "newline"
  BY DEF Blank

LEMMA StepNewlines ==
    TypeOK /\ NewlinesSurviveUnlessEscaped /\ [Next]_vars
        => NewlinesSurviveUnlessEscaped'
<1>. SUFFICES ASSUME TypeOK, NewlinesSurviveUnlessEscaped, [Next]_vars
              PROVE  NewlinesSurviveUnlessEscaped'
  OBVIOUS
<1>0. "blank" \in Output
  BY DEF Output
<1>1. CASE OpenComment
  BY <1>1, TwoHonest DEF OpenComment, Two
<1>2. CASE CloseComment
  BY <1>2, TwoHonest DEF CloseComment, Two
<1>3. CASE InsideComment
  <2>1. More /\ Emit(Blank(src[i + 1])) /\ src' = src
    BY <1>3 DEF InsideComment
  <2>. QED  BY <2>1, OneHonest, NextCharacter, BlankIsHonest
<1>4. CASE OpenLine
  BY <1>4, NothingWritten DEF OpenLine
<1>5. CASE InsideLine
  <2>1. CASE More /\ ~At("newline")
    <3>1. Emit("blank") /\ src' = src /\ src[i + 1] # "newline"
      BY <1>5, <2>1 DEF InsideLine, At
    <3>. QED  BY <1>0, <2>1, <3>1, OneHonest, NewlineIsItself
  <2>2. CASE ~(More /\ ~At("newline"))
    BY <1>5, <2>2, NothingWritten DEF InsideLine
  <2>. QED  BY <2>1, <2>2
<1>6. CASE OpenString
  <2>1. More /\ Emit("blank") /\ src' = src /\ src[i + 1] = "quote"
    BY <1>6 DEF OpenString, At
  <2>. QED  BY <1>0, <2>1, OneHonest
<1>7. CASE InsideString
  <2>1. More /\ src' = src
    BY <1>7 DEF InsideString
  <2>2. CASE At("backslash") /\ i + 1 < Len(src)
    <3>1. EmitTwo /\ src[i + 1] = "backslash"
      BY <1>7, <2>2 DEF InsideString, At
    <3>. QED  BY <2>1, <2>2, <3>1, TwoHonest
  <2>3. CASE ~(At("backslash") /\ i + 1 < Len(src))
    <3>1. Emit(Blank(src[i + 1]))
      BY <1>7, <2>3 DEF InsideString
    <3>. QED  BY <2>1, <3>1, OneHonest, NextCharacter, BlankIsHonest
  <2>. QED  BY <2>2, <2>3
<1>8. CASE CloseString
  <2>1. CASE More
    <3>1. Emit("blank") /\ src' = src /\ src[i + 1] = "quote"
      BY <1>8, <2>1 DEF CloseString, At
    <3>. QED  BY <1>0, <2>1, <3>1, OneHonest
  <2>2. CASE ~More
    BY <1>8, <2>2, NothingWritten DEF CloseString
  <2>. QED  BY <2>1, <2>2
<1>9. CASE Keep
  <2>1. More /\ Emit(src[i + 1]) /\ src' = src
    BY <1>9 DEF Keep
  <2>. QED  BY <2>1, OneHonest, NextCharacter
<1>10. CASE UNCHANGED vars
  BY <1>10, NothingWritten DEF vars
<1>. QED  BY <1>1, <1>2, <1>3, <1>4, <1>5, <1>6, <1>7, <1>8, <1>9, <1>10 DEF Next

(* For sources of every length strip invents no newline, and the only newline   *)
(* it loses is one that follows a backslash.                                 *)
THEOREM Newlines == Spec => []NewlinesSurviveUnlessEscaped
<1>1. Init => NewlinesSurviveUnlessEscaped
  BY DEF Init, NewlinesSurviveUnlessEscaped
<1>. QED  BY <1>1, StripTypes, StepNewlines, PTL DEF Spec

--------------------------------------------------------------------------------
(* The reference automaton. *)

(* Induction, for a set instead of a predicate.                              *)
LEMMA NatSet ==
    ASSUME NEW T \in SUBSET Nat, 0 \in T, \A n \in T : n + 1 \in T
    PROVE  T = Nat
<1>. DEFINE Less == OpToRel(<, Nat)
<1>1. IsWellFoundedOn(Less, Nat)
  BY NatLessThanWellFounded
<1>2. \A x, y \in Nat : x < y => <<x, y>> \in Less
  BY DEF OpToRel
<1>. HIDE DEF Less
<1>3. SUFFICES ASSUME Nat \ T # {} PROVE FALSE
  OBVIOUS
<1>4. PICK x \in Nat \ T : \A y \in Nat \ T : ~ (<<y, x>> \in Less)
  <2>1. Nat \ T \subseteq Nat /\ Nat \ T # {}
    BY <1>3
  <2>. QED  BY <1>1, <2>1, WFMin, Zenon
<1>5. x # 0 /\ x - 1 \in Nat
  OBVIOUS
<1>6. x - 1 \notin Nat \ T
  <2>1. x - 1 < x /\ x \in Nat /\ x - 1 \in Nat
    BY <1>5
  <2>2. <<x - 1, x>> \in Less
    BY <1>2, <2>1
  <2>. QED  BY <1>4, <2>2, Zenon
<1>7. x - 1 \in T
  BY <1>5, <1>6
<1>. QED  BY <1>5, <1>7

(* What the automaton has seen of s, as an equation.                          *)
Traces(s, context) ==
    context = [k \in 0 .. Len(s) |-> IF k = 0 THEN Code ELSE After(context[k - 1], s[k])]

(* It runs over every source: a context for the first n characters goes on for *)
(* one more.                                                                 *)
LEMMA ContextsExist == ASSUME NEW s, Len(s) \in Nat PROVE \E context : Traces(s, context)
<1>. DEFINE Run(n, c) == c = [k \in 0 .. n |-> IF k = 0 THEN Code ELSE After(c[k - 1], s[k])]
            T == {n \in Nat : \E c : Run(n, c)}
<1>1. 0 \in T
  <2>. DEFINE c == [k \in 0 .. 0 |-> Code]
  <2>1. Run(0, c)
    OBVIOUS
  <2>. QED  BY <2>1
<1>2. ASSUME NEW n \in T PROVE n + 1 \in T
  <2>1. PICK c : Run(n, c)
    OBVIOUS
  <2>. DEFINE d == [k \in 0 .. n + 1 |-> IF k = n + 1 THEN After(c[n], s[n + 1]) ELSE c[k]]
  <2>2. \A k \in 0 .. n + 1 : d[k] = IF k = 0 THEN Code ELSE After(d[k - 1], s[k])
    <3>. SUFFICES ASSUME NEW k \in 0 .. n + 1
                  PROVE  d[k] = IF k = 0 THEN Code ELSE After(d[k - 1], s[k])
      OBVIOUS
    <3>1. CASE k = n + 1
      BY <3>1
    <3>2. CASE k # n + 1
      <4>1. k \in 0 .. n /\ (k # 0 => k - 1 \in 0 .. n /\ k - 1 # n + 1)
        BY <3>2
      <4>2. d[k] = c[k] /\ (k # 0 => d[k - 1] = c[k - 1])
        BY <3>2, <4>1
      <4>3. c[k] = IF k = 0 THEN Code ELSE After(c[k - 1], s[k])
        BY <2>1, <4>1
      <4>. QED  BY <4>2, <4>3
    <3>. QED  BY <3>1, <3>2
  <2>3. d = [k \in 0 .. n + 1 |-> IF k = 0 THEN Code ELSE After(d[k - 1], s[k])]
    BY <2>2
  <2>4. \E c2 : c2 = [k \in 0 .. n + 1 |-> IF k = 0 THEN Code ELSE After(c2[k - 1], s[k])]
    <3>. HIDE DEF d
    <3>. QED  BY <2>3, Zenon
  <2>5. n + 1 \in Nat
    OBVIOUS
  <2>. QED  BY <2>4, <2>5, Zenon
<1>. HIDE DEF T
<1>3. T \subseteq Nat
  BY DEF T
<1>4. T = Nat
  BY <1>1, <1>2, <1>3, NatSet
<1>. QED  BY <1>4 DEF T, Traces

(* The contexts of a source, one by one.                                     *)
LEMMA ContextsUnfold ==
    ASSUME NEW s \in Sources
    PROVE  /\ Contexts(s)[0] = Code
           /\ \A k \in 1 .. Len(s) : Contexts(s)[k] = After(Contexts(s)[k - 1], s[k])
<1>1. Len(s) \in Nat
  BY SourceIsSequence
<1>2. Contexts(s) = CHOOSE context : Traces(s, context)
  BY DEF Contexts, Traces
<1>3. Traces(s, Contexts(s))
  BY <1>1, <1>2, ContextsExist
<1>. QED  BY <1>1, <1>3 DEF Traces

--------------------------------------------------------------------------------
(* What is left is the code.  The invariant says which context the automaton is *)
(* in when strip is between two characters, one part for each of its loops.     *)
(* They differ where strip looks ahead: the automaton knows a mark only at its  *)
(* second character, and leaves a line comment at the newline, which strip      *)
(* leaves to the loop for code.                                              *)
InState(in, d, h) == [in |-> in, depth |-> d, half |-> h]

(* With h before it, the next character does not complete a mark.             *)
NoMark(s, n, h, d) ==
    /\ h = "/" => s[n + 1] # "-"
    /\ h = "-" /\ d > 0 => s[n + 1] # "/"
    /\ h = "-" /\ d = 0 => s[n + 1] # "-"

CodeAt(s, n, d) ==
    n < Len(s) =>
        \/ \E h \in {"no", "/", "-"} :
               Contexts(s)[n] = InState("code", d, h) /\ NoMark(s, n, h, d)
        \/ /\ d = 0
           /\ Contexts(s)[n] = InState("line", 0, "no")
           /\ s[n + 1] = "newline"

LineAt(s, n) ==
    \/ Contexts(s)[n] = InState("line", 0, "no")
    \/ /\ n + 1 < Len(s)
       /\ s[n + 1] = "-" /\ s[n + 2] = "-"
       /\ Contexts(s)[n] = Code
    \/ /\ n > 0 /\ n < Len(s)
       /\ s[n] = "-" /\ s[n + 1] = "-"
       /\ Contexts(s)[n] = InState("code", 0, "-")

StringAt(s, n) == n < Len(s) => Contexts(s)[n] = InState("string", 0, "no")

InContext ==
    /\ loop = "code" => CodeAt(src, i, depth)
    /\ loop = "line" => LineAt(src, i)
    /\ loop = "string" => StringAt(src, i)

(* The character c is what belongs at k.                                     *)
Belongs(s, k, c) ==
    c = IF IsCode(s, k) THEN s[k]
        ELSE IF s[k] = "newline" /\ c = "newline" THEN "newline"
        ELSE "blank"

Faithful == \A k \in 1 .. i : Belongs(src, k, out[k])

CodeInv == InContext /\ Faithful

LEMMA AfterPlain ==
    ASSUME NEW d \in Nat, NEW h \in {"no", "/", "-"}, NEW c,
           ~ (h = "/" /\ c = "-"),
           d > 0 => ~ (h = "-" /\ c = "/"),
           d = 0 => ~ (h = "-" /\ c = "-"),
           d = 0 => c # "quote"
    PROVE  After(InState("code", d, h), c)
               = InState("code", d, IF c \in {"/", "-"} THEN c ELSE "no")
  BY DEF After, InState, Code

LEMMA AfterMark ==
    /\ \A d \in Nat : After(InState("code", d, "/"), "-") = InState("code", d + 1, "no")
    /\ \A d \in Nat : d > 0 => After(InState("code", d, "-"), "/") = InState("code", d - 1, "no")
    /\ After(InState("code", 0, "-"), "-") = InState("line", 0, "no")
    /\ \A h \in {"no", "/", "-"} :
           After(InState("code", 0, h), "quote") = InState("string", 0, "no")
  BY DEF After, InState, Code

LEMMA AfterLine ==
    \A c : After(InState("line", 0, "no"), c)
               = IF c = "newline" THEN Code ELSE InState("line", 0, "no")
  BY DEF After, InState, Code

LEMMA AfterString ==
    /\ \A c : c # "backslash" /\ c # "quote"
           => After(InState("string", 0, "no"), c) = InState("string", 0, "no")
    /\ After(InState("string", 0, "no"), "quote") = Code
    /\ \A c : After(After(InState("string", 0, "no"), "backslash"), c)
                  = InState("string", 0, "no")
    /\ After(InState("string", 0, "no"), "backslash").in = "string"
  BY DEF After, InState, Code

LEMMA StateFields ==
    ASSUME NEW in, NEW d, NEW h
    PROVE  InState(in, d, h).in = in /\ InState(in, d, h).depth = d
  BY DEF InState

LEMMA CodeIsAState == Code = InState("code", 0, "no")
  BY DEF Code, InState

(* One step of the automaton, and two.                                       *)
LEMMA OneStep ==
    ASSUME NEW s \in Sources, NEW n \in Nat, n < Len(s)
    PROVE  Contexts(s)[n + 1] = After(Contexts(s)[n], s[n + 1])
<1>1. n + 1 \in 1 .. Len(s) /\ n + 1 - 1 = n
  BY SourceIsSequence
<1>. QED  BY <1>1, ContextsUnfold

(* Nothing but a blank, or a newline kept, belongs where there is no code.      *)
LEMMA BlankBelongs ==
    ASSUME NEW s, NEW k, NEW c, ~ IsCode(s, k), c = "blank" \/ c = Blank(s[k])
    PROVE  Belongs(s, k, c)
  BY DEF Belongs, Blank

(* A character that comes from a comment or a string, or leads to one.          *)
LEMMA NotCode ==
    ASSUME NEW s, NEW k,
           \/ Contexts(s)[k - 1].in # "code" \/ Contexts(s)[k - 1].depth # 0
           \/ Contexts(s)[k].in # "code" \/ Contexts(s)[k].depth # 0
    PROVE  ~ IsCode(s, k)
  BY DEF IsCode

(* What is written for one character, or for two, belongs there, and the rest   *)
(* is as it was.                                                             *)
LEMMA OldBelongs ==
    ASSUME Faithful, src' = src, NEW k \in 1 .. i, out'[k] = out[k]
    PROVE  Belongs(src', k, out'[k])
  BY DEF Faithful

LEMMA OneFaithful ==
    ASSUME TypeOK, Faithful, More, src' = src, NEW c \in Output, Emit(c),
           Belongs(src, i + 1, c)
    PROVE  Faithful'
<1>0. i \in Nat
  BY DEF TypeOK
<1>1. i' = i + 1 /\ out'[i + 1] = c /\ \A m \in 1 .. i : out'[m] = out[m]
  BY EmitOne DEF Emit
<1>2. ASSUME NEW k \in 1 .. i' PROVE Belongs(src', k, out'[k])
  <2>1. CASE k \in 1 .. i
    BY <1>1, <2>1, OldBelongs
  <2>2. CASE k = i + 1
    BY <1>1, <2>2
  <2>. QED  BY <1>0, <1>1, <2>1, <2>2
<1>. QED  BY <1>2 DEF Faithful

LEMMA TwoFaithful ==
    ASSUME TypeOK, Faithful, i + 1 < Len(src), src' = src, EmitTwo,
           ~ IsCode(src, i + 1), ~ IsCode(src, i + 2)
    PROVE  Faithful'
<1>0. i \in Nat
  BY DEF TypeOK
<1>1. /\ i' = i + 2 /\ out'[i + 1] = "blank" /\ out'[i + 2] = "blank"
      /\ \A m \in 1 .. i : out'[m] = out[m]
  BY EmitPair DEF EmitTwo
<1>2. ASSUME NEW k \in 1 .. i' PROVE Belongs(src', k, out'[k])
  <2>1. CASE k \in 1 .. i
    BY <1>1, <2>1, OldBelongs
  <2>2. CASE k = i + 1
    BY <1>1, <2>2, BlankBelongs
  <2>3. CASE k = i + 2
    BY <1>1, <2>3, BlankBelongs
  <2>. QED  BY <1>0, <1>1, <2>1, <2>2, <2>3
<1>. QED  BY <1>2 DEF Faithful

LEMMA NoneFaithful ==
    ASSUME Faithful, src' = src, i' = i, out' = out PROVE Faithful'
  BY DEF Faithful

(* Between two characters of code that are no newline after a line comment, the *)
(* automaton is in code, with at most half a mark behind it.                   *)
LEMMA HalfMark ==
    ASSUME CodeInv, loop = "code", More, src[i + 1] # "newline" \/ depth # 0
    PROVE  \E h \in {"no", "/", "-"} :
               Contexts(src)[i] = InState("code", depth, h) /\ NoMark(src, i, h, depth)
  BY DEF CodeInv, InContext, CodeAt, More

(* A position in code again with nothing, or one plain character, before it.    *)
LEMMA FreshCode ==
    ASSUME NEW s, NEW n, NEW d, Contexts(s)[n] = InState("code", d, "no")
    PROVE  CodeAt(s, n, d)
  BY DEF CodeAt, NoMark

LEMMA PlainCode ==
    ASSUME NEW s, NEW n \in Nat, NEW d \in Nat,
           Contexts(s)[n + 1]
               = InState("code", d, IF s[n + 1] \in {"/", "-"} THEN s[n + 1] ELSE "no"),
           n + 1 < Len(s) => /\ ~ (s[n + 1] = "/" /\ s[n + 2] = "-")
                             /\ d > 0 => ~ (s[n + 1] = "-" /\ s[n + 2] = "/")
                             /\ d = 0 => ~ (s[n + 1] = "-" /\ s[n + 2] = "-")
    PROVE  CodeAt(s, n + 1, d)
<1>1. n + 1 + 1 = n + 2
  OBVIOUS
<1>. DEFINE h == IF s[n + 1] \in {"/", "-"} THEN s[n + 1] ELSE "no"
<1>2. h \in {"no", "/", "-"}
  OBVIOUS
<1>3. n + 1 < Len(s) => NoMark(s, n + 1, h, d)
  BY <1>1 DEF NoMark
<1>. QED  BY <1>2, <1>3 DEF CodeAt

--------------------------------------------------------------------------------
LEMMA StepCode == TypeOK /\ CodeInv /\ [Next]_vars => CodeInv'
<1>. SUFFICES ASSUME TypeOK, CodeInv, [Next]_vars PROVE CodeInv'
  OBVIOUS
<1>0. /\ i \in Nat /\ depth \in Nat /\ src \in Sources /\ Len(src) \in Nat
      /\ "blank" \in Output /\ Faithful
  BY SourceIsSequence DEF TypeOK, Output, CodeInv
<1>. DEFINE C == Contexts(src)
<1>a. ASSUME i < Len(src) PROVE C[i + 1] = After(C[i], src[i + 1])
  BY <1>0, <1>a, OneStep
<1>b. ASSUME i + 1 < Len(src) PROVE C[i + 2] = After(C[i + 1], src[i + 2])
  <2>1. i + 1 \in Nat /\ i + 1 + 1 = i + 2
    BY <1>0
  <2>2. Contexts(src)[i + 1 + 1] = After(Contexts(src)[i + 1], src[i + 1 + 1])
    BY <1>0, <1>b, <2>1, OneStep
  <2>. QED  BY <2>1, <2>2
<1>c. i + 1 - 1 = i /\ i + 2 - 1 = i + 1 /\ (i + 1 < Len(src) => i < Len(src))
  BY <1>0
<1>1. CASE OpenComment
  <2>1. /\ loop = "code" /\ i + 1 < Len(src) /\ src[i + 1] = "/" /\ src[i + 2] = "-"
        /\ EmitTwo /\ i' = i + 2 /\ depth' = depth + 1 /\ src' = src /\ loop' = "code"
    BY <1>1 DEF OpenComment, Two, EmitTwo
  <2>2. PICK h \in {"no", "/", "-"} : C[i] = InState("code", depth, h) /\ NoMark(src, i, h, depth)
    BY <1>c, <2>1, HalfMark DEF More
  <2>3. C[i + 1] = InState("code", depth, "/")
    BY <1>0, <1>a, <1>c, <2>1, <2>2, AfterPlain DEF NoMark
  <2>4. C[i + 2] = InState("code", depth + 1, "no")
    BY <1>0, <1>b, <2>1, <2>3, AfterMark
  <2>5. ~ IsCode(src, i + 2)
    BY <1>0, <2>4, NotCode, StateFields
  <2>6. ~ IsCode(src, i + 1)
    <3>1. C[i + 2].depth # C[i + 1].depth
      BY <1>0, <2>3, <2>4, StateFields
    <3>2. i + 1 + 1 = i + 2 /\ i + 2 - 1 = i + 1
      BY <1>0
    <3>. QED  BY <1>0, <2>1, <3>1, <3>2 DEF IsCode
  <2>7. Faithful'
    BY <1>0, <2>1, <2>5, <2>6, TwoFaithful
  <2>8. CodeAt(src, i + 2, depth + 1)
    BY <2>4, FreshCode
  <2>. QED  BY <2>1, <2>7, <2>8 DEF CodeInv, InContext
<1>2. CASE CloseComment
  <2>1. /\ loop = "code" /\ i + 1 < Len(src) /\ src[i + 1] = "-" /\ src[i + 2] = "/"
        /\ depth > 0
        /\ EmitTwo /\ i' = i + 2 /\ depth' = depth - 1 /\ src' = src /\ loop' = "code"
    BY <1>2 DEF CloseComment, Two, EmitTwo
  <2>2. PICK h \in {"no", "/", "-"} : C[i] = InState("code", depth, h) /\ NoMark(src, i, h, depth)
    BY <1>c, <2>1, HalfMark DEF More
  <2>3. C[i + 1] = InState("code", depth, "-")
    BY <1>0, <1>a, <1>c, <2>1, <2>2, AfterPlain DEF NoMark
  <2>4. C[i + 2] = InState("code", depth - 1, "no")
    BY <1>0, <1>b, <2>1, <2>3, AfterMark
  <2>5. ~ IsCode(src, i + 1) /\ ~ IsCode(src, i + 2)
    <3>1. C[i].depth # 0 /\ C[i + 1].depth # 0
      BY <1>0, <2>1, <2>2, <2>3, StateFields
    <3>2. ~ IsCode(src, i + 1)
      BY <1>c, <3>1, NotCode
    <3>3. ~ IsCode(src, i + 2)
      BY <1>0, <1>c, <3>1, NotCode
    <3>. QED  BY <3>2, <3>3
  <2>6. Faithful'
    BY <1>0, <2>1, <2>5, TwoFaithful
  <2>7. CodeAt(src, i + 2, depth - 1)
    BY <2>4, FreshCode
  <2>. QED  BY <2>1, <2>6, <2>7 DEF CodeInv, InContext
<1>3. CASE InsideComment
  <2>1. /\ loop = "code" /\ depth > 0 /\ More /\ Emit(Blank(src[i + 1])) /\ i' = i + 1
        /\ src' = src /\ depth' = depth /\ loop' = "code"
    BY <1>3 DEF InsideComment, Emit
  <2>2. PICK h \in {"no", "/", "-"} : C[i] = InState("code", depth, h) /\ NoMark(src, i, h, depth)
    BY <2>1, HalfMark
  <2>3. C[i + 1] = InState("code", depth, IF src[i + 1] \in {"/", "-"} THEN src[i + 1] ELSE "no")
    BY <1>0, <1>a, <2>1, <2>2, AfterPlain DEF NoMark, More
  <2>4. CodeAt(src, i + 1, depth)
    <3>1. i + 1 < Len(src) => ~ (src[i + 1] = "/" /\ src[i + 2] = "-")
                                /\ ~ (src[i + 1] = "-" /\ src[i + 2] = "/")
      BY <1>3 DEF InsideComment, Two
    <3>. QED  BY <1>0, <2>1, <2>3, <3>1, PlainCode
  <2>5. ~ IsCode(src, i + 1)
    BY <1>0, <1>c, <2>1, <2>2, NotCode, StateFields
  <2>6. Faithful'
    BY <1>0, <2>1, <2>5, BlankBelongs, OneFaithful, NextCharacter
  <2>. QED  BY <2>1, <2>4, <2>6 DEF CodeInv, InContext
<1>4. CASE OpenLine
  <2>1. /\ loop = "code" /\ depth = 0 /\ i + 1 < Len(src)
        /\ src[i + 1] = "-" /\ src[i + 2] = "-"
        /\ loop' = "line" /\ UNCHANGED <<src, i, out>>
    BY <1>4 DEF OpenLine, Two
  <2>2. PICK h \in {"no", "/", "-"} : C[i] = InState("code", depth, h) /\ NoMark(src, i, h, depth)
    BY <1>c, <2>1, HalfMark DEF More
  <2>3. C[i] = Code
    BY <2>1, <2>2, CodeIsAState DEF NoMark
  <2>4. LineAt(src, i)
    BY <2>1, <2>3 DEF LineAt
  <2>5. Faithful'
    BY <1>0, <2>1, NoneFaithful
  <2>. QED  BY <2>1, <2>4, <2>5 DEF CodeInv, InContext
<1>5. CASE InsideLine
  <2>0. loop = "line" /\ depth = 0 /\ LineAt(src, i) /\ src' = src /\ depth' = depth
    BY <1>5 DEF InsideLine, TypeOK, CodeInv, InContext
  <2>1. CASE More /\ ~At("newline")
    <3>1. /\ Emit("blank") /\ loop' = "line" /\ i' = i + 1 /\ src[i + 1] # "newline"
          /\ i < Len(src)
      BY <1>5, <2>1 DEF InsideLine, At, Emit, More
    <3>2. LineAt(src, i + 1) /\ ~ IsCode(src, i + 1)
      <4>1. CASE C[i] = InState("line", 0, "no")
        <5>1. C[i + 1] = InState("line", 0, "no")
          BY <1>a, <3>1, <4>1, AfterLine
        <5>. QED  BY <5>1, NotCode, StateFields, <1>0 DEF LineAt
      <4>2. CASE i + 1 < Len(src) /\ src[i + 1] = "-" /\ src[i + 2] = "-" /\ C[i] = Code
        <5>1. C[i + 1] = InState("code", 0, "-")
          BY <1>a, <3>1, <4>2, AfterPlain, CodeIsAState
        <5>2. i + 1 + 1 = i + 2 /\ i + 2 - 1 = i + 1 /\ i + 1 > 0
          BY <1>0
        <5>3. C[i + 2] = InState("line", 0, "no")
          BY <1>b, <4>2, <5>1, AfterMark
        <5>4. C[i + 2].in # C[i + 1].in
          BY <5>1, <5>3, StateFields
        <5>5. ~ IsCode(src, i + 1)
          BY <1>0, <4>2, <5>2, <5>4 DEF IsCode
        <5>. QED  BY <4>2, <5>1, <5>2, <5>5 DEF LineAt
      <4>3. CASE src[i + 1] = "-" /\ C[i] = InState("code", 0, "-")
        <5>1. C[i + 1] = InState("line", 0, "no")
          BY <1>a, <3>1, <4>3, AfterMark
        <5>. QED  BY <5>1, NotCode, StateFields, <1>0 DEF LineAt
      <4>. QED  BY <2>0, <4>1, <4>2, <4>3 DEF LineAt
    <3>3. Faithful'
      BY <1>0, <2>0, <2>1, <3>1, <3>2, BlankBelongs, OneFaithful
    <3>. QED  BY <2>0, <3>1, <3>2, <3>3 DEF CodeInv, InContext
  <2>2. CASE ~(More /\ ~At("newline"))
    <3>1. loop' = "code" /\ i' = i /\ out' = out
      BY <1>5, <2>2 DEF InsideLine
    <3>2. i < Len(src) => src[i + 1] = "newline"
      BY <2>2 DEF More, At
    <3>3. i + 1 < Len(src) => i < Len(src)
      BY <1>0
    <3>4. CodeAt(src, i, 0)
      BY <2>0, <3>2, <3>3 DEF LineAt, CodeAt
    <3>5. Faithful'
      BY <1>0, <2>0, <3>1, NoneFaithful
    <3>. QED  BY <2>0, <3>1, <3>4, <3>5 DEF CodeInv, InContext
  <2>. QED  BY <2>1, <2>2
<1>6. CASE OpenString
  <2>1. /\ loop = "code" /\ depth = 0 /\ More /\ src[i + 1] = "quote" /\ i < Len(src)
        /\ Emit("blank") /\ i' = i + 1 /\ loop' = "string" /\ src' = src
    BY <1>6 DEF OpenString, At, Emit, More
  <2>2. PICK h \in {"no", "/", "-"} : C[i] = InState("code", depth, h)
    BY <2>1, HalfMark
  <2>3. C[i + 1] = InState("string", 0, "no")
    BY <1>a, <2>1, <2>2, AfterMark
  <2>4. StringAt(src, i + 1) /\ ~ IsCode(src, i + 1)
    BY <1>0, <2>3, NotCode, StateFields DEF StringAt
  <2>5. Faithful'
    BY <1>0, <2>1, <2>4, BlankBelongs, OneFaithful
  <2>. QED  BY <2>1, <2>4, <2>5 DEF CodeInv, InContext
<1>7. CASE InsideString
  <2>1. /\ loop = "string" /\ More /\ i < Len(src) /\ src[i + 1] # "quote"
        /\ src' = src /\ loop' = "string"
    BY <1>7 DEF InsideString, At, More
  <2>2. C[i] = InState("string", 0, "no") /\ C[i].in = "string"
    BY <2>1, StateFields DEF CodeInv, InContext, StringAt
  <2>3. ~ IsCode(src, i + 1)
    BY <1>0, <1>c, <2>2, NotCode
  <2>4. CASE At("backslash") /\ i + 1 < Len(src)
    <3>1. EmitTwo /\ i' = i + 2 /\ src[i + 1] = "backslash"
      BY <1>7, <2>4 DEF InsideString, At, EmitTwo
    <3>2. C[i + 1].in = "string" /\ C[i + 2] = InState("string", 0, "no")
      BY <1>a, <1>b, <2>1, <2>2, <2>4, <3>1, AfterString
    <3>3. ~ IsCode(src, i + 2)
      BY <1>0, <1>c, <3>2, NotCode
    <3>4. StringAt(src, i + 2)
      BY <3>2 DEF StringAt
    <3>5. Faithful'
      BY <1>0, <2>1, <2>3, <2>4, <3>1, <3>3, TwoFaithful
    <3>. QED  BY <2>1, <3>1, <3>4, <3>5 DEF CodeInv, InContext
  <2>5. CASE ~(At("backslash") /\ i + 1 < Len(src))
    <3>1. Emit(Blank(src[i + 1])) /\ i' = i + 1
      BY <1>7, <2>5 DEF InsideString, Emit
    <3>2. i + 1 < Len(src) => src[i + 1] # "backslash"
      BY <2>1, <2>5 DEF At
    <3>3. StringAt(src, i + 1)
      BY <1>a, <2>1, <2>2, <3>2, AfterString DEF StringAt
    <3>4. Faithful'
      BY <1>0, <2>1, <2>3, <3>1, BlankBelongs, OneFaithful, NextCharacter
    <3>. QED  BY <2>1, <3>1, <3>3, <3>4 DEF CodeInv, InContext
  <2>. QED  BY <2>4, <2>5
<1>8. CASE CloseString
  <2>0. loop = "string" /\ loop' = "code" /\ src' = src /\ depth' = depth /\ depth = 0
    BY <1>8 DEF CloseString, TypeOK
  <2>1. CASE More
    <3>1. Emit("blank") /\ i' = i + 1 /\ src[i + 1] = "quote" /\ i < Len(src)
      BY <1>8, <2>1 DEF CloseString, At, Emit, More
    <3>2. C[i] = InState("string", 0, "no") /\ C[i].in = "string"
      BY <2>0, <3>1, StateFields DEF CodeInv, InContext, StringAt
    <3>3. ~ IsCode(src, i + 1)
      BY <1>0, <1>c, <3>2, NotCode
    <3>4. C[i + 1] = InState("code", 0, "no")
      BY <1>a, <3>1, <3>2, AfterString, CodeIsAState
    <3>5. CodeAt(src, i + 1, 0)
      BY <3>4, FreshCode
    <3>6. Faithful'
      BY <1>0, <2>0, <2>1, <3>1, <3>3, BlankBelongs, OneFaithful
    <3>. QED  BY <2>0, <3>1, <3>5, <3>6 DEF CodeInv, InContext
  <2>2. CASE ~More
    <3>1. i' = i /\ out' = out /\ CodeAt(src, i, 0)
      BY <1>8, <2>2 DEF CloseString, More, CodeAt
    <3>2. Faithful'
      BY <1>0, <2>0, <3>1, NoneFaithful
    <3>. QED  BY <2>0, <3>1, <3>2 DEF CodeInv, InContext
  <2>. QED  BY <2>1, <2>2
<1>9. CASE Keep
  <2>1. /\ loop = "code" /\ depth = 0 /\ More /\ i < Len(src) /\ Emit(src[i + 1]) /\ i' = i + 1
        /\ src[i + 1] # "quote" /\ src' = src /\ depth' = depth /\ loop' = "code"
        /\ i + 1 < Len(src) => ~ (src[i + 1] = "/" /\ src[i + 2] = "-")
                                 /\ ~ (src[i + 1] = "-" /\ src[i + 2] = "-")
    BY <1>9 DEF Keep, Two, At, Emit, More
  <2>2. CodeAt(src, i + 1, 0) /\ Belongs(src, i + 1, src[i + 1])
    <3>1. CASE \E h \in {"no", "/", "-"} :
                   C[i] = InState("code", depth, h) /\ NoMark(src, i, h, depth)
      <4>1. PICK h \in {"no", "/", "-"} :
                C[i] = InState("code", depth, h) /\ NoMark(src, i, h, depth)
        BY <3>1
      <4>2. C[i + 1] = InState("code", 0, IF src[i + 1] \in {"/", "-"} THEN src[i + 1] ELSE "no")
        BY <1>0, <1>a, <2>1, <4>1, AfterPlain DEF NoMark
      <4>3. CodeAt(src, i + 1, 0)
        BY <1>0, <2>1, <4>2, PlainCode
      <4>4. IsCode(src, i + 1)
        <5>1. /\ C[i].in = "code" /\ C[i].depth = 0
              /\ C[i + 1].in = "code" /\ C[i + 1].depth = 0
          BY <2>1, <4>1, <4>2, StateFields
        <5>2. ~ (i + 1 < Len(src) /\ src[i + 1] \in {"/", "-"} /\ src[i + 1 + 1] = "-")
          <6>1. i + 1 + 1 = i + 2
            BY <1>0
          <6>. QED  BY <2>1, <6>1
        <5>. QED  BY <1>0, <1>c, <5>1, <5>2 DEF IsCode
      <4>. QED  BY <4>3, <4>4 DEF Belongs
    <3>2. CASE C[i] = InState("line", 0, "no") /\ src[i + 1] = "newline"
      <4>1. C[i + 1] = InState("code", 0, "no")
        BY <1>a, <2>1, <3>2, AfterLine, CodeIsAState
      <4>2. CodeAt(src, i + 1, 0)
        BY <4>1, FreshCode
      <4>. QED  BY <3>2, <4>2 DEF Belongs
    <3>. QED  BY <2>1, <3>1, <3>2 DEF CodeInv, InContext, CodeAt
  <2>3. Faithful'
    BY <1>0, <2>1, <2>2, OneFaithful, NextCharacter
  <2>. QED  BY <2>1, <2>2, <2>3 DEF CodeInv, InContext
<1>10. CASE UNCHANGED vars
  BY <1>10 DEF vars, CodeInv, InContext, Faithful
<1>. QED  BY <1>1, <1>2, <1>3, <1>4, <1>5, <1>6, <1>7, <1>8, <1>9, <1>10 DEF Next

LEMMA InitCode == Init => CodeInv
<1>. SUFFICES ASSUME Init PROVE CodeInv
  OBVIOUS
<1>1. Contexts(src)[0] = InState("code", 0, "no")
  BY ContextsUnfold, CodeIsAState DEF Init
<1>2. CodeAt(src, 0, 0)
  BY <1>1, FreshCode
<1>. QED  BY <1>2 DEF Init, CodeInv, InContext, Faithful

(* For sources of every length, what is left after strip is the code, at its     *)
(* own place: every comment and string is blank and no code is, whatever nests  *)
(* and whatever is never closed.                                             *)
THEOREM CodeKept == Spec => []KeepsTheCode
<1>1. TypeOK /\ CodeInv => KeepsTheCode
  <2>. SUFFICES ASSUME TypeOK, CodeInv, Stripped PROVE KeepsTheCode
    BY DEF KeepsTheCode
  <2>1. i = Len(src)
    BY SourceIsSequence DEF TypeOK, Stripped, More
  <2>. QED  BY <2>1 DEF CodeInv, Faithful, Belongs, KeepsTheCode
<1>2. Spec => [](TypeOK /\ CodeInv)
  BY InitTypes, InitCode, StepTypes, StepCode, PTL DEF Spec
<1>. QED  BY <1>1, <1>2, PTL

================================================================================
