-------------------------------- MODULE PatchText --------------------------------
(****************************************************************************)
(* check_patch_text of amendment.rs.  An authority amendment records one       *)
(* textual operation on a pinned source: two anchors that select a region, the *)
(* lines it removes there and the lines it inserts.  The tool never carries    *)
(* the operation out; it decides whether the operation can be carried out.     *)
(* A text is what normalize_spectec leaves of it: its lines, trimmed, without  *)
(* the blank ones.                                                           *)
(****************************************************************************)
EXTENDS Integers, Sequences, FiniteSets

CONSTANTS
    Lines,         \* lines of the pinned sources
    MaxSource,     \* bound on the lines of a source
    MaxFragment    \* bound on the lines of a removed or inserted text

ASSUME PatchTextAssumption == MaxSource \in Nat /\ MaxFragment \in Nat

TextsUpTo(n) == UNION {[1 .. k -> Lines] : k \in 0 .. n}

(* `narrow` and `widen` are judged as `replace` is.                           *)
Effects == {"add", "replace"}

Patches == [effect : Effects, before : TextsUpTo(1), after : TextsUpTo(1),
            removed : TextsUpTo(MaxFragment), inserted : TextsUpTo(MaxFragment)]

--------------------------------------------------------------------------------
MatchesAt(text, part, i) ==
    /\ i + Len(part) - 1 <= Len(text)
    /\ SubSeq(text, i, i + Len(part) - 1) = part

(* match_indices: from the left, and past each match before the next; a part    *)
(* longer than the text is nowhere.                                          *)
Occurrences(text, part) ==
    LET from[i \in 1 .. Len(text) + 1] ==
            IF i > Len(text) THEN {}
            ELSE IF MatchesAt(text, part, i) THEN {i} \cup from[i + Len(part)]
            ELSE from[i + 1]
    IN  IF part = <<>> \/ Len(part) > Len(text) THEN {} ELSE from[1]

(* The lines of part, in this order, among the lines of text: the first line   *)
(* that fits is taken each time.                                             *)
IsLineSubsequence(part, text) ==
    LET fitted[i \in 0 .. Len(text)] ==
            IF i = 0 THEN 0
            ELSE IF fitted[i - 1] < Len(part) /\ text[i] = part[fitted[i - 1] + 1]
                 THEN fitted[i - 1] + 1 ELSE fitted[i - 1]
    IN  fitted[Len(text)] = Len(part)

(* One region for every beforeAnchor that an afterAnchor follows; without an   *)
(* afterAnchor the region goes on to the end of the source.                   *)
Regions(p, source) ==
    LET Starts == {b + Len(p.before) : b \in Occurrences(source, p.before)}
        Ends(s) == IF p.after = <<>> THEN {Len(source) + 1}
                   ELSE {s + e - 1 : e \in Occurrences(SubSeq(source, s, Len(source)), p.after)}
    IN  {[first |-> s, last |-> (CHOOSE e \in Ends(s) : \A f \in Ends(s) : e <= f) - 1] :
            s \in {t \in Starts : Ends(t) # {}}}

Within(region, source) == SubSeq(source, region.first, region.last)

EffectRecorded(p) ==
    IF p.effect = "add" THEN p.inserted # <<>>
    ELSE p.removed # <<>> /\ p.inserted # <<>> /\ p.removed # p.inserted

(* The removed text stands once in the region, or its lines do in order.       *)
RemovedIsThere(p, text) ==
    \/ p.removed = <<>>
    \/ Cardinality(Occurrences(text, p.removed)) = 1
    \/ IsLineSubsequence(p.removed, text)

NotYetInserted(p, text) == Occurrences(text, p.inserted) = {}

(* Fault: what is inserted is looked for where the removed text ends.          *)
AcceptsLookingPastRemoved(p, source) ==
    /\ p.before # <<>>
    /\ Cardinality(Regions(p, source)) = 1
    /\ \A r \in Regions(p, source) :
           /\ EffectRecorded(p)
           /\ RemovedIsThere(p, Within(r, source))
           /\ \/ p.removed # <<>>
              \/ NotYetInserted(p, Within(r, source))

(* check_patch_text reports nothing.                                         *)
Accepts(p, source) ==
    /\ p.before # <<>>
    /\ Cardinality(Regions(p, source)) = 1
    /\ \A r \in Regions(p, source) :
           /\ EffectRecorded(p)
           /\ RemovedIsThere(p, Within(r, source))
           /\ NotYetInserted(p, Within(r, source))

--------------------------------------------------------------------------------
(* The texts the operation may lead to: the removed lines are taken out of the *)
(* region, all together or one here and one there, and the inserted lines are  *)
(* put in somewhere.  The record does not say where.                         *)
Without(text, gone) ==
    LET kept[i \in 0 .. Len(text)] ==
            IF i = 0 THEN <<>>
            ELSE IF i \in gone THEN kept[i - 1] ELSE Append(kept[i - 1], text[i])
    IN  kept[Len(text)]

Picked(text, gone) == Without(text, (1 .. Len(text)) \ gone)

Insertions(text, part) ==
    {SubSeq(text, 1, k) \o part \o SubSeq(text, k + 1, Len(text)) : k \in 0 .. Len(text)}

Results(p, source) ==
    UNION {LET text == Within(r, source)
               Removals == {gone \in SUBSET (1 .. Len(text)) : Picked(text, gone) = p.removed}
           IN  {SubSeq(source, 1, r.first - 1) \o new \o SubSeq(source, r.last + 1, Len(source)) :
                   new \in UNION {Insertions(Without(text, gone), p.inserted) : gone \in Removals}} :
           r \in Regions(p, source)}

LinesOf(text) == {text[i] : i \in 1 .. Len(text)}

AppliesTwice(p, source) ==
    /\ Accepts(p, source)
    /\ LinesOf(p.inserted) \cap (LinesOf(p.before) \cup LinesOf(p.after)) = {}
    /\ \E result \in Results(p, source) : Accepts(p, result)

SomePatchAppliesTwice ==
    \E p \in Patches : \E source \in TextsUpTo(MaxSource) : AppliesTwice(p, source)
================================================================================
