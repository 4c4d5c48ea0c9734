--------------------------- MODULE CoreCoverage_proofs ---------------------------
(****************************************************************************)
(* For every set of items, places and names: a run of `xtask core` keeps its   *)
(* types, and one that passes while nobody edits has certified the map.       *)
(*                                                                          *)
(* The argument follows the run.  While it is quiet, what has been read is     *)
(* what the tree has; from the judgement on, the tree is certified (no fault,  *)
(* no gap, no ambiguity) and the expected text is the map of its markers; the  *)
(* comparison adds that the bindings are that text, and the probe that what it *)
(* did not blame is in the environment.                                      *)
(****************************************************************************)
EXTENDS CoreCoverage, TLAPS

Full == [k \in Kinds |-> Coverage(k)]

(* The tree as the first report judges it.                                   *)
Certified == IsOk(Full) /\ Complete(Full) /\ ~Ambiguous(Full)

(* Every kind before the one that is read next has been read from this tree.   *)
ReadSoFar == \A k \in Kinds : k < reading => report[k] = Coverage(k)

Elaborated == \A c \in Rows(Full) : c.decl \in env.has

(* What holds at each position of a quiet run.                               *)
AtFirst    == pc = "first" => ReadSoFar
AtJudge    == pc = "judge" => report = Full
AtWrite    == pc = "write" => /\ Certified
                              /\ expected = Rows(Full)
                              /\ opts.generate
AtCompare  == pc = "compare" => /\ Certified
                                /\ expected = Rows(Full)
                                /\ report = Full
Compared   == /\ Certified
              /\ matches => bindings = Holding(Rows(Full))
AtSecond   == pc = "second" => Compared /\ ReadSoFar
AtProbe    == pc = "probe" => Compared /\ report = Full
AtConclude == pc = "conclude" => /\ Compared
                                 /\ IsOk(report) => opts.sourceOnly \/ Elaborated
AtPass     == exit = "pass" => /\ Certified
                               /\ bindings = Holding(Rows(Full))
                               /\ opts.generate \/ opts.sourceOnly \/ Elaborated

QuietInv ==
    quiet => /\ AtFirst /\ AtJudge /\ AtWrite /\ AtCompare
             /\ AtSecond /\ AtProbe /\ AtConclude /\ AtPass

--------------------------------------------------------------------------------
(* Lemmas about one tree. *)

LEMMA MarkType ==
    ASSUME TypeOK, NEW p \in Places, marks[p] # NoMark
    PROVE  /\ marks[p] \in Marks
           /\ marks[p].item \in Items
           /\ KindOf[marks[p].item] \in Kinds
           /\ marks[p].decl # NoDecl => Claim(p) \in Claims
  <1>1. marks[p] \in Marks
    BY DEF TypeOK
  <1>2. marks[p].item \in Items /\ marks[p].decl \in Names \cup {NoDecl}
    BY <1>1 DEF Marks
  <1>3. KindOf[marks[p].item] \in Kinds
    BY <1>2, CoreCoverageAssumption
  <1> QED
    BY <1>1, <1>2, <1>3 DEF Claim, Claims

LEMMA CoverageType ==
    ASSUME TypeOK, NEW k \in Kinds
    PROVE  Coverage(k) \in Reports
  <1> DEFINE carrying == {p \in Places : marks[p] # NoMark /\ KindOf[marks[p].item] = k}
  <1>1. {i \in vendored : KindOf[i] = k} \in SUBSET Items
    BY DEF TypeOK
  <1>2. \A p \in carrying : marks[p].decl # NoDecl => Claim(p) \in Claims
    BY MarkType
  <1>3. {Claim(p) : p \in {q \in carrying : marks[q].decl # NoDecl}} \in SUBSET Claims
    BY <1>2
  <1>4. {p \in carrying : marks[p].decl = NoDecl} \in SUBSET Places
    OBVIOUS
  <1> QED
    BY <1>1, <1>3, <1>4 DEF Coverage, Reports

LEMMA RowsAreClaims ==
    ASSUME NEW r \in [Kinds -> Reports]
    PROVE  Rows(r) \subseteq Claims
  <1>1. \A k \in Kinds : r[k].claimed \in SUBSET Claims
    BY DEF Reports
  <1> QED
    BY <1>1 DEF Rows

(* The rows of the whole tree are its attached markers, each with its place.   *)
LEMMA RowsOfTheTree ==
    ASSUME TypeOK
    PROVE  Rows(Full) = {Claim(p) : p \in {q \in Places : marks[q] # NoMark
                                                           /\ marks[q].decl # NoDecl}}
  <1>1. ASSUME NEW c \in Rows(Full)
        PROVE  \E p \in Places : marks[p] # NoMark /\ marks[p].decl # NoDecl /\ c = Claim(p)
    <2>1. PICK k \in Kinds : c \in Full[k].claimed
      BY <1>1 DEF Rows
    <2>2. c \in Coverage(k).claimed
      BY <2>1 DEF Full
    <2> QED
      BY <2>2 DEF Coverage
  <1>2. ASSUME NEW p \in Places, marks[p] # NoMark, marks[p].decl # NoDecl
        PROVE  Claim(p) \in Rows(Full)
    <2>1. KindOf[marks[p].item] \in Kinds
      BY <1>2, MarkType
    <2>2. Claim(p) \in Coverage(KindOf[marks[p].item]).claimed
      BY <1>2 DEF Coverage
    <2>3. Full[KindOf[marks[p].item]] = Coverage(KindOf[marks[p].item])
      BY <2>1 DEF Full
    <2> QED
      BY <2>1, <2>2, <2>3 DEF Rows
  <1> QED
    BY <1>1, <1>2

(* A certified tree has no loose marker: each one is attached and names a       *)
(* vendored item.                                                            *)
LEMMA CertifiedMarks ==
    ASSUME TypeOK, Certified, NEW p \in Places, marks[p] # NoMark
    PROVE  /\ marks[p].decl # NoDecl
           /\ marks[p].item \in vendored
  <1> DEFINE k == KindOf[marks[p].item]
  <1>1. k \in Kinds
    BY MarkType
  <1>2. /\ Unknown(Coverage(k)) = {}
        /\ Coverage(k).unattached = {}
    BY <1>1 DEF Certified, IsOk, Full
  <1>3. marks[p].decl # NoDecl
    BY <1>2 DEF Coverage
  <1>4. Claim(p) \in Coverage(k).claimed
    BY <1>3 DEF Coverage
  <1>5. Claim(p).item \in Coverage(k).required
    BY <1>2, <1>4 DEF Unknown
  <1> QED
    BY <1>3, <1>5 DEF Coverage, Claim

LEMMA CertifiedIsOneToOne ==
    ASSUME TypeOK, Certified
    PROVE  OneToOne
  <1>1. ASSUME NEW p \in Places, NEW q \in Places, p # q,
               marks[p] # NoMark, marks[q] # NoMark
        PROVE  marks[p].item # marks[q].item /\ marks[p].decl # marks[q].decl
    <2>1. Claim(p) \in Rows(Full) /\ Claim(q) \in Rows(Full)
      BY <1>1, CertifiedMarks, RowsOfTheTree
    <2>2. Claim(p) # Claim(q)
      BY <1>1 DEF Claim
    <2>3. Claim(p).item # Claim(q).item /\ Claim(p).decl # Claim(q).decl
      BY <2>1, <2>2 DEF Certified, Ambiguous
    <2> QED
      BY <2>3 DEF Claim
  <1>2. ASSUME NEW i \in vendored
        PROVE  \E p \in Places : Marked(i) = {p}
    <2> DEFINE k == KindOf[i]
    <2>1. i \in Items /\ k \in Kinds
      BY CoreCoverageAssumption DEF TypeOK
    <2>2. i \in Coverage(k).required
      BY DEF Coverage
    <2>3. Missing(Coverage(k)) = {}
      BY <2>1 DEF Certified, Complete, Full
    <2>4. PICK c \in Coverage(k).claimed : c.item = i
      BY <2>2, <2>3 DEF Missing
    <2>5. PICK p \in Places : marks[p] # NoMark /\ c = Claim(p)
      BY <2>4 DEF Coverage
    <2>6. marks[p].item = i
      BY <2>4, <2>5 DEF Claim
    <2>7. Marked(i) = {p}
      BY <2>5, <2>6, <1>1 DEF Marked
    <2> QED
      BY <2>7
  <1>3. ASSUME NEW p \in Places, marks[p] # NoMark
        PROVE  marks[p].item \in vendored /\ marks[p].decl \in Names
    BY <1>3, CertifiedMarks, MarkType DEF Marks
  <1> QED
    BY <1>1, <1>2, <1>3 DEF OneToOne

LEMMA CertifiedMap ==
    ASSUME TypeOK, Certified
    PROVE  Rows(Full) = {Claim(p) : p \in {q \in Places : marks[q] # NoMark}}
  BY RowsOfTheTree, CertifiedMarks

(* Names no line blamed are in the environment.                              *)
LEMMA NothingBlamed ==
    ASSUME NEW names \in SUBSET Names, NEW has
    PROVE  \A n \in names \ has : n \in Blamed(names, has)
  BY CoreCoverageAssumption DEF Blamed

--------------------------------------------------------------------------------
(* Type correctness. *)

LEMMA InitTypes == Init => TypeOK
  <1> SUFFICES ASSUME Init PROVE TypeOK
    OBVIOUS
  <1> DEFINE r == [k \in Kinds |-> Coverage(k)]
  <1>1. \A k \in Kinds : Coverage(k).claimed \in SUBSET Claims
    <2> SUFFICES ASSUME NEW k \in Kinds,
                        NEW p \in Places, marks[p] # NoMark, marks[p].decl # NoDecl
                 PROVE  Claim(p) \in Claims
      BY DEF Coverage
    <2>1. marks[p] \in Marks
      BY DEF Init
    <2> QED
      BY <2>1 DEF Marks, Claim, Claims
  <1>2. Rows(r) \in SUBSET Claims
    BY <1>1 DEF Rows
  <1>3. bindings \in [exists : BOOLEAN, rows : SUBSET Claims]
    BY <1>2 DEF Init, Holding
  <1>4. report \in [Kinds -> Reports] /\ reading \in Kinds
    BY CoreCoverageAssumption DEF Init, NoCoverage, Reports, Kinds
  <1>5. opts \in Options
    BY DEF Init, Options
  <1>6. edits \in 0 .. MaxEdits
    BY CoreCoverageAssumption DEF Init
  <1> QED
    BY <1>3, <1>4, <1>5, <1>6 DEF Init, TypeOK

LEMMA ReadPartTypes ==
    ASSUME TypeOK, NEW from, NEW to, ReadPart(from, to),
           from # "done", to # "done",
           to \in {"judge", "probe"}, from \in {"first", "second"}
    PROVE  TypeOK'
  <1>1. Coverage(reading) \in Reports
    BY CoverageType DEF TypeOK
  <1>2. report' \in [Kinds -> Reports]
    BY <1>1 DEF ReadPart, TypeOK
  <1>3. reading' \in Kinds
    BY CoreCoverageAssumption DEF ReadPart, TypeOK, Kinds
  <1>4. /\ pc' \in {"done", "first", "judge", "write", "compare", "second", "probe", "conclude"}
        /\ exit' \in {"none", "pass", "fail", "error"}
        /\ pc' = "done" <=> exit' # "none"
    BY DEF ReadPart, TypeOK, Stop
  <1> QED
    BY <1>2, <1>3, <1>4 DEF ReadPart, TypeOK, files

LEMMA DisturbTypes ==
    ASSUME TypeOK, Disturb, UNCHANGED run,
           vendored' \subseteq Items,
           marks' \in [Places -> Marks \cup {NoMark}],
           bindings' \in [exists : BOOLEAN, rows : SUBSET Claims],
           env' \in Environments,
           settled' \in BOOLEAN
    PROVE  TypeOK'
  <1>1. edits' \in 0 .. MaxEdits /\ quiet' \in BOOLEAN
    <2>1. edits \in 0 .. MaxEdits
      BY DEF TypeOK
    <2>2. edits < MaxEdits /\ edits' = edits + 1 /\ quiet' = FALSE
      BY DEF Disturb
    <2>3. edits' \in 0 .. MaxEdits
      BY <2>1, <2>2, CoreCoverageAssumption
    <2> QED
      BY <2>2, <2>3
  <1>2. UNCHANGED <<pc, opts, reading, report, expected, matches, exit>>
    BY DEF run
  <1> QED
    BY <1>1, <1>2 DEF TypeOK

LEMMA NextTypes == TypeOK /\ [Next]_vars => TypeOK'
  <1> SUFFICES ASSUME TypeOK, [Next]_vars PROVE TypeOK'
    OBVIOUS
  <1>1. CASE EditMark
    <2>1. marks' \in [Places -> Marks \cup {NoMark}]
      BY <1>1 DEF EditMark, TypeOK
    <2> QED
      BY <1>1, <2>1, DisturbTypes DEF EditMark, TypeOK
  <1>2. CASE ChangePin
    <2>1. vendored' \subseteq Items
      BY <1>2 DEF ChangePin, TypeOK
    <2> QED
      BY <1>2, <2>1, DisturbTypes DEF ChangePin, TypeOK
  <1>3. CASE EditBindings
    <2>1. \A b \in BOOLEAN, S \in SUBSET Claims :
              [exists |-> b, rows |-> S] \in [exists : BOOLEAN, rows : SUBSET Claims]
      OBVIOUS
    <2>2. /\ Absent \in [exists : BOOLEAN, rows : SUBSET Claims]
          /\ Holding({}) \in [exists : BOOLEAN, rows : SUBSET Claims]
      BY <2>1 DEF Absent, Holding
    <2>3. bindings' \in [exists : BOOLEAN, rows : SUBSET Claims]
      BY <1>3, <2>2 DEF EditBindings
    <2> QED
      BY <1>3, <2>3, DisturbTypes DEF EditBindings, TypeOK, files
  <1>4. CASE Build
    BY <1>4, DisturbTypes DEF Build, TypeOK, files
  <1>5. ASSUME NEW o \in Options, Start(o) PROVE TypeOK'
    <2>1. report' \in [Kinds -> Reports] /\ reading' \in Kinds
      BY <1>5, CoreCoverageAssumption DEF Start, NoCoverage, Reports, Kinds
    <2> QED
      BY <1>5, <2>1 DEF Start, TypeOK, files
  <1>6. CASE FirstReport
    BY <1>6, ReadPartTypes DEF FirstReport
  <1>7. CASE Judge
    <2>1. Rows(report) \subseteq Claims
      BY RowsAreClaims DEF TypeOK
    <2> QED
      BY <1>7, <2>1 DEF Judge, Stop, TypeOK, files
  <1>8. CASE Generate
    <2>1. bindings' \in [exists : BOOLEAN, rows : SUBSET Claims]
      BY <1>8 DEF Generate, Holding, TypeOK
    <2> QED
      BY <1>8, <2>1 DEF Generate, Stop, TypeOK, files
  <1>9. CASE Compare
    BY <1>9 DEF Compare, Stop, TypeOK, files
  <1>10. CASE SecondReport
    BY <1>10, ReadPartTypes DEF SecondReport
  <1>11. CASE Probe
    <2> DEFINE bad == Blamed({c.decl : c \in Rows(report)}, env.has)
    <2>1. \A k \in Kinds : [report[k] EXCEPT !.unelaborated =
                               {c \in report[k].claimed : c.decl \in bad}] \in Reports
      BY DEF TypeOK, Reports
    <2>2. report' \in [Kinds -> Reports]
      BY <1>11, <2>1 DEF Probe, TypeOK
    <2>3. /\ pc' \in {"done", "conclude"}
          /\ exit' \in {"none", "pass", "fail", "error"}
          /\ pc' = "done" <=> exit' # "none"
      BY <1>11 DEF Probe, Stop, TypeOK
    <2>4. UNCHANGED <<vendored, marks, bindings, env, edits, opts, reading, expected,
                      matches, quiet, settled>>
      BY <1>11 DEF Probe, files
    <2> QED
      BY <2>2, <2>3, <2>4 DEF TypeOK
  <1>12. CASE Conclude
    BY <1>12 DEF Conclude, Stop, TypeOK, files
  <1>13. CASE Abort
    BY <1>13 DEF Abort, Stop, TypeOK, files
  <1>14. CASE UNCHANGED vars
    BY <1>14 DEF vars, TypeOK
  <1> QED
    BY <1>1, <1>2, <1>3, <1>4, <1>5, <1>6, <1>7, <1>8, <1>9, <1>10, <1>11, <1>12,
       <1>13, <1>14 DEF Next

(* A run keeps its types: the kind it reads next is a kind, and it has an exit  *)
(* exactly when it is not running.                                           *)
THEOREM CoverageTypes == Spec => []TypeOK
  <1> QED
    BY InitTypes, NextTypes, PTL DEF Spec

--------------------------------------------------------------------------------
(* What a quiet pass certifies. *)

LEMMA SameTree ==
    ASSUME UNCHANGED files
    PROVE  /\ \A k \in Kinds : Coverage(k)' = Coverage(k)
           /\ Full' = Full
           /\ Certified' <=> Certified
           /\ Rows(Full)' = Rows(Full)
           /\ UNCHANGED <<vendored, marks>>
  <1>1. UNCHANGED <<vendored, marks>>
    BY DEF files
  <1>2. \A k \in Kinds : Coverage(k)' = Coverage(k)
    BY <1>1 DEF Coverage, Claim
  <1>3. Full' = Full
    BY <1>2 DEF Full
  <1>4. Certified' <=> Certified
    BY <1>3 DEF Certified, IsOk, Complete, Ambiguous, Rows, Unknown, Missing
  <1>5. Rows(Full)' = Rows(Full)
    BY <1>3 DEF Rows
  <1> QED
    BY <1>1, <1>2, <1>3, <1>4, <1>5

(* One more kind read, or the last one: then the report is the whole tree's.    *)
LEMMA ReadPartReads ==
    ASSUME TypeOK, ReadSoFar, NEW from, NEW to, ReadPart(from, to), from # to
    PROVE  /\ pc' = from => ReadSoFar'
           /\ pc' = to /\ to # "done" => report' = Full'
  <1>1. /\ UNCHANGED files
        /\ reading \in Kinds
        /\ report \in [Kinds -> Reports]
    BY DEF ReadPart, TypeOK
  <1>2. CASE Coverage(reading).required = {}
    <2>1. pc' = "done" /\ UNCHANGED <<reading, report>>
      BY <1>2 DEF ReadPart, Stop
    <2> QED
      BY <2>1, <1>1, SameTree DEF ReadSoFar
  <1>3. CASE Coverage(reading).required # {}
    <2>1. /\ report' = [report EXCEPT ![reading] = Coverage(reading)]
          /\ reading' = IF reading = LastKind THEN 1 ELSE reading + 1
          /\ pc' = IF reading = LastKind THEN to ELSE from
      BY <1>3 DEF ReadPart
    <2>2. \A k \in Kinds : k <= reading => report'[k] = Coverage(k)
      BY <2>1, <1>1, CoreCoverageAssumption DEF ReadSoFar, Kinds
    <2>3. CASE reading = LastKind
      <3>1. \A k \in Kinds : report'[k] = Coverage(k)
        BY <2>2, <2>3, CoreCoverageAssumption DEF Kinds
      <3>2. report' = Full
        BY <3>1, <2>1, <1>1 DEF Full
      <3> QED
        BY <3>2, <2>1, <2>3, <1>1, SameTree
    <2>4. CASE reading # LastKind
      <3>1. \A k \in Kinds : k < reading' => k <= reading
        BY <2>1, <2>4, <1>1, CoreCoverageAssumption DEF Kinds
      <3> QED
        BY <3>1, <2>1, <2>2, <2>4, <1>1, SameTree DEF ReadSoFar
    <2> QED
      BY <2>3, <2>4
  <1> QED
    BY <1>2, <1>3

(* A report nothing is blamed in: every declaration is in the environment.      *)
LEMMA ProbeElaborates ==
    ASSUME TypeOK, pc = "probe", report = Full, Probe, pc' = "conclude", IsOk(report')
    PROVE  Elaborated
  <1> DEFINE names == {c.decl : c \in Rows(report)}
             bad   == Blamed(names, env.has)
  <1>1. report' = [k \in Kinds |-> [report[k] EXCEPT !.unelaborated =
                                        {c \in report[k].claimed : c.decl \in bad}]]
    BY DEF Probe, Stop
  <1>2. Rows(report) \subseteq Claims
    BY RowsAreClaims DEF TypeOK
  <1>3. names \in SUBSET Names
    BY <1>2 DEF Claims
  <1>4. SUFFICES ASSUME NEW c \in Rows(report), c.decl \notin env.has
                 PROVE  FALSE
    BY DEF Elaborated
  <1>5. c.decl \in bad
    <2>1. c.decl \in names \ env.has
      BY <1>4
    <2> HIDE DEF names
    <2> QED
      BY <2>1, <1>3, NothingBlamed
  <1>6. PICK k \in Kinds : c \in report[k].claimed
    BY <1>4 DEF Rows
  <1>7. report[k] \in Reports
    BY DEF TypeOK
  <1>8. c \in report'[k].unelaborated
    <2> HIDE DEF bad
    <2> QED
      BY <1>1, <1>5, <1>6, <1>7 DEF Reports
  <1>9. report'[k].unelaborated = {}
    BY DEF IsOk
  <1> QED
    BY <1>8, <1>9

LEMMA InitQuiet == Init => QuietInv
  BY DEF Init, QuietInv

LEMMA NextQuiet == TypeOK /\ QuietInv /\ [Next]_vars => QuietInv'
  <1> SUFFICES ASSUME TypeOK, QuietInv, [Next]_vars, quiet' PROVE QuietInv'
    BY DEF QuietInv
  <1> USE DEF QuietInv
  <1>1. CASE EditMark \/ ChangePin \/ EditBindings \/ Build
    BY <1>1 DEF EditMark, ChangePin, EditBindings, Build, Disturb
  <1>2. ASSUME NEW o \in Options, Start(o) PROVE QuietInv'
    <2>1. pc' = "first" /\ exit' = "none" /\ reading' = 1
      BY <1>2 DEF Start
    <2>2. ReadSoFar'
      BY <2>1, CoreCoverageAssumption DEF ReadSoFar, Kinds
    <2> QED
      BY <2>1, <2>2 DEF AtFirst, AtJudge, AtWrite, AtCompare, AtSecond, AtProbe,
                        AtConclude, AtPass
  <1>3. CASE FirstReport
    <2>1. ReadPart("first", "judge") /\ quiet /\ pc = "first" /\ ReadSoFar
      BY <1>3 DEF FirstReport, ReadPart, AtFirst
    <2>2. /\ pc' = "first" => ReadSoFar'
          /\ pc' = "judge" => report' = Full'
      BY <2>1, ReadPartReads
    <2>3. pc' \in {"first", "judge", "done"} /\ exit' # "pass"
      BY <2>1 DEF ReadPart, Stop, TypeOK
    <2> QED
      BY <2>2, <2>3 DEF AtFirst, AtJudge, AtWrite, AtCompare, AtSecond, AtProbe,
                        AtConclude, AtPass
  <1>4. CASE Judge
    <2>1. pc = "judge" /\ quiet /\ report = Full /\ UNCHANGED <<files, report, opts>>
      BY <1>4 DEF Judge, AtJudge
    <2>2. pc' \in {"write", "compare"} =>
              /\ Certified /\ expected' = Rows(Full)
              /\ pc' = "write" => opts.generate
      BY <1>4, <2>1 DEF Judge, Stop, Certified
    <2>3. pc' \in {"write", "compare", "done"} /\ exit' # "pass"
      BY <1>4 DEF Judge, Stop, TypeOK
    <2>4. (Certified' <=> Certified) /\ Full' = Full /\ Rows(Full)' = Rows(Full)
      BY <2>1, SameTree
    <2> QED
      BY <2>1, <2>2, <2>3, <2>4
         DEF AtFirst, AtJudge, AtWrite, AtCompare, AtSecond, AtProbe, AtConclude, AtPass
  <1>5. CASE Generate
    <2>1. /\ pc = "write" /\ quiet /\ UNCHANGED files /\ UNCHANGED opts
          /\ Certified /\ expected = Rows(Full) /\ opts.generate
          /\ pc' = "done" /\ bindings' = Holding(Rows(Full))
      BY <1>5 DEF Generate, Stop, AtWrite
    <2>2. (Certified' <=> Certified) /\ Rows(Full)' = Rows(Full)
      BY <2>1, SameTree
    <2>3. Holding(Rows(Full))' = Holding(Rows(Full))
      BY <2>2 DEF Holding
    <2> QED
      BY <2>1, <2>2, <2>3
         DEF AtFirst, AtJudge, AtWrite, AtCompare, AtSecond, AtProbe, AtConclude, AtPass
  <1>6. CASE Compare
    <2>1. /\ pc = "compare" /\ quiet /\ UNCHANGED files
          /\ UNCHANGED <<opts, bindings, env, report>>
          /\ Certified /\ expected = Rows(Full) /\ report = Full
          /\ pc' \in {"done", "second", "conclude"} /\ exit' # "pass"
      BY <1>6 DEF Compare, Stop, AtCompare, TypeOK
    <2>2. pc' # "done" /\ matches' => bindings = Holding(Rows(Full))
      <3>1. pc' # "done" /\ matches' => bindings.exists /\ bindings.rows = Rows(Full)
        BY <1>6, <2>1 DEF Compare, Stop, TypeOK
      <3>2. bindings \in [exists : BOOLEAN, rows : SUBSET Claims]
        BY DEF TypeOK
      <3> QED
        BY <3>1, <3>2 DEF Holding
    <2>3. pc' = "conclude" => opts.sourceOnly
      BY <1>6 DEF Compare, Stop
    <2>4. /\ (Certified' <=> Certified) /\ Full' = Full /\ Rows(Full)' = Rows(Full)
          /\ \A k \in Kinds : Coverage(k)' = Coverage(k)
      BY <2>1, SameTree
    <2>5. pc' # "done" => Compared'
      BY <2>1, <2>2, <2>4 DEF Compared, Holding
    <2>6. ReadSoFar'
      BY <2>1, <2>4 DEF ReadSoFar, Full
    <2> QED
      BY <2>1, <2>3, <2>5, <2>6
         DEF AtFirst, AtJudge, AtWrite, AtCompare, AtSecond, AtProbe, AtConclude, AtPass
  <1>7. CASE SecondReport
    <2>1. /\ ReadPart("second", "probe") /\ quiet /\ pc = "second" /\ ReadSoFar /\ Compared
          /\ UNCHANGED files /\ UNCHANGED <<bindings, matches>>
      BY <1>7 DEF SecondReport, ReadPart, AtSecond
    <2>2. /\ pc' = "second" => ReadSoFar'
          /\ pc' = "probe" => report' = Full'
      BY <2>1, ReadPartReads
    <2>3. pc' \in {"second", "probe", "done"} /\ exit' # "pass"
      BY <2>1 DEF ReadPart, Stop, TypeOK
    <2>4. (Certified' <=> Certified) /\ Rows(Full)' = Rows(Full)
      BY <2>1, SameTree
    <2>5. Compared'
      BY <2>1, <2>4 DEF Compared, Holding
    <2> QED
      BY <2>2, <2>3, <2>5
         DEF AtFirst, AtJudge, AtWrite, AtCompare, AtSecond, AtProbe, AtConclude, AtPass
  <1>8. CASE Probe
    <2>1. /\ pc = "probe" /\ quiet /\ report = Full /\ Compared
          /\ UNCHANGED files /\ UNCHANGED <<bindings, matches, env, opts>>
          /\ pc' \in {"conclude", "done"} /\ exit' # "pass"
      BY <1>8 DEF Probe, Stop, AtProbe, TypeOK
    <2>2. (Certified' <=> Certified) /\ Rows(Full)' = Rows(Full)
      BY <2>1, SameTree
    <2>3. Compared'
      BY <2>1, <2>2 DEF Compared, Holding
    <2>4. pc' = "conclude" /\ IsOk(report)' => Elaborated
      <3> SUFFICES ASSUME pc' = "conclude", IsOk(report') PROVE Elaborated
        BY DEF IsOk, Unknown
      <3> QED
        BY <1>8, <2>1, ProbeElaborates
    <2>5. Elaborated' <=> Elaborated
      BY <2>1, <2>2 DEF Elaborated
    <2> QED
      BY <2>1, <2>3, <2>4, <2>5
         DEF AtFirst, AtJudge, AtWrite, AtCompare, AtSecond, AtProbe, AtConclude, AtPass
  <1>9. CASE Conclude
    <2>1. /\ pc = "conclude" /\ quiet /\ Compared
          /\ IsOk(report) => opts.sourceOnly \/ Elaborated
          /\ UNCHANGED files /\ UNCHANGED <<bindings, env, opts>>
          /\ pc' = "done" /\ exit' = "pass" => matches /\ IsOk(report)
      BY <1>9 DEF Conclude, Stop, AtConclude
    <2>2. pc' = "done"
      BY <1>9 DEF Conclude, Stop
    <2>3. (Certified' <=> Certified) /\ Rows(Full)' = Rows(Full)
      BY <2>1, SameTree
    <2>4. Elaborated' <=> Elaborated
      BY <2>1, <2>3 DEF Elaborated
    <2>5. Holding(Rows(Full))' = Holding(Rows(Full))
      BY <2>3 DEF Holding
    <2> QED
      BY <2>1, <2>2, <2>3, <2>4, <2>5
         DEF AtFirst, AtJudge, AtWrite, AtCompare, AtSecond, AtProbe, AtConclude, AtPass,
             Compared
  <1>10. CASE Abort
    BY <1>10 DEF Abort, Stop, AtFirst, AtJudge, AtWrite, AtCompare, AtSecond, AtProbe,
                 AtConclude, AtPass
  <1>11. CASE UNCHANGED vars
    <2>1. /\ UNCHANGED files /\ quiet
          /\ UNCHANGED <<bindings, env, opts, reading, report, expected, matches, exit, pc>>
      BY <1>11 DEF vars, files
    <2>2. /\ (Certified' <=> Certified) /\ Full' = Full /\ Rows(Full)' = Rows(Full)
          /\ \A k \in Kinds : Coverage(k)' = Coverage(k)
      BY <2>1, SameTree
    <2>3. Holding(Rows(Full))' = Holding(Rows(Full))
      BY <2>2 DEF Holding
    <2>4. /\ ReadSoFar' <=> ReadSoFar
          /\ Compared' <=> Compared
          /\ Elaborated' <=> Elaborated
          /\ IsOk(report)' <=> IsOk(report)
      BY <2>1, <2>2, <2>3 DEF ReadSoFar, Compared, Elaborated, IsOk, Unknown
    <2> QED
      BY <2>1, <2>2, <2>3, <2>4
         DEF AtFirst, AtJudge, AtWrite, AtCompare, AtSecond, AtProbe, AtConclude, AtPass
  <1> QED
    BY <1>1, <1>2, <1>3, <1>4, <1>5, <1>6, <1>7, <1>8, <1>9, <1>10, <1>11 DEF Next

LEMMA QuietInvCertifies == TypeOK /\ QuietInv => QuietPassIsSound
  <1> SUFFICES ASSUME TypeOK, QuietInv, exit = "pass", quiet
               PROVE  /\ OneToOne
                      /\ BindingsAreTheMap
                      /\ opts.generate \/ opts.sourceOnly
                            \/ \A p \in Places : marks[p] # NoMark => marks[p].decl \in env.has
    BY DEF QuietPassIsSound
  <1>1. /\ Certified
        /\ bindings = Holding(Rows(Full))
        /\ opts.generate \/ opts.sourceOnly \/ Elaborated
    BY DEF QuietInv, AtPass
  <1>2. OneToOne
    BY <1>1, CertifiedIsOneToOne
  <1>3. Rows(Full) = {Claim(p) : p \in {q \in Places : marks[q] # NoMark}}
    BY <1>1, CertifiedMap
  <1>4. Elaborated => \A p \in Places : marks[p] # NoMark => marks[p].decl \in env.has
    <2> SUFFICES ASSUME Elaborated, NEW p \in Places, marks[p] # NoMark
                 PROVE  marks[p].decl \in env.has
      OBVIOUS
    <2>1. Claim(p) \in Rows(Full)
      BY <1>3
    <2> QED
      BY <2>1 DEF Elaborated, Claim
  <1> QED
    BY <1>1, <1>2, <1>3, <1>4 DEF BindingsAreTheMap

(* A run of `xtask core` that passes while nobody edits certifies that the       *)
(* markers and the vendored obligations correspond one to one, that the        *)
(* generated bindings are their map and, unless it was told not to ask, that   *)
(* the compiled environment has every marked declaration.                     *)
THEOREM QuietPass == Spec => []QuietPassIsSound
  <1>1. TypeOK /\ QuietInv /\ [Next]_vars => (TypeOK /\ QuietInv)'
    BY NextTypes, NextQuiet
  <1> QED
    BY InitTypes, InitQuiet, <1>1, QuietInvCertifies, PTL DEF Spec

--------------------------------------------------------------------------------
(* What the report of an answered probe leaves out. *)

LEMMA KindOfClaims ==
    ASSUME NEW k \in Kinds, NEW c \in Coverage(k).claimed
    PROVE  KindOf[c.item] = k
  BY DEF Coverage, Claim

LEMMA ProbeReports ==
    ASSUME TypeOK, report = Full, Probe, pc' = "conclude",
           NEW c \in Rows(report'), c.decl \notin env.has
    PROVE  c \in report'[KindOf[c.item]].unelaborated
  <1> DEFINE names == {d.decl : d \in Rows(report)}
             bad   == Blamed(names, env.has)
  <1>1. report' = [k \in Kinds |-> [report[k] EXCEPT !.unelaborated =
                                        {d \in report[k].claimed : d.decl \in bad}]]
    BY DEF Probe, Stop
  <1>2. PICK k \in Kinds : c \in report'[k].claimed
    BY DEF Rows
  <1>3. report[k] \in Reports
    BY DEF TypeOK
  <1>4. /\ report'[k].claimed = report[k].claimed
        /\ report'[k].unelaborated = {d \in report[k].claimed : d.decl \in bad}
    <2> HIDE DEF bad
    <2> QED
      BY <1>1, <1>3 DEF Reports
  <1>5. c \in report[k].claimed
    BY <1>2, <1>4
  <1>6. KindOf[c.item] = k
    BY <1>5, KindOfClaims DEF Full
  <1>7. names \in SUBSET Names
    <2>1. Rows(report) \subseteq Claims
      BY RowsAreClaims DEF TypeOK
    <2> QED
      BY <2>1 DEF Claims
  <1>8. c.decl \in bad
    <2>1. c.decl \in names \ env.has
      BY <1>5 DEF Rows
    <2> HIDE DEF names
    <2> QED
      BY <2>1, <1>7, NothingBlamed
  <1> QED
    BY <1>4, <1>5, <1>6, <1>8

LEMMA InitReported == Init => EveryAbsentNameIsReported
  BY DEF Init, EveryAbsentNameIsReported

LEMMA NextReported ==
    TypeOK /\ QuietInv /\ EveryAbsentNameIsReported /\ [Next]_vars
        => EveryAbsentNameIsReported'
  <1> SUFFICES ASSUME TypeOK, QuietInv, EveryAbsentNameIsReported, [Next]_vars,
                      pc' = "conclude", ~opts'.sourceOnly, quiet',
                      NEW c \in Rows(report'), c.decl \notin env'.has
               PROVE  c \in report'[KindOf[c.item]].unelaborated
    BY DEF EveryAbsentNameIsReported, Rows
  <1>1. CASE Probe
    <2>1. report = Full /\ env' = env
      BY <1>1 DEF Probe, QuietInv, AtProbe
    <2> QED
      BY <1>1, <2>1, ProbeReports
  <1>2. CASE UNCHANGED vars
    BY <1>2 DEF vars, EveryAbsentNameIsReported, Rows
  <1>3. ~(EditMark \/ ChangePin \/ EditBindings \/ Build)
    BY DEF EditMark, ChangePin, EditBindings, Build, Disturb
  <1>4. ~FirstReport /\ ~SecondReport
    BY DEF FirstReport, SecondReport, ReadPart, Stop
  <1>5. ~Judge /\ ~Generate /\ ~Compare /\ ~Conclude /\ ~Abort
    BY DEF Judge, Generate, Compare, Conclude, Abort, Stop
  <1>6. ~ \E o \in Options : Start(o)
    BY DEF Start
  <1> QED
    BY <1>1, <1>2, <1>3, <1>4, <1>5, <1>6 DEF Next

(* A quiet run whose probe was answered has every claimed declaration that the   *)
(* environment does not have among the unelaborated ones of its own kind: the  *)
(* substring search may blame more names, never fewer.                         *)
THEOREM AbsentNamesReported == Spec => []EveryAbsentNameIsReported
  <1>1. TypeOK /\ QuietInv /\ [Next]_vars => (TypeOK /\ QuietInv)'
    BY NextTypes, NextQuiet
  <1> QED
    BY InitTypes, InitQuiet, InitReported, NextReported, <1>1, PTL DEF Spec

--------------------------------------------------------------------------------
(* What can fail on a settled tree. *)

SomeAbsent == \E p \in Places : marks[p] # NoMark /\ marks[p].decl \notin env.has

(* The tree stays as the generator left it, and a quiet run over it can only    *)
(* meet an absent declaration.                                               *)
SettledTree == settled => Certified /\ bindings = Holding(Rows(Full))

SettledRun ==
    settled /\ quiet =>
        /\ pc \in {"second", "probe", "conclude"} => matches
        /\ pc = "conclude" => Complete(report) /\ (IsOk(report) \/ SomeAbsent)
        /\ exit = "fail" => SomeAbsent

SettledInv == SettledTree /\ SettledRun

(* The probe adds faults of one sort only, and only for an absent declaration.  *)
LEMMA ProbeOnlyBlames ==
    ASSUME TypeOK, Certified, report = Full, Probe, pc' = "conclude"
    PROVE  Complete(report') /\ (IsOk(report') \/ SomeAbsent)
  <1> DEFINE names == {d.decl : d \in Rows(report)}
             bad   == Blamed(names, env.has)
  <1>1. report' = [k \in Kinds |-> [report[k] EXCEPT !.unelaborated =
                                        {d \in report[k].claimed : d.decl \in bad}]]
    BY DEF Probe, Stop
  <1>2. ASSUME NEW k \in Kinds
        PROVE  /\ report'[k].required = report[k].required
               /\ report'[k].claimed = report[k].claimed
               /\ report'[k].unattached = report[k].unattached
               /\ report'[k].unelaborated = {d \in report[k].claimed : d.decl \in bad}
    <2>1. report[k] \in Reports
      BY DEF TypeOK
    <2> HIDE DEF bad
    <2> QED
      BY <1>1, <2>1 DEF Reports
  <1>3. Complete(report')
    BY <1>2 DEF Certified, Complete, Missing
  <1>4. SUFFICES ASSUME ~IsOk(report') PROVE SomeAbsent
    BY <1>3
  <1>5. PICK k \in Kinds : report'[k].unelaborated # {}
    BY <1>2, <1>4 DEF Certified, IsOk, Unknown
  <1>6. bad # {}
    <2> HIDE DEF bad
    <2> QED
      BY <1>2, <1>5
  <1>7. PICK m \in names \ env.has : TRUE
    <2> HIDE DEF names
    <2> QED
      BY <1>6 DEF Blamed
  <1>8. PICK c \in Rows(Full) : c.decl = m
    BY <1>7
  <1>9. PICK p \in Places : marks[p] # NoMark /\ c = Claim(p)
    BY <1>8, CertifiedMap
  <1> QED
    BY <1>7, <1>8, <1>9 DEF SomeAbsent, Claim

LEMMA InitSettled == Init => SettledInv
  BY DEF Init, SettledInv, SettledTree, SettledRun

LEMMA NextSettledTree ==
    TypeOK /\ QuietInv /\ SettledTree /\ [Next]_vars => SettledTree'
  <1> SUFFICES ASSUME TypeOK, QuietInv, SettledTree, [Next]_vars, settled'
               PROVE  (Certified /\ bindings = Holding(Rows(Full)))'
    BY DEF SettledTree
  <1>1. CASE Generate
    <2>1. /\ UNCHANGED files /\ Certified /\ bindings' = Holding(Rows(Full))
      BY <1>1 DEF Generate, QuietInv, AtWrite
    <2> QED
      BY <2>1, SameTree DEF Holding
  <1>2. CASE ~Generate
    <2>1. UNCHANGED files /\ bindings' = bindings /\ settled
      BY <1>2 DEF Next, EditMark, ChangePin, EditBindings, Build, Start, FirstReport, Judge,
                  Compare, SecondReport, ReadPart, Probe, Conclude, Abort, vars, files
    <2>2. Certified /\ bindings = Holding(Rows(Full))
      BY <2>1 DEF SettledTree
    <2> QED
      BY <2>1, <2>2, SameTree DEF Holding
  <1> QED
    BY <1>1, <1>2

LEMMA NextSettledRun ==
    TypeOK /\ QuietInv /\ SettledInv /\ [Next]_vars => SettledRun'
  <1> SUFFICES ASSUME TypeOK, QuietInv, SettledInv, [Next]_vars, settled', quiet'
               PROVE  SettledRun'
    BY DEF SettledRun
  <1> USE DEF SettledInv, SettledRun
  <1>1. CASE EditMark \/ ChangePin \/ EditBindings \/ Build
    BY <1>1 DEF EditMark, ChangePin, EditBindings, Build, Disturb
  <1>2. ASSUME NEW o \in Options, Start(o) PROVE SettledRun'
    BY <1>2 DEF Start
  <1>3. CASE FirstReport
    BY <1>3 DEF FirstReport, ReadPart, Stop, TypeOK
  <1>4. CASE Judge
    <2>1. report = Full /\ Certified
      BY <1>4 DEF Judge, QuietInv, AtJudge, SettledTree
    <2>2. IsOk(report) /\ Complete(report)
      BY <2>1 DEF Certified
    <2>3. exit' # "fail" /\ pc' \notin {"second", "probe", "conclude"}
      BY <1>4, <2>2 DEF Judge, Stop, TypeOK
    <2> QED
      BY <2>3
  <1>5. CASE Generate
    BY <1>5 DEF Generate, Stop
  <1>6. CASE Compare
    <2>1. /\ Certified /\ bindings = Holding(Rows(Full)) /\ report = Full
          /\ expected = Rows(Full) /\ report' = report
      BY <1>6 DEF Compare, QuietInv, AtCompare, SettledTree
    <2>2. bindings.exists /\ bindings.rows = expected
      BY <2>1 DEF Holding
    <2>3. matches' /\ exit' # "fail"
      BY <1>6, <2>2 DEF Compare, Stop, TypeOK
    <2>4. (IsOk(report) /\ Complete(report))'
      BY <2>1 DEF Certified, IsOk, Complete, Unknown, Missing
    <2> QED
      BY <2>3, <2>4
  <1>7. CASE SecondReport
    BY <1>7 DEF SecondReport, ReadPart, Stop, TypeOK
  <1>8. CASE Probe
    <2>1. /\ pc = "probe" /\ matches' = matches /\ matches /\ report = Full /\ Certified
          /\ UNCHANGED files /\ env' = env
          /\ pc' \in {"conclude", "done"} /\ exit' # "fail"
      BY <1>8 DEF Probe, Stop, QuietInv, AtProbe, SettledTree, TypeOK
    <2>2. pc' = "conclude" => Complete(report') /\ (IsOk(report') \/ SomeAbsent)
      BY <1>8, <2>1, ProbeOnlyBlames
    <2>3. SomeAbsent' <=> SomeAbsent
      BY <2>1 DEF SomeAbsent, files
    <2>4. (Complete(report)' <=> Complete(report')) /\ (IsOk(report)' <=> IsOk(report'))
      BY DEF Complete, IsOk, Missing, Unknown
    <2> QED
      BY <2>1, <2>2, <2>3, <2>4
  <1>9. CASE Conclude
    <2>1. /\ pc = "conclude" /\ matches /\ Complete(report) /\ (IsOk(report) \/ SomeAbsent)
          /\ pc' = "done" /\ (exit' = "fail" => ~IsOk(report))
          /\ UNCHANGED files /\ env' = env
      BY <1>9 DEF Conclude, Stop
    <2>2. SomeAbsent' <=> SomeAbsent
      BY <2>1 DEF SomeAbsent, files
    <2> QED
      BY <2>1, <2>2
  <1>10. CASE Abort
    BY <1>10 DEF Abort, Stop
  <1>11. CASE UNCHANGED vars
    BY <1>11 DEF vars, SomeAbsent, Complete, IsOk, Missing, Unknown
  <1> QED
    BY <1>1, <1>2, <1>3, <1>4, <1>5, <1>6, <1>7, <1>8, <1>9, <1>10, <1>11 DEF Next

(* After an undisturbed `core --generate`, and until a file changes, a quiet run *)
(* with whatever options fails for one reason only: a marked declaration is    *)
(* not in the compiled environment.                                          *)
THEOREM SettledFails == Spec => []SettledFailsOnEnvironmentOnly
  <1>1. TypeOK /\ QuietInv /\ [Next]_vars => (TypeOK /\ QuietInv)'
    BY NextTypes, NextQuiet
  <1>2. TypeOK /\ QuietInv /\ SettledInv /\ [Next]_vars => SettledInv'
    BY NextSettledTree, NextSettledRun DEF SettledInv
  <1>3. SettledInv => SettledFailsOnEnvironmentOnly
    BY DEF SettledInv, SettledRun, SettledFailsOnEnvironmentOnly, SomeAbsent
  <1> QED
    BY InitTypes, InitQuiet, InitSettled, <1>1, <1>2, <1>3, PTL DEF Spec

================================================================================
