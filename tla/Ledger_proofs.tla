----------------------------- MODULE Ledger_proofs -----------------------------
(****************************************************************************)
(* Proofs about Ledger, for lists of any length and any binding file: types,  *)
(* the headline arithmetic, that a credited name has earned its credit, and   *)
(* that the separate signature audit, when it passes, backs the report; and   *)
(* about Independence, whose findings the second demotion applies: for tables  *)
(* and environments of any size, that the audit blames the right entries.     *)
(****************************************************************************)
EXTENDS Ledger, Independence, FiniteSetTheorems, SequenceTheorems, WellFoundedInduction, TLAPS

USE LedgerAssumption

(* What each read adds, on top of the type invariant. *)
Probed  == pc \in {"bindings", "independence", "in_house", "rendered", "reported"}
Signed  == pc \in {"independence", "in_house", "rendered", "reported"}
Audited == pc \in {"in_house", "rendered", "reported"}

(* Until the binding file is read nothing has been demoted; afterwards every  *)
(* name that a rule applied so far rejects is among the missing names.        *)
LedgerInv ==
    /\ TypeOK
    /\ Probed => report.credited =
                    {p \in Positions : /\ Closure(lines[p], env) # "silent"
                                       /\ ~ChoiceTainted(lines[p], env)}
    /\ Probed => Positions \ report.credited \subseteq report.missing
    /\ pc = "bindings" => /\ report.missing = Positions \ report.credited
                          /\ report.discharged = Cardinality(report.credited)
    /\ Signed => \A p \in report.credited :
                    lines[p] \notin ExactNames(bindings)
                        => lines[p] \in NamesAt(report.missing, lines)
    /\ Audited => \A p \in report.credited :
                    lines[p] \in rejected
                        => lines[p] \in NamesAt(report.missing, lines)
    /\ Accounting

--------------------------------------------------------------------------------
(* Lemmas about the rules. *)

(* The positions are finite, and so is every set of them; their number is N.  *)
LEMMA PositionSets ==
    ASSUME NEW S \in SUBSET Positions
    PROVE  /\ IsFiniteSet(S)
           /\ Cardinality(S) \in 0 .. N
           /\ Cardinality(Positions) = N
<1>1. /\ IsFiniteSet(Positions)
      /\ Cardinality(Positions) = N
  BY FS_Interval DEF Positions
<1>2. /\ IsFiniteSet(S)
      /\ Cardinality(S) <= Cardinality(Positions)
  BY <1>1, FS_Subset
<1>3. Cardinality(S) \in Nat
  BY <1>2, FS_CardinalityType
<1> QED
  BY <1>1, <1>2, <1>3

(* A set of positions and its complement make N.                             *)
LEMMA ComplementCounts ==
    ASSUME NEW S \in SUBSET Positions
    PROVE  Cardinality(S) + Cardinality(Positions \ S) = N
<1>1. /\ IsFiniteSet(Positions)
      /\ Cardinality(Positions) = N
      /\ IsFiniteSet(S)
      /\ Cardinality(S) \in 0 .. N
  BY PositionSets
<1>2. Cardinality(Positions \ S) = Cardinality(Positions) - Cardinality(Positions \cap S)
  BY <1>1, FS_Difference
<1>3. Positions \cap S = S
  OBVIOUS
<1> QED
  BY <1>1, <1>2, <1>3

(* Moving a set S of positions that are not missing onto `missing` keeps the  *)
(* sum of the two headline numbers, and the subtraction does not saturate.    *)
LEMMA DemotionCounts ==
    ASSUME NEW M \in SUBSET Positions, NEW S \in SUBSET Positions,
           NEW d \in 0 .. N, d + Cardinality(M) = N, S \cap M = {}
    PROVE  Monus(d, Cardinality(S)) + Cardinality(M \cup S) = N
<1>1. /\ IsFiniteSet(S) /\ IsFiniteSet(M)
      /\ Cardinality(S) \in 0 .. N
      /\ Cardinality(M) \in 0 .. N
      /\ Cardinality(M \cup S) \in 0 .. N
  BY PositionSets
<1>2. Cardinality(M \cup S)
        = Cardinality(M) + Cardinality(S) - Cardinality(M \cap S)
  BY <1>1, FS_Union
<1>3. Cardinality(M \cap S) = 0
  BY FS_EmptySet
<1> QED
  BY <1>1, <1>2, <1>3 DEF Monus

(* Subtraction at zero stays inside the range of the count.                  *)
LEMMA MonusRange ==
    ASSUME NEW d \in 0 .. N, NEW k \in Nat
    PROVE  Monus(d, k) \in 0 .. N
  BY DEF Monus

(* A nonempty set of natural numbers has a least element.                    *)
LEMMA LeastElement ==
    ASSUME NEW T \in SUBSET Nat, T # {}
    PROVE  \E x \in T : \A y \in T : x <= y
<1> DEFINE Less == OpToRel(<, Nat)
<1>1. IsWellFoundedOn(Less, Nat)
  BY NatLessThanWellFounded
<1>2. \A x, y \in Nat : x < y => <<x, y>> \in Less
  BY DEF OpToRel
<1> HIDE DEF Less
<1>3. \E x \in T : \A y \in T : ~ (<<y, x>> \in Less)
  BY <1>1, WFMin, Zenon
<1>4. PICK x \in T : \A y \in T : ~ (<<y, x>> \in Less)
  BY <1>3, Zenon
<1>5. \A y \in T : ~ (y < x)
  BY <1>2, <1>4, Zenon
<1>6. \A y \in T : x <= y
  BY <1>5
<1> QED
  BY <1>6

(* Every name of S is missing once S has been pushed: the first line that      *)
(* brings the name is pushed, unless the name was missing already.           *)
LEMMA PushedNames ==
    ASSUME NEW S \in SUBSET Positions, NEW r \in Reports,
           NEW l \in [Positions -> Names], NEW p \in S
    PROVE  l[p] \in NamesAt(r.missing \cup Pushed(S, r, l), l)
<1>1. CASE l[p] \in NamesAt(r.missing, l)
  BY <1>1 DEF NamesAt
<1>2. CASE l[p] \notin NamesAt(r.missing, l)
  <2> DEFINE Same == {q \in S : l[q] = l[p]}
  <2>1. Same \in SUBSET Nat /\ Same # {}
    <3>1. Same \subseteq Positions
      OBVIOUS
    <3>2. Positions \subseteq Nat
      BY SMT DEF Positions
    <3>3. p \in Same
      OBVIOUS
    <3> QED
      BY <3>1, <3>2, <3>3
  <2>2. PICK q \in Same : \A x \in Same : q <= x
    BY <2>1, LeastElement
  <2>3. q \in Pushed(S, r, l)
    BY <1>2, <2>2 DEF Pushed
  <2> QED
    BY <2>2, <2>3 DEF NamesAt
<1> QED
  BY <1>1, <1>2

(* In a list without repeats everything that is not missing is pushed.        *)
LEMMA PushedAll ==
    ASSUME NEW l \in [Positions -> Names],
           \A p, q \in Positions : l[p] = l[q] => p = q,
           NEW r \in Reports, NEW S \in SUBSET Positions
    PROVE  Pushed(S, r, l) = S \ r.missing
<1>1. \A p \in S : l[p] \in NamesAt(r.missing, l) <=> p \in r.missing
  BY DEF NamesAt, Reports
<1>2. \A p \in S : \A q \in S : l[q] = l[p] => p <= q
  BY DEF Positions
<1> QED
  BY <1>1, <1>2 DEF Pushed

--------------------------------------------------------------------------------
(* The in-house figure never exceeds the number of bindings.                 *)
LEMMA InHouseRange ==
    ASSUME NEW r \in Reports, NEW l \in [Positions -> Names], NEW b \in BindingFiles
    PROVE  InHouse(r, l, b) \in 0 .. MaxBindings
<1> DEFINE Counted == {i \in DOMAIN b : /\ b[i].name \notin NamesAt(r.missing, l)
                                        /\ b[i].name \notin Fenced}
<1>1. PICK k \in 0 .. MaxBindings : b \in [1 .. k -> Forms]
  BY Zenon DEF BindingFiles
<1>2. /\ IsFiniteSet(1 .. k)
      /\ Cardinality(1 .. k) = k
  BY <1>1, FS_Interval
<1>3. Counted \subseteq 1 .. k
  BY <1>1
<1> HIDE DEF Counted
<1>4. /\ IsFiniteSet(Counted)
      /\ Cardinality(Counted) <= k
  BY <1>2, <1>3, FS_Subset
<1>5. Cardinality(Counted) \in 0 .. MaxBindings
  BY <1>1, <1>4, FS_CardinalityType
<1> QED
  BY <1>5 DEF InHouse, Counted

(* Each rule returns a report.                                               *)
LEMMA RulesReturnReports ==
    ASSUME NEW l \in [Positions -> Names], NEW e \in Environments, NEW r \in Reports
    PROVE  /\ Classify(l, e) \in Reports
           /\ \A exact : ApplySignatures(r, l, exact) \in Reports
           /\ \A rej : ApplyIndependence(r, l, rej) \in Reports
<1>1. Classify(l, e) \in Reports
  <2> DEFINE absent   == {p \in Positions : Closure(l[p], e) = "silent"}
             tainted  == {p \in Positions : ChoiceTainted(l[p], e)}
             credited == Positions \ (absent \cup tainted)
  <2>1. Cardinality(credited) \in 0 .. N
    BY PositionSets
  <2>2. absent \in SUBSET Positions /\ tainted \in SUBSET Positions
    OBVIOUS
  <2> QED
    BY <2>1, <2>2 DEF Classify, Reports
<1>2. ASSUME NEW exact PROVE ApplySignatures(r, l, exact) \in Reports
  <2> DEFINE unsigned == {p \in r.credited : l[p] \notin exact}
  <2>1. unsigned \in SUBSET Positions /\ Pushed(unsigned, r, l) \in SUBSET Positions
    BY DEF Reports, Pushed
  <2>2. Monus(r.discharged, Cardinality(unsigned)) \in 0 .. N
    <3>1. Cardinality(unsigned) \in 0 .. N
      BY <2>1, PositionSets
    <3> QED
      BY <3>1, MonusRange DEF Reports
  <2> QED
    BY <2>1, <2>2 DEF ApplySignatures, Reports
<1>3. ASSUME NEW rej PROVE ApplyIndependence(r, l, rej) \in Reports
  <2> DEFINE circular == {p \in r.credited : l[p] \in rej}
             demoted  == Pushed(circular, r, l)
  <2>1. circular \in SUBSET Positions /\ demoted \in SUBSET Positions
    BY DEF Reports, Pushed
  <2>2. Monus(r.discharged, Cardinality(demoted)) \in 0 .. N
    <3>1. Cardinality(demoted) \in 0 .. N
      BY <2>1, PositionSets
    <3> QED
      BY <3>1, MonusRange DEF Reports
  <2> QED
    BY <2>1, <2>2 DEF ApplyIndependence, Reports
<1> QED
  BY <1>1, <1>2, <1>3

(* What classification leaves: credited and missing positions are each        *)
(* other's complement, and the count is that of the credited ones.           *)
LEMMA ClassifySplits ==
    ASSUME NEW l \in [Positions -> Names], NEW e \in Environments
    PROVE  LET r == Classify(l, e)
           IN  /\ r.credited = {p \in Positions : /\ Closure(l[p], e) # "silent"
                                                  /\ ~ChoiceTainted(l[p], e)}
               /\ r.missing = Positions \ r.credited
               /\ r.discharged = Cardinality(r.credited)
               /\ r.discharged + Cardinality(r.missing) = N
<1> DEFINE r == Classify(l, e)
<1>1. /\ r.credited = {p \in Positions : /\ Closure(l[p], e) # "silent"
                                         /\ ~ChoiceTainted(l[p], e)}
      /\ r.missing = Positions \ r.credited
      /\ r.discharged = Cardinality(r.credited)
      /\ r.credited \in SUBSET Positions
  BY DEF Classify
<1>2. Cardinality(r.credited) + Cardinality(Positions \ r.credited) = N
  BY <1>1, ComplementCounts
<1> HIDE DEF r
<1>3. r.discharged + Cardinality(r.missing) = N
  BY <1>1, <1>2
<1> QED
  BY <1>1, <1>3 DEF r

(* The signature rule: every unsigned credited name is missing afterwards,     *)
(* and in a list without repeats the headline numbers still add up.           *)
LEMMA SignaturesDemote ==
    ASSUME NEW l \in [Positions -> Names], NEW r \in Reports, NEW exact
    PROVE  LET s == ApplySignatures(r, l, exact)
           IN  /\ s.credited = r.credited
               /\ r.missing \subseteq s.missing
               /\ \A p \in r.credited : l[p] \notin exact => l[p] \in NamesAt(s.missing, l)
               /\ (/\ \A p, q \in Positions : l[p] = l[q] => p = q
                   /\ r.missing = Positions \ r.credited
                   /\ r.discharged + Cardinality(r.missing) = N)
                  => s.discharged + Cardinality(s.missing) = N
<1> DEFINE unsigned == {p \in r.credited : l[p] \notin exact}
           s == ApplySignatures(r, l, exact)
<1>1. /\ s.credited = r.credited
      /\ s.missing = r.missing \cup Pushed(unsigned, r, l)
      /\ s.discharged = Monus(r.discharged, Cardinality(unsigned))
  BY DEF ApplySignatures, Reports
<1>2. unsigned \in SUBSET Positions
  BY DEF Reports
<1>3. \A p \in unsigned : l[p] \in NamesAt(s.missing, l)
  BY <1>1, <1>2, PushedNames
<1>4. ASSUME \A p, q \in Positions : l[p] = l[q] => p = q,
             r.missing = Positions \ r.credited,
             r.discharged + Cardinality(r.missing) = N
      PROVE  s.discharged + Cardinality(s.missing) = N
  <2>1. Pushed(unsigned, r, l) = unsigned
    <3>1. Pushed(unsigned, r, l) = unsigned \ r.missing
      BY <1>2, <1>4, PushedAll
    <3> QED
      BY <1>4, <3>1
  <2>2. unsigned \cap r.missing = {}
    BY <1>4
  <2>3. r.discharged \in 0 .. N /\ r.missing \in SUBSET Positions
    BY DEF Reports
  <2> HIDE DEF unsigned
  <2> QED
    BY <1>1, <1>2, <1>4, <2>1, <2>2, <2>3, DemotionCounts
<1> QED
  BY <1>1, <1>3, <1>4

(* The independence rule, likewise; here nothing is asked of what is missing. *)
LEMMA IndependenceDemotes ==
    ASSUME NEW l \in [Positions -> Names], NEW r \in Reports, NEW rej
    PROVE  LET s == ApplyIndependence(r, l, rej)
           IN  /\ s.credited = r.credited
               /\ r.missing \subseteq s.missing
               /\ \A p \in r.credited : l[p] \in rej => l[p] \in NamesAt(s.missing, l)
               /\ r.discharged + Cardinality(r.missing) = N
                  => s.discharged + Cardinality(s.missing) = N
<1> DEFINE circular == {p \in r.credited : l[p] \in rej}
           demoted  == Pushed(circular, r, l)
           s == ApplyIndependence(r, l, rej)
<1>1. /\ s.credited = r.credited
      /\ s.missing = r.missing \cup demoted
      /\ s.discharged = Monus(r.discharged, Cardinality(demoted))
  BY DEF ApplyIndependence, Reports
<1>2. circular \in SUBSET Positions
  BY DEF Reports
<1>3. \A p \in circular : l[p] \in NamesAt(s.missing, l)
  BY <1>1, <1>2, PushedNames
<1>4. ASSUME r.discharged + Cardinality(r.missing) = N
      PROVE  s.discharged + Cardinality(s.missing) = N
  <2>1. demoted \in SUBSET Positions /\ demoted \cap r.missing = {}
    BY <1>2 DEF Pushed, NamesAt
  <2>2. r.discharged \in 0 .. N /\ r.missing \in SUBSET Positions
    BY DEF Reports
  <2> HIDE DEF demoted
  <2> QED
    BY <1>1, <1>4, <2>1, <2>2, DemotionCounts
<1> QED
  BY <1>1, <1>3, <1>4

--------------------------------------------------------------------------------
(* The invariant. *)

LEMMA LedgerInit == Init => LedgerInv
<1> SUFFICES ASSUME Init PROVE LedgerInv
  OBVIOUS
<1>1. bindings \in BindingFiles
  <2>1. bindings \in [1 .. 0 -> Forms]
    BY DEF Init
  <2> QED
    BY <2>1 DEF BindingFiles
<1>2. env \in Environments
  <2>1. [n \in Names |-> "silent"] \in [Names -> Verdicts]
    BY DEF Verdicts
  <2>2. [k \in Leaves |-> "silent"] \in [Leaves -> Verdicts]
    BY DEF Verdicts
  <2> QED
    BY <2>1, <2>2 DEF Init, Environments
<1>3. report \in Reports
  BY DEF Init, NoReport, Reports
<1> QED
  BY <1>1, <1>2, <1>3 DEF Init, LedgerInv, TypeOK, Probed, Signed, Audited, Accounting

LEMMA ProbeStep == LedgerInv /\ ProbeEnvironment => LedgerInv'
<1> SUFFICES ASSUME LedgerInv, ProbeEnvironment PROVE LedgerInv'
  OBVIOUS
<1>1. TypeOK'
  <2>1. report' \in Reports
    BY RulesReturnReports DEF LedgerInv, TypeOK, ProbeEnvironment
  <2> QED
    BY <2>1 DEF LedgerInv, TypeOK, ProbeEnvironment
<1>2. /\ report'.credited = {p \in Positions : /\ Closure(lines[p], env') # "silent"
                                              /\ ~ChoiceTainted(lines[p], env')}
      /\ report'.missing = Positions \ report'.credited
      /\ report'.discharged = Cardinality(report'.credited)
      /\ report'.discharged + Cardinality(report'.missing) = N
  BY ClassifySplits DEF LedgerInv, TypeOK, ProbeEnvironment
<1>3. lines' = lines /\ pc' = "bindings"
  BY DEF ProbeEnvironment
<1>4. Accounting'
  BY <1>2 DEF Accounting
<1> QED
  BY <1>1, <1>2, <1>3, <1>4 DEF LedgerInv, Probed, Signed, Audited

LEMMA ReadBindingsStep == LedgerInv /\ ReadBindings => LedgerInv'
<1> SUFFICES ASSUME LedgerInv, ReadBindings PROVE LedgerInv'
  OBVIOUS
<1>1. /\ pc = "bindings" /\ pc' = "independence"
      /\ lines' = lines /\ env' = env
      /\ lines \in [Positions -> Names] /\ env \in Environments /\ report \in Reports
      /\ report' = ApplySignatures(report, lines, ExactNames(bindings'))
  BY DEF LedgerInv, TypeOK, ReadBindings
<1>2. TypeOK'
  <2>1. report' \in Reports
    BY <1>1, RulesReturnReports
  <2> QED
    BY <1>1, <2>1 DEF LedgerInv, TypeOK, ReadBindings
<1>3. /\ report'.credited = report.credited
      /\ report.missing \subseteq report'.missing
      /\ \A p \in report.credited : lines[p] \notin ExactNames(bindings')
                => lines[p] \in NamesAt(report'.missing, lines)
  BY <1>1, SignaturesDemote
<1>4. Accounting'
  <2>1. SUFFICES ASSUME Unrepeated
                 PROVE  report'.discharged + Cardinality(report'.missing) = N
    BY <1>1 DEF Accounting, Unrepeated
  <2>2. report.missing = Positions \ report.credited
    BY <1>1 DEF LedgerInv
  <2>3. report.discharged + Cardinality(report.missing) = N
    BY <1>1, <2>1 DEF LedgerInv, Accounting
  <2> QED
    BY <1>1, <2>1, <2>2, <2>3, SignaturesDemote DEF Unrepeated
<1> QED
  BY <1>1, <1>2, <1>3, <1>4 DEF LedgerInv, Probed, Signed, Audited

LEMMA AuditStep == LedgerInv /\ AuditIndependence => LedgerInv'
<1> SUFFICES ASSUME LedgerInv, AuditIndependence PROVE LedgerInv'
  OBVIOUS
<1>1. /\ pc = "independence" /\ pc' = "in_house"
      /\ lines' = lines /\ env' = env /\ bindings' = bindings
      /\ lines \in [Positions -> Names] /\ report \in Reports /\ env \in Environments
      /\ report' = ApplyIndependence(report, lines, rejected')
  BY DEF LedgerInv, TypeOK, AuditIndependence
<1>2. TypeOK'
  <2>1. report' \in Reports
    BY <1>1, RulesReturnReports
  <2> QED
    BY <1>1, <2>1 DEF LedgerInv, TypeOK, AuditIndependence
<1>3. /\ report'.credited = report.credited
      /\ report.missing \subseteq report'.missing
      /\ \A p \in report.credited : lines[p] \in rejected'
                => lines[p] \in NamesAt(report'.missing, lines)
      /\ report.discharged + Cardinality(report.missing) = N
            => report'.discharged + Cardinality(report'.missing) = N
  BY <1>1, IndependenceDemotes
<1>4. Accounting'
  BY <1>1, <1>3 DEF LedgerInv, Accounting, Unrepeated
<1>5. \A p \in report.credited : lines[p] \notin ExactNames(bindings)
                => lines[p] \in NamesAt(report'.missing, lines)
  BY <1>1, <1>3 DEF LedgerInv, Signed, NamesAt
<1> QED
  BY <1>1, <1>2, <1>3, <1>4, <1>5 DEF LedgerInv, Probed, Signed, Audited

LEMMA CountStep == LedgerInv /\ CountInHouse => LedgerInv'
<1> SUFFICES ASSUME LedgerInv, CountInHouse PROVE LedgerInv'
  OBVIOUS
<1>1. InHouse(report, lines, bindings) \in 0 .. MaxBindings
  BY InHouseRange DEF LedgerInv, TypeOK
<1>2. /\ report' \in Reports
      /\ report'.missing = report.missing
      /\ report'.credited = report.credited
      /\ report'.discharged = report.discharged
  BY <1>1 DEF LedgerInv, TypeOK, CountInHouse, Reports
<1>3. /\ pc = "in_house" /\ pc' = "rendered"
      /\ UNCHANGED <<lines, env, bindings, rejected, exit, signature>>
  BY DEF CountInHouse
<1> QED
  BY <1>2, <1>3 DEF LedgerInv, TypeOK, Probed, Signed, Audited, Accounting, Unrepeated

LEMMA LedgerNext == LedgerInv /\ [Next]_vars => LedgerInv'
<1> SUFFICES ASSUME LedgerInv, [Next]_vars PROVE LedgerInv'
  OBVIOUS
<1>1. CASE ProbeEnvironment
  BY <1>1, ProbeStep
<1>2. CASE ReadBindings
  BY <1>2, ReadBindingsStep
<1>3. CASE AuditIndependence
  BY <1>3, AuditStep
<1>4. CASE CountInHouse
  BY <1>4, CountStep
<1>5. CASE Abort
  BY <1>5 DEF LedgerInv, TypeOK, Abort, Probed, Signed, Audited, Accounting
<1>6. ASSUME NEW check \in BOOLEAN, Conclude(check) PROVE LedgerInv'
  <2>1. exit' \in {"pass", "fail"}
    BY <1>6 DEF Conclude
  <2> QED
    BY <1>6, <2>1 DEF LedgerInv, TypeOK, Conclude, Probed, Signed, Audited, Accounting, Unrepeated
<1>7. CASE RunSignature
  <2>1. signature' \in {"pass", "fail", "error"}
    BY <1>7 DEF RunSignature, SignatureVerdict
  <2> QED
    BY <1>7, <2>1 DEF LedgerInv, TypeOK, RunSignature, Probed, Signed, Audited, Accounting, Unrepeated
<1>8. CASE UNCHANGED vars
  BY <1>8 DEF LedgerInv, TypeOK, vars, Probed, Signed, Audited, Accounting, Unrepeated
<1> QED
  BY <1>1, <1>2, <1>3, <1>4, <1>5, <1>6, <1>7, <1>8 DEF Next

--------------------------------------------------------------------------------
(* Every variable keeps its type: in particular `discharged` never leaves     *)
(* 0..N, for lists with repeats too.                                         *)
THEOREM LedgerTypes == Spec => []TypeOK
<1>1. LedgerInv => TypeOK
  BY DEF LedgerInv
<1> QED
  BY <1>1, LedgerInit, LedgerNext, PTL DEF Spec

(* The headline arithmetic, for every list without repeats, every answer of    *)
(* the compiled environment and every binding file: discharged + |missing| = N. *)
THEOREM HeadlineAddsUp == Spec => []Accounting
<1>1. LedgerInv => Accounting
  BY DEF LedgerInv
<1> QED
  BY <1>1, LedgerInit, LedgerNext, PTL DEF Spec

LEMMA LedgerEarnsCredit == LedgerInv => CreditIsEarned
<1> SUFFICES ASSUME LedgerInv, Rendered, NEW p \in Positions,
                    lines[p] \notin NamesAt(report.missing, lines)
             PROVE  /\ Closure(lines[p], env) # "silent"
                    /\ ~ChoiceTainted(lines[p], env)
                    /\ \E i \in DOMAIN bindings :
                           bindings[i].name = lines[p] /\ bindings[i].kind = "exact"
                    /\ lines[p] \notin rejected
  BY DEF CreditIsEarned
<1>1. Probed /\ Signed /\ Audited
  BY DEF Rendered, Probed, Signed, Audited
<1>2. p \notin report.missing
  BY DEF NamesAt
<1>3. p \in report.credited
  BY <1>1, <1>2 DEF LedgerInv
<1>4. lines[p] \in ExactNames(bindings) /\ lines[p] \notin rejected
  BY <1>1, <1>3 DEF LedgerInv
<1> QED
  BY <1>1, <1>3, <1>4 DEF LedgerInv, ExactNames

(* A name that is not missing is present, not choice-tainted, exactly bound    *)
(* and not circular, for every list, repeats included.                       *)
THEOREM CreditEarned == Spec => []CreditIsEarned
  BY LedgerEarnsCredit, LedgerInit, LedgerNext, PTL DEF Spec

--------------------------------------------------------------------------------
(* What a passing `xtask signature` adds. *)

(* What the report took from the bindings, and what the verdict was about.     *)
BackedInv ==
    /\ Signed => report.unsigned \subseteq report.credited
    /\ pc \in {"rendered", "reported"} => report.inHouse = InHouse(report, lines, bindings)
    /\ signature # "none" => pc = "reported"
    /\ signature = "pass" => SignatureVerdict(lines, env, bindings) = "pass"

LEMMA BackedInit == Init => BackedInv
  BY DEF Init, BackedInv, Signed

LEMMA BackedNext == LedgerInv /\ BackedInv /\ [Next]_vars => BackedInv'
<1> SUFFICES ASSUME LedgerInv, BackedInv, [Next]_vars PROVE BackedInv'
  OBVIOUS
<1> USE DEF BackedInv, Signed
<1>1. CASE ProbeEnvironment
  BY <1>1 DEF ProbeEnvironment
<1>2. CASE ReadBindings
  <2>1. report \in Reports
    BY DEF LedgerInv, TypeOK
  <2>2. /\ report'.unsigned = {p \in report.credited : lines[p] \notin ExactNames(bindings')}
        /\ report'.credited = report.credited
    BY <1>2, <2>1 DEF ReadBindings, ApplySignatures, Reports
  <2> QED
    BY <1>2, <2>2 DEF ReadBindings
<1>3. CASE AuditIndependence
  <2>1. report \in Reports
    BY DEF LedgerInv, TypeOK
  <2>2. report'.unsigned = report.unsigned /\ report'.credited = report.credited
    BY <1>3, <2>1 DEF AuditIndependence, ApplyIndependence, Reports
  <2> QED
    BY <1>3, <2>2 DEF AuditIndependence
<1>4. CASE CountInHouse
  <2>1. report \in Reports
    BY DEF LedgerInv, TypeOK
  <2>2. /\ report'.unsigned = report.unsigned /\ report'.credited = report.credited
        /\ report'.missing = report.missing
        /\ report'.inHouse = InHouse(report, lines, bindings)
    BY <1>4, <2>1 DEF CountInHouse, Reports
  <2>3. /\ pc = "in_house" /\ pc' = "rendered"
        /\ UNCHANGED <<lines, env, bindings, signature>>
    BY <1>4 DEF CountInHouse
  <2>4. InHouse(report, lines, bindings)' = InHouse(report, lines, bindings)
    BY <2>2, <2>3 DEF InHouse
  <2> QED
    BY <2>2, <2>3, <2>4
<1>5. CASE Abort
  BY <1>5 DEF Abort
<1>6. ASSUME NEW check \in BOOLEAN, Conclude(check) PROVE BackedInv'
  BY <1>6 DEF Conclude
<1>7. CASE RunSignature
  BY <1>7 DEF RunSignature, SignatureVerdict
<1>8. CASE UNCHANGED vars
  BY <1>8 DEF vars
<1> QED
  BY <1>1, <1>2, <1>3, <1>4, <1>5, <1>6, <1>7, <1>8 DEF Next

(* Over bindings that name no declaration twice, counting the bindings of a set *)
(* of names that are all bound counts the names.                             *)
LEMMA BindingsCountNames ==
    ASSUME NEW b \in BindingFiles, NEW I \in SUBSET DOMAIN b, NEW T,
           \A i, j \in DOMAIN b : b[i].name = b[j].name => i = j,
           \A i \in I : b[i].name \in T,
           \A n \in T : \E i \in I : b[i].name = n
    PROVE  Cardinality(I) = Cardinality(T)
<1> DEFINE f == [i \in I |-> b[i].name]
<1>1. PICK k \in 0 .. MaxBindings : b \in [1 .. k -> Forms]
  BY Zenon DEF BindingFiles
<1>2. IsFiniteSet(I)
  <2>1. I \subseteq 1 .. k
    BY <1>1
  <2>2. IsFiniteSet(1 .. k)
    BY <1>1, FS_Interval
  <2> QED
    BY <2>1, <2>2, FS_Subset
<1>3. f \in Bijection(I, T)
  BY DEF Bijection, Injection, Surjection, IsInjective
<1> QED
  BY <1>2, <1>3, FS_Bijection DEF ExistsBijection

LEMMA SignatureBacks == LedgerInv /\ BackedInv /\ CreditIsEarned => SignatureBacksLedger
<1> SUFFICES ASSUME LedgerInv, BackedInv, CreditIsEarned, signature = "pass"
             PROVE  SignatureBacksLedger
  BY DEF SignatureBacksLedger
<1> DEFINE Unlisted == NamesAt(report.missing, lines)
           Counted  == {i \in DOMAIN bindings : /\ bindings[i].name \notin Unlisted
                                                /\ bindings[i].name \notin Fenced}
           Standing == NamesAt(Positions, lines) \ (Unlisted \cup Fenced)
<1>1. /\ pc = "reported" /\ Rendered /\ Signed /\ Probed
      /\ bindings \in BindingFiles /\ report \in Reports
      /\ lines \in [Positions -> Names] /\ env \in Environments
  BY DEF BackedInv, Rendered, Signed, Probed, LedgerInv, TypeOK
<1>2. /\ Audit(bindings, lines)
      /\ \A p \in Classify(lines, env).credited :
              \E i \in DOMAIN bindings : bindings[i].name = lines[p]
  BY DEF BackedInv, SignatureVerdict
<1>3. Classify(lines, env).credited = report.credited
  BY <1>1, ClassifySplits DEF LedgerInv
<1>4. /\ \A i \in DOMAIN bindings : /\ bindings[i].name \in NamesAt(Positions, lines)
                                    /\ bindings[i].closes
      /\ \A i, j \in DOMAIN bindings : bindings[i].name = bindings[j].name => i = j
  BY <1>2 DEF Audit, BindingSound
<1>5. ASSUME NEW p \in Positions, lines[p] \notin Unlisted
      PROVE  \E i \in DOMAIN bindings : /\ bindings[i].name = lines[p]
                                       /\ bindings[i].kind = "exact" /\ bindings[i].closes
  BY <1>1, <1>4, <1>5 DEF CreditIsEarned
<1>6. ASSUME NEW p \in report.unsigned
      PROVE  Cardinality({i \in DOMAIN bindings : bindings[i].name = lines[p]}) = 1
  <2>1. PICK i \in DOMAIN bindings : bindings[i].name = lines[p]
    BY <1>1, <1>2, <1>3, <1>6 DEF BackedInv
  <2>2. {j \in DOMAIN bindings : bindings[j].name = lines[p]} = {i}
    BY <1>4, <2>1
  <2> QED
    BY <2>2, FS_Singleton
<1>7. report.inHouse = Cardinality(Standing)
  <2>1. report.inHouse = Cardinality(Counted)
    BY <1>1 DEF BackedInv, InHouse
  <2>2. \A i \in Counted : bindings[i].name \in Standing
    BY <1>4
  <2>3. ASSUME NEW n \in Standing
        PROVE  \E i \in Counted : bindings[i].name = n
    <3>1. PICK p \in Positions : n = lines[p]
      BY DEF NamesAt
    <3>2. PICK i \in DOMAIN bindings : bindings[i].name = lines[p]
      BY <1>5, <3>1
    <3> QED
      BY <3>1, <3>2
  <2>4. Counted \in SUBSET DOMAIN bindings
    OBVIOUS
  <2> HIDE DEF Counted, Standing
  <2> QED
    BY <1>1, <1>4, <2>1, <2>2, <2>3, <2>4, BindingsCountNames
<1> QED
  BY <1>5, <1>6, <1>7 DEF SignatureBacksLedger

(* When `signature` passes over the inputs the ledger reported on, every name   *)
(* counted discharged is closed by an exact binding, every unsigned one has     *)
(* exactly one binding, and the in-house figure counts the standing names that *)
(* SPEC does not fence, for every list and every binding file.                *)
THEOREM SignatureBacked == Spec => []SignatureBacksLedger
  BY LedgerEarnsCredit, LedgerInit, LedgerNext, BackedInit, BackedNext, SignatureBacks, PTL DEF Spec

--------------------------------------------------------------------------------
(* The audit whose findings AuditIndependence applies, as module Independence    *)
(* has it: over a table, an environment and a state of its own.               *)

(* Induction, as a fact about sets of natural numbers.                        *)
LEMMA NatSet ==
    ASSUME NEW T \in SUBSET Nat, 0 \in T, \A n \in T : n + 1 \in T
    PROVE  T = Nat
<1>1. SUFFICES ASSUME Nat \ T # {} PROVE FALSE
  OBVIOUS
<1>2. PICK x \in Nat \ T : \A y \in Nat \ T : x <= y
  BY <1>1, LeastElement
<1>3. x # 0 /\ x - 1 \in Nat /\ ~ (x <= x - 1) /\ x - 1 + 1 = x
  OBVIOUS
<1>4. x - 1 \in T
  BY <1>2, <1>3
<1> QED
  BY <1>3, <1>4

LEMMA CutOut ==
    ASSUME NEW S, NEW text \in Seq(S), NEW m \in 1 .. Len(text) + 1, NEW n \in m - 1 .. Len(text)
    PROVE  /\ SubSeq(text, m, n) \in Seq(S)
           /\ Len(SubSeq(text, m, n)) = n - m + 1
           /\ \A i \in 1 .. n - m + 1 : SubSeq(text, m, n)[i] = text[m + i - 1]
<1>1. /\ m \in Int /\ n \in Int /\ \A i \in m .. n : text[i] \in S
      /\ m <= n \/ n - m + 1 = 0
  OBVIOUS
<1>2. /\ SubSeq(text, m, n) \in Seq(S)
      /\ Len(SubSeq(text, m, n)) = IF m <= n THEN n - m + 1 ELSE 0
      /\ \A i \in 1 .. n - m + 1 : SubSeq(text, m, n)[i] = text[m + i - 1]
  BY <1>1, SubSeqProperties
<1>3. Len(SubSeq(text, m, n)) = n - m + 1
  <2> DEFINE l == Len(SubSeq(text, m, n))
  <2>1. l = IF m <= n THEN n - m + 1 ELSE 0
    BY <1>2
  <2> HIDE DEF l
  <2>2. l = n - m + 1
    BY <1>1, <2>1
  <2> QED
    BY <2>2 DEF l
<1> QED
  BY <1>2, <1>3

LEMMA Joined ==
    ASSUME NEW S, NEW a \in Seq(S), NEW b \in Seq(S)
    PROVE  /\ a \o b \in Seq(S)
           /\ Len(a \o b) = Len(a) + Len(b)
           /\ \A i \in 1 .. Len(a) : (a \o b)[i] = a[i]
           /\ \A i \in 1 .. Len(b) : (a \o b)[Len(a) + i] = b[i]
<1>1. /\ a \o b \in Seq(S)
      /\ Len(a \o b) = Len(a) + Len(b)
      /\ \A i \in 1 .. Len(a) + Len(b) : (a \o b)[i] = IF i <= Len(a) THEN a[i] ELSE b[i - Len(a)]
  BY ConcatProperties
<1>2. Len(a) \in Nat /\ Len(b) \in Nat
  OBVIOUS
<1>3. ASSUME NEW i \in 1 .. Len(a) PROVE (a \o b)[i] = a[i]
  BY <1>1, <1>2
<1>4. ASSUME NEW i \in 1 .. Len(b) PROVE (a \o b)[Len(a) + i] = b[i]
  <2>1. Len(a) + i \in 1 .. Len(a) + Len(b) /\ ~ (Len(a) + i <= Len(a)) /\ Len(a) + i - Len(a) = i
    BY <1>2
  <2> QED
    BY <1>1, <2>1
<1> QED
  BY <1>1, <1>3, <1>4

(* What lean can print: names and the words around them.                      *)
Tokens == EnvNames \cup {"head", "other head", "error"}
Texts  == Seq(Tokens)

FirstAt(text, l, s) ==
    /\ s \in 1 .. Len(text)
    /\ text[s] \in Containing[l]
    /\ \A j \in 1 .. s - 1 : text[j] \notin Containing[l]

ClosedAt(text, s, last) ==
    /\ last \in s .. Len(text)
    /\ \A j \in s + 1 .. last : text[j] # "head"
    /\ last # Len(text) => text[last + 1] = "head"

LEMMA ContainingAre ==
    \A l \in EnvNames :
        /\ Containing[l] \subseteq EnvNames /\ l \in Containing[l] /\ CutAt[l][l] = l
        /\ \A t \in EnvNames : CutAt[l][t] \in EnvNames
<1>1. /\ Containing \in [EnvNames -> SUBSET EnvNames]
      /\ CutAt \in [EnvNames -> [EnvNames -> EnvNames]]
      /\ \A n \in EnvNames : n \in Containing[n] /\ CutAt[n][n] = n
  BY IndependenceAssumption
<1> SUFFICES ASSUME NEW l \in EnvNames
             PROVE  /\ Containing[l] \subseteq EnvNames /\ l \in Containing[l] /\ CutAt[l][l] = l
                    /\ \A t \in EnvNames : CutAt[l][t] \in EnvNames
  OBVIOUS
<1>2. Containing[l] \in SUBSET EnvNames /\ CutAt[l] \in [EnvNames -> EnvNames]
  BY <1>1
<1> QED
  BY <1>1, <1>2

LEMMA MentionedFirst ==
    ASSUME NEW text \in Texts, NEW l, Mentions(text, Containing[l])
    PROVE  \E s : FirstAt(text, l, s)
<1> DEFINE T == {i \in 1 .. Len(text) : text[i] \in Containing[l]}
<1>1. T \in SUBSET Nat /\ T # {}
  BY DEF Mentions, Texts
<1>2. PICK s \in T : \A y \in T : s <= y
  <2> HIDE DEF T
  <2> QED
    BY <1>1, LeastElement
<1>3. \A j \in 1 .. s - 1 : text[j] \notin Containing[l]
  <2> SUFFICES ASSUME NEW j \in 1 .. s - 1, text[j] \in Containing[l] PROVE FALSE
    OBVIOUS
  <2>1. Len(text) \in Nat /\ s \in 1 .. Len(text)
    BY DEF Texts
  <2>2. j \in 1 .. Len(text) /\ ~ (s <= j)
    BY <2>1
  <2> QED
    BY <1>2, <2>2
<1> QED
  BY <1>3 DEF FirstAt

LEMMA BlockCloses ==
    ASSUME NEW text \in Texts, NEW s \in 1 .. Len(text)
    PROVE  \E last : ClosedAt(text, s, last)
<1> DEFINE T == {j \in s + 1 .. Len(text) : text[j] = "head"}
<1>0. Len(text) \in Nat
  BY DEF Texts
<1>1. CASE T = {}
  <2>1. ClosedAt(text, s, Len(text))
    BY <1>0, <1>1 DEF ClosedAt
  <2> QED
    BY <2>1
<1>2. CASE T # {}
  <2>1. T \in SUBSET Nat
    BY <1>0
  <2>2. PICK h \in T : \A y \in T : h <= y
    <3> HIDE DEF T
    <3> QED
      BY <1>2, <2>1, LeastElement
  <2>3. h \in s + 1 .. Len(text) /\ text[h] = "head" /\ h - 1 \in s .. Len(text) /\ h - 1 + 1 = h
    BY <1>0
  <2>4. \A j \in s + 1 .. h - 1 : text[j] # "head"
    <3> SUFFICES ASSUME NEW j \in s + 1 .. h - 1, text[j] = "head" PROVE FALSE
      OBVIOUS
    <3>1. j \in s + 1 .. Len(text) /\ ~ (h <= j)
      BY <1>0, <2>3
    <3> QED
      BY <2>2, <3>1
  <2>5. ClosedAt(text, s, h - 1)
    BY <2>3, <2>4 DEF ClosedAt
  <2> QED
    BY <2>5
<1> QED
  BY <1>1, <1>2

IsJoin(a, b, both) ==
    /\ both \in Texts
    /\ Len(both) = Len(a) + Len(b)
    /\ \A i \in 1 .. Len(a) : both[i] = a[i]
    /\ \A i \in 1 .. Len(b) : both[Len(a) + i] = b[i]

LEMMA JoinedTexts == ASSUME NEW a \in Texts, NEW b \in Texts PROVE IsJoin(a, b, a \o b)
<1>1. /\ a \o b \in Seq(Tokens)
      /\ Len(a \o b) = Len(a) + Len(b)
      /\ \A i \in 1 .. Len(a) : (a \o b)[i] = a[i]
      /\ \A i \in 1 .. Len(b) : (a \o b)[Len(a) + i] = b[i]
  BY Joined DEF Texts
<1> QED
  BY <1>1 DEF Texts, IsJoin

(* A block goes from the first occurrence of the label to the next head.        *)
LEMMA BlockIs ==
    ASSUME NEW text \in Texts, NEW l, NEW s, FirstAt(text, l, s), NEW last, ClosedAt(text, s, last)
    PROVE  Block(text, l) = <<CutAt[l][text[s]]>> \o SubSeq(text, s + 1, last)
<1> DEFINE L == Len(text)
<1>0. L \in Nat /\ DOMAIN text = 1 .. Len(text)
  BY DEF Texts
<1>00. s \in 1 .. L /\ last \in s .. L
  BY DEF FirstAt, ClosedAt
<1> HIDE DEF L
<1>5. /\ s \in Nat /\ last \in s .. L /\ \A h \in s + 1 .. L : h \in Nat
      /\ last # L => last + 1 \in s + 1 .. L
      /\ \A h \in s + 1 .. L : last + 1 <= h \/ h \in s + 1 .. last
  <2>1. L \in Nat
    BY <1>0
  <2> QED
    BY <1>00, <2>1
<1> DEFINE First(i) == text[i] \in Containing[l] /\ \A j \in 1 .. i - 1 : text[j] \notin Containing[l]
           start == CHOOSE i \in DOMAIN text : First(i)
<1>1. s \in DOMAIN text /\ First(s)
  BY <1>0 DEF FirstAt
<1>2. start \in DOMAIN text /\ First(start)
  <2> HIDE DEF First
  <2> QED
    BY <1>1
<1>3. start = s
  <2>1. s \in 1 .. Len(text) /\ start \in 1 .. Len(text)
    BY <1>0, <1>1, <1>2
  <2>2. ~ (s \in 1 .. start - 1) /\ ~ (start \in 1 .. s - 1)
    BY <1>1, <1>2
  <2> HIDE DEF start
  <2> QED
    BY <2>1, <2>2
<1> DEFINE heads == {j \in s + 1 .. L : text[j] = "head"}
           least == CHOOSE j \in heads : \A h \in heads : j <= h
<1>4. Block(text, l) =
          <<CutAt[l][text[s]]>> \o SubSeq(text, s + 1, IF heads = {} THEN L ELSE least - 1)
  <2>1. Block(text, l) =
            LET hs == {j \in start + 1 .. Len(text) : text[j] = "head"}
            IN  <<CutAt[l][text[start]]>>
                    \o SubSeq(text, start + 1,
                              IF hs = {} THEN Len(text)
                              ELSE (CHOOSE j \in hs : \A h \in hs : j <= h) - 1)
    BY DEF Block, Start
  <2> HIDE DEF start
  <2> QED
    BY <1>3, <2>1 DEF L
<1>6. CASE last = L
  <2>1. heads = {}
    BY <1>6 DEF ClosedAt
  <2> HIDE DEF heads
  <2> QED
    BY <1>4, <1>6, <2>1
<1>7. CASE last # L
  <2>1. last + 1 \in heads
    <3>1. last + 1 \in s + 1 .. L
      BY <1>5, <1>7
    <3>2. text[last + 1] = "head"
      BY <1>7 DEF ClosedAt, L
    <3> QED
      BY <3>1, <3>2
  <2>2. \A h \in heads : last + 1 <= h
    <3> SUFFICES ASSUME NEW h \in heads, ~ (last + 1 <= h) PROVE FALSE
      OBVIOUS
    <3>1. h \in s + 1 .. last /\ text[h] = "head"
      BY <1>5
    <3> QED
      BY <3>1 DEF ClosedAt
  <2>3. heads \subseteq Nat
    BY <1>5
  <2> HIDE DEF heads
  <2>4. least \in heads /\ \A h \in heads : least <= h
    BY <2>1, <2>2
  <2>5. least <= last + 1 /\ last + 1 <= least /\ least \in Nat
    BY <2>1, <2>2, <2>3, <2>4
  <2> HIDE DEF least
  <2>6. least - 1 = last
    BY <1>5, <2>5
  <2> QED
    BY <1>4, <2>1, <2>6
<1> QED
  BY <1>6, <1>7

LEMMA MentionsOfJoined ==
    ASSUME NEW a \in Texts, NEW b \in Texts, NEW names
    PROVE  Mentions(a \o b, names) <=> Mentions(a, names) \/ Mentions(b, names)
<1> DEFINE both == a \o b
           L == Len(a)
           M == Len(b)
<1>1. IsJoin(a, b, both)
  BY JoinedTexts
<1>2. L \in Nat /\ M \in Nat /\ DOMAIN a = 1 .. L /\ DOMAIN b = 1 .. M
  BY DEF Texts
<1> HIDE DEF both
<1>3. both \in Texts /\ Len(both) = L + M
  BY <1>1 DEF IsJoin
<1>4. DOMAIN both = 1 .. L + M
  <2>1. DOMAIN both = 1 .. Len(both)
    BY <1>3 DEF Texts
  <2> QED
    BY <1>3, <2>1
<1>5. (\A j \in 1 .. L : both[j] = a[j]) /\ \A j \in 1 .. M : both[L + j] = b[j]
  BY <1>1 DEF IsJoin
<1> HIDE DEF L, M
<1>6. ASSUME NEW i \in 1 .. L + M, both[i] \in names PROVE Mentions(a, names) \/ Mentions(b, names)
  <2>1. CASE i <= L
    <3>1. i \in 1 .. L
      BY <1>2, <2>1
    <3> QED
      BY <1>2, <1>5, <1>6, <3>1 DEF Mentions
  <2>2. CASE ~ (i <= L)
    <3>1. i - L \in 1 .. M /\ L + (i - L) = i
      BY <1>2, <2>2
    <3> QED
      BY <1>2, <1>5, <1>6, <3>1 DEF Mentions
  <2> QED
    BY <2>1, <2>2
<1>7. ASSUME NEW i \in 1 .. L, a[i] \in names PROVE Mentions(both, names)
  <2>1. i \in 1 .. L + M
    BY <1>2
  <2> QED
    BY <1>4, <1>5, <1>7, <2>1 DEF Mentions
<1>8. ASSUME NEW i \in 1 .. M, b[i] \in names PROVE Mentions(both, names)
  <2>1. L + i \in 1 .. L + M
    BY <1>2
  <2> QED
    BY <1>4, <1>5, <1>8, <2>1 DEF Mentions
<1>9. Mentions(both, names) => Mentions(a, names) \/ Mentions(b, names)
  BY <1>4, <1>6 DEF Mentions
<1>10. Mentions(a, names) \/ Mentions(b, names) => Mentions(both, names)
  BY <1>2, <1>7, <1>8 DEF Mentions
<1> QED
  BY <1>9, <1>10 DEF both

(* The names of a block: what is left of the first token, and what follows it.  *)
LEMMA BlockMentions ==
    ASSUME NEW text \in Texts, NEW l \in EnvNames, NEW s, FirstAt(text, l, s),
           NEW last, ClosedAt(text, s, last), NEW names
    PROVE  Mentions(Block(text, l), names) <=>
               CutAt[l][text[s]] \in names \/ \E i \in s + 1 .. last : text[i] \in names
<1> DEFINE c == CutAt[l][text[s]]
           one == <<c>>
           cut == SubSeq(text, s + 1, last)
<1>1. Block(text, l) = one \o cut
  BY BlockIs
<1>2. c \in Tokens
  BY ContainingAre DEF FirstAt, Tokens
<1> HIDE DEF c
<1>3. one \in Texts /\ (Mentions(one, names) <=> c \in names)
  <2>1. one \in Texts /\ DOMAIN one = {1} /\ one[1] = c
    BY <1>2 DEF Texts
  <2> HIDE DEF one
  <2> QED
    BY <2>1 DEF Mentions
<1>4. /\ Len(text) \in Nat /\ s \in 1 .. Len(text) /\ last \in s .. Len(text)
      /\ s + 1 \in 1 .. Len(text) + 1 /\ last \in s + 1 - 1 .. Len(text)
  <2>1. Len(text) \in Nat /\ s \in 1 .. Len(text) /\ last \in s .. Len(text)
    BY DEF FirstAt, ClosedAt, Texts
  <2>2. s + 1 - 1 = s /\ s + 1 \in 1 .. Len(text) + 1
    BY <2>1
  <2> QED
    BY <2>1, <2>2
<1>5. /\ cut \in Texts /\ Len(cut) = last - (s + 1) + 1
      /\ \A i \in 1 .. last - (s + 1) + 1 : cut[i] = text[s + 1 + i - 1]
  BY <1>4, CutOut DEF Texts
<1> HIDE DEF cut, one
<1>6. last - (s + 1) + 1 = last - s /\ last - s \in Nat
  BY <1>4
<1>7. DOMAIN cut = 1 .. last - s
  <2>1. DOMAIN cut = 1 .. Len(cut)
    BY <1>5 DEF Texts
  <2> QED
    BY <1>5, <1>6, <2>1
<1>8. \A i \in 1 .. last - s : cut[i] = text[s + i]
  <2> SUFFICES ASSUME NEW i \in 1 .. last - s PROVE cut[i] = text[s + i]
    OBVIOUS
  <2>1. s + 1 + i - 1 = s + i
    BY <1>4
  <2> QED
    BY <1>5, <1>6, <2>1
<1>9. ASSUME NEW i \in s + 1 .. last, text[i] \in names PROVE Mentions(cut, names)
  <2>1. i - s \in 1 .. last - s /\ s + (i - s) = i
    BY <1>4
  <2> QED
    BY <1>7, <1>8, <1>9, <2>1 DEF Mentions
<1>10. ASSUME NEW i \in 1 .. last - s, cut[i] \in names
       PROVE  \E j \in s + 1 .. last : text[j] \in names
  <2>1. s + i \in s + 1 .. last
    BY <1>4
  <2> QED
    BY <1>8, <1>10, <2>1
<1>11. Mentions(cut, names) <=> \E i \in s + 1 .. last : text[i] \in names
  BY <1>7, <1>9, <1>10 DEF Mentions
<1> QED
  BY <1>1, <1>3, <1>5, <1>11, MentionsOfJoined DEF c

(* What is printed for a label.                                              *)
LEMMA PrintedIs ==
    ASSUME NEW l \in EnvNames, body[l] \in Seq(EnvNames)
    PROVE  /\ Printed(l) \in Texts /\ Len(Printed(l)) >= 1
           /\ l \in known =>
                  /\ Len(Printed(l)) = 2 + Len(body[l])
                  /\ Printed(l)[1] \in {"head", "other head"}
                  /\ l \in keyword => Printed(l)[1] = "head"
                  /\ Printed(l)[2] = l
                  /\ \A i \in 1 .. Len(body[l]) : Printed(l)[2 + i] = body[l][i]
<1> DEFINE named == body[l]
           head  == IF l \in keyword THEN "head" ELSE "other head"
           pair  == <<head, l>>
           wrong == <<"error", l>>
<1>1. EnvNames \subseteq Tokens /\ {"head", "other head", "error"} \subseteq Tokens
  BY DEF Tokens
<1>2. named \in Texts /\ Len(named) \in Nat
  <2>1. EnvNames \subseteq Tokens
    BY <1>1
  <2>2. Seq(EnvNames) \subseteq Seq(Tokens)
    BY <2>1, SeqMonotonic
  <2> QED
    BY <2>2 DEF Texts
<1>3. head \in {"head", "other head"} /\ head \in Tokens /\ (l \in keyword => head = "head")
  BY <1>1
<1> HIDE DEF head
<1>4. pair \in Texts /\ wrong \in Texts
  <2>1. head \in Tokens /\ l \in Tokens /\ "error" \in Tokens
    BY <1>1, <1>3
  <2> HIDE DEF Tokens
  <2> QED
    BY <2>1 DEF Texts
<1>5. Len(pair) = 2 /\ Len(wrong) = 2 /\ pair[1] = head /\ pair[2] = l
  OBVIOUS
<1> HIDE DEF pair, wrong
<1>6. CASE l \notin known
  <2>1. Printed(l) = wrong
    BY <1>6 DEF Printed, wrong
  <2>2. Printed(l) \in Texts /\ Len(Printed(l)) >= 1
    <3>1. Printed(l) \in Texts /\ Len(Printed(l)) = 2
      BY <1>4, <1>5, <2>1
    <3>2. 2 >= 1
      OBVIOUS
    <3> QED
      BY <3>1, <3>2
  <2> QED
    BY <1>6, <2>2
<1>7. CASE l \in known
  <2> DEFINE both == pair \o named
  <2>1. Printed(l) = both
    BY <1>7 DEF Printed, pair, head
  <2>2. IsJoin(pair, named, both)
    BY <1>2, <1>4, JoinedTexts
  <2> HIDE DEF both
  <2>3. both \in Texts /\ Len(both) = 2 + Len(named) /\ both[1] = head /\ both[2] = l
    <3>1. 1 \in 1 .. 2 /\ 2 \in 1 .. 2
      OBVIOUS
    <3> QED
      BY <1>5, <2>2, <3>1 DEF IsJoin
  <2>4. \A i \in 1 .. Len(named) : both[2 + i] = named[i]
    BY <1>5, <2>2 DEF IsJoin
  <2>5. 2 + Len(named) >= 1
    BY <1>2
  <2> QED
    BY <1>3, <2>1, <2>3, <2>4, <2>5
<1> QED
  BY <1>6, <1>7

(* Every label is known and printed with a keyword first.                     *)
AllHeads == known = Labels /\ keyword = Labels

(* The text of a label occurs first where Lean printed it, and its body follows; *)
(* with a keyword before every declaration, the block ends with the body.       *)
AnsweredAt(text, l, s) ==
    /\ FirstAt(text, l, s) /\ text[s] = l
    /\ s + Len(body[l]) \in s .. Len(text)
    /\ \A i \in 1 .. Len(body[l]) : text[s + i] = body[l][i]
    /\ AllHeads => ClosedAt(text, s, s + Len(body[l]))

Answered(text, l) == \E s : AnsweredAt(text, l, s)

(* What a text already answers stays when another text follows.                *)
LEMMA AnswerStays ==
    ASSUME NEW text \in Texts, NEW more \in Texts, Len(more) >= 1, AllHeads => more[1] = "head",
           NEW l, Len(body[l]) \in Nat, Answered(text, l)
    PROVE  Answered(text \o more, l)
<1> DEFINE both == text \o more
           L == Len(text)
           M == Len(more)
           B == Len(body[l])
<1>1. IsJoin(text, more, both)
  BY JoinedTexts
<1> HIDE DEF both
<1>2. L \in Nat /\ M \in Nat /\ M >= 1 /\ B \in Nat
  BY DEF Texts
<1>3. PICK s : AnsweredAt(text, l, s)
  BY DEF Answered
<1>4. /\ FirstAt(text, l, s) /\ text[s] = l /\ s + B \in s .. L
      /\ \A i \in 1 .. B : text[s + i] = body[l][i]
      /\ AllHeads => ClosedAt(text, s, s + B)
  BY <1>3 DEF AnsweredAt
<1>5. Len(both) = L + M /\ (\A i \in 1 .. L : both[i] = text[i]) /\ \A i \in 1 .. M : both[L + i] = more[i]
  BY <1>1 DEF IsJoin
<1>6. s \in 1 .. L
  BY <1>4 DEF FirstAt
<1>7. ClosedAt(text, s, s + B) =>
          /\ \A j \in s + 1 .. s + B : text[j] # "head"
          /\ s + B # L => text[s + B + 1] = "head"
  BY DEF ClosedAt
<1>8. \A j \in 1 .. s - 1 : text[j] \notin Containing[l]
  BY <1>4 DEF FirstAt
<1>9. text[s] \in Containing[l]
  BY <1>4 DEF FirstAt
<1> HIDE DEF L, M, B
<1>10. /\ s \in 1 .. L + M /\ s + B \in s .. L + M
       /\ \A j \in 1 .. s - 1 : j \in 1 .. L
       /\ \A i \in 1 .. B : s + i \in 1 .. L
       /\ \A j \in s + 1 .. s + B : j \in 1 .. L
       /\ s + B # L => s + B + 1 \in 1 .. L
       /\ 1 \in 1 .. M
  BY <1>2, <1>4, <1>6
<1>11. FirstAt(both, l, s)
  <2>1. \A j \in 1 .. s - 1 : both[j] \notin Containing[l]
    BY <1>5, <1>8, <1>10
  <2>2. both[s] \in Containing[l]
    BY <1>5, <1>6, <1>9
  <2>3. s \in 1 .. Len(both)
    BY <1>5, <1>10
  <2> QED
    BY <2>1, <2>2, <2>3 DEF FirstAt
<1>12. AllHeads => ClosedAt(both, s, s + B)
  <2> SUFFICES ASSUME AllHeads PROVE ClosedAt(both, s, s + B)
    OBVIOUS
  <2>1. \A j \in s + 1 .. s + B : both[j] # "head"
    BY <1>4, <1>5, <1>7, <1>10
  <2>2. both[s + B + 1] = "head"
    <3>1. CASE s + B = L
      BY <1>5, <1>10, <3>1
    <3>2. CASE s + B # L
      BY <1>4, <1>5, <1>7, <1>10, <3>2
    <3> QED
      BY <3>1, <3>2
  <2>3. s + B \in s .. Len(both)
    BY <1>5, <1>10
  <2> QED
    BY <2>1, <2>2, <2>3 DEF ClosedAt
<1>13. AnsweredAt(both, l, s)
  <2>1. \A i \in 1 .. B : both[s + i] = body[l][i]
    BY <1>4, <1>5, <1>10
  <2>2. s + B \in s .. Len(both)
    BY <1>5, <1>10
  <2>3. both[s] = l
    BY <1>4, <1>5, <1>6
  <2> QED
    BY <1>11, <1>12, <2>1, <2>2, <2>3 DEF AnsweredAt, B
<1> QED
  BY <1>13 DEF Answered, both

(* The block of a label whose text did not occur before it is printed.          *)
LEMMA AnswerBegins ==
    ASSUME NEW text \in Texts, NEW l \in EnvNames, l \in Labels, l \in known,
           body[l] \in Seq(EnvNames), ~ Mentions(text, Containing[l])
    PROVE  Answered(text \o Printed(l), l)
<1> DEFINE L == Len(text)
           B == Len(body[l])
           printed == Printed(l)
           both == text \o printed
<1>1. /\ printed \in Texts /\ Len(printed) = 2 + B /\ printed[1] \in {"head", "other head"}
      /\ printed[2] = l /\ \A i \in 1 .. B : printed[2 + i] = body[l][i]
  BY PrintedIs
<1>2. L \in Nat /\ B \in Nat /\ \A i \in 1 .. B : body[l][i] \in EnvNames
  BY DEF Texts
<1> HIDE DEF printed
<1>3. IsJoin(text, printed, both)
  BY <1>1, JoinedTexts
<1> HIDE DEF both
<1>4. \A i \in 1 .. L : text[i] \notin Containing[l]
  BY DEF Mentions, Texts
<1>5. /\ Len(both) = L + (2 + B)
      /\ \A i \in 1 .. L : both[i] = text[i]
      /\ \A i \in 1 .. 2 + B : both[L + i] = printed[i]
  BY <1>1, <1>3 DEF IsJoin
<1> HIDE DEF L, B
<1> DEFINE s == L + 2
<1>6. /\ s \in 1 .. L + (2 + B) /\ s + B \in s .. L + (2 + B) /\ s + B = L + (2 + B)
      /\ \A j \in 1 .. s - 1 : j \in 1 .. L \/ j = L + 1
      /\ \A i \in 1 .. B : 2 + i \in 1 .. 2 + B /\ s + i = L + (2 + i)
      /\ \A j \in s + 1 .. s + B : j - s \in 1 .. B /\ s + (j - s) = j
      /\ 1 \in 1 .. 2 + B /\ 2 \in 1 .. 2 + B
  BY <1>2
<1>7. both[L + 1] \in {"head", "other head"} /\ both[s] = l
  BY <1>1, <1>5, <1>6
<1>8. \A i \in 1 .. B : both[s + i] = body[l][i]
  <2> SUFFICES ASSUME NEW i \in 1 .. B PROVE both[s + i] = body[l][i]
    OBVIOUS
  <2>1. s + i = L + (2 + i) /\ 2 + i \in 1 .. 2 + B
    BY <1>6
  <2>2. both[L + (2 + i)] = printed[2 + i]
    BY <1>5, <2>1
  <2> QED
    BY <1>1, <2>1, <2>2
<1>9. "head" \notin EnvNames /\ "other head" \notin EnvNames
  BY IndependenceAssumption
<1> HIDE DEF s
<1>10. FirstAt(both, l, s)
  <2>1. ASSUME NEW j \in 1 .. s - 1 PROVE both[j] \notin Containing[l]
    <3>1. CASE j \in 1 .. L
      BY <1>4, <1>5, <3>1
    <3>2. CASE j = L + 1
      <4>1. both[j] \notin EnvNames
        BY <1>7, <1>9, <3>2
      <4> QED
        BY <4>1, ContainingAre
    <3> QED
      BY <1>6, <3>1, <3>2
  <2>2. both[s] \in Containing[l]
    BY <1>7, ContainingAre
  <2>3. s \in 1 .. Len(both)
    BY <1>5, <1>6
  <2> QED
    BY <2>1, <2>2, <2>3 DEF FirstAt
<1>11. ClosedAt(both, s, s + B)
  <2>1. ASSUME NEW j \in s + 1 .. s + B PROVE both[j] # "head"
    <3>1. both[j] = body[l][j - s]
      BY <1>6, <1>8
    <3> QED
      BY <1>2, <1>6, <1>9, <3>1
  <2>2. s + B = Len(both) /\ s + B \in s .. Len(both)
    BY <1>5, <1>6
  <2> QED
    BY <2>1, <2>2 DEF ClosedAt
<1>12. AnsweredAt(both, l, s)
  <2>1. s + B \in s .. Len(both)
    BY <1>5, <1>6
  <2> QED
    BY <1>7, <1>8, <1>10, <1>11, <2>1 DEF AnsweredAt, B
<1> QED
  BY <1>12 DEF Answered, both, printed

(* What the flattening of a sequence of texts is, one after the other.         *)
FlattensTo(seqs, n, f) ==
    f = [i \in 1 .. n |-> IF i = 1 THEN seqs[i] ELSE f[i - 1] \o seqs[i]]

LEMMA FlattenExists == \A seqs : \A n \in Nat : \E f : FlattensTo(seqs, n, f)
<1> TAKE seqs
<1> DEFINE T == {n \in Nat : \E f : FlattensTo(seqs, n, f)}
<1>1. 0 \in T
  <2> DEFINE none == [i \in 1 .. 0 |-> 0]
  <2>1. none = [i \in 1 .. 0 |-> IF i = 1 THEN seqs[i] ELSE none[i - 1] \o seqs[i]]
    OBVIOUS
  <2> HIDE DEF none
  <2>2. FlattensTo(seqs, 0, none)
    BY <2>1 DEF FlattensTo
  <2> QED
    BY <2>2
<1>2. ASSUME NEW n \in T PROVE n + 1 \in T
  <2>1. PICK f : FlattensTo(seqs, n, f)
    OBVIOUS
  <2> DEFINE g == [i \in 1 .. n + 1 |->
                      IF i = n + 1
                      THEN IF n + 1 = 1 THEN seqs[n + 1] ELSE f[n] \o seqs[n + 1]
                      ELSE f[i]]
  <2>2. \A i \in 1 .. n + 1 : g[i] = IF i = 1 THEN seqs[i] ELSE g[i - 1] \o seqs[i]
    <3> SUFFICES ASSUME NEW i \in 1 .. n + 1
                 PROVE  g[i] = IF i = 1 THEN seqs[i] ELSE g[i - 1] \o seqs[i]
      OBVIOUS
    <3>1. CASE i = n + 1
      <4>1. i # 1 => i - 1 = n /\ n \in 1 .. n + 1 /\ n # n + 1
        BY <3>1
      <4>2. i # 1 => g[n] = f[n]
        BY <4>1
      <4>3. g[i] = IF n + 1 = 1 THEN seqs[n + 1] ELSE f[n] \o seqs[n + 1]
        BY <3>1
      <4> HIDE DEF g
      <4> QED
        BY <3>1, <4>1, <4>2, <4>3
    <3>2. CASE i # n + 1
      <4>1. i \in 1 .. n /\ (i # 1 => i - 1 \in 1 .. n + 1 /\ i - 1 # n + 1)
        BY <3>2
      <4>2. g[i] = f[i] /\ (i # 1 => g[i - 1] = f[i - 1])
        BY <3>2, <4>1
      <4>3. f[i] = IF i = 1 THEN seqs[i] ELSE f[i - 1] \o seqs[i]
        BY <2>1, <4>1 DEF FlattensTo
      <4> HIDE DEF g
      <4> QED
        BY <4>2, <4>3
    <3> QED
      BY <3>1, <3>2
  <2>3. FlattensTo(seqs, n + 1, g)
    <3>1. g = [i \in 1 .. n + 1 |-> IF i = 1 THEN seqs[i] ELSE g[i - 1] \o seqs[i]]
      BY <2>2
    <3> HIDE DEF g
    <3> QED
      BY <3>1 DEF FlattensTo
  <2>4. \E h : FlattensTo(seqs, n + 1, h)
    <3> HIDE DEF g
    <3> QED
      BY <2>3, Zenon
  <2>5. n + 1 \in Nat
    OBVIOUS
  <2> QED
    BY <2>4, <2>5, Zenon
<1> HIDE DEF T
<1>3. T \subseteq Nat
  BY DEF T
<1>4. T = Nat
  BY <1>1, <1>2, <1>3, NatSet
<1> QED
  BY <1>4 DEF T

LEMMA FlattenIs ==
    ASSUME NEW seqs, Len(seqs) \in Nat, Len(seqs) # 0
    PROVE  \E f : /\ FlattenSeq(seqs) = f[Len(seqs)]
                  /\ f[1] = seqs[1]
                  /\ \A i \in 2 .. Len(seqs) : f[i] = f[i - 1] \o seqs[i]
<1> DEFINE n == Len(seqs)
           f == CHOOSE g : FlattensTo(seqs, n, g)
<1>1. FlattenSeq(seqs) = f[n]
  BY DEF FlattenSeq, FlattensTo
<1>2. FlattensTo(seqs, n, f)
  BY FlattenExists
<1> HIDE DEF f, n
<1>3. n \in Nat /\ n # 0
  BY DEF n
<1>4. \A i \in 1 .. n : f[i] = IF i = 1 THEN seqs[i] ELSE f[i - 1] \o seqs[i]
  BY <1>2 DEF FlattensTo
<1>5. f[1] = seqs[1]
  <2>1. 1 \in 1 .. n
    BY <1>3
  <2> QED
    BY <1>4, <2>1
<1>6. ASSUME NEW i \in 2 .. n PROVE f[i] = f[i - 1] \o seqs[i]
  <2>1. i \in 1 .. n /\ i # 1
    BY <1>3
  <2> QED
    BY <1>4, <2>1
<1> QED
  BY <1>1, <1>5, <1>6 DEF n

LEMMA EntriesAre ==
    /\ Len(Entries) \in Nat /\ DOMAIN Entries = 1 .. Len(Entries)
    /\ \A e \in DOMAIN Entries :
           /\ Entries[e].declarative \in EnvNames /\ Entries[e].required \in EnvNames
           /\ Entries[e].forbidden \subseteq EnvNames
<1> DEFINE R == [required : EnvNames, declarative : EnvNames, forbidden : SUBSET EnvNames]
<1>1. Entries \in Seq(R)
  BY IndependenceAssumption
<1>2. \A r \in R : r.declarative \in EnvNames /\ r.required \in EnvNames /\ r.forbidden \subseteq EnvNames
  OBVIOUS
<1> HIDE DEF R
<1>3. /\ Len(Entries) \in Nat /\ DOMAIN Entries = 1 .. Len(Entries)
      /\ \A e \in 1 .. Len(Entries) : Entries[e] \in R
  BY <1>1
<1> QED
  BY <1>2, <1>3

(* The checks are two for each entry, its relation first.                      *)
LEMMA ChecksAre ==
    /\ Len(Entries) \in Nat /\ DOMAIN Entries = 1 .. Len(Entries)
    /\ DOMAIN Checks = 1 .. Len(Checks) /\ Len(Checks) = 2 * Len(Entries) /\ Len(Checks) \in Nat
    /\ \A k \in DOMAIN Checks :
           \E e \in DOMAIN Entries :
               /\ Checks[k].entry = Entries[e]
               /\ Checks[k].label \in {Entries[e].declarative, Entries[e].required}
    /\ \A e \in DOMAIN Entries :
           \A l \in {Entries[e].declarative, Entries[e].required} :
               \E k \in DOMAIN Checks : Checks[k].entry = Entries[e] /\ Checks[k].label = l
<1> DEFINE E == Len(Entries)
<1>1. E \in Nat /\ DOMAIN Entries = 1 .. E
  BY EntriesAre
<1>2. DOMAIN Checks = 1 .. 2 * E /\ Len(Checks) = 2 * E /\ 2 * E \in Nat
  BY <1>1 DEF Checks
<1> HIDE DEF E
<1>3. ASSUME NEW k \in 1 .. 2 * E
      PROVE  /\ (k + 1) \div 2 \in 1 .. E
             /\ Checks[k].entry = Entries[(k + 1) \div 2]
             /\ Checks[k].label = IF k % 2 = 1 THEN Entries[(k + 1) \div 2].declarative
                                  ELSE Entries[(k + 1) \div 2].required
  <2>1. (k + 1) \div 2 \in 1 .. E
    BY <1>1
  <2> QED
    BY <2>1 DEF Checks, E
<1>4. ASSUME NEW e \in 1 .. E
      PROVE  /\ 2 * e - 1 \in 1 .. 2 * E /\ 2 * e \in 1 .. 2 * E
             /\ (2 * e - 1 + 1) \div 2 = e /\ (2 * e + 1) \div 2 = e
             /\ (2 * e - 1) % 2 = 1 /\ (2 * e) % 2 # 1
  BY <1>1
<1>5. ASSUME NEW e \in 1 .. E, NEW l \in {Entries[e].declarative, Entries[e].required}
      PROVE  \E k \in 1 .. 2 * E : Checks[k].entry = Entries[e] /\ Checks[k].label = l
  <2>1. CASE l = Entries[e].declarative
    <3>1. Checks[2 * e - 1].entry = Entries[e] /\ Checks[2 * e - 1].label = Entries[e].declarative
      BY <1>3, <1>4
    <3> QED
      BY <1>4, <2>1, <3>1
  <2>2. CASE l = Entries[e].required
    <3>1. Checks[2 * e].entry = Entries[e] /\ Checks[2 * e].label = Entries[e].required
      BY <1>3, <1>4
    <3> QED
      BY <1>4, <2>2, <3>1
  <2> QED
    BY <2>1, <2>2
<1>6. ASSUME NEW k \in 1 .. 2 * E
      PROVE  \E e \in 1 .. E : /\ Checks[k].entry = Entries[e]
                               /\ Checks[k].label \in {Entries[e].declarative, Entries[e].required}
  BY <1>3
<1>7. DOMAIN Checks = 1 .. Len(Checks) /\ Len(Checks) \in Nat
  BY <1>2
<1>8. Len(Entries) \in Nat /\ DOMAIN Entries = 1 .. Len(Entries) /\ Len(Checks) = 2 * Len(Entries)
  BY <1>1, <1>2 DEF E
<1>9. \A k \in DOMAIN Checks :
          \E e \in DOMAIN Entries :
              /\ Checks[k].entry = Entries[e]
              /\ Checks[k].label \in {Entries[e].declarative, Entries[e].required}
  BY <1>1, <1>2, <1>6
<1>10. \A e \in DOMAIN Entries :
           \A l \in {Entries[e].declarative, Entries[e].required} :
               \E k \in DOMAIN Checks : Checks[k].entry = Entries[e] /\ Checks[k].label = l
  <2> SUFFICES ASSUME NEW e \in DOMAIN Entries,
                      NEW l \in {Entries[e].declarative, Entries[e].required}
               PROVE  \E k \in DOMAIN Checks : Checks[k].entry = Entries[e] /\ Checks[k].label = l
    OBVIOUS
  <2>1. e \in 1 .. E
    BY <1>1
  <2>2. \E k \in 1 .. 2 * E : Checks[k].entry = Entries[e] /\ Checks[k].label = l
    BY <1>5, <2>1
  <2> QED
    BY <1>2, <2>2
<1> QED
  BY <1>7, <1>8, <1>9, <1>10

LEMMA LabelsAreNames ==
    \A k \in DOMAIN Checks :
        /\ Checks[k].label \in Labels /\ Checks[k].label \in EnvNames
        /\ Checks[k].label \notin Checks[k].entry.forbidden
        /\ Checks[k].entry.forbidden \subseteq EnvNames
<1> SUFFICES ASSUME NEW k \in DOMAIN Checks
             PROVE  /\ Checks[k].label \in Labels /\ Checks[k].label \in EnvNames
                    /\ Checks[k].label \notin Checks[k].entry.forbidden
                    /\ Checks[k].entry.forbidden \subseteq EnvNames
  OBVIOUS
<1>1. PICK e \in DOMAIN Entries :
          /\ Checks[k].entry = Entries[e]
          /\ Checks[k].label \in {Entries[e].declarative, Entries[e].required}
  BY ChecksAre
<1>2. /\ Entries[e].declarative \in EnvNames /\ Entries[e].required \in EnvNames
      /\ Entries[e].forbidden \subseteq EnvNames
  BY EntriesAre
<1>3. {Entries[e].required, Entries[e].declarative} \cap Entries[e].forbidden = {}
  BY <1>1, IndependenceAssumption
<1>4. Checks[k].label \in Labels
  BY <1>1 DEF Labels
<1> QED
  BY <1>1, <1>2, <1>3, <1>4

--------------------------------------------------------------------------------
(* The text printed for the first m checks.                                   *)
PrintedThrough(text, m) ==
    /\ text \in Texts
    /\ \A k \in 1 .. m : Checks[k].label \in known => Answered(text, Checks[k].label)
    /\ \A names : Mentions(text, names) =>
           \E k \in 1 .. m : Mentions(Printed(Checks[k].label), names)

LEMMA BodiesAreNames ==
    ASSUME AuditTypeOK
    PROVE  \A k \in DOMAIN Checks :
               body[Checks[k].label] \in Seq(EnvNames) /\ Len(body[Checks[k].label]) \in Nat
<1> SUFFICES ASSUME NEW k \in DOMAIN Checks
             PROVE  body[Checks[k].label] \in Seq(EnvNames) /\ Len(body[Checks[k].label]) \in Nat
  OBVIOUS
<1>1. Checks[k].label \in Labels
  BY LabelsAreNames
<1>2. body[Checks[k].label] \in Bodies
  BY <1>1 DEF AuditTypeOK
<1>3. body[Checks[k].label] \in Seq(EnvNames)
  BY <1>2, IndependenceAssumption
<1> QED
  BY <1>3

LEMMA PrintedStep ==
    ASSUME AuditTypeOK, NamedInOrder, NEW m \in Nat, m + 1 \in DOMAIN Checks,
           NEW text, PrintedThrough(text, m)
    PROVE  PrintedThrough(text \o Printed(Checks[m + 1].label), m + 1)
<1>0. \A i, k \in DOMAIN Checks :
          i < k /\ (\A j \in 1 .. k - 1 : Checks[j].label # Checks[k].label)
              => ~ Mentions(Printed(Checks[i].label), Containing[Checks[k].label])
  BY DEF NamedInOrder
<1> DEFINE l == Checks[m + 1].label
           printed == Printed(l)
           both == text \o printed
<1>1. l \in Labels /\ l \in EnvNames /\ body[l] \in Seq(EnvNames)
  BY LabelsAreNames, BodiesAreNames
<1>2. \A k \in 1 .. m : k \in DOMAIN Checks /\ k < m + 1
  BY ChecksAre
<1>3. text \in Texts
  BY DEF PrintedThrough
<1>4. printed \in Texts /\ Len(printed) >= 1 /\ (AllHeads => printed[1] = "head")
  BY <1>1, PrintedIs DEF AllHeads
<1>5. both \in Texts
  <2> HIDE DEF printed
  <2>1. IsJoin(text, printed, both)
    BY <1>3, <1>4, JoinedTexts
  <2> QED
    BY <2>1 DEF IsJoin
<1>6. Mentions(text, Containing[l]) => \E k \in 1 .. m : Checks[k].label = l
  <2> SUFFICES ASSUME Mentions(text, Containing[l]), \A k \in 1 .. m : Checks[k].label # l PROVE FALSE
    OBVIOUS
  <2>1. PICK k \in 1 .. m : Mentions(Printed(Checks[k].label), Containing[l])
    BY DEF PrintedThrough
  <2>2. \A j \in 1 .. m + 1 - 1 : j \in 1 .. m
    OBVIOUS
  <2>3. \A j \in 1 .. m + 1 - 1 : Checks[j].label # Checks[m + 1].label
    BY <2>2
  <2>4. ~ Mentions(Printed(Checks[k].label), Containing[Checks[m + 1].label])
    BY <1>0, <1>2, <2>3
  <2> QED
    BY <2>1, <2>4
<1>7. ASSUME NEW k \in 1 .. m, Checks[k].label \in known PROVE Answered(both, Checks[k].label)
  <2>1. Answered(text, Checks[k].label) /\ Len(body[Checks[k].label]) \in Nat
    BY <1>2, <1>7, BodiesAreNames DEF PrintedThrough
  <2> HIDE DEF printed
  <2> QED
    BY <1>3, <1>4, <2>1, AnswerStays
<1>8. l \in known => Answered(both, l)
  <2>1. CASE Mentions(text, Containing[l])
    BY <1>6, <1>7, <2>1
  <2>2. CASE ~ Mentions(text, Containing[l])
    BY <1>1, <1>3, <2>2, AnswerBegins
  <2> QED
    BY <2>1, <2>2
<1>9. ASSUME NEW names, Mentions(both, names)
      PROVE  \E k \in 1 .. m + 1 : Mentions(Printed(Checks[k].label), names)
  <2>1. Mentions(text, names) \/ Mentions(printed, names)
    <3> HIDE DEF printed
    <3> QED
      BY <1>3, <1>4, <1>9, MentionsOfJoined
  <2>2. CASE Mentions(text, names)
    <3>1. PICK k \in 1 .. m : Mentions(Printed(Checks[k].label), names)
      BY <2>2 DEF PrintedThrough
    <3>2. k \in 1 .. m + 1
      OBVIOUS
    <3> QED
      BY <3>1, <3>2
  <2>3. CASE Mentions(printed, names)
    <3>1. m + 1 \in 1 .. m + 1
      OBVIOUS
    <3> QED
      BY <2>3, <3>1
  <2> QED
    BY <2>1, <2>2, <2>3
<1>10. \A k \in 1 .. m + 1 : Checks[k].label \in known => Answered(both, Checks[k].label)
  <2> HIDE DEF both
  <2>1. \A k \in 1 .. m + 1 : k \in 1 .. m \/ k = m + 1
    OBVIOUS
  <2> QED
    BY <1>7, <1>8, <2>1
<1> QED
  BY <1>5, <1>9, <1>10 DEF PrintedThrough

(* The combined output answers every check with what lean printed for it.      *)
LEMMA OutputAnswers ==
    ASSUME AuditTypeOK, NamedInOrder, Len(Checks) # 0
    PROVE  PrintedThrough(Output, Len(Checks))
<1> DEFINE n == Len(Checks)
           seqs == [k \in DOMAIN Checks |-> Printed(Checks[k].label)]
<1>1. n \in Nat /\ DOMAIN Checks = 1 .. n /\ n # 0
  BY ChecksAre
<1> HIDE DEF n
<1>2. Len(seqs) = n /\ \A k \in 1 .. n : seqs[k] = Printed(Checks[k].label)
  BY <1>1
<1>3. Output = FlattenSeq(seqs)
  BY DEF Output
<1> HIDE DEF seqs
<1>4. PICK f : /\ Output = f[n] /\ f[1] = seqs[1]
               /\ \A i \in 2 .. n : f[i] = f[i - 1] \o seqs[i]
  <2>1. Len(seqs) \in Nat /\ Len(seqs) # 0
    BY <1>1, <1>2
  <2>2. \E f : /\ FlattenSeq(seqs) = f[Len(seqs)] /\ f[1] = seqs[1]
               /\ \A i \in 2 .. Len(seqs) : f[i] = f[i - 1] \o seqs[i]
    BY <2>1, FlattenIs
  <2> QED
    BY <1>2, <1>3, <2>2
<1>41. \A j \in 2 .. n : f[j] = f[j - 1] \o Printed(Checks[j].label)
  <2>1. \A j \in 2 .. n : j \in 1 .. n
    BY <1>1
  <2> QED
    BY <1>2, <1>4, <2>1
<1> DEFINE T == {m \in Nat : m + 1 <= n => PrintedThrough(f[m + 1], m + 1)}
<1>5. 0 \in T
  <2>1. 0 + 1 \in DOMAIN Checks /\ 0 + 1 = 1 /\ 0 \in Nat /\ 1 \in 1 .. n
    BY <1>1
  <2>2. PrintedThrough(<<>>, 0)
    <3>1. <<>> \in Texts
      BY DEF Texts
    <3>2. \A names : ~ Mentions(<<>>, names)
      BY DEF Mentions
    <3> QED
      BY <3>1, <3>2 DEF PrintedThrough
  <2>3. PrintedThrough(<<>> \o Printed(Checks[0 + 1].label), 0 + 1)
    BY <2>1, <2>2, PrintedStep
  <2>4. Printed(Checks[1].label) \in Texts
    <3>1. Checks[1].label \in Labels /\ Checks[1].label \in EnvNames
      BY <2>1, LabelsAreNames
    <3>2. body[Checks[1].label] \in Seq(EnvNames)
      BY <2>1, BodiesAreNames
    <3> QED
      BY <3>1, <3>2, PrintedIs
  <2>5. <<>> \o Printed(Checks[1].label) = Printed(Checks[1].label)
    BY <2>4, ConcatEmptySeq DEF Texts
  <2>6. f[0 + 1] = Printed(Checks[1].label)
    BY <1>2, <1>4, <2>1
  <2> QED
    BY <2>1, <2>3, <2>5, <2>6
<1>6. ASSUME NEW m \in T PROVE m + 1 \in T
  <2> SUFFICES ASSUME m + 1 + 1 <= n PROVE PrintedThrough(f[m + 1 + 1], m + 1 + 1)
    OBVIOUS
  <2>1. m + 1 <= n /\ m + 1 \in Nat /\ m + 1 + 1 \in 2 .. n /\ m + 1 + 1 \in 1 .. n /\ m + 1 + 1 - 1 = m + 1
    BY <1>1
  <2>2. PrintedThrough(f[m + 1], m + 1)
    BY <2>1
  <2>3. f[m + 1 + 1] = f[m + 1] \o Printed(Checks[m + 1 + 1].label)
    <3> DEFINE j == m + 1 + 1
    <3>1. j \in 2 .. n /\ j - 1 = m + 1
      BY <2>1
    <3> HIDE DEF j
    <3>2. f[j] = f[m + 1] \o Printed(Checks[j].label)
      BY <1>41, <3>1
    <3> QED
      BY <3>2 DEF j
  <2>4. m + 1 + 1 \in DOMAIN Checks
    BY <1>1, <2>1
  <2> HIDE DEF T
  <2> QED
    BY <2>1, <2>2, <2>3, <2>4, PrintedStep
<1> HIDE DEF T
<1>7. T = Nat
  <2>1. T \subseteq Nat
    BY DEF T
  <2> QED
    BY <1>5, <1>6, <2>1, NatSet
<1>8. n - 1 \in Nat /\ n - 1 + 1 = n /\ n <= n
  BY <1>1
<1>9. PrintedThrough(f[n], n)
  <2>1. n - 1 \in T
    BY <1>7, <1>8
  <2>2. PrintedThrough(f[n - 1 + 1], n - 1 + 1)
    BY <1>8, <2>1 DEF T
  <2> QED
    BY <1>8, <2>2
<1> QED
  BY <1>4, <1>9 DEF n

(* What the code has judged of the checks it has done.                        *)
Found(k) == Mentions(Block(output, Checks[k].label), Checks[k].entry.forbidden)

(* An output that names no label stops the scan at the first check; otherwise   *)
(* the findings are those of the checks that are done.                         *)
AuditInv ==
    /\ AuditTypeOK
    /\ phase = "probe" => next = 1
    /\ phase = "scan" => output \in {Output, <<"error">>}
    /\ phase = "done" => next = Len(Checks) + 1
    /\ next > 1 => output = Output
    /\ findings = {Checks[k].entry.required : k \in {j \in 1 .. next - 1 : Found(j)}}

LEMMA RequiredOfCheck ==
    \A k \in DOMAIN Checks :
        Checks[k].entry.required \in {Entries[e].required : e \in DOMAIN Entries}
  BY ChecksAre

LEMMA AuditBegins == AuditInit => AuditInv
<1> SUFFICES ASSUME AuditInit PROVE AuditInv
  OBVIOUS
<1>1. Len(Checks) \in Nat
  BY ChecksAre
<1>2. 1 \in 1 .. Len(Checks) + 1 /\ 1 .. 1 - 1 = {} /\ ~ (1 > 1)
  BY <1>1
<1>3. AuditTypeOK
  BY <1>2 DEF AuditInit, AuditTypeOK
<1> QED
  BY <1>2, <1>3 DEF AuditInit, AuditInv

LEMMA OutputStays == UNCHANGED environment => Output' = Output
  BY DEF environment, Output, Printed

LEMMA AuditGoes == AuditInv /\ [AuditNext]_auditVars => AuditInv'
<1> SUFFICES ASSUME AuditInv, [AuditNext]_auditVars PROVE AuditInv'
  OBVIOUS
<1>0. /\ Len(Checks) \in Nat /\ DOMAIN Checks = 1 .. Len(Checks)
      /\ next \in 1 .. Len(Checks) + 1 /\ AuditTypeOK
  BY ChecksAre DEF AuditInv, AuditTypeOK
<1>1. ASSUME NEW imported \in BOOLEAN, Elaborate(imported) PROVE AuditInv'
  <2>1. Output' = Output
    BY <1>1, OutputStays DEF Elaborate
  <2>2. next = 1 /\ next' = 1 /\ findings' = findings /\ phase' = "scan" /\ ~ (1 > 1) /\ 1 .. 1 - 1 = {}
    BY <1>1 DEF Elaborate, AuditInv
  <2>3. findings = {}
    BY <2>2 DEF AuditInv
  <2>4. AuditTypeOK'
    BY <1>0, <1>1 DEF Elaborate, AuditTypeOK, environment
  <2>5. output' \in {Output, <<"error">>}
    BY <1>1 DEF Elaborate
  <2> QED
    BY <2>1, <2>2, <2>3, <2>4, <2>5 DEF AuditInv
<1>2. CASE ProbeFails
  <2>1. Output' = Output
    BY <1>2, OutputStays DEF ProbeFails
  <2>2. AuditTypeOK'
    BY <1>0, <1>2 DEF ProbeFails, AuditTypeOK, environment
  <2> QED
    BY <1>2, <2>1, <2>2 DEF ProbeFails, AuditInv, Found
<1>3. CASE Scan
  <2>1. Output' = Output /\ output' = output
    BY <1>3, OutputStays DEF Scan
  <2>2. next \in 1 .. Len(Checks) /\ next \in DOMAIN Checks
    BY <1>0, <1>3 DEF Scan
  <2> DEFINE c == Checks[next]
  <2>3. CASE Mentions(output, Containing[c.label])
    <3>1. /\ next' = next + 1 /\ phase' = "scan"
          /\ findings' = IF Found(next) THEN findings \cup {c.entry.required} ELSE findings
      BY <1>3, <2>3 DEF Scan, Found
    <3>2. output = Output
      <4>1. output # <<"error">>
        <5>1. "error" \notin Containing[c.label]
          BY <2>2, LabelsAreNames, ContainingAre, IndependenceAssumption
        <5>2. ~ Mentions(<<"error">>, Containing[c.label])
          BY <5>1 DEF Mentions
        <5> QED
          BY <2>3, <5>2
      <4> QED
        BY <1>3, <4>1 DEF AuditInv, Scan
    <3>3. c.entry.required \in {Entries[e].required : e \in DOMAIN Entries}
      BY <2>2, RequiredOfCheck
    <3>4. AuditTypeOK'
      <4>1. next' \in 1 .. Len(Checks) + 1
        BY <1>0, <2>2, <3>1
      <4> QED
        BY <1>0, <1>3, <3>1, <3>3, <4>1 DEF Scan, AuditTypeOK, environment
    <3>5. 1 .. next' - 1 = (1 .. next - 1) \cup {next}
      BY <1>0, <2>2, <3>1
    <3>6. \A k : Found(k)' <=> Found(k)
      BY <2>1 DEF Found
    <3>7. findings' = {Checks[k].entry.required : k \in {j \in 1 .. next' - 1 : Found(j)'}}
      <4>1. findings = {Checks[k].entry.required : k \in {j \in 1 .. next - 1 : Found(j)}}
        BY DEF AuditInv
      <4> QED
        BY <3>1, <3>5, <3>6, <4>1
    <3> QED
      BY <2>1, <3>1, <3>2, <3>4, <3>7 DEF AuditInv
  <2>4. CASE ~ Mentions(output, Containing[c.label])
    <3>1. next' = next /\ phase' = "error" /\ findings' = findings
      BY <1>3, <2>4 DEF Scan
    <3>2. AuditTypeOK'
      BY <1>0, <1>3, <3>1 DEF Scan, AuditTypeOK, environment
    <3> QED
      BY <2>1, <3>1, <3>2 DEF AuditInv, Found
  <2> QED
    BY <2>3, <2>4
<1>4. CASE ReportFindings
  <2>1. Output' = Output /\ output' = output
    BY <1>4, OutputStays DEF ReportFindings
  <2>2. next = Len(Checks) + 1
    BY <1>0, <1>4 DEF ReportFindings
  <2>3. AuditTypeOK'
    BY <1>0, <1>4 DEF ReportFindings, AuditTypeOK, environment
  <2> QED
    BY <1>4, <2>1, <2>2, <2>3 DEF ReportFindings, AuditInv, Found
<1>5. CASE UNCHANGED auditVars
  <2>1. Output' = Output
    BY <1>5, OutputStays DEF auditVars, environment
  <2> QED
    BY <1>5, <2>1 DEF auditVars, AuditInv, AuditTypeOK, Found
<1> QED
  BY <1>1, <1>2, <1>3, <1>4, <1>5 DEF AuditNext

(* A known label whose text occurs first where it is printed: what its body      *)
(* mentions is found, and, with a keyword before every declaration, no more.    *)
LEMMA FoundWhen ==
    ASSUME AuditInv, phase = "done", NamedInOrder, NEW k \in DOMAIN Checks, Checks[k].label \in known
    PROVE  /\ Mentions(body[Checks[k].label], Checks[k].entry.forbidden) => Found(k)
           /\ AllHeads /\ Found(k) => Mentions(body[Checks[k].label], Checks[k].entry.forbidden)
<1> DEFINE l == Checks[k].label
           names == Checks[k].entry.forbidden
           B == Len(body[l])
<1>1. Len(Checks) \in Nat /\ DOMAIN Checks = 1 .. Len(Checks) /\ next = Len(Checks) + 1 /\ AuditTypeOK
  BY ChecksAre DEF AuditInv
<1>2. Len(Checks) # 0 /\ next > 1
  BY <1>1
<1>3. output = Output
  BY <1>2 DEF AuditInv
<1>4. PrintedThrough(output, Len(Checks))
  BY <1>1, <1>2, <1>3, OutputAnswers
<1>5. output \in Texts /\ Answered(output, l)
  BY <1>1, <1>4 DEF PrintedThrough
<1>6. l \in EnvNames /\ l \notin names /\ body[l] \in Seq(EnvNames) /\ B \in Nat
  BY <1>1, LabelsAreNames, BodiesAreNames
<1> HIDE DEF l, names
<1>7. PICK s : AnsweredAt(output, l, s)
  BY <1>5 DEF Answered
<1>8. /\ FirstAt(output, l, s) /\ output[s] = l /\ s + B \in s .. Len(output)
      /\ \A i \in 1 .. B : output[s + i] = body[l][i]
      /\ AllHeads => ClosedAt(output, s, s + B)
  BY <1>7 DEF AnsweredAt
<1>9. s \in 1 .. Len(output) /\ Len(output) \in Nat /\ CutAt[l][output[s]] \notin names
  BY <1>5, <1>6, <1>8, ContainingAre DEF FirstAt, Texts
<1>10. PICK last : ClosedAt(output, s, last)
  BY <1>5, <1>9, BlockCloses
<1>11. \A i \in 1 .. B : body[l][i] \in EnvNames
  BY <1>6
<1>12. DOMAIN body[l] = 1 .. B
  BY <1>6
<1>13. last \in s .. Len(output) /\ (last # Len(output) => output[last + 1] = "head")
  BY <1>10 DEF ClosedAt
<1>14. "head" \notin EnvNames
  BY IndependenceAssumption
<1> HIDE DEF B
<1>15. s + B <= last
  <2> SUFFICES ASSUME ~ (s + B <= last) PROVE FALSE
    OBVIOUS
  <2>1. last + 1 - s \in 1 .. B /\ s + (last + 1 - s) = last + 1 /\ last # Len(output)
    BY <1>6, <1>8, <1>9, <1>13
  <2>2. output[last + 1] = body[l][last + 1 - s]
    BY <1>8, <2>1
  <2> QED
    BY <1>11, <1>13, <1>14, <2>1, <2>2
<1>16. ASSUME Mentions(body[l], names) PROVE Mentions(Block(output, l), names)
  <2>1. PICK i \in 1 .. B : body[l][i] \in names
    BY <1>12, <1>16 DEF Mentions
  <2>2. s + i \in s + 1 .. last
    BY <1>6, <1>9, <1>13, <1>15
  <2>3. output[s + i] \in names
    BY <1>8, <2>1
  <2> QED
    BY <1>5, <1>6, <1>8, <1>10, <2>2, <2>3, BlockMentions
<1>17. ASSUME AllHeads, Mentions(Block(output, l), names) PROVE Mentions(body[l], names)
  <2>1. ClosedAt(output, s, s + B)
    BY <1>8, <1>17
  <2>2. PICK i \in s + 1 .. s + B : output[i] \in names
    BY <1>5, <1>6, <1>8, <1>9, <1>17, <2>1, BlockMentions
  <2>3. i - s \in 1 .. B /\ s + (i - s) = i
    BY <1>6, <1>9
  <2> QED
    BY <1>8, <1>12, <2>2, <2>3 DEF Mentions
<1> QED
  BY <1>16, <1>17 DEF Found, l, names

(* The findings of an audit that ended are the checks that found something.      *)
LEMMA FindingsAre ==
    AuditInv /\ phase = "done" =>
        findings = {Checks[k].entry.required : k \in {j \in DOMAIN Checks : Found(j)}}
<1> SUFFICES ASSUME AuditInv, phase = "done"
             PROVE  findings = {Checks[k].entry.required : k \in {j \in DOMAIN Checks : Found(j)}}
  OBVIOUS
<1>1. Len(Checks) \in Nat /\ DOMAIN Checks = 1 .. Len(Checks) /\ next = Len(Checks) + 1
  BY ChecksAre DEF AuditInv
<1>2. 1 .. next - 1 = DOMAIN Checks
  BY <1>1
<1> QED
  BY <1>2 DEF AuditInv

LEMMA DependentIsFound ==
    ASSUME AuditInv, phase = "done", NamedInOrder, NEW e \in DOMAIN Entries, Dependent(e)
    PROVE  \E k \in DOMAIN Checks : Found(k) /\ Checks[k].entry.required = Entries[e].required
<1>1. PICK l \in {Entries[e].declarative, Entries[e].required} :
          l \in known /\ Mentions(body[l], Entries[e].forbidden)
  BY DEF Dependent
<1>2. PICK k \in DOMAIN Checks : Checks[k].entry = Entries[e] /\ Checks[k].label = l
  BY ChecksAre
<1> QED
  BY <1>1, <1>2, FoundWhen

LEMMA NoneEscapes == AuditInv => NoDependentEscapes
<1> SUFFICES ASSUME AuditInv, phase = "done", NamedInOrder, NEW e \in DOMAIN Entries, Dependent(e)
             PROVE  Entries[e].required \in findings
  BY DEF NoDependentEscapes
<1> QED
  BY FindingsAre, DependentIsFound

LEMMA JudgedRight == AuditInv => SeparatedOutputIsJudgedRight
<1> SUFFICES ASSUME AuditInv, phase = "done", AllHeads, NamedInOrder
             PROVE  findings = {Entries[e].required : e \in {x \in DOMAIN Entries : Dependent(x)}}
  BY DEF SeparatedOutputIsJudgedRight, AllHeads
<1>1. ASSUME NEW k \in DOMAIN Checks, Found(k)
      PROVE  \E e \in DOMAIN Entries : Dependent(e) /\ Checks[k].entry.required = Entries[e].required
  <2>1. PICK e \in DOMAIN Entries :
            /\ Checks[k].entry = Entries[e]
            /\ Checks[k].label \in {Entries[e].declarative, Entries[e].required}
    BY ChecksAre
  <2>2. Checks[k].label \in known
    BY LabelsAreNames DEF AllHeads
  <2>3. Mentions(body[Checks[k].label], Checks[k].entry.forbidden)
    BY <1>1, <2>2, FoundWhen
  <2> QED
    BY <2>1, <2>2, <2>3 DEF Dependent
<1> QED
  BY <1>1, FindingsAre, DependentIsFound

(* For every table whose entries forbid neither of the two names they print,    *)
(* and whatever the compiled environment has: what the audit keeps has its     *)
(* form, and the findings are required names of the table                     *)
(* (independence.rs:197).                                                    *)
THEOREM AuditTypes == AuditSpec => []AuditTypeOK
<1>1. AuditInv => AuditTypeOK
  BY DEF AuditInv
<1> QED
  BY <1>1, AuditBegins, AuditGoes, PTL DEF AuditSpec

(* For tables, environments and bodies of every size, and whatever names contain *)
(* others: an audit that ends over an output in which every block has its head, *)
(* and nothing printed earlier contains the text of a later label, rejects the  *)
(* entries that depend on an executable name, and no other                    *)
(* (independence.rs:194, 262).                                               *)
THEOREM SeparatedJudged == AuditSpec => []SeparatedOutputIsJudgedRight
  BY AuditBegins, AuditGoes, JudgedRight, PTL DEF AuditSpec

(* The same without the heads and without the labels being known: nothing that   *)
(* depends on an executable name is let through (independence.rs:194, 269).     *)
THEOREM EscapesNone == AuditSpec => []NoDependentEscapes
  BY AuditBegins, AuditGoes, NoneEscapes, PTL DEF AuditSpec

================================================================================
