------------------------------ MODULE Probe_proofs ------------------------------
(****************************************************************************)
(* Proofs about Probe, for any number of commands, tools and crashes.        *)
(****************************************************************************)
EXTENDS Probe, TLAPS

USE ProbeAssumption

(* A file on disk that was not given up belongs to a command that still holds a *)
(* handle on it and has its removal ahead.                                   *)
EveryFileIsHeld ==
    \A f \in Paths : file[f] # Absent /\ ~abandoned[f] =>
        \E p \in Procs : Uses(p, f) /\ linked[p]

(* What a command that is alone on its path may rely on at each step.         *)
AloneMeansOwn ==
    \A p \in Procs : alone[p] =>
        /\ pc[p] # "idle"
        /\ pc[p] = "opened" => linked[p]
        /\ pc[p] = "written" => file[PathOf[tool[p]]] = Holding(AsksOf[tool[p]])
        /\ pc[p] = "answered" =>
               heard[p] \in {Elaborated(Holding(AsksOf[tool[p]])), Unavailable}

ProbeInv == TypeOK /\ EveryFileIsHeld /\ AloneMeansOwn /\ LoneVerdictIsTrue

--------------------------------------------------------------------------------
(* lean answers about a set of declarations that is the file's and nothing else. *)
LEMMA AnswersAreTyped ==
    ASSUME NEW f \in Contents, forbidden \subseteq present, present \subseteq Decls
    PROVE  Elaborated(f) \in Answers
<1>1. CASE f = Absent
  BY <1>1 DEF Elaborated, Answers
<1>2. CASE f # Absent
  <2>1. PICK S \in SUBSET Decls : f = Holding(S)
    BY <1>2 DEF Contents
  <2> QED
    BY <1>2, <2>1 DEF Elaborated, Answers, Holding, Absent
<1> QED
  BY <1>1, <1>2

(* Judging the answer to one's own probe.                                    *)
LEMMA OwnAnswerJudgedRight ==
    ASSUME NEW t \in Tools,
           LET j == Judge(t, Elaborated(Holding(AsksOf[t]))) IN j.outcome = "pass"
    PROVE  LET j == Judge(t, Elaborated(Holding(AsksOf[t])))
           IN  /\ KindOf[t] = "audit" => AsksOf[t] \subseteq present \ forbidden
               /\ KindOf[t] = "presence" => j.credited = AsksOf[t] \cap present
               /\ KindOf[t] = "independence" /\ AsksOf[t] # {} => built
<1> DEFINE h == Elaborated(Holding(AsksOf[t]))
<1>1. Holding(AsksOf[t]) # Absent
  BY DEF Holding, Absent
<1>2. h = [kind |-> "answer", for |-> AsksOf[t] \cap present,
           bad |-> AsksOf[t] \cap forbidden,
           named |-> IF built THEN AsksOf[t] ELSE {},
           success |-> AsksOf[t] \subseteq present]
  BY <1>1 DEF Elaborated, Holding
<1>3. /\ h.kind = "answer"
      /\ h.for = AsksOf[t] \cap present
      /\ h.bad = AsksOf[t] \cap forbidden
      /\ ~built => h.named = {}
      /\ h.success = (AsksOf[t] \subseteq present)
  BY <1>2
<1> HIDE DEF h
<1>4. Judge(t, h).outcome = "pass"
  BY DEF h
<1>5. /\ KindOf[t] = "audit" => h.success /\ h.bad = {}
      /\ KindOf[t] = "presence" => Judge(t, h).credited = AsksOf[t] \cap h.for
      /\ KindOf[t] = "independence" => AsksOf[t] \subseteq h.named
  BY <1>3, <1>4 DEF Judge, Failed
<1> QED
  BY <1>3, <1>5 DEF h

LEMMA ProbeInit == Init => ProbeInv
<1> SUFFICES ASSUME Init PROVE ProbeInv
  OBVIOUS
<1>1. TypeOK
  BY DEF Init, TypeOK, Contents, Answers
<1>2. EveryFileIsHeld /\ AloneMeansOwn
  BY DEF Init, EveryFileIsHeld, AloneMeansOwn
<1>3. LoneVerdictIsTrue
  BY DEF Init, LoneVerdictIsTrue, NoVerdict
<1> QED
  BY <1>1, <1>2, <1>3 DEF ProbeInv

LEMMA OpenStep ==
    ASSUME ProbeInv, NEW p \in Procs, NEW t \in Tools, Open(p, t)
    PROVE  ProbeInv'
<1> DEFINE path == PathOf[t]
<1>1. path \in Paths
  BY DEF Paths
<1>2. /\ pc[p] = "idle" /\ pc' = [pc EXCEPT ![p] = "opened"]
      /\ tool' = [tool EXCEPT ![p] = t]
      /\ file' = [file EXCEPT ![path] = Holding({})]
      /\ linked' = [linked EXCEPT ![p] = TRUE]
      /\ abandoned' = [abandoned EXCEPT ![path] = FALSE]
      /\ UNCHANGED <<built, present, forbidden, heard, verdict, crashes>>
  BY DEF Open, environment
<1>3. /\ alone' \in [Procs -> BOOLEAN]
      /\ \A q \in Procs \ {p} : alone'[q] => alone[q] /\ ~Uses(q, path)
  BY DEF Open, Disturb, Alone, ProbeInv, TypeOK
<1>4. TypeOK'
  <2>1. Holding({}) \in Contents /\ Holding({}) # Absent
    BY DEF Contents, Holding, Absent
  <2> QED
    <3>1. /\ file' \in [Paths -> Contents]
          /\ pc' \in [Procs -> {"idle", "opened", "written", "answered"}]
          /\ tool' \in [Procs -> Tools \cup {"none"}]
          /\ linked' \in [Procs -> BOOLEAN]
      BY <1>1, <1>2, <2>1 DEF ProbeInv, TypeOK
    <3>2. ASSUME NEW q \in Procs
          PROVE  /\ pc'[q] = "idle" <=> tool'[q] = "none"
                 /\ linked'[q] => /\ pc'[q] # "idle"
                                  /\ file'[PathOf[tool'[q]]] # Absent
      <4>1. CASE q = p
        BY <1>1, <1>2, <2>1, <4>1 DEF ProbeInv, TypeOK
      <4>2. CASE q # p
        <5>1. /\ tool'[q] = tool[q] /\ pc'[q] = pc[q] /\ linked'[q] = linked[q]
              /\ pc[q] = "idle" <=> tool[q] = "none"
              /\ linked[q] => pc[q] # "idle" /\ file[PathOf[tool[q]]] # Absent
          BY <1>2, <4>2 DEF ProbeInv, TypeOK
        <5>2. linked[q] => PathOf[tool[q]] \in Paths
          BY <5>1 DEF ProbeInv, TypeOK, Paths
        <5> QED
          BY <1>2, <2>1, <5>1, <5>2 DEF ProbeInv, TypeOK
      <4> QED
        BY <4>1, <4>2
    <3> QED
      BY <1>2, <1>3, <3>1, <3>2 DEF ProbeInv, TypeOK
<1>5. EveryFileIsHeld'
  BY <1>1, <1>2 DEF ProbeInv, TypeOK, EveryFileIsHeld, Uses
<1>6. AloneMeansOwn'
  <2> SUFFICES ASSUME NEW q \in Procs, alone'[q]
               PROVE  /\ pc'[q] # "idle"
                      /\ pc'[q] = "opened" => linked'[q]
                      /\ pc'[q] = "written" =>
                             file'[PathOf[tool'[q]]] = Holding(AsksOf[tool'[q]])
                      /\ pc'[q] = "answered" =>
                             heard'[q] \in {Elaborated(Holding(AsksOf[tool[q]]))', Unavailable}
    BY <1>2 DEF AloneMeansOwn, ProbeInv, TypeOK, Elaborated
  <2>1. CASE q = p
    BY <1>2, <2>1 DEF ProbeInv, TypeOK
  <2>2. CASE q # p
    <3>1. tool'[q] = tool[q] /\ pc'[q] = pc[q] /\ linked'[q] = linked[q] /\ heard'[q] = heard[q]
      BY <1>2, <2>2 DEF ProbeInv, TypeOK
    <3>2. alone[q] /\ ~Uses(q, path)
      BY <1>3, <2>2
    <3>3. tool[q] \in Tools /\ PathOf[tool[q]] # path
      BY <3>2 DEF Uses, ProbeInv, TypeOK, AloneMeansOwn
    <3>4. file'[PathOf[tool[q]]] = file[PathOf[tool[q]]]
      BY <1>2, <3>3 DEF ProbeInv, TypeOK, Paths
    <3>5. Elaborated(Holding(AsksOf[tool[q]]))' = Elaborated(Holding(AsksOf[tool'[q]]))
      BY <1>2, <3>1 DEF Elaborated
    <3> QED
      BY <1>2, <3>1, <3>2, <3>4, <3>5 DEF ProbeInv, AloneMeansOwn
  <2> QED
    BY <2>1, <2>2
<1>7. LoneVerdictIsTrue'
  BY <1>2 DEF ProbeInv, LoneVerdictIsTrue
<1> QED
  BY <1>4, <1>5, <1>6, <1>7 DEF ProbeInv

LEMMA WriteStep ==
    ASSUME ProbeInv, NEW p \in Procs, Write(p)
    PROVE  ProbeInv'
<1> DEFINE path == PathOf[tool[p]]
<1>1. /\ pc[p] = "opened" /\ tool[p] \in Tools /\ path \in Paths
      /\ pc' = [pc EXCEPT ![p] = "written"]
      /\ file' = IF linked[p] THEN [file EXCEPT ![path] = Holding(AsksOf[tool[p]])]
                              ELSE file
      /\ UNCHANGED <<built, present, forbidden, tool, linked, heard, abandoned, verdict, crashes>>
  BY DEF Write, environment, Paths, ProbeInv, TypeOK
<1>2. /\ alone' \in [Procs -> BOOLEAN]
      /\ \A q \in Procs : alone'[q] => alone[q] /\ (q = p \/ ~Uses(q, path))
  BY DEF Write, Disturb, ProbeInv, TypeOK
<1>3. Holding(AsksOf[tool[p]]) \in Contents /\ Holding(AsksOf[tool[p]]) # Absent
  BY <1>1 DEF Contents, Holding, Absent
<1>4. TypeOK'
  <2>1. /\ file' \in [Paths -> Contents]
        /\ pc' \in [Procs -> {"idle", "opened", "written", "answered"}]
    BY <1>1, <1>3 DEF ProbeInv, TypeOK
  <2>2. ASSUME NEW q \in Procs
        PROVE  /\ pc'[q] = "idle" <=> tool'[q] = "none"
               /\ linked'[q] => /\ pc'[q] # "idle"
                                /\ file'[PathOf[tool'[q]]] # Absent
    <3>1. /\ pc'[q] = "idle" <=> pc[q] = "idle"
          /\ pc[q] = "idle" <=> tool[q] = "none"
          /\ linked[q] => pc[q] # "idle" /\ file[PathOf[tool[q]]] # Absent
      BY <1>1 DEF ProbeInv, TypeOK
    <3>2. linked[q] => PathOf[tool[q]] \in Paths
      BY <3>1 DEF ProbeInv, TypeOK, Paths
    <3> QED
      BY <1>1, <1>3, <3>1, <3>2 DEF ProbeInv, TypeOK
  <2> QED
    BY <1>1, <1>2, <2>1, <2>2 DEF ProbeInv, TypeOK
<1>5. EveryFileIsHeld'
  <2> SUFFICES ASSUME NEW f \in Paths, file'[f] # Absent, ~abandoned[f]
               PROVE  \E q \in Procs : Uses(q, f) /\ linked[q]
    BY <1>1 DEF EveryFileIsHeld, Uses
  <2>1. CASE file[f] # Absent
    BY <2>1 DEF ProbeInv, EveryFileIsHeld
  <2>2. CASE file[f] = Absent
    <3>1. linked[p] /\ f = path
      BY <1>1, <2>2 DEF ProbeInv, TypeOK
    <3> QED
      BY <1>1, <2>2, <3>1 DEF ProbeInv, TypeOK, Uses
  <2> QED
    BY <2>1, <2>2
<1>6. AloneMeansOwn'
  <2> SUFFICES ASSUME NEW q \in Procs, alone'[q]
               PROVE  /\ pc'[q] # "idle"
                      /\ pc'[q] = "opened" => linked[q]
                      /\ pc'[q] = "written" =>
                             file'[PathOf[tool[q]]] = Holding(AsksOf[tool[q]])
                      /\ pc'[q] = "answered" =>
                             heard[q] \in {Elaborated(Holding(AsksOf[tool[q]])), Unavailable}
    BY <1>1 DEF AloneMeansOwn, Elaborated
  <2>1. CASE q = p
    <3>1. linked[p]
      BY <1>1, <1>2, <2>1 DEF ProbeInv, AloneMeansOwn
    <3> QED
      BY <1>1, <2>1, <3>1 DEF ProbeInv, TypeOK
  <2>2. CASE q # p
    <3>1. pc'[q] = pc[q] /\ alone[q] /\ ~Uses(q, path)
      BY <1>1, <1>2, <2>2 DEF ProbeInv, TypeOK
    <3>2. PathOf[tool[q]] # path /\ PathOf[tool[q]] \in Paths
      BY <3>1 DEF Uses, ProbeInv, TypeOK, AloneMeansOwn, Paths
    <3>3. file'[PathOf[tool[q]]] = file[PathOf[tool[q]]]
      BY <1>1, <3>2 DEF ProbeInv, TypeOK
    <3> QED
      BY <3>1, <3>3 DEF ProbeInv, AloneMeansOwn
  <2> QED
    BY <2>1, <2>2
<1>7. LoneVerdictIsTrue'
  BY <1>1 DEF ProbeInv, LoneVerdictIsTrue
<1> QED
  BY <1>4, <1>5, <1>6, <1>7 DEF ProbeInv

LEMMA ElaborateStep ==
    ASSUME ProbeInv, NEW p \in Procs, Elaborate(p)
    PROVE  ProbeInv'
<1> DEFINE path == PathOf[tool[p]]
<1>1. PICK h \in {Elaborated(file[path]), Unavailable} : heard' = [heard EXCEPT ![p] = h]
  BY DEF Elaborate
<1>2. /\ pc[p] = "written" /\ tool[p] \in Tools /\ path \in Paths
      /\ pc' = [pc EXCEPT ![p] = "answered"]
      /\ UNCHANGED <<built, present, forbidden, file, tool, linked, alone, abandoned, verdict, crashes>>
  BY DEF Elaborate, environment, Paths, ProbeInv, TypeOK
<1>3. TypeOK'
  <2>1. h \in Answers
    <3>1. file[path] \in Contents /\ forbidden \subseteq present /\ present \subseteq Decls
      BY <1>2 DEF ProbeInv, TypeOK
    <3>2. Elaborated(file[path]) \in Answers
      BY <3>1, AnswersAreTyped
    <3> QED
      BY <3>2 DEF Answers
  <2>2. heard' \in [Procs -> Answers]
    BY <1>1, <2>1 DEF ProbeInv, TypeOK
  <2> QED
    BY <1>2, <2>2 DEF ProbeInv, TypeOK
<1>4. EveryFileIsHeld'
  BY <1>2 DEF ProbeInv, EveryFileIsHeld, Uses
<1>5. AloneMeansOwn'
  <2> SUFFICES ASSUME NEW q \in Procs, alone[q]
               PROVE  /\ pc'[q] # "idle"
                      /\ pc'[q] = "opened" => linked[q]
                      /\ pc'[q] = "written" =>
                             file[PathOf[tool[q]]] = Holding(AsksOf[tool[q]])
                      /\ pc'[q] = "answered" =>
                             heard'[q] \in {Elaborated(Holding(AsksOf[tool[q]])), Unavailable}
    BY <1>2 DEF AloneMeansOwn, Elaborated
  <2>1. CASE q = p
    <3>1. file[path] = Holding(AsksOf[tool[p]])
      BY <1>2, <2>1 DEF ProbeInv, AloneMeansOwn
    <3>2. heard'[p] = h /\ pc'[p] = "answered"
      BY <1>1, <1>2 DEF ProbeInv, TypeOK
    <3> QED
      BY <2>1, <3>1, <3>2
  <2>2. CASE q # p
    <3>1. pc'[q] = pc[q] /\ heard'[q] = heard[q]
      BY <1>1, <1>2, <2>2 DEF ProbeInv, TypeOK
    <3> QED
      BY <3>1 DEF ProbeInv, AloneMeansOwn
  <2> QED
    BY <2>1, <2>2
<1>6. LoneVerdictIsTrue'
  BY <1>2 DEF ProbeInv, LoneVerdictIsTrue
<1> QED
  BY <1>3, <1>4, <1>5, <1>6 DEF ProbeInv

(* A command leaves its path, with or without removing what is there.         *)
LEMMA LeaveKeepsAloneMeansOwn ==
    ASSUME ProbeInv, NEW p \in Procs, pc[p] # "idle", Leave(p),
           UNCHANGED environment,
           \A q \in Procs : ~Uses(q, PathOf[tool[p]]) => linked'[q] = linked[q],
           \A f \in Paths : f # PathOf[tool[p]] => file'[f] = file[f]
    PROVE  AloneMeansOwn'
<1> SUFFICES ASSUME NEW q \in Procs, alone'[q]
             PROVE  /\ pc'[q] # "idle"
                    /\ pc'[q] = "opened" => linked'[q]
                    /\ pc'[q] = "written" =>
                           file'[PathOf[tool'[q]]] = Holding(AsksOf[tool'[q]])
                    /\ pc'[q] = "answered" =>
                           heard'[q] \in {Elaborated(Holding(AsksOf[tool'[q]])), Unavailable}
  BY DEF AloneMeansOwn, Elaborated, environment
<1>1. q # p /\ alone[q] /\ ~Uses(q, PathOf[tool[p]])
  BY DEF Leave, Disturb, ProbeInv, TypeOK
<1>2. tool'[q] = tool[q] /\ pc'[q] = pc[q] /\ heard'[q] = heard[q]
  BY <1>1 DEF Leave, ProbeInv, TypeOK
<1>3. linked'[q] = linked[q]
  BY <1>1
<1>4. PathOf[tool[q]] # PathOf[tool[p]] /\ PathOf[tool[q]] \in Paths
  BY <1>1 DEF Uses, ProbeInv, TypeOK, AloneMeansOwn, Paths
<1>5. file'[PathOf[tool[q]]] = file[PathOf[tool[q]]]
  BY <1>4
<1> QED
  BY <1>1, <1>2, <1>3, <1>5 DEF ProbeInv, AloneMeansOwn

(* What leaving does to the command itself.                                   *)
LEMMA LeaveIsTyped ==
    ASSUME ProbeInv, NEW p \in Procs, Leave(p)
    PROVE  /\ pc' = [pc EXCEPT ![p] = "idle"]
           /\ tool' = [tool EXCEPT ![p] = "none"]
           /\ heard' \in [Procs -> Answers]
           /\ alone' \in [Procs -> BOOLEAN]
<1>1. heard' = [heard EXCEPT ![p] = Nothing] /\ Nothing \in Answers
  BY DEF Leave, Answers
<1> QED
  BY <1>1 DEF Leave, Disturb, ProbeInv, TypeOK

(* A command that gives up what it holds, as it was or partly written.        *)
LEMMA GivenUp ==
    ASSUME ProbeInv, NEW p \in Procs, pc[p] # "idle", Abandon(p), Leave(p),
           UNCHANGED environment, crashes' \in 0 .. MaxCrashes,
           NEW S \in SUBSET Decls,
           \/ file' = file
           \/ linked[p] /\ file' = [file EXCEPT ![PathOf[tool[p]]] = Holding(S)]
    PROVE  TypeOK' /\ EveryFileIsHeld' /\ AloneMeansOwn'
<1> DEFINE path == PathOf[tool[p]]
<1>1. /\ tool[p] \in Tools /\ path \in Paths
      /\ linked' = [linked EXCEPT ![p] = FALSE]
      /\ abandoned' = [abandoned EXCEPT ![path] = @ \/ linked[p]]
      /\ UNCHANGED <<built, present, forbidden>>
  BY DEF Abandon, environment, Paths, ProbeInv, TypeOK
<1>2. /\ pc' = [pc EXCEPT ![p] = "idle"] /\ tool' = [tool EXCEPT ![p] = "none"]
      /\ heard' \in [Procs -> Answers] /\ alone' \in [Procs -> BOOLEAN]
  BY LeaveIsTyped
<1>3. /\ file' \in [Paths -> Contents]
      /\ \A f \in Paths : f # path => file'[f] = file[f]
      /\ \A f \in Paths : file[f] # Absent => file'[f] # Absent
      /\ ~linked[p] => file' = file
  <2>1. Holding(S) \in Contents /\ Holding(S) # Absent
    BY DEF Contents, Holding, Absent
  <2> QED
    BY <1>1, <2>1 DEF ProbeInv, TypeOK
<1>4. TypeOK'
  <2>1. ASSUME NEW q \in Procs
        PROVE  /\ pc'[q] = "idle" <=> tool'[q] = "none"
               /\ linked'[q] => /\ pc'[q] # "idle"
                                /\ file'[PathOf[tool'[q]]] # Absent
    <3>1. /\ pc[q] = "idle" <=> tool[q] = "none"
          /\ linked[q] => pc[q] # "idle" /\ file[PathOf[tool[q]]] # Absent
      BY DEF ProbeInv, TypeOK
    <3>2. linked'[q] => q # p /\ linked[q]
      BY <1>1 DEF ProbeInv, TypeOK
    <3>3. linked'[q] => PathOf[tool[q]] \in Paths
      BY <3>1, <3>2 DEF ProbeInv, TypeOK, Paths
    <3> QED
      BY <1>2, <1>3, <3>1, <3>2, <3>3 DEF ProbeInv, TypeOK
  <2>2. /\ abandoned' \in [Paths -> BOOLEAN] /\ linked' \in [Procs -> BOOLEAN]
        /\ pc' \in [Procs -> {"idle", "opened", "written", "answered"}]
        /\ tool' \in [Procs -> Tools \cup {"none"}]
    BY <1>1, <1>2 DEF ProbeInv, TypeOK
  <2> QED
    BY <1>1, <1>2, <1>3, <2>1, <2>2 DEF ProbeInv, TypeOK
<1>5. EveryFileIsHeld'
  <2> SUFFICES ASSUME NEW f \in Paths, file'[f] # Absent, ~abandoned'[f]
               PROVE  \E q \in Procs : Uses(q, f)' /\ linked'[q]
    BY DEF EveryFileIsHeld
  <2>1. ~abandoned[f] /\ (f = path => ~linked[p])
    BY <1>1 DEF ProbeInv, TypeOK
  <2>2. file[f] # Absent
    BY <1>3, <2>1
  <2>3. PICK q \in Procs : Uses(q, f) /\ linked[q]
    BY <2>1, <2>2 DEF ProbeInv, EveryFileIsHeld
  <2>4. q # p
    BY <2>1, <2>3 DEF Uses
  <2> QED
    BY <1>1, <1>2, <2>3, <2>4 DEF Uses, ProbeInv, TypeOK
<1>6. AloneMeansOwn'
  <2>1. \A q \in Procs : ~Uses(q, path) => linked'[q] = linked[q]
    BY <1>1 DEF Uses, ProbeInv, TypeOK
  <2> QED
    BY <1>3, <2>1, LeaveKeepsAloneMeansOwn
<1> QED
  BY <1>4, <1>5, <1>6

(* A command that removes what is at its path.                               *)
LEMMA TakenAway ==
    ASSUME ProbeInv, NEW p \in Procs, pc[p] # "idle", Remove(PathOf[tool[p]]), Leave(p),
           UNCHANGED <<environment, crashes>>
    PROVE  TypeOK' /\ EveryFileIsHeld' /\ AloneMeansOwn'
<1> DEFINE path == PathOf[tool[p]]
<1>1. /\ tool[p] \in Tools /\ path \in Paths
      /\ file' = [file EXCEPT ![path] = Absent]
      /\ linked' = [q \in Procs |-> linked[q] /\ ~Uses(q, path)]
      /\ abandoned' = [abandoned EXCEPT ![path] = FALSE]
      /\ UNCHANGED <<built, present, forbidden, crashes>>
  BY DEF Remove, environment, Paths, ProbeInv, TypeOK
<1>2. /\ pc' = [pc EXCEPT ![p] = "idle"] /\ tool' = [tool EXCEPT ![p] = "none"]
      /\ heard' \in [Procs -> Answers] /\ alone' \in [Procs -> BOOLEAN]
  BY LeaveIsTyped
<1>3. TypeOK'
  <2>1. /\ file' \in [Paths -> Contents] /\ abandoned' \in [Paths -> BOOLEAN]
        /\ linked' \in [Procs -> BOOLEAN]
    BY <1>1 DEF ProbeInv, TypeOK, Contents
  <2>2. ASSUME NEW q \in Procs
        PROVE  /\ pc'[q] = "idle" <=> tool'[q] = "none"
               /\ linked'[q] => /\ pc'[q] # "idle"
                                /\ file'[PathOf[tool'[q]]] # Absent
    <3>1. /\ pc[q] = "idle" <=> tool[q] = "none"
          /\ linked[q] => pc[q] # "idle" /\ file[PathOf[tool[q]]] # Absent
      BY DEF ProbeInv, TypeOK
    <3>2. linked'[q] => linked[q] /\ PathOf[tool[q]] # path /\ tool[q] \in Tools
      BY <1>1, <3>1 DEF Uses, ProbeInv, TypeOK
    <3>3. linked'[q] => file'[PathOf[tool[q]]] = file[PathOf[tool[q]]]
      BY <1>1, <3>2 DEF ProbeInv, TypeOK, Paths
    <3>4. linked'[q] => q # p
      BY <3>2
    <3> QED
      BY <1>2, <3>1, <3>2, <3>3, <3>4 DEF ProbeInv, TypeOK
  <2>3. /\ pc' \in [Procs -> {"idle", "opened", "written", "answered"}]
        /\ tool' \in [Procs -> Tools \cup {"none"}]
    BY <1>2 DEF ProbeInv, TypeOK
  <2> QED
    BY <1>1, <1>2, <2>1, <2>2, <2>3 DEF ProbeInv, TypeOK
<1>4. EveryFileIsHeld'
  <2> SUFFICES ASSUME NEW f \in Paths, file'[f] # Absent, ~abandoned'[f]
               PROVE  \E q \in Procs : Uses(q, f)' /\ linked'[q]
    BY DEF EveryFileIsHeld
  <2>1. f # path /\ file[f] # Absent /\ ~abandoned[f]
    BY <1>1 DEF ProbeInv, TypeOK
  <2>2. PICK q \in Procs : Uses(q, f) /\ linked[q]
    BY <2>1 DEF ProbeInv, EveryFileIsHeld
  <2>3. q # p /\ ~Uses(q, path)
    BY <2>1, <2>2 DEF Uses
  <2> QED
    BY <1>1, <1>2, <2>2, <2>3 DEF Uses, ProbeInv, TypeOK
<1>5. AloneMeansOwn'
  <2>1. \A q \in Procs : ~Uses(q, path) => linked'[q] = linked[q]
    BY <1>1 DEF ProbeInv, TypeOK
  <2>2. \A f \in Paths : f # path => file'[f] = file[f]
    BY <1>1 DEF ProbeInv, TypeOK
  <2> QED
    BY <2>1, <2>2, LeaveKeepsAloneMeansOwn
<1> QED
  BY <1>3, <1>4, <1>5

(* An error is no pass.                                                      *)
LEMMA OpenFailsStep ==
    ASSUME ProbeInv, NEW p \in Procs, NEW t \in Tools, OpenFails(p, t)
    PROVE  ProbeInv'
<1>1. LoneVerdictIsTrue'
  BY DEF OpenFails, LoneVerdictIsTrue
<1> QED
  BY <1>1 DEF OpenFails, environment, ProbeInv, TypeOK, EveryFileIsHeld, AloneMeansOwn,
              Uses, Elaborated

LEMMA WriteFailsStep ==
    ASSUME ProbeInv, NEW p \in Procs, WriteFails(p)
    PROVE  ProbeInv'
<1>1. pc[p] = "opened" /\ tool[p] \in Tools
  BY DEF WriteFails, ProbeInv, TypeOK
<1>2. PICK S \in SUBSET AsksOf[tool[p]] :
          file' = IF linked[p] THEN [file EXCEPT ![PathOf[tool[p]]] = Holding(S)] ELSE file
  BY DEF WriteFails
<1>3. S \in SUBSET Decls
  BY <1>1, <1>2
<1>4. TypeOK' /\ EveryFileIsHeld' /\ AloneMeansOwn'
  <2>1. /\ Abandon(p) /\ Leave(p) /\ UNCHANGED environment
        /\ crashes' \in 0 .. MaxCrashes
    BY DEF WriteFails, ProbeInv, TypeOK
  <2> QED
    BY <1>1, <1>2, <1>3, <2>1, GivenUp
<1>5. LoneVerdictIsTrue'
  BY DEF WriteFails, Report, Failed, LoneVerdictIsTrue
<1> QED
  BY <1>4, <1>5 DEF ProbeInv

LEMMA ConcludeStep ==
    ASSUME ProbeInv, NEW p \in Procs, Conclude(p)
    PROVE  ProbeInv'
<1> DEFINE j == Judge(tool[p], heard[p])
<1>1. /\ pc[p] = "answered" /\ tool[p] \in Tools
      /\ Leave(p) /\ UNCHANGED <<environment, crashes>>
      /\ verdict' = [tool |-> tool[p], outcome |-> j.outcome,
                     alone |-> alone[p], credited |-> j.credited]
  BY DEF Conclude, Report, ProbeInv, TypeOK
<1>2. TypeOK' /\ EveryFileIsHeld' /\ AloneMeansOwn'
  <2>1. CASE Remove(PathOf[tool[p]])
    BY <1>1, <2>1, TakenAway
  <2>2. CASE Abandon(p) /\ UNCHANGED file
    <3>1. crashes' \in 0 .. MaxCrashes /\ {} \in SUBSET Decls
      BY <1>1 DEF ProbeInv, TypeOK
    <3> QED
      BY <1>1, <2>2, <3>1, GivenUp
  <2> QED
    BY <2>1, <2>2 DEF Conclude
<1>3. LoneVerdictIsTrue'
  <2> SUFFICES ASSUME alone[p], j.outcome = "pass"
               PROVE  /\ KindOf[tool[p]] = "audit" => AsksOf[tool[p]] \subseteq present \ forbidden
                      /\ KindOf[tool[p]] = "presence" => j.credited = AsksOf[tool[p]] \cap present
                      /\ KindOf[tool[p]] = "independence" /\ AsksOf[tool[p]] # {} => built
    BY <1>1 DEF LoneVerdictIsTrue, environment
  <2>1. heard[p] \in {Elaborated(Holding(AsksOf[tool[p]])), Unavailable}
    BY <1>1 DEF ProbeInv, AloneMeansOwn
  <2>2. heard[p] # Unavailable
    BY DEF Judge, Unavailable, Failed
  <2>3. heard[p] = Elaborated(Holding(AsksOf[tool[p]]))
    BY <2>1, <2>2
  <2> QED
    BY <1>1, <2>3, OwnAnswerJudgedRight
<1> QED
  BY <1>2, <1>3 DEF ProbeInv

LEMMA CrashStep ==
    ASSUME ProbeInv, NEW p \in Procs, Crash(p)
    PROVE  ProbeInv'
<1>1. /\ pc[p] # "idle" /\ Abandon(p) /\ Leave(p)
      /\ crashes' \in 0 .. MaxCrashes /\ {} \in SUBSET Decls
      /\ UNCHANGED <<environment, file, verdict>>
  BY DEF Crash, ProbeInv, TypeOK
<1>2. TypeOK' /\ EveryFileIsHeld' /\ AloneMeansOwn'
  BY <1>1, GivenUp
<1>3. LoneVerdictIsTrue'
  BY <1>1 DEF ProbeInv, LoneVerdictIsTrue, environment
<1> QED
  BY <1>2, <1>3 DEF ProbeInv

LEMMA ProbeNext == ProbeInv /\ [Next]_vars => ProbeInv'
<1> SUFFICES ASSUME ProbeInv, [Next]_vars PROVE ProbeInv'
  OBVIOUS
<1>1. ASSUME NEW p \in Procs, NEW t \in Tools, Open(p, t) PROVE ProbeInv'
  BY <1>1, OpenStep
<1>2. ASSUME NEW p \in Procs, Write(p) PROVE ProbeInv'
  BY <1>2, WriteStep
<1>3. ASSUME NEW p \in Procs, Elaborate(p) PROVE ProbeInv'
  BY <1>3, ElaborateStep
<1>4. ASSUME NEW p \in Procs, Conclude(p) PROVE ProbeInv'
  BY <1>4, ConcludeStep
<1>5. ASSUME NEW p \in Procs, Crash(p) PROVE ProbeInv'
  BY <1>5, CrashStep
<1>6. ASSUME NEW p \in Procs, NEW t \in Tools, OpenFails(p, t) PROVE ProbeInv'
  BY <1>6, OpenFailsStep
<1>7. ASSUME NEW p \in Procs, WriteFails(p) PROVE ProbeInv'
  BY <1>7, WriteFailsStep
<1>8. CASE UNCHANGED vars
  BY <1>8 DEF vars, environment, ProbeInv, TypeOK, EveryFileIsHeld, AloneMeansOwn, Uses,
              Elaborated, LoneVerdictIsTrue
<1> QED
  BY <1>1, <1>2, <1>3, <1>4, <1>5, <1>6, <1>7, <1>8 DEF Next

--------------------------------------------------------------------------------
(* Every variable keeps its type, for any number of commands.                *)
THEOREM ProbeTypes == Spec => []TypeOK
<1>1. ProbeInv => TypeOK
  BY DEF ProbeInv
<1> QED
  BY <1>1, ProbeInit, ProbeNext, PTL DEF Spec

(* A probe nobody is using was given up by a command that was killed or had a   *)
(* system call fail, however many commands share its path.                    *)
THEOREM ProbesAreRemoved == Spec => []NoLeftover
<1>1. ProbeInv => NoLeftover
  BY DEF ProbeInv, EveryFileIsHeld, NoLeftover
<1> QED
  BY <1>1, ProbeInit, ProbeNext, PTL DEF Spec

(* A conclusion drawn alone on its path is true of the compiled environment,   *)
(* whatever files killed commands have left.                                 *)
THEOREM LoneVerdicts == Spec => []LoneVerdictIsTrue
<1>1. ProbeInv => LoneVerdictIsTrue
  BY DEF ProbeInv
<1> QED
  BY <1>1, ProbeInit, ProbeNext, PTL DEF Spec

================================================================================
