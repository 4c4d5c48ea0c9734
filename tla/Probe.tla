---------------------------------- MODULE Probe ----------------------------------
(****************************************************************************)
(* probe_source of lean.rs and the tools that judge what it returns.  Every    *)
(* question to the compiled environment is a file: it is written at a fixed    *)
(* path in the repository root, elaborated by a `lean` subprocess and deleted. *)
(* Several commands may run at once, some of them use the same path, any of    *)
(* them may be killed between two system calls, and every call may fail: a     *)
(* failed write ends probe_source before the file is deleted (lean.rs:257),    *)
(* and a failed deletion is not looked at (lean.rs:266).                      *)
(****************************************************************************)
EXTENDS Integers, FiniteSets

CONSTANTS
    Procs,        \* commands that may run at the same time
    Tools,        \* the questions
    KindOf,       \* "audit", "presence" or "independence"
    PathOf,       \* where the tool writes its probe
    AsksOf,       \* the declarations its probe prints
    Decls,        \* declaration names
    MaxCrashes    \* bound on the commands killed

ASSUME ProbeAssumption ==
    /\ "none" \notin Tools
    /\ KindOf \in [Tools -> {"audit", "presence", "independence"}]
    /\ AsksOf \in [Tools -> SUBSET Decls]
    /\ MaxCrashes \in Nat

Paths == {PathOf[t] : t \in Tools}

VARIABLES
    built,        \* the compiled environment can be imported
    present,      \* declarations it has
    forbidden,    \* those whose closure holds a forbidden axiom
    file,         \* Paths -> what is on disk
    pc,           \* where each command is in probe_source
    tool,         \* the question it asks, or "none"
    linked,       \* the file it opened is still the one at the path
    heard,        \* what lean told it
    alone,        \* nobody else has used its path since it opened it
    abandoned,    \* Paths -> what is there was given up by whom it belonged to
    verdict,      \* the last conclusion anyone drew
    crashes

environment == <<built, present, forbidden>>
vars == <<environment, file, pc, tool, linked, heard, alone, abandoned, verdict, crashes>>

(* A file is missing or holds a set of `#print` lines; {} is a truncated file. *)
Absent == [exists |-> FALSE]
Holding(S) == [exists |-> TRUE, asks |-> S]
Contents == {Absent} \cup {Holding(S) : S \in SUBSET Decls}

(* What lean prints: nothing was heard, lean could not be started, or the      *)
(* declarations it answered for, those it found forbidden axioms in, those     *)
(* whose name occurs in what it printed, errors included, and whether it       *)
(* exited with success.                                                      *)
Nothing     == [kind |-> "nothing"]
Unavailable == [kind |-> "unavailable"]
Answers == {Nothing, Unavailable}
    \cup [kind : {"answer"}, for : SUBSET Decls, bad : SUBSET Decls,
          named : SUBSET Decls, success : BOOLEAN]

NoVerdict == [tool |-> "none", outcome |-> "none", alone |-> FALSE, credited |-> {}]

--------------------------------------------------------------------------------
(* The lean subprocess (external): a missing file, an environment that cannot  *)
(* be imported or an unknown declaration is an error; the last of them names   *)
(* the declaration, the first two name none.  A file with no `#print` line     *)
(* elaborates without a word.                                                *)
Elaborated(f) ==
    IF f = Absent
    THEN [kind |-> "answer", for |-> {}, bad |-> {}, named |-> {}, success |-> FALSE]
    ELSE [kind |-> "answer", for |-> f.asks \cap present,
          bad |-> f.asks \cap forbidden,
          named |-> IF built THEN f.asks ELSE {},
          success |-> f.asks \subseteq present]

Failed == [outcome |-> "error", credited |-> {}]

(* Fault: the exit status is not looked at, so a declaration lean does not     *)
(* know counts as audited.                                                   *)
JudgeIgnoringExit(t, h) ==
    IF h.kind = "unavailable" THEN Failed
    ELSE IF KindOf[t] = "audit"
    THEN [outcome |-> IF h.bad = {} THEN "pass" ELSE "fail", credited |-> {}]
    ELSE [outcome |-> "pass", credited |-> AsksOf[t] \cap h.for]

(* The audits of axioms.rs and of gate step 3 pass when lean succeeded and no   *)
(* forbidden axiom was printed.  The presence probes credit what was answered. *)
(* independence.rs searches all that was printed for the name of each         *)
(* declaration, takes the first place for its answer and is an error when      *)
(* there is none; what it makes of the answers is module Independence.        *)
Judge(t, h) ==
    IF h.kind = "unavailable" THEN Failed
    ELSE CASE KindOf[t] = "audit" ->
                 [outcome |-> IF h.success /\ h.bad = {} THEN "pass" ELSE "fail",
                  credited |-> {}]
           [] KindOf[t] = "presence" ->
                 [outcome |-> "pass", credited |-> AsksOf[t] \cap h.for]
           [] KindOf[t] = "independence" ->
                 IF AsksOf[t] \subseteq h.named
                 THEN [outcome |-> "pass", credited |-> {}] ELSE Failed

Init ==
    /\ built \in BOOLEAN
    /\ present \in IF built THEN SUBSET Decls ELSE {{}}
    /\ forbidden \in SUBSET present
    /\ file = [f \in Paths |-> Absent]
    /\ pc = [p \in Procs |-> "idle"]
    /\ tool = [p \in Procs |-> "none"]
    /\ linked = [p \in Procs |-> FALSE]
    /\ heard = [p \in Procs |-> Nothing]
    /\ alone = [p \in Procs |-> FALSE]
    /\ abandoned = [f \in Paths |-> FALSE]
    /\ verdict = NoVerdict
    /\ crashes = 0

Uses(q, path) == tool[q] # "none" /\ PathOf[tool[q]] = path

(* p has just used its path: whoever else is using it is no longer alone.      *)
Disturb(p, path) == [q \in Procs |-> alone[q] /\ (q = p \/ ~Uses(q, path))]

Alone(p, path) == \A q \in Procs \ {p} : ~Uses(q, path)

(* p is through with its path, and forgets what it asked.                     *)
Leave(p) ==
    /\ pc' = [pc EXCEPT ![p] = "idle"]
    /\ tool' = [tool EXCEPT ![p] = "none"]
    /\ heard' = [heard EXCEPT ![p] = Nothing]
    /\ alone' = [Disturb(p, PathOf[tool[p]]) EXCEPT ![p] = FALSE]

(* p gives up its file without removing it.                                  *)
Abandon(p) ==
    /\ linked' = [linked EXCEPT ![p] = FALSE]
    /\ abandoned' = [abandoned EXCEPT ![PathOf[tool[p]]] = @ \/ linked[p]]

(* Nothing is left at the path: a handle someone has is not the file there.    *)
Remove(path) ==
    /\ file' = [file EXCEPT ![path] = Absent]
    /\ linked' = [q \in Procs |-> linked[q] /\ ~Uses(q, path)]
    /\ abandoned' = [abandoned EXCEPT ![path] = FALSE]

(* What p concludes from j.                                                  *)
Report(p, j) ==
    verdict' = [tool |-> tool[p], outcome |-> j.outcome,
                alone |-> alone[p], credited |-> j.credited]

(* fs::write opens and truncates the file, or creates it; what an earlier      *)
(* command gave up there is now this one's.                                  *)
Open(p, t) ==
    LET path == PathOf[t]
    IN  /\ pc[p] = "idle"
        /\ pc' = [pc EXCEPT ![p] = "opened"]
        /\ tool' = [tool EXCEPT ![p] = t]
        /\ file' = [file EXCEPT ![path] = Holding({})]
        /\ linked' = [linked EXCEPT ![p] = TRUE]
        /\ alone' = [Disturb(p, path) EXCEPT ![p] = Alone(p, path)]
        /\ abandoned' = [abandoned EXCEPT ![path] = FALSE]
        /\ UNCHANGED <<environment, heard, verdict, crashes>>

(* The file cannot be opened: an error, and nothing has changed.              *)
OpenFails(p, t) ==
    /\ pc[p] = "idle"
    /\ verdict' = [tool |-> t, outcome |-> "error",
                   alone |-> Alone(p, PathOf[t]), credited |-> {}]
    /\ UNCHANGED <<environment, file, pc, tool, linked, heard, alone, abandoned, crashes>>

(* fs::write then writes the bytes, to the file it opened.                    *)
Write(p) ==
    LET path == PathOf[tool[p]]
    IN  /\ pc[p] = "opened"
        /\ pc' = [pc EXCEPT ![p] = "written"]
        /\ file' = IF linked[p]
                   THEN [file EXCEPT ![path] = Holding(AsksOf[tool[p]])] ELSE file
        /\ alone' = Disturb(p, path)
        /\ UNCHANGED <<environment, tool, linked, heard, abandoned, verdict, crashes>>

(* The write fails with some of the bytes written, and the error is returned    *)
(* before the file is removed.                                               *)
WriteFails(p) ==
    LET path == PathOf[tool[p]]
    IN  /\ pc[p] = "opened"
        /\ \E S \in SUBSET AsksOf[tool[p]] :
               file' = IF linked[p] THEN [file EXCEPT ![path] = Holding(S)] ELSE file
        /\ Abandon(p)
        /\ Report(p, Failed)
        /\ Leave(p)
        /\ UNCHANGED <<environment, crashes>>

(* lean opens the path, whatever is there now; or it cannot be started.        *)
Elaborate(p) ==
    /\ pc[p] = "written"
    /\ pc' = [pc EXCEPT ![p] = "answered"]
    /\ \E h \in {Elaborated(file[PathOf[tool[p]]]), Unavailable} :
           heard' = [heard EXCEPT ![p] = h]
    /\ UNCHANGED <<environment, file, tool, linked, alone, abandoned, verdict, crashes>>

(* Fault: the error of starting lean is returned before the file is removed.   *)
ConcludeKeepingFile(p) ==
    LET j == Judge(tool[p], heard[p])
    IN  /\ pc[p] = "answered"
        /\ IF j.outcome = "error"
           THEN linked' = [linked EXCEPT ![p] = FALSE] /\ UNCHANGED <<file, abandoned>>
           ELSE Remove(PathOf[tool[p]])
        /\ Report(p, j)
        /\ Leave(p)
        /\ UNCHANGED <<environment, crashes>>

(* Fault: a handle on a removed file is taken for the file at the path.        *)
ConcludeKeepingHandles(p) ==
    LET path == PathOf[tool[p]]
    IN  /\ pc[p] = "answered"
        /\ file' = [file EXCEPT ![path] = Absent]
        /\ linked' = [linked EXCEPT ![p] = FALSE]
        /\ abandoned' = [abandoned EXCEPT ![path] = FALSE]
        /\ Report(p, Judge(tool[p], heard[p]))
        /\ Leave(p)
        /\ UNCHANGED <<environment, crashes>>

(* The file is removed whatever lean said, or its removal fails and nobody       *)
(* looks; only then is the answer judged.                                     *)
Conclude(p) ==
    /\ pc[p] = "answered"
    /\ \/ Remove(PathOf[tool[p]])
       \/ Abandon(p) /\ UNCHANGED file
    /\ Report(p, Judge(tool[p], heard[p]))
    /\ Leave(p)
    /\ UNCHANGED <<environment, crashes>>

(* The command is killed: nothing is removed.                                *)
Crash(p) ==
    /\ pc[p] # "idle"
    /\ crashes < MaxCrashes
    /\ crashes' = crashes + 1
    /\ Abandon(p)
    /\ Leave(p)
    /\ UNCHANGED <<environment, file, verdict>>

Next ==
    \E p \in Procs : \/ \E t \in Tools : Open(p, t) \/ OpenFails(p, t)
                     \/ Write(p) \/ WriteFails(p) \/ Elaborate(p)
                     \/ Conclude(p) \/ Crash(p)

Spec == Init /\ [][Next]_vars

--------------------------------------------------------------------------------
(* Properties. *)

(* Every variable keeps its type, and a command's handle is never counted as   *)
(* the file at the path when there is no file there.                         *)
TypeOK ==
    /\ built \in BOOLEAN
    /\ present \subseteq Decls
    /\ ~built => present = {}
    /\ forbidden \subseteq present
    /\ file \in [Paths -> Contents]
    /\ pc \in [Procs -> {"idle", "opened", "written", "answered"}]
    /\ tool \in [Procs -> Tools \cup {"none"}]
    /\ linked \in [Procs -> BOOLEAN]
    /\ alone \in [Procs -> BOOLEAN]
    /\ abandoned \in [Paths -> BOOLEAN]
    /\ heard \in [Procs -> Answers]
    /\ crashes \in 0 .. MaxCrashes
    /\ \A p \in Procs : /\ pc[p] = "idle" <=> tool[p] = "none"
                        /\ linked[p] => /\ pc[p] # "idle"
                                        /\ file[PathOf[tool[p]]] # Absent

(* probe_source deletes its probe whatever lean said: a probe at a path nobody  *)
(* is using was given up by the last command that could have removed it, which *)
(* was killed or had its write or its removal fail, although commands that     *)
(* share a path truncate and remove each other's files.  Whoever removes a     *)
(* probe of that tool again takes it away.                                   *)
NoLeftover ==
    \A f \in Paths :
        file[f] # Absent /\ (\A p \in Procs : ~Uses(p, f)) => abandoned[f]

(* A conclusion drawn while nobody else used the path is about the declarations *)
(* asked, whatever an earlier command left at the path: a clean audit has seen *)
(* every declaration and found no forbidden axiom, a presence probe credits    *)
(* exactly the declarations that are there, and the independence audit judges  *)
(* only when there is an environment to judge, though not only when the        *)
(* declarations are in it.                                                   *)
LoneVerdictIsTrue ==
    verdict.alone /\ verdict.outcome = "pass" =>
        /\ KindOf[verdict.tool] = "audit" =>
               AsksOf[verdict.tool] \subseteq present \ forbidden
        /\ KindOf[verdict.tool] = "presence" =>
               verdict.credited = AsksOf[verdict.tool] \cap present
        /\ KindOf[verdict.tool] = "independence" /\ AsksOf[verdict.tool] # {} => built

(* gate.rs says that "an unseen claim is an unaudited claim": no audit passes  *)
(* without having seen every declaration it asked for.                       *)
CleanAuditSawEveryClaim ==
    verdict.outcome = "pass" /\ KindOf[verdict.tool] = "audit" =>
        AsksOf[verdict.tool] \subseteq present \ forbidden

================================================================================
