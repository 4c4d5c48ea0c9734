------------------------------- MODULE Staleness -------------------------------
(****************************************************************************)
(* What the generators promise together, with no file in sight: every output *)
(* is either stale or current; an edit may make anything stale; a generator  *)
(* that ran while nothing else changed leaves its own output current or stops *)
(* without writing, and it disturbs only the outputs downstream of its own.   *)
(****************************************************************************)
CONSTANTS
    Outputs,     \* the generated files, named by their generators
    Downstream,  \* Downstream[g]: the outputs a write of g's may disturb
    Idle         \* no generator: not an element of Outputs

VARIABLES
    stale,      \* which outputs differ from what their generator would write
    busy,       \* the generator that is running, or Idle
    disturbed   \* something changed since it started reading

vars == <<stale, busy, disturbed>>

Init ==
    /\ stale \in [Outputs -> BOOLEAN]
    /\ busy = Idle
    /\ disturbed = FALSE

(* Anyone edits the tree. *)
Edit ==
    /\ stale' \in [Outputs -> BOOLEAN]
    /\ disturbed' = TRUE
    /\ UNCHANGED busy

Begin(g) ==
    /\ busy = Idle
    /\ busy' = g
    /\ disturbed' = FALSE
    /\ UNCHANGED stale

(* The generator writes its output. *)
Write(g) ==
    /\ busy = g
    /\ busy' = Idle
    /\ stale' \in [Outputs -> BOOLEAN]
    /\ ~disturbed => ~stale'[g]
    /\ \A h \in Outputs \ ({g} \cup Downstream[g]) : stale'[h] = stale[h]
    /\ UNCHANGED disturbed

(* The generator reports a failure or an error and writes nothing. *)
Abandon(g) ==
    /\ busy = g
    /\ busy' = Idle
    /\ UNCHANGED <<stale, disturbed>>

Next ==
    \/ Edit
    \/ \E g \in Outputs : Begin(g) \/ Write(g) \/ Abandon(g)

Spec == Init /\ [][Next]_vars

================================================================================
