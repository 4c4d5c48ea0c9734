-------------------------------- MODULE MCLedger --------------------------------
(* Two names that share a leaf: `f`, an executable witness with an independence *)
(* entry that SPEC does not fence, and `g`, fenced; `s` is not listed.        *)
EXTENDS Ledger

CONSTANTS f, g, s, leaf

MCNames  == {f, g, s}
MCLeafOf == [n \in MCNames |-> leaf]

Sound(n, k) == [name |-> n, kind |-> k, declared |-> TRUE, closes |-> TRUE,
                mentions |-> TRUE, filed |-> TRUE, quotes |-> TRUE]

MCForms ==
    {Sound(f, "exact"), Sound(g, "exact"), Sound(f, "amended"), Sound(g, "weaker"),
     Sound(s, "exact"),
     [Sound(f, "exact") EXCEPT !.closes = FALSE],
     [Sound(g, "amended") EXCEPT !.filed = FALSE],
     [Sound(g, "exact") EXCEPT !.quotes = FALSE]}

================================================================================
