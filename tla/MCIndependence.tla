----------------------------- MODULE MCIndependence -----------------------------
(* The two decoder theorems over their shared relation, and a lemma of another  *)
(* namespace whose name contains the name of the second theorem.               *)
EXTENDS Independence

CONSTANTS decode_sound, decode_complete, BinaryRelation, encode,
          sub_decode_complete_aux,    \* Subset.decode_complete_aux
          decode_complete_aux         \* the same from `decode_complete` on

MCEntries ==
    <<[required |-> decode_sound,    declarative |-> BinaryRelation, forbidden |-> {encode}],
      [required |-> decode_complete, declarative |-> BinaryRelation, forbidden |-> {encode}]>>

Printable == {decode_sound, decode_complete, BinaryRelation, encode, sub_decode_complete_aux}
MCNames   == Printable \cup {decode_complete_aux}
MCBodies  == {<<>>} \cup {<<n>> : n \in Printable} \cup {<<n, encode>> : n \in Printable}

MCContaining ==
    [n \in MCNames |->
        IF n = decode_complete THEN {n, decode_complete_aux, sub_decode_complete_aux}
        ELSE IF n = decode_complete_aux THEN {n, sub_decode_complete_aux}
        ELSE {n}]

MCCutAt ==
    [n \in MCNames |->
        [t \in MCNames |->
            IF t = sub_decode_complete_aux /\ n # t /\ t \in MCContaining[n]
            THEN decode_complete_aux ELSE t]]

================================================================================
