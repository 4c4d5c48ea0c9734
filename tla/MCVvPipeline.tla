----------------------------- MODULE MCVvPipeline -----------------------------
(* A layer module that carries a coverage marker and a scratch module outside *)
(* every layer.  Content "d" has as many lines as "a" but carries its marker  *)
(* twice; "b" is longer.                                                     *)
EXTENDS VvPipeline

CONSTANTS wasm, scratch, a, b, d

MCModules == {wasm, scratch}
MCOwned   == {wasm}
MCMarked  == {wasm}
MCContents == {a, b, d}
MCLines   == [c \in MCContents |-> IF c = b THEN 2 ELSE 1]
MCMarkers == [c \in MCContents |-> IF c = d THEN "twice" ELSE "once"]

================================================================================
